----------------------------- MODULE CommandLease -----------------------------
(***************************************************************************)
(* The life of MinerCommand rows (api/collector_api.py) under the clients   *)
(* and jobs that change them:                                               *)
(*   - edge devices: poll and ack of the control plane, which lease a       *)
(*     command to one device (api/control_plane_api.py);                    *)
(*   - legacy collectors: fetch and result of the collector API, which know *)
(*     no lease (api/collector_api.py);                                     *)
(*   - the operator who creates and cancels commands;                       *)
(*   - the lease recovery job (services/lease_recovery.py).                 *)
(*                                                                          *)
(* The commands are stand-alone (remote_command_id is NULL): the parents    *)
(* of commands are the subject of RemoteCommand.tla.  A handler is not      *)
(* atomic: the step that loads a row into its session and the step that     *)
(* commits are separate, and between them any other handler may commit.     *)
(***************************************************************************)
EXTENDS Integers, FiniteSets, MinerCommandRow

CONSTANTS
    Commands,     \* command ids, numbered in dispatch order (priority, then age)
    Collectors,   \* legacy collectors, clients of the collector API
    Operator,     \* the user of the web application
    PollLimit,    \* limit of a poll
    Workers       \* how many requests the web server works on at a time

ASSUME CommandsAssumption == Commands \subseteq Nat \ {0} /\ IsFiniteSet(Commands)
ASSUME ClientsAssumption  == /\ Devices \cap Collectors = {}
                             /\ Operator \notin Devices \cup Collectors
                             /\ IsFiniteSet(Devices) /\ IsFiniteSet(Collectors)
ASSUME NumbersAssumption  == PollLimit \in Nat \ {0} /\ Workers \in Nat \ {0}

VARIABLES
    row,      \* row[c]: the committed row of command c
    backoff,  \* backoff[c]: next_attempt_at of c lies in the future
    expired,  \* expired[c]: expires_at of c lies in the past
    req,      \* req[x]: the request of client x that the server works on
    rec,      \* the pass of the recovery job
    held,     \* held[x][c]: number of the hand-out of c that client x received, or 0
    sent,     \* sent[c]: how many times c has been handed out (numbers the nonces)
    told      \* told[d][c]: outcome device d has had acknowledged for that hand-out

vars == <<row, backoff, expired, req, rec, held, sent, told>>

Clients == Devices \cup Collectors \cup {Operator}

NoCommand == 0

\* op: "idle", or the handler and how far it is; cmd and snap: the row it has
\* loaded; todo: rows its loop still has to visit; given: what a poll's response
\* holds so far; ack: the outcome an ACK or a report asks for.
Ops == {"idle", "select", "loop", "ack", "expire", "fetch", "report", "cancel"}
Handlers == [op    : Ops,
             cmd   : Commands \cup {NoCommand},
             snap  : Rows,
             todo  : SUBSET Commands,
             given : [Commands -> Numbers],
             ack   : Outcomes]

\* A handler that works on one command has one, and knows what to make of it.
Requests == {r \in Handlers : /\ r.op \in {"ack", "report", "cancel"} => r.cmd # NoCommand
                              /\ r.op \in {"ack", "report"} => r.ack # "none"}

Nothing == [c \in Commands |-> 0]
Untold  == [c \in Commands |-> "none"]
Idle == [op |-> "idle", cmd |-> NoCommand, snap |-> AbsentRow, todo |-> {},
         given |-> Nothing, ack |-> "none"]

Passes  == [cmd : Commands \cup {NoCommand}, snap : Rows, todo : SUBSET Commands]
NoPass  == [cmd |-> NoCommand, snap |-> AbsentRow, todo |-> {}]

-----------------------------------------------------------------------------
\* FOR UPDATE locks of polls that have selected and not yet committed.
Locked(c, x) == \E d \in Devices \ {x} : req[d].op = "select" /\ c \in req[d].todo

IsFirst(c, S) == c \in S /\ \A o \in S : c <= o
FirstN(S, n)  == {c \in S : Cardinality({o \in S : o < c}) < n}

\* A handler that has loaded the row of command c.
Loaded(op, c, outcome) ==
    [Idle EXCEPT !.op = op, !.cmd = c, !.snap = row[c], !.ack = outcome]

\* The server takes up a request of x.
CanStart(x) == /\ req[x].op = "idle"
               /\ Cardinality({y \in Clients : req[y].op # "idle"}) < Workers

\* The back-off of a retry (30 s and more) outlasts the requests and the pass of
\* the recovery job that are in flight when it starts.
Settled(c) == /\ rec.cmd # c /\ c \notin rec.todo
              /\ \A x \in Clients : req[x].cmd # c /\ c \notin req[x].todo

-----------------------------------------------------------------------------
Init ==
    /\ row = [c \in Commands |-> AbsentRow]
    /\ backoff = [c \in Commands |-> FALSE]
    /\ expired = [c \in Commands |-> FALSE]
    /\ req = [x \in Clients |-> Idle]
    /\ rec = NoPass
    /\ held = [x \in Clients |-> Nothing]
    /\ sent = Nothing
    /\ told = [d \in Devices |-> Untold]

\* create_command: a new row, due at once.
Create(c) ==
    /\ CanStart(Operator)
    /\ row[c].status = "absent"
    /\ row' = [row EXCEPT ![c] = NewRow]
    /\ UNCHANGED <<backoff, expired, req, rec, held, sent, told>>

-----------------------------------------------------------------------------
(* edge_poll_commands: one locking SELECT, then a loop that commits after   *)
(* every command (the audit event's commit), which ends the locks of all.   *)

\* Faults: a poll that overlooks next_attempt_at, and one that serves leased
\* commands again.
PollableEarly(c) == row[c].status = "pending" /\ ~expired[c]
PollableTwice(c) == row[c].status \in {"pending", "dispatched"} /\ ~backoff[c] /\ ~expired[c]

Pollable(c) == row[c].status = "pending" /\ ~backoff[c] /\ ~expired[c]

PollSelect(d) ==
    /\ CanStart(d)
    /\ LET batch == FirstN({c \in Commands : Pollable(c) /\ ~Locked(c, d)}, 2 * PollLimit)
       IN  \E c \in Commands :
               /\ IsFirst(c, batch)
               /\ req' = [req EXCEPT ![d] = [Idle EXCEPT !.op = "select", !.todo = batch,
                                                        !.cmd = c, !.snap = row[c]]]
    /\ UNCHANGED <<row, backoff, expired, rec, held, sent, told>>

InPollLoop(d) == req[d].op \in {"select", "loop"}

\* The commit of one iteration: the request goes on without locks or loaded rows.
IterationDone(d, given) ==
    req' = [req EXCEPT ![d] = [Idle EXCEPT !.op = "loop",
                                           !.todo = req[d].todo \ {req[d].cmd},
                                           !.given = given]]

PollDispatch(d) ==
    LET c == req[d].cmd
        n == sent[c] + 1
    IN  /\ InPollLoop(d)
        /\ c # NoCommand
        /\ ~Locked(c, d)
        /\ n <= MaxDispatch
        /\ row' = [row EXCEPT ![c] =       \* a new lease_until always differs
               [Flush(@, req[d].snap, Leased(req[d].snap, d, n)) EXCEPT !.lease_until = "live"]]
        /\ sent' = [sent EXCEPT ![c] = n]
        /\ IterationDone(d, [req[d].given EXCEPT ![c] = n])
        /\ UNCHANGED <<backoff, expired, rec, held, told>>

\* The rate limiter refuses: only the audit event is committed.
PollRateLimited(d) ==
    /\ InPollLoop(d)
    /\ req[d].cmd # NoCommand
    /\ IterationDone(d, req[d].given)
    /\ UNCHANGED <<row, backoff, expired, rec, held, sent, told>>

Granted(d) == Cardinality({c \in Commands : req[d].given[c] # 0})

\* The next object of the batch was expired by the commit: it is loaded again,
\* and its status is not looked at again.
PollNext(d) ==
    /\ req[d].op = "loop" /\ req[d].cmd = NoCommand
    /\ Granted(d) < PollLimit
    /\ \E c \in Commands :
           /\ IsFirst(c, req[d].todo)
           /\ req' = [req EXCEPT ![d].cmd = c, ![d].snap = row[c]]
    /\ UNCHANGED <<row, backoff, expired, rec, held, sent, told>>

\* The response reaches the device, or is lost.
PollEnd(d) ==
    /\ req[d].op = "loop" /\ req[d].cmd = NoCommand
    /\ req[d].todo = {} \/ Granted(d) >= PollLimit
    /\ \/ LET new(c) == req[d].given[c] # 0
          IN  /\ held' = [held EXCEPT ![d] =
                     [c \in Commands |-> IF new(c) THEN req[d].given[c] ELSE @[c]]]
              /\ told' = [told EXCEPT ![d] =
                     [c \in Commands |-> IF new(c) THEN "none" ELSE @[c]]]
       \/ UNCHANGED <<held, told>>
    /\ req' = [req EXCEPT ![d] = Idle]
    /\ UNCHANGED <<row, backoff, expired, rec, sent>>

-----------------------------------------------------------------------------
(* edge_ack_command: checks on the loaded row, then one commit.  ACKs that  *)
(* the checks refuse or answer as replayed change no row.                   *)

AckAccepted(d, c, n) ==
    /\ n = 0 \/ row[c].dispatch_nonce = 0 \/ n = row[c].dispatch_nonce
    /\ row[c].status \notin TERMINAL_STATES
    /\ row[c].lease_owner \in {NoOwner, d}

\* A device has one outcome per hand-out, and sends it again when no answer came;
\* one it deferred it may finish later.  It may send its nonce or, as
\* command_runner.py does, leave it out.
AckLoad(d, c, s, n) ==
    /\ CanStart(d)
    /\ held[d][c] # 0
    /\ told[d][c] \in {"none", "deferred", s}
    /\ n \in {0, held[d][c]}
    /\ AckAccepted(d, c, n)
    /\ req' = [req EXCEPT ![d] = Loaded("ack", c, IF expired[c] THEN "expired" ELSE s)]
    /\ UNCHANGED <<row, backoff, expired, rec, held, sent, told>>

AckCommit(d) ==
    LET c == req[d].cmd
        r == req[d]
    IN  /\ r.op = "ack"
        /\ ~Locked(c, d)
        /\ row' = [row EXCEPT ![c] = Flush(@, r.snap, AckedRow(r.snap, r.ack))]
        /\ backoff' = [backoff EXCEPT ![c] = @ \/ Retries(r.snap, r.ack)]
        /\ told' = [told EXCEPT ![d][c] = r.ack]
        /\ req' = [req EXCEPT ![d] = Idle]
        /\ UNCHANGED <<expired, rec, held, sent>>

-----------------------------------------------------------------------------
(* _recover_expired_leases: a SELECT, then one commit per command.          *)

\* Fault: commands without retries left are skipped instead of failed.
RecoverSelectRetriable ==
    /\ rec = NoPass
    /\ LET lapsed == {c \in Commands : /\ row[c].status = "dispatched"
                                       /\ row[c].lease_until = "lapsed"
                                       /\ row[c].retry_count < MaxRetries}
       IN  \E c \in lapsed :
               rec' = [cmd |-> c, snap |-> row[c], todo |-> lapsed \ {c}]
    /\ UNCHANGED <<row, backoff, expired, req, held, sent, told>>

RecoverSelect ==
    /\ rec = NoPass
    /\ LET lapsed == {c \in Commands : /\ row[c].status = "dispatched"
                                       /\ row[c].lease_until = "lapsed"
                                       /\ row[c].lease_owner # NoOwner}
       IN  \E c \in lapsed :
               rec' = [cmd |-> c, snap |-> row[c], todo |-> lapsed \ {c}]
    /\ UNCHANGED <<row, backoff, expired, req, held, sent, told>>

\* _retry_command or _fail_command.
RecoverCommit ==
    LET c == rec.cmd
    IN  /\ c # NoCommand
        /\ ~Locked(c, Operator)
        /\ row' = [row EXCEPT ![c] = Flush(@, rec.snap, RecoveredRow(rec.snap))]
        /\ backoff' = [backoff EXCEPT ![c] = @ \/ rec.snap.retry_count < MaxRetries]
        /\ rec' = [NoPass EXCEPT !.todo = rec.todo]
        /\ UNCHANGED <<expired, req, held, sent, told>>

\* The commit expired the other objects: the next one is loaded again, and of
\* the SELECT's conditions none is checked again.
RecoverNext ==
    /\ rec.cmd = NoCommand
    /\ \E c \in rec.todo :
           rec' = [cmd |-> c, snap |-> row[c], todo |-> rec.todo \ {c}]
    /\ UNCHANGED <<row, backoff, expired, req, held, sent, told>>

-----------------------------------------------------------------------------
(* The collector API: fetch_pending_commands, report_command_result.        *)

FetchExpire(k) ==
    LET stale == {c \in Commands : row[c].status = "pending" /\ expired[c]}
    IN  /\ CanStart(k)
        /\ \A c \in stale : ~Locked(c, k)
        /\ row' = [c \in Commands |->
                      IF c \in stale THEN [row[c] EXCEPT !.status = "expired"] ELSE row[c]]
        /\ req' = [req EXCEPT ![k] = [Idle EXCEPT !.op = "expire"]]
        /\ UNCHANGED <<backoff, expired, rec, held, sent, told>>

\* Fault: commands that were sent are fetched again.
FetchSelectAgain(k) ==
    LET batch == {c \in Commands : row[c].status \in {"pending", "sent"} /\ ~expired[c]}
    IN  /\ req[k].op = "expire"
        /\ req' = [req EXCEPT ![k] =
               IF batch = {} THEN Idle ELSE [Idle EXCEPT !.op = "fetch", !.todo = batch]]
        /\ UNCHANGED <<row, backoff, expired, rec, held, sent, told>>

\* Neither next_attempt_at nor a lock is looked at.
FetchSelect(k) ==
    LET batch == {c \in Commands : row[c].status = "pending" /\ ~expired[c]}
    IN  /\ req[k].op = "expire"
        /\ req' = [req EXCEPT ![k] =
               IF batch = {} THEN Idle ELSE [Idle EXCEPT !.op = "fetch", !.todo = batch]]
        /\ UNCHANGED <<row, backoff, expired, rec, held, sent, told>>

FetchCommit(k) ==
    LET got == req[k].todo
        n   == [c \in Commands |-> sent[c] + 1]
    IN  /\ req[k].op = "fetch"
        /\ \A c \in got : ~Locked(c, k) /\ n[c] <= MaxDispatch
        /\ row' = [c \in Commands |->
                      IF c \in got THEN [row[c] EXCEPT !.status = "sent"] ELSE row[c]]
        /\ sent' = [c \in Commands |-> IF c \in got THEN n[c] ELSE sent[c]]
        /\ \/ held' = [held EXCEPT ![k] =
                  [c \in Commands |-> IF c \in got THEN n[c] ELSE held[k][c]]]
           \/ UNCHANGED held
        /\ req' = [req EXCEPT ![k] = Idle]
        /\ UNCHANGED <<backoff, expired, rec, told>>

ReportLoad(k, c, s) ==
    /\ CanStart(k)
    /\ held[k][c] # 0
    /\ req' = [req EXCEPT ![k] = Loaded("report", c, s)]
    /\ UNCHANGED <<row, backoff, expired, rec, held, sent, told>>

\* Fault: a reported failure puts the command back for another try, as an ACK does.
ReportCommitAgain(k) ==
    LET c == req[k].cmd
        s == IF Retries(req[k].snap, req[k].ack) THEN "pending" ELSE req[k].ack
    IN  /\ req[k].op = "report"
        /\ ~Locked(c, k)
        /\ row' = [row EXCEPT ![c].status = Net(req[k].snap.status, s, @)]
        /\ req' = [req EXCEPT ![k] = Idle]
        /\ UNCHANGED <<backoff, expired, rec, held, sent, told>>

\* The reported status replaces whatever the status is.
ReportCommit(k) ==
    LET c == req[k].cmd
    IN  /\ req[k].op = "report"
        /\ ~Locked(c, k)
        /\ row' = [row EXCEPT ![c].status = Net(req[k].snap.status, req[k].ack, @)]
        /\ req' = [req EXCEPT ![k] = Idle]
        /\ UNCHANGED <<backoff, expired, rec, held, sent, told>>

\* cancel_command
CancelLoad(c) ==
    /\ CanStart(Operator)
    /\ row[c].status \in {"pending", "sent"}
    /\ req' = [req EXCEPT ![Operator] = Loaded("cancel", c, "none")]
    /\ UNCHANGED <<row, backoff, expired, rec, held, sent, told>>

CancelCommit ==
    LET c == req[Operator].cmd
    IN  /\ req[Operator].op = "cancel"
        /\ ~Locked(c, Operator)
        /\ row' = [row EXCEPT ![c].status = "cancelled"]
        /\ req' = [req EXCEPT ![Operator] = Idle]
        /\ UNCHANGED <<backoff, expired, rec, held, sent, told>>

-----------------------------------------------------------------------------
(* Time, and failures of processes.                                         *)

LeaseLapse(c) ==
    /\ row[c].lease_until = "live"
    /\ row' = [row EXCEPT ![c].lease_until = "lapsed"]
    /\ UNCHANGED <<backoff, expired, req, rec, held, sent, told>>

BackoffElapse(c) ==
    /\ backoff[c] /\ Settled(c)
    /\ backoff' = [backoff EXCEPT ![c] = FALSE]
    /\ UNCHANGED <<row, expired, req, rec, held, sent, told>>

CommandExpire(c) ==
    /\ row[c].status # "absent" /\ ~expired[c]
    /\ expired' = [expired EXCEPT ![c] = TRUE]
    /\ UNCHANGED <<row, backoff, req, rec, held, sent, told>>

\* The worker dies: the open transaction is rolled back, nothing is answered.
RequestDies(x) ==
    /\ req[x].op # "idle"
    /\ req' = [req EXCEPT ![x] = Idle]
    /\ UNCHANGED <<row, backoff, expired, rec, held, sent, told>>

RecoveryDies ==
    /\ rec # NoPass
    /\ rec' = NoPass
    /\ UNCHANGED <<row, backoff, expired, req, held, sent, told>>

\* A client restarts and forgets the commands it was given.
ClientRestart(x) ==
    /\ req[x].op = "idle" /\ held[x] # Nothing
    /\ held' = [held EXCEPT ![x] = Nothing]
    /\ told' = [d \in Devices |-> IF d = x THEN Untold ELSE told[d]]
    /\ UNCHANGED <<row, backoff, expired, req, rec, sent>>

-----------------------------------------------------------------------------
PollStep(d)   == PollSelect(d) \/ PollDispatch(d) \/ PollRateLimited(d) \/ PollNext(d) \/ PollEnd(d)
AckStep(d)    == \/ \E c \in Commands, s \in AckStatuses, n \in Numbers : AckLoad(d, c, s, n)
                 \/ AckCommit(d)
FetchStep(k)  == FetchExpire(k) \/ FetchSelect(k) \/ FetchCommit(k)
ReportStep(k) == \/ \E c \in Commands, s \in {"completed", "failed"} : ReportLoad(k, c, s)
                 \/ ReportCommit(k)
CancelStep    == (\E c \in Commands : CancelLoad(c)) \/ CancelCommit
RecoverStep   == RecoverSelect \/ RecoverCommit \/ RecoverNext
TimeStep(c)   == LeaseLapse(c) \/ BackoffElapse(c) \/ CommandExpire(c)

Next ==
    \/ \E c \in Commands : Create(c) \/ TimeStep(c)
    \/ \E d \in Devices : PollStep(d) \/ AckStep(d)
    \/ \E k \in Collectors : FetchStep(k) \/ ReportStep(k)
    \/ CancelStep
    \/ RecoverStep
    \/ \E x \in Clients : RequestDies(x) \/ ClientRestart(x)
    \/ RecoveryDies

Spec == Init /\ [][Next]_vars

(* The server ends what it has taken up, the recovery job runs every minute *)
(* (and does not die in every pass), and time passes.                       *)
ServerFairness ==
    /\ \A d \in Devices :
           /\ WF_vars(PollDispatch(d) \/ PollRateLimited(d) \/ PollNext(d) \/ PollEnd(d))
           /\ WF_vars(AckCommit(d))
    /\ WF_vars(CancelCommit)
    /\ WF_vars(RecoverSelect) /\ SF_vars(RecoverCommit) /\ WF_vars(RecoverNext)
    /\ \A c \in Commands : WF_vars(LeaseLapse(c)) /\ SF_vars(BackoffElapse(c))

-----------------------------------------------------------------------------
\* Every variable keeps its type.
TypeOK ==
    /\ row \in [Commands -> Rows]
    /\ backoff \in [Commands -> BOOLEAN]
    /\ expired \in [Commands -> BOOLEAN]
    /\ req \in [Clients -> Requests]
    /\ rec \in Passes
    /\ held \in [Clients -> [Commands -> Numbers]]
    /\ sent \in [Commands -> Numbers]
    /\ told \in [Devices -> [Commands -> Outcomes]]

-----------------------------------------------------------------------------
(* Properties.                                                              *)

\* A command is handed out once, and once more for every retry it is allowed.
HandOutBound == \A c \in Commands : sent[c] <= MaxRetries + 1

\* The status and the two lease columns tell the same story.
LeaseConsistent == \A c \in Commands : Consistent(row[c])

\* A fetch is about to hand out a command that the recovery job has failed since the
\* fetch selected it.
FailedInFetch(c) ==
    row[c].status = "failed" /\ \E k \in Collectors : req[k].op = "fetch" /\ c \in req[k].todo

\* A fetch that begins has selected pending commands.
FetchesPending(k) ==
    req[k].op # "fetch" /\ req'[k].op = "fetch" =>
        \A c \in req'[k].todo : row[c].status = "pending"

\* Nobody is handed a command that is leased, in a collector's hands, or ended, but for
\* a fetch that selected it when it was pending, and that the recovery job overtakes.
HandedOutWhenPending ==
    [][/\ \A c \in Commands :
              sent'[c] # sent[c] => row[c].status = "pending" \/ FailedInFetch(c)
       /\ \A k \in Collectors : FetchesPending(k)]_vars

\* Nobody is handed a command before the back-off of its last failure is over.
BackoffRespected ==
    [][\A c \in Commands : sent'[c] # sent[c] => ~backoff[c]]_vars

\* Only the recovery job, an ACK that loaded the command before it ended, or a fetch
\* that selected it before, can bring an ended command back.
RevivedByRaceOnly ==
    [][\A c \in Commands : Ended(row[c]) /\ ~Ended(row'[c]) =>
           \/ rec.cmd = c /\ rec'.cmd # c
           \/ \E d \in Devices : req[d].op = "ack" /\ req[d].cmd = c /\ ~Ended(req[d].snap)
           \/ FailedInFetch(c) /\ sent'[c] # sent[c]]_vars

\* Every command comes to rest: ended, expired before anyone asked for it, or
\* left where a device deferred it.
ComesToRest ==
    \A c \in Commands :
        <>[](\/ row[c].status = "absent" \/ Ended(row[c]) \/ row[c].status = "deferred"
             \/ row[c].status = "pending" /\ expired[c])

\* The abstract lease of ExclusiveLease.tla, as these rows implement it.
Lease == INSTANCE ExclusiveLease WITH
             holder   <- [c \in Commands |-> row[c].lease_owner],
             handouts <- sent

LeaseSpec     == Lease!Spec
LeaseFairSpec == Lease!FairSpec

-----------------------------------------------------------------------------
(* The inductive invariant behind HandOutBound, LeaseConsistent and         *)
(* LeaseSpec, for the deployment of gunicorn.conf.py (one synchronous       *)
(* worker) at a site without legacy collectors.                             *)

Serial == Workers = 1 /\ Collectors = {}

OneRequestAtATime ==
    \A x, y \in Clients : req[x].op # "idle" /\ req[y].op # "idle" => x = y

\* Every hand-out but the first is paid for with a retry.
HandOutsPaid ==
    \A c \in Commands :
        /\ sent[c] <= row[c].retry_count + 1
        /\ row[c].status = "pending" => sent[c] <= row[c].retry_count
        /\ row[c].status = "absent" => sent[c] = 0

\* A command the recovery job still wants to visit can not be polled meanwhile.
PassBlocksPolling ==
    \A c \in Commands : c = rec.cmd \/ c \in rec.todo =>
        row[c].status # "absent" /\ (row[c].status = "pending" => backoff[c])

\* The batch of a poll stays pending, and the loaded row of the batch is fresh.
BatchIsPending ==
    \A d \in Devices : InPollLoop(d) =>
        /\ \A c \in req[d].todo : row[c].status = "pending" /\ ~backoff[c]
        /\ req[d].cmd # NoCommand =>
               req[d].cmd \in req[d].todo /\ req[d].snap = row[req[d].cmd]

\* What a row of c that was loaded earlier still tells of c.
UsefulSnapshot(snap, c) == /\ Consistent(snap)
                           /\ snap.lease_owner = NoOwner => row[c].lease_owner = NoOwner
                           /\ sent[c] <= snap.retry_count + 1

SnapshotsUseful ==
    /\ rec.cmd # NoCommand => UsefulSnapshot(rec.snap, rec.cmd)
    /\ \A d \in Devices : req[d].op = "ack" => UsefulSnapshot(req[d].snap, req[d].cmd)
    /\ req[Operator].op = "cancel" => row[req[Operator].cmd].lease_owner = NoOwner

SerialInv == /\ OneRequestAtATime
             /\ LeaseConsistent
             /\ HandOutsPaid
             /\ PassBlocksPolling
             /\ BatchIsPending
             /\ SnapshotsUseful

-----------------------------------------------------------------------------
(* The inductive invariant behind HandedOutWhenPending and                  *)
(* RevivedByRaceOnly, with one worker, whatever collectors do.              *)

\* What a request has selected and loaded still allows what it is about to do.
Promising(r) ==
    /\ r.op \in {"select", "loop"} =>
           /\ \A c \in r.todo : row[c].status = "pending" /\ ~backoff[c]
           /\ r.cmd # NoCommand => r.cmd \in r.todo /\ r.snap.status = "pending"
    /\ r.op = "fetch" => \A c \in r.todo : row[c].status \in {"pending", "failed"}
    /\ r.op = "ack" => ~Ended(r.snap)
    /\ r.op = "report" => r.ack \in {"completed", "failed"}

TurnsInv == /\ OneRequestAtATime
            /\ PassBlocksPolling
            /\ \A x \in Clients : Promising(req[x])

=============================================================================
