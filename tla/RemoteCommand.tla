----------------------------- MODULE RemoteCommand -----------------------------
(***************************************************************************)
(* A RemoteCommand (models_remote_control.py): an operation on several      *)
(* miners, and the MinerCommands it is dispatched as.                       *)
(*   - The operators create, approve and cancel it (remote_control_api.py); *)
(*     the approval splits it into one MinerCommand per miner               *)
(*     (services/command_dispatcher.py).                                    *)
(*   - Polls hand out its children and, while it is QUEUED, itself.         *)
(*   - Two procedures derive its status from its children: the control      *)
(*     plane's after an ACK (_sync_remote_command_status), the collector    *)
(*     API's after a report (aggregate_command_results).                    *)
(*                                                                          *)
(* An ACK, the recovery job and whatever changes the parent load first and  *)
(* commit later, and another of them may commit in between.  A poll, a      *)
(* fetch, a report and a cancellation are one step on their child: how      *)
(* these interleave with each other is the subject of CommandLease.         *)
(***************************************************************************)
EXTENDS Integers, FiniteSets, MinerCommandRow

CONSTANTS
    Miners,      \* the miners of target_ids
    Foreign,     \* those of them that the site does not own
    Collectors,  \* legacy collectors of the collector API
    Operators,   \* users who may approve and cancel
    Copies,      \* bound: how often the command can be dispatched, 1 .. n
    Worlds       \* the circumstances to check

Clients == Devices \cup Collectors \cup Operators

\* clients: who takes part; workers: how many requests the web server works on at a
\* time; lapses: leases may lapse before their ACK; dies: the server's worker may die.
ASSUME RemoteAssumption ==
    /\ Foreign \subseteq Miners
    /\ IsFiniteSet(Clients)
    /\ Copies \subseteq Nat \ {0}
    /\ Worlds \subseteq [clients : SUBSET Clients, workers : Nat \ {0},
                        lapses : BOOLEAN, dies : BOOLEAN]

VARIABLES
    remote,    \* status of the RemoteCommand
    results,   \* results[m]: result_status of its RemoteCommandResult for m
    child,     \* child[i]: row of the MinerCommand i
    expired,   \* expires_at, which the children inherit, lies in the past
    req,       \* req[x]: the request of client x that the server works on
    rec,       \* the pass of the recovery job
    held,      \* held[x]: the children that client x was handed
    ran,       \* ran[m]: what edges were told to run on miner m: children, or itself
    overtaken, \* children that had ended, and that recovery then put into another status
    world      \* the circumstances, chosen once

vars == <<remote, results, child, expired, req, rec, held, ran, overtaken, world>>

Ids     == Miners \X Copies      \* a child: its miner, and the dispatch it is from
MinerOf(i) == i[1]
Exists(i)  == child[i].status # "absent"
Itself(m)  == <<m, 0>>           \* stands for the command itself, handed out for m

CommandStatus == {"PENDING", "PENDING_APPROVAL", "QUEUED", "RUNNING",
                  "SUCCEEDED", "FAILED", "CANCELLED", "EXPIRED"}
IsTerminal(s) == s \in {"SUCCEEDED", "FAILED", "CANCELLED", "EXPIRED"}
ResultStatus  == {"none", "PENDING", "SUCCEEDED", "FAILED", "SKIPPED"}

Parents == CommandStatus \cup {"absent", "PARTIAL"}

\* A request that has something left to do: cmd, snap and ack are the child that an
\* ACK is for, its row as it was loaded, and the outcome; was and will the status of
\* the parent that was loaded and the one to write, marks the result rows to write.
NoChild  == <<>>
Unmarked == [m \in Miners |-> "none"]
Ops      == {"idle", "ack", "sync", "aggregate", "write", "approve", "dispatch", "cancel"}
Handlers == [op    : Ops,
             cmd   : Ids \cup {NoChild},
             snap  : Rows,
             ack   : Outcomes,
             was   : Parents,
             will  : Parents,
             marks : [Miners -> ResultStatus]]
Request  == {r \in Handlers : r.op = "ack" => r.cmd \in Ids /\ r.ack # "none"}
Idle     == [op |-> "idle", cmd |-> NoChild, snap |-> AbsentRow, ack |-> "none",
             was |-> "absent", will |-> "absent", marks |-> Unmarked]

\* The row that recovery has loaded, and those that it still has to visit.
Passes == [cmd : Ids \cup {NoChild}, snap : Rows, todo : SUBSET Ids]
NoPass == [cmd |-> NoChild, snap |-> AbsentRow, todo |-> {}]

Init ==
    /\ remote = "absent"
    /\ results = Unmarked
    /\ child = [i \in Ids |-> AbsentRow]
    /\ expired = FALSE
    /\ req = [x \in Clients |-> Idle]
    /\ rec = NoPass
    /\ held = [x \in Clients |-> {}]
    /\ ran = [m \in Miners |-> {}]
    /\ overtaken = {}
    /\ world \in Worlds

CanStart(x) == /\ x \in world.clients /\ req[x].op = "idle"
               /\ Cardinality({y \in Clients : req[y].op # "idle"}) < world.workers

Proceed(x, op) == req' = [req EXCEPT ![x] = [Idle EXCEPT !.op = op]]
Done(x)        == req' = [req EXCEPT ![x] = Idle]

-----------------------------------------------------------------------------
(* remote_control_api.py                                                    *)

\* _create_command_impl
Create(x, require_approval) ==
    /\ CanStart(x)
    /\ remote = "absent"
    /\ remote' = IF require_approval THEN "PENDING_APPROVAL" ELSE "QUEUED"
    /\ results' = [m \in Miners |-> "PENDING"]
    /\ UNCHANGED <<child, expired, req, rec, held, ran, overtaken, world>>

\* Fault: the status is not checked.
ApproveLoadAgain(x) ==
    /\ CanStart(x)
    /\ remote # "absent"
    /\ Proceed(x, "approve")
    /\ UNCHANGED <<remote, results, child, expired, rec, held, ran, overtaken, world>>

ApproveLoad(x) ==
    /\ CanStart(x)
    /\ remote = "PENDING_APPROVAL"
    /\ Proceed(x, "approve")
    /\ UNCHANGED <<remote, results, child, expired, rec, held, ran, overtaken, world>>

ApproveCommit(x) ==
    /\ req[x].op = "approve"
    /\ remote' = "QUEUED"
    /\ Proceed(x, "dispatch")
    /\ UNCHANGED <<results, child, expired, rec, held, ran, overtaken, world>>

\* dispatch_remote_command: a child for every miner that the site owns.
Dispatch(x) ==
    /\ req[x].op = "dispatch"
    /\ \E n \in Copies :
           /\ \A m \in Miners : ~Exists(<<m, n>>)
           /\ \A k \in Copies : k < n => \E m \in Miners : Exists(<<m, k>>)
           /\ child' = [i \in Ids |-> IF i[2] = n /\ MinerOf(i) \notin Foreign
                                      THEN NewRow ELSE child[i]]
    /\ results' = [m \in Miners |-> IF m \in Foreign THEN "SKIPPED" ELSE results[m]]
    /\ remote' = IF Foreign = Miners THEN "FAILED" ELSE remote
    /\ Done(x)
    /\ UNCHANGED <<expired, rec, held, ran, overtaken, world>>

\* cancel_command; the children are left alone.
CancelLoad(x) ==
    /\ CanStart(x)
    /\ remote \in {"PENDING", "PENDING_APPROVAL", "QUEUED"}
    /\ Proceed(x, "cancel")
    /\ UNCHANGED <<remote, results, child, expired, rec, held, ran, overtaken, world>>

CancelCommit(x) ==
    /\ req[x].op = "cancel"
    /\ remote' = "CANCELLED"
    /\ results' = [m \in Miners |-> IF results[m] = "PENDING" THEN "SKIPPED" ELSE results[m]]
    /\ Done(x)
    /\ UNCHANGED <<child, expired, rec, held, ran, overtaken, world>>

-----------------------------------------------------------------------------
(* The control plane: edge_poll_commands, edge_ack_command.                 *)

\* The edge x is told to run is; the answer may be lost.
HandOut(x, is) ==
    /\ \/ held' = [held EXCEPT ![x] = @ \cup (is \cap Ids)]
       \/ held' = held
    /\ ran' = [m \in Miners |-> ran[m] \cup {i \in is : MinerOf(i) = m}]

PollChild(d, i) ==
    /\ CanStart(d)
    /\ child[i].status = "pending" /\ ~expired
    /\ child' = [child EXCEPT ![i] = Leased(@, d, 0)]
    /\ HandOut(d, {i})
    /\ UNCHANGED <<remote, results, expired, req, rec, overtaken, world>>

\* The second section of the poll.  The device knows no ACK for what it gets
\* here: the server looks for a MinerCommand of that id, which is no number.
PollRemote(d) ==
    /\ CanStart(d)
    /\ remote = "QUEUED" /\ ~expired
    /\ remote' = "RUNNING"
    /\ HandOut(d, {Itself(m) : m \in Miners})
    /\ UNCHANGED <<results, child, expired, req, rec, overtaken, world>>

\* edge_ack_command up to its commit.
AckLoad(d, i, s) ==
    /\ CanStart(d)
    /\ i \in held[d]
    /\ ~Ended(child[i])
    /\ child[i].lease_owner \in {NoOwner, d}
    /\ req' = [req EXCEPT ![d] = [Idle EXCEPT !.op = "ack", !.cmd = i, !.snap = child[i],
                                              !.ack = IF expired THEN "expired" ELSE s]]
    /\ UNCHANGED <<remote, results, child, expired, rec, held, ran, overtaken, world>>

\* What the ACK of device d makes of its child.
Acked(d) == LET r == req[d] IN Flush(child[r.cmd], r.snap, AckedRow(r.snap, r.ack))

\* Fault: the parent is forgotten when the command has expired.
AckForgetting(d) ==
    /\ req[d].op = "ack"
    /\ child' = [child EXCEPT ![req[d].cmd] = Acked(d)]
    /\ IF req[d].ack = "expired" THEN Done(d) ELSE Proceed(d, "sync")
    /\ UNCHANGED <<remote, results, expired, rec, held, ran, overtaken, world>>

\* The ACK's own transaction; the parent's follows.  Whether the child has ended is
\* looked up again after the commit: the sync finds so itself.
AckCommit(d) ==
    /\ req[d].op = "ack"
    /\ child' = [child EXCEPT ![req[d].cmd] = Acked(d)]
    /\ Proceed(d, "sync")
    /\ UNCHANGED <<remote, results, expired, rec, held, ran, overtaken, world>>

Children == {i \in Ids : Exists(i)}
Some(S)  == \E i \in Children : child[i].status \in S
All(S)   == \A i \in Children : child[i].status \in S

\* Fault: expired children count as successes.
SyncVerdictLenient == IF Some({"failed", "cancelled"}) THEN "FAILED" ELSE "SUCCEEDED"

SyncVerdict == IF Some({"failed", "expired", "cancelled"}) THEN "FAILED" ELSE "SUCCEEDED"

\* Fault: a command that has ended is given a verdict again.
SyncLoadAgain(d) ==
    /\ req[d].op = "sync"
    /\ IF All(TERMINAL_STATES)
       THEN req' = [req EXCEPT ![d] = [Idle EXCEPT !.op = "write", !.was = remote,
                                                  !.will = SyncVerdict]]
       ELSE Done(d)
    /\ UNCHANGED <<remote, results, child, expired, rec, held, ran, overtaken, world>>

\* _sync_remote_command_status
SyncLoad(d) ==
    /\ req[d].op = "sync"
    /\ IF All(TERMINAL_STATES) /\ ~IsTerminal(remote)
       THEN req' = [req EXCEPT ![d] = [Idle EXCEPT !.op = "write", !.was = remote,
                                                  !.will = SyncVerdict]]
       ELSE Done(d)
    /\ UNCHANGED <<remote, results, child, expired, rec, held, ran, overtaken, world>>

\* The commit of _sync_remote_command_status and of aggregate_command_results.
Write(x) ==
    /\ req[x].op = "write"
    /\ remote' = Net(req[x].was, req[x].will, remote)
    /\ results' = [m \in Miners |->
                      IF req[x].marks[m] = "none" THEN results[m] ELSE req[x].marks[m]]
    /\ Done(x)
    /\ UNCHANGED <<child, expired, rec, held, ran, overtaken, world>>

-----------------------------------------------------------------------------
(* The collector API: fetch_pending_commands, report_command_result,        *)
(* cancel_command (of a child).                                             *)

Fetch(k) ==
    LET due == {i \in Ids : child[i].status = "pending"}
        now == IF expired THEN "expired" ELSE "sent"
    IN  /\ CanStart(k)
        /\ due # {}
        /\ child' = [i \in Ids |-> IF i \in due THEN [child[i] EXCEPT !.status = now] ELSE child[i]]
        /\ IF expired THEN UNCHANGED <<held, ran>>
           ELSE HandOut(k, due)
        /\ UNCHANGED <<remote, results, expired, req, rec, overtaken, world>>

Report(k, i, s) ==
    /\ CanStart(k)
    /\ i \in held[k]
    /\ child' = [child EXCEPT ![i].status = s]
    /\ Proceed(k, "aggregate")
    /\ UNCHANGED <<remote, results, expired, rec, held, ran, overtaken, world>>

AggregateVerdict == IF ~Some({"failed", "expired"}) THEN "SUCCEEDED"
                    ELSE IF Some({"completed"}) THEN "PARTIAL" ELSE "FAILED"

\* Fault: children that were only sent count as finished.
AllCountedSent == All({"sent", "completed", "failed", "expired", "cancelled"})

\* finished >= stats['total']
AllCounted == All({"completed", "failed", "expired", "cancelled"})

\* The result row of a miner follows its child that was visited last.
Mark(m) == LET ended == {i \in Children : MinerOf(i) = m /\ child[i].status \in {"completed", "failed"}}
           IN  IF ended = {} THEN {"none"}
               ELSE {IF child[i].status = "completed" THEN "SUCCEEDED" ELSE "FAILED" : i \in ended}

\* aggregate_command_results
AggregateLoad(k) ==
    /\ req[k].op = "aggregate"
    /\ \E marks \in [Miners -> ResultStatus] :
           /\ \A m \in Miners : marks[m] \in Mark(m)
           /\ req' = [req EXCEPT ![k] =
                  [Idle EXCEPT !.op = "write", !.was = remote,
                      !.will = IF AllCounted THEN AggregateVerdict ELSE remote,
                      !.marks = [m \in Miners |-> IF marks[m] = results[m] THEN "none" ELSE marks[m]]]]
    /\ UNCHANGED <<remote, results, child, expired, rec, held, ran, overtaken, world>>

CancelChild(x, i) ==
    /\ CanStart(x)
    /\ child[i].status \in {"pending", "sent"}
    /\ child' = [child EXCEPT ![i].status = "cancelled"]
    /\ UNCHANGED <<remote, results, expired, req, rec, held, ran, overtaken, world>>

-----------------------------------------------------------------------------
(* services/lease_recovery.py: a SELECT, then one commit per child; the     *)
(* parent is left alone.                                                    *)

RecoverSelect ==
    LET lapsed == {i \in Ids : /\ child[i].status = "dispatched"
                              /\ child[i].lease_until = "lapsed"
                              /\ child[i].lease_owner # NoOwner}
    IN  /\ rec = NoPass
        /\ \E i \in lapsed : rec' = [cmd |-> i, snap |-> child[i], todo |-> lapsed \ {i}]
        /\ UNCHANGED <<remote, results, child, expired, req, held, ran, overtaken, world>>

RecoverCommit ==
    LET i == rec.cmd
        r == Flush(child[i], rec.snap, RecoveredRow(rec.snap))
    IN  /\ i \in Ids
        /\ child' = [child EXCEPT ![i] = r]
        /\ overtaken' = IF Ended(child[i]) /\ r.status # child[i].status
                        THEN overtaken \cup {i} ELSE overtaken
        /\ rec' = [NoPass EXCEPT !.todo = rec.todo]
        /\ UNCHANGED <<remote, results, expired, req, held, ran, world>>

\* The commit expired the other rows: the next one is loaded again, and of the SELECT's
\* conditions none is checked again.
RecoverNext ==
    /\ rec.cmd = NoChild
    /\ \E i \in rec.todo : rec' = [cmd |-> i, snap |-> child[i], todo |-> rec.todo \ {i}]
    /\ UNCHANGED <<remote, results, child, expired, req, held, ran, overtaken, world>>

RecoveryDies ==
    /\ world.dies /\ rec # NoPass
    /\ rec' = NoPass
    /\ UNCHANGED <<remote, results, child, expired, req, held, ran, overtaken, world>>

LeaseLapse(i) ==
    /\ world.lapses /\ child[i].lease_until = "live"
    /\ child' = [child EXCEPT ![i].lease_until = "lapsed"]
    /\ UNCHANGED <<remote, results, expired, req, rec, held, ran, overtaken, world>>

Expire ==
    /\ remote # "absent" /\ ~expired
    /\ expired' = TRUE
    /\ UNCHANGED <<remote, results, child, req, rec, held, ran, overtaken, world>>

RequestDies(x) ==
    /\ world.dies /\ req[x].op # "idle"
    /\ Done(x)
    /\ UNCHANGED <<remote, results, child, expired, rec, held, ran, overtaken, world>>

OperatorStep(x) == \/ \E b \in BOOLEAN : Create(x, b)
                   \/ ApproveLoad(x) \/ ApproveCommit(x) \/ Dispatch(x)
                   \/ CancelLoad(x) \/ CancelCommit(x)
                   \/ \E i \in Ids : CancelChild(x, i)
DeviceStep(d)   == \/ \E i \in Ids : PollChild(d, i) \/ \E s \in AckStatuses : AckLoad(d, i, s)
                   \/ PollRemote(d) \/ AckCommit(d) \/ SyncLoad(d) \/ Write(d)
CollectorStep(k) == \/ Fetch(k) \/ AggregateLoad(k) \/ Write(k)
                    \/ \E i \in Ids, s \in {"completed", "failed"} : Report(k, i, s)
RecoverStep     == RecoverSelect \/ RecoverCommit \/ RecoverNext \/ RecoveryDies

Next == \/ \E x \in Operators : OperatorStep(x)
        \/ \E d \in Devices : DeviceStep(d)
        \/ \E k \in Collectors : CollectorStep(k)
        \/ RecoverStep
        \/ \E i \in Ids : LeaseLapse(i)
        \/ Expire
        \/ \E x \in Clients : RequestDies(x)

Spec == Init /\ [][Next]_vars

\* The server ends what it has begun.
FairSpec == /\ Spec
            /\ \A d \in Devices : WF_vars(AckCommit(d) \/ SyncLoad(d) \/ Write(d))
            /\ \A k \in Collectors : WF_vars(AggregateLoad(k) \/ Write(k))
            /\ \A x \in Operators : WF_vars(ApproveCommit(x) \/ Dispatch(x) \/ CancelCommit(x))

-----------------------------------------------------------------------------
\* Every variable keeps its type.
TypeOK ==
    /\ remote \in Parents
    /\ results \in [Miners -> ResultStatus]
    /\ child \in [Ids -> Rows]
    /\ expired \in BOOLEAN
    /\ req \in [Clients -> Request]
    /\ rec \in Passes
    /\ held \in [Clients -> SUBSET Ids]
    /\ ran \in [Miners -> SUBSET (Ids \cup {Itself(m) : m \in Miners})]
    /\ overtaken \subseteq Ids
    /\ world \in Worlds

AllEnded == Children # {} /\ \A i \in Children : Ended(child[i])

\* One worker; one that serves no collectors; and one user who approves and cancels.
OneWorker   == world.workers = 1
Simple      == OneWorker /\ world.clients \cap Collectors = {}
OneOperator == \A x, y \in world.clients \cap Operators : x = y

Verdicts == {"SUCCEEDED", "FAILED", "PARTIAL"}

\* The children that recovery has not overtaken have one of the statuses S.
Remain(S) == \A i \in Children \ overtaken : child[i].status \in S

\* With one worker, the children of a command that was given a verdict have ended for
\* good: only a recovery pass that had loaded one before it ended can put it back.
FinishedMeansEnded ==
    OneWorker /\ remote \in Verdicts => Remain(TERMINAL_STATES)

\* With one worker and no collectors, a command that succeeded has been completed on
\* each of its miners, but for the children that such a pass has put back or failed.
SucceededIsTrue ==
    Simple /\ remote = "SUCCEEDED" => Remain({"completed"})

\* Under the same circumstances a command that has ended stays as it ended: neither a
\* late ACK nor a cancellation nor an approval overwrites it.
EndIsFinal ==
    [][Simple /\ IsTerminal(remote) => remote' = remote]_vars

\* A miner is told to execute the command once, in one form.
RunsOnce == \A m \in Miners : Cardinality(ran[m]) <= 1

\* With one worker, or one operator, a miner has one child, however often and by whomever
\* the command is approved, and whenever the approving request dies.
DispatchedOnce ==
    OneWorker \/ OneOperator => \A i, j \in Children : MinerOf(i) = MinerOf(j) => i = j

-----------------------------------------------------------------------------
(* The inductive invariant behind FinishedMeansEnded and DispatchedOnce, with *)
(* one worker, and SucceededIsTrue and EndIsFinal, when it serves no          *)
(* collectors.                                                                *)

OneRequest == \A x, y \in Clients : req[x].op # "idle" /\ req[y].op # "idle" => x = y

\* What a request has loaded is still so when it commits; only recovery may have come
\* in between.
Timely(x) ==
    LET r == req[x]
    IN  /\ r.op = "approve" => remote = "PENDING_APPROVAL"
        /\ r.op = "dispatch" => remote = "QUEUED" /\ Children = {}
        /\ r.op = "cancel" => remote \in {"PENDING", "PENDING_APPROVAL", "QUEUED"}
        /\ r.op = "ack" => r.cmd \in Children /\ (remote \in Verdicts => r.cmd \in overtaken)
        /\ r.op = "write" =>
               /\ r.was = remote
               /\ r.will # r.was => r.will \in Verdicts /\ Remain(TERMINAL_STATES)
        /\ Simple => r.op # "aggregate"
        /\ Simple /\ r.op = "write" =>
               /\ ~IsTerminal(remote) /\ r.will # r.was /\ r.will # "PARTIAL"
               /\ r.will = "SUCCEEDED" => Remain({"completed"})

\* The children are from one dispatch, which an approval precedes.
ChildrenAgree ==
    /\ \A x \in Clients : held[x] \subseteq Children
    /\ rec.cmd \in Ids => rec.cmd \in Children
    /\ rec.todo \subseteq Children
    /\ \A i \in Ids : child[i].status # "superseded"
    /\ remote \in {"absent", "PENDING_APPROVAL"} => Children = {}
    /\ \A i, j \in Children : i[2] = j[2]

\* A verdict is about children that have ended.
VerdictAgrees ==
    /\ FinishedMeansEnded
    /\ Simple => remote # "PARTIAL"
    /\ SucceededIsTrue

TurnsParts == OneRequest /\ (\A x \in Clients : Timely(x)) /\ ChildrenAgree /\ VerdictAgrees
TurnsInv   == OneWorker => TurnsParts

-----------------------------------------------------------------------------
(* The inductive invariant behind DispatchedOnce with any number of workers,  *)
(* when one operator approves and cancels.                                    *)

\* What a request is about to do to the command still fits it, whatever the requests of
\* devices and collectors have done since it began.
Fits(x) ==
    LET r == req[x]
    IN  /\ r.op # "idle" => x \in world.clients
        /\ r.op \in {"approve", "dispatch", "cancel"} => x \in Operators
        /\ r.op = "approve" => remote = "PENDING_APPROVAL"
        /\ r.op = "dispatch" => remote \in {"QUEUED", "RUNNING"} /\ Children = {}
        /\ r.op = "ack" => r.cmd \in Children
        /\ r.op \in {"sync", "aggregate", "write"} => Children # {}
        /\ r.op = "write" /\ r.will # r.was => r.will \in Verdicts

OneOperatorParts == (\A x \in Clients : Fits(x)) /\ ChildrenAgree
OneOperatorInv   == OneOperator => OneOperatorParts

-----------------------------------------------------------------------------
\* No worker dies, no lease lapses, and no collector reports.
Calm == ~world.dies /\ ~world.lapses /\ world.clients \cap Collectors = {}

\* When ACKs alone have ended all children, and none of them comes back, the command ends.
ParentFollowsAcks ==
    (Calm /\ AllEnded /\ ~Some({"cancelled"})) ~> (IsTerminal(remote) \/ ~AllEnded)

=============================================================================
