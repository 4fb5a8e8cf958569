------------------------------- MODULE Approval -------------------------------
(***************************************************************************)
(* How RemoteCommands are created, approved, denied, cancelled, rolled back *)
(* and handed out: by the control plane (api/control_plane_api.py) under    *)
(* the policies of models_control_plane.py, and beside it by the older      *)
(* api/remote_control_api.py ("v0"), which works on the same rows and asks  *)
(* no policy.                                                               *)
(*                                                                          *)
(* A handler reads and decides in one step and commits in another.  What    *)
(* becomes of the children that an approval creates is the subject of       *)
(* RemoteCommand.tla; here they end the command some time.                  *)
(***************************************************************************)
EXTENDS Integers, FiniteSets

CONSTANTS
    Commands,     \* ids of RemoteCommands
    Users,        \* users who may propose and decide
    Edges,        \* edge devices, which poll and report the ends of children
    Policies,     \* the outcomes of the policies, a subset of PolicyKinds
    Worlds,       \* circumstances: see world
    Rollbacks     \* whether commands are rolled back

\* What get_approval_requirement finds for a command when it is proposed: no
\* approval, one, two by the policy or the number of miners, or two because of the
\* estimated kW.
PolicyKinds == {"none", "single", "dual", "dual by kW"}

ASSUME ApprovalAssumption == /\ IsFiniteSet(Users) /\ IsFiniteSet(Edges)
                             /\ Users \cap Edges = {}
                             /\ Policies \subseteq PolicyKinds
                             /\ Worlds \subseteq [workers : Nat \ {0}, ids : SUBSET Commands]
                             /\ Rollbacks \in BOOLEAN

VARIABLES
    world,     \* how many requests the web server works on at a time, and the ids
               \* that commands may get
    status,    \* status[c]: of the RemoteCommand
    asks,      \* asks[c]: its require_approval
    policy,    \* policy[c]: what its site's policy says of it
    expires,   \* expires[c]: expires_at is ahead, past, or NULL
    split,     \* split[c]: the command has been dispatched as MinerCommands
    votes,     \* votes[c]: the users of its CommandApproval rows of decision APPROVE
    req,       \* req[k]: the request of client k that the server works on
    poll       \* poll[e]: what the poll of edge e has still to hand out, and whether
               \* it holds the locks of these rows

\* Kept only to state properties.
VARIABLES
    handed,    \* handed[c]: how many times c itself was handed out to an edge
    agreed,    \* the commands that a user approved, by whichever API
    late       \* the commands of which an approval or a hand-out was committed after
               \* another request had changed their status

rows == <<status, asks, policy, expires, split, votes>>
vars == <<world, rows, req, poll, handed, agreed, late>>

Clients  == Users \cup Edges
Statuses == {"absent", "PENDING", "PENDING_APPROVAL", "QUEUED", "RUNNING",
             "SUCCEEDED", "FAILED", "CANCELLED"}
Terminal == {"SUCCEEDED", "FAILED", "CANCELLED"}
Ops      == {"approve", "approve v0", "deny", "cancel", "succeed", "fail"}

Idle    == [op |-> "idle", cmd |-> "none", queues |-> FALSE, seen |-> "absent"]
NoBatch == [batch |-> {}, locked |-> FALSE]

CanStart == Cardinality({k \in Clients : req[k].op # "idle"})
                + Cardinality({e \in Edges : poll[e].batch # {}}) < world.workers

\* Of another transaction than the poll of e.
Locked(c, e) == \E d \in Edges \ {e} : poll[d].locked /\ c \in poll[d].batch
Free(c)      == \A d \in Edges : ~(poll[d].locked /\ c \in poll[d].batch)

Init == /\ world \in Worlds
        /\ status = [c \in Commands |-> "absent"]
        /\ asks = [c \in Commands |-> FALSE]
        /\ policy \in [Commands -> Policies]
        /\ expires = [c \in Commands |-> "null"]
        /\ split = [c \in Commands |-> FALSE]
        /\ votes = [c \in Commands |-> {}]
        /\ req = [k \in Clients |-> Idle]
        /\ poll = [e \in Edges |-> NoBatch]
        /\ handed = [c \in Commands |-> 0]
        /\ agreed = {}
        /\ late = {}

-----------------------------------------------------------------------------
(* Creation                                                                 *)

\* Every creation is the INSERT of a row.
Inserted(c, s, ask, expiry) ==
    /\ CanStart
    /\ c \in world.ids /\ status[c] = "absent"
    /\ status' = [status EXCEPT ![c] = s]
    /\ asks' = [asks EXCEPT ![c] = ask]
    /\ expires' = [expires EXCEPT ![c] = expiry]
    /\ UNCHANGED <<world, policy, split, votes, req, poll, handed, agreed, late>>

\* Faults: the policy's require_approval is overlooked; a status nobody knows.
InitialStatusFree(c)    == "QUEUED"
InitialStatusUnknown(c) == IF policy[c] = "none" THEN "APPROVED" ELSE "PENDING_APPROVAL"

InitialStatus(c) == IF policy[c] = "none" THEN "QUEUED" ELSE "PENDING_APPROVAL"

\* propose_command
Propose(c) == Inserted(c, InitialStatus(c), policy[c] # "none", "ahead")

\* create_command of remote_control_api.py: whether an approval is asked for depends
\* on the role of the user and on the command, never on a policy.  (So does the AI
\* closed loop create commands, and asks for none.)
CreateV0(c) ==
    \/ Inserted(c, "QUEUED", FALSE, "ahead")
    \/ Inserted(c, "PENDING_APPROVAL", TRUE, "ahead")

\* rollback_command: c is the command that takes back o.  expires_at is not set.
Rollback(o, c) ==
    /\ Rollbacks
    /\ status[o] \in {"COMPLETED", "PARTIAL", "SUCCEEDED", "FAILED"}
    /\ Inserted(c, "PENDING_APPROVAL", TRUE, "null")

-----------------------------------------------------------------------------
(* Decisions                                                                *)

\* steps_required at the approval, which passes an impact of 0 kW.
StepsRequired(c) == IF policy[c] = "dual" THEN 2 ELSE 1

Undecided(s) == s \in {"PENDING", "PENDING_APPROVAL"}

Load(k, op, c, queues) ==
    /\ CanStart /\ req[k].op = "idle"
    /\ req' = [req EXCEPT ![k] = [op |-> op, cmd |-> c, queues |-> queues, seen |-> status[c]]]
    /\ UNCHANGED <<world, rows, poll, handed, agreed, late>>

\* The UPDATE waits for a poll's lock.
Commit(k, ops) ==
    /\ req[k].op \in ops
    /\ Free(req[k].cmd)
    /\ req' = [req EXCEPT ![k] = Idle]

Overtaken(k) == status[req[k].cmd] # req[k].seen

\* Fault: the status is not checked.
ApproveLoadLate(u, c) ==
    /\ status[c] # "absent"
    /\ u \notin votes[c]
    /\ Load(u, "approve", c, Cardinality(votes[c]) + 2 >= StepsRequired(c))

\* approve_command: the query of the policy has flushed the new row, so that
\* the count() of the next query counts it, and 1 is added to the count.
ApproveLoad(u, c) ==
    /\ Undecided(status[c])
    /\ u \notin votes[c]
    /\ Load(u, "approve", c, Cardinality(votes[c]) + 2 >= StepsRequired(c))

ApproveCommit(u) ==
    LET c == req[u].cmd
    IN  /\ Commit(u, {"approve"})
        /\ votes' = [votes EXCEPT ![c] = @ \cup {u}]
        /\ agreed' = agreed \cup {c}
        /\ status' = IF req[u].queues THEN [status EXCEPT ![c] = "QUEUED"] ELSE status
        /\ late' = IF req[u].queues /\ Overtaken(u) THEN late \cup {c} ELSE late
        /\ UNCHANGED <<world, asks, policy, expires, split, poll, handed>>

\* approve_command of remote_control_api.py: no policy, no CommandApproval.
ApproveV0Load(u, c) == status[c] = "PENDING_APPROVAL" /\ Load(u, "approve v0", c, TRUE)

\* The dispatch comes after the commit, and may fail.
ApproveV0Commit(u) ==
    LET c == req[u].cmd
    IN  /\ Commit(u, {"approve v0"})
        /\ agreed' = agreed \cup {c}
        /\ status' = [status EXCEPT ![c] = "QUEUED"]
        /\ split' = split \/ split' = [split EXCEPT ![c] = TRUE]
        /\ late' = IF Overtaken(u) THEN late \cup {c} ELSE late
        /\ UNCHANGED <<world, asks, policy, expires, votes, poll, handed>>

\* deny_command, and cancel_command of remote_control_api.py
DenyLoad(u, c)   == Undecided(status[c]) /\ Load(u, "deny", c, FALSE)
CancelLoad(u, c) == /\ Undecided(status[c]) \/ status[c] = "QUEUED"
                    /\ Load(u, "cancel", c, FALSE)

DenyCommit(u) ==
    /\ Commit(u, {"deny", "cancel"})
    /\ status' = [status EXCEPT ![req[u].cmd] = "CANCELLED"]
    /\ UNCHANGED <<world, asks, policy, expires, split, votes, poll, handed, agreed, late>>

-----------------------------------------------------------------------------
(* Edges                                                                    *)

\* Fault: approved commands are looked for under the older status.
DueOld(c) == status[c] = "PENDING" /\ expires[c] = "ahead"

\* The comparison expires_at > now is not true of NULL.
Due(c) == status[c] = "QUEUED" /\ expires[c] = "ahead"

\* edge_poll_commands, its second section: the SELECT, which locks what it finds and
\* skips what is locked.
PollSelect(e) ==
    /\ CanStart /\ poll[e].batch = {}
    /\ \E S \in SUBSET {c \in Commands : Due(c) /\ Free(c)} :
           S # {} /\ poll' = [poll EXCEPT ![e] = [batch |-> S, locked |-> TRUE]]
    /\ UNCHANGED <<world, rows, req, handed, agreed, late>>

\* The commit of log_audit_event ends the locks of the rest of the batch.
PollNext(e, c) ==
    poll' = [poll EXCEPT ![e] = [batch |-> @.batch \ {c}, locked |-> FALSE]]

\* A row without its lock is read again, but its status is not looked at; no status is
\* written that was there when the row was read.
PollHand(e, c) ==
    /\ c \in poll[e].batch /\ ~Locked(c, e)
    /\ \E s \in {"RUNNING"} \cup (IF poll[e].locked THEN {} ELSE {status[c]} \ {"QUEUED"}) :
           status' = [status EXCEPT ![c] = s]
    /\ handed' = [handed EXCEPT ![c] = @ + 1]
    /\ late' = IF status[c] # "QUEUED" THEN late \cup {c} ELSE late
    /\ PollNext(e, c)
    /\ UNCHANGED <<world, asks, policy, expires, split, votes, req, agreed>>

\* The rate limiter refuses the command.
PollLimited(e, c) ==
    /\ c \in poll[e].batch
    /\ PollNext(e, c)
    /\ UNCHANGED <<world, rows, req, handed, agreed, late>>

\* _sync_remote_command_status, when the children have ended.
EndLoad(e, c, op) ==
    /\ split[c] /\ status[c] \notin Terminal
    /\ op \in {"succeed", "fail"}
    /\ Load(e, op, c, FALSE)

EndCommit(e) ==
    /\ Commit(e, {"succeed", "fail"})
    /\ status' = [status EXCEPT ![req[e].cmd] =
                      IF req[e].op = "succeed" THEN "SUCCEEDED" ELSE "FAILED"]
    /\ UNCHANGED <<world, asks, policy, expires, split, votes, poll, handed, agreed, late>>

-----------------------------------------------------------------------------
Expire(c) ==
    /\ expires[c] = "ahead"
    /\ expires' = [expires EXCEPT ![c] = "past"]
    /\ UNCHANGED <<world, status, asks, policy, split, votes, req, poll, handed, agreed, late>>

\* The worker dies, before it has committed or between two commits.
RequestDies(k) ==
    /\ req[k].op # "idle"
    /\ req' = [req EXCEPT ![k] = Idle]
    /\ UNCHANGED <<world, rows, poll, handed, agreed, late>>

PollDies(e) ==
    /\ poll[e].batch # {}
    /\ poll' = [poll EXCEPT ![e] = NoBatch]
    /\ UNCHANGED <<world, rows, req, handed, agreed, late>>

Decides(u) == ApproveCommit(u) \/ ApproveV0Commit(u) \/ DenyCommit(u)

Next == \/ \E c \in Commands : \/ Propose(c) \/ CreateV0(c) \/ Expire(c)
                               \/ \E o \in Commands : Rollback(o, c)
        \/ \E u \in Users : \/ Decides(u)
                            \/ \E c \in Commands : \/ ApproveLoad(u, c) \/ ApproveV0Load(u, c)
                                                   \/ DenyLoad(u, c) \/ CancelLoad(u, c)
        \/ \E k \in Clients : RequestDies(k)
        \/ \E e \in Edges : \/ PollSelect(e) \/ PollDies(e) \/ EndCommit(e)
                            \/ \E c \in Commands : \/ PollHand(e, c) \/ PollLimited(e, c)
                                                   \/ \E op \in Ops : EndLoad(e, c, op)

Spec == Init /\ [][Next]_vars

\* The server ends what it has begun; edges poll until they have everything, and no
\* command is refused by the rate limiter, or loses its worker, for ever.
FairSpec ==
    /\ Spec
    /\ \A u \in Users : WF_vars(Decides(u))
    /\ \A e \in Edges : WF_vars(EndCommit(e))
    /\ \A e \in Edges, c \in Commands : WF_vars(PollHand(e, c) \/ PollLimited(e, c))
    /\ \A c \in Commands : /\ SF_vars(\E e \in Edges : PollSelect(e) /\ c \in poll'[e].batch)
                           /\ SF_vars(\E e \in Edges : PollHand(e, c))

-----------------------------------------------------------------------------
\* Every variable keeps its type.
TypeOK ==
    /\ world \in [workers : Nat \ {0}, ids : SUBSET Commands]
    /\ status \in [Commands -> Statuses]
    /\ asks \in [Commands -> BOOLEAN]
    /\ policy \in [Commands -> PolicyKinds]
    /\ expires \in [Commands -> {"null", "ahead", "past"}]
    /\ split \in [Commands -> BOOLEAN]
    /\ votes \in [Commands -> SUBSET Users]
    /\ req \in [Clients -> [op : Ops, cmd : Commands, queues : BOOLEAN, seen : Statuses]
                           \cup {Idle}]
    /\ poll \in [Edges -> [batch : SUBSET Commands, locked : BOOLEAN]]
    /\ handed \in [Commands -> Nat]
    /\ agreed \subseteq Commands
    /\ late \subseteq Commands

\* The edge runs nothing that asks for an approval (require_approval) and has none.  A
\* proposal and a rollback ask for one as their site's policy says, or more; what v0
\* creates asks for one by v0's own rules, and runs without one against a policy.
RunsApproved == \A c \in Commands : handed[c] > 0 /\ asks[c] => c \in agreed

\* With one request at a time a denied command stays denied.
DenyIsFinal ==
    [][\A c \in Commands :
           world.workers = 1 /\ status[c] = "CANCELLED" => status'[c] = "CANCELLED"]_vars

\* A command itself is handed out once.  Only a server that works on several requests
\* at a time can do it twice, when an approval or a poll has overlooked what another
\* request had made of the command meanwhile.
HandedOnce == \A c \in Commands : handed[c] <= 1 \/ (world.workers > 1 /\ c \in late)

\* A queued command with a time to live reaches the edges, itself or as
\* MinerCommands, unless it expires or ends before.  (A rollback has none.)
ApprovedIsServed ==
    \A c \in Commands :
        status[c] = "QUEUED" /\ expires[c] # "null" ~>
            (status[c] # "QUEUED" \/ split[c] \/ expires[c] = "past")

-----------------------------------------------------------------------------
(* The inductive invariants behind RunsApproved and HandedOnce, and, for a  *)
(* server that works on one request at a time, behind DenyIsFinal.          *)

Approved(c) == asks[c] => c \in agreed

\* Whatever is queued, or handed out, or may be ended by its children, is approved.
Released(c) == status[c] \in {"QUEUED", "RUNNING", "SUCCEEDED", "FAILED"} \/ handed[c] > 0

QueuedApproved ==
    /\ \A c \in Commands : /\ Released(c) => Approved(c)
                           /\ split[c] => c \in agreed
                           /\ status[c] = "absent" => ~split[c] /\ handed[c] = 0
    /\ \A k \in Clients : /\ req[k].op # "idle" => status[req[k].cmd] # "absent"
                          /\ req[k].op \in {"succeed", "fail"} => split[req[k].cmd]
    /\ \A e \in Edges : \A c \in poll[e].batch : status[c] # "absent" /\ Approved(c)

\* What was handed out is queued again by a late approval only.
HandedIsPast == \A c \in Commands \ late :
                    /\ handed[c] <= 1
                    /\ handed[c] > 0 => status[c] \in {"RUNNING"} \cup Terminal

\* Every decision was made on a command that was open when it was loaded.
DecidesOpen ==
    /\ \A k \in Clients : /\ req[k].op \in {"approve", "approve v0"} => Undecided(req[k].seen)
                          /\ req[k].op # "idle" => req[k].seen \notin Terminal
    /\ \A c \in Commands : status[c] = "absent" => handed[c] = 0

\* With one request at a time none has overtaken another.
InTurns ==
    /\ \A j, k \in Clients : req[j].op # "idle" /\ req[k].op # "idle" => j = k
    /\ \A k \in Clients, e \in Edges : req[k].op # "idle" => poll[e].batch = {}
    /\ \A d, e \in Edges : poll[d].batch # {} /\ poll[e].batch # {} => d = e
    /\ \A k \in Clients : req[k].op # "idle" => ~Overtaken(k)
    /\ \A e \in Edges : \A c \in poll[e].batch : status[c] = "QUEUED"
    /\ late = {}

DecisionInv == HandedIsPast /\ DecidesOpen /\ (world.workers = 1 => InTurns)

=============================================================================
