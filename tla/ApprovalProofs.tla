---------------------------- MODULE ApprovalProofs ----------------------------
(***************************************************************************)
(* Theorems about the approval of RemoteCommands, for any commands, users,  *)
(* edges and policies and any number of requests at a time: no server hands *)
(* out a command without the approval it asks for, and a command is handed  *)
(* out once, unless requests overtake each other; one that works on one     *)
(* request at a time keeps denials.                                         *)
(***************************************************************************)
EXTENDS Approval, FiniteSetTheorems, TLAPS

Requests == [op : Ops, cmd : Commands, queues : BOOLEAN, seen : Statuses]

\* A request that the server works on is a decision on a command.
LEMMA BusyRequest ==
    ASSUME TypeOK, NEW k \in Clients, req[k].op # "idle"
    PROVE  req[k] \in Requests
<1>1. req[k] \in Requests \cup {Idle}
  BY DEF TypeOK, Requests
<1>2. Idle.op = "idle"
  BY DEF Idle
<1> QED BY <1>1, <1>2

\* Approvals can be counted.
LEMMA VotesCounted ==
    ASSUME TypeOK, NEW c \in Commands
    PROVE  Cardinality(votes[c]) \in Nat
<1>1. IsFiniteSet(votes[c])
  BY ApprovalAssumption, FS_Subset DEF TypeOK
<1> QED BY <1>1, FS_CardinalityType

\* The steps that only take up a request, and those that only end one.
Loads(k, c) == \E op \in Ops, queues \in BOOLEAN : Load(k, op, c, queues)

LEMMA LoadsAre ==
    ASSUME TypeOK, NEW c \in Commands
    PROVE  /\ \A u \in Users : \/ ApproveLoad(u, c) \/ ApproveV0Load(u, c)
                               \/ DenyLoad(u, c) \/ CancelLoad(u, c)
                               => Loads(u, c)
           /\ \A e \in Edges : \A op \in Ops : EndLoad(e, c, op) => Loads(e, c)
<1>1. (Cardinality(votes[c]) + 2 >= StepsRequired(c)) \in BOOLEAN
  <2>1. Cardinality(votes[c]) \in Nat /\ StepsRequired(c) \in Nat
    BY VotesCounted DEF StepsRequired
  <2> QED BY <2>1
<1> QED
  BY <1>1 DEF ApproveLoad, ApproveV0Load, DenyLoad, CancelLoad, EndLoad, Loads, Ops

\* The variables of Approval always have their types.
THEOREM ApprovalTyping == Spec => []TypeOK
<1>1. Init => TypeOK
  BY ApprovalAssumption DEF Init, TypeOK, Statuses, NoBatch
<1>2. TypeOK /\ [Next]_vars => TypeOK'
  <2> SUFFICES ASSUME TypeOK, [Next]_vars
               PROVE  TypeOK'
    OBVIOUS
  <2>0. /\ Idle \in {Idle}
        /\ \A c \in Commands : status[c] \in Statuses
    BY DEF TypeOK
  <2> USE DEF TypeOK, rows
  <2>1. ASSUME NEW c \in Commands, Propose(c) \/ CreateV0(c) \/ (\E o \in Commands : Rollback(o, c))
        PROVE  TypeOK'
    <3>1. PICK s \in Statuses, ask \in BOOLEAN, expiry \in {"null", "ahead"} :
              Inserted(c, s, ask, expiry)
      BY <2>1 DEF Propose, InitialStatus, CreateV0, Rollback, Statuses
    <3> QED BY <3>1 DEF Inserted
  <2>2. ASSUME NEW k \in Clients, NEW c \in Commands, Loads(k, c) PROVE TypeOK'
    <3>1. PICK op \in Ops, queues \in BOOLEAN : Load(k, op, c, queues)
      BY <2>2 DEF Loads
    <3>2. [op |-> op, cmd |-> c, queues |-> queues, seen |-> status[c]]
              \in [op : Ops, cmd : Commands, queues : BOOLEAN, seen : Statuses]
      BY <2>0
    <3> QED BY <3>1, <3>2 DEF Load
  <2>3. ASSUME NEW k \in Clients,
               (k \in Users /\ Decides(k)) \/ (k \in Edges /\ EndCommit(k))
        PROVE  TypeOK'
    <3> DEFINE c == req[k].cmd
    <3>1. c \in Commands
      BY <2>3, BusyRequest
         DEF Decides, ApproveCommit, ApproveV0Commit, DenyCommit, EndCommit, Commit, Requests
    <3>2. req' = [req EXCEPT ![k] = Idle]
      BY <2>3 DEF Decides, ApproveCommit, ApproveV0Commit, DenyCommit, EndCommit, Commit
    <3>3. status' = status \/ \E s \in Statuses : status' = [status EXCEPT ![c] = s]
      BY <2>3 DEF Decides, ApproveCommit, ApproveV0Commit, DenyCommit, EndCommit, Statuses
    <3>4. /\ late' \in {late, late \cup {c}}
          /\ agreed' \in {agreed, agreed \cup {c}}
          /\ split' = split \/ split' = [split EXCEPT ![c] = TRUE]
          /\ UNCHANGED <<world, asks, policy, expires, poll, handed>>
      BY <2>3 DEF Decides, ApproveCommit, ApproveV0Commit, DenyCommit, EndCommit
    <3>5. votes' = votes \/ (k \in Users /\ votes' = [votes EXCEPT ![c] = @ \cup {k}])
      BY <2>3 DEF Decides, ApproveCommit, ApproveV0Commit, DenyCommit, EndCommit
    <3> HIDE DEF c
    <3>6. status' \in [Commands -> Statuses]
      BY <3>3
    <3>7. split' \in [Commands -> BOOLEAN] /\ late' \subseteq Commands /\ agreed' \subseteq Commands
      BY <3>1, <3>4
    <3>9. votes' \in [Commands -> SUBSET Users]
      BY <3>5
    <3>8. req' \in [Clients -> [op : Ops, cmd : Commands, queues : BOOLEAN, seen : Statuses]
                              \cup {Idle}]
      BY <3>2
    <3> QED BY <3>4, <3>6, <3>7, <3>8, <3>9
  <2>4. ASSUME NEW k \in Clients, RequestDies(k) PROVE TypeOK'
    BY <2>4 DEF RequestDies
  <2>5. ASSUME NEW e \in Edges, PollSelect(e) \/ PollDies(e) PROVE TypeOK'
    <3>1. PICK b \in [batch : SUBSET Commands, locked : BOOLEAN] :
              poll' = [poll EXCEPT ![e] = b]
      BY <2>5 DEF PollSelect, PollDies, NoBatch
    <3> QED BY <2>5, <3>1 DEF PollSelect, PollDies
  <2>6. ASSUME NEW e \in Edges, NEW c \in Commands, PollHand(e, c) \/ PollLimited(e, c)
        PROVE  TypeOK'
    <3>1. poll' \in [Edges -> [batch : SUBSET Commands, locked : BOOLEAN]]
      <4>1. poll' = [poll EXCEPT ![e] = [batch |-> poll[e].batch \ {c}, locked |-> FALSE]]
        BY <2>6 DEF PollHand, PollLimited, PollNext
      <4> QED BY <4>1
    <3>2. handed' \in [Commands -> Nat]
      <4>1. handed' = [handed EXCEPT ![c] = handed[c] + 1] \/ handed' = handed
        BY <2>6 DEF PollHand, PollLimited
      <4>2. handed \in [Commands -> Nat]
        OBVIOUS
      <4> HIDE DEF TypeOK
      <4> QED BY <4>1, <4>2
    <3>3. status' \in [Commands -> Statuses]
      BY <2>0, <2>6 DEF PollHand, PollLimited, Statuses
    <3> QED BY <2>6, <3>1, <3>2, <3>3 DEF PollHand, PollLimited
  <2>7. ASSUME NEW c \in Commands, Expire(c) PROVE TypeOK'
    BY <2>7 DEF Expire
  <2>8. CASE UNCHANGED vars
    BY <2>8 DEF vars
  <2>9. ASSUME NEW u \in Users, NEW c \in Commands,
               ApproveLoad(u, c) \/ ApproveV0Load(u, c) \/ DenyLoad(u, c) \/ CancelLoad(u, c)
        PROVE  TypeOK'
    <3> HIDE DEF TypeOK
    <3> QED BY <2>2, <2>9, LoadsAre DEF Clients
  <2>10. ASSUME NEW e \in Edges, NEW c \in Commands, NEW op \in Ops, EndLoad(e, c, op)
         PROVE  TypeOK'
    <3> HIDE DEF TypeOK
    <3> QED BY <2>2, <2>10, LoadsAre DEF Clients
  <2> HIDE DEF TypeOK, rows
  <2>11. ASSUME NEW u \in Users, Decides(u) PROVE TypeOK'
    <3>1. u \in Clients
      BY DEF Clients
    <3> QED BY <2>3, <2>11, <3>1
  <2>12. ASSUME NEW e \in Edges, EndCommit(e) PROVE TypeOK'
    BY <2>3, <2>12 DEF Clients
  <2> QED
    BY <2>1, <2>4, <2>5, <2>6, <2>7, <2>8, <2>9, <2>10, <2>11, <2>12 DEF Next
<1> QED
  BY <1>1, <1>2, PTL DEF Spec

\* What a commit of a user does to the command that the request is about.
LEMMA DecidesDoes ==
    ASSUME TypeOK, NEW u \in Users, Decides(u)
    PROVE  /\ req[u].op \in {"approve", "approve v0", "deny", "cancel"}
           /\ req[u].cmd \in Commands
           /\ req' = [req EXCEPT ![u] = Idle]
           /\ agreed \subseteq agreed'
           /\ \/ UNCHANGED <<status, split, late>>
              \/ /\ status' = [status EXCEPT ![req[u].cmd] = "QUEUED"]
                 /\ req[u].op \in {"approve", "approve v0"}
                 /\ req[u].cmd \in agreed'
                 /\ split' = split \/ split' = [split EXCEPT ![req[u].cmd] = TRUE]
                 /\ late' = IF Overtaken(u) THEN late \cup {req[u].cmd} ELSE late
              \/ /\ status' = [status EXCEPT ![req[u].cmd] = "CANCELLED"]
                 /\ UNCHANGED <<split, late>>
           /\ UNCHANGED <<world, asks, poll, handed>>
<1>1. req[u].op \in {"approve", "approve v0", "deny", "cancel"} /\ req' = [req EXCEPT ![u] = Idle]
  BY DEF Decides, ApproveCommit, ApproveV0Commit, DenyCommit, Commit
<1>2. req[u].cmd \in Commands
  BY <1>1, BusyRequest DEF Clients, Requests
<1> QED
  BY <1>1, <1>2 DEF Decides, ApproveCommit, ApproveV0Commit, DenyCommit, Commit

\* Every step keeps QueuedApproved.
LEMMA QueuedApprovedStep ==
    ASSUME TypeOK, QueuedApproved, [Next]_vars
    PROVE  QueuedApproved'
<1> USE DEF QueuedApproved, Released, Approved, rows
<1>0. /\ status \in [Commands -> Statuses] /\ split \in [Commands -> BOOLEAN]
      /\ asks \in [Commands -> BOOLEAN] /\ handed \in [Commands -> Nat]
      /\ req \in [Clients -> Requests \cup {Idle}]
      /\ poll \in [Edges -> [batch : SUBSET Commands, locked : BOOLEAN]]
  BY DEF TypeOK, Requests
<1>a. Idle.op = "idle"
  BY DEF Idle
<1>1. ASSUME NEW c \in Commands, Propose(c) \/ CreateV0(c) \/ (\E o \in Commands : Rollback(o, c))
      PROVE  QueuedApproved'
  <2>1. PICK s \in Statuses, ask \in BOOLEAN, expiry \in {"null", "ahead"} :
            Inserted(c, s, ask, expiry) /\ s # "absent"
            /\ (s \in {"QUEUED", "RUNNING", "SUCCEEDED", "FAILED"} => ~ask)
    BY <1>1 DEF Propose, InitialStatus, CreateV0, Rollback, Statuses
  <2>2. /\ status[c] = "absent" /\ status'[c] = s /\ asks'[c] = ask
        /\ \A b \in Commands \ {c} : status'[b] = status[b] /\ asks'[b] = asks[b]
        /\ UNCHANGED <<split, req, poll, handed, agreed>>
    BY <1>0, <2>1 DEF Inserted
  <2>3. \A k \in Clients : req[k].op # "idle" => req[k].cmd \in Commands \ {c}
    BY <2>2, BusyRequest DEF Requests
  <2>4. \A e \in Edges : poll[e].batch \subseteq Commands \ {c}
    BY <1>0, <2>2
  <2>5. ~split[c] /\ handed[c] = 0
    BY <2>2
  <2> QED BY <2>1, <2>2, <2>3, <2>4, <2>5
<1>2. ASSUME NEW k \in Clients, NEW c \in Commands, NEW op \in Ops, NEW queues \in BOOLEAN,
             Load(k, op, c, queues), status[c] # "absent",
             op \in {"succeed", "fail"} => split[c]
      PROVE  QueuedApproved'
  <2>1. req'[k] = [op |-> op, cmd |-> c, queues |-> queues, seen |-> status[c]]
        /\ \A j \in Clients \ {k} : req'[j] = req[j]
    BY <1>0, <1>2 DEF Load
  <2> QED BY <1>2, <2>1 DEF Load
<1>3. ASSUME NEW u \in Users, Decides(u) PROVE QueuedApproved'
  <2>0. req[u].cmd \in Commands /\ req[u].op # "idle" /\ u \in Clients
    BY <1>3, DecidesDoes DEF Clients
  <2>d. PICK d \in Commands : d = req[u].cmd
    BY <2>0
  <2>1. d \in Commands /\ status[d] # "absent" /\ u \in Clients
    BY <2>0, <2>d
  <2>2. req'[u].op = "idle" /\ \A k \in Clients \ {u} : req'[k] = req[k]
    <3>1. req' = [req EXCEPT ![u] = Idle]
      BY <1>3, DecidesDoes
    <3> QED BY <1>0, <1>a, <2>1, <3>1
  <2>3. /\ agreed \subseteq agreed'
        /\ \/ UNCHANGED <<status, split>>
           \/ /\ status' = [status EXCEPT ![d] = "QUEUED"]
              /\ d \in agreed'
              /\ split' = split \/ split' = [split EXCEPT ![d] = TRUE]
           \/ status' = [status EXCEPT ![d] = "CANCELLED"] /\ UNCHANGED split
        /\ UNCHANGED <<asks, poll, handed>>
    BY <1>3, <2>d, DecidesDoes
  <2>4. /\ \A b \in Commands \ {d} : status'[b] = status[b] /\ split'[b] = split[b]
        /\ status'[d] # "absent" /\ (split[d] => split'[d])
        /\ (split'[d] => d \in agreed')
        /\ (Released(d)' => Approved(d)')
    <3>1. CASE UNCHANGED <<status, split>>
      BY <1>0, <2>1, <2>3, <3>1
    <3>2. CASE /\ status' = [status EXCEPT ![d] = "QUEUED"]
               /\ d \in agreed'
               /\ split' = split \/ split' = [split EXCEPT ![d] = TRUE]
      BY <1>0, <2>1, <3>2
    <3>3. CASE status' = [status EXCEPT ![d] = "CANCELLED"] /\ UNCHANGED split
      BY <1>0, <2>1, <2>3, <3>3
    <3> QED BY <2>3, <3>1, <3>2, <3>3
  <2>5. ASSUME NEW b \in Commands
        PROVE  /\ Released(b)' => Approved(b)'
               /\ split'[b] => b \in agreed'
               /\ status'[b] = "absent" => ~split'[b] /\ handed'[b] = 0
    <3>1. CASE b = d
      BY <2>1, <2>3, <2>4, <3>1
    <3>2. CASE b # d
      BY <2>3, <2>4, <3>2
    <3> QED BY <3>1, <3>2
  <2>6. \A k \in Clients : /\ req'[k].op # "idle" => status'[req'[k].cmd] # "absent"
                           /\ req'[k].op \in {"succeed", "fail"} => split'[req'[k].cmd]
    <3> SUFFICES ASSUME NEW k \in Clients, req'[k].op # "idle"
                 PROVE  /\ status'[req'[k].cmd] # "absent"
                        /\ req'[k].op \in {"succeed", "fail"} => split'[req'[k].cmd]
      BY <2>2
    <3>1. k # u /\ req'[k] = req[k] /\ req[k].cmd \in Commands
      BY <2>2, BusyRequest DEF Requests
    <3> QED BY <2>4, <3>1
  <2>7. \A e \in Edges : \A b \in poll'[e].batch : status'[b] # "absent" /\ Approved(b)'
    BY <1>0, <2>3, <2>4
  <2> QED BY <2>5, <2>6, <2>7
<1>4. ASSUME NEW e \in Edges, EndCommit(e) PROVE QueuedApproved'
  <2>0. req[e].cmd \in Commands
    BY <1>4, BusyRequest DEF EndCommit, Commit, Clients, Requests
  <2>d. PICK d \in Commands : d = req[e].cmd
    BY <2>0
  <2>1. split[d] /\ d \in agreed
    BY <1>4, <2>d DEF EndCommit, Commit, Clients
  <2>2. /\ req' = [req EXCEPT ![e] = Idle]
        /\ \E s \in {"SUCCEEDED", "FAILED"} : status' = [status EXCEPT ![d] = s]
        /\ UNCHANGED <<asks, split, poll, handed, agreed>>
    BY <1>4, <2>d DEF EndCommit, Commit
  <2>3. status'[d] \in {"SUCCEEDED", "FAILED"} /\ \A b \in Commands \ {d} : status'[b] = status[b]
    BY <1>0, <2>1, <2>2
  <2>4. \A k \in Clients : req'[k].op # "idle" => req'[k] = req[k] /\ req[k].cmd \in Commands
    BY <1>0, <1>a, <2>2, BusyRequest DEF Requests
  <2> QED BY <1>0, <2>1, <2>2, <2>3, <2>4
<1>5. ASSUME NEW k \in Clients, RequestDies(k) PROVE QueuedApproved'
  <2>1. \A j \in Clients : req'[j].op # "idle" => req'[j] = req[j]
    BY <1>0, <1>5, <1>a DEF RequestDies
  <2> QED BY <1>5, <2>1 DEF RequestDies
<1>6. ASSUME NEW e \in Edges, PollSelect(e) \/ PollDies(e) PROVE QueuedApproved'
  <2>1. PICK S \in SUBSET Commands, l \in BOOLEAN :
            /\ poll' = [poll EXCEPT ![e] = [batch |-> S, locked |-> l]]
            /\ \A c \in S : status[c] = "QUEUED"
    <3>1. CASE PollSelect(e)
      <4>1. PICK S \in SUBSET {c \in Commands : Due(c) /\ Free(c)} :
                poll' = [poll EXCEPT ![e] = [batch |-> S, locked |-> TRUE]]
        BY <3>1 DEF PollSelect
      <4>2. S \in SUBSET Commands /\ \A c \in S : status[c] = "QUEUED"
        BY DEF Due
      <4>3. TRUE \in BOOLEAN
        OBVIOUS
      <4> QED BY <4>1, <4>2, <4>3
    <3>2. CASE PollDies(e)
      <4>1. {} \in SUBSET Commands /\ FALSE \in BOOLEAN
        OBVIOUS
      <4> QED BY <3>2, <4>1 DEF PollDies, NoBatch
    <3> QED BY <1>6, <3>1, <3>2
  <2>2. poll'[e].batch = S /\ \A d \in Edges \ {e} : poll'[d] = poll[d]
    BY <1>0, <2>1
  <2> QED BY <1>6, <2>1, <2>2 DEF PollSelect, PollDies
<1>7. ASSUME NEW e \in Edges, NEW c \in Commands, PollHand(e, c) \/ PollLimited(e, c)
      PROVE  QueuedApproved'
  <2>1. \A d \in Edges : poll'[d].batch \subseteq poll[d].batch
    BY <1>0, <1>7 DEF PollHand, PollLimited, PollNext
  <2>2. status[c] # "absent" /\ Approved(c)
    BY <1>7 DEF PollHand, PollLimited
  <2>3. /\ \A b \in Commands \ {c} : status'[b] = status[b] /\ handed'[b] = handed[b]
        /\ status'[c] # "absent"
    BY <1>0, <1>7, <2>2 DEF PollHand, PollLimited
  <2>4. UNCHANGED <<asks, split, req, agreed>>
    BY <1>7 DEF PollHand, PollLimited
  <2>5. \A k \in Clients : req[k].op # "idle" => req[k].cmd \in Commands
    BY BusyRequest DEF Requests
  <2> QED BY <1>0, <2>1, <2>2, <2>3, <2>4, <2>5
<1>8. ASSUME NEW c \in Commands, Expire(c) PROVE QueuedApproved'
  BY <1>8 DEF Expire
<1>9. CASE UNCHANGED vars
  BY <1>9 DEF vars
<1>10. ASSUME NEW u \in Users, NEW c \in Commands,
              ApproveLoad(u, c) \/ ApproveV0Load(u, c) \/ DenyLoad(u, c) \/ CancelLoad(u, c)
       PROVE  QueuedApproved'
  <2>1. status[c] # "absent" /\ u \in Clients
    BY <1>10 DEF ApproveLoad, ApproveV0Load, DenyLoad, CancelLoad, Undecided, Clients
  <2>2. PICK op \in Ops \ {"succeed", "fail"}, queues \in BOOLEAN : Load(u, op, c, queues)
    <3>1. (Cardinality(votes[c]) + 2 >= StepsRequired(c)) \in BOOLEAN
      <4>1. Cardinality(votes[c]) \in Nat /\ StepsRequired(c) \in Nat
        BY VotesCounted DEF StepsRequired
      <4> QED BY <4>1
    <3> QED BY <1>10, <3>1 DEF ApproveLoad, ApproveV0Load, DenyLoad, CancelLoad, Ops
  <2> QED BY <1>2, <2>1, <2>2
<1>11. ASSUME NEW e \in Edges, NEW c \in Commands, NEW op \in Ops, EndLoad(e, c, op)
       PROVE  QueuedApproved'
  <2>1. e \in Clients /\ split[c] /\ status[c] # "absent" /\ Load(e, op, c, FALSE)
    BY <1>11 DEF EndLoad, Clients
  <2> QED BY <1>2, <2>1
<1> HIDE DEF QueuedApproved
<1> QED
  BY <1>1, <1>3, <1>4, <1>5, <1>6, <1>7, <1>8, <1>9, <1>10, <1>11 DEF Next

LEMMA QueuedApprovedAlways == Spec => []QueuedApproved
<1>1. Init => QueuedApproved
  BY DEF Init, QueuedApproved, Released, Approved, Idle, NoBatch
<1>2. TypeOK /\ QueuedApproved /\ [Next]_vars => QueuedApproved'
  BY QueuedApprovedStep
<1> QED
  BY <1>1, <1>2, ApprovalTyping, PTL DEF Spec

\* However many requests of users and edges overlap, the edge runs nothing that asks for
\* an approval and has none: a command that asks is queued by an approval only.
THEOREM NothingRunsUnapproved == Spec => []RunsApproved
<1>1. QueuedApproved => RunsApproved
  BY DEF QueuedApproved, Released, Approved, RunsApproved
<1> QED
  BY <1>1, QueuedApprovedAlways, PTL

\* A server that works on one request at a time takes one up when it has none.
LEMMA StartsWhenIdle ==
    ASSUME TypeOK, world.workers = 1, CanStart
    PROVE  /\ \A k \in Clients : req[k].op = "idle"
           /\ \A e \in Edges : poll[e].batch = {}
<1> DEFINE S == {k \in Clients : req[k].op # "idle"}
           T == {e \in Edges : poll[e].batch # {}}
<1>1. IsFiniteSet(S) /\ IsFiniteSet(T)
  BY ApprovalAssumption, FS_Subset, FS_Union DEF Clients
<1>2. Cardinality(S) \in Nat /\ Cardinality(T) \in Nat
  BY <1>1, FS_CardinalityType
<1>3. Cardinality(S) = 0 /\ Cardinality(T) = 0
  BY <1>2 DEF CanStart
<1>4. S = {} /\ T = {}
  BY <1>1, <1>3, FS_EmptySet
<1> QED
  BY <1>4

\* A command that was denied stays so from one state to the next.
Stands == \A c \in Commands :
              world.workers = 1 /\ status[c] = "CANCELLED" => status'[c] = "CANCELLED"

\* A step that takes up a request.
LEMMA LoadKeeps ==
    ASSUME TypeOK, DecisionInv, NEW k \in Clients, NEW c \in Commands, NEW op \in Ops,
           status[c] \notin Terminal, op \in {"approve", "approve v0"} => Undecided(status[c]),
           NEW r, r.op = op, r.cmd = c, r.seen = status[c],
           CanStart, req' = [req EXCEPT ![k] = r],
           UNCHANGED <<world, rows, poll, handed, agreed, late>>
    PROVE  DecisionInv' /\ Stands
<1> USE DEF DecisionInv, rows
<1>1. req'[k] = r /\ \A j \in Clients \ {k} : req'[j] = req[j]
  BY DEF TypeOK
<1>a. req'[k].op = op /\ req'[k].cmd = c /\ req'[k].seen = status[c]
  BY <1>1
<1>b. UNCHANGED <<world, status, poll, handed, late>>
  OBVIOUS
<1>2. HandedIsPast' /\ Stands
  BY <1>b DEF HandedIsPast, Stands
<1>3. DecidesOpen'
  <2>1. /\ req'[k].op = op /\ req'[k].cmd = c /\ req'[k].seen = status[c]
        /\ \A j \in Clients \ {k} : req'[j] = req[j]
        /\ UNCHANGED <<status, handed>>
    BY <1>1, <1>a, <1>b
  <2>2. (req'[k].op \in {"approve", "approve v0"} => Undecided(req'[k].seen))
        /\ req'[k].seen \notin Terminal
    BY <2>1
  <2>3. \A j \in Clients \ {k} :
            /\ req'[j].op \in {"approve", "approve v0"} => Undecided(req'[j].seen)
            /\ req'[j].op # "idle" => req'[j].seen \notin Terminal
    BY <2>1 DEF DecidesOpen
  <2>4. \A b \in Commands : status'[b] = "absent" => handed'[b] = 0
    BY <2>1 DEF DecidesOpen
  <2> QED BY <2>2, <2>3, <2>4 DEF DecidesOpen
<1>4. ASSUME world.workers = 1 PROVE InTurns'
  <2>1. /\ \A j \in Clients : req[j].op = "idle"
        /\ \A e \in Edges : poll[e].batch = {}
    BY <1>4, StartsWhenIdle
  <2>2. /\ \A j \in Clients \ {k} : req'[j].op = "idle"
        /\ \A e \in Edges : poll'[e].batch = {}
        /\ late' = {}
    BY <1>1, <1>b, <1>4, <2>1 DEF InTurns
  <2>3. status'[req'[k].cmd] = req'[k].seen
    BY <1>a, <1>b
  <2>4. \A j \in Clients : req'[j].op # "idle" => ~(status'[req'[j].cmd] # req'[j].seen)
    BY <2>2, <2>3
  <2> QED BY <2>2, <2>4 DEF InTurns, Overtaken
<1> QED
  BY <1>1, <1>2, <1>3, <1>4

\* Every step keeps the invariant and, with one request at a time, leaves a denied
\* command denied.
LEMMA DecisionStep ==
    ASSUME TypeOK, QueuedApproved, DecisionInv, [Next]_vars
    PROVE  DecisionInv' /\ Stands
<1> USE DEF DecisionInv, rows
<1>0. /\ status \in [Commands -> Statuses] /\ handed \in [Commands -> Nat]
      /\ late \subseteq Commands
      /\ req \in [Clients -> Requests \cup {Idle}]
      /\ poll \in [Edges -> [batch : SUBSET Commands, locked : BOOLEAN]]
      /\ Clients = Users \cup Edges
  BY DEF TypeOK, Requests, Clients
<1>a. Idle.op = "idle"
  BY DEF Idle
<1>b. \A k \in Clients : req[k].op # "idle" => req[k].cmd \in Commands
  BY BusyRequest DEF Requests
<1>1. ASSUME NEW c \in Commands, Propose(c) \/ CreateV0(c) \/ (\E o \in Commands : Rollback(o, c))
      PROVE  DecisionInv' /\ Stands
  <2>1. PICK s \in {"QUEUED", "PENDING_APPROVAL"}, ask \in BOOLEAN, expiry \in {"null", "ahead"} :
            Inserted(c, s, ask, expiry)
    BY <1>1 DEF Propose, InitialStatus, CreateV0, Rollback
  <2>2. /\ status[c] = "absent" /\ status'[c] = s
        /\ \A b \in Commands \ {c} : status'[b] = status[b]
        /\ UNCHANGED <<world, req, poll, handed, late>>
    BY <1>0, <2>1 DEF Inserted
  <2>3. HandedIsPast' /\ DecidesOpen'
    <3>1. handed[c] = 0 /\ status'[c] # "absent"
      BY <2>2 DEF DecidesOpen
    <3>2. HandedIsPast'
      BY <2>2, <3>1 DEF HandedIsPast
    <3>3. \A b \in Commands : status'[b] = "absent" => handed'[b] = 0
      BY <2>2, <3>1 DEF DecidesOpen
    <3> QED BY <2>2, <3>2, <3>3 DEF DecidesOpen
  <2>4. ASSUME world.workers = 1 PROVE InTurns'
    <3>1. /\ \A k \in Clients : req[k].op = "idle"
          /\ \A e \in Edges : poll[e].batch = {}
      BY <2>1, <2>4, StartsWhenIdle DEF Inserted
    <3> QED BY <2>2, <2>4, <3>1 DEF InTurns
  <2>5. Stands
    BY <2>2 DEF Stands
  <2> QED BY <2>2, <2>3, <2>4, <2>5
<1>2. ASSUME NEW k \in Clients, NEW s \in Statuses, NEW late1,
             req[k].op # "idle", req' = [req EXCEPT ![k] = Idle],
             \/ UNCHANGED <<status, late>>
             \/ /\ status' = [status EXCEPT ![req[k].cmd] = s]
                /\ s \in Terminal \/ (s = "QUEUED" /\ (Overtaken(k) \/ Undecided(req[k].seen)))
                /\ late' = late1
                /\ late1 = IF s = "QUEUED" /\ Overtaken(k) THEN late \cup {req[k].cmd} ELSE late,
             UNCHANGED <<world, poll, handed>>
      PROVE  DecisionInv' /\ Stands
  <2>d. PICK d \in Commands : d = req[k].cmd
    BY <1>2, <1>b
  <2>1. req'[k].op = "idle" /\ \A j \in Clients \ {k} : req'[j] = req[j]
    BY <1>0, <1>2, <1>a
  <2>2. DecidesOpen'
    <3>1. \A c \in Commands : status'[c] = "absent" => status[c] = "absent"
      BY <1>0, <1>2, <2>d DEF Terminal
    <3> QED BY <1>2, <2>1, <3>1 DEF DecidesOpen
  <2>3. HandedIsPast'
    <3>1. CASE UNCHANGED <<status, late>>
      BY <1>2, <3>1 DEF HandedIsPast
    <3>2. CASE status' = [status EXCEPT ![d] = s] /\ late' = late /\ s \in Terminal
      BY <1>0, <1>2, <3>2 DEF HandedIsPast
    <3>3. CASE /\ status' = [status EXCEPT ![d] = s] /\ s = "QUEUED"
               /\ Overtaken(k) /\ late' = late \cup {d}
      BY <1>0, <1>2, <3>3 DEF HandedIsPast
    <3>4. CASE /\ status' = [status EXCEPT ![d] = s] /\ s = "QUEUED"
               /\ ~Overtaken(k) /\ Undecided(req[k].seen) /\ late' = late
      <4>1. Undecided(status[d])
        BY <2>d, <3>4 DEF Overtaken
      <4>2. d \in late \/ handed[d] = 0
        BY <1>0, <4>1 DEF HandedIsPast, Undecided, Terminal
      <4> QED BY <1>0, <1>2, <3>4, <4>2 DEF HandedIsPast
    <3> QED BY <1>2, <2>d, <3>1, <3>2, <3>3, <3>4 DEF Terminal
  <2>4. ASSUME world.workers = 1 PROVE InTurns'
    <3>1. ~Overtaken(k) /\ late = {} /\ \A e \in Edges : poll[e].batch = {}
      BY <1>2, <2>4 DEF InTurns
    <3>2. \A j \in Clients : req'[j].op = "idle"
      BY <1>2, <2>1, <2>4 DEF InTurns
    <3>3. late' = {}
      BY <1>2, <3>1
    <3> QED BY <1>2, <3>1, <3>2, <3>3 DEF InTurns
  <2>5. Stands
    <3> SUFFICES ASSUME world.workers = 1, NEW c \in Commands, status[c] = "CANCELLED"
                 PROVE  status'[c] = "CANCELLED"
      BY DEF Stands
    <3>1. c # d
      BY <1>2, <2>d DEF InTurns, Overtaken, DecidesOpen, Terminal
    <3> QED BY <1>0, <1>2, <2>d, <3>1
  <2> QED BY <1>2, <2>2, <2>3, <2>4, <2>5
<1>3. ASSUME NEW u \in Users, Decides(u) PROVE DecisionInv' /\ Stands
  <2>1. u \in Clients /\ req[u].op # "idle" /\ req' = [req EXCEPT ![u] = Idle]
        /\ UNCHANGED <<world, poll, handed>>
    BY <1>0, <1>3, DecidesDoes
  <2>2. \/ UNCHANGED <<status, late>>
        \/ /\ status' = [status EXCEPT ![req[u].cmd] = "QUEUED"]
           /\ req[u].op \in {"approve", "approve v0"}
           /\ late' = IF Overtaken(u) THEN late \cup {req[u].cmd} ELSE late
        \/ /\ status' = [status EXCEPT ![req[u].cmd] = "CANCELLED"]
           /\ UNCHANGED late
    BY <1>3, DecidesDoes
  <2>3. "QUEUED" \in Statuses /\ "CANCELLED" \in Statuses /\ "CANCELLED" \in Terminal
    BY DEF Statuses, Terminal
  <2>4. req[u].op \in {"approve", "approve v0"} => Undecided(req[u].seen)
    BY <2>1 DEF DecidesOpen
  <2>5. CASE UNCHANGED <<status, late>>
    BY <1>2, <2>1, <2>3, <2>5
  <2>6. CASE /\ status' = [status EXCEPT ![req[u].cmd] = "QUEUED"]
             /\ req[u].op \in {"approve", "approve v0"}
             /\ late' = IF Overtaken(u) THEN late \cup {req[u].cmd} ELSE late
    BY <1>2, <2>1, <2>3, <2>4, <2>6
  <2>7. CASE status' = [status EXCEPT ![req[u].cmd] = "CANCELLED"] /\ UNCHANGED late
    BY <1>2, <2>1, <2>3, <2>7
  <2> QED BY <2>2, <2>5, <2>6, <2>7
<1>4. ASSUME NEW e \in Edges, EndCommit(e) PROVE DecisionInv' /\ Stands
  <2>1. /\ e \in Clients /\ req[e].op # "idle" /\ req' = [req EXCEPT ![e] = Idle]
        /\ UNCHANGED <<world, poll, handed, late>>
    BY <1>0, <1>4 DEF EndCommit, Commit
  <2>2. PICK s \in {"SUCCEEDED", "FAILED"} : status' = [status EXCEPT ![req[e].cmd] = s]
    BY <1>4 DEF EndCommit
  <2>3. s \in Statuses /\ s \in Terminal /\ s # "QUEUED"
    BY DEF Statuses, Terminal
  <2> QED BY <1>2, <2>1, <2>2, <2>3
<1>5. ASSUME NEW k \in Clients, RequestDies(k) PROVE DecisionInv' /\ Stands
  <2>1. req[k].op # "idle" /\ req' = [req EXCEPT ![k] = Idle]
        /\ UNCHANGED <<world, status, poll, handed, late>>
    BY <1>5 DEF RequestDies
  <2>2. "QUEUED" \in Statuses
    BY DEF Statuses
  <2> QED BY <1>2, <2>1, <2>2
<1>6. ASSUME NEW e \in Edges, PollSelect(e) \/ PollDies(e) PROVE DecisionInv' /\ Stands
  <2>1. UNCHANGED <<world, status, req, handed, late>>
    BY <1>6 DEF PollSelect, PollDies
  <2>2. HandedIsPast' /\ DecidesOpen' /\ Stands
    BY <2>1 DEF HandedIsPast, DecidesOpen, Stands
  <2>3. ASSUME world.workers = 1 PROVE InTurns'
    <3>1. CASE PollDies(e)
      <4>1. poll'[e].batch = {} /\ \A d \in Edges \ {e} : poll'[d] = poll[d]
        BY <1>0, <3>1 DEF PollDies, NoBatch
      <4> QED BY <2>1, <2>3, <4>1 DEF InTurns, Overtaken
    <3>2. CASE PollSelect(e)
      <4>1. /\ \A k \in Clients : req[k].op = "idle"
            /\ \A d \in Edges : poll[d].batch = {}
        BY <2>3, <3>2, StartsWhenIdle DEF PollSelect
      <4>2. PICK S \in SUBSET {c \in Commands : Due(c) /\ Free(c)} :
                poll' = [poll EXCEPT ![e] = [batch |-> S, locked |-> TRUE]]
        BY <3>2 DEF PollSelect
      <4>3. poll'[e].batch = S /\ \A d \in Edges \ {e} : poll'[d] = poll[d]
        BY <1>0, <4>2
      <4>4. \A c \in S : status[c] = "QUEUED"
        BY DEF Due
      <4> QED BY <2>1, <2>3, <4>1, <4>3, <4>4 DEF InTurns
    <3> QED BY <1>6, <3>1, <3>2
  <2> QED BY <2>1, <2>2, <2>3
<1>7. ASSUME NEW e \in Edges, NEW c \in Commands, PollHand(e, c) PROVE DecisionInv' /\ Stands
  <2>1. /\ c \in poll[e].batch
        /\ \A b \in Commands \ {c} : status'[b] = status[b] /\ handed'[b] = handed[b]
        /\ handed'[c] = handed[c] + 1
        /\ status'[c] = "RUNNING" \/ (status'[c] = status[c] /\ status[c] # "QUEUED")
        /\ late' = IF status[c] # "QUEUED" THEN late \cup {c} ELSE late
        /\ poll'[e].batch = poll[e].batch \ {c}
        /\ \A d \in Edges \ {e} : poll'[d] = poll[d]
        /\ UNCHANGED <<world, req>>
    BY <1>0, <1>7 DEF PollHand, PollNext
  <2>2. status[c] # "absent"
    BY <2>1 DEF QueuedApproved
  <2>3. HandedIsPast'
    <3>1. CASE status[c] # "QUEUED"
      BY <2>1, <3>1 DEF HandedIsPast
    <3>2. CASE status[c] = "QUEUED"
      <4>1. c \in late \/ handed[c] = 0
        BY <1>0, <3>2 DEF HandedIsPast, Terminal
      <4>2. status'[c] = "RUNNING"
        BY <2>1, <3>2
      <4> QED BY <2>1, <3>2, <4>1, <4>2 DEF HandedIsPast
    <3> QED BY <3>1, <3>2
  <2>4. DecidesOpen'
    BY <2>1, <2>2 DEF DecidesOpen
  <2>5. ASSUME world.workers = 1 PROVE InTurns'
    <3>1. /\ \A k \in Clients : req[k].op = "idle"
          /\ \A d \in Edges \ {e} : poll[d].batch = {}
          /\ status[c] = "QUEUED"
      BY <2>1, <2>5 DEF InTurns
    <3>2. \A b \in poll[e].batch \ {c} : status'[b] = "QUEUED"
      BY <1>0, <2>1, <2>5 DEF InTurns
    <3> QED BY <2>1, <2>5, <3>1, <3>2 DEF InTurns
  <2>6. Stands
    BY <2>1 DEF Stands, InTurns
  <2> QED BY <2>1, <2>3, <2>4, <2>5, <2>6
<1>8. ASSUME NEW e \in Edges, NEW c \in Commands, PollLimited(e, c) PROVE DecisionInv' /\ Stands
  <2>1. /\ poll'[e].batch = poll[e].batch \ {c}
        /\ \A d \in Edges \ {e} : poll'[d] = poll[d]
        /\ UNCHANGED <<world, status, req, handed, late>>
    BY <1>0, <1>8 DEF PollLimited, PollNext
  <2>2. HandedIsPast' /\ DecidesOpen' /\ Stands
    BY <2>1 DEF HandedIsPast, DecidesOpen, Stands
  <2>3. InTurns => InTurns'
    BY <2>1 DEF InTurns, Overtaken
  <2> QED BY <2>1, <2>2, <2>3
<1>9. ASSUME UNCHANGED <<world, status, req, poll, handed, late>>
      PROVE  DecisionInv' /\ Stands
  BY <1>9 DEF HandedIsPast, DecidesOpen, InTurns, Overtaken, Stands
<1>10. ASSUME NEW u \in Users, NEW c \in Commands,
              ApproveLoad(u, c) \/ ApproveV0Load(u, c) \/ DenyLoad(u, c) \/ CancelLoad(u, c)
       PROVE  DecisionInv' /\ Stands
  <2>1. u \in Clients /\ status[c] \notin Terminal
    BY <1>0, <1>10
       DEF ApproveLoad, ApproveV0Load, DenyLoad, CancelLoad, Undecided, Terminal
  <2>2. PICK op \in Ops, queues \in BOOLEAN :
            Load(u, op, c, queues) /\ (op \in {"approve", "approve v0"} => Undecided(status[c]))
    <3>1. (Cardinality(votes[c]) + 2 >= StepsRequired(c)) \in BOOLEAN
      <4>1. Cardinality(votes[c]) \in Nat /\ StepsRequired(c) \in Nat
        BY VotesCounted DEF StepsRequired
      <4> QED BY <4>1
    <3> QED BY <1>10, <3>1 DEF ApproveLoad, ApproveV0Load, DenyLoad, CancelLoad, Ops, Undecided
  <2>3. PICK r : /\ r.op = op /\ r.cmd = c /\ r.seen = status[c] /\ CanStart
                 /\ req' = [req EXCEPT ![u] = r]
                 /\ UNCHANGED <<world, rows, poll, handed, agreed, late>>
    BY <2>2 DEF Load
  <2> QED BY <2>1, <2>2, <2>3, LoadKeeps
<1>11. ASSUME NEW e \in Edges, NEW c \in Commands, NEW op \in Ops, EndLoad(e, c, op)
       PROVE  DecisionInv' /\ Stands
  <2>1. e \in Clients /\ status[c] \notin Terminal /\ op \in {"succeed", "fail"}
    BY <1>0, <1>11 DEF EndLoad
  <2>2. PICK r : /\ r.op = op /\ r.cmd = c /\ r.seen = status[c] /\ CanStart
                 /\ req' = [req EXCEPT ![e] = r]
                 /\ UNCHANGED <<world, rows, poll, handed, agreed, late>>
    BY <1>11 DEF EndLoad, Load
  <2> QED BY <2>1, <2>2, LoadKeeps
<1>12. ASSUME NEW c \in Commands, Expire(c) PROVE DecisionInv' /\ Stands
  BY <1>9, <1>12 DEF Expire
<1>13. CASE UNCHANGED vars
  BY <1>9, <1>13 DEF vars
<1> HIDE DEF DecisionInv, rows
<1> QED
  BY <1>1, <1>3, <1>4, <1>5, <1>6, <1>7, <1>8, <1>10, <1>11, <1>12, <1>13 DEF Next

LEMMA DecisionStart == Init => DecisionInv
<1> SUFFICES ASSUME Init PROVE DecisionInv
  OBVIOUS
<1>1. /\ \A k \in Clients : req[k].op = "idle"
      /\ \A e \in Edges : poll[e].batch = {}
  BY DEF Init, Idle, NoBatch
<1>2. (\A c \in Commands : handed[c] = 0) /\ late = {}
  BY DEF Init
<1>3. HandedIsPast
  BY <1>2 DEF HandedIsPast
<1>4. DecidesOpen
  BY <1>1, <1>2 DEF DecidesOpen
<1>5. InTurns
  BY <1>1, <1>2 DEF InTurns
<1> QED
  BY <1>3, <1>4, <1>5 DEF DecisionInv

\* A command itself is handed out once.  A server that works on one request at a time
\* never does it again, whatever is approved, denied, cancelled, rolled back and polled
\* in whatever order; one that works on several does it only when an approval or a
\* poll has been overtaken.
THEOREM DecidedOnce == Spec => []HandedOnce
<1>1. TypeOK /\ QueuedApproved /\ DecisionInv /\ [Next]_vars => DecisionInv'
  BY DecisionStep
<1>2. TypeOK /\ DecisionInv => HandedOnce
  <2> SUFFICES ASSUME TypeOK, DecisionInv, NEW c \in Commands, ~(handed[c] <= 1)
               PROVE  world.workers > 1 /\ c \in late
    BY DEF HandedOnce
  <2>1. c \in late
    BY DEF DecisionInv, HandedIsPast
  <2>2. world.workers # 1
    BY <2>1 DEF DecisionInv, InTurns
  <2>3. world.workers \in Nat \ {0}
    BY DEF TypeOK
  <2> QED BY <2>1, <2>2, <2>3
<1> QED
  BY <1>1, <1>2, DecisionStart, QueuedApprovedAlways, ApprovalTyping, PTL DEF Spec

\* With one request at a time a denial stands, whichever API approves afterwards, and
\* so does a cancellation.
THEOREM DenialStands == Spec => DenyIsFinal
<1>1. TypeOK /\ QueuedApproved /\ DecisionInv /\ [Next]_vars => DecisionInv'
  BY DecisionStep
<1>2. TypeOK /\ QueuedApproved /\ DecisionInv /\ [Next]_vars =>
          [\A c \in Commands :
               world.workers = 1 /\ status[c] = "CANCELLED" => status'[c] = "CANCELLED"]_vars
  BY DecisionStep DEF Stands
<1> QED
  BY <1>1, <1>2, DecisionStart, QueuedApprovedAlways, ApprovalTyping, PTL DEF Spec, DenyIsFinal
=============================================================================
