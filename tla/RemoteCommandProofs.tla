------------------------- MODULE RemoteCommandProofs -------------------------
(***************************************************************************)
(* Proofs about RemoteCommand, for any miners, devices, operators, numbers  *)
(* of dispatches and circumstances: the types; with one worker, or one      *)
(* operator, that the command is dispatched once; with one worker, that it  *)
(* gets its verdict when its children have ended; and, without collectors,  *)
(* that the verdict is true and final.                                      *)
(***************************************************************************)
EXTENDS RemoteCommand, FiniteSetTheorems, TLAPS

USE RowAssumption, RemoteAssumption

-----------------------------------------------------------------------------
(* Types.                                                                   *)

LEMMA RowConstants ==
    /\ AbsentRow \in Rows /\ NewRow \in Rows
    /\ AbsentRow.status = "absent" /\ NewRow.status = "pending"
<1>1. 0 \in Numbers
  BY DEF Numbers
<1>2. NewRow = [status |-> "pending", lease_owner |-> NoOwner, lease_until |-> "none",
                retry_count |-> 0, dispatch_nonce |-> 0]
  BY DEF NewRow, AbsentRow
<1> QED
  BY <1>1, <1>2 DEF AbsentRow, Rows, Statuses, STATUS_TYPES

\* Polls, ACKs and the recovery job compute rows, and this is their status.
LEMMA RowTypes ==
    ASSUME NEW r \in Rows
    PROVE  /\ \A d \in Devices : Leased(r, d, 0) \in Rows /\ Leased(r, d, 0).status = "dispatched"
           /\ \A s \in Outcomes \ {"none"} :
                  /\ AckedRow(r, s) \in Rows
                  /\ AckedRow(r, s).status \in {"pending", s}
           /\ RecoveredRow(r) \in Rows /\ RecoveredRow(r).status \in {"pending", "failed"}
           /\ \A s \in Statuses : [r EXCEPT !.status = s] \in Rows
           /\ [r EXCEPT !.lease_until = "lapsed"] \in Rows
           /\ [r EXCEPT !.lease_until = "lapsed"].status = r.status
<1>1. \A d \in Devices : Leased(r, d, 0) \in Rows /\ Leased(r, d, 0).status = "dispatched"
  <2>1. \A d \in Devices, n \in Numbers : Leased(r, d, n) \in Rows
    BY DEF Leased, Rows, Statuses, STATUS_TYPES
  <2>2. \A d \in Devices, n \in Numbers : Leased(r, d, n).status = "dispatched"
    BY DEF Leased, Rows
  <2>3. 0 \in Numbers
    BY DEF Numbers
  <2> QED
    BY <2>1, <2>2, <2>3
<1>2. /\ Released(r) \in Rows /\ Released(r).retry_count = r.retry_count
  BY DEF Released, Rows
<1>3. \A s \in Statuses : [r EXCEPT !.status = s] \in Rows
  BY DEF Rows
<1>4. [r EXCEPT !.lease_until = "lapsed"] \in Rows /\ [r EXCEPT !.lease_until = "lapsed"].status = r.status
  BY DEF Rows
<1>5. \A s \in Statuses : LET p == [Released(r) EXCEPT !.status = s]
                          IN  p \in Rows /\ p.status = s
  BY <1>2 DEF Rows
<1>6. ASSUME r.retry_count < MaxRetries
      PROVE  LET p == [Released(r) EXCEPT !.status = "pending", !.retry_count = @ + 1]
             IN  p \in Rows /\ p.status = "pending"
  <2>1. r.retry_count + 1 \in 0 .. MaxRetries
    BY <1>6 DEF Rows
  <2>2. "pending" \in Statuses
    BY DEF Statuses, STATUS_TYPES
  <2> DEFINE p == [Released(r) EXCEPT !.status = "pending", !.retry_count = Released(r).retry_count + 1]
  <2>3. p \in Rows
    BY <1>2, <2>1, <2>2 DEF Released, Rows
  <2>4. p.status = "pending"
    BY <1>2 DEF Rows
  <2> QED
    BY <2>3, <2>4
<1>7. \A s \in Outcomes \ {"none"} : s \in Statuses
  BY DEF Outcomes, Statuses, STATUS_TYPES, TERMINAL_STATES
<1>8. \A s \in Outcomes \ {"none"} :
          AckedRow(r, s) \in Rows /\ AckedRow(r, s).status \in {"pending", s}
  BY <1>5, <1>6, <1>7 DEF AckedRow, Retries
<1>9. RecoveredRow(r) \in Rows /\ RecoveredRow(r).status \in {"pending", "failed"}
  BY <1>5, <1>6 DEF RecoveredRow, Statuses, STATUS_TYPES, TERMINAL_STATES
<1> QED
  BY <1>1, <1>3, <1>4, <1>8, <1>9

\* What a commit makes of the row it finds, and of its status.
LEMMA FlushTypes ==
    ASSUME NEW cur \in Rows, NEW snap \in Rows, NEW new \in Rows
    PROVE  /\ Flush(cur, snap, new) \in Rows
           /\ Flush(cur, snap, new).status \in {cur.status, new.status}
BY DEF Flush, Net, Rows

\* No outcome that an ACK reports is a status in which a child does not count.
LEMMA OutcomesCount == \A s \in Outcomes : s \notin {"absent", "superseded"}
BY DEF Outcomes

\* Requests.
LEMMA RequestTypes ==
    /\ Idle \in Request /\ Idle.op = "idle"
    /\ \A op \in {"sync", "aggregate", "approve", "dispatch", "cancel"} :
           [Idle EXCEPT !.op = op] \in Request /\ [Idle EXCEPT !.op = op].op = op
<1>1. Unmarked \in [Miners -> ResultStatus]
  BY DEF Unmarked, ResultStatus
<1>2. Idle \in Handlers /\ Idle.op = "idle"
  BY <1>1, RowConstants DEF Idle, Handlers, Parents, Ops, Outcomes
<1>3. \A op \in Ops : [Idle EXCEPT !.op = op] \in Handlers /\ [Idle EXCEPT !.op = op].op = op
  BY <1>2 DEF Handlers
<1> QED
  BY <1>2, <1>3 DEF Request, Ops

LEMMA WriteRequest ==
    ASSUME NEW was \in Parents, NEW will \in Parents
    PROVE  LET r == [Idle EXCEPT !.op = "write", !.was = was, !.will = will]
           IN  r \in Request /\ r.op = "write" /\ r.was = was /\ r.will = will
<1>1. Idle \in Handlers
  BY RequestTypes DEF Request
<1> QED
  BY <1>1 DEF Request, Handlers, Ops

\* A request that is given to a client.
LEMMA SetRequest ==
    ASSUME TypeOK, NEW x \in Clients, NEW r \in Request, req' = [req EXCEPT ![x] = r]
    PROVE  /\ req' \in [Clients -> Request]
           /\ req'[x] = r
           /\ \A y \in Clients \ {x} : req'[y] = req[y]
BY DEF TypeOK

LEMMA Hands ==
    ASSUME TypeOK, NEW x \in Clients, NEW is, is \subseteq Ids \cup {Itself(m) : m \in Miners},
           HandOut(x, is)
    PROVE  /\ held' \in [Clients -> SUBSET Ids]
           /\ ran' \in [Miners -> SUBSET (Ids \cup {Itself(m) : m \in Miners})]
           /\ \A y \in Clients : held'[y] \subseteq held[y] \cup (is \cap Ids)
<1>1. held' = [held EXCEPT ![x] = held[x] \cup (is \cap Ids)] \/ held' = held
  BY DEF HandOut, TypeOK
<1>2. ran' = [m \in Miners |-> ran[m] \cup {i \in is : MinerOf(i) = m}]
  BY DEF HandOut
<1> QED
  BY <1>1, <1>2 DEF TypeOK

-----------------------------------------------------------------------------
LEMMA OperatorTyping ==
    ASSUME TypeOK, NEW x \in Operators, OperatorStep(x)
    PROVE  TypeOK'
<1> x \in Clients
  BY DEF Clients
<1>1. ASSUME NEW b \in BOOLEAN, Create(x, b) PROVE TypeOK'
  BY <1>1 DEF Create, TypeOK, Parents, CommandStatus, ResultStatus
<1>2. ASSUME NEW op \in {"approve", "cancel", "dispatch"}, Proceed(x, op)
      PROVE  req' \in [Clients -> Request]
  BY <1>2, RequestTypes, SetRequest DEF Proceed
<1>3. CASE ApproveLoad(x) \/ CancelLoad(x)
  BY <1>2, <1>3 DEF ApproveLoad, CancelLoad, TypeOK
<1>4. CASE ApproveCommit(x)
  BY <1>2, <1>4 DEF ApproveCommit, TypeOK, Parents, CommandStatus
<1>5. ASSUME Done(x) PROVE req' \in [Clients -> Request]
  BY <1>5, RequestTypes, SetRequest DEF Done
<1>6. CASE Dispatch(x)
  <2>1. child' \in [Ids -> Rows]
    BY <1>6, RowConstants DEF Dispatch, TypeOK
  <2>2. results' \in [Miners -> ResultStatus] /\ remote' \in Parents
    BY <1>6 DEF Dispatch, TypeOK, ResultStatus, Parents, CommandStatus
  <2> QED
    BY <1>5, <1>6, <2>1, <2>2 DEF Dispatch, TypeOK
<1>7. CASE CancelCommit(x)
  BY <1>5, <1>7 DEF CancelCommit, TypeOK, ResultStatus, Parents, CommandStatus
<1>8. ASSUME NEW i \in Ids, CancelChild(x, i) PROVE TypeOK'
  <2>0. child[i] \in Rows
    BY DEF TypeOK
  <2>1. [child[i] EXCEPT !.status = "cancelled"] \in Rows
    BY <2>0, RowTypes DEF Statuses, STATUS_TYPES, TERMINAL_STATES
  <2> QED
    BY <1>8, <2>1 DEF CancelChild, TypeOK
<1> QED
  BY <1>1, <1>3, <1>4, <1>6, <1>7, <1>8 DEF OperatorStep

\* The commit of a verdict.
LEMMA WriteTyping ==
    ASSUME TypeOK, NEW x \in Clients, Write(x)
    PROVE  TypeOK'
<1>1. req[x].will \in Parents /\ req[x].marks \in [Miners -> ResultStatus]
  BY DEF TypeOK, Request, Handlers
<1>2. remote' \in Parents
  BY <1>1 DEF Write, Net, TypeOK
<1>3. results' \in [Miners -> ResultStatus]
  BY <1>1 DEF Write, TypeOK
<1>4. req' \in [Clients -> Request]
  BY RequestTypes, SetRequest DEF Write, Done
<1> QED
  BY <1>2, <1>3, <1>4 DEF Write, TypeOK

LEMMA VerdictParents ==
    SyncVerdict \in {"SUCCEEDED", "FAILED"} /\ AggregateVerdict \in {"SUCCEEDED", "PARTIAL", "FAILED"}
BY DEF SyncVerdict, AggregateVerdict

\* What _sync_remote_command_status does with the request that it serves.
LEMMA SyncRequest ==
    ASSUME TypeOK, NEW d \in Clients, SyncLoad(d)
    PROVE  /\ req' \in [Clients -> Request]
           /\ \A y \in Clients \ {d} : req'[y] = req[y]
           /\ \/ req'[d].op = "idle"
              \/ /\ All(TERMINAL_STATES) /\ ~IsTerminal(remote)
                 /\ req'[d].op = "write" /\ req'[d].was = remote /\ req'[d].will = SyncVerdict
<1>1. CASE All(TERMINAL_STATES) /\ ~IsTerminal(remote)
  <2> DEFINE r == [Idle EXCEPT !.op = "write", !.was = remote, !.will = SyncVerdict]
  <2>1. remote \in Parents /\ SyncVerdict \in Parents
    BY VerdictParents DEF TypeOK, Parents, CommandStatus
  <2>2. r \in Request /\ r.op = "write" /\ r.was = remote /\ r.will = SyncVerdict
    BY <2>1, WriteRequest
  <2>3. req' = [req EXCEPT ![d] = r]
    BY <1>1 DEF SyncLoad
  <2> HIDE DEF r
  <2> QED
    BY <1>1, <2>2, <2>3, SetRequest
<1>2. CASE ~(All(TERMINAL_STATES) /\ ~IsTerminal(remote))
  <2>1. req' = [req EXCEPT ![d] = Idle]
    BY <1>2 DEF SyncLoad, Done
  <2> QED
    BY <2>1, RequestTypes, SetRequest
<1> QED
  BY <1>1, <1>2

\* The request of an ACK that has loaded its child.
LEMMA AckLoads ==
    ASSUME TypeOK, NEW d \in Clients, NEW i \in Ids, NEW s \in AckStatuses, AckLoad(d, i, s)
    PROVE  /\ req' \in [Clients -> Request]
           /\ req'[d].op = "ack" /\ req'[d].cmd = i
           /\ \A y \in Clients \ {d} : req'[y] = req[y]
<1>1. PICK row \in Rows : row = child[i]
  BY DEF TypeOK
<1>2. PICK e \in Outcomes \ {"none"} : e = IF expired THEN "expired" ELSE s
  BY RowAssumption DEF Outcomes
<1> DEFINE r == [Idle EXCEPT !.op = "ack", !.cmd = i, !.snap = row, !.ack = e]
<1>3. req' = [req EXCEPT ![d] = r]
  BY <1>1, <1>2 DEF AckLoad
<1>4. r \in Request /\ r.op = "ack" /\ r.cmd = i
  <2>1. Idle \in Handlers
    BY RequestTypes DEF Request
  <2> QED
    BY <2>1 DEF Request, Handlers, Ops
<1> HIDE DEF r
<1> QED
  BY <1>3, <1>4, SetRequest

\* The row that it commits.
LEMMA AckedTypes ==
    ASSUME TypeOK, NEW d \in Clients, req[d].op = "ack"
    PROVE  /\ req[d].cmd \in Ids /\ Acked(d) \in Rows
           /\ child[req[d].cmd].status \notin {"absent", "superseded"}
                  => Acked(d).status \notin {"absent", "superseded"}
<1> DEFINE i == req[d].cmd
<1> DEFINE snap == req[d].snap
<1> DEFINE s == req[d].ack
<1>1. i \in Ids /\ snap \in Rows /\ s \in Outcomes \ {"none"}
  BY DEF TypeOK, Request, Handlers
<1>2. child[i] \in Rows
  BY <1>1 DEF TypeOK
<1>3. AckedRow(snap, s) \in Rows /\ AckedRow(snap, s).status \in {"pending", s}
  <2> HIDE DEF snap, s
  <2> QED
    BY <1>1, RowTypes
<1>4. /\ Flush(child[i], snap, AckedRow(snap, s)) \in Rows
      /\ Flush(child[i], snap, AckedRow(snap, s)).status \in {child[i].status, AckedRow(snap, s).status}
  <2> HIDE DEF i, snap, s
  <2> QED
    BY <1>1, <1>2, <1>3, FlushTypes
<1>5. s \notin {"absent", "superseded"}
  BY <1>1, OutcomesCount
<1> QED
  BY <1>1, <1>3, <1>4, <1>5 DEF Acked

\* What recovery makes of the child that it has loaded.
LEMMA RecoverTypes ==
    ASSUME TypeOK, RecoverCommit
    PROVE  \E i \in Ids, r \in Rows :
               /\ i = rec.cmd
               /\ r.status \in {child[i].status, "pending", "failed"}
               /\ child' = [child EXCEPT ![i] = r]
               /\ overtaken' = IF Ended(child[i]) /\ r.status # child[i].status
                               THEN overtaken \cup {i} ELSE overtaken
<1> DEFINE i == rec.cmd
<1> DEFINE snap == rec.snap
<1> DEFINE new == RecoveredRow(snap)
<1> DEFINE r == Flush(child[i], snap, new)
<1>1. i \in Ids
  BY DEF RecoverCommit
<1>2. child[i] \in Rows /\ snap \in Rows
  BY <1>1 DEF TypeOK, Passes
<1>3. new \in Rows /\ new.status \in {"pending", "failed"}
  <2> HIDE DEF snap
  <2> QED
    BY <1>2, RowTypes
<1>4. r \in Rows /\ r.status \in {child[i].status, new.status}
  <2> HIDE DEF i, snap, new
  <2> QED
    BY <1>2, <1>3, FlushTypes
<1>5. /\ child' = [child EXCEPT ![i] = r]
      /\ overtaken' = IF Ended(child[i]) /\ r.status # child[i].status
                      THEN overtaken \cup {i} ELSE overtaken
  BY DEF RecoverCommit
<1>6. r.status \in {child[i].status, "pending", "failed"}
  BY <1>3, <1>4
<1> HIDE DEF r
<1> QED
  BY <1>1, <1>4, <1>5, <1>6

LEMMA DeviceTyping ==
    ASSUME TypeOK, NEW d \in Devices, DeviceStep(d)
    PROVE  TypeOK'
<1> d \in Clients
  BY DEF Clients
<1>1. ASSUME NEW i \in Ids, PollChild(d, i) PROVE TypeOK'
  <2>0. child[i] \in Rows
    BY DEF TypeOK
  <2>1. Leased(child[i], d, 0) \in Rows
    BY <2>0, RowTypes
  <2>2. HandOut(d, {i})
    BY <1>1 DEF PollChild
  <2> QED
    BY <1>1, <2>1, <2>2, Hands DEF PollChild, TypeOK
<1>2. CASE PollRemote(d)
  <2>1. HandOut(d, {Itself(m) : m \in Miners})
    BY <1>2 DEF PollRemote
  <2> QED
    BY <1>2, <2>1, Hands DEF PollRemote, TypeOK, Parents, CommandStatus
<1>3. ASSUME NEW i \in Ids, NEW s \in AckStatuses, AckLoad(d, i, s) PROVE TypeOK'
  <2>1. req' \in [Clients -> Request]
    BY <1>3, AckLoads
  <2> QED
    BY <1>3, <2>1 DEF AckLoad, TypeOK
<1>6. CASE AckCommit(d)
  <2>1. child' = [child EXCEPT ![req[d].cmd] = Acked(d)] /\ req[d].op = "ack"
    BY <1>6 DEF AckCommit
  <2>2. child' \in [Ids -> Rows]
    BY <2>1, AckedTypes DEF TypeOK
  <2>3. req' \in [Clients -> Request]
    BY <1>6, RequestTypes, SetRequest DEF AckCommit, Proceed
  <2> QED
    BY <1>6, <2>2, <2>3 DEF AckCommit, TypeOK
<1>4. CASE SyncLoad(d)
  BY <1>4, SyncRequest DEF SyncLoad, TypeOK
<1>5. CASE Write(d)
  BY <1>5, WriteTyping
<1> QED
  BY <1>1, <1>2, <1>3, <1>4, <1>5, <1>6 DEF DeviceStep

\* What aggregate_command_results makes of the request that it serves.
LEMMA AggregateRequest ==
    ASSUME TypeOK, NEW k \in Clients, AggregateLoad(k)
    PROVE  /\ req' \in [Clients -> Request]
           /\ \A y \in Clients \ {k} : req'[y] = req[y]
           /\ req'[k].op = "write" /\ req'[k].was = remote
           /\ req'[k].will = IF AllCounted THEN AggregateVerdict ELSE remote
<1> DEFINE will == IF AllCounted THEN AggregateVerdict ELSE remote
<1>1. PICK marks \in [Miners -> ResultStatus] :
          req' = [req EXCEPT ![k] =
                [Idle EXCEPT !.op = "write", !.was = remote, !.will = will,
                    !.marks = [m \in Miners |-> IF marks[m] = results[m] THEN "none" ELSE marks[m]]]]
  BY DEF AggregateLoad
<1>2. PICK new \in [Miners -> ResultStatus] :
          new = [m \in Miners |-> IF marks[m] = results[m] THEN "none" ELSE marks[m]]
  BY DEF ResultStatus
<1>3. will \in Parents /\ remote \in Parents
  BY VerdictParents DEF TypeOK, Parents, CommandStatus
<1>4. Idle \in Handlers
  BY RequestTypes DEF Request
<1> DEFINE r == [Idle EXCEPT !.op = "write", !.was = remote, !.will = will, !.marks = new]
<1>5. r \in Request /\ r.op = "write" /\ r.was = remote /\ r.will = will
  <2> HIDE DEF will
  <2> QED
    BY <1>3, <1>4 DEF Request, Handlers, Ops
<1>6. req' = [req EXCEPT ![k] = r]
  BY <1>1, <1>2
<1> HIDE DEF r
<1> QED
  BY <1>5, <1>6, SetRequest

LEMMA CollectorTyping ==
    ASSUME TypeOK, NEW k \in Collectors, CollectorStep(k)
    PROVE  TypeOK'
<1> k \in Clients
  BY DEF Clients
<1>1. CASE Fetch(k)
  <2> DEFINE due == {i \in Ids : child[i].status = "pending"}
  <2> DEFINE now == IF expired THEN "expired" ELSE "sent"
  <2>1. \A i \in Ids : [child[i] EXCEPT !.status = now] \in Rows
    <3>1. now \in Statuses
      BY DEF Statuses, STATUS_TYPES, TERMINAL_STATES
    <3> HIDE DEF now
    <3> QED
      BY <3>1, RowTypes DEF TypeOK
  <2>2. child' = [i \in Ids |-> IF i \in due THEN [child[i] EXCEPT !.status = now] ELSE child[i]]
    BY <1>1 DEF Fetch
  <2>3. child' \in [Ids -> Rows]
    <3> HIDE DEF due, now
    <3> QED
      BY <2>1, <2>2 DEF TypeOK
  <2>4. UNCHANGED <<held, ran>> \/ HandOut(k, due)
    BY <1>1 DEF Fetch
  <2>5. /\ held' \in [Clients -> SUBSET Ids]
        /\ ran' \in [Miners -> SUBSET (Ids \cup {Itself(m) : m \in Miners})]
    BY <2>4, Hands DEF TypeOK
  <2> QED
    BY <1>1, <2>3, <2>5 DEF Fetch, TypeOK
<1>2. ASSUME NEW i \in Ids, NEW s \in {"completed", "failed"}, Report(k, i, s) PROVE TypeOK'
  <2>0. child[i] \in Rows
    BY DEF TypeOK
  <2>1. [child[i] EXCEPT !.status = s] \in Rows
    BY <2>0, RowTypes DEF Statuses, STATUS_TYPES, TERMINAL_STATES
  <2>2. req' \in [Clients -> Request]
    BY <1>2, RequestTypes, SetRequest DEF Report, Proceed
  <2> QED
    BY <1>2, <2>1, <2>2 DEF Report, TypeOK
<1>3. CASE AggregateLoad(k)
  BY <1>3, AggregateRequest DEF AggregateLoad, TypeOK
<1>4. CASE Write(k)
  BY <1>4, WriteTyping
<1> QED
  BY <1>1, <1>2, <1>3, <1>4 DEF CollectorStep

LEMMA RecoverTyping ==
    ASSUME TypeOK, RecoverStep
    PROVE  TypeOK'
<1>1. NoPass \in Passes
  BY RowConstants DEF NoPass, Passes
<1>2. ASSUME NEW i \in Ids, NEW todo \in SUBSET Ids,
             rec' = [cmd |-> i, snap |-> child[i], todo |-> todo]
      PROVE  rec' \in Passes
  BY <1>2 DEF TypeOK, Passes
<1>3. CASE RecoverSelect
  BY <1>2, <1>3 DEF RecoverSelect, TypeOK
<1>4. CASE RecoverNext
  <2>1. rec.todo \subseteq Ids
    BY DEF TypeOK, Passes
  <2>2. rec' \in Passes
    BY <1>2, <1>4, <2>1 DEF RecoverNext
  <2> QED
    BY <1>4, <2>2 DEF RecoverNext, TypeOK
<1>5. CASE RecoverCommit
  <2>1. PICK i \in Ids, r \in Rows :
            /\ child' = [child EXCEPT ![i] = r]
            /\ overtaken' = IF Ended(child[i]) /\ r.status # child[i].status
                            THEN overtaken \cup {i} ELSE overtaken
    BY <1>5, RecoverTypes
  <2>2. [NoPass EXCEPT !.todo = rec.todo] \in Passes
    BY <1>1 DEF TypeOK, Passes
  <2>3. child' \in [Ids -> Rows] /\ overtaken' \subseteq Ids
    BY <2>1 DEF TypeOK
  <2> QED
    BY <1>5, <2>2, <2>3 DEF RecoverCommit, TypeOK
<1>6. CASE RecoveryDies
  BY <1>1, <1>6 DEF RecoveryDies, TypeOK
<1> QED
  BY <1>3, <1>4, <1>5, <1>6 DEF RecoverStep

\* Every step of the system keeps the type of every variable.
LEMMA TypingStep ==
    ASSUME TypeOK, [Next]_vars
    PROVE  TypeOK'
<1>1. ASSUME NEW i \in Ids, LeaseLapse(i) PROVE TypeOK'
  <2>1. child[i] \in Rows
    BY DEF TypeOK
  <2>2. [child[i] EXCEPT !.lease_until = "lapsed"] \in Rows
    BY <2>1, RowTypes
  <2> QED
    BY <1>1, <2>2 DEF LeaseLapse, TypeOK
<1>5. CASE RecoverStep
  BY <1>5, RecoverTyping
<1>2. CASE Expire
  BY <1>2 DEF Expire, TypeOK
<1>3. ASSUME NEW x \in Clients, RequestDies(x) PROVE TypeOK'
  BY <1>3, RequestTypes, SetRequest DEF RequestDies, Done, TypeOK
<1>4. CASE UNCHANGED vars
  BY <1>4 DEF vars, TypeOK
<1> QED
  BY <1>1, <1>2, <1>3, <1>4, <1>5, OperatorTyping, DeviceTyping, CollectorTyping DEF Next

(***************************************************************************)
(* Every variable keeps its type, whatever takes part.                      *)
(***************************************************************************)
THEOREM RemoteTyping == Spec => []TypeOK
<1>1. Init => TypeOK
  <2> SUFFICES ASSUME Init PROVE TypeOK
    OBVIOUS
  <2>1. remote \in Parents /\ results \in [Miners -> ResultStatus]
    BY DEF Init, Unmarked, Parents, ResultStatus
  <2> QED
    BY <2>1, RowConstants, RequestTypes DEF Init, TypeOK, NoPass, Passes
<1> QED
  BY <1>1, TypingStep, PTL DEF Spec

-----------------------------------------------------------------------------
(* What steps do to the children, however many workers there are.           *)

LEMMA NoChildIsNone == NoChild \notin Ids
BY DEF NoChild, Ids

LEMMA WorldStays ==
    ASSUME [Next]_vars
    PROVE  world' = world
BY DEF Next, vars, OperatorStep, DeviceStep, CollectorStep, RecoverStep, Create, ApproveLoad,
       ApproveCommit, Dispatch, CancelLoad, CancelCommit, CancelChild, PollChild, PollRemote,
       AckLoad, AckCommit, SyncLoad, Write, Fetch, AggregateLoad, Report, RecoverSelect,
       RecoverCommit, RecoverNext, RecoveryDies, LeaseLapse, Expire, RequestDies

LEMMA InitiallyAgree ==
    ASSUME Init, Children = {}
    PROVE  ChildrenAgree
<1>1. \A i \in Ids : child[i].status # "superseded"
  BY RowConstants DEF Init
<1>2. rec.todo = {} /\ rec.cmd \notin Ids
  BY NoChildIsNone DEF Init, NoPass
<1> QED
  BY <1>1, <1>2 DEF Init, ChildrenAgree

\* The dispatch of a command that has no children.
LEMMA FirstDispatch ==
    ASSUME ChildrenAgree, NEW x \in Clients, Dispatch(x), Children = {},
           remote \in {"QUEUED", "RUNNING"}
    PROVE  ChildrenAgree' /\ (Foreign = Miners => Children' = {})
<1>1. \A i \in Ids : child[i].status = "absent"
  BY DEF Children, Exists
<1>2. PICK n \in Copies :
          child' = [i \in Ids |-> IF i[2] = n /\ MinerOf(i) \notin Foreign THEN NewRow ELSE child[i]]
  BY DEF Dispatch
<1>3. Children' = {i \in Ids : i[2] = n /\ MinerOf(i) \notin Foreign}
  BY <1>1, <1>2, RowConstants DEF Children, Exists
<1>4. /\ \A i, j \in Children' : i[2] = j[2]
      /\ \A i \in Ids : child'[i].status # "superseded"
  BY <1>1, <1>2, <1>3, RowConstants
<1>5. \A y \in Clients : held'[y] = {}
  BY DEF Dispatch, ChildrenAgree
<1>6. rec'.cmd \notin Ids /\ rec'.todo = {}
  BY DEF Dispatch, ChildrenAgree
<1>7. remote' \notin {"absent", "PENDING_APPROVAL"}
  BY DEF Dispatch
<1>8. Foreign = Miners => Children' = {}
  BY <1>3 DEF Ids, MinerOf
<1> QED
  BY <1>4, <1>5, <1>6, <1>7, <1>8 DEF ChildrenAgree

\* The two sections of a poll.
LEMMA Polled ==
    ASSUME TypeOK, NEW d \in Clients, d \in Devices, NEW i \in Ids, PollChild(d, i)
    PROVE  /\ i \in Children /\ ~Ended(child[i])
           /\ child'[i].status = "dispatched" /\ \A j \in Ids \ {i} : child'[j] = child[j]
           /\ \A y \in Clients : held'[y] \subseteq held[y] \cup {i}
<1>1. child[i] \in Rows
  BY DEF TypeOK
<1>2. Leased(child[i], d, 0) \in Rows /\ Leased(child[i], d, 0).status = "dispatched"
  BY <1>1, RowTypes
<1>3. child' = [child EXCEPT ![i] = Leased(child[i], d, 0)]
  BY DEF PollChild, TypeOK
<1>4. HandOut(d, {i})
  BY DEF PollChild
<1>5. \A y \in Clients : held'[y] \subseteq held[y] \cup {i}
  BY <1>4, Hands
<1>6. i \in Children /\ ~Ended(child[i])
  BY DEF PollChild, Children, Exists, Ended, TERMINAL_STATES
<1> QED
  BY <1>2, <1>3, <1>5, <1>6 DEF TypeOK

LEMMA PolledItself ==
    ASSUME TypeOK, NEW d \in Clients, PollRemote(d)
    PROVE  \A y \in Clients : held'[y] \subseteq held[y]
<1>1. HandOut(d, {Itself(m) : m \in Miners})
  BY DEF PollRemote
<1>2. {Itself(m) : m \in Miners} \cap Ids = {}
  BY RemoteAssumption DEF Itself, Ids
<1> QED
  BY <1>1, <1>2, Hands

\* The commit of an ACK.
LEMMA AckMoves ==
    ASSUME TypeOK, ChildrenAgree, NEW d \in Clients, AckCommit(d), req[d].cmd \in Children
    PROVE  /\ child'[req[d].cmd].status \notin {"absent", "superseded"}
           /\ \A j \in Ids \ {req[d].cmd} : child'[j] = child[j]
<1>1. /\ req[d].cmd \in Ids /\ Acked(d) \in Rows
      /\ child[req[d].cmd].status \notin {"absent", "superseded"}
            => Acked(d).status \notin {"absent", "superseded"}
  BY AckedTypes DEF AckCommit
<1>2. child[req[d].cmd].status \notin {"absent", "superseded"}
  BY <1>1 DEF ChildrenAgree, Children, Exists
<1>3. child' = [child EXCEPT ![req[d].cmd] = Acked(d)]
  BY DEF AckCommit
<1> QED
  BY <1>1, <1>2, <1>3 DEF TypeOK

\* A fetch of the collector API.
LEMMA Fetched ==
    ASSUME TypeOK, NEW k \in Clients, Fetch(k)
    PROVE  \E due \in SUBSET Children :
               /\ due # {} /\ \A i \in due : ~Ended(child[i])
               /\ \A i \in Ids \ due : child'[i] = child[i]
               /\ \A i \in due : child'[i].status \notin {"absent", "superseded"}
               /\ \A y \in Clients : held'[y] \subseteq held[y] \cup due
<1> DEFINE due == {i \in Ids : child[i].status = "pending"}
<1> DEFINE now == IF expired THEN "expired" ELSE "sent"
<1>1. due \in SUBSET Children /\ due # {} /\ \A i \in due : ~Ended(child[i])
  BY DEF Fetch, Children, Exists, Ended, TERMINAL_STATES
<1>2. /\ \A i \in Ids \ due : child'[i] = child[i]
      /\ \A i \in due : child'[i].status = now
  BY DEF Fetch, TypeOK, Rows
<1>3. \A y \in Clients : held'[y] \subseteq held[y] \cup due
  <2>1. UNCHANGED held \/ HandOut(k, due)
    BY DEF Fetch
  <2> QED
    BY <2>1, Hands
<1>4. now \notin {"absent", "superseded"}
  OBVIOUS
<1> HIDE DEF due, now
<1> QED
  BY <1>1, <1>2, <1>3, <1>4

\* Steps that change no status and no request: recovery visits only children.
LEMMA PassStays ==
    ASSUME TypeOK, ChildrenAgree,
           \/ RecoverSelect \/ RecoverNext \/ RecoveryDies \/ Expire \/ UNCHANGED vars
           \/ \E i \in Ids : LeaseLapse(i)
    PROVE  /\ UNCHANGED <<remote, req, held, overtaken>>
           /\ \A i \in Ids : child'[i].status = child[i].status
           /\ rec'.cmd \in Ids => rec'.cmd \in Children
           /\ rec'.todo \subseteq Children
<1>1. (rec.cmd \in Ids => rec.cmd \in Children) /\ rec.todo \subseteq Children
  BY DEF ChildrenAgree
<1>2. CASE RecoverSelect
  <2>1. {i \in Ids : /\ child[i].status = "dispatched"
                     /\ child[i].lease_until = "lapsed"
                     /\ child[i].lease_owner # NoOwner} \subseteq Children
    BY DEF Children, Exists
  <2> QED
    BY <1>2, <2>1 DEF RecoverSelect
<1>3. CASE RecoverNext
  BY <1>1, <1>3 DEF RecoverNext
<1>4. CASE RecoveryDies
  BY <1>4, NoChildIsNone DEF RecoveryDies, NoPass
<1>5. CASE Expire \/ UNCHANGED vars
  BY <1>1, <1>5 DEF Expire, vars
<1>6. ASSUME NEW i \in Ids, LeaseLapse(i)
      PROVE  /\ UNCHANGED <<remote, req, rec, held, overtaken>>
             /\ \A j \in Ids : child'[j].status = child[j].status
  <2>1. child[i] \in Rows
    BY DEF TypeOK
  <2>2. [child[i] EXCEPT !.lease_until = "lapsed"].status = child[i].status
    BY <2>1, RowTypes
  <2>3. child' = [child EXCEPT ![i] = [child[i] EXCEPT !.lease_until = "lapsed"]]
    BY <1>6 DEF LeaseLapse, TypeOK
  <2> QED
    BY <1>6, <2>2, <2>3 DEF LeaseLapse, TypeOK
<1> QED
  BY <1>1, <1>2, <1>3, <1>4, <1>5, <1>6

-----------------------------------------------------------------------------
(* One worker.                                                              *)

\* A request that the only worker takes up finds no other one under way.
LEMMA StartAlone ==
    ASSUME OneWorker, TypeOK, NEW x \in Clients, CanStart(x)
    PROVE  \A y \in Clients : req[y].op = "idle"
<1> DEFINE busy == {y \in Clients : req[y].op # "idle"}
<1>1. IsFiniteSet(busy)
  BY FS_Subset
<1>2. Cardinality(busy) \in Nat /\ Cardinality(busy) < 1
  BY <1>1, FS_CardinalityType DEF CanStart, OneWorker
<1>3. busy = {}
  BY <1>1, <1>2, FS_EmptySet
<1> QED
  BY <1>3

\* A request that goes on, or is taken up, or ends, while no other is under way.
LEMMA Alone ==
    ASSUME NEW x \in Clients, Timely(x)',
           \A y \in Clients \ {x} : req'[y].op = "idle"
    PROVE  OneRequest' /\ \A y \in Clients : Timely(y)'
<1>1. \A y \in Clients : req'[y].op = "idle" => Timely(y)'
  BY DEF Timely
<1> QED
  BY <1>1 DEF OneRequest

\* A client's request gets another thing to do, or ends.
LEMMA GoesOn ==
    ASSUME TypeOK, NEW x \in Clients, \A y \in Clients \ {x} : req[y].op = "idle",
           NEW op \in {"sync", "aggregate", "approve", "dispatch", "cancel"}, Proceed(x, op)
    PROVE  req'[x].op = op /\ \A y \in Clients \ {x} : req'[y].op = "idle"
<1>1. [Idle EXCEPT !.op = op] \in Request /\ [Idle EXCEPT !.op = op].op = op
  BY RequestTypes
<1> QED
  BY <1>1, SetRequest DEF Proceed

LEMMA Ends ==
    ASSUME TypeOK, NEW x \in Clients, Done(x)
    PROVE  req'[x].op = "idle" /\ \A y \in Clients \ {x} : req'[y] = req[y]
BY RequestTypes, SetRequest DEF Done

\* The requests that are not idle are one client's.
LEMMA OthersIdle ==
    ASSUME OneRequest, NEW x \in Clients, req[x].op # "idle"
    PROVE  \A y \in Clients \ {x} : req[y].op = "idle"
BY DEF OneRequest

\* The requests after a step that starts and ends within the handler.
LEMMA AllIdleAfter ==
    ASSUME \A y \in Clients : req[y].op = "idle", UNCHANGED req
    PROVE  OneRequest' /\ \A y \in Clients : Timely(y)'
BY DEF OneRequest, Timely

\* A verdict whose children are left alone, but for those that are overtaken; and none.
LEMMA VerdictKept ==
    ASSUME VerdictAgrees, UNCHANGED <<remote, world>>,
           OneWorker /\ remote \in Verdicts => \A S : Remain(S) => Remain(S)'
    PROVE  VerdictAgrees'
<1>1. (Simple' <=> Simple) /\ (OneWorker' <=> OneWorker)
  BY DEF Simple, OneWorker
<1>2. remote = "SUCCEEDED" => remote \in Verdicts
  BY DEF Verdicts
<1>3. Simple => OneWorker
  BY DEF Simple
<1> QED
  BY <1>1, <1>2, <1>3 DEF VerdictAgrees, FinishedMeansEnded, SucceededIsTrue

LEMMA VerdictNone ==
    ASSUME remote' \notin Verdicts
    PROVE  VerdictAgrees'
BY DEF VerdictAgrees, FinishedMeansEnded, SucceededIsTrue, Verdicts

\* Steps on children, none of which vanishes, and a recovery pass on others.
LEMMA ChildrenMove ==
    ASSUME ChildrenAgree, NEW I \in SUBSET Children, remote' = remote,
           \A i \in Ids \ I : child'[i].status = child[i].status,
           \A i \in I : child'[i].status \notin {"absent", "superseded"},
           \A y \in Clients : held'[y] \subseteq held[y] \cup I,
           rec'.cmd \in Ids => rec'.cmd \in Children, rec'.todo \subseteq Children
    PROVE  ChildrenAgree' /\ Children' = Children
<1>1. Children' = Children
  BY DEF Children, Exists
<1> QED
  BY <1>1 DEF ChildrenAgree

\* The same of a step that is not one of recovery.
LEMMA ChildrenMoved ==
    ASSUME ChildrenAgree, NEW I \in SUBSET Children, UNCHANGED <<remote, rec>>,
           \A i \in Ids \ I : child'[i].status = child[i].status,
           \A i \in I : child'[i].status \notin {"absent", "superseded"},
           \A y \in Clients : held'[y] \subseteq held[y] \cup I
    PROVE  ChildrenAgree' /\ Children' = Children
<1>1. (rec'.cmd \in Ids => rec'.cmd \in Children) /\ rec'.todo \subseteq Children
  BY DEF ChildrenAgree
<1> QED
  BY <1>1, ChildrenMove

\* A step that leaves the children alone.
LEMMA ParentStep ==
    ASSUME ChildrenAgree, UNCHANGED <<child, held, rec, overtaken>>,
           remote' \in {"absent", "PENDING_APPROVAL"} => Children = {}
    PROVE  ChildrenAgree' /\ Children' = Children /\ \A S : Remain(S)' <=> Remain(S)
<1>1. Children' = Children /\ \A S : Remain(S)' <=> Remain(S)
  BY DEF Children, Exists, Remain
<1> QED
  BY <1>1 DEF ChildrenAgree

\* With one worker, a request finds a child that has not ended, after a verdict, only
\* where recovery has overtaken it.
LEMMA Overtaken ==
    ASSUME OneWorker, VerdictAgrees, remote \in Verdicts,
           NEW i \in Children, ~Ended(child[i])
    PROVE  i \in overtaken
BY DEF VerdictAgrees, FinishedMeansEnded, Remain, Ended

\* A request's step on children that, after a verdict, are overtaken.
LEMMA ChildStep ==
    ASSUME ChildrenAgree, VerdictAgrees, NEW I \in SUBSET Children,
           remote \in Verdicts => I \subseteq overtaken,
           \A i \in Ids \ I : child'[i].status = child[i].status,
           \A i \in I : child'[i].status \notin {"absent", "superseded"},
           \A y \in Clients : held'[y] \subseteq held[y] \cup I,
           UNCHANGED <<remote, rec, overtaken, world>>
    PROVE  ChildrenAgree' /\ VerdictAgrees' /\ Children' = Children
<1>1. rec'.cmd \in Ids => rec'.cmd \in Children
  BY DEF ChildrenAgree
<1>2. rec'.todo \subseteq Children
  BY DEF ChildrenAgree
<1>3. ChildrenAgree' /\ Children' = Children
  BY <1>1, <1>2, ChildrenMove
<1>4. Children \subseteq Ids
  BY DEF Children
<1>5. remote \in Verdicts => \A S : Remain(S) => Remain(S)'
  BY <1>3, <1>4 DEF Remain
<1> QED
  BY <1>3, <1>5, VerdictKept

LEMMA OperatorInv ==
    ASSUME OneWorker, TypeOK, TurnsParts, NEW x \in Operators, OperatorStep(x)
    PROVE  TurnsParts' /\ (Simple /\ IsTerminal(remote) => remote' = remote)
<1> x \in Clients
  BY DEF Clients
<1> USE DEF TurnsParts
<1>1. ASSUME NEW b \in BOOLEAN, Create(x, b)
      PROVE  TurnsParts' /\ (Simple /\ IsTerminal(remote) => remote' = remote)
  <2>1. \A y \in Clients : req[y].op = "idle"
    BY <1>1, StartAlone DEF Create
  <2>2. OneRequest' /\ \A y \in Clients : Timely(y)'
    BY <1>1, <2>1, AllIdleAfter DEF Create
  <2>3. ChildrenAgree'
    BY <1>1, ParentStep DEF Create, ChildrenAgree
  <2>4. VerdictAgrees'
    BY <1>1, VerdictNone DEF Create, Verdicts
  <2> QED
    BY <1>1, <2>2, <2>3, <2>4 DEF Create, IsTerminal
<1>2. CASE ApproveLoad(x)
  <2>1. \A y \in Clients : req[y].op = "idle"
    BY <1>2, StartAlone DEF ApproveLoad
  <2>2. req'[x].op = "approve" /\ \A y \in Clients \ {x} : req'[y].op = "idle"
    BY <1>2, <2>1, GoesOn DEF ApproveLoad
  <2>3. Timely(x)'
    BY <1>2, <2>2 DEF ApproveLoad, Timely
  <2>4. ChildrenAgree' /\ VerdictAgrees'
    BY <1>2, ParentStep, VerdictNone DEF ApproveLoad, ChildrenAgree, Verdicts
  <2> QED
    BY <1>2, <2>2, <2>3, <2>4, Alone DEF ApproveLoad
<1>3. CASE CancelLoad(x)
  <2>1. \A y \in Clients : req[y].op = "idle"
    BY <1>3, StartAlone DEF CancelLoad
  <2>2. req'[x].op = "cancel" /\ \A y \in Clients \ {x} : req'[y].op = "idle"
    BY <1>3, <2>1, GoesOn DEF CancelLoad
  <2>3. Timely(x)'
    BY <1>3, <2>2 DEF CancelLoad, Timely
  <2>4. ChildrenAgree' /\ VerdictAgrees'
    BY <1>3, ParentStep, VerdictNone DEF CancelLoad, ChildrenAgree, Verdicts
  <2> QED
    BY <1>3, <2>2, <2>3, <2>4, Alone DEF CancelLoad
<1>4. CASE ApproveCommit(x)
  <2>1. remote = "PENDING_APPROVAL" /\ Children = {}
    BY <1>4 DEF ApproveCommit, Timely, ChildrenAgree
  <2>2. req'[x].op = "dispatch" /\ \A y \in Clients \ {x} : req'[y].op = "idle"
    BY <1>4, OthersIdle, GoesOn DEF ApproveCommit
  <2>3. ChildrenAgree' /\ Children' = {}
    BY <1>4, <2>1, ParentStep DEF ApproveCommit
  <2>4. Timely(x)' /\ VerdictAgrees'
    BY <1>4, <2>2, <2>3, VerdictNone DEF ApproveCommit, Timely, Verdicts
  <2> QED
    BY <2>1, <2>2, <2>3, <2>4, Alone DEF IsTerminal
<1>5. CASE CancelCommit(x)
  <2>1. remote \in {"PENDING", "PENDING_APPROVAL", "QUEUED"}
    BY <1>5 DEF CancelCommit, Timely
  <2>2. req'[x].op = "idle" /\ \A y \in Clients \ {x} : req'[y].op = "idle"
    BY <1>5, OthersIdle, Ends DEF CancelCommit
  <2>3. ChildrenAgree' /\ VerdictAgrees'
    BY <1>5, ParentStep, VerdictNone DEF CancelCommit, Verdicts
  <2>4. Timely(x)'
    BY <2>2 DEF Timely
  <2> QED
    BY <2>1, <2>2, <2>3, <2>4, Alone DEF IsTerminal
<1>6. CASE Dispatch(x)
  <2>1. req[x].op = "dispatch" /\ remote = "QUEUED" /\ Children = {}
    BY <1>6 DEF Dispatch, Timely
  <2>2. req'[x].op = "idle" /\ \A y \in Clients \ {x} : req'[y].op = "idle"
    BY <1>6, OthersIdle, Ends DEF Dispatch
  <2>3. Timely(x)'
    BY <2>2 DEF Timely
  <2>4. ChildrenAgree' /\ (Foreign = Miners => Children' = {})
    BY <1>6, <2>1, FirstDispatch
  <2>5. VerdictAgrees'
    <3>1. CASE Foreign = Miners
      <4>1. remote' = "FAILED"
        BY <1>6, <3>1 DEF Dispatch
      <4> QED
        BY <2>4, <3>1, <4>1 DEF VerdictAgrees, FinishedMeansEnded, SucceededIsTrue, Remain
    <3>2. CASE Foreign # Miners
      BY <1>6, <2>1, <3>2, VerdictNone DEF Dispatch, Verdicts
    <3> QED
      BY <3>1, <3>2
  <2> QED
    BY <2>1, <2>2, <2>3, <2>4, <2>5, Alone DEF IsTerminal
<1>7. ASSUME NEW i \in Ids, CancelChild(x, i)
      PROVE  TurnsParts' /\ (Simple /\ IsTerminal(remote) => remote' = remote)
  <2>1. \A y \in Clients : req[y].op = "idle"
    BY <1>7, StartAlone DEF CancelChild
  <2>2. OneRequest' /\ \A y \in Clients : Timely(y)'
    BY <1>7, <2>1, AllIdleAfter DEF CancelChild
  <2>3. /\ child'[i].status = "cancelled" /\ \A j \in Ids \ {i} : child'[j] = child[j]
        /\ UNCHANGED <<remote, rec, held, overtaken, world>>
    BY <1>7 DEF CancelChild, TypeOK, Rows
  <2>4. {i} \in SUBSET Children /\ (remote \in Verdicts => {i} \subseteq overtaken)
    <3>1. i \in Children /\ ~Ended(child[i])
      BY <1>7 DEF CancelChild, Children, Exists, Ended, TERMINAL_STATES
    <3> QED
      BY <3>1, Overtaken
  <2>5. ChildrenAgree' /\ VerdictAgrees'
    BY <2>3, <2>4, ChildStep
  <2> QED
    BY <2>2, <2>3, <2>5
<1> QED
  BY <1>1, <1>2, <1>3, <1>4, <1>5, <1>6, <1>7 DEF OperatorStep

\* What a verdict was derived from is still so when it is committed.
LEMMA WriteInv ==
    ASSUME OneWorker, TypeOK, TurnsParts, NEW x \in Clients, Write(x)
    PROVE  TurnsParts' /\ (Simple /\ IsTerminal(remote) => remote' = remote)
<1> DEFINE r == req[x]
<1> USE DEF TurnsParts
<1>1. /\ r.was = remote
      /\ r.will # r.was => r.will \in Verdicts /\ Remain(TERMINAL_STATES)
      /\ Simple => /\ ~IsTerminal(remote) /\ r.will # r.was /\ r.will # "PARTIAL"
                   /\ r.will = "SUCCEEDED" => Remain({"completed"})
  BY DEF Write, Timely
<1>2. remote' = r.will /\ UNCHANGED <<child, rec, held, overtaken, world>>
  BY <1>1 DEF Write, Net
<1>3. req'[x].op = "idle" /\ \A y \in Clients \ {x} : req'[y].op = "idle"
  BY OthersIdle, Ends DEF Write
<1>4. remote' \in {"absent", "PENDING_APPROVAL"} => Children = {}
  BY <1>1, <1>2 DEF ChildrenAgree, Verdicts
<1>5. ChildrenAgree' /\ \A S : Remain(S)' <=> Remain(S)
  BY <1>2, <1>4, ParentStep
<1>6. VerdictAgrees'
  <2>1. Simple' <=> Simple
    BY <1>2 DEF Simple, OneWorker
  <2>2. CASE r.will = r.was
    BY <1>1, <1>2, <1>5, <2>2, VerdictKept
  <2>3. CASE r.will # r.was
    BY <1>1, <1>2, <1>5, <2>1, <2>3 DEF VerdictAgrees, FinishedMeansEnded, SucceededIsTrue
  <2> QED
    BY <2>2, <2>3
<1>7. Timely(x)'
  BY <1>3 DEF Timely
<1> QED
  BY <1>1, <1>3, <1>5, <1>6, <1>7, Alone

LEMMA DeviceInv ==
    ASSUME OneWorker, TypeOK, TurnsParts, NEW d \in Devices, DeviceStep(d)
    PROVE  TurnsParts' /\ (Simple /\ IsTerminal(remote) => remote' = remote)
<1> d \in Clients
  BY DEF Clients
<1> USE DEF TurnsParts
<1>1. ASSUME NEW i \in Ids, PollChild(d, i)
      PROVE  TurnsParts' /\ (Simple /\ IsTerminal(remote) => remote' = remote)
  <2>1. \A y \in Clients : req[y].op = "idle"
    BY <1>1, StartAlone DEF PollChild
  <2>2. OneRequest' /\ \A y \in Clients : Timely(y)'
    BY <1>1, <2>1, AllIdleAfter DEF PollChild
  <2>3. /\ i \in Children /\ ~Ended(child[i])
        /\ child'[i].status = "dispatched" /\ \A j \in Ids \ {i} : child'[j] = child[j]
        /\ \A y \in Clients : held'[y] \subseteq held[y] \cup {i}
        /\ UNCHANGED <<remote, rec, overtaken, world>>
    BY <1>1, Polled DEF PollChild
  <2>4. {i} \in SUBSET Children /\ (remote \in Verdicts => {i} \subseteq overtaken)
    BY <2>3, Overtaken
  <2>5. ChildrenAgree' /\ VerdictAgrees'
    BY <2>3, <2>4, ChildStep
  <2> QED
    BY <2>2, <2>3, <2>5
<1>2. CASE PollRemote(d)
  <2>1. \A y \in Clients : req[y].op = "idle"
    BY <1>2, StartAlone DEF PollRemote
  <2>2. OneRequest' /\ \A y \in Clients : Timely(y)'
    BY <1>2, <2>1, AllIdleAfter DEF PollRemote
  <2>3. \A y \in Clients : held'[y] \subseteq held[y]
    BY <1>2, PolledItself
  <2>4. Children' = Children
    BY <1>2 DEF PollRemote, Children, Exists
  <2>5. ChildrenAgree' /\ VerdictAgrees'
    BY <1>2, <2>3, <2>4, VerdictNone DEF PollRemote, ChildrenAgree, Verdicts
  <2> QED
    BY <1>2, <2>2, <2>5 DEF PollRemote, IsTerminal
<1>3. ASSUME NEW i \in Ids, NEW s \in AckStatuses, AckLoad(d, i, s)
      PROVE  TurnsParts' /\ (Simple /\ IsTerminal(remote) => remote' = remote)
  <2>1. UNCHANGED <<remote, child, rec, held, overtaken, world>>
    BY <1>3 DEF AckLoad
  <2>2. /\ req'[d].op = "ack" /\ req'[d].cmd = i
        /\ \A y \in Clients \ {d} : req'[y].op = "idle"
    <3>1. \A y \in Clients : req[y].op = "idle"
      BY <1>3, StartAlone DEF AckLoad
    <3> QED
      BY <1>3, <3>1, AckLoads
  <2>3. ChildrenAgree' /\ Children' = Children /\ \A S : Remain(S)' <=> Remain(S)
    BY <2>1, ParentStep DEF ChildrenAgree
  <2>4. VerdictAgrees'
    BY <2>1, <2>3, VerdictKept
  <2>5. i \in Children /\ (remote \in Verdicts => i \in overtaken)
    <3>1. i \in Children /\ ~Ended(child[i])
      BY <1>3 DEF AckLoad, ChildrenAgree
    <3> QED
      BY <3>1, Overtaken
  <2>6. Timely(d)'
    BY <2>1, <2>2, <2>3, <2>5 DEF Timely
  <2> QED
    BY <2>1, <2>2, <2>3, <2>4, <2>6, Alone
<1>4. CASE AckCommit(d)
  <2> DEFINE i == req[d].cmd
  <2>1. /\ i \in Children /\ (remote \in Verdicts => i \in overtaken)
        /\ UNCHANGED <<remote, rec, held, overtaken, world>>
    BY <1>4 DEF AckCommit, Timely
  <2>2. /\ child'[i].status \notin {"absent", "superseded"}
        /\ \A j \in Ids \ {i} : child'[j] = child[j]
    BY <1>4, <2>1, AckMoves DEF AckCommit
  <2> HIDE DEF i
  <2>3. {i} \in SUBSET Children
    BY <2>1
  <2>4. ChildrenAgree' /\ VerdictAgrees'
    BY <2>1, <2>2, <2>3, ChildStep
  <2>5. req'[d].op = "sync" /\ \A y \in Clients \ {d} : req'[y].op = "idle"
    BY <1>4, OthersIdle, GoesOn DEF AckCommit
  <2>6. Timely(d)'
    BY <2>5 DEF Timely
  <2> QED
    BY <2>1, <2>4, <2>5, <2>6, Alone
<1>5. CASE SyncLoad(d)
  <2>1. \A y \in Clients \ {d} : req'[y].op = "idle"
    BY <1>5, SyncRequest, OthersIdle DEF SyncLoad
  <2>2. UNCHANGED <<remote, child, rec, held, overtaken, world>>
    BY <1>5 DEF SyncLoad
  <2>3. ChildrenAgree' /\ \A S : Remain(S)' <=> Remain(S)
    BY <2>2, ParentStep DEF ChildrenAgree
  <2>4. VerdictAgrees'
    BY <2>2, <2>3, VerdictKept
  <2>5. Timely(d)'
    <3>1. CASE req'[d].op = "idle"
      BY <3>1 DEF Timely
    <3>2. CASE /\ All(TERMINAL_STATES) /\ ~IsTerminal(remote)
               /\ req'[d].op = "write" /\ req'[d].was = remote /\ req'[d].will = SyncVerdict
      <4>1. SyncVerdict = "SUCCEEDED" => Remain({"completed"})
        BY <3>2 DEF SyncVerdict, Some, All, Remain, TERMINAL_STATES, ChildrenAgree, Children
      <4>2. Remain(TERMINAL_STATES)
        BY <3>2 DEF All, Remain
      <4>3. SyncVerdict \in {"SUCCEEDED", "FAILED"} /\ SyncVerdict # remote
        BY <3>2, VerdictParents DEF IsTerminal
      <4> QED
        BY <2>2, <2>3, <3>2, <4>1, <4>2, <4>3 DEF Timely, Verdicts
    <3> QED
      BY <1>5, <3>1, <3>2, SyncRequest
  <2> QED
    BY <2>1, <2>2, <2>3, <2>4, <2>5, Alone
<1>6. CASE Write(d)
  BY <1>6, WriteInv
<1> QED
  BY <1>1, <1>2, <1>3, <1>4, <1>5, <1>6 DEF DeviceStep

LEMMA CollectorInv ==
    ASSUME OneWorker, TypeOK, TurnsParts, NEW k \in Collectors, CollectorStep(k)
    PROVE  TurnsParts' /\ (Simple /\ IsTerminal(remote) => remote' = remote)
<1> k \in Clients
  BY DEF Clients
<1> USE DEF TurnsParts
<1>1. CASE Fetch(k)
  <2>1. \A y \in Clients : req[y].op = "idle"
    BY <1>1, StartAlone DEF Fetch
  <2>2. OneRequest' /\ \A y \in Clients : Timely(y)'
    BY <1>1, <2>1, AllIdleAfter DEF Fetch
  <2>3. PICK due \in SUBSET Children :
            /\ due # {} /\ \A i \in due : ~Ended(child[i])
            /\ \A i \in Ids \ due : child'[i] = child[i]
            /\ \A i \in due : child'[i].status \notin {"absent", "superseded"}
            /\ \A y \in Clients : held'[y] \subseteq held[y] \cup due
    BY <1>1, Fetched
  <2>4. UNCHANGED <<remote, rec, overtaken, world>>
    BY <1>1 DEF Fetch
  <2>5. remote \in Verdicts => due \subseteq overtaken
    BY <2>3, Overtaken
  <2>6. ChildrenAgree' /\ VerdictAgrees'
    BY <2>3, <2>4, <2>5, ChildStep
  <2> QED
    BY <2>2, <2>4, <2>6
<1>2. ASSUME NEW i \in Ids, NEW s \in {"completed", "failed"}, Report(k, i, s)
      PROVE  TurnsParts' /\ (Simple /\ IsTerminal(remote) => remote' = remote)
  <2>1. ~Simple /\ ~Simple'
    BY <1>2 DEF Report, CanStart, Simple, OneWorker
  <2>2. req'[k].op = "aggregate" /\ \A y \in Clients \ {k} : req'[y].op = "idle"
    BY <1>2, StartAlone, GoesOn DEF Report
  <2>3. Timely(k)'
    BY <2>1, <2>2 DEF Timely
  <2>4. {i} \in SUBSET Children
    BY <1>2 DEF Report, ChildrenAgree
  <2>5. /\ child'[i].status = s /\ \A j \in Ids \ {i} : child'[j] = child[j]
        /\ UNCHANGED <<remote, rec, held, overtaken, world>>
    BY <1>2 DEF Report, TypeOK, Rows
  <2>6. ChildrenAgree' /\ Children' = Children
    <3>1. rec'.cmd \in Ids => rec'.cmd \in Children
      BY <2>5 DEF ChildrenAgree
    <3>2. rec'.todo \subseteq Children
      BY <2>5 DEF ChildrenAgree
    <3> QED
      BY <2>4, <2>5, <3>1, <3>2, ChildrenMove
  <2>7. Remain(TERMINAL_STATES) => Remain(TERMINAL_STATES)'
    BY <2>5, <2>6 DEF Remain, TERMINAL_STATES, Children
  <2>8. VerdictAgrees'
    BY <2>1, <2>5, <2>7 DEF VerdictAgrees, FinishedMeansEnded, SucceededIsTrue
  <2> QED
    BY <2>1, <2>2, <2>3, <2>6, <2>8, Alone
<1>3. CASE AggregateLoad(k)
  <2>1. UNCHANGED <<remote, child, rec, held, overtaken, world>>
    BY <1>3 DEF AggregateLoad
  <2>2. ~Simple /\ ~Simple'
    BY <1>3, <2>1 DEF AggregateLoad, Timely, Simple, OneWorker
  <2>3. ChildrenAgree' /\ \A S : Remain(S)' <=> Remain(S)
    BY <2>1, ParentStep DEF ChildrenAgree
  <2>4. VerdictAgrees'
    BY <2>1, <2>3, VerdictKept
  <2>5. /\ \A y \in Clients \ {k} : req'[y] = req[y]
        /\ req'[k].op = "write" /\ req'[k].was = remote
        /\ req'[k].will = IF AllCounted THEN AggregateVerdict ELSE remote
    BY <1>3, AggregateRequest
  <2>6. AllCounted => Remain(TERMINAL_STATES)
    BY DEF AllCounted, All, Remain, TERMINAL_STATES
  <2>7. Timely(k)'
    BY <2>1, <2>2, <2>3, <2>5, <2>6, VerdictParents DEF Timely, Verdicts
  <2>8. \A y \in Clients \ {k} : req'[y].op = "idle"
    BY <1>3, <2>5, OthersIdle DEF AggregateLoad
  <2> QED
    BY <2>1, <2>3, <2>4, <2>7, <2>8, Alone
<1>4. CASE Write(k)
  BY <1>4, WriteInv
<1> QED
  BY <1>1, <1>2, <1>3, <1>4 DEF CollectorStep

\* Recovery's commit, whenever it comes: a child that had ended and does so no longer, or
\* in another way, is overtaken, and no request relies on it.
LEMMA RecoveryInv ==
    ASSUME OneWorker, TypeOK, TurnsParts, RecoverCommit
    PROVE  TurnsParts'
<1> USE DEF TurnsParts
<1>1. PICK i \in Ids, r \in Rows :
          /\ i = rec.cmd
          /\ r.status \in {child[i].status, "pending", "failed"}
          /\ child' = [child EXCEPT ![i] = r]
          /\ overtaken' = IF Ended(child[i]) /\ r.status # child[i].status
                          THEN overtaken \cup {i} ELSE overtaken
  BY RecoverTypes
<1>2. child'[i] = r /\ \A j \in Ids \ {i} : child'[j] = child[j]
  BY <1>1 DEF TypeOK
<1>3. UNCHANGED <<remote, req, held, world>>
  BY DEF RecoverCommit
<1>4. {i} \in SUBSET Children
  BY <1>1 DEF ChildrenAgree
<1>5. r.status \notin {"absent", "superseded"}
  BY <1>1, <1>4 DEF ChildrenAgree, Children, Exists
<1>6. ChildrenAgree' /\ Children' = Children
  <2>1. rec' = [NoPass EXCEPT !.todo = rec.todo]
    BY DEF RecoverCommit
  <2>2. rec'.todo = rec.todo /\ rec'.cmd = NoChild
    BY <2>1 DEF NoPass
  <2>3. NoChild \notin Ids \/ NoChild \in Children
    BY <2>2, NoChildIsNone
  <2>4. rec'.todo \subseteq Children
    BY <2>2 DEF ChildrenAgree
  <2> QED
    BY <1>2, <1>3, <1>4, <1>5, <2>2, <2>3, <2>4, ChildrenMove
<1>7. ASSUME NEW S \in SUBSET TERMINAL_STATES, Remain(S) PROVE Remain(S)'
  <2> SUFFICES ASSUME NEW j \in Children, j \notin overtaken'
               PROVE  child'[j].status \in S
    BY <1>6 DEF Remain
  <2>1. child[j].status \in S
    BY <1>1, <1>7 DEF Remain
  <2>2. CASE j = i
    BY <1>1, <1>2, <2>1, <2>2 DEF Ended
  <2>3. CASE j # i
    BY <1>2, <2>1, <2>3 DEF Children
  <2> QED
    BY <2>2, <2>3
<1>8. /\ Remain(TERMINAL_STATES) => Remain(TERMINAL_STATES)'
      /\ Remain({"completed"}) => Remain({"completed"})'
  BY <1>7 DEF TERMINAL_STATES
<1>9. (Simple' <=> Simple) /\ (OneWorker' <=> OneWorker)
  BY <1>3 DEF Simple, OneWorker
<1>10. VerdictAgrees'
  BY <1>3, <1>8, <1>9 DEF VerdictAgrees, FinishedMeansEnded, SucceededIsTrue
<1>11. overtaken \subseteq overtaken'
  BY <1>1
<1>12. OneRequest' /\ \A x \in Clients : Timely(x)'
  BY <1>3, <1>4, <1>6, <1>8, <1>9, <1>11 DEF OneRequest, Timely
<1> QED
  BY <1>6, <1>10, <1>12

\* A step that leaves all alone, but for the recovery pass and what is no status.
LEMMA NothingMoves ==
    ASSUME TurnsParts, UNCHANGED <<remote, req, held, overtaken, world>>,
           \A i \in Ids : child'[i].status = child[i].status,
           rec'.cmd \in Ids => rec'.cmd \in Children, rec'.todo \subseteq Children
    PROVE  TurnsParts'
<1> USE DEF TurnsParts
<1>1. {} \in SUBSET Children
  OBVIOUS
<1>2. ChildrenAgree' /\ Children' = Children
  BY <1>1, ChildrenMove
<1>3. Children \subseteq Ids
  BY DEF Children
<1>4. \A S : Remain(S)' <=> Remain(S)
  BY <1>2, <1>3 DEF Remain
<1>5. (Simple' <=> Simple) /\ (OneWorker' <=> OneWorker)
  BY DEF Simple, OneWorker
<1>6. OneRequest' /\ \A x \in Clients : Timely(x)'
  BY <1>2, <1>4, <1>5 DEF OneRequest, Timely
<1> QED
  BY <1>2, <1>4, <1>6, VerdictKept

LEMMA TurnsStep ==
    ASSUME TypeOK, TurnsInv, [Next]_vars
    PROVE  TurnsInv' /\ (Simple /\ IsTerminal(remote) => remote' = remote)
<1>1. world' = world
  BY WorldStays
<1> SUFFICES ASSUME OneWorker
             PROVE  TurnsParts' /\ (Simple /\ IsTerminal(remote) => remote' = remote)
  BY <1>1 DEF TurnsInv, Simple, OneWorker
<1>2. TurnsParts
  BY DEF TurnsInv
<1>3. ASSUME NEW x \in Operators, OperatorStep(x)
      PROVE  TurnsParts' /\ (Simple /\ IsTerminal(remote) => remote' = remote)
  BY <1>2, <1>3, OperatorInv
<1>4. ASSUME NEW d \in Devices, DeviceStep(d)
      PROVE  TurnsParts' /\ (Simple /\ IsTerminal(remote) => remote' = remote)
  BY <1>2, <1>4, DeviceInv
<1>5. ASSUME NEW k \in Collectors, CollectorStep(k)
      PROVE  TurnsParts' /\ (Simple /\ IsTerminal(remote) => remote' = remote)
  BY <1>2, <1>5, CollectorInv
<1>6. CASE RecoverCommit
  BY <1>2, <1>6, RecoveryInv DEF RecoverCommit
<1>7. CASE \/ RecoverSelect \/ RecoverNext \/ RecoveryDies \/ Expire \/ UNCHANGED vars
           \/ \E i \in Ids : LeaseLapse(i)
  <2>1. /\ UNCHANGED <<remote, req, held, overtaken>>
        /\ \A i \in Ids : child'[i].status = child[i].status
        /\ rec'.cmd \in Ids => rec'.cmd \in Children
        /\ rec'.todo \subseteq Children
    BY <1>2, <1>7, PassStays DEF TurnsParts
  <2> QED
    BY <1>1, <1>2, <2>1, NothingMoves
<1>8. ASSUME NEW x \in Clients, RequestDies(x)
      PROVE  TurnsParts' /\ (Simple /\ IsTerminal(remote) => remote' = remote)
  <2>1. UNCHANGED <<remote, child, rec, held, overtaken, world>>
    BY <1>8 DEF RequestDies
  <2>2. req'[x].op = "idle" /\ \A y \in Clients \ {x} : req'[y].op = "idle"
    BY <1>2, <1>8, OthersIdle, Ends DEF RequestDies, TurnsParts
  <2>3. Timely(x)'
    BY <2>2 DEF Timely
  <2>4. ChildrenAgree' /\ \A S : Remain(S)' <=> Remain(S)
    BY <1>2, <2>1, ParentStep DEF TurnsParts, ChildrenAgree
  <2>5. VerdictAgrees'
    BY <1>2, <2>1, <2>4, VerdictKept DEF TurnsParts
  <2> QED
    BY <2>1, <2>2, <2>3, <2>4, <2>5, Alone DEF TurnsParts
<1> QED
  BY <1>3, <1>4, <1>5, <1>6, <1>7, <1>8 DEF Next, RecoverStep

LEMMA TurnsInitially == Init => TurnsInv
<1> SUFFICES ASSUME Init PROVE TurnsParts
  BY DEF TurnsInv
<1>1. Children = {}
  BY RowConstants DEF Init, Children, Exists
<1>2. \A x \in Clients : req[x].op = "idle"
  BY RequestTypes DEF Init
<1>3. ChildrenAgree
  BY <1>1, InitiallyAgree
<1>4. VerdictAgrees
  BY <1>1 DEF Init, VerdictAgrees, FinishedMeansEnded, SucceededIsTrue, Remain
<1> QED
  BY <1>2, <1>3, <1>4 DEF TurnsParts, OneRequest, Timely

(***************************************************************************)
(* With one worker, no procedure gives the command a verdict while a child  *)
(* can still be executed, and none that had ended comes back: but for those *)
(* that a recovery pass, which had loaded them before, has put back.        *)
(***************************************************************************)
THEOREM VerdictWhenEnded == Spec => []FinishedMeansEnded
<1>1. TurnsInv => FinishedMeansEnded
  BY DEF TurnsInv, TurnsParts, VerdictAgrees, FinishedMeansEnded
<1> QED
  BY <1>1, TurnsInitially, TurnsStep, RemoteTyping, PTL DEF Spec

(***************************************************************************)
(* With one worker and no collectors, a command that succeeded has been     *)
(* completed on each of its miners, but for those same children.            *)
(***************************************************************************)
THEOREM VerdictIsTrue == Spec => []SucceededIsTrue
<1>1. TurnsInv => SucceededIsTrue
  BY DEF TurnsInv, TurnsParts, VerdictAgrees, SucceededIsTrue, Simple
<1> QED
  BY <1>1, TurnsInitially, TurnsStep, RemoteTyping, PTL DEF Spec

(***************************************************************************)
(* Under the same circumstances a command that has ended stays as it ended. *)
(***************************************************************************)
THEOREM VerdictIsFinal == Spec => EndIsFinal
<1>1. TypeOK /\ TurnsInv /\ [Next]_vars => [Simple /\ IsTerminal(remote) => remote' = remote]_vars
  BY TurnsStep
<1> QED
  BY <1>1, TurnsInitially, TurnsStep, RemoteTyping, PTL DEF Spec, EndIsFinal

-----------------------------------------------------------------------------
(* One operator, with any number of workers.                                *)

\* The steps of a request that only an operator's request has.
Deciding == {"approve", "dispatch", "cancel"}

\* A step that no request under way, of an operator or of another, has to fear.
Quiet == /\ remote = "PENDING_APPROVAL" => remote' = remote
         /\ Children = {} => Children' = {}
         /\ Children = {} /\ remote \in {"QUEUED", "RUNNING"} => remote' \in {"QUEUED", "RUNNING"}

LEMMA StillFits ==
    ASSUME \A x \in Clients : Fits(x), world' = world, Children \subseteq Children',
           \A y \in Clients : \/ Fits(y)'
                              \/ req'[y] = req[y] /\ (req[y].op \notin Deciding \/ Quiet)
    PROVE  \A y \in Clients : Fits(y)'
<1> SUFFICES ASSUME NEW y \in Clients, req'[y] = req[y], req[y].op \notin Deciding \/ Quiet
             PROVE  Fits(y)'
  OBVIOUS
<1> QED
  BY DEF Fits, Quiet, Deciding

\* No two operators decide at a time, as there is one.
LEMMA SoleDecider ==
    ASSUME OneOperator, \A x \in Clients : Fits(x),
           NEW x \in Clients, req[x].op \in Deciding, NEW y \in Clients, req[y].op \in Deciding
    PROVE  x = y
<1>1. req[x].op # "idle" /\ req[y].op # "idle"
  BY DEF Deciding
<1>2. x \in world.clients \cap Operators /\ y \in world.clients \cap Operators
  BY <1>1 DEF Fits, Deciding
<1> QED
  BY <1>2 DEF OneOperator

\* A request that is idle afterwards fits.
LEMMA IdleFits ==
    ASSUME NEW x \in Clients, req'[x].op = "idle"
    PROVE  Fits(x)'
BY DEF Fits

\* The requests after a client's request gets another thing to do.
LEMMA Proceeds ==
    ASSUME TypeOK, NEW x \in Clients, NEW op \in {"sync", "aggregate", "approve", "dispatch", "cancel"},
           Proceed(x, op)
    PROVE  req'[x].op = op /\ \A y \in Clients \ {x} : req'[y] = req[y]
<1>1. [Idle EXCEPT !.op = op] \in Request /\ [Idle EXCEPT !.op = op].op = op
  BY RequestTypes
<1> QED
  BY <1>1, SetRequest DEF Proceed

\* A step of one client's request that leaves the parent, and the number of children, alone.
LEMMA ChildrenOnly ==
    ASSUME OneOperatorParts, ChildrenAgree', Children' = Children, UNCHANGED <<remote, world>>,
           NEW x \in Clients, Fits(x)', \A y \in Clients \ {x} : req'[y] = req[y]
    PROVE  OneOperatorParts'
<1>1. Quiet
  BY DEF Quiet
<1> QED
  BY <1>1, StillFits DEF OneOperatorParts

LEMMA SoleOperatorStep ==
    ASSUME OneOperator, TypeOK, OneOperatorParts, NEW x \in Operators, OperatorStep(x), world' = world
    PROVE  OneOperatorParts'
<1> x \in Clients
  BY DEF Clients
<1> USE DEF OneOperatorParts
<1>1. ASSUME NEW b \in BOOLEAN, Create(x, b) PROVE OneOperatorParts'
  <2>1. /\ Children = {} /\ remote = "absent"
        /\ remote' \in {"PENDING_APPROVAL", "QUEUED"}
        /\ UNCHANGED <<child, req, rec, held, overtaken>>
    BY <1>1 DEF Create, ChildrenAgree
  <2>2. ChildrenAgree' /\ Children' = Children
    BY <2>1, ParentStep
  <2>3. Quiet
    BY <2>1, <2>2 DEF Quiet
  <2> QED
    BY <2>1, <2>2, <2>3, StillFits
<1>2. ASSUME NEW op \in {"approve", "cancel"}, Proceed(x, op), CanStart(x),
             op = "approve" => remote = "PENDING_APPROVAL",
             UNCHANGED <<remote, child, rec, held, overtaken>>
      PROVE  OneOperatorParts'
  <2>1. req'[x].op = op /\ \A y \in Clients \ {x} : req'[y] = req[y]
    BY <1>2, Proceeds
  <2>2. Fits(x)'
    BY <1>2, <2>1 DEF Fits, CanStart
  <2>3. ChildrenAgree' /\ Children' = Children
    BY <1>2, ParentStep DEF ChildrenAgree
  <2> QED
    BY <1>2, <2>1, <2>2, <2>3, ChildrenOnly
<1>3. CASE ApproveLoad(x) \/ CancelLoad(x)
  BY <1>2, <1>3 DEF ApproveLoad, CancelLoad
<1>4. CASE ApproveCommit(x)
  <2>1. /\ req[x].op = "approve" /\ remote = "PENDING_APPROVAL" /\ Children = {}
        /\ x \in world.clients
    BY <1>4 DEF ApproveCommit, Fits, ChildrenAgree
  <2>2. req'[x].op = "dispatch" /\ \A y \in Clients \ {x} : req'[y] = req[y]
    BY <1>4, Proceeds DEF ApproveCommit
  <2>3. ChildrenAgree' /\ Children' = Children /\ remote' = "QUEUED"
    BY <1>4, ParentStep DEF ApproveCommit
  <2>4. Fits(x)'
    BY <2>1, <2>2, <2>3 DEF Fits
  <2>5. \A y \in Clients \ {x} : req[y].op \notin Deciding
    BY <2>1, SoleDecider DEF Deciding
  <2> QED
    BY <2>2, <2>3, <2>4, <2>5, StillFits
<1>5. CASE Dispatch(x)
  <2>1. req[x].op = "dispatch" /\ remote \in {"QUEUED", "RUNNING"} /\ Children = {}
    BY <1>5 DEF Dispatch, Fits
  <2>2. req'[x].op = "idle" /\ \A y \in Clients \ {x} : req'[y] = req[y]
    BY <1>5, Ends DEF Dispatch
  <2>3. ChildrenAgree'
    BY <1>5, <2>1, FirstDispatch
  <2>4. \A y \in Clients \ {x} : req[y].op \notin Deciding
    BY <2>1, SoleDecider DEF Deciding
  <2> QED
    BY <2>1, <2>2, <2>3, <2>4, IdleFits, StillFits
<1>6. CASE CancelCommit(x)
  <2>1. req[x].op = "cancel" /\ remote' = "CANCELLED"
    BY <1>6 DEF CancelCommit
  <2>2. req'[x].op = "idle" /\ \A y \in Clients \ {x} : req'[y] = req[y]
    BY <1>6, Ends DEF CancelCommit
  <2>3. ChildrenAgree' /\ Children' = Children
    BY <1>6, <2>1, ParentStep DEF CancelCommit
  <2>4. \A y \in Clients \ {x} : req[y].op \notin Deciding
    BY <2>1, SoleDecider DEF Deciding
  <2> QED
    BY <2>2, <2>3, <2>4, IdleFits, StillFits
<1>7. ASSUME NEW i \in Ids, CancelChild(x, i) PROVE OneOperatorParts'
  <2>1. /\ child'[i].status = "cancelled" /\ \A j \in Ids \ {i} : child'[j] = child[j]
        /\ UNCHANGED <<remote, req, rec, held>>
    BY <1>7 DEF CancelChild, TypeOK, Rows
  <2>2. {i} \in SUBSET Children
    BY <1>7 DEF CancelChild, Children, Exists
  <2>3. ChildrenAgree' /\ Children' = Children
    <3>1. \A j \in Ids \ {i} : child'[j].status = child[j].status
      BY <2>1
    <3>2. \A j \in {i} : child'[j].status \notin {"absent", "superseded"}
      BY <2>1
    <3>3. \A y \in Clients : held'[y] \subseteq held[y] \cup {i}
      BY <2>1
    <3> QED
      BY <2>1, <2>2, <3>1, <3>2, <3>3, ChildrenMoved
  <2>4. Quiet
    BY <2>1, <2>3 DEF Quiet
  <2> QED
    BY <2>1, <2>3, <2>4, StillFits
<1> QED
  BY <1>1, <1>3, <1>4, <1>5, <1>6, <1>7 DEF OperatorStep

\* The commit of a verdict: a command that gets one has children.
LEMMA SoleOperatorWrite ==
    ASSUME TypeOK, OneOperatorParts, NEW x \in Clients, Write(x), world' = world
    PROVE  OneOperatorParts'
<1> USE DEF OneOperatorParts
<1> DEFINE r == req[x]
<1>1. Children # {} /\ (r.will # r.was => r.will \in Verdicts)
  BY DEF Write, Fits
<1>2. /\ UNCHANGED <<child, rec, held, overtaken>>
      /\ remote' = IF r.will = r.was THEN remote ELSE r.will
  BY DEF Write, Net
<1>3. remote \notin {"absent", "PENDING_APPROVAL"} /\ remote' \notin {"absent", "PENDING_APPROVAL"}
  BY <1>1, <1>2 DEF ChildrenAgree, Verdicts
<1>4. ChildrenAgree' /\ Children' = Children
  BY <1>2, <1>3, ParentStep
<1>5. Quiet
  BY <1>1, <1>3 DEF Quiet
<1>6. req'[x].op = "idle" /\ \A y \in Clients \ {x} : req'[y] = req[y]
  BY Ends DEF Write
<1> QED
  BY <1>4, <1>5, <1>6, IdleFits, StillFits

LEMMA SoleOperatorDevice ==
    ASSUME TypeOK, OneOperatorParts, NEW d \in Devices, DeviceStep(d), world' = world
    PROVE  OneOperatorParts'
<1> d \in Clients
  BY DEF Clients
<1> USE DEF OneOperatorParts
<1>1. ASSUME NEW i \in Ids, PollChild(d, i) PROVE OneOperatorParts'
  <2>1. /\ i \in Children /\ child'[i].status = "dispatched"
        /\ \A j \in Ids \ {i} : child'[j] = child[j]
        /\ \A y \in Clients : held'[y] \subseteq held[y] \cup {i}
        /\ UNCHANGED <<remote, req, rec>>
    BY <1>1, Polled DEF PollChild
  <2>2. {i} \in SUBSET Children
    BY <2>1
  <2>3. ChildrenAgree' /\ Children' = Children
    <3>1. \A j \in Ids \ {i} : child'[j].status = child[j].status
      BY <2>1
    <3>2. \A j \in {i} : child'[j].status \notin {"absent", "superseded"}
      BY <2>1
    <3>3. \A y \in Clients : held'[y] \subseteq held[y] \cup {i}
      BY <2>1
    <3> QED
      BY <2>1, <2>2, <3>1, <3>2, <3>3, ChildrenMoved
  <2>4. Quiet
    BY <2>1, <2>3 DEF Quiet
  <2> QED
    BY <2>1, <2>3, <2>4, StillFits
<1>2. CASE PollRemote(d)
  <2>1. \A y \in Clients : held'[y] \subseteq held[y]
    BY <1>2, PolledItself
  <2>2. remote = "QUEUED" /\ remote' = "RUNNING" /\ UNCHANGED <<child, req, rec>>
    BY <1>2 DEF PollRemote
  <2>3. ChildrenAgree' /\ Children' = Children /\ Quiet
    BY <2>1, <2>2 DEF ChildrenAgree, Quiet, Children, Exists
  <2> QED
    BY <2>2, <2>3, StillFits
<1>3. ASSUME NEW i \in Ids, NEW s \in AckStatuses, AckLoad(d, i, s) PROVE OneOperatorParts'
  <2>1. /\ req'[d].op = "ack" /\ req'[d].cmd = i
        /\ \A y \in Clients \ {d} : req'[y] = req[y]
    BY <1>3, AckLoads
  <2>2. UNCHANGED <<remote, child, rec, held, overtaken>> /\ d \in world.clients /\ i \in Children
    BY <1>3 DEF AckLoad, CanStart, ChildrenAgree
  <2>3. ChildrenAgree' /\ Children' = Children
    BY <2>2, ParentStep DEF ChildrenAgree
  <2>4. Fits(d)'
    BY <2>1, <2>2, <2>3 DEF Fits
  <2> QED
    BY <2>1, <2>2, <2>3, <2>4, ChildrenOnly
<1>4. CASE AckCommit(d)
  <2> DEFINE i == req[d].cmd
  <2>1. /\ i \in Children /\ d \in world.clients /\ UNCHANGED <<remote, rec, held>>
    BY <1>4 DEF AckCommit, Fits
  <2>2. /\ child'[i].status \notin {"absent", "superseded"}
        /\ \A j \in Ids \ {i} : child'[j] = child[j]
    BY <1>4, <2>1, AckMoves DEF AckCommit
  <2> HIDE DEF i
  <2>3. {i} \in SUBSET Children
    BY <2>1
  <2>4. ChildrenAgree' /\ Children' = Children
    <3>1. \A j \in Ids \ {i} : child'[j].status = child[j].status
      BY <2>2
    <3>2. \A j \in {i} : child'[j].status \notin {"absent", "superseded"}
      BY <2>2
    <3>3. \A y \in Clients : held'[y] \subseteq held[y] \cup {i}
      BY <2>1
    <3> QED
      BY <2>1, <2>3, <3>1, <3>2, <3>3, ChildrenMoved
  <2>5. req'[d].op = "sync" /\ \A y \in Clients \ {d} : req'[y] = req[y]
    BY <1>4, Proceeds DEF AckCommit
  <2>6. Fits(d)'
    BY <2>1, <2>4, <2>5 DEF Fits
  <2> QED
    BY <2>1, <2>4, <2>5, <2>6, ChildrenOnly
<1>5. CASE SyncLoad(d)
  <2>1. /\ req[d].op = "sync" /\ UNCHANGED <<remote, child, rec, held, overtaken>>
        /\ Children # {} /\ d \in world.clients
    BY <1>5 DEF SyncLoad, Fits
  <2>2. ChildrenAgree' /\ Children' = Children
    BY <2>1, ParentStep DEF ChildrenAgree
  <2>3. Fits(d)'
    <3>1. CASE req'[d].op = "idle"
      BY <3>1, IdleFits
    <3>2. CASE req'[d].op = "write" /\ req'[d].was = remote /\ req'[d].will = SyncVerdict
      BY <2>1, <2>2, <3>2, VerdictParents DEF Fits, Verdicts
    <3> QED
      BY <1>5, <3>1, <3>2, SyncRequest
  <2>4. \A y \in Clients \ {d} : req'[y] = req[y]
    BY <1>5, SyncRequest
  <2> QED
    BY <2>1, <2>2, <2>3, <2>4, ChildrenOnly
<1>6. CASE Write(d)
  BY <1>6, SoleOperatorWrite
<1> QED
  BY <1>1, <1>2, <1>3, <1>4, <1>5, <1>6 DEF DeviceStep

LEMMA SoleOperatorCollector ==
    ASSUME TypeOK, OneOperatorParts, NEW k \in Collectors, CollectorStep(k), world' = world
    PROVE  OneOperatorParts'
<1> k \in Clients
  BY DEF Clients
<1> USE DEF OneOperatorParts
<1>1. CASE Fetch(k)
  <2>1. PICK due \in SUBSET Children :
            /\ \A i \in Ids \ due : child'[i] = child[i]
            /\ \A i \in due : child'[i].status \notin {"absent", "superseded"}
            /\ \A y \in Clients : held'[y] \subseteq held[y] \cup due
    BY <1>1, Fetched
  <2>2. UNCHANGED <<remote, req, rec>>
    BY <1>1 DEF Fetch
  <2>3. ChildrenAgree' /\ Children' = Children
    <3>1. \A i \in Ids \ due : child'[i].status = child[i].status
      BY <2>1
    <3> QED
      BY <2>1, <2>2, <3>1, ChildrenMoved
  <2>4. Quiet
    BY <2>2, <2>3 DEF Quiet
  <2> QED
    BY <2>2, <2>3, <2>4, StillFits
<1>2. ASSUME NEW i \in Ids, NEW s \in {"completed", "failed"}, Report(k, i, s)
      PROVE  OneOperatorParts'
  <2>1. /\ k \in world.clients /\ UNCHANGED <<remote, rec, held>>
        /\ child'[i].status = s /\ \A j \in Ids \ {i} : child'[j] = child[j]
    BY <1>2 DEF Report, CanStart, TypeOK, Rows
  <2>2. i \in Children /\ {i} \in SUBSET Children
    BY <1>2 DEF Report, ChildrenAgree
  <2>3. ChildrenAgree' /\ Children' = Children
    <3>1. \A j \in Ids \ {i} : child'[j].status = child[j].status
      BY <2>1
    <3>2. \A j \in {i} : child'[j].status \notin {"absent", "superseded"}
      BY <2>1
    <3>3. \A y \in Clients : held'[y] \subseteq held[y] \cup {i}
      BY <2>1
    <3> QED
      BY <2>1, <2>2, <3>1, <3>2, <3>3, ChildrenMoved
  <2>4. req'[k].op = "aggregate" /\ \A y \in Clients \ {k} : req'[y] = req[y]
    BY <1>2, Proceeds DEF Report
  <2>5. Fits(k)'
    BY <2>1, <2>2, <2>3, <2>4 DEF Fits
  <2> QED
    BY <2>1, <2>3, <2>4, <2>5, ChildrenOnly
<1>3. CASE AggregateLoad(k)
  <2>1. /\ req[k].op = "aggregate" /\ UNCHANGED <<remote, child, rec, held, overtaken>>
        /\ Children # {} /\ k \in world.clients
    BY <1>3 DEF AggregateLoad, Fits
  <2>2. ChildrenAgree' /\ Children' = Children
    BY <2>1, ParentStep DEF ChildrenAgree
  <2>3. /\ \A y \in Clients \ {k} : req'[y] = req[y]
        /\ req'[k].op = "write" /\ req'[k].was = remote
        /\ req'[k].will = IF AllCounted THEN AggregateVerdict ELSE remote
    BY <1>3, AggregateRequest
  <2>4. Fits(k)'
    BY <2>1, <2>2, <2>3, VerdictParents DEF Fits, Verdicts
  <2> QED
    BY <2>1, <2>2, <2>3, <2>4, ChildrenOnly
<1>4. CASE Write(k)
  BY <1>4, SoleOperatorWrite
<1> QED
  BY <1>1, <1>2, <1>3, <1>4 DEF CollectorStep

LEMMA OneOperatorStep ==
    ASSUME TypeOK, OneOperatorInv, [Next]_vars
    PROVE  OneOperatorInv'
<1>1. world' = world
  BY WorldStays
<1> SUFFICES ASSUME OneOperator, OneOperatorParts
             PROVE  OneOperatorParts'
  BY <1>1 DEF OneOperatorInv, OneOperator
<1>2. ASSUME ChildrenAgree', Children' = Children, remote' = remote,
             \A y \in Clients : req'[y] = req[y] \/ req'[y].op = "idle"
      PROVE  OneOperatorParts'
  <2>1. Quiet
    BY <1>2 DEF Quiet
  <2> QED
    BY <1>1, <1>2, <2>1, IdleFits, StillFits DEF OneOperatorParts
<1>3. CASE RecoverCommit
  <2>1. PICK i \in Ids, r \in Rows :
            /\ i = rec.cmd
            /\ r.status \in {child[i].status, "pending", "failed"}
            /\ child' = [child EXCEPT ![i] = r]
    BY <1>3, RecoverTypes
  <2>2. child'[i] = r /\ \A j \in Ids \ {i} : child'[j] = child[j]
    BY <2>1 DEF TypeOK
  <2>3. {i} \in SUBSET Children
    BY <2>1 DEF OneOperatorParts, ChildrenAgree
  <2>4. r.status \notin {"absent", "superseded"}
    BY <2>1, <2>3 DEF OneOperatorParts, ChildrenAgree, Children, Exists
  <2>5. rec' = [NoPass EXCEPT !.todo = rec.todo] /\ UNCHANGED <<remote, req, held>>
    BY <1>3 DEF RecoverCommit
  <2>6. rec'.cmd \notin Ids /\ rec'.todo = rec.todo
    BY <2>5, NoChildIsNone DEF NoPass
  <2>7. ChildrenAgree' /\ Children' = Children
    BY <2>2, <2>3, <2>4, <2>5, <2>6, ChildrenMove DEF OneOperatorParts, ChildrenAgree
  <2> QED
    BY <1>2, <2>5, <2>7
<1>4. CASE \/ RecoverSelect \/ RecoverNext \/ RecoveryDies \/ Expire \/ UNCHANGED vars
           \/ \E i \in Ids : LeaseLapse(i)
  <2>1. /\ UNCHANGED <<remote, req, held, overtaken>>
        /\ \A i \in Ids : child'[i].status = child[i].status
        /\ rec'.cmd \in Ids => rec'.cmd \in Children
        /\ rec'.todo \subseteq Children
    BY <1>4, PassStays DEF OneOperatorParts
  <2>2. {} \in SUBSET Children
    OBVIOUS
  <2>3. ChildrenAgree' /\ Children' = Children
    BY <2>1, <2>2, ChildrenMove DEF OneOperatorParts
  <2> QED
    BY <1>2, <2>1, <2>3
<1>5. ASSUME NEW x \in Clients, RequestDies(x) PROVE OneOperatorParts'
  <2>1. req'[x].op = "idle" /\ \A y \in Clients \ {x} : req'[y] = req[y]
    BY <1>5, Ends DEF RequestDies
  <2>2. UNCHANGED <<remote, child, rec, held, overtaken>>
    BY <1>5 DEF RequestDies
  <2>3. ChildrenAgree' /\ Children' = Children
    BY <2>2, ParentStep DEF OneOperatorParts, ChildrenAgree
  <2> QED
    BY <1>2, <2>1, <2>2, <2>3
<1> QED
  BY <1>1, <1>3, <1>4, <1>5, SoleOperatorStep, SoleOperatorDevice, SoleOperatorCollector
  DEF Next, RecoverStep

LEMMA OneOperatorInitially == Init => OneOperatorInv
<1> SUFFICES ASSUME Init PROVE OneOperatorParts
  BY DEF OneOperatorInv
<1>1. Children = {}
  BY RowConstants DEF Init, Children, Exists
<1>2. \A x \in Clients : req[x].op = "idle"
  BY RequestTypes DEF Init
<1>3. ChildrenAgree
  BY <1>1, InitiallyAgree
<1> QED
  BY <1>2, <1>3 DEF OneOperatorParts, Fits

-----------------------------------------------------------------------------
(***************************************************************************)
(* With one worker, or any number of them and one operator, a miner has one *)
(* child, however often the command is approved, however the requests of    *)
(* devices and collectors interleave, and whenever the approving one dies.  *)
(***************************************************************************)
THEOREM OneChildPerMiner == Spec => []DispatchedOnce
<1>1. ChildrenAgree => \A i, j \in Children : MinerOf(i) = MinerOf(j) => i = j
  BY DEF ChildrenAgree, Children, Ids, MinerOf
<1>2. TurnsInv /\ OneOperatorInv => DispatchedOnce
  BY <1>1 DEF TurnsInv, TurnsParts, OneOperatorInv, OneOperatorParts, DispatchedOnce
<1> QED
  BY <1>2, TurnsInitially, TurnsStep, OneOperatorInitially, OneOperatorStep, RemoteTyping, PTL DEF Spec

=============================================================================
