-------------------------- MODULE CommandLeaseProofs --------------------------
(* Proofs about CommandLease, for every choice of its constants. *)
EXTENDS CommandLease, FiniteSetTheorems, TLAPS

USE CommandsAssumption, ClientsAssumption, NumbersAssumption, RowAssumption

\* What a commit makes of the committed, the loaded and the new row is a row.
LEMMA FlushType ==
    ASSUME NEW cur \in Rows, NEW snap \in Rows, NEW new \in Rows
    PROVE  Flush(cur, snap, new) \in Rows
BY DEF Flush, Net, Rows

\* Polls, ACKs and the recovery job compute rows.
LEMMA RowTypes ==
    ASSUME NEW snap \in Rows
    PROVE  /\ \A d \in Devices, n \in Numbers : Leased(snap, d, n) \in Rows
           /\ \A s \in Outcomes \ {"none"} : AckedRow(snap, s) \in Rows
           /\ RecoveredRow(snap) \in Rows
<1>1. \A d \in Devices, n \in Numbers : Leased(snap, d, n) \in Rows
  BY DEF Leased, Rows, Statuses, STATUS_TYPES
<1>2. Released(snap) \in Rows
  BY DEF Released, Rows
<1>3. ASSUME NEW s \in Outcomes \ {"none"}
      PROVE  AckedRow(snap, s) \in Rows
  <2>1. s \in Statuses /\ "pending" \in Statuses
    BY DEF Outcomes, Statuses, STATUS_TYPES, TERMINAL_STATES
  <2>2. CASE Retries(snap, s)
    <3>1. snap.retry_count + 1 \in 0 .. MaxRetries
      BY <2>2 DEF Retries, Rows
    <3> QED BY <1>2, <2>1, <2>2, <3>1 DEF AckedRow, Released, Rows
  <2>3. CASE ~Retries(snap, s)
    BY <1>2, <2>1, <2>3 DEF AckedRow, Rows
  <2> QED BY <2>2, <2>3
<1>4. RecoveredRow(snap) \in Rows
  <2>1. "pending" \in Statuses /\ "failed" \in Statuses
    BY DEF Statuses, STATUS_TYPES, TERMINAL_STATES
  <2>2. CASE snap.retry_count < MaxRetries
    <3>1. snap.retry_count + 1 \in 0 .. MaxRetries
      BY <2>2 DEF Rows
    <3> QED BY <1>2, <2>1, <2>2, <3>1 DEF RecoveredRow, Released, Rows
  <2>3. CASE ~(snap.retry_count < MaxRetries)
    BY <1>2, <2>1, <2>3 DEF RecoveredRow, Rows
  <2> QED BY <2>2, <2>3
<1> QED BY <1>1, <1>3, <1>4

\* The rows and the request that exist at first have their types.
LEMMA IdleType == AbsentRow \in Rows /\ NewRow \in Rows /\ Idle \in Requests
BY DEF AbsentRow, NewRow, Idle, Rows, Requests, Handlers, Ops, Nothing, Statuses, STATUS_TYPES, Outcomes, Numbers

\* A handler that has loaded a row is a request.
LEMMA LoadedType ==
    ASSUME row \in [Commands -> Rows], NEW c \in Commands,
           NEW op \in {"ack", "report", "cancel"}, NEW s \in Outcomes,
           op # "cancel" => s # "none"
    PROVE  Loaded(op, c, s) \in Requests
<1>1. Loaded(op, c, s) \in Handlers
  BY IdleType DEF Loaded, Requests, Handlers, Ops
<1>2. Loaded(op, c, s).op = op /\ Loaded(op, c, s).cmd = c /\ Loaded(op, c, s).ack = s
  BY IdleType DEF Loaded, Requests, Handlers
<1> QED
  BY <1>1, <1>2 DEF Requests, NoCommand

\* Every step of the system keeps the type of every variable.
LEMMA TypingStep ==
    ASSUME TypeOK, [Next]_vars
    PROVE  TypeOK'
<1> USE IdleType DEF TypeOK
<1>1. ASSUME NEW c \in Commands, Create(c) PROVE TypeOK'
  BY <1>1 DEF Create
<1>2. ASSUME NEW c \in Commands, TimeStep(c) PROVE TypeOK'
  <2>1. CASE LeaseLapse(c)
    BY <2>1 DEF LeaseLapse, Rows
  <2>2. CASE BackoffElapse(c) \/ CommandExpire(c)
    BY <2>2 DEF BackoffElapse, CommandExpire
  <2> QED BY <1>2, <2>1, <2>2 DEF TimeStep
<1>3. ASSUME NEW d \in Devices, PollStep(d) PROVE TypeOK'
  <2> d \in Clients
    BY DEF Clients
  <2>1. CASE PollSelect(d)
    <3>1. PICK c \in Commands, batch \in SUBSET Commands :
               req' = [req EXCEPT ![d] = [Idle EXCEPT !.op = "select", !.todo = batch,
                                                      !.cmd = c, !.snap = row[c]]]
      BY <2>1 DEF PollSelect, FirstN
    <3>2. [Idle EXCEPT !.op = "select", !.todo = batch, !.cmd = c, !.snap = row[c]] \in Requests
      BY DEF Requests, Handlers, Ops
    <3> QED BY <2>1, <3>1, <3>2 DEF PollSelect
  <2>2. CASE PollDispatch(d)
    <3> DEFINE c == req[d].cmd
    <3> DEFINE n == sent[c] + 1
    <3>1. c \in Commands /\ req[d].snap \in Rows /\ n \in Numbers
      <4>1. sent[c] \in Nat /\ n <= MaxDispatch /\ c # NoCommand
        BY <2>2 DEF PollDispatch, Requests, Handlers, Numbers
      <4> QED BY <4>1 DEF Requests, Handlers, Numbers
    <3>2. Flush(row[c], req[d].snap, Leased(req[d].snap, d, n)) \in Rows
      BY <3>1, RowTypes, FlushType
    <3>3. row' \in [Commands -> Rows]
      BY <2>2, <3>1, <3>2 DEF PollDispatch, Rows
    <3>4. [req[d].given EXCEPT ![c] = n] \in [Commands -> Numbers]
      BY <3>1 DEF Requests, Handlers
    <3>5. req' \in [Clients -> Requests]
      BY <2>2, <3>4 DEF PollDispatch, IterationDone, Requests, Handlers, Ops
    <3> QED BY <2>2, <3>1, <3>3, <3>5 DEF PollDispatch
  <2>3. CASE PollRateLimited(d)
    <3>1. req' \in [Clients -> Requests]
      BY <2>3 DEF PollRateLimited, IterationDone, Requests, Handlers, Ops
    <3> QED BY <2>3, <3>1 DEF PollRateLimited
  <2>4. CASE PollNext(d)
    <3>1. PICK c \in Commands : req' = [req EXCEPT ![d].cmd = c, ![d].snap = row[c]]
      BY <2>4 DEF PollNext
    <3>2. [req[d] EXCEPT !.cmd = c, !.snap = row[c]] \in Handlers
      BY DEF Requests, Handlers
    <3>3. [req[d] EXCEPT !.cmd = c, !.snap = row[c]] \in Requests
      BY <2>4, <3>2 DEF PollNext, Requests, Handlers
    <3>4. req' = [req EXCEPT ![d] = [req[d] EXCEPT !.cmd = c, !.snap = row[c]]]
      BY <3>1
    <3> QED BY <2>4, <3>3, <3>4 DEF PollNext
  <2>5. CASE PollEnd(d)
    <3>1. req[d].given \in [Commands -> Numbers]
      BY DEF Requests, Handlers
    <3>2. held' \in [Clients -> [Commands -> Numbers]]
      BY <2>5, <3>1 DEF PollEnd
    <3>3. told' \in [Devices -> [Commands -> Outcomes]]
      BY <2>5 DEF PollEnd, Outcomes
    <3> QED BY <2>5, <3>2, <3>3 DEF PollEnd
  <2> QED BY <1>3, <2>1, <2>2, <2>3, <2>4, <2>5 DEF PollStep
<1>4. ASSUME NEW d \in Devices, AckStep(d) PROVE TypeOK'
  <2> d \in Clients
    BY DEF Clients
  <2>1. ASSUME NEW c \in Commands, NEW s \in AckStatuses, NEW n \in Numbers,
               AckLoad(d, c, s, n)
        PROVE  TypeOK'
    <3>1. (IF expired[c] THEN "expired" ELSE s) \in Outcomes \ {"none"}
      BY DEF Outcomes
    <3>2. Loaded("ack", c, IF expired[c] THEN "expired" ELSE s) \in Requests
      BY <3>1, LoadedType
    <3> QED BY <2>1, <3>2 DEF AckLoad
  <2>2. CASE AckCommit(d)
    <3> DEFINE c == req[d].cmd
    <3> DEFINE r == req[d]
    <3>1. c \in Commands /\ r.snap \in Rows /\ r.ack \in Outcomes \ {"none"}
      BY <2>2 DEF AckCommit, Requests, Handlers
    <3>2. Flush(row[c], r.snap, AckedRow(r.snap, r.ack)) \in Rows
      BY <3>1, RowTypes, FlushType
    <3> QED BY <2>2, <3>1, <3>2 DEF AckCommit
  <2> QED BY <1>4, <2>1, <2>2 DEF AckStep
<1>5. ASSUME NEW k \in Collectors, FetchStep(k) \/ ReportStep(k)
      PROVE  TypeOK'
  <2> k \in Clients
    BY DEF Clients
  <2>1. CASE FetchExpire(k)
    <3>1. req' \in [Clients -> Requests]
      BY <2>1 DEF FetchExpire, Requests, Handlers, Ops
    <3>2. row' \in [Commands -> Rows]
      <4> DEFINE stale == {c \in Commands : row[c].status = "pending" /\ expired[c]}
      <4>1. \A c \in Commands : [row[c] EXCEPT !.status = "expired"] \in Rows
        BY DEF Rows, Statuses, STATUS_TYPES, TERMINAL_STATES
      <4>2. row' = [c \in Commands |->
                       IF c \in stale THEN [row[c] EXCEPT !.status = "expired"] ELSE row[c]]
        BY <2>1 DEF FetchExpire
      <4> HIDE DEF stale
      <4> QED BY <4>1, <4>2
    <3> QED BY <2>1, <3>1, <3>2 DEF FetchExpire
  <2>2. CASE FetchSelect(k)
    <3>1. req' \in [Clients -> Requests]
      BY <2>2 DEF FetchSelect, Requests, Handlers, Ops
    <3> QED BY <2>2, <3>1 DEF FetchSelect
  <2>3. CASE FetchCommit(k)
    <3> DEFINE n == [c \in Commands |-> sent[c] + 1]
    <3>1. \A c \in req[k].todo : n[c] \in Numbers
      <4> SUFFICES ASSUME NEW c \in req[k].todo PROVE sent[c] + 1 \in Numbers
        BY DEF Requests, Handlers
      <4>1. c \in Commands /\ sent[c] + 1 <= MaxDispatch
        BY <2>3 DEF FetchCommit, Requests, Handlers
      <4>2. sent[c] \in Nat
        BY <4>1 DEF Numbers
      <4> QED BY <4>1, <4>2 DEF Numbers
    <3>2. row' \in [Commands -> Rows]
      BY <2>3 DEF FetchCommit, Rows, Statuses, STATUS_TYPES
    <3>3. sent' \in [Commands -> Numbers]
      BY <2>3, <3>1 DEF FetchCommit
    <3>4. [c \in Commands |-> IF c \in req[k].todo THEN n[c] ELSE held[k][c]]
              \in [Commands -> Numbers]
      <4>1. held[k] \in [Commands -> Numbers]
        OBVIOUS
      <4> HIDE DEF n
      <4> QED BY <3>1, <4>1
    <3>5. held' \in [Clients -> [Commands -> Numbers]]
      BY <2>3, <3>4 DEF FetchCommit
    <3> QED BY <2>3, <3>2, <3>3, <3>5 DEF FetchCommit
  <2>4. ASSUME NEW c \in Commands, NEW s \in {"completed", "failed"}, ReportLoad(k, c, s)
        PROVE  TypeOK'
    <3>1. Loaded("report", c, s) \in Requests
      BY LoadedType DEF Outcomes
    <3> QED BY <2>4, <3>1 DEF ReportLoad
  <2>5. CASE ReportCommit(k)
    <3>1. req[k].ack \in Statuses
      BY <2>5 DEF ReportCommit, Requests, Handlers, Outcomes, Statuses, STATUS_TYPES, TERMINAL_STATES
    <3>2. \A c \in Commands, s \in Statuses : [row[c] EXCEPT !.status = s] \in Rows
      BY DEF Rows
    <3>3. row' \in [Commands -> Rows]
      <4> DEFINE c == req[k].cmd
      <4> DEFINE s == Net(req[k].snap.status, req[k].ack, row[c].status)
      <4>1. c \in Commands
        BY <2>5 DEF ReportCommit, Requests, Handlers
      <4>2. s \in Statuses
        BY <3>1, <4>1 DEF Net, Rows
      <4>3. row' = [row EXCEPT ![c] = [row[c] EXCEPT !.status = s]]
        BY <2>5, <4>1 DEF ReportCommit
      <4> HIDE DEF s
      <4> QED BY <3>2, <4>1, <4>2, <4>3
    <3> QED BY <2>5, <3>3 DEF ReportCommit
  <2> QED BY <1>5, <2>1, <2>2, <2>3, <2>4, <2>5 DEF FetchStep, ReportStep
<1>6. CASE CancelStep
  <2> Operator \in Clients
    BY DEF Clients
  <2>1. ASSUME NEW c \in Commands, CancelLoad(c) PROVE TypeOK'
    <3>1. Loaded("cancel", c, "none") \in Requests
      BY LoadedType DEF Outcomes
    <3> QED BY <2>1, <3>1 DEF CancelLoad
  <2>2. CASE CancelCommit
    <3>1. \A c \in Commands : [row[c] EXCEPT !.status = "cancelled"] \in Rows
      BY DEF Rows, Statuses, STATUS_TYPES, TERMINAL_STATES
    <3> QED BY <2>2, <3>1 DEF CancelCommit
  <2> QED BY <1>6, <2>1, <2>2 DEF CancelStep
<1>7. CASE RecoverStep
  <2>1. CASE RecoverSelect \/ RecoverNext
    BY <2>1 DEF RecoverSelect, RecoverNext, Passes
  <2>2. CASE RecoverCommit
    <3>1. rec.cmd \in Commands /\ rec.snap \in Rows
      BY <2>2 DEF RecoverCommit, Passes
    <3>2. Flush(row[rec.cmd], rec.snap, RecoveredRow(rec.snap)) \in Rows
      BY <3>1, RowTypes, FlushType
    <3>3. rec' \in Passes
      BY <2>2 DEF RecoverCommit, NoPass, Passes
    <3>4. (rec.snap.retry_count < MaxRetries) \in BOOLEAN
      BY <3>1 DEF Rows
    <3> QED BY <2>2, <3>1, <3>2, <3>3, <3>4 DEF RecoverCommit
  <2> QED BY <1>7, <2>1, <2>2 DEF RecoverStep
<1>8. ASSUME NEW x \in Clients, RequestDies(x) \/ ClientRestart(x) PROVE TypeOK'
  <2>1. Nothing \in [Commands -> Numbers] /\ Untold \in [Commands -> Outcomes]
    BY DEF Nothing, Untold, Numbers, Outcomes
  <2> QED BY <1>8, <2>1 DEF RequestDies, ClientRestart
<1>9. CASE RecoveryDies
  BY <1>9 DEF RecoveryDies, NoPass, Passes
<1>10. CASE UNCHANGED vars
  BY <1>10 DEF vars
<1> QED
  BY <1>1, <1>2, <1>3, <1>4, <1>5, <1>6, <1>7, <1>8, <1>9, <1>10 DEF Next

(***************************************************************************)
(* Every variable keeps its type, whatever the number of clients, commands, *)
(* retries and workers.                                                     *)
(***************************************************************************)
THEOREM Typing == Spec => []TypeOK
<1>1. Init => TypeOK
  <2> SUFFICES ASSUME Init PROVE TypeOK
    OBVIOUS
  <2>1. NoPass \in Passes
    BY IdleType DEF NoPass, Passes
  <2>2. Nothing \in [Commands -> Numbers] /\ Untold \in [Commands -> Outcomes]
    BY DEF Nothing, Untold, Numbers, Outcomes
  <2> QED
    BY IdleType, <2>1, <2>2 DEF Init, TypeOK
<1> QED
  BY <1>1, TypingStep, PTL DEF Spec

-----------------------------------------------------------------------------
(* One synchronous worker, and no legacy collectors.                        *)

\* A request that the only worker takes up finds no other one under way.
LEMMA AllIdle ==
    ASSUME Workers = 1, TypeOK, NEW x \in Clients, CanStart(x)
    PROVE  \A y \in Clients : req[y].op = "idle"
<1> DEFINE busy == {y \in Clients : req[y].op # "idle"}
<1>1. IsFiniteSet(Clients)
  BY FS_Singleton, FS_Union DEF Clients
<1>2. IsFiniteSet(busy)
  BY <1>1, FS_Subset
<1>3. Cardinality(busy) \in Nat /\ Cardinality(busy) < 1
  BY <1>2, FS_CardinalityType DEF CanStart
<1>4. busy = {}
  BY <1>2, <1>3, FS_EmptySet
<1> QED
  BY <1>4

\* A request that is taken up keeps the invariant, if what it has loaded is true.
LEMMA Taken ==
    ASSUME Serial, TypeOK, SerialInv, NEW x \in Clients, CanStart(x), NEW h \in Requests,
           req' = [req EXCEPT ![x] = h], UNCHANGED <<row, backoff, rec, sent>>,
           h.op \in {"select", "loop"} =>
               /\ \A c \in h.todo : row[c].status = "pending" /\ ~backoff[c]
               /\ h.cmd # NoCommand => h.cmd \in h.todo /\ h.snap = row[h.cmd],
           h.op = "ack" => UsefulSnapshot(h.snap, h.cmd),
           h.op = "cancel" => row[h.cmd].lease_owner = NoOwner
    PROVE  SerialInv'
<1>1. \A y \in Clients : req[y].op = "idle"
  BY AllIdle DEF Serial
<1>2. \A y \in Clients : req'[y].op # "idle" => y = x /\ req'[y] = h
  BY <1>1 DEF TypeOK
<1>3. \A d \in Devices : d \in Clients
  BY DEF Clients
<1>4. Operator \in Clients
  BY DEF Clients
<1>5. OneRequestAtATime' /\ LeaseConsistent' /\ HandOutsPaid' /\ PassBlocksPolling'
  BY <1>2 DEF SerialInv, OneRequestAtATime, LeaseConsistent, Consistent, HandOutsPaid, PassBlocksPolling
<1>6. BatchIsPending'
  BY <1>2, <1>3 DEF BatchIsPending, InPollLoop
<1>7. SnapshotsUseful'
  BY <1>2, <1>3, <1>4 DEF SerialInv, SnapshotsUseful, UsefulSnapshot
<1> QED
  BY <1>5, <1>6, <1>7 DEF SerialInv

\* A request that ends, however it ends, keeps the invariant.
LEMMA Ends ==
    ASSUME TypeOK, SerialInv, NEW x \in Clients,
           req' = [req EXCEPT ![x] = Idle], UNCHANGED <<row, backoff, rec, sent>>
    PROVE  SerialInv'
<1>1. \A y \in Clients : req'[y].op # "idle" => req'[y] = req[y]
  BY DEF TypeOK, Idle
<1>2. \A d \in Devices : d \in Clients
  BY DEF Clients
<1>3. Operator \in Clients
  BY DEF Clients
<1>4. OneRequestAtATime' /\ LeaseConsistent' /\ HandOutsPaid' /\ PassBlocksPolling'
  BY <1>1 DEF SerialInv, OneRequestAtATime, LeaseConsistent, Consistent, HandOutsPaid, PassBlocksPolling
<1>5. BatchIsPending'
  BY <1>1, <1>2 DEF SerialInv, BatchIsPending, InPollLoop
<1>6. SnapshotsUseful'
  BY <1>1, <1>2, <1>3 DEF SerialInv, SnapshotsUseful, UsefulSnapshot
<1> QED
  BY <1>4, <1>5, <1>6 DEF SerialInv

\* The commit of an ACK or of the recovery job leaves a row that nobody leases,
\* and that is pending again only if the hand-outs so far are paid for.
LEMMA Release ==
    ASSUME TypeOK, SerialInv, NEW c \in Commands, NEW snap \in Rows, NEW new \in Rows,
           NEW retry \in BOOLEAN, UsefulSnapshot(snap, c),
           new.lease_owner = NoOwner, new.lease_until = "none",
           new.status \notin {"dispatched", "absent"},
           retry => new.retry_count = snap.retry_count + 1,
           ~retry => new.retry_count = snap.retry_count /\ new.status # "pending",
           NEW r, r = Flush(row[c], snap, new)
    PROVE  /\ r.lease_owner = NoOwner /\ r.lease_until = "none" /\ r.status # "dispatched"
           /\ sent[c] <= r.retry_count + 1
           /\ r.status = "pending" => sent[c] <= r.retry_count
           /\ r.status = "pending" => retry \/ row[c].status = "pending"
           /\ r.status = "absent" => row[c].status = "absent"
<1>1. /\ row[c] \in Rows /\ Consistent(row[c]) /\ Consistent(snap)
      /\ snap.lease_owner = NoOwner => row[c].lease_owner = NoOwner
      /\ sent[c] <= snap.retry_count + 1
  BY DEF TypeOK, SerialInv, LeaseConsistent, UsefulSnapshot
<1>2. /\ sent[c] \in Nat
      /\ sent[c] <= row[c].retry_count + 1
      /\ row[c].status = "pending" => sent[c] <= row[c].retry_count
  BY DEF TypeOK, SerialInv, HandOutsPaid, Numbers
<1>3. r.lease_owner = NoOwner /\ r.lease_until = "none" /\ r.status # "dispatched"
  BY <1>1 DEF Flush, Net, Consistent
<1>4. r.status = "pending" => retry \/ row[c].status = "pending"
  BY DEF Flush, Net
<1>5. r.status = "absent" => row[c].status = "absent"
  BY DEF Flush, Net
<1>6. r.retry_count = IF retry THEN snap.retry_count + 1 ELSE row[c].retry_count
  BY DEF Flush, Net, Rows
<1>7. row[c].retry_count \in Nat /\ snap.retry_count \in Nat
  BY <1>1 DEF Rows
<1>8. sent[c] <= r.retry_count + 1 /\ (r.status = "pending" => sent[c] <= r.retry_count)
  <2>1. CASE retry
    <3>1. r.retry_count = snap.retry_count + 1
      BY <1>6, <2>1
    <3> QED BY <1>1, <1>2, <1>7, <3>1
  <2>2. CASE ~retry
    <3>1. r.retry_count = row[c].retry_count
      BY <1>6, <2>2
    <3> QED BY <1>2, <1>4, <2>2, <3>1
  <2> QED BY <2>1, <2>2
<1> QED
  BY <1>3, <1>4, <1>5, <1>8

\* Such a commit keeps the rows consistent and paid for, and no command that the
\* recovery job may still want to visit becomes pollable by it.
LEMMA ReleaseKeeps ==
    ASSUME TypeOK, SerialInv, NEW c \in Commands, NEW snap \in Rows, NEW new \in Rows,
           NEW retry \in BOOLEAN, UsefulSnapshot(snap, c),
           new.lease_owner = NoOwner, new.lease_until = "none",
           new.status \notin {"dispatched", "absent"},
           retry => new.retry_count = snap.retry_count + 1,
           ~retry => new.retry_count = snap.retry_count /\ new.status # "pending",
           row' = [row EXCEPT ![c] = Flush(row[c], snap, new)],
           backoff' = [backoff EXCEPT ![c] = backoff[c] \/ retry],
           UNCHANGED sent
    PROVE  /\ LeaseConsistent' /\ HandOutsPaid'
           /\ \A b \in Commands :
                  /\ row[b].lease_owner = NoOwner => row'[b].lease_owner = NoOwner
                  /\ row[b].status # "absent" /\ (row[b].status = "pending" => backoff[b])
                         => row'[b].status # "absent" /\ (row'[b].status = "pending" => backoff'[b])
                  /\ b # c => row'[b] = row[b] /\ backoff'[b] = backoff[b]
<1> DEFINE r == Flush(row[c], snap, new)
<1>1. /\ r.lease_owner = NoOwner /\ r.lease_until = "none" /\ r.status # "dispatched"
      /\ sent[c] <= r.retry_count + 1
      /\ r.status = "pending" => sent[c] <= r.retry_count
      /\ r.status = "pending" => retry \/ row[c].status = "pending"
      /\ r.status = "absent" => row[c].status = "absent"
  BY Release
<1>2. \A b \in Commands : row'[b] = IF b = c THEN r ELSE row[b]
  BY DEF TypeOK
<1>3. \A b \in Commands : backoff'[b] = IF b = c THEN backoff[b] \/ retry ELSE backoff[b]
  BY DEF TypeOK
<1> HIDE DEF r
<1>4. LeaseConsistent'
  BY <1>1, <1>2 DEF SerialInv, LeaseConsistent, Consistent
<1>5. HandOutsPaid'
  BY <1>1, <1>2 DEF SerialInv, HandOutsPaid
<1>6. ASSUME NEW b \in Commands
      PROVE  /\ row[b].lease_owner = NoOwner => row'[b].lease_owner = NoOwner
             /\ row[b].status # "absent" /\ (row[b].status = "pending" => backoff[b])
                    => row'[b].status # "absent" /\ (row'[b].status = "pending" => backoff'[b])
             /\ b # c => row'[b] = row[b] /\ backoff'[b] = backoff[b]
  BY <1>1, <1>2, <1>3
<1> QED
  BY <1>4, <1>5, <1>6

\* Every step of the system keeps the invariant.
LEMMA SerialStep ==
    ASSUME Serial, TypeOK, SerialInv, [Next]_vars
    PROVE  SerialInv'
<1>0. /\ TypeOK'
      /\ Operator \in Clients
      /\ \A d \in Devices : d \in Clients /\ d # Operator /\ d # NoOwner
  BY TypingStep DEF Clients
<1>1. ASSUME NEW c \in Commands, Create(c) PROVE SerialInv'
  <2>1. /\ \A y \in Clients : req[y].op = "idle"
        /\ row[c].status = "absent"
        /\ \A b \in Commands : row'[b] = IF b = c THEN NewRow ELSE row[b]
        /\ UNCHANGED <<backoff, req, rec, sent>>
    BY <1>0, <1>1, AllIdle DEF Serial, Create, TypeOK
  <2>2. NewRow.status = "pending" /\ NewRow.lease_owner = NoOwner
        /\ NewRow.lease_until = "none" /\ NewRow.retry_count = 0
    BY DEF NewRow, AbsentRow
  <2>3. sent[c] = 0 /\ c # rec.cmd /\ c \notin rec.todo
    BY <2>1 DEF SerialInv, HandOutsPaid, PassBlocksPolling
  <2>4. OneRequestAtATime'
    BY <2>1 DEF OneRequestAtATime
  <2>5. LeaseConsistent'
    BY <2>1, <2>2 DEF SerialInv, LeaseConsistent, Consistent
  <2>6. HandOutsPaid'
    BY <2>1, <2>2, <2>3 DEF SerialInv, HandOutsPaid
  <2>7. PassBlocksPolling'
    BY <2>1, <2>3 DEF SerialInv, PassBlocksPolling
  <2>8. BatchIsPending'
    BY <1>0, <2>1 DEF BatchIsPending, InPollLoop
  <2>9. SnapshotsUseful'
    <3>1. rec.cmd # NoCommand => UsefulSnapshot(rec.snap, rec.cmd)'
      <4> SUFFICES ASSUME rec.cmd # NoCommand PROVE UsefulSnapshot(rec.snap, rec.cmd)'
        OBVIOUS
      <4>1. rec.cmd \in Commands /\ row'[rec.cmd] = row[rec.cmd]
        BY <2>1, <2>3 DEF TypeOK, Passes
      <4> QED BY <2>1, <4>1 DEF SerialInv, SnapshotsUseful, UsefulSnapshot
    <3> QED BY <1>0, <2>1, <3>1 DEF SnapshotsUseful
  <2> QED
    BY <2>4, <2>5, <2>6, <2>7, <2>8, <2>9 DEF SerialInv
<1>2. ASSUME NEW c \in Commands, TimeStep(c) PROVE SerialInv'
  <2>1. CASE LeaseLapse(c)
    <3>1. /\ UNCHANGED <<backoff, req, rec, sent>>
          /\ row[c].lease_until = "live"
          /\ \A b \in Commands :
                 row'[b] = IF b = c THEN [row[b] EXCEPT !.lease_until = "lapsed"] ELSE row[b]
      BY <2>1 DEF LeaseLapse, TypeOK
    <3>2. \A b \in Commands : /\ row'[b].status = row[b].status
                              /\ row'[b].lease_owner = row[b].lease_owner
                              /\ row'[b].retry_count = row[b].retry_count
                              /\ row'[b].lease_until = IF b = c THEN "lapsed" ELSE row[b].lease_until
      BY <3>1 DEF TypeOK, Rows
    <3>3. row[c].status # "pending"
      BY <3>1 DEF SerialInv, LeaseConsistent, Consistent
    <3>4. OneRequestAtATime' /\ LeaseConsistent' /\ HandOutsPaid' /\ PassBlocksPolling'
      BY <3>1, <3>2 DEF SerialInv, OneRequestAtATime, LeaseConsistent, Consistent, HandOutsPaid, PassBlocksPolling
    <3>5. BatchIsPending'
      <4> SUFFICES ASSUME NEW d \in Devices, InPollLoop(d)
                   PROVE  /\ \A b \in req[d].todo : row'[b].status = "pending" /\ ~backoff[b]
                          /\ req[d].cmd # NoCommand =>
                                 req[d].cmd \in req[d].todo /\ req[d].snap = row'[req[d].cmd]
        BY <3>1 DEF BatchIsPending, InPollLoop
      <4>1. \A b \in req[d].todo : b \in Commands /\ row[b].status = "pending" /\ ~backoff[b]
        BY <1>0 DEF SerialInv, BatchIsPending, TypeOK, Requests, Handlers
      <4>2. c \notin req[d].todo
        BY <3>3, <4>1
      <4>3. \A b \in req[d].todo : row'[b] = row[b]
        BY <3>1, <4>1, <4>2
      <4> QED BY <4>1, <4>3 DEF SerialInv, BatchIsPending
    <3>6. SnapshotsUseful'
      <4>1. \A snap : \A b \in Commands : UsefulSnapshot(snap, b) => UsefulSnapshot(snap, b)'
        BY <3>1, <3>2 DEF UsefulSnapshot
      <4>2. rec.cmd # NoCommand => rec.cmd \in Commands
        BY DEF TypeOK, Passes
      <4>3. \A x \in Clients : req[x].op \in {"ack", "cancel"} => req[x].cmd \in Commands
        BY DEF TypeOK, Requests, Handlers
      <4> QED
        BY <1>0, <3>1, <3>2, <4>1, <4>2, <4>3 DEF SerialInv, SnapshotsUseful
    <3> QED
      BY <3>4, <3>5, <3>6 DEF SerialInv
  <2>2. CASE BackoffElapse(c)
    <3>1. /\ UNCHANGED <<row, req, rec, sent>>
          /\ c # rec.cmd /\ c \notin rec.todo
          /\ \A b \in Commands : backoff'[b] = IF b = c THEN FALSE ELSE backoff[b]
      BY <2>2 DEF BackoffElapse, Settled, TypeOK
    <3>2. OneRequestAtATime' /\ LeaseConsistent' /\ HandOutsPaid' /\ PassBlocksPolling'
      BY <3>1 DEF SerialInv, OneRequestAtATime, LeaseConsistent, Consistent, HandOutsPaid, PassBlocksPolling
    <3>3. BatchIsPending'
      <4>1. \A d \in Devices : req[d].todo \subseteq Commands
        BY <1>0 DEF TypeOK, Requests, Handlers
      <4> QED BY <3>1, <4>1 DEF SerialInv, BatchIsPending, InPollLoop
    <3>4. SnapshotsUseful'
      BY <3>1 DEF SerialInv, SnapshotsUseful, UsefulSnapshot
    <3> QED
      BY <3>2, <3>3, <3>4 DEF SerialInv
  <2>3. CASE CommandExpire(c)
    <3>1. UNCHANGED <<row, backoff, req, rec, sent>>
      BY <2>3 DEF CommandExpire
    <3> QED
      BY <3>1 DEF SerialInv, OneRequestAtATime, LeaseConsistent, Consistent, HandOutsPaid, PassBlocksPolling,
                  BatchIsPending, InPollLoop, SnapshotsUseful, UsefulSnapshot
  <2> QED
    BY <1>2, <2>1, <2>2, <2>3 DEF TimeStep
<1>3. ASSUME NEW d \in Devices, PollStep(d) PROVE SerialInv'
  <2>1. CASE PollSelect(d)
    <3>1. PICK batch \in SUBSET Commands, c \in Commands :
               /\ CanStart(d) /\ IsFirst(c, batch)
               /\ \A b \in batch : Pollable(b)
               /\ req' = [req EXCEPT ![d] = [Idle EXCEPT !.op = "select", !.todo = batch,
                                                        !.cmd = c, !.snap = row[c]]]
               /\ UNCHANGED <<row, backoff, rec, sent>>
      BY <2>1 DEF PollSelect, FirstN
    <3> DEFINE h == [Idle EXCEPT !.op = "select", !.todo = batch, !.cmd = c, !.snap = row[c]]
    <3>2. h \in Requests
      BY IdleType DEF TypeOK, Requests, Handlers, Ops
    <3>3. h.op = "select" /\ h.todo = batch /\ h.cmd = c /\ h.snap = row[c]
      BY DEF Idle
    <3>4. \A b \in h.todo : row[b].status = "pending" /\ ~backoff[b]
      BY <3>1, <3>3 DEF Pollable
    <3>5. h.cmd \in h.todo /\ h.snap = row[h.cmd]
      BY <3>1, <3>3 DEF IsFirst
    <3> HIDE DEF h
    <3> QED
      BY <1>0, <3>1, <3>2, <3>3, <3>4, <3>5, Taken DEF h
  <2>2. CASE PollDispatch(d)
    <3> DEFINE c == req[d].cmd
    <3> DEFINE r == row'[c]
    <3>1. /\ InPollLoop(d) /\ c \in Commands /\ c \in req[d].todo
          /\ req[d].snap = row[c] /\ row[c].status = "pending" /\ ~backoff[c]
      BY <1>0, <2>2 DEF PollDispatch, SerialInv, BatchIsPending, TypeOK, Requests, Handlers
    <3>2. /\ c # rec.cmd /\ c \notin rec.todo
          /\ row[c].lease_owner = NoOwner /\ row[c].lease_until = "none"
          /\ sent[c] <= row[c].retry_count /\ sent[c] \in Nat /\ row[c].retry_count \in Nat
      <4> HIDE DEF c
      <4>1. c # rec.cmd /\ c \notin rec.todo
        BY <3>1 DEF SerialInv, PassBlocksPolling
      <4>2. row[c].lease_owner = NoOwner /\ row[c].lease_until = "none"
        BY <3>1 DEF SerialInv, LeaseConsistent, Consistent
      <4>3. sent[c] <= row[c].retry_count /\ sent[c] \in Nat /\ row[c].retry_count \in Nat
        BY <3>1 DEF SerialInv, HandOutsPaid, TypeOK, Rows, Numbers
      <4> QED BY <4>1, <4>2, <4>3
    <3>3. /\ r.status = "dispatched" /\ r.lease_owner = d /\ r.lease_until = "live"
          /\ r.retry_count = row[c].retry_count
      BY <1>0, <2>2, <3>1, <3>2 DEF PollDispatch, Flush, Net, Leased, TypeOK, Rows
    <3>4. /\ \A b \in Commands \ {c} : row'[b] = row[b] /\ sent'[b] = sent[b]
          /\ sent'[c] = sent[c] + 1
          /\ UNCHANGED <<backoff, rec>>
      BY <2>2, <3>1 DEF PollDispatch, TypeOK
    <3>5. /\ \A x \in Clients \ {d} : req'[x] = req[x] /\ req[x].op = "idle"
          /\ req'[d].op = "loop" /\ req'[d].cmd = NoCommand
          /\ req'[d].todo = req[d].todo \ {c}
      BY <1>0, <2>2, <3>1 DEF PollDispatch, IterationDone, InPollLoop, SerialInv,
                              OneRequestAtATime, TypeOK, Idle
    <3> HIDE DEF r
    <3>6. OneRequestAtATime'
      BY <3>5 DEF OneRequestAtATime
    <3>7. LeaseConsistent'
      <4>1. Consistent(row'[c])
        BY <1>0, <3>3 DEF Consistent, r
      <4> QED BY <3>4, <4>1 DEF SerialInv, LeaseConsistent, Consistent
    <3>8. HandOutsPaid'
      <4>1. sent'[c] <= row'[c].retry_count + 1 /\ row'[c].status \notin {"pending", "absent"}
        BY <3>2, <3>3, <3>4 DEF r
      <4> QED BY <3>4, <4>1 DEF SerialInv, HandOutsPaid
    <3>9. PassBlocksPolling'
      BY <3>2, <3>4 DEF SerialInv, PassBlocksPolling
    <3>10. BatchIsPending'
      <4>1. req[d].todo \subseteq Commands
        BY <1>0 DEF TypeOK, Requests, Handlers
      <4>2. \A b \in req'[d].todo : row'[b].status = "pending" /\ ~backoff'[b]
        <5> SUFFICES ASSUME NEW b \in req'[d].todo PROVE row'[b].status = "pending" /\ ~backoff'[b]
          OBVIOUS
        <5>1. b \in req[d].todo /\ b \in Commands \ {c}
          BY <3>5, <4>1
        <5> HIDE DEF c
        <5> QED BY <3>1, <3>4, <5>1 DEF SerialInv, BatchIsPending
      <4>3. \A x \in Devices : InPollLoop(x)' => x = d
        BY <1>0, <3>5 DEF InPollLoop
      <4> QED
        BY <3>5, <4>2, <4>3 DEF BatchIsPending
    <3>11. SnapshotsUseful'
      <4>1. rec.cmd # NoCommand => UsefulSnapshot(rec.snap, rec.cmd)'
        BY <3>2, <3>4 DEF SerialInv, SnapshotsUseful, UsefulSnapshot, TypeOK, Passes
      <4> QED BY <1>0, <3>4, <3>5, <4>1 DEF SnapshotsUseful
    <3> QED
      BY <3>6, <3>7, <3>8, <3>9, <3>10, <3>11 DEF SerialInv
  <2>3. CASE PollRateLimited(d) \/ PollNext(d)
    <3>1. /\ UNCHANGED <<row, backoff, rec, sent>>
          /\ InPollLoop(d)
          /\ \A x \in Clients \ {d} : req'[x] = req[x]
          /\ req'[d].op = "loop" /\ req'[d].todo \subseteq req[d].todo
          /\ req'[d].cmd # NoCommand =>
                 req'[d].cmd \in req'[d].todo /\ req'[d].snap = row[req'[d].cmd]
      <4>1. CASE PollRateLimited(d)
        BY <1>0, <4>1 DEF PollRateLimited, IterationDone, Idle, TypeOK
      <4>2. CASE PollNext(d)
        BY <1>0, <4>2 DEF PollNext, IsFirst, InPollLoop, TypeOK, Requests, Handlers
      <4> QED BY <2>3, <4>1, <4>2
    <3>2. \A x \in Clients \ {d} : req[x].op = "idle"
      BY <1>0, <3>1 DEF SerialInv, OneRequestAtATime, InPollLoop
    <3>3. OneRequestAtATime' /\ LeaseConsistent' /\ HandOutsPaid' /\ PassBlocksPolling'
      BY <3>1, <3>2 DEF SerialInv, OneRequestAtATime, LeaseConsistent, Consistent, HandOutsPaid, PassBlocksPolling
    <3>4. BatchIsPending'
      BY <1>0, <3>1, <3>2 DEF SerialInv, BatchIsPending, InPollLoop
    <3>5. SnapshotsUseful'
      BY <1>0, <3>1, <3>2 DEF SerialInv, SnapshotsUseful, UsefulSnapshot
    <3> QED
      BY <3>3, <3>4, <3>5 DEF SerialInv
  <2>4. CASE PollEnd(d)
    BY <1>0, <2>4, Ends DEF PollEnd
  <2> QED
    BY <1>3, <2>1, <2>2, <2>3, <2>4 DEF PollStep
<1>4. ASSUME NEW d \in Devices, AckStep(d) PROVE SerialInv'
  <2>1. ASSUME NEW c \in Commands, NEW s \in AckStatuses, NEW n \in Numbers, AckLoad(d, c, s, n)
        PROVE  SerialInv'
    <3> DEFINE outcome == IF expired[c] THEN "expired" ELSE s
    <3> DEFINE h == Loaded("ack", c, outcome)
    <3>1. outcome \in Outcomes \ {"none"}
      BY DEF Outcomes
    <3>2. h \in Requests
      BY <3>1, LoadedType DEF TypeOK
    <3>3. h.op = "ack" /\ h.cmd = c /\ h.snap = row[c]
      BY DEF Loaded, Idle
    <3>4. UsefulSnapshot(row[c], c)
      BY DEF SerialInv, LeaseConsistent, HandOutsPaid, UsefulSnapshot
    <3>5. CanStart(d) /\ req' = [req EXCEPT ![d] = h] /\ UNCHANGED <<row, backoff, rec, sent>>
      BY <2>1 DEF AckLoad
    <3> HIDE DEF h
    <3> QED
      BY <1>0, <3>2, <3>3, <3>4, <3>5, Taken
  <2>2. CASE AckCommit(d)
    <3> DEFINE c == req[d].cmd
    <3> DEFINE snap == req[d].snap
    <3> DEFINE ack == req[d].ack
    <3> DEFINE new == AckedRow(snap, ack)
    <3> DEFINE retry == Retries(snap, ack)
    <3>1. /\ req[d].op = "ack" /\ c \in Commands /\ snap \in Rows /\ ack \in Outcomes \ {"none"}
          /\ UsefulSnapshot(snap, c)
      BY <1>0, <2>2 DEF AckCommit, SerialInv, SnapshotsUseful, TypeOK, Requests, Handlers
    <3>2. new \in Rows /\ retry \in BOOLEAN
      BY <3>1, RowTypes DEF Retries
    <3>3. /\ new.lease_owner = NoOwner /\ new.lease_until = "none"
          /\ new.status \notin {"dispatched", "absent"}
          /\ retry => new.retry_count = snap.retry_count + 1
          /\ ~retry => new.retry_count = snap.retry_count /\ new.status # "pending"
      BY <3>1 DEF AckedRow, Released, Retries, Rows, Outcomes
    <3>4. /\ row' = [row EXCEPT ![c] = Flush(row[c], snap, new)]
          /\ backoff' = [backoff EXCEPT ![c] = backoff[c] \/ retry]
          /\ req' = [req EXCEPT ![d] = Idle]
          /\ UNCHANGED <<rec, sent>>
      BY <2>2, <3>1 DEF AckCommit, TypeOK
    <3> HIDE DEF new, retry
    <3>5. /\ LeaseConsistent' /\ HandOutsPaid'
          /\ \A b \in Commands :
                 /\ row[b].lease_owner = NoOwner => row'[b].lease_owner = NoOwner
                 /\ row[b].status # "absent" /\ (row[b].status = "pending" => backoff[b])
                        => row'[b].status # "absent" /\ (row'[b].status = "pending" => backoff'[b])
      BY <3>1, <3>2, <3>3, <3>4, ReleaseKeeps
    <3>6. \A x \in Clients : req'[x].op = "idle"
      BY <1>0, <3>1, <3>4 DEF SerialInv, OneRequestAtATime, TypeOK, Idle
    <3>7. OneRequestAtATime' /\ BatchIsPending'
      BY <1>0, <3>6 DEF OneRequestAtATime, BatchIsPending, InPollLoop
    <3>8. PassBlocksPolling'
      BY <3>4, <3>5 DEF SerialInv, PassBlocksPolling
    <3>9. SnapshotsUseful'
      <4>1. rec.cmd # NoCommand => UsefulSnapshot(rec.snap, rec.cmd)'
        BY <3>4, <3>5 DEF SerialInv, SnapshotsUseful, UsefulSnapshot, TypeOK, Passes
      <4> QED BY <1>0, <3>4, <3>6, <4>1 DEF SnapshotsUseful
    <3> QED
      BY <3>5, <3>7, <3>8, <3>9 DEF SerialInv
  <2> QED
    BY <1>4, <2>1, <2>2 DEF AckStep
<1>5. CASE CancelStep
  <2>1. ASSUME NEW c \in Commands, CancelLoad(c) PROVE SerialInv'
    <3> DEFINE h == Loaded("cancel", c, "none")
    <3>1. h \in Requests
      BY LoadedType DEF TypeOK, Outcomes
    <3>2. h.op = "cancel" /\ h.cmd = c
      BY DEF Loaded, Idle
    <3>3. row[c].lease_owner = NoOwner
      BY <2>1 DEF CancelLoad, SerialInv, LeaseConsistent, Consistent
    <3>4. CanStart(Operator) /\ req' = [req EXCEPT ![Operator] = h] /\ UNCHANGED <<row, backoff, rec, sent>>
      BY <2>1 DEF CancelLoad
    <3> HIDE DEF h
    <3> QED
      BY <1>0, <3>1, <3>2, <3>3, <3>4, Taken
  <2>2. CASE CancelCommit
    <3> DEFINE c == req[Operator].cmd
    <3>1. req[Operator].op = "cancel" /\ c \in Commands /\ row[c].lease_owner = NoOwner
      BY <1>0, <2>2 DEF CancelCommit, SerialInv, SnapshotsUseful, TypeOK, Requests, Handlers
    <3>2. /\ \A b \in Commands : row'[b] = IF b = c THEN [row[b] EXCEPT !.status = "cancelled"] ELSE row[b]
          /\ req' = [req EXCEPT ![Operator] = Idle]
          /\ UNCHANGED <<backoff, rec, sent>>
      BY <2>2, <3>1 DEF CancelCommit, TypeOK
    <3>3. \A b \in Commands : /\ row'[b].status = IF b = c THEN "cancelled" ELSE row[b].status
                              /\ row'[b].lease_owner = row[b].lease_owner
                              /\ row'[b].lease_until = row[b].lease_until
                              /\ row'[b].retry_count = row[b].retry_count
      <4> HIDE DEF c
      <4>1. \A b \in Commands : row[b] \in Rows
        BY DEF TypeOK
      <4> QED BY <3>2, <4>1 DEF Rows
    <3>4. row[c].status # "dispatched"
      BY <3>1 DEF SerialInv, LeaseConsistent, Consistent
    <3>5. \A x \in Clients : req'[x].op = "idle"
      BY <1>0, <3>1, <3>2 DEF SerialInv, OneRequestAtATime, TypeOK, Idle
    <3>6. OneRequestAtATime' /\ BatchIsPending'
      BY <1>0, <3>5 DEF OneRequestAtATime, BatchIsPending, InPollLoop
    <3>7. LeaseConsistent' /\ HandOutsPaid' /\ PassBlocksPolling'
      BY <3>2, <3>3, <3>4 DEF SerialInv, LeaseConsistent, Consistent, HandOutsPaid, PassBlocksPolling
    <3>8. SnapshotsUseful'
      <4>1. rec.cmd # NoCommand => UsefulSnapshot(rec.snap, rec.cmd)'
        BY <3>2, <3>3 DEF SerialInv, SnapshotsUseful, UsefulSnapshot, TypeOK, Passes
      <4> QED BY <1>0, <3>2, <3>5, <4>1 DEF SnapshotsUseful
    <3> QED
      BY <3>6, <3>7, <3>8 DEF SerialInv
  <2> QED
    BY <1>5, <2>1, <2>2 DEF CancelStep
<1>6. CASE RecoverStep
  <2>1. CASE RecoverSelect \/ RecoverNext
    <3>1. /\ UNCHANGED <<row, backoff, req, sent>>
          /\ rec'.cmd \in Commands /\ rec'.snap = row[rec'.cmd]
          /\ \A c \in Commands : c = rec'.cmd \/ c \in rec'.todo =>
                 row[c].status # "absent" /\ (row[c].status = "pending" => backoff[c])
      <4>1. CASE RecoverSelect
        BY <4>1 DEF RecoverSelect
      <4>2. CASE RecoverNext
        BY <4>2 DEF RecoverNext, TypeOK, Passes, SerialInv, PassBlocksPolling
      <4> QED BY <2>1, <4>1, <4>2
    <3>2. UsefulSnapshot(rec.snap, rec.cmd)'
      BY <3>1 DEF SerialInv, LeaseConsistent, Consistent, HandOutsPaid, UsefulSnapshot
    <3>3. SnapshotsUseful'
      BY <3>1, <3>2 DEF SerialInv, SnapshotsUseful, UsefulSnapshot
    <3> QED
      BY <3>1, <3>3 DEF SerialInv, OneRequestAtATime, LeaseConsistent, Consistent, HandOutsPaid,
                        PassBlocksPolling, BatchIsPending, InPollLoop
  <2>2. CASE RecoverCommit
    <3> DEFINE c == rec.cmd
    <3> DEFINE snap == rec.snap
    <3> DEFINE new == RecoveredRow(snap)
    <3> DEFINE retry == snap.retry_count < MaxRetries
    <3>1. c # NoCommand /\ c \in Commands /\ snap \in Rows /\ UsefulSnapshot(snap, c)
      BY <2>2 DEF RecoverCommit, SerialInv, SnapshotsUseful, TypeOK, Passes
    <3>2. new \in Rows /\ retry \in BOOLEAN
      <4>1. retry \in BOOLEAN
        BY <3>1 DEF Rows
      <4> QED BY <3>1, <4>1, RowTypes
    <3>3. /\ new.lease_owner = NoOwner /\ new.lease_until = "none"
          /\ new.status \notin {"dispatched", "absent"}
          /\ retry => new.retry_count = snap.retry_count + 1
          /\ ~retry => new.retry_count = snap.retry_count /\ new.status # "pending"
      BY <3>1 DEF RecoveredRow, Released, Rows
    <3>4. /\ row' = [row EXCEPT ![c] = Flush(row[c], snap, new)]
          /\ backoff' = [backoff EXCEPT ![c] = backoff[c] \/ retry]
          /\ UNCHANGED <<req, sent>>
      BY <2>2, <3>1 DEF RecoverCommit, TypeOK
    <3>5. rec'.cmd = NoCommand /\ rec'.todo = rec.todo
      BY <2>2 DEF RecoverCommit, NoPass
    <3>6. row[c].status # "absent" /\ (row[c].status = "pending" => backoff[c])
      BY <3>1 DEF SerialInv, PassBlocksPolling
    <3> HIDE DEF new, retry
    <3>7. /\ LeaseConsistent' /\ HandOutsPaid'
          /\ \A b \in Commands :
                 /\ row[b].lease_owner = NoOwner => row'[b].lease_owner = NoOwner
                 /\ row[b].status # "absent" /\ (row[b].status = "pending" => backoff[b])
                        => row'[b].status # "absent" /\ (row'[b].status = "pending" => backoff'[b])
                 /\ b # c => row'[b] = row[b] /\ backoff'[b] = backoff[b]
      BY <3>1, <3>2, <3>3, <3>4, ReleaseKeeps
    <3>8. PassBlocksPolling'
      <4>1. NoCommand \notin Commands
        BY DEF NoCommand
      <4> QED BY <3>5, <3>7, <4>1 DEF SerialInv, PassBlocksPolling
    <3>9. OneRequestAtATime'
      BY <3>4 DEF SerialInv, OneRequestAtATime
    <3>10. BatchIsPending'
      <4> SUFFICES ASSUME NEW d \in Devices, InPollLoop(d)
                   PROVE  /\ \A b \in req[d].todo : row'[b].status = "pending" /\ ~backoff'[b]
                          /\ req[d].cmd # NoCommand =>
                                 req[d].cmd \in req[d].todo /\ req[d].snap = row'[req[d].cmd]
        BY <3>4 DEF BatchIsPending, InPollLoop
      <4>1. \A b \in req[d].todo : b \in Commands /\ row[b].status = "pending" /\ ~backoff[b]
        BY <1>0 DEF SerialInv, BatchIsPending, TypeOK, Requests, Handlers
      <4>2. ASSUME NEW b \in req[d].todo PROVE row'[b] = row[b] /\ ~backoff'[b]
        <5>1. b \in Commands /\ row[b].status = "pending" /\ ~backoff[b]
          BY <4>1
        <5>2. b # c
          BY <3>6, <5>1
        <5> HIDE DEF c
        <5> QED BY <3>7, <5>1, <5>2
      <4> QED BY <4>1, <4>2 DEF SerialInv, BatchIsPending
    <3>11. SnapshotsUseful'
      <4>1. \A s : \A b \in Commands : UsefulSnapshot(s, b) => UsefulSnapshot(s, b)'
        BY <3>4, <3>7 DEF UsefulSnapshot
      <4>2. \A x \in Clients : req[x].op \in {"ack", "cancel"} => req[x].cmd \in Commands
        BY DEF TypeOK, Requests, Handlers
      <4> QED
        BY <1>0, <3>4, <3>5, <3>7, <4>1, <4>2 DEF SerialInv, SnapshotsUseful
    <3> QED
      BY <3>7, <3>8, <3>9, <3>10, <3>11 DEF SerialInv
  <2> QED
    BY <1>6, <2>1, <2>2 DEF RecoverStep
<1>7. ASSUME NEW x \in Clients, RequestDies(x) PROVE SerialInv'
  BY <1>7, Ends DEF RequestDies
<1>8. CASE \/ \E x \in Clients : ClientRestart(x)
           \/ UNCHANGED vars
  <2>1. UNCHANGED <<row, backoff, req, rec, sent>>
    BY <1>8 DEF ClientRestart, vars
  <2> QED
    BY <2>1 DEF SerialInv, OneRequestAtATime, LeaseConsistent, Consistent, HandOutsPaid, PassBlocksPolling,
                BatchIsPending, InPollLoop, SnapshotsUseful, UsefulSnapshot
<1>9. CASE RecoveryDies
  <2>1. /\ UNCHANGED <<row, backoff, req, sent>>
        /\ rec'.cmd = NoCommand /\ rec'.todo = {}
        /\ NoCommand \notin Commands
    BY <1>9 DEF RecoveryDies, NoPass, NoCommand
  <2> QED
    BY <2>1 DEF SerialInv, OneRequestAtATime, LeaseConsistent, Consistent, HandOutsPaid, PassBlocksPolling,
                BatchIsPending, InPollLoop, SnapshotsUseful, UsefulSnapshot
<1> QED
  <2>1. Collectors = {}
    BY DEF Serial
  <2> QED
    BY <1>1, <1>2, <1>3, <1>4, <1>5, <1>6, <1>7, <1>8, <1>9, <2>1 DEF Next

\* The invariant holds before the first request.
LEMMA SerialInit == Init => SerialInv
BY DEF Init, SerialInv, OneRequestAtATime, LeaseConsistent, Consistent, HandOutsPaid, PassBlocksPolling,
       BatchIsPending, InPollLoop, SnapshotsUseful, AbsentRow, Idle, NoPass, Nothing, Clients, NoCommand

\* With one synchronous worker and no legacy collectors the invariant holds at all
\* times: the batch of a poll stays pending while the recovery job works beside it, a
\* command that the job still wants to visit can not be polled, every hand-out but the
\* first is paid for with a retry, and what an ACK and the job have loaded stays useful.
THEOREM SerialInvariant ==
    Serial => (Spec => []SerialInv)
<1> SUFFICES ASSUME Serial
             PROVE  Spec => []SerialInv
  OBVIOUS
<1>1. Init => SerialInv
  BY SerialInit
<1>2. TypeOK /\ SerialInv /\ [Next]_vars => SerialInv'
  BY SerialStep
<1> QED
  BY <1>1, <1>2, Typing, PTL DEF Spec

\* With one synchronous worker and no legacy collectors, for any number of devices
\* and commands: a command is handed out at most MaxRetries + 1 times, and its
\* status and its lease columns always agree, whatever requests, the recovery job
\* and crashes interleave.
THEOREM SerialSafety ==
    Serial => (Spec => [](HandOutBound /\ LeaseConsistent))
<1> SUFFICES ASSUME Serial
             PROVE  Spec => [](HandOutBound /\ LeaseConsistent)
  OBVIOUS
<1>1. TypeOK /\ SerialInv => HandOutBound /\ LeaseConsistent
  <2> SUFFICES ASSUME TypeOK, SerialInv, NEW c \in Commands PROVE sent[c] <= MaxRetries + 1
    BY DEF SerialInv, HandOutBound
  <2>1. /\ sent[c] \in Nat /\ row[c].retry_count \in Nat /\ row[c].retry_count <= MaxRetries
        /\ sent[c] <= row[c].retry_count + 1
    BY DEF TypeOK, Rows, Numbers, SerialInv, HandOutsPaid
  <2> QED BY <2>1
<1> QED
  BY <1>1, SerialInvariant, Typing, PTL

\* What the steps do to owners and hand-outs: a poll hands a free, pending command
\* to its device, ACKs and the recovery job free commands, and nothing else matters.
LEMMA OwnerSteps ==
    ASSUME Serial, TypeOK, SerialInv, [Next]_vars
    PROVE  \/ \E c \in Commands, d \in Devices :
                  /\ row[c].lease_owner = NoOwner /\ row[c].status = "pending" /\ ~backoff[c]
                  /\ sent[c] <= MaxRetries
                  /\ row'[c].lease_owner = d
                  /\ sent' = [sent EXCEPT ![c] = sent[c] + 1]
                  /\ \A b \in Commands \ {c} : row'[b].lease_owner = row[b].lease_owner
           \/ \E c \in Commands :
                  /\ row'[c].lease_owner = NoOwner
                  /\ \A b \in Commands \ {c} : row'[b].lease_owner = row[b].lease_owner
                  /\ UNCHANGED sent
           \/ /\ \A c \in Commands : row'[c].lease_owner = row[c].lease_owner
              /\ UNCHANGED sent
<1> DEFINE Same == \A c \in Commands : row'[c].lease_owner = row[c].lease_owner
<1> DEFINE Freed == \E c \in Commands :
                        /\ row'[c].lease_owner = NoOwner
                        /\ \A b \in Commands \ {c} : row'[b].lease_owner = row[b].lease_owner
                        /\ UNCHANGED sent
<1>0. \A x \in Devices : x \in Clients
  BY DEF Clients
<1>1. ASSUME NEW c \in Commands, Create(c) \/ TimeStep(c) PROVE Same /\ UNCHANGED sent
  <2>1. CASE Create(c)
    <3>1. row[c].lease_owner = NoOwner
      BY <2>1 DEF Create, SerialInv, LeaseConsistent, Consistent
    <3> QED BY <2>1, <3>1 DEF Create, NewRow, AbsentRow, TypeOK
  <2>2. CASE LeaseLapse(c)
    BY <2>2 DEF LeaseLapse, TypeOK, Rows
  <2>3. CASE BackoffElapse(c) \/ CommandExpire(c)
    BY <2>3 DEF BackoffElapse, CommandExpire
  <2> QED BY <1>1, <2>1, <2>2, <2>3 DEF TimeStep
<1>2. ASSUME NEW d \in Devices, PollDispatch(d)
      PROVE  \E c \in Commands :
                 /\ row[c].lease_owner = NoOwner /\ row[c].status = "pending" /\ ~backoff[c]
                 /\ sent[c] <= MaxRetries
                 /\ row'[c].lease_owner = d
                 /\ sent' = [sent EXCEPT ![c] = sent[c] + 1]
                 /\ \A b \in Commands \ {c} : row'[b].lease_owner = row[b].lease_owner
  <2> DEFINE c == req[d].cmd
  <2>1. c \in Commands /\ req[d].snap = row[c] /\ row[c].status = "pending" /\ ~backoff[c]
    BY <1>0, <1>2 DEF PollDispatch, InPollLoop, SerialInv, BatchIsPending, TypeOK, Requests, Handlers
  <2>2. row[c].lease_owner = NoOwner /\ sent[c] <= row[c].retry_count
    <3> HIDE DEF c
    <3> QED BY <2>1 DEF SerialInv, LeaseConsistent, Consistent, HandOutsPaid
  <2>3. sent[c] <= MaxRetries
    <3> HIDE DEF c
    <3>1. row[c].retry_count \in Nat /\ row[c].retry_count <= MaxRetries /\ sent[c] \in Nat
      BY <2>1 DEF TypeOK, Rows, Numbers
    <3> QED BY <2>2, <3>1
  <2>4. /\ sent' = [sent EXCEPT ![c] = sent[c] + 1]
        /\ row'[c].lease_owner = d
        /\ \A b \in Commands \ {c} : row'[b].lease_owner = row[b].lease_owner
    BY <1>0, <1>2, <2>1, <2>2 DEF PollDispatch, Flush, Net, Leased, TypeOK, Rows
  <2> QED BY <2>1, <2>2, <2>3, <2>4
<1>3. ASSUME NEW d \in Devices,
             PollSelect(d) \/ PollRateLimited(d) \/ PollNext(d) \/ PollEnd(d)
      PROVE  Same /\ UNCHANGED sent
  BY <1>3 DEF PollSelect, PollRateLimited, PollNext, PollEnd
<1>4. ASSUME NEW d \in Devices, AckStep(d) PROVE Freed \/ (Same /\ UNCHANGED sent)
  <2>1. CASE AckCommit(d)
    <3> DEFINE c == req[d].cmd
    <3> DEFINE snap == req[d].snap
    <3>1. c \in Commands /\ UsefulSnapshot(snap, c)
      BY <1>0, <2>1 DEF AckCommit, SerialInv, SnapshotsUseful, TypeOK, Requests, Handlers
    <3>2. snap \in Rows /\ row[c] \in Rows
      BY <1>0, <3>1 DEF TypeOK, Requests, Handlers
    <3>3. AckedRow(snap, req[d].ack).lease_owner = NoOwner
      BY <3>2 DEF AckedRow, Released, Rows
    <3>4. /\ row' = [row EXCEPT ![c] = Flush(row[c], snap, AckedRow(snap, req[d].ack))]
          /\ UNCHANGED sent
      BY <2>1, <3>1 DEF AckCommit
    <3>5. Flush(row[c], snap, AckedRow(snap, req[d].ack)).lease_owner = NoOwner
      BY <3>1, <3>3 DEF Flush, Net, UsefulSnapshot
    <3> QED BY <3>1, <3>4, <3>5 DEF TypeOK
  <2>2. CASE ~AckCommit(d)
    BY <1>4, <2>2 DEF AckStep, AckLoad
  <2> QED BY <2>1, <2>2
<1>5. ASSUME CancelStep PROVE Same /\ UNCHANGED sent
  <2>1. CASE CancelCommit
    BY <2>1 DEF CancelCommit, TypeOK, Rows
  <2>2. CASE ~CancelCommit
    BY <1>5, <2>2 DEF CancelStep, CancelLoad
  <2> QED BY <2>1, <2>2
<1>6. ASSUME RecoverStep PROVE Freed \/ (Same /\ UNCHANGED sent)
  <2>1. CASE RecoverCommit
    <3>1. rec.cmd \in Commands /\ UsefulSnapshot(rec.snap, rec.cmd)
      BY <2>1 DEF RecoverCommit, SerialInv, SnapshotsUseful, TypeOK, Passes
    <3>2. rec.snap \in Rows /\ row[rec.cmd] \in Rows
      BY <3>1 DEF TypeOK, Passes
    <3>3. RecoveredRow(rec.snap).lease_owner = NoOwner
      BY <3>2 DEF RecoveredRow, Released, Rows
    <3>4. /\ row' = [row EXCEPT ![rec.cmd] = Flush(row[rec.cmd], rec.snap, RecoveredRow(rec.snap))]
          /\ UNCHANGED sent
      BY <2>1, <3>1 DEF RecoverCommit
    <3>5. Flush(row[rec.cmd], rec.snap, RecoveredRow(rec.snap)).lease_owner = NoOwner
      BY <3>1, <3>3 DEF Flush, Net, UsefulSnapshot
    <3> QED BY <3>1, <3>4, <3>5 DEF TypeOK
  <2>2. CASE ~RecoverCommit
    BY <1>6, <2>2 DEF RecoverStep, RecoverSelect, RecoverNext
  <2> QED BY <2>1, <2>2
<1>7. ASSUME NEW x \in Clients, RequestDies(x) \/ ClientRestart(x) PROVE Same /\ UNCHANGED sent
  BY <1>7 DEF RequestDies, ClientRestart
<1>8. ASSUME RecoveryDies \/ UNCHANGED vars PROVE Same /\ UNCHANGED sent
  BY <1>8 DEF RecoveryDies, vars
<1> HIDE DEF Same, Freed
<1>9. \/ \E d \in Devices : PollDispatch(d)
      \/ Freed
      \/ Same /\ UNCHANGED sent
  <2>1. Collectors = {}
    BY DEF Serial
  <2>2. CASE UNCHANGED vars
    BY <1>8, <2>2
  <2>3. CASE Next
    BY <1>1, <1>3, <1>4, <1>5, <1>6, <1>7, <1>8, <2>1, <2>3 DEF Next, PollStep
  <2> QED BY <2>2, <2>3
<1>10. CASE \E d \in Devices : PollDispatch(d)
  BY <1>2, <1>10
<1>11. CASE Freed \/ (Same /\ UNCHANGED sent)
  BY <1>11 DEF Freed, Same
<1> QED
  BY <1>9, <1>10, <1>11

\* Under the same conditions the rows implement the exclusive lease of
\* ExclusiveLease.tla: a lease is given up before it is granted again, and granted
\* at most MaxRetries + 1 times.
THEOREM SerialRefinement ==
    Serial => (Spec => LeaseSpec)
<1> SUFFICES ASSUME Serial
             PROVE  Spec => LeaseSpec
  OBVIOUS
<1> DEFINE Holder == [c \in Commands |-> row[c].lease_owner]
<1>1. Init => Lease!Init
  BY DEF Init, Lease!Init, AbsentRow, Nothing
<1>2. ASSUME TypeOK, SerialInv, [Next]_vars
      PROVE  [Lease!Next]_Lease!lease
  <2>1. sent \in [Commands -> Nat] /\ sent' \in [Commands -> Nat]
    BY <1>2, TypingStep DEF TypeOK, Numbers
  <2>2. ASSUME NEW c \in Commands, NEW d \in Devices,
               row[c].lease_owner = NoOwner, sent[c] <= MaxRetries,
               row'[c].lease_owner = d,
               sent' = [sent EXCEPT ![c] = sent[c] + 1],
               \A b \in Commands \ {c} : row'[b].lease_owner = row[b].lease_owner
        PROVE  Lease!Grant(c, d)
    <3>1. \A b \in Commands : row'[b].lease_owner = IF b = c THEN d ELSE row[b].lease_owner
      BY <2>2
    <3>2. Holder' = [Holder EXCEPT ![c] = d]
      BY <3>1
    <3>3. Holder[c] = NoOwner
      BY <2>2
    <3> QED BY <2>2, <3>2, <3>3 DEF Lease!Grant
  <2>3. ASSUME NEW c \in Commands, row'[c].lease_owner = NoOwner,
               \A b \in Commands \ {c} : row'[b].lease_owner = row[b].lease_owner,
               UNCHANGED sent
        PROVE  Lease!GiveUp(c) \/ UNCHANGED Lease!lease
    <3>1. Holder' = [Holder EXCEPT ![c] = NoOwner]
      BY <2>3
    <3>2. CASE Holder[c] # NoOwner
      BY <2>3, <3>1, <3>2 DEF Lease!GiveUp
    <3>3. CASE Holder[c] = NoOwner
      BY <2>3, <3>3 DEF Lease!lease
    <3> QED BY <3>2, <3>3
  <2>4. ASSUME \A c \in Commands : row'[c].lease_owner = row[c].lease_owner, UNCHANGED sent
        PROVE  UNCHANGED Lease!lease
    BY <2>4 DEF Lease!lease
  <2> QED
    BY <1>2, <2>2, <2>3, <2>4, OwnerSteps DEF Lease!Next
<1> QED
  BY <1>1, <1>2, SerialInvariant, Typing, PTL DEF Spec, LeaseSpec, Lease!Spec

\* Under the same conditions nobody is handed a command that is leased or ended,
\* without the exception that HandedOutWhenPending makes for fetches.
THEOREM SerialHandOuts ==
    Serial => (Spec => [][\A c \in Commands : sent'[c] # sent[c] => row[c].status = "pending"]_vars)
<1> SUFFICES ASSUME Serial
             PROVE  Spec => [][\A c \in Commands : sent'[c] # sent[c] => row[c].status = "pending"]_vars
  OBVIOUS
<1>1. ASSUME TypeOK, SerialInv, [Next]_vars
      PROVE  [\A c \in Commands : sent'[c] # sent[c] => row[c].status = "pending"]_vars
  BY <1>1, OwnerSteps DEF TypeOK
<1> QED
  BY <1>1, SerialInvariant, Typing, PTL DEF Spec

\* Under the same conditions nobody is handed a command before the back-off of its
\* last failure is over.
THEOREM SerialBackoff ==
    Serial => (Spec => BackoffRespected)
<1> SUFFICES ASSUME Serial
             PROVE  Spec => BackoffRespected
  OBVIOUS
<1>1. ASSUME TypeOK, SerialInv, [Next]_vars
      PROVE  [\A c \in Commands : sent'[c] # sent[c] => ~backoff[c]]_vars
  BY <1>1, OwnerSteps DEF TypeOK
<1> QED
  BY <1>1, SerialInvariant, Typing, PTL DEF Spec, BackoffRespected

-----------------------------------------------------------------------------
(* One synchronous worker, with any number of collectors.                   *)

\* The statuses that commits write.
LEMMA RowStatuses ==
    ASSUME NEW snap \in Rows
    PROVE  /\ \A s \in Outcomes \ {"none"} :
                  /\ s \notin {"absent", "pending"}
                  /\ AckedRow(snap, s).status = IF Retries(snap, s) THEN "pending" ELSE s
           /\ RecoveredRow(snap).status = IF snap.retry_count < MaxRetries THEN "pending" ELSE "failed"
           /\ \A d \in Devices, n \in Numbers : Leased(snap, d, n).status = "dispatched"
<1>1. Released(snap) \in Rows
  BY DEF Released, Rows
<1>2. \A s \in Outcomes \ {"none"} : s \notin {"absent", "pending"}
  BY DEF Outcomes
<1> QED
  BY <1>1, <1>2 DEF AckedRow, RecoveredRow, Leased, Rows

\* What is written is what the row had, or what the handler made of the row it loaded.
LEMMA FlushStatus ==
    ASSUME NEW cur \in Rows, NEW snap \in Rows, NEW new \in Rows
    PROVE  /\ Flush(cur, snap, new).status \in {cur.status, new.status}
           /\ new.status # snap.status => Flush(cur, snap, new).status = new.status
BY DEF Flush, Net

\* The worker's request goes on, or ends.
LEMMA RequestMoves ==
    ASSUME NEW x \in Clients, Promising(req[x])',
           \A y \in Clients \ {x} : req'[y].op = "idle"
    PROVE  OneRequestAtATime' /\ \A y \in Clients : Promising(req[y])'
BY DEF OneRequestAtATime, Promising

\* While it is under way there is no other one.
LEMMA OthersIdle ==
    ASSUME OneRequestAtATime, NEW x \in Clients, req[x].op # "idle"
    PROVE  \A y \in Clients \ {x} : req[y].op = "idle"
BY DEF OneRequestAtATime

\* A step that only changes what one request has loaded.
LEMMA RequestOnly ==
    ASSUME TypeOK, TurnsInv, NEW x \in Clients, NEW h \in Requests,
           \A y \in Clients \ {x} : req[y].op = "idle",
           req' = [req EXCEPT ![x] = h], UNCHANGED <<row, backoff, rec>>,
           Promising(h)
    PROVE  TurnsInv'
<1>1. req'[x] = h /\ \A y \in Clients \ {x} : req'[y] = req[y]
  BY DEF TypeOK
<1>2. Promising(req[x])'
  BY <1>1 DEF Promising
<1>3. PassBlocksPolling'
  BY DEF TurnsInv, PassBlocksPolling
<1> QED
  BY <1>1, <1>2, <1>3, RequestMoves DEF TurnsInv

LEMMA IdlePromises == Idle \in Requests /\ Idle.op = "idle" /\ Promising(Idle)
BY IdleType DEF Idle, Promising

\* The commit of a request that ends with it.
LEMMA CommitEnds ==
    ASSUME TypeOK, TurnsInv, NEW x \in Clients, req[x].op # "idle",
           req' = [req EXCEPT ![x] = Idle], UNCHANGED rec, PassBlocksPolling'
    PROVE  TurnsInv'
<1>1. req'[x] = Idle /\ \A y \in Clients \ {x} : req'[y] = req[y]
  BY DEF TypeOK
<1>2. \A y \in Clients \ {x} : req[y].op = "idle"
  BY OthersIdle DEF TurnsInv
<1>3. Promising(req[x])'
  BY <1>1, IdlePromises DEF Promising
<1> QED
  BY <1>1, <1>2, <1>3, RequestMoves, IdlePromises DEF TurnsInv

\* A commit on one row blocks polling as long as the recovery job wants to visit it.
LEMMA PassStillBlocks ==
    ASSUME TypeOK, TurnsInv, NEW c \in Commands,
           \A b \in Commands \ {c} : row'[b].status = row[b].status,
           \A b \in Commands : backoff[b] => backoff'[b],
           UNCHANGED rec,
           row[c].status # "absent" => row'[c].status # "absent",
           row'[c].status = "pending" => row[c].status = "pending" \/ backoff'[c]
    PROVE  PassBlocksPolling'
BY DEF TurnsInv, PassBlocksPolling

\* What a step may do to a command, in the words of HandedOutWhenPending and of
\* RevivedByRaceOnly.
Allowed(c) ==
    /\ sent'[c] # sent[c] => row[c].status = "pending" \/ FailedInFetch(c)
    /\ Ended(row[c]) /\ ~Ended(row'[c]) =>
           \/ rec.cmd = c /\ rec'.cmd # c
           \/ \E d \in Devices : req[d].op = "ack" /\ req[d].cmd = c /\ ~Ended(req[d].snap)
           \/ FailedInFetch(c) /\ sent'[c] # sent[c]

LEMMA PollTurns ==
    ASSUME Workers = 1, TypeOK, TurnsInv, NEW d \in Devices, PollStep(d)
    PROVE  TurnsInv' /\ \A c \in Commands : Allowed(c)
<1>0. d \in Clients
  BY DEF Clients
<1>1. CASE PollSelect(d)
  <2>1. PICK batch \in SUBSET Commands, c \in Commands :
             /\ CanStart(d) /\ IsFirst(c, batch)
             /\ \A b \in batch : Pollable(b)
             /\ req' = [req EXCEPT ![d] = [Idle EXCEPT !.op = "select", !.todo = batch,
                                                      !.cmd = c, !.snap = row[c]]]
             /\ UNCHANGED <<row, backoff, rec, sent>>
    <3> DEFINE due == {c \in Commands : Pollable(c) /\ ~Locked(c, d)}
    <3>1. /\ FirstN(due, 2 * PollLimit) \in SUBSET Commands
          /\ \A b \in FirstN(due, 2 * PollLimit) : Pollable(b)
      BY DEF FirstN
    <3> QED
      BY <1>1, <3>1 DEF PollSelect
  <2> DEFINE h == [Idle EXCEPT !.op = "select", !.todo = batch, !.cmd = c, !.snap = row[c]]
  <2>2. h \in Requests
    BY IdleType DEF TypeOK, Requests, Handlers, Ops
  <2>3. h.op = "select" /\ h.todo = batch /\ h.cmd = c /\ h.snap = row[c]
    BY DEF Idle
  <2>4. req' = [req EXCEPT ![d] = h]
    BY <2>1
  <2> HIDE DEF h
  <2>5. Promising(h)
    BY <2>1, <2>3 DEF Promising, Pollable, IsFirst
  <2>6. \A y \in Clients : req[y].op = "idle"
    BY <1>0, <2>1, AllIdle
  <2>7. TurnsInv'
    BY <1>0, <2>1, <2>2, <2>4, <2>5, <2>6, RequestOnly
  <2> QED
    BY <2>1, <2>7 DEF Allowed
<1>2. CASE PollDispatch(d)
  <2> DEFINE c == req[d].cmd
  <2>1. /\ InPollLoop(d) /\ c \in Commands /\ c \in req[d].todo
        /\ req[d].snap \in Rows /\ req[d].snap.status = "pending"
        /\ row[c].status = "pending" /\ ~backoff[c]
        /\ req[d].todo \subseteq Commands
    BY <1>0, <1>2 DEF PollDispatch, InPollLoop, TurnsInv, Promising, TypeOK, Requests, Handlers
  <2>2. sent[c] + 1 \in Numbers
    BY <1>2, <2>1 DEF PollDispatch, TypeOK, Numbers
  <2>3. row'[c].status = "dispatched"
    <3> DEFINE new == Leased(req[d].snap, d, sent[c] + 1)
    <3>1. new \in Rows /\ new.status = "dispatched"
      BY <2>1, <2>2, RowTypes, RowStatuses
    <3>2. row[c] \in Rows
      BY <2>1 DEF TypeOK
    <3> DEFINE f == Flush(row[c], req[d].snap, new)
    <3>3. f \in Rows /\ f.status = "dispatched"
      <4> HIDE DEF new, c
      <4>1. new.status # req[d].snap.status
        BY <2>1, <3>1
      <4>2. req[d].snap \in Rows /\ row[c] \in Rows /\ new \in Rows
        BY <2>1, <3>1, <3>2
      <4>3. f \in Rows
        BY <4>2, FlushType
      <4>4. f.status = new.status
        BY <4>1, <4>2, FlushStatus
      <4> QED
        BY <3>1, <4>3, <4>4
    <3>4. row' = [row EXCEPT ![c] = [f EXCEPT !.lease_until = "live"]]
      BY <1>2, <2>1 DEF PollDispatch, TypeOK
    <3> HIDE DEF f, c
    <3> QED
      BY <2>1, <3>3, <3>4 DEF TypeOK, Rows
  <2>4. /\ \A b \in Commands \ {c} : row'[b] = row[b] /\ sent'[b] = sent[b]
        /\ UNCHANGED <<backoff, rec>>
    BY <1>2, <2>1 DEF PollDispatch, TypeOK
  <2>5. /\ \A x \in Clients \ {d} : req'[x] = req[x] /\ req[x].op = "idle"
        /\ req'[d].op = "loop" /\ req'[d].cmd = NoCommand
        /\ req'[d].todo = req[d].todo \ {c}
    BY <1>0, <1>2, <2>1 DEF PollDispatch, IterationDone, InPollLoop, TurnsInv,
                            OneRequestAtATime, TypeOK, Idle
  <2> HIDE DEF c
  <2>6. Promising(req[d])'
    <3>1. \A b \in req[d].todo : row[b].status = "pending" /\ ~backoff[b]
      BY <1>0, <2>1 DEF TurnsInv, Promising, InPollLoop
    <3>2. \A b \in req'[d].todo : row'[b].status = "pending" /\ ~backoff'[b]
      BY <2>1, <2>4, <2>5, <3>1
    <3> QED
      BY <2>5, <3>2 DEF Promising
  <2>7. PassBlocksPolling'
    BY <2>1, <2>3, <2>4, PassStillBlocks
  <2>8. TurnsInv'
    BY <1>0, <2>5, <2>6, <2>7, RequestMoves DEF TurnsInv
  <2>9. ASSUME NEW b \in Commands PROVE Allowed(b)
    BY <2>1, <2>4 DEF Allowed, Ended, TERMINAL_STATES
  <2> QED
    BY <2>8, <2>9
<1>3. CASE PollRateLimited(d) \/ PollNext(d)
  <2>1. /\ UNCHANGED <<row, backoff, rec, sent>>
        /\ InPollLoop(d)
        /\ \A x \in Clients \ {d} : req'[x] = req[x]
        /\ req'[d].op = "loop" /\ req'[d].todo \subseteq req[d].todo
        /\ req'[d].cmd # NoCommand =>
               req'[d].cmd \in req'[d].todo /\ req'[d].snap = row[req'[d].cmd]
    <3>1. CASE PollRateLimited(d)
      BY <1>0, <3>1 DEF PollRateLimited, IterationDone, Idle, TypeOK
    <3>2. CASE PollNext(d)
      BY <1>0, <3>2 DEF PollNext, IsFirst, InPollLoop, TypeOK, Requests, Handlers
    <3> QED BY <1>3, <3>1, <3>2
  <2>2. \A x \in Clients \ {d} : req[x].op = "idle"
    BY <1>0, <2>1, OthersIdle DEF TurnsInv, InPollLoop
  <2>3. Promising(req[d])'
    BY <1>0, <2>1 DEF TurnsInv, Promising, InPollLoop
  <2>4. PassBlocksPolling'
    BY <2>1 DEF TurnsInv, PassBlocksPolling
  <2> QED
    BY <1>0, <2>1, <2>2, <2>3, <2>4, RequestMoves DEF TurnsInv, Allowed
<1>4. CASE PollEnd(d)
  <2>1. /\ req[d].op # "idle" /\ req' = [req EXCEPT ![d] = Idle]
        /\ UNCHANGED <<row, backoff, rec, sent>>
    BY <1>4 DEF PollEnd
  <2>2. PassBlocksPolling'
    BY <2>1 DEF TurnsInv, PassBlocksPolling
  <2> QED
    BY <1>0, <2>1, <2>2, CommitEnds DEF Allowed
<1> QED
  BY <1>1, <1>2, <1>3, <1>4 DEF PollStep

\* What a commit of the row that was loaded does to its status.
LEMMA FlushOn ==
    ASSUME TypeOK, NEW c \in Commands, NEW snap \in Rows, NEW new \in Rows,
           row' = [row EXCEPT ![c] = Flush(row[c], snap, new)]
    PROVE  /\ row'[c].status \in {row[c].status, new.status}
           /\ new.status # snap.status => row'[c].status = new.status
           /\ \A b \in Commands \ {c} : row'[b] = row[b]
<1>1. row'[c] = Flush(row[c], snap, new) /\ \A b \in Commands \ {c} : row'[b] = row[b]
  BY DEF TypeOK
<1>2. row[c] \in Rows
  BY DEF TypeOK
<1> QED
  BY <1>1, <1>2, FlushStatus

LEMMA AckTurns ==
    ASSUME Workers = 1, TypeOK, TurnsInv, NEW d \in Devices, AckStep(d)
    PROVE  TurnsInv' /\ \A c \in Commands : Allowed(c)
<1>0. d \in Clients
  BY DEF Clients
<1>1. ASSUME NEW c \in Commands, NEW s \in AckStatuses, NEW n \in Numbers, AckLoad(d, c, s, n)
      PROVE  TurnsInv' /\ \A b \in Commands : Allowed(b)
  <2> DEFINE outcome == IF expired[c] THEN "expired" ELSE s
  <2> DEFINE h == Loaded("ack", c, outcome)
  <2>1. outcome \in Outcomes \ {"none"}
    BY DEF Outcomes
  <2>2. h \in Requests
    BY <2>1, LoadedType DEF TypeOK
  <2>3. h.op = "ack" /\ h.snap = row[c]
    BY DEF Loaded, Idle
  <2>4. /\ req' = [req EXCEPT ![d] = h] /\ UNCHANGED <<row, backoff, rec, sent>>
        /\ CanStart(d) /\ ~Ended(row[c])
    BY <1>1 DEF AckLoad, AckAccepted, Ended
  <2> HIDE DEF h
  <2>5. Promising(h)
    BY <2>3, <2>4 DEF Promising
  <2>6. \A y \in Clients : req[y].op = "idle"
    BY <1>0, <2>4, AllIdle
  <2>7. TurnsInv'
    BY <1>0, <2>2, <2>4, <2>5, <2>6, RequestOnly
  <2> QED
    BY <2>4, <2>7 DEF Allowed
<1>2. CASE AckCommit(d)
  <2> DEFINE c == req[d].cmd
  <2> DEFINE snap == req[d].snap
  <2> DEFINE new == AckedRow(snap, req[d].ack)
  <2>1. /\ c \in Commands /\ snap \in Rows /\ req[d].ack \in Outcomes \ {"none"}
        /\ req[d].op = "ack" /\ ~Ended(snap)
    BY <1>0, <1>2 DEF AckCommit, TurnsInv, Promising, TypeOK, Requests, Handlers
  <2>2. /\ new \in Rows
        /\ new.status = IF Retries(snap, req[d].ack) THEN "pending" ELSE req[d].ack
        /\ req[d].ack \notin {"absent", "pending"}
    BY <2>1, RowTypes, RowStatuses
  <2>3. /\ row' = [row EXCEPT ![c] = Flush(row[c], snap, new)]
        /\ req' = [req EXCEPT ![d] = Idle] /\ UNCHANGED <<rec, sent>>
        /\ \A b \in Commands : backoff[b] => backoff'[b]
        /\ Retries(snap, req[d].ack) => backoff'[c]
    BY <1>2, <2>1 DEF AckCommit, TypeOK
  <2> HIDE DEF new
  <2>4. row'[c].status \in {row[c].status, new.status} /\ \A b \in Commands \ {c} : row'[b] = row[b]
    BY <2>1, <2>2, <2>3, FlushOn
  <2>5. PassBlocksPolling'
    <3> HIDE DEF c, snap
    <3> QED
      BY <2>1, <2>2, <2>3, <2>4, PassStillBlocks
  <2>6. TurnsInv'
    BY <1>0, <2>1, <2>3, <2>5, CommitEnds
  <2>7. ASSUME NEW b \in Commands PROVE Allowed(b)
    BY <2>1, <2>3, <2>4 DEF Allowed
  <2> QED
    BY <2>6, <2>7
<1> QED
  BY <1>1, <1>2 DEF AckStep

LEMMA CollectorTurns ==
    ASSUME Workers = 1, TypeOK, TurnsInv, NEW k \in Collectors, FetchStep(k) \/ ReportStep(k)
    PROVE  TurnsInv' /\ \A c \in Commands : Allowed(c)
<1>0. k \in Clients
  BY DEF Clients
<1>1. CASE FetchExpire(k)
  <2>1. /\ CanStart(k) /\ UNCHANGED <<backoff, rec, sent>>
        /\ req' = [req EXCEPT ![k] = [Idle EXCEPT !.op = "expire"]]
        /\ \A c \in Commands : \/ row'[c] = row[c]
                               \/ row[c].status = "pending" /\ row'[c].status = "expired"
    <3>1. \A r \in Rows : [r EXCEPT !.status = "expired"].status = "expired"
      BY DEF Rows
    <3>2. \A c \in Commands : row[c] \in Rows
      BY DEF TypeOK
    <3> QED
      BY <1>1, <3>1, <3>2 DEF FetchExpire
  <2>2. \A y \in Clients : req[y].op = "idle"
    BY <1>0, <2>1, AllIdle
  <2>3. Promising(req[k])'
    BY <1>0, <2>1 DEF Promising, TypeOK, Idle
  <2>4. \A y \in Clients \ {k} : req'[y].op = "idle"
    BY <2>1, <2>2 DEF TypeOK
  <2>5. PassBlocksPolling'
    BY <2>1 DEF TurnsInv, PassBlocksPolling
  <2> QED
    BY <1>0, <2>1, <2>3, <2>4, <2>5, RequestMoves DEF TurnsInv, Allowed, Ended, TERMINAL_STATES
<1>2. CASE FetchSelect(k)
  <2> DEFINE batch == {c \in Commands : row[c].status = "pending" /\ ~expired[c]}
  <2>1. /\ req[k].op = "expire" /\ UNCHANGED <<row, backoff, rec, sent>>
        /\ \/ req' = [req EXCEPT ![k] = Idle]
           \/ req' = [req EXCEPT ![k] = [Idle EXCEPT !.op = "fetch", !.todo = batch]]
    BY <1>2 DEF FetchSelect
  <2>2. Promising(req[k])'
    <3>1. CASE req' = [req EXCEPT ![k] = Idle]
      BY <1>0, <3>1, IdlePromises DEF Promising, TypeOK
    <3>2. CASE req' = [req EXCEPT ![k] = [Idle EXCEPT !.op = "fetch", !.todo = batch]]
      <4>1. req'[k].op = "fetch" /\ req'[k].todo = batch
        BY <1>0, <3>2 DEF TypeOK, Idle
      <4>2. \A c \in batch : row'[c].status = "pending"
        BY <2>1
      <4> HIDE DEF batch
      <4> QED
        BY <4>1, <4>2 DEF Promising
    <3> QED
      BY <2>1, <3>1, <3>2
  <2>3. \A y \in Clients \ {k} : req'[y] = req[y] /\ req[y].op = "idle"
    BY <1>0, <2>1, OthersIdle DEF TurnsInv, TypeOK
  <2>4. PassBlocksPolling'
    BY <2>1 DEF TurnsInv, PassBlocksPolling
  <2> QED
    BY <1>0, <2>1, <2>2, <2>3, <2>4, RequestMoves DEF TurnsInv, Allowed
<1>3. CASE FetchCommit(k)
  <2>1. /\ req[k].op = "fetch" /\ UNCHANGED <<backoff, rec>>
        /\ req' = [req EXCEPT ![k] = Idle]
        /\ \A c \in Commands : /\ c \in req[k].todo =>
                                     row'[c].status = "sent" /\ sent'[c] = sent[c] + 1
                               /\ c \notin req[k].todo => row'[c] = row[c] /\ sent'[c] = sent[c]
    BY <1>3 DEF FetchCommit, TypeOK, Rows
  <2>2. \A c \in req[k].todo : row[c].status \in {"pending", "failed"}
    BY <1>0, <2>1 DEF TurnsInv, Promising
  <2>3. PassBlocksPolling'
    BY <2>1 DEF TurnsInv, PassBlocksPolling
  <2>4. TurnsInv'
    BY <1>0, <2>1, <2>3, CommitEnds
  <2>5. ASSUME NEW c \in Commands PROVE Allowed(c)
    <3>1. sent[c] \in Nat
      BY DEF TypeOK, Numbers
    <3>2. CASE c \in req[k].todo
      <4>1. row[c].status = "pending" \/ FailedInFetch(c)
        BY <2>1, <2>2, <3>2 DEF FailedInFetch
      <4>2. sent'[c] # sent[c]
        <5>1. sent'[c] = sent[c] + 1
          BY <2>1, <3>2
        <5> QED
          BY <3>1, <5>1
      <4> QED
        BY <4>1, <4>2 DEF Allowed, Ended, TERMINAL_STATES
    <3>3. CASE c \notin req[k].todo
      BY <2>1, <3>3 DEF Allowed
    <3> QED BY <3>2, <3>3
  <2> QED
    BY <2>4, <2>5
<1>4. ASSUME NEW c \in Commands, NEW s \in {"completed", "failed"}, ReportLoad(k, c, s)
      PROVE  TurnsInv' /\ \A b \in Commands : Allowed(b)
  <2> DEFINE h == Loaded("report", c, s)
  <2>1. s \in Outcomes /\ s # "none"
    BY DEF Outcomes
  <2>2. h \in Requests
    BY <2>1, LoadedType DEF TypeOK
  <2>3. h.op = "report" /\ h.ack = s
    BY DEF Loaded, Idle
  <2>4. /\ req' = [req EXCEPT ![k] = h] /\ UNCHANGED <<row, backoff, rec, sent>>
        /\ CanStart(k)
    BY <1>4 DEF ReportLoad
  <2> HIDE DEF h
  <2>5. Promising(h)
    BY <2>3 DEF Promising
  <2>6. \A y \in Clients : req[y].op = "idle"
    BY <1>0, <2>4, AllIdle
  <2>7. TurnsInv'
    BY <1>0, <2>2, <2>4, <2>5, <2>6, RequestOnly
  <2> QED
    BY <2>4, <2>7 DEF Allowed
<1>5. CASE ReportCommit(k)
  <2> DEFINE c == req[k].cmd
  <2>1. /\ c \in Commands /\ req[k].op = "report"
        /\ req[k].ack \in {"completed", "failed"}
    BY <1>0, <1>5 DEF ReportCommit, TurnsInv, Promising, TypeOK, Requests, Handlers
  <2>2. /\ row'[c].status \in {row[c].status, req[k].ack}
        /\ \A b \in Commands \ {c} : row'[b] = row[b]
        /\ req' = [req EXCEPT ![k] = Idle] /\ UNCHANGED <<backoff, rec, sent>>
    <3>1. row[c] \in Rows
      BY <2>1 DEF TypeOK
    <3> QED
      BY <1>5, <2>1, <3>1 DEF ReportCommit, TypeOK, Net, Rows
  <2>3. PassBlocksPolling'
    <3> HIDE DEF c
    <3> QED
      BY <2>1, <2>2, PassStillBlocks
  <2>4. TurnsInv'
    BY <1>0, <2>1, <2>2, <2>3, CommitEnds
  <2>5. ASSUME NEW b \in Commands PROVE Allowed(b)
    <3> HIDE DEF c
    <3> QED
      BY <2>1, <2>2 DEF Allowed, Ended, TERMINAL_STATES
  <2> QED
    BY <2>4, <2>5
<1> QED
  BY <1>1, <1>2, <1>3, <1>4, <1>5 DEF FetchStep, ReportStep

LEMMA CancelTurns ==
    ASSUME Workers = 1, TypeOK, TurnsInv, CancelStep
    PROVE  TurnsInv' /\ \A c \in Commands : Allowed(c)
<1>0. Operator \in Clients
  BY DEF Clients
<1>1. ASSUME NEW c \in Commands, CancelLoad(c)
      PROVE  TurnsInv' /\ \A b \in Commands : Allowed(b)
  <2> DEFINE h == Loaded("cancel", c, "none")
  <2>1. "none" \in Outcomes
    BY DEF Outcomes
  <2>2. h \in Requests
    BY <2>1, LoadedType DEF TypeOK
  <2>3. h.op = "cancel"
    BY DEF Loaded, Idle
  <2>4. /\ req' = [req EXCEPT ![Operator] = h] /\ UNCHANGED <<row, backoff, rec, sent>>
        /\ CanStart(Operator)
    BY <1>1 DEF CancelLoad
  <2> HIDE DEF h
  <2>5. Promising(h)
    BY <2>3 DEF Promising
  <2>6. \A y \in Clients : req[y].op = "idle"
    BY <1>0, <2>4, AllIdle
  <2>7. TurnsInv'
    BY <1>0, <2>2, <2>4, <2>5, <2>6, RequestOnly
  <2> QED
    BY <2>4, <2>7 DEF Allowed
<1>2. CASE CancelCommit
  <2> DEFINE c == req[Operator].cmd
  <2>1. c \in Commands /\ req[Operator].op = "cancel"
    BY <1>0, <1>2 DEF CancelCommit, TypeOK, Requests, Handlers
  <2>2. /\ row'[c].status = "cancelled"
        /\ \A b \in Commands \ {c} : row'[b] = row[b]
        /\ req' = [req EXCEPT ![Operator] = Idle] /\ UNCHANGED <<backoff, rec, sent>>
    <3>1. row[c] \in Rows
      BY <2>1 DEF TypeOK
    <3> QED
      BY <1>2, <2>1, <3>1 DEF CancelCommit, TypeOK, Rows
  <2>3. PassBlocksPolling'
    <3> HIDE DEF c
    <3> QED
      BY <2>1, <2>2, PassStillBlocks
  <2>4. TurnsInv'
    BY <1>0, <2>1, <2>2, <2>3, CommitEnds
  <2>5. ASSUME NEW b \in Commands PROVE Allowed(b)
    <3> HIDE DEF c
    <3> QED
      BY <2>1, <2>2 DEF Allowed, Ended, TERMINAL_STATES
  <2> QED
    BY <2>4, <2>5
<1> QED
  BY <1>1, <1>2 DEF CancelStep

LEMMA RecoverTurns ==
    ASSUME Workers = 1, TypeOK, TurnsInv, RecoverStep \/ RecoveryDies
    PROVE  TurnsInv' /\ \A c \in Commands : Allowed(c)
<1>1. CASE RecoverSelect \/ RecoverNext \/ RecoveryDies
  <2>1. UNCHANGED <<row, backoff, req, sent>>
    BY <1>1 DEF RecoverSelect, RecoverNext, RecoveryDies
  <2>2. \A c \in Commands : c = rec'.cmd \/ c \in rec'.todo =>
            c \in rec.todo \/ row[c].status = "dispatched"
    BY <1>1 DEF RecoverSelect, RecoverNext, RecoveryDies, NoPass, NoCommand, TypeOK, Passes
  <2>3. PassBlocksPolling'
    BY <2>1, <2>2 DEF TurnsInv, PassBlocksPolling
  <2>4. OneRequestAtATime' /\ \A x \in Clients : Promising(req[x])'
    BY <2>1 DEF TurnsInv, OneRequestAtATime, Promising
  <2> QED
    BY <2>1, <2>3, <2>4 DEF TurnsInv, Allowed
<1>2. CASE RecoverCommit
  <2> DEFINE c == rec.cmd
  <2> DEFINE new == RecoveredRow(rec.snap)
  <2>1. c \in Commands /\ rec.snap \in Rows
    BY <1>2 DEF RecoverCommit, TypeOK, Passes
  <2>2. /\ new \in Rows
        /\ new.status = IF rec.snap.retry_count < MaxRetries THEN "pending" ELSE "failed"
    BY <2>1, RowTypes, RowStatuses
  <2>3. /\ row' = [row EXCEPT ![c] = Flush(row[c], rec.snap, new)]
        /\ \A b \in Commands \ {c} : backoff'[b] = backoff[b]
        /\ backoff[c] => backoff'[c]
        /\ rec.snap.retry_count < MaxRetries => backoff'[c]
        /\ rec'.cmd = NoCommand /\ rec'.todo = rec.todo
        /\ UNCHANGED <<req, sent>>
    BY <1>2, <2>1 DEF RecoverCommit, NoPass, TypeOK
  <2> HIDE DEF new
  <2>4. /\ row'[c].status \in {row[c].status, new.status}
        /\ \A b \in Commands \ {c} : row'[b] = row[b]
    BY <2>1, <2>2, <2>3, FlushOn
  <2>5. row[c].status = "pending" => backoff[c]
    <3> HIDE DEF c
    <3>1. c = rec.cmd
      BY DEF c
    <3> QED
      BY <2>1, <3>1 DEF TurnsInv, PassBlocksPolling
  <2>6. row[c].status # "absent"
    BY <2>1 DEF TurnsInv, PassBlocksPolling
  <2>7. rec'.cmd # c /\ rec'.cmd \notin Commands
    BY <2>1, <2>3 DEF NoCommand
  <2> HIDE DEF c
  <2>8. PassBlocksPolling'
    <3> SUFFICES ASSUME NEW b \in Commands, b \in rec.todo
                 PROVE  row'[b].status # "absent" /\ (row'[b].status = "pending" => backoff'[b])
      BY <2>3, <2>7 DEF PassBlocksPolling
    <3>1. CASE b = c
      BY <2>2, <2>3, <2>4, <2>5, <2>6, <3>1
    <3>2. CASE b # c
      BY <2>3, <2>4, <3>2 DEF TurnsInv, PassBlocksPolling
    <3> QED BY <3>1, <3>2
  <2>9. OneRequestAtATime'
    BY <2>3 DEF TurnsInv, OneRequestAtATime
  <2>10. ASSUME NEW x \in Clients PROVE Promising(req[x])'
    <3> DEFINE r == req[x]
    <3>1. r.todo \subseteq Commands /\ Promising(r)
      BY DEF TypeOK, Requests, Handlers, TurnsInv
    <3>2. ASSUME NEW b \in r.todo, row[b].status = "pending", ~backoff[b]
          PROVE  row'[b].status = "pending" /\ ~backoff'[b]
      BY <2>3, <2>4, <2>5, <3>1, <3>2
    <3>3. ASSUME NEW b \in r.todo, row[b].status \in {"pending", "failed"}
          PROVE  row'[b].status \in {"pending", "failed"}
      BY <2>2, <2>4, <3>1, <3>3
    <3> QED
      BY <2>3, <3>1, <3>2, <3>3 DEF Promising
  <2>11. ASSUME NEW b \in Commands PROVE Allowed(b)
    <3>1. CASE b = c
      BY <2>3, <2>7, <3>1 DEF Allowed, c
    <3>2. CASE b # c
      BY <2>3, <2>4, <3>2 DEF Allowed
    <3> QED BY <3>1, <3>2
  <2> QED
    BY <2>8, <2>9, <2>10, <2>11 DEF TurnsInv
<1> QED
  BY <1>1, <1>2 DEF RecoverStep

LEMMA OtherTurns ==
    ASSUME Workers = 1, TypeOK, TurnsInv,
           \/ \E c \in Commands : Create(c) \/ TimeStep(c)
           \/ \E x \in Clients : RequestDies(x) \/ ClientRestart(x)
           \/ UNCHANGED vars
    PROVE  TurnsInv' /\ \A c \in Commands : Allowed(c)
<1>1. ASSUME NEW c \in Commands, Create(c)
      PROVE  TurnsInv' /\ \A b \in Commands : Allowed(b)
  <2>1. /\ CanStart(Operator) /\ Operator \in Clients
        /\ row[c].status = "absent"
        /\ \A b \in Commands \ {c} : row'[b] = row[b]
        /\ UNCHANGED <<backoff, req, rec, sent>>
    BY <1>1 DEF Create, TypeOK, Clients
  <2>2. \A y \in Clients : req[y].op = "idle"
    BY <2>1, AllIdle
  <2>3. c # rec.cmd /\ c \notin rec.todo
    BY <2>1 DEF TurnsInv, PassBlocksPolling
  <2>4. PassBlocksPolling'
    BY <2>1, <2>3 DEF TurnsInv, PassBlocksPolling
  <2>5. OneRequestAtATime' /\ \A x \in Clients : Promising(req[x])'
    BY <2>1, <2>2 DEF OneRequestAtATime, Promising
  <2> QED
    BY <2>1, <2>4, <2>5 DEF TurnsInv, Allowed, Ended, TERMINAL_STATES
<1>2. ASSUME NEW c \in Commands, TimeStep(c)
      PROVE  TurnsInv' /\ \A b \in Commands : Allowed(b)
  <2>1. /\ \A b \in Commands : row'[b].status = row[b].status
        /\ \A b \in Commands : backoff'[b] => backoff[b]
        /\ \A b \in Commands : b = rec.cmd \/ b \in rec.todo => backoff'[b] = backoff[b]
        /\ UNCHANGED <<req, rec, sent>>
    <3>1. CASE LeaseLapse(c)
      <4>1. \A r \in Rows : [r EXCEPT !.lease_until = "lapsed"].status = r.status
        BY DEF Rows
      <4> QED
        BY <3>1, <4>1 DEF LeaseLapse, TypeOK
    <3>2. CASE BackoffElapse(c)
      BY <3>2 DEF BackoffElapse, Settled, TypeOK
    <3>3. CASE CommandExpire(c)
      BY <3>3 DEF CommandExpire
    <3> QED
      BY <1>2, <3>1, <3>2, <3>3 DEF TimeStep
  <2>2. PassBlocksPolling'
    BY <2>1 DEF TurnsInv, PassBlocksPolling
  <2>3. ASSUME NEW x \in Clients PROVE Promising(req[x])'
    <3>1. req[x].todo \subseteq Commands /\ Promising(req[x])
      BY DEF TypeOK, Requests, Handlers, TurnsInv
    <3> QED
      BY <2>1, <3>1 DEF Promising
  <2>4. OneRequestAtATime'
    BY <2>1 DEF TurnsInv, OneRequestAtATime
  <2> QED
    BY <2>1, <2>2, <2>3, <2>4 DEF TurnsInv, Allowed, Ended
<1>3. ASSUME NEW x \in Clients, RequestDies(x)
      PROVE  TurnsInv' /\ \A b \in Commands : Allowed(b)
  <2>1. /\ req[x].op # "idle" /\ req' = [req EXCEPT ![x] = Idle]
        /\ UNCHANGED <<row, backoff, rec, sent>>
    BY <1>3 DEF RequestDies
  <2>2. PassBlocksPolling'
    BY <2>1 DEF TurnsInv, PassBlocksPolling
  <2> QED
    BY <2>1, <2>2, CommitEnds DEF Allowed
<1>4. ASSUME UNCHANGED <<row, backoff, req, rec, sent>>
      PROVE  TurnsInv' /\ \A b \in Commands : Allowed(b)
  BY <1>4 DEF TurnsInv, OneRequestAtATime, PassBlocksPolling, Promising, Allowed
<1>5. ASSUME NEW x \in Clients, ClientRestart(x)
      PROVE  TurnsInv' /\ \A b \in Commands : Allowed(b)
  BY <1>4, <1>5 DEF ClientRestart
<1> QED
  BY <1>1, <1>2, <1>3, <1>4, <1>5 DEF vars

\* Every step with one worker keeps the invariant, and does to a command only what
\* HandedOutWhenPending and RevivedByRaceOnly allow.
LEMMA TurnsStep ==
    ASSUME Workers = 1, TypeOK, TurnsInv, [Next]_vars
    PROVE  TurnsInv' /\ \A c \in Commands : Allowed(c)
BY PollTurns, AckTurns, CollectorTurns, CancelTurns, RecoverTurns, OtherTurns DEF Next

\* Only FetchSelect begins a fetch.
LEMMA FetchesBegin ==
    ASSUME TypeOK, [Next]_vars, NEW k \in Collectors
    PROVE  FetchesPending(k)
<1>0. k \in Clients /\ Idle.op = "idle"
  BY DEF Clients, Idle
<1> USE <1>0 DEF FetchesPending, TypeOK
<1>1. CASE UNCHANGED vars
  BY <1>1 DEF vars
<1>2. ASSUME NEW c \in Commands, Create(c) \/ TimeStep(c) PROVE FetchesPending(k)
  BY <1>2 DEF Create, TimeStep, LeaseLapse, BackoffElapse, CommandExpire
<1>3. ASSUME NEW d \in Devices, PollStep(d) PROVE FetchesPending(k)
  <2> d \in Clients
    BY DEF Clients
  <2>1. CASE PollSelect(d)
    BY <2>1 DEF PollSelect, Idle
  <2>2. CASE PollDispatch(d) \/ PollRateLimited(d)
    BY <2>2 DEF PollDispatch, PollRateLimited, IterationDone, Idle
  <2>3. CASE PollNext(d)
    BY <2>3 DEF PollNext
  <2>4. CASE PollEnd(d)
    BY <2>4 DEF PollEnd
  <2> QED
    BY <1>3, <2>1, <2>2, <2>3, <2>4 DEF PollStep
<1>4. ASSUME NEW d \in Devices, AckStep(d) PROVE FetchesPending(k)
  BY <1>4 DEF AckStep, AckLoad, AckCommit, Loaded
<1>5. ASSUME NEW l \in Collectors, FetchStep(l) \/ ReportStep(l) PROVE FetchesPending(k)
  <2> l \in Clients
    BY DEF Clients
  <2>1. CASE FetchSelect(l)
    BY <2>1 DEF FetchSelect, Idle
  <2>2. CASE FetchExpire(l)
    <3>1. req'[k] = req[k] \/ req'[k].op = "expire"
      BY <2>2 DEF FetchExpire, Idle
    <3> QED
      BY <3>1
  <2>3. CASE FetchCommit(l)
    <3>1. req'[k] = req[k] \/ req'[k] = Idle
      BY <2>3 DEF FetchCommit
    <3> QED
      BY <3>1
  <2>4. CASE ReportStep(l)
    <3>1. req'[k] = req[k] \/ req'[k].op \in {"idle", "report"}
      <4>1. ASSUME NEW c \in Commands, NEW s, ReportLoad(l, c, s)
            PROVE  req'[k] = req[k] \/ req'[k].op = "report"
        BY <4>1 DEF ReportLoad, Loaded, Idle
      <4>2. CASE ReportCommit(l)
        BY <4>2 DEF ReportCommit, Idle
      <4> QED
        BY <2>4, <4>1, <4>2 DEF ReportStep
    <3> QED
      BY <3>1
  <2> QED
    BY <1>5, <2>1, <2>2, <2>3, <2>4 DEF FetchStep
<1>6. CASE CancelStep \/ RecoverStep \/ RecoveryDies
  BY <1>6 DEF CancelStep, CancelLoad, CancelCommit, Loaded, RecoverStep, RecoverSelect,
              RecoverCommit, RecoverNext, RecoveryDies
<1>7. ASSUME NEW x \in Clients, RequestDies(x) \/ ClientRestart(x) PROVE FetchesPending(k)
  BY <1>7 DEF RequestDies, ClientRestart
<1> QED
  BY <1>1, <1>2, <1>3, <1>4, <1>5, <1>6, <1>7 DEF Next

LEMMA TurnsInvariant == Workers = 1 => (Spec => []TurnsInv)
<1> SUFFICES ASSUME Workers = 1
             PROVE  Spec => []TurnsInv
  OBVIOUS
<1>1. Init => TurnsInv
  BY IdlePromises DEF Init, TurnsInv, OneRequestAtATime, PassBlocksPolling, Promising, NoPass, NoCommand
<1>2. TypeOK /\ TurnsInv /\ [Next]_vars => TurnsInv'
  BY TurnsStep
<1> QED
  BY <1>1, <1>2, Typing, PTL DEF Spec

\* With one synchronous worker, for any number of devices, collectors and commands,
\* nobody is handed a command that is leased, in a collector's hands or ended, but for
\* a fetch that selected it when it was pending, and that the recovery job overtakes.
THEOREM HandOutsInTurns ==
    Workers = 1 => (Spec => HandedOutWhenPending)
<1> SUFFICES ASSUME Workers = 1
             PROVE  Spec => HandedOutWhenPending
  OBVIOUS
<1>1. TypeOK /\ TurnsInv /\ [Next]_vars =>
          [/\ \A c \in Commands :
                  sent'[c] # sent[c] => row[c].status = "pending" \/ FailedInFetch(c)
           /\ \A k \in Collectors : FetchesPending(k)]_vars
  BY TurnsStep, FetchesBegin DEF Allowed
<1> QED
  BY <1>1, TurnsInvariant, Typing, PTL DEF Spec, HandedOutWhenPending

\* Under the same conditions an ended command comes back by one of three races only: a
\* recovery job that visits it without looking at its status again, an ACK that loaded
\* it before it ended, or such a fetch.
THEOREM RevivalsInTurns ==
    Workers = 1 => (Spec => RevivedByRaceOnly)
<1> SUFFICES ASSUME Workers = 1
             PROVE  Spec => RevivedByRaceOnly
  OBVIOUS
<1>1. TypeOK /\ TurnsInv /\ [Next]_vars =>
          [\A c \in Commands : Ended(row[c]) /\ ~Ended(row'[c]) =>
              \/ rec.cmd = c /\ rec'.cmd # c
              \/ \E d \in Devices : req[d].op = "ack" /\ req[d].cmd = c /\ ~Ended(req[d].snap)
              \/ FailedInFetch(c) /\ sent'[c] # sent[c]]_vars
  BY TurnsStep DEF Allowed
<1> QED
  BY <1>1, TurnsInvariant, Typing, PTL DEF Spec, RevivedByRaceOnly

=============================================================================
