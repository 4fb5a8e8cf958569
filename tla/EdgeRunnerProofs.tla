--------------------------- MODULE EdgeRunnerProofs ---------------------------
(* What the runners of EdgeRunner inherit from CommandLease: they are devices *)
(* like any other, so that every theorem about CommandLease holds of them;    *)
(* and that a calm site with runners only fails no command.                   *)
EXTENDS EdgeRunner, CommandLeaseProofs

\* The world is chosen once, and its runners and other devices are devices.
LEMMA WorldStays == EdgeSpec => [](world \in Worlds)
<1>1. EdgeInit => world \in Worlds
  BY DEF EdgeInit
<1>2. world \in Worlds /\ [EdgeNext]_edgeVars => (world \in Worlds)'
  BY DEF EdgeNext, edgeVars
<1> QED BY <1>1, <1>2, PTL DEF EdgeSpec

LEMMA WorldDevices ==
    ASSUME world \in Worlds
    PROVE  world.runners \subseteq Devices /\ world.others \subseteq Devices
BY WorldsAssumption DEF WorldRecords

\* What a runner does is what a device may do.
LEMMA RunnerSteps ==
    ASSUME NEW d \in Devices, RunnerStep(d)
    PROVE  PollStep(d) \/ AckStep(d) \/ UNCHANGED vars
<1>1. CASE RunnerPoll(d)
  BY <1>1 DEF RunnerPoll, PollStep
<1>2. CASE ServerPolls(d)
  BY <1>2 DEF ServerPolls, PollStep
<1>3. CASE RunnerReceives(d)
  BY <1>3 DEF RunnerReceives, PollStep
<1>4. CASE RunnerAck(d)
  <2>1. PICK c \in Commands : AckLoad(d, c, "completed", 0)
    BY <1>4 DEF RunnerAck
  <2>2. 0 \in Numbers
    BY RowAssumption DEF Numbers
  <2>3. "completed" \in AckStatuses
    BY RunnerAssumption
  <2> QED BY <2>1, <2>2, <2>3 DEF AckStep
<1>5. CASE RunnerAcked(d)
  BY <1>5 DEF RunnerAcked, AckStep
<1>6. CASE RunnerRefused(d)
  BY <1>6 DEF RunnerRefused
<1> QED BY <1>1, <1>2, <1>3, <1>4, <1>5, <1>6 DEF RunnerStep

\* Every step of a site with runners is one of CommandLease, or changes nothing
\* that CommandLease knows of.
LEMMA EdgeSteps == world \in Worlds /\ EdgeNext => [Next]_vars
<1> SUFFICES ASSUME world \in Worlds, EdgeNext PROVE [Next]_vars
    OBVIOUS
<1>1. ASSUME NEW c \in Commands, Create(c) \/ TimeStep(c) PROVE Next
    BY <1>1 DEF Next
<1>2. ASSUME NEW d \in Devices, PollStep(d) \/ AckStep(d) PROVE Next
    BY <1>2 DEF Next
<1>3. ASSUME NEW x \in Clients, RequestDies(x) \/ ClientRestart(x) PROVE Next
    BY <1>3 DEF Next
<1>4. world.runners \subseteq Devices /\ world.others \subseteq Devices
                                      /\ world.queue \subseteq Commands
    BY WorldsAssumption DEF WorldRecords
<1>5. CASE \E c \in world.queue : Create(c)
    BY <1>1, <1>4, <1>5
<1>6. CASE \E c \in Commands : EdgeTime(c)
    BY <1>1, <1>6 DEF EdgeTime
<1>7. CASE \E d \in world.runners : RunnerStep(d)
    BY <1>2, <1>4, <1>7, RunnerSteps
<1>8. CASE \E d \in world.others : PollStep(d) \/ AckStep(d)
    BY <1>2, <1>4, <1>8
<1>9. CASE CancelStep \/ RecoverStep
    BY <1>9 DEF Next
<1>10. CASE \E x \in Clients : EdgeRequestDies(x) \/ EdgeRestart(x)
    BY <1>3, <1>10 DEF EdgeRequestDies, EdgeRestart
<1>11. CASE RecoveryDies
    BY <1>11 DEF Next
<1> QED
    BY <1>5, <1>6, <1>7, <1>8, <1>9, <1>10, <1>11 DEF EdgeNext

\* A site with runners is a site of CommandLease.
THEOREM RunnersAreDevices == EdgeSpec => Spec
<1>1. EdgeInit => Init
  BY DEF EdgeInit
<1>2. world \in Worlds /\ [EdgeNext]_edgeVars => [Next]_vars
  BY EdgeSteps DEF edgeVars, vars
<1> QED BY <1>1, <1>2, WorldStays, PTL DEF EdgeSpec, Spec

\* With one synchronous worker, no runner is handed a command that another device
\* holds, and every command is handed out a bounded number of times.
THEOREM RunnersKeepLeases ==
    Serial => (EdgeSpec => LeaseSpec /\ [](HandOutBound /\ LeaseConsistent))
BY RunnersAreDevices, SerialRefinement, SerialSafety, PTL

-----------------------------------------------------------------------------
\* A step that leaves a device's request, hand-outs and round alone.
LEMMA RoundKept ==
    ASSUME NEW d \in Devices, RoundOK(d), UNCHANGED world,
           req'[d] = req[d], held'[d] = held[d], round'[d] = round[d]
    PROVE  RoundOK(d)'
BY DEF RoundOK, Runs, InPollLoop, IsFirst

\* A step of one device leaves the requests and hand-outs of the others alone.
LEMMA OwnStep ==
    ASSUME TypeOK, NEW x \in Devices, NEW d \in Devices, d # x,
           PollStep(x) \/ AckStep(x) \/ RequestDies(x) \/ ClientRestart(x)
    PROVE  req'[d] = req[d] /\ held'[d] = held[d]
BY DEF TypeOK, Clients, PollStep, AckStep, PollSelect, PollDispatch, PollRateLimited, PollNext,
       PollEnd, AckLoad, AckCommit, IterationDone, RequestDies, ClientRestart

\* A step of a runner keeps its round in order.
LEMMA RunnerKeeps ==
    ASSUME EdgeTypeOK, UNCHANGED world, NEW d \in world.runners, d \in Devices, RunnerStep(d)
    PROVE  RoundOK(d)' /\ round' \in [Devices -> SUBSET Commands]
                       /\ \A e \in Devices \ {d} : round'[e] = round[e]
<1> USE DEF EdgeTypeOK, RoundOK, Runs
<1> DEFINE r == req[d]
<1>0. d \in Clients /\ req \in [Clients -> Requests] /\ held \in [Clients -> [Commands -> Numbers]]
  BY DEF TypeOK, Clients
<1>1. CASE RunnerPoll(d)
  BY <1>0, <1>1 DEF RunnerPoll, PollSelect, InPollLoop, Idle
<1>2. CASE ServerPolls(d)
  <2>1. PollDispatch(d) \/ PollRateLimited(d) \/ PollNext(d)
    BY <1>2 DEF ServerPolls
  <2>2. InPollLoop(d) /\ round' = round /\ held' = held
    BY <1>2, <2>1 DEF ServerPolls, PollDispatch, PollRateLimited, PollNext, InPollLoop
  <2>3. req'[d].op = "loop"
    <3>1. CASE PollDispatch(d) \/ PollRateLimited(d)
      BY <1>0, <3>1 DEF PollDispatch, PollRateLimited, IterationDone, Idle
    <3>2. CASE PollNext(d)
      <4>1. PICK c \in Commands : req' = [req EXCEPT ![d].cmd = c, ![d].snap = row[c]]
        BY <3>2 DEF PollNext
      <4>2. req[d].op = "loop" /\ req[d] \in Requests
        BY <1>0, <3>2 DEF PollNext
      <4>3. req'[d] = [req[d] EXCEPT !.cmd = c, !.snap = row[c]]
        BY <1>0, <4>1
      <4> QED BY <4>2, <4>3 DEF Requests, Handlers
    <3> QED BY <2>1, <3>1, <3>2
  <2> QED BY <2>2, <2>3 DEF InPollLoop
<1>3. CASE RunnerReceives(d)
  <2> DEFINE got == {c \in Commands : req[d].given[c] # 0}
  <2>1. /\ PollEnd(d)
        /\ round' = [round EXCEPT ![d] = IF held'[d] = held[d] THEN {} ELSE got]
    BY <1>3 DEF RunnerReceives
  <2>2. req'[d].op = "idle"
    BY <1>0, <2>1 DEF PollEnd, Idle
  <2>3. held'[d] = held[d] \/ \A c \in got : held'[d][c] # 0
    BY <1>0, <2>1 DEF PollEnd
  <2> QED BY <2>1, <2>2, <2>3 DEF InPollLoop
<1>4. CASE RunnerAck(d)
  <2>1. PICK c \in Commands : IsFirst(c, round[d]) /\ AckLoad(d, c, "completed", 0)
    BY <1>4 DEF RunnerAck
  <2>2. req'[d].op = "ack" /\ req'[d].cmd = c /\ held' = held /\ round' = round
    BY <1>0, <1>4, <2>1 DEF AckLoad, Loaded, Idle, RunnerAck
  <2> QED BY <2>1, <2>2 DEF InPollLoop, IsFirst
<1>5. CASE RunnerAcked(d)
  <2>1. req'[d].op = "idle" /\ held' = held
    BY <1>0, <1>5 DEF RunnerAcked, AckCommit, Idle
  <2>2. round' = Dropped(d) \/ round' = Rest(d, req[d].cmd)
    BY <1>5 DEF RunnerAcked, Answers
  <2> QED BY <2>1, <2>2 DEF Dropped, Rest, InPollLoop
<1>6. CASE RunnerRefused(d)
  <2>1. req[d].op = "idle" /\ req' = req /\ held' = held
    BY <1>6 DEF RunnerRefused, CanStart, vars
  <2>2. round' = Dropped(d) \/ \E c \in Commands : round' = Rest(d, c)
    BY <1>6 DEF RunnerRefused, Answers
  <2> QED BY <2>1, <2>2 DEF Dropped, Rest, InPollLoop
<1> QED BY <1>1, <1>2, <1>3, <1>4, <1>5, <1>6 DEF RunnerStep

\* Every variable of EdgeRunner keeps its type, and a runner's round its order.
THEOREM EdgeTyping == EdgeSpec => []EdgeTypeOK
<1>1. EdgeInit /\ TypeOK => EdgeTypeOK
  BY DEF EdgeInit, EdgeTypeOK, RoundOK, Init, Clients, Idle, InPollLoop
<1>2. EdgeTypeOK /\ TypeOK' /\ [EdgeNext]_edgeVars => EdgeTypeOK'
  <2> SUFFICES ASSUME EdgeTypeOK, TypeOK', [EdgeNext]_edgeVars PROVE EdgeTypeOK'
    OBVIOUS
  <2> USE DEF EdgeTypeOK
  <2>0. world' = world /\ world.runners \subseteq Devices /\ world.others \subseteq Devices
                      /\ world.runners \cap world.others = {}
    BY WorldsAssumption DEF WorldRecords, EdgeNext, edgeVars
  <2> SUFFICES /\ round' \in [Devices -> SUBSET Commands]
               /\ \A d \in Devices : RoundOK(d)'
    BY <2>0
  <2>1. CASE UNCHANGED <<req, held, round>>
    BY <2>0, <2>1, RoundKept
  <2>2. ASSUME NEW x \in world.runners, RunnerStep(x)
        PROVE  /\ round' \in [Devices -> SUBSET Commands]
               /\ \A d \in Devices : RoundOK(d)'
    <3>1. /\ RoundOK(x)' /\ round' \in [Devices -> SUBSET Commands]
          /\ \A d \in Devices \ {x} : round'[d] = round[d]
      BY <2>0, <2>2, RunnerKeeps
    <3>2. PollStep(x) \/ AckStep(x) \/ UNCHANGED vars
      BY <2>0, <2>2, RunnerSteps
    <3>3. ASSUME NEW d \in Devices \ {x} PROVE req'[d] = req[d] /\ held'[d] = held[d]
      BY <2>0, <3>2, OwnStep DEF vars
    <3> QED BY <2>0, <3>1, <3>3, RoundKept
  <2>3. ASSUME NEW x \in world.others, PollStep(x) \/ AckStep(x), UNCHANGED round
        PROVE  /\ round' \in [Devices -> SUBSET Commands]
               /\ \A d \in Devices : RoundOK(d)'
    <3>1. ASSUME NEW d \in Devices \ {x} PROVE req'[d] = req[d] /\ held'[d] = held[d]
      BY <2>0, <2>3, OwnStep
    <3>2. RoundOK(x)'
      BY <2>0, <2>3 DEF RoundOK, Runs
    <3> QED BY <2>0, <2>3, <3>1, <3>2, RoundKept
  <2>4. ASSUME NEW x \in Clients, EdgeRequestDies(x) \/ EdgeRestart(x)
        PROVE  /\ round' \in [Devices -> SUBSET Commands]
               /\ \A d \in Devices : RoundOK(d)'
    <3>1. RequestDies(x) \/ ClientRestart(x)
      BY <2>4 DEF EdgeRequestDies, EdgeRestart
    <3>2. ASSUME NEW d \in Devices \ {x}
          PROVE  req'[d] = req[d] /\ held'[d] = held[d] /\ round'[d] = round[d]
      BY <2>0, <2>4, <3>1 DEF RequestDies, ClientRestart, EdgeRequestDies, EdgeRestart, Rest, Dropped,
                         TypeOK, Clients
    <3>3. round' \in [Devices -> SUBSET Commands]
      BY <2>0, <2>4 DEF EdgeRequestDies, EdgeRestart, Rest, Dropped
    <3>4. CASE x \in Devices
      <4>1. req'[x].op = "idle"
        BY <3>1 DEF RequestDies, ClientRestart, Idle, TypeOK
      <4>2. ASSUME x \in world.runners PROVE RoundOK(x)'
        <5>1. CASE EdgeRequestDies(x)
          BY <2>0, <3>4, <4>1, <4>2, <5>1 DEF EdgeRequestDies, RequestDies, Rest, RoundOK, Runs, InPollLoop
        <5>2. CASE EdgeRestart(x)
          BY <2>0, <3>4, <4>1, <4>2, <5>2 DEF EdgeRestart, ClientRestart, Dropped, RoundOK, Runs, InPollLoop
        <5> QED BY <2>4, <5>1, <5>2
      <4>3. ASSUME x \notin world.runners PROVE RoundOK(x)'
        BY <2>0, <2>4, <3>4, <4>3 DEF EdgeRequestDies, EdgeRestart, RoundOK, Runs
      <4>4. RoundOK(x)'
        BY <4>2, <4>3
      <4>5. ASSUME NEW d \in Devices \ {x} PROVE RoundOK(d)'
        BY <2>0, <3>2, RoundKept
      <4> QED BY <3>3, <4>4, <4>5
    <3>5. CASE x \notin Devices
      BY <2>0, <3>2, <3>3, <3>5, RoundKept
    <3> QED BY <3>4, <3>5
  <2>5. CASE \E c \in world.queue : Create(c) /\ UNCHANGED round
    BY <2>1, <2>5 DEF Create
  <2>6. CASE \E c \in Commands : EdgeTime(c) /\ UNCHANGED round
    BY <2>1, <2>6 DEF EdgeTime, TimeStep, LeaseLapse, BackoffElapse, CommandExpire
  <2>7. CASE (CancelStep \/ RecoverStep) /\ UNCHANGED round
    <3>1. ASSUME NEW d \in Devices PROVE req'[d] = req[d] /\ held'[d] = held[d]
      BY <2>7, ClientsAssumption DEF CancelStep, CancelLoad, CancelCommit, RecoverStep, RecoverSelect, RecoverCommit,
                  RecoverNext, TypeOK, Clients
    <3> QED BY <2>0, <2>7, <3>1, RoundKept
  <2>8. CASE RecoveryDies /\ UNCHANGED round
    BY <2>1, <2>8 DEF RecoveryDies
  <2>9. CASE UNCHANGED edgeVars
    BY <2>1, <2>9 DEF edgeVars
  <2> QED BY <2>2, <2>3, <2>4, <2>5, <2>6, <2>7, <2>8, <2>9 DEF EdgeNext
<1> QED BY <1>1, <1>2, RunnersAreDevices, Typing, PTL DEF EdgeSpec

-----------------------------------------------------------------------------
(* A calm site with runners only, and one synchronous worker.               *)

\* The commands that have ended before c are counted, and grow in number.
LEMMA EndedGrow ==
    ASSUME world \in Worlds, UNCHANGED world, NEW c \in Commands,
           \A o \in Commands : Ended(row[o]) => Ended(row'[o])
    PROVE  /\ Cardinality(EndedBefore(c)) \in Nat /\ Cardinality(EndedBefore(c))' \in Nat
           /\ Cardinality(EndedBefore(c)) <= Cardinality(EndedBefore(c))'
           /\ \A o \in world.queue \ {c} :
                  ~Ended(row[o]) /\ Ended(row'[o]) =>
                      Cardinality(EndedBefore(c)) + 1 <= Cardinality(EndedBefore(c))'
<1> DEFINE B == EndedBefore(c)
           A == EndedBefore(c)'
<1>1. world.queue \subseteq Commands
  BY WorldsAssumption DEF WorldRecords
<1>2. B \subseteq A /\ A \subseteq Commands
  BY <1>1 DEF EndedBefore
<1>3. IsFiniteSet(Commands)
  BY CommandsAssumption
<1>4. IsFiniteSet(A) /\ IsFiniteSet(B)
  BY <1>2, <1>3, FS_Subset
<1>5. Cardinality(A) \in Nat /\ Cardinality(B) \in Nat
  BY <1>4, FS_CardinalityType
<1>6. ASSUME NEW o \in world.queue \ {c}, ~Ended(row[o]), Ended(row'[o])
      PROVE  Cardinality(B) + 1 <= Cardinality(A)
  <2>1. o \notin B /\ B \cup {o} \subseteq A
    BY <1>2, <1>6 DEF EndedBefore
  <2> HIDE DEF A, B
  <2>2. Cardinality(B \cup {o}) = Cardinality(B) + 1
    BY <1>4, <2>1, FS_AddElement
  <2>3. Cardinality(B \cup {o}) <= Cardinality(A)
    BY <1>4, <2>1, FS_Subset
  <2> QED
    BY <2>2, <2>3
<1>7. Cardinality(B) <= Cardinality(A)
  BY <1>2, <1>4, FS_Subset
<1> QED
  BY <1>5, <1>6, <1>7

\* No more commands end before c than there are others.
LEMMA FewEnd ==
    ASSUME world \in Worlds, NEW c \in world.queue
    PROVE  /\ Cardinality(world.queue) \in Nat
           /\ Cardinality(EndedBefore(c)) + 1 <= Cardinality(world.queue)
<1> DEFINE Q == world.queue
<1>1. Q \subseteq Commands /\ IsFiniteSet(Commands)
  BY WorldsAssumption, CommandsAssumption DEF WorldRecords
<1>2. IsFiniteSet(Q)
  BY <1>1, FS_Subset
<1>3. Cardinality(Q) \in Nat
  BY <1>2, FS_CardinalityType
<1>4. IsFiniteSet(Q \ {c}) /\ Cardinality(Q \ {c}) = Cardinality(Q) - 1
  BY <1>2, FS_RemoveElement
<1>5. EndedBefore(c) \subseteq Q \ {c}
  BY DEF EndedBefore
<1>6. Cardinality(EndedBefore(c)) \in Nat /\ Cardinality(EndedBefore(c)) <= Cardinality(Q \ {c})
  BY <1>4, <1>5, FS_Subset, FS_CardinalityType
<1> QED
  BY <1>3, <1>4, <1>6

\* A commit to the row of c.  Another command may be dropped by the runner that has
\* it, if c ends for the first time.
LEMMA OneCommits ==
    ASSUME EdgeTypeOK, Calm, CalmInv, UNCHANGED world, NEW c \in Commands,
           \A b \in Commands \ {c} : row'[b] = row[b],
           Ended(row[c]) => Ended(row'[c]), LosesFew(c)',
           \A b \in Commands \ {c} :
               \/ \A e \in world.runners : Has(e, b) => Has(e, b)'
               \/ c \in world.queue /\ ~Ended(row[c]) /\ Ended(row'[c])
    PROVE  \A b \in Commands : LosesFew(b)'
<1> SUFFICES ASSUME NEW b \in Commands \ {c}
             PROVE  LosesFew(b)'
  OBVIOUS
<1>1. LosesFew(b) /\ world \in Worlds
  BY DEF CalmInv, EdgeTypeOK
<1>2. \A o \in Commands : Ended(row[o]) => Ended(row'[o])
  OBVIOUS
<1>3. /\ Cardinality(EndedBefore(b)) \in Nat /\ Cardinality(EndedBefore(b))' \in Nat
      /\ Cardinality(EndedBefore(b)) <= Cardinality(EndedBefore(b))'
      /\ c \in world.queue /\ ~Ended(row[c]) /\ Ended(row'[c]) =>
             Cardinality(EndedBefore(b)) + 1 <= Cardinality(EndedBefore(b))'
  BY <1>1, <1>2, EndedGrow
<1>4. row'[b] = row[b] /\ row[b].retry_count \in Nat
  BY DEF EdgeTypeOK, TypeOK, Rows
<1> DEFINE N == Cardinality(EndedBefore(b))
           M == Cardinality(EndedBefore(b))'
           k == row[b].retry_count
<1>5. k <= N
  BY <1>1 DEF LosesFew
<1>6. k <= M
  <2> HIDE DEF N, M, k
  <2> QED
    BY <1>3, <1>4, <1>5 DEF N, M, k
<1>7. ASSUME row[b].status = "dispatched", \A d \in world.runners : ~Has(d, b)'
      PROVE  k + 1 <= M
  <2>1. CASE \A e \in world.runners : Has(e, b) => Has(e, b)'
    <3>1. k + 1 <= N
      BY <1>1, <1>7, <2>1 DEF LosesFew
    <3> HIDE DEF N, M, k
    <3> QED
      BY <1>3, <1>4, <3>1 DEF N, M, k
  <2>2. CASE c \in world.queue /\ ~Ended(row[c]) /\ Ended(row'[c])
    <3>1. N + 1 <= M
      BY <1>3, <2>2
    <3> HIDE DEF N, M, k
    <3> QED
      BY <1>3, <1>4, <1>5, <3>1 DEF N, M, k
  <2> QED
    BY <2>1, <2>2
<1> QED
  BY <1>1, <1>4, <1>6, <1>7 DEF LosesFew

\* A step that changes no row, and takes nothing from a runner.
LEMMA NoneLoses ==
    ASSUME EdgeTypeOK, Calm, CalmInv, UNCHANGED <<world, row>>,
           \A e \in world.runners, b \in Commands : Has(e, b) => Has(e, b)'
    PROVE  \A b \in Commands : LosesFew(b)'
<1> SUFFICES ASSUME NEW b \in Commands
             PROVE  LosesFew(b)'
  OBVIOUS
<1>1. LosesFew(b)
  BY DEF CalmInv
<1>2. EndedBefore(b)' = EndedBefore(b)
  BY DEF EndedBefore
<1> QED
  BY <1>1, <1>2 DEF LosesFew

\* A runner whose request and round, and whose commands, stay as they are.
LEMMA LeasesKept ==
    ASSUME EdgeTypeOK, Calm, CalmInv, UNCHANGED world, NEW e \in world.runners,
           req'[e] = req[e], round'[e] = round[e],
           \A b \in Commands : Has(e, b) => row'[b] = row[b]
    PROVE  /\ KeepsItsLeases(e)'
           /\ \A b \in Commands : Has(e, b) => Has(e, b)'
<1>1. KeepsItsLeases(e) /\ RoundOK(e) /\ Runs(e)
  BY WorldsAssumption DEF CalmInv, EdgeTypeOK, WorldRecords, Runs
<1>2. \A b \in Commands : Has(e, b)' <=> Has(e, b)
  BY DEF Has
<1>3. req[e].op = "ack" => req[e].cmd \in Commands /\ Has(e, req[e].cmd)
  BY <1>1 DEF RoundOK, IsFirst, Has
<1> QED
  BY <1>1, <1>2, <1>3 DEF KeepsItsLeases

\* The recovery job, when the commands that it visits stay as they are.
LEMMA PassKept ==
    ASSUME PassIsSo, UNCHANGED rec, TypeOK,
           \A c \in Commands : c = rec.cmd \/ c \in rec.todo => row'[c] = row[c]
    PROVE  PassIsSo'
<1>1. rec.cmd \in Commands \cup {NoCommand}
  BY DEF TypeOK, Passes
<1> QED
  BY <1>1 DEF PassIsSo

\* A step of one runner.
LEMMA RunnerOnly ==
    ASSUME EdgeTypeOK, Calm, CalmInv, UNCHANGED <<world, rec>>, NEW d \in world.runners,
           \A y \in Clients \ {d} : req'[y] = req[y],
           \A e \in Devices \ {d} : round'[e] = round[e],
           \A e \in world.runners \ {d} : \A b \in Commands : Has(e, b) => row'[b] = row[b],
           \A c \in Commands : c = rec.cmd \/ c \in rec.todo => row'[c] = row[c],
           KeepsItsLeases(d)', \A b \in Commands : LosesFew(b)'
    PROVE  CalmInv'
<1>1. /\ world.runners \subseteq Devices /\ Devices \subseteq Clients
      /\ Operator \in Clients \ {d}
  BY WorldsAssumption, ClientsAssumption DEF EdgeTypeOK, WorldRecords, Clients
<1>2. \A e \in world.runners \ {d} : KeepsItsLeases(e)'
  BY <1>1, LeasesKept
<1>3. PassIsSo'
  BY PassKept DEF CalmInv, EdgeTypeOK
<1> QED
  BY <1>1, <1>2, <1>3 DEF CalmInv

\* A step of one runner that changes no row.
LEMMA RunnerOnlyReads ==
    ASSUME EdgeTypeOK, Calm, CalmInv, UNCHANGED <<world, rec, row>>, NEW d \in world.runners,
           \A y \in Clients \ {d} : req'[y] = req[y],
           \A e \in Devices \ {d} : round'[e] = round[e],
           KeepsItsLeases(d)', \A b \in Commands : Has(d, b) => Has(d, b)'
    PROVE  CalmInv'
<1>1. world.runners \subseteq Devices /\ Devices \subseteq Clients
  BY WorldsAssumption DEF EdgeTypeOK, WorldRecords, Clients
<1>2. \A e \in world.runners \ {d} : \A b \in Commands : Has(e, b) => Has(e, b)'
  BY <1>1, LeasesKept
<1>3. \A b \in Commands : LosesFew(b)'
  BY <1>2, NoneLoses
<1> QED
  BY <1>3, RunnerOnly

\* A step of a device is about its own request and round.
LEMMA RunnerAlone ==
    ASSUME EdgeTypeOK, NEW d \in world.runners, RunnerStep(d)
    PROVE  /\ d \in Devices /\ d \in Clients
           /\ \A y \in Clients \ {d} : req'[y] = req[y]
           /\ \A e \in Devices \ {d} : round'[e] = round[e]
<1>1. d \in Devices /\ d \in Clients
  BY WorldsAssumption DEF EdgeTypeOK, WorldRecords, Clients
<1>2. \A y \in Clients \ {d} : req'[y] = req[y]
  <2>1. PollStep(d) \/ AckStep(d) \/ UNCHANGED vars
    BY <1>1, RunnerSteps
  <2> QED
    BY <1>1, <2>1 DEF EdgeTypeOK, TypeOK, PollStep, AckStep, PollSelect, PollDispatch, PollRateLimited,
       PollNext, PollEnd, AckLoad, AckCommit, IterationDone, vars
<1>3. \A e \in Devices \ {d} : round'[e] = round[e]
  BY <1>1 DEF EdgeTypeOK, RunnerStep, RunnerPoll, ServerPolls, RunnerReceives, RunnerAck,
     RunnerAcked, RunnerRefused, Answers, Rest, Dropped
<1> QED
  BY <1>1, <1>2, <1>3

\* What a runner asks, and what it is told, when no row changes.
LEMMA CalmReads ==
    ASSUME EdgeTypeOK, Calm, CalmInv, UNCHANGED world, NEW d \in world.runners,
           RunnerPoll(d) \/ RunnerReceives(d) \/ RunnerAck(d)
             \/ (ServerPolls(d) /\ ~PollDispatch(d))
    PROVE  CalmInv'
<1>0. /\ d \in Devices /\ d \in Clients
      /\ \A y \in Clients \ {d} : req'[y] = req[y]
      /\ \A e \in Devices \ {d} : round'[e] = round[e]
  BY RunnerAlone DEF RunnerStep
<1>1. KeepsItsLeases(d) /\ RoundOK(d) /\ Runs(d) /\ req[d] \in Requests
  BY <1>0 DEF CalmInv, EdgeTypeOK, TypeOK, Runs
<1>2. /\ req \in [Clients -> Requests] /\ round \in [Devices -> SUBSET Commands]
      /\ \A c \in Commands : Nothing[c] = 0
  BY DEF EdgeTypeOK, TypeOK, Nothing
<1>3. CASE RunnerPoll(d)
  <2>1. req[d].op = "idle" /\ round[d] = {} /\ round' = round /\ UNCHANGED <<row, rec>>
    BY <1>3 DEF RunnerPoll, PollSelect, CanStart
  <2>2. req'[d].op = "select" /\ req'[d].given = Nothing
    BY <1>0, <1>2, <1>3 DEF RunnerPoll, PollSelect, Idle
  <2>3. \A b \in Commands : ~Has(d, b) /\ ~Has(d, b)'
    BY <1>1, <1>2, <2>1, <2>2 DEF Has, KeepsItsLeases
  <2>4. KeepsItsLeases(d)'
    BY <1>2, <2>2, <2>3 DEF KeepsItsLeases
  <2> QED
    BY <1>0, <2>1, <2>3, <2>4, RunnerOnlyReads
<1>4. CASE ServerPolls(d) /\ ~PollDispatch(d)
  <2>1. /\ PollRateLimited(d) \/ PollNext(d)
        /\ UNCHANGED <<row, rec, round>>
    BY <1>4 DEF ServerPolls, PollRateLimited, PollNext
  <2>2. req'[d].op = "loop" /\ req'[d].given = req[d].given
    <3>1. CASE PollRateLimited(d)
      BY <1>0, <1>2, <3>1 DEF PollRateLimited, IterationDone, Idle
    <3>2. CASE PollNext(d)
      <4>1. PICK c \in Commands : req' = [req EXCEPT ![d].cmd = c, ![d].snap = row[c]]
        BY <3>2 DEF PollNext
      <4>2. req[d].op = "loop"
        BY <3>2 DEF PollNext
      <4>3. req'[d] = [req[d] EXCEPT !.cmd = c, !.snap = row[c]]
        BY <1>0, <1>2, <4>1
      <4> QED
        BY <1>1, <4>2, <4>3 DEF Requests, Handlers
    <3> QED
      BY <2>1, <3>1, <3>2
  <2>3. \A b \in Commands : Has(d, b)' <=> Has(d, b)
    BY <2>1, <2>2 DEF Has
  <2>4. KeepsItsLeases(d)'
    BY <1>1, <2>1, <2>2, <2>3 DEF KeepsItsLeases
  <2> QED
    BY <1>0, <2>1, <2>3, <2>4, RunnerOnlyReads
<1>5. CASE RunnerReceives(d)
  <2> DEFINE got == {c \in Commands : req[d].given[c] # 0}
  <2>1. /\ req[d].op = "loop" /\ UNCHANGED <<row, rec>>
        /\ held'[d] # held[d] \/ Cardinality(got) = 0
    BY <1>5 DEF RunnerReceives, PollEnd, Calm, Granted
  <2>2. req'[d] = Idle
    BY <1>0, <1>2, <1>5 DEF RunnerReceives, PollEnd
  <2>3. round'[d] = IF held'[d] = held[d] THEN {} ELSE got
    BY <1>0, <1>2, <1>5 DEF RunnerReceives
  <2>4. IsFiniteSet(got)
    BY CommandsAssumption, FS_Subset
  <2>5. Cardinality(got) = 0 => got = {}
    BY <2>4, FS_EmptySet
  <2>6. round'[d] = got
    BY <2>1, <2>3, <2>5
  <2>7. round[d] = {}
    BY <1>1, <2>1 DEF RoundOK, InPollLoop
  <2>8. req'[d].op = "idle" /\ req'[d].given = Nothing
    BY <2>2 DEF Idle
  <2>9. \A b \in Commands : Has(d, b)' <=> Has(d, b)
    BY <1>2, <2>6, <2>7, <2>8 DEF Has
  <2>10. KeepsItsLeases(d)'
    BY <1>1, <1>2, <2>1, <2>8, <2>9 DEF KeepsItsLeases
  <2> QED
    BY <1>0, <2>1, <2>9, <2>10, RunnerOnlyReads
<1>6. CASE RunnerAck(d)
  <2>1. PICK c \in Commands : IsFirst(c, round[d]) /\ AckLoad(d, c, "completed", 0)
    BY <1>6 DEF RunnerAck
  <2>2. /\ req[d].op = "idle" /\ UNCHANGED <<row, rec, round>>
        /\ req' = [req EXCEPT ![d] = Loaded("ack", c, IF expired[c] THEN "expired" ELSE "completed")]
    BY <1>6, <2>1 DEF AckLoad, CanStart, RunnerAck
  <2>3. req'[d] = Loaded("ack", c, IF expired[c] THEN "expired" ELSE "completed")
    BY <1>0, <1>2, <2>2
  <2>4. /\ req'[d].op = "ack" /\ req'[d].cmd = c /\ req'[d].snap = row[c]
        /\ req'[d].given = Nothing /\ req'[d].ack \in {"completed", "expired"}
    BY <2>3 DEF Loaded, Idle
  <2>5. \A b \in Commands : Has(d, b)' <=> Has(d, b)
    BY <1>1, <1>2, <2>2, <2>4 DEF Has, KeepsItsLeases
  <2>6. KeepsItsLeases(d)'
    BY <1>1, <1>2, <2>2, <2>4, <2>5 DEF KeepsItsLeases
  <2> QED
    BY <1>0, <2>2, <2>5, <2>6, RunnerOnlyReads
<1> QED
  BY <1>3, <1>4, <1>5, <1>6

\* A hand-out: the command is free, and has lost no hand-out more than before.
LEMMA CalmHandsOut ==
    ASSUME EdgeTypeOK, SerialInv, Calm, CalmInv, UNCHANGED world, NEW d \in world.runners,
           ServerPolls(d), PollDispatch(d)
    PROVE  CalmInv'
<1>0. /\ d \in Devices /\ d \in Clients
      /\ \A y \in Clients \ {d} : req'[y] = req[y]
      /\ \A e \in Devices \ {d} : round'[e] = round[e]
  BY RunnerAlone DEF RunnerStep
<1>1. KeepsItsLeases(d) /\ RoundOK(d) /\ Runs(d) /\ req[d] \in Requests
  BY <1>0 DEF CalmInv, EdgeTypeOK, TypeOK, Runs
<1>2. /\ req \in [Clients -> Requests] /\ round \in [Devices -> SUBSET Commands]
      /\ row \in [Commands -> Rows]
  BY DEF EdgeTypeOK, TypeOK
<1>3. /\ InPollLoop(d) /\ req[d].cmd # NoCommand
      /\ UNCHANGED <<rec, round>> /\ round[d] = {}
  BY <1>1 DEF PollDispatch, ServerPolls, RoundOK
<1> PICK c \in Commands : c = req[d].cmd
  BY <1>1, <1>3 DEF Requests, Handlers
<1> DEFINE n == sent[c] + 1
<1>4. req[d].snap = row[c] /\ row[c].status = "pending"
  BY <1>0, <1>3 DEF SerialInv, BatchIsPending
<1>5. row' = [row EXCEPT ![c] =
                  [Flush(@, row[c], Leased(row[c], d, n)) EXCEPT !.lease_until = "live"]]
  BY <1>4 DEF PollDispatch
<1>6. req'[d].op = "loop" /\ req'[d].given = [req[d].given EXCEPT ![c] = n]
  BY <1>0, <1>2 DEF PollDispatch, IterationDone, Idle
<1>7. n # 0 /\ req[d].given \in [Commands -> Numbers]
  BY <1>1 DEF EdgeTypeOK, TypeOK, Numbers, Requests, Handlers
<1> HIDE DEF n
<1>8. /\ row'[c].status = "dispatched" /\ row'[c].lease_owner = d /\ row'[c].lease_until = "live"
      /\ row'[c].retry_count = row[c].retry_count
      /\ \A b \in Commands \ {c} : row'[b] = row[b]
  <2>1. row[c] \in Rows
    BY <1>2, <1>4
  <2>2. LET r == Leased(row[c], d, n)
        IN  /\ r.status = "dispatched" /\ r.lease_owner = d
            /\ r.retry_count = row[c].retry_count
    BY <2>1 DEF Leased, Rows
  <2>3. LET f == [Flush(row[c], row[c], Leased(row[c], d, n)) EXCEPT !.lease_until = "live"]
        IN  /\ f.status = "dispatched" /\ f.lease_owner = d /\ f.lease_until = "live"
            /\ f.retry_count = row[c].retry_count
    BY <2>2 DEF Flush, Net
  <2> QED
    BY <1>2, <1>4, <1>5, <2>3
<1>9. \A e \in world.runners : ~Has(e, c)
  BY <1>4 DEF CalmInv, KeepsItsLeases
<1>10. /\ Has(d, c)' /\ \A b \in Commands \ {c} : Has(d, b)' <=> Has(d, b)
  BY <1>3, <1>4, <1>6, <1>7 DEF Has
<1>11. \A b \in Commands \ {c}, e \in world.runners : Has(e, b) => Has(e, b)'
  <2>1. \A b \in Commands, e \in world.runners \ {d} : Has(e, b) => row'[b] = row[b]
    BY <1>8, <1>9
  <2>2. \A e \in world.runners \ {d} : e \in Devices /\ e \in Clients
    BY WorldsAssumption DEF EdgeTypeOK, WorldRecords, Clients
  <2> QED
    BY <1>0, <1>10, <2>1, <2>2, LeasesKept
<1>12. ~Ended(row[c])
  BY <1>4 DEF Ended, TERMINAL_STATES
<1>13. LosesFew(c)'
  <2>1. LosesFew(c) /\ world \in Worlds
    BY <1>4 DEF CalmInv, EdgeTypeOK
  <2>2. \A o \in Commands : Ended(row[o]) => Ended(row'[o])
    BY <1>8, <1>12
  <2>3. /\ Cardinality(EndedBefore(c)) \in Nat /\ Cardinality(EndedBefore(c))' \in Nat
        /\ Cardinality(EndedBefore(c)) <= Cardinality(EndedBefore(c))'
    BY <1>4, <2>1, <2>2, EndedGrow
  <2>4. row[c].retry_count \in Nat
    BY <1>2, <1>4 DEF Rows
  <2>5. row'[c].retry_count <= Cardinality(EndedBefore(c))'
    <3> DEFINE N == Cardinality(EndedBefore(c))
               M == Cardinality(EndedBefore(c))'
    <3>1. row[c].retry_count <= N
      BY <2>1 DEF LosesFew
    <3> HIDE DEF N, M
    <3> QED
      BY <1>8, <2>3, <2>4, <3>1 DEF N, M
  <2> QED
    BY <1>4, <1>8, <1>10, <2>1, <2>5 DEF LosesFew
<1>14. \A b \in Commands : LosesFew(b)'
  BY <1>4, <1>8, <1>11, <1>12, <1>13, OneCommits
<1>15. KeepsItsLeases(d)'
  BY <1>1, <1>6, <1>8, <1>10 DEF KeepsItsLeases
<1>16. \A b \in Commands : b = rec.cmd \/ b \in rec.todo => row'[b] = row[b]
  BY <1>4, <1>8 DEF CalmInv, PassIsSo
<1> QED
  BY <1>0, <1>3, <1>8, <1>9, <1>14, <1>15, <1>16, RunnerOnly

\* An answered ACK ends its command for the first time, so that the runner may drop
\* the rest of its round.
LEMMA CalmAcked ==
    ASSUME EdgeTypeOK, Calm, CalmInv, UNCHANGED world, NEW d \in world.runners, RunnerAcked(d)
    PROVE  CalmInv'
<1>0. /\ d \in Devices /\ d \in Clients
      /\ \A y \in Clients \ {d} : req'[y] = req[y]
      /\ \A e \in Devices \ {d} : round'[e] = round[e]
  BY RunnerAlone DEF RunnerStep
<1>1. /\ KeepsItsLeases(d) /\ RoundOK(d) /\ Runs(d)
      /\ req \in [Clients -> Requests] /\ round \in [Devices -> SUBSET Commands]
      /\ row \in [Commands -> Rows]
  BY <1>0 DEF CalmInv, EdgeTypeOK, TypeOK, Runs
<1>2. req[d].op = "ack" /\ req[d].cmd \in round[d] /\ UNCHANGED rec
  BY <1>1 DEF RunnerAcked, AckCommit, RoundOK, IsFirst
<1> PICK c \in Commands : c = req[d].cmd
  BY <1>0, <1>1, <1>2
<1>3. /\ req[d].snap = row[c] /\ req[d].ack \in {"completed", "expired"}
      /\ row[c].status = "dispatched" /\ row[c].lease_owner = d /\ row[c].lease_until = "live"
  BY <1>1, <1>2 DEF KeepsItsLeases, Has
<1> DEFINE ack == req[d].ack
<1>4. /\ row' = [row EXCEPT ![c] = Flush(@, row[c], AckedRow(row[c], ack))]
      /\ req'[d] = Idle
  BY <1>0, <1>1, <1>3 DEF RunnerAcked, AckCommit
<1>5. round'[d] \subseteq round[d] \ {c}
  <2>1. round' = Answers(d, c, ack # "expired")
    BY DEF RunnerAcked, Faulty, Calm
  <2> QED
    BY <1>0, <1>1, <2>1 DEF Answers, Dropped, Rest
<1>6. /\ row'[c].status = ack /\ row'[c].retry_count = row[c].retry_count
      /\ \A b \in Commands \ {c} : row'[b] = row[b]
  <2>1. row[c] \in Rows /\ ~Retries(row[c], ack)
    BY <1>1, <1>3 DEF Retries
  <2>2. Released(row[c]).retry_count = row[c].retry_count /\ Released(row[c]) \in Rows
    BY <2>1 DEF Released, Rows
  <2>3. LET r == AckedRow(row[c], ack)
        IN  r.status = ack /\ r.retry_count = row[c].retry_count
    BY <2>1, <2>2 DEF AckedRow, Rows
  <2>4. LET f == Flush(row[c], row[c], AckedRow(row[c], ack))
        IN  f.status = ack /\ f.retry_count = row[c].retry_count
    BY <2>3 DEF Flush, Net
  <2> QED
    BY <1>1, <1>4, <2>4
<1>7. /\ ~Ended(row[c]) /\ Ended(row'[c]) /\ c \in world.queue
      /\ row'[c].status \notin {"absent", "dispatched", "failed"}
  <2>1. LosesFew(c)
    BY DEF CalmInv
  <2> QED
    BY <1>3, <1>6, <2>1 DEF Ended, TERMINAL_STATES, LosesFew
<1>8. \A e \in world.runners \ {d} : ~Has(e, c)
  BY <1>3 DEF CalmInv, KeepsItsLeases
<1>9. LosesFew(c)'
  <2>1. LosesFew(c) /\ world \in Worlds
    BY DEF CalmInv, EdgeTypeOK
  <2>2. \A o \in Commands : Ended(row[o]) => Ended(row'[o])
    BY <1>6, <1>7
  <2>3. EndedBefore(c)' = EndedBefore(c)
    BY <1>6, <1>1, WorldsAssumption, <2>1 DEF EndedBefore, WorldRecords
  <2> QED
    BY <1>6, <1>7, <2>1, <2>3 DEF LosesFew
<1>10. \A b \in Commands : LosesFew(b)'
  BY <1>6, <1>7, <1>9, OneCommits
<1>11. req'[d].op = "idle" /\ \A b \in Commands : req'[d].given[b] = 0
  BY <1>4 DEF Idle, Nothing
<1>12. \A b \in Commands : Has(d, b)' => Has(d, b) /\ row'[b] = row[b]
  BY <1>5, <1>6, <1>11 DEF Has
<1>13. KeepsItsLeases(d)'
  BY <1>1, <1>11, <1>12 DEF KeepsItsLeases
<1>14. \A b \in Commands : b = rec.cmd \/ b \in rec.todo => row'[b] = row[b]
  BY <1>3, <1>6 DEF CalmInv, PassIsSo
<1> QED
  BY <1>0, <1>2, <1>6, <1>8, <1>10, <1>13, <1>14, RunnerOnly

\* An ACK of a command that its runner has is not refused.
LEMMA CalmNotRefused ==
    ASSUME EdgeTypeOK, Calm, CalmInv, NEW d \in world.runners
    PROVE  ~RunnerRefused(d)
<1> SUFFICES ASSUME NEW c \in Commands, IsFirst(c, round[d]), ~AckAccepted(d, c, 0)
             PROVE  FALSE
  BY DEF RunnerRefused
<1>1. row[c].status = "dispatched" /\ row[c].lease_owner = d
  BY DEF IsFirst, Has, CalmInv, KeepsItsLeases
<1> QED
  BY <1>1 DEF AckAccepted, TERMINAL_STATES

\* A step of others, which leaves what runners have alone.
LEMMA RunnersRest ==
    ASSUME EdgeTypeOK, Calm, CalmInv, UNCHANGED <<world, round>>,
           \A e \in Devices : req'[e] = req[e],
           \A e \in world.runners, b \in Commands : Has(e, b) => row'[b] = row[b]
    PROVE  /\ \A e \in world.runners : KeepsItsLeases(e)'
           /\ \A e \in world.runners, b \in Commands : Has(e, b) => Has(e, b)'
<1>1. world.runners \subseteq Devices
  BY WorldsAssumption DEF EdgeTypeOK, WorldRecords
<1> QED
  BY <1>1, LeasesKept

\* The recovery job takes commands from nobody, and gives them a retry that others'
\* ends have paid for.
LEMMA CalmRecovers ==
    ASSUME EdgeTypeOK, Calm, CalmInv, UNCHANGED <<world, round>>, RecoverStep
    PROVE  CalmInv'
<1>1. /\ UNCHANGED req /\ PassIsSo /\ world \in Worlds /\ row \in [Commands -> Rows]
      /\ rec.cmd \in Commands \cup {NoCommand} /\ rec.todo \subseteq Commands
      /\ NoCommand \notin Commands
  BY CommandsAssumption DEF RecoverStep, RecoverSelect, RecoverCommit, RecoverNext, CalmInv, EdgeTypeOK, TypeOK,
         Passes, NoCommand
<1>2. CASE RecoverSelect \/ RecoverNext
  <2>1. UNCHANGED row
    BY <1>2 DEF RecoverSelect, RecoverNext
  <2>2. PassIsSo'
    <3>1. CASE RecoverSelect
      <4>1. PICK c \in Commands :
                /\ rec'.cmd = c /\ rec'.snap = row[c]
                /\ row[c].status = "dispatched" /\ row[c].lease_until = "lapsed"
                /\ c \notin rec'.todo
                /\ \A b \in rec'.todo : row[b].status = "dispatched" /\ row[b].lease_until = "lapsed"
        BY <3>1 DEF RecoverSelect
      <4> QED
        BY <2>1, <4>1 DEF PassIsSo
    <3>2. CASE RecoverNext
      <4>1. PICK c \in rec.todo : rec' = [cmd |-> c, snap |-> row[c], todo |-> rec.todo \ {c}]
        BY <3>2 DEF RecoverNext
      <4> QED
        BY <1>1, <2>1, <4>1 DEF PassIsSo
    <3> QED
      BY <1>2, <3>1, <3>2
  <2>3. /\ \A e \in world.runners : KeepsItsLeases(e)'
        /\ \A e \in world.runners, b \in Commands : Has(e, b) => Has(e, b)'
    BY <1>1, <2>1, RunnersRest
  <2>4. \A b \in Commands : LosesFew(b)'
    BY <2>1, <2>3, NoneLoses
  <2> QED
    BY <1>1, <2>2, <2>3, <2>4 DEF CalmInv
<1>3. CASE RecoverCommit
  <2> PICK c \in Commands : c = rec.cmd
    BY <1>1, <1>3 DEF RecoverCommit
  <2>1. /\ row[c].status = "dispatched" /\ row[c].lease_until = "lapsed" /\ rec.snap = row[c]
        /\ row[c] \in Rows
    BY <1>1 DEF PassIsSo
  <2>2. /\ row' = [row EXCEPT ![c] = Flush(@, row[c], RecoveredRow(row[c]))]
        /\ rec' = [NoPass EXCEPT !.todo = rec.todo]
    BY <1>3, <2>1 DEF RecoverCommit
  <2>3. \A e \in world.runners : ~Has(e, c)
    BY <2>1 DEF CalmInv, KeepsItsLeases
  <2> DEFINE lost == row[c].retry_count
             N == Cardinality(EndedBefore(c))
             Q == Cardinality(world.queue)
  <2>4. c \in world.queue /\ lost + 1 <= N /\ lost \in Nat
    <3>1. LosesFew(c)
      BY DEF CalmInv
    <3> QED
      BY <2>1, <2>3, <3>1 DEF LosesFew, Rows
  <2>5. Q \in Nat /\ N + 1 <= Q
    BY <1>1, <2>4, FewEnd
  <2>6. /\ \A o \in Commands \ {c} : row'[o] = row[o]
        /\ row'[c].status = IF lost < MaxRetries THEN "pending" ELSE "failed"
        /\ row'[c].retry_count = IF lost < MaxRetries THEN lost + 1 ELSE lost
    <3>1. Released(row[c]) \in Rows /\ Released(row[c]).retry_count = lost
      BY <2>1 DEF Released, Rows
    <3>2. LET r == RecoveredRow(row[c])
          IN  /\ r.status = IF lost < MaxRetries THEN "pending" ELSE "failed"
              /\ r.retry_count = IF lost < MaxRetries THEN lost + 1 ELSE lost
      BY <3>1 DEF RecoveredRow, Rows
    <3>3. LET f == Flush(row[c], row[c], RecoveredRow(row[c]))
          IN  /\ f.status = IF lost < MaxRetries THEN "pending" ELSE "failed"
              /\ f.retry_count = IF lost < MaxRetries THEN lost + 1 ELSE lost
      BY <3>2 DEF Flush, Net
    <3> QED
      BY <1>1, <2>2, <3>3
  <2>7. EndedBefore(c)' = EndedBefore(c)
    BY <1>1, <2>6, WorldsAssumption DEF EndedBefore, WorldRecords
  <2>8. N \in Nat
    BY <1>1, CommandsAssumption, WorldsAssumption, FS_Subset, FS_CardinalityType DEF EndedBefore, WorldRecords
  <2>9. /\ Q <= MaxRetries + 1 => lost < MaxRetries
        /\ lost <= N
    <3>1. MaxRetries \in Nat
      BY RowAssumption
    <3> HIDE DEF lost, N, Q
    <3> QED
      BY <2>4, <2>5, <2>8, <3>1
  <2>10. LosesFew(c)'
    <3>1. row'[c].retry_count <= N
      BY <2>4, <2>6, <2>9
    <3>2. row'[c].status # "dispatched" /\ (Q <= MaxRetries + 1 => row'[c].status # "failed")
      BY <2>6, <2>9
    <3> QED
      BY <2>4, <2>7, <3>1, <3>2 DEF LosesFew
  <2>11. \A e \in world.runners, b \in Commands : Has(e, b) => row'[b] = row[b]
    BY <2>3, <2>6
  <2>12. /\ \A e \in world.runners : KeepsItsLeases(e)'
         /\ \A e \in world.runners, b \in Commands : Has(e, b) => Has(e, b)'
    BY <1>1, <2>11, RunnersRest
  <2>13. ~Ended(row[c])
    BY <2>1 DEF Ended, TERMINAL_STATES
  <2>14. \A b \in Commands : LosesFew(b)'
    BY <2>6, <2>10, <2>12, <2>13, OneCommits
  <2>15. PassIsSo'
    <3>1. rec'.cmd = NoCommand /\ rec'.todo = rec.todo
      BY <2>2 DEF NoPass
    <3>2. c \notin rec.todo
      BY <1>1 DEF PassIsSo
    <3> QED
      BY <1>1, <2>6, <3>1, <3>2 DEF PassIsSo
  <2> QED
    BY <1>1, <2>12, <2>14, <2>15 DEF CalmInv
<1> QED
  BY <1>2, <1>3 DEF RecoverStep


\* Creations, cancellations and time.
LEMMA CalmRests ==
    ASSUME EdgeTypeOK, SerialInv, Calm, CalmInv, UNCHANGED <<world, round>>,
           \/ \E c \in world.queue : Create(c)
           \/ \E c \in Commands : EdgeTime(c)
           \/ CancelStep
    PROVE  CalmInv'
<1>1. /\ world \in Worlds /\ world.runners \subseteq Devices /\ world.queue \subseteq Commands
      /\ row \in [Commands -> Rows] /\ req \in [Clients -> Requests]
      /\ Operator \in Clients /\ Operator \notin Devices /\ Devices \subseteq Clients
  BY WorldsAssumption, ClientsAssumption DEF EdgeTypeOK, TypeOK, WorldRecords, Clients
<1>2. UNCHANGED rec /\ \A e \in Devices : req'[e] = req[e]
  BY <1>1 DEF Create, EdgeTime, TimeStep, LeaseLapse, BackoffElapse, CommandExpire, CancelStep,
              CancelLoad, CancelCommit
<1>3. ASSUME UNCHANGED row,
             req'[Operator].op = "cancel" => req'[Operator].cmd \in world.queue
      PROVE  CalmInv'
  <2>1. /\ \A e \in world.runners : KeepsItsLeases(e)'
        /\ \A e \in world.runners, b \in Commands : Has(e, b) => Has(e, b)'
    BY <1>2, <1>3, RunnersRest
  <2>2. \A b \in Commands : LosesFew(b)'
    BY <1>3, <2>1, NoneLoses
  <2>3. PassIsSo'
    BY <1>2, <1>3, PassKept DEF CalmInv, EdgeTypeOK
  <2> QED
    BY <1>3, <2>1, <2>2, <2>3 DEF CalmInv
<1>4. ASSUME NEW c \in Commands,
             \A b \in Commands \ {c} : row'[b] = row[b],
             Ended(row[c]) => Ended(row'[c]),
             \A e \in world.runners : ~Has(e, c),
             c # rec.cmd /\ c \notin rec.todo,
             row'[c].retry_count = row[c].retry_count,
             row'[c].status # "absent" => c \in world.queue,
             row'[c].status \in {row[c].status, "pending", "cancelled"},
             req'[Operator].op = "cancel" => req'[Operator].cmd \in world.queue
      PROVE  CalmInv'
  <2>1. /\ \A e \in world.runners : KeepsItsLeases(e)'
        /\ \A e \in world.runners, b \in Commands : Has(e, b) => Has(e, b)'
    <3>1. \A e \in world.runners, b \in Commands : Has(e, b) => row'[b] = row[b]
      BY <1>4
    <3> QED
      BY <1>2, <3>1, RunnersRest
  <2>2. LosesFew(c)'
    <3>1. EndedBefore(c)' = EndedBefore(c)
      BY <1>1, <1>4 DEF EndedBefore
    <3>2. LosesFew(c)
      BY DEF CalmInv
    <3> QED
      BY <1>4, <3>1, <3>2 DEF LosesFew
  <2>3. \A b \in Commands : LosesFew(b)'
    BY <1>4, <2>1, <2>2, OneCommits
  <2>4. PassIsSo'
    <3>1. \A b \in Commands : b = rec.cmd \/ b \in rec.todo => row'[b] = row[b]
      BY <1>4
    <3> QED
      BY <1>2, <3>1, PassKept DEF CalmInv, EdgeTypeOK
  <2> QED
    BY <1>4, <2>1, <2>3, <2>4 DEF CalmInv
<1>5. req[Operator].op = "cancel" => req[Operator].cmd \in world.queue
  BY DEF CalmInv
<1>6. ASSUME NEW c \in Commands, row[c].status # "dispatched" \/ row[c].lease_until = "live"
      PROVE  c # rec.cmd /\ c \notin rec.todo
  BY <1>6 DEF CalmInv, PassIsSo
<1>7. ASSUME NEW c \in Commands, row[c].status # "dispatched"
      PROVE  \A e \in world.runners : ~Has(e, c)
  BY <1>7 DEF CalmInv, KeepsItsLeases
<1>8. ASSUME NEW c \in world.queue, Create(c)
      PROVE  CalmInv'
  <2>1. row[c].status = "absent" /\ row' = [row EXCEPT ![c] = NewRow] /\ req' = req /\ c \in Commands
    BY <1>1, <1>8 DEF Create
  <2>2. row'[c] = NewRow /\ \A b \in Commands \ {c} : row'[b] = row[b]
    BY <1>1, <2>1
  <2>3. NewRow.status = "pending" /\ NewRow.retry_count = 0
    BY DEF NewRow, AbsentRow
  <2>4. /\ c # rec.cmd /\ c \notin rec.todo
        /\ \A e \in world.runners : ~Has(e, c)
    BY <1>6, <1>7, <2>1
  <2>5. LosesFew(c)'
    <3>1. Cardinality(EndedBefore(c))' \in Nat
      <4>1. \A o \in Commands : Ended(row[o]) => Ended(row'[o])
        BY <2>1, <2>2 DEF Ended, TERMINAL_STATES
      <4> QED
        BY <1>1, <2>1, <4>1, EndedGrow
    <3> DEFINE N == Cardinality(EndedBefore(c))'
    <3>2. 0 <= N
      <4> HIDE DEF N
      <4> QED
        BY <3>1 DEF N
    <3> QED
      BY <1>8, <2>2, <2>3, <3>2 DEF LosesFew
  <2>6. \A e \in world.runners, b \in Commands : Has(e, b) => row'[b] = row[b]
    BY <2>2, <2>4
  <2>7. /\ \A e \in world.runners : KeepsItsLeases(e)'
        /\ \A e \in world.runners, b \in Commands : Has(e, b) => Has(e, b)'
    BY <1>2, <2>6, RunnersRest
  <2>8. ~Ended(row[c])
    BY <2>1 DEF Ended, TERMINAL_STATES
  <2>9. \A b \in Commands : LosesFew(b)'
    BY <2>1, <2>2, <2>5, <2>7, <2>8, OneCommits
  <2>10. PassIsSo'
    <3>1. \A b \in Commands : b = rec.cmd \/ b \in rec.todo => row'[b] = row[b]
      BY <2>2, <2>4
    <3> QED
      BY <1>2, <3>1, PassKept DEF CalmInv, EdgeTypeOK
  <2> QED
    BY <1>5, <2>1, <2>7, <2>9, <2>10 DEF CalmInv
<1>9. ASSUME NEW c \in Commands, EdgeTime(c)
      PROVE  CalmInv'
  <2>1. UNCHANGED req
    BY <1>9 DEF EdgeTime, TimeStep, LeaseLapse, BackoffElapse, CommandExpire
  <2>2. CASE LeaseLapse(c)
    <3>1. row[c].lease_until = "live" /\ row' = [row EXCEPT ![c].lease_until = "lapsed"]
      BY <2>2 DEF LeaseLapse
    <3>2. /\ row'[c] = [row[c] EXCEPT !.lease_until = "lapsed"]
          /\ \A b \in Commands \ {c} : row'[b] = row[b]
      BY <1>1, <3>1
    <3>3. /\ row'[c].lease_until = "lapsed" /\ row'[c].status = row[c].status
          /\ row'[c].retry_count = row[c].retry_count
      BY <1>1, <3>2 DEF Rows
    <3>4. \A e \in world.runners : ~Has(e, c)
      BY <1>9, <3>3 DEF EdgeTime, WithRunner, Has, Calm
    <3>5. row[c].status # "absent" => c \in world.queue
      BY DEF CalmInv, LosesFew
    <3>6. Ended(row[c]) => Ended(row'[c])
      BY <3>3 DEF Ended
    <3>7. c # rec.cmd /\ c \notin rec.todo
      BY <1>6, <3>1
    <3> QED
      BY <1>4, <1>5, <2>1, <3>2, <3>3, <3>4, <3>5, <3>6, <3>7
  <2>3. CASE BackoffElapse(c) \/ CommandExpire(c)
    <3>1. UNCHANGED row
      BY <2>3 DEF BackoffElapse, CommandExpire
    <3> QED
      BY <1>3, <1>5, <2>1, <3>1
  <2> QED
    BY <1>9, <2>2, <2>3 DEF EdgeTime, TimeStep
<1>10. ASSUME NEW c \in Commands, CancelLoad(c)
       PROVE  CalmInv'
  <2>1. /\ row[c].status \in {"pending", "sent"} /\ UNCHANGED row
        /\ req'[Operator] = Loaded("cancel", c, "none")
    BY <1>1, <1>10 DEF CancelLoad
  <2>2. req'[Operator].cmd = c
    BY <2>1 DEF Loaded, Idle
  <2>3. c \in world.queue
    BY <2>1 DEF CalmInv, LosesFew
  <2> QED
    BY <1>3, <2>1, <2>2, <2>3
<1>11. CASE CancelCommit
  <2> PICK c \in Commands : c = req[Operator].cmd /\ c \in world.queue
    BY <1>1, <1>5, <1>11 DEF CancelCommit
  <2>1. /\ row' = [row EXCEPT ![c].status = "cancelled"]
        /\ req'[Operator] = Idle
    BY <1>1, <1>11 DEF CancelCommit
  <2>2. row'[c] = [row[c] EXCEPT !.status = "cancelled"] /\ \A b \in Commands \ {c} : row'[b] = row[b]
    BY <1>1, <2>1
  <2>3. row'[c].status = "cancelled" /\ row'[c].retry_count = row[c].retry_count
    BY <1>1, <2>2 DEF Rows
  <2>4. row[c].status # "dispatched"
    BY <1>11 DEF CancelCommit, SerialInv, SnapshotsUseful, LeaseConsistent, Consistent
  <2>5. Ended(row'[c])
    BY <2>3 DEF Ended, TERMINAL_STATES
  <2>6. req'[Operator].op = "idle"
    BY <2>1 DEF Idle
  <2>7. c # rec.cmd /\ c \notin rec.todo /\ \A e \in world.runners : ~Has(e, c)
    BY <1>6, <1>7, <2>4
  <2> QED
    BY <1>4, <2>2, <2>3, <2>5, <2>6, <2>7
<1> QED
  BY <1>8, <1>9, <1>10, <1>11 DEF CancelStep

LEMMA CalmStep == EdgeTypeOK /\ SerialInv /\ CalmInv /\ [EdgeNext]_edgeVars => CalmInv'
<1> SUFFICES ASSUME EdgeTypeOK, SerialInv, CalmInv, [EdgeNext]_edgeVars
             PROVE  CalmInv'
  OBVIOUS
<1>1. UNCHANGED world
  BY DEF EdgeNext, edgeVars
<1>2. CASE ~Calm
  BY <1>1, <1>2 DEF CalmInv, Calm
<1>3. CASE UNCHANGED edgeVars
  BY <1>3 DEF edgeVars, CalmInv, Calm, LosesFew, EndedBefore, KeepsItsLeases, Has, PassIsSo
<1>4. CASE Calm /\ EdgeNext
  <2>1. ASSUME NEW d \in world.runners, RunnerStep(d)
        PROVE  CalmInv'
    <3>1. CASE RunnerPoll(d) \/ RunnerReceives(d) \/ RunnerAck(d)
      BY <1>1, <1>4, <3>1, CalmReads
    <3>2. CASE ServerPolls(d)
      BY <1>1, <1>4, <3>2, CalmReads, CalmHandsOut
    <3>3. CASE RunnerAcked(d)
      BY <1>1, <1>4, <3>3, CalmAcked
    <3>4. CASE RunnerRefused(d)
      BY <1>4, <3>4, CalmNotRefused
    <3> QED
      BY <2>1, <3>1, <3>2, <3>3, <3>4 DEF RunnerStep
  <2>2. ~Faulty /\ world.others = {}
    BY <1>4 DEF Calm, Faulty
  <2>3. CASE RecoverStep /\ UNCHANGED round
    BY <1>1, <1>4, <2>3, CalmRecovers
  <2>4. CASE (\/ \E c \in world.queue : Create(c)
              \/ \E c \in Commands : EdgeTime(c)
              \/ CancelStep) /\ UNCHANGED round
    BY <1>1, <1>4, <2>4, CalmRests
  <2> QED
    BY <1>4, <2>1, <2>2, <2>3, <2>4 DEF EdgeNext, EdgeRequestDies, EdgeRestart
<1> QED
  BY <1>2, <1>3, <1>4

\* With one synchronous worker, at a site whose runners poll and acknowledge in calm -
\* no message is lost, nothing dies, and no lease lapses while its runner is at work -
\* a command loses a hand-out only to another one that ends, and so none fails while
\* there are no more of them than hand-outs: the runner's exception costs a command
\* one retry for each command served before it, and no more.
THEOREM CalmSitesFailNone == Serial => (EdgeSpec => []CalmFailsNone)
<1> SUFFICES ASSUME Serial
             PROVE  EdgeSpec => []CalmFailsNone
  OBVIOUS
<1>1. EdgeInit => CalmInv
  <2> SUFFICES ASSUME EdgeInit
               PROVE  CalmInv
    OBVIOUS
  <2>1. /\ world \in Worlds /\ world.runners \subseteq Devices /\ Devices \subseteq Clients
        /\ world.queue \subseteq Commands /\ Operator \in Clients
    BY WorldsAssumption DEF EdgeInit, WorldRecords, Clients
  <2>2. \A x \in Clients : /\ req[x].op = "idle"
                           /\ \A c \in Commands : req[x].given[c] = 0
    BY DEF EdgeInit, Init, Idle, Nothing
  <2>3. \A c \in Commands : row[c].status = "absent" /\ row[c].retry_count = 0
    BY DEF EdgeInit, Init, AbsentRow
  <2>4. \A d \in world.runners, c \in Commands : ~Has(d, c)
    BY <2>1, <2>2 DEF EdgeInit, Has
  <2>5. \A d \in world.runners : KeepsItsLeases(d)
    BY <2>1, <2>2, <2>4 DEF KeepsItsLeases
  <2>6. ASSUME NEW c \in Commands
        PROVE  LosesFew(c)
    <3>1. EndedBefore(c) = {}
      BY <2>1, <2>3 DEF EndedBefore, Ended, TERMINAL_STATES
    <3>2. Cardinality(EndedBefore(c)) = 0
      BY <3>1, FS_EmptySet
    <3> QED
      BY <2>3, <3>2 DEF LosesFew
  <2>7. PassIsSo
    BY CommandsAssumption DEF EdgeInit, Init, NoPass, PassIsSo, NoCommand
  <2> QED
    BY <2>1, <2>2, <2>5, <2>6, <2>7 DEF CalmInv
<1>2. CalmInv => CalmFailsNone
  BY DEF CalmInv, Calm, LosesFew, CalmFailsNone
<1> QED
  BY <1>1, <1>2, CalmStep, EdgeTyping, RunnersAreDevices, SerialInvariant, PTL DEF EdgeSpec
=============================================================================
