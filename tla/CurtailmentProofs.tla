-------------------------- MODULE CurtailmentProofs --------------------------
(***************************************************************************)
(* Proofs about Curtailment, for any numbers of plans, miners and requests: *)
(* every variable keeps its type, an executing plan holds its miners, a     *)
(* finished plan stays finished, and few steps leave a miner in maintenance *)
(* for good.                                                                *)
(***************************************************************************)
EXTENDS Curtailment, TLAPS

\* A task of a thread, as TypeOK has it.
TaskOK(k) == k \in Tasks /\ (k.op = "next" => k.todo # {})

\* The thread that is idle has a task, and Do makes one.
LEMMA MadeTasks ==
    /\ TaskOK(Idle)
    /\ \A op \in Ops \ {"next"}, p \in Plans : TaskOK(Do(op, p))
<1>1. Idle \in Tasks
  BY DEF Idle, Tasks, Ops
<1>2. ASSUME NEW op \in Ops, NEW p \in Plans
      PROVE  Do(op, p) \in Tasks
  BY <1>1 DEF Do, Idle, Tasks
<1>3. ASSUME NEW op \in Ops \ {"next"}, NEW p \in Plans
      PROVE  Do(op, p).op # "next"
  BY DEF Do, Idle
<1> QED
  BY <1>1, <1>2, <1>3 DEF TaskOK, Idle

\* What is left of a task when its plan is done is a task.
LEMMA DoneTask ==
    ASSUME TypeOK, NEW t \in Threads
    PROVE  TaskOK(Done(t))
<1>1. task[t].todo \in SUBSET Plans
  BY DEF TypeOK, Tasks
<1>2. CASE task[t].todo = {}
  BY <1>2, MadeTasks DEF Done
<1>3. CASE task[t].todo # {}
  <2>1. [Idle EXCEPT !.op = "next", !.todo = task[t].todo] \in Tasks
    BY <1>1 DEF Idle, Tasks, Ops
  <2>2. [Idle EXCEPT !.op = "next", !.todo = task[t].todo].todo = task[t].todo
    BY DEF Idle
  <2> QED
    BY <1>3, <2>1, <2>2 DEF Done, TaskOK
<1> QED
  BY <1>2, <1>3

\* A thread that is given a task leaves all threads with tasks.
LEMMA SetTask ==
    ASSUME TypeOK, NEW t \in Threads, NEW k, TaskOK(k), Set(t, k)
    PROVE  /\ task' \in [Threads -> Tasks]
           /\ \A u \in Threads : task'[u].op = "next" => task'[u].todo # {}
           /\ task'[t] = k
           /\ \A u \in Threads \ {t} : task'[u] = task[u]
<1>1. task \in [Threads -> Tasks]
  BY DEF TypeOK
<1>2. task' = [task EXCEPT ![t] = k]
  BY DEF Set
<1>3. /\ task'[t] = k
      /\ \A u \in Threads \ {t} : task'[u] = task[u]
      /\ task' \in [Threads -> Tasks]
  BY <1>1, <1>2 DEF TaskOK
<1> QED
  BY <1>3 DEF TypeOK, TaskOK

\* The variables that an action leaves alone, or changes by one value.
LEMMA KeptTypes ==
    ASSUME TypeOK
    PROVE  /\ UNCHANGED status => status' \in [Plans -> PlanStatus]
           /\ UNCHANGED <<auto, ends>> => auto' \in [Plans -> BOOLEAN] /\ ends' \in [Plans -> BOOLEAN]
           /\ UNCHANGED clock => clock' \in [Plans -> {"early", "begun", "over"}]
           /\ UNCHANGED miner => miner' \in [Miners -> MinerStatus]
           /\ UNCHANGED shut => shut' \in [Plans -> SUBSET Miners]
           /\ UNCHANGED moved => moved' \subseteq Miners
           /\ UNCHANGED task => /\ task' \in [Threads -> Tasks]
                                /\ \A t \in Threads : task'[t].op = "next" => task'[t].todo # {}
           /\ UNCHANGED <<errors, world>> => world' \in Worlds /\ errors' \in 0..world'.errors
           /\ \A t, p, s : s \in PlanStatus /\ Writes(t, p, s) => status' \in [Plans -> PlanStatus]
           /\ \A S : Down(S) \/ Awake(S) => miner' \in [Miners -> MinerStatus]
<1>1. \A t, p, s : s \in PlanStatus /\ Writes(t, p, s) => status' \in [Plans -> PlanStatus]
  BY DEF TypeOK, Writes
<1>2. \A S : Down(S) \/ Awake(S) => miner' \in [Miners -> MinerStatus]
  BY DEF TypeOK, Down, Awake, MinerStatus
<1> QED
  BY <1>1, <1>2 DEF TypeOK

\* The other tasks that actions make.
LEMMA UpdatedTasks ==
    ASSUME TypeOK, NEW t \in Threads, NEW op \in Ops \ {"next"}, NEW S \in SUBSET Miners
    PROVE  /\ TaskOK([task[t] EXCEPT !.op = op])
           /\ TaskOK([task[t] EXCEPT !.op = op, !.miners = S])
<1>1. task[t] \in Tasks
  BY DEF TypeOK
<1>2. TaskOK([task[t] EXCEPT !.op = op])
  BY <1>1 DEF TaskOK, Tasks
<1>3. TaskOK([task[t] EXCEPT !.op = op, !.miners = S])
  BY <1>1 DEF TaskOK, Tasks
<1> QED
  BY <1>2, <1>3

LEMMA TasksOfPlans ==
    ASSUME NEW op \in Ops \ {"next"}, NEW T \in SUBSET Plans
    PROVE  /\ \A p \in Plans : /\ TaskOK([Do(op, p) EXCEPT !.todo = T])
                              /\ TaskOK([Do(op, p) EXCEPT !.then = "cancel"])
           /\ TaskOK([Idle EXCEPT !.op = op, !.todo = T])
           /\ T # {} => TaskOK([Idle EXCEPT !.op = "next", !.todo = T])
<1>2. Idle \in Tasks /\ \A p \in Plans : Do(op, p) \in Tasks
  BY MadeTasks DEF TaskOK
<1>5. \A p \in Plans : /\ [Do(op, p) EXCEPT !.todo = T] \in Tasks
                       /\ [Do(op, p) EXCEPT !.then = "cancel"] \in Tasks
  BY <1>2 DEF Tasks
<1>6. \A p \in Plans : /\ [Do(op, p) EXCEPT !.todo = T].op = op
                       /\ [Do(op, p) EXCEPT !.then = "cancel"].op = op
  BY DEF Do, Idle
<1>7. \A o \in Ops : [Idle EXCEPT !.op = o, !.todo = T] \in Tasks
  BY <1>2 DEF Tasks
<1>8. \A o \in Ops : /\ [Idle EXCEPT !.op = o, !.todo = T].op = o
                     /\ [Idle EXCEPT !.op = o, !.todo = T].todo = T
  BY DEF Idle
<1>9. "next" \in Ops
  BY DEF Ops
<1>10. \A p \in Plans : /\ TaskOK([Do(op, p) EXCEPT !.todo = T])
                        /\ TaskOK([Do(op, p) EXCEPT !.then = "cancel"])
  BY <1>5, <1>6 DEF TaskOK
<1>11. TaskOK([Idle EXCEPT !.op = op, !.todo = T])
  BY <1>7, <1>8 DEF TaskOK
<1>12. T # {} => TaskOK([Idle EXCEPT !.op = "next", !.todo = T])
  BY <1>7, <1>8, <1>9 DEF TaskOK
<1> QED
  BY <1>10, <1>11, <1>12

\* The steps that change nothing but the task of one thread.
Reads(t) == /\ \E k : TaskOK(k) /\ Set(t, k)
            /\ UNCHANGED <<plans, miner, shut, world, moved>>

LEMMA ThreadReads ==
    ASSUME TypeOK, NEW t \in Threads,
           ExecuteChoose(t) \/ RecoverLoad(t) \/ RecoverRead(t) \/ Fail(t)
    PROVE  Reads(t)
<1>1. CASE ExecuteChoose(t)
  <2>1. PICK picked \in SUBSET Miners \ {{}} :
            Set(t, [task[t] EXCEPT !.op = "shut",
                                   !.miners = {m \in picked : miner[m] = "active"}])
    BY <1>1 DEF ExecuteChoose
  <2>2. {m \in picked : miner[m] = "active"} \in SUBSET Miners /\ "shut" \in Ops \ {"next"}
    BY DEF Ops
  <2>3. TaskOK([task[t] EXCEPT !.op = "shut", !.miners = {m \in picked : miner[m] = "active"}])
    BY <2>2, UpdatedTasks
  <2> QED
    BY <1>1, <2>1, <2>3 DEF ExecuteChoose, Reads
<1>2. CASE RecoverLoad(t)
  <2>1. TaskOK([task[t] EXCEPT !.op = "recover"])
    <3>1. "recover" \in Ops \ {"next"}
      BY DEF Ops
    <3> QED
      BY <3>1, UpdatedTasks
  <2> QED
    BY <1>2, <2>1, DoneTask DEF RecoverLoad, Reads
<1>3. CASE RecoverRead(t)
  <2>1. Curtailed(task[t].plan) \in SUBSET Miners
    BY DEF Curtailed
  <2>2. "wake" \in Ops \ {"next"}
    BY DEF Ops
  <2>3. TaskOK([task[t] EXCEPT !.op = "wake", !.miners = Curtailed(task[t].plan)])
    BY <2>1, <2>2, UpdatedTasks
  <2> QED
    BY <1>3, <2>3 DEF RecoverRead, Reads
<1>4. CASE Fail(t)
  BY <1>4, DoneTask, MadeTasks DEF Fail, Reads
<1> QED
  BY <1>1, <1>2, <1>3, <1>4

LEMMA JobReads ==
    /\ TypeOK /\ (PendingSelect \/ PendingNext) => Reads("executor")
    /\ TypeOK /\ (RecoverySelect \/ RecoveryNext) => Reads("recoverer")
<1> DEFINE X == task["executor"]
           R == task["recoverer"]
<1>0. /\ "executor" \in Threads /\ "recoverer" \in Threads
      /\ "execute" \in Ops \ {"next"} /\ "mark" \in Ops \ {"next"}
  BY DEF Threads, Ops
<1>1. ASSUME TypeOK, PendingSelect
      PROVE  Reads("executor")
  <2>1. PICK p \in DuePlans : Set("executor", [Do("execute", p) EXCEPT !.todo = DuePlans \ {p}])
    BY <1>1 DEF PendingSelect
  <2>2. p \in Plans /\ DuePlans \ {p} \in SUBSET Plans
    BY <2>1 DEF DuePlans
  <2>3. TaskOK([Do("execute", p) EXCEPT !.todo = DuePlans \ {p}])
    BY <1>0, <1>1, <2>2, TasksOfPlans
  <2> QED
    BY <1>1, <2>1, <2>3 DEF PendingSelect, Reads
<1>2. ASSUME TypeOK, PendingNext
      PROVE  Reads("executor")
  <2>1. X.todo \in SUBSET Plans
    BY <1>0, <1>2 DEF TypeOK, Tasks
  <2>2. PICK p \in X.todo :
            Set("executor",
                IF status[p] \in Executable THEN [Do("execute", p) EXCEPT !.todo = X.todo \ {p}]
                ELSE IF X.todo \ {p} = {} THEN Idle
                ELSE [Idle EXCEPT !.op = "next", !.todo = X.todo \ {p}])
    BY <1>2 DEF PendingNext
  <2>3. p \in Plans /\ X.todo \ {p} \in SUBSET Plans
    BY <2>1, <2>2
  <2>4. /\ TaskOK([Do("execute", p) EXCEPT !.todo = X.todo \ {p}])
        /\ X.todo \ {p} # {} => TaskOK([Idle EXCEPT !.op = "next", !.todo = X.todo \ {p}])
    BY <1>0, <1>2, <2>3, TasksOfPlans
  <2> HIDE DEF X
  <2> QED
    BY <1>2, <2>2, <2>4, MadeTasks DEF PendingNext, Reads
<1>3. ASSUME TypeOK, RecoverySelect
      PROVE  Reads("recoverer")
  <2>1. PICK p \in OverPlans : Set("recoverer", [Do("mark", p) EXCEPT !.todo = OverPlans \ {p}])
    BY <1>3 DEF RecoverySelect
  <2>2. p \in Plans /\ OverPlans \ {p} \in SUBSET Plans
    BY <2>1 DEF OverPlans
  <2>3. TaskOK([Do("mark", p) EXCEPT !.todo = OverPlans \ {p}])
    BY <1>0, <1>3, <2>2, TasksOfPlans
  <2> QED
    BY <1>3, <2>1, <2>3 DEF RecoverySelect, Reads
<1>4. ASSUME TypeOK, RecoveryNext
      PROVE  Reads("recoverer")
  <2>1. R.todo \in SUBSET Plans
    BY <1>0, <1>4 DEF TypeOK, Tasks
  <2>2. PICK p \in R.todo : Set("recoverer", [Do("mark", p) EXCEPT !.todo = R.todo \ {p}])
    BY <1>4 DEF RecoveryNext
  <2>3. TaskOK([Do("mark", p) EXCEPT !.todo = R.todo \ {p}])
    BY <1>0, <1>4, <2>1, <2>2, TasksOfPlans
  <2> QED
    BY <1>4, <2>2, <2>3 DEF RecoveryNext, Reads
<1> QED
  BY <1>1, <1>2, <1>3, <1>4

LEMMA RequestReads ==
    ASSUME TypeOK, NEW w \in Web, NEW p \in Plans,
           \/ ExecuteRequest(w, p) \/ RecoverRequest(w, p) \/ DeleteRequest(w, p)
           \/ CancelRequest(w, p)
    PROVE  Reads(w)
<1>0. /\ w \in Threads
      /\ "execute" \in Ops \ {"next"} /\ "recover" \in Ops \ {"next"}
      /\ "cancel" \in Ops \ {"next"}
  BY DEF Threads, Ops
<1>1. /\ TaskOK(Do("execute", p)) /\ TaskOK(Do("recover", p)) /\ TaskOK(Do("cancel", p))
      /\ TaskOK([Do("recover", p) EXCEPT !.then = "cancel"])
  BY <1>0, MadeTasks, TasksOfPlans
<1>2. CASE ExecuteRequest(w, p)
  BY <1>1, <1>2 DEF ExecuteRequest, Reads
<1>3. CASE RecoverRequest(w, p)
  BY <1>1, <1>3 DEF RecoverRequest, Reads
<1>4. CASE DeleteRequest(w, p)
  BY <1>1, <1>4 DEF DeleteRequest, Reads
<1>5. CASE CancelRequest(w, p)
  BY <1>1, <1>5 DEF CancelRequest, Reads
<1> QED
  BY <1>2, <1>3, <1>4, <1>5

LEMMA EmergencyReads ==
    ASSUME TypeOK, NEW w \in Web, EmergencyLoad(w)
    PROVE  Reads(w)
<1>1. {p \in Plans : status[p] \in {"approved", "executing"}} \in SUBSET Plans /\ "emergency" \in Ops \ {"next"}
  BY DEF Ops
<1>2. TaskOK([Idle EXCEPT !.op = "emergency",
                          !.todo = {p \in Plans : status[p] \in {"approved", "executing"}}])
  BY <1>1, TasksOfPlans
<1> QED
  BY <1>2 DEF EmergencyLoad, Reads

-----------------------------------------------------------------------------
(* Types.                                                                   *)

LEMMA ReadsKeepTypes ==
    ASSUME TypeOK, NEW t \in Threads, Reads(t), errors' \in 0..world'.errors
    PROVE  TypeOK'
<1>1. /\ UNCHANGED status /\ UNCHANGED <<auto, ends>> /\ UNCHANGED clock
      /\ UNCHANGED miner /\ UNCHANGED shut /\ UNCHANGED world /\ UNCHANGED moved
  BY DEF Reads, plans
<1>2. /\ task' \in [Threads -> Tasks]
      /\ \A u \in Threads : task'[u].op = "next" => task'[u].todo # {}
  BY SetTask DEF Reads
<1> QED
  BY <1>1, <1>2 DEF TypeOK

\* The commits: how they leave the tasks, and what they write.
LEMMA CommitTypes ==
    ASSUME TypeOK, NEW t \in Threads,
           \/ ExecuteNothing(t) \/ ExecuteCommit(t) \/ RecoverCommit(t)
           \/ t = "recoverer" /\ RecoveryMark
           \/ CancelCommit(t) \/ EmergencyCommit(t)
    PROVE  TypeOK'
<1> DEFINE p == task[t].plan
<1>0. /\ {"completed", "cancelled", "executing", "recovery_pending"} \subseteq PlanStatus
      /\ "reload" \in Ops \ {"next"} /\ {} \in SUBSET Miners
  BY DEF PlanStatus, Finished, Recoverable, Ops
<1>1. /\ TaskOK(Idle) /\ TaskOK(Done(t))
      /\ TaskOK([task[t] EXCEPT !.op = "reload"])
      /\ TaskOK([task[t] EXCEPT !.op = "reload", !.miners = {}])
  BY <1>0, MadeTasks, DoneTask, UpdatedTasks
<1>2. CASE ExecuteNothing(t)
  <2>1. status' \in [Plans -> PlanStatus]
    BY <1>0, <1>2, KeptTypes DEF ExecuteNothing
  <2>2. Set(t, Done(t)) /\ UNCHANGED <<auto, ends, clock, miner, shut, errors, world, moved>>
    BY <1>2 DEF ExecuteNothing
  <2> QED
    BY <1>1, <2>1, <2>2, SetTask, KeptTypes DEF TypeOK
<1>3. CASE ExecuteCommit(t)
  <2>1. UNCHANGED <<auto, ends, clock, errors, world>>
    BY <1>3 DEF ExecuteCommit
  <2>2. \E k : TaskOK(k) /\ Set(t, k)
    BY <1>1, <1>3 DEF ExecuteCommit
  <2>3. status' \in [Plans -> PlanStatus]
    BY <1>0, <1>3, KeptTypes DEF ExecuteCommit
  <2>4. miner' \in [Miners -> MinerStatus]
    BY <1>3, KeptTypes DEF ExecuteCommit
  <2>5. Shuttable(task[t].miners) \in SUBSET Miners
    BY DEF TypeOK, Tasks, Shuttable
  <2>6. shut' \in [Plans -> SUBSET Miners]
    BY <1>3, <2>5 DEF ExecuteCommit, TypeOK
  <2>7. moved' \subseteq Miners
    BY <1>3 DEF ExecuteCommit, TypeOK
  <2> QED
    BY <2>1, <2>2, <2>3, <2>4, <2>6, <2>7, SetTask, KeptTypes DEF TypeOK
<1>4. CASE RecoverCommit(t)
  <2>1. TaskOK(Do("cancel", p)) \/ p \notin Plans
    BY MadeTasks DEF Ops
  <2>2. status' \in [Plans -> PlanStatus] /\ miner' \in [Miners -> MinerStatus]
    BY <1>0, <1>4, KeptTypes DEF RecoverCommit
  <2>3. UNCHANGED <<auto, ends, clock, shut, errors, world, moved>>
    BY <1>4 DEF RecoverCommit
  <2>4. Do("cancel", 0) \in Tasks /\ Do("cancel", 0).op = "cancel"
    BY DEF Do, Idle, Tasks, Ops
  <2>5. p \in Plans \cup {0}
    BY DEF TypeOK, Tasks
  <2>6. TaskOK(Do("cancel", p))
    BY <2>1, <2>4, <2>5 DEF TaskOK
  <2>7. \E k : TaskOK(k) /\ Set(t, k)
    BY <1>1, <1>4, <2>6 DEF RecoverCommit
  <2> QED
    BY <2>2, <2>3, <2>7, SetTask, KeptTypes DEF TypeOK
<1>5. CASE t = "recoverer" /\ RecoveryMark
  <2>1. status' \in [Plans -> PlanStatus]
    BY <1>0, <1>5, KeptTypes DEF RecoveryMark
  <2>2. /\ Set(t, [task[t] EXCEPT !.op = "reload"])
        /\ UNCHANGED <<auto, ends, clock, miner, shut, errors, world, moved>>
    BY <1>5 DEF RecoveryMark
  <2> QED
    BY <1>1, <2>1, <2>2, SetTask, KeptTypes DEF TypeOK
<1>6. CASE CancelCommit(t)
  <2>1. status' \in [Plans -> PlanStatus]
    BY <1>0, <1>6, KeptTypes DEF CancelCommit
  <2>2. Set(t, Idle) /\ UNCHANGED <<auto, ends, clock, miner, shut, errors, world, moved>>
    BY <1>6 DEF CancelCommit
  <2> QED
    BY <1>1, <2>1, <2>2, SetTask, KeptTypes DEF TypeOK
<1>7. CASE EmergencyCommit(t)
  <2>1. status' \in [Plans -> PlanStatus]
    BY <1>0, <1>7 DEF EmergencyCommit, TypeOK
  <2>2. Set(t, Idle) /\ UNCHANGED <<auto, ends, clock, miner, shut, errors, world, moved>>
    BY <1>7 DEF EmergencyCommit
  <2> QED
    BY <1>1, <2>1, <2>2, SetTask, KeptTypes DEF TypeOK
<1> QED
  BY <1>2, <1>3, <1>4, <1>5, <1>6, <1>7

LEMMA RestTypes ==
    ASSUME TypeOK,
           \/ \E w \in Web, p \in Plans : Create(w, p)
           \/ \E m \in Miners : StartMiner(m) \/ DisableMiner(m) \/ Upload(m)
           \/ \E p \in Plans : Tick(p)
           \/ UNCHANGED vars
    PROVE  TypeOK'
<1>1. ASSUME NEW w \in Web, NEW p \in Plans, Create(w, p)
      PROVE  TypeOK'
  <2>1. PICK k \in Kinds : /\ status' = [status EXCEPT ![p] = k.status]
                           /\ auto' = [auto EXCEPT ![p] = k.auto]
                           /\ ends' = [ends EXCEPT ![p] = k.ends]
    BY <1>1 DEF Create
  <2>2. k.status \in PlanStatus /\ k.auto \in BOOLEAN /\ k.ends \in BOOLEAN
    BY KindsAssumption DEF PlanStatus, Executable
  <2>3. /\ status' \in [Plans -> PlanStatus]
        /\ auto' \in [Plans -> BOOLEAN] /\ ends' \in [Plans -> BOOLEAN]
    BY <2>1, <2>2 DEF TypeOK
  <2>4. UNCHANGED <<clock, miner, shut, task, errors, world, moved>>
    BY <1>1 DEF Create
  <2> QED
    BY <2>3, <2>4, KeptTypes DEF TypeOK
<1>2. ASSUME NEW m \in Miners, StartMiner(m) \/ DisableMiner(m) \/ Upload(m)
      PROVE  TypeOK'
  <2>1. Moves(m, "active") \/ Moves(m, "other")
    BY <1>2 DEF StartMiner, DisableMiner, Upload
  <2>2. miner' \in [Miners -> MinerStatus]
    BY <2>1 DEF Moves, TypeOK, MinerStatus
  <2>3. UNCHANGED <<status, auto, ends, clock, shut, task, errors, world>>
    BY <2>1 DEF Moves, plans
  <2>4. moved' \subseteq Miners
    BY <2>1 DEF Moves, TypeOK
  <2> QED
    BY <2>2, <2>3, <2>4, KeptTypes DEF TypeOK
<1>3. ASSUME NEW p \in Plans, Tick(p)
      PROVE  TypeOK'
  <2>1. clock' \in [Plans -> {"early", "begun", "over"}]
    BY <1>3 DEF Tick, TypeOK
  <2>2. UNCHANGED <<status, auto, ends, miner, shut, task, errors, world, moved>>
    BY <1>3 DEF Tick
  <2> QED
    BY <2>1, <2>2, KeptTypes DEF TypeOK
<1>4. CASE UNCHANGED vars
  BY <1>4, KeptTypes DEF vars, plans, TypeOK
<1> QED
  BY <1>1, <1>2, <1>3, <1>4

\* Every step reads, commits, or is one of the rest.
Reading(t) ==
    \/ ExecuteChoose(t) \/ RecoverLoad(t) \/ RecoverRead(t)
    \/ t = "executor" /\ (PendingSelect \/ PendingNext)
    \/ t = "recoverer" /\ (RecoverySelect \/ RecoveryNext)
    \/ t \in Web /\ \/ EmergencyLoad(t)
                    \/ \E p \in Plans : \/ ExecuteRequest(t, p) \/ RecoverRequest(t, p)
                                        \/ DeleteRequest(t, p) \/ CancelRequest(t, p)

Committing(t) ==
    \/ ExecuteNothing(t) \/ ExecuteCommit(t) \/ RecoverCommit(t)
    \/ t = "recoverer" /\ RecoveryMark
    \/ CancelCommit(t) \/ EmergencyCommit(t)

Resting ==
    \/ \E w \in Web, p \in Plans : Create(w, p)
    \/ \E m \in Miners : StartMiner(m) \/ DisableMiner(m) \/ Upload(m)
    \/ \E p \in Plans : Tick(p)
    \/ UNCHANGED vars

LEMMA Steps ==
    ASSUME [Next]_vars
    PROVE  (\E t \in Threads : Reading(t) \/ Committing(t) \/ Fail(t)) \/ Resting
<1>1. ASSUME NEW t \in Threads, Proceed(t)
      PROVE  Reading(t) \/ Committing(t)
  BY <1>1 DEF Proceed, Reading, Committing
<1>2. ASSUME NEW w \in Web, Request(w)
      PROVE  Reading(w) \/ Resting
  BY <1>2 DEF Request, Reading, Resting
<1>3. PendingSelect \/ RecoverySelect => \E t \in Threads : Reading(t)
  BY DEF Reading, Threads
<1>4. Web \subseteq Threads
  BY DEF Threads
<1> QED
  BY <1>1, <1>2, <1>3, <1>4 DEF Next, Resting

LEMMA TypingStep == TypeOK /\ [Next]_vars => TypeOK'
<1> SUFFICES ASSUME TypeOK, [Next]_vars
             PROVE  TypeOK'
  OBVIOUS
<1>1. errors \in 0..world.errors /\ world.errors \in Nat
  BY WorldsAssumption DEF TypeOK
<1>2. ASSUME NEW t \in Threads, Reading(t)
      PROVE  TypeOK'
  <2>1. Reads(t)
    <3>1. CASE ExecuteChoose(t) \/ RecoverLoad(t) \/ RecoverRead(t)
      BY <3>1, ThreadReads
    <3>2. CASE t = "executor" /\ (PendingSelect \/ PendingNext)
      BY <3>2, JobReads
    <3>3. CASE t = "recoverer" /\ (RecoverySelect \/ RecoveryNext)
      BY <3>3, JobReads
    <3>4. ASSUME t \in Web, NEW p \in Plans,
                 \/ ExecuteRequest(t, p) \/ RecoverRequest(t, p)
                 \/ DeleteRequest(t, p) \/ CancelRequest(t, p)
          PROVE  Reads(t)
      BY <3>4, RequestReads
    <3>5. CASE t \in Web /\ EmergencyLoad(t)
      BY <3>5, EmergencyReads
    <3> QED
      BY <1>2, <3>1, <3>2, <3>3, <3>4, <3>5 DEF Reading
  <2>2. UNCHANGED errors
    BY <1>2 DEF Reading, ExecuteChoose, RecoverLoad, RecoverRead, PendingSelect, PendingNext,
                RecoverySelect, RecoveryNext, EmergencyLoad, ExecuteRequest, RecoverRequest,
                DeleteRequest, CancelRequest
  <2>3. UNCHANGED world
    BY <2>1 DEF Reads
  <2> QED
    BY <1>1, <2>1, <2>2, <2>3, ReadsKeepTypes
<1>3. ASSUME NEW t \in Threads, Committing(t)
      PROVE  TypeOK'
  BY <1>3, CommitTypes DEF Committing
<1>4. ASSUME NEW t \in Threads, Fail(t)
      PROVE  TypeOK'
  <2>1. Reads(t)
    BY <1>4, ThreadReads
  <2>2. errors' = errors + 1 /\ errors < world.errors /\ world' = world
    BY <1>4 DEF Fail
  <2>3. errors' \in 0..world'.errors
    BY <1>1, <2>2
  <2> QED
    BY <2>1, <2>3, ReadsKeepTypes
<1>5. CASE Resting
  BY <1>5, RestTypes DEF Resting
<1> QED
  BY <1>2, <1>3, <1>4, <1>5, Steps

\* Every variable of Curtailment keeps its type.
THEOREM CurtailmentTyping == Spec => []TypeOK
<1>1. Init => TypeOK
  <2>1. Idle \in Tasks /\ Idle.op = "idle"
    BY MadeTasks DEF TaskOK, Idle
  <2> QED
    BY <2>1, WorldsAssumption DEF Init, TypeOK, PlanStatus, MinerStatus
<1> QED
  BY <1>1, TypingStep, PTL DEF Spec

-----------------------------------------------------------------------------
(* Threads that take turns.                                                 *)

\* One thread is at work, and what it has read is still so.
Alone == \A t, u \in Threads : task[t].op # "idle" /\ task[u].op # "idle" => t = u

Unshut == \A p \in Plans : status[p] \notin Recoverable \cup Finished => shut[p] = {}

ReadIsSo(t) ==
    LET p == task[t].plan
    IN  /\ task[t].op = "execute" => status[p] \in Executable
        /\ task[t].op = "shut" => /\ status[p] \in Executable
                                  /\ \A m \in task[t].miners : miner[m] = "active"
        /\ task[t].op \in {"mark", "reload", "recover", "wake"} => status[p] \in Recoverable
        /\ task[t].op = "wake" => task[t].miners = Curtailed(p)
        /\ task[t].op \in {"execute", "shut", "mark", "reload", "recover", "wake"} => p \in Plans

\* The recovery job's plans have not been executed or cancelled meanwhile.
StillOver ==
    task["recoverer"].op # "idle" =>
        \A p \in task["recoverer"].todo : status[p] = "executing" /\ p # task["recoverer"].plan

Turns == ~world.overlap

TurnsInv ==
    Turns => /\ Alone /\ Unshut /\ StillOver
             /\ \A t \in Threads : ReadIsSo(t)
             /\ HoldsItsMiners

\* Nobody but t is at work.
Quiet(t) == \A u \in Threads \ {t} : task[u].op = "idle"

LEMMA StepsAreQuiet ==
    ASSUME TypeOK, Turns, TurnsInv, NEW t \in Threads, Reading(t) \/ Committing(t) \/ Fail(t)
    PROVE  Quiet(t)
<1>1. CanStart(t) => Quiet(t)
  BY DEF CanStart, Turns, Quiet
<1>2. task[t].op # "idle" => Quiet(t)
  BY DEF TurnsInv, Alone, Quiet
<1>3. CanStart(t) \/ task[t].op # "idle"
  <2>1. CASE Reading(t)
    BY <2>1 DEF Reading, ExecuteChoose, RecoverLoad, RecoverRead, PendingSelect, PendingNext,
                RecoverySelect, RecoveryNext, EmergencyLoad, ExecuteRequest, RecoverRequest,
                DeleteRequest, CancelRequest
  <2>2. CASE Committing(t)
    BY <2>2 DEF Committing, ExecuteNothing, ExecuteCommit, RecoverCommit, RecoveryMark,
                CancelCommit, EmergencyCommit
  <2>3. CASE Fail(t)
    BY <2>3 DEF Fail
  <2> QED
    BY <2>1, <2>2, <2>3
<1> QED
  BY <1>1, <1>2, <1>3

\* When nobody else is at work, the others' tasks stay as they should be.
LEMMA OthersRest ==
    ASSUME TypeOK, NEW t \in Threads, Quiet(t), NEW k, TaskOK(k), Set(t, k)
    PROVE  /\ Alone'
           /\ \A u \in Threads \ {t} : ReadIsSo(u)'
           /\ t # "recoverer" => StillOver'
           /\ task'[t] = k
<1>1. task'[t] = k /\ \A u \in Threads \ {t} : task'[u] = task[u]
  BY SetTask
<1>2. \A u \in Threads \ {t} : task'[u].op = "idle"
  BY <1>1 DEF Quiet
<1>3. \A u \in Threads \ {t} : ReadIsSo(u)'
  BY <1>2 DEF ReadIsSo
<1>4. t # "recoverer" => StillOver'
  BY <1>2 DEF StillOver, Threads
<1> QED
  BY <1>1, <1>2, <1>3, <1>4 DEF Alone

\* A plan holds its miners as long as no plan gets any, and theirs stay as they are.
Hold == \A p \in Plans : status[p] \in Recoverable =>
            \A m \in shut[p] \ moved : miner[m] = "maintenance" /\ Holders(m) = {p}

LEMMA HoldsOn ==
    ASSUME Hold, UNCHANGED <<shut, moved>>,
           \A q \in Plans : status'[q] \in Recoverable =>
               /\ status[q] \in Recoverable
               /\ \A m \in shut[q] \ moved : miner'[m] = miner[m]
    PROVE  Hold'
<1> SUFFICES ASSUME NEW q \in Plans, status'[q] \in Recoverable, NEW m \in shut[q] \ moved
             PROVE  miner'[m] = "maintenance" /\ Holders(m)' = {q}
  BY DEF Hold
<1>1. miner[m] = "maintenance" /\ Holders(m) = {q}
  BY DEF Hold
<1>2. q \in Holders(m)' /\ Holders(m)' \subseteq Holders(m)
  BY DEF Holders
<1> QED
  BY <1>1, <1>2

LEMMA HoldIs == Turns => (HoldsItsMiners <=> Hold)
BY DEF Turns, HoldsItsMiners, Hold

\* A thread that has only read.
LEMMA TurnsOfReads ==
    ASSUME TypeOK, Turns, TurnsInv, NEW t \in Threads, Quiet(t), Reads(t),
           ReadIsSo(t)', t = "recoverer" => StillOver'
    PROVE  TurnsInv'
<1>1. /\ UNCHANGED status /\ UNCHANGED shut /\ UNCHANGED miner /\ UNCHANGED world
      /\ UNCHANGED moved
  BY DEF Reads, plans
<1>2. Turns'
  BY <1>1 DEF Turns
<1>3. Alone' /\ (\A u \in Threads : ReadIsSo(u)') /\ StillOver'
  BY OthersRest DEF Reads
<1>4. Unshut'
  BY <1>1 DEF TurnsInv, Unshut
<1>5. Hold
  BY HoldIs DEF TurnsInv
<1>6. Hold'
  BY <1>1, <1>5, HoldsOn
<1>7. HoldsItsMiners'
  BY <1>6 DEF HoldsItsMiners, Hold
<1> QED
  BY <1>3, <1>4, <1>7 DEF TurnsInv

\* A thread that is done with a plan, and has those left that it had.
LEMMA DoneIsSo ==
    ASSUME TypeOK, Turns, TurnsInv, NEW t \in Threads, task[t].op # "idle", Set(t, Done(t)),
           t = "recoverer" => \A p \in task[t].todo : status'[p] = status[p]
    PROVE  ReadIsSo(t)' /\ (t = "recoverer" => StillOver')
<1>1. task'[t] = Done(t)
  BY DoneTask, SetTask
<1>2. CASE task[t].todo = {}
  <2>1. task'[t].op = "idle"
    BY <1>1, <1>2 DEF Done, Idle
  <2> QED
    BY <2>1 DEF ReadIsSo, StillOver
<1>3. CASE task[t].todo # {}
  <2>1. task'[t].op = "next" /\ task'[t].todo = task[t].todo /\ task'[t].plan = 0
    BY <1>1, <1>3 DEF Done, Idle
  <2>2. task[t].todo \subseteq Plans
    BY DEF TypeOK, Tasks
  <2>3. t = "recoverer" => StillOver'
    BY <2>1, <2>2, PlansAssumption DEF StillOver, TurnsInv
  <2> QED
    BY <2>1, <2>3 DEF ReadIsSo
<1> QED
  BY <1>2, <1>3

\* A thread that goes on with its plan, without a change of what it has left to do.
LEMMA OnIsStillOver ==
    ASSUME TypeOK, Turns, TurnsInv, task["recoverer"].op # "idle",
           task'["recoverer"].todo = task["recoverer"].todo,
           task'["recoverer"].plan = task["recoverer"].plan,
           \A p \in task["recoverer"].todo : status'[p] = status[p]
    PROVE  StillOver'
BY DEF StillOver, TurnsInv

LEMMA ProceedReads ==
    ASSUME TypeOK, Turns, TurnsInv, NEW t \in Threads, Quiet(t),
           ExecuteChoose(t) \/ RecoverLoad(t) \/ RecoverRead(t) \/ Fail(t)
    PROVE  TurnsInv'
<1>0. Reads(t) /\ UNCHANGED status /\ UNCHANGED miner /\ UNCHANGED shut /\ task[t] \in Tasks
  BY ThreadReads DEF Reads, plans, TypeOK
<1>1. ReadIsSo(t)
  BY DEF TurnsInv
<1>2. CASE ExecuteChoose(t)
  <2>1. PICK picked \in SUBSET Miners \ {{}} :
            Set(t, [task[t] EXCEPT !.op = "shut",
                                   !.miners = {m \in picked : miner[m] = "active"}])
    BY <1>2 DEF ExecuteChoose
  <2>2. task'[t] = [task[t] EXCEPT !.op = "shut", !.miners = {m \in picked : miner[m] = "active"}]
    BY <2>1 DEF Set, TypeOK
  <2>3. /\ task'[t].op = "shut" /\ task'[t].miners = {m \in picked : miner[m] = "active"}
        /\ task'[t].plan = task[t].plan /\ task'[t].todo = task[t].todo
    BY <1>0, <2>2 DEF Tasks
  <2>4. task[t].op = "execute"
    BY <1>2 DEF ExecuteChoose
  <2>5. ReadIsSo(t)'
    BY <1>0, <1>1, <2>3, <2>4 DEF ReadIsSo
  <2>6. t = "recoverer" => StillOver'
    BY <1>0, <2>3, <2>4, OnIsStillOver
  <2> QED
    BY <1>0, <2>5, <2>6, TurnsOfReads
<1>3. CASE RecoverLoad(t)
  <2>1. task[t].op = "reload"
    BY <1>3 DEF RecoverLoad
  <2>2. CASE Set(t, Done(t))
    BY <1>0, <2>1, <2>2, DoneIsSo, TurnsOfReads
  <2>3. CASE Set(t, [task[t] EXCEPT !.op = "recover"])
    <3>1. task'[t] = [task[t] EXCEPT !.op = "recover"]
      BY <2>3 DEF Set, TypeOK
    <3>2. /\ task'[t].op = "recover"
          /\ task'[t].plan = task[t].plan /\ task'[t].todo = task[t].todo
      BY <1>0, <3>1 DEF Tasks
    <3>3. ReadIsSo(t)'
      BY <1>0, <1>1, <2>1, <3>2 DEF ReadIsSo
    <3>4. t = "recoverer" => StillOver'
      BY <1>0, <2>1, <3>2, OnIsStillOver
    <3> QED
      BY <1>0, <3>3, <3>4, TurnsOfReads
  <2> QED
    BY <1>3, <2>2, <2>3 DEF RecoverLoad
<1>4. CASE RecoverRead(t)
  <2>1. task[t].op = "recover"
    BY <1>4 DEF RecoverRead
  <2>2. task'[t] = [task[t] EXCEPT !.op = "wake", !.miners = Curtailed(task[t].plan)]
    BY <1>4 DEF RecoverRead, Set, TypeOK
  <2>3. /\ task'[t].op = "wake" /\ task'[t].miners = Curtailed(task[t].plan)
        /\ task'[t].plan = task[t].plan /\ task'[t].todo = task[t].todo
    BY <1>0, <2>2 DEF Tasks
  <2>4. Curtailed(task[t].plan)' = Curtailed(task[t].plan)
    BY <1>0, <2>3 DEF Curtailed
  <2>5. ReadIsSo(t)'
    BY <1>0, <1>1, <2>1, <2>3, <2>4 DEF ReadIsSo, Curtailed
  <2>6. t = "recoverer" => StillOver'
    BY <1>0, <2>1, <2>3, OnIsStillOver
  <2> QED
    BY <1>0, <2>5, <2>6, TurnsOfReads
<1>5. CASE Fail(t)
  <2>1. task[t].op # "idle"
    BY <1>5 DEF Fail
  <2>2. CASE Set(t, Done(t))
    BY <1>0, <2>1, <2>2, DoneIsSo, TurnsOfReads
  <2>3. CASE Set(t, Idle)
    <3>1. task'[t] = Idle /\ Idle.op = "idle"
      BY <2>3 DEF Set, TypeOK, Idle
    <3>2. ReadIsSo(t)' /\ (t = "recoverer" => StillOver')
      BY <3>1 DEF ReadIsSo, StillOver
    <3> QED
      BY <1>0, <3>2, TurnsOfReads
  <2> QED
    BY <1>5, <2>2, <2>3 DEF Fail
<1> QED
  BY <1>2, <1>3, <1>4, <1>5

\* What is so of a thread with a new task.
LEMMA FreshIsSo ==
    ASSUME NEW t \in Threads, NEW op, NEW p \in Plans, UNCHANGED status,
           task'[t].op = op, task'[t].plan = p,
           \/ op = "execute" /\ status[p] \in Executable
           \/ op \in {"mark", "recover"} /\ status[p] \in Recoverable
           \/ op \in {"idle", "next", "cancel", "emergency"}
    PROVE  ReadIsSo(t)'
BY DEF ReadIsSo

LEMMA JobsInTurns ==
    ASSUME TypeOK, Turns, TurnsInv, NEW t \in Threads, Quiet(t),
           \/ t = "executor" /\ (PendingSelect \/ PendingNext)
           \/ t = "recoverer" /\ (RecoverySelect \/ RecoveryNext)
    PROVE  TurnsInv'
<1> DEFINE T == task[t].todo
<1>0. Reads(t) /\ UNCHANGED status /\ T \subseteq Plans
  BY JobReads DEF Reads, plans, TypeOK, Tasks
<1>1. CASE t = "executor" /\ PendingSelect
  <2>1. PICK p \in DuePlans : Set(t, [Do("execute", p) EXCEPT !.todo = DuePlans \ {p}])
    BY <1>1 DEF PendingSelect
  <2>2. task'[t].op = "execute" /\ task'[t].plan = p
    BY <2>1 DEF Set, TypeOK, Do, Idle
  <2>3. p \in Plans /\ status[p] \in Executable
    BY <2>1 DEF DuePlans
  <2> QED
    BY <1>0, <1>1, <2>2, <2>3, FreshIsSo, TurnsOfReads
<1>2. CASE t = "executor" /\ PendingNext
  <2>1. PICK p \in T :
            Set(t, IF status[p] \in Executable THEN [Do("execute", p) EXCEPT !.todo = T \ {p}]
                   ELSE IF T \ {p} = {} THEN Idle
                   ELSE [Idle EXCEPT !.op = "next", !.todo = T \ {p}])
    BY <1>2 DEF PendingNext
  <2>2. CASE status[p] \in Executable
    <3>1. task'[t] = [Do("execute", p) EXCEPT !.todo = T \ {p}]
      BY <2>1, <2>2 DEF Set, TypeOK
    <3>2. task'[t].op = "execute" /\ task'[t].plan = p
      BY <3>1 DEF Do, Idle
    <3> QED
      BY <1>0, <1>2, <2>2, <3>2, FreshIsSo, TurnsOfReads
  <2>3. CASE status[p] \notin Executable
    <3>1. task'[t] = Idle \/ task'[t] = [Idle EXCEPT !.op = "next", !.todo = T \ {p}]
      BY <2>1, <2>3 DEF Set, TypeOK
    <3>2. /\ Idle.op = "idle"
          /\ \A S : [Idle EXCEPT !.op = "next", !.todo = S].op = "next"
      BY DEF Idle
    <3> HIDE DEF T
    <3>4. task'[t].op \in {"idle", "next"}
      BY <3>1, <3>2
    <3>3. ReadIsSo(t)'
      BY <3>4 DEF ReadIsSo
    <3> QED
      BY <1>0, <1>2, <3>3, TurnsOfReads
  <2> QED
    BY <2>2, <2>3
<1>3. CASE t = "recoverer" /\ RecoverySelect
  <2>1. PICK p \in OverPlans : Set(t, [Do("mark", p) EXCEPT !.todo = OverPlans \ {p}])
    BY <1>3 DEF RecoverySelect
  <2>2. task'[t].op = "mark" /\ task'[t].plan = p /\ task'[t].todo = OverPlans \ {p}
    BY <2>1 DEF Set, TypeOK, Do, Idle
  <2>3. p \in Plans /\ status[p] \in Recoverable /\ \A q \in OverPlans : status[q] = "executing"
    BY <2>1 DEF OverPlans, Recoverable
  <2>4. StillOver'
    BY <1>0, <1>3, <2>2, <2>3 DEF StillOver
  <2> QED
    BY <1>0, <2>2, <2>3, <2>4, FreshIsSo, TurnsOfReads
<1>4. CASE t = "recoverer" /\ RecoveryNext
  <2>1. PICK p \in T : Set(t, [Do("mark", p) EXCEPT !.todo = T \ {p}])
    BY <1>4 DEF RecoveryNext
  <2>2. task'[t].op = "mark" /\ task'[t].plan = p /\ task'[t].todo = T \ {p}
    BY <2>1 DEF Set, TypeOK, Do, Idle
  <2>3. \A q \in T : status[q] = "executing"
    BY <1>4 DEF RecoveryNext, StillOver, TurnsInv
  <2>4. p \in Plans /\ status[p] \in Recoverable
    BY <1>0, <2>1, <2>3 DEF Recoverable
  <2>5. StillOver'
    BY <1>0, <1>4, <2>2, <2>3 DEF StillOver
  <2> QED
    BY <1>0, <2>2, <2>4, <2>5, FreshIsSo, TurnsOfReads
<1> QED
  BY <1>1, <1>2, <1>3, <1>4

LEMMA RequestsInTurns ==
    ASSUME TypeOK, Turns, TurnsInv, NEW w \in Web, w \in Threads, Quiet(w), NEW p \in Plans,
           \/ ExecuteRequest(w, p) \/ RecoverRequest(w, p) \/ DeleteRequest(w, p)
           \/ CancelRequest(w, p)
    PROVE  TurnsInv'
<1>0. Reads(w) /\ UNCHANGED status /\ w # "recoverer"
  BY RequestReads, WebAssumption DEF Reads, plans
<1>1. ReadIsSo(w)'
  <2>1. CASE ExecuteRequest(w, p)
    <3>1. task'[w].op = "execute" /\ task'[w].plan = p /\ status[p] \in Executable
      BY <2>1 DEF ExecuteRequest, Set, TypeOK, Do, Idle
    <3> QED
      BY <1>0, <3>1, FreshIsSo
  <2>2. CASE RecoverRequest(w, p)
    <3>1. task'[w].op = "recover" /\ task'[w].plan = p /\ status[p] \in Recoverable
      BY <2>2 DEF RecoverRequest, Set, TypeOK, Do, Idle
    <3> QED
      BY <1>0, <3>1, FreshIsSo
  <2>3. CASE DeleteRequest(w, p)
    <3>1. CASE Set(w, Do("cancel", p))
      <4>1. task'[w].op = "cancel" /\ task'[w].plan = p
        BY <3>1 DEF Set, TypeOK, Do, Idle
      <4> QED
        BY <1>0, <4>1, FreshIsSo
    <3>2. CASE status[p] = "executing" /\ Set(w, [Do("recover", p) EXCEPT !.then = "cancel"])
      <4>1. task'[w].op = "recover" /\ task'[w].plan = p /\ status[p] \in Recoverable
        BY <3>2 DEF Set, TypeOK, Do, Idle, Recoverable
      <4> QED
        BY <1>0, <4>1, FreshIsSo
    <3> QED
      BY <2>3, <3>1, <3>2 DEF DeleteRequest
  <2>4. CASE CancelRequest(w, p)
    <3>1. task'[w].op = "cancel" /\ task'[w].plan = p
      BY <2>4 DEF CancelRequest, Set, TypeOK, Do, Idle
    <3> QED
      BY <1>0, <3>1, FreshIsSo
  <2> QED
    BY <2>1, <2>2, <2>3, <2>4
<1> QED
  BY <1>0, <1>1, TurnsOfReads

LEMMA EmergencyInTurns ==
    ASSUME TypeOK, Turns, TurnsInv, NEW w \in Web, w \in Threads, Quiet(w), EmergencyLoad(w)
    PROVE  TurnsInv'
<1>0. Reads(w) /\ w # "recoverer"
  BY EmergencyReads, WebAssumption
<1>1. task'[w].op = "emergency"
  BY DEF EmergencyLoad, Set, TypeOK, Idle
<1>2. ReadIsSo(w)'
  BY <1>1 DEF ReadIsSo
<1> QED
  BY <1>0, <1>2, TurnsOfReads

\* A thread that has committed.
LEMMA TurnsOfCommits ==
    ASSUME TypeOK, Turns, TurnsInv, NEW t \in Threads, Quiet(t), NEW k, TaskOK(k), Set(t, k),
           UNCHANGED world, Unshut', Hold', ReadIsSo(t)', t = "recoverer" => StillOver'
    PROVE  TurnsInv'
<1>1. Alone' /\ (\A u \in Threads : ReadIsSo(u)') /\ StillOver'
  BY OthersRest
<1>2. HoldsItsMiners'
  BY DEF HoldsItsMiners, Hold
<1> QED
  BY <1>1, <1>2 DEF TurnsInv

\* A commit to the plan of the recovery job leaves those it has still to do alone.
LEMMA OtherPlansStay ==
    ASSUME TypeOK, Turns, TurnsInv, NEW t \in Threads, task[t].op # "idle", NEW s,
           status' = [status EXCEPT ![task[t].plan] = s]
    PROVE  t = "recoverer" => \A q \in task[t].todo : status'[q] = status[q]
BY DEF TypeOK, Tasks, TurnsInv, StillOver

LEMMA ExecutionsInTurns ==
    ASSUME TypeOK, Turns, TurnsInv, NEW t \in Threads, Quiet(t),
           ExecuteNothing(t) \/ ExecuteCommit(t)
    PROVE  TurnsInv'
<1> DEFINE p == task[t].plan
           S == task[t].miners
           good == Shuttable(S)
<1>0. Unshut /\ Hold /\ ReadIsSo(t) /\ TaskOK(Done(t))
  BY HoldIs, DoneTask DEF TurnsInv
<1>1. CASE ExecuteNothing(t)
  <2>1. /\ status' = [status EXCEPT ![p] = "completed"] /\ task[t].op # "idle"
        /\ Set(t, Done(t)) /\ UNCHANGED <<miner, shut, world, moved>>
    BY <1>1 DEF ExecuteNothing, Writes
  <2>2. \A q \in Plans : status'[q] = status[q] \/ status'[q] = "completed"
    BY <2>1 DEF TypeOK
  <2>3. Unshut'
    BY <1>0, <2>1, <2>2 DEF Unshut, Finished
  <2>4. Hold'
    BY <1>0, <2>1, <2>2, HoldsOn DEF Recoverable
  <2>5. ReadIsSo(t)' /\ (t = "recoverer" => StillOver')
    BY <2>1, OtherPlansStay, DoneIsSo
  <2> QED
    BY <1>0, <2>1, <2>3, <2>4, <2>5, TurnsOfCommits
<1>2. CASE ExecuteCommit(t) /\ S # {} /\ good = {}
  <2>1. Reads(t) /\ Set(t, Done(t)) /\ task[t].op # "idle" /\ UNCHANGED status
    BY <1>0, <1>2 DEF ExecuteCommit, Reads, plans
  <2> QED
    BY <2>1, DoneIsSo, TurnsOfReads
<1>3. CASE ExecuteCommit(t) /\ ~(S # {} /\ good = {})
  <2>1. /\ status' = [status EXCEPT ![p] = "executing"] /\ Down(S)
        /\ shut' = [shut EXCEPT ![p] = @ \cup good] /\ UNCHANGED world
        /\ moved' = {m \in moved : m \in S => Holders(m) # {}}
        /\ task[t].op = "shut"
        /\ Set(t, Done(t)) \/ Set(t, [task[t] EXCEPT !.op = "reload", !.miners = {}])
    BY <1>3 DEF ExecuteCommit, Writes
  <2>2. /\ p \in Plans /\ status[p] \in Executable
        /\ \A m \in S : miner[m] = "active"
        /\ S \subseteq Miners /\ good \subseteq S /\ task[t] \in Tasks
    BY <1>0, <2>1 DEF ReadIsSo, TypeOK, Tasks, Shuttable
  <2>3. shut[p] = {}
    BY <1>0, <2>2 DEF Unshut, Executable, Recoverable, Finished
  <2>4. /\ shut'[p] = good /\ status'[p] = "executing"
        /\ \A q \in Plans \ {p} : shut'[q] = shut[q] /\ status'[q] = status[q]
        /\ \A m \in S : miner'[m] = "maintenance"
        /\ \A m \in Miners \ S : miner'[m] = miner[m]
        /\ \A q \in Plans : shut[q] \subseteq Miners
    BY <2>1, <2>2, <2>3 DEF TypeOK, Down
  <2> HIDE DEF p, S, good
  <2>5. Unshut'
    BY <1>0, <2>4 DEF Unshut, Recoverable
  <2>6. Hold'
    <3> SUFFICES ASSUME NEW q \in Plans, status'[q] \in Recoverable, NEW m \in shut'[q] \ moved'
                 PROVE  miner'[m] = "maintenance" /\ Holders(m)' = {q}
      BY DEF Hold
    <3>1. CASE q = p
      <4>1. m \in S
        BY <2>2, <2>4, <3>1
      <4>2. m \notin moved \/ Holders(m) = {}
        BY <2>1, <4>1
      <4>3. \A r \in Plans \ {p} : m \in shut[r] => status[r] \notin Recoverable
        BY <1>0, <2>2, <4>1, <4>2 DEF Hold, Holders
      <4>4. Holders(m)' = {p}
        BY <2>2, <2>4, <3>1, <4>3 DEF Holders
      <4> QED
        BY <2>4, <3>1, <4>1, <4>4
    <3>2. CASE q # p
      <4>1. status[q] \in Recoverable /\ m \in shut[q]
        BY <2>4, <3>2
      <4>2. m \notin moved
        BY <2>1, <4>1 DEF Holders
      <4>3. miner[m] = "maintenance" /\ Holders(m) = {q}
        BY <1>0, <4>1, <4>2 DEF Hold
      <4>4. m \in Miners \ S /\ m \notin shut'[p]
        BY <2>2, <2>4, <4>1, <4>3
      <4>5. Holders(m)' = {q}
        BY <2>2, <2>4, <3>2, <4>1, <4>3, <4>4 DEF Holders
      <4> QED
        BY <2>4, <4>3, <4>4, <4>5
    <3> QED
      BY <3>1, <3>2
  <2>7. t = "recoverer" => \A q \in task[t].todo : status'[q] = status[q]
    BY <2>1, OtherPlansStay DEF p
  <2>8. CASE Set(t, Done(t))
    <3>1. ReadIsSo(t)' /\ (t = "recoverer" => StillOver')
      BY <2>1, <2>7, <2>8, DoneIsSo
    <3> QED
      BY <1>0, <2>1, <2>5, <2>6, <2>8, <3>1, TurnsOfCommits
  <2>9. CASE Set(t, [task[t] EXCEPT !.op = "reload", !.miners = {}])
    <3>1. task'[t] = [task[t] EXCEPT !.op = "reload", !.miners = {}]
      BY <2>9 DEF Set, TypeOK
    <3>2. task'[t].op = "reload" /\ task'[t].plan = p /\ task'[t].todo = task[t].todo
      BY <2>2, <3>1 DEF Tasks, p
    <3>3. ReadIsSo(t)'
      BY <2>2, <2>4, <3>2 DEF ReadIsSo, Recoverable
    <3>4. t = "recoverer" => StillOver'
      BY <2>1, <2>7, <3>2, OnIsStillOver DEF p
    <3>5. TaskOK([task[t] EXCEPT !.op = "reload", !.miners = {}])
      BY UpdatedTasks DEF Ops
    <3> QED
      BY <2>1, <2>5, <2>6, <2>9, <3>3, <3>4, <3>5, TurnsOfCommits
  <2> QED
    BY <2>1, <2>8, <2>9
<1> QED
  BY <1>1, <1>2, <1>3

LEMMA RecoveriesInTurns ==
    ASSUME TypeOK, Turns, TurnsInv, NEW t \in Threads, Quiet(t),
           RecoverCommit(t) \/ (t = "recoverer" /\ RecoveryMark)
    PROVE  TurnsInv'
<1> DEFINE p == task[t].plan
           S == task[t].miners
<1>0. Unshut /\ Hold /\ ReadIsSo(t) /\ TaskOK(Done(t)) /\ task[t] \in Tasks
  BY HoldIs, DoneTask DEF TurnsInv, TypeOK
<1>1. CASE RecoverCommit(t)
  <2>1. /\ status' = [status EXCEPT ![p] = "completed"] /\ Awake(S)
        /\ UNCHANGED <<shut, world, moved>> /\ task[t].op = "wake"
        /\ Set(t, Done(t)) \/ Set(t, Do("cancel", p))
    BY <1>1 DEF RecoverCommit, Writes
  <2>2. p \in Plans /\ status[p] \in Recoverable /\ S \subseteq shut[p]
    BY <1>0, <2>1 DEF ReadIsSo, Curtailed
  <2>3. /\ status'[p] = "completed"
        /\ \A q \in Plans \ {p} : status'[q] = status[q]
        /\ \A m \in Miners \ S : miner'[m] = miner[m]
        /\ \A q \in Plans : shut[q] \subseteq Miners
    BY <2>1, <2>2 DEF TypeOK, Awake
  <2> HIDE DEF p, S
  <2>4. Unshut'
    BY <1>0, <2>1, <2>3 DEF Unshut, Finished
  <2>5. ASSUME NEW q \in Plans, status'[q] \in Recoverable
        PROVE  status[q] \in Recoverable /\ \A m \in shut[q] \ moved : miner'[m] = miner[m]
    <3>1. q # p /\ status[q] \in Recoverable
      BY <2>3, <2>5 DEF Recoverable
    <3>2. \A m \in shut[q] \ moved : m \notin shut[p]
      BY <1>0, <2>2, <2>5, <3>1 DEF Hold, Holders
    <3> QED
      BY <2>2, <2>3, <3>1, <3>2
  <2>6. Hold'
    BY <1>0, <2>1, <2>5, HoldsOn
  <2>7. CASE Set(t, Done(t))
    <3>1. ReadIsSo(t)' /\ (t = "recoverer" => StillOver')
      BY <2>1, <2>7, OtherPlansStay, DoneIsSo DEF p
    <3> QED
      BY <1>0, <2>1, <2>4, <2>6, <2>7, <3>1, TurnsOfCommits
  <2>8. CASE Set(t, Do("cancel", p))
    <3>1. TaskOK(Do("cancel", p))
      BY <2>2, MadeTasks DEF Ops
    <3>2. task'[t].op = "cancel" /\ task'[t].todo = {}
      BY <2>8 DEF Set, TypeOK, Do, Idle
    <3>3. ReadIsSo(t)' /\ (t = "recoverer" => StillOver')
      BY <3>2 DEF ReadIsSo, StillOver
    <3> QED
      BY <2>1, <2>4, <2>6, <2>8, <3>1, <3>3, TurnsOfCommits
  <2> QED
    BY <2>1, <2>7, <2>8
<1>2. CASE t = "recoverer" /\ RecoveryMark
  <2>1. /\ status' = [status EXCEPT ![p] = "recovery_pending"]
        /\ UNCHANGED <<miner, shut, world, moved>> /\ task[t].op = "mark"
        /\ Set(t, [task[t] EXCEPT !.op = "reload"])
    BY <1>2 DEF RecoveryMark, Writes
  <2>2. p \in Plans /\ status[p] \in Recoverable
    BY <1>0, <2>1 DEF ReadIsSo
  <2>3. /\ status'[p] = "recovery_pending"
        /\ \A q \in Plans \ {p} : status'[q] = status[q]
    BY <2>1, <2>2 DEF TypeOK
  <2>4. task'[t] = [task[t] EXCEPT !.op = "reload"]
    BY <2>1 DEF Set, TypeOK
  <2>5. task'[t].op = "reload" /\ task'[t].plan = p /\ task'[t].todo = task[t].todo
    BY <1>0, <2>4 DEF Tasks
  <2>6. StillOver'
    BY <1>2, <2>1, <2>5, OtherPlansStay, OnIsStillOver
  <2>7. TaskOK([task[t] EXCEPT !.op = "reload"])
    BY UpdatedTasks DEF Ops
  <2> HIDE DEF p
  <2>8. Unshut'
    BY <1>0, <2>1, <2>3 DEF Unshut, Recoverable
  <2>9. Hold'
    BY <1>0, <2>1, <2>2, <2>3, HoldsOn
  <2>10. ReadIsSo(t)'
    BY <2>2, <2>3, <2>5 DEF ReadIsSo, Recoverable
  <2> QED
    BY <2>1, <2>6, <2>7, <2>8, <2>9, <2>10, TurnsOfCommits
<1> QED
  BY <1>1, <1>2

LEMMA CancellationsInTurns ==
    ASSUME TypeOK, Turns, TurnsInv, NEW t \in Threads, Quiet(t),
           CancelCommit(t) \/ EmergencyCommit(t)
    PROVE  TurnsInv'
<1>1. Unshut /\ Hold /\ TaskOK(Idle)
  BY HoldIs, MadeTasks DEF TurnsInv
<1>2. \A q \in Plans : status'[q] = status[q] \/ status'[q] = "cancelled"
  <2>1. CASE CancelCommit(t)
    BY <2>1 DEF CancelCommit, Writes, TypeOK
  <2>2. CASE EmergencyCommit(t)
    BY <2>2 DEF EmergencyCommit
  <2> QED
    BY <2>1, <2>2
<1>3. Set(t, Idle) /\ UNCHANGED <<miner, shut, world, moved>>
  BY DEF CancelCommit, EmergencyCommit
<1>4. Unshut'
  BY <1>1, <1>2, <1>3 DEF Unshut, Finished
<1>5. Hold'
  BY <1>1, <1>2, <1>3, HoldsOn DEF Recoverable
<1>6. task'[t].op = "idle"
  BY <1>3 DEF Set, TypeOK, Idle
<1>7. ReadIsSo(t)' /\ (t = "recoverer" => StillOver')
  BY <1>6 DEF ReadIsSo, StillOver
<1> QED
  BY <1>1, <1>3, <1>4, <1>5, <1>7, TurnsOfCommits

LEMMA RestInTurns ==
    ASSUME TypeOK, Turns, TurnsInv, Resting
    PROVE  TurnsInv'
<1>0. Hold
  BY HoldIs DEF TurnsInv
<1>1. ASSUME NEW w \in Web, NEW p \in Plans, Create(w, p)
      PROVE  TurnsInv'
  <2>1. PICK k \in Kinds : status' = [status EXCEPT ![p] = k.status]
    BY <1>1 DEF Create
  <2>2. /\ k.status \in Executable /\ status[p] = "absent"
        /\ UNCHANGED <<miner, shut, task, world, moved>>
    BY <1>1, KindsAssumption DEF Create, Executable
  <2>3. status'[p] \in Executable /\ \A q \in Plans \ {p} : status'[q] = status[q]
    BY <2>1, <2>2 DEF TypeOK
  <2>4. \A u \in Threads : task'[u].op = "idle"
    BY <1>1, <2>2 DEF Create, CanStart, Turns
  <2>5. Alone' /\ StillOver' /\ \A u \in Threads : ReadIsSo(u)'
    BY <2>4 DEF Alone, StillOver, ReadIsSo, Threads
  <2>6. Unshut'
    BY <2>2, <2>3 DEF Unshut, TurnsInv, Recoverable, Finished
  <2>7. Hold'
    BY <1>0, <2>2, <2>3, HoldsOn DEF Recoverable, Executable
  <2>8. HoldsItsMiners'
    BY <2>7 DEF HoldsItsMiners, Hold
  <2> QED
    BY <2>5, <2>6, <2>8 DEF TurnsInv
<1>2. ASSUME NEW m \in Miners, NEW x, Moves(m, x)
      PROVE  TurnsInv'
  <2>1. UNCHANGED <<status, shut, task, world>>
    BY <1>2 DEF Moves, plans
  <2>2. \A u \in Threads : task'[u].op = "idle"
    BY <1>2, <2>1 DEF Moves, CanStart, Turns
  <2>3. Alone' /\ StillOver' /\ \A u \in Threads : ReadIsSo(u)'
    BY <2>2 DEF Alone, StillOver, ReadIsSo, Threads
  <2>4. /\ moved \subseteq moved'
        /\ Holders(m) # {} => m \in moved'
        /\ \A n \in Miners \ {m} : miner'[n] = miner[n]
    BY <1>2 DEF Moves, TypeOK
  <2>5. \A n \in Miners : Holders(n)' = Holders(n)
    BY <2>1 DEF Holders
  <2>6. Hold'
    <3> SUFFICES ASSUME NEW q \in Plans, status[q] \in Recoverable, NEW n \in shut[q] \ moved'
                 PROVE  miner'[n] = "maintenance" /\ Holders(n)' = {q}
      BY <2>1 DEF Hold
    <3>1. n \in Miners /\ q \in Holders(n)
      BY DEF TypeOK, Holders
    <3>2. n # m
      BY <2>4, <3>1
    <3> QED BY <1>0, <2>4, <2>5, <3>1, <3>2 DEF Hold
  <2>7. Unshut' /\ HoldsItsMiners'
    BY <2>1, <2>6 DEF TurnsInv, Unshut, HoldsItsMiners, Hold
  <2> QED
    BY <2>3, <2>7 DEF TurnsInv
<1>3. ASSUME UNCHANGED <<status, miner, shut, task, world, moved>>
      PROVE  TurnsInv'
  <2>1. Alone' /\ StillOver' /\ Unshut' /\ \A u \in Threads : ReadIsSo(u)'
    BY <1>3 DEF TurnsInv, Alone, StillOver, Unshut, ReadIsSo, Curtailed
  <2>2. Hold'
    BY <1>0, <1>3, HoldsOn
  <2>3. HoldsItsMiners'
    BY <2>2 DEF HoldsItsMiners, Hold
  <2> QED
    BY <2>1, <2>3 DEF TurnsInv
<1>4. \A p \in Plans : Tick(p) => UNCHANGED <<status, miner, shut, task, world, moved>>
  BY DEF Tick
<1>5. UNCHANGED vars => UNCHANGED <<status, miner, shut, task, world, moved>>
  BY DEF vars, plans
<1> QED
  BY <1>1, <1>2, <1>3, <1>4, <1>5 DEF Resting, StartMiner, DisableMiner, Upload

LEMMA TurnsStep == TypeOK /\ TurnsInv /\ [Next]_vars => TurnsInv'
<1> SUFFICES ASSUME TypeOK, TurnsInv, [Next]_vars
             PROVE  TurnsInv'
  OBVIOUS
<1>1. UNCHANGED world
  BY Steps, ThreadReads DEF Reading, Committing, Resting, Fail, ExecuteChoose, RecoverLoad,
     RecoverRead, PendingSelect, PendingNext, RecoverySelect, RecoveryNext, EmergencyLoad,
     ExecuteRequest, RecoverRequest, DeleteRequest, CancelRequest, ExecuteNothing,
     ExecuteCommit, RecoverCommit, RecoveryMark, CancelCommit, EmergencyCommit, Create,
     StartMiner, DisableMiner, Upload, Moves, Tick, vars
<1>2. CASE ~Turns
  BY <1>1, <1>2 DEF TurnsInv, Turns
<1>3. CASE Turns
  <2>1. ASSUME NEW t \in Threads, Reading(t)
        PROVE  TurnsInv'
    <3>0. Quiet(t)
      BY <1>3, <2>1, StepsAreQuiet
    <3>1. CASE ExecuteChoose(t) \/ RecoverLoad(t) \/ RecoverRead(t)
      BY <1>3, <3>0, <3>1, ProceedReads
    <3>2. CASE \/ t = "executor" /\ (PendingSelect \/ PendingNext)
               \/ t = "recoverer" /\ (RecoverySelect \/ RecoveryNext)
      BY <1>3, <3>0, <3>2, JobsInTurns
    <3>3. ASSUME t \in Web, NEW p \in Plans,
                 \/ ExecuteRequest(t, p) \/ RecoverRequest(t, p)
                 \/ DeleteRequest(t, p) \/ CancelRequest(t, p)
          PROVE  TurnsInv'
      BY <1>3, <3>0, <3>3, RequestsInTurns
    <3>4. CASE t \in Web /\ EmergencyLoad(t)
      BY <1>3, <3>0, <3>4, EmergencyInTurns
    <3> QED
      BY <2>1, <3>1, <3>2, <3>3, <3>4 DEF Reading
  <2>2. ASSUME NEW t \in Threads, Committing(t)
        PROVE  TurnsInv'
    <3>0. Quiet(t)
      BY <1>3, <2>2, StepsAreQuiet
    <3> QED
      BY <1>3, <2>2, <3>0, ExecutionsInTurns, RecoveriesInTurns, CancellationsInTurns DEF Committing
  <2>3. ASSUME NEW t \in Threads, Fail(t)
        PROVE  TurnsInv'
    BY <1>3, <2>3, StepsAreQuiet, ProceedReads
  <2>4. CASE Resting
    BY <1>3, <2>4, RestInTurns
  <2> QED
    BY <2>1, <2>2, <2>3, <2>4, Steps
<1> QED
  BY <1>2, <1>3

LEMMA TurnsInvariant == Spec => []TurnsInv
<1>1. Init => TurnsInv
  <2> SUFFICES ASSUME Init
               PROVE  TurnsInv
    OBVIOUS
  <2>1. \A u \in Threads : task[u].op = "idle"
    BY DEF Init, Idle
  <2>2. Alone /\ StillOver /\ \A u \in Threads : ReadIsSo(u)
    BY <2>1 DEF Alone, StillOver, ReadIsSo, Threads
  <2>3. Unshut /\ HoldsItsMiners
    BY DEF Init, Unshut, HoldsItsMiners, Recoverable
  <2> QED
    BY <2>2, <2>3 DEF TurnsInv
<1> QED
  BY <1>1, TurnsStep, CurtailmentTyping, PTL DEF Spec

\* When threads take turns, the miners that a plan has shut down stay down, and are no
\* other plan's, until it is finished, whatever the jobs, requests and failures are,
\* except for those whose status an operator or an upload of telemetry has written.
THEOREM PlansHoldTheirMiners == Spec => []HoldsItsMiners
<1>1. TurnsInv => HoldsItsMiners
  BY DEF TurnsInv, Turns, HoldsItsMiners
<1> QED
  BY <1>1, TurnsInvariant, PTL

-----------------------------------------------------------------------------
(* What commits do to plans and miners.                                     *)

\* A commit is to a plan, and cancellations are requests.
OfPlan == {"execute", "shut", "mark", "reload", "recover", "wake", "cancel"}

Fits(t, k) == /\ k.op \in OfPlan => k.plan \in Plans
              /\ k.op \in {"cancel", "emergency"} \/ k.then = "cancel" => t \in Web

FitInv == \A t \in Threads : Fits(t, task[t])

LEMMA MadeFits ==
    ASSUME NEW t
    PROVE  /\ Fits(t, Idle) /\ Fits(t, Done(t))
           /\ \A T : Fits(t, [Idle EXCEPT !.op = "next", !.todo = T])
           /\ t \in Web => \A T : Fits(t, [Idle EXCEPT !.op = "emergency", !.todo = T])
           /\ \A p \in Plans, op \in Ops :
                  op \notin {"cancel", "emergency"} \/ t \in Web =>
                      /\ Fits(t, Do(op, p))
                      /\ \A T : Fits(t, [Do(op, p) EXCEPT !.todo = T])
                      /\ t \in Web => Fits(t, [Do(op, p) EXCEPT !.then = "cancel"])
<1>1. Fits(t, Idle) /\ \A T : Fits(t, [Idle EXCEPT !.op = "next", !.todo = T])
  BY DEF Fits, Idle, OfPlan
<1>2. Fits(t, Done(t))
  BY <1>1 DEF Done
<1>3. t \in Web => \A T : Fits(t, [Idle EXCEPT !.op = "emergency", !.todo = T])
  BY DEF Fits, Idle, OfPlan
<1>4. ASSUME NEW p \in Plans, NEW op \in Ops, op \notin {"cancel", "emergency"} \/ t \in Web
      PROVE  /\ Fits(t, Do(op, p))
             /\ \A T : Fits(t, [Do(op, p) EXCEPT !.todo = T])
             /\ t \in Web => Fits(t, [Do(op, p) EXCEPT !.then = "cancel"])
  BY <1>4 DEF Fits, Do, Idle
<1> QED
  BY <1>1, <1>2, <1>3, <1>4

LEMMA UpdatedFits ==
    ASSUME TypeOK, NEW t \in Threads, Fits(t, task[t]), task[t].op \in OfPlan,
           NEW op \in OfPlan \ {"cancel"}, NEW S
    PROVE  /\ Fits(t, [task[t] EXCEPT !.op = op])
           /\ Fits(t, [task[t] EXCEPT !.op = op, !.miners = S])
<1>1. task[t] \in Tasks
  BY DEF TypeOK
<1>2. LET k == [task[t] EXCEPT !.op = op]
      IN  k.op = op /\ k.plan = task[t].plan /\ k.then = task[t].then
  BY <1>1 DEF Tasks
<1>3. LET k == [task[t] EXCEPT !.op = op, !.miners = S]
      IN  k.op = op /\ k.plan = task[t].plan /\ k.then = task[t].then
  BY <1>1 DEF Tasks
<1> QED
  BY <1>2, <1>3 DEF Fits, OfPlan

\* A thread is given a task that fits it.
LEMMA GivenFits ==
    ASSUME TypeOK, FitInv, NEW t \in Threads, NEW k, Fits(t, k), Set(t, k)
    PROVE  FitInv'
<1>1. task'[t] = k /\ \A u \in Threads \ {t} : task'[u] = task[u]
  BY DEF Set, TypeOK
<1> QED
  BY <1>1 DEF FitInv

LEMMA ReadingFits ==
    ASSUME TypeOK, FitInv, NEW t \in Threads, Reading(t) \/ Fail(t)
    PROVE  \E k : Fits(t, k) /\ Set(t, k)
<1> DEFINE T == task[t].todo
<1>0. Fits(t, task[t]) /\ T \subseteq Plans
  BY DEF FitInv, TypeOK, Tasks
<1>1. CASE ExecuteChoose(t)
  <2>1. "shut" \in OfPlan \ {"cancel"} /\ task[t].op \in OfPlan
    BY <1>1 DEF OfPlan, ExecuteChoose
  <2>2. PICK picked \in SUBSET Miners \ {{}} :
            Set(t, [task[t] EXCEPT !.op = "shut",
                                   !.miners = {m \in picked : miner[m] = "active"}])
    BY <1>1 DEF ExecuteChoose
  <2>3. Fits(t, [task[t] EXCEPT !.op = "shut", !.miners = {m \in picked : miner[m] = "active"}])
    BY <1>0, <2>1, UpdatedFits
  <2> QED
    BY <2>2, <2>3
<1>2. CASE RecoverLoad(t)
  <2>1. "recover" \in OfPlan \ {"cancel"} /\ task[t].op \in OfPlan
    BY <1>2 DEF OfPlan, RecoverLoad
  <2>2. Fits(t, [task[t] EXCEPT !.op = "recover"])
    BY <1>0, <2>1, UpdatedFits
  <2> QED
    BY <1>2, <2>2, MadeFits DEF RecoverLoad
<1>3. CASE RecoverRead(t)
  <2>1. "wake" \in OfPlan \ {"cancel"} /\ task[t].op \in OfPlan
    BY <1>3 DEF OfPlan, RecoverRead
  <2>2. Fits(t, [task[t] EXCEPT !.op = "wake", !.miners = Curtailed(task[t].plan)])
    BY <1>0, <2>1, UpdatedFits
  <2> QED
    BY <1>3, <2>2 DEF RecoverRead
<1>4. CASE t = "executor" /\ PendingSelect
  <2>1. PICK p \in DuePlans : Set(t, [Do("execute", p) EXCEPT !.todo = DuePlans \ {p}])
    BY <1>4 DEF PendingSelect
  <2>2. Fits(t, [Do("execute", p) EXCEPT !.todo = DuePlans \ {p}])
    BY <2>1, MadeFits DEF DuePlans, Ops
  <2> QED
    BY <2>1, <2>2
<1>5. CASE t = "executor" /\ PendingNext
  <2>1. PICK p \in T :
            Set(t, IF status[p] \in Executable THEN [Do("execute", p) EXCEPT !.todo = T \ {p}]
                   ELSE IF T \ {p} = {} THEN Idle
                   ELSE [Idle EXCEPT !.op = "next", !.todo = T \ {p}])
    BY <1>5 DEF PendingNext
  <2>2. Fits(t, [Do("execute", p) EXCEPT !.todo = T \ {p}])
    BY <1>0, <2>1, MadeFits DEF Ops
  <2>3. Fits(t, Idle) /\ Fits(t, [Idle EXCEPT !.op = "next", !.todo = T \ {p}])
    BY MadeFits
  <2> QED
    BY <2>1, <2>2, <2>3
<1>6. CASE t = "recoverer" /\ RecoverySelect
  <2>1. PICK p \in OverPlans : Set(t, [Do("mark", p) EXCEPT !.todo = OverPlans \ {p}])
    BY <1>6 DEF RecoverySelect
  <2>2. Fits(t, [Do("mark", p) EXCEPT !.todo = OverPlans \ {p}])
    BY <2>1, MadeFits DEF OverPlans, Ops
  <2> QED
    BY <2>1, <2>2
<1>7. CASE t = "recoverer" /\ RecoveryNext
  <2>1. PICK p \in T : Set(t, [Do("mark", p) EXCEPT !.todo = T \ {p}])
    BY <1>7 DEF RecoveryNext
  <2>2. Fits(t, [Do("mark", p) EXCEPT !.todo = T \ {p}])
    BY <1>0, <2>1, MadeFits DEF Ops
  <2> QED
    BY <2>1, <2>2
<1>8. CASE t \in Web /\ EmergencyLoad(t)
  BY <1>8, MadeFits DEF EmergencyLoad
<1>9. ASSUME t \in Web, NEW p \in Plans,
             \/ ExecuteRequest(t, p) \/ RecoverRequest(t, p)
             \/ DeleteRequest(t, p) \/ CancelRequest(t, p)
      PROVE  \E k : Fits(t, k) /\ Set(t, k)
  <2>1. /\ Fits(t, Do("execute", p)) /\ Fits(t, Do("recover", p)) /\ Fits(t, Do("cancel", p))
        /\ Fits(t, [Do("recover", p) EXCEPT !.then = "cancel"])
    BY <1>9, MadeFits DEF Ops
  <2> QED
    BY <1>9, <2>1 DEF ExecuteRequest, RecoverRequest, DeleteRequest, CancelRequest
<1>10. CASE Fail(t)
  BY <1>10, MadeFits DEF Fail
<1> QED
  BY <1>1, <1>2, <1>3, <1>4, <1>5, <1>6, <1>7, <1>8, <1>9, <1>10 DEF Reading

LEMMA CommittingFits ==
    ASSUME TypeOK, FitInv, NEW t \in Threads, Committing(t)
    PROVE  \E k : Fits(t, k) /\ Set(t, k)
<1>0. Fits(t, task[t]) /\ Fits(t, Idle) /\ Fits(t, Done(t))
  BY MadeFits DEF FitInv
<1>1. CASE ExecuteNothing(t) \/ CancelCommit(t) \/ EmergencyCommit(t)
  BY <1>0, <1>1 DEF ExecuteNothing, CancelCommit, EmergencyCommit
<1>2. CASE ExecuteCommit(t)
  <2>1. "reload" \in OfPlan \ {"cancel"} /\ task[t].op \in OfPlan
    BY <1>2 DEF OfPlan, ExecuteCommit
  <2>2. Fits(t, [task[t] EXCEPT !.op = "reload", !.miners = {}])
    BY <1>0, <2>1, UpdatedFits
  <2> QED
    BY <1>0, <1>2, <2>2 DEF ExecuteCommit
<1>3. CASE RecoverCommit(t)
  <2>1. task[t].plan \in Plans /\ (task[t].then = "cancel" => t \in Web)
    BY <1>0, <1>3 DEF RecoverCommit, Fits, OfPlan
  <2>2. task[t].then = "cancel" => Fits(t, Do("cancel", task[t].plan))
    BY <2>1, MadeFits DEF Ops
  <2> QED
    BY <1>0, <1>3, <2>2 DEF RecoverCommit
<1>4. CASE t = "recoverer" /\ RecoveryMark
  <2>1. "reload" \in OfPlan \ {"cancel"} /\ task[t].op \in OfPlan
    BY <1>4 DEF OfPlan, RecoveryMark
  <2>2. Fits(t, [task[t] EXCEPT !.op = "reload"])
    BY <1>0, <2>1, UpdatedFits
  <2> QED
    BY <1>4, <2>2 DEF RecoveryMark
<1> QED
  BY <1>1, <1>2, <1>3, <1>4 DEF Committing

LEMMA FitInvariant == Spec => []FitInv
<1>1. Init => FitInv
  BY MadeFits DEF Init, FitInv
<1>2. TypeOK /\ FitInv /\ [Next]_vars => FitInv'
  <2> SUFFICES ASSUME TypeOK, FitInv, [Next]_vars
               PROVE  FitInv'
    OBVIOUS
  <2>1. CASE \E t \in Threads : Reading(t) \/ Committing(t) \/ Fail(t)
    BY <2>1, ReadingFits, CommittingFits, GivenFits
  <2>2. CASE Resting
    <3>1. UNCHANGED task
      BY <2>2 DEF Resting, Create, StartMiner, DisableMiner, Upload, Moves, Tick, vars
    <3> QED
      BY <3>1 DEF FitInv
  <2> QED
    BY <2>1, <2>2, Steps
<1> QED
  BY <1>1, <1>2, CurtailmentTyping, PTL DEF Spec

\* What a reading, a failure, and a step of the rest leave of plans and records.
LEMMA ReadingKeeps ==
    ASSUME NEW t \in Threads, Reading(t) \/ Fail(t)
    PROVE  UNCHANGED <<status, miner, shut, world>>
BY DEF Reading, Fail, ExecuteChoose, RecoverLoad, RecoverRead, PendingSelect, PendingNext,
       RecoverySelect, RecoveryNext, EmergencyLoad, ExecuteRequest, RecoverRequest,
       DeleteRequest, CancelRequest, plans

LEMMA RestingKeeps ==
    ASSUME TypeOK, Resting
    PROVE  /\ UNCHANGED <<shut, world>>
           /\ \A p \in Plans : status[p] # "absent" => status'[p] = status[p]
           /\ \A m \in Miners : miner'[m] = "maintenance" => miner[m] = "maintenance"
<1>1. ASSUME NEW w \in Web, NEW p \in Plans, Create(w, p)
      PROVE  /\ UNCHANGED <<shut, world, miner>>
             /\ \A q \in Plans : status[q] # "absent" => status'[q] = status[q]
  BY <1>1 DEF Create, TypeOK
<1>2. ASSUME NEW m \in Miners, StartMiner(m) \/ DisableMiner(m) \/ Upload(m)
      PROVE  /\ UNCHANGED <<shut, world, status>>
             /\ \A n \in Miners : miner'[n] = "maintenance" => miner[n] = "maintenance"
  BY <1>2 DEF StartMiner, DisableMiner, Upload, Moves, TypeOK, plans
<1>3. ASSUME NEW p \in Plans, Tick(p)
      PROVE  UNCHANGED <<shut, world, status, miner>>
  BY <1>3 DEF Tick
<1>4. UNCHANGED vars => UNCHANGED <<shut, world, status, miner>>
  BY DEF vars, plans
<1> QED
  BY <1>1, <1>2, <1>3, <1>4 DEF Resting

\* The plan of a commit, and the status that it had when threads take turns.
LEMMA CommitsOfPlans ==
    ASSUME TypeOK, FitInv, NEW t \in Threads
    PROVE  /\ ExecuteNothing(t) \/ ExecuteCommit(t) \/ RecoverCommit(t)
                \/ (t = "recoverer" /\ RecoveryMark) \/ CancelCommit(t)
              => task[t].plan \in Plans
           /\ CancelCommit(t) \/ EmergencyCommit(t) => t \in Web
           /\ Turns /\ TurnsInv =>
                 /\ ExecuteNothing(t) \/ ExecuteCommit(t) => status[task[t].plan] \in Executable
                 /\ RecoverCommit(t) \/ (t = "recoverer" /\ RecoveryMark)
                       => status[task[t].plan] \in Recoverable
<1>1. Fits(t, task[t])
  BY DEF FitInv
<1>2. CASE Turns /\ TurnsInv
  <2>1. ReadIsSo(t)
    BY <1>2 DEF TurnsInv
  <2> QED
    BY <1>1, <2>1 DEF ReadIsSo, Fits, OfPlan, ExecuteNothing, ExecuteCommit, RecoverCommit,
                      RecoveryMark, CancelCommit, EmergencyCommit
<1>3. CASE ~(Turns /\ TurnsInv)
  BY <1>1, <1>3 DEF Fits, OfPlan, ExecuteNothing, ExecuteCommit, RecoverCommit,
                    RecoveryMark, CancelCommit, EmergencyCommit
<1> QED
  BY <1>2, <1>3

LEMMA FinishedStep ==
    ASSUME TypeOK, TurnsInv, FitInv, [Next]_vars, Turns, NEW p \in Plans
    PROVE  /\ status[p] \in Finished => status'[p] \in Finished
           /\ status[p] = "cancelled" => status'[p] = "cancelled"
<1>1. ASSUME NEW t \in Threads, Reading(t) \/ Fail(t)
      PROVE  UNCHANGED status
  BY <1>1, ReadingKeeps
<1>2. ASSUME NEW t \in Threads, Committing(t), status[p] \in Finished
      PROVE  status'[p] \in {status[p], "cancelled"}
  <2>1. CASE ExecuteNothing(t) \/ ExecuteCommit(t)
    <3>1. status[task[t].plan] \in Executable
      BY <2>1, CommitsOfPlans
    <3>2. p # task[t].plan
      BY <1>2, <3>1 DEF Executable, Finished
    <3> QED
      BY <2>1, <3>2 DEF ExecuteNothing, ExecuteCommit, Writes, TypeOK
  <2>2. CASE RecoverCommit(t) \/ (t = "recoverer" /\ RecoveryMark)
    <3>1. status[task[t].plan] \in Recoverable
      BY <2>2, CommitsOfPlans
    <3>2. p # task[t].plan
      BY <1>2, <3>1 DEF Recoverable, Finished
    <3> QED
      BY <2>2, <3>2 DEF RecoverCommit, RecoveryMark, Writes, TypeOK
  <2>3. CASE CancelCommit(t) \/ EmergencyCommit(t)
    BY <2>3 DEF CancelCommit, EmergencyCommit, Writes, TypeOK
  <2> QED
    BY <1>2, <2>1, <2>2, <2>3 DEF Committing
<1>3. Resting /\ status[p] \in Finished => status'[p] = status[p]
  BY RestingKeeps DEF Finished
<1>4. \/ status'[p] = status[p]
      \/ status[p] \in Finished => status'[p] \in {status[p], "cancelled"}
  BY <1>1, <1>2, <1>3, Steps
<1>5. "cancelled" \in Finished
  BY DEF Finished
<1> QED
  BY <1>4, <1>5

\* When threads take turns, a finished plan stays finished, and a cancelled one
\* cancelled, whatever jobs, requests and operators at the miners do, and whatever
\* fails: what a thread has read of the plan that it writes is still so.
THEOREM FinishedPlansStay == Spec => FinishedStays
<1>1. TypeOK /\ TurnsInv /\ FitInv /\ [Next]_vars =>
          [~world.overlap => \A p \in Plans :
               /\ status[p] \in Finished => status'[p] \in Finished
               /\ status[p] = "cancelled" => status'[p] = "cancelled"]_vars
  BY FinishedStep DEF Turns
<1> QED
  BY <1>1, CurtailmentTyping, TurnsInvariant, FitInvariant, PTL DEF Spec, FinishedStays

\* A plan that can wake m, before and after a step.
LEMMA HolderStays ==
    ASSUME NEW m \in Miners, NEW q \in Plans, q \in Holders(m),
           shut[q] \subseteq shut'[q], status'[q] \in Recoverable
    PROVE  ~Stranded(m)'
BY DEF Holders, Stranded

LEMMA CommitStrands ==
    ASSUME TypeOK, TurnsInv, FitInv, NEW t \in Threads, Committing(t),
           NEW m \in Miners \ ZeroPower, ~Stranded(m), Stranded(m)'
    PROVE  \/ world.overlap /\ (RecoverCommit(t) \/ ExecuteNothing(t))
           \/ t \in Web /\ (CancelCommit(t) \/ EmergencyCommit(t))
<1> DEFINE p == task[t].plan
           S == task[t].miners
<1>0. /\ miner'[m] = "maintenance"
      /\ miner[m] = "maintenance" => \E q \in Plans : q \in Holders(m)
      /\ \A q \in Holders(m) : m \in shut[q] /\ status[q] \in Recoverable
  BY DEF Stranded, Holders
<1>1. CASE ExecuteNothing(t)
  <2>1. SUFFICES ASSUME Turns
                 PROVE  FALSE
    BY <1>1 DEF Turns
  <2>2. p \in Plans /\ status[p] \in Executable
    BY <1>1, <2>1, CommitsOfPlans
  <2>3. UNCHANGED <<miner, shut>> /\ \A q \in Plans \ {p} : status'[q] = status[q]
    BY <1>1 DEF ExecuteNothing, Writes, TypeOK
  <2>4. PICK q \in Plans : q \in Holders(m)
    BY <1>0, <2>3
  <2>5. status[q] \in Recoverable /\ q # p
    BY <2>2, <2>4 DEF Holders, Executable, Recoverable
  <2> QED
    BY <2>3, <2>4, <2>5, HolderStays
<1>2. CASE ExecuteCommit(t)
  <2>1. p \in Plans /\ S \subseteq Miners
    BY <1>2, CommitsOfPlans DEF TypeOK, Tasks
  <2>2. CASE UNCHANGED <<status, miner, shut>>
    BY <2>2 DEF Stranded, Holders
  <2>3. CASE /\ Writes(t, p, "executing") /\ Down(S)
             /\ shut' = [shut EXCEPT ![p] = @ \cup Shuttable(S)]
    <3>1. /\ status'[p] = "executing" /\ \A q \in Plans \ {p} : status'[q] = status[q]
          /\ shut'[p] = shut[p] \cup (S \ ZeroPower)
          /\ \A q \in Plans \ {p} : shut'[q] = shut[q]
          /\ m \notin S => miner'[m] = miner[m]
      BY <2>1, <2>3 DEF Writes, Down, Shuttable, TypeOK
    <3>2. CASE m \in S
      <4>1. p \in Holders(m)'
        BY <2>1, <3>1, <3>2 DEF Holders, Recoverable
      <4> QED
        BY <4>1 DEF Stranded
    <3>3. CASE m \notin S
      <4>1. PICK q \in Plans : q \in Holders(m)
        BY <1>0, <3>1, <3>3
      <4>2. status'[q] \in Recoverable /\ shut[q] \subseteq shut'[q]
        BY <1>0, <3>1, <4>1 DEF Recoverable
      <4> QED
        BY <4>1, <4>2, HolderStays
    <3> QED
      BY <3>2, <3>3
  <2> QED
    BY <1>2, <2>2, <2>3 DEF ExecuteCommit
<1>3. CASE RecoverCommit(t)
  <2>1. SUFFICES ASSUME Turns
                 PROVE  FALSE
    BY <1>3 DEF Turns
  <2>2. p \in Plans /\ S = Curtailed(p)
    BY <1>3, <2>1, CommitsOfPlans DEF TurnsInv, ReadIsSo, RecoverCommit
  <2>3. /\ shut' = shut /\ \A q \in Plans \ {p} : status'[q] = status[q]
        /\ m \in S => miner'[m] = "active"
        /\ m \notin S => miner'[m] = miner[m]
    BY <1>3 DEF RecoverCommit, Writes, Awake, TypeOK
  <2>4. m \notin S /\ miner[m] = "maintenance"
    BY <1>0, <2>3
  <2>5. m \notin shut[p]
    BY <2>2, <2>4 DEF Curtailed
  <2>6. PICK q \in Plans : q \in Holders(m)
    BY <1>0, <2>4
  <2>7. q # p /\ status[q] \in Recoverable
    BY <1>0, <2>5, <2>6
  <2> QED
    BY <2>3, <2>6, <2>7, HolderStays
<1>4. CASE t = "recoverer" /\ RecoveryMark
  <2>1. p \in Plans
    BY <1>4, CommitsOfPlans
  <2>2. /\ UNCHANGED <<miner, shut>> /\ status'[p] = "recovery_pending"
        /\ \A q \in Plans \ {p} : status'[q] = status[q]
    BY <1>4, <2>1 DEF RecoveryMark, Writes, TypeOK
  <2>3. PICK q \in Plans : q \in Holders(m)
    BY <1>0, <2>2
  <2>4. status'[q] \in Recoverable
    BY <1>0, <2>2, <2>3 DEF Recoverable
  <2> QED
    BY <2>2, <2>3, <2>4, HolderStays
<1>5. CASE CancelCommit(t) \/ EmergencyCommit(t)
  BY <1>5, CommitsOfPlans
<1> QED
  BY <1>1, <1>2, <1>3, <1>4, <1>5 DEF Committing

\* A miner with power is left in maintenance for good only by a cancellation or an
\* emergency restore, or, when threads overlap, by a plan that is completed after
\* another thread has changed what its thread has read.  No failure, no creation or
\* marking of a plan, and no operator at the miners strands one, and no recovery or
\* execution does while threads take turns.
THEOREM StrandedByFew == Spec => StrandedOnlyBy
<1> DEFINE By(m) == \/ world.overlap /\ \E t \in Threads : RecoverCommit(t) \/ ExecuteNothing(t)
                    \/ m \in ZeroPower
                    \/ \E w \in Web : CancelCommit(w) \/ EmergencyCommit(w)
<1>1. ASSUME TypeOK, TurnsInv, FitInv, [Next]_vars,
             NEW m \in Miners, ~Stranded(m), Stranded(m)'
      PROVE  By(m)
  <2>1. ASSUME NEW t \in Threads, Reading(t) \/ Fail(t)
        PROVE  FALSE
    <3>1. UNCHANGED <<status, miner, shut>>
      BY <2>1, ReadingKeeps
    <3> QED
      BY <1>1, <3>1 DEF Stranded, Holders
  <2>2. ASSUME NEW t \in Threads, Committing(t), m \notin ZeroPower
        PROVE  By(m)
    BY <1>1, <2>2, CommitStrands
  <2>3. ~Resting
    <3> SUFFICES ASSUME Resting
                 PROVE  FALSE
      OBVIOUS
    <3>1. miner[m] = "maintenance" /\ shut' = shut
      BY <1>1, RestingKeeps DEF Stranded
    <3>2. PICK q \in Plans : q \in Holders(m)
      BY <1>1, <3>1 DEF Stranded, Holders
    <3>3. status'[q] \in Recoverable
      <4>1. status[q] \in Recoverable /\ status[q] # "absent"
        BY <3>2 DEF Holders, Recoverable
      <4>2. status'[q] = status[q]
        BY <1>1, <4>1, RestingKeeps
      <4> QED
        BY <4>1, <4>2
    <3> QED
      BY <1>1, <3>1, <3>2, <3>3, HolderStays
  <2> QED
    BY <1>1, <2>1, <2>2, <2>3, Steps
<1>2. TypeOK /\ TurnsInv /\ FitInv /\ [Next]_vars =>
          [\A m \in Miners : ~Stranded(m) /\ Stranded(m)' => By(m)]_vars
  BY <1>1
<1> QED
  BY <1>2, CurtailmentTyping, TurnsInvariant, FitInvariant, PTL DEF Spec, StrandedOnlyBy

=============================================================================
