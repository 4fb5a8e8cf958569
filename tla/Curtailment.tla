----------------------------- MODULE Curtailment -----------------------------
(***************************************************************************)
(* Power curtailment: plans that shut miners down and wake them again       *)
(* (services/curtailment_plan_service.py), the two jobs that execute and    *)
(* recover the plans that are due (services/curtailment_scheduler.py), the  *)
(* requests of operators that create, execute, recover and cancel plans and *)
(* start and disable miners (modules/hosting/routes.py), and the uploads of *)
(* telemetry, which write the status of the miners they report              *)
(* (api/collector_api.py).                                                  *)
(*                                                                          *)
(* A job or a request is a thread with a database session of its own.  It   *)
(* keeps the objects it has loaded until its next commit or rollback: what  *)
(* it has read and what it then commits are separate steps.                 *)
(***************************************************************************)
EXTENDS Integers, FiniteSets

CONSTANTS
    Plans,      \* rows of curtailment_plans
    Miners,     \* miners of the site
    ZeroPower,  \* miners with a measured power of 0
    Web,        \* requests that the web server works on at a time
    Kinds,      \* what plans are created: their mode, end time and first status
    Worlds      \* the circumstances to check

ASSUME PlansAssumption  == Plans \subseteq Nat \ {0}
ASSUME MinersAssumption == ZeroPower \subseteq Miners
ASSUME WebAssumption    == Web \cap {"executor", "recoverer"} = {}

\* execute_curtailment approves automatic plans, create_curtailment_schedule does
\* not, and no request approves a plan later.
ASSUME KindsAssumption ==
    Kinds \subseteq {k \in [auto : BOOLEAN, ends : BOOLEAN, status : {"pending", "approved"}] :
                        k.status = "approved" => k.auto}

\* overlap: threads run side by side; others: operators and uploads write the status of
\* miners; errors: bound on database errors and deaths of threads.
ASSUME WorldsAssumption ==
    Worlds \subseteq [overlap : BOOLEAN, others : BOOLEAN, errors : Nat]

VARIABLES
    status,   \* status[p]: the committed status of plan p, or "absent"
    auto,     \* auto[p]: execution_mode is AUTO
    ends,     \* ends[p]: p has a scheduled_end_time
    clock,    \* clock[p]: "early", "begun" or "over", by p's start and end time
    miner,    \* miner[m]: "active", "maintenance" or "other" (online, offline, disabled)
    shut,     \* shut[p]: miners with a successful SHUTDOWN record of p
    task,     \* task[t]: what thread t does
    errors,   \* how many errors there have been
    world     \* the circumstances, chosen once

\* Kept only to state properties.
VARIABLE moved   \* miners that others than plans have written while a plan held them

plans == <<status, auto, ends, clock>>
vars  == <<plans, miner, shut, task, errors, world, moved>>

Threads == {"executor", "recoverer"} \cup Web

Executable  == {"pending", "approved"}
Recoverable == {"executing", "recovery_pending"}
Finished    == {"completed", "cancelled"}
MinerStatus == {"active", "maintenance", "other"}
PlanStatus  == {"absent"} \cup Executable \cup Recoverable \cup Finished

\* op: what the thread does next; plan: with which plan; miners: those it has
\* read to shut down or to wake; todo: plans that it has loaded beside this one;
\* then: whether a recovery is the first half of a cancellation.
Ops   == {"idle", "next", "execute", "shut", "mark", "reload", "recover", "wake",
          "cancel", "emergency"}
Tasks == [op : Ops, plan : Plans \cup {0}, miners : SUBSET Miners,
          todo : SUBSET Plans, then : {"done", "cancel"}]

Idle == [op |-> "idle", plan |-> 0, miners |-> {}, todo |-> {}, then |-> "done"]

-----------------------------------------------------------------------------
Do(op, p) == [Idle EXCEPT !.op = op, !.plan = p]

\* Fault: a job does not see that it has done all its plans.
DoneNever(t) == [Idle EXCEPT !.op = "next", !.todo = task[t].todo]

\* Thread t goes on with the plans it has still to do, or is done.
Done(t) ==
    IF task[t].todo = {} THEN Idle ELSE [Idle EXCEPT !.op = "next", !.todo = task[t].todo]

Set(t, new) == task' = [task EXCEPT ![t] = new]

CanStart(t) == /\ task[t].op = "idle"
               /\ world.overlap \/ \A u \in Threads : task[u].op = "idle"

\* The row of p is locked by a thread that has flushed it and not yet committed.
Locked(p, t) == \E u \in Threads \ {t} : task[u].op = "shut" /\ task[u].plan = p

\* A commit of thread t that writes status s to plan p.
Writes(t, p, s) == ~Locked(p, t) /\ status' = [status EXCEPT ![p] = s]

Down(S)  == miner' = [m \in Miners |-> IF m \in S THEN "maintenance" ELSE miner[m]]
Awake(S) == miner' = [m \in Miners |-> IF m \in S THEN "active" ELSE miner[m]]

\* Plans that can still wake m.
Holders(m) == {p \in Plans : m \in shut[p] /\ status[p] \in Recoverable}

Init ==
    /\ status = [p \in Plans |-> "absent"]
    /\ auto = [p \in Plans |-> FALSE]
    /\ ends = [p \in Plans |-> FALSE]
    /\ clock = [p \in Plans |-> "early"]
    /\ miner = [m \in Miners |-> "active"]
    /\ shut = [p \in Plans |-> {}]
    /\ task = [t \in Threads |-> Idle]
    /\ errors = 0
    /\ world \in Worlds
    /\ moved = {}

-----------------------------------------------------------------------------
(* CurtailmentPlanService.execute_plan, from the check of the status on.    *)

\* The plan's row is flushed, then the strategy picks miners, whatever their
\* status, and those that are active are read.
ExecuteChoose(t) ==
    /\ task[t].op = "execute"
    /\ ~Locked(task[t].plan, t)
    /\ \E picked \in SUBSET Miners \ {{}} :
           Set(t, [task[t] EXCEPT !.op = "shut",
                                  !.miners = {m \in picked : miner[m] = "active"}])
    /\ UNCHANGED <<plans, miner, shut, errors, world, moved>>

\* The strategy picks none, or its calculation fails: the plan is completed.
ExecuteNothing(t) ==
    /\ task[t].op = "execute"
    /\ Writes(t, task[t].plan, "completed")
    /\ Set(t, Done(t))
    /\ UNCHANGED <<auto, ends, clock, miner, shut, errors, world, moved>>

\* A miner whose power is 0 gets the status of a curtailed miner, but the record of
\* a failure.  If that is so of all, everything is rolled back.
Shuttable(S) == S \ ZeroPower

ExecuteCommit(t) ==
    LET p    == task[t].plan
        S    == task[t].miners
        good == Shuttable(S)
    IN  /\ task[t].op = "shut"
        /\ IF S # {} /\ good = {}
           THEN UNCHANGED <<status, miner, shut, moved>> /\ Set(t, Done(t))
           ELSE /\ Writes(t, p, "executing")
                /\ Down(S)
                /\ shut' = [shut EXCEPT ![p] = @ \cup good]
                /\ moved' = {m \in moved : m \in S => Holders(m) # {}}
                /\ Set(t, IF ~ends[p] /\ good # {}
                          THEN [task[t] EXCEPT !.op = "reload", !.miners = {}]
                          ELSE Done(t))
        /\ UNCHANGED <<auto, ends, clock, errors, world>>

-----------------------------------------------------------------------------
(* CurtailmentPlanService.recover_plan.                                     *)

\* Fault: a plan that is already marked for recovery is refused.
RecoverLoadExecuting(t) ==
    /\ task[t].op = "reload"
    /\ Set(t, IF status[task[t].plan] = "executing"
              THEN [task[t] EXCEPT !.op = "recover"] ELSE Done(t))
    /\ UNCHANGED <<plans, miner, shut, errors, world, moved>>

RecoverLoad(t) ==
    /\ task[t].op = "reload"
    /\ Set(t, IF status[task[t].plan] \in Recoverable
              THEN [task[t] EXCEPT !.op = "recover"] ELSE Done(t))
    /\ UNCHANGED <<plans, miner, shut, errors, world, moved>>

\* Fault: a miner is taken for the plan's whether or not the plan has shut it down.
CurtailedAny(p) == {m \in Miners : miner[m] = "maintenance"}

\* Miners in maintenance with a successful SHUTDOWN record of p.
Curtailed(p) == {m \in Miners : m \in shut[p] /\ miner[m] = "maintenance"}

RecoverRead(t) ==
    /\ task[t].op = "recover"
    /\ Set(t, [task[t] EXCEPT !.op = "wake", !.miners = Curtailed(task[t].plan)])
    /\ UNCHANGED <<plans, miner, shut, errors, world, moved>>

\* Fault: the plan is completed, and its miners are forgotten.
RecoverCommitPlanOnly(t) ==
    /\ task[t].op = "wake"
    /\ Writes(t, task[t].plan, "completed")
    /\ Set(t, IF task[t].then = "cancel" THEN Do("cancel", task[t].plan) ELSE Done(t))
    /\ UNCHANGED <<auto, ends, clock, miner, shut, errors, world, moved>>

RecoverCommit(t) ==
    /\ task[t].op = "wake"
    /\ Writes(t, task[t].plan, "completed")
    /\ Awake(task[t].miners)
    /\ Set(t, IF task[t].then = "cancel" THEN Do("cancel", task[t].plan) ELSE Done(t))
    /\ UNCHANGED <<auto, ends, clock, shut, errors, world, moved>>

-----------------------------------------------------------------------------
(* The jobs of the scheduler.                                               *)

\* _check_pending_plans: one SELECT.  The first plan's status is as selected.
DuePlans == {p \in Plans : status[p] \in Executable /\ clock[p] # "early" /\ auto[p]}

PendingSelect ==
    /\ CanStart("executor")
    /\ \E p \in DuePlans :
           Set("executor", [Do("execute", p) EXCEPT !.todo = DuePlans \ {p}])
    /\ UNCHANGED <<plans, miner, shut, errors, world, moved>>

\* The others are loaded again, since the first one's commit expired them.
PendingNext ==
    /\ task["executor"].op = "next"
    /\ \E p \in task["executor"].todo :
           LET rest == task["executor"].todo \ {p}
           IN  Set("executor",
                   IF status[p] \in Executable THEN [Do("execute", p) EXCEPT !.todo = rest]
                   ELSE IF rest = {} THEN Idle
                   ELSE [Idle EXCEPT !.op = "next", !.todo = rest])
    /\ UNCHANGED <<plans, miner, shut, errors, world, moved>>

\* _check_recovery_plans: one SELECT.
OverPlans == {p \in Plans : status[p] = "executing" /\ ends[p] /\ clock[p] = "over"}

RecoverySelect ==
    /\ CanStart("recoverer")
    /\ \E p \in OverPlans :
           Set("recoverer", [Do("mark", p) EXCEPT !.todo = OverPlans \ {p}])
    /\ UNCHANGED <<plans, miner, shut, errors, world, moved>>

RecoveryNext ==
    /\ task["recoverer"].op = "next"
    /\ \E p \in task["recoverer"].todo :
           Set("recoverer", [Do("mark", p) EXCEPT !.todo = task["recoverer"].todo \ {p}])
    /\ UNCHANGED <<plans, miner, shut, errors, world, moved>>

\* The status is written whatever it has become, and committed before the recovery.
RecoveryMark ==
    LET p == task["recoverer"].plan
    IN  /\ task["recoverer"].op = "mark"
        /\ Writes("recoverer", p, "recovery_pending")
        /\ Set("recoverer", [task["recoverer"] EXCEPT !.op = "reload"])
        /\ UNCHANGED <<auto, ends, clock, miner, shut, errors, world, moved>>

-----------------------------------------------------------------------------
(* The requests of operators.                                               *)

Create(w, p) ==
    /\ CanStart(w)
    /\ status[p] = "absent"
    /\ \A q \in Plans : q < p => status[q] # "absent"
    /\ \E k \in Kinds :
           /\ status' = [status EXCEPT ![p] = k.status]
           /\ auto' = [auto EXCEPT ![p] = k.auto]
           /\ ends' = [ends EXCEPT ![p] = k.ends]
    /\ UNCHANGED <<clock, miner, shut, task, errors, world, moved>>

\* execute_curtailment_schedule, at any time and for any mode.
ExecuteRequest(w, p) ==
    /\ CanStart(w)
    /\ status[p] \in Executable
    /\ Set(w, Do("execute", p))
    /\ UNCHANGED <<plans, miner, shut, errors, world, moved>>

\* Fault: a plan's status is not looked at.
RecoverRequestAny(w, p) ==
    /\ CanStart(w)
    /\ status[p] # "absent"
    /\ Set(w, Do("recover", p))
    /\ UNCHANGED <<plans, miner, shut, errors, world, moved>>

RecoverRequest(w, p) ==
    /\ CanStart(w)
    /\ status[p] \in Recoverable
    /\ Set(w, Do("recover", p))
    /\ UNCHANGED <<plans, miner, shut, errors, world, moved>>

\* cancel_curtailment_schedule recovers the miners of an executing plan first.
DeleteRequest(w, p) ==
    /\ CanStart(w)
    /\ \/ status[p] \in Executable /\ Set(w, Do("cancel", p))
       \/ status[p] = "executing" /\ Set(w, [Do("recover", p) EXCEPT !.then = "cancel"])
    /\ UNCHANGED <<plans, miner, shut, errors, world, moved>>

\* cancel_curtailment cancels whatever is not finished, and no miner is recovered.
CancelRequest(w, p) ==
    /\ CanStart(w)
    /\ status[p] \notin Finished \cup {"absent"}
    /\ Set(w, Do("cancel", p))
    /\ UNCHANGED <<plans, miner, shut, errors, world, moved>>

CancelCommit(w) ==
    /\ task[w].op = "cancel"
    /\ Writes(w, task[w].plan, "cancelled")
    /\ Set(w, Idle)
    /\ UNCHANGED <<auto, ends, clock, miner, shut, errors, world, moved>>

\* emergency_restore: plans that are approved or executing.
EmergencyLoad(w) ==
    LET active == {p \in Plans : status[p] \in {"approved", "executing"}}
    IN  /\ CanStart(w)
        /\ active # {}
        /\ Set(w, [Idle EXCEPT !.op = "emergency", !.todo = active])
        /\ UNCHANGED <<plans, miner, shut, errors, world, moved>>

\* STARTUP records are written, and the plans are cancelled.  No miner's status is.
EmergencyCommit(w) ==
    /\ task[w].op = "emergency"
    /\ \A p \in task[w].todo : ~Locked(p, w)
    /\ status' = [p \in Plans |-> IF p \in task[w].todo THEN "cancelled" ELSE status[p]]
    /\ Set(w, Idle)
    /\ UNCHANGED <<auto, ends, clock, miner, shut, errors, world, moved>>

-----------------------------------------------------------------------------
(* Who else writes the status of a miner, whichever plan has shut it down.  *)

Moves(m, s) ==
    /\ world.others
    /\ \E w \in Web : CanStart(w)
    /\ miner[m] # s
    /\ miner' = [miner EXCEPT ![m] = s]
    /\ moved' = IF Holders(m) # {} THEN moved \cup {m} ELSE moved
    /\ UNCHANGED <<plans, shut, task, errors, world>>

\* start_single_miner, toggle_miner_status, batch enabling and disabling.
StartMiner(m)   == Moves(m, "active")
DisableMiner(m) == Moves(m, "other")

\* sync_hosting_miner_telemetry, for each miner of an upload: online or offline.
Upload(m) == Moves(m, "other")

-----------------------------------------------------------------------------
\* The start, then the end of plan p come, if anything depends on them.
Tick(p) ==
    /\ status[p] # "absent" /\ (auto[p] \/ ends[p])
    /\ \/ clock[p] = "early" /\ clock' = [clock EXCEPT ![p] = "begun"]
       \/ clock[p] = "begun" /\ ends[p] /\ clock' = [clock EXCEPT ![p] = "over"]
    /\ UNCHANGED <<status, auto, ends, miner, shut, task, errors, world, moved>>

\* A database error, a deadlock or the end of the process: what was not committed is
\* rolled back.  A job that lives on takes up its next plan.
Fail(t) ==
    /\ errors < world.errors
    /\ task[t].op \notin {"idle", "next"}
    /\ errors' = errors + 1
    /\ Set(t, Idle) \/ (t \notin Web /\ Set(t, Done(t)))
    /\ UNCHANGED <<plans, miner, shut, world, moved>>

\* What a thread does without being asked again.
Proceed(t) ==
    \/ ExecuteChoose(t) \/ ExecuteNothing(t) \/ ExecuteCommit(t)
    \/ RecoverLoad(t) \/ RecoverRead(t) \/ RecoverCommit(t)
    \/ CancelCommit(t) \/ EmergencyCommit(t)
    \/ t = "executor" /\ PendingNext
    \/ t = "recoverer" /\ (RecoveryNext \/ RecoveryMark)

Request(w) ==
    \/ EmergencyLoad(w)
    \/ \E p \in Plans : \/ Create(w, p) \/ ExecuteRequest(w, p) \/ RecoverRequest(w, p)
                        \/ DeleteRequest(w, p) \/ CancelRequest(w, p)

Next ==
    \/ \E t \in Threads : Proceed(t) \/ Fail(t)
    \/ \E w \in Web : Request(w)
    \/ PendingSelect \/ RecoverySelect
    \/ \E m \in Miners : StartMiner(m) \/ DisableMiner(m) \/ Upload(m)
    \/ \E p \in Plans : Tick(p)

Spec == Init /\ [][Next]_vars

\* Threads go on, the jobs are started every minute, and time passes.
FairSpec ==
    /\ Spec
    /\ \A t \in Threads : SF_vars(Proceed(t))
    /\ SF_vars(PendingSelect) /\ SF_vars(RecoverySelect)
    /\ \A p \in Plans : WF_vars(Tick(p))

-----------------------------------------------------------------------------
\* Every variable keeps its type, and a job between two plans has plans to do.
TypeOK ==
    /\ status \in [Plans -> PlanStatus]
    /\ auto \in [Plans -> BOOLEAN] /\ ends \in [Plans -> BOOLEAN]
    /\ clock \in [Plans -> {"early", "begun", "over"}]
    /\ miner \in [Miners -> MinerStatus]
    /\ shut \in [Plans -> SUBSET Miners] /\ moved \subseteq Miners
    /\ task \in [Threads -> Tasks]
    /\ \A t \in Threads : task[t].op = "next" => task[t].todo # {}
    /\ world \in Worlds /\ errors \in 0..world.errors

\* No plan will wake m any more.
Stranded(m) == miner[m] = "maintenance" /\ Holders(m) = {}

\* While a plan executes, the miners it has shut down stay down and are no other
\* plan's, as long as threads do not overlap and nobody else writes their status.
HoldsItsMiners ==
    ~world.overlap =>
        \A p \in Plans : status[p] \in Recoverable =>
            \A m \in shut[p] \ moved : miner[m] = "maintenance" /\ Holders(m) = {p}

\* A miner is left in maintenance for good only by a cancellation or an emergency
\* restore, by the failure of a shutdown, or because two threads overlapped.
StrandedOnlyBy ==
    [][\A m \in Miners : ~Stranded(m) /\ Stranded(m)' =>
           \/ world.overlap /\ \E t \in Threads : RecoverCommit(t) \/ ExecuteNothing(t)
           \/ m \in ZeroPower
           \/ \E w \in Web : CancelCommit(w) \/ EmergencyCommit(w)]_vars

\* A finished plan stays finished, and a cancelled one cancelled, unless threads
\* overlap.
FinishedStays ==
    [][~world.overlap => \A p \in Plans :
           /\ status[p] \in Finished => status'[p] \in Finished
           /\ status[p] = "cancelled" => status'[p] = "cancelled"]_vars

\* No job looks any more for the plans that can still wake m: they are marked for
\* recovery, or have no end, and no thread works on them.
Abandoned(m) ==
    \A p \in Holders(m) : /\ status[p] = "recovery_pending" \/ ~ends[p]
                          /\ \A t \in Threads : task[t].plan # p

\* A curtailed miner is active again some time, unless it is stranded, others write its
\* status, or its plan is given up, which takes an error.
ComesBack ==
    \A m \in Miners \ ZeroPower :
        miner[m] = "maintenance" ~>
            \/ miner[m] = "active"
            \/ Stranded(m) \/ m \in moved
            \/ errors > 0 /\ Abandoned(m)

==============================================================================
