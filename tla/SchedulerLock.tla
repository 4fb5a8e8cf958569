----------------------------- MODULE SchedulerLock -----------------------------
(***************************************************************************)
(* The row of models.SchedulerLock that is to keep the background jobs of   *)
(* the web application in one process, and the life of the schedulers that  *)
(* take it: acquire at start-up, heartbeats every minute, release at exit   *)
(* (services/lease_recovery.py; the telemetry, automation, curtailment and  *)
(* cgminer schedulers have the same life, the power aggregation scheduler   *)
(* a heartbeat that acquires).  One scheduler is modelled with its key, and *)
(* of the schedulers of other keys what they do to this key's row: every    *)
(* acquire_lock cleans up the expired rows of all keys.                     *)
(*                                                                          *)
(* Every statement that the ORM sends is a step of its own.  An UPDATE and  *)
(* a DELETE name the row by its key alone.                                  *)
(***************************************************************************)
EXTENDS Integers, FiniteSets

CONSTANTS
    Processes,   \* incarnations of the web application: each starts once
    NoProcess,   \* no row
    Sweepers,    \* schedulers of other keys
    Twins,       \* those of them, on different hosts, that have the same pid
    Starters,    \* how many processes may be starting up at a time
    Slow,        \* whether a process may be held up for the 300 s of a lock
    Recycles,    \* whether gunicorn replaces workers that were forked from a process
    Reacquires   \* whether the heartbeat acquires, as power_aggregation_scheduler does

ASSUME LockAssumption == /\ NoProcess \notin Processes
                         /\ IsFiniteSet(Processes)
                         /\ Twins \subseteq Processes
                         /\ Starters \in Nat \ {0}
                         /\ {Slow, Recycles, Reacquires} \subseteq BOOLEAN

VARIABLES
    row,      \* the row of the lock's key: whose it is, and whether expires_at is ahead
    life,     \* life[p]: p has not started, is there, or has exited or died
    running,  \* running[p]: the jobs of p are scheduled
    step,     \* step[p]: the statement that p executes next
    sweep     \* sweep[s]: the clean-up of s has selected this key's row as expired

\* Kept only to state properties.
VARIABLE
    robbed    \* the processes whose valid row a clean-up for another key has deleted,
              \* or one of these processes in turn

vars == <<row, life, running, step, sweep, robbed>>

Acquiring == {"clean", "look", "refresh", "insert"}   \* within acquire_lock
Steps     == {"idle", "beat", "free", "drop"} \cup Acquiring

Rows    == {r \in [owner : Processes \cup {NoProcess}, fresh : BOOLEAN] :
               r.owner = NoProcess => ~r.fresh}
NoRow   == [owner |-> NoProcess, fresh |-> FALSE]
IsThere == row.owner # NoProcess
Active  == IsThere /\ row.fresh
SamePid(p, q) == p = q \/ {p, q} \subseteq Twins

\* A DELETE by key, of whatever row has the key by now, that was decided on for an
\* earlier one.
RobsOwner == robbed' = IF row.fresh THEN robbed \cup {row.owner} ELSE robbed
MayRob(p) == IF p \in robbed THEN RobsOwner ELSE UNCHANGED robbed

Goto(p, s) == step' = [step EXCEPT ![p] = s]

Init == /\ row = NoRow
        /\ life = [p \in Processes |-> "new"]
        /\ running = [p \in Processes |-> FALSE]
        /\ step = [p \in Processes |-> "idle"]
        /\ sweep = [s \in Sweepers |-> FALSE]
        /\ robbed = {}

-----------------------------------------------------------------------------
(* SchedulerLock.acquire_lock                                               *)

\* cleanup_expired_locks: the SELECT.
Enter(p) == Goto(p, IF IsThere /\ ~row.fresh THEN "clean" ELSE "look")

\* What the caller does with the answer; a heartbeat that failed stops the jobs.
Gets(p)  == /\ running' = [running EXCEPT ![p] = TRUE]
            /\ Goto(p, "idle")
Fails(p) == /\ running' = [running EXCEPT ![p] = FALSE]
            /\ Goto(p, IF running[p] THEN "free" ELSE "idle")

\* init_app: called once, when the process starts.
Start(p) ==
    /\ life[p] = "new"
    /\ Cardinality({q \in Processes : step[q] \in Acquiring}) < Starters
    /\ life' = [life EXCEPT ![p] = "up"]
    /\ Enter(p)
    /\ UNCHANGED <<row, running, sweep, robbed>>

\* Fault: nothing is deleted.
CleanNot(p) ==
    /\ step[p] = "clean"
    /\ Goto(p, "look")
    /\ UNCHANGED <<row, life, running, sweep, robbed>>

\* cleanup_expired_locks: the DELETE.
Clean(p) ==
    /\ step[p] = "clean"
    /\ row' = NoRow
    /\ MayRob(p)
    /\ Goto(p, "look")
    /\ UNCHANGED <<life, running, sweep>>

\* Faults: the lock is taken for one's own whoever has it, and the own lock for
\* another's.
LookBlind(p) ==
    /\ step[p] = "look"
    /\ Goto(p, IF Active THEN "refresh" ELSE "insert")
    /\ UNCHANGED <<row, life, running, sweep, robbed>>
LookStrict(p) ==
    /\ step[p] = "look"
    /\ IF Active THEN Fails(p) ELSE Goto(p, "insert") /\ UNCHANGED running
    /\ UNCHANGED <<row, life, sweep, robbed>>

\* get_active_lock
Look(p) ==
    /\ step[p] = "look"
    /\ IF ~Active THEN Goto(p, "insert") /\ UNCHANGED running
       ELSE IF SamePid(row.owner, p) THEN Goto(p, "refresh") /\ UNCHANGED running
       ELSE Fails(p)
    /\ UNCHANGED <<row, life, sweep, robbed>>

\* The UPDATE of no row is an error.
Refresh(p) ==
    /\ step[p] = "refresh"
    /\ IF IsThere THEN row' = [row EXCEPT !.fresh = TRUE] /\ Gets(p)
       ELSE UNCHANGED row /\ Fails(p)
    /\ UNCHANGED <<life, sweep, robbed>>

\* The key is the primary key.
Insert(p) ==
    /\ step[p] = "insert"
    /\ IF ~IsThere THEN row' = [owner |-> p, fresh |-> TRUE] /\ Gets(p)
       ELSE UNCHANGED row /\ Fails(p)
    /\ UNCHANGED <<life, sweep, robbed>>

-----------------------------------------------------------------------------
(* _heartbeat_job, stop, release_lock                                       *)

\* Fault: a heartbeat that finds the lock lost does not stop the jobs.
BeatDeaf(p) ==
    /\ running[p] /\ step[p] = "idle"
    /\ IF Reacquires THEN Enter(p) /\ UNCHANGED running
       ELSE IF Active /\ SamePid(row.owner, p) THEN Goto(p, "beat") /\ UNCHANGED running
       ELSE Goto(p, "idle") /\ UNCHANGED running
    /\ UNCHANGED <<row, life, sweep, robbed>>

Beat(p) ==
    /\ running[p] /\ step[p] = "idle"
    /\ IF Reacquires THEN Enter(p) /\ UNCHANGED running
       ELSE IF Active /\ SamePid(row.owner, p) THEN Goto(p, "beat") /\ UNCHANGED running
       ELSE Fails(p)
    /\ UNCHANGED <<row, life, sweep, robbed>>

\* The UPDATE of no row is an error, which is logged.
BeatWrite(p) ==
    /\ step[p] = "beat"
    /\ row' = IF IsThere THEN [row EXCEPT !.fresh = TRUE] ELSE row
    /\ Goto(p, "idle")
    /\ UNCHANGED <<life, running, sweep, robbed>>

\* A normal exit (atexit).
Exit(p) ==
    /\ running[p] /\ step[p] = "idle"
    /\ life' = [life EXCEPT ![p] = "gone"]
    /\ running' = [running EXCEPT ![p] = FALSE]
    /\ Goto(p, "free")
    /\ UNCHANGED <<row, sweep, robbed>>

\* release_lock: the SELECT, by key and pid.
Free(p) ==
    /\ step[p] = "free"
    /\ Goto(p, IF IsThere /\ SamePid(row.owner, p) THEN "drop" ELSE "idle")
    /\ UNCHANGED <<row, life, running, sweep, robbed>>

\* Fault: the release clears the owner and leaves expires_at.
DropHalf(p) ==
    /\ step[p] = "drop"
    /\ row' = [row EXCEPT !.owner = NoProcess]
    /\ MayRob(p)
    /\ Goto(p, "idle")
    /\ UNCHANGED <<life, running, sweep>>

\* release_lock: the DELETE.
Drop(p) ==
    /\ step[p] = "drop"
    /\ row' = NoRow
    /\ MayRob(p)
    /\ Goto(p, "idle")
    /\ UNCHANGED <<life, running, sweep>>

\* preload_app: the workers are forked from the process that runs the jobs.  One
\* that exits (max_requests) calls the stop it has inherited, which releases the
\* lock in the name of its parent.
Recycle(p) ==
    /\ Recycles /\ running[p]
    /\ IsThere /\ SamePid(row.owner, p)
    /\ row' = NoRow
    /\ UNCHANGED <<life, running, step, sweep, robbed>>

-----------------------------------------------------------------------------
(* cleanup_expired_locks, called for another key                            *)

SweepSelect(s) ==
    /\ IsThere /\ ~row.fresh /\ ~sweep[s]
    /\ sweep' = [sweep EXCEPT ![s] = TRUE]
    /\ UNCHANGED <<row, life, running, step, robbed>>

\* The DELETE of no row is a warning.
SweepDelete(s) ==
    /\ sweep[s]
    /\ sweep' = [sweep EXCEPT ![s] = FALSE]
    /\ row' = NoRow
    /\ RobsOwner
    /\ UNCHANGED <<life, running, step>>

SweepDies(s) ==
    /\ sweep[s]
    /\ sweep' = [sweep EXCEPT ![s] = FALSE]
    /\ UNCHANGED <<row, life, running, step, robbed>>

-----------------------------------------------------------------------------
\* Heartbeats come five times before a lock expires.
Expire ==
    /\ Active
    /\ Slow \/ \A p \in Processes : SamePid(row.owner, p) => ~running[p] /\ step[p] = "idle"
    /\ row' = [row EXCEPT !.fresh = FALSE]
    /\ UNCHANGED <<life, running, step, sweep, robbed>>

Crash(p) ==
    /\ life[p] = "up" \/ step[p] # "idle"
    /\ life' = [life EXCEPT ![p] = "gone"]
    /\ running' = [running EXCEPT ![p] = FALSE]
    /\ Goto(p, "idle")
    /\ UNCHANGED <<row, sweep, robbed>>

Proceed(p) == \/ Clean(p) \/ Look(p) \/ Refresh(p) \/ Insert(p)
              \/ BeatWrite(p) \/ Free(p) \/ Drop(p)

Next == \/ \E p \in Processes : Start(p) \/ Proceed(p) \/ Beat(p) \/ Exit(p)
                                \/ Recycle(p) \/ Crash(p)
        \/ \E s \in Sweepers : SweepSelect(s) \/ SweepDelete(s) \/ SweepDies(s)
        \/ Expire

Spec == Init /\ [][Next]_vars

\* Processes execute what they have begun, and their heartbeats come.
FairSpec == Spec /\ \A p \in Processes : WF_vars(Proceed(p)) /\ SF_vars(Beat(p))

-----------------------------------------------------------------------------
\* Every variable keeps its type.
TypeOK == /\ row \in Rows
          /\ life \in [Processes -> {"new", "up", "gone"}]
          /\ running \in [Processes -> BOOLEAN]
          /\ step \in [Processes -> Steps]
          /\ sweep \in [Sweepers -> BOOLEAN]
          /\ robbed \subseteq Processes

SomeoneRuns == \E p \in Processes : running[p]

OneOf(S) == \A p, q \in S : running[p] /\ running[q] => p = q

\* The jobs run in one process at a time; those that run them besides have been
\* robbed of their lock by the clean-up of another scheduler.
OneRunner == OneOf(Processes \ robbed)

\* A process that finds the lock of a dead process expired, and lives on, does not
\* leave the jobs without a runner.
TakesOver ==
    \A p \in Processes : step[p] = "clean" ~> (SomeoneRuns \/ life[p] = "gone")

\* A process that has been replaced, or robbed of its lock, notices: for good, there
\* is one runner.
StaleStops == <>[]OneOf(Processes)

\* The jobs are left without a runner only by an exit or a death, for a lock that a
\* process has left behind, or when the runner has been robbed of its lock: a runner
\* that stops otherwise knows of another.
LastRunnerStays ==
    [][SomeoneRuns /\ ~SomeoneRuns' =>
           \/ life' # life
           \/ IsThere /\ life[row.owner] = "gone"
           \/ \E p \in robbed : running[p]]_vars

\* While some process stays, the jobs are run again and again.
JobsRun == (\E p \in Processes : <>[](life[p] = "up")) => []<>SomeoneRuns

-----------------------------------------------------------------------------
(* The inductive invariant behind OneRunner, for processes that start one   *)
(* after the other, on one host, and are not held up, whatever the          *)
(* schedulers of other keys clean up.                                       *)

OneByOne == Starters = 1 /\ Twins = {} /\ ~Slow /\ ~Recycles

Starting(p) == step[p] \in Acquiring /\ ~running[p]

RunnerHasLock ==
    \A p \in Processes \ robbed :
        /\ running[p] \/ step[p] = "drop" => row = [owner |-> p, fresh |-> TRUE]
        /\ step[p] = "free" /\ row.owner = p => row.fresh

StarterIsAlone == \A p, q \in Processes : Starting(p) /\ Starting(q) => p = q

StarterIsNew == \A p \in Processes :
                    life[p] = "new" \/ Starting(p) =>
                        row.owner # p /\ ~running[p] /\ p \notin robbed

\* What a starting process has seen of the row has not been overtaken, but for the
\* row of a process that was robbed.
NothingOvertaken ==
    \A p \in Processes : Starting(p) /\ step[p] \in {"clean", "insert"} =>
        \A q \in Processes \ robbed :
            /\ ~running[q] /\ step[q] # "drop"
            /\ step[q] = "free" => row.owner # q

\* Heartbeats, those that acquire too, only ever refresh.
StepAgrees == \A p \in Processes :
                  /\ life[p] = "new" => step[p] = "idle"
                  /\ running[p] \/ step[p] \in Acquiring => life[p] = "up"
                  /\ running[p] => step[p] \in {"idle", "beat"} \cup Acquiring
                  /\ running[p] /\ p \notin robbed => step[p] \notin {"clean", "insert"}
                  /\ step[p] \in {"beat", "refresh"} => running[p]

OneByOneInv == RunnerHasLock /\ StarterIsAlone /\ StarterIsNew /\ NothingOvertaken /\ StepAgrees

=============================================================================
