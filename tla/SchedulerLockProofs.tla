-------------------------- MODULE SchedulerLockProofs --------------------------
(***************************************************************************)
(* Theorems about the lock of the schedulers: every reachable state is      *)
(* typed, whatever the constants; and processes that start one after the    *)
(* other, on one host, and are not held up, run the jobs in one of them,    *)
(* unless a clean-up for another key robs it of its lock.                   *)
(***************************************************************************)
EXTENDS SchedulerLock, FiniteSetTheorems, TLAPS

\* The variables of SchedulerLock always have their types.
THEOREM LockTyping == Spec => []TypeOK
<1>1. Init => TypeOK
  BY LockAssumption DEF Init, TypeOK, Rows, NoRow, Steps
<1>2. TypeOK /\ [Next]_vars => TypeOK'
  <2> SUFFICES ASSUME TypeOK, [Next]_vars
               PROVE  TypeOK'
    OBVIOUS
  <2> USE LockAssumption DEF TypeOK, Steps, Acquiring
  <2>0. row.fresh => row.owner \in Processes
    BY DEF Rows
  <2> USE <2>0 DEF RobsOwner, MayRob
  <2>1. ASSUME NEW p \in Processes, Start(p) PROVE TypeOK'
    BY <2>1 DEF Start, Enter, Goto
  <2>2. ASSUME NEW p \in Processes, Clean(p) PROVE TypeOK'
    BY <2>2 DEF Clean, Goto, NoRow, Rows
  <2>3. ASSUME NEW p \in Processes, Look(p) PROVE TypeOK'
    BY <2>3 DEF Look, Goto, Fails
  <2>4. ASSUME NEW p \in Processes, Refresh(p) PROVE TypeOK'
    <3>1. row' \in Rows
      BY <2>4 DEF Refresh, Rows, IsThere
    <3>2. /\ running' \in [Processes -> BOOLEAN]
          /\ step' \in [Processes -> Steps]
      BY <2>4 DEF Refresh, Goto, Fails, Gets
    <3> QED BY <2>4, <3>1, <3>2 DEF Refresh
  <2>5. ASSUME NEW p \in Processes, Insert(p) PROVE TypeOK'
    <3>1. row' \in Rows
      <4>1. [owner |-> p, fresh |-> TRUE] \in Rows
        BY DEF Rows
      <4> QED BY <2>5, <4>1 DEF Insert
    <3>2. /\ running' \in [Processes -> BOOLEAN]
          /\ step' \in [Processes -> Steps]
      BY <2>5 DEF Insert, Goto, Fails, Gets
    <3> QED BY <2>5, <3>1, <3>2 DEF Insert
  <2>6. ASSUME NEW p \in Processes, Beat(p) PROVE TypeOK'
    BY <2>6 DEF Beat, Enter, Goto, Fails
  <2>7. ASSUME NEW p \in Processes, BeatWrite(p) PROVE TypeOK'
    BY <2>7 DEF BeatWrite, Goto, Rows, IsThere
  <2>8. ASSUME NEW p \in Processes, Exit(p) PROVE TypeOK'
    BY <2>8 DEF Exit, Goto
  <2>9. ASSUME NEW p \in Processes, Free(p) PROVE TypeOK'
    BY <2>9 DEF Free, Goto
  <2>10. ASSUME NEW p \in Processes, Drop(p) PROVE TypeOK'
    BY <2>10 DEF Drop, Goto, NoRow, Rows
  <2>11. ASSUME NEW p \in Processes, Recycle(p) PROVE TypeOK'
    BY <2>11 DEF Recycle, NoRow, Rows
  <2>12. ASSUME NEW p \in Processes, Crash(p) PROVE TypeOK'
    BY <2>12 DEF Crash, Goto
  <2>13. CASE Expire
    BY <2>13 DEF Expire, Rows
  <2>14. ASSUME NEW s \in Sweepers, SweepSelect(s) \/ SweepDelete(s) \/ SweepDies(s)
         PROVE  TypeOK'
    <3>1. /\ row' = row \/ row' = NoRow
          /\ robbed' = robbed \/ RobsOwner
          /\ sweep' \in [Sweepers -> BOOLEAN]
          /\ UNCHANGED <<life, running, step>>
      BY <2>14 DEF SweepSelect, SweepDelete, SweepDies
    <3>2. row' \in Rows
      <4>1. NoRow \in Rows
        BY DEF NoRow, Rows
      <4> QED BY <3>1, <4>1
    <3>3. robbed' \subseteq Processes
      BY <3>1
    <3> QED BY <3>1, <3>2, <3>3
  <2>15. CASE UNCHANGED vars
    BY <2>15 DEF vars
  <2> QED
    BY <2>1, <2>2, <2>3, <2>4, <2>5, <2>6, <2>7, <2>8, <2>9, <2>10, <2>11, <2>12,
       <2>13, <2>14, <2>15 DEF Next, Proceed
<1> QED
  BY <1>1, <1>2, PTL DEF Spec

\* A process that starts up is alone if at most one may.
LEMMA NobodyStarts ==
    ASSUME TypeOK, Starters = 1,
           Cardinality({q \in Processes : step[q] \in Acquiring}) < Starters
    PROVE  \A q \in Processes : step[q] \notin Acquiring
<1> DEFINE S == {q \in Processes : step[q] \in Acquiring}
<1>1. IsFiniteSet(S)
  BY LockAssumption, FS_Subset
<1>2. Cardinality(S) \in Nat
  BY <1>1, FS_CardinalityType
<1>3. Cardinality(S) = 0
  BY <1>2
<1>4. S = {}
  BY <1>1, <1>3, FS_EmptySet
<1> QED
  BY <1>4

\* What the deletion of the row by a process that was robbed, or by another scheduler,
\* leaves of the invariant.
LEMMA RobberyKept ==
    ASSUME TypeOK, OneByOneInv, row' = NoRow, RobsOwner
    PROVE  /\ \A q \in Processes \ robbed' : /\ q \notin robbed
                                             /\ ~running[q] /\ step[q] # "drop"
           /\ \A q \in Processes : life[q] = "new" \/ Starting(q) => q \notin robbed'
           /\ row'.owner \notin Processes
<1> USE LockAssumption DEF TypeOK, OneByOneInv, RobsOwner, NoRow
<1>1. ASSUME NEW q \in Processes \ robbed'
      PROVE  q \notin robbed /\ ~running[q] /\ step[q] # "drop"
  <2>1. q \notin robbed /\ (row.fresh => row.owner # q)
    OBVIOUS
  <2> QED BY <2>1 DEF RunnerHasLock
<1>2. ASSUME NEW q \in Processes, life[q] = "new" \/ Starting(q) PROVE q \notin robbed'
  <2>1. row.owner # q /\ q \notin robbed
    BY <1>2 DEF StarterIsNew
  <2> QED BY <2>1
<1> QED
  BY <1>1, <1>2

\* Every step of processes that start one after the other keeps the invariant.
LEMMA OneByOneStep ==
    ASSUME OneByOne, TypeOK, OneByOneInv, [Next]_vars
    PROVE  OneByOneInv'
<1> USE LockAssumption DEF TypeOK, OneByOneInv, RunnerHasLock, StarterIsAlone, StarterIsNew,
                           NothingOvertaken, StepAgrees, Starting, Acquiring
<1>0. \A p, q \in Processes : SamePid(p, q) <=> p = q
  BY DEF SamePid, OneByOne
<1>a. IsThere => row.owner \in Processes
  BY DEF IsThere, Rows
<1>b. Active <=> row.fresh
  BY DEF Active, IsThere, Rows
<1>1. ASSUME NEW p \in Processes, Start(p) PROVE OneByOneInv'
  <2>1. \A q \in Processes : step[q] \notin Acquiring
    BY <1>1, NobodyStarts DEF Start, OneByOne
  <2>2. /\ life[p] = "new" /\ life' = [life EXCEPT ![p] = "up"]
        /\ step'[p] \in {"clean", "look"} /\ (step'[p] = "clean" => ~row.fresh)
        /\ \A q \in Processes \ {p} : step'[q] = step[q]
        /\ UNCHANGED <<row, running, robbed>>
    BY <1>1 DEF Start, Enter, Goto
  <2>3. NothingOvertaken'
    BY <2>1, <2>2
  <2> QED BY <2>1, <2>2, <2>3
<1>2. ASSUME NEW p \in Processes, Clean(p) PROVE OneByOneInv'
  <2>1. /\ step[p] = "clean" /\ step'[p] = "look" /\ row' = NoRow
        /\ \A q \in Processes \ {p} : step'[q] = step[q]
        /\ UNCHANGED <<life, running>>
    BY <1>2 DEF Clean, Goto
  <2>2. CASE p \in robbed
    <3>1. RobsOwner
      BY <1>2, <2>2 DEF Clean, MayRob
    <3> HIDE DEF OneByOneInv
    <3>2. /\ \A q \in Processes \ robbed' : /\ q \notin robbed
                                            /\ ~running[q] /\ step[q] # "drop"
          /\ \A q \in Processes : life[q] = "new" \/ Starting(q) => q \notin robbed'
          /\ row'.owner \notin Processes
      BY <2>1, <3>1, RobberyKept
    <3> USE DEF OneByOneInv
    <3> QED BY <2>1, <3>2
  <2>3. CASE p \notin robbed
    <3>1. UNCHANGED robbed
      BY <1>2, <2>3 DEF Clean, MayRob
    <3>2. Starting(p)
      BY <2>1, <2>3
    <3> QED BY <2>1, <2>3, <3>1, <3>2 DEF NoRow
  <2> QED BY <2>2, <2>3
<1>3. ASSUME NEW p \in Processes, Look(p) PROVE OneByOneInv'
  <2>1. /\ step[p] = "look" /\ UNCHANGED <<row, life, robbed>>
        /\ \A q \in Processes \ {p} : step'[q] = step[q] /\ running'[q] = running[q]
    BY <1>3 DEF Look, Goto, Fails
  <2>2. CASE running[p] /\ p \notin robbed
    <3>1. Active /\ SamePid(row.owner, p)
      BY <1>0, <1>b, <2>2
    <3>2. step'[p] = "refresh" /\ running'[p]
      BY <1>3, <2>2, <3>1 DEF Look, Goto
    <3> QED BY <2>1, <2>2, <3>2
  <2>3. CASE running[p] /\ p \in robbed
    <3>1. \/ step'[p] \in {"insert", "refresh"} /\ running'[p]
          \/ step'[p] = "free" /\ ~running'[p]
      BY <1>3, <2>3 DEF Look, Goto, Fails
    <3> QED BY <2>1, <2>3, <3>1
  <2>4. CASE ~running[p]
    <3>1. Active => ~SamePid(row.owner, p)
      BY <1>0, <1>a, <2>1, <2>4 DEF Active
    <3>2. ~running'[p] /\ ((step'[p] = "insert" /\ ~row.fresh) \/ step'[p] = "idle")
      BY <1>3, <1>b, <2>4, <3>1 DEF Look, Goto, Fails
    <3> QED BY <2>1, <2>4, <3>2
  <2> QED BY <2>2, <2>3, <2>4
<1>4. ASSUME NEW p \in Processes, Refresh(p) \/ BeatWrite(p) PROVE OneByOneInv'
  <2>1. /\ running[p] /\ UNCHANGED <<life, robbed>>
        /\ \A q \in Processes \ {p} : step'[q] = step[q] /\ running'[q] = running[q]
    BY <1>4 DEF Refresh, BeatWrite, Goto, Fails, Gets
  <2>2. row'.owner = row.owner /\ (row.fresh => row' = row) /\ (IsThere => row'.fresh)
    <3>1. CASE IsThere
      <4>1. row' = [row EXCEPT !.fresh = TRUE]
        BY <1>4, <3>1 DEF Refresh, BeatWrite
      <4>2. row \in [owner : Processes \cup {NoProcess}, fresh : BOOLEAN]
        BY DEF Rows
      <4>3. row.fresh => row = [owner |-> row.owner, fresh |-> TRUE]
        BY <4>2
      <4>4. row' = [owner |-> row.owner, fresh |-> TRUE]
        BY <4>1, <4>2
      <4> QED BY <4>3, <4>4
    <3>2. CASE ~IsThere
      BY <1>4, <3>2 DEF Refresh, BeatWrite
    <3> QED BY <3>1, <3>2
  <2>3. \/ running'[p] /\ step'[p] = "idle"
        \/ ~running'[p] /\ step'[p] = "free" /\ ~IsThere
    BY <1>4, <2>1 DEF Refresh, BeatWrite, Goto, Fails, Gets
  <2>4. RunnerHasLock'
    <3> SUFFICES ASSUME NEW q \in Processes \ robbed
                 PROVE  /\ running'[q] \/ step'[q] = "drop" => row' = [owner |-> q, fresh |-> TRUE]
                        /\ step'[q] = "free" /\ row'.owner = q => row'.fresh
      BY <2>1
    <3>1. CASE q = p
      BY <2>1, <2>2, <2>3, <3>1
    <3>2. CASE q # p
      BY <2>1, <2>2, <3>2 DEF IsThere
    <3> QED BY <3>1, <3>2
  <2>5. StarterIsAlone' /\ StarterIsNew' /\ StepAgrees'
    BY <2>1, <2>2, <2>3
  <2>6. NothingOvertaken'
    BY <2>1, <2>2, <2>3
  <2> QED BY <2>4, <2>5, <2>6
<1>5. ASSUME NEW p \in Processes, Insert(p) PROVE OneByOneInv'
  <2>1. /\ step[p] = "insert" /\ life[p] = "up" /\ (p \in robbed \/ Starting(p))
        /\ UNCHANGED <<life, robbed>>
        /\ \A q \in Processes \ {p} : step'[q] = step[q] /\ running'[q] = running[q]
    BY <1>5 DEF Insert, Goto, Fails, Gets
  <2>2. CASE IsThere
    <3>1. /\ UNCHANGED row /\ ~running'[p]
          /\ step'[p] = IF running[p] THEN "free" ELSE "idle"
      BY <1>5, <2>2 DEF Insert, Goto, Fails
    <3> QED BY <2>1, <3>1
  <2>3. CASE ~IsThere
    <3>1. row' = [owner |-> p, fresh |-> TRUE] /\ row'.owner = p /\ row'.fresh
      BY <1>5, <2>3 DEF Insert
    <3>2. running'[p] /\ step'[p] = "idle"
      BY <1>5, <2>3 DEF Insert, Gets, Goto
    <3>3. \A q \in Processes \ robbed : ~running[q] /\ step[q] # "drop"
      BY <2>3 DEF IsThere
    <3>4. RunnerHasLock'
      <4> SUFFICES ASSUME NEW q \in Processes \ robbed
                   PROVE  /\ running'[q] \/ step'[q] = "drop" => row' = [owner |-> q, fresh |-> TRUE]
                          /\ step'[q] = "free" /\ row'.owner = q => row'.fresh
        BY <2>1
      <4>1. CASE q = p
        BY <3>1, <3>2, <4>1
      <4>2. CASE q # p
        BY <2>1, <3>1, <3>3, <4>2
      <4> QED BY <4>1, <4>2
    <3>5. StarterIsNew' /\ StarterIsAlone' /\ StepAgrees'
      BY <2>1, <3>1, <3>2
    <3>6. NothingOvertaken'
      <4> SUFFICES ASSUME NEW z \in Processes, ~running'[z], step'[z] \in {"clean", "insert"},
                          NEW q \in Processes \ robbed
                   PROVE  /\ ~running'[q] /\ step'[q] # "drop"
                          /\ step'[q] = "free" => row'.owner # q
        BY <2>1
      <4>1. z # p /\ Starting(z)
        BY <2>1, <3>2
      <4>2. q # p
        BY <2>1, <4>1
      <4> QED BY <2>1, <3>1, <3>3, <4>2
    <3> QED BY <3>4, <3>5, <3>6
  <2> QED BY <2>2, <2>3
<1>6. ASSUME NEW p \in Processes, Beat(p) PROVE OneByOneInv'
  <2>1. /\ running[p] /\ UNCHANGED <<row, life, robbed>>
        /\ \A q \in Processes \ {p} : step'[q] = step[q] /\ running'[q] = running[q]
    BY <1>6 DEF Beat, Enter, Goto, Fails
  <2>2. CASE p \notin robbed
    <3>1. row = [owner |-> p, fresh |-> TRUE] /\ Active /\ SamePid(row.owner, p)
      BY <1>0, <1>b, <2>1, <2>2
    <3>2. step'[p] \in {"look", "beat"} /\ running'[p]
      BY <1>6, <2>1, <3>1 DEF Beat, Enter, Goto
    <3> QED BY <2>1, <3>2
  <2>3. CASE p \in robbed
    <3>1. \/ step'[p] \in {"clean", "look", "beat"} /\ running'[p]
          \/ step'[p] = "free" /\ ~running'[p]
      BY <1>6, <2>1 DEF Beat, Enter, Goto, Fails
    <3> QED BY <2>1, <2>3, <3>1
  <2> QED BY <2>2, <2>3
<1>7. ASSUME NEW p \in Processes, Exit(p) \/ Crash(p) PROVE OneByOneInv'
  <2>1. /\ UNCHANGED <<row, robbed>> /\ ~running'[p] /\ life'[p] = "gone"
        /\ (step'[p] = "idle" \/ (step'[p] = "free" /\ running[p]))
        /\ \A q \in Processes \ {p} :
               step'[q] = step[q] /\ running'[q] = running[q] /\ life'[q] = life[q]
    BY <1>7 DEF Exit, Crash, Goto
  <2> QED BY <2>1
<1>8. ASSUME NEW p \in Processes, Free(p) PROVE OneByOneInv'
  <2>1. /\ UNCHANGED <<row, life, running, robbed>> /\ step[p] = "free"
        /\ (step'[p] = "idle" \/ (step'[p] = "drop" /\ row.owner = p))
        /\ \A q \in Processes \ {p} : step'[q] = step[q]
    BY <1>0, <1>8, <1>a DEF Free, Goto
  <2>2. step'[p] = "drop" /\ p \notin robbed => row = [owner |-> p, fresh |-> TRUE]
    BY <2>1 DEF Rows
  <2> QED BY <2>1, <2>2
<1>9. ASSUME NEW p \in Processes, Drop(p) PROVE OneByOneInv'
  <2>1. /\ step[p] = "drop" /\ step'[p] = "idle" /\ row' = NoRow
        /\ \A q \in Processes \ {p} : step'[q] = step[q]
        /\ UNCHANGED <<life, running>>
    BY <1>9 DEF Drop, Goto
  <2>2. CASE p \in robbed
    <3>1. RobsOwner
      BY <1>9, <2>2 DEF Drop, MayRob
    <3> HIDE DEF OneByOneInv
    <3>2. /\ \A q \in Processes \ robbed' : /\ q \notin robbed
                                            /\ ~running[q] /\ step[q] # "drop"
          /\ \A q \in Processes : life[q] = "new" \/ Starting(q) => q \notin robbed'
          /\ row'.owner \notin Processes
      BY <2>1, <3>1, RobberyKept
    <3> USE DEF OneByOneInv
    <3> QED BY <2>1, <3>2
  <2>3. CASE p \notin robbed
    <3>1. UNCHANGED robbed /\ row.owner = p
      BY <1>9, <2>1, <2>3 DEF Drop, MayRob
    <3> QED BY <2>1, <2>3, <3>1 DEF NoRow
  <2> QED BY <2>2, <2>3
<1>10. ASSUME NEW p \in Processes, Recycle(p) PROVE OneByOneInv'
  BY <1>10 DEF Recycle, OneByOne
<1>11. ASSUME NEW s \in Sweepers, SweepDelete(s) PROVE OneByOneInv'
  <2>1. row' = NoRow /\ RobsOwner /\ UNCHANGED <<life, running, step>>
    BY <1>11 DEF SweepDelete
  <2> HIDE DEF OneByOneInv
  <2>2. /\ \A q \in Processes \ robbed' : /\ q \notin robbed
                                          /\ ~running[q] /\ step[q] # "drop"
        /\ \A q \in Processes : life[q] = "new" \/ Starting(q) => q \notin robbed'
        /\ row'.owner \notin Processes
    BY <2>1, RobberyKept
  <2> USE DEF OneByOneInv
  <2> QED BY <2>1, <2>2
<1>12. CASE Expire
  <2>1. row' = [row EXCEPT !.fresh = FALSE] /\ UNCHANGED <<life, running, step, robbed>>
    BY <1>12 DEF Expire
  <2>2. row.owner \in Processes /\ ~running[row.owner] /\ step[row.owner] = "idle"
    BY <1>0, <1>12, <1>a DEF Expire, Active, OneByOne
  <2> QED BY <2>1, <2>2 DEF Rows
<1>13. ASSUME UNCHANGED <<row, life, running, step, robbed>> PROVE OneByOneInv'
  BY <1>13
<1> QED
  BY <1>1, <1>2, <1>3, <1>4, <1>5, <1>6, <1>7, <1>8, <1>9, <1>10, <1>11, <1>12, <1>13
     DEF Next, Proceed, SweepSelect, SweepDies, vars

\* If processes start one after the other, have pids of their own and are not held up,
\* and no worker is forked from the process that runs the jobs, then the jobs run in
\* one process at a time, as the docstring of SchedulerLock says, but for processes
\* that the clean-up of another scheduler has robbed of their lock.
THEOREM LockSafety == OneByOne => (Spec => []OneRunner)
<1> SUFFICES ASSUME OneByOne
             PROVE  Spec => []OneRunner
  OBVIOUS
<1>1. Init => OneByOneInv
  BY LockAssumption DEF Init, OneByOneInv, RunnerHasLock, StarterIsAlone, StarterIsNew,
                        NothingOvertaken, StepAgrees, Starting, Acquiring, NoRow
<1>2. TypeOK /\ OneByOneInv /\ [Next]_vars => OneByOneInv'
  BY OneByOneStep
<1>3. OneByOneInv => OneRunner
  BY DEF OneByOneInv, RunnerHasLock, OneRunner, OneOf, TypeOK
<1> QED
  BY <1>1, <1>2, <1>3, LockTyping, PTL DEF Spec

\* Only an exit or a death stops a runner that was not robbed.
LEMMA OnlyEndsStop ==
    ASSUME OneByOne, TypeOK, OneByOneInv, [Next]_vars,
           NEW r \in Processes \ robbed, running[r], ~running'[r]
    PROVE  life' # life
<1> USE LockAssumption DEF TypeOK, OneByOneInv, RunnerHasLock, StepAgrees, Acquiring
<1>0. row = [owner |-> r, fresh |-> TRUE] /\ IsThere /\ Active /\ SamePid(row.owner, r)
  BY DEF SamePid, IsThere, Active
<1>1. ASSUME NEW p \in Processes, Look(p) \/ Refresh(p) \/ Insert(p) \/ Beat(p) PROVE FALSE
  <2>1. CASE p = r
    BY <1>0, <1>1, <2>1 DEF Look, Refresh, Insert, Beat, Gets
  <2>2. CASE p # r
    BY <1>1, <2>2 DEF Look, Refresh, Insert, Beat, Gets, Fails
  <2> QED BY <2>1, <2>2
<1>2. ASSUME NEW p \in Processes, Exit(p) \/ Crash(p) PROVE life' # life
  <2>1. p = r
    <3>1. p # r => running'[r] = running[r]
      BY <1>2 DEF Exit, Crash
    <3> QED BY <3>1
  <2>2. life'[r] = "gone"
    BY <1>2, <2>1 DEF Exit, Crash
  <2>3. life[r] # "gone"
    BY <2>1
  <2> QED BY <2>2, <2>3
<1> QED
  BY <1>1, <1>2
     DEF Next, Proceed, Start, Clean, BeatWrite, Free, Drop, Recycle, SweepSelect,
         SweepDelete, SweepDies, Expire, vars

\* Under the same conditions a process that runs the jobs stops only when it exits or
\* dies, whatever the others' starts do to the row, or when the clean-up of another
\* scheduler has robbed it.
THEOREM LockKept == OneByOne => (Spec => LastRunnerStays)
<1> SUFFICES ASSUME OneByOne
             PROVE  Spec => LastRunnerStays
  OBVIOUS
<1>1. Init => OneByOneInv
  BY LockAssumption DEF Init, OneByOneInv, RunnerHasLock, StarterIsAlone, StarterIsNew,
                        NothingOvertaken, StepAgrees, Starting, Acquiring, NoRow
<1>2. TypeOK /\ OneByOneInv /\ [Next]_vars => OneByOneInv'
  BY OneByOneStep
<1>3. TypeOK /\ OneByOneInv /\ [Next]_vars =>
          [SomeoneRuns /\ ~SomeoneRuns' =>
               \/ life' # life
               \/ IsThere /\ life[row.owner] = "gone"
               \/ \E p \in robbed : running[p]]_vars
  BY OnlyEndsStop DEF SomeoneRuns
<1> QED
  BY <1>1, <1>2, <1>3, LockTyping, PTL DEF Spec, LastRunnerStays
=============================================================================
