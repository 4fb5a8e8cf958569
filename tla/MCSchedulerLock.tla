---------------------------- MODULE MCSchedulerLock ----------------------------
(* SchedulerLock on small instances. *)
EXTENDS SchedulerLock, TLC

\* Processes of one host are alike.
Symmetry == Permutations(Processes \ Twins)
=============================================================================
