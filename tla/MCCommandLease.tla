---------------------------- MODULE MCCommandLease ----------------------------
(* CommandLease on small instances. *)
EXTENDS CommandLease, TLC

Symmetry == Permutations(Devices)
=============================================================================
