---------------------------- MODULE MCCurtailment ----------------------------
(* Curtailment on small instances. *)
EXTENDS Curtailment, TLC

\* Miners with power are alike.
MinerSymmetry == Permutations(Miners \ ZeroPower)

\* An approved automatic plan with an end, and a manual plan without.
SmallKinds == {[auto |-> TRUE,  ends |-> TRUE,  status |-> "approved"],
               [auto |-> FALSE, ends |-> FALSE, status |-> "pending"]}

\* Others at the miners; errors and deaths; threads side by side.
SmallWorlds == {[overlap |-> FALSE, others |-> TRUE,  errors |-> 0],
                [overlap |-> FALSE, others |-> FALSE, errors |-> 1],
                [overlap |-> TRUE,  others |-> FALSE, errors |-> 0]}
=============================================================================
