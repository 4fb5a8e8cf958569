----------------------------- MODULE MCEdgeRunner -----------------------------
(* EdgeRunner on small instances. *)
EXTENDS EdgeRunner

CONSTANTS d1, d2

\* One command and devices of any make; a runner beside another device; two runners
\* with faults; and two commands and two runners when all is calm.
AllWorlds ==
    {[runners |-> {},       others |-> {d1, d2}, queue |-> {1},    calm |-> FALSE],
     [runners |-> {d1},     others |-> {d2},     queue |-> {1},    calm |-> FALSE],
     [runners |-> {d1, d2}, others |-> {},       queue |-> {1},    calm |-> FALSE],
     [runners |-> {d1, d2}, others |-> {},       queue |-> {1, 2}, calm |-> TRUE]}
=============================================================================
