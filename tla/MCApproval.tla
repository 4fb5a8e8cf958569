------------------------------ MODULE MCApproval ------------------------------
(* Approval on small instances. *)
EXTENDS Approval

\* Any two commands by turns, or one on which two requests work at a time.
SmallWorlds == {[workers |-> 1, ids |-> Commands]}
                   \cup {[workers |-> 2, ids |-> {c}] : c \in Commands}
=============================================================================
