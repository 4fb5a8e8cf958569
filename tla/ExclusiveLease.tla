---------------------------- MODULE ExclusiveLease ----------------------------
(***************************************************************************)
(* What the control plane promises of a command: it is in the hands of one  *)
(* device at a time, a device must give it up before the next one gets it,  *)
(* it is handed out a bounded number of times, and no device keeps it.      *)
(***************************************************************************)
EXTENDS Integers

CONSTANTS Commands, Devices, NoOwner, MaxRetries

VARIABLES holder,    \* holder[c]: the device that has command c, or NoOwner
          handouts   \* handouts[c]: how many times c was handed out

lease == <<holder, handouts>>

Init == /\ holder = [c \in Commands |-> NoOwner]
        /\ handouts = [c \in Commands |-> 0]

Grant(c, d) == /\ holder[c] = NoOwner
               /\ handouts[c] <= MaxRetries
               /\ holder' = [holder EXCEPT ![c] = d]
               /\ handouts' = [handouts EXCEPT ![c] = @ + 1]

GiveUp(c) == /\ holder[c] # NoOwner
             /\ holder' = [holder EXCEPT ![c] = NoOwner]
             /\ UNCHANGED handouts

Next == \E c \in Commands : GiveUp(c) \/ \E d \in Devices : Grant(c, d)

Spec == Init /\ [][Next]_lease

FairSpec == Spec /\ \A c \in Commands : WF_lease(GiveUp(c))

=============================================================================
