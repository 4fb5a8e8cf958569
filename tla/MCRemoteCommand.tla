---------------------------- MODULE MCRemoteCommand ----------------------------
(* RemoteCommand on small instances. *)
EXTENDS RemoteCommand

CONSTANTS d1, d2, k1, u1, u2

\* A collector beside an edge device, two requests at a time.
Mixed == [clients |-> {d1, k1, u1}, workers |-> 2, lapses |-> FALSE, dies |-> TRUE]

\* An edge device whose leases lapse, one worker, and two operators who both approve.
Edge == [clients |-> {d1, u1, u2}, workers |-> 1, lapses |-> TRUE, dies |-> TRUE]

\* Two ACKs at a time that are served to their end.
Follows == [clients |-> {d1, d2, u1}, workers |-> 2, lapses |-> FALSE, dies |-> FALSE]

\* A collector beside an edge device, one request at a time.
Turns == [clients |-> {d1, k1, u1, u2}, workers |-> 1, lapses |-> FALSE, dies |-> TRUE]

AllWorlds == {Mixed, Edge, Follows, Turns}
=============================================================================
