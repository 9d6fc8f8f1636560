------------------------------- MODULE MCPage -------------------------------
(* Small instances of Page for TLC.                                         *)
EXTENDS Page, TLC

\* Chat messages of the node itself and of another node, and a packet of
\* another type.
Packets == {"own", "theirs", "status"}
Sender == [p \in Packets |-> IF p = "own" THEN "me" ELSE "x"]

\* Each section by itself: they share only Flash, PeerInfo and Messaging.
Alone == {{sec} : sec \in Section}
=============================================================================
