------------------------------ MODULE MCGossip ------------------------------
(* Small instances of Gossip for TLC.                                      *)
EXTENDS Gossip, TLC

CONSTANTS a, b, c, m1, m2, user, miner

\* Two nodes that know each other.
PairNode == {a, b}
Pair == (a :> {b}) @@ (b :> {a})

\* Three nodes of which only b has peers: a, and c, which it adds while the
\* nodes run; it also tries to add itself.
HubNode == {a, b, c}
Hub == (a :> {}) @@ (b :> {a}) @@ (c :> {})
NoLate == [n \in Node |-> {}]
LateB == [n \in Node |-> IF n = b THEN {b, c} ELSE {}]

\* Every handler accepts; or b's handler may fail.
Accepting == [n \in Node |-> [m \in Msg |-> {TRUE}]]
FlakyB == [n \in Node |-> [m \in Msg |-> IF n = b THEN BOOLEAN ELSE {TRUE}]]

\* How often each goroutine broadcasts: twice, or once, at a.
QuotaA2 == [n \in Node |-> [g \in Caller |-> IF n = a THEN 2 ELSE 0]]
QuotaA == [n \in Node |-> [g \in Caller |-> IF n = a THEN 1 ELSE 0]]
=============================================================================
