---------------------------- MODULE MCNameChain -----------------------------
(* Small instances of NameChain for TLC.                                   *)
EXTENDS NameChain, TLC

CONSTANTS n1, n2

Nodes == {n1, n2}

utxo(d, w, e) == [domain |-> d, owner |-> w, exp |-> e]
new(id, d, w, e) ==
  [id |-> id, type |-> "NameNew", input |-> [domain |-> NoDomain, owner |-> w],
   output |-> utxo(d, w, e), plain |-> NoDomain]
spend(id, type, d, w, out) ==
  [id |-> id, type |-> type, input |-> [domain |-> d, owner |-> w],
   output |-> out, plain |-> out.domain]

\* Ann registers h, reveals it as d and hands d over to Bob; a second reveal
\* spends h too, for the name e; and Bob, who never owns e, updates it.
claim == new("t1", "h", "ann", 0)
reveal == spend("t2", "NameFirstUpdate", "h", "ann", utxo("d", "ann", 1))
again == spend("t3", "NameFirstUpdate", "h", "ann", utxo("e", "ann", 0))
handover == spend("t4", "NameUpdate", "d", "ann", utxo("d", "bob", 1))
bobs == spend("t5", "NameUpdate", "e", "bob", utxo("e", "bob", 2))

\* Bob claims the hashed name h as well, or a name of his own.
rival == new("t6", "h", "bob", 1)
other == new("t7", "g", "bob", 1)

\* Bob, who never owns h, reveals it as e.
theft == spend("t8", "NameFirstUpdate", "h", "bob", utxo("e", "bob", 1))

\* Who sends what to whom.
SentFollower == (n1 :> {claim, reveal, again, bobs, other}) @@ (n2 :> {})
SentConverge == (n1 :> {claim, handover, theft}) @@ (n2 :> {reveal, other})
SentSpends == (n1 :> {claim, reveal}) @@ (n2 :> {again})
SentRivals == (n1 :> {claim, rival}) @@ (n2 :> {})

\* The passing runs are instances of what the theorems ask of the clients.
ASSUME MCHypotheses ==
  /\ Sent = SentFollower => OneMiner
  /\ Sent = SentConverge => OneLine
=============================================================================
