--------------------------- MODULE FifoBroadcast ----------------------------
(***************************************************************************)
(* What the gossip layer promises, without packets, acks or databases:     *)
(* nodes publish numbered rumors, and every node delivers the rumors of an *)
(* origin in their order, each at most once, never one that was not        *)
(* published.  An origin has delivered its own rumor when it publishes it. *)
(***************************************************************************)
EXTENDS Naturals

CONSTANTS Node, Msg

VARIABLES
  last,         \* last[o]: the number of the last rumor o published
  published,    \* the rumors published so far
  delivered     \* delivered[n]: the rumors n has delivered

fvars == <<last, published, delivered>>

FInit ==
  /\ last = [o \in Node |-> 0]
  /\ published = {}
  /\ delivered = [n \in Node |-> {}]

Publish(o, m) ==
  LET r == [origin |-> o, seq |-> last[o] + 1, msg |-> m]
  IN  /\ last' = [last EXCEPT ![o] = @ + 1]
      /\ published' = published \cup {r}
      /\ delivered' = [delivered EXCEPT ![o] = @ \cup {r}]

Deliver(n, r) ==
  /\ r \in published
  /\ r \notin delivered[n]
  /\ \A q \in published :
       q.origin = r.origin /\ q.seq < r.seq => q \in delivered[n]
  /\ delivered' = [delivered EXCEPT ![n] = @ \cup {r}]
  /\ UNCHANGED <<last, published>>

FNext ==
  \/ \E o \in Node : \E m \in Msg : Publish(o, m)
  \/ \E n \in Node : \E r \in published : Deliver(n, r)

FSpec == FInit /\ [][FNext]_fvars
=============================================================================
