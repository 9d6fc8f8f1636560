----------------------------- MODULE PageProofs -----------------------------
(* Proofs about module Page: what the page shows is true, for any number of  *)
(* packets, values, versions and operations that a user starts at a time in  *)
(* any of the sections.                                                      *)
EXTENDS Page, FiniteSetTheorems, TLAPS

RoutingWrites == {"addPeer", "setEntry"}

\* What a call c carries, for a node with routing table version r, catalog
\* version k and unicast messages a: what the code that follows its await
\* relies on.
CallInv(c, r, k, a) ==
  /\ c.op = "reading" => c.st = "sent"
  /\ c.op = "unicast" =>
       /\ c.main \in Value /\ c.other \in Value
       /\ c.st = "ok" => [peer |-> c.other, text |-> c.main] \in a
  /\ c.op = "download" => c.main \in Value /\ (c.st = "ok" => c.text = c.main)
  /\ c.op = "socket" => /\ c.st = "ok" => c.text = Me
                        /\ c.st = "bad" => c.text = Garbage
  /\ c.op \in {"table", "graph"} =>
       c.since <= r /\ (c.st = "ok" => c.since <= c.ver /\ c.ver <= r)
  /\ c.op = "catalog" =>
       c.since <= k /\ (c.st = "ok" => c.since <= c.ver /\ c.ver <= k)

CallsInv == \A s \in Slot : CallInv(calls[s], routing, catalog, accepted)

\* The page shows its own address, the text of a refusal, or none yet.
SocketShown == shown["socket"] \in {Empty, Me, Garbage}

\* The writes of the kinds ops that the node has carried out and of which the
\* page does not know yet.
Made(c, ops) == c.op \in ops /\ c.st = "ok"
Unseen(ops) == Cardinality({s \in Slot : Made(calls[s], ops)})

\* The page knows of no change the node did not make.
ToldIsTrue ==
  /\ told["routing"] + 1 + Unseen(RoutingWrites) <= routing
  /\ told["catalog"] + 1 + Unseen({"add"}) <= catalog

\* The inductive invariant: what the calls carry, and what the page shows.
PageInv ==
  /\ TypeOK
  /\ CallsInv
  /\ SocketShown
  /\ ToldIsTrue
  /\ AllInitialize
  /\ SentIsTrue
  /\ SavedAsAsked
  /\ PlaceholderEnds

-----------------------------------------------------------------------------
(* Calls *)

\* A new request is a call.
LEMMA RequestType ==
  ASSUME NEW op \in Op, NEW main \in Input, NEW other \in Input, NEW n \in Nat
  PROVE  Request(op, main, other, n) \in Call
BY DEF Request, Call, Text, Input

\* A call with op and st of its own is not Idle.
LEMMA NotIdle ==
  ASSUME NEW c \in Call \cup {Idle}, c.op \in Op
  PROVE  c \in Call /\ c # Idle
BY DEF Idle, Op

LEMMA CallNotIdle == \A c \in Call : c # Idle /\ c.op # "idle"
BY DEF Call, Op, Idle

\* What a call carries stays true while the node moves on.
LEMMA CallInvMono ==
  ASSUME NEW c \in Call \cup {Idle}, NEW r \in Nat, NEW k \in Nat, NEW a,
         NEW r1 \in Nat, NEW k1 \in Nat, NEW a1,
         r <= r1, k <= k1, a \subseteq a1, CallInv(c, r, k, a)
  PROVE  CallInv(c, r1, k1, a1)
<1>1. CASE c = Idle
  BY <1>1 DEF CallInv, Idle
<1>2. CASE c \in Call
  <2>1. c.since \in Nat /\ c.ver \in Nat
    BY <1>2 DEF Call
  <2> QED BY <2>1 DEF CallInv
<1> QED BY <1>1, <1>2

\* The sets of slots are finite.
LEMMA SlotsFinite ==
  ASSUME NEW S \in SUBSET Slot
  PROVE  IsFiniteSet(S) /\ Cardinality(S) \in Nat
<1>1. 1 \in Int /\ MaxOpen + 3 \in Int
  BY PageAssumption
<1>2. IsFiniteSet(Slot)
  BY <1>1, FS_Interval DEF Slot
<1>3. IsFiniteSet(S)
  BY <1>2, FS_Subset
<1> QED BY <1>3, FS_CardinalityType

LEMMA UnseenType == \A ops : Unseen(ops) \in Nat
BY SlotsFinite DEF Unseen

\* One slot changes: the calls of the others still carry what they did, and
\* the writes that the page does not know of change by this one.
LEMMA OneSlot ==
  ASSUME TypeOK, NEW s \in Slot, NEW c \in Call \cup {Idle},
         calls' = [calls EXCEPT ![s] = c]
  PROVE  /\ calls' \in [Slot -> Call \cup {Idle}]
         /\ calls'[s] = c
         /\ \A t \in Slot : t # s => calls'[t] = calls[t]
<1>1. calls \in [Slot -> Call \cup {Idle}]
  BY DEF TypeOK
<1> QED BY <1>1

LEMMA OneWrite ==
  ASSUME TypeOK, NEW s \in Slot, NEW c \in Call \cup {Idle},
         calls' = [calls EXCEPT ![s] = c], NEW ops
  PROVE  /\ Unseen(ops) \in Nat /\ Unseen(ops)' \in Nat
         /\ ~Made(calls[s], ops) /\ Made(c, ops) =>
              Unseen(ops)' = Unseen(ops) + 1
         /\ Made(calls[s], ops) /\ ~Made(c, ops) =>
              Unseen(ops)' = Unseen(ops) - 1
         /\ ~Made(calls[s], ops) /\ ~Made(c, ops) =>
              Unseen(ops)' = Unseen(ops)
<1> DEFINE S == {t \in Slot : Made(calls[t], ops)}
           T == {t \in Slot : Made(calls'[t], ops)}
<1>1. /\ S \in SUBSET Slot /\ T \in SUBSET Slot
      /\ Unseen(ops) = Cardinality(S) /\ Unseen(ops)' = Cardinality(T)
  BY DEF Unseen, Made
<1>2. /\ IsFiniteSet(S) /\ Cardinality(S) \in Nat
      /\ IsFiniteSet(T) /\ Cardinality(T) \in Nat
  BY <1>1, SlotsFinite
<1>3. /\ calls'[s] = c
      /\ \A t \in Slot : t # s => calls'[t] = calls[t]
  BY OneSlot
<1>4. /\ s \in S <=> Made(calls[s], ops)
      /\ s \in T <=> Made(c, ops)
      /\ \A t \in Slot : t # s => (t \in S <=> t \in T)
  BY <1>3
<1> HIDE DEF S, T
<1>5. CASE s \notin S /\ s \in T
  <2>1. T = S \cup {s}
    BY <1>1, <1>4, <1>5
  <2>2. Cardinality(T) = Cardinality(S) + 1
    BY <1>2, <1>5, <2>1, FS_AddElement
  <2> QED BY <1>1, <1>2, <1>4, <1>5, <2>2
<1>6. CASE s \in S /\ s \notin T
  <2>1. T = S \ {s}
    BY <1>1, <1>4, <1>6
  <2>2. Cardinality(T) = Cardinality(S) - 1
    BY <1>2, <1>6, <2>1, FS_RemoveElement
  <2> QED BY <1>1, <1>2, <1>4, <1>6, <2>2
<1>7. CASE s \in S <=> s \in T
  <2>1. T = S
    BY <1>1, <1>4, <1>7
  <2> QED BY <1>1, <1>2, <1>4, <1>7, <2>1
<1> QED BY <1>5, <1>6, <1>7

LEMMA SlotInv ==
  ASSUME TypeOK, CallsInv, NEW s \in Slot, NEW c \in Call \cup {Idle},
         calls' = [calls EXCEPT ![s] = c],
         routing' \in Nat, catalog' \in Nat, routing <= routing',
         catalog <= catalog', accepted \subseteq accepted',
         CallInv(c, routing', catalog', accepted')
  PROVE  CallsInv'
<1>1. routing \in Nat /\ catalog \in Nat
  BY PageAssumption DEF TypeOK
<1>2. calls \in [Slot -> Call \cup {Idle}]
  BY DEF TypeOK
<1>3. ASSUME NEW t \in Slot
      PROVE  CallInv(calls'[t], routing', catalog', accepted')
  <2>1. CASE t = s
    BY <2>1, <1>2
  <2>2. CASE t # s
    <3>1. calls'[t] = calls[t] /\ calls[t] \in Call \cup {Idle}
      BY <2>2, <1>2
    <3>2. CallInv(calls[t], routing, catalog, accepted)
      BY DEF CallsInv
    <3>3. CallInv(calls[t], routing', catalog', accepted')
      BY <1>1, <3>1, <3>2, CallInvMono
    <3> QED BY <3>1, <3>3
  <2> QED BY <2>1, <2>2
<1> QED BY <1>3 DEF CallsInv, CallInv

\* fetch takes a free slot.
LEMMA FetchSlot ==
  ASSUME NEW c, fetch(c)
  PROVE  \E s \in Slot : calls[s] = Idle /\ calls' = [calls EXCEPT ![s] = c]
BY DEF fetch, Free

-----------------------------------------------------------------------------
(* Steps of the page after it has loaded *)

\* The views, as TypeOK has them.
ViewsOK ==
  /\ flash \in [Kind -> Nat]
  /\ table \in 0 .. routing /\ graph \in 0 .. routing /\ content \in 0 .. catalog
  /\ shown \in [TextView -> Text \cup {"searching", "nothing"}]
  /\ failed \subseteq SearchOp
  /\ messages \subseteq [class : {"sent", "received"}, peer : Value \cup {Me},
                         text : Value \cup Pkt]
  /\ saved \subseteq [name : Value, blob : Value]
  /\ told \in [{"routing", "catalog"} -> Nat]

\* A handler that leaves one call c in slot s keeps the invariant when the
\* views it changes do.
LEMMA HandlerKeeps ==
  ASSUME PageInv, Loaded, NEW s \in Slot, NEW c \in Call \cup {Idle},
         calls' = [calls EXCEPT ![s] = c], Apart,
         CallInv(c, routing, catalog, accepted),
         ViewsOK', SocketShown', ToldIsTrue', SentIsTrue', SavedAsAsked',
         PlaceholderEnds'
  PROVE  PageInv'
<1>1. calls' \in [Slot -> Call \cup {Idle}]
  BY OneSlot DEF PageInv
<1>2. TypeOK'
  BY <1>1 DEF PageInv, TypeOK, ViewsOK, Apart, nodeVars
<1>3. CallsInv'
  <2>1. routing \in Nat /\ catalog \in Nat
    BY PageAssumption DEF PageInv, TypeOK
  <2>2. routing' = routing /\ catalog' = catalog /\ accepted' = accepted
    BY DEF Apart, nodeVars
  <2>3. /\ routing' \in Nat /\ catalog' \in Nat
        /\ routing <= routing' /\ catalog <= catalog'
        /\ accepted \subseteq accepted'
        /\ CallInv(c, routing', catalog', accepted')
    BY <2>1, <2>2
  <2> QED BY <2>3, SlotInv DEF PageInv
<1>5. AllInitialize'
  BY DEF PageInv, AllInitialize, Apart
<1> QED BY <1>2, <1>3, <1>5 DEF PageInv

\* A call of another section than search comes or goes: a placeholder that may
\* be shown still may.
LEMMA PlaceholderKeeps ==
  ASSUME TypeOK, PlaceholderEnds, NEW s \in Slot, NEW c \in Call \cup {Idle},
         calls' = [calls EXCEPT ![s] = c],
         calls[s].op \notin SearchOp \/ c.op = calls[s].op,
         \A v \in SearchOp : shown'[v] = "searching" =>
                               shown[v] = "searching", failed' = failed
  PROVE  PlaceholderEnds'
<1> SUFFICES ASSUME NEW v \in SearchOp, shown'[v] = "searching", v \notin failed
             PROVE  \E t \in Slot : calls'[t].op = v
  BY DEF PlaceholderEnds, Open
<1>1. PICK t \in Slot : calls[t].op = v
  BY DEF PlaceholderEnds, Open
<1>2. t # s => calls'[t] = calls[t]
  BY OneSlot
<1>3. calls'[s] = c
  BY OneSlot
<1> QED BY <1>1, <1>2, <1>3

\* A call takes no part in the count of writes.
LEMMA ToldKeeps ==
  ASSUME TypeOK, ToldIsTrue, NEW s \in Slot, NEW c \in Call \cup {Idle},
         calls' = [calls EXCEPT ![s] = c],
         c.op \in RoutingWrites \cup {"add"} => c.st # "ok",
         told' = told, routing' = routing, catalog' = catalog
  PROVE  ToldIsTrue'
<1>1. ~Made(c, RoutingWrites) /\ ~Made(c, {"add"})
  BY DEF Made
<1>2. ASSUME NEW ops, ~Made(c, ops)
      PROVE  /\ Unseen(ops)' <= Unseen(ops)
             /\ Unseen(ops) \in Nat /\ Unseen(ops)' \in Nat
  <2>1. /\ Unseen(ops) \in Nat /\ Unseen(ops)' \in Nat
        /\ Unseen(ops)' = Unseen(ops) \/ Unseen(ops)' = Unseen(ops) - 1
    <3>1. CASE Made(calls[s], ops)
      BY <1>2, <3>1, OneWrite
    <3>2. CASE ~Made(calls[s], ops)
      BY <1>2, <3>2, OneWrite
    <3> QED BY <3>1, <3>2
  <2> QED BY <2>1
<1>3. /\ Unseen(RoutingWrites)' <= Unseen(RoutingWrites)
      /\ Unseen({"add"})' <= Unseen({"add"})
      /\ Unseen(RoutingWrites) \in Nat /\ Unseen(RoutingWrites)' \in Nat
      /\ Unseen({"add"}) \in Nat /\ Unseen({"add"})' \in Nat
  BY <1>1, <1>2
<1>4. told["routing"] \in Nat /\ told["catalog"] \in Nat /\ routing \in Nat
      /\ catalog \in Nat
  BY PageAssumption DEF TypeOK
<1> QED BY <1>3, <1>4 DEF ToldIsTrue

\* A handler that changes no view, but the calls and the flash messages.
LEMMA QuietKeeps ==
  ASSUME PageInv, Loaded, NEW s \in Slot, NEW c \in Call \cup {Idle},
         calls' = [calls EXCEPT ![s] = c], Apart, UNCHANGED <<viewVars, told>>,
         flash' \in [Kind -> Nat],
         CallInv(c, routing, catalog, accepted),
         calls[s].op \notin SearchOp \/ c.op = calls[s].op,
         c.op \in RoutingWrites \cup {"add"} => c.st # "ok"
  PROVE  PageInv'
<1> USE DEF PageInv
<1>1. ViewsOK'
  BY DEF TypeOK, ViewsOK, Apart, viewVars, nodeVars
<1>2. SocketShown' /\ SavedAsAsked'
  BY DEF SocketShown, SavedAsAsked, viewVars
<1>3. SentIsTrue'
  BY DEF SentIsTrue, viewVars, Apart, nodeVars
<1>4. PlaceholderEnds'
  BY PlaceholderKeeps DEF viewVars
<1>5. ToldIsTrue'
  BY ToldKeeps DEF Apart, nodeVars
<1> QED BY <1>1, <1>2, <1>3, <1>4, <1>5, HandlerKeeps

\* Idle carries nothing.
LEMMA IdleInv ==
  \A r, k, a : /\ CallInv(Idle, r, k, a)
               /\ Idle.op \notin SearchOp \cup RoutingWrites \cup {"add"}
BY DEF CallInv, Idle, SearchOp, RoutingWrites

\* A step that only shows or hides a flash message, or that only the
\* EventSource sees.
LEMMA FlashKeeps ==
  ASSUME PageInv, flash' \in [Kind -> Nat],
         source' \in {"closed", "open", "broken"},
         UNCHANGED <<work, connected, initialized, calls, viewVars, nodeVars, told>>
  PROVE  PageInv'
<1> USE DEF PageInv, viewVars, nodeVars
<1>1. TypeOK'
  BY DEF TypeOK
<1>2. CallsInv'
  BY DEF CallsInv, CallInv
<1>3. SocketShown' /\ AllInitialize' /\ SavedAsAsked'
  BY DEF SocketShown, AllInitialize, SavedAsAsked
<1>4. ToldIsTrue'
  BY DEF ToldIsTrue, Unseen, Made
<1>5. SentIsTrue'
  BY DEF SentIsTrue
<1>6. PlaceholderEnds'
  BY DEF PlaceholderEnds, Open
<1> QED BY <1>1, <1>2, <1>3, <1>4, <1>5, <1>6

\* fetch puts the request of an operation other than a search into a slot.
LEMMA FetchKeeps ==
  ASSUME PageInv, NEW sec, MayClick(sec),
         NEW op \in Op, NEW main \in Input, NEW other \in Input, NEW n \in Nat,
         fetch(Request(op, main, other, n)),
         CallInv(Request(op, main, other, n), routing, catalog, accepted),
         flash' \in [Kind -> Nat],
         UNCHANGED <<viewVars, told>>, Apart
  PROVE  PageInv'
<1> DEFINE c == Request(op, main, other, n)
<1>2. PICK s \in Slot : calls[s] = Idle /\ calls' = [calls EXCEPT ![s] = c]
  BY FetchSlot
<1>4. c \in Call
  BY RequestType
<1>5. c.st = "sent"
  BY DEF Request
<1>6. Loaded
  BY DEF MayClick
<1>7. calls[s].op \notin SearchOp
  BY <1>2, IdleInv
<1> HIDE DEF c
<1> QED BY <1>2, <1>4, <1>5, <1>6, <1>7, QuietKeeps DEF c

\* So does a form, unless an input is empty.
LEMMA SubmitKeeps ==
  ASSUME PageInv, NEW sec, MayClick(sec),
         NEW op \in Op, NEW els, NEW main \in Input, NEW other \in Input,
         Submit(op, els, main, other),
         Empty \notin els =>
           CallInv(Request(op, main, other, 0), routing, catalog, accepted),
         UNCHANGED <<viewVars, told>>, Apart
  PROVE  PageInv'
<1>0. flash \in [Kind -> Nat] /\ source \in {"closed", "open", "broken"}
  BY DEF PageInv, TypeOK
<1>1. CASE ~checkInputs(els) /\ Invalid
  BY <1>0, <1>1, FlashKeeps DEF Invalid, printError, prints, Kind, Apart
<1>2. CASE /\ checkInputs(els) /\ fetch(Request(op, main, other, 0))
           /\ UNCHANGED flash
  BY <1>0, <1>2, FetchKeeps DEF checkInputs
<1> QED BY <1>1, <1>2 DEF Submit

LEMMA FormKeeps ==
  ASSUME PageInv, NEW m \in Input, NEW o \in Input,
         \/ sendChat(m) \/ addPeer(m) \/ upload(m) \/ download(m)
         \/ send(m, o) \/ sendPrivate(m, o) \/ setEntry(m, o) \/ add(m, o)
         \/ tag(m, o)
  PROVE  PageInv'
<1>0. Empty \in Input /\ (m # Empty => m \in Value) /\ (o # Empty => o \in Value)
  BY DEF Input
<1> DEFINE Harmless(op, main, other) ==
             CallInv(Request(op, main, other, 0), routing, catalog, accepted)
<1>1. \A op \in {"sendChat", "addPeer", "sendPrivate", "setEntry", "add", "tag",
                 "reading"} :
        op \in Op /\ Harmless(op, Empty, Empty) /\ Harmless(op, m, Empty)
  BY DEF CallInv, Request, Op
<1>2. m # Empty => Harmless("download", m, Empty)
  BY <1>0 DEF CallInv, Request
<1>3. m # Empty /\ o # Empty => Harmless("unicast", m, o)
  BY <1>0 DEF CallInv, Request
<1>4. "download" \in Op /\ "unicast" \in Op
  BY DEF Op
<1> HIDE DEF Harmless
<1>5. CASE sendChat(m)
  BY <1>0, <1>1, <1>5, SubmitKeeps DEF sendChat, Harmless
<1>6. CASE addPeer(m)
  BY <1>0, <1>1, <1>6, SubmitKeeps DEF addPeer, Harmless
<1>7. CASE upload(m)
  BY <1>0, <1>1, <1>7, SubmitKeeps DEF upload, Harmless
<1>8. CASE download(m)
  BY <1>0, <1>2, <1>4, <1>8, SubmitKeeps DEF download, Harmless
<1>9. CASE send(m, o)
  BY <1>0, <1>3, <1>4, <1>9, SubmitKeeps DEF send, Harmless
<1>10. CASE sendPrivate(m, o)
  BY <1>0, <1>1, <1>10, SubmitKeeps DEF sendPrivate, Harmless
<1>11. CASE setEntry(m, o)
  BY <1>0, <1>1, <1>11, SubmitKeeps DEF setEntry, Harmless
<1>12. CASE add(m, o)
  BY <1>0, <1>1, <1>12, SubmitKeeps DEF add, Harmless
<1>13. CASE tag(m, o)
  BY <1>0, <1>1, <1>13, SubmitKeeps DEF tag, Harmless
<1> QED BY <1>5, <1>6, <1>7, <1>8, <1>9, <1>10, <1>11, <1>12, <1>13

\* resolve and the update buttons send a request whatever the inputs hold; an
\* update asks for a version that the node has reached.
LEMMA ButtonKeeps ==
  ASSUME PageInv, NEW m \in Input,
         resolve(m) \/ updateRouting \/ updateCatalog
  PROVE  PageInv'
<1>0. /\ flash \in [Kind -> Nat]
      /\ told["routing"] \in Nat /\ told["catalog"] \in Nat
      /\ routing \in Nat /\ catalog \in Nat /\ Empty \in Input
  BY PageAssumption DEF PageInv, TypeOK, Input
<1>1. told["routing"] + 1 <= routing /\ told["catalog"] + 1 <= catalog
  BY <1>0, UnseenType DEF PageInv, ToldIsTrue
<1>2. CASE resolve(m)
  <2>1. CallInv(Request("resolve", m, Empty, 0), routing, catalog, accepted)
    BY DEF CallInv, Request
  <2>2. flash' \in [Kind -> Nat]
    BY <1>0, <1>2 DEF resolve, printError, prints, Kind
  <2> QED BY <1>0, <1>2, <2>1, <2>2, FetchKeeps DEF resolve, Op
<1>3. CASE updateRouting
  <2>1. CallInv(tableRequest(told["routing"]), routing, catalog, accepted)
    BY <1>0, <1>1 DEF CallInv, Request, tableRequest
  <2>2. told["routing"] + 1 \in Nat /\ "table" \in Op
    BY <1>0 DEF Op
  <2>3. MayClick("routing") /\ UNCHANGED <<viewVars, told>> /\ Apart
        /\ flash' \in [Kind -> Nat]
    BY <1>0, <1>3 DEF updateRouting
  <2>4. fetch(Request("table", Empty, Empty, told["routing"] + 1))
    BY <1>3 DEF updateRouting, tableRequest
  <2> QED BY <1>0, <2>1, <2>2, <2>3, <2>4, FetchKeeps DEF tableRequest
<1>4. CASE updateCatalog
  <2>1. CallInv(catalogRequest(told["catalog"]), routing, catalog, accepted)
    BY <1>0, <1>1 DEF CallInv, Request, catalogRequest
  <2>2. told["catalog"] + 1 \in Nat /\ "catalog" \in Op
    BY <1>0 DEF Op
  <2>3. MayClick("catalog") /\ UNCHANGED <<viewVars, told>> /\ Apart
        /\ flash' \in [Kind -> Nat]
    BY <1>0, <1>4 DEF updateCatalog
  <2>4. fetch(Request("catalog", Empty, Empty, told["catalog"] + 1))
    BY <1>4 DEF updateCatalog, catalogRequest
  <2> QED BY <1>0, <2>1, <2>2, <2>3, <2>4, FetchKeeps DEF catalogRequest
<1> QED BY <1>2, <1>3, <1>4

\* A search shows its placeholder when its call is there.
LEMMA SearchKeeps ==
  ASSUME PageInv, NEW op \in SearchOp, NEW m \in Input, NEW o \in Input,
         search(op, m, o)
  PROVE  PageInv'
<1>0. flash \in [Kind -> Nat] /\ source \in {"closed", "open", "broken"}
  BY DEF PageInv, TypeOK
<1>1. CASE ~checkInputs({m, o}) /\ Invalid
  BY <1>0, <1>1, FlashKeeps
     DEF search, Invalid, printError, prints, Kind, Apart, viewVars
<1>2. CASE /\ checkInputs({m, o}) /\ fetch(Request(op, m, Empty, 0))
           /\ UNCHANGED flash
  <2> DEFINE c == Request(op, m, Empty, 0)
  <2>1. Loaded
    BY DEF search, MayClick
  <2>2. PICK s \in Slot : calls[s] = Idle /\ calls' = [calls EXCEPT ![s] = c]
    BY <1>2, FetchSlot
  <2>3. s \in Slot /\ calls[s] = Idle
    BY <2>2
  <2>4. c \in Call /\ c.op = op /\ c.st = "sent"
    <3>1. op \in Op /\ Empty \in Input
      BY DEF Op, SearchOp, Input
    <3> QED BY <3>1, RequestType DEF Request
  <2>5. CallInv(c, routing, catalog, accepted)
    BY DEF CallInv, Request, SearchOp
  <2>6. shown' = [shown EXCEPT ![op] = "searching"]
    BY <1>2 DEF search
  <2> HIDE DEF c
  <2>7. ViewsOK' /\ SocketShown'
    BY <1>2, <2>6 DEF search, PageInv, TypeOK, ViewsOK, Apart, nodeVars, SearchOp,
       TextView, SocketShown
  <2>8. ToldIsTrue'
    BY <2>2, <2>3, <2>4, ToldKeeps DEF search, PageInv, Apart, nodeVars
  <2>9. SentIsTrue' /\ SavedAsAsked'
    BY DEF search, PageInv, SentIsTrue, SavedAsAsked, Apart, nodeVars
  <2>10. PlaceholderEnds'
    <3> SUFFICES ASSUME NEW v \in SearchOp, shown'[v] = "searching",
                        v \notin failed'
                 PROVE  \E t \in Slot : calls'[t].op = v
      BY DEF PlaceholderEnds, Open
    <3>1. calls'[s] = c /\ \A t \in Slot : t # s => calls'[t] = calls[t]
      BY <2>2, <2>3, <2>4, OneSlot DEF PageInv
    <3>2. CASE v = op
      BY <3>1, <3>2, <2>3, <2>4
    <3>3. CASE v # op
      <4>1. shown[v] = "searching" /\ v \notin failed
        BY <2>6, <3>3 DEF search, PageInv, TypeOK
      <4>2. PICK t \in Slot : calls[t].op = v
        BY <4>1 DEF PageInv, PlaceholderEnds, Open
      <4>3. t # s
        BY <4>2, <2>3, IdleInv
      <4> QED BY <4>2, <4>3, <3>1
    <3> QED BY <3>2, <3>3
  <2> QED BY <2>1, <2>2, <2>3, <2>4, <2>5, <2>7, <2>8, <2>9, <2>10, HandlerKeeps
             DEF search
<1> QED BY <1>1, <1>2 DEF search, Submit

\* Nothing a user starts breaks the invariant.
LEMMA ClickKeeps == PageInv /\ Click => PageInv'
<1> SUFFICES ASSUME PageInv, Click PROVE PageInv'
  OBVIOUS
<1>1. Empty \in Input /\ "searchAll" \in SearchOp /\ "searchFirst" \in SearchOp
  BY DEF Input, SearchOp
<1> QED BY <1>1, FormKeeps, ButtonKeeps, SearchKeeps DEF Click

\* An operation other than a search ends and changes no view.
LEMMA EndsKeeps ==
  ASSUME PageInv, Loaded, NEW s \in Slot, calls[s].op \notin SearchOp, ends(s),
         flash' \in [Kind -> Nat], UNCHANGED <<viewVars, told>>, Apart
  PROVE  PageInv'
<1>1. /\ CallInv(Idle, routing, catalog, accepted)
      /\ Idle.op \notin RoutingWrites \cup {"add"}
  BY IdleInv
<1>2. Idle \in Call \cup {Idle}
  OBVIOUS
<1>3. calls' = [calls EXCEPT ![s] = Idle]
  BY DEF ends
<1> QED BY <1>1, <1>2, <1>3, QuietKeeps

LEMMA ReportsKeeps ==
  ASSUME PageInv, Loaded, NEW s \in Slot, NEW op, op \notin SearchOp,
         Reports(s, op), UNCHANGED <<viewVars, told>>, Apart
  PROVE  PageInv'
<1>1. flash' \in [Kind -> Nat]
  BY DEF PageInv, TypeOK, Reports, printError, prints, Kind
<1> QED BY <1>1, EndsKeeps DEF Reports, Failed, Open

\* An operation ends and shows its answer x in view v; a search shows it in
\* the view of its placeholder.
LEMMA ShownKeeps ==
  ASSUME PageInv, Loaded, NEW s \in Slot, ends(s), Apart,
         NEW v \in TextView, NEW x \in Text \cup {"nothing"},
         shown' = [shown EXCEPT ![v] = x],
         v = "socket" => x \in {Empty, Me, Garbage},
         calls[s].op \in SearchOp => v = calls[s].op,
         failed' = failed \/ failed' = failed \ {v},
         flash' \in [Kind -> Nat],
         UNCHANGED <<table, graph, content, messages, saved, told>>
  PROVE  PageInv'
<1> DEFINE c == Idle
<1>1. CallInv(c, routing, catalog, accepted) /\ c.op \notin RoutingWrites \cup {"add"}
  BY IdleInv
<1>2. c \in Call \cup {Idle}
  OBVIOUS
<1>3. calls' = [calls EXCEPT ![s] = c]
  BY DEF ends
<1>4. ViewsOK'
  BY DEF PageInv, TypeOK, ViewsOK, Apart, nodeVars
<1>5. SocketShown'
  BY DEF PageInv, TypeOK, SocketShown, TextView
<1> HIDE DEF c
<1>6. ToldIsTrue'
  BY <1>1, <1>2, <1>3, ToldKeeps DEF PageInv, Apart, nodeVars
<1>7. SentIsTrue' /\ SavedAsAsked'
  BY DEF PageInv, SentIsTrue, SavedAsAsked, Apart, nodeVars
<1>8. PlaceholderEnds'
  <2> SUFFICES ASSUME NEW w \in SearchOp, shown'[w] = "searching", w \notin failed'
               PROVE  \E t \in Slot : calls'[t].op = w
    BY DEF PlaceholderEnds, Open
  <2>1. x # "searching"
    BY PageAssumption DEF Text, Input, Empty, Garbage
  <2>2. w # v /\ shown[w] = "searching"
    BY <2>1 DEF PageInv, TypeOK, TextView
  <2>3. w \notin failed
    BY <2>2
  <2>4. PICK t \in Slot : calls[t].op = w
    BY <2>2, <2>3 DEF PageInv, PlaceholderEnds, Open
  <2>5. t # s
    BY <2>2, <2>4
  <2>6. calls'[t] = calls[t]
    BY <1>2, <1>3, <2>5, OneSlot DEF PageInv
  <2> QED BY <2>4, <2>6
<1> QED BY <1>1, <1>2, <1>3, <1>4, <1>5, <1>6, <1>7, <1>8, HandlerKeeps

\* A failed search leaves the placeholder, and is among the failed ones.
LEMMA SearchFailsKeeps ==
  ASSUME PageInv, Loaded, NEW s \in Slot, NEW op \in SearchOp,
         searchFails(s, op), Apart,
         UNCHANGED <<table, graph, content, messages, saved, told>>
  PROVE  PageInv'
<1> DEFINE c == Idle
<1>1. CallInv(c, routing, catalog, accepted) /\ c.op \notin RoutingWrites \cup {"add"}
  BY IdleInv
<1>2. c \in Call \cup {Idle}
  OBVIOUS
<1>3. calls' = [calls EXCEPT ![s] = c] /\ calls[s].op = op
  BY DEF searchFails, Reports, Failed, Open, ends
<1>4. ViewsOK' /\ SocketShown'
  BY DEF PageInv, TypeOK, ViewsOK, SocketShown, searchFails, Reports, printError,
     prints, Kind, Apart, nodeVars
<1> HIDE DEF c
<1>5. ToldIsTrue'
  BY <1>1, <1>2, <1>3, ToldKeeps DEF PageInv, Apart, nodeVars
<1>6. SentIsTrue' /\ SavedAsAsked'
  BY DEF PageInv, SentIsTrue, SavedAsAsked, Apart, nodeVars
<1>7. PlaceholderEnds'
  <2> SUFFICES ASSUME NEW w \in SearchOp, shown'[w] = "searching", w \notin failed'
               PROVE  \E t \in Slot : calls'[t].op = w
    BY DEF PlaceholderEnds, Open
  <2>1. w # op /\ w \notin failed /\ shown[w] = "searching"
    BY DEF searchFails
  <2>2. PICK t \in Slot : calls[t].op = w
    BY <2>1 DEF PageInv, PlaceholderEnds, Open
  <2>3. t # s
    BY <1>3, <2>1, <2>2
  <2>4. calls'[t] = calls[t]
    BY <1>2, <1>3, <2>3, OneSlot DEF PageInv
  <2> QED BY <2>2, <2>4
<1> QED BY <1>1, <1>2, <1>3, <1>4, <1>5, <1>6, <1>7, HandlerKeeps

\* What TypeOK and CallsInv say of the call in a slot.
LEMMA CallFacts ==
  ASSUME PageInv, NEW s \in Slot, calls[s].op \in Op
  PROVE  /\ calls[s] \in Call /\ calls[s] # Idle
         /\ CallInv(calls[s], routing, catalog, accepted)
BY NotIdle DEF PageInv, TypeOK, CallsInv

\* The handlers that go on with the text of the answer.
LEMMA TextAnswers ==
  ASSUME PageInv, Loaded, NEW s \in Slot,
         \/ socketAddress(s) \/ uploadEnds(s) \/ searchAllEnds(s)
         \/ searchFirstEnds(s) \/ resolveEnds(s)
  PROVE  PageInv'
<1>0. flash \in [Kind -> Nat]
  BY DEF PageInv, TypeOK
<1>1. /\ {"socket", "upload", "searchAll", "searchFirst", "resolve"} \subseteq Op
      /\ {"socket", "upload", "resolve"} \cap SearchOp = {}
      /\ {"searchAll", "searchFirst"} \subseteq SearchOp
      /\ {"socket", "upload", "searchAll", "searchFirst", "resolve"}
           \subseteq TextView
  BY DEF Op, SearchOp, TextView
<1>2. calls[s].op \in Op => /\ calls[s].text \in Text
                            /\ CallInv(calls[s], routing, catalog, accepted)
  BY CallFacts DEF Call
<1>3. CASE socketAddress(s)
  <2>1. Apart /\ ends(s) /\ calls[s].op = "socket"
        /\ UNCHANGED <<table, graph, content, failed, messages, saved, told>>
    BY <1>3 DEF socketAddress, Apart, Open
  <2>2. CASE /\ calls[s].st \in {"ok", "bad"} /\ UNCHANGED flash
             /\ shown' = [shown EXCEPT !["socket"] = calls[s].text]
    <3>1. calls[s].text \in {Empty, Me, Garbage}
      BY <1>1, <1>2, <2>1, <2>2 DEF CallInv
    <3> QED BY <1>0, <1>1, <1>2, <2>1, <2>2, <3>1, ShownKeeps
  <2>3. CASE printError /\ UNCHANGED shown
    <3>1. flash' \in [Kind -> Nat]
      BY <1>0, <2>3 DEF printError, prints, Kind
    <3> QED BY <1>1, <2>1, <2>3, <3>1, EndsKeeps DEF viewVars
  <2> QED BY <1>3, <2>2, <2>3 DEF socketAddress
<1>4. CASE uploadEnds(s)
  <2>1. CASE /\ Ok(s, "upload") /\ printSuccess /\ ends(s)
             /\ shown' = [shown EXCEPT !["upload"] = calls[s].text]
    <3>1. flash' \in [Kind -> Nat] /\ calls[s].op = "upload"
      BY <1>0, <2>1 DEF printSuccess, prints, Kind, Ok, Open
    <3> QED BY <1>1, <1>2, <1>4, <2>1, <3>1, ShownKeeps DEF uploadEnds
  <2>2. CASE Reports(s, "upload") /\ UNCHANGED shown
    BY <1>1, <1>4, <2>2, ReportsKeeps DEF uploadEnds, viewVars
  <2> QED BY <1>4, <2>1, <2>2 DEF uploadEnds
<1>5. CASE searchAllEnds(s)
  <2>1. CASE /\ Ok(s, "searchAll") /\ printSuccess /\ ends(s)
             /\ shown' = [shown EXCEPT !["searchAll"] = calls[s].text]
             /\ failed' = failed \ {"searchAll"}
    <3>1. flash' \in [Kind -> Nat] /\ calls[s].op = "searchAll"
      BY <1>0, <2>1 DEF printSuccess, prints, Kind, Ok, Open
    <3> QED BY <1>1, <1>2, <1>5, <2>1, <3>1, ShownKeeps DEF searchAllEnds
  <2>2. CASE searchFails(s, "searchAll")
    BY <1>1, <1>5, <2>2, SearchFailsKeeps DEF searchAllEnds
  <2> QED BY <1>5, <2>1, <2>2 DEF searchAllEnds
<1>6. CASE searchFirstEnds(s)
  <2> DEFINE x == IF calls[s].text = Empty THEN "nothing" ELSE calls[s].text
  <2>1. CASE /\ Ok(s, "searchFirst") /\ ends(s) /\ prints("success", 2)
             /\ shown' = [shown EXCEPT !["searchFirst"] = x]
             /\ failed' = failed \ {"searchFirst"}
    <3>1. flash' \in [Kind -> Nat] /\ calls[s].op = "searchFirst"
      BY <1>0, <2>1 DEF printSuccess, prints, Kind, Ok, Open
    <3>2. x \in Text \cup {"nothing"}
      BY <1>1, <1>2, <3>1
    <3> HIDE DEF x
    <3> QED BY <1>1, <1>6, <2>1, <3>1, <3>2, ShownKeeps DEF searchFirstEnds
  <2>2. CASE searchFails(s, "searchFirst")
    BY <1>1, <1>6, <2>2, SearchFailsKeeps DEF searchFirstEnds
  <2> QED BY <1>6, <2>1, <2>2 DEF searchFirstEnds
<1>7. CASE resolveEnds(s)
  <2> DEFINE x == IF calls[s].text = Empty THEN "nothing" ELSE calls[s].text
  <2>1. CASE /\ Ok(s, "resolve") /\ printSuccess /\ ends(s)
             /\ shown' = [shown EXCEPT !["resolve"] = x]
    <3>1. flash' \in [Kind -> Nat] /\ calls[s].op = "resolve"
      BY <1>0, <2>1 DEF printSuccess, prints, Kind, Ok, Open
    <3>2. x \in Text \cup {"nothing"}
      BY <1>1, <1>2, <3>1
    <3> HIDE DEF x
    <3> QED BY <1>1, <1>7, <2>1, <3>1, <3>2, ShownKeeps DEF resolveEnds
  <2>2. CASE Reports(s, "resolve") /\ UNCHANGED shown
    BY <1>1, <1>7, <2>2, ReportsKeeps DEF resolveEnds, viewVars
  <2> QED BY <1>7, <2>1, <2>2 DEF resolveEnds
<1> QED BY <1>3, <1>4, <1>5, <1>6, <1>7

\* The handlers that only say how they ended, and those of the file reader.
LEMMA QuietAnswers ==
  ASSUME PageInv, Loaded, NEW s \in Slot,
         saysEnds(s) \/ progress(s) \/ load(s) \/ readerFails(s)
  PROVE  PageInv'
<1>0. flash \in [Kind -> Nat] /\ source \in {"closed", "open", "broken"}
  BY DEF PageInv, TypeOK
<1>1. CASE saysEnds(s)
  <2>1. PICK op \in JustSays : \/ Ok(s, op) /\ printSuccess /\ ends(s)
                               \/ Reports(s, op)
    BY <1>1 DEF saysEnds
  <2>2. op \notin SearchOp
    BY DEF JustSays, SearchOp
  <2>3. CASE Ok(s, op) /\ printSuccess /\ ends(s)
    <3>1. flash' \in [Kind -> Nat] /\ calls[s].op = op
      BY <1>0, <2>3 DEF printSuccess, prints, Kind, Ok, Open
    <3> QED BY <1>1, <2>2, <2>3, <3>1, EndsKeeps DEF saysEnds
  <2>4. CASE Reports(s, op)
    BY <1>1, <2>2, <2>4, ReportsKeeps DEF saysEnds
  <2> QED BY <2>1, <2>3, <2>4
<1>2. CASE progress(s)
  BY <1>0, <1>2, FlashKeeps DEF progress, printSuccess, prints, Kind, Apart
<1>3. CASE load(s)
  <2> DEFINE c == Request("upload", calls[s].main, Empty, 0)
  <2>1. calls[s].op = "reading" /\ calls' = [calls EXCEPT ![s] = c] /\ Apart
        /\ UNCHANGED <<flash, viewVars, told>>
    BY <1>3 DEF load, Open, continues
  <2>2. calls[s].main \in Input
    BY <2>1, CallFacts DEF Op, Call
  <2>3. c \in Call /\ c.op = "upload" /\ c.st = "sent"
    BY <2>2, RequestType DEF Op, Input, Request
  <2>4. CallInv(c, routing, catalog, accepted)
    BY DEF CallInv, Request
  <2>5. calls[s].op \notin SearchOp
    BY <2>1 DEF SearchOp
  <2> HIDE DEF c
  <2> QED BY <1>0, <2>1, <2>3, <2>4, <2>5, QuietKeeps
<1>4. CASE readerFails(s)
  BY <1>0, <1>4, EndsKeeps DEF readerFails, Open, SearchOp
<1> QED BY <1>1, <1>2, <1>3, <1>4

\* A handler that leaves the texts and placeholders alone.
LEMMA ViewKeeps ==
  ASSUME PageInv, Loaded, NEW s \in Slot, NEW c \in Call \cup {Idle},
         calls' = [calls EXCEPT ![s] = c], Apart,
         CallInv(c, routing, catalog, accepted), calls[s].op \notin SearchOp,
         UNCHANGED <<shown, failed>>, ToldIsTrue', SentIsTrue', SavedAsAsked',
         flash' \in [Kind -> Nat],
         table' \in 0 .. routing, graph' \in 0 .. routing,
         content' \in 0 .. catalog,
         messages' \subseteq [class : {"sent", "received"}, peer : Value \cup {Me},
                              text : Value \cup Pkt],
         saved' \subseteq [name : Value, blob : Value],
         told' \in [{"routing", "catalog"} -> Nat]
  PROVE  PageInv'
<1>1. ViewsOK'
  BY DEF ViewsOK, PageInv, TypeOK, Apart, nodeVars
<1>2. SocketShown'
  BY DEF PageInv, SocketShown
<1>3. PlaceholderEnds'
  BY PlaceholderKeeps DEF PageInv
<1> QED BY <1>1, <1>2, <1>3, HandlerKeeps

\* A sent message is shown as the node took it.
LEMMA SendKeeps ==
  ASSUME PageInv, Loaded, NEW s \in Slot, sendEnds(s)
  PROVE  PageInv'
<1>1. CASE Reports(s, "unicast") /\ UNCHANGED messages
  BY <1>1, ReportsKeeps DEF sendEnds, viewVars, SearchOp
<1>2. CASE /\ Ok(s, "unicast") /\ ends(s) /\ UNCHANGED flash
           /\ messages' = messages \cup {[class |-> "sent", peer |-> calls[s].other,
                                          text |-> calls[s].main]}
  <2> DEFINE new == [class |-> "sent", peer |-> calls[s].other,
                     text |-> calls[s].main]
             old == [peer |-> calls[s].other, text |-> calls[s].main]
  <2>1. calls[s].op = "unicast" /\ calls[s].st = "ok"
    BY <1>2 DEF Ok, Open
  <2>2. calls[s].main \in Value /\ calls[s].other \in Value /\ old \in accepted
    BY <2>1, CallFacts DEF CallInv, Op
  <2>3. calls[s].main \notin Pkt
    BY <2>2, PageAssumption
  <2>4. SentIsTrue'
    <3> SUFFICES ASSUME NEW m \in messages', m.class = "sent"
                 PROVE  IF m.text \in Pkt THEN Source[m.text] = Me
                        ELSE [peer |-> m.peer, text |-> m.text] \in accepted
      BY DEF SentIsTrue, sendEnds, Apart, nodeVars
    <3>1. CASE m \in messages
      BY <3>1 DEF PageInv, SentIsTrue
    <3>2. CASE m = new
      BY <3>2, <2>2, <2>3
    <3> QED BY <1>2, <3>1, <3>2
  <2>5. messages' \subseteq [class : {"sent", "received"}, peer : Value \cup {Me},
                             text : Value \cup Pkt]
    BY <1>2, <2>2 DEF PageInv, TypeOK
  <2>6. calls' = [calls EXCEPT ![s] = Idle] /\ Idle \in Call \cup {Idle}
    BY <1>2 DEF ends
  <2>7. CallInv(Idle, routing, catalog, accepted)
        /\ Idle.op \notin RoutingWrites \cup {"add"}
    BY IdleInv
  <2>8. Apart /\ UNCHANGED <<flash, table, graph, content, shown, failed, saved, told>>
    BY <1>2 DEF sendEnds
  <2>9. ToldIsTrue'
    BY <2>6, <2>7, <2>8, ToldKeeps DEF PageInv, Apart, nodeVars
  <2>10. SavedAsAsked' /\ calls[s].op \notin SearchOp
    BY <2>1, <2>8 DEF PageInv, SavedAsAsked, SearchOp
  <2>11. /\ flash' \in [Kind -> Nat]
         /\ table' \in 0 .. routing /\ graph' \in 0 .. routing
         /\ content' \in 0 .. catalog
         /\ saved' \subseteq [name : Value, blob : Value]
         /\ told' \in [{"routing", "catalog"} -> Nat]
    BY <2>8 DEF PageInv, TypeOK
  <2> QED BY <2>4, <2>5, <2>6, <2>7, <2>8, <2>9, <2>10, <2>11, ViewKeeps
<1> QED BY <1>1, <1>2 DEF sendEnds

\* A download is saved under the metahash that was captured.
LEMMA DownloadKeeps ==
  ASSUME PageInv, Loaded, NEW s \in Slot, downloadEnds(s)
  PROVE  PageInv'
<1>1. CASE Reports(s, "download") /\ UNCHANGED saved
  BY <1>1, ReportsKeeps DEF downloadEnds, viewVars, SearchOp
<1>2. CASE /\ Ok(s, "download") /\ printSuccess /\ ends(s)
           /\ saved' = saved \cup {[name |-> calls[s].main, blob |-> calls[s].text]}
  <2>1. calls[s].op = "download" /\ calls[s].st = "ok"
    BY <1>2 DEF Ok, Open
  <2>2. calls[s].main \in Value /\ calls[s].text = calls[s].main
    BY <2>1, CallFacts DEF CallInv, Op
  <2>3. SavedAsAsked' /\ saved' \subseteq [name : Value, blob : Value]
    BY <1>2, <2>2 DEF PageInv, TypeOK, SavedAsAsked
  <2>4. calls' = [calls EXCEPT ![s] = Idle] /\ Idle \in Call \cup {Idle}
    BY <1>2 DEF ends
  <2>5. CallInv(Idle, routing, catalog, accepted)
        /\ Idle.op \notin RoutingWrites \cup {"add"}
    BY IdleInv
  <2>6. Apart /\ UNCHANGED <<table, graph, content, shown, failed, messages, told>>
    BY <1>2 DEF downloadEnds
  <2>7. ToldIsTrue'
    BY <2>4, <2>5, <2>6, ToldKeeps DEF PageInv, Apart, nodeVars
  <2>8. SentIsTrue' /\ calls[s].op \notin SearchOp
    BY <2>1, <2>6 DEF PageInv, SentIsTrue, SearchOp, Apart, nodeVars
  <2>9. /\ flash' \in [Kind -> Nat]
        /\ table' \in 0 .. routing /\ graph' \in 0 .. routing
        /\ content' \in 0 .. catalog
        /\ messages' \subseteq [class : {"sent", "received"}, peer : Value \cup {Me},
                                text : Value \cup Pkt]
        /\ told' \in [{"routing", "catalog"} -> Nat]
    BY <1>2, <2>6 DEF PageInv, TypeOK, printSuccess, prints, Kind
  <2> QED BY <2>3, <2>4, <2>5, <2>6, <2>7, <2>8, <2>9, ViewKeeps
<1> QED BY <1>1, <1>2 DEF downloadEnds

\* A handler that changes a table view or what the page knows of the tables.
LEMMA TableKeeps ==
  ASSUME PageInv, Loaded, NEW s \in Slot, NEW c \in Call \cup {Idle},
         calls' = [calls EXCEPT ![s] = c], Apart,
         CallInv(c, routing, catalog, accepted), calls[s].op \notin SearchOp,
         UNCHANGED <<shown, failed, messages, saved>>, ToldIsTrue',
         printError \/ printSuccess \/ UNCHANGED flash,
         table' \in 0 .. routing, graph' \in 0 .. routing,
         content' \in 0 .. catalog,
         told' \in [{"routing", "catalog"} -> Nat]
  PROVE  PageInv'
<1>1. flash' \in [Kind -> Nat]
  BY DEF PageInv, TypeOK, printError, prints, Kind, printSuccess
<1>2. SentIsTrue' /\ SavedAsAsked'
  BY DEF PageInv, SentIsTrue, SavedAsAsked, Apart, nodeVars
<1>3. /\ messages' \subseteq [class : {"sent", "received"}, peer : Value \cup {Me},
                              text : Value \cup Pkt]
      /\ saved' \subseteq [name : Value, blob : Value]
  BY DEF PageInv, TypeOK
<1> QED BY <1>1, <1>2, <1>3, ViewKeeps

\* A table or a graph that is shown has a version that the node reached, and
\* the graph that is asked for after it is not older.
LEMMA UpdateKeeps ==
  ASSUME PageInv, Loaded, NEW s \in Slot,
         updateTable(s) \/ updateGraph(s) \/ updateContent(s)
  PROVE  PageInv'
<1>0. /\ routing \in Nat /\ catalog \in Nat /\ Empty \in Input
      /\ table \in 0 .. routing /\ graph \in 0 .. routing /\ content \in 0 .. catalog
      /\ told \in [{"routing", "catalog"} -> Nat]
      /\ {"table", "graph", "catalog"} \cap SearchOp = {}
      /\ {"table", "graph", "catalog"} \subseteq Op
  BY PageAssumption DEF PageInv, TypeOK, Input, SearchOp, Op
<1>1. CASE updateTable(s)
  <2>1. calls[s].op = "table" /\ Apart
        /\ UNCHANGED <<graph, content, shown, failed, messages, saved, told>>
    BY <1>1 DEF updateTable, Ok, Failed, Open
  <2>2. /\ calls[s].ver \in Nat /\ calls[s].since \in Nat
        /\ calls[s].since <= routing
        /\ calls[s].st = "ok" => calls[s].ver <= routing
    BY <1>0, <2>1, CallFacts DEF Call, CallInv
  <2>3. ASSUME NEW n \in Nat, n <= routing, table' \in 0 .. routing,
               printError \/ printSuccess,
               continues(s, Request("graph", Empty, Empty, n))
        PROVE  PageInv'
    <3> DEFINE c == Request("graph", Empty, Empty, n)
    <3>1. c \in Call /\ c.op = "graph" /\ calls' = [calls EXCEPT ![s] = c]
      BY <1>0, <2>3, RequestType DEF continues, Request
    <3>2. CallInv(c, routing, catalog, accepted)
      BY <2>3 DEF CallInv, Request
    <3> HIDE DEF c
    <3>3. ToldIsTrue'
      BY <2>1, <3>1, ToldKeeps DEF PageInv, Apart, nodeVars, RoutingWrites
    <3> QED BY <1>0, <2>1, <2>3, <3>1, <3>2, <3>3, TableKeeps
  <2>4. CASE /\ Ok(s, "table") /\ table' = calls[s].ver /\ printSuccess
             /\ continues(s, Request("graph", Empty, Empty, calls[s].ver))
    <3>1. calls[s].ver <= routing /\ table' \in 0 .. routing
      BY <1>0, <2>2, <2>4 DEF Ok
    <3> QED BY <2>2, <2>3, <2>4, <3>1
  <2>5. CASE /\ Failed(s, "table") /\ printError /\ UNCHANGED table
             /\ continues(s, Request("graph", Empty, Empty, calls[s].since))
    BY <1>0, <2>2, <2>3, <2>5
  <2> QED BY <1>1, <2>4, <2>5 DEF updateTable
<1>2. /\ CallInv(Idle, routing, catalog, accepted)
      /\ Idle.op \notin RoutingWrites \cup {"add"} /\ Idle \in Call \cup {Idle}
  BY IdleInv
<1>3. CASE updateGraph(s)
  <2>1. CASE Reports(s, "graph") /\ UNCHANGED graph
    BY <1>0, <1>3, <2>1, ReportsKeeps DEF updateGraph, viewVars
  <2>2. CASE /\ Ok(s, "graph") /\ graph' = calls[s].ver /\ ends(s)
             /\ UNCHANGED flash
    <3>1. graph' \in 0 .. routing /\ calls[s].op = "graph"
      <4>1. calls[s].op = "graph" /\ calls[s].st = "ok"
        BY <2>2 DEF Ok, Open
      <4>2. calls[s].ver \in Nat /\ calls[s].ver <= routing
        BY <1>0, <4>1, CallFacts DEF Call, CallInv
      <4> QED BY <1>0, <2>2, <4>1, <4>2
    <3>2. calls' = [calls EXCEPT ![s] = Idle] /\ Apart
          /\ UNCHANGED <<table, content, shown, failed, messages, saved, told>>
      BY <1>3, <2>2 DEF updateGraph, ends
    <3>3. ToldIsTrue'
      BY <1>2, <3>2, ToldKeeps DEF PageInv, Apart, nodeVars
    <3> QED BY <1>0, <1>2, <2>2, <3>1, <3>2, <3>3, TableKeeps
  <2> QED BY <1>3, <2>1, <2>2 DEF updateGraph
<1>4. CASE updateContent(s)
  <2>1. CASE Reports(s, "catalog") /\ UNCHANGED content
    BY <1>0, <1>4, <2>1, ReportsKeeps DEF updateContent, viewVars
  <2>2. CASE /\ Ok(s, "catalog") /\ content' = calls[s].ver /\ printSuccess
             /\ ends(s)
    <3>1. content' \in 0 .. catalog /\ calls[s].op = "catalog"
      <4>1. calls[s].op = "catalog" /\ calls[s].st = "ok"
        BY <2>2 DEF Ok, Open
      <4>2. calls[s].ver \in Nat /\ calls[s].ver <= catalog
        BY <1>0, <4>1, CallFacts DEF Call, CallInv
      <4> QED BY <1>0, <2>2, <4>1, <4>2
    <3>2. calls' = [calls EXCEPT ![s] = Idle] /\ Apart
          /\ UNCHANGED <<table, graph, shown, failed, messages, saved, told>>
      BY <1>4, <2>2 DEF updateContent, ends
    <3>3. ToldIsTrue'
      BY <1>2, <3>2, ToldKeeps DEF PageInv, Apart, nodeVars
    <3> QED BY <1>0, <1>2, <2>2, <3>1, <3>2, <3>3, TableKeeps
  <2> QED BY <1>4, <2>1, <2>2 DEF updateContent
<1> QED BY <1>1, <1>3, <1>4

\* The page learns of a write that the node has carried out.
LEMMA WriteKeeps ==
  ASSUME PageInv, Loaded, NEW s \in Slot, writeRouting(s) \/ addEnds(s)
  PROVE  PageInv'
<1>0. /\ routing \in Nat /\ catalog \in Nat /\ Empty \in Input
      /\ table \in 0 .. routing /\ graph \in 0 .. routing /\ content \in 0 .. catalog
      /\ told \in [{"routing", "catalog"} -> Nat]
      /\ told["routing"] \in Nat /\ told["catalog"] \in Nat
      /\ (RoutingWrites \cup {"add"}) \cap SearchOp = {}
      /\ RoutingWrites \cup {"add", "table", "catalog"} \subseteq Op
      /\ "add" \notin RoutingWrites /\ "table" \notin RoutingWrites
      /\ "catalog" \notin RoutingWrites
  BY PageAssumption DEF PageInv, TypeOK, Input, SearchOp, Op, RoutingWrites
<1>1. \A ops : Unseen(ops) \in Nat
  BY UnseenType
<1>2. CASE writeRouting(s)
  <2>1. PICK op \in RoutingWrites :
          \/ /\ Ok(s, op) /\ printSuccess
             /\ told' = [told EXCEPT !["routing"] = @ + 1]
             /\ continues(s, tableRequest(told["routing"] + 1))
          \/ Reports(s, op) /\ UNCHANGED told
    BY <1>2 DEF writeRouting, RoutingWrites
  <2>2. op \notin SearchOp /\ op \in Op
    BY <1>0
  <2>3. CASE Reports(s, op) /\ UNCHANGED told
    BY <1>2, <2>2, <2>3, ReportsKeeps DEF writeRouting
  <2>4. CASE /\ Ok(s, op) /\ printSuccess
             /\ told' = [told EXCEPT !["routing"] = @ + 1]
             /\ continues(s, tableRequest(told["routing"] + 1))
    <3> DEFINE c == Request("table", Empty, Empty, told["routing"] + 1 + 1)
    <3>1. c \in Call /\ c.op = "table" /\ c.st = "sent"
          /\ c.since = told["routing"] + 2
      BY <1>0, RequestType DEF Request
    <3>2. calls' = [calls EXCEPT ![s] = c] /\ Apart
          /\ UNCHANGED viewVars
      BY <1>2, <2>4 DEF writeRouting, continues, tableRequest
    <3>3. calls[s].op = op /\ calls[s].st = "ok"
      BY <2>4 DEF Ok, Open
    <3> HIDE DEF c
    <3>4. /\ Unseen(RoutingWrites)' = Unseen(RoutingWrites) - 1
          /\ Unseen({"add"})' = Unseen({"add"})
      <4>1. /\ Made(calls[s], RoutingWrites) /\ ~Made(calls[s], {"add"})
            /\ ~Made(c, RoutingWrites) /\ ~Made(c, {"add"})
        BY <1>0, <3>1, <3>3 DEF Made
      <4>2. TypeOK /\ c \in Call \cup {Idle}
        BY <3>1 DEF PageInv
      <4> QED BY <3>2, <4>1, <4>2, OneWrite
    <3>5. /\ told'["routing"] = told["routing"] + 1
          /\ told'["catalog"] = told["catalog"]
          /\ told' \in [{"routing", "catalog"} -> Nat]
      BY <1>0, <2>4
    <3>6. routing' = routing /\ catalog' = catalog
      BY <3>2 DEF Apart, nodeVars
    <3>7. ToldIsTrue'
      BY <1>0, <1>1, <3>4, <3>5, <3>6 DEF PageInv, ToldIsTrue
    <3>8. told["routing"] + 2 <= routing
      <4>1. Unseen(RoutingWrites) >= 1
        <5>1. Unseen(RoutingWrites)' \in Nat
          BY <3>1, <3>2, OneWrite DEF PageInv
        <5> QED BY <1>1, <3>4, <5>1
      <4> QED BY <1>0, <1>1, <4>1 DEF PageInv, ToldIsTrue
    <3>9. CallInv(c, routing, catalog, accepted)
      BY <3>1, <3>8 DEF CallInv
    <3>10. calls[s].op \notin SearchOp
      BY <2>2, <3>3
    <3>11. UNCHANGED <<shown, failed, messages, saved>> /\ table' = table
           /\ graph' = graph /\ content' = content
      BY <3>2 DEF viewVars
    <3> QED BY <1>0, <2>4, <3>1, <3>2, <3>5, <3>7, <3>9, <3>10, <3>11, TableKeeps
  <2> QED BY <2>1, <2>3, <2>4
<1>3. CASE addEnds(s)
  <2>3. CASE Reports(s, "add") /\ UNCHANGED told
    BY <1>0, <1>3, <2>3, ReportsKeeps DEF addEnds
  <2>4. CASE /\ Ok(s, "add") /\ UNCHANGED flash
             /\ told' = [told EXCEPT !["catalog"] = @ + 1]
             /\ continues(s, catalogRequest(told["catalog"] + 1))
    <3> DEFINE c == Request("catalog", Empty, Empty, told["catalog"] + 1 + 1)
    <3>1. c \in Call /\ c.op = "catalog" /\ c.st = "sent"
          /\ c.since = told["catalog"] + 2
      BY <1>0, RequestType DEF Request
    <3>2. calls' = [calls EXCEPT ![s] = c] /\ Apart
          /\ UNCHANGED viewVars
      BY <1>3, <2>4 DEF addEnds, continues, catalogRequest
    <3>3. calls[s].op = "add" /\ calls[s].st = "ok"
      BY <2>4 DEF Ok, Open
    <3> HIDE DEF c
    <3>4. /\ Unseen(RoutingWrites)' = Unseen(RoutingWrites)
          /\ Unseen({"add"})' = Unseen({"add"}) - 1
      <4>1. /\ ~Made(calls[s], RoutingWrites) /\ Made(calls[s], {"add"})
            /\ ~Made(c, RoutingWrites) /\ ~Made(c, {"add"})
        BY <1>0, <3>1, <3>3 DEF Made
      <4>2. TypeOK /\ c \in Call \cup {Idle}
        BY <3>1 DEF PageInv
      <4> QED BY <3>2, <4>1, <4>2, OneWrite
    <3>5. /\ told'["routing"] = told["routing"]
          /\ told'["catalog"] = told["catalog"] + 1
          /\ told' \in [{"routing", "catalog"} -> Nat]
      BY <1>0, <2>4
    <3>6. routing' = routing /\ catalog' = catalog
      BY <3>2 DEF Apart, nodeVars
    <3>7. ToldIsTrue'
      BY <1>0, <1>1, <3>4, <3>5, <3>6 DEF PageInv, ToldIsTrue
    <3>8. told["catalog"] + 2 <= catalog
      <4>1. Unseen({"add"}) >= 1
        <5>1. Unseen({"add"})' \in Nat
          BY <3>1, <3>2, OneWrite DEF PageInv
        <5> QED BY <1>1, <3>4, <5>1
      <4> QED BY <1>0, <1>1, <4>1 DEF PageInv, ToldIsTrue
    <3>9. CallInv(c, routing, catalog, accepted)
      BY <3>1, <3>8 DEF CallInv
    <3>10. calls[s].op \notin SearchOp
      BY <1>0, <3>3
    <3>11. UNCHANGED <<shown, failed, messages, saved>> /\ table' = table
           /\ graph' = graph /\ content' = content
      BY <3>2 DEF viewVars
    <3> QED BY <1>0, <2>4, <3>1, <3>2, <3>5, <3>7, <3>9, <3>10, <3>11, TableKeeps
  <2> QED BY <1>3, <2>3, <2>4 DEF addEnds
<1> QED BY <1>2, <1>3

\* Nothing that follows an await breaks the invariant.
LEMMA AnswerKeeps ==
  ASSUME PageInv, Loaded, NEW s \in Slot, Answer(s)
  PROVE  PageInv'
BY TextAnswers, QuietAnswers, SendKeeps, DownloadKeeps, UpdateKeeps, WriteKeeps
   DEF Answer

-----------------------------------------------------------------------------
(* Steps of the node *)

\* The call that Answered leaves.
AnswerOf(c, st, ver, text) ==
  [op |-> c.op, main |-> c.main, other |-> c.other, since |-> c.since,
   st |-> st, ver |-> ver, text |-> text]

\* The node answers a call, whether or not the page has loaded.
LEMMA NodeKeeps ==
  ASSUME PageInv, NEW s \in Slot, NEW c \in Call, calls[s] # Idle,
         calls' = [calls EXCEPT ![s] = c], c.op = calls[s].op,
         UNCHANGED <<work, connected, initialized, flash, viewVars, source, told>>,
         routing' \in 1 .. MaxVersion, catalog' \in 1 .. MaxVersion,
         routing <= routing', catalog <= catalog', accepted \subseteq accepted',
         accepted' \subseteq [peer : Value, text : Value],
         CallInv(c, routing', catalog', accepted'), ToldIsTrue'
  PROVE  PageInv'
<1>0. c \in Call \cup {Idle} /\ TypeOK
  BY DEF PageInv
<1>1. calls' \in [Slot -> Call \cup {Idle}] /\ calls'[s] = c
      /\ \A t \in Slot : t # s => calls'[t] = calls[t]
  BY <1>0, OneSlot
<1>2. TypeOK'
  <2>1. routing \in Nat /\ catalog \in Nat /\ MaxVersion \in Nat
    BY PageAssumption DEF PageInv, TypeOK
  <2>2. table' \in 0 .. routing' /\ graph' \in 0 .. routing'
        /\ content' \in 0 .. catalog'
    BY <1>0, <2>1 DEF TypeOK, viewVars
  <2> QED BY <1>0, <1>1, <2>2 DEF TypeOK, viewVars
<1>3. CallsInv'
  <2>1. routing' \in Nat /\ catalog' \in Nat
    BY PageAssumption
  <2> QED BY <1>0, <2>1, SlotInv DEF PageInv
<1>4. SocketShown' /\ SavedAsAsked' /\ AllInitialize'
  BY DEF PageInv, SocketShown, SavedAsAsked, AllInitialize, viewVars
<1>6. SentIsTrue'
  BY DEF PageInv, SentIsTrue, viewVars
<1>7. PlaceholderEnds'
  BY <1>0, PlaceholderKeeps DEF PageInv, viewVars
<1> QED BY <1>2, <1>3, <1>4, <1>6, <1>7 DEF PageInv

\* An answer that changes nothing at the node.
LEMMA ReadKeeps ==
  ASSUME PageInv, NEW s \in Slot, calls[s] # Idle,
         NEW st \in {"ok", "bad", "lost"}, NEW ver \in Nat, NEW text \in Text,
         Answered(s, st, ver, text),
         st = "ok" => calls[s].op \notin RoutingWrites \cup {"add"},
         CallInv(AnswerOf(calls[s], st, ver, text), routing, catalog, accepted),
         UNCHANGED <<work, connected, initialized, flash, viewVars, source, nodeVars,
                     told>>
  PROVE  PageInv'
<1> DEFINE c == AnswerOf(calls[s], st, ver, text)
<1>1. calls[s] \in Call
  BY DEF PageInv, TypeOK
<1>2. c \in Call /\ c.op = calls[s].op /\ c.st = st
  <2>1. c \in Call
    BY <1>1 DEF AnswerOf, Call
  <2>2. c.op = calls[s].op /\ c.st = st
    BY DEF AnswerOf
  <2> QED BY <2>1, <2>2
<1>3. calls' = [calls EXCEPT ![s] = c]
  BY DEF Answered, AnswerOf
<1> HIDE DEF c
<1>4. routing' = routing /\ catalog' = catalog /\ accepted' = accepted
  BY DEF nodeVars
<1>5. /\ routing \in 1 .. MaxVersion /\ catalog \in 1 .. MaxVersion
      /\ accepted \subseteq [peer : Value, text : Value]
      /\ routing \in Nat /\ catalog \in Nat
  BY PageAssumption DEF PageInv, TypeOK
<1>6. ToldIsTrue'
  BY <1>2, <1>3, <1>4, ToldKeeps DEF PageInv
<1>7. CallInv(c, routing', catalog', accepted')
  BY <1>4 DEF c
<1>8. routing <= routing' /\ catalog <= catalog'
  BY <1>4, <1>5
<1> QED BY <1>2, <1>3, <1>4, <1>5, <1>6, <1>7, <1>8, NodeKeeps

\* The handlers that only read, and the refusals of all of them.
LEMMA HandlesFacts ==
  ASSUME PageInv, NEW s \in Slot, NEW ops \in SUBSET Op, Handles(s, ops)
  PROVE  /\ calls[s] \in Call /\ calls[s] # Idle /\ calls[s].op \in ops
         /\ calls[s].st = "sent" /\ calls[s].main \in Input
         /\ calls[s].since \in Nat
         /\ CallInv(calls[s], routing, catalog, accepted)
         /\ UNCHANGED <<work, connected, initialized, flash, viewVars, source, told>>
<1>1. /\ calls[s].op \in Op /\ calls[s].op \in ops /\ calls[s].st = "sent"
      /\ UNCHANGED <<work, connected, initialized, flash, viewVars, source, told>>
  BY DEF Handles, viewVars
<1>2. calls[s] \in Call /\ calls[s] # Idle
      /\ CallInv(calls[s], routing, catalog, accepted)
  BY <1>1, CallFacts
<1> QED BY <1>1, <1>2 DEF Call

LEMMA RefusedKeeps ==
  ASSUME PageInv, NEW s \in Slot, NEW st \in {"bad", "lost"},
         calls[s].op \in Op \ {"reading"}, UNCHANGED nodeVars,
         Answered(s, st, 0, IF st = "bad" THEN Garbage ELSE Empty),
         UNCHANGED <<work, connected, initialized, flash, viewVars, source, told>>
  PROVE  PageInv'
<1> DEFINE text == IF st = "bad" THEN Garbage ELSE Empty
<1>1. calls[s] \in Call /\ calls[s] # Idle
      /\ CallInv(calls[s], routing, catalog, accepted)
  BY CallFacts
<1>2. text \in Text /\ (st = "bad" => text = Garbage) /\ 0 \in Nat
      /\ st \in {"ok", "bad", "lost"} /\ st # "ok"
  BY DEF Text, Input
<1>3. Answered(s, st, 0, text)
  OBVIOUS
<1> HIDE DEF text
<1>4. LET d == AnswerOf(calls[s], st, 0, text)
      IN  /\ d.op = calls[s].op /\ d.main = calls[s].main
          /\ d.other = calls[s].other
          /\ d.since = calls[s].since /\ d.st = st /\ d.text = text
  BY DEF AnswerOf
<1>5. CallInv(AnswerOf(calls[s], st, 0, text), routing, catalog, accepted)
  BY <1>1, <1>2, <1>4 DEF CallInv
<1> QED BY <1>1, <1>2, <1>3, <1>5, ReadKeeps

LEMMA ErrorKeeps ==
  ASSUME PageInv, NEW s \in Slot, NEW ops \in SUBSET (Op \ {"reading"}),
         Handles(s, ops), httpError(s)
  PROVE  PageInv'
<1>1. /\ calls[s].op \in Op \ {"reading"}
      /\ UNCHANGED <<work, connected, initialized, flash, viewVars, source, told>>
  BY HandlesFacts
<1>2. Answered(s, "bad", 0, IF "bad" = "bad" THEN Garbage ELSE Empty)
      /\ UNCHANGED nodeVars
  BY DEF httpError
<1> QED BY <1>1, <1>2, RefusedKeeps

LEMMA LosesKeeps ==
  ASSUME PageInv, NEW s \in Slot, loses(s)
  PROVE  PageInv'
<1>1. calls[s].op \in Op \ {"reading"}
  <2>1. calls[s].op # "reading" /\ calls[s].st \in {"sent", "ok"}
        /\ \E sec \in work : calls[s].op \in SectionOps[sec]
    BY DEF loses, WorkOps
  <2>2. work \subseteq Section
    BY PageAssumption DEF PageInv, TypeOK
  <2>3. \A sec \in Section : SectionOps[sec] \subseteq Op
    BY DEF Section, SectionOps, Op, SearchOp
  <2> QED BY <2>1, <2>2, <2>3
<1>2. Answered(s, "lost", 0, IF "lost" = "bad" THEN Garbage ELSE Empty)
  BY DEF loses
<1>3. /\ UNCHANGED nodeVars
      /\ UNCHANGED <<work, connected, initialized, flash, viewVars, source, told>>
  BY DEF loses, viewVars
<1> QED BY <1>1, <1>2, <1>3, RefusedKeeps

\* A handler replies, and what it replies is what the page relies on.
LEMMA RepliesKeeps ==
  ASSUME PageInv, NEW s \in Slot,
         NEW ops \in SUBSET (Op \ (RoutingWrites \cup {"add", "unicast", "reading"})),
         Handles(s, ops), NEW ver \in Nat, NEW text \in Text,
         Replies(s, ver, text),
         calls[s].op \in {"table", "graph"} => ver = routing,
         calls[s].op = "catalog" => ver = catalog,
         calls[s].op = "socket" => text = Me,
         calls[s].op = "download" => text = calls[s].main
  PROVE  PageInv'
<1>1. /\ calls[s] \in Call /\ calls[s] # Idle /\ calls[s].op \in ops
      /\ calls[s].since \in Nat /\ CallInv(calls[s], routing, catalog, accepted)
      /\ UNCHANGED <<work, connected, initialized, flash, viewVars, source, told>>
  BY HandlesFacts
<1>2. LET d == AnswerOf(calls[s], "ok", ver, text)
      IN  /\ d.op = calls[s].op /\ d.main = calls[s].main
          /\ d.since = calls[s].since /\ d.st = "ok" /\ d.ver = ver
          /\ d.text = text
  BY DEF AnswerOf
<1>3. routing \in Nat /\ catalog \in Nat
  BY PageAssumption DEF PageInv, TypeOK
<1>4. CallInv(AnswerOf(calls[s], "ok", ver, text), routing, catalog, accepted)
  BY <1>1, <1>2, <1>3 DEF CallInv
<1>5. Answered(s, "ok", ver, text) /\ UNCHANGED nodeVars
  BY DEF Replies
<1>6. calls[s].op \notin RoutingWrites \cup {"add"}
  BY <1>1
<1> QED BY <1>1, <1>4, <1>5, <1>6, ReadKeeps

LEMMA ServeReadKeeps ==
  ASSUME PageInv, NEW s \in Slot,
         \/ addressGet(s) \/ routingGet(s) \/ broadcastPost(s) \/ catalogGet(s)
         \/ uploadPost(s) \/ downloadGet(s) \/ indexPost(s) \/ searchPost(s)
         \/ namingPost(s) \/ namingGet(s)
  PROVE  PageInv'
<1> DEFINE Reads == Op \ (RoutingWrites \cup {"add", "unicast", "reading"})
<1>0. /\ 0 \in Nat /\ Empty \in Text /\ Me \in Text /\ Input \subseteq Text
      /\ routing \in Nat /\ catalog \in Nat
      /\ {"socket", "table", "graph", "sendChat", "sendPrivate", "catalog",
          "upload", "download", "searchAll", "searchFirst", "tag", "resolve"}
            \subseteq Reads
      /\ Reads \subseteq Op \ {"reading"}
  BY PageAssumption DEF Text, Input, PageInv, TypeOK, Op, RoutingWrites
<1> HIDE DEF Reads
<1>1. ASSUME NEW ops \in SUBSET Reads, Handles(s, ops)
      PROVE  calls[s].op \in ops /\ calls[s].main \in Text
  BY <1>0, <1>1, HandlesFacts
<1>2. ASSUME NEW ops \in SUBSET Reads, Handles(s, ops), httpError(s)
      PROVE  PageInv'
  BY <1>0, <1>2, ErrorKeeps
<1>3. ASSUME NEW ops \in SUBSET Reads, Handles(s, ops),
             NEW ver \in Nat, NEW text \in Text, Replies(s, ver, text),
             calls[s].op \in {"table", "graph"} => ver = routing,
             calls[s].op = "catalog" => ver = catalog,
             calls[s].op = "socket" => text = Me,
             calls[s].op = "download" => text = calls[s].main
      PROVE  PageInv'
  BY <1>3, RepliesKeeps DEF Reads
<1>4. CASE addressGet(s)
  <2>1. {"socket"} \in SUBSET Reads /\ Handles(s, {"socket"}) /\ Replies(s, 0, Me)
    BY <1>0, <1>4 DEF addressGet
  <2>2. calls[s].op = "socket"
    BY <1>1, <2>1
  <2> QED BY <1>0, <1>3, <2>1, <2>2
<1>5. CASE routingGet(s)
  <2>1. {"table", "graph"} \in SUBSET Reads /\ Handles(s, {"table", "graph"})
        /\ (Replies(s, routing, Empty) \/ httpError(s))
    BY <1>0, <1>5 DEF routingGet
  <2>2. calls[s].op \in {"table", "graph"}
    BY <1>1, <2>1
  <2> QED BY <1>0, <1>2, <1>3, <2>1, <2>2
<1>6. CASE catalogGet(s)
  <2>1. {"catalog"} \in SUBSET Reads /\ Handles(s, {"catalog"})
        /\ (Replies(s, catalog, Empty) \/ httpError(s))
    BY <1>0, <1>6 DEF catalogGet
  <2>2. calls[s].op = "catalog"
    BY <1>1, <2>1
  <2> QED BY <1>0, <1>2, <1>3, <2>1, <2>2
<1>7. CASE downloadGet(s)
  <2>1. {"download"} \in SUBSET Reads /\ Handles(s, {"download"})
        /\ (Replies(s, 0, calls[s].main) \/ httpError(s))
    BY <1>0, <1>7 DEF downloadGet
  <2>2. calls[s].op = "download" /\ calls[s].main \in Text
    BY <1>1, <2>1
  <2> QED BY <1>0, <1>2, <1>3, <2>1, <2>2
<1>8. ASSUME NEW ops \in SUBSET {"sendChat", "sendPrivate", "upload", "searchAll",
                                 "searchFirst", "tag", "resolve"},
             Handles(s, ops),
             httpError(s) \/ \E t \in {Empty, calls[s].main} : Replies(s, 0, t)
      PROVE  PageInv'
  <2>1. ops \in SUBSET Reads
    BY <1>0
  <2>2. calls[s].op \notin {"table", "graph", "catalog", "socket", "download"}
        /\ calls[s].main \in Text
    BY <1>1, <1>8, <2>1
  <2>3. ASSUME NEW t \in {Empty, calls[s].main}, Replies(s, 0, t)
        PROVE  PageInv'
    BY <1>0, <1>3, <1>8, <2>1, <2>2, <2>3
  <2> QED BY <1>2, <1>8, <2>1, <2>3
<1>9. CASE broadcastPost(s)
  BY <1>8, <1>9 DEF broadcastPost
<1>10. CASE uploadPost(s)
  BY <1>8, <1>10 DEF uploadPost
<1>11. CASE indexPost(s) \/ searchPost(s)
  BY <1>8, <1>11 DEF indexPost, searchPost, Finds
<1>12. CASE namingPost(s) \/ namingGet(s)
  BY <1>8, <1>12 DEF namingPost, namingGet, Finds
<1> QED BY <1>4, <1>5, <1>6, <1>7, <1>9, <1>10, <1>11, <1>12

\* A write is carried out: the table has a new version of which the page does
\* not know, or the message is among those that the node took.
LEMMA ServeWriteKeeps ==
  ASSUME PageInv, NEW s \in Slot,
         peerPost(s) \/ routingPost(s) \/ catalogPost(s) \/ unicastPost(s),
         ~httpError(s)
  PROVE  PageInv'
<1> DEFINE c == AnswerOf(calls[s], "ok", 0, Empty)
<1>0. /\ calls[s] # Idle /\ calls[s].st = "sent" /\ calls[s] \in Call
      /\ CallInv(calls[s], routing, catalog, accepted)
      /\ UNCHANGED <<work, connected, initialized, flash, viewVars, source, told>>
  <2>1. PICK ops \in SUBSET {"addPeer", "setEntry", "add", "unicast"} :
          Handles(s, ops)
    BY DEF peerPost, routingPost, catalogPost, unicastPost
  <2>2. ops \in SUBSET Op
    BY <2>1 DEF Op
  <2> QED BY <2>1, <2>2, HandlesFacts
<1>1. calls[s] \in Call /\ CallInv(calls[s], routing, catalog, accepted)
  BY <1>0
<1>2. calls' = [calls EXCEPT ![s] = c]
  BY DEF peerPost, routingPost, catalogPost, unicastPost, changesRouting, Answered,
     AnswerOf
<1>3. c \in Call
  BY <1>1 DEF AnswerOf, Call, Text, Input
<1>4. /\ c.op = calls[s].op /\ c.main = calls[s].main /\ c.other = calls[s].other
      /\ c.since = calls[s].since /\ c.st = "ok"
  BY DEF AnswerOf
<1> HIDE DEF c
<1>5. /\ routing \in 1 .. MaxVersion /\ catalog \in 1 .. MaxVersion
      /\ accepted \subseteq [peer : Value, text : Value]
      /\ routing \in Nat /\ catalog \in Nat /\ MaxVersion \in Nat
      /\ told["routing"] \in Nat /\ told["catalog"] \in Nat
  BY PageAssumption DEF PageInv, TypeOK
<1>6. ASSUME NEW ops
      PROVE  /\ Made(c, ops) => Unseen(ops)' = Unseen(ops) + 1
             /\ ~Made(c, ops) => Unseen(ops)' = Unseen(ops)
             /\ Unseen(ops) \in Nat
  <2>1. TypeOK /\ c \in Call \cup {Idle}
    BY <1>3 DEF PageInv
  <2>2. ~Made(calls[s], ops)
    BY <1>0 DEF Made
  <2> QED BY <1>2, <2>1, <2>2, OneWrite
<1>7. CASE /\ calls[s].op \in {"addPeer", "setEntry"}
           /\ routing < MaxVersion
           /\ routing' = routing + 1
           /\ UNCHANGED <<catalog, accepted>>
  <2>1. Made(c, RoutingWrites) /\ ~Made(c, {"add"})
    BY <1>4, <1>7 DEF Made, RoutingWrites
  <2>2. ToldIsTrue'
    <3>1. Unseen(RoutingWrites)' = Unseen(RoutingWrites) + 1
          /\ Unseen({"add"})' = Unseen({"add"})
      BY <1>6, <2>1
    <3> QED BY <1>0, <1>5, <1>6, <1>7, <3>1 DEF PageInv, ToldIsTrue
  <2>3. CallInv(c, routing', catalog', accepted')
    BY <1>4, <1>7 DEF CallInv
  <2>4. routing' \in 1 .. MaxVersion /\ routing <= routing' /\ catalog <= catalog'
    BY <1>5, <1>7
  <2> QED BY <1>0, <1>2, <1>3, <1>4, <1>5, <1>7, <2>2, <2>3, <2>4, NodeKeeps
<1>8. CASE /\ calls[s].op = "add"
           /\ catalog < MaxVersion
           /\ catalog' = catalog + 1
           /\ UNCHANGED <<routing, accepted>>
  <2>1. ~Made(c, RoutingWrites) /\ Made(c, {"add"})
    BY <1>4, <1>8 DEF Made, RoutingWrites
  <2>2. ToldIsTrue'
    <3>1. Unseen(RoutingWrites)' = Unseen(RoutingWrites)
          /\ Unseen({"add"})' = Unseen({"add"}) + 1
      BY <1>6, <2>1
    <3> QED BY <1>0, <1>5, <1>6, <1>8, <3>1 DEF PageInv, ToldIsTrue
  <2>3. CallInv(c, routing', catalog', accepted')
    BY <1>4, <1>8 DEF CallInv
  <2>4. catalog' \in 1 .. MaxVersion /\ routing <= routing' /\ catalog <= catalog'
    BY <1>5, <1>8
  <2> QED BY <1>0, <1>2, <1>3, <1>4, <1>5, <1>8, <2>2, <2>3, <2>4, NodeKeeps
<1>9. CASE /\ calls[s].op = "unicast"
           /\ accepted' = accepted \cup
                {[peer |-> calls[s].other, text |-> calls[s].main]}
           /\ UNCHANGED <<routing, catalog>>
  <2>1. c.op \notin RoutingWrites \cup {"add"}
    BY <1>4, <1>9 DEF RoutingWrites
  <2>2. ToldIsTrue'
    <3>1. c \in Call \cup {Idle}
      BY <1>3
    <3> QED BY <1>0, <1>2, <1>9, <2>1, <3>1, ToldKeeps DEF PageInv
  <2>3. calls[s].main \in Value /\ calls[s].other \in Value
    BY <1>1, <1>9 DEF CallInv
  <2>4. CallInv(c, routing', catalog', accepted')
    BY <1>4, <1>9, <2>3 DEF CallInv
  <2>5. routing <= routing' /\ catalog <= catalog'
    BY <1>5, <1>9
  <2>6. accepted \subseteq accepted'
        /\ accepted' \subseteq [peer : Value, text : Value]
    BY <1>5, <1>9, <2>3
  <2> QED BY <1>0, <1>2, <1>3, <1>4, <1>5, <1>9, <2>2, <2>4, <2>5, <2>6, NodeKeeps
<1>10. /\ peerPost(s) \/ routingPost(s) => calls[s].op \in {"addPeer", "setEntry"}
       /\ catalogPost(s) => calls[s].op = "add"
       /\ unicastPost(s) => calls[s].op = "unicast"
  BY DEF peerPost, routingPost, catalogPost, unicastPost, Handles
<1> QED BY <1>7, <1>8, <1>9, <1>10
        DEF peerPost, routingPost, catalogPost, unicastPost, changesRouting

LEMMA ServeKeeps ==
  ASSUME PageInv, NEW s \in Slot, Serve(s) \/ otherServer(s) \/ loses(s)
  PROVE  PageInv'
<1>1. CASE peerPost(s) \/ routingPost(s) \/ catalogPost(s) \/ unicastPost(s)
  <2>1. CASE httpError(s)
    <3>1. PICK ops \in SUBSET {"addPeer", "setEntry", "add", "unicast"} :
            Handles(s, ops)
      BY <1>1 DEF peerPost, routingPost, catalogPost, unicastPost
    <3>2. ops \in SUBSET (Op \ {"reading"})
      BY <3>1 DEF Op
    <3> QED BY <2>1, <3>1, <3>2, ErrorKeeps
  <2>2. CASE ~httpError(s)
    BY <1>1, <2>2, ServeWriteKeeps
  <2> QED BY <2>1, <2>2
<1>2. CASE otherServer(s)
  <2>1. {"socket"} \in SUBSET (Op \ {"reading"})
    BY DEF Op
  <2> QED BY <1>2, <2>1, ErrorKeeps DEF otherServer
<1>3. CASE loses(s)
  BY <1>3, LosesKeeps
<1>4. CASE \/ addressGet(s) \/ routingGet(s) \/ broadcastPost(s) \/ catalogGet(s)
           \/ uploadPost(s) \/ downloadGet(s) \/ indexPost(s) \/ searchPost(s)
           \/ namingPost(s) \/ namingGet(s)
  BY <1>4, ServeReadKeeps
<1> QED BY <1>1, <1>2, <1>3, <1>4 DEF Serve

\* Rumors change a table: what the calls carry and the page shows stays true.
LEMMA NodeChangesKeeps ==
  ASSUME PageInv, handleRumor \/ handleSearchReplyMessage
  PROVE  PageInv'
<1>0. /\ UNCHANGED pageVars /\ UNCHANGED <<accepted, told>>
      /\ routing' \in 1 .. MaxVersion /\ catalog' \in 1 .. MaxVersion
      /\ routing \in Nat /\ catalog \in Nat /\ routing' \in Nat /\ catalog' \in Nat
      /\ routing <= routing' /\ catalog <= catalog'
      /\ told["routing"] \in Nat /\ told["catalog"] \in Nat
  BY PageAssumption DEF handleRumor, handleSearchReplyMessage, PageInv, TypeOK
<1>1. TypeOK'
  <2>1. table' \in 0 .. routing' /\ graph' \in 0 .. routing'
        /\ content' \in 0 .. catalog'
    BY <1>0 DEF PageInv, TypeOK, pageVars
  <2> QED BY <1>0, <2>1 DEF PageInv, TypeOK, pageVars
<1>2. CallsInv'
  <2>1. ASSUME NEW t \in Slot
        PROVE  CallInv(calls'[t], routing', catalog', accepted')
    <3>1. calls'[t] = calls[t] /\ calls[t] \in Call \cup {Idle}
          /\ accepted \subseteq accepted'
      BY <1>0 DEF pageVars, PageInv, TypeOK
    <3>2. CallInv(calls[t], routing, catalog, accepted)
      BY DEF PageInv, CallsInv
    <3>3. CallInv(calls[t], routing', catalog', accepted')
      BY <1>0, <3>1, <3>2, CallInvMono
    <3> QED BY <3>1, <3>3
  <2> QED BY <2>1 DEF CallsInv, CallInv
<1>3. SocketShown' /\ SavedAsAsked' /\ AllInitialize'
  BY <1>0 DEF PageInv, SocketShown, SavedAsAsked, AllInitialize, pageVars
<1>4. ToldIsTrue'
  <2>1. \A ops : Unseen(ops)' = Unseen(ops) /\ Unseen(ops) \in Nat
    BY <1>0, UnseenType DEF Unseen, Made, pageVars
  <2> QED BY <1>0, <2>1 DEF PageInv, ToldIsTrue
<1>5. SentIsTrue'
  BY <1>0 DEF PageInv, SentIsTrue, pageVars
<1>6. PlaceholderEnds'
  BY <1>0 DEF PageInv, PlaceholderEnds, Open, pageVars
<1> QED BY <1>1, <1>2, <1>3, <1>4, <1>5, <1>6 DEF PageInv

\* A chat message of a packet is shown as sent only when the page knows the
\* socket address and the packet comes from there.
LEMMA PacketKeeps ==
  ASSUME PageInv, NEW p \in Pkt, packetMessage(p)
  PROVE  PageInv'
<1> DEFINE new == {[class |-> Class(p), peer |-> Source[p], text |-> c] :
                     c \in Chat \cap {p}}
<1>0. /\ messages' = messages \cup new
      /\ UNCHANGED <<work, connected, initialized, calls, flash, table, graph,
                     content, shown, failed, saved, source, nodeVars, told>>
  BY DEF packetMessage
<1>1. Source[p] \in Value \cup {Me}
  BY PageAssumption
<1>2. Class(p) \in {"sent", "received"} /\ (Class(p) = "sent" => Source[p] = Me)
  BY <1>1, PageAssumption DEF Class, PageInv, SocketShown, Empty, Garbage
<1>3. \A m \in new : /\ m.class = Class(p) /\ m.text = p
                     /\ m \in [class : {"sent", "received"}, peer : Value \cup {Me},
                               text : Value \cup Pkt]
  BY <1>1, <1>2
<1> HIDE DEF new
<1>4. TypeOK'
  BY <1>0, <1>3 DEF PageInv, TypeOK, nodeVars
<1>5. CallsInv'
  BY <1>0 DEF PageInv, CallsInv, CallInv, nodeVars
<1>6. SocketShown' /\ AllInitialize' /\ SavedAsAsked'
  BY <1>0 DEF PageInv, SocketShown, AllInitialize, SavedAsAsked
<1>7. ToldIsTrue'
  BY <1>0 DEF PageInv, ToldIsTrue, Unseen, Made, nodeVars
<1>8. SentIsTrue'
  <2> SUFFICES ASSUME NEW m \in messages', m.class = "sent"
               PROVE  IF m.text \in Pkt THEN Source[m.text] = Me
                      ELSE [peer |-> m.peer, text |-> m.text] \in accepted
    BY <1>0 DEF SentIsTrue, nodeVars
  <2>1. CASE m \in messages
    BY <2>1 DEF PageInv, SentIsTrue
  <2>2. CASE m \in new
    BY <2>2, <1>2, <1>3
  <2> QED BY <1>0, <2>1, <2>2
<1>9. PlaceholderEnds'
  BY <1>0 DEF PageInv, PlaceholderEnds, Open
<1> QED BY <1>4, <1>5, <1>6, <1>7, <1>8, <1>9 DEF PageInv

\* The steps that only a flash message or the EventSource shows.
LEMMA FlashSteps ==
  ASSUME PageInv,
         \/ \E kind \in Kind : removeFlash(kind)
         \/ packetError \/ reconnect
  PROVE  PageInv'
<1>1. flash \in [Kind -> Nat] /\ source \in {"closed", "open", "broken"}
  BY DEF PageInv, TypeOK
<1>2. /\ flash' \in [Kind -> Nat]
      /\ source' \in {"closed", "open", "broken"}
      /\ UNCHANGED <<work, connected, initialized, calls, viewVars, nodeVars, told>>
  BY <1>1 DEF removeFlash, packetError, reconnect, printError, prints, Kind, viewVars
<1> QED BY <1>2, FlashKeeps

-----------------------------------------------------------------------------
(* Loading *)

\* Where the controllers that use peerInfo, or that ask the node, stand.
LEMMA DomOrderFacts ==
  /\ Len(DomOrder) = 11 /\ DOMAIN DomOrder = 1 .. 11 /\ DomOrder[2] = "peerInfo"
  /\ \A i \in 1 .. 11 :
       /\ DomOrder[i] = "peerInfo" => i = 2
       /\ DomOrder[i] = "routing" => i = 6
       /\ DomOrder[i] = "catalog" => i = 7
       /\ DomOrder[i] = "packets" => i = 11
<1>1. Len(DomOrder) = 11 /\ DOMAIN DomOrder = 1 .. 11 /\ DomOrder[2] = "peerInfo"
  BY DEF DomOrder
<1>2. ASSUME NEW i \in 1 .. 11
      PROVE  /\ DomOrder[i] = "peerInfo" => i = 2
             /\ DomOrder[i] = "routing" => i = 6
             /\ DomOrder[i] = "catalog" => i = 7
             /\ DomOrder[i] = "packets" => i = 11
  BY DEF DomOrder
<1> QED BY <1>1, <1>2

\* peerInfo is connected before the controllers that use it.
LEMMA PeerInfoIsThere ==
  ASSUME TypeOK, NEW c \in {"routing", "catalog", "packets"}, Connects(c)
  PROVE  ~NoPeerInfo
<1>1. connected \in 0 .. 10 /\ connected + 1 \in 1 .. 11
  BY DomOrderFacts DEF TypeOK, Loaded, Connects
<1>2. DomOrder[connected + 1] = c
  BY DEF Connects
<1>3. connected >= 2
  BY <1>1, <1>2, DomOrderFacts
<1> QED BY <1>1, <1>3, DomOrderFacts DEF Connected, NoPeerInfo

\* What connect does when no controller misses peerInfo.
LEMMA ConnectFacts ==
  ASSUME PageInv, connect
  PROVE  /\ ~Loaded /\ connected' = connected + 1
         /\ initialized' = initialized \cup {DomOrder[connected + 1]}
         /\ UNCHANGED <<work, flash, table, graph, content, shown, failed, messages,
                        saved, nodeVars, told>>
         /\ \/ UNCHANGED calls /\ source' \in {source, "open"}
            \/ /\ UNCHANGED source
               /\ \E c \in {Request("socket", Empty, Empty, 0),
                           tableRequest(told["routing"]),
                           catalogRequest(told["catalog"])} : fetch(c)
<1>0. TypeOK
  BY DEF PageInv
<1>1. PICK c : Connects(c)
  BY DEF connect, initPeerInfo, initRouting, initCatalog, initPackets, initOther
<1>2. CASE initPeerInfo
  BY <1>2 DEF initPeerInfo, Connects, Initializes
<1>3. CASE initRouting
  <2>1. ~NoPeerInfo
    BY <1>0, <1>3, PeerInfoIsThere DEF initRouting
  <2> QED BY <1>3, <2>1 DEF initRouting, Connects, Initializes
<1>4. CASE initCatalog
  <2>1. ~NoPeerInfo
    BY <1>0, <1>4, PeerInfoIsThere DEF initCatalog
  <2> QED BY <1>4, <2>1 DEF initCatalog, Connects, Initializes
<1>5. CASE initPackets
  <2>1. ~NoPeerInfo
    BY <1>0, <1>5, PeerInfoIsThere DEF initPackets
  <2> QED BY <1>5, <2>1 DEF initPackets, Connects, Initializes
<1>6. CASE initOther
  BY <1>6 DEF initOther, Connects, Initializes
<1> QED BY <1>2, <1>3, <1>4, <1>5, <1>6 DEF connect

LEMMA ConnectKeeps ==
  ASSUME PageInv, connect
  PROVE  PageInv'
<1>0. /\ connected \in 0 .. 10 /\ connected + 1 \in 1 .. 11
      /\ connected' = connected + 1 /\ TypeOK
  BY DomOrderFacts, ConnectFacts DEF PageInv, TypeOK, Loaded
<1>2. initialized' = initialized \cup {DomOrder[connected + 1]}
  BY ConnectFacts
<1>3. UNCHANGED <<work, flash, table, graph, content, shown, failed, messages,
                  saved, nodeVars, told>>
  BY ConnectFacts
<1>4. AllInitialize'
  <2> SUFFICES ASSUME NEW i \in 1 .. connected' PROVE DomOrder[i] \in initialized'
    BY DEF AllInitialize
  <2>1. CASE i \in 1 .. connected
    BY <1>2, <2>1 DEF PageInv, AllInitialize
  <2>2. CASE i = connected + 1
    BY <1>2, <2>2
  <2> QED BY <1>0, <2>1, <2>2
<1>5. initialized' \subseteq {DomOrder[i] : i \in DOMAIN DomOrder}
      /\ connected' \in 0 .. Len(DomOrder)
  BY <1>0, <1>2, DomOrderFacts DEF TypeOK
<1>6. SocketShown' /\ SavedAsAsked'
  BY <1>3 DEF PageInv, SocketShown, SavedAsAsked
<1>7. SentIsTrue'
  BY <1>3 DEF PageInv, SentIsTrue, nodeVars
<1>8. CASE UNCHANGED calls /\ source' \in {source, "open"}
  <2>1. TypeOK'
    BY <1>0, <1>3, <1>5, <1>8 DEF TypeOK, nodeVars
  <2>2. CallsInv'
    BY <1>3, <1>8 DEF PageInv, CallsInv, CallInv, nodeVars
  <2>3. ToldIsTrue'
    BY <1>3, <1>8 DEF PageInv, ToldIsTrue, Unseen, Made, nodeVars
  <2>5. PlaceholderEnds'
    BY <1>3, <1>8 DEF PageInv, PlaceholderEnds, Open
  <2> QED BY <1>4, <1>6, <1>7, <2>1, <2>2, <2>3, <2>5 DEF PageInv
<1>9. ASSUME UNCHANGED source,
             NEW c \in {Request("socket", Empty, Empty, 0),
                        tableRequest(told["routing"]),
                        catalogRequest(told["catalog"])}, fetch(c)
      PROVE  PageInv'
  <2>1. /\ routing \in Nat /\ catalog \in Nat
        /\ told["routing"] \in Nat /\ told["catalog"] \in Nat
    BY <1>0, PageAssumption DEF TypeOK
  <2>2. told["routing"] + 1 <= routing /\ told["catalog"] + 1 <= catalog
    BY <2>1, UnseenType DEF PageInv, ToldIsTrue
  <2>3. c \in Call /\ c.op \in {"socket", "table", "catalog"} /\ c.st = "sent"
    <3>1. {"socket", "table", "catalog"} \subseteq Op /\ Empty \in Input
          /\ {0, told["routing"] + 1, told["catalog"] + 1} \subseteq Nat
      BY <2>1 DEF Op, Input
    <3>2. c \in Call
      BY <1>9, <3>1, RequestType DEF tableRequest, catalogRequest
    <3>3. c.op \in {"socket", "table", "catalog"} /\ c.st = "sent"
      BY <1>9 DEF tableRequest, catalogRequest, Request
    <3> QED BY <3>2, <3>3
  <2>4. CallInv(c, routing, catalog, accepted)
    BY <1>9, <2>2 DEF CallInv, tableRequest, catalogRequest, Request
  <2>6. PICK s \in Slot : calls[s] = Idle /\ calls' = [calls EXCEPT ![s] = c]
    BY <1>9, FetchSlot
  <2>8. calls' \in [Slot -> Call \cup {Idle}]
    BY <1>0, <2>3, <2>6, OneSlot
  <2>9. TypeOK'
    BY <1>0, <1>3, <1>5, <1>9, <2>8 DEF TypeOK, nodeVars
  <2>10. CallsInv'
    <3>1. routing' = routing /\ catalog' = catalog /\ accepted' = accepted
      BY <1>3 DEF nodeVars
    <3>2. /\ routing' \in Nat /\ catalog' \in Nat
          /\ routing <= routing' /\ catalog <= catalog'
          /\ accepted \subseteq accepted'
          /\ CallInv(c, routing', catalog', accepted')
      BY <2>1, <2>4, <3>1
    <3> QED BY <1>0, <2>3, <2>6, <3>2, SlotInv DEF PageInv
  <2>11. ToldIsTrue'
    <3>1. c.op \in RoutingWrites \cup {"add"} => c.st # "ok"
      BY <2>3
    <3> QED BY <1>0, <1>3, <2>3, <2>6, <3>1, ToldKeeps DEF PageInv, nodeVars
  <2>13. PlaceholderEnds'
    <3>1. calls[s].op \notin SearchOp
      BY <2>6, IdleInv
    <3> QED BY <1>0, <1>3, <2>3, <2>6, <3>1, PlaceholderKeeps DEF PageInv
  <2> QED BY <1>4, <1>6, <1>7, <2>9, <2>10, <2>11, <2>13 DEF PageInv
<1> QED BY <1>8, <1>9, ConnectFacts

LEMMA PageInit == Init => PageInv
<1> SUFFICES ASSUME Init PROVE PageInv
  OBVIOUS
<1>1. TypeOK
  BY PageAssumption, DomOrderFacts DEF Init, TypeOK, Text, Input
<1>2. \A s \in Slot : calls[s] = Idle
  BY DEF Init
<1>3. CallsInv
  BY <1>2, IdleInv DEF CallsInv
<1>4. SocketShown /\ AllInitialize /\ SentIsTrue /\ SavedAsAsked
  BY <1>2 DEF Init, SocketShown, AllInitialize, SentIsTrue, SavedAsAsked, TextView
<1>5. ToldIsTrue
  <2>1. ASSUME NEW ops, "idle" \notin ops PROVE Unseen(ops) = 0
    <3>1. {s \in Slot : Made(calls[s], ops)} = {}
      BY <1>2, <2>1 DEF Made, Idle
    <3> QED BY <3>1, FS_EmptySet DEF Unseen
  <2>2. Unseen(RoutingWrites) = 0 /\ Unseen({"add"}) = 0
    BY <2>1 DEF RoutingWrites
  <2> QED BY <2>2 DEF Init, ToldIsTrue
<1>6. PlaceholderEnds
  BY DEF Init, PlaceholderEnds, TextView, SearchOp, Empty
<1> QED BY <1>1, <1>3, <1>4, <1>5, <1>6 DEF PageInv

LEMMA PageStep == PageInv /\ [Next]_vars => PageInv'
<1> SUFFICES ASSUME PageInv, [Next]_vars PROVE PageInv'
  OBVIOUS
<1>1. CASE UNCHANGED vars
  <2>1. flash \in [Kind -> Nat]
        /\ source \in {"closed", "open", "broken"}
    BY DEF PageInv, TypeOK
  <2> QED BY <1>1, <2>1, FlashKeeps DEF vars, pageVars, viewVars
<1>2. CASE connect
  BY <1>2, ConnectKeeps
<1>3. CASE Click
  BY <1>3, ClickKeeps
<1>4. ASSUME NEW s \in Slot, Loaded /\ Answer(s) PROVE PageInv'
  BY <1>4, AnswerKeeps
<1>5. ASSUME NEW s \in Slot, Serve(s) \/ otherServer(s) \/ loses(s)
      PROVE  PageInv'
  BY <1>5, ServeKeeps
<1>6. CASE handleRumor \/ handleSearchReplyMessage
  BY <1>6, NodeChangesKeeps
<1>7. ASSUME NEW p \in Pkt, packetMessage(p) PROVE PageInv'
  BY <1>7, PacketKeeps
<1>8. CASE \/ \E kind \in Kind : removeFlash(kind)
           \/ packetError \/ reconnect
  BY <1>8, FlashSteps
<1> QED BY <1>1, <1>2, <1>3, <1>4, <1>5, <1>6, <1>7, <1>8 DEF Next

LEMMA PageInvariant == Spec => []PageInv
BY PageInit, PageStep, PTL DEF Spec

-----------------------------------------------------------------------------
(* What the steps do with the calls *)

\* fetch leaves the calls in the other slots alone, and takes a free one.
LEMMA FetchOneSlot ==
  ASSUME PageInv, NEW c, fetch(c)
  PROVE  \E s \in Slot : /\ calls[s] = Idle
                         /\ \A t \in Slot : t # s => calls'[t] = calls[t]
<1>1. PICK s \in Slot : calls[s] = Idle /\ calls' = [calls EXCEPT ![s] = c]
  BY FetchSlot
<1>2. calls \in [Slot -> Call \cup {Idle}]
  BY DEF PageInv, TypeOK
<1> QED BY <1>1, <1>2

LEMMA StartsOneSlot ==
  ASSUME PageInv, Click \/ connect
  PROVE  \/ UNCHANGED calls
         \/ \E s \in Slot : /\ calls[s] = Idle
                            /\ \A t \in Slot : t # s => calls'[t] = calls[t]
<1>1. CASE Click
  <2>1. UNCHANGED calls \/ \E c : fetch(c)
    BY <1>1 DEF Click, sendChat, addPeer, upload, download, resolve, send,
       sendPrivate, setEntry, add, tag, search, updateRouting, updateCatalog,
       Submit, Invalid
  <2> QED BY <2>1, FetchOneSlot
<1>2. CASE connect
  <2>1. UNCHANGED calls \/ \E c : fetch(c)
    BY <1>2, ConnectFacts
  <2> QED BY <2>1, FetchOneSlot
<1> QED BY <1>1, <1>2

\* The node's answer keeps the operation of a call, and comes once, but for one
\* that is lost on its way.
LEMMA ServeOneSlot ==
  ASSUME PageInv, NEW s \in Slot, Serve(s) \/ otherServer(s) \/ loses(s)
  PROVE  /\ calls[s].st \in {"sent", "ok"} /\ calls[s].op # "reading"
         /\ calls'[s].op = calls[s].op
         /\ \A t \in Slot : t # s => calls'[t] = calls[t]
<1>1. calls[s].st \in {"sent", "ok"} /\ calls[s].op # "reading"
  BY DEF Serve, otherServer, loses, addressGet, routingGet, peerPost, routingPost,
     unicastPost, broadcastPost, catalogGet, catalogPost, uploadPost, downloadGet,
     indexPost, searchPost, namingPost, namingGet, Handles
<1>2. PICK st, ver, text : Answered(s, st, ver, text)
  BY DEF Serve, otherServer, loses, addressGet, routingGet, peerPost, routingPost,
     unicastPost, broadcastPost, catalogGet, catalogPost, uploadPost, downloadGet,
     indexPost, searchPost, namingPost, namingGet, Replies, Finds, httpError,
     changesRouting
<1>3. calls \in [Slot -> Call \cup {Idle}]
  BY DEF PageInv, TypeOK
<1>4. calls' = [calls EXCEPT ![s] = AnswerOf(calls[s], st, ver, text)]
  BY <1>2 DEF Answered, AnswerOf
<1>5. AnswerOf(calls[s], st, ver, text).op = calls[s].op
  BY DEF AnswerOf
<1> QED BY <1>1, <1>3, <1>4, <1>5

\* A handler that goes on after its await changes its own call only.
LEMMA AnswerOneSlot ==
  ASSUME PageInv, NEW s \in Slot, Answer(s)
  PROVE  \A t \in Slot : t # s => calls'[t] = calls[t]
<1>1. calls \in [Slot -> Call \cup {Idle}]
  BY DEF PageInv, TypeOK
<1>2. UNCHANGED calls \/ \E c : calls' = [calls EXCEPT ![s] = c]
  <2>1. ends(s) => \E c : calls' = [calls EXCEPT ![s] = c]
    BY DEF ends
  <2>2. (\E c : continues(s, c)) => \E c : calls' = [calls EXCEPT ![s] = c]
    BY DEF continues
  <2>3. UNCHANGED calls \/ ends(s) \/ \E c : continues(s, c)
    BY DEF Answer, socketAddress, sendEnds, saysEnds, updateTable, updateGraph,
       writeRouting, updateContent, addEnds, progress, load, readerFails,
       uploadEnds, downloadEnds, searchAllEnds, searchFirstEnds, resolveEnds,
       searchFails, Reports
  <2> QED BY <2>1, <2>2, <2>3
<1> QED BY <1>1, <1>2

\* Every step changes the call of one slot at most: it takes a free slot, the
\* node answers, or a handler goes on.
LEMMA EveryStep ==
  ASSUME PageInv, Next, NEW t \in Slot
  PROVE  \/ calls'[t] = calls[t]
         \/ calls[t] = Idle
         \/ /\ calls[t].st \in {"sent", "ok"} /\ calls[t].op # "reading"
            /\ calls'[t].op = calls[t].op
         \/ Loaded /\ Answer(t)
<1>1. CASE Click \/ connect
  BY <1>1, StartsOneSlot
<1>3. CASE \E s \in Slot : Loaded /\ Answer(s)
  BY <1>3, AnswerOneSlot
<1>4. CASE \E s \in Slot : Serve(s) \/ otherServer(s) \/ loses(s)
  BY <1>4, ServeOneSlot
<1>5. CASE \/ \E kind \in Kind : removeFlash(kind)
           \/ handleRumor \/ handleSearchReplyMessage
           \/ (\E p \in Pkt : packetMessage(p))
           \/ packetError \/ reconnect
  BY <1>5 DEF removeFlash, handleRumor, handleSearchReplyMessage, pageVars,
     packetMessage, packetError,
     reconnect
<1> QED BY <1>1, <1>3, <1>4, <1>5 DEF Next

\* A handler of update shows what came with its answer, which is not older
\* than what it asked for.
LEMMA AnswerNotOlder ==
  ASSUME PageInv, NEW t \in Slot, Answer(t)
  PROVE  /\ Completes(t, "table") => table' >= calls[t].since
         /\ Completes(t, "graph") => graph' >= calls[t].since
         /\ Completes(t, "catalog") => content' >= calls[t].since
<1>0. calls[t].op \in {"table", "graph", "catalog"} =>
        /\ calls[t].since \in Nat /\ calls[t].ver \in Nat
        /\ calls[t].st = "ok" => calls[t].ver >= calls[t].since
  BY CallFacts DEF Op, Call, CallInv
<1>1. CASE Ok(t, "table")
  <2>1. calls[t].op = "table" /\ calls[t].st = "ok"
    BY <1>1 DEF Ok, Open
  <2>2. updateTable(t)
    BY <2>1 DEF Answer, socketAddress, sendEnds, saysEnds, updateGraph,
       writeRouting, updateContent, addEnds, progress, load, readerFails,
       uploadEnds, downloadEnds, searchAllEnds, searchFirstEnds, resolveEnds,
       searchFails, Reports, Ok, Failed, Open, JustSays
  <2>3. table' = calls[t].ver
    BY <2>1, <2>2 DEF updateTable, Failed
  <2> QED BY <1>0, <2>1, <2>3 DEF Completes, Ok, Open
<1>2. CASE Ok(t, "graph")
  <2>1. calls[t].op = "graph" /\ calls[t].st = "ok"
    BY <1>2 DEF Ok, Open
  <2>2. updateGraph(t)
    BY <2>1 DEF Answer, socketAddress, sendEnds, saysEnds, updateTable,
       writeRouting, updateContent, addEnds, progress, load, readerFails,
       uploadEnds, downloadEnds, searchAllEnds, searchFirstEnds, resolveEnds,
       searchFails, Reports, Ok, Failed, Open, JustSays
  <2>3. graph' = calls[t].ver
    BY <2>1, <2>2 DEF updateGraph, Reports, Failed
  <2> QED BY <1>0, <2>1, <2>3 DEF Completes, Ok, Open
<1>3. CASE Ok(t, "catalog")
  <2>1. calls[t].op = "catalog" /\ calls[t].st = "ok"
    BY <1>3 DEF Ok, Open
  <2>2. updateContent(t)
    BY <2>1 DEF Answer, socketAddress, sendEnds, saysEnds, updateTable, updateGraph,
       writeRouting, addEnds, progress, load, readerFails,
       uploadEnds, downloadEnds, searchAllEnds, searchFirstEnds, resolveEnds,
       searchFails, Reports, Ok, Failed, Open, JustSays
  <2>3. content' = calls[t].ver
    BY <2>1, <2>2 DEF updateContent, Reports, Failed
  <2> QED BY <1>0, <2>1, <2>3 DEF Completes, Ok, Open
<1> QED BY <1>1, <1>2, <1>3 DEF Completes

\* A handler whose request failed prints an error, but for PeerInfo; the file
\* reader does not.
LEMMA AnswerReports ==
  ASSUME PageInv, NEW t \in Slot, Answer(t), Fails(t)
  PROVE  flash'["error"] = flash["error"] + (IF Unnoticed(t) THEN 0 ELSE 1)
<1>0. /\ flash["error"] \in Nat /\ flash \in [Kind -> Nat] /\ "error" \in Kind
      /\ UNCHANGED flash => flash'["error"] = flash["error"] + 0
  BY DEF PageInv, TypeOK, Kind
<1>1. printError => flash'["error"] = flash["error"] + 1
  BY <1>0 DEF printError, prints
<1>2. /\ calls[t].op = "reading" => calls[t].st = "sent"
      /\ calls[t].st \in {"bad", "lost"} \/ calls[t].op = "reading"
  BY CallFacts DEF Op, CallInv, Fails, Open
<1>3. CASE progress(t) \/ load(t)
  <2>1. calls[t].op = "reading" /\ calls'[t] # calls[t] /\ calls'[t] = Idle
    BY <1>2, <1>3 DEF progress, load, Open, Fails
  <2>2. load(t)
    BY <1>3, <2>1 DEF progress
  <2>3. calls'[t] = Request("upload", calls[t].main, Empty, 0)
    BY <2>2 DEF load, continues, PageInv, TypeOK
  <2> QED BY <2>1, <2>3 DEF Request, Idle
<1>4. CASE readerFails(t)
  BY <1>0, <1>4 DEF readerFails, Unnoticed
<1>5. CASE socketAddress(t)
  <2>1. calls[t].op = "socket" /\ calls[t].st \in {"bad", "lost"}
    BY <1>2, <1>5 DEF socketAddress, Open
  <2> QED BY <1>0, <1>1, <1>5, <2>1 DEF socketAddress, Unnoticed, Open
<1>6. ASSUME \E op \in Op \ {"reading", "socket"} : Failed(t, op), printError
      PROVE  flash'["error"] = flash["error"] + (IF Unnoticed(t) THEN 0 ELSE 1)
  <2>1. ~Unnoticed(t)
    BY <1>6 DEF Failed, Unnoticed, Open
  <2> QED BY <1>1, <1>6, <2>1
<1>7. \A op : Ok(t, op) => op = "reading"
  BY <1>2 DEF Ok, Open
<1>8. CASE sendEnds(t) \/ saysEnds(t) \/ updateTable(t) \/ updateGraph(t)
  BY <1>6, <1>7, <1>8
     DEF sendEnds, saysEnds, updateTable, updateGraph, Reports, Op, JustSays
<1>9. CASE writeRouting(t) \/ updateContent(t) \/ addEnds(t) \/ uploadEnds(t)
           \/ downloadEnds(t)
  BY <1>6, <1>7, <1>9
     DEF writeRouting, updateContent, addEnds, uploadEnds, downloadEnds, Reports, Op
<1>10. CASE searchAllEnds(t) \/ searchFirstEnds(t) \/ resolveEnds(t)
  BY <1>6, <1>7, <1>10
     DEF searchAllEnds, searchFirstEnds, resolveEnds, searchFails, Reports, Op
<1> QED BY <1>3, <1>4, <1>5, <1>8, <1>9, <1>10 DEF Answer

-----------------------------------------------------------------------------
(* Theorems *)

\* The variables of the page and of the node keep their types, however many
\* operations of which sections overlap; in particular no view shows a version
\* that the node never had.
THEOREM PageTypeCorrect == Spec => []TypeOK
BY PageInvariant, PTL DEF PageInv

\* The controllers of node.html all initialize: none looks up peerInfo before
\* Stimulus has connected it.
THEOREM PageInitializes == Spec => []AllInitialize
BY PageInvariant, PTL DEF PageInv

\* A message shown as sent was taken by the node as it is shown, or comes in a
\* packet of the node, whatever is typed while Unicast.send waits.
THEOREM SentMessagesAreTrue == Spec => []SentIsTrue
BY PageInvariant, PTL DEF PageInv

\* triggerDownload saves a file under the metahash it was downloaded for.
THEOREM DownloadsAreSavedAsAsked == Spec => []SavedAsAsked
BY PageInvariant, PTL DEF PageInv

\* The placeholder of a search goes with the search, unless that one failed.
THEOREM PlaceholdersEnd == Spec => []PlaceholderEnds
BY PageInvariant, PTL DEF PageInv

\* The updates of Routing and Catalog show no table older than the writes whose
\* success the page had seen when they began.
THEOREM UpdatesAreNeverOlder == Spec => NeverOlder
<1>1. PageInv /\ [Next]_vars =>
        [\A s \in Slot :
           /\ Completes(s, "table") => table' >= calls[s].since
           /\ Completes(s, "graph") => graph' >= calls[s].since
           /\ Completes(s, "catalog") => content' >= calls[s].since]_vars
  <2> SUFFICES ASSUME PageInv, Next, NEW t \in Slot
               PROVE  /\ Completes(t, "table") => table' >= calls[t].since
                      /\ Completes(t, "graph") => graph' >= calls[t].since
                      /\ Completes(t, "catalog") => content' >= calls[t].since
    OBVIOUS
  <2>1. CASE Answer(t)
    BY <2>1, AnswerNotOlder
  <2>2. CASE calls'[t].op = calls[t].op \/ calls[t] = Idle
    BY <2>2 DEF Completes, Ok, Open, Idle
  <2> QED BY <2>1, <2>2, EveryStep
<1> QED BY <1>1, PageInvariant, PTL DEF Spec, NeverOlder

\* Every failure of an operation prints one error message of its own, except a
\* refused socket address and a file that cannot be read, which print none.
THEOREM FailuresAreReported == Spec => FailuresReported
<1>1. PageInv /\ [Next]_vars =>
        [\A s \in Slot :
           Fails(s) => flash'["error"]
                         = flash["error"] + (IF Unnoticed(s) THEN 0 ELSE 1)]_vars
  <2> SUFFICES ASSUME PageInv, Next, NEW t \in Slot, Fails(t)
               PROVE  flash'["error"]
                        = flash["error"] + (IF Unnoticed(t) THEN 0 ELSE 1)
    OBVIOUS
  <2>1. /\ calls[t] # Idle /\ calls'[t] # calls[t]
        /\ \/ calls[t].st \in {"bad", "lost"}
           \/ calls[t].op = "reading"
    BY DEF Fails, Open
  <2>2. Answer(t)
    BY <2>1, EveryStep
  <2> QED BY <2>2, AnswerReports
<1> QED BY <1>1, PageInvariant, PTL DEF Spec, FailuresReported
=============================================================================
