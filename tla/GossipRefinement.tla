-------------------------- MODULE GossipRefinement --------------------------
(***************************************************************************)
(* The gossip layer delivers in order and, with one caller of Broadcast    *)
(* per node, implements FifoBroadcast: the proofs, from the inductive      *)
(* invariant of GossipProofs.                                              *)
(***************************************************************************)
EXTENDS GossipProofs

\* What a step of the gossip layer may do to what a node stores and announces:
\* nothing, a step of a caller of Broadcast, storing a rumor that a handler
\* rejects, or storing and accepting the next rumor of an origin.
Quiet == UNCHANGED <<seqNumber, receivedSeq, rumorDB, call, created>>
Stores(n, r) ==
  /\ rumorDB' = [rumorDB EXCEPT ![n] = storeRumor(@, r)]
  /\ UNCHANGED <<seqNumber, call, created, outbox>>
Accepts(n, r) ==
  receivedSeq' = [receivedSeq EXCEPT
                    ![n] = [receivedSeq[n] EXCEPT ![r.origin] = r.seq]]

\* Every step is of one of these kinds.
LEMMA StepKinds ==
  ASSUME Next
  PROVE  \/ Quiet
         \/ \E n \in Node : \E c \in Caller :
              Broadcast(n, c) \/ BroadcastGoesOn(n, c)
         \/ \E n \in Node : \E r \in NextRumors(n) :
              /\ expected(n, r) /\ Stores(n, r)
              /\ UNCHANGED receivedSeq \/ Accepts(n, r)
<1> USE DEF Quiet
<1>1. ASSUME NEW n \in Node, NEW a \in LatePeer[n], AddPeer(n, a) PROVE Quiet
  BY <1>1 DEF AddPeer
<1>2. ASSUME NEW n \in Node, broadCastRoutine(n) PROVE Quiet
  BY <1>2 DEF broadCastRoutine
<1>3. ASSUME NEW n \in Node, NEW w \in waiters[n],
             waitForAckTimeout(n, w) \/ waitForAckReceived(n, w)
      PROVE  Quiet
  BY <1>3 DEF waitForAckTimeout, waitForAckReceived
<1>4. ASSUME NEW n \in Node, NEW d \in Node, sendRandomStatusMessage(n, d)
      PROVE  Quiet
  BY <1>4 DEF sendRandomStatusMessage
<1>5. ASSUME NEW n \in Node, NEW p \in net, handlePacket(n, p) PROVE Quiet
  BY <1>5 DEF handlePacket, handleStatusMessage, handleAckMessage, recvRumors
<1>6. ASSUME NEW p \in net, losePacket(p) PROVE Quiet
  BY <1>6 DEF losePacket
<1>7. ASSUME NEW n \in Node, handleRumor(n)
      PROVE  Quiet \/ \E r \in NextRumors(n) :
                        /\ expected(n, r) /\ Stores(n, r)
                        /\ UNCHANGED receivedSeq \/ Accepts(n, r)
  <2>1. CASE skipRumor(n)
    BY <2>1 DEF skipRumor
  <2>2. CASE rejectRumor(n)
    BY <2>2 DEF rejectRumor, Stores
  <2>3. CASE acceptRumor(n)
    BY <2>3 DEF acceptRumor, Stores, Accepts
  <2>4. CASE forwardRumorsMessage(n)
    BY <2>4 DEF forwardRumorsMessage
  <2> QED BY <1>7, <2>1, <2>2, <2>3, <2>4 DEF handleRumor
<1> QED BY <1>1, <1>2, <1>3, <1>4, <1>5, <1>6, <1>7 DEF Next

\* What the invariant gives for the only caller of a node.
LEMMA SoleFacts ==
  ASSUME IInv, NEW n \in Node, NEW c \in Caller, Serial(n), Quota[n][c] > 0
  PROVE  /\ SoleRight(n, c)
         /\ \A d \in Caller : d # c =>
              call[n][d].pc = "idle" /\ call[n][d].own = {}
<1>1. \A d \in Caller : d # c => call[n][d].pc = "idle" /\ call[n][d].own = {}
  BY OtherCallers
<1>2. NumbersRight(n) /\ OwnGapFree(n)
  BY DEF IInv, OwnNumbers, NoGap, OwnGapFree
<1> QED BY <1>1, <1>2, SoleNow

\* What storeRumor, called by Broadcast, does to the database: the rumors of
\* other origins stay, and with one caller the rumor is added to the others.
LEMMA AddStores ==
  ASSUME IInv, NEW n \in Node, NEW c \in Caller, storeRumorAdd(n, c)
  PROVE  /\ \A k \in Node : k # n => rumorDB'[k] = rumorDB[k]
         /\ \A q \in rumorDB[n] : q.origin # n => q \in rumorDB'[n]
         /\ Serial(n) => rumorDB'[n] = rumorDB[n] \cup call[n][c].own
<1>1. TypeOK
  BY DEF IInv
<1>2. call[n][c].pc = "storing"
  BY DEF storeRumorAdd, At
<1>3. Quota[n][c] > 0 /\ call[n][c] \in Call /\ CleanCall(n, call[n][c])
  BY <1>2, RunningCall
<1>4. PICK r \in call[n][c].own : storeRumorAdd(n, c)!2!(r)
  BY DEF storeRumorAdd
<1> DEFINE list == call[n][c].list
<1>5. rumorDB' = IF \E q \in list : q.seq = r.seq THEN rumorDB
                 ELSE [rumorDB EXCEPT ![n] =
                        {q \in rumorDB[n] : q.origin # n} \cup storeRumor(list, r)]
  BY <1>4
<1>6. /\ \A k \in Node : k # n => rumorDB'[k] = rumorDB[k]
      /\ \A q \in rumorDB[n] : q.origin # n => q \in rumorDB'[n]
  BY <1>1, <1>5 DEF TypeOK
<1>7. ASSUME Serial(n) PROVE rumorDB'[n] = rumorDB[n] \cup call[n][c].own
  <2>1. SoleRight(n, c)
    BY <1>3, <1>7, SoleFacts
  <2>2. /\ list = {q \in rumorDB[n] : q.origin = n} /\ r.seq = seqNumber[n]
        /\ \A q \in rumorDB[n] : q.origin = n => q.seq < seqNumber[n]
    BY <1>2, <1>4, <2>1 DEF SoleRight, SoleNumbers
  <2>3. seqNumber[n] \in Nat
    BY <1>1 DEF TypeOK
  <2>4. \A q \in list : q.seq # r.seq
    BY <2>2, <2>3
  <2>5. storeRumor(list, r) = list \cup {r}
    BY <2>4 DEF storeRumor
  <2>6. call[n][c].own = {r}
    BY <1>3, <1>4 DEF CleanCall
  <2>7. rumorDB'[n] = {q \in rumorDB[n] : q.origin # n} \cup (list \cup {r})
    BY <1>1, <1>5, <2>4, <2>5 DEF TypeOK
  <2> QED BY <2>2, <2>6, <2>7
<1> QED BY <1>6, <1>7

-----------------------------------------------------------------------------
(* Delivery in order. *)

\* Every step keeps the stored rumors and moves a view by at most one.
LEMMA StepInOrder ==
  ASSUME IInv, Next, NEW n \in Node, NEW o \in Node, n # o \/ Serial(n)
  PROVE  /\ receivedSeq'[n][o] \in {receivedSeq[n][o], receivedSeq[n][o] + 1}
         /\ \A r \in rumorDB[n] : r.origin = o => r \in rumorDB'[n]
<1>1. TypeOK
  BY DEF IInv
<1>2. CASE Quiet
  BY <1>2 DEF Quiet
<1>3. ASSUME NEW k \in Node, NEW c \in Caller,
             Broadcast(k, c) \/ BroadcastGoesOn(k, c)
      PROVE  /\ receivedSeq'[n][o] \in {receivedSeq[n][o], receivedSeq[n][o] + 1}
             /\ \A r \in rumorDB[n] : r.origin = o => r \in rumorDB'[n]
  <2>1. CASE announceOwn(k, c)
    <3>1. /\ rumorDB' = rumorDB /\ call[k][c].pc = "written"
          /\ receivedSeq' = [receivedSeq EXCEPT ![k][k] = call[k][c].cur + 1]
      BY <2>1 DEF announceOwn, At
    <3>2. CASE n = k /\ o = k
      <4>1. SoleRight(k, c)
        BY <3>1, <3>2, RunningCall, SoleFacts
      <4>2. call[k][c].cur + 1 = receivedSeq[k][k] + 1
        BY <3>1, <4>1 DEF SoleRight, SoleNumbers
      <4> QED BY <1>1, <3>1, <3>2, <4>2 DEF TypeOK, View
    <3>3. CASE n # k \/ o # k
      BY <1>1, <3>1, <3>3 DEF TypeOK, View
    <3> QED BY <3>2, <3>3
  <2>2. CASE storeRumorAdd(k, c)
    <3>1. receivedSeq' = receivedSeq
      BY <2>2 DEF storeRumorAdd
    <3>2. \A r \in rumorDB[n] : r.origin = o => r \in rumorDB'[n]
      BY <2>2, AddStores
    <3> QED BY <3>1, <3>2
  <2>3. CASE ~announceOwn(k, c) /\ ~storeRumorAdd(k, c)
    BY <1>3, <2>3 DEF Broadcast, BroadcastGoesOn, updateSeqNumber, createRumor,
                      storeRumorGet
  <2> QED BY <2>1, <2>2, <2>3
<1>4. ASSUME NEW k \in Node, NEW r \in NextRumors(k), expected(k, r),
             Stores(k, r), UNCHANGED receivedSeq \/ Accepts(k, r)
      PROVE  /\ receivedSeq'[n][o] \in {receivedSeq[n][o], receivedSeq[n][o] + 1}
             /\ rumorDB[n] \subseteq rumorDB'[n]
  <2>1. rumorDB[k] \subseteq storeRumor(rumorDB[k], r)
    BY StoreAdds
  <2>2. r \in Rumor
    BY TakenGenuine
  <2>3. rumorDB[n] \subseteq rumorDB'[n]
    BY <1>1, <1>4, <2>1 DEF Stores, TypeOK
  <2>4. receivedSeq'[n][o] \in {receivedSeq[n][o], receivedSeq[n][o] + 1}
    <3>1. CASE UNCHANGED receivedSeq
      BY <3>1
    <3>2. CASE Accepts(k, r)
      <4>1. r.origin \in Node /\ r.seq = receivedSeq[k][r.origin] + 1
        BY <1>4, <2>2 DEF expected, Rumor
      <4>2. receivedSeq'[n] = IF n = k
                              THEN [receivedSeq[k] EXCEPT ![r.origin] = r.seq]
                              ELSE receivedSeq[n]
        BY <1>1, <3>2 DEF Accepts, TypeOK
      <4>3. receivedSeq[n] \in [Node -> Nat]
        BY <1>1 DEF TypeOK, View
      <4> QED BY <4>1, <4>2, <4>3
    <3> QED BY <1>4, <3>1, <3>2
  <2> QED BY <2>3, <2>4
<1> QED BY <1>2, <1>3, <1>4, StepKinds

\* Every node accepts the rumors of an origin one by one, in order, each once,
\* whatever forwards, resends and anti-entropy replies bring.
THEOREM InOrderOnceHolds == Spec => InOrderOnce
<1> DEFINE Ordered == \A n, o \in Node : n # o \/ Serial(n) =>
             /\ receivedSeq'[n][o] \in {receivedSeq[n][o], receivedSeq[n][o] + 1}
             /\ \A r \in rumorDB[n] : r.origin = o => r \in rumorDB'[n]
<1>1. IInv /\ [Next]_vars => [Ordered]_vars
  BY StepInOrder
<1> QED BY <1>1, Inductive, PTL DEF Spec, InOrderOnce

-----------------------------------------------------------------------------
(* Refinement. *)

\* What FifoBroadcast sees of a state: a rumor is published when its origin has
\* built it, delivered to a node when the node's view has reached it.
Lasts == [o \in Node |-> Last(o)]
Delivered == [n \in Node |-> Received(n)]

\* What a node with one caller holds, before and after a step of that caller.
LEMMA HeldNow ==
  ASSUME NEW n \in Node, NEW c \in Caller,
         \A d \in Caller : d # c => call[n][d].pc = "idle" /\ call[n][d].own = {}
  PROVE  /\ Held(n) = rumorDB[n] \cup call[n][c].own
         /\ Last(n) = IF call[n][c].pc = "announced" THEN receivedSeq[n][n] - 1
                      ELSE receivedSeq[n][n]
BY DEF Held, Last, Busy

\* The same after the step.
LEMMA HeldThen ==
  ASSUME NEW n \in Node, NEW c \in Caller,
         \A d \in Caller : d # c =>
           call'[n][d].pc = "idle" /\ call'[n][d].own = {}
  PROVE  /\ Held(n)' = rumorDB'[n] \cup call'[n][c].own
         /\ Last(n)' = IF call'[n][c].pc = "announced" THEN receivedSeq'[n][n] - 1
                       ELSE receivedSeq'[n][n]
BY DEF Held, Last, Busy

\* A step that leaves calls, views and stores of a node alone changes nothing
\* FifoBroadcast sees of that node.
LEMMA NodeStutters ==
  ASSUME NEW k \in Node, rumorDB'[k] = rumorDB[k], receivedSeq'[k] = receivedSeq[k],
         \A d \in Caller : call'[k][d] = call[k][d]
  PROVE  Last(k)' = Last(k) /\ Received(k)' = Received(k)
<1>1. Held(k)' = Held(k)
  BY DEF Held
<1>2. Busy(k, {"announced"})' <=> Busy(k, {"announced"})
  BY DEF Busy
<1> QED BY <1>1, <1>2 DEF Last, Received

\* A step of the only caller of a node: FifoBroadcast sees nothing of it, or
\* sees that the rumor is published when it is built.
LEMMA CallerRefines ==
  ASSUME IInv, NEW n \in Node, NEW c \in Caller, Serial(n),
         Broadcast(n, c) \/ BroadcastGoesOn(n, c)
  PROVE  \/ UNCHANGED <<Lasts, created, Delivered>>
         \/ \E m \in Msg : \E r :
              /\ r = [origin |-> n, seq |-> Last(n) + 1, msg |-> m]
              /\ Lasts' = [Lasts EXCEPT ![n] = @ + 1]
              /\ created' = created \cup {r}
              /\ Delivered' = [Delivered EXCEPT ![n] = @ \cup {r}]
<1>1. TypeOK /\ StoresGenuine /\ CallsClean
  BY DEF IInv
<1>2. Quota[n][c] > 0 /\ call[n][c] \in Call /\ CleanCall(n, call[n][c])
  <2>1. CASE Broadcast(n, c)
    BY <1>1, <2>1, GossipAssumption DEF Broadcast, TypeOK, Call, CallsClean
  <2>2. CASE BroadcastGoesOn(n, c)
    BY <2>2, RunningCall DEF BroadcastGoesOn, updateSeqNumber, announceOwn,
                             createRumor, storeRumorGet, storeRumorAdd, At
  <2> QED BY <2>1, <2>2
<1>3. /\ SoleRight(n, c)
      /\ \A d \in Caller : d # c => call[n][d].pc = "idle" /\ call[n][d].own = {}
  BY <1>2, SoleFacts
<1>4. \A k \in Node : \A d \in Caller : k # n \/ d # c => call'[k][d] = call[k][d]
  BY <1>1, CallerAlone
<1>5. /\ Held(n) = rumorDB[n] \cup call[n][c].own
      /\ Last(n) = IF call[n][c].pc = "announced" THEN receivedSeq[n][n] - 1
                   ELSE receivedSeq[n][n]
      /\ Held(n)' = rumorDB'[n] \cup call'[n][c].own
      /\ Last(n)' = IF call'[n][c].pc = "announced" THEN receivedSeq'[n][n] - 1
                    ELSE receivedSeq'[n][n]
  <2>1. \A d \in Caller : d # c => call'[n][d].pc = "idle" /\ call'[n][d].own = {}
    BY <1>3, <1>4
  <2> QED BY <1>3, <2>1, HeldNow, HeldThen
<1>6. receivedSeq[n][n] \in Nat /\ seqNumber[n] \in Nat
  BY <1>1 DEF TypeOK, View
<1>7. ASSUME NEW k \in Node, k # n,
             rumorDB'[k] = rumorDB[k], receivedSeq'[k] = receivedSeq[k]
      PROVE  Last(k)' = Last(k) /\ Received(k)' = Received(k)
  BY <1>4, <1>7, NodeStutters
<1>8. ASSUME \A k \in Node : k # n => rumorDB'[k] = rumorDB[k],
             \A k \in Node : k # n => receivedSeq'[k] = receivedSeq[k],
             Last(n)' = Last(n), Received(n)' = Received(n), created' = created
      PROVE  UNCHANGED <<Lasts, created, Delivered>>
  BY <1>7, <1>8 DEF Lasts, Delivered
<1>9. CASE Broadcast(n, c)
  <2>1. /\ call[n][c].pc = "idle" /\ call[n][c].own = {}
        /\ call'[n][c].pc = "read" /\ call'[n][c].own = {}
        /\ UNCHANGED <<receivedSeq, rumorDB, created>>
    <3>1. call[n][c].pc = "idle"
      BY <1>9 DEF Broadcast, At
    <3> QED BY <1>1, <1>2, <1>9, <3>1 DEF Broadcast, CallGoes, TypeOK, CleanCall
  <2> QED BY <1>5, <1>8, <2>1 DEF Received
<1>10. CASE updateSeqNumber(n, c)
  <2>1. /\ call[n][c].pc = "read" /\ call'[n][c].own = call[n][c].own
        /\ call'[n][c].pc = "written"
        /\ UNCHANGED <<receivedSeq, rumorDB, created>>
    BY <1>1, <1>2, <1>10 DEF updateSeqNumber, At, CallGoes, TypeOK, Call
  <2> QED BY <1>5, <1>8, <2>1 DEF Received
<1>11. CASE announceOwn(n, c)
  <2>1. /\ call[n][c].pc = "written" /\ call'[n][c].own = call[n][c].own
        /\ call'[n][c].pc = "announced" /\ UNCHANGED <<rumorDB, created>>
    BY <1>1, <1>2, <1>11 DEF announceOwn, At, CallGoes, TypeOK, Call
  <2>2. /\ seqNumber[n] = receivedSeq[n][n] + 1
        /\ call[n][c].cur + 1 = seqNumber[n]
        /\ \A r \in created : r.origin = n => r.seq < seqNumber[n]
    BY <1>3, <2>1 DEF SoleRight, SoleNumbers
  <2>3. \A k, o \in Node : receivedSeq'[k][o] =
          IF k = n /\ o = n THEN receivedSeq[n][n] + 1 ELSE receivedSeq[k][o]
    BY <1>1, <1>11, <2>2 DEF announceOwn, TypeOK, View
  <2>4. \A k \in Node : k # n => receivedSeq'[k] = receivedSeq[k]
    BY <1>1, <1>11 DEF announceOwn, TypeOK
  <2>5. Last(n)' = Last(n)
    BY <1>5, <1>6, <2>1, <2>3
  <2>6. Held(n)' = Held(n)
    BY <1>5, <2>1
  <2>7. ASSUME NEW r \in Held(n)
        PROVE  r.seq <= receivedSeq'[n][r.origin] <=> r.seq <= receivedSeq[n][r.origin]
    <3>1. r \in Rumor /\ r \in created
      BY <1>1, <1>2, <1>5, <2>7 DEF TypeOK, StoresGenuine, CleanCall, Genuine
    <3>2. r.origin \in Node /\ r.seq \in Nat
      BY <3>1 DEF Rumor
    <3>3. CASE r.origin # n
      BY <2>3, <3>2, <3>3
    <3>4. CASE r.origin = n
      BY <1>6, <2>2, <2>3, <3>1, <3>2, <3>4
    <3> QED BY <3>3, <3>4
  <2>8. Received(n)' = Received(n)
    BY <2>6, <2>7 DEF Received
  <2> QED BY <1>8, <2>1, <2>4, <2>5, <2>8
<1>12. ASSUME NEW m \in Msg, createRumor(n, c, m)
       PROVE  \E r : /\ r = [origin |-> n, seq |-> Last(n) + 1, msg |-> m]
                     /\ Lasts' = [Lasts EXCEPT ![n] = @ + 1]
                     /\ created' = created \cup {r}
                     /\ Delivered' = [Delivered EXCEPT ![n] = @ \cup {r}]
  <2>1. PICK r : r = [origin |-> n, seq |-> seqNumber[n], msg |-> m]
    OBVIOUS
  <2>2. call[n][c].pc = "announced"
    BY <1>12 DEF createRumor, At
  <2>3. call[n][c].own = {}
    BY <1>2, <2>2 DEF CleanCall
  <2>4. call'[n][c] = [call[n][c] EXCEPT !.pc = "built", !.own = {r}]
    BY <1>1, <1>12, <2>1 DEF createRumor, CallGoes, TypeOK
  <2>5. /\ call'[n][c].pc = "built" /\ call'[n][c].own = {r}
        /\ UNCHANGED <<receivedSeq, rumorDB>> /\ created' = created \cup {r}
    BY <1>2, <1>12, <2>1, <2>4 DEF createRumor, Call
  <2>6. receivedSeq[n][n] = seqNumber[n]
    BY <1>3, <2>2 DEF SoleRight, SoleNumbers
  <2>7. Last(n)' = receivedSeq[n][n] /\ Last(n) + 1 = receivedSeq[n][n]
    BY <1>5, <1>6, <2>2, <2>5
  <2>8. Held(n)' = Held(n) \cup {r}
    BY <1>5, <2>3, <2>5
  <2>9. Received(n)' = Received(n) \cup {r}
    <3>1. r.seq <= receivedSeq[n][r.origin]
      BY <1>6, <2>1, <2>6
    <3> QED BY <2>5, <2>8, <3>1 DEF Received
  <2>10. \A k \in Node : k # n => Last(k)' = Last(k) /\ Received(k)' = Received(k)
    BY <1>7, <2>5
  <2>11. Lasts' = [Lasts EXCEPT ![n] = @ + 1]
    BY <2>7, <2>10 DEF Lasts
  <2>12. Delivered' = [Delivered EXCEPT ![n] = @ \cup {r}]
    BY <2>9, <2>10 DEF Delivered
  <2> QED BY <2>1, <2>5, <2>6, <2>7, <2>11, <2>12
<1>13. CASE storeRumorGet(n, c)
  <2>1. /\ call[n][c].pc = "built" /\ call'[n][c].own = call[n][c].own
        /\ call'[n][c].pc = "storing"
        /\ UNCHANGED <<receivedSeq, rumorDB, created>>
    BY <1>1, <1>2, <1>13 DEF storeRumorGet, At, CallGoes, TypeOK, Call
  <2> QED BY <1>5, <1>8, <2>1 DEF Received
<1>14. CASE storeRumorAdd(n, c)
  <2>1. /\ call[n][c].pc = "storing" /\ call'[n][c].own = {}
        /\ call'[n][c].pc = "idle" /\ UNCHANGED <<receivedSeq, created>>
    BY <1>1, <1>14 DEF storeRumorAdd, At, CallGoes, TypeOK, Returned
  <2>2. /\ rumorDB'[n] = rumorDB[n] \cup call[n][c].own
        /\ \A k \in Node : k # n => rumorDB'[k] = rumorDB[k]
    BY <1>14, AddStores
  <2> QED BY <1>5, <1>8, <2>1, <2>2 DEF Received
<1> QED BY <1>9, <1>10, <1>11, <1>12, <1>13, <1>14 DEF BroadcastGoesOn

\* Storing a rumor that was in flight, with one caller per node: it is the only
\* rumor with its identity, and no own rumor of the node.
LEMMA StoreGrows ==
  ASSUME IInv, \A k \in Node : Serial(k),
         NEW n \in Node, NEW r \in NextRumors(n), expected(n, r),
         Stores(n, r), UNCHANGED receivedSeq \/ Accepts(n, r), TypeOK'
  PROVE  /\ r \in Rumor /\ Genuine(r) /\ r.origin # n
         /\ \A k \in Node : Held(k)' = IF k = n THEN Held(n) \cup {r} ELSE Held(k)
         /\ UNCHANGED <<call, created>>
<1>1. r \in Rumor /\ Genuine(r)
  BY TakenGenuine
<1>2. r.origin # n /\ StoresRumor(n, r)
  <2>1. /\ r.seq = receivedSeq[n][r.origin] + 1
        /\ rumorDB' = [rumorDB EXCEPT ![n] = storeRumor(@, r)]
        /\ UNCHANGED <<seqNumber, call, created, outbox>>
        /\ \/ UNCHANGED receivedSeq
           \/ receivedSeq' = [receivedSeq EXCEPT
                ![n] = [receivedSeq[n] EXCEPT ![r.origin] = r.seq]]
    BY DEF Stores, expected, Accepts
  <2>2. Serial(n)
    OBVIOUS
  <2> QED BY <1>1, <2>1, <2>2, StoreKeeps
<1>3. rumorDB'[n] = rumorDB[n] \cup {r}
  <2>1. PICK q \in rumorDB'[n] : q.origin = r.origin /\ q.seq = r.seq
    BY <1>2 DEF StoresRumor
  <2>2. q \in created /\ r \in created
    BY <1>1, <1>2, <2>1 DEF StoresRumor, IInv, StoresGenuine, Genuine
  <2>3. q = r
    BY <1>1, <2>1, <2>2 DEF IInv, UniqueIDs, SameID, Rumor
  <2> QED BY <1>2, <2>1, <2>3 DEF StoresRumor
<1>4. UNCHANGED <<call, created>>
  BY DEF Stores
<1>5. \A k \in Node : Held(k)' = IF k = n THEN Held(n) \cup {r} ELSE Held(k)
  BY <1>2, <1>3, <1>4 DEF Held, StoresRumor
<1> QED BY <1>1, <1>2, <1>4, <1>5

\* handleRumor rejects a rumor: nothing is delivered.
LEMMA RejectStutters ==
  ASSUME IInv, TypeOK', \A k \in Node : Serial(k),
         NEW n \in Node, NEW r \in NextRumors(n), expected(n, r),
         Stores(n, r), UNCHANGED receivedSeq
  PROVE  UNCHANGED <<Lasts, created, Delivered>>
<1>1. /\ r \in Rumor /\ UNCHANGED <<call, created>>
      /\ \A k \in Node : Held(k)' = IF k = n THEN Held(n) \cup {r} ELSE Held(k)
  BY StoreGrows
<1>2. ~(r.seq <= receivedSeq[n][r.origin])
  BY <1>1 DEF expected, IInv, TypeOK, View, Rumor
<1>3. \A k \in Node : Received(k)' = Received(k)
  BY <1>1, <1>2 DEF Received
<1>4. \A k \in Node : Last(k)' = Last(k)
  BY <1>1 DEF Last, Busy
<1> QED BY <1>1, <1>3, <1>4 DEF Delivered, Lasts

\* handleRumor accepts a rumor: it is delivered, after all its predecessors.
LEMMA AcceptDelivers ==
  ASSUME IInv, TypeOK', \A k \in Node : Serial(k),
         NEW n \in Node, NEW r \in NextRumors(n), expected(n, r),
         Stores(n, r), Accepts(n, r)
  PROVE  /\ r \in created
         /\ r \notin Received(n)
         /\ \A q \in created :
              q.origin = r.origin /\ q.seq < r.seq => q \in Received(n)
         /\ Received(n)' = Received(n) \cup {r}
         /\ \A k \in Node : k # n => Received(k)' = Received(k)
         /\ UNCHANGED <<Lasts, created>>
<1> DEFINE o == r.origin
<1>1. /\ TypeOK /\ StoresGenuine /\ CallsClean /\ UniqueIDs /\ NoGap
  BY DEF IInv
<1>2. /\ r \in Rumor /\ Genuine(r) /\ o # n /\ UNCHANGED <<call, created>>
      /\ o \in Node /\ r.seq \in Nat
      /\ \A k \in Node : Held(k)' = IF k = n THEN Held(n) \cup {r} ELSE Held(k)
  BY StoreGrows DEF Rumor
<1>3. \A k, x \in Node : receivedSeq[k][x] \in Nat
  BY <1>1 DEF TypeOK, View
<1>4. r.seq = receivedSeq[n][o] + 1
  BY DEF expected
<1>5. \A k, x \in Node : receivedSeq'[k][x] =
        IF k = n /\ x = o THEN r.seq ELSE receivedSeq[k][x]
  BY <1>1, <1>2 DEF Accepts, TypeOK, View
<1>6. \A k \in Node : \A x \in Held(k) :
        /\ x \in Rumor /\ x \in created /\ x.origin \in Node /\ x.seq \in Nat
  <2>1. \A k \in Node : \A x \in Held(k) : x \in created
    BY <1>1 DEF Held, StoresGenuine, CallsClean, CleanCall, Genuine
  <2> QED BY <1>1, <2>1 DEF TypeOK, Rumor
<1>7. r \in created
  BY <1>2 DEF Genuine
<1>8. r \notin Received(n)
  BY <1>2, <1>3, <1>4 DEF Received
<1>9. ASSUME NEW q \in created, q.origin = o, q.seq < r.seq
      PROVE  q \in Received(n)
  <2>1. q \in Rumor /\ q.seq \in Nat \ {0}
    BY <1>1, <1>9 DEF TypeOK, Rumor
  <2>2. q.seq \in 1 .. receivedSeq[n][o] /\ q.seq <= receivedSeq[n][o]
    BY <1>2, <1>3, <1>4, <1>9, <2>1
  <2>3. PICK x \in rumorDB[n] : x.origin = o /\ x.seq = q.seq
    BY <1>1, <1>2, <2>2 DEF NoGap
  <2>4. x = q
    BY <1>1, <1>2, <1>9, <2>3 DEF UniqueIDs, SameID, StoresGenuine, Genuine
  <2> QED BY <1>9, <2>2, <2>3, <2>4 DEF Received, Held
<1>10. Received(n)' = Received(n) \cup {r}
  <2>1. ASSUME NEW x \in Held(n) \cup {r}
        PROVE  x.seq <= receivedSeq'[n][x.origin]
                 <=> x = r \/ x.seq <= receivedSeq[n][x.origin]
    <3>1. x \in Rumor /\ x \in created /\ x.origin \in Node /\ x.seq \in Nat
      BY <1>2, <1>6, <1>7
    <3>2. CASE x.origin # o
      BY <1>2, <1>5, <3>1, <3>2
    <3>3. CASE x.origin = o /\ x.seq = r.seq
      <4>1. x = r
        BY <1>1, <1>2, <1>7, <3>1, <3>3 DEF UniqueIDs, SameID
      <4> QED BY <1>2, <1>5, <4>1
    <3>4. CASE x.origin = o /\ x.seq # r.seq
      BY <1>2, <1>3, <1>4, <1>5, <3>1, <3>4
    <3> QED BY <3>2, <3>3, <3>4
  <2>2. Received(n)' = {x \in Held(n) \cup {r} :
                          x.seq <= receivedSeq'[n][x.origin]}
    BY <1>2 DEF Received
  <2> QED BY <2>1, <2>2 DEF Received
<1>11. ASSUME NEW k \in Node, k # n PROVE Received(k)' = Received(k)
  <2>1. Held(k)' = Held(k)
    BY <1>2, <1>11
  <2>2. \A x \in Held(k) : receivedSeq'[k][x.origin] = receivedSeq[k][x.origin]
    BY <1>5, <1>6, <1>11
  <2> QED BY <2>1, <2>2 DEF Received
<1>12. Lasts' = Lasts
  <2>1. \A k \in Node : receivedSeq'[k][k] = receivedSeq[k][k]
    BY <1>2, <1>5
  <2>2. \A k \in Node : Last(k)' = Last(k)
    BY <1>2, <2>1 DEF Last, Busy
  <2> QED BY <2>2 DEF Lasts
<1> QED BY <1>2, <1>7, <1>8, <1>9, <1>10, <1>11, <1>12

\* Every step of a gossip layer with one caller per node is a step of
\* FifoBroadcast or changes nothing FifoBroadcast sees.
LEMMA StepRefines ==
  ASSUME \A k \in Node : Serial(k)
  PROVE  IInv /\ [Next]_vars => [FB!FNext]_(FB!fvars)
<1> SUFFICES ASSUME IInv, [Next]_vars PROVE [FB!FNext]_(FB!fvars)
  OBVIOUS
<1> DEFINE Stutter == UNCHANGED <<Lasts, created, Delivered>>
<1>0. TypeOK'
  BY StepType DEF IInv
<1>1. Stutter => UNCHANGED FB!fvars
  BY DEF FB!fvars, Lasts, Delivered
<1>2. CASE Quiet \/ UNCHANGED vars
  <2>1. UNCHANGED <<receivedSeq, rumorDB, call, created>>
    BY <1>2 DEF Quiet, vars
  <2>2. \A k \in Node : Last(k)' = Last(k) /\ Received(k)' = Received(k)
    BY <2>1, NodeStutters
  <2>3. Stutter
    BY <2>1, <2>2 DEF Lasts, Delivered
  <2> QED BY <1>1, <2>3
<1>3. ASSUME NEW n \in Node, NEW c \in Caller,
             Broadcast(n, c) \/ BroadcastGoesOn(n, c)
      PROVE  Stutter \/ \E m \in Msg : FB!Publish(n, m)
  <2>1. CASE \E m \in Msg : \E r :
              /\ r = [origin |-> n, seq |-> Last(n) + 1, msg |-> m]
              /\ Lasts' = [Lasts EXCEPT ![n] = @ + 1]
              /\ created' = created \cup {r}
              /\ Delivered' = [Delivered EXCEPT ![n] = @ \cup {r}]
    <3>1. PICK m \in Msg : \E r :
              /\ r = [origin |-> n, seq |-> Last(n) + 1, msg |-> m]
              /\ Lasts' = [Lasts EXCEPT ![n] = @ + 1]
              /\ created' = created \cup {r}
              /\ Delivered' = [Delivered EXCEPT ![n] = @ \cup {r}]
      BY <2>1
    <3>2. Lasts[n] = Last(n)
      BY DEF Lasts
    <3>3. FB!Publish(n, m)
      BY <3>1, <3>2 DEF FB!Publish, Lasts, Delivered
    <3> QED BY <3>3
  <2> QED BY <1>3, <2>1, CallerRefines
<1>4. ASSUME NEW n \in Node, NEW r \in NextRumors(n), expected(n, r),
             Stores(n, r), UNCHANGED receivedSeq
      PROVE  Stutter
  BY <1>0, <1>4, RejectStutters
<1>5. ASSUME NEW n \in Node, NEW r \in NextRumors(n), expected(n, r),
             Stores(n, r), Accepts(n, r)
      PROVE  r \in created /\ FB!Deliver(n, r)
  <2>1. /\ r \in created
        /\ r \notin Received(n)
        /\ \A q \in created :
             q.origin = r.origin /\ q.seq < r.seq => q \in Received(n)
        /\ Received(n)' = Received(n) \cup {r}
        /\ \A k \in Node : k # n => Received(k)' = Received(k)
        /\ UNCHANGED <<Lasts, created>>
    BY <1>0, <1>5, AcceptDelivers
  <2>2. Delivered' = [Delivered EXCEPT ![n] = @ \cup {r}]
    BY <2>1 DEF Delivered
  <2>3. Delivered[n] = Received(n)
    BY DEF Delivered
  <2> QED BY <2>1, <2>2, <2>3 DEF FB!Deliver, Lasts, Delivered
<1>6. CASE Next
  <2>1. CASE \E n \in Node : \E c \in Caller :
               Broadcast(n, c) \/ BroadcastGoesOn(n, c)
    BY <1>1, <1>3, <2>1 DEF FB!FNext
  <2>2. CASE \E n \in Node : \E r \in NextRumors(n) :
               /\ expected(n, r) /\ Stores(n, r)
               /\ UNCHANGED receivedSeq \/ Accepts(n, r)
    <3>0. PICK n \in Node : \E r \in NextRumors(n) :
               /\ expected(n, r) /\ Stores(n, r)
               /\ UNCHANGED receivedSeq \/ Accepts(n, r)
      BY <2>2
    <3>1. PICK r \in NextRumors(n) :
               /\ expected(n, r) /\ Stores(n, r)
               /\ UNCHANGED receivedSeq \/ Accepts(n, r)
      BY <3>0
    <3>2. CASE UNCHANGED receivedSeq
      BY <1>1, <1>4, <3>1, <3>2
    <3>3. CASE Accepts(n, r)
      <4>1. r \in created /\ FB!Deliver(n, r)
        BY <1>5, <3>1, <3>3
      <4> QED BY <4>1 DEF FB!FNext
    <3> QED BY <3>1, <3>2, <3>3
  <2> QED BY <1>2, <1>6, <2>1, <2>2, StepKinds
<1> QED BY <1>2, <1>6

\* With one caller of Broadcast per node the gossip layer implements first-in
\* first-out broadcast, for every set of nodes, topology, queue capacity, loss
\* and outcome of the handlers.
THEOREM GossipImplementsFifoBroadcast ==
  ASSUME \A n \in Node : Serial(n)
  PROVE  Spec => ImplementsFifoBroadcast
<1>1. Init => FB!FInit
  BY DEF Init, FB!FInit, Last, Busy, Received, Held, Returned, NoView
<1>2. IInv /\ [Next]_vars => [FB!FNext]_(FB!fvars)
  BY StepRefines
<1> QED BY <1>1, <1>2, Inductive, PTL
        DEF Spec, ImplementsFifoBroadcast, FB!FSpec
=============================================================================
