---------------------------- MODULE GossipProofs ----------------------------
(***************************************************************************)
(* Proofs about Gossip, for every set of nodes and messages, every         *)
(* topology, every queue capacity and every outcome of the handlers.       *)
(***************************************************************************)
EXTENDS Gossip, TLAPS

-----------------------------------------------------------------------------
(* The operators the actions are built from. *)

\* Socket.Send adds at most the packet sent to the queues.
LEMMA SendAdds ==
  ASSUME NEW q, NEW p
  PROVE  /\ Send(q, p) \subseteq q \cup {p}
         /\ q \subseteq Send(q, p)
BY DEF Send

\* storeRumor never drops a rumor, adds at most its argument, and leaves a
\* rumor with the identity of its argument in the database.
LEMMA StoreAdds ==
  ASSUME NEW db, NEW r
  PROVE  /\ db \subseteq storeRumor(db, r)
         /\ storeRumor(db, r) \subseteq db \cup {r}
         /\ \E q \in storeRumor(db, r) : q.origin = r.origin /\ q.seq = r.seq
BY DEF storeRumor

\* createTransportPacket builds packets of the right shape, and an idle
\* listener and a waiter have the right shape too.
LEMMA RumorsTypes ==
  ASSUME NEW n \in Node, NEW d \in Node, NEW rs \in SUBSET Rumor
  PROVE  /\ rumorsPkt(n, d, rs) \in Packet
         /\ Wait(n, d, rs) \in SUBSET Waiter
BY DEF rumorsPkt, Packet, NoView, View, Wait, Waiter

\* sendStatusMessage and sendAckMessage build packets of the right shape.
LEMMA StatusTypes ==
  ASSUME NEW n \in Node, NEW d \in Node, NEW rs \in SUBSET Rumor, NEW v \in View
  PROVE  /\ statusPkt(n, d, v) \in Packet
         /\ ackPkt(n, d, rs, v) \in Packet
BY DEF statusPkt, ackPkt, Packet

\* A listener that has left handleRumor is a well-formed job.
LEMMA IdleType == \A n \in Node : Idle(n) \in Job
BY DEF Idle, Job

\* The missing rumors are stored rumors.
LEMMA MissingStored ==
  ASSUME NEW n, NEW v
  PROVE  getMissingRumors(n, v) \subseteq rumorDB[n]
BY DEF getMissingRumors

\* Whatever the views say, the listener answers a status with its own status
\* and with stored rumors, and with nothing else.
LEMMA RepliesAdd ==
  ASSUME NEW q, NEW n, NEW src, NEW v,
         NEW res \in StatusReplies(q, n, src, v)
  PROVE  res \subseteq q \cup {rumorsPkt(n, src, getMissingRumors(n, v))}
                      \cup {statusPkt(n, d, receivedSeq[n]) :
                              d \in directPeers[n] \cup {src}}
<1> DEFINE status == statusPkt(n, src, receivedSeq[n])
           missing == getMissingRumors(n, v)
           q1 == IF newRemote(n, v) THEN Send(q, status) ELSE q
           q2 == IF newLocal(n, v) /\ missing # {}
                 THEN Send(q1, rumorsPkt(n, src, missing)) ELSE q1
<1>1. q1 \subseteq q \cup {status}
  BY SendAdds
<1>2. q2 \subseteq q1 \cup {rumorsPkt(n, src, missing)}
  BY SendAdds
<1>3. CASE newRemote(n, v) \/ newLocal(n, v)
  <2>1. res = q2
    BY <1>3 DEF StatusReplies, createStatusMessage
  <2> QED BY <2>1, <1>1, <1>2
<1>4. CASE ~(newRemote(n, v) \/ newLocal(n, v))
  <2>1. \/ res = q
        \/ \E d \in getOtherNeighbors(n, src) :
             res = Send(q, statusPkt(n, d, receivedSeq[n]))
    BY <1>4 DEF StatusReplies, createStatusMessage
  <2>2. ASSUME NEW d \in getOtherNeighbors(n, src),
               res = Send(q, statusPkt(n, d, receivedSeq[n]))
        PROVE  res \subseteq q \cup {statusPkt(n, d, receivedSeq[n])}
                 /\ d \in directPeers[n]
    BY <2>2, SendAdds DEF getOtherNeighbors
  <2> QED BY <2>1, <2>2
<1> QED BY <1>3, <1>4

\* Sending rumors and waiting for the ack keeps the types of net and waiters.
LEMMA SendAndWaitType ==
  ASSUME TypeOK, NEW n \in Node, NEW d \in Node, NEW rs \in SUBSET Rumor,
         NEW others \in SUBSET Waiter, NEW q \in SUBSET Packet,
         SendAndWait(q, n, d, rs, others)
  PROVE  /\ net' \in SUBSET Packet
         /\ waiters' \in [Node -> SUBSET Waiter]
<1> DEFINE p == rumorsPkt(n, d, rs)
           new == IF CanSend(q, p) THEN Wait(n, d, rs) ELSE {}
<1>1. p \in Packet /\ Wait(n, d, rs) \in SUBSET Waiter
  BY RumorsTypes
<1>2. net' = Send(q, p) /\ waiters' = [waiters EXCEPT ![n] = others \cup new]
  BY DEF SendAndWait
<1>3. net' \in SUBSET Packet
  BY <1>1, <1>2, SendAdds
<1>4. others \cup new \in SUBSET Waiter
  BY <1>1
<1> QED
  <2> HIDE DEF new, p
  <2> QED BY <1>2, <1>3, <1>4 DEF TypeOK

\* A waiter that times out keeps them too.
LEMMA ResendsType ==
  ASSUME TypeOK, NEW n \in Node, NEW w \in waiters[n],
         NEW q \in SUBSET Packet, Resends(q, n, w)
  PROVE  /\ net' \in SUBSET Packet
         /\ waiters' \in [Node -> SUBSET Waiter]
<1>1. CASE net' = q /\ waiters' = [waiters EXCEPT ![n] = @ \ {w}]
  BY <1>1 DEF TypeOK
<1>2. ASSUME NEW d \in getOtherNeighbors(n, w.to),
             SendAndWait(q, n, d, w.rumors, waiters[n] \ {w})
      PROVE  net' \in SUBSET Packet /\ waiters' \in [Node -> SUBSET Waiter]
  <2>1. w \in Waiter
    BY DEF TypeOK
  <2>2. /\ d \in Node /\ w.rumors \in SUBSET Rumor
        /\ waiters[n] \ {w} \in SUBSET Waiter
    BY <2>1 DEF TypeOK, getOtherNeighbors, Waiter
  <2> QED BY <1>2, <2>2, SendAndWaitType
<1> QED BY <1>1, <1>2 DEF Resends

\* A step of a caller keeps the type of call if the call stays well formed.
LEMMA CallType ==
  ASSUME TypeOK, NEW n \in Node, NEW c \in Caller, NEW x \in Call,
         CallGoes(n, c, x)
  PROVE  call' \in [Node -> [Caller -> Call]]
BY DEF TypeOK, CallGoes

-----------------------------------------------------------------------------
(* Type correctness. *)

\* NewPeer gives every variable a value of its type.
LEMMA InitType == Init => TypeOK
<1>1. \A n \in Node : Returned(0) \in Call /\ Idle(n) \in Job
  BY IdleType DEF Returned, Call
<1> QED BY <1>1, GossipAssumption DEF Init, TypeOK, NoView, View

\* Every step of every goroutine keeps the types.
LEMMA StepType == TypeOK /\ Numbered /\ [Next]_vars => TypeOK'
<1> SUFFICES ASSUME TypeOK, Numbered, [Next]_vars PROVE TypeOK'
  OBVIOUS
<1>1. ASSUME NEW n \in Node, NEW a \in LatePeer[n], AddPeer(n, a) PROVE TypeOK'
  BY <1>1, GossipAssumption DEF TypeOK, AddPeer
<1>2. ASSUME NEW n \in Node, NEW c \in Caller, Broadcast(n, c) PROVE TypeOK'
  <2>0. call[n][c] \in Call /\ seqNumber[n] \in Nat
    BY DEF TypeOK
  <2>1. [pc |-> "read", made |-> call[n][c].made + 1, cur |-> seqNumber[n],
         own |-> {}, list |-> {}] \in Call
    BY <2>0 DEF Call
  <2>2. call' \in [Node -> [Caller -> Call]]
    BY <1>2, <2>1, CallType DEF Broadcast
  <2> QED BY <1>2, <2>2 DEF TypeOK, Broadcast
<1>3. ASSUME NEW n \in Node, NEW c \in Caller, BroadcastGoesOn(n, c)
      PROVE  TypeOK'
  <2>0. call[n][c] \in Call
    BY DEF TypeOK
  <2>1. CASE updateSeqNumber(n, c)
    <3>1. [call[n][c] EXCEPT !.pc = "written"] \in Call /\ call[n][c].cur \in Nat
      BY <2>0 DEF Call
    <3>2. call' \in [Node -> [Caller -> Call]]
      BY <2>1, <3>1, CallType DEF updateSeqNumber
    <3>3. seqNumber' \in [Node -> Nat]
      BY <2>1, <3>1 DEF TypeOK, updateSeqNumber
    <3> QED BY <2>1, <3>2, <3>3 DEF TypeOK, updateSeqNumber
  <2>2. CASE announceOwn(n, c)
    <3>1. [call[n][c] EXCEPT !.pc = "announced"] \in Call /\ call[n][c].cur \in Nat
      BY <2>0 DEF Call
    <3>2. call' \in [Node -> [Caller -> Call]]
      BY <2>2, <3>1, CallType DEF announceOwn
    <3>3. receivedSeq' \in [Node -> View]
      BY <2>2, <3>1 DEF TypeOK, announceOwn, View
    <3> QED BY <2>2, <3>2, <3>3 DEF TypeOK, announceOwn
  <2>3. ASSUME NEW m \in Msg, createRumor(n, c, m) PROVE TypeOK'
    <3> DEFINE r == [origin |-> n, seq |-> seqNumber[n], msg |-> m]
    <3>1. r \in Rumor
      <4>1. call[n][c].pc = "announced"
        BY <2>3 DEF createRumor, At
      <4>2. seqNumber[n] \in Nat /\ seqNumber[n] > 0
        BY <4>1 DEF TypeOK, Numbered
      <4> QED BY <4>2 DEF Rumor
    <3>2. [call[n][c] EXCEPT !.pc = "built", !.own = {r}] \in Call
      BY <2>0, <3>1 DEF Call
    <3>3. call' \in [Node -> [Caller -> Call]]
      BY <2>3, <3>2, CallType DEF createRumor
    <3> QED BY <2>3, <3>1, <3>3 DEF TypeOK, createRumor
  <2>4. CASE storeRumorGet(n, c)
    <3>1. [call[n][c] EXCEPT !.pc = "storing",
             !.list = {q \in rumorDB[n] : q.origin = n}] \in Call
      <4>1. {q \in rumorDB[n] : q.origin = n} \in SUBSET Rumor
        BY DEF TypeOK
      <4> QED BY <2>0, <4>1 DEF Call
    <3>2. call' \in [Node -> [Caller -> Call]]
      BY <2>4, <3>1, CallType DEF storeRumorGet
    <3> QED BY <2>4, <3>2 DEF TypeOK, storeRumorGet
  <2>5. CASE storeRumorAdd(n, c)
    <3>1. PICK r \in call[n][c].own : storeRumorAdd(n, c)!2!(r)
      BY <2>5 DEF storeRumorAdd
    <3>2. /\ r \in Rumor /\ call[n][c].list \in SUBSET Rumor
          /\ call[n][c].made \in Nat
      BY <2>0 DEF Call
    <3>3. storeRumor(call[n][c].list, r) \in SUBSET Rumor
      BY <3>2, StoreAdds
    <3>4. rumorDB' \in [Node -> SUBSET Rumor] /\ outbox' \in [Node -> SUBSET Rumor]
      BY <3>1, <3>2, <3>3 DEF TypeOK
    <3>5. Returned(call[n][c].made) \in Call
      BY <3>2 DEF Returned, Call
    <3>6. call' \in [Node -> [Caller -> Call]]
      BY <2>5, <3>5, CallType DEF storeRumorAdd
    <3> QED BY <2>5, <3>4, <3>6 DEF TypeOK, storeRumorAdd
  <2> QED BY <1>3, <2>1, <2>2, <2>3, <2>4, <2>5 DEF BroadcastGoesOn
<1>4. ASSUME NEW n \in Node, broadCastRoutine(n) PROVE TypeOK'
  <2>1. PICK r \in outbox[n] : broadCastRoutine(n)!(r)
    BY <1>4 DEF broadCastRoutine
  <2>2. net' \in SUBSET Packet /\ waiters' \in [Node -> SUBSET Waiter]
    <3>1. CASE UNCHANGED <<net, waiters>>
      BY <3>1 DEF TypeOK
    <3>2. ASSUME NEW d \in getNeighbors(n), SendAndWait(net, n, d, {r}, waiters[n])
          PROVE  net' \in SUBSET Packet /\ waiters' \in [Node -> SUBSET Waiter]
      <4>1. /\ d \in Node /\ {r} \in SUBSET Rumor
            /\ waiters[n] \in SUBSET Waiter /\ net \in SUBSET Packet
        BY DEF TypeOK, getNeighbors
      <4> QED BY <3>2, <4>1, SendAndWaitType
    <3> QED BY <2>1, <3>1, <3>2
  <2> QED BY <2>1, <2>2 DEF TypeOK
<1>5. ASSUME NEW n \in Node, NEW w \in waiters[n],
             waitForAckTimeout(n, w) \/ waitForAckReceived(n, w)
      PROVE  TypeOK'
  <2>1. CASE waitForAckTimeout(n, w)
    <3>1. net' \in SUBSET Packet /\ waiters' \in [Node -> SUBSET Waiter]
      BY <2>1, ResendsType DEF waitForAckTimeout, TypeOK
    <3> QED BY <2>1, <3>1 DEF TypeOK, waitForAckTimeout
  <2>2. CASE waitForAckReceived(n, w)
    BY <2>2 DEF TypeOK, waitForAckReceived
  <2> QED BY <1>5, <2>1, <2>2
<1>6. ASSUME NEW n \in Node, NEW d \in Node, sendRandomStatusMessage(n, d)
      PROVE  TypeOK'
  <2>1. statusPkt(n, d, receivedSeq[n]) \in Packet
    BY StatusTypes DEF TypeOK
  <2>2. net' \in SUBSET Packet
    BY <1>6, <2>1, SendAdds
    DEF TypeOK, sendRandomStatusMessage, createStatusMessage
  <2> QED BY <1>6, <2>2 DEF TypeOK, sendRandomStatusMessage
<1>7. ASSUME NEW n \in Node, NEW p \in net,
             net' \in StatusReplies(net \ {p}, n, p.src, p.view)
      PROVE  net' \in SUBSET Packet
  <2> USE <1>7
  <2>1. p.src \in Node /\ directPeers[n] \in SUBSET Node
    BY DEF TypeOK, Packet
  <2>2. getMissingRumors(n, p.view) \in SUBSET Rumor
    BY MissingStored DEF TypeOK
  <2>3. rumorsPkt(n, p.src, getMissingRumors(n, p.view)) \in Packet
    BY <2>1, <2>2, RumorsTypes
  <2>4. \A d \in directPeers[n] \cup {p.src} :
          statusPkt(n, d, receivedSeq[n]) \in Packet
    BY <2>1, StatusTypes DEF TypeOK
  <2>5. net \ {p} \subseteq Packet
    BY DEF TypeOK
  <2> QED BY <2>3, <2>4, <2>5, RepliesAdd
<1>8. ASSUME NEW n \in Node, NEW p \in net, handlePacket(n, p) PROVE TypeOK'
  <2>1. CASE handleStatusMessage(n, p)
    BY <2>1, <1>7 DEF TypeOK, handleStatusMessage
  <2>2. CASE handleAckMessage(n, p)
    <3>1. net' \in SUBSET Packet /\ waiters' \in [Node -> SUBSET Waiter]
      <4>1. ASSUME NEW w \in waiters[n]
            PROVE  [w EXCEPT !.acked = TRUE] \in Waiter
        <5>1. w \in Waiter
          BY DEF TypeOK
        <5> QED BY <5>1 DEF Waiter
      <4>2. CASE UNCHANGED waiters
                 /\ net' \in StatusReplies(net \ {p}, n, p.src, p.view)
        BY <4>2, <1>7 DEF TypeOK
      <4>3. ASSUME NEW w \in waiters[n],
                   waiters' = [waiters EXCEPT
                     ![n] = (@ \ {w}) \cup {[w EXCEPT !.acked = TRUE]}],
                   net' \in StatusReplies(net \ {p}, n, p.src, p.view)
            PROVE  net' \in SUBSET Packet /\ waiters' \in [Node -> SUBSET Waiter]
        <5>1. PICK v \in Waiter : v = [w EXCEPT !.acked = TRUE]
          BY <4>1
        <5>2. waiters' = [waiters EXCEPT ![n] = (waiters[n] \ {w}) \cup {v}]
          BY <4>3, <5>1
        <5>3. net' \in SUBSET Packet
          BY <4>3, <1>7
        <5>4. (waiters[n] \ {w}) \cup {v} \in SUBSET Waiter
          BY DEF TypeOK
        <5> QED BY <5>2, <5>3, <5>4 DEF TypeOK
      <4>4. ASSUME NEW w \in waiters[n],
                   waiters' = [waiters EXCEPT ![n] = @ \ {w}],
                   \/ net' \in StatusReplies(net \ {p}, n, p.src, p.view)
                   \/ net' = net \ {p}
            PROVE  net' \in SUBSET Packet /\ waiters' \in [Node -> SUBSET Waiter]
        BY <4>4, <1>7 DEF TypeOK
      <4>5. ASSUME NEW w \in waiters[n], Resends(net \ {p}, n, w)
            PROVE  net' \in SUBSET Packet /\ waiters' \in [Node -> SUBSET Waiter]
        <5>1. net \ {p} \in SUBSET Packet
          BY DEF TypeOK
        <5> QED BY <4>5, <5>1, ResendsType
      <4> QED BY <2>2, <4>2, <4>3, <4>4, <4>5 DEF handleAckMessage
    <3> QED BY <2>2, <3>1 DEF TypeOK, handleAckMessage
  <2>3. CASE recvRumors(n, p)
    <3>1. p \in Packet
      BY DEF TypeOK
    <3>2. [active |-> TRUE, src |-> p.src, rumors |-> p.rumors,
           todo |-> p.rumors, processed |-> FALSE] \in Job
      BY <3>1 DEF Packet, Job
    <3> QED BY <2>3, <3>2 DEF TypeOK, recvRumors
  <2> QED BY <1>8, <2>1, <2>2, <2>3 DEF handlePacket
<1>9. ASSUME NEW n \in Node, handleRumor(n) PROVE TypeOK'
  <2>1. job[n] \in Job /\ NextRumors(n) \subseteq Rumor /\ Idle(n) \in Job
    BY IdleType DEF TypeOK, Job, NextRumors
  <2>2. CASE skipRumor(n)
    <3>1. \A r : Taken(job[n], r, job[n].processed) \in Job
      BY <2>1 DEF Job, Taken
    <3> QED BY <2>2, <3>1 DEF TypeOK, skipRumor
  <2>3. CASE rejectRumor(n)
    <3>1. PICK r \in NextRumors(n) : rejectRumor(n)!(r)
      BY <2>3 DEF rejectRumor
    <3>2. storeRumor(rumorDB[n], r) \in SUBSET Rumor
      BY <2>1, StoreAdds DEF TypeOK
    <3> QED BY <2>1, <3>1, <3>2 DEF TypeOK
  <2>4. CASE acceptRumor(n)
    <3>1. PICK r \in NextRumors(n) : acceptRumor(n)!(r)
      BY <2>4 DEF acceptRumor
    <3> DEFINE view == [receivedSeq[n] EXCEPT ![r.origin] = r.seq]
               ack == ackPkt(n, job[n].src, job[n].rumors, view)
    <3>2. r \in Rumor /\ storeRumor(rumorDB[n], r) \in SUBSET Rumor
      BY <2>1, StoreAdds DEF TypeOK
    <3>3. view \in View
      BY <3>2 DEF TypeOK, View, Rumor
    <3>4. job[n].src \in Node /\ job[n].rumors \in SUBSET Rumor
      BY <2>1 DEF Job
    <3>5. ack \in Packet
      BY <3>3, <3>4, StatusTypes
    <3>6. net' \in SUBSET Packet
      <4>1. net' = Send(net, ack)
        BY <3>1
      <4> QED BY <4>1, <3>5, SendAdds DEF TypeOK
    <3>7. receivedSeq' \in [Node -> View]
      <4>1. receivedSeq' = [receivedSeq EXCEPT ![n] = view]
        BY <3>1
      <4> HIDE DEF view
      <4> QED BY <4>1, <3>3 DEF TypeOK
    <3>8. job' \in [Node -> Job]
      <4>1. Taken(job[n], r, TRUE) \in Job
        BY <2>1 DEF Job, Taken
      <4> HIDE DEF ack, view
      <4> QED BY <2>1, <3>1, <4>1 DEF TypeOK
    <3>9. routingTable' \in [Node -> [Node -> Node \cup {NoRoute}]]
      BY <3>1, <3>2, <3>4 DEF TypeOK, Rumor
    <3> QED BY <3>1, <3>2, <3>6, <3>7, <3>8, <3>9 DEF TypeOK
  <2>5. CASE forwardRumorsMessage(n)
    <3>1. net' \in SUBSET Packet /\ waiters' \in [Node -> SUBSET Waiter]
      <4>1. CASE UNCHANGED <<net, waiters>>
        BY <4>1 DEF TypeOK
      <4>2. ASSUME NEW d \in getOtherNeighbors(n, job[n].src),
                   SendAndWait(net, n, d, job[n].rumors, waiters[n])
            PROVE  net' \in SUBSET Packet /\ waiters' \in [Node -> SUBSET Waiter]
        <5>1. /\ d \in Node /\ job[n].rumors \in SUBSET Rumor
              /\ waiters[n] \in SUBSET Waiter /\ net \in SUBSET Packet
          BY <2>1 DEF TypeOK, Job, getOtherNeighbors
        <5> QED BY <4>2, <5>1, SendAndWaitType
      <4> QED BY <2>5, <4>1, <4>2 DEF forwardRumorsMessage
    <3> QED BY <2>1, <2>5, <3>1 DEF TypeOK, forwardRumorsMessage
  <2> QED BY <1>9, <2>2, <2>3, <2>4, <2>5 DEF handleRumor
<1>10. ASSUME NEW p \in net, losePacket(p) PROVE TypeOK'
  BY <1>10 DEF TypeOK, losePacket
<1>11. CASE UNCHANGED vars
  BY <1>11 DEF TypeOK, vars
<1> QED
  BY <1>1, <1>2, <1>3, <1>4, <1>5, <1>6, <1>8, <1>9, <1>10, <1>11 DEF Next

\* A step of one caller leaves the calls of the others alone.
LEMMA CallerAlone ==
  ASSUME TypeOK, NEW n \in Node, NEW c \in Caller,
         Broadcast(n, c) \/ BroadcastGoesOn(n, c)
  PROVE  \A k \in Node : \A d \in Caller :
           k # n \/ d # c => call'[k][d] = call[k][d]
<1>1. ASSUME NEW x, CallGoes(n, c, x)
      PROVE  \A k \in Node : \A d \in Caller :
               k # n \/ d # c => call'[k][d] = call[k][d]
  BY <1>1 DEF TypeOK, CallGoes
<1> QED
  BY <1>1 DEF Broadcast, BroadcastGoesOn, updateSeqNumber, announceOwn,
              createRumor, storeRumorGet, storeRumorAdd

\* A step that leaves the counters and the calls alone, or takes one caller on.
LEMMA StepNumbered == TypeOK /\ Numbered /\ [Next]_vars => Numbered'
<1> SUFFICES ASSUME TypeOK, Numbered, [Next]_vars PROVE Numbered'
  OBVIOUS
<1>1. CASE UNCHANGED <<seqNumber, call>>
  BY <1>1 DEF Numbered
<1>2. ASSUME NEW n \in Node, NEW c \in Caller,
             Broadcast(n, c) \/ BroadcastGoesOn(n, c)
      PROVE  Numbered'
  <2>1. \A k \in Node : seqNumber[k] > 0 => seqNumber'[k] > 0
    <3>1. CASE updateSeqNumber(n, c)
      <4>1. call[n][c].cur \in Nat
        BY DEF TypeOK, Call
      <4> QED BY <3>1, <4>1 DEF TypeOK, updateSeqNumber
    <3>2. CASE ~updateSeqNumber(n, c)
      BY <1>2, <3>2 DEF Broadcast, BroadcastGoesOn, announceOwn, createRumor,
                        storeRumorGet, storeRumorAdd
    <3> QED BY <3>1, <3>2
  <2>2. \A k \in Node : \A d \in Caller :
          k # n \/ d # c => call'[k][d] = call[k][d]
    BY <1>2, CallerAlone
  <2>3. call'[n][c].pc \notin {"idle", "read"} => seqNumber'[n] > 0
    <3>0. call[n][c] \in Call /\ call' \in [Node -> [Caller -> Call]]
      BY StepType DEF TypeOK
    <3>1. CASE Broadcast(n, c)
      BY <3>0, <3>1 DEF TypeOK, Call, CallGoes, Broadcast
    <3>2. CASE updateSeqNumber(n, c)
      BY <3>0, <3>2 DEF TypeOK, Call, updateSeqNumber
    <3>3. CASE ~Broadcast(n, c) /\ ~updateSeqNumber(n, c)
      <4>1. call[n][c].pc \notin {"idle", "read"}
        BY <1>2, <3>3 DEF BroadcastGoesOn, announceOwn, createRumor,
                          storeRumorGet, storeRumorAdd, At
      <4> QED BY <2>1, <4>1 DEF Numbered
    <3> QED BY <3>1, <3>2, <3>3
  <2> QED BY <2>1, <2>2, <2>3 DEF Numbered
<1>3. Next => \/ UNCHANGED <<seqNumber, call>>
              \/ \E n \in Node : \E c \in Caller :
                   Broadcast(n, c) \/ BroadcastGoesOn(n, c)
  BY DEF Next, AddPeer, broadCastRoutine, waitForAckTimeout,
         waitForAckReceived, sendRandomStatusMessage, handlePacket,
         handleStatusMessage, handleAckMessage, recvRumors, handleRumor,
         skipRumor, rejectRumor, acceptRumor, forwardRumorsMessage, losePacket
<1> QED BY <1>1, <1>2, <1>3 DEF vars

\* Type correctness of the gossip layer: every variable keeps its shape through
\* every interleaving of Broadcast, the listener, the waiters and the ticker.
THEOREM TypeCorrect == Spec => []TypeOK
<1>1. Init => Numbered
  BY DEF Init, Numbered, Returned
<1> QED BY <1>1, InitType, StepType, StepNumbered, PTL DEF Spec

-----------------------------------------------------------------------------
(* The inductive invariant. *)

\* The created rumors only grow in number, and so do the views, except the own
\* entry of a node with several callers.
Grows ==
  /\ created \subseteq created'
  /\ \A n, o \in Node :
       n # o \/ Serial(n) => receivedSeq[n][o] <= receivedSeq'[n][o]

\* A packet in flight keeps its promises while its sender's view grows.
LEMMA HonestStays ==
  ASSUME TypeOK, TypeOK', Grows, NEW p \in Packet, Honest(p)
  PROVE  Honest(p)'
<1>1. p.rumors \in SUBSET Rumor /\ p.src \in Node /\ p.view \in View
  BY DEF Packet
<1>2. \A r \in p.rumors : Genuine(r)'
  BY DEF Honest, Genuine, Grows
<1>3. \A o \in Node : o # p.src \/ Serial(o) =>
        p.view[o] <= receivedSeq'[p.src][o]
  <2> SUFFICES ASSUME NEW o \in Node, o # p.src \/ Serial(o)
               PROVE  p.view[o] <= receivedSeq'[p.src][o]
    OBVIOUS
  <2>1. p.view[o] <= receivedSeq[p.src][o]
    BY DEF Honest
  <2>2. receivedSeq[p.src][o] <= receivedSeq'[p.src][o]
    BY <1>1 DEF Grows
  <2>3. /\ p.view[o] \in Nat /\ receivedSeq[p.src][o] \in Nat
        /\ receivedSeq'[p.src][o] \in Nat
    BY <1>1 DEF TypeOK, View
  <2> QED BY <2>1, <2>2, <2>3
<1>4. ASSUME p.type = "ack"
      PROVE  \E r \in p.rumors : Accepted(p.src, r)'
  <2>1. PICK r \in p.rumors : Accepted(p.src, r)
    BY <1>4 DEF Honest
  <2>2. r.seq \in Nat /\ r.origin \in Node
    BY <1>1 DEF Rumor
  <2>3. Accepted(p.src, r)'
    BY <1>1, <2>1, <2>2 DEF Accepted, Grows, TypeOK, View
  <2> QED BY <2>3
<1> QED BY <1>2, <1>3, <1>4 DEF Honest

\* A step that only moves packets, waiters and jobs keeps the invariant if what
\* it adds is honest and clean.
LEMMA QuietStep ==
  ASSUME IInv, TypeOK',
         UNCHANGED <<seqNumber, receivedSeq, rumorDB, call, created>>,
         \A p \in net' : p \in net \/ Honest(p),
         \A n \in Node : outbox'[n] \subseteq outbox[n],
         \A n \in Node : \A w \in waiters'[n] : CleanWaiter(w),
         \A n \in Node : CleanJob(job'[n])
  PROVE  IInv'
<1>1. \A r : Genuine(r)' <=> Genuine(r)
  BY DEF Genuine
<1>2. \A p : Honest(p)' <=> Honest(p)
  BY <1>1 DEF Honest, Accepted
<1>3. PacketsHonest'
  BY <1>2 DEF PacketsHonest, IInv
<1>4. WaitersClean' /\ JobsClean'
  BY <1>1 DEF WaitersClean, CleanWaiter, JobsClean, CleanJob
<1>5. StoresGenuine' /\ CallsClean' /\ Numbered'
  BY <1>1 DEF IInv, StoresGenuine, CallsClean, CleanCall, Numbered
<1>6. OwnNumbers' /\ UniqueIDs'
  BY DEF IInv, OwnNumbers, NumbersRight, Busy, CallNumbers, UniqueIDs, SameID
<1>7. NoGap' /\ NoPhantom'
  BY DEF IInv, NoGap, Announced, NoPhantom
<1> QED BY <1>3, <1>4, <1>5, <1>6, <1>7 DEF IInv

\* A step that makes databases or views grow keeps what is in flight honest.
LEMMA GrowStep ==
  ASSUME IInv, TypeOK', Grows,
         \A p \in net' : p \in net \/ Honest(p)',
         UNCHANGED waiters,
         \A n \in Node : /\ job'[n].todo \subseteq job'[n].rumors
                         /\ job'[n].rumors \subseteq job[n].rumors
  PROVE  PacketsHonest' /\ WaitersClean' /\ JobsClean'
<1>1. PacketsHonest'
  BY HonestStays DEF IInv, PacketsHonest, TypeOK
<1>2. WaitersClean'
  BY DEF IInv, WaitersClean, CleanWaiter, Genuine, Grows
<1>3. JobsClean'
  BY DEF IInv, JobsClean, CleanJob, Genuine, Grows
<1> QED BY <1>1, <1>2, <1>3

\* An own status and stored rumors are honest things to send.
LEMMA HonestSends ==
  ASSUME IInv, NEW n \in Node, NEW d \in Node
  PROVE  /\ Honest(statusPkt(n, d, receivedSeq[n]))
         /\ \A rs \in SUBSET Rumor : (\A r \in rs : Genuine(r)) =>
              /\ Honest(rumorsPkt(n, d, rs))
              /\ \A w \in Wait(n, d, rs) : CleanWaiter(w)
<1>1. receivedSeq[n] \in [Node -> Nat]
  BY DEF IInv, TypeOK, View
<1> QED
  BY <1>1 DEF Honest, statusPkt, rumorsPkt, NoView, Wait, CleanWaiter

\* NewPeer establishes the inductive invariant.
LEMMA InitIInv == Init => IInv
<1> SUFFICES ASSUME Init PROVE IInv
  OBVIOUS
<1>1. TypeOK
  BY InitType
<1>2. StoresGenuine /\ WaitersClean /\ PacketsHonest /\ UniqueIDs
  BY DEF Init, StoresGenuine, WaitersClean, PacketsHonest, UniqueIDs
<1>3. JobsClean /\ CallsClean /\ Numbered
  BY DEF Init, JobsClean, CleanJob, Idle, CallsClean, CleanCall, Returned, Numbered
<1>4. NoPhantom
  BY DEF Init, NoPhantom, NoView
<1>5. OwnNumbers
  BY DEF Init, OwnNumbers, NumbersRight, Busy, CallNumbers, Returned, NoView
<1>6. NoGap
  BY DEF Init, NoGap, NoView
<1> QED BY <1>1, <1>2, <1>3, <1>4, <1>5, <1>6 DEF IInv

\* The steps that send rumors and wait for the ack.
LEMMA SendAndWaitKeeps ==
  ASSUME IInv, TypeOK',
         UNCHANGED <<seqNumber, receivedSeq, rumorDB, call, created>>,
         NEW n \in Node, NEW d \in Node, NEW rs \in SUBSET Rumor,
         \A r \in rs : Genuine(r),
         NEW others \in SUBSET waiters[n], NEW q \in SUBSET net,
         SendAndWait(q, n, d, rs, others),
         \A k \in Node : outbox'[k] \subseteq outbox[k],
         \A k \in Node : CleanJob(job'[k])
  PROVE  IInv'
<1> DEFINE p == rumorsPkt(n, d, rs)
           new == IF CanSend(q, p) THEN Wait(n, d, rs) ELSE {}
<1>1. Honest(p) /\ \A w \in Wait(n, d, rs) : CleanWaiter(w)
  BY HonestSends
<1>2. net' \subseteq net \cup {p}
  BY SendAdds DEF SendAndWait
<1>3. \A k \in Node : \A w \in waiters'[k] : CleanWaiter(w)
  <2>1. waiters' = [waiters EXCEPT ![n] = others \cup new]
    BY DEF SendAndWait
  <2>2. \A w \in others \cup new : CleanWaiter(w)
    BY <1>1 DEF IInv, WaitersClean
  <2> HIDE DEF new
  <2> QED BY <2>1, <2>2 DEF IInv, TypeOK, WaitersClean
<1>4. \A x \in net' : x \in net \/ Honest(x)
  BY <1>1, <1>2
<1> QED BY <1>3, <1>4, QuietStep

\* A waiter that times out and resends.
LEMMA ResendsKeeps ==
  ASSUME IInv, TypeOK',
         UNCHANGED <<seqNumber, receivedSeq, rumorDB, call, created, outbox, job>>,
         NEW n \in Node, NEW w \in waiters[n], NEW q \in SUBSET net,
         Resends(q, n, w)
  PROVE  IInv'
<1>1. /\ \A k \in Node : CleanJob(job'[k])
      /\ \A k \in Node : \A v \in waiters[k] : CleanWaiter(v)
  BY DEF IInv, JobsClean, WaitersClean
<1>2. w \in Waiter /\ CleanWaiter(w)
  BY <1>1 DEF IInv, TypeOK
<1>3. CASE net' = q /\ waiters' = [waiters EXCEPT ![n] = @ \ {w}]
  <2>1. \A k \in Node : \A v \in waiters'[k] : CleanWaiter(v)
    BY <1>1, <1>3 DEF IInv, TypeOK
  <2> QED BY <1>1, <1>3, <2>1, QuietStep
<1>4. ASSUME NEW d \in getOtherNeighbors(n, w.to),
             SendAndWait(q, n, d, w.rumors, waiters[n] \ {w})
      PROVE  IInv'
  <2>1. /\ d \in Node /\ w.rumors \in SUBSET Rumor
        /\ \A r \in w.rumors : Genuine(r)
        /\ waiters[n] \ {w} \in SUBSET waiters[n]
    BY <1>2 DEF IInv, TypeOK, getOtherNeighbors, Waiter, CleanWaiter
  <2> QED BY <1>1, <1>4, <2>1, SendAndWaitKeeps
<1> QED BY <1>3, <1>4 DEF Resends

-----------------------------------------------------------------------------
(* The callers of Broadcast.  While a node has one caller, its numbers are *)
(* right iff they are right for that caller's call x.                      *)

SoleNumbers(n, x, seq, last, db, rumors) ==
  /\ seq = IF x.pc = "written" THEN last + 1 ELSE last
  /\ x.pc = "read" => x.cur = seq
  /\ x.pc \notin {"idle", "read"} => x.cur + 1 = seq
  /\ \A r \in x.own : r.seq = seq
  /\ x.pc = "storing" => x.list = {q \in db : q.origin = n}
  /\ \A r \in rumors : r.origin = n =>
       /\ r.seq <= seq
       /\ x.pc \in {"written", "announced"} => r.seq < seq
       /\ r \in db \/ r \in x.own
  /\ \A r \in db : r.origin = n /\ x.pc \in {"built", "storing"} => r.seq < seq

GapFree(n, x, last, db) ==
  \A s \in 1 .. last :
    \/ \E r \in db : r.origin = n /\ r.seq = s
    \/ x.pc \in {"announced", "built", "storing"} /\ s = x.cur + 1

SoleRight(n, c) ==
  /\ SoleNumbers(n, call[n][c], seqNumber[n], receivedSeq[n][n], rumorDB[n],
                 created)
  /\ GapFree(n, call[n][c], receivedSeq[n][n], rumorDB[n])
OwnGapFree(n) ==
  \A s \in 1 .. receivedSeq[n][n] :
    (\E r \in rumorDB[n] : r.origin = n /\ r.seq = s) \/ Announced(n, s)

\* The other goroutines of a node with one caller are not in Broadcast.
LEMMA OtherCallers ==
  ASSUME IInv, NEW n \in Node, NEW c \in Caller, Serial(n), Quota[n][c] > 0,
         NEW d \in Caller, d # c
  PROVE  call[n][d].pc = "idle" /\ call[n][d].own = {}
BY DEF IInv, CallsClean, CleanCall, Serial

\* What the invariant says of a node with one caller, before a step ...
LEMMA SoleNow ==
  ASSUME NEW n \in Node, NEW c \in Caller,
         \A d \in Caller : d # c => call[n][d].pc = "idle" /\ call[n][d].own = {}
  PROVE  SoleRight(n, c) <=> NumbersRight(n) /\ OwnGapFree(n)
<1>1. NumbersRight(n) <=>
        SoleNumbers(n, call[n][c], seqNumber[n], receivedSeq[n][n], rumorDB[n],
                    created)
  <2>1. \A pcs : "idle" \notin pcs => (Busy(n, pcs) <=> call[n][c].pc \in pcs)
    BY DEF Busy
  <2>2. /\ Busy(n, {"written"}) <=> call[n][c].pc = "written"
        /\ Busy(n, {"written", "announced"})
             <=> call[n][c].pc \in {"written", "announced"}
        /\ Busy(n, {"built", "storing"})
             <=> call[n][c].pc \in {"built", "storing"}
    BY <2>1
  <2>3. (\A d \in Caller : CallNumbers(n, call[n][d]))
          <=> CallNumbers(n, call[n][c])
    BY DEF CallNumbers
  <2>4. \A r : (\E d \in Caller : r \in call[n][d].own) <=> r \in call[n][c].own
    OBVIOUS
  <2> QED BY <2>2, <2>3, <2>4 DEF NumbersRight, SoleNumbers, CallNumbers
<1>2. OwnGapFree(n) <=> GapFree(n, call[n][c], receivedSeq[n][n], rumorDB[n])
  BY DEF OwnGapFree, GapFree, Announced
<1> QED BY <1>1, <1>2 DEF SoleRight

\* ... and after it.
LEMMA SoleThen ==
  ASSUME NEW n \in Node, NEW c \in Caller,
         \A d \in Caller : d # c =>
           call'[n][d].pc = "idle" /\ call'[n][d].own = {}
  PROVE  SoleRight(n, c)' <=> NumbersRight(n)' /\ OwnGapFree(n)'
<1>1. NumbersRight(n)' <=>
        SoleNumbers(n, call[n][c], seqNumber[n], receivedSeq[n][n], rumorDB[n],
                    created)'
  <2>1. \A pcs : "idle" \notin pcs => (Busy(n, pcs)' <=> call'[n][c].pc \in pcs)
    BY DEF Busy
  <2>2. /\ Busy(n, {"written"})' <=> call'[n][c].pc = "written"
        /\ Busy(n, {"written", "announced"})'
             <=> call'[n][c].pc \in {"written", "announced"}
        /\ Busy(n, {"built", "storing"})'
             <=> call'[n][c].pc \in {"built", "storing"}
    BY <2>1
  <2>3. (\A d \in Caller : CallNumbers(n, call[n][d])')
          <=> CallNumbers(n, call[n][c])'
    BY DEF CallNumbers
  <2>4. \A r : (\E d \in Caller : r \in call'[n][d].own) <=> r \in call'[n][c].own
    OBVIOUS
  <2> QED BY <2>2, <2>3, <2>4 DEF NumbersRight, SoleNumbers, CallNumbers
<1>2. OwnGapFree(n)' <=> GapFree(n, call[n][c], receivedSeq[n][n], rumorDB[n])'
  BY DEF OwnGapFree, GapFree, Announced
<1> QED BY <1>1, <1>2 DEF SoleRight

\* What a step of the caller c at n leaves alone: the other calls, the other
\* nodes, and the rumors of other origins at n.
CallerOnly(n, c) ==
  /\ UNCHANGED <<waiters, job, net>>
  /\ \A k \in Node : \A d \in Caller :
       k # n \/ d # c => call'[k][d] = call[k][d]
  /\ \A k \in Node : k # n => /\ seqNumber'[k] = seqNumber[k]
                               /\ rumorDB'[k] = rumorDB[k]
                               /\ outbox'[k] = outbox[k]
  /\ \A k, o \in Node : k # n \/ o # n => receivedSeq'[k][o] = receivedSeq[k][o]
  /\ \A r : r.origin # n => (r \in rumorDB'[n] <=> r \in rumorDB[n])
  /\ created \subseteq created'
  /\ \A r \in created' : r \in created \/ r.origin = n

\* Such a step keeps the invariant if it does so for the caller's own node.
LEMMA CallStep ==
  ASSUME IInv, TypeOK', Numbered', NEW n \in Node, NEW c \in Caller,
         Quota[n][c] > 0, CallerOnly(n, c),
         CleanCall(n, call[n][c])',
         \A r \in rumorDB'[n] \cup outbox'[n] : r \in created',
         Serial(n) /\ SoleRight(n, c) =>
           /\ SoleRight(n, c)'
           /\ receivedSeq[n][n] <= receivedSeq'[n][n]
           /\ seqNumber[n] <= seqNumber'[n]
           /\ \A r, q \in created' : r.origin = n /\ SameID(r, q) => r = q
  PROVE  IInv'
<1>1. /\ TypeOK /\ StoresGenuine /\ CallsClean /\ OwnNumbers /\ UniqueIDs
      /\ NoGap /\ NoPhantom /\ JobsClean
  BY DEF IInv
<1>2. \A k, o \in Node : /\ receivedSeq[k][o] \in Nat /\ receivedSeq'[k][o] \in Nat
                         /\ seqNumber[k] \in Nat /\ seqNumber'[k] \in Nat
  BY <1>1 DEF TypeOK, View
<1>3. ASSUME Serial(n)
      PROVE  /\ NumbersRight(n)' /\ OwnGapFree(n)'
             /\ receivedSeq[n][n] <= receivedSeq'[n][n]
             /\ seqNumber[n] <= seqNumber'[n]
             /\ \A r, q \in created' : r.origin = n /\ SameID(r, q) => r = q
  <2>1. \A d \in Caller : d # c => call[n][d].pc = "idle" /\ call[n][d].own = {}
    BY <1>3, OtherCallers
  <2>2. \A d \in Caller : d # c => call'[n][d].pc = "idle" /\ call'[n][d].own = {}
    BY <2>1 DEF CallerOnly
  <2>3. NumbersRight(n) /\ OwnGapFree(n)
    BY <1>1, <1>3 DEF OwnNumbers, NoGap, OwnGapFree
  <2> QED BY <1>3, <2>1, <2>2, <2>3, SoleNow, SoleThen
<1>4. Grows
  BY <1>2, <1>3 DEF Grows, CallerOnly
<1>5. PacketsHonest' /\ WaitersClean' /\ JobsClean'
  <2>1. /\ \A p \in net' : p \in net
        /\ UNCHANGED waiters
        /\ \A k \in Node : /\ job'[k].todo \subseteq job'[k].rumors
                            /\ job'[k].rumors \subseteq job[k].rumors
    BY <1>1 DEF CallerOnly, JobsClean, CleanJob
  <2> QED BY <1>4, <2>1, GrowStep
<1>6. StoresGenuine'
  BY <1>1 DEF StoresGenuine, Genuine, CallerOnly
<1>7. CallsClean'
  <2> SUFFICES ASSUME NEW k \in Node, NEW d \in Caller
               PROVE  /\ CleanCall(k, call[k][d])'
                      /\ call'[k][d].pc # "idle" => Quota[k][d] > 0
    BY DEF CallsClean
  <2>1. CASE k = n /\ d = c
    BY <2>1
  <2>2. CASE k # n \/ d # c
    BY <1>1, <2>2 DEF CallsClean, CleanCall, Genuine, CallerOnly
  <2> QED BY <2>1, <2>2
<1>8. OwnNumbers'
  <2> SUFFICES ASSUME NEW k \in Node, Serial(k) PROVE NumbersRight(k)'
    BY DEF OwnNumbers
  <2>1. CASE k = n
    BY <1>3, <2>1
  <2>2. CASE k # n
    <3>1. NumbersRight(k)
      BY <1>1 DEF OwnNumbers
    <3>2. /\ seqNumber'[k] = seqNumber[k] /\ rumorDB'[k] = rumorDB[k]
          /\ receivedSeq'[k][k] = receivedSeq[k][k]
          /\ \A d \in Caller : call'[k][d] = call[k][d]
          /\ \A r \in created' : r.origin = k => r \in created
      BY <2>2 DEF CallerOnly
    <3>3. \A pcs : Busy(k, pcs)' <=> Busy(k, pcs)
      BY <3>2 DEF Busy
    <3>4. \A d \in Caller : CallNumbers(k, call[k][d])'
      BY <3>1, <3>2 DEF NumbersRight, CallNumbers
    <3> QED BY <3>1, <3>2, <3>3, <3>4 DEF NumbersRight
  <2> QED BY <2>1, <2>2
<1>9. UniqueIDs'
  <2> SUFFICES ASSUME NEW r \in created', NEW q \in created', Serial(r.origin),
                      SameID(r, q)
               PROVE  r = q
    BY DEF UniqueIDs, SameID
  <2>1. CASE r.origin = n
    BY <1>3, <2>1
  <2>2. CASE r.origin # n
    <3>1. r \in created /\ q \in created
      BY <2>2 DEF CallerOnly, SameID
    <3> QED BY <1>1, <3>1 DEF UniqueIDs
  <2> QED BY <2>1, <2>2
<1>10. NoGap'
  <2> SUFFICES ASSUME NEW k \in Node, NEW o \in Node, k # o \/ Serial(k),
                      NEW t \in 1 .. receivedSeq'[k][o]
               PROVE  \/ \E r \in rumorDB'[k] : r.origin = o /\ r.seq = t
                      \/ k = o /\ Announced(k, t)'
    BY DEF NoGap
  <2>1. CASE k = n /\ o = n
    BY <1>3, <2>1 DEF OwnGapFree
  <2>2. CASE k # n \/ o # n
    <3>1. t \in 1 .. receivedSeq[k][o]
      BY <2>2 DEF CallerOnly
    <3>2. \/ \E r \in rumorDB[k] : r.origin = o /\ r.seq = t
          \/ k = o /\ Announced(k, t)
      BY <1>1, <3>1 DEF NoGap
    <3>3. k = o => (Announced(k, t) => Announced(k, t)')
      BY <2>2 DEF Announced, CallerOnly
    <3>4. \A r \in rumorDB[k] : r.origin = o => r \in rumorDB'[k]
      BY <2>2 DEF CallerOnly
    <3> QED BY <3>2, <3>3, <3>4
  <2> QED BY <2>1, <2>2
<1>11. NoPhantom'
  <2> SUFFICES ASSUME NEW k \in Node, NEW o \in Node, Serial(o)
               PROVE  receivedSeq'[k][o] <= seqNumber'[o]
    BY DEF NoPhantom
  <2>1. receivedSeq[k][o] <= seqNumber[o]
    BY <1>1 DEF NoPhantom
  <2>2. CASE o # n
    BY <2>1, <2>2 DEF CallerOnly
  <2>3. CASE o = n /\ k # n
    <3>1. receivedSeq'[k][o] = receivedSeq[k][o] /\ seqNumber[n] <= seqNumber'[n]
      BY <1>3, <2>3 DEF CallerOnly
    <3> QED BY <1>2, <2>1, <2>3, <3>1
  <2>4. CASE o = n /\ k = n
    <3>1. NumbersRight(n)'
      BY <1>3, <2>4
    <3> QED BY <1>2, <2>4, <3>1 DEF NumbersRight
  <2> QED BY <2>2, <2>3, <2>4
<1> QED BY <1>5, <1>6, <1>7, <1>8, <1>9, <1>10, <1>11 DEF IInv

\* Broadcast begins: the counter is read.
LEMMA BroadcastKeeps ==
  ASSUME IInv, TypeOK', Numbered', NEW n \in Node, NEW c \in Caller,
         Broadcast(n, c)
  PROVE  IInv'
<1>1. /\ TypeOK /\ StoresGenuine /\ CallsClean /\ UniqueIDs
  BY DEF IInv
<1>2. /\ call[n][c] \in Call /\ call[n][c].pc = "idle" /\ call[n][c].own = {}
      /\ call'[n][c] = [pc |-> "read", made |-> call[n][c].made + 1,
                        cur |-> seqNumber[n], own |-> {}, list |-> {}]
  <2>1. call[n][c] \in Call /\ call[n][c].pc = "idle"
    BY <1>1 DEF TypeOK, Broadcast, At
  <2>2. call[n][c].own = {}
    BY <1>1, <2>1 DEF CallsClean, CleanCall
  <2> QED BY <1>1, <2>1, <2>2 DEF TypeOK, Broadcast, CallGoes
<1>3. Quota[n][c] > 0
  BY <1>2, GossipAssumption DEF Broadcast, Call
<1>4. UNCHANGED <<seqNumber, receivedSeq, rumorDB, created, outbox, waiters, job, net>>
  BY DEF Broadcast
<1>5. CallerOnly(n, c)
  BY <1>1, <1>4, CallerAlone DEF CallerOnly
<1>6. CleanCall(n, call[n][c])'
  BY <1>2 DEF CleanCall
<1>7. ASSUME Serial(n), SoleRight(n, c)
      PROVE  /\ SoleRight(n, c)'
             /\ receivedSeq[n][n] <= receivedSeq'[n][n]
             /\ seqNumber[n] <= seqNumber'[n]
             /\ \A r, q \in created' : r.origin = n /\ SameID(r, q) => r = q
  <2>1. SoleRight(n, c)'
    BY <1>2, <1>4, <1>7 DEF SoleRight, SoleNumbers, GapFree
  <2>2. receivedSeq[n][n] \in Nat /\ seqNumber[n] \in Nat
    BY <1>1 DEF TypeOK, View
  <2> QED BY <1>1, <1>4, <1>7, <2>1, <2>2 DEF UniqueIDs, SameID
<1>8. \A r \in rumorDB'[n] \cup outbox'[n] : r \in created'
  BY <1>1, <1>4 DEF StoresGenuine, Genuine
<1> QED BY <1>3, <1>5, <1>6, <1>7, <1>8, CallStep

\* A call that has begun: it is clean, and its goroutine is one that calls.
LEMMA RunningCall ==
  ASSUME IInv, NEW n \in Node, NEW c \in Caller, call[n][c].pc # "idle"
  PROVE  /\ Quota[n][c] > 0 /\ call[n][c] \in Call
         /\ CleanCall(n, call[n][c])
BY DEF IInv, TypeOK, CallsClean

\* The counter is written.
LEMMA UpdateKeeps ==
  ASSUME IInv, TypeOK', Numbered', NEW n \in Node, NEW c \in Caller,
         updateSeqNumber(n, c)
  PROVE  IInv'
<1>1. /\ TypeOK /\ StoresGenuine /\ UniqueIDs
  BY DEF IInv
<1>2. call[n][c].pc = "read"
  BY DEF updateSeqNumber, At
<1>3. Quota[n][c] > 0 /\ call[n][c] \in Call /\ CleanCall(n, call[n][c])
  BY <1>2, RunningCall
<1>4. call'[n][c] = [call[n][c] EXCEPT !.pc = "written"]
  BY <1>1 DEF TypeOK, updateSeqNumber, CallGoes
<1>5. /\ call'[n][c].pc = "written" /\ call'[n][c].cur = call[n][c].cur
      /\ call'[n][c].own = {} /\ call[n][c].own = {}
      /\ call'[n][c].list = call[n][c].list /\ call[n][c].cur \in Nat
  BY <1>2, <1>3, <1>4 DEF Call, CleanCall
<1>6. /\ UNCHANGED <<receivedSeq, rumorDB, created, outbox, waiters, job, net>>
      /\ \A k \in Node : seqNumber'[k] =
           IF k = n THEN call[n][c].cur + 1 ELSE seqNumber[k]
  BY <1>1 DEF updateSeqNumber, TypeOK
<1>7. CallerOnly(n, c)
  <2>1. BroadcastGoesOn(n, c)
    BY DEF BroadcastGoesOn
  <2> QED BY <1>1, <1>6, <2>1, CallerAlone DEF CallerOnly
<1>8. CleanCall(n, call[n][c])'
  BY <1>3, <1>5, <1>6 DEF CleanCall, Genuine
<1>9. ASSUME Serial(n), SoleRight(n, c)
      PROVE  /\ SoleRight(n, c)'
             /\ receivedSeq[n][n] <= receivedSeq'[n][n]
             /\ seqNumber[n] <= seqNumber'[n]
             /\ \A r, q \in created' : r.origin = n /\ SameID(r, q) => r = q
  <2>1. receivedSeq[n][n] \in Nat /\ seqNumber[n] \in Nat
    BY <1>1 DEF TypeOK, View
  <2>2. /\ call[n][c].cur = seqNumber[n] /\ receivedSeq[n][n] = seqNumber[n]
        /\ \A r \in created : r.origin = n =>
             r.seq \in Nat /\ r.seq <= seqNumber[n] /\ r \in rumorDB[n]
    BY <1>1, <1>2, <1>5, <1>9 DEF SoleRight, SoleNumbers, TypeOK, Rumor
  <2>3. GapFree(n, call[n][c], receivedSeq[n][n], rumorDB[n])'
    BY <1>2, <1>5, <1>6, <1>9 DEF SoleRight, GapFree
  <2>4. SoleRight(n, c)'
    BY <1>5, <1>6, <2>1, <2>2, <2>3 DEF SoleRight, SoleNumbers
  <2> QED BY <1>1, <1>6, <1>9, <2>1, <2>2, <2>4 DEF UniqueIDs, SameID
<1>10. \A r \in rumorDB'[n] \cup outbox'[n] : r \in created'
  BY <1>1, <1>6 DEF StoresGenuine, Genuine
<1> QED BY <1>3, <1>7, <1>8, <1>9, <1>10, CallStep

\* The number is announced in receivedSeq.
LEMMA AnnounceKeeps ==
  ASSUME IInv, TypeOK', Numbered', NEW n \in Node, NEW c \in Caller,
         announceOwn(n, c)
  PROVE  IInv'
<1>1. /\ TypeOK /\ StoresGenuine /\ UniqueIDs
  BY DEF IInv
<1>2. call[n][c].pc = "written"
  BY DEF announceOwn, At
<1>3. Quota[n][c] > 0 /\ call[n][c] \in Call /\ CleanCall(n, call[n][c])
  BY <1>2, RunningCall
<1>4. call'[n][c] = [call[n][c] EXCEPT !.pc = "announced"]
  BY <1>1 DEF TypeOK, announceOwn, CallGoes
<1>5. /\ call'[n][c].pc = "announced" /\ call'[n][c].cur = call[n][c].cur
      /\ call'[n][c].own = {} /\ call[n][c].own = {}
      /\ call'[n][c].list = call[n][c].list /\ call[n][c].cur \in Nat
  BY <1>2, <1>3, <1>4 DEF Call, CleanCall
<1>6. /\ UNCHANGED <<seqNumber, rumorDB, created, outbox, waiters, job, net>>
      /\ \A k, o \in Node : receivedSeq'[k][o] =
           IF k = n /\ o = n THEN call[n][c].cur + 1 ELSE receivedSeq[k][o]
  BY <1>1 DEF announceOwn, TypeOK, View
<1>7. CallerOnly(n, c)
  <2>1. BroadcastGoesOn(n, c)
    BY DEF BroadcastGoesOn
  <2> QED BY <1>1, <1>6, <2>1, CallerAlone DEF CallerOnly
<1>8. CleanCall(n, call[n][c])'
  BY <1>3, <1>5, <1>6 DEF CleanCall, Genuine
<1>9. ASSUME Serial(n), SoleRight(n, c)
      PROVE  /\ SoleRight(n, c)'
             /\ receivedSeq[n][n] <= receivedSeq'[n][n]
             /\ seqNumber[n] <= seqNumber'[n]
             /\ \A r, q \in created' : r.origin = n /\ SameID(r, q) => r = q
  <2>1. receivedSeq[n][n] \in Nat /\ seqNumber[n] \in Nat
    BY <1>1 DEF TypeOK, View
  <2>2. /\ call[n][c].cur + 1 = seqNumber[n] /\ receivedSeq[n][n] + 1 = seqNumber[n]
        /\ \A r \in created : r.origin = n =>
             r.seq <= seqNumber[n] /\ r.seq < seqNumber[n] /\ r \in rumorDB[n]
    BY <1>2, <1>5, <1>9 DEF SoleRight, SoleNumbers
  <2>3. GapFree(n, call[n][c], receivedSeq[n][n], rumorDB[n])'
    <3> SUFFICES ASSUME NEW t \in 1 .. receivedSeq'[n][n]
                 PROVE  \/ \E r \in rumorDB'[n] : r.origin = n /\ r.seq = t
                        \/ t = call'[n][c].cur + 1
      BY <1>5 DEF GapFree
    <3>1. CASE t \in 1 .. receivedSeq[n][n]
      BY <1>2, <1>6, <1>9, <3>1 DEF SoleRight, GapFree
    <3>2. CASE t \notin 1 .. receivedSeq[n][n]
      BY <1>5, <1>6, <2>1, <2>2, <3>2
    <3> QED BY <3>1, <3>2
  <2>4. SoleRight(n, c)'
    BY <1>5, <1>6, <2>1, <2>2, <2>3 DEF SoleRight, SoleNumbers
  <2> QED BY <1>1, <1>6, <1>9, <2>1, <2>2, <2>4 DEF UniqueIDs, SameID
<1>10. \A r \in rumorDB'[n] \cup outbox'[n] : r \in created'
  BY <1>1, <1>6 DEF StoresGenuine, Genuine
<1> QED BY <1>3, <1>7, <1>8, <1>9, <1>10, CallStep

\* The rumor is built.  With one caller its number is a new one.
LEMMA CreateKeeps ==
  ASSUME IInv, TypeOK', Numbered', NEW n \in Node, NEW c \in Caller,
         NEW m \in Msg, createRumor(n, c, m)
  PROVE  IInv'
<1>1. /\ TypeOK /\ StoresGenuine /\ UniqueIDs
  BY DEF IInv
<1>2. call[n][c].pc = "announced"
  BY DEF createRumor, At
<1>3. Quota[n][c] > 0 /\ call[n][c] \in Call /\ CleanCall(n, call[n][c])
  BY <1>2, RunningCall
<1>r. PICK r : r = [origin |-> n, seq |-> seqNumber[n], msg |-> m]
  OBVIOUS
<1>4. call'[n][c] = [call[n][c] EXCEPT !.pc = "built", !.own = {r}]
  BY <1>1, <1>r DEF TypeOK, createRumor, CallGoes
<1>5. /\ call'[n][c].pc = "built" /\ call'[n][c].cur = call[n][c].cur
      /\ call'[n][c].own = {r} /\ call[n][c].own = {}
      /\ call'[n][c].list = call[n][c].list /\ call[n][c].cur \in Nat
  BY <1>2, <1>3, <1>4 DEF Call, CleanCall
<1>6. /\ UNCHANGED <<seqNumber, receivedSeq, rumorDB, outbox, waiters, job, net>>
      /\ created' = created \cup {r}
      /\ r.origin = n /\ r.seq = seqNumber[n]
  BY <1>r DEF createRumor
<1>7. CallerOnly(n, c)
  <2>1. BroadcastGoesOn(n, c)
    BY DEF BroadcastGoesOn
  <2> QED BY <1>1, <1>6, <2>1, CallerAlone DEF CallerOnly
<1>8. CleanCall(n, call[n][c])'
  BY <1>3, <1>5, <1>6 DEF CleanCall, Genuine
<1>9. ASSUME Serial(n), SoleRight(n, c)
      PROVE  /\ SoleRight(n, c)'
             /\ receivedSeq[n][n] <= receivedSeq'[n][n]
             /\ seqNumber[n] <= seqNumber'[n]
             /\ \A x, q \in created' : x.origin = n /\ SameID(x, q) => x = q
  <2>1. receivedSeq[n][n] \in Nat /\ seqNumber[n] \in Nat
    BY <1>1 DEF TypeOK, View
  <2>2. /\ call[n][c].cur + 1 = seqNumber[n] /\ receivedSeq[n][n] = seqNumber[n]
        /\ \A x \in created : x.origin = n =>
             /\ x.seq \in Nat /\ x.seq <= seqNumber[n] /\ x.seq < seqNumber[n]
             /\ x \in rumorDB[n]
    BY <1>1, <1>2, <1>5, <1>9 DEF SoleRight, SoleNumbers, TypeOK, Rumor
  <2>3. GapFree(n, call[n][c], receivedSeq[n][n], rumorDB[n])'
    BY <1>2, <1>5, <1>6, <1>9 DEF SoleRight, GapFree
  <2>4. \A x \in rumorDB[n] : x.origin = n => x.seq < seqNumber[n]
    BY <1>1, <2>2 DEF StoresGenuine, Genuine
  <2>5. SoleRight(n, c)'
    BY <1>5, <1>6, <2>1, <2>2, <2>3, <2>4 DEF SoleRight, SoleNumbers
  <2>6. ASSUME NEW x \in created', NEW q \in created', x.origin = n, SameID(x, q)
        PROVE  x = q
    <3>1. CASE x \in created /\ q \in created
      BY <1>1, <1>9, <2>6, <3>1 DEF UniqueIDs
    <3>2. CASE x \notin created \/ q \notin created
      BY <1>6, <2>1, <2>2, <2>6, <3>2 DEF SameID
    <3> QED BY <3>1, <3>2
  <2> QED BY <1>6, <2>1, <2>5, <2>6
<1>10. \A x \in rumorDB'[n] \cup outbox'[n] : x \in created'
  BY <1>1, <1>6 DEF StoresGenuine, Genuine
<1> QED BY <1>3, <1>7, <1>8, <1>9, <1>10, CallStep

\* storeRumor has read the own rumors.
LEMMA GetKeeps ==
  ASSUME IInv, TypeOK', Numbered', NEW n \in Node, NEW c \in Caller,
         storeRumorGet(n, c)
  PROVE  IInv'
<1>1. /\ TypeOK /\ StoresGenuine /\ UniqueIDs
  BY DEF IInv
<1>2. call[n][c].pc = "built"
  BY DEF storeRumorGet, At
<1>3. Quota[n][c] > 0 /\ call[n][c] \in Call /\ CleanCall(n, call[n][c])
  BY <1>2, RunningCall
<1>l. PICK list : list = {q \in rumorDB[n] : q.origin = n}
  OBVIOUS
<1>4. call'[n][c] = [call[n][c] EXCEPT !.pc = "storing", !.list = list]
  BY <1>1, <1>l DEF TypeOK, storeRumorGet, CallGoes
<1>5. /\ call'[n][c].pc = "storing" /\ call'[n][c].cur = call[n][c].cur
      /\ call'[n][c].own = call[n][c].own
      /\ call'[n][c].list = list /\ call[n][c].cur \in Nat
  BY <1>3, <1>4 DEF Call
<1>6. UNCHANGED <<seqNumber, receivedSeq, rumorDB, created, outbox, waiters, job, net>>
  BY DEF storeRumorGet
<1>7. CallerOnly(n, c)
  <2>1. BroadcastGoesOn(n, c)
    BY DEF BroadcastGoesOn
  <2> QED BY <1>1, <1>6, <2>1, CallerAlone DEF CallerOnly
<1>8. CleanCall(n, call[n][c])'
  <2>1. \A r \in list : r \in created /\ r.origin = n
    BY <1>1, <1>l DEF StoresGenuine, Genuine
  <2> QED BY <1>2, <1>3, <1>5, <1>6, <2>1 DEF CleanCall, Genuine
<1>9. ASSUME Serial(n), SoleRight(n, c)
      PROVE  /\ SoleRight(n, c)'
             /\ receivedSeq[n][n] <= receivedSeq'[n][n]
             /\ seqNumber[n] <= seqNumber'[n]
             /\ \A r, q \in created' : r.origin = n /\ SameID(r, q) => r = q
  <2>1. receivedSeq[n][n] \in Nat /\ seqNumber[n] \in Nat
    BY <1>1 DEF TypeOK, View
  <2>2. GapFree(n, call[n][c], receivedSeq[n][n], rumorDB[n])'
    BY <1>2, <1>5, <1>6, <1>9 DEF SoleRight, GapFree
  <2>3. SoleNumbers(n, call[n][c], seqNumber[n], receivedSeq[n][n], rumorDB[n],
                    created)'
    BY <1>2, <1>5, <1>6, <1>9, <1>l DEF SoleRight, SoleNumbers
  <2> QED BY <1>1, <1>6, <1>9, <2>1, <2>2, <2>3 DEF SoleRight, UniqueIDs, SameID
<1>10. \A r \in rumorDB'[n] \cup outbox'[n] : r \in created'
  BY <1>1, <1>6 DEF StoresGenuine, Genuine
<1> QED BY <1>3, <1>7, <1>8, <1>9, <1>10, CallStep

\* The rumor is stored.  With one caller nothing is lost: the list it was added
\* to is the list that is in the database.
LEMMA AddKeeps ==
  ASSUME IInv, TypeOK', Numbered', NEW n \in Node, NEW c \in Caller,
         storeRumorAdd(n, c)
  PROVE  IInv'
<1>1. /\ TypeOK /\ StoresGenuine /\ UniqueIDs
  BY DEF IInv
<1>2. call[n][c].pc = "storing"
  BY DEF storeRumorAdd, At
<1>3. Quota[n][c] > 0 /\ call[n][c] \in Call /\ CleanCall(n, call[n][c])
  BY <1>2, RunningCall
<1>4. PICK r \in call[n][c].own : storeRumorAdd(n, c)!2!(r)
  BY DEF storeRumorAdd
<1>5. /\ call'[n][c].pc = "idle" /\ call'[n][c].own = {} /\ call'[n][c].list = {}
      /\ call[n][c].own = {r} /\ r.origin = n /\ r \in created /\ r \in Rumor
      /\ \A q \in call[n][c].list : q \in created /\ q.origin = n
  <2>1. call'[n][c] = Returned(call[n][c].made)
    BY <1>1 DEF TypeOK, storeRumorAdd, CallGoes
  <2> QED BY <1>1, <1>3, <1>4, <2>1 DEF Returned, CleanCall, Genuine, TypeOK
<1>l. PICK list : list = call[n][c].list
  OBVIOUS
<1>6. /\ UNCHANGED <<seqNumber, receivedSeq, created, waiters, job, net>>
      /\ \A k \in Node : k # n => rumorDB'[k] = rumorDB[k] /\ outbox'[k] = outbox[k]
      /\ outbox'[n] = outbox[n] \cup {r}
      /\ \/ rumorDB'[n] = rumorDB[n] /\ \E q \in list : q.seq = r.seq
         \/ /\ \A q \in list : q.seq # r.seq
            /\ rumorDB'[n] = {q \in rumorDB[n] : q.origin # n} \cup list \cup {r}
  <2>1. (\A q \in list : q.seq # r.seq) => storeRumor(list, r) = list \cup {r}
    BY DEF storeRumor
  <2>2. /\ UNCHANGED <<seqNumber, receivedSeq, created, waiters, job, net>>
        /\ outbox' = [outbox EXCEPT ![n] = @ \cup {r}]
        /\ rumorDB' = IF \E q \in list : q.seq = r.seq THEN rumorDB
                      ELSE [rumorDB EXCEPT ![n] =
                             {q \in rumorDB[n] : q.origin # n}
                               \cup storeRumor(list, r)]
    BY <1>4, <1>l DEF storeRumorAdd
  <2> QED BY <1>1, <2>1, <2>2 DEF TypeOK
<1>7. CallerOnly(n, c)
  <2>1. BroadcastGoesOn(n, c)
    BY DEF BroadcastGoesOn
  <2>2. \A q : q.origin # n => (q \in rumorDB'[n] <=> q \in rumorDB[n])
    BY <1>5, <1>6, <1>l
  <2> QED BY <1>1, <1>6, <2>1, <2>2, CallerAlone DEF CallerOnly
<1>8. CleanCall(n, call[n][c])'
  BY <1>5 DEF CleanCall
<1>9. ASSUME Serial(n), SoleRight(n, c)
      PROVE  /\ SoleRight(n, c)'
             /\ receivedSeq[n][n] <= receivedSeq'[n][n]
             /\ seqNumber[n] <= seqNumber'[n]
             /\ \A x, q \in created' : x.origin = n /\ SameID(x, q) => x = q
  <2>1. receivedSeq[n][n] \in Nat /\ seqNumber[n] \in Nat
    BY <1>1 DEF TypeOK, View
  <2>2. /\ seqNumber[n] = receivedSeq[n][n] /\ call[n][c].cur + 1 = seqNumber[n]
        /\ r.seq = seqNumber[n] /\ list = {q \in rumorDB[n] : q.origin = n}
        /\ \A x \in rumorDB[n] : x.origin = n => x.seq < seqNumber[n]
        /\ \A x \in created : x.origin = n =>
             x.seq <= seqNumber[n] /\ (x \in rumorDB[n] \/ x = r)
    BY <1>2, <1>5, <1>9, <1>l DEF SoleRight, SoleNumbers
  <2>3. rumorDB'[n] = rumorDB[n] \cup {r}
    <3>1. \A q \in list : q.seq # r.seq
      BY <2>1, <2>2
    <3> QED BY <1>6, <2>2, <3>1
  <2>4. GapFree(n, call[n][c], receivedSeq[n][n], rumorDB[n])'
    <3> SUFFICES ASSUME NEW t \in 1 .. receivedSeq[n][n]
                 PROVE  \E x \in rumorDB'[n] : x.origin = n /\ x.seq = t
      BY <1>6 DEF GapFree
    <3>1. \/ \E x \in rumorDB[n] : x.origin = n /\ x.seq = t
          \/ t = r.seq
      BY <1>9, <2>2 DEF SoleRight, GapFree
    <3> QED BY <1>5, <2>3, <3>1
  <2>5. SoleNumbers(n, call[n][c], seqNumber[n], receivedSeq[n][n], rumorDB[n],
                    created)'
    BY <1>5, <1>6, <2>2, <2>3 DEF SoleNumbers
  <2> QED BY <1>1, <1>6, <1>9, <2>1, <2>4, <2>5 DEF SoleRight, UniqueIDs, SameID
<1>10. \A x \in rumorDB'[n] \cup outbox'[n] : x \in created'
  BY <1>1, <1>5, <1>6, <1>l DEF StoresGenuine, Genuine
<1> QED BY <1>3, <1>7, <1>8, <1>9, <1>10, CallStep

-----------------------------------------------------------------------------
(* The listener. *)

\* storeRumor keeps what is stored and adds at most the rumor; if it adds
\* nothing, a rumor with the same identity was there.
StoresRumor(n, r) ==
  /\ \A k \in Node : k # n => rumorDB'[k] = rumorDB[k]
  /\ rumorDB[n] \subseteq rumorDB'[n]
  /\ rumorDB'[n] \subseteq rumorDB[n] \cup {r}
  /\ \E q \in rumorDB'[n] : q.origin = r.origin /\ q.seq = r.seq

\* Storing a genuine rumor, and accepting it or not, keeps the stores in order.
LEMMA StoreKeeps ==
  ASSUME IInv, TypeOK', NEW n \in Node, NEW r \in Rumor, Genuine(r),
         r.seq = receivedSeq[n][r.origin] + 1,
         rumorDB' = [rumorDB EXCEPT ![n] = storeRumor(@, r)],
         UNCHANGED <<seqNumber, call, created, outbox>>,
         \/ UNCHANGED receivedSeq
         \/ receivedSeq' = [receivedSeq EXCEPT
              ![n] = [receivedSeq[n] EXCEPT ![r.origin] = r.seq]]
  PROVE  /\ StoresRumor(n, r)
         /\ Serial(n) => r.origin # n
         /\ Grows /\ StoresGenuine' /\ CallsClean' /\ Numbered' /\ OwnNumbers'
         /\ UniqueIDs' /\ NoGap' /\ NoPhantom'
<1>1. /\ TypeOK /\ OwnNumbers /\ NoGap /\ NoPhantom /\ UniqueIDs
      /\ StoresGenuine /\ CallsClean /\ Numbered
  BY DEF IInv
<1>2. StoresRumor(n, r)
  <2>1. /\ rumorDB'[n] = storeRumor(rumorDB[n], r)
        /\ \A k \in Node : k # n => rumorDB'[k] = rumorDB[k]
    BY <1>1 DEF TypeOK
  <2> QED BY <2>1, StoreAdds DEF StoresRumor
<1>3. r.origin \in Node /\ r.seq \in Nat /\ r.seq >= 1
  BY DEF Rumor
<1>4. \A k, o \in Node : receivedSeq[k][o] \in Nat /\ seqNumber[k] \in Nat
  BY <1>1 DEF TypeOK, View
<1>5. \A k, o \in Node :
        \/ receivedSeq'[k][o] = receivedSeq[k][o]
        \/ k = n /\ o = r.origin /\ receivedSeq'[k][o] = r.seq
  BY <1>1, <1>3 DEF TypeOK, View
<1>6. \* the listener never expects an own rumor of a node with one caller
      Serial(n) => r.origin # n
  <2> SUFFICES ASSUME Serial(n), r.origin = n PROVE FALSE
    OBVIOUS
  <2>1. /\ seqNumber[n] = receivedSeq[n][n] \/ seqNumber[n] = receivedSeq[n][n] + 1
        /\ seqNumber[n] = receivedSeq[n][n] + 1 => r.seq < seqNumber[n]
        /\ r.seq <= seqNumber[n]
    <3>1. NumbersRight(n) /\ r \in created
      BY <1>1 DEF OwnNumbers, Genuine
    <3>2. Busy(n, {"written"}) => Busy(n, {"written", "announced"})
      BY DEF Busy
    <3> QED BY <1>4, <3>1, <3>2 DEF NumbersRight
  <2> QED BY <1>3, <1>4, <2>1
<1>7. Serial(r.origin) => r.seq <= seqNumber[r.origin]
  BY <1>1, <1>3 DEF OwnNumbers, NumbersRight, Genuine
<1>8. Grows
  BY <1>3, <1>4, <1>5 DEF Grows
<1>9. StoresGenuine' /\ CallsClean' /\ Numbered' /\ UniqueIDs'
  <2>1. \A k \in Node : \A q \in rumorDB'[k] : q \in created
    BY <1>1, <1>2 DEF StoresRumor, StoresGenuine, Genuine
  <2> QED BY <1>1, <2>1 DEF StoresGenuine, Genuine, CallsClean, CleanCall,
                            Numbered, UniqueIDs, SameID
<1>10. NoPhantom'
  <2> SUFFICES ASSUME NEW k \in Node, NEW o \in Node, Serial(o)
               PROVE  receivedSeq'[k][o] <= seqNumber[o]
    BY DEF NoPhantom
  <2> QED BY <1>1, <1>5, <1>7 DEF NoPhantom
<1>11. OwnNumbers'
  <2> SUFFICES ASSUME NEW k \in Node, Serial(k) PROVE NumbersRight(k)'
    BY DEF OwnNumbers
  <2>1. NumbersRight(k)
    BY <1>1 DEF OwnNumbers
  <2>2. \A q : q.origin = k => (q \in rumorDB'[k] <=> q \in rumorDB[k])
    BY <1>2, <1>6 DEF StoresRumor
  <2>3. receivedSeq'[k][k] = receivedSeq[k][k]
    BY <1>5, <1>6
  <2>4. \A pcs : Busy(k, pcs)' <=> Busy(k, pcs)
    BY DEF Busy
  <2>5. \A d \in Caller : CallNumbers(k, call[k][d])'
    <3> SUFFICES ASSUME NEW d \in Caller PROVE CallNumbers(k, call[k][d])'
      OBVIOUS
    <3>1. CallNumbers(k, call[k][d])
      BY <2>1 DEF NumbersRight
    <3>2. {q \in rumorDB'[k] : q.origin = k} = {q \in rumorDB[k] : q.origin = k}
      BY <2>2
    <3> QED BY <3>1, <3>2 DEF CallNumbers
  <2> QED BY <2>1, <2>2, <2>3, <2>4, <2>5 DEF NumbersRight
<1>12. NoGap'
  <2> SUFFICES ASSUME NEW k \in Node, NEW o \in Node, k # o \/ Serial(k),
                      NEW t \in 1 .. receivedSeq'[k][o]
               PROVE  \/ \E q \in rumorDB'[k] : q.origin = o /\ q.seq = t
                      \/ k = o /\ Announced(k, t)'
    BY DEF NoGap
  <2>1. CASE t \in 1 .. receivedSeq[k][o]
    <3>1. \/ \E q \in rumorDB[k] : q.origin = o /\ q.seq = t
          \/ k = o /\ Announced(k, t)
      BY <2>1, <1>1 DEF NoGap
    <3>2. rumorDB[k] \subseteq rumorDB'[k]
      BY <1>2 DEF StoresRumor
    <3> QED BY <3>1, <3>2 DEF Announced
  <2>2. CASE t \notin 1 .. receivedSeq[k][o]
    <3>1. k = n /\ o = r.origin /\ t = r.seq
      BY <2>2, <1>3, <1>4, <1>5
    <3> QED BY <3>1, <1>2 DEF StoresRumor
  <2> QED BY <2>1, <2>2
<1> QED BY <1>2, <1>6, <1>8, <1>9, <1>10, <1>11, <1>12

\* The rumors a listener still has to take are genuine.
LEMMA TakenGenuine ==
  ASSUME IInv, NEW n \in Node, NEW r \in NextRumors(n)
  PROVE  /\ r \in Rumor /\ Genuine(r)
         /\ r \in job[n].rumors /\ job[n] \in Job
         /\ \A b \in BOOLEAN : CleanJob(Taken(job[n], r, b))
         /\ CleanJob(Idle(n))
BY DEF IInv, TypeOK, Job, NextRumors, JobsClean, CleanJob, Taken, Idle

\* handleRumor keeps the invariant when the message's handler fails.
LEMMA RejectKeeps ==
  ASSUME IInv, TypeOK', NEW n \in Node, rejectRumor(n)
  PROVE  IInv'
<1>1. PICK r \in NextRumors(n) : rejectRumor(n)!(r)
  BY DEF rejectRumor
<1>2. r \in Rumor /\ Genuine(r)
  BY TakenGenuine
<1>3. /\ Grows /\ StoresGenuine' /\ CallsClean' /\ Numbered' /\ OwnNumbers'
      /\ UniqueIDs' /\ NoGap' /\ NoPhantom'
  BY <1>1, <1>2, StoreKeeps DEF expected
<1>4. \A k \in Node : /\ job'[k].todo \subseteq job'[k].rumors
                      /\ job'[k].rumors \subseteq job[k].rumors
  BY <1>1 DEF IInv, TypeOK, JobsClean, CleanJob, Idle
<1>5. PacketsHonest' /\ WaitersClean' /\ JobsClean'
  BY <1>1, <1>3, <1>4, GrowStep
<1> QED BY <1>3, <1>5 DEF IInv

\* handleRumor keeps the invariant when it accepts and acks a rumor: the ack
\* carries the new view, which the receiver has already reached.
LEMMA AcceptKeeps ==
  ASSUME IInv, TypeOK', NEW n \in Node, acceptRumor(n)
  PROVE  IInv'
<1>1. PICK r \in NextRumors(n) : acceptRumor(n)!(r)
  BY DEF acceptRumor
<1> DEFINE view == [receivedSeq[n] EXCEPT ![r.origin] = r.seq]
           ack == ackPkt(n, job[n].src, job[n].rumors, view)
<1>2. r \in Rumor /\ Genuine(r) /\ r \in job[n].rumors /\ job[n] \in Job
  BY TakenGenuine
<1>3. /\ receivedSeq' = [receivedSeq EXCEPT ![n] = view]
      /\ net' = Send(net, ack)
      /\ r.seq = receivedSeq[n][r.origin] + 1
      /\ UNCHANGED <<seqNumber, call, created, outbox, waiters>>
  BY <1>1 DEF expected
<1>4. /\ Grows /\ StoresGenuine' /\ CallsClean' /\ Numbered' /\ OwnNumbers'
      /\ UniqueIDs' /\ NoGap' /\ NoPhantom'
  BY <1>1, <1>2, <1>3, StoreKeeps
<1>5. \A k \in Node : /\ job'[k].todo \subseteq job'[k].rumors
                      /\ job'[k].rumors \subseteq job[k].rumors
  <2>1. \A k \in Node : k # n => job'[k] = job[k]
    BY <1>1 DEF IInv, TypeOK
  <2>2. job'[n] = Taken(job[n], r, TRUE) \/ job'[n] = Idle(n)
    BY <1>1 DEF IInv, TypeOK
  <2>3. \A k \in Node : job[k].todo \subseteq job[k].rumors
    BY DEF IInv, JobsClean, CleanJob
  <2> QED BY <2>1, <2>2, <2>3 DEF Taken, Idle
<1>a. PICK a : a = ack \* a constant name for the packet: ack is not rigid
  OBVIOUS
<1>6. Honest(a)'
  <2>1. receivedSeq'[n] = view /\ view \in [Node -> Nat]
    BY <1>2, <1>3 DEF IInv, TypeOK, View, Rumor
  <2>2. view[r.origin] = r.seq /\ r.seq \in Nat
    BY <1>2 DEF IInv, TypeOK, View, Rumor
  <2>3. \A q \in job[n].rumors : Genuine(q)'
    BY <1>3 DEF IInv, JobsClean, CleanJob, Genuine
  <2>4. /\ a.rumors = job[n].rumors /\ a.view = view
        /\ a.src = n /\ a.type = "ack"
    BY <1>a DEF ackPkt
  <2> HIDE DEF view, ack
  <2>5. \A q \in a.rumors : Genuine(q)'
    BY <2>3, <2>4
  <2>6. \A o \in Node : a.view[o] <= receivedSeq'[a.src][o]
    BY <2>1, <2>4
  <2>7. \E q \in a.rumors : Accepted(a.src, q)'
    BY <1>2, <2>1, <2>2, <2>4 DEF Accepted
  <2> QED BY <2>5, <2>6, <2>7 DEF Honest
<1>7. \A p \in net' : p \in net \/ Honest(p)'
  BY <1>3, <1>6, <1>a, SendAdds
<1>8. PacketsHonest' /\ WaitersClean' /\ JobsClean'
  BY <1>3, <1>4, <1>5, <1>7, GrowStep
<1> QED BY <1>4, <1>8 DEF IInv

\* The listener's answer to a status is honest.
LEMMA RepliesHonest ==
  ASSUME IInv, NEW n \in Node, NEW p \in net,
         NEW res \in StatusReplies(net \ {p}, n, p.src, p.view)
  PROVE  \A q \in res : q \in net \/ Honest(q)
<1>1. p.src \in Node /\ directPeers[n] \in SUBSET Node
  BY DEF IInv, TypeOK, Packet
<1>2. Honest(rumorsPkt(n, p.src, getMissingRumors(n, p.view)))
  <2>1. \A r \in rumorDB[n] : r \in Rumor /\ Genuine(r)
    BY DEF IInv, TypeOK, StoresGenuine
  <2>2. /\ getMissingRumors(n, p.view) \in SUBSET Rumor
        /\ \A r \in getMissingRumors(n, p.view) : Genuine(r)
    BY <2>1, MissingStored
  <2> QED BY <1>1, <2>2, HonestSends
<1>3. \A d \in directPeers[n] \cup {p.src} :
        Honest(statusPkt(n, d, receivedSeq[n]))
  BY <1>1, HonestSends
<1> QED BY <1>2, <1>3, RepliesAdd

\* Every step of every goroutine keeps the inductive invariant.
LEMMA StepIInv == IInv /\ [Next]_vars => IInv'
<1> SUFFICES ASSUME IInv, [Next]_vars PROVE IInv'
  OBVIOUS
<1>t. TypeOK /\ TypeOK' /\ Numbered'
  BY StepType, StepNumbered DEF IInv
<1>c. /\ \A k \in Node : \A w \in waiters[k] : CleanWaiter(w)
      /\ \A k \in Node : CleanJob(job[k]) /\ CleanJob(Idle(k))
  BY DEF IInv, WaitersClean, JobsClean, CleanJob, Idle
<1>1. ASSUME NEW n \in Node, NEW a \in LatePeer[n], AddPeer(n, a) PROVE IInv'
  BY <1>1, <1>t, <1>c, QuietStep DEF AddPeer
<1>2. ASSUME NEW n \in Node, NEW c \in Caller, Broadcast(n, c) PROVE IInv'
  BY <1>2, <1>t, BroadcastKeeps
<1>3. ASSUME NEW n \in Node, NEW c \in Caller, BroadcastGoesOn(n, c) PROVE IInv'
  BY <1>3, <1>t, UpdateKeeps, AnnounceKeeps, CreateKeeps, GetKeeps, AddKeeps
  DEF BroadcastGoesOn
<1>4. ASSUME NEW n \in Node, broadCastRoutine(n) PROVE IInv'
  <2>1. PICK r \in outbox[n] : broadCastRoutine(n)!(r)
    BY <1>4 DEF broadCastRoutine
  <2>2. /\ r \in Rumor /\ Genuine(r)
        /\ \A k \in Node : outbox'[k] \subseteq outbox[k]
        /\ \A k \in Node : CleanJob(job'[k])
    BY <1>c, <2>1 DEF IInv, TypeOK, StoresGenuine
  <2>3. CASE UNCHANGED <<net, waiters>>
    BY <2>1, <2>2, <2>3, <1>t, <1>c, QuietStep
  <2>4. ASSUME NEW d \in getNeighbors(n), SendAndWait(net, n, d, {r}, waiters[n])
        PROVE  IInv'
    <3>1. /\ d \in Node /\ {r} \in SUBSET Rumor /\ \A q \in {r} : Genuine(q)
          /\ waiters[n] \in SUBSET waiters[n] /\ net \in SUBSET net
      BY <2>2, <1>t DEF TypeOK, getNeighbors
    <3> QED BY <2>1, <2>2, <2>4, <3>1, <1>t, SendAndWaitKeeps
  <2> QED BY <2>1, <2>3, <2>4
<1>5. ASSUME NEW n \in Node, NEW w \in waiters[n],
             waitForAckTimeout(n, w) \/ waitForAckReceived(n, w)
      PROVE  IInv'
  <2>1. CASE waitForAckTimeout(n, w)
    BY <2>1, <1>t, ResendsKeeps DEF waitForAckTimeout
  <2>2. CASE waitForAckReceived(n, w)
    <3>1. \A k \in Node : \A v \in waiters'[k] : CleanWaiter(v)
      BY <2>2, <1>c, <1>t DEF TypeOK, waitForAckReceived
    <3> QED BY <2>2, <3>1, <1>t, <1>c, QuietStep DEF waitForAckReceived
  <2> QED BY <1>5, <2>1, <2>2
<1>6. ASSUME NEW n \in Node, NEW d \in Node, sendRandomStatusMessage(n, d)
      PROVE  IInv'
  <2>1. Honest(statusPkt(n, d, receivedSeq[n]))
    BY HonestSends
  <2>2. \A p \in net' : p \in net \/ Honest(p)
    BY <1>6, <2>1, SendAdds DEF sendRandomStatusMessage, createStatusMessage
  <2> QED BY <1>6, <2>2, <1>t, <1>c, QuietStep DEF sendRandomStatusMessage
<1>7. ASSUME NEW n \in Node, NEW p \in net, handlePacket(n, p) PROVE IInv'
  <2>1. CASE handleStatusMessage(n, p)
    <3>1. \A q \in net' : q \in net \/ Honest(q)
      BY <2>1, RepliesHonest DEF handleStatusMessage
    <3> QED BY <2>1, <3>1, <1>t, <1>c, QuietStep DEF handleStatusMessage
  <2>2. CASE handleAckMessage(n, p)
    <3>1. ASSUME NEW w \in waiters[n], Resends(net \ {p}, n, w) PROVE IInv'
      <4>1. net \ {p} \in SUBSET net
        OBVIOUS
      <4> QED BY <2>2, <3>1, <4>1, <1>t, ResendsKeeps DEF handleAckMessage
    <3>2. ASSUME /\ \A k \in Node : \A w \in waiters'[k] : CleanWaiter(w)
                 /\ \A q \in net' : q \in net \/ Honest(q)
          PROVE  IInv'
      BY <2>2, <3>2, <1>t, <1>c, QuietStep DEF handleAckMessage
    <3>3. ASSUME net' \in StatusReplies(net \ {p}, n, p.src, p.view)
                 \/ net' = net \ {p}
          PROVE  \A q \in net' : q \in net \/ Honest(q)
      BY <3>3, RepliesHonest
    <3>4. CASE UNCHANGED waiters
               /\ net' \in StatusReplies(net \ {p}, n, p.src, p.view)
      BY <3>2, <3>3, <3>4, <1>c
    <3>5. ASSUME NEW w \in waiters[n],
                 waiters' = [waiters EXCEPT
                   ![n] = (@ \ {w}) \cup {[w EXCEPT !.acked = TRUE]}],
                 net' \in StatusReplies(net \ {p}, n, p.src, p.view)
          PROVE  IInv'
      <4>1. PICK v : v = [w EXCEPT !.acked = TRUE]
        OBVIOUS
      <4>2. CleanWaiter(v)
        <5>1. w \in Waiter /\ CleanWaiter(w)
          BY <1>c, <1>t DEF TypeOK
        <5>2. v.rumors = w.rumors
          BY <4>1, <5>1 DEF Waiter
        <5> QED BY <5>1, <5>2 DEF CleanWaiter
      <4>3. \A k \in Node : \A u \in waiters'[k] : CleanWaiter(u)
        BY <3>5, <4>1, <4>2, <1>c, <1>t DEF TypeOK
      <4> QED BY <3>2, <3>3, <3>5, <4>3
    <3>6. ASSUME NEW w \in waiters[n],
                 waiters' = [waiters EXCEPT ![n] = @ \ {w}],
                 net' \in StatusReplies(net \ {p}, n, p.src, p.view)
                 \/ net' = net \ {p}
          PROVE  IInv'
      <4>1. \A k \in Node : \A u \in waiters'[k] : CleanWaiter(u)
        BY <3>6, <1>c, <1>t DEF TypeOK
      <4> QED BY <3>2, <3>3, <3>6, <4>1
    <3> QED BY <2>2, <3>1, <3>4, <3>5, <3>6 DEF handleAckMessage
  <2>3. CASE recvRumors(n, p)
    <3> DEFINE j == [active |-> TRUE, src |-> p.src, rumors |-> p.rumors,
                     todo |-> p.rumors, processed |-> FALSE]
    <3>1. job' = [job EXCEPT ![n] = j]
      BY <2>3 DEF recvRumors
    <3>2. CleanJob(j)
      BY DEF CleanJob, IInv, PacketsHonest, Honest
    <3> HIDE DEF j
    <3>3. \A k \in Node : CleanJob(job'[k])
      BY <3>1, <3>2, <1>c, <1>t DEF TypeOK
    <3> QED BY <2>3, <3>3, <1>t, <1>c, QuietStep DEF recvRumors
  <2> QED BY <1>7, <2>1, <2>2, <2>3 DEF handlePacket
<1>8. ASSUME NEW n \in Node, handleRumor(n) PROVE IInv'
  <2>1. CASE skipRumor(n)
    <3>1. PICK r \in NextRumors(n) : skipRumor(n)!(r)
      BY <2>1 DEF skipRumor
    <3>2. CleanJob(Taken(job[n], r, job[n].processed))
      BY TakenGenuine DEF Job
    <3>3. \A k \in Node : CleanJob(job'[k])
      BY <3>1, <3>2, <1>c, <1>t DEF TypeOK
    <3> QED BY <3>1, <3>3, <1>t, <1>c, QuietStep
  <2>2. CASE rejectRumor(n)
    BY <2>2, <1>t, RejectKeeps
  <2>3. CASE acceptRumor(n)
    BY <2>3, <1>t, AcceptKeeps
  <2>4. CASE forwardRumorsMessage(n)
    <3>1. /\ UNCHANGED <<seqNumber, receivedSeq, rumorDB, call, created>>
          /\ \A k \in Node : outbox'[k] \subseteq outbox[k]
      BY <2>4 DEF forwardRumorsMessage
    <3>2. \A k \in Node : CleanJob(job'[k])
      BY <2>4, <1>c, <1>t DEF forwardRumorsMessage, TypeOK
    <3>3. CASE UNCHANGED <<net, waiters>>
      BY <3>1, <3>2, <3>3, <1>t, <1>c, QuietStep
    <3>4. ASSUME NEW d \in getOtherNeighbors(n, job[n].src),
                 SendAndWait(net, n, d, job[n].rumors, waiters[n])
          PROVE  IInv'
      <4>1. /\ d \in Node /\ job[n].rumors \in SUBSET Rumor
            /\ \A q \in job[n].rumors : Genuine(q)
            /\ waiters[n] \in SUBSET waiters[n] /\ net \in SUBSET net
        BY <1>c, <1>t DEF TypeOK, getOtherNeighbors, Job, CleanJob
      <4> QED BY <3>1, <3>2, <3>4, <4>1, <1>t, SendAndWaitKeeps
    <3> QED BY <2>4, <3>3, <3>4 DEF forwardRumorsMessage
  <2> QED BY <1>8, <2>1, <2>2, <2>3, <2>4 DEF handleRumor
<1>9. ASSUME NEW p \in net, losePacket(p) PROVE IInv'
  BY <1>9, <1>t, <1>c, QuietStep DEF losePacket
<1>10. CASE UNCHANGED vars
  BY <1>10, <1>t, <1>c, QuietStep DEF vars
<1> QED
  BY <1>1, <1>2, <1>3, <1>4, <1>5, <1>6, <1>7, <1>8, <1>9, <1>10 DEF Next

\* The inductive invariant holds in every behaviour of the gossip layer.
THEOREM Inductive == Spec => []IInv
BY InitIInv, StepIInv, PTL DEF Spec

\* No invented rumor is ever stored, handled, in flight or waiting for an ack.
THEOREM IntegrityHolds == Spec => []Integrity
<1>1. IInv => Integrity
  BY DEF IInv, Integrity, StoresGenuine, JobsClean, CleanJob, WaitersClean,
         CleanWaiter, PacketsHonest, Honest
<1> QED BY <1>1, Inductive, PTL

\* A node can always serve every rumor up to the number it announces.
THEOREM NoGapHolds == Spec => []NoGap
<1>1. IInv => NoGap
  BY DEF IInv
<1> QED BY <1>1, Inductive, PTL

\* No status message or ack in flight ever overclaims.
THEOREM TruthfulStatusHolds == Spec => []TruthfulStatus
<1>1. IInv => TruthfulStatus
  BY DEF IInv, TypeOK, Packet, TruthfulStatus, PacketsHonest,
         Honest, NoPhantom
<1> QED BY <1>1, Inductive, PTL

\* Every ack in flight answers a packet of which its sender accepted a rumor.
THEOREM AckedSomeHolds == Spec => []AckedSome
<1>1. IInv => AckedSome
  BY DEF IInv, AckedSome, PacketsHonest, Honest
<1> QED BY <1>1, Inductive, PTL
=============================================================================
