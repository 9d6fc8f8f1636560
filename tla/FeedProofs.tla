----------------------------- MODULE FeedProofs -----------------------------
(* Proofs about module Feed: what the pages that watch a node receive, for   *)
(* any number of goroutines, packets and connections.                        *)
EXTENDS Feed, FiniteSetTheorems, SequenceTheorems, TLAPS

\* What each connection has received.
Fed == [k \in Conn |-> Delivered(k)]

\* Each packet is processed once: it waits, or one goroutine has seen it, or
\* its handler failed; at most one goroutine of ExecAll runs for it.
OnePerPacket ==
  /\ \A q, r \in Proc : \A i \in DOMAIN seen[q], j \in DOMAIN seen[r] :
       seen[q][i] = seen[r][j] => q = r /\ i = j
  /\ \A q \in Proc : \A i \in DOMAIN seen[q] : seen[q][i] \notin todo
  /\ \A g \in runs : g.pkt \notin todo
  /\ \A g, h \in runs : g.pkt = h.pkt => g = h
  /\ \A k \in Conn : \A i \in DOMAIN Fed[k] : Fed[k][i] \notin todo

\* One goroutine at a time holds the lock of the notifications.
OneHolder == \A g, h \in runs : g.next > 0 /\ h.next > 0 => g = h

\* A connection registers its callback once, and receives nothing before.
Registered ==
  /\ \A i, j \in DOMAIN notif : notif[i] = notif[j] => i = j
  /\ \A i \in DOMAIN notif : conn[notif[i]] \in {"open", "done"}
  /\ \A k \in Conn : conn[k] \in {"none", "registering"} => Fed[k] = <<>>

\* A packet has not reached the callbacks that are still to be called for it.
NotYet ==
  \A g \in runs : \A i \in DOMAIN notif : g.next <= i =>
    \A m \in DOMAIN Fed[notif[i]] : Fed[notif[i]][m] # g.pkt

\* It is the last one that the callbacks called for it have received.
Latest ==
  \A g \in runs : \A i \in DOMAIN notif : i < g.next =>
    /\ Len(Fed[notif[i]]) > 0
    /\ Fed[notif[i]][Len(Fed[notif[i]])] = g.pkt

\* How much the i-th callback has received of a packet that not all have.
Extra(i) == IF \E g \in runs : i < g.next THEN 1 ELSE 0
Settled(i) == Len(Fed[notif[i]]) - Extra(i)

\* Apart from that packet, what a callback has received is a suffix of what an
\* earlier one has received.
Aligned ==
  \A i, j \in DOMAIN notif : i < j =>
    /\ Settled(j) <= Settled(i)
    /\ \A m \in 1 .. Settled(j) :
         Fed[notif[j]][m]
           = Fed[notif[i]][Settled(i) - Settled(j) + m]

\* A connection receives a packet once.
Once ==
  \A k \in Conn : \A i, j \in DOMAIN Fed[k] :
    Fed[k][i] = Fed[k][j] => i = j

\* Unless a ProcessPacket gave up, a goroutine has at most the packet it waits
\* for in ExecAll, and all the pages have its packets in order.
InOrder ==
  ~timedOut =>
    \A q \in Proc :
      /\ \A i \in DOMAIN seen[q], g \in runs :
           g.pkt = seen[q][i] => i = Len(seen[q]) /\ proc[q] = seen[q][i]
      /\ \A k \in Conn : \A i, j \in DOMAIN seen[q] :
           \A a, b \in DOMAIN Fed[k] :
             i < j /\ Fed[k][a] = seen[q][i] /\ Fed[k][b] = seen[q][j]
               => a < b

\* The inductive invariant.
FeedInv ==
  /\ TypeOK
  /\ OnePerPacket
  /\ OneHolder
  /\ Registered
  /\ NotYet
  /\ Latest
  /\ Aligned
  /\ Once
  /\ InOrder

-----------------------------------------------------------------------------
(* What a connection has received *)

LEMMA DeliveredType ==
  ASSUME TypeOK, NEW k \in Conn
  PROVE  /\ Delivered(k) \in Seq(Pkt) /\ Len(Delivered(k)) \in Nat
         /\ DOMAIN Delivered(k) = 1 .. Len(Delivered(k))
<1>1. Delivered(k) \in Seq(Pkt)
  BY ConcatProperties DEF TypeOK, Delivered
<1> QED BY <1>1, LenProperties

LEMMA NotifType ==
  ASSUME TypeOK
  PROVE  /\ notif \in Seq(Conn) /\ Len(notif) \in Nat
         /\ DOMAIN notif = 1 .. Len(notif)
         /\ \A i \in DOMAIN notif : notif[i] \in Conn
<1>1. notif \in Seq(Conn)
  BY DEF TypeOK
<1> QED BY <1>1, LenProperties, ElementOfSeq

\* A packet put into the channel comes last.
LEMMA AppendLast ==
  ASSUME NEW f \in Seq(Pkt), NEW c \in Seq(Pkt), NEW p \in Pkt
  PROVE  f \o Append(c, p) = Append(f \o c, p)
BY AppendIsConcat, ConcatAssociative, ConcatProperties, AppendProperties

\* Writing a packet to the connection moves it from the channel.
LEMMA MoveHead ==
  ASSUME NEW f \in Seq(Pkt), NEW c \in Seq(Pkt), c # <<>>
  PROVE  Append(f, Head(c)) \o Tail(c) = f \o c
<1>1. Head(c) \in Pkt /\ Tail(c) \in Seq(Pkt)
  BY HeadTailProperties
<1>2. Append(f, Head(c)) = f \o <<Head(c)>> /\ <<Head(c)>> \in Seq(Pkt)
  BY <1>1, AppendIsConcat
<1>3. <<Head(c)>> \o Tail(c) = c
  BY HeadTailProperties
<1> QED BY <1>1, <1>2, <1>3, ConcatAssociative

LEMMA FlushSame ==
  ASSUME TypeOK, NEW k \in Conn, flush(k), NEW j \in Conn
  PROVE  Delivered(j)' = Delivered(j)
<1>1. CASE j = k
  <2>1. flushed'[k] = Append(flushed[k], Head(channel[k]))
        /\ channel'[k] = Tail(channel[k])
    BY DEF flush, TypeOK
  <2>2. flushed[k] \in Seq(Pkt) /\ channel[k] \in Seq(Pkt) /\ channel[k] # <<>>
    BY DEF flush, TypeOK
  <2> QED BY <1>1, <2>1, <2>2, MoveHead DEF Delivered
<1>2. CASE j # k
  BY <1>2 DEF flush, TypeOK, Delivered
<1> QED BY <1>1, <1>2

LEMMA CallbackAppends ==
  ASSUME TypeOK, NEW g \in runs, ExecCallback(g), NEW j \in Conn
  PROVE  Delivered(j)' = IF j = notif[g.next] THEN Append(Delivered(j), g.pkt)
                         ELSE Delivered(j)
<1> DEFINE k == notif[g.next]
<1>1. k \in Conn /\ g.pkt \in Pkt
  BY NotifType DEF ExecCallback, TypeOK
<1>2. channel' = [channel EXCEPT ![k] = Append(channel[k], g.pkt)]
      /\ flushed' = flushed
  BY DEF ExecCallback
<1> HIDE DEF k
<1>3. channel[j] \in Seq(Pkt) /\ flushed[j] \in Seq(Pkt)
  BY DEF TypeOK
<1>4. CASE j = k
  <2>1. channel'[j] = Append(channel[j], g.pkt)
    BY <1>1, <1>2, <1>4 DEF TypeOK
  <2>2. flushed[j] \o Append(channel[j], g.pkt)
          = Append(flushed[j] \o channel[j], g.pkt)
    BY <1>1, <1>3, AppendLast
  <2> QED BY <1>2, <1>4, <2>1, <2>2 DEF Delivered, k
<1>5. CASE j # k
  BY <1>1, <1>2, <1>5 DEF TypeOK, Delivered, k
<1> QED BY <1>4, <1>5

LEMMA FedType == TypeOK => Fed \in [Conn -> Seq(Pkt)]
BY DeliveredType DEF Fed

\* Only ExecCallback changes what a connection has received.
LEMMA FedSame ==
  ASSUME TypeOK, UNCHANGED <<flushed, channel>> \/ \E k \in Conn : flush(k)
  PROVE  Fed' = Fed
<1>1. \A j \in Conn : Delivered(j)' = Delivered(j)
  BY FlushSame DEF Delivered
<1> QED BY <1>1 DEF Fed

LEMMA FedAppend ==
  ASSUME TypeOK, NEW g \in runs, ExecCallback(g)
  PROVE  Fed' = [Fed EXCEPT ![notif[g.next]] = Append(Fed[notif[g.next]], g.pkt)]
<1>1. \A j \in Conn : Delivered(j)' =
        IF j = notif[g.next] THEN Append(Delivered(j), g.pkt) ELSE Delivered(j)
  BY CallbackAppends
<1>2. notif[g.next] \in Conn
  BY NotifType DEF ExecCallback
<1> QED BY <1>1, <1>2 DEF Fed

\* No connection registers twice, so the callbacks are not more than MaxConn.
LEMMA NotifLength ==
  ASSUME TypeOK, Registered
  PROVE  Len(notif) <= MaxConn
<1>0. MaxConn \in Nat /\ Len(notif) \in Nat
  BY FeedAssumption, NotifType
<1>1. notif \in Injection(1 .. Len(notif), 1 .. MaxConn)
  <2>1. notif \in [1 .. Len(notif) -> 1 .. MaxConn]
    BY NotifType, LenProperties DEF Conn
  <2>2. \A a, b \in 1 .. Len(notif) : notif[a] = notif[b] => a = b
    BY NotifType DEF Registered
  <2> QED BY <2>1, <2>2 DEF Injection, IsInjective
<1>2. ASSUME NEW n \in Nat
      PROVE  IsFiniteSet(1 .. n) /\ Cardinality(1 .. n) = n
  <2>1. IsFiniteSet(1 .. n) /\ Cardinality(1 .. n) = IF 1 > n THEN 0 ELSE n - 1 + 1
    BY FS_Interval
  <2> QED BY <2>1
<1>3. Cardinality(1 .. Len(notif)) <= Cardinality(1 .. MaxConn)
  BY <1>0, <1>1, <1>2, FS_Injection DEF ExistsInjection
<1> QED BY <1>0, <1>2, <1>3

-----------------------------------------------------------------------------
(* Types *)

LEMMA MovesType ==
  ASSUME TypeOK, NEW g \in runs, NEW n \in 0 .. MaxConn + 1, Moves(g, n)
  PROVE  runs' \subseteq [pkt : Pkt, next : 0 .. MaxConn + 1]
<1>1. g \in [pkt : Pkt, next : 0 .. MaxConn + 1]
  BY DEF TypeOK
<1>2. [g EXCEPT !.next = n] \in [pkt : Pkt, next : 0 .. MaxConn + 1]
  BY <1>1
<1> QED BY <1>2 DEF TypeOK, Moves

LEMMA TypeStep ==
  ASSUME TypeOK, Registered, Next
  PROVE  TypeOK'
<1> USE FeedAssumption
<1>1. ASSUME NEW q \in Proc, NEW p \in todo, ProcessPacket(q, p)
      PROVE  TypeOK'
  <2>1. p \in Pkt
    BY DEF TypeOK
  <2>2. seen' \in [Proc -> Seq(Pkt)]
    BY <1>1, <2>1, AppendProperties DEF TypeOK, ProcessPacket
  <2>3. proc' \in [Proc -> Pkt \cup {NoPkt}]
    BY <1>1, <2>1 DEF TypeOK, ProcessPacket
  <2>4. runs' \subseteq [pkt : Pkt, next : 0 .. MaxConn + 1]
    BY <1>1, <2>1 DEF TypeOK, ProcessPacket
  <2> QED BY <1>1, <2>2, <2>3, <2>4 DEF TypeOK, ProcessPacket, Begins
<1>2. ASSUME NEW q \in Proc, NEW p \in todo, ProcessFailed(q, p)
      PROVE  TypeOK'
  BY <1>2 DEF TypeOK, ProcessFailed, Begins
<1>3. ASSUME NEW q \in Proc, ProcessDone(q) \/ ProcessTimeout(q)
      PROVE  TypeOK'
  <2>1. proc' \in [Proc -> Pkt \cup {NoPkt}]
    BY <1>3 DEF TypeOK, ProcessDone, ProcessTimeout
  <2>2. timedOut' \in BOOLEAN
    BY <1>3 DEF TypeOK, ProcessDone, ProcessTimeout
  <2> QED BY <1>3, <2>1, <2>2 DEF TypeOK, ProcessDone, ProcessTimeout
<1>4. ASSUME NEW g \in runs, ExecLock(g) PROVE TypeOK'
  <2>1. 1 \in 0 .. MaxConn + 1 /\ Moves(g, 1)
    BY <1>4 DEF ExecLock
  <2>2. runs' \subseteq [pkt : Pkt, next : 0 .. MaxConn + 1]
    BY <2>1, MovesType
  <2> QED BY <1>4, <2>2 DEF TypeOK, ExecLock
<1>5. ASSUME NEW g \in runs, ExecCallback(g) PROVE TypeOK'
  <2> DEFINE k == notif[g.next]
  <2>1. g.next \in 1 .. Len(notif) /\ Len(notif) \in Nat /\ Len(notif) <= MaxConn
        /\ k \in Conn /\ g.pkt \in Pkt
    BY <1>5, NotifType, NotifLength DEF ExecCallback, TypeOK
  <2>2. g.next + 1 \in 0 .. MaxConn + 1 /\ Moves(g, g.next + 1)
    BY <1>5, <2>1 DEF ExecCallback
  <2>3. runs' \subseteq [pkt : Pkt, next : 0 .. MaxConn + 1]
    BY <2>2, MovesType
  <2>4. /\ Len(channel[k]) < ChanCap
        /\ channel' = [channel EXCEPT ![k] = Append(channel[k], g.pkt)]
        /\ UNCHANGED <<todo, seen, proc, notif, conn, left, flushed, timedOut>>
    BY <1>5 DEF ExecCallback
  <2> HIDE DEF k
  <2>5. Append(channel[k], g.pkt) \in Seq(Pkt)
        /\ Len(Append(channel[k], g.pkt)) = Len(channel[k]) + 1
        /\ Len(channel[k]) \in Nat
    BY <2>1, AppendProperties, LenProperties DEF TypeOK
  <2>6. channel' \in [Conn -> Seq(Pkt)]
    BY <2>1, <2>4, <2>5 DEF TypeOK
  <2>7. ASSUME NEW j \in Conn PROVE Len(channel'[j]) <= ChanCap
    <3>1. CASE j = k
      <4>1. channel'[j] = Append(channel[k], g.pkt)
        BY <2>1, <2>4, <3>1 DEF TypeOK
      <4> QED BY <2>4, <2>5, <4>1
    <3>2. CASE j # k
      BY <2>1, <2>4, <3>2 DEF TypeOK
    <3> QED BY <3>1, <3>2
  <2> QED BY <2>3, <2>4, <2>6, <2>7 DEF TypeOK
<1>6. ASSUME NEW g \in runs, ExecDone(g) PROVE TypeOK'
  BY <1>6 DEF TypeOK, ExecDone
<1>7. ASSUME NEW k \in Conn, RegisterNotify(k) PROVE TypeOK'
  <2>1. notif' \in Seq(Conn)
    BY <1>7, AppendProperties DEF TypeOK, RegisterNotify
  <2>2. conn' \in [Conn -> {"none", "registering", "open", "done"}]
    BY <1>7 DEF TypeOK, RegisterNotify
  <2> QED BY <1>7, <2>1, <2>2 DEF TypeOK, RegisterNotify
<1>8. ASSUME NEW k \in Conn, flush(k) PROVE TypeOK'
  <2>1. channel[k] \in Seq(Pkt) /\ channel[k] # <<>> /\ flushed[k] \in Seq(Pkt)
        /\ Len(channel[k]) <= ChanCap
    BY <1>8 DEF TypeOK, flush
  <2>2. /\ Head(channel[k]) \in Pkt /\ Tail(channel[k]) \in Seq(Pkt)
        /\ Len(Tail(channel[k])) = Len(channel[k]) - 1 /\ Len(channel[k]) \in Nat
    BY <2>1, HeadTailProperties, LenProperties
  <2>3. flushed' \in [Conn -> Seq(Pkt)]
    BY <1>8, <2>1, <2>2, AppendProperties DEF TypeOK, flush
  <2>4. channel' \in [Conn -> Seq(Pkt)]
    BY <1>8, <2>2 DEF TypeOK, flush
  <2>5. \A j \in Conn : Len(channel'[j]) <= ChanCap
    BY <1>8, <2>1, <2>2 DEF TypeOK, flush
  <2> QED BY <1>8, <2>3, <2>4, <2>5 DEF TypeOK, flush
<1>9. ASSUME NEW k \in Conn, ContextDone(k) \/ Connects(k) \/ Leaves(k)
      PROVE  TypeOK'
  BY <1>9 DEF TypeOK, ContextDone, Connects, Leaves
<1> QED BY <1>1, <1>2, <1>3, <1>4, <1>5, <1>6, <1>7, <1>8, <1>9 DEF Next

-----------------------------------------------------------------------------
(* Steps *)

\* A step that no callback is called in and that no callback sees.
LEMMA QuietKeeps ==
  ASSUME FeedInv, TypeOK', Fed' = Fed, UNCHANGED <<runs, notif, seen>>,
         todo' \subseteq todo, InOrder',
         \A k \in Conn :
           /\ conn[k] \in {"open", "done"} => conn'[k] \in {"open", "done"}
           /\ conn'[k] \in {"none", "registering"} =>
                conn[k] \in {"none", "registering"}
  PROVE  FeedInv'
<1>1. OnePerPacket'
  BY DEF FeedInv, OnePerPacket
<1>2. OneHolder' /\ Once'
  BY DEF FeedInv, OneHolder, Once
<1>3. Registered'
  BY NotifType DEF FeedInv, Registered
<1>4. NotYet' /\ Latest'
  BY DEF FeedInv, NotYet, Latest
<1>5. Aligned'
  <2>1. \A i \in DOMAIN notif : Extra(i)' = Extra(i)
    BY DEF Extra
  <2>2. \A i \in DOMAIN notif : Settled(i)' = Settled(i)
    BY <2>1 DEF Settled
  <2> QED BY <2>2 DEF FeedInv, Aligned
<1> QED BY <1>1, <1>2, <1>3, <1>4, <1>5 DEF FeedInv

\* The connections' own steps, and packets whose handler fails.
LEMMA ConnKeeps ==
  ASSUME FeedInv, TypeOK',
         \/ \E k \in Conn : flush(k) \/ ContextDone(k) \/ Connects(k) \/ Leaves(k)
         \/ \E q \in Proc, p \in todo : ProcessFailed(q, p)
  PROVE  FeedInv'
<1>1. /\ UNCHANGED <<runs, notif, seen, proc, timedOut>> /\ todo' \subseteq todo
      /\ UNCHANGED <<flushed, channel>> \/ \E k \in Conn : flush(k)
  BY DEF flush, ContextDone, Connects, Leaves, ProcessFailed, Begins
<1>2. Fed' = Fed
  BY <1>1, FedSame DEF FeedInv
<1>3. InOrder'
  BY <1>1, <1>2 DEF FeedInv, InOrder
<1>4. \A k \in Conn :
        /\ conn[k] \in {"open", "done"} => conn'[k] \in {"open", "done"}
        /\ conn'[k] \in {"none", "registering"} => conn[k] \in {"none", "registering"}
  <2>1. \/ UNCHANGED conn
        \/ \E j \in Conn : ContextDone(j) \/ Connects(j)
    BY DEF flush, Leaves, ProcessFailed
  <2>2. \A j \in Conn : ContextDone(j) \/ Connects(j) =>
          \/ conn[j] = "open" /\ conn' = [conn EXCEPT ![j] = "done"]
          \/ conn[j] = "none" /\ conn' = [conn EXCEPT ![j] = "registering"]
    BY DEF ContextDone, Connects
  <2> QED BY <2>1, <2>2 DEF FeedInv, TypeOK
<1> QED BY <1>1, <1>2, <1>3, <1>4, QuietKeeps

\* A ProcessPacket returns: its callbacks are done, or it has timed out.
LEMMA ReturnKeeps ==
  ASSUME FeedInv, TypeOK', NEW q \in Proc, ProcessDone(q) \/ ProcessTimeout(q)
  PROVE  FeedInv'
<1>1. UNCHANGED <<runs, notif, seen, conn, todo, flushed, channel>>
  BY DEF ProcessDone, ProcessTimeout
<1>2. Fed' = Fed
  BY <1>1, FedSame DEF FeedInv
<1>3. InOrder'
  <2>1. CASE ProcessTimeout(q)
    BY <2>1 DEF ProcessTimeout, InOrder
  <2>2. CASE ProcessDone(q)
    <3> SUFFICES ASSUME ~timedOut', NEW r \in Proc, NEW i \in DOMAIN seen[r],
                        NEW g \in runs, g.pkt = seen[r][i]
                 PROVE  i = Len(seen[r]) /\ proc'[r] = seen[r][i]
      BY <1>1, <1>2, <2>2 DEF FeedInv, InOrder, ProcessDone
    <3>1. i = Len(seen[r]) /\ proc[r] = seen[r][i]
      BY <2>2 DEF FeedInv, InOrder, ProcessDone
    <3>2. r # q
      BY <2>2, <3>1 DEF ProcessDone
    <3> QED BY <2>2, <3>1, <3>2 DEF ProcessDone, FeedInv, TypeOK
  <2> QED BY <2>1, <2>2
<1> QED BY <1>1, <1>2, <1>3, QuietKeeps

\* A packet is handed to ExecAll: nobody has seen it before.
LEMMA ProcessKeeps ==
  ASSUME FeedInv, TypeOK', NEW q \in Proc, NEW p \in todo, ProcessPacket(q, p)
  PROVE  FeedInv'
<1> DEFINE new == [pkt |-> p, next |-> 0]
<1>0. /\ proc[q] = NoPkt /\ todo' = todo \ {p} /\ p \in Pkt
      /\ seen' = [seen EXCEPT ![q] = Append(seen[q], p)]
      /\ runs' = runs \cup {new} /\ proc' = [proc EXCEPT ![q] = p]
      /\ UNCHANGED <<notif, channel, conn, left, flushed, timedOut>>
  BY DEF ProcessPacket, Begins, FeedInv, TypeOK
<1>1. Fed' = Fed
  BY <1>0, FedSame DEF FeedInv
<1>2. new.pkt = p /\ new.next = 0
  OBVIOUS
<1> HIDE DEF new
<1>3. /\ \A r \in Proc : /\ seen[r] \in Seq(Pkt) /\ Len(seen[r]) \in Nat
                         /\ DOMAIN seen[r] = 1 .. Len(seen[r])
      /\ seen'[q] = Append(seen[q], p)
      /\ \A r \in Proc : r # q => seen'[r] = seen[r]
  BY <1>0, LenProperties DEF FeedInv, TypeOK
<1>4. /\ DOMAIN seen'[q] = 1 .. Len(seen[q]) + 1 /\ Len(seen'[q]) = Len(seen[q]) + 1
      /\ seen'[q][Len(seen[q]) + 1] = p
      /\ \A i \in 1 .. Len(seen[q]) : seen'[q][i] = seen[q][i]
  BY <1>0, <1>3, AppendProperties, LenProperties
<1>5. \A r \in Proc : \A i \in DOMAIN seen'[r] :
        \/ i \in DOMAIN seen[r] /\ seen'[r][i] = seen[r][i]
        \/ r = q /\ i = Len(seen[q]) + 1 /\ seen'[r][i] = p
  BY <1>3, <1>4
<1>6. \A r \in Proc : \A i \in DOMAIN seen[r] : seen[r][i] # p
  BY DEF FeedInv, OnePerPacket
<1>7. \A g \in runs : g.pkt # p
  BY DEF FeedInv, OnePerPacket
<1>8. \A k \in Conn : \A i \in DOMAIN Fed[k] : Fed[k][i] # p
  BY DEF FeedInv, OnePerPacket
<1>9. OnePerPacket'
  <2>1. \A r, t \in Proc : \A i \in DOMAIN seen'[r], j \in DOMAIN seen'[t] :
          seen'[r][i] = seen'[t][j] => r = t /\ i = j
    BY <1>5, <1>6 DEF FeedInv, OnePerPacket
  <2>2. \A r \in Proc : \A i \in DOMAIN seen'[r] : seen'[r][i] \notin todo'
    BY <1>0, <1>5 DEF FeedInv, OnePerPacket
  <2>3. \A g \in runs' : g.pkt \notin todo'
    BY <1>0, <1>2 DEF FeedInv, OnePerPacket
  <2>4. \A g, h \in runs' : g.pkt = h.pkt => g = h
    BY <1>0, <1>2, <1>7 DEF FeedInv, OnePerPacket
  <2>5. \A k \in Conn : \A i \in DOMAIN Fed'[k] : Fed'[k][i] \notin todo'
    BY <1>0, <1>1 DEF FeedInv, OnePerPacket
  <2> QED BY <2>1, <2>2, <2>3, <2>4, <2>5 DEF OnePerPacket
<1>10. OneHolder' /\ Once'
  BY <1>0, <1>1, <1>2 DEF FeedInv, OneHolder, Once
<1>11. Registered'
  BY <1>0, <1>1 DEF FeedInv, Registered
<1>12. NotYet'
  <2>1. \A i \in DOMAIN notif : notif[i] \in Conn
    BY NotifType DEF FeedInv
  <2> QED BY <1>0, <1>1, <1>2, <1>8, <2>1 DEF FeedInv, NotYet
<1>13. Latest'
  <2>1. \A i \in DOMAIN notif : ~(i < 0)
    BY NotifType DEF FeedInv
  <2> QED BY <1>0, <1>1, <1>2, <2>1 DEF FeedInv, Latest
<1>14. Aligned'
  <2>1. \A i \in DOMAIN notif : ~(i < 0)
    BY NotifType DEF FeedInv
  <2>2. \A i \in DOMAIN notif : Extra(i)' = Extra(i)
    BY <1>0, <1>2, <2>1 DEF Extra
  <2>3. \A i \in DOMAIN notif : Settled(i)' = Settled(i)
    BY <1>0, <1>1, <2>2 DEF Settled
  <2> QED BY <1>0, <1>1, <2>3 DEF FeedInv, Aligned
<1>15. InOrder'
  <2> SUFFICES ASSUME ~timedOut, NEW r \in Proc
               PROVE  /\ \A i \in DOMAIN seen'[r], g \in runs' :
                           g.pkt = seen'[r][i] =>
                             i = Len(seen'[r]) /\ proc'[r] = seen'[r][i]
                      /\ \A k \in Conn : \A i, j \in DOMAIN seen'[r] :
                           \A a, b \in DOMAIN Fed[k] :
                             i < j /\ Fed[k][a] = seen'[r][i]
                                   /\ Fed[k][b] = seen'[r][j] => a < b
    BY <1>0, <1>1 DEF InOrder
  <2>1. ASSUME NEW i \in DOMAIN seen'[r], NEW g \in runs', g.pkt = seen'[r][i]
        PROVE  i = Len(seen'[r]) /\ proc'[r] = seen'[r][i]
    <3>1. CASE i \in DOMAIN seen[r] /\ seen'[r][i] = seen[r][i]
      <4>1. g \in runs
        BY <1>0, <1>2, <1>6, <2>1, <3>1
      <4>2. i = Len(seen[r]) /\ proc[r] = seen[r][i]
        BY <2>1, <3>1, <4>1 DEF FeedInv, InOrder
      <4>3. seen[r][i] \in Pkt
        BY <1>3, <3>1, ElementOfSeq
      <4>4. r # q
        BY <1>0, <4>2, <4>3, FeedAssumption
      <4> QED BY <1>0, <1>3, <3>1, <4>2, <4>4 DEF FeedInv, TypeOK
    <3>2. CASE r = q /\ i = Len(seen[q]) + 1 /\ seen'[r][i] = p
      BY <1>0, <1>4, <3>2 DEF FeedInv, TypeOK
    <3> QED BY <1>5, <3>1, <3>2
  <2>2. ASSUME NEW k \in Conn, NEW i \in DOMAIN seen'[r], NEW j \in DOMAIN seen'[r],
               NEW a \in DOMAIN Fed[k], NEW b \in DOMAIN Fed[k],
               i < j, Fed[k][a] = seen'[r][i], Fed[k][b] = seen'[r][j]
        PROVE  a < b
    <3>1. seen'[r][i] # p /\ seen'[r][j] # p
      BY <1>8, <2>2
    <3>2. /\ i \in DOMAIN seen[r] /\ seen'[r][i] = seen[r][i]
          /\ j \in DOMAIN seen[r] /\ seen'[r][j] = seen[r][j]
      BY <1>5, <3>1
    <3> QED BY <2>2, <3>2 DEF FeedInv, InOrder
  <2> QED BY <2>1, <2>2
<1> QED BY <1>9, <1>10, <1>11, <1>12, <1>13, <1>14, <1>15 DEF FeedInv

\* A goroutine of ExecAll keeps its packet.
LEMMA MovesFacts ==
  ASSUME FeedInv, NEW g \in runs, NEW n \in 0 .. MaxConn + 1, Moves(g, n)
  PROVE  \E h : /\ runs' = (runs \ {g}) \cup {h} /\ h.pkt = g.pkt /\ h.next = n
<1>1. g \in [pkt : Pkt, next : 0 .. MaxConn + 1]
  BY DEF FeedInv, TypeOK
<1> DEFINE h == [g EXCEPT !.next = n]
<1>2. h.pkt = g.pkt /\ h.next = n
  BY <1>1
<1>3. runs' = (runs \ {g}) \cup {h}
  BY DEF Moves
<1> HIDE DEF h
<1> QED BY <1>2, <1>3

\* A goroutine of ExecAll takes the lock, which nobody holds.
LEMMA LockKeeps ==
  ASSUME FeedInv, TypeOK', NEW g \in runs, ExecLock(g)
  PROVE  FeedInv'
<1>0. /\ g.next = 0 /\ \A x \in runs : x.next = 0
      /\ UNCHANGED <<todo, seen, proc, notif, channel, conn, left, flushed, timedOut>>
      /\ Moves(g, 1)
  BY DEF ExecLock, Unlocked
<1>1. PICK h : runs' = (runs \ {g}) \cup {h} /\ h.pkt = g.pkt /\ h.next = 1
  <2>1. 1 \in 0 .. MaxConn + 1
    BY FeedAssumption
  <2> QED BY <1>0, <2>1, MovesFacts
<1>2. Fed' = Fed
  BY <1>0, FedSame DEF FeedInv
<1>3. \A i \in DOMAIN notif : i \in Nat /\ i >= 1 /\ notif[i] \in Conn
  BY NotifType DEF FeedInv
<1>4. OnePerPacket'
  BY <1>0, <1>1, <1>2 DEF FeedInv, OnePerPacket
<1>5. OneHolder' /\ Once'
  BY <1>0, <1>1, <1>2 DEF FeedInv, OneHolder, Once
<1>6. Registered'
  BY <1>0, <1>2 DEF FeedInv, Registered
<1>7. NotYet'
  <2>1. \A x \in runs' : \E y \in runs : x.pkt = y.pkt /\ y.next = 0
    BY <1>0, <1>1
  <2> QED BY <1>0, <1>2, <1>3, <2>1 DEF FeedInv, NotYet
<1>8. Latest'
  BY <1>0, <1>1, <1>2, <1>3 DEF FeedInv, Latest
<1>9. Aligned'
  <2>1. \A i \in DOMAIN notif : Extra(i)' = Extra(i)
    BY <1>0, <1>1, <1>3 DEF Extra
  <2>2. \A i \in DOMAIN notif : Settled(i)' = Settled(i)
    BY <1>0, <1>2, <2>1 DEF Settled
  <2> QED BY <1>0, <1>2, <2>2 DEF FeedInv, Aligned
<1>10. InOrder'
  <2>1. \A x \in runs' : \E y \in runs : x.pkt = y.pkt
    BY <1>1
  <2> QED BY <1>0, <1>2, <2>1 DEF FeedInv, InOrder
<1> QED BY <1>4, <1>5, <1>6, <1>7, <1>8, <1>9, <1>10 DEF FeedInv

\* A callback puts the packet behind what its connection has received.
LEMMA CallbackKeeps ==
  ASSUME FeedInv, TypeOK', NEW g \in runs, ExecCallback(g)
  PROVE  FeedInv'
<1> DEFINE n == g.next
           k == notif[n]
           p == g.pkt
<1>0. /\ n \in DOMAIN notif /\ Moves(g, n + 1)
      /\ UNCHANGED <<todo, seen, proc, notif, conn, left, flushed, timedOut>>
  BY DEF ExecCallback
<1>1. /\ \A i \in DOMAIN notif : i \in Nat /\ i >= 1 /\ notif[i] \in Conn
      /\ n \in 1 .. Len(notif) /\ Len(notif) \in Nat /\ Len(notif) <= MaxConn
      /\ k \in Conn /\ p \in Pkt /\ MaxConn \in Nat
  <2>1. TypeOK /\ Registered
    BY DEF FeedInv
  <2>2. DOMAIN notif = 1 .. Len(notif) /\ Len(notif) \in Nat
        /\ \A i \in DOMAIN notif : notif[i] \in Conn
    BY <2>1, NotifType
  <2>3. Len(notif) <= MaxConn /\ MaxConn \in Nat
    BY <2>1, NotifLength, FeedAssumption
  <2>4. p \in Pkt
    BY <2>1 DEF TypeOK
  <2> QED BY <1>0, <2>2, <2>3, <2>4
<1>2. PICK h : runs' = (runs \ {g}) \cup {h} /\ h.pkt = p /\ h.next = n + 1
  <2>1. n + 1 \in 0 .. MaxConn + 1
    BY <1>1
  <2> HIDE DEF n
  <2> QED BY <1>0, <2>1, MovesFacts DEF n
<1>3. Fed' = [Fed EXCEPT ![k] = Append(Fed[k], p)]
  BY FedAppend DEF FeedInv
<1>4. /\ Fed \in [Conn -> Seq(Pkt)]
      /\ \A j \in Conn : /\ Fed[j] \in Seq(Pkt) /\ Len(Fed[j]) \in Nat
                          /\ DOMAIN Fed[j] = 1 .. Len(Fed[j])
  <2>1. Fed \in [Conn -> Seq(Pkt)]
    BY FedType DEF FeedInv
  <2> QED BY <2>1, LenProperties
<1> DEFINE len == Len(Fed[k])
<1>5. /\ Fed'[k] = Append(Fed[k], p) /\ Len(Fed'[k]) = len + 1
      /\ DOMAIN Fed'[k] = 1 .. len + 1 /\ Fed'[k][len + 1] = p
      /\ \A m \in 1 .. len : Fed'[k][m] = Fed[k][m]
      /\ \A j \in Conn : j # k => Fed'[j] = Fed[j]
  BY <1>1, <1>3, <1>4, AppendProperties, LenProperties
<1>6. \A m \in 1 .. len : Fed[k][m] # p
  BY <1>0, <1>1, <1>4 DEF FeedInv, NotYet
<1>7. \A x \in runs : x # g => x.next = 0 /\ x.pkt # p
  <2> TAKE x \in runs
  <2>1. x.next \in Nat
    BY DEF FeedInv, TypeOK
  <2>2. g.next > 0
    BY <1>1
  <2>3. x.next > 0 => x = g
    BY <2>2 DEF FeedInv, OneHolder
  <2>4. x.pkt = p => x = g
    BY DEF FeedInv, OnePerPacket
  <2> QED BY <2>1, <2>3, <2>4
<1>8. \A i \in DOMAIN notif : notif[i] = k => i = n
  BY <1>0 DEF FeedInv, Registered
<1>9. g.next = n /\ g.pkt = p /\ notif[n] = k /\ len \in Nat
      /\ DOMAIN Fed[k] = 1 .. len
  BY <1>1, <1>4
<1>10. \A j \in Conn : \A m \in DOMAIN Fed'[j] :
         \/ m \in DOMAIN Fed[j] /\ Fed'[j][m] = Fed[j][m]
         \/ j = k /\ m = len + 1 /\ Fed'[j][m] = p
  BY <1>5, <1>9
<1> HIDE DEF n, k, p, len
<1>11. OnePerPacket'
  <2>1. \A x \in runs' : \E y \in runs : x.pkt = y.pkt
    BY <1>2, <1>9
  <2>2. \A x \in runs' : x.pkt \notin todo
    BY <2>1 DEF FeedInv, OnePerPacket
  <2>3. \A x, y \in runs' : x.pkt = y.pkt => x = y
    BY <1>2, <1>7 DEF FeedInv, OnePerPacket
  <2>4. p \notin todo
    BY <1>9 DEF FeedInv, OnePerPacket
  <2>5. \A j \in Conn : \A i \in DOMAIN Fed'[j] : Fed'[j][i] \notin todo
    BY <1>10, <2>4 DEF FeedInv, OnePerPacket
  <2> QED BY <1>0, <2>2, <2>3, <2>5 DEF FeedInv, OnePerPacket
<1>12. OneHolder'
  BY <1>2, <1>7 DEF OneHolder
<1>13. Once'
  <2> SUFFICES ASSUME NEW j \in Conn, NEW a \in DOMAIN Fed'[j],
                      NEW b \in DOMAIN Fed'[j], Fed'[j][a] = Fed'[j][b]
               PROVE  a = b
    BY DEF Once
  <2>1. CASE j = k
    BY <1>6, <1>9, <1>10, <2>1 DEF FeedInv, Once
  <2>2. CASE j # k
    BY <1>10, <2>2 DEF FeedInv, Once
  <2> QED BY <2>1, <2>2
<1>14. Registered'
  <2>1. conn[k] \in {"open", "done"}
    BY <1>0, <1>9 DEF FeedInv, Registered
  <2>2. \A j \in Conn : conn[j] \in {"none", "registering"} => j # k
    BY <2>1
  <2>3. \A j \in Conn : conn[j] \in {"none", "registering"} => Fed'[j] = <<>>
    BY <1>5, <2>2 DEF FeedInv, Registered
  <2> QED BY <1>0, <2>3 DEF FeedInv, Registered
<1>15. NotYet'
  <2> SUFFICES ASSUME NEW x \in runs', NEW i \in DOMAIN notif, x.next <= i,
                      NEW m \in DOMAIN Fed'[notif[i]]
               PROVE  Fed'[notif[i]][m] # x.pkt
    BY <1>0 DEF NotYet
  <2>1. CASE x = h
    <3>1. i # n /\ n <= i
      BY <1>1, <1>2, <2>1
    <3>2. notif[i] # k
      BY <1>8, <3>1
    <3>3. Fed'[notif[i]] = Fed[notif[i]]
      BY <1>1, <1>5, <3>2
    <3> QED BY <1>2, <1>9, <2>1, <3>1, <3>3 DEF FeedInv, NotYet
  <2>2. CASE x \in runs /\ x # g
    <3>1. x.next = 0 /\ x.pkt # p
      BY <1>7, <2>2
    <3>2. \A l \in DOMAIN Fed[notif[i]] : Fed[notif[i]][l] # x.pkt
      BY <2>2 DEF FeedInv, NotYet
    <3> QED BY <1>1, <1>10, <3>1, <3>2
  <2> QED BY <1>2, <2>1, <2>2
<1>16. Latest'
  <2> SUFFICES ASSUME NEW x \in runs', NEW i \in DOMAIN notif, i < x.next
               PROVE  /\ Len(Fed'[notif[i]]) > 0
                      /\ Fed'[notif[i]][Len(Fed'[notif[i]])] = x.pkt
    BY <1>0 DEF Latest
  <2>1. x = h
    BY <1>1, <1>2, <1>7
  <2>2. CASE i = n
    BY <1>2, <1>5, <1>9, <2>1, <2>2
  <2>3. CASE i # n
    <3>1. i < n
      BY <1>1, <1>2, <2>1, <2>3
    <3>2. Fed'[notif[i]] = Fed[notif[i]]
      BY <1>1, <1>5, <1>8, <2>3
    <3> QED BY <1>2, <1>9, <2>1, <3>1, <3>2 DEF FeedInv, Latest
  <2> QED BY <2>2, <2>3
<1>17. Aligned'
  <2>1. \A i \in DOMAIN notif : Extra(i) = IF i < n THEN 1 ELSE 0
    <3>1. \A x \in runs : \A i \in DOMAIN notif : i < x.next => x = g
      BY <1>1, <1>7
    <3> QED BY <1>9, <3>1 DEF Extra
  <2>2. \A i \in DOMAIN notif : Extra(i)' = IF i < n + 1 THEN 1 ELSE 0
    <3>1. \A x \in runs' : \A i \in DOMAIN notif : i < x.next => x = h
      BY <1>1, <1>2, <1>7
    <3>2. h \in runs' /\ h.next = n + 1
      BY <1>2
    <3> QED BY <3>1, <3>2 DEF Extra
  <2>3. \A i \in DOMAIN notif : Settled(i)' = Settled(i) /\ Settled(i) \in Int
                                 /\ Settled(i) <= Len(Fed[notif[i]])
    <3> TAKE i \in DOMAIN notif
    <3>1. Settled(i)' = Len(Fed'[notif[i]]) - Extra(i)'
      BY <1>0 DEF Settled
    <3>2. CASE i = n
      BY <1>1, <1>5, <1>9, <2>1, <2>2, <3>1, <3>2 DEF Settled
    <3>3. CASE i # n
      <4>1. Fed'[notif[i]] = Fed[notif[i]] /\ Len(Fed[notif[i]]) \in Nat
        BY <1>1, <1>4, <1>5, <1>8, <3>3
      <4>2. Extra(i)' = Extra(i) /\ Extra(i) \in {0, 1}
        BY <1>1, <2>1, <2>2, <3>3
      <4> QED BY <3>1, <4>1, <4>2 DEF Settled
    <3> QED BY <3>2, <3>3
  <2>4. \A i \in DOMAIN notif : \A m \in 1 .. Settled(i) :
          Fed'[notif[i]][m] = Fed[notif[i]][m]
    <3> TAKE i \in DOMAIN notif
    <3> TAKE m \in 1 .. Settled(i)
    <3>1. m \in 1 .. Len(Fed[notif[i]])
      BY <1>1, <1>4, <2>3
    <3> QED BY <1>1, <1>5, <1>9, <3>1 DEF len
  <2> SUFFICES ASSUME NEW i \in DOMAIN notif, NEW j \in DOMAIN notif, i < j
               PROVE  /\ Settled(j) <= Settled(i)
                      /\ \A m \in 1 .. Settled(j) :
                           Fed'[notif[j]][m]
                             = Fed'[notif[i]][Settled(i) - Settled(j) + m]
    BY <1>0, <2>3 DEF Aligned
  <2>5. /\ Settled(j) <= Settled(i)
        /\ \A m \in 1 .. Settled(j) :
             Fed[notif[j]][m] = Fed[notif[i]][Settled(i) - Settled(j) + m]
    BY DEF FeedInv, Aligned
  <2>6. \A m \in 1 .. Settled(j) : Settled(i) - Settled(j) + m \in 1 .. Settled(i)
    BY <2>3, <2>5
  <2> QED BY <2>4, <2>5, <2>6
<1>18. InOrder'
  <2> SUFFICES ASSUME ~timedOut, NEW r \in Proc
               PROVE  /\ \A i \in DOMAIN seen[r], x \in runs' :
                           x.pkt = seen[r][i] =>
                             i = Len(seen[r]) /\ proc[r] = seen[r][i]
                      /\ \A j \in Conn : \A i, l \in DOMAIN seen[r] :
                           \A a, b \in DOMAIN Fed'[j] :
                             i < l /\ Fed'[j][a] = seen[r][i]
                                   /\ Fed'[j][b] = seen[r][l] => a < b
    BY <1>0 DEF InOrder
  <2>1. \A x \in runs' : \E y \in runs : x.pkt = y.pkt
    BY <1>2, <1>9
  <2>2. \A i \in DOMAIN seen[r], x \in runs :
          x.pkt = seen[r][i] => i = Len(seen[r]) /\ proc[r] = seen[r][i]
    BY DEF FeedInv, InOrder
  <2>3. \A j \in Conn : \A i, l \in DOMAIN seen[r] : \A a, b \in DOMAIN Fed[j] :
          i < l /\ Fed[j][a] = seen[r][i] /\ Fed[j][b] = seen[r][l] => a < b
    BY DEF FeedInv, InOrder
  <2>4. ASSUME NEW j \in Conn, NEW i \in DOMAIN seen[r], NEW l \in DOMAIN seen[r],
               NEW a \in DOMAIN Fed'[j], NEW b \in DOMAIN Fed'[j],
               i < l, Fed'[j][a] = seen[r][i], Fed'[j][b] = seen[r][l]
        PROVE  a < b
    <3>1. DOMAIN seen[r] = 1 .. Len(seen[r]) /\ Len(seen[r]) \in Nat
      BY LenProperties DEF FeedInv, TypeOK
    <3>2. seen[r][i] # p
      BY <1>9, <2>2, <2>4, <3>1
    <3>3. a \in DOMAIN Fed[j] /\ Fed[j][a] = seen[r][i]
      BY <1>10, <2>4, <3>2
    <3>4. CASE b \in DOMAIN Fed[j] /\ Fed'[j][b] = Fed[j][b]
      BY <2>4, <2>3, <3>3, <3>4
    <3>5. CASE j = k /\ b = len + 1
      BY <1>9, <3>3, <3>5
    <3> QED BY <1>10, <3>4, <3>5
  <2> QED BY <2>1, <2>2, <2>4
<1> QED BY <1>11, <1>12, <1>13, <1>14, <1>15, <1>16, <1>17, <1>18 DEF FeedInv

\* ExecAll has called all callbacks: they all have the packet.
LEMMA DoneKeeps ==
  ASSUME FeedInv, TypeOK', NEW g \in runs, ExecDone(g)
  PROVE  FeedInv'
<1>0. /\ g.next = Len(notif) + 1 /\ runs' = runs \ {g}
      /\ UNCHANGED <<todo, seen, proc, notif, channel, conn, left, flushed, timedOut>>
  BY DEF ExecDone
<1>1. Fed' = Fed
  BY <1>0, FedSame DEF FeedInv
<1>2. /\ Len(notif) \in Nat /\ DOMAIN notif = 1 .. Len(notif)
      /\ \A i \in DOMAIN notif : /\ i \in Nat /\ i >= 1 /\ i < g.next
                                 /\ notif[i] \in Conn
  BY <1>0, NotifType DEF FeedInv
<1>3. \A j \in Conn : Fed[j] \in Seq(Pkt) /\ Len(Fed[j]) \in Nat
  <2>1. Fed \in [Conn -> Seq(Pkt)]
    BY FedType DEF FeedInv
  <2> QED BY <2>1, LenProperties
<1>4. \A x \in runs : x # g => x.next = 0
  <2> TAKE x \in runs
  <2>1. x.next \in Nat
    BY DEF FeedInv, TypeOK
  <2>2. g.next > 0
    BY <1>0, <1>2
  <2>3. x.next > 0 => x = g
    BY <2>2 DEF FeedInv, OneHolder
  <2> QED BY <2>1, <2>3
<1>5. OnePerPacket'
  BY <1>0, <1>1 DEF FeedInv, OnePerPacket
<1>6. OneHolder' /\ Once'
  BY <1>0, <1>1 DEF FeedInv, OneHolder, Once
<1>7. Registered'
  BY <1>0, <1>1 DEF FeedInv, Registered
<1>8. NotYet' /\ Latest'
  BY <1>0, <1>1 DEF FeedInv, NotYet, Latest
<1>9. Aligned'
  <2>1. \A i \in DOMAIN notif : Extra(i) = 1
    BY <1>2 DEF Extra
  <2>2. \A i \in DOMAIN notif : Extra(i)' = 0
    BY <1>0, <1>2, <1>4 DEF Extra
  <2>3. \A i \in DOMAIN notif : /\ Settled(i)' = Len(Fed[notif[i]])
                                /\ Settled(i) = Len(Fed[notif[i]]) - 1
                                /\ Len(Fed[notif[i]]) \in Nat
                                /\ Len(Fed[notif[i]]) > 0
                                /\ Fed[notif[i]][Len(Fed[notif[i]])] = g.pkt
    <3> TAKE i \in DOMAIN notif
    <3>1. Settled(i)' = Len(Fed[notif[i]]) - Extra(i)'
      BY <1>0, <1>1 DEF Settled
    <3>2. Len(Fed[notif[i]]) \in Nat
      BY <1>2, <1>3
    <3>3. Len(Fed[notif[i]]) > 0 /\ Fed[notif[i]][Len(Fed[notif[i]])] = g.pkt
      BY <1>2 DEF FeedInv, Latest
    <3>4. Settled(i) = Len(Fed[notif[i]]) - 1
      BY <2>1 DEF Settled
    <3> QED BY <2>2, <3>1, <3>2, <3>3, <3>4
  <2> SUFFICES ASSUME NEW i \in DOMAIN notif, NEW j \in DOMAIN notif, i < j
               PROVE  /\ Settled(j)' <= Settled(i)'
                      /\ \A m \in 1 .. Settled(j)' :
                           Fed[notif[j]][m]
                             = Fed[notif[i]][Settled(i)' - Settled(j)' + m]
    BY <1>0, <1>1 DEF Aligned
  <2> DEFINE early == Fed[notif[i]]
             late == Fed[notif[j]]
  <2>4. /\ Settled(j) <= Settled(i)
        /\ \A m \in 1 .. Settled(j) : late[m] = early[Settled(i) - Settled(j) + m]
    BY DEF FeedInv, Aligned
  <2>5. /\ Settled(i)' = Len(early) /\ Settled(j)' = Len(late)
        /\ Settled(i) = Len(early) - 1 /\ Len(early) \in Nat /\ Len(early) > 0
        /\ Settled(j) = Len(late) - 1 /\ Len(late) \in Nat /\ Len(late) > 0
        /\ early[Len(early)] = g.pkt /\ late[Len(late)] = g.pkt
    BY <2>3
  <2> HIDE DEF early, late
  <2>6. Len(late) <= Len(early)
    BY <2>4, <2>5
  <2>7. ASSUME NEW m \in 1 .. Len(late)
        PROVE  late[m] = early[Len(early) - Len(late) + m]
    <3>1. CASE m = Len(late)
      <4>1. Len(early) - Len(late) + m = Len(early)
        BY <2>5, <3>1
      <4> QED BY <2>5, <3>1, <4>1
    <3>2. CASE m # Len(late)
      <4>1. m \in 1 .. Settled(j) /\ Settled(i) - Settled(j) + m
                                       = Len(early) - Len(late) + m
        BY <2>5, <3>2
      <4> QED BY <2>4, <4>1
    <3> QED BY <3>1, <3>2
  <2> QED BY <2>5, <2>6, <2>7 DEF early, late
<1>10. InOrder'
  BY <1>0, <1>1 DEF FeedInv, InOrder
<1> QED BY <1>5, <1>6, <1>7, <1>8, <1>9, <1>10 DEF FeedInv

\* A connection registers its callback between two packets, and has received
\* nothing.
LEMMA RegisterKeeps ==
  ASSUME FeedInv, TypeOK', NEW k \in Conn, RegisterNotify(k)
  PROVE  FeedInv'
<1> DEFINE len == Len(notif)
<1>0. /\ conn[k] = "registering" /\ \A g \in runs : g.next = 0
      /\ notif' = Append(notif, k) /\ conn' = [conn EXCEPT ![k] = "open"]
      /\ UNCHANGED <<todo, seen, proc, runs, channel, left, flushed, timedOut>>
  BY DEF RegisterNotify, Unlocked
<1>1. Fed' = Fed
  BY <1>0, FedSame DEF FeedInv
<1>2. /\ len \in Nat /\ DOMAIN notif = 1 .. len /\ notif \in Seq(Conn)
      /\ \A i \in DOMAIN notif : notif[i] \in Conn
  BY NotifType DEF FeedInv
<1>3. /\ DOMAIN notif' = 1 .. len + 1 /\ notif'[len + 1] = k
      /\ \A i \in 1 .. len : notif'[i] = notif[i]
  BY <1>0, <1>2, AppendProperties, LenProperties
<1>4. \A i \in DOMAIN notif' : \/ i \in DOMAIN notif /\ notif'[i] = notif[i]
                               \/ i = len + 1 /\ notif'[i] = k
  BY <1>2, <1>3
<1>5. Fed[k] = <<>> /\ \A i \in DOMAIN notif : notif[i] # k
  BY <1>0 DEF FeedInv, Registered
<1>6. \A i \in DOMAIN notif' : i \in Nat /\ i >= 1 /\ notif'[i] \in Conn
  BY <1>2, <1>3, <1>4
<1> HIDE DEF len
<1>7. OnePerPacket'
  BY <1>0, <1>1 DEF FeedInv, OnePerPacket
<1>8. OneHolder' /\ Once'
  BY <1>0, <1>1 DEF FeedInv, OneHolder, Once
<1>9. Registered'
  <2>1. \A i, j \in DOMAIN notif' : notif'[i] = notif'[j] => i = j
    BY <1>4, <1>5 DEF FeedInv, Registered
  <2>2. \A i \in DOMAIN notif' : conn'[notif'[i]] \in {"open", "done"}
    BY <1>0, <1>2, <1>4 DEF FeedInv, Registered, TypeOK
  <2>3. \A j \in Conn : conn'[j] \in {"none", "registering"} => Fed[j] = <<>>
    BY <1>0 DEF FeedInv, Registered, TypeOK
  <2> QED BY <1>1, <2>1, <2>2, <2>3 DEF Registered
<1>10. NotYet'
  <2>1. DOMAIN Fed[k] = {}
    BY <1>5
  <2> QED BY <1>0, <1>1, <1>4, <2>1 DEF FeedInv, NotYet
<1>11. Latest'
  BY <1>0, <1>6 DEF Latest
<1>12. Aligned'
  <2>1. \A i \in DOMAIN notif' : Extra(i) = 0 /\ Extra(i)' = 0
    BY <1>0, <1>6 DEF Extra
  <2>2. \A i \in DOMAIN notif' : Settled(i)' = Len(Fed[notif'[i]])
                                 /\ Len(Fed[notif'[i]]) \in Nat
    <3> TAKE i \in DOMAIN notif'
    <3>1. Settled(i)' = Len(Fed[notif'[i]]) - Extra(i)'
      BY <1>1 DEF Settled
    <3>2. Len(Fed[notif'[i]]) \in Nat
      BY <1>6, FedType, LenProperties DEF FeedInv
    <3> QED BY <2>1, <3>1, <3>2
  <2>3. \A i \in DOMAIN notif : Settled(i) = Len(Fed[notif[i]])
    <3> TAKE i \in DOMAIN notif
    <3>1. i \in DOMAIN notif' /\ notif'[i] = notif[i]
      BY <1>2, <1>3
    <3> QED BY <2>1, <2>2, <3>1 DEF Settled
  <2> SUFFICES ASSUME NEW i \in DOMAIN notif', NEW j \in DOMAIN notif', i < j
               PROVE  /\ Settled(j)' <= Settled(i)'
                      /\ \A m \in 1 .. Settled(j)' :
                           Fed[notif'[j]][m]
                             = Fed[notif'[i]][Settled(i)' - Settled(j)' + m]
    BY <1>1 DEF Aligned
  <2>4. i \in DOMAIN notif /\ notif'[i] = notif[i]
    BY <1>2, <1>3, <1>4
  <2>5. CASE j \in DOMAIN notif /\ notif'[j] = notif[j]
    <3>1. /\ Settled(j) <= Settled(i)
          /\ \A m \in 1 .. Settled(j) :
               Fed[notif[j]][m] = Fed[notif[i]][Settled(i) - Settled(j) + m]
      BY <2>4, <2>5 DEF FeedInv, Aligned
    <3>2. Settled(i)' = Settled(i) /\ Settled(j)' = Settled(j)
      BY <2>2, <2>3, <2>4, <2>5
    <3> QED BY <2>4, <2>5, <3>1, <3>2
  <2>6. CASE notif'[j] = k
    <3>1. Settled(j)' = 0 /\ Settled(i)' \in Nat
      BY <1>5, <2>2, <2>6
    <3> QED BY <3>1
  <2> QED BY <1>4, <2>5, <2>6
<1>13. InOrder'
  BY <1>0, <1>1 DEF FeedInv, InOrder
<1> QED BY <1>7, <1>8, <1>9, <1>10, <1>11, <1>12, <1>13 DEF FeedInv

LEMMA FeedInit == Init => FeedInv
<1> SUFFICES ASSUME Init PROVE FeedInv
  OBVIOUS
<1>1. TypeOK
  <2>1. <<>> \in Seq(Pkt) /\ <<>> \in Seq(Conn) /\ Len(<<>>) = 0
    BY EmptySeq
  <2>2. \A k \in Conn : channel[k] = <<>>
    BY DEF Init
  <2>3. \A k \in Conn : Len(channel[k]) <= ChanCap
    BY <2>1, <2>2, FeedAssumption
  <2>4. channel \in [Conn -> Seq(Pkt)] /\ flushed \in [Conn -> Seq(Pkt)]
        /\ seen \in [Proc -> Seq(Pkt)] /\ notif \in Seq(Conn)
    BY <2>1 DEF Init
  <2> QED BY <2>3, <2>4 DEF Init, TypeOK
<1>2. \A k \in Conn : Fed[k] = <<>>
  <2>1. <<>> \in Seq(Pkt)
    BY EmptySeq
  <2>2. <<>> \o <<>> = <<>>
    BY <2>1, ConcatEmptySeq
  <2> QED BY <2>2 DEF Init, Fed, Delivered
<1>3. DOMAIN notif = {} /\ runs = {} /\ \A q \in Proc : DOMAIN seen[q] = {}
  BY DEF Init
<1>4. \A k \in Conn : DOMAIN Fed[k] = {}
  BY <1>2
<1>5. OnePerPacket /\ OneHolder /\ Once
  BY <1>3, <1>4 DEF OnePerPacket, OneHolder, Once
<1>6. Registered /\ NotYet /\ Latest /\ Aligned
  BY <1>2, <1>3 DEF Registered, NotYet, Latest, Aligned
<1>7. InOrder
  BY <1>3, <1>4 DEF InOrder
<1> QED BY <1>1, <1>5, <1>6, <1>7 DEF FeedInv

LEMMA FeedStep == FeedInv /\ [Next]_vars => FeedInv'
<1> SUFFICES ASSUME FeedInv, [Next]_vars PROVE FeedInv'
  OBVIOUS
<1>1. CASE UNCHANGED vars
  <2>1. TypeOK'
    BY <1>1 DEF FeedInv, TypeOK, vars
  <2>2. Fed' = Fed
    BY <1>1, FedSame DEF FeedInv, vars
  <2>3. InOrder'
    BY <1>1, <2>2 DEF FeedInv, InOrder, vars
  <2> QED BY <1>1, <2>1, <2>2, <2>3, QuietKeeps DEF vars
<1>2. CASE Next
  <2>1. TypeOK'
    BY <1>2, TypeStep DEF FeedInv
  <2> QED BY <1>2, <2>1, ProcessKeeps, ConnKeeps, ReturnKeeps, LockKeeps,
             CallbackKeeps, DoneKeeps, RegisterKeeps DEF Next
<1> QED BY <1>1, <1>2

LEMMA FeedInvariant == Spec => []FeedInv
BY FeedInit, FeedStep, PTL DEF Spec

-----------------------------------------------------------------------------
(* The properties of the feed *)

\* What is left of a sequence after its first n elements.
LEMMA RestOf ==
  ASSUME NEW s \in Seq(Pkt), NEW n \in 0 .. Len(s)
  PROVE  /\ SubSeq(s, n + 1, Len(s)) \in Seq(Pkt)
         /\ Len(SubSeq(s, n + 1, Len(s))) = Len(s) - n
         /\ \A i \in 1 .. Len(s) - n : SubSeq(s, n + 1, Len(s))[i] = s[n + i]
<1> DEFINE rest == SubSeq(s, n + 1, Len(s))
<1>1. Len(s) \in Nat
  BY LenProperties
<1>2. \A i \in n + 1 .. Len(s) : s[i] \in Pkt
  BY <1>1, ElementOfSeq
<1>3. /\ rest \in Seq(Pkt)
      /\ Len(rest) = IF n + 1 <= Len(s) THEN Len(s) - (n + 1) + 1 ELSE 0
      /\ \A i \in 1 .. Len(s) - (n + 1) + 1 : rest[i] = s[n + 1 + i - 1]
  BY <1>1, <1>2, SubSeqProperties
<1> HIDE DEF rest
<1>4. Len(rest) = Len(s) - n
  BY <1>1, <1>3
<1>5. \A i \in 1 .. Len(s) - n : rest[i] = s[n + i]
  <2> TAKE i \in 1 .. Len(s) - n
  <2>1. i \in 1 .. Len(s) - (n + 1) + 1 /\ n + 1 + i - 1 = n + i
    BY <1>1
  <2> QED BY <1>3, <2>1
<1> QED BY <1>3, <1>4, <1>5 DEF rest

\* A sequence that continues another by one element.
LEMMA AllButLast ==
  ASSUME NEW s \in Seq(Pkt), NEW t \in Seq(Pkt), Len(s) = Len(t) + 1,
         \A i \in 1 .. Len(t) : s[i] = t[i]
  PROVE  s # <<>> /\ SubSeq(s, 1, Len(s) - 1) = t
<1> DEFINE first == SubSeq(s, 1, Len(s) - 1)
<1>1. Len(s) \in Nat /\ Len(t) \in Nat
  BY LenProperties
<1>2. \A i \in 1 .. Len(s) - 1 : s[i] \in Pkt
  BY <1>1, ElementOfSeq
<1>3. /\ first \in Seq(Pkt)
      /\ Len(first) = IF 1 <= Len(s) - 1 THEN Len(s) - 1 - 1 + 1 ELSE 0
      /\ \A i \in 1 .. Len(s) - 1 - 1 + 1 : first[i] = s[1 + i - 1]
  BY <1>1, <1>2, SubSeqProperties
<1> HIDE DEF first
<1>4. Len(first) = Len(t)
  BY <1>1, <1>3
<1>5. \A i \in 1 .. Len(first) : first[i] = t[i]
  <2> TAKE i \in 1 .. Len(first)
  <2>1. i \in 1 .. Len(s) - 1 - 1 + 1 /\ 1 + i - 1 = i
    BY <1>1, <1>4
  <2> QED BY <1>3, <1>4, <2>1
<1>6. first = t
  BY <1>3, <1>4, <1>5, SeqEqual
<1>7. s # <<>>
  BY <1>1, EmptySeq
<1> QED BY <1>6, <1>7 DEF first

LEMMA SuffixIs ==
  ASSUME NEW s \in Seq(Pkt), NEW t \in Seq(Pkt), NEW n \in Nat,
         n + Len(t) = Len(s), \A m \in 1 .. Len(t) : t[m] = s[n + m]
  PROVE  n \in 0 .. Len(s) /\ SubSeq(s, n + 1, Len(s)) = t
<1> DEFINE rest == SubSeq(s, n + 1, Len(s))
<1>1. Len(s) \in Nat /\ Len(t) \in Nat
  BY LenProperties
<1>2. n \in 0 .. Len(s)
  BY <1>1
<1>3. /\ rest \in Seq(Pkt) /\ Len(rest) = Len(s) - n
      /\ \A i \in 1 .. Len(s) - n : rest[i] = s[n + i]
  BY <1>2, RestOf
<1> HIDE DEF rest
<1>4. Len(rest) = Len(t)
  BY <1>1, <1>3
<1>5. \A i \in 1 .. Len(rest) : rest[i] = t[i]
  BY <1>3, <1>4
<1>6. rest = t
  BY <1>3, <1>4, <1>5, SeqEqual
<1> QED BY <1>2, <1>6 DEF rest

LEMMA FeedSame == FeedInv => SameFeed
<1> SUFFICES ASSUME FeedInv, NEW i \in DOMAIN notif, NEW j \in DOMAIN notif, i < j
             PROVE  LET early == Delivered(notif[i])
                        late == Delivered(notif[j])
                    IN  \E n \in 0 .. Len(early) :
                          LET rest == SubSeq(early, n + 1, Len(early))
                          IN  \/ rest = late
                              \/ rest # <<>> /\ SubSeq(rest, 1, Len(rest) - 1) = late
  BY DEF SameFeed
<1> DEFINE early == Fed[notif[i]]
           late == Fed[notif[j]]
           n == Settled(i) - Settled(j)
<1>1. /\ Delivered(notif[i]) = early /\ early \in Seq(Pkt)
      /\ Delivered(notif[j]) = late /\ late \in Seq(Pkt)
  BY NotifType, DeliveredType DEF FeedInv, Fed
<1>2. Len(early) \in Nat /\ Len(late) \in Nat
  BY <1>1, LenProperties
<1>3. Settled(j) <= Settled(i)
      /\ \A m \in 1 .. Settled(j) : late[m] = early[n + m]
  BY DEF FeedInv, Aligned
<1>4. Settled(i) = Len(early) - Extra(i) /\ Settled(j) = Len(late) - Extra(j)
  BY DEF Settled
<1>5. i \in Nat /\ j \in Nat
  BY NotifType DEF FeedInv
<1>6. \A g \in runs : g.next \in Nat
  BY DEF FeedInv, TypeOK
<1> SUFFICES \E l \in 0 .. Len(early) :
               \/ SubSeq(early, l + 1, Len(early)) = late
               \/ /\ SubSeq(early, l + 1, Len(early)) # <<>>
                  /\ SubSeq(SubSeq(early, l + 1, Len(early)), 1,
                            Len(SubSeq(early, l + 1, Len(early))) - 1) = late
  BY <1>1
<1>7. CASE Extra(j) = 1
  <2>1. PICK g \in runs : j < g.next
    BY <1>7 DEF Extra
  <2>2. i < g.next
    BY <1>5, <1>6, <2>1
  <2>3. Extra(i) = 1
    BY <2>2 DEF Extra
  <2>4. /\ Len(early) > 0 /\ early[Len(early)] = g.pkt
        /\ Len(late) > 0 /\ late[Len(late)] = g.pkt
    BY <2>1, <2>2 DEF FeedInv, Latest
  <2> HIDE DEF early, late
  <2>5. n \in Nat /\ n + Len(late) = Len(early)
    BY <1>2, <1>3, <1>4, <1>7, <2>3
  <2>6. \A m \in 1 .. Len(late) : late[m] = early[n + m]
    <3> TAKE m \in 1 .. Len(late)
    <3>1. CASE m = Len(late)
      BY <2>4, <2>5, <3>1
    <3>2. CASE m # Len(late)
      <4>1. m \in 1 .. Settled(j)
        BY <1>2, <1>4, <1>7, <3>2
      <4> QED BY <1>3, <4>1
    <3> QED BY <3>1, <3>2
  <2> HIDE DEF n
  <2>7. n \in 0 .. Len(early) /\ SubSeq(early, n + 1, Len(early)) = late
    BY <1>1, <1>2, <2>5, <2>6, SuffixIs
  <2> QED BY <2>7
<1>8. CASE Extra(j) = 0 /\ Extra(i) = 0
  <2> HIDE DEF early, late
  <2>1. n \in Nat /\ n + Len(late) = Len(early) /\ Settled(j) = Len(late)
    BY <1>2, <1>3, <1>4, <1>8
  <2>2. \A m \in 1 .. Len(late) : late[m] = early[n + m]
    BY <1>3, <2>1
  <2> HIDE DEF n
  <2>3. n \in 0 .. Len(early) /\ SubSeq(early, n + 1, Len(early)) = late
    BY <1>1, <1>2, <2>1, <2>2, SuffixIs
  <2> QED BY <2>3
<1>9. CASE Extra(j) = 0 /\ Extra(i) = 1
  <2> HIDE DEF early, late
  <2>1. n \in Nat /\ n + Len(late) + 1 = Len(early) /\ Settled(j) = Len(late)
    BY <1>2, <1>3, <1>4, <1>9
  <2>2. \A m \in 1 .. Len(late) : late[m] = early[n + m]
    BY <1>3, <2>1
  <2> HIDE DEF n
  <2> DEFINE rest == SubSeq(early, n + 1, Len(early))
  <2>3. n \in 0 .. Len(early) /\ Len(early) - n = Len(late) + 1
    BY <1>2, <2>1
  <2>4. /\ rest \in Seq(Pkt) /\ Len(rest) = Len(late) + 1
        /\ \A m \in 1 .. Len(late) + 1 : rest[m] = early[n + m]
    BY <1>1, <2>3, RestOf
  <2> HIDE DEF rest
  <2>5. \A m \in 1 .. Len(late) : rest[m] = late[m]
    BY <1>2, <2>2, <2>4
  <2>6. rest # <<>> /\ SubSeq(rest, 1, Len(rest) - 1) = late
    BY <1>1, <2>4, <2>5, AllButLast
  <2> QED BY <2>3, <2>6 DEF rest
<1>10. Extra(i) \in {0, 1} /\ Extra(j) \in {0, 1}
  BY DEF Extra
<1> QED BY <1>7, <1>8, <1>9, <1>10

LEMMA FeedOrdered == FeedInv => InOrderPerProc
<1> SUFFICES ASSUME FeedInv, NEW k \in Conn
             PROVE  /\ \A i, j \in DOMAIN Delivered(k) :
                         Delivered(k)[i] = Delivered(k)[j] => i = j
                    /\ ~timedOut =>
                         \A q \in Proc : \A i, j \in DOMAIN seen[q] :
                           i < j /\ Among(Delivered(k), seen[q][i])
                                 /\ Among(Delivered(k), seen[q][j])
                           => Place(Delivered(k), seen[q][i])
                                < Place(Delivered(k), seen[q][j])
  BY DEF InOrderPerProc
<1>1. Delivered(k) = Fed[k]
  BY DEF Fed
<1>2. \A i, j \in DOMAIN Fed[k] : Fed[k][i] = Fed[k][j] => i = j
  BY DEF FeedInv, Once
<1>3. ASSUME ~timedOut, NEW q \in Proc, NEW i \in DOMAIN seen[q],
             NEW j \in DOMAIN seen[q], i < j,
             Among(Fed[k], seen[q][i]), Among(Fed[k], seen[q][j])
      PROVE  Place(Fed[k], seen[q][i]) < Place(Fed[k], seen[q][j])
  <2> DEFINE a == Place(Fed[k], seen[q][i])
             b == Place(Fed[k], seen[q][j])
  <2>1. a \in DOMAIN Fed[k] /\ Fed[k][a] = seen[q][i]
    BY <1>3 DEF Among, Place
  <2>2. b \in DOMAIN Fed[k] /\ Fed[k][b] = seen[q][j]
    BY <1>3 DEF Among, Place
  <2> HIDE DEF a, b
  <2>3. a < b
    BY <1>3, <2>1, <2>2 DEF FeedInv, InOrder
  <2> QED BY <2>3 DEF a, b
<1> QED BY <1>1, <1>2, <1>3

\* The state of the registry and of its connections keeps its type; the channel
\* of a connection never holds more than its capacity, because the callback
\* waits for room in it (pkts <- p in pktNotifyGet).
THEOREM FeedTypeCorrect == Spec => []TypeOK
<1>1. FeedInv => TypeOK
  BY DEF FeedInv
<1> QED BY <1>1, FeedInvariant, PTL

\* What a page receives is a suffix of what every page that connected before it
\* receives, up to the packet whose callbacks ExecAll is calling: Add and
\* ExecAll share the lock of the notifications, for any number of goroutines,
\* packets and connections and whatever the capacity of the channels.
THEOREM PagesSeeOneFeed == Spec => []SameFeed
BY FeedInvariant, FeedSame, PTL

\* A page receives each packet at most once, and the packets of one caller of
\* ProcessPacket in the order in which it processed them, as long as no caller
\* gave up waiting for ExecAll.
THEOREM PacketsInOrder == Spec => []InOrderPerProc
BY FeedInvariant, FeedOrdered, PTL
=============================================================================
