------------------------------- MODULE Gossip -------------------------------
(***************************************************************************)
(* The gossip layer of peer/impl: Broadcast, the rumor handler, status     *)
(* messages (anti-entropy), acknowledgements and retransmission, and the   *)
(* routing table learnt from rumors.  Each node has one listener goroutine *)
(* that handles one packet at a time, goroutines that call Broadcast (the  *)
(* user's, the heartbeat's, the miner's), one broadCastRoutine goroutine   *)
(* per rumor it created, one waitForAck goroutine per rumors packet it     *)
(* sent, and a ticker sending its status.                                  *)
(*                                                                         *)
(* Data abstraction.  A rumors message is a set of rumors: a sender lists  *)
(* the rumors of an origin in increasing sequence number, which is how     *)
(* ProcessRumor takes them.  The random PacketID of a rumors packet is     *)
(* abstracted to <<source, destination, rumors>>: a waiter may also take   *)
(* the ack of another packet with the same three.  A missing entry of      *)
(* receivedSeq is 0: the code stores no 0 in that map.                     *)
(***************************************************************************)
EXTENDS Naturals, FiniteSets

CONSTANTS
  Node,          \* the socket addresses
  Msg,           \* the messages that rumors embed
  NoRoute,       \* stands for a missing routing table entry
  Bootstrap,     \* Bootstrap[n]: the peers added before the node starts
  LatePeer,      \* LatePeer[n]: the peers AddPeer may add while it runs
  Outcome,       \* Outcome[n][m]: how the handler of m can end at n
  Ticks,         \* the nodes with AntiEntropyInterval > 0
  AckTimeout,    \* TRUE iff conf.AckTimeout # 0
  Caller,        \* the goroutines of a node that call Broadcast
  Quota,         \* bound: Quota[n][c] is how often c calls Broadcast at n
  QueueCap,      \* bound of a node's incoming queue (100 in the code)
  MaxLoss        \* bound: how many packets the network loses

ASSUME GossipAssumption ==
  /\ NoRoute \notin Node
  /\ Bootstrap \in [Node -> SUBSET Node]
  /\ LatePeer \in [Node -> SUBSET Node]
  /\ \A n \in Node : n \notin Bootstrap[n]
  /\ Outcome \in [Node -> [Msg -> (SUBSET BOOLEAN) \ {{}}]]
  /\ Ticks \subseteq Node
  /\ AckTimeout \in BOOLEAN
  /\ Quota \in [Node -> [Caller -> Nat]]
  /\ QueueCap \in Nat
  /\ MaxLoss \in Nat

VARIABLES
  directPeers,   \* directPeers[n]: the neighbours of n
  routingTable,  \* routingTable[n][d]: the next hop of n towards d
  seqNumber,     \* seqNumber[n]: the last sequence number n has given
  receivedSeq,   \* receivedSeq[n][o]: the last rumor of o that n accepted
  rumorDB,       \* rumorDB[n]: the rumors n stores
  call,          \* call[n][c]: the call of Broadcast that c is in
  created,       \* history: every rumor some call of Broadcast has built
  outbox,        \* outbox[n]: the rumors of the running broadCastRoutines
  waiters,       \* waiters[n]: the running waitForAck goroutines
  job,           \* job[n]: the call of handleRumor the listener is in
  net,           \* the packets in the incoming queues
  lost           \* how many packets the network has lost

vars == <<directPeers, routingTable, seqNumber, receivedSeq, rumorDB,
          call, created, outbox, waiters, job, net, lost>>

Rumor == [origin : Node, seq : Nat \ {0}, msg : Msg]
View == [Node -> Nat]

\* A rumors packet has no view; a status packet has no rumors; an ack names
\* the rumors packet it answers by that packet's rumors.
Packet == [type : {"rumors", "status", "ack"}, src : Node, dst : Node,
           rumors : SUBSET Rumor, view : View]
\* acked: the ack is in the waiter's channel, which holds one.
Waiter == [to : Node, rumors : SUBSET Rumor, acked : BOOLEAN]
\* A call: how far it is, how many calls c has begun, currentSequenceNumber,
\* the rumor it has built, and the rumorsByOrigin that storeRumor works on.
Call == [pc : {"idle", "read", "written", "announced", "built", "storing"},
         made : Nat, cur : Nat, own : SUBSET Rumor, list : SUBSET Rumor]
Job == [active : BOOLEAN, src : Node, rumors : SUBSET Rumor,
        todo : SUBSET Rumor, processed : BOOLEAN]

Returned(made) ==
  [pc |-> "idle", made |-> made, cur |-> 0, own |-> {}, list |-> {}]
NoView == [o \in Node |-> 0]
Idle(n) == [active |-> FALSE, src |-> n, rumors |-> {}, todo |-> {},
            processed |-> FALSE]

rumorsPkt(n, d, rs) ==
  [type |-> "rumors", src |-> n, dst |-> d, rumors |-> rs, view |-> NoView]
statusPkt(n, d, view) ==
  [type |-> "status", src |-> n, dst |-> d, rumors |-> {}, view |-> view]
ackPkt(n, d, rs, view) ==
  [type |-> "ack", src |-> n, dst |-> d, rumors |-> rs, view |-> view]

TypeOK ==
  /\ directPeers \in [Node -> SUBSET Node]
  /\ routingTable \in [Node -> [Node -> Node \cup {NoRoute}]]
  /\ seqNumber \in [Node -> Nat]
  /\ receivedSeq \in [Node -> View]
  /\ rumorDB \in [Node -> SUBSET Rumor]
  /\ call \in [Node -> [Caller -> Call]]
  /\ created \in SUBSET Rumor
  /\ outbox \in [Node -> SUBSET Rumor]
  /\ waiters \in [Node -> SUBSET Waiter]
  /\ job \in [Node -> Job]
  /\ net \in SUBSET Packet
  /\ lost \in Nat

-----------------------------------------------------------------------------
(* Sending: Socket.Send fails when the queue of the destination stays full. *)

HasRoom(q, d) == Cardinality({p \in q : p.dst = d}) < QueueCap
CanSend(q, p) == p \in q \/ HasRoom(q, p.dst)
Send(q, p) == IF CanSend(q, p) THEN q \cup {p} ELSE q

getNeighbors(n) == directPeers[n]
getOtherNeighbors(n, exclude) == directPeers[n] \ {exclude, n}

\* go n.waitForAck(pkt, neighbor) returns at once without an AckTimeout.
Wait(n, d, rs) == IF AckTimeout THEN {[to |-> d, rumors |-> rs, acked |-> FALSE]} ELSE {}

-----------------------------------------------------------------------------
(* The views and the database. *)

\* Mutant: announces the next expected number instead of the last one.
createStatusMessage_Next(n) == [o \in Node |-> receivedSeq[n][o] + 1]

createStatusMessage(n) == receivedSeq[n]

\* Mutant: keeps only the newest rumor of an origin.
storeRumor_Newest(db, r) == {q \in db : q.origin # r.origin} \cup {r}

storeRumor(db, r) ==
  IF \E q \in db : q.origin = r.origin /\ q.seq = r.seq THEN db ELSE db \cup {r}

newRemote(n, view) == \E o \in Node : view[o] > receivedSeq[n][o]
newLocal(n, view) == \E o \in Node : receivedSeq[n][o] > view[o]

\* Mutant: skips the first missing rumor.
getMissingRumors_OffByOne(n, view) ==
  {r \in rumorDB[n] : view[r.origin] + 1 < r.seq /\ r.seq <= receivedSeq[n][r.origin]}

\* Mutant: answers with the own address as the origin of the rumors.
getMissingRumors_AsOwn(n, view) ==
  {[r EXCEPT !.origin = n] : r \in
     {r \in rumorDB[n] :
        view[r.origin] < r.seq /\ r.seq <= receivedSeq[n][r.origin]}}

\* getMissingRumors(origin, view[origin] + 1, receivedSeq[origin]), over all
\* the origins of which n has accepted more than the view tells.
getMissingRumors(n, view) ==
  {r \in rumorDB[n] : view[r.origin] < r.seq /\ r.seq <= receivedSeq[n][r.origin]}

-----------------------------------------------------------------------------
Init ==
  /\ directPeers = Bootstrap
  /\ routingTable = [n \in Node |-> [d \in Node |->
                       IF d = n \/ d \in Bootstrap[n] THEN d ELSE NoRoute]]
  /\ seqNumber = [n \in Node |-> 0]
  /\ receivedSeq = [n \in Node |-> NoView]
  /\ rumorDB = [n \in Node |-> {}]
  /\ call = [n \in Node |-> [c \in Caller |-> Returned(0)]]
  /\ created = {}
  /\ outbox = [n \in Node |-> {}]
  /\ waiters = [n \in Node |-> {}]
  /\ job = [n \in Node |-> Idle(n)]
  /\ net = {}
  /\ lost = 0

AddPeer(n, a) ==
  /\ a # n
  /\ directPeers' = [directPeers EXCEPT ![n] = @ \cup {a}]
  /\ routingTable' = [routingTable EXCEPT ![n][a] = a]
  /\ UNCHANGED <<seqNumber, receivedSeq, rumorDB, call, created, outbox, waiters,
                 job, net, lost>>

-----------------------------------------------------------------------------
(* Broadcast, one step per access to what the callers share: nothing keeps *)
(* a second caller out between them.                                       *)

\* Where c's call of Broadcast is, and the step that takes it to next.
At(n, c, pc) == call[n][c].pc = pc
CallGoes(n, c, next) == call' = [call EXCEPT ![n][c] = next]

\* currentSequenceNumber := getSequenceNumber().  Also the heartbeat, which
\* broadcasts an EmptyMessage.
Broadcast(n, c) ==
  /\ At(n, c, "idle")
  /\ call[n][c].made < Quota[n][c]
  /\ CallGoes(n, c, [pc |-> "read", made |-> call[n][c].made + 1,
                     cur |-> seqNumber[n], own |-> {}, list |-> {}])
  /\ UNCHANGED <<directPeers, routingTable, seqNumber, receivedSeq, rumorDB,
                 created, outbox, waiters, job, net, lost>>

updateSeqNumber(n, c) ==
  /\ At(n, c, "read")
  /\ seqNumber' = [seqNumber EXCEPT ![n] = call[n][c].cur + 1]
  /\ CallGoes(n, c, [call[n][c] EXCEPT !.pc = "written"])
  /\ UNCHANGED <<directPeers, routingTable, receivedSeq, rumorDB, created,
                 outbox, waiters, job, net, lost>>

\* receivedSeq.Add: the number is announced before the rumor is stored.
announceOwn(n, c) ==
  /\ At(n, c, "written")
  /\ receivedSeq' = [receivedSeq EXCEPT ![n][n] = call[n][c].cur + 1]
  /\ CallGoes(n, c, [call[n][c] EXCEPT !.pc = "announced"])
  /\ UNCHANGED <<directPeers, routingTable, seqNumber, rumorDB, created,
                 outbox, waiters, job, net, lost>>

\* Mutant: numbers the rumor with the number read before the increment.
createRumor_StaleNumber(n, c, m) ==
  LET r == [origin |-> n, seq |-> call[n][c].cur, msg |-> m]
  IN  /\ At(n, c, "announced")
      /\ created' = created \cup {r}
      /\ CallGoes(n, c, [call[n][c] EXCEPT !.pc = "built", !.own = {r}])
      /\ UNCHANGED <<directPeers, routingTable, seqNumber, receivedSeq, rumorDB,
                     outbox, waiters, job, net, lost>>

\* The rumor is built around the message m with the number the counter has
\* now, which another caller may have moved on.
createRumor(n, c, m) ==
  LET r == [origin |-> n, seq |-> seqNumber[n], msg |-> m]
  IN  /\ At(n, c, "announced")
      /\ created' = created \cup {r}
      /\ CallGoes(n, c, [call[n][c] EXCEPT !.pc = "built", !.own = {r}])
      /\ UNCHANGED <<directPeers, routingTable, seqNumber, receivedSeq, rumorDB,
                     outbox, waiters, job, net, lost>>

\* storeRumor reads the rumors of the own origin.
storeRumorGet(n, c) ==
  /\ At(n, c, "built")
  /\ CallGoes(n, c, [call[n][c] EXCEPT !.pc = "storing",
                       !.list = {q \in rumorDB[n] : q.origin = n}])
  /\ UNCHANGED <<directPeers, routingTable, seqNumber, receivedSeq, rumorDB,
                 created, outbox, waiters, job, net, lost>>

\* Mutant: spawns the broadCastRoutine without storing the rumor.
storeRumorAdd_Unstored(n, c) ==
  /\ At(n, c, "storing")
  /\ outbox' = [outbox EXCEPT ![n] = @ \cup call[n][c].own]
  /\ CallGoes(n, c, Returned(call[n][c].made))
  /\ UNCHANGED <<directPeers, routingTable, seqNumber, receivedSeq, rumorDB,
                 created, waiters, job, net, lost>>

\* storeRumor puts the list back with the rumor in it, or returns early when
\* the list has the rumor's number; then the broadCastRoutine is spawned.
storeRumorAdd(n, c) ==
  /\ At(n, c, "storing")
  /\ \E r \in call[n][c].own :
       LET list == call[n][c].list
       IN  /\ rumorDB' = IF \E q \in list : q.seq = r.seq THEN rumorDB
                         ELSE [rumorDB EXCEPT ![n] =
                                {q \in @ : q.origin # n} \cup storeRumor(list, r)]
           /\ outbox' = [outbox EXCEPT ![n] = @ \cup {r}]
  /\ CallGoes(n, c, Returned(call[n][c].made))
  /\ UNCHANGED <<directPeers, routingTable, seqNumber, receivedSeq, created,
                 waiters, job, net, lost>>

-----------------------------------------------------------------------------
(* Sending rumors and waiting for their acks. *)

\* Send rs to d, on the queues q, and, when that succeeds, wait for the ack.
SendAndWait(q, n, d, rs, others) ==
  LET p == rumorsPkt(n, d, rs)
  IN  /\ net' = Send(q, p)
      /\ waiters' = [waiters EXCEPT
           ![n] = others \cup IF CanSend(q, p) THEN Wait(n, d, rs) ELSE {}]

broadCastRoutine(n) ==
  \E r \in outbox[n] :
    /\ outbox' = [outbox EXCEPT ![n] = @ \ {r}]
    /\ \/ getNeighbors(n) = {} /\ UNCHANGED <<net, waiters>>
       \/ \E d \in getNeighbors(n) : SendAndWait(net, n, d, {r}, waiters[n])
    /\ UNCHANGED <<directPeers, routingTable, seqNumber, receivedSeq, rumorDB,
                   call, created, job, lost>>

\* The waiter w times out: it ends and resends its rumors to another neighbour,
\* on the queues q.  With no other neighbour the destination is "" and the
\* Send fails.
Resends(q, n, w) ==
  LET others == getOtherNeighbors(n, w.to)
  IN  \/ /\ others = {}
         /\ net' = q
         /\ waiters' = [waiters EXCEPT ![n] = @ \ {w}]
      \/ \E d \in others : SendAndWait(q, n, d, w.rumors, waiters[n] \ {w})

\* The timeout case of waitForAck, which select may also choose when the ack
\* is there.
waitForAckTimeout(n, w) ==
  /\ w \in waiters[n]
  /\ Resends(net, n, w)
  /\ UNCHANGED <<directPeers, routingTable, seqNumber, receivedSeq, rumorDB,
                 call, created, outbox, job, lost>>

\* The case of waitForAck that takes the ack.
waitForAckReceived(n, w) ==
  /\ w \in waiters[n]
  /\ w.acked
  /\ waiters' = [waiters EXCEPT ![n] = @ \ {w}]
  /\ UNCHANGED <<directPeers, routingTable, seqNumber, receivedSeq, rumorDB,
                 call, created, outbox, job, net, lost>>

sendRandomStatusMessage(n, d) ==
  /\ n \in Ticks
  /\ d \in getNeighbors(n)
  /\ net' = Send(net, statusPkt(n, d, createStatusMessage(n)))
  /\ UNCHANGED <<directPeers, routingTable, seqNumber, receivedSeq, rumorDB,
                 call, created, outbox, waiters, job, lost>>

-----------------------------------------------------------------------------
(* The listener: handleIncomingPacket of a packet addressed to this node.  *)

\* handleStatusMessage and compareViews, on the queues q left after the
\* packet was taken: cases 3, 1 and 2 answer with the own status first, then
\* with the missing rumors; case 4 is continueMongering, its toss left open.
StatusReplies(q, n, src, view) ==
  LET missing == getMissingRumors(n, view)
      q1 == IF newRemote(n, view)
            THEN Send(q, statusPkt(n, src, createStatusMessage(n))) ELSE q
      q2 == IF newLocal(n, view) /\ missing # {}
            THEN Send(q1, rumorsPkt(n, src, missing)) ELSE q1
  IN  IF newRemote(n, view) \/ newLocal(n, view)
      THEN {q2}
      ELSE {q} \cup {Send(q, statusPkt(n, d, createStatusMessage(n))) :
                       d \in getOtherNeighbors(n, src)}

handleStatusMessage(n, p) ==
  /\ ~job[n].active
  /\ p \in net /\ p.dst = n /\ p.type = "status"
  /\ net' \in StatusReplies(net \ {p}, n, p.src, p.view)
  /\ UNCHANGED <<directPeers, routingTable, seqNumber, receivedSeq, rumorDB,
                 call, created, outbox, waiters, job, lost>>

\* The ack is put in the channel of its packet's waiter, and then the status it
\* carries is handled.  Four ways this can go: the waiter has not registered
\* its channel yet, or has removed it; the channel has room; it is full, and
\* the listener blocks until the waiter takes the first ack and ends; or the
\* waiter ends, after its ack or its timeout, and closes the channel the
\* listener has got: the send panics, ProcessPacket recovers, and the status is
\* not handled.
handleAckMessage(n, p) ==
  /\ ~job[n].active
  /\ p \in net /\ p.dst = n /\ p.type = "ack"
  /\ LET waiting == {w \in waiters[n] : w.to = p.src /\ w.rumors = p.rumors}
         ended(w) == waiters' = [waiters EXCEPT ![n] = @ \ {w}]
         status == net' \in StatusReplies(net \ {p}, n, p.src, p.view)
     IN  \/ UNCHANGED waiters /\ status
         \/ \E w \in waiting :
              /\ ~w.acked
              /\ waiters' = [waiters EXCEPT
                   ![n] = (@ \ {w}) \cup {[w EXCEPT !.acked = TRUE]}]
              /\ status
         \/ \E w \in waiting : w.acked /\ ended(w) /\ status
         \/ \E w \in waiting : w.acked /\ ended(w) /\ net' = net \ {p}
         \/ \E w \in waiting : Resends(net \ {p}, n, w)
  /\ UNCHANGED <<directPeers, routingTable, seqNumber, receivedSeq, rumorDB,
                 call, created, outbox, job, lost>>

\* Mutant: acks the packet on receipt, before any of its rumors is handled.
recvRumors_AckFirst(n, p) ==
  /\ ~job[n].active
  /\ p \in net /\ p.dst = n /\ p.type = "rumors"
  /\ net' = Send(net \ {p}, ackPkt(n, p.src, p.rumors, receivedSeq[n]))
  /\ job' = [job EXCEPT ![n] = [active |-> TRUE, src |-> p.src,
               rumors |-> p.rumors, todo |-> p.rumors, processed |-> FALSE]]
  /\ UNCHANGED <<directPeers, routingTable, seqNumber, receivedSeq, rumorDB,
                 call, created, outbox, waiters, lost>>

\* handleRumor is entered.
recvRumors(n, p) ==
  /\ ~job[n].active
  /\ p \in net /\ p.dst = n /\ p.type = "rumors"
  /\ net' = net \ {p}
  /\ job' = [job EXCEPT ![n] = [active |-> TRUE, src |-> p.src,
               rumors |-> p.rumors, todo |-> p.rumors, processed |-> FALSE]]
  /\ UNCHANGED <<directPeers, routingTable, seqNumber, receivedSeq, rumorDB,
                 call, created, outbox, waiters, lost>>

\* Mutant: takes any newer rumor, not just the next one.
expected_Newer(n, r) == r.seq > receivedSeq[n][r.origin]

expected(n, r) == r.seq = receivedSeq[n][r.origin] + 1

\* The rumors the loop of handleRumor may take next.
NextRumors(n) ==
  {r \in job[n].todo : job[n].active /\
     \A q \in job[n].todo : q.origin = r.origin => r.seq <= q.seq}

\* The loop goes on after rumor r, with processedRumor = done.
Taken(j, r, done) ==
  [active |-> TRUE, src |-> j.src, rumors |-> j.rumors, todo |-> j.todo \ {r},
   processed |-> done]

\* An iteration on a rumor that is not the next one of its origin.
skipRumor(n) ==
  \E r \in NextRumors(n) :
    /\ ~expected(n, r)
    /\ job' = [job EXCEPT ![n] = Taken(@, r, @.processed)]
    /\ UNCHANGED <<directPeers, routingTable, seqNumber, receivedSeq, rumorDB,
                   call, created, outbox, waiters, net, lost>>

\* The rumor is stored, then its message's handler fails: handleRumor returns.
rejectRumor(n) ==
  \E r \in NextRumors(n) :
    /\ expected(n, r)
    /\ FALSE \in Outcome[n][r.msg]
    /\ rumorDB' = [rumorDB EXCEPT ![n] = storeRumor(@, r)]
    /\ job' = [job EXCEPT ![n] = Idle(n)]
    /\ UNCHANGED <<directPeers, routingTable, seqNumber, receivedSeq, call,
                   created, outbox, waiters, net, lost>>

\* The rumor is stored and handled, recorded in receivedSeq and the routing
\* table, and acked with the new status; without room for the ack handleRumor
\* returns.
acceptRumor(n) ==
  \E r \in NextRumors(n) :
    LET src == job[n].src
        view == [receivedSeq[n] EXCEPT ![r.origin] = r.seq]
        ack == ackPkt(n, src, job[n].rumors, view)
    IN  /\ expected(n, r)
        /\ TRUE \in Outcome[n][r.msg]
        /\ rumorDB' = [rumorDB EXCEPT ![n] = storeRumor(@, r)]
        /\ receivedSeq' = [receivedSeq EXCEPT ![n] = view]
        /\ routingTable' = IF r.origin \in directPeers[n] \cup {n}
                           THEN routingTable
                           ELSE [routingTable EXCEPT ![n][r.origin] = src]
        /\ net' = Send(net, ack)
        /\ job' = [job EXCEPT ![n] =
             IF CanSend(net, ack)
             THEN Taken(@, r, TRUE) ELSE Idle(n)]
        /\ UNCHANGED <<directPeers, seqNumber, call, created, outbox, waiters, lost>>

\* After the loop: a message with a new rumor is forwarded as a whole.
forwardRumorsMessage(n) ==
  LET others == getOtherNeighbors(n, job[n].src)
  IN  /\ job[n].active
      /\ job[n].todo = {}
      /\ job' = [job EXCEPT ![n] = Idle(n)]
      /\ \/ /\ ~job[n].processed \/ others = {}
            /\ UNCHANGED <<net, waiters>>
         \/ /\ job[n].processed
            /\ \E d \in others : SendAndWait(net, n, d, job[n].rumors, waiters[n])
      /\ UNCHANGED <<directPeers, routingTable, seqNumber, receivedSeq,
                     rumorDB, call, created, outbox, lost>>

\* The network loses a packet (UDP; the jam and loss transports).
losePacket(p) ==
  /\ lost < MaxLoss
  /\ p \in net
  /\ net' = net \ {p}
  /\ lost' = lost + 1
  /\ UNCHANGED <<directPeers, routingTable, seqNumber, receivedSeq, rumorDB,
                 call, created, outbox, waiters, job>>

-----------------------------------------------------------------------------
BroadcastGoesOn(n, c) ==
  \/ updateSeqNumber(n, c)
  \/ announceOwn(n, c)
  \/ \E m \in Msg : createRumor(n, c, m)
  \/ storeRumorGet(n, c)
  \/ storeRumorAdd(n, c)

handlePacket(n, p) ==
  \/ handleStatusMessage(n, p)
  \/ handleAckMessage(n, p)
  \/ recvRumors(n, p)

handleRumor(n) ==
  \/ skipRumor(n)
  \/ rejectRumor(n)
  \/ acceptRumor(n)
  \/ forwardRumorsMessage(n)

Next ==
  \/ \E n \in Node : \E a \in LatePeer[n] : AddPeer(n, a)
  \/ \E n \in Node : \E c \in Caller : Broadcast(n, c) \/ BroadcastGoesOn(n, c)
  \/ \E n \in Node : broadCastRoutine(n)
  \/ \E n \in Node : \E w \in waiters[n] :
       waitForAckTimeout(n, w) \/ waitForAckReceived(n, w)
  \/ \E n, d \in Node : sendRandomStatusMessage(n, d)
  \/ \E n \in Node : \E p \in net : handlePacket(n, p)
  \/ \E n \in Node : handleRumor(n)
  \/ \E p \in net : losePacket(p)

Spec == Init /\ [][Next]_vars

\* Goroutines that can run do run.  A status ticker draws its destination at
\* random forever, so it draws every neighbour again and again.  The listener
\* takes packets in the order they arrived, so no sender's packets of one type
\* are passed over forever.
Fairness ==
  /\ \A n \in {n \in Node : \E c \in Caller : Quota[n][c] > 0} :
       WF_vars(broadCastRoutine(n) \/ \E c \in Caller : BroadcastGoesOn(n, c))
  /\ \A n \in Node : WF_vars(handleRumor(n))
  /\ \A n \in Ticks : \A d \in Bootstrap[n] :
       SF_vars(sendRandomStatusMessage(n, d))
  /\ \A n \in Node : \A src \in Bootstrap[n] : \A t \in {"rumors", "status"} :
       SF_vars(\E p \in net : p.src = src /\ p.type = t /\ handlePacket(n, p))

FairSpec == Spec /\ Fairness

-----------------------------------------------------------------------------
(* Safety. *)

SameID(r, q) == r.origin = q.origin /\ r.seq = q.seq

\* At most one goroutine of n calls Broadcast.  What the properties say of the
\* own rumors of a node they say of such nodes only; what they say of the
\* rumors of other origins holds however many callers there are.
Serial(n) ==
  \A c, d \in Caller : Quota[n][c] > 0 /\ Quota[n][d] > 0 => c = d

\* Every rumor a node stores, handles, has in flight or may still resend is one
\* that a call of Broadcast built, with its origin, number and message: forwards,
\* anti-entropy replies, retransmissions and callers that overtake each other
\* give rumors away, mix them and lose them, but never invent one.
Genuine(r) == r \in created
Integrity ==
  /\ \A n \in Node :
       /\ \A r \in rumorDB[n] \cup outbox[n] : Genuine(r)
       /\ \A r \in job[n].rumors \cup job[n].todo : Genuine(r)
       /\ \A w \in waiters[n] : \A r \in w.rumors : Genuine(r)
  /\ \A p \in net : \A r \in p.rumors : Genuine(r)

\* What messaging_def.go says of a Rumor's Sequence: it is unique among the
\* packets of its creator.  Two callers of Broadcast can read one counter value.
UniqueSequence == \A r, q \in created : SameID(r, q) => r = q

\* A node stores every rumor up to the sequence number it announces, except the
\* own one that Broadcast has announced and not stored yet: getMissingRumors
\* can always close the gap that a status message shows.
Announced(n, s) ==
  \E c \in Caller : /\ call[n][c].pc \in {"announced", "built", "storing"}
                    /\ s = call[n][c].cur + 1
NoGap ==
  \A n, o \in Node : n # o \/ Serial(n) =>
    \A s \in 1 .. receivedSeq[n][o] :
      \/ \E r \in rumorDB[n] : r.origin = o /\ r.seq = s
      \/ n = o /\ Announced(n, s)

\* No status or ack in flight, however old, claims more for an origin than its
\* sender has accepted, nor more than the origin has broadcast: compareViews
\* asks for or sends rumors that exist.
TruthfulStatus ==
  \A p \in net : \A o \in Node :
    /\ o # p.src \/ Serial(o) => p.view[o] <= receivedSeq[p.src][o]
    /\ Serial(o) => receivedSeq[p.src][o] <= seqNumber[o]

\* An ack in flight means that its sender accepted a rumor of the acked packet.
Accepted(n, r) ==
  r.seq <= receivedSeq[n][r.origin] \/ (r.origin = n /\ ~Serial(n))
AckedSome ==
  \A p \in net : p.type = "ack" => \E r \in p.rumors : Accepted(p.src, r)

\* Every node accepts the rumors of an origin one by one in their order, each
\* once, and never forgets a stored rumor, though rumors come again and out of
\* order through forwards, resends and anti-entropy replies.
InOrderOnce ==
  [][\A n, o \in Node : n # o \/ Serial(n) =>
       /\ receivedSeq'[n][o] \in {receivedSeq[n][o], receivedSeq[n][o] + 1}
       /\ \A r \in rumorDB[n] : r.origin = o => r \in rumorDB'[n]]_vars
-----------------------------------------------------------------------------
(* The inductive invariant behind the safety properties. *)

\* What a packet in flight promises: its rumors are genuine, its view is not
\* ahead of its sender, and if it is an ack its sender accepted some rumor.
Honest(p) ==
  /\ \A r \in p.rumors : Genuine(r)
  /\ \A o \in Node : o # p.src \/ Serial(o) => p.view[o] <= receivedSeq[p.src][o]
  /\ p.type = "ack" => \E r \in p.rumors : Accepted(p.src, r)
CleanWaiter(w) == \A r \in w.rumors : Genuine(r)
CleanJob(j) == j.todo \subseteq j.rumors /\ \A r \in j.rumors : Genuine(r)
CleanCall(n, x) ==
  /\ \A r \in x.own \cup x.list : Genuine(r) /\ r.origin = n
  /\ x.own # {} <=> x.pc \in {"built", "storing"}
  /\ \A r, q \in x.own : r = q

PacketsHonest == \A p \in net : Honest(p)
WaitersClean == \A n \in Node : \A w \in waiters[n] : CleanWaiter(w)
JobsClean == \A n \in Node : CleanJob(job[n])
CallsClean ==
  \A n \in Node : \A c \in Caller :
    /\ CleanCall(n, call[n][c])
    /\ call[n][c].pc # "idle" => Quota[n][c] > 0
StoresGenuine ==
  \A n \in Node : \A r \in rumorDB[n] \cup outbox[n] : Genuine(r)

\* A rumor's number is never 0: the counter has moved when a call goes on.
Numbered ==
  \A n \in Node : \A c \in Caller :
    call[n][c].pc \notin {"idle", "read"} => seqNumber[n] > 0

\* The numbers a node with one caller gave.  Its own entry of receivedSeq is its
\* counter, except between the write and the announcement; the rumor of the
\* running call has the counter's number, and all the other rumors it created
\* are stored and have smaller ones.
Busy(n, pcs) == \E c \in Caller : call[n][c].pc \in pcs
CallNumbers(n, x) ==
  /\ x.pc = "read" => x.cur = seqNumber[n]
  /\ x.pc \notin {"idle", "read"} => x.cur + 1 = seqNumber[n]
  /\ \A r \in x.own : r.seq = seqNumber[n]
  /\ x.pc = "storing" => x.list = {q \in rumorDB[n] : q.origin = n}
NumbersRight(n) ==
  /\ seqNumber[n] =
       IF Busy(n, {"written"}) THEN receivedSeq[n][n] + 1 ELSE receivedSeq[n][n]
  /\ \A c \in Caller : CallNumbers(n, call[n][c])
  /\ \A r \in created : r.origin = n =>
       /\ r.seq <= seqNumber[n]
       /\ Busy(n, {"written", "announced"}) => r.seq < seqNumber[n]
       /\ r \in rumorDB[n] \/ \E c \in Caller : r \in call[n][c].own
  /\ \A r \in rumorDB[n] : r.origin = n /\ Busy(n, {"built", "storing"}) =>
       r.seq < seqNumber[n]
OwnNumbers == \A n \in Node : Serial(n) => NumbersRight(n)

UniqueIDs ==
  \A r, q \in created : Serial(r.origin) /\ SameID(r, q) => r = q

NoPhantom ==
  \A n, o \in Node : Serial(o) => receivedSeq[n][o] <= seqNumber[o]

IInv ==
  /\ TypeOK
  /\ Numbered
  /\ StoresGenuine
  /\ WaitersClean
  /\ JobsClean
  /\ CallsClean
  /\ PacketsHonest
  /\ OwnNumbers
  /\ UniqueIDs
  /\ NoGap
  /\ NoPhantom

-----------------------------------------------------------------------------
(* Liveness. *)

\* Every rumor whose message all the nodes' handlers accept is accepted by all
\* the nodes, though packets get lost and nothing but the status ticker
\* recovers them.
Unobjectionable == {m \in Msg : \A k \in Node : Outcome[k][m] = {TRUE}}
DistributedToAll ==
  \A n \in Node : \A o \in {o \in Node : Serial(o)} :
    \A c \in Caller : \A s \in 1 .. Quota[o][c] : \A m \in Unobjectionable :
      [origin |-> o, seq |-> s, msg |-> m] \in rumorDB[o]
        ~> receivedSeq[n][o] >= s
-----------------------------------------------------------------------------
(* Refinement. *)

\* The number of the last rumor o has built; a number may be announced first.
Last(o) ==
  IF Busy(o, {"announced"}) THEN receivedSeq[o][o] - 1 ELSE receivedSeq[o][o]
\* The rumors n holds and counts as received.
Held(n) == rumorDB[n] \cup UNION {call[n][c].own : c \in Caller}
Received(n) == {r \in Held(n) : r.seq <= receivedSeq[n][r.origin]}

FB == INSTANCE FifoBroadcast WITH
        last <- [o \in Node |-> Last(o)],
        published <- created,
        delivered <- [n \in Node |-> Received(n)]

\* With one caller of Broadcast per node, the gossip layer implements first-in
\* first-out broadcast: a step of any of its goroutines publishes one rumor,
\* delivers one rumor to one node in the order of its origin, or changes
\* nothing a user of Broadcast sees.
ImplementsFifoBroadcast == FB!FSpec
=============================================================================
