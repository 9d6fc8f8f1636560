-------------------------------- MODULE Feed --------------------------------
(* How packets that the node processes reach the web pages that watch it:   *)
(* Registry.ProcessPacket hands every packet to the notification callbacks, *)
(* and the handler of GET /registry/pktnotify registers one callback per    *)
(* connection, which puts the packet into the connection's channel.         *)
EXTENDS Naturals, Sequences, FiniteSets

CONSTANTS
  Proc,      \* goroutines that call ProcessPacket
  Pkt,       \* the packets, each processed once
  NoPkt,
  Failing,   \* the packets whose handler is missing or may return an error
  MaxConn,   \* bound: how many connections pages open
  ChanCap    \* capacity of a connection's channel (100 in the code)

ASSUME FeedAssumption ==
  /\ NoPkt \notin Pkt
  /\ Failing \subseteq Pkt
  /\ MaxConn \in Nat /\ ChanCap \in Nat \ {0}

Conn == 1 .. MaxConn

VARIABLES
  todo,      \* packets nobody has processed yet
  seen,      \* seen[q]: the packets q handed to the callbacks, in order
  proc,      \* proc[q]: the packet whose callbacks q waits for, or NoPkt
  runs,      \* goroutines of ExecAll: next = 0 waits for the lock, next = i
             \* holds it and is about to call the i-th callback
  notif,     \* the callbacks: the connections that registered, in order
  channel,   \* channel[k]: the packets in the channel of connection k
  conn,      \* conn[k]: where pktNotifyGet of connection k is
  left,      \* connections whose page has gone
  flushed,   \* flushed[k]: the packets written to connection k
  timedOut   \* TRUE once a ProcessPacket gave up waiting for the callbacks

vars == <<todo, seen, proc, runs, notif, channel, conn, left, flushed,
              timedOut>>

TypeOK ==
  /\ todo \subseteq Pkt
  /\ seen \in [Proc -> Seq(Pkt)]
  /\ proc \in [Proc -> Pkt \cup {NoPkt}]
  /\ runs \subseteq [pkt : Pkt, next : 0 .. MaxConn + 1]
  /\ notif \in Seq(Conn)
  /\ channel \in [Conn -> Seq(Pkt)]
  /\ \A k \in Conn : Len(channel[k]) <= ChanCap
  /\ conn \in [Conn -> {"none", "registering", "open", "done"}]
  /\ left \subseteq Conn
  /\ flushed \in [Conn -> Seq(Pkt)]
  /\ timedOut \in BOOLEAN

Init ==
  /\ todo = Pkt
  /\ seen = [q \in Proc |-> <<>>]
  /\ proc = [q \in Proc |-> NoPkt]
  /\ runs = {}
  /\ notif = <<>>
  /\ channel = [k \in Conn |-> <<>>]
  /\ conn = [k \in Conn |-> "none"]
  /\ left = {}
  /\ flushed = [k \in Conn |-> <<>>]
  /\ timedOut = FALSE

-----------------------------------------------------------------------------
(* Registry.ProcessPacket *)

Begins(q, p) ==
  /\ p \in todo
  /\ proc[q] = NoPkt
  /\ todo' = todo \ {p}

\* No handler, or the handler fails: the callbacks are not called.
ProcessFailed(q, p) ==
  /\ Begins(q, p)
  /\ p \in Failing
  /\ UNCHANGED <<seen, proc, runs, notif, channel, conn, left, flushed,
                 timedOut>>

\* The handler succeeds and ExecAll starts its goroutine.
ProcessPacket(q, p) ==
  /\ Begins(q, p)
  /\ seen' = [seen EXCEPT ![q] = Append(@, p)]
  /\ proc' = [proc EXCEPT ![q] = p]
  /\ runs' = runs \cup {[pkt |-> p, next |-> 0]}
  /\ UNCHANGED <<notif, channel, conn, left, flushed, timedOut>>

\* Mutant: does not wait for the callbacks.
ProcessDone_NoWait(q) ==
  /\ proc[q] # NoPkt
  /\ proc' = [proc EXCEPT ![q] = NoPkt]
  /\ UNCHANGED <<todo, seen, runs, notif, channel, conn, left, flushed,
                 timedOut>>

\* case <-done
ProcessDone(q) ==
  /\ proc[q] # NoPkt
  /\ \A g \in runs : g.pkt # proc[q]
  /\ proc' = [proc EXCEPT ![q] = NoPkt]
  /\ UNCHANGED <<todo, seen, runs, notif, channel, conn, left, flushed,
                 timedOut>>

\* Mutant: waits for the callbacks without a timeout.
ProcessTimeout_Never(q) ==
  /\ FALSE
  /\ UNCHANGED vars

\* case <-time.After(time.Second * 20): the goroutine of ExecAll stays behind.
ProcessTimeout(q) ==
  /\ \E g \in runs : g.pkt = proc[q]
  /\ proc' = [proc EXCEPT ![q] = NoPkt]
  /\ timedOut' = TRUE
  /\ UNCHANGED <<todo, seen, runs, notif, channel, conn, left, flushed>>

-----------------------------------------------------------------------------
(* notifications.ExecAll and Add, which share a mutex *)

Unlocked == \A g \in runs : g.next = 0
Moves(g, n) == runs' = (runs \ {g}) \cup {[g EXCEPT !.next = n]}

\* Mutant: calls the callbacks without taking the lock.
ExecLock_Free(g) ==
  /\ g.next = 0
  /\ Moves(g, 1)
  /\ UNCHANGED <<todo, seen, proc, notif, channel, conn, left, flushed,
                 timedOut>>

ExecLock(g) ==
  /\ g.next = 0
  /\ Unlocked
  /\ Moves(g, 1)
  /\ UNCHANGED <<todo, seen, proc, notif, channel, conn, left, flushed,
                 timedOut>>

\* Mutant: drops the packet when the channel is full.
ExecCallback_Drop(g) ==
  /\ g.next \in DOMAIN notif
  /\ LET k == notif[g.next]
     IN  channel' = IF Len(channel[k]) < ChanCap
                    THEN [channel EXCEPT ![k] = Append(@, g.pkt)]
                    ELSE channel
  /\ Moves(g, g.next + 1)
  /\ UNCHANGED <<todo, seen, proc, notif, conn, left, flushed, timedOut>>

\* Mutant: a channel without a limit.
ExecCallback_NoLimit(g) ==
  /\ g.next \in DOMAIN notif
  /\ channel' = [channel EXCEPT ![notif[g.next]] = Append(@, g.pkt)]
  /\ Moves(g, g.next + 1)
  /\ UNCHANGED <<todo, seen, proc, notif, conn, left, flushed, timedOut>>

\* The callback of pktNotifyGet, pkts <- p, waits for room in the channel.
ExecCallback(g) ==
  /\ g.next \in DOMAIN notif
  /\ LET k == notif[g.next]
     IN  /\ Len(channel[k]) < ChanCap
         /\ channel' = [channel EXCEPT ![k] = Append(@, g.pkt)]
  /\ Moves(g, g.next + 1)
  /\ UNCHANGED <<todo, seen, proc, notif, conn, left, flushed, timedOut>>

ExecDone(g) ==
  /\ g.next = Len(notif) + 1
  /\ runs' = runs \ {g}
  /\ UNCHANGED <<todo, seen, proc, notif, channel, conn, left, flushed,
                 timedOut>>

\* pktNotifyGet calls RegisterNotify, and notifications.Add waits for the lock.
RegisterNotify(k) ==
  /\ conn[k] = "registering"
  /\ Unlocked
  /\ notif' = Append(notif, k)
  /\ conn' = [conn EXCEPT ![k] = "open"]
  /\ UNCHANGED <<todo, seen, proc, runs, channel, left, flushed, timedOut>>

-----------------------------------------------------------------------------
(* pktNotifyGet *)

\* A page connects, or its browser connects again; k numbers the connections.
Connects(k) ==
  /\ conn[k] = "none"
  /\ k > 1 => conn[k - 1] # "none"
  /\ conn' = [conn EXCEPT ![k] = "registering"]
  /\ UNCHANGED <<todo, seen, proc, runs, notif, channel, left, flushed,
                 timedOut>>

\* A page goes, or its connection breaks.
Leaves(k) ==
  /\ conn[k] \in {"registering", "open"}
  /\ k \notin left
  /\ left' = left \cup {k}
  /\ UNCHANGED <<todo, seen, proc, runs, notif, channel, conn, flushed,
                 timedOut>>

\* case pkt := <-pkts
flush(k) ==
  /\ conn[k] = "open"
  /\ channel[k] # <<>>
  /\ flushed' = [flushed EXCEPT ![k] = Append(@, Head(channel[k]))]
  /\ channel' = [channel EXCEPT ![k] = Tail(@)]
  /\ UNCHANGED <<todo, seen, proc, runs, notif, conn, left, timedOut>>

\* case <-r.Context().Done(): returns, and the callback stays registered.
ContextDone(k) ==
  /\ conn[k] = "open"
  /\ k \in left
  /\ conn' = [conn EXCEPT ![k] = "done"]
  /\ UNCHANGED <<todo, seen, proc, runs, notif, channel, left, flushed,
                 timedOut>>

Next ==
  \/ \E q \in Proc, p \in todo :
       ProcessPacket(q, p) \/ ProcessFailed(q, p)
  \/ \E q \in Proc : ProcessDone(q) \/ ProcessTimeout(q)
  \/ \E g \in runs : ExecLock(g) \/ ExecCallback(g) \/ ExecDone(g)
  \/ \E k \in Conn : RegisterNotify(k) \/ flush(k) \/ ContextDone(k)
                     \/ Connects(k) \/ Leaves(k)

Spec == Init /\ [][Next]_vars

\* Goroutines keep running, a timer fires, and the lock is handed out in turn
\* (a Go mutex lets no waiter starve), so that every waiter gets it.
Fairness ==
  /\ \A q \in Proc : WF_vars(ProcessDone(q) \/ ProcessTimeout(q))
  /\ \A p \in Pkt :
       /\ SF_vars(\E g \in runs : g.pkt = p /\ ExecLock(g))
       /\ WF_vars(\E g \in runs :
                        g.pkt = p /\ (ExecCallback(g) \/ ExecDone(g)))
  /\ \A k \in Conn : /\ SF_vars(RegisterNotify(k))
                     /\ WF_vars(flush(k))
                     /\ WF_vars(ContextDone(k))

FairSpec == Spec /\ Fairness

-----------------------------------------------------------------------------
(* Properties *)

Delivered(k) == flushed[k] \o channel[k]
Place(s, p) == CHOOSE i \in DOMAIN s : s[i] = p
Among(s, p) == \E i \in DOMAIN s : s[i] = p

\* A page receives the packets of one goroutine in the order in which it
\* processed them, each once, unless a ProcessPacket gave up on the callbacks:
\* then the next packet may overtake the one left behind.
InOrderPerProc ==
  \A k \in Conn :
    /\ \A i, j \in DOMAIN Delivered(k) :
         Delivered(k)[i] = Delivered(k)[j] => i = j
    /\ ~timedOut =>
         \A q \in Proc : \A i, j \in DOMAIN seen[q] :
           i < j /\ Among(Delivered(k), seen[q][i])
                 /\ Among(Delivered(k), seen[q][j])
           => Place(Delivered(k), seen[q][i]) < Place(Delivered(k), seen[q][j])

\* What one page receives is a suffix of what every page that connected
\* before it receives: the callbacks run under one lock, so no packet slips
\* between two of them, unless a channel is full, which stops all of them.
SameFeed ==
  \A i, j \in DOMAIN notif :
    i < j =>
      LET early == Delivered(notif[i])
          late == Delivered(notif[j])
      IN  \E n \in 0 .. Len(early) :
            LET rest == SubSeq(early, n + 1, Len(early))
            IN  rest = late \/ (rest # <<>> /\ SubSeq(rest, 1, Len(rest) - 1) = late)

\* As long as no page leaves, every packet handed to the callbacks reaches every
\* page that is registered by then: the registry never stops.
FeedLive ==
  [](left = {}) =>
    \A k \in Conn, p \in Pkt :
      ((\E g \in runs : g.pkt = p /\ g.next = 0) /\ conn[k] = "open")
        ~> Among(flushed[k], p)

\* A ProcessPacket that has called the handler returns, with the timeout even
\* when the callbacks are stuck behind a page that left.
ProcessReturns == \A q \in Proc : proc[q] # NoPkt ~> proc[q] = NoPkt
=============================================================================
