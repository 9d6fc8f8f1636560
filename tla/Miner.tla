------------------------------- MODULE Miner --------------------------------
(***************************************************************************)
(* When a node mines: the goroutines of one node around the channel        *)
(* newTxCh, from Start to Stop.                                            *)
(*                                                                         *)
(* The listener puts a token into newTxCh for every transaction it adds to *)
(* the mempool.  The miner takes a token, makes a candidate block and      *)
(* starts a goroutine, here called a watcher, that takes tokens as well    *)
(* and stops the mining when the candidate block has room for another      *)
(* transaction.  Nothing stops a watcher when its block is mined: it stays *)
(* behind and goes on taking tokens.  Stop closes stopCh and newTxCh and   *)
(* waits for the wait group.                                               *)
(*                                                                         *)
(* What blocks contain and how they change the UTXO set is the subject of  *)
(* module NameChain; here adding the own block works or fails, and a       *)
(* received block takes any transactions off the mempool.  A receive from  *)
(* a closed channel succeeds at once; a send panics, and ProcessPacket     *)
(* recovers the panic of a handler and makes it an error.                  *)
(***************************************************************************)
EXTENDS Naturals, FiniteSets

CONSTANTS
  Tx,            \* the transactions clients send, each once
  Cap,           \* the capacity of newTxCh (100 in the code)
  MaxTxPerBlock, \* how many transactions a block holds (3 in the code)
  MayFail,       \* TRUE iff adding the own block may fail
  MayStop,       \* TRUE iff Stop may be called
  MaxLoose       \* bound: how many watchers may be left behind

ASSUME MinerAssumption ==
  /\ IsFiniteSet(Tx)
  /\ Cap \in Nat \ {0}
  /\ MaxTxPerBlock \in Nat \ {0}
  /\ MayFail \in BOOLEAN
  /\ MayStop \in BOOLEAN
  /\ MaxLoose \in Nat

VARIABLES
  unsent,    \* the transactions clients have still to send
  mempool,   \* the transactions the node has still to mine
  tokens,    \* how many tokens newTxCh holds
  txClosed,  \* TRUE iff newTxCh is closed
  stopped,   \* TRUE iff stopCh is closed
  listener,  \* what the listener does
  miner,     \* what the miner does
  candidate, \* the transactions of the candidate block
  watcher,   \* the watcher of the current attempt
  loose,     \* loose[k]: the watchers of kind k earlier attempts left behind
  wg,        \* the counter of the wait group
  stopper,   \* what the caller of Stop does
  senders    \* how many broadCastRoutine goroutines are running

mvars == <<unsent, mempool, tokens, txClosed, stopped, listener, miner,
           candidate, watcher, loose, wg, stopper, senders>>

\* A watcher of a block with room stops the mining, one of a full block never.
Kind == {"room", "full"}
KindOf(txs) == IF Cardinality(txs) < MaxTxPerBlock THEN "room" ELSE "full"

TypeOK ==
  /\ unsent \in SUBSET Tx
  /\ mempool \in SUBSET Tx
  /\ tokens \in 0 .. Cap
  /\ txClosed \in BOOLEAN
  /\ stopped \in BOOLEAN
  /\ listener \in {"idle", "sending", "done"}
  /\ miner \in {"idle", "woken", "mining", "hashing", "adding", "done"}
  /\ candidate \in SUBSET Tx
  /\ watcher \in Kind \cup {"none", "fired"}
  /\ loose \in [Kind -> Nat]
  /\ wg \in Nat
  /\ stopper \in {"running", "closing", "waiting", "returned"}
  /\ senders \in Nat

\* Start has started the listener and the miner.
Init ==
  /\ unsent = Tx
  /\ mempool = {}
  /\ tokens = 0
  /\ txClosed = FALSE
  /\ stopped = FALSE
  /\ listener = "idle"
  /\ miner = "idle"
  /\ candidate = {}
  /\ watcher = "none"
  /\ loose = [k \in Kind |-> 0]
  /\ wg = 2
  /\ stopper = "running"
  /\ senders = 0

-----------------------------------------------------------------------------
(* The listener. *)

handleTransactionMessage(tx) ==
  /\ listener = "idle"
  /\ tx \in unsent
  /\ unsent' = unsent \ {tx}
  /\ mempool' = mempool \cup {tx}
  /\ listener' = "sending"
  /\ UNCHANGED <<tokens, txClosed, stopped, miner, candidate, watcher, loose,
                 wg, stopper, senders>>

\* Mutant: the send does not wait for room in the channel.
notify_NoWait ==
  /\ listener = "sending"
  /\ tokens' = IF txClosed THEN tokens ELSE tokens + 1
  /\ listener' = "idle"
  /\ UNCHANGED <<unsent, mempool, txClosed, stopped, miner, candidate, watcher,
                 loose, wg, stopper, senders>>

\* n.newTxCh <- struct{}{} waits while the channel is full.  When Stop closes
\* the channel the send panics and the handler fails.
notify ==
  /\ listener = "sending"
  /\ \/ txClosed /\ UNCHANGED tokens
     \/ ~txClosed /\ tokens < Cap /\ tokens' = tokens + 1
  /\ listener' = "idle"
  /\ UNCHANGED <<unsent, mempool, txClosed, stopped, miner, candidate, watcher,
                 loose, wg, stopper, senders>>

\* A block of another node is added and its transactions leave the mempool.
handleBlockMessage ==
  /\ listener = "idle"
  /\ \E b \in SUBSET mempool : b # {} /\ mempool' = mempool \ b
  /\ UNCHANGED <<unsent, tokens, txClosed, stopped, listener, miner, candidate,
                 watcher, loose, wg, stopper, senders>>

\* Between two packets the listener sees that stopCh is closed.
listenStop ==
  /\ listener = "idle"
  /\ stopped
  /\ listener' = "done"
  /\ wg' = wg - 1
  /\ UNCHANGED <<unsent, mempool, tokens, txClosed, stopped, miner, candidate,
                 watcher, loose, stopper, senders>>

-----------------------------------------------------------------------------
(* The miner. *)

\* A receive from newTxCh: a token, or nothing once the channel is closed.
Receive ==
  \/ tokens > 0 /\ tokens' = tokens - 1
  \/ tokens = 0 /\ txClosed /\ UNCHANGED tokens

minerStop ==
  /\ miner = "idle"
  /\ stopped
  /\ miner' = "done"
  /\ wg' = wg - 1
  /\ UNCHANGED <<unsent, mempool, tokens, txClosed, stopped, listener,
                 candidate, watcher, loose, stopper, senders>>

minerWake ==
  /\ miner = "idle"
  /\ Receive
  /\ miner' = "woken"
  /\ UNCHANGED <<unsent, mempool, txClosed, stopped, listener, candidate,
                 watcher, loose, wg, stopper, senders>>

getTxsFromMempool ==
  {txs \in SUBSET mempool :
     IF Cardinality(mempool) <= MaxTxPerBlock
     THEN txs = mempool ELSE Cardinality(txs) = MaxTxPerBlock}

\* Mutant: the watcher is not counted in the wait group.
attemptToMine_Uncounted ==
  /\ miner = "woken"
  /\ loose["room"] + loose["full"] < MaxLoose
  /\ \/ /\ mempool = {}
        /\ miner' = "idle"
        /\ UNCHANGED <<candidate, watcher>>
     \/ /\ mempool # {}
        /\ \E txs \in getTxsFromMempool :
             candidate' = txs /\ watcher' = KindOf(txs)
        /\ miner' = "mining"
  /\ UNCHANGED <<unsent, mempool, tokens, txClosed, stopped, listener, loose,
                 wg, stopper, senders>>

\* Mutant: a miner that finds the mempool empty ends.
attemptToMine_Exit ==
  /\ miner = "woken"
  /\ loose["room"] + loose["full"] < MaxLoose
  /\ \/ /\ mempool = {}
        /\ miner' = "done"
        /\ wg' = wg - 1
        /\ UNCHANGED <<candidate, watcher>>
     \/ /\ mempool # {}
        /\ \E txs \in getTxsFromMempool :
             candidate' = txs /\ watcher' = KindOf(txs)
        /\ miner' = "mining"
        /\ wg' = wg + 1
  /\ UNCHANGED <<unsent, mempool, tokens, txClosed, stopped, listener, loose,
                 stopper, senders>>

\* The candidate block and its watcher, unless there is nothing to mine.
attemptToMine ==
  /\ miner = "woken"
  /\ loose["room"] + loose["full"] < MaxLoose
  /\ \/ /\ mempool = {}
        /\ miner' = "idle"
        /\ UNCHANGED <<candidate, watcher, wg>>
     \/ /\ mempool # {}
        /\ \E txs \in getTxsFromMempool :
             candidate' = txs /\ watcher' = KindOf(txs)
        /\ miner' = "mining"
        /\ wg' = wg + 1
  /\ UNCHANGED <<unsent, mempool, tokens, txClosed, stopped, listener, loose,
                 stopper, senders>>

\* attemptToMine returns; a watcher that has not fired stays behind.
Return ==
  /\ miner' = "idle"
  /\ watcher' = "none"
  /\ candidate' = {}
  /\ loose' = IF watcher \in Kind THEN [loose EXCEPT ![watcher] = @ + 1] ELSE loose

\* The select of mineBlock: it hashes only when neither channel is closed.
mineBlock ==
  /\ miner = "mining"
  /\ \/ (watcher = "fired" \/ stopped) /\ Return
     \/ /\ watcher # "fired" /\ ~stopped
        /\ miner' = "hashing"
        /\ UNCHANGED <<candidate, watcher, loose>>
  /\ UNCHANGED <<unsent, mempool, tokens, txClosed, stopped, listener, wg,
                 stopper, senders>>

\* The hash meets the target, and Broadcast spawns a goroutine that sends the
\* block and that the wait group does not count.
meetsTarget ==
  /\ miner = "hashing"
  /\ miner' = "adding"
  /\ senders' = senders + 1
  /\ UNCHANGED <<unsent, mempool, tokens, txClosed, stopped, listener,
                 candidate, watcher, loose, wg, stopper>>

broadCastRoutine ==
  /\ senders > 0
  /\ senders' = senders - 1
  /\ UNCHANGED <<unsent, mempool, tokens, txClosed, stopped, listener, miner,
                 candidate, watcher, loose, wg, stopper>>

\* It does not, and the next challenge is tried.
nextChallenge ==
  /\ miner = "hashing"
  /\ miner' = "mining"
  /\ UNCHANGED <<unsent, mempool, tokens, txClosed, stopped, listener,
                 candidate, watcher, loose, wg, stopper, senders>>

addBlockToBlockchain ==
  /\ miner = "adding"
  /\ \/ mempool' = mempool \ candidate
     \/ MayFail /\ UNCHANGED mempool
  /\ Return
  /\ UNCHANGED <<unsent, tokens, txClosed, stopped, listener, wg, stopper,
                 senders>>

-----------------------------------------------------------------------------
(* The watchers. *)

\* The watcher of the current attempt.
watch ==
  /\ watcher \in Kind
  /\ \/ /\ stopped
        /\ UNCHANGED tokens
        /\ watcher' = "fired"
        /\ wg' = wg - 1
     \/ /\ watcher = "room"
        /\ Receive
        /\ watcher' = "fired"
        /\ wg' = wg - 1
     \/ /\ watcher = "full"
        /\ Receive
        /\ UNCHANGED <<watcher, wg>>
  /\ UNCHANGED <<unsent, mempool, txClosed, stopped, listener, miner,
                 candidate, loose, stopper, senders>>

\* Mutant: a watcher left behind with a full block does not look at stopCh.
watchLoose_Deaf(k) ==
  /\ loose[k] > 0
  /\ \/ /\ stopped /\ k = "room"
        /\ UNCHANGED tokens
        /\ loose' = [loose EXCEPT ![k] = @ - 1]
        /\ wg' = wg - 1
     \/ /\ k = "room"
        /\ Receive
        /\ loose' = [loose EXCEPT ![k] = @ - 1]
        /\ wg' = wg - 1
     \/ /\ k = "full"
        /\ Receive
        /\ UNCHANGED <<loose, wg>>
  /\ UNCHANGED <<unsent, mempool, txClosed, stopped, listener, miner,
                 candidate, watcher, stopper, senders>>

\* A watcher that an earlier attempt left behind; nobody listens to it.
watchLoose(k) ==
  /\ loose[k] > 0
  /\ \/ /\ stopped
        /\ UNCHANGED tokens
        /\ loose' = [loose EXCEPT ![k] = @ - 1]
        /\ wg' = wg - 1
     \/ /\ k = "room"
        /\ Receive
        /\ loose' = [loose EXCEPT ![k] = @ - 1]
        /\ wg' = wg - 1
     \/ /\ k = "full"
        /\ Receive
        /\ UNCHANGED <<loose, wg>>
  /\ UNCHANGED <<unsent, mempool, txClosed, stopped, listener, miner,
                 candidate, watcher, stopper, senders>>

-----------------------------------------------------------------------------
(* Stop. *)

\* Mutant: Stop returns as soon as the channels are closed.
Stop_NoWait ==
  /\ \/ /\ MayStop /\ stopper = "running"
        /\ stopped' = TRUE
        /\ stopper' = "closing"
        /\ UNCHANGED txClosed
     \/ /\ stopper = "closing"
        /\ txClosed' = TRUE
        /\ stopper' = "waiting"
        /\ UNCHANGED stopped
     \/ /\ stopper = "waiting"
        /\ stopper' = "returned"
        /\ UNCHANGED <<stopped, txClosed>>
  /\ UNCHANGED <<unsent, mempool, tokens, listener, miner, candidate, watcher,
                 loose, wg, senders>>

\* The two channels are closed one after the other; wg.Wait() waits.
Stop ==
  /\ \/ /\ MayStop /\ stopper = "running"
        /\ stopped' = TRUE
        /\ stopper' = "closing"
        /\ UNCHANGED txClosed
     \/ /\ stopper = "closing"
        /\ txClosed' = TRUE
        /\ stopper' = "waiting"
        /\ UNCHANGED stopped
     \/ /\ stopper = "waiting"
        /\ wg = 0
        /\ stopper' = "returned"
        /\ UNCHANGED <<stopped, txClosed>>
  /\ UNCHANGED <<unsent, mempool, tokens, listener, miner, candidate, watcher,
                 loose, wg, senders>>

-----------------------------------------------------------------------------
Listen ==
  \/ \E tx \in Tx : handleTransactionMessage(tx)
  \/ notify \/ handleBlockMessage \/ listenStop
Mine ==
  \/ minerStop \/ minerWake \/ attemptToMine \/ mineBlock
  \/ meetsTarget \/ nextChallenge \/ addBlockToBlockchain
Watch == watch \/ \E k \in Kind : watchLoose(k)

Next == Listen \/ Mine \/ Watch \/ Stop \/ broadCastRoutine

Spec == Init /\ [][Next]_mvars

\* The scheduler runs every goroutine.  A select takes each of its ready cases
\* again and again, so whoever looks at stopCh again and again finds it closed,
\* and the challenges that are tried include one that meets the target.
Fairness ==
  /\ WF_mvars(notify \/ listenStop)
  /\ WF_mvars(Mine)
  /\ SF_mvars(minerStop)
  /\ SF_mvars(meetsTarget)
  /\ WF_mvars(watch)
  /\ \A k \in Kind : WF_mvars(watchLoose(k))
  /\ \A k \in Kind :
       SF_mvars(watchLoose(k) /\ loose'[k] < loose[k])
  /\ WF_mvars(stopper # "running" /\ Stop)

FairSpec == Spec /\ Fairness

-----------------------------------------------------------------------------
(* Properties. *)

\* When Stop returns, the listener, the miner and all the watchers have ended,
\* those that past attempts left behind included.
StopWaits ==
  stopper = "returned" =>
    /\ listener = "done"
    /\ miner = "done"
    /\ watcher \notin Kind
    /\ \A k \in Kind : loose[k] = 0

\* The wait group counts the goroutines that have not ended.
Counted(b) == IF b THEN 1 ELSE 0
WaitGroupCounts ==
  wg = Counted(listener # "done") + Counted(miner # "done")
         + Counted(watcher \in Kind) + loose["room"] + loose["full"]

\* The inductive invariant behind StopWaits: only an attempt has a watcher, and
\* the wait group counts the goroutines and stays at zero once Stop returned.
StopInv ==
  /\ TypeOK
  /\ WaitGroupCounts
  /\ watcher # "none" => miner \in {"mining", "hashing", "adding"}
  /\ stopper = "returned" => wg = 0

\* A Stop that is called returns: a listener that waits for room in newTxCh is
\* freed by the closing of the channel, and the miner and the watchers, which go
\* on finding closed channels to receive from, do stop.
StopReturns == stopper = "closing" ~> stopper = "returned"

\* A listener that finds newTxCh full is not stuck: somebody takes a token.
ListenerUnblocks == listener = "sending" ~> listener # "sending"

\* An idle miner with transactions to mine has been notified.
Notified == mempool # {} /\ listener = "idle" /\ miner = "idle" => tokens > 0
=============================================================================
