---------------------------- MODULE MinerProofs -----------------------------
(* Proofs about module Miner, for all transactions, capacities and bounds. *)
EXTENDS Miner, TLAPS

\* The listener, the miner, the watchers and Stop start from these types.
LEMMA InitStop == Init => StopInv
<1> SUFFICES ASSUME Init PROVE StopInv
  OBVIOUS
<1>1. loose \in [Kind -> Nat] /\ loose["room"] = 0 /\ loose["full"] = 0
  BY DEF Init, Kind
<1>2. TypeOK
  <2>1. tokens \in 0 .. Cap
    BY MinerAssumption DEF Init
  <2>2. txClosed \in BOOLEAN /\ stopped \in BOOLEAN
    BY DEF Init
  <2>3. watcher \in Kind \cup {"none", "fired"}
    BY DEF Init
  <2> QED BY <1>1, <2>1, <2>2, <2>3 DEF Init, TypeOK
<1>3. WaitGroupCounts
  BY <1>1 DEF Init, WaitGroupCounts, Counted, Kind
<1> QED BY <1>2, <1>3 DEF Init, StopInv

\* The watcher of a new attempt has one of the two kinds.
LEMMA KindOfKind == \A txs : KindOf(txs) \in Kind
BY DEF KindOf, Kind

\* A receive leaves the number of tokens within the capacity of newTxCh.
LEMMA ReceiveType == TypeOK /\ Receive => tokens' \in 0 .. Cap
BY MinerAssumption DEF TypeOK, Receive

\* When attemptToMine returns, its watcher is counted among those left behind.
LEMMA ReturnCounts ==
  ASSUME TypeOK, Return
  PROVE  /\ loose' \in [Kind -> Nat]
         /\ loose'["room"] + loose'["full"]
              = loose["room"] + loose["full"] + Counted(watcher \in Kind)
BY DEF TypeOK, Return, Kind, Counted

\* Whatever the listener does, the wait group goes on counting goroutines.
LEMMA ListenStop == StopInv /\ Listen => StopInv'
<1> SUFFICES ASSUME StopInv, Listen PROVE StopInv'
  OBVIOUS
<1> USE MinerAssumption DEF StopInv, TypeOK, WaitGroupCounts, Counted, Kind
<1>1. CASE \E tx \in Tx : handleTransactionMessage(tx)
  BY <1>1 DEF handleTransactionMessage
<1>2. CASE notify
  <2>1. tokens' \in 0 .. Cap
    BY <1>2 DEF notify
  <2> QED BY <1>2, <2>1 DEF notify
<1>3. CASE handleBlockMessage
  BY <1>3 DEF handleBlockMessage
<1>4. CASE listenStop
  BY <1>4 DEF listenStop
<1> QED BY <1>1, <1>2, <1>3, <1>4 DEF Listen

\* Whatever the miner does, too: it counts a watcher before it starts it, and a
\* watcher it leaves behind stays counted.
LEMMA MineStop == StopInv /\ Mine => StopInv'
<1> SUFFICES ASSUME StopInv, Mine PROVE StopInv'
  OBVIOUS
<1>1. CASE minerStop
  BY <1>1 DEF minerStop, StopInv, TypeOK, WaitGroupCounts, Counted, Kind
<1>2. CASE minerWake
  BY <1>2, ReceiveType
  DEF minerWake, StopInv, TypeOK, WaitGroupCounts, Counted, Kind
<1>3. CASE attemptToMine
  <2>1. CASE mempool = {}
    BY <1>3, <2>1 DEF attemptToMine, StopInv, TypeOK, WaitGroupCounts, Counted, Kind
  <2>2. CASE mempool # {}
    <3>1. candidate' \in SUBSET Tx /\ watcher' \in Kind
      BY <1>3, <2>2, KindOfKind DEF attemptToMine, getTxsFromMempool, StopInv, TypeOK
    <3>2. watcher = "none"
      BY <1>3 DEF attemptToMine, StopInv
    <3> QED
      BY <1>3, <2>2, <3>1, <3>2
      DEF attemptToMine, StopInv, TypeOK, WaitGroupCounts, Counted, Kind
  <2> QED BY <2>1, <2>2
<1>4. CASE mineBlock
  <2>1. CASE Return
    BY <1>4, <2>1, ReturnCounts
    DEF mineBlock, Return, StopInv, TypeOK, WaitGroupCounts, Counted, Kind
  <2>2. CASE ~Return
    BY <1>4, <2>2 DEF mineBlock, StopInv, TypeOK, WaitGroupCounts, Counted, Kind
  <2> QED BY <2>1, <2>2
<1>5. CASE meetsTarget
  BY <1>5 DEF meetsTarget, StopInv, TypeOK, WaitGroupCounts, Counted, Kind
<1>6. CASE nextChallenge
  BY <1>6 DEF nextChallenge, StopInv, TypeOK, WaitGroupCounts, Counted, Kind
<1>7. CASE addBlockToBlockchain
  <2>1. mempool' \in SUBSET Tx
    BY <1>7 DEF addBlockToBlockchain, StopInv, TypeOK
  <2> QED
    BY <1>7, <2>1, ReturnCounts
    DEF addBlockToBlockchain, Return, StopInv, TypeOK, WaitGroupCounts, Counted, Kind
<1> QED BY <1>1, <1>2, <1>3, <1>4, <1>5, <1>6, <1>7 DEF Mine

\* Whatever a watcher does, too: it is counted until it ends.
LEMMA WatchStop == StopInv /\ Watch => StopInv'
<1> SUFFICES ASSUME StopInv, Watch PROVE StopInv'
  OBVIOUS
<1>1. CASE watch
  BY <1>1, ReceiveType
  DEF watch, StopInv, TypeOK, WaitGroupCounts, Counted, Kind
<1>2. CASE \E k \in Kind : watchLoose(k)
  <2>1. PICK k \in Kind : watchLoose(k)
    BY <1>2
  <2>2. tokens' \in 0 .. Cap
    BY <2>1, ReceiveType DEF watchLoose, StopInv, TypeOK
  <2>3. \/ loose' = loose /\ wg' = wg
        \/ loose' = [loose EXCEPT ![k] = @ - 1] /\ loose[k] > 0 /\ wg' = wg - 1
    BY <2>1 DEF watchLoose
  <2>4. loose \in [Kind -> Nat]
    BY DEF StopInv, TypeOK
  <2>5. /\ loose' \in [Kind -> Nat]
        /\ loose'["room"] + loose'["full"] - wg'
             = loose["room"] + loose["full"] - wg
    <3>1. wg \in Nat /\ k \in {"room", "full"}
      BY DEF Kind, StopInv, TypeOK
    <3>2. CASE loose' = loose /\ wg' = wg
      BY <2>4, <3>2
    <3>3. CASE loose' = [loose EXCEPT ![k] = @ - 1] /\ loose[k] > 0 /\ wg' = wg - 1
      <4>1. loose' \in [Kind -> Nat]
        BY <2>4, <3>1, <3>3 DEF Kind
      <4>2. loose["room"] \in Nat /\ loose["full"] \in Nat
        BY <2>4 DEF Kind
      <4>3. CASE k = "room"
        <5>1. loose'["room"] = loose["room"] - 1 /\ loose'["full"] = loose["full"]
          BY <2>4, <3>3, <4>3 DEF Kind
        <5> QED BY <3>1, <3>3, <4>1, <4>2, <5>1
      <4>4. CASE k = "full"
        <5>1. loose'["full"] = loose["full"] - 1 /\ loose'["room"] = loose["room"]
          BY <2>4, <3>3, <4>4 DEF Kind
        <5> QED BY <3>1, <3>3, <4>1, <4>2, <5>1
      <4> QED BY <3>1, <4>3, <4>4
    <3> QED BY <2>3, <3>2, <3>3
  <2>6. UNCHANGED <<unsent, mempool, txClosed, stopped, listener, miner,
                    candidate, watcher, stopper, senders>>
    BY <2>1 DEF watchLoose
  <2>7. wg > 0 /\ wg' \in Nat
    BY <2>1, <2>3, <2>4 DEF watchLoose, StopInv, TypeOK, WaitGroupCounts, Counted, Kind
  <2>8. TypeOK'
    BY <2>2, <2>5, <2>6, <2>7 DEF StopInv, TypeOK
  <2>9. WaitGroupCounts'
    <3>1. /\ loose["room"] \in Nat /\ loose["full"] \in Nat /\ wg \in Nat
          /\ loose'["room"] \in Nat /\ loose'["full"] \in Nat
      BY <2>4, <2>5 DEF Kind, StopInv, TypeOK
    <3> QED
      BY <2>5, <2>6, <2>7, <3>1 DEF StopInv, WaitGroupCounts, Counted
  <2> QED BY <2>6, <2>7, <2>8, <2>9 DEF StopInv
<1> QED BY <1>1, <1>2 DEF Watch

\* A goroutine that sends a block changes nothing the wait group counts.
LEMMA SendStop == StopInv /\ broadCastRoutine => StopInv'
BY DEF broadCastRoutine, StopInv, TypeOK, WaitGroupCounts, Counted, Kind

\* Stop itself returns with the counter at zero.
LEMMA StopStop == StopInv /\ Stop => StopInv'
BY DEF Stop, StopInv, TypeOK, WaitGroupCounts, Counted, Kind

\* The wait group counts exactly the goroutines of the node that have not ended.
THEOREM StopInvHolds == Spec => []StopInv
<1>1. StopInv /\ [Next]_mvars => StopInv'
  <2> SUFFICES ASSUME StopInv, [Next]_mvars PROVE StopInv'
    OBVIOUS
  <2>1. CASE Next
    BY <2>1, ListenStop, MineStop, WatchStop, SendStop, StopStop DEF Next
  <2>2. CASE UNCHANGED mvars
    BY <2>2 DEF mvars, StopInv, TypeOK, WaitGroupCounts, Counted, Kind
  <2> QED BY <2>1, <2>2
<1> QED BY InitStop, <1>1, PTL DEF Spec

\* Every variable of the goroutines keeps its type.
THEOREM TypeCorrect == Spec => []TypeOK
<1>1. StopInv => TypeOK
  BY DEF StopInv
<1> QED BY <1>1, StopInvHolds, PTL

\* When Stop returns, the listener, the miner and every watcher, those of past
\* attempts included, have ended.
THEOREM StopWaitsHolds == Spec => []StopWaits
<1>1. StopInv => StopWaits
  BY DEF StopInv, StopWaits, TypeOK, WaitGroupCounts, Counted, Kind
<1> QED BY <1>1, StopInvHolds, PTL
=============================================================================
