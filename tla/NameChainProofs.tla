-------------------------- MODULE NameChainProofs ---------------------------
(***************************************************************************)
(* Proofs about NameChain, for every set of nodes, transactions, domains   *)
(* and owners, and every number of blocks.                                 *)
(*                                                                         *)
(* Types and the lineage of the entries need nothing of the clients.  That *)
(* the stored blocks are one chain, and counted, needs that one node       *)
(* mines.  That spending consumes needs that every name is handed on in    *)
(* one line.  Convergence follows from each of the two.                    *)
(***************************************************************************)
EXTENDS NameChain, SequenceTheorems, FiniteSetTheorems, WellFoundedInduction, TLAPS

-----------------------------------------------------------------------------
(* The operators the actions are built from. *)

\* Every transaction a client sends is a transaction.
LEMMA TxType == AllTx \subseteq Transaction
BY NameChainAssumption DEF AllTx

\* A transaction of a block is one a client sent.
LEMMA TxOfBlock ==
  ASSUME NEW b \in Block, NEW i \in DOMAIN b.txs
  PROVE  b.txs[i] \in AllTx
BY DEF Block

\* The genesis block is a block, and so is any other a goroutine works on.
LEMMA GenesisType == Genesis \in Block /\ \A n \in Node : Idle(n) \in Thread
<1>1. <<>> \in Seq(Seq(AllTx)) /\ <<>> \in Seq(AllTx) /\ Len(<<>>) = 0
  OBVIOUS
<1>2. Genesis \in Block
  BY <1>1, NameChainAssumption DEF Genesis, Block, Hash
<1> QED BY <1>2 DEF Idle, At, Thread

\* The hash of a block is a hash.
LEMMA HashType == \A b \in Block : HashOf(b) \in Hash
BY DEF Block, Hash, HashOf

\* Threads are well formed.
LEMMA AtType ==
  ASSUME NEW n \in Node, NEW b \in Block, NEW i \in Nat, NEW h \in Nat,
         NEW pc \in {"idle", "validate", "mine", "add", "remove", "put", "count"}
  PROVE  At(pc, n, b, i, h) \in Thread
BY DEF At, Thread

\* A candidate block holds transactions of the mempool, and no more than fit.
LEMMA CandidateType ==
  ASSUME NEW pool \in SUBSET AllTx, NEW txs \in getTxsFromMempool(pool)
  PROVE  txs \in Seq(AllTx) /\ Len(txs) <= MaxTxPerBlock
<1> DEFINE k == IF Cardinality(pool) < MaxTxPerBlock
                THEN Cardinality(pool) ELSE MaxTxPerBlock
<1>1. IsFiniteSet(pool)
  BY NameChainAssumption, FS_Subset DEF AllTx
<1>2. Cardinality(pool) \in Nat
  BY <1>1, FS_CardinalityType
<1>3. k \in Nat /\ k <= MaxTxPerBlock
  BY <1>2, NameChainAssumption
<1>4. txs \in [1 .. k -> pool]
  BY DEF getTxsFromMempool
<1> HIDE DEF k
<1>5. txs \in [1 .. k -> AllTx]
  BY <1>4
<1> QED BY <1>3, <1>5

\* Adding an entry adds nothing else, and removing one adds nothing.
LEMMA AddsOnly ==
  ASSUME NEW s, NEW u, NEW d
  PROVE  addUTXO(s, u) \subseteq s \cup {u} /\ removeUTXO(s, d) \subseteq s
BY DEF addUTXO, removeUTXO

-----------------------------------------------------------------------------
(* Type correctness. *)

\* After Start every variable has its type.
LEMMA InitType == Init => TypeOK
<1> SUFFICES ASSUME Init PROVE TypeOK
  OBVIOUS
<1>1. Genesis \in Block /\ HashOf(Genesis) \in Hash
  BY GenesisType, HashType
<1>2. \A n \in Node : Idle(n) \in Thread
  BY GenesisType
<1>3. <<>> \in Seq(Block)
  OBVIOUS
<1> QED BY <1>1, <1>2, <1>3 DEF Init, TypeOK

\* A goroutine's new state keeps the type of thread.
LEMMA BecomesType ==
  ASSUME TypeOK, NEW n \in Node, NEW g \in Goroutine, NEW t \in Thread,
         Becomes(n, g, t)
  PROVE  thread' \in [Node -> [Goroutine -> Thread]]
BY DEF TypeOK, Becomes

\* Every step of every goroutine keeps the types.
LEMMA StepType == TypeOK /\ [Next]_cvars => TypeOK'
<1> SUFFICES ASSUME TypeOK, [Next]_cvars PROVE TypeOK'
  OBVIOUS
<1>idle. \A n \in Node : Idle(n) \in Thread
  BY GenesisType
<1>lm. "listener" \in Goroutine /\ "miner" \in Goroutine
  BY DEF Goroutine
<1>thr. \A n \in Node : \A g \in Goroutine :
          /\ thread[n][g] \in Thread
          /\ thread[n][g].block \in Block /\ thread[n][g].from \in Node
          /\ thread[n][g].i \in Nat /\ thread[n][g].height \in Nat
  <2>1. \A t \in Thread : t.block \in Block /\ t.from \in Node
                            /\ t.i \in Nat /\ t.height \in Nat
    BY DEF Thread
  <2>2. \A n \in Node : \A g \in Goroutine : thread[n][g] \in Thread
    BY DEF TypeOK
  <2> QED BY <2>1, <2>2
<1>1. CASE Tick
  BY <1>1 DEF Tick, TypeOK
<1>2. ASSUME NEW n \in Node, NEW tx \in Sent[n], handleTransactionMessage(n, tx)
      PROVE  TypeOK'
  <2>1. tx \in AllTx
    BY DEF AllTx
  <2> QED BY <1>2, <2>1 DEF handleTransactionMessage, TypeOK
<1>3. ASSUME NEW n \in Node, NEW o \in Node, handleBlockMessage(n, o)
      PROVE  TypeOK'
  <2> DEFINE b == log[o][accepted[n][o] + 1]
  <2>1. b \in Block
    BY <1>3 DEF handleBlockMessage, TypeOK
  <2>2. At("validate", o, b, 1, 0) \in Thread
    BY <2>1, AtType
  <2>3. thread' \in [Node -> [Goroutine -> Thread]]
    BY <1>3, <1>lm, <2>2, BecomesType DEF handleBlockMessage
  <2> QED BY <1>3, <2>3 DEF handleBlockMessage, TypeOK
<1>4. ASSUME NEW n \in Node, validateBlock(n) PROVE TypeOK'
  <2> DEFINE t == thread[n]["listener"]
  <2>1. t.i + 1 \in Nat /\ t.block \in Block /\ t.from \in Node
    BY <1>thr, <1>lm
  <2>2. /\ At("validate", t.from, t.block, t.i + 1, 0) \in Thread
        /\ At("add", t.from, t.block, 1, 0) \in Thread
        /\ Idle(n) \in Thread
    BY <2>1, <1>idle, AtType
  <2>3. thread' \in [Node -> [Goroutine -> Thread]]
    BY <1>4, <1>lm, <2>2, BecomesType DEF validateBlock
  <2> QED BY <1>4, <2>3 DEF validateBlock, TypeOK
<1>5. ASSUME NEW n \in Node, createCandidateBlock(n) PROVE TypeOK'
  <2>1. PICK txs \in getTxsFromMempool(mempool[n]) :
          Becomes(n, "miner",
            At("mine", n, [prev |-> lastHash[n], nonce |-> currentHeight[n] + 1,
                           txs |-> txs], 1, 0))
    BY <1>5 DEF createCandidateBlock
  <2>2. txs \in Seq(AllTx) /\ Len(txs) <= MaxTxPerBlock
    BY CandidateType DEF TypeOK
  <2>3. [prev |-> lastHash[n], nonce |-> currentHeight[n] + 1, txs |-> txs] \in Block
    BY <2>2 DEF Block, TypeOK
  <2>4. thread' \in [Node -> [Goroutine -> Thread]]
    BY <1>lm, <2>1, <2>3, AtType, BecomesType
  <2> QED BY <1>5, <2>4 DEF createCandidateBlock, TypeOK
<1>6. ASSUME NEW n \in Node, stopMining(n) PROVE TypeOK'
  <2>1. thread' \in [Node -> [Goroutine -> Thread]]
    BY <1>6, <1>lm, <1>idle, BecomesType DEF stopMining
  <2> QED BY <1>6, <2>1 DEF stopMining, TypeOK
<1>7. ASSUME NEW n \in Node, mineBlock(n) PROVE TypeOK'
  <2> DEFINE b == thread[n]["miner"].block
  <2>1. b \in Block /\ At("add", n, b, 1, 0) \in Thread
    BY <1>thr, <1>lm, AtType
  <2>2. thread' \in [Node -> [Goroutine -> Thread]]
    BY <1>7, <1>lm, <2>1, BecomesType DEF mineBlock
  <2>3. Append(log[n], b) \in Seq(Block)
    BY <2>1 DEF TypeOK
  <2>4. log' \in [Node -> Seq(Block)]
    BY <1>7, <2>3 DEF mineBlock, TypeOK
  <2> QED BY <1>7, <2>2, <2>4 DEF mineBlock, TypeOK
<1>tx. \A n \in Node : \A g \in Goroutine :
         LET t == thread[n][g]
         IN  t.i \in DOMAIN t.block.txs => t.block.txs[t.i].output \in UTXO
  BY <1>thr, TxOfBlock, TxType DEF Transaction
<1>8. ASSUME NEW n \in Node, NEW g \in Goroutine, addTransaction(n, g)
      PROVE  TypeOK'
  <2> DEFINE t == thread[n][g]
             u == t.block.txs[t.i].output
  <2>1. /\ At("add", t.from, t.block, t.i + 1, 0) \in Thread
        /\ At("remove", t.from, t.block, t.i, 0) \in Thread
    BY <1>thr, AtType
  <2>2. thread' \in [Node -> [Goroutine -> Thread]]
    BY <1>8, <1>idle, <2>1, BecomesType DEF addTransaction
  <2>3. addUTXO(UTXOSet[n], u) \in SUBSET UTXO
    <3>1. u \in UTXO /\ UTXOSet[n] \subseteq UTXO
      BY <1>8, <1>tx DEF TypeOK, addTransaction
    <3> HIDE DEF t, u
    <3>2. addUTXO(UTXOSet[n], u) \subseteq UTXOSet[n] \cup {u}
      BY AddsOnly
    <3> QED BY <3>1, <3>2
  <2>4. UTXOSet' \in [Node -> SUBSET UTXO]
    BY <1>8, <2>3 DEF addTransaction, TypeOK
  <2> QED BY <1>8, <2>2, <2>4 DEF addTransaction, TypeOK
<1>12. ASSUME NEW n \in Node, NEW g \in Goroutine, removeInput(n, g)
       PROVE  TypeOK'
  <2> DEFINE t == thread[n][g]
             d == t.block.txs[t.i].input.domain
  <2>1. At("put", t.from, t.block, t.i, 0) \in Thread
    BY <1>thr, AtType
  <2>2. thread' \in [Node -> [Goroutine -> Thread]]
    BY <1>12, <2>1, BecomesType DEF removeInput
  <2>3. removeUTXO(UTXOSet[n], d) \in SUBSET UTXO
    <3>1. UTXOSet[n] \subseteq UTXO
      BY DEF TypeOK
    <3> HIDE DEF d
    <3> QED BY <3>1, AddsOnly
  <2>4. UTXOSet' \in [Node -> SUBSET UTXO]
    BY <1>12, <2>3 DEF removeInput, TypeOK
  <2> QED BY <1>12, <2>2, <2>4 DEF removeInput, TypeOK
<1>13. ASSUME NEW n \in Node, NEW g \in Goroutine, addOutput(n, g)
       PROVE  TypeOK'
  <2> DEFINE t == thread[n][g]
             u == t.block.txs[t.i].output
  <2>1. At("add", t.from, t.block, t.i + 1, 0) \in Thread
    BY <1>thr, AtType
  <2>2. thread' \in [Node -> [Goroutine -> Thread]]
    BY <1>13, <2>1, BecomesType DEF addOutput
  <2>3. addUTXO(UTXOSet[n], u) \in SUBSET UTXO
    <3>1. u \in UTXO /\ UTXOSet[n] \subseteq UTXO
      BY <1>13, <1>tx DEF TypeOK, addOutput
    <3> HIDE DEF t, u
    <3>2. addUTXO(UTXOSet[n], u) \subseteq UTXOSet[n] \cup {u}
      BY AddsOnly
    <3> QED BY <3>1, <3>2
  <2>4. UTXOSet' \in [Node -> SUBSET UTXO]
    BY <1>13, <2>3 DEF addOutput, TypeOK
  <2> QED BY <1>13, <2>2, <2>4 DEF addOutput, TypeOK
<1>9. ASSUME NEW n \in Node, NEW g \in Goroutine, storeBlock(n, g)
      PROVE  TypeOK'
  <2> DEFINE t == thread[n][g]
  <2>1. At("count", t.from, t.block, t.i, currentHeight[n]) \in Thread
    BY <1>thr, AtType DEF TypeOK
  <2>2. thread' \in [Node -> [Goroutine -> Thread]]
    BY <1>9, <2>1, BecomesType DEF storeBlock
  <2>3. HashOf(t.block) \in Hash /\ t.block \in Block
    BY <1>thr, HashType
  <2>4. blocks' \in [Node -> SUBSET Block] /\ lastHash' \in [Node -> Hash]
    BY <1>9, <2>3 DEF storeBlock, TypeOK
  <2> QED BY <1>9, <2>2, <2>4 DEF storeBlock, TypeOK
<1>10. ASSUME NEW n \in Node, NEW g \in Goroutine, finishBlock(n, g)
       PROVE  TypeOK'
  <2> DEFINE t == thread[n][g]
  <2>1. thread' \in [Node -> [Goroutine -> Thread]]
    BY <1>10, <1>idle, BecomesType DEF finishBlock
  <2>2. removeTxsFromMempool(mempool[n], t.block) \in SUBSET AllTx
    BY DEF removeTxsFromMempool, TypeOK
  <2>3. t.height + 1 \in Nat /\ t.from \in Node
    BY <1>thr
  <2>4. currentHeight' \in [Node -> Nat]
    BY <1>10, <2>3 DEF finishBlock, TypeOK
  <2>5. mempool' \in [Node -> SUBSET AllTx]
    BY <1>10, <2>2 DEF finishBlock, TypeOK
  <2>6. accepted' \in [Node -> [Node -> Nat]]
    <3>1. \/ accepted' = accepted
          \/ accepted' = [accepted EXCEPT ![n][t.from] = @ + 1]
      BY <1>10 DEF finishBlock
    <3>2. accepted \in [Node -> [Node -> Nat]]
      BY DEF TypeOK
    <3> HIDE DEF t
    <3>3. CASE accepted' = [accepted EXCEPT ![n][t.from] = @ + 1]
      <4>1. PICK o \in Node : o = t.from
        BY <2>3
      <4>2. [accepted[n] EXCEPT ![o] = accepted[n][o] + 1] \in [Node -> Nat]
        BY <3>2
      <4> QED BY <3>2, <3>3, <4>1, <4>2
    <3> QED BY <3>1, <3>2, <3>3
  <2> QED BY <1>10, <2>1, <2>4, <2>5, <2>6 DEF finishBlock, TypeOK
<1>11. CASE UNCHANGED cvars
  BY <1>11 DEF cvars, TypeOK
<1> QED
  BY <1>1, <1>2, <1>3, <1>4, <1>5, <1>6, <1>7, <1>8, <1>9, <1>10, <1>11,
     <1>12, <1>13
  DEF Next, addBlockToBlockchain

\* Type correctness of the registry: in particular no block ever holds more
\* than MaxTxPerBlock transactions, at the miner, in flight or in a store.
THEOREM TypeCorrect == Spec => []TypeOK
BY InitType, StepType, PTL DEF Spec

-----------------------------------------------------------------------------
(* The lineage of domain entries. *)

\* The closed set s bounds the entries and the outputs about to be added.
Bounded(s) ==
  /\ \A n \in Node : UTXOSet[n] \subseteq s
  /\ \A n \in Node : \A g \in Goroutine :
       LET t == thread[n][g]
       IN  t.pc \in {"remove", "put"} /\ t.i \in DOMAIN t.block.txs
             => t.block.txs[t.i].output \in s

\* A goroutine that moves to a step outside addBlockToBlockchain's two writes
\* has no output to add.
LEMMA MovesOn ==
  ASSUME TypeOK, NEW s, Bounded(s), UNCHANGED UTXOSet,
         NEW n \in Node, NEW g \in Goroutine, NEW t, Becomes(n, g, t),
         t.pc \notin {"remove", "put"}
  PROVE  Bounded(s)'
<1>1. \A k \in Node : \A h \in Goroutine :
        thread'[k][h] = IF k = n /\ h = g THEN t ELSE thread[k][h]
  BY DEF Becomes, TypeOK
<1> QED BY <1>1 DEF Bounded

\* The same for a step that adds one bounded entry and removes others.
LEMMA Writes ==
  ASSUME TypeOK, NEW s, Bounded(s), NEW n \in Node, NEW g \in Goroutine, NEW t,
         Becomes(n, g, t), NEW new, new \subseteq s,
         UTXOSet' = [UTXOSet EXCEPT ![n] = new],
         t.pc \in {"remove", "put"} /\ t.i \in DOMAIN t.block.txs
           => t.block.txs[t.i].output \in s
  PROVE  Bounded(s)'
<1>1. \A k \in Node : \A h \in Goroutine :
        thread'[k][h] = IF k = n /\ h = g THEN t ELSE thread[k][h]
  BY DEF Becomes, TypeOK
<1>2. \A k \in Node : UTXOSet'[k] \subseteq s
  BY DEF Bounded, TypeOK
<1> QED BY <1>1, <1>2 DEF Bounded

\* addTransaction: a claim's output is in every closed set, and so is the output
\* of a transaction whose input is among the entries.
LEMMA AddTransactionBounded ==
  ASSUME TypeOK, NEW s, Closed(s), Bounded(s),
         NEW n \in Node, NEW g \in Goroutine, addTransaction(n, g)
  PROVE  Bounded(s)'
<1> DEFINE t == thread[n][g]
           tx == t.block.txs[t.i]
<1>1. t.i \in DOMAIN t.block.txs /\ t.block \in Block
  <2>1. t \in Thread
    BY DEF TypeOK
  <2>2. t.i \in DOMAIN t.block.txs
    BY DEF addTransaction
  <2> QED BY <2>1, <2>2 DEF Thread
<1>2. tx \in AllTx /\ tx \in Transaction
  BY <1>1, TxOfBlock, TxType
<1>3. CASE tx.type = "NameNew"
  <2>1. tx.output \in s
    BY <1>2, <1>3 DEF Closed
  <2>2. addUTXO(UTXOSet[n], tx.output) \subseteq s
    <3>1. UTXOSet[n] \subseteq s
      BY DEF Bounded
    <3> HIDE DEF tx
    <3> QED BY <2>1, <3>1, AddsOnly
  <2>3. /\ UTXOSet' = [UTXOSet EXCEPT ![n] = addUTXO(UTXOSet[n], tx.output)]
        /\ Becomes(n, g, At("add", t.from, t.block, t.i + 1, 0))
    BY <1>3 DEF addTransaction
  <2>4. At("add", t.from, t.block, t.i + 1, 0).pc = "add"
    BY DEF At
  <2> QED BY <2>2, <2>3, <2>4, Writes
<1>4. CASE tx.type # "NameNew" /\ findUTXO(UTXOSet[n], tx.input) # {}
  <2>1. PICK u \in UTXOSet[n] :
          u.domain = tx.input.domain /\ u.owner = tx.input.owner
    BY <1>4 DEF findUTXO
  <2>2. [domain |-> u.domain, owner |-> u.owner] = tx.input
    BY <1>2, <2>1 DEF Transaction
  <2>3. u \in s
    BY DEF Bounded
  <2>4. tx.output \in s
    BY <1>2, <2>2, <2>3 DEF Closed
  <2>5. UTXOSet' = [UTXOSet EXCEPT ![n] = UTXOSet[n]]
    BY <1>4 DEF addTransaction, TypeOK
  <2>6. Becomes(n, g, At("remove", t.from, t.block, t.i, 0))
    BY <1>4 DEF addTransaction
  <2>7. /\ At("remove", t.from, t.block, t.i, 0).block = t.block
        /\ At("remove", t.from, t.block, t.i, 0).i = t.i
    BY DEF At
  <2>8. UTXOSet[n] \subseteq s
    BY DEF Bounded
  <2> QED BY <2>4, <2>5, <2>6, <2>7, <2>8, Writes
<1>5. CASE tx.type # "NameNew" /\ findUTXO(UTXOSet[n], tx.input) = {}
  <2>1. Becomes(n, g, Idle(n)) /\ UNCHANGED UTXOSet
    BY <1>5 DEF addTransaction
  <2>2. Idle(n).pc = "idle"
    BY DEF Idle, At
  <2> QED BY <2>1, <2>2, MovesOn
<1> QED BY <1>3, <1>4, <1>5

\* Every step keeps every closed set a bound: the output that is written is the
\* one whose input was found, whatever the other goroutine did in between.
LEMMA StepBounded ==
  ASSUME TypeOK, NEW s, Closed(s), Bounded(s), [Next]_cvars
  PROVE  Bounded(s)'
<1>1. CASE Tick \/ UNCHANGED cvars
  BY <1>1 DEF Tick, cvars, Bounded
<1>2. ASSUME NEW n \in Node, NEW tx \in Sent[n], handleTransactionMessage(n, tx)
      PROVE  Bounded(s)'
  BY <1>2 DEF handleTransactionMessage, Bounded
<1>3. ASSUME NEW n \in Node, NEW o \in Node, handleBlockMessage(n, o)
      PROVE  Bounded(s)'
  <2> DEFINE t == At("validate", o, log[o][accepted[n][o] + 1], 1, 0)
  <2>1. t.pc = "validate" /\ "listener" \in Goroutine
    BY DEF At, Goroutine
  <2>2. Becomes(n, "listener", t) /\ UNCHANGED UTXOSet
    BY <1>3 DEF handleBlockMessage
  <2> QED BY <2>1, <2>2, MovesOn
<1>4. ASSUME NEW n \in Node, validateBlock(n) PROVE Bounded(s)'
  <2> DEFINE t == thread[n]["listener"]
  <2>1. UNCHANGED UTXOSet /\ "listener" \in Goroutine
    BY <1>4 DEF validateBlock, Goroutine
  <2>2. \/ Becomes(n, "listener", At("validate", t.from, t.block, t.i + 1, 0))
        \/ Becomes(n, "listener", Idle(n))
        \/ Becomes(n, "listener", At("add", t.from, t.block, 1, 0))
    BY <1>4 DEF validateBlock
  <2>3. /\ At("validate", t.from, t.block, t.i + 1, 0).pc = "validate"
        /\ Idle(n).pc = "idle"
        /\ At("add", t.from, t.block, 1, 0).pc = "add"
    BY DEF At, Idle
  <2> QED BY <2>1, <2>2, <2>3, MovesOn
<1>5. ASSUME NEW n \in Node, createCandidateBlock(n) PROVE Bounded(s)'
  <2>1. PICK txs \in getTxsFromMempool(mempool[n]) :
          Becomes(n, "miner",
            At("mine", n, [prev |-> lastHash[n], nonce |-> currentHeight[n] + 1,
                           txs |-> txs], 1, 0))
    BY <1>5 DEF createCandidateBlock
  <2> DEFINE t == At("mine", n, [prev |-> lastHash[n],
                       nonce |-> currentHeight[n] + 1, txs |-> txs], 1, 0)
  <2>2. t.pc = "mine" /\ UNCHANGED UTXOSet /\ "miner" \in Goroutine
    BY <1>5 DEF At, createCandidateBlock, Goroutine
  <2> QED BY <2>1, <2>2, MovesOn
<1>6. ASSUME NEW n \in Node, stopMining(n) PROVE Bounded(s)'
  <2>1. Becomes(n, "miner", Idle(n)) /\ UNCHANGED UTXOSet
    BY <1>6 DEF stopMining
  <2>2. Idle(n).pc = "idle" /\ "miner" \in Goroutine
    BY DEF Idle, At, Goroutine
  <2> QED BY <2>1, <2>2, MovesOn
<1>7. ASSUME NEW n \in Node, mineBlock(n) PROVE Bounded(s)'
  <2> DEFINE t == At("add", n, thread[n]["miner"].block, 1, 0)
  <2>1. Becomes(n, "miner", t) /\ UNCHANGED UTXOSet
    BY <1>7 DEF mineBlock
  <2>2. t.pc = "add" /\ "miner" \in Goroutine
    BY DEF At, Goroutine
  <2> QED BY <2>1, <2>2, MovesOn
<1>8. ASSUME NEW n \in Node, NEW g \in Goroutine, removeInput(n, g)
      PROVE  Bounded(s)'
  <2> DEFINE t == thread[n][g]
             d == t.block.txs[t.i].input.domain
             new == removeUTXO(UTXOSet[n], d)
  <2>1. new \subseteq s
    <3>1. UTXOSet[n] \subseteq s
      BY DEF Bounded
    <3> HIDE DEF d
    <3> QED BY <3>1, AddsOnly
  <2>2. /\ UTXOSet' = [UTXOSet EXCEPT ![n] = new]
        /\ Becomes(n, g, At("put", t.from, t.block, t.i, 0))
    BY <1>8 DEF removeInput
  <2>3. t.block.txs[t.i].output \in s
    BY <1>8 DEF removeInput, In, Bounded
  <2>4. /\ At("put", t.from, t.block, t.i, 0).block = t.block
        /\ At("put", t.from, t.block, t.i, 0).i = t.i
    BY DEF At
  <2> HIDE DEF new
  <2> QED BY <2>1, <2>2, <2>3, <2>4, Writes
<1>9. ASSUME NEW n \in Node, NEW g \in Goroutine, addOutput(n, g)
      PROVE  Bounded(s)'
  <2> DEFINE t == thread[n][g]
             new == addUTXO(UTXOSet[n], t.block.txs[t.i].output)
  <2>1. t.block.txs[t.i].output \in s
    BY <1>9 DEF addOutput, In, Bounded
  <2>2. new \subseteq s
    BY <2>1, AddsOnly DEF Bounded
  <2>3. /\ UTXOSet' = [UTXOSet EXCEPT ![n] = new]
        /\ Becomes(n, g, At("add", t.from, t.block, t.i + 1, 0))
    BY <1>9 DEF addOutput
  <2>4. At("add", t.from, t.block, t.i + 1, 0).pc = "add"
    BY DEF At
  <2> HIDE DEF new
  <2> QED BY <2>2, <2>3, <2>4, Writes
<1>10. ASSUME NEW n \in Node, NEW g \in Goroutine, storeBlock(n, g)
       PROVE  Bounded(s)'
  <2> DEFINE t == thread[n][g]
             new == At("count", t.from, t.block, t.i, currentHeight[n])
  <2>1. Becomes(n, g, new) /\ UNCHANGED UTXOSet
    BY <1>10 DEF storeBlock
  <2>2. new.pc = "count"
    BY DEF At
  <2> QED BY <2>1, <2>2, MovesOn
<1>11. ASSUME NEW n \in Node, NEW g \in Goroutine, finishBlock(n, g)
       PROVE  Bounded(s)'
  <2>1. Becomes(n, g, Idle(n)) /\ UNCHANGED UTXOSet
    BY <1>11 DEF finishBlock
  <2>2. Idle(n).pc = "idle"
    BY DEF Idle, At
  <2> QED BY <2>1, <2>2, MovesOn
<1> QED
  BY <1>1, <1>2, <1>3, <1>4, <1>5, <1>6, <1>7, <1>8, <1>9, <1>10, <1>11,
     AddTransactionBounded
  DEF Next, addBlockToBlockchain

\* Every entry of every node comes from a NameNew transaction by transactions
\* that each name the owner before, whatever the two goroutines interleave.
THEOREM OwnershipLineageHolds == Spec => []OwnershipLineage
<1> DEFINE Inv == \A s \in SUBSET Outputs : Closed(s) => Bounded(s)
<1>1. Init => Inv
  <2> SUFFICES ASSUME Init, NEW s \in SUBSET Outputs PROVE Bounded(s)
    OBVIOUS
  <2>1. \A n \in Node : \A g \in Goroutine : thread[n][g].pc = "idle"
    BY DEF Init, Idle, At
  <2> QED BY <2>1 DEF Init, Bounded
<1>2. TypeOK /\ Inv /\ [Next]_cvars => Inv'
  <2> SUFFICES ASSUME TypeOK, Inv, [Next]_cvars,
                      NEW s \in SUBSET Outputs, Closed(s)
               PROVE  Bounded(s)'
    BY DEF Closed, Outputs
  <2> QED BY StepBounded
<1>3. Inv => OwnershipLineage
  BY DEF Bounded, OwnershipLineage
<1> QED BY <1>1, <1>2, <1>3, TypeCorrect, PTL DEF Spec

-----------------------------------------------------------------------------
(* Where the goroutines are. *)

\* The two goroutines of a node, and when one is in addBlockToBlockchain.
Listener(n) == thread[n]["listener"]
Miner(n) == thread[n]["miner"]
Adding(t) == t.pc \in {"add", "remove", "put", "count"}

\* The index of a goroutine is one of its block, or just behind it.
InBlock(t) ==
  /\ t.pc # "idle" => t.i \in 1 .. Len(t.block.txs) + 1
  /\ t.pc \in {"remove", "put"} =>
       t.i \in DOMAIN t.block.txs /\ Spends(t.block.txs[t.i])
  /\ t.pc = "count" => t.i = Len(t.block.txs) + 1

\* A miner adds the last block it has broadcast.
MinerPlace(n) ==
  LET t == Miner(n)
  IN  /\ InBlock(t)
      /\ t.pc # "validate"
      /\ Adding(t) => log[n] # <<>> /\ t.block = log[n][Len(log[n])]

\* A listener works on the first block of an origin that it has not accepted.
ListenerPlace(n) ==
  LET t == Listener(n)
  IN  /\ InBlock(t)
      /\ t.pc # "mine"
      /\ t.pc # "idle" =>
           /\ t.from \in Node \ {n}
           /\ accepted[n][t.from] < Len(log[t.from])
           /\ t.block = log[t.from][accepted[n][t.from] + 1]

\* Nobody accepts a block before it is broadcast, and all goroutines are in place.
Places ==
  /\ \A n, o \in Node : accepted[n][o] <= Len(log[o])
  /\ \A n \in Node : MinerPlace(n) /\ ListenerPlace(n)

\* The fields of a goroutine's state.
LEMMA AtFields ==
  ASSUME NEW pc, NEW from, NEW b, NEW i, NEW h
  PROVE  /\ At(pc, from, b, i, h).pc = pc
         /\ At(pc, from, b, i, h).from = from
         /\ At(pc, from, b, i, h).block = b
         /\ At(pc, from, b, i, h).i = i
         /\ At(pc, from, b, i, h).height = h
BY DEF At

\* One goroutine moves at a time.
LEMMA OneMoves ==
  ASSUME TypeOK, NEW n \in Node, NEW g \in Goroutine, NEW t, Becomes(n, g, t)
  PROVE  \A k \in Node : \A h \in Goroutine :
           thread'[k][h] = IF k = n /\ h = g THEN t ELSE thread[k][h]
BY DEF Becomes, TypeOK

\* The types of what a goroutine works on.
LEMMA ThreadTypes ==
  ASSUME TypeOK, NEW n \in Node, NEW g \in Goroutine
  PROVE  /\ thread[n][g] \in Thread
         /\ thread[n][g].block \in Block /\ thread[n][g].from \in Node
         /\ thread[n][g].i \in Nat /\ thread[n][g].height \in Nat
         /\ thread[n][g].block.txs \in Seq(AllTx)
         /\ thread[n][g].block.prev \in Hash
         /\ Len(thread[n][g].block.txs) \in Nat
         /\ DOMAIN thread[n][g].block.txs = 1 .. Len(thread[n][g].block.txs)
<1>1. thread[n][g] \in Thread
  BY DEF TypeOK
<1>2. thread[n][g].block \in Block
  BY <1>1 DEF Thread
<1>3. thread[n][g].block.txs \in Seq(AllTx) /\ thread[n][g].block.prev \in Hash
  BY <1>2 DEF Block
<1> QED BY <1>1, <1>2, <1>3, LenProperties DEF Thread

\* Logs only grow.
LEMMA LogGrows ==
  ASSUME TypeOK, [Next]_cvars, NEW o \in Node
  PROVE  /\ Len(log[o]) \in Nat /\ Len(log'[o]) \in Nat
         /\ Len(log[o]) <= Len(log'[o])
         /\ \A k \in 1 .. Len(log[o]) : log'[o][k] = log[o][k]
         /\ log'[o] # log[o] => mineBlock(o)
<1>1. log[o] \in Seq(Block) /\ Len(log[o]) \in Nat
  BY DEF TypeOK
<1>2. CASE log'[o] = log[o]
  BY <1>1, <1>2
<1>3. CASE log'[o] # log[o]
  <2>1. mineBlock(o)
    <3>1. CASE UNCHANGED log
      BY <1>3, <3>1
    <3>2. ASSUME NEW n \in Node, mineBlock(n) PROVE mineBlock(o)
      BY <1>3, <3>2 DEF mineBlock, TypeOK
    <3>3. Tick \/ UNCHANGED cvars => UNCHANGED log
      BY DEF Tick, cvars
    <3>4. \A n \in Node : \A tx \in Sent[n] :
            handleTransactionMessage(n, tx) => UNCHANGED log
      BY DEF handleTransactionMessage
    <3>5. \A n, k \in Node : handleBlockMessage(n, k) => UNCHANGED log
      BY DEF handleBlockMessage
    <3>6. \A n \in Node : validateBlock(n) => UNCHANGED log
      BY DEF validateBlock
    <3>7. \A n \in Node : createCandidateBlock(n) \/ stopMining(n) => UNCHANGED log
      BY DEF createCandidateBlock, stopMining
    <3>8. \A n \in Node : \A g \in Goroutine :
            addBlockToBlockchain(n, g) => UNCHANGED log
      <4> TAKE n \in Node
      <4> TAKE g \in Goroutine
      <4>1. addTransaction(n, g) => UNCHANGED log
        BY DEF addTransaction
      <4>2. removeInput(n, g) \/ addOutput(n, g) => UNCHANGED log
        BY DEF removeInput, addOutput
      <4>3. storeBlock(n, g) \/ finishBlock(n, g) => UNCHANGED log
        BY DEF storeBlock, finishBlock
      <4> QED BY <4>1, <4>2, <4>3 DEF addBlockToBlockchain
    <3> QED
      BY <3>1, <3>2, <3>3, <3>4, <3>5, <3>6, <3>7, <3>8 DEF Next
  <2>2. Miner(o).block \in Block
    BY ThreadTypes DEF Goroutine, Miner
  <2>3. log'[o] = Append(log[o], Miner(o).block)
    BY <2>1 DEF mineBlock, TypeOK, Miner
  <2> QED BY <1>1, <2>1, <2>2, <2>3
<1> QED BY <1>2, <1>3

\* No goroutine has begun.
LEMMA InitPlaces == Init => Places
BY DEF Init, Places, MinerPlace, ListenerPlace, Idle, At, InBlock, Adding, Listener,
       Miner, Goroutine

\* A miner that does not move has broadcast nothing.
LEMMA MinerRests ==
  ASSUME TypeOK, [Next]_cvars, NEW n \in Node, Miner(n)' = Miner(n)
  PROVE  log'[n] = log[n]
<1>1. "miner" \in Goroutine
  BY DEF Goroutine
<1>2. ASSUME mineBlock(n) PROVE FALSE
  <2> DEFINE t == At("add", n, Miner(n).block, 1, 0)
  <2>1. Miner(n).pc = "mine" /\ Becomes(n, "miner", t)
    BY <1>2 DEF mineBlock, Miner, In
  <2>2. t.pc = "add"
    BY AtFields
  <2> HIDE DEF t
  <2>3. thread'[n]["miner"] = t
    BY <1>1, <2>1, OneMoves
  <2> QED BY <2>1, <2>2, <2>3 DEF Miner
<1> QED BY <1>2, LogGrows

\* The others keep their places when one goroutine moves.
LEMMA OthersKeepPlaces ==
  ASSUME TypeOK, Places, [Next]_cvars,
         NEW n \in Node, NEW g \in Goroutine, NEW t, Becomes(n, g, t),
         \A k, o \in Node : accepted'[k][o] <= Len(log'[o]),
         \A k \in Node : k # n \/ g = "miner" => accepted'[k] = accepted[k],
         g = "miner" => MinerPlace(n)',
         g = "listener" => ListenerPlace(n)'
  PROVE  Places'
<1>1. "listener" \in Goroutine /\ "miner" \in Goroutine /\ "miner" # "listener"
      /\ g \in {"listener", "miner"}
  BY DEF Goroutine
<1>2. ASSUME NEW k \in Node, k # n \/ g # "miner" PROVE MinerPlace(k)'
  <2>1. Miner(k)' = Miner(k)
    BY <1>1, <1>2, OneMoves DEF Miner
  <2>2. log'[k] = log[k]
    BY <2>1, MinerRests
  <2>3. MinerPlace(k)
    BY DEF Places
  <2> QED BY <2>1, <2>2, <2>3 DEF MinerPlace, InBlock, Adding
<1>3. ASSUME NEW k \in Node, k # n \/ g # "listener" PROVE ListenerPlace(k)'
  <2>1. Listener(k)' = Listener(k)
    BY <1>1, <1>3, OneMoves DEF Listener
  <2>2. accepted'[k] = accepted[k]
    BY <1>1, <1>3
  <2>3. ListenerPlace(k)
    BY DEF Places
  <2>4. InBlock(Listener(k))' /\ Listener(k)'.pc # "mine"
    BY <2>1, <2>3 DEF ListenerPlace, InBlock
  <2>5. ASSUME Listener(k).pc # "idle"
        PROVE  /\ Listener(k).from \in Node \ {k}
               /\ accepted[k][Listener(k).from] < Len(log'[Listener(k).from])
               /\ Listener(k).block
                    = log'[Listener(k).from][accepted[k][Listener(k).from] + 1]
    <3> DEFINE o == Listener(k).from
               a == accepted[k][o]
    <3>1. o \in Node \ {k} /\ a < Len(log[o]) /\ Listener(k).block = log[o][a + 1]
      BY <2>3, <2>5 DEF ListenerPlace
    <3>2. a \in Nat
      BY <3>1 DEF TypeOK
    <3>3. /\ Len(log[o]) \in Nat /\ Len(log'[o]) \in Nat
          /\ Len(log[o]) <= Len(log'[o])
          /\ \A j \in 1 .. Len(log[o]) : log'[o][j] = log[o][j]
      BY <3>1, LogGrows
    <3> HIDE DEF o, a
    <3>4. a + 1 \in 1 .. Len(log[o]) /\ a < Len(log'[o])
      BY <3>1, <3>2, <3>3
    <3>5. log'[o][a + 1] = log[o][a + 1]
      BY <3>3, <3>4
    <3> QED BY <3>1, <3>4, <3>5 DEF o, a
  <2> QED BY <2>1, <2>2, <2>4, <2>5 DEF ListenerPlace
<1> QED BY <1>1, <1>2, <1>3 DEF Places

\* Every step leaves the goroutines in place.
LEMMA StepPlaces == TypeOK /\ Places /\ [Next]_cvars => Places'
<1> SUFFICES ASSUME TypeOK, Places, [Next]_cvars PROVE Places'
  OBVIOUS
<1>lm. "listener" \in Goroutine /\ "miner" \in Goroutine /\ "miner" # "listener"
  BY DEF Goroutine
<1>log. /\ \A o \in Node : Len(log[o]) \in Nat /\ Len(log'[o]) \in Nat
                             /\ Len(log[o]) <= Len(log'[o])
        /\ \A k, o \in Node : accepted[k][o] \in Nat
        /\ \A k, o \in Node : accepted[k][o] <= Len(log[o])
  BY LogGrows DEF TypeOK, Places
<1>acc. UNCHANGED accepted =>
          /\ \A k, o \in Node : accepted'[k][o] <= Len(log'[o])
          /\ \A k \in Node : accepted'[k] = accepted[k]
  BY <1>log
<1>1. CASE UNCHANGED <<log, accepted, thread>>
  BY <1>1 DEF Places, MinerPlace, ListenerPlace, InBlock, Listener, Miner, Adding
<1>2. ASSUME NEW n \in Node, NEW o \in Node, handleBlockMessage(n, o)
      PROVE  Places'
  <2> DEFINE b == log[o][accepted[n][o] + 1]
             t == At("validate", o, b, 1, 0)
  <2>1. /\ Becomes(n, "listener", t) /\ n # o /\ UNCHANGED <<log, accepted>>
        /\ accepted[n][o] < Len(log[o])
    BY <1>2 DEF handleBlockMessage
  <2>2. t.pc = "validate" /\ t.from = o /\ t.block = b /\ t.i = 1
    BY AtFields
  <2>3. b \in Block
    BY <2>1 DEF TypeOK
  <2>4. Len(b.txs) \in Nat
    BY <2>3, LenProperties DEF Block
  <2> HIDE DEF t, b
  <2>5. Listener(n)' = t
    BY <1>lm, <2>1, OneMoves DEF Listener
  <2>6. InBlock(t)
    BY <2>2, <2>4 DEF InBlock
  <2>7. ListenerPlace(n)'
    BY <2>1, <2>2, <2>5, <2>6 DEF ListenerPlace, b, InBlock
  <2> QED BY <1>lm, <1>acc, <2>1, <2>7, OthersKeepPlaces
<1>3. ASSUME NEW n \in Node, NEW g \in Goroutine, NEW t, Becomes(n, g, t),
             t.pc = "idle", t.i \in Nat, UNCHANGED <<log, accepted>>
      PROVE  Places'
  <2>1. g = "listener" => Listener(n)' = t
    BY <1>3, <1>lm, OneMoves DEF Listener
  <2>2. g = "miner" => Miner(n)' = t
    BY <1>3, <1>lm, OneMoves DEF Miner
  <2>3. g = "listener" => ListenerPlace(n)'
    BY <1>3, <2>1 DEF ListenerPlace, InBlock
  <2>4. g = "miner" => MinerPlace(n)'
    BY <1>3, <2>2 DEF MinerPlace, InBlock, Adding
  <2> QED BY <1>3, <1>acc, <2>3, <2>4, OthersKeepPlaces
\* A goroutine goes on with its block.
<1>4. ASSUME NEW n \in Node, NEW g \in Goroutine, NEW t, Becomes(n, g, t),
             t.from = thread[n][g].from, t.block = thread[n][g].block,
             thread[n][g].pc # "idle", UNCHANGED <<log, accepted>>,
             g = "listener" => t.pc # "mine",
             g = "miner" => Adding(thread[n][g]) /\ t.pc # "validate",
             InBlock(t)
      PROVE  Places'
  <2>1. g = "listener" => Listener(n)' = t
    BY <1>4, <1>lm, OneMoves DEF Listener
  <2>2. g = "miner" => Miner(n)' = t
    BY <1>4, <1>lm, OneMoves DEF Miner
  <2>3. ASSUME g = "listener" PROVE ListenerPlace(n)'
    <3>1. ListenerPlace(n) /\ Listener(n) = thread[n][g]
      BY <2>3 DEF Places, Listener
    <3> QED BY <1>4, <2>1, <2>3, <3>1 DEF ListenerPlace, InBlock
  <2>4. ASSUME g = "miner" PROVE MinerPlace(n)'
    <3>1. MinerPlace(n) /\ Miner(n) = thread[n][g]
      BY <2>4 DEF Places, Miner
    <3> QED BY <1>4, <2>2, <2>4, <3>1 DEF MinerPlace, InBlock
  <2> QED BY <1>4, <1>acc, <2>3, <2>4, OthersKeepPlaces
<1>in. \A n \in Node : \A g \in Goroutine : InBlock(thread[n][g])
  BY DEF Goroutine, Places, MinerPlace, ListenerPlace, Miner, Listener
<1>role. \A n \in Node : thread[n]["listener"].pc # "mine"
                          /\ thread[n]["miner"].pc # "validate"
  BY DEF Places, MinerPlace, ListenerPlace, Miner, Listener
<1>5. ASSUME NEW n \in Node, validateBlock(n) PROVE Places'
  <2> DEFINE t == thread[n]["listener"]
  <2>1. /\ t.pc = "validate" /\ UNCHANGED <<log, accepted>> /\ InBlock(t)
        /\ t.i \in Nat /\ Len(t.block.txs) \in Nat
        /\ DOMAIN t.block.txs = 1 .. Len(t.block.txs)
    BY <1>5, <1>in, <1>lm, ThreadTypes DEF validateBlock, In
  <2>2. CASE /\ t.i \in DOMAIN t.block.txs
             /\ Becomes(n, "listener", At("validate", t.from, t.block, t.i + 1, 0))
    <3> DEFINE u == At("validate", t.from, t.block, t.i + 1, 0)
    <3>1. u.pc = "validate" /\ u.from = t.from /\ u.block = t.block /\ u.i = t.i + 1
      BY AtFields
    <3>2. Becomes(n, "listener", u)
      BY <2>2
    <3> HIDE DEF u
    <3>3. InBlock(u)
      <4> HIDE DEF t
      <4>1. t.i + 1 \in 1 .. Len(t.block.txs) + 1
        BY <2>1, <2>2
      <4> QED BY <3>1, <4>1 DEF InBlock
    <3> QED BY <1>lm, <2>1, <3>1, <3>2, <3>3, <1>4 DEF Adding
  <2>3. CASE Becomes(n, "listener", Idle(n))
    <3>1. Idle(n).pc = "idle" /\ Idle(n).i \in Nat
      BY DEF Idle, At
    <3> QED BY <1>lm, <2>1, <2>3, <3>1, <1>3
  <2>4. CASE Becomes(n, "listener", At("add", t.from, t.block, 1, 0))
    <3> DEFINE u == At("add", t.from, t.block, 1, 0)
    <3>1. u.pc = "add" /\ u.from = t.from /\ u.block = t.block /\ u.i = 1
      BY AtFields
    <3>2. Becomes(n, "listener", u)
      BY <2>4
    <3> HIDE DEF u
    <3>3. InBlock(u)
      <4> HIDE DEF t
      <4>1. 1 \in 1 .. Len(t.block.txs) + 1
        BY <2>1
      <4> QED BY <3>1, <4>1 DEF InBlock
    <3> QED BY <1>lm, <2>1, <3>1, <3>2, <3>3, <1>4 DEF Adding
  <2>5. \/ /\ t.i \in DOMAIN t.block.txs
           /\ Becomes(n, "listener", At("validate", t.from, t.block, t.i + 1, 0))
        \/ Becomes(n, "listener", Idle(n))
        \/ Becomes(n, "listener", At("add", t.from, t.block, 1, 0))
    BY <1>5 DEF validateBlock
  <2> QED BY <2>2, <2>3, <2>4, <2>5
<1>6. ASSUME NEW n \in Node, createCandidateBlock(n) PROVE Places'
  <2>1. PICK txs \in getTxsFromMempool(mempool[n]) :
          Becomes(n, "miner",
            At("mine", n, [prev |-> lastHash[n], nonce |-> currentHeight[n] + 1,
                           txs |-> txs], 1, 0))
    BY <1>6 DEF createCandidateBlock
  <2>2. txs \in Seq(AllTx)
    BY CandidateType DEF TypeOK
  <2> DEFINE b == [prev |-> lastHash[n], nonce |-> currentHeight[n] + 1, txs |-> txs]
             t == At("mine", n, b, 1, 0)
  <2>3. t.pc = "mine" /\ t.block = b /\ t.i = 1 /\ b.txs = txs
    BY AtFields
  <2>4. Becomes(n, "miner", t) /\ UNCHANGED <<log, accepted>> /\ Len(txs) \in Nat
    BY <1>6, <2>1, <2>2, LenProperties DEF createCandidateBlock
  <2> HIDE DEF t, b
  <2>5. Miner(n)' = t
    BY <1>lm, <2>4, OneMoves DEF Miner
  <2>6. InBlock(t)
    BY <2>3, <2>4 DEF InBlock
  <2>7. MinerPlace(n)'
    BY <2>3, <2>5, <2>6 DEF MinerPlace, Adding, InBlock
  <2> QED BY <1>lm, <1>acc, <2>4, <2>7, OthersKeepPlaces
<1>7. ASSUME NEW n \in Node, stopMining(n) PROVE Places'
  <2>1. Idle(n).pc = "idle" /\ Idle(n).i \in Nat
    BY DEF Idle, At
  <2>2. Becomes(n, "miner", Idle(n)) /\ UNCHANGED <<log, accepted>>
    BY <1>7 DEF stopMining
  <2> QED BY <1>lm, <2>1, <2>2, <1>3
<1>8. ASSUME NEW n \in Node, mineBlock(n) PROVE Places'
  <2> DEFINE b == thread[n]["miner"].block
             t == At("add", n, b, 1, 0)
  <2>1. /\ log' = [log EXCEPT ![n] = Append(log[n], b)]
        /\ Becomes(n, "miner", t) /\ UNCHANGED accepted
    BY <1>8 DEF mineBlock
  <2>2. b \in Block /\ Len(b.txs) \in Nat
    BY <1>lm, ThreadTypes
  <2>3. t.pc = "add" /\ t.block = b /\ t.i = 1
    BY AtFields
  <2> HIDE DEF t, b
  <2>4. Miner(n)' = t
    BY <1>lm, <2>1, OneMoves DEF Miner
  <2>5. log[n] \in Seq(Block) /\ log'[n] = Append(log[n], b)
    BY <2>1 DEF TypeOK
  <2>6. log'[n] # <<>> /\ log'[n][Len(log'[n])] = b
    BY <2>2, <2>5
  <2>7. InBlock(t)
    BY <2>2, <2>3 DEF InBlock
  <2>8. MinerPlace(n)'
    BY <2>3, <2>4, <2>6, <2>7 DEF MinerPlace, Adding, InBlock
  <2> QED BY <1>lm, <1>acc, <2>1, <2>8, OthersKeepPlaces
<1>9. ASSUME NEW n \in Node, NEW g \in Goroutine, addTransaction(n, g)
      PROVE  Places'
  <2> DEFINE t == thread[n][g]
  <2>1. /\ t.pc = "add" /\ UNCHANGED <<log, accepted>> /\ InBlock(t)
        /\ t.i \in DOMAIN t.block.txs /\ t.i \in Nat /\ Len(t.block.txs) \in Nat
        /\ DOMAIN t.block.txs = 1 .. Len(t.block.txs)
    BY <1>9, <1>in, ThreadTypes DEF addTransaction, In
  <2>2. CASE Becomes(n, g, At("add", t.from, t.block, t.i + 1, 0))
    <3> DEFINE u == At("add", t.from, t.block, t.i + 1, 0)
    <3>1. u.pc = "add" /\ u.from = t.from /\ u.block = t.block /\ u.i = t.i + 1
      BY AtFields
    <3>2. Becomes(n, g, u)
      BY <2>2
    <3> HIDE DEF u
    <3>3. InBlock(u)
      <4> HIDE DEF t
      <4>1. t.i + 1 \in 1 .. Len(t.block.txs) + 1
        BY <2>1
      <4> QED BY <3>1, <4>1 DEF InBlock
    <3> QED BY <1>lm, <2>1, <3>1, <3>2, <3>3, <1>4 DEF Adding
  <2>3. CASE Becomes(n, g, Idle(n))
    <3>1. Idle(n).pc = "idle" /\ Idle(n).i \in Nat
      BY DEF Idle, At
    <3> QED BY <2>1, <2>3, <3>1, <1>3
  <2>4. CASE /\ t.block.txs[t.i].type # "NameNew"
             /\ Becomes(n, g, At("remove", t.from, t.block, t.i, 0))
    <3> DEFINE u == At("remove", t.from, t.block, t.i, 0)
    <3>1. u.pc = "remove" /\ u.from = t.from /\ u.block = t.block /\ u.i = t.i
      BY AtFields
    <3>2. Becomes(n, g, u)
      BY <2>4
    <3> HIDE DEF u
    <3>3. InBlock(u)
      <4> HIDE DEF t
      <4>1. t.i \in 1 .. Len(t.block.txs) + 1
        BY <2>1
      <4> QED BY <2>1, <2>4, <3>1, <4>1 DEF InBlock, Spends
    <3> QED BY <1>lm, <2>1, <3>1, <3>2, <3>3, <1>4 DEF Adding
  <2>5. \/ Becomes(n, g, At("add", t.from, t.block, t.i + 1, 0))
        \/ Becomes(n, g, Idle(n))
        \/ /\ t.block.txs[t.i].type # "NameNew"
           /\ Becomes(n, g, At("remove", t.from, t.block, t.i, 0))
    BY <1>9 DEF addTransaction
  <2> QED BY <2>2, <2>3, <2>4, <2>5
<1>10. ASSUME NEW n \in Node, NEW g \in Goroutine, removeInput(n, g)
       PROVE  Places'
  <2> DEFINE t == thread[n][g]
  <2>1. /\ t.pc = "remove" /\ UNCHANGED <<log, accepted>> /\ InBlock(t)
        /\ Becomes(n, g, At("put", t.from, t.block, t.i, 0))
    BY <1>10, <1>in DEF removeInput, In
  <2> DEFINE u == At("put", t.from, t.block, t.i, 0)
  <2>2. u.pc = "put" /\ u.from = t.from /\ u.block = t.block /\ u.i = t.i
    BY AtFields
  <2>3. Becomes(n, g, u)
    BY <2>1
  <2> HIDE DEF u
  <2>4. InBlock(u)
    BY <2>1, <2>2 DEF InBlock
  <2> QED BY <1>lm, <2>1, <2>2, <2>3, <2>4, <1>4 DEF Adding
<1>11. ASSUME NEW n \in Node, NEW g \in Goroutine, addOutput(n, g)
       PROVE  Places'
  <2> DEFINE t == thread[n][g]
  <2>1. /\ t.pc = "put" /\ UNCHANGED <<log, accepted>>
        /\ t.i \in DOMAIN t.block.txs /\ t.i \in Nat /\ Len(t.block.txs) \in Nat
        /\ DOMAIN t.block.txs = 1 .. Len(t.block.txs)
        /\ Becomes(n, g, At("add", t.from, t.block, t.i + 1, 0))
    BY <1>11, ThreadTypes DEF addOutput, In
  <2> DEFINE u == At("add", t.from, t.block, t.i + 1, 0)
  <2>2. u.pc = "add" /\ u.from = t.from /\ u.block = t.block /\ u.i = t.i + 1
    BY AtFields
  <2>3. Becomes(n, g, u)
    BY <2>1
  <2> HIDE DEF u
  <2>4. InBlock(u)
    <3> HIDE DEF t
    <3>1. t.i + 1 \in 1 .. Len(t.block.txs) + 1
      BY <2>1
    <3> QED BY <2>2, <3>1 DEF InBlock
  <2> QED BY <1>lm, <2>1, <2>2, <2>3, <2>4, <1>4 DEF Adding
<1>12. ASSUME NEW n \in Node, NEW g \in Goroutine, storeBlock(n, g)
       PROVE  Places'
  <2> DEFINE t == thread[n][g]
  <2>1. /\ t.pc = "add" /\ UNCHANGED <<log, accepted>> /\ InBlock(t)
        /\ t.i \notin DOMAIN t.block.txs /\ t.i \in Nat /\ Len(t.block.txs) \in Nat
        /\ DOMAIN t.block.txs = 1 .. Len(t.block.txs)
        /\ Becomes(n, g, At("count", t.from, t.block, t.i, currentHeight[n]))
    BY <1>12, <1>in, ThreadTypes DEF storeBlock, In
  <2> DEFINE u == At("count", t.from, t.block, t.i, currentHeight[n])
  <2>2. u.pc = "count" /\ u.from = t.from /\ u.block = t.block /\ u.i = t.i
    BY AtFields
  <2>3. Becomes(n, g, u)
    BY <2>1
  <2> HIDE DEF u
  <2>4. InBlock(u)
    <3> HIDE DEF t
    <3>1. t.i = Len(t.block.txs) + 1
      BY <2>1 DEF InBlock
    <3> QED BY <2>1, <2>2, <3>1 DEF InBlock
  <2> QED BY <1>lm, <2>1, <2>2, <2>3, <2>4, <1>4 DEF Adding
<1>13. ASSUME NEW n \in Node, NEW g \in Goroutine, finishBlock(n, g)
       PROVE  Places'
  <2> DEFINE t == thread[n][g]
  <2>1. /\ t.pc = "count" /\ UNCHANGED log /\ Becomes(n, g, Idle(n))
        /\ accepted' = IF g = "listener"
                       THEN [accepted EXCEPT ![n][t.from] = accepted[n][t.from] + 1]
                       ELSE accepted
    BY <1>13 DEF finishBlock, In
  <2>2. Idle(n).pc = "idle" /\ Idle(n).i \in Nat
    BY DEF Idle, At
  <2>3. CASE g = "miner"
    BY <1>lm, <2>1, <2>2, <2>3, <1>3
  <2>4. CASE g = "listener"
    <3>1. t.from \in Node /\ accepted[n][t.from] < Len(log[t.from])
      BY <2>1, <2>4 DEF Places, ListenerPlace, Listener
    <3> HIDE DEF t
    <3>2. \A k, o \in Node : accepted'[k][o] =
            IF k = n /\ o = t.from THEN accepted[k][o] + 1 ELSE accepted[k][o]
      BY <2>1, <2>4, <3>1 DEF TypeOK
    <3>3. \A k, o \in Node : accepted'[k][o] <= Len(log'[o])
      BY <1>log, <2>1, <3>1, <3>2
    <3>4. \A k \in Node : k # n => accepted'[k] = accepted[k]
      BY <2>1, <2>4 DEF TypeOK
    <3>5. Listener(n)' = Idle(n)
      BY <1>lm, <2>1, <2>4, OneMoves DEF Listener
    <3>6. ListenerPlace(n)'
      BY <2>2, <3>5 DEF ListenerPlace, InBlock
    <3> QED BY <1>lm, <2>1, <2>4, <3>3, <3>4, <3>6, OthersKeepPlaces
  <2> QED BY <2>3, <2>4 DEF Goroutine
<1>14. ASSUME NEW n \in Node, NEW tx \in Sent[n], handleTransactionMessage(n, tx)
       PROVE  Places'
  BY <1>1, <1>14 DEF handleTransactionMessage
<1>15. CASE Tick \/ UNCHANGED cvars
  BY <1>1, <1>15 DEF Tick, cvars
<1> QED
  BY <1>2, <1>5, <1>6, <1>7, <1>8, <1>9, <1>10, <1>11, <1>12, <1>13, <1>14, <1>15
  DEF Next, addBlockToBlockchain

\* Goroutines work on the blocks of the logs, a listener on the first one of an
\* origin that it has not accepted, a miner on the last one it has broadcast.
LEMMA PlacesHold == Spec => []Places
BY InitPlaces, StepPlaces, TypeCorrect, PTL DEF Spec

\* A step of a goroutine of n, or of a client that sends to n.
StepOf(n) ==
  \/ \E tx \in Sent[n] : handleTransactionMessage(n, tx)
  \/ \E o \in Node : handleBlockMessage(n, o)
  \/ validateBlock(n)
  \/ createCandidateBlock(n) \/ stopMining(n) \/ mineBlock(n)
  \/ \E g \in Goroutine : addBlockToBlockchain(n, g)

\* The step leaves the other nodes alone.
Elsewhere(n) ==
  \A k \in Node \ {n} :
    /\ UTXOSet'[k] = UTXOSet[k] /\ mempool'[k] = mempool[k]
    /\ blocks'[k] = blocks[k] /\ lastHash'[k] = lastHash[k]
    /\ currentHeight'[k] = currentHeight[k] /\ accepted'[k] = accepted[k]
    /\ thread'[k] = thread[k] /\ log'[k] = log[k]

\* No goroutine writes the state of another node.
LEMMA StepsElsewhere ==
  ASSUME TypeOK, NEW n \in Node, StepOf(n)
  PROVE  Elsewhere(n)
<1>m. \A g, t : Becomes(n, g, t) => \A k \in Node \ {n} : thread'[k] = thread[k]
  BY DEF Becomes, TypeOK
<1>1. ASSUME NEW tx \in Sent[n], handleTransactionMessage(n, tx) PROVE Elsewhere(n)
  BY <1>1 DEF handleTransactionMessage, Elsewhere, TypeOK
<1>2. ASSUME NEW o \in Node, handleBlockMessage(n, o) PROVE Elsewhere(n)
  BY <1>2, <1>m DEF handleBlockMessage, Elsewhere
<1>3. ASSUME validateBlock(n) PROVE Elsewhere(n)
  BY <1>3, <1>m DEF validateBlock, Elsewhere
<1>4. ASSUME createCandidateBlock(n) PROVE Elsewhere(n)
  BY <1>4, <1>m DEF createCandidateBlock, Elsewhere
<1>5. ASSUME stopMining(n) PROVE Elsewhere(n)
  BY <1>5, <1>m DEF stopMining, Elsewhere
<1>6. ASSUME mineBlock(n) PROVE Elsewhere(n)
  BY <1>6, <1>m DEF mineBlock, Elsewhere, TypeOK
<1>7. ASSUME NEW g \in Goroutine, addTransaction(n, g) PROVE Elsewhere(n)
  <2>1. \A k \in Node \ {n} : UTXOSet'[k] = UTXOSet[k]
    BY <1>7 DEF addTransaction, TypeOK
  <2>2. \A k \in Node \ {n} : thread'[k] = thread[k]
    BY <1>7, <1>m DEF addTransaction
  <2> QED BY <1>7, <2>1, <2>2 DEF addTransaction, Elsewhere
<1>8. ASSUME NEW g \in Goroutine, removeInput(n, g) PROVE Elsewhere(n)
  <2>1. \A k \in Node \ {n} : UTXOSet'[k] = UTXOSet[k]
    BY <1>8 DEF removeInput, TypeOK
  <2> QED BY <1>8, <1>m, <2>1 DEF removeInput, Elsewhere
<1>9. ASSUME NEW g \in Goroutine, addOutput(n, g) PROVE Elsewhere(n)
  <2>1. \A k \in Node \ {n} : UTXOSet'[k] = UTXOSet[k]
    BY <1>9 DEF addOutput, TypeOK
  <2> QED BY <1>9, <1>m, <2>1 DEF addOutput, Elsewhere
<1>10. ASSUME NEW g \in Goroutine, storeBlock(n, g) PROVE Elsewhere(n)
  <2>1. \A k \in Node \ {n} : blocks'[k] = blocks[k] /\ lastHash'[k] = lastHash[k]
    BY <1>10 DEF storeBlock, TypeOK
  <2> QED BY <1>10, <1>m, <2>1 DEF storeBlock, Elsewhere
<1>11. ASSUME NEW g \in Goroutine, finishBlock(n, g) PROVE Elsewhere(n)
  <2>1. \A k \in Node \ {n} : /\ currentHeight'[k] = currentHeight[k]
                              /\ mempool'[k] = mempool[k]
    BY <1>11 DEF finishBlock, TypeOK
  <2>2. \A k \in Node \ {n} : accepted'[k] = accepted[k]
    BY <1>11 DEF finishBlock, TypeOK
  <2> QED BY <1>11, <1>m, <2>1, <2>2 DEF finishBlock, Elsewhere
<1> QED
  BY <1>1, <1>2, <1>3, <1>4, <1>5, <1>6, <1>7, <1>8, <1>9, <1>10, <1>11
  DEF StepOf, addBlockToBlockchain

\* A step is one of a node, or changes nothing but the clock.
LEMMA StepCases ==
  ASSUME [Next]_cvars
  PROVE  \/ \E n \in Node : StepOf(n)
         \/ UNCHANGED <<UTXOSet, mempool, blocks, lastHash, currentHeight, log,
                       accepted, thread>>
<1>1. CASE Tick \/ UNCHANGED cvars
  BY <1>1 DEF Tick, cvars
<1> QED BY <1>1 DEF Next, StepOf

\* A nonempty set of natural numbers has a least element.
LEMMA LeastNumber ==
  ASSUME NEW T \in SUBSET Nat, T # {}
  PROVE  \E x \in T : \A y \in T : x <= y
<1> DEFINE R == OpToRel(<, Nat)
<1>1. IsWellFoundedOn(R, Nat)
  BY NatLessThanWellFounded
<1>2. PICK x \in T : \A y \in T : <<y, x>> \notin R
  <2> HIDE DEF R
  <2> QED BY <1>1, WFMin
<1>3. ASSUME NEW y \in T PROVE x <= y
  <2>1. ~ (y < x)
    BY <1>2 DEF OpToRel
  <2> QED BY <2>1
<1> QED BY <1>3

-----------------------------------------------------------------------------
(* One miner: what the blocks of a log do to the entries. *)

\* addBlockToBlockchain can apply tx to the entries s, and what it makes of them.
Applies(s, tx) == Spends(tx) => findUTXO(s, tx.input) # {}
AfterTx(s, tx) ==
  addUTXO(IF Spends(tx) THEN removeUTXO(s, tx.input.domain) ELSE s, tx.output)

\* f[i] are the entries before transaction i of a block.
Folds(f, txs) == \A i \in DOMAIN txs : f[i + 1] = AfterTx(f[i], txs[i])

\* The entries before every transaction exist: a least number without them
\* would be one more than a number that has them.
LEMMA FoldExists ==
  ASSUME NEW s, NEW txs \in Seq(AllTx)
  PROVE  \E f : f[1] = s /\ Folds(f, txs)
<1> DEFINE Upto(n, f) ==
             f[1] = s /\ \A i \in 1 .. n : f[i + 1] = AfterTx(f[i], txs[i])
           T == {n \in Nat : ~ \E f : Upto(n, f)}
<1>1. Len(txs) \in Nat /\ DOMAIN txs = 1 .. Len(txs)
  BY LenProperties
<1>2. SUFFICES T = {}
  BY <1>1 DEF Folds
<1>3. SUFFICES ASSUME T # {} PROVE FALSE
  OBVIOUS
<1>4. PICK n \in T : \A k \in T : n <= k
  <2>1. T \in SUBSET Nat
    OBVIOUS
  <2> HIDE DEF T
  <2> QED BY <1>3, <2>1, LeastNumber
<1>5. CASE n = 0
  <2> DEFINE f == [i \in {1} |-> s]
  <2>1. Upto(0, f)
    OBVIOUS
  <2> QED BY <1>4, <1>5, <2>1
<1>6. CASE n # 0
  <2>1. n \in Nat /\ n - 1 \in Nat /\ n - 1 < n
    BY <1>4, <1>6
  <2>2. n - 1 \notin T
    <3>1. ~ (n <= n - 1)
      BY <2>1
    <3> HIDE DEF T
    <3> QED BY <1>4, <3>1
  <2>3. PICK f : Upto(n - 1, f)
    BY <2>1, <2>2
  <2> DEFINE g == [i \in 1 .. n + 1 |->
                     IF i = n + 1 THEN AfterTx(f[n], txs[n]) ELSE f[i]]
  <2>4. g[1] = s /\ g[n + 1] = AfterTx(f[n], txs[n])
    BY <1>6, <2>1, <2>3
  <2>5. \A i \in 1 .. n : g[i] = f[i]
    BY <2>1
  <2> HIDE DEF g
  <2>6. ASSUME NEW i \in 1 .. n PROVE g[i + 1] = AfterTx(g[i], txs[i])
    <3>1. CASE i = n
      BY <2>4, <2>5, <3>1
    <3>2. CASE i # n
      <4>1. i \in 1 .. n - 1 /\ i + 1 \in 1 .. n
        BY <2>1, <3>2
      <4> QED BY <2>3, <2>5, <4>1
    <3> QED BY <3>1, <3>2
  <2>7. Upto(n, g)
    BY <2>4, <2>6
  <2> QED BY <1>4, <2>7
<1> QED BY <1>5, <1>6

\* A goroutine has applied the transactions before its index.
Working(f, u, t) ==
  LET txs == t.block.txs
  IN  /\ \A j \in 1 .. t.i - 1 : Applies(f[j], txs[j])
      /\ u = IF t.pc = "put" THEN removeUTXO(f[t.i], txs[t.i].input.domain)
             ELSE f[t.i]
      /\ t.pc \in {"remove", "put"} => Applies(f[t.i], txs[t.i])

\* Block k of the log can be added to the entries it was mined on; the entries
\* and the hash that are then the last.
Good(l, S, k) == k = 0 \/ \A i \in DOMAIN l[k].txs : Applies(S[k][i], l[k].txs[i])
Base(l, S, k) == IF k = 0 THEN {} ELSE S[k][Len(l[k].txs) + 1]
Top(l, k) == IF k = 0 THEN HashOf(Genesis) ELSE HashOf(l[k])

\* S[k] are the entries of the miner of log l before the transactions of block k.
\* A block that follows a good one is mined on its hash and entries.
Trace(l, S) ==
  /\ \A k \in 1 .. Len(l) : Folds(S[k], l[k].txs)
  /\ \A k \in 0 .. Len(l) - 1 :
       Good(l, S, k) => S[k + 1][1] = Base(l, S, k) /\ l[k + 1].prev = Top(l, k)

\* The miner, in state t with the entries u and the last hash h.
MinerOK(l, S, t, u, h) ==
  /\ Adding(t) => Working(S[Len(l)], u, t)
  /\ ~Adding(t) /\ Good(l, S, Len(l)) =>
       u = Base(l, S, Len(l)) /\ h = Top(l, Len(l))
  /\ t.pc \in {"mine", "add", "remove", "put"} => t.block.prev = h
  /\ t.pc = "count" => h = HashOf(t.block)

\* A follower has accepted good blocks only.  Its entries are those of the miner
\* after these blocks, or it has failed to add the next one and cannot validate it.
FollowerOK(l, S, a, t, u, h) ==
  /\ \A k \in 1 .. a : Good(l, S, k)
  /\ h = IF t.pc = "count" THEN HashOf(t.block) ELSE Top(l, a)
  /\ Adding(t) => Working(S[a + 1], u, t)
  /\ ~Adding(t) =>
       \/ u = Base(l, S, a)
       \/ /\ a < Len(l)
          /\ \E i \in DOMAIN l[a + 1].txs : ~Applies(u, l[a + 1].txs[i])
  /\ t.pc = "validate" => \A j \in 1 .. t.i - 1 : Applies(u, t.block.txs[j])

\* A block is mined: the trace goes on with the entries of the miner.
LEMMA TraceGrows ==
  ASSUME NEW l \in Seq(Block), NEW S, NEW t, NEW u, NEW h, NEW v,
         Trace(l, S), MinerOK(l, S, t, u, h), t.pc = "mine", t.block \in Block,
         v.pc = "add", v.block = t.block, v.i = 1
  PROVE  LET l2 == Append(l, t.block)
         IN  \E R : /\ Trace(l2, R)
                    /\ MinerOK(l2, R, v, u, h)
                    /\ \A k \in 1 .. Len(l) : R[k] = S[k] /\ l2[k] = l[k]
<1> DEFINE K == Len(l)
           l2 == Append(l, t.block)
<1>1. K \in Nat /\ l2 \in Seq(Block) /\ Len(l2) = K + 1 /\ l2[K + 1] = t.block
      /\ \A k \in 1 .. K : l2[k] = l[k]
  OBVIOUS
<1>2. t.block.txs \in Seq(AllTx)
  BY DEF Block
<1>3. PICK f : f[1] = u /\ Folds(f, t.block.txs)
  BY <1>2, FoldExists
<1> DEFINE R == [k \in 1 .. K + 1 |-> IF k = K + 1 THEN f ELSE S[k]]
<1>4. R[K + 1] = f /\ \A k \in 1 .. K : R[k] = S[k]
  BY <1>1
<1> HIDE DEF R, l2, K
<1>5. \A k \in 0 .. K : /\ Good(l2, R, k) = Good(l, S, k)
                        /\ Base(l2, R, k) = Base(l, S, k) /\ Top(l2, k) = Top(l, k)
  <2> TAKE k \in 0 .. K
  <2>1. CASE k = 0
    BY <2>1 DEF Good, Base, Top
  <2>2. CASE k # 0
    <3>1. k \in 1 .. K
      BY <1>1, <2>2
    <3>2. R[k] = S[k] /\ l2[k] = l[k]
      BY <1>1, <1>4, <3>1
    <3> QED BY <2>2, <3>2 DEF Good, Base, Top
  <2> QED BY <2>1, <2>2
<1>6. ~Adding(t) /\ t.block.prev = h
  BY DEF Adding, MinerOK
<1>7. Good(l, S, K) => u = Base(l, S, K) /\ h = Top(l, K)
  BY <1>6 DEF MinerOK, K
<1>8. Trace(l2, R)
  <2>1. ASSUME NEW k \in 1 .. Len(l2) PROVE Folds(R[k], l2[k].txs)
    <3>1. CASE k = K + 1
      BY <1>1, <1>3, <1>4, <3>1
    <3>2. CASE k # K + 1
      <4>1. k \in 1 .. K
        BY <1>1, <2>1, <3>2
      <4> QED BY <1>1, <1>4, <4>1 DEF Trace, K
    <3> QED BY <3>1, <3>2
  <2>2. ASSUME NEW k \in 0 .. Len(l2) - 1, Good(l2, R, k)
        PROVE  R[k + 1][1] = Base(l2, R, k) /\ l2[k + 1].prev = Top(l2, k)
    <3>1. k \in 0 .. K
      BY <1>1, <2>2
    <3>2. Good(l, S, k)
      BY <1>5, <2>2, <3>1
    <3>3. CASE k = K
      BY <1>1, <1>3, <1>4, <1>5, <1>6, <1>7, <3>1, <3>2, <3>3
    <3>4. CASE k # K
      <4>1. k \in 0 .. K - 1 /\ k + 1 \in 1 .. K
        BY <1>1, <3>1, <3>4
      <4>2. S[k + 1][1] = Base(l, S, k) /\ l[k + 1].prev = Top(l, k)
        BY <3>2, <4>1 DEF Trace, K
      <4> QED BY <1>1, <1>4, <1>5, <3>1, <4>1, <4>2
    <3> QED BY <3>3, <3>4
  <2> QED BY <2>1, <2>2 DEF Trace
<1>9. MinerOK(l2, R, v, u, h)
  <2>1. Adding(v) /\ v.pc # "put" /\ v.pc \notin {"remove", "put"}
        /\ v.pc # "count"
    BY DEF Adding
  <2>2. Working(R[Len(l2)], u, v)
    BY <1>1, <1>3, <1>4, <2>1 DEF Working
  <2> QED BY <1>6, <2>1, <2>2 DEF MinerOK
<1> QED BY <1>1, <1>4, <1>8, <1>9 DEF l2, K

\* The follower is not disturbed by it.
LEMMA FollowerKept ==
  ASSUME NEW l \in Seq(Block), NEW S, NEW l2 \in Seq(Block), NEW R,
         Len(l) <= Len(l2), \A k \in 1 .. Len(l) : R[k] = S[k] /\ l2[k] = l[k],
         NEW a \in 0 .. Len(l), NEW t, NEW u, NEW h,
         FollowerOK(l, S, a, t, u, h), Adding(t) => a < Len(l)
  PROVE  FollowerOK(l2, R, a, t, u, h)
<1>1. Len(l) \in Nat /\ Len(l2) \in Nat /\ a \in Nat /\ a <= Len(l)
  BY LenProperties
<1>2. \A k \in 1 .. a : Good(l2, R, k)
  <2> TAKE k \in 1 .. a
  <2>1. k \in 1 .. Len(l)
    BY <1>1
  <2> QED BY <2>1 DEF FollowerOK, Good
<1>3. Top(l2, a) = Top(l, a) /\ Base(l2, R, a) = Base(l, S, a)
  <2>1. a = 0 \/ a \in 1 .. Len(l)
    BY <1>1
  <2> QED BY <2>1 DEF Top, Base
<1>4. a < Len(l) => a < Len(l2) /\ R[a + 1] = S[a + 1] /\ l2[a + 1] = l[a + 1]
  <2> SUFFICES ASSUME a < Len(l)
               PROVE  a < Len(l2) /\ R[a + 1] = S[a + 1] /\ l2[a + 1] = l[a + 1]
    OBVIOUS
  <2>1. a + 1 \in 1 .. Len(l)
    BY <1>1
  <2> QED BY <1>1, <2>1
<1> QED BY <1>2, <1>3, <1>4 DEF FollowerOK

-----------------------------------------------------------------------------
(* One step of addBlockToBlockchain. *)

\* A goroutine that works goes on working, or fails on a transaction that does not
\* apply, and leaves the entries as they are.
LEMMA WorkGoesOn ==
  ASSUME TypeOK, Places, NEW n \in Node, NEW g \in Goroutine, NEW f,
         Folds(f, thread[n][g].block.txs), Working(f, UTXOSet[n], thread[n][g]),
         addTransaction(n, g) \/ removeInput(n, g) \/ addOutput(n, g)
  PROVE  LET t == thread[n][g]
             v == thread'[n][g]
         IN  \/ /\ v.pc \in {"add", "remove", "put"}
                /\ v.from = t.from /\ v.block = t.block
                /\ Working(f, UTXOSet'[n], v)
             \/ /\ v.pc = "idle" /\ UTXOSet'[n] = UTXOSet[n]
                /\ \E i \in DOMAIN t.block.txs :
                     ~Applies(f[i], t.block.txs[i]) /\ f[i] = UTXOSet[n]
<1> DEFINE t == thread[n][g]
           v == thread'[n][g]
           txs == t.block.txs
           tx == txs[t.i]
<1>1. t.i \in DOMAIN txs /\ t.pc \in {"add", "remove", "put"}
  BY DEF addTransaction, removeInput, addOutput, In
<1>2. t.i \in Nat /\ DOMAIN txs = 1 .. Len(txs) /\ Len(txs) \in Nat
  BY ThreadTypes
<1>3. f[t.i + 1] = AfterTx(f[t.i], tx)
  BY <1>1 DEF Folds
<1>4. \A j \in 1 .. t.i - 1 : Applies(f[j], txs[j])
  BY DEF Working
<1>5. CASE addTransaction(n, g)
  <2>1. t.pc = "add" /\ UTXOSet[n] = f[t.i]
    BY <1>5 DEF addTransaction, In, Working
  <2>2. CASE tx.type = "NameNew"
    <3> DEFINE w == At("add", t.from, t.block, t.i + 1, 0)
    <3>1. w.pc = "add" /\ w.from = t.from /\ w.block = t.block /\ w.i = t.i + 1
      BY AtFields
    <3>2. /\ Becomes(n, g, w)
          /\ UTXOSet' = [UTXOSet EXCEPT ![n] = addUTXO(UTXOSet[n], tx.output)]
      BY <1>5, <2>2 DEF addTransaction
    <3> HIDE DEF w
    <3>3. v = w
      BY <3>2, OneMoves
    <3>4. UTXOSet'[n] = addUTXO(UTXOSet[n], tx.output)
      BY <3>2 DEF TypeOK
    <3>5. UTXOSet'[n] = f[t.i + 1] /\ Applies(f[t.i], tx)
      BY <1>3, <2>1, <2>2, <3>4 DEF AfterTx, Applies, Spends
    <3>6. \A j \in 1 .. w.i - 1 : Applies(f[j], txs[j])
      <4> HIDE DEF t
      <4>1. \A j \in 1 .. w.i - 1 : j \in 1 .. t.i - 1 \/ j = t.i
        BY <1>2, <3>1
      <4> QED BY <1>4, <3>5, <4>1
    <3>7. Working(f, UTXOSet'[n], w)
      BY <3>1, <3>5, <3>6 DEF Working
    <3> QED BY <3>1, <3>3, <3>7
  <2>3. CASE tx.type # "NameNew" /\ findUTXO(UTXOSet[n], tx.input) # {}
    <3> DEFINE w == At("remove", t.from, t.block, t.i, 0)
    <3>1. w.pc = "remove" /\ w.from = t.from /\ w.block = t.block /\ w.i = t.i
      BY AtFields
    <3>2. Becomes(n, g, w) /\ UNCHANGED UTXOSet
      BY <1>5, <2>3 DEF addTransaction
    <3> HIDE DEF w
    <3>3. v = w
      BY <3>2, OneMoves
    <3>4. Applies(f[t.i], tx)
      BY <2>1, <2>3 DEF Applies
    <3>5. Working(f, UTXOSet'[n], w)
      BY <1>4, <2>1, <3>1, <3>2, <3>4 DEF Working
    <3> QED BY <3>1, <3>3, <3>5
  <2>4. CASE tx.type # "NameNew" /\ findUTXO(UTXOSet[n], tx.input) = {}
    <3>1. Becomes(n, g, Idle(n)) /\ UNCHANGED UTXOSet
      BY <1>5, <2>4 DEF addTransaction
    <3>2. v.pc = "idle"
      BY <3>1, OneMoves DEF Idle, At
    <3>3. ~Applies(f[t.i], tx)
      BY <2>1, <2>4 DEF Applies, Spends
    <3> QED BY <1>1, <2>1, <3>1, <3>2, <3>3
  <2> QED BY <2>2, <2>3, <2>4
<1>6. CASE removeInput(n, g)
  <2> DEFINE w == At("put", t.from, t.block, t.i, 0)
  <2>1. w.pc = "put" /\ w.from = t.from /\ w.block = t.block /\ w.i = t.i
    BY AtFields
  <2>2. /\ Becomes(n, g, w) /\ t.pc = "remove"
        /\ UTXOSet' = [UTXOSet EXCEPT ![n] = removeUTXO(UTXOSet[n], tx.input.domain)]
    BY <1>6 DEF removeInput, In
  <2> HIDE DEF w
  <2>3. v = w
    BY <2>2, OneMoves
  <2>4. UTXOSet'[n] = removeUTXO(UTXOSet[n], tx.input.domain)
    BY <2>2 DEF TypeOK
  <2>5. UTXOSet[n] = f[t.i] /\ Applies(f[t.i], tx)
    BY <2>2 DEF Working
  <2>6. Working(f, UTXOSet'[n], w)
    BY <1>4, <2>1, <2>4, <2>5 DEF Working
  <2> QED BY <2>1, <2>3, <2>6
<1>7. CASE addOutput(n, g)
  <2> DEFINE w == At("add", t.from, t.block, t.i + 1, 0)
  <2>1. w.pc = "add" /\ w.from = t.from /\ w.block = t.block /\ w.i = t.i + 1
    BY AtFields
  <2>2. /\ Becomes(n, g, w) /\ t.pc = "put"
        /\ UTXOSet' = [UTXOSet EXCEPT ![n] = addUTXO(UTXOSet[n], tx.output)]
    BY <1>7 DEF addOutput, In
  <2> HIDE DEF w
  <2>3. v = w
    BY <2>2, OneMoves
  <2>4. UTXOSet'[n] = addUTXO(UTXOSet[n], tx.output)
    BY <2>2 DEF TypeOK
  <2>5. UTXOSet[n] = removeUTXO(f[t.i], tx.input.domain) /\ Applies(f[t.i], tx)
    BY <2>2 DEF Working
  <2>6. Spends(tx)
    BY <2>2 DEF Places, MinerPlace, ListenerPlace, InBlock, Miner, Listener, Goroutine
  <2>7. UTXOSet'[n] = f[t.i + 1]
    BY <1>3, <2>4, <2>5, <2>6 DEF AfterTx
  <2>8. \A j \in 1 .. w.i - 1 : Applies(f[j], txs[j])
    <3> HIDE DEF t
    <3>1. \A j \in 1 .. w.i - 1 : j \in 1 .. t.i - 1 \/ j = t.i
      BY <1>2, <2>1
    <3> QED BY <1>4, <2>5, <3>1
  <2>9. Working(f, UTXOSet'[n], w)
    BY <2>1, <2>7, <2>8 DEF Working
  <2> QED BY <2>1, <2>3, <2>9
<1> QED BY <1>5, <1>6, <1>7

-----------------------------------------------------------------------------
(* One miner: the invariant. *)

\* Nobody but m has anything to mine.
Lone(m) ==
  \A n \in Node \ {m} : mempool[n] = {} /\ log[n] = <<>> /\ Miner(n).pc = "idle"

\* S[k][i] are the entries of m before transaction i of its block k: m made these
\* blocks of them, and every other node goes through the same entries.
FollowerTrace(m, S, f) ==
  FollowerOK(log[m], S, accepted[f][m], Listener(f), UTXOSet[f], lastHash[f])

TraceInv(m, S) ==
  /\ Trace(log[m], S)
  /\ MinerOK(log[m], S, Miner(m), UTXOSet[m], lastHash[m])
  /\ \A f \in Node \ {m} : FollowerTrace(m, S, f)

\* m adds blocks in its miner only, the others in their listener, blocks of m.
LEMMA LoneWorkers ==
  ASSUME TypeOK, Places, NEW m \in Node, Lone(m)
  PROVE  /\ Listener(m).pc = "idle"
         /\ \A f \in Node \ {m} : Listener(f).pc # "idle" =>
              /\ Listener(f).from = m /\ accepted[f][m] < Len(log[m])
              /\ Listener(f).block = log[m][accepted[f][m] + 1]
         /\ \A n \in Node : \A g \in Goroutine : thread[n][g].pc # "idle" =>
              (n = m /\ g = "miner") \/ (n # m /\ g = "listener")
<1>1. ASSUME NEW n \in Node, Listener(n).pc # "idle"
      PROVE  /\ Listener(n).from = m /\ n # m /\ accepted[n][m] < Len(log[m])
             /\ Listener(n).block = log[m][accepted[n][m] + 1]
  <2> DEFINE o == Listener(n).from
  <2>1. /\ o \in Node \ {n} /\ accepted[n][o] < Len(log[o])
        /\ Listener(n).block = log[o][accepted[n][o] + 1]
    BY <1>1 DEF Places, ListenerPlace
  <2>2. accepted[n][o] \in Nat
    BY <2>1 DEF TypeOK
  <2>3. log[o] # <<>>
    BY <2>1, <2>2
  <2>4. o = m
    BY <2>1, <2>3 DEF Lone
  <2> QED BY <2>1, <2>4
<1>2. \A n \in Node : \A g \in Goroutine : thread[n][g].pc # "idle" =>
        (n = m /\ g = "miner") \/ (n # m /\ g = "listener")
  <2> SUFFICES ASSUME NEW n \in Node, NEW g \in Goroutine, thread[n][g].pc # "idle"
               PROVE  (n = m /\ g = "miner") \/ (n # m /\ g = "listener")
    OBVIOUS
  <2>1. CASE g = "listener"
    BY <1>1, <2>1 DEF Listener
  <2>2. CASE g = "miner"
    BY <2>2 DEF Lone, Miner
  <2> QED BY <2>1, <2>2 DEF Goroutine
<1> QED BY <1>1, <1>2

\* Nobody else gets anything to mine.
LEMMA LoneStep ==
  ASSUME TypeOK, Places, NEW m \in Node, \A n \in Node \ {m} : Sent[n] = {},
         Lone(m), [Next]_cvars
  PROVE  Lone(m)'
<1>1. ASSUME NEW n \in Node, StepOf(n) PROVE Lone(m)'
  <2>1. Elsewhere(n)
    BY <1>1, StepsElsewhere
  <2>2. CASE n = m
    BY <2>1, <2>2 DEF Elsewhere, Lone, Miner
  <2>3. CASE n # m
    <3>1. n \in Node \ {m} /\ "miner" \in Goroutine
      BY <2>3 DEF Goroutine
    <3>2. mempool[n] = {} /\ log[n] = <<>> /\ Miner(n).pc = "idle"
      BY <3>1 DEF Lone
    <3>3. ~mineBlock(n) /\ ~createCandidateBlock(n) /\ ~stopMining(n)
      BY <3>2 DEF mineBlock, createCandidateBlock, stopMining, In, Miner
    <3>4. \A g \in Goroutine : addBlockToBlockchain(n, g) => g = "listener"
      <4>1. \A g \in Goroutine : addBlockToBlockchain(n, g) => thread[n][g].pc # "idle"
        BY DEF addBlockToBlockchain, addTransaction, removeInput, addOutput,
               storeBlock, finishBlock, In
      <4> QED BY <3>2, <4>1 DEF Miner, Goroutine
    <3>5. \/ \E o \in Node : handleBlockMessage(n, o)
          \/ validateBlock(n)
          \/ addBlockToBlockchain(n, "listener")
      BY <1>1, <3>1, <3>3, <3>4 DEF StepOf
    <3>6. log' = log
      BY <3>5 DEF handleBlockMessage, validateBlock, addBlockToBlockchain,
                  addTransaction, removeInput, addOutput, storeBlock, finishBlock
    <3>7. \E t : Becomes(n, "listener", t)
      <4>1. ASSUME NEW o \in Node, handleBlockMessage(n, o)
            PROVE  \E t : Becomes(n, "listener", t)
        BY <4>1 DEF handleBlockMessage
      <4>2. validateBlock(n) => \E t : Becomes(n, "listener", t)
        BY DEF validateBlock
      <4>3. addTransaction(n, "listener") => \E t : Becomes(n, "listener", t)
        BY DEF addTransaction
      <4>4. removeInput(n, "listener") => \E t : Becomes(n, "listener", t)
        BY DEF removeInput
      <4>5. addOutput(n, "listener") => \E t : Becomes(n, "listener", t)
        BY DEF addOutput
      <4>6. storeBlock(n, "listener") => \E t : Becomes(n, "listener", t)
        BY DEF storeBlock
      <4>7. finishBlock(n, "listener") => \E t : Becomes(n, "listener", t)
        BY DEF finishBlock
      <4> QED BY <3>5, <4>1, <4>2, <4>3, <4>4, <4>5, <4>6, <4>7
              DEF addBlockToBlockchain
    <3>8. thread'[n]["miner"] = thread[n]["miner"]
      BY <3>7, OneMoves DEF Goroutine
    <3>9. mempool'[n] \subseteq mempool[n]
      <4>1. CASE finishBlock(n, "listener")
        BY <4>1 DEF finishBlock, removeTxsFromMempool, TypeOK
      <4>2. CASE ~finishBlock(n, "listener")
        BY <3>5, <4>2 DEF handleBlockMessage, validateBlock, addBlockToBlockchain,
                          addTransaction, removeInput, addOutput, storeBlock
      <4> QED BY <4>1, <4>2
    <3> QED BY <2>1, <3>2, <3>6, <3>8, <3>9 DEF Elsewhere, Lone, Miner
  <2> QED BY <2>2, <2>3
<1>2. CASE UNCHANGED <<UTXOSet, mempool, blocks, lastHash, currentHeight, log,
                       accepted, thread>>
  BY <1>2 DEF Lone, Miner
<1> QED BY <1>1, <1>2, StepCases

\* A step of n that leaves the log of m alone leaves the trace as it is.
LEMMA TraceElsewhere ==
  ASSUME NEW m \in Node, NEW S, TraceInv(m, S), NEW n \in Node, Elsewhere(n),
         log' = log,
         n = m => MinerOK(log[m], S, Miner(m)', UTXOSet'[m], lastHash'[m]),
         n # m => FollowerOK(log[m], S, accepted'[n][m], Listener(n)', UTXOSet'[n],
                             lastHash'[n])
  PROVE  TraceInv(m, S)'
<1>1. MinerOK(log[m], S, Miner(m)', UTXOSet'[m], lastHash'[m])
  <2>1. CASE n = m
    BY <2>1
  <2>2. CASE n # m
    <3>1. Miner(m)' = Miner(m) /\ UTXOSet'[m] = UTXOSet[m] /\ lastHash'[m] = lastHash[m]
      BY <2>2 DEF Elsewhere, Miner
    <3> QED BY <3>1 DEF TraceInv
  <2> QED BY <2>1, <2>2
<1>2. ASSUME NEW f \in Node \ {m}
      PROVE  FollowerOK(log[m], S, accepted'[f][m], Listener(f)', UTXOSet'[f],
                        lastHash'[f])
  <2>1. CASE n = f
    BY <1>2, <2>1
  <2>2. CASE n # f
    <3>1. /\ Listener(f)' = Listener(f) /\ UTXOSet'[f] = UTXOSet[f]
          /\ lastHash'[f] = lastHash[f] /\ accepted'[f] = accepted[f]
      BY <1>2, <2>2 DEF Elsewhere, Listener
    <3> QED BY <1>2, <3>1 DEF TraceInv, FollowerTrace
  <2> QED BY <2>1, <2>2
<1>3. Trace(log'[m], S)
  BY DEF TraceInv
<1>4. \A f \in Node \ {m} : FollowerTrace(m, S, f)'
  BY <1>2 DEF FollowerTrace
<1> QED BY <1>1, <1>3, <1>4 DEF TraceInv

\* The transactions a listener has validated apply to its entries.
LEMMA ValidApplies ==
  ASSUME NEW s, NEW tx, NEW t, validateTransaction(s, tx, t)
  PROVE  Applies(s, tx)
BY DEF validateTransaction, Applies, Spends

\* The miner goes on: steps of addBlockToBlockchain, and between two blocks.
LEMMA MinerGoesOn ==
  ASSUME TypeOK, Places, NEW m \in Node, Lone(m), NEW S, TraceInv(m, S), StepOf(m),
         ~mineBlock(m)
  PROVE  MinerOK(log[m], S, Miner(m)', UTXOSet'[m], lastHash'[m])
<1> DEFINE t == Miner(m)
           K == Len(log[m])
<1>g. "miner" \in Goroutine /\ "listener" \in Goroutine /\ t = thread[m]["miner"]
  BY DEF Goroutine, Miner
<1>0. MinerOK(log[m], S, t, UTXOSet[m], lastHash[m])
  BY DEF TraceInv
<1>l. Listener(m).pc = "idle"
  BY LoneWorkers
<1>p. /\ InBlock(t) /\ K \in Nat
      /\ Adding(t) => K \in 1 .. K /\ t.block = log[m][K]
  <2>1. log[m] \in Seq(Block)
    BY DEF TypeOK
  <2>2. log[m] # <<>> => K \in 1 .. K
    BY <2>1
  <2> QED BY <2>1, <2>2 DEF Places, MinerPlace
<1>f. Adding(t) => Folds(S[K], t.block.txs)
  BY <1>p DEF TraceInv, Trace
<1>1. ASSUME NEW tx \in Sent[m], handleTransactionMessage(m, tx)
      PROVE  MinerOK(log[m], S, Miner(m)', UTXOSet'[m], lastHash'[m])
  BY <1>0, <1>1 DEF handleTransactionMessage, Miner
<1>2. ASSUME NEW o \in Node, handleBlockMessage(m, o) PROVE FALSE
  <2>1. m # o /\ accepted[m][o] < Len(log[o])
    BY <1>2 DEF handleBlockMessage
  <2>2. log[o] = <<>> /\ accepted[m][o] \in Nat
    BY <2>1 DEF Lone, TypeOK
  <2> QED BY <2>1, <2>2
<1>3. ASSUME validateBlock(m) PROVE FALSE
  BY <1>3, <1>l DEF validateBlock, In, Listener
<1>4. ASSUME createCandidateBlock(m)
      PROVE  MinerOK(log[m], S, Miner(m)', UTXOSet'[m], lastHash'[m])
  <2>1. PICK txs \in getTxsFromMempool(mempool[m]) :
          Becomes(m, "miner",
            At("mine", m, [prev |-> lastHash[m], nonce |-> currentHeight[m] + 1,
                           txs |-> txs], 1, 0))
    BY <1>4 DEF createCandidateBlock
  <2> DEFINE b == [prev |-> lastHash[m], nonce |-> currentHeight[m] + 1, txs |-> txs]
             v == At("mine", m, b, 1, 0)
  <2>2. v.pc = "mine" /\ v.block.prev = lastHash[m]
    BY AtFields
  <2>3. /\ Becomes(m, "miner", v) /\ UNCHANGED <<UTXOSet, lastHash>>
        /\ t.pc = "idle"
    BY <1>4, <2>1 DEF createCandidateBlock, In, Miner
  <2> HIDE DEF v, b
  <2>4. Miner(m)' = v
    BY <1>g, <2>3, OneMoves DEF Miner
  <2> QED BY <1>0, <2>2, <2>3, <2>4 DEF MinerOK, Adding
<1>5. ASSUME stopMining(m)
      PROVE  MinerOK(log[m], S, Miner(m)', UTXOSet'[m], lastHash'[m])
  <2>1. /\ Becomes(m, "miner", Idle(m)) /\ UNCHANGED <<UTXOSet, lastHash>>
        /\ t.pc = "mine" /\ Idle(m).pc = "idle"
    BY <1>5 DEF stopMining, In, Miner, Idle, At
  <2>2. Miner(m)' = Idle(m)
    BY <1>g, <2>1, OneMoves DEF Miner
  <2> QED BY <1>0, <2>1, <2>2 DEF MinerOK, Adding
<1>6. ASSUME NEW g \in Goroutine, addBlockToBlockchain(m, g)
      PROVE  g = "miner"
  <2>1. thread[m][g].pc # "idle"
    BY <1>6 DEF addBlockToBlockchain, addTransaction, removeInput, addOutput,
                storeBlock, finishBlock, In
  <2> QED BY <1>l, <2>1 DEF Goroutine, Listener
<1>7. ASSUME \/ addTransaction(m, "miner") \/ removeInput(m, "miner")
             \/ addOutput(m, "miner")
      PROVE  MinerOK(log[m], S, Miner(m)', UTXOSet'[m], lastHash'[m])
  <2> DEFINE v == Miner(m)'
  <2>1. t.pc \in {"add", "remove", "put"} /\ lastHash' = lastHash
    BY <1>7 DEF addTransaction, removeInput, addOutput, In, Miner
  <2>2. Adding(t) /\ Working(S[K], UTXOSet[m], t) /\ t.block.prev = lastHash[m]
    BY <1>0, <2>1 DEF MinerOK, Adding
  <2>3. \/ /\ v.pc \in {"add", "remove", "put"}
           /\ v.from = t.from /\ v.block = t.block
           /\ Working(S[K], UTXOSet'[m], v)
        \/ /\ v.pc = "idle" /\ UTXOSet'[m] = UTXOSet[m]
           /\ \E i \in DOMAIN t.block.txs :
                ~Applies(S[K][i], t.block.txs[i]) /\ S[K][i] = UTXOSet[m]
    BY <1>7, <1>g, <1>f, <2>2, WorkGoesOn DEF Miner
  <2> HIDE DEF v, t
  <2>4. CASE v.pc = "idle" /\ \E i \in DOMAIN t.block.txs :
                                ~Applies(S[K][i], t.block.txs[i])
    <3>1. ~Good(log[m], S, K)
      BY <1>p, <2>2, <2>4 DEF Good
    <3> QED BY <2>4, <3>1 DEF MinerOK, Adding, v
  <2>5. CASE /\ v.pc \in {"add", "remove", "put"} /\ v.block = t.block
             /\ Working(S[K], UTXOSet'[m], v)
    BY <2>1, <2>2, <2>5 DEF MinerOK, Adding, v
  <2> QED BY <2>3, <2>4, <2>5
<1>8. ASSUME storeBlock(m, "miner")
      PROVE  MinerOK(log[m], S, Miner(m)', UTXOSet'[m], lastHash'[m])
  <2> DEFINE v == At("count", t.from, t.block, t.i, currentHeight[m])
  <2>1. v.pc = "count" /\ v.block = t.block /\ v.i = t.i
    BY AtFields
  <2>2. /\ Becomes(m, "miner", v) /\ UNCHANGED UTXOSet /\ t.pc = "add"
        /\ lastHash' = [lastHash EXCEPT ![m] = HashOf(t.block)]
    BY <1>8 DEF storeBlock, In, Miner
  <2> HIDE DEF v
  <2>3. Miner(m)' = v /\ lastHash'[m] = HashOf(t.block)
    BY <1>g, <2>2, OneMoves DEF Miner, TypeOK
  <2>4. Working(S[K], UTXOSet[m], t)
    BY <1>0, <2>2 DEF MinerOK, Adding
  <2>5. Working(S[K], UTXOSet[m], v)
    BY <2>1, <2>2, <2>4 DEF Working
  <2> QED BY <2>1, <2>2, <2>3, <2>5 DEF MinerOK, Adding
<1>9. ASSUME finishBlock(m, "miner")
      PROVE  MinerOK(log[m], S, Miner(m)', UTXOSet'[m], lastHash'[m])
  <2>1. /\ Becomes(m, "miner", Idle(m)) /\ UNCHANGED <<UTXOSet, lastHash>>
        /\ t.pc = "count" /\ Idle(m).pc = "idle"
    BY <1>9 DEF finishBlock, In, Miner, Idle, At
  <2>2. Miner(m)' = Idle(m)
    BY <1>g, <2>1, OneMoves DEF Miner
  <2>3. Working(S[K], UTXOSet[m], t) /\ lastHash[m] = HashOf(t.block)
        /\ t.i = Len(t.block.txs) + 1 /\ Adding(t)
    BY <1>0, <1>p, <2>1 DEF MinerOK, Adding, InBlock
  <2>4. UTXOSet[m] = Base(log[m], S, K) /\ lastHash[m] = Top(log[m], K)
    BY <1>p, <2>1, <2>3 DEF Working, Base, Top
  <2> QED BY <2>1, <2>2, <2>4 DEF MinerOK, Adding
<1> QED
  BY <1>1, <1>2, <1>3, <1>4, <1>5, <1>6, <1>7, <1>8, <1>9
  DEF StepOf, addBlockToBlockchain

\* A follower goes on: it validates and adds the blocks of m one by one.
LEMMA FollowerGoesOn ==
  ASSUME TypeOK, Places, NEW m \in Node, Lone(m), NEW S, TraceInv(m, S),
         NEW n \in Node \ {m}, Sent[n] = {}, StepOf(n)
  PROVE  /\ log' = log
         /\ FollowerOK(log[m], S, accepted'[n][m], Listener(n)', UTXOSet'[n],
                       lastHash'[n])
<1> DEFINE t == Listener(n)
           a == accepted[n][m]
           l == log[m]
           Goal == /\ log' = log
                   /\ FollowerOK(l, S, accepted'[n][m], Listener(n)', UTXOSet'[n],
                                 lastHash'[n])
<1>g. "miner" \in Goroutine /\ "listener" \in Goroutine /\ t = thread[n]["listener"]
      /\ n \in Node
  BY DEF Goroutine, Listener
<1>0. FollowerOK(l, S, a, t, UTXOSet[n], lastHash[n])
  BY DEF TraceInv, FollowerTrace
<1>w. t.pc # "idle" => t.from = m /\ a < Len(l) /\ t.block = l[a + 1]
  BY LoneWorkers
<1>p. /\ InBlock(t) /\ a \in Nat /\ Len(l) \in Nat /\ t.i \in Nat
      /\ Len(t.block.txs) \in Nat
      /\ DOMAIN t.block.txs = 1 .. Len(t.block.txs)
  <2>1. InBlock(t)
    BY DEF Places, ListenerPlace
  <2>2. a \in Nat /\ Len(l) \in Nat
    BY DEF TypeOK
  <2> QED BY <1>g, <2>1, <2>2, ThreadTypes
<1>t. /\ t.pc # "idle" => Folds(S[a + 1], t.block.txs)
      /\ t.pc # "idle" => S[a + 1][1] = Base(l, S, a) /\ l[a + 1].prev = Top(l, a)
  <2> SUFFICES ASSUME t.pc # "idle"
               PROVE  /\ Folds(S[a + 1], t.block.txs)
                      /\ S[a + 1][1] = Base(l, S, a) /\ l[a + 1].prev = Top(l, a)
    OBVIOUS
  <2>1. a + 1 \in 1 .. Len(l) /\ a \in 0 .. Len(l) - 1 /\ (a = 0 \/ a \in 1 .. a)
    BY <1>p, <1>w
  <2>2. Good(l, S, a)
    BY <1>0, <2>1 DEF FollowerOK, Good
  <2> QED BY <1>w, <2>1, <2>2 DEF TraceInv, Trace
<1>lone. mempool[n] = {} /\ Miner(n).pc = "idle"
  BY DEF Lone
<1>1. ASSUME NEW o \in Node, handleBlockMessage(n, o) PROVE Goal
  <2> DEFINE v == At("validate", o, log[o][accepted[n][o] + 1], 1, 0)
  <2>1. v.pc = "validate" /\ v.i = 1 /\ ~Adding(v)
    BY AtFields DEF Adding
  <2>2. /\ Becomes(n, "listener", v) /\ t.pc = "idle" /\ ~Adding(t)
        /\ UNCHANGED <<log, accepted, UTXOSet, lastHash>>
    BY <1>1 DEF handleBlockMessage, In, Listener, Adding
  <2> HIDE DEF v
  <2>3. Listener(n)' = v
    BY <1>g, <2>2, OneMoves DEF Listener
  <2>4. \A j \in 1 .. v.i - 1 : FALSE
    BY <2>1
  <2> QED BY <1>0, <2>1, <2>2, <2>3, <2>4 DEF FollowerOK
<1>2. ASSUME validateBlock(n) PROVE Goal
  <2>1. /\ t.pc = "validate" /\ ~Adding(t)
        /\ UNCHANGED <<log, accepted, UTXOSet, lastHash>>
    BY <1>2 DEF validateBlock, In, Listener, Adding
  <2>2. CASE /\ t.i \in DOMAIN t.block.txs
             /\ validateTransaction(UTXOSet[n], t.block.txs[t.i], now)
             /\ Becomes(n, "listener", At("validate", t.from, t.block, t.i + 1, 0))
    <3> DEFINE v == At("validate", t.from, t.block, t.i + 1, 0)
    <3>1. v.pc = "validate" /\ v.block = t.block /\ v.i = t.i + 1 /\ ~Adding(v)
      BY AtFields DEF Adding
    <3>2. Becomes(n, "listener", v)
      BY <2>2
    <3> HIDE DEF v
    <3>3. Listener(n)' = v
      BY <1>g, <3>2, OneMoves DEF Listener
    <3>4. Applies(UTXOSet[n], t.block.txs[t.i])
      BY <2>2, ValidApplies
    <3>5. \A j \in 1 .. t.i - 1 : Applies(UTXOSet[n], t.block.txs[j])
      BY <1>0, <2>1 DEF FollowerOK
    <3>6. \A j \in 1 .. v.i - 1 : Applies(UTXOSet[n], t.block.txs[j])
      <4> HIDE DEF t
      <4>1. \A j \in 1 .. v.i - 1 : j \in 1 .. t.i - 1 \/ j = t.i
        BY <1>p, <3>1
      <4> QED BY <3>4, <3>5, <4>1
    <3> QED BY <1>0, <2>1, <3>1, <3>3, <3>6 DEF FollowerOK
  <2>3. CASE Becomes(n, "listener", Idle(n))
    <3>1. Idle(n).pc = "idle" /\ ~Adding(Idle(n))
      BY DEF Idle, At, Adding
    <3>2. Listener(n)' = Idle(n)
      BY <1>g, <2>3, OneMoves DEF Listener
    <3> QED BY <1>0, <2>1, <3>1, <3>2 DEF FollowerOK
  <2>4. CASE /\ t.i \notin DOMAIN t.block.txs
             /\ Becomes(n, "listener", At("add", t.from, t.block, 1, 0))
    <3> DEFINE v == At("add", t.from, t.block, 1, 0)
    <3>1. v.pc = "add" /\ v.block = t.block /\ v.i = 1 /\ Adding(v)
      BY AtFields DEF Adding
    <3>2. Becomes(n, "listener", v)
      BY <2>4
    <3> HIDE DEF v
    <3>3. Listener(n)' = v
      BY <1>g, <3>2, OneMoves DEF Listener
    <3>4. \A j \in 1 .. t.i - 1 : Applies(UTXOSet[n], t.block.txs[j])
      BY <1>0, <2>1 DEF FollowerOK
    <3>5. \A j \in DOMAIN t.block.txs : Applies(UTXOSet[n], t.block.txs[j])
      <4>1. t.i \in 1 .. Len(t.block.txs) + 1
        BY <1>p, <2>1 DEF InBlock
      <4> HIDE DEF t
      <4>2. t.i = Len(t.block.txs) + 1
        BY <1>p, <2>4, <4>1
      <4> QED BY <1>p, <3>4, <4>2
    <3>6. UTXOSet[n] = Base(l, S, a)
      BY <1>0, <1>w, <2>1, <3>5 DEF FollowerOK
    <3>7. UTXOSet[n] = S[a + 1][1]
      BY <1>t, <2>1, <3>6
    <3>8. Working(S[a + 1], UTXOSet[n], v)
      <4>1. \A j \in 1 .. v.i - 1 : FALSE
        BY <3>1
      <4> QED BY <3>1, <3>7, <4>1 DEF Working
    <3> QED BY <1>0, <2>1, <3>1, <3>3, <3>8 DEF FollowerOK
  <2> QED BY <1>2, <2>2, <2>3, <2>4 DEF validateBlock, Listener
<1>3. ~createCandidateBlock(n) /\ ~stopMining(n) /\ ~mineBlock(n)
  BY <1>lone DEF createCandidateBlock, stopMining, mineBlock, In, Miner
<1>4. ASSUME NEW g \in Goroutine, addBlockToBlockchain(n, g) PROVE g = "listener"
  <2>1. thread[n][g].pc # "idle"
    BY <1>4 DEF addBlockToBlockchain, addTransaction, removeInput, addOutput,
                storeBlock, finishBlock, In
  <2> QED BY <1>lone, <2>1 DEF Goroutine, Miner
<1>5. ASSUME \/ addTransaction(n, "listener") \/ removeInput(n, "listener")
             \/ addOutput(n, "listener")
      PROVE  Goal
  <2> DEFINE v == Listener(n)'
  <2>1. t.pc \in {"add", "remove", "put"} /\ UNCHANGED <<log, accepted, lastHash>>
    BY <1>5 DEF addTransaction, removeInput, addOutput, In, Listener
  <2>2. Adding(t) /\ Working(S[a + 1], UTXOSet[n], t) /\ lastHash[n] = Top(l, a)
    BY <1>0, <2>1 DEF FollowerOK, Adding
  <2>3. \/ /\ v.pc \in {"add", "remove", "put"}
           /\ v.from = t.from /\ v.block = t.block
           /\ Working(S[a + 1], UTXOSet'[n], v)
        \/ /\ v.pc = "idle" /\ UTXOSet'[n] = UTXOSet[n]
           /\ \E i \in DOMAIN t.block.txs :
                ~Applies(S[a + 1][i], t.block.txs[i]) /\ S[a + 1][i] = UTXOSet[n]
    BY <1>5, <1>g, <1>t, <2>1, <2>2, WorkGoesOn DEF Listener
  <2> HIDE DEF v, t
  <2>4. CASE /\ v.pc = "idle" /\ UTXOSet'[n] = UTXOSet[n]
             /\ \E i \in DOMAIN t.block.txs : ~Applies(UTXOSet[n], t.block.txs[i])
    BY <1>0, <1>w, <2>1, <2>2, <2>4 DEF FollowerOK, Adding, v
  <2>5. CASE /\ v.pc \in {"add", "remove", "put"} /\ v.block = t.block
             /\ Working(S[a + 1], UTXOSet'[n], v)
    BY <1>0, <2>1, <2>2, <2>5 DEF FollowerOK, Adding, v
  <2> QED BY <2>3, <2>4, <2>5
<1>6. ASSUME storeBlock(n, "listener") PROVE Goal
  <2> DEFINE v == At("count", t.from, t.block, t.i, currentHeight[n])
  <2>1. v.pc = "count" /\ v.block = t.block /\ v.i = t.i /\ Adding(v)
    BY AtFields DEF Adding
  <2>2. /\ Becomes(n, "listener", v) /\ UNCHANGED <<UTXOSet, log, accepted>>
        /\ t.pc = "add" /\ lastHash' = [lastHash EXCEPT ![n] = HashOf(t.block)]
    BY <1>6 DEF storeBlock, In, Listener
  <2> HIDE DEF v
  <2>3. Listener(n)' = v /\ lastHash'[n] = HashOf(t.block)
    BY <1>g, <2>2, OneMoves DEF Listener, TypeOK
  <2>4. Working(S[a + 1], UTXOSet[n], t)
    BY <1>0, <2>2 DEF FollowerOK, Adding
  <2>5. Working(S[a + 1], UTXOSet[n], v)
    BY <2>1, <2>2, <2>4 DEF Working
  <2> QED BY <1>0, <2>1, <2>2, <2>3, <2>5 DEF FollowerOK
<1>7. ASSUME finishBlock(n, "listener") PROVE Goal
  <2>1. /\ Becomes(n, "listener", Idle(n)) /\ UNCHANGED <<UTXOSet, lastHash, log>>
        /\ t.pc = "count" /\ Idle(n).pc = "idle" /\ ~Adding(Idle(n))
        /\ accepted' = [accepted EXCEPT ![n][t.from] = @ + 1]
    BY <1>7 DEF finishBlock, In, Listener, Idle, At, Adding
  <2>2. Listener(n)' = Idle(n)
    BY <1>g, <2>1, OneMoves DEF Listener
  <2>3. accepted'[n][m] = a + 1
    BY <1>g, <1>w, <2>1 DEF TypeOK
  <2>4. Working(S[a + 1], UTXOSet[n], t) /\ lastHash[n] = HashOf(t.block)
        /\ t.i = Len(t.block.txs) + 1
    BY <1>0, <1>p, <2>1 DEF FollowerOK, Adding, InBlock
  <2>5. t.block = l[a + 1]
    BY <1>w, <2>1
  <2> HIDE DEF t, a, l
  <2>6. /\ UTXOSet[n] = Base(l, S, a + 1) /\ lastHash[n] = Top(l, a + 1)
        /\ Good(l, S, a + 1)
    <3>1. a + 1 # 0
      BY <1>p
    <3>2. \A j \in DOMAIN t.block.txs : Applies(S[a + 1][j], t.block.txs[j])
      <4>1. \A j \in 1 .. t.i - 1 : Applies(S[a + 1][j], t.block.txs[j])
        BY <2>4 DEF Working
      <4> QED BY <1>p, <2>4, <4>1
    <3>3. UTXOSet[n] = S[a + 1][t.i]
      BY <2>1, <2>4 DEF Working
    <3> QED BY <2>4, <2>5, <3>1, <3>2, <3>3 DEF Base, Top, Good
  <2>7. \A k \in 1 .. a + 1 : Good(l, S, k)
    <3>1. \A k \in 1 .. a + 1 : k \in 1 .. a \/ k = a + 1
      BY <1>p
    <3> QED BY <1>0, <2>6, <3>1 DEF FollowerOK
  <2> QED BY <2>1, <2>2, <2>3, <2>6, <2>7 DEF FollowerOK
<1> QED
  <2>1. \/ \E o \in Node : handleBlockMessage(n, o)
        \/ validateBlock(n)
        \/ addBlockToBlockchain(n, "listener")
    BY <1>3, <1>4 DEF StepOf
  <2> QED BY <1>1, <1>2, <1>5, <1>6, <1>7, <2>1 DEF addBlockToBlockchain

\* The trace goes on with every step, of the miner, of a follower or of the clock.
LEMMA TraceStep ==
  ASSUME TypeOK, Places, NEW m \in Node, \A n \in Node \ {m} : Sent[n] = {},
         Lone(m), NEW S, TraceInv(m, S), [Next]_cvars
  PROVE  \E R : TraceInv(m, R)'
<1>1. CASE mineBlock(m)
  <2> DEFINE t == Miner(m)
             v == At("add", m, t.block, 1, 0)
             l == log[m]
             l2 == Append(l, t.block)
  <2>g. "miner" \in Goroutine /\ "listener" \in Goroutine
    BY DEF Goroutine
  <2>1. v.pc = "add" /\ v.block = t.block /\ v.i = 1
    BY AtFields
  <2>2. /\ Becomes(m, "miner", v) /\ t.pc = "mine"
        /\ log' = [log EXCEPT ![m] = Append(log[m], t.block)]
        /\ UNCHANGED <<UTXOSet, lastHash, accepted>>
    BY <1>1 DEF mineBlock, In, Miner
  <2> HIDE DEF v
  <2>3. Miner(m)' = v
    BY <2>g, <2>2, OneMoves DEF Miner
  <2>4. \A f \in Node \ {m} : Listener(f)' = Listener(f)
    BY <2>g, <2>2, OneMoves DEF Listener
  <2>5. l \in Seq(Block) /\ log'[m] = l2 /\ t.block \in Block
    BY <2>g, <2>2, ThreadTypes DEF TypeOK, Miner
  <2>6. Trace(l, S) /\ MinerOK(l, S, t, UTXOSet[m], lastHash[m])
    BY DEF TraceInv
  <2> HIDE DEF t, l
  <2>7. PICK R : /\ Trace(l2, R)
                 /\ MinerOK(l2, R, v, UTXOSet[m], lastHash[m])
                 /\ \A k \in 1 .. Len(l) : R[k] = S[k] /\ l2[k] = l[k]
    BY <2>1, <2>2, <2>5, <2>6, TraceGrows
  <2>8. l2 \in Seq(Block) /\ Len(l) <= Len(l2)
    BY <2>5
  <2> HIDE DEF l2
  <2>9. ASSUME NEW f \in Node \ {m}
        PROVE  FollowerOK(l2, R, accepted[f][m], Listener(f), UTXOSet[f], lastHash[f])
    <3>1. FollowerOK(l, S, accepted[f][m], Listener(f), UTXOSet[f], lastHash[f])
      BY DEF TraceInv, FollowerTrace, l
    <3>2. Adding(Listener(f)) => accepted[f][m] < Len(l)
      BY LoneWorkers DEF Adding, l
    <3>3. accepted[f][m] \in Nat /\ accepted[f][m] <= Len(l)
      BY DEF TypeOK, Places, l
    <3>4. accepted[f][m] \in 0 .. Len(l)
      BY <2>5, <3>3
    <3> QED BY <2>5, <2>7, <2>8, <3>1, <3>2, <3>4, FollowerKept
  <2>10. \A f \in Node \ {m} : FollowerTrace(m, R, f)'
    BY <2>2, <2>4, <2>5, <2>9 DEF FollowerTrace
  <2>11. TraceInv(m, R)'
    BY <2>2, <2>3, <2>5, <2>7, <2>10 DEF TraceInv
  <2> QED BY <2>11
<1>2. ASSUME NEW n \in Node, StepOf(n), ~mineBlock(m) PROVE TraceInv(m, S)'
  <2>1. Elsewhere(n)
    BY <1>2, StepsElsewhere
  <2>2. CASE n = m
    <3>1. log' = log
      <4>1. log'[m] = log[m]
        BY <1>2, LogGrows
      <4>2. \A k \in Node : log'[k] = log[k]
        BY <2>1, <2>2, <4>1 DEF Elsewhere
      <4>3. DOMAIN log = Node /\ DOMAIN log' = Node
            /\ log = [k \in Node |-> log[k]] /\ log' = [k \in Node |-> log'[k]]
        <5>1. TypeOK'
          BY StepType
        <5> QED BY <5>1 DEF TypeOK
      <4> QED BY <4>2, <4>3
    <3> QED BY <1>2, <2>1, <2>2, <3>1, MinerGoesOn, TraceElsewhere
  <2>3. CASE n # m
    BY <1>2, <2>1, <2>3, FollowerGoesOn, TraceElsewhere
  <2> QED BY <2>2, <2>3
<1>3. CASE UNCHANGED <<UTXOSet, mempool, blocks, lastHash, currentHeight, log,
                       accepted, thread>>
  <2>1. TraceInv(m, S)'
    BY <1>3 DEF TraceInv, FollowerTrace, Listener, Miner
  <2> QED BY <2>1
<1> QED BY <1>1, <1>2, <1>3, StepCases

\* Initially nothing is mined, and any history will do.
LEMMA InitTrace ==
  ASSUME Init, NEW m \in Node, NEW S
  PROVE  Lone(m) /\ TraceInv(m, S)
<1>0. "miner" \in Goroutine /\ "listener" \in Goroutine
  BY DEF Goroutine
<1>1. /\ \A n \in Node : /\ Miner(n) = Idle(n) /\ Listener(n) = Idle(n)
                         /\ UTXOSet[n] = {} /\ lastHash[n] = HashOf(Genesis)
                         /\ log[n] = <<>> /\ mempool[n] = {}
      /\ \A n, o \in Node : accepted[n][o] = 0
  BY <1>0 DEF Init, Miner, Listener
<1>2. \A n \in Node : Idle(n).pc = "idle" /\ ~Adding(Idle(n))
  BY DEF Idle, At, Adding
<1>3. Lone(m)
  BY <1>1, <1>2 DEF Lone
<1> DEFINE l == <<>>
<1>4. Len(l) = 0 /\ (\A k \in 1 .. Len(l) : FALSE) /\ (\A k \in 0 .. Len(l) - 1 : FALSE)
      /\ \A k \in 1 .. 0 : FALSE
  OBVIOUS
<1> HIDE DEF l
<1>5. Trace(l, S)
  BY <1>4 DEF Trace
<1>6. Base(l, S, 0) = {} /\ Top(l, 0) = HashOf(Genesis)
  BY DEF Base, Top
<1>7. \A n \in Node : MinerOK(l, S, Idle(n), {}, HashOf(Genesis))
  BY <1>2, <1>4, <1>6 DEF MinerOK
<1>8. \A n \in Node : FollowerOK(l, S, 0, Idle(n), {}, HashOf(Genesis))
  BY <1>2, <1>4, <1>6 DEF FollowerOK
<1>9. \A f \in Node \ {m} : FollowerTrace(m, S, f)
  BY <1>1, <1>8 DEF FollowerTrace, l
<1> QED BY <1>1, <1>3, <1>5, <1>7, <1>9 DEF TraceInv, l

-----------------------------------------------------------------------------
(* One miner: the stored blocks are one chain, and counted. *)

\* The walk from the last block of n meets all its blocks, the last one is the
\* longest; the goroutine t that adds blocks may have one still to count.
ChainOf(n, t) ==
  /\ IsFiniteSet(blocks[n])
  /\ \A b \in blocks[n] : Len(HashOf(b)) <= Len(lastHash[n])
  /\ blocks[n] \subseteq PrintAllNonces(n)
  /\ IF t.pc = "count"
     THEN t.height = currentHeight[n] /\ Cardinality(blocks[n]) = currentHeight[n] + 1
     ELSE Cardinality(blocks[n]) = currentHeight[n]

\* A block is stored on the last one.
LEMMA StoreChain ==
  ASSUME TypeOK, NEW n \in Node, NEW g \in Goroutine, storeBlock(n, g),
         thread[n][g].block.prev = lastHash[n], ChainOf(n, thread[n][g])
  PROVE  ChainOf(n, thread[n][g])'
<1> DEFINE t == thread[n][g]
           c == t.block
           v == At("count", t.from, c, t.i, currentHeight[n])
           B == blocks[n]
           h == lastHash[n]
<1>1. v.pc = "count" /\ v.height = currentHeight[n]
  BY AtFields
<1>2. /\ Becomes(n, g, v) /\ UNCHANGED currentHeight /\ t.pc = "add"
      /\ blocks' = [blocks EXCEPT ![n] = {b \in blocks[n] : HashOf(b) # HashOf(c)} \cup {c}]
      /\ lastHash' = [lastHash EXCEPT ![n] = HashOf(c)]
  BY DEF storeBlock, In
<1> HIDE DEF v
<1>3. /\ thread'[n][g] = v /\ lastHash'[n] = HashOf(c)
      /\ blocks'[n] = {b \in B : HashOf(b) # HashOf(c)} \cup {c}
  BY <1>2, OneMoves DEF TypeOK
<1>4. h \in Seq(Seq(AllTx)) /\ c.txs \in Seq(AllTx) /\ HashOf(c) = Append(h, c.txs)
  BY ThreadTypes DEF TypeOK, Hash, HashOf
<1>5. IsFiniteSet(B) /\ Cardinality(B) = currentHeight[n] /\ currentHeight[n] \in Nat
      /\ \A b \in B : Len(HashOf(b)) <= Len(h)
      /\ B \subseteq PrintAllNonces(n)
  BY <1>2 DEF ChainOf, TypeOK
<1>6. Len(HashOf(c)) = Len(h) + 1 /\ Len(h) \in Nat
  BY <1>4
<1>7. \A b \in B : Len(HashOf(b)) \in Nat
  <2> TAKE b \in B
  <2>1. b \in Block
    BY DEF TypeOK
  <2>2. HashOf(b) \in Hash
    BY <2>1, HashType
  <2> QED BY <2>2 DEF Hash
<1>8. \A b \in B : HashOf(b) # HashOf(c)
  BY <1>5, <1>6, <1>7
<1>9. blocks'[n] = B \cup {c} /\ c \notin B
  BY <1>3, <1>8
<1>10. IsFiniteSet(blocks'[n]) /\ Cardinality(blocks'[n]) = currentHeight[n] + 1
  <2> HIDE DEF B, c
  <2>1. IsFiniteSet(B \cup {c}) /\ Cardinality(B \cup {c}) = Cardinality(B) + 1
    BY <1>5, <1>9, FS_AddElement
  <2> QED BY <1>5, <1>9, <2>1
<1>11. \A b \in blocks'[n] : Len(HashOf(b)) <= Len(lastHash'[n])
  <2> HIDE DEF B, c, h
  <2> QED BY <1>3, <1>5, <1>6, <1>7, <1>9
<1>12. blocks'[n] \subseteq PrintAllNonces(n)'
  \* A closed set holds the new block, hence its parent, the last block before,
  \* and all that the walk met from there.
  <2> SUFFICES ASSUME NEW s \in SUBSET blocks'[n],
                      \A b \in blocks'[n] :
                        HashOf(b) = lastHash'[n] \/ (\E d \in s : d.prev = HashOf(b))
                          => b \in s
               PROVE  blocks'[n] \subseteq s
    BY DEF PrintAllNonces, WalkClosed, HashOf
  <2>1. c \in s
    BY <1>3, <1>9
  <2>2. WalkClosed(n, s \cap B)
    <3> SUFFICES ASSUME NEW b \in B,
                        HashOf(b) = h \/ (\E d \in s \cap B : d.prev = HashOf(b))
                 PROVE  b \in s
      BY DEF WalkClosed
    <3>1. b \in blocks'[n] /\ c.prev = h
      BY <1>9
    <3> QED BY <2>1, <3>1
  <2>3. s \cap B \in SUBSET B
    OBVIOUS
  <2>4. B \subseteq s
    BY <1>5, <2>2, <2>3 DEF PrintAllNonces
  <2> QED BY <1>9, <2>1, <2>4
<1> QED BY <1>1, <1>2, <1>3, <1>10, <1>11, <1>12 DEF ChainOf

\* And then counted.
LEMMA FinishChain ==
  ASSUME TypeOK, NEW n \in Node, NEW g \in Goroutine, finishBlock(n, g),
         ChainOf(n, thread[n][g])
  PROVE  ChainOf(n, thread[n][g])'
<1>1. /\ Becomes(n, g, Idle(n)) /\ UNCHANGED <<blocks, lastHash>>
      /\ thread[n][g].pc = "count" /\ Idle(n).pc = "idle"
      /\ currentHeight' = [currentHeight EXCEPT ![n] = thread[n][g].height + 1]
  BY DEF finishBlock, In, Idle, At
<1>2. thread'[n][g] = Idle(n) /\ currentHeight'[n] = thread[n][g].height + 1
  BY <1>1, OneMoves DEF TypeOK
<1>3. /\ thread[n][g].height = currentHeight[n]
      /\ Cardinality(blocks[n]) = currentHeight[n] + 1
  BY <1>1 DEF ChainOf
<1>4. currentHeight'[n] = Cardinality(blocks'[n]) /\ thread'[n][g].pc # "count"
  BY <1>1, <1>2, <1>3
<1>5. /\ IsFiniteSet(blocks'[n])
      /\ \A b \in blocks'[n] : Len(HashOf(b)) <= Len(lastHash'[n])
      /\ blocks'[n] \subseteq PrintAllNonces(n)'
  BY <1>1 DEF ChainOf, PrintAllNonces, WalkClosed
<1> QED BY <1>4, <1>5 DEF ChainOf

\* No other step of a node touches its blocks.
LEMMA ChainRests ==
  ASSUME TypeOK, NEW n \in Node, StepOf(n),
         \A g \in Goroutine : ~storeBlock(n, g) /\ ~finishBlock(n, g),
         NEW g \in Goroutine, ChainOf(n, thread[n][g])
  PROVE  ChainOf(n, thread[n][g])'
<1>1. UNCHANGED <<blocks, lastHash, currentHeight>>
  BY DEF StepOf, handleTransactionMessage, handleBlockMessage, validateBlock,
         createCandidateBlock, stopMining, mineBlock, addBlockToBlockchain,
         addTransaction, removeInput, addOutput
<1>2. \/ thread'[n][g] = thread[n][g]
      \/ thread[n][g].pc # "count" /\ thread'[n][g].pc # "count"
  <2>0. "miner" \in Goroutine /\ "listener" \in Goroutine
    BY DEF Goroutine
  <2>1. ASSUME NEW h \in Goroutine, NEW pc, NEW from, NEW b, NEW i, NEW x,
               Becomes(n, h, At(pc, from, b, i, x)), pc # "count",
               thread[n][h].pc # "count"
        PROVE  \/ thread'[n][g] = thread[n][g]
               \/ thread[n][g].pc # "count" /\ thread'[n][g].pc # "count"
    <3> DEFINE v == At(pc, from, b, i, x)
    <3>1. v.pc = pc
      BY AtFields
    <3> HIDE DEF v
    <3>2. thread'[n][g] = IF g = h THEN v ELSE thread[n][g]
      BY <2>1, OneMoves DEF v
    <3> QED BY <2>1, <3>1, <3>2
  <2> DEFINE Goal == \/ thread'[n][g] = thread[n][g]
                     \/ thread[n][g].pc # "count" /\ thread'[n][g].pc # "count"
             Moves(h) == /\ thread[n][h].pc # "count"
                         /\ \E pc, from, b, i, x :
                              pc # "count" /\ Becomes(n, h, At(pc, from, b, i, x))
  <2>2. \A h \in Goroutine : Moves(h) => Goal
    BY <2>1
  <2>3. \A tx \in Sent[n] : handleTransactionMessage(n, tx) => Goal
    BY DEF handleTransactionMessage
  <2>4. \A o \in Node : handleBlockMessage(n, o) => Moves("listener")
    BY DEF handleBlockMessage, In
  <2>5. validateBlock(n) => Moves("listener")
    BY DEF validateBlock, In, Idle
  <2>6. createCandidateBlock(n) => Moves("miner")
    BY DEF createCandidateBlock, In
  <2>7. stopMining(n) => Moves("miner")
    BY DEF stopMining, In, Idle
  <2>8. mineBlock(n) => Moves("miner")
    BY DEF mineBlock, In
  <2>9. \A h \in Goroutine : addTransaction(n, h) => Moves(h)
    BY DEF addTransaction, In, Idle
  <2>10. \A h \in Goroutine : removeInput(n, h) => Moves(h)
    BY DEF removeInput, In
  <2>11. \A h \in Goroutine : addOutput(n, h) => Moves(h)
    BY DEF addOutput, In
  <2> HIDE DEF Goal, Moves
  <2>12. Goal
    BY <2>0, <2>2, <2>3, <2>4, <2>5, <2>6, <2>7, <2>8, <2>9, <2>10, <2>11
    DEF StepOf, addBlockToBlockchain
  <2> QED BY <2>12 DEF Goal
<1> QED BY <1>1, <1>2 DEF ChainOf, PrintAllNonces, WalkClosed

\* The goroutine of n that adds blocks.
Worker(m, n) == thread[n][IF n = m THEN "miner" ELSE "listener"]

\* The invariant: m alone mines, its blocks have a history of entries that all
\* nodes follow, and what a node has stored is one chain that ends at its last block.
OneMinerInv(m) ==
  /\ Lone(m)
  /\ \E S : TraceInv(m, S)
  /\ \A n \in Node : ChainOf(n, Worker(m, n))

\* The block that is about to be stored extends the last one.
LEMMA OnTop ==
  ASSUME TypeOK, Places, NEW m \in Node, Lone(m), NEW S, TraceInv(m, S),
         NEW n \in Node, NEW g \in Goroutine, storeBlock(n, g)
  PROVE  thread[n][g].block.prev = lastHash[n]
<1>1. thread[n][g].pc = "add"
  BY DEF storeBlock, In
<1>2. (n = m /\ g = "miner") \/ (n # m /\ g = "listener")
  BY <1>1, LoneWorkers
<1>3. CASE n = m /\ g = "miner"
  BY <1>1, <1>3 DEF TraceInv, MinerOK, Miner
<1>4. CASE n # m /\ g = "listener"
  <2> DEFINE a == accepted[n][m]
             l == log[m]
  <2>1. /\ Listener(n).pc = "add" /\ Listener(n) = thread[n][g]
        /\ a < Len(l) /\ Listener(n).block = l[a + 1]
    BY <1>1, <1>4, LoneWorkers DEF Listener
  <2>2. a \in Nat /\ Len(l) \in Nat
    BY DEF TypeOK
  <2>3. FollowerOK(l, S, a, Listener(n), UTXOSet[n], lastHash[n]) /\ Trace(l, S)
    BY <1>4 DEF TraceInv, FollowerTrace
  <2> HIDE DEF a, l
  <2>4. a \in 0 .. Len(l) - 1 /\ (a = 0 \/ a \in 1 .. a)
    BY <2>1, <2>2
  <2>5. Good(l, S, a) /\ lastHash[n] = Top(l, a)
    BY <2>1, <2>3, <2>4 DEF FollowerOK, Good
  <2> QED BY <2>1, <2>3, <2>4, <2>5 DEF Trace
<1> QED BY <1>2, <1>3, <1>4

\* Every step leaves the stored blocks one chain.
LEMMA ChainStep ==
  ASSUME TypeOK, Places, NEW m \in Node, OneMinerInv(m), [Next]_cvars
  PROVE  \A n \in Node : ChainOf(n, Worker(m, n))'
<1>g. "miner" \in Goroutine /\ "listener" \in Goroutine
  BY DEF Goroutine
<1>0. PICK S : TraceInv(m, S)
  BY DEF OneMinerInv
<1>l. Lone(m) /\ \A n \in Node : ChainOf(n, Worker(m, n))
  BY DEF OneMinerInv
<1>1. ASSUME NEW k \in Node, StepOf(k), NEW n \in Node
      PROVE  ChainOf(n, Worker(m, n))'
  <2> DEFINE w == IF n = m THEN "miner" ELSE "listener"
  <2>0. w \in Goroutine /\ Worker(m, n) = thread[n][w] /\ Worker(m, n)' = thread'[n][w]
    BY <1>g DEF Worker
  <2>1. ChainOf(n, thread[n][w])
    BY <1>l, <2>0
  <2>2. Elsewhere(k)
    BY <1>1, StepsElsewhere
  <2>3. ASSUME NEW g \in Goroutine, storeBlock(n, g) \/ finishBlock(n, g)
        PROVE  g = w
    <3>1. thread[n][g].pc # "idle"
      BY <2>3 DEF storeBlock, finishBlock, In
    <3> QED BY <1>l, <3>1, LoneWorkers
  <2> HIDE DEF w
  <2>4. ChainOf(n, thread[n][w])'
    <3>1. CASE k # n
      <4>1. /\ thread'[n] = thread[n] /\ blocks'[n] = blocks[n]
            /\ lastHash'[n] = lastHash[n] /\ currentHeight'[n] = currentHeight[n]
        BY <2>2, <3>1 DEF Elsewhere
      <4> QED BY <2>1, <4>1 DEF ChainOf, PrintAllNonces, WalkClosed
    <3>2. CASE storeBlock(n, w)
      <4>1. thread[n][w].block.prev = lastHash[n]
        BY <1>0, <1>l, <2>0, <3>2, OnTop
      <4> QED BY <2>0, <2>1, <3>2, <4>1, StoreChain
    <3>3. CASE finishBlock(n, w)
      BY <2>0, <2>1, <3>3, FinishChain
    <3>4. CASE k = n /\ \A g \in Goroutine : ~storeBlock(n, g) /\ ~finishBlock(n, g)
      BY <1>1, <2>0, <2>1, <3>4, ChainRests
    <3> QED BY <2>3, <3>1, <3>2, <3>3, <3>4
  <2> QED BY <2>0, <2>4 DEF ChainOf
<1>2. ASSUME UNCHANGED <<UTXOSet, mempool, blocks, lastHash, currentHeight, log,
                         accepted, thread>>,
             NEW n \in Node
      PROVE  ChainOf(n, Worker(m, n))'
  <2>1. ChainOf(n, Worker(m, n))
    BY <1>l
  <2> QED BY <1>2, <2>1 DEF ChainOf, Worker, PrintAllNonces, WalkClosed
<1> QED BY <1>1, <1>2, StepCases

\* The genesis block is a chain.
LEMMA InitChain ==
  ASSUME Init, NEW m \in Node, NEW n \in Node
  PROVE  ChainOf(n, Worker(m, n))
<1>1. Worker(m, n) = Idle(n) /\ Idle(n).pc = "idle"
  BY DEF Init, Worker, Goroutine, Idle, At
<1>2. /\ blocks[n] = {Genesis} /\ lastHash[n] = HashOf(Genesis)
      /\ currentHeight[n] = 1
  BY DEF Init
<1>3. IsFiniteSet(blocks[n]) /\ Cardinality(blocks[n]) = 1
  BY <1>2, FS_Singleton
<1>4. Len(HashOf(Genesis)) <= Len(HashOf(Genesis))
  BY DEF HashOf, Genesis
<1>5. blocks[n] \subseteq PrintAllNonces(n)
  BY <1>2 DEF PrintAllNonces, WalkClosed
<1> QED BY <1>1, <1>2, <1>3, <1>4, <1>5 DEF ChainOf

\* With one miner, the invariant holds in every reachable state.
LEMMA OneMinerHolds ==
  ASSUME NEW m \in Node, \A n \in Node \ {m} : Sent[n] = {}
  PROVE  Spec => []OneMinerInv(m)
<1>1. Init => OneMinerInv(m)
  <2> SUFFICES ASSUME Init PROVE OneMinerInv(m)
    OBVIOUS
  <2>1. Lone(m) /\ TraceInv(m, <<>>)
    BY InitTrace
  <2>2. \A n \in Node : ChainOf(n, Worker(m, n))
    BY InitChain
  <2> QED BY <2>1, <2>2 DEF OneMinerInv
<1>2. TypeOK /\ Places /\ OneMinerInv(m) /\ [Next]_cvars => OneMinerInv(m)'
  <2> SUFFICES ASSUME TypeOK, Places, OneMinerInv(m), [Next]_cvars
               PROVE  OneMinerInv(m)'
    OBVIOUS
  <2>1. Lone(m) /\ \E S : TraceInv(m, S)
    BY DEF OneMinerInv
  <2>2. Lone(m)'
    BY <2>1, LoneStep
  <2>3. \E R : TraceInv(m, R)'
    BY <2>1, TraceStep
  <2>4. \A n \in Node : ChainOf(n, Worker(m, n))'
    BY ChainStep
  <2>5. (\E S : TraceInv(m, S))'
    BY <2>3
  <2> QED BY <2>2, <2>4, <2>5 DEF OneMinerInv
<1> QED BY <1>1, <1>2, TypeCorrect, PlacesHold, PTL DEF Spec

\* While one node mines, the walk of PrintAllNonces from the last block, parent by
\* parent, meets every block that a node has stored, while it adds one too.
THEOREM WalkCompleteHolds ==
  ASSUME OneMiner
  PROVE  Spec => []WalkComplete
<1>1. PICK m \in Node : \A n \in Node \ {m} : Sent[n] = {}
  BY DEF OneMiner
<1>2. OneMinerInv(m) => WalkComplete
  BY DEF OneMinerInv, ChainOf, WalkComplete
<1>3. Spec => []OneMinerInv(m)
  BY <1>1, OneMinerHolds
<1> QED BY <1>2, <1>3, PTL

\* While one node mines, n.currentHeight++ at the end of addBlockToBlockchain
\* leaves the number of stored blocks: no block is counted twice or forgotten.
THEOREM HeightCountsHolds ==
  ASSUME OneMiner
  PROVE  Spec => []HeightCounts
<1>1. PICK m \in Node : \A n \in Node \ {m} : Sent[n] = {}
  BY DEF OneMiner
<1>2. OneMinerInv(m) => HeightCounts
  <2> SUFFICES ASSUME OneMinerInv(m), NEW n \in Node,
                      \A g \in Goroutine : ~In(n, g, "count")
               PROVE  currentHeight[n] = Cardinality(blocks[n])
    BY DEF HeightCounts
  <2>1. Worker(m, n).pc # "count"
    BY DEF Worker, Goroutine, In
  <2> QED BY <2>1 DEF OneMinerInv, ChainOf
<1>3. Spec => []OneMinerInv(m)
  BY <1>1, OneMinerHolds
<1> QED BY <1>2, <1>3, PTL

\* While one node mines, the nodes that have accepted all its blocks have its
\* entries, whatever clients send it: a follower accepts only blocks that its
\* addBlockToBlockchain adds to the end, to entries the miner had before the block.
THEOREM ConvergedOneMiner ==
  ASSUME OneMiner
  PROVE  Spec => []Converged
<1>1. PICK m \in Node : \A n \in Node \ {m} : Sent[n] = {}
  BY DEF OneMiner
<1>2. TypeOK /\ OneMinerInv(m) => Converged
  <2> SUFFICES ASSUME TypeOK, OneMinerInv(m), Quiescent,
                      NEW f \in Node \ {m}
               PROVE  UTXOSet[f] = UTXOSet[m]
    BY DEF Converged
  <2> DEFINE l == log[m]
             K == Len(l)
  <2>1. PICK S : TraceInv(m, S)
    BY DEF OneMinerInv
  <2>2. accepted[f][m] = K /\ K \in Nat
    BY DEF Quiescent, TypeOK
  <2>3. Listener(f).pc = "idle" /\ Miner(m).pc = "idle"
    BY DEF Quiescent, Goroutine, In, Listener, Miner
  <2>4. FollowerOK(l, S, K, Listener(f), UTXOSet[f], lastHash[f])
    BY <2>1, <2>2 DEF TraceInv, FollowerTrace
  <2>5. MinerOK(l, S, Miner(m), UTXOSet[m], lastHash[m])
    BY <2>1 DEF TraceInv
  <2> HIDE DEF K
  <2>6. Good(l, S, K)
    <3>1. K = 0 \/ K \in 1 .. K
      BY <2>2
    <3> QED BY <2>4, <3>1 DEF FollowerOK, Good
  <2>7. UTXOSet[m] = Base(l, S, K)
    BY <2>3, <2>5, <2>6 DEF MinerOK, Adding, K
  <2>8. UTXOSet[f] = Base(l, S, K)
    <3>1. ~ (K < Len(l))
      BY <2>2 DEF K
    <3> QED BY <2>3, <2>4, <3>1 DEF FollowerOK, Adding
  <2> QED BY <2>7, <2>8
<1>3. Spec => []OneMinerInv(m)
  BY <1>1, OneMinerHolds
<1> QED BY <1>2, <1>3, TypeCorrect, PTL

-----------------------------------------------------------------------------
(* One line: what a node knows of the transactions. *)

\* The entries U of a node that has applied the transactions A and is between the
\* removal of the input and the addition of the output of the transactions P,
\* when the transactions V have been found valid and are not applied yet.
NodeInv(U, A, P, V) ==
  /\ A \in SUBSET AllTx /\ P \in SUBSET AllTx /\ V \in SUBSET AllTx /\ IsFiniteSet(U)
  /\ V \cap A = {} /\ V \cap P = {} /\ P \cap A = {}
  \* A domain has one entry, made by a transaction, and was claimed or revealed.
  /\ \A u, v \in U : u.domain = v.domain => u = v
  /\ \A u \in U : \E a \in A : a.output = u
  /\ \A a \in A : \E c \in A :
       c.type # "NameUpdate" /\ c.output.domain = a.output.domain
  \* What is valid stays valid; what is being applied holds its domain.
  /\ \A v \in V : Spends(v) => \E u \in U : Entry(u) = v.input
  /\ \A p \in P : Spends(p) /\ \A u \in U : u.domain # p.input.domain
  /\ \A p, q \in P : p.input.domain = q.input.domain => p = q
  /\ \A v \in V \cup P : v.type = "NameUpdate" => v.output.domain = v.input.domain
  \* An entry is there until it is spent, and was there when it was.
  /\ \A a \in A : \/ a.output \in U
                  \/ \E s \in A \cup P : Spends(s) /\ s # a /\ s.input = Entry(a.output)
  /\ \A u \in U : \A s \in A \cup P :
       Spends(s) /\ s.input = Entry(u) => s \in A /\ s.output = u
  /\ \A s \in A \cup P : Spends(s) => \E a \in A : a # s /\ Entry(a.output) = s.input
  \* Only claims add to the number of entries.
  /\ Cardinality(U) + Cardinality(P) <= Cardinality({a \in A : ~Spends(a)})

\* The sets of transactions and entries of a node are finite.
LEMMA FiniteTx ==
  ASSUME NEW A \in SUBSET AllTx
  PROVE  /\ IsFiniteSet(A) /\ Cardinality(A) \in Nat
         /\ IsFiniteSet({a \in A : ~Spends(a)})
         /\ Cardinality({a \in A : ~Spends(a)}) \in Nat
<1>1. IsFiniteSet(AllTx)
  BY NameChainAssumption DEF AllTx
<1>2. IsFiniteSet(A)
  BY <1>1, FS_Subset
<1>3. {a \in A : ~Spends(a)} \in SUBSET A
  OBVIOUS
<1>4. IsFiniteSet({a \in A : ~Spends(a)})
  BY <1>2, <1>3, FS_Subset
<1> QED BY <1>2, <1>4, FS_CardinalityType

\* Equal entries are of the same domain.
LEMMA EntryDomain ==
  ASSUME NEW u, NEW v, Entry(u) = Entry(v)
  PROVE  u.domain = v.domain
BY DEF Entry

\* One transaction less is still one line.
LEMMA Dropped ==
  ASSUME NEW U, NEW A, NEW P, NEW V, NEW W, NodeInv(U, A, P, V), W \subseteq V
  PROVE  NodeInv(U, A, P, W)
BY DEF NodeInv

\* A transaction is validated that has not been applied.
LEMMA NowValid ==
  ASSUME NEW U, NEW A, NEW P, NEW V, NodeInv(U, A, P, V),
         NEW v \in AllTx \ (A \cup P), NEW t, validateTransaction(U, v, t)
  PROVE  NodeInv(U, A, P, V \cup {v})
<1>1. Spends(v) => \E u \in U : u.domain = v.input.domain /\ u.owner = v.input.owner
  BY DEF validateTransaction, Spends, findUTXO
<1>2. Spends(v) => \E u \in U : Entry(u) = v.input
  <2>1. v.input \in [domain : Domain \cup {NoDomain}, owner : Owner]
    BY TxType DEF Transaction
  <2>2. v.input = [domain |-> v.input.domain, owner |-> v.input.owner]
    BY <2>1
  <2> HIDE DEF Spends
  <2> QED BY <1>1, <2>2 DEF Entry
<1>3. v.type = "NameUpdate" => v.output.domain = v.input.domain
  BY DEF validateTransaction, findUTXO
<1> QED BY <1>2, <1>3 DEF NodeInv

\* A claim or a reveal finds its domain free.
LEMMA FreeDomain ==
  ASSUME OneLine, NEW U, NEW A, NEW P, NEW V, NodeInv(U, A, P, V),
         NEW v \in V \cup P, v.type # "NameUpdate"
  PROVE  \A a \in A : a.output.domain # v.output.domain
<1> SUFFICES ASSUME NEW a \in A, a.output.domain = v.output.domain PROVE FALSE
  OBVIOUS
<1>1. PICK c \in A : c.type # "NameUpdate" /\ c.output.domain = v.output.domain
  BY DEF NodeInv
<1>2. v \in AllTx /\ c \in AllTx
  BY DEF NodeInv
<1>3. c = v
  BY <1>1, <1>2 DEF OneLine
<1> QED BY <1>1, <1>3 DEF NodeInv

\* A claim, or an output whose input is removed, finds no entry of its domain.
LEMMA NoClash ==
  ASSUME OneLine, NEW U, NEW A, NEW P, NEW V, NodeInv(U, A, P, V),
         NEW v \in V \cup P, v \in P \/ ~Spends(v)
  PROVE  \A u \in U : u.domain # v.output.domain
<1>1. v.type # "NameUpdate" => \A a \in A : a.output.domain # v.output.domain
  BY FreeDomain
<1>2. v.type = "NameUpdate" => v \in P /\ v.output.domain = v.input.domain
  BY DEF NodeInv, Spends
<1> QED BY <1>1, <1>2 DEF NodeInv

\* A claim is applied.
LEMMA Claimed ==
  ASSUME OneLine, NEW U, NEW A, NEW P, NEW V, NodeInv(U, A, P, V),
         NEW v \in V, ~Spends(v)
  PROVE  NodeInv(addUTXO(U, v.output), A \cup {v}, P, V \ {v})
<1> DEFINE T == U \cup {v.output}
           B == A \cup {v}
           W == V \ {v}
<1>0. v \in AllTx /\ v \notin A /\ v \notin P /\ v.type # "NameUpdate"
  BY DEF NodeInv, Spends
<1>1. \A a \in A : a.output.domain # v.output.domain
  BY <1>0, FreeDomain
<1>2. \A u \in U : u.domain # v.output.domain
  BY <1>1 DEF NodeInv
<1>3. addUTXO(U, v.output) = T /\ v.output \notin U
  BY <1>2 DEF addUTXO, removeUTXO
<1>4. /\ B \in SUBSET AllTx /\ P \in SUBSET AllTx /\ W \in SUBSET AllTx
      /\ W \cap B = {} /\ W \cap P = {} /\ P \cap B = {}
  BY <1>0 DEF NodeInv
<1>5. \A u, w \in T : u.domain = w.domain => u = w
  BY <1>2 DEF NodeInv
<1>6. \A u \in T : \E a \in B : a.output = u
  BY DEF NodeInv
<1>7. \A a \in B : \E c \in B : c.type # "NameUpdate" /\ c.output.domain = a.output.domain
  BY <1>0 DEF NodeInv
<1>8. \A w \in W : Spends(w) => \E u \in T : Entry(u) = w.input
  BY DEF NodeInv
<1>9. \A s \in A \cup P : Spends(s) => \E a \in A : a # s /\ Entry(a.output) = s.input
  BY DEF NodeInv
<1>10. \A s \in A \cup P : Spends(s) => /\ s.input.domain # v.output.domain
                                        /\ s.input # Entry(v.output)
  <2> TAKE s \in A \cup P
  <2> HAVE Spends(s)
  <2>1. PICK a \in A : Entry(a.output) = s.input
    BY <1>9
  <2>2. s.input.domain = a.output.domain /\ Entry(v.output).domain = v.output.domain
    BY <2>1 DEF Entry
  <2> QED BY <1>1, <2>2
<1>11. \A p \in P : Spends(p) /\ \A u \in T : u.domain # p.input.domain
  BY <1>10 DEF NodeInv
<1>12. \A a \in B : \/ a.output \in T
                    \/ \E s \in B \cup P : Spends(s) /\ s # a /\ s.input = Entry(a.output)
  BY DEF NodeInv
<1>13. \A u \in T : \A s \in B \cup P :
         Spends(s) /\ s.input = Entry(u) => s \in B /\ s.output = u
  BY <1>10 DEF NodeInv
<1>14. \A s \in B \cup P : Spends(s) => \E a \in B : a # s /\ Entry(a.output) = s.input
  BY <1>9
<1>15. /\ IsFiniteSet(T)
       /\ Cardinality(T) + Cardinality(P) <= Cardinality({a \in B : ~Spends(a)})
  <2> DEFINE C == {a \in A : ~Spends(a)}
  <2>1. {a \in B : ~Spends(a)} = C \cup {v} /\ v \notin C
    BY <1>0
  <2>2. IsFiniteSet(U) /\ Cardinality(U) + Cardinality(P) <= Cardinality(C)
        /\ IsFiniteSet(C) /\ Cardinality(C) \in Nat /\ Cardinality(P) \in Nat
    BY FiniteTx DEF NodeInv
  <2>3. Cardinality(U) \in Nat
    BY <2>2, FS_CardinalityType
  <2> HIDE DEF C
  <2>4. Cardinality(C \cup {v}) = Cardinality(C) + 1
    BY <2>1, <2>2, FS_AddElement
  <2>5. IsFiniteSet(T) /\ Cardinality(T) = Cardinality(U) + 1
    BY <1>3, <2>2, FS_AddElement
  <2>6. Cardinality(T) + Cardinality(P) <= Cardinality(C \cup {v})
    <3> HIDE DEF T
    <3> QED BY <2>2, <2>3, <2>4, <2>5
  <2> QED BY <2>1, <2>5, <2>6
<1>16. /\ \A p, q \in P : p.input.domain = q.input.domain => p = q
       /\ \A w \in W \cup P : w.type = "NameUpdate" => w.output.domain = w.input.domain
  BY DEF NodeInv
<1> HIDE DEF T, B, W
<1>17. NodeInv(T, B, P, W)
  BY <1>4, <1>5, <1>6, <1>7, <1>8, <1>11, <1>12, <1>13, <1>14, <1>15, <1>16 DEF NodeInv
<1> QED BY <1>3, <1>17 DEF B, W

\* The input of a transaction is removed.
LEMMA InputRemoved ==
  ASSUME OneLine, NEW U, NEW A, NEW P, NEW V, NodeInv(U, A, P, V),
         NEW v \in V, Spends(v)
  PROVE  NodeInv(removeUTXO(U, v.input.domain), A, P \cup {v}, V \ {v})
<1> DEFINE Q == P \cup {v}
           W == V \ {v}
<1>0. v \in AllTx /\ v \notin A /\ v \notin P
  BY DEF NodeInv
<1>1. PICK x \in U : Entry(x) = v.input
  BY DEF NodeInv
<1>2. x.domain = v.input.domain
  BY <1>1 DEF Entry
<1> DEFINE T == U \ {x}
<1>3. removeUTXO(U, v.input.domain) = T
  BY <1>2 DEF removeUTXO, NodeInv
<1>4. \A u \in T : u.domain # v.input.domain
  BY <1>2 DEF NodeInv
<1>5. /\ A \in SUBSET AllTx /\ Q \in SUBSET AllTx /\ W \in SUBSET AllTx
      /\ W \cap A = {} /\ W \cap Q = {} /\ Q \cap A = {}
  BY <1>0 DEF NodeInv
<1>6. /\ \A u, w \in T : u.domain = w.domain => u = w
      /\ \A u \in T : \E a \in A : a.output = u
      /\ \A a \in A :
           \E c \in A : c.type # "NameUpdate" /\ c.output.domain = a.output.domain
  BY DEF NodeInv
<1>7. ASSUME NEW w \in W, Spends(w) PROVE \E u \in T : Entry(u) = w.input
  <2>1. PICK u \in U : Entry(u) = w.input
    BY <1>7 DEF NodeInv
  <2>2. ASSUME u = x PROVE FALSE
    <3>1. w \in AllTx /\ w # v /\ w.input = v.input
      BY <1>1, <2>1, <2>2 DEF NodeInv
    <3> QED BY <1>0, <1>7, <3>1 DEF OneLine
  <2> QED BY <2>1, <2>2
<1>8. \A p \in Q : Spends(p) /\ \A u \in T : u.domain # p.input.domain
  BY <1>4 DEF NodeInv
<1>9. \A p, q \in Q : p.input.domain = q.input.domain => p = q
  <2>1. \A p \in P : p.input.domain # v.input.domain
    BY <1>2 DEF NodeInv
  <2> QED BY <2>1 DEF NodeInv
<1>10. \A w \in W \cup Q : w.type = "NameUpdate" => w.output.domain = w.input.domain
  BY DEF NodeInv
<1>11. \A a \in A : \/ a.output \in T
                    \/ \E s \in A \cup Q : Spends(s) /\ s # a /\ s.input = Entry(a.output)
  <2> TAKE a \in A
  <2>1. CASE a.output = x
    BY <1>0, <1>1, <2>1
  <2>2. CASE a.output # x
    BY <2>2 DEF NodeInv
  <2> QED BY <2>1, <2>2
<1>12. \A u \in T : \A s \in A \cup Q :
         Spends(s) /\ s.input = Entry(u) => s \in A /\ s.output = u
  <2>1. \A u \in T : v.input # Entry(u)
    BY <1>4 DEF Entry
  <2> QED BY <2>1 DEF NodeInv
<1>13. \A s \in A \cup Q : Spends(s) => \E a \in A : a # s /\ Entry(a.output) = s.input
  <2>1. PICK a \in A : a.output = x
    BY DEF NodeInv
  <2>2. a # v /\ Entry(a.output) = v.input
    BY <1>0, <1>1, <2>1
  <2> QED BY <2>2 DEF NodeInv
<1>14. /\ IsFiniteSet(T)
       /\ Cardinality(T) + Cardinality(Q) <= Cardinality({a \in A : ~Spends(a)})
  <2> DEFINE C == {a \in A : ~Spends(a)}
  <2>1. IsFiniteSet(U) /\ Cardinality(U) + Cardinality(P) <= Cardinality(C)
        /\ Cardinality(C) \in Nat /\ IsFiniteSet(P) /\ Cardinality(P) \in Nat
    BY FiniteTx DEF NodeInv
  <2>2. Cardinality(U) \in Nat
    BY <2>1, FS_CardinalityType
  <2> HIDE DEF C
  <2>3. Cardinality(Q) = Cardinality(P) + 1
    BY <1>0, <2>1, FS_AddElement
  <2>4. IsFiniteSet(T) /\ Cardinality(T) = Cardinality(U) - 1
    BY <2>1, FS_RemoveElement
  <2> HIDE DEF T, Q
  <2> QED BY <2>1, <2>2, <2>3, <2>4 DEF C
<1> HIDE DEF T, Q, W
<1>15. NodeInv(T, A, Q, W)
  BY <1>5, <1>6, <1>7, <1>8, <1>9, <1>10, <1>11, <1>12, <1>13, <1>14 DEF NodeInv
<1> QED BY <1>3, <1>15 DEF Q, W

\* The output of a transaction is added.
LEMMA OutputAdded ==
  ASSUME OneLine, NEW U, NEW A, NEW P, NEW V, NodeInv(U, A, P, V), NEW p \in P
  PROVE  NodeInv(addUTXO(U, p.output), A \cup {p}, P \ {p}, V)
<1> DEFINE T == U \cup {p.output}
           B == A \cup {p}
           Q == P \ {p}
<1>0. p \in AllTx /\ p \notin A /\ p \notin V /\ Spends(p)
  BY DEF NodeInv
<1>i. \A s \in A \cup P : Spends(s) => \E a \in A : a # s /\ Entry(a.output) = s.input
  BY DEF NodeInv
<1>f. p.type # "NameUpdate" => \A a \in A : a.output.domain # p.output.domain
  BY FreeDomain
<1>u. p.type = "NameUpdate" => p.output.domain = p.input.domain
  BY DEF NodeInv
<1>2. \A u \in U : u.domain # p.output.domain
  BY <1>f, <1>u DEF NodeInv
<1>3. addUTXO(U, p.output) = T /\ p.output \notin U
  BY <1>2 DEF addUTXO, removeUTXO
<1>4. /\ B \in SUBSET AllTx /\ Q \in SUBSET AllTx /\ V \in SUBSET AllTx
      /\ V \cap B = {} /\ V \cap Q = {} /\ Q \cap B = {}
  BY <1>0 DEF NodeInv
<1>5. \A u, w \in T : u.domain = w.domain => u = w
  BY <1>2 DEF NodeInv
<1>6. \A u \in T : \E a \in B : a.output = u
  BY DEF NodeInv
<1>7. \A a \in B : \E c \in B : c.type # "NameUpdate" /\ c.output.domain = a.output.domain
  <2>1. \A a \in A : \E c \in A :
          c.type # "NameUpdate" /\ c.output.domain = a.output.domain
    BY DEF NodeInv
  <2>2. \E c \in B : c.type # "NameUpdate" /\ c.output.domain = p.output.domain
    <3>1. CASE p.type # "NameUpdate"
      BY <3>1
    <3>2. CASE p.type = "NameUpdate"
      <4>1. PICK a \in A : Entry(a.output) = p.input
        BY <1>0, <1>i
      <4>2. a.output.domain = p.output.domain
        BY <1>u, <3>2, <4>1 DEF Entry
      <4> QED BY <2>1, <4>2
    <3> QED BY <3>1, <3>2
  <2> QED BY <2>1, <2>2
<1>8. \A w \in V : Spends(w) => \E u \in T : Entry(u) = w.input
  BY DEF NodeInv
<1>9. \A q \in Q : Spends(q) /\ \A u \in T : u.domain # q.input.domain
  <2>1. ASSUME NEW q \in Q, q.input.domain = p.output.domain PROVE FALSE
    <3>1. CASE p.type = "NameUpdate"
      BY <1>u, <2>1, <3>1 DEF NodeInv
    <3>2. CASE p.type # "NameUpdate"
      <4>1. Spends(q)
        BY DEF NodeInv
      <4>2. PICK a \in A : Entry(a.output) = q.input
        BY <1>i, <4>1
      <4> QED BY <1>f, <2>1, <3>2, <4>2 DEF Entry
    <3> QED BY <3>1, <3>2
  <2> QED BY <2>1 DEF NodeInv
<1>10. /\ \A q, r \in Q : q.input.domain = r.input.domain => q = r
       /\ \A w \in V \cup Q : w.type = "NameUpdate" => w.output.domain = w.input.domain
  BY DEF NodeInv
<1>11. \A a \in B : \/ a.output \in T
                    \/ \E s \in B \cup Q : Spends(s) /\ s # a /\ s.input = Entry(a.output)
  BY DEF NodeInv
<1>12. ASSUME NEW s \in A \cup P, Spends(s), s.input = Entry(p.output)
       PROVE  s = p
  <2> SUFFICES ASSUME s # p PROVE FALSE
    OBVIOUS
  <2>1. PICK a \in A : a # s /\ Entry(a.output) = Entry(p.output)
    BY <1>i, <1>12
  <2>2. a \in AllTx /\ s \in AllTx /\ a # p
    BY <1>0 DEF NodeInv
  <2>3. ~Renews(p)
    BY <1>0, <1>12, <2>2 DEF Renews, OneLine
  <2>4. ~Renews(a)
    BY <1>12, <2>1, <2>2 DEF Renews, OneLine
  <2> QED BY <1>0, <2>1, <2>2, <2>3, <2>4 DEF OneLine
<1>13. \A u \in T : \A s \in B \cup Q :
         Spends(s) /\ s.input = Entry(u) => s \in B /\ s.output = u
  BY <1>12 DEF NodeInv
<1>14. \A s \in B \cup Q : Spends(s) => \E a \in B : a # s /\ Entry(a.output) = s.input
  BY <1>i
<1>15. /\ IsFiniteSet(T)
       /\ Cardinality(T) + Cardinality(Q) <= Cardinality({a \in B : ~Spends(a)})
  <2> DEFINE C == {a \in A : ~Spends(a)}
  <2>1. {a \in B : ~Spends(a)} = C
    BY <1>0
  <2>2. IsFiniteSet(U) /\ Cardinality(U) + Cardinality(P) <= Cardinality(C)
        /\ Cardinality(C) \in Nat /\ IsFiniteSet(P) /\ Cardinality(P) \in Nat
    BY FiniteTx DEF NodeInv
  <2>3. Cardinality(U) \in Nat
    BY <2>2, FS_CardinalityType
  <2> HIDE DEF C
  <2>4. Cardinality(Q) = Cardinality(P) - 1
    BY <2>2, FS_RemoveElement
  <2>5. IsFiniteSet(T) /\ Cardinality(T) = Cardinality(U) + 1
    BY <1>3, <2>2, FS_AddElement
  <2>6. Cardinality(T) + Cardinality(Q) <= Cardinality(C)
    <3> HIDE DEF T, Q
    <3> QED BY <2>2, <2>3, <2>4, <2>5
  <2> QED BY <2>1, <2>5, <2>6
<1> HIDE DEF T, B, Q
<1>16. NodeInv(T, B, Q, V)
  BY <1>4, <1>5, <1>6, <1>7, <1>8, <1>9, <1>10, <1>11, <1>13, <1>14, <1>15 DEF NodeInv
<1> QED BY <1>3, <1>16 DEF B, Q

\* The applied transactions determine the entries.
LEMMA SameEntries ==
  ASSUME OneLine, NEW U1, NEW U2, NEW A, NEW V1, NEW V2,
         NodeInv(U1, A, {}, V1), NodeInv(U2, A, {}, V2), NEW u \in U1
  PROVE  u \in U2
<1>1. PICK a \in A : a.output = u
  BY DEF NodeInv
<1> SUFFICES ASSUME u \notin U2 PROVE FALSE
  OBVIOUS
<1>2. PICK s \in A : Spends(s) /\ s # a /\ s.input = Entry(u)
  BY <1>1 DEF NodeInv
<1>3. s.output = u
  BY <1>2 DEF NodeInv
<1>4. PICK r \in A : Spends(r) /\ r # s /\ r.input = Entry(u)
  BY <1>3 DEF NodeInv
<1>5. r \in AllTx /\ s \in AllTx
  BY DEF NodeInv
<1> QED BY <1>2, <1>4, <1>5 DEF OneLine

\* The transactions of its block that a goroutine has applied, the one whose input
\* it has removed, and those that it has found valid, or that were so when mined.
Passed(t) ==
  {t.block.txs[j] : j \in {j \in DOMAIN t.block.txs : Adding(t) /\ j < t.i}}
Putting(t) ==
  {t.block.txs[j] : j \in {j \in DOMAIN t.block.txs : t.pc = "put" /\ j = t.i}}
CheckedAt(t, j) ==
  \/ t.pc = "mine"
  \/ t.pc = "validate" /\ j < t.i
  \/ t.pc \in {"add", "remove", "count"} /\ j >= t.i
  \/ t.pc = "put" /\ j > t.i
Checked(t) ==
  {t.block.txs[j] : j \in {j \in DOMAIN t.block.txs : CheckedAt(t, j)}}

\* The entries of a node that has finished the transactions O, has the valid ones
\* M in its mempool, and whose goroutines are at t and x.
Ledger(U, O, M, t, x) ==
  NodeInv(U, O \cup Passed(t) \cup Passed(x), Putting(t) \cup Putting(x),
          M \cup Checked(t) \cup Checked(x))

\* A block holds a transaction once.
Distinct(b) == \A i, j \in DOMAIN b.txs : b.txs[i] = b.txs[j] => i = j

\* A goroutine in a block of transactions, at index i.
AtIndex(t) ==
  /\ t.block.txs \in Seq(AllTx) /\ t.i \in Nat /\ Distinct(t.block)

\* Which goroutine is called which does not matter.
LEMMA LedgerEither ==
  ASSUME NEW U, NEW O, NEW M, NEW t, NEW x, Ledger(U, O, M, t, x)
  PROVE  Ledger(U, O, M, x, t)
<1>1. /\ O \cup Passed(t) \cup Passed(x) = O \cup Passed(x) \cup Passed(t)
      /\ Putting(t) \cup Putting(x) = Putting(x) \cup Putting(t)
      /\ M \cup Checked(t) \cup Checked(x) = M \cup Checked(x) \cup Checked(t)
  OBVIOUS
<1> QED BY <1>1 DEF Ledger

\* All that a goroutine has done is of its block; between two blocks it is nothing.
LEMMA OfBlock ==
  ASSUME NEW t
  PROVE  /\ Passed(t) \subseteq TxsOf(t.block) /\ Putting(t) \subseteq TxsOf(t.block)
         /\ Checked(t) \subseteq TxsOf(t.block)
         /\ t.pc = "idle" => Passed(t) = {} /\ Putting(t) = {} /\ Checked(t) = {}
         /\ ~Adding(t) => Passed(t) = {} /\ Putting(t) = {}
         /\ t.pc = "mine" => Checked(t) = TxsOf(t.block)
BY DEF Passed, Putting, Checked, CheckedAt, TxsOf, Adding

\* A goroutine that does something else with its transactions.
LEMMA SameWork ==
  ASSUME NEW U, NEW O, NEW M, NEW t, NEW x, NEW w, Ledger(U, O, M, t, x),
         Passed(w) = Passed(t), Putting(w) = Putting(t), Checked(w) \subseteq Checked(t)
  PROVE  Ledger(U, O, M, w, x)
<1>1. M \cup Checked(w) \cup Checked(x) \subseteq M \cup Checked(t) \cup Checked(x)
  OBVIOUS
<1> QED BY <1>1, Dropped DEF Ledger

\* A claim is added.
LEMMA LedgerClaim ==
  ASSUME OneLine, NEW U, NEW O, NEW M, NEW t, NEW x, NEW w, Ledger(U, O, M, t, x),
         AtIndex(t), t.pc = "add", t.i \in DOMAIN t.block.txs,
         ~Spends(t.block.txs[t.i]),
         t.block.txs[t.i] \notin M, t.block.txs[t.i] \notin Checked(x),
         w.pc = "add", w.block = t.block, w.i = t.i + 1
  PROVE  Ledger(addUTXO(U, t.block.txs[t.i].output), O, M, w, x)
<1> DEFINE tx == t.block.txs[t.i]
           txs == t.block.txs
<1>1. DOMAIN txs = 1 .. Len(txs) /\ Len(txs) \in Nat /\ t.i \in Nat
  BY LenProperties DEF AtIndex
<1>2. Passed(w) = Passed(t) \cup {tx}
  <2>1. \A j \in DOMAIN txs : j < w.i <=> j < t.i \/ j = t.i
    BY <1>1
  <2> QED BY <2>1 DEF Passed, Adding
<1>3. Putting(w) = {} /\ Putting(t) = {}
  BY DEF Putting
<1>4. Checked(w) \subseteq Checked(t) \ {tx} /\ tx \in Checked(t)
  <2>1. \A j \in DOMAIN txs : j >= w.i => j >= t.i /\ j # t.i
    BY <1>1
  <2>2. \A j \in DOMAIN txs : CheckedAt(w, j) <=> j >= w.i
    BY DEF CheckedAt
  <2>3. \A j \in DOMAIN txs : CheckedAt(t, j) <=> j >= t.i
    BY DEF CheckedAt
  <2>4. \A j \in DOMAIN txs : j # t.i => txs[j] # tx
    BY DEF AtIndex, Distinct
  <2>5. t.i >= t.i
    BY <1>1
  <2> QED BY <2>1, <2>2, <2>3, <2>4, <2>5 DEF Checked
<1> DEFINE A == O \cup Passed(t) \cup Passed(x)
           P == Putting(t) \cup Putting(x)
           V == M \cup Checked(t) \cup Checked(x)
<1>5. NodeInv(addUTXO(U, tx.output), A \cup {tx}, P, V \ {tx})
  <2>1. NodeInv(U, A, P, V) /\ tx \in V
    BY <1>4 DEF Ledger
  <2> HIDE DEF A, P, V, tx
  <2>2. ~Spends(tx)
    BY DEF tx
  <2> QED BY <2>1, <2>2, Claimed
<1>6. /\ O \cup Passed(w) \cup Passed(x) = A \cup {tx}
      /\ Putting(w) \cup Putting(x) = P
  BY <1>2, <1>3
<1>7. M \cup Checked(w) \cup Checked(x) \subseteq V \ {tx}
  BY <1>4
<1> HIDE DEF A, P, V, tx
<1>8. NodeInv(addUTXO(U, tx.output), A \cup {tx}, P, M \cup Checked(w) \cup Checked(x))
  BY <1>5, <1>7, Dropped
<1>9. Ledger(addUTXO(U, tx.output), O, M, w, x)
  BY <1>6, <1>8 DEF Ledger
<1> QED BY <1>9 DEF tx

\* An input is removed.
LEMMA LedgerRemove ==
  ASSUME OneLine, NEW U, NEW O, NEW M, NEW t, NEW x, NEW w, Ledger(U, O, M, t, x),
         AtIndex(t), t.pc = "remove", t.i \in DOMAIN t.block.txs,
         Spends(t.block.txs[t.i]),
         t.block.txs[t.i] \notin M, t.block.txs[t.i] \notin Checked(x),
         w.pc = "put", w.block = t.block, w.i = t.i
  PROVE  Ledger(removeUTXO(U, t.block.txs[t.i].input.domain), O, M, w, x)
<1> DEFINE tx == t.block.txs[t.i]
           txs == t.block.txs
<1>1. DOMAIN txs = 1 .. Len(txs) /\ Len(txs) \in Nat /\ t.i \in Nat
  BY LenProperties DEF AtIndex
<1>2. Passed(w) = Passed(t)
  BY DEF Passed, Adding
<1>3. Putting(w) = {tx} /\ Putting(t) = {}
  BY DEF Putting
<1>4. Checked(w) \subseteq Checked(t) \ {tx} /\ tx \in Checked(t)
  <2>1. \A j \in DOMAIN txs : j > t.i => j >= t.i /\ j # t.i
    BY <1>1
  <2>2. \A j \in DOMAIN txs : CheckedAt(w, j) <=> j > t.i
    BY DEF CheckedAt
  <2>3. \A j \in DOMAIN txs : CheckedAt(t, j) <=> j >= t.i
    BY DEF CheckedAt
  <2>4. \A j \in DOMAIN txs : j # t.i => txs[j] # tx
    BY DEF AtIndex, Distinct
  <2>5. t.i >= t.i
    BY <1>1
  <2> QED BY <2>1, <2>2, <2>3, <2>4, <2>5 DEF Checked
<1> DEFINE A == O \cup Passed(t) \cup Passed(x)
           P == Putting(t) \cup Putting(x)
           V == M \cup Checked(t) \cup Checked(x)
<1>5. NodeInv(removeUTXO(U, tx.input.domain), A, P \cup {tx}, V \ {tx})
  <2>1. NodeInv(U, A, P, V) /\ tx \in V
    BY <1>4 DEF Ledger
  <2> HIDE DEF A, P, V, tx
  <2>2. Spends(tx)
    BY DEF tx
  <2> QED BY <2>1, <2>2, InputRemoved
<1>6. /\ O \cup Passed(w) \cup Passed(x) = A
      /\ Putting(w) \cup Putting(x) = P \cup {tx}
  BY <1>2, <1>3
<1>7. M \cup Checked(w) \cup Checked(x) \subseteq V \ {tx}
  BY <1>4
<1> HIDE DEF A, P, V, tx
<1>8. NodeInv(removeUTXO(U, tx.input.domain), A, P \cup {tx},
              M \cup Checked(w) \cup Checked(x))
  BY <1>5, <1>7, Dropped
<1>9. Ledger(removeUTXO(U, tx.input.domain), O, M, w, x)
  BY <1>6, <1>8 DEF Ledger
<1> QED BY <1>9 DEF tx

\* An output is added.
LEMMA LedgerPut ==
  ASSUME OneLine, NEW U, NEW O, NEW M, NEW t, NEW x, NEW w, Ledger(U, O, M, t, x),
         AtIndex(t), t.pc = "put", t.i \in DOMAIN t.block.txs,
         t.block.txs[t.i] \notin Putting(x),
         w.pc = "add", w.block = t.block, w.i = t.i + 1
  PROVE  Ledger(addUTXO(U, t.block.txs[t.i].output), O, M, w, x)
<1> DEFINE tx == t.block.txs[t.i]
           txs == t.block.txs
<1>1. DOMAIN txs = 1 .. Len(txs) /\ Len(txs) \in Nat /\ t.i \in Nat
  BY LenProperties DEF AtIndex
<1>2. Passed(w) = Passed(t) \cup {tx}
  <2>1. \A j \in DOMAIN txs : j < w.i <=> j < t.i \/ j = t.i
    BY <1>1
  <2> QED BY <2>1 DEF Passed, Adding
<1>3. Putting(w) = {} /\ Putting(t) = {tx}
  BY DEF Putting
<1>4. Checked(w) = Checked(t)
  <2>1. \A j \in DOMAIN txs : j >= w.i <=> j > t.i
    BY <1>1
  <2>2. \A j \in DOMAIN txs : CheckedAt(w, j) <=> j >= w.i
    BY DEF CheckedAt
  <2>3. \A j \in DOMAIN txs : CheckedAt(t, j) <=> j > t.i
    BY DEF CheckedAt
  <2>4. \A j \in DOMAIN txs : CheckedAt(w, j) <=> CheckedAt(t, j)
    BY <2>1, <2>2, <2>3
  <2> QED BY <2>4 DEF Checked
<1> DEFINE A == O \cup Passed(t) \cup Passed(x)
           P == Putting(t) \cup Putting(x)
           V == M \cup Checked(t) \cup Checked(x)
<1>5. NodeInv(addUTXO(U, tx.output), A \cup {tx}, P \ {tx}, V)
  <2>1. NodeInv(U, A, P, V) /\ tx \in P
    BY <1>3 DEF Ledger
  <2> HIDE DEF A, P, V, tx
  <2> QED BY <2>1, OutputAdded
<1>6. /\ O \cup Passed(w) \cup Passed(x) = A \cup {tx}
      /\ Putting(w) \cup Putting(x) = P \ {tx}
      /\ M \cup Checked(w) \cup Checked(x) = V
  BY <1>2, <1>3, <1>4
<1> HIDE DEF A, P, V, tx
<1>9. Ledger(addUTXO(U, tx.output), O, M, w, x)
  BY <1>5, <1>6 DEF Ledger
<1> QED BY <1>9 DEF tx

\* A block is finished.
LEMMA LedgerFinish ==
  ASSUME NEW U, NEW O, NEW M, NEW t, NEW x, NEW w, NEW L, Ledger(U, O, M, t, x),
         AtIndex(t), t.pc = "count", t.i = Len(t.block.txs) + 1, w.pc = "idle",
         L \subseteq M
  PROVE  Ledger(U, O \cup TxsOf(t.block), L, w, x)
<1> DEFINE txs == t.block.txs
<1>1. DOMAIN txs = 1 .. Len(txs) /\ Len(txs) \in Nat
  BY LenProperties DEF AtIndex
<1>2. Passed(t) = TxsOf(t.block)
  <2>1. \A j \in DOMAIN txs : j < t.i
    BY <1>1
  <2> QED BY <2>1 DEF Passed, Adding, TxsOf
<1>3. Putting(t) = {} /\ Passed(w) = {} /\ Putting(w) = {} /\ Checked(w) = {}
  BY OfBlock DEF Putting
<1>4. /\ O \cup TxsOf(t.block) \cup Passed(w) \cup Passed(x)
           = O \cup Passed(t) \cup Passed(x)
      /\ Putting(w) \cup Putting(x) = Putting(t) \cup Putting(x)
      /\ L \cup Checked(w) \cup Checked(x) \subseteq M \cup Checked(t) \cup Checked(x)
  BY <1>2, <1>3
<1> QED BY <1>4, Dropped DEF Ledger

\* A transaction of a block is validated.
LEMMA LedgerValid ==
  ASSUME NEW U, NEW O, NEW M, NEW t, NEW x, NEW w, NEW c, Ledger(U, O, M, t, x),
         AtIndex(t), t.pc = "validate", t.i \in DOMAIN t.block.txs,
         validateTransaction(U, t.block.txs[t.i], c),
         t.block.txs[t.i] \notin O \cup Passed(x) \cup Putting(x),
         w.pc = "validate", w.block = t.block, w.i = t.i + 1
  PROVE  Ledger(U, O, M, w, x)
<1> DEFINE tx == t.block.txs[t.i]
           txs == t.block.txs
<1>1. DOMAIN txs = 1 .. Len(txs) /\ Len(txs) \in Nat /\ t.i \in Nat /\ tx \in AllTx
  BY LenProperties DEF AtIndex
<1>2. Passed(w) = {} /\ Putting(w) = {} /\ Passed(t) = {} /\ Putting(t) = {}
  BY OfBlock DEF Adding
<1>3. Checked(w) = Checked(t) \cup {tx}
  <2>1. \A j \in DOMAIN txs : j < w.i <=> j < t.i \/ j = t.i
    BY <1>1
  <2>2. \A j \in DOMAIN txs : CheckedAt(w, j) <=> j < w.i
    BY DEF CheckedAt
  <2>3. \A j \in DOMAIN txs : CheckedAt(t, j) <=> j < t.i
    BY DEF CheckedAt
  <2>4. \A j \in DOMAIN txs : CheckedAt(w, j) <=> CheckedAt(t, j) \/ j = t.i
    BY <2>1, <2>2, <2>3
  <2> QED BY <2>4 DEF Checked
<1> DEFINE A == O \cup Passed(t) \cup Passed(x)
           P == Putting(t) \cup Putting(x)
           V == M \cup Checked(t) \cup Checked(x)
<1>4. NodeInv(U, A, P, V \cup {tx})
  <2>1. NodeInv(U, A, P, V) /\ tx \in AllTx \ (A \cup P)
    BY <1>1, <1>2 DEF Ledger
  <2> HIDE DEF A, P, V, tx
  <2>2. validateTransaction(U, tx, c)
    BY DEF tx
  <2> QED BY <2>1, <2>2, NowValid
<1>5. /\ O \cup Passed(w) \cup Passed(x) = A
      /\ Putting(w) \cup Putting(x) = P
      /\ M \cup Checked(w) \cup Checked(x) = V \cup {tx}
  BY <1>2, <1>3
<1> QED BY <1>4, <1>5 DEF Ledger

\* All transactions of a block have been validated: it is added.
LEMMA LedgerAllValid ==
  ASSUME NEW U, NEW O, NEW M, NEW t, NEW x, NEW w, Ledger(U, O, M, t, x),
         AtIndex(t), (t.pc = "validate" /\ t.i = Len(t.block.txs) + 1) \/ t.pc = "mine",
         w.pc = "add", w.block = t.block, w.i = 1
  PROVE  Ledger(U, O, M, w, x)
<1> DEFINE txs == t.block.txs
<1>1. DOMAIN txs = 1 .. Len(txs) /\ Len(txs) \in Nat
  BY LenProperties DEF AtIndex
<1>2. Passed(t) = {} /\ Putting(t) = {}
  BY OfBlock DEF Adding
<1>3. Passed(w) = {} /\ Putting(w) = {}
  <2>1. \A j \in DOMAIN txs : ~(j < w.i)
    BY <1>1
  <2> QED BY <2>1 DEF Passed, Putting
<1>4. Checked(w) = Checked(t)
  <2>1. \A j \in DOMAIN txs : j >= w.i /\ j < Len(txs) + 1
    BY <1>1
  <2>2. \A j \in DOMAIN txs : CheckedAt(t, j) /\ CheckedAt(w, j)
    BY <2>1 DEF CheckedAt
  <2> QED BY <2>2 DEF Checked
<1> QED BY <1>2, <1>3, <1>4, SameWork

\* How many blocks of o node n has added, and their transactions.
Finished(n, o) ==
  IF o # n THEN accepted[n][o]
  ELSE IF Adding(Miner(n)) THEN Len(log[n]) - 1 ELSE Len(log[n])
Old(n) ==
  {tx \in AllTx : \E o \in Node : \E k \in 1 .. Finished(n, o) : tx \in TxsOf(log[o][k])}

\* What n has still to mine, and what it knows.
Fresh(n) == mempool[n] \ Mined
Local(n) == Ledger(UTXOSet[n], Old(n), Fresh(n), Miner(n), Listener(n))

\* A transaction is mined once, by the node it was sent to; it leaves the mempool
\* when its block is added.
Books ==
  /\ \A o \in Node : mempool[o] \subseteq Sent[o]
  /\ \A o \in Node : \A k \in 1 .. Len(log[o]) :
       TxsOf(log[o][k]) \subseteq Sent[o] /\ Distinct(log[o][k])
  /\ \A o \in Node : \A j, k \in 1 .. Len(log[o]) :
       j # k => TxsOf(log[o][j]) \cap TxsOf(log[o][k]) = {}
  /\ \A n \in Node : Miner(n).pc = "mine" =>
       Distinct(Miner(n).block) /\ TxsOf(Miner(n).block) \subseteq Sent[n] \ Mined
  /\ \A n \in Node : mempool[n] \cap Mined \subseteq
       IF Adding(Miner(n)) THEN TxsOf(Miner(n).block) ELSE {}

\* The transactions of the blocks of the logs.
LEMMA MinedIs ==
  ASSUME TypeOK, NEW tx
  PROVE  tx \in Mined <=>
           \E o \in Node : \E k \in 1 .. Len(log[o]) : tx \in TxsOf(log[o][k])
<1>1. \A o \in Node : DOMAIN log[o] = 1 .. Len(log[o])
  BY LenProperties DEF TypeOK
<1> QED BY <1>1 DEF Mined

\* The other goroutine.
Other(g) == IF g = "listener" THEN "miner" ELSE "listener"

\* A node in the eyes of either goroutine.
LEMMA LocalOf ==
  ASSUME NEW n \in Node, NEW g \in Goroutine
  PROVE  Local(n) <=>
           Ledger(UTXOSet[n], Old(n), Fresh(n), thread[n][g], thread[n][Other(g)])
<1>1. CASE g = "miner"
  BY <1>1 DEF Local, Miner, Listener, Other
<1>2. CASE g = "listener"
  BY <1>2, LedgerEither DEF Local, Miner, Listener, Other
<1> QED BY <1>1, <1>2 DEF Goroutine

\* A node has finished blocks of the logs.
LEMMA FinishedLogs ==
  ASSUME TypeOK, Places, NEW n \in Node
  PROVE  /\ \A o \in Node : Finished(n, o) \in Nat /\ Finished(n, o) <= Len(log[o])
                              /\ Len(log[o]) \in Nat
         /\ Old(n) \subseteq Mined
<1>1. ASSUME NEW o \in Node
      PROVE  Finished(n, o) \in Nat /\ Finished(n, o) <= Len(log[o]) /\ Len(log[o]) \in Nat
  <2>1. log[o] \in Seq(Block) /\ accepted[n][o] \in Nat /\ accepted[n][o] <= Len(log[o])
    BY DEF TypeOK, Places
  <2>2. Len(log[o]) \in Nat /\ (log[o] # <<>> => Len(log[o]) > 0)
    BY <2>1
  <2>3. Adding(Miner(n)) => log[n] # <<>>
    BY DEF Places, MinerPlace
  <2>4. CASE o # n
    BY <2>1, <2>2, <2>4 DEF Finished
  <2>5. CASE o = n /\ Adding(Miner(n))
    <3>1. Finished(n, o) = Len(log[o]) - 1 /\ Len(log[o]) > 0
      BY <2>2, <2>3, <2>5 DEF Finished
    <3> QED BY <2>2, <3>1
  <2>6. CASE o = n /\ ~Adding(Miner(n))
    BY <2>2, <2>6 DEF Finished
  <2> QED BY <2>4, <2>5, <2>6
<1>2. ASSUME NEW tx \in Old(n) PROVE tx \in Mined
  <2>1. PICK o \in Node : \E k \in 1 .. Finished(n, o) : tx \in TxsOf(log[o][k])
    BY <1>2 DEF Old
  <2>2. PICK k \in 1 .. Finished(n, o) : tx \in TxsOf(log[o][k])
    BY <2>1
  <2>3. k \in 1 .. Len(log[o])
    BY <1>1
  <2> QED BY <2>2, <2>3, MinedIs
<1> QED BY <1>1, <1>2

\* The block a goroutine works on.
LEMMA BlockOf ==
  ASSUME OneLine, TypeOK, Places, Books, NEW n \in Node, NEW g \in Goroutine,
         thread[n][g].pc # "idle"
  PROVE  LET t == thread[n][g]
         IN  /\ AtIndex(t)
             /\ t.pc # "mine" =>
                  TxsOf(t.block) \subseteq Mined /\ TxsOf(t.block) \cap Fresh(n) = {}
             /\ g = "miner" => TxsOf(t.block) \subseteq Sent[n]
             /\ g = "listener" =>
                  TxsOf(t.block) \cap Sent[n] = {} /\ TxsOf(t.block) \cap Old(n) = {}
<1> DEFINE t == thread[n][g]
<1>1. t.block.txs \in Seq(AllTx) /\ t.i \in Nat
  BY ThreadTypes
<1>s. \A o, p \in Node : o # p => Sent[o] \cap Sent[p] = {}
  BY DEF OneLine
<1>2. CASE g = "miner" /\ t.pc = "mine"
  <2>1. Distinct(t.block) /\ TxsOf(t.block) \subseteq Sent[n]
    BY <1>2 DEF Books, Miner
  <2> QED BY <1>1, <1>2, <2>1 DEF AtIndex
<1>3. CASE g = "miner" /\ t.pc # "mine"
  <2> DEFINE K == Len(log[n])
  <2>1. Adding(t)
    <3>1. t \in Thread /\ t.pc # "validate"
      BY <1>3, ThreadTypes DEF Places, MinerPlace, Miner
    <3> QED BY <1>3, <3>1 DEF Thread, Adding
  <2>2. log[n] # <<>> /\ t.block = log[n][K] /\ log[n] \in Seq(Block)
    BY <1>3, <2>1 DEF Places, MinerPlace, Miner, TypeOK
  <2>3. K \in 1 .. K
    BY <2>2
  <2>4. TxsOf(t.block) \subseteq Sent[n] /\ Distinct(t.block)
    BY <2>2, <2>3 DEF Books
  <2>5. TxsOf(t.block) \subseteq Mined
    BY <2>2, <2>3, MinedIs
  <2> QED BY <1>1, <1>3, <2>4, <2>5 DEF AtIndex, Fresh
<1>4. CASE g = "listener"
  <2> DEFINE o == t.from
             a == accepted[n][o]
  <2>1. o \in Node \ {n} /\ a < Len(log[o]) /\ t.block = log[o][a + 1]
    BY <1>4 DEF Places, ListenerPlace, Listener
  <2>2. a \in Nat /\ Len(log[o]) \in Nat
    BY <2>1 DEF TypeOK
  <2> HIDE DEF o, a
  <2>3. a + 1 \in 1 .. Len(log[o])
    BY <2>1, <2>2
  <2>4. TxsOf(t.block) \subseteq Sent[o] /\ Distinct(t.block)
    BY <2>1, <2>3 DEF Books
  <2>5. TxsOf(t.block) \subseteq Mined
    BY <2>1, <2>3, MinedIs
  <2>6. TxsOf(t.block) \cap Sent[n] = {}
    BY <1>s, <2>1, <2>4
  <2>7. ASSUME NEW tx \in TxsOf(t.block), tx \in Old(n) PROVE FALSE
    <3>1. PICK p \in Node : \E k \in 1 .. Finished(n, p) : tx \in TxsOf(log[p][k])
      BY <2>7 DEF Old
    <3>2. PICK k \in 1 .. Finished(n, p) : tx \in TxsOf(log[p][k])
      BY <3>1
    <3>3. k \in 1 .. Len(log[p])
      BY FinishedLogs
    <3>4. tx \in Sent[p] /\ tx \in Sent[o]
      BY <2>4, <2>7, <3>2, <3>3 DEF Books
    <3>5. p = o
      BY <1>s, <2>1, <3>4
    <3>6. Finished(n, p) = a
      BY <2>1, <3>5 DEF Finished, a
    <3>7. k # a + 1
      BY <2>2, <3>6
    <3> QED BY <2>1, <2>3, <2>7, <3>2, <3>3, <3>5, <3>7 DEF Books
  <2> QED BY <1>1, <1>4, <2>4, <2>5, <2>6, <2>7 DEF AtIndex, Fresh
<1> QED BY <1>2, <1>3, <1>4 DEF Goroutine

\* The other goroutine works on other transactions.
LEMMA OtherBlock ==
  ASSUME OneLine, TypeOK, Places, Books, NEW n \in Node, NEW g \in Goroutine,
         thread[n][g].pc # "idle"
  PROVE  LET t == thread[n][g]
             x == thread[n][Other(g)]
         IN  \A tx \in TxsOf(t.block) :
               tx \notin Passed(x) /\ tx \notin Putting(x) /\ tx \notin Checked(x)
<1> DEFINE t == thread[n][g]
           x == thread[n][Other(g)]
<1>1. Other(g) \in Goroutine /\ {g, Other(g)} = {"miner", "listener"}
  BY DEF Other, Goroutine
<1>2. CASE x.pc = "idle"
  BY <1>2, OfBlock
<1>3. CASE x.pc # "idle"
  <2>1. TxsOf(t.block) \cap TxsOf(x.block) = {}
    <3>1. CASE g = "miner" /\ Other(g) = "listener"
      BY <1>1, <1>3, <3>1, BlockOf
    <3>2. CASE g = "listener" /\ Other(g) = "miner"
      BY <1>1, <1>3, <3>2, BlockOf
    <3> QED BY <3>1, <3>2 DEF Goroutine, Other
  <2> QED BY <2>1, OfBlock
<1> QED BY <1>2, <1>3

\* The input of a transaction that is being added is still there: nothing fails.
LEMMA NothingFails ==
  ASSUME OneLine, TypeOK, Places, Books, NEW n \in Node, Local(n), NEW g \in Goroutine,
         In(n, g, "add"), thread[n][g].i \in DOMAIN thread[n][g].block.txs,
         Spends(thread[n][g].block.txs[thread[n][g].i])
  PROVE  findUTXO(UTXOSet[n], thread[n][g].block.txs[thread[n][g].i].input) # {}
<1> DEFINE t == thread[n][g]
           x == thread[n][Other(g)]
           tx == t.block.txs[t.i]
           V == Fresh(n) \cup Checked(t) \cup Checked(x)
<1>1. t.pc = "add" /\ AtIndex(t)
  BY BlockOf DEF In
<1>2. tx \in Checked(t)
  <2>1. t.i >= t.i
    BY <1>1 DEF AtIndex
  <2> QED BY <1>1, <2>1 DEF Checked, CheckedAt
<1>3. NodeInv(UTXOSet[n], Old(n) \cup Passed(t) \cup Passed(x),
              Putting(t) \cup Putting(x), V)
  BY LocalOf DEF Ledger
<1>4. tx \in V /\ Spends(tx)
  BY <1>2
<1> HIDE DEF tx, V
<1>5. PICK u \in UTXOSet[n] : Entry(u) = tx.input
  BY <1>3, <1>4 DEF NodeInv
<1>6. u.domain = tx.input.domain /\ u.owner = tx.input.owner
  BY <1>5 DEF Entry
<1>7. u \in findUTXO(UTXOSet[n], tx.input)
  BY <1>6 DEF findUTXO
<1> QED BY <1>7 DEF tx

\* A step of n that mines nothing keeps the books when n keeps its own.
LEMMA BooksKept ==
  ASSUME Books, NEW n \in Node, Elsewhere(n), log' = log,
         mempool'[n] \subseteq Sent[n],
         Miner(n)'.pc = "mine" =>
           /\ Distinct(Miner(n)'.block)
           /\ TxsOf(Miner(n)'.block) \subseteq Sent[n] \ Mined,
         mempool'[n] \cap Mined \subseteq
           IF Adding(Miner(n)') THEN TxsOf(Miner(n)'.block) ELSE {}
  PROVE  Books'
<1>1. Mined' = Mined
  BY DEF Mined
<1>2. \A k \in Node \ {n} : mempool'[k] = mempool[k] /\ Miner(k)' = Miner(k)
  BY DEF Elsewhere, Miner
<1>3. \A o \in Node : mempool'[o] \subseteq Sent[o]
  BY <1>2 DEF Books
<1>4. /\ \A o \in Node : \A k \in 1 .. Len(log'[o]) :
           TxsOf(log'[o][k]) \subseteq Sent[o] /\ Distinct(log'[o][k])
      /\ \A o \in Node : \A j, k \in 1 .. Len(log'[o]) :
           j # k => TxsOf(log'[o][j]) \cap TxsOf(log'[o][k]) = {}
  BY DEF Books
<1>5. \A k \in Node : Miner(k)'.pc = "mine" =>
        Distinct(Miner(k)'.block) /\ TxsOf(Miner(k)'.block) \subseteq Sent[k] \ Mined'
  BY <1>1, <1>2 DEF Books
<1>6. \A k \in Node : mempool'[k] \cap Mined' \subseteq
        IF Adding(Miner(k)') THEN TxsOf(Miner(k)'.block) ELSE {}
  <2>1. ASSUME NEW k \in Node \ {n}
        PROVE  mempool'[k] \cap Mined' \subseteq
                 IF Adding(Miner(k)') THEN TxsOf(Miner(k)'.block) ELSE {}
    BY <1>1, <1>2 DEF Books
  <2> QED BY <1>1, <2>1
<1> QED BY <1>3, <1>4, <1>5, <1>6 DEF Books, Distinct, TxsOf, Adding

\* The books are kept when a block is mined.
LEMMA BooksMine ==
  ASSUME OneLine, TypeOK, Places, Books, [Next]_cvars, NEW n \in Node, mineBlock(n)
  PROVE  /\ Books' /\ Mined' = Mined \cup TxsOf(Miner(n).block)
         /\ log'[n] = Append(log[n], Miner(n).block)
<1> DEFINE t == Miner(n)
           v == At("add", n, t.block, 1, 0)
           K == Len(log[n])
<1>g. "miner" \in Goroutine
  BY DEF Goroutine
<1>s. \A o, p \in Node : o # p => Sent[o] \cap Sent[p] = {}
  BY DEF OneLine
<1>1. v.pc = "add" /\ v.block = t.block /\ Adding(v)
  BY AtFields DEF Adding
<1>2. /\ Becomes(n, "miner", v) /\ t.pc = "mine" /\ UNCHANGED mempool
      /\ log' = [log EXCEPT ![n] = Append(log[n], t.block)]
  BY DEF mineBlock, In, Miner
<1> HIDE DEF v
<1>3. Miner(n)' = v /\ \A k \in Node \ {n} : Miner(k)' = Miner(k)
  BY <1>g, <1>2, OneMoves DEF Miner
<1>4. /\ log[n] \in Seq(Block) /\ log'[n] = Append(log[n], t.block) /\ t.block \in Block
      /\ \A o \in Node \ {n} : log'[o] = log[o]
  BY <1>2, <1>g, ThreadTypes DEF TypeOK, Miner
<1>5. Distinct(t.block) /\ TxsOf(t.block) \subseteq Sent[n] \ Mined
  BY <1>2 DEF Books
<1> HIDE DEF t
<1>6. /\ K \in Nat /\ Len(log'[n]) = K + 1 /\ log'[n][K + 1] = t.block
      /\ \A k \in 1 .. K : log'[n][k] = log[n][k]
  BY <1>4
<1> HIDE DEF K
<1>7. Mined' = Mined \cup TxsOf(t.block)
  <2>0. TypeOK'
    BY StepType
  <2>1. ASSUME NEW tx
        PROVE  tx \in Mined' <=>
                 \E o \in Node : \E k \in 1 .. Len(log'[o]) : tx \in TxsOf(log'[o][k])
    <3>1. \A o \in Node : DOMAIN log'[o] = 1 .. Len(log'[o])
      BY <2>0, LenProperties DEF TypeOK
    <3> QED BY <3>1 DEF Mined, TxsOf
  <2>2. ASSUME NEW tx \in Mined' PROVE tx \in Mined \cup TxsOf(t.block)
    <3>1. PICK o \in Node : \E k \in 1 .. Len(log'[o]) : tx \in TxsOf(log'[o][k])
      BY <2>1, <2>2
    <3>2. PICK k \in 1 .. Len(log'[o]) : tx \in TxsOf(log'[o][k])
      BY <3>1
    <3>3. CASE o # n
      <4>1. log'[o] = log[o]
        BY <1>4, <3>3
      <4> QED BY <3>2, <4>1, MinedIs
    <3>4. CASE o = n /\ k = K + 1
      BY <1>6, <3>2, <3>4
    <3>5. CASE o = n /\ k # K + 1
      <4>1. k \in 1 .. K
        BY <1>6, <3>2, <3>5
      <4> QED BY <1>6, <3>2, <3>5, <4>1, MinedIs DEF K
    <3> QED BY <3>3, <3>4, <3>5
  <2>3. ASSUME NEW tx \in Mined PROVE tx \in Mined'
    <3>1. PICK o \in Node : \E k \in 1 .. Len(log[o]) : tx \in TxsOf(log[o][k])
      BY <2>3, MinedIs
    <3>2. PICK k \in 1 .. Len(log[o]) : tx \in TxsOf(log[o][k])
      BY <3>1
    <3>3. k \in 1 .. Len(log'[o]) /\ log'[o][k] = log[o][k]
      BY <3>2, LogGrows
    <3> QED BY <2>1, <3>2, <3>3
  <2>4. ASSUME NEW tx \in TxsOf(t.block) PROVE tx \in Mined'
    <3>1. K + 1 \in 1 .. Len(log'[n])
      BY <1>6
    <3> QED BY <1>6, <2>1, <2>4, <3>1
  <2> QED BY <2>2, <2>3, <2>4
<1>8. ASSUME NEW o \in Node, NEW k \in 1 .. Len(log'[o])
      PROVE  \/ o = n /\ k = K + 1 /\ log'[o][k] = t.block
             \/ k \in 1 .. Len(log[o]) /\ log'[o][k] = log[o][k]
  <2>1. CASE o # n
    BY <1>4, <2>1
  <2>2. CASE o = n
    <3>1. k = K + 1 \/ k \in 1 .. K
      BY <1>6, <2>2
    <3> QED BY <1>6, <2>2, <3>1 DEF K
  <2> QED BY <2>1, <2>2
<1>9. \A o \in Node : \A k \in 1 .. Len(log'[o]) :
        TxsOf(log'[o][k]) \subseteq Sent[o] /\ Distinct(log'[o][k])
  BY <1>5, <1>8 DEF Books
<1>10. ASSUME NEW k \in 1 .. Len(log[n])
       PROVE  TxsOf(log[n][k]) \cap TxsOf(t.block) = {}
  <2>1. TxsOf(log[n][k]) \subseteq Mined
    BY MinedIs
  <2> QED BY <1>5, <2>1
<1>11. \A o \in Node : \A j, k \in 1 .. Len(log'[o]) :
         j # k => TxsOf(log'[o][j]) \cap TxsOf(log'[o][k]) = {}
  <2> SUFFICES ASSUME NEW o \in Node, NEW j \in 1 .. Len(log'[o]),
                      NEW k \in 1 .. Len(log'[o]), j # k
               PROVE  TxsOf(log'[o][j]) \cap TxsOf(log'[o][k]) = {}
    OBVIOUS
  <2>1. CASE j \in 1 .. Len(log[o]) /\ k \in 1 .. Len(log[o])
    <3>1. log'[o][j] = log[o][j] /\ log'[o][k] = log[o][k]
      BY <2>1, LogGrows
    <3> QED BY <2>1, <3>1 DEF Books
  <2>2. CASE o = n /\ k = K + 1 /\ log'[o][k] = t.block
    <3>1. j \in 1 .. Len(log[o]) /\ log'[o][j] = log[o][j]
      BY <1>8, <2>2
    <3> QED BY <1>10, <2>2, <3>1
  <2>3. CASE o = n /\ j = K + 1 /\ log'[o][j] = t.block
    <3>1. k \in 1 .. Len(log[o]) /\ log'[o][k] = log[o][k]
      BY <1>8, <2>3
    <3> QED BY <1>10, <2>3, <3>1
  <2> QED BY <1>8, <2>1, <2>2, <2>3
<1>12. \A k \in Node : Miner(k)'.pc = "mine" =>
         Distinct(Miner(k)'.block) /\ TxsOf(Miner(k)'.block) \subseteq Sent[k] \ Mined'
  <2> TAKE k \in Node
  <2>1. CASE k = n
    BY <1>1, <1>3, <2>1
  <2>2. CASE k # n
    <3>1. Miner(k)' = Miner(k) /\ Sent[k] \cap TxsOf(t.block) = {}
      BY <1>3, <1>5, <1>s, <2>2
    <3> QED BY <1>7, <3>1 DEF Books
  <2> QED BY <2>1, <2>2
<1>13. \A k \in Node : mempool'[k] \cap Mined' \subseteq
         IF Adding(Miner(k)') THEN TxsOf(Miner(k)'.block) ELSE {}
  <2> TAKE k \in Node
  <2>1. mempool[k] \subseteq Sent[k]
    BY DEF Books
  <2>2. CASE k = n
    <3>1. mempool[n] \cap Mined \subseteq {}
      <4>1. ~Adding(Miner(n))
        BY <1>2 DEF Adding, t
      <4> QED BY <4>1 DEF Books
    <3> QED BY <1>1, <1>2, <1>3, <1>7, <2>2, <3>1
  <2>3. CASE k # n
    <3>1. Miner(k)' = Miner(k) /\ Sent[k] \cap TxsOf(t.block) = {}
      BY <1>3, <1>5, <1>s, <2>3
    <3>2. mempool'[k] \cap Mined' \subseteq mempool[k] \cap Mined
      BY <1>2, <1>7, <2>1, <3>1
    <3> QED BY <3>1, <3>2 DEF Books
  <2> QED BY <2>2, <2>3
<1>14. \A o \in Node : mempool'[o] \subseteq Sent[o]
  BY <1>2 DEF Books
<1>15. Books'
  BY <1>9, <1>11, <1>12, <1>13, <1>14 DEF Books, Distinct, TxsOf, Adding
<1> QED BY <1>4, <1>7, <1>15 DEF t

\* What is finished stays so when no block is.
LEMMA OldSame ==
  ASSUME TypeOK, Places, [Next]_cvars, NEW n \in Node,
         \A o \in Node : Finished(n, o)' = Finished(n, o)
  PROVE  Old(n)' = Old(n)
<1>1. \A o \in Node : \A k \in 1 .. Finished(n, o) : log'[o][k] = log[o][k]
  <2> TAKE o \in Node
  <2> TAKE k \in 1 .. Finished(n, o)
  <2>1. k \in 1 .. Len(log[o])
    BY FinishedLogs
  <2> QED BY <2>1, LogGrows
<1> QED BY <1>1 DEF Old, TxsOf

\* What another node does is no concern of k, but that it may mine.
LEMMA LocalElsewhere ==
  ASSUME TypeOK, Places, [Next]_cvars, NEW n \in Node, Elsewhere(n), NEW k \in Node \ {n},
         Local(k), Mined \subseteq Mined'
  PROVE  Local(k)'
<1>1. /\ UTXOSet'[k] = UTXOSet[k] /\ mempool'[k] = mempool[k] /\ accepted'[k] = accepted[k]
      /\ Miner(k)' = Miner(k) /\ Listener(k)' = Listener(k) /\ log'[k] = log[k]
  BY DEF Elsewhere, Miner, Listener
<1>2. \A o \in Node : Finished(k, o)' = Finished(k, o)
  BY <1>1 DEF Finished, Adding
<1>3. Old(k)' = Old(k)
  BY <1>2, OldSame
<1>4. Fresh(k)' \subseteq Fresh(k)
  BY <1>1 DEF Fresh
<1> DEFINE t == Miner(k)
           x == Listener(k)
           V == Fresh(k) \cup Checked(t) \cup Checked(x)
           W == Fresh(k)' \cup Checked(t) \cup Checked(x)
<1>5. NodeInv(UTXOSet[k], Old(k) \cup Passed(t) \cup Passed(x),
              Putting(t) \cup Putting(x), V)
  BY DEF Local, Ledger
<1>6. W \subseteq V
  BY <1>4
<1>7. NodeInv(UTXOSet[k], Old(k) \cup Passed(t) \cup Passed(x),
              Putting(t) \cup Putting(x), W)
  <2> HIDE DEF V, W
  <2> QED BY <1>5, <1>6, Dropped
<1>8. Ledger(UTXOSet[k], Old(k), Fresh(k)', t, x)
  BY <1>7 DEF Ledger
<1> QED BY <1>1, <1>3, <1>8 DEF Local

\* A goroutine has moved.
LEMMA LocalMoves ==
  ASSUME TypeOK, NEW n \in Node, NEW g \in Goroutine, NEW w, Becomes(n, g, w),
         Ledger(UTXOSet'[n], Old(n)', Fresh(n)', w, thread[n][Other(g)])
  PROVE  Local(n)'
<1>1. Other(g) \in Goroutine /\ Other(g) # g
  BY DEF Other, Goroutine
<1>2. thread'[n][g] = w /\ thread'[n][Other(g)] = thread[n][Other(g)]
  BY <1>1, OneMoves
<1>3. Ledger(UTXOSet'[n], Old(n)', Fresh(n)', thread'[n][g], thread'[n][Other(g)])
  BY <1>2
<1>4. CASE g = "miner"
  BY <1>3, <1>4 DEF Local, Miner, Listener, Other
<1>5. CASE g = "listener"
  <2>1. Ledger(UTXOSet'[n], Old(n)', Fresh(n)', thread'[n][Other(g)], thread'[n][g])
    BY <1>3, LedgerEither
  <2> QED BY <1>5, <2>1 DEF Local, Miner, Listener, Other
<1> QED BY <1>4, <1>5 DEF Goroutine

\* A goroutine goes on without finishing or mining a block.
LEMMA Proceeds ==
  ASSUME TypeOK, Places, Books, [Next]_cvars, NEW n \in Node, Elsewhere(n),
         NEW g \in Goroutine, NEW w, Becomes(n, g, w), UNCHANGED <<log, accepted, mempool>>,
         g = "miner" =>
           /\ Adding(w) <=> Adding(thread[n][g])
           /\ Adding(w) => w.block = thread[n][g].block
           /\ w.pc = "mine" =>
                Distinct(w.block) /\ TxsOf(w.block) \subseteq Sent[n] \ Mined,
         Ledger(UTXOSet'[n], Old(n), Fresh(n), w, thread[n][Other(g)])
  PROVE  Books' /\ Local(n)'
<1>g. "miner" \in Goroutine /\ "listener" \in Goroutine
  BY DEF Goroutine
<1>1. Miner(n)' = IF g = "miner" THEN w ELSE Miner(n)
  BY <1>g, OneMoves DEF Miner
<1>2. Adding(Miner(n)') <=> Adding(Miner(n))
  BY <1>1 DEF Miner
<1>3. Books'
  <2>1. mempool'[n] \subseteq Sent[n]
    BY DEF Books
  <2>2. Miner(n)'.pc = "mine" =>
          /\ Distinct(Miner(n)'.block)
          /\ TxsOf(Miner(n)'.block) \subseteq Sent[n] \ Mined
    BY <1>1 DEF Books
  <2>3. mempool'[n] \cap Mined \subseteq
          IF Adding(Miner(n)') THEN TxsOf(Miner(n)'.block) ELSE {}
    <3>1. mempool[n] \cap Mined \subseteq
            IF Adding(Miner(n)) THEN TxsOf(Miner(n).block) ELSE {}
      BY DEF Books
    <3>2. Adding(Miner(n)) => Miner(n)'.block = Miner(n).block
      BY <1>1, <1>2 DEF Miner
    <3> QED BY <1>2, <3>1, <3>2
  <2> QED BY <2>1, <2>2, <2>3, BooksKept
<1>4. \A o \in Node : Finished(n, o)' = Finished(n, o)
  BY <1>2 DEF Finished, Adding
<1>5. Old(n)' = Old(n)
  BY <1>4, OldSame
<1>6. Fresh(n)' = Fresh(n)
  BY DEF Fresh, Mined
<1> QED BY <1>3, <1>5, <1>6, LocalMoves

\* A client's transaction.
LEMMA LocalTransaction ==
  ASSUME OneLine, TypeOK, Places, Books, [Next]_cvars,
         NEW n \in Node, Elsewhere(n), Local(n),
         NEW tx \in Sent[n], handleTransactionMessage(n, tx)
  PROVE  Books' /\ Local(n)'
<1> DEFINE t == Miner(n)
           x == Listener(n)
           A == Old(n) \cup Passed(t) \cup Passed(x)
           P == Putting(t) \cup Putting(x)
           V == Fresh(n) \cup Checked(t) \cup Checked(x)
<1>g. "miner" \in Goroutine /\ "listener" \in Goroutine
  BY DEF Goroutine
<1>1. /\ tx \notin Mined /\ validateTransaction(UTXOSet[n], tx, now)
      /\ mempool' = [mempool EXCEPT ![n] = {y \in mempool[n] : y.id # tx.id} \cup {tx}]
      /\ UNCHANGED <<UTXOSet, log, accepted, thread>>
  BY DEF handleTransactionMessage, OneLine
<1>2. mempool'[n] \subseteq mempool[n] \cup {tx}
  BY <1>1 DEF TypeOK
<1>3. Miner(n)' = Miner(n) /\ Listener(n)' = Listener(n) /\ Mined' = Mined
  BY <1>1 DEF Miner, Listener, Mined
<1>4. Books'
  <2>1. mempool'[n] \subseteq Sent[n]
    BY <1>2 DEF Books
  <2>2. mempool'[n] \cap Mined \subseteq mempool[n] \cap Mined
    BY <1>1, <1>2
  <2>3. mempool'[n] \cap Mined \subseteq
          IF Adding(Miner(n)') THEN TxsOf(Miner(n)'.block) ELSE {}
    BY <1>3, <2>2 DEF Books
  <2>4. Miner(n)'.pc = "mine" =>
          /\ Distinct(Miner(n)'.block)
          /\ TxsOf(Miner(n)'.block) \subseteq Sent[n] \ Mined
    BY <1>3 DEF Books
  <2> QED BY <1>1, <2>1, <2>3, <2>4, BooksKept
<1>5. tx \in AllTx \ (A \cup P)
  <2>1. tx \in AllTx
    BY DEF AllTx
  <2>2. Old(n) \subseteq Mined
    BY FinishedLogs
  <2>3. \A g \in Goroutine : Passed(thread[n][g]) \cup Putting(thread[n][g]) \subseteq Mined
    <3> TAKE g \in Goroutine
    <3>1. CASE ~Adding(thread[n][g])
      BY <3>1, OfBlock
    <3>2. CASE Adding(thread[n][g])
      <4>1. thread[n][g].pc # "idle" /\ thread[n][g].pc # "mine"
        BY <3>2 DEF Adding
      <4>2. TxsOf(thread[n][g].block) \subseteq Mined
        BY <4>1, BlockOf
      <4> QED BY <4>2, OfBlock
    <3> QED BY <3>1, <3>2
  <2> QED BY <1>g, <1>1, <2>1, <2>2, <2>3 DEF Miner, Listener
<1>6. NodeInv(UTXOSet[n], A, P, V)
  BY DEF Local, Ledger
<1>7. Fresh(n)' \cup Checked(t) \cup Checked(x) \subseteq V \cup {tx}
  BY <1>2, <1>3 DEF Fresh
<1>8. NodeInv(UTXOSet[n], A, P, Fresh(n)' \cup Checked(t) \cup Checked(x))
  <2> HIDE DEF A, P, V, t, x
  <2>1. NodeInv(UTXOSet[n], A, P, V \cup {tx})
    BY <1>1, <1>5, <1>6, NowValid
  <2> QED BY <1>7, <2>1, Dropped
<1>9. Old(n)' = Old(n)
  <2>1. \A o \in Node : Finished(n, o)' = Finished(n, o)
    BY <1>1, <1>3 DEF Finished, Adding
  <2> QED BY <2>1, OldSame
<1>10. Local(n)'
  BY <1>1, <1>3, <1>8, <1>9 DEF Local, Ledger
<1> QED BY <1>4, <1>10

\* A block has been added.
LEMMA LocalFinish ==
  ASSUME OneLine, TypeOK, Places, Books, [Next]_cvars,
         NEW n \in Node, Elsewhere(n), Local(n),
         NEW g \in Goroutine, finishBlock(n, g)
  PROVE  Books' /\ Local(n)'
<1> DEFINE t == thread[n][g]
           x == thread[n][Other(g)]
           w == Idle(n)
<1>g. "miner" \in Goroutine /\ "listener" \in Goroutine
  BY DEF Goroutine
<1>1. /\ Becomes(n, g, w) /\ UNCHANGED <<UTXOSet, log>> /\ t.pc = "count" /\ Adding(t)
      /\ mempool' = [mempool EXCEPT ![n] = removeTxsFromMempool(mempool[n], t.block)]
      /\ accepted' = IF g = "listener"
                     THEN [accepted EXCEPT ![n][t.from] = @ + 1] ELSE accepted
  BY DEF finishBlock, In, Adding
<1>2. w.pc = "idle" /\ ~Adding(w)
  BY DEF Idle, At, Adding
<1> HIDE DEF w
<1>3. /\ mempool'[n] = removeTxsFromMempool(mempool[n], t.block)
      /\ Mined' = Mined
  BY <1>1 DEF TypeOK, Mined
<1>4. mempool'[n] \subseteq mempool[n] /\ mempool'[n] \cap TxsOf(t.block) = {}
  BY <1>3 DEF removeTxsFromMempool
<1>5. Miner(n)' = IF g = "miner" THEN w ELSE Miner(n)
  BY <1>g, <1>1, OneMoves DEF Miner
<1>6. Books'
  <2>1. mempool'[n] \subseteq Sent[n]
    BY <1>4 DEF Books
  <2>2. mempool[n] \cap Mined \subseteq
          IF Adding(Miner(n)) THEN TxsOf(Miner(n).block) ELSE {}
    BY DEF Books
  <2>3. mempool'[n] \cap Mined \subseteq
          IF Adding(Miner(n)') THEN TxsOf(Miner(n)'.block) ELSE {}
    <3>1. CASE g = "miner"
      BY <1>1, <1>2, <1>4, <1>5, <2>2, <3>1 DEF Miner
    <3>2. CASE g # "miner"
      BY <1>4, <1>5, <2>2, <3>2
    <3> QED BY <3>1, <3>2
  <2>4. Miner(n)'.pc = "mine" =>
          /\ Distinct(Miner(n)'.block)
          /\ TxsOf(Miner(n)'.block) \subseteq Sent[n] \ Mined
    BY <1>2, <1>5 DEF Books
  <2> QED BY <1>1, <2>1, <2>3, <2>4, BooksKept
<1>7. Old(n)' = Old(n) \cup TxsOf(t.block)
  <2>0. PICK o \in Node : o = IF g = "miner" THEN n ELSE t.from
    <3>1. t.from \in Node
      BY ThreadTypes
    <3> QED BY <3>1
  <2> DEFINE F == Finished(n, o)
  <2>1. /\ o \in Node /\ Finished(n, o)' = F + 1 /\ log[o][F + 1] = t.block
        /\ F \in Nat
        /\ \A p \in Node : p # o => Finished(n, p)' = Finished(n, p)
    <3>1. CASE g = "miner"
      <4>1. /\ o = n /\ t = Miner(n) /\ Adding(Miner(n)) /\ ~Adding(Miner(n)')
            /\ accepted' = accepted
        BY <1>1, <1>2, <1>5, <2>0, <3>1 DEF Miner
      <4>2. F = Len(log[n]) - 1 /\ Finished(n, n)' = Len(log[n])
        BY <1>1, <4>1 DEF Finished, Adding
      <4>3. Len(log[n]) \in Nat /\ F \in Nat
        BY <4>1, FinishedLogs
      <4>4. log[n][Len(log[n])] = t.block
        BY <4>1 DEF Places, MinerPlace
      <4>5. \A p \in Node : p # o => Finished(n, p)' = Finished(n, p)
        BY <4>1 DEF Finished
      <4> HIDE DEF F, t
      <4>6. F + 1 = Len(log[n])
        BY <4>2, <4>3
      <4> QED BY <4>1, <4>2, <4>3, <4>4, <4>5, <4>6
    <3>2. CASE g = "listener"
      <4>1. o = t.from /\ t = Listener(n) /\ Miner(n)' = Miner(n)
        BY <1>5, <2>0, <3>2 DEF Listener
      <4>2. o \in Node \ {n} /\ t.block = log[o][accepted[n][o] + 1]
        BY <1>1, <4>1 DEF Places, ListenerPlace
      <4>3. accepted' = [accepted EXCEPT ![n][o] = @ + 1]
        BY <1>1, <3>2, <4>1
      <4>4. F = accepted[n][o] /\ F \in Nat
        BY <4>2 DEF Finished, TypeOK
      <4> HIDE DEF t
      <4>5. /\ accepted'[n][o] = accepted[n][o] + 1
            /\ \A p \in Node \ {o} : accepted'[n][p] = accepted[n][p]
        BY <4>2, <4>3 DEF TypeOK
      <4>6. \A p \in Node : p # o => Finished(n, p)' = Finished(n, p)
        BY <1>1, <4>1, <4>5 DEF Finished, Adding
      <4>7. Finished(n, o)' = F + 1
        BY <4>2, <4>4, <4>5 DEF Finished
      <4> QED BY <4>2, <4>4, <4>6, <4>7
    <3> QED BY <3>1, <3>2 DEF Goroutine
  <2>2. TxsOf(t.block) \subseteq AllTx
    <3>1. t.block.txs \in Seq(AllTx)
      BY ThreadTypes
    <3> QED BY <3>1 DEF TxsOf
  <2> HIDE DEF F, t
  <2>3. ASSUME NEW tx \in Old(n)' PROVE tx \in Old(n) \cup TxsOf(t.block)
    <3>1. /\ tx \in AllTx
          /\ \E p \in Node : \E k \in 1 .. Finished(n, p)' : tx \in TxsOf(log[p][k])
      BY <1>1, <2>3 DEF Old, TxsOf
    <3>2. PICK p \in Node : \E k \in 1 .. Finished(n, p)' : tx \in TxsOf(log[p][k])
      BY <3>1
    <3>3. PICK k \in 1 .. Finished(n, p)' : tx \in TxsOf(log[p][k])
      BY <3>2
    <3>4. CASE p # o
      BY <2>1, <3>1, <3>3, <3>4 DEF Old
    <3>5. CASE p = o
      <4>1. k = F + 1 \/ k \in 1 .. F
        BY <2>1, <3>3, <3>5
      <4> QED BY <2>1, <3>1, <3>3, <3>5, <4>1 DEF Old, F
    <3> QED BY <3>4, <3>5
  <2>4. ASSUME NEW tx \in Old(n) \cup TxsOf(t.block) PROVE tx \in Old(n)'
    <3>1. tx \in AllTx
      BY <2>2 DEF Old
    <3>2. \E p \in Node : \E k \in 1 .. Finished(n, p)' : tx \in TxsOf(log[p][k])
      <4>1. CASE tx \in TxsOf(t.block)
        <5>1. F + 1 \in 1 .. Finished(n, o)'
          BY <2>1
        <5> QED BY <2>1, <4>1, <5>1
      <4>2. CASE tx \in Old(n)
        <5>1. PICK p \in Node : \E k \in 1 .. Finished(n, p) : tx \in TxsOf(log[p][k])
          BY <4>2 DEF Old
        <5>2. PICK k \in 1 .. Finished(n, p) : tx \in TxsOf(log[p][k])
          BY <5>1
        <5>3. k \in 1 .. Finished(n, p)'
          <6>1. CASE p # o
            BY <2>1, <6>1
          <6>2. CASE p = o
            <7>1. k \in 1 .. F /\ F \in Nat /\ Finished(n, p)' = F + 1
              BY <2>1, <5>2, <6>2 DEF F
            <7> QED BY <7>1
          <6> QED BY <6>1, <6>2
        <5> QED BY <5>2, <5>3
      <4> QED BY <4>1, <4>2
    <3> QED BY <1>1, <3>1, <3>2 DEF Old, TxsOf
  <2> QED BY <2>3, <2>4
<1>8. Fresh(n)' \subseteq Fresh(n)
  BY <1>3, <1>4 DEF Fresh
<1>9. AtIndex(t) /\ t.i = Len(t.block.txs) + 1
  <2>1. t.pc # "idle" /\ InBlock(t)
    BY <1>1 DEF Places, MinerPlace, ListenerPlace, Miner, Listener, Goroutine
  <2> QED BY <1>1, <2>1, BlockOf DEF InBlock
<1>10. Ledger(UTXOSet[n], Old(n), Fresh(n), t, x)
  BY LocalOf
<1> HIDE DEF t, x
<1>11. Ledger(UTXOSet[n], Old(n) \cup TxsOf(t.block), Fresh(n)', w, x)
  BY <1>1, <1>2, <1>8, <1>9, <1>10, LedgerFinish
<1>12. Ledger(UTXOSet'[n], Old(n)', Fresh(n)', w, thread[n][Other(g)])
  BY <1>1, <1>7, <1>11 DEF x
<1> QED BY <1>1, <1>6, <1>12, LocalMoves

\* A listener receives and validates a block.
LEMMA LocalListener ==
  ASSUME OneLine, TypeOK, Places, Books, [Next]_cvars,
         NEW n \in Node, Elsewhere(n), Local(n),
         validateBlock(n) \/ \E o \in Node : handleBlockMessage(n, o)
  PROVE  Books' /\ Local(n)'
<1> DEFINE t == thread[n]["listener"]
           x == thread[n]["miner"]
<1>g. "listener" \in Goroutine /\ Other("listener") = "miner"
  BY DEF Goroutine, Other
<1>0. Ledger(UTXOSet[n], Old(n), Fresh(n), t, x)
  BY <1>g, LocalOf
<1>p. ASSUME NEW w, Becomes(n, "listener", w),
             UNCHANGED <<log, accepted, mempool, UTXOSet>>,
             Ledger(UTXOSet[n], Old(n), Fresh(n), w, x)
      PROVE  Books' /\ Local(n)'
  BY <1>g, <1>p, Proceeds
<1>1. ASSUME NEW o \in Node, handleBlockMessage(n, o) PROVE Books' /\ Local(n)'
  <2> DEFINE w == At("validate", o, log[o][accepted[n][o] + 1], 1, 0)
  <2>1. w.pc = "validate" /\ w.i = 1 /\ w.block = log[o][accepted[n][o] + 1]
    BY AtFields
  <2>2. /\ Becomes(n, "listener", w) /\ t.pc = "idle" /\ accepted[n][o] < Len(log[o])
        /\ UNCHANGED <<log, accepted, mempool, UTXOSet>>
    BY <1>1 DEF handleBlockMessage, In
  <2>3. DOMAIN w.block.txs \subseteq Nat /\ \A j \in DOMAIN w.block.txs : ~(j < 1)
    <3>1. log[o] \in Seq(Block) /\ accepted[n][o] \in Nat
      BY DEF TypeOK
    <3>2. log[o][accepted[n][o] + 1] \in Block
      BY <2>2, <3>1
    <3>3. w.block.txs \in Seq(AllTx)
      BY <2>1, <3>2 DEF Block
    <3>4. DOMAIN w.block.txs = 1 .. Len(w.block.txs) /\ Len(w.block.txs) \in Nat
      BY <3>3, LenProperties
    <3> QED BY <3>4
  <2> HIDE DEF w
  <2>4. Passed(w) = {} /\ Putting(w) = {} /\ Checked(w) = {}
    BY <2>1, <2>3 DEF Passed, Putting, Checked, CheckedAt, Adding
  <2>5. Passed(t) = {} /\ Putting(t) = {}
    BY <2>2, OfBlock
  <2>6. Ledger(UTXOSet[n], Old(n), Fresh(n), w, x)
    BY <1>0, <2>4, <2>5, SameWork
  <2> QED BY <1>p, <2>2, <2>6
<1>2. ASSUME validateBlock(n) PROVE Books' /\ Local(n)'
  <2>1. /\ t.pc = "validate" /\ UNCHANGED <<log, accepted, mempool, UTXOSet>>
    BY <1>2 DEF validateBlock, In
  <2>2. /\ AtIndex(t) /\ t.i \in 1 .. Len(t.block.txs) + 1
        /\ DOMAIN t.block.txs = 1 .. Len(t.block.txs) /\ Len(t.block.txs) \in Nat
        /\ TxsOf(t.block) \cap Old(n) = {}
    BY <1>g, <2>1, BlockOf, ThreadTypes DEF Places, ListenerPlace, Listener, InBlock
  <2>3. CASE /\ t.i \in DOMAIN t.block.txs
             /\ validateTransaction(UTXOSet[n], t.block.txs[t.i], now)
             /\ Becomes(n, "listener", At("validate", t.from, t.block, t.i + 1, 0))
    <3> DEFINE w == At("validate", t.from, t.block, t.i + 1, 0)
    <3>1. w.pc = "validate" /\ w.block = t.block /\ w.i = t.i + 1
      BY AtFields
    <3>2. Becomes(n, "listener", w)
      BY <2>3
    <3>3. t.block.txs[t.i] \notin Old(n) \cup Passed(x) \cup Putting(x)
      <4>1. t.block.txs[t.i] \in TxsOf(t.block)
        BY <2>3 DEF TxsOf
      <4>2. t.pc # "idle"
        BY <2>1
      <4> QED BY <1>g, <2>2, <4>1, <4>2, OtherBlock
    <3> HIDE DEF w, t, x
    <3>4. Ledger(UTXOSet[n], Old(n), Fresh(n), w, x)
      BY <1>0, <2>1, <2>2, <2>3, <3>1, <3>3, LedgerValid
    <3> QED BY <1>p, <2>1, <3>2, <3>4
  <2>4. CASE Becomes(n, "listener", Idle(n))
    <3> DEFINE w == Idle(n)
    <3>1. w.pc = "idle"
      BY DEF Idle, At
    <3> HIDE DEF w
    <3>2. Passed(w) = {} /\ Putting(w) = {} /\ Checked(w) = {}
      BY <3>1, OfBlock
    <3>3. Passed(t) = {} /\ Putting(t) = {}
      BY <2>1, OfBlock DEF Adding
    <3>4. Ledger(UTXOSet[n], Old(n), Fresh(n), w, x)
      BY <1>0, <3>2, <3>3, SameWork
    <3> QED BY <1>p, <2>1, <2>4, <3>4 DEF w
  <2>5. CASE /\ t.i \notin DOMAIN t.block.txs
             /\ Becomes(n, "listener", At("add", t.from, t.block, 1, 0))
    <3> DEFINE w == At("add", t.from, t.block, 1, 0)
    <3>1. w.pc = "add" /\ w.block = t.block /\ w.i = 1
      BY AtFields
    <3>2. Becomes(n, "listener", w)
      BY <2>5
    <3> HIDE DEF w, t, x
    <3>3. t.i = Len(t.block.txs) + 1
      BY <2>2, <2>5
    <3>4. Ledger(UTXOSet[n], Old(n), Fresh(n), w, x)
      BY <1>0, <2>1, <2>2, <3>1, <3>3, LedgerAllValid
    <3> QED BY <1>p, <2>1, <3>2, <3>4
  <2> QED BY <1>2, <2>3, <2>4, <2>5 DEF validateBlock
<1> QED BY <1>1, <1>2

\* A miner makes a candidate of fresh transactions, or drops it.
LEMMA LocalMiner ==
  ASSUME OneLine, TypeOK, Places, Books, [Next]_cvars,
         NEW n \in Node, Elsewhere(n), Local(n),
         createCandidateBlock(n) \/ stopMining(n)
  PROVE  Books' /\ Local(n)'
<1> DEFINE t == thread[n]["miner"]
           x == thread[n]["listener"]
<1>g. "miner" \in Goroutine /\ Other("miner") = "listener" /\ t = Miner(n)
  BY DEF Goroutine, Other, Miner
<1>0. Ledger(UTXOSet[n], Old(n), Fresh(n), t, x)
  BY <1>g, LocalOf
<1>1. CASE createCandidateBlock(n)
  <2>1. PICK txs \in getTxsFromMempool(mempool[n]) :
          Becomes(n, "miner",
            At("mine", n, [prev |-> lastHash[n], nonce |-> currentHeight[n] + 1,
                           txs |-> txs], 1, 0))
    BY <1>1 DEF createCandidateBlock
  <2> DEFINE b == [prev |-> lastHash[n], nonce |-> currentHeight[n] + 1, txs |-> txs]
             w == At("mine", n, b, 1, 0)
  <2>2. w.pc = "mine" /\ w.block = b /\ b.txs = txs
    BY AtFields
  <2>3. /\ Becomes(n, "miner", w) /\ UNCHANGED <<log, accepted, mempool, UTXOSet>>
        /\ t.pc = "idle"
    BY <1>1, <2>1 DEF createCandidateBlock, In
  <2> HIDE DEF w, b
  <2>4. /\ \A i, j \in DOMAIN txs : txs[i] = txs[j] => i = j
        /\ \A i \in DOMAIN txs : txs[i] \in mempool[n]
    BY DEF getTxsFromMempool
  <2>5. Distinct(w.block) /\ TxsOf(w.block) \subseteq mempool[n]
    BY <2>2, <2>4 DEF Distinct, TxsOf
  <2>6. mempool[n] \cap Mined = {} /\ mempool[n] \subseteq Sent[n]
    <3>1. ~Adding(Miner(n))
      BY <1>g, <2>3 DEF Adding
    <3> QED BY <3>1 DEF Books
  <2>7. ~Adding(w) /\ ~Adding(t) /\ Checked(w) = TxsOf(w.block)
        /\ Passed(w) = {} /\ Putting(w) = {} /\ Passed(t) = {} /\ Putting(t) = {}
    <3>1. ~Adding(w) /\ ~Adding(t)
      BY <2>2, <2>3 DEF Adding
    <3> QED BY <2>2, <3>1, OfBlock
  <2>8. Ledger(UTXOSet[n], Old(n), Fresh(n), w, x)
    <3>1. Checked(w) \subseteq Fresh(n)
      BY <2>5, <2>6, <2>7 DEF Fresh
    <3>2. Fresh(n) \cup Checked(w) \cup Checked(x)
            \subseteq Fresh(n) \cup Checked(t) \cup Checked(x)
      BY <3>1
    <3> QED BY <1>0, <2>7, <3>2, Dropped DEF Ledger
  <2>9. TxsOf(w.block) \subseteq Sent[n] \ Mined
    BY <2>5, <2>6
  <2> QED BY <1>g, <2>3, <2>5, <2>7, <2>8, <2>9, Proceeds
<1>2. CASE stopMining(n)
  <2> DEFINE w == Idle(n)
  <2>1. /\ Becomes(n, "miner", w) /\ UNCHANGED <<log, accepted, mempool, UTXOSet>>
        /\ t.pc = "mine"
    BY <1>2 DEF stopMining, In
  <2>2. w.pc = "idle"
    BY DEF Idle, At
  <2> HIDE DEF w
  <2>3. ~Adding(w) /\ ~Adding(t)
    BY <2>1, <2>2 DEF Adding
  <2>4. /\ Passed(w) = {} /\ Putting(w) = {} /\ Checked(w) = {}
        /\ Passed(t) = {} /\ Putting(t) = {}
    BY <2>2, <2>3, OfBlock
  <2>5. Ledger(UTXOSet[n], Old(n), Fresh(n), w, x)
    BY <1>0, <2>4, SameWork
  <2> QED BY <1>g, <2>1, <2>2, <2>3, <2>5, Proceeds
<1> QED BY <1>1, <1>2

\* A miner broadcasts its block.
LEMMA LocalMine ==
  ASSUME OneLine, TypeOK, Places, Books, [Next]_cvars,
         NEW n \in Node, Local(n), mineBlock(n)
  PROVE  Local(n)'
<1> DEFINE t == thread[n]["miner"]
           x == thread[n]["listener"]
           w == At("add", n, t.block, 1, 0)
<1>g. "miner" \in Goroutine /\ Other("miner") = "listener" /\ t = Miner(n)
  BY DEF Goroutine, Other, Miner
<1>0. Ledger(UTXOSet[n], Old(n), Fresh(n), t, x)
  BY <1>g, LocalOf
<1>1. w.pc = "add" /\ w.block = t.block /\ w.i = 1
  BY AtFields
<1>2. /\ Becomes(n, "miner", w) /\ UNCHANGED <<accepted, mempool, UTXOSet>> /\ t.pc = "mine"
  BY DEF mineBlock, In
<1>3. AtIndex(t)
  BY <1>g, <1>2, BlockOf
<1>4. Mined' = Mined \cup TxsOf(Miner(n).block) /\ log'[n] = Append(log[n], Miner(n).block)
  BY BooksMine
<1>5. Fresh(n)' \subseteq Fresh(n)
  BY <1>2, <1>4 DEF Fresh
<1> HIDE DEF w
<1>6. Miner(n)' = w
  BY <1>g, <1>2, OneMoves DEF Miner
<1>7. Old(n)' = Old(n)
  <2>1. Adding(w) /\ ~Adding(t)
    BY <1>1, <1>2 DEF Adding
  <2>2. log[n] \in Seq(Block) /\ Miner(n).block \in Block
    BY <1>g, ThreadTypes DEF TypeOK
  <2>3. Len(log'[n]) = Len(log[n]) + 1 /\ Len(log[n]) \in Nat
    BY <1>4, <2>2
  <2>4. Adding(Miner(n)') /\ ~Adding(Miner(n))
    BY <1>6, <1>g, <2>1
  <2>5. Finished(n, n)' = Len(log'[n]) - 1 /\ Finished(n, n) = Len(log[n])
    BY <2>4 DEF Finished, Adding
  <2>6. \A o \in Node : Finished(n, o)' = Finished(n, o)
    BY <1>2, <2>3, <2>5 DEF Finished
  <2> QED BY <2>6, OldSame
<1> HIDE DEF t, x
<1>8. Ledger(UTXOSet[n], Old(n), Fresh(n), w, x)
  BY <1>0, <1>1, <1>2, <1>3, LedgerAllValid
<1>9. Ledger(UTXOSet[n], Old(n), Fresh(n)', w, x)
  <2>1. Fresh(n)' \cup Checked(w) \cup Checked(x)
          \subseteq Fresh(n) \cup Checked(w) \cup Checked(x)
    BY <1>5
  <2> QED BY <1>8, <2>1, Dropped DEF Ledger
<1>10. Ledger(UTXOSet'[n], Old(n)', Fresh(n)', w, thread[n][Other("miner")])
  BY <1>2, <1>7, <1>9, <1>g DEF x
<1> QED BY <1>g, <1>2, <1>10, LocalMoves

\* A goroutine adds the transactions of its block.
LEMMA LocalAdd ==
  ASSUME OneLine, TypeOK, Places, Books, [Next]_cvars,
         NEW n \in Node, Elsewhere(n), Local(n),
         NEW g \in Goroutine,
         \/ addTransaction(n, g) \/ removeInput(n, g) \/ addOutput(n, g) \/ storeBlock(n, g)
  PROVE  Books' /\ Local(n)'
<1> DEFINE t == thread[n][g]
           x == thread[n][Other(g)]
           tx == t.block.txs[t.i]
<1>0. Ledger(UTXOSet[n], Old(n), Fresh(n), t, x)
  BY LocalOf
<1>1. t.pc \in {"add", "remove", "put"} /\ UNCHANGED <<log, accepted, mempool>>
  BY DEF addTransaction, removeInput, addOutput, storeBlock, In
<1>2. /\ AtIndex(t) /\ Adding(t) /\ InBlock(t) /\ TxsOf(t.block) \cap Fresh(n) = {}
      /\ \A y \in TxsOf(t.block) : y \notin Putting(x) /\ y \notin Checked(x)
  <2>1. t.pc # "idle" /\ t.pc # "mine" /\ Adding(t)
    BY <1>1 DEF Adding
  <2>2. InBlock(t)
    BY DEF Places, MinerPlace, ListenerPlace, Miner, Listener, Goroutine
  <2> QED BY <2>1, <2>2, BlockOf, OtherBlock
<1>3. t.i \in DOMAIN t.block.txs =>
        tx \notin Fresh(n) /\ tx \notin Putting(x) /\ tx \notin Checked(x)
  BY <1>2 DEF TxsOf
<1>p. ASSUME NEW w, Becomes(n, g, w), w.block = t.block,
             w.pc \in {"add", "remove", "put", "count"},
             Ledger(UTXOSet'[n], Old(n), Fresh(n), w, x)
      PROVE  Books' /\ Local(n)'
  <2>1. Adding(w) /\ w.pc # "mine"
    BY <1>p DEF Adding
  <2> QED BY <1>1, <1>2, <1>p, <2>1, Proceeds
<1>4. CASE addTransaction(n, g)
  <2>1. t.pc = "add" /\ t.i \in DOMAIN t.block.txs
    BY <1>4 DEF addTransaction, In
  <2>2. CASE tx.type = "NameNew"
    <3> DEFINE w == At("add", t.from, t.block, t.i + 1, 0)
    <3>1. w.pc = "add" /\ w.block = t.block /\ w.i = t.i + 1
      BY AtFields
    <3>2. /\ Becomes(n, g, w)
          /\ UTXOSet' = [UTXOSet EXCEPT ![n] = addUTXO(UTXOSet[n], tx.output)]
      BY <1>4, <2>2 DEF addTransaction
    <3>3. UTXOSet'[n] = addUTXO(UTXOSet[n], tx.output) /\ ~Spends(tx)
      BY <2>2, <3>2 DEF TypeOK, Spends
    <3> HIDE DEF w, t, x
    <3>4. Ledger(addUTXO(UTXOSet[n], tx.output), Old(n), Fresh(n), w, x)
      BY <1>0, <1>2, <1>3, <2>1, <3>1, <3>3, LedgerClaim
    <3> QED BY <1>p, <3>1, <3>2, <3>3, <3>4
  <2>3. CASE tx.type # "NameNew"
    <3> DEFINE w == At("remove", t.from, t.block, t.i, 0)
    <3>1. w.pc = "remove" /\ w.block = t.block /\ w.i = t.i
      BY AtFields
    <3>2. findUTXO(UTXOSet[n], tx.input) # {}
      <4>1. In(n, g, "add") /\ Spends(tx)
        BY <2>1, <2>3 DEF In, Spends
      <4> QED BY <2>1, <4>1, NothingFails
    <3>3. Becomes(n, g, w) /\ UNCHANGED UTXOSet
      BY <1>4, <2>3, <3>2 DEF addTransaction
    <3> HIDE DEF w
    <3>4. Passed(w) = Passed(t) /\ Putting(w) = Putting(t) /\ Checked(w) = Checked(t)
      <4>1. Passed(w) = Passed(t)
        BY <2>1, <3>1 DEF Passed, Adding
      <4>2. Putting(w) = Putting(t)
        BY <2>1, <3>1 DEF Putting
      <4>3. Checked(w) = Checked(t)
        BY <2>1, <3>1 DEF Checked, CheckedAt
      <4> QED BY <4>1, <4>2, <4>3
    <3> HIDE DEF t, x
    <3>5. Ledger(UTXOSet[n], Old(n), Fresh(n), w, x)
      BY <1>0, <3>4, SameWork
    <3> QED BY <1>p, <3>1, <3>3, <3>5
  <2> QED BY <2>2, <2>3
<1>5. CASE removeInput(n, g)
  <2> DEFINE w == At("put", t.from, t.block, t.i, 0)
  <2>1. w.pc = "put" /\ w.block = t.block /\ w.i = t.i
    BY AtFields
  <2>2. /\ Becomes(n, g, w) /\ t.pc = "remove" /\ t.i \in DOMAIN t.block.txs
        /\ UTXOSet' = [UTXOSet EXCEPT ![n] = removeUTXO(UTXOSet[n], tx.input.domain)]
    BY <1>5 DEF removeInput, In
  <2>3. UTXOSet'[n] = removeUTXO(UTXOSet[n], tx.input.domain) /\ Spends(tx)
    BY <1>2, <2>2 DEF TypeOK, InBlock
  <2> HIDE DEF w, t, x
  <2>4. Ledger(removeUTXO(UTXOSet[n], tx.input.domain), Old(n), Fresh(n), w, x)
    BY <1>0, <1>2, <1>3, <2>1, <2>2, <2>3, LedgerRemove
  <2> QED BY <1>p, <2>1, <2>2, <2>3, <2>4
<1>6. CASE addOutput(n, g)
  <2> DEFINE w == At("add", t.from, t.block, t.i + 1, 0)
  <2>1. w.pc = "add" /\ w.block = t.block /\ w.i = t.i + 1
    BY AtFields
  <2>2. /\ Becomes(n, g, w) /\ t.pc = "put" /\ t.i \in DOMAIN t.block.txs
        /\ UTXOSet' = [UTXOSet EXCEPT ![n] = addUTXO(UTXOSet[n], tx.output)]
    BY <1>6 DEF addOutput, In
  <2>3. UTXOSet'[n] = addUTXO(UTXOSet[n], tx.output)
    BY <2>2 DEF TypeOK
  <2> HIDE DEF w, t, x
  <2>4. Ledger(addUTXO(UTXOSet[n], tx.output), Old(n), Fresh(n), w, x)
    BY <1>0, <1>2, <1>3, <2>1, <2>2, LedgerPut
  <2> QED BY <1>p, <2>1, <2>2, <2>3, <2>4
<1>7. CASE storeBlock(n, g)
  <2> DEFINE w == At("count", t.from, t.block, t.i, currentHeight[n])
  <2>1. w.pc = "count" /\ w.block = t.block /\ w.i = t.i
    BY AtFields
  <2>2. Becomes(n, g, w) /\ t.pc = "add" /\ UNCHANGED UTXOSet
    BY <1>7 DEF storeBlock, In
  <2> HIDE DEF w
  <2>3. Passed(w) = Passed(t)
    BY <2>1, <2>2 DEF Passed, Adding
  <2>4. Putting(w) = Putting(t)
    BY <2>1, <2>2 DEF Putting
  <2>5. Checked(w) = Checked(t)
    BY <2>1, <2>2 DEF Checked, CheckedAt
  <2> HIDE DEF t, x
  <2>6. Ledger(UTXOSet[n], Old(n), Fresh(n), w, x)
    BY <1>0, <2>3, <2>4, <2>5, SameWork
  <2> QED BY <1>p, <2>1, <2>2, <2>6
<1> QED BY <1>4, <1>5, <1>6, <1>7

\* The invariant: what is mined and what is not, over all nodes, and what a node
\* has applied, half applied and still has to apply.
OneLineInv == Books /\ \A n \in Node : Local(n)

\* Every step keeps the books and what the nodes know.
LEMMA OneLineStep ==
  ASSUME OneLine, TypeOK, Places, OneLineInv, [Next]_cvars
  PROVE  OneLineInv'
<1>0. Books /\ \A n \in Node : Local(n)
  BY DEF OneLineInv
<1>1. ASSUME NEW n \in Node, StepOf(n) PROVE OneLineInv'
  <2>1. Elsewhere(n)
    BY <1>1, StepsElsewhere
  <2>2. Books' /\ Local(n)'
    <3>1. ASSUME NEW tx \in Sent[n], handleTransactionMessage(n, tx)
          PROVE  Books' /\ Local(n)'
      BY <1>0, <2>1, <3>1, LocalTransaction
    <3>2. CASE validateBlock(n) \/ \E o \in Node : handleBlockMessage(n, o)
      BY <1>0, <2>1, <3>2, LocalListener
    <3>3. CASE createCandidateBlock(n) \/ stopMining(n)
      BY <1>0, <2>1, <3>3, LocalMiner
    <3>4. CASE mineBlock(n)
      BY <1>0, <3>4, LocalMine, BooksMine
    <3>5. ASSUME NEW g \in Goroutine, addBlockToBlockchain(n, g)
          PROVE  Books' /\ Local(n)'
      <4>1. CASE finishBlock(n, g)
        BY <1>0, <2>1, <4>1, LocalFinish
      <4>2. CASE \/ addTransaction(n, g) \/ removeInput(n, g) \/ addOutput(n, g)
                 \/ storeBlock(n, g)
        BY <1>0, <2>1, <4>2, LocalAdd
      <4> QED BY <3>5, <4>1, <4>2 DEF addBlockToBlockchain
    <3> QED BY <1>1, <3>1, <3>2, <3>3, <3>4, <3>5 DEF StepOf
  <2>3. Mined \subseteq Mined'
    <3>1. CASE mineBlock(n)
      BY <1>0, <3>1, BooksMine
    <3>2. CASE ~mineBlock(n)
      <4>1. \A o \in Node : log'[o] = log[o]
        BY <2>1, <3>2, LogGrows DEF Elsewhere
      <4> QED BY <4>1 DEF Mined
    <3> QED BY <3>1, <3>2
  <2>4. \A k \in Node \ {n} : Local(k)'
    BY <1>0, <2>1, <2>3, LocalElsewhere
  <2> QED BY <2>2, <2>4 DEF OneLineInv
<1>2. CASE UNCHANGED <<UTXOSet, mempool, blocks, lastHash, currentHeight, log,
                       accepted, thread>>
  <2>1. Mined' = Mined /\ \A n \in Node : Miner(n)' = Miner(n) /\ Listener(n)' = Listener(n)
    BY <1>2 DEF Mined, Miner, Listener
  <2>2. Books'
    <3>1. /\ \A o \in Node : mempool'[o] \subseteq Sent[o]
          /\ \A o \in Node : \A k \in 1 .. Len(log'[o]) :
               TxsOf(log'[o][k]) \subseteq Sent[o] /\ Distinct(log'[o][k])
          /\ \A o \in Node : \A j, k \in 1 .. Len(log'[o]) :
               j # k => TxsOf(log'[o][j]) \cap TxsOf(log'[o][k]) = {}
      BY <1>0, <1>2 DEF Books
    <3>2. \A n \in Node : Miner(n)'.pc = "mine" =>
            Distinct(Miner(n)'.block) /\ TxsOf(Miner(n)'.block) \subseteq Sent[n] \ Mined'
      BY <1>0, <2>1 DEF Books
    <3>3. \A n \in Node : mempool'[n] \cap Mined' \subseteq
            IF Adding(Miner(n)') THEN TxsOf(Miner(n)'.block) ELSE {}
      BY <1>0, <1>2, <2>1 DEF Books
    <3> QED BY <3>1, <3>2, <3>3 DEF Books, Distinct, TxsOf, Adding
  <2>3. ASSUME NEW n \in Node PROVE Local(n)'
    <3>1. \A o \in Node : Finished(n, o)' = Finished(n, o)
      BY <1>2, <2>1 DEF Finished, Adding
    <3>2. Old(n)' = Old(n) /\ Fresh(n)' = Fresh(n)
      BY <1>2, <2>1, <3>1, OldSame DEF Fresh
    <3>3. Local(n)
      BY <1>0
    <3> QED BY <1>2, <2>1, <3>2, <3>3 DEF Local
  <2> QED BY <2>2, <2>3 DEF OneLineInv
<1> QED BY <1>1, <1>2, StepCases

\* Initially nothing is known.
LEMMA InitOneLine == Init => OneLineInv
<1> SUFFICES ASSUME Init PROVE OneLineInv
  OBVIOUS
<1>0. "miner" \in Goroutine /\ "listener" \in Goroutine
  BY DEF Goroutine
<1>1. /\ \A n \in Node : /\ Miner(n) = Idle(n) /\ Listener(n) = Idle(n)
                         /\ UTXOSet[n] = {} /\ log[n] = <<>> /\ mempool[n] = {}
      /\ \A n, o \in Node : accepted[n][o] = 0
  BY <1>0 DEF Init, Miner, Listener
<1>2. \A n \in Node : Idle(n).pc = "idle" /\ ~Adding(Idle(n))
  BY DEF Idle, At, Adding
<1>3. \A o \in Node : Len(log[o]) = 0 /\ \A k \in 1 .. Len(log[o]) : FALSE
  <2>1. Len(<<>>) = 0 /\ \A k \in 1 .. 0 : FALSE
    OBVIOUS
  <2> QED BY <1>1, <2>1
<1>4. Books
  BY <1>1, <1>2, <1>3 DEF Books
<1>5. ASSUME NEW n \in Node PROVE Local(n)
  <2>1. \A o \in Node : Finished(n, o) = 0
    BY <1>1, <1>2, <1>3 DEF Finished
  <2>2. Old(n) = {} /\ Fresh(n) = {}
    <3>1. \A k \in 1 .. 0 : FALSE
      OBVIOUS
    <3> QED BY <1>1, <2>1, <3>1 DEF Old, Fresh
  <2> DEFINE w == Idle(n)
  <2>3. w.pc = "idle"
    BY <1>2
  <2> HIDE DEF w
  <2>4. Passed(w) = {} /\ Putting(w) = {} /\ Checked(w) = {}
    BY <2>3, OfBlock
  <2>5. NodeInv({}, {}, {}, {})
    <3>1. IsFiniteSet({}) /\ Cardinality({}) = 0
      BY FS_EmptySet
    <3>2. {a \in {} : ~Spends(a)} = {}
      OBVIOUS
    <3>3. Cardinality({}) + Cardinality({}) <= Cardinality({a \in {} : ~Spends(a)})
      BY <3>1, <3>2
    <3> QED BY <3>1, <3>3 DEF NodeInv
  <2>6. Ledger({}, {}, {}, w, w)
    BY <2>4, <2>5 DEF Ledger
  <2> QED BY <1>1, <2>2, <2>6 DEF Local, w
<1> QED BY <1>4, <1>5 DEF OneLineInv

\* With every name handed on in one line, the invariant holds in every state.
LEMMA OneLineHolds ==
  ASSUME OneLine
  PROVE  Spec => []OneLineInv
<1>1. TypeOK /\ Places /\ OneLineInv /\ [Next]_cvars => OneLineInv'
  BY OneLineStep
<1> QED BY <1>1, InitOneLine, TypeCorrect, PlacesHold, PTL DEF Spec

\* With every name handed on in one line, a node has at most one entry for every
\* claim, however many times the names change hands and whichever of its two
\* goroutines removes the old entry and adds the new one.
THEOREM SpentOnceHolds ==
  ASSUME OneLine
  PROVE  Spec => []SpentOnce
<1>1. OneLineInv => SpentOnce
  <2> SUFFICES ASSUME OneLineInv, NEW n \in Node
               PROVE  Cardinality(UTXOSet[n])
                        <= Cardinality({tx \in AllTx : tx.type = "NameNew"})
    BY DEF SpentOnce
  <2> DEFINE U == UTXOSet[n]
             A == Old(n) \cup Passed(Miner(n)) \cup Passed(Listener(n))
             P == Putting(Miner(n)) \cup Putting(Listener(n))
             V == Fresh(n) \cup Checked(Miner(n)) \cup Checked(Listener(n))
             C == {a \in A : ~Spends(a)}
             D == {tx \in AllTx : tx.type = "NameNew"}
  <2>1. NodeInv(U, A, P, V)
    BY DEF OneLineInv, Local, Ledger
  <2>2. C \in SUBSET D
    <3>1. A \in SUBSET AllTx
      <4> HIDE DEF A, P, V
      <4> QED BY <2>1 DEF NodeInv
    <3> HIDE DEF A
    <3> QED BY <3>1 DEF Spends
  <2>3. IsFiniteSet(D) /\ Cardinality(D) \in Nat
    <3>1. D = {tx \in AllTx : ~Spends(tx)} /\ AllTx \in SUBSET AllTx
      BY DEF Spends
    <3> QED BY <3>1, FiniteTx
  <2>4. Cardinality(C) <= Cardinality(D) /\ IsFiniteSet(C)
    BY <2>2, <2>3, FS_Subset
  <2> HIDE DEF U, A, P, V
  <2>5. /\ IsFiniteSet(U) /\ P \in SUBSET AllTx
        /\ Cardinality(U) + Cardinality(P) <= Cardinality(C)
    BY <2>1 DEF NodeInv
  <2>6. Cardinality(U) \in Nat /\ Cardinality(P) \in Nat /\ Cardinality(C) \in Nat
    BY <2>4, <2>5, FiniteTx, FS_CardinalityType
  <2> HIDE DEF C, D
  <2>7. Cardinality(U) <= Cardinality(D)
    BY <2>3, <2>4, <2>5, <2>6
  <2> QED BY <2>7 DEF U, D
<1> QED BY <1>1, OneLineHolds, PTL

\* With every name handed on in one line, nodes that have added all blocks have the
\* same entries, although they have added the blocks of several miners in different
\* orders, and their listener and miner have added blocks at the same time.
THEOREM ConvergedOneLine ==
  ASSUME OneLine
  PROVE  Spec => []Converged
<1>1. TypeOK /\ OneLineInv => Converged
  <2> SUFFICES ASSUME TypeOK, OneLineInv, Quiescent
               PROVE  \A n1, n2 \in Node : UTXOSet[n1] = UTXOSet[n2]
    BY DEF Converged
  <2>1. ASSUME NEW n \in Node
        PROVE  \E V : NodeInv(UTXOSet[n], Mined, {}, V)
    <3>1. Miner(n).pc = "idle" /\ Listener(n).pc = "idle" /\ ~Adding(Miner(n))
      BY DEF Quiescent, Goroutine, In, Miner, Listener, Adding
    <3>2. \A o \in Node : Finished(n, o) = Len(log[o])
      BY <3>1 DEF Quiescent, Finished
    <3>3. Old(n) = Mined
      <4>1. \A tx \in Mined : tx \in AllTx
        <5> TAKE tx \in Mined
        <5>1. PICK o \in Node : \E k \in 1 .. Len(log[o]) : tx \in TxsOf(log[o][k])
          BY MinedIs
        <5>2. tx \in Sent[o]
          BY <5>1 DEF OneLineInv, Books
        <5> QED BY <5>2 DEF AllTx
      <4> QED BY <3>2, <4>1, MinedIs DEF Old
    <3>4. Passed(Miner(n)) = {} /\ Passed(Listener(n)) = {}
          /\ Putting(Miner(n)) = {} /\ Putting(Listener(n)) = {}
      BY <3>1, OfBlock
    <3>5. Local(n)
      BY DEF OneLineInv
    <3>6. /\ Old(n) \cup Passed(Miner(n)) \cup Passed(Listener(n)) = Mined
          /\ Putting(Miner(n)) \cup Putting(Listener(n)) = {}
      BY <3>3, <3>4
    <3>7. NodeInv(UTXOSet[n], Mined, {},
                  Fresh(n) \cup Checked(Miner(n)) \cup Checked(Listener(n)))
      BY <3>5, <3>6 DEF Local, Ledger
    <3> QED BY <3>7
  <2>2. ASSUME NEW n1 \in Node, NEW n2 \in Node PROVE UTXOSet[n1] \subseteq UTXOSet[n2]
    BY <2>1, SameEntries
  <2> QED BY <2>2
<1> QED BY <1>1, OneLineHolds, TypeCorrect, PTL
=============================================================================
