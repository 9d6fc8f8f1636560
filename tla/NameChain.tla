----------------------------- MODULE NameChain ------------------------------
(***************************************************************************)
(* The name registry of peer/impl: transactions, the mempool, blocks, and  *)
(* the set of unspent outputs (UTXO set) that maps domain names to their   *)
(* owner.  Two goroutines of a node run addBlockToBlockchain without a     *)
(* common lock: the listener, for the blocks other nodes broadcast, and    *)
(* the miner, for its own block, which it broadcasts before it adds it.    *)
(*                                                                         *)
(* Blocks travel as rumors.  The gossip layer (module Gossip, which        *)
(* implements FifoBroadcast) hands the blocks of an origin to a node in    *)
(* order; when handleBlockMessage fails, the rumor stays the next one of   *)
(* its origin and is handed over again later.                              *)
(*                                                                         *)
(* Data abstraction.  The hash of a block is the list of the transactions  *)
(* of the block and of its ancestors: SHA256 is injective here, and        *)
(* computeBlockHash does not cover the nonce.  The search for a challenge  *)
(* is abstracted away: mining succeeds or is stopped.  The map from        *)
(* domains to UTXOs is a set of UTXOs: the key is always the domain of the *)
(* UTXO.  When the miner is woken is the subject of module Miner; here it  *)
(* may try whenever its mempool holds a transaction.                       *)
(***************************************************************************)
EXTENDS Naturals, Sequences, FiniteSets

CONSTANTS
  Node,          \* the nodes
  Domain,        \* the domain names, hashed or plain
  Owner,         \* the owners of domain names
  TxID,          \* the identifiers of transactions
  NoID,          \* the empty identifier
  NoDomain,      \* the empty domain name
  Sent,          \* Sent[n]: the transactions clients send to n
  Resend,        \* TRUE iff clients also send transactions again once mined
  MaxTxPerBlock, \* how many transactions a block holds (3 in the code)
  MaxBlocks,     \* bound: how many blocks a node mines
  MaxTime        \* bound: when the clock stops

UTXO == [domain : Domain \cup {NoDomain}, owner : Owner, exp : Nat]
Transaction ==
  [id : TxID \cup {NoID}, type : {"NameNew", "NameFirstUpdate", "NameUpdate"},
   input : [domain : Domain \cup {NoDomain}, owner : Owner],
   output : UTXO, plain : Domain \cup {NoDomain}]

ASSUME NameChainAssumption ==
  /\ NoID \notin TxID
  /\ NoDomain \notin Domain
  /\ Sent \in [Node -> SUBSET Transaction]
  /\ IsFiniteSet(UNION {Sent[n] : n \in Node})
  /\ Resend \in BOOLEAN
  /\ MaxTxPerBlock \in Nat \ {0}
  /\ MaxBlocks \in Nat
  /\ MaxTime \in Nat

VARIABLES
  now,           \* the clock
  UTXOSet,       \* UTXOSet[n]: the domain entries n knows
  mempool,       \* mempool[n]: the transactions n has still to mine
  blocks,        \* blocks[n]: the blocks in the blockchain store of n
  lastHash,      \* lastHash[n]: the value of LastBlockKey in that store
  currentHeight, \* currentHeight[n]: how many blocks n counts
  log,           \* log[o]: the blocks o has broadcast
  accepted,      \* accepted[n][o]: how many blocks of o have been accepted by n
  thread         \* thread[n][g]: what goroutine g of n is doing

cvars == <<now, UTXOSet, mempool, blocks, lastHash, currentHeight, log,
           accepted, thread>>

AllTx == UNION {Sent[n] : n \in Node}
Hash == Seq(Seq(AllTx))
Block ==
  [prev : Hash, nonce : Nat,
   txs : {s \in Seq(AllTx) : Len(s) <= MaxTxPerBlock}]
HashOf(b) == Append(b.prev, b.txs)

\* The genesis block: its parent's hash stands for the hash of LastBlockKey.
Genesis == [prev |-> <<>>, nonce |-> 1, txs |-> <<>>]

\* A goroutine works on transaction i of a block, which a listener has received
\* from a node, or has read the height it will write.
Goroutine == {"listener", "miner"}
Thread ==
  [pc : {"idle", "validate", "mine", "add", "remove", "put", "count"},
   from : Node, block : Block, i : Nat, height : Nat]
At(pc, from, b, i, h) ==
  [pc |-> pc, from |-> from, block |-> b, i |-> i, height |-> h]
Idle(n) == At("idle", n, Genesis, 0, 0)

TypeOK ==
  /\ now \in Nat
  /\ UTXOSet \in [Node -> SUBSET UTXO]
  /\ mempool \in [Node -> SUBSET AllTx]
  /\ blocks \in [Node -> SUBSET Block]
  /\ lastHash \in [Node -> Hash]
  /\ currentHeight \in [Node -> Nat]
  /\ log \in [Node -> Seq(Block)]
  /\ accepted \in [Node -> [Node -> Nat]]
  /\ thread \in [Node -> [Goroutine -> Thread]]

-----------------------------------------------------------------------------
(* The UTXO set and the mempool. *)

\* Mutant: looks the input up by its domain alone.
findUTXO_AnyOwner(s, in) == {u \in s : u.domain = in.domain}

findUTXO(s, in) == {u \in s : u.domain = in.domain /\ u.owner = in.owner}

\* Mutant: the spent entry stays.
removeUTXO_Keep(s, d) == s

removeUTXO(s, d) == {u \in s : u.domain # d}
addUTXO(s, u) == removeUTXO(s, u.domain) \cup {u}

\* The checks of validateTransaction, on the UTXO set s at time t.
validateTransaction(s, tx, t) ==
  LET inputs == findUTXO(s, tx.input)
  IN  /\ tx.id # NoID
      /\ ~(tx.output.exp < t)
      /\ \/ /\ tx.type = "NameNew"
            /\ tx.output.domain # NoDomain
            /\ \A u \in s : u.domain # tx.output.domain
         \/ /\ tx.type = "NameFirstUpdate"
            /\ tx.output.domain = tx.plain
            /\ \E u \in inputs : ~(tx.output.exp < u.exp)
         \/ /\ tx.type = "NameUpdate"
            /\ \E u \in inputs : /\ tx.output.domain = u.domain
                                 /\ ~(tx.output.exp < u.exp)

TxsOf(b) == {b.txs[i] : i \in DOMAIN b.txs}
removeTxsFromMempool(pool, b) ==
  {tx \in pool : \A done \in TxsOf(b) : tx.id # done.id}

\* Mutant: takes the whole mempool.
getTxsFromMempool_NoLimit(pool) ==
  LET k == Cardinality(pool)
  IN  {s \in [1 .. k -> pool] : \A i, j \in 1 .. k : s[i] = s[j] => i = j}

\* getTxsFromMempool: as many as fit, in any order a map iteration may give.
getTxsFromMempool(pool) ==
  LET k == IF Cardinality(pool) < MaxTxPerBlock
           THEN Cardinality(pool) ELSE MaxTxPerBlock
  IN  {s \in [1 .. k -> pool] : \A i, j \in 1 .. k : s[i] = s[j] => i = j}

-----------------------------------------------------------------------------
Init ==
  /\ now = 0
  /\ UTXOSet = [n \in Node |-> {}]
  /\ mempool = [n \in Node |-> {}]
  /\ blocks = [n \in Node |-> {Genesis}]
  /\ lastHash = [n \in Node |-> HashOf(Genesis)]
  /\ currentHeight = [n \in Node |-> 1]
  /\ log = [n \in Node |-> <<>>]
  /\ accepted = [n \in Node |-> [o \in Node |-> 0]]
  /\ thread = [n \in Node |-> [g \in Goroutine |-> Idle(n)]]

Becomes(n, g, t) == thread' = [thread EXCEPT ![n][g] = t]
In(n, g, pc) == thread[n][g].pc = pc

Tick ==
  /\ now < MaxTime
  /\ now' = now + 1
  /\ UNCHANGED <<UTXOSet, mempool, blocks, lastHash, currentHeight, log,
                 accepted, thread>>

Mined == UNION {UNION {TxsOf(log[o][k]) : k \in DOMAIN log[o]} : o \in Node}

\* Mutant: adds the transaction to the mempool without validating it.
handleTransactionMessage_Unchecked(n, tx) ==
  /\ Resend \/ tx \notin Mined
  /\ In(n, "listener", "idle")
  /\ mempool' = [mempool EXCEPT ![n] = {t \in @ : t.id # tx.id} \cup {tx}]
  /\ UNCHANGED <<now, UTXOSet, blocks, lastHash, currentHeight, log, accepted,
                 thread>>

\* A client sends a transaction; an invalid one changes nothing.
handleTransactionMessage(n, tx) ==
  /\ Resend \/ tx \notin Mined
  /\ In(n, "listener", "idle")
  /\ validateTransaction(UTXOSet[n], tx, now)
  /\ mempool' = [mempool EXCEPT ![n] = {t \in @ : t.id # tx.id} \cup {tx}]
  /\ UNCHANGED <<now, UTXOSet, blocks, lastHash, currentHeight, log, accepted,
                 thread>>

-----------------------------------------------------------------------------
(* The listener: handleBlockMessage. *)

\* The gossip layer hands over the next block of o.
handleBlockMessage(n, o) ==
  /\ n # o
  /\ In(n, "listener", "idle")
  /\ accepted[n][o] < Len(log[o])
  /\ Becomes(n, "listener", At("validate", o, log[o][accepted[n][o] + 1], 1, 0))
  /\ UNCHANGED <<now, UTXOSet, mempool, blocks, lastHash, currentHeight, log,
                 accepted>>

\* Mutant: an invalid block does not make the handler fail.
validateBlock_Swallow(n) ==
  LET t == thread[n]["listener"]
  IN  /\ In(n, "listener", "validate")
      /\ \/ /\ t.i \in DOMAIN t.block.txs
            /\ validateTransaction(UTXOSet[n], t.block.txs[t.i], now)
            /\ Becomes(n, "listener", At("validate", t.from, t.block, t.i + 1, 0))
            /\ UNCHANGED accepted
         \/ /\ t.i \in DOMAIN t.block.txs
            /\ ~validateTransaction(UTXOSet[n], t.block.txs[t.i], now)
            /\ Becomes(n, "listener", Idle(n))
            /\ accepted' = [accepted EXCEPT ![n][t.from] = @ + 1]
         \/ /\ t.i \notin DOMAIN t.block.txs
            /\ Becomes(n, "listener", At("add", t.from, t.block, 1, 0))
            /\ UNCHANGED accepted
      /\ UNCHANGED <<now, UTXOSet, mempool, blocks, lastHash, currentHeight, log>>

\* validateBlock checks one transaction after the other; the first invalid one
\* makes the handler fail.  Blocks without transactions, which it refuses too,
\* are never mined.
validateBlock(n) ==
  LET t == thread[n]["listener"]
  IN  /\ In(n, "listener", "validate")
      /\ \/ /\ t.i \in DOMAIN t.block.txs
            /\ validateTransaction(UTXOSet[n], t.block.txs[t.i], now)
            /\ Becomes(n, "listener", At("validate", t.from, t.block, t.i + 1, 0))
         \/ /\ t.i \in DOMAIN t.block.txs
            /\ ~validateTransaction(UTXOSet[n], t.block.txs[t.i], now)
            /\ Becomes(n, "listener", Idle(n))
         \/ /\ t.i \notin DOMAIN t.block.txs
            /\ Becomes(n, "listener", At("add", t.from, t.block, 1, 0))
      /\ UNCHANGED <<now, UTXOSet, mempool, blocks, lastHash, currentHeight,
                     log, accepted>>

-----------------------------------------------------------------------------
(* The miner: attemptToMine. *)

\* Mutant: every candidate block extends the genesis block.
createCandidateBlock_OnGenesis(n) ==
  /\ In(n, "miner", "idle")
  /\ Len(log[n]) < MaxBlocks
  /\ mempool[n] # {}
  /\ \E txs \in getTxsFromMempool(mempool[n]) :
       Becomes(n, "miner",
         At("mine", n, [prev |-> HashOf(Genesis), nonce |-> currentHeight[n] + 1,
                        txs |-> txs], 1, 0))
  /\ UNCHANGED <<now, UTXOSet, mempool, blocks, lastHash, currentHeight, log,
                 accepted>>

createCandidateBlock(n) ==
  /\ In(n, "miner", "idle")
  /\ Len(log[n]) < MaxBlocks
  /\ mempool[n] # {}
  /\ \E txs \in getTxsFromMempool(mempool[n]) :
       Becomes(n, "miner",
         At("mine", n, [prev |-> lastHash[n], nonce |-> currentHeight[n] + 1,
                        txs |-> txs], 1, 0))
  /\ UNCHANGED <<now, UTXOSet, mempool, blocks, lastHash, currentHeight, log,
                 accepted>>

\* mineBlock is stopped by a new transaction.
stopMining(n) ==
  /\ In(n, "miner", "mine")
  /\ Becomes(n, "miner", Idle(n))
  /\ UNCHANGED <<now, UTXOSet, mempool, blocks, lastHash, currentHeight, log,
                 accepted>>

\* mineBlock succeeds and the block is broadcast, before the miner adds it.
mineBlock(n) ==
  LET t == thread[n]["miner"]
  IN  /\ In(n, "miner", "mine")
      /\ log' = [log EXCEPT ![n] = Append(@, t.block)]
      /\ Becomes(n, "miner", At("add", n, t.block, 1, 0))
      /\ UNCHANGED <<now, UTXOSet, mempool, blocks, lastHash, currentHeight,
                     accepted>>

-----------------------------------------------------------------------------
(* addBlockToBlockchain, in either goroutine. *)

\* The case of a transaction: a claim is added at once, for the others the input
\* is looked up again.  When it is gone, addBlockToBlockchain fails.
addTransaction(n, g) ==
  LET t == thread[n][g]
      tx == t.block.txs[t.i]
  IN  /\ In(n, g, "add")
      /\ t.i \in DOMAIN t.block.txs
      /\ \/ /\ tx.type = "NameNew"
            /\ UTXOSet' = [UTXOSet EXCEPT ![n] = addUTXO(@, tx.output)]
            /\ Becomes(n, g, At("add", t.from, t.block, t.i + 1, 0))
         \/ /\ tx.type # "NameNew"
            /\ findUTXO(UTXOSet[n], tx.input) # {}
            /\ Becomes(n, g, At("remove", t.from, t.block, t.i, 0))
            /\ UNCHANGED UTXOSet
         \/ /\ tx.type # "NameNew"
            /\ findUTXO(UTXOSet[n], tx.input) = {}
            /\ Becomes(n, g, Idle(n))
            /\ UNCHANGED UTXOSet
      /\ UNCHANGED <<now, mempool, blocks, lastHash, currentHeight, log,
                     accepted>>

\* The input is removed by its domain, whoever owns that domain by now.
removeInput(n, g) ==
  LET t == thread[n][g]
  IN  /\ In(n, g, "remove")
      /\ t.i \in DOMAIN t.block.txs
      /\ UTXOSet' = [UTXOSet EXCEPT
           ![n] = removeUTXO(@, t.block.txs[t.i].input.domain)]
      /\ Becomes(n, g, At("put", t.from, t.block, t.i, 0))
      /\ UNCHANGED <<now, mempool, blocks, lastHash, currentHeight, log,
                     accepted>>

\* The output is added.
addOutput(n, g) ==
  LET t == thread[n][g]
  IN  /\ In(n, g, "put")
      /\ t.i \in DOMAIN t.block.txs
      /\ UTXOSet' = [UTXOSet EXCEPT ![n] = addUTXO(@, t.block.txs[t.i].output)]
      /\ Becomes(n, g, At("add", t.from, t.block, t.i + 1, 0))
      /\ UNCHANGED <<now, mempool, blocks, lastHash, currentHeight, log,
                     accepted>>

\* The block and LastBlockKey are stored, and n.currentHeight++ reads the height.
storeBlock(n, g) ==
  LET t == thread[n][g]
  IN  /\ In(n, g, "add")
      /\ t.i \notin DOMAIN t.block.txs
      /\ blocks' = [blocks EXCEPT
           ![n] = {b \in @ : HashOf(b) # HashOf(t.block)} \cup {t.block}]
      /\ lastHash' = [lastHash EXCEPT ![n] = HashOf(t.block)]
      /\ Becomes(n, g, At("count", t.from, t.block, t.i, currentHeight[n]))
      /\ UNCHANGED <<now, UTXOSet, mempool, currentHeight, log, accepted>>

\* Mutant: only the blocks of the own miner are counted.
finishBlock_OwnOnly(n, g) ==
  LET t == thread[n][g]
  IN  /\ In(n, g, "count")
      /\ currentHeight' = [currentHeight EXCEPT ![n] = IF g = "miner" THEN t.height + 1 ELSE @]
      /\ mempool' = [mempool EXCEPT ![n] = removeTxsFromMempool(@, t.block)]
      /\ accepted' = IF g = "listener"
                     THEN [accepted EXCEPT ![n][t.from] = @ + 1] ELSE accepted
      /\ Becomes(n, g, Idle(n))
      /\ UNCHANGED <<now, UTXOSet, blocks, lastHash, log>>

\* n.currentHeight++ writes; the block's transactions leave the mempool; for a
\* listener the handler succeeds and the rumor is accepted.
finishBlock(n, g) ==
  LET t == thread[n][g]
  IN  /\ In(n, g, "count")
      /\ currentHeight' = [currentHeight EXCEPT ![n] = t.height + 1]
      /\ mempool' = [mempool EXCEPT ![n] = removeTxsFromMempool(@, t.block)]
      /\ accepted' = IF g = "listener"
                     THEN [accepted EXCEPT ![n][t.from] = @ + 1] ELSE accepted
      /\ Becomes(n, g, Idle(n))
      /\ UNCHANGED <<now, UTXOSet, blocks, lastHash, log>>

-----------------------------------------------------------------------------
addBlockToBlockchain(n, g) ==
  \/ addTransaction(n, g) \/ removeInput(n, g) \/ addOutput(n, g)
  \/ storeBlock(n, g) \/ finishBlock(n, g)

Next ==
  \/ Tick
  \/ \E n \in Node : \E tx \in Sent[n] : handleTransactionMessage(n, tx)
  \/ \E n, o \in Node : handleBlockMessage(n, o)
  \/ \E n \in Node : validateBlock(n)
  \/ \E n \in Node : createCandidateBlock(n) \/ stopMining(n) \/ mineBlock(n)
  \/ \E n \in Node : \E g \in Goroutine : addBlockToBlockchain(n, g)

Spec == Init /\ [][Next]_cvars

\* Goroutines that can run do run, and the gossip layer hands a rejected block
\* over again and again.
Fairness ==
  /\ \A n \in Node : WF_cvars(validateBlock(n))
  /\ \A n \in Node : \A g \in Goroutine : WF_cvars(addBlockToBlockchain(n, g))
  /\ \A n, o \in Node : SF_cvars(handleBlockMessage(n, o))

FairSpec == Spec /\ Fairness

-----------------------------------------------------------------------------
(* Properties. *)

\* A set of entries that contains the output of every NameNew transaction, and
\* the output of every other transaction whose input it contains.
Closed(s) ==
  \A tx \in AllTx :
    tx.type = "NameNew" \/ (\E u \in s : [domain |-> u.domain, owner |-> u.owner] = tx.input) => tx.output \in s

\* Every domain entry of every node has a lineage: a NameNew transaction, and
\* then transactions each of which names the owner of the entry before it.  No
\* interleaving of a listener and a miner that add blocks on the same UTXO set,
\* with partly added and repeatedly added blocks, makes an entry that its
\* previous owners did not hand over.
Outputs == {tx.output : tx \in AllTx}
OwnershipLineage ==
  \A s \in SUBSET Outputs : Closed(s) => \A n \in Node : UTXOSet[n] \subseteq s

\* The inductive invariant behind it: also the output that a goroutine is about
\* to add, for an input it found earlier, has a lineage.
LineageInv ==
  \A s \in SUBSET Outputs : Closed(s) =>
    /\ \A n \in Node : UTXOSet[n] \subseteq s
    /\ \A n \in Node : \A g \in Goroutine :
         LET t == thread[n][g]
         IN  t.pc \in {"remove", "put"} /\ t.i \in DOMAIN t.block.txs
               => t.block.txs[t.i].output \in s

\* Nothing is left to do: every transaction is mined, every block accepted.
Quiescent ==
  \A n \in Node :
    /\ mempool[n] = {}
    /\ \A g \in Goroutine : In(n, g, "idle")
    /\ \A o \in Node \ {n} : accepted[n][o] = Len(log[o])

\* When nothing is left to do all nodes have the same entries, although they
\* add the blocks of different miners in different orders.
Converged == Quiescent => \A n1, n2 \in Node : UTXOSet[n1] = UTXOSet[n2]

\* Every block a node broadcasts is accepted by every other node.
BlocksReachAll ==
  \A n, o \in Node : \A k \in 1 .. MaxBlocks :
    n # o => (Len(log[o]) >= k ~> accepted[n][o] >= k)

\* A set that contains the stored block LastBlockKey names and, with every block,
\* the stored block that is its parent.
WalkClosed(n, s) ==
  \A b \in blocks[n] :
    HashOf(b) = lastHash[n] \/ (\E c \in s : c.prev = HashOf(b)) => b \in s

\* The blocks the walk of PrintAllNonces meets: it goes from the last block from
\* parent to parent and stops at a hash that the store has no block of.
PrintAllNonces(n) ==
  {b \in blocks[n] : \A s \in SUBSET blocks[n] : WalkClosed(n, s) => b \in s}

\* The walk of PrintAllNonces meets every block in the store: no block is left
\* on a branch, and no block on the way is missing.
WalkComplete == \A n \in Node : blocks[n] \subseteq PrintAllNonces(n)

\* While no block is being added, the height is the number of blocks stored.
HeightCounts ==
  \A n \in Node :
    (\A g \in Goroutine : ~In(n, g, "count"))
      => currentHeight[n] = Cardinality(blocks[n])

\* Adding an entry never replaces the entry another owner has of that domain:
\* who takes a domain over has spent the old entry first.
NoDuplicateClaim ==
  [][\A n \in Node : \A u \in UTXOSet[n] : \A v \in UTXOSet'[n] :
       u.domain = v.domain => u.owner = v.owner]_cvars

\* Spending consumes: a node never has more entries than names were claimed.
SpentOnce ==
  \A n \in Node :
    Cardinality(UTXOSet[n]) <= Cardinality({tx \in AllTx : tx.type = "NameNew"})

-----------------------------------------------------------------------------
(* What has to be true of the clients for some of these properties.          *)

\* Clients send their transactions to one node, so one node mines.
OneMiner == \E m \in Node : \A n \in Node \ {m} : Sent[n] = {}

\* An entry is looked up by domain and owner.  All transactions but claims spend
\* the entry they name; some replace it by an entry of the same domain and owner.
Entry(u) == [domain |-> u.domain, owner |-> u.owner]
Spends(tx) == tx.type # "NameNew"
Renews(tx) == Spends(tx) /\ tx.input = Entry(tx.output)

\* Every name is handed on in one line: a transaction is sent once, to one node,
\* an entry is spent by one transaction and, but for its renewal, made by one, and
\* a domain is claimed or revealed by one.
OneLine ==
  /\ ~Resend
  /\ \A n, o \in Node : n # o => Sent[n] \cap Sent[o] = {}
  /\ \A s, t \in AllTx :
       /\ Spends(s) /\ Spends(t) /\ s.input = t.input => s = t
       /\ ~Renews(s) /\ ~Renews(t) /\ Entry(s.output) = Entry(t.output) => s = t
       /\ /\ s.type # "NameUpdate" /\ t.type # "NameUpdate"
          /\ s.output.domain = t.output.domain
          => s = t
=============================================================================
