# Verification of the Peerster node

This directory holds TLA+ models of the peer-to-peer node in `src/` and of the web
page that shows it, the TLC
configurations that check them on small instances, and proofs of their central
properties that TLAPS checks for every instance.

    tlc -workers 2 -config MCGossip_live.cfg MCGossip     a run
    tlapm GossipProofs.tla                                the proofs of a module

`PROJECT.json` lists the components, the runs, the source lines every definition
stands for, a mutant of the code model for every property (the property fails
when the mutant is put in its place), the findings, the hazards and the theorems.

## 1. The system

A node (`peer/impl/node.go`) is a Go process with a socket, a message registry, a
storage and the following goroutines between `Start` and `Stop`:

| goroutine | code | does |
|---|---|---|
| listener | `routines.go` `listen` | receives one packet at a time, and handles or relays it |
| heartbeat, anti-entropy | `routines.go` | tickers that broadcast an empty rumor and send a status |
| miner | `pow.go` `minerRoutine` | builds, mines, broadcasts and adds a block |
| watcher, one per mining attempt | `pow.go` `attemptToMine` | stops the attempt when a transaction arrives |
| `broadCastRoutine`, one per rumor | `routines.go` | sends a rumor to a random neighbour |
| `waitForAck`, one per rumors packet sent | `status_ack.go` | waits for the ack, resends after a timeout |
| callers of the API | `communication.go`, `data_sharing.go`, ... | tests, the HTTP node, the miner |
| `ExecAll`, one per packet processed | `registry/standard/standard.go` | calls the notification callbacks of the pages |

A browser shows one page per node (`gui/web/node.html`, `main.js`). Its controllers
call the HTTP interface of the node (`gui/httpnode`) and listen to a stream of packets.
They run on Stimulus (`stimulus.js`), which connects a controller to each element
that names it in `data-controller`. The page has one thread, but every operation is
asynchronous: it goes on when an answer, a record of a DOM change or a packet comes.

### Inventory

| component | state | operations | talks to | correct when |
|---|---|---|---|---|
| gossip | neighbours, routing table, `seqNumber`, `receivedSeq`, `rumorDB`, ack channels | `Broadcast`, rumor, status and ack handlers, resend, tickers, `AddPeer` | transport below, message handlers above | rumors of an origin are handled once, in order, under one number each, and reach all |
| name registry | `UTXOSet`, `mempool`, blockchain store, `currentHeight` | transaction and block handlers, `addBlockToBlockchain`, candidate block | gossip carries blocks; listener and miner share the state | a name has one owner, who got it from the owner before; all nodes agree |
| miner and life cycle | `newTxCh`, `stopCh`, wait group | `minerRoutine`, `attemptToMine`, `mineBlock`, `Stop` | listener notifies, watcher stops | a waiting transaction is mined; `Stop` returns, and after all goroutines |
| token | balances in a `SafeMap` | `AddAddress`, `Mint`, `Burn`, `Transfer` | callers of the API | the supply is the sum of the balances |
| data sharing | catalog, blob store, pending and handled requests | `Upload`, `Download`, `Resolve`, request and reply handlers | unicast | a download returns what was uploaded, or an error |
| search | handled requests, reply channels | `SearchAll`, `SearchFirst`, request and reply handlers | unicast, naming and blob stores | replies are those of the request, budgets are kept |
| unicast and relaying | routing table, header TTL | `Unicast`, `relayPacket`, `SetRoutingEntry` | transport | a packet gets to its destination or is dropped |
| message registry | handler and callback tables, locks | `RegisterMessageCallback`, `RegisterNotify`, `ProcessPacket`, `ExecAll` | every handler, pages | pages see every packet, in one order; no caller waits for ever |
| HTTP node | a channel per page that listens | `pktNotifyGet`; the other handlers call the peer once | registry, peer, page | a page that leaves harms nobody |
| page of a node | views, flash messages, operations under way, `socketAddr`, the `EventSource` | the handlers of 11 controllers, before and after their `await` | HTTP node, Stimulus | what is shown is true and not older than it must be; failures are told |
| Stimulus | known elements and tokens, reference counts, scopes, modules, contexts, bindings | `start`, `stop`, `register`, `unload`, mutation records, events | DOM, controllers | a controller is connected exactly while its element names it in the page; an event reaches the innermost one |
| transports | incoming queue per socket, disruption buffers | `CreateSocket`, `Send`, `Recv`, `Close` | everything | bounded queues, timeouts, loss and delay as configured |
| storage | a map, or one file per key | `Get`, `Set`, `Delete`, `ForEach` | registry, sharing | survives a restart (file store) |
| `SafeMap`, `SafeCatalog` | a locked map | one lock per method | everything | each call is atomic |
| polypus, binary node, test helpers, `viz.js` | - | drivers around the peer, graph rendering | API | not part of the protocol |

### What is hard

* Blocks, transactions and heartbeats travel in rumors, and rumors through loss,
  duplication, reordering, full queues and failing handlers. Handling one rumor is
  several steps (store, handle, count, ack, forward) and each may fail.
* The listener and the miner run `addBlockToBlockchain` on the same UTXO set
  without a common lock; the SafeMap makes each call atomic, not their sequence.
* A `select` of the miner, of its current watcher and of watchers left behind all
  receive from `newTxCh`, and `Stop` closes it under them.
* `Broadcast` announces a number before the rumor with that number is stored, and the
  user, the heartbeat and the miner call it at the same time, without a lock.
* The callback of a page that left stays registered; when its channel is full,
  `ExecAll` keeps the lock for ever and `ProcessPacket` times out on every packet.
* Answers to the page come in any order, when inputs and views have changed.
* Stimulus processes records of changes when the DOM has moved on, with modules
  loaded and unloaded and the observer stopped and started in between.

The full list, with the lines and the property that covers each, is `hazards` in
`PROJECT.json`.

## 2. Modules

| module | models | rests on |
|---|---|---|
| `FifoBroadcast` | what gossip promises: nodes publish rumors, and deliver those of an origin in order, once | - |
| `Gossip` | `communication.go`, `rumor.go`, `status_ack.go`, `heartbeat.go`, `neighbors.go`, the gossip handlers of `handlers.go`, the channel transport's queue | refines `FifoBroadcast` |
| `NameChain` | `blockchain.go`, the transaction and block handlers, candidate blocks of `pow.go` | blocks are handed over as `FifoBroadcast` promises |
| `Miner` | `minerRoutine`, `attemptToMine`, `mineBlock`, `Stop` | says when `NameChain`'s miner runs |
| `Feed` | `ProcessPacket` after the handler, `notifications`, `pktNotifyGet` | - |
| `Page` | `main.js`, the order of the elements of `node.html` | packets come as `Feed` promises; controllers connect in the order of the DOM, as in `Stimulus` |
| `Stimulus` | the observers, scopes, modules, contexts, bindings and event routing of `stimulus.js` | - |
| `MCGossip`, `MCNameChain`, `MCMiner`, `MCFeed`, `MCPage`, `MCStimulus` | instances for TLC | |
| `GossipProofs`, `GossipRefinement`, `NameChainProofs`, `MinerProofs`, `FeedProofs`, `PageProofs`, `StimulusProofs`, `StimulusSyncProofs` | proofs | |

A definition named `X_Y` with the comment "Mutant" is a broken form of `X` that the
specification does not use.

### Gossip

The variables have the names of the fields of `node`, and are functions from nodes.
Added to them: `call`, where each goroutine that calls `Broadcast` is in it, with its
local variables; `outbox`, the rumors of running `broadCastRoutine`s; `waiters`, the
running `waitForAck`s, with what is in their channel; `job`, where the listener is in
`handleRumor`; `net`, the incoming queues; `lost`; and `created`, history: every rumor
that was ever built.

* Any number of goroutines (`Caller`) call `Broadcast`, which is a step per access to
  what they share: `Broadcast` reads the counter, `updateSeqNumber` writes it,
  `announceOwn` writes `receivedSeq`, `createRumor` reads the counter again,
  `storeRumorGet` and `storeRumorAdd` are the two calls of the SafeMap in `storeRumor`.
  The message is drawn when the rumor is built: nothing before depends on it.
* `Serial(n)` says that one goroutine of `n` calls `Broadcast`. What a property says of
  the own rumors of a node it says of serial nodes; what it says of the rumors of
  others holds however many callers a node has. `FifoBroadcast` is refined when
  all nodes are serial.
* The listener handles one packet at a time (`~job[n].active`). `handleRumor` is a
  step per rumor: `skipRumor`, `rejectRumor` (the rumor is stored, then the handler
  fails and `handleRumor` returns) and `acceptRumor` (store, handle, count, route,
  ack), and `forwardRumorsMessage` after the loop. Other goroutines move in between.
  The listener's `storeRumor` is one step: it works on the list of another origin,
  which no caller of `Broadcast` touches. A rumor of its own origin that comes back is
  expected only where several callers have put the own counters out of step; there the
  overlap of the listener's two calls with a caller's is left out, as is the memory
  that two slices of the list share.
* `handleAckMessage` meets a waiter that has not registered or has gone, one with room
  in its channel, one whose channel is full, where the listener waits until the waiter
  has taken the first ack, or one that closes the channel first: then the send panics,
  `ProcessPacket` recovers, and the status in the ack is not handled.
* `compareViews` is `StatusReplies`, with its four cases and the order of its sends.
* A send to a full queue fails after its timeout: `CanSend`, and every caller's
  reaction to the failure.
* Loss is `losePacket`. A queue is a set: packets are taken in any order, which
  includes those of the delaying transports. Two equal packets are one.
* Handlers of embedded messages end as `Outcome` allows. The heartbeat is a
  `Broadcast`. A random choice (neighbour, continue mongering) is a choice.
* The `PacketID` is abstracted to source, destination and rumors, so a waiter may also
  take the ack of an earlier packet with the same three.

### NameChain

`UTXOSet`, `mempool`, `currentHeight` are the fields; `blocks` and `lastHash` the
blockchain store; `log` and `accepted` the gossip layer: `log[o]` is what `o`
broadcast, and the next block of `o` is handed over until its handler succeeds, which
is exactly what `Gossip` does with a rumor (`rejectRumor`, `acceptRumor`, checked
against `FifoBroadcast`). `thread[n][g]` says where a listener or miner is.

* `handleBlockMessage`, then `validateBlock` one transaction at a time, then
  `addTransaction`, `removeInput`, `addOutput` per transaction (one step per call of
  the SafeMap), `storeBlock` and `finishBlock`. An input that is gone ends
  `addBlockToBlockchain` in the middle of a block, with the writes made so far kept.
* `n.currentHeight++` is a read (in `storeBlock`) and a write (in `finishBlock`).
* The miner broadcasts its block (`mineBlock`) before it adds it, and does not
  validate it.
* `PrintAllNonces` is the set of blocks its walk meets: the least set with the last
  block that contains with every block the stored block that is its parent, so the walk
  ends at a hash of which the store has no block. Blocks that cannot be decoded do not
  occur: the store holds only what `Marshal` wrote.
* A block's hash is the list of its transactions and its ancestors': SHA256 is taken
  to be injective, and `computeBlockHash` leaves the nonce out.

### Miner

One node from `Start` to `Stop`. `tokens` is the length of `newTxCh`. A watcher of a
block with room (`"room"`) ends the attempt with the first token; one of a full block
(`"full"`) swallows tokens. When the block is mined nothing ends the watcher: it
becomes one of `loose`. `Stop` closes `stopCh`, closes `newTxCh`, and waits for the
wait group in three steps. A send on the closed channel panics in a handler, which
`ProcessPacket` recovers, so the listener goes on.

### Feed

`proc[q]` is a goroutine in `ProcessPacket` (the listener, or a sender that processes
its own rumor); `runs` are the goroutines of `ExecAll`, of which one holds the lock;
`notif` is the list of callbacks, each standing for its connection.

* `ProcessFailed` is every way out before `ExecAll`: an unknown message, no handler, a
  handler that fails or panics. `ExecCallback` is `pkts <- p` and waits for room.
* `ProcessTimeout` leaves the `ExecAll` goroutine behind, which may be overtaken.
* `ContextDone` does not unregister the callback, as in the code.
* The time of 20 seconds is abstracted: the timeout may come at any moment while the
  callbacks run. `GetMessages` and its list are left out, as are handler
  registrations: they happen in `NewPeer`, before the first packet.

### Page

`calls` are the operations that wait for an answer, with the inputs captured before
the `await`; `table`, `graph` and `content` are the versions of the node's tables that
the views show, and `shown` the text in the others. The first half of a handler (check
inputs, capture, request) is an action with the handler's name, and the second half
one that begins with the answer (`sendEnds`, `updateTable`, ...). The node is one action
per HTTP handler (`routingGet`, `unicastPost`, `searchPost`, ...), each of which carries
the request out or refuses it as the handler does (`namingGet` refuses only an empty
name), and `handleRumor` and `handleSearchReplyMessage`, which change its tables by
themselves. `loses` is a connection that fails before or after the node carried out the
request, and `otherServer` a server at the address in the query that is not the node.

* `connect` is the load of the page: a step per controller, in the order of the
  elements. Without a connected `peerInfo` (`NoPeerInfo`) `Packets.initialize` throws
  and opens no `EventSource`, while `Routing` and `Catalog`, whose `update` is
  asynchronous, get a rejected promise and ask for nothing; `initialized` are the
  controllers that did all they do.
* Any number of operations of any sections may overlap: `MaxOpen` bounds how many a user
  starts (`Slot` has three more, for the calls of loading) and `Work` which sections one
  behaviour uses. Both are bounds of the runs; the proofs hold for all their values.
* `flash` counts the messages of each kind that are shown (`MaxFlash` bounds them), so
  that a failure has to print an error of its own; what they say is left out.
* `told` and `since` are history: how many changes the page had seen succeed when an
  update began, for `NeverOlder`.
* Layout is left out: the collapsible sections, scrolling, the log of raw packets.

### Stimulus

`place` and `attr` are the DOM: an element has a parent and a list of tokens in
`data-controller`, or no such attribute. `records` are the mutation records for the
router's observer and `bindRecords[c]` those for the observer of the actions of
context `c`; `elements`, `tokens`, `refs`, `scopes`, `modules`, `connected` and
`bound` are the maps of the classes, under short names. A scope is an element and an
identifier, and a scope has one context.

* Scripts change the DOM at will, and the browser delivers the records between
  scripts, one record per step. Callbacks of controllers may load, unload and stop in the middle
  of a batch; they do not change elements that hold controllers (on this page they
  append flash messages, messages and table rows).
* An observer still sees a tree that was removed until the record of the removal is
  delivered, as the DOM standard says (`Sees`).
* `elementsChange` is the path through `AttributeObserver`, `TokenListObserver` and
  `ValueListObserver` to `ScopeObserver`: only the tokens from the first one that
  differs go and come. `scopesChange` counts them, `scopesConnect` is the router.
* `data-action` is constant (`Acting`); an action listens at its own element, without
  options. `handleEvent` is a function of the state, for `InvokesInnermost`: the set of
  contexts that the loop over the bindings invokes. Their order by index and the break on
  `immediatePropagationStopped` are left out; the page stops no propagation.
* `stop` is `Application.stop`: the dispatcher no longer listens and the observer stops
  (`observerStops`). Contexts and their bindings stay.
* `NestingAssumption`: scripts put elements into each other in one order, as this
  page does, which appends messages, rows and results to fixed containers. `BoundRight`
  needs it, and so does the code: `processRemovedNodes` looks at the tree of the
  removed node as it is when the record is processed. When `r` leaves the element of a
  context, and that element is then put into `r`, the record of the first change takes
  all bindings of the context away, its own included.
* `missed` is history: elements whose attribute changed while no record of it was
  kept, which `refresh` does not find when the application starts again.
* Left out: values, classes and targets, blessing of constructors, parsing of action
  descriptors, errors of controllers (they are caught and logged), polyfills.

## 3. Runs

`pass` runs, with their bounds and why they are enough:

| run | shows | instance |
|---|---|---|
| `gossip_resend` | `TypeOK`, `Integrity`, `NoGap`, `TruthfulStatus`, `AckedSome`, `InOrderOnce`, `ImplementsFifoBroadcast` | three nodes, of which only the middle one has peers: the origin of two rumors, and a node it adds while it runs. It fetches the rumors with its status ticker, its handler may reject them, it forwards them, and after an ack timeout resends them to the other neighbour; queues of one, so that sends fail |
| `gossip_live` | `DistributedToAll` | two nodes, two rumors, one loss, no ack timeouts: the status ticker alone repairs the loss |
| `chain_converge` | `Converged`, `SpentOnce`, `OwnershipLineage`, `BlocksReachAll` | two nodes, two blocks each: claim and hand-over at one, reveal and another claim at the other, so that a block which spends an output of the other node's block may arrive first, and the listener and the miner of a node add blocks at the same time; somebody who owns nothing reveals the claim |
| `chain_follower` | `TypeOK`, `OwnershipLineage`, `WalkComplete`, `HeightCounts` | one miner, one follower, three blocks, two reveals of one claim, an update by somebody who never owned the name; transactions expire, resends, blocks that fail halfway |
| `miner_stop` | `TypeOK`, `StopInv`, `StopWaits`, `StopReturns`, `ListenerUnblocks` | three transactions, a channel of capacity one, blocks of two, up to four watchers left behind, own blocks that fail, `Stop` at any moment |
| `stimulus` | `TypeOK`, `OneLife`, `RefsCount`, `InSync`, `BoundRight`, `InvokesInnermost`, `DetachedDisconnects` | two nested elements with controllers of one identifier and a button inside, a list that repeats an identifier, two changes per script |
| `page` | `TypeOK`, `AllInitialize`, `SentIsTrue`, `SavedAsAsked`, `PlaceholderEnds`, `NeverOlder`, `FailuresReported` | each section in turn, two values, two operations at a time, up to two flash messages of a kind, two changes of the node's tables, own and foreign packets |
| `feed` | `TypeOK`, `InOrderPerProc`, `SameFeed`, `FeedLive`, `ProcessReturns` | two goroutines, two packets of which one may fail, two connections, channels of capacity one |

`violation` runs: what the code does against what its comments say (details and
quotations under `findings`).

| run | what happens |
|---|---|
| `gossip_callers` | two goroutines of a node read one counter value, and build two rumors with one sequence number |
| `chain_claims` | two claims of one name are both valid, and the second replaces the first |
| `chain_spends` | listener and miner find one claim, and both spend it |
| `miner_notified` | the watcher takes the token of a new transaction, and the miner sleeps with it in the mempool |

`DistributedToAll` is stated for messages that no handler rejects. A rumor whose handler
fails is stored and not counted, so it stays the next one of its origin, and while its
handler keeps failing all later rumors of that origin are blocked at that node; the
status ticker asks for it for ever. `rejectRumor` models this, and the safety properties
of `gossip_resend` hold with it.

`SpentOnce` appears twice: it holds where every name is handed on in one line
(`chain_converge`) and fails where two transactions spend one output.
`WalkComplete` and `HeightCounts` are
properties of the follower run only, where one node mines: no check compares
`PrevBlockHash` with the last block, so two nodes that mine at once store both blocks
and the walk misses one; and `n.currentHeight++` in two goroutines loses an increment.
`BlocksReachAll` and `Converged` are checked with each transaction sent once and the
clock stopped: a transaction mined by two nodes, or expired on the way, makes a block
that some node refuses for ever. What each property needs is a hypothesis of its theorem
(`OneMiner`, `OneLine`, section 4); the assumption `MCHypotheses` of `MCNameChain` has TLC
evaluate that `chain_follower` and `chain_converge` are instances of them.

Properties of the page and the feed are stated with what the code does not promise:
`NeverOlder` bounds the age of a shown table and does not say that the newest answer
wins (the last one does); `PlaceholderEnds` lets a failed search leave "searching";
`FailuresReported` says that a failure adds one error message, and names the two that
add none, a refused socket address and a file that cannot be read;
`InOrderPerProc` stops at the first timeout, `FeedLive` at the first page that leaves,
whose full channel then stops the feed of all. Sends and packets are in separate
behaviours of the run `page`; `SentMessagesAreTrue` (section 4) has no such bound. `InSync` excepts elements whose
attribute changed behind a stopped observer: they stay stale until their next change.

**Bounds.** `Quota`, `MaxLoss`, `QueueCap` (100 in the code), `MaxBlocks`, `MaxTime`,
`Cap` (100), `MaxTxPerBlock` (3; 1 or 2 in runs, so that a block is full with few
transactions), `MaxLoose`, `ChanCap` (100), `MaxConn`, `MaxVersion`, `MaxOpen`,
`MaxFlash`, `Work` and `MaxRecords` bound the runs. Two rumors of an origin are the least
that can be out of order; one loss is the least that needs recovery; queues of one
make sends fail early (in `gossip_live` the queues never fill). `MaxLoose` of four is never reached with three
transactions. A channel of one is full after one packet; two connections are the
least that can disagree. Two overlapping operations are the least that can end in the
wrong order. Two changes in a script are the least that a record can be stale for
(added and removed, removed and changed); the number of scripts is not bounded.
The theorems below hold for all values.

**Deadlock.** `gossip_resend` and `gossip_live` check that the system never
stops: a ticker is always able to send. `stimulus` checks that a script can always
go on. Elsewhere the clients run out of transactions, packets or changes and `Stop`
returns, so these runs may end.

**Fairness.** Weak fairness for goroutines that can run: the Go scheduler is fair.
Strong fairness where a choice is drawn again and again: the ticker draws each
neighbour (`rand`), a `select` draws each ready case, a challenge that meets the
target is found, the listener takes packets in the order of a queue, and a rejected
block is handed over again since statuses keep asking for it. Packets are not assumed
to arrive: losses are bounded by `MaxLoss`, and recovering from them is what
`gossip_live` is about. In `Feed` goroutines run, a timer fires, and a waiter gets the
lock in the end (a Go mutex hands itself over to a waiter that starves); pages are not
assumed to connect, nor packets to come. In `Stimulus` the browser delivers records
(`WF` of `processMutation`): microtasks run when a script ends.

## 4. Proofs

For every set of nodes, callers of `Broadcast`, messages, transactions and owners, every
topology, queue capacity, number of losses, block size and number of open operations, under the named assumption of each module
(`GossipAssumption`, `NameChainAssumption`, `MinerAssumption`, `FeedAssumption`,
`PageAssumption`, `StimulusAssumption`: the types of the constants, that transactions
are finitely many, that nobody is its own bootstrap peer, and that the values a user
types are told from packets), and for every document, set of identifiers and lists of
tokens in which elements nest in one order (`NestingAssumption`, see Stimulus above):

* **Gossip** (`GossipProofs`): `TypeCorrect`, `IntegrityHolds`, `NoGapHolds`,
  `TruthfulStatusHolds`, `AckedSomeHolds`, all from the inductive invariant `IInv`, for
  any number of callers. None of them is inductive alone. That a rumor is genuine needs
  that all copies that may come back are (`StoresGenuine`, `WaitersClean`, `JobsClean`,
  `PacketsHonest`), those in the lists of running calls included (`CallsClean`). `NoGap`
  needs to know, of a serial node, how the counter, the own entry of `receivedSeq` and
  the rumor of the running call fit together at each point of the call (`OwnNumbers`);
  `TruthfulStatus` needs `NoPhantom`.
* **Refinement** (`GossipRefinement`): `InOrderOnceHolds`, and
  `GossipImplementsFifoBroadcast`: if every node is `Serial`, every step of `Gossip` is a
  step of `FifoBroadcast`, or changes nothing it sees. With two callers of one node it
  is false: two rumors are published with one number (`gossip_callers`). A rumor is
  published when it is built. `delivered[n]` is what `n` holds and counts, so a rumor
  that was stored and rejected is not delivered.
* **NameChain** (`NameChainProofs`): `TypeCorrect` (no block exceeds
  `MaxTxPerBlock`), and `OwnershipLineageHolds`. Lineage is "in every closed set", so
  no induction over chains of transactions is needed: the invariant (`LineageInv`) is
  that each closed set contains the entries and the outputs that a goroutine which
  found its input is about to add, although the input may be gone by then.

  The other properties are false for some clients (the violations above), so their
  theorems name what the clients have to do, as a condition on `Sent` and `Resend` only:
  nothing is assumed of schedules, of the number of nodes or of blocks, or of the clock.
  All rest on `Places`: where a goroutine is in its block, that a miner adds the last
  block it broadcast, and a listener the first one of an origin it has not accepted.

  - `OneMiner`: clients send to one node. They may resend, spend an entry twice, claim a
    name twice, and blocks may fail halfway. Then `WalkCompleteHolds`,
    `HeightCountsHolds` and `ConvergedOneMiner`, from `OneMinerInv`: nobody else mines
    (`Lone`), the stored blocks of a node are the line that ends at its last block
    (`ChainOf`), and some history `S` of entries explains the miner's log (`TraceInv`).
    `S[k][i]` are the miner's entries before transaction `i` of its block `k`; it exists
    by a least-number argument (`FoldExists`) and grows with every block mined. The
    followers go through the same entries. A block that fails in the miner is in the log
    all the same, and the next one is mined on the hash before it and on half applied
    entries; the invariant therefore speaks of the blocks up to the first bad one, and
    says why no follower accepts it: its entries are those before the block, or those of
    its own failed attempt, on which the block does not validate.
  - `OneLine`: a transaction is sent once and to one node, no two spend one entry, no two
    make one (but for a renewal, which makes the entry it spends), and a domain is claimed
    or revealed once. Any number of nodes mine, and the two goroutines of a node add
    blocks at the same time. Then `SpentOnceHolds` and `ConvergedOneLine`,
    from `OneLineInv`. `Books` says over all nodes that a
    transaction is mined once, by the node it was sent to. `Local(n)` divides the
    transactions into those `n` has applied, those whose input a goroutine has removed
    and whose output it has still to add, and those found valid but not applied
    (`NodeInv`): the entries are the outputs of the applied ones that nobody has spent,
    one per domain, and each valid transaction still finds its input. So what a goroutine
    has validated stays valid while the other one adds a block, nothing fails halfway
    (`NothingFails`), an output finds its domain free (`NoClash`), and the entries of a
    node depend on the set of blocks added and not on their order (`SameEntries`).
    `SpentOnce` alone is not inductive, since an entry that is gone and not yet
    replaced must be counted.
* **Miner** (`MinerProofs`): `TypeCorrect`, `StopInvHolds`, `StopWaitsHolds`. `StopInv`
  says that the wait group is the number of goroutines that run, that only an attempt
  has a watcher, and that the counter stays at zero once `Stop` has returned.
* **Feed** (`FeedProofs`): `FeedTypeCorrect`, `PagesSeeOneFeed`, `PacketsInOrder`, for
  any number of goroutines, packets, connections and any channel capacity, from the
  inductive invariant `FeedInv`. Neither property is inductive: while an `ExecAll` runs,
  some pages have its packet and others do not. `Latest` and `NotYet` say which: it is
  the last packet of the pages whose callback was called, and no packet of the others.
  `Aligned` says that, apart from that packet, each page has a suffix of what every
  earlier one has; that needs `OneHolder` (one `ExecAll` at a time holds the lock, so
  nobody registers or feeds in between) and `Registered` (a page registers once and has
  nothing before). The order within a goroutine needs `OnePerPacket` and `Once`, and,
  in `InOrder`, that as long as nobody gave up the only packet of a goroutine that may
  still be handed out is the one it waits for.
* **Page** (`PageProofs`): `PageTypeCorrect`, `PageInitializes`, `SentMessagesAreTrue`,
  `DownloadsAreSavedAsAsked`, `PlaceholdersEnd`, and the action properties
  `UpdatesAreNeverOlder` and `FailuresAreReported`, from `PageInv`. The invariants are
  about what is shown, and what is shown comes from answers: so `CallsInv` says of each
  operation under way what its answer is worth. A send the node has answered is among
  the messages it took, with the inputs captured before the `await`; a downloaded
  content belongs to the metahash that was asked for; the version in an answer is at
  least the one the page knew of when it asked (`since`). `ToldIsTrue` bounds what the
  page knows of: the changes it has seen succeed, plus those answered and not seen yet,
  are no more than the node has made. `Loading` and `SocketShown` are what the load of
  the page and the display of the address add.
* **Stimulus** (`StimulusProofs`): `TypeCorrect`, `OneLifeHolds`, `RefsCountHolds`.
  `TypeOK` and `OneLife` are inductive only together: that a context is live at most
  once needs that it is connected exactly while its count is positive and its module
  loaded. The counts rest on two facts about lists: two lists have a first difference,
  in or just behind both of them (`FirstDifferingPlace`), and counting up to there and
  from there on gives the whole count (`CountSplit`, `CountRefreshed`). `RefsCount`
  needs that tokens are recorded for known elements only (`TokensKnown`): without it
  an element that comes would be counted twice.
* **Stimulus and the document** (`StimulusSyncProofs`): `BoundRightHolds`,
  `InSyncHolds`, `InvokesInnermostHolds`. The three properties speak of moments when
  all records are delivered; what is inductive is that *the records that wait put right
  what is wrong now*. `BindInv` says so of every context: an action in its element that
  is not bound has a record that brings it, a bound one that left has a record that
  takes it away, and an element which is in although a record takes it away is brought
  back by a later one (`BroughtBack`). `RouterInv` says the same of the elements the
  router knows (`WillFind`, `WillLose`), of attributes that went (`WillDrop`) and of
  lists that changed (`WillRefresh`). The fifth case took a weakening: an element that
  loses `data-controller` and then the page is not found by the record of the removal,
  so between that record and the end of the batch only elements with the attribute are
  promised to go. Records speak of nodes and are processed in the tree as it is then,
  so both invariants rest on lemmas about paths: what is around a node when an element
  is removed or appended (`RemovedPath`, `AppendedPath`), that the nodes around one lie
  around each other (`PathChain`), and in no circle (`PathAntisymmetric`). `Path` is a
  recursive function; that it is the least set closed under "parent of" is proved by
  least counterexample (`PathBasics`), once that the function exists is (`StepsExist`).
  `InvokesInnermost` follows from the other two and the lemmas about paths.

Only model-checked: liveness (`DistributedToAll`, `BlocksReachAll`, `StopReturns`,
`ListenerUnblocks`, `FeedLive`, `ProcessReturns`, `DetachedDisconnects`), since the
prover has neither fairness nor ENABLED; and the violations. Every invariant and action
property of the passing runs is a theorem. The induction theorems of the library, which
take an operator, are out of the provers' reach; where an induction was needed (`Path`,
`FoldExists`) it is an argument by a least number.

## 5. Not modelled, and the plan

In this order:

1. `AckWait`: `waitForAck` during `Stop`: a waiter that leaves on `stopCh` leaves its
   channel registered, and a second ack blocks the listener.
2. `Token`: concurrent `Mint`, `Burn`, `Transfer`; the supply as an abstract
   specification; the transfer to oneself; 64-bit balances.
3. `Routing`: `Unicast`, `relayPacket`, `SetRoutingEntry` and the routes learnt from
   rumors; that relaying ends.
4. `DataSharing`: `Upload`, `Download` with back-off, lost and repeated requests that
   are answered once, the catalog.
5. `Search`: budgets (a pure division, checked against a reference), expanding ring,
   late replies, repeated requests.
6. `Transport` (sockets, timeouts, `Close`, the delay and jam buffers).
7. Restart with the file store: the sequence number starts at 1 again while the peers
   remember, and expired transactions in blocks that arrive late.

Theorems to come with them: conservation of the supply in `Token` for serial callers, the bound on the sum of
budgets in `Search`, soundness of `Download`, and that no packet in `Routing` is
handled by a node other than its destination.

In the parts that are modelled: `ProcessPacket` returns with the read lock held when a
message has no handler (`standard.go` line 54), after which a `RegisterMessageCallback`
would wait for ever, but nothing registers after `NewPeer`; values, classes and targets of Stimulus, which hold no state of
their own (targets and classes) or which this page does not use (values).

Where the code differs from what a comment says, and no run shows it:

* `peer/service.go` line 11: `Stop` "must block until all goroutines are done".
  `Broadcast` starts `broadCastRoutine` outside the wait group (`communication.go` line
  144), so `Stop` may return while it has still to send. `Miner` counts these goroutines
  in `senders`; `StopWaits` is about those in the wait group.
* `main.js` line 59: "The caller should exit if this function returns false."
  `Naming.resolve` ignores what `checkInputs` returns and asks for the empty name, which
  the node refuses (`resolve` and `namingGet` in `Page`).
* `registry/registry.go` line 27: the callback is "called each time Process packet is
  called". When the handler is missing or fails, `ProcessPacket` returns before
  `ExecAll` (`ProcessFailed` in `Feed`).
* `types/messaging_def.go` line 13: a rumor is to be distributed to all nodes; one that a
  handler rejects is not, and blocks its origin there (section 3).

Left out for good: `viz.js` (third-party and generated code that renders graphs), the
layout of the page, polypus, the binary node, traffic graphs and test helpers; logging
and printing; the contents of messages; signatures and hashing as such (SHA256 is
injective here).
