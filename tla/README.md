# A verification development for difs-chain (x-chain)

TLA+ models of the core logic of this repository, a fork of cpp-ethereum with a
PBFT sealer, TLC runs that check them on small instances, and theorems about
them that TLAPS proves for every value of their constants.

Everything is translated from the code under `src/`. The repository has no
tests and almost no documentation: the comments of the headers are the only
statement of intent, and `PROJECT.json` lists, under "findings", where the code
does not do what they say.

- `PROJECT.json`, "map": the lines of `src/` that each definition stands for;
  "runs": what TLC checks; "mutants": for every property a plausible bug that
  it catches; "hazards": what is hard to test in this code.
- `tlc -config X.cfg M` checks a run, `tlapm M.tla` the proofs of a module.

## 1. Inventory

The source is a partial import: `libp2p` and `libdevcore` are complete,
`libethereum` has the sources of about half of its headers (no BlockChain,
BlockQueue, TransactionQueue, BlockChainSync, State or ExtVM),
`libpdftseal/PBFT.cpp` ends after `generateCommit`, and `libsctpbftseal` is
empty.

| Component | State | Operations | Hard behaviour | What makes it correct |
|---|---|---|---|---|
| `Worker` (libdevcore): base class of every thread object | `m_state` (atomic), `m_work`, mutex `x_work` | startWorking, stopWorking, terminate; callbacks startedWorking, doWork, doneWorking | the state is changed by callers and by the thread without the lock; callbacks throw | callbacks never run while stopped or destroyed; no request is overwritten; every call returns |
| `Host`, life cycle (libp2p) | `m_run`, `m_timer`, acceptor, node table, Worker's state | start, stop, ~Host, run, doWork, doneWorking | client threads against the service thread, busy waits, a lock taken from inside a callback | no self-deadlock, nothing of the Host is used after it, a stopped Host holds nothing, calls return |
| `Host`, peers (libp2p) | `m_peers`, `m_requiredPeers`, `m_pendingPeerConns`, `m_connecting`, `m_sessions` | run, connect, startPeerSession, onNodeTableEvent, requirePeer, relinquishPeer, restoreNetwork | Peer objects replaced while in use, slots checked long before they are taken, shutdown that polls | sessions within slots, none after the shutdown, required peers stay and are retried |
| `Host`, public endpoint, with `Network` and `UPnP` | `m_listenPort`, `m_tcpPublic`, the router's mappings | tcp4Listen, determinePublic, traverseNAT, addRedirect | routers that map another port, preferences that overrule what was found | what is advertised leads to the port the node listens on |
| `NodeTable`, `UDPSocket` (libp2p) | `m_nodes`, buckets of weak pointers, `m_evictions`, timers; `m_sendQ` | addNode, noteActiveNode, evict, dropNode, onReceived, doDiscovery; send, read and write loops | UDP, late and repeated packets, weak pointers that expire, check-then-act on client threads, sizes of datagrams | buckets sound, only nodes that answered, the Host knows what the table holds; one write loop; an answer arrives whole |
| `RLPXHandshake` (libp2p) | `m_nextState`, `m_cancel`, `m_io`, idle timer, socket | transition, cancel, read and write handlers | cancel and timer against handlers already queued | ends always; no session from a cancelled handshake |
| `Session`, frame coder, reader, writer (libp2p) | `m_writeQueue`, `m_encFrames`, `m_dropped`, read buffer; cipher and MAC states; writer's queues | send, write, doRead, drop, disconnect; writeFrame, authAndDecrypt; mux, demux | senders on any thread, socket closed under pending operations, packets cut to frames | one write at a time, in order; a frame that is taken was written; packets arrive whole |
| `EthereumHost`, `EthereumPeer` (libethereum) | request state of each peer, known hashes, latest block sent, flags | doWork, interpret, requests, tick, answers | flags reset by one thread and set by others, late answers, arithmetic of ranges | each transaction once to each peer, blocks without gaps, a silent peer is left, answers are what was asked |
| `Client` (libethereum) | pre-seal, working and post-seal block, atomic flags, queues | doWork, syncs, rejigSealing, submitSealed, rewind, reopenChain | atomic flags against a condition variable, blocks replaced between locks | own blocks import, no transaction is lost |
| `ClientBase`, `LogFilter` (libethereum) | watches, filters, their changes | install, uninstall, check; estimateGas, logs | RPC threads against the client's, numbers reused, search by blooms | watches see each change once; questions are answered |
| `PBFTClient`, `PBFT` (libpdftseal) | view, height, working block | init, rejigSealing, generateSeal, generateCommit | three locks in one round, a block executed twice | what is signed was broadcast |
| `Block`, `Executive`, `Account` (libethereum) | pending block, receipts, gas, balances, nonces | sync, execute, enact, commitToSeal, seal; call, create, revert, finalize | exceptions and rollback at each depth, uncles, repeated commits | ether conserved, transactions atomic, blocks that we make are blocks that we accept |
| `GenericFarm`, `GenericMiner` (libethereum) | miners, work | start, stop, setWork, submitProof | miners submit while the farm waits for them | every call ends |
| `OverlayDB`, `TrieDB` (libdevcore) | reference counts, store, root | insert, remove, iterate, commit, rollback | shared nodes, merges on removal, failing writes, crashes | the trie is the map, nothing of it is lost, nothing is left over |
| `KeyManager`, `SecretStore` | keys, passwords, files | create, load, import, recode, kill, save | several files, crashes between them | a keys file opens with the user's password |
| VM (libevm) | stack, memory, gas, pc | every instruction; calls, creations | wrap-around, limits, gas of calls | within bounds; gas only falls |
| algorithms | - | RangeMask; Base64, hex, ICAP; DAG files; requests of headers | off-by-one, padding, killed processes | they agree with the set, the value, the file they stand for |
| the rest | - | - | - | vendored code, stubs, cryptographic primitives; see "components" |

How they interact: everything that has a thread derives from `Worker`.
`Host`'s thread polls one `io_service` whose handlers are the acceptor, the
scheduler `run()`, handshakes, sessions, the UDP socket and the node table, so
these never run concurrently with each other; client threads call into Host,
NodeTable and Session under their locks, or without. `NodeTable` tells `Host` of
nodes by coalesced events that `run()` processes. A `RLPXHandshake` ends in
`Host::startPeerSession`, which hands its coder and socket to a `Session`;
capabilities (`EthereumPeer`) interpret the packets. `EthereumHost` has a thread
of its own that spreads what the `Client` imported. The `Client`'s thread owns
three `Block`s, which execute transactions with `Executive` and the VM on a
`State` kept in tries; it hands work to a farm of miners or, as `PBFTClient`, to
the PBFT engine.

## 2. Plan

Done, in this order: `Worker`; `HostLifecycle` (extends Worker); `NodeTable`;
`HostPeers`; `RLPXHandshake` with the abstract `HandshakeOutcome`; `Session`,
`RLPXFraming`, `FrameCoder`; `UDPSocket`, `Datagrams`, `PublicEndpoint`;
`EthereumPeer`, `EthereumHost`, `HostData`; `Block`, `Client`, `PBFT` (both extend
Block), `BlockHeaders`, `Uncles`, `Watches`, `Queries`; `Executive`, `EVM`,
`Trie`; `Farm`, `Keys`, `Encodings`, `RangeMask`, `DAGFile`.

Proved: the modules of section 6, of which the first were those with threads and
connections. Left: proofs about `Client`, whose folds can be treated as those
of `Block` are in `PBFTProof`; ExtVM, State and the PBFT message handlers, once
their source is in the repository.

## 3. Modules and code

### Threads

*Worker.* A thread (`wpc`) and callers (`cpc`) that take `x_work`. Each access to
the atomic `m_state` is a step. Callbacks may throw, in which case
`doneWorking` is skipped, as in the code.

*HostLifecycle* extends `Worker`: the callbacks of the thread are those of Host,
and the steps of Worker that matter are conjoined with Host's. `run()` is the
operator the timer handler and startedWorking share. A handler may throw out of
`poll()` or `run()` of the io_service (RLPxHandshake.cpp:148-153 and 203-206 look
into what they decrypted without a try). doWork catches it with the timer armed,
and polls again only if m_run is set: a stop that has reset it then waits for
ever, though the network was being served. Out of doneWorking it ends the
callback, and whatever was not waited for stays (`cutShort`). `NetworkSaved` says
whether `restoreNetwork` has a file to read (and then calls `isWorking`, which
takes `x_work`); `StartMayThrow` whether startedWorking can fail after it armed
the timer.

*Farm.* `x_minerWork` is held by a client's call or tried by a miner;
the subclass that mines is not in the repository, and mines what it was kicked
off with until told to pause, which returns once its loop is left. `start` for
another sealer replaces the miners (`StartOther`, `Replace`), which waits for them.

*PBFT* extends `Block`: `rejigSealing` is four steps, one for each lock it takes;
view changes, new heads, submissions and resets come in between.

*EthereumHost.* doWork is a step for each flag it tests or resets and each round
it makes; the client and the sync set flags and import at any moment. Blocks of
the chain are their number; what a peer was told is a set. The queue of
transactions has an order, and a round takes the first `c_maxSendTransactions` of
it. `m_requireTransactions`, which would have a peer sent all of them, is set
nowhere in the repository.

### Network

*NodeTable.* Nodes are ids with an abstract bucket `bucketOf`; an entry is
`[id, gen]`, for `m_nodes` may replace the entry of an id while buckets,
evictions and discoveries hold the old one. A handler of a packet or timer is
one step. The network is any packet at any time. `afterRemoveIf` is what
`std::list::remove_if` does with the predicate of noteActiveNode.
*Datagrams* is what the packets carry and how many bytes they take; an answer that
comes `reqTimeout` after the question is dropped.

*HostPeers.* A Peer object is `<<id, gen>>`. `run()` takes several steps, one for
each node table event (client threads can act in between) and one for the
rest. `phase` is where the service thread is: startedWorking sets `m_run`, makes
the node table, restores the network and runs the scheduler in steps of their
own, and client threads may require peers from the first on; doneWorking drains
the acceptor, cancels handshakes and disconnects sessions, each followed by
polling the io_service, which lets handlers run. A handler may throw out of any of
these polls: what is left of doneWorking is skipped and the sessions may stay
(`cutShort`).
Handshakes are counters per id, sessions have the states connected, closed
(dropped, but kept alive by handlers) and expired.

*RLPXHandshake.* The egress and the ingress end of one connection. `op` is the
one asynchronous operation of an end: it is *pending*, then *ok* or *failed* (its
handler is queued), then its handler runs; the timer is armed, then its handler
is queued, then it runs. Between any two of these steps the Host may cancel, the
connection may break and the other end goes on. `transition`, `error` and
`cancel` are the operators of that name; a handler is an action that ends in
one of them. Messages are classes: the four handshake messages, Hello, one that
decrypts but is not what it should be (the RLP access of an EIP-8 handler then
throws), one that does not decrypt. One end may belong to another program,
which sends any of them. `HandshakeOutcome` is what `HostPeers` takes for
granted of a handshake, and `EndsOnce` is the refinement.

*Session.* Packets are numbered in the order in which send accepts them. send
is three steps - the tests, the queue under `x_framing`, the write - of any
thread; the write chain and the read chain are handlers of the service thread.
`disconnect` accepts the DisconnectPacket and then drops the session, in steps, of
the service thread or of any other (EthereumPeer's tick runs on the thread of
EthereumHost), so other packets may follow the DisconnectPacket of another thread.
With `framed` the queue is the multiplexer's, without it the vector of packets.
*RLPXFraming* is that multiplexer and its counterpart: mux fills frames from two
queues, demux rebuilds packets. *FrameCoder* has the secrets, the cipher streams
and the MACs symbolically: a hash is what was hashed, an exclusive or is a set.

*UDPSocket*: the write loop, the read loop, and the flags that disconnect and
errors set. *PublicEndpoint*: from preferences, interfaces and a router, on which
other machines may have mappings, to the address that is advertised; when the
router chooses the port, `AddRedirect` takes any mapping with our description, or
none. *EthereumPeer*: `m_asking` and `m_lastAsk`, read by
the tick of another thread. *HostData*: the answer to a request.

### Chain and state

*Block* has Block's operations as operators on a record. A state is the nonce of
the one account that sends and the rewards paid; hashes are what they hash.
*Client* extends it: doWork is a step for each critical section, with the tests
and assignments of its flags as the code has them; users, miners, the network,
rewind, reopenChain and clearPending act in between. *Uncles* grows a tree of
blocks with the uncles that `commitToSeal` chooses, and asks `enact` of each.
*Watches* and *Queries* are two halves of ClientBase. *BlockHeaders* leaves out
what *Block* has of transactions and keeps what it abstracts: a header with its
seal, the two hashes it remembers, and the operations of Block and Client that
copy, compare, hash and reset the headers `m_previousBlock` and `m_currentBlock`,
with `enactOn`, `cleanup` and `populateFromChain`.

*Executive* executes transactions of calls and creations nested to MaxDepth; a
program is any sequence of steps through which code can touch what Executive
keeps. `metropolis` says on which side of that fork the block is: before it,
transactions without a signature may have a value and a price, the code takes
nothing for their gas and pays the fees all the same (`unbought` counts them).
*EVM* executes every instruction of the interpreter on words of `WordBytes` bytes
of `ByteSize` values, on chosen programs; what ExtVM and the memory answer is any
word. *Trie* is GenericTrieDB node by node on nibbles below `Arity`, over a bag of
references and a store; a node is its own hash.

### Files and conversions

*Keys*: an operation leaves the files it writes in `todo`, each with the memory the
code has once it is written; Step writes one. A write may fail, which throws out
of the operation and leaves a process that lives on (`FileFails`), and the process
may die between two. `constructed` fills the lookups from the store as the
constructor does; `asking` is `getSecret` with its caches. *DAGFile*:
processes of several revisions prepare files, are killed and go on. *Encodings*,
*RangeMask*: the algorithms, one step at a time or as operators, next to what
they should compute.

## 4. Runs and bounds

| Run | Instance | Question |
|---|---|---|
| `host_lifecycle` | 2 clients, saved network, handlers that throw | is every interleaving of start, stop and the destructor safe? |
| `host_lifecycle_live` | 1 client, starts and handlers that throw | does start return, and stop, if it finds the thread polling and nothing is thrown? |
| `host_stop_hangs` | 1 client | violated: stop can wait for ever |
| `node_table` | 3 nodes and this one, bucket of 2 | are buckets sound with contested nodes? |
| `node_table_race` | 2 nodes, a client, bucket of 1 | and with entries replaced by addNode? |
| `host_peers` | 2 peers, 1 slot | are slots respected when connections race? |
| `host_peers_required` | 1 peer, saved as required, a client, restarts, handlers that throw | shutdown, required peers |
| `network` | RLPXHandshake, Session, UDPSocket, EthereumPeer, HostData | handshakes end; packets and datagrams are written once, in order; requests and answers fit |
| `threads` | Worker, Farm, PBFT, EthereumHost | threads that share flags and locks: do calls return, is what they produce right? |
| `data` | Trie, EVM, Executive, Keys, Encodings, RangeMask, DAGFile, Datagrams, BlockHeaders | what a node computes and keeps |
| `chain` | Client, Uncles, Watches, Queries, FrameCoder, RLPXFraming, PublicEndpoint | the chain, questions about it, and the connections of a node |
| `transactions_picked_up` | Client with one block | violated: a wake-up is lost |

The last four modules for TLC, `MCNetwork`, `MCThreads`, `MCData` and `MCChain`,
check several models that share no variable in one run: the variable `part` is
chosen at the start and says which one runs, while the others stay in an
initial state (a fixed one where there are several). The states are those of the
parts side by side, not their product. A property of a part holds in the
initial states of the others, so it can be stated without `part`; the liveness
properties of parts that need their own fairness are stated under it.

Properties with several conjuncts are one promise each: `TableSound` is what
NodeTable relies on (`BucketsSound`, `OnlyAnsweredInTable`, `OneCheckScheduled`),
`HostLeftClean` that a stop does not block itself and what it must leave (of a
doneWorking that an exception cut short, an accept may be left), `WorkerSound` and
`HandshakeSound` what the classes that use them rely on, `StandsOnTheChain` that
headers and their remembered hashes agree, that blocks are made on blocks of the
chain and that those can be played back and asked for, `TrieSound` that lookup,
iteration, root and reference counts agree with the map.

Bounds. Two clients suffice for start/stop races because a call holds at most
one of the two resources (`x_work`, the timer) while it waits for the other;
three callers are used for Worker, where one waits inside the lock while two
compete. A bucket of two and three nodes is the least that has a contested
node that is not the only one. `MaxGen` (objects per id) is two: the old and
the new. `MaxEvictions` bounds `m_evictions`, which the code never bounds.
`MaxHandshakes` is one per id. `m_stretchPeers` is 1 where the ingress limit is
to be reached by two peers. `MaxForeign` is 3: an end reads two messages of the
other, and one more lies in its socket when the session starts. `TimerExpires`
queues one expiry at a time.

- Session: two senders and three packets, so that one is written, one is queued
  and one comes; UDPSocket the same with datagrams.
- EthereumHost: one peer, since what a peer is sent depends on no other; two
  transactions of which a round takes one (`c_maxSendTransactions`), two blocks,
  `MaxRoute` as small as makes a route too long. EthereumPeer, HostData: one
  request after another; chains of five blocks, so that every range lies before,
  across or beyond the head.
- Worker: three callers. Farm: two miners, two packages, two solutions, five
  calls, each start for the same sealer or for another.
- Trie: keys of one and two nibbles of two values, one a prefix of others, of two
  sizes of values, three changes: each case of mergeAt and deleteAt is reached
  (the coverage of TLC shows it). `InlineLimit` is set so that some nodes are
  stored inside their parent.
- EVM: words of two bytes of four values, a stack of eight words, three schedules;
  the programs have each instruction with enough and with too little on the stack,
  and gas that suffices or not. Executive: nesting of two, eight units of gas, a
  block before metropolis, where an unsigned call with a price and a value
  is executed (from then on it is refused).
- Client: two transactions for one place, a chain of two blocks beyond the
  genesis, two events (blocks of others, rewinds, reopenings): a reorganisation of
  length one. BlockHeaders: two seals for one work, as two miners find them, two
  blocks beyond the genesis, and two transactions, changes of the time or foreign
  blocks. Uncles: trees of five blocks and uncles of three generations, with two
  clocks.
- Keys: two accounts, two passwords, four calls, one death, one failing write
  (`MaxFailed`). DAGFile: two seeds and revisions, files that cannot be read.
  Datagrams: a clock of two ticks, answers awaited for one (`reqTimeout`), packets
  that expire after one. Queries: the genesis, one block and the pending one
  (`LogHeights`), each with one entry or none; the proof has no bound.
  PublicEndpoint: a router with a mapping of another machine or without.
  FrameCoder, RLPXFraming: two frames or packets each way, packets that fit in a
  frame, share one, or need several.

Deadlock is not checked where the system may stop: a destroyed Worker or Host,
a network that is down for good, a handshake that is over, a bound of calls that
is used up.

What the runs leave out on purpose, as the code fails there (findings and hazards
say how): `AnswersAreAsked` excludes requests by hash with a skip,
`QuestionsAnswered` filters with alternatives at one topic, `KeysFileOpens` users
who mistype their password and, until the next whole save, what a death or a
failing write leaves between the salt and the keys file of a save (TLC violates
`SomePasswordOpens`), `AdvertisedIsForwarded` a port that another machine's
mapping has when the router chose it, `TrieSound` the removal of a key that ends
at a branch without a value (TrieDB.h:988), `QuietWhenDown` a doneWorking that an
exception cut short, `EtherConserved` the fees of unsigned priced transactions
before metropolis, which the code creates (`unbought`; SealEngine.cpp:31),
`WholeAnswerArrives` IPv6, `SignedAsPrepared` says nothing of blocks that are
never signed, `ChangesReachWatches` nothing of what a watch was due when its
filter was erased under it. `RequiredPeersKept` lets restoreNetwork replace a
required peer that was saved as optional (TLC violates `RequiredStaysRequired`
with `SavedRequired = {}`). `GossipSound` does not say that transactions beyond
the first ones of a round are sent, and `WrittenIsReadBack` has only digits
mistyped as digits and letters as letters. A finding without a run of its own
names the property it violates, where there is one, or quotes both lines. In `BlockHeaders`, `rewarded` is 1: with
0, that is without a block reward and without the extra data that WebThree.cpp:75
always sets, an empty block of our own equals the unsealed one that `m_preSeal`
has (BlockHeader.h:111 ignores seals), Block::sync takes that as the previous
block, whose hash nobody has, and TLC violates `StandsOnTheChain`.

## 5. Fairness

Threads that can run do (weak fairness of the service thread and of every call
that is under way): the code has no priorities, and its waits are sleeps in a
loop. Strong fairness stands where a step competes for a mutex. In `HostPeers` the
scheduler's timer and the shutdown are weakly fair; `SessionExpires` is strongly
fair, for the handlers it stands for are in the queue that the service thread
serves in order between two calls of run(). In `RLPXHandshake` queued handlers
run, an armed timer expires and operations on a closed socket fail, as the
io_service guarantees; nobody is obliged to send. In `Session` handlers and
senders under way go on. In `EthereumHost` the thread that runs doWork goes on,
and a client that has imported sets its flag; in `EthereumPeer` time passes and
tick is called. In `Farm` calls under way and miners' loops go on, but a miner
need not find anything. In `Client` doWork goes on. Handlers are never made to
throw, nor keys files to fail: these are choices that no liveness property may
count on. Clients and users are never fair: nobody has to call start or stop, and
no peer has to answer.

## 6. Proofs

`HostLifecycleProof` begins with Worker, for any set of callers: the inductive
invariant `IInv` (the type of the state, who holds `x_work`, and for each place of
the thread which values of `m_state` are possible), and from it
`UserCodeOnlyWhileLive`, `ExchangeNeverFails` and `NoRestartAfterTerminate`;
together they are `WorkerSound`, which the run `threads` checks.
`UserCodeOnlyWhileLive` is not inductive: that the thread is about to call a
callback says nothing unless the callers that may write `m_state` at that moment
are known, which is what `IInv` adds.

Of the Host it proves that Worker's invariant holds of it (that every step is one
of Worker or a stutter is a lemma, and follows from how the module is built); that
the scheduler's timer is armed whenever the network is up and the service thread
may wait for handlers (`SchedulerStaysAlive`); and that the Host is not destroyed
while its thread may call it (`HostOutlives`), each with either flag.
`HostIsLeftClean` proves `HostLeftClean`, `NoSelfDeadlock` with it, under the
condition `~StartMayThrow`, whatever handlers throw: with a startedWorking that
throws TLC violates it (a `stop` then waits for a thread that has ended). Its
assumption `FlagsAssumption` says that the two flags are Booleans.

`RLPXHandshakeProof` proves, for any number of foreign messages, the inductive
invariant `HandshakeInv` and from it `NoTimerInSession`,
`NoSessionAfterCancel`, `StartSessionIsFinal` and the refinement `EndsOnce` of the
safety part of `HandshakeOutcome` (`ImplementsOutcome`); together they are
`HandshakeSound`, which the run `network` checks. None of the three properties
is inductive: that a cancelled handshake starts no session follows from
`CancelledHasNothing` - the coder is gone, and only a transition that has
just tested `m_cancel` makes one - and that transition() is not entered after
the Hello from `OperationFitsState`, which says in which state each handler
finds the handshake. Its only assumption is `MaxForeign \in Nat`.

`NeverWaitForEachOther` proves `NoMutualWait` in the same module: `MutualInv`
follows each message from the write of one end to the read of the other
(`NothingLost`), for which it must be known which end writes what
(`OperationFitsEnd`).

`HostPeersProof`: sessions stay within the slots (`SlotsHold`), nothing is
connected once the network is down, unless a handler threw out of the last
doneWorking (`DownIsQuiet`), and the Peer of a required peer is replaced by
restoreNetwork only, of a saved peer, between the node table and the first run()
(`RequiredStay`, the safety part of `RequiredPeersKept`). `EventsHandedOut` says
that the events of the node table are handed out only while the network is up,
`ObjectsSuffice` that `MaxGen`, the bound of objects of an id, never stops the
Host. `Ids` must be finite, as what cannot be counted cannot be limited.

`NodeTableProof` proves `TableSound` and `TabledNodesAnnounced` for any nodes and
sizes, by `TableInv`. Buckets hold weak pointers and `m_nodes` may replace an
entry, so it must be known that no bucket, eviction or discovery holds an entry
newer than `m_nodes` (`EntriesKnown`); that one eviction check is scheduled
needs `CheckHasReason`. `without`, which removes from a list, is a recursive
function: that it is a subsequence is proved by induction over its length, as a
fact about a set of numbers.

`EthereumProof` has five results. `GossipIsSound`: the safety of what EthereumHost
sends, where a round of doWork is split, takes the first of the queue only, and
imports come between (`CountedAsSent`, `ToldUpToLatest`). `MatchesAreComplete`: a
DAG file that matches is complete, for any deaths of any processes, because the
magic number is written last (`MagicIsLast`). `QuestionsAreAnswered`: estimates,
and the logs of a chain of any length with any entries, as a set - in which order
they come is not stated; the assumption `baseGas <= c_maxGasEstimate` leaves out
transactions with more than 700000 bytes of data, and `Ask` a `_maxGas` below
`baseGas`: the bounds of the search then start in the wrong order.
`WatchesAreServed`: no change twice, and each one as long as the filter the watch
was installed with is not erased. `BlocksStandOnTheChain`: headers and the chain.
The invariant `HeadersInv` says that every block of the chain knows its hash and
has a parent it adds up to (`ChainFollows`), and that the working block is made on
the head whether it is committed, sealed or neither (`MadeOn`). Since the hash of
a header tells the header, the parent that is looked up is the one it was made on
(`ParentIs`). The theorem has the condition `rewarded > 0`, which is what
`HeadIsNew` needs: a new head has then another state than the block `m_preSeal` is
making, and is not taken for it. With 0 TLC violates the property (section 4).

`WireProof` has six. `EndpointIsForwarded`: what is advertised was forwarded,
or was another machine's when the router chose the port: by `MappingsAreKnown` the
router has nothing but what it made for this host, which leads to it, and what it
had of others. `TakenIsWritten`: frames are
taken as written. Its invariant `CoderInv` is `Stream` of both directions, which
says that there *are* functions M and A, the MAC and the place in the cipher
stream after each frame; TLC cannot enumerate them, and checks the consequence.
`AnswersArrive`: with addresses of four bytes a sliced answer to FindNode arrives;
with sixteen it does not (NodeTable.cpp:488 counts on an IPv4 header), which
is why the theorem has the condition that the run's instance has. An answer that
comes after `reqTimeout` or its expiry counts as spoiled.
Two are of the write loops of libp2p, which any thread starts by queueing.
`UdpSendLoop` proves `OneSendLoop` from `SendLoop`: while the socket is open
there is one send under way if the queue is not empty, and none if it is; an
error is recorded before the socket is closed. `SessionIsSound` proves the
conjuncts of `SessionSound` for any senders and packets: packets are encrypted
once and in the order queued, which says something only of the front of the
queue, so `SessionInv` says it of each place in it; `GoodbyeLast` that nothing is
accepted between the DisconnectPacket of the service thread and its drop, of
which a disconnect of another thread is no part. Its only assumption is that
the service thread sends too.

The sixth is `FramesCarryPackets` (`PacketsAreCarried`) of RLPXFraming, for any
sizes. `FramesCarryPackets` says nothing of what is on its way, so `FramingInv`
says that the frames there are a way: a place in each queue's packets - how many,
how many bytes of the next, in frames of which sequence id - for the reader, one
for the writer, and each frame leads one of the queues from a place to a place
(`LeadsTo`). A frame that is written makes the way longer (`WayGoesOn`), one that
is read takes its first step off it (`WayIsGone`), and because each leads where
the reader is, the reader never throws (`DemuxKeeps`). Two packets under way must
not have one id, though the counter of 16 bits wraps: `SequencesLast` counts what
a packet has had of frames while the other queue began packets. While both queues
wait, a frame gives each of them half, a `share`, so a packet is through before
the ids come round; `TurnsTaken` is off by one for the queue whose turn is still
to come. `FrameAssumption`: half a frame holds more than the overhead and a block,
and no packet is longer than a share for each id but one. With the 1024 bytes of
Session.h and 65536 ids that is a share of 464 bytes and packets of 30 MB;
RLPXSocketIO.cpp:30 says that a packet has 16 MB at most. That lengths add up
(`lengthOf`) is a recursive function, and that there is one is `AddedUp`. TLC
checked `FramingInv` on the instance of `chain`, and on three others, with blocks
of one byte and of three and packets as long as the assumption lets them be,
before it was proved.

`PBFTProof` proves `SignedAsPrepared` (`BlocksSignedAsPrepared`), for any finite set
of transactions. What is signed was committed under one of rejigSealing's
locks and played back under another, so the invariant `PBFTInv` speaks of the
working block wherever the thread is: it has run its transactions on its
parent's state, and the rewards of a first commitment are not part of what a
second starts from (`Played`); while it is broadcast nobody resets it, because
a view change resets only what is sealed (`BroadcastAsCommitted`). By `Played` a
block with transactions is refused when it is played back, since they were run
before (`OthersAreRefused`): in the code as it is only blocks without transactions
get as far as the signature (hazard at PBFTClient.cpp:237), and the theorem holds
for that reason. Block tries the queue's transactions in a fold: `FoldExists` says
that such a fold is a function, `FoldInduction` that it keeps what each of its
steps keeps, `Sortable` that the queue can be put in order. The assumptions:
nonces, prices, the price asked for and the limit of gas are numbers, and finitely
many transactions are submitted. TLC checked `PBFTInv` on the instance of `threads`
before it was proved.

It also proves `UnclesSound` (`UnclesAreFair`) of Uncles, for any tree, window
and clocks. `UnclesInv` says that every block stands on an older one, cites older
ones and has passed the test of its uncles. `ancestor` and the choice of uncles
repeat a step, which a function does (`Repeated`). Every ancestor is a generation
older, and beyond genesis there is none (`AboveIs`); so the generation in which
`commitToSeal` finds an uncle is the one that `enact` computes from its number
(`ChosenPass`), and an uncle that two blocks of a chain could cite is kin of the
older one, which the younger one excludes (`RewardedOnceIn`). What passed still
does when the tree has grown (`PassesSame`, `GrowKeeps`). `UnclesAssumption`: the
window, the number of uncles and the times are natural numbers. TLC checked
`UnclesInv` on the instance of `chain` before it was proved.

`DataProof` proves `MaskIsItsElements` (`MaskAnswers`) for any ground range. By
`MaskInv` ranges never touch, so that each number is in one range, and the gaps
of an inversion never touch either (`InvertedIs`); while a union goes from range to
range it is known what it has still to add (`StepUnites`). `size` is a sum over a
set, which is a fold: that there is such a sum (`SumsExist`) is proved by induction
over the size of the set, as a fact about a set of numbers, and that it is the
number of elements because ranges are disjoint. Its only assumption is that the
ground range begins no later than it ends.

The same module proves `EtherConserved` (`NoEtherMadeOrLost`) and
`TransactionsAtomic` (`WholeOrNotAtAll`) of Executive, for any accounts,
transactions, prices and depth. Neither is inductive, because a failing call goes
back to a savepoint: `ExecInv` says of every savepoint on the stack what it says
of the state (`Sound`: the ether in it with what is aside, the nonces used up) and
that its effects are those of the frames outside its own (`Stacked`). A VM that
ends hands its effects to the frame below (`EndedKeeps`), one that fails has none
(`FailedKeeps`), and `finalize` divides all of the gas (`Shares`); of a
transaction that bought none, what it pays is counted in `unbought`. Balances are
summed over the accounts: `SumAt` says what a change of one balance does to the
sum, `SumSplit` what killing some accounts does. The assumption
`ExecutiveAssumption` says that accounts are finitely many, numbers natural and
addresses of contracts, which are hashes, not those of accounts with keys: a
contract at an account with a key could kill it and with it the nonce that stops
replays. TLC checked `ExecInv` on the instance of `data` before it was proved.

Of EVM it proves `GasOnlyFalls` (`RunningCosts`) and `StaysWithinBounds`
(`VMWithinBounds`), for any programs and schedules. `EVMInv` says that the stack
and the storage hold words, that the memory reaches as far as the last access,
and that the last jump was to a destination of the table. That an operation on
words gives a word must be known even where only gas is claimed, because what
memory costs depends on the operands: AND, OR and XOR are sums of powers of two
(`PowersAddUp`), and EXP and the table are recursive functions, of which it has to
be proved that there are such (`PowersExist`, `TablesExist`). The table is
made from each instruction to the next, and `isData` is about walks from the start
of the code: `WalksExist` makes such a walk for each destination. Gas falls
because more memory never costs less (`MemoryCosts`) and because a stipend is less
than the price of the call with the value that it comes with. `EVMAssumption` says
that, as EVMSchedule.h has it, of the schedules: every price but `suicideGas` and
that of a new account is positive. Of the words it says that they are made of bits
and have two bytes at least; the laws of `2 ^ i` in it are there because the provers
have none. TLC checked `EVMInv` on the instance of `data` before it was proved.

Of HostData it proves `AnswersAreAsked` (`OnlyAskedIsAnswered`), for any chain,
requests and limits. The code computes the last header and how many there are by
a division by the stride and walks down from there; the property counts up from
the first one. `StepsFit` says what the division gives and `UpAndDown` that both go
through the same numbers as long as no step more fits into the chain, which
`ForwardIs` shows of all requests but those by hash with a skip, which the property
excludes. Of the items, `HostDataInv` says that only one that is new is added, and
only while there is room. `HostDataAssumption` says that the limits are natural
numbers; TLC checked `HostDataInv` on the instance of `network`.

Of Keys it proves `KeysFileStaysOpen` (`KeysFileOpens`) for any accounts, uuids,
passwords, failing writes and deaths. Every operation is a list of writes that a
death or a failing write cuts off, and after the latter the process goes on with
the memory it had, so
`KeysInv` says what the list may still hold: while create or save is under way a
salt and then the keys file under the key made of that salt (`SavingInOrder`),
otherwise only writes under the key the manager has (`WritingUnderKey`), which is the
key of the password last set (`KeysAreMasters`). `StepKeeps` takes one write off the
list, `CutKeeps` cuts the list off, and `OperateKeeps` lets an
operation start one. The theorem has the hypothesis `Typos = {}`: load sets the
manager's key before it has tried it (a finding, section 4), and a save
after a mistyped password writes under the wrong one. `KeysAssumption` says that the
values that mean nothing or a torn file are none of the others; TLC checked `KeysInv`
on the instance of `data` before it was proved.

Only model-checked:

- liveness under fairness, in every module;
- `Trie`, which is written with recursive operators, and `Encodings`, whose
  conversions are folds and divisions over strings of any length;
- `Client`. For `OwnBlocksImport` the lemmas of `PBFTProof` about the folds of
  `Block` are a beginning. `NoTransactionLost` is a statement about the run's
  instance only: with more nonces per sender than it has, or a gas limit of zero,
  a queue that shrinks while a block is filled can drop a transaction which
  `excused` does not list, so no theorem states it for every constant.

## 7. Not modelled

See "components" for each part. Source that is not in the repository (State,
ExtVM, BlockChain and the queues, the sync, PBFT's messages, the miners) is
modelled only from how the code here uses it, and marked external in the map.
Wording of logs, ratings, JSON, cryptographic primitives, vendored code
(libethash's tables and hashes, utils) and the stubs of `libwebthree`,
`libweb3jsonrpc` and `libwhisper` are data or glue that no property here tells
apart. `VMValidate.cpp` and the subroutines of the VM are compiled out by
VMConfig.h. Data races on plain members (`m_timer`, `m_requiredPeers`,
`m_dropped`) are modelled as atomic accesses in the order of the program: a
torn access is out of the model, and listed as a hazard where it matters.
`KeyManager::newKeyPair` (KeyManager.cpp:420-461) searches with several threads
that read and write `keepGoing` and the result without a lock; only the import of
the pair it returns is in `Keys`.
