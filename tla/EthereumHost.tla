---------------------------- MODULE EthereumHost ----------------------------
(***************************************************************************)
(* The gossip of EthereumHost: its worker thread spreads pending           *)
(* transactions and new blocks to the peers, while the service thread and  *)
(* the Client import both and set the flags it looks at.  The chain is its *)
(* head's number, which orders blocks as their total difficulty does;      *)
(* peers beyond the oldest protocol version have no place in the order.    *)
(***************************************************************************)
EXTENDS Naturals, FiniteSets

CONSTANTS
    Peers,
    Txs,                   \* transactions, which are numbers in the order of the queue
    c_maxSendTransactions, \* how many of them maintainTransactions takes
    MaxRoute,              \* twenty: a longer way to the head is not sent
    MaxBlock,              \* bound: length of the chain
    MaxImports             \* bound: blocks and transactions imported

ASSUME SendAssumption == c_maxSendTransactions \in Nat /\ Txs \subseteq Nat

ASSUME BlockAssumption == MaxBlock \in Nat

NoBlock == MaxBlock + 1    \* m_latestBlockSent is null
None == "none"

VARIABLES
    head,              \* of m_chain
    noting,            \* blocks imported, noteNewBlocks not yet called
    pendingTxs,           \* transactions in m_tq
    origins,           \* imports whose onTransactionImported has not run: <<tx, peer>>
    notingTx,          \* Client::syncTransactionQueue is about to note transactions
    m_newBlocks, m_newTransactions,
    m_latestBlockSent, m_transactionsSent,
    wasReset,          \* bound: reset was called
    syncing,           \* m_sync->isSyncing
    workStep,              \* where doWork is
    current,           \* its local h
    ts, toSend,        \* its local ts and peerTransactions
    sessions,          \* peers with a session
    m_knownTransactions, m_knownBlocks,  \* of each peer
    txsSent, blocksSent,                 \* history: what each peer was sent,
    excused, skipped                     \* ... and what it need not be sent, and why:
                                         \* it knows it, or a reset counts it as sent

chainVars == <<head, noting>>
queueOfTxs == <<pendingTxs, origins, notingTx>>
peersVars == <<sessions, m_knownTransactions, m_knownBlocks>>
workVars == <<workStep, current, ts, toSend>>
syncVars == <<wasReset, syncing>>
sentVars == <<m_latestBlockSent, m_transactionsSent, txsSent, blocksSent>>
historyVars == <<excused, skipped>>
gossipVars == <<historyVars, chainVars, queueOfTxs, m_newBlocks, m_newTransactions, sentVars, syncVars, workVars, peersVars>>

GossipInit ==
    /\ head = 0 /\ noting = FALSE
    /\ pendingTxs = {} /\ origins = {} /\ notingTx = FALSE
    /\ m_newBlocks = FALSE /\ m_newTransactions = FALSE
    /\ m_latestBlockSent = 0 /\ m_transactionsSent = {}
    /\ syncing = FALSE /\ wasReset = FALSE
    /\ workStep = "begin" /\ current = 0 /\ ts = {} /\ toSend = [p \in Peers |-> {}]
    /\ sessions = Peers
    /\ m_knownTransactions = [p \in Peers |-> {}] /\ m_knownBlocks = [p \in Peers |-> {}]
    /\ txsSent = [p \in Peers |-> [t \in Txs |-> 0]] /\ blocksSent = [p \in Peers |-> {}]
    /\ excused = [p \in Peers |-> {}] /\ skipped = [p \in Peers |-> {}]

-----------------------------------------------------------------------------
(* The Client, and the sync.                                               *)

ImportBlock ==
    /\ head < MaxBlock /\ ~noting /\ head + Cardinality(pendingTxs) < MaxImports
    /\ head' = head + 1 /\ noting' = TRUE
    /\ UNCHANGED <<historyVars, queueOfTxs, m_newBlocks, m_newTransactions, sentVars, syncVars, workVars, peersVars>>

noteNewBlocks ==
    /\ noting
    /\ noting' = FALSE /\ m_newBlocks' = TRUE
    /\ UNCHANGED <<historyVars, head, queueOfTxs, m_newTransactions, sentVars, syncVars, workVars, peersVars>>

\* A transaction enters the queue, from a peer or from the node itself.
ImportTransaction(t, p) ==
    /\ t \notin pendingTxs /\ head + Cardinality(pendingTxs) < MaxImports
    /\ pendingTxs' = pendingTxs \cup {t}
    /\ origins' = IF p = None THEN origins ELSE origins \cup {<<t, p>>}
    /\ notingTx' = TRUE
    /\ UNCHANGED <<historyVars, chainVars, m_newBlocks, m_newTransactions, sentVars, syncVars, workVars, peersVars>>

\* onTransactionImported, for a transaction that is new.
TransactionImported(t, p) ==
    /\ <<t, p>> \in origins
    /\ origins' = origins \ {<<t, p>>}
    /\ m_knownTransactions' = IF p \in sessions THEN [m_knownTransactions EXCEPT ![p] = @ \cup {t}]
                              ELSE m_knownTransactions
    /\ excused' = [excused EXCEPT ![p] = @ \cup {t}]
    /\ UNCHANGED <<skipped, chainVars, pendingTxs, notingTx, m_newBlocks, m_newTransactions, sentVars, syncVars,
                   workVars, sessions, m_knownBlocks>>

\* The same for one the queue had already: it is not worth sending.
TransactionKnown(t, p) ==
    /\ t \in pendingTxs /\ p \in sessions /\ t \notin m_knownTransactions[p]
    /\ m_knownTransactions' = [m_knownTransactions EXCEPT ![p] = @ \cup {t}]
    /\ m_transactionsSent' = m_transactionsSent \cup {t}
    /\ excused' = [q \in Peers |-> excused[q] \cup {t}]
    /\ UNCHANGED <<skipped, chainVars, queueOfTxs, m_newBlocks, m_newTransactions, m_latestBlockSent, txsSent,
                   blocksSent, syncVars, workVars, sessions, m_knownBlocks>>

noteNewTransactions ==
    /\ notingTx
    /\ notingTx' = FALSE /\ m_newTransactions' = TRUE
    /\ UNCHANGED <<historyVars, chainVars, pendingTxs, origins, m_newBlocks, sentVars, syncVars, workVars, peersVars>>

SyncChanges ==
    /\ syncing' = ~syncing /\ UNCHANGED wasReset
    /\ UNCHANGED <<historyVars, chainVars, queueOfTxs, m_newBlocks, m_newTransactions, sentVars, workVars, peersVars>>

PeerLeaves(p) ==
    /\ p \in sessions
    /\ sessions' = sessions \ {p}
    /\ UNCHANGED <<historyVars, chainVars, queueOfTxs, m_newBlocks, m_newTransactions, sentVars, syncVars, workVars,
                   m_knownTransactions, m_knownBlocks>>

\* A NewBlock of the peer tells which block it knows.
PeerSendsBlock(p) ==
    /\ p \in sessions
    /\ m_knownBlocks' = [m_knownBlocks EXCEPT ![p] = @ \cup {head}]
    /\ UNCHANGED <<historyVars, chainVars, queueOfTxs, m_newBlocks, m_newTransactions, sentVars, syncVars, workVars,
                   sessions, m_knownTransactions>>

\* reset forgets what was sent.  (The bound: once.)
reset ==
    /\ ~wasReset /\ wasReset' = TRUE
    /\ m_latestBlockSent' = NoBlock /\ m_transactionsSent' = {}
    /\ UNCHANGED <<historyVars, chainVars, queueOfTxs, m_newBlocks, m_newTransactions, txsSent, blocksSent, syncing,
                   workVars, peersVars>>

-----------------------------------------------------------------------------
(* doWork.                                                                 *)

\* ensureInitialised, and h = currentHash.
WorkBegins ==
    /\ workStep = "begin"
    /\ current' = head
    /\ IF m_latestBlockSent = NoBlock
       THEN /\ m_latestBlockSent' = head /\ m_transactionsSent' = pendingTxs
            /\ excused' = [p \in Peers |-> excused[p] \cup pendingTxs]
            /\ skipped' = [p \in Peers |-> 1..head]
       ELSE UNCHANGED <<m_latestBlockSent, m_transactionsSent, historyVars>>
    /\ workStep' = IF syncing THEN "begin" ELSE "transactions"
    /\ UNCHANGED <<chainVars, queueOfTxs, m_newBlocks, m_newTransactions, txsSent, blocksSent, syncVars,
                   ts, toSend, peersVars>>

\* The flag is tested, and then reset.
TestTransactions ==
    /\ workStep = "transactions"
    /\ workStep' = IF m_newTransactions THEN "answer" ELSE "blocks"
    /\ UNCHANGED <<historyVars, chainVars, queueOfTxs, m_newBlocks, m_newTransactions, sentVars, syncVars,
                   current, ts, toSend, peersVars>>

AnswerTransactions ==
    /\ workStep = "answer"
    /\ m_newTransactions' = FALSE
    /\ workStep' = "top"
    /\ UNCHANGED <<historyVars, chainVars, queueOfTxs, m_newBlocks, sentVars, syncVars,
                   current, ts, toSend, peersVars>>

\* The first transactions in the order of the queue, as many as are sent at once
queueTop ==
    {t \in pendingTxs : Cardinality({u \in pendingTxs : u < t}) < c_maxSendTransactions}

AskTop ==
    /\ workStep = "top"
    /\ ts' = queueTop
    /\ workStep' = "select"
    /\ UNCHANGED <<historyVars, chainVars, queueOfTxs, m_newBlocks, m_newTransactions, sentVars, syncVars,
                   current, toSend, peersVars>>

\* maintainTransactions, under x_transactions: what was not sent before goes
\* to all peers that do not know it.  (Nothing sets m_requireTransactions.)
SelectTransactions ==
    /\ workStep = "select"
    /\ toSend' = [p \in Peers |-> IF p \in sessions
                            THEN ts \ (m_transactionsSent \cup m_knownTransactions[p]) ELSE {}]
    /\ m_transactionsSent' = m_transactionsSent \cup ts
    /\ ts' = {}
    /\ workStep' = "sendTransactions"
    /\ UNCHANGED <<historyVars, chainVars, queueOfTxs, m_newBlocks, m_newTransactions, m_latestBlockSent, txsSent,
                   blocksSent, syncVars, current, peersVars>>

\* A plausible bug: the flag is reset when the transactions were sent.
SendTransactionsThenReset ==
    /\ workStep = "sendTransactions"
    /\ txsSent' = [p \in Peers |-> [t \in Txs |->
                     txsSent[p][t] + (IF p \in sessions /\ t \in toSend[p] THEN 1 ELSE 0)]]
    /\ m_newTransactions' = FALSE
    /\ toSend' = [p \in Peers |-> {}]
    /\ workStep' = "blocks"
    /\ UNCHANGED <<historyVars, chainVars, queueOfTxs, m_newBlocks, m_latestBlockSent, m_transactionsSent,
                   blocksSent, syncVars, current, ts, peersVars>>

\* foreachPeer: send, and forget what the peer knows.
SendTransactions ==
    /\ workStep = "sendTransactions"
    /\ txsSent' = [p \in Peers |-> [t \in Txs |->
                     txsSent[p][t] + (IF p \in sessions /\ t \in toSend[p] THEN 1 ELSE 0)]]
    /\ m_knownTransactions' = [p \in Peers |-> IF p \in sessions THEN {} ELSE m_knownTransactions[p]]
    /\ toSend' = [p \in Peers |-> {}]
    /\ workStep' = "blocks"
    /\ UNCHANGED <<historyVars, chainVars, queueOfTxs, m_newBlocks, m_newTransactions, m_latestBlockSent,
                   m_transactionsSent, blocksSent, syncVars, current, ts, sessions, m_knownBlocks>>

\* maintainBlocks: the route from the latest block sent to h, if it is not
\* too long, goes to every peer that does not know h: as blocks to a quarter
\* of them, as hashes to the rest.
route == (m_latestBlockSent + 1)..current
ignorant == {p \in sessions : current \notin m_knownBlocks[p]}

spread(ps, blocks) ==
    /\ blocksSent' = [p \in Peers |-> IF p \in ps THEN blocksSent[p] \cup blocks ELSE blocksSent[p]]
    /\ skipped' = [p \in Peers |-> IF p \in ps THEN skipped[p] ELSE skipped[p] \cup route]
    /\ m_knownBlocks' = [p \in Peers |-> IF p \in ps THEN {} ELSE m_knownBlocks[p]]

sendRoute == spread(IF current - m_latestBlockSent < MaxRoute THEN ignorant ELSE {}, route)

MaintainBlocks ==
    /\ workStep = "blocks"
    /\ workStep' = "begin" /\ current' = 0
    /\ m_newBlocks' = FALSE
    /\ IF m_newBlocks /\ m_latestBlockSent < current
       THEN sendRoute /\ m_latestBlockSent' = current
       ELSE UNCHANGED <<blocksSent, skipped, m_knownBlocks, m_latestBlockSent>>
    /\ UNCHANGED <<chainVars, queueOfTxs, m_newTransactions, m_transactionsSent, txsSent, excused, syncVars,
                   ts, toSend, sessions, m_knownTransactions>>

DoWork ==
    \/ WorkBegins \/ TestTransactions \/ AnswerTransactions \/ AskTop \/ SelectTransactions
    \/ SendTransactions \/ MaintainBlocks

ClientNotes == noteNewBlocks \/ noteNewTransactions

GossipNext ==
    \/ DoWork \/ ClientNotes \/ ImportBlock \/ SyncChanges \/ reset
    \/ \E t \in Txs : (\E p \in sessions \cup {None} : ImportTransaction(t, p))
                      \/ (\E p \in Peers : TransactionImported(t, p) \/ TransactionKnown(t, p))
    \/ \E p \in Peers : PeerLeaves(p) \/ PeerSendsBlock(p)

-----------------------------------------------------------------------------
(* Properties.                                                             *)

\* A pending transaction is sent to a peer once at most, however imports and
\* rounds of the worker interleave: once more only after a reset that cleared
\* what a running round had noted as sent.
SentOnce == \A p \in Peers, t \in Txs : txsSent[p][t] <= IF wasReset THEN 2 ELSE 1

\* A pending transaction reaches every peer that stays, unless the peer is
\* known to have it, or it was counted as sent, or the queue has as many before
\* it as a round takes: no import falls between the flag and the round that
\* answers it.
TransactionsSpread ==
    <>[]~syncing => \A p \in Peers, t \in Txs :
        (t \in pendingTxs) ~> \/ txsSent[p][t] > 0 \/ t \in excused[p] \/ p \notin sessions
                              \/ t \notin queueTop

\* A peer is never told of a block without those before it, though rounds
\* are missed while syncing and a round may answer several imports.
NoGaps ==
    \A p \in sessions : \E n \in 0..MaxBlock : blocksSent[p] \cup skipped[p] = 1..n

\* What the rounds of doWork give each peer: the first of the pending
\* transactions, once, and blocks without a gap.
GossipSound == [](SentOnce /\ NoGaps) /\ TransactionsSpread

-----------------------------------------------------------------------------
(* The inductive invariant behind SentOnce and NoGaps.                     *)

GossipTypes ==
    /\ head \in 0..MaxBlock /\ current \in 0..head /\ m_latestBlockSent \in 0..head \cup {NoBlock}
    /\ pendingTxs \subseteq Txs /\ m_transactionsSent \subseteq pendingTxs
    /\ ts \subseteq pendingTxs /\ wasReset \in BOOLEAN /\ sessions \subseteq Peers
    /\ toSend \in [Peers -> SUBSET Txs] /\ txsSent \in [Peers -> [Txs -> Nat]]
    /\ blocksSent \in [Peers -> SUBSET (1..MaxBlock)] /\ skipped \in [Peers -> SUBSET (1..MaxBlock)]
    /\ m_knownBlocks \in [Peers -> SUBSET (0..MaxBlock)]

\* A round has selected transactions only until it has sent them.
SelectedToSend == workStep = "sendTransactions" \/ \A p \in Peers : toSend[p] = {}

one(b) == IF b THEN 1 ELSE 0

\* What was sent to a peer and what a round is about to send it.
CountedAsSent ==
    \A p \in Peers, t \in Txs :
        txsSent[p][t] + one(t \in toSend[p]) <= one(t \in m_transactionsSent) + one(wasReset)

told(p) == blocksSent[p] \cup skipped[p]

\* Every peer has been told of the blocks up to the latest block sent; after
\* a reset, up to one that the head is not before.
ToldUpToLatest ==
    \A p \in Peers :
        IF m_latestBlockSent = NoBlock THEN \E n \in 0..head : told(p) = 1..n
                                       ELSE told(p) = 1..m_latestBlockSent

GossipInv == GossipTypes /\ SelectedToSend /\ CountedAsSent /\ ToldUpToLatest

-----------------------------------------------------------------------------
(* What a comment says, and the code does not do.                          *)

\* EthereumHost.cpp:486, "Send any new blocks": once the chain has stopped
\* growing and the sync is over, its head has been dealt with.
HeadAnnounced == <>[]~syncing => <>[](m_latestBlockSent = head)

\* EthereumHost.cpp:395, "Send any new transactions": those beyond the first
\* ones wait for another transaction to arrive, and are sent only if they
\* are among the first ones then.
AllTransactionsSpread ==
    <>[]~syncing => \A p \in Peers, t \in Txs :
        (t \in pendingTxs) ~> (txsSent[p][t] > 0 \/ t \in excused[p] \/ p \notin sessions)
=============================================================================
