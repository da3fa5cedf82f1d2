-------------------------------- MODULE Client --------------------------------
(***************************************************************************)
(* libethereum/Client: the thread that keeps the blocks m_preSeal,          *)
(* m_working and m_postSeal in step with the chain, the two queues and the  *)
(* seal engine, against the other threads: RPC, network and miners.         *)
(* Block's operations are in module Block.  BlockChain, BlockQueue and      *)
(* TransactionQueue are used from their headers; of two blocks of the same  *)
(* height the first stays the head.                                         *)
(***************************************************************************)
EXTENDS Block

CONSTANTS
    Submissions,      \* the transactions users may submit
    MaxHeight,        \* bound on the height of the chain
    MaxEvents         \* bound on blocks of the network, rewinds, reopenings and changes of mode

VARIABLES
    clientAt,         \* where the client's thread is in doWork
    chain,            \* the head of the chain
    known,            \* the blocks of the chain and of its side branches
    bq,               \* m_bq: verified blocks
    tq,               \* m_tq
    m_syncBlockQueue, m_syncTransactionQueue, m_needStateReset, m_wouldSeal,
    m_preSeal, m_postSeal, m_working,
    picked,           \* transactions Block::sync has taken from the queue
    fresh,            \* whether the last sync had new receipts
    jobs,             \* the header the seal engine works on, if any
    functionQueue,    \* m_functionQueue: rewinds
    syncing,          \* what the network host says of itself
    events,           \* how many there were
    wanted            \* history: submitted transactions that nothing excuses to lose

clientVars == <<clientAt, chain, known, bq, tq, m_syncBlockQueue, m_syncTransactionQueue, m_needStateReset,
                m_wouldSeal, m_preSeal, m_postSeal, m_working, picked, fresh, jobs, functionQueue, syncing, events, wanted>>
blocks == <<m_preSeal, m_postSeal, m_working>>
flags == <<m_syncBlockQueue, m_syncTransactionQueue, m_needStateReset, m_wouldSeal>>
ledger == <<chain, known, bq>>
local == <<picked, fresh>>
others == <<jobs, functionQueue, syncing, events>>

NoTransactions == [current |-> {}, future |-> {}, dropped |-> {}]

\* startedWorking: all blocks follow the head
started == syncChain(NewBlock("us"), Genesis).block

ClientInit ==
    /\ clientAt = "blocks"
    /\ chain = Genesis /\ known = {Genesis} /\ bq = << >>
    /\ tq = NoTransactions
    /\ m_syncBlockQueue = FALSE /\ m_syncTransactionQueue = FALSE /\ m_needStateReset = FALSE
    /\ m_wouldSeal \in BOOLEAN
    /\ m_preSeal = started /\ m_postSeal = started /\ m_working = started
    /\ picked = << >> /\ fresh = FALSE
    /\ jobs = {} /\ functionQueue = 0 /\ syncing = "idle"
    /\ events = 0
    /\ wanted = {}

-----------------------------------------------------------------------------
\* The chain, as Client uses it

ancestors(h) == {k \in known : k.number <= h.number /\ k \in {h, h.parent, IF h.number > 1 THEN h.parent.parent ELSE Genesis, Genesis}}

isMajorSyncing == syncing = "major"
isSyncing == syncing # "idle"

importAll(q, ts) == FoldLeft(LAMBDA r, t : tqImport(r, t, TRUE), q, SetToSortSeq(ts, LAMBDA t, u : t.nonce < u.nonce))

-----------------------------------------------------------------------------
\* doWork: the blocks.  One block of the queue is imported.  If it becomes the
\* head, the transactions of dead blocks go back to the queue, and those of
\* live ones leave it.

\* A plausible slip: the transactions of dead blocks are forgotten
queueAfterForgetting(h) == FoldLeft(tqDropGood, tq, h.txs)

queueAfter(h) ==
    LET dead == UNION {ToSet(k.txs) : k \in ancestors(chain) \ (ancestors(h) \cup {h})}
    IN  FoldLeft(tqDropGood, importAll(tq, dead), h.txs)

SyncBlockQueue ==
    /\ clientAt = "blocks" /\ m_syncBlockQueue
    /\ IF bq = << >>
       THEN /\ clientAt' = "reset" /\ m_syncBlockQueue' = FALSE
            /\ UNCHANGED <<ledger, tq, m_syncTransactionQueue>>
       ELSE LET h == Head(bq)
                good == enactOn(h)
                live == good /\ h.number > chain.number
            IN  /\ bq' = Tail(bq)
                /\ m_syncBlockQueue' = (Tail(bq) # << >>)
                /\ known' = IF good THEN known \cup {h} ELSE known
                /\ chain' = IF live THEN h ELSE chain
                /\ tq' = IF live THEN queueAfter(h) ELSE tq
                /\ m_syncTransactionQueue' = (m_syncTransactionQueue \/ (live /\ queueAfter(h).current # {}))
                /\ clientAt' = IF live THEN "resync" ELSE "reset"
    /\ UNCHANGED <<m_needStateReset, m_wouldSeal, blocks, local, others, wanted>>

NoBlocks ==
    /\ clientAt = "blocks" /\ ~m_syncBlockQueue
    /\ clientAt' = "reset"
    /\ UNCHANGED <<ledger, tq, flags, blocks, local, others, wanted>>

\* resyncStateFromChain, up to the working block
Resync ==
    LET s == syncChain(CopyBlock(m_preSeal), chain)
    IN  /\ clientAt = "resync"
        /\ IF isMajorSyncing
           THEN clientAt' = "reset" /\ UNCHANGED <<m_preSeal, m_working, m_syncTransactionQueue>>
           ELSE IF s.changed
           THEN /\ m_preSeal' = CopyBlock(s.block) /\ m_working' = CopyBlock(s.block)
                /\ clientAt' = "repost"
                /\ UNCHANGED m_syncTransactionQueue
           ELSE /\ clientAt' = "reset" /\ m_syncTransactionQueue' = TRUE
                /\ UNCHANGED <<m_preSeal, m_working>>
        /\ UNCHANGED <<ledger, tq, m_syncBlockQueue, m_needStateReset, m_wouldSeal, m_postSeal, local, others, wanted>>

\* ... and its second half: what was pending goes back to the queue, unless
\* the head is the block that was sealed from it
Repost ==
    /\ clientAt = "repost"
    /\ tq' = IF ~isSealed(m_postSeal) \/ m_postSeal.m_currentBlock # m_preSeal.m_previousBlock
             THEN importAll(tq, ToSet(m_postSeal.m_transactions)) ELSE tq
    /\ m_postSeal' = CopyBlock(m_working)
    /\ m_syncTransactionQueue' = TRUE
    /\ clientAt' = "reset"
    /\ UNCHANGED <<ledger, m_syncBlockQueue, m_needStateReset, m_wouldSeal, m_preSeal, m_working, local, others, wanted>>

-----------------------------------------------------------------------------
\* doWork: a replaced transaction makes the working block start afresh

ResetState ==
    /\ clientAt = "reset"
    /\ IF m_needStateReset
       THEN /\ m_working' = CopyBlock(m_preSeal) /\ m_postSeal' = CopyBlock(m_preSeal)
            /\ m_syncTransactionQueue' = TRUE
            /\ clientAt' = "resetDone"
       ELSE /\ clientAt' = "txs"
            /\ UNCHANGED <<m_working, m_postSeal, m_syncTransactionQueue>>
    /\ UNCHANGED <<ledger, tq, m_syncBlockQueue, m_needStateReset, m_wouldSeal, m_preSeal, local, others, wanted>>

ResetDone ==
    /\ clientAt = "resetDone"
    /\ m_needStateReset' = FALSE
    /\ clientAt' = "txs"
    /\ UNCHANGED <<ledger, tq, m_syncBlockQueue, m_syncTransactionQueue, m_wouldSeal, blocks, local, others, wanted>>

-----------------------------------------------------------------------------
\* doWork: the transactions.  x_working is held from the first step to the second.

SyncTransactionQueue ==
    /\ clientAt = "txs"
    /\ IF ~isSealed(m_working) /\ ~isSyncing /\ m_syncTransactionQueue
       THEN /\ m_syncTransactionQueue' = FALSE
            /\ picked' = topTransactions(tq, ToSet(m_working.m_transactions))
            /\ clientAt' = "executing"
       ELSE clientAt' = "seal" /\ UNCHANGED <<m_syncTransactionQueue, picked>>
    /\ UNCHANGED <<ledger, tq, m_syncBlockQueue, m_needStateReset, m_wouldSeal, blocks, fresh, others, wanted>>

\* Losing t is no fault of the queue's handling: the working block is not on
\* the head, another transaction has its nonce, its price is too low or
\* nonces are missing before it
excused(t) ==
    \/ m_working.m_previousBlock # chain
    \/ t.price < ask
    \/ \E u \in Submissions : u # t /\ u.nonce = t.nonce
    \/ t.nonce > m_working.m_state.nonce + Cardinality(tq.current \cup tq.future)

\* Block::sync executes them; its second result overwrites the flag
ExecutePicked ==
    LET s == FoldLeft(tryTransaction, [b |-> m_working, q |-> tq], picked)
        n == Len(s.b.m_transactions) - Len(m_working.m_transactions)
    IN  /\ clientAt = "executing"
        /\ m_working' = s.b
        /\ tq' = s.q
        /\ m_syncTransactionQueue' = (n < Len(picked))
        /\ fresh' = (n > 0)
        /\ picked' = << >>
        /\ clientAt' = IF n > 0 THEN "post" ELSE "seal"
        /\ wanted' = {t \in wanted : ~excused(t) \/ t \in s.q.current \cup s.q.future}
        /\ UNCHANGED <<ledger, m_syncBlockQueue, m_needStateReset, m_wouldSeal, m_preSeal, m_postSeal, others>>

\* m_postSeal follows
PostPending ==
    /\ clientAt = "post"
    /\ m_postSeal' = CopyBlock(m_working)
    /\ fresh' = FALSE
    /\ clientAt' = "seal"
    /\ UNCHANGED <<ledger, tq, flags, m_preSeal, m_working, picked, others, wanted>>

-----------------------------------------------------------------------------
\* doWork: rejigSealing.  The working block may be committed again and again.

RejigSealing ==
    /\ clientAt = "seal"
    /\ \/ /\ m_wouldSeal /\ ~isMajorSyncing /\ ~isSealed(m_working)
          /\ m_working' = commitToSeal(m_working)
          /\ clientAt' = "sealing"
          /\ UNCHANGED jobs
       \/ /\ m_wouldSeal /\ (isMajorSyncing \/ isSealed(m_working))
          /\ clientAt' = "functions"
          /\ UNCHANGED <<m_working, jobs>>
       \/ /\ ~m_wouldSeal
          /\ jobs' = {}
          /\ clientAt' = "functions"
          /\ UNCHANGED m_working
    /\ UNCHANGED <<ledger, tq, flags, m_preSeal, m_postSeal, local, functionQueue, syncing, events, wanted>>

GenerateSeal ==
    /\ clientAt = "sealing"
    /\ m_postSeal' = CopyBlock(m_working)
    /\ jobs' = IF m_wouldSeal THEN {m_working.m_currentBlock} ELSE {}
    /\ clientAt' = "functions"
    /\ UNCHANGED <<ledger, tq, flags, m_preSeal, m_working, local, functionQueue, syncing, events, wanted>>

\* doWork: callQueuedFunctions, of which rewind is one.  It tells no one of
\* the transactions in the blocks that are gone.
CallQueuedFunctions ==
    /\ clientAt = "functions"
    /\ IF functionQueue = 0
       THEN clientAt' = "blocks" /\ UNCHANGED <<functionQueue, chain, wanted>>
       ELSE /\ functionQueue' = functionQueue - 1
            /\ chain' = IF chain.number > 0 THEN chain.parent ELSE chain
            /\ wanted' = {t \in wanted : t.nonce \notin {u.nonce : u \in ToSet(chain.txs)}}
            /\ clientAt' = "resync"
    /\ UNCHANGED <<known, bq, tq, flags, blocks, local, jobs, syncing, events>>

-----------------------------------------------------------------------------
\* Other threads

Event == events < MaxEvents /\ events' = events + 1

\* A miner has sealed a header: submitSealed.  The block is only taken if the
\* working block is still the one that was committed.
SubmitSealed(h) ==
    /\ clientAt # "executing"
    /\ h.number <= MaxHeight
    /\ jobs' = jobs \ {h}
    /\ IF canSeal(m_working, h)
       THEN /\ m_working' = sealBlock(m_working, h)
            /\ m_postSeal' = CopyBlock(sealBlock(m_working, h))
            /\ bq' = Append(bq, sealBlock(m_working, h).m_currentBlock)
            /\ m_syncBlockQueue' = TRUE
       ELSE UNCHANGED <<m_working, m_postSeal, bq, m_syncBlockQueue>>
    /\ UNCHANGED <<clientAt, chain, known, tq, m_syncTransactionQueue, m_needStateReset, m_wouldSeal, m_preSeal,
                   local, functionQueue, syncing, events, wanted>>

\* A block of another node, made as its own Client makes them
NetworkBlock(parent, ts) ==
    LET empty == syncChain(NewBlock("net"), parent).block
        full == FoldLeft(LAMBDA b, t : execute(b, t), empty, ts)
        h == commitToSeal(full).m_currentBlock
    IN  /\ Event /\ parent.number < MaxHeight
        /\ h \notin known \cup ToSet(bq)
        /\ enactOn(h)
        /\ bq' = Append(bq, h) /\ m_syncBlockQueue' = TRUE
        /\ UNCHANGED <<clientAt, chain, known, tq, m_syncTransactionQueue, m_needStateReset, m_wouldSeal, blocks,
                       local, jobs, functionQueue, syncing, wanted>>

\* submitTransaction: the queue may replace one of the same nonce, which is
\* what onReplaced tells the client of, or refuse the new one
SubmitTransaction(t) ==
    LET accepted == t \in tqImport(tq, t, FALSE).current \cup tqImport(tq, t, FALSE).future
        replaced == {u \in tq.current \cup tq.future : u.nonce = t.nonce}
    IN  /\ t \notin tq.current \cup tq.future \cup tq.dropped \cup wanted
        /\ accepted
        /\ tq' = tqImport(tq, t, FALSE)
        /\ wanted' = (wanted \ replaced) \cup {t}
        /\ m_syncTransactionQueue' = TRUE
        /\ m_needStateReset' = (m_needStateReset \/ replaced # {})
        /\ UNCHANGED <<clientAt, ledger, m_syncBlockQueue, m_wouldSeal, blocks, local, others>>

StartSealing ==
    /\ Event
    /\ ~m_wouldSeal
    /\ m_wouldSeal' = TRUE
    /\ UNCHANGED <<clientAt, ledger, tq, m_syncBlockQueue, m_syncTransactionQueue, m_needStateReset, blocks, local, jobs, functionQueue, syncing, wanted>>

StopSealing ==
    /\ Event
    /\ m_wouldSeal
    /\ m_wouldSeal' = FALSE
    /\ UNCHANGED <<clientAt, ledger, tq, m_syncBlockQueue, m_syncTransactionQueue, m_needStateReset, blocks, local, jobs, functionQueue, syncing, wanted>>

\* clearPending empties the queue and m_postSeal; the working block keeps its
\* transactions
ClearPending ==
    /\ Event
    /\ m_postSeal.m_transactions # << >>
    /\ tq' = NoTransactions
    /\ m_postSeal' = CopyBlock(m_preSeal)
    /\ m_wouldSeal' = TRUE
    /\ wanted' = {}
    /\ UNCHANGED <<clientAt, ledger, m_syncBlockQueue, m_syncTransactionQueue, m_needStateReset, m_preSeal, m_working, local, jobs, functionQueue, syncing>>

Rewind ==
    /\ Event
    /\ functionQueue' = functionQueue + 1
    /\ UNCHANGED <<clientAt, ledger, tq, flags, blocks, local, jobs, syncing, wanted>>

\* reopenChain with an empty chain: the thread is stopped, everything starts afresh
ReopenChain ==
    /\ clientAt = "blocks" /\ Event
    /\ chain' = Genesis /\ known' = {Genesis} /\ bq' = << >>
    /\ tq' = NoTransactions
    /\ m_preSeal' = started /\ m_postSeal' = started /\ m_working' = started
    /\ jobs' = {}
    /\ wanted' = {}
    /\ UNCHANGED <<clientAt, flags, local, functionQueue, syncing>>

SyncStateChanges ==
    /\ Event
    /\ syncing' \in {"idle", "blocks", "major"} \ {syncing}
    /\ UNCHANGED <<clientAt, ledger, tq, flags, blocks, local, jobs, functionQueue, wanted>>

DoWorkSteps ==
    \/ SyncBlockQueue \/ NoBlocks \/ Resync \/ Repost
    \/ ResetState \/ ResetDone
    \/ SyncTransactionQueue \/ ExecutePicked \/ PostPending
    \/ RejigSealing \/ GenerateSeal
    \/ CallQueuedFunctions

ClientNext ==
    \/ DoWorkSteps
    \/ \E h \in jobs : SubmitSealed(h)
    \/ \E parent \in known, ts \in {<< >>} \cup {<<t>> : t \in wanted} : NetworkBlock(parent, ts)
    \/ \E t \in Submissions : SubmitTransaction(t)
    \/ StartSealing
    \/ StopSealing
    \/ ClearPending
    \/ Rewind
    \/ ReopenChain
    \/ SyncStateChanges

ClientSpec == ClientInit /\ [][ClientNext]_clientVars /\ WF_clientVars(DoWorkSteps)

-----------------------------------------------------------------------------
(***************************************************************************)
(* A block that was sealed here can be imported: however often its block    *)
(* was committed, extended and committed again, on whatever head, the       *)
(* playback of its transactions on its parent gives the root in its header. *)
(***************************************************************************)
OwnBlocksImport == \A i \in DOMAIN bq : bq[i].author = "us" => bq[i].parent \in known /\ enactOn(bq[i])

(***************************************************************************)
(* A transaction that was accepted, or one that replaced it, stays in the   *)
(* queue or is in the chain, also when the block that contained it dies,    *)
(* unless something excuses dropping it.                                    *)
(***************************************************************************)
NoTransactionLost ==
    \A t \in wanted : chain.state.nonce > t.nonce \/ \E u \in tq.current \cup tq.future : u.nonce = t.nonce

(***************************************************************************)
(* The handler of the transaction queue's signal, onTransactionQueueReady:  *)
(* while the client is idle and not syncing, what is executable in the      *)
(* queue gets executed, dropped, or included in a block.                    *)
(***************************************************************************)
TransactionsPickedUp ==
    \A t \in Submissions :
        (t \in tq.current) ~> (t \notin tq.current \/ t \in ToSet(m_working.m_transactions) \/ isSyncing
                                 \/ isSealed(m_working) \/ ~executable(m_working, t))
=============================================================================
