--------------------------------- MODULE PBFT ---------------------------------
(***************************************************************************)
(* libpdftseal: the loop with which PBFTClient makes blocks, and the part  *)
(* of the seal engine PBFT it calls.  A block is committed and broadcast    *)
(* under one lock, its transactions are run and it is committed again under *)
(* a second, and signed under a third; view changes come in between.        *)
(* The engine's messages, its choice of a leader, its quorum and its view   *)
(* changes have no definition in the repository and are left open.          *)
(* Block's operations are in module Block.                                  *)
(***************************************************************************)
EXTENDS Block

CONSTANTS
    m_omit_empty_block,          \* a member of Client, TRUE where nobody sets it
    m_maxBlockTranscations,
    Submissions,                 \* transactions users submit
    MaxView, MaxHeight, MaxSubmissions   \* bounds: view changes, height of the chain, submissions

ASSUME SubmissionsAssumption ==
    IsFiniteSet(Submissions) /\ Submissions \subseteq [nonce : Nat, price : Nat]

VARIABLES
    sealing,       \* where the client's thread is: stage, header prepared, its transactions, view, and whether it was broadcast
    m_view,        \* the engine's view
    viewChanged,   \* a view change whose handler has not run
    m_working, m_postSeal,
    m_wouldSeal,
    chain,         \* the head of the chain
    bq,            \* m_bq: blocks to import
    tq, m_syncTransactionQueue,
    prepared,      \* history: what generateSeal broadcast, by view
    committed,     \* history: what generateCommit signed, by view
    submissions    \* how many there were

pbftVars == <<sealing, m_view, viewChanged, m_working, m_postSeal, m_wouldSeal, chain, bq, tq,
              m_syncTransactionQueue, prepared, committed, submissions>>
engine == <<m_view, viewChanged>>
outside == <<chain, bq>>
history == <<prepared, committed, submissions>>

NotSealing == [stage |-> "blocks", header |-> NoHeader, tx_num |-> 0, view |-> -1, generated |-> FALSE]

afresh == syncChain(NewBlock("us"), Genesis).block

\* the constructor, init and initEnv
PBFTInit ==
    /\ sealing = NotSealing /\ m_view = 0 /\ viewChanged = FALSE
    /\ m_working = afresh /\ m_postSeal = afresh /\ m_wouldSeal = FALSE
    /\ chain = Genesis /\ bq = << >>
    /\ tq = [current |-> {}, future |-> {}, dropped |-> {}] /\ m_syncTransactionQueue = FALSE
    /\ prepared = {} /\ committed = {} /\ submissions = 0

At(stage) == sealing.stage = stage
GoTo(stage) == sealing' = [sealing EXCEPT !.stage = stage]
Leave == sealing' = NotSealing

-----------------------------------------------------------------------------
\* syncBlockQueue: Client's, and then a working block that is sealed and not
\* above the head starts afresh
afterHead(h) ==
    LET fresh == CopyBlock(syncChain(NewBlock("us"), h).block)
    IN  IF isSealed(fresh) /\ fresh.m_currentBlock.number <= h.number THEN resetCurrent(fresh) ELSE fresh

resubmitted(h) ==
    LET q == FoldLeft(tqDropGood, tq, h.txs)
    IN  IF isSealed(m_postSeal) /\ m_postSeal.m_currentBlock = h THEN q
        ELSE FoldLeft(LAMBDA r, t : tqImport(r, t, TRUE), q, m_postSeal.m_transactions)

SyncBlockQueue ==
    /\ At("blocks")
    /\ IF bq = << >> THEN UNCHANGED <<chain, bq, tq, m_syncTransactionQueue, m_working, m_postSeal>>
       ELSE LET h == Head(bq) IN
            /\ bq' = Tail(bq)
            /\ IF enactOn(h) /\ h.number > chain.number
               THEN /\ chain' = h
                    /\ m_working' = afterHead(h) /\ m_postSeal' = afterHead(h)
                    /\ tq' = resubmitted(h) /\ m_syncTransactionQueue' = TRUE
               ELSE UNCHANGED <<chain, tq, m_syncTransactionQueue, m_working, m_postSeal>>
    /\ IF m_wouldSeal THEN GoTo("rejig") ELSE Leave
    /\ UNCHANGED <<engine, m_wouldSeal, history>>

\* The engine does not let it seal: not the leader, or syncing
NotNow ==
    /\ At("rejig") /\ Leave
    /\ UNCHANGED <<engine, m_working, m_postSeal, m_wouldSeal, outside, tq, m_syncTransactionQueue, history>>

-----------------------------------------------------------------------------
\* rejigSealing, under the first lock

\* syncTransactionQueue, if the flag is up and there is room
taken(room) ==
    IF ~(Len(m_working.m_transactions) < room /\ m_syncTransactionQueue)
    THEN [b |-> m_working, q |-> tq, executed |-> 0, more |-> m_syncTransactionQueue]
    ELSE IF Len(m_working.m_transactions) >= m_maxBlockTranscations
    THEN [b |-> m_working, q |-> tq, executed |-> 0, more |-> FALSE]
    ELSE syncTransactions(m_working, tq)

\* room: how many transactions fit in the time that is left
Prepare(room) ==
    LET s == taken(room)  block == commitToSeal(s.b) IN
    /\ At("rejig") /\ ~isSealed(m_working)
    /\ tq' = s.q /\ m_syncTransactionQueue' = s.more
    /\ m_postSeal' = IF s.executed > 0 THEN CopyBlock(s.b) ELSE m_postSeal
    /\ \/ /\ Len(s.b.m_transactions) < room   \* wait for the next interval
          /\ m_working' = s.b /\ Leave
       \/ /\ m_working' = block
          /\ sealing' = [stage |-> "prepared", header |-> block.m_currentBlock,
                         tx_num |-> Len(block.m_transactions), view |-> -1, generated |-> FALSE]
    /\ UNCHANGED <<engine, m_wouldSeal, outside, history>>

SealedAlready ==
    /\ At("rejig") /\ isSealed(m_working) /\ Leave
    /\ UNCHANGED <<engine, m_working, m_postSeal, m_wouldSeal, outside, tq, m_syncTransactionQueue, history>>

\* generateSeal: the view is read and the block broadcast under the engine's
\* mutex.  An empty block that is to be left out changes the view.
GenerateSeal ==
    /\ At("prepared")
    /\ \E generated \in BOOLEAN :
         LET omitted == generated /\ sealing.tx_num = 0 /\ m_omit_empty_block IN
         /\ sealing' = [sealing EXCEPT !.stage = "generated", !.view = m_view, !.generated = generated]
         /\ prepared' = IF generated THEN prepared \union {[view |-> m_view, header |-> sealing.header]} ELSE prepared
         /\ IF omitted THEN m_view < MaxView /\ m_view' = m_view + 1 /\ viewChanged' = TRUE ELSE UNCHANGED engine
    /\ UNCHANGED <<m_working, m_postSeal, m_wouldSeal, outside, tq, m_syncTransactionQueue, committed, submissions>>

-----------------------------------------------------------------------------
\* rejigSealing, under the second lock

\* A plausible slip: a transaction that is refused is passed over
refusedQuietly(b) == FALSE

\* Block::exec executes the block's transactions on the block's state
refused(b) == b.m_transactions # << >> /\ ~executable(uncommitToSeal(b), Head(b.m_transactions))

exec(b) == FoldLeft(LAMBDA c, t : [execute(c, t) EXCEPT !.m_transactions = b.m_transactions], b, b.m_transactions)

\* what executeTransaction leaves in m_postSeal
executeTransaction == IF m_working.m_transactions = << >> THEN m_postSeal ELSE CopyBlock(exec(m_working))

ExecutePrepared ==
    /\ At("generated")
    /\ IF \/ ~sealing.generated
          \/ sealing.tx_num = 0 /\ m_omit_empty_block
          \/ sealing.tx_num # Len(m_working.m_transactions)
       THEN m_working' = resetCurrent(m_working) /\ Leave /\ UNCHANGED <<tq, m_postSeal>>
       ELSE IF isSealed(m_working) \/ refused(m_working)
       THEN /\ m_working' = resetCurrent(m_working) /\ Leave
            /\ tq' = IF isSealed(m_working) THEN tq ELSE tqDrop(tq, Head(m_working.m_transactions))
            /\ UNCHANGED m_postSeal
       ELSE LET block == commitToSealAfterExecTx(exec(m_working)) IN
            /\ m_working' = sealBlock(block, block.m_currentBlock)
            /\ m_postSeal' = executeTransaction
            /\ sealing' = [sealing EXCEPT !.stage = "executed", !.header = block.m_currentBlock]
            /\ UNCHANGED tq
    /\ UNCHANGED <<engine, m_wouldSeal, outside, m_syncTransactionQueue, history>>

\* The block is signed if the view is still the one it was broadcast in
generateCommit(block, view) ==
    IF view = m_view THEN committed \union {[view |-> view, header |-> block]} ELSE committed

\* rejigSealing, under the third lock
GenerateCommit ==
    /\ At("executed") /\ Leave
    /\ m_postSeal' = IF isSealed(m_working) THEN CopyBlock(m_working) ELSE m_postSeal
    /\ committed' = IF isSealed(m_working) THEN generateCommit(sealing.header, sealing.view) ELSE committed
    /\ UNCHANGED <<engine, m_working, m_wouldSeal, outside, tq, m_syncTransactionQueue, prepared, submissions>>

-----------------------------------------------------------------------------
\* Other threads

StartSealing ==
    /\ ~m_wouldSeal /\ m_wouldSeal' = TRUE
    /\ UNCHANGED <<sealing, engine, m_working, m_postSeal, outside, tq, m_syncTransactionQueue, history>>

StopSealing ==
    /\ m_wouldSeal /\ m_wouldSeal' = FALSE
    /\ UNCHANGED <<sealing, engine, m_working, m_postSeal, outside, tq, m_syncTransactionQueue, history>>

\* onTransactionQueueReady
SubmitTransaction(t) ==
    /\ submissions < MaxSubmissions /\ submissions' = submissions + 1
    /\ tq' = tqImport(tq, t, FALSE) /\ m_syncTransactionQueue' = TRUE
    /\ UNCHANGED <<sealing, engine, m_working, m_postSeal, m_wouldSeal, outside, prepared, committed>>

\* the engine's thread: a timeout, or the view change messages of others
ChangeView ==
    /\ m_view < MaxView /\ m_view' = m_view + 1 /\ viewChanged' = TRUE
    /\ UNCHANGED <<sealing, m_working, m_postSeal, m_wouldSeal, outside, tq, m_syncTransactionQueue, history>>

\* ... and the handler PBFTClient gave it
OnViewChange ==
    /\ viewChanged /\ viewChanged' = FALSE
    /\ m_working' = IF isSealed(m_working) THEN resetCurrent(m_working) ELSE m_working
    /\ UNCHANGED <<sealing, m_view, m_postSeal, m_wouldSeal, outside, tq, m_syncTransactionQueue, history>>

\* m_onSealGenerated: a block that was agreed on, ours or another node's
SubmitSealed ==
    /\ bq = << >> /\ chain.number < MaxHeight
    /\ \E h \in {c.header : c \in committed}
              \union {commitToSeal(FoldLeft(execute, syncChain(NewBlock("other"), chain).block, ts)).m_currentBlock :
                          ts \in {<< >>} \union {<<t>> : t \in {u \in Submissions : u.nonce = chain.state.nonce}}} :
         h.parent = chain /\ bq' = <<h>>
    /\ UNCHANGED <<sealing, engine, m_working, m_postSeal, m_wouldSeal, chain, tq, m_syncTransactionQueue, history>>

PBFTSteps ==
    \/ SyncBlockQueue \/ NotNow \/ SealedAlready
    \/ \E room \in 0..m_maxBlockTranscations : Prepare(room)
    \/ GenerateSeal \/ ExecutePrepared \/ GenerateCommit

PBFTNext ==
    \/ PBFTSteps
    \/ \E t \in Submissions : SubmitTransaction(t)
    \/ StartSealing \/ StopSealing \/ ChangeView \/ OnViewChange \/ SubmitSealed

PBFTSpec == PBFTInit /\ [][PBFTNext]_pbftVars

-----------------------------------------------------------------------------
\* A block that is signed was broadcast in the same view, with the same
\* transactions on the same parent, and every node that plays it back finds
\* the state it promises, although it was committed twice and view changes and
\* resets come between the locks.
\* Code: PBFTClient.cpp:233-423, PBFT.cpp:185-209, Block.cpp:542-589, 1035-1058.
SignedAsPrepared ==
    \A c \in committed :
        /\ enactOn(c.header)
        /\ \E p \in prepared : p.view = c.view /\ p.header.parent = c.header.parent /\ p.header.txs = c.header.txs

-----------------------------------------------------------------------------
\* The inductive invariant behind SignedAsPrepared.
States == [nonce : Nat, rewards : Nat]
Queues == [current : SUBSET Submissions, future : SUBSET Submissions, dropped : SUBSET Submissions]

\* What is played back or resubmitted of a header
GoodHeader(h) == h.state \in States /\ h.txs \in Seq(Submissions)

\* The blocks with the parent, the header, the seal and the author of b
BlocksOf(b) ==
    [m_previousBlock : {b.m_previousBlock}, m_transactions : Seq(Submissions),
     m_state : States, m_precommit : States, m_committedToSeal : BOOLEAN,
     m_currentBlock : {b.m_currentBlock}, m_currentTxs : {b.m_currentTxs},
     sealed : {b.sealed}, m_author : {b.m_author}]

\* After so many transactions
advanced(state, n) == [state EXCEPT !.nonce = @ + n]

\* A block has run its transactions on the state of its parent, and nothing
\* else: the rewards are not part of the state it goes on from.
Played(b) ==
    LET parent == b.m_previousBlock.state IN
    /\ b \in BlocksOf(b) /\ parent \in States
    /\ uncommitToSeal(b).m_state = advanced(parent, Len(b.m_transactions))
    /\ b.m_state.nonce = parent.nonce + Len(b.m_transactions)
    /\ \A i \in DOMAIN b.m_transactions : b.m_transactions[i].nonce = parent.nonce + i - 1

PBFTTypes ==
    /\ sealing \in [stage : {"blocks", "rejig", "prepared", "generated", "executed"}, header : {sealing.header},
                    tx_num : Nat, view : {sealing.view}, generated : BOOLEAN]
    /\ GoodHeader(chain) /\ (bq # << >> => bq = <<Head(bq)>> /\ GoodHeader(Head(bq)))
    /\ tq \in Queues /\ m_postSeal.m_transactions \in Seq(Submissions)

\* While it is broadcast the working block stays as it was committed: view
\* changes reset only what is sealed.
BroadcastAsCommitted ==
    sealing.stage \in {"prepared", "generated"} =>
        /\ ~isSealed(m_working) /\ m_working.m_committedToSeal
        /\ m_working.m_state = applyRewards(m_working.m_precommit)
        /\ sealing.header = header(m_working) /\ m_working.m_currentBlock = sealing.header
        /\ sealing.tx_num = Len(m_working.m_transactions)
        /\ At("generated") /\ sealing.generated => [view |-> sealing.view, header |-> sealing.header] \in prepared

\* h may be signed in a view
Signable(h, view) ==
    /\ GoodHeader(h) /\ enactOn(h)
    /\ \E p \in prepared : p.view = view /\ p.header.parent = h.parent /\ p.header.txs = h.txs

PBFTInv ==
    /\ PBFTTypes /\ Played(m_working) /\ BroadcastAsCommitted
    /\ At("executed") => Signable(sealing.header, sealing.view)
    /\ \A c \in committed : Signable(c.header, c.view)
=============================================================================
