--------------------------- MODULE EthereumProof ---------------------------
(***************************************************************************)
(* Machine-checked proofs about what dev::eth::EthereumHost sends its      *)
(* peers, about what dev::eth::ClientBase answers its callers, about the   *)
(* DAG files of libethash, and about dev::eth::BlockHeader as Block and    *)
(* Client use it.                                                          *)
(*                                                                         *)
(* EthereumHost, for any peers, transactions and lengths of the chain.     *)
(* SentOnce is not inductive: a round of doWork first selects transactions *)
(* and notes them as sent, then sends them, and a reset, an import or a    *)
(* peer's transactions may come between. CountedAsSent counts what was     *)
(* sent together with what a round is about to send. NoGaps needs to know  *)
(* where the last block stands, which ToldUpToLatest says; after a reset   *)
(* it is only known that the head is not before it.                        *)
(*                                                                         *)
(* DAG files, for any revisions, seeds and sizes. That a file which        *)
(* matches is complete says nothing of a file that is being written;       *)
(* MagicIsLast speaks of every file there is.                              *)
(*                                                                         *)
(* Queries: an estimate is the least gas tried that suffices, or the most  *)
(* allowed, because the upper bound of the bisection is always one or the  *)
(* other (EstimateInv); logs follow because a block whose bloom does not   *)
(* match has no log that does (LogsInv).                                   *)
(*                                                                         *)
(* Watches: what a watch was given is complete because whatever was noted  *)
(* and not yet handed on is younger than whatever was (WatchSound), and a  *)
(* filter notes the numbers of blocks in their order (FilterSound).        *)
(*                                                                         *)
(* Headers: a hash tells the header it is of, so that a block has one      *)
(* parent and is played back on it (ChainFollows); the block that is being *)
(* made is one on the head, committed or not (MadeOn); and no new head is  *)
(* taken for the block before or the one being made (HeadIsNew), which is  *)
(* where something must be rewarded.                                       *)
(***************************************************************************)
EXTENDS EthereumHost, DAGFile, Queries, Watches, BlockHeaders, FiniteSetTheorems, SequenceTheorems, WellFoundedInduction, TLAPS

GossipSpec == GossipInit /\ [][GossipNext]_gossipVars

\* An EthereumHost that has told nothing yet.
LEMMA GossipInitial == GossipInit => GossipInv
<1> SUFFICES ASSUME GossipInit
             PROVE  GossipInv
  OBVIOUS
<1>1. GossipTypes
  <2>1. 0 \in 0..MaxBlock /\ 0 \in 0..0
    BY BlockAssumption
  <2>2. toSend \in [Peers -> SUBSET Txs] /\ txsSent \in [Peers -> [Txs -> Nat]]
    BY DEF GossipInit
  <2>3. /\ blocksSent \in [Peers -> SUBSET (1..MaxBlock)] /\ skipped \in [Peers -> SUBSET (1..MaxBlock)]
        /\ m_knownBlocks \in [Peers -> SUBSET (0..MaxBlock)]
    BY DEF GossipInit
  <2> QED BY <2>1, <2>2, <2>3, Zenon DEF GossipInit, GossipTypes
<1>2. SelectedToSend /\ CountedAsSent
  BY DEF GossipInit, SelectedToSend, CountedAsSent, one
<1>3. ToldUpToLatest
  <2>1. m_latestBlockSent = 0 /\ 0 # NoBlock /\ 1..0 = {}
    BY BlockAssumption DEF GossipInit, NoBlock
  <2> QED BY <2>1 DEF GossipInit, ToldUpToLatest, told
<1> QED BY <1>1, <1>2, <1>3 DEF GossipInv

\* What only moves the head keeps what peers were told.
LEMMA ToldIsKept ==
  ASSUME GossipTypes, ToldUpToLatest, head <= head', head' \in Nat,
         UNCHANGED <<m_latestBlockSent, blocksSent, skipped>>
  PROVE  ToldUpToLatest'
<1> SUFFICES ASSUME NEW p \in Peers
             PROVE  IF m_latestBlockSent' = NoBlock THEN \E n \in 0..head' : told(p)' = 1..n
                                                    ELSE told(p)' = 1..m_latestBlockSent'
  BY DEF ToldUpToLatest
<1>1. told(p)' = told(p)
  BY DEF told
<1>2. CASE m_latestBlockSent = NoBlock
  <2>1. PICK n \in 0..head : told(p) = 1..n
    BY <1>2 DEF ToldUpToLatest
  <2>2. n \in 0..head'
    BY DEF GossipTypes
  <2> QED BY <1>1, <1>2, <2>1, <2>2
<1>3. CASE m_latestBlockSent # NoBlock
  BY <1>1, <1>3 DEF ToldUpToLatest
<1> QED BY <1>2, <1>3

\* The rounds of doWork, and what the client, the sync and the peers do between them.
LEMMA GossipStep == GossipInv /\ [GossipNext]_gossipVars => GossipInv'
<1> SUFFICES ASSUME GossipInv, [GossipNext]_gossipVars
             PROVE  GossipInv'
  OBVIOUS
<1> USE DEF GossipInv
<1>1. CASE ImportBlock
  <2>1. /\ head' = head + 1 /\ head \in 0..MaxBlock /\ head < MaxBlock /\ MaxBlock \in Nat
        /\ UNCHANGED <<historyVars, sentVars, workVars, peersVars, pendingTxs, wasReset>>
    BY <1>1, BlockAssumption DEF ImportBlock, GossipTypes, queueOfTxs, syncVars
  <2>2. GossipTypes'
    <3>1. head' \in 0..MaxBlock /\ current' \in 0..head' /\ m_latestBlockSent' \in 0..head' \cup {NoBlock}
      BY <2>1 DEF GossipTypes, sentVars, workVars
    <3> QED BY <2>1, <3>1 DEF GossipTypes, sentVars, workVars, peersVars, historyVars
  <2>3. SelectedToSend' /\ CountedAsSent'
    BY <2>1 DEF SelectedToSend, CountedAsSent, sentVars, workVars
  <2>4. head <= head' /\ head' \in Nat
    BY <2>1
  <2>5. ToldUpToLatest'
    BY <2>1, <2>4, ToldIsKept DEF sentVars, historyVars
  <2> QED BY <2>2, <2>3, <2>5
<1>2. CASE noteNewBlocks \/ noteNewTransactions \/ SyncChanges \/ \E p \in Peers : PeerSendsBlock(p)
  <2>1. UNCHANGED <<head, skipped, sentVars, workVars, sessions, pendingTxs, wasReset>>
    BY <1>2 DEF noteNewBlocks, noteNewTransactions, SyncChanges, PeerSendsBlock, queueOfTxs, syncVars,
                peersVars, historyVars, chainVars
  <2>2. m_knownBlocks' \in [Peers -> SUBSET (0..MaxBlock)]
    <3>1. CASE noteNewBlocks \/ noteNewTransactions \/ SyncChanges
      BY <3>1 DEF noteNewBlocks, noteNewTransactions, SyncChanges, peersVars, GossipTypes
    <3>2. CASE \E p \in Peers : PeerSendsBlock(p)
      <4>1. PICK p \in Peers : PeerSendsBlock(p)
        BY <3>2
      <4> QED BY <4>1 DEF PeerSendsBlock, GossipTypes
    <3> QED BY <1>2, <3>1, <3>2
  <2>3. GossipTypes'
    BY <2>1, <2>2 DEF GossipTypes, sentVars, workVars
  <2>4. SelectedToSend' /\ CountedAsSent'
    BY <2>1 DEF SelectedToSend, CountedAsSent, sentVars, workVars
  <2>5. ToldUpToLatest'
    BY <2>1 DEF ToldUpToLatest, told, sentVars
  <2> QED BY <2>3, <2>4, <2>5
<1>3. ASSUME NEW t \in Txs, NEW p, ImportTransaction(t, p)
      PROVE  GossipInv'
  <2>1. /\ pendingTxs' = pendingTxs \cup {t}
        /\ UNCHANGED <<historyVars, sentVars, workVars, peersVars, wasReset, head>>
    BY <1>3 DEF ImportTransaction, chainVars, syncVars
  <2>2. GossipTypes'
    BY <2>1 DEF GossipTypes, sentVars, workVars, peersVars, historyVars
  <2>3. SelectedToSend' /\ CountedAsSent' /\ ToldUpToLatest'
    BY <2>1 DEF SelectedToSend, CountedAsSent, ToldUpToLatest, told, sentVars, workVars, historyVars
  <2> QED BY <2>2, <2>3
<1>4. ASSUME NEW t \in Txs, NEW p \in Peers, TransactionImported(t, p)
      PROVE  GossipInv'
  <2>1. UNCHANGED <<skipped, pendingTxs, sentVars, workVars, sessions, m_knownBlocks, wasReset, head>>
    BY <1>4 DEF TransactionImported, chainVars, syncVars
  <2>2. GossipTypes'
    BY <2>1 DEF GossipTypes, sentVars, workVars
  <2>3. SelectedToSend' /\ CountedAsSent' /\ ToldUpToLatest'
    BY <2>1 DEF SelectedToSend, CountedAsSent, ToldUpToLatest, told, sentVars, workVars
  <2> QED BY <2>2, <2>3
<1>5. ASSUME NEW t \in Txs, NEW p \in Peers, TransactionKnown(t, p)
      PROVE  GossipInv'
  <2>1. /\ t \in pendingTxs /\ m_transactionsSent' = m_transactionsSent \cup {t}
        /\ UNCHANGED <<skipped, pendingTxs, m_latestBlockSent, txsSent, blocksSent, workVars, sessions,
                       m_knownBlocks, wasReset, head>>
    BY <1>5 DEF TransactionKnown, chainVars, syncVars, queueOfTxs
  <2>2. GossipTypes'
    BY <2>1 DEF GossipTypes, workVars
  <2>3. SelectedToSend' /\ ToldUpToLatest'
    BY <2>1 DEF SelectedToSend, ToldUpToLatest, told, workVars
  <2>4. CountedAsSent'
    <3> SUFFICES ASSUME NEW q \in Peers, NEW u \in Txs
                 PROVE  txsSent[q][u] + one(u \in toSend[q]) <= one(u \in m_transactionsSent') + one(wasReset)
      BY <2>1 DEF CountedAsSent, workVars
    <3>1. one(u \in m_transactionsSent) <= one(u \in m_transactionsSent')
      BY <2>1 DEF one
    <3>2. /\ txsSent[q][u] \in Nat /\ one(u \in toSend[q]) \in Nat /\ one(wasReset) \in Nat
          /\ one(u \in m_transactionsSent) \in Nat /\ one(u \in m_transactionsSent') \in Nat
      BY DEF GossipTypes, one
    <3>3. txsSent[q][u] + one(u \in toSend[q]) <= one(u \in m_transactionsSent) + one(wasReset)
      BY DEF CountedAsSent
    <3> QED BY <3>1, <3>2, <3>3
  <2> QED BY <2>2, <2>3, <2>4
<1>6. CASE \E p \in Peers : PeerLeaves(p)
  <2>1. /\ sessions' \subseteq Peers
        /\ UNCHANGED <<historyVars, head, pendingTxs, sentVars, wasReset, workVars, m_knownBlocks>>
    BY <1>6 DEF PeerLeaves, chainVars, queueOfTxs, syncVars, GossipTypes
  <2>2. GossipTypes'
    BY <2>1 DEF GossipTypes, sentVars, workVars, historyVars
  <2>3. SelectedToSend' /\ CountedAsSent' /\ ToldUpToLatest'
    BY <2>1 DEF SelectedToSend, CountedAsSent, ToldUpToLatest, told, sentVars, workVars, historyVars
  <2> QED BY <2>2, <2>3
<1>7. CASE reset
  <2>1. /\ ~wasReset /\ wasReset' = TRUE /\ m_latestBlockSent' = NoBlock /\ m_transactionsSent' = {}
        /\ UNCHANGED <<historyVars, head, pendingTxs, txsSent, blocksSent, workVars, peersVars>>
    BY <1>7 DEF reset, chainVars, queueOfTxs
  <2>2. GossipTypes'
    BY <2>1 DEF GossipTypes, workVars, historyVars, peersVars
  <2>3. SelectedToSend'
    BY <2>1 DEF SelectedToSend, workVars
  <2>4. CountedAsSent'
    <3> SUFFICES ASSUME NEW q \in Peers, NEW u \in Txs
                 PROVE  txsSent[q][u] + one(u \in toSend[q]) <= 1
      BY <2>1 DEF CountedAsSent, workVars, one
    <3>1. /\ txsSent[q][u] \in Nat /\ one(u \in toSend[q]) \in Nat
          /\ one(u \in m_transactionsSent) \in 0..1 /\ one(wasReset) = 0
      BY <2>1 DEF GossipTypes, one
    <3>2. txsSent[q][u] + one(u \in toSend[q]) <= one(u \in m_transactionsSent) + one(wasReset)
      BY DEF CountedAsSent
    <3> QED BY <3>1, <3>2
  <2>5. ToldUpToLatest'
    <3> SUFFICES ASSUME NEW p \in Peers
                 PROVE  \E n \in 0..head : told(p) = 1..n
      BY <2>1 DEF ToldUpToLatest, told, historyVars
    <3>1. CASE m_latestBlockSent = NoBlock
      BY <3>1 DEF ToldUpToLatest
    <3>2. CASE m_latestBlockSent # NoBlock
      <4>1. m_latestBlockSent \in 0..head /\ told(p) = 1..m_latestBlockSent
        BY <3>2 DEF ToldUpToLatest, GossipTypes
      <4> QED BY <4>1
    <3> QED BY <3>1, <3>2
  <2> QED BY <2>2, <2>3, <2>4, <2>5
<1>8. CASE WorkBegins
  <2>1. CASE m_latestBlockSent = NoBlock
    <3>1. /\ m_latestBlockSent' = head /\ m_transactionsSent' = pendingTxs /\ current' = head
          /\ skipped' = [p \in Peers |-> 1..head]
          /\ UNCHANGED <<head, pendingTxs, txsSent, blocksSent, wasReset, ts, toSend, peersVars>>
          /\ workStep = "begin"
      BY <1>8, <2>1 DEF WorkBegins, chainVars, queueOfTxs, syncVars
    <3>2. GossipTypes'
      <4>1. head \in 0..MaxBlock /\ head \in 0..head /\ 1..head \subseteq 1..MaxBlock
        BY BlockAssumption DEF GossipTypes
      <4>2. skipped' \in [Peers -> SUBSET (1..MaxBlock)]
        BY <3>1, <4>1
      <4> QED BY <3>1, <4>1, <4>2 DEF GossipTypes, peersVars
    <3>3. SelectedToSend'
      BY <3>1 DEF SelectedToSend
    <3>4. CountedAsSent'
      <4> SUFFICES ASSUME NEW q \in Peers, NEW u \in Txs
                   PROVE  txsSent[q][u] + one(u \in toSend[q]) <= one(u \in pendingTxs) + one(wasReset)
        BY <3>1 DEF CountedAsSent
      <4>1. one(u \in m_transactionsSent) <= one(u \in pendingTxs)
        BY DEF one, GossipTypes
      <4>2. /\ txsSent[q][u] \in Nat /\ one(u \in toSend[q]) \in Nat /\ one(wasReset) \in Nat
            /\ one(u \in m_transactionsSent) \in Nat /\ one(u \in pendingTxs) \in Nat
        BY DEF GossipTypes, one
      <4>3. txsSent[q][u] + one(u \in toSend[q]) <= one(u \in m_transactionsSent) + one(wasReset)
        BY DEF CountedAsSent
      <4> QED BY <4>1, <4>2, <4>3
    <3>5. ToldUpToLatest'
      <4> SUFFICES ASSUME NEW p \in Peers
                   PROVE  blocksSent[p] \cup (1..head) = 1..head
        <5>1. head # NoBlock
          BY BlockAssumption DEF GossipTypes, NoBlock
        <5> QED BY <3>1, <5>1 DEF ToldUpToLatest, told
      <4>1. PICK n \in 0..head : told(p) = 1..n
        BY <2>1 DEF ToldUpToLatest
      <4>2. 1..n \subseteq 1..head
        BY DEF GossipTypes
      <4> QED BY <4>1, <4>2 DEF told
    <3> QED BY <3>2, <3>3, <3>4, <3>5
  <2>2. CASE m_latestBlockSent # NoBlock
    <3>1. /\ current' = head /\ workStep = "begin"
          /\ UNCHANGED <<m_latestBlockSent, m_transactionsSent, historyVars, head, pendingTxs, ts, txsSent, blocksSent,
                         wasReset, toSend, peersVars>>
      BY <1>8, <2>2 DEF WorkBegins, chainVars, queueOfTxs, syncVars
    <3>2. GossipTypes'
      <4>1. head \in 0..head
        BY BlockAssumption DEF GossipTypes
      <4> QED BY <3>1, <4>1 DEF GossipTypes, peersVars, historyVars
    <3>3. SelectedToSend' /\ CountedAsSent' /\ ToldUpToLatest'
      BY <3>1 DEF SelectedToSend, CountedAsSent, ToldUpToLatest, told, historyVars
    <3> QED BY <3>2, <3>3
  <2> QED BY <2>1, <2>2
<1>9. CASE SelectTransactions
  <2>1. /\ UNCHANGED <<historyVars, head, pendingTxs, m_latestBlockSent, txsSent, blocksSent, wasReset, current, peersVars>>
        /\ workStep = "select" /\ workStep' = "sendTransactions"
        /\ toSend' = [p \in Peers |-> IF p \in sessions
                           THEN ts \ (m_transactionsSent \cup m_knownTransactions[p]) ELSE {}]
        /\ m_transactionsSent' = m_transactionsSent \cup ts /\ ts' = {}
    BY <1>9 DEF SelectTransactions, chainVars, queueOfTxs, syncVars
  <2>2. GossipTypes'
    <3>1. toSend' \in [Peers -> SUBSET Txs]
      BY <2>1 DEF GossipTypes
    <3> QED BY <2>1, <3>1 DEF GossipTypes, historyVars, peersVars
  <2>3. SelectedToSend' /\ ToldUpToLatest'
    BY <2>1 DEF SelectedToSend, ToldUpToLatest, told, historyVars
  <2>4. CountedAsSent'
    <3> SUFFICES ASSUME NEW q \in Peers, NEW u \in Txs
                 PROVE  txsSent[q][u] + one(u \in toSend'[q]) <= one(u \in m_transactionsSent') + one(wasReset)
      BY <2>1 DEF CountedAsSent
    <3>1. txsSent[q][u] <= one(u \in m_transactionsSent) + one(wasReset)
      <4>1. toSend[q] = {}
        BY <2>1 DEF SelectedToSend
      <4>2. txsSent[q][u] + one(u \in toSend[q]) <= one(u \in m_transactionsSent) + one(wasReset)
        BY DEF CountedAsSent
      <4>3. one(u \in toSend[q]) = 0 /\ txsSent[q][u] \in Nat
        BY <4>1 DEF one, GossipTypes
      <4> QED BY <4>2, <4>3
    <3>2. one(u \in m_transactionsSent) + one(u \in toSend'[q]) <= one(u \in m_transactionsSent')
      BY <2>1 DEF one
    <3>3. /\ txsSent[q][u] \in Nat /\ one(u \in toSend'[q]) \in Nat /\ one(wasReset) \in Nat
          /\ one(u \in m_transactionsSent) \in Nat /\ one(u \in m_transactionsSent') \in Nat
      BY DEF GossipTypes, one
    <3>4. \A sent, sending, before, after, more \in Nat :
            sent <= before + more /\ before + sending <= after => sent + sending <= after + more
      OBVIOUS
    <3> QED BY <3>1, <3>2, <3>3, <3>4, Zenon
  <2> QED BY <2>2, <2>3, <2>4
<1>13. CASE TestTransactions \/ AnswerTransactions \/ AskTop
  <2>1. /\ UNCHANGED <<historyVars, head, pendingTxs, sentVars, wasReset, current, toSend, peersVars>>
        /\ workStep # "sendTransactions" /\ ts' \in {ts, queueTop}
    BY <1>13 DEF TestTransactions, AnswerTransactions, AskTop, chainVars, queueOfTxs, syncVars
  <2>2. GossipTypes'
    BY <2>1 DEF GossipTypes, queueTop, sentVars, historyVars, peersVars
  <2>3. SelectedToSend' /\ CountedAsSent' /\ ToldUpToLatest'
    BY <2>1 DEF SelectedToSend, CountedAsSent, ToldUpToLatest, told, sentVars, historyVars
  <2> QED BY <2>2, <2>3
<1>10. CASE SendTransactions
  <2>1. /\ txsSent' = [p \in Peers |-> [t \in Txs |->
                     txsSent[p][t] + (IF p \in sessions /\ t \in toSend[p] THEN 1 ELSE 0)]]
        /\ toSend' = [p \in Peers |-> {}]
        /\ UNCHANGED <<historyVars, head, pendingTxs, m_latestBlockSent, m_transactionsSent, blocksSent, wasReset,
                       current, ts, sessions, m_knownBlocks>>
    BY <1>10 DEF SendTransactions, chainVars, queueOfTxs, syncVars
  <2>2. ASSUME NEW q \in Peers, NEW u \in Txs
        PROVE  /\ txsSent'[q][u] \in Nat
               /\ txsSent'[q][u] <= txsSent[q][u] + one(u \in toSend[q])
    <3>1. txsSent[q][u] \in Nat /\ txsSent'[q][u] = txsSent[q][u] + (IF q \in sessions /\ u \in toSend[q] THEN 1 ELSE 0)
      BY <2>1 DEF GossipTypes
    <3> QED BY <3>1 DEF one
  <2>3. GossipTypes'
    <3>1. txsSent' \in [Peers -> [Txs -> Nat]]
      BY <2>1, <2>2
    <3>2. toSend' \in [Peers -> SUBSET Txs]
      BY <2>1
    <3> QED BY <2>1, <3>1, <3>2 DEF GossipTypes, historyVars
  <2>4. SelectedToSend' /\ ToldUpToLatest'
    BY <2>1 DEF SelectedToSend, ToldUpToLatest, told, historyVars
  <2>5. CountedAsSent'
    <3> SUFFICES ASSUME NEW q \in Peers, NEW u \in Txs
                 PROVE  txsSent'[q][u] + 0 <= one(u \in m_transactionsSent) + one(wasReset)
      BY <2>1 DEF CountedAsSent, one
    <3>1. txsSent[q][u] + one(u \in toSend[q]) <= one(u \in m_transactionsSent) + one(wasReset)
      BY DEF CountedAsSent
    <3>2. /\ txsSent[q][u] \in Nat /\ one(u \in toSend[q]) \in Nat /\ one(wasReset) \in Nat
          /\ one(u \in m_transactionsSent) \in Nat
      BY DEF GossipTypes, one
    <3> QED BY <2>2, <3>1, <3>2
  <2> QED BY <2>3, <2>4, <2>5
<1>11. CASE MaintainBlocks
  <2>1. /\ workStep' = "begin" /\ workStep = "blocks" /\ current' = 0
        /\ UNCHANGED <<head, pendingTxs, m_transactionsSent, txsSent, wasReset, ts, toSend, sessions>>
    BY <1>11 DEF MaintainBlocks, chainVars, queueOfTxs, syncVars
  <2>2. 0 \in 0..head
    BY DEF GossipTypes
  <2>3. SelectedToSend' /\ CountedAsSent'
    BY <2>1 DEF SelectedToSend, CountedAsSent
  <2>4. CASE ~(m_newBlocks /\ m_latestBlockSent < current)
    <3>1. UNCHANGED <<blocksSent, skipped, m_knownBlocks, m_latestBlockSent>>
      BY <1>11, <2>4 DEF MaintainBlocks
    <3>2. GossipTypes'
      BY <2>1, <2>2, <3>1 DEF GossipTypes
    <3>3. ToldUpToLatest'
      BY <2>1, <3>1 DEF ToldUpToLatest, told
    <3> QED BY <2>3, <3>2, <3>3
  <2>5. CASE m_newBlocks /\ m_latestBlockSent < current
    <3>0. sendRoute /\ m_latestBlockSent' = current
      BY <1>11, <2>5 DEF MaintainBlocks
    <3>1. PICK ps \in SUBSET Peers : spread(ps, route)
      <4>1. ignorant \in SUBSET Peers
        BY DEF ignorant, GossipTypes
      <4> QED BY <3>0, <4>1 DEF sendRoute
    <3>2. /\ m_latestBlockSent \in 0..head /\ current \in 0..head /\ current # NoBlock /\ head \in 0..MaxBlock
          /\ m_latestBlockSent < current /\ m_latestBlockSent # NoBlock /\ MaxBlock \in Nat
      BY <2>5, BlockAssumption DEF GossipTypes, NoBlock
    <3>3. route \subseteq 1..MaxBlock /\ 1..m_latestBlockSent \cup route = 1..current
      BY <3>2 DEF route
    <3>4. /\ blocksSent' = [p \in Peers |-> IF p \in ps THEN blocksSent[p] \cup route ELSE blocksSent[p]]
          /\ skipped' = [p \in Peers |-> IF p \in ps THEN skipped[p] ELSE skipped[p] \cup route]
          /\ m_knownBlocks' = [p \in Peers |-> IF p \in ps THEN {} ELSE m_knownBlocks[p]]
      BY <3>1 DEF spread
    <3>5. GossipTypes'
      <4>1. /\ blocksSent' \in [Peers -> SUBSET (1..MaxBlock)]
            /\ skipped' \in [Peers -> SUBSET (1..MaxBlock)]
            /\ m_knownBlocks' \in [Peers -> SUBSET (0..MaxBlock)]
        BY <3>3, <3>4 DEF GossipTypes
      <4> QED BY <2>1, <2>2, <3>0, <3>2, <4>1 DEF GossipTypes
    <3>6. ToldUpToLatest'
      <4> SUFFICES ASSUME NEW p \in Peers
                   PROVE  told(p)' = 1..current
        BY <3>0, <3>2 DEF ToldUpToLatest
      <4>1. told(p) = 1..m_latestBlockSent
        BY <3>2 DEF ToldUpToLatest
      <4>2. told(p)' = told(p) \cup route
        BY <3>4 DEF told
      <4> QED BY <3>3, <4>1, <4>2
    <3> QED BY <2>3, <3>5, <3>6
  <2> QED BY <2>4, <2>5
<1>12. CASE UNCHANGED gossipVars
  <2>1. UNCHANGED <<head, skipped, sentVars, workVars, peersVars, pendingTxs, wasReset>>
    BY <1>12 DEF gossipVars, historyVars, chainVars, queueOfTxs, syncVars
  <2>2. GossipTypes'
    BY <2>1 DEF GossipTypes, sentVars, workVars, peersVars
  <2>3. SelectedToSend' /\ CountedAsSent' /\ ToldUpToLatest'
    BY <2>1 DEF SelectedToSend, CountedAsSent, ToldUpToLatest, told, sentVars, workVars
  <2> QED BY <2>2, <2>3
<1> QED
  BY <1>1, <1>2, <1>3, <1>4, <1>5, <1>6, <1>7, <1>8, <1>9, <1>10, <1>11, <1>12, <1>13
  DEF GossipNext, DoWork, ClientNotes

\* What the rounds of doWork send, whatever is imported, known or reset
\* between them: a transaction once, or once more after a reset, and blocks
\* without a gap, for any peers, transactions and blocks.
THEOREM GossipIsSound == GossipSpec => [](SentOnce /\ NoGaps)
<1>1. GossipInv => SentOnce /\ NoGaps
  <2> SUFFICES ASSUME GossipInv
               PROVE  SentOnce /\ NoGaps
    OBVIOUS
  <2>1. ASSUME NEW p \in Peers, NEW t \in Txs
        PROVE  txsSent[p][t] <= IF wasReset THEN 2 ELSE 1
    <3>1. txsSent[p][t] + one(t \in toSend[p]) <= one(t \in m_transactionsSent) + one(wasReset)
      BY DEF GossipInv, CountedAsSent
    <3>2. /\ txsSent[p][t] \in Nat /\ one(t \in toSend[p]) \in Nat /\ one(t \in m_transactionsSent) \in 0..1
          /\ one(wasReset) = IF wasReset THEN 1 ELSE 0
      BY DEF GossipInv, GossipTypes, one
    <3>3. CASE wasReset
      BY <3>1, <3>2, <3>3
    <3>4. CASE ~wasReset
      BY <3>1, <3>2, <3>4
    <3> QED BY <3>3, <3>4
  <2>2. ASSUME NEW p \in sessions
        PROVE  \E n \in 0..MaxBlock : blocksSent[p] \cup skipped[p] = 1..n
    <3>1. p \in Peers /\ head \in 0..MaxBlock /\ MaxBlock \in Nat
      BY BlockAssumption DEF GossipInv, GossipTypes
    <3>2. \E n \in 0..head : told(p) = 1..n
      <4>1. CASE m_latestBlockSent = NoBlock
        BY <3>1, <4>1 DEF GossipInv, ToldUpToLatest
      <4>2. CASE m_latestBlockSent # NoBlock
        BY <3>1, <4>2 DEF GossipInv, GossipTypes, ToldUpToLatest
      <4> QED BY <4>1, <4>2
    <3> QED BY <3>1, <3>2 DEF told
  <2> QED BY <2>1, <2>2 DEF SentOnce, NoGaps
<1>2. GossipSpec => []GossipInv
  BY GossipInitial, GossipStep, PTL DEF GossipSpec
<1> QED BY <1>1, <1>2, PTL

-----------------------------------------------------------------------------
(* The DAG files.                                                          *)

DAGFiles == [size : {0} \union {fileSize[r] : r \in Revisions}, magic : BOOLEAN, filled : BOOLEAN]

\* No file yet.
LEMMA DAGInitial == DAGInit => DAGInv
<1> SUFFICES ASSUME DAGInit
             PROVE  DAGInv
  OBVIOUS
<1>1. files = [p \in {} |-> 0] /\ DOMAIN files = {} /\ openFile.rc = "none" /\ revision \in Revisions
  BY DEF DAGInit, notPrepared
<1>2. files \in [DOMAIN files -> DAGFiles]
  BY <1>1
<1> QED BY <1>1, <1>2 DEF DAGInv, DAGTypes, DAGFiles, MagicIsLast, OpenIsOurs

\* ethash_io_prepare opens what is there, or makes a file without a magic number.
LEMMA PrepareKeeps ==
  ASSUME DAGInv, NEW force \in BOOLEAN, PrepareFile(force)
  PROVE  DAGInv'
<1> DEFINE path == createFilename
           there == path \in DOMAIN files /\ ~force
           empty(size) == [size |-> size, magic |-> FALSE, filled |-> FALSE]
           With(f) == [p \in DOMAIN files \union {path} |-> IF p = path THEN f ELSE files[p]]
           returned(rc) == [rc |-> rc, path |-> path, forced |-> force]
<1>0. /\ UNCHANGED <<revision, seed, home>> /\ path[2][1] = revision
      /\ createFilename' = createFilename /\ revision \in Revisions
  BY DEF PrepareFile, createFilename, mutableName, defaultDirname, DAGInv, DAGTypes
<1>1. \/ there /\ memoMatches(files[path]) /\ openFile' = returned("MEMO_MATCH") /\ UNCHANGED files
      \/ there /\ openFile' = returned("MEMO_SIZE_MISMATCH") /\ UNCHANGED files
      \/ openFile' = returned("MEMO_MISMATCH") /\ files' = With(empty(fileSize[revision]))
      \/ openFile' = notPrepared /\ files' = With(empty(0))
      \/ openFile' = notPrepared /\ UNCHANGED files
  BY DEF PrepareFile
<1>2. CASE /\ UNCHANGED files
           /\ \/ there /\ memoMatches(files[path]) /\ openFile' = returned("MEMO_MATCH")
              \/ openFile' = returned("MEMO_SIZE_MISMATCH")
              \/ openFile' = notPrepared
  <2>1. /\ openFile'.rc \in {"none", "MEMO_MATCH", "MEMO_SIZE_MISMATCH"}
        /\ openFile'.rc = "MEMO_MATCH" => there /\ memoMatches(files[path]) /\ openFile'.path = path
    BY <1>2 DEF notPrepared
  <2>2. DAGTypes' /\ MagicIsLast'
    BY <1>0, <1>2, <2>1 DEF DAGInv, DAGTypes, MagicIsLast
  <2>3. OpenIsOurs'
    BY <1>0, <1>2, <2>1 DEF OpenIsOurs, memoMatches, hasMagic
  <2> QED BY <2>2, <2>3 DEF DAGInv
<1>3. ASSUME NEW size \in {0, fileSize[revision]}, files' = With(empty(size)),
             \/ openFile' = notPrepared
             \/ openFile' = returned("MEMO_MISMATCH") /\ size = fileSize[revision]
      PROVE  DAGInv'
  <2>1. DOMAIN files' = DOMAIN files \union {path} /\ files'[path] = empty(size)
        /\ \A p \in DOMAIN files' : p # path => files'[p] = files[p] /\ p \in DOMAIN files
    BY <1>3
  <2>2. empty(size) \in DAGFiles /\ \A p \in DOMAIN files : files[p] \in DAGFiles
    BY <1>0, <1>3 DEF DAGFiles, DAGInv, DAGTypes
  <2>3. files' \in [DOMAIN files' -> DAGFiles]
    <3> HIDE DEF DAGFiles, empty, path
    <3> QED BY <1>3, <2>1, <2>2
  <2>4. openFile'.rc \in {"none", "MEMO_MISMATCH"}
    BY <1>3 DEF notPrepared
  <2>5. DAGTypes'
    BY <1>0, <2>3, <2>4 DEF DAGTypes, DAGFiles
  <2>6. MagicIsLast'
    BY <2>1 DEF DAGInv, MagicIsLast
  <2>7. OpenIsOurs'
    BY <1>0, <1>3, <2>1 DEF OpenIsOurs, notPrepared
  <2> QED BY <2>5, <2>6, <2>7 DEF DAGInv
<1>4. CASE openFile' = returned("MEMO_MISMATCH") /\ files' = With(empty(fileSize[revision]))
  BY <1>3, <1>4
<1>5. CASE openFile' = notPrepared /\ files' = With(empty(0))
  BY <1>3, <1>5
<1> QED BY <1>1, <1>2, <1>4, <1>5

\* Every step of every process, kills included.
LEMMA DAGStep == DAGInv /\ [DAGNext]_dagVars => DAGInv'
<1> SUFFICES ASSUME DAGInv, [DAGNext]_dagVars
             PROVE  DAGInv'
  OBVIOUS
<1> DEFINE path == openFile.path
<1>0. files \in [DOMAIN files -> DAGFiles]
  BY DEF DAGInv, DAGTypes, DAGFiles
<1>1. CASE \E force \in BOOLEAN : PrepareFile(force)
  BY <1>1, PrepareKeeps
<1>2. CASE Fill \/ WriteMagic
  <2>1. /\ openFile.rc = "MEMO_MISMATCH" /\ UNCHANGED <<revision, seed, home, openFile>>
        /\ \/ files' = [files EXCEPT ![path].filled = TRUE]
           \/ files[path].filled /\ files' = [files EXCEPT ![path].magic = TRUE]
    BY <1>2 DEF Fill, WriteMagic
  <2>2. /\ path \in DOMAIN files /\ path = createFilename /\ path[2][1] = revision
        /\ files[path].size = fileSize[revision] /\ files[path] \in DAGFiles
    BY <1>0, <2>1 DEF DAGInv, OpenIsOurs, createFilename, mutableName
  <2>3. /\ DOMAIN files' = DOMAIN files
        /\ \A p \in DOMAIN files : p # path => files'[p] = files[p]
    BY <1>0, <2>1
  <2>4. /\ files'[path] \in DAGFiles /\ files'[path].size = files[path].size
        /\ files'[path].magic => files'[path].filled
    <3>1. \/ files'[path] = [files[path] EXCEPT !.filled = TRUE]
          \/ files[path].filled /\ files'[path] = [files[path] EXCEPT !.magic = TRUE]
      BY <1>0, <2>1, <2>2
    <3> QED BY <2>2, <3>1 DEF DAGFiles
  <2>5. files' \in [DOMAIN files' -> DAGFiles]
    <3>1. \A p \in DOMAIN files' : files'[p] \in DAGFiles
      <4> HIDE DEF DAGFiles
      <4> QED BY <1>0, <2>3, <2>4
    <3>2. files' = [p \in DOMAIN files' |-> files'[p]]
      BY <1>0, <2>1
    <3> HIDE DEF DAGFiles
    <3> QED BY <3>1, <3>2
  <2>6. DAGTypes'
    BY <2>1, <2>5 DEF DAGInv, DAGTypes, DAGFiles
  <2>7. MagicIsLast'
    <3> SUFFICES ASSUME NEW p \in DOMAIN files', files'[p].magic
                 PROVE  files'[p].filled /\ files'[p].size = fileSize[p[2][1]]
      BY DEF MagicIsLast
    <3>1. CASE p = path
      BY <2>2, <2>4, <3>1
    <3>2. CASE p # path
      BY <2>3, <3>2 DEF DAGInv, MagicIsLast
    <3> QED BY <3>1, <3>2
  <2>8. OpenIsOurs'
    <3>1. createFilename' = createFilename
      BY <2>1 DEF createFilename, mutableName, defaultDirname
    <3> QED BY <2>1, <2>2, <2>3, <2>4, <3>1 DEF OpenIsOurs
  <2> QED BY <2>6, <2>7, <2>8 DEF DAGInv
<1>3. CASE CloseFile \/ Killed
  <2>1. openFile'.rc = "none" /\ UNCHANGED files /\ revision' \in Revisions
    BY <1>3 DEF CloseFile, Killed, notPrepared, DAGInv, DAGTypes
  <2> QED BY <2>1 DEF DAGInv, DAGTypes, MagicIsLast, OpenIsOurs
<1>4. CASE NextEpoch
  <2>1. openFile'.rc = "none" /\ UNCHANGED <<files, revision>>
    BY <1>4 DEF NextEpoch, notPrepared
  <2> QED BY <2>1 DEF DAGInv, DAGTypes, MagicIsLast, OpenIsOurs
<1>5. CASE UNCHANGED dagVars
  BY <1>5 DEF dagVars, DAGInv, DAGTypes, MagicIsLast, OpenIsOurs, createFilename, mutableName, defaultDirname
<1> QED BY <1>1, <1>2, <1>3, <1>4, <1>5 DEF DAGNext

\* A DAG file that ethash_io_prepare reports as a match was filled to the
\* end, for this epoch by this revision, whenever the process that made it
\* was killed, for any revisions, seeds and sizes.
THEOREM MatchesAreComplete == DAGSpec => []MatchIsComplete
<1>1. DAGInv => MatchIsComplete
  BY DEF DAGInv, MagicIsLast, OpenIsOurs, MatchIsComplete, createFilename, mutableName
<1>2. DAGSpec => []DAGInv
  BY DAGInitial, DAGStep, PTL DEF DAGSpec
<1> QED BY <1>1, <1>2, PTL

-----------------------------------------------------------------------------
(* ClientBase::estimateGas and ClientBase::logs.                           *)

\* No question was asked yet.
LEMMA QueryInitial == QueryInit => QueryInv
BY DEF QueryInit, QueryInv, EstimateInv, LogsInv

\* Half way between two bounds.
LEMMA Halfway ==
  ASSUME NEW l \in Nat, NEW u \in Nat, l < u
  PROVE  (l + u) \div 2 \in l .. u - 1 /\ (l + u) \div 2 \in Nat
<1>1. 2 * ((l + u) \div 2) <= l + u /\ l + u <= 2 * ((l + u) \div 2) + 1 /\ (l + u) \div 2 \in Int
  OBVIOUS
<1> DEFINE m == (l + u) \div 2
<1> HIDE DEF m
<1>2. 2 * m <= l + u /\ l + u <= 2 * m + 1 /\ m \in Int
  BY <1>1 DEF m
<1>3. m \in l .. u - 1 /\ m \in Nat
  BY <1>2
<1> QED BY <1>3 DEF m

\* A question is asked, or the gas of one is tried once more.
LEMMA QueryStep == QueryInv /\ [QueryNext]_queryVars => QueryInv'
<1> SUFFICES ASSUME QueryInv, [QueryNext]_queryVars
             PROVE  QueryInv'
  OBVIOUS
<1>1. ASSUME NEW maxGas \in {Invalid256} \cup (baseGas .. c_maxGasEstimate + 1), NEW amounts, StartEstimate(maxGas, amounts)
      PROVE  QueryInv'
  <2>1. /\ question' = "gas" /\ lowerBound' = baseGas /\ good' = FALSE /\ tried' = {}
        /\ upperBound' = IF maxGas = Invalid256 \/ maxGas > c_maxGasEstimate THEN c_maxGasEstimate ELSE maxGas
    BY <1>1 DEF StartEstimate
  <2>2. baseGas \in Nat /\ c_maxGasEstimate \in Nat /\ baseGas <= c_maxGasEstimate
    BY QueryAssumption
  <2>3. upperBound' \in Nat /\ baseGas <= upperBound'
    BY <1>1, <2>1, <2>2
  <2>4. EstimateInv'
    BY <2>1, <2>2, <2>3 DEF EstimateInv
  <2> QED BY <2>1, <2>4 DEF QueryInv, LogsInv
<1>2. ASSUME NEW f \in Filters, NEW h \in LogHeights, NEW blocks \in [1 .. h + 2 -> LogBlocks],
             NEW first \in 0 .. h + 1, NEW last \in 0 .. h + 1, NEW reverted \in LogBlocks,
             AskLogs(f, blocks, first, last, reverted)
      PROVE  QueryInv'
  <2>1. h \in Nat
    BY QueryAssumption
  <2>2. Len(blocks) = h + 2
    BY <2>1
  <2>3. question' = "logs" /\ filter' = f /\ blockLogs' = blocks /\ from' = first /\ to' = last
    BY <1>2 DEF AskLogs
  <2>4. number' = h
    BY <2>1, <2>2, <2>3 DEF number
  <2> QED BY <2>1, <2>3, <2>4 DEF QueryInv, EstimateInv, LogsInv
<1>3. CASE Bisect
  <2>1. /\ question = "gas" /\ question' = "gas" /\ upperBound # lowerBound /\ enough' = enough
        /\ tried' = tried \cup {mid}
    BY <1>3 DEF Bisect
  <2>2. /\ lowerBound \in Nat /\ upperBound \in Nat /\ lowerBound <= upperBound
        /\ good \in BOOLEAN /\ tried \subseteq Nat
        /\ IF good THEN upperBound \in tried \cap enough ELSE tried \cap enough = {}
        /\ \A g \in tried \cap enough : upperBound <= g
    BY <2>1 DEF QueryInv, EstimateInv
  <2>3. mid \in lowerBound .. upperBound - 1 /\ mid \in Nat
    BY <2>1, <2>2, Halfway DEF mid
  <2> HIDE DEF mid
  <2>4. CASE mid \in enough
    <3>1. good' = TRUE /\ upperBound' = mid /\ lowerBound' = lowerBound
      BY <1>3, <2>2, <2>3, <2>4 DEF Bisect, upperAfter
    <3>2. mid \in tried' \cap enough /\ tried' \subseteq Nat /\ lowerBound' <= upperBound'
      BY <2>1, <2>2, <2>3, <2>4, <3>1
    <3>3. \A g \in tried' \cap enough : upperBound' <= g
      BY <2>1, <2>2, <2>3, <3>1
    <3> QED BY <2>1, <2>2, <2>3, <3>1, <3>2, <3>3 DEF QueryInv, EstimateInv, LogsInv
  <2>5. CASE mid \notin enough
    <3>1. good' = good /\ upperBound' = upperBound
          /\ lowerBound' = IF lowerBound = mid THEN upperBound ELSE mid
      BY <1>3, <2>5 DEF Bisect
    <3>2. tried' \cap enough = tried \cap enough /\ tried' \subseteq Nat
      BY <2>1, <2>2, <2>3, <2>5
    <3>3. lowerBound' \in Nat /\ lowerBound' <= upperBound'
      BY <2>2, <2>3, <3>1
    <3> QED BY <2>1, <2>2, <3>1, <3>2, <3>3 DEF QueryInv, EstimateInv, LogsInv
  <2> QED BY <2>4, <2>5
<1>4. CASE UNCHANGED queryVars
  BY <1>4 DEF queryVars, QueryInv, EstimateInv, LogsInv, number
<1> QED BY <1>1, <1>2, <1>3, <1>4 DEF QueryNext, Ask

\* The least of two and of three numbers.
LEMMA LeastOf ==
  ASSUME NEW a \in Int, NEW b \in Int, NEW c \in Int
  PROVE  /\ Min({a, b}) = IF a <= b THEN a ELSE b
         /\ Min({a, b, c}) \in Int /\ Min({a, b, c}) <= a /\ Min({a, b, c}) <= b /\ Min({a, b, c}) <= c
<1>1. Min({a, b}) = IF a <= b THEN a ELSE b
  BY DEF Min
<1>2. \E x \in {a, b, c} : \A y \in {a, b, c} : x <= y
  <2>1. CASE a <= b /\ a <= c
    BY <2>1
  <2>2. CASE b <= a /\ b <= c
    BY <2>2
  <2>3. CASE c <= a /\ c <= b
    BY <2>3
  <2> QED BY <2>1, <2>2, <2>3
<1>3. Min({a, b, c}) \in {a, b, c} /\ \A y \in {a, b, c} : Min({a, b, c}) <= y
  BY <1>2 DEF Min
<1> QED BY <1>1, <1>3

\* LogFilter::matches keeps every entry that was asked for.
LEMMA AskedMatch ==
  ASSUME NEW es, NEW e \in es, e \in asked
  PROVE  e \in matches(filter, es)
<1>1. /\ filter.m_addresses = {} \/ e.address \in filter.m_addresses
      /\ \A i \in DOMAIN filter.m_topics :
            filter.m_topics[i] = {} \/ (i \in DOMAIN e.topics /\ e.topics[i] \in filter.m_topics[i])
  BY DEF asked
<1>2. bloom(e) \subseteq blockBloom(es)
  BY DEF blockBloom
<1>3. e.address \in bloom(e) /\ \A i \in DOMAIN e.topics : e.topics[i] \in bloom(e)
  BY DEF bloom, ToSet
<1>4. matchesBloom(filter, blockBloom(es)) /\ matchesEntry(filter, e)
  BY <1>1, <1>2, <1>3 DEF matchesBloom, matchesEntry
<1> QED BY <1>4 DEF matches

\* A filter with one alternative for each topic at the most has a bloom that is
\* in the bloom of every entry it asks for.
LEMMA PossibilityOf ==
  ASSUME LogsInv, question = "logs", \A t \in topicSets(filter) : Cardinality(t) = 1,
         ~isRangeFilter(filter), NEW e \in asked
  PROVE  \E b \in bloomPossibilities(filter) : b \subseteq bloom(e)
<1> DEFINE both == {{a} \cup t : a \in filter.m_addresses, t \in topicSets(filter)}
<1>1. /\ filter.m_addresses = {} \/ e.address \in filter.m_addresses
      /\ \A i \in DOMAIN filter.m_topics :
            filter.m_topics[i] = {} \/ (i \in DOMAIN e.topics /\ e.topics[i] \in filter.m_topics[i])
  BY DEF asked
<1>2. e.address \in bloom(e) /\ \A i \in DOMAIN e.topics : e.topics[i] \in bloom(e)
  BY DEF bloom, ToSet
<1>3. bloomPossibilities(filter) = (IF both = {} THEN {{a} : a \in filter.m_addresses} ELSE both)
                                      \cup (IF filter.m_addresses = {} THEN topicSets(filter) ELSE {})
  BY DEF bloomPossibilities
<1>4. CASE topicSets(filter) = {}
  <2>1. filter.m_addresses # {}
    BY <1>4 DEF isRangeFilter, topicSets
  <2>2. both = {}
    BY <1>4
  <2>3. {e.address} \in bloomPossibilities(filter)
    BY <1>1, <1>3, <2>1, <2>2
  <2> QED BY <1>2, <2>3
<1>5. CASE topicSets(filter) # {}
  <2>1. PICK i \in DOMAIN filter.m_topics : filter.m_topics[i] \in topicSets(filter) /\ filter.m_topics[i] # {}
    BY <1>5 DEF topicSets
  <2> DEFINE t == filter.m_topics[i]
  <2>2. Cardinality(t) = 1 /\ IsFiniteSet(t)
    <3>1. filter \in Filters
      BY DEF LogsInv
    <3>2. IsFiniteSet(filter.m_topics[i])
      BY <2>1, <3>1, QueryAssumption
    <3>3. Cardinality(filter.m_topics[i]) = 1
      BY <2>1
    <3> QED BY <3>2, <3>3
  <2>3. i \in DOMAIN e.topics /\ e.topics[i] \in t
    BY <1>1, <2>1
  <2> HIDE DEF t
  <2>4. \E x : t = {x}
    BY <2>2, FS_Singleton
  <2>5. t \subseteq bloom(e)
    BY <1>2, <2>3, <2>4
  <2>6. CASE filter.m_addresses = {}
    BY <1>3, <2>1, <2>5, <2>6 DEF t
  <2>7. CASE filter.m_addresses # {}
    <3>1. {e.address} \cup t \in both
      BY <1>1, <2>1, <2>7 DEF t
    <3> HIDE DEF both
    <3>2. {e.address} \cup t \in bloomPossibilities(filter)
      BY <1>3, <3>1
    <3>3. {e.address} \cup t \subseteq bloom(e)
      BY <1>2, <2>5
    <3> QED BY <3>2, <3>3
  <2> QED BY <2>6, <2>7
<1> QED BY <1>4, <1>5

\* The blocks that are looked at, from the last one backward, reach the first
\* one that was asked about, and the blooms leave out none with an entry asked for.
LEMMA BlocksAreLookedAt ==
  ASSUME LogsInv, question = "logs", \A t \in topicSets(filter) : Cardinality(t) = 1,
         NEW n \in from .. Min({to, number}), NEW e \in entriesOf(n), e \in asked
  PROVE  n \in matchingBlocks
<1>1. number \in Nat /\ from \in 0 .. number + 1 /\ to \in 0 .. number + 1
  BY DEF LogsInv
<1> HIDE DEF number
<1>2. begin = to
  <2>1. number + 1 \in Int /\ to \in Int
    BY <1>1
  <2>2. Min({number + 1, to}) = IF number + 1 <= to THEN number + 1 ELSE to
    BY <2>1, LeastOf
  <2> QED BY <1>1, <2>2 DEF begin
<1>3. lastBlock = Min({to, number}) /\ lastBlock \in Int
  BY <1>1, <1>2, LeastOf DEF lastBlock
<1>4. end \in Int /\ end <= from
  <2> DEFINE first == Min({number, begin, from})
  <2>1. first \in Int /\ first <= from
    BY <1>1, <1>2, LeastOf
  <2> HIDE DEF first
  <2>2. Min({first, 1}) = IF first <= 1 THEN first ELSE 1
    BY <2>1, LeastOf
  <2>3. end = IF dead = {} THEN first ELSE Min({first, 1})
    BY DEF end, first
  <2> QED BY <1>1, <2>1, <2>2, <2>3
<1>5. n \in end .. lastBlock
  BY <1>1, <1>3, <1>4
<1>6. CASE isRangeFilter(filter)
  BY <1>5, <1>6 DEF matchingBlocks
<1>7. CASE ~isRangeFilter(filter)
  <2>1. PICK b \in bloomPossibilities(filter) : b \subseteq bloom(e)
    BY <1>7, PossibilityOf
  <2>2. b \subseteq blockBloom(entriesOf(n))
    BY <2>1 DEF blockBloom
  <2>3. n \in withBlockBloom(b, end, lastBlock)
    BY <1>5, <2>2 DEF withBlockBloom
  <2> QED BY <1>7, <2>1, <2>3 DEF matchingBlocks
<1> QED BY <1>6, <1>7

(***************************************************************************)
(* Whatever amounts of gas suffice, ClientBase::estimateGas ends with the    *)
(* least that it tried and that suffices, if one does; and for a chain of    *)
(* any length, whatever entries its blocks and the pending one hold, the     *)
(* answer of ClientBase::logs contains every entry asked for, for filters    *)
(* with at most one alternative for each topic (with more it need not:       *)
(* FiltersFindAll).  The answer is a set: nothing is said of its order.      *)
(***************************************************************************)
THEOREM QuestionsAreAnswered == QuerySpec => []QuestionsAnswered
<1>1. QueryInv => EstimateIsTried
  <2> SUFFICES ASSUME QueryInv, question = "gas", lowerBound = upperBound
               PROVE  IF good THEN upperBound \in tried \cap enough /\ (\A g \in tried : g < upperBound => g \notin enough)
                      ELSE tried \cap enough = {}
    BY DEF EstimateIsTried
  <2>1. /\ upperBound \in Nat /\ tried \subseteq Nat /\ good \in BOOLEAN
        /\ IF good THEN upperBound \in tried \cap enough ELSE tried \cap enough = {}
        /\ \A g \in tried \cap enough : upperBound <= g
    BY DEF QueryInv, EstimateInv
  <2>2. \A g \in tried : g < upperBound => g \notin enough
    BY <2>1
  <2> QED BY <2>1, <2>2
<1>2. QueryInv => SingleTopicsFindAll
  <2> SUFFICES ASSUME LogsInv, question = "logs", \A t \in topicSets(filter) : Cardinality(t) = 1,
                      NEW n \in from .. Min({to, number}), NEW e \in entriesOf(n) \cap asked
               PROVE  <<n, e>> \in logs
    <3>1. allFound <=> \A n \in from .. Min({to, number}) : \A e \in entriesOf(n) \cap asked : <<n, e>> \in logs
      BY DEF allFound
    <3> QED BY <3>1 DEF QueryInv, SingleTopicsFindAll
  <2>1. n \in matchingBlocks
    BY BlocksAreLookedAt
  <2>2. e \in matches(filter, entriesOf(n))
    BY AskedMatch
  <2> QED BY <2>1, <2>2 DEF logs
<1>3. QueryInv => QuestionsAnswered
  BY <1>1, <1>2 DEF QuestionsAnswered
<1> QED BY <1>3, QueryInitial, QueryStep, PTL DEF QuerySpec

-----------------------------------------------------------------------------
(* The watches of dev::eth::ClientBase.                                    *)

\* Induction, as a fact about a set of numbers.
LEMMA EveryNumber ==
  ASSUME NEW S, 0 \in S, \A n \in Nat : n \in S => n + 1 \in S
  PROVE  Nat \subseteq S
<1> SUFFICES ASSUME Nat \ S # {}
             PROVE  FALSE
  OBVIOUS
<1>1. PICK n \in Nat \ S : \A m \in Nat \ S : ~(<<m, n>> \in OpToRel(<, Nat))
  BY NatLessThanWellFounded, WFMin
<1>2. n - 1 \in Nat
  OBVIOUS
<1>3. <<n - 1, n>> \in OpToRel(<, Nat)
  BY <1>2 DEF OpToRel
<1>4. n - 1 \in S
  BY <1>1, <1>2, <1>3
<1> QED BY <1>2, <1>4

\* A finite set of numbers has a largest one.
LEMMA Largest ==
  ASSUME NEW U \in SUBSET Nat, IsFiniteSet(U), U # {}
  PROVE  \E x \in U : \A y \in U : x >= y
<1> DEFINE HasLargest(T) == \E x \in T : \A y \in T : x >= y
           Sizes0 == {n \in Nat : \A T \in SUBSET Nat : IsFiniteSet(T) /\ Cardinality(T) = n /\ T # {} => HasLargest(T)}
<1>1. 0 \in Sizes0
  BY FS_EmptySet
<1>2. ASSUME NEW n \in Nat, n \in Sizes0
      PROVE  n + 1 \in Sizes0
  <2> SUFFICES ASSUME NEW T \in SUBSET Nat, IsFiniteSet(T), Cardinality(T) = n + 1, T # {}
               PROVE  HasLargest(T)
    OBVIOUS
  <2>1. PICK x \in T : TRUE
    OBVIOUS
  <2> DEFINE R == T \ {x}
  <2>2. IsFiniteSet(R) /\ Cardinality(R) = n
    <3>1. IsFiniteSet(R) /\ Cardinality(R) = Cardinality(T) - 1
      BY <2>1, FS_RemoveElement
    <3> QED BY <3>1
  <2>3. R \in SUBSET Nat
    OBVIOUS
  <2>4. R # {} => HasLargest(R)
    BY <1>2, <2>2, <2>3
  <2>5. CASE R = {}
    BY <2>1, <2>5
  <2>6. CASE R # {}
    <3>1. PICK m \in R : \A y \in R : m >= y
      BY <2>4, <2>6
    <3>2. CASE m >= x
      BY <3>1, <3>2
    <3>3. CASE x >= m
      BY <2>1, <3>1, <3>3
    <3> QED BY <2>1, <3>1, <3>2, <3>3
  <2> QED BY <2>5, <2>6
<1>3. Nat \subseteq Sizes0
  <2> HIDE DEF Sizes0
  <2> QED BY <1>1, <1>2, EveryNumber
<1>4. Cardinality(U) \in Nat
  BY FS_CardinalityType
<1> QED BY <1>3, <1>4

\* The number of a new watch is new.
LEMMA NumberIsNew ==
  ASSUME WatchTypes
  PROVE  nextWatch \in Nat /\ nextWatch \notin DOMAIN m_watches
<1>1. DOMAIN m_watches \subseteq Nat /\ IsFiniteSet(DOMAIN m_watches)
  BY DEF WatchTypes
<1>2. CASE DOMAIN m_watches = {}
  BY <1>2 DEF nextWatch
<1>3. CASE DOMAIN m_watches # {}
  <2> DEFINE D == DOMAIN m_watches
  <2>1. Max(D) = CHOOSE x \in D : \A y \in D : x >= y
    BY DEF Max
  <2>2. \E x \in D : \A y \in D : x >= y
    BY <1>1, <1>3, Largest
  <2>3. Max(D) \in D /\ \A y \in D : Max(D) >= y
    BY <2>1, <2>2
  <2>4. nextWatch = Max(D) + 1
    BY <1>3 DEF nextWatch
  <2>5. D \subseteq Nat
    BY <1>1
  <2> DEFINE m == Max(D)
  <2> HIDE DEF D, m
  <2>6. m \in D /\ (\A y \in D : m >= y) /\ nextWatch = m + 1
    BY <2>3, <2>4 DEF m, D
  <2>7. nextWatch \in Nat /\ nextWatch \notin D
    BY <2>5, <2>6
  <2> QED BY <2>7 DEF D
<1> QED BY <1>2, <1>3

\* Changes, and younger ones behind them.
LEMMA Joined ==
  ASSUME NEW s \in Seq(Nat), NEW t \in Seq(Nat), Increasing(s), Increasing(t),
         \A k \in ToSet(s), l \in ToSet(t) : k < l
  PROVE  /\ s \o t \in Seq(Nat) /\ Increasing(s \o t)
         /\ ToSet(s \o t) = ToSet(s) \cup ToSet(t)
<1>1. s \o t \in Seq(Nat) /\ Len(s \o t) = Len(s) + Len(t)
  BY ConcatProperties
<1>2. \A i \in 1..Len(s) + Len(t) : (s \o t)[i] = IF i <= Len(s) THEN s[i] ELSE t[i - Len(s)]
  BY ConcatProperties
<1>3. /\ Len(s) \in Nat /\ Len(t) \in Nat /\ DOMAIN s = 1..Len(s) /\ DOMAIN t = 1..Len(t)
      /\ DOMAIN (s \o t) = 1..Len(s) + Len(t)
  BY <1>1, LenProperties
<1> DEFINE a == Len(s)
           b == Len(t)
           u == s \o t
<1>4. \A i \in 1..a : s[i] \in Nat /\ s[i] \in ToSet(s)
  BY <1>3, ElementOfSeq DEF ToSet
<1>5. \A i \in 1..b : t[i] \in Nat /\ t[i] \in ToSet(t)
  BY <1>3, ElementOfSeq DEF ToSet
<1> HIDE DEF a, b, u
<1>6. /\ a \in Nat /\ b \in Nat /\ DOMAIN s = 1..a /\ DOMAIN t = 1..b /\ DOMAIN u = 1..a + b
      /\ \A i \in 1..a + b : u[i] = IF i <= a THEN s[i] ELSE t[i - a]
  BY <1>2, <1>3 DEF a, b, u
<1>7. Increasing(u)
  <2> SUFFICES ASSUME NEW i \in 1..a + b, NEW j \in 1..a + b, i < j
               PROVE  u[i] < u[j]
    BY <1>6 DEF Increasing
  <2>1. CASE j <= a
    <3>1. i \in 1..a /\ j \in 1..a /\ u[i] = s[i] /\ u[j] = s[j]
      BY <1>6, <2>1
    <3> QED BY <1>6, <3>1 DEF Increasing
  <2>2. CASE i <= a /\ j > a
    <3>1. i \in 1..a /\ j - a \in 1..b /\ u[i] = s[i] /\ u[j] = t[j - a]
      BY <1>6, <2>2
    <3> QED BY <1>4, <1>5, <3>1
  <2>3. CASE i > a
    <3>1. i - a \in 1..b /\ j - a \in 1..b /\ i - a < j - a /\ u[i] = t[i - a] /\ u[j] = t[j - a]
      BY <1>6, <2>3
    <3> QED BY <1>6, <3>1 DEF Increasing
  <2> QED BY <1>6, <2>1, <2>2, <2>3
<1>8. ToSet(u) = ToSet(s) \cup ToSet(t)
  <2>1. ASSUME NEW k \in ToSet(u)
        PROVE  k \in ToSet(s) \cup ToSet(t)
    <3>1. PICK i \in 1..a + b : k = u[i]
      BY <1>6 DEF ToSet
    <3>2. CASE i <= a
      BY <1>4, <1>6, <3>1, <3>2
    <3>3. CASE i > a
      <4>1. i - a \in 1..b /\ u[i] = t[i - a]
        BY <1>6, <3>3
      <4> QED BY <1>5, <3>1, <4>1
    <3> QED BY <1>6, <3>2, <3>3
  <2>2. ASSUME NEW k \in ToSet(s)
        PROVE  k \in ToSet(u)
    <3>1. PICK i \in 1..a : k = s[i]
      BY <1>6 DEF ToSet
    <3>2. i \in 1..a + b /\ u[i] = s[i]
      BY <1>6
    <3> QED BY <1>6, <3>1, <3>2 DEF ToSet
  <2>3. ASSUME NEW k \in ToSet(t)
        PROVE  k \in ToSet(u)
    <3>1. PICK i \in 1..b : k = t[i]
      BY <1>6 DEF ToSet
    <3>2. i + a \in 1..a + b /\ u[i + a] = t[i]
      BY <1>6
    <3> QED BY <1>6, <3>1, <3>2 DEF ToSet
  <2> QED BY <2>1, <2>2, <2>3
<1> QED BY <1>1, <1>7, <1>8 DEF u

\* Changes, and a younger one behind them.
LEMMA OneMore ==
  ASSUME NEW s \in Seq(Nat), NEW k \in Nat, Increasing(s), \A l \in ToSet(s) : l < k
  PROVE  /\ Append(s, k) \in Seq(Nat) /\ Increasing(Append(s, k))
         /\ ToSet(Append(s, k)) = ToSet(s) \cup {k}
<1>1. <<k>> \in Seq(Nat) /\ Increasing(<<k>>) /\ ToSet(<<k>>) = {k}
  BY DEF Increasing, ToSet
<1>2. Append(s, k) = s \o <<k>>
  BY AppendIsConcat
<1> DEFINE t == <<k>>
<1>3. t \in Seq(Nat) /\ Increasing(t) /\ ToSet(t) = {k}
  BY <1>1
<1> HIDE DEF t
<1>4. \A l \in ToSet(s), m \in ToSet(t) : l < m
  BY <1>3
<1>5. s \o t \in Seq(Nat) /\ Increasing(s \o t) /\ ToSet(s \o t) = ToSet(s) \cup ToSet(t)
  BY <1>3, <1>4, Joined
<1> QED BY <1>2, <1>3, <1>5 DEF t

\* Nothing at all.
LEMMA NoChanges == << >> \in Seq(Nat) /\ Increasing(<< >>) /\ ToSet(<< >>) = {}
BY DEF Increasing, ToSet

\* No watch was installed yet.
LEMMA WatchInitial == WatchInit => WatchInv
<1> SUFFICES ASSUME WatchInit
             PROVE  WatchInv
  OBVIOUS
<1>1. /\ m_filters = << >> /\ m_specialFilters = [s \in Special |-> << >>] /\ m_watches = << >>
      /\ handle = [c \in Callers |-> idle] /\ changes = 0
      /\ due = [c \in Callers |-> {}] /\ got = [c \in Callers |-> << >>]
  BY DEF WatchInit
<1>2. DOMAIN m_filters = {} /\ DOMAIN m_watches = {}
  BY <1>1
<1>3. WatchTypes
  <2>1. /\ m_filters \in [DOMAIN m_filters -> [refCount : Int, changes : Seq(Nat)]]
        /\ m_watches \in [DOMAIN m_watches -> [id : LogFilters \cup Special, changes : Seq(Nat), automatic : BOOLEAN,
                                               expired : BOOLEAN, by : Callers]]
    BY <1>1
  <2>2. IsFiniteSet(DOMAIN m_watches)
    BY <1>2, FS_EmptySet
  <2>3. idle \in [filter : LogFilters \cup Special \cup {"none"}, automatic : BOOLEAN, number : Int]
    BY DEF idle
  <2> QED BY <1>1, <1>2, <2>1, <2>2, <2>3, NoChanges DEF WatchTypes
<1>4. \A f : pending(f) = << >>
  BY <1>1, <1>2 DEF pending
<1>5. \A f : FilterSound(f)
  BY <1>4, NoChanges DEF FilterSound
<1>6. \A c \in Callers : WatchSound(c)
  BY <1>2 DEF WatchSound, own
<1> QED BY <1>3, <1>5, <1>6 DEF WatchInv

\* What a step may do to filters and watches when no change is appended or handed on.
LEMMA Quiet ==
  ASSUME WatchInv, WatchTypes', changes' = changes, io_changed' = io_changed,
         \A f : pending(f)' = pending(f) \/ pending(f)' = << >>,
         \A c \in Callers : own(c)' =>
            \/ WatchSound(c)'
            \/ /\ own(c) /\ handle'[c] = handle[c] /\ given(c)' = given(c)
               /\ m_watches'[handle[c].number].id = m_watches[handle[c].number].id
               /\ due'[c] = {} \/ (due'[c] = due[c] /\ \A f : handle[c].filter = f => pending(f)' = pending(f))
  PROVE  WatchInv'
<1>1. ASSUME NEW f \in (DOMAIN m_filters \cup Special)'
      PROVE  FilterSound(f)'
  <2>1. CASE pending(f)' = << >>
    BY <2>1, NoChanges DEF FilterSound
  <2>2. CASE pending(f)' = pending(f) /\ pending(f) # << >>
    <3>1. f \in DOMAIN m_filters \cup Special
      BY <2>2 DEF pending
    <3> QED BY <2>2, <3>1 DEF FilterSound, WatchInv
  <2> QED BY <2>1, <2>2
<1>2. ASSUME NEW c \in Callers, own(c)', ~WatchSound(c)'
      PROVE  WatchSound(c)'
  <2>1. /\ own(c) /\ handle'[c] = handle[c] /\ given(c)' = given(c)
        /\ m_watches'[handle[c].number].id = m_watches[handle[c].number].id
        /\ due'[c] = {} \/ (due'[c] = due[c] /\ \A f : handle[c].filter = f => pending(f)' = pending(f))
    BY <1>2
  <2> SUFFICES ASSUME NEW f \in LogFilters \cup Special, m_watches'[handle'[c].number].id = f
               PROVE  /\ handle'[c].filter = f
                      /\ Increasing(given(c)') /\ \A k \in ToSet(given(c)') : k <= changes'
                      /\ \A k \in ToSet(given(c)'), l \in ToSet(pending(f)') : k < l
                      /\ due'[c] \subseteq ToSet(given(c)') \cup ToSet(pending(f)')
    BY DEF WatchSound
  <2>2. m_watches[handle[c].number].id = f
    BY <2>1
  <2>3. /\ handle[c].filter = f
        /\ Increasing(given(c)) /\ \A k \in ToSet(given(c)) : k <= changes
        /\ \A k \in ToSet(given(c)), l \in ToSet(pending(f)) : k < l
        /\ due[c] \subseteq ToSet(given(c)) \cup ToSet(pending(f))
    BY <2>1, <2>2 DEF WatchInv, WatchSound
  <2>4. pending(f)' = pending(f) \/ pending(f)' = << >>
    OBVIOUS
  <2>5. \A k \in ToSet(given(c)), l \in ToSet(pending(f)') : k < l
    BY <2>3, <2>4, NoChanges
  <2>6. due'[c] \subseteq ToSet(given(c)) \cup ToSet(pending(f)')
    BY <2>1, <2>3
  <2> QED BY <2>1, <2>3, <2>5, <2>6
<1>3. \A c \in Callers : ~own(c)' => WatchSound(c)'
  BY DEF WatchSound
<1> QED BY <1>1, <1>2, <1>3 DEF WatchInv

\* ClientBase::uninstallWatch: a filter goes with what was due of it, or stays as it is.
LEMMA Uninstalled ==
  ASSUME WatchInv, NEW i \in DOMAIN m_watches, uninstalled(i), m_specialFilters' = m_specialFilters
  PROVE  /\ DOMAIN m_watches' = DOMAIN m_watches \ {i} /\ \A j \in DOMAIN m_watches \ {i} : m_watches'[j] = m_watches[j]
         /\ m_watches' \in [DOMAIN m_watches' -> [id : LogFilters \cup Special, changes : Seq(Nat), automatic : BOOLEAN,
                                                 expired : BOOLEAN, by : Callers]]
         /\ m_filters' \in [DOMAIN m_filters' -> [refCount : Int, changes : Seq(Nat)]]
         /\ DOMAIN m_filters' \subseteq DOMAIN m_filters
         /\ due' \in [Callers -> SUBSET Nat] /\ \A c \in Callers : due'[c] \in {due[c], {}}
         /\ \A f : \/ pending(f)' = pending(f)
                   \/ pending(f)' = << >> /\ \A c \in Callers : handle[c].filter = f => due'[c] = {}
<1>0. PICK id : id = m_watches[i].id
  OBVIOUS
<1> DEFINE last == id \in DOMAIN m_filters /\ m_filters[id].refCount = 1
<1>1. /\ m_watches' = [j \in DOMAIN m_watches \ {i} |-> m_watches[j]]
      /\ m_filters' = CASE last -> [f \in DOMAIN m_filters \ {id} |-> m_filters[f]]
                        [] id \in DOMAIN m_filters /\ ~last -> [m_filters EXCEPT ![id].refCount = @ - 1]
                        [] id \notin DOMAIN m_filters -> m_filters
      /\ due' = [c \in Callers |-> IF last /\ handle[c].filter = id THEN {} ELSE due[c]]
  BY <1>0 DEF uninstalled, Restrict
<1>2. WatchTypes
  BY DEF WatchInv
<1>3. DOMAIN m_watches' = DOMAIN m_watches \ {i} /\ \A j \in DOMAIN m_watches \ {i} : m_watches'[j] = m_watches[j]
  BY <1>1
<1>4. m_watches' \in [DOMAIN m_watches' -> [id : LogFilters \cup Special, changes : Seq(Nat), automatic : BOOLEAN,
                                           expired : BOOLEAN, by : Callers]]
  BY <1>1, <1>2 DEF WatchTypes
<1>5. due' \in [Callers -> SUBSET Nat] /\ \A c \in Callers : due'[c] \in {due[c], {}}
  BY <1>1, <1>2 DEF WatchTypes
<1>6. CASE last
  <2>1. m_filters' = [f \in DOMAIN m_filters \ {id} |-> m_filters[f]]
    BY <1>1, <1>6
  <2>2. m_filters' \in [DOMAIN m_filters' -> [refCount : Int, changes : Seq(Nat)]] /\ DOMAIN m_filters' \subseteq DOMAIN m_filters
    BY <1>2, <2>1 DEF WatchTypes
  <2>3. \A f : f # id => pending(f)' = pending(f)
    BY <2>1 DEF pending
  <2>4. pending(id)' = << >> /\ \A c \in Callers : handle[c].filter = id => due'[c] = {}
    BY <1>1, <1>2, <1>6, <2>1 DEF pending, WatchTypes
  <2>5. \A f : \/ pending(f)' = pending(f)
               \/ pending(f)' = << >> /\ \A c \in Callers : handle[c].filter = f => due'[c] = {}
    BY <2>3, <2>4
  <2> QED BY <1>3, <1>4, <1>5, <2>2, <2>5
<1>7. CASE id \in DOMAIN m_filters /\ ~last
  <2>1. m_filters' = [m_filters EXCEPT ![id].refCount = @ - 1]
    BY <1>1, <1>7
  <2>2. m_filters' \in [DOMAIN m_filters' -> [refCount : Int, changes : Seq(Nat)]] /\ DOMAIN m_filters' = DOMAIN m_filters
    <3> DEFINE R == [refCount : Int, changes : Seq(Nat)]
    <3>1. m_filters \in [DOMAIN m_filters -> R]
      BY <1>2 DEF WatchTypes
    <3>2. [m_filters[id] EXCEPT !.refCount = @ - 1] \in R
      <4>1. m_filters[id] \in R
        BY <1>7, <3>1
      <4> QED BY <4>1
    <3> HIDE DEF R
    <3>3. m_filters' \in [DOMAIN m_filters -> R]
      BY <2>1, <3>1, <3>2
    <3> QED BY <3>3 DEF R
  <2>3. ASSUME NEW f \in DOMAIN m_filters
        PROVE  m_filters'[f].changes = m_filters[f].changes
    <3>1. m_filters[f] \in [refCount : Int, changes : Seq(Nat)]
      BY <1>2 DEF WatchTypes
    <3>2. m_filters'[f] = IF f = id THEN [m_filters[f] EXCEPT !.refCount = @ - 1] ELSE m_filters[f]
      BY <2>1
    <3> QED BY <3>1, <3>2
  <2>4. \A f : pending(f)' = pending(f)
    BY <2>2, <2>3 DEF pending
  <2> QED BY <1>3, <1>4, <1>5, <2>2, <2>4
<1>8. CASE id \notin DOMAIN m_filters
  <2>1. m_filters' = m_filters
    BY <1>1, <1>8
  <2>2. \A f : pending(f)' = pending(f)
    BY <2>1 DEF pending
  <2> QED BY <1>2, <1>3, <1>4, <1>5, <2>1, <2>2 DEF WatchTypes
<1> QED BY <1>6, <1>7, <1>8

\* A watch expires, or is kept alive.
LEMMA OnlyExpiry ==
  ASSUME WatchInv, NEW i \in DOMAIN m_watches, NEW b \in BOOLEAN,
         m_watches' = [m_watches EXCEPT ![i].expired = b],
         handle' = handle, m_filters' = m_filters, m_specialFilters' = m_specialFilters,
         io_changed' = io_changed, changes' = changes, due' = due, got' = got
  PROVE  WatchInv'
<1> DEFINE e == [m_watches[i] EXCEPT !.expired = b]
           W == [id : LogFilters \cup Special, changes : Seq(Nat), automatic : BOOLEAN, expired : BOOLEAN, by : Callers]
<1>1. WatchTypes /\ m_watches \in [DOMAIN m_watches -> W]
  BY DEF WatchInv, WatchTypes
<1>2. e \in W /\ e.id = m_watches[i].id /\ e.by = m_watches[i].by /\ e.changes = m_watches[i].changes
  <2>1. m_watches[i] \in W
    BY <1>1
  <2> QED BY <2>1
<1>3. m_watches' = [m_watches EXCEPT ![i] = e]
  OBVIOUS
<1> HIDE DEF e
<1>4. /\ DOMAIN m_watches' = DOMAIN m_watches /\ m_watches' \in [DOMAIN m_watches -> W]
      /\ \A j \in DOMAIN m_watches : m_watches'[j] = IF j = i THEN e ELSE m_watches[j]
  <2> HIDE DEF W
  <2> QED BY <1>1, <1>2, <1>3
<1>5. \A j \in DOMAIN m_watches : /\ m_watches'[j].id = m_watches[j].id /\ m_watches'[j].by = m_watches[j].by
                                  /\ m_watches'[j].changes = m_watches[j].changes
  BY <1>2, <1>4
<1>6. WatchTypes'
  BY <1>1, <1>4 DEF WatchTypes
<1>7. \A g : pending(g)' = pending(g)
  BY DEF pending
<1>8. ASSUME NEW d \in Callers, own(d)'
      PROVE  own(d) /\ given(d)' = given(d) /\ m_watches'[handle[d].number].id = m_watches[handle[d].number].id
  BY <1>4, <1>5, <1>8 DEF own, given
<1> QED BY <1>6, <1>7, <1>8, Quiet

\* The steps of a caller that has no watch afterward or the one it had, with what it was given.
LEMMA CallerKeeps ==
  ASSUME WatchInv, NEW c \in Callers,
         \/ \E f \in LogFilters \cup Special, automatic \in BOOLEAN : InstallFilter(c, f, automatic)
         \/ CheckWatch(c)
         \/ PeekWatch(c)
         \/ GiveUp(c)
  PROVE  WatchInv'
<1>1. WatchTypes
  BY DEF WatchInv
<1>2. ASSUME NEW f \in LogFilters \cup Special, NEW automatic \in BOOLEAN, InstallFilter(c, f, automatic)
      PROVE  WatchInv'
  <2>1. /\ handle[c] = idle /\ handle' = [handle EXCEPT ![c] = [filter |-> f, automatic |-> automatic, number |-> -1]]
        /\ m_filters' = IF f \in Special \cup DOMAIN m_filters THEN m_filters
                        ELSE [g \in DOMAIN m_filters \cup {f} |->
                                 IF g = f THEN [refCount |-> 1, changes |-> << >>] ELSE m_filters[g]]
        /\ m_specialFilters' = m_specialFilters /\ m_watches' = m_watches /\ io_changed' = io_changed
        /\ changes' = changes /\ due' = due /\ got' = got
    BY <1>2 DEF InstallFilter
  <2>2. /\ m_filters' \in [DOMAIN m_filters' -> [refCount : Int, changes : Seq(Nat)]]
        /\ DOMAIN m_filters' \cap Special = {}
    <3> DEFINE R == [refCount : Int, changes : Seq(Nat)]
    <3>1. m_filters \in [DOMAIN m_filters -> R] /\ DOMAIN m_filters \cap Special = {}
      BY <1>1 DEF WatchTypes
    <3>2. [refCount |-> 1, changes |-> << >>] \in R
      BY NoChanges
    <3> HIDE DEF R
    <3>3. m_filters' \in [DOMAIN m_filters' -> R] /\ DOMAIN m_filters' \cap Special = {}
      BY <2>1, <3>1, <3>2
    <3> QED BY <3>3 DEF R
  <2>3. handle' \in [Callers -> [filter : LogFilters \cup Special \cup {"none"}, automatic : BOOLEAN, number : Int]]
    BY <1>1, <2>1 DEF WatchTypes
  <2>4. WatchTypes'
    BY <1>1, <2>1, <2>2, <2>3 DEF WatchTypes
  <2>5. \A g : pending(g)' = pending(g)
    BY <2>1 DEF pending
  <2>6. ~own(c)'
    <3>1. handle'[c].number = -1
      BY <1>1, <2>1 DEF WatchTypes
    <3> QED BY <1>1, <2>1, <3>1 DEF own, WatchTypes
  <2>7. ASSUME NEW d \in Callers, own(d)'
        PROVE  own(d) /\ handle'[d] = handle[d] /\ given(d)' = given(d)
    <3>1. d # c
      BY <2>6, <2>7
    <3>2. handle'[d] = handle[d]
      BY <1>1, <2>1, <3>1 DEF WatchTypes
    <3> QED BY <2>1, <2>7, <3>2 DEF own, given
  <2> QED BY <2>1, <2>4, <2>5, <2>7, Quiet
<1>3. CASE CheckWatch(c)
  <2> DEFINE n == handle[c].number
             e == [m_watches[n] EXCEPT !.changes = << >>, !.expired = FALSE]
             W == [id : LogFilters \cup Special, changes : Seq(Nat), automatic : BOOLEAN, expired : BOOLEAN, by : Callers]
  <2>1. /\ own(c) /\ got' = [got EXCEPT ![c] = @ \o m_watches[n].changes]
        /\ m_watches' = [m_watches EXCEPT ![n].changes = << >>, ![n].expired = FALSE]
        /\ handle' = handle /\ m_filters' = m_filters /\ m_specialFilters' = m_specialFilters
        /\ io_changed' = io_changed /\ changes' = changes /\ due' = due
    BY <1>3 DEF CheckWatch
  <2>2. n \in DOMAIN m_watches /\ m_watches[n] \in W /\ m_watches[n].changes \in Seq(Nat)
        /\ m_watches[n].by = c
    BY <1>1, <2>1 DEF own, WatchTypes
  <2>3. m_watches' = [m_watches EXCEPT ![n] = e]
    BY <2>1, <2>2
  <2>4. e \in W /\ e.id = m_watches[n].id /\ e.by = m_watches[n].by /\ e.changes = << >>
    BY <2>2, NoChanges
  <2>5. got[c] \in Seq(Nat)
    BY <1>1 DEF WatchTypes
  <2>6. got[c] \o m_watches[n].changes \in Seq(Nat)
    BY <2>2, <2>5, ConcatProperties
  <2>7. got' \in [Callers -> Seq(Nat)] /\ got'[c] = got[c] \o m_watches[n].changes
        /\ \A d \in Callers : d # c => got'[d] = got[d]
    BY <1>1, <2>1, <2>6 DEF WatchTypes
  <2>8. m_watches \in [DOMAIN m_watches -> W]
    BY <1>1 DEF WatchTypes
  <2>9. given(c) = got[c] \o m_watches[n].changes
    BY DEF given
  <2> HIDE DEF e
  <2>10. /\ DOMAIN m_watches' = DOMAIN m_watches /\ m_watches' \in [DOMAIN m_watches -> W] /\ m_watches'[n] = e
         /\ \A i \in DOMAIN m_watches : i # n => m_watches'[i] = m_watches[i]
    <3> HIDE DEF W, n
    <3> QED BY <2>2, <2>3, <2>4, <2>8
  <2>11. WatchTypes'
    BY <1>1, <2>1, <2>7, <2>10 DEF WatchTypes
  <2>12. \A g : pending(g)' = pending(g)
    BY <2>1 DEF pending
  <2>13. given(c)' = given(c)
    <3>1. given(c)' = got'[c] \o m_watches'[n].changes
      BY <2>1 DEF given
    <3>2. given(c) \in Seq(Nat)
      BY <2>6, <2>9
    <3>3. given(c) \o << >> = given(c)
      BY <3>2, ConcatEmptySeq
    <3> QED BY <2>4, <2>7, <2>9, <2>10, <3>1, <3>3
  <2>14. ASSUME NEW d \in Callers, own(d)'
         PROVE  own(d) /\ given(d)' = given(d) /\ m_watches'[handle[d].number].id = m_watches[handle[d].number].id
    <3>1. handle[d].number \in DOMAIN m_watches /\ m_watches'[handle[d].number].by = d
      BY <2>1, <2>10, <2>14 DEF own
    <3>2. CASE d = c
      BY <2>1, <2>4, <2>10, <2>13, <3>2
    <3>3. CASE d # c
      <4>1. handle[d].number # n
        BY <2>2, <2>4, <2>10, <3>1, <3>3
      <4>2. m_watches'[handle[d].number] = m_watches[handle[d].number] /\ got'[d] = got[d]
        BY <2>7, <2>10, <3>1, <3>3, <4>1
      <4> QED BY <2>1, <3>1, <4>2 DEF own, given
    <3> QED BY <3>2, <3>3
  <2> QED BY <2>1, <2>11, <2>12, <2>14, Quiet
<1>4. CASE PeekWatch(c)
  <2> DEFINE n == handle[c].number
  <2>1. /\ own(c) /\ m_watches' = [m_watches EXCEPT ![n].expired = FALSE]
        /\ handle' = handle /\ m_filters' = m_filters /\ m_specialFilters' = m_specialFilters
        /\ io_changed' = io_changed /\ changes' = changes /\ due' = due /\ got' = got
    BY <1>4 DEF PeekWatch
  <2>2. n \in DOMAIN m_watches
    BY <2>1 DEF own
  <2> HIDE DEF n
  <2>3. WatchInv'
    BY <2>1, <2>2, OnlyExpiry
  <2> QED BY <2>3
<1>5. CASE GiveUp(c)
  <2>1. /\ handle' = [handle EXCEPT ![c] = idle] /\ m_watches' = m_watches
        /\ m_filters' = m_filters /\ m_specialFilters' = m_specialFilters
        /\ io_changed' = io_changed /\ changes' = changes /\ due' = due /\ got' = got
    BY <1>5 DEF GiveUp
  <2>2. idle \in [filter : LogFilters \cup Special \cup {"none"}, automatic : BOOLEAN, number : Int] /\ idle.number = -1
    BY DEF idle
  <2>3. handle' \in [Callers -> [filter : LogFilters \cup Special \cup {"none"}, automatic : BOOLEAN, number : Int]]
        /\ handle'[c] = idle /\ \A d \in Callers : d # c => handle'[d] = handle[d]
    BY <1>1, <2>1, <2>2 DEF WatchTypes
  <2>4. WatchTypes'
    BY <1>1, <2>1, <2>3 DEF WatchTypes
  <2>5. \A g : pending(g)' = pending(g)
    BY <2>1 DEF pending
  <2>6. ~own(c)'
    BY <1>1, <2>1, <2>2, <2>3 DEF own, WatchTypes
  <2>7. ASSUME NEW d \in Callers, own(d)'
        PROVE  own(d) /\ handle'[d] = handle[d] /\ given(d)' = given(d)
    <3>1. handle'[d] = handle[d]
      BY <2>3, <2>6, <2>7
    <3> QED BY <2>1, <2>7, <3>1 DEF own, given
  <2> QED BY <2>1, <2>4, <2>5, <2>7, Quiet
<1> QED BY <1>2, <1>3, <1>4, <1>5

\* A watch with a new number, which was given nothing and is due nothing.
LEMMA InstallKeeps ==
  ASSUME WatchInv, NEW c \in Callers, InstallWatch(c)
  PROVE  WatchInv'
<1> DEFINE W == [id : LogFilters \cup Special, changes : Seq(Nat), automatic : BOOLEAN, expired : BOOLEAN, by : Callers]
           e == [id |-> handle[c].filter, changes |-> << >>, automatic |-> handle[c].automatic, expired |-> FALSE, by |-> c]
           H == [filter : LogFilters \cup Special \cup {"none"}, automatic : BOOLEAN, number : Int]
<1>1. PICK n : n = nextWatch
  OBVIOUS
<1>2. WatchTypes
  BY DEF WatchInv
<1>3. n \in Nat /\ n \notin DOMAIN m_watches
  BY <1>1, <1>2, NumberIsNew
<1>4. /\ handle[c].filter # "none" /\ handle[c].number = -1
      /\ handle' = [handle EXCEPT ![c].number = n]
      /\ m_watches' = [i \in DOMAIN m_watches \cup {n} |-> IF i = n THEN e ELSE m_watches[i]]
      /\ due' = [due EXCEPT ![c] = {}] /\ got' = [got EXCEPT ![c] = << >>]
      /\ m_filters' = m_filters /\ m_specialFilters' = m_specialFilters /\ io_changed' = io_changed /\ changes' = changes
  BY <1>1 DEF InstallWatch
<1>5. handle[c] \in H /\ m_watches \in [DOMAIN m_watches -> W] /\ handle \in [Callers -> H]
  BY <1>2 DEF WatchTypes
<1>6. e \in W /\ e.id = handle[c].filter /\ e.changes = << >> /\ e.by = c
  BY <1>4, <1>5, NoChanges
<1>7. /\ handle'[c] = [handle[c] EXCEPT !.number = n] /\ \A d \in Callers : d # c => handle'[d] = handle[d]
      /\ handle' \in [Callers -> H] /\ handle'[c].number = n /\ handle'[c].filter = handle[c].filter
  <2>1. [handle[c] EXCEPT !.number = n] \in H
    <3>1. handle[c] \in H /\ n \in Int
      BY <1>3, <1>5
    <3> QED BY <3>1
  <2>2. [handle[c] EXCEPT !.number = n].number = n /\ [handle[c] EXCEPT !.number = n].filter = handle[c].filter
    BY <1>5
  <2> DEFINE h == [handle[c] EXCEPT !.number = n]
  <2>3. h \in H /\ h.number = n /\ h.filter = handle[c].filter /\ handle' = [handle EXCEPT ![c] = h]
    BY <1>4, <2>1, <2>2
  <2> HIDE DEF h, H
  <2>4. handle'[c] = h /\ (\A d \in Callers : d # c => handle'[d] = handle[d]) /\ handle' \in [Callers -> H]
    BY <1>5, <2>3
  <2>5. handle'[c].number = n /\ handle'[c].filter = handle[c].filter
    BY <2>3, <2>4
  <2> QED BY <2>4, <2>5 DEF h
<1> HIDE DEF e
<1>8. /\ DOMAIN m_watches' = DOMAIN m_watches \cup {n} /\ m_watches' \in [DOMAIN m_watches' -> W]
      /\ m_watches'[n] = e /\ \A i \in DOMAIN m_watches : m_watches'[i] = m_watches[i]
  <2> HIDE DEF W
  <2> QED BY <1>3, <1>4, <1>5, <1>6
<1>9. /\ due' \in [Callers -> SUBSET Nat] /\ got' \in [Callers -> Seq(Nat)] /\ due'[c] = {} /\ got'[c] = << >>
      /\ \A d \in Callers : d # c => due'[d] = due[d] /\ got'[d] = got[d]
  BY <1>2, <1>4, NoChanges DEF WatchTypes
<1>10. WatchTypes'
  <2>1. DOMAIN m_watches' \subseteq Nat /\ IsFiniteSet(DOMAIN m_watches')
    <3>1. DOMAIN m_watches \subseteq Nat /\ IsFiniteSet(DOMAIN m_watches)
      BY <1>2 DEF WatchTypes
    <3>2. IsFiniteSet(DOMAIN m_watches \cup {n})
      BY <3>1, FS_AddElement
    <3> QED BY <1>3, <1>8, <3>1, <3>2
  <2> QED BY <1>2, <1>4, <1>7, <1>8, <1>9, <2>1 DEF WatchTypes
<1>11. \A g : pending(g)' = pending(g)
  BY <1>4 DEF pending
<1>12. WatchSound(c)'
  <2>1. given(c)' = << >>
    <3>1. given(c)' = got'[c] \o m_watches'[n].changes
      BY <1>7 DEF given
    <3>2. << >> \o << >> = << >>
      OBVIOUS
    <3> QED BY <1>6, <1>8, <1>9, <3>1, <3>2
  <2>2. m_watches'[handle'[c].number].id = handle'[c].filter
    BY <1>6, <1>7, <1>8
  <2>3. Increasing(given(c)') /\ ToSet(given(c)') = {}
    BY <2>1, NoChanges
  <2> SUFFICES ASSUME NEW f \in LogFilters \cup Special, m_watches'[handle'[c].number].id = f
               PROVE  /\ handle'[c].filter = f
                      /\ Increasing(given(c)') /\ \A k \in ToSet(given(c)') : k <= changes'
                      /\ \A k \in ToSet(given(c)'), l \in ToSet(pending(f)') : k < l
                      /\ due'[c] \subseteq ToSet(given(c)') \cup ToSet(pending(f)')
    BY DEF WatchSound
  <2> QED BY <1>9, <2>2, <2>3
<1>13. ASSUME NEW d \in Callers, d # c, own(d)'
       PROVE  /\ own(d) /\ handle'[d] = handle[d] /\ given(d)' = given(d) /\ due'[d] = due[d]
              /\ m_watches'[handle[d].number].id = m_watches[handle[d].number].id
  <2>1. handle'[d] = handle[d] /\ got'[d] = got[d] /\ due'[d] = due[d]
    BY <1>7, <1>9, <1>13
  <2>2. handle[d].number \in DOMAIN m_watches \cup {n} /\ m_watches'[handle[d].number].by = d
    BY <1>8, <1>13, <2>1 DEF own
  <2>3. handle[d].number \in DOMAIN m_watches
    BY <1>6, <1>8, <1>13, <2>2
  <2>4. m_watches'[handle[d].number] = m_watches[handle[d].number]
    BY <1>8, <2>3
  <2> QED BY <2>1, <2>2, <2>3, <2>4 DEF own, given
<1> QED BY <1>4, <1>10, <1>11, <1>12, <1>13, Quiet

\* A watch goes, by its owner or by the collection.
LEMMA UninstallKeeps ==
  ASSUME WatchInv, NEW i \in DOMAIN m_watches, uninstalled(i), m_specialFilters' = m_specialFilters,
         changes' = changes, io_changed' = io_changed, got' = got,
         \/ handle' = handle
         \/ \E c \in Callers : m_watches[i].by = c /\ handle' = [handle EXCEPT ![c] = idle]
  PROVE  WatchInv'
<1>1. WatchTypes
  BY DEF WatchInv
<1>2. /\ DOMAIN m_watches' = DOMAIN m_watches \ {i} /\ \A j \in DOMAIN m_watches \ {i} : m_watches'[j] = m_watches[j]
      /\ m_watches' \in [DOMAIN m_watches' -> [id : LogFilters \cup Special, changes : Seq(Nat), automatic : BOOLEAN,
                                              expired : BOOLEAN, by : Callers]]
      /\ m_filters' \in [DOMAIN m_filters' -> [refCount : Int, changes : Seq(Nat)]]
      /\ DOMAIN m_filters' \subseteq DOMAIN m_filters
      /\ due' \in [Callers -> SUBSET Nat] /\ \A c \in Callers : due'[c] \in {due[c], {}}
  BY Uninstalled
<1>3. \A f : \/ pending(f)' = pending(f)
             \/ pending(f)' = << >> /\ \A c \in Callers : handle[c].filter = f => due'[c] = {}
  BY Uninstalled
<1>4. idle \in [filter : LogFilters \cup Special \cup {"none"}, automatic : BOOLEAN, number : Int] /\ idle.number = -1
  BY DEF idle
<1>5. handle' \in [Callers -> [filter : LogFilters \cup Special \cup {"none"}, automatic : BOOLEAN, number : Int]]
  BY <1>1, <1>4 DEF WatchTypes
<1>6. WatchTypes'
  <2>1. DOMAIN m_watches' \subseteq Nat /\ IsFiniteSet(DOMAIN m_watches')
    <3>1. DOMAIN m_watches \subseteq Nat /\ IsFiniteSet(DOMAIN m_watches)
      BY <1>1 DEF WatchTypes
    <3>2. IsFiniteSet(DOMAIN m_watches \ {i})
      BY <3>1, FS_RemoveElement
    <3> QED BY <1>2, <3>1, <3>2
  <2>2. DOMAIN m_filters' \cap Special = {}
    BY <1>1, <1>2 DEF WatchTypes
  <2> QED BY <1>1, <1>2, <1>5, <2>1, <2>2 DEF WatchTypes
<1>7. ASSUME NEW d \in Callers, own(d)'
      PROVE  /\ own(d) /\ handle'[d] = handle[d] /\ given(d)' = given(d)
             /\ m_watches'[handle[d].number].id = m_watches[handle[d].number].id
  <2>1. handle'[d].number \in DOMAIN m_watches \ {i}
    BY <1>2, <1>7 DEF own
  <2>2. handle'[d] = handle[d]
    <3>1. handle'[d].number # -1
      BY <1>1, <2>1 DEF WatchTypes
    <3> QED BY <1>1, <1>4, <3>1 DEF WatchTypes
  <2>3. m_watches'[handle[d].number] = m_watches[handle[d].number]
    BY <1>2, <2>1, <2>2
  <2> QED BY <1>7, <2>1, <2>2, <2>3 DEF own, given
<1>8. ASSUME NEW d \in Callers
      PROVE  due'[d] = {} \/ (due'[d] = due[d] /\ \A f : handle[d].filter = f => pending(f)' = pending(f))
  BY <1>2, <1>3
<1> QED BY <1>3, <1>6, <1>7, <1>8, Quiet

\* Changes that were not handed on, and those a watch was given, are sequences of numbers.
LEMMA ChangesAreNumbers ==
  ASSUME WatchTypes
  PROVE  /\ \A f : pending(f) \in Seq(Nat)
         /\ \A c \in Callers : own(c) => /\ given(c) \in Seq(Nat) /\ got[c] \in Seq(Nat)
                                         /\ m_watches[handle[c].number].changes \in Seq(Nat)
                                         /\ m_watches[handle[c].number].id \in LogFilters \cup Special
<1>1. ASSUME NEW f
      PROVE  pending(f) \in Seq(Nat)
  BY NoChanges DEF pending, WatchTypes
<1>2. ASSUME NEW c \in Callers, own(c)
      PROVE  /\ given(c) \in Seq(Nat) /\ got[c] \in Seq(Nat)
             /\ m_watches[handle[c].number].changes \in Seq(Nat)
             /\ m_watches[handle[c].number].id \in LogFilters \cup Special
  <2>1. got[c] \in Seq(Nat)
    BY DEF WatchTypes
  <2>2. /\ m_watches[handle[c].number].changes \in Seq(Nat)
        /\ m_watches[handle[c].number].id \in LogFilters \cup Special
    BY <1>2 DEF own, WatchTypes
  <2>3. given(c) \in Seq(Nat)
    BY <2>1, <2>2, ConcatProperties DEF given
  <2> QED BY <2>1, <2>2, <2>3
<1> QED BY <1>1, <1>2

\* A change is appended to the filters that match it.
LEMMA AppendKeeps ==
  ASSUME WatchInv, NEW special \in Special, NEW matching \in SUBSET DOMAIN m_filters, append(special, matching)
  PROVE  WatchInv'
<1> DEFINE k == changes + 1
           F == [refCount : Int, changes : Seq(Nat)]
<1>1. /\ changes' = k /\ io_changed' = io_changed \cup {special} \cup matching
      /\ m_specialFilters' = [m_specialFilters EXCEPT ![special] = Append(@, k)]
      /\ m_filters' = [f \in DOMAIN m_filters |->
                          IF f \in matching THEN [m_filters[f] EXCEPT !.changes = Append(@, k)] ELSE m_filters[f]]
      /\ due' = [c \in Callers |->
                    IF own(c) /\ handle[c].filter \in matching \cup {special} THEN due[c] \cup {k} ELSE due[c]]
      /\ m_watches' = m_watches /\ handle' = handle /\ got' = got
  BY DEF append
<1>2. WatchTypes /\ k \in Nat /\ changes \in Nat /\ changes < k
  BY DEF WatchInv, WatchTypes
<1> HIDE DEF k
<1>3. ASSUME NEW f \in DOMAIN m_filters
      PROVE  /\ [m_filters[f] EXCEPT !.changes = Append(@, k)] \in F
             /\ [m_filters[f] EXCEPT !.changes = Append(@, k)].changes = Append(m_filters[f].changes, k)
  <2>1. m_filters[f] \in F
    BY <1>2 DEF WatchTypes
  <2>2. Append(m_filters[f].changes, k) \in Seq(Nat)
    BY <1>2, <2>1, AppendProperties
  <2> QED BY <2>1, <2>2
<1>4. m_filters' \in [DOMAIN m_filters' -> F] /\ DOMAIN m_filters' = DOMAIN m_filters
  <2>1. m_filters \in [DOMAIN m_filters -> F]
    BY <1>2 DEF WatchTypes
  <2> HIDE DEF F
  <2> QED BY <1>1, <1>3, <2>1
<1>5. m_specialFilters' \in [Special -> Seq(Nat)]
  <2>1. m_specialFilters \in [Special -> Seq(Nat)]
    BY <1>2 DEF WatchTypes
  <2>2. Append(m_specialFilters[special], k) \in Seq(Nat)
    BY <1>2, <2>1, AppendProperties
  <2> QED BY <1>1, <2>1, <2>2
<1>6. due' \in [Callers -> SUBSET Nat]
  BY <1>1, <1>2 DEF WatchTypes
<1>7. WatchTypes'
  BY <1>1, <1>2, <1>4, <1>5, <1>6 DEF WatchTypes
<1>8. ASSUME NEW f
      PROVE  pending(f)' = IF f \in matching \cup {special} THEN Append(pending(f), k) ELSE pending(f)
  <2>1. DOMAIN m_filters \cap Special = {} /\ DOMAIN m_specialFilters = Special
    BY <1>2 DEF WatchTypes
  <2>2. CASE f \in DOMAIN m_filters
    <3>1. f # special /\ pending(f) = m_filters[f].changes /\ pending(f)' = m_filters'[f].changes
      BY <1>4, <2>1, <2>2 DEF pending
    <3>2. m_filters'[f].changes = IF f \in matching THEN Append(m_filters[f].changes, k) ELSE m_filters[f].changes
      BY <1>1, <1>3, <2>2
    <3> QED BY <3>1, <3>2
  <2>3. CASE f \notin DOMAIN m_filters /\ f \in Special
    <3>1. f \notin matching /\ pending(f) = m_specialFilters[f] /\ pending(f)' = m_specialFilters'[f]
      BY <1>4, <2>3 DEF pending
    <3> QED BY <1>1, <2>1, <2>3, <3>1
  <2>4. CASE f \notin DOMAIN m_filters /\ f \notin Special
    BY <1>4, <2>4 DEF pending
  <2> QED BY <2>2, <2>3, <2>4
<1>9. ASSUME NEW f \in DOMAIN m_filters \cup Special
      PROVE  /\ FilterSound(f)'
             /\ f \in matching \cup {special} => ToSet(pending(f)') = ToSet(pending(f)) \cup {k}
  <2>1. /\ Increasing(pending(f)) /\ \A l \in ToSet(pending(f)) : l <= changes
        /\ pending(f) # << >> => f \in io_changed
    BY DEF WatchInv, FilterSound
  <2>2. pending(f) \in Seq(Nat)
    BY <1>2, ChangesAreNumbers
  <2>3. \A l \in ToSet(pending(f)) : l \in Nat
    <3>1. \A i \in DOMAIN pending(f) : pending(f)[i] \in Nat
      BY <2>2, LenProperties, ElementOfSeq
    <3> QED BY <3>1 DEF ToSet
  <2>4. \A l \in ToSet(pending(f)) : l < k
    BY <1>2, <2>1, <2>3
  <2>5. CASE f \in matching \cup {special}
    <3> DEFINE s == Append(pending(f), k)
    <3>1. pending(f)' = s
      BY <1>8, <2>5
    <3>2. Increasing(s) /\ ToSet(s) = ToSet(pending(f)) \cup {k}
      BY <1>2, <2>1, <2>2, <2>4, OneMore
    <3> HIDE DEF s
    <3>3. \A l \in ToSet(s) : l <= changes'
      BY <1>1, <1>2, <2>3, <2>4, <3>2
    <3>4. f \in io_changed'
      BY <1>1, <2>5
    <3> QED BY <3>1, <3>2, <3>3, <3>4 DEF FilterSound
  <2>6. CASE f \notin matching \cup {special}
    <3>1. pending(f)' = pending(f)
      BY <1>8, <2>6
    <3>2. \A l \in ToSet(pending(f)) : l <= changes'
      BY <1>1, <1>2, <2>3, <2>4
    <3> QED BY <1>1, <2>1, <2>6, <3>1, <3>2 DEF FilterSound
  <2> QED BY <2>5, <2>6
<1>10. ASSUME NEW c \in Callers, own(c)', NEW f \in LogFilters \cup Special, m_watches'[handle'[c].number].id = f
       PROVE  /\ handle'[c].filter = f
              /\ Increasing(given(c)') /\ \A j \in ToSet(given(c)') : j <= changes'
              /\ \A j \in ToSet(given(c)'), l \in ToSet(pending(f)') : j < l
              /\ due'[c] \subseteq ToSet(given(c)') \cup ToSet(pending(f)')
  <2>1. own(c) /\ m_watches[handle[c].number].id = f /\ given(c)' = given(c)
    BY <1>1, <1>10 DEF own, given
  <2>2. /\ handle[c].filter = f
        /\ Increasing(given(c)) /\ \A j \in ToSet(given(c)) : j <= changes
        /\ \A j \in ToSet(given(c)), l \in ToSet(pending(f)) : j < l
        /\ due[c] \subseteq ToSet(given(c)) \cup ToSet(pending(f))
    BY <2>1 DEF WatchInv, WatchSound
  <2>3. \A j \in ToSet(given(c)) : j \in Nat
    <3>1. given(c) \in Seq(Nat)
      BY <1>2, <2>1, ChangesAreNumbers
    <3>2. \A i \in DOMAIN given(c) : given(c)[i] \in Nat
      BY <3>1, LenProperties, ElementOfSeq
    <3> QED BY <3>2 DEF ToSet
  <2>4. \A j \in ToSet(given(c)) : j < k /\ j <= changes'
    BY <1>1, <1>2, <2>2, <2>3
  <2>5. due'[c] = IF f \in matching \cup {special} THEN due[c] \cup {k} ELSE due[c]
    BY <1>1, <2>1, <2>2
  <2>6. CASE f \in matching \cup {special}
    <3>1. ToSet(pending(f)') = ToSet(pending(f)) \cup {k}
      BY <1>9, <2>6
    <3>2. \A j \in ToSet(given(c)), l \in ToSet(pending(f)') : j < l
      BY <2>2, <2>4, <3>1
    <3>3. due'[c] \subseteq ToSet(given(c)) \cup ToSet(pending(f)')
      BY <2>2, <2>5, <2>6, <3>1
    <3> QED BY <1>1, <2>1, <2>2, <2>4, <3>2, <3>3
  <2>7. CASE f \notin matching \cup {special}
    <3>1. pending(f)' = pending(f)
      BY <1>8, <2>7
    <3> QED BY <1>1, <2>1, <2>2, <2>4, <2>5, <2>7, <3>1
  <2> QED BY <2>6, <2>7
<1>11. \A c \in Callers : WatchSound(c)'
  BY <1>10 DEF WatchSound
<1>12. \A f \in (DOMAIN m_filters \cup Special)' : FilterSound(f)'
  BY <1>4, <1>9
<1> QED BY <1>7, <1>11, <1>12 DEF WatchInv

\* Every watch is given what its filter has, and the filters have nothing any more.
LEMMA NoteKeeps ==
  ASSUME WatchInv, NoteChanged
  PROVE  WatchInv'
<1> DEFINE W == [id : LogFilters \cup Special, changes : Seq(Nat), automatic : BOOLEAN, expired : BOOLEAN, by : Callers]
           F == [refCount : Int, changes : Seq(Nat)]
<1>1. /\ m_watches' = [i \in DOMAIN m_watches |-> [m_watches[i] EXCEPT !.changes = @ \o accrued(m_watches[i])]]
      /\ m_filters' = [f \in DOMAIN m_filters |-> [m_filters[f] EXCEPT !.changes = << >>]]
      /\ m_specialFilters' = [s \in Special |-> << >>]
      /\ handle' = handle /\ changes' = changes /\ due' = due /\ got' = got
  BY DEF NoteChanged, filtersCleared
<1>2. WatchTypes /\ DOMAIN m_filters \cap Special = {}
  BY DEF WatchInv, WatchTypes
<1>3. ASSUME NEW w \in W
      PROVE  accrued(w) = pending(w.id)
  <2>1. CASE w.id \notin DOMAIN m_filters \cup Special
    BY <2>1 DEF accrued, pending
  <2>2. CASE w.id \in DOMAIN m_filters
    <3>1. pending(w.id) = m_filters[w.id].changes /\ w.id \notin Special
      BY <1>2, <2>2 DEF pending
    <3>2. pending(w.id) # << >> => w.id \in io_changed
      BY <2>2 DEF WatchInv, FilterSound
    <3> QED BY <2>2, <3>1, <3>2 DEF accrued
  <2>3. CASE w.id \in Special
    <3>1. pending(w.id) = m_specialFilters[w.id] /\ w.id \notin DOMAIN m_filters
      BY <1>2, <2>3 DEF pending
    <3>2. pending(w.id) # << >> => w.id \in io_changed
      BY <2>3 DEF WatchInv, FilterSound
    <3> QED BY <2>3, <3>1, <3>2 DEF accrued
  <2> QED BY <2>1, <2>2, <2>3
<1>4. ASSUME NEW i \in DOMAIN m_watches
      PROVE  /\ m_watches'[i] \in W
             /\ m_watches'[i].id = m_watches[i].id /\ m_watches'[i].by = m_watches[i].by
             /\ m_watches'[i].changes = m_watches[i].changes \o pending(m_watches[i].id)
  <2>1. m_watches[i] \in W
    BY <1>2 DEF WatchTypes
  <2>2. PICK s : s = m_watches[i].changes \o pending(m_watches[i].id)
    OBVIOUS
  <2>3. s \in Seq(Nat)
    <3>1. m_watches[i].changes \in Seq(Nat) /\ pending(m_watches[i].id) \in Seq(Nat)
      BY <1>2, <2>1, ChangesAreNumbers
    <3> QED BY <2>2, <3>1, ConcatProperties
  <2>4. m_watches'[i] = [m_watches[i] EXCEPT !.changes = s]
    BY <1>1, <1>3, <2>1, <2>2
  <2>5. /\ [m_watches[i] EXCEPT !.changes = s] \in W
        /\ [m_watches[i] EXCEPT !.changes = s].id = m_watches[i].id
        /\ [m_watches[i] EXCEPT !.changes = s].by = m_watches[i].by
        /\ [m_watches[i] EXCEPT !.changes = s].changes = s
    BY <2>1, <2>3
  <2> QED BY <2>2, <2>4, <2>5
<1>5. DOMAIN m_watches' = DOMAIN m_watches /\ m_watches' \in [DOMAIN m_watches' -> W]
  <2>1. DOMAIN m_watches' = DOMAIN m_watches
    BY <1>1
  <2> DEFINE r(i) == [m_watches[i] EXCEPT !.changes = @ \o accrued(m_watches[i])]
  <2>2. m_watches' = [i \in DOMAIN m_watches |-> r(i)]
    BY <1>1
  <2> HIDE DEF r, W
  <2> QED BY <1>4, <2>1, <2>2
<1>6. m_filters' \in [DOMAIN m_filters' -> F] /\ DOMAIN m_filters' = DOMAIN m_filters
      /\ \A f \in DOMAIN m_filters : m_filters'[f].changes = << >>
  <2>1. ASSUME NEW f \in DOMAIN m_filters
        PROVE  [m_filters[f] EXCEPT !.changes = << >>] \in F /\ [m_filters[f] EXCEPT !.changes = << >>].changes = << >>
    <3>1. m_filters[f] \in F
      BY <1>2 DEF WatchTypes
    <3> QED BY <3>1, NoChanges
  <2> HIDE DEF F
  <2> QED BY <1>1, <2>1
<1>7. WatchTypes'
  BY <1>1, <1>2, <1>5, <1>6, NoChanges DEF WatchTypes
<1>8. \A f : pending(f)' = << >>
  BY <1>1, <1>6 DEF pending
<1>9. \A f : FilterSound(f)'
  BY <1>8, NoChanges DEF FilterSound
<1>10. ASSUME NEW c \in Callers, own(c)', NEW f \in LogFilters \cup Special, m_watches'[handle'[c].number].id = f
       PROVE  /\ handle'[c].filter = f
              /\ Increasing(given(c)') /\ \A j \in ToSet(given(c)') : j <= changes'
              /\ \A j \in ToSet(given(c)'), l \in ToSet(pending(f)') : j < l
              /\ due'[c] \subseteq ToSet(given(c)') \cup ToSet(pending(f)')
  <2>1. handle[c].number \in DOMAIN m_watches
    BY <1>1, <1>5, <1>10 DEF own
  <2>2. own(c) /\ m_watches[handle[c].number].id = f
    BY <1>1, <1>4, <1>10, <2>1 DEF own
  <2>3. /\ handle[c].filter = f
        /\ Increasing(given(c)) /\ \A j \in ToSet(given(c)) : j <= changes
        /\ \A j \in ToSet(given(c)), l \in ToSet(pending(f)) : j < l
        /\ due[c] \subseteq ToSet(given(c)) \cup ToSet(pending(f))
    BY <2>2 DEF WatchInv, WatchSound
  <2>4. /\ given(c) \in Seq(Nat) /\ got[c] \in Seq(Nat) /\ pending(f) \in Seq(Nat)
        /\ m_watches[handle[c].number].changes \in Seq(Nat)
    BY <1>2, <2>2, ChangesAreNumbers
  <2>5. given(c)' = given(c) \o pending(f)
    <3>1. given(c)' = got[c] \o (m_watches[handle[c].number].changes \o pending(f))
      BY <1>1, <1>4, <2>1, <2>2 DEF given
    <3>2. given(c) = got[c] \o m_watches[handle[c].number].changes
      BY DEF given
    <3> DEFINE r == got[c]
               s == m_watches[handle[c].number].changes
               t == pending(f)
    <3>3. r \in Seq(Nat) /\ s \in Seq(Nat) /\ t \in Seq(Nat)
      BY <2>4
    <3> HIDE DEF r, s, t
    <3>4. (r \o s) \o t = r \o (s \o t)
      BY <3>3, ConcatAssociative
    <3> QED BY <3>1, <3>2, <3>4 DEF r, s, t
  <2>6. CASE pending(f) = << >>
    <3>1. given(c)' = given(c)
      BY <2>4, <2>5, <2>6, ConcatEmptySeq
    <3> QED BY <1>1, <1>8, <2>3, <2>6, <3>1, NoChanges
  <2>7. CASE pending(f) # << >>
    <3>1. f \in DOMAIN m_filters \cup Special
      BY <2>7 DEF pending
    <3>2. Increasing(pending(f)) /\ \A l \in ToSet(pending(f)) : l <= changes
      BY <3>1 DEF WatchInv, FilterSound
    <3>3. /\ Increasing(given(c) \o pending(f))
          /\ ToSet(given(c) \o pending(f)) = ToSet(given(c)) \cup ToSet(pending(f))
      BY <2>3, <2>4, <3>2, Joined
    <3> QED BY <1>1, <1>8, <2>3, <2>5, <3>2, <3>3, NoChanges
  <2> QED BY <2>6, <2>7
<1>11. \A c \in Callers : WatchSound(c)'
  BY <1>10 DEF WatchSound
<1> QED BY <1>7, <1>9, <1>11 DEF WatchInv

\* A caller, the clock or the client's thread takes a step.
LEMMA WatchStep == WatchInv /\ [WatchNext]_watchVars => WatchInv'
<1> SUFFICES ASSUME WatchInv, [WatchNext]_watchVars
             PROVE  WatchInv'
  OBVIOUS
<1>1. ASSUME NEW c \in Callers, UninstallWatch(c)
      PROVE  WatchInv'
  <2>1. PICK i : i = handle[c].number
    OBVIOUS
  <2>2. i \in DOMAIN m_watches /\ m_watches[i].by = c
    BY <1>1, <2>1 DEF UninstallWatch, own
  <2>3. /\ uninstalled(i) /\ handle' = [handle EXCEPT ![c] = idle] /\ m_specialFilters' = m_specialFilters
        /\ changes' = changes /\ io_changed' = io_changed /\ got' = got
    BY <1>1, <2>1 DEF UninstallWatch
  <2> QED BY <2>2, <2>3, UninstallKeeps
<1>2. ASSUME NEW i \in DOMAIN m_watches, Expire(i)
      PROVE  WatchInv'
  BY <1>2, OnlyExpiry DEF Expire
<1>3. ASSUME NEW matching \in SUBSET DOMAIN m_filters, AppendFromNewPending(matching) \/ AppendFromBlock(matching)
      PROVE  WatchInv'
  <2>1. "pending" \in Special /\ "chain" \in Special
    BY DEF Special
  <2> QED BY <1>3, <2>1, AppendKeeps DEF AppendFromNewPending, AppendFromBlock
<1>4. CASE m_filters' = m_filters /\ m_specialFilters' = m_specialFilters /\ m_watches' = m_watches
           /\ handle' = handle /\ io_changed' = io_changed /\ changes' = changes /\ due' = due /\ got' = got
  <2>1. WatchTypes'
    BY <1>4 DEF WatchInv, WatchTypes
  <2>2. \A f : pending(f)' = pending(f)
    BY <1>4 DEF pending
  <2>3. \A c \in Callers : own(c)' => own(c) /\ given(c)' = given(c)
    BY <1>4 DEF own, given
  <2> QED BY <1>4, <2>1, <2>2, <2>3, Quiet
<1>5. CASE CheckWatchGarbage \/ UNCHANGED watchVars
  BY <1>4, <1>5 DEF CheckWatchGarbage, watchVars
<1>6. ASSUME NEW i \in toUninstall, UninstallExpired(i)
      PROVE  WatchInv'
  <2>1. CASE i \in DOMAIN m_watches
    BY <1>6, <2>1, UninstallKeeps DEF UninstallExpired
  <2>2. CASE i \notin DOMAIN m_watches
    BY <1>4, <1>6, <2>2 DEF UninstallExpired
  <2> QED BY <2>1, <2>2
<1> QED BY <1>1, <1>2, <1>3, <1>5, <1>6, CallerKeeps, InstallKeeps, NoteKeeps DEF WatchNext

(***************************************************************************)
(* For any callers and filters, however often watches are installed, polled *)
(* and collected: a watch of ClientBase is given no change twice, and what  *)
(* an installed filter matched since the watch was there reaches the watch, *)
(* as long as the filter is not erased.  An uninstall that takes the last   *)
(* reference erases a filter other watches use (ClientBase.cpp:317-321):    *)
(* what they were due until then may be lost, and nothing is said of it.    *)
(***************************************************************************)
THEOREM WatchesAreServed == WatchSpec => []ChangesReachWatches
<1>1. WatchInv => ChangesReachWatches
  <2> SUFFICES ASSUME WatchInv, NEW c \in Callers, own(c)
               PROVE  IsInjective(given(c)) /\ (io_changed = {} => due[c] \subseteq ToSet(given(c)))
    BY DEF ChangesReachWatches, given
  <2>1. PICK f \in LogFilters \cup Special : m_watches[handle[c].number].id = f
    BY ChangesAreNumbers DEF WatchInv
  <2>2. /\ Increasing(given(c)) /\ due[c] \subseteq ToSet(given(c)) \cup ToSet(pending(f))
    BY <2>1 DEF WatchInv, WatchSound
  <2>3. IsInjective(given(c))
    <3> DEFINE s == given(c)
    <3>1. s \in Seq(Nat)
      BY ChangesAreNumbers DEF WatchInv
    <3>2. Increasing(s)
      BY <2>2
    <3> HIDE DEF s
    <3>3. DOMAIN s = 1..Len(s) /\ Len(s) \in Nat /\ \A i \in DOMAIN s : s[i] \in Nat
      BY <3>1, LenProperties, ElementOfSeq
    <3>4. ASSUME NEW i \in DOMAIN s, NEW j \in DOMAIN s, s[i] = s[j]
          PROVE  i = j
      <4>1. ~(i < j) /\ ~(j < i)
        BY <3>2, <3>3, <3>4 DEF Increasing
      <4> QED BY <3>3, <4>1
    <3> QED BY <3>4 DEF IsInjective, s
  <2>4. ASSUME io_changed = {}
        PROVE  due[c] \subseteq ToSet(given(c))
    <3>1. pending(f) = << >>
      <4>1. f \notin DOMAIN m_filters \cup Special => pending(f) = << >>
        BY DEF pending
      <4> QED BY <2>4, <4>1 DEF WatchInv, FilterSound
    <3> QED BY <2>2, <3>1, NoChanges
  <2> QED BY <2>3, <2>4
<1> QED BY <1>1, WatchInitial, WatchStep, PTL DEF WatchSpec

-----------------------------------------------------------------------------
\* A header is its fields.
LEMMA HeaderIs ==
  ASSUME NEW h, isHeader(h)
  PROVE  h = [parentHash |-> h.parentHash, number |-> h.number, author |-> h.author, timestamp |-> h.timestamp,
              transactions |-> h.transactions, stateRoot |-> h.stateRoot, seal |-> h.seal,
              m_hash |-> h.m_hash, m_hashWithout |-> h.m_hashWithout]
BY DEF isHeader

\* A header that gives no other hash gives its own.
LEMMA HashIsOwn ==
  ASSUME NEW h, ownHashes(h)
  PROVE  hash(h) = streamed(h, TRUE) /\ hashWithout(h) = streamed(h, FALSE)
BY DEF ownHashes, hash, hashWithout

\* What is hashed can be told from the hash.
LEMMA HashTells ==
  ASSUME NEW g, NEW h, streamed(g, TRUE) = streamed(h, TRUE) \/ streamed(g, FALSE) = streamed(h, FALSE)
  PROVE  /\ basicFields(g) = basicFields(h)
         /\ g.parentHash = h.parentHash /\ g.number = h.number /\ g.author = h.author /\ g.timestamp = h.timestamp
         /\ g.transactions = h.transactions /\ g.stateRoot = h.stateRoot
         /\ streamed(g, TRUE) = streamed(h, TRUE) => g.seal = h.seal
<1>1. basicFields(g) = basicFields(h)
  <2> HIDE DEF basicFields
  <2>1. \A x, y : <<x>> = <<y>> => x = y
    OBVIOUS
  <2>2. \A x, y, s, t : <<x, s>> = <<y, t>> => x = y
    OBVIOUS
  <2> QED BY <2>1, <2>2 DEF streamed
<1>2. streamed(g, TRUE) = streamed(h, TRUE) => g.seal = h.seal
  <2>1. \A x, y, s, t : <<x, s>> = <<y, t>> => s = t
    OBVIOUS
  <2> QED BY <2>1 DEF streamed
<1>3. \A a1, a2, a3, a4, a5, a6, b1, b2, b3, b4, b5, b6 :
        <<a1, a2, a3, a4, a5, a6>> = <<b1, b2, b3, b4, b5, b6>> =>
            a1 = b1 /\ a2 = b2 /\ a3 = b3 /\ a4 = b4 /\ a5 = b5 /\ a6 = b6
  OBVIOUS
<1> QED BY <1>1, <1>2, <1>3, Zenon DEF basicFields

\* Two blocks of the chain with the same hash are the same.
LEMMA HashIsUnique ==
  ASSUME NEW g, NEW h, isRead(g), isRead(h), hash(g) = hash(h)
  PROVE  g = h
<1>1. ownHashes(g) /\ ownHashes(h)
  BY DEF isRead, ownHashes
<1>2. streamed(g, TRUE) = streamed(h, TRUE)
  BY <1>1, HashIsOwn
<1>3. /\ g.parentHash = h.parentHash /\ g.number = h.number /\ g.author = h.author /\ g.timestamp = h.timestamp
      /\ g.transactions = h.transactions /\ g.stateRoot = h.stateRoot /\ g.seal = h.seal
  BY <1>2, HashTells
<1>4. g.m_hash = h.m_hash /\ g.m_hashWithout = h.m_hashWithout
  BY <1>2 DEF isRead
<1>5. isHeader(g) /\ isHeader(h)
  BY DEF isRead
<1> QED BY <1>3, <1>4, <1>5, HeaderIs, Zenon

\* Reading a header from its RLP.
LEMMA ReadIs ==
  ASSUME NEW h, isHeader(h)
  PROVE  /\ isHeader(read(h)) /\ read(h).m_hash = streamed(read(h), TRUE) /\ read(h).m_hashWithout = NoHash
         /\ basicFields(read(h)) = basicFields(h) /\ read(h).seal = h.seal
<1> DEFINE code == streamed(h, TRUE)
           g == [h EXCEPT !.m_hash = code, !.m_hashWithout = NoHash]
<1>1. g = read(h)
  BY DEF read
<1> HIDE DEF code
<1>2. /\ g.parentHash = h.parentHash /\ g.number = h.number /\ g.author = h.author /\ g.timestamp = h.timestamp
      /\ g.transactions = h.transactions /\ g.stateRoot = h.stateRoot /\ g.seal = h.seal
      /\ g.m_hash = code /\ g.m_hashWithout = NoHash
  BY DEF isHeader
<1>3. g \in [parentHash : {h.parentHash}, number : Nat, author : {h.author}, timestamp : Nat, transactions : Nat,
             stateRoot : Nat, seal : {h.seal}, m_hash : {code}, m_hashWithout : {NoHash}]
  BY DEF isHeader
<1> HIDE DEF g
<1>4. isHeader(g)
  BY <1>2, <1>3 DEF isHeader
<1>5. basicFields(g) = basicFields(h)
  BY <1>2 DEF basicFields
<1>6. streamed(g, TRUE) = code
  BY <1>2, <1>5 DEF streamed, code
<1> QED BY <1>1, <1>2, <1>4, <1>5, <1>6

\* What a seal is put into.
LEMMA SealedIs ==
  ASSUME NEW h, isHeader(h), NEW s
  PROVE  /\ isHeader([h EXCEPT !.seal = s])
         /\ basicFields([h EXCEPT !.seal = s]) = basicFields(h)
<1> DEFINE g == [h EXCEPT !.seal = s]
<1>1. /\ g.parentHash = h.parentHash /\ g.number = h.number /\ g.author = h.author /\ g.timestamp = h.timestamp
      /\ g.transactions = h.transactions /\ g.stateRoot = h.stateRoot /\ g.seal = s
      /\ g.m_hash = h.m_hash /\ g.m_hashWithout = h.m_hashWithout
  BY DEF isHeader
<1>2. g \in [parentHash : {h.parentHash}, number : Nat, author : {h.author}, timestamp : Nat, transactions : Nat,
             stateRoot : Nat, seal : {s}, m_hash : {h.m_hash}, m_hashWithout : {h.m_hashWithout}]
  BY DEF isHeader
<1> HIDE DEF g
<1>3. isHeader(g) /\ basicFields(g) = basicFields(h)
  BY <1>1, <1>2 DEF isHeader, basicFields
<1> QED BY <1>3 DEF g

\* A hash that was remembered is only computed again.
LEMMA HashedIs ==
  ASSUME NEW h, isRead(h)
  PROVE  hash(h) = h.m_hash /\ ownHashes(h) /\ hashed(h) = h
<1>1. ownHashes(h)
  BY DEF isRead, ownHashes
<1>2. hash(h) = h.m_hash
  BY <1>1, HashIsOwn DEF isRead
<1>3. [h EXCEPT !.m_hash = h.m_hash] = h
  BY DEF isRead, isHeader
<1> QED BY <1>1, <1>2, <1>3 DEF hashed

\* noteDirty forgets both hashes.
LEMMA DirtyIs ==
  ASSUME NEW h, isHeader(h)
  PROVE  /\ isHeader(noteDirty(h)) /\ noteDirty(h).m_hash = NoHash /\ noteDirty(h).m_hashWithout = NoHash
         /\ noteDirty(h).parentHash = h.parentHash /\ noteDirty(h).number = h.number /\ noteDirty(h).author = h.author
         /\ noteDirty(h).timestamp = h.timestamp /\ noteDirty(h).transactions = h.transactions
         /\ noteDirty(h).stateRoot = h.stateRoot /\ noteDirty(h).seal = h.seal
         /\ ownHashes(noteDirty(h))
<1> DEFINE g == [h EXCEPT !.m_hash = NoHash, !.m_hashWithout = NoHash]
<1>1. g = noteDirty(h)
  BY DEF noteDirty
<1>2. /\ g.parentHash = h.parentHash /\ g.number = h.number /\ g.author = h.author /\ g.timestamp = h.timestamp
      /\ g.transactions = h.transactions /\ g.stateRoot = h.stateRoot /\ g.seal = h.seal
      /\ g.m_hash = NoHash /\ g.m_hashWithout = NoHash
  BY DEF isHeader
<1>3. g \in [parentHash : {h.parentHash}, number : Nat, author : {h.author}, timestamp : Nat, transactions : Nat,
             stateRoot : Nat, seal : {h.seal}, m_hash : {NoHash}, m_hashWithout : {NoHash}]
  BY DEF isHeader
<1> HIDE DEF g
<1>4. isHeader(g) /\ ownHashes(g)
  BY <1>2, <1>3 DEF isHeader, ownHashes
<1> QED BY <1>1, <1>2, <1>4

\* A header after p: its author, time, roots and parent's hash are set.
HeaderAfter(g, author, timestamp, p) ==
    /\ isHeader(g) /\ ownHashes(g)
    /\ g.author = author /\ g.timestamp = timestamp /\ g.transactions = 0
    /\ g.stateRoot = p.stateRoot /\ g.number = p.number + 1 /\ g.parentHash = p.m_hash

\* resetCurrent makes a header after the block's previous one.
LEMMA NewHeaderIs ==
  ASSUME NEW author, NEW timestamp \in Nat, NEW p, isHeader(p)
  PROVE  HeaderAfter(populateFromParent(setTimestamp(noteDirty([cleared EXCEPT !.author = author]), timestamp), p),
                     author, timestamp, p)
<1> DEFINE c == [cleared EXCEPT !.author = author]
           authored == noteDirty(c)
           d == [authored EXCEPT !.timestamp = timestamp]
           timed == noteDirty(d)
           g == [timed EXCEPT !.stateRoot = p.stateRoot, !.number = p.number + 1, !.parentHash = p.m_hash]
<1>1. isHeader(c) /\ c.author = author /\ c.transactions = 0
  BY DEF cleared, isHeader
<1> HIDE DEF c
<1>2. isHeader(authored) /\ authored.author = author /\ authored.transactions = 0
  BY <1>1, DirtyIs
<1> HIDE DEF authored
<1>3. isHeader(d) /\ d.author = author /\ d.transactions = 0 /\ d.timestamp = timestamp
  <2>1. d \in [parentHash : {authored.parentHash}, number : Nat, author : {author}, timestamp : Nat, transactions : Nat,
               stateRoot : Nat, seal : {authored.seal}, m_hash : {authored.m_hash}, m_hashWithout : {authored.m_hashWithout}]
    BY <1>2 DEF isHeader
  <2>2. /\ d.transactions = 0 /\ d.timestamp = timestamp /\ d.parentHash = authored.parentHash /\ d.seal = authored.seal
        /\ d.m_hash = authored.m_hash /\ d.m_hashWithout = authored.m_hashWithout /\ d.author = author
    BY <1>2 DEF isHeader
  <2> HIDE DEF d
  <2> QED BY <2>1, <2>2 DEF isHeader
<1> HIDE DEF d
<1>4. /\ isHeader(timed) /\ timed.author = author /\ timed.transactions = 0 /\ timed.timestamp = timestamp
      /\ timed.m_hash = NoHash /\ timed.m_hashWithout = NoHash
  BY <1>3, DirtyIs
<1> HIDE DEF timed
<1>5. p.stateRoot \in Nat /\ p.number + 1 \in Nat
  BY DEF isHeader
<1>6. /\ g.author = author /\ g.timestamp = timestamp /\ g.transactions = 0 /\ g.stateRoot = p.stateRoot
      /\ g.number = p.number + 1 /\ g.parentHash = p.m_hash /\ g.seal = timed.seal
      /\ g.m_hash = NoHash /\ g.m_hashWithout = NoHash
  BY <1>4 DEF isHeader
<1>7. g \in [parentHash : {p.m_hash}, number : Nat, author : {author}, timestamp : Nat, transactions : Nat,
             stateRoot : Nat, seal : {timed.seal}, m_hash : {NoHash}, m_hashWithout : {NoHash}]
  BY <1>4, <1>5 DEF isHeader
<1>8. populateFromParent(setTimestamp(noteDirty([cleared EXCEPT !.author = author]), timestamp), p) = g
  BY DEF populateFromParent, setTimestamp, timed, d, authored, c
<1> HIDE DEF g
<1>9. isHeader(g) /\ ownHashes(g)
  BY <1>6, <1>7 DEF isHeader, ownHashes
<1> QED BY <1>6, <1>8, <1>9 DEF HeaderAfter

\* ... and starts from its state.
LEMMA ResetIs ==
  ASSUME NEW b, isBlock(b), isHeader(b.previous)
  PROVE  LET r == resetHeader(b)
         IN  /\ isBlock(r) /\ r.previous = b.previous /\ r.author = b.author
             /\ r.state = b.previous.stateRoot /\ r.transactions = 0 /\ ~r.committed /\ ~r.sealed
             /\ isHeader(r.current) /\ ownHashes(r.current) /\ r.current.timestamp > 0
             /\ r.current.parentHash = b.previous.m_hash /\ r.current.stateRoot = b.previous.stateRoot
             /\ r.current.number = b.previous.number + 1
<1> DEFINE p == b.previous
           a == b.author
           h == populateFromParent(setTimestamp(noteDirty([cleared EXCEPT !.author = a]), p.timestamp + 1), p)
           r == [b EXCEPT !.current = h, !.transactions = 0, !.sealed = FALSE, !.state = p.stateRoot,
                          !.precommit = p.stateRoot, !.committed = FALSE]
<1>1. p.number \in Nat /\ p.timestamp \in Nat /\ p.stateRoot \in Nat /\ p.timestamp + 1 \in Nat
  BY DEF isHeader
<1>2. resetHeader(b) = r
  BY DEF resetHeader
<1>3. HeaderAfter(h, a, p.timestamp + 1, p)
  BY <1>1, NewHeaderIs
<1> HIDE DEF h
<1>4. /\ r.previous = p /\ r.author = a /\ r.state = p.stateRoot /\ r.transactions = 0 /\ r.committed = FALSE
      /\ r.sealed = FALSE /\ r.current = h
      /\ r \in [previous : {p}, current : {h}, state : Nat, precommit : Nat, transactions : Nat,
                committed : BOOLEAN, sealed : BOOLEAN, author : {a}]
  BY <1>1 DEF isBlock
<1> HIDE DEF r
<1>5. isBlock(r)
  BY <1>4 DEF isBlock
<1> QED BY <1>1, <1>2, <1>3, <1>4, <1>5 DEF HeaderAfter

\* The fields of a block.
LEMMA BlockParts ==
  ASSUME NEW b, isBlock(b)
  PROVE  /\ b.state \in Nat /\ b.precommit \in Nat /\ b.transactions \in Nat
         /\ b.committed \in BOOLEAN /\ b.sealed \in BOOLEAN
<1>1. b.state \in Nat /\ b.precommit \in Nat /\ b.transactions \in Nat
  BY DEF isBlock
<1>2. b.committed \in BOOLEAN /\ b.sealed \in BOOLEAN
  BY Zenon DEF isBlock
<1> QED BY <1>1, <1>2

\* The state before a commitment.
LEMMA UncommitIs ==
  ASSUME NEW b, NEW p, MadeOn(b, p)
  PROVE  LET open == IF b.committed THEN uncommit(b) ELSE [b EXCEPT !.precommit = b.state]
         IN  /\ isBlock(open) /\ open.state = p.stateRoot + b.transactions /\ open.precommit = open.state
             /\ open.transactions = b.transactions /\ open.current = b.current /\ open.previous = b.previous
             /\ ~open.committed /\ open.sealed = b.sealed /\ open.author = b.author
<1>1. isBlock(b) /\ b.state \in Nat /\ b.precommit \in Nat
  BY BlockParts DEF MadeOn
<1>2. CASE b.committed
  <2> DEFINE c == [b EXCEPT !.state = b.precommit, !.committed = FALSE]
  <2>1. uncommit(b) = c
    BY <1>2 DEF uncommit
  <2>2. /\ c.state = b.precommit /\ c.precommit = b.precommit /\ c.transactions = b.transactions
        /\ c.current = b.current /\ c.previous = b.previous /\ c.committed = FALSE /\ c.sealed = b.sealed
        /\ c.author = b.author
    BY <1>1 DEF isBlock
  <2>3. c \in [previous : {b.previous}, current : {b.current}, state : Nat, precommit : Nat, transactions : Nat,
               committed : BOOLEAN, sealed : BOOLEAN, author : {b.author}]
    BY <1>1 DEF isBlock
  <2> HIDE DEF c
  <2>4. isBlock(c)
    BY <2>2, <2>3 DEF isBlock
  <2>5. c.state = p.stateRoot + b.transactions
    BY <1>2, <2>2 DEF MadeOn
  <2> QED BY <1>2, <2>1, <2>2, <2>4, <2>5
<1>3. CASE ~b.committed
  <2> DEFINE c == [b EXCEPT !.precommit = b.state]
  <2>1. /\ c.state = b.state /\ c.precommit = b.state /\ c.transactions = b.transactions
        /\ c.current = b.current /\ c.previous = b.previous /\ c.committed = b.committed /\ c.sealed = b.sealed
        /\ c.author = b.author
    BY <1>1 DEF isBlock
  <2>2. c \in [previous : {b.previous}, current : {b.current}, state : Nat, precommit : Nat, transactions : Nat,
               committed : BOOLEAN, sealed : BOOLEAN, author : {b.author}]
    BY <1>1 DEF isBlock
  <2>5. c.state = p.stateRoot + b.transactions
    BY <1>3, <2>1 DEF MadeOn
  <2>6. (IF b.committed THEN uncommit(b) ELSE [b EXCEPT !.precommit = b.state]) = c
    BY <1>3
  <2> HIDE DEF c
  <2>4. isBlock(c)
    BY <2>1, <2>2 DEF isBlock
  <2> QED BY <1>3, <2>1, <2>4, <2>5, <2>6
<1> QED BY <1>2, <1>3

\* A transaction goes on from the state before a commitment.
LEMMA ExecuteOneIs ==
  ASSUME NEW b, NEW p, MadeOn(b, p), isHeader(p)
  PROVE  MadeOn(executeOne(b), p) /\ ~executeOne(b).committed
<1> DEFINE open == uncommit(b)
           state == open.state + 1
           transactions == open.transactions + 1
           c == [open EXCEPT !.state = state, !.transactions = transactions]
<1>1. isBlock(b) /\ b.state \in Nat /\ b.transactions \in Nat /\ p.stateRoot \in Nat
  BY BlockParts DEF MadeOn, isHeader
<1>2. /\ isBlock(open) /\ open.state = p.stateRoot + b.transactions /\ open.transactions = b.transactions
      /\ open.current = b.current /\ open.previous = b.previous /\ ~open.committed
  <2>1. CASE b.committed
    BY <2>1, UncommitIs
  <2>2. CASE ~b.committed
    BY <1>1, <2>2 DEF uncommit, MadeOn
  <2> QED BY <2>1, <2>2
<1>3. executeOne(b) = c
  BY DEF executeOne
<1> HIDE DEF open
<1>4. open.state \in Nat /\ open.transactions \in Nat /\ state \in Nat /\ transactions \in Nat
  <2>1. open.state \in Nat /\ open.transactions \in Nat
    BY <1>2, BlockParts
  <2> QED BY <2>1
<1> HIDE DEF state, transactions
<1>5. /\ c.state = state /\ c.transactions = transactions
      /\ c.current = open.current /\ c.previous = open.previous /\ c.committed = open.committed
      /\ c.author = open.author
  BY <1>2 DEF isBlock
<1>6. c \in [previous : {open.previous}, current : {open.current}, state : Nat, precommit : Nat, transactions : Nat,
             committed : BOOLEAN, sealed : BOOLEAN, author : {open.author}]
  BY <1>2, <1>4 DEF isBlock
<1> HIDE DEF c
<1>7. isBlock(c)
  BY <1>5, <1>6 DEF isBlock
<1>8. c.state = p.stateRoot + c.transactions
  BY <1>1, <1>2, <1>5 DEF state, transactions
<1> QED BY <1>2, <1>3, <1>5, <1>7, <1>8 DEF MadeOn

\* The header of a commitment.
LEMMA RootsAre ==
  ASSUME NEW h, isHeader(h), NEW transactions \in Nat, NEW stateRoot \in Nat, NEW parentHash
  PROVE  LET g == setParentHash(setRoots(h, transactions, stateRoot), parentHash)
         IN  /\ isHeader(g) /\ ownHashes(g) /\ g.parentHash = parentHash /\ g.timestamp = h.timestamp
             /\ g.transactions = transactions /\ g.stateRoot = stateRoot /\ g.m_hashWithout = NoHash
<1> DEFINE c == [h EXCEPT !.transactions = transactions, !.stateRoot = stateRoot]
           d == noteDirty(c)
           e == [d EXCEPT !.parentHash = parentHash]
<1>1. /\ c.transactions = transactions /\ c.stateRoot = stateRoot /\ c.timestamp = h.timestamp
      /\ c.parentHash = h.parentHash /\ c.author = h.author /\ c.seal = h.seal /\ c.m_hash = h.m_hash
      /\ c.m_hashWithout = h.m_hashWithout
  BY DEF isHeader
<1>2. c \in [parentHash : {h.parentHash}, number : Nat, author : {h.author}, timestamp : Nat, transactions : Nat,
             stateRoot : Nat, seal : {h.seal}, m_hash : {h.m_hash}, m_hashWithout : {h.m_hashWithout}]
  BY DEF isHeader
<1> HIDE DEF c
<1>3. isHeader(c)
  BY <1>1, <1>2 DEF isHeader
<1>4. isHeader(d) /\ d.transactions = transactions /\ d.stateRoot = stateRoot /\ d.timestamp = h.timestamp
  BY <1>1, <1>3, DirtyIs
<1> HIDE DEF d
<1>5. /\ e.transactions = transactions /\ e.stateRoot = stateRoot /\ e.timestamp = h.timestamp
      /\ e.parentHash = parentHash /\ e.author = d.author /\ e.seal = d.seal /\ e.m_hash = d.m_hash
      /\ e.m_hashWithout = d.m_hashWithout
  BY <1>4 DEF isHeader
<1>6. e \in [parentHash : {parentHash}, number : Nat, author : {d.author}, timestamp : Nat, transactions : Nat,
             stateRoot : Nat, seal : {d.seal}, m_hash : {d.m_hash}, m_hashWithout : {d.m_hashWithout}]
  BY <1>4 DEF isHeader
<1> HIDE DEF e
<1>7. isHeader(e)
  BY <1>5, <1>6 DEF isHeader
<1>8. setParentHash(setRoots(h, transactions, stateRoot), parentHash) = noteDirty(e)
  BY DEF setParentHash, setRoots, e, d, c
<1>9. /\ isHeader(noteDirty(e)) /\ ownHashes(noteDirty(e)) /\ noteDirty(e).parentHash = parentHash
      /\ noteDirty(e).timestamp = h.timestamp /\ noteDirty(e).m_hashWithout = NoHash
      /\ noteDirty(e).transactions = transactions /\ noteDirty(e).stateRoot = stateRoot
  BY <1>5, <1>7, DirtyIs
<1> QED BY <1>8, <1>9

\* commitToSeal puts the roots and the parent's hash into the header.
LEMMA CommittingIs ==
  ASSUME NEW b, NEW p, MadeOn(b, p), isRead(p)
  PROVE  MadeOn(committing(b), p) /\ committing(b).committed
<1> DEFINE open == IF b.committed THEN uncommit(b) ELSE [b EXCEPT !.precommit = b.state]
           state == open.state + rewarded
           h == setParentHash(setRoots(open.current, b.transactions, state), hash(b.previous))
           before == hashed(open.previous)
           c == [open EXCEPT !.state = state, !.previous = before, !.committed = TRUE, !.current = h]
<1>1. /\ isBlock(open) /\ open.state = p.stateRoot + b.transactions /\ open.precommit = open.state
      /\ open.transactions = b.transactions /\ open.current = b.current /\ open.previous = b.previous
  BY UncommitIs
<1>2. committing(b) = c
  BY DEF committing
<1> HIDE DEF open
<1>3. open.state \in Nat /\ open.transactions \in Nat /\ b.transactions \in Nat /\ state \in Nat
  <2>1. open.state \in Nat /\ open.transactions \in Nat
    BY <1>1, BlockParts
  <2> QED BY <1>1, <2>1, HeadersAssumption
<1>4. b.previous = p /\ isHeader(open.current) /\ open.current.timestamp > 0
  BY <1>1 DEF MadeOn
<1>5. before = p
  BY <1>1, <1>4, HashedIs
<1> HIDE DEF state, before
<1>6. /\ isHeader(h) /\ ownHashes(h) /\ h.parentHash = hash(p) /\ h.timestamp > 0
      /\ h.transactions = b.transactions /\ h.stateRoot = state
  BY <1>3, <1>4, RootsAre
<1> HIDE DEF h
<1>7. /\ c.state = state /\ c.previous = before /\ c.committed = TRUE /\ c.current = h
      /\ c.transactions = open.transactions /\ c.precommit = open.precommit /\ c.author = open.author
  BY <1>1 DEF isBlock
<1>8. c \in [previous : {before}, current : {h}, state : Nat, precommit : Nat, transactions : Nat,
             committed : BOOLEAN, sealed : BOOLEAN, author : {open.author}]
  BY <1>1, <1>3 DEF isBlock
<1> HIDE DEF c
<1>9. isBlock(c)
  BY <1>7, <1>8 DEF isBlock
<1>10. MadeOn(c, p)
  BY <1>1, <1>5, <1>6, <1>7, <1>9 DEF MadeOn, state
<1> QED BY <1>2, <1>7, <1>10

\* A Block that follows a head is made on it.
LEMMA FollowIs ==
  ASSUME NEW b, isBlock(b), NEW h, isRead(h), ~equals(h, b.current), ~equals(h, b.previous)
  PROVE  /\ MadeOn(follow(b, h), h) /\ ~follow(b, h).committed /\ follow(b, h).transactions = 0
         /\ follow(b, h).state = h.stateRoot /\ follow(b, h).current.stateRoot = h.stateRoot
         /\ follow(b, h).author = b.author
<1> DEFINE c == [b EXCEPT !.previous = h]
           r == resetHeader(c)
<1>1. follow(b, h) = r
  BY DEF follow
<1>2. /\ c.previous = h /\ c.current = b.current /\ c.author = b.author
      /\ c \in [previous : {h}, current : {b.current}, state : Nat, precommit : Nat, transactions : Nat,
                committed : BOOLEAN, sealed : BOOLEAN, author : {b.author}]
  BY DEF isBlock
<1> HIDE DEF c
<1>3. isBlock(c) /\ isHeader(c.previous)
  BY <1>2 DEF isBlock, isRead
<1>4. /\ isBlock(r) /\ r.previous = c.previous /\ r.author = c.author
      /\ r.state = c.previous.stateRoot /\ r.transactions = 0 /\ ~r.committed
      /\ isHeader(r.current) /\ ownHashes(r.current) /\ r.current.timestamp > 0
      /\ r.current.parentHash = c.previous.m_hash /\ r.current.stateRoot = c.previous.stateRoot
  BY <1>3, ResetIs
<1> HIDE DEF r
<1>5. hash(h) = h.m_hash /\ h.stateRoot \in Nat
  BY HashedIs DEF isRead, isHeader
<1>6. r.state = h.stateRoot + r.transactions
  BY <1>2, <1>4, <1>5
<1>7. MadeOn(r, h)
  BY <1>2, <1>4, <1>5, <1>6 DEF MadeOn
<1> QED BY <1>1, <1>2, <1>4, <1>7

\* ... as is a new one.
LEMMA FreshIs ==
  ASSUME NEW a, NEW h, isRead(h)
  PROVE  /\ MadeOn(follow(emptyBlock(a), h), h) /\ ~follow(emptyBlock(a), h).committed
         /\ follow(emptyBlock(a), h).transactions = 0
         /\ follow(emptyBlock(a), h).state = h.stateRoot /\ follow(emptyBlock(a), h).current.stateRoot = h.stateRoot
<1> DEFINE b == emptyBlock(a)
<1>1. isBlock(b) /\ b.current = cleared /\ b.previous = cleared
  BY DEF emptyBlock, isBlock
<1>2. ~equals(h, cleared)
  <2>1. cleared.timestamp = 0 /\ h.timestamp > 0 /\ h.timestamp \in Nat
    BY DEF cleared, isRead, isHeader
  <2>2. h.timestamp # cleared.timestamp
    BY <2>1
  <2>3. equals(h, cleared) => streamed(h, FALSE) = streamed(cleared, FALSE)
    BY DEF equals, streamed
  <2> QED BY <2>2, <2>3, HashTells
<1> HIDE DEF b
<1>3. /\ MadeOn(follow(b, h), h) /\ ~follow(b, h).committed /\ follow(b, h).transactions = 0
      /\ follow(b, h).state = h.stateRoot /\ follow(b, h).current.stateRoot = h.stateRoot
  BY <1>1, <1>2, FollowIs
<1> QED BY <1>3 DEF b

\* The block that played h back.
LEMMA EnactIs ==
  ASSUME NEW b, NEW p, isBlock(b), b.previous = p, isRead(p), b.current.parentHash = hash(p), b.state = p.stateRoot,
         NEW h, isRead(h), follows(h, p)
  PROVE  /\ enact(b, h).ok
         /\ isBlock(enact(b, h).block) /\ enact(b, h).block.current = h /\ enact(b, h).block.previous = p
         /\ enact(b, h).block.transactions = h.transactions
<1> DEFINE before == hashed(b.previous)
           state == h.stateRoot
           transactions == h.transactions
           c == [b EXCEPT !.current = h, !.previous = before, !.state = state, !.transactions = transactions]
<1>1. enact(b, h).block = c /\ enact(b, h).ok = (b.current.parentHash = hash(b.previous)
                                                 /\ h.stateRoot = b.state + h.transactions + rewarded)
  BY DEF enact
<1>2. before = p /\ state \in Nat /\ transactions \in Nat
  BY HashedIs DEF isRead, isHeader
<1>3. enact(b, h).ok
  BY <1>1 DEF follows
<1> HIDE DEF before, state, transactions
<1>4. /\ c.current = h /\ c.previous = before /\ c.transactions = transactions /\ c.author = b.author
      /\ c \in [previous : {before}, current : {h}, state : Nat, precommit : Nat, transactions : Nat,
                committed : BOOLEAN, sealed : BOOLEAN, author : {b.author}]
  BY <1>2 DEF isBlock
<1> HIDE DEF c
<1>5. isBlock(c)
  BY <1>4 DEF isBlock
<1> QED BY <1>1, <1>2, <1>3, <1>4, <1>5 DEF transactions

\* A block of the chain has one parent.
LEMMA ParentIs ==
  ASSUME ChainFollows, NEW h, NEW p \in imported, follows(h, p)
  PROVE  parentOf(h) = p
<1>1. \E q \in imported : hash(q) = h.parentHash
  BY DEF follows
<1>2. parentOf(h) \in imported /\ hash(parentOf(h)) = h.parentHash
  BY <1>1 DEF parentOf
<1>3. isRead(parentOf(h)) /\ isRead(p)
  BY <1>2 DEF ChainFollows
<1> QED BY <1>2, <1>3, HashIsUnique DEF follows

\* enactOn plays it back on that one.
LEMMA PlayedBackIs ==
  ASSUME ChainFollows, NEW h, isRead(h), NEW p \in imported, follows(h, p)
  PROVE  /\ playedBack(h).ok /\ isBlock(playedBack(h).block) /\ playedBack(h).block.current = h
         /\ enact([follow(emptyBlock("none"), parentOf(h)) EXCEPT !.author = h.author], h).ok
         /\ enact([follow(emptyBlock("none"), parentOf(h)) EXCEPT !.author = h.author], h).block.previous = p
         /\ enact([follow(emptyBlock("none"), parentOf(h)) EXCEPT !.author = h.author], h).block.transactions = h.transactions
<1> DEFINE f == follow(emptyBlock("none"), p)
           r == resetHeader(f)
           c == [r EXCEPT !.previous = p]
           a == h.author
           d == [f EXCEPT !.author = a]
<1>1. parentOf(h) = p
  BY ParentIs
<1>2. isRead(p)
  BY DEF ChainFollows
<1>3. /\ isBlock(f) /\ f.previous = p /\ f.current.parentHash = hash(p) /\ f.state = p.stateRoot
  BY <1>2, FreshIs DEF MadeOn
<1> HIDE DEF f, a
<1>4. isHeader(f.previous)
  BY <1>2, <1>3 DEF isRead
<1>5. /\ isBlock(r) /\ r.previous = p /\ r.state = p.stateRoot /\ r.current.parentHash = p.m_hash
  BY <1>3, <1>4, ResetIs
<1> HIDE DEF r
<1>6. c.previous = p /\ c.current = r.current /\ c.state = r.state /\ isBlock(c)
  <2>1. /\ c.previous = p /\ c.current = r.current /\ c.state = r.state /\ c.author = r.author
        /\ c \in [previous : {p}, current : {r.current}, state : Nat, precommit : Nat, transactions : Nat,
                  committed : BOOLEAN, sealed : BOOLEAN, author : {r.author}]
    BY <1>5 DEF isBlock
  <2> HIDE DEF c
  <2> QED BY <2>1 DEF isBlock
<1>7. d.previous = p /\ d.current = f.current /\ d.state = f.state /\ isBlock(d)
  <2>1. /\ d.previous = f.previous /\ d.current = f.current /\ d.state = f.state /\ d.author = a
        /\ d \in [previous : {f.previous}, current : {f.current}, state : Nat, precommit : Nat, transactions : Nat,
                  committed : BOOLEAN, sealed : BOOLEAN, author : {a}]
    BY <1>3 DEF isBlock
  <2> HIDE DEF d
  <2> QED BY <1>3, <2>1 DEF isBlock
<1>8. hash(p) = p.m_hash
  BY <1>2, HashedIs
<1>9. playedBack(h) = enact(c, h)
  BY <1>1 DEF playedBack, c, r, f
<1> HIDE DEF c
<1>10. enact(c, h).ok /\ isBlock(enact(c, h).block) /\ enact(c, h).block.current = h
  BY <1>2, <1>5, <1>6, <1>8, EnactIs
<1>11. [follow(emptyBlock("none"), parentOf(h)) EXCEPT !.author = h.author] = d
  BY <1>1 DEF d, f, a
<1> HIDE DEF d
<1>12. enact(d, h).ok /\ enact(d, h).block.previous = p /\ enact(d, h).block.transactions = h.transactions
  BY <1>2, <1>3, <1>7, EnactIs
<1> QED BY <1>9, <1>10, <1>11, <1>12

\* The block after the one that was played back.
LEMMA CleanupIs ==
  ASSUME NEW b, isBlock(b), isRead(b.current)
  PROVE  LET r == cleanup(b)
         IN  ownHashes(r.previous) /\ ownHashes(r.current) /\ r.current.parentHash = hash(r.previous)
<1> DEFINE h == b.current
           next == populateFromParent(b.current, b.current)
           moved == [b EXCEPT !.previous = h, !.current = next]
           before == hashed(moved.previous)
           c == [moved EXCEPT !.previous = before]
<1>1. cleanup(b) = resetHeader(c)
  BY DEF cleanup
<1> HIDE DEF next
<1>2. /\ moved.previous = h /\ moved.current = next /\ moved.author = b.author
      /\ moved \in [previous : {h}, current : {next}, state : Nat, precommit : Nat, transactions : Nat,
                    committed : BOOLEAN, sealed : BOOLEAN, author : {b.author}]
  BY DEF isBlock
<1> HIDE DEF moved
<1>3. before = h
  BY <1>2, HashedIs
<1> HIDE DEF before
<1>4. /\ c.previous = before /\ c.current = next /\ c.author = b.author
      /\ c \in [previous : {before}, current : {next}, state : Nat, precommit : Nat, transactions : Nat,
                committed : BOOLEAN, sealed : BOOLEAN, author : {b.author}]
  BY <1>2
<1> HIDE DEF c
<1>5. isBlock(c) /\ isHeader(c.previous)
  BY <1>3, <1>4 DEF isBlock, isRead
<1>6. /\ resetHeader(c).previous = h /\ ownHashes(resetHeader(c).current)
      /\ resetHeader(c).current.parentHash = h.m_hash
  BY <1>3, <1>4, <1>5, ResetIs
<1>7. ownHashes(h) /\ hash(h) = h.m_hash
  BY HashedIs
<1> QED BY <1>1, <1>6, <1>7

\* Whatever is on the chain can be played back and asked for.
LEMMA ChainIsPlayable ==
  ASSUME ChainFollows, NEW h \in imported
  PROVE  /\ populateFromChain(h).ok /\ (h.number > 0 => playedBack(h).ok)
         /\ stateAfter(h, h.transactions) + (IF h.number > 0 THEN rewarded ELSE 0) = h.stateRoot
<1>1. isRead(h) /\ h.number \in Nat /\ h.transactions \in Nat /\ h.stateRoot \in Nat /\ rewarded \in Nat
  BY HeadersAssumption DEF ChainFollows, isRead, isHeader
<1>2. CASE h = genesis
  <2> DEFINE f == follow(emptyBlock("none"), h)
  <2>1. h.number = 0 /\ h.transactions = 0
    BY <1>2 DEF genesis, read, cleared
  <2>2. f.previous = h /\ f.transactions = 0
    BY <1>1, FreshIs DEF MadeOn
  <2>3. populateFromChain(h) = [ok |-> TRUE, block |-> f]
    BY <2>1 DEF populateFromChain
  <2> HIDE DEF f
  <2>4. stateAfter(h, h.transactions) = h.stateRoot
    BY <1>1, <2>1, <2>2, <2>3 DEF stateAfter, fromPending
  <2> QED BY <1>1, <2>1, <2>3, <2>4
<1>3. CASE h.number > 0 /\ \E p \in imported : follows(h, p)
  <2>1. PICK p \in imported : follows(h, p)
    BY <1>3
  <2> DEFINE d == enact([follow(emptyBlock("none"), parentOf(h)) EXCEPT !.author = h.author], h)
  <2>2. playedBack(h).ok /\ d.ok /\ d.block.previous = p /\ d.block.transactions = h.transactions
    BY <1>1, <2>1, PlayedBackIs
  <2>3. populateFromChain(h) = d
    BY <1>3 DEF populateFromChain
  <2> HIDE DEF d
  <2>4. p.stateRoot \in Nat
    BY DEF ChainFollows, isRead, isHeader
  <2>5. stateAfter(h, h.transactions) = p.stateRoot + h.transactions
    BY <1>1, <2>2, <2>3, <2>4 DEF stateAfter, fromPending
  <2>6. h.stateRoot = p.stateRoot + h.transactions + rewarded
    BY <2>1 DEF follows
  <2>7. stateAfter(h, h.transactions) + rewarded = h.stateRoot
    BY <2>5, <2>6
  <2> QED BY <1>3, <2>2, <2>3, <2>7
<1> QED BY <1>2, <1>3 DEF ChainFollows

\* What an import leaves alone.
SameChain == UNCHANGED <<imported, best, replayed>>

\* As long as no block is imported the chain stays, and with it what is said of
\* the blocks that are made on it.
LEMMA SameChainKeeps ==
  ASSUME HeadersInv, SameChain, MadeOn(working', best), UNCHANGED preSeal, isHeader(sealingInfo'),
         \A h \in enqueued' : isRead(h) /\ \E p \in imported : follows(h, p)
  PROVE  HeadersInv'
<1>1. ChainFollows'
  BY DEF HeadersInv, ChainFollows, SameChain
<1>2. UNCHANGED <<preSeal, best, replayed>>
  BY DEF SameChain
<1> QED BY <1>1, <1>2 DEF HeadersInv

\* A client that has just been started.
LEMMA HeadersInitial == HeadersInit => HeadersInv
<1> SUFFICES ASSUME HeadersInit
             PROVE  HeadersInv
  OBVIOUS
<1> DEFINE c == [cleared EXCEPT !.timestamp = 1]
<1>1. isHeader(cleared) /\ isHeader(c) /\ c.timestamp = 1
  BY DEF cleared, isHeader
<1> HIDE DEF c
<1>2. isRead(genesis)
  <2>1. /\ isHeader(genesis) /\ genesis.m_hash = streamed(genesis, TRUE) /\ genesis.m_hashWithout = NoHash
        /\ basicFields(genesis) = basicFields(c)
    BY <1>1, ReadIs DEF genesis, c
  <2>2. genesis.timestamp = c.timestamp
    <3>1. streamed(genesis, FALSE) = streamed(c, FALSE)
      BY <2>1 DEF streamed
    <3> QED BY <3>1, HashTells
  <2> QED BY <1>1, <2>1, <2>2 DEF isRead
<1>3. ChainFollows
  BY <1>2 DEF HeadersInit, ChainFollows
<1>4. /\ MadeOn(follow(emptyBlock("us"), genesis), genesis) /\ ~follow(emptyBlock("us"), genesis).committed
      /\ follow(emptyBlock("us"), genesis).transactions = 0
      /\ follow(emptyBlock("us"), genesis).current.stateRoot = genesis.stateRoot
  BY <1>2, FreshIs
<1>5. ownHashes(cleared) /\ cleared.number = 0
  BY DEF cleared, ownHashes
<1>6. replayed.previous = cleared /\ replayed.current = cleared
  BY DEF HeadersInit, emptyBlock
<1> QED BY <1>1, <1>3, <1>4, <1>5, <1>6 DEF HeadersInv, HeadersInit

\* A transaction is executed on the working block.
LEMMA ExecuteKeepsHeaders ==
  ASSUME HeadersInv, ExecuteTransaction
  PROVE  HeadersInv'
<1>1. SameChain /\ UNCHANGED <<preSeal, sealingInfo, enqueued>> /\ working' = executeOne(working)
  BY DEF ExecuteTransaction, ledgerOfHeaders, SameChain
<1>2. isHeader(best)
  BY DEF HeadersInv, ChainFollows, isRead
<1>3. MadeOn(working', best)
  BY <1>1, <1>2, ExecuteOneIs DEF HeadersInv
<1> QED BY <1>1, <1>3, SameChainKeeps DEF HeadersInv, ChainFollows

\* The time of the working block is set, and its hashes are forgotten.
LEMMA ResetTimeKeeps ==
  ASSUME HeadersInv, ResetTime
  PROVE  HeadersInv'
<1> DEFINE t == working.previous.timestamp + 2
           h == [working.current EXCEPT !.timestamp = t]
           g == noteDirty(h)
           c == [working EXCEPT !.current = g]
<1>1. SameChain /\ UNCHANGED <<preSeal, sealingInfo, enqueued>> /\ working' = c
  BY DEF ResetTime, ledgerOfHeaders, SameChain, resetCurrentTime, setTimestamp
<1>2. t \in Nat /\ t > 0
  <2>1. working.previous = best /\ best \in imported
    BY DEF HeadersInv, MadeOn, ChainFollows
  <2>2. isRead(best)
    BY <2>1 DEF HeadersInv, ChainFollows
  <2>3. best.timestamp \in Nat
    BY <2>2 DEF isRead, isHeader
  <2> QED BY <2>1, <2>3
<1>3. isBlock(working) /\ isHeader(working.current) /\ working.current.parentHash = hash(best)
  BY DEF HeadersInv, MadeOn
<1> HIDE DEF t
<1>4. /\ isHeader(h) /\ h.parentHash = working.current.parentHash /\ h.timestamp = t
      /\ h.transactions = working.current.transactions /\ h.stateRoot = working.current.stateRoot
  <2>1. /\ h.parentHash = working.current.parentHash /\ h.timestamp = t
        /\ h.transactions = working.current.transactions /\ h.stateRoot = working.current.stateRoot
        /\ h.author = working.current.author /\ h.seal = working.current.seal
        /\ h.m_hash = working.current.m_hash /\ h.m_hashWithout = working.current.m_hashWithout
    BY <1>3 DEF isHeader
  <2>2. h \in [parentHash : {working.current.parentHash}, number : Nat, author : {working.current.author},
               timestamp : Nat, transactions : Nat, stateRoot : Nat, seal : {working.current.seal},
               m_hash : {working.current.m_hash}, m_hashWithout : {working.current.m_hashWithout}]
    BY <1>2, <1>3 DEF isHeader
  <2> HIDE DEF h
  <2>3. isHeader(h)
    BY <2>1, <2>2 DEF isHeader
  <2> QED BY <2>1, <2>3
<1> HIDE DEF h
<1>5. /\ isHeader(g) /\ ownHashes(g) /\ g.timestamp > 0 /\ g.parentHash = hash(best)
      /\ g.transactions = working.current.transactions /\ g.stateRoot = working.current.stateRoot
  BY <1>2, <1>3, <1>4, DirtyIs
<1> HIDE DEF g
<1>6. /\ c.current = g /\ c.previous = working.previous /\ c.state = working.state /\ c.precommit = working.precommit
      /\ c.transactions = working.transactions /\ c.committed = working.committed /\ c.author = working.author
      /\ c \in [previous : {working.previous}, current : {g}, state : Nat, precommit : Nat, transactions : Nat,
                committed : BOOLEAN, sealed : BOOLEAN, author : {working.author}]
  BY <1>3 DEF isBlock
<1> HIDE DEF c
<1>7. isBlock(c)
  BY <1>6 DEF isBlock
<1>8. MadeOn(c, best)
  BY <1>5, <1>6, <1>7 DEF HeadersInv, MadeOn
<1> QED BY <1>1, <1>8, SameChainKeeps DEF HeadersInv, ChainFollows

\* A hash that is computed is remembered, and is the header's own.
LEMMA HashedWithoutIs ==
  ASSUME NEW h, isHeader(h)
  PROVE  /\ isHeader(hashedWithout(h)) /\ basicFields(hashedWithout(h)) = basicFields(h)
         /\ ownHashes(h) => ownHashes(hashedWithout(h))
<1> DEFINE code == hashWithout(h)
           g == [h EXCEPT !.m_hashWithout = code]
<1>1. hashedWithout(h) = g
  BY DEF hashedWithout
<1> HIDE DEF code
<1>2. /\ g.parentHash = h.parentHash /\ g.number = h.number /\ g.author = h.author /\ g.timestamp = h.timestamp
      /\ g.transactions = h.transactions /\ g.stateRoot = h.stateRoot /\ g.seal = h.seal
      /\ g.m_hash = h.m_hash /\ g.m_hashWithout = code
      /\ g \in [parentHash : {h.parentHash}, number : Nat, author : {h.author}, timestamp : Nat, transactions : Nat,
                stateRoot : Nat, seal : {h.seal}, m_hash : {h.m_hash}, m_hashWithout : {code}]
  BY DEF isHeader
<1> HIDE DEF g
<1>3. isHeader(g) /\ basicFields(g) = basicFields(h)
  BY <1>2 DEF isHeader, basicFields
<1>4. streamed(g, TRUE) = streamed(h, TRUE) /\ streamed(g, FALSE) = streamed(h, FALSE)
  BY <1>2, <1>3 DEF streamed
<1>5. ownHashes(h) => code = streamed(h, FALSE)
  BY HashIsOwn DEF code
<1>6. ownHashes(h) => ownHashes(g)
  BY <1>2, <1>4, <1>5 DEF ownHashes
<1> QED BY <1>1, <1>3, <1>6

\* The working block is committed and its header handed out.
LEMMA RejigKeeps ==
  ASSUME HeadersInv, RejigHeader
  PROVE  HeadersInv'
<1> DEFINE c == committing(working)
<1>1. SameChain /\ UNCHANGED <<preSeal, enqueued>> /\ working' = c /\ sealingInfo' = hashedWithout(c.current)
  BY DEF RejigHeader, ledgerOfHeaders, SameChain
<1>2. isRead(best) /\ MadeOn(working, best)
  BY DEF HeadersInv, ChainFollows
<1>3. MadeOn(c, best)
  BY <1>2, CommittingIs
<1> HIDE DEF c
<1>4. isHeader(sealingInfo')
  BY <1>1, <1>3, HashedWithoutIs DEF MadeOn
<1> QED BY <1>1, <1>3, <1>4, SameChainKeeps DEF HeadersInv, ChainFollows

\* A sealed header is taken if it is that of the working block.
LEMMA SubmitKeeps ==
  ASSUME HeadersInv, NEW s, SubmitSeal(s)
  PROVE  HeadersInv'
<1> DEFINE open == [sealingInfo EXCEPT !.seal = s]
           h == read(open)
           g == read(h)
           w == working.current
<1>1. /\ SameChain /\ UNCHANGED <<preSeal, sealingInfo>> /\ working' = sealing(working, h)
      /\ enqueued' = IF accepts(working, h) THEN enqueued \cup {g} ELSE enqueued
  BY DEF SubmitSeal, SameChain
<1>2. isHeader(open)
  BY SealedIs DEF HeadersInv
<1> HIDE DEF open
<1>3. isHeader(h) /\ h.m_hash = streamed(h, TRUE) /\ h.m_hashWithout = NoHash
  BY <1>2, ReadIs
<1> HIDE DEF h
<1>4. isHeader(g) /\ g.m_hash = streamed(g, TRUE) /\ g.m_hashWithout = NoHash /\ basicFields(g) = basicFields(h)
  BY <1>3, ReadIs
<1>5. g = read(h)
  OBVIOUS
<1> HIDE DEF g
<1>6. MadeOn(working, best) /\ isBlock(working) /\ isHeader(w) /\ ownHashes(w) /\ isRead(best)
  BY DEF HeadersInv, MadeOn, ChainFollows
<1>7. CASE accepts(working, h)
  <2>1. working.committed /\ hashWithout(h) = hashWithout(w)
    BY <1>7 DEF accepts
  <2>2. ownHashes(h) /\ ownHashes(g)
    BY <1>3, <1>4 DEF ownHashes
  <2>3. streamed(h, FALSE) = streamed(w, FALSE)
    BY <1>6, <2>1, <2>2, HashIsOwn
  <2>4. streamed(g, FALSE) = streamed(w, FALSE)
    BY <1>4, <2>3 DEF streamed
  <2>5. /\ g.parentHash = w.parentHash /\ g.timestamp = w.timestamp
        /\ g.transactions = w.transactions /\ g.stateRoot = w.stateRoot
    BY <2>4, HashTells
  <2>6. isRead(g)
    BY <1>4, <1>6, <2>5 DEF isRead, MadeOn
  <2>7. follows(g, best)
    BY <1>6, <2>1, <2>5 DEF MadeOn, follows
  <2> DEFINE c == [working EXCEPT !.current = g, !.sealed = TRUE, !.state = working.precommit]
  <2>8. working' = c
    BY <1>1, <1>5, <1>7 DEF sealing
  <2>9. /\ c.current = g /\ c.previous = working.previous /\ c.precommit = working.precommit
        /\ c.transactions = working.transactions /\ c.committed = working.committed /\ c.author = working.author
        /\ c \in [previous : {working.previous}, current : {g}, state : Nat, precommit : Nat, transactions : Nat,
                  committed : BOOLEAN, sealed : BOOLEAN, author : {working.author}]
    BY <1>6 DEF isBlock
  <2> HIDE DEF c
  <2>10. isBlock(c)
    BY <2>9 DEF isBlock
  <2>11. MadeOn(c, best)
    BY <1>4, <1>6, <2>1, <2>2, <2>5, <2>9, <2>10 DEF MadeOn
  <2>12. best \in imported /\ \A q \in enqueued : isRead(q) /\ \E p \in imported : follows(q, p)
    BY DEF HeadersInv, ChainFollows
  <2>13. \A q \in enqueued' : isRead(q) /\ \E p \in imported : follows(q, p)
    BY <1>1, <1>7, <2>6, <2>7, <2>12
  <2> QED BY <1>1, <2>8, <2>11, <2>13, SameChainKeeps DEF HeadersInv
<1>8. CASE ~accepts(working, h)
  <2> DEFINE next == IF working.committed THEN hashedWithout(w) ELSE w
             c == [working EXCEPT !.current = next]
  <2>1. working' = c
    BY <1>1, <1>8 DEF sealing
  <2>2. isHeader(next) /\ ownHashes(next) /\ streamed(next, FALSE) = streamed(w, FALSE)
    BY <1>6, HashedWithoutIs DEF streamed
  <2>3. /\ next.parentHash = w.parentHash /\ next.timestamp = w.timestamp
        /\ next.transactions = w.transactions /\ next.stateRoot = w.stateRoot
    <3> HIDE DEF next
    <3> QED BY <2>2, HashTells
  <2> HIDE DEF next
  <2>4. /\ c.current = next /\ c.previous = working.previous /\ c.precommit = working.precommit /\ c.state = working.state
        /\ c.transactions = working.transactions /\ c.committed = working.committed /\ c.author = working.author
        /\ c \in [previous : {working.previous}, current : {next}, state : Nat, precommit : Nat, transactions : Nat,
                  committed : BOOLEAN, sealed : BOOLEAN, author : {working.author}]
    BY <1>6 DEF isBlock
  <2> HIDE DEF c
  <2>5. isBlock(c)
    BY <2>4 DEF isBlock
  <2>6. MadeOn(c, best)
    BY <1>6, <2>2, <2>3, <2>4, <2>5 DEF MadeOn
  <2> QED BY <1>1, <1>8, <2>1, <2>6, SameChainKeeps DEF HeadersInv, ChainFollows
<1> QED BY <1>7, <1>8

\* A copy of a Block that is not committed.
LEMMA CopiedIs ==
  ASSUME NEW b, NEW p, MadeOn(b, p), ~b.committed
  PROVE  /\ MadeOn(copied(b), p) /\ ~copied(b).committed /\ copied(b).transactions = b.transactions
         /\ copied(b).current = b.current /\ copied(b).previous = b.previous
<1> DEFINE state == b.state
           c == [b EXCEPT !.precommit = state, !.committed = FALSE]
<1>1. copied(b) = c
  BY DEF copied
<1>2. isBlock(b) /\ state \in Nat
  BY BlockParts DEF MadeOn
<1>3. state = p.stateRoot + b.transactions
  BY DEF MadeOn
<1>4. b.state = state
  OBVIOUS
<1> HIDE DEF state
<1>5. /\ c.current = b.current /\ c.previous = b.previous /\ c.precommit = state /\ c.state = state
      /\ c.transactions = b.transactions /\ c.committed = FALSE /\ c.author = b.author
      /\ c \in [previous : {b.previous}, current : {b.current}, state : Nat, precommit : Nat, transactions : Nat,
                committed : BOOLEAN, sealed : BOOLEAN, author : {b.author}]
  BY <1>2, <1>4 DEF isBlock
<1> HIDE DEF c
<1>6. isBlock(c)
  BY <1>5 DEF isBlock
<1> QED BY <1>1, <1>3, <1>5, <1>6 DEF MadeOn

\* Another node's block on a block of the chain.
LEMMA ForeignKeeps ==
  ASSUME HeadersInv, NEW parent \in imported, ForeignHeader(parent)
  PROVE  HeadersInv'
<1> DEFINE f == follow(emptyBlock("them"), parent)
           e == executeOne(f)
           b == committing(e)
           h == read(b.current)
<1>1. SameChain /\ UNCHANGED <<preSeal, working, sealingInfo>> /\ enqueued' = enqueued \cup {h}
  BY DEF ForeignHeader, SameChain
<1>2. isRead(parent)
  BY DEF HeadersInv, ChainFollows
<1>3. isHeader(parent)
  BY <1>2 DEF isRead
<1>4. MadeOn(f, parent)
  BY <1>2, FreshIs
<1> HIDE DEF f
<1>5. MadeOn(e, parent)
  BY <1>3, <1>4, ExecuteOneIs
<1> HIDE DEF e
<1>6. MadeOn(b, parent) /\ b.committed
  BY <1>2, <1>5, CommittingIs
<1> HIDE DEF b
<1>7. isHeader(b.current) /\ b.current.timestamp > 0 /\ follows(b.current, parent)
  BY <1>6 DEF MadeOn, follows
<1>8. isHeader(h) /\ h.m_hash = streamed(h, TRUE) /\ h.m_hashWithout = NoHash /\ basicFields(h) = basicFields(b.current)
  BY <1>7, ReadIs
<1> HIDE DEF h
<1>9. streamed(h, FALSE) = streamed(b.current, FALSE)
  BY <1>8 DEF streamed
<1>10. /\ h.parentHash = b.current.parentHash /\ h.timestamp = b.current.timestamp
       /\ h.transactions = b.current.transactions /\ h.stateRoot = b.current.stateRoot
  BY <1>9, HashTells
<1>11. isRead(h) /\ follows(h, parent)
  BY <1>7, <1>8, <1>10 DEF isRead, follows
<1>12. \A q \in enqueued : isRead(q) /\ \E p \in imported : follows(q, p)
  BY DEF HeadersInv, ChainFollows
<1>13. \A q \in enqueued' : isRead(q) /\ \E p \in imported : follows(q, p)
  BY <1>1, <1>11, <1>12
<1>14. MadeOn(working', best) /\ isHeader(sealingInfo')
  BY <1>1 DEF HeadersInv
<1> QED BY <1>1, <1>13, <1>14, SameChainKeeps

\* preSeal takes a new head for neither of its two headers: it is higher than
\* the one before, and has another state than the one that is being made.
LEMMA HeadIsNew ==
  ASSUME HeadersInv, rewarded > 0, NEW h \in enqueued, h.number > best.number
  PROVE  ~equals(h, preSeal.current) /\ ~equals(h, preSeal.previous)
<1>1. isRead(best) /\ isRead(h) /\ preSeal.previous = best /\ preSeal.current.parentHash = hash(best)
      /\ preSeal.current.stateRoot = best.stateRoot
  BY DEF HeadersInv, ChainFollows, MadeOn
<1>2. ASSUME equals(h, preSeal.previous) PROVE FALSE
  <2>1. streamed(h, FALSE) = streamed(best, FALSE)
    BY <1>1, <1>2 DEF equals, streamed
  <2>2. h.number = best.number /\ h.number \in Nat
    BY <1>1, <2>1, HashTells DEF isRead, isHeader
  <2> QED BY <2>2
<1>3. ASSUME equals(h, preSeal.current) PROVE FALSE
  <2>1. streamed(h, FALSE) = streamed(preSeal.current, FALSE)
    BY <1>3 DEF equals, streamed
  <2>2. h.parentHash = hash(best) /\ h.stateRoot = best.stateRoot
    BY <1>1, <2>1, HashTells
  <2>3. PICK p \in imported : follows(h, p)
    BY DEF HeadersInv, ChainFollows
  <2>4. isRead(p)
    BY DEF HeadersInv, ChainFollows
  <2>5. p = best
    BY <1>1, <2>2, <2>3, <2>4, HashIsUnique DEF follows
  <2>6. h.stateRoot = best.stateRoot + h.transactions + rewarded
    BY <2>3, <2>5 DEF follows
  <2>7. h.transactions \in Nat /\ best.stateRoot \in Nat /\ rewarded \in Nat
    BY <1>1, HeadersAssumption DEF isRead, isHeader
  <2> QED BY <2>2, <2>6, <2>7
<1> QED BY <1>2, <1>3

\* A block is imported: it is played back, and may be the new head.
LEMMA ImportKeeps ==
  ASSUME HeadersInv, rewarded > 0, NEW h \in enqueued, ImportHeader(h)
  PROVE  HeadersInv'
<1>1. isRead(h) /\ isHeader(h) /\ ChainFollows
  BY DEF HeadersInv, ChainFollows, isRead
<1>2. ChainFollows'
  <2>1. PICK q \in imported : follows(h, q)
    BY <1>1 DEF ChainFollows
  <2>2. PICK p \in imported : h.number = p.number + 1
    BY DEF ImportHeader, verified
  <2>3. p.number \in Nat
    BY <1>1 DEF ChainFollows, isRead, isHeader
  <2>4. h.number > 0
    BY <2>2, <2>3
  <2>5. imported' = imported \cup {h} /\ enqueued' = enqueued \ {h} /\ best' \in {best, h}
    BY DEF ImportHeader
  <2>6. best' \in imported' /\ genesis \in imported'
    BY <1>1, <2>5 DEF ChainFollows
  <2>7. \A g \in imported' : isRead(g) /\ (g = genesis \/ (g.number > 0 /\ \E p_1 \in imported' : follows(g, p_1)))
    BY <1>1, <2>1, <2>4, <2>5 DEF ChainFollows
  <2>8. \A g \in enqueued' : isRead(g) /\ \E p_1 \in imported' : follows(g, p_1)
    BY <1>1, <2>5 DEF ChainFollows
  <2> QED BY <2>6, <2>7, <2>8 DEF ChainFollows
<1>3. /\ ownHashes(replayed'.previous) /\ ownHashes(replayed'.current)
      /\ replayed'.current.parentHash = hash(replayed'.previous)
  <2>1. PICK q \in imported : follows(h, q)
    BY <1>1 DEF ChainFollows
  <2>2. isBlock(playedBack(h).block) /\ playedBack(h).block.current = h
    BY <1>1, <2>1, PlayedBackIs
  <2>3. replayed' = cleanup(playedBack(h).block)
    BY DEF ImportHeader
  <2> QED BY <1>1, <2>2, <2>3, CleanupIs
<1>4. isHeader(sealingInfo')
  BY DEF HeadersInv, ImportHeader
<1>5. /\ MadeOn(working', best')
      /\ MadeOn(preSeal', best') /\ ~preSeal'.committed /\ preSeal'.transactions = 0
      /\ preSeal'.current.stateRoot = best'.stateRoot
  <2>1. CASE h.number > best.number
    <3> DEFINE b == copied(preSeal)
               f == follow(b, h)
               next == copied(f)
    <3>1. best' = h /\ preSeal' = next /\ working' = copied(next)
      BY <2>1 DEF ImportHeader
    <3>2. MadeOn(b, best) /\ b.current = preSeal.current /\ b.previous = preSeal.previous
      BY CopiedIs DEF HeadersInv
    <3>3. isBlock(b) /\ ~equals(h, b.current) /\ ~equals(h, b.previous)
      BY <2>1, <3>2, HeadIsNew DEF MadeOn
    <3> HIDE DEF b
    <3>4. MadeOn(f, h) /\ ~f.committed /\ f.transactions = 0 /\ f.current.stateRoot = h.stateRoot
      BY <1>1, <3>3, FollowIs
    <3> HIDE DEF f
    <3>5. MadeOn(next, h) /\ ~next.committed /\ next.transactions = 0 /\ next.current.stateRoot = h.stateRoot
      BY <3>4, CopiedIs
    <3> HIDE DEF next
    <3>6. MadeOn(copied(next), h)
      BY <3>5, CopiedIs
    <3> QED BY <3>1, <3>5, <3>6
  <2>2. CASE ~(h.number > best.number)
    BY <2>2 DEF ImportHeader, HeadersInv
  <2> QED BY <2>1, <2>2
<1> QED BY <1>2, <1>3, <1>4, <1>5 DEF HeadersInv

\* Every step keeps the invariant.
LEMMA HeadersStep ==
  ASSUME HeadersInv, rewarded > 0, [HeadersNext]_headerVars
  PROVE  HeadersInv'
<1>1. CASE ExecuteTransaction
  BY <1>1, ExecuteKeepsHeaders
<1>2. CASE ResetTime
  BY <1>2, ResetTimeKeeps
<1>3. CASE RejigHeader
  BY <1>3, RejigKeeps
<1>4. CASE \E s \in Seals : SubmitSeal(s)
  BY <1>4, SubmitKeeps
<1>5. CASE \E parent \in imported : ForeignHeader(parent)
  BY <1>5, ForeignKeeps
<1>6. CASE \E h \in enqueued : ImportHeader(h)
  BY <1>6, ImportKeeps
<1>7. CASE UNCHANGED headerVars
  BY <1>7 DEF headerVars, HeadersInv, ChainFollows
<1> QED BY <1>1, <1>2, <1>3, <1>4, <1>5, <1>6, <1>7 DEF HeadersNext

\* What the invariant says of the blocks and of the chain.
LEMMA InvStands == HeadersInv => StandsOnTheChain
<1> SUFFICES ASSUME HeadersInv
             PROVE  StandsOnTheChain
  OBVIOUS
<1>1. best \in imported /\ isRead(best) /\ ChainFollows
  BY DEF HeadersInv, ChainFollows
<1>2. \A b \in {preSeal, working, replayed} : ownHashes(b.previous) /\ ownHashes(b.current)
  <2>1. ownHashes(best)
    BY <1>1, HashedIs
  <2>2. ownHashes(preSeal.previous) /\ ownHashes(preSeal.current) /\ ownHashes(working.previous) /\ ownHashes(working.current)
    BY <2>1 DEF HeadersInv, MadeOn
  <2> QED BY <2>2 DEF HeadersInv
<1>3. \A b \in {preSeal, working} : b.current.parentHash \in {hash(p) : p \in imported}
  BY <1>1 DEF HeadersInv, MadeOn
<1>4. \A h \in enqueued : h.parentHash \in {hash(p) : p \in imported}
  BY <1>1 DEF ChainFollows, follows
<1>5. replayed.current.number > 0 => replayed.current.parentHash = hash(replayed.previous)
  BY DEF HeadersInv
<1>6. \A h \in imported :
        /\ populateFromChain(h).ok /\ (h.number > 0 => playedBack(h).ok)
        /\ stateAfter(h, h.transactions) + (IF h.number > 0 THEN rewarded ELSE 0) = h.stateRoot
  BY <1>1, ChainIsPlayable
<1> QED BY <1>2, <1>3, <1>4, <1>5, <1>6 DEF StandsOnTheChain

\* With a reward or extra data, no header gives another's hash, the blocks that
\* are made and sealed stand on the chain, and every block of the chain can be
\* played back and asked for.
\* Code: BlockHeader.cpp:41-52, 124-132, Block.cpp:92-110, 187-288, 1018-1033,
\* 1069-1095, Client.cpp:477-518.
THEOREM BlocksStandOnTheChain == rewarded > 0 => (HeadersSpec => []StandsOnTheChain)
<1> SUFFICES ASSUME rewarded > 0
             PROVE  HeadersSpec => []StandsOnTheChain
  OBVIOUS
<1>1. HeadersInit => HeadersInv
  BY HeadersInitial
<1>2. HeadersInv /\ [HeadersNext]_headerVars => HeadersInv'
  BY HeadersStep
<1>3. HeadersInv => StandsOnTheChain
  BY InvStands
<1> QED BY <1>1, <1>2, <1>3, PTL DEF HeadersSpec
=============================================================================
