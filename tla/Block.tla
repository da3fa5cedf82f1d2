-------------------------------- MODULE Block --------------------------------
(***************************************************************************)
(* The operations of libethereum/Block, the block a client is putting       *)
(* together or playing back, as operators on a record.  Hashes are the      *)
(* values themselves: the root of a state is the state, the hash of a block *)
(* the block.  There is one account that sends transactions, so a state is  *)
(* its nonce and the rewards that were paid.  Uncles are in module Uncles,  *)
(* the execution of a transaction in module Executive.                      *)
(***************************************************************************)
EXTENDS Integers, Sequences, FiniteSets, SequencesExt, FiniteSetsExt

CONSTANTS
    gasLimit,      \* transactions that fit in a block
    ask            \* the price the gas pricer asks for

ASSUME BlockConstants == gasLimit \in Nat /\ ask \in Nat

NoHeader == [number |-> -1]
Genesis == [number |-> 0, parent |-> NoHeader, txs |-> << >>, author |-> "none", state |-> [nonce |-> 0, rewards |-> 0]]

\* The fields of Block; transactions and receipts have the same length, and
\* gasUsed of the last receipt is the length
NewBlock(author) ==
    [m_previousBlock |-> NoHeader, m_transactions |-> << >>, m_state |-> Genesis.state,
     m_precommit |-> Genesis.state, m_committedToSeal |-> FALSE, m_currentBlock |-> NoHeader,
     m_currentTxs |-> << >>, sealed |-> FALSE, m_author |-> author]

isSealed(b) == b.sealed

\* The copy constructor and the assignment: the copy's state, rewards included
\* if the source was committed, is what it takes for its state before rewards
CopyBlock(b) ==
    [b EXCEPT !.m_precommit = b.m_state, !.m_committedToSeal = FALSE]

\* resetCurrent and populateFromParent
resetCurrent(b) ==
    [b EXCEPT !.m_transactions = << >>,
              !.m_currentBlock = [NoHeader EXCEPT !.number = b.m_previousBlock.number + 1],
              !.sealed = FALSE,
              !.m_state = b.m_previousBlock.state,
              !.m_precommit = b.m_previousBlock.state,
              !.m_committedToSeal = FALSE]

\* sync with the chain whose head is given: the block, and whether it changed
syncChain(b, head) ==
    IF head # b.m_currentBlock /\ head = b.m_previousBlock
    THEN [block |-> b, changed |-> FALSE]
    ELSE [block |-> resetCurrent([b EXCEPT !.m_previousBlock = head]), changed |-> TRUE]

uncommitToSeal(b) ==
    IF b.m_committedToSeal THEN [b EXCEPT !.m_state = b.m_precommit, !.m_committedToSeal = FALSE] ELSE b

\* Executive's checks that execute's caller tells apart
executable(b, t) == t.nonce = b.m_state.nonce /\ Len(b.m_transactions) < gasLimit

\* execute: not of a sealed block
execute(b, t) ==
    LET open == uncommitToSeal(b)
    IN  [open EXCEPT !.m_state.nonce = @ + 1, !.m_transactions = Append(@, t)]

-----------------------------------------------------------------------------
\* The transaction queue, as Block and Client use it.  It knows the
\* transactions that are in it or were dropped; of two with the same nonce it
\* keeps the one that pays more.

tqImport(q, t, retry) ==
    IF \/ t \in q.current \cup q.future
       \/ t \in q.dropped /\ ~retry
       \/ \E u \in q.current \cup q.future : u.nonce = t.nonce /\ u.price > t.price THEN q
    ELSE LET current == {u \in q.current : u.nonce # t.nonce} \cup {t}
             next(n) == {u \in q.future : u.nonce = n}
         IN  [current |-> current \cup next(t.nonce + 1),
              future |-> {u \in q.future : u.nonce \notin {t.nonce, t.nonce + 1}},
              dropped |-> q.dropped \ {t}]

tqDrop(q, t) ==
    [q EXCEPT !.current = @ \ {t}, !.future = @ \ {t},
              !.dropped = IF t \in q.current \cup q.future THEN @ \cup {t} ELSE @]

\* It was included in a block: what follows it is current now
tqDropGood(q, t) ==
    LET left == tqDrop(q, t)
        next == {u \in left.future : u.nonce = t.nonce + 1}
    IN  [left EXCEPT !.current = @ \cup next, !.future = @ \ next]

tqSetFuture(q, t) ==
    LET later == {u \in q.current : u.nonce >= t.nonce}
    IN  IF t \in q.current THEN [q EXCEPT !.current = @ \ later, !.future = @ \cup later] ELSE q

\* The queue's order, PriorityCompare
before(t, u) == t.nonce < u.nonce \/ (t.nonce = u.nonce /\ t.price > u.price)

topTransactions(q, avoid) ==
    CHOOSE ts \in SetToSeqs(q.current \ avoid) : \A i, j \in DOMAIN ts : i < j => ~before(ts[j], ts[i])

-----------------------------------------------------------------------------
\* What sync does with one transaction of the queue
refuse(q, b, t) ==
    CASE b.m_state.nonce > t.nonce -> tqDrop(q, t)
      [] t.nonce > b.m_state.nonce + Cardinality(q.current \cup q.future) -> tqDrop(q, t)
      [] t.nonce > b.m_state.nonce -> tqSetFuture(q, t)
      [] OTHER -> q

\* The block's gas limit is checked before the nonce
tryTransaction(s, t) ==
    LET open == uncommitToSeal(s.b)
    IN  CASE t \in ToSet(s.b.m_transactions) -> s
          [] t \notin ToSet(s.b.m_transactions) /\ t.price >= ask /\ executable(s.b, t) ->
                 [b |-> execute(s.b, t), q |-> s.q]
          [] t \notin ToSet(s.b.m_transactions) /\ t.price >= ask /\ ~executable(s.b, t) ->
                 [b |-> open,
                  q |-> IF Len(s.b.m_transactions) < gasLimit THEN refuse(s.q, open, t)
                        ELSE IF gasLimit = 0 THEN tqDrop(s.q, t) ELSE s.q]
          [] t.price < ask ->
                 [b |-> s.b, q |-> IF 10 * t.price < 9 * ask THEN tqDrop(s.q, t) ELSE s.q]

\* sync with the transaction queue: the transactions are tried in order, again
\* and again until the deadline or until all were executed in one go
syncTransactions(b, q) ==
    LET ts == topTransactions(q, ToSet(b.m_transactions))
        after == FoldLeft(tryTransaction, [b |-> b, q |-> q], ts)
        executed == Len(after.b.m_transactions) - Len(b.m_transactions)
    IN  [b |-> after.b, q |-> after.q, executed |-> executed, more |-> executed < Len(ts)]

-----------------------------------------------------------------------------
\* commitToSeal with rewards in place of the state before them
blockReward == 1

applyRewards(state) == [state EXCEPT !.rewards = @ + blockReward]

\* A plausible slip: a second commitment is made on top of the first
recommitted(b) == IF b.m_committedToSeal THEN b ELSE [b EXCEPT !.m_precommit = b.m_state]

\* The state that the commitment starts from
uncommitted(b) == IF b.m_committedToSeal THEN uncommitToSeal(b) ELSE [b EXCEPT !.m_precommit = b.m_state]

header(b) ==
    [number |-> b.m_previousBlock.number + 1, parent |-> b.m_previousBlock, txs |-> b.m_transactions,
     author |-> b.m_author, state |-> b.m_state]

commitToSeal(b) ==
    LET rewarded == [uncommitted(b) EXCEPT !.m_state = applyRewards(@)]
    IN  [rewarded EXCEPT !.m_currentTxs = b.m_transactions,
                         !.m_currentBlock = header(rewarded),
                         !.m_committedToSeal = TRUE]

\* PBFT's second commitment: the roots are set anew, no rewards are applied
\* and the state before them is not kept
commitToSealAfterExecTx(b) ==
    [b EXCEPT !.m_currentBlock.state = b.m_state, !.m_committedToSeal = TRUE]

\* sealBlock with a sealed header: refused unless it is of this block.  The
\* state goes back to the one before the rewards.
canSeal(b, h) == b.m_committedToSeal /\ h = b.m_currentBlock

sealBlock(b, h) ==
    [b EXCEPT !.m_currentBlock = [h EXCEPT !.txs = b.m_currentTxs], !.sealed = TRUE, !.m_state = b.m_precommit]

\* enactOn: play a block back on its parent's state
enacted(h) ==
    FoldLeft(LAMBDA b, t : execute(b, t), resetCurrent([NewBlock(h.author) EXCEPT !.m_previousBlock = h.parent]), h.txs)

\* The root in the header is not looked at if it is the parent's
agrees(h) == h.state = h.parent.state \/ h.state = applyRewards(enacted(h).m_state)

enactOn(h) ==
    /\ Len(h.txs) <= gasLimit
    /\ \A i \in DOMAIN h.txs : h.txs[i].nonce = h.parent.state.nonce + i - 1
    /\ agrees(h)
=============================================================================
