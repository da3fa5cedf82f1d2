----------------------------- MODULE BlockHeaders -----------------------------
(***************************************************************************)
(* libethcore/BlockHeader, which remembers its hashes until a setter calls  *)
(* noteDirty, and what Block and Client do with two of them: the header of  *)
(* the block before and that of the block being made.  Two headers are      *)
(* equal (operator==) whatever their seals, but a seal is part of the hash. *)
(* A hash is what is hashed.  The state is a number: transactions and the   *)
(* block's reward add to it.  With neither a reward nor the extra data that *)
(* WebThree sets, sync would take our own block for the unsealed one.       *)
(* BlockChain is known from its header and from how Client uses it: what it *)
(* gives is read from RLP.                                                  *)
(***************************************************************************)
EXTENDS Integers, Sequences, FiniteSets

CONSTANTS
    Seals,           \* seals a sealer may find for a block
    rewarded,        \* what a block's reward and extra data add to it, 0 without both
    MaxNumber,       \* bound: height of the chain
    MaxHeaderEvents  \* bound: transactions, changes of the time and foreign blocks

ASSUME HeadersAssumption == rewarded \in Nat /\ MaxNumber \in Nat /\ MaxHeaderEvents \in Nat

VARIABLES
    imported,        \* the blocks of the chain and of its side branches, by their headers
    best,            \* the head
    preSeal, working,      \* m_preSeal and m_working
    sealingInfo,     \* m_sealingInfo, once it is handed to the sealer
    enqueued,        \* sealed headers not imported yet
    replayed,        \* the Block that played the last import back
    headerEvents

headerVars == <<imported, best, preSeal, working, sealingInfo, enqueued, replayed, headerEvents>>

-----------------------------------------------------------------------------
(* BlockHeader.                                                            *)

NoHash == << >>

\* clear, and a new one
cleared == [parentHash |-> NoHash, number |-> 0, author |-> "none", timestamp |-> 0,
            transactions |-> 0, stateRoot |-> 0, seal |-> "none", m_hash |-> NoHash, m_hashWithout |-> NoHash]

\* the fields that are compared and hashed
basicFields(h) == <<h.parentHash, h.number, h.author, h.timestamp, h.transactions, h.stateRoot>>

equals(g, h) == basicFields(g) = basicFields(h)

streamed(h, includeSeal) == IF includeSeal THEN <<basicFields(h), h.seal>> ELSE <<basicFields(h)>>

\* hash: computed once, and remembered in the header although it is const
hash(h) == IF h.m_hash = NoHash THEN streamed(h, TRUE) ELSE h.m_hash
hashWithout(h) == IF h.m_hashWithout = NoHash THEN streamed(h, FALSE) ELSE h.m_hashWithout
hashed(h) == [h EXCEPT !.m_hash = hash(h)]
hashedWithout(h) == [h EXCEPT !.m_hashWithout = hashWithout(h)]

\* A plausible slip: one of the two hashes is kept
noteHashDirty(h) == [h EXCEPT !.m_hash = NoHash]

noteDirty(h) == [h EXCEPT !.m_hash = NoHash, !.m_hashWithout = NoHash]

\* the constructor from RLP: the hash is that of the bytes
read(h) == [h EXCEPT !.m_hash = streamed(h, TRUE), !.m_hashWithout = NoHash]

setTimestamp(h, timestamp) == noteDirty([h EXCEPT !.timestamp = timestamp])

setRoots(h, transactions, stateRoot) ==
    noteDirty([h EXCEPT !.transactions = transactions, !.stateRoot = stateRoot])

setParentHash(h, parentHash) == noteDirty([h EXCEPT !.parentHash = parentHash])

\* the parent's hash is taken from its memory, and the own ones are kept
populateFromParent(h, parent) ==
    [h EXCEPT !.stateRoot = parent.stateRoot, !.number = parent.number + 1, !.parentHash = parent.m_hash]

\* verify, of what concerns the parent
verified(h, parent) ==
    /\ h.parentHash = NoHash \/ hash(parent) = h.parentHash
    /\ h.timestamp > parent.timestamp /\ h.number = parent.number + 1

genesis == read([cleared EXCEPT !.timestamp = 1])

-----------------------------------------------------------------------------
(* Block, of which the state is the number of its root.                    *)

emptyBlock(author) ==
    [previous |-> cleared, current |-> cleared, state |-> 0, precommit |-> 0, transactions |-> 0,
     committed |-> FALSE, sealed |-> FALSE, author |-> author]

copied(b) == [b EXCEPT !.precommit = b.state, !.committed = FALSE]

resetHeader(b) ==
    LET authored == noteDirty([cleared EXCEPT !.author = b.author])
        timed == setTimestamp(authored, b.previous.timestamp + 1)
    IN  [b EXCEPT !.current = populateFromParent(timed, b.previous), !.transactions = 0, !.sealed = FALSE,
                  !.state = b.previous.stateRoot, !.precommit = b.previous.stateRoot, !.committed = FALSE]

\* resetCurrentTime, for the block to be issued
resetCurrentTime(b) == [b EXCEPT !.current = setTimestamp(@, b.previous.timestamp + 2)]

\* sync with a block of the chain: ours, the one before, or another
follow(b, h) ==
    IF equals(h, b.current) THEN resetHeader([b EXCEPT !.previous = b.current])
    ELSE IF equals(h, b.previous) THEN b
    ELSE resetHeader([b EXCEPT !.previous = h])

uncommit(b) == IF b.committed THEN [b EXCEPT !.state = b.precommit, !.committed = FALSE] ELSE b

executeOne(b) == [uncommit(b) EXCEPT !.state = @ + 1, !.transactions = @ + 1]

\* commitToSeal asks for the kin of the current header's parent before it sets
\* that parent, whose hash is computed if it was not remembered
committing(b) ==
    LET open == IF b.committed THEN uncommit(b) ELSE [b EXCEPT !.precommit = b.state]
        state == open.state + rewarded
    IN  [open EXCEPT !.state = state, !.previous = hashed(@), !.committed = TRUE,
                     !.current = setParentHash(setRoots(@, b.transactions, state), hash(b.previous))]

\* sealBlock: refused unless the header is that of the block but for its seal
accepts(b, h) == b.committed /\ hashWithout(h) = hashWithout(b.current)

sealing(b, h) ==
    IF accepts(b, h) THEN [b EXCEPT !.current = read(h), !.sealed = TRUE, !.state = b.precommit]
    ELSE [b EXCEPT !.current = IF b.committed THEN hashedWithout(@) ELSE @]

\* enactOn: the block that has played h back, and whether its checks passed
parentOf(h) == CHOOSE p \in imported : hash(p) = h.parentHash

enact(b, h) ==
    [ok |-> b.current.parentHash = hash(b.previous) /\ h.stateRoot = b.state + h.transactions + rewarded,
     block |-> [b EXCEPT !.current = h, !.previous = hashed(@), !.state = h.stateRoot, !.transactions = h.transactions]]

playedBack(h) ==
    enact([resetHeader(follow(emptyBlock("none"), parentOf(h))) EXCEPT !.previous = parentOf(h)], h)

\* cleanup(true): on to the next block.  Its last message hashes the header.
cleanup(b) ==
    LET moved == [b EXCEPT !.previous = b.current, !.current = populateFromParent(@, b.current)]
    IN  resetHeader([moved EXCEPT !.previous = hashed(@)])

\* populateFromChain: a block of the chain with its transactions
populateFromChain(h) ==
    IF h.number > 0 THEN enact([follow(emptyBlock("none"), parentOf(h)) EXCEPT !.author = h.author], h)
    ELSE [ok |-> TRUE, block |-> follow(emptyBlock("none"), h)]

\* fromPending: the state after some of the transactions
fromPending(b, i) == b.previous.stateRoot + (IF i < b.transactions THEN i ELSE b.transactions)

-----------------------------------------------------------------------------
(* Client.                                                                 *)

\* state: that of a block after so many of its transactions
stateAfter(h, i) == fromPending(populateFromChain(h).block, i)

HeadersInit ==
    /\ imported = {genesis} /\ best = genesis
    /\ preSeal = follow(emptyBlock("us"), genesis) /\ working = follow(emptyBlock("us"), genesis)
    /\ sealingInfo = cleared /\ enqueued = {} /\ replayed = emptyBlock("none")
    /\ headerEvents = 0

ledgerOfHeaders == <<imported, best, enqueued, replayed>>

HeaderEvent == headerEvents < MaxHeaderEvents /\ headerEvents' = headerEvents + 1

\* a transaction of the queue
ExecuteTransaction ==
    /\ HeaderEvent /\ ~working.sealed /\ working.transactions = 0
    /\ working' = executeOne(working)
    /\ UNCHANGED <<ledgerOfHeaders, preSeal, sealingInfo>>

ResetTime ==
    /\ HeaderEvent /\ ~working.sealed
    /\ working' = resetCurrentTime(working)
    /\ UNCHANGED <<ledgerOfHeaders, preSeal, sealingInfo>>

\* rejigSealing: the header that is handed out has been hashed for a message
RejigHeader ==
    /\ ~working.sealed
    /\ working' = committing(working)
    /\ sealingInfo' = hashedWithout(committing(working).current)
    /\ UNCHANGED <<ledgerOfHeaders, preSeal, headerEvents>>

\* submitSealed: several miners may find a seal, also for work that is stale
SubmitSeal(s) ==
    LET h == read([sealingInfo EXCEPT !.seal = s]) IN
    /\ sealingInfo.number > 0
    /\ working' = sealing(working, h)
    /\ enqueued' = IF accepts(working, h) THEN enqueued \cup {read(h)} ELSE enqueued
    /\ UNCHANGED <<imported, best, replayed, preSeal, sealingInfo, headerEvents>>

\* a block of another node on any block of the chain
ForeignHeader(parent) ==
    LET b == committing(executeOne(follow(emptyBlock("them"), parent))) IN
    /\ HeaderEvent
    /\ enqueued' = enqueued \cup {read(b.current)}
    /\ UNCHANGED <<imported, best, replayed, preSeal, working, sealingInfo>>

\* syncBlockQueue, and resyncStateFromChain if the block is the new head
ImportHeader(h) ==
    LET live == h.number > best.number
        next == copied(follow(copied(preSeal), h))
    IN  /\ h.number <= MaxNumber /\ \E p \in imported : verified(h, p) /\ hash(p) = h.parentHash
        /\ enqueued' = enqueued \ {h} /\ imported' = imported \cup {h}
        /\ replayed' = cleanup(playedBack(h).block)
        /\ best' = IF live THEN h ELSE best
        /\ preSeal' = IF live THEN next ELSE preSeal
        /\ working' = IF live THEN copied(next) ELSE working
        /\ UNCHANGED <<sealingInfo, headerEvents>>

HeadersNext ==
    \/ ExecuteTransaction \/ ResetTime \/ RejigHeader
    \/ \E s \in Seals : SubmitSeal(s)
    \/ \E parent \in imported : ForeignHeader(parent)
    \/ \E h \in enqueued : ImportHeader(h)

HeadersSpec == HeadersInit /\ [][HeadersNext]_headerVars

-----------------------------------------------------------------------------
\* No header gives a hash that is not its own, the block that is being made
\* stands on a block of the chain, as does every block that was sealed, and
\* every block of the chain can be played back and asked for.
\* Code: BlockHeader.cpp:41-52, 124-132, Block.cpp:92-110, 187-288, 1018-1033,
\* 1069-1095, Client.cpp:477-518.
ownHashes(h) == h.m_hash \in {NoHash, streamed(h, TRUE)} /\ h.m_hashWithout \in {NoHash, streamed(h, FALSE)}

StandsOnTheChain ==
    /\ \A b \in {preSeal, working, replayed} : ownHashes(b.previous) /\ ownHashes(b.current)
    /\ \A b \in {preSeal, working} : b.current.parentHash \in {hash(p) : p \in imported}
    /\ \A h \in enqueued : h.parentHash \in {hash(p) : p \in imported}
    /\ replayed.current.number > 0 => replayed.current.parentHash = hash(replayed.previous)
    /\ \A h \in imported :
           /\ populateFromChain(h).ok /\ (h.number > 0 => playedBack(h).ok)
           /\ stateAfter(h, h.transactions) + (IF h.number > 0 THEN rewarded ELSE 0) = h.stateRoot

-----------------------------------------------------------------------------
\* The inductive invariant behind StandsOnTheChain.
isHeader(h) ==
    h \in [parentHash : {h.parentHash}, number : Nat, author : {h.author}, timestamp : Nat, transactions : Nat,
           stateRoot : Nat, seal : {h.seal}, m_hash : {h.m_hash}, m_hashWithout : {h.m_hashWithout}]

isBlock(b) ==
    b \in [previous : {b.previous}, current : {b.current}, state : Nat, precommit : Nat, transactions : Nat,
           committed : BOOLEAN, sealed : BOOLEAN, author : {b.author}]

\* What is read from RLP, as the blocks of the chain are, knows its hash
isRead(h) == isHeader(h) /\ h.timestamp > 0 /\ h.m_hash = streamed(h, TRUE) /\ h.m_hashWithout = NoHash

\* h can be played back on p
follows(h, p) == h.parentHash = hash(p) /\ h.stateRoot = p.stateRoot + h.transactions + rewarded

ChainFollows ==
    /\ best \in imported /\ genesis \in imported
    /\ \A h \in imported : isRead(h) /\ (h = genesis \/ (h.number > 0 /\ \E p \in imported : follows(h, p)))
    /\ \A h \in enqueued : isRead(h) /\ \E p \in imported : follows(h, p)

\* A block that is made on p: its header has the hash of p, and once it is
\* committed the roots of what was executed
MadeOn(b, p) ==
    /\ isBlock(b) /\ b.previous = p
    /\ isHeader(b.current) /\ b.current.timestamp > 0 /\ ownHashes(b.current) /\ b.current.parentHash = hash(p)
    /\ ~b.committed => b.state = p.stateRoot + b.transactions
    /\ b.committed =>
           /\ b.precommit = p.stateRoot + b.transactions
           /\ b.current.transactions = b.transactions /\ b.current.stateRoot = b.precommit + rewarded

HeadersInv ==
    /\ ChainFollows /\ isHeader(sealingInfo)
    /\ MadeOn(working, best)
    /\ MadeOn(preSeal, best) /\ ~preSeal.committed /\ preSeal.transactions = 0
    /\ preSeal.current.stateRoot = best.stateRoot
    /\ ownHashes(replayed.previous) /\ ownHashes(replayed.current)
    /\ replayed.current.number > 0 => replayed.current.parentHash = hash(replayed.previous)
=============================================================================
