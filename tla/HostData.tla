------------------------------ MODULE HostData ------------------------------
(***************************************************************************)
(* libethereum/EthereumHost's EthereumHostData, with the requests of        *)
(* EthereumPeer::interpret that it answers: headers from a block on, by its *)
(* number or its hash, and bodies, nodes or receipts by their hashes.  A    *)
(* block is its number and its branch; the chain is the branch "main".      *)
(* The walk from the first header on is not in the repository: the text of  *)
(* blockHeaders breaks off when its start is known, at EthereumHost.cpp:224. *)
(***************************************************************************)
EXTENDS Integers, Sequences, FiniteSets, FiniteSetsExt, SequencesExt

CONSTANTS
    Uncled,                 \* known blocks that are not on the chain
    Items,                  \* what is asked by hash: an id and a size, 0 if it is not known
    c_maxHeadersToSend, c_maxBlocks, c_maxPayload,
    MaxHeaders, MaxSkip, MaxNumber, MaxHashes   \* bounds: of a request and of the chain

ASSUME HostDataAssumption ==
    {c_maxHeadersToSend, c_maxBlocks, MaxHeaders, MaxSkip, MaxNumber, MaxHashes} \subseteq Nat

VARIABLES
    height,       \* m_chain.number()
    request,      \* the request being answered
    looked,       \* how many of the items that were asked have been looked at
    answered        \* the headers' numbers, or the items

dataVars == <<height, request, looked, answered>>

asksNothing == [kind |-> "nothing"]
on(number) == [number |-> number, branch |-> "main"]
nowhere == [number |-> -1, branch |-> "none"]

\* A block off the chain is modelled once the chain is as high as it is
isKnown(block) == (block \in Uncled \/ block.branch = "main") /\ block.number \in 0..height
numberHash(number) == IF number \in 0..height THEN on(number) ELSE nowhere

HostDataInit == height = 0 /\ request = asksNothing /\ looked = 0 /\ answered = {}

ChainGrows ==
    /\ request = asksNothing /\ height < MaxNumber /\ height' = height + 1
    /\ UNCHANGED <<request, looked, answered>>

-----------------------------------------------------------------------------
\* blockHeaders: where the walk down the chain begins and how long it is

numHeadersToSend == Min({request.maxHeaders, c_maxHeadersToSend})
stride == request.skip + 1
nobody == [start |-> nowhere, count |-> numHeadersToSend]
thisOne == [start |-> request.block, count |-> numHeadersToSend]

\* A plausible slip: a header too many when the chain ends in the steps
fittingOneMore(first) == (height - first) \div stride + 2
fitting(first) == (height - first) \div stride + 1

\* Forward: from the top block on, the last asked one or the last the chain has
upTo(first, top) ==
    LET count == IF top > height THEN fitting(first) ELSE numHeadersToSend
    IN  [start |-> numberHash(IF top > height THEN first + stride * (count - 1) ELSE top), count |-> count]

byHash ==
    LET hash == request.block
    IN  IF ~isKnown(hash) THEN nobody
        ELSE IF request.reverse THEN thisOne
        ELSE IF numHeadersToSend = 0 THEN nobody
        ELSE upTo(hash.number, hash.number + stride * numHeadersToSend - 1)

byNumber ==
    LET first == request.block.number
    IN  IF request.reverse THEN [thisOne EXCEPT !.start = numberHash(first)]
        ELSE IF first > height \/ numHeadersToSend = 0 THEN nobody
        ELSE upTo(first, first + stride * (numHeadersToSend - 1))

\* Parents, step by step; both a block of the chain and another one have theirs there
walked(from) ==
    IF isKnown(from.start)
    THEN {i \in 0..MaxNumber : \E k \in 0..(from.count - 1) : i = from.start.number - k * stride}
    ELSE {}

GetBlockHeaders(block, hashed, maxHeaders, skip, reverse) ==
    /\ request = asksNothing
    /\ request' = [kind |-> "headers", block |-> block, hashed |-> hashed, maxHeaders |-> maxHeaders,
                   skip |-> skip, reverse |-> reverse]
    /\ UNCHANGED <<height, looked, answered>>

AnswerHeaders ==
    /\ request.kind = "headers" /\ looked = 0 /\ looked' = 1
    /\ answered' = walked(IF request.hashed THEN byHash ELSE byNumber)
    /\ UNCHANGED <<height, request>>

-----------------------------------------------------------------------------
\* blockBodies, nodeData, receipts: what is known of the first c_maxBlocks,
\* until the payload is full.  GetBlockBodies for nothing is not answered.

GetItems(items) ==
    /\ request = asksNothing /\ items # <<>>
    /\ request' = [kind |-> "items", items |-> items]
    /\ UNCHANGED <<height, looked, answered>>

payload(items) == MapThenSumSet(LAMBDA i : i.size, items)

more == looked < Min({Len(request.items), c_maxBlocks}) /\ payload(answered) < c_maxPayload

AnswerItem ==
    /\ request.kind = "items" /\ more
    /\ LET item == request.items[looked + 1]
       IN  answered' = IF item.size > 0 THEN answered \union {item} ELSE answered
    /\ looked' = looked + 1
    /\ UNCHANGED <<height, request>>

Sealed ==
    /\ request # asksNothing /\ IF request.kind = "headers" THEN looked = 1 ELSE ~more
    /\ request' = asksNothing /\ looked' = 0 /\ answered' = {}
    /\ UNCHANGED height

HostDataNext ==
    \/ ChainGrows \/ AnswerHeaders \/ AnswerItem \/ Sealed
    \/ \E number \in 0..MaxNumber, maxHeaders \in 0..MaxHeaders, skip \in 0..MaxSkip, reverse \in BOOLEAN :
           \/ GetBlockHeaders(on(number), FALSE, maxHeaders, skip, reverse)
           \/ \E block \in Uncled \union {on(number)} : GetBlockHeaders(block, TRUE, maxHeaders, skip, reverse)
    \/ \E items \in SeqOf(Items, MaxHashes) : IsInjective(items) /\ GetItems(items)

HostDataSpec == HostDataInit /\ [][HostDataNext]_dataVars

-----------------------------------------------------------------------------
\* The numbers that were asked, in the steps that were asked
headersAsked ==
    LET first == request.block.number
        at(k) == IF request.reverse THEN first - k * stride ELSE first + k * stride
    IN  {i \in 0..(IF request.reverse THEN MaxNumber ELSE height) : \E k \in 0..(numHeadersToSend - 1) : i = at(k)}

startsNowhere == IF request.hashed THEN ~isKnown(request.block) ELSE request.block.number > height

\* Whatever block a peer starts from, the headers are the ones it asked and the
\* chain has, down to the last step; a hash and a skip are not asked together.
\* Items are the known ones, in order, and only the last may pass the payload.
\* Code: EthereumHost.cpp:158-224, 226-300.
AnswersAreAsked ==
    /\ (request.kind = "headers" /\ looked = 1 /\ ~(request.hashed /\ request.skip > 0 /\ ~request.reverse))
       => answered = IF startsNowhere THEN {} ELSE headersAsked
    /\ (request.kind = "items" /\ ~more)
       => /\ answered = {i \in Range(SubSeq(request.items, 1, looked)) : i.size > 0}
          /\ \A last \in answered : last = request.items[looked] => payload(answered \ {last}) < c_maxPayload

\* The same for every request.
\* EthereumHost.cpp:190 "override start block hash with the hash of the top block we have".
HeadersAlwaysAsked ==
    (request.kind = "headers" /\ looked = 1 /\ ~startsNowhere) => answered = headersAsked

\* The request and what has been answered of it, header by header or item by
\* item: an item is added only while there is room.
HostDataInv ==
    /\ height \in 0 .. MaxNumber
    /\ \/ request = asksNothing /\ looked = 0 /\ answered = {}
       \/ /\ request.kind = "headers" /\ {request.maxHeaders, request.skip} \subseteq Nat
          /\ request.block \in (IF request.hashed THEN Uncled ELSE {}) \union {on(n) : n \in 0 .. MaxNumber}
          /\ looked = 1 => answered = walked(IF request.hashed THEN byHash ELSE byNumber)
       \/ /\ request.kind = "items" /\ request.items \in Seq(Items) /\ IsInjective(request.items)
          /\ looked \in 0 .. Len(request.items)
          /\ answered = {i \in Range(SubSeq(request.items, 1, looked)) : i.size > 0}
          /\ \A last \in answered : last = request.items[looked] => payload(answered \ {last}) < c_maxPayload
=============================================================================
