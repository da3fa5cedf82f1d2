------------------------------ MODULE Datagrams ------------------------------
(***************************************************************************)
(* What the discovery protocol's datagrams carry and how long they are:     *)
(* RLPXDatagramFace::sign, the packets of NodeTable.h, interpretUDP.  One   *)
(* node asks another for its neighbours and pings it; the network loses,    *)
(* repeats, delays and damages datagrams.  What the node table makes of     *)
(* them is in module NodeTable.                                             *)
(***************************************************************************)
EXTENDS Integers, FiniteSets

CONSTANTS
    maxDatagramSize,   \* UDPSocket's buffer: what is longer is cut on arrival
    addressSize,       \* bytes of an address: 4 or 16
    nearestCounts,     \* how many nodes nearestNodeEntries may find
    lifetime,          \* ticks until a datagram expires, 60 seconds in the code
    reqTimeout,        \* c_reqTimeout: ticks in which Neighbours are awaited, 300 milliseconds in the code
    MaxClock, MaxDuplicates   \* bounds: the clock and repeated datagrams

\* A datagram has room for any request, and for one neighbour at the least.
ASSUME DatagramsAssumption ==
    maxDatagramSize \in Nat /\ maxDatagramSize >= 199 /\ lifetime \in Nat /\ reqTimeout \in Nat /\ nearestCounts \subseteq Nat

VARIABLES
    epoch,        \* the clock of both nodes
    nearest,      \* the nodes the other node finds, by their place in the list
    onTheWay,         \* datagrams on their way
    asked,        \* which requests were sent
    askedAt,      \* m_findNodeTimeout: when the FindNode was
    neighbours,   \* what the asker has learned
    pongs,        \* echoes of the Pongs the asker has taken
    spoiled,      \* history: a datagram was lost, damaged or too late
    duplicates    \* how many were repeated

datagramVars == <<epoch, nearest, onTheWay, asked, askedAt, neighbours, pongs, spoiled, duplicates>>

DatagramsInit ==
    /\ epoch = 0 /\ nearest \in {1..n : n \in nearestCounts}
    /\ onTheWay = {} /\ asked = {} /\ askedAt = 0 /\ neighbours = {} /\ pongs = {}
    /\ spoiled = FALSE /\ duplicates = 0

-----------------------------------------------------------------------------
\* How long the RLP of a string of n bytes, n > 1, or of a list with n bytes in it is
rlpSize(n) == n + (IF n <= 55 THEN 1 ELSE IF n <= 255 THEN 2 ELSE 3)

portSize == rlpSize(2)
tsSize == rlpSize(4)
hashSize == 32
signatureSize == 65
nodeIDSize == 64

\* NodeIPEndpoint::streamRLP, inline and as a list
endpointInline == rlpSize(addressSize) + 2 * portSize
endpointSize == rlpSize(endpointInline)

neighbourSize == rlpSize(endpointInline + rlpSize(nodeIDSize))

rlpOf(type, entries) ==
    CASE type = "PingNode" -> rlpSize(1 + 2 * endpointSize + tsSize)
      [] type = "Pong" -> rlpSize(endpointSize + rlpSize(hashSize) + tsSize)
      [] type = "FindNode" -> rlpSize(rlpSize(nodeIDSize) + tsSize)
      [] type = "Neighbours" -> rlpSize(rlpSize(Cardinality(entries) * neighbourSize) + tsSize)

\* sign: hash, signature, one byte for the type, and the RLP
sign(type, entries, echo) ==
    [type |-> type, entries |-> entries, echo |-> echo, ts |-> epoch + lifetime, intact |-> TRUE,
     size |-> hashSize + signatureSize + 1 + rlpOf(type, entries)]

\* interpretUDP: the buffer has cut what is too long, and a hash that does not
\* match, as that of a cut or damaged datagram, makes it nothing
interpretUDP(d) == IF d.size <= maxDatagramSize /\ d.intact THEN {d} ELSE {}

isExpired(d) == epoch > d.ts

-----------------------------------------------------------------------------
\* The answer to FindNode: Neighbours of at most nlimit nodes each
nlimit == (maxDatagramSize - 109) \div 90

\* A plausible slip: every datagram goes on to the end of the list
fromOffset(offset) == {i \in nearest : i > offset}

\* The constructor of Neighbours with an offset and a limit
slice(offset) == {i \in nearest : i > offset /\ i <= offset + nlimit}

answer(d) ==
    IF d.type = "PingNode" THEN {sign("Pong", {}, d.type)}
    ELSE {sign("Neighbours", slice(offset), "none") :
              offset \in {o \in 0..Cardinality(nearest) : o % nlimit = 0 /\ o < Cardinality(nearest)}}

-----------------------------------------------------------------------------
AskNode(type) ==
    /\ type \notin asked /\ asked' = asked \union {type}
    /\ askedAt' = IF type = "FindNode" THEN epoch ELSE askedAt
    /\ onTheWay' = onTheWay \union {sign(type, {}, "none")}
    /\ UNCHANGED <<epoch, nearest, neighbours, pongs, spoiled, duplicates>>

expected == "FindNode" \in asked /\ epoch - askedAt < reqTimeout

\* onReceived: an expired datagram is dropped, and so are Neighbours nobody awaits
Receive(d) ==
    /\ \E again \in BOOLEAN :
         /\ again => duplicates < MaxDuplicates
         /\ duplicates' = duplicates + (IF again THEN 1 ELSE 0)
         /\ LET usable == {p \in interpretUDP(d) : ~isExpired(p)}
                requests == {p \in usable : p.type \in {"PingNode", "FindNode"}}
            IN  /\ onTheWay' = (onTheWay \ (IF again THEN {} ELSE {d})) \union UNION {answer(p) : p \in requests}
                /\ neighbours' = neighbours \union UNION {p.entries : p \in {u \in usable : u.type = "Neighbours" /\ expected}}
                /\ pongs' = pongs \union {p.echo : p \in {u \in usable : u.type = "Pong"}}
                /\ spoiled' = (spoiled \/ isExpired(d) \/ (d.type = "Neighbours" /\ ~expected))
    /\ UNCHANGED <<epoch, nearest, asked, askedAt>>

\* The network
Lose(d) ==
    /\ onTheWay' = onTheWay \ {d} /\ spoiled' = TRUE
    /\ UNCHANGED <<epoch, nearest, asked, askedAt, neighbours, pongs, duplicates>>

Damage(d) ==
    /\ d.intact
    /\ onTheWay' = (onTheWay \ {d}) \union {[d EXCEPT !.intact = FALSE]} /\ spoiled' = TRUE
    /\ UNCHANGED <<epoch, nearest, asked, askedAt, neighbours, pongs, duplicates>>

Wait ==
    /\ epoch < MaxClock /\ epoch' = epoch + 1
    /\ UNCHANGED <<nearest, onTheWay, asked, askedAt, neighbours, pongs, spoiled, duplicates>>

DatagramsNext ==
    \/ \E type \in {"PingNode", "FindNode"} : AskNode(type)
    \/ \E d \in onTheWay : Receive(d) \/ Lose(d) \/ Damage(d)
    \/ Wait

DatagramsSpec == DatagramsInit /\ [][DatagramsNext]_datagramVars

-----------------------------------------------------------------------------
\* If the network spoils nothing and the answer to FindNode comes in time, the
\* asker learns every node the other one found and that it is alive; whatever
\* it learns, it was told.
\* Code: nlimit, NodeTable.cpp:465-502, with sign, UDP.cpp:30-56, and
\* interpretUDP, NodeTable.cpp:580-626.
WholeAnswerArrives ==
    /\ neighbours \subseteq nearest /\ pongs \subseteq asked
    /\ onTheWay = {} /\ ~spoiled =>
           /\ "FindNode" \in asked => neighbours = nearest
           /\ "PingNode" \in asked => pongs = {"PingNode"}

-----------------------------------------------------------------------------
\* What is on its way: datagrams that fit, of an honest node.
Signed ==
    [type : {"PingNode", "Pong", "FindNode", "Neighbours"}, entries : SUBSET nearest, echo : {"none", "PingNode"},
     ts : Nat, intact : BOOLEAN, size : 0..maxDatagramSize]

DatagramTypes ==
    /\ epoch \in Nat /\ askedAt \in Nat /\ spoiled \in BOOLEAN /\ onTheWay \subseteq Signed
    /\ \E n \in nearestCounts : nearest = 1..n
    /\ asked \subseteq {"PingNode", "FindNode"} /\ neighbours \subseteq nearest /\ pongs \subseteq asked \cap {"PingNode"}
    /\ \A d \in onTheWay : /\ d.type = "Pong" => d.echo = "PingNode"
                           /\ d.type \in {"PingNode", "Pong"} => "PingNode" \in asked

\* A question that was asked, its answer or what it says is somewhere.
FindIsUnderWay ==
    \/ \E d \in onTheWay : d.type = "FindNode"
    \/ \A i \in nearest : i \in neighbours \/ \E d \in onTheWay : d.type = "Neighbours" /\ i \in d.entries
PingIsUnderWay ==
    \/ \E d \in onTheWay : d.type \in {"PingNode", "Pong"}
    \/ "PingNode" \in pongs

\* Inductive: while nothing is spoiled, nothing gets lost.
DatagramsInv ==
    /\ DatagramTypes
    /\ ~spoiled =>
        /\ \A d \in onTheWay : d.intact
        /\ "FindNode" \in asked => FindIsUnderWay
        /\ "PingNode" \in asked => PingIsUnderWay
=============================================================================
