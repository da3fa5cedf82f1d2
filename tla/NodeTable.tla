------------------------------ MODULE NodeTable ------------------------------
(***************************************************************************)
(* dev::p2p::NodeTable (libp2p/NodeTable.h, NodeTable.cpp): the Kademlia   *)
(* table of the node discovery protocol.                                   *)
(*                                                                         *)
(* Packets and timers are handled by the one thread that polls the Host's  *)
(* io_service, so a handler is one step; Host::addNode runs on client      *)
(* threads and takes x_nodes twice, so it is two.  The network is any      *)
(* packet from any node at any time: UDP loses, repeats and reorders, and  *)
(* a Pong is not matched with a Ping.  The UDP socket, once it has been    *)
(* connected by the constructor, stays open as long as the table lives.    *)
(*                                                                         *)
(* A NodeEntry is [id, gen]: m_nodes may replace the entry of an id, and   *)
(* the buckets hold weak pointers, which then expire.                      *)
(***************************************************************************)
EXTENDS Integers, Sequences, FiniteSets, SequencesExt

CONSTANTS
    Nodes,          \* node ids; each answers from one address
    Self,           \* this node's own id
    Allowed,        \* ids whose endpoint passes isAllowed()
    Clients,        \* threads that call Host::addNode
    None,           \* no id
    Restored,       \* the peers restoreNetwork reads from the saved file
    Bins,           \* buckets
    bucketOf,       \* the bucket of an id: its distance from Self
    s_bucketSize, s_alpha, s_maxSteps,
    c_reqTimeout,   \* in ticks of the clock
    MaxGen,         \* bound: entries created for one id
    MaxEvictions    \* bound: length of m_evictions, which the code never bounds

ASSUME NodesAssumption ==
    /\ Self \in Nodes /\ Allowed \subseteq Nodes /\ None \notin Nodes
    /\ Restored \subseteq Nodes \ {Self}
    /\ bucketOf \in [Nodes -> Bins]

ASSUME SizesAssumption ==
    /\ s_bucketSize \in Nat \ {0} /\ s_alpha \in Nat \ {0} /\ s_maxSteps \in Nat \ {0}
    /\ c_reqTimeout \in Nat /\ MaxGen \in Nat \ {0} /\ MaxEvictions \in Nat

VARIABLES
    m_nodes,        \* the current entry of an id: gen 0 is none
    m_state,        \* the buckets, least recently seen first
    m_evictions,    \* contested nodes: least seen, newcomer, age of the ping
    checkTimer,     \* eviction checks scheduled
    m_pubkDiscoverPings, \* addresses pinged to learn their id
    m_findNodeTimeout,   \* <<id, recent>>: FindNode requests sent
    discovery,      \* the round whose timer is running, 0 for c_bucketRefresh
    tried,          \* entries held by the running discovery
    adding,         \* the id a client is about to insert
    toRestore,      \* the peers restoreNetwork has not reached yet
    lastEvent       \* the last event appended for the Host, by node

vars == <<m_nodes, m_state, m_evictions, checkTimer, m_pubkDiscoverPings,
          m_findNodeTimeout, discovery, tried, adding, toRestore, lastEvent>>

Entries == [id : Nodes, gen : 1 .. MaxGen]

Ages == 0 .. c_reqTimeout + 1

TypeOK ==
    /\ m_nodes \in [Nodes -> [gen : 0 .. MaxGen, pending : BOOLEAN]]
    /\ m_state \in [Bins -> Seq(Entries)]
    /\ m_evictions \in Seq([leastSeen : Nodes, newcomer : Nodes, age : Ages])
    /\ checkTimer \in Nat
    /\ m_pubkDiscoverPings \subseteq Nodes
    /\ m_findNodeTimeout \subseteq Nodes \X BOOLEAN
    /\ discovery \in 0 .. s_maxSteps
    /\ tried \subseteq Entries
    /\ adding \in [Clients -> Nodes \cup {None}]
    /\ toRestore \subseteq Restored
    /\ lastEvent \in [Nodes -> {"none", "added", "dropped"}]

Init ==
    /\ m_nodes = [n \in Nodes |-> [gen |-> 0, pending |-> FALSE]]
    /\ m_state = [b \in Bins |-> <<>>]
    /\ m_evictions = <<>>
    /\ checkTimer = 0
    /\ m_pubkDiscoverPings = {}
    /\ m_findNodeTimeout = {}
    /\ discovery = 0
    /\ tried = {}
    /\ adding = [c \in Clients |-> None]
    /\ toRestore = Restored
    /\ lastEvent = [n \in Nodes |-> "none"]

-----------------------------------------------------------------------------
(* Entries.                                                                *)

haveNode(nodes, n) == nodes[n].gen > 0

entryOf(nodes, n) == [id |-> n, gen |-> nodes[n].gen]

\* weak_ptr::lock(): somebody still owns the entry.
locks(nodes, e) == e = entryOf(nodes, e.id) \/ e \in tried

\* m_nodes[n] = make_shared<NodeEntry>(...) for each n of ns.
insertEntries(ns, pending) ==
    [n \in Nodes |-> IF n \in ns THEN [gen |-> m_nodes[n].gen + 1, pending |-> pending]
                                 ELSE m_nodes[n]]

\* addNode(Unknown) for nodes whose id and endpoint are known.
addNodes(ns) == insertEntries({n \in ns : ~haveNode(m_nodes, n)}, TRUE)

roomFor(ns) == \A n \in ns : m_nodes[n].gen < MaxGen

-----------------------------------------------------------------------------
(* noteActiveNode and the operations it calls.                             *)

noEviction == UNCHANGED <<m_evictions, checkTimer>>

evict(leastSeen, new) ==
    /\ Len(m_evictions) < MaxEvictions
    /\ m_evictions' = Append(m_evictions, [leastSeen |-> leastSeen, newcomer |-> new, age |-> 0])
    /\ checkTimer' = IF Len(m_evictions') = 1 THEN checkTimer + 1 ELSE checkTimer

\* What remove_if leaves of a bucket.  Its predicate returns the captured
\* flag "removed", which stays true: every node after e goes as well.
afterRemoveIf(bucket, e) ==
    IF Contains(bucket, e) THEN SubSeq(bucket, 1, SelectInSeq(bucket, LAMBDA x : x = e) - 1)
                           ELSE bucket

pushBack(b, bucket, e, removed) ==
    /\ m_state' = [m_state EXCEPT ![b] = Append(bucket, e)]
    /\ lastEvent' = IF removed THEN lastEvent ELSE [lastEvent EXCEPT ![e.id] = "added"]
    /\ noEviction

\* Faulty variant: a bucket is full only beyond s_bucketSize.
touchOffByOne(nodes, n) ==
    LET e == entryOf(nodes, n)
        b == bucketOf[n]
        kept == afterRemoveIf(m_state[b], e)
    IN  \/ /\ Len(kept) <= s_bucketSize
           /\ pushBack(b, kept, e, Contains(m_state[b], e))
        \/ /\ Len(kept) > s_bucketSize /\ locks(nodes, Head(kept))
           /\ evict(Head(kept).id, n)
           /\ UNCHANGED <<m_state, lastEvent>>

\* An entry that is not pending moves to the back of its bucket, or
\* contests the place of the least recently seen one.
touch(nodes, n) ==
    LET e == entryOf(nodes, n)
        b == bucketOf[n]
        kept == afterRemoveIf(m_state[b], e)
        removed == Contains(m_state[b], e)
    IN  \/ /\ Len(kept) < s_bucketSize
           /\ pushBack(b, kept, e, removed)
        \/ /\ Len(kept) >= s_bucketSize /\ ~locks(nodes, Head(kept))
           /\ pushBack(b, Tail(kept), e, removed)
        \/ /\ Len(kept) >= s_bucketSize /\ locks(nodes, Head(kept))
           /\ evict(Head(kept).id, n)
           /\ UNCHANGED <<m_state, lastEvent>>

isActive(nodes, n) ==
    n # Self /\ n \in Allowed /\ haveNode(nodes, n) /\ ~nodes[n].pending

noteActiveNode(nodes, n) ==
    \/ isActive(nodes, n) /\ touch(nodes, n)
    \/ ~isActive(nodes, n) /\ UNCHANGED <<m_state, lastEvent>> /\ noEviction

\* Faulty variant: the Host is told, the entry stays.
dropNodesOnlyTelling(nodes, ns) ==
    /\ UNCHANGED m_state
    /\ lastEvent' = [n \in Nodes |-> IF n \in ns THEN "dropped" ELSE lastEvent[n]]

\* What is left of a bucket when some entries leave it.
without(bucket, gone) ==
    LET left[i \in 0 .. Len(bucket)] ==
            IF i = 0 THEN <<>>
            ELSE IF bucket[i] \in gone THEN left[i - 1] ELSE Append(left[i - 1], bucket[i])
    IN  left[Len(bucket)]

\* dropNode for each n of ns: the entry leaves its bucket, the Host is told.
dropNodes(nodes, ns) ==
    /\ m_state' = [b \in Bins |-> without(m_state[b], {entryOf(nodes, n) : n \in ns})]
    /\ lastEvent' = [n \in Nodes |-> IF n \in ns THEN "dropped" ELSE lastEvent[n]]

-----------------------------------------------------------------------------
(* Calls.                                                                  *)

\* Host::restoreNetwork, on the Worker thread before it polls for packets.
AddNodeKnown(n) ==
    /\ n \in toRestore /\ roomFor({n})
    /\ toRestore' = toRestore \ {n}
    /\ m_nodes' = insertEntries({n}, FALSE)
    /\ noteActiveNode(m_nodes', n)
    /\ UNCHANGED <<m_pubkDiscoverPings, m_findNodeTimeout, discovery, tried, adding>>

\* A client finds the id absent under x_nodes and releases the mutex ...
ClientFindsAbsent(c, n) ==
    /\ adding[c] = None /\ ~haveNode(m_nodes, n)
    /\ adding' = [adding EXCEPT ![c] = n]
    /\ UNCHANGED <<m_nodes, m_state, m_evictions, checkTimer, m_pubkDiscoverPings,
                   m_findNodeTimeout, discovery, tried, toRestore, lastEvent>>

\* ... then takes it again to insert a pending entry, and sends a Ping.
ClientInserts(c) ==
    /\ adding[c] # None /\ roomFor({adding[c]})
    /\ m_nodes' = insertEntries({adding[c]}, TRUE)
    /\ adding' = [adding EXCEPT ![c] = None]
    /\ UNCHANGED <<m_state, m_evictions, checkTimer, m_pubkDiscoverPings,
                   m_findNodeTimeout, discovery, tried, toRestore, lastEvent>>

\* addNode with an endpoint and no id.
ClientPingsAddress(c, n) ==
    /\ adding[c] = None
    /\ m_pubkDiscoverPings' = m_pubkDiscoverPings \cup {n}
    /\ UNCHANGED <<m_nodes, m_state, m_evictions, checkTimer, m_findNodeTimeout,
                   discovery, tried, adding, toRestore, lastEvent>>

-----------------------------------------------------------------------------
(* Packets: onReceived.                                                    *)

polling == toRestore = {}

\* it->first.second > steady_clock::now(): the Ping was sent in the future.
sentLater(e) == e.age < 0

\* The evictions a Pong of n settles: those whose Ping was sent later than
\* now.  There are none, and the branch that drops the newcomer and erases
\* the entry (NodeTable.cpp:426-432) is never taken.
pongAnswers(n) == {i \in DOMAIN m_evictions : m_evictions[i].leastSeen = n /\ sentLater(m_evictions[i])}

ReceivePong(n) ==
    /\ polling /\ pongAnswers(n) = {}
    /\ \/ /\ haveNode(m_nodes, n)
          /\ m_nodes' = [m_nodes EXCEPT ![n].pending = FALSE]
          /\ UNCHANGED m_pubkDiscoverPings
       \/ /\ ~haveNode(m_nodes, n)
          /\ n \in m_pubkDiscoverPings /\ roomFor({n})
          /\ m_pubkDiscoverPings' = m_pubkDiscoverPings \ {n}
          /\ m_nodes' = addNodes({n})
    /\ noteActiveNode(m_nodes', n)
    /\ UNCHANGED <<m_findNodeTimeout, discovery, tried, adding, toRestore>>

\* Neighbours of a node that was not asked in the last c_reqTimeout are
\* dropped, but their sender is active all the same.  Those the table knows
\* already change nothing.
ReceiveNeighbours(n) ==
    /\ polling
    /\ m_findNodeTimeout' = m_findNodeTimeout \ {<<n, FALSE>>}
    /\ \/ /\ <<n, TRUE>> \in m_findNodeTimeout
          /\ \E ns \in SUBSET {x \in Nodes : ~haveNode(m_nodes, x)} :
               roomFor(ns) /\ m_nodes' = addNodes(ns)
       \/ /\ <<n, TRUE>> \notin m_findNodeTimeout
          /\ UNCHANGED m_nodes
    /\ noteActiveNode(m_nodes', n)
    /\ UNCHANGED <<m_pubkDiscoverPings, discovery, tried, adding, toRestore>>

\* The answer is sent from the table, which does not change.
ReceiveFindNode(n) ==
    /\ polling
    /\ noteActiveNode(m_nodes, n)
    /\ UNCHANGED <<m_nodes, m_pubkDiscoverPings, m_findNodeTimeout, discovery, tried,
                   adding, toRestore>>

ReceivePing(n) ==
    /\ polling /\ (haveNode(m_nodes, n) \/ roomFor({n}))
    /\ m_nodes' = addNodes({n})
    /\ noteActiveNode(m_nodes', n)
    /\ UNCHANGED <<m_pubkDiscoverPings, m_findNodeTimeout, discovery, tried, adding, toRestore>>

-----------------------------------------------------------------------------
(* Timers.                                                                 *)

timedOut == {i \in DOMAIN m_evictions : m_evictions[i].age > c_reqTimeout}

\* The check drops the newcomer of each entry that timed out, leaves the
\* entry in the queue, and goes on only while some entry has not timed out.
CheckEvictions ==
    /\ polling /\ checkTimer > 0
    /\ dropNodes(m_nodes, {m_evictions[i].newcomer : i \in timedOut})
    /\ checkTimer' = IF Len(m_evictions) - Cardinality(timedOut) > 0 THEN checkTimer
                                                                     ELSE checkTimer - 1
    /\ UNCHANGED <<m_nodes, m_evictions, m_pubkDiscoverPings, m_findNodeTimeout,
                   discovery, tried, adding, toRestore>>

\* The entries nearestNodeEntries can return: those of the buckets.
inBuckets(nodes) ==
    {e \in UNION {ToSet(m_state[b]) : b \in Bins} : locks(nodes, e) /\ e.id \in Allowed}

\* Asks up to s_alpha entries that this discovery has not tried.  It ends
\* after s_maxSteps rounds, or when nothing near the target is left to try.
doDiscover(round, held) ==
    \/ /\ discovery' = 0 /\ tried' = {}
       /\ UNCHANGED m_findNodeTimeout
    \/ /\ round < s_maxSteps
       /\ \E asked \in SUBSET (inBuckets(m_nodes) \ held) \ {{}} :
            /\ Cardinality(asked) <= s_alpha
            /\ m_findNodeTimeout' = m_findNodeTimeout \cup {<<e.id, TRUE>> : e \in asked}
            /\ discovery' = round + 1
            /\ tried' = held \cup asked

DiscoveryTimer ==
    /\ polling
    /\ doDiscover(discovery, tried)
    /\ UNCHANGED <<m_nodes, m_state, m_evictions, checkTimer, m_pubkDiscoverPings, adding,
                   toRestore, lastEvent>>

\* Time passes.
Tick ==
    /\ m_evictions' = [i \in DOMAIN m_evictions |->
            [m_evictions[i] EXCEPT !.age = IF @ > c_reqTimeout THEN @ ELSE @ + 1]]
    /\ m_findNodeTimeout' = {<<t[1], FALSE>> : t \in m_findNodeTimeout}
    /\ UNCHANGED <<m_nodes, m_state, checkTimer, m_pubkDiscoverPings, discovery, tried,
                   adding, toRestore, lastEvent>>

Receive(n) ==
    \/ ReceivePong(n)
    \/ ReceiveNeighbours(n)
    \/ ReceiveFindNode(n)
    \/ ReceivePing(n)

Next ==
    \/ \E n \in Restored : AddNodeKnown(n)
    \/ \E c \in Clients, n \in Nodes : ClientFindsAbsent(c, n) \/ ClientPingsAddress(c, n)
    \/ \E c \in Clients : ClientInserts(c)
    \/ \E n \in Nodes : Receive(n)
    \/ CheckEvictions
    \/ DiscoveryTimer
    \/ Tick

Spec == Init /\ [][Next]_vars

-----------------------------------------------------------------------------
(* Properties that hold.                                                   *)

entriesOf(b) == ToSet(m_state[b])

\* noteActiveNode moves, appends or contests: no bucket outgrows
\* s_bucketSize, holds an entry twice, or holds a node of another bucket.
BucketsSound ==
    \A b \in Bins :
        /\ Len(m_state[b]) <= s_bucketSize
        /\ IsInjective(m_state[b])
        /\ \A e \in entriesOf(b) : bucketOf[e.id] = b

\* A node enters a bucket only after its Pong, or from the saved file, and
\* this node never does: bucket_UNSAFE is not called with distance 0.
OnlyAnsweredInTable ==
    \A b \in Bins : \A e \in entriesOf(b) :
        /\ e.id # Self
        /\ e = entryOf(m_nodes, e.id) => ~m_nodes[e.id].pending

\* What the Host was last told of a node it can find in the table is that
\* it was added, whatever dropNode and the replacement of entries did since.
TabledNodesAnnounced ==
    \A b \in Bins : \A e \in entriesOf(b) :
        e = entryOf(m_nodes, e.id) => lastEvent[e.id] = "added"

\* However many nodes are contested, one eviction check is scheduled.
OneCheckScheduled == checkTimer <= 1

\* What noteActiveNode, evict and dropNode keep of the table together: sound
\* buckets of nodes that have answered, and one eviction check.
TableSound == BucketsSound /\ OnlyAnsweredInTable /\ OneCheckScheduled

\* An id's entry in a bucket is the current one or an older one.
EntriesKnown ==
    \A b \in Bins : \A e \in entriesOf(b) : e.gen <= m_nodes[e.id].gen

\* An eviction check is scheduled for a contested node only.
CheckHasReason == m_evictions = <<>> => checkTimer = 0

\* What the table, its entries, the evictions and what the Host was told have
\* to do with each other.
TableInv ==
    TypeOK /\ TableSound /\ TabledNodesAnnounced /\ EntriesKnown /\ CheckHasReason

-----------------------------------------------------------------------------
(* What the comments of NodeTable.h say, and the code does not do.         *)

current == {n \in Nodes : entryOf(m_nodes, n) \in entriesOf(bucketOf[n])}

\* NodeTable.h:97: the table "passes events to Host whenever a node is
\* added or removed to/from the table".
RemovalsReported ==
    [][\A n \in current \ current' : lastEvent'[n] = "dropped"]_vars

\* NodeTable.cpp:414: "whenever a pong is received, check if it's in
\* m_evictions": a Pong in time ends an eviction.
PongEndsEviction ==
    [][\A n \in Nodes : ReceivePong(n) =>
        \A i \in DOMAIN m_evictions :
            m_evictions[i].leastSeen = n /\ m_evictions[i].age <= c_reqTimeout
                => Len(m_evictions') < Len(m_evictions)]_vars
=============================================================================
