------------------------------ MODULE HostPeers ------------------------------
(***************************************************************************)
(* The peers of dev::p2p::Host (libp2p/Host.cpp): which peers it knows,    *)
(* which it is connecting to, which handshakes and sessions are alive, the *)
(* scheduler run() that opens connections, and what doneWorking closes.    *)
(*                                                                         *)
(* Handlers run one at a time on the service thread; client threads call   *)
(* requirePeer, relinquishPeer, stop and start at any time.  A Peer object *)
(* is <<id, gen>>: m_peers may replace the object of an id.  Handshakes    *)
(* and Sessions are seen from the Host: they succeed, fail or end.         *)
(***************************************************************************)
EXTENDS Integers, FiniteSets, FiniteSetsExt

CONSTANTS
    Ids,            \* node ids of the peers
    Clients,        \* threads that call the Host
    None,           \* no id
    m_idealPeerCount, m_stretchPeers,
    pin,            \* m_netPrefs.pin: only required peers
    Saved,          \* peers of the saved network, restored by every start
    SavedRequired,  \* those saved as required
    MaxGen,         \* bound: Peer objects created for an id
    MaxHandshakes   \* bound: handshakes alive with one id

ASSUME PeersAssumption ==
    /\ IsFiniteSet(Ids) /\ None \notin Ids /\ SavedRequired \subseteq Saved /\ Saved \subseteq Ids
    /\ m_idealPeerCount \in Nat /\ m_stretchPeers \in Nat \ {0} /\ pin \in BOOLEAN
    /\ MaxGen \in Nat \ {0} /\ MaxHandshakes \in Nat \ {0}

VARIABLES
    phase,          \* where the service thread is: starting, serving, stopping
    m_run,
    cutShort,       \* a handler threw out of the last doneWorking
    net,            \* "events" while run() is handing out node table events
    m_peers,        \* the current Peer object of an id, and its peerType
    m_requiredPeers,
    m_pendingPeerConns, \* Peer objects with a TCP connect in progress
    m_connecting,   \* handshakes alive, by id
    m_sessions,     \* what the weak pointer m_sessions[id] refers to
    known,          \* ids in the node table's m_nodes
    events,         \* node table events not processed yet
    batch,          \* node table events run() is processing
    rested,         \* ids whose fallback time since the last attempt is over
    requiring       \* the id a client is about to write to m_peers

vars == <<phase, m_run, cutShort, net, m_peers, m_requiredPeers, m_pendingPeerConns, m_connecting,
          m_sessions, known, events, batch, rested, requiring>>

StartPhases == {"armed", "tabled", "restored"}

Phases == StartPhases \cup {"down", "up", "hung", "drain", "cancel", "pollHandshakes",
                            "disconnect", "pollSessions"}

EventMap == [Ids -> {"none", "added", "dropped"}]

NoEvents == [id \in Ids |-> "none"]

\* The node table lives until run() finds m_run reset.
haveNodeTable == phase \in {"tabled", "restored", "up", "hung"}

\* The values the variables take; what belongs to the node table goes with it.
TypeOK ==
    /\ phase \in Phases /\ m_run \in BOOLEAN /\ cutShort \in BOOLEAN
    /\ net \in {"idle", "events"}
    /\ m_peers \in [Ids -> [gen : 0 .. MaxGen, type : {"none", "Optional", "Required"}]]
    /\ m_requiredPeers \subseteq Ids
    /\ m_pendingPeerConns \subseteq Ids \X (1 .. MaxGen)
    /\ m_connecting \in [Ids -> 0 .. MaxHandshakes]
    /\ m_sessions \in [Ids -> {"none", "connected", "closed", "expired"}]
    /\ known \subseteq Ids
    /\ ~haveNodeTable => known = {} /\ events = NoEvents
    /\ events \in EventMap /\ batch \in EventMap
    /\ batch = NoEvents \/ net = "events"
    /\ rested \subseteq Ids
    /\ requiring \in [Clients -> Ids \cup {None}]

Init ==
    /\ phase = "down" /\ m_run = FALSE /\ cutShort = FALSE
    /\ net = "idle"
    /\ m_peers = [id \in Ids |-> [gen |-> 0, type |-> "none"]]
    /\ m_requiredPeers = {}
    /\ m_pendingPeerConns = {}
    /\ m_connecting = [id \in Ids |-> 0]
    /\ m_sessions = [id \in Ids |-> "none"]
    /\ known = {}
    /\ events = NoEvents /\ batch = NoEvents
    /\ rested = Ids
    /\ requiring = [c \in Clients |-> None]

-----------------------------------------------------------------------------
(* Peers, sessions and slots.                                              *)

\* The service thread may execute handlers: run() or poll().
polling == net = "idle" /\ phase \in {"up", "drain", "pollHandshakes", "pollSessions"}

havePeer(id) == m_peers[id].type # "none"

object(id) == <<id, m_peers[id].gen>>

\* make_shared<Peer>: the ids get new objects, some of them required.
createPeers(ids, requiredIds) ==
    [id \in Ids |->
        IF id \notin ids THEN m_peers[id]
        ELSE [gen |-> m_peers[id].gen + 1,
              type |-> IF id \in requiredIds THEN "Required" ELSE "Optional"]]

\* The bound: an id that loses its object can always get another one.
mayReplace(ids) == \A id \in ids : m_peers[id].gen < MaxGen

\* A session that is no longer connected keeps its id until its last
\* asynchronous operation has let go of it.
havePeerSession(id) == m_sessions[id] \in {"connected", "closed"}

connected == {id \in Ids : m_sessions[id] = "connected"}

peerCount == Cardinality(connected)

peerSlots(type) ==
    IF type = "Egress" THEN m_idealPeerCount ELSE m_idealPeerCount * m_stretchPeers

\* Faulty variant: one session more than there are slots.
peerSlotsAvailableOffByOne(type) ==
    peerCount + Cardinality(m_pendingPeerConns) <= peerSlots(type)

peerSlotsAvailable(type) ==
    peerCount + Cardinality(m_pendingPeerConns) < peerSlots(type)

\* connect(p) for the peers of ids, by their objects in peers: those that
\* neither have a session, nor are being connected to, nor are unknown.
connect(peers, ids) ==
    LET attempted == {id \in ids :
            /\ m_run /\ ~havePeerSession(id)
            /\ id \in known \/ peers[id].type = "Required"
            /\ <<id, peers[id].gen>> \notin m_pendingPeerConns}
    IN  /\ m_pendingPeerConns' =
                m_pendingPeerConns \cup {<<id, peers[id].gen>> : id \in attempted}
        /\ rested' = rested \ attempted

-----------------------------------------------------------------------------
(* The scheduler: run().                                                   *)

\* startedWorking calls run() for the first time, the timer from then on.
BeginRun ==
    /\ phase \in {"restored", "up"} /\ net = "idle" /\ m_run
    /\ phase' = "up"
    /\ net' = "events"
    /\ batch' = events
    /\ events' = NoEvents
    /\ UNCHANGED <<m_run, cutShort, m_peers, m_requiredPeers, m_pendingPeerConns, m_connecting,
                   m_sessions, known, rested, requiring>>

\* onNodeTableEvent(id, NodeEntryAdded).
NodeEntryAdded(id) ==
    /\ net = "events" /\ batch[id] = "added"
    /\ batch' = [batch EXCEPT ![id] = "none"]
    /\ \/ /\ id \in known
          /\ m_peers' = IF havePeer(id) THEN m_peers
                                        ELSE createPeers({id}, {})
          /\ \/ peerSlotsAvailable("Egress") /\ connect(m_peers', {id})
             \/ ~peerSlotsAvailable("Egress") /\ UNCHANGED <<m_pendingPeerConns, rested>>
       \/ /\ id \notin known
          /\ UNCHANGED <<m_peers, m_pendingPeerConns, rested>>
    /\ UNCHANGED <<phase, m_run, cutShort, net, m_requiredPeers, m_connecting, m_sessions, known, events, requiring>>

\* onNodeTableEvent(id, NodeEntryDropped).
NodeEntryDropped(id) ==
    /\ net = "events" /\ batch[id] = "dropped"
    /\ batch' = [batch EXCEPT ![id] = "none"]
    /\ m_peers' = IF m_peers[id].type = "Optional" THEN [m_peers EXCEPT ![id].type = "none"]
                                                   ELSE m_peers
    /\ UNCHANGED <<phase, m_run, cutShort, net, m_requiredPeers, m_pendingPeerConns, m_connecting, m_sessions,
                   known, events, rested, requiring>>

\* The peers run() may connect to.
candidates ==
    {id \in Ids : /\ havePeer(id) /\ ~havePeerSession(id) /\ id \in rested
                  /\ ~pin \/ m_peers[id].type = "Required"}

required == {id \in Ids : m_peers[id].type = "Required"}

\* Faulty variant: ++reqConn < m_idealPeerCount.
requiredTurnsPreIncremented(reqConn) == m_idealPeerCount - 1 - reqConn

\* How many required candidates pass reqConn++ < m_idealPeerCount.
requiredTurns(reqConn) == m_idealPeerCount - reqConn

\* The optional candidates that pass "openSlots--" are, in the order of the
\* map, the first openSlots, and, the counter having become negative, all
\* those after the next one.
optionalTurns(optional, openSlots) ==
    IF openSlots <= 0 THEN {{}}
    ELSE IF Cardinality(optional) <= openSlots THEN {optional}
    ELSE {optional \ {id} : id \in optional}

\* keepAlivePeers, when it is time, erases the entries of expired sessions.
keepAlivePeers ==
    \/ UNCHANGED m_sessions
    \/ m_sessions' = [id \in Ids |-> IF m_sessions[id] = "expired" THEN "none" ELSE m_sessions[id]]

FinishRun ==
    LET reqConn == Cardinality({id \in required : havePeerSession(id)})
        wanted == candidates \cap required
        optional == candidates \ required
        turns == Min({Cardinality(wanted), Max({0, requiredTurns(reqConn)})})
    IN  /\ net = "events" /\ batch = NoEvents
        /\ net' = "idle"
        /\ keepAlivePeers
        /\ \E first \in kSubset(turns, wanted) :
             LET pending == m_pendingPeerConns \cup {object(id) : id \in first}
                 openSlots == m_idealPeerCount - peerCount - Cardinality(pending)
                                + reqConn + Cardinality(wanted)
             IN  \E then \in IF pin THEN {{}} ELSE optionalTurns(optional, openSlots) :
                    connect(m_peers, first \cup then)
        /\ UNCHANGED <<phase, m_run, cutShort, m_peers, m_requiredPeers, m_connecting, known, events, batch, requiring>>

-----------------------------------------------------------------------------
(* Handlers of connections, handshakes and sessions.                       *)

\* The handler of async_connect, which does not ask m_run.
ConnectCompletes(p) ==
    /\ polling /\ p \in m_pendingPeerConns
    /\ m_pendingPeerConns' = m_pendingPeerConns \ {p}
    /\ rested' = IF p = object(p[1]) THEN rested \ {p[1]} ELSE rested
    /\ \/ UNCHANGED m_connecting
       \/ /\ m_connecting[p[1]] < MaxHandshakes
          /\ m_connecting' = [m_connecting EXCEPT ![p[1]] = @ + 1]
    /\ UNCHANGED <<phase, m_run, cutShort, net, m_peers, m_requiredPeers, m_sessions, known, events, batch, requiring>>

\* The handler of async_accept: the id is the one the handshake will find.
Accept(id) ==
    /\ polling /\ m_run
    /\ peerCount <= peerSlots("Ingress")
    /\ m_connecting[id] < MaxHandshakes
    /\ m_connecting' = [m_connecting EXCEPT ![id] = @ + 1]
    /\ UNCHANGED <<phase, m_run, cutShort, net, m_peers, m_requiredPeers, m_pendingPeerConns, m_sessions, known,
                   events, batch, rested, requiring>>

HandshakeFails(id) ==
    /\ polling /\ m_connecting[id] > 0
    /\ m_connecting' = [m_connecting EXCEPT ![id] = @ - 1]
    /\ UNCHANGED <<phase, m_run, cutShort, net, m_peers, m_requiredPeers, m_pendingPeerConns, m_sessions, known,
                   events, batch, rested, requiring>>

\* startPeerSession at the end of a handshake.  The Hello may name another
\* id, a protocol that is too old, or no capability of ours; the session may
\* be refused as unexpected, duplicate or one too many.
startPeerSession(id) ==
    /\ polling /\ m_connecting[id] > 0
    /\ m_connecting' = [m_connecting EXCEPT ![id] = @ - 1]
    /\ m_peers' = IF havePeer(id) THEN m_peers ELSE createPeers({id}, {})
    /\ \/ UNCHANGED m_sessions
       \/ /\ pin => id \in m_requiredPeers
          /\ m_sessions[id] # "connected"
          /\ peerSlotsAvailable("Ingress")
          /\ m_sessions' = [m_sessions EXCEPT ![id] = "connected"]
    /\ UNCHANGED <<phase, m_run, cutShort, net, m_requiredPeers, m_pendingPeerConns, known, events, batch, rested, requiring>>

\* A session is dropped, by either side.
SessionCloses(id) ==
    /\ polling /\ m_sessions[id] = "connected"
    /\ m_sessions' = [m_sessions EXCEPT ![id] = "closed"]
    /\ UNCHANGED <<phase, m_run, cutShort, net, m_peers, m_requiredPeers, m_pendingPeerConns, m_connecting, known,
                   events, batch, rested, requiring>>

\* The last handler that refers to a closed session has run.
SessionExpires(id) ==
    /\ polling /\ m_sessions[id] = "closed"
    /\ m_sessions' = [m_sessions EXCEPT ![id] = "expired"]
    /\ UNCHANGED <<phase, m_run, cutShort, net, m_peers, m_requiredPeers, m_pendingPeerConns, m_connecting, known,
                   events, batch, rested, requiring>>

-----------------------------------------------------------------------------
(* The node table, seen from the Host: it learns nodes, and appends events *)
(* that replace older ones of the same node.                               *)

NodeLearnt(id) ==
    /\ haveNodeTable /\ id \notin known
    /\ known' = known \cup {id}
    /\ UNCHANGED <<phase, m_run, cutShort, net, m_peers, m_requiredPeers, m_pendingPeerConns, m_connecting,
                   m_sessions, events, batch, rested, requiring>>

appendEvent(id, e) ==
    /\ polling /\ haveNodeTable /\ id \in known
    /\ e = "dropped" => havePeer(id) /\ mayReplace({id})
    /\ events' = [events EXCEPT ![id] = e]
    /\ UNCHANGED <<phase, m_run, cutShort, net, m_peers, m_requiredPeers, m_pendingPeerConns, m_connecting,
                   m_sessions, known, batch, rested, requiring>>

FallbackOver(id) ==
    /\ id \notin rested
    /\ rested' = rested \cup {id}
    /\ UNCHANGED <<phase, m_run, cutShort, net, m_peers, m_requiredPeers, m_pendingPeerConns, m_connecting,
                   m_sessions, known, events, batch, requiring>>

-----------------------------------------------------------------------------
(* Clients.                                                                *)

\* m_requiredPeers is written without its mutex, and m_peers later.
requirePeer(c, id) ==
    /\ requiring[c] = None
    /\ m_requiredPeers' = m_requiredPeers \cup {id}
    /\ requiring' = IF m_run THEN [requiring EXCEPT ![c] = id] ELSE requiring
    /\ UNCHANGED <<phase, m_run, cutShort, net, m_peers, m_pendingPeerConns, m_connecting, m_sessions, known,
                   events, batch, rested>>

\* The rest of requirePeer, by when the network may be down.
PeerRequired(c) ==
    LET id == requiring[c]
    IN  /\ id # None
        /\ m_peers' = IF havePeer(id) THEN [m_peers EXCEPT ![id].type = "Required"]
                                      ELSE createPeers({id}, {id})
        /\ known' = IF haveNodeTable THEN known \cup {id} ELSE known
        /\ requiring' = [requiring EXCEPT ![c] = None]
        /\ UNCHANGED <<phase, m_run, cutShort, net, m_requiredPeers, m_pendingPeerConns, m_connecting, m_sessions,
                       events, batch, rested>>

\* The Peer stays a required one.
relinquishPeer(id) ==
    /\ id \in m_requiredPeers
    /\ m_requiredPeers' = m_requiredPeers \ {id}
    /\ UNCHANGED <<phase, m_run, cutShort, net, m_peers, m_pendingPeerConns, m_connecting, m_sessions, known,
                   events, batch, rested, requiring>>

Stop ==
    /\ m_run
    /\ m_run' = FALSE
    /\ UNCHANGED <<phase, cutShort, net, m_peers, m_requiredPeers, m_pendingPeerConns,
                   m_connecting, m_sessions, known, events, batch, rested, requiring>>

-----------------------------------------------------------------------------
(* startedWorking: each step leaves room for clients, which find m_run set *)
(* from the first one on.                                                  *)

Start ==
    /\ phase = "down"
    /\ phase' = "armed"
    /\ m_run' = TRUE
    /\ UNCHANGED <<cutShort, net, m_peers, m_requiredPeers, m_pendingPeerConns, m_connecting,
                   m_sessions, known, events, batch, rested, requiring>>

CreateNodeTable ==
    /\ phase = "armed"
    /\ phase' = "tabled"
    /\ UNCHANGED <<m_run, cutShort, net, m_peers, m_requiredPeers, m_pendingPeerConns,
                   m_connecting, m_sessions, known, events, batch, rested, requiring>>

\* restoreNetwork, under x_sessions: the saved peers get new Peer objects,
\* whatever clients have required meanwhile, unless m_dropPeers is set or
\* nothing was saved.  The node table notes those it has room for; a required
\* one is passed to requirePeer.
RestoreNetwork ==
    /\ phase = "tabled"
    /\ phase' = "restored"
    /\ \E ids \in {{}, Saved} :
         /\ mayReplace(ids)
         /\ m_peers' = createPeers(ids, SavedRequired)
         /\ m_requiredPeers' = m_requiredPeers \cup (SavedRequired \cap ids)
         /\ known' = known \cup (IF m_run THEN ids ELSE ids \ SavedRequired)
         /\ rested' = rested \cup ids
         /\ \E noted \in SUBSET (ids \ SavedRequired) :
              events' = [id \in Ids |-> IF id \in noted THEN "added" ELSE "none"]
    /\ UNCHANGED <<m_run, cutShort, net, m_pendingPeerConns, m_connecting, m_sessions, batch,
                   requiring>>

-----------------------------------------------------------------------------
(* The shutdown: run() without m_run, then doneWorking.                    *)

\* run() resets the node table and stops the io_service.
Shutdown ==
    /\ phase \in {"restored", "up"} /\ net = "idle" /\ ~m_run
    /\ phase' = "drain"
    /\ known' = {} /\ events' = NoEvents
    /\ UNCHANGED <<m_run, cutShort, net, m_peers, m_requiredPeers, m_pendingPeerConns,
                   m_connecting, m_sessions, batch, rested, requiring>>

\* while (m_accepting) m_ioService.poll(); then the capabilities are told.
Drained ==
    /\ phase = "drain"
    /\ phase' = "cancel"
    /\ UNCHANGED <<m_run, cutShort, net, m_peers, m_requiredPeers, m_pendingPeerConns, m_connecting, m_sessions,
                   known, events, batch, rested, requiring>>

\* Each round cancels all handshakes and polls, until there are none.  A
\* cancelled handshake makes no further progress.
CancelHandshakes ==
    /\ phase = "cancel"
    /\ m_connecting' = [id \in Ids |-> 0]
    /\ phase' = IF m_connecting = m_connecting' THEN "disconnect" ELSE "pollHandshakes"
    /\ UNCHANGED <<m_run, cutShort, net, m_peers, m_requiredPeers, m_pendingPeerConns, m_sessions, known, events,
                   batch, rested, requiring>>

HandshakesPolled ==
    /\ phase = "pollHandshakes"
    /\ phase' = "cancel"
    /\ UNCHANGED <<m_run, cutShort, net, m_peers, m_requiredPeers, m_pendingPeerConns, m_connecting, m_sessions,
                   known, events, batch, rested, requiring>>

\* Faulty variant: the sessions are closed once, before the last poll.
SessionsPolledOnce ==
    /\ phase = "pollSessions"
    /\ phase' = "down"
    /\ UNCHANGED <<m_run, cutShort, net, m_peers, m_requiredPeers, m_pendingPeerConns, m_connecting, m_sessions,
                   known, events, batch, rested, requiring>>

\* The same for the sessions, which are forgotten in the end.
DisconnectSessions ==
    /\ phase = "disconnect"
    /\ \/ /\ connected # {}
          /\ phase' = "pollSessions"
          /\ m_sessions' = [id \in Ids |-> IF id \in connected THEN "closed" ELSE m_sessions[id]]
          /\ UNCHANGED cutShort
       \/ /\ connected = {}
          /\ phase' = "down"
          /\ m_sessions' = [id \in Ids |-> "none"]
          /\ cutShort' = FALSE
    /\ UNCHANGED <<m_run, net, m_peers, m_requiredPeers, m_pendingPeerConns, m_connecting, known, events,
                   batch, rested, requiring>>

SessionsPolled ==
    /\ phase = "pollSessions"
    /\ phase' = "disconnect"
    /\ UNCHANGED <<m_run, cutShort, net, m_peers, m_requiredPeers, m_pendingPeerConns, m_connecting, m_sessions,
                   known, events, batch, rested, requiring>>

\* A handler of a handshake, cancelled ones included, throws: those of
\* RLPXHandshake look into what they decrypted without a try.  doWork catches
\* what leaves run(), but only goes on while m_run is set; what leaves poll()
\* ends doneWorking.
HandlerThrows ==
    /\ polling
    /\ phase = "pollHandshakes" \/ \E id \in Ids : m_connecting[id] > 0
    /\ \/ /\ phase = "up" /\ ~m_run
          /\ phase' = "hung"
          /\ UNCHANGED cutShort
       \/ /\ phase # "up"
          /\ phase' = "down"
          /\ cutShort' = TRUE
    /\ UNCHANGED <<m_run, net, m_peers, m_requiredPeers, m_pendingPeerConns, m_connecting,
                   m_sessions, known, events, batch, rested, requiring>>

-----------------------------------------------------------------------------
Scheduler ==
    \/ BeginRun
    \/ \E id \in Ids : NodeEntryAdded(id) \/ NodeEntryDropped(id)
    \/ FinishRun

StartedWorking == CreateNodeTable \/ RestoreNetwork

DoneWorking ==
    Shutdown \/ Drained \/ CancelHandshakes \/ HandshakesPolled \/ DisconnectSessions \/ SessionsPolled

Next ==
    \/ Scheduler
    \/ DoneWorking
    \/ \E p \in m_pendingPeerConns : ConnectCompletes(p)
    \/ \E id \in Ids : Accept(id) \/ HandshakeFails(id) \/ startPeerSession(id)
                         \/ SessionCloses(id) \/ SessionExpires(id)
    \/ \E id \in Ids : NodeLearnt(id) \/ FallbackOver(id) \/ relinquishPeer(id)
    \/ \E id \in Ids, e \in {"added", "dropped"} : appendEvent(id, e)
    \/ \E c \in Clients : PeerRequired(c) \/ \E id \in Ids : requirePeer(c, id)
    \/ Start \/ StartedWorking
    \/ HandlerThrows
    \/ Stop

Spec == Init /\ [][Next]_vars

\* The timer of run() expires, the service thread goes on, time passes, and
\* operations on a closed socket complete: their handlers are queued, between
\* one run() and the next, and the queue is served in order.
Fairness ==
    /\ WF_vars(StartedWorking)
    /\ WF_vars(Scheduler)
    /\ WF_vars(DoneWorking)
    /\ \A id \in Ids : WF_vars(FallbackOver(id)) /\ SF_vars(SessionExpires(id))

FairSpec == Spec /\ Fairness

-----------------------------------------------------------------------------
(* Properties.                                                             *)

\* Connections of both directions end in startPeerSession, and connects that
\* are pending hold a slot: never more sessions than ingress slots.
SessionsWithinSlots == peerCount <= peerSlots("Ingress")

\* A doneWorking that was not cut short leaves no connected session behind,
\* though the polling that lets sessions say goodbye also lets handshakes finish.
QuietWhenDown == phase = "down" => connected = {} \/ cutShort

\* run() hands out its events before it stops, and the node table adds none
\* meanwhile.
EventsHandedOut ==
    /\ net = "idle" \/ phase = "up"
    /\ net = "idle" \/ events = NoEvents
    /\ phase = "tabled" => events = NoEvents

\* An id has had an object if it has one, and can get another whenever it
\* loses the one it has (the bound never stops the Host).
ObjectsSuffice ==
    \A id \in Ids :
        /\ havePeer(id) => m_peers[id].gen > 0
        /\ ~havePeer(id) => m_peers[id].gen < MaxGen
        /\ "dropped" \in {events[id], batch[id]} => havePeer(id) /\ m_peers[id].gen < MaxGen

\* What the peers, the events and the sessions have to do with each other.
HostPeersInv ==
    TypeOK /\ EventsHandedOut /\ ObjectsSuffice /\ SessionsWithinSlots /\ QuietWhenDown

\* A required peer stays one: neither a dropped node table entry nor an
\* incoming session replaces its Peer, whether the network is up or not.  Only
\* restoreNetwork does, of a saved peer, which stays required if it was saved
\* as required.
RequiredPeersStay ==
    [][\A id \in required : m_peers'[id] # m_peers[id] =>
           /\ phase = "tabled" /\ id \in Saved
           /\ id \in SavedRequired => m_peers'[id].type = "Required"]_vars

attempting(id) ==
    m_connecting[id] > 0 \/ m_sessions[id] = "connected" \/ \E p \in m_pendingPeerConns : p[1] = id

\* Host.h:173, requirePeer "attempts keeping peer connected": as long as
\* there are slots for all required peers, the scheduler comes back to each
\* of them whenever its connection is lost.
RequiredPeersRetried ==
    \A id \in Ids :
        <>[](m_run /\ id \in required /\ Cardinality(required) <= m_idealPeerCount)
            => []<>attempting(id)


\* A required peer stays one, and the scheduler comes back to it.
RequiredPeersKept == RequiredPeersStay /\ RequiredPeersRetried

-----------------------------------------------------------------------------
(* What comments say, and the code does not do.                            *)

\* Host.h:173: requirePeer is to "create Peer and attempt keeping peer
\* connected", which the scheduler only does for peers whose type is required.
RequiredStaysRequired ==
    [][\A id \in required \cap m_requiredPeers : m_peers'[id].type = "Required"]_vars

\* Host.h:264: there are slots available if the "pending and connected peer
\* count is less than maximum".  The scheduler opens connections to optional
\* peers only while that holds for the ideal count.
RunRespectsSlots ==
    [][FinishRun /\ required = {} =>
        m_pendingPeerConns' = m_pendingPeerConns
            \/ Cardinality(m_pendingPeerConns') + peerCount <= m_idealPeerCount]_vars
=============================================================================
