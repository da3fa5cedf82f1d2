----------------------------- MODULE HostPeersProof -----------------------------
(***************************************************************************)
(* Machine-checked proofs about the peers and the sessions of              *)
(* dev::p2p::Host, for any peers, clients and slots.  A session is only    *)
(* registered by startPeerSession, which counts the sessions there are and *)
(* the connects that are pending; the connects only make the count higher, *)
(* as long as they are finitely many, and a shutdown that has closed the   *)
(* sessions polls no more.                                                 *)
(***************************************************************************)
EXTENDS HostPeers, FiniteSetTheorems, TLAPS

USE PeersAssumption

PeerObjects == [gen : 0 .. MaxGen, type : {"none", "Optional", "Required"}]

\* What peerCount counts can be counted, and so can the pending connects.
LEMMA FiniteCounts ==
  ASSUME NEW S \in SUBSET Ids, NEW P \in SUBSET (Ids \X (1 .. MaxGen))
  PROVE  /\ IsFiniteSet(S) /\ Cardinality(S) \in Nat
         /\ IsFiniteSet(P) /\ Cardinality(P) \in Nat
<1>1. IsFiniteSet(1 .. MaxGen)
  BY FS_Interval
<1>2. IsFiniteSet(Ids \X (1 .. MaxGen))
  BY <1>1, FS_Product
<1> QED BY <1>2, FS_Subset, FS_CardinalityType

\* createPeers gives the ids the next object; the others keep theirs.
LEMMA CreatedPeers ==
  ASSUME TypeOK, NEW ids \in SUBSET Ids, mayReplace(ids), NEW requiredIds
  PROVE  createPeers(ids, requiredIds) \in [Ids -> PeerObjects]
<1> SUFFICES ASSUME NEW id \in Ids
             PROVE  createPeers(ids, requiredIds)[id] \in PeerObjects
  BY DEF createPeers
<1>1. m_peers[id] \in PeerObjects /\ m_peers[id].gen \in 0 .. MaxGen
  BY DEF TypeOK, PeerObjects
<1>2. id \in ids => m_peers[id].gen + 1 \in 0 .. MaxGen
  BY <1>1 DEF mayReplace
<1> QED BY <1>1, <1>2 DEF createPeers, PeerObjects

\* An id without an object gets one, and keeps the bound.
LEMMA CreatedSuffice ==
  ASSUME TypeOK, ObjectsSuffice, NEW id \in Ids, ~havePeer(id), NEW requiredIds,
         m_peers' = createPeers({id}, requiredIds),
         \A x \in Ids : "dropped" \in {events'[x], batch'[x]} => "dropped" \in {events[x], batch[x]}
  PROVE  m_peers' \in [Ids -> PeerObjects] /\ ObjectsSuffice'
<1>0. m_peers \in [Ids -> PeerObjects]
  BY DEF TypeOK, PeerObjects
<1>1. mayReplace({id}) /\ {id} \in SUBSET Ids
  BY DEF ObjectsSuffice, mayReplace
<1>2. m_peers' \in [Ids -> PeerObjects]
  BY <1>1, CreatedPeers
<1>3. /\ m_peers'[id].gen = m_peers[id].gen + 1 /\ m_peers'[id].type # "none"
      /\ \A x \in Ids \ {id} : m_peers'[x] = m_peers[x]
      /\ m_peers[id].gen \in 0 .. MaxGen
  BY <1>0 DEF createPeers, PeerObjects
<1>4. "dropped" \notin {events[id], batch[id]}
  BY DEF ObjectsSuffice
<1>5. /\ m_peers'[id].gen > 0 /\ "dropped" \notin {events'[id], batch'[id]}
  BY <1>3, <1>4
<1>6. ASSUME NEW x \in Ids
      PROVE  /\ havePeer(x)' => m_peers'[x].gen > 0
             /\ ~havePeer(x)' => m_peers'[x].gen < MaxGen
             /\ "dropped" \in {events'[x], batch'[x]} => havePeer(x)' /\ m_peers'[x].gen < MaxGen
  <2>1. CASE x = id
    BY <1>3, <1>5, <2>1 DEF havePeer
  <2>2. CASE x # id
    <3>1. m_peers'[x] = m_peers[x]
      BY <1>3, <2>2
    <3> QED BY <3>1 DEF ObjectsSuffice, havePeer
  <2> QED BY <2>1, <2>2
<1>7. ObjectsSuffice'
  BY <1>6 DEF ObjectsSuffice, havePeer
<1> QED BY <1>2, <1>7

\* Sessions that end leave as many slots or more.
LEMMA FewerSessions ==
  ASSUME HostPeersInv, connected' \subseteq connected, phase' = "down" => connected' = {} \/ cutShort'
  PROVE  (SessionsWithinSlots /\ QuietWhenDown)'
<1>1. /\ Cardinality(connected) \in Nat /\ Cardinality(connected') \in Nat
      /\ Cardinality(connected') <= Cardinality(connected)
  <2>1. connected \in SUBSET Ids /\ {} \in SUBSET (Ids \X (1 .. MaxGen))
    BY DEF connected
  <2> QED BY <2>1, FiniteCounts, FS_Subset
<1>2. peerSlots("Ingress") \in Nat /\ peerSlots("Ingress")' = peerSlots("Ingress")
  BY DEF peerSlots
<1> QED BY <1>1, <1>2 DEF HostPeersInv, SessionsWithinSlots, peerCount, QuietWhenDown

\* The connects that connect() starts are of objects that there are.
LEMMA ConnectsObjects ==
  ASSUME m_pendingPeerConns \subseteq Ids \X (1 .. MaxGen), rested \subseteq Ids,
         NEW peers \in [Ids -> PeerObjects], NEW ids \in SUBSET Ids,
         \A id \in ids : peers[id].gen > 0,
         connect(peers, ids)
  PROVE  m_pendingPeerConns' \subseteq Ids \X (1 .. MaxGen) /\ rested' \subseteq Ids
<1>1. \A id \in ids : peers[id].gen \in 1 .. MaxGen
  <2> TAKE id \in ids
  <2>1. peers[id].gen \in 0 .. MaxGen /\ peers[id].gen > 0
    BY DEF PeerObjects
  <2> QED BY <2>1
<1>2. PICK attempted \in SUBSET ids :
        /\ m_pendingPeerConns' = m_pendingPeerConns \cup {<<id, peers[id].gen>> : id \in attempted}
        /\ rested' = rested \ attempted
  BY DEF connect
<1>3. {<<id, peers[id].gen>> : id \in attempted} \subseteq Ids \X (1 .. MaxGen)
  BY <1>1
<1> QED BY <1>2, <1>3

\* The scheduler: run() takes the events, hands them out and connects.
LEMMA SchedulerKeeps ==
  ASSUME HostPeersInv, Scheduler
  PROVE  HostPeersInv'
<1> USE DEF HostPeersInv
<1>0. m_peers \in [Ids -> PeerObjects]
  BY DEF TypeOK, PeerObjects
<1>1. CASE BeginRun
  <2>1. TypeOK' /\ EventsHandedOut'
    BY <1>1 DEF BeginRun, TypeOK, EventsHandedOut, NoEvents, EventMap, haveNodeTable, Phases
  <2>2. ObjectsSuffice'
    BY <1>1 DEF BeginRun, ObjectsSuffice, NoEvents, havePeer
  <2>3. connected' \subseteq connected /\ phase' # "down"
    BY <1>1 DEF BeginRun, connected
  <2> QED BY <2>1, <2>2, <2>3, FewerSessions
<1>2. ASSUME NEW id \in Ids, NodeEntryAdded(id)
      PROVE  HostPeersInv'
  <2>1. /\ m_peers' \in [Ids -> PeerObjects]
        /\ ObjectsSuffice'
    <3>1. CASE m_peers' = m_peers
      <4>1. \A x \in Ids : "dropped" \in {events'[x], batch'[x]} => "dropped" \in {events[x], batch[x]}
        BY <1>2 DEF NodeEntryAdded, TypeOK, EventMap
      <4> QED BY <1>0, <3>1, <4>1 DEF ObjectsSuffice, havePeer
    <3>2. CASE ~havePeer(id) /\ m_peers' = createPeers({id}, {})
      <4>1. \A x \in Ids : "dropped" \in {events'[x], batch'[x]} => "dropped" \in {events[x], batch[x]}
        BY <1>2 DEF NodeEntryAdded, TypeOK, EventMap
      <4> QED BY <3>2, <4>1, CreatedSuffice
    <3> QED BY <1>2, <3>1, <3>2 DEF NodeEntryAdded
  <2>2. m_pendingPeerConns' \subseteq Ids \X (1 .. MaxGen) /\ rested' \subseteq Ids
    <3>1. CASE connect(m_peers', {id}) /\ havePeer(id)'
      <4>1. m_peers'[id].gen > 0
        BY <2>1, <3>1 DEF ObjectsSuffice
      <4> QED BY <2>1, <3>1, <4>1, ConnectsObjects DEF TypeOK
    <3>2. CASE UNCHANGED <<m_pendingPeerConns, rested>>
      BY <3>2 DEF TypeOK
    <3>3. \/ connect(m_peers', {id}) /\ havePeer(id)'
          \/ UNCHANGED <<m_pendingPeerConns, rested>>
      BY <1>2, <1>0 DEF NodeEntryAdded, havePeer, createPeers
    <3> QED BY <3>1, <3>2, <3>3
  <2>3. TypeOK' /\ EventsHandedOut'
    BY <1>2, <2>1, <2>2 DEF NodeEntryAdded, TypeOK, EventsHandedOut, haveNodeTable, EventMap, PeerObjects
  <2>4. connected' \subseteq connected /\ phase' # "down"
    BY <1>2 DEF NodeEntryAdded, connected, EventsHandedOut, haveNodeTable
  <2> QED BY <2>1, <2>3, <2>4, FewerSessions
<1>3. ASSUME NEW id \in Ids, NodeEntryDropped(id)
      PROVE  HostPeersInv'
  <2>1. /\ m_peers[id].gen < MaxGen /\ m_peers[id].gen \in 0 .. MaxGen /\ m_peers[id] \in PeerObjects
        /\ \A x \in Ids : "dropped" \in {events'[x], batch'[x]} =>
              "dropped" \in {events[x], batch[x]} /\ x # id
    BY <1>0, <1>3 DEF NodeEntryDropped, ObjectsSuffice, TypeOK, EventMap, EventsHandedOut, NoEvents, PeerObjects
  <2>2. m_peers' = [m_peers EXCEPT ![id] = [m_peers[id] EXCEPT !.type = "none"]] \/ m_peers' = m_peers
    BY <1>3 DEF NodeEntryDropped
  <2>3. [m_peers[id] EXCEPT !.type = "none"] \in PeerObjects
    BY <2>1 DEF PeerObjects
  <2>4. m_peers' \in [Ids -> PeerObjects] /\ ObjectsSuffice'
    <3>1. m_peers' \in [Ids -> PeerObjects]
      BY <1>0, <2>2, <2>3
    <3>2. /\ m_peers'[id].gen = m_peers[id].gen /\ m_peers'[id].type \in {"none", m_peers[id].type}
          /\ \A x \in Ids \ {id} : m_peers'[x] = m_peers[x]
      BY <1>0, <2>1, <2>2 DEF PeerObjects
    <3>3. ObjectsSuffice'
      BY <2>1, <3>2 DEF ObjectsSuffice, havePeer
    <3> QED BY <3>1, <3>3
  <2>5. TypeOK' /\ EventsHandedOut'
    BY <1>3, <2>4 DEF NodeEntryDropped, TypeOK, EventsHandedOut, haveNodeTable, EventMap, PeerObjects
  <2>6. connected' \subseteq connected /\ phase' # "down"
    BY <1>3 DEF NodeEntryDropped, connected, EventsHandedOut, haveNodeTable
  <2> QED BY <2>4, <2>5, <2>6, FewerSessions
<1>4. CASE FinishRun
  <2>1. PICK ids \in SUBSET Ids : connect(m_peers, ids) /\ \A id \in ids : havePeer(id)
    <3>1. candidates \in SUBSET Ids /\ \A id \in candidates : havePeer(id)
      BY DEF candidates
    <3>2. \A n : \A first \in kSubset(n, candidates \cap required) : first \subseteq candidates
      BY DEF kSubset
    <3>3. \A n : \A then \in IF pin THEN {{}} ELSE optionalTurns(candidates \ required, n) :
             then \subseteq candidates
      BY DEF optionalTurns
    <3>4. \E first, then \in SUBSET candidates : connect(m_peers, first \cup then)
      BY <1>4, <3>2, <3>3 DEF FinishRun
    <3>5. PICK first \in SUBSET candidates, then \in SUBSET candidates : connect(m_peers, first \cup then)
      BY <3>4
    <3> QED BY <3>1, <3>5
  <2>2. \A id \in ids : m_peers[id].gen > 0
    BY <2>1 DEF ObjectsSuffice
  <2>3. m_pendingPeerConns' \subseteq Ids \X (1 .. MaxGen) /\ rested' \subseteq Ids
    BY <1>0, <2>1, <2>2, ConnectsObjects DEF TypeOK
  <2>4. /\ m_sessions' \in [Ids -> {"none", "connected", "closed", "expired"}]
        /\ connected' \subseteq connected
    BY <1>4 DEF FinishRun, keepAlivePeers, TypeOK, connected
  <2>5. TypeOK' /\ EventsHandedOut' /\ phase' # "down"
    BY <1>4, <2>3, <2>4 DEF FinishRun, TypeOK, EventsHandedOut, haveNodeTable
  <2>6. ObjectsSuffice'
    BY <1>4 DEF FinishRun, ObjectsSuffice, havePeer
  <2> QED BY <2>4, <2>5, <2>6, FewerSessions
<1> QED BY <1>1, <1>2, <1>3, <1>4 DEF Scheduler

\* startPeerSession counts the sessions and the connects that are pending.
LEMMA SessionStartKeeps ==
  ASSUME HostPeersInv, NEW id \in Ids, startPeerSession(id)
  PROVE  HostPeersInv'
<1> USE DEF HostPeersInv
<1>0. m_peers \in [Ids -> PeerObjects] /\ phase' # "down"
  BY DEF TypeOK, PeerObjects, startPeerSession, polling
<1>1. m_peers' \in [Ids -> PeerObjects] /\ ObjectsSuffice'
  <2>1. CASE m_peers' = m_peers
    BY <1>0, <2>1 DEF startPeerSession, ObjectsSuffice, havePeer
  <2>2. CASE ~havePeer(id) /\ m_peers' = createPeers({id}, {})
    <3>1. events' = events /\ batch' = batch
      BY DEF startPeerSession
    <3> QED BY <2>2, <3>1, CreatedSuffice
  <2> QED BY <2>1, <2>2 DEF startPeerSession
<1>2. m_connecting' \in [Ids -> 0 .. MaxHandshakes]
  <2>1. m_connecting[id] \in 0 .. MaxHandshakes /\ m_connecting[id] > 0
    BY DEF startPeerSession, TypeOK
  <2>2. m_connecting[id] - 1 \in 0 .. MaxHandshakes
    BY <2>1
  <2> QED BY <2>2 DEF startPeerSession, TypeOK
<1>3. m_sessions' \in [Ids -> {"none", "connected", "closed", "expired"}]
  BY DEF startPeerSession, TypeOK
<1>4. TypeOK' /\ EventsHandedOut'
  BY <1>1, <1>2, <1>3 DEF startPeerSession, TypeOK, EventsHandedOut, haveNodeTable, PeerObjects
<1>5. CASE m_sessions' = m_sessions
  <2>1. connected' \subseteq connected
    BY <1>5 DEF connected
  <2> QED BY <1>0, <1>1, <1>4, <2>1, FewerSessions
<1>6. CASE peerSlotsAvailable("Ingress") /\ m_sessions' = [m_sessions EXCEPT ![id] = "connected"]
  <2>1. connected' = connected \cup {id} /\ connected \in SUBSET Ids
    BY <1>6 DEF connected, TypeOK
  <2>2. /\ IsFiniteSet(connected) /\ Cardinality(connected) \in Nat /\ Cardinality(m_pendingPeerConns) \in Nat
    BY <2>1, FiniteCounts DEF TypeOK
  <2>3. Cardinality(connected') <= Cardinality(connected) + 1
    <3>1. Cardinality(connected \cup {id}) = IF id \in connected THEN Cardinality(connected)
                                                              ELSE Cardinality(connected) + 1
      BY <2>2, FS_AddElement
    <3> QED BY <2>1, <2>2, <3>1
  <2>4. Cardinality(connected') \in Nat
    <3>1. connected' \in SUBSET Ids /\ {} \in SUBSET (Ids \X (1 .. MaxGen))
      BY <2>1
    <3> QED BY <3>1, FiniteCounts
  <2>5. /\ peerSlots("Ingress") \in Nat /\ peerSlots("Ingress")' = peerSlots("Ingress")
        /\ Cardinality(connected) + Cardinality(m_pendingPeerConns) < peerSlots("Ingress")
    BY <1>6 DEF peerSlotsAvailable, peerCount, peerSlots
  <2>6. SessionsWithinSlots'
    BY <2>2, <2>3, <2>4, <2>5 DEF SessionsWithinSlots, peerCount
  <2> QED BY <1>0, <1>1, <1>4, <2>6 DEF QuietWhenDown
<1> QED BY <1>5, <1>6 DEF startPeerSession

\* Connects complete; handshakes begin and fail; sessions end.
LEMMA ConnectionsKeep ==
  ASSUME HostPeersInv,
         \/ \E p \in m_pendingPeerConns : ConnectCompletes(p)
         \/ \E id \in Ids : Accept(id) \/ HandshakeFails(id) \/ SessionCloses(id) \/ SessionExpires(id)
  PROVE  HostPeersInv'
<1> USE DEF HostPeersInv
<1>1. /\ UNCHANGED <<phase, m_run, cutShort, net, m_peers, m_requiredPeers, known, events, batch, requiring>>
      /\ m_pendingPeerConns' \subseteq m_pendingPeerConns /\ rested' \subseteq rested
      /\ m_sessions' \in [Ids -> {"none", "connected", "closed", "expired"}]
      /\ connected' \subseteq connected
  BY DEF ConnectCompletes, Accept, HandshakeFails, SessionCloses, SessionExpires, TypeOK, connected
<1>2. m_connecting' \in [Ids -> 0 .. MaxHandshakes]
  <2>1. \A id \in Ids : m_connecting[id] \in 0 .. MaxHandshakes
    BY DEF TypeOK
  <2>2. ASSUME NEW p \in m_pendingPeerConns, ConnectCompletes(p)
        PROVE  m_connecting' \in [Ids -> 0 .. MaxHandshakes]
    <3>1. p[1] \in Ids
      BY DEF TypeOK
    <3>2. m_connecting[p[1]] < MaxHandshakes => m_connecting[p[1]] + 1 \in 0 .. MaxHandshakes
      BY <2>1, <3>1
    <3> QED BY <2>2, <3>2 DEF ConnectCompletes, TypeOK
  <2>3. ASSUME NEW id \in Ids, Accept(id) \/ HandshakeFails(id) \/ SessionCloses(id) \/ SessionExpires(id)
        PROVE  m_connecting' \in [Ids -> 0 .. MaxHandshakes]
    <3>1. /\ m_connecting[id] < MaxHandshakes => m_connecting[id] + 1 \in 0 .. MaxHandshakes
          /\ m_connecting[id] > 0 => m_connecting[id] - 1 \in 0 .. MaxHandshakes
      BY <2>1
    <3> QED BY <2>3, <3>1 DEF Accept, HandshakeFails, SessionCloses, SessionExpires, TypeOK
  <2> QED BY <2>2, <2>3
<1>3. TypeOK' /\ EventsHandedOut' /\ ObjectsSuffice'
  BY <1>1, <1>2 DEF TypeOK, EventsHandedOut, ObjectsSuffice, haveNodeTable, havePeer
<1>4. phase' = "down" => connected' = {} \/ cutShort'
  BY <1>1 DEF QuietWhenDown
<1> QED BY <1>1, <1>3, <1>4, FewerSessions

\* The node table and the clients.
LEMMA ClientsKeep ==
  ASSUME HostPeersInv,
         \/ \E id \in Ids : NodeLearnt(id) \/ FallbackOver(id) \/ relinquishPeer(id)
         \/ \E id \in Ids, e \in {"added", "dropped"} : appendEvent(id, e)
         \/ \E c \in Clients, id \in Ids : requirePeer(c, id)
  PROVE  HostPeersInv'
<1> USE DEF HostPeersInv
<1>1. /\ UNCHANGED <<phase, m_run, cutShort, net, m_peers, m_pendingPeerConns, m_connecting, m_sessions, batch>>
      /\ connected' = connected
  BY DEF NodeLearnt, FallbackOver, relinquishPeer, appendEvent, requirePeer, connected
<1>2. /\ m_requiredPeers' \subseteq Ids /\ known' \subseteq Ids /\ rested' \subseteq Ids
      /\ requiring' \in [Clients -> Ids \cup {None}]
  BY DEF NodeLearnt, FallbackOver, relinquishPeer, appendEvent, requirePeer, TypeOK
<1>4. events' \in EventMap
  BY DEF NodeLearnt, FallbackOver, relinquishPeer, appendEvent, requirePeer, TypeOK, EventMap
<1>5. /\ haveNodeTable \/ (known' = known /\ events' = events)
      /\ (net = "idle" /\ phase # "tabled") \/ events' = events
  BY DEF NodeLearnt, FallbackOver, relinquishPeer, appendEvent, requirePeer, polling
<1>6. TypeOK' /\ EventsHandedOut'
  BY <1>1, <1>2, <1>4, <1>5 DEF TypeOK, EventsHandedOut, haveNodeTable
<1>3. ObjectsSuffice'
  <2>1. \A id \in Ids : events'[id] = "dropped" =>
           events[id] = "dropped" \/ (havePeer(id) /\ m_peers[id].gen < MaxGen)
    BY DEF NodeLearnt, FallbackOver, relinquishPeer, appendEvent, requirePeer, TypeOK, EventMap, mayReplace
  <2> QED BY <1>1, <2>1 DEF ObjectsSuffice, havePeer
<1> QED BY <1>1, <1>3, <1>6, FewerSessions DEF QuietWhenDown

\* requirePeer, once it has found m_run.
LEMMA RequiredKeeps ==
  ASSUME HostPeersInv, NEW c \in Clients, PeerRequired(c)
  PROVE  HostPeersInv'
<1> USE DEF HostPeersInv
<1> DEFINE id == requiring[c]
<1>0. m_peers \in [Ids -> PeerObjects] /\ id \in Ids
  BY DEF TypeOK, PeerObjects, PeerRequired
<1>1. m_peers' \in [Ids -> PeerObjects] /\ ObjectsSuffice'
  <2>1. CASE havePeer(id) /\ m_peers' = [m_peers EXCEPT ![id].type = "Required"]
    <3>1. [m_peers[id] EXCEPT !.type = "Required"] \in PeerObjects
      BY <1>0 DEF PeerObjects
    <3>2. m_peers' = [m_peers EXCEPT ![id] = [m_peers[id] EXCEPT !.type = "Required"]]
      BY <2>1
    <3>3. /\ m_peers'[id].gen = m_peers[id].gen /\ m_peers'[id].type = "Required"
          /\ \A x \in Ids \ {id} : m_peers'[x] = m_peers[x]
      BY <1>0, <3>2 DEF PeerObjects
    <3> HIDE DEF id
    <3>4. ObjectsSuffice'
      BY <1>0, <2>1, <3>3 DEF PeerRequired, ObjectsSuffice, havePeer
    <3> QED BY <1>0, <3>1, <3>2, <3>4
  <2>2. CASE ~havePeer(id) /\ m_peers' = createPeers({id}, {id})
    <3>1. events' = events /\ batch' = batch
      BY DEF PeerRequired
    <3> HIDE DEF id
    <3> QED BY <1>0, <2>2, <3>1, CreatedSuffice
  <2> QED BY <2>1, <2>2 DEF PeerRequired
<1>2. TypeOK' /\ EventsHandedOut'
  BY <1>0, <1>1 DEF PeerRequired, TypeOK, EventsHandedOut, haveNodeTable, PeerObjects
<1>3. connected' = connected /\ phase' = phase /\ cutShort' = cutShort
  BY DEF PeerRequired, connected
<1> QED BY <1>1, <1>2, <1>3, FewerSessions DEF QuietWhenDown

\* restoreNetwork gives the saved peers new objects.
LEMMA RestoreKeeps ==
  ASSUME HostPeersInv, RestoreNetwork
  PROVE  HostPeersInv'
<1> USE DEF HostPeersInv
<1>1. PICK ids \in {{}, Saved} :
        /\ mayReplace(ids)
        /\ m_peers' = createPeers(ids, SavedRequired)
        /\ m_requiredPeers' = m_requiredPeers \cup (SavedRequired \cap ids)
        /\ known' = known \cup (IF m_run THEN ids ELSE ids \ SavedRequired)
        /\ rested' = rested \cup ids
        /\ \E noted \in SUBSET (ids \ SavedRequired) :
             events' = [id \in Ids |-> IF id \in noted THEN "added" ELSE "none"]
  BY DEF RestoreNetwork
<1>2. ids \in SUBSET Ids
  OBVIOUS
<1>3. m_peers' \in [Ids -> PeerObjects]
  BY <1>1, <1>2, CreatedPeers
<1>4. net = "idle" /\ batch = NoEvents /\ UNCHANGED <<net, batch>>
  BY DEF RestoreNetwork, TypeOK, EventsHandedOut
<1>5. events' \in EventMap /\ \A id \in Ids : events'[id] # "dropped"
  BY <1>1 DEF EventMap
<1>6. ObjectsSuffice'
  <2>1. \A id \in ids : m_peers'[id].gen = m_peers[id].gen + 1 /\ m_peers'[id].type # "none"
                        /\ m_peers[id].gen \in 0 .. MaxGen
    BY <1>1, <1>2 DEF createPeers, TypeOK
  <2>2. \A id \in Ids \ ids : m_peers'[id] = m_peers[id]
    BY <1>1 DEF createPeers
  <2>3. \A id \in Ids : "dropped" \notin {events'[id], batch'[id]}
    BY <1>4, <1>5 DEF NoEvents
  <2> QED BY <2>1, <2>2, <2>3 DEF ObjectsSuffice, havePeer
<1>7. TypeOK' /\ EventsHandedOut'
  <2>1. /\ phase' = "restored" /\ m_requiredPeers' \subseteq Ids /\ known' \subseteq Ids
        /\ rested' \subseteq Ids
    BY <1>1, <1>2 DEF RestoreNetwork, TypeOK
  <2>2. UNCHANGED <<m_run, cutShort, m_pendingPeerConns, m_connecting, m_sessions, requiring>>
    BY DEF RestoreNetwork
  <2> QED BY <1>3, <1>4, <1>5, <2>1, <2>2
      DEF TypeOK, EventsHandedOut, haveNodeTable, PeerObjects, Phases, StartPhases
<1>8. connected' \subseteq connected /\ phase' # "down"
  BY DEF RestoreNetwork, connected
<1> QED BY <1>6, <1>7, <1>8, FewerSessions

\* The network starts, stops, closes what there is, or is cut short.
LEMMA LifeKeeps ==
  ASSUME HostPeersInv, Start \/ StartedWorking \/ DoneWorking \/ Stop \/ HandlerThrows
  PROVE  HostPeersInv'
<1>1. CASE RestoreNetwork
  BY <1>1, RestoreKeeps
<1>2. CASE Start \/ CreateNodeTable \/ DoneWorking \/ Stop \/ HandlerThrows
  <2> USE <1>2 DEF HostPeersInv, DoneWorking, Start, CreateNodeTable, Stop, Shutdown, Drained,
                   CancelHandshakes, HandshakesPolled, DisconnectSessions, SessionsPolled,
                   HandlerThrows
  <2>1. TypeOK'
    <3>1. /\ phase' \in Phases /\ m_run' \in BOOLEAN /\ cutShort' \in BOOLEAN
          /\ UNCHANGED <<net, batch, m_peers, m_pendingPeerConns, rested, requiring, m_requiredPeers>>
      BY DEF TypeOK, Phases, StartPhases
    <3>2. /\ m_connecting' \in [Ids -> 0 .. MaxHandshakes]
          /\ m_sessions' \in [Ids -> {"none", "connected", "closed", "expired"}]
      BY DEF TypeOK
    <3>3. /\ known' \subseteq Ids /\ events' \in EventMap
          /\ ~haveNodeTable' => known' = {} /\ events' = NoEvents
      BY DEF TypeOK, haveNodeTable, polling, NoEvents, EventMap
    <3> QED BY <3>1, <3>2, <3>3 DEF TypeOK
  <2>2. EventsHandedOut'
    BY DEF TypeOK, EventsHandedOut, haveNodeTable, polling
  <2>3. ObjectsSuffice'
    BY DEF ObjectsSuffice, havePeer, NoEvents
  <2>4. connected' \subseteq connected /\ (phase' = "down" => connected' = {} \/ cutShort')
    BY DEF connected, QuietWhenDown
  <2> QED BY <2>1, <2>2, <2>3, <2>4, FewerSessions
<1> QED BY <1>1, <1>2 DEF StartedWorking

LEMMA PeersStep == HostPeersInv /\ [Next]_vars => HostPeersInv'
<1>1. CASE UNCHANGED vars
  BY <1>1 DEF vars, HostPeersInv, TypeOK, EventsHandedOut, ObjectsSuffice, SessionsWithinSlots,
     QuietWhenDown, haveNodeTable, havePeer, connected, peerCount, peerSlots
<1>2. CASE Next
  BY <1>2, SchedulerKeeps, SessionStartKeeps, ConnectionsKeep, ClientsKeep, RequiredKeeps, LifeKeeps DEF Next
<1> QED BY <1>1, <1>2

\* The Host of a node that is down has no peers yet.
LEMMA PeersInit == Init => HostPeersInv
<1> SUFFICES ASSUME Init
             PROVE  HostPeersInv
  OBVIOUS
<1>1. TypeOK /\ EventsHandedOut
  <2>1. phase \in Phases /\ ~haveNodeTable
    BY DEF Init, Phases, haveNodeTable
  <2>2. /\ m_peers \in [Ids -> [gen : 0 .. MaxGen, type : {"none", "Optional", "Required"}]]
        /\ NoEvents \in EventMap /\ m_connecting \in [Ids -> 0 .. MaxHandshakes]
    BY DEF Init, NoEvents, EventMap
  <2> QED BY <2>1, <2>2 DEF Init, TypeOK, EventsHandedOut
<1>2. ObjectsSuffice
  BY DEF Init, ObjectsSuffice, havePeer, NoEvents
<1>3. connected = {}
  BY DEF Init, connected
<1>4. SessionsWithinSlots
  BY <1>3, FS_EmptySet DEF SessionsWithinSlots, peerCount, peerSlots
<1> QED BY <1>1, <1>2, <1>3, <1>4 DEF HostPeersInv, QuietWhenDown

-----------------------------------------------------------------------------
(* What follows.                                                           *)

\* Host::startPeerSession, with the connects that hold a slot: never more
\* sessions than ingress slots, however connections come in and complete.
THEOREM SlotsHold == Spec => []SessionsWithinSlots
<1>1. HostPeersInv => SessionsWithinSlots
  BY DEF HostPeersInv
<1> QED BY <1>1, PeersInit, PeersStep, PTL DEF Spec

\* Host::doneWorking leaves no session connected, unless a handler threw out
\* of the poll() that it calls.
THEOREM DownIsQuiet == Spec => []QuietWhenDown
<1>1. HostPeersInv => QuietWhenDown
  BY DEF HostPeersInv
<1> QED BY <1>1, PeersInit, PeersStep, PTL DEF Spec

\* Neither onNodeTableEvent nor startPeerSession replaces the Peer of a required
\* peer, before, while or after the network is up; restoreNetwork does, and
\* leaves what was saved as required a required one.
THEOREM RequiredStay == Spec => RequiredPeersStay
<1> DEFINE Stay == \A id \in required : m_peers'[id] # m_peers[id] =>
                      /\ phase = "tabled" /\ id \in Saved
                      /\ id \in SavedRequired => m_peers'[id].type = "Required"
<1>1. HostPeersInv /\ [Next]_vars => [Stay]_vars
  <2> SUFFICES ASSUME HostPeersInv, Next, NEW id \in required, m_peers'[id] # m_peers[id]
               PROVE  /\ phase = "tabled" /\ id \in Saved
                      /\ id \in SavedRequired => m_peers'[id].type = "Required"
    OBVIOUS
  <2>1. id \in Ids /\ havePeer(id) /\ m_peers[id].type = "Required" /\ m_peers \in [Ids -> PeerObjects]
    BY DEF required, havePeer, HostPeersInv, TypeOK, PeerObjects
  <2>2. CASE \E d \in Ids : NodeEntryAdded(d) \/ startPeerSession(d)
    <3>1. PICK d \in Ids : NodeEntryAdded(d) \/ startPeerSession(d)
      BY <2>2
    <3>2. m_peers' = m_peers \/ (~havePeer(d) /\ m_peers' = createPeers({d}, {}))
      BY <3>1 DEF NodeEntryAdded, startPeerSession
    <3> QED BY <2>1, <3>2 DEF createPeers
  <2>3. CASE \E d \in Ids : NodeEntryDropped(d)
    BY <2>1, <2>3 DEF NodeEntryDropped
  <2>4. CASE \E c \in Clients : PeerRequired(c)
    <3>1. PICK c \in Clients : PeerRequired(c)
      BY <2>4
    <3>2. CASE havePeer(requiring[c])
      <4>1. m_peers' = [m_peers EXCEPT ![requiring[c]] = [m_peers[requiring[c]] EXCEPT !.type = "Required"]]
        BY <3>1, <3>2 DEF PeerRequired
      <4>2. [m_peers[id] EXCEPT !.type = "Required"] = m_peers[id]
        BY <2>1 DEF PeerObjects
      <4> QED BY <2>1, <4>1, <4>2
    <3>3. CASE ~havePeer(requiring[c])
      BY <2>1, <3>1, <3>3 DEF PeerRequired, createPeers
    <3> QED BY <3>2, <3>3
  <2>5. CASE m_peers' = m_peers
    BY <2>5
  <2>7. CASE RestoreNetwork
    <3>1. PICK ids \in {{}, Saved} : m_peers' = createPeers(ids, SavedRequired)
      BY <2>7 DEF RestoreNetwork
    <3>2. id \in ids /\ ids = Saved
      BY <2>1, <3>1 DEF createPeers
    <3>3. id \in SavedRequired => m_peers'[id].type = "Required"
      BY <2>1, <3>1, <3>2 DEF createPeers
    <3> QED BY <2>7, <3>2, <3>3 DEF RestoreNetwork
  <2>6. m_peers' = m_peers \/ RestoreNetwork \/ (\E d \in Ids : NodeEntryAdded(d) \/ startPeerSession(d))
        \/ (\E d \in Ids : NodeEntryDropped(d)) \/ (\E c \in Clients : PeerRequired(c))
    BY DEF Next, Scheduler, DoneWorking, BeginRun, FinishRun, Shutdown, Drained, CancelHandshakes,
       HandshakesPolled, DisconnectSessions, SessionsPolled, ConnectCompletes, Accept, HandshakeFails,
       SessionCloses, SessionExpires, NodeLearnt, FallbackOver, relinquishPeer, appendEvent, requirePeer,
       Start, StartedWorking, CreateNodeTable, HandlerThrows, Stop
  <2> QED BY <2>2, <2>3, <2>4, <2>5, <2>6, <2>7
<1> QED BY <1>1, PeersInit, PeersStep, PTL DEF Spec, RequiredPeersStay
=============================================================================
