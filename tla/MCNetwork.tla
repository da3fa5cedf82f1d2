------------------------------ MODULE MCNetwork ------------------------------
(***************************************************************************)
(* The parts of the network layer for TLC, one of which runs: they share no *)
(* variable, as each models the others by what they may do at any time.     *)
(***************************************************************************)
EXTENDS RLPXHandshake, Session, UDPSocket, EthereumPeer, HostData, TLC

CONSTANTS net, eth

\* RLPXHandshake: another program sends as many messages as an end reads, and one more
MessagesRead == 3

\* HostData
Branched == {[number |-> 1, branch |-> "uncle"]}
FourItems == {[id |-> 1, size |-> 0], [id |-> 2, size |-> 1], [id |-> 3, size |-> 2], [id |-> 4, size |-> 2]}

-----------------------------------------------------------------------------
VARIABLE part     \* the part that runs

Parts == {"handshake", "session", "udp", "peer", "data"}

mcVars == <<part, vars, sessionVars, udpVars, peerVars, dataVars>>

\* The others stay in an initial state, which is fixed where there are several
MCInit ==
    /\ part \in Parts
    /\ Init
    /\ part # "handshake" => foreign = {}
    /\ SessionInit
    /\ part # "session" => ~framed
    /\ UdpInit
    /\ PeerInit
    /\ HostDataInit

Only(p) == part = p /\ UNCHANGED part

MCNext ==
    \/ /\ Only("handshake") /\ Next
       /\ UNCHANGED <<sessionVars, udpVars, peerVars, dataVars>>
    \/ /\ Only("session") /\ SessionNext
       /\ UNCHANGED <<vars, udpVars, peerVars, dataVars>>
    \/ /\ Only("udp") /\ UdpNext
       /\ UNCHANGED <<vars, sessionVars, peerVars, dataVars>>
    \/ /\ Only("peer") /\ PeerNext
       /\ UNCHANGED <<vars, sessionVars, udpVars, dataVars>>
    \/ /\ Only("data") /\ HostDataNext
       /\ UNCHANGED <<vars, sessionVars, udpVars, peerVars>>

MCSpec ==
    /\ MCInit /\ [][MCNext]_mcVars
    /\ \A e \in Ends : WF_vars(part = "handshake" /\ Start(e))
    /\ \A e \in Ends : WF_vars(part = "handshake" /\ Handler(e))
    /\ \A e \in Ends : WF_vars(part = "handshake" /\ TimerExpires(e))
    /\ \A e \in Ends : WF_vars(part = "handshake" /\ m_socket[e] = "closed" /\ OperationBreaks(e))
    /\ WF_sessionVars(part = "session" /\ SessionSteps)
    /\ WF_peerVars(part = "peer" /\ PeerSteps)

-----------------------------------------------------------------------------
\* The liveness of RLPXHandshake, when the handshakes run: each ends, as
\* HandshakeOutcome promises, and is released, its timer disarmed.
HandshakeEndsWhenRun ==
    part = "handshake" =>
        HandshakeReleased /\ \A e \in Ends : outcome[e] = "running" ~> outcome[e] # "running"

\* SilentPeerLeaves of EthereumPeer, when the peer runs: a request does not hang
\* for ever, as doWork's tick disconnects a peer that was asked and is silent.
SilentPeerLeavesWhenRun == part = "peer" => SilentPeerLeaves
=============================================================================
