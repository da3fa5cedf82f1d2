---------------------------- MODULE EthereumPeer ----------------------------
(***************************************************************************)
(* What an EthereumPeer has asked the other side for, and who looks at it: *)
(* interpret and the sync on the service thread, tick on the ethsync       *)
(* thread, without a lock ("@todo make state transitions thread-safe").    *)
(* Time is whether m_lastAsk is more than ten seconds ago.                 *)
(***************************************************************************)
EXTENDS Naturals

CONSTANTS
    MaxRequests,   \* bound: requests of the sync
    MaxReceived    \* bound: packets received

Askings == {"BlockHeaders", "BlockBodies", "NodeData", "Receipts"}

VARIABLES
    m_asking,
    lateAsk,     \* now - m_lastAsk > 10
    askStep,     \* setAsking has set m_asking, m_lastAsk is next
    enabled,     \* m_enabled of the Capability
    peerSession, \* "up", or why it is not
    rude,        \* setRude was called
    ticking,     \* tick has found m_lastAsk late
    toObserver,  \* the last answer passed on to the sync
    requests, received

peerVars == <<m_asking, lateAsk, askStep, enabled, peerSession, rude, ticking, toObserver, requests, received>>

\* newPeerCapability makes the peer and asks for its status.
PeerInit ==
    /\ m_asking = "State" /\ lateAsk = FALSE /\ askStep = FALSE
    /\ enabled = TRUE /\ peerSession = "up" /\ rude = FALSE /\ ticking = FALSE
    /\ toObserver = "none" /\ requests = 0 /\ received = 0

up == peerSession = "up"

\* The sync asks for headers, bodies, ... whatever was asked before; a list
\* of no hashes leaves the peer idle at once.
Request(a) ==
    /\ up /\ ~askStep /\ m_asking # "State" /\ requests < MaxRequests
    /\ m_asking' = a /\ askStep' = TRUE
    /\ requests' = requests + 1
    /\ UNCHANGED <<lateAsk, enabled, peerSession, rude, ticking, toObserver, received>>

RequestNothing ==
    /\ up /\ ~askStep /\ m_asking # "State" /\ requests < MaxRequests
    /\ m_asking' = "Nothing" /\ lateAsk' = FALSE
    /\ requests' = requests + 1
    /\ UNCHANGED <<askStep, enabled, peerSession, rude, ticking, toObserver, received>>

\* The second half of setAsking.
AskedNow ==
    /\ askStep
    /\ askStep' = FALSE /\ lateAsk' = FALSE
    /\ UNCHANGED <<m_asking, enabled, peerSession, rude, ticking, toObserver, requests, received>>

\* interpret notes the time, whatever the packet is.
interpreting ==
    /\ up /\ enabled /\ ~askStep /\ received < MaxReceived
    /\ received' = received + 1 /\ lateAsk' = FALSE
    /\ UNCHANGED <<askStep, peerSession, rude, ticking, requests>>

Status ==
    /\ interpreting
    /\ m_asking' = "Nothing" /\ toObserver' = "State"
    /\ UNCHANGED enabled

\* An answer counts only if it is the one that was asked for.
Answer(a) ==
    /\ interpreting
    /\ IF m_asking = a THEN m_asking' = "Nothing" /\ toObserver' = a
                       ELSE UNCHANGED <<m_asking, toObserver>>
    /\ UNCHANGED enabled

\* Transactions, new blocks, the other side's own requests, which are
\* answered; and a packet that causes an exception, which is caught.
OtherPacket ==
    /\ interpreting
    /\ UNCHANGED <<m_asking, enabled, toObserver>>

TooManyHashes ==
    /\ interpreting
    /\ enabled' = FALSE
    /\ UNCHANGED <<m_asking, toObserver>>

Elapse ==
    /\ ~lateAsk
    /\ lateAsk' = TRUE
    /\ UNCHANGED <<m_asking, askStep, enabled, peerSession, rude, ticking, toObserver, requests, received>>

\* tick reads m_lastAsk first and m_asking after it.
TickLooks ==
    /\ up /\ ~ticking /\ lateAsk
    /\ ticking' = TRUE
    /\ UNCHANGED <<m_asking, lateAsk, askStep, enabled, peerSession, rude, toObserver, requests, received>>

\* A plausible bug: only the requests of the sync time out.
TickDecidesOnBlocks ==
    /\ ticking
    /\ ticking' = FALSE
    /\ peerSession' = IF up /\ m_asking \in {"BlockHeaders", "BlockBodies"} THEN "PingTimeout" ELSE peerSession
    /\ UNCHANGED <<m_asking, lateAsk, askStep, enabled, rude, toObserver, requests, received>>

TickDecides ==
    /\ ticking
    /\ ticking' = FALSE
    /\ peerSession' = IF up /\ m_asking # "Nothing" THEN "PingTimeout" ELSE peerSession
    /\ UNCHANGED <<m_asking, lateAsk, askStep, enabled, rude, toObserver, requests, received>>

SessionLost ==
    /\ up
    /\ peerSession' = "lost"
    /\ UNCHANGED <<m_asking, lateAsk, askStep, enabled, rude, ticking, toObserver, requests, received>>

\* ~EthereumPeer: rude is who leaves while being asked.
PeerDestroyed ==
    /\ ~up /\ peerSession # "destroyed" /\ ~ticking /\ ~askStep
    /\ peerSession' = "destroyed"
    /\ rude' = (m_asking # "Nothing")
    /\ UNCHANGED <<m_asking, lateAsk, askStep, enabled, ticking, toObserver, requests, received>>

PeerNext ==
    \/ \E a \in Askings : Request(a) \/ Answer(a)
    \/ RequestNothing \/ AskedNow
    \/ Status \/ OtherPacket \/ TooManyHashes
    \/ Elapse \/ TickLooks \/ TickDecides
    \/ SessionLost \/ PeerDestroyed

\* Time passes, setAsking goes on, and doWork ticks.
PeerSteps == Elapse \/ AskedNow \/ TickLooks \/ TickDecides \/ PeerDestroyed

-----------------------------------------------------------------------------
\* A peer that was asked and falls silent, a disabled one included, is
\* disconnected and remembered as rude: a request does not hang for ever,
\* though every packet of whatever kind puts the timeout off.
SilentPeerLeaves ==
    (up /\ m_asking # "Nothing") ~> (m_asking = "Nothing" \/ (peerSession = "destroyed" /\ rude))
=============================================================================
