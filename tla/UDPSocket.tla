------------------------------ MODULE UDPSocket ------------------------------
(***************************************************************************)
(* dev::p2p::UDPSocket (libp2p/UDP.h) as NodeTable uses it: connected once,*)
(* written to by any thread, read and written by handlers of the service   *)
(* thread, disconnected by its owner and again by its destructor.  Data-   *)
(* grams have no contents.                                                 *)
(***************************************************************************)
EXTENDS Naturals

CONSTANTS
    UdpSenders,   \* threads that call send
    MaxDatagrams  \* bound: datagrams sent

VARIABLES
    m_started, m_closed,
    m_socketError,  \* an error was recorded; nothing ever clears it
    socketOpen,     \* the boost socket
    m_sendQ,        \* number of queued datagrams, the one being sent included
    outSends,       \* async_send_to operations whose handler has not run
    receiving,      \* an async_receive_from is pending
    udpThread,      \* what each sender is about to do
    leaving,        \* how far disconnectWithError is, for the owner and for a handler
    sends,          \* datagrams handed to send, for the bound
    onDisconnected  \* how often the owner was told

queueVars == <<m_sendQ, outSends, udpThread, sends>>
closeVars == <<m_started, m_closed, m_socketError, socketOpen, onDisconnected>>
udpVars == <<queueVars, closeVars, receiving, leaving>>

Leavers == {"owner", "handler"}

UdpInit ==
    /\ m_started = FALSE /\ m_closed = TRUE /\ m_socketError = FALSE /\ socketOpen = FALSE
    /\ m_sendQ = 0 /\ outSends = 0 /\ receiving = FALSE
    /\ udpThread = [t \in UdpSenders |-> "idle"]
    /\ leaving = [l \in Leavers |-> "no"]
    /\ sends = 0 /\ onDisconnected = 0

\* The owner connects a new socket; bind has a second try, and the first read
\* begins.  A socket that was closed is not connected again.
connect ==
    /\ ~m_started /\ ~m_socketError
    /\ m_started' = TRUE /\ m_closed' = FALSE /\ socketOpen' = TRUE
    /\ m_sendQ' = 0 /\ receiving' = TRUE
    /\ UNCHANGED <<m_socketError, onDisconnected, outSends, udpThread, sends, leaving>>

\* send looks at m_closed without a lock ...
SendLooks(t) ==
    /\ udpThread[t] = "idle" /\ ~m_closed /\ sends < MaxDatagrams
    /\ udpThread' = [udpThread EXCEPT ![t] = "open"]
    /\ sends' = sends + 1
    /\ UNCHANGED <<closeVars, receiving, leaving, m_sendQ, outSends>>

\* ... and under x_sendQ queues, and begins to write if it is the first.
SendPushes(t) ==
    /\ udpThread[t] = "open"
    /\ udpThread' = [udpThread EXCEPT ![t] = "idle"]
    /\ m_sendQ' = m_sendQ + 1
    /\ outSends' = outSends + (IF m_sendQ = 0 /\ ~m_closed THEN 1 ELSE 0)
    /\ UNCHANGED <<closeVars, receiving, leaving, sends>>

\* A plausible bug: the handler pops and leaves the rest to the next send.
SentLeavingRest ==
    /\ outSends > 0
    /\ outSends' = outSends - 1 /\ m_sendQ' = m_sendQ - 1
    /\ UNCHANGED <<closeVars, udpThread, sends, receiving, leaving>>

\* The handler of async_send_to, whatever the error: on a closed socket it
\* disconnects, otherwise it pops and goes on.
Sent ==
    /\ outSends > 0
    /\ IF m_closed
       THEN /\ leaving["handler"] = "no" /\ leaving' = [leaving EXCEPT !["handler"] = "look"]
            /\ outSends' = outSends - 1 /\ UNCHANGED m_sendQ
       ELSE /\ m_sendQ' = m_sendQ - 1
            /\ outSends' = IF m_sendQ' = 0 THEN outSends - 1 ELSE outSends
            /\ UNCHANGED leaving
    /\ UNCHANGED <<closeVars, udpThread, sends, receiving>>

\* The handler of async_receive_from reads on unless the socket was closed.
Received ==
    /\ receiving
    /\ receiving' = ~m_closed
    /\ IF m_closed THEN leaving["handler"] = "no" /\ leaving' = [leaving EXCEPT !["handler"] = "look"]
                   ELSE UNCHANGED leaving
    /\ UNCHANGED <<queueVars, closeVars>>

\* disconnect, called by the owner or by its destructor.
disconnectUdp ==
    /\ leaving["owner"] = "no" /\ (m_started \/ socketOpen)
    /\ leaving' = [leaving EXCEPT !["owner"] = "look"]
    /\ UNCHANGED <<queueVars, closeVars, receiving>>

\* disconnectWithError: the first caller records its error under a lock ...
RecordError(l) ==
    /\ leaving[l] = "look"
    /\ leaving' = [leaving EXCEPT ![l] =
                     IF (~m_started /\ m_closed /\ ~socketOpen) \/ m_socketError THEN "no" ELSE "swap"]
    /\ m_socketError' = (m_socketError \/ leaving'[l] = "swap")
    /\ UNCHANGED <<queueVars, receiving, m_started, m_closed, socketOpen, onDisconnected>>

\* ... and the one that resets m_started closes the socket and tells the owner.
CloseSocket(l) ==
    /\ leaving[l] = "swap"
    /\ leaving' = [leaving EXCEPT ![l] = "no"]
    /\ IF m_started
       THEN /\ m_started' = FALSE /\ m_closed' = TRUE /\ socketOpen' = FALSE
            /\ onDisconnected' = onDisconnected + (IF m_closed THEN 0 ELSE 1)
       ELSE UNCHANGED <<m_started, m_closed, socketOpen, onDisconnected>>
    /\ UNCHANGED <<queueVars, receiving, m_socketError>>

UdpNext ==
    \/ connect \/ disconnectUdp
    \/ \E t \in UdpSenders : SendLooks(t) \/ SendPushes(t)
    \/ Sent \/ Received
    \/ \E l \in Leavers : RecordError(l) \/ CloseSocket(l)

UdpSpec == UdpInit /\ [][UdpNext]_udpVars

-----------------------------------------------------------------------------
\* One send is under way whenever something is queued on an open socket, and
\* never two: senders that raced with each other, or with the handler, or with
\* the disconnect, leave no datagram that nobody sends, and the owner learns
\* of the end of the connection once.
OneSendLoop ==
    /\ outSends <= 1
    /\ ~m_closed /\ m_sendQ > 0 => outSends = 1
    /\ onDisconnected <= 1

UdpFlags ==
    /\ m_started \in BOOLEAN /\ m_closed \in BOOLEAN /\ m_socketError \in BOOLEAN
    /\ socketOpen \in BOOLEAN /\ receiving \in BOOLEAN

UdpCounts ==
    /\ m_sendQ \in Nat /\ outSends \in Nat /\ sends \in Nat /\ onDisconnected \in Nat
    /\ udpThread \in [UdpSenders -> {"idle", "open"}]
    /\ leaving \in [Leavers -> {"no", "look", "swap"}]

\* The inductive invariant behind OneSendLoop.  Both flags and the boost
\* socket change together; the queue and the loop are in step as long as the
\* socket is open, and are not reset for a second connection because there is
\* none: an error is recorded before the socket is closed.
SendLoop ==
    /\ (m_closed <=> ~m_started) /\ (socketOpen <=> m_started)
    /\ outSends <= 1 /\ onDisconnected <= 1
    /\ m_started => /\ outSends = (IF m_sendQ > 0 THEN 1 ELSE 0)
                    /\ onDisconnected = 0
    /\ ~m_started /\ ~m_socketError => outSends = 0 /\ onDisconnected = 0
    /\ \A l \in Leavers : leaving[l] = "swap" => m_socketError

UdpInv == UdpFlags /\ UdpCounts /\ SendLoop
=============================================================================
