------------------------------ MODULE Session ------------------------------
(***************************************************************************)
(* One dev::p2p::Session (libp2p/Session.cpp): packets are queued by any   *)
(* thread and written one at a time; the read chain lives on the service   *)
(* thread.  A step is what happens under x_framing, between two of its     *)
(* critical sections, or in one handler.  Packets are numbers in the order *)
(* in which send accepted them; their contents do not matter, except that  *)
(* Goodbye is the DisconnectPacket of the service thread.                  *)
(***************************************************************************)
EXTENDS Naturals, Sequences, SequencesExt

CONSTANTS
    Senders,      \* threads that call sealAndSend: the service thread, EthereumHost, ...
    Service,      \* the service thread, which runs the handlers
    MaxPackets    \* bound: packets handed to send

ASSUME ServiceSends == Service \in Senders

Goodbye == 0

VARIABLES
    framed,           \* isFramingEnabled: the peer announced a version > 4
    open,             \* m_socket is open
    m_dropped,
    m_lastDisconnect, \* of the Peer
    m_writeQueue,     \* queued packets [id, times encrypted]
    m_encFrames,      \* the same with framing: frames, encrypted when muxed
    writers,          \* packets in the RLPXFrameWriters, not yet muxed
    sending,          \* what a thread inside send, or drop, is about to do
    departing,          \* the reason for which a thread is inside disconnect
    writing,          \* entries handed to async_write whose handler has not run
    rewriting,        \* a handler found more to write and has left its critical section
    accepted, streamed,   \* history: packets queued, packets written, in order
    read              \* where the read chain is

sendVars == <<m_writeQueue, m_encFrames, writers, sending, departing, writing, rewriting,
              accepted>>
dropVars == <<open, m_dropped, m_lastDisconnect>>
sessionVars == <<framed, sendVars, dropVars, streamed, read>>

SessionInit ==
    /\ framed \in BOOLEAN
    /\ open = TRUE /\ m_dropped = FALSE
    /\ m_lastDisconnect = "NoDisconnect"
    /\ m_writeQueue = <<>> /\ m_encFrames = <<>> /\ writers = <<>>
    /\ sending = [t \in Senders |-> "idle"] /\ departing = [t \in Senders |-> "none"]
    /\ writing = <<>> /\ rewriting = FALSE /\ accepted = <<>> /\ streamed = <<>>
    /\ read = "none"

-----------------------------------------------------------------------------
(* Writing.                                                                *)

\* Thread t is not inside send or disconnect.
settled(t) == sending[t] = "idle" /\ departing[t] = "none"

\* Handlers run one at a time, and after what the last one sent.
serviceFree == settled(Service) /\ ~rewriting

plain(p) == [id |-> p, times |-> 0]
encrypted(e) == [e EXCEPT !.times = @ + 1]

\* One frame's worth of every writer is encrypted and appended.
multiplexAll(frames, ws) ==
    IF ws = <<>> THEN <<frames, ws>>
                 ELSE <<Append(frames, encrypted(plain(Head(ws)))), Tail(ws)>>

accept(p) == accepted' = Append(accepted, p)

\* A plausible bug: whoever finds something queued starts writing.
queueAlwaysWriting(t, p) ==
    /\ accept(p)
    /\ m_writeQueue' = Append(m_writeQueue, plain(p))
    /\ sending' = [sending EXCEPT ![t] = "write"]
    /\ UNCHANGED <<m_encFrames, writers, departing, writing, rewriting>>

\* The critical section of send: queue the packet, and find out whether this
\* thread starts the write chain.
queue(t, p) ==
    /\ accept(p)
    /\ IF framed
       THEN LET muxed == multiplexAll(m_encFrames, Append(writers, p))
            IN  /\ m_encFrames' = muxed[1] /\ writers' = muxed[2]
                /\ sending' = [sending EXCEPT ![t] = IF m_encFrames = <<>> THEN "write" ELSE "idle"]
                /\ UNCHANGED m_writeQueue
       ELSE /\ m_writeQueue' = Append(m_writeQueue, plain(p))
            /\ sending' = [sending EXCEPT ![t] = IF Len(m_writeQueue') = 1 THEN "write" ELSE "idle"]
            /\ UNCHANGED <<m_encFrames, writers>>
    /\ UNCHANGED <<departing, writing, rewriting>>

\* send, up to the check that the socket is open.
SendChecks(t) ==
    /\ settled(t) /\ Len(accepted) < MaxPackets /\ open
    /\ sending' = [sending EXCEPT ![t] = "checked"]
    /\ UNCHANGED <<framed, m_writeQueue, m_encFrames, writers, departing, writing, rewriting, accepted,
                   dropVars, streamed, read>>

\* What thread t sends.  The DisconnectPacket of another thread than the
\* service thread is a packet like others: more may follow it.
packet(t) == IF t = Service /\ departing[t] # "none" THEN Goodbye ELSE Len(accepted) + 1

SendQueues(t) ==
    /\ sending[t] = "checked"
    /\ queue(t, packet(t))
    /\ UNCHANGED <<framed, dropVars, streamed, read>>

\* async_write: an operation on a closed socket is doomed.
asyncWrite(e) == writing' = Append(writing, [entry |-> e, doomed |-> ~open])

\* write() and writeFrames(): the head is encrypted in place now, or was when
\* it was muxed.
handOver ==
    /\ IF framed
       THEN /\ IF m_encFrames = <<>> THEN UNCHANGED writing ELSE asyncWrite(Head(m_encFrames))
            /\ UNCHANGED m_writeQueue
       ELSE /\ m_writeQueue' = [m_writeQueue EXCEPT ![1] = encrypted(@)]
            /\ asyncWrite(m_writeQueue'[1])
    /\ UNCHANGED m_encFrames

SendWrites(t) ==
    /\ sending[t] = "write"
    /\ handOver
    /\ sending' = [sending EXCEPT ![t] = "idle"]
    /\ UNCHANGED <<framed, writers, departing, rewriting, accepted, dropVars, streamed, read>>

-----------------------------------------------------------------------------
(* Leaving.                                                                *)

\* drop: only the first one counts.
drop(reason) ==
    IF m_dropped THEN UNCHANGED dropVars
    ELSE open' = FALSE /\ m_dropped' = TRUE /\ m_lastDisconnect' = reason

\* disconnect looks whether the socket is open, sends its packet as send
\* does, if so, and drops: other threads may come in between.
disconnect(t, reason) ==
    /\ departing' = [departing EXCEPT ![t] = reason]
    /\ sending' = [sending EXCEPT ![t] = IF open THEN "checked" ELSE "idle"]
    /\ UNCHANGED <<m_writeQueue, m_encFrames, writers, writing, rewriting, accepted, dropVars>>

\* The drop at the end of disconnect: the socket is closed first.
DropCloses(t) ==
    /\ departing[t] # "none" /\ sending[t] = "idle"
    /\ \/ /\ m_dropped
          /\ departing' = [departing EXCEPT ![t] = "none"]
          /\ UNCHANGED <<sending, open>>
       \/ /\ ~m_dropped
          /\ open' = FALSE
          /\ sending' = [sending EXCEPT ![t] = "mark"]
          /\ UNCHANGED departing
    /\ UNCHANGED <<framed, m_writeQueue, m_encFrames, writers, writing, rewriting, accepted,
                   m_dropped, m_lastDisconnect, streamed, read>>

DropMarks(t) ==
    /\ sending[t] = "mark"
    /\ m_dropped' = TRUE /\ m_lastDisconnect' = departing[t]
    /\ sending' = [sending EXCEPT ![t] = "idle"]
    /\ departing' = [departing EXCEPT ![t] = "none"]
    /\ UNCHANGED <<framed, m_writeQueue, m_encFrames, writers, writing, rewriting, accepted,
                   open, streamed, read>>

\* The Host disconnects: shutdown, useless peer, duplicate.
HostDisconnects ==
    /\ serviceFree
    /\ disconnect(Service, "ClientQuit")
    /\ UNCHANGED <<framed, streamed, read>>

\* EthereumPeer::tick, on the thread of EthereumHost: a request timed out.
PeerTimesOut(t) ==
    /\ t # Service /\ settled(t)
    /\ disconnect(t, "PingTimeout")
    /\ UNCHANGED <<framed, streamed, read>>

-----------------------------------------------------------------------------
(* Handlers of async_write.                                                *)

\* The transport took the entry; closing the socket may come too late to
\* prevent it.  The handler removes the head of the queue and, with the lock
\* released, goes on with the next entry.
WriteDone ==
    /\ writing # <<>> /\ ~Head(writing).doomed /\ serviceFree
    /\ streamed' = Append(streamed, Head(writing).entry.id)
    /\ writing' = Tail(writing)
    /\ IF framed
       THEN LET muxed == multiplexAll(Tail(m_encFrames), writers)
            IN  /\ m_encFrames' = muxed[1] /\ writers' = muxed[2]
                /\ rewriting' = (m_encFrames' # <<>>)
                /\ UNCHANGED m_writeQueue
       ELSE /\ m_writeQueue' = Tail(m_writeQueue)
            /\ rewriting' = (m_writeQueue' # <<>>)
            /\ UNCHANGED <<m_encFrames, writers>>
    /\ UNCHANGED <<framed, sending, departing, accepted, dropVars, read>>

\* A plausible bug: the handler leaves the rest to the next send.
WritesOnLater ==
    /\ rewriting
    /\ rewriting' = FALSE
    /\ UNCHANGED <<framed, m_writeQueue, m_encFrames, writers, sending, departing, writing, accepted,
                   dropVars, streamed, read>>

WritesOn ==
    /\ rewriting
    /\ handOver
    /\ rewriting' = FALSE
    /\ UNCHANGED <<framed, writers, sending, departing, accepted, dropVars, streamed, read>>

\* The write fails, as it may at any time and does on a closed socket: the
\* queue is left as it is.
WriteFails ==
    /\ writing # <<>> /\ serviceFree
    /\ writing' = Tail(writing)
    /\ drop("TCPError")
    /\ UNCHANGED <<framed, m_writeQueue, m_encFrames, writers, sending, departing, rewriting, accepted,
                   streamed, read>>

-----------------------------------------------------------------------------
(* Reading.  A chain of handlers: header, frame, header, ...               *)

\* start sends a ping and begins to read.
start ==
    /\ read = "none" /\ open /\ serviceFree /\ Len(accepted) < MaxPackets
    /\ queue(Service, Len(accepted) + 1)
    /\ read' = "header"
    /\ UNCHANGED <<framed, dropVars, streamed>>

\* doRead after a frame: not if the session was dropped meanwhile.
again == read' = IF m_dropped' THEN "ended" ELSE "header"
chainEnds == read' = "ended"

\* checkRead refuses, or MAC or header are wrong: the chain ends and drops,
\* or disconnects if the length differs.
ReadRefused ==
    /\ read \in {"header", "frame"} /\ serviceFree
    /\ chainEnds
    /\ \/ \E reason \in {"TCPError", "BadProtocol"} : drop(reason) /\ UNCHANGED sendVars
       \/ disconnect(Service, "UserReason")
    /\ UNCHANGED <<framed, streamed>>

ReadHeader ==
    /\ read = "header" /\ open /\ serviceFree
    /\ read' = "frame"
    /\ UNCHANGED <<framed, sendVars, dropVars, streamed>>

\* A malformed frame: checkPacket fails, or its protocol is not registered.
FrameInvalid ==
    /\ read = "frame" /\ open /\ serviceFree
    /\ chainEnds
    /\ IF framed THEN drop("BadProtocol") /\ UNCHANGED sendVars
                 ELSE disconnect(Service, "BadProtocol")
    /\ UNCHANGED <<framed, streamed>>

\* demux, or the conversion of the packet type, throws: the exception leaves
\* the handler and no one reads any more.
FrameThrows ==
    /\ read = "frame" /\ open /\ serviceFree
    /\ read' = "threw"
    /\ UNCHANGED <<framed, sendVars, dropVars, streamed>>

\* A DisconnectPacket, well-formed or not; interpret drops.
FrameDisconnect ==
    /\ read = "frame" /\ open /\ serviceFree
    /\ \E reason \in {"DisconnectRequested", "BadProtocol"} : drop(reason)
    /\ again
    /\ UNCHANGED <<framed, sendVars, streamed>>

\* A Ping is answered; the rest of the handler follows when it is queued.
FramePing ==
    /\ read = "frame" /\ open /\ serviceFree /\ Len(accepted) < MaxPackets
    /\ queue(Service, Len(accepted) + 1)
    /\ UNCHANGED dropVars
    /\ again
    /\ UNCHANGED <<framed, streamed>>

\* A packet of a capability, interpreted or, if that is disabled, ignored;
\* an exception in interpret is caught and disconnects, after which doRead
\* finds the session dropped.
FrameCapability ==
    /\ read = "frame" /\ open /\ serviceFree
    /\ \/ UNCHANGED <<sendVars, dropVars>> /\ again
       \/ disconnect(Service, "BadProtocol") /\ chainEnds
    /\ UNCHANGED <<framed, streamed>>

ReadNext ==
    \/ ReadRefused \/ ReadHeader \/ FrameInvalid \/ FrameThrows \/ FrameDisconnect
    \/ FrameCapability \/ start \/ FramePing

SessionNext ==
    \/ \E t \in Senders : SendChecks(t) \/ SendQueues(t) \/ SendWrites(t)
                            \/ PeerTimesOut(t) \/ DropCloses(t) \/ DropMarks(t)
    \/ HostDisconnects
    \/ WriteDone \/ WritesOn \/ WriteFails
    \/ ReadNext

SessionSpec == SessionInit /\ [][SessionNext]_sessionVars

\* Threads inside send or disconnect go on, and the transport answers.
SessionSteps ==
    \/ \E t \in Senders : SendQueues(t) \/ SendWrites(t) \/ DropCloses(t) \/ DropMarks(t)
    \/ WriteDone \/ WritesOn \/ WriteFails

-----------------------------------------------------------------------------
(* Properties.                                                             *)

\* However senders, handlers and disconnect interleave, one write is under
\* way at a time, each packet is encrypted once, which the running MAC and
\* cipher state of RLPXFrameCoder need, packets reach the wire in the order
\* in which they were queued, and nothing follows the DisconnectPacket of the
\* service thread.  (What EthereumHost's thread disconnects may go on for the
\* packets that other threads queue between its send and its drop.)
PacketsInOrder ==
    /\ Len(writing) <= 1
    /\ \A i \in DOMAIN writing : writing[i].entry.times = 1
    /\ \A i \in DOMAIN m_writeQueue : m_writeQueue[i].times <= (IF i = 1 THEN 1 ELSE 0)
    /\ IsPrefix(streamed, accepted)
    /\ \A i \in DOMAIN streamed : streamed[i] = Goodbye => i = Len(streamed)

\* A queued packet is written unless the session is dropped: no wake-up is
\* lost between the thread that queues and the handler that empties the queue.
QueuedIsWritten ==
    \A n \in 1..MaxPackets : (Len(accepted) >= n) ~> (Len(streamed) >= n \/ m_dropped)

\* The read chain ends only with a session that is dropped, or by the handler
\* that is about to drop it; the only way to
\* a session that is connected and deaf is an exception that leaves a handler.
DeafOnlyByException == read = "ended" => m_dropped \/ departing[Service] # "none"

\* Both directions of a session: nothing is written out of order, and reading
\* ends with the session.
SessionSound == PacketsInOrder /\ DeafOnlyByException

-----------------------------------------------------------------------------
(* The inductive invariant behind SessionSound.                            *)

Entries == [id : Nat, times : Nat]
Writes == [entry : Entries, doomed : BOOLEAN]
Reasons == {"none", "ClientQuit", "PingTimeout", "UserReason", "BadProtocol"}

SessionTypes ==
    /\ m_writeQueue \in Seq(Entries) /\ m_encFrames \in Seq(Entries)
    /\ sending \in [Senders -> {"idle", "checked", "write", "mark"}]
    /\ departing \in [Senders -> Reasons]
    /\ writing \in Seq(Writes)
    /\ accepted \in Seq(Nat) /\ streamed \in Seq(Nat)

\* What has been accepted and is not yet on the wire.
unsent == IF framed THEN m_encFrames ELSE m_writeQueue

\* One queue is in use; with framing, packets pass through the writers within
\* one critical section.
OneQueue ==
    /\ writers = <<>>
    /\ framed => m_writeQueue = <<>>
    /\ ~framed => m_encFrames = <<>>

\* The packets accepted are those on the wire and then those in the queue.
QueueInOrder ==
    /\ Len(accepted) = Len(streamed) + Len(unsent)
    /\ \A i \in 1..Len(streamed) : accepted[i] = streamed[i]
    /\ \A i \in 1..Len(unsent) : accepted[Len(streamed) + i] = unsent[i].id

\* Who will hand over or remove the head of the queue: the handler of the
\* write under way, a thread that found the queue empty, or the handler that
\* found more to write.  It is one of them at most, and there is a head.
OneWriter ==
    /\ Len(writing) <= 1
    /\ \A t \in Senders : sending[t] = "write" =>
          writing = <<>> /\ ~rewriting /\ unsent # <<>> /\ \A u \in Senders : sending[u] = "write" => u = t
    /\ rewriting => writing = <<>> /\ unsent # <<>>
    /\ writing # <<>> => unsent # <<>> /\ writing[1].entry = unsent[1] /\ unsent[1].times = 1

\* Frames are encrypted when they are queued; otherwise only the head is
\* encrypted, by the one who hands it over.
EncryptedOnce ==
    /\ framed => \A i \in 1..Len(m_encFrames) : m_encFrames[i].times = 1
    /\ \A i \in 1..Len(m_writeQueue) : m_writeQueue[i].times <= (IF i = 1 THEN 1 ELSE 0)
    /\ ~framed /\ (rewriting \/ \E t \in Senders : sending[t] = "write") => m_writeQueue[1].times = 0

\* The service thread accepts its DisconnectPacket once, before it closes the
\* socket, and no handler runs in between, so that what is handed over after it
\* has been written is doomed.
GoodbyeLast ==
    /\ m_dropped \/ (\E t \in Senders : sending[t] = "mark") => ~open
    /\ sending[Service] = "checked" /\ departing[Service] # "none" =>
          \A i \in 1..Len(accepted) : accepted[i] # Goodbye
    /\ \A i \in 1..Len(accepted) : accepted[i] = Goodbye => ~open \/ departing[Service] # "none"
    /\ \A i \in 1..Len(streamed) : streamed[i] = Goodbye =>
          i = Len(streamed) /\ ~open /\ \A j \in 1..Len(writing) : writing[j].doomed

WriteInv == SessionTypes /\ OneQueue /\ QueueInOrder /\ OneWriter /\ EncryptedOnce /\ GoodbyeLast
SessionInv == WriteInv /\ DeafOnlyByException
=============================================================================
