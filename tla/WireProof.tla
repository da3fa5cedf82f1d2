---------------------------- MODULE WireProof ----------------------------
(***************************************************************************)
(* Machine-checked proofs about dev::p2p::RLPXFrameCoder, about the        *)
(* endpoint that dev::p2p::Host advertises, about the datagrams that       *)
(* dev::p2p::NodeTable exchanges, and about the two write loops of libp2p. *)
(*                                                                         *)
(* The write loops, of UDPSocket's datagrams and of Session's packets,     *)
(* have the same hazard: any thread queues, and whoever finds the queue    *)
(* empty starts a loop that a handler goes on with.  The invariants say    *)
(* who the one writer is.                                                  *)
(*                                                                         *)
(* The endpoint: AdvertisedIsForwarded is not inductive, for what          *)
(* traverseNAT was granted is used after a step in which the router may    *)
(* have changed; RedirectWasGranted says what is still known then.         *)
(*                                                                         *)
(* The frames: TakenAsWritten speaks of payloads only, and says nothing of *)
(* a frame on the way. Stream says, of one direction, where writer and     *)
(* reader stand: there are functions M and A, the writer's MAC and its     *)
(* place in the cipher stream after each frame, that begin with the MAC    *)
(* both ends derive from the handshake; each frame on the way is the one   *)
(* written at its number, or damaged; and the reader's MAC and place are   *)
(* those of the frame it waits for. A MAC covers the frames before it, so  *)
(* what was damaged never has the MAC of what was written (DamageShows).   *)
(*                                                                         *)
(* The datagrams: that the whole answer arrives is said of a time when     *)
(* nothing is on the way; FindIsUnderWay and PingIsUnderWay say that,      *)
(* while nothing was spoiled, the question, its answer or what the answer  *)
(* tells is somewhere. They hold because every slice fits in a datagram,   *)
(* which needs addresses of four bytes: with sixteen a full slice is       *)
(* longer than a datagram may be.                                          *)
(*                                                                         *)
(* The multiplexer: packets in frames are a way of places, from where the  *)
(* reader is to where the writer is (FramingInv).  The proof has a lemma   *)
(* for each thing that mux may write, and one for what it takes of a frame *)
(* to keep the invariant (FrameWritten).                                   *)
(***************************************************************************)
EXTENDS UDPSocket, Session, FrameCoder, RLPXFraming, PublicEndpoint, Datagrams, FiniteSetTheorems, SequenceTheorems, WellFoundedInduction, TLAPS

-----------------------------------------------------------------------------
(* Datagrams.                                                              *)

\* A new socket.
LEMMA UdpInitially == UdpInit => UdpInv
<1>1. UdpInit => UdpFlags
  BY DEF UdpInit, UdpFlags
<1>2. UdpInit => UdpCounts /\ SendLoop
  BY DEF UdpInit, UdpCounts, SendLoop
<1> QED
  BY <1>1, <1>2 DEF UdpInv

\* Sends, handlers and the two-step disconnect keep the loop and the flags in step.
LEMMA UdpStep == UdpInv /\ [UdpNext]_udpVars => UdpInv'
<1> SUFFICES ASSUME UdpInv, [UdpNext]_udpVars PROVE UdpInv'
  OBVIOUS
<1>1. UdpFlags'
  BY DEF UdpInv, UdpFlags, udpVars, queueVars, closeVars, UdpNext, connect, disconnectUdp,
     SendLooks, SendPushes, Sent, Received, RecordError, CloseSocket
<1>2. UdpCounts' /\ SendLoop'
  <2> USE DEF UdpInv, UdpCounts, SendLoop, Leavers, queueVars, closeVars
  <2>1. CASE connect
    BY <2>1 DEF connect
  <2>2. CASE disconnectUdp
    BY <2>2 DEF disconnectUdp
  <2>3. ASSUME NEW t \in UdpSenders, SendLooks(t) PROVE UdpCounts' /\ SendLoop'
    BY <2>3 DEF SendLooks
  <2>4. ASSUME NEW t \in UdpSenders, SendPushes(t) PROVE UdpCounts' /\ SendLoop'
    BY <2>4 DEF SendPushes
  <2>5. CASE Sent
    BY <2>5 DEF Sent
  <2>6. CASE Received
    BY <2>6 DEF Received
  <2>7. ASSUME NEW l \in Leavers, RecordError(l) PROVE UdpCounts' /\ SendLoop'
    BY <2>7 DEF RecordError
  <2>8. ASSUME NEW l \in Leavers, CloseSocket(l) PROVE UdpCounts' /\ SendLoop'
    BY <2>8 DEF CloseSocket
  <2>9. CASE UNCHANGED udpVars
    BY <2>9 DEF udpVars
  <2> QED
    BY <2>1, <2>2, <2>3, <2>4, <2>5, <2>6, <2>7, <2>8, <2>9 DEF UdpNext
<1> QED
  BY <1>1, <1>2 DEF UdpInv

\* Datagrams are sent one at a time, none is left behind on an open socket,
\* and the owner learns once that it was closed, for any number of sending
\* threads.
THEOREM UdpSendLoop == UdpSpec => []OneSendLoop
<1>1. UdpInv => OneSendLoop
  BY DEF UdpInv, UdpFlags, UdpCounts, SendLoop, OneSendLoop
<1> QED
  BY UdpInitially, UdpStep, <1>1, PTL DEF UdpSpec

-----------------------------------------------------------------------------
(* Packets.                                                                *)

\* A packet that has been put into a writer leaves it at once, encrypted.
LEMMA MuxOne ==
  ASSUME NEW frames, NEW p
  PROVE  multiplexAll(frames, Append(<<>>, p)) = <<Append(frames, [id |-> p, times |-> 1]), <<>>>>
<1>1. Append(<<>>, p) = <<p>> /\ Head(<<p>>) = p /\ Tail(<<p>>) = <<>> /\ <<p>> # <<>>
  OBVIOUS
<1>2. encrypted(plain(p)) = [id |-> p, times |-> 1]
  BY DEF encrypted, plain
<1> QED
  BY <1>1, <1>2 DEF multiplexAll

\* With nothing in the writers there is nothing to mux.
LEMMA MuxNone ==
  ASSUME NEW frames
  PROVE  multiplexAll(frames, <<>>) = <<frames, <<>>>>
  BY DEF multiplexAll

\* A session that has not started.
LEMMA SessionInitially == SessionInit => SessionInv
<1> SUFFICES ASSUME SessionInit PROVE SessionInv
  OBVIOUS
<1> USE DEF SessionInit
<1>1. SessionTypes
  BY DEF SessionTypes, Reasons
<1>2. OneQueue /\ QueueInOrder
  BY DEF OneQueue, QueueInOrder, unsent
<1>3. OneWriter /\ EncryptedOnce
  BY DEF OneWriter, EncryptedOnce, unsent
<1>4. GoodbyeLast /\ DeafOnlyByException
  BY ServiceSends DEF GoodbyeLast, DeafOnlyByException
<1> QED
  BY <1>1, <1>2, <1>3, <1>4 DEF SessionInv, WriteInv

\* What follows from a packet p that has been accepted and appended to the
\* queue as the entry e.
LEMMA Enqueued ==
  ASSUME SessionTypes, QueueInOrder, NEW p \in Nat, NEW e \in Entries, e.id = p,
         accepted' = Append(accepted, p), unsent' = Append(unsent, e), UNCHANGED streamed
  PROVE  /\ /\ accepted' \in Seq(Nat)
            /\ Len(accepted') = Len(accepted) + 1
            /\ \A i \in 1..Len(accepted) : accepted'[i] = accepted[i]
            /\ accepted'[Len(accepted) + 1] = p
         /\ /\ unsent' \in Seq(Entries) /\ unsent' # <<>>
            /\ Len(unsent') = Len(unsent) + 1
            /\ \A i \in 1..Len(unsent) : unsent'[i] = unsent[i]
            /\ unsent'[Len(unsent) + 1] = e
         /\ unsent # <<>> => unsent'[1] = unsent[1]
         /\ unsent = <<>> => unsent'[1] = e
         /\ QueueInOrder'
<1>1. unsent \in Seq(Entries)
  BY DEF SessionTypes, unsent
<1>2. /\ accepted' \in Seq(Nat)
      /\ Len(accepted') = Len(accepted) + 1
      /\ \A i \in 1..Len(accepted) : accepted'[i] = accepted[i]
      /\ accepted'[Len(accepted) + 1] = p
  BY AppendProperties DEF SessionTypes
<1>3. /\ unsent' \in Seq(Entries) /\ unsent' # <<>>
      /\ Len(unsent') = Len(unsent) + 1
      /\ \A i \in 1..Len(unsent) : unsent'[i] = unsent[i]
      /\ unsent'[Len(unsent) + 1] = e
  BY <1>1, AppendProperties
<1>4. /\ Len(unsent) \in Nat /\ Len(streamed) \in Nat /\ Len(accepted) \in Nat
      /\ unsent # <<>> => 1 \in 1..Len(unsent)
      /\ unsent = <<>> => Len(unsent) = 0
  BY <1>1, EmptySeq, LenProperties DEF SessionTypes
<1>5. /\ unsent # <<>> => unsent'[1] = unsent[1]
      /\ unsent = <<>> => unsent'[1] = e
  BY <1>3, <1>4
<1>6. /\ Len(accepted') = Len(streamed') + Len(unsent')
      /\ \A i \in 1..Len(streamed) : accepted'[i] = streamed[i]
  BY <1>2, <1>3, <1>4 DEF QueueInOrder
<1>7. ASSUME NEW i \in 1..Len(unsent')
      PROVE  accepted'[Len(streamed) + i] = unsent'[i].id
  <2>1. CASE i = Len(unsent) + 1
    <3>1. Len(streamed) + i = Len(accepted) + 1
      BY <2>1, <1>4 DEF QueueInOrder
    <3> QED
      BY <2>1, <3>1, <1>2, <1>3
  <2>2. CASE i \in 1..Len(unsent)
    <3>1. Len(streamed) + i \in 1..Len(accepted)
      BY <2>2, <1>4 DEF QueueInOrder
    <3>2. accepted'[Len(streamed) + i] = accepted[Len(streamed) + i] /\ unsent'[i] = unsent[i]
      BY <2>2, <3>1, <1>2, <1>3
    <3> QED
      BY <2>2, <3>2 DEF QueueInOrder
  <2>3. Len(unsent') = Len(unsent) + 1 /\ Len(unsent) \in Nat
    BY <1>3, <1>4
  <2>4. i = Len(unsent) + 1 \/ i \in 1..Len(unsent)
    BY <2>3
  <2> QED
    BY <2>1, <2>2, <2>4
<1>8. QueueInOrder'
  BY <1>6, <1>7 DEF QueueInOrder
<1> QED
  BY <1>2, <1>3, <1>5, <1>8

\* A thread that queues a packet becomes the writer if the queue was empty.
LEMMA QueueKeeps ==
  ASSUME WriteInv, NEW t \in Senders, NEW p, p = packet(t), queue(t, p),
         p = Goodbye => sending[t] = "checked", UNCHANGED <<framed, dropVars, streamed>>
  PROVE  WriteInv'
<1> DEFINE e == [id |-> p, times |-> IF framed THEN 1 ELSE 0]
<1>1. SessionTypes /\ OneQueue /\ QueueInOrder /\ OneWriter /\ EncryptedOnce /\ GoodbyeLast
  BY DEF WriteInv
<1>2. /\ p \in Nat /\ e \in Entries
      /\ p = Goodbye => t = Service /\ departing[Service] # "none" /\ sending[Service] = "checked"
  BY <1>1 DEF SessionTypes, Goodbye, Entries, packet
<1>3. /\ accepted' = Append(accepted, p)
      /\ unsent' = Append(unsent, e)
      /\ IF framed THEN m_encFrames' = Append(m_encFrames, e) /\ UNCHANGED m_writeQueue
                   ELSE m_writeQueue' = Append(m_writeQueue, e) /\ UNCHANGED m_encFrames
      /\ writers' = <<>>
      /\ UNCHANGED <<departing, writing, rewriting, streamed, framed, open, m_dropped>>
  BY <1>1, MuxOne DEF queue, accept, OneQueue, unsent, plain, dropVars
<1>4. sending' = [sending EXCEPT ![t] = IF unsent = <<>> THEN "write" ELSE "idle"]
  <2>1. CASE framed
    BY <2>1 DEF queue, unsent
  <2>2. CASE ~framed
    <3>1. m_writeQueue \in Seq(Entries) /\ m_writeQueue' = Append(m_writeQueue, e)
      BY <1>1, <1>3, <2>2 DEF SessionTypes
    <3>2. Len(m_writeQueue') = Len(m_writeQueue) + 1
      BY <3>1, <1>2, AppendProperties DEF SessionTypes
    <3>3. Len(m_writeQueue') = 1 <=> m_writeQueue = <<>>
      BY <3>1, <3>2
    <3> QED
      BY <3>3, <2>2 DEF queue, unsent
  <2> QED
    BY <2>1, <2>2
<1> HIDE DEF e
<1>5. e.id = p /\ e.times = IF framed THEN 1 ELSE 0
  BY DEF e
<1>6. /\ accepted' \in Seq(Nat)
      /\ Len(accepted') = Len(accepted) + 1
      /\ \A i \in 1..Len(accepted) : accepted'[i] = accepted[i]
      /\ accepted'[Len(accepted) + 1] = p
  BY <1>1, <1>2, <1>3, <1>5, Enqueued
<1>7. /\ unsent' \in Seq(Entries) /\ unsent' # <<>>
      /\ Len(unsent') = Len(unsent) + 1
      /\ \A i \in 1..Len(unsent) : unsent'[i] = unsent[i]
      /\ unsent'[Len(unsent) + 1] = e
      /\ unsent # <<>> => unsent'[1] = unsent[1]
      /\ unsent = <<>> => unsent'[1] = e
  BY <1>1, <1>2, <1>3, <1>5, Enqueued
<1>8. QueueInOrder'
  BY <1>1, <1>2, <1>3, <1>5, Enqueued
<1>9. SessionTypes' /\ OneQueue'
  BY <1>1, <1>3, <1>4, <1>6, <1>7 DEF SessionTypes, OneQueue, unsent
<1>10. Len(unsent) \in Nat
  BY <1>1 DEF SessionTypes, unsent
<1>11. OneWriter'
  <2>1. ASSUME NEW s \in Senders, sending'[s] = "write"
        PROVE  writing = <<>> /\ ~rewriting /\ \A u \in Senders : sending'[u] = "write" => u = s
    BY <2>1, <1>1, <1>4 DEF OneWriter, SessionTypes
  <2>2. writing # <<>> => writing[1].entry = unsent'[1] /\ unsent'[1].times = 1
    BY <1>1, <1>7 DEF OneWriter
  <2> QED
    BY <2>1, <2>2, <1>1, <1>3, <1>7 DEF OneWriter
<1>12. EncryptedOnce'
  <2>1. CASE framed
    BY <2>1, <1>1, <1>3, <1>5, <1>7, <1>10 DEF EncryptedOnce, OneQueue, unsent
  <2>2. CASE ~framed
    <3>1. m_writeQueue = unsent /\ m_writeQueue' = unsent' /\ ~framed'
      BY <2>2, <1>3 DEF unsent
    <3>2. \A i \in 1..Len(unsent') : unsent'[i].times <= (IF i = 1 THEN 1 ELSE 0)
      BY <2>2, <3>1, <1>1, <1>5, <1>7, <1>10 DEF EncryptedOnce
    <3>3. CASE unsent = <<>>
      BY <2>2, <3>1, <3>2, <3>3, <1>5, <1>7 DEF EncryptedOnce
    <3>4. CASE unsent # <<>>
      <4>1. ASSUME NEW u \in Senders, sending'[u] = "write" PROVE sending[u] = "write"
        BY <3>4, <4>1, <1>1, <1>4 DEF SessionTypes
      <4> QED
        BY <2>2, <3>1, <3>2, <3>4, <4>1, <1>1, <1>3, <1>7 DEF EncryptedOnce
    <3> QED
      BY <3>3, <3>4
  <2> QED
    BY <2>1, <2>2
<1>13. GoodbyeLast'
  <2>1. /\ sending'[Service] = "checked" => sending[Service] = "checked" /\ t # Service
        /\ \A u \in Senders : sending'[u] = "mark" => sending[u] = "mark"
    BY <1>1, <1>4, ServiceSends DEF SessionTypes
  <2>2. \A i \in 1..Len(accepted') : i \in 1..Len(accepted) \/ i = Len(accepted) + 1
    BY <1>1, <1>6 DEF SessionTypes
  <2>3. \A i \in 1..Len(accepted') : accepted'[i] = Goodbye =>
           (i \in 1..Len(accepted) /\ accepted[i] = Goodbye) \/ p = Goodbye
    BY <2>2, <1>6
  <2>4. \A i \in 1..Len(accepted') : accepted'[i] = Goodbye => ~open \/ departing[Service] # "none"
    BY <2>3, <1>1, <1>2 DEF GoodbyeLast
  <2>5. sending'[Service] = "checked" /\ departing[Service] # "none" =>
           \A i \in 1..Len(accepted') : accepted'[i] # Goodbye
    BY <2>1, <2>3, <1>1, <1>2 DEF GoodbyeLast
  <2> QED
    BY <2>1, <2>4, <2>5, <1>1, <1>3 DEF GoodbyeLast
<1> QED
  BY <1>8, <1>9, <1>11, <1>12, <1>13 DEF WriteInv

\* Whoever hands over the head of the queue, once, is the handler from then on.
LEMMA HandOverKeeps ==
  ASSUME WriteInv, handOver, unsent # <<>>, writing = <<>>, ~framed => m_writeQueue[1].times = 0,
         ~rewriting', sending' \in [Senders -> {"idle", "checked", "mark"}],
         \A t \in Senders : sending'[t] \in {sending[t], "idle"},
         UNCHANGED <<framed, writers, departing, accepted, dropVars, streamed>>
  PROVE  WriteInv'
<1>1. SessionTypes /\ OneQueue /\ QueueInOrder /\ OneWriter /\ EncryptedOnce /\ GoodbyeLast
  BY DEF WriteInv
<1> DEFINE e == [unsent[1] EXCEPT !.times = 1]
<1>2. unsent \in Seq(Entries) /\ Len(unsent) \in Nat /\ 1 \in 1..Len(unsent)
  BY <1>1, EmptySeq DEF SessionTypes, unsent
<1>3. unsent[1] \in Entries /\ e \in Entries /\ e.id = unsent[1].id /\ e.times = 1
  <2>1. unsent[1] \in Entries
    BY <1>2, ElementOfSeq
  <2> QED
    BY <2>1 DEF Entries
<1>4. /\ unsent' \in Seq(Entries)
      /\ Len(unsent') = Len(unsent)
      /\ \A i \in 1..Len(unsent) : unsent'[i] = IF i = 1 THEN e ELSE unsent[i]
      /\ writing' = Append(<<>>, [entry |-> e, doomed |-> ~open])
      /\ IF framed THEN UNCHANGED <<m_encFrames, m_writeQueue>>
                   ELSE m_writeQueue' = unsent' /\ UNCHANGED m_encFrames
  <2>1. CASE framed
    <3>1. Head(m_encFrames) = unsent[1] /\ unsent' = unsent /\ m_encFrames = unsent
      BY <2>1, <1>2 DEF handOver, unsent
    <3>2. e = unsent[1]
      BY <2>1, <3>1, <1>1, <1>2, <1>3 DEF EncryptedOnce, Entries
    <3> QED
      BY <2>1, <3>1, <3>2, <1>2 DEF handOver, asyncWrite
  <2>2. CASE ~framed
    <3>1. m_writeQueue = unsent /\ m_writeQueue' = unsent'
      BY <2>2 DEF unsent
    <3>2. e = encrypted(m_writeQueue[1])
      BY <2>2, <3>1, <1>3 DEF encrypted, Entries
    <3>3. m_writeQueue' = [m_writeQueue EXCEPT ![1] = e]
      BY <2>2, <3>2 DEF handOver
    <3>4. /\ unsent' \in Seq(Entries)
          /\ Len(unsent') = Len(unsent)
          /\ \A i \in 1..Len(unsent) : unsent'[i] = IF i = 1 THEN e ELSE unsent[i]
      BY <3>1, <3>3, <1>2, <1>3, ExceptSeq
    <3>5. m_writeQueue'[1] = e
      BY <3>1, <3>4, <1>2
    <3> QED
      BY <2>2, <3>1, <3>4, <3>5 DEF handOver, asyncWrite
  <2> QED
    BY <2>1, <2>2
<1> HIDE DEF e
<1>5. /\ writing' \in Seq(Writes) /\ Len(writing') = 1
      /\ writing'[1] = [entry |-> e, doomed |-> ~open]
      /\ writing' # <<>>
  <2>1. (~open) \in BOOLEAN
    OBVIOUS
  <2>2. [entry |-> e, doomed |-> ~open] \in Writes
    BY <2>1, <1>3 DEF Writes
  <2>3. <<>> \in Seq(Writes) /\ Len(<<>>) = 0
    OBVIOUS
  <2> QED
    BY <2>2, <2>3, <1>4, AppendProperties
<1>6. SessionTypes' /\ OneQueue'
  BY <1>1, <1>4, <1>5 DEF SessionTypes, OneQueue, unsent
<1>7. QueueInOrder'
  BY <1>1, <1>2, <1>3, <1>4 DEF QueueInOrder
<1>8. OneWriter'
  BY <1>2, <1>3, <1>4, <1>5 DEF OneWriter
<1>9. EncryptedOnce'
  BY <1>1, <1>2, <1>3, <1>4 DEF EncryptedOnce, OneQueue, unsent
<1>10. GoodbyeLast'
  <2>1. /\ \A u \in Senders : sending'[u] = "mark" => sending[u] = "mark"
        /\ sending'[Service] = "checked" => sending[Service] = "checked"
        /\ UNCHANGED <<departing, accepted, streamed, open, m_dropped>>
    BY ServiceSends DEF dropVars
  <2>2. ~open => \A j \in 1..Len(writing') : writing'[j].doomed
    <3>1. [entry |-> e, doomed |-> ~open].doomed = (~open)
      OBVIOUS
    <3>2. \A j \in 1..Len(writing') : j = 1
      BY <1>5
    <3> QED
      BY <3>1, <3>2, <1>5
  <2>3. \A i \in 1..Len(streamed) : streamed[i] = Goodbye =>
           i = Len(streamed) /\ ~open /\ \A j \in 1..Len(writing') : writing'[j].doomed
    BY <2>2, <1>1 DEF GoodbyeLast
  <2> QED
    BY <2>1, <2>3, <1>1 DEF GoodbyeLast
<1> QED
  BY <1>6, <1>7, <1>8, <1>9, <1>10 DEF WriteInv

\* The handler of a write removes the head, and writes on if there is more.
LEMMA WriteDoneKeeps ==
  ASSUME WriteInv, WriteDone
  PROVE  WriteInv'
<1>1. SessionTypes /\ OneQueue /\ QueueInOrder /\ OneWriter /\ EncryptedOnce /\ GoodbyeLast
  BY DEF WriteInv
<1>0. /\ writing # <<>> /\ ~Head(writing).doomed /\ ~rewriting
      /\ streamed' = Append(streamed, Head(writing).entry.id)
      /\ writing' = Tail(writing)
      /\ UNCHANGED <<framed, sending, departing, accepted, open, m_dropped>>
      /\ departing[Service] = "none"
  BY DEF WriteDone, serviceFree, settled, dropVars
<1>2. /\ unsent \in Seq(Entries) /\ unsent # <<>> /\ Len(unsent) \in Nat \ {0}
      /\ Len(streamed) \in Nat /\ Len(accepted) \in Nat
      /\ writing[1].entry = unsent[1] /\ Head(writing) = writing[1] /\ Len(writing) = 1
  <2>1. unsent \in Seq(Entries) /\ unsent # <<>>
    BY <1>0, <1>1 DEF OneWriter, SessionTypes, unsent
  <2>2. writing \in Seq(Writes) /\ Len(writing) <= 1
    BY <1>1 DEF OneWriter, SessionTypes
  <2>3. Len(writing) \in Nat \ {0} /\ Head(writing) = writing[1]
    BY <2>2, <1>0, EmptySeq
  <2>4. Len(unsent) \in Nat \ {0} /\ Len(streamed) \in Nat /\ Len(accepted) \in Nat
    BY <2>1, <1>1, EmptySeq, LenProperties DEF SessionTypes
  <2>5. writing[1].entry = unsent[1]
    BY <1>0, <1>1 DEF OneWriter
  <2>6. Len(writing) = 1
    BY <2>2, <2>3
  <2> QED
    BY <2>1, <2>3, <2>4, <2>5, <2>6
<1>3. /\ unsent' = Tail(unsent)
      /\ rewriting' <=> unsent' # <<>>
      /\ IF framed THEN UNCHANGED m_writeQueue ELSE UNCHANGED m_encFrames
      /\ writers' = <<>>
  <2>1. CASE framed
    <3>1. m_encFrames' = Tail(m_encFrames) /\ writers' = <<>> /\ UNCHANGED m_writeQueue
      <4>1. multiplexAll(Tail(m_encFrames), writers) = <<Tail(m_encFrames), <<>>>>
        BY <1>1, MuxNone DEF OneQueue
      <4> QED
        BY <2>1, <4>1 DEF WriteDone
    <3>2. rewriting' <=> m_encFrames' # <<>>
      BY <2>1 DEF WriteDone
    <3> QED
      BY <2>1, <3>1, <3>2, <1>0 DEF unsent
  <2>2. CASE ~framed
    <3>1. m_writeQueue' = Tail(m_writeQueue) /\ writers' = <<>> /\ UNCHANGED m_encFrames
      BY <2>2, <1>1 DEF WriteDone, OneQueue
    <3>2. rewriting' <=> m_writeQueue' # <<>>
      BY <2>2 DEF WriteDone
    <3> QED
      BY <2>2, <3>1, <3>2, <1>0 DEF unsent
  <2> QED
    BY <2>1, <2>2
<1>4. /\ unsent' \in Seq(Entries)
      /\ Len(unsent') = Len(unsent) - 1
      /\ \A i \in 1..Len(unsent') : unsent'[i] = unsent[i + 1]
  BY <1>2, <1>3, HeadTailProperties
<1>5. /\ streamed' \in Seq(Nat)
      /\ Len(streamed') = Len(streamed) + 1
      /\ \A i \in 1..Len(streamed) : streamed'[i] = streamed[i]
      /\ streamed'[Len(streamed) + 1] = unsent[1].id
  <2>1. streamed' = Append(streamed, unsent[1].id)
    BY <1>0, <1>2
  <2>2. 1 \in 1..Len(unsent) /\ unsent[1] \in Entries
    BY <1>2, ElementOfSeq
  <2>3. unsent[1].id \in Nat
    BY <2>2 DEF Entries
  <2> QED
    BY <2>1, <2>3, <1>1, AppendProperties DEF SessionTypes
<1>6. writing' = <<>>
  <2>1. writing' \in Seq(Writes) /\ Len(writing') = 0
    BY <1>0, <1>1, <1>2, HeadTailProperties DEF SessionTypes
  <2> QED
    BY <2>1, EmptySeq
<1>7. SessionTypes' /\ OneQueue'
  <2>1. writing' \in Seq(Writes) /\ m_writeQueue' \in Seq(Entries) /\ m_encFrames' \in Seq(Entries)
    BY <1>0, <1>1, <1>3, <1>4, <1>6 DEF SessionTypes, unsent
  <2> QED
    BY <2>1, <1>0, <1>1, <1>3, <1>5 DEF SessionTypes, OneQueue
<1>8. QueueInOrder'
  <2>1. Len(accepted') = Len(streamed') + Len(unsent')
    <3>1. Len(accepted) = Len(streamed) + Len(unsent)
      BY <1>1 DEF QueueInOrder
    <3>2. accepted' = accepted /\ Len(unsent') = Len(unsent) - 1 /\ Len(streamed') = Len(streamed) + 1
      BY <1>0, <1>4, <1>5
    <3> QED
      BY <3>1, <3>2, <1>2
  <2>2. accepted[Len(streamed) + 1] = unsent[1].id
    BY <1>1, <1>2 DEF QueueInOrder
  <2>3. ASSUME NEW i \in 1..Len(streamed') PROVE accepted[i] = streamed'[i]
    <3>1. i = Len(streamed) + 1 \/ i \in 1..Len(streamed)
      BY <1>2, <1>5
    <3> QED
      BY <3>1, <1>1, <1>5, <2>2 DEF QueueInOrder
  <2>4. ASSUME NEW i \in 1..Len(unsent') PROVE accepted[Len(streamed') + i] = unsent'[i].id
    <3>1. i + 1 \in 1..Len(unsent) /\ Len(streamed') + i = Len(streamed) + (i + 1)
      BY <1>2, <1>4, <1>5
    <3> QED
      BY <3>1, <1>1, <1>4 DEF QueueInOrder
  <2> QED
    BY <2>1, <2>3, <2>4, <1>0 DEF QueueInOrder
<1>9. \A t \in Senders : sending'[t] # "write"
  BY <1>0, <1>1 DEF OneWriter
<1>10. OneWriter'
  <2>1. Len(writing') <= 1
    BY <1>6
  <2> QED
    BY <2>1, <1>0, <1>3, <1>6, <1>9 DEF OneWriter
<1>11. EncryptedOnce'
  <2>1. CASE framed
    BY <2>1, <1>0, <1>1, <1>2, <1>3, <1>4 DEF EncryptedOnce, OneQueue, unsent
  <2>2. CASE ~framed
    <3>1. m_writeQueue = unsent /\ m_writeQueue' = unsent' /\ ~framed'
      BY <2>2, <1>0 DEF unsent
    <3>2. ASSUME NEW i \in 1..Len(unsent') PROVE unsent'[i].times = 0
      <4>1. i + 1 \in 1..Len(unsent) /\ i + 1 # 1 /\ unsent'[i] = unsent[i + 1]
        BY <1>2, <1>4
      <4>2. unsent[i + 1].times <= 0
        BY <2>2, <3>1, <4>1, <1>1 DEF EncryptedOnce
      <4>3. unsent[i + 1].times \in Nat
        <5>1. unsent[i + 1] \in Entries
          BY <4>1, <1>2, ElementOfSeq
        <5> QED
          BY <5>1 DEF Entries
      <4> QED
        BY <4>1, <4>2, <4>3
    <3>3. unsent' # <<>> => unsent'[1].times = 0
      BY <3>2, <1>4, EmptySeq
    <3>4. \A i \in 1..Len(unsent') : unsent'[i].times <= (IF i = 1 THEN 1 ELSE 0)
      BY <3>2
    <3> QED
      BY <2>2, <3>1, <3>3, <3>4, <1>3, <1>9 DEF EncryptedOnce
  <2> QED
    BY <2>1, <2>2
<1>12. GoodbyeLast'
  <2>1. \A j \in 1..Len(writing') : writing'[j].doomed
    BY <1>6
  <2>2. \A i \in 1..Len(streamed) : streamed[i] # Goodbye
    <3>1. 1 \in 1..Len(writing) /\ ~writing[1].doomed
      BY <1>0, <1>2
    <3> QED
      BY <3>1, <1>1 DEF GoodbyeLast
  <2>3. ASSUME NEW i \in 1..Len(streamed'), streamed'[i] = Goodbye PROVE i = Len(streamed')
    <3>1. i = Len(streamed) + 1 \/ i \in 1..Len(streamed)
      BY <1>2, <1>5
    <3> QED
      BY <2>2, <2>3, <3>1, <1>5
  <2>4. ASSUME NEW i \in 1..Len(streamed'), streamed'[i] = Goodbye PROVE ~open
    <3>1. i = Len(streamed) + 1 \/ i \in 1..Len(streamed)
      BY <1>2, <1>5
    <3>2. unsent[1].id = Goodbye
      BY <2>2, <2>4, <3>1, <1>5
    <3>3. 1 \in 1..Len(unsent) /\ Len(streamed) + 1 \in 1..Len(accepted)
      BY <1>1, <1>2 DEF QueueInOrder
    <3>4. accepted[Len(streamed) + 1] = Goodbye
      BY <3>2, <3>3, <1>1 DEF QueueInOrder
    <3> QED
      BY <3>3, <3>4, <1>0, <1>1 DEF GoodbyeLast
  <2>5. \A i \in 1..Len(streamed') : streamed'[i] = Goodbye =>
           i = Len(streamed') /\ ~open' /\ \A j \in 1..Len(writing') : writing'[j].doomed
    BY <2>1, <2>3, <2>4, <1>0
  <2> QED
    BY <2>5, <1>0, <1>1 DEF GoodbyeLast
<1> QED
  BY <1>7, <1>8, <1>10, <1>11, <1>12 DEF WriteInv

\* The thread that begins to disconnect is not inside send, and the service
\* thread has not said goodbye before if the socket is open.
LEMMA DisconnectKeeps ==
  ASSUME WriteInv, NEW t \in Senders, settled(t), NEW reason \in Reasons, reason # "none",
         disconnect(t, reason), UNCHANGED <<framed, streamed>>
  PROVE  WriteInv'
<1>1. SessionTypes /\ OneQueue /\ QueueInOrder /\ OneWriter /\ EncryptedOnce /\ GoodbyeLast
  BY DEF WriteInv
<1>2. /\ UNCHANGED <<m_writeQueue, m_encFrames, writers, writing, rewriting, accepted, open, m_dropped,
                     framed, streamed>>
      /\ departing' = [departing EXCEPT ![t] = reason]
      /\ sending' = [sending EXCEPT ![t] = IF open THEN "checked" ELSE "idle"]
      /\ unsent' = unsent
  BY DEF disconnect, dropVars, unsent
<1>3. SessionTypes' /\ OneQueue' /\ QueueInOrder'
  BY <1>1, <1>2 DEF SessionTypes, OneQueue, QueueInOrder
<1>4. \A u \in Senders : /\ sending'[u] = "write" => sending[u] = "write"
                         /\ sending'[u] = "mark" => sending[u] = "mark"
  BY <1>1, <1>2 DEF SessionTypes
<1>5. OneWriter' /\ EncryptedOnce'
  BY <1>1, <1>2, <1>4 DEF OneWriter, EncryptedOnce
<1>6. GoodbyeLast'
  <2>1. CASE t = Service
    <3>1. departing[Service] = "none" /\ (sending'[Service] = "checked" => open)
      BY <2>1, <1>1, <1>2, ServiceSends DEF settled, SessionTypes
    <3> QED
      BY <3>1, <1>1, <1>2, <1>4 DEF GoodbyeLast
  <2>2. CASE t # Service
    <3>1. departing'[Service] = departing[Service] /\ sending'[Service] = sending[Service]
      BY <2>2, <1>1, <1>2, ServiceSends DEF SessionTypes
    <3> QED
      BY <3>1, <1>1, <1>2, <1>4 DEF GoodbyeLast
  <2> QED
    BY <2>1, <2>2
<1> QED
  BY <1>3, <1>5, <1>6 DEF WriteInv

\* The two steps of the drop at the end of disconnect.
LEMMA LeaveKeeps ==
  ASSUME WriteInv, NEW t \in Senders, DropCloses(t) \/ DropMarks(t)
  PROVE  WriteInv'
<1>1. SessionTypes /\ OneQueue /\ QueueInOrder /\ OneWriter /\ EncryptedOnce /\ GoodbyeLast
  BY DEF WriteInv
<1>2. /\ UNCHANGED <<m_writeQueue, m_encFrames, writers, writing, rewriting, accepted, framed, streamed>>
      /\ unsent' = unsent
  BY DEF DropCloses, DropMarks, unsent
<1>3. SessionTypes' /\ OneQueue' /\ QueueInOrder'
  BY <1>1, <1>2 DEF DropCloses, DropMarks, SessionTypes, OneQueue, QueueInOrder, Reasons
<1>4. \A u \in Senders : /\ sending'[u] = "write" => sending[u] = "write"
                         /\ sending'[u] = "checked" => sending[u] = "checked"
  BY <1>1 DEF DropCloses, DropMarks, SessionTypes
<1>5. OneWriter' /\ EncryptedOnce'
  BY <1>1, <1>2, <1>4 DEF OneWriter, EncryptedOnce
<1>6. /\ m_dropped' \/ (\E u \in Senders : sending'[u] = "mark") => ~open'
      /\ ~open => ~open'
      /\ departing'[Service] = departing[Service] \/ (departing'[Service] = "none" /\ ~open')
  BY <1>1, ServiceSends DEF DropCloses, DropMarks, SessionTypes, GoodbyeLast
<1>7. GoodbyeLast'
  BY <1>1, <1>2, <1>4, <1>6, ServiceSends DEF GoodbyeLast
<1> QED
  BY <1>3, <1>5, <1>7 DEF WriteInv

\* Closing the socket dooms what is handed over later and changes nothing else;
\* a write that fails leaves its entry where it is.
LEMMA DropKeeps ==
  ASSUME WriteInv, NEW reason, drop(reason),
         writing' = writing \/ (writing' = Tail(writing) /\ writing # <<>>),
         UNCHANGED <<framed, m_writeQueue, m_encFrames, writers, sending, departing, rewriting, accepted, streamed>>
  PROVE  WriteInv'
<1>1. SessionTypes /\ OneQueue /\ QueueInOrder /\ OneWriter /\ EncryptedOnce /\ GoodbyeLast
  BY DEF WriteInv
<1>2. (m_dropped' => ~open') /\ (~open => ~open')
  BY <1>1 DEF drop, dropVars, GoodbyeLast
<1>3. writing' = writing \/ writing' = <<>>
  <2>1. SUFFICES ASSUME writing' = Tail(writing), writing # <<>> PROVE writing' = <<>>
    OBVIOUS
  <2>2. writing \in Seq(Writes) /\ Len(writing) <= 1
    BY <1>1 DEF SessionTypes, OneWriter
  <2>3. Len(writing) \in Nat \ {0} /\ Len(writing') = Len(writing) - 1 /\ writing' \in Seq(Writes)
    BY <2>1, <2>2, EmptySeq, HeadTailProperties
  <2> QED
    BY <2>2, <2>3, EmptySeq
<1>4. SessionTypes' /\ OneQueue' /\ QueueInOrder' /\ EncryptedOnce' /\ unsent' = unsent
  <2>1. SessionTypes'
    BY <1>1, <1>3, EmptySeq DEF SessionTypes
  <2>2. unsent' = unsent
    BY DEF unsent
  <2> QED
    BY <1>1, <2>1, <2>2 DEF OneQueue, QueueInOrder, EncryptedOnce
<1>5. OneWriter' /\ GoodbyeLast'
  BY <1>1, <1>2, <1>3, <1>4 DEF OneWriter, GoodbyeLast
<1> QED
  BY <1>4, <1>5 DEF WriteInv

\* Nobody undrops a session, and a handler that ends the read chain drops it.
LEMMA ReadEndsDropped ==
  SessionTypes /\ DeafOnlyByException /\ [SessionNext]_sessionVars => DeafOnlyByException'
<1> SUFFICES ASSUME SessionTypes, DeafOnlyByException, [SessionNext]_sessionVars PROVE DeafOnlyByException'
  OBVIOUS
<1>0. departing \in [Senders -> Reasons] /\ Service \in Senders
  BY ServiceSends DEF SessionTypes
<1>1. ASSUME NEW reason, drop(reason) PROVE m_dropped'
  BY <1>1 DEF drop, dropVars
<1>2. ASSUME NEW t \in Senders, NEW reason, reason # "none", disconnect(t, reason)
      PROVE  /\ departing[Service] # "none" \/ t = Service => departing'[Service] # "none"
             /\ UNCHANGED m_dropped
  BY <1>0, <1>2 DEF disconnect, dropVars
<1>3. CASE ReadNext
  <2>1. CASE FrameDisconnect \/ FramePing \/ start \/ ReadHeader \/ FrameThrows
    BY <1>1, <2>1 DEF FrameDisconnect, FramePing, start, ReadHeader, FrameThrows, again,
       DeafOnlyByException
  <2>2. CASE ReadRefused \/ FrameInvalid
    BY <1>0, <1>1, <1>2, <2>2 DEF ReadRefused, FrameInvalid, DeafOnlyByException
  <2>3. CASE FrameCapability
    <3>1. CASE UNCHANGED <<sendVars, dropVars>> /\ again
      BY <3>1 DEF again, DeafOnlyByException, dropVars
    <3>2. CASE disconnect(Service, "BadProtocol")
      BY <1>0, <1>2, <3>2 DEF DeafOnlyByException
    <3> QED
      BY <2>3, <3>1, <3>2 DEF FrameCapability
  <2> QED
    BY <1>3, <2>1, <2>2, <2>3 DEF ReadNext
<1>4. ASSUME NEW t \in Senders, SendChecks(t) \/ SendQueues(t) \/ SendWrites(t)
      PROVE  DeafOnlyByException'
  BY <1>4 DEF SendChecks, SendQueues, SendWrites, queue, DeafOnlyByException, dropVars
<1>5. CASE HostDisconnects \/ \E t \in Senders : PeerTimesOut(t)
  BY <1>0, <1>2, <1>5 DEF HostDisconnects, PeerTimesOut, DeafOnlyByException
<1>6. CASE WriteFails
  BY <1>1, <1>6 DEF WriteFails, DeafOnlyByException
<1>7. ASSUME NEW t \in Senders, DropCloses(t) \/ DropMarks(t) PROVE DeafOnlyByException'
  BY <1>0, <1>7 DEF DropCloses, DropMarks, DeafOnlyByException
<1>8. CASE WriteDone \/ WritesOn \/ UNCHANGED sessionVars
  BY <1>8 DEF WriteDone, WritesOn, DeafOnlyByException, dropVars, sessionVars, sendVars
<1> QED
  BY <1>3, <1>4, <1>5, <1>6, <1>7, <1>8 DEF SessionNext

\* Every step of a session keeps its write chain.
LEMMA WriteStep == WriteInv /\ [SessionNext]_sessionVars => WriteInv'
<1> SUFFICES ASSUME WriteInv, [SessionNext]_sessionVars PROVE WriteInv'
  OBVIOUS
<1>1. SessionTypes /\ OneQueue /\ QueueInOrder /\ OneWriter /\ EncryptedOnce /\ GoodbyeLast
  BY DEF WriteInv
<1>2. ASSUME UNCHANGED <<framed, sendVars, dropVars, streamed>> PROVE WriteInv'
  BY <1>2 DEF sendVars, dropVars, WriteInv, SessionTypes, OneQueue, QueueInOrder, OneWriter,
     EncryptedOnce, GoodbyeLast, unsent
<1>3. ASSUME NEW reason, drop(reason), UNCHANGED <<framed, sendVars, streamed>> PROVE WriteInv'
  BY <1>3, DropKeeps DEF sendVars
<1>4. ASSUME NEW reason \in Reasons, reason # "none", serviceFree, disconnect(Service, reason),
             UNCHANGED <<framed, streamed>>
      PROVE  WriteInv'
  BY <1>4, DisconnectKeeps, ServiceSends DEF serviceFree
<1>5. ASSUME serviceFree, queue(Service, Len(accepted) + 1), UNCHANGED <<framed, dropVars, streamed>>
      PROVE  WriteInv'
  <2>1. Len(accepted) + 1 = packet(Service) /\ Len(accepted) + 1 # Goodbye
    BY <1>1, <1>5 DEF packet, serviceFree, settled, Goodbye, SessionTypes
  <2> QED
    BY <1>5, <2>1, QueueKeeps, ServiceSends
<1>6. ASSUME NEW t \in Senders, SendChecks(t) PROVE WriteInv'
  <2>1. sending' = [sending EXCEPT ![t] = "checked"] /\ unsent' = unsent
    BY <1>6 DEF SendChecks, unsent
  <2>2. SessionTypes' /\ OneQueue' /\ QueueInOrder'
    BY <2>1, <1>1, <1>6 DEF SendChecks, SessionTypes, OneQueue, QueueInOrder
  <2>5. GoodbyeLast'
    <3>1. \A u \in Senders : sending'[u] = "mark" => sending[u] = "mark"
      BY <2>1, <1>1 DEF SessionTypes
    <3>2. departing' = departing /\ departing[t] = "none" /\ UNCHANGED <<accepted, streamed, writing, open, m_dropped>>
      BY <1>6 DEF SendChecks, settled, dropVars
    <3>3. t # Service => sending'[Service] = sending[Service]
      BY <2>1, <1>1, ServiceSends DEF SessionTypes
    <3> QED
      BY <3>1, <3>2, <3>3, <1>1 DEF GoodbyeLast
  <2>3. \A u \in Senders : sending'[u] = "write" => sending[u] = "write"
    BY <2>1, <1>1 DEF SessionTypes
  <2>4. OneWriter' /\ EncryptedOnce'
    BY <2>1, <2>3, <1>1, <1>6 DEF SendChecks, OneWriter, EncryptedOnce
  <2> QED
    BY <2>2, <2>4, <2>5 DEF WriteInv
<1>7. ASSUME NEW t \in Senders, SendQueues(t) PROVE WriteInv'
  BY <1>7, QueueKeeps DEF SendQueues
<1>8. ASSUME NEW t \in Senders, SendWrites(t) PROVE WriteInv'
  <2>1. /\ writing = <<>> /\ ~rewriting /\ unsent # <<>>
        /\ \A u \in Senders : sending[u] = "write" => u = t
        /\ ~framed => m_writeQueue[1].times = 0
    BY <1>1, <1>8 DEF SendWrites, OneWriter, EncryptedOnce
  <2>2. /\ sending' \in [Senders -> {"idle", "checked", "mark"}]
        /\ \A u \in Senders : sending'[u] \in {sending[u], "idle"}
    BY <2>1, <1>1, <1>8 DEF SendWrites, SessionTypes
  <2> QED
    BY <2>1, <2>2, <1>8, HandOverKeeps DEF SendWrites
<1>9. CASE WritesOn
  <2>1. /\ writing = <<>> /\ unsent # <<>>
        /\ \A u \in Senders : sending[u] # "write"
        /\ ~framed => m_writeQueue[1].times = 0
    BY <1>1, <1>9 DEF WritesOn, OneWriter, EncryptedOnce
  <2>2. /\ sending' \in [Senders -> {"idle", "checked", "mark"}]
        /\ \A u \in Senders : sending'[u] \in {sending[u], "idle"}
    BY <2>1, <1>1, <1>9 DEF WritesOn, SessionTypes
  <2> QED
    BY <2>1, <2>2, <1>9, HandOverKeeps DEF WritesOn
<1>10. CASE WriteDone
  BY <1>10, WriteDoneKeeps
<1>11. CASE WriteFails
  BY <1>11, DropKeeps DEF WriteFails
<1>12. CASE HostDisconnects
  BY <1>4, <1>12 DEF HostDisconnects, Reasons
<1>16. ASSUME NEW t \in Senders, PeerTimesOut(t) PROVE WriteInv'
  BY <1>16, DisconnectKeeps DEF PeerTimesOut, Reasons
<1>17. ASSUME NEW t \in Senders, DropCloses(t) \/ DropMarks(t) PROVE WriteInv'
  BY <1>17, LeaveKeeps
<1>13. CASE ReadRefused \/ FrameInvalid \/ FrameDisconnect \/ FrameCapability
  BY <1>2, <1>3, <1>4, <1>13 DEF ReadRefused, FrameInvalid, FrameDisconnect, FrameCapability, Reasons
<1>14. CASE start \/ FramePing
  BY <1>5, <1>14 DEF start, FramePing
<1>15. CASE ReadHeader \/ FrameThrows \/ UNCHANGED sessionVars
  BY <1>2, <1>15 DEF ReadHeader, FrameThrows, sessionVars
<1> QED
  BY <1>6, <1>7, <1>8, <1>9, <1>10, <1>11, <1>12, <1>13, <1>14, <1>15, <1>16, <1>17 DEF SessionNext, ReadNext

\* What is on the wire is a prefix of what was accepted.
LEMMA SessionInvSound == SessionInv => SessionSound
<1> SUFFICES ASSUME SessionInv PROVE PacketsInOrder
  BY DEF SessionInv, SessionSound
<1>1. SessionTypes /\ OneQueue /\ QueueInOrder /\ OneWriter /\ EncryptedOnce /\ GoodbyeLast
  BY DEF SessionInv, WriteInv
<1>2. /\ DOMAIN streamed = 1..Len(streamed) /\ Len(streamed) \in Nat
      /\ DOMAIN writing = 1..Len(writing) /\ Len(writing) \in Nat
      /\ DOMAIN m_writeQueue = 1..Len(m_writeQueue)
      /\ unsent \in Seq(Entries) /\ Len(unsent) \in Nat /\ Len(accepted) \in Nat
  BY <1>1, LenProperties DEF SessionTypes, unsent
<1>3. Len(writing) <= 1
  BY <1>1 DEF OneWriter
<1>4. ASSUME NEW i \in DOMAIN writing PROVE writing[i].entry.times = 1
  <2>1. i = 1 /\ writing # <<>>
    BY <1>2, <1>3, EmptySeq
  <2> QED
    BY <2>1, <1>1 DEF OneWriter
<1>5. IsPrefix(streamed, accepted)
  <2>1. Len(streamed) <= Len(accepted)
    BY <1>1, <1>2 DEF QueueInOrder
  <2>2. ASSUME NEW i \in 1..Len(streamed) PROVE accepted[i] \in Nat /\ accepted[i] = streamed[i]
    BY <2>1, <1>1, <1>2, ElementOfSeq DEF QueueInOrder, SessionTypes
  <2>3. /\ SubSeq(accepted, 1, Len(streamed)) \in Seq(Nat)
        /\ Len(SubSeq(accepted, 1, Len(streamed))) = Len(streamed)
        /\ \A i \in 1..Len(streamed) : SubSeq(accepted, 1, Len(streamed))[i] = streamed[i]
    BY <2>2, <1>2, SubSeqProperties
  <2>4. /\ SubSeq(streamed, 1, Len(streamed)) = streamed
    BY <1>1, <1>2, SubSeqFull DEF SessionTypes
  <2>5. SubSeq(accepted, 1, Len(streamed)) = streamed
    BY <2>3, <1>1, SeqEqual DEF SessionTypes
  <2> QED
    BY <2>1, <2>4, <2>5 DEF IsPrefix
<1> QED
  <2>1. \A i \in DOMAIN streamed : streamed[i] = Goodbye => i = Len(streamed)
    <3>1. \A i \in 1..Len(streamed) : streamed[i] = Goodbye => i = Len(streamed)
      BY <1>1, Zenon DEF GoodbyeLast
    <3> QED
      BY <3>1, <1>2, Zenon
  <2>2. \A i \in DOMAIN m_writeQueue : m_writeQueue[i].times <= (IF i = 1 THEN 1 ELSE 0)
    BY <1>1, <1>2 DEF EncryptedOnce
  <2> QED
    BY <2>1, <2>2, <1>3, <1>4, <1>5 DEF PacketsInOrder

\* Packets reach the wire in the order in which they were queued, each
\* encrypted once and nothing after the DisconnectPacket of the service thread,
\* whoever else disconnects in the middle of it all, and reading ends
\* only with the session, for any number of sending threads and packets.
THEOREM SessionIsSound == SessionSpec => []SessionSound
<1>1. SessionInv /\ [SessionNext]_sessionVars => SessionInv'
  BY WriteStep, ReadEndsDropped DEF SessionInv, WriteInv
<1> QED
  BY <1>1, SessionInitially, SessionInvSound, PTL DEF SessionSpec

-----------------------------------------------------------------------------
(* Host::determinePublic.                                                  *)

\* Every local host address but the unspecified one is a private address.
LEMMA LocalIsPrivate ==
  ASSUME NEW a, isLocalHostAddress(a), a # unspecified
  PROVE  isPrivateAddress(a)
<1>1. CASE a = <<127, 0, 0, 1>>
  BY <1>1 DEF isPrivateAddress
<1>2. CASE Len(a) = 16 /\ (\A i \in 1..15 : a[i] = 0) /\ a[16] \in {0, 1}
  BY <1>2 DEF isPrivateAddress
<1> QED BY <1>1, <1>2 DEF isLocalHostAddress

\* A Host that has not listened yet.
LEMMA EndpointInitial == PublicEndpointInit => PublicEndpointInv
BY DEF PublicEndpointInit, PublicEndpointInv, AdvertisedIsForwarded, MappingsAreKnown

\* What is asked of the router leads to the host, and what is taken for it is
\* that or, when the router chooses, perhaps the mapping of another machine.
LEMMA RedirectTaken ==
  ASSUME MappingsAreKnown, NEW address \in redirected, AddRedirect(address), redirect.port = 0,
         UNCHANGED <<surroundings, m_listenPort>>
  PROVE  /\ MappingsAreKnown'
         /\ redirect'.port # 0 => mayBeMapped(redirect.port)'
<1> DEFINE ours(port) == [outside |-> port, address |-> address, port |-> m_listenPort]
<1>1. /\ address \in interfaces
      /\ lset /\ netPrefs.listenIPAddress \in interfaces => address = netPrefs.listenIPAddress
  BY DEF redirected
<1>2. \A port : leadsHere(ours(port)) /\ ours(port).outside = port
  BY <1>1 DEF leadsHere
<1>3. \A m : leadsHere(m)' <=> leadsHere(m)
  BY DEF leadsHere, surroundings, lset
<1>4. ASSUME NEW port,
             mappings' = {m \in mappings : m.outside # port} \union {ours(port)},
             granted' = granted \union {ours(port)}
      PROVE  MappingsAreKnown' /\ \E m \in granted' : m.outside = port /\ leadsHere(m)'
  <2> HIDE DEF ours
  <2> QED BY <1>2, <1>3, <1>4 DEF MappingsAreKnown, surroundings
<1>5. CASE router.way \in {"direct", "random"}
  <2>1. PICK port : /\ mappings' = {m \in mappings : m.outside # port} \union {ours(port)}
                    /\ granted' = granted \union {ours(port)}
                    /\ redirect'.port = port
    BY <1>5 DEF AddRedirect
  <2> QED BY <2>1, <1>4 DEF mayBeMapped
<1>6. CASE router.way = "own"
  <2>1. PICK port : /\ mappings' = {m \in mappings : m.outside # port} \union {ours(port)}
                    /\ granted' = granted \union {ours(port)}
                    /\ redirect' = redirect \/ \E m \in mappings' : redirect'.port = m.outside
    BY <1>6 DEF AddRedirect
  <2>2. MappingsAreKnown'
    BY <2>1, <1>4
  <2>3. ASSUME NEW m \in mappings', redirect'.port = m.outside PROVE mayBeMapped(redirect.port)'
    <3>1. (m \in granted' /\ leadsHere(m)') \/ m \in router'.others
      BY <2>2 DEF MappingsAreKnown
    <3> QED BY <2>3, <3>1, <1>6 DEF mayBeMapped, surroundings
  <2> QED BY <2>1, <2>2, <2>3
<1>7. CASE router.way = "none"
  BY <1>3, <1>7 DEF AddRedirect, MappingsAreKnown, surroundings
<1> QED BY <1>5, <1>6, <1>7 DEF AddRedirect

\* Listening, traversal and what determinePublic makes of them, step by step.
LEMMA EndpointStep == PublicEndpointInv /\ [PublicEndpointNext]_endpointVars => PublicEndpointInv'
<1> SUFFICES ASSUME PublicEndpointInv, [PublicEndpointNext]_endpointVars
             PROVE  PublicEndpointInv'
  OBVIOUS
<1>1. CASE Listen
  BY <1>1 DEF Listen, PublicEndpointInv, AdvertisedIsForwarded, MappingsAreKnown, surroundings, legal
<1>2. CASE TraverseNAT
  <2>1. /\ hostAt' = "traversing" /\ hostAt = "determinePublic" /\ ~listenIsPublic
        /\ UNCHANGED <<netPrefs, interfaces, router, mappings, redirect, granted, m_listenPort>>
        /\ untried' \subseteq redirected
    BY <1>2 DEF TraverseNAT, surroundings
  <2>2. ~listenIsPublic' /\ legal(netPrefs)' /\ redirected' = redirected /\ redirect'.port = 0
    BY <2>1 DEF PublicEndpointInv, legal, listenIsPublic, lset, redirected, NoRedirect
  <2>3. MappingsAreKnown'
    BY <2>1 DEF PublicEndpointInv, MappingsAreKnown, leadsHere, lset
  <2> QED BY <2>1, <2>2, <2>3 DEF PublicEndpointInv, AdvertisedIsForwarded
<1>3. CASE TryAddress
  <2>1. /\ hostAt = "traversing" /\ hostAt' = "traversing" /\ redirect.port = 0
        /\ UNCHANGED <<surroundings, m_listenPort>>
        /\ MappingsAreKnown /\ untried \subseteq redirected /\ ~listenIsPublic /\ legal(netPrefs)
    BY <1>3 DEF TryAddress, PublicEndpointInv
  <2>2. PICK address \in untried : AddRedirect(address) /\ untried' = untried \ {address}
    BY <1>3 DEF TryAddress
  <2>3. MappingsAreKnown' /\ (redirect'.port # 0 => mayBeMapped(redirect.port)')
    BY <2>1, <2>2, RedirectTaken
  <2>4. redirected' = redirected /\ ~listenIsPublic' /\ legal(netPrefs)'
    BY <2>1 DEF surroundings, redirected, lset, listenIsPublic, legal
  <2> QED BY <2>1, <2>2, <2>3, <2>4 DEF PublicEndpointInv, AdvertisedIsForwarded
<1>4. CASE Traversed
  <2> DEFINE usable == redirect.port # 0 /\ router.external # unspecified /\ ~isPrivateAddress(router.external)
             ep == IF usable THEN [port |-> redirect.port, address |-> router.external] ELSE NoRedirect
  <2>1. /\ hostAt = "traversing" /\ hostAt' = "public" /\ mappings' \subseteq mappings
        /\ m_tcpPublic' = IF pset THEN [ep EXCEPT !.address = netPrefs.publicIPAddress] ELSE ep
        /\ UNCHANGED <<netPrefs, interfaces, router, redirect, m_listenPort, granted>>
    BY <1>4 DEF Traversed, surroundings, removeRedirects
  <2>2. ~listenIsPublic /\ MappingsAreKnown /\ legal(netPrefs) /\ (redirect.port # 0 => mayBeMapped(redirect.port))
    BY <2>1 DEF PublicEndpointInv
  <2>3. /\ ep.address # unspecified => isPublicAddress(ep.address)
        /\ ep.port # 0 => ep.port = redirect.port
    BY LocalIsPrivate DEF NoRedirect, isPublicAddress
  <2>4. /\ m_tcpPublic'.port = ep.port
        /\ m_tcpPublic'.address = IF pset THEN netPrefs.publicIPAddress ELSE ep.address
    BY <2>1 DEF NoRedirect
  <2> HIDE DEF ep
  <2>5. m_tcpPublic'.address # unspecified => isPublicAddress(m_tcpPublic'.address)
    BY <2>2, <2>3, <2>4 DEF legal, pset
  <2>6. pset => m_tcpPublic'.address = netPrefs.publicIPAddress
    BY <2>4
  <2>7. redirect.port # 0 /\ m_tcpPublic'.port # 0 => mayBeMapped(m_tcpPublic.port)'
    BY <2>1, <2>2, <2>3, <2>4 DEF mayBeMapped, leadsHere, lset
  <2>8. AdvertisedIsForwarded'
    BY <2>1, <2>5, <2>6, <2>7 DEF AdvertisedIsForwarded, pset
  <2>9. MappingsAreKnown'
    BY <2>1, <2>2 DEF MappingsAreKnown, leadsHere, lset
  <2> QED BY <2>1, <2>2, <2>8, <2>9 DEF PublicEndpointInv, legal
<1>5. CASE DeterminePublic
  <2>1. /\ hostAt = "determinePublic" /\ hostAt' = "public"
        /\ m_tcpPublic' = [port |-> m_listenPort,
               address |-> IF netPrefs.traverseNAT /\ listenIsPublic THEN netPrefs.listenIPAddress
                                                                     ELSE netPrefs.publicIPAddress]
        /\ UNCHANGED <<netPrefs, interfaces, router, mappings, redirect, m_listenPort, granted>>
    BY <1>5 DEF DeterminePublic, surroundings
  <2>2. redirect = NoRedirect /\ redirect.port = 0 /\ legal(netPrefs) /\ MappingsAreKnown
    BY <2>1 DEF PublicEndpointInv, NoRedirect
  <2>3. AdvertisedIsForwarded'
    BY <2>1, <2>2 DEF AdvertisedIsForwarded, legal, listenIsPublic, lset, pset
  <2>4. MappingsAreKnown'
    BY <2>1, <2>2 DEF MappingsAreKnown, leadsHere, lset
  <2> QED BY <2>1, <2>2, <2>3, <2>4 DEF PublicEndpointInv, legal
<1>6. CASE StopListening
  BY <1>6 DEF StopListening, surroundings, PublicEndpointInv, AdvertisedIsForwarded, legal
<1>7. CASE UNCHANGED endpointVars
  <2>1. MappingsAreKnown' <=> MappingsAreKnown
    BY <1>7 DEF endpointVars, MappingsAreKnown, leadsHere, lset
  <2>2. \A port : mayBeMapped(port)' <=> mayBeMapped(port)
    BY <1>7 DEF endpointVars, mayBeMapped, leadsHere, lset
  <2>3. UNCHANGED <<listenIsPublic, redirected, pset, hostAt, netPrefs, redirect, untried, m_tcpPublic, granted>>
    BY <1>7 DEF endpointVars, listenIsPublic, redirected, lset, pset
  <2> QED BY <2>1, <2>2, <2>3 DEF PublicEndpointInv, AdvertisedIsForwarded, legal
<1> QED BY <1>1, <1>2, <1>3, <1>4, <1>5, <1>6, <1>7 DEF PublicEndpointNext

\* What determinePublic advertises is a public address or none, the user's if
\* there is one, and a port that was forwarded to this host or, if the router
\* chose it and forwards one to another machine under the same description,
\* perhaps that one, for any preferences, interfaces and routers.
THEOREM EndpointIsForwarded == PublicEndpointSpec => []AdvertisedIsForwarded
<1>1. PublicEndpointInv => AdvertisedIsForwarded
  BY DEF PublicEndpointInv
<1> QED BY <1>1, EndpointInitial, EndpointStep, PTL DEF PublicEndpointSpec

-----------------------------------------------------------------------------
(* The keys.                                                               *)

\* An end and its peer.
LEMMA TheOther ==
  /\ otherCoder("initiator") = "recipient" /\ otherCoder("recipient") = "initiator"
  /\ \A e \in Coders : otherCoder(e) \in Coders /\ otherCoder(e) # e /\ otherCoder(otherCoder(e)) = e
<1>1. otherCoder("initiator") = "recipient"
  BY DEF otherCoder, Coders
<1>2. otherCoder("recipient") = "initiator"
  BY DEF otherCoder, Coders
<1> QED BY <1>1, <1>2 DEF Coders

K == aesSecret("initiator")
Mk == macSecret("initiator")

\* The two ends derive the same secrets ...
LEMMA SameSecrets ==
  \A e \in Coders : aesSecret(e) = K /\ macSecret(e) = Mk
<1>1. nonces("initiator") = nonces("recipient")
  BY TheOther DEF nonces
<1>2. sharedSecret("initiator") = sharedSecret("recipient")
  BY <1>1 DEF sharedSecret
<1>3. aesSecret("initiator") = aesSecret("recipient")
  BY <1>2 DEF aesSecret
<1> QED BY <1>3 DEF K, Mk, macSecret, Coders

\* ... and what one writes with is what the other reads with.
LEMMA SetupsMatch ==
  ASSUME NEW e \in Coders
  PROVE  setup(otherCoder(e)).egressMac = setup(e).ingressMac
<1> DEFINE w == otherCoder(e)
           a == nonceOf(e)
           b == nonceOf(w)
<1>1. w \in Coders /\ otherCoder(w) = e /\ w # e
  BY TheOther
<1>2. a # b
  BY <1>1 DEF nonceOf
<1>3. macSecret(w) = Mk /\ macSecret(e) = Mk
  BY <1>1, SameSecrets
<1>4. setup(w).egressMac = <<<<"xor", xor(Mk, {a})>>, cipherOf(w)>>
  BY <1>1, <1>3 DEF setup
<1>5. setup(e).ingressMac = <<<<"xor", xor(xor(Mk, {b}), {b} \union {a})>>, cipherOf(w)>>
  BY <1>1, <1>3 DEF setup
<1>6. xor(xor(Mk, {b}), {b} \union {a}) = xor(Mk, {a})
  <2> HIDE DEF a, b
  <2> QED BY <1>2 DEF xor
<1> QED BY <1>4, <1>5, <1>6

-----------------------------------------------------------------------------
(* One direction.                                                          *)

Damaged == <<"damaged">>
Ciphers == {<<"cipher", K, at, text>> : at \in Nat, text \in Nat}
Updates == {<<"update", Mk, seed>> : seed \in Ciphers \union {Damaged, <<"digest">>}}
Terms == {<<"xor", xor(Mk, {nonceOf(e)})>> : e \in Coders} \union {cipherOf(e) : e \in Coders}
         \union Ciphers \union {Damaged} \union Updates
Macs == Seq(Terms)
FrameRecords == [header : Ciphers \union {Damaged}, headerMac : {hash(m) : m \in Macs} \union {Damaged},
                 frame : Ciphers \union {Damaged}, frameMac : {hash(m) : m \in Macs} \union {Damaged}]

\* What writeFrame makes of the MAC and the place in the stream.
headerAt(at, size) == <<"cipher", K, at, size>>
bodyAt(at, k) == <<"cipher", K, at + c_block, k>>
headed(mac, term) == Append(mac, <<"update", Mk, term>>)
frameEnd(mac, term) == Append(Append(mac, term), <<"update", Mk, <<"digest">>>>)
after(at, size) == at + c_block + size + padding(size)

\* The frame with number k, written at mac and at; what the network damaged
\* of it is no cipher and no MAC.
FrameIs(io, mac, at, k, size, dam) ==
    LET hm == headed(mac, headerAt(at, size)) IN
    /\ io \in FrameRecords
    /\ io.header \in {headerAt(at, size), Damaged}
    /\ io.headerMac \in {hash(hm), Damaged}
    /\ io.frame \in {bodyAt(at, k), Damaged}
    /\ io.frameMac \in {hash(frameEnd(hm, bodyAt(at, k))), Damaged}
    /\ dam = 0 => Damaged \notin {io.header, io.headerMac, io.frame, io.frameMac}

\* The frames that one end wrote and the other has not taken, and where both
\* are: M and A are the writer's MAC and place after each frame.
Stream(M, A, written, egress, encAt, wire, left, got, reading, ingress, decAt, dam) ==
    LET n == Len(written)
        k == n - Len(wire)
    IN  /\ M \in [Nat -> Macs] /\ A \in [Nat -> Nat] /\ dam \in Nat
        /\ written \in Seq(Nat \X Nat) /\ wire \in Seq(FrameRecords) /\ got \in Seq(Nat \X Nat)
        /\ reading \in Seq(Nat) /\ Len(wire) <= n
        /\ M[n] = egress /\ A[n] = encAt
        /\ \A i \in 1..n :
              /\ written[i][1] = i
              /\ M[i] = frameEnd(headed(M[i - 1], headerAt(A[i - 1], written[i][2])), bodyAt(A[i - 1], i))
              /\ A[i] = after(A[i - 1], written[i][2])
        /\ \A j \in 1..Len(wire) :
              FrameIs(wire[j], M[k + j - 1], A[k + j - 1], k + j, written[k + j][2], dam)
        /\ Len(got) <= n /\ \A i \in 1..Len(got) : got[i] = written[i]
        /\ left => dam > 0
        /\ ~left => Len(got) = k
        /\ ~left /\ reading = <<>> => ingress = M[k] /\ decAt = A[k]
        /\ ~left /\ reading # <<>> =>
              /\ wire # <<>> /\ reading = <<written[k + 1][2]>>
              /\ ingress = headed(M[k], headerAt(A[k], written[k + 1][2])) /\ decAt = A[k] + c_block

Flows(e) ==
    LET w == otherCoder(e) IN
    \E M, A : Stream(M, A, wrote[w], coder[w].egressMac, coder[w].encAt, onWire[e], e \in gone, taken[e],
                     headerRead[e], coder[e].ingressMac, coder[e].decAt, damages)

CoderTypes ==
    /\ coder \in [Coders -> [frameKey : {K}, macKey : {Mk}, encAt : Nat, decAt : Nat,
                             egressMac : Macs, ingressMac : Macs]]
    /\ onWire \in [Coders -> Seq(FrameRecords)]
    /\ wrote \in [Coders -> Seq(Nat \X Nat)] /\ taken \in [Coders -> Seq(Nat \X Nat)]
    /\ headerRead \in [Coders -> Seq(Nat)]
    /\ gone \subseteq Coders /\ damages \in Nat

CoderInv == CoderTypes /\ \A e \in Coders : Flows(e)

-----------------------------------------------------------------------------
(* Terms.                                                                  *)

\* Places in the cipher stream are numbers, for writeFrame pads to whole blocks.
LEMMA Padded ==
  ASSUME NEW at \in Nat, NEW size \in Nat
  PROVE  padding(size) \in Nat /\ after(at, size) \in Nat /\ at + c_block \in Nat
<1>1. c_block \in Nat /\ c_block > 0
  BY CoderAssumption
<1>2. size % c_block \in 0..(c_block - 1)
  BY <1>1
<1>3. c_block - (size % c_block) \in Nat
  BY <1>1, <1>2
<1>4. padding(size) \in Nat
  BY <1>1, <1>3 DEF padding
<1> QED BY <1>1, <1>4 DEF after

\* Two MACs that differ in the last term are different.
LEMMA LastTerm ==
  ASSUME NEW m \in Macs, NEW x \in Terms, NEW y \in Terms, Append(m, x) = Append(m, y)
  PROVE  x = y
<1>1. Append(m, x)[Len(m) + 1] = x /\ Append(m, y)[Len(m) + 1] = y
  BY AppendProperties DEF Macs
<1> QED BY <1>1

\* Cipher texts are terms, and what was damaged is no cipher text and no hash.
LEMMA TermsAre ==
  ASSUME NEW at \in Nat, NEW size \in Nat, NEW k \in Nat
  PROVE  /\ headerAt(at, size) \in Ciphers /\ bodyAt(at, k) \in Ciphers
         /\ Damaged \notin Ciphers /\ \A m : hash(m) # Damaged
         /\ \A t \in Ciphers \union {Damaged, <<"digest">>} : <<"update", Mk, t>> \in Terms
         /\ Ciphers \union {Damaged} \subseteq Terms
<1>1. headerAt(at, size) \in Ciphers /\ bodyAt(at, k) \in Ciphers
  BY Padded DEF Ciphers, headerAt, bodyAt
<1>2. Damaged \notin Ciphers
  <2> SUFFICES ASSUME NEW a \in Nat, NEW p \in Nat
               PROVE  Damaged # <<"cipher", K, a, p>>
    BY DEF Ciphers
  <2> QED BY DEF Damaged
<1>3. \A m : hash(m) # Damaged
  BY DEF hash, Damaged
<1>4. \A t \in Ciphers \union {Damaged, <<"digest">>} : <<"update", Mk, t>> \in Terms
  BY DEF Terms, Updates
<1>5. Ciphers \union {Damaged} \subseteq Terms
  BY DEF Terms
<1> QED BY <1>1, <1>2, <1>3, <1>4, <1>5

\* updateMAC makes a MAC of a MAC.
LEMMA MacsGrow ==
  ASSUME NEW m \in Macs, NEW t \in Ciphers \union {Damaged}
  PROVE  headed(m, t) \in Macs /\ frameEnd(m, t) \in Macs
<1>1. <<"update", Mk, t>> \in Terms /\ <<"update", Mk, <<"digest">>>> \in Terms /\ t \in Terms
  BY DEF Terms, Updates
<1> HIDE DEF Terms
<1> QED BY <1>1, AppendProperties DEF headed, frameEnd, Macs

\* A header, or a frame, that was damaged does not have the MAC of the one
\* that was written.
LEMMA DamageShows ==
  ASSUME NEW m \in Macs, NEW c \in Ciphers
  PROVE  headed(m, Damaged) # headed(m, c) /\ frameEnd(m, Damaged) # frameEnd(m, c)
<1>1. c \in Terms /\ Damaged \in Terms /\ c # Damaged
  BY TermsAre, 0 \in Nat
<1>2. headed(m, Damaged) # headed(m, c)
  <2> SUFFICES ASSUME headed(m, Damaged) = headed(m, c)
               PROVE  FALSE
    OBVIOUS
  <2>1. <<"update", Mk, Damaged>> \in Terms /\ <<"update", Mk, c>> \in Terms
    BY DEF Terms, Updates
  <2>2. <<"update", Mk, Damaged>> = <<"update", Mk, c>>
    BY <2>1, LastTerm DEF headed
  <2> QED BY <1>1, <2>2
<1>3. frameEnd(m, Damaged) # frameEnd(m, c)
  <2> SUFFICES ASSUME frameEnd(m, Damaged) = frameEnd(m, c)
               PROVE  FALSE
    OBVIOUS
  <2> DEFINE x == Append(m, Damaged)
             y == Append(m, c)
             d == <<"update", Mk, <<"digest">>>>
  <2>1. d \in Terms
    BY DEF Terms, Updates
  <2> HIDE DEF d
  <2>2. /\ x \in Seq(Terms) /\ y \in Seq(Terms) /\ Len(x) = Len(m) + 1 /\ Len(y) = Len(m) + 1
        /\ x[Len(m) + 1] = Damaged /\ y[Len(m) + 1] = c /\ Len(m) \in Nat
    BY <1>1, AppendProperties, LenProperties DEF Macs
  <2> HIDE DEF x, y
  <2>3. Append(x, d) = Append(y, d)
    BY DEF frameEnd, x, y, d
  <2>4. Append(x, d)[Len(m) + 1] = x[Len(m) + 1] /\ Append(y, d)[Len(m) + 1] = y[Len(m) + 1]
    BY <2>1, <2>2, AppendProperties
  <2> QED BY <1>1, <2>2, <2>3, <2>4
<1> QED BY <1>2, <1>3

-----------------------------------------------------------------------------
(* What each operation makes of a stream.                                  *)

\* writeFrame, for the end that will read it.
LEMMA StreamWritten ==
  ASSUME NEW M, NEW A, NEW written, NEW egress, NEW encAt, NEW wire, NEW left, NEW got, NEW reading,
         NEW ingress, NEW decAt, NEW dam, NEW size \in Nat,
         Stream(M, A, written, egress, encAt, wire, left, got, reading, ingress, decAt, dam)
  PROVE  LET header == headerAt(encAt, size)
             body == bodyAt(encAt, Len(written) + 1)
             hm == headed(egress, header)
             io == [header |-> header, headerMac |-> hash(hm), frame |-> body, frameMac |-> hash(frameEnd(hm, body))]
         IN  /\ \E M2, A2 : Stream(M2, A2, Append(written, <<Len(written) + 1, size>>), frameEnd(hm, body),
                                  after(encAt, size), Append(wire, io), left, got, reading, ingress, decAt, dam)
             /\ io \in FrameRecords /\ frameEnd(hm, body) \in Macs /\ after(encAt, size) \in Nat
<1> DEFINE n == Len(written)
           L == Len(wire)
           k == n - L
           header == headerAt(encAt, size)
           body == bodyAt(encAt, n + 1)
           hm == headed(egress, header)
           mac == frameEnd(hm, body)
           io == [header |-> header, headerMac |-> hash(hm), frame |-> body, frameMac |-> hash(mac)]
           written2 == Append(written, <<n + 1, size>>)
           wire2 == Append(wire, io)
           M2 == [M EXCEPT ![n + 1] = mac]
           A2 == [A EXCEPT ![n + 1] = after(encAt, size)]
<1>1. /\ n \in Nat /\ L \in Nat /\ L <= n /\ encAt \in Nat /\ egress \in Macs /\ egress = M[n] /\ encAt = A[n]
      /\ written \in Seq(Nat \X Nat) /\ wire \in Seq(FrameRecords)
      /\ M \in [Nat -> Macs] /\ A \in [Nat -> Nat] /\ dam \in Nat
  BY LenProperties DEF Stream
<1> HIDE DEF n, L
<1>0. n + 1 \in Nat /\ Len(written) = n /\ Len(wire) = L
  BY <1>1 DEF n, L
<1>2. header \in Ciphers /\ body \in Ciphers
  BY <1>0, <1>1, TermsAre
<1>3. hm \in Macs /\ mac \in Macs
  BY <1>1, <1>2, MacsGrow
<1>4. after(encAt, size) \in Nat
  BY <1>1, Padded
<1>5. io \in FrameRecords /\ io.header = header /\ io.headerMac = hash(hm) /\ io.frame = body
      /\ io.frameMac = hash(mac)
  BY <1>2, <1>3 DEF FrameRecords
<1>6. Damaged \notin {io.header, io.headerMac, io.frame, io.frameMac}
  BY <1>1, <1>2, <1>5, TermsAre
<1>7. FrameIs(io, egress, encAt, n + 1, size, dam)
  BY <1>5, <1>6 DEF FrameIs
<1> HIDE DEF io, mac, hm, header, body
<1>8. /\ written2 \in Seq(Nat \X Nat) /\ Len(written2) = n + 1 /\ written2[n + 1] = <<n + 1, size>>
      /\ \A i \in 1..n : written2[i] = written[i]
  <2>1. <<n + 1, size>> \in Nat \X Nat
    BY <1>0
  <2> DEFINE x == <<n + 1, size>>
             Pairs == Nat \X Nat
  <2>3. x \in Pairs /\ written \in Seq(Pairs)
    BY <1>1, <2>1
  <2> HIDE DEF x, Pairs
  <2>2. /\ Append(written, x) \in Seq(Pairs) /\ Len(Append(written, x)) = Len(written) + 1
        /\ Append(written, x)[Len(written) + 1] = x
        /\ \A i \in 1..Len(written) : Append(written, x)[i] = written[i]
    BY <2>3, AppendProperties
  <2> QED BY <1>0, <2>2 DEF x, n, Pairs
<1>9. /\ wire2 \in Seq(FrameRecords) /\ Len(wire2) = L + 1 /\ wire2[L + 1] = io
      /\ \A j \in 1..L : wire2[j] = wire[j]
  <2>1. /\ Append(wire, io) \in Seq(FrameRecords) /\ Len(Append(wire, io)) = Len(wire) + 1
        /\ Append(wire, io)[Len(wire) + 1] = io
        /\ \A i \in 1..Len(wire) : Append(wire, io)[i] = wire[i]
    <3> HIDE DEF FrameRecords
    <3> QED BY <1>1, <1>5, AppendProperties
  <2> QED BY <1>0, <2>1
<1> HIDE DEF written2, wire2
<1>10. /\ M2 \in [Nat -> Macs] /\ A2 \in [Nat -> Nat] /\ M2[n + 1] = mac /\ A2[n + 1] = after(encAt, size)
       /\ \A i \in 0..n : M2[i] = M[i] /\ A2[i] = A[i]
  <2>1. n + 1 \in Nat /\ \A i \in 0..n : i \in Nat /\ i # n + 1
    BY <1>0, <1>1
  <2> HIDE DEF Macs
  <2> QED BY <1>1, <1>3, <1>4, <2>1
<1> HIDE DEF M2, A2
<1>11. \A i \in 1..n + 1 : i \in 1..n \/ i = n + 1
  BY <1>1
<1>12. ASSUME NEW i \in 1..n + 1
       PROVE  /\ written2[i][1] = i
              /\ M2[i] = frameEnd(headed(M2[i - 1], headerAt(A2[i - 1], written2[i][2])), bodyAt(A2[i - 1], i))
              /\ A2[i] = after(A2[i - 1], written2[i][2])
  <2>1. CASE i \in 1..n
    <3>1. i \in 0..n /\ i - 1 \in 0..n
      BY <1>1, <2>1
    <3>2. /\ written[i][1] = i
          /\ M[i] = frameEnd(headed(M[i - 1], headerAt(A[i - 1], written[i][2])), bodyAt(A[i - 1], i))
          /\ A[i] = after(A[i - 1], written[i][2])
      BY <1>0, <2>1 DEF Stream
    <3>3. M2[i] = M[i] /\ A2[i] = A[i] /\ M2[i - 1] = M[i - 1] /\ A2[i - 1] = A[i - 1] /\ written2[i] = written[i]
      BY <1>8, <1>10, <2>1, <3>1
    <3> QED BY <3>2, <3>3
  <2>2. CASE i = n + 1
    <3>0. i - 1 = n /\ n \in 0..n
      BY <1>1, <2>2
    <3>1. i - 1 = n /\ M2[i - 1] = egress /\ A2[i - 1] = encAt /\ written2[i] = <<n + 1, size>>
      BY <1>1, <1>8, <1>10, <2>2, <3>0
    <3>2. written2[i][1] = i /\ written2[i][2] = size
      BY <2>2, <3>1
    <3>3. M2[i] = mac /\ A2[i] = after(encAt, size)
      BY <1>10, <2>2
    <3> QED BY <2>2, <3>1, <3>2, <3>3 DEF mac, hm, header, body
  <2> QED BY <1>11, <2>1, <2>2
<1>13. k \in 0..n /\ (n + 1) - (L + 1) = k /\ k + L = n
  BY <1>1
<1>14. ASSUME NEW j \in 1..L + 1
       PROVE  FrameIs(wire2[j], M2[k + j - 1], A2[k + j - 1], k + j, written2[k + j][2], dam)
  <2>1. CASE j \in 1..L
    <3>1. k + j - 1 \in 0..n /\ k + j \in 1..n
      BY <1>1, <1>13, <2>1
    <3>2. FrameIs(wire[j], M[k + j - 1], A[k + j - 1], k + j, written[k + j][2], dam)
      BY <1>0, <2>1 DEF Stream
    <3>3. /\ wire2[j] = wire[j] /\ M2[k + j - 1] = M[k + j - 1] /\ A2[k + j - 1] = A[k + j - 1]
          /\ written2[k + j] = written[k + j]
      BY <1>8, <1>9, <1>10, <2>1, <3>1
    <3> QED BY <3>2, <3>3
  <2>2. CASE j = L + 1
    <3>1. k + j - 1 = n /\ k + j = n + 1 /\ n \in 0..n
      BY <1>1, <1>13, <2>2
    <3>2. wire2[j] = io /\ M2[n] = egress /\ A2[n] = encAt /\ written2[n + 1][2] = size
      BY <1>1, <1>8, <1>9, <1>10, <2>2, <3>1
    <3> QED BY <1>7, <3>1, <3>2
  <2>3. j \in 1..L \/ j = L + 1
    BY <1>1
  <2> QED BY <2>1, <2>2, <2>3
<1>15. M2[k] = M[k] /\ A2[k] = A[k]
  BY <1>10, <1>13
<1>16. reading # <<>> /\ ~left => wire2 # <<>> /\ written2[k + 1] = written[k + 1]
  <2>1. wire # <<>> => L > 0
    BY <1>0, <1>1, EmptySeq
  <2>2. L > 0 => k + 1 \in 1..n
    BY <1>1, <1>13
  <2>3. wire2 # <<>>
    BY <1>1, <1>9, EmptySeq
  <2>4. reading # <<>> /\ ~left => wire # <<>>
    BY DEF Stream
  <2> QED BY <1>8, <2>1, <2>2, <2>3, <2>4
<1>17. /\ got \in Seq(Nat \X Nat) /\ reading \in Seq(Nat) /\ Len(got) <= n
       /\ \A i \in 1..Len(got) : got[i] = written[i]
       /\ left => dam > 0
       /\ ~left => Len(got) = k
       /\ ~left /\ reading = <<>> => ingress = M[k] /\ decAt = A[k]
       /\ ~left /\ reading # <<>> =>
             /\ reading = <<written[k + 1][2]>>
             /\ ingress = headed(M[k], headerAt(A[k], written[k + 1][2])) /\ decAt = A[k] + c_block
  BY <1>0 DEF Stream, k
<1>18. Len(got) <= n + 1 /\ \A i \in 1..Len(got) : got[i] = written2[i]
  <2>1. Len(got) \in Nat
    BY <1>17, LenProperties
  <2>2. Len(got) <= n + 1 /\ \A i \in 1..Len(got) : i \in 1..n
    <3> DEFINE g == Len(got)
    <3>1. g \in Nat /\ g <= n /\ n \in Nat
      BY <1>1, <1>17, <2>1
    <3> HIDE DEF g
    <3>2. g <= n + 1 /\ \A i \in 1..g : i \in 1..n
      BY <3>1
    <3> QED BY <3>2 DEF g
  <2> QED BY <1>8, <1>17, <2>2
<1> HIDE DEF k
<1>19. Stream(M2, A2, written2, mac, after(encAt, size), wire2, left, got, reading, ingress, decAt, dam)
  <2>1. L + 1 <= n + 1
    BY <1>1
  <2> QED BY <1>1, <1>8, <1>9, <1>10, <1>12, <1>13, <1>14, <1>15, <1>16, <1>17, <1>18, <2>1 DEF Stream
<1> QED BY <1>3, <1>4, <1>5, <1>19 DEF io, mac, hm, header, body, written2, wire2, n

\* What the next frame of a reader that has not left is.
LEMMA NextFrame ==
  ASSUME NEW M, NEW A, NEW written, NEW egress, NEW encAt, NEW wire, NEW left, NEW got, NEW reading,
         NEW ingress, NEW decAt, NEW dam, wire # <<>>,
         Stream(M, A, written, egress, encAt, wire, left, got, reading, ingress, decAt, dam)
  PROVE  LET k == Len(written) - Len(wire)
             size == written[k + 1][2]
         IN  /\ k \in Nat /\ k + 1 \in 1..Len(written) /\ k + 1 <= Len(written) /\ Len(wire) \in Nat \ {0}
             /\ Len(written) \in Nat
             /\ size \in Nat /\ written[k + 1] = <<k + 1, size>> /\ M[k] \in Macs /\ A[k] \in Nat
             /\ headerAt(A[k], size) \in Ciphers /\ bodyAt(A[k], k + 1) \in Ciphers
             /\ FrameIs(wire[1], M[k], A[k], k + 1, size, dam)
             /\ M[k + 1] = frameEnd(headed(M[k], headerAt(A[k], size)), bodyAt(A[k], k + 1))
             /\ A[k + 1] = after(A[k], size)
<1> DEFINE n == Len(written)
           k == n - Len(wire)
           size == written[k + 1][2]
<1>1. /\ wire \in Seq(FrameRecords) /\ written \in Seq(Nat \X Nat) /\ Len(wire) <= n
      /\ M \in [Nat -> Macs] /\ A \in [Nat -> Nat]
  BY DEF Stream
<1>2. Len(wire) \in Nat \ {0} /\ n \in Nat
  BY <1>1, LenProperties, EmptySeq
<1>3. k \in Nat /\ k + 1 \in 1..n /\ k + 1 <= n /\ 1 \in 1..Len(wire) /\ (k + 1) - 1 = k
  BY <1>1, <1>2
<1>4. written[k + 1] \in Nat \X Nat
  BY <1>1, <1>3, ElementOfSeq
<1>5. /\ written[k + 1][1] = k + 1
      /\ M[k + 1] = frameEnd(headed(M[k], headerAt(A[k], size)), bodyAt(A[k], k + 1))
      /\ A[k + 1] = after(A[k], size)
  BY <1>3 DEF Stream
<1>6. FrameIs(wire[1], M[k + 1 - 1], A[k + 1 - 1], k + 1, size, dam)
  BY <1>3 DEF Stream
<1>7. size \in Nat /\ written[k + 1] = <<k + 1, size>>
  BY <1>4, <1>5
<1>8. M[k] \in Macs /\ A[k] \in Nat
  BY <1>1, <1>3
<1>9. headerAt(A[k], size) \in Ciphers /\ bodyAt(A[k], k + 1) \in Ciphers
  BY <1>3, <1>7, <1>8, TermsAre
<1> HIDE DEF k, size
<1>10. FrameIs(wire[1], M[k], A[k], k + 1, size, dam)
  BY <1>3, <1>6
<1> QED BY <1>2, <1>3, <1>5, <1>7, <1>8, <1>9, <1>10 DEF k, size

\* authAndDecryptHeader: what is authentic is the header that was written.
LEMMA HeaderRead ==
  ASSUME NEW M, NEW A, NEW written, NEW egress, NEW encAt, NEW wire, NEW got,
         NEW ingress, NEW decAt, NEW dam, wire # <<>>,
         Stream(M, A, written, egress, encAt, wire, FALSE, got, <<>>, ingress, decAt, dam)
  PROVE  LET io == wire[1]
             mac == headed(ingress, io.header)
         IN  /\ mac \in Macs /\ decAt \in Nat
             /\ io.headerMac = hash(mac) =>
                   \E size \in Nat :
                      /\ io.header = headerAt(decAt, size)
                      /\ Stream(M, A, written, egress, encAt, wire, FALSE, got, <<size>>, mac, decAt + c_block, dam)
             /\ io.headerMac # hash(mac) =>
                   Stream(M, A, written, egress, encAt, wire, TRUE, got, <<>>, mac, decAt, dam)
<1> DEFINE k == Len(written) - Len(wire)
           size == written[k + 1][2]
           io == wire[1]
           mac == headed(ingress, io.header)
           header == headerAt(decAt, size)
<1>1. /\ size \in Nat /\ M[k] \in Macs /\ A[k] \in Nat /\ headerAt(A[k], size) \in Ciphers
      /\ FrameIs(io, M[k], A[k], k + 1, size, dam)
  BY NextFrame
<1>2. ingress = M[k] /\ decAt = A[k]
  BY DEF Stream
<1> HIDE DEF k, size
<1>3. io.header \in {header, Damaged} /\ io.headerMac \in {hash(headed(ingress, header)), Damaged}
      /\ (dam = 0 => Damaged \notin {io.header, io.headerMac})
  BY <1>1, <1>2 DEF FrameIs
<1>4. ingress \in Macs /\ header \in Ciphers /\ decAt \in Nat
  BY <1>1, <1>2
<1> HIDE DEF header
<1>5. mac \in Macs
  BY <1>3, <1>4, MacsGrow
<1>6. io.headerMac = hash(mac) => io.header = header
  <2>1. hash(headed(ingress, Damaged)) # hash(headed(ingress, header)) /\ hash(mac) # Damaged
    BY <1>4, DamageShows DEF hash, Damaged
  <2> QED BY <1>3, <2>1
<1>7. io.headerMac # hash(mac) => dam > 0
  <2>1. dam \in Nat
    BY DEF Stream
  <2>2. dam = 0 => io.headerMac = hash(mac)
    BY <1>3
  <2> QED BY <2>1, <2>2
<1> HIDE DEF io, mac
<1>8. ASSUME io.headerMac = hash(mac)
      PROVE  Stream(M, A, written, egress, encAt, wire, FALSE, got, <<size>>, mac, decAt + c_block, dam)
  <2>1. mac = headed(M[k], headerAt(A[k], size)) /\ decAt + c_block = A[k] + c_block
    BY <1>2, <1>6, <1>8 DEF mac, header
  <2>2. <<size>> \in Seq(Nat) /\ <<size>> # <<>>
    BY <1>1
  <2> QED BY <2>1, <2>2 DEF Stream, k, size
<1>9. ASSUME io.headerMac # hash(mac)
      PROVE  Stream(M, A, written, egress, encAt, wire, TRUE, got, <<>>, mac, decAt, dam)
  BY <1>7, <1>9 DEF Stream
<1> QED BY <1>1, <1>4, <1>5, <1>6, <1>8, <1>9 DEF io, mac, header

\* The frames on the way when the first was taken.
LEMMA StreamTail ==
  ASSUME NEW M, NEW A, NEW written, NEW egress, NEW encAt, NEW wire, NEW left, NEW got, NEW reading,
         NEW ingress, NEW decAt, NEW dam, wire # <<>>,
         Stream(M, A, written, egress, encAt, wire, left, got, reading, ingress, decAt, dam)
  PROVE  LET k == Len(written) - Len(wire)
             rest == Tail(wire)
         IN  /\ rest \in Seq(FrameRecords) /\ Len(rest) = Len(wire) - 1 /\ Len(rest) <= Len(written)
             /\ Len(written) - Len(rest) = k + 1
             /\ \A j \in 1..Len(rest) :
                   FrameIs(rest[j], M[(k + 1) + j - 1], A[(k + 1) + j - 1], (k + 1) + j, written[(k + 1) + j][2], dam)
<1> DEFINE k == Len(written) - Len(wire)
           rest == Tail(wire)
<1>1. /\ wire \in Seq(FrameRecords) /\ Len(wire) \in Nat \ {0} /\ Len(written) \in Nat /\ k \in Nat
      /\ Len(wire) <= Len(written)
  <2>1. wire \in Seq(FrameRecords) /\ Len(wire) <= Len(written)
    BY DEF Stream
  <2> QED BY <2>1, NextFrame
<1>2. /\ rest \in Seq(FrameRecords) /\ Len(rest) = Len(wire) - 1
      /\ \A j \in 1..Len(rest) : rest[j] = wire[j + 1]
  <2> HIDE DEF FrameRecords
  <2> QED BY <1>1, HeadTailProperties
<1>3. Len(written) - Len(rest) = k + 1 /\ Len(rest) <= Len(written)
  BY <1>1, <1>2
<1>4. ASSUME NEW j \in 1..Len(rest)
      PROVE  FrameIs(rest[j], M[(k + 1) + j - 1], A[(k + 1) + j - 1], (k + 1) + j, written[(k + 1) + j][2], dam)
  <2>1. j + 1 \in 1..Len(wire) /\ k + (j + 1) - 1 = (k + 1) + j - 1 /\ k + (j + 1) = (k + 1) + j
    BY <1>1, <1>2
  <2>2. FrameIs(wire[j + 1], M[k + (j + 1) - 1], A[k + (j + 1) - 1], k + (j + 1), written[k + (j + 1)][2], dam)
    BY <2>1 DEF Stream
  <2> HIDE DEF k
  <2> QED BY <1>2, <2>1, <2>2
<1> QED BY <1>2, <1>3, <1>4

\* authAndDecryptFrame: what is authentic is the frame that was written.
LEMMA FrameRead ==
  ASSUME NEW M, NEW A, NEW written, NEW egress, NEW encAt, NEW wire, NEW got, NEW reading,
         NEW ingress, NEW decAt, NEW dam, NEW left, left = FALSE, reading # <<>>,
         Stream(M, A, written, egress, encAt, wire, left, got, reading, ingress, decAt, dam)
  PROVE  LET io == wire[1]
             mac == frameEnd(ingress, io.frame)
             at == decAt + reading[1] + padding(reading[1])
         IN  /\ mac \in Macs /\ decAt \in Nat /\ at \in Nat /\ wire # <<>>
             /\ io.frameMac = hash(mac) =>
                   \E number \in Nat :
                      /\ io.frame = <<"cipher", K, decAt, number>> /\ <<number, reading[1]>> \in Nat \X Nat
                      /\ Stream(M, A, written, egress, encAt, Tail(wire), left, Append(got, <<number, reading[1]>>),
                                <<>>, mac, at, dam)
             /\ io.frameMac # hash(mac) =>
                   Stream(M, A, written, egress, encAt, Tail(wire), TRUE, got, <<>>, mac, decAt, dam)
<1> DEFINE k == Len(written) - Len(wire)
           size == written[k + 1][2]
           io == wire[1]
           mac == frameEnd(ingress, io.frame)
           body == bodyAt(A[k], k + 1)
           at == decAt + size + padding(size)
<1>0. wire # <<>>
  BY DEF Stream
<1> HIDE DEF io, mac, at
<1>1. /\ size \in Nat /\ M[k] \in Macs /\ A[k] \in Nat /\ headerAt(A[k], size) \in Ciphers /\ body \in Ciphers
      /\ FrameIs(wire[1], M[k], A[k], k + 1, size, dam) /\ k \in Nat /\ k + 1 <= Len(written) /\ Len(written) \in Nat
      /\ written[k + 1] = <<k + 1, size>>
      /\ M[k + 1] = frameEnd(headed(M[k], headerAt(A[k], size)), body) /\ A[k + 1] = after(A[k], size)
  BY <1>0, NextFrame
<1>2. /\ ingress = headed(M[k], headerAt(A[k], size)) /\ decAt = A[k] + c_block /\ reading = <<size>>
      /\ Len(got) = k
  BY DEF Stream
<1>3. /\ Tail(wire) \in Seq(FrameRecords) /\ Len(Tail(wire)) <= Len(written)
      /\ Len(written) - Len(Tail(wire)) = k + 1
      /\ \A j \in 1..Len(Tail(wire)) :
            FrameIs(Tail(wire)[j], M[(k + 1) + j - 1], A[(k + 1) + j - 1], (k + 1) + j, written[(k + 1) + j][2], dam)
  BY <1>0, StreamTail
<1> USE DEF io, mac, at
<1> HIDE DEF k, size
<1>4. ingress \in Macs /\ decAt \in Nat /\ reading[1] = size
  <2>1. ingress \in Macs
    BY <1>1, <1>2, MacsGrow
  <2>2. decAt \in Nat
    BY <1>1, <1>2, Padded
  <2> QED BY <1>2, <2>1, <2>2
<1>5. at \in Nat /\ at = A[k + 1] /\ body = <<"cipher", K, decAt, k + 1>>
  <2>1. padding(size) \in Nat
    BY <1>1, Padded
  <2>2. at \in Nat
    BY <1>1, <1>4, <2>1
  <2> QED BY <1>1, <1>2, <2>2 DEF after, bodyAt
<1>6. io.frame \in {body, Damaged} /\ io.frameMac \in {hash(frameEnd(ingress, body)), Damaged}
      /\ (dam = 0 => Damaged \notin {io.frame, io.frameMac})
  BY <1>1, <1>2 DEF FrameIs
<1>7. M[k + 1] = frameEnd(ingress, body)
  BY <1>1, <1>2
<1> HIDE DEF body, at
<1>8. mac \in Macs
  BY <1>1, <1>4, <1>6, MacsGrow
<1>9. io.frameMac = hash(mac) => io.frame = body
  <2>1. hash(frameEnd(ingress, Damaged)) # hash(frameEnd(ingress, body)) /\ hash(mac) # Damaged
    BY <1>1, <1>4, DamageShows DEF hash, Damaged
  <2> QED BY <1>6, <2>1
<1>10. io.frameMac # hash(mac) => dam > 0
  <2>1. dam \in Nat
    BY DEF Stream
  <2>2. dam = 0 => io.frameMac = hash(mac)
    BY <1>6
  <2> QED BY <2>1, <2>2
<1> HIDE DEF io, mac
<1>11. ASSUME io.frameMac = hash(mac)
       PROVE  Stream(M, A, written, egress, encAt, Tail(wire), left, Append(got, <<k + 1, size>>), <<>>, mac, at, dam)
  <2> DEFINE pair == <<k + 1, size>>
             Pairs == Nat \X Nat
             got2 == Append(got, pair)
  <2>0. k + 1 \in Nat /\ pair = written[k + 1] /\ got \in Seq(Pairs)
    BY <1>1 DEF Stream
  <2>1. pair \in Pairs /\ got \in Seq(Pairs) /\ pair = written[k + 1]
    BY <1>1, <2>0
  <2> HIDE DEF pair, Pairs
  <2>2. /\ got2 \in Seq(Pairs) /\ Len(got2) = k + 1 /\ got2[k + 1] = pair
        /\ \A i \in 1..k : got2[i] = got[i]
    BY <1>2, <2>1, AppendProperties
  <2>3. \A i \in 1..k : got[i] = written[i]
    BY <1>2 DEF Stream
  <2>4. \A i \in 1..k + 1 : got2[i] = written[i]
    <3>1. \A i \in 1..k + 1 : i \in 1..k \/ i = k + 1
      BY <1>1
    <3> QED BY <2>1, <2>2, <2>3, <3>1
  <2>5. mac = M[k + 1]
    BY <1>7, <1>9, <1>11 DEF mac
  <2> HIDE DEF got2
  <2>6. <<>> \in Seq(Nat)
    OBVIOUS
  <2>7. Stream(M, A, written, egress, encAt, Tail(wire), left, got2, <<>>, mac, at, dam)
    BY <1>1, <1>3, <1>5, <2>2, <2>4, <2>5, <2>6 DEF Stream, Pairs
  <2> QED BY <2>7 DEF got2, pair
<1>12. ASSUME io.frameMac # hash(mac)
       PROVE  Stream(M, A, written, egress, encAt, Tail(wire), TRUE, got, <<>>, mac, decAt, dam)
  <2>1. <<>> \in Seq(Nat)
    OBVIOUS
  <2> QED BY <1>3, <1>10, <1>12, <2>1 DEF Stream
<1>13. k + 1 \in Nat /\ <<k + 1, size>> \in Nat \X Nat
  BY <1>1
<1> QED BY <1>0, <1>4, <1>5, <1>8, <1>9, <1>11, <1>12, <1>13 DEF io, mac, at

\* The network damages a part of a frame.
LEMMA StreamDamaged ==
  ASSUME NEW M, NEW A, NEW written, NEW egress, NEW encAt, NEW wire, NEW left, NEW got, NEW reading,
         NEW ingress, NEW decAt, NEW dam, NEW i \in 1..Len(wire),
         NEW part \in {"header", "headerMac", "frame", "frameMac"},
         Stream(M, A, written, egress, encAt, wire, left, got, reading, ingress, decAt, dam)
  PROVE  LET wire2 == [wire EXCEPT ![i][part] = Damaged]
         IN  /\ wire2 \in Seq(FrameRecords)
             /\ Stream(M, A, written, egress, encAt, wire2, left, got, reading, ingress, decAt, dam + 1)
<1> DEFINE wire2 == [wire EXCEPT ![i][part] = Damaged]
<1>1. /\ wire \in Seq(FrameRecords) /\ Len(wire) \in Nat /\ DOMAIN wire = 1..Len(wire) /\ dam \in Nat
      /\ i \in DOMAIN wire
  BY LenProperties DEF Stream
<1>2. /\ wire2 = [j \in DOMAIN wire |-> wire2[j]] /\ wire2[i] = [wire[i] EXCEPT ![part] = Damaged]
      /\ \A j \in 1..Len(wire) : j # i => wire2[j] = wire[j]
  BY <1>1
<1> HIDE DEF wire2
<1>3. ASSUME NEW mac, NEW at, NEW k, NEW size, FrameIs(wire[i], mac, at, k, size, dam)
      PROVE  FrameIs(wire2[i], mac, at, k, size, dam + 1)
  <2>1. wire[i] \in FrameRecords
    BY <1>3 DEF FrameIs
  <2>2. /\ wire2[i] \in FrameRecords
        /\ wire2[i].header \in {wire[i].header, Damaged} /\ wire2[i].headerMac \in {wire[i].headerMac, Damaged}
        /\ wire2[i].frame \in {wire[i].frame, Damaged} /\ wire2[i].frameMac \in {wire[i].frameMac, Damaged}
    <3>1. CASE part = "header"
      BY <1>2, <2>1, <3>1 DEF FrameRecords
    <3>2. CASE part = "headerMac"
      BY <1>2, <2>1, <3>2 DEF FrameRecords
    <3>3. CASE part = "frame"
      BY <1>2, <2>1, <3>3 DEF FrameRecords
    <3>4. CASE part = "frameMac"
      BY <1>2, <2>1, <3>4 DEF FrameRecords
    <3> QED BY <3>1, <3>2, <3>3, <3>4
  <2>3. dam + 1 # 0
    BY <1>1
  <2> QED BY <1>3, <2>2, <2>3 DEF FrameIs
<1>4. ASSUME NEW j \in 1..Len(wire), NEW mac, NEW at, NEW k, NEW size, FrameIs(wire[j], mac, at, k, size, dam)
      PROVE  FrameIs(wire2[j], mac, at, k, size, dam + 1)
  <2>1. CASE j = i
    BY <1>3, <1>4, <2>1
  <2>2. CASE j # i
    <3>1. wire2[j] = wire[j] /\ dam + 1 # 0
      BY <1>1, <1>2, <2>2
    <3> QED BY <1>4, <3>1 DEF FrameIs
  <2> QED BY <2>1, <2>2
<1>5. wire2 \in Seq(FrameRecords) /\ Len(wire2) = Len(wire)
  <2>1. \A j \in 1..Len(wire) : wire2[j] \in FrameRecords
    <3>1. \A j \in 1..Len(wire) : \E mac, at, k, size : FrameIs(wire[j], mac, at, k, size, dam)
      BY DEF Stream
    <3> QED BY <1>4, <3>1 DEF FrameIs
  <2> HIDE DEF FrameRecords
  <2>2. wire2 \in [1..Len(wire) -> FrameRecords]
    BY <1>1, <1>2, <2>1
  <2> QED BY <1>1, <2>2, SeqDef, LenProperties
<1>6. wire # <<>> => wire2 # <<>>
  BY <1>1, <1>5, EmptySeq
<1>7. dam + 1 \in Nat /\ dam + 1 > 0
  BY <1>1
<1>8. \A j \in 1..Len(wire) : LET k == Len(written) - Len(wire) IN
         FrameIs(wire2[j], M[k + j - 1], A[k + j - 1], k + j, written[k + j][2], dam + 1)
  BY <1>4 DEF Stream
<1>9. Stream(M, A, written, egress, encAt, wire2, left, got, reading, ingress, decAt, dam + 1)
  BY <1>5, <1>6, <1>7, <1>8 DEF Stream
<1> QED BY <1>5, <1>9 DEF wire2

\* What an end has taken is what the other wrote.
LEMMA StreamPrefix ==
  ASSUME NEW M, NEW A, NEW written, NEW egress, NEW encAt, NEW wire, NEW left, NEW got, NEW reading,
         NEW ingress, NEW decAt, NEW dam,
         Stream(M, A, written, egress, encAt, wire, left, got, reading, ingress, decAt, dam)
  PROVE  IsPrefix(got, written) /\ (left => dam > 0)
<1>1. /\ got \in Seq(Nat \X Nat) /\ written \in Seq(Nat \X Nat) /\ Len(got) <= Len(written)
      /\ \A i \in 1..Len(got) : got[i] = written[i]
      /\ left => dam > 0
  BY DEF Stream
<1>2. Len(got) \in 0..Len(written)
  BY <1>1, LenProperties
<1>3. SubSeq(written, 1, Len(got)) = got
  <2>1. PICK R : R = Nat \X Nat
    OBVIOUS
  <2>2. PICK g \in Seq(R), w \in Seq(R) : g = got /\ w = written
    BY <1>1, <2>1
  <2>3. PICK n \in Nat : n = Len(g) /\ n \in 0..Len(w)
    BY <1>2, <2>2
  <2>4. PICK s \in Seq(R) : s = SubSeq(w, 1, n) /\ Len(s) = n /\ \A i \in 1..n : s[i] = w[i]
    <3>1. SubSeq(w, 1, n) \in Seq(R) /\ Len(SubSeq(w, 1, n)) = n /\ \A i \in 1..n : SubSeq(w, 1, n)[i] = w[i]
      BY <2>2, <2>3
    <3> QED BY <3>1
  <2>5. \A i \in 1..n : s[i] = g[i]
    BY <1>1, <2>2, <2>3, <2>4
  <2>6. s = g
    BY <2>2, <2>3, <2>4, <2>5
  <2> QED BY <2>2, <2>3, <2>4, <2>6
<1> QED BY <1>1, <1>3 DEF IsPrefix

\* Damage elsewhere leaves a stream as it is.
LEMMA StreamSpared ==
  ASSUME NEW M, NEW A, NEW written, NEW egress, NEW encAt, NEW wire, NEW left, NEW got, NEW reading,
         NEW ingress, NEW decAt, NEW dam,
         Stream(M, A, written, egress, encAt, wire, left, got, reading, ingress, decAt, dam)
  PROVE  Stream(M, A, written, egress, encAt, wire, left, got, reading, ingress, decAt, dam + 1)
<1>1. dam \in Nat
  BY DEF Stream
<1>2. dam + 1 \in Nat /\ dam + 1 > 0 /\ dam + 1 # 0
  BY <1>1
<1>3. ASSUME NEW io, NEW mac, NEW at, NEW k, NEW size, FrameIs(io, mac, at, k, size, dam)
      PROVE  FrameIs(io, mac, at, k, size, dam + 1)
  BY <1>2, <1>3 DEF FrameIs
<1>4. \A j \in 1..Len(wire) : LET k == Len(written) - Len(wire) IN
         FrameIs(wire[j], M[k + j - 1], A[k + j - 1], k + j, written[k + j][2], dam + 1)
  BY <1>3 DEF Stream
<1> QED BY <1>2, <1>4 DEF Stream

-----------------------------------------------------------------------------
(* Both directions.                                                        *)

\* FrameCoder's constructor: nothing is written, and both ends begin alike.
LEMMA CoderInitial == FrameCoderInit => CoderInv
<1> SUFFICES ASSUME FrameCoderInit
             PROVE  CoderInv
  OBVIOUS
<1>1. ASSUME NEW e \in Coders
      PROVE  /\ setup(e) \in [frameKey : {K}, macKey : {Mk}, encAt : Nat, decAt : Nat,
                              egressMac : Macs, ingressMac : Macs]
             /\ setup(e).egressMac \in Macs /\ setup(e).encAt = 0 /\ setup(e).decAt = 0
  <2> DEFINE w == otherCoder(e)
  <2>0. w \in Coders /\ otherCoder(w) = e
    BY TheOther
  <2>1. ASSUME NEW f \in Coders
        PROVE  setup(f).egressMac \in Macs
    <3>1. macSecret(f) = Mk /\ otherCoder(f) \in Coders
      BY SameSecrets, TheOther
    <3> DEFINE x == <<"xor", xor(Mk, {nonceOf(otherCoder(f))})>>
               y == cipherOf(f)
    <3>2. x \in Terms /\ y \in Terms
      BY <3>1 DEF Terms
    <3>3. setup(f).egressMac = <<x, y>>
      BY <3>1 DEF setup
    <3> HIDE DEF x, y, Terms
    <3> QED BY <3>2, <3>3 DEF Macs
  <2>2. setup(e).egressMac \in Macs /\ setup(e).ingressMac \in Macs
    BY <2>0, <2>1, SetupsMatch
  <2>3. aesSecret(e) = K /\ macSecret(e) = Mk
    BY SameSecrets
  <2>4. setup(e) = [frameKey |-> aesSecret(e), macKey |-> macSecret(e), encAt |-> 0, decAt |-> 0,
                    egressMac |-> setup(e).egressMac, ingressMac |-> setup(e).ingressMac]
    BY DEF setup
  <2> HIDE DEF Macs, K, Mk
  <2> QED BY <2>2, <2>3, <2>4
<1>2. <<>> \in Seq(FrameRecords) /\ <<>> \in Seq(Nat \X Nat) /\ <<>> \in Seq(Nat) /\ Len(<<>>) = 0
  OBVIOUS
<1>3. CoderTypes
  <2> HIDE DEF FrameRecords, Macs, K, Mk
  <2> QED BY <1>1, <1>2 DEF FrameCoderInit, CoderTypes
<1>4. ASSUME NEW e \in Coders
      PROVE  Flows(e)
  <2> DEFINE w == otherCoder(e)
             M == [i \in Nat |-> setup(w).egressMac]
             A == [i \in Nat |-> 0]
  <2>0. w \in Coders /\ setup(w).egressMac = setup(e).ingressMac
    BY TheOther, SetupsMatch
  <2>1. /\ wrote[w] = <<>> /\ onWire[e] = <<>> /\ taken[e] = <<>> /\ headerRead[e] = <<>> /\ gone = {} /\ damages = 0
        /\ coder[w].egressMac = setup(w).egressMac /\ coder[w].encAt = 0
        /\ coder[e].ingressMac = setup(w).egressMac /\ coder[e].decAt = 0
    BY <1>1, <2>0 DEF FrameCoderInit
  <2>2. M \in [Nat -> Macs] /\ A \in [Nat -> Nat] /\ M[0] = setup(w).egressMac /\ A[0] = 0
    BY <1>1, <2>0
  <2> HIDE DEF M, A, w
  <2>3. Stream(M, A, <<>>, setup(w).egressMac, 0, <<>>, FALSE, <<>>, <<>>, setup(w).egressMac, 0, 0)
    BY <1>2, <2>2 DEF Stream
  <2>4. (e \in gone) = FALSE
    BY <2>1
  <2>5. Stream(M, A, wrote[w], coder[w].egressMac, coder[w].encAt, onWire[e], e \in gone, taken[e],
               headerRead[e], coder[e].ingressMac, coder[e].decAt, damages)
    BY <2>1, <2>3, <2>4, Zenon
  <2> QED BY <2>5 DEF Flows, w
<1> QED BY <1>3, <1>4 DEF CoderInv

\* What updateMAC and the ciphers make, with the keys both ends have.
LEMMA CoderMakes ==
  ASSUME CoderTypes, NEW e \in Coders
  PROVE  /\ \A mac, term : withHeader(coder[e], mac, term) = headed(mac, term)
         /\ \A mac, term : withFrame(coder[e], mac, term) = frameEnd(mac, term)
         /\ \A at, text : crypt(coder[e], at, text) = headerAt(at, text)
         /\ \A at, text : crypt(coder[e], at + c_block, text) = bodyAt(at, text)
         /\ \A p \in Nat : decrypt(coder[e], <<"cipher", K, coder[e].decAt, p>>) = p
<1>1. coder[e].frameKey = K /\ coder[e].macKey = Mk
  <2> HIDE DEF K, Mk, Macs
  <2> QED BY DEF CoderTypes
<1> HIDE DEF K, Mk
<1>2. /\ \A mac, term : withHeader(coder[e], mac, term) = headed(mac, term)
      /\ \A mac, term : withFrame(coder[e], mac, term) = frameEnd(mac, term)
  BY <1>1 DEF withHeader, withFrame, updateMAC, headed, frameEnd
<1>3. /\ \A at, text : crypt(coder[e], at, text) = headerAt(at, text)
      /\ \A at, text : crypt(coder[e], at + c_block, text) = bodyAt(at, text)
  BY <1>1 DEF crypt, headerAt, bodyAt
<1>4. \A p \in Nat : decrypt(coder[e], <<"cipher", K, coder[e].decAt, p>>) = p
  BY <1>1 DEF decrypt
<1> QED BY <1>2, <1>3, <1>4

\* writeFrame lengthens the stream to the other end.
LEMMA WriteFrameKeeps ==
  ASSUME CoderInv, NEW end \in Coders, NEW size \in Payloads, WriteFrame(end, size)
  PROVE  CoderInv'
<1> DEFINE e == otherCoder(end)
           c == coder[end]
           n == Len(wrote[end])
           header == headerAt(c.encAt, size)
           body == bodyAt(c.encAt, n + 1)
           hm == headed(c.egressMac, header)
           mac == frameEnd(hm, body)
           at == after(c.encAt, size)
           io == [header |-> header, headerMac |-> hash(hm), frame |-> body, frameMac |-> hash(mac)]
<1>1. size \in Nat /\ e \in Coders /\ e # end /\ otherCoder(e) = end /\ CoderTypes
  BY CoderAssumption, TheOther DEF CoderInv
<1>2. PICK M, A : Stream(M, A, wrote[end], c.egressMac, c.encAt, onWire[e], e \in gone, taken[e],
                         headerRead[e], coder[e].ingressMac, coder[e].decAt, damages)
  BY <1>1 DEF CoderInv, Flows
<1>3. /\ \E M2, A2 : Stream(M2, A2, Append(wrote[end], <<n + 1, size>>), mac, at, Append(onWire[e], io),
                            e \in gone, taken[e], headerRead[e], coder[e].ingressMac, coder[e].decAt, damages)
      /\ io \in FrameRecords /\ mac \in Macs /\ at \in Nat
  <2> HIDE DEF c, e
  <2> QED BY <1>1, <1>2, StreamWritten
<1>4. /\ onWire' = [onWire EXCEPT ![e] = Append(@, io)]
      /\ coder' = [coder EXCEPT ![end].egressMac = mac, ![end].encAt = at]
      /\ wrote' = [wrote EXCEPT ![end] = Append(@, <<n + 1, size>>)]
      /\ UNCHANGED <<taken, gone, headerRead, damages>>
  <2>1. /\ headerAt(c.encAt, size) = crypt(c, c.encAt, size) /\ bodyAt(c.encAt, n + 1) = crypt(c, c.encAt + c_block, n + 1)
        /\ headed(c.egressMac, header) = withHeader(c, c.egressMac, header)
        /\ frameEnd(hm, body) = withFrame(c, hm, body)
    <3>1. /\ crypt(c, c.encAt, size) = headerAt(c.encAt, size)
          /\ crypt(c, c.encAt + c_block, n + 1) = bodyAt(c.encAt, n + 1)
      BY <1>1, CoderMakes
    <3>2. withHeader(c, c.egressMac, header) = headed(c.egressMac, header) /\ withFrame(c, hm, body) = frameEnd(hm, body)
      BY <1>1, CoderMakes
    <3> QED BY <3>1, <3>2
  <2>2. at = c.encAt + c_block + size + padding(size)
    BY DEF after
  <2> HIDE DEF header, body, hm, mac, at
  <2>3. /\ header = crypt(c, c.encAt, size) /\ body = crypt(c, c.encAt + c_block, n + 1)
        /\ hm = withHeader(c, c.egressMac, header) /\ mac = withFrame(c, hm, body)
    BY <2>1 DEF header, body, hm, mac
  <2> QED BY <2>2, <2>3 DEF WriteFrame
<1> HIDE DEF io, mac, at
<1>5. /\ coder \in [Coders -> [frameKey : {K}, macKey : {Mk}, encAt : Nat, decAt : Nat,
                               egressMac : Macs, ingressMac : Macs]]
      /\ onWire \in [Coders -> Seq(FrameRecords)] /\ wrote \in [Coders -> Seq(Nat \X Nat)]
      /\ taken \in [Coders -> Seq(Nat \X Nat)] /\ headerRead \in [Coders -> Seq(Nat)]
      /\ gone \subseteq Coders /\ damages \in Nat
  BY <1>1 DEF CoderTypes
<1> HIDE DEF K, Mk, Macs
<1>6. /\ coder' \in [Coders -> [frameKey : {K}, macKey : {Mk}, encAt : Nat, decAt : Nat,
                                egressMac : Macs, ingressMac : Macs]]
      /\ coder'[end].egressMac = mac /\ coder'[end].encAt = at
      /\ coder'[end].ingressMac = coder[end].ingressMac /\ coder'[end].decAt = coder[end].decAt
      /\ coder'[e] = coder[e]
  BY <1>1, <1>3, <1>4, <1>5
<1>7. /\ onWire' \in [Coders -> Seq(FrameRecords)] /\ onWire'[e] = Append(onWire[e], io)
      /\ onWire'[end] = onWire[end]
  <2> HIDE DEF FrameRecords
  <2> QED BY <1>1, <1>3, <1>4, <1>5
<1>8. /\ wrote' \in [Coders -> Seq(Nat \X Nat)] /\ wrote'[end] = Append(wrote[end], <<n + 1, size>>)
      /\ wrote'[e] = wrote[e]
  <2> DEFINE pair == <<n + 1, size>>
             Pairs == Nat \X Nat
  <2>1. pair \in Pairs
    <3>1. n \in Nat
      BY <1>5
    <3> QED BY <1>1, <3>1
  <2>2. wrote \in [Coders -> Seq(Pairs)] /\ wrote' = [wrote EXCEPT ![end] = Append(@, pair)]
    BY <1>4, <1>5
  <2> HIDE DEF pair, Pairs
  <2>3. /\ wrote' \in [Coders -> Seq(Pairs)] /\ wrote'[end] = Append(wrote[end], pair)
        /\ wrote'[e] = wrote[e]
    BY <1>1, <2>1, <2>2
  <2> QED BY <2>3 DEF pair, Pairs
<1>9. CoderTypes'
  BY <1>4, <1>5, <1>6, <1>7, <1>8 DEF CoderTypes
<1>10. Flows(e)'
  BY <1>1, <1>3, <1>4, <1>6, <1>7, <1>8 DEF Flows
<1>11. Flows(end)'
  <2>1. Flows(end)
    BY DEF CoderInv
  <2> QED BY <1>1, <1>4, <1>6, <1>7, <1>8, <2>1 DEF Flows
<1>12. \A f \in Coders : f = e \/ f = end
  BY <1>1 DEF Coders
<1> QED BY <1>9, <1>10, <1>11, <1>12 DEF CoderInv

\* A step of the reader end, which moves only its own side of its own stream.
LEMMA ReadingKeeps ==
  ASSUME CoderInv, NEW end \in Coders, NEW mac \in Macs, NEW at \in Nat, NEW wire, NEW got, NEW reading,
         NEW M, NEW A,
         wire \in Seq(FrameRecords), got \in Seq(Nat \X Nat), reading \in Seq(Nat),
         coder' = [coder EXCEPT ![end].ingressMac = mac, ![end].decAt = at],
         onWire' = [onWire EXCEPT ![end] = wire], taken' = [taken EXCEPT ![end] = got],
         headerRead' = [headerRead EXCEPT ![end] = reading],
         gone' \subseteq Coders, gone' \ {end} = gone \ {end},
         UNCHANGED <<wrote, damages>>,
         Stream(M, A, wrote[otherCoder(end)], coder[otherCoder(end)].egressMac, coder[otherCoder(end)].encAt,
                wire, end \in gone', got, reading, mac, at, damages)
  PROVE  CoderInv'
<1> DEFINE w == otherCoder(end)
<1>1. w \in Coders /\ w # end /\ otherCoder(w) = end
  BY TheOther
<1>2. /\ coder \in [Coders -> [frameKey : {K}, macKey : {Mk}, encAt : Nat, decAt : Nat,
                               egressMac : Macs, ingressMac : Macs]]
      /\ onWire \in [Coders -> Seq(FrameRecords)] /\ wrote \in [Coders -> Seq(Nat \X Nat)]
      /\ taken \in [Coders -> Seq(Nat \X Nat)] /\ headerRead \in [Coders -> Seq(Nat)]
      /\ gone \subseteq Coders /\ damages \in Nat
  BY DEF CoderInv, CoderTypes
<1> HIDE DEF K, Mk, Macs, FrameRecords
<1>3. /\ coder' \in [Coders -> [frameKey : {K}, macKey : {Mk}, encAt : Nat, decAt : Nat,
                                egressMac : Macs, ingressMac : Macs]]
      /\ coder'[end].ingressMac = mac /\ coder'[end].decAt = at
      /\ coder'[end].egressMac = coder[end].egressMac /\ coder'[end].encAt = coder[end].encAt
      /\ coder'[w] = coder[w]
  <2>1. coder \in [Coders -> [frameKey : {K}, macKey : {Mk}, encAt : Nat, decAt : Nat,
                              egressMac : Macs, ingressMac : Macs]]
    BY <1>2
  <2>2. /\ coder' \in [Coders -> [frameKey : {K}, macKey : {Mk}, encAt : Nat, decAt : Nat,
                                  egressMac : Macs, ingressMac : Macs]]
        /\ coder'[end].ingressMac = mac /\ coder'[end].decAt = at
        /\ coder'[end].egressMac = coder[end].egressMac /\ coder'[end].encAt = coder[end].encAt
        /\ \A f \in Coders : f # end => coder'[f] = coder[f]
    <3>1. coder' = [coder EXCEPT ![end].ingressMac = mac, ![end].decAt = at] /\ end \in Coders /\ mac \in Macs /\ at \in Nat
      OBVIOUS
    <3> HIDE DEF w
    <3> QED BY ONLY <2>1, <3>1
  <2> HIDE DEF w
  <2> QED BY <1>1, <2>2, Zenon
<1>4. /\ onWire' \in [Coders -> Seq(FrameRecords)] /\ onWire'[end] = wire /\ onWire'[w] = onWire[w]
  BY <1>1, <1>2
<1>5. /\ taken' \in [Coders -> Seq(Nat \X Nat)] /\ taken'[end] = got /\ taken'[w] = taken[w]
  <2> DEFINE Pairs == Nat \X Nat
  <2>1. taken \in [Coders -> Seq(Pairs)] /\ got \in Seq(Pairs)
    BY <1>2
  <2> HIDE DEF Pairs
  <2>2. /\ taken' \in [Coders -> Seq(Pairs)] /\ taken'[end] = got /\ taken'[w] = taken[w]
    BY <1>1, <2>1
  <2> QED BY <2>2 DEF Pairs
<1>6. /\ headerRead' \in [Coders -> Seq(Nat)] /\ headerRead'[end] = reading /\ headerRead'[w] = headerRead[w]
  BY <1>1, <1>2
<1>7. CoderTypes'
  BY <1>2, <1>3, <1>4, <1>5, <1>6 DEF CoderTypes
<1>8. Flows(end)'
  BY <1>1, <1>3, <1>4, <1>5, <1>6 DEF Flows
<1>9. Flows(w)'
  <2>1. Flows(w)
    BY <1>1 DEF CoderInv
  <2>2. (w \in gone') <=> (w \in gone)
    BY <1>1
  <2> QED BY <1>1, <1>3, <1>4, <1>5, <1>6, <2>1, <2>2 DEF Flows
<1>10. \A f \in Coders : f = end \/ f = w
  BY <1>1 DEF Coders
<1> QED BY <1>7, <1>8, <1>9, <1>10 DEF CoderInv

\* authAndDecryptHeader.
LEMMA ReadHeaderKeeps ==
  ASSUME CoderInv, NEW end \in Coders, AuthAndDecryptHeader(end)
  PROVE  CoderInv'
<1> DEFINE w == otherCoder(end)
           c == coder[end]
           io == onWire[end][1]
           mac == headed(c.ingressMac, io.header)
<1>1. end \notin gone /\ headerRead[end] = <<>> /\ onWire[end] # <<>> /\ CoderTypes /\ w \in Coders
  BY TheOther DEF AuthAndDecryptHeader, CoderInv
<1>2. PICK M, A : Stream(M, A, wrote[w], coder[w].egressMac, coder[w].encAt, onWire[end], end \in gone, taken[end],
                         headerRead[end], c.ingressMac, c.decAt, damages)
  BY DEF CoderInv, Flows
<1>3. (end \in gone) = FALSE
  BY <1>1
<1>4. Stream(M, A, wrote[w], coder[w].egressMac, coder[w].encAt, onWire[end], FALSE, taken[end],
             <<>>, c.ingressMac, c.decAt, damages)
  BY <1>1, <1>2, <1>3, Zenon
<1> HIDE DEF w, c
<1>5. /\ mac \in Macs /\ c.decAt \in Nat
      /\ io.headerMac = hash(mac) =>
            \E size \in Nat :
               /\ io.header = headerAt(c.decAt, size)
               /\ Stream(M, A, wrote[w], coder[w].egressMac, coder[w].encAt, onWire[end], FALSE, taken[end],
                         <<size>>, mac, c.decAt + c_block, damages)
      /\ io.headerMac # hash(mac) =>
            Stream(M, A, wrote[w], coder[w].egressMac, coder[w].encAt, onWire[end], TRUE, taken[end],
                   <<>>, mac, c.decAt, damages)
  BY <1>1, <1>4, HeaderRead
<1>6. /\ onWire[end] \in Seq(FrameRecords) /\ taken[end] \in Seq(Nat \X Nat) /\ onWire \in [Coders -> Seq(FrameRecords)]
      /\ taken \in [Coders -> Seq(Nat \X Nat)] /\ headerRead \in [Coders -> Seq(Nat)] /\ gone \subseteq Coders
  BY <1>1 DEF CoderTypes
<1>7. withHeader(coder[end], coder[end].ingressMac, io.header) = mac
  BY <1>1, CoderMakes DEF c
<1>8. /\ onWire' = [onWire EXCEPT ![end] = onWire[end]] /\ taken' = [taken EXCEPT ![end] = taken[end]]
      /\ UNCHANGED <<wrote, damages>>
  <2> HIDE DEF FrameRecords
  <2> QED BY <1>6 DEF AuthAndDecryptHeader
<1>9. CASE io.headerMac = hash(mac)
  <2>1. PICK size \in Nat :
               /\ io.header = headerAt(c.decAt, size)
               /\ Stream(M, A, wrote[w], coder[w].egressMac, coder[w].encAt, onWire[end], FALSE, taken[end],
                         <<size>>, mac, c.decAt + c_block, damages)
    BY <1>5, <1>9
  <2>2. decrypt(coder[end], io.header) = size
    BY <1>1, <2>1, CoderMakes DEF headerAt, c
  <2>3. /\ coder' = [coder EXCEPT ![end].ingressMac = mac, ![end].decAt = c.decAt + c_block]
        /\ headerRead' = [headerRead EXCEPT ![end] = <<size>>] /\ gone' = gone
    BY <1>7, <1>9, <2>2 DEF AuthAndDecryptHeader, c
  <2>4. (end \in gone') = FALSE
    BY <1>1, <2>3
  <2>5. Stream(M, A, wrote[w], coder[w].egressMac, coder[w].encAt, onWire[end], end \in gone', taken[end],
               <<size>>, mac, c.decAt + c_block, damages)
    BY <2>1, <2>4, Zenon
  <2>6. <<size>> \in Seq(Nat) /\ c.decAt + c_block \in Nat
    BY <1>5, CoderAssumption
  <2> HIDE DEF mac, FrameRecords, Macs
  <2> QED BY <1>5, <1>6, <1>8, <2>3, <2>5, <2>6, ReadingKeeps DEF w
<1>10. CASE io.headerMac # hash(mac)
  <2>1. Stream(M, A, wrote[w], coder[w].egressMac, coder[w].encAt, onWire[end], TRUE, taken[end],
               <<>>, mac, c.decAt, damages)
    BY <1>5, <1>10
  <2>2. /\ coder' = [coder EXCEPT ![end].ingressMac = mac, ![end].decAt = c.decAt]
        /\ headerRead' = headerRead /\ gone' = gone \union {end}
    BY <1>7, <1>10 DEF AuthAndDecryptHeader, c
  <2>3. headerRead' = [headerRead EXCEPT ![end] = <<>>]
    BY <1>1, <1>6, <2>2
  <2>4. (end \in gone') = TRUE /\ gone' \subseteq Coders /\ gone' \ {end} = gone \ {end}
    BY <1>6, <2>2
  <2>5. Stream(M, A, wrote[w], coder[w].egressMac, coder[w].encAt, onWire[end], end \in gone', taken[end],
               <<>>, mac, c.decAt, damages)
    BY <2>1, <2>4, Zenon
  <2>6. <<>> \in Seq(Nat)
    OBVIOUS
  <2> HIDE DEF mac, FrameRecords, Macs
  <2> QED BY <1>5, <1>6, <1>8, <2>2, <2>3, <2>4, <2>5, <2>6, ReadingKeeps DEF w
<1> QED BY <1>9, <1>10

\* authAndDecryptFrame.
LEMMA ReadFrameKeeps ==
  ASSUME CoderInv, NEW end \in Coders, AuthAndDecryptFrame(end)
  PROVE  CoderInv'
<1> DEFINE w == otherCoder(end)
           c == coder[end]
           io == onWire[end][1]
           size == headerRead[end][1]
           mac == frameEnd(c.ingressMac, io.frame)
           at == c.decAt + size + padding(size)
           rest == Tail(onWire[end])
<1>1. end \notin gone /\ headerRead[end] # <<>> /\ CoderTypes /\ w \in Coders
  BY TheOther DEF AuthAndDecryptFrame, CoderInv
<1>2. PICK M, A : Stream(M, A, wrote[w], coder[w].egressMac, coder[w].encAt, onWire[end], end \in gone, taken[end],
                         headerRead[end], c.ingressMac, c.decAt, damages)
  BY DEF CoderInv, Flows
<1>4. /\ headerRead[end] # <<>> /\ (end \in gone) = FALSE
      /\ Stream(M, A, wrote[otherCoder(end)], coder[otherCoder(end)].egressMac, coder[otherCoder(end)].encAt,
                onWire[end], end \in gone, taken[end], headerRead[end], coder[end].ingressMac, coder[end].decAt, damages)
  BY <1>1, <1>2
<1> HIDE DEF io, mac, at, rest, size
<1>5. /\ mac \in Macs /\ c.decAt \in Nat /\ at \in Nat /\ onWire[end] # <<>>
      /\ io.frameMac = hash(mac) =>
            \E number \in Nat :
               /\ io.frame = <<"cipher", K, c.decAt, number>> /\ <<number, size>> \in Nat \X Nat
               /\ Stream(M, A, wrote[w], coder[w].egressMac, coder[w].encAt, rest, end \in gone,
                         Append(taken[end], <<number, size>>), <<>>, mac, at, damages)
      /\ io.frameMac # hash(mac) =>
            Stream(M, A, wrote[w], coder[w].egressMac, coder[w].encAt, rest, TRUE, taken[end], <<>>,
                   mac, c.decAt, damages)
  <2> USE DEF io, mac, at, rest, size
  <2> QED BY <1>4, FrameRead, Zenon
<1> USE DEF io, mac, at, rest, size
<1> HIDE DEF w, c
<1>6. /\ onWire[end] \in Seq(FrameRecords) /\ taken[end] \in Seq(Nat \X Nat) /\ gone \subseteq Coders
      /\ taken \in [Coders -> Seq(Nat \X Nat)]
      /\ coder \in [Coders -> [frameKey : {K}, macKey : {Mk}, encAt : Nat, decAt : Nat,
                               egressMac : Macs, ingressMac : Macs]]
  BY <1>1 DEF CoderTypes
<1>7. withFrame(coder[end], coder[end].ingressMac, io.frame) = mac
  BY <1>1, CoderMakes DEF c
<1>8. rest \in Seq(FrameRecords) /\ <<>> \in Seq(Nat)
  <2> HIDE DEF FrameRecords
  <2> QED BY <1>5, <1>6
<1>9. /\ onWire' = [onWire EXCEPT ![end] = rest] /\ headerRead' = [headerRead EXCEPT ![end] = <<>>]
      /\ UNCHANGED <<wrote, damages>>
  BY DEF AuthAndDecryptFrame
<1> HIDE DEF rest
<1>10. CASE io.frameMac = hash(mac)
  <2>1. PICK number \in Nat :
               /\ io.frame = <<"cipher", K, c.decAt, number>> /\ <<number, size>> \in Nat \X Nat
               /\ Stream(M, A, wrote[w], coder[w].egressMac, coder[w].encAt, rest, end \in gone,
                         Append(taken[end], <<number, size>>), <<>>, mac, at, damages)
    BY <1>5, <1>10
  <2> DEFINE got == Append(taken[end], <<number, size>>)
  <2>2. decrypt(coder[end], io.frame) = number
    BY <1>1, <2>1, CoderMakes DEF c
  <2>3. /\ coder' = [coder EXCEPT ![end].ingressMac = mac, ![end].decAt = at]
        /\ taken' = [taken EXCEPT ![end] = got] /\ gone' = gone
    BY <1>7, <1>10, <2>2 DEF AuthAndDecryptFrame, c
  <2>5. got \in Seq(Nat \X Nat)
    <3> DEFINE pair == <<number, size>>
               Pairs == Nat \X Nat
    <3>1. pair \in Pairs /\ taken[end] \in Seq(Pairs)
      BY <1>6, <2>1
    <3> HIDE DEF pair, Pairs
    <3>2. Append(taken[end], pair) \in Seq(Pairs)
      BY <3>1, AppendProperties
    <3> QED BY <3>2 DEF pair, Pairs
  <2>6. Stream(M, A, wrote[w], coder[w].egressMac, coder[w].encAt, rest, end \in gone', got, <<>>, mac, at, damages)
    BY <2>1, <2>3
  <2>7. gone' \subseteq Coders /\ gone' \ {end} = gone \ {end}
    BY <1>6, <2>3
  <2> HIDE DEF mac, at, got, FrameRecords, Macs
  <2> QED BY <1>5, <1>8, <1>9, <2>3, <2>5, <2>6, <2>7, ReadingKeeps, Zenon DEF w
<1>11. CASE io.frameMac # hash(mac)
  <2>1. Stream(M, A, wrote[w], coder[w].egressMac, coder[w].encAt, rest, TRUE, taken[end], <<>>,
               mac, c.decAt, damages)
    BY <1>5, <1>11
  <2>2. /\ coder' = [coder EXCEPT ![end].ingressMac = mac]
        /\ taken' = taken /\ gone' = gone \union {end}
    BY <1>7, <1>11 DEF AuthAndDecryptFrame
  <2>3. coder' = [coder EXCEPT ![end].ingressMac = mac, ![end].decAt = c.decAt]
    <3> HIDE DEF mac, Macs, K, Mk
    <3> QED BY <1>6, <2>2 DEF c
  <2>4. taken' = [taken EXCEPT ![end] = taken[end]]
    BY <1>6, <2>2
  <2>5. (end \in gone') = TRUE /\ gone' \subseteq Coders /\ gone' \ {end} = gone \ {end}
    BY <1>6, <2>2
  <2>6. Stream(M, A, wrote[w], coder[w].egressMac, coder[w].encAt, rest, end \in gone', taken[end], <<>>,
               mac, c.decAt, damages)
    BY <2>1, <2>5, Zenon
  <2> HIDE DEF mac, FrameRecords, Macs
  <2> QED BY <1>5, <1>6, <1>8, <1>9, <2>3, <2>4, <2>5, <2>6, ReadingKeeps, Zenon DEF w
<1> QED BY <1>10, <1>11

\* What the network damages on the way to one end leaves the other stream.
LEMMA DamageKeeps ==
  ASSUME CoderInv, NEW end \in Coders, NEW i \in 1..Len(onWire[end]),
         NEW part \in {"header", "headerMac", "frame", "frameMac"}, DamageFrame(end, i, part)
  PROVE  CoderInv'
<1> DEFINE wire2 == [onWire[end] EXCEPT ![i][part] = Damaged]
<1>1. /\ onWire \in [Coders -> Seq(FrameRecords)] /\ damages \in Nat /\ CoderTypes
  BY DEF CoderInv, CoderTypes
<1>2. /\ onWire' = [onWire EXCEPT ![end] = wire2] /\ damages' = damages + 1
      /\ UNCHANGED <<coder, wrote, taken, gone, headerRead>>
  BY DEF DamageFrame, Damaged
<1>3. ASSUME NEW e \in Coders
      PROVE  /\ onWire'[e] \in Seq(FrameRecords)
             /\ \E M, A : Stream(M, A, wrote[otherCoder(e)], coder[otherCoder(e)].egressMac, coder[otherCoder(e)].encAt,
                                 onWire'[e], e \in gone, taken[e], headerRead[e], coder[e].ingressMac,
                                 coder[e].decAt, damages + 1)
  <2>1. PICK M, A : Stream(M, A, wrote[otherCoder(e)], coder[otherCoder(e)].egressMac, coder[otherCoder(e)].encAt,
                           onWire[e], e \in gone, taken[e], headerRead[e], coder[e].ingressMac, coder[e].decAt, damages)
    BY DEF CoderInv, Flows
  <2>2. CASE e = end
    <3>1. onWire'[e] = wire2
      BY <1>1, <1>2, <2>2
    <3>2. /\ wire2 \in Seq(FrameRecords)
          /\ Stream(M, A, wrote[otherCoder(e)], coder[otherCoder(e)].egressMac, coder[otherCoder(e)].encAt,
                    wire2, e \in gone, taken[e], headerRead[e], coder[e].ingressMac, coder[e].decAt, damages + 1)
      <4>1. Stream(M, A, wrote[otherCoder(end)], coder[otherCoder(end)].egressMac, coder[otherCoder(end)].encAt,
                   onWire[end], end \in gone, taken[end], headerRead[end], coder[end].ingressMac, coder[end].decAt, damages)
        BY <2>1, <2>2
      <4>2. /\ wire2 \in Seq(FrameRecords)
            /\ Stream(M, A, wrote[otherCoder(end)], coder[otherCoder(end)].egressMac, coder[otherCoder(end)].encAt,
                      wire2, end \in gone, taken[end], headerRead[end], coder[end].ingressMac, coder[end].decAt,
                      damages + 1)
        BY <4>1, StreamDamaged, Zenon
      <4> HIDE DEF wire2
      <4> QED BY <2>2, <4>2
    <3> HIDE DEF wire2
    <3> QED BY <3>1, <3>2
  <2>3. CASE e # end
    <3>1. onWire'[e] = onWire[e]
      BY <1>2, <2>3
    <3> QED BY <1>1, <2>1, <3>1, StreamSpared
  <2> QED BY <2>2, <2>3
<1> HIDE DEF wire2
<1>4. onWire' \in [Coders -> Seq(FrameRecords)]
  <2>1. onWire' = [e \in Coders |-> onWire'[e]]
    BY <1>1, <1>2
  <2> HIDE DEF FrameRecords
  <2> QED BY <1>3, <2>1
<1>5. CoderTypes'
  BY <1>1, <1>2, <1>4 DEF CoderTypes
<1>6. \A e \in Coders : Flows(e)'
  BY <1>2, <1>3 DEF Flows
<1> QED BY <1>5, <1>6 DEF CoderInv

\* Every step of the two ends and of the network between them.
LEMMA CoderStep == CoderInv /\ [FrameCoderNext]_coderVars => CoderInv'
<1> SUFFICES ASSUME CoderInv, [FrameCoderNext]_coderVars
             PROVE  CoderInv'
  OBVIOUS
<1>1. CASE UNCHANGED coderVars
  BY <1>1 DEF coderVars, CoderInv, CoderTypes, Flows
<1>2. CASE FrameCoderNext
  BY <1>2, WriteFrameKeeps, ReadHeaderKeeps, ReadFrameKeeps, DamageKeeps DEF FrameCoderNext
<1> QED BY <1>1, <1>2

\* RLPXFrameCoder: what an end takes is what the other wrote, in its order and
\* with its sizes, whatever the network damages; and where it damages nothing no
\* end refuses a frame.  For any payloads and any cipher block.
THEOREM TakenIsWritten == FrameCoderSpec => []TakenAsWritten
<1>1. CoderInv => TakenAsWritten
  <2> SUFFICES ASSUME CoderInv
               PROVE  TakenAsWritten
    OBVIOUS
  <2>1. ASSUME NEW e \in Coders
        PROVE  IsPrefix(taken[e], wrote[otherCoder(e)]) /\ (e \in gone => damages > 0)
    BY StreamPrefix DEF CoderInv, Flows
  <2>2. gone \subseteq Coders
    BY DEF CoderInv, CoderTypes
  <2> QED BY <2>1, <2>2 DEF TakenAsWritten
<1> QED BY <1>1, CoderInitial, CoderStep, PTL DEF FrameCoderSpec

-----------------------------------------------------------------------------
(* The datagrams of the discovery protocol.                                *)

\* How many neighbours NodeTable::onReceived puts into a datagram.
LEMMA Limit == nlimit \in Nat /\ nlimit >= 1 /\ 90 * nlimit <= maxDatagramSize - 109
<1>1. maxDatagramSize \in Nat /\ maxDatagramSize >= 199
  BY DatagramsAssumption
<1> DEFINE m == maxDatagramSize - 109
<1>2. m \in Nat /\ m >= 90
  BY <1>1
<1> HIDE DEF m
<1>3. m \div 90 \in Nat /\ m \div 90 >= 1 /\ 90 * (m \div 90) <= m
  BY <1>2
<1> QED BY <1>3 DEF nlimit, m

\* With addresses of four bytes what RLPXDatagramFace::sign makes has room.
LEMMA SignedFits ==
  ASSUME addressSize = 4, DatagramTypes, NEW type \in {"PingNode", "Pong", "FindNode", "Neighbours"},
         NEW entries \in SUBSET nearest, type = "Neighbours" => Cardinality(entries) \in 0..nlimit,
         NEW echo \in {"none", "PingNode"}
  PROVE  sign(type, entries, echo) \in Signed
<1>1. maxDatagramSize \in Nat /\ maxDatagramSize >= 199 /\ epoch + lifetime \in Nat
  BY DatagramsAssumption DEF DatagramTypes
<1>2. portSize = 3 /\ tsSize = 5 /\ rlpSize(nodeIDSize) = 66 /\ rlpSize(hashSize) = 33 /\ endpointInline = 11
  BY DEF portSize, tsSize, rlpSize, nodeIDSize, hashSize, endpointInline
<1>3. endpointSize = 12 /\ neighbourSize = 79
  BY <1>2 DEF endpointSize, neighbourSize, rlpSize
<1>4. 98 + rlpOf(type, entries) \in 0..maxDatagramSize
  <2>1. CASE type = "PingNode"
    BY <1>1, <1>2, <1>3, <2>1 DEF rlpOf, rlpSize
  <2>2. CASE type = "Pong"
    BY <1>1, <1>2, <1>3, <2>2 DEF rlpOf, rlpSize
  <2>3. CASE type = "FindNode"
    BY <1>1, <1>2, <1>3, <2>3 DEF rlpOf, rlpSize
  <2>4. CASE type = "Neighbours"
    <3> DEFINE k == Cardinality(entries)
    <3>1. k \in 0..nlimit
      BY <2>4
    <3>2. rlpOf(type, entries) = rlpSize(rlpSize(k * 79) + 5)
      BY <1>2, <1>3, <2>4 DEF rlpOf
    <3> HIDE DEF k
    <3>3. k \in Nat /\ 90 * k <= maxDatagramSize - 109
      BY <1>1, <3>1, Limit
    <3>4. rlpSize(k * 79) \in 0..(79 * k + 3)
      BY <3>3 DEF rlpSize
    <3>5. rlpSize(rlpSize(k * 79) + 5) \in 0..(79 * k + 11)
      BY <3>3, <3>4 DEF rlpSize
    <3> QED BY <1>1, <3>2, <3>3, <3>5
  <2> QED BY <2>1, <2>2, <2>3, <2>4
<1> QED BY <1>1, <1>4 DEF sign, Signed, hashSize, signatureSize

\* A slice of the nodes that were found is among them, and as long as one datagram may be.
LEMMA SliceIsShort ==
  ASSUME DatagramTypes, NEW offset \in Nat
  PROVE  slice(offset) \subseteq nearest /\ Cardinality(slice(offset)) \in 0..nlimit
<1>1. PICK n \in nearestCounts : nearest = 1..n
  BY DEF DatagramTypes
<1>2. n \in Nat /\ nlimit \in Nat
  BY DatagramsAssumption, Limit
<1>3. slice(offset) \in SUBSET ((offset + 1)..(offset + nlimit))
  BY <1>1, <1>2 DEF slice
<1>4. IsFiniteSet((offset + 1)..(offset + nlimit)) /\ Cardinality((offset + 1)..(offset + nlimit)) <= nlimit
  <2> DEFINE a == offset + 1
             b == offset + nlimit
  <2>1. a \in Int /\ b \in Int /\ (a > b \/ b - a + 1 = nlimit)
    BY <1>2
  <2> HIDE DEF a, b
  <2>2. IsFiniteSet(a..b) /\ Cardinality(a..b) = IF a > b THEN 0 ELSE b - a + 1
    BY <2>1, FS_Interval
  <2>3. Cardinality(a..b) <= nlimit
    BY <1>2, <2>1, <2>2
  <2> QED BY <2>2, <2>3 DEF a, b
<1>5. IsFiniteSet(slice(offset)) /\ Cardinality(slice(offset)) <= Cardinality((offset + 1)..(offset + nlimit))
  BY <1>3, <1>4, FS_Subset
<1>6. Cardinality(slice(offset)) \in Nat /\ Cardinality((offset + 1)..(offset + nlimit)) \in Nat
  BY <1>4, <1>5, FS_CardinalityType
<1> QED BY <1>2, <1>4, <1>5, <1>6 DEF slice

\* Induction, as a fact about a set of numbers.
LEMMA EveryNatural ==
  ASSUME NEW S, 0 \in S, \A n \in Nat : n \in S => n + 1 \in S
  PROVE  Nat \subseteq S
<1> SUFFICES ASSUME Nat \ S # {}
             PROVE  FALSE
  OBVIOUS
<1>1. PICK n \in Nat \ S : \A m \in Nat \ S : ~(<<m, n>> \in OpToRel(<, Nat))
  BY NatLessThanWellFounded, WFMin
<1>2. n - 1 \in Nat
  OBVIOUS
<1>3. <<n - 1, n>> \in OpToRel(<, Nat)
  BY <1>2 DEF OpToRel
<1>4. n - 1 \in S
  BY <1>1, <1>2, <1>3
<1> QED BY <1>2, <1>4

\* The next multiple.
LEMMA NextMultiple ==
  ASSUME NEW l \in Nat, l > 0, NEW o \in Nat, o % l = 0
  PROVE  (o + l) % l = 0
<1>1. o = l * (o \div l) + (o % l) /\ o \div l \in Int
  OBVIOUS
<1>2. o + l = l * ((o + l) \div l) + ((o + l) % l) /\ (o + l) \div l \in Int /\ (o + l) % l \in 0..l - 1
  OBVIOUS
<1> DEFINE q == o \div l
           p == (o + l) \div l
           r == (o + l) % l
           s == q + 1 - p
<1> HIDE DEF q, p, r
<1>3. o = l * q /\ o + l = l * p + r /\ q \in Int /\ p \in Int /\ r \in 0..l - 1
  BY <1>1, <1>2 DEF q, p, r
<1>4. r = l * s /\ s \in Int
  BY <1>3
<1> HIDE DEF s
<1>5. CASE s <= 0
  <2>1. l * s <= 0
    BY <1>4, <1>5
  <2> QED BY <1>3, <1>4, <2>1 DEF r
<1>6. CASE s >= 1
  <2>1. l * s >= l
    BY <1>4, <1>6
  <2> QED BY <1>3, <1>4, <2>1
<1> QED BY <1>4, <1>5, <1>6

\* Every node that was found is in a slice of the answer.
LEMMA SlicesCover ==
  ASSUME DatagramTypes, NEW i \in nearest
  PROVE  \E offset \in {o \in 0..Cardinality(nearest) : o % nlimit = 0 /\ o < Cardinality(nearest)} : i \in slice(offset)
<1>1. PICK n \in nearestCounts : nearest = 1..n
  BY DEF DatagramTypes
<1>2. n \in Nat /\ nlimit \in Nat /\ nlimit >= 1
  BY DatagramsAssumption, Limit
<1> HIDE DEF nlimit
<1>3. Cardinality(nearest) = n
  BY <1>1, <1>2, FS_Interval
<1> DEFINE S == {k \in Nat : \E o \in 0..k : o % nlimit = 0 /\ k < o + nlimit}
<1>4. 0 \in S
  <2>1. 0 % nlimit = 0
    BY <1>2
  <2> QED BY <1>2, <2>1
<1>5. ASSUME NEW k \in Nat, k \in S
      PROVE  k + 1 \in S
  <2>1. PICK o \in 0..k : o % nlimit = 0 /\ k < o + nlimit
    BY <1>5
  <2>2. CASE k + 1 < o + nlimit
    BY <1>2, <2>1, <2>2
  <2>3. CASE k + 1 = o + nlimit
    <3>1. (o + nlimit) % nlimit = 0
      <4>1. nlimit \in Nat /\ nlimit > 0 /\ o \in Nat
        BY <1>2, <2>1
      <4>2. o % nlimit = 0
        BY <2>1
      <4> QED BY <4>1, <4>2, NextMultiple, Zenon
    <3> QED BY <1>2, <2>1, <2>3, <3>1
  <2> QED BY <1>2, <2>1, <2>2, <2>3
<1>6. Nat \subseteq S
  <2> HIDE DEF S
  <2> QED BY <1>4, <1>5, EveryNatural
<1>7. i - 1 \in Nat /\ i \in 1..n
  BY <1>1, <1>2
<1>8. PICK o \in 0..(i - 1) : o % nlimit = 0 /\ i - 1 < o + nlimit
  BY <1>6, <1>7
<1>9. i \in slice(o) /\ o \in 0..Cardinality(nearest) /\ o < Cardinality(nearest)
  BY <1>1, <1>2, <1>3, <1>7, <1>8 DEF slice
<1> QED BY <1>8, <1>9

\* What NodeTable::onReceived answers to a request.
LEMMA AnswerOf ==
  ASSUME addressSize = 4, DatagramTypes, NEW d \in Signed, d.type \in {"PingNode", "FindNode"}
  PROVE  /\ answer(d) \subseteq Signed /\ \A r \in answer(d) : r.intact
         /\ d.type = "PingNode" => /\ \A r \in answer(d) : r.type = "Pong" /\ r.echo = "PingNode"
                                   /\ answer(d) # {}
         /\ d.type = "FindNode" => /\ \A r \in answer(d) : r.type = "Neighbours"
                                   /\ \A i \in nearest : \E r \in answer(d) : i \in r.entries
<1>1. CASE d.type = "PingNode"
  <2>1. answer(d) = {sign("Pong", {}, "PingNode")}
    BY <1>1 DEF answer
  <2>2. sign("Pong", {}, "PingNode") \in Signed
    BY SignedFits
  <2>3. /\ sign("Pong", {}, "PingNode").type = "Pong" /\ sign("Pong", {}, "PingNode").echo = "PingNode"
        /\ sign("Pong", {}, "PingNode").intact
    BY DEF sign
  <2> QED BY <1>1, <2>1, <2>2, <2>3
<1>2. CASE d.type = "FindNode"
  <2> DEFINE offsets == {o \in 0..Cardinality(nearest) : o % nlimit = 0 /\ o < Cardinality(nearest)}
  <2>1. answer(d) = {sign("Neighbours", slice(offset), "none") : offset \in offsets}
    BY <1>2 DEF answer
  <2>2. \A i \in nearest : \E offset \in offsets : i \in slice(offset)
    BY SlicesCover
  <2>3. offsets \subseteq Nat
    OBVIOUS
  <2> HIDE DEF offsets
  <2>4. ASSUME NEW offset \in offsets
        PROVE  /\ sign("Neighbours", slice(offset), "none") \in Signed
               /\ sign("Neighbours", slice(offset), "none").intact
               /\ sign("Neighbours", slice(offset), "none").type = "Neighbours"
               /\ sign("Neighbours", slice(offset), "none").entries = slice(offset)
    <3>1. slice(offset) \subseteq nearest /\ Cardinality(slice(offset)) \in 0..nlimit
      BY <2>3, SliceIsShort
    <3>2. sign("Neighbours", slice(offset), "none") \in Signed
      BY <3>1, SignedFits
    <3> QED BY <3>2 DEF sign
  <2> QED BY <1>2, <2>1, <2>2, <2>4
<1> QED BY <1>1, <1>2

\* Nothing was asked yet.
LEMMA DatagramsInitial == DatagramsInit => DatagramsInv
<1> SUFFICES ASSUME DatagramsInit
             PROVE  DatagramsInv
  OBVIOUS
<1>1. /\ epoch = 0 /\ onTheWay = {} /\ asked = {} /\ askedAt = 0 /\ neighbours = {} /\ pongs = {} /\ spoiled = FALSE
      /\ \E n \in nearestCounts : nearest = 1..n
  BY DEF DatagramsInit
<1>2. DatagramTypes
  BY <1>1 DEF DatagramTypes
<1> QED BY <1>1, <1>2 DEF DatagramsInv

\* A datagram that arrives: what it says, or the answer to it, takes its place.
LEMMA ReceiveKeeps ==
  ASSUME addressSize = 4, DatagramsInv, NEW d \in onTheWay, Receive(d)
  PROVE  DatagramsInv'
<1> DEFINE usable == {p \in interpretUDP(d) : ~isExpired(p)}
           requests == {p \in usable : p.type \in {"PingNode", "FindNode"}}
           answers == UNION {answer(p) : p \in requests}
<1>1. PICK twice \in BOOLEAN :
        /\ onTheWay' = (onTheWay \ (IF twice THEN {} ELSE {d})) \union answers
        /\ neighbours' = neighbours \union UNION {p.entries : p \in {u \in usable : u.type = "Neighbours" /\ expected}}
        /\ pongs' = pongs \union {p.echo : p \in {u \in usable : u.type = "Pong"}}
        /\ spoiled' = (spoiled \/ isExpired(d) \/ (d.type = "Neighbours" /\ ~expected))
  BY DEF Receive
<1>2. epoch' = epoch /\ nearest' = nearest /\ asked' = asked /\ askedAt' = askedAt
  BY DEF Receive
<1>3. /\ DatagramTypes /\ d \in Signed
      /\ d.type = "Pong" => d.echo = "PingNode"
      /\ d.type \in {"PingNode", "Pong"} => "PingNode" \in asked
  BY DEF DatagramsInv, DatagramTypes
<1>4. usable \subseteq {d}
  BY DEF interpretUDP
<1>5. ~spoiled' => ~spoiled /\ usable = {d} /\ (d.type = "Neighbours" => expected)
  <2> SUFFICES ASSUME ~spoiled'
               PROVE  ~spoiled /\ usable = {d} /\ (d.type = "Neighbours" => expected)
    OBVIOUS
  <2>1. ~spoiled /\ ~isExpired(d) /\ (d.type = "Neighbours" => expected)
    BY <1>1
  <2>2. d.intact
    BY <2>1 DEF DatagramsInv
  <2>3. d.size <= maxDatagramSize
    BY <1>3, DatagramsAssumption DEF Signed
  <2> QED BY <2>1, <2>2, <2>3 DEF interpretUDP
<1> HIDE DEF usable
<1>6. ASSUME NEW r \in answers
      PROVE  d.type \in {"PingNode", "FindNode"} /\ r \in answer(d)
  BY <1>4
<1>7. ASSUME ~spoiled', d.type \in {"PingNode", "FindNode"}
      PROVE  answers = answer(d)
  <2>1. requests = {d}
    BY <1>5, <1>7
  <2> HIDE DEF requests
  <2> QED BY <2>1
<1> HIDE DEF requests, answers
<1>8. ASSUME NEW r \in answers
      PROVE  /\ r \in Signed /\ r.intact
             /\ r.type = "Pong" => r.echo = "PingNode"
             /\ r.type \in {"PingNode", "Pong"} => "PingNode" \in asked
  <2>1. CASE d.type = "PingNode"
    BY <1>3, <1>6, <1>8, <2>1, AnswerOf
  <2>2. CASE d.type = "FindNode"
    BY <1>3, <1>6, <1>8, <2>2, AnswerOf
  <2> QED BY <1>6, <1>8, <2>1, <2>2
<1>9. neighbours' \subseteq nearest /\ pongs' \subseteq asked \cap {"PingNode"}
  <2>1. d.entries \subseteq nearest
    BY <1>3 DEF Signed
  <2>2. neighbours' \subseteq nearest
    BY <1>1, <1>3, <1>4, <2>1 DEF DatagramTypes
  <2>3. pongs' \subseteq asked \cap {"PingNode"}
    BY <1>1, <1>3, <1>4 DEF DatagramTypes
  <2> QED BY <2>2, <2>3
<1>10. \A e \in onTheWay' : e \in onTheWay \/ e \in answers
  BY <1>1
<1>11. \A e \in onTheWay : e \in onTheWay' \/ e = d
  BY <1>1
<1>12. DatagramTypes'
  <2>1. Signed' = Signed
    BY <1>2 DEF Signed
  <2>2. onTheWay' \subseteq Signed
    BY <1>3, <1>8, <1>10 DEF DatagramTypes
  <2>3. spoiled' \in BOOLEAN /\ epoch' \in Nat
    BY <1>1, <1>2, <1>3 DEF DatagramTypes
  <2>4. \A e \in onTheWay' : /\ e.type = "Pong" => e.echo = "PingNode"
                             /\ e.type \in {"PingNode", "Pong"} => "PingNode" \in asked
    BY <1>3, <1>8, <1>10 DEF DatagramTypes
  <2> QED BY <1>2, <1>3, <1>9, <2>1, <2>2, <2>3, <2>4 DEF DatagramTypes
<1>13. ASSUME ~spoiled'
       PROVE  \A e \in onTheWay' : e.intact
  BY <1>5, <1>8, <1>10, <1>13 DEF DatagramsInv
<1>14. ASSUME ~spoiled', "FindNode" \in asked
       PROVE  FindIsUnderWay'
  <2>1. ~spoiled /\ usable = {d} /\ (d.type = "Neighbours" => expected) /\ FindIsUnderWay
    BY <1>5, <1>14 DEF DatagramsInv
  <2>2. CASE \E e \in onTheWay : e.type = "FindNode" /\ e \in onTheWay'
    BY <2>2 DEF FindIsUnderWay
  <2>3. CASE d.type = "FindNode"
    <3>1. \A i \in nearest : \E r \in answer(d) : r.type = "Neighbours" /\ i \in r.entries
      BY <1>3, <2>3, AnswerOf
    <3>2. answer(d) \subseteq onTheWay'
      BY <1>1, <1>7, <1>14, <2>3
    <3> QED BY <1>2, <3>1, <3>2 DEF FindIsUnderWay
  <2>4. CASE \A i \in nearest : i \in neighbours \/ \E e \in onTheWay : e.type = "Neighbours" /\ i \in e.entries
    <3>1. neighbours \subseteq neighbours' /\ (d.type = "Neighbours" => d.entries \subseteq neighbours')
      BY <1>1, <2>1
    <3>2. \A i \in nearest : i \in neighbours' \/ \E e \in onTheWay' : e.type = "Neighbours" /\ i \in e.entries
      BY <1>11, <2>4, <3>1
    <3> QED BY <1>2, <3>2 DEF FindIsUnderWay
  <2> QED BY <1>11, <2>1, <2>2, <2>3, <2>4 DEF FindIsUnderWay
<1>15. ASSUME ~spoiled', "PingNode" \in asked
       PROVE  PingIsUnderWay'
  <2>1. ~spoiled /\ usable = {d} /\ PingIsUnderWay
    BY <1>5, <1>15 DEF DatagramsInv
  <2>2. CASE \E e \in onTheWay : e.type \in {"PingNode", "Pong"} /\ e \in onTheWay'
    BY <2>2 DEF PingIsUnderWay
  <2>3. CASE d.type = "PingNode"
    <3>1. \E r \in answer(d) : r.type = "Pong"
      BY <1>3, <2>3, AnswerOf
    <3>2. answer(d) \subseteq onTheWay'
      BY <1>1, <1>7, <1>15, <2>3
    <3> QED BY <3>1, <3>2 DEF PingIsUnderWay
  <2>4. CASE d.type = "Pong"
    BY <1>1, <1>3, <2>1, <2>4 DEF PingIsUnderWay
  <2>5. CASE "PingNode" \in pongs
    BY <1>1, <2>5 DEF PingIsUnderWay
  <2> QED BY <1>11, <2>1, <2>2, <2>3, <2>4, <2>5 DEF PingIsUnderWay
<1> QED BY <1>2, <1>12, <1>13, <1>14, <1>15 DEF DatagramsInv

\* A question is asked, a datagram arrives, is lost or damaged, or time passes.
LEMMA DatagramsStep == addressSize = 4 /\ DatagramsInv /\ [DatagramsNext]_datagramVars => DatagramsInv'
<1> SUFFICES ASSUME addressSize = 4, DatagramsInv, [DatagramsNext]_datagramVars
             PROVE  DatagramsInv'
  OBVIOUS
<1>1. ASSUME NEW type \in {"PingNode", "FindNode"}, AskNode(type)
      PROVE  DatagramsInv'
  <2> DEFINE r == sign(type, {}, "none")
  <2>1. /\ asked' = asked \union {type} /\ onTheWay' = onTheWay \union {r} /\ epoch' = epoch /\ nearest' = nearest
        /\ neighbours' = neighbours /\ pongs' = pongs /\ spoiled' = spoiled
        /\ askedAt' \in {epoch, askedAt}
    BY <1>1 DEF AskNode
  <2>2. DatagramTypes /\ r \in Signed
    BY SignedFits DEF DatagramsInv
  <2>3. r.type = type /\ r.intact
    BY DEF sign
  <2> HIDE DEF r
  <2>4. DatagramTypes'
    BY <2>1, <2>2, <2>3 DEF DatagramTypes, Signed
  <2>5. "FindNode" \in asked' /\ ~spoiled => FindIsUnderWay'
    BY <2>1, <2>3 DEF FindIsUnderWay, DatagramsInv
  <2>6. "PingNode" \in asked' /\ ~spoiled => PingIsUnderWay'
    BY <2>1, <2>3 DEF PingIsUnderWay, DatagramsInv
  <2> QED BY <2>1, <2>3, <2>4, <2>5, <2>6 DEF DatagramsInv
<1>2. ASSUME NEW d \in onTheWay, Lose(d)
      PROVE  DatagramsInv'
  BY <1>2 DEF Lose, DatagramsInv, DatagramTypes, Signed
<1>3. ASSUME NEW d \in onTheWay, Damage(d)
      PROVE  DatagramsInv'
  <2> DEFINE e == [d EXCEPT !.intact = FALSE]
  <2>1. /\ onTheWay' = (onTheWay \ {d}) \union {e} /\ spoiled' = TRUE /\ asked' = asked /\ epoch' = epoch
        /\ nearest' = nearest /\ askedAt' = askedAt /\ neighbours' = neighbours /\ pongs' = pongs
    BY <1>3 DEF Damage
  <2>2. d \in Signed
    BY DEF DatagramsInv, DatagramTypes
  <2>3. e \in Signed /\ e.type = d.type /\ e.echo = d.echo
    BY <2>2 DEF Signed
  <2> HIDE DEF e
  <2> QED BY <2>1, <2>3 DEF DatagramsInv, DatagramTypes, Signed
<1>4. CASE Wait
  BY <1>4 DEF Wait, DatagramsInv, DatagramTypes, Signed, FindIsUnderWay, PingIsUnderWay
<1>5. CASE UNCHANGED datagramVars
  BY <1>5 DEF datagramVars, DatagramsInv, DatagramTypes, Signed, FindIsUnderWay, PingIsUnderWay
<1> QED BY <1>1, <1>2, <1>3, <1>4, <1>5, ReceiveKeeps DEF DatagramsNext

(***************************************************************************)
(* However many nodes NodeTable::nearestNodeEntries finds, and whatever the *)
(* size of a datagram, its lifetime and c_reqTimeout: if the network spoils *)
(* nothing and nothing comes too late, an asker with addresses of four      *)
(* bytes learns all of them, and whatever it learns, it was told.           *)
(***************************************************************************)
THEOREM AnswersArrive == addressSize = 4 => (DatagramsSpec => []WholeAnswerArrives)
<1>1. DatagramsInv => WholeAnswerArrives
  BY DEF DatagramsInv, DatagramTypes, WholeAnswerArrives, FindIsUnderWay, PingIsUnderWay
<1>2. addressSize = 4 /\ DatagramsInv /\ [DatagramsNext]_datagramVars => DatagramsInv'
  BY DatagramsStep
<1>3. SUFFICES ASSUME addressSize = 4
               PROVE  DatagramsSpec => []WholeAnswerArrives
  OBVIOUS
<1>4. DatagramsInv /\ [DatagramsNext]_datagramVars => DatagramsInv'
  BY <1>2, <1>3
<1> QED BY <1>1, <1>4, DatagramsInitial, PTL DEF DatagramsSpec

-----------------------------------------------------------------------------
(* Bounded sets of numbers.                                                *)

\* A set of numbers has a least one, ...
LEMMA LeastIs ==
  ASSUME NEW S \in SUBSET Nat, S # {}
  PROVE  Min(S) \in S /\ \A n \in S : Min(S) <= n
<1>1. PICK m \in S : \A n \in S : ~(<<n, m>> \in OpToRel(<, Nat))
  BY NatLessThanWellFounded, WFMin
<1>2. \A n \in S : m <= n
  <2> SUFFICES ASSUME NEW n \in S, n < m
               PROVE  FALSE
    OBVIOUS
  <2>1. <<n, m>> \in OpToRel(<, Nat)
    BY DEF OpToRel
  <2> QED BY <1>1, <2>1
<1> QED BY <1>2 DEF Min

\* ... and one that is bounded a greatest.
LEMMA GreatestIs ==
  ASSUME NEW S \in SUBSET Nat, S # {}, NEW bound \in Nat, \A n \in S : n <= bound
  PROVE  Max(S) \in S /\ \A n \in S : n <= Max(S)
<1> DEFINE T == {d \in Nat : \E n \in S : d = bound - n}
<1>1. T \in SUBSET Nat /\ T # {}
  <2>1. PICK n \in S : TRUE
    OBVIOUS
  <2>2. n \in Nat /\ n <= bound
    OBVIOUS
  <2>3. bound - n \in T
    BY <2>1, <2>2
  <2> QED BY <2>3
<1>2. Min(T) \in T /\ \A d \in T : Min(T) <= d
  BY <1>1, LeastIs
<1>3. PICK m \in S : Min(T) = bound - m
  BY <1>2
<1>4. \A n \in S : n <= m
  <2> SUFFICES ASSUME NEW n \in S
               PROVE  n <= m
    OBVIOUS
  <2>1. bound - n \in T
    OBVIOUS
  <2>2. bound - m <= bound - n
    BY <1>2, <1>3, <2>1
  <2> QED BY <2>2
<1> QED BY <1>4 DEF Max

-----------------------------------------------------------------------------
(* Packets in frames: sizes and sums.                                      *)

\* A division in Nat.
LEMMA Divides ==
  ASSUME NEW x \in Nat, NEW d \in Nat \ {0}
  PROVE  x \div d \in Nat /\ (x \div d) * d <= x /\ x < (x \div d) * d + d
OBVIOUS

\* The product of two numbers is a number.
LEMMA ProductIsNat == \A m, n \in Nat : m * n \in Nat
  OBVIOUS

\* What the assumption says of frames: at least nine blocks, and a share of
\* one at least.
LEMMA BlockIs ==
  /\ c_blockSize \in Nat \ {0} /\ c_overhead = 3 * c_blockSize /\ c_overhead \in Nat
  /\ frameBlocks \in Nat /\ frameBlocks > 8 /\ frameBlocks * c_blockSize \in Nat
  /\ share \in Nat /\ share >= c_blockSize /\ share = (frameBlocks \div 2) * c_blockSize - c_overhead
  /\ SequenceIds \in Nat \ {0}
  /\ \A s \in Sizes : s \in Nat /\ s > 1 /\ s <= (SequenceIds - 1) * share
<1> DEFINE b == c_blockSize
           n == frameBlocks
           h == n \div 2
<1>1. b \in Nat \ {0} /\ c_overhead = 3 * b /\ c_overhead \in Nat /\ MaxFrameSize \in Nat
  BY FrameAssumption
<1>2. n \in Nat
  BY <1>1, Divides DEF frameBlocks
<1>3. (n * b) \div 2 > 4 * b
  BY <1>1, FrameAssumption
<1>4. n * b \in Nat
  BY <1>1, <1>2
<1>5. n * b > 8 * b
  <2> DEFINE y == n * b
  <2> HIDE DEF y
  <2>1. y \in Nat /\ y \div 2 > 4 * b
    BY <1>3, <1>4 DEF y
  <2>2. y > 8 * b
    BY <1>1, <2>1
  <2> QED BY <2>2 DEF y
<1>6. n > 8
  <2> SUFFICES ASSUME n <= 8
               PROVE  FALSE
    BY <1>2
  <2>1. n * b <= 8 * b
    BY <1>1, <1>2
  <2> QED BY <1>1, <1>4, <1>5, <2>1
<1>7. h \in Nat /\ h >= 4
  BY <1>2, <1>6
<1>8. h * b \in Nat /\ h * b >= 4 * b
  BY <1>1, <1>7
<1>9. share = h * b - c_overhead
  BY DEF share
<1>10. share \in Nat /\ share >= b
  <2> HIDE DEF h, n
  <2> DEFINE y == h * b
  <2>1. y \in Nat /\ y >= 4 * b /\ share = y - 3 * b
    BY <1>1, <1>8, <1>9
  <2> HIDE DEF y, b
  <2> QED BY <1>1, <2>1
<1> QED BY <1>1, <1>2, <1>4, <1>6, <1>9, <1>10, FrameAssumption

\* f adds up lengths.
AddsUp(lengths, f) == f = [i \in 0..Len(lengths) |-> IF i = 0 THEN 0 ELSE f[i - 1] + lengths[i]]

\* There is a function that does.
LEMMA AddedUp ==
  ASSUME NEW lengths \in Seq(Nat)
  PROVE  \E f \in [0..Len(lengths) -> Nat] : AddsUp(lengths, f)
<1> DEFINE n == Len(lengths)
           Up(f, k) == \A i \in 0..n : i <= k => f[i] = IF i = 0 THEN 0 ELSE f[i - 1] + lengths[i]
           Good == {k \in Nat : \E f \in [0..n -> Nat] : Up(f, k)}
<1>0. n \in Nat /\ \A i \in 1..n : lengths[i] \in Nat
  OBVIOUS
<1>1. 0 \in Good
  <2> DEFINE f == [i \in 0..n |-> 0]
  <2>1. f \in [0..n -> Nat] /\ Up(f, 0)
    OBVIOUS
  <2> QED BY <2>1
<1>2. ASSUME NEW k \in Good
      PROVE  k + 1 \in Good
  <2>1. PICK f \in [0..n -> Nat] : Up(f, k)
    OBVIOUS
  <2> DEFINE h == [i \in 0..n |-> IF i = k + 1 THEN f[k] + lengths[i] ELSE f[i]]
  <2>2. ASSUME NEW i \in 0..n
        PROVE  (IF i = k + 1 THEN f[k] + lengths[i] ELSE f[i]) \in Nat
    <3>1. f[i] \in Nat
      OBVIOUS
    <3>2. CASE i = k + 1
      <4>1. k \in 0..n /\ lengths[i] \in Nat
        BY <1>0, <3>2
      <4>2. f[k] \in Nat
        BY <4>1
      <4> QED BY <3>2, <4>1, <4>2
    <3> QED BY <3>1, <3>2
  <2>3. h \in [0..n -> Nat]
    BY <2>2
  <2>4. k \in Nat
    OBVIOUS
  <2>5. Up(h, k + 1)
    BY <1>0, <2>1, <2>4
  <2> HIDE DEF Up, h
  <2>6. k + 1 \in Nat
    BY <2>4
  <2> QED BY <2>3, <2>5, <2>6
<1>3. n \in Good
  <2> HIDE DEF Good
  <2>1. Good \in SUBSET Nat
    BY DEF Good
  <2> QED BY <1>0, <1>1, <1>2, <2>1, EveryNatural
<1>4. PICK f \in [0..n -> Nat] : Up(f, n)
  BY <1>3
<1>5. f = [i \in 0..n |-> IF i = 0 THEN 0 ELSE f[i - 1] + lengths[i]]
  BY <1>4
<1> QED BY <1>5 DEF AddsUp

\* What lengthOf is of no length, of one, and of the first of many.
LEMMA LengthIs ==
  ASSUME NEW lengths \in Seq(Nat)
  PROVE  /\ lengthOf(lengths) \in Nat
         /\ Len(lengths) = 0 => lengthOf(lengths) = 0
         /\ Len(lengths) = 1 => lengthOf(lengths) = lengths[1]
<1> DEFINE f == CHOOSE g : AddsUp(lengths, g)
<1>1. lengthOf(lengths) = f[Len(lengths)]
  BY DEF lengthOf, AddsUp
<1>2. AddsUp(lengths, f)
  BY AddedUp
<1>3. \A i \in 0..Len(lengths) : f[i] = IF i = 0 THEN 0 ELSE f[i - 1] + lengths[i]
  <2> HIDE DEF f
  <2> QED BY <1>2 DEF AddsUp
<1> HIDE DEF f
<1>4. f[0] = 0 /\ \A i \in 1..Len(lengths) : f[i] = f[i - 1] + lengths[i]
  BY <1>3
<1> DEFINE Good == {k \in Nat : k <= Len(lengths) => f[k] \in Nat}
<1>5. Len(lengths) \in Good
  <2>1. 0 \in Good
    BY <1>4
  <2>2. ASSUME NEW k \in Good
        PROVE  k + 1 \in Good
    <3> SUFFICES ASSUME k + 1 <= Len(lengths)
                 PROVE  f[k + 1] \in Nat
      OBVIOUS
    <3>1. k + 1 \in 1..Len(lengths) /\ lengths[k + 1] \in Nat /\ f[k] \in Nat
      OBVIOUS
    <3> QED BY <1>4, <3>1
  <2>3. Good \in SUBSET Nat
    OBVIOUS
  <2> HIDE DEF Good
  <2> QED BY <2>1, <2>2, <2>3, EveryNatural
<1> QED BY <1>1, <1>4, <1>5

\* The size of some packets at the head of a queue.
LEMMA SizeIs ==
  ASSUME NEW q \in Seq(packets), NEW k \in 0..Len(q)
  PROVE  /\ sizeOf(q, k) \in Nat /\ sizeOf(q, 0) = 0
         /\ k = 1 => sizeOf(q, k) = q[1].size
<1>1. \A i \in 1..Len(q) : q[i].size \in Nat
  <2>1. \A x \in packets : x.size \in Sizes
    BY DEF packets
  <2> QED BY <2>1, FrameAssumption
<1>2. \A j \in 0..Len(q) : [i \in 1..j |-> q[i].size] \in Seq(Nat) /\ Len([i \in 1..j |-> q[i].size]) = j
  BY <1>1
<1>3. 0 \in 0..Len(q)
  OBVIOUS
<1> DEFINE s == [i \in 1..k |-> q[i].size]
           z == [i \in 1..0 |-> q[i].size]
<1>4. s \in Seq(Nat) /\ Len(s) = k /\ z \in Seq(Nat) /\ Len(z) = 0
  BY <1>2, <1>3
<1>5. k = 1 => s[1] = q[1].size
  OBVIOUS
<1>6. sizeOf(q, k) = lengthOf(s) /\ sizeOf(q, 0) = lengthOf(z)
  BY DEF sizeOf
<1> HIDE DEF s, z
<1> QED BY <1>4, <1>5, <1>6, LengthIs

\* Of the packets at the head of a queue one at least shares a frame in which
\* it has room, and all that do have room.
LEMMA PackedIs ==
  ASSUME NEW q \in Seq(packets), NEW room \in Nat, q # <<>>, Head(q).size <= room, c_blockSize <= room
  PROVE  packed(q, room) \in 1..Len(q) /\ sizeOf(q, packed(q, room)) <= room
<1> DEFINE Fits(k) == \A i \in 1..k : sizeOf(q, i - 1) + c_blockSize <= room /\ sizeOf(q, i) <= room
           S == {k \in 0..Len(q) : Fits(k)}
<1>1. Len(q) \in Nat /\ Len(q) > 0 /\ Head(q) = q[1] /\ 1 \in 0..Len(q)
  OBVIOUS
<1>2. sizeOf(q, 0) = 0 /\ sizeOf(q, 1) = q[1].size
  BY <1>1, SizeIs
<1>3. Fits(1)
  BY <1>1, <1>2, BlockIs
<1>4. 1 \in S
  BY <1>1, <1>3
<1>5. S \in SUBSET Nat /\ S # {} /\ \A k \in S : k <= Len(q)
  BY <1>4
<1>6. packed(q, room) = Max(S)
  BY DEF packed
<1> HIDE DEF S
<1>7. Max(S) \in S /\ 1 <= Max(S)
  BY <1>1, <1>4, <1>5, GreatestIs
<1>8. Max(S) \in 1..Len(q) /\ Fits(Max(S))
  BY <1>7 DEF S
<1> QED BY <1>6, <1>8

\* The blocks of a frame that holds len bytes and has room for n blocks.
LEMMA SizeOfFrame ==
  ASSUME NEW payload, NEW len \in Nat, lengthOf([i \in DOMAIN payload |-> payload[i].len]) = len,
         NEW n \in Nat, len <= n * c_blockSize
  PROVE  \E m \in 0..n : /\ frameSize(payload) = c_overhead + m * c_blockSize
                         /\ len + c_blockSize > n * c_blockSize => m = n
<1> DEFINE b == c_blockSize
           m == (len + b - 1) \div b
<1>1. b \in Nat \ {0}
  BY BlockIs
<1>2. m \in Nat /\ m * b <= len + b - 1 /\ len + b - 1 < m * b + b
  BY <1>1, Divides
<1>3. frameSize(payload) = c_overhead + m * b
  BY DEF frameSize
<1> HIDE DEF m
<1>4. m * b \in Nat /\ n * b \in Nat
  BY <1>1, <1>2
<1>5. m <= n
  <2> SUFFICES ASSUME m >= n + 1
               PROVE  FALSE
    BY <1>2
  <2>1. m * b >= (n + 1) * b /\ (n + 1) * b = n * b + b
    BY <1>1, <1>2
  <2> QED BY <1>1, <1>2, <1>4, <2>1
<1>6. len + b > n * b => m = n
  <2> SUFFICES ASSUME len + b > n * b, m + 1 <= n
               PROVE  FALSE
    BY <1>2, <1>5
  <2>1. n * b >= (m + 1) * b /\ (m + 1) * b = m * b + b
    BY <1>1, <1>2
  <2> QED BY <1>1, <1>2, <1>4, <2>1
<1> QED BY <1>2, <1>3, <1>5, <1>6

\* mux gives half of a frame to each of two queues.
shared == ~muxing.swapQueues /\ (\A p \in Queues : m_q[p].q # <<>>)

\* The room that mux allots: what is left, or half of the frame.
LEMMA RoomIs ==
  ASSUME FrameHasBlocks, muxing.on, muxing.frameLen >= c_overhead + c_blockSize
  PROVE  /\ allot \in Nat /\ allot >= c_blockSize /\ (~muxing.swapQueues => allot >= share)
         /\ \E n \in Nat, d \in Nat :
              /\ n + 3 + d <= frameBlocks
              /\ muxing.frameLen = c_overhead + (n + d) * c_blockSize
              /\ allot <= n * c_blockSize
              /\ ~shared => d = 0 /\ allot = n * c_blockSize
              /\ shared => c_overhead + share <= d * c_blockSize /\ allot >= share
<1> DEFINE b == c_blockSize
<1>1. PICK w \in 0..frameBlocks : /\ muxing.frameLen = w * b
                                  /\ ~muxing.swapQueues => w = frameBlocks
  BY DEF FrameHasBlocks
<1>2. b \in Nat \ {0} /\ c_overhead = 3 * b /\ c_overhead \in Nat /\ frameBlocks \in Nat /\ frameBlocks > 8
  BY BlockIs
<1>3. w \in Nat /\ w * b \in Nat /\ w * b >= 4 * b /\ w <= frameBlocks
  BY <1>1, <1>2
<1>4. w >= 4
  <2> SUFFICES ASSUME w <= 3
               PROVE  FALSE
    BY <1>3
  <2>1. w * b <= 3 * b
    BY <1>2, <1>3
  <2> QED BY <1>2, <1>3, <2>1
<1>5. CASE ~shared
  <2> DEFINE n == w - 3
  <2>1. n \in Nat /\ n >= 1 /\ w = n + 3
    BY <1>3, <1>4
  <2>2. w * b = n * b + 3 * b /\ n * b \in Nat /\ n * b >= b
    <3> HIDE DEF n
    <3> QED BY <1>2, <2>1
  <2>3. allot = muxing.frameLen - c_overhead
    BY <1>5 DEF allot, shared
  <2>4. allot = n * b /\ muxing.frameLen = c_overhead + n * b
    <3> HIDE DEF n
    <3> QED BY <1>1, <1>2, <2>2, <2>3
  <2>5. n + 3 + 0 <= frameBlocks /\ n + 0 = n
    BY <1>3, <2>1
  <2> HIDE DEF n
  <2>6. ~muxing.swapQueues => allot >= share
    <3> SUFFICES ASSUME w = frameBlocks
                 PROVE  allot >= share
      BY <1>1
    <3> DEFINE d == w \div 2
    <3>1. share = d * b - c_overhead
      BY DEF share
    <3>2. d \in Nat /\ d <= w
      BY <1>3
    <3> HIDE DEF d
    <3>3. d * b <= w * b /\ d * b \in Nat
      BY <1>2, <1>3, <3>2
    <3> QED BY <1>1, <1>2, <1>3, <2>3, <3>1, <3>3
  <2> QED BY <1>2, <1>5, <2>1, <2>2, <2>4, <2>5, <2>6
<1>6. CASE shared
  <2> DEFINE d == w \div 2
             n == w - d - 3
             y == w * b
             half == y \div 2
  <2>1. w = frameBlocks
    BY <1>1, <1>6 DEF shared
  <2>2. d \in Nat /\ d >= 4 /\ n \in Nat /\ n >= 1 /\ d <= n + 3 /\ w = n + 3 + d
    BY <1>2, <1>3, <2>1
  <2>3. half > 4 * b
    BY <2>1, FrameAssumption
  <2>4. allot = half - c_overhead
    BY <1>1, <1>2, <1>6, <2>3 DEF allot, shared
  <2>5. share = d * b - c_overhead
    BY <2>1 DEF share
  <2> HIDE DEF d, n
  <2>6. y = n * b + 3 * b + d * b /\ d * b \in Nat /\ n * b \in Nat /\ d * b <= n * b + 3 * b
    <3>1. w * b = n * b + 3 * b + d * b
      BY <1>2, <2>2
    <3>2. d * b <= (n + 3) * b /\ (n + 3) * b = n * b + 3 * b
      BY <1>2, <2>2
    <3> QED BY <1>2, <2>2, <3>1, <3>2
  <2> HIDE DEF y
  <2>7. half \in Nat /\ half <= n * b + 3 * b /\ half >= d * b
    <3> DEFINE u == n * b
               v == d * b
    <3>1. u \in Nat /\ v \in Nat /\ y = u + 3 * b + v /\ v <= u + 3 * b
      BY <2>6
    <3> HIDE DEF u, v
    <3>2. half \in Nat /\ half <= u + 3 * b /\ half >= v
      BY <1>2, <3>1
    <3> QED BY <3>2 DEF u, v
  <2> HIDE DEF half
  <2>8. allot \in Nat /\ allot >= b /\ allot <= n * b /\ allot >= share
    <3> DEFINE u == n * b
               v == d * b
    <3>1. u \in Nat /\ v \in Nat /\ half \in Nat /\ half <= u + 3 * b /\ half >= v /\ share = v - 3 * b
      BY <1>2, <2>5, <2>6, <2>7
    <3> HIDE DEF u, v
    <3>2. allot \in Nat /\ allot >= b /\ allot <= u /\ allot >= share
      BY <1>2, <2>3, <2>4, <3>1
    <3> QED BY <3>2 DEF u
  <2>9. muxing.frameLen = c_overhead + (n + d) * b
    <3>1. (n + d) * b = n * b + d * b
      BY <1>2, <2>2
    <3> QED BY <1>1, <1>2, <2>6, <3>1 DEF y
  <2>10. c_overhead + share <= d * b
    BY <1>2, <2>5, <2>6
  <2> QED BY <1>6, <2>1, <2>2, <2>8, <2>9, <2>10
<1> QED BY <1>5, <1>6

\* What is left of a frame when a frame of len bytes was written.
LEMMA FrameFits ==
  ASSUME FrameHasBlocks, muxing.on, muxing.frameLen >= c_overhead + c_blockSize,
         NEW payload, NEW len \in Nat, lengthOf([i \in DOMAIN payload |-> payload[i].len]) = len, len <= allot
  PROVE  \E left \in 0..frameBlocks :
           /\ muxing.frameLen - frameSize(payload) = left * c_blockSize
           /\ ~shared /\ len = allot => left = 0
           /\ shared => left * c_blockSize >= c_overhead + share
<1> DEFINE b == c_blockSize
<1>1. PICK n \in Nat, d \in Nat :
              /\ n + 3 + d <= frameBlocks
              /\ muxing.frameLen = c_overhead + (n + d) * b
              /\ allot <= n * b
              /\ ~shared => d = 0 /\ allot = n * b
              /\ shared => c_overhead + share <= d * b /\ allot >= share
  BY RoomIs
<1>2. b \in Nat \ {0} /\ c_overhead \in Nat /\ frameBlocks \in Nat /\ allot \in Nat /\ share \in Nat
  <2>1. allot \in Nat
    BY RoomIs
  <2> QED BY <2>1, BlockIs
<1>3. n * b \in Nat /\ len <= n * b
  BY <1>1, <1>2
<1>4. PICK m \in 0..n : /\ frameSize(payload) = c_overhead + m * b
                        /\ len + b > n * b => m = n
  BY <1>3, SizeOfFrame
<1> DEFINE left == n - m + d
<1>5. left \in 0..frameBlocks
  BY <1>1, <1>2, <1>4
<1>6. left * b = (n + d) * b - m * b /\ m * b \in Nat /\ (n + d) * b \in Nat
  BY <1>1, <1>2, <1>4
<1>7. muxing.frameLen - frameSize(payload) = left * b
  <2> HIDE DEF left
  <2> QED BY <1>1, <1>2, <1>4, <1>6
<1>8. ~shared /\ len = allot => left = 0
  <2>1. ~shared /\ len = allot => len + b > n * b
    BY <1>1, <1>2, <1>3
  <2> QED BY <1>1, <1>4, <2>1
<1>9. shared => left * b >= c_overhead + share
  <2>1. left * b >= d * b /\ d * b \in Nat /\ left * b \in Nat
    <3>1. left = (n - m) + d /\ n - m \in Nat
      BY <1>4
    <3>2. left * b = (n - m) * b + d * b /\ (n - m) * b \in Nat /\ d * b \in Nat
      BY <1>2, <3>1
    <3> HIDE DEF left
    <3> QED BY <3>2
  <2> HIDE DEF left
  <2> QED BY <1>1, <1>2, <2>1
<1> HIDE DEF left
<1> QED BY <1>5, <1>7, <1>8, <1>9

-----------------------------------------------------------------------------
(* Framed: where writer and reader are.                                    *)

\* Nobody is anywhere yet.
LEMMA FramingInitially == FramingInit => FramingInv
<1> SUFFICES ASSUME FramingInit
             PROVE  FramingInv
  OBVIOUS
<1> DEFINE nowhere == [k |-> 0, off |-> 0, id |-> 0]
           at == [i \in 0..0 |-> [p \in Queues |-> nowhere]]
<1>1. SequenceIds \in Nat \ {0} /\ frameBlocks \in Nat /\ c_blockSize \in Nat
  BY BlockIs
<1>2. 0 \in 0..(SequenceIds - 1) /\ SequenceIds - 1 \in 0..(SequenceIds - 1)
  BY <1>1
<1>3. FramingTypeOK
  <2>1. [q |-> <<>>, writing |-> FALSE, remaining |-> 0, multiFrame |-> FALSE, sequence |-> SequenceIds - 1]
          \in Writers
    BY <1>2 DEF Writers
  <2>2. m_q \in [Queues -> Writers]
    BY <2>1 DEF FramingInit
  <2>3. Nothing \in [pkt : packets \cup {NoPacket}, remaining : Nat]
    BY DEF Nothing
  <2>4. m_incomplete \in [0..(SequenceIds - 1) -> [pkt : packets \cup {NoPacket}, remaining : Nat]]
    BY <2>3 DEF FramingInit
  <2>5. m_sequenceId \in 0..(SequenceIds - 1) /\ muxing \in [on : BOOLEAN, frameLen : Nat, swapQueues : BOOLEAN]
    BY <1>2 DEF FramingInit
  <2>6. stream \in Seq(Framed) /\ enqued \in [Queues -> Seq(packets)] /\ demuxed \in [Queues -> Seq(packets)]
    BY DEF FramingInit
  <2> QED BY <2>2, <2>4, <2>5, <2>6 DEF FramingTypeOK
<1>4. FrameHasBlocks
  <2>1. 0 \in 0..frameBlocks /\ 0 * c_blockSize = 0
    BY <1>1
  <2> QED BY <2>1 DEF FrameHasBlocks, FramingInit
<1>5. PacketUnderWay /\ SequencesLast
  BY DEF FramingInit, PacketUnderWay, SequencesLast
<1>6. nowhere \in places
  BY <1>2 DEF places
<1>7. stream = <<>> /\ Len(stream) = 0
  BY DEF FramingInit
<1>8. at \in Ways
  BY <1>6, <1>7 DEF Ways
<1>9. at[0] = [p \in Queues |-> nowhere]
  OBVIOUS
<1>10. \A p \in Queues : enqued[p] = <<>> /\ demuxed[p] = <<>> /\ m_q[p].q = <<>> /\ ~m_q[p].writing
  BY DEF FramingInit
<1>11. OnTheWay(at)
  <2>1. \A p \in Queues : at[0][p] = nowhere
    BY <1>9
  <2>2. \A p \in Queues : ReadTo(p, nowhere) /\ WrittenTo(p, nowhere)
    BY <1>10 DEF ReadTo, WrittenTo
  <2>3. Apart(at[0])
    BY <2>1 DEF Apart, Queues
  <2> HIDE DEF at, nowhere
  <2> QED BY <1>7, <2>1, <2>2, <2>3 DEF OnTheWay
<1> HIDE DEF at
<1>12. ~invalid
  BY DEF FramingInit
<1> QED BY <1>3, <1>4, <1>5, <1>8, <1>10, <1>11, <1>12 DEF FramingInv

\* A frame is written: the way goes on to where the writer then is.
LEMMA WayGoesOn ==
  ASSUME FramingTypeOK, NEW at \in Ways, OnTheWay(at), NEW p \in Queues, NEW f \in Framed, NEW b \in places,
         stream' = Append(stream, f), enqued' = enqued, demuxed' = demuxed, m_incomplete' = m_incomplete,
         LeadsTo(f, p, at[Len(stream)][p], b), WrittenTo(p, b)',
         \A r \in Queues \ {p} : m_q'[r] = m_q[r],
         Apart([at[Len(stream)] EXCEPT ![p] = b])
  PROVE  \E a \in Ways' : OnTheWay(a)'
<1>0. PICK n \in Nat : n = Len(stream)
  <2>1. stream \in Seq(Framed)
    BY DEF FramingTypeOK
  <2>2. Len(stream) \in Nat
    BY <2>1
  <2> QED BY <2>2
<1> DEFINE last == [at[n] EXCEPT ![p] = b]
           a == [i \in 0..(n + 1) |-> IF i <= n THEN at[i] ELSE last]
<1>1. n \in Nat /\ Len(stream') = n + 1 /\ stream'[n + 1] = f /\ \A i \in 1..n : stream'[i] = stream[i]
  BY <1>0 DEF FramingTypeOK
<1>2. \A i \in 0..n : at[i] \in [Queues -> places]
  BY <1>0 DEF Ways
<1>3. last \in [Queues -> places] /\ last[p] = b /\ \A r \in Queues \ {p} : last[r] = at[n][r]
  BY <1>1, <1>2
<1>4. a[n + 1] = last /\ \A i \in 0..n : a[i] = at[i]
  BY <1>1
<1> HIDE DEF last
<1>5. a \in [0..(n + 1) -> [Queues -> places]]
  BY <1>1, <1>2, <1>3
<1>6. a \in Ways'
  BY <1>1, <1>5 DEF Ways
<1> HIDE DEF a
<1>7. \A r \in Queues : ReadTo(r, a[0][r])'
  <2>1. \A r \in Queues : ReadTo(r, at[0][r])
    BY DEF OnTheWay
  <2>2. a[0] = at[0]
    BY <1>1, <1>4
  <2> QED BY <2>1, <2>2 DEF ReadTo
<1>8. \A r \in Queues : WrittenTo(r, last[r])'
  <2>1. \A r \in Queues \ {p} : WrittenTo(r, at[n][r])
    BY <1>0 DEF OnTheWay
  <2>2. \A r \in Queues \ {p} : WrittenTo(r, at[n][r])'
    BY <2>1 DEF WrittenTo, sentOf
  <2> QED BY <1>3, <2>2
<1>9. \A i \in 0..(n + 1) : Apart(a[i])
  <2>1. \A i \in 0..n : Apart(at[i])
    BY <1>0 DEF OnTheWay
  <2>2. Apart(last)
    BY <1>0 DEF last
  <2>3. \A i \in 0..(n + 1) : i = n + 1 \/ i \in 0..n
    BY <1>1
  <2> QED BY <1>4, <2>1, <2>2, <2>3
<1>10. ASSUME NEW i \in 1..(n + 1)
       PROVE  \E s \in Queues : /\ LeadsTo(stream[i], s, a[i - 1][s], a[i][s])'
                                /\ \A r \in Queues \ {s} : a[i][r] = a[i - 1][r]
  <2>1. CASE i = n + 1
    <3>1. a[i - 1] = at[n] /\ a[i] = last /\ stream'[i] = f
      BY <1>1, <1>4, <2>1
    <3>2. LeadsTo(f, p, at[n][p], b)'
      BY <1>0 DEF LeadsTo
    <3> QED BY <1>3, <3>1, <3>2
  <2>2. CASE i # n + 1
    <3>1. i \in 1..n /\ i \in 0..n /\ i - 1 \in 0..n
      BY <1>1, <2>2
    <3>2. a[i - 1] = at[i - 1] /\ a[i] = at[i] /\ stream'[i] = stream[i]
      BY <1>1, <1>4, <3>1
    <3>3. PICK s \in Queues : /\ LeadsTo(stream[i], s, at[i - 1][s], at[i][s])
                              /\ \A r \in Queues \ {s} : at[i][r] = at[i - 1][r]
      BY <1>0, <3>1 DEF OnTheWay
    <3>4. LeadsTo(stream[i], s, at[i - 1][s], at[i][s])'
      <4>1. PICK g : g = stream[i]
        OBVIOUS
      <4>2. LeadsTo(g, s, at[i - 1][s], at[i][s])'
        BY <3>3, <4>1 DEF LeadsTo
      <4> QED BY <3>2, <4>1, <4>2
    <3> QED BY <3>2, <3>3, <3>4
  <2> QED BY <2>1, <2>2
<1>11. OnTheWay(a)'
  BY <1>1, <1>4, <1>7, <1>8, <1>9, <1>10 DEF OnTheWay
<1> QED BY <1>6, <1>11

\* A frame is read: the way begins where the reader then is.
LEMMA WayIsGone ==
  ASSUME FramingTypeOK, NEW at \in Ways, OnTheWay(at), stream # <<>>,
         stream' = Tail(stream), enqued' = enqued, m_q' = m_q,
         \A r \in Queues : ReadTo(r, at[1][r])'
  PROVE  \E a \in Ways' : OnTheWay(a)'
<1>0. PICK n \in Nat : n = Len(stream) - 1
  <2>1. Len(stream) \in Nat \ {0}
    BY DEF FramingTypeOK
  <2> QED BY <2>1
<1> DEFINE a == [i \in 0..n |-> at[i + 1]]
<1>1. n \in Nat /\ Len(stream) = n + 1 /\ Len(stream') = n /\ \A i \in 1..n : stream'[i] = stream[i + 1]
  BY <1>0 DEF FramingTypeOK
<1>2. \A i \in 0..(n + 1) : at[i] \in [Queues -> places]
  BY <1>1 DEF Ways
<1>3. \A i \in 0..n : a[i] = at[i + 1]
  OBVIOUS
<1>4. a \in Ways'
  BY <1>1, <1>2 DEF Ways
<1> HIDE DEF a
<1>5. a[0] = at[1] /\ a[n] = at[n + 1]
  BY <1>1, <1>3
<1>6. \A r \in Queues : ReadTo(r, a[0][r])' /\ WrittenTo(r, a[n][r])'
  <2>1. \A r \in Queues : WrittenTo(r, at[n + 1][r])
    BY <1>1 DEF OnTheWay
  <2>2. \A r \in Queues : WrittenTo(r, at[n + 1][r])'
    BY <2>1 DEF WrittenTo, sentOf
  <2> QED BY <1>5, <2>2
<1>7. \A i \in 0..n : Apart(a[i])
  <2>1. \A i \in 0..(n + 1) : Apart(at[i])
    BY <1>1 DEF OnTheWay
  <2>2. \A i \in 0..n : i + 1 \in 0..(n + 1)
    BY <1>1
  <2> QED BY <1>3, <2>1, <2>2
<1>8. ASSUME NEW i \in 1..n
      PROVE  \E s \in Queues : /\ LeadsTo(stream[i], s, a[i - 1][s], a[i][s])'
                               /\ \A r \in Queues \ {s} : a[i][r] = a[i - 1][r]
  <2>1. i + 1 \in 1..(n + 1) /\ (i + 1) - 1 = i /\ i - 1 \in 0..n /\ i \in 0..n /\ (i - 1) + 1 = i
    BY <1>1
  <2>2. a[i - 1] = at[i] /\ a[i] = at[i + 1] /\ stream'[i] = stream[i + 1]
    BY <1>1, <1>3, <2>1
  <2>3. PICK s \in Queues : /\ LeadsTo(stream[i + 1], s, at[i][s], at[i + 1][s])
                            /\ \A r \in Queues \ {s} : at[i + 1][r] = at[i][r]
    BY <1>1, <2>1 DEF OnTheWay
  <2>4. LeadsTo(stream[i], s, at[i][s], at[i + 1][s])'
    BY <2>2, <2>3 DEF LeadsTo
  <2> QED BY <2>2, <2>3, <2>4
<1>9. OnTheWay(a)'
  BY <1>1, <1>6, <1>7, <1>8 DEF OnTheWay
<1> QED BY <1>4, <1>9

\* The frames on their way lead where they led when more packets are queued.
LEMMA LeadsStill ==
  ASSUME NEW s \in Queues, enqued[s] \in Seq(packets), enqued'[s] \in Seq(packets),
         Len(enqued[s]) <= Len(enqued'[s]), \A i \in 1..Len(enqued[s]) : enqued'[s][i] = enqued[s][i],
         NEW f \in Framed, NEW a \in places, NEW b \in places, LeadsTo(f, s, a, b)
  PROVE  LeadsTo(f, s, a, b)'
<1>1. /\ a.k \in Nat /\ b.k \in Nat /\ Len(enqued[s]) \in Nat /\ Len(enqued'[s]) \in Nat
      /\ Len(f.payload) \in Nat /\ DOMAIN f.payload = 1..Len(f.payload)
  <2>1. f.payload \in Seq([pkt : packets, from : Nat, len : Nat])
    BY DEF Framed
  <2> QED BY <2>1 DEF places
<1>2. CASE ~f.multi
  <2>1. \A i \in DOMAIN f.payload : a.k + i \in 1..Len(enqued[s])
    <3>1. b.k = a.k + Len(f.payload) /\ b.k <= Len(enqued[s])
      BY <1>2 DEF LeadsTo
    <3> QED BY <1>1, <3>1
  <2>2. \A i \in DOMAIN f.payload : f.payload[i].pkt = enqued'[s][a.k + i]
    BY <1>2, <2>1 DEF LeadsTo
  <2> QED BY <1>1, <1>2, <2>2 DEF LeadsTo
<1>3. CASE f.multi
  <2>1. a.k < Len(enqued[s])
    BY <1>3 DEF LeadsTo
  <2>2. enqued'[s][a.k + 1] = enqued[s][a.k + 1] /\ a.k < Len(enqued'[s])
    BY <1>1, <2>1
  <2> QED BY <1>3, <2>2 DEF LeadsTo
<1> QED BY <1>2, <1>3

\* A packet is queued.
LEMMA EnqueKeeps ==
  ASSUME FramingInv, NEW p \in Queues, NEW size \in Sizes, enque(p, size)
  PROVE  FramingInv'
<1> DEFINE pkt == [q |-> p, n |-> Len(enqued[p]) + 1, size |-> size]
<1>0. FramingTypeOK
  BY DEF FramingInv
<1>1. pkt \in packets /\ pkt.q = p
  BY <1>0 DEF FramingTypeOK, packets
<1>2. PICK x \in packets : x = pkt /\ x.q = p
  BY <1>1
<1> HIDE DEF pkt
<1>3. /\ m_q' = [m_q EXCEPT ![p].q = Append(@, x)] /\ enqued' = [enqued EXCEPT ![p] = Append(@, x)]
      /\ UNCHANGED <<m_sequenceId, muxing, stream, m_incomplete, demuxed, invalid>>
  BY <1>2 DEF enque, pkt
<1>4. \A r \in Queues : m_q[r] \in Writers /\ m_q[r].q \in Seq(packets) /\ enqued[r] \in Seq(packets)
                        /\ demuxed[r] \in Seq(packets)
  BY <1>0 DEF FramingTypeOK, Writers
<1>5. /\ m_q'[p] = [m_q[p] EXCEPT !.q = Append(@, x)] /\ \A r \in Queues \ {p} : m_q'[r] = m_q[r]
      /\ enqued'[p] = Append(enqued[p], x) /\ \A r \in Queues \ {p} : enqued'[r] = enqued[r]
  BY <1>0, <1>3 DEF FramingTypeOK
<1>6. /\ m_q'[p].q = Append(m_q[p].q, x) /\ m_q'[p].writing = m_q[p].writing
      /\ m_q'[p].remaining = m_q[p].remaining /\ m_q'[p].multiFrame = m_q[p].multiFrame
      /\ m_q'[p].sequence = m_q[p].sequence /\ m_q'[p] \in Writers
  <2>1. Append(m_q[p].q, x) \in Seq(packets)
    BY <1>4
  <2> QED BY <1>4, <1>5, <2>1 DEF Writers
<1>7. FramingTypeOK'
  <2>1. m_q' \in [Queues -> Writers]
    BY <1>0, <1>3, <1>5, <1>6 DEF FramingTypeOK
  <2>2. enqued' \in [Queues -> Seq(packets)]
    BY <1>0, <1>3 DEF FramingTypeOK
  <2> QED BY <1>0, <1>3, <2>1, <2>2 DEF FramingTypeOK
<1>8. FrameHasBlocks'
  BY <1>3 DEF FramingInv, FrameHasBlocks
<1>9. \A r \in Queues : m_q[r].writing => m_q[r].q # <<>> /\ sentOf(r)' = sentOf(r)
  <2> SUFFICES ASSUME NEW r \in Queues, m_q[r].writing
               PROVE  m_q[r].q # <<>> /\ sentOf(r)' = sentOf(r)
    OBVIOUS
  <2>1. m_q[r].q # <<>>
    BY DEF FramingInv, PacketUnderWay
  <2>2. CASE r = p
    <3>1. Head(Append(m_q[p].q, x)) = Head(m_q[p].q)
      BY <1>4, <2>1, <2>2
    <3> QED BY <1>6, <2>1, <2>2, <3>1 DEF sentOf
  <2> QED BY <1>5, <2>1, <2>2 DEF sentOf
<1>10. \A r \in Queues : m_q'[r].writing = m_q[r].writing /\ m_q'[r].remaining = m_q[r].remaining
                         /\ m_q'[r].multiFrame = m_q[r].multiFrame /\ m_q'[r].sequence = m_q[r].sequence
  BY <1>5, <1>6
<1>11. PacketUnderWay'
  <2> SUFFICES ASSUME NEW r \in Queues
               PROVE  /\ m_q'[r].writing <=> m_q'[r].remaining > 0
                      /\ m_q'[r].multiFrame <=> m_q'[r].writing
                      /\ m_q'[r].writing => m_q'[r].q # <<>> /\ sentOf(r)' > 0
    BY DEF PacketUnderWay
  <2>1. m_q[r].q # <<>> => m_q'[r].q # <<>>
    <3>1. Append(m_q[p].q, x) # <<>>
      <4>1. m_q[p].q \in Seq(packets)
        BY <1>4
      <4>2. Len(Append(m_q[p].q, x)) = Len(m_q[p].q) + 1 /\ Len(m_q[p].q) \in Nat
        BY <4>1
      <4> QED BY <4>2
    <3> QED BY <1>5, <1>6, <3>1
  <2> QED BY <1>9, <1>10, <2>1 DEF FramingInv, PacketUnderWay
<1>12. SequencesLast'
  <2> SUFFICES ASSUME NEW r \in Queues, m_q'[r].writing
               PROVE  \E c \in 0..(SequenceIds - 1) : TurnsTaken(r, c)'
    BY DEF SequencesLast
  <2>1. PICK c \in 0..(SequenceIds - 1) : TurnsTaken(r, c)
    BY <1>10 DEF FramingInv, SequencesLast
  <2>2. TurnsTaken(r, c)'
    BY <1>3, <1>9, <1>10, <2>1 DEF TurnsTaken, roomFor
  <2> QED BY <2>2
<1>13. \A r \in Queues : \A i \in DOMAIN enqued'[r] : enqued'[r][i].q = r
  <2>1. \A r \in Queues : \A i \in DOMAIN enqued[r] : enqued[r][i].q = r
    BY DEF FramingInv
  <2>2. enqued[p] \in Seq(packets) /\ \A i \in DOMAIN enqued[p] : enqued[p][i].q = p
    BY <1>4, <2>1
  <2>3. \A i \in DOMAIN Append(enqued[p], x) : Append(enqued[p], x)[i].q = p
    BY <1>2, <2>2
  <2> QED BY <1>5, <2>1, <2>3
<1>14. \A r \in Queues : /\ enqued'[r] \in Seq(packets) /\ Len(enqued[r]) <= Len(enqued'[r])
                         /\ \A i \in 1..Len(enqued[r]) : enqued'[r][i] = enqued[r][i]
  <2>1. Append(enqued[p], x) \in Seq(packets) /\ Len(Append(enqued[p], x)) = Len(enqued[p]) + 1
        /\ \A i \in 1..Len(enqued[p]) : Append(enqued[p], x)[i] = enqued[p][i]
    BY <1>4
  <2>2. \A r \in Queues : enqued[r] \in Seq(packets) /\ Len(enqued[r]) \in Nat
    BY <1>4
  <2>3. \A r \in Queues \ {p} : enqued'[r] = enqued[r]
    BY <1>5
  <2>4. \A r \in Queues \ {p} : Len(enqued[r]) <= Len(enqued[r])
    BY <2>2
  <2>5. /\ enqued'[p] \in Seq(packets) /\ Len(enqued[p]) <= Len(enqued'[p])
        /\ \A i \in 1..Len(enqued[p]) : enqued'[p][i] = enqued[p][i]
    <3>1. enqued'[p] = Append(enqued[p], x)
      BY <1>5
    <3>2. Len(enqued[p]) \in Nat
      BY <2>2
    <3>3. Len(enqued[p]) <= Len(Append(enqued[p], x))
      BY <2>1, <3>2
    <3> QED BY <2>1, <3>1, <3>3
  <2> QED BY <2>2, <2>3, <2>4, <2>5
<1>15. PICK at \in Ways : OnTheWay(at)
  BY DEF FramingInv
<1>16. PICK n \in Nat : n = Len(stream)
  BY <1>0 DEF FramingTypeOK
<1>17. at \in Ways' /\ n = Len(stream')
  BY <1>3, <1>16 DEF Ways
<1>18. \A i \in 0..n : \A r \in Queues : at[i] \in [Queues -> places] /\ at[i][r] \in places /\ at[i][r].k \in Nat
  BY <1>16 DEF Ways, places
<1>19. \A r \in Queues : ReadTo(r, at[0][r])'
  <2> SUFFICES ASSUME NEW r \in Queues
               PROVE  ReadTo(r, at[0][r])'
    OBVIOUS
  <2>1. ReadTo(r, at[0][r])
    BY <1>15 DEF OnTheWay
  <2>2. PICK b \in places : b = at[0][r] /\ b.k \in Nat
    BY <1>16, <1>18
  <2>3. b.k <= Len(enqued[r]) /\ Len(enqued[r]) \in Nat /\ Len(enqued'[r]) \in Nat
    BY <1>4, <1>14, <2>1, <2>2 DEF ReadTo
  <2>4. /\ \A i \in 1..b.k : enqued'[r][i] = enqued[r][i]
        /\ b.k < Len(enqued[r]) => enqued'[r][b.k + 1] = enqued[r][b.k + 1]
    BY <1>14, <2>2, <2>3
  <2>5. ReadTo(r, b)'
    <3>1. demuxed' = demuxed /\ m_incomplete' = m_incomplete
      BY <1>3
    <3>2. /\ b.k = Len(demuxed[r]) /\ b.k <= Len(enqued[r])
          /\ \A i \in 1..b.k : demuxed[r][i] = enqued[r][i]
          /\ b.off > 0 =>
               /\ b.k < Len(enqued[r]) /\ b.off < enqued[r][b.k + 1].size
               /\ m_incomplete[b.id] = [pkt |-> enqued[r][b.k + 1], remaining |-> enqued[r][b.k + 1].size - b.off]
      BY <2>1, <2>2 DEF ReadTo
    <3>3. b.k <= Len(enqued'[r]) /\ (b.k < Len(enqued[r]) => b.k < Len(enqued'[r]))
      BY <1>14, <2>2, <2>3, <3>2
    <3>4. b.off > 0 =>
               /\ b.k < Len(enqued'[r]) /\ b.off < enqued'[r][b.k + 1].size
               /\ m_incomplete'[b.id] = [pkt |-> enqued'[r][b.k + 1], remaining |-> enqued'[r][b.k + 1].size - b.off]
      BY <2>4, <3>1, <3>2, <3>3
    <3>5. \A i \in 1..b.k : demuxed'[r][i] = enqued'[r][i]
      BY <2>4, <3>1, <3>2
    <3> QED BY <3>1, <3>2, <3>3, <3>4, <3>5 DEF ReadTo
  <2> QED BY <2>2, <2>5
<1>20. \A r \in Queues : WrittenTo(r, at[n][r])'
  <2> SUFFICES ASSUME NEW r \in Queues
               PROVE  WrittenTo(r, at[n][r])'
    OBVIOUS
  <2>1. PICK b \in places : b = at[n][r] /\ b.k \in Nat
    BY <1>18
  <2>2. WrittenTo(r, b)
    BY <1>15, <1>16, <2>1 DEF OnTheWay
  <2>3. b.k + Len(m_q'[r].q) = Len(enqued'[r]) /\ \A i \in 1..Len(m_q'[r].q) : m_q'[r].q[i] = enqued'[r][b.k + i]
    <3>1. CASE r # p
      BY <1>5, <2>2, <3>1 DEF WrittenTo
    <3>2. CASE r = p
      <4>1. /\ m_q[p].q \in Seq(packets) /\ enqued[p] \in Seq(packets)
            /\ b.k + Len(m_q[p].q) = Len(enqued[p])
            /\ \A i \in 1..Len(m_q[p].q) : m_q[p].q[i] = enqued[p][b.k + i]
        BY <1>4, <2>2, <3>2 DEF WrittenTo
      <4>2. m_q'[p].q = Append(m_q[p].q, x) /\ enqued'[p] = Append(enqued[p], x)
        BY <1>5, <1>6
      <4>3. /\ Len(m_q[p].q) \in Nat /\ Len(enqued[p]) \in Nat
            /\ Len(m_q'[p].q) = Len(m_q[p].q) + 1 /\ Len(enqued'[p]) = Len(enqued[p]) + 1
            /\ \A i \in 1..Len(m_q[p].q) : m_q'[p].q[i] = m_q[p].q[i]
            /\ m_q'[p].q[Len(m_q[p].q) + 1] = x
            /\ \A i \in 1..Len(enqued[p]) : enqued'[p][i] = enqued[p][i]
            /\ enqued'[p][Len(enqued[p]) + 1] = x
        BY <4>1, <4>2
      <4>4. PICK u \in Nat, v \in Nat, k \in Nat : u = Len(m_q[p].q) /\ v = Len(enqued[p]) /\ k = b.k
        BY <2>1, <4>3
      <4>5. k + u = v
        BY <4>1, <4>4
      <4>6. Len(m_q'[p].q) = u + 1 /\ Len(enqued'[p]) = v + 1
        BY <4>3, <4>4
      <4>7. b.k + Len(m_q'[p].q) = Len(enqued'[p])
        <5>1. k + (u + 1) = v + 1
          BY <4>5
        <5>2. k = b.k
          BY <4>4
        <5> QED BY <5>1, <5>2, <4>6, Zenon
      <4>8. ASSUME NEW i \in 1..(u + 1)
            PROVE  m_q'[p].q[i] = enqued'[p][k + i]
        <5>1. CASE i = u + 1
          <6>1. k + i = v + 1
            BY <4>5, <5>1
          <6> QED BY <4>3, <4>4, <5>1, <6>1
        <5>2. CASE i # u + 1
          <6>1. i \in 1..u /\ k + i \in 1..v
            BY <4>5, <5>2
          <6>2. m_q[p].q[i] = enqued[p][k + i]
            BY <4>1, <4>4, <6>1
          <6> QED BY <4>3, <4>4, <6>1, <6>2
        <5> QED BY <5>1, <5>2
      <4>9. \A i \in 1..Len(m_q'[p].q) : m_q'[p].q[i] = enqued'[p][b.k + i]
        BY <4>4, <4>6, <4>8
      <4> QED BY <3>2, <4>7, <4>9
    <3> QED BY <3>1, <3>2
  <2>4. WrittenTo(r, b)'
    BY <1>9, <1>10, <2>2, <2>3 DEF WrittenTo
  <2> QED BY <2>1, <2>4
<1>21. ASSUME NEW i \in 1..n
       PROVE  \E s \in Queues : /\ LeadsTo(stream[i], s, at[i - 1][s], at[i][s])'
                                /\ \A r \in Queues \ {s} : at[i][r] = at[i - 1][r]
  <2>1. i - 1 \in 0..n /\ i \in 0..n
    OBVIOUS
  <2>2. PICK s \in Queues : /\ LeadsTo(stream[i], s, at[i - 1][s], at[i][s])
                            /\ \A r \in Queues \ {s} : at[i][r] = at[i - 1][r]
    BY <1>15, <1>16 DEF OnTheWay
  <2>3. PICK f \in Framed : f = stream[i]
    BY <1>0, <1>16 DEF FramingTypeOK
  <2>4. at[i - 1][s] \in places /\ at[i][s] \in places
    BY <1>18, <2>1
  <2>5. LeadsTo(f, s, at[i - 1][s], at[i][s])'
    BY <1>4, <1>14, <2>2, <2>3, <2>4, LeadsStill
  <2> QED BY <1>3, <2>2, <2>3, <2>5
<1>22. OnTheWay(at)'
  BY <1>15, <1>16, <1>17, <1>19, <1>20, <1>21 DEF OnTheWay
<1>23. ~invalid'
  BY <1>3 DEF FramingInv
<1> QED BY <1>7, <1>8, <1>11, <1>12, <1>13, <1>17, <1>22, <1>23 DEF FramingInv

\* The way stays while neither writer nor reader moves.
LEMMA WayStays ==
  ASSUME NEW at \in Ways, OnTheWay(at), UNCHANGED <<m_q, stream, m_incomplete, enqued, demuxed>>
  PROVE  (\E a \in Ways : OnTheWay(a))'
<1>1. at \in Ways'
  BY DEF Ways
<1>2. \A p \in Queues : ReadTo(p, at[0][p])' /\ WrittenTo(p, at[Len(stream)][p])'
  BY DEF OnTheWay, ReadTo, WrittenTo, sentOf
<1>3. \A f, p, a, b : LeadsTo(f, p, a, b) => LeadsTo(f, p, a, b)'
  BY DEF LeadsTo
<1>4. \A i \in 1..Len(stream) : \E p \in Queues :
         /\ LeadsTo(stream[i], p, at[i - 1][p], at[i][p])'
         /\ \A r \in Queues \ {p} : at[i][r] = at[i - 1][r]
  <2> SUFFICES ASSUME NEW i \in 1..Len(stream)
               PROVE  \E p \in Queues : /\ LeadsTo(stream[i], p, at[i - 1][p], at[i][p])'
                                        /\ \A r \in Queues \ {p} : at[i][r] = at[i - 1][r]
    OBVIOUS
  <2>1. PICK p \in Queues : /\ LeadsTo(stream[i], p, at[i - 1][p], at[i][p])
                            /\ \A r \in Queues \ {p} : at[i][r] = at[i - 1][r]
    BY DEF OnTheWay
  <2>2. PICK f : f = stream[i] /\ f = stream'[i]
    OBVIOUS
  <2>3. LeadsTo(f, p, at[i - 1][p], at[i][p])'
    BY <1>3, <2>1, <2>2
  <2> QED BY <2>1, <2>2, <2>3
<1>5. OnTheWay(at)'
  BY <1>2, <1>4 DEF OnTheWay
<1> QED BY <1>1, <1>5

\* mux begins.
LEMMA BeginKeeps ==
  ASSUME FramingInv, BeginMux
  PROVE  FramingInv'
<1>1. /\ muxing' = [on |-> TRUE, frameLen |-> frameBlocks * c_blockSize, swapQueues |-> FALSE]
      /\ ~muxing.on /\ UNCHANGED <<m_q, m_sequenceId, stream, m_incomplete, enqued, demuxed, invalid>>
  BY DEF BeginMux
<1>2. frameBlocks \in Nat /\ frameBlocks * c_blockSize \in Nat
  BY BlockIs
<1>3. FramingTypeOK'
  BY <1>1, <1>2 DEF FramingInv, FramingTypeOK
<1>4. FrameHasBlocks'
  BY <1>1, <1>2 DEF FrameHasBlocks
<1>5. PacketUnderWay'
  BY <1>1 DEF FramingInv, PacketUnderWay, sentOf
<1>6. SequencesLast'
  BY <1>1 DEF FramingInv, SequencesLast, TurnsTaken, roomFor, sentOf
<1>7. (\E at \in Ways : OnTheWay(at))'
  BY <1>1, WayStays DEF FramingInv
<1> QED BY <1>1, <1>3, <1>4, <1>5, <1>6, <1>7 DEF FramingInv

\* mux ends: there is no room for a turn.
LEMMA EndKeeps ==
  ASSUME FramingInv, EndMux
  PROVE  FramingInv'
<1>1. /\ muxing' = [on |-> FALSE, frameLen |-> 0, swapQueues |-> FALSE]
      /\ muxing.frameLen < c_overhead + c_blockSize \/ \A p \in Queues : m_q[p].q = <<>>
      /\ UNCHANGED <<m_q, m_sequenceId, stream, m_incomplete, enqued, demuxed, invalid>>
  BY DEF EndMux
<1>2. frameBlocks \in Nat /\ 0 * c_blockSize = 0 /\ c_blockSize \in Nat /\ c_overhead \in Nat /\ share \in Nat
      /\ share >= c_blockSize
  BY BlockIs
<1>3. FramingTypeOK'
  BY <1>1, <1>2 DEF FramingInv, FramingTypeOK
<1>4. FrameHasBlocks'
  BY <1>1, <1>2 DEF FrameHasBlocks
<1>5. PacketUnderWay'
  BY <1>1 DEF FramingInv, PacketUnderWay, sentOf
<1>6. SequencesLast'
  <2> SUFFICES ASSUME NEW p \in Queues, m_q'[p].writing
               PROVE  \E c \in 0..(SequenceIds - 1) : TurnsTaken(p, c)'
    BY DEF SequencesLast
  <2>1. PICK c \in 0..(SequenceIds - 1) : TurnsTaken(p, c)
    BY <1>1 DEF FramingInv, SequencesLast
  <2>2. muxing.frameLen < c_overhead + c_blockSize /\ muxing.frameLen \in Nat
    BY <1>1 DEF FramingInv, PacketUnderWay, FramingTypeOK
  <2>3. ~roomFor(share)
    BY <1>2, <2>2 DEF roomFor
  <2>4. ~muxing'.on /\ sentOf(p)' = sentOf(p)
    BY <1>1 DEF sentOf
  <2>5. TurnsTaken(p, c)'
    BY <1>1, <2>1, <2>3, <2>4 DEF TurnsTaken, roomFor
  <2> QED BY <2>5
<1>7. (\E at \in Ways : OnTheWay(at))'
  BY <1>1, WayStays DEF FramingInv
<1> QED BY <1>1, <1>3, <1>4, <1>5, <1>6, <1>7 DEF FramingInv

\* The reader finds what the frame at its place says.
LEMMA DemuxKeeps ==
  ASSUME FramingInv, Demux
  PROVE  FramingInv'
<1>1. PICK at \in Ways : OnTheWay(at)
  BY DEF FramingInv
<1>2. FramingTypeOK
  BY DEF FramingInv
<1>3. stream # <<>> /\ stream' = Tail(stream) /\ UNCHANGED <<m_q, m_sequenceId, muxing, enqued>>
  BY DEF Demux
<1>4. PICK f \in Framed : f = stream[1] /\ f = Head(stream)
  BY <1>2, <1>3 DEF FramingTypeOK
<1>5. Len(stream) \in Nat \ {0} /\ 1 \in 1..Len(stream) /\ 0 \in 0..Len(stream) /\ 1 \in 0..Len(stream)
  BY <1>2, <1>3 DEF FramingTypeOK
<1>6. PICK p \in Queues : /\ LeadsTo(f, p, at[0][p], at[1][p])
                          /\ \A r \in Queues \ {p} : at[1][r] = at[0][r]
  <2>1. 1 - 1 = 0
    OBVIOUS
  <2> QED BY <1>1, <1>4, <1>5, <2>1 DEF OnTheWay
<1>7. \A r \in Queues : at[0][r] \in places /\ at[1][r] \in places
  BY <1>5 DEF Ways
<1>8. PICK a \in places, b \in places : a = at[0][p] /\ b = at[1][p]
  BY <1>7
<1>9. LeadsTo(f, p, a, b)
  BY <1>6, <1>8
<1>10. \A r \in Queues : ReadTo(r, at[0][r])
  BY <1>1 DEF OnTheWay
<1>11. ReadTo(p, a)
  BY <1>8, <1>10
<1>12. Apart(at[0]) /\ Apart(at[1])
  BY <1>1, <1>5 DEF OnTheWay
<1>13. /\ enqued[p] \in Seq(packets) /\ demuxed[p] \in Seq(packets) /\ demuxed \in [Queues -> Seq(packets)]
       /\ Len(enqued[p]) \in Nat /\ Len(demuxed[p]) \in Nat
       /\ m_incomplete \in [0..(SequenceIds - 1) -> [pkt : packets \cup {NoPacket}, remaining : Nat]]
  BY <1>2 DEF FramingTypeOK
<1>14. /\ f.multi \in BOOLEAN /\ f.sequence \in 0..(SequenceIds - 1) /\ f.total \in Nat
       /\ f.payload \in Seq([pkt : packets, from : Nat, len : Nat])
  BY DEF Framed
<1>25. \A i \in DOMAIN f.payload : f.payload[i] \in [pkt : packets, from : Nat, len : Nat]
  <2>1. PICK R : R = [pkt : packets, from : Nat, len : Nat]
    OBVIOUS
  <2>2. f.payload \in Seq(R)
    BY <1>14, <2>1
  <2>3. \A i \in DOMAIN f.payload : f.payload[i] \in R
    BY <2>2
  <2> QED BY <2>1, <2>3
<1>15. a.k \in Nat /\ a.off \in Nat /\ b.k \in Nat /\ b.off \in Nat /\ a.id \in 0..(SequenceIds - 1)
  BY DEF places
<1>16. Nothing \in [pkt : packets \cup {NoPacket}, remaining : Nat]
  BY DEF Nothing
<1>17. \A s \in packets : s.size \in Nat
  BY FrameAssumption DEF packets
\* what the case has to show, with the reader at its new place
<1>18. SUFFICES /\ ~invalid' /\ demuxed' \in [Queues -> Seq(packets)]
                /\ m_incomplete' \in [0..(SequenceIds - 1) -> [pkt : packets \cup {NoPacket}, remaining : Nat]]
                /\ ReadTo(p, b)'
                /\ \A r \in Queues \ {p} : /\ demuxed'[r] = demuxed[r]
                                           /\ at[0][r].off > 0 => m_incomplete'[at[0][r].id] = m_incomplete[at[0][r].id]
  <2>1. ASSUME NEW r \in Queues \ {p}, demuxed'[r] = demuxed[r],
               at[0][r].off > 0 => m_incomplete'[at[0][r].id] = m_incomplete[at[0][r].id]
        PROVE  ReadTo(r, at[1][r])'
    <3>1. at[1][r] = at[0][r] /\ ReadTo(r, at[0][r])
      BY <1>6, <1>10
    <3> QED BY <1>3, <2>1, <3>1 DEF ReadTo
  <2>2. ASSUME \A r \in Queues : ReadTo(r, at[1][r])'
        PROVE  (\E way \in Ways : OnTheWay(way))'
    BY <1>1, <1>2, <1>3, <2>2, WayIsGone
  <2>3. stream' \in Seq(Framed)
    BY <1>2, <1>3 DEF FramingTypeOK
  <2>4. FramingInv' <=> /\ FramingTypeOK' /\ ~invalid' /\ (\E way \in Ways : OnTheWay(way))'
    BY <1>3 DEF FramingInv, FrameHasBlocks, PacketUnderWay, SequencesLast, TurnsTaken, roomFor, sentOf
  <2>5. SUFFICES ASSUME /\ ~invalid' /\ demuxed' \in [Queues -> Seq(packets)]
                /\ m_incomplete' \in [0..(SequenceIds - 1) -> [pkt : packets \cup {NoPacket}, remaining : Nat]]
                /\ ReadTo(p, b)'
                /\ \A r \in Queues \ {p} : /\ demuxed'[r] = demuxed[r]
                                           /\ at[0][r].off > 0 => m_incomplete'[at[0][r].id] = m_incomplete[at[0][r].id]
                 PROVE  FramingInv'
    OBVIOUS
  <2>6. FramingTypeOK'
    BY <1>2, <1>3, <2>3, <2>5 DEF FramingTypeOK
  <2>7. \A r \in Queues : ReadTo(r, at[1][r])'
    BY <1>8, <2>1, <2>5
  <2> QED BY <2>2, <2>4, <2>5, <2>6, <2>7
\* whole packets
<1>19. CASE ~f.multi
  <2>1. /\ f.payload # <<>> /\ a.off = 0 /\ b.off = 0 /\ b.k = a.k + Len(f.payload) /\ b.k <= Len(enqued[p])
        /\ \A i \in DOMAIN f.payload : f.payload[i].pkt = enqued[p][a.k + i]
    BY <1>9, <1>19 DEF LeadsTo
  <2> DEFINE n == Len(f.payload)
             pkts == [i \in DOMAIN f.payload |-> f.payload[i].pkt]
  <2>2. n \in Nat /\ n > 0 /\ DOMAIN f.payload = 1..n
    BY <1>14, <2>1
  <2>3. \A i \in 1..n : a.k + i \in 1..Len(enqued[p]) /\ f.payload[i].pkt = enqued[p][a.k + i]
    <3>1. a.k + n <= Len(enqued[p])
      BY <2>1
    <3> HIDE DEF n
    <3>2. \A i \in 1..n : a.k + i \in 1..Len(enqued[p])
      BY <1>13, <1>15, <2>2, <3>1
    <3> QED BY <2>1, <2>2, <3>2
  <2>4. pkts \in Seq(packets) /\ Len(pkts) = n /\ \A i \in 1..n : pkts[i] = enqued[p][a.k + i]
    <3>1. \A i \in 1..n : f.payload[i].pkt \in packets
      <4>1. \A i \in 1..n : f.payload[i] \in [pkt : packets, from : Nat, len : Nat]
        BY <1>25, <2>2
      <4> QED BY <4>1
    <3> QED BY <2>2, <2>3, <3>1
  <2>5. pkts # <<>> /\ pkts[1].q = p
    <3>1. 1 \in 1..n
      BY <2>2
    <3>2. enqued[p][a.k + 1].q = p
      BY <1>13, <2>3, <3>1 DEF FramingInv
    <3> QED BY <2>2, <2>4, <3>1, <3>2
  <2>6. deliver(pkts) /\ UNCHANGED <<m_incomplete, invalid>>
    <3>1. ~continues(Head(stream))
      BY <1>4, <1>19 DEF continues
    <3>2. NewPackets(f)
      BY <1>4, <3>1 DEF Demux
    <3> QED BY <1>19, <3>2 DEF NewPackets
  <2> HIDE DEF pkts
  <2>7. demuxed' = [r \in Queues |-> IF r = p THEN demuxed[r] \o pkts ELSE demuxed[r]]
    BY <2>5, <2>6 DEF deliver
  <2>8. demuxed[p] \o pkts \in Seq(packets)
    BY <1>13, <2>4
  <2>9. demuxed'[p] = demuxed[p] \o pkts /\ demuxed' \in [Queues -> Seq(packets)]
        /\ \A r \in Queues \ {p} : demuxed'[r] = demuxed[r]
    BY <1>13, <2>7, <2>8
  <2>10. ReadTo(p, b)'
    <3>1. a.k = Len(demuxed[p]) /\ \A i \in 1..a.k : demuxed[p][i] = enqued[p][i]
      BY <1>11 DEF ReadTo
    <3>2. Len(demuxed'[p]) = b.k
      <4>1. Len(demuxed[p] \o pkts) = Len(demuxed[p]) + Len(pkts)
        <5>1. demuxed[p] \in Seq(packets) /\ pkts \in Seq(packets)
          BY <1>13, <2>4
        <5> QED BY <5>1
      <4> QED BY <2>1, <2>4, <2>9, <3>1, <4>1
    <3>3. ASSUME NEW i \in 1..b.k
          PROVE  demuxed'[p][i] = enqued[p][i]
      <4>1. CASE i <= a.k
        <5>1. i \in 1..a.k
          BY <1>15, <4>1
        <5> QED BY <1>13, <2>4, <2>9, <3>1, <5>1
      <4>2. CASE i > a.k
        <5>1. i - a.k \in 1..n /\ a.k + (i - a.k) = i
          BY <1>15, <2>1, <2>2, <4>2
        <5>2. demuxed'[p][i] = pkts[i - Len(demuxed[p])]
          BY <1>13, <1>15, <2>1, <2>2, <2>4, <2>9, <3>1, <4>2
        <5> QED BY <2>4, <3>1, <5>1, <5>2
      <4> QED BY <1>15, <4>1, <4>2
    <3> QED BY <1>3, <2>1, <3>2, <3>3 DEF ReadTo
  <2>11. ~invalid' /\ m_incomplete' = m_incomplete
    BY <2>6 DEF FramingInv
  <2> QED BY <1>13, <2>9, <2>10, <2>11
<1> DEFINE x == f.payload[1]
           pkt == enqued[p][a.k + 1]
<1>20. f.multi => /\ a.k < Len(enqued[p]) /\ x.len > 0 /\ x = piece(pkt, a.off, x.len)
                  /\ \/ a.off = 0 /\ f.total = pkt.size /\ x.len < pkt.size
                     \/ a.off > 0 /\ f.total = 0 /\ f.sequence = a.id /\ a.off + x.len <= pkt.size
                  /\ IF a.off + x.len = pkt.size THEN b.k = a.k + 1 /\ b.off = 0
                     ELSE b = [k |-> a.k, off |-> a.off + x.len, id |-> f.sequence]
  BY <1>9 DEF LeadsTo
<1>21. f.multi => /\ pkt \in packets /\ pkt.q = p /\ pkt.size \in Nat /\ x.pkt = pkt /\ x.from = a.off
                  /\ x.len \in Nat
  <2> SUFFICES ASSUME f.multi
               PROVE  /\ pkt \in packets /\ pkt.q = p /\ pkt.size \in Nat /\ x.pkt = pkt /\ x.from = a.off
                      /\ x.len \in Nat
    OBVIOUS
  <2>1. a.k + 1 \in 1..Len(enqued[p])
    BY <1>13, <1>15, <1>20
  <2>2. pkt \in packets
    BY <1>13, <2>1
  <2>3. pkt.q = p
    BY <1>13, <2>1 DEF FramingInv
  <2>4. x.pkt = pkt /\ x.from = a.off
    BY <1>20 DEF piece
  <2>5. x.len \in Nat
    <3>1. f.payload # <<>>
      BY <1>9 DEF LeadsTo
    <3>2. 1 \in DOMAIN f.payload
      BY <1>14, <3>1
    <3>3. x \in [pkt : packets, from : Nat, len : Nat]
      BY <1>25, <3>2
    <3> QED BY <3>3
  <2> QED BY <1>17, <2>2, <2>3, <2>4, <2>5
<1> HIDE DEF x, pkt
<1>22. \A r \in Queues \ {p} : at[0][r] \in places /\ at[0][r].id \in 0..(SequenceIds - 1)
  BY <1>7 DEF places
\* the first frame of a packet
<1>23. CASE f.multi /\ a.off = 0
  <2>0. pkt \in packets /\ pkt.q = p /\ pkt.size \in Nat /\ x.pkt = pkt /\ x.from = a.off /\ x.len \in Nat
    BY <1>21, <1>23
  <2>1. f.total = pkt.size /\ x.len > 0 /\ x.len < pkt.size /\ x.from = 0 /\ x.pkt = pkt
    BY <1>20, <2>0, <1>23
  <2>2. b.k = a.k /\ b.off = x.len /\ b.id = f.sequence
    <3>1. a.off + x.len # pkt.size
      BY <2>0, <1>23, <2>1
    <3>2. b = [k |-> a.k, off |-> a.off + x.len, id |-> f.sequence]
      BY <1>20, <1>23, <3>1
    <3> QED BY <2>0, <1>23, <3>2
  <2>3. ~continues(f)
    BY <2>0, <2>1 DEF continues
  <2>4. NewPackets(f)
    BY <1>4, <2>3 DEF Demux
  <2> DEFINE rest == [pkt |-> pkt, remaining |-> pkt.size - x.len]
  <2>5. rest \in [pkt : packets \cup {NoPacket}, remaining : Nat]
    BY <2>0, <2>1
  <2>6. m_incomplete' = [m_incomplete EXCEPT ![f.sequence] = rest] /\ UNCHANGED <<demuxed, invalid>>
    <3>1. f.total > x.len /\ f.total - x.len # 0
      BY <2>0, <2>1
    <3> QED BY <1>23, <2>1, <2>4, <3>1 DEF NewPackets, x
  <2> HIDE DEF rest
  <2>7. m_incomplete' \in [0..(SequenceIds - 1) -> [pkt : packets \cup {NoPacket}, remaining : Nat]]
        /\ m_incomplete'[f.sequence] = rest
        /\ \A s \in 0..(SequenceIds - 1) : s # f.sequence => m_incomplete'[s] = m_incomplete[s]
    BY <1>13, <1>14, <2>5, <2>6
  <2>8. ReadTo(p, b)'
    <3>1. a.k = Len(demuxed[p]) /\ a.k < Len(enqued[p]) /\ \A i \in 1..a.k : demuxed[p][i] = enqued[p][i]
      BY <1>11, <1>20, <1>23 DEF ReadTo
    <3>2. /\ b.k < Len(enqued[p]) /\ b.off < enqued[p][b.k + 1].size
          /\ m_incomplete'[b.id] = [pkt |-> enqued[p][b.k + 1], remaining |-> enqued[p][b.k + 1].size - b.off]
      BY <2>1, <2>2, <2>7, <3>1 DEF pkt, rest
    <3> QED BY <1>3, <1>13, <1>15, <2>2, <2>6, <3>1, <3>2 DEF ReadTo
  <2>9. ASSUME NEW r \in Queues \ {p}, at[0][r].off > 0
        PROVE  m_incomplete'[at[0][r].id] = m_incomplete[at[0][r].id]
    <3>1. at[1][r] = at[0][r] /\ at[1][p] = b
      BY <1>6, <1>8
    <3>2. at[0][r].id # f.sequence
      BY <1>12, <2>1, <2>2, <2>9, <3>1 DEF Apart, Queues
    <3> QED BY <1>22, <2>7, <3>2
  <2> QED BY <1>13, <2>6, <2>7, <2>8, <2>9 DEF FramingInv
\* another frame of it
<1>24. CASE f.multi /\ a.off > 0
  <2>0. pkt \in packets /\ pkt.q = p /\ pkt.size \in Nat /\ x.pkt = pkt /\ x.from = a.off /\ x.len \in Nat
    BY <1>21, <1>24
  <2>1. f.total = 0 /\ f.sequence = a.id /\ x.len > 0 /\ a.off + x.len <= pkt.size /\ x.from = a.off /\ x.pkt = pkt
    BY <1>20, <2>0, <1>24
  <2>2. m_incomplete[f.sequence] = [pkt |-> pkt, remaining |-> pkt.size - a.off] /\ a.off < pkt.size
    BY <1>11, <1>24, <2>1 DEF ReadTo, pkt
  <2>3. continues(f)
    BY <1>15, <2>0, <1>24, <2>1, <2>2 DEF continues, x
  <2>4. ContinuePacket(f)
    BY <1>4, <2>3 DEF Demux
  <2> DEFINE left == pkt.size - a.off
             rest == IF x.len = left THEN Nothing ELSE [pkt |-> pkt, remaining |-> left - x.len]
             out == IF x.len = left THEN <<pkt>> ELSE <<>>
  <2>5. left \in Nat /\ x.len <= left /\ rest \in [pkt : packets \cup {NoPacket}, remaining : Nat]
    <3>1. left \in Nat /\ x.len <= left
      BY <1>15, <2>0, <2>1, <2>2
    <3> HIDE DEF left
    <3>2. x.len # left => left - x.len \in Nat
      BY <2>0, <3>1
    <3> QED BY <1>16, <2>0, <3>1, <3>2
  <2>6. m_incomplete' = [m_incomplete EXCEPT ![f.sequence] = rest] /\ deliver(out) /\ UNCHANGED invalid
    <3>1. pkt.size - (pkt.size - a.off) = a.off
      BY <1>15, <2>0
    <3>2. [m_incomplete[f.sequence] EXCEPT !.remaining = @ - x.len] = [pkt |-> pkt, remaining |-> left - x.len]
      BY <2>2
    <3>3. x.pkt = m_incomplete[f.sequence].pkt
          /\ x.from = m_incomplete[f.sequence].pkt.size - m_incomplete[f.sequence].remaining
      BY <2>1, <2>2, <3>1
    <3>4. /\ m_incomplete' = [m_incomplete EXCEPT ![f.sequence] =
                IF x.len = m_incomplete[f.sequence].remaining THEN Nothing
                ELSE [m_incomplete[f.sequence] EXCEPT !.remaining = @ - x.len]]
          /\ deliver(IF x.len = m_incomplete[f.sequence].remaining THEN <<m_incomplete[f.sequence].pkt>> ELSE <<>>)
          /\ UNCHANGED invalid
      BY <2>4, <3>3 DEF ContinuePacket, x
    <3>5. m_incomplete[f.sequence].remaining = left /\ m_incomplete[f.sequence].pkt = pkt
      BY <2>2
    <3>6. rest = IF x.len = m_incomplete[f.sequence].remaining THEN Nothing
                 ELSE [m_incomplete[f.sequence] EXCEPT !.remaining = @ - x.len]
      BY <3>2, <3>5
    <3>7. out = IF x.len = m_incomplete[f.sequence].remaining THEN <<m_incomplete[f.sequence].pkt>> ELSE <<>>
      BY <3>5
    <3> HIDE DEF rest, out, left
    <3>8. m_incomplete' = [m_incomplete EXCEPT ![f.sequence] = rest]
      BY <3>4, <3>6
    <3>9. deliver(out)
      BY <3>4, <3>7
    <3> QED BY <3>4, <3>8, <3>9
  <2>7. m_incomplete' \in [0..(SequenceIds - 1) -> [pkt : packets \cup {NoPacket}, remaining : Nat]]
        /\ m_incomplete'[f.sequence] = rest
        /\ \A s \in 0..(SequenceIds - 1) : s # f.sequence => m_incomplete'[s] = m_incomplete[s]
    <3> HIDE DEF rest
    <3> QED BY <1>13, <1>14, <2>5, <2>6
  <2>8. ASSUME NEW r \in Queues \ {p}, at[0][r].off > 0
        PROVE  m_incomplete'[at[0][r].id] = m_incomplete[at[0][r].id]
    <3>1. at[0][r].id # f.sequence
      BY <1>8, <1>12, <1>24, <2>1, <2>8 DEF Apart, Queues
    <3> HIDE DEF rest
    <3> QED BY <1>22, <2>7, <3>1
  <2>9. a.k = Len(demuxed[p]) /\ a.k < Len(enqued[p]) /\ \A i \in 1..a.k : demuxed[p][i] = enqued[p][i]
    BY <1>11, <1>20, <1>24 DEF ReadTo
  <2>10. CASE x.len = left
    <3>1. b.k = a.k + 1 /\ b.off = 0
      <4>1. a.off + x.len = pkt.size
        BY <1>15, <2>0, <2>10
      <4> QED BY <1>20, <1>24, <4>1
    <3>2. out = <<pkt>> /\ out # <<>> /\ out[1].q = p
      BY <2>0, <2>10
    <3>3. demuxed' = [r \in Queues |-> IF r = p THEN demuxed[r] \o <<pkt>> ELSE demuxed[r]]
      BY <2>6, <3>2 DEF deliver
    <3>4. demuxed[p] \o <<pkt>> = Append(demuxed[p], pkt) /\ Append(demuxed[p], pkt) \in Seq(packets)
      BY <1>13, <2>0
    <3>5. demuxed'[p] = Append(demuxed[p], pkt) /\ demuxed' \in [Queues -> Seq(packets)]
          /\ \A r \in Queues \ {p} : demuxed'[r] = demuxed[r]
      BY <1>13, <3>3, <3>4
    <3>6. ReadTo(p, b)'
      <4>1. Len(demuxed'[p]) = b.k /\ b.k <= Len(enqued[p])
        BY <1>13, <1>15, <2>0, <2>9, <3>1, <3>5
      <4>2. ASSUME NEW i \in 1..b.k
            PROVE  demuxed'[p][i] = enqued[p][i]
        <5>1. CASE i = a.k + 1
          BY <1>13, <2>0, <2>9, <3>5, <5>1 DEF pkt
        <5>2. CASE i # a.k + 1
          <6>1. i \in 1..a.k
            BY <1>15, <3>1, <5>2
          <6> QED BY <1>13, <2>0, <2>9, <3>5, <6>1
        <5> QED BY <5>1, <5>2
      <4> QED BY <1>3, <3>1, <4>1, <4>2 DEF ReadTo
    <3>7. ~invalid'
      BY <2>6 DEF FramingInv
    <3> HIDE DEF rest, out
    <3> QED BY <2>7, <2>8, <3>5, <3>6, <3>7
  <2>11. CASE x.len # left
    <3>1. b.k = a.k /\ b.off = a.off + x.len /\ b.id = f.sequence
      <4>1. a.off + x.len # pkt.size
        BY <1>15, <2>0, <2>11
      <4>2. b = [k |-> a.k, off |-> a.off + x.len, id |-> f.sequence]
        BY <1>20, <1>24, <4>1
      <4> QED BY <4>2
    <3>2. demuxed' = [r \in Queues |-> demuxed[r]]
      BY <2>6, <2>11 DEF deliver
    <3>3. demuxed' = demuxed
      BY <1>13, <3>2
    <3>4. ReadTo(p, b)'
      <4>1. a.off + x.len < pkt.size /\ left - x.len = pkt.size - (a.off + x.len)
        BY <1>15, <2>0, <2>1, <2>11
      <4>2. m_incomplete'[b.id] = [pkt |-> pkt, remaining |-> pkt.size - b.off]
        BY <2>7, <2>11, <3>1, <4>1
      <4> QED BY <1>3, <2>9, <3>1, <3>3, <4>1, <4>2 DEF ReadTo, pkt
    <3>5. ~invalid'
      BY <2>6 DEF FramingInv
    <3> HIDE DEF rest, out
    <3> QED BY <1>13, <2>7, <2>8, <3>3, <3>4, <3>5
  <2> QED BY <2>10, <2>11
<1> QED BY <1>15, <1>19, <1>23, <1>24

-----------------------------------------------------------------------------
(* Framed: what mux writes.                                                *)

\* The state of the writer of queue p, in a frame that mux may write.
Turn(p) == /\ muxing.on /\ muxing.frameLen >= c_overhead + c_blockSize
           /\ m_q[p].q # <<>> /\ p = IF high THEN "high" ELSE "low"

\* Of a packet under way something is sent, not all, and less than all shares
\* that have an id.
LEMMA SentIs ==
  ASSUME FramingInv, NEW p \in Queues, m_q[p].writing
  PROVE  /\ m_q[p].q # <<>> /\ Head(m_q[p].q) = m_q[p].q[1] /\ Head(m_q[p].q) \in packets
         /\ Head(m_q[p].q).size \in Nat /\ m_q[p].remaining \in Nat /\ m_q[p].remaining > 0
         /\ sentOf(p) \in Nat /\ sentOf(p) > 0 /\ sentOf(p) = Head(m_q[p].q).size - m_q[p].remaining
         /\ sentOf(p) < (SequenceIds - 1) * share
<1>1. m_q[p].q \in Seq(packets) /\ m_q[p].remaining \in Nat
  BY DEF FramingInv, FramingTypeOK, Writers
<1>2. m_q[p].q # <<>> /\ m_q[p].remaining > 0 /\ sentOf(p) > 0
  BY DEF FramingInv, PacketUnderWay
<1>3. Head(m_q[p].q) = m_q[p].q[1] /\ Head(m_q[p].q) \in packets
  BY <1>1, <1>2
<1>4. Head(m_q[p].q).size \in Sizes
  BY <1>3 DEF packets
<1>5. Head(m_q[p].q).size \in Nat /\ Head(m_q[p].q).size <= (SequenceIds - 1) * share
  BY <1>4, BlockIs
<1>6. SequenceIds - 1 \in Nat /\ share \in Nat
  BY BlockIs
<1> DEFINE limit == (SequenceIds - 1) * share
<1>7. limit \in Nat
  BY <1>6
<1> HIDE DEF limit
<1>8. sentOf(p) \in Nat /\ sentOf(p) < limit
  BY <1>1, <1>2, <1>5, <1>7 DEF sentOf, limit
<1> QED BY <1>1, <1>2, <1>3, <1>5, <1>8 DEF sentOf, limit

\* c shares and a block have been sent of a packet under way: c is less than
\* the number of sequence ids by two at least.
LEMMA SharesLeft ==
  ASSUME FramingInv, NEW p \in Queues, m_q[p].writing, NEW c \in Nat, c * share + c_blockSize <= sentOf(p)
  PROVE  c + 1 \in 0..(SequenceIds - 1)
<1>1. share \in Nat /\ share > 0 /\ SequenceIds - 1 \in Nat /\ c_blockSize \in Nat
  BY BlockIs
<1>2. sentOf(p) \in Nat /\ sentOf(p) < (SequenceIds - 1) * share
  BY SentIs
<1> DEFINE l == SequenceIds - 1
           y == c * share
           z == l * share
<1>3. y \in Nat /\ z \in Nat /\ l \in Nat
  BY <1>1
<1>4. y < z
  <2> HIDE DEF y, z
  <2>1. y + c_blockSize <= sentOf(p) /\ sentOf(p) < z
    BY <1>2 DEF y, z
  <2> QED BY <1>1, <1>2, <1>3, <2>1
<1>5. c < l
  <2> SUFFICES ASSUME c >= l
               PROVE  FALSE
    BY <1>3
  <2>1. c * share >= l * share
    BY <1>1, <1>3
  <2> HIDE DEF l
  <2> QED BY <1>3, <1>4, <2>1
<1> QED BY <1>1, <1>5

\* A packet of the other queue that is under way has had all its shares; when
\* a frame of queue p is written it goes first in the next one, or next in
\* this one if it waits for its share.
LEMMA OtherWaits ==
  ASSUME FramingInv, NEW p \in Queues, Turn(p), NEW r \in Queues \ {p}, m_q[r].writing,
         NEW payload, NEW len \in Nat, lengthOf([i \in DOMAIN payload |-> payload[i].len]) = len, len <= allot,
         muxing' = [muxing EXCEPT !.swapQueues = TRUE, !.frameLen = @ - frameSize(payload)]
  PROVE  /\ \E c \in 0..(SequenceIds - 1) : TurnsTaken(r, c) /\ c * share + c_blockSize <= sentOf(r)
         /\ r = "low" => roomFor(share)'
         /\ r = "high" /\ len = allot => ~roomFor(c_blockSize)'
<1>1. PICK c \in 0..(SequenceIds - 1) : TurnsTaken(r, c)
  BY DEF FramingInv, SequencesLast
<1>2. m_q[r].q # <<>> /\ m_q[p].q # <<>>
  BY SentIs DEF Turn
<1>3. muxing.on /\ muxing.frameLen >= c_overhead + c_blockSize /\ FrameHasBlocks
  BY DEF Turn, FramingInv
<1>4. PICK left \in 0..frameBlocks :
           /\ muxing.frameLen - frameSize(payload) = left * c_blockSize
           /\ ~shared /\ len = allot => left = 0
           /\ shared => left * c_blockSize >= c_overhead + share
  BY <1>3, FrameFits
<1>5. muxing \in [on : BOOLEAN, frameLen : Nat, swapQueues : BOOLEAN]
  BY DEF FramingInv, FramingTypeOK
<1>6. muxing'.on /\ muxing'.swapQueues /\ muxing'.frameLen = left * c_blockSize
  BY <1>3, <1>4, <1>5
<1>7. c_blockSize \in Nat \ {0} /\ c_overhead \in Nat /\ share \in Nat /\ 0 * c_blockSize = 0
  BY BlockIs
<1>8. CASE r = "low"
  <2>1. p = "high" /\ ~muxing.swapQueues
    BY <1>2, <1>8 DEF Turn, high, Queues
  <2>2. shared
    BY <1>2, <1>8, <2>1 DEF shared, Queues
  <2>3. c * share + c_blockSize <= sentOf(r)
    BY <1>1, <1>8, <2>1 DEF TurnsTaken, roomFor
  <2>4. roomFor(share)'
    BY <1>4, <1>6, <2>2 DEF roomFor
  <2> QED BY <1>1, <1>8, <2>3, <2>4
<1>9. CASE r = "high"
  <2>1. p = "low" /\ muxing.swapQueues
    BY <1>2, <1>9 DEF Turn, high, Queues
  <2>2. ~shared /\ roomFor(c_blockSize)
    BY <1>3, <2>1 DEF shared, roomFor
  <2>3. c * share + c_blockSize <= sentOf(r)
    BY <1>1, <1>9, <2>2 DEF TurnsTaken
  <2>4. len = allot => ~roomFor(c_blockSize)'
    <3> SUFFICES ASSUME len = allot
                 PROVE  ~roomFor(c_blockSize)'
      OBVIOUS
    <3>1. muxing'.frameLen = 0
      BY <1>4, <1>6, <1>7, <2>2
    <3> QED BY <1>7, <3>1 DEF roomFor
  <2> QED BY <1>1, <1>9, <2>3, <2>4
<1> QED BY <1>8, <1>9 DEF Queues

\* What it takes of the writer, of the frame and of the way for a frame of
\* queue p to keep the invariant.
LEMMA FrameWritten ==
  ASSUME FramingInv, NEW p \in Queues, Turn(p), NEW v \in Writers, NEW g \in Framed,
         NEW len \in Nat, lengthOf([i \in DOMAIN g.payload |-> g.payload[i].len]) = len, len <= allot,
         m_q' = [m_q EXCEPT ![p] = v], stream' = Append(stream, g),
         muxing' = [muxing EXCEPT !.swapQueues = TRUE, !.frameLen = @ - frameSize(g.payload)],
         m_sequenceId' \in 0..(SequenceIds - 1), UNCHANGED <<m_incomplete, enqued, demuxed, invalid>>,
         v.writing <=> v.remaining > 0, v.multiFrame <=> v.writing,
         v.writing => v.q # <<>> /\ sentOf(p)' > 0,
         \A r \in Queues \ {p} : v.writing /\ m_q[r].writing => v.sequence # m_q[r].sequence,
         SequencesLast',
         \A a \in places : WrittenTo(p, a) => \E b \in places : LeadsTo(g, p, a, b) /\ WrittenTo(p, b)'
  PROVE  FramingInv'
<1>0. FramingTypeOK
  BY DEF FramingInv
<1>1. muxing.on /\ muxing.frameLen >= c_overhead + c_blockSize /\ FrameHasBlocks
  BY DEF Turn, FramingInv
<1>2. PICK left \in 0..frameBlocks : muxing.frameLen - frameSize(g.payload) = left * c_blockSize
  BY <1>1, FrameFits
<1>3. muxing'.on = muxing.on /\ muxing'.swapQueues /\ muxing'.frameLen = left * c_blockSize
      /\ muxing' \in [on : BOOLEAN, frameLen : Nat, swapQueues : BOOLEAN]
  <2>1. left * c_blockSize \in Nat
    <3>1. left \in Nat /\ c_blockSize \in Nat
      BY BlockIs
    <3> QED BY <3>1, ProductIsNat
  <2> QED BY <1>0, <1>2, <2>1 DEF FramingTypeOK
<1>4. FrameHasBlocks'
  BY <1>3 DEF FrameHasBlocks
<1>5. m_q'[p] = v /\ \A r \in Queues \ {p} : m_q'[r] = m_q[r]
  BY <1>0 DEF FramingTypeOK
<1>6. FramingTypeOK'
  <2>1. m_q' \in [Queues -> Writers]
    BY <1>0 DEF FramingTypeOK
  <2>2. stream' \in Seq(Framed)
    BY <1>0 DEF FramingTypeOK
  <2> QED BY <1>0, <1>3, <2>1, <2>2 DEF FramingTypeOK
<1>7. PacketUnderWay'
  <2>1. \A r \in Queues \ {p} : sentOf(r)' = sentOf(r)
    BY <1>5 DEF sentOf
  <2> QED BY <1>5, <2>1 DEF FramingInv, PacketUnderWay
<1>8. PICK at \in Ways : OnTheWay(at)
  BY DEF FramingInv
<1>9. PICK n \in Nat : n = Len(stream)
  <2>1. stream \in Seq(Framed)
    BY <1>0 DEF FramingTypeOK
  <2>2. Len(stream) \in Nat
    BY <2>1
  <2> QED BY <2>2
<1>10. at[n] \in [Queues -> places] /\ Apart(at[n]) /\ \A r \in Queues : WrittenTo(r, at[n][r])
  BY <1>8, <1>9 DEF OnTheWay, Ways
<1>11. PICK a \in places : a = at[n][p] /\ WrittenTo(p, a)
  BY <1>10
<1>12. PICK b \in places : LeadsTo(g, p, a, b) /\ WrittenTo(p, b)'
  BY <1>11
<1>13. Apart([at[n] EXCEPT ![p] = b])
  <2>1. PICK r \in Queues : r # p /\ \A s \in Queues : s = p \/ s = r
    BY DEF Queues
  <2>2. b.off > 0 => v.writing /\ b.id = v.sequence
    BY <1>5, <1>12 DEF WrittenTo
  <2>3. at[n][r].off > 0 => m_q[r].writing /\ at[n][r].id = m_q[r].sequence
    BY <1>10 DEF WrittenTo
  <2>4. b.off > 0 /\ at[n][r].off > 0 => b.id # at[n][r].id
    BY <2>1, <2>2, <2>3
  <2>5. [at[n] EXCEPT ![p] = b][p] = b /\ [at[n] EXCEPT ![p] = b][r] = at[n][r]
    BY <1>10, <2>1
  <2> QED BY <2>1, <2>4, <2>5 DEF Apart, Queues
<1>14. (\E way \in Ways : OnTheWay(way))'
  BY <1>0, <1>5, <1>8, <1>9, <1>11, <1>12, <1>13, WayGoesOn
<1> QED BY <1>4, <1>6, <1>7, <1>14 DEF FramingInv

\* A frame of pieces of queue p is written: what mux does.
LEMMA FrameIsWritten ==
  ASSUME MuxFrame, NEW p \in Queues, Turn(p), NEW w, NEW pieces, NEW first,
         fill(m_q[p], allot) = [w |-> w, payload |-> pieces, first |-> first], pieces # <<>>
  PROVE  /\ m_sequenceId' = IF first THEN (m_sequenceId + 1) % SequenceIds ELSE m_sequenceId
         /\ m_q' = [m_q EXCEPT ![p] = IF w.remaining = 0 THEN [w EXCEPT !.multiFrame = FALSE] ELSE w]
         /\ stream' = Append(stream, [multi |-> w.multiFrame, sequence |-> IF w.multiFrame THEN w.sequence ELSE 0,
                                      total |-> IF first THEN Head(w.q).size ELSE 0, payload |-> pieces])
         /\ muxing' = [muxing EXCEPT !.swapQueues = TRUE, !.frameLen = @ - frameSize(pieces)]
         /\ UNCHANGED <<m_incomplete, enqued, demuxed, invalid>>
<1>1. p = IF high THEN "high" ELSE "low"
  BY DEF Turn
<1>2. PICK f : f = [w |-> w, payload |-> pieces, first |-> first] /\ f = fill(m_q[p], allot)
  OBVIOUS
<1>3. f.w = w /\ f.payload = pieces /\ f.first = first
  BY <1>2
<1>4. /\ m_sequenceId' = IF f.first THEN (m_sequenceId + 1) % SequenceIds ELSE m_sequenceId
      /\ m_q' = [m_q EXCEPT ![p] = IF f.payload # <<>> /\ f.w.remaining = 0
                                        THEN [f.w EXCEPT !.multiFrame = FALSE] ELSE f.w]
      /\ IF f.payload # <<>>
              THEN /\ stream' = Append(stream, [multi |-> f.w.multiFrame, sequence |-> IF f.w.multiFrame THEN f.w.sequence ELSE 0,
                                  total |-> IF f.first THEN Head(f.w.q).size ELSE 0, payload |-> f.payload])
                   /\ muxing' = [muxing EXCEPT !.swapQueues = TRUE, !.frameLen = @ - frameSize(f.payload)]
              ELSE /\ muxing' = [muxing EXCEPT !.swapQueues = TRUE, !.on = ~muxing.swapQueues]
                   /\ UNCHANGED stream
      /\ UNCHANGED <<m_incomplete, enqued, demuxed, invalid>>
  BY <1>1, <1>2 DEF MuxFrame
<1> QED BY <1>3, <1>4

\* One piece has one length.
LEMMA OnePiece ==
  ASSUME NEW x \in [pkt : packets, from : Nat, len : Nat]
  PROVE  /\ <<x>> \in Seq([pkt : packets, from : Nat, len : Nat]) /\ <<x>> # <<>> /\ <<x>>[1] = x
         /\ lengthOf([i \in DOMAIN <<x>> |-> <<x>>[i].len]) = x.len
<1> DEFINE lengths == [i \in DOMAIN <<x>> |-> <<x>>[i].len]
<1>1. x.len \in Nat
  OBVIOUS
<1>2. lengths \in Seq(Nat) /\ Len(lengths) = 1 /\ lengths[1] = x.len
  BY <1>1
<1>3. lengthOf(lengths) = x.len
  <2> HIDE DEF lengths
  <2> QED BY <1>2, LengthIs
<1>4. <<x>> \in Seq([pkt : packets, from : Nat, len : Nat])
  <2>1. PICK R : R = [pkt : packets, from : Nat, len : Nat]
    OBVIOUS
  <2>2. x \in R
    BY <2>1
  <2>3. <<x>> \in Seq(R)
    BY <2>2
  <2> QED BY <2>1, <2>3
<1> QED BY <1>3, <1>4

\* The sequence id after another.
LEMMA NextId ==
  ASSUME NEW x \in 0..(SequenceIds - 1)
  PROVE  /\ (x + 1) % SequenceIds = IF x = SequenceIds - 1 THEN 0 ELSE x + 1
         /\ (x + 1) % SequenceIds \in 0..(SequenceIds - 1)
<1>1. SequenceIds \in Nat \ {0}
  BY BlockIs
<1>2. CASE x = SequenceIds - 1
  <2>1. x + 1 = SequenceIds
    BY <1>1, <1>2
  <2>2. SequenceIds % SequenceIds = 0
    BY <1>1
  <2> QED BY <1>1, <1>2, <2>1, <2>2
<1>3. CASE x # SequenceIds - 1
  <2>1. x + 1 \in Nat /\ x + 1 < SequenceIds
    BY <1>1, <1>3
  <2>2. (x + 1) % SequenceIds = x + 1
    BY <1>1, <2>1
  <2> QED BY <1>1, <1>3, <2>1, <2>2
<1> QED BY <1>2, <1>3

\* The other packets under way after a frame of queue p, with the sequence
\* id that a new packet may have been given.
LEMMA OthersLast ==
  ASSUME FramingInv, NEW p \in Queues, Turn(p), NEW payload, NEW len \in Nat,
         lengthOf([i \in DOMAIN payload |-> payload[i].len]) = len, len <= allot,
         muxing' = [muxing EXCEPT !.swapQueues = TRUE, !.frameLen = @ - frameSize(payload)],
         \A r \in Queues \ {p} : m_q'[r] = m_q[r],
         m_sequenceId' = m_sequenceId \/ (m_sequenceId' = (m_sequenceId + 1) % SequenceIds /\ len = allot)
  PROVE  \A r \in Queues \ {p} : m_q[r].writing =>
           /\ \E c \in 0..(SequenceIds - 1) : TurnsTaken(r, c)'
           /\ m_sequenceId' = (m_sequenceId + 1) % SequenceIds => m_sequenceId' # m_q[r].sequence
<1> SUFFICES ASSUME NEW r \in Queues \ {p}, m_q[r].writing
             PROVE  /\ \E c \in 0..(SequenceIds - 1) : TurnsTaken(r, c)'
                    /\ m_sequenceId' = (m_sequenceId + 1) % SequenceIds => m_sequenceId' # m_q[r].sequence
  OBVIOUS
<1>1. PICK c \in 0..(SequenceIds - 1) : TurnsTaken(r, c) /\ c * share + c_blockSize <= sentOf(r)
  BY OtherWaits
<1>2. /\ r = "low" => roomFor(share)'
      /\ r = "high" /\ len = allot => ~roomFor(c_blockSize)'
  BY OtherWaits
<1>3. c + 1 \in 0..(SequenceIds - 1)
  BY <1>1, SharesLeft
<1>4. m_sequenceId \in 0..(SequenceIds - 1) /\ m_q[r].sequence \in 0..(SequenceIds - 1)
  BY DEF FramingInv, FramingTypeOK, Writers
<1>5. share \in Nat /\ c_blockSize \in Nat /\ SequenceIds \in Nat \ {0}
  BY BlockIs
<1>6. sentOf(r) \in Nat /\ sentOf(r)' = sentOf(r) /\ m_q'[r].sequence = m_q[r].sequence
  BY SentIs DEF sentOf
<1>7. c * share \in Nat /\ (c + 1) * share = c * share + share
  BY <1>5
<1>8. m_sequenceId = m_q[r].sequence + c \/ m_sequenceId = m_q[r].sequence + c - SequenceIds
  BY <1>1 DEF TurnsTaken
<1>9. m_sequenceId' = (m_sequenceId + 1) % SequenceIds =>
        /\ m_sequenceId' # m_q[r].sequence
        /\ m_sequenceId' \in {m_q[r].sequence + (c + 1), m_q[r].sequence + (c + 1) - SequenceIds}
  <2> SUFFICES ASSUME m_sequenceId' = (m_sequenceId + 1) % SequenceIds
               PROVE  /\ m_sequenceId' # m_q[r].sequence
                      /\ m_sequenceId' \in {m_q[r].sequence + (c + 1), m_q[r].sequence + (c + 1) - SequenceIds}
    OBVIOUS
  <2>1. m_sequenceId' = IF m_sequenceId = SequenceIds - 1 THEN 0 ELSE m_sequenceId + 1
    BY <1>4, NextId
  <2> QED BY <1>3, <1>4, <1>5, <1>8, <2>1
<1>10. CASE m_sequenceId' = (m_sequenceId + 1) % SequenceIds /\ len = allot
  <2>1. TurnsTaken(r, c + 1)'
    <3>1. m_sequenceId' \in {m_q'[r].sequence + (c + 1), m_q'[r].sequence + (c + 1) - SequenceIds}
      BY <1>6, <1>9, <1>10
    <3>2. (c + 1) * share + c_blockSize <= sentOf(r)' + share
      BY <1>1, <1>5, <1>6, <1>7
    <3>3. IF r = "high" THEN ~roomFor(c_blockSize)' ELSE roomFor(share)'
      BY <1>2, <1>10 DEF Queues
    <3> QED BY <3>1, <3>2, <3>3 DEF TurnsTaken
  <2> QED BY <1>3, <1>9, <2>1
<1>11. CASE m_sequenceId' = m_sequenceId
  <2>1. TurnsTaken(r, c)'
    <3>1. m_sequenceId' \in {m_q'[r].sequence + c, m_q'[r].sequence + c - SequenceIds}
      BY <1>6, <1>8, <1>11
    <3>2. c * share + c_blockSize <= sentOf(r)' /\ c * share + c_blockSize <= sentOf(r)' + share
      BY <1>1, <1>5, <1>6, <1>7
    <3> QED BY <3>1, <3>2 DEF TurnsTaken
  <2> QED BY <1>9, <2>1
<1> QED BY <1>10, <1>11

\* A place, and a piece, by their parts.
LEMMA PlaceOf ==
  ASSUME NEW k \in Nat, NEW off \in Nat, NEW id \in 0..(SequenceIds - 1)
  PROVE  \E b \in places : b = [k |-> k, off |-> off, id |-> id] /\ b.k = k /\ b.off = off /\ b.id = id
<1> DEFINE b == [k |-> k, off |-> off, id |-> id]
<1>1. b \in places /\ b.k = k /\ b.off = off /\ b.id = id
  BY DEF places
<1>2. b = [k |-> k, off |-> off, id |-> id]
  OBVIOUS
<1> HIDE DEF b
<1> QED BY <1>1, <1>2

\* ... and a piece.
LEMMA PieceOf ==
  ASSUME NEW pkt \in packets, NEW from \in Nat, NEW len \in Nat
  PROVE  \E x \in [pkt : packets, from : Nat, len : Nat] :
           x = piece(pkt, from, len) /\ x.pkt = pkt /\ x.from = from /\ x.len = len
<1> DEFINE x == piece(pkt, from, len)
<1>1. x \in [pkt : packets, from : Nat, len : Nat] /\ x.pkt = pkt /\ x.from = from /\ x.len = len
  BY DEF piece
<1>2. x = piece(pkt, from, len)
  OBVIOUS
<1> HIDE DEF x
<1> QED BY <1>1, <1>2

\* What mux leaves of a writer after a frame.
LEMMA WriterRests ==
  ASSUME NEW u \in Writers
  PROVE  \E v \in Writers : /\ v = IF u.remaining = 0 THEN [u EXCEPT !.multiFrame = FALSE] ELSE u
                            /\ v.remaining = u.remaining /\ v.writing = u.writing /\ v.q = u.q
                            /\ v.sequence = u.sequence
                            /\ u.remaining = 0 => v.multiFrame = FALSE
                            /\ u.remaining # 0 => v.multiFrame = u.multiFrame
<1>1. CASE u.remaining = 0
  <2> DEFINE v == [u EXCEPT !.multiFrame = FALSE]
  <2>1. /\ v \in Writers /\ v.remaining = u.remaining /\ v.writing = u.writing /\ v.q = u.q
        /\ v.multiFrame = FALSE /\ v.sequence = u.sequence
    BY DEF Writers
  <2>2. v = [u EXCEPT !.multiFrame = FALSE]
    OBVIOUS
  <2> HIDE DEF v
  <2> QED BY <1>1, <2>1, <2>2
<1>2. CASE u.remaining # 0
  BY <1>2
<1> QED BY <1>1, <1>2

\* A frame of the packet under way leads the writer on.
LEMMA ContinuedLeads ==
  ASSUME FramingInv, NEW p \in Queues, m_q[p].writing, NEW w \in Writers, w = m_q[p],
         NEW len \in Nat, len > 0, len <= w.remaining,
         NEW g \in Framed, g.multi, g.sequence = w.sequence, g.total = 0, g.payload # <<>>,
         g.payload[1] = piece(Head(w.q), sentOf(p), len),
         NEW v \in Writers, m_q'[p] = v, v.remaining = w.remaining - len, v.writing <=> len < w.remaining,
         v.q = IF len < w.remaining THEN w.q ELSE Tail(w.q), v.sequence = w.sequence, enqued' = enqued,
         NEW a \in places, WrittenTo(p, a)
  PROVE  \E b \in places : LeadsTo(g, p, a, b) /\ WrittenTo(p, b)'
<1>1. PICK pkt \in packets : pkt = Head(w.q) /\ pkt = w.q[1]
  BY SentIs
<1>2. PICK sent \in Nat : sent = sentOf(p) /\ sent > 0 /\ sent = pkt.size - w.remaining
  BY <1>1, SentIs
<1>3. w.q \in Seq(packets) /\ w.q # <<>> /\ w.remaining \in Nat /\ pkt.size \in Nat /\ w.sequence \in 0..(SequenceIds - 1)
  BY <1>1, SentIs DEF Writers
<1>4. PICK n \in Nat : n = Len(w.q) /\ n > 0
  BY <1>3
<1>5. /\ a.k \in Nat /\ a.k + n = Len(enqued[p]) /\ a.off = sent /\ a.id = w.sequence
      /\ \A i \in 1..n : w.q[i] = enqued[p][a.k + i]
  BY <1>2, <1>4 DEF WrittenTo, places
<1>6. a.k < Len(enqued[p]) /\ enqued[p][a.k + 1] = pkt
  BY <1>1, <1>4, <1>5
<1>7. /\ g.payload[1].pkt = pkt /\ g.payload[1].len = len
      /\ g.payload[1] = piece(enqued[p][a.k + 1], a.off, g.payload[1].len)
  BY <1>1, <1>2, <1>5, <1>6 DEF piece
<1>8. CASE len = w.remaining
  <2>1. PICK b \in places : b = [k |-> a.k + 1, off |-> 0, id |-> w.sequence] /\ b.k = a.k + 1 /\ b.off = 0
    <3>1. a.k + 1 \in Nat /\ 0 \in Nat
      BY <1>5
    <3> QED BY <1>3, <3>1, PlaceOf
  <2>2. a.off + len = pkt.size /\ v.q = Tail(w.q) /\ ~v.writing
    BY <1>2, <1>3, <1>5, <1>8
  <2>3. LeadsTo(g, p, a, b)
    BY <1>2, <1>5, <1>6, <1>7, <2>1, <2>2 DEF LeadsTo
  <2>4. Len(v.q) = n - 1
    BY <1>3, <1>4, <2>2
  <2>5. \A i \in 1..(n - 1) : v.q[i] = w.q[i + 1]
    BY <1>3, <1>4, <2>2
  <2>6. b.k + Len(v.q) = Len(enqued[p])
    <3>1. b.k = a.k + 1 /\ a.k \in Nat /\ n \in Nat
      BY <1>5, <2>1
    <3>2. b.k + (n - 1) = a.k + n
      BY <3>1
    <3> QED BY <1>5, <2>4, <3>2
  <2>7. \A i \in 1..Len(v.q) : v.q[i] = enqued[p][b.k + i]
    <3> SUFFICES ASSUME NEW i \in 1..(n - 1)
                 PROVE  v.q[i] = enqued[p][b.k + i]
      BY <2>4
    <3>1. i \in Nat /\ i + 1 \in 1..n
      BY <1>4
    <3>2. b.k = a.k + 1 /\ a.k \in Nat
      BY <1>5, <2>1
    <3>3. a.k + (i + 1) = b.k + i
      BY <3>1, <3>2
    <3> QED BY <1>5, <2>5, <3>1, <3>3
  <2>8. WrittenTo(p, b)'
    BY <2>1, <2>2, <2>6, <2>7 DEF WrittenTo
  <2> QED BY <2>3, <2>8
<1>9. CASE len # w.remaining
  <2>1. PICK b \in places : /\ b = [k |-> a.k, off |-> sent + len, id |-> w.sequence]
                            /\ b.k = a.k /\ b.off = sent + len /\ b.id = w.sequence
    <3>1. sent + len \in Nat /\ a.k \in Nat /\ w.sequence \in 0..(SequenceIds - 1)
      BY <1>3, <1>5
    <3> QED BY <3>1, PlaceOf
  <2>2. a.off + len < pkt.size /\ v.writing /\ v.q = w.q /\ a.off + len = sent + len
    BY <1>2, <1>3, <1>5, <1>9
  <2>3. LeadsTo(g, p, a, b)
    <3>1. a.off + len # pkt.size /\ a.off + len <= pkt.size
      BY <1>3, <1>5, <2>2
    <3>2. b = [k |-> a.k, off |-> a.off + g.payload[1].len, id |-> g.sequence]
      BY <1>5, <1>7, <2>1
    <3> QED BY <1>2, <1>5, <1>6, <1>7, <3>1, <3>2 DEF LeadsTo
  <2>4. sentOf(p)' = sent + len
    <3>1. sentOf(p)' = pkt.size - (w.remaining - len)
      BY <1>1, <2>2 DEF sentOf
    <3> QED BY <1>2, <1>3, <3>1
  <2>5. WrittenTo(p, b)'
    BY <1>4, <1>5, <2>1, <2>2, <2>4 DEF WrittenTo
  <2> QED BY <2>3, <2>5
<1> QED BY <1>8, <1>9

\* The packets of the two queues that are under way have different ids.
LEMMA IdsDiffer ==
  ASSUME FramingInv, NEW p \in Queues, NEW r \in Queues \ {p}, m_q[p].writing, m_q[r].writing
  PROVE  m_q[p].sequence # m_q[r].sequence
<1>1. PICK at \in Ways : OnTheWay(at)
  BY DEF FramingInv
<1>2. Len(stream) \in 0..Len(stream)
  BY DEF FramingInv, FramingTypeOK
<1>3. PICK end \in [Queues -> places] : end = at[Len(stream)]
  BY <1>2 DEF Ways
<1>4. Apart(end)
  BY <1>1, <1>2, <1>3 DEF OnTheWay
<1>5. \A s \in Queues : m_q[s].writing => end[s].off > 0 /\ end[s].id = m_q[s].sequence
  <2>1. \A s \in Queues : WrittenTo(s, end[s])
    BY <1>1, <1>3 DEF OnTheWay
  <2> QED BY <2>1, SentIs DEF WrittenTo
<1>6. CASE p = "high"
  <2>1. r = "low"
    BY <1>6 DEF Queues
  <2> QED BY <1>4, <1>5, <1>6, <2>1 DEF Apart
<1>7. CASE p = "low"
  <2>1. r = "high"
    BY <1>7 DEF Queues
  <2> QED BY <1>4, <1>5, <1>7, <2>1 DEF Apart
<1> QED BY <1>6, <1>7 DEF Queues

\* A frame continues a packet, and ends it if there is room.
LEMMA ContinuedKeeps ==
  ASSUME FramingInv, NEW p \in Queues, Turn(p), MuxFrame, m_q[p].writing,
         fill(m_q[p], allot) = continued(m_q[p], allot)
  PROVE  FramingInv'
<1>1. PICK w \in Writers : w = m_q[p]
  BY DEF FramingInv, FramingTypeOK
<1>2. PICK pkt \in packets : pkt = Head(w.q) /\ pkt = w.q[1]
  BY <1>1, SentIs
<1>3. PICK sent \in Nat : sent = sentOf(p) /\ sent > 0 /\ sent = pkt.size - w.remaining
  BY <1>1, <1>2, SentIs
<1>4. /\ w.q \in Seq(packets) /\ w.q # <<>> /\ w.remaining \in Nat /\ w.remaining > 0 /\ pkt.size \in Nat
      /\ w.sequence \in 0..(SequenceIds - 1) /\ w.multiFrame
  BY <1>1, <1>2, SentIs DEF Writers, FramingInv, PacketUnderWay
<1>5. muxing.on /\ muxing.frameLen >= c_overhead + c_blockSize /\ FrameHasBlocks
  BY DEF Turn, FramingInv
<1>6. allot \in Nat /\ allot >= c_blockSize /\ c_blockSize \in Nat \ {0} /\ (~muxing.swapQueues => allot >= share)
  BY <1>5, RoomIs, BlockIs
<1>7. PICK len \in Nat : /\ len = IF w.remaining <= allot THEN w.remaining ELSE allot
                         /\ len > 0 /\ len <= allot /\ len <= w.remaining
                         /\ len < w.remaining => len = allot
  BY <1>4, <1>6
<1>8. PICK more \in BOOLEAN : more <=> len < w.remaining
  OBVIOUS
<1>9. PICK left \in Nat : left = w.remaining - len /\ (left # 0 <=> more)
  BY <1>4, <1>7, <1>8
<1>10. PICK q \in Seq(packets) : q = IF more THEN w.q ELSE Tail(w.q)
  <2>1. Tail(w.q) \in Seq(packets)
    BY <1>4
  <2> QED BY <1>4, <2>1
<1>11. PICK x \in [pkt : packets, from : Nat, len : Nat] :
           /\ x = piece(pkt, sent, len) /\ x = piece(pkt, pkt.size - w.remaining, len)
           /\ x.pkt = pkt /\ x.from = sent /\ x.len = len
  BY <1>3, PieceOf
<1>12. PICK u \in Writers : /\ u = [w EXCEPT !.remaining = left, !.writing = more, !.q = q]
                            /\ u.remaining = left /\ u.writing = more /\ u.q = q
                            /\ u.multiFrame = w.multiFrame /\ u.sequence = w.sequence
  <2> DEFINE u == [w EXCEPT !.remaining = left, !.writing = more, !.q = q]
  <2>1. /\ u \in Writers /\ u.remaining = left /\ u.writing = more /\ u.q = q
        /\ u.multiFrame = w.multiFrame /\ u.sequence = w.sequence
    BY DEF Writers
  <2>2. u = [w EXCEPT !.remaining = left, !.writing = more, !.q = q]
    OBVIOUS
  <2> HIDE DEF u
  <2> QED BY <2>1, <2>2
<1>13. continued(w, allot) = [w |-> u, payload |-> <<x>>, first |-> FALSE]
  <2> DEFINE l == IF w.remaining <= allot THEN w.remaining ELSE allot
  <2>1. l = len /\ w.remaining - len = left /\ (len < w.remaining) = more
    BY <1>7, <1>8, <1>9
  <2>2. (IF len < w.remaining THEN w.q ELSE Tail(w.q)) = q
    BY <1>8, <1>10
  <2>3. continued(w, allot) =
          [w |-> [w EXCEPT !.remaining = w.remaining - l, !.writing = (l < w.remaining),
                           !.q = IF l < w.remaining THEN w.q ELSE Tail(w.q)],
           payload |-> <<piece(Head(w.q), Head(w.q).size - w.remaining, l)>>, first |-> FALSE]
    BY DEF continued
  <2>4. piece(Head(w.q), Head(w.q).size - w.remaining, l) = x
    BY <1>2, <1>11, <2>1
  <2> HIDE DEF l
  <2>5. [w EXCEPT !.remaining = w.remaining - l, !.writing = (l < w.remaining),
                  !.q = IF l < w.remaining THEN w.q ELSE Tail(w.q)] = u
    BY <1>12, <2>1, <2>2, Zenon
  <2> QED BY <2>3, <2>4, <2>5, Zenon
<1>14. PICK v \in Writers : /\ v = IF u.remaining = 0 THEN [u EXCEPT !.multiFrame = FALSE] ELSE u
                            /\ v.remaining = u.remaining /\ v.writing = u.writing /\ v.q = u.q
                            /\ v.sequence = u.sequence
                            /\ u.remaining = 0 => v.multiFrame = FALSE
                            /\ u.remaining # 0 => v.multiFrame = u.multiFrame
  BY WriterRests
<1>15. /\ v \in Writers /\ v.remaining = left /\ v.writing = more /\ v.q = q
       /\ (v.multiFrame <=> more) /\ v.sequence = w.sequence
  BY <1>4, <1>9, <1>12, <1>14
<1>16. <<x>> # <<>> /\ <<x>>[1] = x /\ lengthOf([i \in DOMAIN <<x>> |-> <<x>>[i].len]) = len
       /\ <<x>> \in Seq([pkt : packets, from : Nat, len : Nat])
  BY <1>11, OnePiece
<1>17. PICK pieces \in Seq([pkt : packets, from : Nat, len : Nat]) : pieces = <<x>>
  BY <1>16
<1>18. PICK g \in Framed : /\ g = [multi |-> TRUE, sequence |-> w.sequence, total |-> 0, payload |-> pieces]
                           /\ g.multi = TRUE /\ g.sequence = w.sequence /\ g.total = 0 /\ g.payload = pieces
  <2> DEFINE g == [multi |-> TRUE, sequence |-> w.sequence, total |-> 0, payload |-> pieces]
  <2>1. g \in Framed /\ g.multi = TRUE /\ g.sequence = w.sequence /\ g.total = 0 /\ g.payload = pieces
    BY <1>4, <1>17 DEF Framed
  <2>2. g = [multi |-> TRUE, sequence |-> w.sequence, total |-> 0, payload |-> pieces]
    OBVIOUS
  <2> HIDE DEF g
  <2> QED BY <2>1, <2>2
<1>19. /\ m_q' = [m_q EXCEPT ![p] = v] /\ stream' = Append(stream, g)
       /\ muxing' = [muxing EXCEPT !.swapQueues = TRUE, !.frameLen = @ - frameSize(g.payload)]
       /\ m_sequenceId' = m_sequenceId /\ UNCHANGED <<m_incomplete, enqued, demuxed, invalid>>
  <2>1. PICK first \in BOOLEAN : first = FALSE
    OBVIOUS
  <2>2. fill(m_q[p], allot) = [w |-> u, payload |-> pieces, first |-> first] /\ pieces # <<>>
    BY <1>1, <1>13, <1>16, <1>17, <2>1
  <2>3. /\ m_sequenceId' = IF first THEN (m_sequenceId + 1) % SequenceIds ELSE m_sequenceId
        /\ m_q' = [m_q EXCEPT ![p] = IF u.remaining = 0 THEN [u EXCEPT !.multiFrame = FALSE] ELSE u]
        /\ stream' = Append(stream, [multi |-> u.multiFrame, sequence |-> IF u.multiFrame THEN u.sequence ELSE 0,
                                     total |-> IF first THEN Head(u.q).size ELSE 0, payload |-> pieces])
        /\ muxing' = [muxing EXCEPT !.swapQueues = TRUE, !.frameLen = @ - frameSize(pieces)]
        /\ UNCHANGED <<m_incomplete, enqued, demuxed, invalid>>
    BY <2>2, FrameIsWritten, Zenon
  <2>4. u.multiFrame = TRUE
    BY <1>4, <1>12 DEF Writers
  <2>5. [multi |-> u.multiFrame, sequence |-> IF u.multiFrame THEN u.sequence ELSE 0,
         total |-> IF first THEN Head(u.q).size ELSE 0, payload |-> pieces] = g
    BY <1>12, <1>18, <2>1, <2>4
  <2>6. m_q' = [m_q EXCEPT ![p] = v]
    BY <1>14, <2>3, Zenon
  <2>7. stream' = Append(stream, g)
    BY <2>3, <2>5, Zenon
  <2>8. m_sequenceId' = m_sequenceId
    BY <2>1, <2>3
  <2>9. muxing' = [muxing EXCEPT !.swapQueues = TRUE, !.frameLen = @ - frameSize(g.payload)]
    BY <1>18, <2>3, Zenon
  <2> QED BY <2>3, <2>6, <2>7, <2>8, <2>9, Zenon
<1>20. m_q'[p] = v /\ \A r \in Queues \ {p} : m_q'[r] = m_q[r]
  BY <1>19 DEF FramingInv, FramingTypeOK
<1>21. more => v.q # <<>> /\ Head(v.q) = pkt /\ sentOf(p)' = sent + len /\ len = allot
  <2> SUFFICES ASSUME more
               PROVE  v.q # <<>> /\ Head(v.q) = pkt /\ sentOf(p)' = sent + len /\ len = allot
    OBVIOUS
  <2>1. v.q = w.q /\ len = allot
    BY <1>7, <1>8, <1>10, <1>15
  <2>2. sentOf(p)' = pkt.size - left
    BY <1>2, <1>15, <1>20, <2>1 DEF sentOf
  <2>3. sentOf(p)' = sent + len
    BY <1>3, <1>4, <1>9, <2>2
  <2> QED BY <1>2, <1>4, <2>1, <2>3
<1>22. lengthOf([i \in DOMAIN g.payload |-> g.payload[i].len]) = len
  BY <1>16, <1>17, <1>18
<1>23. \A r \in Queues \ {p} : m_q[r].writing => \E c \in 0..(SequenceIds - 1) : TurnsTaken(r, c)'
  BY <1>7, <1>19, <1>20, <1>22, OthersLast
<1>24. more => \E c \in 0..(SequenceIds - 1) : TurnsTaken(p, c)'
  <2> SUFFICES ASSUME more
               PROVE  \E c \in 0..(SequenceIds - 1) : TurnsTaken(p, c)'
    OBVIOUS
  <2>1. PICK c \in 0..(SequenceIds - 1) : TurnsTaken(p, c)
    BY DEF FramingInv, SequencesLast
  <2>2. PICK y \in Nat : y = c * share
    BY BlockIs
  <2>3. share \in Nat /\ c_overhead \in Nat /\ muxing.frameLen \in Nat
    BY BlockIs DEF FramingInv, FramingTypeOK
  <2>4. y + c_blockSize <= sent + len
    <3>1. CASE y + c_blockSize <= sent
      BY <1>6, <3>1
    <3>2. CASE ~(y + c_blockSize <= sent)
      <4>1. allot >= share
        <5>1. CASE ~muxing.swapQueues
          BY <1>6, <5>1
        <5>2. CASE muxing.swapQueues
          <6>1. ~roomFor(c_blockSize) \/ roomFor(share)
            BY <1>3, <2>1, <2>2, <3>2 DEF TurnsTaken
          <6>2. roomFor(share)
            BY <1>5, <5>2, <6>1 DEF roomFor
          <6>3. allot = muxing.frameLen - c_overhead
            BY <5>2 DEF allot
          <6> QED BY <2>3, <6>2, <6>3 DEF roomFor
        <5> QED BY <5>1, <5>2
      <4>2. y + c_blockSize <= sent + share
        BY <1>3, <2>1, <2>2 DEF TurnsTaken
      <4>3. len = allot
        BY <1>21
      <4> QED BY <1>6, <2>3, <4>1, <4>2, <4>3
    <3> QED BY <3>1, <3>2
  <2>5. y + c_blockSize <= sentOf(p)'
    BY <1>21, <2>4
  <2>6. y + c_blockSize <= sentOf(p)' + share
    BY <1>21, <1>6, <2>3, <2>4
  <2>7. m_sequenceId \in {m_q[p].sequence + c, m_q[p].sequence + c - SequenceIds}
    BY <2>1 DEF TurnsTaken
  <2>8. m_sequenceId' \in {m_q'[p].sequence + c, m_q'[p].sequence + c - SequenceIds}
    BY <1>1, <1>15, <1>19, <1>20, <2>7
  <2>9. TurnsTaken(p, c)'
    BY <2>2, <2>5, <2>6, <2>8 DEF TurnsTaken
  <2> QED BY <2>9
<1>25. SequencesLast'
  BY <1>15, <1>20, <1>23, <1>24 DEF SequencesLast
<1>26. \A a \in places : WrittenTo(p, a) => \E b \in places : LeadsTo(g, p, a, b) /\ WrittenTo(p, b)'
  <2> SUFFICES ASSUME NEW a \in places, WrittenTo(p, a)
               PROVE  \E b \in places : LeadsTo(g, p, a, b) /\ WrittenTo(p, b)'
    OBVIOUS
  <2>1. g.payload # <<>> /\ g.payload[1] = piece(Head(w.q), sentOf(p), len) /\ g.multi
    BY <1>2, <1>3, <1>11, <1>16, <1>17, <1>18
  <2>2. v.remaining = w.remaining - len /\ (v.writing <=> len < w.remaining) /\ v.sequence = w.sequence
    BY <1>8, <1>9, <1>15
  <2>3. v.q = IF len < w.remaining THEN w.q ELSE Tail(w.q)
    BY <1>8, <1>10, <1>15
  <2>4. enqued' = enqued /\ m_q'[p] = v /\ w = m_q[p] /\ len > 0 /\ len <= w.remaining
    BY <1>1, <1>7, <1>19, <1>20
  <2>5. g.sequence = w.sequence /\ g.total = 0
    BY <1>18
  <2> QED BY <2>1, <2>2, <2>3, <2>4, <2>5, ContinuedLeads
<1>27. m_sequenceId' \in 0..(SequenceIds - 1)
  BY <1>19 DEF FramingInv, FramingTypeOK
<1>28. \A r \in Queues \ {p} : v.writing /\ m_q[r].writing => v.sequence # m_q[r].sequence
  BY <1>1, <1>15, IdsDiffer
<1>29. (v.writing <=> v.remaining > 0) /\ (v.multiFrame <=> v.writing)
  BY <1>9, <1>15
<1>30. v.writing => v.q # <<>> /\ sentOf(p)' > 0
  BY <1>3, <1>7, <1>15, <1>21
<1> QED BY <1>7, <1>15, <1>18, <1>19, <1>22, <1>25, <1>26, <1>27, <1>28, <1>29, <1>30, FrameWritten

\* A frame begins a packet that is longer than the room there is.
LEMMA SegmentedLeads ==
  ASSUME FramingInv, NEW p \in Queues, ~m_q[p].writing, NEW w \in Writers, w = m_q[p], w.q # <<>>,
         NEW len \in Nat, len > 0, NEW size \in Nat, size = Head(w.q).size, len < size,
         NEW g \in Framed, g.multi, g.total = size, g.payload # <<>>, g.payload[1] = piece(Head(w.q), 0, len),
         NEW v \in Writers, m_q'[p] = v, v.remaining = size - len, v.writing, v.q = w.q,
         v.sequence = g.sequence, enqued' = enqued, NEW a \in places, WrittenTo(p, a)
  PROVE  \E b \in places : LeadsTo(g, p, a, b) /\ WrittenTo(p, b)'
<1>1. w.q \in Seq(packets) /\ g.sequence \in 0..(SequenceIds - 1)
  BY DEF Writers, Framed
<1>2. PICK pkt \in packets : pkt = Head(w.q) /\ pkt = w.q[1]
  BY <1>1
<1>3. PICK n \in Nat : n = Len(w.q) /\ n > 0
  BY <1>1
<1>4. /\ a.k \in Nat /\ a.k + n = Len(enqued[p]) /\ a.off = 0
      /\ \A i \in 1..n : w.q[i] = enqued[p][a.k + i]
  BY <1>3 DEF WrittenTo, places
<1>5. a.k < Len(enqued[p]) /\ enqued[p][a.k + 1] = pkt
  <2>1. a.k < Len(enqued[p])
    BY <1>3, <1>4
  <2>2. 1 \in 1..n
    BY <1>3
  <2>3. w.q[1] = enqued[p][a.k + 1]
    BY <2>2, <1>4
  <2> QED BY <1>2, <2>1, <2>3
<1>6. /\ g.payload[1].pkt = pkt /\ g.payload[1].len = len
      /\ g.payload[1] = piece(enqued[p][a.k + 1], a.off, g.payload[1].len)
  BY <1>2, <1>4, <1>5 DEF piece
<1>7. PICK b \in places : /\ b = [k |-> a.k, off |-> len, id |-> g.sequence]
                          /\ b.k = a.k /\ b.off = len /\ b.id = g.sequence
  <2>1. a.k \in Nat
    BY <1>4
  <2> QED BY <1>1, <2>1, PlaceOf
<1>8. LeadsTo(g, p, a, b)
  <2>1. a.off + len = len /\ pkt.size = size /\ len # size
    BY <1>2, <1>4
  <2>2. b = [k |-> a.k, off |-> a.off + g.payload[1].len, id |-> g.sequence]
    BY <1>6, <1>7, <2>1
  <2> QED BY <1>4, <1>5, <1>6, <2>1, <2>2 DEF LeadsTo
<1>9. sentOf(p)' = len
  <2>1. sentOf(p)' = size - (size - len)
    BY DEF sentOf
  <2> QED BY <2>1
<1>10. WrittenTo(p, b)'
  BY <1>3, <1>4, <1>7, <1>9 DEF WrittenTo
<1> QED BY <1>8, <1>10

\* It takes a new sequence id and all the room, so that of its shares none is
\* taken yet.
LEMMA SegmentedKeeps ==
  ASSUME FramingInv, NEW p \in Queues, Turn(p), MuxFrame, ~m_q[p].writing, Head(m_q[p].q).size > allot,
         fill(m_q[p], allot) = segmented(m_q[p], allot)
  PROVE  FramingInv'
<1>1. PICK w \in Writers : w = m_q[p]
  BY DEF FramingInv, FramingTypeOK
<1>2. w.q \in Seq(packets) /\ w.q # <<>>
  BY <1>1 DEF Writers, Turn
<1>3. PICK pkt \in packets : pkt = Head(w.q) /\ pkt = w.q[1]
  BY <1>2
<1>4. PICK size \in Nat : size = pkt.size /\ size > allot
  <2>1. pkt.size \in Sizes
    BY DEF packets
  <2>2. pkt.size \in Nat
    BY <2>1, BlockIs
  <2> QED BY <1>1, <1>3, <2>2
<1>5. muxing.on /\ muxing.frameLen >= c_overhead + c_blockSize /\ FrameHasBlocks
  BY DEF Turn, FramingInv
<1>6. PICK len \in Nat : len = allot /\ len > 0 /\ len >= c_blockSize /\ len < size
  <2>1. allot \in Nat /\ allot >= c_blockSize /\ c_blockSize \in Nat \ {0}
    BY <1>5, RoomIs, BlockIs
  <2> QED BY <1>4, <2>1
<1>7. PICK left \in Nat : left = size - len /\ left # 0
  BY <1>6
<1>8. PICK id \in 0..(SequenceIds - 1) : id = (m_sequenceId + 1) % SequenceIds
  <2>1. m_sequenceId \in 0..(SequenceIds - 1)
    BY DEF FramingInv, FramingTypeOK
  <2> QED BY <2>1, NextId
<1>9. PICK x \in [pkt : packets, from : Nat, len : Nat] :
           x = piece(pkt, 0, len) /\ x.pkt = pkt /\ x.from = 0 /\ x.len = len
  BY PieceOf
<1>10. PICK u \in Writers :
           /\ u = [w EXCEPT !.remaining = left, !.writing = TRUE, !.multiFrame = TRUE, !.sequence = id]
           /\ u.remaining = left /\ u.writing = TRUE /\ u.q = w.q
           /\ u.multiFrame = TRUE /\ u.sequence = id
  <2> DEFINE u == [w EXCEPT !.remaining = left, !.writing = TRUE, !.multiFrame = TRUE, !.sequence = id]
  <2>1. /\ u \in Writers /\ u.remaining = left /\ u.writing = TRUE /\ u.q = w.q
        /\ u.multiFrame = TRUE /\ u.sequence = id
    BY DEF Writers
  <2>2. u = [w EXCEPT !.remaining = left, !.writing = TRUE, !.multiFrame = TRUE, !.sequence = id]
    OBVIOUS
  <2> HIDE DEF u
  <2> QED BY <2>1, <2>2
<1>11. segmented(w, allot) = [w |-> u, payload |-> <<x>>, first |-> TRUE]
  BY <1>3, <1>4, <1>6, <1>7, <1>8, <1>9, <1>10 DEF segmented
<1>12. <<x>> # <<>> /\ <<x>>[1] = x /\ lengthOf([i \in DOMAIN <<x>> |-> <<x>>[i].len]) = len
       /\ <<x>> \in Seq([pkt : packets, from : Nat, len : Nat])
  BY <1>9, OnePiece
<1>13. PICK pieces \in Seq([pkt : packets, from : Nat, len : Nat]) : pieces = <<x>>
  BY <1>12
<1>14. PICK g \in Framed : /\ g = [multi |-> TRUE, sequence |-> id, total |-> size, payload |-> pieces]
                           /\ g.multi = TRUE /\ g.sequence = id /\ g.total = size /\ g.payload = pieces
  <2> DEFINE g == [multi |-> TRUE, sequence |-> id, total |-> size, payload |-> pieces]
  <2>1. g \in Framed /\ g.multi = TRUE /\ g.sequence = id /\ g.total = size /\ g.payload = pieces
    BY <1>13 DEF Framed
  <2>2. g = [multi |-> TRUE, sequence |-> id, total |-> size, payload |-> pieces]
    OBVIOUS
  <2> HIDE DEF g
  <2> QED BY <2>1, <2>2
<1>15. /\ m_q' = [m_q EXCEPT ![p] = u] /\ stream' = Append(stream, g)
       /\ muxing' = [muxing EXCEPT !.swapQueues = TRUE, !.frameLen = @ - frameSize(g.payload)]
       /\ m_sequenceId' = id /\ UNCHANGED <<m_incomplete, enqued, demuxed, invalid>>
  <2>1. PICK first \in BOOLEAN : first = TRUE
    OBVIOUS
  <2>2. fill(m_q[p], allot) = [w |-> u, payload |-> pieces, first |-> first] /\ pieces # <<>>
    BY <1>1, <1>11, <1>12, <1>13, <2>1
  <2>3. /\ m_sequenceId' = IF first THEN (m_sequenceId + 1) % SequenceIds ELSE m_sequenceId
        /\ m_q' = [m_q EXCEPT ![p] = IF u.remaining = 0 THEN [u EXCEPT !.multiFrame = FALSE] ELSE u]
        /\ stream' = Append(stream, [multi |-> u.multiFrame, sequence |-> IF u.multiFrame THEN u.sequence ELSE 0,
                                     total |-> IF first THEN Head(u.q).size ELSE 0, payload |-> pieces])
        /\ muxing' = [muxing EXCEPT !.swapQueues = TRUE, !.frameLen = @ - frameSize(pieces)]
        /\ UNCHANGED <<m_incomplete, enqued, demuxed, invalid>>
    BY <2>2, FrameIsWritten, Zenon
  <2>4. Head(u.q).size = size
    BY <1>3, <1>4, <1>10
  <2>5. [multi |-> u.multiFrame, sequence |-> IF u.multiFrame THEN u.sequence ELSE 0,
         total |-> IF first THEN Head(u.q).size ELSE 0, payload |-> pieces] = g
    BY <1>10, <1>14, <2>1, <2>4
  <2>6. m_q' = [m_q EXCEPT ![p] = u]
    <3>1. u.remaining # 0
      BY <1>7, <1>10
    <3> QED BY <2>3, <3>1, Zenon
  <2>7. stream' = Append(stream, g)
    BY <2>3, <2>5, Zenon
  <2>8. m_sequenceId' = id
    BY <1>8, <2>1, <2>3
  <2>9. muxing' = [muxing EXCEPT !.swapQueues = TRUE, !.frameLen = @ - frameSize(g.payload)]
    BY <1>14, <2>3, Zenon
  <2> QED BY <2>3, <2>6, <2>7, <2>8, <2>9, Zenon
<1>16. m_q'[p] = u /\ \A r \in Queues \ {p} : m_q'[r] = m_q[r]
  BY <1>15 DEF FramingInv, FramingTypeOK
<1>17. sentOf(p)' = len
  <2>1. sentOf(p)' = size - left
    BY <1>3, <1>4, <1>10, <1>16 DEF sentOf
  <2> QED BY <1>6, <1>7, <2>1
<1>18. lengthOf([i \in DOMAIN g.payload |-> g.payload[i].len]) = len
  BY <1>12, <1>13, <1>14
<1>19. \A r \in Queues \ {p} : m_q[r].writing =>
         /\ \E c \in 0..(SequenceIds - 1) : TurnsTaken(r, c)'
         /\ m_sequenceId' # m_q[r].sequence
  <2>1. m_sequenceId' = (m_sequenceId + 1) % SequenceIds /\ len = allot /\ len <= allot
    BY <1>6, <1>8, <1>15
  <2> QED BY <1>15, <1>16, <1>18, <2>1, OthersLast
<1>20. TurnsTaken(p, 0)'
  <2>1. 0 * share = 0 /\ share \in Nat /\ c_blockSize \in Nat /\ SequenceIds \in Nat
    BY BlockIs
  <2>2. m_sequenceId' = m_q'[p].sequence + 0
    <3>1. id + 0 = id
      BY <1>8, <2>1
    <3> QED BY <1>10, <1>15, <1>16, <3>1
  <2>3. 0 * share + c_blockSize <= sentOf(p)' /\ 0 * share + c_blockSize <= sentOf(p)' + share
    BY <1>6, <1>17, <2>1
  <2> QED BY <2>2, <2>3 DEF TurnsTaken
<1>21. SequencesLast'
  <2>1. 0 \in 0..(SequenceIds - 1)
    BY BlockIs
  <2> QED BY <1>16, <1>19, <1>20, <2>1 DEF SequencesLast
<1>22. \A a \in places : WrittenTo(p, a) => \E b \in places : LeadsTo(g, p, a, b) /\ WrittenTo(p, b)'
  <2> SUFFICES ASSUME NEW a \in places, WrittenTo(p, a)
               PROVE  \E b \in places : LeadsTo(g, p, a, b) /\ WrittenTo(p, b)'
    OBVIOUS
  <2>1. g.payload # <<>> /\ g.payload[1] = piece(Head(w.q), 0, len) /\ g.multi /\ g.total = size
    BY <1>3, <1>9, <1>12, <1>13, <1>14
  <2>2. u.remaining = size - len /\ u.writing /\ u.q = w.q /\ u.sequence = g.sequence
    BY <1>7, <1>10, <1>14
  <2>3. enqued' = enqued /\ m_q'[p] = u /\ w = m_q[p] /\ w.q # <<>> /\ size = Head(w.q).size /\ len > 0 /\ len < size
    BY <1>1, <1>2, <1>3, <1>4, <1>6, <1>15, <1>16
  <2> QED BY <2>1, <2>2, <2>3, SegmentedLeads
<1>23. m_sequenceId' \in 0..(SequenceIds - 1)
  BY <1>15
<1>24. \A r \in Queues \ {p} : u.writing /\ m_q[r].writing => u.sequence # m_q[r].sequence
  BY <1>10, <1>15, <1>19
<1>25. (u.writing <=> u.remaining > 0) /\ (u.multiFrame <=> u.writing)
  BY <1>7, <1>10
<1>26. (u.writing => u.q # <<>> /\ sentOf(p)' > 0) /\ len <= allot
  BY <1>2, <1>6, <1>10, <1>17
<1> QED BY <1>15, <1>18, <1>21, <1>22, <1>23, <1>24, <1>25, <1>26, FrameWritten

\* k whole packets as pieces, the pieces there are, and their lengths.
whole(q, k) == [i \in 1..k |-> piece(q[i], 0, q[i].size)]
parts == [pkt : packets, from : Nat, len : Nat]
lens(payload) == [i \in DOMAIN payload |-> payload[i].len]

\* The pieces of whole packets are as long as the packets are.
LEMMA WholePieces ==
  ASSUME NEW q \in Seq(packets), NEW k \in 1..Len(q), NEW payload, payload = whole(q, k)
  PROVE  /\ payload \in Seq(parts) /\ payload # <<>> /\ Len(payload) = k
         /\ DOMAIN payload = 1..k /\ \A i \in 1..k : payload[i].pkt = q[i]
         /\ lengthOf(lens(payload)) = sizeOf(q, k)
<1>1. k \in Nat /\ k > 0 /\ \A i \in 1..k : q[i] \in packets
  OBVIOUS
<1>2. \A x \in packets : x.size \in Nat
  <2>1. \A x \in packets : x.size \in Sizes
    BY DEF packets
  <2> QED BY <2>1, BlockIs
<1>3. PICK R : R = [pkt : packets, from : Nat, len : Nat] /\ R = parts
  BY DEF parts
<1>4. \A i \in 1..k : piece(q[i], 0, q[i].size) \in R
  BY <1>1, <1>2, <1>3 DEF piece
<1>0. payload = [i \in 1..k |-> piece(q[i], 0, q[i].size)]
  BY DEF whole
<1>5. payload \in [1..k -> R]
  <2> DEFINE P(i) == piece(q[i], 0, q[i].size)
  <2> HIDE DEF P
  <2>1. payload = [i \in 1..k |-> P(i)] /\ \A i \in 1..k : P(i) \in R
    BY <1>0, <1>4 DEF P
  <2> QED BY <2>1
<1>6. payload \in Seq(R) /\ Len(payload) = k /\ DOMAIN payload = 1..k
  BY <1>1, <1>5
<1>7. payload # <<>>
  BY <1>1, <1>6
<1>8. \A i \in 1..k : payload[i].pkt = q[i] /\ payload[i].len = q[i].size
  BY <1>0 DEF piece
<1>9. [i \in DOMAIN payload |-> payload[i].len] = [i \in 1..k |-> q[i].size]
  BY <1>6, <1>8
<1>10. lengthOf(lens(payload)) = sizeOf(q, k)
  BY <1>9 DEF sizeOf, lens
<1> QED BY <1>3, <1>6, <1>7, <1>8, <1>10

\* A frame of whole packets.
LEMMA TogetherLeads ==
  ASSUME FramingInv, NEW p \in Queues, ~m_q[p].writing, NEW w \in Writers, w = m_q[p],
         NEW k \in 1..Len(w.q), NEW g \in Framed, ~g.multi, g.payload # <<>>, Len(g.payload) = k,
         DOMAIN g.payload = 1..k, \A i \in 1..k : g.payload[i].pkt = w.q[i],
         NEW v \in Writers, m_q'[p] = v, ~v.writing, v.q = SubSeq(w.q, k + 1, Len(w.q)), enqued' = enqued,
         NEW a \in places, WrittenTo(p, a)
  PROVE  \E b \in places : LeadsTo(g, p, a, b) /\ WrittenTo(p, b)'
<1>1. w.q \in Seq(packets)
  BY DEF Writers
<1>2. PICK n \in Nat : n = Len(w.q) /\ k \in 1..n
  BY <1>1
<1>3. /\ a.k \in Nat /\ a.k + n = Len(enqued[p]) /\ a.off = 0 /\ a.id \in 0..(SequenceIds - 1)
      /\ \A i \in 1..n : w.q[i] = enqued[p][a.k + i]
  BY <1>2 DEF WrittenTo, places
<1>4. PICK b \in places : b.k = a.k + k /\ b.off = 0
  <2> DEFINE b == [k |-> a.k + k, off |-> 0, id |-> a.id]
  <2>1. a.k + k \in Nat
    BY <1>2, <1>3
  <2>2. b \in places /\ b.k = a.k + k /\ b.off = 0
    BY <1>3, <2>1 DEF places
  <2> HIDE DEF b
  <2> QED BY <2>2
<1>5. LeadsTo(g, p, a, b)
  <2>1. b.k <= Len(enqued[p])
    BY <1>2, <1>3, <1>4
  <2>2. \A i \in 1..k : g.payload[i].pkt = enqued[p][a.k + i]
    <3>1. \A i \in 1..k : i \in 1..n
      BY <1>2
    <3> QED BY <1>3, <3>1
  <2> QED BY <1>3, <1>4, <2>1, <2>2 DEF LeadsTo
<1>6. Len(v.q) = n - k /\ \A i \in 1..(n - k) : v.q[i] = w.q[k + i]
  <2>1. PICK q \in Seq(packets) : q = w.q /\ Len(q) = n
    BY <1>1, <1>2
  <2>2. k \in Nat /\ k <= n /\ k >= 1
    BY <1>2
  <2>3. Len(SubSeq(q, k + 1, n)) = n - k
    BY <2>1, <2>2
  <2>4. \A i \in 1..(n - k) : SubSeq(q, k + 1, n)[i] = q[k + i]
    <3> SUFFICES ASSUME NEW i \in 1..(n - k)
                 PROVE  SubSeq(q, k + 1, n)[i] = q[k + i]
      OBVIOUS
    <3>1. k + 1 \in 1..(n + 1) /\ i \in 1..(n - (k + 1) + 1)
      BY <2>2
    <3>2. (k + 1) + i - 1 = k + i
      BY <2>2
    <3> QED BY <2>1, <2>2, <3>1, <3>2
  <2> QED BY <1>2, <2>1, <2>3, <2>4
<1>7. WrittenTo(p, b)'
  <2>1. b.k + Len(v.q) = Len(enqued[p])
    <3>1. a.k \in Nat /\ k \in Nat /\ n \in Nat /\ Len(v.q) = n - k /\ b.k = a.k + k
      BY <1>2, <1>3, <1>4, <1>6
    <3>2. b.k + (n - k) = a.k + n
      BY <3>1
    <3> QED BY <1>3, <3>1, <3>2
  <2>2. \A i \in 1..Len(v.q) : v.q[i] = enqued[p][b.k + i]
    <3> SUFFICES ASSUME NEW i \in 1..(n - k)
                 PROVE  v.q[i] = enqued[p][b.k + i]
      BY <1>6
    <3>1. k + i \in 1..n
      BY <1>2
    <3>2. a.k \in Nat /\ k \in Nat /\ i \in Nat /\ b.k = a.k + k
      BY <1>2, <1>3, <1>4
    <3>3. a.k + (k + i) = b.k + i
      BY <3>2
    <3> QED BY <1>3, <1>6, <3>1, <3>3
  <2> QED BY <1>4, <2>1, <2>2 DEF WrittenTo
<1> QED BY <1>5, <1>7

\* The writer takes whole packets from the queue, and is writing none.
LEMMA TogetherKeeps ==
  ASSUME FramingInv, NEW p \in Queues, Turn(p), MuxFrame, ~m_q[p].writing, Head(m_q[p].q).size <= allot,
         fill(m_q[p], allot) = together(m_q[p], allot)
  PROVE  FramingInv'
<1>1. PICK w \in Writers : w = m_q[p]
  BY DEF FramingInv, FramingTypeOK
<1>2. w.q \in Seq(packets) /\ w.q # <<>> /\ ~w.writing
  BY <1>1 DEF Writers, Turn
<1>3. muxing.on /\ muxing.frameLen >= c_overhead + c_blockSize /\ FrameHasBlocks
  BY DEF Turn, FramingInv
<1>4. allot \in Nat /\ allot >= c_blockSize
  BY <1>3, RoomIs
<1>5. PICK k \in 1..Len(w.q) : k = packed(w.q, allot) /\ sizeOf(w.q, k) <= allot
  BY <1>1, <1>2, <1>4, PackedIs
<1>6. PICK len \in Nat : len = sizeOf(w.q, k) /\ len <= allot
  <2>1. k \in 0..Len(w.q)
    BY <1>2, <1>5
  <2>2. sizeOf(w.q, k) \in Nat
    BY <1>2, <2>1, SizeIs
  <2> QED BY <1>5, <2>2
<1>7. PICK payload : payload = whole(w.q, k)
  OBVIOUS
<1>8. /\ payload \in Seq(parts) /\ payload # <<>> /\ Len(payload) = k
      /\ DOMAIN payload = 1..k /\ \A i \in 1..k : payload[i].pkt = w.q[i]
      /\ lengthOf(lens(payload)) = len
  BY <1>2, <1>5, <1>6, <1>7, WholePieces
<1>9. PICK pieces \in Seq([pkt : packets, from : Nat, len : Nat]) : pieces = payload
  BY <1>8 DEF parts
<1>10. PICK q \in Seq(packets) : q = SubSeq(w.q, k + 1, Len(w.q))
  <2>1. PICK s \in Seq(packets) : s = w.q
    BY <1>2
  <2>2. PICK n \in Nat : n = Len(s)
    BY <2>1
  <2>3. k + 1 \in Nat /\ k + 1 >= 1
    BY <1>5, <2>1, <2>2
  <2>4. SubSeq(s, k + 1, n) \in Seq(packets)
    BY <2>1, <2>2, <2>3
  <2> QED BY <2>1, <2>2, <2>4
<1>11. PICK u \in Writers :
           /\ u = [w EXCEPT !.q = q, !.remaining = 0]
           /\ u.remaining = 0 /\ u.writing = w.writing /\ u.q = q
           /\ u.multiFrame = w.multiFrame /\ u.sequence = w.sequence
  <2> DEFINE u == [w EXCEPT !.q = q, !.remaining = 0]
  <2>1. /\ u \in Writers /\ u.remaining = 0 /\ u.writing = w.writing /\ u.q = q
        /\ u.multiFrame = w.multiFrame /\ u.sequence = w.sequence
    BY DEF Writers
  <2>2. u = [w EXCEPT !.q = q, !.remaining = 0]
    OBVIOUS
  <2> HIDE DEF u
  <2> QED BY <2>1, <2>2
<1>12. together(w, allot) = [w |-> u, payload |-> pieces, first |-> FALSE]
  BY <1>5, <1>7, <1>9, <1>10, <1>11 DEF together, whole
<1>13. PICK v \in Writers : /\ v = IF u.remaining = 0 THEN [u EXCEPT !.multiFrame = FALSE] ELSE u
                            /\ v.remaining = u.remaining /\ v.writing = u.writing /\ v.q = u.q
                            /\ v.sequence = u.sequence
                            /\ u.remaining = 0 => v.multiFrame = FALSE
                            /\ u.remaining # 0 => v.multiFrame = u.multiFrame
  BY WriterRests
<1>14. v.remaining = 0 /\ ~v.writing /\ v.q = q /\ ~v.multiFrame
  BY <1>2, <1>11, <1>13
<1>15. PICK g \in Framed : /\ g = [multi |-> FALSE, sequence |-> 0, total |-> 0, payload |-> pieces]
                           /\ g.multi = FALSE /\ g.payload = pieces
  <2> DEFINE g == [multi |-> FALSE, sequence |-> 0, total |-> 0, payload |-> pieces]
  <2>0. 0 \in 0..(SequenceIds - 1)
    BY BlockIs
  <2>1. g \in Framed /\ g.multi = FALSE /\ g.payload = pieces
    BY <1>9, <2>0 DEF Framed
  <2>2. g = [multi |-> FALSE, sequence |-> 0, total |-> 0, payload |-> pieces]
    OBVIOUS
  <2> HIDE DEF g
  <2> QED BY <2>1, <2>2
<1>16. /\ m_q' = [m_q EXCEPT ![p] = v] /\ stream' = Append(stream, g)
       /\ muxing' = [muxing EXCEPT !.swapQueues = TRUE, !.frameLen = @ - frameSize(g.payload)]
       /\ m_sequenceId' = m_sequenceId /\ UNCHANGED <<m_incomplete, enqued, demuxed, invalid>>
  <2>1. PICK first \in BOOLEAN : first = FALSE
    OBVIOUS
  <2>2. fill(m_q[p], allot) = [w |-> u, payload |-> pieces, first |-> first] /\ pieces # <<>>
    BY <1>1, <1>8, <1>9, <1>12, <2>1
  <2>3. /\ m_sequenceId' = IF first THEN (m_sequenceId + 1) % SequenceIds ELSE m_sequenceId
        /\ m_q' = [m_q EXCEPT ![p] = IF u.remaining = 0 THEN [u EXCEPT !.multiFrame = FALSE] ELSE u]
        /\ stream' = Append(stream, [multi |-> u.multiFrame, sequence |-> IF u.multiFrame THEN u.sequence ELSE 0,
                                     total |-> IF first THEN Head(u.q).size ELSE 0, payload |-> pieces])
        /\ muxing' = [muxing EXCEPT !.swapQueues = TRUE, !.frameLen = @ - frameSize(pieces)]
        /\ UNCHANGED <<m_incomplete, enqued, demuxed, invalid>>
    BY <2>2, FrameIsWritten, Zenon
  <2>4. u.multiFrame = FALSE
    <3>1. w.remaining \in Nat /\ w.multiFrame \in BOOLEAN /\ ~w.multiFrame
      BY <1>1, <1>2 DEF Writers, FramingInv, PacketUnderWay
    <3> QED BY <1>11, <3>1
  <2>5. [multi |-> u.multiFrame, sequence |-> IF u.multiFrame THEN u.sequence ELSE 0,
         total |-> IF first THEN Head(u.q).size ELSE 0, payload |-> pieces] = g
    BY <1>15, <2>1, <2>4
  <2>6. m_q' = [m_q EXCEPT ![p] = v]
    BY <1>13, <2>3, Zenon
  <2>7. stream' = Append(stream, g)
    BY <2>3, <2>5, Zenon
  <2>8. m_sequenceId' = m_sequenceId
    BY <2>1, <2>3
  <2>9. muxing' = [muxing EXCEPT !.swapQueues = TRUE, !.frameLen = @ - frameSize(g.payload)]
    BY <1>15, <2>3, Zenon
  <2> QED BY <2>3, <2>6, <2>7, <2>8, <2>9, Zenon
<1>17. m_q'[p] = v /\ \A r \in Queues \ {p} : m_q'[r] = m_q[r]
  BY <1>16 DEF FramingInv, FramingTypeOK
<1>18. lengthOf([i \in DOMAIN g.payload |-> g.payload[i].len]) = len
  BY <1>8, <1>9, <1>15 DEF lens
<1>19. \A r \in Queues \ {p} : m_q[r].writing => \E c \in 0..(SequenceIds - 1) : TurnsTaken(r, c)'
  BY <1>6, <1>16, <1>17, <1>18, OthersLast
<1>20. SequencesLast'
  BY <1>14, <1>17, <1>19 DEF SequencesLast
<1>21. \A a \in places : WrittenTo(p, a) => \E b \in places : LeadsTo(g, p, a, b) /\ WrittenTo(p, b)'
  <2> SUFFICES ASSUME NEW a \in places, WrittenTo(p, a)
               PROVE  \E b \in places : LeadsTo(g, p, a, b) /\ WrittenTo(p, b)'
    OBVIOUS
  <2>1. /\ g.payload # <<>> /\ Len(g.payload) = k /\ DOMAIN g.payload = 1..k
        /\ \A i \in 1..k : g.payload[i].pkt = w.q[i]
    BY <1>8, <1>9, <1>15
  <2>2. ~g.multi /\ ~v.writing /\ v.q = SubSeq(w.q, k + 1, Len(w.q))
    BY <1>10, <1>14, <1>15
  <2>3. enqued' = enqued /\ m_q'[p] = v /\ w = m_q[p]
    BY <1>1, <1>16, <1>17
  <2> QED BY <1>5, <2>1, <2>2, <2>3, TogetherLeads
<1>22. m_sequenceId' \in 0..(SequenceIds - 1)
  BY <1>16 DEF FramingInv, FramingTypeOK
<1>23. /\ v.writing <=> v.remaining > 0
       /\ v.multiFrame <=> v.writing
       /\ v.writing => v.q # <<>> /\ sentOf(p)' > 0
       /\ \A r \in Queues \ {p} : v.writing /\ m_q[r].writing => v.sequence # m_q[r].sequence
  BY <1>14
<1> QED BY <1>6, <1>16, <1>18, <1>20, <1>21, <1>22, <1>23, FrameWritten

\* A round of mux: the queue whose turn it is has room for a block at least.
LEMMA MuxKeeps ==
  ASSUME FramingInv, MuxFrame
  PROVE  FramingInv'
<1>1. PICK p \in Queues : p = IF high THEN "high" ELSE "low"
  BY DEF Queues
<1>2. Turn(p)
  <2>1. /\ muxing.on /\ muxing.frameLen >= c_overhead + c_blockSize
        /\ \E r \in Queues : m_q[r].q # <<>>
    BY DEF MuxFrame
  <2>2. m_q[p].q # <<>>
    BY <1>1, <2>1 DEF Queues, high
  <2> QED BY <1>1, <2>1, <2>2 DEF Turn
<1>3. PICK room \in Nat : room = allot /\ ~(room < c_blockSize)
  <2>1. muxing.on /\ muxing.frameLen >= c_overhead + c_blockSize /\ FrameHasBlocks
    BY <1>2 DEF Turn, FramingInv
  <2>2. allot \in Nat /\ allot >= c_blockSize /\ c_blockSize \in Nat
    BY <2>1, RoomIs, BlockIs
  <2> QED BY <2>2
<1>4. PICK w \in Writers : w = m_q[p] /\ w.q \in Seq(packets) /\ w.q # <<>>
  BY <1>2 DEF FramingInv, FramingTypeOK, Writers, Turn
<1>5. Head(w.q).size \in Nat
  <2>1. Head(w.q) \in packets
    BY <1>4
  <2>2. Head(w.q).size \in Sizes
    BY <2>1 DEF packets
  <2> QED BY <2>2, BlockIs
<1>6. CASE w.writing
  <2>1. fill(w, room) = continued(w, room)
    BY <1>3, <1>6 DEF fill
  <2> QED BY <1>2, <1>3, <1>4, <1>6, <2>1, ContinuedKeeps
<1>7. CASE ~w.writing /\ Head(w.q).size > room
  <2>1. fill(w, room) = segmented(w, room)
    BY <1>3, <1>7 DEF fill
  <2> QED BY <1>2, <1>3, <1>4, <1>7, <2>1, SegmentedKeeps
<1>8. CASE ~w.writing /\ ~(Head(w.q).size > room)
  <2>1. fill(w, room) = together(w, room)
    BY <1>3, <1>8 DEF fill
  <2>2. Head(w.q).size <= room
    BY <1>3, <1>5, <1>8
  <2> QED BY <1>2, <1>3, <1>4, <1>8, <2>1, <2>2, TogetherKeeps
<1> QED BY <1>6, <1>7, <1>8

\* Every step keeps the invariant.
LEMMA FramingStep == FramingInv /\ [FramingNext]_framingVars => FramingInv'
<1> SUFFICES ASSUME FramingInv, [FramingNext]_framingVars
             PROVE  FramingInv'
  OBVIOUS
<1>1. CASE \E p \in Queues, size \in Sizes : enque(p, size)
  BY <1>1, EnqueKeeps
<1>2. CASE BeginMux
  BY <1>2, BeginKeeps
<1>3. CASE MuxFrame
  BY <1>3, MuxKeeps
<1>4. CASE EndMux
  BY <1>4, EndKeeps
<1>5. CASE Demux
  BY <1>5, DemuxKeeps
<1>6. CASE UNCHANGED framingVars
  <2>0. PICK at \in Ways : OnTheWay(at)
    BY DEF FramingInv
  <2>1. (\E a \in Ways : OnTheWay(a))'
    BY <1>6, <2>0, WayStays DEF framingVars
  <2>2. FramingTypeOK' /\ FrameHasBlocks'
    BY <1>6 DEF framingVars, FramingInv, FramingTypeOK, FrameHasBlocks
  <2>3. PacketUnderWay' /\ SequencesLast'
    BY <1>6 DEF framingVars, FramingInv, PacketUnderWay, SequencesLast, TurnsTaken, sentOf, roomFor
  <2>4. ~invalid' /\ \A p \in Queues : \A i \in DOMAIN enqued'[p] : enqued'[p][i].q = p
    BY <1>6 DEF framingVars, FramingInv
  <2> QED BY <2>1, <2>2, <2>3, <2>4 DEF FramingInv
<1> QED BY <1>1, <1>2, <1>3, <1>4, <1>5, <1>6 DEF FramingNext

\* What the reader has made is a prefix, and all once nothing is on its way.
LEMMA CarriedAre == FramingInv => FramesCarryPackets
<1> SUFFICES ASSUME FramingInv
             PROVE  FramesCarryPackets
  OBVIOUS
<1>1. PICK at \in Ways : OnTheWay(at)
  BY DEF FramingInv
<1>2. Len(stream) \in Nat /\ \A p \in Queues : enqued[p] \in Seq(packets) /\ demuxed[p] \in Seq(packets)
  BY DEF FramingInv, FramingTypeOK
<1>3. \A p \in Queues : at[0][p] \in places
  BY <1>2 DEF Ways
<1>4. ASSUME NEW p \in Queues
      PROVE  IsPrefix(demuxed[p], enqued[p])
  <2>1. ReadTo(p, at[0][p])
    BY <1>1 DEF OnTheWay
  <2>2. PICK d \in Seq(packets), e \in Seq(packets) : d = demuxed[p] /\ e = enqued[p]
    BY <1>2
  <2>3. Len(d) <= Len(e) /\ \A i \in 1..Len(d) : d[i] = e[i]
    BY <2>1, <2>2 DEF ReadTo
  <2>4. Len(d) \in Nat /\ Len(e) \in Nat
    BY <2>2
  <2>5. d = SubSeq(e, 1, Len(d))
    <3>1. PICK s \in Seq(packets) : s = SubSeq(e, 1, Len(d))
      BY <2>2, <2>3, <2>4
    <3>2. Len(s) = Len(d)
      BY <2>2, <2>3, <2>4, <3>1
    <3>3. \A i \in 1..Len(d) : s[i] = d[i]
      BY <2>2, <2>3, <2>4, <3>1
    <3>4. s = d
      BY <2>2, <2>4, <3>1, <3>2, <3>3
    <3> QED BY <3>1, <3>4
  <2> QED BY <2>2, <2>3, <2>5 DEF IsPrefix
<1>5. stream = <<>> /\ (\A p \in Queues : m_q[p].q = <<>>) => demuxed = enqued
  <2> SUFFICES ASSUME stream = <<>>, \A p \in Queues : m_q[p].q = <<>>
               PROVE  demuxed = enqued
    OBVIOUS
  <2>1. Len(stream) = 0
    OBVIOUS
  <2>2. ASSUME NEW p \in Queues
        PROVE  demuxed[p] = enqued[p]
    <3>1. PICK a \in places : a = at[0][p] /\ ReadTo(p, a) /\ WrittenTo(p, a)
      BY <1>1, <1>3, <2>1 DEF OnTheWay
    <3>2. PICK d \in Seq(packets), e \in Seq(packets) : d = demuxed[p] /\ e = enqued[p]
      BY <1>2
    <3>3. Len(d) \in Nat /\ Len(e) \in Nat
      BY <3>2
    <3>4. a.k = Len(d) /\ \A i \in 1..a.k : d[i] = e[i]
      BY <3>1, <3>2 DEF ReadTo
    <3>5. a.k + 0 = Len(e)
      <4>1. Len(m_q[p].q) = 0
        OBVIOUS
      <4> QED BY <3>1, <3>2, <4>1 DEF WrittenTo
    <3>6. Len(d) = Len(e)
      BY <3>3, <3>4, <3>5
    <3> QED BY <3>2, <3>3, <3>4, <3>6
  <2>3. demuxed \in [Queues -> Seq(packets)] /\ enqued \in [Queues -> Seq(packets)]
    BY DEF FramingInv, FramingTypeOK
  <2> QED BY <2>2, <2>3
<1>6. ~invalid /\ muxing.frameLen >= 0
  BY DEF FramingInv, FramingTypeOK
<1> QED BY <1>4, <1>5, <1>6 DEF FramesCarryPackets

(***************************************************************************)
(* Whatever the sizes of frames and packets, the order in which they are   *)
(* queued and the moments at which mux and demux run, packets go through   *)
(* the frames as through two FIFO channels: complete, in order, once, and  *)
(* demux never throws.  mux stays within the size it was given.            *)
(* RLPXFrameWriter.cpp:45-162, RLPXFrameReader.cpp:28-95.                  *)
(***************************************************************************)
THEOREM PacketsAreCarried == FramingSpec => []FramesCarryPackets
<1>1. FramingInit => FramingInv
  BY FramingInitially
<1>2. FramingInv /\ [FramingNext]_framingVars => FramingInv'
  BY FramingStep
<1>3. FramingInv => FramesCarryPackets
  BY CarriedAre
<1> QED BY <1>1, <1>2, <1>3, PTL DEF FramingSpec
=============================================================================
