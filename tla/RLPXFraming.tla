----------------------------- MODULE RLPXFraming -----------------------------
(***************************************************************************)
(* RLPXFrameWriter::mux and RLPXFrameReader::demux for one protocol: two   *)
(* queues of packets become a stream of frames of bounded size, several    *)
(* packets in a frame or several frames for a packet, and become packets   *)
(* again at the other end.  A packet is its queue, its number and its      *)
(* size; a piece of one is [pkt, from, len].  Encryption is the order of   *)
(* the frames: the coder's MAC and cipher state admit no other.            *)
(***************************************************************************)
EXTENDS Naturals, Sequences, SequencesExt, FiniteSets, FiniteSetsExt

CONSTANTS
    c_blockSize, c_overhead, \* h128::size, and three of them
    MaxFrameSize,            \* what multiplexAll passes to mux
    SequenceIds,             \* values of the 16-bit m_sequenceId
    Sizes,                   \* sizes of packets, type included
    MaxQueued                \* bound: packets per queue

\* The blocks of a frame, and what a packet has of one at least while it takes
\* turns with the other queue.
frameBlocks == MaxFrameSize \div c_blockSize
share == (frameBlocks \div 2) * c_blockSize - c_overhead

\* Half a frame holds more than a block, as with 1024 bytes; and no packet lasts
\* as many shares as there are sequence ids, as with 65536 and 16 megabytes.
ASSUME FrameAssumption ==
    /\ c_blockSize \in Nat \ {0} /\ c_overhead = 3 * c_blockSize
    /\ MaxFrameSize \in Nat /\ (frameBlocks * c_blockSize) \div 2 > c_overhead + c_blockSize
    /\ SequenceIds \in Nat \ {0}
    /\ \A s \in Sizes : s \in Nat /\ s > 1 /\ s <= (SequenceIds - 1) * share

Queues == {"high", "low"}
NoPacket == [q |-> "none", n |-> 0, size |-> 0]

VARIABLES
    m_q,          \* WriterState of each queue: [q, writing, remaining, multiFrame, sequence]
    m_sequenceId,
    muxing,       \* locals of mux: [on, frameLen, swapQueues]
    stream,       \* frames on their way, in order
    m_incomplete, \* of the reader: per sequence id [pkt, remaining], or None
    enqued,       \* history: packets per queue
    demuxed,      \* history: packets per queue, with what the reader made of them
    invalid       \* demux threw RLPXInvalidPacket

framingVars == <<m_q, m_sequenceId, muxing, stream, m_incomplete, enqued, demuxed, invalid>>

Nothing == [pkt |-> NoPacket, remaining |-> 0]

FramingInit ==
    /\ m_q = [p \in Queues |-> [q |-> <<>>, writing |-> FALSE, remaining |-> 0,
                                multiFrame |-> FALSE, sequence |-> SequenceIds - 1]]
    /\ m_sequenceId = 0
    /\ muxing = [on |-> FALSE, frameLen |-> 0, swapQueues |-> FALSE]
    /\ stream = <<>>
    /\ m_incomplete = [s \in 0..(SequenceIds - 1) |-> Nothing]
    /\ enqued = [p \in Queues |-> <<>>] /\ demuxed = [p \in Queues |-> <<>>]
    /\ invalid = FALSE

-----------------------------------------------------------------------------
(* The writer.                                                             *)

enque(p, size) ==
    /\ ~muxing.on /\ Len(enqued[p]) < MaxQueued
    /\ LET pkt == [q |-> p, n |-> Len(enqued[p]) + 1, size |-> size]
       IN  /\ m_q' = [m_q EXCEPT ![p].q = Append(@, pkt)]
           /\ enqued' = [enqued EXCEPT ![p] = Append(@, pkt)]
    /\ UNCHANGED <<m_sequenceId, muxing, stream, m_incomplete, demuxed, invalid>>

\* mux is called when a packet was queued or a frame was written.
BeginMux ==
    /\ ~muxing.on
    /\ \E p \in Queues : m_q[p].q # <<>>
    /\ muxing' = [on |-> TRUE, frameLen |-> frameBlocks * c_blockSize,
                  swapQueues |-> FALSE]
    /\ UNCHANGED <<m_q, m_sequenceId, stream, m_incomplete, enqued, demuxed, invalid>>

lengthOf(lengths) ==
    LET sum[i \in 0..Len(lengths)] == IF i = 0 THEN 0 ELSE sum[i - 1] + lengths[i]
    IN  sum[Len(lengths)]

\* The packets at the head of queue q that share a frame of the given room:
\* each is begun only if a block is left, and must fit as a whole.
sizeOf(q, k) == lengthOf([i \in 1..k |-> q[i].size])

packed(q, room) ==
    Max({k \in 0..Len(q) : \A i \in 1..k :
            sizeOf(q, i - 1) + c_blockSize <= room /\ sizeOf(q, i) <= room})

piece(pkt, from, len) == [pkt |-> pkt, from |-> from, len |-> len]

\* A plausible bug: a packet is done after its second frame.
continuedWhole(w, room) ==
    LET len == IF w.remaining <= room THEN w.remaining ELSE room
    IN  [w |-> [w EXCEPT !.writing = FALSE, !.q = Tail(@)],
         payload |-> <<piece(Head(w.q), Head(w.q).size - w.remaining, len)>>, first |-> FALSE]

\* One frame of the queue p: the state of its writer afterwards, the pieces
\* in the frame, and whether it takes a new sequence id.
continued(w, room) ==
    LET len == IF w.remaining <= room THEN w.remaining ELSE room
        pkt == Head(w.q)
    IN  [w |-> [w EXCEPT !.remaining = @ - len, !.writing = (len < w.remaining),
                         !.q = IF len < w.remaining THEN @ ELSE Tail(@)],
         payload |-> <<piece(pkt, pkt.size - w.remaining, len)>>, first |-> FALSE]

segmented(w, room) ==
    [w |-> [w EXCEPT !.remaining = Head(w.q).size - room, !.writing = TRUE, !.multiFrame = TRUE,
                     !.sequence = (m_sequenceId + 1) % SequenceIds],
     payload |-> <<piece(Head(w.q), 0, room)>>, first |-> TRUE]

together(w, room) ==
    LET k == packed(w.q, room)
    IN  [w |-> [w EXCEPT !.q = SubSeq(@, k + 1, Len(@)), !.remaining = 0],
         payload |-> [i \in 1..k |-> piece(w.q[i], 0, w.q[i].size)], first |-> FALSE]

fill(w, room) ==
    CASE room < c_blockSize    -> [w |-> w, payload |-> <<>>, first |-> FALSE]
      [] w.writing             -> continued(w, room)
      [] ~w.writing /\ Head(w.q).size > room -> segmented(w, room)
      [] OTHER                 -> together(w, room)

\* One round of the loop of mux: the high queue goes first and shares the
\* frame with the low one, which goes first from then on.
high == m_q["high"].q # <<>> /\ (~muxing.swapQueues \/ m_q["low"].q = <<>>)

allot ==
    (IF ~muxing.swapQueues /\ (\A p \in Queues : m_q[p].q # <<>>)
        /\ muxing.frameLen \div 2 # c_overhead + c_blockSize
     THEN muxing.frameLen \div 2 ELSE muxing.frameLen) - c_overhead

frameSize(payload) ==
    LET len == lengthOf([i \in DOMAIN payload |-> payload[i].len])
    IN  c_overhead + ((len + c_blockSize - 1) \div c_blockSize) * c_blockSize

MuxFrame ==
    /\ muxing.on
    /\ muxing.frameLen >= c_overhead + c_blockSize
    /\ \E p \in Queues : m_q[p].q # <<>>
    /\ LET p == IF high THEN "high" ELSE "low"
           f == fill(m_q[p], allot)
           w == f.w
           multi == w.multiFrame
       IN  /\ m_sequenceId' = IF f.first THEN (m_sequenceId + 1) % SequenceIds ELSE m_sequenceId
           /\ m_q' = [m_q EXCEPT ![p] = IF f.payload # <<>> /\ w.remaining = 0
                                        THEN [w EXCEPT !.multiFrame = FALSE] ELSE w]
           /\ IF f.payload # <<>>
              THEN /\ stream' = Append(stream, [multi |-> multi, sequence |-> IF multi THEN w.sequence ELSE 0,
                                  total |-> IF f.first THEN Head(w.q).size ELSE 0, payload |-> f.payload])
                   /\ muxing' = [muxing EXCEPT !.swapQueues = TRUE, !.frameLen = @ - frameSize(f.payload)]
              ELSE /\ muxing' = [muxing EXCEPT !.swapQueues = TRUE, !.on = ~muxing.swapQueues]
                   /\ UNCHANGED stream
    /\ UNCHANGED <<m_incomplete, enqued, demuxed, invalid>>

EndMux ==
    /\ muxing.on
    /\ muxing.frameLen < c_overhead + c_blockSize \/ \A p \in Queues : m_q[p].q = <<>>
    /\ muxing' = [on |-> FALSE, frameLen |-> 0, swapQueues |-> FALSE]
    /\ UNCHANGED <<m_q, m_sequenceId, stream, m_incomplete, enqued, demuxed, invalid>>

-----------------------------------------------------------------------------
(* The reader.                                                             *)

\* A packet is valid if all of it is there, in order.
deliver(pkts) ==
    demuxed' = [p \in Queues |-> IF pkts # <<>> /\ pkts[1].q = p THEN demuxed[p] \o pkts ELSE demuxed[p]]

\* The continuation of a packet of which pieces have arrived.
continues(f) ==
    LET r == m_incomplete[f.sequence].remaining
    IN  f.multi /\ r > 0 /\ f.total = 0 /\ f.payload[1].len <= r

ContinuePacket(f) ==
    LET i == m_incomplete[f.sequence]
        x == f.payload[1]
    IN  IF x.pkt # i.pkt \/ x.from # i.pkt.size - i.remaining
        THEN invalid' = TRUE /\ UNCHANGED <<m_incomplete, demuxed>>
        ELSE /\ m_incomplete' = [m_incomplete EXCEPT ![f.sequence] =
                    IF x.len = i.remaining THEN Nothing ELSE [i EXCEPT !.remaining = @ - x.len]]
             /\ deliver(IF x.len = i.remaining THEN <<i.pkt>> ELSE <<>>)
             /\ UNCHANGED invalid

\* A new packet, or several; what is left of a sequence id is dropped.
NewPackets(f) ==
    LET x == f.payload[1]
        remaining == IF f.total > x.len THEN f.total - x.len ELSE 0
    IN  IF f.multi
        THEN IF x.from # 0 \/ remaining = 0
             THEN invalid' = TRUE /\ UNCHANGED <<m_incomplete, demuxed>>
             ELSE /\ m_incomplete' = [m_incomplete EXCEPT ![f.sequence] = [pkt |-> x.pkt, remaining |-> remaining]]
                  /\ UNCHANGED <<demuxed, invalid>>
        ELSE /\ deliver([i \in DOMAIN f.payload |-> f.payload[i].pkt])
             /\ UNCHANGED <<m_incomplete, invalid>>

Demux ==
    /\ stream # <<>> /\ ~invalid
    /\ stream' = Tail(stream)
    /\ IF continues(Head(stream)) THEN ContinuePacket(Head(stream)) ELSE NewPackets(Head(stream))
    /\ UNCHANGED <<m_q, m_sequenceId, muxing, enqued>>

FramingNext ==
    \/ \E p \in Queues, size \in Sizes : enque(p, size)
    \/ BeginMux \/ MuxFrame \/ EndMux
    \/ Demux

FramingSpec == FramingInit /\ [][FramingNext]_framingVars

-----------------------------------------------------------------------------
(* Properties.                                                             *)

\* The multiplexer is two FIFO channels: however packets are packed,
\* segmented and interleaved, the packets that come out of the reader are
\* those of each queue, complete, in order and once, and demux never throws.
\* Once nothing is queued or on its way all of them have come out.  mux stays
\* within the size it was given, from which it subtracts without a sign.
FramesCarryPackets ==
    /\ ~invalid
    /\ muxing.frameLen >= 0
    /\ \A p \in Queues : IsPrefix(demuxed[p], enqued[p])
    /\ stream = <<>> /\ (\A p \in Queues : m_q[p].q = <<>>) => demuxed = enqued

-----------------------------------------------------------------------------
(* The inductive invariant behind it.                                      *)

packets == [q : Queues, n : Nat, size : Sizes]
Writers == [q : Seq(packets), writing : BOOLEAN, remaining : Nat, multiFrame : BOOLEAN,
            sequence : 0..(SequenceIds - 1)]
Framed == [multi : BOOLEAN, sequence : 0..(SequenceIds - 1), total : Nat,
           payload : Seq([pkt : packets, from : Nat, len : Nat])]

FramingTypeOK ==
    /\ m_q \in [Queues -> Writers] /\ m_sequenceId \in 0..(SequenceIds - 1)
    /\ muxing \in [on : BOOLEAN, frameLen : Nat, swapQueues : BOOLEAN]
    /\ stream \in Seq(Framed)
    /\ m_incomplete \in [0..(SequenceIds - 1) -> [pkt : packets \cup {NoPacket}, remaining : Nat]]
    /\ enqued \in [Queues -> Seq(packets)] /\ demuxed \in [Queues -> Seq(packets)]

\* What is left of a frame are blocks, all of them when mux begins.
FrameHasBlocks ==
    \E n \in 0..frameBlocks :
        /\ muxing.frameLen = n * c_blockSize
        /\ muxing.on /\ ~muxing.swapQueues => n = frameBlocks

\* A queue is writing a packet of which bytes are left, in several frames.
sentOf(p) == Head(m_q[p].q).size - m_q[p].remaining

PacketUnderWay ==
    \A p \in Queues :
        /\ m_q[p].writing <=> m_q[p].remaining > 0
        /\ m_q[p].multiFrame <=> m_q[p].writing
        /\ m_q[p].writing => m_q[p].q # <<>> /\ sentOf(p) > 0

\* Of a packet that takes turns with c packets of the other queue c shares
\* have been sent, one less if its turn in this frame is still to come, or if
\* the high queue, which goes first, waits for the next frame.  So its sequence
\* id is not yet given to another.
roomFor(n) == muxing.on /\ muxing.swapQueues /\ muxing.frameLen >= c_overhead + n

TurnsTaken(p, c) ==
    /\ m_sequenceId \in {m_q[p].sequence + c, m_q[p].sequence + c - SequenceIds}
    /\ c * share + c_blockSize <= sentOf(p) + share
    /\ c * share + c_blockSize <= sentOf(p)
         \/ IF p = "high" THEN ~roomFor(c_blockSize) ELSE roomFor(share)

SequencesLast == \A p \in Queues : m_q[p].writing => \E c \in 0..(SequenceIds - 1) : TurnsTaken(p, c)

\* A place in the packets of a queue: k of them, and off bytes of the next in
\* frames of the sequence id.
places == [k : Nat, off : Nat, id : 0..(SequenceIds - 1)]

\* at is where the reader is in queue p, or the writer
ReadTo(p, at) ==
    /\ at.k = Len(demuxed[p]) /\ at.k <= Len(enqued[p])
    /\ \A i \in 1..at.k : demuxed[p][i] = enqued[p][i]
    /\ at.off > 0 =>
        /\ at.k < Len(enqued[p]) /\ at.off < enqued[p][at.k + 1].size
        /\ m_incomplete[at.id] = [pkt |-> enqued[p][at.k + 1],
                                  remaining |-> enqued[p][at.k + 1].size - at.off]

WrittenTo(p, at) ==
    /\ at.k + Len(m_q[p].q) = Len(enqued[p])
    /\ \A i \in 1..Len(m_q[p].q) : m_q[p].q[i] = enqued[p][at.k + i]
    /\ at.off = IF m_q[p].writing THEN sentOf(p) ELSE 0
    /\ m_q[p].writing => at.id = m_q[p].sequence

\* frame f leads from place a to place b of queue p
LeadsTo(f, p, a, b) ==
    /\ f.payload # <<>>
    /\ \/ /\ ~f.multi
          /\ a.off = 0 /\ b.off = 0 /\ b.k = a.k + Len(f.payload) /\ b.k <= Len(enqued[p])
          /\ \A i \in DOMAIN f.payload : f.payload[i].pkt = enqued[p][a.k + i]
       \/ /\ f.multi /\ a.k < Len(enqued[p])
          /\ LET pkt == enqued[p][a.k + 1]
                 len == f.payload[1].len
             IN  /\ len > 0 /\ f.payload[1] = piece(pkt, a.off, len)
                 /\ \/ a.off = 0 /\ f.total = pkt.size /\ len < pkt.size
                    \/ a.off > 0 /\ f.total = 0 /\ f.sequence = a.id /\ a.off + len <= pkt.size
                 /\ IF a.off + len = pkt.size THEN b.k = a.k + 1 /\ b.off = 0
                    ELSE b = [k |-> a.k, off |-> a.off + len, id |-> f.sequence]

\* no two packets under way have one sequence id
Apart(at) == at["high"].off > 0 /\ at["low"].off > 0 => at["high"].id # at["low"].id

\* at[i] is the place of each queue after i of the frames on their way
Ways == [0..Len(stream) -> [Queues -> places]]
OnTheWay(at) ==
    /\ \A p \in Queues : ReadTo(p, at[0][p]) /\ WrittenTo(p, at[Len(stream)][p])
    /\ \A i \in 0..Len(stream) : Apart(at[i])
    /\ \A i \in 1..Len(stream) : \E p \in Queues :
         /\ LeadsTo(stream[i], p, at[i - 1][p], at[i][p])
         /\ \A r \in Queues \ {p} : at[i][r] = at[i - 1][r]

FramingInv ==
    /\ FramingTypeOK /\ FrameHasBlocks /\ PacketUnderWay /\ SequencesLast
    /\ ~invalid /\ \A p \in Queues : \A i \in DOMAIN enqued[p] : enqued[p][i].q = p
    /\ \E at \in Ways : OnTheWay(at)
=============================================================================
