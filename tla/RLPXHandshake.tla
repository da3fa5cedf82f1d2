---------------------------- MODULE RLPXHandshake ----------------------------
(***************************************************************************)
(* dev::p2p::RLPXHandshake (libp2p/RLPxHandshake.cpp): the two ends of one *)
(* connection, from start() to Host::startPeerSession.                     *)
(*                                                                         *)
(* An end has one asynchronous operation at a time.  The operation ends    *)
(* when its handler is queued, the handler runs later: in between,         *)
(* the idle timer, the Host or the other end may have done something, and  *)
(* a handler that is queued cannot be called back.  TCP is a queue of      *)
(* messages each way, and may break.  An end may belong to another         *)
(* program, which sends what it likes.                                     *)
(***************************************************************************)
EXTENDS Naturals, Sequences

CONSTANT MaxForeign \* bound: messages that another program sends

ASSUME ForeignAssumption == MaxForeign \in Nat

Ends == {"egress", "ingress"}

Messages == {"auth", "authEIP8", "ack", "ackEIP8", "hello",
             "malformed",   \* decrypts, but is not the RLP it should be
             "garbage"}     \* does not decrypt, or is a frame too large

States == {"Error", "New", "AckAuth", "AckAuthEIP8", "WriteHello", "ReadHello", "StartSession"}

VARIABLES
    foreign,        \* the ends of another program
    sent,           \* messages sent by those
    m_nextState,
    op,             \* the asynchronous operation, and whether it has ended
    timer,          \* m_idleTimer: waiting, and a handler queued by an expiry
    m_cancel,
    m_io,           \* "none", the frame coder, or given away
    m_socket,
    wire,           \* messages on the way to an end
    session         \* what startPeerSession made of the connection

vars == <<foreign, sent, m_nextState, op, timer, m_cancel, m_io, m_socket, wire, session>>

Operations == {"none", "write", "readAuth", "readAuthRest", "readAck", "readAckRest",
               "readHeader", "readFrame"}

\* The values the variables take.
TypeOK ==
    /\ foreign \subseteq Ends /\ sent \in 0 .. MaxForeign
    /\ m_nextState \in [Ends -> States]
    /\ op \in [Ends -> [what : Operations, msg : Messages \cup {"none"},
                        status : {"pending", "ok", "failed"}]]
    /\ timer \in [Ends -> [armed : BOOLEAN, queued : BOOLEAN]]
    /\ m_cancel \in [Ends -> BOOLEAN]
    /\ m_io \in [Ends -> {"none", "coder", "moved"}]
    /\ m_socket \in [Ends -> {"open", "closed"}]
    /\ wire \in [Ends -> Seq(Messages)]
    /\ session \in [Ends -> {"none", "live", "over"}]

other(e) == IF e = "egress" THEN "ingress" ELSE "egress"

m_originated(e) == e = "egress"

idle == [what |-> "none", msg |-> "none", status |-> "ok"]

Read(what) == [what |-> what, msg |-> "none", status |-> "pending"]

Write(m) == [what |-> "write", msg |-> m, status |-> "pending"]

Init ==
    /\ foreign \in {{}} \cup {{e} : e \in Ends}
    /\ sent = 0
    /\ m_nextState = [e \in Ends |-> "New"]
    /\ op = [e \in Ends |-> idle]
    /\ timer = [e \in Ends |-> [armed |-> FALSE, queued |-> FALSE]]
    /\ m_cancel = [e \in Ends |-> FALSE]
    /\ m_io = [e \in Ends |-> "none"]
    /\ m_socket = [e \in Ends |-> "open"]
    /\ wire = [e \in Ends |-> <<>>]
    /\ session = [e \in Ends |-> "none"]

\* No handler holds the handshake any more: it is destroyed.
released(e) == op[e].what = "none" /\ timer[e] = [armed |-> FALSE, queued |-> FALSE]

-----------------------------------------------------------------------------
(* transition().                                                           *)

\* Faulty variant: the socket stays open.
cancelKeepsSocket(e, queued) ==
    /\ m_cancel' = [m_cancel EXCEPT ![e] = TRUE]
    /\ timer' = [timer EXCEPT ![e] = [armed |-> FALSE, queued |-> queued]]
    /\ m_io' = [m_io EXCEPT ![e] = IF @ = "moved" THEN @ ELSE "none"]
    /\ UNCHANGED m_socket

\* cancel(), which also is what error() comes to: the operation that is
\* pending, if there is one, will fail.
cancel(e, queued) ==
    /\ m_cancel' = [m_cancel EXCEPT ![e] = TRUE]
    /\ timer' = [timer EXCEPT ![e] = [armed |-> FALSE, queued |-> queued]]
    /\ m_socket' = [m_socket EXCEPT ![e] = "closed"]
    /\ m_io' = [m_io EXCEPT ![e] = IF @ = "moved" THEN @ ELSE "none"]

\* A handler, at its end, reports an error.
error(e, state) ==
    /\ cancel(e, timer[e].queued)
    /\ m_nextState' = [m_nextState EXCEPT ![e] = state]
    /\ op' = [op EXCEPT ![e] = idle]
    /\ UNCHANGED <<wire, session>>

\* Faulty variant: an end waits for the other's Hello before it sends its own.
sendHelloLast == [to |-> "ReadHello", starts |-> Read("readHeader")]

sendHello == [to |-> "ReadHello", starts |-> Write("hello")]

\* What an end does in a state: the next one, and the operation it starts.
step(e, state) ==
    CASE state = "New" -> [to |-> "AckAuth",
                           starts |-> IF m_originated(e) THEN Write("auth") ELSE Read("readAuth")]
      [] state = "AckAuth" -> [to |-> "WriteHello",
                           starts |-> IF m_originated(e) THEN Read("readAck") ELSE Write("ack")]
      [] state = "AckAuthEIP8" -> [to |-> "WriteHello", starts |-> Write("ackEIP8")] \* ingress
      [] state = "WriteHello" -> sendHello
      [] state = "ReadHello" -> [to |-> "StartSession", starts |-> Read("readHeader")]
      [] OTHER -> [to |-> state, starts |-> idle]

transition(e, state) ==
    IF state = "Error" \/ m_cancel[e] THEN error(e, state)
    ELSE /\ timer' = [timer EXCEPT ![e].armed = TRUE]
         /\ m_nextState' = [m_nextState EXCEPT ![e] = step(e, state).to]
         /\ op' = [op EXCEPT ![e] = step(e, state).starts]
         /\ m_io' = IF state = "WriteHello" THEN [m_io EXCEPT ![e] = "coder"] ELSE m_io
         /\ UNCHANGED <<m_cancel, m_socket, wire, session>>

\* A handler goes on reading, without a transition: the timer runs on.
readOn(e, what) ==
    /\ op' = [op EXCEPT ![e] = [Read(what) EXCEPT !.msg = op[e].msg]]
    /\ UNCHANGED <<m_nextState, timer, m_cancel, m_io, m_socket, wire, session>>

\* A handler throws: the exception ends in Host::doWork.
throws(e) ==
    /\ op' = [op EXCEPT ![e] = idle]
    /\ UNCHANGED <<m_nextState, timer, m_cancel, m_io, m_socket, wire, session>>

-----------------------------------------------------------------------------
(* Handlers.                                                               *)

completed(e, what, msgs) == op[e].what = what /\ op[e].status = "ok" /\ op[e].msg \in msgs

Start(e) ==
    /\ m_nextState[e] = "New" /\ op[e] = idle /\ ~m_cancel[e] /\ e \notin foreign
    /\ transition(e, "New")
    /\ UNCHANGED <<foreign, sent>>

OperationFailed(e) ==
    /\ op[e].what # "none" /\ op[e].status = "failed"
    /\ error(e, m_nextState[e])
    /\ UNCHANGED <<foreign, sent>>

Written(e) ==
    /\ completed(e, "write", Messages)
    /\ transition(e, m_nextState[e])
    /\ UNCHANGED <<foreign, sent>>

\* readAuth and readAck: what is not in the old format may be in the new one.
FirstPartRead(e) ==
    /\ \/ completed(e, "readAuth", {"auth"}) /\ transition(e, m_nextState[e])
       \/ completed(e, "readAuth", Messages \ {"auth"}) /\ readOn(e, "readAuthRest")
       \/ completed(e, "readAck", {"ack"}) /\ transition(e, m_nextState[e])
       \/ completed(e, "readAck", Messages \ {"ack"}) /\ readOn(e, "readAckRest")
    /\ UNCHANGED <<foreign, sent>>

\* readAuthEIP8 and readAckEIP8.
RestRead(e) ==
    /\ \/ completed(e, "readAuthRest", {"authEIP8"}) /\ transition(e, "AckAuthEIP8")
       \/ completed(e, "readAckRest", {"ackEIP8"}) /\ transition(e, m_nextState[e])
       \/ completed(e, "readAuthRest", {"malformed"}) /\ throws(e)
       \/ completed(e, "readAckRest", {"malformed"}) /\ throws(e)
       \/ completed(e, "readAuthRest", Messages \ {"authEIP8", "malformed"}) /\ transition(e, "Error")
       \/ completed(e, "readAckRest", Messages \ {"ackEIP8", "malformed"}) /\ transition(e, "Error")
    /\ UNCHANGED <<foreign, sent>>

\* The header of the Hello frame has been read.
HeaderRead(e) ==
    /\ \/ completed(e, "readHeader", Messages \ {"garbage"}) /\ m_io[e] = "coder" /\ readOn(e, "readFrame")
       \/ completed(e, "readHeader", {"garbage"}) /\ transition(e, "Error")
       \/ completed(e, "readHeader", Messages) /\ m_io[e] # "coder" /\ transition(e, "Error")
    /\ UNCHANGED <<foreign, sent>>

\* startPeerSession takes the coder; it may also refuse the session, which
\* closes the socket.
startPeerSession(e) ==
    /\ m_io' = [m_io EXCEPT ![e] = "moved"]
    /\ timer' = [timer EXCEPT ![e].armed = FALSE]
    /\ op' = [op EXCEPT ![e] = idle]
    /\ \/ session' = [session EXCEPT ![e] = "live"] /\ UNCHANGED m_socket
       \/ session' = [session EXCEPT ![e] = "over"] /\ m_socket' = [m_socket EXCEPT ![e] = "closed"]
    /\ UNCHANGED <<m_nextState, m_cancel, wire>>

\* Faulty variant: nobody asks whether the coder is still there.
HelloReadUnchecked(e) ==
    /\ \/ completed(e, "readFrame", {"hello"}) /\ startPeerSession(e)
       \/ completed(e, "readFrame", Messages \ {"hello"}) /\ transition(e, "Error")
    /\ UNCHANGED <<foreign, sent>>

\* The Hello frame has been read.
HelloRead(e) ==
    /\ \/ completed(e, "readFrame", {"hello"}) /\ m_io[e] = "coder" /\ startPeerSession(e)
       \/ completed(e, "readFrame", Messages \ {"hello"}) /\ transition(e, "Error")
       \/ completed(e, "readFrame", Messages) /\ m_io[e] # "coder" /\ transition(e, "Error")
    /\ UNCHANGED <<foreign, sent>>

\* The handler of the idle timer, of a wait that was not cancelled in time.
IdleTimeout(e) ==
    /\ timer[e].queued
    /\ cancel(e, FALSE)
    /\ UNCHANGED <<foreign, sent, m_nextState, op, wire, session>>

\* doneWorking cancels every handshake that is still there.
HostCancels(e) ==
    /\ ~released(e)
    /\ cancel(e, timer[e].queued)
    /\ UNCHANGED <<foreign, sent, m_nextState, op, wire, session>>

-----------------------------------------------------------------------------
(* The service thread's operating system: operations end, time passes.     *)

pending(e) == op[e].what # "none" /\ op[e].status = "pending"

reading(e) == op[e].what \in {"readAuth", "readAck", "readHeader"}

Ended(e, status) == [op EXCEPT ![e].status = status]

WriteEnds(e) ==
    /\ pending(e) /\ op[e].what = "write" /\ m_socket[e] = "open"
    /\ op' = Ended(e, "ok")
    /\ wire' = IF other(e) \in foreign THEN wire
                                       ELSE [wire EXCEPT ![other(e)] = Append(@, op[e].msg)]
    /\ UNCHANGED <<foreign, sent, m_nextState, timer, m_cancel, m_io, m_socket, session>>

\* The rest of a message may arrive long after its first part.
ReadEnds(e) ==
    /\ pending(e) /\ m_socket[e] = "open"
    /\ \/ /\ reading(e) /\ wire[e] # <<>>
          /\ op' = [op EXCEPT ![e].status = "ok", ![e].msg = Head(wire[e])]
          /\ wire' = [wire EXCEPT ![e] = Tail(@)]
       \/ /\ op[e].what \in {"readAuthRest", "readAckRest", "readFrame"}
          /\ op' = Ended(e, "ok")
          /\ UNCHANGED wire
    /\ UNCHANGED <<foreign, sent, m_nextState, timer, m_cancel, m_io, m_socket, session>>

\* The socket has been closed here, or the connection broke.
OperationBreaks(e) ==
    /\ pending(e)
    /\ op' = Ended(e, "failed")
    /\ UNCHANGED <<foreign, sent, m_nextState, timer, m_cancel, m_io, m_socket, wire, session>>

\* Bound: one expiry in the queue; the next would come 1800 ms later.
TimerExpires(e) ==
    /\ timer[e].armed /\ ~timer[e].queued
    /\ timer' = [timer EXCEPT ![e] = [armed |-> FALSE, queued |-> TRUE]]
    /\ UNCHANGED <<foreign, sent, m_nextState, op, m_cancel, m_io, m_socket, wire, session>>

SessionEnds(e) ==
    /\ session[e] = "live"
    /\ session' = [session EXCEPT ![e] = "over"]
    /\ m_socket' = [m_socket EXCEPT ![e] = "closed"]
    /\ UNCHANGED <<foreign, sent, m_nextState, op, timer, m_cancel, m_io, wire>>

ForeignSends(e, m) ==
    /\ e \in foreign /\ sent < MaxForeign
    /\ sent' = sent + 1
    /\ wire' = [wire EXCEPT ![other(e)] = Append(@, m)]
    /\ UNCHANGED <<foreign, m_nextState, op, timer, m_cancel, m_io, m_socket, session>>

-----------------------------------------------------------------------------
Handler(e) ==
    \/ OperationFailed(e) \/ Written(e) \/ FirstPartRead(e) \/ RestRead(e)
    \/ HeaderRead(e) \/ HelloRead(e) \/ IdleTimeout(e)

Next ==
    \E e \in Ends :
        \/ Start(e) \/ Handler(e) \/ HostCancels(e)
        \/ WriteEnds(e) \/ ReadEnds(e) \/ OperationBreaks(e)
        \/ TimerExpires(e) \/ SessionEnds(e)
        \/ \E m \in Messages : ForeignSends(e, m)

Spec == Init /\ [][Next]_vars

\* start() is called at once, queued handlers are executed, an armed timer
\* expires, and what is pending on a closed socket fails.  Nobody has to send.
Fairness ==
    \A e \in Ends :
        /\ WF_vars(Start(e)) /\ WF_vars(Handler(e)) /\ WF_vars(TimerExpires(e))
        /\ WF_vars(m_socket[e] = "closed" /\ OperationBreaks(e))

FairSpec == Spec /\ Fairness

-----------------------------------------------------------------------------
(* Properties.                                                             *)

\* The states in which an operation can be under way.
statesOf(what) ==
    CASE what = "none" -> States
      [] what = "write" -> {"AckAuth", "WriteHello", "ReadHello"}
      [] what \in {"readAuth", "readAuthRest"} -> {"AckAuth"}
      [] what \in {"readAck", "readAckRest"} -> {"WriteHello"}
      [] what \in {"readHeader", "readFrame"} -> {"StartSession"}

OperationFitsState ==
    \A e \in Ends :
        /\ m_nextState[e] \in statesOf(op[e].what)
        /\ op[e].what = "write" => op[e].msg \in Messages

\* cancel() takes the coder and the timer away, and they do not come back.
CancelledHasNothing == \A e \in Ends : m_cancel[e] => m_io[e] # "coder" /\ ~timer[e].armed

\* The coder is given to a session, and the handshake is then over.
SessionHasAll ==
    \A e \in Ends :
        /\ session[e] = "none" <=> m_io[e] # "moved"
        /\ session[e] # "none" =>
              op[e] = idle /\ ~timer[e].armed /\ m_nextState[e] = "StartSession"

ForeignIdle ==
    \A e \in foreign :
        op[e] = idle /\ session[e] = "none" /\ timer[e] = [armed |-> FALSE, queued |-> FALSE]

\* What m_nextState, m_cancel, m_io and the operation have to do with each
\* other, whatever the timer, the Host and the other end have done.
HandshakeInv ==
    TypeOK /\ OperationFitsState /\ CancelledHasNothing /\ SessionHasAll /\ ForeignIdle

\* A handshake that was cancelled, by its timer or by the Host, does not
\* start a session, whatever handlers were queued by then.
NoSessionAfterCancel ==
    [][\A e \in Ends : m_cancel[e] /\ session[e] = "none" => session'[e] = "none"]_vars

\* The idle timer does not run on into the session, whose socket it would
\* close.  (An expiry that is queued when the Hello arrives still does that.)
NoTimerInSession == \A e \in Ends : session[e] = "live" => ~timer[e].armed

\* The assertion of transition(): it is not entered, but with an error, once
\* the Hello is being read, and so never arms the timer again.
StartSessionIsFinal ==
    [][\A e \in Ends : m_nextState[e] = "StartSession" => (timer'[e].armed => timer[e].armed)]_vars

waits(e) == pending(e) /\ reading(e) /\ wire[e] = <<>>

\* The two ends of this program never wait for each other.
NoMutualWait == foreign = {} => ~(waits("egress") /\ waits("ingress"))

\* The end has not failed, nor a session yet.
shaking(e) == m_nextState[e] = "New" \/ op[e].what # "none"

\* What an end does in each of its states, in the order of transition().
doing(e) ==
    CASE m_nextState[e] = "New" -> {"none"}
      [] m_nextState[e] = "AckAuth" ->
            IF m_originated(e) THEN {"write"} ELSE {"readAuth", "readAuthRest"}
      [] m_nextState[e] = "WriteHello" ->
            IF m_originated(e) THEN {"readAck", "readAckRest"} ELSE {"write"}
      [] m_nextState[e] = "ReadHello" -> {"write"}
      [] m_nextState[e] = "StartSession" -> {"readHeader", "readFrame"}
      [] OTHER -> {}

OperationFitsEnd == \A e \in Ends : shaking(e) => op[e].what \in doing(e)

\* The messages an end has written, and those it has taken from the wire.
written(e) ==
    CASE m_nextState[e] \in {"AckAuth", "WriteHello", "ReadHello"} /\ op[e].what = "write" ->
            (IF m_nextState[e] = "ReadHello" THEN 1 ELSE 0) + (IF op[e].status = "ok" THEN 1 ELSE 0)
      [] m_nextState[e] = "WriteHello" /\ op[e].what # "write" -> 1
      [] m_nextState[e] = "StartSession" -> 2
      [] OTHER -> 0

taken(e) ==
    LET now == IF op[e].what \in {"readAuthRest", "readAckRest", "readFrame"}
                  \/ (reading(e) /\ op[e].status = "ok") THEN 1 ELSE 0
    IN  CASE op[e].what \in {"readAuth", "readAuthRest", "readAck", "readAckRest"} -> now
          [] m_nextState[e] = "StartSession" -> 1 + now
          [] m_nextState[e] = "WriteHello" /\ op[e].what = "write" -> 1
          [] m_nextState[e] = "ReadHello" -> 1
          [] OTHER -> 0

\* Between two ends of this program nothing is lost or made up, as long as
\* both go on: what one has written, the other has taken or will find.
NothingLost ==
    \A e \in Ends : shaking(e) /\ shaking(other(e)) =>
        written(e) = Len(wire[other(e)]) + taken(other(e))

\* Why NoMutualWait holds: if both waited, as much would have been taken as
\* was written; but the one that originated the connection and waits has
\* written a message more than it has taken, and the other one no fewer.
MutualInv == HandshakeInv /\ (foreign = {} => OperationFitsEnd /\ NothingLost)

\* What becomes of a handshake.
outcome ==
    [e \in Ends |->
        IF session[e] # "none" THEN "session"
        ELSE IF m_cancel[e] \/ e \in foreign THEN "failed" ELSE "running"]

Outcome == INSTANCE HandshakeOutcome WITH Handshakes <- Ends

\* What HostPeers assumes of a handshake: it ends once, with a session or
\* without one, also when a handler throws or the other end is silent.
EndsOnce == Outcome!OutcomeInit /\ [][Outcome!OutcomeNext]_outcome

\* And then it is destroyed: no handler refers to it for ever.
HandshakeReleased == \A e \in Ends : <>[]released(e)

\* A handshake as Host and Session rely on it: its state, its timer and its
\* coder agree, it turns into a session or a failure once, after a cancel only
\* into a failure, and its timer does not run on into the session.
HandshakeSound ==
    /\ [](HandshakeInv /\ NoTimerInSession)
    /\ NoSessionAfterCancel /\ StartSessionIsFinal
    /\ EndsOnce
=============================================================================
