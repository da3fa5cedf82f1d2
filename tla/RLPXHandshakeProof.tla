-------------------------- MODULE RLPXHandshakeProof --------------------------
(***************************************************************************)
(* Machine-checked proofs about dev::p2p::RLPXHandshake, for any number of *)
(* messages of another program.  The argument: cancel() takes the coder    *)
(* and the timer away for good, for the only step that makes a coder is a  *)
(* transition that has just looked at m_cancel; and the operation that is  *)
(* under way tells in which state its handler will find the handshake      *)
(* (OperationFitsState), so that none enters transition() after the Hello  *)
(* has been read.                                                          *)
(***************************************************************************)
EXTENDS RLPXHandshake, TLAPS

USE ForeignAssumption DEF Ends

Operation == [what : Operations, msg : Messages \cup {"none"},
              status : {"pending", "ok", "failed"}]

\* Both ends start in the state New, with nothing under way.
LEMMA InitEstablishes == Init => HandshakeInv
  BY DEF Init, HandshakeInv, TypeOK, OperationFitsState, CancelledHasNothing, SessionHasAll,
         ForeignIdle, idle, statesOf, States, Operations, Messages

\* What an end does in a state fits the next one.
LEMMA StepFits ==
  ASSUME NEW e \in Ends, NEW state \in States \ {"Error", "StartSession"}
  PROVE  /\ step(e, state).to \in statesOf(step(e, state).starts.what) \cap States
         /\ step(e, state).starts \in Operation
         /\ step(e, state).starts.what = "write" => step(e, state).starts.msg \in Messages
<1>1. CASE state = "New"
  BY <1>1 DEF step, Write, Read, statesOf, States, Operation, Operations, Messages
<1>2. CASE state = "AckAuth"
  BY <1>2 DEF step, Write, Read, statesOf, States, Operation, Operations, Messages
<1>3. CASE state = "AckAuthEIP8"
  BY <1>3 DEF step, Write, Read, statesOf, States, Operation, Operations, Messages
<1>4. CASE state = "WriteHello"
  BY <1>4 DEF step, sendHello, Write, Read, statesOf, States, Operation, Operations, Messages
<1>5. CASE state = "ReadHello"
  BY <1>5 DEF step, Write, Read, statesOf, States, Operation, Operations, Messages
<1> QED BY <1>1, <1>2, <1>3, <1>4, <1>5 DEF States

\* cancel() may be called at any time.
LEMMA CancelKeeps ==
  ASSUME HandshakeInv, NEW e \in Ends \ foreign, NEW queued \in BOOLEAN, cancel(e, queued),
         UNCHANGED <<foreign, sent, m_nextState, op, wire, session>>
  PROVE  HandshakeInv'
<1> USE DEF HandshakeInv
<1>1. TypeOK'
  BY DEF TypeOK, cancel
<1>2. OperationFitsState'
  BY DEF OperationFitsState
<1>3. CancelledHasNothing'
  BY DEF TypeOK, CancelledHasNothing, cancel
<1>4. SessionHasAll'
  BY DEF TypeOK, SessionHasAll, cancel
<1>5. ForeignIdle'
  BY DEF TypeOK, ForeignIdle, cancel
<1> QED BY <1>1, <1>2, <1>3, <1>4, <1>5

\* A handler that reports an error.
LEMMA ErrorKeeps ==
  ASSUME HandshakeInv, NEW e \in Ends \ foreign, NEW state \in States, session[e] = "none",
         error(e, state), UNCHANGED <<foreign, sent>>
  PROVE  HandshakeInv'
<1> USE DEF HandshakeInv, error, cancel
<1>1. TypeOK'
  BY DEF TypeOK, idle, Operations
<1>2. OperationFitsState'
  BY DEF TypeOK, OperationFitsState, idle, statesOf
<1>3. CancelledHasNothing'
  BY DEF TypeOK, CancelledHasNothing
<1>4. SessionHasAll'
  BY DEF TypeOK, SessionHasAll
<1>5. ForeignIdle'
  BY DEF TypeOK, ForeignIdle
<1> QED BY <1>1, <1>2, <1>3, <1>4, <1>5

\* transition(), from a state it may be called in.
LEMMA TransitionKeeps ==
  ASSUME HandshakeInv, NEW e \in Ends \ foreign, NEW state \in States \ {"StartSession"},
         session[e] = "none", transition(e, state), UNCHANGED <<foreign, sent>>
  PROVE  HandshakeInv'
<1>1. CASE state = "Error" \/ m_cancel[e]
  BY <1>1, ErrorKeeps DEF transition
<1>2. CASE ~(state = "Error" \/ m_cancel[e])
  <2> DEFINE to == step(e, state).to
             starts == step(e, state).starts
  <2>1. /\ to \in statesOf(starts.what) \cap States /\ starts \in Operation
        /\ starts.what = "write" => starts.msg \in Messages
    BY <1>2, StepFits
  <2>2. /\ timer' = [timer EXCEPT ![e].armed = TRUE]
        /\ m_nextState' = [m_nextState EXCEPT ![e] = to]
        /\ op' = [op EXCEPT ![e] = starts]
        /\ (m_io' = m_io \/ m_io' = [m_io EXCEPT ![e] = "coder"])
        /\ UNCHANGED <<m_cancel, m_socket, wire, session, foreign, sent>>
    BY <1>2 DEF transition
  <2> HIDE DEF to, starts
  <2> USE DEF HandshakeInv
  <2>3. TypeOK'
    <3>1. op' \in [Ends -> Operation]
      BY <2>1, <2>2 DEF TypeOK, Operation
    <3>2. m_nextState' \in [Ends -> States]
      BY <2>1, <2>2 DEF TypeOK
    <3>3. timer' \in [Ends -> [armed : BOOLEAN, queued : BOOLEAN]]
      <4>1. timer[e] \in [armed : BOOLEAN, queued : BOOLEAN]
        BY DEF TypeOK
      <4>2. [timer[e] EXCEPT !.armed = TRUE] \in [armed : BOOLEAN, queued : BOOLEAN]
        BY <4>1
      <4>3. timer' = [timer EXCEPT ![e] = [timer[e] EXCEPT !.armed = TRUE]]
        BY <2>2
      <4> QED BY <4>2, <4>3 DEF TypeOK
    <3>4. m_io' \in [Ends -> {"none", "coder", "moved"}]
      BY <2>2 DEF TypeOK
    <3> QED BY <3>1, <3>2, <3>3, <3>4, <2>2 DEF TypeOK, Operation
  <2>4. OperationFitsState'
    BY <2>1, <2>2 DEF TypeOK, OperationFitsState
  <2>5. CancelledHasNothing'
    BY <1>2, <2>2 DEF TypeOK, CancelledHasNothing
  <2>6. SessionHasAll'
    BY <2>2 DEF TypeOK, SessionHasAll
  <2>7. ForeignIdle'
    BY <2>2 DEF TypeOK, ForeignIdle
  <2> QED BY <2>3, <2>4, <2>5, <2>6, <2>7
<1> QED BY <1>1, <1>2

\* A handler that goes on reading, in the same state.
LEMMA ReadOnKeeps ==
  ASSUME HandshakeInv, NEW e \in Ends \ foreign, NEW what \in Operations \ {"write"},
         m_nextState[e] \in statesOf(what), session[e] = "none",
         readOn(e, what), UNCHANGED <<foreign, sent>>
  PROVE  HandshakeInv'
<1> USE DEF HandshakeInv, readOn, Read
<1>1. TypeOK'
  BY DEF TypeOK
<1>2. OperationFitsState'
  BY DEF TypeOK, OperationFitsState
<1>3. CancelledHasNothing'
  BY DEF TypeOK, CancelledHasNothing
<1>4. SessionHasAll'
  BY DEF TypeOK, SessionHasAll
<1>5. ForeignIdle'
  BY DEF TypeOK, ForeignIdle
<1> QED BY <1>1, <1>2, <1>3, <1>4, <1>5

\* A handler that throws.
LEMMA ThrowKeeps ==
  ASSUME HandshakeInv, NEW e \in Ends \ foreign, session[e] = "none",
         throws(e), UNCHANGED <<foreign, sent>>
  PROVE  HandshakeInv'
<1> USE DEF HandshakeInv, throws
<1>1. TypeOK'
  BY DEF TypeOK, idle, Operations
<1>2. OperationFitsState'
  BY DEF TypeOK, OperationFitsState, idle, statesOf
<1>3. CancelledHasNothing'
  BY DEF CancelledHasNothing
<1>4. SessionHasAll'
  BY DEF TypeOK, SessionHasAll
<1>5. ForeignIdle'
  BY DEF TypeOK, ForeignIdle
<1> QED BY <1>1, <1>2, <1>3, <1>4, <1>5

\* An operation under way is one of this program's, before the session.
LEMMA OperationOwned ==
  ASSUME HandshakeInv, NEW e \in Ends, op[e].what # "none"
  PROVE  e \in Ends \ foreign /\ session[e] = "none"
  BY DEF HandshakeInv, TypeOK, SessionHasAll, ForeignIdle, idle

\* The handlers.  Each is one of the cases above: the operation that ended
\* tells the state it finds.
LEMMA HandlerKeeps ==
  ASSUME HandshakeInv, NEW e \in Ends, Handler(e)
  PROVE  HandshakeInv'
<1>1. CASE op[e].what # "none"
  <2> USE <1>1
  <2>1. e \in Ends \ foreign /\ session[e] = "none"
    BY OperationOwned
  <2>2. m_nextState[e] \in statesOf(op[e].what) /\ m_nextState[e] \in States
    BY DEF HandshakeInv, OperationFitsState, TypeOK
  <2>3. CASE OperationFailed(e)
    BY <2>1, <2>2, <2>3, ErrorKeeps DEF OperationFailed
  <2>4. CASE Written(e)
    <3>1. m_nextState[e] \in States \ {"StartSession"}
      BY <2>2, <2>4 DEF Written, completed, statesOf
    <3> QED BY <2>1, <2>4, <3>1, TransitionKeeps DEF Written
  <2>5. CASE FirstPartRead(e)
    <3>1. /\ op[e].what \in {"readAuth", "readAck"}
          /\ \/ transition(e, m_nextState[e])
             \/ op[e].what = "readAuth" /\ readOn(e, "readAuthRest")
             \/ op[e].what = "readAck" /\ readOn(e, "readAckRest")
          /\ UNCHANGED <<foreign, sent>>
      BY <2>5 DEF FirstPartRead, completed
    <3>2. CASE transition(e, m_nextState[e])
      <4>1. m_nextState[e] \in States \ {"StartSession"}
        BY <2>2, <3>1 DEF statesOf
      <4> QED BY <2>1, <3>1, <3>2, <4>1, TransitionKeeps
    <3>3. CASE op[e].what = "readAuth" /\ readOn(e, "readAuthRest")
      <4>1. m_nextState[e] \in statesOf("readAuthRest") /\ "readAuthRest" \in Operations \ {"write"}
        BY <2>2, <3>3 DEF statesOf, Operations
      <4> QED BY <2>1, <3>1, <3>3, <4>1, ReadOnKeeps
    <3>4. CASE op[e].what = "readAck" /\ readOn(e, "readAckRest")
      <4>1. m_nextState[e] \in statesOf("readAckRest") /\ "readAckRest" \in Operations \ {"write"}
        BY <2>2, <3>4 DEF statesOf, Operations
      <4> QED BY <2>1, <3>1, <3>4, <4>1, ReadOnKeeps
    <3> QED BY <3>1, <3>2, <3>3, <3>4
  <2>6. CASE RestRead(e)
    <3>1. /\ op[e].what \in {"readAuthRest", "readAckRest"}
          /\ \/ \E state \in {"AckAuthEIP8", "Error", m_nextState[e]} : transition(e, state)
             \/ throws(e)
          /\ UNCHANGED <<foreign, sent>>
      BY <2>6 DEF RestRead, completed
    <3>2. {"AckAuthEIP8", "Error", m_nextState[e]} \subseteq States \ {"StartSession"}
      BY <2>2, <3>1 DEF statesOf, States
    <3> QED BY <2>1, <3>1, <3>2, TransitionKeeps, ThrowKeeps
  <2>7. CASE HeaderRead(e)
    <3>1. /\ op[e].what = "readHeader"
          /\ readOn(e, "readFrame") \/ transition(e, "Error")
          /\ UNCHANGED <<foreign, sent>>
      BY <2>7 DEF HeaderRead, completed
    <3>2. m_nextState[e] \in statesOf("readFrame") /\ "readFrame" \in Operations \ {"write"}
      BY <2>2, <3>1 DEF statesOf, Operations
    <3>3. "Error" \in States \ {"StartSession"}
      BY DEF States
    <3> QED BY <2>1, <3>1, <3>2, <3>3, TransitionKeeps, ReadOnKeeps
  <2>8. CASE HelloRead(e)
    <3>1. /\ op[e].what = "readFrame" /\ UNCHANGED <<foreign, sent>>
          /\ (m_io[e] = "coder" /\ startPeerSession(e)) \/ transition(e, "Error")
      BY <2>8 DEF HelloRead, completed
    <3>2. CASE transition(e, "Error")
      <4>1. "Error" \in States \ {"StartSession"}
        BY DEF States
      <4> QED BY <2>1, <3>1, <3>2, <4>1, TransitionKeeps
    <3>3. CASE m_io[e] = "coder" /\ startPeerSession(e)
      <4>1. m_nextState[e] = "StartSession"
        BY <2>2, <3>1 DEF statesOf
      <4>2. TypeOK'
        <5>1. timer[e] \in [armed : BOOLEAN, queued : BOOLEAN]
          BY DEF HandshakeInv, TypeOK
        <5>2. [timer[e] EXCEPT !.armed = FALSE] \in [armed : BOOLEAN, queued : BOOLEAN]
          BY <5>1
        <5>3. timer' = [timer EXCEPT ![e] = [timer[e] EXCEPT !.armed = FALSE]]
          BY <3>3 DEF startPeerSession
        <5>4. timer' \in [Ends -> [armed : BOOLEAN, queued : BOOLEAN]]
          BY <5>2, <5>3 DEF HandshakeInv, TypeOK
        <5>5. /\ session' \in [Ends -> {"none", "live", "over"}]
              /\ m_io' \in [Ends -> {"none", "coder", "moved"}]
              /\ m_socket' \in [Ends -> {"open", "closed"}]
          BY <3>3 DEF HandshakeInv, TypeOK, startPeerSession
        <5>6. op' \in [Ends -> Operation]
          BY <3>3 DEF HandshakeInv, TypeOK, startPeerSession, idle, Operation, Operations
        <5> QED BY <3>1, <3>3, <5>4, <5>5, <5>6
                DEF HandshakeInv, TypeOK, startPeerSession, Operation
      <4> USE <3>1, <3>3 DEF HandshakeInv, TypeOK, startPeerSession
      <4>3. OperationFitsState'
        BY DEF OperationFitsState, idle, statesOf
      <4>4. CancelledHasNothing'
        BY DEF CancelledHasNothing
      <4>5. SessionHasAll'
        BY <4>1 DEF SessionHasAll
      <4>6. ForeignIdle'
        BY <2>1 DEF ForeignIdle
      <4> QED BY <4>2, <4>3, <4>4, <4>5, <4>6
    <3> QED BY <3>1, <3>2, <3>3
  <2>9. CASE IdleTimeout(e)
    BY <2>1, <2>9, CancelKeeps DEF IdleTimeout
  <2> QED BY <2>3, <2>4, <2>5, <2>6, <2>7, <2>8, <2>9 DEF Handler
<1>2. CASE op[e].what = "none"
  <2>1. IdleTimeout(e)
    BY <1>2 DEF Handler, OperationFailed, Written, FirstPartRead, RestRead, HeaderRead, HelloRead,
                completed
  <2>2. e \notin foreign
    BY <2>1 DEF IdleTimeout, HandshakeInv, ForeignIdle
  <2> QED BY <2>1, <2>2, CancelKeeps DEF IdleTimeout
<1> QED BY <1>1, <1>2

\* The start of a handshake, and doneWorking.
LEMMA HostKeeps ==
  ASSUME HandshakeInv, NEW e \in Ends, Start(e) \/ HostCancels(e)
  PROVE  HandshakeInv'
<1>1. CASE Start(e)
  <2>1. session[e] = "none" /\ "New" \in States \ {"StartSession"}
    BY <1>1 DEF Start, HandshakeInv, SessionHasAll, States
  <2> QED BY <1>1, <2>1, TransitionKeeps DEF Start
<1>2. CASE HostCancels(e)
  <2>1. e \notin foreign
    BY <1>2 DEF HostCancels, released, HandshakeInv, ForeignIdle, idle
  <2>2. timer[e].queued \in BOOLEAN
    BY DEF HandshakeInv, TypeOK
  <2> QED BY <1>2, <2>1, <2>2, CancelKeeps DEF HostCancels
<1> QED BY <1>1, <1>2

\* Operations end, timers expire, messages arrive, sessions end.
LEMMA EnvironmentKeeps ==
  ASSUME HandshakeInv, NEW e \in Ends,
         \/ WriteEnds(e) \/ ReadEnds(e) \/ OperationBreaks(e) \/ TimerExpires(e) \/ SessionEnds(e)
         \/ \E m \in Messages : ForeignSends(e, m)
  PROVE  HandshakeInv'
<1>1. CASE WriteEnds(e) \/ ReadEnds(e) \/ OperationBreaks(e)
  <2>1. /\ op[e] \in Operation /\ wire \in [Ends -> Seq(Messages)]
        /\ e \in Ends \ foreign /\ session[e] = "none"
    BY <1>1, OperationOwned
    DEF HandshakeInv, TypeOK, Operation, WriteEnds, ReadEnds, OperationBreaks, pending
  <2>2. /\ op' \in [Ends -> Operation] /\ wire' \in [Ends -> Seq(Messages)]
        /\ op'[e].what = op[e].what /\ (op[e].what = "write" => op'[e].msg = op[e].msg)
        /\ \A d \in Ends \ {e} : op'[d] = op[d]
        /\ UNCHANGED <<foreign, sent, m_nextState, timer, m_cancel, m_io, m_socket, session>>
    <3>1. CASE WriteEnds(e)
      <4>1. op[e].msg \in Messages
        BY <3>1 DEF WriteEnds, HandshakeInv, OperationFitsState
      <4>2. \A d \in Ends : Append(wire[d], op[e].msg) \in Seq(Messages)
        BY <2>1, <4>1
      <4>3. wire' \in [Ends -> Seq(Messages)]
        BY <2>1, <3>1, <4>2 DEF WriteEnds, other
      <4> QED BY <2>1, <3>1, <4>3 DEF WriteEnds, Ended, HandshakeInv, TypeOK, Operation
    <3>2. CASE ReadEnds(e)
      <4>1. CASE reading(e) /\ wire[e] # <<>>
        <5>1. Head(wire[e]) \in Messages /\ Tail(wire[e]) \in Seq(Messages)
          BY <2>1, <4>1
        <5>2. /\ op[e].what # "write"
              /\ op' = [op EXCEPT ![e] = [[op[e] EXCEPT !.status = "ok"] EXCEPT !.msg = Head(wire[e])]]
              /\ wire' = [wire EXCEPT ![e] = Tail(wire[e])]
              /\ UNCHANGED <<foreign, sent, m_nextState, timer, m_cancel, m_io, m_socket, session>>
          BY <3>2, <4>1 DEF ReadEnds, reading
        <5>3. [[op[e] EXCEPT !.status = "ok"] EXCEPT !.msg = Head(wire[e])] \in Operation
          BY <2>1, <5>1 DEF Operation
        <5> QED BY <2>1, <5>1, <5>2, <5>3 DEF HandshakeInv, TypeOK, Operation
      <4>2. CASE op[e].what \in {"readAuthRest", "readAckRest", "readFrame"}
        <5>1. /\ op' = [op EXCEPT ![e] = [op[e] EXCEPT !.status = "ok"]] /\ wire' = wire
              /\ UNCHANGED <<foreign, sent, m_nextState, timer, m_cancel, m_io, m_socket, session>>
          BY <3>2, <4>2 DEF ReadEnds, reading, Ended
        <5>2. [op[e] EXCEPT !.status = "ok"] \in Operation
          BY <2>1 DEF Operation
        <5> QED BY <2>1, <5>1, <5>2 DEF HandshakeInv, TypeOK, Operation
      <4> QED BY <3>2, <4>1, <4>2 DEF ReadEnds
    <3>3. CASE OperationBreaks(e)
      BY <2>1, <3>3 DEF OperationBreaks, Ended, HandshakeInv, TypeOK, Operation
    <3> QED BY <1>1, <3>1, <3>2, <3>3
  <2> USE <2>1, <2>2 DEF HandshakeInv
  <2>3. TypeOK'
    BY DEF TypeOK, Operation
  <2>4. OperationFitsState'
    BY DEF TypeOK, OperationFitsState, Operation
  <2>5. CancelledHasNothing'
    BY DEF CancelledHasNothing
  <2>6. SessionHasAll'
    BY DEF SessionHasAll
  <2>7. ForeignIdle'
    BY DEF TypeOK, ForeignIdle
  <2> QED BY <2>3, <2>4, <2>5, <2>6, <2>7
<1>2. CASE TimerExpires(e)
  <2>1. e \notin foreign
    BY <1>2 DEF TimerExpires, HandshakeInv, ForeignIdle
  <2> USE <1>2, <2>1 DEF TimerExpires, HandshakeInv, TypeOK
  <2>2. TypeOK'
    OBVIOUS
  <2>3. OperationFitsState' /\ CancelledHasNothing' /\ SessionHasAll'
    BY DEF OperationFitsState, CancelledHasNothing, SessionHasAll
  <2>4. ForeignIdle'
    BY DEF ForeignIdle
  <2> QED BY <2>2, <2>3, <2>4
<1>3. CASE SessionEnds(e)
  BY <1>3 DEF SessionEnds, HandshakeInv, TypeOK, OperationFitsState, CancelledHasNothing,
              SessionHasAll, ForeignIdle
<1>4. CASE \E m \in Messages : ForeignSends(e, m)
  <2>1. PICK m \in Messages : ForeignSends(e, m)
    BY <1>4
  <2>2. \A d \in Ends : wire[d] \in Seq(Messages) /\ Append(wire[d], m) \in Seq(Messages)
    BY DEF HandshakeInv, TypeOK
  <2>3. TypeOK'
    BY <2>1, <2>2 DEF ForeignSends, HandshakeInv, TypeOK, other
  <2> QED BY <2>1, <2>3 DEF ForeignSends, HandshakeInv, OperationFitsState, CancelledHasNothing,
                            SessionHasAll, ForeignIdle
<1> QED BY <1>1, <1>2, <1>3, <1>4

LEMMA StepKeeps == HandshakeInv /\ [Next]_vars => HandshakeInv'
<1>1. CASE UNCHANGED vars
  BY <1>1 DEF vars, HandshakeInv, TypeOK, OperationFitsState, CancelledHasNothing, SessionHasAll,
              ForeignIdle
<1>2. CASE Next
  BY <1>2, HandlerKeeps, HostKeeps, EnvironmentKeeps DEF Next
<1> QED BY <1>1, <1>2

\* HandshakeInv: what the state, the operation, the coder and the timer of a
\* handshake have to do with each other, through every interleaving.
THEOREM HandshakeInvariant == Spec => []HandshakeInv
  BY InitEstablishes, StepKeeps, PTL DEF Spec

-----------------------------------------------------------------------------
(* What follows from the invariant.                                        *)

\* The idle timer does not run on into the session (the cancel() before
\* startPeerSession).
THEOREM TimerEndsBeforeSession == Spec => []NoTimerInSession
<1>1. HandshakeInv => NoTimerInSession
  BY DEF HandshakeInv, SessionHasAll, NoTimerInSession
<1> QED BY <1>1, HandshakeInvariant, PTL

\* Only startPeerSession makes a session, and it needs the coder.
LEMMA SessionsAreStarted ==
  ASSUME HandshakeInv, Next, NEW e \in Ends, session[e] = "none", session'[e] # "none"
  PROVE  m_io[e] = "coder" /\ e \notin foreign
<1>1. PICK d \in Ends :
         \/ Start(d) \/ Handler(d) \/ HostCancels(d)
         \/ WriteEnds(d) \/ ReadEnds(d) \/ OperationBreaks(d)
         \/ TimerExpires(d) \/ SessionEnds(d)
         \/ \E m \in Messages : ForeignSends(d, m)
  BY DEF Next
<1>2. CASE HelloRead(d)
  <2>1. m_io[d] = "coder" /\ startPeerSession(d) /\ op[d].what # "none"
    BY <1>2 DEF HelloRead, completed, transition, error
  <2>2. d = e
    BY <2>1 DEF startPeerSession, HandshakeInv, TypeOK
  <2> QED BY <2>1, <2>2, OperationOwned
<1>3. CASE SessionEnds(d)
  BY <1>3 DEF SessionEnds, HandshakeInv, TypeOK
<1>4. CASE ~HelloRead(d) /\ ~SessionEnds(d)
  BY <1>1, <1>4 DEF Start, Handler, HostCancels, WriteEnds, ReadEnds, OperationBreaks, TimerExpires,
     ForeignSends, OperationFailed, Written, FirstPartRead, RestRead, HeaderRead, IdleTimeout,
     transition, error, readOn, throws
<1> QED BY <1>2, <1>3, <1>4

\* A handshake that was cancelled starts no session (the tests of m_io in the
\* handlers of the Hello).
THEOREM CancelledStartsNoSession == Spec => NoSessionAfterCancel
<1> DEFINE NoSession ==
      \A e \in Ends : m_cancel[e] /\ session[e] = "none" => session'[e] = "none"
<1>1. HandshakeInv /\ [Next]_vars => [NoSession]_vars
  <2>1. HandshakeInv => \A e \in Ends : m_cancel[e] => m_io[e] # "coder"
    BY DEF HandshakeInv, CancelledHasNothing
  <2> QED BY <2>1, SessionsAreStarted
<1> QED BY <1>1, HandshakeInvariant, PTL DEF Spec, NoSessionAfterCancel

\* Every step is taken by one end, and does not undo a cancel or a session.
LEMMA OneEndActs ==
  ASSUME HandshakeInv, Next
  PROVE  /\ foreign' = foreign
         /\ \A e \in Ends : m_cancel[e] => m_cancel'[e]
         /\ \A e \in Ends : session[e] # "none" => session'[e] # "none"
         /\ \E d \in Ends : \A e \in Ends \ {d} :
               m_cancel'[e] = m_cancel[e] /\ session'[e] = session[e]
<1>1. PICK d \in Ends :
         \/ Start(d) \/ Handler(d) \/ HostCancels(d)
         \/ WriteEnds(d) \/ ReadEnds(d) \/ OperationBreaks(d)
         \/ TimerExpires(d) \/ SessionEnds(d)
         \/ \E m \in Messages : ForeignSends(d, m)
  BY DEF Next
<1>2. foreign' = foreign
  BY <1>1 DEF Start, Handler, HostCancels, WriteEnds, ReadEnds, OperationBreaks, TimerExpires,
     ForeignSends, SessionEnds, OperationFailed, Written, FirstPartRead, RestRead, HeaderRead,
     HelloRead, IdleTimeout
<1>3. m_cancel' = m_cancel \/ m_cancel' = [m_cancel EXCEPT ![d] = TRUE]
  BY <1>1 DEF Start, Handler, HostCancels, WriteEnds, ReadEnds, OperationBreaks, TimerExpires,
     ForeignSends, SessionEnds, OperationFailed, Written, FirstPartRead, RestRead, HeaderRead,
     HelloRead, IdleTimeout, transition, error, cancel, readOn, throws, startPeerSession
<1>4. \/ session' = session
      \/ \E result \in {"live", "over"} : session' = [session EXCEPT ![d] = result]
  BY <1>1 DEF Start, Handler, HostCancels, WriteEnds, ReadEnds, OperationBreaks, TimerExpires,
     ForeignSends, SessionEnds, OperationFailed, Written, FirstPartRead, RestRead, HeaderRead,
     HelloRead, IdleTimeout, transition, error, readOn, throws, startPeerSession
<1> QED BY <1>2, <1>3, <1>4 DEF HandshakeInv, TypeOK

\* Outside the Hello's own handlers, the timer is armed by a transition from
\* a state before it.
LEMMA ArmedBefore ==
  ASSUME HandshakeInv, Next, NEW e \in Ends, timer'[e].armed, ~timer[e].armed
  PROVE  m_nextState[e] # "StartSession"
<1>1. PICK d \in Ends :
         \/ Start(d) \/ Handler(d) \/ HostCancels(d)
         \/ WriteEnds(d) \/ ReadEnds(d) \/ OperationBreaks(d)
         \/ TimerExpires(d) \/ SessionEnds(d)
         \/ \E m \in Messages : ForeignSends(d, m)
  BY DEF Next
<1>2. \A state \in States : transition(d, state) => state \notin {"Error"} /\ d = e
  BY DEF transition, error, cancel, HandshakeInv, TypeOK
<1>3. ~ OperationFailed(d) /\ ~ IdleTimeout(d) /\ ~ HostCancels(d)
  BY DEF OperationFailed, IdleTimeout, HostCancels, error, cancel, HandshakeInv, TypeOK
<1>4. timer' # timer /\ \A what : ~ readOn(d, what)
  BY DEF readOn
<1>5. ~ throws(d) /\ ~ startPeerSession(d)
  BY <1>4 DEF throws, startPeerSession, HandshakeInv, TypeOK
<1>6. /\ m_nextState[d] \in States /\ {"Error", "AckAuthEIP8", "New"} \subseteq States
      /\ m_nextState[d] \in statesOf(op[d].what)
  BY DEF HandshakeInv, TypeOK, OperationFitsState, States
<1>7. CASE Start(d)
  BY <1>2, <1>6, <1>7 DEF Start
<1>8. CASE Written(d)
  BY <1>2, <1>6, <1>8 DEF Written, completed, statesOf
<1>9. CASE FirstPartRead(d)
  BY <1>2, <1>4, <1>6, <1>9 DEF FirstPartRead, completed, statesOf
<1>10. CASE RestRead(d)
  BY <1>2, <1>5, <1>6, <1>10 DEF RestRead, completed, statesOf
<1>11. ~ HeaderRead(d) /\ ~ HelloRead(d)
  BY <1>2, <1>4, <1>5, <1>6 DEF HeaderRead, HelloRead
<1>12. ~ (WriteEnds(d) \/ ReadEnds(d) \/ OperationBreaks(d) \/ TimerExpires(d) \/ SessionEnds(d)
          \/ \E m \in Messages : ForeignSends(d, m))
  BY <1>4 DEF WriteEnds, ReadEnds, OperationBreaks, TimerExpires, SessionEnds, ForeignSends,
              HandshakeInv, TypeOK
<1> QED BY <1>1, <1>3, <1>7, <1>8, <1>9, <1>10, <1>11, <1>12 DEF Handler

\* assert(m_nextState != StartSession) in transition(): the timer is not
\* armed again once the Hello is being read.
THEOREM TransitionNotAfterHello == Spec => StartSessionIsFinal
<1> DEFINE Final ==
      \A e \in Ends : m_nextState[e] = "StartSession" => (timer'[e].armed => timer[e].armed)
<1>1. HandshakeInv /\ [Next]_vars => [Final]_vars
  <2>1. HandshakeInv /\ Next => Final
    BY ArmedBefore
  <2> QED BY <2>1
<1> QED BY <1>1, HandshakeInvariant, PTL DEF Spec, StartSessionIsFinal

\* EndsOnce, the safety part of HandshakeOutcome: an end that counts as running turns into a
\* session or a failure, and never changes again - what HostPeers assumes of
\* the handshakes in m_connecting.
THEOREM ImplementsOutcome == Spec => EndsOnce
<1>1. Init => Outcome!OutcomeInit
  BY DEF Init, Outcome!OutcomeInit, outcome
<1>2. HandshakeInv /\ [Next]_vars => [Outcome!OutcomeNext]_outcome
  <2> SUFFICES ASSUME HandshakeInv, [Next]_vars, outcome' # outcome
               PROVE  Outcome!OutcomeNext
    OBVIOUS
  <2>1. Next
    <3>1. UNCHANGED vars => outcome' = outcome
      BY DEF vars, outcome
    <3> QED BY <3>1
  <2>2. PICK d \in Ends : \A e \in Ends \ {d} :
           m_cancel'[e] = m_cancel[e] /\ session'[e] = session[e]
    BY <2>1, OneEndActs
  <2>3. \A e \in Ends \ {d} : outcome'[e] = outcome[e]
    BY <2>1, <2>2, OneEndActs DEF outcome
  <2>4. outcome'[d] # outcome[d]
    BY <2>3 DEF outcome
  <2>5. outcome[d] = "running"
    <3>1. session[d] = "none"
      BY <2>1, <2>4, OneEndActs DEF outcome
    <3>2. CASE m_cancel[d]
      <4>1. session'[d] = "none"
        BY <2>1, <3>1, <3>2, SessionsAreStarted DEF HandshakeInv, CancelledHasNothing
      <4> QED BY <2>1, <2>4, <3>1, <3>2, <4>1, OneEndActs DEF outcome
    <3>3. CASE d \in foreign
      BY <2>1, <2>4, <3>1, <3>3, OneEndActs, SessionsAreStarted DEF outcome
    <3> QED BY <3>1, <3>2, <3>3 DEF outcome
  <2>6. outcome'[d] \in {"session", "failed"}
    BY <2>4, <2>5 DEF outcome
  <2>7. outcome' = [outcome EXCEPT ![d] = outcome'[d]]
    BY <2>3 DEF outcome
  <2> QED BY <2>5, <2>6, <2>7 DEF Outcome!OutcomeNext, Outcome!Ends
<1> QED BY <1>1, <1>2, HandshakeInvariant, PTL DEF Spec, EndsOnce

\* All that Host and Session rely on of a handshake.
THEOREM HandshakeIsSound == Spec => HandshakeSound
<1>1. Spec => [](HandshakeInv /\ NoTimerInSession)
  BY HandshakeInvariant, TimerEndsBeforeSession, PTL
<1> QED BY <1>1, CancelledStartsNoSession, TransitionNotAfterHello, ImplementsOutcome
        DEF HandshakeSound
-----------------------------------------------------------------------------
(* The two ends of this program do not wait for each other: the messages   *)
(* are counted.                                                            *)

\* A transition, from what the handlers call it with, goes on to the end's
\* next operation, which has not written or taken anything yet.
LEMMA TransitionCounts ==
  ASSUME HandshakeInv, OperationFitsEnd, NEW e \in Ends, NEW state \in States, shaking(e),
         transition(e, state),
         \/ /\ state = m_nextState[e]
            /\ IF state = "New" THEN ~m_cancel[e] ELSE op[e].status = "ok"
            /\ op[e].what \in {"none", "write", "readAuth", "readAck", "readAckRest"}
         \/ state = "AckAuthEIP8" /\ op[e].what = "readAuthRest"
         \/ state = "Error"
  PROVE  shaking(e)' => /\ op'[e].what \in doing(e)'
                        /\ written(e)' = written(e) /\ taken(e)' = taken(e)
<1>1. CASE state = "Error" \/ m_cancel[e]
  <2>1. op'[e].what = "none" /\ m_nextState'[e] = state
    BY <1>1 DEF transition, error, HandshakeInv, TypeOK, idle
  <2>2. state # "New"
    BY <1>1 DEF OperationFitsEnd, doing
  <2> QED BY <2>1, <2>2 DEF shaking
<1>2. CASE ~(state = "Error" \/ m_cancel[e])
  <2>1. /\ m_nextState'[e] = step(e, state).to /\ op'[e] = step(e, state).starts
    BY <1>2 DEF transition, HandshakeInv, TypeOK
  <2>2. op[e].what \in doing(e)
    BY DEF OperationFitsEnd
  <2>3. CASE state = "New"
    BY <2>1, <2>2, <2>3 DEF step, Write, Read, doing, written, taken, reading, m_originated
  <2>4. CASE state = "AckAuth"
    BY <2>1, <2>2, <2>4 DEF step, Write, Read, doing, written, taken, reading, m_originated
  <2>5. CASE state = "AckAuthEIP8"
    BY <2>1, <2>2, <2>5 DEF step, Write, Read, doing, written, taken, reading, m_originated
  <2>6. CASE state = "WriteHello"
    BY <2>1, <2>2, <2>6 DEF step, sendHello, Write, Read, doing, written, taken, reading, m_originated
  <2>7. CASE state = "ReadHello"
    BY <2>1, <2>2, <2>7 DEF step, Write, Read, doing, written, taken, reading, m_originated
  <2>8. state # "StartSession"
    BY <2>2 DEF doing
  <2> QED BY <1>2, <2>3, <2>4, <2>5, <2>6, <2>7, <2>8 DEF States
<1> QED BY <1>1, <1>2

\* Another step of an end that has something under way, with what it does to
\* the wire.
StepCounts(e) ==
  /\ \A d \in Ends \ {e} : op'[d] = op[d] /\ m_nextState'[d] = m_nextState[d]
  /\ shaking(e)' =>
        /\ shaking(e) /\ op'[e].what \in doing(e)'
        /\ \/ written(e)' = written(e) /\ taken(e)' = taken(e) /\ wire' = wire
           \/ /\ written(e)' = written(e) + 1 /\ taken(e)' = taken(e)
              /\ \E m \in Messages : wire' = [wire EXCEPT ![other(e)] = Append(@, m)]
           \/ /\ written(e)' = written(e) /\ taken(e)' = taken(e) + 1
              /\ wire[e] # <<>> /\ wire' = [wire EXCEPT ![e] = Tail(@)]

\* The handlers, the start and the timer write and take nothing.
LEMMA HandlerCounts ==
  ASSUME HandshakeInv, OperationFitsEnd, NEW e \in Ends,
         Start(e) \/ Handler(e) \/ HostCancels(e) \/ TimerExpires(e) \/ SessionEnds(e)
  PROVE  StepCounts(e) /\ wire' = wire
<1>0. /\ shaking(e) => op[e].what \in doing(e)
      /\ m_nextState[e] \in States /\ {"Error", "AckAuthEIP8"} \subseteq States
  BY DEF OperationFitsEnd, HandshakeInv, TypeOK, States
<1>1. CASE HostCancels(e) \/ TimerExpires(e) \/ SessionEnds(e) \/ IdleTimeout(e)
  BY <1>0, <1>1 DEF HostCancels, TimerExpires, SessionEnds, IdleTimeout, StepCounts, shaking, doing,
     written, taken, reading
<1>2. \A state \in States : transition(e, state) =>
        /\ wire' = wire
        /\ \A d \in Ends \ {e} : op'[d] = op[d] /\ m_nextState'[d] = m_nextState[d]
  BY DEF transition, error, HandshakeInv, TypeOK
<1>3. CASE Start(e)
  <2>1. shaking(e) /\ op[e].what = "none"
    BY <1>3 DEF Start, shaking, idle
  <2> QED BY <1>0, <1>2, <1>3, <2>1, TransitionCounts DEF Start, StepCounts
<1>4. CASE OperationFailed(e)
  <2>1. /\ wire' = wire /\ op' = [op EXCEPT ![e] = idle] /\ m_nextState' = m_nextState
        /\ m_nextState[e] # "New"
    BY <1>0, <1>4 DEF OperationFailed, error, doing, shaking, HandshakeInv, TypeOK
  <2> QED BY <2>1 DEF StepCounts, shaking, HandshakeInv, TypeOK, idle
<1>5. CASE Written(e)
  <2>1. shaking(e) /\ op[e].what = "write" /\ op[e].status = "ok" /\ transition(e, m_nextState[e])
    BY <1>5 DEF Written, completed, shaking
  <2>2. m_nextState[e] # "New"
    BY <1>0, <2>1 DEF doing
  <2> QED BY <1>0, <1>2, <2>1, <2>2, TransitionCounts DEF StepCounts
<1>6. \A what \in {"readAuthRest", "readAckRest", "readFrame"} : readOn(e, what) =>
         /\ wire' = wire /\ m_nextState' = m_nextState
         /\ \A d \in Ends \ {e} : op'[d] = op[d]
         /\ op'[e].what = what
  BY DEF readOn, Read, HandshakeInv, TypeOK
<1>7. CASE FirstPartRead(e)
  <2>1. shaking(e) /\ op[e].status = "ok" /\ op[e].what \in {"readAuth", "readAck"}
    BY <1>7 DEF FirstPartRead, completed, shaking
  <2>2. CASE transition(e, m_nextState[e])
    <3>1. m_nextState[e] # "New"
      BY <1>0, <2>1 DEF doing
    <3> QED BY <1>0, <1>2, <2>1, <2>2, <3>1, TransitionCounts DEF StepCounts
  <2>3. CASE op[e].what = "readAuth" /\ readOn(e, "readAuthRest")
    BY <1>0, <1>6, <2>1, <2>3 DEF StepCounts, shaking, doing, written, taken, reading
  <2>4. CASE op[e].what = "readAck" /\ readOn(e, "readAckRest")
    BY <1>0, <1>6, <2>1, <2>4 DEF StepCounts, shaking, doing, written, taken, reading
  <2> QED BY <1>7, <2>2, <2>3, <2>4 DEF FirstPartRead, completed
<1>8. CASE RestRead(e)
  <2>1. shaking(e) /\ op[e].status = "ok" /\ op[e].what \in {"readAuthRest", "readAckRest"}
    BY <1>8 DEF RestRead, completed, shaking
  <2>2. CASE throws(e)
    BY <1>0, <2>1, <2>2 DEF throws, StepCounts, shaking, HandshakeInv, TypeOK, idle, doing
  <2>3. CASE op[e].what = "readAuthRest" /\ transition(e, "AckAuthEIP8")
    BY <1>0, <1>2, <2>1, <2>3, TransitionCounts DEF StepCounts
  <2>4. CASE op[e].what = "readAckRest" /\ transition(e, m_nextState[e])
    <3>1. m_nextState[e] # "New"
      BY <1>0, <2>1 DEF doing
    <3> QED BY <1>0, <1>2, <2>1, <2>4, <3>1, TransitionCounts DEF StepCounts
  <2>5. CASE transition(e, "Error")
    BY <1>0, <1>2, <2>1, <2>5, TransitionCounts DEF StepCounts
  <2> QED BY <1>8, <2>2, <2>3, <2>4, <2>5 DEF RestRead, completed
<1>9. CASE HeaderRead(e)
  <2>1. shaking(e) /\ op[e].status = "ok" /\ op[e].what = "readHeader"
    BY <1>9 DEF HeaderRead, completed, shaking
  <2>2. CASE readOn(e, "readFrame")
    BY <1>0, <1>6, <2>1, <2>2 DEF StepCounts, shaking, doing, written, taken, reading
  <2>3. CASE transition(e, "Error")
    BY <1>0, <1>2, <2>1, <2>3, TransitionCounts DEF StepCounts
  <2> QED BY <1>9, <2>2, <2>3 DEF HeaderRead, completed
<1>10. CASE HelloRead(e)
  <2>1. shaking(e) /\ op[e].what = "readFrame"
    BY <1>10 DEF HelloRead, completed, shaking
  <2>2. CASE startPeerSession(e)
    BY <1>0, <2>1, <2>2 DEF startPeerSession, StepCounts, shaking, HandshakeInv, TypeOK, idle, doing
  <2>3. CASE transition(e, "Error")
    BY <1>0, <1>2, <2>1, <2>3, TransitionCounts DEF StepCounts
  <2> QED BY <1>10, <2>2, <2>3 DEF HelloRead, completed
<1> QED BY <1>1, <1>3, <1>4, <1>5, <1>7, <1>8, <1>9, <1>10 DEF Handler

\* An operation that ends has written a message, taken one, or failed.
LEMMA OperationCounts ==
  ASSUME HandshakeInv, OperationFitsEnd, NEW e \in Ends, foreign = {},
         WriteEnds(e) \/ ReadEnds(e) \/ OperationBreaks(e)
  PROVE  StepCounts(e)
<1>0. /\ op[e].what \in doing(e) /\ shaking(e) /\ op[e].status = "pending"
      /\ m_nextState' = m_nextState
      /\ \A d \in Ends \ {e} : op'[d] = op[d]
      /\ op'[e].what = op[e].what
  BY DEF WriteEnds, ReadEnds, OperationBreaks, pending, Ended, shaking, OperationFitsEnd,
     HandshakeInv, TypeOK
<1>1. CASE WriteEnds(e)
  <2>1. /\ op[e].what = "write" /\ op'[e].status = "ok" /\ op[e].msg \in Messages
        /\ wire' = [wire EXCEPT ![other(e)] = Append(@, op[e].msg)]
    BY <1>1 DEF WriteEnds, Ended, HandshakeInv, TypeOK, OperationFitsState
  <2>2. /\ written(e)' = written(e) + 1 /\ taken(e)' = taken(e)
        /\ shaking(e)' /\ doing(e)' = doing(e)
    BY <1>0, <2>1 DEF written, taken, reading, shaking, doing
  <2> QED BY <1>0, <2>1, <2>2 DEF StepCounts
<1>2. CASE ReadEnds(e)
  <2>1. CASE reading(e) /\ wire[e] # <<>>
    <3>1. /\ op'[e].status = "ok" /\ wire' = [wire EXCEPT ![e] = Tail(@)]
      BY <1>2, <2>1 DEF ReadEnds, reading, HandshakeInv, TypeOK
    <3>2. written(e)' = written(e) /\ taken(e)' = taken(e) + 1 /\ doing(e)' = doing(e)
      BY <1>0, <2>1, <3>1 DEF written, taken, reading, doing, m_originated
    <3> QED BY <1>0, <2>1, <3>1, <3>2 DEF StepCounts
  <2>2. CASE op[e].what \in {"readAuthRest", "readAckRest", "readFrame"}
    <3>1. wire' = wire
      BY <1>2, <2>2 DEF ReadEnds, reading
    <3>2. written(e)' = written(e) /\ taken(e)' = taken(e) /\ doing(e)' = doing(e)
      BY <1>0, <2>2 DEF written, taken, reading, doing, m_originated
    <3> QED BY <1>0, <3>1, <3>2 DEF StepCounts
  <2> QED BY <1>2, <2>1, <2>2 DEF ReadEnds
<1>3. CASE OperationBreaks(e)
  <2>1. wire' = wire /\ op'[e].status = "failed"
    BY <1>3 DEF OperationBreaks, Ended, HandshakeInv, TypeOK
  <2>2. written(e)' = written(e) /\ taken(e)' = taken(e) /\ doing(e)' = doing(e)
    BY <1>0, <2>1 DEF written, taken, reading, doing, m_originated
  <2> QED BY <1>0, <2>1, <2>2 DEF StepCounts
<1> QED BY <1>1, <1>2, <1>3

\* So nothing is lost between the ends, whichever of them acts.
LEMMA NothingLostKept ==
  ASSUME MutualInv, NEW e \in Ends, StepCounts(e), foreign = {}, foreign' = {}
  PROVE  OperationFitsEnd' /\ NothingLost'
<1> USE DEF MutualInv
<1> DEFINE d == other(e)
<1>1. d \in Ends /\ d # e /\ Ends = {d, e} /\ other(d) = e
  BY DEF other
<1>2. shaking(d)' = shaking(d) /\ written(d)' = written(d) /\ taken(d)' = taken(d)
  BY <1>1 DEF StepCounts, shaking, written, taken, reading
<1>3. OperationFitsEnd'
  BY <1>1, <1>2 DEF StepCounts, MutualInv, OperationFitsEnd, doing, shaking
<1>4. /\ wire[e] \in Seq(Messages) /\ wire[d] \in Seq(Messages) /\ DOMAIN wire = Ends
      /\ written(e) \in Nat /\ written(d) \in Nat /\ taken(e) \in Nat /\ taken(d) \in Nat
  BY <1>1 DEF MutualInv, HandshakeInv, TypeOK, written, taken
<1>5. ASSUME shaking(e)', shaking(d)'
      PROVE  /\ written(e)' = Len(wire'[d]) + taken(d)'
             /\ written(d)' = Len(wire'[e]) + taken(e)'
  <2>1. /\ written(e) = Len(wire[d]) + taken(d)
        /\ written(d) = Len(wire[e]) + taken(e)
    BY <1>1, <1>2, <1>5 DEF StepCounts, MutualInv, NothingLost
  <2>2. CASE wire' = wire /\ written(e)' = written(e) /\ taken(e)' = taken(e)
    BY <1>2, <2>1, <2>2
  <2>3. ASSUME NEW m \in Messages, wire' = [wire EXCEPT ![d] = Append(@, m)],
               written(e)' = written(e) + 1, taken(e)' = taken(e)
        PROVE  /\ written(e)' = Len(wire'[d]) + taken(d)'
               /\ written(d)' = Len(wire'[e]) + taken(e)'
    <3>1. wire'[e] = wire[e] /\ wire'[d] = Append(wire[d], m)
      BY <1>1, <1>4, <2>3
    <3>2. Len(wire'[d]) = Len(wire[d]) + 1 /\ Len(wire[d]) \in Nat
      BY <1>4, <3>1
    <3>3. written(e)' = Len(wire'[d]) + taken(d)'
      BY <1>2, <1>4, <2>1, <2>3, <3>2
    <3>4. written(d)' = Len(wire'[e]) + taken(e)'
      BY <1>2, <2>1, <2>3, <3>1
    <3> QED BY <3>3, <3>4
  <2>4. CASE /\ wire[e] # <<>> /\ wire' = [wire EXCEPT ![e] = Tail(@)]
             /\ written(e)' = written(e) /\ taken(e)' = taken(e) + 1
    <3>1. wire'[d] = wire[d] /\ wire'[e] = Tail(wire[e])
      BY <1>1, <1>4, <2>4
    <3>2. Len(wire'[e]) = Len(wire[e]) - 1 /\ Len(wire[e]) \in Nat
      BY <1>4, <2>4, <3>1
    <3> QED BY <1>2, <1>4, <2>1, <2>4, <3>1, <3>2
  <2> QED BY <1>5, <2>2, <2>3, <2>4 DEF StepCounts
<1>6. NothingLost'
  <2>1. \A x \in Ends : x = d \/ x = e
    BY <1>1
  <2> QED BY <1>1, <1>5, <2>1 DEF NothingLost, other
<1> QED BY <1>3, <1>6

\* No step of any end, of the Host or of a timer undoes it.
LEMMA MutualStep == MutualInv /\ [Next]_vars => MutualInv'
<1> SUFFICES ASSUME MutualInv, [Next]_vars
             PROVE  MutualInv'
  OBVIOUS
<1>1. HandshakeInv'
  BY StepKeeps DEF MutualInv
<1>2. CASE UNCHANGED vars
  <2>1. /\ foreign' = foreign /\ wire' = wire /\ op' = op
        /\ \A e \in Ends : /\ shaking(e)' = shaking(e) /\ doing(e)' = doing(e)
                          /\ written(e)' = written(e) /\ taken(e)' = taken(e)
    BY <1>2 DEF vars, shaking, doing, written, taken, reading
  <2>2. OperationFitsEnd => OperationFitsEnd'
    BY <2>1 DEF OperationFitsEnd
  <2>3. NothingLost => NothingLost'
    BY <2>1 DEF NothingLost, other
  <2> QED BY <1>1, <2>1, <2>2, <2>3 DEF MutualInv
<1>3. CASE Next
  <2>1. PICK e \in Ends :
           \/ Start(e) \/ Handler(e) \/ HostCancels(e)
           \/ WriteEnds(e) \/ ReadEnds(e) \/ OperationBreaks(e)
           \/ TimerExpires(e) \/ SessionEnds(e)
           \/ \E m \in Messages : ForeignSends(e, m)
    BY <1>3 DEF Next
  <2>2. foreign' = foreign
    BY <1>3, OneEndActs DEF MutualInv
  <2>3. CASE foreign = {}
    <3>1. ~ \E m \in Messages : ForeignSends(e, m)
      BY <2>3 DEF ForeignSends
    <3>2. StepCounts(e)
      BY <2>1, <2>3, <3>1, HandlerCounts, OperationCounts DEF MutualInv
    <3> QED BY <1>1, <2>2, <2>3, <3>2, NothingLostKept DEF MutualInv
  <2> QED BY <1>1, <2>2, <2>3 DEF MutualInv
<1> QED BY <1>2, <1>3

\* NoMutualWait: two ends of this program never both wait for a message.
THEOREM NeverWaitForEachOther == Spec => []NoMutualWait
<1>1. Init => MutualInv
  <2>1. Init => OperationFitsEnd
    BY DEF Init, OperationFitsEnd, doing, idle
  <2>2. Init => NothingLost
    BY DEF Init, NothingLost, written, taken, reading, other, idle
  <2> QED BY InitEstablishes, <2>1, <2>2 DEF MutualInv
<1>2. MutualInv => NoMutualWait
  <2> SUFFICES ASSUME MutualInv, foreign = {}, waits("egress"), waits("ingress")
               PROVE  FALSE
    BY DEF NoMutualWait
  <2>1. \A e \in Ends : /\ shaking(e) /\ op[e].what \in doing(e) /\ reading(e)
                        /\ op[e].status = "pending" /\ Len(wire[e]) = 0
    BY DEF waits, pending, reading, shaking, MutualInv, OperationFitsEnd
  <2>2. written("egress") = taken("ingress") /\ written("ingress") = taken("egress")
    <3>1. \A e \in Ends : written(e) = Len(wire[other(e)]) + taken(other(e))
      BY <2>1 DEF MutualInv, NothingLost, other
    <3>2. \A e \in Ends : Len(wire[other(e)]) = 0 /\ taken(e) \in Nat
      BY <2>1 DEF other, taken
    <3>3. \A e \in Ends : written(e) = taken(other(e))
      <4> TAKE e \in Ends
      <4>1. other(e) \in Ends
        BY DEF other
      <4>2. taken(other(e)) \in Nat
        BY <3>2, <4>1
      <4> QED BY <3>1, <3>2, <4>2
    <3> QED BY <3>3 DEF other
  <2>3. written("egress") = taken("egress") + 1
    BY <2>1 DEF written, taken, reading, doing, m_originated
  <2>4. \/ written("ingress") = taken("ingress") \/ written("ingress") = taken("ingress") + 1
    BY <2>1 DEF written, taken, reading, doing, m_originated
  <2>5. taken("egress") \in Nat /\ taken("ingress") \in Nat
    BY DEF taken
  <2> QED BY <2>2, <2>3, <2>4, <2>5
<1> QED BY <1>1, <1>2, MutualStep, PTL DEF Spec
=============================================================================
