------------------------- MODULE HostLifecycleProof -------------------------
(***************************************************************************)
(* Machine-checked proofs about dev::Worker, and about starting and        *)
(* stopping the Host, a Worker, for any set of client threads and whether  *)
(* or not startedWorking throws.                                           *)
(*                                                                         *)
(* Worker: while a call is in progress its caller holds x_work, so the     *)
(* request it left in m_state cannot be overwritten by another caller      *)
(* before the service thread has answered it (LockInv); and the position   *)
(* of the service thread bounds the values of m_state it can find there    *)
(* (ThreadInv).                                                            *)
(*                                                                         *)
(* The Host refines its base class: every step of HostLifecycle is a step  *)
(* of Worker or leaves Worker's state alone, so that what is proved of     *)
(* Worker holds of the Host.  What run() does with m_timer is then enough  *)
(* for the scheduler to stay alive while the network is up, and the order  *)
(* of stop, run(), startedWorking and doneWorking for the Host to be left  *)
(* clean.                                                                  *)
(***************************************************************************)
EXTENDS HostLifecycle, TLAPS

USE ClientsAssumption

\* A freshly constructed Worker satisfies the invariant: there is no thread
\* object and nobody holds x_work.
LEMMA InitEstablishes == Init => IInv
  BY DEF Init, IInv, TypeOK, LockInv, ThreadInv, Held, WorkerState, ThreadPC, UserCode

\* startWorking, stopWorking and terminate, entered on x_work, preserve the
\* invariant: the request is only written by the holder of the mutex.
LEMMA CallPreserves ==
  ASSUME IInv, NEW c \in Clients, StartWorking(c) \/ StopWorking(c) \/ Terminate(c)
  PROVE  IInv'
<1> USE DEF IInv, Block, CompareExchange
<1>1. CASE StartWorking(c)
  <2>1. TypeOK'
    BY <1>1 DEF StartWorking, TypeOK, WorkerState, ThreadPC
  <2>2. LockInv'
    BY <1>1 DEF StartWorking, TypeOK, LockInv
  <2>3. cpc'[c] = "starting" /\ Held("starting")'
    BY <1>1 DEF StartWorking, TypeOK, Held
  <2>4. ThreadInv'
    BY <1>1, <2>3 DEF StartWorking, TypeOK, LockInv, ThreadInv, WorkerState, ThreadPC, UserCode
  <2> QED BY <2>1, <2>2, <2>4
<1>2. CASE StopWorking(c)
  <2>1. TypeOK'
    BY <1>2 DEF StopWorking, TypeOK, WorkerState, ThreadPC
  <2>2. LockInv'
    BY <1>2 DEF StopWorking, TypeOK, LockInv
  <2>3. \A call \in {"starting", "joining"} : ~Held(call)
    BY <1>2 DEF StopWorking, TypeOK, LockInv, Held
  <2>4. ThreadInv'
    BY <1>2, <2>3 DEF StopWorking, TypeOK, ThreadInv, WorkerState, ThreadPC, UserCode
  <2> QED BY <2>1, <2>2, <2>4
<1>3. CASE Terminate(c)
  <2>1. TypeOK'
    BY <1>3 DEF Terminate, TypeOK, WorkerState, ThreadPC
  <2>2. LockInv'
    BY <1>3 DEF Terminate, TypeOK, LockInv
  <2>3. ~Held("starting") /\ (m_work => Held("joining")')
    BY <1>3 DEF Terminate, TypeOK, Held
  <2>4. ThreadInv'
    BY <1>3, <2>3 DEF Terminate, TypeOK, ThreadInv, WorkerState, ThreadPC, UserCode
  <2> QED BY <2>1, <2>2, <2>4
<1> QED BY <1>1, <1>2, <1>3

\* Returning from a call gives x_work up only when the thread has answered.
LEMMA ReturnPreserves ==
  ASSUME IInv, NEW c \in Clients, CallReturns(c)
  PROVE  IInv'
<1> USE DEF IInv, Return
<1>1. TypeOK'
  BY DEF CallReturns, StartReturns, StopReturns, TerminateReturns, TypeOK, ThreadPC
<1>2. LockInv'
  BY DEF CallReturns, StartReturns, StopReturns, TerminateReturns, TypeOK, LockInv
<1>3. \A d \in Clients : d # c => cpc[d] = "idle"
  BY DEF CallReturns, StartReturns, StopReturns, TerminateReturns, TypeOK, LockInv
<1>4. CASE StartReturns(c)
  <2>1. ~Held("joining")
    BY <1>3, <1>4 DEF StartReturns, Held
  <2> QED BY <1>1, <1>2, <1>4, <2>1 DEF StartReturns, ThreadInv, TypeOK, WorkerState, UserCode
<1>5. CASE StopReturns(c)
  <2>1. ~Held("joining") /\ ~Held("starting")
    BY <1>3, <1>5 DEF StopReturns, Held
  <2> QED BY <1>1, <1>2, <1>5, <2>1 DEF StopReturns, ThreadInv, TypeOK, WorkerState, UserCode
<1>6. CASE TerminateReturns(c)
  BY <1>1, <1>2, <1>6 DEF TerminateReturns, ThreadInv, TypeOK, WorkerState, UserCode
<1> QED BY <1>4, <1>5, <1>6 DEF CallReturns

\* Every step of the service thread preserves the invariant, an exception
\* thrown by a callback included.
LEMMA ThreadPreserves ==
  ASSUME IInv, ThreadStep \/ ThreadThrows
  PROVE  IInv'
<1> USE DEF IInv, ThreadGoes
<1>1. UNCHANGED <<m_work, x_work, cpc, destroyed>>
  BY DEF ThreadStep, ThreadThrows, ThreadTop, ThreadSetStarted, ThreadStartedWorking,
         ThreadLoopExit, ThreadDoneWorking, ThreadSetStopped, ThreadRestore, ThreadAwake
<1>2. LockInv'
  BY <1>1 DEF LockInv
<1>3. \A call \in {"starting", "joining"} : Held(call)' <=> Held(call)
  BY <1>1 DEF Held
<1>4. ~(Held("starting") /\ Held("joining"))
  BY DEF Held, LockInv
<1> USE DEF TypeOK, ThreadInv, WorkerState, ThreadPC, UserCode
<1>5. CASE ThreadTop
  BY <1>1, <1>2, <1>3, <1>5 DEF ThreadTop
<1>6. CASE ThreadSetStarted
  BY <1>1, <1>2, <1>3, <1>4, <1>6 DEF ThreadSetStarted, CompareExchange
<1>7. CASE ThreadStartedWorking
  BY <1>1, <1>2, <1>3, <1>7 DEF ThreadStartedWorking
<1>8. CASE ThreadLoopExit
  BY <1>1, <1>2, <1>3, <1>8 DEF ThreadLoopExit
<1>9. CASE ThreadDoneWorking
  BY <1>1, <1>2, <1>3, <1>9 DEF ThreadDoneWorking
<1>10. CASE ThreadThrows
  BY <1>1, <1>2, <1>3, <1>10 DEF ThreadThrows
<1>11. CASE ThreadSetStopped
  BY <1>1, <1>2, <1>3, <1>11 DEF ThreadSetStopped
<1>12. CASE ThreadRestore
  BY <1>1, <1>2, <1>3, <1>12 DEF ThreadRestore
<1>13. CASE ThreadAwake
  BY <1>1, <1>2, <1>3, <1>13 DEF ThreadAwake
<1> QED BY <1>5, <1>6, <1>7, <1>8, <1>9, <1>10, <1>11, <1>12, <1>13 DEF ThreadStep

\* Every step of Worker, or of anybody else, preserves the invariant.
LEMMA StepPreserves == IInv /\ [Next]_vars => IInv'
<1> SUFFICES ASSUME IInv, [Next]_vars PROVE IInv'
  OBVIOUS
<1>1. CASE UNCHANGED vars
  BY <1>1 DEF vars, IInv, TypeOK, LockInv, ThreadInv, Held
<1>2. CASE Next
  BY <1>2, CallPreserves, ReturnPreserves, ThreadPreserves DEF Next
<1> QED BY <1>1, <1>2

\* The lock and thread invariants of Worker.cpp hold for any set of callers.
THEOREM WorkerInvariant == Spec => []IInv
<1>1. Init => IInv
  BY InitEstablishes
<1>2. IInv /\ [Next]_vars => IInv'
  BY StepPreserves
<1> QED BY <1>1, <1>2, PTL DEF Spec

\* No callback of the derived class runs while m_state is Stopped or Starting.
THEOREM CallbacksQuietWhenStopped == Spec => []UserCodeOnlyWhileLive
<1>1. IInv => UserCodeOnlyWhileLive
  BY DEF IInv, ThreadInv, UserCodeOnlyWhileLive
<1> QED BY <1>1, WorkerInvariant, PTL

\* The exchange whose result startWorking's thread discards always succeeds.
THEOREM ExchangeSucceeds == Spec => []ExchangeNeverFails
<1>1. IInv => ExchangeNeverFails
  BY DEF IInv, ThreadInv, ExchangeNeverFails
<1> QED BY <1>1, WorkerInvariant, PTL

\* After terminate() has set Killing no callback is entered again, whatever
\* the thread was doing at that moment.
THEOREM NoRestart == Spec => NoRestartAfterTerminate
<1>1. IInv /\ [Next]_vars => [destroyed => ~(wpc \notin UserCode /\ wpc' \in UserCode)]_vars
  <2> SUFFICES ASSUME IInv, Next, destroyed, wpc \notin UserCode, wpc' \in UserCode
               PROVE  FALSE
    BY DEF vars
  <2>1. ThreadSetStarted
    BY DEF Next, CallReturns, StartWorking, StopWorking, Terminate, StartReturns, StopReturns,
           TerminateReturns, ThreadStep, ThreadThrows, ThreadGoes, ThreadTop,
           ThreadStartedWorking, ThreadLoopExit, ThreadDoneWorking, ThreadSetStopped,
           ThreadRestore, ThreadAwake, UserCode
  <2>2. wpc = "cas" /\ m_state = "Starting"
    BY <2>1 DEF ThreadSetStarted, ThreadGoes, IInv, ThreadInv
  <2> QED BY <2>2 DEF IInv, ThreadInv
<1> QED BY <1>1, WorkerInvariant, PTL DEF Spec, NoRestartAfterTerminate

\* All that the classes derived from Worker rely on.
THEOREM WorkerIsSound == Spec => WorkerSound
<1>1. Spec => [](IInv /\ UserCodeOnlyWhileLive /\ ExchangeNeverFails)
  BY WorkerInvariant, CallbacksQuietWhenStopped, ExchangeSucceeds, PTL
<1> QED BY <1>1, NoRestart DEF WorkerSound

-----------------------------------------------------------------------------
(* The Host.                                                               *)

USE FlagsAssumption

\* A step of the service thread, of a handler or of a client is a step of
\* Worker or a stutter.
LEMMA StepRefines == [HostNext]_lifecycleVars => [Next]_vars
<1> SUFFICES ASSUME [HostNext]_lifecycleVars PROVE [Next]_vars
  OBVIOUS
<1>1. CASE UNCHANGED lifecycleVars
  BY <1>1 DEF lifecycleVars
<1>2. CASE ServiceThread
  BY <1>2 DEF ServiceThread, ThreadOutside, EnterStarted, Arm, Listen, CreateNodeTable,
     RestoreNetwork, FirstRun, EnterLoop, EnterIo, LeaveIo, LeaveLoop, DoneWorking, LeaveDone,
     Step, Next, ThreadStep
<1>3. CASE StartedWorkingThrows
  BY <1>3 DEF StartedWorkingThrows, Next
<1>4. CASE TimerHandler \/ AcceptHandler \/ AcceptFails \/ HandlerThrows
  BY <1>4 DEF TimerHandler, AcceptHandler, AcceptFails, HandlerThrows, Step, Next
<1>5. ASSUME NEW c \in Clients, start(c) \/ stop(c) \/ Destroy(c) PROVE [Next]_vars
  BY <1>5 DEF start, stop, Destroy, Begin
<1>6. ASSUME NEW c \in Clients, ClientStep(c) PROVE [Next]_vars
  BY <1>6 DEF ClientStep, ClientGoesOn, CallStartWorking, StartWorkingReturns, StopsPolling, Verdict,
     StartFails, StartFailed, StartThrows, ResetRunFlag, TimerGone, CheckWorking, CallStopWorking,
     StopWorkingReturns, CallTerminate, Terminated, Next, CallReturns
<1> QED BY <1>1, <1>2, <1>3, <1>4, <1>5, <1>6 DEF HostNext

\* What is done to Worker is done by its own operations.
LEMMA HostImplementsWorker == HostSpec => Spec
<1>1. HostInit => Init
  BY DEF HostInit
<1> QED BY <1>1, StepRefines, PTL DEF HostSpec, Spec

\* So the invariant of Worker holds in every state of the Host.
THEOREM HostKeepsWorkerInvariant == HostSpec => []IInv
  BY HostImplementsWorker, WorkerInvariant, PTL

\* A step of the service thread keeps the types, and run() arms m_timer
\* whenever it leaves the network up.
LEMMA ServiceThreadKeepsHostInv ==
  ASSUME HostInv, ServiceThread \/ StartedWorkingThrows
  PROVE  HostInv'
<1> USE DEF HostInv, HostTypeOK, SchedulerAlive, hostVars, Step, StartedPC, DonePC, run
<1>1. CASE ThreadOutside \/ EnterStarted \/ EnterLoop \/ LeaveLoop \/ LeaveDone \/ StartedWorkingThrows
  BY <1>1 DEF ThreadOutside, EnterStarted, EnterLoop, LeaveLoop, LeaveDone, StartedWorkingThrows
<1>2. CASE Arm \/ Listen \/ CreateNodeTable \/ RestoreNetwork
  BY <1>2 DEF Arm, Listen, CreateNodeTable, RestoreNetwork
<1>3. CASE FirstRun
  BY <1>3 DEF FirstRun
<1>4. CASE EnterIo \/ LeaveIo
  BY <1>4 DEF EnterIo, LeaveIo
<1>5. CASE DoneWorking
  BY <1>5 DEF DoneWorking, doneWorking
<1> QED BY <1>1, <1>2, <1>3, <1>4, <1>5 DEF ServiceThread

\* What a client does to the Host's own state keeps the types and the timer.
LEMMA ClientKeepsHostInv ==
  ASSUME HostInv, NEW c \in Clients, start(c) \/ stop(c) \/ Destroy(c) \/ ClientStep(c)
  PROVE  HostInv'
<1> USE DEF HostInv
<1>1. UNCHANGED <<m_timer, hw>> /\ (m_run' = m_run \/ m_run' = FALSE)
  <2>1. CASE start(c) \/ stop(c) \/ Destroy(c)
    BY <2>1 DEF hostVars, start, stop, Destroy, Begin
  <2>2. CASE StartFails(c)
    BY <2>2 DEF StartFails, doneWorking
  <2>3. CASE ResetRunFlag(c)
    BY <2>3 DEF ResetRunFlag
  <2>4. CASE ClientStep(c) /\ ~StartFails(c) /\ ~ResetRunFlag(c)
    BY <2>4 DEF hostVars, ClientStep, ClientGoesOn, CallStartWorking, StartWorkingReturns, StopsPolling,
       Verdict, StartFailed, StartThrows, TimerGone, CheckWorking, CallStopWorking, StopWorkingReturns,
       CallTerminate, Terminated
  <2> QED BY <2>1, <2>2, <2>3, <2>4
<1>2. /\ m_nodeTable' \in BOOLEAN /\ acceptor' \in BOOLEAN /\ ioStopped' \in BOOLEAN /\ cutShort' \in BOOLEAN
      /\ accept' \in {"none", "pending", "aborted"}
  BY DEF HostTypeOK, hostVars, start, stop, Destroy, Begin, ClientStep, ClientGoesOn, CallStartWorking,
     StartWorkingReturns, StopsPolling, Verdict, StartFails, StartFailed, StartThrows, ResetRunFlag,
     TimerGone, CheckWorking, CallStopWorking, StopWorkingReturns, CallTerminate, Terminated,
     doneWorking
<1> DEFINE PC == [call : {"none", "start", "stop", "destroy"},
                  at : {"idle", "startWorking", "starting", "poll", "verdict",
                        "terminate"} \cup DonePC \cup StopPC]
<1>3. hpc' \in [Clients -> PC]
  <2>1. hpc \in [Clients -> PC]
    BY DEF HostTypeOK
  <2>2. CASE start(c) \/ stop(c) \/ Destroy(c)
    BY <2>1, <2>2 DEF start, stop, Destroy, Begin, StopPC, DonePC
  <2>3. ASSUME NEW to, to \in {"starting", "poll", "verdict", "terminate"} \cup DonePC \cup StopPC,
               hpc' = [hpc EXCEPT ![c].at = to]
        PROVE  hpc' \in [Clients -> PC]
    BY <2>1, <2>3
  <2>4. CASE End(c)
    BY <2>1, <2>4 DEF End, Idle
  <2>5. CASE UNCHANGED hpc
    BY <2>1, <2>5
  <2>6. CASE ClientStep(c)
    BY <2>3, <2>4, <2>5, <2>6 DEF ClientStep, ClientGoesOn, CallStartWorking, StartWorkingReturns,
       StopsPolling, Verdict, StartFails, StartFailed, StartThrows, ResetRunFlag, TimerGone, CheckWorking,
       CallStopWorking, StopWorkingReturns, CallTerminate, Terminated, Goes, AfterStop,
       DonePC, StopPC
  <2> QED BY <2>2, <2>6
<1>4. HostTypeOK'
  <2>1. hpc' \in [Clients -> [call : {"none", "start", "stop", "destroy"},
                            at : {"idle", "startWorking", "starting", "poll", "verdict",
                                  "terminate"} \cup DonePC \cup StopPC]]
    BY <1>3
  <2> QED BY <1>1, <1>2, <2>1 DEF HostTypeOK
<1>5. SchedulerAlive'
  BY <1>1 DEF SchedulerAlive
<1> QED BY <1>4, <1>5

\* While the network is up, m_timer is armed: run() will be called again,
\* which is what stop relies on to see m_timer released.
THEOREM SchedulerStaysAlive == HostSpec => []HostInv
<1>1. HostInit => HostInv
  <2> SUFFICES ASSUME HostInit PROVE HostInv
    OBVIOUS
  <2>1. Idle \in [call : {"none", "start", "stop", "destroy"},
                 at : {"idle", "startWorking", "starting", "poll", "verdict",
                       "terminate"} \cup DonePC \cup StopPC]
    BY DEF Idle
  <2> QED BY <2>1 DEF HostInit, HostInv, HostTypeOK, SchedulerAlive
<1>2. HostInv /\ [HostNext]_lifecycleVars => HostInv'
  <2> SUFFICES ASSUME HostInv, [HostNext]_lifecycleVars PROVE HostInv'
    OBVIOUS
  <2>1. CASE UNCHANGED lifecycleVars
    BY <2>1 DEF lifecycleVars, hostVars, HostInv, HostTypeOK, SchedulerAlive
  <2>2. CASE TimerHandler \/ AcceptHandler \/ AcceptFails
    <3>1. /\ UNCHANGED <<m_run, acceptor, cutShort, hw, hpc>>
          /\ accept' \in {accept, "none"}
          /\ \/ UNCHANGED <<m_timer, m_nodeTable, ioStopped>>
             \/ run
      BY <2>2 DEF TimerHandler, AcceptHandler, AcceptFails
    <3>2. HostTypeOK'
      BY <3>1, ZenonT(60) DEF run, HostInv, HostTypeOK, StartedPC, DonePC, StopPC
    <3>3. SchedulerAlive'
      BY <3>1 DEF run, HostInv, SchedulerAlive
    <3> QED BY <3>2, <3>3 DEF HostInv
  <2>3. CASE ServiceThread \/ StartedWorkingThrows
    BY <2>3, ServiceThreadKeepsHostInv
  <2>4. ASSUME NEW c \in Clients, start(c) \/ stop(c) \/ Destroy(c) \/ ClientStep(c)
        PROVE  HostInv'
    BY <2>4, ClientKeepsHostInv
  <2>5. CASE HandlerThrows
    <3>1. /\ UNCHANGED <<m_run, m_timer, m_nodeTable, acceptor, accept, ioStopped, hpc>>
          /\ cutShort' \in {cutShort, TRUE}
          /\ (hw = "inRun" /\ hw' = "between") \/ hw' = "out"
      BY <2>5 DEF HandlerThrows, Step, hostVars
    <3>2. HostTypeOK'
      BY <3>1 DEF HostInv, HostTypeOK, StartedPC, DonePC, StopPC
    <3>3. SchedulerAlive'
      BY <3>1 DEF HostInv, SchedulerAlive
    <3> QED BY <3>2, <3>3 DEF HostInv
  <2> QED BY <2>1, <2>2, <2>3, <2>4, <2>5 DEF HostNext
<1> QED BY <1>1, <1>2, PTL DEF HostSpec

-----------------------------------------------------------------------------
(* Stopping and destroying.                                                *)

\* A client that takes a step moves itself only.
LEMMA ClientMoves ==
  ASSUME HostInv, IInv, NEW c \in Clients, start(c) \/ stop(c) \/ Destroy(c) \/ ClientStep(c),
         NEW d \in Clients, d # c
  PROVE  hpc'[d] = hpc[d] /\ cpc'[d] = cpc[d]
<1> DEFINE PC == [call : {"none", "start", "stop", "destroy"},
                  at : {"idle", "startWorking", "starting", "poll", "verdict",
                        "terminate"} \cup DonePC \cup StopPC]
<1>1. hpc \in [Clients -> PC] /\ cpc \in [Clients -> {"idle", "starting", "stopping", "joining"}]
  BY DEF HostInv, HostTypeOK, IInv, TypeOK
<1>2. CASE start(c) \/ stop(c) \/ Destroy(c)
  BY <1>1, <1>2 DEF start, stop, Destroy, Begin, vars
<1>3. CASE ClientStep(c)
  <2>1. hpc'[d] = hpc[d]
    BY <1>1, <1>3 DEF ClientStep, ClientGoesOn, CallStartWorking, StartWorkingReturns, StopsPolling, Verdict,
       StartFails, StartFailed, StartThrows, ResetRunFlag, TimerGone, CheckWorking, CallStopWorking,
       StopWorkingReturns, CallTerminate, Terminated, Goes, End, AfterStop
  <2>2. cpc'[d] = cpc[d]
    BY <1>1, <1>3 DEF ClientStep, ClientGoesOn, CallStartWorking, StartWorkingReturns, StopsPolling, Verdict,
       StartFails, StartFailed, StartThrows, ResetRunFlag, TimerGone, CheckWorking, CallStopWorking,
       StopWorkingReturns, CallTerminate, Terminated, vars, StartWorking, StartReturns, StopWorking,
       StopReturns, Terminate, TerminateReturns, Block, Return
  <2> QED BY <2>1, <2>2
<1> QED BY <1>2, <1>3

\* The service thread is in a callback when Worker says so, enters one only for
\* a start that waits, and never once ~Worker runs.
LEMMA ServiceKeepsOutlive ==
  ASSUME HostInv, IInv, OutliveInv,
         ServiceThread \/ StartedWorkingThrows \/ TimerHandler \/ AcceptHandler \/ AcceptFails \/ HandlerThrows
  PROVE  OutliveInv'
<1>1. CallbackInv /\ CallInv /\ AnsweredFor
  BY DEF OutliveInv
<1>2. UNCHANGED <<hpc, cpc, x_work, destroyed>> /\ (m_run' = m_run \/ m_run' = TRUE)
  BY DEF ServiceThread, ThreadOutside, EnterStarted, Arm, Listen, CreateNodeTable,
     RestoreNetwork, FirstRun, EnterLoop, EnterIo, LeaveIo, LeaveLoop, DoneWorking, LeaveDone,
     Step, StartedWorkingThrows, TimerHandler, AcceptHandler, AcceptFails, HandlerThrows, ThreadTop, ThreadSetStarted,
     ThreadStartedWorking, ThreadLoopExit, ThreadDoneWorking, ThreadSetStopped, ThreadRestore, ThreadAwake,
     ThreadThrows, ThreadGoes, doneWorking, run, vars, hostVars
<1>3. CallbackInv'
  <2> USE DEF CallbackInv, StartedPC, DonePC
  <2>1. CASE ThreadOutside
    BY <1>1, <2>1 DEF ThreadOutside, ThreadTop, ThreadSetStopped, ThreadRestore, ThreadAwake, ThreadGoes
  <2>2. CASE EnterStarted \/ EnterLoop \/ LeaveLoop \/ LeaveDone
    BY <1>1, <2>2 DEF EnterStarted, EnterLoop, LeaveLoop, LeaveDone, ThreadSetStarted, ThreadStartedWorking,
       ThreadLoopExit, ThreadDoneWorking, ThreadGoes
  <2>3. CASE Arm \/ Listen \/ CreateNodeTable \/ RestoreNetwork \/ FirstRun
    BY <1>1, <2>3 DEF Arm, Listen, CreateNodeTable, RestoreNetwork, FirstRun, Step, vars
  <2>4. CASE EnterIo \/ LeaveIo \/ DoneWorking
    BY <1>1, <2>4 DEF EnterIo, LeaveIo, DoneWorking, doneWorking, Step, vars
  <2>5. CASE StartedWorkingThrows
    BY <1>1, <2>5 DEF StartedWorkingThrows, ThreadThrows, ThreadGoes
  <2>6. CASE TimerHandler \/ AcceptHandler \/ AcceptFails \/ HandlerThrows
    BY <1>1, <2>6 DEF TimerHandler, AcceptHandler, AcceptFails, HandlerThrows, Step, ThreadThrows, ThreadGoes, vars
  <2> QED BY <2>1, <2>2, <2>3, <2>4, <2>5, <2>6 DEF ServiceThread
<1>4. m_state' = "Stopping" => m_state = "Stopping"
  BY DEF ServiceThread, ThreadOutside, EnterStarted, Arm, Listen, CreateNodeTable,
     RestoreNetwork, FirstRun, EnterLoop, EnterIo, LeaveIo, LeaveLoop, DoneWorking, LeaveDone,
     Step, StartedWorkingThrows, TimerHandler, AcceptHandler, AcceptFails, HandlerThrows, ThreadTop, ThreadSetStarted,
     ThreadStartedWorking, ThreadLoopExit, ThreadDoneWorking, ThreadSetStopped, ThreadRestore, ThreadAwake,
     ThreadThrows, CompareExchange, vars
<1>5. CallInv'
  BY <1>1, <1>2, <1>4 DEF CallInv, At, Held
<1>6. hw = "out" /\ hw' # "out" => At({"starting"})
  <2> SUFFICES ASSUME hw = "out", hw' # "out" PROVE At({"starting"})
    OBVIOUS
  <2>1. EnterStarted
    BY <1>1 DEF CallbackInv, StartedPC, DonePC, ServiceThread, ThreadOutside, Arm, Listen, CreateNodeTable,
       RestoreNetwork, FirstRun, EnterLoop, EnterIo, LeaveIo, LeaveLoop, DoneWorking, LeaveDone,
       Step, StartedWorkingThrows, TimerHandler, AcceptHandler, AcceptFails, HandlerThrows, doneWorking
  <2>2. wpc = "cas" /\ m_work /\ m_state = "Starting"
    BY <2>1 DEF EnterStarted, ThreadSetStarted, ThreadGoes, IInv, ThreadInv
  <2> QED BY <1>1, <2>2 DEF IInv, ThreadInv, Held, CallInv, At
<1>7. AnsweredFor'
  <2>1. At({"terminate"}) => hw' = "out"
    <3> SUFFICES ASSUME At({"terminate"}), hw' # "out" PROVE FALSE
      OBVIOUS
    <3>1. At({"starting"})
      BY <1>1, <1>6 DEF AnsweredFor
    <3> QED BY <1>1, <3>1 DEF At, CallInv, Idle
  <2>2. hw' # "out" /\ ~m_run' => At(Responsible)
    <3> SUFFICES ASSUME hw' # "out", ~m_run' PROVE At(Responsible)
      OBVIOUS
    <3>1. CASE hw = "out"
      BY <3>1, <1>6 DEF At, Responsible
    <3>2. CASE hw # "out" /\ ~m_run
      BY <3>2, <1>1 DEF AnsweredFor
    <3>3. CASE m_run
      BY <3>3, <1>2
    <3> QED BY <3>1, <3>2, <3>3
  <2> QED BY <1>2, <2>1, <2>2 DEF AnsweredFor, At
<1> QED BY <1>3, <1>5, <1>7 DEF OutliveInv

\* While callbacks run the Worker is Started, or told to stop by a client that waits.
LEMMA StateFacts ==
  ASSUME HostInv, IInv, OutliveInv
  PROVE  /\ hw = "out" <=> wpc \notin UserCode
         /\ hw # "out" => m_state \in {"Started", "Stopping"}
         /\ m_state = "Stopping" => At({"stopping"})
<1>1. CallbackInv /\ CallInv /\ AnsweredFor
  BY DEF OutliveInv
<1>2. hw = "out" <=> wpc \notin UserCode
  BY <1>1 DEF CallbackInv, HostInv, HostTypeOK, UserCode, StartedPC, DonePC
<1>3. hw # "out" => m_state \in {"Started", "Stopping"}
  <2> SUFFICES ASSUME hw # "out" PROVE m_state # "Killing"
    BY <1>2 DEF IInv, ThreadInv
  <2>1. m_work
    BY <1>2 DEF IInv, ThreadInv, UserCode
  <2>2. ~destroyed
    BY <1>1 DEF CallInv, AnsweredFor
  <2> QED BY <2>1, <2>2 DEF IInv, ThreadInv
<1>4. m_state = "Stopping" => At({"stopping"})
  BY <1>1 DEF CallInv, Held, At
<1> QED BY <1>2, <1>3, <1>4

\* A client that gives up its wait leaves the callbacks over or someone else
\* waiting, and ~Worker runs when they are over.
LEMMA ClientKeepsOutlive ==
  ASSUME HostInv, IInv, IInv', OutliveInv, NEW c \in Clients,
         start(c) \/ stop(c) \/ Destroy(c) \/ ClientStep(c)
  PROVE  OutliveInv'
<1> DEFINE PC == [call : {"none", "start", "stop", "destroy"},
                  at : {"idle", "startWorking", "starting", "poll", "verdict",
                        "terminate"} \cup DonePC \cup StopPC]
<1>1. CallbackInv /\ CallInv /\ AnsweredFor
  BY DEF OutliveInv
<1>2. hpc \in [Clients -> PC] /\ cpc \in [Clients -> {"idle", "starting", "stopping", "joining"}]
  BY DEF HostInv, HostTypeOK, IInv, TypeOK
<1>3. \A d \in Clients : d # c => hpc'[d] = hpc[d] /\ cpc'[d] = cpc[d]
  BY ClientMoves
<1>4. hw' = hw /\ (m_run' = m_run \/ hpc'[c].at = "awaitTimer")
  <2>1. CASE ResetRunFlag(c)
    BY <1>2, <2>1 DEF ResetRunFlag, Goes, HostInv, HostTypeOK
  <2>2. CASE ~ResetRunFlag(c)
    BY <2>2 DEF start, stop, Destroy, Begin, ClientStep, ClientGoesOn, CallStartWorking, StartWorkingReturns, StopsPolling, Verdict,
       StartFails, StartFailed, StartThrows, TimerGone, CheckWorking, CallStopWorking,
       StopWorkingReturns, CallTerminate, Terminated, doneWorking, hostVars
  <2> QED BY <2>1, <2>2
<1>5. /\ hw = "out" <=> wpc \notin UserCode
      /\ hw # "out" => m_state \in {"Started", "Stopping"}
      /\ m_state = "Stopping" => At({"stopping"})
  BY StateFacts
\* A call returns or ends without an answer only when the callbacks are over.
<1>8. ASSUME hw # "out", ~m_run, hpc[c].at \in Responsible, hpc'[c].at \notin Responsible
      PROVE  \E d \in Clients \ {c} : hpc[d].at \in Responsible
  <2>1. StopsPolling(c) \/ CheckWorking(c) \/ StopWorkingReturns(c)
    BY <1>2, <1>8 DEF start, stop, Destroy, Begin, Idle, ClientStep, ClientGoesOn, CallStartWorking, StartWorkingReturns,
       Verdict, StartFails, StartFailed, StartThrows, ResetRunFlag, TimerGone, CallStopWorking,
       CallTerminate, Terminated, doneWorking, Goes, StopPC, DonePC, Responsible
  <2>2. m_state # "Started"
    BY <1>2, <1>8, <2>1 DEF StopsPolling, haveNetwork, CheckWorking, Goes, Responsible, StopWorkingReturns, StopReturns
  <2>3. m_state = "Stopping" /\ hpc[c].at # "stopping"
    BY <1>2, <1>5, <1>8, <2>1, <2>2 DEF StopsPolling, CheckWorking, Goes, StopWorkingReturns, StopReturns
  <2> QED BY <1>5, <2>3 DEF At, Responsible
<1>9. CallbackInv'
  <2>1. wpc' = wpc \/ {wpc, wpc'} \cap UserCode = {}
    BY DEF start, stop, Destroy, Begin, ClientStep, ClientGoesOn, CallStartWorking, StartWorkingReturns, StopsPolling, Verdict,
       StartFails, StartFailed, StartThrows, ResetRunFlag, TimerGone, CheckWorking, CallStopWorking,
       StopWorkingReturns, CallTerminate, Terminated, vars, StartWorking, StartReturns, StopWorking,
       StopReturns, Terminate, TerminateReturns, IInv, ThreadInv, UserCode
  <2> QED BY <1>1, <1>4, <2>1 DEF CallbackInv, UserCode
<1>10. /\ cpc'[c] = "starting" <=> hpc'[c].at = "starting"
       /\ cpc'[c] = "stopping" <=> hpc'[c].at = "stopping"
       /\ cpc'[c] = "joining" => hpc'[c].at = "terminate"
  <2>0. /\ cpc[c] = "starting" <=> hpc[c].at = "starting"
        /\ cpc[c] = "stopping" <=> hpc[c].at = "stopping"
        /\ cpc[c] = "joining" => hpc[c].at = "terminate"
    BY <1>1 DEF CallInv
  <2>1. CASE start(c) \/ stop(c) \/ Destroy(c)
    BY <1>2, <2>0, <2>1 DEF start, stop, Destroy, Begin, Idle, vars
  <2>2. CASE CallStartWorking(c) \/ StartWorkingReturns(c)
    BY <1>2, <2>0, <2>2 DEF CallStartWorking, StartWorkingReturns, Goes, StartWorking, StartReturns, Block, Return
  <2>3. CASE StopsPolling(c) \/ Verdict(c) \/ StartFails(c) \/ StartFailed(c) \/ StartThrows(c)
    BY <1>2, <2>0, <2>3 DEF StopsPolling, Verdict, StartFails, StartFailed, StartThrows, Goes, End, Idle, DonePC, doneWorking, vars
  <2>4. CASE ResetRunFlag(c) \/ TimerGone(c) \/ CheckWorking(c)
    BY <1>2, <2>0, <2>4 DEF ResetRunFlag, TimerGone, CheckWorking, Goes, AfterStop, End, Idle, vars
  <2>5. CASE CallStopWorking(c) \/ StopWorkingReturns(c)
    BY <1>2, <2>0, <2>5 DEF CallStopWorking, StopWorkingReturns, Goes, AfterStop, End, Idle, StopWorking, StopReturns, Block, Return
  <2>6. CASE CallTerminate(c) \/ Terminated(c)
    BY <1>2, <2>0, <2>6 DEF CallTerminate, Terminated, Terminate, TerminateReturns, Block, Return
  <2> QED BY <2>1, <2>2, <2>3, <2>4, <2>5, <2>6 DEF ClientStep, ClientGoesOn
<1>11. /\ hpc'[c].call \in {hpc[c].call, "none"} \/ (hpc[c] = Idle /\ \A d \in Clients : hpc[d].call # "destroy")
       /\ hpc'[c].call = "destroy" => hpc[c].call = "destroy" \/ \A d \in Clients : hpc[d] = Idle
       /\ hpc'[c].at = "terminate" => hpc'[c].call = "destroy" /\ hpc[c].call = "destroy"
       /\ hpc[c].at = "terminate" => hpc' = hpc
  <2>1. hpc[c].at = "terminate" => hpc[c].call = "destroy"
    BY <1>1 DEF CallInv
  <2>2. CASE start(c) \/ stop(c) \/ Destroy(c)
    BY <1>2, <2>1, <2>2 DEF start, stop, Destroy, Begin, Idle
  <2>3. CASE CallTerminate(c) \/ Terminated(c)
    BY <2>1, <2>3 DEF CallTerminate, Terminated
  <2>4. CASE ClientStep(c) /\ ~CallTerminate(c) /\ ~Terminated(c)
    <3>1. /\ hpc[c].at # "terminate"
          /\ \/ End(c)
             \/ \E to : hpc' = [hpc EXCEPT ![c].at = to] /\ (to = "terminate" => hpc[c].call = "destroy")
      <4>1. CASE CallStartWorking(c) \/ StartWorkingReturns(c) \/ StopsPolling(c) \/ TimerGone(c) \/ CallStopWorking(c)
        BY <4>1 DEF CallStartWorking, StartWorkingReturns, StopsPolling, TimerGone, CallStopWorking, Goes
      <4>2. CASE Verdict(c) \/ StartFailed(c) \/ StartThrows(c)
        BY <4>2 DEF Verdict, StartFailed, StartThrows, Goes
      <4>3. CASE StartFails(c)
        BY <4>3 DEF StartFails, doneWorking, Goes
      <4>4. CASE ResetRunFlag(c) \/ CheckWorking(c) \/ StopWorkingReturns(c)
        BY <4>4 DEF ResetRunFlag, CheckWorking, StopWorkingReturns, AfterStop, Goes
      <4> QED BY <2>4, <4>1, <4>2, <4>3, <4>4 DEF ClientStep, ClientGoesOn
    <3> QED BY <1>2, <3>1 DEF End, Idle
  <2> QED BY <2>2, <2>3, <2>4
<1>12. m_state' = "Stopping" => Held("stopping")'
  <2> SUFFICES ASSUME m_state' = "Stopping" PROVE \E d \in Clients : cpc'[d] = "stopping"
    BY DEF Held
  <2>1. CASE CallStopWorking(c)
    BY <1>2, <2>1 DEF CallStopWorking, StopWorking, Block
  <2>2. CASE ~CallStopWorking(c)
    <3>1. m_state = "Stopping"
      BY <2>2 DEF start, stop, Destroy, Begin, ClientStep, ClientGoesOn, CallStartWorking, StartWorkingReturns, StopsPolling, Verdict,
       StartFails, StartFailed, StartThrows, ResetRunFlag, TimerGone, CheckWorking,
       StopWorkingReturns, CallTerminate, Terminated, vars, StartWorking, StartReturns,
       StopReturns, Terminate, TerminateReturns, CompareExchange
    <3>2. PICK d \in Clients : cpc[d] = "stopping"
      BY <1>1, <3>1 DEF CallInv, Held
    <3>3. CASE d # c
      BY <1>3, <3>2, <3>3
    <3>4. CASE d = c
      BY <1>10, <3>1, <3>2, <3>4, <2>2, <1>2 DEF start, stop, Destroy, Begin, Idle, ClientStep, ClientGoesOn, CallStartWorking, StartWorkingReturns,
       StopsPolling, Verdict,
       StartFails, StartFailed, StartThrows, ResetRunFlag, TimerGone, CheckWorking, CallInv,
       StopWorkingReturns, CallTerminate, Terminated, vars, StartWorking, StartReturns,
       StopReturns, Terminate, TerminateReturns
    <3> QED BY <3>3, <3>4
  <2> QED BY <2>1, <2>2
<1>13. destroyed' => At({"terminate"})'
  <2> SUFFICES ASSUME destroyed' PROVE \E d \in Clients : hpc'[d].at = "terminate"
    BY DEF At
  <2>1. CASE CallTerminate(c)
    BY <2>1 DEF CallTerminate
  <2>2. CASE ~CallTerminate(c)
    <3>1. destroyed
      BY <2>2 DEF start, stop, Destroy, Begin, ClientStep, ClientGoesOn, CallStartWorking, StartWorkingReturns, StopsPolling, Verdict,
       StartFails, StartFailed, StartThrows, ResetRunFlag, TimerGone, CheckWorking, CallStopWorking,
       StopWorkingReturns, Terminated, vars, StartWorking, StartReturns, StopWorking,
       StopReturns, TerminateReturns
    <3> QED BY <1>1, <1>3, <1>11, <3>1 DEF CallInv, At
  <2> QED BY <2>1, <2>2
<1>14. CallInv'
  <2>1. ASSUME NEW e \in Clients, hpc'[e].call = "destroy", NEW d \in Clients \ {e}
        PROVE  hpc'[d] = Idle
    <3>1. CASE e = c
      BY <1>1, <1>3, <1>11, <2>1, <3>1 DEF CallInv
    <3>2. CASE e # c
      <4>1. hpc[e].call = "destroy" /\ \A u \in Clients \ {e} : hpc[u] = Idle
        BY <1>1, <1>3, <2>1, <3>2 DEF CallInv
      <4>2. hpc[c] = Idle /\ cpc[c] = "idle"
        BY <1>1, <1>2, <4>1, <3>2 DEF CallInv, Idle
      <4>3. FALSE
        BY <4>1, <4>2, <1>2 DEF start, stop, Destroy, Begin, Idle, ClientStep, ClientGoesOn, CallStartWorking, StartWorkingReturns, StopsPolling, Verdict,
          StartFails, StartFailed, StartThrows, ResetRunFlag, TimerGone, CheckWorking, CallStopWorking,
          StopWorkingReturns, CallTerminate, Terminated, Goes, doneWorking
      <4> QED BY <4>3
    <3> QED BY <3>1, <3>2
  <2>2. ASSUME NEW d \in Clients
        PROVE  /\ cpc'[d] = "starting" <=> hpc'[d].at = "starting"
               /\ cpc'[d] = "stopping" <=> hpc'[d].at = "stopping"
               /\ cpc'[d] = "joining" => hpc'[d].at = "terminate"
               /\ hpc'[d].at = "terminate" => hpc'[d].call = "destroy"
    BY <1>1, <1>3, <1>10, <1>11 DEF CallInv
  <2> QED BY <2>1, <2>2, <1>12, <1>13 DEF CallInv
<1>15. AnsweredFor'
  <2>1. hw # "out" /\ ~m_run' => At(Responsible)'
    <3> SUFFICES ASSUME hw # "out", ~m_run' PROVE \E d \in Clients : hpc'[d].at \in Responsible
      BY DEF At
    <3>1. CASE hpc'[c].at \in Responsible
      BY <3>1
    <3>2. CASE hpc'[c].at \notin Responsible
      <4>1. ~m_run
        BY <3>2, <1>4 DEF Responsible
      <4>2. PICK d \in Clients : hpc[d].at \in Responsible
        BY <4>1, <1>1 DEF AnsweredFor, At
      <4> QED BY <1>3, <1>8, <3>2, <4>1, <4>2
    <3> QED BY <3>1, <3>2
  <2>2. At({"terminate"})' => hw = "out"
    <3> SUFFICES ASSUME NEW d \in Clients, hpc'[d].at = "terminate", hw # "out" PROVE FALSE
      BY DEF At
    <3>1. d = c /\ hpc[c].at # "terminate" /\ hpc[c].call = "destroy"
      BY <1>1, <1>2, <1>3, <1>11 DEF AnsweredFor, At, Idle
    <3>2. \A u \in Clients \ {c} : hpc[u] = Idle
      BY <1>1, <3>1 DEF CallInv
    <3>3. ResetRunFlag(c) \/ CheckWorking(c) \/ StopWorkingReturns(c)
      BY <1>2, <3>1 DEF start, stop, Destroy, Begin, Idle, ClientStep, ClientGoesOn, CallStartWorking, StartWorkingReturns, StopsPolling, Verdict,
          StartFails, StartFailed, StartThrows, TimerGone, CallStopWorking, CallTerminate, Terminated, Goes, doneWorking, End
    <3>4. CASE ResetRunFlag(c)
      <4>1. ~m_run /\ hpc[c].at = "flag"
        BY <1>2, <3>1, <3>4 DEF ResetRunFlag, Goes
      <4> QED BY <4>1, <3>2, <1>1 DEF AnsweredFor, At, Idle, Responsible
    <3>5. CASE CheckWorking(c) \/ StopWorkingReturns(c)
      <4>1. m_state = "Stopping" /\ hpc[c].at # "stopping"
        BY <1>2, <1>5, <3>1, <3>5 DEF CheckWorking, StopWorkingReturns, StopReturns, Goes
      <4> QED BY <4>1, <3>2, <1>5 DEF At, Idle
    <3> QED BY <3>3, <3>4, <3>5
  <2> QED BY <1>4, <2>1, <2>2 DEF AnsweredFor
<1> QED BY <1>9, <1>14, <1>15 DEF OutliveInv

\* run() releases m_timer for the last time before the thread is stopped, and
\* doneWorking closes what Listen opened.
LEMMA ServiceKeepsClean ==
  ASSUME ~StartMayThrow, HostInv, IInv, OutliveInv, CleanInv,
         ServiceThread \/ StartedWorkingThrows \/ TimerHandler \/ AcceptHandler \/ AcceptFails \/ HandlerThrows
  PROVE  CleanInv'
<1>1. StopInv /\ AcceptorInv
  BY DEF CleanInv
<1>2. /\ hw = "out" <=> wpc \notin UserCode
      /\ hw # "out" => m_state \in {"Started", "Stopping"}
      /\ m_state = "Stopping" => At({"stopping"})
  BY StateFacts
<1>3. hw \in Armed \cup {"arm"} => m_state = "Started"
  BY <1>1, <1>2 DEF StopInv, At, StopSection, Armed
<1>4. ~StartedWorkingThrows
  BY <1>3 DEF StartedWorkingThrows, Armed
<1>5. UNCHANGED <<hpc, cpc, x_work>>
  BY DEF ServiceThread, ThreadOutside, EnterStarted, Arm, Listen, CreateNodeTable,
     RestoreNetwork, FirstRun, EnterLoop, EnterIo, LeaveIo, LeaveLoop, DoneWorking, LeaveDone,
     Step, StartedWorkingThrows, TimerHandler, AcceptHandler, AcceptFails, HandlerThrows, ThreadTop, ThreadSetStarted,
     ThreadStartedWorking, ThreadLoopExit, ThreadDoneWorking, ThreadSetStopped, ThreadRestore, ThreadAwake,
     ThreadThrows, ThreadGoes, vars
<1>6. \A places : At(places)' <=> At(places)
  BY <1>5 DEF At
\* No client is stopping when startedWorking is entered.
<1>7. EnterStarted => ~At(StopSection)
  <2> SUFFICES ASSUME EnterStarted, At(StopSection) PROVE FALSE
    OBVIOUS
  <2>1. wpc = "cas" /\ m_state = "Starting" /\ m_work /\ hw = "out"
    BY <1>2 DEF EnterStarted, ThreadSetStarted, ThreadGoes, IInv, ThreadInv, UserCode
  <2>2. PICK c \in Clients : cpc[c] = "starting"
    BY <2>1 DEF IInv, ThreadInv, Held
  <2>3. PICK d \in Clients : hpc[d].at = "stopping"
    BY <2>1, <1>1 DEF StopInv, At, StopSection, Armed
  <2>4. cpc[d] = "stopping"
    BY <2>3 DEF OutliveInv, CallInv
  <2> QED BY <2>2, <2>4 DEF IInv, LockInv
<1>15. EnterStarted => hw = "out"
  BY <1>2 DEF EnterStarted, ThreadSetStarted, ThreadGoes, UserCode
<1>8. At(StopSection)' => ~m_run'
  <2>1. Arm => ~At(StopSection)
    BY <1>1 DEF Arm, Step, StopInv, At, StopSection, Armed
  <2>2. ~Arm => m_run' = m_run
    BY <1>4 DEF ServiceThread, ThreadOutside, EnterStarted, Listen, CreateNodeTable,
     RestoreNetwork, FirstRun, EnterLoop, EnterIo, LeaveIo, LeaveLoop, DoneWorking, LeaveDone, doneWorking,
     TimerHandler, AcceptHandler, AcceptFails, HandlerThrows, hostVars
  <2> QED BY <1>1, <1>6, <2>1, <2>2 DEF StopInv
<1>9. At(StopSection \ {"stopping"})' => hw' \in Armed \cup {"ready", "between", "inRun"} /\ m_state' = "Started"
  <2> SUFFICES ASSUME At(StopSection \ {"stopping"})
               PROVE  hw' \in Armed \cup {"ready", "between", "inRun"} /\ m_state' = "Started"
    BY <1>6
  <2>1. hw \in Armed \cup {"ready", "between", "inRun"} /\ m_state = "Started"
    BY <1>1 DEF StopInv
  <2>2. wpc \in UserCode
    BY <1>2, <2>1 DEF Armed
  <2> QED BY <2>1, <2>2, <1>4 DEF Armed, UserCode, DonePC, ServiceThread, ThreadOutside, EnterStarted, Arm, Listen, CreateNodeTable,
     RestoreNetwork, FirstRun, EnterLoop, EnterIo, LeaveIo, LeaveLoop, DoneWorking, LeaveDone,
     Step, TimerHandler, AcceptHandler, AcceptFails, HandlerThrows, ThreadTop, ThreadSetStarted,
     ThreadStartedWorking, ThreadLoopExit, ThreadDoneWorking, ThreadSetStopped, ThreadRestore, ThreadAwake,
     ThreadGoes, doneWorking, vars
<1>10. At(StopSection \ {"awaitTimer"})' => m_timer' = "null" /\ hw' \notin Armed \cup {"arm"}
  <2> SUFFICES ASSUME At(StopSection \ {"awaitTimer"})
               PROVE  m_timer' = "null" /\ hw' \notin Armed \cup {"arm"}
    BY <1>6
  <2>1. m_timer = "null" /\ hw \notin Armed \cup {"arm"}
    BY <1>1 DEF StopInv
  <2>2. ~EnterStarted
    BY <1>7 DEF At
  <2> QED BY <2>1, <2>2, <1>4 DEF Armed, DonePC, ServiceThread, ThreadOutside, Arm, Listen, CreateNodeTable,
     RestoreNetwork, FirstRun, EnterLoop, EnterIo, LeaveIo, LeaveLoop, DoneWorking, LeaveDone,
     Step, TimerHandler, AcceptHandler, AcceptFails, HandlerThrows, doneWorking, hostVars
<1>11. hw' \in {"out", "arm"} \cup DonePC => ~m_run' /\ m_timer' = "null"
  <2> SUFFICES ASSUME hw' \in {"out", "arm"} \cup DonePC PROVE ~m_run' /\ m_timer' = "null"
    OBVIOUS
  <2>1. CASE hw \in {"out", "arm"} \cup DonePC
    BY <1>1, <1>4, <2>1 DEF StopInv, DonePC, ServiceThread, ThreadOutside, EnterStarted, Arm, Listen, CreateNodeTable,
     RestoreNetwork, FirstRun, EnterLoop, EnterIo, LeaveIo, LeaveLoop, DoneWorking, LeaveDone,
     Step, TimerHandler, AcceptHandler, AcceptFails, HandlerThrows, doneWorking, hostVars
  <2>2. CASE hw \notin {"out", "arm"} \cup DonePC
    <3>1. LeaveLoop
      BY <1>4, <1>15, <2>2 DEF DonePC, ServiceThread, ThreadOutside, EnterStarted, Arm, Listen, CreateNodeTable,
     RestoreNetwork, FirstRun, EnterLoop, EnterIo, LeaveIo, LeaveLoop, DoneWorking, LeaveDone,
     Step, TimerHandler, AcceptHandler, AcceptFails, HandlerThrows, doneWorking
    <3>2. m_state = "Stopping" /\ hw = "between"
      BY <3>1, <1>2 DEF LeaveLoop, ThreadLoopExit
    <3> QED BY <3>1, <3>2, <1>1, <1>2 DEF LeaveLoop, hostVars, StopInv, At, StopSection
  <2> QED BY <2>1, <2>2
<1>12. hw' \in Armed => m_timer' = "set"
  BY <1>1, <1>4 DEF StopInv, Armed, DonePC, ServiceThread, ThreadOutside, EnterStarted, Arm, Listen, CreateNodeTable,
     RestoreNetwork, FirstRun, EnterLoop, EnterIo, LeaveIo, LeaveLoop, DoneWorking, LeaveDone,
     Step, TimerHandler, AcceptHandler, AcceptFails, HandlerThrows, doneWorking, hostVars
<1>13. StopInv'
  BY <1>1, <1>5, <1>8, <1>9, <1>10, <1>11, <1>12 DEF StopInv
<1>14. AcceptorInv'
  <2> USE DEF AcceptorInv
  <2>1. CASE ThreadOutside \/ EnterStarted \/ Arm \/ Listen \/ CreateNodeTable \/ RestoreNetwork
             \/ FirstRun \/ EnterLoop \/ EnterIo \/ LeaveIo
    BY <1>1, <1>15, <2>1 DEF ThreadOutside, EnterStarted, Arm, Listen, CreateNodeTable,
       RestoreNetwork, FirstRun, EnterLoop, EnterIo, LeaveIo, Step, hostVars
  <2>2. CASE LeaveLoop \/ LeaveDone
    BY <1>1, <2>2 DEF LeaveLoop, LeaveDone, hostVars
  <2>3. CASE DoneWorking
    BY <1>1, <2>3 DEF DoneWorking, doneWorking, Step, HostInv, HostTypeOK
  <2>4. CASE TimerHandler \/ AcceptHandler \/ AcceptFails
    BY <1>1, <2>4 DEF TimerHandler, AcceptHandler, AcceptFails
  <2>5. CASE HandlerThrows
    BY <1>1, <2>5 DEF HandlerThrows, Step, hostVars, HostInv, HostTypeOK
  <2> QED BY <1>4, <2>1, <2>2, <2>3, <2>4, <2>5 DEF ServiceThread
<1> QED BY <1>13, <1>14 DEF CleanInv

\* One stop at a time goes through its section, and no start gets in between.
LEMMA ClientKeepsClean ==
  ASSUME HostInv, IInv, OutliveInv, CleanInv, NEW c \in Clients,
         start(c) \/ stop(c) \/ Destroy(c) \/ ClientStep(c)
  PROVE  CleanInv'
<1> DEFINE PC == [call : {"none", "start", "stop", "destroy"},
                  at : {"idle", "startWorking", "starting", "poll", "verdict",
                        "terminate"} \cup DonePC \cup StopPC]
<1>1. StopInv /\ AcceptorInv
  BY DEF CleanInv
<1>2. hpc \in [Clients -> PC] /\ hw \in {"out", "between", "inRun"} \cup StartedPC \cup DonePC
  BY DEF HostInv, HostTypeOK
<1>3. \A d \in Clients : d # c => hpc'[d] = hpc[d]
  BY ClientMoves
<1>4. UNCHANGED <<hw, m_timer>> /\ (m_run' => m_run)
  BY DEF start, stop, Destroy, Begin, ClientStep, ClientGoesOn, CallStartWorking, StartWorkingReturns, StopsPolling, Verdict,
     StartFails, StartFailed, StartThrows, ResetRunFlag, TimerGone, CheckWorking, CallStopWorking,
     StopWorkingReturns, CallTerminate, Terminated, doneWorking, hostVars
<1>5. /\ hw = "out" <=> wpc \notin UserCode
      /\ hw # "out" => m_state \in {"Started", "Stopping"}
      /\ m_state = "Stopping" => At({"stopping"})
  BY StateFacts
\* How a client gets into the section, and goes through it.
<1>6. /\ hpc'[c].at = "awaitTimer" => hpc[c].at = "awaitTimer" \/ (ResetRunFlag(c) /\ m_run)
      /\ hpc'[c].at = "checkWorking" => hpc[c].at = "checkWorking" \/ TimerGone(c)
      /\ hpc'[c].at = "stopWorking" => hpc[c].at \in {"stopWorking", "checkWorking"}
      /\ hpc'[c].at = "stopping" => hpc[c].at \in {"stopping", "stopWorking"}
      /\ m_run /\ ~m_run' => ResetRunFlag(c)
  <2>1. CASE start(c) \/ stop(c) \/ Destroy(c)
    BY <1>2, <2>1 DEF start, stop, Destroy, Begin, Idle, hostVars
  <2>2. CASE CallStartWorking(c) \/ StartWorkingReturns(c) \/ StopsPolling(c) \/ Verdict(c)
    BY <1>2, <2>2 DEF CallStartWorking, StartWorkingReturns, StopsPolling, Verdict, Goes, End, Idle, hostVars
  <2>3. CASE StartFails(c) \/ StartFailed(c) \/ StartThrows(c)
    BY <1>2, <2>3 DEF StartFails, StartFailed, StartThrows, Goes, End, Idle, DonePC, doneWorking, hostVars
  <2>4. CASE ResetRunFlag(c) \/ TimerGone(c) \/ CheckWorking(c)
    BY <1>2, <2>4 DEF ResetRunFlag, TimerGone, CheckWorking, Goes, AfterStop, End, Idle, hostVars
  <2>5. CASE CallStopWorking(c) \/ StopWorkingReturns(c) \/ CallTerminate(c) \/ Terminated(c)
    BY <1>2, <2>5 DEF CallStopWorking, StopWorkingReturns, CallTerminate, Terminated, Goes, AfterStop, End, Idle, hostVars
  <2> QED BY <2>1, <2>2, <2>3, <2>4, <2>5 DEF ClientStep, ClientGoesOn
<1>7. ASSUME ResetRunFlag(c), m_run
      PROVE  /\ ~m_run' /\ ~At(StopSection)
             /\ hw \in Armed \cup {"ready", "between", "inRun"} /\ m_state = "Started" /\ UNCHANGED m_state
  <2>1. ~m_run' /\ ~At(StopSection) /\ UNCHANGED m_state
    BY <1>1, <1>7 DEF ResetRunFlag, StopInv, vars
  <2>2. hw \in Armed \cup {"ready", "between", "inRun"}
    BY <1>1, <1>2, <1>7 DEF StopInv, StartedPC, Armed
  <2>3. m_state = "Started"
    BY <1>5, <2>1, <2>2 DEF At, StopSection, Armed
  <2> QED BY <2>1, <2>2, <2>3
\* Who is in the section was in it, or has just entered it alone.
<1>8. \/ \A d \in Clients : hpc'[d].at \in StopSection => hpc[d].at \in StopSection
      \/ ResetRunFlag(c) /\ m_run /\ \A d \in Clients : hpc'[d].at \in StopSection => d = c
  <2>1. CASE ResetRunFlag(c) /\ m_run
    BY <1>3, <1>7, <2>1 DEF At
  <2>2. CASE ~(ResetRunFlag(c) /\ m_run)
    <3>1. TimerGone(c) => hpc[c].at = "awaitTimer"
      BY DEF TimerGone, Goes
    <3> QED BY <1>3, <1>6, <2>2, <3>1 DEF StopSection
  <2> QED BY <2>1, <2>2
<1>9. \A d, e \in Clients : hpc'[d].at \in StopSection /\ hpc'[e].at \in StopSection => d = e
  BY <1>1, <1>8 DEF StopInv
<1>10. At(StopSection)' => ~m_run'
  BY <1>1, <1>4, <1>7, <1>8 DEF StopInv, At
<1>11. At(StopSection \ {"stopping"})' => hw \in Armed \cup {"ready", "between", "inRun"} /\ m_state' = "Started"
  <2> SUFFICES ASSUME NEW d \in Clients, hpc'[d].at \in StopSection \ {"stopping"}
               PROVE  hw \in Armed \cup {"ready", "between", "inRun"} /\ m_state' = "Started"
    BY DEF At
  <2>1. CASE ResetRunFlag(c) /\ m_run
    BY <1>7, <2>1
  <2>2. CASE ~(ResetRunFlag(c) /\ m_run)
    <3>1. hpc[d].at \in StopSection \ {"stopping"}
      <4>1. TimerGone(c) => hpc[c].at = "awaitTimer"
        BY DEF TimerGone, Goes
      <4> QED BY <1>3, <1>6, <2>2, <4>1 DEF StopSection
    <3>2. hw \in Armed \cup {"ready", "between", "inRun"} /\ m_state = "Started"
      BY <1>1, <3>1 DEF StopInv, At
    <3>3. ~CallStopWorking(c)
      <4> SUFFICES ASSUME CallStopWorking(c) PROVE FALSE
        OBVIOUS
      <4>1. hpc[c].at = "stopWorking" /\ hpc'[c].at = "stopping"
        BY <1>2 DEF CallStopWorking, Goes
      <4> QED BY <1>1, <3>1, <4>1 DEF StopInv, StopSection
    <3>4. ~CallTerminate(c)
      BY <3>2 DEF CallTerminate, OutliveInv, AnsweredFor, At, Armed
    <3>5. m_work
      BY <1>5, <3>2 DEF IInv, ThreadInv, UserCode, Armed
    <3>6. m_state' = m_state
      BY <3>2, <3>3, <3>4, <3>5 DEF start, stop, Destroy, Begin, ClientStep, ClientGoesOn, CallStartWorking, StartWorkingReturns,
         StopsPolling, Verdict, StartFails, StartFailed, StartThrows, ResetRunFlag, TimerGone, CheckWorking,
         StopWorkingReturns, Terminated, vars, StartWorking, StartReturns, StopReturns, TerminateReturns,
         CompareExchange
    <3> QED BY <3>2, <3>6
  <2> QED BY <2>1, <2>2
<1>12. At(StopSection \ {"awaitTimer"})' => m_timer = "null" /\ hw \notin Armed \cup {"arm"}
  <2> SUFFICES ASSUME NEW d \in Clients, hpc'[d].at \in StopSection \ {"awaitTimer"}
               PROVE  m_timer = "null" /\ hw \notin Armed \cup {"arm"}
    BY DEF At
  <2>1. CASE hpc[d].at \in StopSection \ {"awaitTimer"}
    BY <1>1, <2>1 DEF StopInv, At
  <2>2. CASE hpc[d].at \notin StopSection \ {"awaitTimer"}
    <3>1. d = c /\ TimerGone(c)
      BY <1>3, <1>6, <2>2 DEF StopSection
    <3>2. m_timer = "null" /\ hpc[c].at = "awaitTimer"
      BY <3>1 DEF TimerGone, Goes
    <3> QED BY <1>1, <3>2 DEF StopInv, At, StopSection, Armed
  <2> QED BY <2>1, <2>2
<1>13. StopInv'
  BY <1>1, <1>4, <1>9, <1>10, <1>11, <1>12 DEF StopInv
<1>14. AcceptorInv'
  <2>1. /\ acceptor' => acceptor
        /\ accept' = accept \/ (accept # "none" /\ accept' = "aborted")
        /\ accept # "none" /\ cutShort => cutShort'
    BY DEF start, stop, Destroy, Begin, ClientStep, ClientGoesOn, CallStartWorking, StartWorkingReturns, StopsPolling, Verdict,
     StartFails, StartFailed, StartThrows, ResetRunFlag, TimerGone, CheckWorking, CallStopWorking,
     StopWorkingReturns, CallTerminate, Terminated, doneWorking, hostVars
  <2> QED BY <1>1, <1>4, <2>1 DEF AcceptorInv, HostInv, HostTypeOK
<1> QED BY <1>13, <1>14 DEF CleanInv

\* A new Host.
LEMMA HostInitially == HostInit => OutliveInv /\ CleanInv
<1> SUFFICES ASSUME HostInit PROVE OutliveInv /\ CleanInv
  OBVIOUS
<1>1. OutliveInv
  BY DEF HostInit, Init, OutliveInv, CallbackInv, CallInv, AnsweredFor, At, Idle, StartedPC, DonePC
<1>2. CleanInv
  BY DEF HostInit, Init, CleanInv, StopInv, AcceptorInv, At, Idle, StopSection, Armed, DonePC
<1> QED BY <1>1, <1>2

\* ~Host runs alone and returns when no callback runs; none runs afterwards,
\* whether or not startedWorking throws.
THEOREM HostOutlives == HostSpec => []HostOutlivesCallbacks
<1>1. HostInv /\ IInv /\ IInv' /\ OutliveInv /\ [HostNext]_lifecycleVars => OutliveInv'
  <2> SUFFICES ASSUME HostInv, IInv, IInv', OutliveInv, [HostNext]_lifecycleVars PROVE OutliveInv'
    OBVIOUS
  <2>1. CASE UNCHANGED lifecycleVars
    BY <2>1 DEF lifecycleVars, vars, hostVars, OutliveInv, CallbackInv, CallInv, AnsweredFor, At, Held
  <2> QED BY <2>1, ServiceKeepsOutlive, ClientKeepsOutlive DEF HostNext
<1>2. OutliveInv => HostOutlivesCallbacks
  BY DEF OutliveInv, CallInv, AnsweredFor, HostOutlivesCallbacks
<1> QED BY <1>1, <1>2, HostInitially, SchedulerStaysAlive, HostKeepsWorkerInvariant, PTL DEF HostSpec

\* If startedWorking does not throw, stop never waits in stopWorking for a
\* callback that waits for its x_work, and whoever stops or destroys the Host
\* finds it left clean: no callback, open acceptor, handler or timer.
THEOREM HostIsLeftClean ==
  ASSUME ~StartMayThrow
  PROVE  HostSpec => []HostLeftClean
<1>1. HostInv /\ IInv /\ IInv' /\ OutliveInv /\ CleanInv /\ [HostNext]_lifecycleVars => OutliveInv' /\ CleanInv'
  <2> SUFFICES ASSUME HostInv, IInv, IInv', OutliveInv, CleanInv, [HostNext]_lifecycleVars
               PROVE  OutliveInv' /\ CleanInv'
    OBVIOUS
  <2>1. CASE UNCHANGED lifecycleVars
    <3>1. OutliveInv'
      BY <2>1 DEF lifecycleVars, vars, hostVars, OutliveInv, CallbackInv, CallInv, AnsweredFor, At, Held
    <3>2. CleanInv'
      BY <2>1 DEF lifecycleVars, vars, hostVars, CleanInv, StopInv, AcceptorInv, At
    <3> QED BY <3>1, <3>2
  <2>2. OutliveInv'
    BY <2>1, ServiceKeepsOutlive, ClientKeepsOutlive DEF HostNext
  <2>3. CleanInv'
    BY <2>1, ServiceKeepsClean, ClientKeepsClean DEF HostNext
  <2> QED BY <2>2, <2>3
<1>2. IInv /\ HostInv /\ OutliveInv /\ CleanInv => HostLeftClean
  <2> SUFFICES ASSUME IInv, HostInv, OutliveInv, CleanInv PROVE HostLeftClean
    OBVIOUS
  <2>1. NoSelfDeadlock
    BY DEF NoSelfDeadlock, OutliveInv, CallInv, AnsweredFor, CleanInv, StopInv, At, StartedPC, StopSection, Armed
  <2>2. HostOutlivesCallbacks
    BY DEF OutliveInv, CallInv, AnsweredFor, HostOutlivesCallbacks
  <2>3. QuietHostIsClean /\ NoTimerWithoutThread
    BY DEF CleanInv, StopInv, AcceptorInv, QuietHostIsClean, NoTimerWithoutThread
  <2> QED BY <2>1, <2>2, <2>3 DEF HostLeftClean
<1> QED BY <1>1, <1>2, HostInitially, SchedulerStaysAlive, HostKeepsWorkerInvariant, PTL DEF HostSpec
=============================================================================
