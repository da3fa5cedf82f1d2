---------------------------- MODULE HostLifecycle ----------------------------
(***************************************************************************)
(* Starting and stopping dev::p2p::Host (libp2p/Host.cpp), which is a      *)
(* Worker: start, stop, the destructor, the callbacks startedWorking,      *)
(* doWork and doneWorking, the scheduler run() and the acceptor.           *)
(*                                                                         *)
(* The module extends Worker: the service thread is Worker's, and each     *)
(* callback is opened up into the steps between which other threads can    *)
(* interfere.  Sessions and peers are left to other modules.               *)
(***************************************************************************)
EXTENDS Worker

CONSTANTS
    NetworkSaved,   \* the Host was constructed with a saved network to restore
    StartMayThrow   \* may startedWorking throw (bad address, bad network file)

ASSUME FlagsAssumption == NetworkSaved \in BOOLEAN /\ StartMayThrow \in BOOLEAN

VARIABLES
    m_run,
    m_timer,        \* "null", "set", or "armed": its handler is scheduled
    m_nodeTable,    \* is there a node table
    acceptor,       \* is m_tcp4Acceptor open
    accept,         \* the asynchronous accept; m_accepting is accept # "none"
    ioStopped,      \* m_ioService.stop() is in effect
    cutShort,       \* a handler threw out of the last doneWorking that polled
    hw,             \* where the service thread is inside the callbacks
    hpc             \* where a client is inside start, stop or the destructor

hostVars == <<m_run, m_timer, m_nodeTable, acceptor, accept, ioStopped, cutShort>>

lifecycleVars == <<vars, hostVars, hw, hpc>>

StartedPC == {"arm", "listen", "table", "restore", "run", "ready"}
DonePC == {"close", "drain", "halt", "quiet"}
StopPC == {"flag", "awaitTimer", "checkWorking", "stopWorking", "stopping"}

HostTypeOK ==
    /\ m_run \in BOOLEAN /\ m_nodeTable \in BOOLEAN
    /\ m_timer \in {"null", "set", "armed"}
    /\ acceptor \in BOOLEAN /\ accept \in {"none", "pending", "aborted"}
    /\ ioStopped \in BOOLEAN /\ cutShort \in BOOLEAN
    /\ hw \in {"out", "between", "inRun"} \cup StartedPC \cup DonePC
    /\ hpc \in [Clients -> [call : {"none", "start", "stop", "destroy"},
                            at : {"idle", "startWorking", "starting", "poll", "verdict",
                                  "terminate"} \cup DonePC \cup StopPC]]

Idle == [call |-> "none", at |-> "idle"]

HostInit ==
    /\ Init
    /\ m_run = FALSE
    /\ m_timer = "null"
    /\ m_nodeTable = FALSE
    /\ acceptor = FALSE
    /\ accept = "none"
    /\ ioStopped = FALSE
    /\ cutShort = FALSE
    /\ hw = "out"
    /\ hpc = [c \in Clients |-> Idle]

-----------------------------------------------------------------------------
(* run(): the scheduler, called by startedWorking and then by its timer.   *)

\* Faulty variant: m_timer is not reset when the network is told to stop.
runKeepsTimer ==
    \/ /\ m_run
       /\ m_timer' = "armed"
       /\ UNCHANGED <<m_nodeTable, ioStopped>>
    \/ /\ ~m_run
       /\ m_nodeTable' = FALSE
       /\ ioStopped' = TRUE
       /\ m_timer' = "set"

run ==
    \/ /\ m_run
       /\ m_timer' = "armed"
       /\ UNCHANGED <<m_nodeTable, ioStopped>>
    \/ /\ ~m_run
       /\ m_nodeTable' = FALSE
       /\ ioStopped' = TRUE
       /\ m_timer' = "null"

-----------------------------------------------------------------------------
(* doneWorking, run by the service thread, or by a client whose start      *)
(* failed.                                                                 *)

\* Faulty variant: the acceptor is not closed.
doneWorkingKeepsAcceptor(from, to) ==
    \/ /\ from = "close" /\ to = "drain"
       /\ ioStopped' = FALSE
       /\ UNCHANGED <<m_run, m_timer, m_nodeTable, acceptor, accept, cutShort>>
    \/ /\ from = "drain" /\ to = "halt"
       /\ ioStopped' = TRUE
       /\ cutShort' = FALSE
       /\ UNCHANGED <<m_run, m_timer, m_nodeTable, acceptor, accept>>
    \/ /\ from = "halt" /\ to = "quiet"
       /\ ioStopped' = FALSE
       /\ UNCHANGED <<m_run, m_timer, m_nodeTable, acceptor, accept, cutShort>>

doneWorking(from, to) ==
    \/ /\ from = "close" /\ to = "drain"
       /\ ioStopped' = FALSE
       /\ acceptor' = FALSE
       /\ accept' = IF accept = "none" THEN "none" ELSE "aborted"
       /\ UNCHANGED <<m_run, m_timer, m_nodeTable, cutShort>>
    \/ /\ from = "drain" /\ to = "halt"
       /\ accept = "none"
       /\ ioStopped' = TRUE
       /\ cutShort' = FALSE
       /\ UNCHANGED <<m_run, m_timer, m_nodeTable, acceptor, accept>>
    \/ /\ from = "halt" /\ to = "quiet"
       /\ ioStopped' = FALSE
       /\ UNCHANGED <<m_run, m_timer, m_nodeTable, acceptor, accept, cutShort>>

-----------------------------------------------------------------------------
(* The service thread.                                                     *)

Step(from, to) ==
    /\ hw = from
    /\ hw' = to
    /\ UNCHANGED <<vars, hpc>>

\* Outside the callbacks the thread takes the steps of Worker.
ThreadOutside ==
    /\ \/ ThreadTop
       \/ ThreadSetStopped
       \/ ThreadRestore
       \/ ThreadAwake
    /\ UNCHANGED <<hostVars, hw, hpc>>

EnterStarted ==
    /\ ThreadSetStarted
    /\ hw' = "arm"
    /\ UNCHANGED <<hostVars, hpc>>

\* Under x_runTimer.  asserts(!m_timer) only logs.
Arm ==
    /\ Step("arm", "listen")
    /\ m_timer' = "set"
    /\ m_run' = TRUE
    /\ UNCHANGED <<m_nodeTable, acceptor, accept, ioStopped, cutShort>>

\* tcp4Listen, determinePublic and runAcceptor, or no port available.
Listen ==
    /\ Step("listen", "table")
    /\ \/ /\ acceptor' = TRUE
          /\ accept' = IF m_run /\ accept = "none" THEN "pending" ELSE accept
       \/ UNCHANGED <<acceptor, accept>>
    /\ UNCHANGED <<m_run, m_timer, m_nodeTable, ioStopped, cutShort>>

CreateNodeTable ==
    /\ Step("table", "restore")
    /\ m_nodeTable' = TRUE
    /\ UNCHANGED <<m_run, m_timer, acceptor, accept, ioStopped, cutShort>>

\* restoreNetwork returns at once when nothing was saved.  Otherwise it asks
\* isStarted(), that is isWorking(), which takes x_work, and throws
\* NetworkStartRequired when the answer is no.
RestoreNetwork ==
    /\ Step("restore", "run")
    /\ NetworkSaved => x_work = Free /\ m_state = "Started"
    /\ UNCHANGED hostVars

FirstRun ==
    /\ Step("run", "ready")
    /\ run
    /\ UNCHANGED <<m_run, acceptor, accept, cutShort>>

\* An exception leaves m_run and m_timer as they are, and skips workLoop and
\* doneWorking.
StartedWorkingThrows ==
    /\ \/ StartMayThrow /\ hw = "table"
       \/ NetworkSaved /\ StartMayThrow /\ hw = "restore"
       \/ NetworkSaved /\ hw = "restore" /\ x_work = Free /\ m_state # "Started"
    /\ ThreadThrows
    /\ hw' = "out"
    /\ UNCHANGED <<hostVars, hpc>>

EnterLoop ==
    /\ hw = "ready"
    /\ ThreadStartedWorking
    /\ hw' = "between"
    /\ UNCHANGED <<hostVars, hpc>>

\* doWork calls m_ioService.run(), which returns when it is stopped.  The
\* shutdown flag of Worker is only looked at between two calls.
EnterIo ==
    /\ m_run /\ m_state = "Started"
    /\ Step("between", "inRun")
    /\ UNCHANGED hostVars

LeaveIo ==
    /\ ioStopped
    /\ Step("inRun", "between")
    /\ UNCHANGED hostVars

LeaveLoop ==
    /\ hw = "between"
    /\ ThreadLoopExit
    /\ hw' = "close"
    /\ UNCHANGED <<hostVars, hpc>>

DoneWorking ==
    /\ \E to \in DonePC : Step(hw, to) /\ doneWorking(hw, to)

LeaveDone ==
    /\ hw = "quiet"
    /\ ThreadDoneWorking
    /\ hw' = "out"
    /\ UNCHANGED <<hostVars, hpc>>

\* Some thread is executing handlers: run() in doWork, poll() in doneWorking.
executing == ~ioStopped /\ (hw \in {"inRun", "drain"} \/ \E c \in Clients : hpc[c].at = "drain")

TimerHandler ==
    /\ executing /\ m_timer = "armed"
    /\ run
    /\ UNCHANGED <<vars, m_run, acceptor, accept, cutShort, hw, hpc>>

\* The accept is aborted, fails or finds m_run reset: it is not renewed.
\* Otherwise a connection arrived and the next accept is issued.
AcceptHandler ==
    /\ executing /\ (accept = "aborted" \/ (accept = "pending" /\ ~m_run))
    /\ accept' = "none"
    /\ UNCHANGED <<vars, m_run, m_timer, m_nodeTable, acceptor, ioStopped, cutShort, hw, hpc>>

AcceptFails ==
    /\ executing /\ accept = "pending" /\ m_run
    /\ accept' = "none"
    /\ UNCHANGED <<vars, m_run, m_timer, m_nodeTable, acceptor, ioStopped, cutShort, hw, hpc>>

\* A handler of a handshake or session throws: those of RLPXHandshake look into
\* what they decrypted without a try.  (The accept handler catches, and run()
\* has nothing that throws.)  doWork catches what escapes run(), with m_timer
\* still armed; nobody in doneWorking catches what escapes poll(), so the rest
\* of it is skipped and the exception goes on to Worker.
HandlerThrows ==
    /\ executing
    /\ \/ /\ Step("inRun", "between")
          /\ UNCHANGED hostVars
       \/ /\ hw = "drain" /\ hw' = "out"
          /\ ThreadThrows
          /\ cutShort' = TRUE
          /\ UNCHANGED <<m_run, m_timer, m_nodeTable, acceptor, accept, ioStopped, hpc>>

ServiceThread ==
    \/ ThreadOutside \/ EnterStarted
    \/ Arm \/ Listen \/ CreateNodeTable \/ RestoreNetwork \/ FirstRun \/ EnterLoop
    \/ EnterIo \/ LeaveIo \/ LeaveLoop \/ DoneWorking \/ LeaveDone

-----------------------------------------------------------------------------
(* Clients.                                                                *)

haveNetwork == m_run /\ m_nodeTable

Goes(c, from, to) ==
    /\ hpc[c].at = from
    /\ hpc' = [hpc EXCEPT ![c].at = to]

Begin(c, call, at) ==
    /\ hpc[c] = Idle /\ ~destroyed
    /\ \A d \in Clients : hpc[d].call # "destroy"
    /\ hpc' = [hpc EXCEPT ![c] = [call |-> call, at |-> at]]
    /\ UNCHANGED <<vars, hostVars, hw>>

End(c) == hpc' = [hpc EXCEPT ![c] = Idle]

start(c) == Begin(c, "start", "startWorking")

stop(c) == Begin(c, "stop", "flag")

\* ~Host calls stop; nobody else is using the Host.
Destroy(c) == (\A d \in Clients : hpc[d] = Idle) /\ Begin(c, "destroy", "flag")

\* start: startWorking().
CallStartWorking(c) ==
    /\ Goes(c, "startWorking", "starting")
    /\ StartWorking(c)
    /\ UNCHANGED <<hostVars, hw>>

StartWorkingReturns(c) ==
    /\ Goes(c, "starting", "poll")
    /\ StartReturns(c)
    /\ UNCHANGED <<hostVars, hw>>

\* start: while (isWorking() && !haveNetwork()).
StopsPolling(c) ==
    /\ Goes(c, "poll", "verdict")
    /\ \/ x_work = Free /\ m_state # "Started"
       \/ haveNetwork
    /\ UNCHANGED <<vars, hostVars, hw>>

\* start: if (isWorking()) return; otherwise doneWorking() on this thread.
Verdict(c) ==
    /\ x_work = Free /\ hpc[c].at = "verdict"
    /\ \/ m_state = "Started" /\ End(c)
       \/ m_state # "Started" /\ Goes(c, "verdict", "close")
    /\ UNCHANGED <<vars, hostVars, hw>>

StartFails(c) ==
    /\ \E to \in DonePC : Goes(c, hpc[c].at, to) /\ doneWorking(hpc[c].at, to)
    /\ UNCHANGED <<vars, hw>>

StartFailed(c) ==
    /\ hpc[c].at = "quiet" /\ End(c)
    /\ UNCHANGED <<vars, hostVars, hw>>

\* A handler throws out of the doneWorking of a failed start, and so out of start.
StartThrows(c) ==
    /\ executing /\ hpc[c].at = "drain" /\ End(c)
    /\ cutShort' = TRUE
    /\ UNCHANGED <<vars, m_run, m_timer, m_nodeTable, acceptor, accept, ioStopped, hw>>

\* What follows the body of stop: it returns, or ~Worker runs after ~Host.
AfterStop(c) ==
    IF hpc[c].call = "destroy" THEN hpc' = [hpc EXCEPT ![c].at = "terminate"] ELSE End(c)

\* stop: under x_runTimer.
ResetRunFlag(c) ==
    /\ hpc[c].at = "flag"
    /\ \/ ~m_run /\ AfterStop(c)
       \/ m_run /\ Goes(c, "flag", "awaitTimer")
    /\ m_run' = FALSE
    /\ UNCHANGED <<vars, m_timer, m_nodeTable, acceptor, accept, ioStopped, cutShort, hw>>

TimerGone(c) ==
    /\ m_timer = "null"
    /\ Goes(c, "awaitTimer", "checkWorking")
    /\ UNCHANGED <<vars, hostVars, hw>>

\* stop: if (isWorking()) stopWorking().
CheckWorking(c) ==
    /\ x_work = Free /\ hpc[c].at = "checkWorking"
    /\ \/ m_state = "Started" /\ Goes(c, "checkWorking", "stopWorking")
       \/ m_state # "Started" /\ AfterStop(c)
    /\ UNCHANGED <<vars, hostVars, hw>>

CallStopWorking(c) ==
    /\ Goes(c, "stopWorking", "stopping")
    /\ StopWorking(c)
    /\ UNCHANGED <<hostVars, hw>>

StopWorkingReturns(c) ==
    /\ hpc[c].at = "stopping"
    /\ StopReturns(c)
    /\ AfterStop(c)
    /\ UNCHANGED <<hostVars, hw>>

\* ~Host, then ~Worker: terminate(), and join.
CallTerminate(c) ==
    /\ hpc[c].at = "terminate"
    /\ Terminate(c)
    /\ UNCHANGED <<hostVars, hw, hpc>>

Terminated(c) ==
    /\ hpc[c].at = "terminate"
    /\ TerminateReturns(c)
    /\ UNCHANGED <<hostVars, hw, hpc>>

ClientGoesOn(c) ==
    \/ CallStartWorking(c) \/ StartWorkingReturns(c) \/ StopsPolling(c) \/ Verdict(c)
    \/ StartFails(c) \/ StartFailed(c)
    \/ ResetRunFlag(c) \/ TimerGone(c) \/ CheckWorking(c)
    \/ CallStopWorking(c) \/ StopWorkingReturns(c)
    \/ CallTerminate(c) \/ Terminated(c)

ClientStep(c) == ClientGoesOn(c) \/ StartThrows(c)

HostNext ==
    \/ ServiceThread \/ StartedWorkingThrows
    \/ TimerHandler \/ AcceptHandler \/ AcceptFails \/ HandlerThrows
    \/ \E c \in Clients : start(c) \/ stop(c) \/ Destroy(c) \/ ClientStep(c)

\* Threads are scheduled, timers expire and aborted operations complete.
\* Nobody is obliged to call anything, and nothing is obliged to throw,
\* except restoreNetwork when it finds the Worker not started.
HostFairness ==
    /\ WF_lifecycleVars(ServiceThread)
    /\ WF_lifecycleVars(StartedWorkingThrows /\ m_state # "Started")
    /\ WF_lifecycleVars(TimerHandler)
    /\ WF_lifecycleVars(AcceptHandler)
    /\ \A c \in Clients : SF_lifecycleVars(ClientGoesOn(c))

HostSpec == HostInit /\ [][HostNext]_lifecycleVars

FairHostSpec == HostSpec /\ HostFairness

-----------------------------------------------------------------------------
(* Properties.                                                             *)

\* run() is the only step that releases m_timer, so stop has to be sure that
\* it will be called: while the network is up its timer is armed.
SchedulerAlive == hw \in {"ready", "between", "inRun"} /\ m_run => m_timer = "armed"

HostInv == HostTypeOK /\ SchedulerAlive

\* restoreNetwork takes x_work from inside a callback, while stopWorking
\* holds x_work until the callbacks are over: stop must not call stopWorking
\* before startedWorking has gone past restoreNetwork.
NoSelfDeadlock ==
    hw \in StartedPC \ {"run", "ready"} => \A c \in Clients : cpc[c] \notin {"stopping", "joining"}

\* ~Host returns before ~Worker joins the thread: by then no callback of
\* Host may be running, for its members are gone.
HostOutlivesCallbacks == destroyed => hw = "out"

\* A quiet Host holds no resource: after stop, or a failed start, nobody
\* else calling, the acceptor is closed and its timer is not armed.  Nor is an
\* accept left over, unless a handler's exception ended doneWorking before it
\* had seen it off (Host.cpp:182): all that may then be left is the aborted one.
QuietHostIsClean ==
    (\A c \in Clients : hpc[c].at \in {"idle", "terminate"}) /\ hw = "out"
        => /\ ~acceptor /\ m_timer # "armed"
           /\ accept = "none" \/ (cutShort /\ accept = "aborted")

\* stop waits for run() to release m_timer, and nobody calls run() when the
\* service thread is outside the callbacks.
NoTimerWithoutThread == hw = "out" => m_timer = "null"

\* Whoever stops or destroys the Host, and whenever, whatever handlers throw,
\* does not block itself and leaves it clean: no callback that waits for the
\* stop that waits for it, or that comes after the destructor, no open acceptor,
\* no timer, no handler but that of an accept which an exception kept from being
\* waited for; and the scheduler of a network that is up has its timer.
HostLeftClean ==
    HostInv /\ NoSelfDeadlock /\ HostOutlivesCallbacks /\ QuietHostIsClean /\ NoTimerWithoutThread

\* Calls to start return: the network is up, or the start failed.
StartReturnsEventually ==
    \A c \in Clients : hpc[c].call = "start" ~> hpc[c].call # "start"

\* The service thread has left the handlers by an exception: m_timer is armed
\* and doWork polls again only if m_run is set.
Interrupted == hw = "between" /\ ~ioStopped

\* Calls to stop whose reset of m_run stands while the service thread executes
\* handlers, or is about to call run() for the first time, return, unless a
\* handler throws before run() is called again.  (After a start that threw,
\* stop can reset m_run before the next startedWorking sets it again, and then
\* waits for a network that stays up.)
StopOfServedNetworkReturns ==
    \A c \in Clients :
        hpc[c].at = "awaitTimer" /\ ~m_run /\ hw \in {"run", "inRun"}
            ~> hpc[c].at # "awaitTimer" \/ Interrupted

\* start and stop return to their callers, but for the stop that
\* StopReturnsEventually is about and the one whose poll an exception ended.
HostCallsReturn == StartReturnsEventually /\ StopOfServedNetworkReturns

\* Host.h:215: "Stop network. @threadsafe", and Host.cpp:727: "in case
\* stop() is called at same time, stop will wait on m_timer and graceful
\* network shutdown".  All calls to stop return.
StopReturnsEventually ==
    \A c \in Clients : hpc[c].call = "stop" ~> hpc[c].call # "stop"

-----------------------------------------------------------------------------
(* The inductive invariants behind the safety properties.                  *)

At(places) == \E c \in Clients : hpc[c].at \in places

\* Where the Host is inside the callbacks is where the Worker's thread is.
CallbackInv ==
    /\ hw \in StartedPC <=> wpc = "started"
    /\ hw \in {"between", "inRun"} <=> wpc = "loop"
    /\ hw \in DonePC <=> wpc = "done"

\* Where the clients are; ~Host runs alone.
CallInv ==
    /\ \A c \in Clients :
         /\ cpc[c] = "starting" <=> hpc[c].at = "starting"
         /\ cpc[c] = "stopping" <=> hpc[c].at = "stopping"
         /\ cpc[c] = "joining" => hpc[c].at = "terminate"
         /\ hpc[c].at = "terminate" => hpc[c].call = "destroy"
         /\ hpc[c].call = "destroy" => \A d \in Clients \ {c} : hpc[d] = Idle
    /\ destroyed => At({"terminate"})
    /\ m_state = "Stopping" => Held("stopping")

\* A network that is not to run, but whose callbacks do, has a client that
\* will not return before it is over, or before m_run is set.
Responsible == {"starting", "poll", "awaitTimer", "checkWorking", "stopWorking", "stopping"}

AnsweredFor ==
    /\ hw # "out" /\ ~m_run => At(Responsible)
    /\ At({"terminate"}) => hw = "out"

OutliveInv == CallbackInv /\ CallInv /\ AnsweredFor

StopSection == {"awaitTimer", "checkWorking", "stopWorking", "stopping"}
Armed == {"listen", "table", "restore", "run"}

\* One stop at a time is past its reset of m_run, and it calls stopWorking
\* when the scheduler has run for the last time.  This needs that
\* startedWorking does not throw.
StopInv ==
    /\ \A c, d \in Clients : hpc[c].at \in StopSection /\ hpc[d].at \in StopSection => c = d
    /\ At(StopSection) => ~m_run
    /\ At(StopSection \ {"stopping"}) => hw \in Armed \cup {"ready", "between", "inRun"} /\ m_state = "Started"
    /\ At(StopSection \ {"awaitTimer"}) => m_timer = "null" /\ hw \notin Armed \cup {"arm"}
    /\ hw \in {"out", "arm"} \cup DonePC => ~m_run /\ m_timer = "null"
    /\ hw \in Armed => m_timer = "set"

\* The acceptor is opened by Listen only, and closed by the service thread's
\* doneWorking, whatever a failed start does meanwhile.  It is drained as well,
\* or a handler threw and the accept that was aborted waits for the next start.
AcceptorInv ==
    /\ hw \in {"out", "arm", "listen", "drain", "halt", "quiet"} => ~acceptor
    /\ hw \in {"halt", "quiet"} => accept = "none"
    /\ hw \in {"out", "arm", "listen"} => accept = "none" \/ (cutShort /\ accept = "aborted")
    /\ hw = "drain" => accept # "pending"

CleanInv == StopInv /\ AcceptorInv
=============================================================================
