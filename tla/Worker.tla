------------------------------- MODULE Worker -------------------------------
(***************************************************************************)
(* dev::Worker (libdevcore/Worker.h, Worker.cpp): one service thread that  *)
(* is started, stopped and killed by other threads through the atomic      *)
(* m_state and the mutex x_work.                                           *)
(*                                                                         *)
(* Every access to m_state is one step.  Taking x_work is merged with the  *)
(* first access made under it: x_work is free of any other effect.  The    *)
(* virtual callbacks startedWorking, doWork and doneWorking belong to the  *)
(* derived class; here they only return or throw.                          *)
(***************************************************************************)
CONSTANTS
    Clients,    \* threads that call startWorking, stopWorking or the destructor
    Free        \* value of x_work when no thread holds it

ASSUME ClientsAssumption == Free \notin Clients

VARIABLES
    m_state,    \* the atomic WorkerState
    m_work,     \* is there a thread object
    x_work,     \* holder of the mutex x_work
    cpc,        \* the call a client is blocked in, "idle" outside any
    wpc,        \* where the service thread is
    ex,         \* the service thread's local: the state replaced by Stopped
    destroyed   \* the destructor has been entered

vars == <<m_state, m_work, x_work, cpc, wpc, ex, destroyed>>

WorkerState == {"Starting", "Started", "Stopping", "Stopped", "Killing"}

\* The thread is inside a callback of the derived class.
UserCode == {"started", "loop", "done"}

ThreadPC == UserCode \cup {"absent", "top", "cas", "finished", "restore", "wait", "exited"}

TypeOK ==
    /\ m_state \in WorkerState
    /\ m_work \in BOOLEAN
    /\ x_work \in Clients \cup {Free}
    /\ cpc \in [Clients -> {"idle", "starting", "stopping", "joining"}]
    /\ wpc \in ThreadPC
    /\ ex \in WorkerState
    /\ destroyed \in BOOLEAN

Init ==
    /\ m_state = "Starting"
    /\ m_work = FALSE
    /\ x_work = Free
    /\ cpc = [c \in Clients |-> "idle"]
    /\ wpc = "absent"
    /\ ex = "Stopped"
    /\ destroyed = FALSE

-----------------------------------------------------------------------------
(* m_state.compare_exchange_strong(from, to) *)
CompareExchange(from, to) == m_state' = IF m_state = from THEN to ELSE m_state

Block(c, call) ==
    /\ x_work = Free
    /\ x_work' = c
    /\ cpc' = [cpc EXCEPT ![c] = call]

Return(c) ==
    /\ x_work' = Free
    /\ cpc' = [cpc EXCEPT ![c] = "idle"]

-----------------------------------------------------------------------------
(* Calls.  No member function is called once the destructor is entered.    *)

\* Faulty variant: restarts a running thread without waiting for Stopped.
StartWorkingUnconditional(c) ==
    /\ ~destroyed /\ cpc[c] = "idle"
    /\ Block(c, "starting")
    /\ m_state' = "Starting"
    /\ m_work' = TRUE
    /\ wpc' = IF m_work THEN wpc ELSE "top"
    /\ UNCHANGED <<ex, destroyed>>

StartWorking(c) ==
    /\ ~destroyed /\ cpc[c] = "idle"
    /\ Block(c, "starting")
    /\ \/ /\ m_work
          /\ CompareExchange("Stopped", "Starting")
          /\ UNCHANGED <<m_work, wpc>>
       \/ /\ ~m_work
          /\ m_state' = "Starting"
          /\ m_work' = TRUE
          /\ wpc' = "top"
    /\ UNCHANGED <<ex, destroyed>>

StartReturns(c) ==
    /\ cpc[c] = "starting" /\ m_state # "Starting"
    /\ Return(c)
    /\ UNCHANGED <<m_state, m_work, wpc, ex, destroyed>>

\* Without a thread stopWorking takes and releases x_work and does nothing.
StopWorking(c) ==
    /\ ~destroyed /\ cpc[c] = "idle" /\ m_work
    /\ Block(c, "stopping")
    /\ CompareExchange("Started", "Stopping")
    /\ UNCHANGED <<m_work, wpc, ex, destroyed>>

StopReturns(c) ==
    /\ cpc[c] = "stopping" /\ m_state = "Stopped"
    /\ Return(c)
    /\ UNCHANGED <<m_state, m_work, wpc, ex, destroyed>>

\* ~Worker runs when no other call is in progress.
Terminate(c) ==
    /\ ~destroyed /\ \A d \in Clients : cpc[d] = "idle"
    /\ destroyed' = TRUE
    /\ \/ /\ m_work
          /\ Block(c, "joining")
          /\ m_state' = "Killing"
       \/ /\ ~m_work
          /\ UNCHANGED <<x_work, cpc, m_state>>
    /\ UNCHANGED <<m_work, wpc, ex>>

TerminateReturns(c) ==
    /\ cpc[c] = "joining" /\ wpc = "exited"
    /\ m_work' = FALSE
    /\ wpc' = "absent"
    /\ Return(c)
    /\ UNCHANGED <<m_state, ex, destroyed>>

-----------------------------------------------------------------------------
(* The service thread.                                                     *)

ThreadGoes(from, to) ==
    /\ wpc = from
    /\ wpc' = to
    /\ UNCHANGED <<m_work, x_work, cpc, destroyed>>

\* while (m_state != Killing)
ThreadTop ==
    \/ /\ m_state # "Killing"
       /\ ThreadGoes("top", "cas")
       /\ UNCHANGED <<m_state, ex>>
    \/ /\ m_state = "Killing"
       /\ ThreadGoes("top", "exited")
       /\ UNCHANGED <<m_state, ex>>

\* The result of the exchange is ignored: (void)ok.
ThreadSetStarted ==
    /\ ThreadGoes("cas", "started")
    /\ CompareExchange("Starting", "Started")
    /\ UNCHANGED ex

ThreadStartedWorking ==
    /\ ThreadGoes("started", "loop")
    /\ UNCHANGED <<m_state, ex>>

\* workLoop leaves when m_state is no longer Started; until then doWork
\* runs again and again, which changes nothing here.
ThreadLoopExit ==
    /\ m_state # "Started"
    /\ ThreadGoes("loop", "done")
    /\ UNCHANGED <<m_state, ex>>

ThreadDoneWorking ==
    /\ ThreadGoes("done", "finished")
    /\ UNCHANGED <<m_state, ex>>

\* An exception from any of the three callbacks skips the ones after it.
ThreadThrows ==
    /\ \E pc \in UserCode : ThreadGoes(pc, "finished")
    /\ UNCHANGED <<m_state, ex>>

ThreadSetStopped ==
    /\ ThreadGoes("finished", "restore")
    /\ ex' = m_state
    /\ m_state' = "Stopped"

\* Faulty variant: a Killing that arrived during workLoop is lost.
ThreadRestoreLosesKilling ==
    /\ ThreadGoes("restore", "wait")
    /\ m_state' = IF ex = "Starting" THEN ex ELSE m_state
    /\ UNCHANGED ex

ThreadRestore ==
    /\ ThreadGoes("restore", "wait")
    /\ m_state' = IF ex \in {"Killing", "Starting"} THEN ex ELSE m_state
    /\ UNCHANGED ex

ThreadAwake ==
    /\ m_state # "Stopped"
    /\ ThreadGoes("wait", "top")
    /\ UNCHANGED <<m_state, ex>>

ThreadStep ==
    \/ ThreadTop
    \/ ThreadSetStarted
    \/ ThreadStartedWorking
    \/ ThreadLoopExit
    \/ ThreadDoneWorking
    \/ ThreadSetStopped
    \/ ThreadRestore
    \/ ThreadAwake

CallReturns(c) == StartReturns(c) \/ StopReturns(c) \/ TerminateReturns(c)

Next ==
    \/ \E c \in Clients : StartWorking(c) \/ StopWorking(c) \/ Terminate(c) \/ CallReturns(c)
    \/ ThreadStep
    \/ ThreadThrows

\* The operating system runs both threads; a callback that has been told to
\* stop returns.  Throwing is never forced.
Fairness ==
    /\ WF_vars(ThreadStep)
    /\ \A c \in Clients : WF_vars(CallReturns(c))

Spec == Init /\ [][Next]_vars

FairSpec == Spec /\ Fairness

-----------------------------------------------------------------------------
(* Properties.                                                             *)

\* stopWorking promises that the callbacks are quiet when it returns, and
\* startWorking that they are not entered before Started is published: no
\* callback of the derived class runs in the states Stopped and Starting.
UserCodeOnlyWhileLive ==
    wpc \in UserCode \cup {"finished"} => m_state \in {"Started", "Stopping", "Killing"}

\* Worker.cpp discards the result of the Starting -> Started exchange.  It
\* may: whenever the thread attempts it, m_state is Starting, even when the
\* thread is being destroyed or has just been restarted.
ExchangeNeverFails == wpc = "cas" => m_state = "Starting"

\* Once ~Worker has set Killing, startedWorking is never called again: the
\* derived object it belongs to no longer exists.
NoRestartAfterTerminate ==
    [][destroyed => ~(wpc \notin UserCode /\ wpc' \in UserCode)]_vars

\* startWorking, stopWorking and the destructor spin or join while holding
\* x_work; each of them returns.
CallsReturn == \A c \in Clients : cpc[c] # "idle" ~> cpc[c] = "idle"

-----------------------------------------------------------------------------
(* The inductive invariant behind the safety properties.                   *)

\* x_work is held by exactly the client whose call is in progress.
LockInv == \A c \in Clients : cpc[c] # "idle" <=> x_work = c

Held(call) == \E c \in Clients : cpc[c] = call

\* What the service thread's position says about m_state and about the call
\* that is waiting for it.  A thread that is not running callbacks is only
\* ever woken by a caller that still holds x_work, which is what keeps two
\* callers from overwriting each other's request.
ThreadInv ==
    /\ m_work <=> wpc # "absent"
    /\ wpc = "top" => m_state \in {"Starting", "Killing"}
    /\ wpc = "cas" => m_state = "Starting"
    /\ wpc \in UserCode \cup {"finished"} => m_state \in {"Started", "Stopping", "Killing"}
    /\ wpc \in {"restore", "wait"} => m_state \in {"Stopped", "Starting", "Killing"}
    /\ wpc = "exited" => m_state = "Killing"
    /\ wpc = "restore" => ex \in {"Started", "Stopping", "Killing"}
    /\ wpc = "restore" /\ ex = "Killing" => m_state = "Stopped" /\ destroyed
    /\ m_work /\ m_state = "Starting" => Held("starting")
    /\ m_work /\ m_state = "Killing" => destroyed
    /\ destroyed /\ m_work =>
         /\ Held("joining")
         /\ m_state = "Killing" \/ (wpc = "restore" /\ ex = "Killing")

IInv == TypeOK /\ LockInv /\ ThreadInv

\* Worker as its derived classes rely on it: the state discipline, in which
\* callbacks run while the Worker is live, and no restart after terminate.
WorkerSound == [](IInv /\ UserCodeOnlyWhileLive /\ ExchangeNeverFails) /\ NoRestartAfterTerminate
=============================================================================
