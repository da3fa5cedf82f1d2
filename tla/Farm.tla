-------------------------------- MODULE Farm --------------------------------
(***************************************************************************)
(* GenericFarm and the GenericMiners it hosts: the client's thread gives   *)
(* work, starts and stops under x_minerWork, the miners' threads submit    *)
(* proofs.  The subclass of GenericMiner is not part of the repository:    *)
(* its thread mines the package it was kicked off with until told to       *)
(* pause, and pause returns once the thread has left its loop.             *)
(***************************************************************************)
EXTENDS Integers, Sequences, SequencesExt

CONSTANTS
    Instances,       \* how many miners the sealer has
    Packages,        \* the work packages the client hands out
    MaxSolutions, MaxFarmCalls   \* bounds: solutions found, calls of the client

noWork == "no work"
farmClient == 0
Miners == 1..Instances
Threads == {farmClient} \union Miners

VARIABLES
    x_minerWork,   \* the thread that holds the lock, -1 if none
    farmWork,        \* the farm's package
    m_miners,      \* the miners there are
    minerWork,     \* each miner's m_work
    mining,        \* each miner's thread
    pauseAsked,    \* each miner has been told to leave its loop
    visits,        \* setWork on several miners, by thread: the package, the miners left, the one pausing
    solutions, farmCalls   \* history, for the bounds

farmVars == <<x_minerWork, farmWork, m_miners, minerWork, mining, pauseAsked, visits, solutions, farmCalls>>

noVisits == [call |-> "none", work |-> noWork, left |-> <<>>, pausing |-> FALSE]

FarmInit ==
    /\ x_minerWork = -1 /\ farmWork = noWork /\ m_miners = {} /\ solutions = 0 /\ farmCalls = 0
    /\ minerWork = [m \in Miners |-> noWork]
    /\ mining = [m \in Miners |-> "idle"]
    /\ pauseAsked = [m \in Miners |-> FALSE]
    /\ visits = [t \in Threads |-> noVisits]

-----------------------------------------------------------------------------
\* The client's calls take the lock and then go through the miners.

Call(call, work, miners) ==
    /\ visits[farmClient] = noVisits /\ x_minerWork = -1 /\ farmCalls < MaxFarmCalls
    /\ farmCalls' = farmCalls + 1
    /\ x_minerWork' = farmClient
    /\ visits' = [visits EXCEPT ![farmClient] =
           [call |-> call, work |-> work, left |-> SetToSortSeq(miners, <), pausing |-> FALSE]]
    /\ UNCHANGED <<minerWork, mining, pauseAsked, solutions>>

SetWork(work) ==
    /\ work # farmWork
    /\ Call("setWork", work, m_miners)
    /\ farmWork' = work
    /\ UNCHANGED m_miners

Start ==
    /\ m_miners = {}
    /\ Call("start", farmWork, Miners)
    /\ m_miners' = Miners
    /\ UNCHANGED farmWork

\* start for another sealer than the miners are of: they are destroyed first
StartOther ==
    /\ m_miners # {}
    /\ Call("replace", noWork, m_miners)
    /\ UNCHANGED <<farmWork, m_miners>>

\* the miners are destroyed, which waits for their threads
Stop ==
    /\ Call("stop", noWork, m_miners)
    /\ UNCHANGED <<farmWork, m_miners>>

\* GenericMiner::setWork, first half: a miner that has, or is given, work is paused
GiveWork(t) ==
    /\ visits[t].left # <<>> /\ ~visits[t].pausing
    /\ LET m == Head(visits[t].left)  work == visits[t].work IN
       /\ minerWork' = [minerWork EXCEPT ![m] = work]
       /\ IF work # noWork \/ minerWork[m] # noWork \/ visits[t].call \in {"stop", "replace"}
          THEN /\ pauseAsked' = [pauseAsked EXCEPT ![m] = TRUE]
               /\ visits' = [visits EXCEPT ![t].pausing = TRUE]
          ELSE /\ visits' = [visits EXCEPT ![t].left = Tail(@)]
               /\ UNCHANGED pauseAsked
    /\ UNCHANGED <<x_minerWork, farmWork, m_miners, mining, solutions, farmCalls>>

\* setWork, second half: the thread has left its loop, and is kicked off again
\* if there is work
Paused(t) ==
    /\ visits[t].pausing /\ mining[Head(visits[t].left)] = "idle"
    /\ LET m == Head(visits[t].left) IN
       /\ pauseAsked' = [pauseAsked EXCEPT ![m] = FALSE]
       /\ mining' = [mining EXCEPT ![m] = IF visits[t].work = noWork THEN "idle" ELSE "mining"]
    /\ visits' = [visits EXCEPT ![t].left = Tail(@), ![t].pausing = FALSE]
    /\ UNCHANGED <<x_minerWork, farmWork, m_miners, minerWork, solutions, farmCalls>>

\* the other sealer's miners get the work there is
Replace ==
    /\ visits[farmClient].call = "replace" /\ visits[farmClient].left = <<>>
    /\ visits' = [visits EXCEPT ![farmClient] =
           [call |-> "start", work |-> farmWork, left |-> SetToSortSeq(Miners, <), pausing |-> FALSE]]
    /\ UNCHANGED <<x_minerWork, farmWork, m_miners, minerWork, mining, pauseAsked, solutions, farmCalls>>

CallEnds ==
    /\ visits[farmClient].call \notin {"none", "replace"} /\ visits[farmClient].left = <<>>
    /\ x_minerWork' = -1
    /\ visits' = [visits EXCEPT ![farmClient] = noVisits]
    /\ IF visits[farmClient].call = "stop"
       THEN farmWork' = noWork /\ m_miners' = {}
       ELSE UNCHANGED <<farmWork, m_miners>>
    /\ UNCHANGED <<minerWork, mining, pauseAsked, solutions, farmCalls>>

-----------------------------------------------------------------------------
\* A miner's thread.

MinerStep(m, from, to) == mining[m] = from /\ mining' = [mining EXCEPT ![m] = to]

Find(m) ==
    /\ solutions < MaxSolutions /\ minerWork[m] # noWork
    /\ MinerStep(m, "mining", "found") /\ solutions' = solutions + 1
    /\ UNCHANGED <<x_minerWork, farmWork, m_miners, minerWork, pauseAsked, visits, farmCalls>>

LeavePool(m) ==
    /\ pauseAsked[m] /\ MinerStep(m, "mining", "idle")
    /\ UNCHANGED <<x_minerWork, farmWork, m_miners, minerWork, pauseAsked, visits, solutions, farmCalls>>

\* m_onSolutionFound: the seal engine takes the solution or does not
OnSolutionFound(m) ==
    /\ MinerStep(m, "found", "accepted") \/ MinerStep(m, "found", "mining")
    /\ UNCHANGED <<x_minerWork, farmWork, m_miners, minerWork, pauseAsked, visits, solutions, farmCalls>>

\* mutant: a finder waits for the lock
lockForProofWaiting(m) ==
    /\ mining[m] = "accepted" /\ x_minerWork = -1
    /\ x_minerWork' = m
    /\ mining' = [mining EXCEPT ![m] = "resting others"]
    /\ visits' = [visits EXCEPT ![m] = [call |-> "proof", work |-> noWork, pausing |-> FALSE,
                      left |-> SetToSortSeq(m_miners \ {m}, <)]]

\* submitProof: a finder that cannot have the lock goes on mining
lockForProof(m) ==
    /\ mining[m] = "accepted"
    /\ IF x_minerWork = -1
       THEN /\ x_minerWork' = m
            /\ mining' = [mining EXCEPT ![m] = "resting others"]
            /\ visits' = [visits EXCEPT ![m] = [call |-> "proof", work |-> noWork, pausing |-> FALSE,
                              left |-> SetToSortSeq(m_miners \ {m}, <)]]
       ELSE /\ mining' = [mining EXCEPT ![m] = "mining"]
            /\ UNCHANGED <<x_minerWork, visits>>

SubmitProof(m) ==
    /\ lockForProof(m)
    /\ UNCHANGED <<farmWork, m_miners, minerWork, pauseAsked, solutions, farmCalls>>

ProofAccepted(m) ==
    /\ visits[m].call = "proof" /\ visits[m].left = <<>>
    /\ MinerStep(m, "resting others", "resting")
    /\ farmWork' = noWork /\ x_minerWork' = -1
    /\ visits' = [visits EXCEPT ![m] = noVisits]
    /\ UNCHANGED <<m_miners, minerWork, pauseAsked, solutions, farmCalls>>

\* GenericMiner::submitProof: the lock is free again when the miner drops its own work
DropWork(m) ==
    /\ MinerStep(m, "resting", "idle")
    /\ minerWork' = [minerWork EXCEPT ![m] = noWork]
    /\ UNCHANGED <<x_minerWork, farmWork, m_miners, pauseAsked, visits, solutions, farmCalls>>

FarmSteps ==
    \/ \E t \in Threads : GiveWork(t) \/ Paused(t)
    \/ Replace \/ CallEnds
    \/ \E m \in Miners : LeavePool(m) \/ OnSolutionFound(m) \/ SubmitProof(m) \/ ProofAccepted(m) \/ DropWork(m)

FarmNext ==
    \/ \E work \in Packages : SetWork(work)
    \/ Start \/ StartOther \/ Stop
    \/ \E m \in Miners : Find(m)
    \/ FarmSteps

FarmSpec == FarmInit /\ [][FarmNext]_farmVars /\ WF_farmVars(FarmSteps)

-----------------------------------------------------------------------------
\* The client's calls end: setWork and stop wait for miners that may be handing
\* in a solution, a finder waits for the other miners, and nobody waits for a
\* lock.  Code: the try_lock of GenericFarm::submitProof, GenericFarm.h:141-154.
FarmCallsEnd == visits[farmClient].call # "none" ~> visits[farmClient].call = "none"
=============================================================================
