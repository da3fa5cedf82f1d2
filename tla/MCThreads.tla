------------------------------ MODULE MCThreads ------------------------------
(***************************************************************************)
(* The Worker, the farm of miners, the sealing of PBFT and the gossip of an *)
(* EthereumHost for TLC, one of which runs: they share no variable.         *)
(***************************************************************************)
EXTENDS Worker, Farm, PBFT, EthereumHost, TLC

CONSTANTS c1, c2, c3, p1

\* PBFT
TwoTransactions == {[nonce |-> 0, price |-> 10], [nonce |-> 1, price |-> 10]}

-----------------------------------------------------------------------------
VARIABLE part     \* the part that runs

Parts == {"worker", "farm", "pbft", "gossip"}

mcVars == <<part, vars, farmVars, pbftVars, gossipVars>>

\* The others stay in an initial state
MCInit ==
    /\ part \in Parts
    /\ Init
    /\ FarmInit
    /\ PBFTInit
    /\ GossipInit

Only(p) == part = p /\ UNCHANGED part

MCNext ==
    \/ /\ Only("worker") /\ Next
       /\ UNCHANGED <<farmVars, pbftVars, gossipVars>>
    \/ /\ Only("farm") /\ FarmNext
       /\ UNCHANGED <<vars, pbftVars, gossipVars>>
    \/ /\ Only("pbft") /\ PBFTNext
       /\ UNCHANGED <<vars, farmVars, gossipVars>>
    \/ /\ Only("gossip") /\ GossipNext
       /\ UNCHANGED <<vars, farmVars, pbftVars>>

MCSpec ==
    /\ MCInit /\ [][MCNext]_mcVars
    /\ WF_vars(part = "worker" /\ ThreadStep)
    /\ \A c \in Clients : WF_vars(part = "worker" /\ CallReturns(c))
    /\ WF_farmVars(part = "farm" /\ FarmSteps)
    /\ WF_gossipVars(part = "gossip" /\ DoWork)
    /\ WF_gossipVars(part = "gossip" /\ ClientNotes)
=============================================================================
