------------------------------- MODULE MCChain -------------------------------
(***************************************************************************)
(* The Client's chain and its questions, and how a node's connections are   *)
(* framed and advertised, for TLC: the parts share no variable, and one of  *)
(* them runs.                                                               *)
(***************************************************************************)
EXTENDS Client, Uncles, Watches, Queries, FrameCoder, RLPXFraming, PublicEndpoint, TLC

CONSTANTS ann, bea, f1

\* Client: two transactions for one place in the chain
RivalTransactions == {[nonce |-> 0, price |-> 10], [nonce |-> 0, price |-> 12]}

\* Queries
SomeFilters == [m_addresses : {{}, {"a"}, {"a", "b"}}, m_topics : {{}, {"t"}, {"t", "u"}} \X {{}, {"u"}}]
SomeEntries == {[address |-> "a", topics |-> <<"t">>], [address |-> "a", topics |-> <<"u">>],
                [address |-> "b", topics |-> << >>], [address |-> "b", topics |-> <<"t", "u">>]}
AtMostOne == {es \in SUBSET SomeEntries : Cardinality(es) <= 1}

\* PublicEndpoint
lan1 == <<192, 168, 0, 2>>
lan2 == <<10, 0, 0, 2>>
wan == <<80, 1, 1, 1>>
otherWan == <<81, 2, 2, 2>>
ipv6 == <<32, 1, 0, 0, 0, 0, 0, 0, 0, 0, 0, 0, 0, 0, 0, 1>>

AllPreferences ==
    [listenIPAddress : {unspecified, lan1, wan}, publicIPAddress : {unspecified, wan, lan2, otherWan},
     listenPort : {0, 30303}, traverseNAT : BOOLEAN]
listenAnywhere == [listenIPAddress |-> unspecified, publicIPAddress |-> unspecified,
                   listenPort |-> 0, traverseNAT |-> FALSE]
SomeInterfaces == {{<<127, 0, 0, 1>>, lan1}, {lan1, lan2}, {wan, ipv6}, {lan2}}
SomeExternals == {wan, lan2, unspecified}
neighbours == {[outside |-> 1, address |-> <<10, 0, 0, 9>>, port |-> 30303]}

-----------------------------------------------------------------------------
VARIABLE part     \* the part that runs

Parts == {"client", "uncles", "watches", "queries", "coder", "framing", "endpoint"}

mcVars == <<part, clientVars, tree, watchVars, queryVars, coderVars, framingVars, endpointVars>>

\* The others stay in an initial state, which is fixed where there are several
MCInit ==
    /\ part \in Parts
    /\ ClientInit
    /\ part # "client" => ~m_wouldSeal
    /\ UnclesInit
    /\ WatchInit
    /\ QueryInit
    /\ FrameCoderInit
    /\ FramingInit
    /\ PublicEndpointInit
    /\ part # "endpoint" => (netPrefs = listenAnywhere /\ interfaces = {lan2} /\ busy = {} /\ router = NoRouter)

Only(p) == part = p /\ UNCHANGED part

MCNext ==
    \/ /\ Only("client") /\ ClientNext
       /\ UNCHANGED <<tree, watchVars, queryVars, coderVars, framingVars, endpointVars>>
    \/ /\ Only("uncles") /\ UnclesNext
       /\ UNCHANGED <<clientVars, watchVars, queryVars, coderVars, framingVars,
                       endpointVars>>
    \/ /\ Only("watches") /\ WatchNext
       /\ UNCHANGED <<clientVars, tree, queryVars, coderVars, framingVars, endpointVars>>
    \/ /\ Only("queries") /\ QueryNext
       /\ UNCHANGED <<clientVars, tree, watchVars, coderVars, framingVars, endpointVars>>
    \/ /\ Only("coder") /\ FrameCoderNext
       /\ UNCHANGED <<clientVars, tree, watchVars, queryVars, framingVars, endpointVars>>
    \/ /\ Only("framing") /\ FramingNext
       /\ UNCHANGED <<clientVars, tree, watchVars, queryVars, coderVars, endpointVars>>
    \/ /\ Only("endpoint") /\ PublicEndpointNext
       /\ UNCHANGED <<clientVars, tree, watchVars, queryVars, coderVars, framingVars>>

MCSpec ==
    /\ MCInit /\ [][MCNext]_mcVars
=============================================================================
