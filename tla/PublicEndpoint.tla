--------------------------- MODULE PublicEndpoint ---------------------------
(***************************************************************************)
(* How a Host finds the port it listens on and the endpoint it advertises:  *)
(* Network::tcp4Listen, Host::determinePublic, Network::traverseNAT and     *)
(* UPnP, against a router that grants one way of mapping a port or another. *)
(* An address is its bytes.                                                 *)
(***************************************************************************)
EXTENDS Integers, Sequences

CONSTANTS
    Preferences,   \* network preferences: listenIPAddress, publicIPAddress, listenPort, traverseNAT
    InterfaceSets, \* the addresses getInterfaceAddresses may find
    Externals,     \* what the router may say its external address is
    c_defaultListenPort, RandomPorts,   \* ports: the default, and those of the system or the router
    RouterWays,    \* how the router may map a port: "direct", "random", "own", "none"
    Others         \* mappings of other machines, described as ours, that it may have

VARIABLES
    hostAt,       \* where Host::startedWorking is
    netPrefs, interfaces, busy,   \* the preferences, the addresses, the ports others listen on
    router,       \* NoRouter, or the way it maps ports, its external address, others' mappings
    mappings,     \* the ports the router forwards: external port, address, port
    untried,      \* the addresses traverseNAT has not yet asked a mapping for
    m_reg,        \* the ports the UPnP object would remove
    redirect,     \* what addRedirect gave: external port and address
    m_listenPort, m_tcpPublic,
    granted       \* history: mappings the router ever made

endpointVars == <<hostAt, netPrefs, interfaces, busy, router, mappings, untried, m_reg, redirect, m_listenPort, m_tcpPublic, granted>>
surroundings == <<netPrefs, interfaces, busy, router>>

unspecified == <<0, 0, 0, 0>>
NoRouter == [way |-> "no router", external |-> unspecified, others |-> {}]
NoRedirect == [port |-> 0, address |-> unspecified]

-----------------------------------------------------------------------------
isPrivateAddress(a) ==
    \/ Len(a) = 4 /\ (a[1] \in {10, 127} \/ (a[1] = 172 /\ a[2] \in 16..31) \/ (a[1] = 192 /\ a[2] = 168))
    \/ Len(a) = 16 /\ (\/ a[1] = 253 /\ a[2] = 0
                       \/ (\A i \in 1..15 : a[i] = 0) /\ a[16] \in {0, 1})

isLocalHostAddress(a) ==
    \/ a \in {<<127, 0, 0, 1>>, unspecified}
    \/ Len(a) = 16 /\ (\A i \in 1..15 : a[i] = 0) /\ a[16] \in {0, 1}

isPublicAddress(a) == ~(isPrivateAddress(a) \/ isLocalHostAddress(a))

\* The constructors of NetworkPreferences refuse a public address that is not
legal(p) == p.publicIPAddress = unspecified \/ isPublicAddress(p.publicIPAddress)

\* what a search for a router may find
discovered == {NoRouter} \union [way : RouterWays, external : Externals, others : SUBSET Others]

PublicEndpointInit ==
    /\ hostAt = "listen"
    /\ netPrefs \in {p \in Preferences : legal(p)}
    /\ interfaces \in {{a \in s : ~isLocalHostAddress(a)} : s \in InterfaceSets}
    /\ busy \in SUBSET {c_defaultListenPort}
    /\ router \in discovered
    /\ mappings = router.others /\ untried = {} /\ m_reg = {} /\ redirect = NoRedirect
    /\ m_listenPort = 0 /\ m_tcpPublic = NoRedirect /\ granted = {}

-----------------------------------------------------------------------------
\* tcp4Listen: the port that is asked for, or else the default one and then any

bindable(port) == port \notin busy

Listen ==
    /\ hostAt = "listen"
    /\ LET wanted == IF netPrefs.listenPort # 0 THEN netPrefs.listenPort ELSE c_defaultListenPort IN
       IF bindable(wanted) THEN m_listenPort' = wanted /\ hostAt' = "determinePublic"
       ELSE IF netPrefs.listenPort # 0 THEN hostAt' = "failed" /\ UNCHANGED m_listenPort
       ELSE hostAt' = "determinePublic" /\ m_listenPort' \in RandomPorts
    /\ UNCHANGED <<surroundings, mappings, untried, m_reg, redirect, m_tcpPublic, granted>>

-----------------------------------------------------------------------------
\* determinePublic

lset == netPrefs.listenIPAddress # unspecified
pset == netPrefs.publicIPAddress # unspecified
listenIsPublic == lset /\ isPublicAddress(netPrefs.listenIPAddress)
publicIsHost == ~lset /\ pset /\ netPrefs.publicIPAddress \in interfaces

\* A plausible slip: the router is asked to forward to any interface
redirectedAny == interfaces

\* the addresses the router is asked to forward to
redirected == IF lset /\ netPrefs.listenIPAddress \in interfaces THEN {netPrefs.listenIPAddress} ELSE interfaces

\* addRedirect: the same port outside, a random one, or one the router
\* chooses.  Only the last is noted for removal, and the router does not say
\* which it is: the first of its mappings that is described as ours is taken,
\* whatever machine it leads to, or none is found.
AddRedirect(address) ==
    LET ours(port) == [outside |-> port, address |-> address, port |-> m_listenPort]
        Map(port) ==
            /\ mappings' = {m \in mappings : m.outside # port} \union {ours(port)}
            /\ granted' = granted \union {ours(port)}
        Take(port) == redirect' = [port |-> port, address |-> address]
    IN  \/ router.way = "direct" /\ Map(m_listenPort) /\ Take(m_listenPort) /\ UNCHANGED m_reg
        \/ router.way = "random" /\ (\E port \in RandomPorts : Map(port) /\ Take(port)) /\ UNCHANGED m_reg
        \/ /\ router.way = "own"
           /\ \E port \in RandomPorts \ {m.outside : m \in mappings} : Map(port)
           /\ \/ \E m \in mappings' : Take(m.outside) /\ m_reg' = m_reg \union {m.outside}
              \/ UNCHANGED <<redirect, m_reg>>
        \/ router.way = "none" /\ UNCHANGED <<mappings, granted, redirect, m_reg>>

\* traverseNAT: the router is looked for, and is asked for one address after
\* another until it maps a port.
TraverseNAT ==
    /\ hostAt = "determinePublic" /\ netPrefs.traverseNAT /\ ~listenIsPublic /\ ~publicIsHost
    /\ hostAt' = "traversing"
    /\ untried' = IF router = NoRouter THEN {} ELSE {a \in redirected : Len(a) = 4 /\ isPrivateAddress(a)}
    /\ UNCHANGED <<surroundings, mappings, m_reg, redirect, m_listenPort, m_tcpPublic, granted>>

TryAddress ==
    /\ hostAt = "traversing" /\ redirect.port = 0
    /\ \E address \in untried : AddRedirect(address) /\ untried' = untried \ {address}
    /\ UNCHANGED <<hostAt, surroundings, m_listenPort, m_tcpPublic>>

\* the destructor of UPnP takes back what it noted
removeRedirects == {m \in mappings : m.outside \notin m_reg}

\* ... the end of it, which destroys the UPnP object and the mappings it
\* noted, and what determinePublic makes of the endpoint
Traversed ==
    LET usable == redirect.port # 0 /\ router.external # unspecified /\ ~isPrivateAddress(router.external)
        ep == IF usable THEN [port |-> redirect.port, address |-> router.external] ELSE NoRedirect
    IN  /\ hostAt = "traversing" /\ (redirect.port # 0 \/ untried = {})
        /\ hostAt' = "public"
        /\ mappings' = removeRedirects /\ m_reg' = {}
        /\ m_tcpPublic' = IF pset THEN [ep EXCEPT !.address = netPrefs.publicIPAddress] ELSE ep
        /\ UNCHANGED <<surroundings, untried, redirect, m_listenPort, granted>>

DeterminePublic ==
    /\ hostAt = "determinePublic" /\ (netPrefs.traverseNAT => listenIsPublic \/ publicIsHost)
    /\ hostAt' = "public"
    /\ m_tcpPublic' =
           [port |-> m_listenPort,
            address |-> IF netPrefs.traverseNAT /\ listenIsPublic THEN netPrefs.listenIPAddress ELSE netPrefs.publicIPAddress]
    /\ UNCHANGED <<surroundings, mappings, untried, m_reg, redirect, m_listenPort, granted>>

\* The host stops: the router keeps what was mapped
StopListening ==
    /\ hostAt = "public" /\ hostAt' = "stopped"
    /\ m_listenPort' = 0
    /\ UNCHANGED <<surroundings, mappings, untried, m_reg, redirect, m_tcpPublic, granted>>

PublicEndpointNext == Listen \/ TraverseNAT \/ TryAddress \/ Traversed \/ DeterminePublic \/ StopListening
PublicEndpointSpec == PublicEndpointInit /\ [][PublicEndpointNext]_endpointVars

-----------------------------------------------------------------------------
\* A mapping to the port and an address that the host listens on
leadsHere(m) ==
    /\ m.port = m_listenPort /\ m.address \in interfaces
    /\ lset /\ netPrefs.listenIPAddress \in interfaces => m.address = netPrefs.listenIPAddress

\* A port that was mapped leads to this host, or is another machine's when the
\* router chose the port.
mayBeMapped(port) ==
    \/ \E m \in granted : m.outside = port /\ leadsHere(m)
    \/ router.way = "own" /\ \E m \in router.others : m.outside = port

\* The address that is advertised is public or left open, the one the user
\* gave if there is one and the listening address is not public itself; and
\* the port the router has mapped was forwarded to the port and to the address
\* the host listens on, unless the router chose it and already had a mapping
\* of another machine with the description that addRedirect looks for.
\* Code: Host::determinePublic, Host.cpp:382-426, traverseNAT, Network.cpp:176-214,
\* addRedirect, UPnP.cpp:121-177.
AdvertisedIsForwarded ==
    hostAt = "public" =>
        /\ m_tcpPublic.address # unspecified => isPublicAddress(m_tcpPublic.address)
        /\ pset /\ ~listenIsPublic => m_tcpPublic.address = netPrefs.publicIPAddress
        /\ redirect.port # 0 /\ m_tcpPublic.port # 0 => mayBeMapped(m_tcpPublic.port)

\* What one would like to say: no exception.  addRedirect takes the first
\* mapping described "ethereum" for its own (UPnP.cpp:168).
AdvertisedLeadsHere ==
    hostAt = "public" /\ redirect.port # 0 /\ m_tcpPublic.port # 0 =>
        \E m \in granted : m.outside = m_tcpPublic.port /\ leadsHere(m)

-----------------------------------------------------------------------------
(* The inductive invariant behind AdvertisedIsForwarded.                   *)

\* The router has what it made for this host and what it had of others.
MappingsAreKnown ==
    /\ mappings \subseteq granted \union router.others
    /\ \A m \in granted : leadsHere(m)

PublicEndpointInv ==
    /\ legal(netPrefs)
    /\ hostAt = "listen" => granted = {}
    /\ hostAt \in {"listen", "determinePublic"} => redirect = NoRedirect
    /\ hostAt # "stopped" => MappingsAreKnown
    /\ hostAt = "traversing" => /\ ~listenIsPublic /\ untried \subseteq redirected
                                /\ redirect.port # 0 => mayBeMapped(redirect.port)
    /\ AdvertisedIsForwarded
=============================================================================
