--------------------------- MODULE HandshakeOutcome ---------------------------
(***************************************************************************)
(* What the Host relies on when it starts a handshake (HostPeers): each    *)
(* of the handshakes ends, once, either with a session or without one.     *)
(* Those of other programs count as failed from the beginning.             *)
(***************************************************************************)
CONSTANT Handshakes

VARIABLE outcome

OutcomeInit == outcome \in [Handshakes -> {"running", "failed"}]

Ends(h) ==
    /\ outcome[h] = "running"
    /\ \E result \in {"session", "failed"} : outcome' = [outcome EXCEPT ![h] = result]

OutcomeNext == \E h \in Handshakes : Ends(h)

OutcomeSpec ==
    OutcomeInit /\ [][OutcomeNext]_outcome /\ \A h \in Handshakes : WF_outcome(Ends(h))
=============================================================================
