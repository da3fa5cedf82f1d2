--------------------------- MODULE MCHostLifecycle ---------------------------
(* Instances of HostLifecycle for TLC. *)
EXTENDS HostLifecycle

CONSTANTS c1, c2
=============================================================================
