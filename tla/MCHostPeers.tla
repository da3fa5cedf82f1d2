---------------------------- MODULE MCHostPeers ----------------------------
(* Instances of HostPeers for TLC. *)
EXTENDS HostPeers, TLC

CONSTANTS p1, p2, p3, c1

Interchangeable == Permutations(Ids)
=============================================================================
