----------------------------- MODULE MCNodeTable -----------------------------
(* Instances of NodeTable for TLC. *)
EXTENDS NodeTable, TLC

CONSTANTS n1, n2, n3, me, b1, c1

OneBin == [n \in Nodes |-> b1]
=============================================================================
