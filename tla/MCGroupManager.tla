--------------------------- MODULE MCGroupManager ---------------------------
(***************************************************************************)
(* GroupManager for TLC: one group, and nodes that are interchangeable     *)
(* where no liveness is checked.                                           *)
(***************************************************************************)
EXTENDS GroupManager, TLC

CONSTANTS g, n1, n2

NodeSymmetry == Permutations({n1, n2})
=============================================================================
