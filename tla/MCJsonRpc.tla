------------------------------ MODULE MCJsonRpc ------------------------------
(***************************************************************************)
(* An instance of JsonRpc for TLC: requests for one group.                 *)
(***************************************************************************)
EXTENDS JsonRpc

CONSTANTS g

OneGroup == [r \in Requests |-> g]
=============================================================================
