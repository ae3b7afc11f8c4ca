-------------------------------- MODULE MCRpc --------------------------------
(***************************************************************************)
(* Rpc for TLC: one group of one node and one session.  The properties     *)
(* speak of one group and one session at a time; the node comes and goes,  *)
(* and its calls overtake each other.                                      *)
(***************************************************************************)
EXTENDS Rpc

CONSTANTS g, n, s, c
=============================================================================
