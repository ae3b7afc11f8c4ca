------------------------------- MODULE MCAmop -------------------------------
(***************************************************************************)
(* The AMOP client for TLC.                                                *)
(***************************************************************************)
EXTENDS Amop, TLC

CONSTANTS s1, r1, q1
=============================================================================
