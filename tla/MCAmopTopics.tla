---------------------------- MODULE MCAmopTopics ----------------------------
(***************************************************************************)
(* The topics of the AMOP client for TLC: sessions are interchangeable.    *)
(***************************************************************************)
EXTENDS AmopTopics, TLC

CONSTANTS s1, s2

SessionSymmetry == Permutations(Sessions)
=============================================================================
