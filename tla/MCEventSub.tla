----------------------------- MODULE MCEventSub -----------------------------
(***************************************************************************)
(* Instances of EventSub for TLC.                                          *)
(***************************************************************************)
EXTENDS EventSub, TLC

CONSTANTS a, g, s, c1, c2

\* A bounded range that takes two walks or more, and one that one walk may do.
Bounded == [id |-> a, group |-> g, session |-> s, from |-> 1, to |-> 3]
Short   == [id |-> a, group |-> g, session |-> s, from |-> 1, to |-> 2]

BoundedOnly == {Bounded}
ShortOnly   == {Short}

ChainSymmetry == Permutations({c1, c2})
=============================================================================
