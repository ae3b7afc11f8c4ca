----------------------------- MODULE RequestLife -----------------------------
(***************************************************************************)
(* What becomes of a request: somebody takes it, holds it for a while,     *)
(* and lets go of it with a reply or without one.  Nobody replies to a     *)
(* request that is not held, and a request let go of is never held again,  *)
(* so that it has one reply at most.  Some requests may be forewarned, with*)
(* a first reply when they are taken.                                      *)
(*                                                                         *)
(* JsonRpc implements this for the requests of the JSON-RPC service and    *)
(* Amop for those of the AMOP client.                                      *)
(***************************************************************************)
EXTENDS Naturals

CONSTANTS
    Requests,
    Forewarned  \* the requests that may be

VARIABLES
    taken,   \* the requests received so far
    held,    \* those of them that somebody may still reply to
    replies  \* how many replies each request got

vars == <<taken, held, replies>>

Init ==
    /\ taken = {}
    /\ held = {}
    /\ replies = [r \in Requests |-> 0]

Open(r) == r \notin taken \/ r \in held

OneReply(r) == replies' = [replies EXCEPT ![r] = @ + 1]

Take(r) ==
    /\ r \notin taken
    /\ taken' = taken \cup {r}
    /\ held' = held \cup {r}
    /\ \/ UNCHANGED replies
       \/ r \in Forewarned /\ OneReply(r)

\* A request may be let go of in the step that takes it.
LetGo(r) ==
    /\ Open(r)
    /\ taken' = taken \cup {r}
    /\ held' = held \ {r}
    /\ OneReply(r) \/ UNCHANGED replies

Next == \E r \in Requests : Take(r) \/ LetGo(r)

Spec == Init /\ [][Next]_vars
=============================================================================
