---------------------------- MODULE EventStream ----------------------------
(***************************************************************************)
(* What the event subscription service promises the client of a            *)
(* subscription that names its first block: the logs of blocks of its      *)
(* range only, each at least once and in any order, and PUSH_COMPLETED at   *)
(* most once, after every block of the range and never before.             *)
(*                                                                         *)
(* A subscription that starts at the latest block (from <= 0) is promised  *)
(* less: which blocks it is sent depends on the heights the nodes report.  *)
(***************************************************************************)
EXTENDS Integers

CONSTANTS Requests, Sessions

VARIABLES
    connected,  \* sessions that are open
    pushed,     \* blocks whose matching logs were sent, for each subscription
    completed   \* how often PUSH_COMPLETED was sent, for each subscription

vars == <<connected, pushed, completed>>

Init ==
    /\ connected = Sessions
    /\ pushed = [r \in Requests |-> {}]
    /\ completed = [r \in Requests |-> 0]

Asked(r, n) ==
    r.from > 0 => /\ r.from <= n
                  /\ r.to > 0 => n <= r.to

Push(r, n) ==
    /\ r.session \in connected
    /\ Asked(r, n)
    /\ pushed' = [pushed EXCEPT ![r] = @ \cup {n}]
    /\ UNCHANGED <<connected, completed>>

Complete(r) ==
    /\ r.session \in connected
    /\ completed[r] = 0
    /\ r.from > 0 => r.from .. r.to \subseteq pushed[r]
    /\ completed' = [completed EXCEPT ![r] = 1]
    /\ UNCHANGED <<connected, pushed>>

Close(s) ==
    /\ connected' = connected \ {s}
    /\ UNCHANGED <<pushed, completed>>

\* Any block number may be pushed; the block of a push is among those sent after it.
Next ==
    \/ \E r \in Requests : Complete(r) \/ \E n \in pushed'[r] : Push(r, n)
    \/ \E s \in Sessions : Close(s)

Spec == Init /\ [][Next]_vars
=============================================================================
