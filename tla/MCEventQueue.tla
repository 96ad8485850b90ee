---- MODULE MCEventQueue ----
(***************************************************************************)
(* EventQueue for TLC: two edges, and two keys.                            *)
(***************************************************************************)
EXTENDS EventQueue, TLC

CONSTANTS left, right, k1, k2

MCPositions == {left, right}
\* The keys are used at one edge, the rest is made at the other; the pointer
\* moves at both.
MCMakes == (left :> {"motion", "keys"}) @@ (right :> {"motion", "begin", "other"})
MCMaxMoved == (left :> 2) @@ (right :> 1)
MCKeys == {k1, k2}
====
