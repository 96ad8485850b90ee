---- MODULE MCEmulation ----
(***************************************************************************)
(* Emulation for TLC: a peer that moves and presses, whose link and lease  *)
(* come and go, beside a steady one that presses and lets go of the same   *)
(* button, over a backend of either kind.                                  *)
(***************************************************************************)
EXTENDS Emulation, TLC

CONSTANTS p1, p2, button

TwoPeers == {p1, p2}
MCKeys == {button}
FirstMoves == p1 :> {"move", "down"} @@ p2 :> {"down", "up"}
Queues == p1 :> 2 @@ p2 :> 1
SecondSteady == {p2}
EveryScope == {"machine", "handle"}
====
