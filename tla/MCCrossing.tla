---- MODULE MCCrossing ----
(***************************************************************************)
(* Crossing for TLC: one device whose link may be replaced, with a key and *)
(* a button to hold and a chord that ends the visit.                       *)
(***************************************************************************)
EXTENDS Crossing

CONSTANTS c1, key, chord, button

OneClient == {c1}
AllKeys == {key, chord}
ChordOnly == {chord}
OneKey == {key}
OneButton == {button}
Strokes ==
  {Event("down", key), Event("down", chord), Event("down", button), Event("up", button)}
====
