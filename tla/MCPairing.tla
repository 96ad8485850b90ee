---- MODULE MCPairing ----
(***************************************************************************)
(* Pairing for TLC: each machine dials the other, or one dials twice.      *)
(***************************************************************************)
EXTENDS Pairing

CONSTANTS a, b

\* One answer everybody agrees with; answers of which some agree.  The two
\* directions differ only in name, so First's may be fixed.
Both == [m \in Machines |-> {{"controls", "controlled"}}]
OneWay == [m \in Machines |->
             IF m = First THEN {{"controls"}} ELSE {{"controls"}, {"controlled"}}]

OnceEach == [m \in Machines |-> 1]

Reliable == {}
EveryFault == {"lost", "crash"}
====
