---- MODULE HeldKeys ----
(***************************************************************************)
(* What a queue of input events promises about keys and buttons, whatever  *)
(* it merges, refuses or lets go of on the way: the machine at its far end *)
(* comes to hold what it was promised, and that is never more than what is *)
(* down at the near end.                                                   *)
(***************************************************************************)
CONSTANT Things  \* the keys and buttons, each with the edge it was used at

VARIABLES
  down,   \* what is held down where the events are made
  owed,   \* what the far end will hold once it has taken everything
  ended   \* the far end went away

vars == <<down, owed, ended>>

Init == down = {} /\ owed = {} /\ ended = FALSE

\* A press counts, or is refused; refusing it may let everything go.
Press(t) ==
  /\ down' = down \cup {t}
  /\ owed' \in {owed, {}} \cup (IF ended THEN {} ELSE {owed \cup {t}})
  /\ UNCHANGED ended

\* A release always counts.
Release(t) ==
  /\ down' = down \ {t}
  /\ owed' = owed \ {t}
  /\ UNCHANGED ended

\* Anything else that is made may let everything go, and nothing else.
Other == owed' = {} /\ UNCHANGED <<down, ended>>

\* A far end that is gone is owed nothing.
End == ended' = TRUE /\ owed' = {} /\ UNCHANGED down

Next == Other \/ End \/ \E t \in Things : Press(t) \/ Release(t)

Spec == Init /\ [][Next]_vars

\* Nothing is owed that is not down: a key let go of at the near end never stays
\* down at the far end, whatever was merged or refused between.
OwedIsDown == owed \subseteq down
====
