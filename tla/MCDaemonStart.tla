---- MODULE MCDaemonStart ----
(***************************************************************************)
(* DaemonStart for TLC: two apps open at once, on either platform, over    *)
(* whatever daemon there was, and two things go wrong.  Five processes are *)
(* the one there was, one for each door, and two that are started beside.  *)
(***************************************************************************)
EXTENDS DaemonStart

CONSTANTS d1, d2

TwoDoors == {d1, d2}
FivePids == 1..5
====
