---- MODULE MCLinks ----
(***************************************************************************)
(* Links for TLC.  Two links at once are enough for a dial that lands      *)
(* beside one dialled in, for one that replaces another and for one that   *)
(* outlives a removal; two edits for a removal or a switch and the one     *)
(* that undoes it; one fault for a link or a close that is lost.           *)
(***************************************************************************)
EXTENDS Links

====
