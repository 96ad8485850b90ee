---- MODULE MCTrustPersistOutside ----
(***************************************************************************)
(* TrustPersist for TLC under one kind of outside change at a time: in a   *)
(* behaviour either config.toml is edited at any time, or the clock moves  *)
(* either way.  Both at once are too many states; every other step of the  *)
(* specification, failed saves and crashes included, is in both.  A file   *)
(* half written in place shows an empty table.                             *)
(***************************************************************************)
EXTENDS MCTrustPersist

VARIABLE outside   \* what changes outside the daemon

MCInit == Init /\ outside \in {"edits", "clock"} /\ (outside = "edits" => sys = 0)

MCNext ==
  /\ UNCHANGED outside
  /\ \/ DaemonNext \/ Crash
     \/ /\ outside = "edits"
        /\ \/ EndInPlace
           \/ \E t \in Edits : EditTable(t) \/ BeginInPlace(t, Table({}))
     \/ outside = "clock" /\ \E t \in Time : SetClock(t)

mcVars == <<vars, outside>>

\* TrustPersist's FairSpec, over these steps.
MCSpec ==
  /\ MCInit /\ [][MCNext]_mcVars
  /\ SF_mcVars(SweepSave("ok") /\ UNCHANGED outside)
  /\ WF_mcVars((\E p \in Peers : RemoveFound(p)) /\ UNCHANGED outside)
====
