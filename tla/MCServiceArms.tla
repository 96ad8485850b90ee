---- MODULE MCServiceArms ----
(***************************************************************************)
(* Clipboard and PermissionWatch for TLC.  They are arms of one loop (the  *)
(* select in Service::run) and share no state: a behaviour of this module  *)
(* is one of either, and leaves the other where it began.                  *)
(***************************************************************************)
EXTENDS Clipboard, PermissionWatch

CONSTANTS l, r, x, y, s

VARIABLE arm   \* which of the two the behaviour is of

\* Each machine has a text of its own, and one its app marks, at both.
OwnTexts == [m \in Machines |-> IF m = l THEN {x, s} ELSE {y, s}]

\* One machine is told to stop sharing, the other to stop taking.
Changing == [m \in Machines |-> Settings \ IF m = l THEN {"to"} ELSE {"from"}]
EitherWay == [m \in Machines |-> {Settings, Changing[m]}]

MCInit ==
  /\ ClipInit /\ PermissionInit
  /\ arm \in {"clipboard", "permissions"}
  /\ arm = "clipboard" => granted = {} /\ ~sticky /\ ~launchd
  /\ arm = "permissions" => policy = Changing

ClipStep(A) == arm = "clipboard" /\ A /\ UNCHANGED <<permissionVars, arm>>
PermissionStep(A) == arm = "permissions" /\ A /\ UNCHANGED <<clipVars, arm>>

MCNext == ClipStep(ClipNext) \/ PermissionStep(PermissionNext)

mcVars == <<clipVars, permissionVars, arm>>

\* The fairness of ClipSpec and of PermissionSpec, each on its own arm.
MCSpec ==
  /\ MCInit /\ [][MCNext]_mcVars
  /\ \A m \in Machines : WF_mcVars(ClipStep(Poll(m))) /\ WF_mcVars(ClipStep(AppMarks(m)))
  /\ WF_mcVars(PermissionStep(Check)) /\ WF_mcVars(PermissionStep(CaptureLoses))
  /\ WF_mcVars(PermissionStep(LaunchdStarts))
  /\ \A side \in Sides : WF_mcVars(PermissionStep(Side(side)))
                         /\ WF_mcVars(PermissionStep(ServiceHears(side)))
====
