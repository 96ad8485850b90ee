---- MODULE MCPromptGate ----
(***************************************************************************)
(* PromptGate for TLC.                                                     *)
(***************************************************************************)
EXTENDS PromptGate, TLC

MachineSymmetry == Permutations(Fingerprints)
====
