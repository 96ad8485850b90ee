---- MODULE MCTrustStore ----
(***************************************************************************)
(* TrustStore for TLC.  Leases of different machines never meet in the     *)
(* store, so two machines show every case that has more than one.  Two     *)
(* clock readings are enough for a lease issued ahead of the clock it is   *)
(* later read by.  The only narrowing production code asks for is the      *)
(* clipboard's.                                                            *)
(***************************************************************************)
EXTENDS TrustRows

CONSTANTS p1, p2

MCPeers == {p1, p2}
MCProductionNarrowings == {Clipboard}
====
