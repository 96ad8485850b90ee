---- MODULE MCTrustPersist ----
(***************************************************************************)
(* TrustPersist for TLC: one machine paired with this one, or two.         *)
(***************************************************************************)
EXTENDS TrustPersist, TLC

CONSTANTS p1, p2

OnePeer == {p1}
TwoPeers == {p1, p2}
MCProductionNarrowings == {Clipboard}

\* The other machine controls this one: a lease the table lists, whose
\* clipboard can be switched.
OneAnswer == {[controller |-> "that", clipboard |-> FALSE]}

\* Any edit of the table.
EveryTable == {NoTable} \cup {Table(ps) : ps \in SUBSET Peers}

\* Any edit that leaves a table.
LinesEdited == {Table(ps) : ps \in SUBSET Peers}

EverySaveOutcome == {"ok", "store-failed", "floor-failed"}
EveryConfigOutcome == {"ok", "file-failed", "record-failed", "unrecord-failed"}
AlwaysOk == {"ok"}

\* A clock that stands still, ahead of a store that has not been saved yet.
StandingInit == Init /\ sys = 1
StandingSpec == StandingInit /\ [][DaemonNext \/ FileNext \/ Crash]_vars

\* Machines differ only in name.
PeerSymmetry == Permutations(Peers)
====
