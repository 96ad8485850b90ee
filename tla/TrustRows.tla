---- MODULE TrustRows ----
(***************************************************************************)
(* The rows the trust store is flattened to on disk and rebuilt from       *)
(* (src/src/trust_file.rs, records_of and rebuild).  On disk a record is a *)
(* state, the directions it drives and, when chosen, its clipboard; in     *)
(* memory it is a lease.  `expires_at', written for older builds and read  *)
(* by none of this one's decisions, is left out, and so is the row state   *)
(* an earlier build kept removals in.                                      *)
(***************************************************************************)
EXTENDS TrustStore

Row == [state : {"none", "active", "pair-again"}, caps : SUBSET Drive,
        origin : Origins, issued_at : Time, confirmed : BOOLEAN,
        has_clipboard : BOOLEAN, clipboard : SUBSET Clipboard]

NoRow == [state |-> "none", caps |-> {}, origin |-> "migrated", issued_at |-> 0,
          confirmed |-> FALSE, has_clipboard |-> FALSE, clipboard |-> {}]

\* Mutant of WritesClipboard: written only when chosen.
WritesClipboardChosen(l) == l.clipboard_chosen

\* The clipboard is written when chosen, and when its absence would load as
\* something else.
WritesClipboard(l) ==
  l.clipboard_chosen \/ l.caps \cap Clipboard # ExistingPairingClipboard(l.caps)

ActiveRow(l) ==
  [state |-> "active", caps |-> l.caps \cap Drive, origin |-> l.origin,
   issued_at |-> l.issued_at, confirmed |-> l.confirmed,
   has_clipboard |-> WritesClipboard(l),
   clipboard |-> IF WritesClipboard(l) THEN l.caps \cap Clipboard ELSE {}]

\* records_of, a machine at a time: one listed to be paired again whose new
\* pairing is not confirmed is written as the listing alone.
RecordOf(p) ==
  IF IsKnown(p) /\ (entries[p].confirmed \/ p \notin pairAgain) THEN ActiveRow(entries[p])
  ELSE IF p \in pairAgain THEN [NoRow EXCEPT !.state = "pair-again"]
  ELSE NoRow

Records == [p \in Peers |-> RecordOf(p)]

\* validate: one row per machine.  Two rows would be one lease confirmed and
\* one listing.
Validates == \A p \in Peers : ~(entries[p].confirmed /\ p \in pairAgain)

RowCaps(r) ==
  r.caps \cup (IF r.has_clipboard THEN r.clipboard ELSE ExistingPairingClipboard(r.caps))

\* rebuild, a machine at a time: a pairing never confirmed is dropped, and so
\* is one the load door refuses.
RebuiltLease(r) ==
  LET l == [caps |-> RowCaps(r), origin |-> r.origin, issued_at |-> r.issued_at,
            clipboard_chosen |-> r.has_clipboard, confirmed |-> TRUE] IN
  IF r.state = "active" /\ r.confirmed /\ Canonical(l) THEN l ELSE NoLease

----------------------------------------------------------------------------

\* What a restart makes of a confirmed pairing is that pairing: the same
\* permissions in the same direction from the same act, whatever verbs made
\* it ("a store written and read back has to answer every question
\* identically", trust_file.rs).
PairingRoundTrips ==
  \A p \in Peers :
    entries[p].confirmed =>
      LET back == RebuiltLease(RecordOf(p)) IN
      /\ back.caps = entries[p].caps
      /\ back.origin = entries[p].origin
      /\ back.issued_at = entries[p].issued_at
      /\ back.confirmed
====
