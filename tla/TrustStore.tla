---- MODULE TrustStore ----
(***************************************************************************)
(* The in-memory trust store of one machine (src/src/trust.rs): one lease  *)
(* per paired machine, the verbs that change it and the one function every *)
(* permission question is answered by.                                     *)
(*                                                                         *)
(* A fingerprint is a member of Peers in its canonical spelling; labels    *)
(* and the `issued_to' field are left out (the store holds only leases     *)
(* issued to this machine: admit refuses any other).  No production verb   *)
(* issues a lease that lapses (DEFAULT_TERM is Never, and the loader       *)
(* rebuilds every lease as Never), so a lease has no end, only a start.    *)
(***************************************************************************)
EXTENDS Naturals

CONSTANTS
  Peers,      \* the other machines, by fingerprint
  MaxTime,    \* bound on the readings of the system clock
  Narrowings  \* the capability sets drop_capabilities is called with

Caps == {"drive-me", "i-may-drive", "clipboard-from", "clipboard-to"}
Drive == {"drive-me", "i-may-drive"}
Clipboard == {"clipboard-from", "clipboard-to"}

Controllers == {"this", "that", "both"}   \* the pairing card's answers
Chosen(controller) ==
  CASE controller = "this" -> "chosen-this"
    [] controller = "that" -> "chosen-that"
    [] controller = "both" -> "chosen-both"
Origins == {"inbound", "outbound-dial", "migrated"}
             \cup {"chosen-this", "chosen-that", "chosen-both"}

Time == 0..MaxTime

ASSUME ConstantsAssumption ==
  /\ MaxTime \in Nat
  /\ Narrowings \subseteq SUBSET Caps

VARIABLES
  entries,   \* Peers -> Lease: the lease held for each machine, or NoLease
  pairAgain, \* machines an older build listed, to be paired again
  floor,     \* the clock floor: the latest time observed
  sys,       \* what the system clock reads now
  said       \* history: what a person here said yes to, and has not taken
             \* back, for the pairing the store holds with each machine

storeVars == <<entries, pairAgain, floor, sys, said>>

Lease == [caps : SUBSET Caps, origin : Origins, issued_at : Time,
          clipboard_chosen : BOOLEAN, confirmed : BOOLEAN]

\* No record of the machine.  A held lease always permits something.
NoLease == [caps |-> {}, origin |-> "inbound", issued_at |-> 0,
            clipboard_chosen |-> FALSE, confirmed |-> FALSE]

----------------------------------------------------------------------------
(* What a lease says *)

DriveOf(controller) ==
  CASE controller = "this" -> {"i-may-drive"}
    [] controller = "that" -> {"drive-me"}
    [] controller = "both" -> Drive

\* The clipboard goes the way control goes.
ExistingPairingClipboard(caps) ==
  {c \in Clipboard : \/ c = "clipboard-from" /\ "drive-me" \in caps
                     \/ c = "clipboard-to" /\ "i-may-drive" \in caps}

OriginOf(caps) ==
  IF "i-may-drive" \notin caps THEN "inbound"
  ELSE IF "drive-me" \in caps THEN "migrated" ELSE "outbound-dial"

\* The chosen origin that names exactly these drive bits.
ChosenOrigin(caps) ==
  IF {c \in Controllers : DriveOf(c) = caps \cap Drive} = {} THEN "migrated"
  ELSE Chosen(CHOOSE c \in Controllers : DriveOf(c) = caps \cap Drive)

\* Lease::canonicalized: what every door into the store accepts.
Canonical(l) ==
  /\ l.caps # {}
  /\ \A c \in Controllers : l.origin = Chosen(c) => l.caps \cap Drive = DriveOf(c)

\* The approval's provenance and the direction it carries agree.
Coherent(origin, caps) ==
  /\ origin = "outbound-dial" => "drive-me" \notin caps
  /\ origin = "inbound" => "i-may-drive" \notin caps

Now == IF sys > floor THEN sys ELSE floor

IsValid(l) == Now >= l.issued_at

\* The one decision function.
EffectiveCapabilities(p) ==
  IF entries[p].confirmed /\ IsValid(entries[p]) THEN entries[p].caps ELSE {}

InForce(p) == EffectiveCapabilities(p) # {}

AwaitingConfirmation(p) ==
  IF ~entries[p].confirmed /\ IsValid(entries[p]) THEN entries[p].caps \cap Drive ELSE {}

IsPairing(p) == AwaitingConfirmation(p) # {}

IsKnown(p) == entries[p] # NoLease

Permits(p, want) == want # {} /\ want \subseteq EffectiveCapabilities(p)

\* What the daemon writes to [authorized_fingerprints].
ConfigCache ==
  {p \in Peers : /\ entries[p].confirmed
                 /\ IsValid(entries[p])
                 /\ "drive-me" \in entries[p].caps}

----------------------------------------------------------------------------
(* The verbs *)

\* The one door into the store.
Admit(p, lease) ==
  /\ Canonical(lease)
  /\ entries' = [entries EXCEPT ![p] = lease]
  /\ pairAgain' = IF lease.confirmed THEN pairAgain \ {p} ELSE pairAgain

FreshLease(caps, origin, chosen) ==
  [caps |-> caps, origin |-> origin, issued_at |-> Now,
   clipboard_chosen |-> chosen, confirmed |-> FALSE]

\* The bits an approval adds to the lease in force: not a clipboard it did
\* not ask about, once someone has chosen one.
GrantedOver(held, fresh) ==
  IF held.clipboard_chosen /\ ~fresh.clipboard_chosen
  THEN fresh.caps \ Clipboard ELSE fresh.caps

\* Mutant of Merged: the merge takes the approval's confirmation.
MergedUnconfirmed(held, fresh) ==
  [caps |-> held.caps \cup GrantedOver(held, fresh), origin |-> "migrated",
   issued_at |-> fresh.issued_at, clipboard_chosen |-> held.clipboard_chosen,
   confirmed |-> fresh.confirmed]

\* A grant to a pairing in force adds to it and keeps its confirmation.
Merged(held, fresh) ==
  LET caps == held.caps \cup GrantedOver(held, fresh) IN
  [caps |-> caps,
   origin |-> IF caps = fresh.caps THEN fresh.origin
              ELSE IF fresh.origin \in {Chosen(c) : c \in Controllers}
                   THEN ChosenOrigin(caps)
                   ELSE OriginOf(caps),
   issued_at |-> fresh.issued_at,
   clipboard_chosen |-> held.clipboard_chosen,
   confirmed |-> held.confirmed]

\* Mutant of LeaseToHold: an approval replaces the lease in force.
LeaseReplaced(p, fresh) == fresh

\* What issue_lease puts in the store.
LeaseToHold(p, fresh) == IF InForce(p) THEN Merged(entries[p], fresh) ELSE fresh

IssueLease(p, caps, origin, chosen) ==
  LET fresh == FreshLease(caps, origin, chosen) IN
  /\ Canonical(fresh)
  /\ Coherent(origin, caps)
  /\ Admit(p, LeaseToHold(p, fresh))
  /\ said' = [said EXCEPT ![p] =
                IF InForce(p) THEN @ \cup GrantedOver(entries[p], fresh) ELSE caps]
  /\ UNCHANGED <<floor, sys>>

\* issue: an approval that asked about a direction only.
Issue(p, caps) == IssueLease(p, caps, OriginOf(caps), FALSE)

\* issue_answered: the pairing card's two answers.
AnsweredCaps(controller, clipboard) ==
  DriveOf(controller) \cup
    (IF clipboard THEN ExistingPairingClipboard(DriveOf(controller)) ELSE {})

IssueAnswered(p, controller, clipboard) ==
  IssueLease(p, AnsweredCaps(controller, clipboard), Chosen(controller), TRUE)

\* Both machines confirmed the number: the approved lease starts granting.
Confirm(p) ==
  /\ IsKnown(p)
  /\ entries' = [entries EXCEPT ![p].confirmed = TRUE]
  /\ pairAgain' = pairAgain \ {p}
  /\ UNCHANGED <<floor, sys, said>>

\* A pairing that ends unconfirmed leaves nothing; a confirmed one is kept.
ForgetUnconfirmed(p) ==
  /\ IsKnown(p)
  /\ ~entries[p].confirmed
  /\ entries' = [entries EXCEPT ![p] = NoLease]
  /\ said' = [said EXCEPT ![p] = {}]
  /\ UNCHANGED <<pairAgain, floor, sys>>

Forget(p) ==
  /\ entries' = [entries EXCEPT ![p] = NoLease]
  /\ pairAgain' = pairAgain \ {p}
  /\ said' = [said EXCEPT ![p] = {}]
  /\ UNCHANGED <<floor, sys>>

\* What narrowing leaves of a lease: nothing at all, if no bit is left.
Narrowed(l, drop) == IF l.caps \subseteq drop THEN NoLease ELSE [l EXCEPT !.caps = @ \ drop]

DropCapabilities(p, drop) ==
  /\ IsKnown(p)
  /\ entries' = [entries EXCEPT ![p] = Narrowed(@, drop)]
  /\ said' = [said EXCEPT ![p] = @ \ drop]
  /\ UNCHANGED <<pairAgain, floor, sys>>

\* Mutant of ClipboardOff: a lease with nothing left is kept.
ClipboardOffKeepsEmpty(l) ==
  [caps |-> l.caps \ Clipboard, origin |-> l.origin, issued_at |-> l.issued_at,
   clipboard_chosen |-> TRUE, confirmed |-> l.confirmed]

\* The off arm of the clipboard switch.
ClipboardOff(l) ==
  IF l.caps \subseteq Clipboard THEN NoLease
  ELSE [caps |-> l.caps \ Clipboard, origin |-> l.origin, issued_at |-> l.issued_at,
        clipboard_chosen |-> TRUE, confirmed |-> l.confirmed]

DisableClipboard(p) ==
  /\ IsKnown(p)
  /\ ~(entries[p].clipboard_chosen /\ entries[p].caps \cap Clipboard = {})
  /\ entries' = [entries EXCEPT ![p] = ClipboardOff(@)]
  /\ said' = [said EXCEPT ![p] = @ \ Clipboard]
  /\ UNCHANGED <<pairAgain, floor, sys>>

\* The on arm: the clipboard the drive bits allow, and nothing else.
ClipboardOn(l) ==
  [caps |-> l.caps \cup ExistingPairingClipboard(l.caps), origin |-> l.origin,
   issued_at |-> l.issued_at, clipboard_chosen |-> TRUE, confirmed |-> l.confirmed]

EnableClipboard(p) ==
  /\ InForce(p)
  /\ ~(ExistingPairingClipboard(entries[p].caps) \subseteq entries[p].caps)
  /\ entries' = [entries EXCEPT ![p] = ClipboardOn(@)]
  /\ said' = [said EXCEPT ![p] = @ \cup ExistingPairingClipboard(@)]
  /\ UNCHANGED <<pairAgain, floor, sys>>

\* A fresh term, which never lapses either; only the start can move.
Renew(p) ==
  /\ IsKnown(p)
  /\ entries' = [entries EXCEPT ![p].issued_at = IF Now < @ THEN Now ELSE @]
  /\ UNCHANGED <<pairAgain, floor, sys, said>>

ListToPairAgain(p) ==
  /\ ~IsKnown(p)
  /\ pairAgain' = pairAgain \cup {p}
  /\ UNCHANGED <<entries, floor, sys, said>>

\* sweep and forget_long_lapsed: no lease lapses, so what is left of either
\* is the floor they observe.
Sweep ==
  /\ floor' = Now
  /\ UNCHANGED <<entries, pairAgain, sys, said>>

\* The system clock, which anyone at this machine can set either way.
ClockReads(t) ==
  /\ sys' = t
  /\ UNCHANGED <<entries, pairAgain, floor, said>>

----------------------------------------------------------------------------

StoreInit ==
  /\ entries = [p \in Peers |-> NoLease]
  /\ pairAgain \in SUBSET Peers
  /\ floor \in Time
  /\ sys \in Time
  /\ said = [p \in Peers |-> {}]

PeerNext(p) ==
  \/ \E caps \in SUBSET Caps : Issue(p, caps)
  \/ \E c \in Controllers, cb \in BOOLEAN : IssueAnswered(p, c, cb)
  \/ Confirm(p)
  \/ ForgetUnconfirmed(p)
  \/ Forget(p)
  \/ \E drop \in Narrowings : DropCapabilities(p, drop)
  \/ DisableClipboard(p)
  \/ EnableClipboard(p)
  \/ Renew(p)
  \/ ListToPairAgain(p)

StoreNext ==
  \/ \E p \in Peers : PeerNext(p)
  \/ Sweep
  \/ \E t \in Time : ClockReads(t)

StoreSpec == StoreInit /\ [][StoreNext]_storeVars

----------------------------------------------------------------------------
(* Correctness *)

\* The store holds what its Rust types say, and no lease or floor carries a
\* time the clock has not read (TrustStore, Lease, Clock).
TypeOK ==
  /\ entries \in [Peers -> Lease]
  /\ pairAgain \subseteq Peers
  /\ floor \in Time
  /\ sys \in Time
  /\ said \in [Peers -> SUBSET Caps]

\* Every lease the store holds is one its own load door accepts: whatever
\* order of approvals, merges and switches made it, a restart that replays
\* it through admit (trust.rs, Lease::canonicalized) does not refuse it.
EveryHeldLeaseReloads ==
  \A p \in Peers : IsKnown(p) => Canonical(entries[p])

\* A pairing grants exactly what a person here said yes to and has not taken
\* back: a second approval adds its direction and leaves the first, no merge
\* turns a switched-off clipboard back on, and a lease replaced rather than
\* merged leaves no direction behind (issue_lease, disable_clipboard).
HoldsExactlyWhatWasSaid ==
  \A p \in Peers : entries[p].caps = said[p]

\* A machine listed to be paired again holds no confirmed pairing: the two
\* records of one machine never both speak (admit, confirm,
\* list_to_pair_again, #231), so records_of writes one row for it.
PairAgainHoldsNoPairing ==
  \A p \in pairAgain : ~entries[p].confirmed

\* The record of a machine nobody knows is empty in every field.
UnknownIsBlank ==
  \A p \in Peers : entries[p].caps = {} => entries[p] = NoLease

\* The narrowings production code asks for leave the drive bits alone
\* (disable_clipboard is drop_capabilities' only caller outside the tests).
NarrowsClipboardOnly == \A drop \in Narrowings : drop \subseteq Clipboard

\* What every order of verbs keeps of the store: its types, one record per
\* machine and one that the next load accepts, holding exactly what was said.
\* None of its parts is kept without the others, and the proofs are about it.
StoreInv ==
  /\ TypeOK
  /\ UnknownIsBlank
  /\ EveryHeldLeaseReloads
  /\ HoldsExactlyWhatWasSaid
  /\ PairAgainHoldsNoPairing

\* No approval takes away what a pairing in force grants (#166), and only a
\* removal or a narrowing ever does: over any step, what was granted is still
\* granted, or the person took it back, or the clock now reads before the
\* pairing was made.
GrantsOutliveApprovals ==
  [][\A p \in Peers :
       EffectiveCapabilities(p) \subseteq EffectiveCapabilities(p)'
         \/ ~(said[p] \subseteq said'[p])
         \/ ~IsValid(entries[p])']_storeVars
====
