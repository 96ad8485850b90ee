---- MODULE TrustProofs ----
(***************************************************************************)
(* The trust store, for any set of machines and any clock bound.           *)
(*                                                                         *)
(* In memory (TrustStore): it holds exactly what was said, in a form its   *)
(* load door accepts, whatever the order of the verbs.                     *)
(*                                                                         *)
(* On disk (TrustRows): a confirmed pairing written to the sealed store    *)
(* and read back is the same pairing (trust_file.rs, records_of, rebuild). *)
(*                                                                         *)
(* Across restarts (TrustPersist), in any order of saves, failed saves,    *)
(* crashes and edits of config.toml: what the daemon grants and what its   *)
(* disk would grant differ only while the user is told so (trust_save.rs); *)
(* a removal that reached the disk, or the table and the record beside it, *)
(* is not undone by a restart; and with saves that succeed nothing is      *)
(* forgotten for a line nobody took out (cache_listed.rs).                 *)
(***************************************************************************)
EXTENDS TrustPersist, TLAPS

----------------------------------------------------------------------------
(* The operators *)

\* An answer names at least one direction, and nothing but directions.
LEMMA DriveOfType ==
  \A c \in Controllers : DriveOf(c) \subseteq Drive /\ DriveOf(c) # {}
BY DEF Controllers, DriveOf, Drive

\* Each answer has an origin of its own, which is none of the others.
LEMMA ChosenType ==
  \A c \in Controllers : /\ Chosen(c) \in Origins
                         /\ Chosen(c) \notin {"inbound", "outbound-dial", "migrated"}
BY DEF Controllers, Chosen, Origins

\* No two answers share an origin.
LEMMA ChosenInjective ==
  \A c, d \in Controllers : Chosen(c) = Chosen(d) => c = d
BY DEF Controllers, Chosen

\* The clipboard that follows from a direction is clipboard bits only.
LEMMA ClipboardType ==
  \A caps : ExistingPairingClipboard(caps) \subseteq Clipboard
BY DEF ExistingPairingClipboard

\* An approval that was asked only a direction never has a chosen origin.
LEMMA OriginOfType ==
  \A caps : OriginOf(caps) \in {"inbound", "outbound-dial", "migrated"}
BY DEF OriginOf

\* The origin two chosen approvals add up to is a choice of exactly the drive
\* bits they add up to, or no choice at all.
LEMMA ChosenOriginFits ==
  ASSUME NEW caps \in SUBSET Caps
  PROVE  /\ ChosenOrigin(caps) \in Origins
         /\ \A c \in Controllers :
              ChosenOrigin(caps) = Chosen(c) => caps \cap Drive = DriveOf(c)
<1> DEFINE S == {c \in Controllers : DriveOf(c) = caps \cap Drive}
<1>1. CASE S = {}
  <2>1. ChosenOrigin(caps) = "migrated"
    BY <1>1 DEF ChosenOrigin
  <2> QED BY <2>1, ChosenType DEF Origins
<1>2. CASE S # {}
  <2> DEFINE d == CHOOSE c \in Controllers : DriveOf(c) = caps \cap Drive
  <2>1. d \in Controllers /\ DriveOf(d) = caps \cap Drive
    BY <1>2
  <2>2. ChosenOrigin(caps) = Chosen(d)
    BY <1>2 DEF ChosenOrigin
  <2> HIDE DEF d
  <2> QED BY <2>1, <2>2, ChosenType, ChosenInjective
<1> QED BY <1>1, <1>2

\* A lease whose origin is not a choice is canonical as soon as it permits
\* something.
LEMMA UnchosenCanonical ==
  ASSUME NEW l \in Lease, l.caps # {},
         l.origin \in {"inbound", "outbound-dial", "migrated"}
  PROVE  Canonical(l)
BY ChosenType DEF Canonical

----------------------------------------------------------------------------
(* Merging an approval into the lease in force *)

\* An approval merged into the lease in force (issue_lease) is a lease the load
\* door accepts, confirmed as the one in force was.
LEMMA MergedLease ==
  ASSUME NEW held \in Lease, NEW fresh \in Lease, held.caps # {}, Canonical(fresh)
  PROVE  /\ Merged(held, fresh) \in Lease
         /\ Canonical(Merged(held, fresh))
         /\ Merged(held, fresh).confirmed = held.confirmed
         /\ Merged(held, fresh).caps = held.caps \cup GrantedOver(held, fresh)
<1> DEFINE caps == held.caps \cup GrantedOver(held, fresh)
<1> DEFINE origin == IF caps = fresh.caps THEN fresh.origin
                     ELSE IF fresh.origin \in {Chosen(c) : c \in Controllers}
                          THEN ChosenOrigin(caps) ELSE OriginOf(caps)
<1>1. caps \in SUBSET Caps /\ caps # {}
  BY DEF Lease, GrantedOver
<1>2. Merged(held, fresh) =
        [caps |-> caps, origin |-> origin, issued_at |-> fresh.issued_at,
         clipboard_chosen |-> held.clipboard_chosen, confirmed |-> held.confirmed]
  BY DEF Merged
<1>3. origin \in Origins
  BY <1>1, ChosenOriginFits, OriginOfType DEF Lease, Origins
<1>4. \A c \in Controllers : origin = Chosen(c) => caps \cap Drive = DriveOf(c)
  <2>1. CASE caps = fresh.caps
    BY <2>1 DEF Canonical
  <2>2. CASE caps # fresh.caps /\ fresh.origin \in {Chosen(c) : c \in Controllers}
    BY <2>2, <1>1, ChosenOriginFits
  <2>3. CASE caps # fresh.caps /\ fresh.origin \notin {Chosen(c) : c \in Controllers}
    BY <2>3, OriginOfType, ChosenType
  <2> QED BY <2>1, <2>2, <2>3
<1> HIDE DEF caps, origin
<1>5. Merged(held, fresh) \in Lease
  BY <1>1, <1>2, <1>3 DEF Lease
<1>6. Merged(held, fresh).caps = caps /\ Merged(held, fresh).origin = origin
  BY <1>2 DEF Lease
<1>7. Merged(held, fresh).confirmed = held.confirmed
  BY <1>2 DEF Lease
<1> QED BY <1>1, <1>4, <1>5, <1>6, <1>7 DEF Canonical, caps

----------------------------------------------------------------------------
(* The invariant *)

\* The time the store answers by is one of the readings.
LEMMA NowType == TypeOK => Now \in Time
BY DEF TypeOK, Now

\* The blank record grants nothing.
LEMMA NoLeaseType == NoLease \in Lease /\ NoLease.caps = {} /\ ~NoLease.confirmed
<1>1. 0 \in Time
  BY ConstantsAssumption DEF Time
<1> QED BY <1>1 DEF NoLease, Lease, Origins, Caps

\* A store just made satisfies the invariant.
LEMMA InitInv == StoreInit => StoreInv
<1> SUFFICES ASSUME StoreInit PROVE StoreInv
  OBVIOUS
<1>1. TypeOK
  BY NoLeaseType DEF StoreInit, TypeOK
<1> QED
  BY <1>1, NoLeaseType
  DEF StoreInit, StoreInv, UnknownIsBlank, EveryHeldLeaseReloads, IsKnown,
      HoldsExactlyWhatWasSaid, PairAgainHoldsNoPairing

\* What every verb comes down to: it replaces one machine's lease by one that
\* is canonical or blank, keeps the history in step, and does not leave a
\* confirmed lease listed to be paired again.
LEMMA ReplaceOne ==
  ASSUME StoreInv, NEW p \in Peers, NEW l \in Lease, NEW s \in SUBSET Caps,
         l = NoLease \/ Canonical(l),
         l.caps = s,
         pairAgain' \subseteq pairAgain,
         l.confirmed => p \notin pairAgain',
         entries' = [entries EXCEPT ![p] = l],
         said' = [said EXCEPT ![p] = s],
         floor' \in Time, sys' \in Time
  PROVE  StoreInv'
<1>1. TypeOK'
  BY DEF StoreInv, TypeOK
<1>2. UnknownIsBlank'
  BY DEF StoreInv, UnknownIsBlank, Canonical, TypeOK
<1>3. EveryHeldLeaseReloads'
  BY DEF StoreInv, EveryHeldLeaseReloads, IsKnown, TypeOK
<1>4. HoldsExactlyWhatWasSaid'
  BY DEF StoreInv, HoldsExactlyWhatWasSaid, TypeOK
<1>5. PairAgainHoldsNoPairing'
  BY DEF StoreInv, PairAgainHoldsNoPairing, TypeOK
<1> QED BY <1>1, <1>2, <1>3, <1>4, <1>5 DEF StoreInv

\* A step that changes no lease and no history only has to keep the two
\* tables apart and the clock in range.
LEMMA KeepLeases ==
  ASSUME StoreInv, entries' = entries, said' = said,
         pairAgain' \subseteq Peers,
         \A p \in pairAgain' : ~entries[p].confirmed,
         floor' \in Time, sys' \in Time
  PROVE  StoreInv'
BY DEF StoreInv, TypeOK, UnknownIsBlank, EveryHeldLeaseReloads, IsKnown,
       HoldsExactlyWhatWasSaid, PairAgainHoldsNoPairing

\* issue and issue_answered keep the invariant, whether they replace or merge.
LEMMA IssueLeaseInv ==
  ASSUME StoreInv, NEW p \in Peers, NEW caps \in SUBSET Caps, NEW origin \in Origins,
         NEW chosen \in BOOLEAN, IssueLease(p, caps, origin, chosen)
  PROVE  StoreInv'
<1> DEFINE fresh == FreshLease(caps, origin, chosen)
<1>1. fresh \in Lease /\ fresh.caps = caps /\ ~fresh.confirmed
  BY NowType DEF FreshLease, Lease, StoreInv
<1>2. Canonical(fresh)
  BY DEF IssueLease
<1>3. entries[p] \in Lease /\ floor' \in Time /\ sys' \in Time
  BY DEF StoreInv, TypeOK, IssueLease
<1> HIDE DEF fresh
<1>4. CASE InForce(p)
  <2> DEFINE l == Merged(entries[p], fresh)
  <2>1. entries[p].caps # {} /\ entries[p].confirmed
    BY <1>4 DEF InForce, EffectiveCapabilities
  <2>2. /\ l \in Lease
        /\ Canonical(l)
        /\ l.confirmed = entries[p].confirmed
        /\ l.caps = entries[p].caps \cup GrantedOver(entries[p], fresh)
    BY <1>1, <1>2, <1>3, <2>1, MergedLease
  <2>3. /\ Admit(p, l)
        /\ said' = [said EXCEPT ![p] = said[p] \cup GrantedOver(entries[p], fresh)]
    BY <1>4 DEF IssueLease, LeaseToHold, fresh
  <2>4. entries[p].caps = said[p]
    BY DEF StoreInv, HoldsExactlyWhatWasSaid
  <2>5. l.caps \in SUBSET Caps /\ said' = [said EXCEPT ![p] = l.caps]
    BY <2>2, <2>3, <2>4 DEF Lease
  <2> HIDE DEF l
  <2>6. pairAgain' = pairAgain \ {p} /\ entries' = [entries EXCEPT ![p] = l]
    BY <2>1, <2>2, <2>3 DEF Admit
  <2>7. pairAgain' \subseteq pairAgain /\ p \notin pairAgain'
    BY <2>6
  <2> QED BY <1>3, <2>2, <2>5, <2>6, <2>7, ReplaceOne
<1>5. CASE ~InForce(p)
  <2>1. /\ Admit(p, fresh)
        /\ said' = [said EXCEPT ![p] = caps]
    BY <1>5 DEF IssueLease, LeaseToHold, fresh
  <2>2. pairAgain' = pairAgain /\ entries' = [entries EXCEPT ![p] = fresh]
    BY <1>1, <2>1 DEF Admit
  <2>3. pairAgain' \subseteq pairAgain
    BY <2>2
  <2> QED BY <1>1, <1>2, <1>3, <2>1, <2>2, <2>3, ReplaceOne
<1> QED BY <1>4, <1>5

\* The verbs the daemon calls, each on one machine.
Verb(p) ==
  \/ \E c \in Controllers, cb \in BOOLEAN : IssueAnswered(p, c, cb)
  \/ Confirm(p)
  \/ ForgetUnconfirmed(p)
  \/ Forget(p)
  \/ DisableClipboard(p)
  \/ EnableClipboard(p)

\* Each of them keeps the invariant.
LEMMA VerbInv ==
  ASSUME StoreInv, NEW p \in Peers, Verb(p)
  PROVE  StoreInv'
<1>1. TypeOK /\ floor \in Time /\ sys \in Time /\ Now \in Time
  BY NowType DEF StoreInv, TypeOK
<1> DEFINE held == entries[p]
<1>0. /\ held \in Lease
      /\ held.caps = said[p]
      /\ held.caps = {} => held = NoLease
      /\ IsKnown(p) => Canonical(held)
      /\ IsKnown(p) <=> held.caps # {}
  BY NoLeaseType
  DEF StoreInv, TypeOK, HoldsExactlyWhatWasSaid, UnknownIsBlank,
      EveryHeldLeaseReloads, IsKnown
<1>2. CASE \E c \in Controllers, cb \in BOOLEAN : IssueAnswered(p, c, cb)
  <2> PICK c \in Controllers, cb \in BOOLEAN : IssueAnswered(p, c, cb)
    BY <1>2
  <2>1. AnsweredCaps(c, cb) \in SUBSET Caps
    BY DriveOfType, ClipboardType DEF AnsweredCaps, Caps, Drive, Clipboard
  <2> QED BY <2>1, IssueLeaseInv, ChosenType DEF IssueAnswered
<1>3. CASE Confirm(p)
  <2> DEFINE l == [held EXCEPT !.confirmed = TRUE]
  <2>1. l \in Lease /\ l.caps = held.caps /\ Canonical(l)
    BY <1>0, <1>3 DEF Lease, Canonical, Confirm
  <2>2. entries' = [entries EXCEPT ![p] = l]
    BY <1>3 DEF Confirm
  <2>3. said' = [said EXCEPT ![p] = held.caps]
    BY <1>0, <1>3, <1>1 DEF Confirm, TypeOK
  <2>4. /\ pairAgain' \subseteq pairAgain /\ p \notin pairAgain'
        /\ floor' \in Time /\ sys' \in Time
    BY <1>3, <1>1 DEF Confirm
  <2>5. held.caps \in SUBSET Caps
    BY <1>0 DEF Lease
  <2> HIDE DEF l, held
  <2> QED BY <2>1, <2>2, <2>3, <2>4, <2>5, ReplaceOne
<1>4. CASE ForgetUnconfirmed(p)
  BY <1>1, <1>4, NoLeaseType, ReplaceOne DEF ForgetUnconfirmed
<1>5. CASE Forget(p)
  BY <1>1, <1>5, NoLeaseType, ReplaceOne DEF Forget
<1>7. CASE DisableClipboard(p)
  <2> DEFINE l == ClipboardOff(held)
  <2>1. CASE held.caps \subseteq Clipboard
    <3>1. l = NoLease /\ said[p] \ Clipboard = {}
      BY <2>1, <1>0 DEF ClipboardOff
    <3>2. /\ entries' = [entries EXCEPT ![p] = NoLease]
          /\ said' = [said EXCEPT ![p] = {}]
          /\ pairAgain' = pairAgain /\ floor' = floor /\ sys' = sys
      BY <3>1, <1>7 DEF DisableClipboard
    <3> QED BY <1>1, <3>2, NoLeaseType, ReplaceOne
  <2>2. CASE ~(held.caps \subseteq Clipboard)
    <3>1. l = [caps |-> held.caps \ Clipboard, origin |-> held.origin,
               issued_at |-> held.issued_at, clipboard_chosen |-> TRUE,
               confirmed |-> held.confirmed]
      BY <2>2 DEF ClipboardOff
    <3>2. /\ l \in Lease /\ l.caps = held.caps \ Clipboard /\ l.caps # {}
          /\ l.origin = held.origin /\ l.confirmed = held.confirmed
      BY <3>1, <1>0, <2>2 DEF Lease
    <3>3. l.caps \cap Drive = held.caps \cap Drive
      BY <3>2 DEF Drive, Clipboard
    <3>4. Canonical(l)
      BY <3>2, <3>3, <1>0, <1>7 DEF Canonical, DisableClipboard
    <3>5. /\ entries' = [entries EXCEPT ![p] = l]
          /\ said' = [said EXCEPT ![p] = l.caps]
          /\ pairAgain' = pairAgain /\ floor' = floor /\ sys' = sys
      BY <3>2, <1>0, <1>7 DEF DisableClipboard
    <3>6. l.confirmed => p \notin pairAgain'
      BY <3>2, <3>5 DEF StoreInv, PairAgainHoldsNoPairing
    <3>7. l.caps \in SUBSET Caps
      BY <3>2 DEF Lease
    <3> HIDE DEF l, held
    <3> QED BY <1>1, <3>2, <3>4, <3>5, <3>6, <3>7, ReplaceOne
  <2> QED BY <2>1, <2>2
<1>8. CASE EnableClipboard(p)
  <2> DEFINE l == ClipboardOn(held)
  <2>1. /\ l.caps = held.caps \cup ExistingPairingClipboard(held.caps)
        /\ l.origin = held.origin /\ l.confirmed = held.confirmed
    BY DEF ClipboardOn
  <2>2. l \in Lease /\ l.caps \in SUBSET Caps
    BY <1>0, ClipboardType DEF ClipboardOn, Lease, Caps, Clipboard
  <2>3. held.caps # {}
    BY <1>8 DEF EnableClipboard, InForce, EffectiveCapabilities
  <2>4. l.caps # {} /\ l.caps \cap Drive = held.caps \cap Drive
    BY <2>1, <2>3, ClipboardType DEF Drive, Clipboard
  <2>5. Canonical(l)
    BY <1>0, <2>1, <2>3, <2>4 DEF Canonical
  <2>6. /\ entries' = [entries EXCEPT ![p] = l]
        /\ said' = [said EXCEPT ![p] = l.caps]
        /\ pairAgain' = pairAgain /\ floor' = floor /\ sys' = sys
    BY <2>1, <1>0, <1>8 DEF EnableClipboard
  <2>7. l.confirmed => p \notin pairAgain'
    BY <2>1, <2>6 DEF StoreInv, PairAgainHoldsNoPairing
  <2> HIDE DEF l, held
  <2> QED BY <1>1, <2>2, <2>5, <2>6, <2>7, ReplaceOne
<1> QED BY <1>2, <1>3, <1>4, <1>5, <1>7, <1>8 DEF Verb

\* Every verb and every clock reading keeps the invariant.
LEMMA NextInv ==
  ASSUME StoreInv, NarrowsClipboardOnly, [StoreNext]_storeVars
  PROVE  StoreInv'
<1>0. TypeOK /\ floor \in Time /\ sys \in Time /\ Now \in Time
  BY NowType DEF StoreInv, TypeOK
<1>1. ASSUME NEW p \in Peers, PeerNext(p) PROVE StoreInv'
  <2> DEFINE held == entries[p]
  <2>0. /\ held \in Lease
        /\ held.caps = said[p]
        /\ held.caps = {} => held = NoLease
        /\ IsKnown(p) => Canonical(held)
        /\ IsKnown(p) <=> held.caps # {}
    BY <1>1, NoLeaseType
    DEF StoreInv, TypeOK, HoldsExactlyWhatWasSaid, UnknownIsBlank,
        EveryHeldLeaseReloads, IsKnown
  <2>1. CASE \E caps \in SUBSET Caps : Issue(p, caps)
    BY <1>1, <2>1, IssueLeaseInv, OriginOfType DEF Issue, Origins
  <2>2. CASE Verb(p)
    BY <1>1, <2>2, VerbInv
  <2>6. CASE \E drop \in Narrowings : DropCapabilities(p, drop)
    <3> PICK drop \in Narrowings : DropCapabilities(p, drop)
      BY <2>6
    <3> DEFINE l == Narrowed(held, drop)
    <3>1. drop \subseteq Clipboard
      BY DEF NarrowsClipboardOnly
    <3>2. CASE held.caps \subseteq drop
      <4>1. l = NoLease /\ said[p] \ drop = {}
        BY <3>2, <2>0 DEF Narrowed
      <4>2. /\ entries' = [entries EXCEPT ![p] = NoLease]
            /\ said' = [said EXCEPT ![p] = {}]
            /\ pairAgain' = pairAgain /\ floor' = floor /\ sys' = sys
        BY <4>1 DEF DropCapabilities
      <4> QED BY <1>0, <1>1, <4>2, NoLeaseType, ReplaceOne
    <3>3. CASE ~(held.caps \subseteq drop)
      <4>1. l = [held EXCEPT !.caps = held.caps \ drop]
        BY <3>3 DEF Narrowed
      <4>2. /\ l \in Lease /\ l.caps = held.caps \ drop /\ l.caps # {}
            /\ l.origin = held.origin /\ l.confirmed = held.confirmed
        BY <4>1, <2>0, <3>3 DEF Lease
      <4>3. l.caps \cap Drive = held.caps \cap Drive
        BY <4>2, <3>1 DEF Drive, Clipboard
      <4>4. Canonical(l)
        BY <4>2, <4>3, <2>0 DEF Canonical, DropCapabilities
      <4>5. /\ entries' = [entries EXCEPT ![p] = l]
            /\ said' = [said EXCEPT ![p] = l.caps]
            /\ pairAgain' = pairAgain /\ floor' = floor /\ sys' = sys
        BY <4>2, <2>0 DEF DropCapabilities
      <4>6. l.confirmed => p \notin pairAgain'
        BY <4>2, <4>5 DEF StoreInv, PairAgainHoldsNoPairing
      <4>7. l.caps \in SUBSET Caps
        BY <4>2 DEF Lease
      <4> HIDE DEF l, held
      <4> QED BY <1>0, <1>1, <4>2, <4>4, <4>5, <4>6, <4>7, ReplaceOne
    <3> QED BY <3>2, <3>3
  <2>9. CASE Renew(p)
    <3> DEFINE t == IF Now < held.issued_at THEN Now ELSE held.issued_at
    <3> DEFINE l == [held EXCEPT !.issued_at = t]
    <3>1. t \in Time
      BY <1>0, <2>0 DEF Lease
    <3>2. /\ l \in Lease /\ l.caps = held.caps
          /\ l.origin = held.origin /\ l.confirmed = held.confirmed
      BY <2>0, <3>1 DEF Lease
    <3>3. Canonical(l)
      BY <2>0, <2>9, <3>2 DEF Canonical, Renew
    <3>4. entries' = [entries EXCEPT ![p] = l]
      BY <2>9 DEF Renew
    <3>5. said' = [said EXCEPT ![p] = held.caps]
      BY <2>0, <2>9, <1>0 DEF Renew, TypeOK
    <3>6. pairAgain' = pairAgain /\ floor' = floor /\ sys' = sys
      BY <2>9 DEF Renew
    <3>7. l.confirmed => p \notin pairAgain'
      BY <3>2, <3>6 DEF StoreInv, PairAgainHoldsNoPairing
    <3>8. held.caps \in SUBSET Caps
      BY <2>0 DEF Lease
    <3> HIDE DEF l, held
    <3> QED BY <1>0, <1>1, <3>2, <3>3, <3>4, <3>5, <3>6, <3>7, <3>8, ReplaceOne
  <2>10. CASE ListToPairAgain(p)
    <3>1. ~held.confirmed
      BY <2>0, <2>10, NoLeaseType DEF ListToPairAgain, IsKnown
    <3>2. \A q \in pairAgain' : ~entries[q].confirmed
      BY <3>1, <2>10 DEF ListToPairAgain, StoreInv, PairAgainHoldsNoPairing
    <3>3. pairAgain' \subseteq Peers
      BY <1>1, <2>10, <1>0 DEF ListToPairAgain, TypeOK
    <3> QED BY <1>0, <2>10, <3>2, <3>3, KeepLeases DEF ListToPairAgain
  <2> QED
    BY <1>1, <2>1, <2>2, <2>6, <2>9, <2>10 DEF PeerNext, Verb
<1>2. CASE Sweep
  BY <1>0, <1>2, KeepLeases DEF Sweep, StoreInv, PairAgainHoldsNoPairing, TypeOK
<1>3. CASE \E t \in Time : ClockReads(t)
  BY <1>0, <1>3, KeepLeases DEF ClockReads, StoreInv, PairAgainHoldsNoPairing, TypeOK
<1>4. CASE UNCHANGED storeVars
  BY <1>0, <1>4, KeepLeases DEF storeVars, StoreInv, PairAgainHoldsNoPairing, TypeOK
<1> QED BY <1>1, <1>2, <1>3, <1>4 DEF StoreNext

\* Whatever the order of approvals, confirmations, removals, switches and
\* clock changes, the store holds exactly what was said, in a form its load
\* door accepts, and no machine is both paired and listed to be paired again.
THEOREM StoreInvariant == NarrowsClipboardOnly => (StoreSpec => []StoreInv)
<1> SUFFICES ASSUME NarrowsClipboardOnly PROVE StoreSpec => []StoreInv
  OBVIOUS
<1>1. StoreInit => StoreInv
  BY InitInv
<1>2. StoreInv /\ [StoreNext]_storeVars => StoreInv'
  BY NextInv
<1> QED BY <1>1, <1>2, PTL DEF StoreSpec

\* A pairing grants exactly what a person here said yes to and has not taken
\* back, in any order of approvals and switches (issue_lease,
\* disable_clipboard, enable_clipboard).
THEOREM GrantsWhatWasSaid ==
  NarrowsClipboardOnly => (StoreSpec => []HoldsExactlyWhatWasSaid)
<1>1. StoreInv => HoldsExactlyWhatWasSaid
  BY DEF StoreInv
<1> QED
  BY <1>1, StoreInvariant, PTL

\* The load door accepts every lease the verbs can make
\* (Lease::canonicalized).
THEOREM LeasesReload ==
  NarrowsClipboardOnly => (StoreSpec => []EveryHeldLeaseReloads)
<1>1. StoreInv => EveryHeldLeaseReloads
  BY DEF StoreInv
<1> QED
  BY <1>1, StoreInvariant, PTL

----------------------------------------------------------------------------
(* What a pairing in force goes on granting *)

\* A pairing in force stays confirmed, or something said is taken back.
LEMMA StaysConfirmed ==
  ASSUME StoreInv, StoreInv', [StoreNext]_storeVars, NEW q \in Peers, InForce(q),
         said[q] \subseteq said'[q]
  PROVE  entries'[q].confirmed
<1>1. /\ entries \in [Peers -> Lease] /\ said \in [Peers -> SUBSET Caps]
      /\ entries' \in [Peers -> Lease] /\ said' \in [Peers -> SUBSET Caps]
  BY DEF StoreInv, TypeOK
<1>2. entries[q].confirmed /\ entries[q].caps = said[q] /\ said[q] # {}
  BY DEF InForce, EffectiveCapabilities, StoreInv, HoldsExactlyWhatWasSaid
<1>3. entries'[q].caps = said'[q] /\ said'[q] # {}
  BY <1>2 DEF StoreInv, HoldsExactlyWhatWasSaid
<1>4. entries'[q] # NoLease
  BY <1>3, NoLeaseType
<1>5. ASSUME NEW p \in Peers, PeerNext(p) PROVE entries'[q].confirmed
  <2>1. CASE p # q
    <3>1. entries'[q] = entries[q]
      BY <1>1, <1>5, <2>1
      DEF PeerNext, Issue, IssueAnswered, IssueLease, Admit, Confirm, ForgetUnconfirmed,
          Forget, DropCapabilities, DisableClipboard, EnableClipboard, Renew, ListToPairAgain
    <3> QED BY <1>2, <3>1
  <2>2. CASE p = q
    <3>1. ASSUME NEW caps, NEW origin, NEW chosen, IssueLease(q, caps, origin, chosen)
          PROVE  entries'[q].confirmed
      <4>1. entries'[q] = Merged(entries[q], FreshLease(caps, origin, chosen))
        BY <1>1, <3>1 DEF IssueLease, Admit, LeaseToHold
      <4> QED BY <1>2, <4>1 DEF Merged
    <3>2. CASE \E caps \in SUBSET Caps : Issue(q, caps)
      BY <3>1, <3>2 DEF Issue
    <3>3. CASE \E c \in Controllers, cb \in BOOLEAN : IssueAnswered(q, c, cb)
      BY <3>1, <3>3 DEF IssueAnswered
    <3>4. CASE Confirm(q) \/ ForgetUnconfirmed(q) \/ Forget(q)
      BY <1>1, <1>2, <1>4, <3>4 DEF Confirm, ForgetUnconfirmed, Forget, Lease
    <3>5. CASE \E drop \in Narrowings : DropCapabilities(q, drop)
      BY <1>1, <1>2, <1>4, <3>5 DEF DropCapabilities, Narrowed, Lease
    <3>6. CASE DisableClipboard(q)
      BY <1>1, <1>2, <1>4, <3>6 DEF DisableClipboard, ClipboardOff
    <3>7. CASE EnableClipboard(q)
      BY <1>1, <1>2, <3>7 DEF EnableClipboard, ClipboardOn
    <3>8. CASE Renew(q) \/ ListToPairAgain(q)
      BY <1>1, <1>2, <3>8 DEF Renew, ListToPairAgain, Lease
    <3> QED
      BY <1>5, <2>2, <3>2, <3>3, <3>4, <3>5, <3>6, <3>7, <3>8 DEF PeerNext
  <2> QED BY <2>1, <2>2
<1>6. CASE Sweep \/ (\E t \in Time : ClockReads(t)) \/ UNCHANGED storeVars
  BY <1>2, <1>6 DEF Sweep, ClockReads, storeVars
<1> QED BY <1>5, <1>6 DEF StoreNext

\* No approval, merge, renewal or sweep takes away what a pairing in force
\* grants: only a person who takes it back does, or a clock set to before the
\* pairing was made (issue_lease, #166).
THEOREM GrantsStay ==
  NarrowsClipboardOnly => (StoreSpec => GrantsOutliveApprovals)
<1> DEFINE Kept == \A p \in Peers :
                     EffectiveCapabilities(p) \subseteq EffectiveCapabilities(p)'
                       \/ ~(said[p] \subseteq said'[p])
                       \/ ~IsValid(entries[p])'
<1>1. ASSUME StoreInv, StoreInv', [StoreNext]_storeVars PROVE Kept
  <2> SUFFICES ASSUME NEW p \in Peers, said[p] \subseteq said'[p], IsValid(entries[p])',
                      InForce(p)
               PROVE  EffectiveCapabilities(p) \subseteq EffectiveCapabilities(p)'
    BY DEF InForce
  <2>1. entries'[p].confirmed
    BY <1>1, StaysConfirmed
  <2>2. entries[p].caps \subseteq entries'[p].caps
    BY <1>1 DEF StoreInv, HoldsExactlyWhatWasSaid
  <2>3. EffectiveCapabilities(p) \subseteq entries[p].caps
    BY DEF EffectiveCapabilities
  <2>4. EffectiveCapabilities(p)' = entries'[p].caps
    BY <2>1 DEF EffectiveCapabilities
  <2> QED BY <2>2, <2>3, <2>4
<1>2. StoreInv /\ StoreInv' /\ [StoreNext]_storeVars => [Kept]_storeVars
  BY <1>1
<1> QED
  BY <1>2, StoreInvariant, PTL DEF StoreSpec, GrantsOutliveApprovals

----------------------------------------------------------------------------
(* One lease on disk and back *)

\* The clipboard an absent field loads as depends on the drive bits alone.
LEMMA ClipboardFollowsDrive ==
  ASSUME NEW caps \in SUBSET Caps
  PROVE  ExistingPairingClipboard(caps \cap Drive) = ExistingPairingClipboard(caps)
BY DEF ExistingPairingClipboard, Drive, Clipboard, Caps

\* The row of a lease holds exactly its capabilities: the drive bits in one
\* field, the clipboard in the other or in the other's absence.
LEMMA RowKeepsCaps ==
  ASSUME NEW l \in Lease
  PROVE  RowCaps(ActiveRow(l)) = l.caps
<1>1. l.caps \in SUBSET Caps
  BY DEF Lease
<1>2. Caps = Drive \cup Clipboard
  BY DEF Caps, Drive, Clipboard
<1>3. RowCaps(ActiveRow(l)) =
        (l.caps \cap Drive) \cup
          (IF WritesClipboard(l) THEN l.caps \cap Clipboard
           ELSE ExistingPairingClipboard(l.caps \cap Drive))
  BY DEF RowCaps, ActiveRow
<1>4. CASE WritesClipboard(l)
  BY <1>1, <1>2, <1>3, <1>4
<1>5. CASE ~WritesClipboard(l)
  <2>1. l.caps \cap Clipboard = ExistingPairingClipboard(l.caps)
    BY <1>5 DEF WritesClipboard
  <2> QED
    BY <1>1, <1>2, <1>3, <1>5, <2>1, ClipboardFollowsDrive
<1> QED
  BY <1>4, <1>5

\* The row of a lease the load door accepts is rebuilt as that lease when it
\* is confirmed, and as nothing when it is not.
LEMMA ActiveRowBack ==
  ASSUME NEW l \in Lease, Canonical(l)
  PROVE  /\ ActiveRow(l).state = "active"
         /\ ActiveRow(l).issued_at = l.issued_at
         /\ l.confirmed =>
              /\ RebuiltLease(ActiveRow(l)).caps = l.caps
              /\ RebuiltLease(ActiveRow(l)).origin = l.origin
              /\ RebuiltLease(ActiveRow(l)).issued_at = l.issued_at
              /\ RebuiltLease(ActiveRow(l)).confirmed
         /\ ~l.confirmed => RebuiltLease(ActiveRow(l)) = NoLease
<1> DEFINE r == ActiveRow(l)
           b == [caps |-> RowCaps(r), origin |-> r.origin, issued_at |-> r.issued_at,
                 clipboard_chosen |-> r.has_clipboard, confirmed |-> TRUE]
<1>1. /\ r.state = "active"
      /\ r.origin = l.origin /\ r.issued_at = l.issued_at
  BY DEF ActiveRow
<1>2. r.confirmed = l.confirmed
  BY DEF ActiveRow
<1>3. RowCaps(r) = l.caps
  BY RowKeepsCaps
<1>4. RebuiltLease(r) = IF r.state = "active" /\ r.confirmed /\ Canonical(b) THEN b ELSE NoLease
  BY DEF RebuiltLease
<1> HIDE DEF r
<1>5. b.caps = l.caps /\ b.origin = l.origin /\ b.issued_at = l.issued_at /\ b.confirmed
  BY <1>1, <1>3
<1>6. Canonical(b)
  BY <1>5 DEF Canonical
<1> HIDE DEF b
<1>7. l.confirmed => RebuiltLease(r) = b
  BY <1>1, <1>2, <1>4, <1>6
<1>8. ~l.confirmed => RebuiltLease(r) = NoLease
  BY <1>2, <1>4
<1> QED
  BY <1>1, <1>5, <1>7, <1>8 DEF r

\* What a row of the file is rebuilt as: nothing, or a confirmed lease the
\* load door accepts, made at the time the row carries.
LEMMA RebuiltType ==
  ASSUME NEW r \in Row
  PROVE  /\ RebuiltLease(r) \in Lease
         /\ RebuiltLease(r) # NoLease =>
              /\ r.state = "active"
              /\ Canonical(RebuiltLease(r))
              /\ RebuiltLease(r).confirmed
              /\ RebuiltLease(r).issued_at = r.issued_at
<1> DEFINE b == [caps |-> RowCaps(r), origin |-> r.origin, issued_at |-> r.issued_at,
                 clipboard_chosen |-> r.has_clipboard, confirmed |-> TRUE]
<1>1. RowCaps(r) \in SUBSET Caps
  BY ClipboardType DEF RowCaps, Row, Caps, Drive, Clipboard
<1>2. r.origin \in Origins /\ r.issued_at \in Time /\ r.has_clipboard \in BOOLEAN
  BY DEF Row
<1>3. b \in Lease
  BY <1>1, <1>2 DEF Lease
<1>4. b.confirmed /\ b.issued_at = r.issued_at
  OBVIOUS
<1>5. RebuiltLease(r) = IF r.state = "active" /\ r.confirmed /\ Canonical(b) THEN b ELSE NoLease
  BY DEF RebuiltLease
<1> HIDE DEF b
<1> QED
  BY <1>3, <1>4, <1>5, NoLeaseType

\* The row written for a machine, from its lease and whether it is listed to
\* be paired again.
RowOf(l, again) ==
  IF l # NoLease /\ (l.confirmed \/ ~again) THEN ActiveRow(l)
  ELSE IF again THEN [NoRow EXCEPT !.state = "pair-again"]
  ELSE NoRow

\* What a lease grants, the clock aside.
Granted(l) == IF l.confirmed THEN l.caps ELSE {}

\* The row of a lease is a row of the file.
LEMMA ActiveRowType == ASSUME NEW l \in Lease PROVE ActiveRow(l) \in Row
<1>1. /\ l.caps \cap Drive \in SUBSET Drive /\ l.caps \cap Clipboard \in SUBSET Clipboard
      /\ l.origin \in Origins /\ l.issued_at \in Time
  BY DEF Lease
<1>2. l.confirmed \in BOOLEAN /\ l.clipboard_chosen \in BOOLEAN
  BY DEF Lease
<1>3. WritesClipboard(l) \in BOOLEAN
  BY <1>2 DEF WritesClipboard
<1>4. (IF WritesClipboard(l) THEN l.caps \cap Clipboard ELSE {}) \in SUBSET Clipboard
  BY <1>1
<1> QED
  BY <1>1, <1>2, <1>3, <1>4 DEF ActiveRow, Row

\* A blank row, and a listing to be paired again, are rows that grant nothing.
LEMMA BlankRows ==
  /\ NoRow \in Row /\ NoRow.state = "none" /\ RebuiltLease(NoRow) = NoLease
  /\ [NoRow EXCEPT !.state = "pair-again"] \in Row
  /\ [NoRow EXCEPT !.state = "pair-again"].state = "pair-again"
  /\ RebuiltLease([NoRow EXCEPT !.state = "pair-again"]) = NoLease
<1>1. 0 \in Time
  BY ConstantsAssumption DEF Time
<1>2. NoRow \in Row /\ NoRow.state = "none"
  BY <1>1 DEF NoRow, Row, Origins
<1>3. /\ [NoRow EXCEPT !.state = "pair-again"] \in Row
      /\ [NoRow EXCEPT !.state = "pair-again"].state = "pair-again"
  BY <1>2 DEF Row
<1> QED
  BY <1>2, <1>3 DEF RebuiltLease

\* The row written for a machine grants, once read back, what its lease does.
LEMMA RowBack ==
  ASSUME NEW l \in Lease, l = NoLease \/ Canonical(l), NEW again \in BOOLEAN,
         ~(l.confirmed /\ again)
  PROVE  /\ RowOf(l, again) \in Row
         /\ RebuiltLease(RowOf(l, again)).caps = Granted(l)
<1>1. CASE l # NoLease /\ ~again
  BY <1>1, ActiveRowBack, ActiveRowType, NoLeaseType DEF RowOf, Granted
<1>2. CASE ~(l # NoLease /\ ~again)
  <2>1. ~l.confirmed
    BY <1>2, NoLeaseType
  <2>2. RowOf(l, again) = IF again THEN [NoRow EXCEPT !.state = "pair-again"] ELSE NoRow
    BY <1>2, <2>1 DEF RowOf
  <2> QED
    BY <2>1, <2>2, BlankRows, NoLeaseType DEF Granted
<1> QED
  BY <1>1, <1>2

\* The store's invariant is all the round trip needs: that each lease held is
\* one the load door accepts, and that a confirmed one is not also listed to
\* be paired again, which would be written in its place.
LEMMA InvariantRoundTrips == StoreInv => PairingRoundTrips
<1> SUFFICES ASSUME StoreInv, NEW p \in Peers, entries[p].confirmed
             PROVE  LET back == RebuiltLease(RecordOf(p)) IN
                    /\ back.caps = entries[p].caps
                    /\ back.origin = entries[p].origin
                    /\ back.issued_at = entries[p].issued_at
                    /\ back.confirmed
  BY DEF PairingRoundTrips
<1>1. entries[p] \in Lease
  BY DEF StoreInv, TypeOK
<1>2. IsKnown(p)
  BY DEF IsKnown, NoLease
<1>3. Canonical(entries[p])
  BY <1>2 DEF StoreInv, EveryHeldLeaseReloads
<1>4. RecordOf(p) = ActiveRow(entries[p])
  BY <1>2 DEF RecordOf
<1> QED
  BY <1>1, <1>3, <1>4, ActiveRowBack

\* What a restart makes of a confirmed pairing is that pairing, for any number
\* of machines and any clock, as long as nothing narrows a drive bit.
THEOREM RoundTrip == NarrowsClipboardOnly => (StoreSpec => []PairingRoundTrips)
BY StoreInvariant, InvariantRoundTrips, PTL

----------------------------------------------------------------------------
(* The invariant *)

\* What the two files, the table and the daemon's memory hold.
DiskType ==
  /\ installed \in BOOLEAN
  /\ rows \in [Peers -> Row]
  /\ diskSeconds \in Time /\ fileSeconds = diskSeconds
  /\ table \in Tables /\ writing \subseteq Tables /\ conf \in Tables
  /\ listed \subseteq Peers /\ listedFile \subseteq Peers
  /\ phase \in {"down", "starting", "up"}
  /\ unsaved \in {"no", "floor", "change"}
  /\ gone \in [Peers -> {"no", "asked", "stands"}]

\* A daemon that has started has a store on disk and its record of the table
\* in memory as on disk; before the first store there is nothing to remove.
Booted ==
  /\ phase # "down" => installed /\ listed = listedFile
  /\ ~installed => \A p \in Peers : rows[p] = NoRow /\ gone[p] = "no"

\* Once the store is loaded, what it grants is what its disk would grant, or
\* the change is named.
Told ==
  (phase # "down" /\ unsaved # "change") =>
    \A p \in Peers : RebuiltLease(rows[p]).caps = Granted(entries[p])

Absent(p) == entries[p] = NoLease /\ p \notin pairAgain

\* A machine loaded at a start although it was removed, which the removals
\* read next take out again.
DueForRemoval(p) ==
  /\ conf.present /\ p \notin conf.lists
  /\ entries[p].confirmed /\ "drive-me" \in entries[p].caps
  /\ entries[p].issued_at <= floor

\* A removal that stands would survive a restart now, and has been made in
\* memory, or will be before the start has ended.
Standing(p) ==
  gone[p] = "stands" =>
    /\ SurvivesRestart(p)
    /\ phase = "up" => Absent(p)
    /\ phase = "starting" => (IF rows[p].state = "none" THEN Absent(p) ELSE DueForRemoval(p))

RemovalsStand == \A p \in Peers : Standing(p)

\* What every step keeps: none of the parts is kept without the others.
PersistInv == StoreInv /\ DiskType /\ Booted /\ Told /\ RemovalsStand

----------------------------------------------------------------------------
(* The store through the steps of the daemon *)

\* A store rebuilt from the file keeps its invariant: a row is a lease or a
\* listing, never both, and an older build's table lists machines the store
\* knows nothing of.
LEMMA StartLoadStore ==
  ASSUME StoreInv, DiskType, Booted, StartLoad
  PROVE  StoreInv'
<1>1. \A p \in Peers :
        /\ Rebuilt[p] \in Lease
        /\ Rebuilt[p] # NoLease => /\ rows[p].state = "active" /\ Canonical(Rebuilt[p])
  BY RebuiltType DEF DiskType, Rebuilt
<1>2. entries' = Rebuilt /\ said' = [p \in Peers |-> Rebuilt[p].caps]
  BY DEF StartLoad
<1>3. Rebuilt \in [Peers -> Lease]
  BY <1>1 DEF Rebuilt
<1>4. \A p \in Peers : Rebuilt[p].caps \in SUBSET Caps
  BY <1>1 DEF Lease
<1>5. said' \in [Peers -> SUBSET Caps]
  BY <1>2, <1>4
<1>6. floor' \in Time /\ sys' \in Time
  BY DEF StartLoad, Later, StoreInv, TypeOK, DiskType
<1>7. pairAgain' \subseteq Peers
  BY DEF StartLoad, RebuiltPairAgain, DiskType, Tables
<1>8. \A p \in pairAgain' : Rebuilt[p] = NoLease
  <2>1. CASE installed
    BY <1>1, <2>1 DEF StartLoad, RebuiltPairAgain
  <2>2. CASE ~installed
    BY <1>1, <1>7, <2>2, BlankRows DEF Booted
  <2> QED BY <2>1, <2>2
<1> HIDE DEF Rebuilt
<1>9. TypeOK'
  BY <1>2, <1>3, <1>5, <1>6, <1>7 DEF TypeOK
<1>10. UnknownIsBlank'
  BY <1>1, <1>2 DEF UnknownIsBlank, Canonical
<1>11. EveryHeldLeaseReloads'
  BY <1>1, <1>2 DEF EveryHeldLeaseReloads, IsKnown
<1>12. HoldsExactlyWhatWasSaid'
  BY <1>2 DEF HoldsExactlyWhatWasSaid
<1>13. PairAgainHoldsNoPairing'
  BY <1>2, <1>8, NoLeaseType DEF PairAgainHoldsNoPairing
<1> QED BY <1>9, <1>10, <1>11, <1>12, <1>13 DEF StoreInv

\* Forgetting any set of machines keeps the invariant.
LEMMA ForgetSetStore ==
  ASSUME StoreInv, NEW removed \in SUBSET Peers,
         entries' = [p \in Peers |-> IF p \in removed THEN NoLease ELSE entries[p]],
         said' = [p \in Peers |-> IF p \in removed THEN {} ELSE said[p]],
         pairAgain' \subseteq pairAgain,
         floor' \in Time, sys' \in Time
  PROVE  StoreInv'
<1>1. entries \in [Peers -> Lease] /\ said \in [Peers -> SUBSET Caps] /\ pairAgain \subseteq Peers
  BY DEF StoreInv, TypeOK
<1>2. entries' \in [Peers -> Lease]
  BY <1>1, NoLeaseType
<1>3. said' \in [Peers -> SUBSET Caps]
  BY <1>1
<1>4. TypeOK'
  BY <1>1, <1>2, <1>3 DEF TypeOK
<1>5. UnknownIsBlank'
  BY DEF StoreInv, UnknownIsBlank
<1>6. EveryHeldLeaseReloads'
  BY DEF StoreInv, EveryHeldLeaseReloads, IsKnown
<1>7. HoldsExactlyWhatWasSaid'
  BY NoLeaseType DEF StoreInv, HoldsExactlyWhatWasSaid
<1>8. PairAgainHoldsNoPairing'
  BY <1>1, NoLeaseType DEF StoreInv, PairAgainHoldsNoPairing
<1> QED BY <1>4, <1>5, <1>6, <1>7, <1>8 DEF StoreInv

\* Every step keeps the store's own invariant.
LEMMA StoreStep ==
  ASSUME StoreInv, DiskType, Booted, [Next]_vars
  PROVE  StoreInv'
<1>0. /\ entries \in [Peers -> Lease] /\ floor \in Time /\ sys \in Time /\ Now \in Time
      /\ pairAgain \subseteq Peers
      /\ \A p \in pairAgain : ~entries[p].confirmed
  BY NowType DEF StoreInv, TypeOK, PairAgainHoldsNoPairing
<1>1. ASSUME UNCHANGED storeVars PROVE StoreInv'
  BY <1>0, <1>1, KeepLeases DEF storeVars
<1>2. CASE \E p \in Peers : \/ Approve(p) \/ Settle(p) \/ EndPairing(p)
                            \/ SwitchClipboard(p) \/ Remove(p) \/ RemoveFound(p)
  <2> PICK p \in Peers : \/ Approve(p) \/ Settle(p) \/ EndPairing(p)
                         \/ SwitchClipboard(p) \/ Remove(p) \/ RemoveFound(p)
    BY <1>2
  <2>1. CASE Approve(p)
    <3> PICK a \in Answers : IssueAnswered(p, a.controller, a.clipboard)
      BY <2>1 DEF Approve
    <3>1. a.controller \in Controllers /\ a.clipboard \in BOOLEAN
      BY PersistAssumption
    <3> QED BY <3>1, VerbInv DEF Verb
  <2>2. CASE \/ Settle(p) \/ EndPairing(p) \/ SwitchClipboard(p) \/ Remove(p) \/ RemoveFound(p)
    <3>1. Verb(p)
      BY <2>2 DEF Verb, Settle, EndPairing, SwitchClipboard, Remove, RemoveFound
    <3> QED BY <3>1, VerbInv
  <2> QED BY <2>1, <2>2
<1>3. CASE SweepTick
  <2>1. Sweep
    BY <1>3 DEF SweepTick, SweepSave
  <2> QED BY <1>0, <2>1, KeepLeases DEF Sweep
<1>4. CASE SaveDevices \/ Reload \/ CheckRemovals
  BY <1>1, <1>4 DEF SaveDevices, Reload, CheckRemovals
<1>5. CASE StartLoad
  BY <1>5, StartLoadStore
<1>6. CASE StartForget
  <2> DEFINE removed == IF RemovedFrom(conf) = {} THEN {} ELSE Confirmed(RemovedFrom(conf), table)
  <2>1. removed \in SUBSET Peers
    BY <1>0 DEF RemovedFrom, Confirmed, Removable, ConfigCache
  <2>2. /\ entries' = [p \in Peers |-> IF p \in removed THEN NoLease ELSE entries[p]]
        /\ said' = [p \in Peers |-> IF p \in removed THEN {} ELSE said[p]]
        /\ pairAgain' = pairAgain \ removed
        /\ floor' = floor /\ sys' = sys
    BY <1>6 DEF StartForget
  <2> HIDE DEF removed
  <2>3. pairAgain' \subseteq pairAgain
    BY <2>2
  <2> QED BY <1>0, <2>1, <2>2, <2>3, ForgetSetStore
<1>7. CASE FileNext
  BY <1>1, <1>7 DEF FileNext, EditTable, BeginInPlace, EndInPlace
<1>8. CASE Crash
  <2>1. 0 \in Time
    BY ConstantsAssumption DEF Time
  <2>2. sys' = sys /\ floor' = 0 /\ pairAgain' = {}
    BY <1>8 DEF Crash
  <2>3. /\ entries' = [p \in Peers |-> IF p \in Peers THEN NoLease ELSE entries[p]]
        /\ said' = [p \in Peers |-> IF p \in Peers THEN {} ELSE said[p]]
    BY <1>8 DEF Crash
  <2> QED BY <1>0, <2>1, <2>2, <2>3, ForgetSetStore
<1>9. CASE \E t \in Time : SetClock(t)
  BY <1>0, <1>9, KeepLeases DEF SetClock, ClockReads
<1>10. CASE UNCHANGED vars
  BY <1>1, <1>10 DEF vars
<1> QED
  BY <1>2, <1>3, <1>4, <1>5, <1>6, <1>7, <1>8, <1>9, <1>10 DEF Next, DaemonNext

----------------------------------------------------------------------------
(* What a save leaves on disk *)

\* The store as the step leaves it reached the sealed file.
Written ==
  /\ installed' = TRUE /\ rows' = Records'
  /\ diskSeconds' = FileNow /\ fileSeconds' = FileNow

\* The step left the sealed file alone.
LeftAlone == UNCHANGED <<installed, rows, diskSeconds, fileSeconds>>

\* The rows of a store that keeps its invariant: each grants what its lease
\* does, and a machine the store knows nothing of has none.
LEMMA RecordsBack ==
  ASSUME StoreInv', rows' = Records'
  PROVE  /\ rows' \in [Peers -> Row]
         /\ \A p \in Peers : RebuiltLease(rows'[p]).caps = Granted(entries'[p])
         /\ \A p \in Peers : Absent(p)' => rows'[p].state = "none"
         /\ \A p \in Peers :
              (entries'[p].confirmed /\ p \notin pairAgain') =>
                 rows'[p].state = "active" /\ rows'[p].issued_at = entries'[p].issued_at
<1>1. \A p \in Peers : rows'[p] = RowOf(entries'[p], p \in pairAgain')
  BY DEF Records, RecordOf, IsKnown, RowOf
<1>2. rows' = [p \in Peers |-> rows'[p]]
  BY DEF Records
<1>3. ASSUME NEW p \in Peers
      PROVE  /\ rows'[p] \in Row
             /\ RebuiltLease(rows'[p]).caps = Granted(entries'[p])
  <2>1. entries'[p] \in Lease /\ (entries'[p] = NoLease \/ Canonical(entries'[p]))
    BY DEF StoreInv, TypeOK, EveryHeldLeaseReloads, IsKnown
  <2>2. ~(entries'[p].confirmed /\ p \in pairAgain')
    BY DEF StoreInv, PairAgainHoldsNoPairing
  <2>3. (p \in pairAgain') \in BOOLEAN
    OBVIOUS
  <2> QED BY <1>1, <2>1, <2>2, <2>3, RowBack
<1>4. ASSUME NEW p \in Peers, Absent(p)' PROVE rows'[p].state = "none"
  BY <1>1, <1>4, BlankRows DEF Absent, RowOf
<1>5. ASSUME NEW p \in Peers, entries'[p].confirmed, p \notin pairAgain'
      PROVE  rows'[p].state = "active" /\ rows'[p].issued_at = entries'[p].issued_at
  <2>1. entries'[p] # NoLease
    BY <1>5, NoLeaseType
  <2>2. entries'[p] \in Lease /\ Canonical(entries'[p])
    BY <2>1 DEF StoreInv, TypeOK, EveryHeldLeaseReloads, IsKnown
  <2>3. rows'[p] = ActiveRow(entries'[p])
    BY <1>1, <1>5, <2>1 DEF RowOf
  <2> QED BY <2>2, <2>3, ActiveRowBack
<1>6. rows' \in [Peers -> Row]
  BY <1>2, <1>3
<1> QED BY <1>3, <1>4, <1>5, <1>6

\* A save writes the store or leaves the file alone.
LEMMA SaveFileCases ==
  ASSUME NEW outcome, SaveFile(outcome)
  PROVE  /\ Written \/ LeftAlone
         /\ outcome # "store-failed" => Written
BY DEF SaveFile, Written, LeftAlone, diskVars

\* One that names its change writes it or leaves it named.
LEMMA PersistTrustCases ==
  ASSUME PersistTrust
  PROVE  /\ Written \/ (LeftAlone /\ unsaved' = "change")
         /\ unsaved' \in {"no", "floor", "change"}
<1> PICK outcome \in SaveOutcomes : SaverSave(outcome, TRUE)
  BY DEF PersistTrust
<1>1. SaveFile(outcome)
  BY DEF SaverSave
<1>2. unsaved' = IF outcome = "ok" THEN "no" ELSE "change"
  BY DEF SaverSave
<1> QED BY <1>1, <1>2, SaveFileCases

\* A retry writes the store or leaves the named change as it was.
LEMMA RetryCases ==
  ASSUME NEW outcome, SaverSave(outcome, FALSE)
  PROVE  /\ Written \/ (LeftAlone /\ (unsaved = "change" => unsaved' = "change"))
         /\ unsaved' \in {"no", "floor", "change"}
<1>1. SaveFile(outcome)
  BY DEF SaverSave
<1>2. \/ outcome = "ok" /\ unsaved' = "no"
      \/ outcome # "ok" /\ unsaved' = IF unsaved = "change" THEN "change" ELSE "floor"
  BY DEF SaverSave
<1> QED BY <1>1, <1>2, SaveFileCases

\* What a step of a loaded daemon does to the sealed file: it writes the store
\* there, or changes the store and names the change, or changes neither.
SavesOrNames ==
  \/ Written
  \/ LeftAlone /\ unsaved' = "change"
  \/ LeftAlone /\ entries' = entries /\ (unsaved = "change" => unsaved' = "change")

\* The sealed file's fields keep their types through any save.
LEMMA SavedType ==
  ASSUME StoreInv, StoreInv', DiskType, Written \/ LeftAlone
  PROVE  /\ installed' \in BOOLEAN /\ rows' \in [Peers -> Row]
         /\ diskSeconds' \in Time /\ fileSeconds' = diskSeconds'
         /\ diskSeconds \in Nat /\ diskSeconds' \in Nat
         /\ diskSeconds <= diskSeconds'
<1>0. sys \in Time /\ diskSeconds \in Time /\ fileSeconds = diskSeconds /\ MaxTime \in Nat
  BY ConstantsAssumption DEF StoreInv, TypeOK, DiskType
<1>1. CASE Written
  <2>1. installed' \in BOOLEAN /\ rows' \in [Peers -> Row]
    BY <1>1, RecordsBack DEF Written
  <2>2. diskSeconds' = FileNow /\ fileSeconds' = FileNow
    BY <1>1 DEF Written
  <2>3. FileNow \in Time /\ diskSeconds <= FileNow /\ diskSeconds \in Nat /\ FileNow \in Nat
    BY <1>0 DEF FileNow, Later, Time
  <2> QED BY <2>1, <2>2, <2>3
<1>2. CASE LeftAlone
  BY <1>0, <1>2 DEF LeftAlone, DiskType, Time
<1> QED BY <1>1, <1>2

\* Saving or naming keeps a loaded daemon's disk and memory in step.
LEMMA ToldStep ==
  ASSUME StoreInv', Told, phase # "down" \/ Written, SavesOrNames
  PROVE  Told'
<1> SUFFICES ASSUME phase' # "down", unsaved' # "change", NEW p \in Peers
             PROVE  RebuiltLease(rows'[p]).caps = Granted(entries'[p])
  BY DEF Told
<1>1. CASE Written
  BY <1>1, RecordsBack DEF Written
<1>2. CASE LeftAlone /\ entries' = entries /\ (unsaved = "change" => unsaved' = "change") /\ phase # "down"
  BY <1>2 DEF Told, LeftAlone
<1> QED BY <1>1, <1>2 DEF SavesOrNames

----------------------------------------------------------------------------
(* What a removal that stands needs *)

\* It survives a step that keeps its row, its place in the record and its
\* absence from the table.
LEMMA SurvivesKept ==
  ASSUME NEW p \in Peers, SurvivesRestart(p),
         rows'[p] = rows[p], diskSeconds' = diskSeconds,
         p \in listedFile => p \in listedFile',
         (\A t \in writing \cup {table} : t.present /\ p \notin t.lists) =>
            (\A t \in writing' \cup {table'} : t.present /\ p \notin t.lists)
  PROVE  SurvivesRestart(p)'
BY DEF SurvivesRestart

\* A daemon with nothing named has no row to grant what it does not.
LEMMA NothingNamed ==
  ASSUME Told, NEW p \in Peers, SurvivesRestart(p), Absent(p), phase = "up",
         unsaved # "change"
  PROVE  rows[p].state = "none"
BY NoLeaseType DEF Told, SurvivesRestart, Absent, Granted

\* save_config leaves a removed machine out of the table, and in the record
\* while a change waits.
LEMMA SaveConfigKeeps ==
  ASSUME NEW p \in Peers, NEW outcome \in ConfigOutcomes, SaveConfig(outcome),
         Absent(p)', listed = listedFile, unsaved' # "no"
  PROVE  /\ p \in listedFile => p \in listedFile'
         /\ (\A t \in writing \cup {table} : t.present /\ p \notin t.lists) =>
              (\A t \in writing' \cup {table'} : t.present /\ p \notin t.lists)
<1>1. p \notin ConfigCache'
  BY NoLeaseType DEF ConfigCache, Absent
<1>2. UNCHANGED <<table, writing>> \/ (table' = Table(ConfigCache') /\ writing' = {})
  BY DEF SaveConfig, fileVars
<1>3. \/ listedFile' = listedFile
      \/ listedFile' = ConfigCache' \cup listed
      \/ listedFile' = (ConfigCache' \cup listed) \ pairAgain'
  BY PersistAssumption DEF SaveConfig
<1>4. p \notin pairAgain'
  BY DEF Absent
<1>5. p \in listedFile => p \in listedFile'
  BY <1>3, <1>4
<1>6. CASE UNCHANGED <<table, writing>>
  BY <1>5, <1>6
<1>7. CASE table' = Table(ConfigCache') /\ writing' = {}
  BY <1>1, <1>5, <1>7 DEF Table
<1> QED BY <1>2, <1>6, <1>7

\* And leaves the two copies of the record alike, and the table a table.
LEMMA SaveConfigType ==
  ASSUME DiskType, StoreInv', NEW outcome \in ConfigOutcomes, SaveConfig(outcome)
  PROVE  /\ table' \in Tables /\ writing' \subseteq Tables /\ conf' \in Tables
         /\ listed' \subseteq Peers /\ listedFile' \subseteq Peers
         /\ listed = listedFile => listed' = listedFile'
<1>1. ConfigCache' \subseteq Peers
  BY DEF ConfigCache
<1>2. Table(ConfigCache') \in Tables
  BY <1>1 DEF Table, Tables
<1>3. conf' = Table(ConfigCache')
  BY DEF SaveConfig
<1>4. UNCHANGED <<table, writing>> \/ (table' = Table(ConfigCache') /\ writing' = {})
  BY DEF SaveConfig, fileVars
<1>5. \/ listedFile' = listedFile /\ listed' = listed
      \/ listed' \subseteq ConfigCache' \cup listed /\ listedFile' = listed'
  BY PersistAssumption DEF SaveConfig
<1>6. table \in Tables /\ writing \subseteq Tables /\ listed \subseteq Peers /\ listedFile \subseteq Peers
  BY DEF DiskType
<1> QED BY <1>1, <1>2, <1>3, <1>4, <1>5, <1>6

----------------------------------------------------------------------------
(* The handlers of a running daemon *)

\* The record and the table go on showing the removal of p.
TableKeeps(p) ==
  /\ p \in listedFile => p \in listedFile'
  /\ (\A t \in writing \cup {table} : t.present /\ p \notin t.lists) =>
       (\A t \in writing' \cup {table'} : t.present /\ p \notin t.lists)

\* What a handler owes a removal that stands after it.
OwedTo(p) ==
  gone'[p] = "stands" =>
    /\ Absent(p)'
    /\ \/ SurvivesRestart(p)'
       \/ gone[p] = "stands" /\ (rows[p].state = "none" \/ TableKeeps(p))

\* The types of what a handler may change beside the sealed file.
HandlerType ==
  /\ table' \in Tables /\ writing' \subseteq Tables /\ conf' \in Tables
  /\ listed' \subseteq Peers /\ listedFile' = listed'
  /\ unsaved' \in {"no", "floor", "change"}
  /\ gone' \in [Peers -> {"no", "asked", "stands"}]

\* A handler that pays this, and saves or names what it changed, keeps the
\* invariant.
LEMMA HandlerInv ==
  ASSUME PersistInv, StoreInv', phase # "down", phase' = "up", SavesOrNames, HandlerType,
         \A p \in Peers : OwedTo(p)
  PROVE  PersistInv'
<1>0. StoreInv /\ DiskType /\ Booted /\ Told /\ RemovalsStand
  BY DEF PersistInv
<1>1. Written \/ LeftAlone
  BY DEF SavesOrNames
<1>2. DiskType'
  BY <1>0, <1>1, SavedType DEF DiskType, HandlerType
<1>3. installed'
  BY <1>0, <1>1 DEF Booted, Written, LeftAlone
<1>4. Booted'
  BY <1>3 DEF Booted, HandlerType
<1>5. Told'
  BY <1>0, ToldStep
<1>6. ASSUME NEW p \in Peers, gone'[p] = "stands"
      PROVE  SurvivesRestart(p)' /\ Absent(p)'
  <2>1. Absent(p)'
    BY <1>6 DEF OwedTo
  <2>2. CASE Written
    <3>1. rows'[p].state = "none"
      BY <2>1, <2>2, RecordsBack DEF Written
    <3> QED BY <2>1, <3>1 DEF SurvivesRestart
  <2>3. CASE LeftAlone /\ gone[p] = "stands" /\ (rows[p].state = "none" \/ TableKeeps(p))
    <3>1. rows' = rows /\ diskSeconds' = diskSeconds
      BY <2>3 DEF LeftAlone
    <3>2. SurvivesRestart(p)
      BY <1>0, <2>3 DEF RemovalsStand, Standing
    <3>3. CASE rows[p].state = "none"
      BY <2>1, <3>1, <3>3 DEF SurvivesRestart
    <3>4. CASE TableKeeps(p)
      BY <2>1, <3>1, <3>2, <3>4, SurvivesKept DEF TableKeeps
    <3> QED BY <2>3, <3>3, <3>4
  <2> QED BY <1>1, <1>6, <2>1, <2>2, <2>3 DEF OwedTo
<1>7. RemovalsStand'
  BY <1>6 DEF RemovalsStand, Standing
<1> QED BY <1>0, <1>2, <1>4, <1>5, <1>7 DEF PersistInv

\* What a handler that touches neither the table nor the record leaves.
Untouched == UNCHANGED <<table, writing, listed, listedFile, conf>>

\* It keeps the types and every removal's place.
LEMMA UntouchedKeeps ==
  ASSUME PersistInv, phase = "up", Untouched
  PROVE  /\ table' \in Tables /\ writing' \subseteq Tables /\ conf' \in Tables
         /\ listed' \subseteq Peers /\ listedFile' = listed'
         /\ \A p : TableKeeps(p)
BY DEF PersistInv, DiskType, Booted, Untouched, TableKeeps

\* A verb on one machine leaves the others' leases alone, and lists none.
LEMMA VerbOnOne ==
  ASSUME StoreInv, NEW p \in Peers, Verb(p), NEW q \in Peers
  PROVE  /\ q # p => entries'[q] = entries[q]
         /\ pairAgain' \subseteq pairAgain
<1>1. entries \in [Peers -> Lease]
  BY DEF StoreInv, TypeOK
<1>2. CASE \E c \in Controllers, cb \in BOOLEAN : IssueAnswered(p, c, cb)
  <2> PICK c \in Controllers, cb \in BOOLEAN : IssueAnswered(p, c, cb)
    BY <1>2
  <2> PICK l : Admit(p, l)
    BY DEF IssueAnswered, IssueLease
  <2> QED BY <1>1 DEF Admit
<1>3. CASE Confirm(p) \/ ForgetUnconfirmed(p) \/ Forget(p)
  BY <1>1, <1>3 DEF Confirm, ForgetUnconfirmed, Forget
<1>4. CASE DisableClipboard(p) \/ EnableClipboard(p)
  BY <1>1, <1>4 DEF DisableClipboard, EnableClipboard
<1> QED BY <1>2, <1>3, <1>4 DEF Verb

\* A machine absent stays so through a verb on another, and through one that
\* forgets it.
LEMMA AbsentStays ==
  ASSUME StoreInv, NEW p \in Peers, Verb(p), NEW q \in Peers, Absent(q),
         q # p \/ entries'[q] = NoLease
  PROVE  Absent(q)'
BY VerbOnOne DEF Absent

\* A machine the pairing or the clipboard switch acts on is not absent.
LEMMA ActedOnIsKnown ==
  ASSUME NEW p \in Peers, IsPairing(p) \/ DisableClipboard(p) \/ EnableClipboard(p)
  PROVE  ~Absent(p)
<1>1. CASE IsPairing(p)
  BY <1>1, NoLeaseType DEF IsPairing, AwaitingConfirmation, Absent
<1>2. CASE DisableClipboard(p)
  BY <1>2 DEF DisableClipboard, IsKnown, Absent
<1>3. CASE EnableClipboard(p)
  BY <1>3, NoLeaseType DEF EnableClipboard, InForce, EffectiveCapabilities, Absent
<1> QED BY <1>1, <1>2, <1>3

\* Approving, settling, ending and switching: each changes one machine's
\* lease, saves it and touches nothing else, and none brings back a machine
\* whose removal stands.
LEMMA TrustChangeInv ==
  ASSUME PersistInv, StoreInv', NEW p \in Peers, Verb(p), TrustChange,
         gone' \in [Peers -> {"no", "asked", "stands"}],
         \A q \in Peers : gone'[q] = "stands" =>
            gone[q] = "stands" /\ (Absent(q) => (q # p \/ entries'[q] = NoLease))
  PROVE  PersistInv'
<1>1. phase = "up" /\ phase' = "up" /\ Untouched /\ PersistTrust
  BY DEF TrustChange, Idle, Untouched, fileVars, listVars
<1>2. SavesOrNames /\ unsaved' \in {"no", "floor", "change"}
  BY <1>1, PersistTrustCases DEF SavesOrNames
<1>3. HandlerType
  BY <1>1, <1>2, UntouchedKeeps DEF HandlerType
<1>4. ASSUME NEW q \in Peers, gone'[q] = "stands"
      PROVE  Absent(q)' /\ gone[q] = "stands" /\ TableKeeps(q)
  <2>1. gone[q] = "stands" /\ (Absent(q) => (q # p \/ entries'[q] = NoLease))
    BY <1>4
  <2>2. Absent(q)
    BY <1>1, <2>1 DEF PersistInv, RemovalsStand, Standing
  <2>3. Absent(q)'
    BY <2>1, <2>2, AbsentStays DEF PersistInv
  <2>4. TableKeeps(q)
    BY <1>1, UntouchedKeeps
  <2> QED BY <2>1, <2>3, <2>4
<1>5. \A q \in Peers : OwedTo(q)
  BY <1>4 DEF OwedTo
<1> QED BY <1>1, <1>2, <1>3, <1>5, HandlerInv

\* The four of them.
LEMMA PairingHandlersInv ==
  ASSUME PersistInv, StoreInv', NEW p \in Peers,
         Approve(p) \/ Settle(p) \/ EndPairing(p) \/ SwitchClipboard(p)
  PROVE  PersistInv'
<1>0. gone \in [Peers -> {"no", "asked", "stands"}] /\ entries \in [Peers -> Lease]
  BY DEF PersistInv, DiskType, StoreInv, TypeOK
<1>1. CASE Approve(p)
  <2> PICK a \in Answers : IssueAnswered(p, a.controller, a.clipboard)
    BY <1>1 DEF Approve
  <2>1. a.controller \in Controllers /\ a.clipboard \in BOOLEAN
    BY PersistAssumption
  <2>2. Verb(p)
    BY <2>1 DEF Verb
  <2>3. /\ TrustChange
        /\ gone' = [gone EXCEPT ![p] = IF gone[p] = "stands" THEN "asked" ELSE gone[p]]
    BY <1>1 DEF Approve
  <2>4. gone' \in [Peers -> {"no", "asked", "stands"}]
    BY <1>0, <2>3
  <2>5. \A q \in Peers : gone'[q] = "stands" => gone[q] = "stands" /\ q # p
    BY <1>0, <2>3
  <2> QED BY <2>2, <2>3, <2>4, <2>5, TrustChangeInv
<1>2. CASE Settle(p)
  <2>1. TrustChange /\ Verb(p) /\ IsPairing(p)
    BY <1>2 DEF Settle, Verb
  <2>2. gone' = gone \/ gone' = [gone EXCEPT ![p] = "no"]
    BY <1>2 DEF Settle
  <2>3. gone' \in [Peers -> {"no", "asked", "stands"}]
    BY <1>0, <2>2
  <2>4. \A q \in Peers : gone'[q] = "stands" => gone[q] = "stands"
    BY <1>0, <2>2
  <2>5. ~Absent(p)
    BY <2>1, ActedOnIsKnown
  <2> QED BY <2>1, <2>3, <2>4, <2>5, TrustChangeInv
<1>3. CASE EndPairing(p)
  <2>1. TrustChange /\ Verb(p) /\ gone' = gone
    BY <1>3 DEF EndPairing, Verb, histVars
  <2>2. entries'[p] = NoLease
    BY <1>0, <1>3 DEF EndPairing, ForgetUnconfirmed
  <2> QED BY <1>0, <2>1, <2>2, TrustChangeInv
<1>4. CASE SwitchClipboard(p)
  <2>1. TrustChange /\ Verb(p) /\ gone' = gone
    BY <1>4 DEF SwitchClipboard, Verb, histVars
  <2>2. ~Absent(p)
    BY <1>4, ActedOnIsKnown DEF SwitchClipboard
  <2> QED BY <1>0, <2>1, <2>2, TrustChangeInv
<1> QED BY <1>1, <1>2, <1>3, <1>4

\* remove_authorized_key and its save_config.
LEMMA RemoveInv ==
  ASSUME PersistInv, StoreInv', NEW p \in Peers, Remove(p)
  PROVE  PersistInv'
<1>0. /\ gone \in [Peers -> {"no", "asked", "stands"}] /\ entries \in [Peers -> Lease]
      /\ DiskType /\ StoreInv /\ Booted
  BY DEF PersistInv, DiskType, StoreInv, TypeOK
<1>1. phase = "up" /\ phase' = "up" /\ PersistTrust /\ Forget(p) /\ Verb(p)
  BY DEF Remove, Idle, Verb
<1>2. listed = listedFile
  BY <1>0, <1>1 DEF Booted
<1> PICK outcome \in ConfigOutcomes : SaveConfig(outcome)
  BY DEF Remove
<1>3. SavesOrNames /\ unsaved' \in {"no", "floor", "change"}
  BY <1>1, PersistTrustCases DEF SavesOrNames
<1>4. gone' = [gone EXCEPT ![p] = IF SurvivesRestart(p)' THEN "stands" ELSE "asked"]
  BY DEF Remove
<1>5. gone' \in [Peers -> {"no", "asked", "stands"}]
  BY <1>0, <1>4
<1>6. HandlerType
  BY <1>0, <1>2, <1>3, <1>5, SaveConfigType DEF HandlerType
<1>7. entries'[p] = NoLease /\ p \notin pairAgain'
  BY <1>0, <1>1 DEF Forget
<1>8. ASSUME NEW q \in Peers, gone'[q] = "stands" PROVE OwedTo(q)
  <2>1. CASE q = p
    <3>1. SurvivesRestart(p)'
      BY <1>0, <1>4, <1>8, <2>1
    <3> QED BY <1>7, <2>1, <3>1 DEF OwedTo, Absent
  <2>2. CASE q # p
    <3>1. gone[q] = "stands"
      BY <1>0, <1>4, <1>8, <2>2
    <3>2. Absent(q) /\ SurvivesRestart(q)
      BY <1>1, <3>1 DEF PersistInv, RemovalsStand, Standing
    <3>3. Absent(q)'
      BY <1>0, <1>1, <2>2, <3>2, AbsentStays
    <3>4. CASE Written
      <4>1. rows'[q].state = "none"
        BY <3>3, <3>4, RecordsBack DEF Written
      <4> QED BY <3>3, <4>1 DEF OwedTo, SurvivesRestart
    <3>5. CASE unsaved' = "change"
      <4>1. TableKeeps(q)
        BY <1>2, <3>3, <3>5, SaveConfigKeeps DEF TableKeeps
      <4> QED BY <3>1, <3>3, <4>1 DEF OwedTo
    <3> QED BY <1>1, <3>4, <3>5, PersistTrustCases
  <2> QED BY <2>1, <2>2
<1>9. \A q \in Peers : OwedTo(q)
  BY <1>8 DEF OwedTo
<1> QED BY <1>1, <1>3, <1>6, <1>9, HandlerInv

\* A removal found in the table, made with no save_config.
LEMMA RemoveFoundInv ==
  ASSUME PersistInv, StoreInv', NEW p \in Peers, RemoveFound(p)
  PROVE  PersistInv'
<1>0. gone' = gone /\ gone \in [Peers -> {"no", "asked", "stands"}] /\ entries \in [Peers -> Lease]
  BY DEF PersistInv, DiskType, StoreInv, TypeOK, RemoveFound
<1>1. phase = "up" /\ phase' = "up" /\ Untouched /\ PersistTrust /\ Forget(p) /\ Verb(p)
  BY DEF RemoveFound, Untouched, fileVars, listVars, Verb
<1>2. SavesOrNames /\ unsaved' \in {"no", "floor", "change"}
  BY <1>1, PersistTrustCases DEF SavesOrNames
<1>3. HandlerType
  BY <1>0, <1>1, <1>2, UntouchedKeeps DEF HandlerType
<1>4. entries'[p] = NoLease
  BY <1>0, <1>1 DEF Forget
<1>5. ASSUME NEW q \in Peers, gone'[q] = "stands" PROVE OwedTo(q)
  <2>1. gone[q] = "stands" /\ Absent(q)
    BY <1>0, <1>1, <1>5 DEF PersistInv, RemovalsStand, Standing
  <2>2. Absent(q)'
    BY <1>1, <1>4, <2>1, AbsentStays DEF PersistInv
  <2>3. TableKeeps(q)
    BY <1>1, UntouchedKeeps
  <2> QED BY <2>1, <2>2, <2>3 DEF OwedTo
<1>6. \A q \in Peers : OwedTo(q)
  BY <1>5 DEF OwedTo
<1> QED BY <1>1, <1>2, <1>3, <1>6, HandlerInv

\* A handler that leaves the leases, the history and the table alone: the
\* sweep, a reload, a check of the removals.
LEMMA QuietInv ==
  ASSUME PersistInv, StoreInv', phase = "up", phase' = "up", SavesOrNames,
         UNCHANGED <<entries, pairAgain, gone, table, writing, listed, listedFile>>,
         conf' \in Tables, unsaved' \in {"no", "floor", "change"}
  PROVE  PersistInv'
<1>1. HandlerType
  BY DEF PersistInv, DiskType, Booted, HandlerType
<1>2. ASSUME NEW q \in Peers, gone'[q] = "stands" PROVE OwedTo(q)
  <2>1. gone[q] = "stands" /\ Absent(q)
    BY <1>2 DEF PersistInv, RemovalsStand, Standing
  <2>2. Absent(q)' /\ TableKeeps(q)
    BY <2>1 DEF Absent, TableKeeps
  <2> QED BY <2>1, <2>2 DEF OwedTo
<1>3. \A q \in Peers : OwedTo(q)
  BY <1>2 DEF OwedTo
<1> QED BY <1>1, <1>3, HandlerInv

\* Those three.
LEMMA QuietHandlersInv ==
  ASSUME PersistInv, StoreInv', SweepTick \/ Reload \/ CheckRemovals
  PROVE  PersistInv'
<1>0. conf \in Tables /\ table \in Tables /\ unsaved \in {"no", "floor", "change"}
  BY DEF PersistInv, DiskType
<1>1. CASE SweepTick
  <2>1. /\ phase = "up" /\ phase' = "up" /\ conf' = conf
        /\ UNCHANGED <<entries, pairAgain, gone, table, writing, listed, listedFile>>
    BY <1>1 DEF SweepTick, SweepSave, Idle, Sweep, fileVars, listVars, histVars
  <2>2. CASE \E outcome \in SaveOutcomes : SweepSave(outcome)
    <3> PICK outcome \in SaveOutcomes : SaverSave(outcome, FALSE)
      BY <2>2 DEF SweepSave
    <3>1. SavesOrNames /\ unsaved' \in {"no", "floor", "change"}
      BY <2>1, RetryCases DEF SavesOrNames
    <3> QED BY <1>0, <2>1, <3>1, QuietInv
  <2>3. CASE UNCHANGED <<diskVars, saverVars>>
    <3>1. SavesOrNames /\ unsaved' = unsaved
      BY <2>1, <2>3 DEF SavesOrNames, LeftAlone, diskVars, saverVars
    <3> QED BY <1>0, <2>1, <3>1, QuietInv
  <2> QED BY <1>1, <2>2, <2>3 DEF SweepTick
<1>2. CASE Reload
  <2>1. /\ phase = "up" /\ phase' = "up" /\ unsaved' = unsaved /\ SavesOrNames
        /\ UNCHANGED <<entries, pairAgain, gone, table, writing, listed, listedFile>>
    BY <1>2 DEF Reload, Idle, storeVars, diskVars, fileVars, listVars, saverVars, histVars,
                SavesOrNames, LeftAlone
  <2>2. conf' = table \/ conf' = conf
    BY <1>2 DEF Reload
  <2> QED BY <1>0, <2>1, <2>2, QuietInv
<1>3. CASE CheckRemovals
  <2>1. /\ phase = "up" /\ phase' = "up" /\ unsaved' = unsaved /\ SavesOrNames /\ conf' = conf
        /\ UNCHANGED <<entries, pairAgain, gone, table, writing, listed, listedFile>>
    BY <1>3 DEF CheckRemovals, Idle, storeVars, diskVars, fileVars, listVars, saverVars,
                histVars, SavesOrNames, LeftAlone
  <2> QED BY <1>0, <2>1, QuietInv
<1> QED BY <1>1, <1>2, <1>3

\* save_config on its own: the record drops a removed machine only once no
\* change waits, and then the store on disk has dropped it too.
LEMMA SaveDevicesInv ==
  ASSUME PersistInv, StoreInv', SaveDevices
  PROVE  PersistInv'
<1>0. DiskType /\ Booted /\ Told
  BY DEF PersistInv
<1>1. /\ phase = "up" /\ phase' = "up" /\ SavesOrNames
      /\ UNCHANGED <<entries, pairAgain, gone, unsaved, rows>>
  BY DEF SaveDevices, Idle, SavesOrNames, LeftAlone, storeVars, diskVars, saverVars
<1>2. listed = listedFile
  BY <1>0, <1>1 DEF Booted
<1> PICK outcome \in ConfigOutcomes : SaveConfig(outcome)
  BY DEF SaveDevices
<1>3. HandlerType
  BY <1>0, <1>1, <1>2, SaveConfigType DEF HandlerType, DiskType
<1>4. ASSUME NEW q \in Peers, gone'[q] = "stands" PROVE OwedTo(q)
  <2>1. gone[q] = "stands" /\ Absent(q) /\ SurvivesRestart(q)
    BY <1>1, <1>4 DEF PersistInv, RemovalsStand, Standing
  <2>2. Absent(q)'
    BY <1>1, <2>1 DEF Absent
  <2>3. CASE unsaved # "change"
    <3>1. rows[q].state = "none"
      BY <1>0, <1>1, <2>1, <2>3, NothingNamed
    <3> QED BY <2>1, <2>2, <3>1 DEF OwedTo
  <2>4. CASE unsaved = "change"
    <3>1. TableKeeps(q)
      BY <1>1, <1>2, <2>2, <2>4, SaveConfigKeeps DEF TableKeeps
    <3> QED BY <2>1, <2>2, <3>1 DEF OwedTo
  <2> QED BY <2>3, <2>4
<1>5. \A q \in Peers : OwedTo(q)
  BY <1>4 DEF OwedTo
<1> QED BY <1>1, <1>3, <1>5, HandlerInv

----------------------------------------------------------------------------
(* A start *)

\* What is loaded grants what the file does, and a removal the file does not
\* show is due: the table and the record still show it.
LEMMA StartLoadInv ==
  ASSUME PersistInv, StoreInv', StartLoad
  PROVE  PersistInv'
<1>0. StoreInv /\ DiskType /\ Booted /\ RemovalsStand /\ rows \in [Peers -> Row]
  BY DEF PersistInv, DiskType
<1>1. /\ phase' = "starting" /\ unsaved' = "no" /\ conf' = table /\ listed' = listedFile
      /\ UNCHANGED <<table, writing, listedFile, gone>>
      /\ floor' = Later(sys, diskSeconds)
  BY DEF StartLoad, fileVars, histVars
<1>2. \A p \in Peers : entries'[p] = RebuiltLease(rows[p])
  BY DEF StartLoad, Rebuilt
<1>3. /\ Written \/ LeftAlone
      /\ ~installed => Written
  <2>1. CASE installed
    <3>1. CASE \E outcome \in SaveOutcomes : SaveFile(outcome)
      BY <2>1, <3>1, SaveFileCases
    <3>2. CASE UNCHANGED <<diskVars, fileSeconds>>
      BY <2>1, <3>2 DEF LeftAlone, diskVars
    <3> QED BY <2>1, <3>1, <3>2 DEF StartLoad
  <2>2. CASE ~installed
    <3>1. SaveFile("ok")
      BY <2>2 DEF StartLoad
    <3> QED BY <3>1, SaveFileCases
  <2> QED BY <2>1, <2>2
<1>4. /\ installed' \in BOOLEAN /\ rows' \in [Peers -> Row]
      /\ diskSeconds' \in Time /\ fileSeconds' = diskSeconds'
      /\ diskSeconds \in Nat /\ diskSeconds' \in Nat /\ diskSeconds <= diskSeconds'
  BY <1>0, <1>3, SavedType
<1>5. DiskType'
  BY <1>0, <1>1, <1>4 DEF DiskType
<1>6. installed'
  BY <1>3 DEF Written, LeftAlone
<1>7. Booted'
  BY <1>1, <1>6 DEF Booted
<1>8. \A p \in Peers : RebuiltLease(rows[p]) # NoLease => RebuiltLease(rows[p]).confirmed
  BY <1>0, RebuiltType
<1>9. Told'
  <2> SUFFICES ASSUME NEW p \in Peers PROVE RebuiltLease(rows'[p]).caps = Granted(entries'[p])
    BY DEF Told
  <2>1. CASE Written
    BY <2>1, RecordsBack DEF Written
  <2>2. CASE LeftAlone
    BY <1>2, <1>8, <2>2, NoLeaseType DEF LeftAlone, Granted
  <2> QED BY <1>3, <2>1, <2>2
<1>10. ASSUME NEW p \in Peers, gone'[p] = "stands"
       PROVE  /\ SurvivesRestart(p)'
              /\ IF rows'[p].state = "none" THEN Absent(p)' ELSE DueForRemoval(p)'
  <2>1. gone[p] = "stands" /\ SurvivesRestart(p)
    BY <1>0, <1>1, <1>10 DEF RemovalsStand, Standing
  <2>2. installed /\ pairAgain' = RebuiltPairAgain
    BY <1>0, <2>1 DEF Booted, StartLoad
  <2>3. CASE rows[p].state = "none"
    <3>1. entries'[p] = NoLease
      BY <1>0, <1>2, <2>3, RebuiltType
    <3>2. Absent(p)'
      BY <2>2, <2>3, <3>1 DEF RebuiltPairAgain, Absent
    <3>3. rows'[p].state = "none"
      BY <1>3, <2>3, <3>2, RecordsBack DEF Written, LeftAlone
    <3> QED BY <3>2, <3>3 DEF SurvivesRestart
  <2>4. CASE rows[p].state # "none"
    <3> DEFINE l == RebuiltLease(rows[p])
    <3>1. /\ p \in listedFile
          /\ \A t \in writing \cup {table} : t.present /\ p \notin t.lists
          /\ "drive-me" \in l.caps
          /\ rows[p].issued_at <= diskSeconds
      BY <2>1, <2>4 DEF SurvivesRestart
    <3>2. l # NoLease
      BY <3>1, NoLeaseType
    <3>3. l \in Lease /\ l.confirmed /\ l.issued_at = rows[p].issued_at /\ rows[p].state = "active"
      BY <1>0, <3>2, RebuiltType
    <3>4. entries'[p] = l
      BY <1>2
    <3> HIDE DEF l
    <3>5. l.issued_at \in Nat
      BY <3>3, ConstantsAssumption DEF Lease, Time
    <3>6. sys \in Nat
      BY <1>0, ConstantsAssumption DEF StoreInv, TypeOK, Time
    <3>7. l.issued_at <= floor' /\ l.issued_at <= diskSeconds'
      BY <1>1, <1>4, <3>1, <3>3, <3>5, <3>6 DEF Later
    <3>8. DueForRemoval(p)'
      BY <1>1, <3>1, <3>3, <3>4, <3>7 DEF DueForRemoval
    <3>9. p \notin pairAgain'
      BY <3>3, <3>4 DEF StoreInv, PairAgainHoldsNoPairing
    <3>10. CASE LeftAlone
      <4>1. rows' = rows /\ diskSeconds' = diskSeconds
        BY <3>10 DEF LeftAlone
      <4>2. SurvivesRestart(p)'
        BY <1>1, <2>1, <4>1, SurvivesKept
      <4> QED BY <2>4, <3>8, <4>1, <4>2
    <3>11. CASE Written
      <4>1. rows'[p].state = "active" /\ rows'[p].issued_at = l.issued_at
        BY <3>3, <3>4, <3>9, <3>11, RecordsBack DEF Written
      <4>2. "drive-me" \in RebuiltLease(rows'[p]).caps
        BY <3>1, <3>3, <3>4, <3>11, RecordsBack DEF Written, Granted, l
      <4>3. SurvivesRestart(p)'
        BY <1>1, <3>1, <3>7, <4>1, <4>2 DEF SurvivesRestart
      <4> QED BY <3>8, <4>1, <4>3
    <3> QED BY <1>3, <3>10, <3>11
  <2> QED BY <2>3, <2>4
<1>11. RemovalsStand'
  BY <1>1, <1>10 DEF RemovalsStand, Standing
<1> QED BY <1>5, <1>7, <1>9, <1>11 DEF PersistInv

\* A machine due for removal is one the start forgets: it is known, recorded
\* as listed, and missing from both reads of the table.
LEMMA DueIsFound ==
  ASSUME StoreInv, NEW p \in Peers, DueForRemoval(p), p \in listed,
         table.present, p \notin table.lists
  PROVE  p \in Confirmed(RemovedFrom(conf), table)
<1>1. entries[p].issued_at \in Nat /\ sys \in Nat /\ floor \in Nat
  BY ConstantsAssumption DEF StoreInv, TypeOK, Lease, Time
<1>2. entries[p].issued_at <= floor /\ entries[p].confirmed /\ "drive-me" \in entries[p].caps
  BY DEF DueForRemoval
<1>3. IsValid(entries[p])
  BY <1>1, <1>2 DEF IsValid, Now
<1>4. p \in Removable
  BY <1>2, <1>3 DEF Removable, ConfigCache
<1> QED BY <1>4 DEF RemovedFrom, Confirmed, DueForRemoval

\* The removals read at a start are made before it ends, and the record of the
\* table keeps showing each until its change is saved.
LEMMA StartForgetInv ==
  ASSUME PersistInv, StoreInv', StartForget
  PROVE  PersistInv'
<1> DEFINE found == RemovedFrom(conf)
           removed == IF found = {} THEN {} ELSE Confirmed(found, table)
           lists == IF conf.present THEN conf.lists \cap Removable' ELSE {}
           next == lists \cup (IF unsaved' # "no" \/ removed # found \/ ~conf.present
                               THEN listed ELSE {})
<1>0. StoreInv /\ DiskType /\ Booted /\ RemovalsStand /\ entries \in [Peers -> Lease]
  BY DEF PersistInv, StoreInv, TypeOK
<1>1. /\ phase = "starting" /\ phase' = "up"
      /\ found # {} => writing = {}
      /\ UNCHANGED <<table, writing, conf, gone>>
      /\ entries' = [p \in Peers |-> IF p \in removed THEN NoLease ELSE entries[p]]
      /\ pairAgain' = pairAgain \ removed
  BY DEF StartForget, fileVars
<1>2. IF removed # {} THEN PersistTrust ELSE UNCHANGED <<diskVars, saverVars>>
  BY DEF StartForget
<1>3. (listed' = next /\ listedFile' = next) \/ UNCHANGED <<listed, listedFile>>
  BY DEF StartForget, listVars
<1>4. lists \subseteq Peers /\ listed \subseteq Peers
  BY <1>0 DEF DiskType, Tables
<1>5. next \subseteq Peers /\ (unsaved' # "no" => listed \subseteq next)
  BY <1>4
<1>6. listed = listedFile
  BY <1>0, <1>1 DEF Booted
<1>7. \A p \in Peers : DueForRemoval(p) /\ p \in listed /\ table.present /\ p \notin table.lists
                          => p \in removed
  BY <1>0, DueIsFound DEF Confirmed
<1> HIDE DEF removed, next, lists
<1>8. SavesOrNames /\ unsaved' \in {"no", "floor", "change"}
  <2>1. CASE removed # {}
    BY <1>2, <2>1, PersistTrustCases DEF SavesOrNames
  <2>2. CASE removed = {}
    <3>1. entries' = entries
      BY <1>0, <1>1, <2>2
    <3>2. LeftAlone /\ unsaved' = unsaved
      BY <1>2, <2>2 DEF LeftAlone, diskVars, saverVars
    <3> QED BY <1>0, <3>1, <3>2 DEF SavesOrNames, DiskType
  <2> QED BY <2>1, <2>2
<1>9. HandlerType
  BY <1>0, <1>1, <1>3, <1>5, <1>6, <1>8 DEF HandlerType, DiskType
<1>10. ASSUME NEW p \in Peers, gone'[p] = "stands" PROVE OwedTo(p)
  <2>1. gone[p] = "stands" /\ SurvivesRestart(p)
    BY <1>0, <1>1, <1>10 DEF RemovalsStand, Standing
  <2>2. CASE rows[p].state = "none"
    <3>1. Absent(p)
      BY <1>0, <1>1, <2>1, <2>2 DEF RemovalsStand, Standing
    <3>2. Absent(p)'
      BY <1>1, <3>1 DEF Absent
    <3> QED BY <2>1, <2>2, <3>2 DEF OwedTo
  <2>3. CASE rows[p].state # "none"
    <3>1. DueForRemoval(p)
      BY <1>0, <1>1, <2>1, <2>3 DEF RemovalsStand, Standing
    <3>2. /\ p \in listedFile
          /\ \A t \in writing \cup {table} : t.present /\ p \notin t.lists
      BY <2>1, <2>3 DEF SurvivesRestart
    <3>3. p \in removed
      BY <1>6, <1>7, <3>1, <3>2
    <3>4. p \notin pairAgain' /\ entries'[p] = NoLease
      BY <1>1, <3>3
    <3>5. Absent(p)'
      BY <3>4 DEF Absent
    <3>6. CASE Written
      <4>1. rows'[p].state = "none"
        BY <3>5, <3>6, RecordsBack DEF Written
      <4> QED BY <3>5, <4>1 DEF OwedTo, SurvivesRestart
    <3>7. CASE unsaved' = "change"
      <4>1. p \in listedFile'
        BY <1>3, <1>5, <1>6, <3>2, <3>7
      <4>2. TableKeeps(p)
        BY <1>1, <4>1 DEF TableKeeps
      <4> QED BY <2>1, <3>5, <4>2 DEF OwedTo
    <3> QED BY <1>2, <3>3, <3>6, <3>7, PersistTrustCases
  <2> QED BY <2>2, <2>3
<1>11. \A p \in Peers : OwedTo(p)
  BY <1>10 DEF OwedTo
<1> QED BY <1>1, <1>8, <1>9, <1>11, HandlerInv

----------------------------------------------------------------------------
(* Outside the daemon *)

\* A step from outside, in any phase, leaves the daemon and the sealed file
\* alone; what stands after it is still shown by the table, or on disk.
LEMMA OutsideInv ==
  ASSUME PersistInv, StoreInv',
         UNCHANGED <<entries, pairAgain, floor, diskVars, fileSeconds, unsaved, listVars,
                     phase, conf>>,
         table' \in Tables, writing' \subseteq Tables,
         gone' \in [Peers -> {"no", "asked", "stands"}],
         \A p \in Peers : gone[p] = "no" => gone'[p] = "no",
         \A p \in Peers : gone'[p] = "stands" =>
            gone[p] = "stands" /\ (rows[p].state = "none" \/ TableKeeps(p))
  PROVE  PersistInv'
<1>0. DiskType /\ Booted /\ Told /\ RemovalsStand
  BY DEF PersistInv
<1>1. DiskType'
  BY <1>0 DEF DiskType, diskVars, listVars
<1>2. Booted'
  BY <1>0 DEF Booted, diskVars, listVars
<1>3. Told'
  BY <1>0 DEF Told, diskVars
<1>4. ASSUME NEW p \in Peers, gone'[p] = "stands" PROVE Standing(p)'
  <2>1. gone[p] = "stands" /\ (rows[p].state = "none" \/ TableKeeps(p))
    BY <1>4
  <2>2. /\ SurvivesRestart(p)
        /\ phase = "up" => Absent(p)
        /\ phase = "starting" => (IF rows[p].state = "none" THEN Absent(p) ELSE DueForRemoval(p))
    BY <1>0, <2>1 DEF RemovalsStand, Standing
  <2>3. rows' = rows /\ diskSeconds' = diskSeconds
    BY DEF diskVars
  <2>4. SurvivesRestart(p)'
    <3>1. CASE rows[p].state = "none"
      BY <2>3, <3>1 DEF SurvivesRestart
    <3>2. CASE TableKeeps(p)
      BY <2>2, <2>3, <3>2, SurvivesKept DEF TableKeeps
    <3> QED BY <2>1, <3>1, <3>2
  <2>5. (Absent(p)' <=> Absent(p)) /\ (DueForRemoval(p)' <=> DueForRemoval(p))
    BY DEF Absent, DueForRemoval
  <2> QED BY <2>2, <2>3, <2>4, <2>5 DEF Standing
<1>5. RemovalsStand'
  BY <1>4 DEF RemovalsStand, Standing
<1> QED BY <1>1, <1>2, <1>3, <1>5 DEF PersistInv

\* config.toml edited, whole or in place.
LEMMA FileInv ==
  ASSUME PersistInv, StoreInv', FileNext
  PROVE  PersistInv'
<1>0. /\ gone \in [Peers -> {"no", "asked", "stands"}]
      /\ table \in Tables /\ writing \subseteq Tables
  BY DEF PersistInv, DiskType
<1>1. ASSUME NEW t \in Edits, NEW now \in Tables, Edited(t, now), table' = now,
             now.lists \subseteq t.lists,
             writing' = {} \/ writing' = {t},
             UNCHANGED <<entries, pairAgain, floor, diskVars, fileSeconds, unsaved, listVars,
                         phase, conf>>
      PROVE  PersistInv'
  <2>1. t \in Tables
    BY PersistAssumption DEF Tables
  <2>2. gone' = [p \in Peers |->
                  IF /\ gone[p] = "stands"
                     /\ rows[p].state # "none"
                     /\ ~(t.present /\ p \notin t.lists /\ now.present)
                  THEN "asked" ELSE gone[p]]
    BY <1>1 DEF Edited
  <2>3. gone' \in [Peers -> {"no", "asked", "stands"}]
    BY <1>0, <2>2
  <2>4. \A p \in Peers : gone[p] = "no" => gone'[p] = "no"
    BY <2>2
  <2>5. ASSUME NEW p \in Peers, gone'[p] = "stands"
        PROVE  gone[p] = "stands" /\ (rows[p].state = "none" \/ TableKeeps(p))
    <3>1. gone[p] = "stands"
      BY <2>2, <2>5
    <3>2. CASE rows[p].state # "none"
      <4>1. t.present /\ p \notin t.lists /\ now.present /\ p \notin now.lists
        BY <1>1, <2>2, <2>5, <3>1, <3>2
      <4>2. \A u \in writing' \cup {table'} : u.present /\ p \notin u.lists
        BY <1>1, <4>1
      <4>3. listedFile' = listedFile
        BY <1>1 DEF listVars
      <4> QED BY <3>1, <4>2, <4>3 DEF TableKeeps
    <3> QED BY <3>1, <3>2
  <2> QED BY <1>1, <2>1, <2>3, <2>4, <2>5, OutsideInv
<1>2. ASSUME NEW t \in Edits, EditTable(t) PROVE PersistInv'
  <2>1. t \in Tables
    BY PersistAssumption DEF Tables
  <2>2. /\ Edited(t, t) /\ table' = t /\ writing' = {}
        /\ UNCHANGED <<entries, pairAgain, floor, diskVars, fileSeconds, unsaved, listVars,
                       phase, conf>>
    BY <1>2 DEF EditTable, storeVars, saverVars
  <2> QED BY <1>1, <2>1, <2>2
<1>3. ASSUME NEW t \in Edits, NEW part \in Tables, BeginInPlace(t, part) PROVE PersistInv'
  <2>1. /\ Edited(t, part) /\ table' = part /\ writing' = {t}
        /\ UNCHANGED <<entries, pairAgain, floor, diskVars, fileSeconds, unsaved, listVars,
                       phase, conf>>
    BY <1>3 DEF BeginInPlace, storeVars, saverVars
  <2>2. part.lists \subseteq t.lists
    BY <1>3 DEF BeginInPlace, Table, NoTable
  <2> QED BY <1>1, <2>1, <2>2
<1>4. CASE EndInPlace
  <2>1. /\ table' \in writing /\ writing' = {} /\ gone' = gone
        /\ UNCHANGED <<entries, pairAgain, floor, diskVars, fileSeconds, unsaved, listVars,
                       phase, conf>>
    BY <1>4 DEF EndInPlace, storeVars, saverVars, histVars
  <2>2. \A p : TableKeeps(p)
    BY <2>1 DEF TableKeeps, listVars
  <2> QED BY <1>0, <2>1, <2>2, OutsideInv
<1> QED BY <1>2, <1>3, <1>4 DEF FileNext

\* The daemon dies: the disk is as it was.
LEMMA CrashInv ==
  ASSUME PersistInv, StoreInv', Crash
  PROVE  PersistInv'
<1>0. DiskType /\ Booted /\ RemovalsStand
  BY DEF PersistInv
<1>1. /\ phase' = "down" /\ fileSeconds' = diskSeconds /\ unsaved' = "no"
      /\ conf' = NoTable /\ listed' = {}
      /\ UNCHANGED <<installed, rows, diskSeconds, table, writing, listedFile, gone>>
  BY DEF Crash, diskVars, fileVars, histVars
<1>2. NoTable \in Tables
  BY DEF NoTable, Tables
<1>3. DiskType'
  BY <1>0, <1>1, <1>2 DEF DiskType
<1>4. Booted' /\ Told'
  BY <1>0, <1>1 DEF Booted, Told
<1>5. \A p \in Peers : SurvivesRestart(p) => SurvivesRestart(p)'
  BY <1>1 DEF SurvivesRestart
<1>6. RemovalsStand'
  BY <1>0, <1>1, <1>5 DEF RemovalsStand, Standing
<1> QED BY <1>3, <1>4, <1>6 DEF PersistInv

\* Nothing but the clock, or nothing at all.
LEMMA ClockInv ==
  ASSUME PersistInv, StoreInv', (\E t \in Time : SetClock(t)) \/ UNCHANGED vars
  PROVE  PersistInv'
<1>1. UNCHANGED <<entries, pairAgain, floor, diskVars, fileVars, fileSeconds, unsaved, listVars,
                  phase, conf, gone>>
  BY DEF SetClock, ClockReads, vars, storeVars, saverVars, histVars
<1>2. \A p : TableKeeps(p)
  BY <1>1 DEF TableKeeps, listVars, fileVars
<1>3. /\ table' \in Tables /\ writing' \subseteq Tables
      /\ gone' \in [Peers -> {"no", "asked", "stands"}] /\ gone' = gone
  BY <1>1 DEF PersistInv, DiskType, fileVars
<1> QED BY <1>1, <1>2, <1>3, OutsideInv

----------------------------------------------------------------------------
(* The theorems *)

\* A machine never started, whatever table an older build left.
LEMMA PersistInitInv == Init => PersistInv
<1> SUFFICES ASSUME Init PROVE PersistInv
  OBVIOUS
<1>1. 0 \in Time
  BY ConstantsAssumption DEF Time
<1>2. StoreInit
  BY <1>1 DEF Init, StoreInit
<1>3. StoreInv
  BY <1>2, InitInv
<1>4. table \in Tables /\ conf \in Tables
  <2>1. NoTable \in Tables /\ \A ps \in SUBSET Peers : Table(ps) \in Tables
    BY DEF Tables, NoTable, Table
  <2> QED BY <2>1 DEF Init
<1>5. rows \in [Peers -> Row]
  BY BlankRows DEF Init
<1>6. DiskType
  BY <1>1, <1>4, <1>5 DEF Init, DiskType
<1>7. Booted /\ Told /\ RemovalsStand
  BY DEF Init, Booted, Told, RemovalsStand, Standing
<1> QED BY <1>3, <1>6, <1>7 DEF PersistInv

\* Every step keeps the invariant.
LEMMA PersistNextInv ==
  ASSUME PersistInv, [Next]_vars
  PROVE  PersistInv'
<1>1. StoreInv'
  BY StoreStep DEF PersistInv
<1>2. ASSUME NEW p \in Peers, Approve(p) \/ Settle(p) \/ EndPairing(p) \/ SwitchClipboard(p)
      PROVE  PersistInv'
  BY <1>1, <1>2, PairingHandlersInv
<1>3. ASSUME NEW p \in Peers, Remove(p) PROVE PersistInv'
  BY <1>1, <1>3, RemoveInv
<1>4. ASSUME NEW p \in Peers, RemoveFound(p) PROVE PersistInv'
  BY <1>1, <1>4, RemoveFoundInv
<1>5. CASE SweepTick \/ Reload \/ CheckRemovals
  BY <1>1, <1>5, QuietHandlersInv
<1>6. CASE SaveDevices
  BY <1>1, <1>6, SaveDevicesInv
<1>7. CASE StartLoad
  BY <1>1, <1>7, StartLoadInv
<1>8. CASE StartForget
  BY <1>1, <1>8, StartForgetInv
<1>9. CASE FileNext
  BY <1>1, <1>9, FileInv
<1>10. CASE Crash
  BY <1>1, <1>10, CrashInv
<1>11. CASE (\E t \in Time : SetClock(t)) \/ UNCHANGED vars
  BY <1>1, <1>11, ClockInv
<1> QED
  BY <1>2, <1>3, <1>4, <1>5, <1>6, <1>7, <1>8, <1>9, <1>10, <1>11, Zenon
  DEF Next, DaemonNext

\* The invariant holds of every behaviour.
LEMMA PersistInvariant == Spec => []PersistInv
<1>1. Init => PersistInv
  BY PersistInitInv
<1>2. PersistInv /\ [Next]_vars => PersistInv'
  BY PersistNextInv
<1> QED BY <1>1, <1>2, PTL DEF Spec

\* What a running daemon grants and what its disk would grant after a restart
\* differ only while the user is told so, whatever saves fail, wherever the
\* daemon dies and whatever the clock and config.toml are set to (TrustSaver).
THEOREM DifferencesAreTold == Spec => []DifferenceIsTold
<1>1. PersistInv => DifferenceIsTold
  BY DEF PersistInv, Told, DifferenceIsTold, Granted
<1> QED BY <1>1, PersistInvariant, PTL

\* A machine removed here is not brought back by a restart, when the removal
\* reached the sealed store or config.toml and the record beside it
\* (Listed::record_keeping, forget_removed_from_cache).
THEOREM RemovalsSurvive == Spec => []RemovalSurvives
<1>1. PersistInv => RemovalSurvives
  BY DEF PersistInv, RemovalsStand, Standing, Absent, RemovalSurvives, IsKnown
<1> QED BY <1>1, PersistInvariant, PTL

\* Through every restart, every failed save and every edit of the table, the
\* store keeps the invariant the verbs alone keep: it holds only leases its
\* load door accepts, and no machine both paired and listed to be paired again.
THEOREM StoreSurvivesRestarts == Spec => []StoreInv
<1>1. PersistInv => StoreInv
  BY DEF PersistInv
<1> QED BY <1>1, PersistInvariant, PTL

----------------------------------------------------------------------------
(* What the daemon forgets for being missing from config.toml *)

\* The disk takes every save.  Without this the property fails: a removal
\* whose save failed stays recorded until the next save_config, past a new
\* pairing of the same machine.
SavesSucceed == SaveOutcomes \subseteq {"ok"} /\ ConfigOutcomes \subseteq {"ok"}

\* Someone outside took the line out, and nothing has made it the daemon's own
\* doing since.
Explained(p) == cutBy[p] \in {"outside", "acted", "older"}

\* The line is in the file, or is missing for such a reason, or the file has
\* no table to be missing from.
Shown(p) == p \in Full.lists \/ ~Full.present \/ Explained(p)

\* What every step keeps: every line the daemon has in memory, on record or in
\* the list of removals to make is one the file shows, or shows taken out.
LinesShown ==
  /\ cutBy \in [Peers -> Cuts]
  /\ unsaved = "no"
  /\ \A p \in removing : p \in Peers /\ Explained(p)
  /\ writing = {} \/ \E t : writing = {t} /\ table.lists \subseteq t.lists
  /\ \A p \in Peers : (p \in listed \/ p \in listedFile \/ p \in conf.lists) => Shown(p)
  /\ "no removal" \notin forgot

\* The table a reader of the file ends up with: the one being written, if any.
LEMMA FullIs ==
  /\ writing = {} => Full = table
  /\ \A t : writing = {t} => Full = t
BY DEF Full

\* The part of a file written so far lists nothing the whole does not.
LEMMA PartOfFull == LinesShown => table.lists \subseteq Full.lists
<1> SUFFICES ASSUME LinesShown PROVE table.lists \subseteq Full.lists
  OBVIOUS
<1>1. CASE writing = {}
  BY <1>1, FullIs
<1>2. CASE \E t : writing = {t} /\ table.lists \subseteq t.lists
  BY <1>2, FullIs
<1> QED BY <1>1, <1>2 DEF LinesShown

\* What is forgotten with its line explained is not counted.
LEMMA ExplainedIsFounded ==
  ASSUME NEW p, Explained(p)
  PROVE  "no removal" \notin Unfounded(p)
BY DEF Explained, Unfounded

\* A step that leaves the file alone, and records or reads only lines that are
\* in it or were on record.
LEMMA FileLeftShown ==
  ASSUME LinesShown, UNCHANGED <<table, writing>>,
         \A p \in Peers : (p \in listed' \/ p \in listedFile' \/ p \in conf'.lists) =>
            (p \in listed \/ p \in listedFile \/ p \in conf.lists \/ p \in table.lists),
         cutBy' \in [Peers -> Cuts],
         \A p \in Peers : Explained(p) => Explained(p)',
         \A p \in removing' : p \in Peers /\ Explained(p)',
         unsaved' = "no", "no removal" \notin forgot'
  PROVE  LinesShown'
<1>1. Full' = Full
  <2>1. CASE writing = {}
    BY <2>1 DEF Full
  <2>2. ASSUME NEW t, writing = {t} PROVE Full' = Full
    BY <2>2 DEF Full
  <2> QED BY <2>1, <2>2 DEF LinesShown
<1>2. ASSUME NEW p \in Peers, p \in listed' \/ p \in listedFile' \/ p \in conf'.lists
      PROVE  Shown(p)'
  <2>1. Shown(p)
    BY <1>2, PartOfFull DEF LinesShown, Shown
  <2> QED BY <1>1, <2>1 DEF Shown
<1>3. writing' = {} \/ \E t : writing' = {t} /\ table'.lists \subseteq t.lists
  BY DEF LinesShown
<1> QED BY <1>2, <1>3 DEF LinesShown

\* The same when the history of the lines is left alone too.
LEMMA QuietShown ==
  ASSUME LinesShown, UNCHANGED <<table, writing, cutBy, forgot>>,
         \A p \in Peers : (p \in listed' \/ p \in listedFile' \/ p \in conf'.lists) =>
            (p \in listed \/ p \in listedFile \/ p \in conf.lists \/ p \in table.lists),
         \A p \in removing' : p \in removing,
         unsaved' = "no"
  PROVE  LinesShown'
<1>1. cutBy' \in [Peers -> Cuts] /\ "no removal" \notin forgot'
  BY DEF LinesShown
<1>2. \A p : Explained(p)' <=> Explained(p)
  BY DEF Explained
<1>3. \A p \in removing' : p \in Peers /\ Explained(p)'
  BY <1>2 DEF LinesShown
<1> QED BY <1>1, <1>2, <1>3, FileLeftShown

\* With saves that succeed, nothing is ever left unsaved.
LEMMA SavedAtOnce ==
  ASSUME SavesSucceed, PersistTrust \/ \E outcome \in SaveOutcomes : SaverSave(outcome, FALSE)
  PROVE  unsaved' = "no"
BY DEF SavesSucceed, PersistTrust, SaverSave

\* And the table, its copy in memory and the record of it are written as one.
LEMMA SaveConfigShown ==
  ASSUME SavesSucceed, LinesShown, StoreInv', NEW outcome \in ConfigOutcomes,
         SaveConfig(outcome), unsaved' = "no", removing' = {}, forgot' = forgot
  PROVE  LinesShown'
<1>1. outcome = "ok"
  BY DEF SavesSucceed
<1>2. /\ table' = Table(ConfigCache') /\ writing' = {} /\ conf' = Table(ConfigCache')
      /\ listed' = ConfigCache' \ pairAgain' /\ listedFile' = listed'
  BY <1>1 DEF SaveConfig
<1>3. cutBy' = [p \in Peers |->
                  CASE p \in table.lists \ ConfigCache' -> "unremoved"
                    [] p \in ConfigCache' \ Full.lists /\ p \in listed
                         /\ cutBy[p] = "outside" -> "restored"
                    [] OTHER -> cutBy[p]]
  BY <1>1 DEF SaveConfig
<1>4. cutBy' \in [Peers -> Cuts]
  <2>1. cutBy \in [Peers -> Cuts]
    BY DEF LinesShown
  <2>2. "unremoved" \in Cuts /\ "restored" \in Cuts
    BY DEF Cuts
  <2> QED BY <1>3, <2>1, <2>2
<1>5. Full' = Table(ConfigCache')
  BY <1>2 DEF Full
<1>6. \A p \in Peers : (p \in listed' \/ p \in listedFile' \/ p \in conf'.lists) => p \in Full'.lists
  BY <1>2, <1>5 DEF Table
<1>7. \A p \in Peers : (p \in listed' \/ p \in listedFile' \/ p \in conf'.lists) => Shown(p)'
  BY <1>6 DEF Shown
<1> QED BY <1>2, <1>4, <1>7 DEF LinesShown

\* The handlers that touch no line.
LEMMA HandlersShown ==
  ASSUME SavesSucceed, PersistInv, StoreInv', LinesShown,
         \/ \E p \in Peers : Approve(p) \/ Settle(p) \/ EndPairing(p) \/ SwitchClipboard(p)
         \/ SweepTick \/ Reload
  PROVE  LinesShown'
<1>0. cutBy \in [Peers -> Cuts] /\ unsaved = "no"
  BY DEF LinesShown
<1>1. ASSUME NEW p \in Peers, Approve(p) \/ EndPairing(p) \/ SwitchClipboard(p) PROVE LinesShown'
  <2>1. /\ PersistTrust
        /\ UNCHANGED <<table, writing, listed, listedFile, conf, cutBy, forgot, removing>>
    BY <1>1 DEF Approve, EndPairing, SwitchClipboard, TrustChange, fileVars, listVars,
                checkVars, histVars
  <2> QED BY <2>1, SavedAtOnce, QuietShown
<1>2. ASSUME NEW p \in Peers, Settle(p) PROVE LinesShown'
  <2>1. /\ PersistTrust
        /\ UNCHANGED <<table, writing, listed, listedFile, conf, forgot, removing>>
    BY <1>2 DEF Settle, TrustChange, fileVars, listVars, checkVars
  <2>2. cutBy' = [cutBy EXCEPT ![p] = IF cutBy[p] = "acted" THEN "older" ELSE cutBy[p]]
    BY <1>2, <2>1, SavedAtOnce DEF Settle
  <2>3. cutBy' \in [Peers -> Cuts]
    BY <1>0, <2>2 DEF Cuts
  <2>4. \A q \in Peers : Explained(q) => Explained(q)'
    BY <1>0, <2>2 DEF Explained
  <2>5. \A q \in removing' : q \in Peers /\ Explained(q)'
    BY <2>1, <2>4 DEF LinesShown
  <2>6. "no removal" \notin forgot'
    BY <2>1 DEF LinesShown
  <2> QED BY <2>1, <2>3, <2>4, <2>5, <2>6, SavedAtOnce, FileLeftShown
<1>3. CASE SweepTick
  <2>1. UNCHANGED <<table, writing, listed, listedFile, conf, cutBy, forgot, removing>>
    BY <1>3 DEF SweepTick, SweepSave, fileVars, listVars, checkVars, histVars
  <2>2. unsaved' = "no"
    <3>1. CASE \E outcome \in SaveOutcomes : SweepSave(outcome)
      BY <3>1, SavedAtOnce DEF SweepSave
    <3>2. CASE UNCHANGED saverVars
      BY <1>0, <3>2 DEF saverVars
    <3> QED BY <1>3, <3>1, <3>2 DEF SweepTick
  <2> QED BY <2>1, <2>2, QuietShown
<1>4. CASE Reload
  <2>1. /\ UNCHANGED <<table, writing, listed, listedFile, cutBy, forgot, removing, unsaved>>
        /\ conf' = table \/ conf' = conf
    BY <1>4 DEF Reload, fileVars, listVars, saverVars, histVars
  <2>2. \A p \in Peers : (p \in listed' \/ p \in listedFile' \/ p \in conf'.lists) =>
            (p \in listed \/ p \in listedFile \/ p \in conf.lists \/ p \in table.lists)
    BY <2>1
  <2> QED BY <1>0, <2>1, <2>2, QuietShown
<1> QED BY <1>1, <1>2, <1>3, <1>4

\* The handlers that end in a save_config.
LEMMA SavesShown ==
  ASSUME SavesSucceed, PersistInv, StoreInv', LinesShown,
         SaveDevices \/ \E p \in Peers : Remove(p)
  PROVE  LinesShown'
<1>1. CASE SaveDevices
  <2>1. unsaved' = "no" /\ removing' = {} /\ forgot' = forgot
    BY <1>1 DEF SaveDevices, saverVars, checkVars, Idle, LinesShown
  <2> PICK outcome \in ConfigOutcomes : SaveConfig(outcome)
    BY <1>1 DEF SaveDevices
  <2> QED BY <2>1, SaveConfigShown
<1>2. ASSUME NEW p \in Peers, Remove(p) PROVE LinesShown'
  <2>1. removing' = {} /\ forgot' = forgot /\ PersistTrust
    BY <1>2 DEF Remove, checkVars, Idle
  <2> PICK outcome \in ConfigOutcomes : SaveConfig(outcome)
    BY <1>2 DEF Remove
  <2> QED BY <2>1, SavedAtOnce, SaveConfigShown
<1> QED BY <1>1, <1>2

\* A line missing from both reads of a file nobody is writing is explained.
LEMMA FoundIsExplained ==
  ASSUME PersistInv, LinesShown, writing = {},
         NEW p \in Confirmed(RemovedFrom(conf), table)
  PROVE  p \in Peers /\ Explained(p)
<1>1. p \in listed /\ table.present /\ p \notin table.lists
  BY DEF Confirmed, RemovedFrom
<1>2. p \in Peers
  BY <1>1 DEF PersistInv, DiskType
<1> QED BY <1>1, <1>2, FullIs DEF LinesShown, Shown

\* Acting on a removal keeps every line explained that was.
LEMMA ActedOnKeeps ==
  ASSUME cutBy \in [Peers -> Cuts], NEW removed, cutBy' = ActedOn(removed)
  PROVE  /\ cutBy' \in [Peers -> Cuts]
         /\ \A p \in Peers : Explained(p) => Explained(p)'
<1>1. cutBy' = [p \in Peers |->
                  IF p \in removed /\ cutBy[p] = "outside" THEN "acted" ELSE cutBy[p]]
  BY DEF ActedOn
<1>2. "acted" \in Cuts
  BY DEF Cuts
<1>3. cutBy' \in [Peers -> Cuts]
  BY <1>1, <1>2
<1> QED BY <1>1, <1>3 DEF Explained

\* The check of the removals, and each removal it found.
LEMMA RemovalsShown ==
  ASSUME SavesSucceed, PersistInv, StoreInv', LinesShown,
         CheckRemovals \/ \E p \in Peers : RemoveFound(p)
  PROVE  LinesShown'
<1>0. cutBy \in [Peers -> Cuts] /\ unsaved = "no" /\ "no removal" \notin forgot
  BY DEF LinesShown
<1>1. CASE CheckRemovals
  <2>1. /\ writing = {} /\ removing' = Confirmed(RemovedFrom(conf), table)
        /\ UNCHANGED <<table, writing, listed, listedFile, conf, cutBy, forgot, unsaved>>
    BY <1>1 DEF CheckRemovals, fileVars, listVars, saverVars, histVars
  <2>2. \A p : Explained(p)' <=> Explained(p)
    BY <2>1 DEF Explained
  <2>3. \A p \in removing' : p \in Peers /\ Explained(p)'
    BY <2>1, <2>2, FoundIsExplained
  <2>4. /\ cutBy' \in [Peers -> Cuts] /\ unsaved' = "no" /\ "no removal" \notin forgot'
        /\ UNCHANGED <<table, writing, listed, listedFile, conf>>
    BY <1>0, <2>1
  <2> QED BY <2>2, <2>3, <2>4, FileLeftShown
<1>2. ASSUME NEW p \in Peers, RemoveFound(p) PROVE LinesShown'
  <2>1. /\ PersistTrust /\ p \in removing /\ removing' = removing \ {p}
        /\ forgot' = forgot \cup Unfounded(p) /\ cutBy' = ActedOn({p})
        /\ UNCHANGED <<table, writing, listed, listedFile, conf>>
    BY <1>2 DEF RemoveFound, fileVars, listVars
  <2>2. Explained(p)
    BY <2>1 DEF LinesShown
  <2>3. "no removal" \notin forgot'
    BY <1>0, <2>1, <2>2, ExplainedIsFounded
  <2>4. cutBy' \in [Peers -> Cuts] /\ \A q \in Peers : Explained(q) => Explained(q)'
    BY <1>0, <2>1, ActedOnKeeps
  <2>5. \A q \in removing' : q \in Peers /\ Explained(q)'
    BY <2>1, <2>4 DEF LinesShown
  <2> QED BY <2>1, <2>3, <2>4, <2>5, SavedAtOnce, FileLeftShown
<1> QED BY <1>1, <1>2

\* A start, and the death of the daemon.
LEMMA RestartShown ==
  ASSUME SavesSucceed, PersistInv, StoreInv', LinesShown, StartLoad \/ StartForget \/ Crash
  PROVE  LinesShown'
<1>0. cutBy \in [Peers -> Cuts] /\ unsaved = "no" /\ "no removal" \notin forgot
  BY DEF LinesShown
<1>1. CASE StartLoad
  <2>1. /\ UNCHANGED <<table, writing, listedFile, cutBy, forgot>> /\ unsaved' = "no"
        /\ listed' = listedFile /\ conf' = table /\ removing' = {}
    BY <1>1 DEF StartLoad, fileVars, histVars
  <2>2. \A p \in Peers : (p \in listed' \/ p \in listedFile' \/ p \in conf'.lists) =>
            (p \in listed \/ p \in listedFile \/ p \in conf.lists \/ p \in table.lists)
    BY <2>1
  <2> QED BY <2>1, <2>2, QuietShown
<1>2. CASE Crash
  <2>1. /\ UNCHANGED <<table, writing, listedFile, cutBy, forgot>> /\ unsaved' = "no"
        /\ listed' = {} /\ conf'.lists = {} /\ removing' = {}
    BY <1>2 DEF Crash, fileVars, histVars, NoTable
  <2> QED BY <2>1, QuietShown
<1>3. CASE StartForget
  <2> DEFINE found == RemovedFrom(conf)
             removed == IF found = {} THEN {} ELSE Confirmed(found, table)
             lists == IF conf.present THEN conf.lists \cap Removable' ELSE {}
             next == lists \cup (IF unsaved' # "no" \/ removed # found \/ ~conf.present
                                 THEN listed ELSE {})
  <2>1. /\ found # {} => writing = {}
        /\ UNCHANGED <<table, writing, conf, removing>>
        /\ forgot' = forgot \cup UNION {Unfounded(p) : p \in removed}
        /\ cutBy' = ActedOn(removed)
    BY <1>3 DEF StartForget, fileVars, checkVars
  <2>2. unsaved' = "no"
    <3>1. CASE PersistTrust
      BY <3>1, SavedAtOnce
    <3>2. CASE UNCHANGED saverVars
      BY <1>0, <3>2 DEF saverVars
    <3> QED BY <1>3, <3>1, <3>2 DEF StartForget
  <2>3. (listed' = next /\ listedFile' = next) \/ UNCHANGED <<listed, listedFile>>
    BY <1>3 DEF StartForget, listVars
  <2>4. next \subseteq conf.lists \cup listed
    OBVIOUS
  <2>5. \A p \in Peers : (p \in listed' \/ p \in listedFile' \/ p \in conf'.lists) =>
            (p \in listed \/ p \in listedFile \/ p \in conf.lists \/ p \in table.lists)
    BY <2>1, <2>3, <2>4
  <2>6. \A p \in removed : p \in Peers /\ Explained(p)
    BY <2>1, FoundIsExplained
  <2> HIDE DEF removed, next
  <2>7. "no removal" \notin forgot'
    BY <1>0, <2>1, <2>6, ExplainedIsFounded
  <2>8. cutBy' \in [Peers -> Cuts] /\ \A q \in Peers : Explained(q) => Explained(q)'
    BY <1>0, <2>1, ActedOnKeeps
  <2>9. \A q \in removing' : q \in Peers /\ Explained(q)'
    BY <2>1, <2>8 DEF LinesShown
  <2>10. UNCHANGED <<table, writing>>
    BY <2>1
  <2> QED BY <2>2, <2>5, <2>7, <2>8, <2>9, <2>10, FileLeftShown
<1> QED BY <1>1, <1>2, <1>3

\* An edit from outside explains every line it takes out.
LEMMA EditsShown ==
  ASSUME PersistInv, LinesShown, FileNext
  PROVE  LinesShown'
<1>0. cutBy \in [Peers -> Cuts] /\ unsaved = "no" /\ "no removal" \notin forgot
  BY DEF LinesShown
<1>1. ASSUME NEW t, NEW now, Edited(t, now), Full' = t,
             writing' = {} \/ (writing' = {t} /\ table'.lists \subseteq t.lists),
             UNCHANGED <<listed, listedFile, conf, unsaved, removing>>
      PROVE  LinesShown'
  <2>1. /\ cutBy' = [p \in Peers |-> IF p \in TakenOut(t) THEN "outside" ELSE cutBy[p]]
        /\ forgot' = forgot
    BY <1>1 DEF Edited
  <2>2. "outside" \in Cuts
    BY DEF Cuts
  <2>3. cutBy' \in [Peers -> Cuts]
    BY <1>0, <2>1, <2>2
  <2>4. \A p \in Peers : Explained(p) => Explained(p)'
    BY <2>1 DEF Explained
  <2>5. \A p \in Peers : p \in TakenOut(t) => Explained(p)'
    BY <2>1 DEF Explained
  <2>6. ASSUME NEW p \in Peers, Shown(p) PROVE Shown(p)'
    <3>1. CASE ~t.present \/ p \in t.lists
      BY <1>1, <3>1 DEF Shown
    <3>2. CASE Explained(p)
      BY <2>4, <3>2 DEF Shown
    <3>3. CASE t.present /\ p \notin t.lists /\ ~Explained(p)
      <4>1. p \in TakenOut(t)
        BY <2>6, <3>3 DEF Shown, TakenOut
      <4> QED BY <2>5, <4>1 DEF Shown
    <3> QED BY <3>1, <3>2, <3>3
  <2>7. \A p \in Peers : (p \in listed' \/ p \in listedFile' \/ p \in conf'.lists) => Shown(p)'
    BY <1>1, <2>6 DEF LinesShown
  <2>8. \A p \in removing' : p \in Peers /\ Explained(p)'
    BY <1>1, <2>4 DEF LinesShown
  <2>9. writing' = {} \/ \E u : writing' = {u} /\ table'.lists \subseteq u.lists
    BY <1>1
  <2> QED BY <1>0, <1>1, <2>1, <2>3, <2>7, <2>8, <2>9 DEF LinesShown
<1>2. ASSUME NEW t \in Edits, EditTable(t) PROVE LinesShown'
  <2>1. /\ Edited(t, t) /\ table' = t /\ writing' = {}
        /\ UNCHANGED <<listed, listedFile, conf, unsaved, removing>>
    BY <1>2 DEF EditTable, listVars, saverVars
  <2>2. Full' = t
    BY <2>1 DEF Full
  <2> QED BY <1>1, <2>1, <2>2
<1>3. ASSUME NEW t \in Edits, NEW part \in Tables, BeginInPlace(t, part) PROVE LinesShown'
  <2>1. /\ Edited(t, part) /\ table' = part /\ writing' = {t}
        /\ UNCHANGED <<listed, listedFile, conf, unsaved, removing>>
    BY <1>3 DEF BeginInPlace, listVars, saverVars
  <2>2. part.lists \subseteq t.lists
    BY <1>3 DEF BeginInPlace, Table, NoTable
  <2>3. Full' = t
    BY <2>1 DEF Full
  <2> QED BY <1>1, <2>1, <2>2, <2>3
<1>4. CASE EndInPlace
  <2>1. /\ writing # {} /\ table' \in writing /\ writing' = {}
        /\ UNCHANGED <<listed, listedFile, conf, unsaved, removing, cutBy, forgot>>
    BY <1>4 DEF EndInPlace, listVars, saverVars, histVars
  <2> PICK t : writing = {t}
    BY <2>1 DEF LinesShown
  <2>2. Full = t /\ Full' = t
    BY <2>1, FullIs DEF Full
  <2>3. \A p : (Explained(p)' <=> Explained(p)) /\ (Shown(p)' <=> Shown(p))
    BY <2>1, <2>2 DEF Explained, Shown
  <2> QED BY <2>1, <2>3 DEF LinesShown
<1> QED BY <1>2, <1>3, <1>4 DEF FileNext

\* The daemon forgets a machine for being missing from config.toml only when
\* someone outside took its line out: for any machines, any edits, whole or in
\* place, any clock and a crash between any two steps, as long as the disk
\* takes every save (cache_listed.rs, Listed::removed and confirmed).
THEOREM ForgetsTheRemovedOnly == SavesSucceed => (Spec => []ForgetsOnlyWhatWasRemoved)
<1> SUFFICES ASSUME SavesSucceed PROVE Spec => []ForgetsOnlyWhatWasRemoved
  OBVIOUS
<1>1. Init => LinesShown
  <2> SUFFICES ASSUME Init PROVE LinesShown
    OBVIOUS
  <2>1. cutBy \in [Peers -> Cuts]
    BY DEF Init, Cuts
  <2> QED BY <2>1 DEF Init, LinesShown, NoTable
<1>2. PersistInv /\ PersistInv' /\ LinesShown /\ [Next]_vars => LinesShown'
  <2> SUFFICES ASSUME PersistInv, PersistInv', LinesShown, [Next]_vars PROVE LinesShown'
    OBVIOUS
  <2>0. StoreInv'
    BY DEF PersistInv
  <2>1. ASSUME NEW p \in Peers, Approve(p) \/ Settle(p) \/ EndPairing(p) \/ SwitchClipboard(p)
        PROVE  LinesShown'
    BY <2>0, <2>1, HandlersShown
  <2>2. CASE SweepTick \/ Reload
    BY <2>0, <2>2, HandlersShown
  <2>3. ASSUME NEW p \in Peers, Remove(p) PROVE LinesShown'
    BY <2>0, <2>3, SavesShown
  <2>4. CASE SaveDevices
    BY <2>0, <2>4, SavesShown
  <2>5. ASSUME NEW p \in Peers, RemoveFound(p) PROVE LinesShown'
    BY <2>0, <2>5, RemovalsShown
  <2>6. CASE CheckRemovals
    BY <2>0, <2>6, RemovalsShown
  <2>7. CASE StartLoad \/ StartForget \/ Crash
    BY <2>0, <2>7, RestartShown
  <2>8. CASE FileNext
    BY <2>8, EditsShown
  <2>9. CASE (\E t \in Time : SetClock(t)) \/ UNCHANGED vars
    <3>1. UNCHANGED <<table, writing, cutBy, forgot, listed, listedFile, conf, removing, unsaved>>
      BY <2>9 DEF SetClock, vars, fileVars, listVars, saverVars, checkVars, histVars
    <3>2. unsaved' = "no"
      BY <3>1 DEF LinesShown
    <3> QED BY <3>1, <3>2, QuietShown
  <2> QED
    BY <2>1, <2>2, <2>3, <2>4, <2>5, <2>6, <2>7, <2>8, <2>9, Zenon DEF Next, DaemonNext
<1>3. LinesShown => ForgetsOnlyWhatWasRemoved
  BY DEF LinesShown, ForgetsOnlyWhatWasRemoved
<1> QED BY <1>1, <1>2, <1>3, PersistInvariant, PTL DEF Spec
====
