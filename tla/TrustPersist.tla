---- MODULE TrustPersist ----
(***************************************************************************)
(* The trust store across restarts: the sealed file and its floor          *)
(* (src/src/trust_file.rs), the saver that retries (trust_save.rs), the    *)
(* [authorized_fingerprints] table the daemon writes to config.toml as a   *)
(* cache and reads only for removals (cache_listed.rs, config.rs), and the *)
(* service handlers that change trust and save it (service.rs).            *)
(*                                                                         *)
(* The daemon is one loop: a handler runs to its end before the next.      *)
(* Between handlers the process may die, the disk may refuse a write, and  *)
(* a person or an older build may edit config.toml, in one rename or in    *)
(* place.                                                                  *)
(*                                                                         *)
(* Serial numbers are kept as their order: whether the floor file's serial *)
(* is behind, level with or ahead of the store's.  Version 1 stores, their *)
(* copies and the [revoked_fingerprints] table are left out.               *)
(***************************************************************************)
EXTENDS TrustRows

CONSTANTS
  Answers,        \* the answers the pairing card is given: controller, clipboard
  Edits,          \* the tables an edit of config.toml from outside may leave
  SaveOutcomes,   \* how a save of the sealed store may end
  ConfigOutcomes  \* how a save of config.toml and the list beside it may end

ASSUME PersistAssumption ==
  /\ Answers \subseteq [controller : Controllers, clipboard : BOOLEAN]
  /\ Edits \subseteq [present : BOOLEAN, lists : SUBSET Peers]
  /\ SaveOutcomes \subseteq {"ok", "store-failed", "floor-failed"}
  /\ ConfigOutcomes \subseteq {"ok", "file-failed", "record-failed", "unrecord-failed"}

VARIABLES
  \* on disk
  installed,    \* a sealed store has been written
  rows,         \* Peers -> Row: its records
  floorFile,    \* the floor file's serial against the store's
  diskSeconds,  \* the time the two files carry
  table,        \* [authorized_fingerprints] in config.toml
  writing,      \* what an in-place write of that file still has to reach
  listedFile,   \* authorized_fingerprints.listed
  \* in the daemon's memory, lost with it
  phase,        \* "down", "starting" (store loaded, removals not yet read) or "up"
  fileSeconds,  \* TrustFile.floor_seconds
  savedFloor,   \* TrustSaver.saved_floor
  unsaved,      \* TrustSaver.unsaved: "no", "floor" (no change named), "change"
  conf,         \* the table as last read or set
  listed,       \* Listed.fingerprints
  edited,       \* the watcher has an edit to report
  removalCheck, \* a removal check is due
  removing,     \* removals check_removals found and has yet to make
  \* history
  gone,         \* Peers -> "no", "asked" (removed here, not paired since) or
                \* "stands" (and in a way that must survive a restart)
  cutBy,        \* Peers -> how its line last left the table: see Cuts
  forgot        \* machines forgotten as removed from the file for no such reason

diskVars == <<installed, rows, floorFile, diskSeconds>>
fileVars == <<table, writing>>
listVars == <<listed, listedFile>>
saverVars == <<fileSeconds, savedFloor, unsaved>>
checkVars == <<edited, removalCheck, removing>>
histVars == <<gone, cutBy, forgot>>
vars == <<storeVars, diskVars, fileVars, listVars, saverVars, checkVars, histVars,
          phase, conf>>

Tables == [present : BOOLEAN, lists : SUBSET Peers]
NoTable == [present |-> FALSE, lists |-> {}]
Table(ps) == [present |-> TRUE, lists |-> ps]

\* A line nobody outside took out (the daemon's own save may have); one taken
\* out outside; that removal acted on by the daemon; older than a pairing made
\* since; or the line written back by a save before the removal was read.
Cuts == {"unremoved", "outside", "acted", "older", "restored"}

Later(a, b) == IF a > b THEN a ELSE b

\* The table a person or an older build sees or is about to have written.
Full == IF writing = {} THEN table ELSE CHOOSE t \in writing : TRUE

----------------------------------------------------------------------------
(* Saving *)

Rebuilt == [p \in Peers |-> RebuiltLease(rows[p])]
RebuiltPairAgain == {p \in Peers : rows[p].state = "pair-again"}

FileNow == Later(sys, fileSeconds)

\* TrustFile::save: the store first, then the floor.  Reads the store as the
\* handler leaves it.
SaveFile(outcome) ==
  /\ outcome # "store-failed" => Validates'
  /\ IF outcome = "store-failed"
     THEN UNCHANGED <<diskVars, fileSeconds>>
     ELSE /\ installed' = TRUE
          /\ rows' = Records'
          /\ diskSeconds' = FileNow
          /\ fileSeconds' = FileNow
          /\ floorFile' = IF outcome = "ok" THEN "level" ELSE "behind"

\* Mutant of SaverSave: a retry that fails forgets the change it was for.
SaverSaveForgets(outcome, what) ==
  /\ SaveFile(outcome)
  /\ IF outcome = "ok"
     THEN savedFloor' = Later(savedFloor, floor') /\ unsaved' = "no"
     ELSE unsaved' = (IF what THEN "change" ELSE "floor") /\ UNCHANGED savedFloor

\* TrustSaver::save, naming the change (what = TRUE) or retrying.
SaverSave(outcome, what) ==
  /\ SaveFile(outcome)
  /\ IF outcome = "ok"
     THEN /\ savedFloor' = Later(savedFloor, floor')
          /\ unsaved' = "no"
     ELSE /\ unsaved' = IF what \/ unsaved = "change" THEN "change" ELSE "floor"
          /\ UNCHANGED savedFloor

PersistTrust == \E outcome \in SaveOutcomes : SaverSave(outcome, TRUE)

\* Mutant of SaveConfig: the record follows the table while a change waits.
SaveConfigDrops(outcome) ==
  LET written == ConfigCache' IN
  /\ conf' = Table(written)
  /\ IF outcome = "file-failed" THEN UNCHANGED fileVars
     ELSE table' = Table(written) /\ writing' = {}
  /\ listed' = IF outcome \in {"file-failed", "record-failed"} THEN listed ELSE written
  /\ listedFile' = IF outcome \in {"file-failed", "record-failed"} THEN listedFile ELSE listed'
  /\ UNCHANGED cutBy

\* Service::save_config: the cache goes to config.toml and, once it is there,
\* to the record of what that file has listed.  While a trust change waits to
\* reach disk nothing recorded is dropped.
SaveConfig(outcome) ==
  LET written == ConfigCache'
      kept == IF unsaved' # "no" THEN listed ELSE {}
      recorded == written \cup kept IN
  /\ conf' = Table(written)
  /\ IF outcome = "file-failed" THEN UNCHANGED fileVars
     ELSE table' = Table(written) /\ writing' = {}
  /\ listed' = CASE outcome \in {"file-failed", "record-failed"} -> listed
                 [] outcome = "unrecord-failed" -> recorded
                 [] outcome = "ok" -> recorded \ pairAgain'
  /\ listedFile' = IF outcome \in {"file-failed", "record-failed"} THEN listedFile ELSE listed'
  /\ cutBy' = IF outcome = "file-failed" THEN cutBy
              ELSE [p \in Peers |->
                      CASE p \in table.lists \ written -> "unremoved"
                        [] p \in written \ Full.lists /\ p \in listed
                             /\ cutBy[p] = "outside" -> "restored"
                        [] OTHER -> cutBy[p]]

----------------------------------------------------------------------------
(* Removals read from config.toml *)

Removable == ConfigCache \cup pairAgain

\* Mutant of RemovedFrom: what was never listed counts as removed.
RemovedUnlisted(t) == IF t.present THEN Removable \ t.lists ELSE {}

\* Listed::removed: recorded as listed, held by the store, not in the table.
RemovedFrom(t) == IF t.present THEN (Removable \cap listed) \ t.lists ELSE {}

\* confirmed: a second read of the file agrees.
Confirmed(found, t) == IF t.present THEN found \ t.lists ELSE {}

\* History: that p is forgotten for its line being gone with no removal of it
\* standing behind that.
Unfounded(p) ==
  IF gone[p] # "no" \/ cutBy[p] \in {"outside", "acted"} THEN {}
  ELSE IF cutBy[p] = "older" THEN {"older removal"} ELSE {"no removal"}

ActedOn(removed) ==
  [p \in Peers |-> IF p \in removed /\ cutBy[p] = "outside" THEN "acted" ELSE cutBy[p]]

----------------------------------------------------------------------------
(* The daemon *)

Idle == phase = "up" /\ removing = {}

\* A change to trust asked for by a frontend or ended by a link, and its save.
TrustChange ==
  /\ Idle
  /\ PersistTrust
  /\ UNCHANGED <<fileVars, listVars, checkVars, phase, conf>>

\* add_authorized_key: a prompt approved.
Approve(p) ==
  /\ \E a \in Answers : IssueAnswered(p, a.controller, a.clipboard)
  /\ TrustChange
  /\ gone' = [gone EXCEPT ![p] = IF @ = "stands" THEN "asked" ELSE @]
  /\ UNCHANGED <<cutBy, forgot>>

\* settle_pairing: both machines confirmed.
Settle(p) ==
  /\ IsPairing(p)
  /\ Confirm(p)
  /\ TrustChange
  /\ IF unsaved' = "no"
     THEN /\ gone' = [gone EXCEPT ![p] = "no"]
          /\ cutBy' = [cutBy EXCEPT ![p] = IF @ = "acted" THEN "older" ELSE @]
     ELSE UNCHANGED <<gone, cutBy>>
  /\ UNCHANGED forgot

\* forget_pairing: a pairing that ended unconfirmed.
EndPairing(p) ==
  /\ ForgetUnconfirmed(p)
  /\ TrustChange
  /\ UNCHANGED histVars

SwitchClipboard(p) ==
  /\ DisableClipboard(p) \/ EnableClipboard(p)
  /\ TrustChange
  /\ UNCHANGED histVars

\* A removal that must survive: it is on disk, or the record says the table
\* listed the machine, the table does not, nor will it once an in-place write
\* ends, and the store on disk is one a start takes such a machine from: its
\* pairing lets it control this machine, and is in force by the saved clock.  A
\* pairing made ahead of that clock is not seen as removable (config_cache).
SurvivesRestart(p) ==
  \/ rows[p].state = "none"
  \/ /\ p \in listedFile
     /\ \A t \in writing \cup {table} : t.present /\ p \notin t.lists
     /\ "drive-me" \in RebuiltLease(rows[p]).caps
     /\ rows[p].issued_at <= diskSeconds

\* remove_authorized_key, then the save_config its request handler ends with.
\* forget_machine_that_removed_this_one makes the same changes, to a machine
\* it knows.
Remove(p) ==
  /\ IsKnown(p) \/ p \in pairAgain
  /\ Idle
  /\ Forget(p)
  /\ PersistTrust
  /\ \E outcome \in ConfigOutcomes : SaveConfig(outcome)
  /\ gone' = [gone EXCEPT ![p] = IF SurvivesRestart(p)' THEN "stands" ELSE "asked"]
  /\ UNCHANGED <<checkVars, phase, forgot>>

\* Any of the requests that end in save_config and change no trust.
SaveDevices ==
  /\ Idle
  /\ UNCHANGED <<storeVars, diskVars, saverVars, checkVars, gone, forgot, phase>>
  /\ \E outcome \in ConfigOutcomes : SaveConfig(outcome)

\* Mutant of SweepSave: the retry waits for the floor to move.
SweepSaveOnFloor(outcome) ==
  /\ Idle
  /\ Sweep
  /\ floor' > savedFloor
  /\ SaverSave(outcome, FALSE)
  /\ UNCHANGED <<fileVars, listVars, checkVars, histVars, phase, conf>>

\* The minute tick: sweep_lapsed_leases, which saves while anything waits or
\* when the floor has moved.
SweepSave(outcome) ==
  /\ Idle
  /\ Sweep
  /\ unsaved # "no" \/ floor' > savedFloor
  /\ SaverSave(outcome, FALSE)
  /\ UNCHANGED <<fileVars, listVars, checkVars, histVars, phase, conf>>

SweepTick ==
  \/ \E outcome \in SaveOutcomes : SweepSave(outcome)
  \/ /\ Idle
     /\ Sweep
     /\ ~(unsaved # "no" \/ floor' > savedFloor)
     /\ UNCHANGED <<diskVars, fileVars, listVars, saverVars, checkVars, histVars, phase, conf>>

\* handle_config_change: the watcher reported an edit, and the file parses; a
\* check of the removals in it is due once the file has settled.  A file part
\* written may not parse, and is then left for the next report.
Reload ==
  /\ Idle /\ edited
  /\ edited' = FALSE
  /\ \/ conf' = table /\ removalCheck' = TRUE
     \/ writing # {} /\ UNCHANGED <<conf, removalCheck>>
  /\ UNCHANGED <<storeVars, diskVars, fileVars, listVars, saverVars, histVars, phase, removing>>

\* check_removals, a second after the last reload: an in-place write that was
\* under way then has ended.
CheckRemovals ==
  /\ Idle /\ removalCheck /\ ~edited
  /\ writing = {}
  /\ removalCheck' = FALSE
  /\ removing' = Confirmed(RemovedFrom(conf), table)
  /\ UNCHANGED <<storeVars, diskVars, fileVars, listVars, saverVars, histVars, phase, conf, edited>>

\* Each removal it found, in turn: remove_authorized_key, with no save_config.
RemoveFound(p) ==
  /\ phase = "up" /\ p \in removing
  /\ removing' = removing \ {p}
  /\ Forget(p)
  /\ PersistTrust
  /\ forgot' = forgot \cup Unfounded(p)
  /\ cutBy' = ActedOn({p})
  /\ UNCHANGED <<fileVars, listVars, phase, conf, edited, removalCheck, gone>>

\* TrustFile::open: a store older than its floor is refused as rolled back.
Opens == floorFile # "ahead"

\* The daemon starts: reads the config and the list, opens the sealed store
\* and rebuilds it, or migrates the table an older build left.  A first store
\* that cannot be saved stops the start.
StartLoad ==
  /\ phase = "down"
  /\ Opens
  /\ phase' = "starting"
  /\ conf' = table
  /\ listed' = listedFile
  /\ unsaved' = "no" /\ savedFloor' = 0
  /\ edited' = FALSE /\ removalCheck' = FALSE /\ removing' = {}
  /\ floor' = Later(sys, diskSeconds)
  /\ entries' = Rebuilt
  /\ said' = [p \in Peers |-> Rebuilt[p].caps]
  /\ IF installed
     THEN /\ pairAgain' = RebuiltPairAgain
          /\ IF \E p \in Peers : rows[p].state = "active" /\ ~rows[p].confirmed
             THEN \E outcome \in SaveOutcomes : SaveFile(outcome)
             ELSE UNCHANGED <<diskVars, fileSeconds>>
     ELSE /\ pairAgain' = table.lists
          /\ SaveFile("ok")
  /\ UNCHANGED <<sys, fileVars, listedFile, histVars>>

\* forget_removed_from_cache and record_listed: the removals two reads of the
\* file agree on, a second apart, and what the table is recorded as listing.
\* record_keeping's write may fail, which leaves the record as it was.
StartForget ==
  LET found == RemovedFrom(conf)
      removed == IF found = {} THEN {} ELSE Confirmed(found, table)
      lists == IF conf.present THEN conf.lists \cap Removable' ELSE {} IN
  /\ phase = "starting"
  /\ found # {} => writing = {}
  /\ phase' = "up"
  /\ UNCHANGED <<floor, sys, fileVars, checkVars, conf, gone>>
  /\ entries' = [p \in Peers |-> IF p \in removed THEN NoLease ELSE entries[p]]
  /\ said' = [p \in Peers |-> IF p \in removed THEN {} ELSE said[p]]
  /\ pairAgain' = pairAgain \ removed
  /\ forgot' = forgot \cup UNION {Unfounded(p) : p \in removed}
  /\ cutBy' = ActedOn(removed)
  /\ IF removed # {} THEN PersistTrust ELSE UNCHANGED <<diskVars, saverVars>>
  /\ LET keep == unsaved' # "no" \/ removed # found \/ ~conf.present
         next == lists \cup (IF keep THEN listed ELSE {}) IN
     \/ listed' = next /\ listedFile' = next
     \/ UNCHANGED listVars

Crash ==
  /\ phase # "down"
  /\ phase' = "down"
  /\ entries' = [p \in Peers |-> NoLease]
  /\ said' = [p \in Peers |-> {}]
  /\ pairAgain' = {} /\ floor' = 0
  /\ fileSeconds' = diskSeconds /\ savedFloor' = 0 /\ unsaved' = "no"
  /\ conf' = NoTable /\ listed' = {}
  /\ edited' = FALSE /\ removalCheck' = FALSE /\ removing' = {}
  /\ UNCHANGED <<sys, diskVars, fileVars, listedFile, histVars>>

----------------------------------------------------------------------------
(* The file, edited from outside *)

\* The lines an edit that ends as t takes out.  A file with no table removes
\* nothing by itself; one that has a table again removes what it lacks.
TakenOut(t) ==
  IF ~t.present THEN {} ELSE IF Full.present THEN Full.lists \ t.lists ELSE Peers \ t.lists

\* History: a removal here that has not reached the store on disk stands only
\* while the table shows it.
Edited(t, now) ==
  /\ cutBy' = [p \in Peers |-> IF p \in TakenOut(t) THEN "outside" ELSE cutBy[p]]
  /\ gone' = [p \in Peers |->
                IF /\ gone[p] = "stands"
                   /\ rows[p].state # "none"
                   /\ ~(t.present /\ p \notin t.lists /\ now.present)
                THEN "asked" ELSE gone[p]]
  /\ edited' = (phase = "up")
  /\ UNCHANGED forgot

\* The file replaced whole, as an editor's rename does.
EditTable(t) ==
  /\ table' = t /\ writing' = {}
  /\ Edited(t, t)
  /\ UNCHANGED <<storeVars, diskVars, listVars, saverVars, phase, conf, removalCheck, removing>>

\* The file written in place, as an older build does: part of it first.
BeginInPlace(t, part) ==
  /\ writing = {}
  /\ part \in {Table(ps) : ps \in SUBSET t.lists} \cup {NoTable}
  /\ table' = part /\ writing' = {t}
  /\ Edited(t, part)
  /\ UNCHANGED <<storeVars, diskVars, listVars, saverVars, phase, conf, removalCheck, removing>>

EndInPlace ==
  /\ writing # {}
  /\ table' \in writing /\ writing' = {}
  /\ edited' = (phase = "up")
  /\ UNCHANGED <<storeVars, diskVars, listVars, saverVars, histVars, phase, conf,
                 removalCheck, removing>>

SetClock(t) ==
  /\ ClockReads(t)
  /\ UNCHANGED <<diskVars, fileVars, listVars, saverVars, checkVars, histVars, phase, conf>>

----------------------------------------------------------------------------

Init ==
  /\ entries = [p \in Peers |-> NoLease] /\ said = [p \in Peers |-> {}]
  /\ pairAgain = {} /\ floor = 0 /\ sys \in Time
  /\ installed = FALSE /\ rows = [p \in Peers |-> NoRow]
  /\ floorFile = "level" /\ diskSeconds = 0
  /\ table \in {NoTable} \cup {Table(ps) : ps \in SUBSET Peers} /\ writing = {}
  /\ listed = {} /\ listedFile = {}
  /\ fileSeconds = 0 /\ savedFloor = 0 /\ unsaved = "no"
  /\ edited = FALSE /\ removalCheck = FALSE /\ removing = {}
  /\ gone = [p \in Peers |-> "no"] /\ cutBy = [p \in Peers |-> "unremoved"] /\ forgot = {}
  /\ phase = "down" /\ conf = NoTable

DaemonNext ==
  \/ \E p \in Peers : \/ Approve(p) \/ Settle(p) \/ EndPairing(p)
                      \/ SwitchClipboard(p) \/ Remove(p) \/ RemoveFound(p)
  \/ SaveDevices \/ SweepTick \/ Reload \/ CheckRemovals
  \/ StartLoad \/ StartForget

FileNext ==
  \/ \E t \in Edits : \/ EditTable(t)
                     \/ \E part \in Tables : BeginInPlace(t, part)
  \/ EndInPlace

Next ==
  \/ DaemonNext
  \/ FileNext
  \/ Crash
  \/ \E t \in Time : SetClock(t)

Spec == Init /\ [][Next]_vars

\* The sweep runs every minute for as long as the daemon does, and a disk that
\* refused a save is assumed to take one in the end; a handler that has begun
\* runs to its end.
FairSpec ==
  /\ Spec
  /\ SF_vars(SweepSave("ok"))
  /\ WF_vars(\E p \in Peers : RemoveFound(p))

----------------------------------------------------------------------------
(* Correctness *)

\* What a running daemon grants and what its disk would grant after a restart
\* differ only while the user is being told so: a change that failed to save
\* stays named, through later saves, retries and failures (TrustSaver).
DifferenceIsTold ==
  phase = "up" =>
    \A p \in Peers :
      RebuiltLease(rows[p]).caps # (IF entries[p].confirmed THEN entries[p].caps ELSE {})
        => unsaved = "change"

\* A machine removed here stays removed through every restart, also when the
\* sealed store could not be written, as long as config.toml could: what the
\* table is recorded as having listed is kept while the change waits
\* (Listed::record_keeping, forget_removed_from_cache).
RemovalSurvives == phase = "up" => \A p \in Peers : gone[p] = "stands" => ~IsKnown(p)

\* The daemon forgets a machine for being missing from config.toml only when
\* someone outside took its line out, or someone removed it here: not one
\* whose line it dropped itself and which was paired again since, and not one
\* missing from a file still being written (cache_listed.rs).  A removal acted
\* on a second time, after a new pairing, is told apart and not counted here.
ForgetsOnlyWhatWasRemoved == "no removal" \notin forgot

\* A change that failed to save reaches disk in the end, whatever the clock
\* does: the retry is not tied to the floor moving (TrustSaver::sweep).
RetriedUntilSaved == (unsaved = "change") ~> (unsaved = "no")
====
