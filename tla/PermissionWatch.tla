---- MODULE PermissionWatch ----
(***************************************************************************)
(* macOS permissions that come and go while the daemon runs: the watch     *)
(* (src/src/permission_watch.rs), the gate before an event tap             *)
(* (input-event/src/accessibility.rs), the handlers that act on what it    *)
(* finds and that tell it which side runs (service.rs), and launchd, which *)
(* starts a daemon that exits unsuccessfully again.                        *)
(*                                                                         *)
(* A check runs off the loop: what it is asked is fixed when it begins,    *)
(* the system answers some time later, and the loop reads the answer later *)
(* still.  The sides stop, fail and start meanwhile, and the service hears *)
(* of that through queues of its own.                                      *)
(***************************************************************************)
EXTENDS Naturals, Sequences

CONSTANTS
  RefusalsBeforeRevoked,  \* REFUSALS_BEFORE_REVOKED
  MaxChanges,             \* bound on grants and revocations
  MaxDisturbances         \* bound on the rest: see Disturbs

ASSUME PermissionAssumption ==
  /\ RefusalsBeforeRevoked \in Nat \ {0}
  /\ MaxChanges \in Nat /\ MaxDisturbances \in Nat

Sides == {"capture", "emulation"}
Permissions == {"accessibility", "listen", "post"}

Needs == [capture |-> {"accessibility", "listen"}, emulation |-> {"accessibility", "post"}]
WatchedWhileRunning == [capture |-> {}, emulation |-> {"accessibility"}]

VARIABLES
  granted,   \* the permissions the system grants: "post" with "accessibility"
  sticky,    \* preflight checks keep their first answer for the process's life
  launchd,   \* launchd starts this daemon again after a failure
  process,   \* "up" or "exited"
  first,     \* Permissions -> the preflight check's first answer in this process
  gate,      \* whether event taps may be created
  up,        \* the sides that run
  requests,  \* Sides -> what the service asked of it: "reenable", "stop"
  events,    \* Sides -> what it has told the service: "enabled", "stopped"
  status,    \* the sides the service believes enabled
  waiting,   \* PermissionWatch.waiting: Sides -> "no", "unchecked", "missing"
  running,   \* PermissionWatch.running: sides -> checks in a row that refused it
  found,     \* a grant found and not yet handed over: "no", "exit" or "tell"
  pending,   \* the check under way
  ticked,    \* the interval has ticked in this process
  changes, disturbances,
  \* history
  news,      \* something was granted, or a probe refused in error, in this process
  broken,    \* sides with a session that ended for another reason, in this process
  uncalled   \* a grant was found that was none: nothing of `news' came before it

history == <<news, broken, uncalled>>
watchVars == <<waiting, running, found, pending, ticked>>
sideVars == <<up, requests, events>>
counts == <<changes, disturbances>>
permissionVars == <<granted, sticky, launchd, process, first, gate, sideVars, status, watchVars, counts,
          history>>

NoCheck == [at |-> "none"]

\* A session that ends for another reason, a click, a probe refused in error.
Disturbs == disturbances < MaxDisturbances /\ disturbances' = disturbances + 1

----------------------------------------------------------------------------
(* What the system answers *)

\* The preflight checks, which can keep their first answer.
Preflight(p) == IF sticky /\ first[p] # "unasked" THEN first[p] = "yes" ELSE p \in granted

\* Gate::accessibility: the silent check until the gate opens, which its yes
\* does, and the probe tap from then on.
GateOpens(asked) == "accessibility" \in asked /\ gate = "closed" /\ Preflight("accessibility")

Probed == (gate = "open" \/ Preflight("accessibility")) /\ "accessibility" \in granted

Granted(p) == CASE p = "accessibility" -> Probed
                [] p = "listen" -> Preflight(p)
                [] p = "post" -> Preflight(p) \/ Probed

\* Asking leaves the first answers and the gate behind.
Ask(asked) ==
  /\ gate' = IF GateOpens(asked) THEN "open" ELSE gate
  /\ first' = [p \in Permissions |->
                 IF p \in asked /\ first[p] = "unasked" /\ (p # "accessibility" \/ gate = "closed")
                 THEN IF p \in granted THEN "yes" ELSE "no"
                 ELSE first[p]]

----------------------------------------------------------------------------
(* The watch *)

Watching == \/ \E s \in Sides : waiting[s] # "no"
            \/ \E s \in DOMAIN running : WatchedWhileRunning[s] # {}

\* Mutant of WatchStopped: what a check found missing is forgotten.
StoppedAfresh(s) ==
  /\ running' = [t \in DOMAIN running \ {s} |-> running[t]]
  /\ waiting' = [waiting EXCEPT ![s] = "unchecked"]
  /\ UNCHANGED pending

\* PermissionWatch::stopped: a side found missing something stays so.
WatchStopped(s) ==
  /\ running' = [t \in DOMAIN running \ {s} |-> running[t]]
  /\ waiting' = IF waiting[s] = "no" THEN [waiting EXCEPT ![s] = "unchecked"] ELSE waiting
  /\ UNCHANGED pending

\* Mutant of WatchStarted: a side that runs is no longer watched.
StartedUnwatched(s) ==
  /\ waiting' = [waiting EXCEPT ![s] = "no"]
  /\ running' = [t \in DOMAIN running \ {s} |-> running[t]]
  /\ pending' = IF Watching' THEN pending ELSE NoCheck

\* PermissionWatch::started: a backend that needs permissions is watched for
\* what it would lose.  A check nobody waits for is dropped: what it asks once
\* dropped, the side that just started has asked already.
WatchStarted(s) ==
  /\ waiting' = [waiting EXCEPT ![s] = "no"]
  /\ running' = [t \in (DOMAIN running \ {s}) \cup (IF s = "emulation" THEN {s} ELSE {}) |->
                   IF t = s THEN 0 ELSE running[t]]
  /\ pending' = IF Watching' THEN pending ELSE NoCheck

\* Two seconds lie between two ticks: by then the sides have taken what they
\* were asked and the service has heard what they said.
TakenByTheTick == \A s \in Sides : requests[s] = <<>> /\ events[s] = <<>>

\* A tick begins a check: what it asks, and which sides a grant can complete.
\* The interval's first tick comes at once.
CheckBegin ==
  /\ process = "up" /\ found = "no" /\ Watching /\ pending = NoCheck
  /\ ticked => TakenByTheTick
  /\ ticked' = TRUE
  /\ pending' = [at |-> "asked",
                 needed |-> (UNION {Needs[s] : s \in {t \in Sides : waiting[t] # "no"}})
                            \cup (UNION {WatchedWhileRunning[s] : s \in DOMAIN running}),
                 armed |-> {s \in Sides : waiting[s] = "missing"}]
  /\ UNCHANGED <<granted, sticky, launchd, process, first, gate, sideVars, status, waiting,
                 running, found, counts, history>>

\* The blocking thread asks; a probe that is permitted may be refused in error.
CheckAnswers ==
  /\ process = "up" /\ pending.at = "asked"
  /\ Ask(pending.needed)
  /\ \E wrong \in BOOLEAN :
       /\ IF wrong THEN Disturbs ELSE UNCHANGED disturbances
       /\ wrong => "accessibility" \in pending.needed /\ gate = "open" /\ Granted("accessibility")
       /\ news' = (news \/ wrong)
       /\ pending' = [at |-> "answered", needed |-> pending.needed, armed |-> pending.armed,
                      yes |-> {p \in pending.needed : Granted(p) /\ ~(wrong /\ p = "accessibility")}]
  /\ UNCHANGED <<granted, sticky, launchd, process, sideVars, status, waiting, running, found,
                 ticked, changes, broken, uncalled>>

\* A running side that the check found without what it is watched for.
Refused(s) == (WatchedWhileRunning[s] \cap pending.needed) \ pending.yes # {}

\* PermissionWatch::revoke: refused often enough in a row.
Revoked == {s \in DOMAIN running : Refused(s) /\ running[s] + 1 >= RefusalsBeforeRevoked}

\* A waiting side after the check (PermissionWatch::settle): not asked about
\* means it stopped after the check began.
Settled(s) ==
  CASE waiting[s] = "no" \/ ~(Needs[s] \subseteq pending.needed) -> waiting[s]
    [] Needs[s] \subseteq pending.yes -> "no"
    [] OTHER -> "missing"

\* Mutant of Completed: a side that stopped with all it needs counts as granted.
CompletedAnyhow ==
  {s \in Sides : waiting[s] # "no" /\ Needs[s] \subseteq pending.yes}

\* The sides seen missing something that have it all now.
Completed == {s \in Sides : waiting[s] = "missing" /\ Needs[s] \subseteq pending.yes}

\* Exit if launchd would start the daemon again, which is asked only when a
\* side that was missing something as the check began has it all.
AfterGrant ==
  IF Completed = {} THEN "no"
  ELSE IF launchd /\ \E s \in pending.armed : Needs[s] \subseteq pending.yes THEN "exit" ELSE "tell"

\* Service::after_permission_granted: exit, or ask each side that does not run
\* to try again.
ActOnGrant(after) ==
  CASE after = "no" -> UNCHANGED <<process, requests>>
    [] after = "exit" -> process' = "exited" /\ UNCHANGED requests
    [] after = "tell" -> /\ requests' = [s \in Sides |-> IF s \in status THEN requests[s]
                                                         ELSE Append(requests[s], "reenable")]
                         /\ UNCHANGED process

\* The loop reads the answer and is handed what it found: a revocation first
\* (Service::after_permission_revoked), and a grant beside it when the loop
\* comes round again.
CheckEnds ==
  /\ process = "up" /\ found = "no" /\ pending.at = "answered"
  /\ pending' = NoCheck
  /\ running' = [s \in DOMAIN running \ Revoked |-> IF Refused(s) THEN running[s] + 1 ELSE 0]
  /\ waiting' = [s \in Sides |-> IF s \in Revoked THEN "missing" ELSE Settled(s)]
  /\ IF Revoked # {}
     THEN /\ found' = AfterGrant
          /\ requests' = [requests EXCEPT !["emulation"] = Append(@, "stop")]
          /\ UNCHANGED process
     ELSE found' = "no" /\ ActOnGrant(AfterGrant)
  /\ uncalled' = (uncalled \/ (Completed # {} /\ ~news))
  /\ UNCHANGED <<granted, sticky, launchd, first, gate, up, events, status, ticked, counts,
                 news, broken>>

HandFound ==
  /\ process = "up" /\ found # "no"
  /\ found' = "no"
  /\ ActOnGrant(found)
  /\ UNCHANGED <<granted, sticky, launchd, first, gate, up, events, status, waiting, running,
                 pending, ticked, counts, history>>

----------------------------------------------------------------------------
(* The sides, and what the service hears of them *)

\* A side asked to start: its backend asks the same questions.
SideStarts(s) ==
  /\ process = "up" /\ s \notin up
  /\ requests[s] # <<>> /\ Head(requests[s]) = "reenable"
  /\ requests' = [requests EXCEPT ![s] = Tail(@)]
  /\ Ask(Needs[s])
  /\ LET starts == \A p \in Needs[s] : Granted(p) IN
     /\ up' = IF starts THEN up \cup {s} ELSE up
     /\ events' = [events EXCEPT ![s] = Append(@, IF starts THEN "enabled" ELSE "stopped")]
  /\ UNCHANGED <<granted, sticky, launchd, process, status, watchVars, counts, history>>

Ends(s) ==
  /\ up' = up \ {s}
  /\ events' = [events EXCEPT ![s] = Append(@, "stopped")]

\* A request that finds nothing to do, and a stop that ends the session.
SideHears(s) ==
  /\ process = "up" /\ requests[s] # <<>>
  /\ requests' = [requests EXCEPT ![s] = Tail(@)]
  /\ \/ Head(requests[s]) = "reenable" /\ s \in up /\ UNCHANGED <<up, events>>
     \/ Head(requests[s]) = "stop" /\ s \notin up /\ UNCHANGED <<up, events>>
     \/ Head(requests[s]) = "stop" /\ s \in up /\ Ends(s)
  /\ UNCHANGED <<granted, sticky, launchd, process, first, gate, status, watchVars, counts, history>>

\* Capture's backend finds by itself that it has lost Accessibility.
CaptureLoses ==
  /\ process = "up" /\ "capture" \in up /\ "accessibility" \notin granted
  /\ Ends("capture")
  /\ UNCHANGED <<granted, sticky, launchd, process, first, gate, requests, status, watchVars,
                 counts, history>>

\* A session that ends for a reason no grant mends.  Capture starts again by
\* itself after one that passes.
SideEnds(s) ==
  /\ process = "up" /\ s \in up /\ Disturbs
  /\ Ends(s)
  /\ requests' = IF s = "capture" THEN [requests EXCEPT ![s] = Append(@, "reenable")] ELSE requests
  /\ broken' = broken \cup {s}
  /\ UNCHANGED <<granted, sticky, launchd, process, first, gate, status, watchVars, changes,
                 news, uncalled>>

\* Service::handle_emulation_event and handle_capture_event, as to a side's state.
ServiceHears(s) ==
  /\ process = "up" /\ events[s] # <<>>
  /\ events' = [events EXCEPT ![s] = Tail(@)]
  /\ \/ /\ Head(events[s]) = "enabled"
        /\ WatchStarted(s)
        /\ status' = status \cup {s}
     \/ /\ Head(events[s]) = "stopped"
        /\ WatchStopped(s)
        /\ status' = status \ {s}
  /\ UNCHANGED <<granted, sticky, launchd, process, first, gate, up, requests, found, ticked, counts,
                 history>>

----------------------------------------------------------------------------
(* People, the system and launchd *)

\* A permission switched on or off in System Settings.
Toggle(p) ==
  /\ p \in {"accessibility", "listen"} /\ changes < MaxChanges
  /\ changes' = changes + 1
  /\ LET with == {p} \cup (IF p = "accessibility" THEN {"post"} ELSE {}) IN
     granted' = IF p \in granted THEN granted \ with ELSE granted \cup with
  /\ news' = (news \/ p \notin granted)
  /\ UNCHANGED <<sticky, launchd, process, first, gate, sideVars, status, watchVars,
                 disturbances, broken, uncalled>>

\* FrontendRequest::EnableCapture and EnableEmulation: the user asks, which
\* opens the gate.
EnableInput(s) ==
  /\ process = "up" /\ Disturbs
  /\ gate' = "open"
  /\ requests' = [requests EXCEPT ![s] = Append(@, "reenable")]
  /\ UNCHANGED <<granted, sticky, launchd, process, first, up, events, status, watchVars,
                 changes, news, broken, uncalled>>

\* PermissionWatch::at_daemon_start: both sides are tried and both are watched.
Fresh ==
  /\ first' = [p \in Permissions |-> "unasked"] /\ gate' = "closed"
  /\ up' = {} /\ status' = {}
  /\ requests' = [s \in Sides |-> <<"reenable">>] /\ events' = [s \in Sides |-> <<>>]
  /\ waiting' = [s \in Sides |-> "unchecked"] /\ running' = [s \in {} |-> 0]
  /\ found' = "no" /\ pending' = NoCheck /\ ticked' = FALSE
  /\ news' = FALSE /\ broken' = {}

\* launchd starts the daemon again.
LaunchdStarts ==
  /\ process = "exited" /\ process' = "up"
  /\ Fresh
  /\ UNCHANGED <<granted, sticky, launchd, counts, uncalled>>

----------------------------------------------------------------------------

PermissionInit ==
  /\ granted \in {{}, {"listen"}, {"accessibility", "post"}, Permissions}
  /\ sticky \in BOOLEAN /\ launchd \in BOOLEAN /\ process = "up"
  /\ first = [p \in Permissions |-> "unasked"] /\ gate = "closed"
  /\ up = {} /\ status = {}
  /\ requests = [s \in Sides |-> <<"reenable">>] /\ events = [s \in Sides |-> <<>>]
  /\ waiting = [s \in Sides |-> "unchecked"] /\ running = [s \in {} |-> 0]
  /\ found = "no" /\ pending = NoCheck /\ ticked = FALSE
  /\ changes = 0 /\ disturbances = 0
  /\ news = FALSE /\ broken = {} /\ uncalled = FALSE

Check == CheckBegin \/ CheckAnswers \/ CheckEnds \/ HandFound
Side(s) == SideStarts(s) \/ SideHears(s)

PermissionNext ==
  \/ Check \/ CaptureLoses \/ LaunchdStarts
  \/ \E s \in Sides : Side(s) \/ SideEnds(s) \/ ServiceHears(s) \/ EnableInput(s)
  \/ \E p \in Permissions : Toggle(p)

\* The interval ticks, the system answers, the loop takes what is ready, a side
\* takes its requests, and launchd starts what exited.
PermissionSpec ==
  /\ PermissionInit /\ [][PermissionNext]_permissionVars
  /\ WF_permissionVars(Check) /\ WF_permissionVars(CaptureLoses) /\ WF_permissionVars(LaunchdStarts)
  /\ \A s \in Sides : WF_permissionVars(Side(s)) /\ WF_permissionVars(ServiceHears(s))

----------------------------------------------------------------------------
(* Correctness *)

\* The daemon exits, or tells of a grant, only in a process during which
\* something was granted (or a probe refused in error): a side still missing a
\* permission, or stopped for another reason, never makes launchd start the
\* daemon over and over (PermissionWatch::settle).
NoExitLoop == ~uncalled

\* Emulation does not run on, posting events macOS drops, once Accessibility
\* stays revoked: whatever checks were under way, it stops, or the permission
\* is granted again.
RevocationIsNoticed ==
  []<>("emulation" \notin up \/ "accessibility" \in granted)

\* Emulation that a check found missing Accessibility runs again once it is
\* granted and the gate lets the probe see it: no late answer, restart or click
\* leaves it down and unwatched, unless a session ended for another reason.
GrantTakesEffect ==
  (waiting["emulation"] = "missing" /\ gate = "open")
    ~> ("emulation" \in up \cup broken \/ "accessibility" \notin granted)
====
