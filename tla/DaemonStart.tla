---- MODULE DaemonStart ----
(***************************************************************************)
(* Starting the daemon, and replacing one of another build: the front door *)
(* every app goes through as it opens (src/src/daemon_start.rs), the claim *)
(* by which a daemon makes sure it is the only one                         *)
(* (src/crates/hops-ipc/src/listen.rs), and launchd's job, by how the      *)
(* front door uses it.                                                     *)
(*                                                                         *)
(* A step is one call a process makes: on the lock file, the socket,       *)
(* another process or launchctl.  Doors, daemons, launchd and people step  *)
(* in any order.  On Linux the front door spawns the daemon itself; on     *)
(* macOS it asks launchd.  Windows, another copy of hops and daemons from  *)
(* before the lock are left out.                                           *)
(***************************************************************************)
EXTENDS Naturals, FiniteSets

CONSTANTS
  Doors,     \* the apps opening, each of this build
  Pids,      \* the process numbers: 1..n, the first is the daemon there was
  MaxUpsets  \* bound on the crashes, stops and starts by hand and late answers

ASSUME DaemonAssumption ==
  /\ Cardinality(Pids) \in Nat \ {0} /\ Pids = 1..Cardinality(Pids)
  /\ MaxUpsets \in Nat

VARIABLES
  platform,  \* "linux" or "macos"
  proc,      \* each process: how far it is, its build, whether the service's
  lock,      \* the process that holds <socket>.lock, 0 for none
  socket,    \* the process that bound the socket file there is, 0 for no file
  plist,     \* the build the launch agent on disk names
  job,       \* launchd: the job is loaded, what it runs, its process, and
             \* whether that one is to be started again
  door,      \* each front door: where it is and the process it is about
  upsets

vars == <<platform, proc, lock, socket, plist, job, door, upsets>>

Builds == {"this", "other"}
None == 0

NoProc == [at |-> "none", build |-> "this", service |-> FALSE]

Running(p) == p # None /\ proc[p].at \notin {"none", "gone"}
Gone(p) == proc[p].at = "gone"

\* A connection to the socket file is taken, by the process that bound it.
Answers == socket # None /\ proc[socket].at \in {"bound", "serving", "ending"}
Serving == socket # None /\ proc[socket].at = "serving"

Free == {p \in Pids : proc[p].at = "none"}
Next1 == CHOOSE p \in Free : \A q \in Free : p <= q

\* A process starts: the next number is its own.
Spawned(build, service) ==
  [proc EXCEPT ![Next1] = [at |-> "new", build |-> build, service |-> service]]

-----------------------------------------------------------------------------
(***************************************************************************)
(* A daemon: Claim::take, then the config and the keys, then serving.      *)
(***************************************************************************)

At(p, at) == proc' = [proc EXCEPT ![p].at = at]

\* The process is gone: the system drops its lock, launchd sees it end.  One
\* that failed is started again while its job is loaded.
Exits(p, failed) ==
  /\ At(p, "gone")
  /\ lock' = IF lock = p THEN None ELSE lock
  /\ job' = IF job.pid = p THEN [job EXCEPT !.pid = None, !.again = failed] ELSE job

\* lock_beside_with: a lock another holds is AlreadyRunning, and a success.
TryLock(p) ==
  IF lock = None THEN lock' = p /\ At(p, "locked") /\ UNCHANGED job
  ELSE Exits(p, FALSE)

Lock(p) ==
  /\ proc[p].at = "new"
  /\ TryLock(p)
  /\ UNCHANGED <<platform, socket, plist, door, upsets>>

\* take_with: is there a socket, and does one listen there?
CheckSocket(p) ==
  /\ proc[p].at = "locked"
  /\ IF Answers THEN Exits(p, FALSE)
     ELSE /\ At(p, IF socket = None THEN "clear" ELSE "stale")
          /\ UNCHANGED <<lock, job>>
  /\ UNCHANGED <<platform, socket, plist, door, upsets>>

RemoveStale(p) ==
  /\ proc[p].at = "stale"
  /\ At(p, "clear") /\ socket' = None
  /\ UNCHANGED <<platform, lock, plist, job, door, upsets>>

Bind(p) ==
  /\ proc[p].at = "clear"
  /\ IF socket = None
     THEN At(p, "bound") /\ socket' = p /\ UNCHANGED <<lock, job>>
     ELSE Exits(p, FALSE) /\ UNCHANGED socket
  /\ UNCHANGED <<platform, plist, door, upsets>>

\* The config, the token, the identity and the trust store are read; signals
\* are listened for from here on.
Serves(p) ==
  /\ proc[p].at = "bound"
  /\ At(p, "serving")
  /\ UNCHANGED <<platform, lock, socket, plist, job, door, upsets>>

\* Mutant of LetGo: the lock goes before the file it guards.
LetGoUnlocked(p) ==
  \/ /\ proc[p].at = "ending"
     /\ At(p, "unlinked")
     /\ lock' = IF lock = p THEN None ELSE lock
     /\ UNCHANGED <<socket, job>>
  \/ /\ proc[p].at = "unlinked"
     /\ Exits(p, FALSE)
     /\ socket' = None

\* Drop for Claim, once the held keys are let go of: the file, then the lock
\* with the process.
LetGo(p) ==
  \/ /\ proc[p].at = "ending"
     /\ At(p, "unlinked")
     /\ socket' = None
     /\ UNCHANGED <<lock, job>>
  \/ /\ proc[p].at = "unlinked"
     /\ Exits(p, FALSE)
     /\ UNCHANGED socket

Ends(p) ==
  /\ LetGo(p)
  /\ UNCHANGED <<platform, plist, door, upsets>>

\* SIGTERM: a daemon that serves ends in order, one still starting dies.
Terminated(p) ==
  IF proc[p].at = "serving" THEN [proc EXCEPT ![p].at = "ending"]
  ELSE IF proc[p].at = "ending" \/ proc[p].at = "unlinked" THEN proc
  ELSE [proc EXCEPT ![p].at = "gone"]

\* The lock is the system's: it goes with the process.
LockAfter(p) == IF lock = p /\ Terminated(p)[p].at = "gone" THEN None ELSE lock

-----------------------------------------------------------------------------
(***************************************************************************)
(* The front door.                                                         *)
(***************************************************************************)

Becomes(d, at) == door' = [door EXCEPT ![d].at = at]
About(d, at, p) == door' = [door EXCEPT ![d] = [@ EXCEPT !.at = at, !.pid = p]]

\* front_door: nothing answers, so start; or judge what does.
Probe(d) ==
  /\ door[d].at = "open"
  /\ Becomes(d, IF Answers THEN "ask" ELSE "start")
  /\ UNCHANGED <<platform, proc, lock, socket, plist, job, upsets>>

\* ask_build until it says or stops answering; verdict.
AskBuild(d) ==
  /\ door[d].at = "ask" /\ (Serving \/ ~Answers)
  /\ Becomes(d, IF Serving /\ proc[socket].build = "other" THEN "origin" ELSE "kept")
  /\ UNCHANGED <<platform, proc, lock, socket, plist, job, upsets>>

\* origin_for: on Linux a daemon with no terminal; on macOS the process of the
\* job, when its agent names this copy.
IsService(p) ==
  IF platform = "linux" THEN proc[p].service ELSE plist = "this" /\ job.loaded /\ job.pid = p

\* Asked of whichever daemon is on the endpoint by now.
AskOrigin(d) ==
  /\ door[d].at = "origin"
  /\ IF Answers /\ IsService(socket)
     THEN door' = [door EXCEPT ![d] = [@ EXCEPT !.at = "restart", !.pid = socket]]
     ELSE Becomes(d, "left")
  /\ UNCHANGED <<platform, proc, lock, socket, plist, job, upsets>>

\* start_detached_daemon.
StartDetached(d) ==
  /\ platform = "linux" /\ door[d].at = "start" /\ Free # {}
  /\ proc' = Spawned("this", TRUE)
  /\ About(d, "wait", Next1)
  /\ UNCHANGED <<platform, lock, socket, plist, job, upsets>>

\* stop_outdated_daemon_of: the process is named by a pidfd, then checked to
\* hold the endpoint and to be the service's.  Its build is not asked again.
StopOutdated(d) ==
  /\ platform = "linux" /\ door[d].at = "restart"
  /\ IF Running(door[d].pid) /\ Answers /\ socket = door[d].pid /\ IsService(socket)
     THEN /\ Becomes(d, "stopping")
          /\ proc' = Terminated(door[d].pid) /\ lock' = LockAfter(door[d].pid)
     ELSE Becomes(d, "failed") /\ UNCHANGED <<proc, lock>>
  /\ UNCHANGED <<platform, socket, plist, job, upsets>>

\* Mutant of HasStopped: the signal is sent, and that is that.
HasStoppedAtOnce(d) == TRUE

\* The pidfd is ready; on macOS `gone'.
HasStopped(d) == Gone(door[d].pid)

StopWaited(d) ==
  /\ platform = "linux" /\ door[d].at = "stopping" /\ HasStopped(d)
  /\ Becomes(d, "start")
  /\ UNCHANGED <<platform, proc, lock, socket, plist, job, upsets>>

-----------------------------------------------------------------------------
(***************************************************************************)
(* start_through_launchd.                                                  *)
(***************************************************************************)

\* launchctl print, and keep_agent_pointing_here.
LaunchctlPrint(d) ==
  /\ platform = "macos" /\ door[d].at \in {"start", "restart"}
  /\ door' = [door EXCEPT ![d] = [@ EXCEPT !.at = "printed", !.loaded = job.loaded,
                                           !.replacing = (door[d].at = "restart"),
                                           !.rewritten = (plist = "other")]]
  /\ plist' = "this"
  /\ UNCHANGED <<platform, proc, lock, socket, job, upsets>>

\* Whether the job is to be booted out; not when what is to be replaced has
\* been already.
Reload(d) ==
  /\ door[d].loaded
  /\ ~(door[d].replacing /\ Gone(door[d].pid))
  /\ door[d].rewritten \/ door[d].replacing

DecideReload(d) ==
  /\ door[d].at = "printed"
  /\ Becomes(d, IF Reload(d) THEN "bootout" ELSE IF door[d].loaded THEN "kick" ELSE "bootstrap")
  /\ UNCHANGED <<platform, proc, lock, socket, plist, job, upsets>>

\* stop_service_daemon: whatever process the job has by now gets SIGTERM, and
\* the job is loaded no more.
Bootout(d) ==
  /\ door[d].at = "bootout"
  /\ Becomes(d, IF door[d].replacing THEN "stopping" ELSE "bootstrap")
  /\ IF job.loaded /\ Running(job.pid)
     THEN /\ proc' = Terminated(job.pid) /\ lock' = LockAfter(job.pid)
     ELSE UNCHANGED <<proc, lock>>
  /\ job' = [job EXCEPT !.loaded = FALSE, !.again = FALSE,
                         !.pid = IF job.pid # None /\ proc'[job.pid].at = "gone" THEN None ELSE @]
  /\ UNCHANGED <<platform, socket, plist, upsets>>

BootoutWaited(d) ==
  /\ platform = "macos" /\ door[d].at = "stopping" /\ HasStopped(d)
  /\ Becomes(d, "bootstrap")
  /\ UNCHANGED <<platform, proc, lock, socket, plist, job, upsets>>

\* launchd is still taking the booted-out job down: its process runs.
TearingDown == ~job.loaded /\ job.pid # None

\* launchctl bootstrap: RunAtLoad starts the daemon.  One that comes too soon
\* fails, and a door that booted the job out tries again.  After that, and for
\* a job another start has loaded meanwhile, the kickstart says what runs.
Bootstrap(d) ==
  /\ door[d].at = "bootstrap"
  /\ door[d].loaded => ~TearingDown
  /\ Becomes(d, "kick")
  /\ IF job.loaded \/ TearingDown THEN UNCHANGED <<proc, job>>
     ELSE /\ Free # {}
          /\ proc' = Spawned(plist, TRUE)
          /\ job' = [loaded |-> TRUE, runs |-> plist, pid |-> Next1, again |-> FALSE]
  /\ UNCHANGED <<platform, lock, socket, plist, upsets>>

\* launchctl kickstart -p names the process there is, or starts one.  One that
\* is still the process to be replaced is reported as left.
Kickstart(d) ==
  /\ door[d].at = "kick"
  /\ IF ~job.loaded THEN Becomes(d, "failed") /\ UNCHANGED <<proc, job>>
     ELSE IF Running(job.pid)
     THEN /\ About(d, IF door[d].replacing /\ job.pid = door[d].pid THEN "left" ELSE "wait", job.pid)
          /\ UNCHANGED <<proc, job>>
     ELSE /\ Free # {}
          /\ proc' = Spawned(job.runs, TRUE)
          /\ job' = [job EXCEPT !.pid = Next1, !.again = FALSE]
          /\ About(d, "wait", Next1)
  /\ UNCHANGED <<platform, lock, socket, plist, upsets>>

\* launchd: KeepAlive starts a daemon that failed again.
KeepAlive ==
  /\ job.loaded /\ job.again /\ job.pid = None /\ Free # {}
  /\ proc' = Spawned(job.runs, TRUE)
  /\ job' = [job EXCEPT !.pid = Next1, !.again = FALSE]
  /\ UNCHANGED <<platform, lock, socket, plist, door, upsets>>

\* wait_for_daemon.
Wait(d) ==
  /\ door[d].at = "wait"
  /\ \/ Serving /\ Becomes(d, IF Gone(door[d].pid) THEN "kept" ELSE "started")
     \/ ~Answers /\ Gone(door[d].pid) /\ Becomes(d, "exited")
  /\ UNCHANGED <<platform, proc, lock, socket, plist, job, upsets>>

-----------------------------------------------------------------------------
(***************************************************************************)
(* What goes wrong, and what people do.                                    *)
(***************************************************************************)

Upset == upsets < MaxUpsets /\ upsets' = upsets + 1

\* A process is killed: the socket file stays.
Crash(p) ==
  /\ Upset /\ Running(p)
  /\ Exits(p, TRUE)
  /\ UNCHANGED <<platform, socket, plist, door>>

\* The daemon ends in order, asked to.
Quit(p) ==
  /\ Upset /\ proc[p].at = "serving"
  /\ At(p, "ending")
  /\ UNCHANGED <<platform, lock, socket, plist, job, door>>

\* `hops daemon' in a terminal.
StartByHand ==
  /\ Upset /\ Free # {}
  /\ proc' = Spawned("this", FALSE)
  /\ UNCHANGED <<platform, lock, socket, plist, job, door>>

\* A wait is over first: for the build, the stop, the job or the daemon.
Late(d) ==
  /\ Upset
  /\ \/ door[d].at = "ask" /\ Becomes(d, "kept")
     \/ door[d].at = "stopping" /\ Becomes(d, IF platform = "linux" THEN "failed" ELSE "bootstrap")
     \/ door[d].at = "bootstrap" /\ TearingDown /\ Becomes(d, "kick")
     \/ door[d].at = "wait" /\ Becomes(d, "exited")
  /\ UNCHANGED <<platform, proc, lock, socket, plist, job>>

-----------------------------------------------------------------------------
\* Nothing runs, with or without the socket a crash left; or a daemon serves,
\* the service's or not, of either build.
Init ==
  /\ platform \in {"linux", "macos"}
  /\ \E at \in {"gone", "serving"}, build \in Builds, service \in BOOLEAN :
       /\ proc = [p \in Pids |-> IF p = 1 THEN [at |-> at, build |-> build, service |-> service]
                                 ELSE NoProc]
       /\ socket \in IF at = "serving" THEN {1} ELSE {0, 1}
       /\ lock = IF at = "serving" THEN 1 ELSE None
       /\ plist \in Builds
       /\ \E loaded \in BOOLEAN :
            /\ platform = "linux" => ~loaded
            /\ platform = "macos" /\ service /\ at = "serving" => loaded
            /\ job = [loaded |-> loaded, runs |-> plist, again |-> FALSE,
                      pid |-> IF loaded /\ service /\ at = "serving" THEN 1 ELSE None]
  /\ door = [d \in Doors |-> [at |-> "open", pid |-> None, loaded |-> FALSE,
                              replacing |-> FALSE, rewritten |-> FALSE]]
  /\ upsets = 0

Daemon(p) == Lock(p) \/ CheckSocket(p) \/ RemoveStale(p) \/ Bind(p) \/ Serves(p) \/ Ends(p)

FrontDoor(d) ==
  \/ Probe(d) \/ AskBuild(d) \/ AskOrigin(d)
  \/ StartDetached(d) \/ StopOutdated(d) \/ StopWaited(d)
  \/ LaunchctlPrint(d) \/ DecideReload(d) \/ Bootout(d) \/ BootoutWaited(d) \/ Bootstrap(d) \/ Kickstart(d)
  \/ Wait(d)

Next ==
  \/ \E p \in Pids : Daemon(p) \/ Crash(p) \/ Quit(p)
  \/ \E d \in Doors : FrontDoor(d) \/ Late(d)
  \/ KeepAlive \/ StartByHand

Spec == Init /\ [][Next]_vars

\* Every process goes on, and launchd does what its job says.
FairSpec ==
  /\ Spec
  /\ \A p \in Pids : WF_vars(Daemon(p))
  /\ \A d \in Doors : WF_vars(FrontDoor(d))
  /\ WF_vars(KeepAlive)

-----------------------------------------------------------------------------
(***************************************************************************)
(* Properties.                                                             *)
(***************************************************************************)

\* The daemons that hold the endpoint and may read the keys and the trust store.
PastClaim == {p \in Pids : proc[p].at \in {"bound", "serving", "ending"}}

\* #222, at most one daemon: of all the daemons doors, launchd and people start
\* at once, one is past its claim, where it reads the keys and the trust store;
\* and it is the one frontends reach: no other daemon, as it starts over a stale
\* socket or as it ends, removes its socket (Claim::take_with, Drop for Claim).
OneReachableDaemon ==
  /\ Cardinality(PastClaim) <= 1
  /\ \A p \in Pids : proc[p].at \in {"bound", "serving"} => socket = p

\* Whatever was there and however two doors overlap, a daemon serves in the end
\* and goes on serving, as long as nothing crashes, is stopped by hand or takes
\* too long: a restart waits until the daemon it stopped let go of the endpoint,
\* beside which the new one would stop.
DaemonComesUp ==
  [](upsets = 0) => <>[]Serving

====
