---- MODULE DaemonStartProofs ----
(***************************************************************************)
(* Of all the daemons doors, launchd and people start, one at most is past *)
(* its claim, for any number of doors, processes and upsets.  The argument *)
(* is the lock alone: from the moment a process has it until it is gone,   *)
(* no other does, so what it finds on the endpoint, removes and binds is   *)
(* its own to decide.                                                      *)
(***************************************************************************)
EXTENDS DaemonStart, FiniteSetTheorems, WellFoundedInduction, TLAPS

Stages ==
  {"none", "new", "locked", "stale", "clear", "bound", "serving", "ending", "unlinked", "gone"}

\* The stages of a process that took the lock.
Holding == {"locked", "stale", "clear", "bound", "serving", "ending", "unlinked"}

TypeOK ==
  /\ proc \in [Pids -> [at : Stages, build : Builds, service : BOOLEAN]]
  /\ lock \in Pids \cup {None} /\ socket \in Pids \cup {None}
  /\ plist \in Builds
  /\ job \in [loaded : BOOLEAN, runs : Builds, pid : Pids \cup {None}, again : BOOLEAN]

\* Who claims has the lock, and who has bound the socket is found at it.
LockHeld == \A p \in Pids : proc[p].at \in Holding => lock = p
EndpointHeld == \A p \in Pids : proc[p].at \in {"bound", "serving", "ending"} => socket = p

ClaimInv == TypeOK /\ LockHeld /\ EndpointHeld

\* A process that starts has a number no process had.
LEMMA NextIsFree ==
  ASSUME Free # {}
  PROVE  Next1 \in Free /\ Next1 \in Pids
<1>1. Pids \subseteq Nat /\ Free \subseteq Pids
  BY DaemonAssumption DEF Free
<1>2. PICK p \in Free : \A q \in Free : ~(<<q, p>> \in OpToRel(<, Nat))
  BY <1>1, NatLessThanWellFounded, WFMin
<1>3. ASSUME NEW q \in Free, q < p
      PROVE  <<q, p>> \in OpToRel(<, Nat)
  BY <1>1, <1>3, Zenon DEF OpToRel
<1>4. \A q \in Free : p <= q
  <2> SUFFICES ASSUME NEW q \in Free
               PROVE  p <= q
    OBVIOUS
  <2>1. ~(q < p)
    BY <1>2, <1>3
  <2> QED
    BY <1>1, <2>1
<1> QED
  BY <1>1, <1>4 DEF Next1

\* What a step may do to the claim and keep it: processes that neither have the
\* lock nor come to it, one that moves on with it, and those that go.
LEMMA OthersStep ==
  ASSUME ClaimInv, UNCHANGED <<lock, socket>>,
         \A p \in Pids : proc'[p].at = proc[p].at \/ proc'[p].at \notin Holding
  PROVE  LockHeld' /\ EndpointHeld'
<1>1. {"bound", "serving", "ending"} \subseteq Holding
  BY DEF Holding
<1> QED
  BY <1>1 DEF ClaimInv, LockHeld, EndpointHeld

\* One process moves on: it has the lock after, if it claims, and is found at
\* the socket, if it bound it.  No other has either taken from it.
LEMMA OneStep ==
  ASSUME ClaimInv, NEW p \in Pids, NEW at \in Stages, At(p, at),
         at \in Holding => lock' = p,
         at \in {"bound", "serving", "ending"} => socket' = p,
         lock' = lock \/ lock \in {None, p},
         socket' = socket \/ proc[p].at \in Holding
  PROVE  proc' \in [Pids -> [at : Stages, build : Builds, service : BOOLEAN]]
         /\ LockHeld' /\ EndpointHeld'
<1>1. /\ proc' \in [Pids -> [at : Stages, build : Builds, service : BOOLEAN]]
      /\ proc'[p].at = at
      /\ \A q \in Pids \ {p} : proc'[q] = proc[q]
  BY DEF ClaimInv, TypeOK, At
<1>2. Pids \subseteq Nat \ {0}
  BY DaemonAssumption
<1>3. ASSUME NEW q \in Pids \ {p}, proc[q].at \in Holding
      PROVE  lock = q /\ lock' = q /\ proc[p].at \notin Holding
  BY <1>2, <1>3 DEF ClaimInv, LockHeld, None
<1>4. LockHeld'
  BY <1>1, <1>3 DEF LockHeld
<1>5. EndpointHeld'
  <2> SUFFICES ASSUME NEW q \in Pids, proc'[q].at \in {"bound", "serving", "ending"}
               PROVE  socket' = q
    BY DEF EndpointHeld
  <2>1. CASE q = p
    BY <1>1, <2>1
  <2>2. CASE q # p
    <3>1. proc[q].at \in {"bound", "serving", "ending"} /\ proc[q].at \in Holding
      BY <1>1, <2>2 DEF Holding
    <3>2. socket = q /\ socket' = socket
      BY <1>3, <2>2, <3>1 DEF ClaimInv, EndpointHeld
    <3> QED
      BY <3>2
  <2> QED
    BY <2>1, <2>2
<1> QED
  BY <1>1, <1>4, <1>5

\* A process that goes takes its lock with it, and leaves the socket file.
LEMMA ExitStep ==
  ASSUME ClaimInv, NEW p \in Pids, NEW failed \in BOOLEAN, Exits(p, failed),
         UNCHANGED <<socket, plist>>
  PROVE  ClaimInv'
<1>1. /\ At(p, "gone") /\ "gone" \in Stages /\ "gone" \notin Holding
      /\ lock' = lock \/ (lock = p /\ lock' = None)
  BY DEF Exits, Stages, Holding
<1>2. /\ proc' \in [Pids -> [at : Stages, build : Builds, service : BOOLEAN]]
      /\ LockHeld' /\ EndpointHeld'
  BY <1>1, OneStep DEF Holding
<1>3. job' \in [loaded : BOOLEAN, runs : Builds, pid : Pids \cup {None}, again : BOOLEAN]
  BY DEF Exits, ClaimInv, TypeOK
<1> QED
  BY <1>1, <1>2, <1>3 DEF ClaimInv, TypeOK

\* A process started beside the others.
LEMMA SpawnStep ==
  ASSUME ClaimInv, NEW build \in Builds, NEW service \in BOOLEAN,
         proc' = Spawned(build, service), Free # {}, UNCHANGED <<lock, socket>>
  PROVE  /\ proc' \in [Pids -> [at : Stages, build : Builds, service : BOOLEAN]]
         /\ LockHeld' /\ EndpointHeld'
<1>1. Next1 \in Pids
  BY NextIsFree
<1>2. /\ proc' \in [Pids -> [at : Stages, build : Builds, service : BOOLEAN]]
      /\ \A p \in Pids : proc'[p] = proc[p] \/ proc'[p].at = "new"
  BY <1>1 DEF ClaimInv, TypeOK, Spawned, Stages
<1>3. \A p \in Pids : proc'[p].at = proc[p].at \/ proc'[p].at \notin Holding
  BY <1>2 DEF Holding
<1> QED
  BY <1>2, <1>3, OthersStep

\* A process that is sent SIGTERM.
LEMMA TerminateStep ==
  ASSUME ClaimInv, NEW p \in Pids, Running(p), proc' = Terminated(p), lock' = LockAfter(p),
         UNCHANGED socket
  PROVE  /\ proc' \in [Pids -> [at : Stages, build : Builds, service : BOOLEAN]]
         /\ LockHeld' /\ EndpointHeld' /\ lock' \in Pids \cup {None}
<1>1. /\ proc \in [Pids -> [at : Stages, build : Builds, service : BOOLEAN]]
      /\ lock \in Pids \cup {None}
      /\ proc[p].at \in {"serving", "ending", "unlinked"} => proc[p].at \in Holding
  BY DEF ClaimInv, TypeOK, Holding
<1>2. CASE proc[p].at = "serving"
  <2>1. At(p, "ending") /\ Terminated(p)[p].at = "ending"
    BY <1>1, <1>2 DEF Terminated, At
  <2>2. lock' = lock /\ lock = p /\ socket = p
    BY <1>2, <2>1 DEF LockAfter, ClaimInv, LockHeld, EndpointHeld, Holding
  <2> QED
    BY <1>1, <2>1, <2>2, OneStep DEF Stages
<1>3. CASE proc[p].at \in {"ending", "unlinked"}
  <2>1. proc' = proc /\ lock' = lock
    BY <1>3 DEF Terminated, LockAfter
  <2> QED
    BY <1>1, <2>1 DEF ClaimInv, LockHeld, EndpointHeld
<1>4. CASE proc[p].at \notin {"serving", "ending", "unlinked"}
  <2>1. At(p, "gone") /\ Terminated(p)[p].at = "gone"
    BY <1>1, <1>4 DEF Terminated, At
  <2>2. lock' = IF lock = p THEN None ELSE lock
    BY <2>1 DEF LockAfter
  <2>3. "gone" \in Stages /\ "gone" \notin Holding
    BY DEF Stages, Holding
  <2> QED
    BY <1>1, <2>1, <2>2, <2>3, OneStep DEF Holding
<1> QED
  BY <1>2, <1>3, <1>4

-----------------------------------------------------------------------------

LEMMA DaemonStep ==
  ASSUME ClaimInv, NEW p \in Pids, Daemon(p)
  PROVE  ClaimInv'
<1>1. /\ proc[p].at \in Holding => lock = p
      /\ proc[p].at \in {"bound", "serving", "ending"} => socket = p
      /\ lock \in Pids \cup {None} /\ socket \in Pids \cup {None}
      /\ plist' = plist
  BY DEF ClaimInv, TypeOK, LockHeld, EndpointHeld, Daemon, Lock, CheckSocket, RemoveStale, Bind,
         Serves, Ends
<1> DEFINE ProcOK == proc' \in [Pids -> [at : Stages, build : Builds, service : BOOLEAN]]
<1>2. ASSUME ProcOK, LockHeld', EndpointHeld', UNCHANGED <<job, plist>>,
             lock' \in Pids \cup {None}, socket' \in Pids \cup {None}
      PROVE  ClaimInv'
  BY <1>2 DEF ClaimInv, TypeOK
<1> HIDE DEF ProcOK
<1>3. ASSUME NEW at \in Stages, At(p, at), UNCHANGED <<job, plist>>,
             at \in Holding => lock' = p,
             at \in {"bound", "serving", "ending"} => socket' = p,
             lock' = lock \/ (lock = None /\ lock' = p),
             socket' = socket \/ (proc[p].at \in Holding /\ socket' \in {None, p})
      PROVE  ClaimInv'
  <2>1. ProcOK /\ LockHeld' /\ EndpointHeld'
    BY <1>3, OneStep DEF ProcOK
  <2> QED
    BY <1>1, <1>2, <1>3, <2>1
<1>4. CASE Lock(p)
  <2>1. CASE lock = None
    BY <1>3, <1>4, <2>1 DEF Lock, TryLock, Stages
  <2>2. CASE lock # None
    BY <1>4, <2>2, ExitStep DEF Lock, TryLock
  <2> QED
    BY <2>1, <2>2
<1>5. CASE CheckSocket(p)
  <2>1. CASE Answers
    BY <1>5, <2>1, ExitStep DEF CheckSocket
  <2>2. CASE ~Answers
    <3>1. PICK at \in {"clear", "stale"} : At(p, at)
      BY <1>5, <2>2 DEF CheckSocket
    <3>2. UNCHANGED <<lock, job, plist, socket>> /\ lock = p /\ at \in Stages
      BY <1>1, <1>5, <2>2 DEF CheckSocket, Holding, Stages
    <3> QED
      BY <1>3, <3>1, <3>2
  <2> QED
    BY <2>1, <2>2
<1>6. CASE RemoveStale(p)
  BY <1>1, <1>3, <1>6 DEF RemoveStale, Stages, Holding
<1>7. CASE Bind(p)
  <2>1. CASE socket = None
    BY <1>1, <1>3, <1>7, <2>1 DEF Bind, Stages, Holding
  <2>2. CASE socket # None
    BY <1>7, <2>2, ExitStep DEF Bind
  <2> QED
    BY <2>1, <2>2
<1>8. CASE Serves(p)
  BY <1>1, <1>3, <1>8 DEF Serves, Stages, Holding
<1>9. CASE Ends(p)
  <2>1. CASE proc[p].at = "ending"
    BY <1>1, <1>3, <1>9, <2>1 DEF Ends, LetGo, Stages, Holding
  <2>2. CASE proc[p].at # "ending"
    BY <1>9, <2>2, ExitStep DEF Ends, LetGo
  <2> QED
    BY <2>1, <2>2
<1> QED
  BY <1>4, <1>5, <1>6, <1>7, <1>8, <1>9 DEF Daemon

\* A step that touches no process, lock, socket or job.
LEMMA AsideStep ==
  ASSUME ClaimInv, UNCHANGED <<proc, lock, socket, job>>, plist' \in Builds
  PROVE  ClaimInv'
BY DEF ClaimInv, TypeOK, LockHeld, EndpointHeld

LEMMA DoorStep ==
  ASSUME ClaimInv, NEW d \in Doors, FrontDoor(d)
  PROVE  ClaimInv'
<1>1. /\ plist \in Builds /\ lock \in Pids \cup {None} /\ socket \in Pids \cup {None}
      /\ job \in [loaded : BOOLEAN, runs : Builds, pid : Pids \cup {None}, again : BOOLEAN]
      /\ "this" \in Builds /\ TRUE \in BOOLEAN
  BY DEF ClaimInv, TypeOK, Builds
<1>2. ASSUME Probe(d) \/ AskBuild(d) \/ AskOrigin(d) \/ StopWaited(d) \/ LaunchctlPrint(d)
               \/ DecideReload(d) \/ BootoutWaited(d) \/ Wait(d)
      PROVE  ClaimInv'
  <2>1. UNCHANGED <<proc, lock, socket, job>> /\ plist' \in Builds
    BY <1>1, <1>2 DEF Probe, AskBuild, AskOrigin, StopWaited, LaunchctlPrint, DecideReload,
         BootoutWaited, Wait
  <2> QED
    BY <2>1, AsideStep
<1>3. CASE StartDetached(d)
  <2>1. /\ proc' = Spawned("this", TRUE) /\ Free # {}
        /\ UNCHANGED <<lock, socket, plist, job>>
    BY <1>3 DEF StartDetached
  <2> QED
    BY <1>1, <2>1, SpawnStep DEF ClaimInv, TypeOK
<1>4. CASE StopOutdated(d)
  <2>1. CASE Running(door[d].pid) /\ Answers /\ socket = door[d].pid /\ IsService(socket)
    <3>1. /\ socket \in Pids /\ Running(socket) /\ proc' = Terminated(socket)
          /\ lock' = LockAfter(socket) /\ UNCHANGED <<socket, plist, job>>
      BY <1>1, <1>4, <2>1 DEF StopOutdated, Running
    <3> QED
      BY <1>1, <3>1, TerminateStep DEF ClaimInv, TypeOK
  <2>2. CASE ~(Running(door[d].pid) /\ Answers /\ socket = door[d].pid /\ IsService(socket))
    BY <1>1, <1>4, <2>2, AsideStep DEF StopOutdated
  <2> QED
    BY <2>1, <2>2
<1>5. CASE Bootout(d)
  <2>1. job' \in [loaded : BOOLEAN, runs : Builds, pid : Pids \cup {None}, again : BOOLEAN]
    BY <1>1, <1>5 DEF Bootout
  <2>2. UNCHANGED <<socket, plist>>
    BY <1>5 DEF Bootout
  <2>3. CASE job.loaded /\ Running(job.pid)
    <3>1. /\ job.pid \in Pids /\ proc' = Terminated(job.pid)
          /\ lock' = LockAfter(job.pid)
      BY <1>1, <1>5, <2>3 DEF Bootout, Running
    <3> QED
      BY <1>1, <2>1, <2>2, <2>3, <3>1, TerminateStep DEF ClaimInv, TypeOK
  <2>4. CASE ~(job.loaded /\ Running(job.pid))
    <3>1. UNCHANGED <<proc, lock>>
      BY <1>5, <2>4 DEF Bootout
    <3> QED
      BY <2>1, <2>2, <3>1 DEF ClaimInv, TypeOK, LockHeld, EndpointHeld
  <2> QED
    BY <2>3, <2>4
<1>6. CASE Bootstrap(d)
  <2>1. UNCHANGED <<lock, socket, plist>>
    BY <1>6 DEF Bootstrap
  <2>2. CASE UNCHANGED <<proc, job>>
    BY <1>1, <2>1, <2>2, AsideStep
  <2>3. CASE /\ Free # {} /\ proc' = Spawned(plist, TRUE)
             /\ job' = [loaded |-> TRUE, runs |-> plist, pid |-> Next1, again |-> FALSE]
    <3>1. job' \in [loaded : BOOLEAN, runs : Builds, pid : Pids \cup {None}, again : BOOLEAN]
      BY <1>1, <2>3, NextIsFree
    <3> QED
      BY <1>1, <2>1, <2>3, <3>1, SpawnStep DEF ClaimInv, TypeOK
  <2> QED
    BY <1>6, <2>2, <2>3 DEF Bootstrap
<1>7. CASE Kickstart(d)
  <2>1. UNCHANGED <<lock, socket, plist>>
    BY <1>7 DEF Kickstart
  <2>2. CASE UNCHANGED <<proc, job>>
    BY <1>1, <2>1, <2>2, AsideStep
  <2>3. CASE /\ Free # {} /\ proc' = Spawned(job.runs, TRUE)
             /\ job' = [job EXCEPT !.pid = Next1, !.again = FALSE]
    <3>1. /\ job' \in [loaded : BOOLEAN, runs : Builds, pid : Pids \cup {None}, again : BOOLEAN]
          /\ job.runs \in Builds
      BY <1>1, <2>3, NextIsFree
    <3> QED
      BY <1>1, <2>1, <2>3, <3>1, SpawnStep DEF ClaimInv, TypeOK
  <2> QED
    BY <1>7, <2>2, <2>3 DEF Kickstart
<1> QED
  BY <1>2, <1>3, <1>4, <1>5, <1>6, <1>7 DEF FrontDoor

LEMMA ClaimStep ==
  ASSUME ClaimInv, [Next]_vars
  PROVE  ClaimInv'
<1>1. /\ plist \in Builds /\ lock \in Pids \cup {None}
      /\ job \in [loaded : BOOLEAN, runs : Builds, pid : Pids \cup {None}, again : BOOLEAN]
      /\ "this" \in Builds /\ FALSE \in BOOLEAN /\ TRUE \in BOOLEAN
  BY DEF ClaimInv, TypeOK, Builds
<1>2. ASSUME NEW p \in Pids, Crash(p)
      PROVE  ClaimInv'
  BY <1>1, <1>2, ExitStep DEF Crash
<1>3. ASSUME NEW p \in Pids, Quit(p)
      PROVE  ClaimInv'
  <2>1. /\ At(p, "ending") /\ proc[p].at = "serving"
        /\ UNCHANGED <<lock, socket, plist, job>>
    BY <1>3 DEF Quit
  <2>2. lock = p /\ socket = p
    BY <2>1 DEF ClaimInv, LockHeld, EndpointHeld, Holding
  <2>3. "ending" \in Stages
    BY DEF Stages
  <2>4. /\ proc' \in [Pids -> [at : Stages, build : Builds, service : BOOLEAN]]
        /\ LockHeld' /\ EndpointHeld'
    BY <2>1, <2>2, <2>3, OneStep
  <2> QED
    BY <2>1, <2>4 DEF ClaimInv, TypeOK
<1>4. ASSUME NEW d \in Doors, Late(d)
      PROVE  ClaimInv'
  BY <1>1, <1>4, AsideStep DEF Late
<1>5. CASE KeepAlive
  <2>1. /\ proc' = Spawned(job.runs, TRUE) /\ Free # {} /\ job.runs \in Builds
        /\ UNCHANGED <<lock, socket, plist>>
        /\ job' \in [loaded : BOOLEAN, runs : Builds, pid : Pids \cup {None}, again : BOOLEAN]
    BY <1>1, <1>5, NextIsFree DEF KeepAlive
  <2> QED
    BY <1>1, <2>1, SpawnStep DEF ClaimInv, TypeOK
<1>6. CASE StartByHand
  <2>1. /\ proc' = Spawned("this", FALSE) /\ Free # {}
        /\ UNCHANGED <<lock, socket, plist, job>>
    BY <1>6 DEF StartByHand
  <2> QED
    BY <1>1, <2>1, SpawnStep DEF ClaimInv, TypeOK
<1>7. CASE UNCHANGED vars
  BY <1>1, <1>7, AsideStep DEF vars
<1> QED
  BY <1>2, <1>3, <1>4, <1>5, <1>6, <1>7, DaemonStep, DoorStep DEF Next

LEMMA ClaimInit ==
  Init => ClaimInv
<1> SUFFICES ASSUME Init
             PROVE  ClaimInv
  OBVIOUS
<1>1. PICK at \in {"gone", "serving"}, build \in Builds, service \in BOOLEAN :
        /\ proc = [p \in Pids |-> IF p = 1 THEN [at |-> at, build |-> build, service |-> service]
                                  ELSE NoProc]
        /\ socket \in IF at = "serving" THEN {1} ELSE {0, 1}
        /\ lock = IF at = "serving" THEN 1 ELSE None
        /\ plist \in Builds
        /\ \E loaded \in BOOLEAN :
             /\ platform = "linux" => ~loaded
             /\ platform = "macos" /\ service /\ at = "serving" => loaded
             /\ job = [loaded |-> loaded, runs |-> plist, again |-> FALSE,
                       pid |-> IF loaded /\ service /\ at = "serving" THEN 1 ELSE None]
  BY Zenon DEF Init
<1>2. 1 \in Pids
  BY DaemonAssumption
<1>3. TypeOK
  <2>1. job \in [loaded : BOOLEAN, runs : Builds, pid : Pids \cup {None}, again : BOOLEAN]
    BY <1>1, <1>2
  <2> QED
    BY <1>1, <1>2, <2>1 DEF TypeOK, NoProc, Stages, Builds, None
<1>4. LockHeld /\ EndpointHeld
  BY <1>1, <1>2 DEF LockHeld, EndpointHeld, NoProc, Holding
<1> QED
  BY <1>3, <1>4 DEF ClaimInv

\* At most one daemon is past its claim, and it is the one frontends reach,
\* whatever doors, launchd and people start, stop and kill, and in whatever
\* order (Claim::take_with, lock_beside_with, Drop for Claim).
THEOREM OneDaemonAtMost == Spec => []OneReachableDaemon
<1>1. ClaimInv => OneReachableDaemon
  <2> SUFFICES ASSUME ClaimInv
               PROVE  OneReachableDaemon
    OBVIOUS
  <2>1. PastClaim \subseteq {socket}
    BY DEF PastClaim, ClaimInv, EndpointHeld
  <2>2. Cardinality(PastClaim) <= 1
    <3>1. IsFiniteSet({socket}) /\ Cardinality({socket}) = 1
      BY FS_Singleton
    <3>2. Cardinality(PastClaim) <= Cardinality({socket})
      BY <2>1, <3>1, FS_Subset
    <3> QED
      BY <3>1, <3>2
  <2> QED
    BY <2>2 DEF OneReachableDaemon, ClaimInv, EndpointHeld
<1>2. ClaimInv /\ [Next]_vars => ClaimInv'
  BY ClaimStep
<1> QED
  BY <1>1, <1>2, ClaimInit, PTL DEF Spec
====
