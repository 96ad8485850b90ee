---- MODULE Emulation ----
(***************************************************************************)
(* The machine that is driven (src/src/emulation.rs): the task that        *)
(* listens to the peers' links, the task that injects what they send, the  *)
(* queues between them, what each peer holds down here                     *)
(* (crates/input-emulation/src/lib.rs), and whether this machine is driven *)
(* remotely, which the service asks before it widens trust.                *)
(*                                                                         *)
(* A peer is the address its links come from.  A message a link has sent   *)
(* is handled when its step is taken, until the listening task has seen    *)
(* that its links are gone; what a link is told of the others' queues      *)
(* being full only slows it and is left out of what it may send.  A step   *)
(* is what a task does between two awaits.                                 *)
(***************************************************************************)
EXTENDS Naturals, Sequences, FiniteSets, Functions

CONSTANTS
  Peers,        \* the addresses machines drive this one from
  Steady,       \* the peers whose leases and links an instance leaves alone
  Keys,         \* what a peer may hold down
  Inputs,       \* the kinds of input each peer sends: "move", "down", "up"
  Scopes,       \* what the backend may be: "machine", "handle" (ButtonScope)
  Limit,        \* PEER_QUEUE_LIMIT
  MaxLinks,     \* bound on the links at once from one address
  MaxNotices,   \* bound on the links' comings and goings waiting to be seen
  MaxRequests,  \* bound on the requests waiting to be sorted
  MaxTold,      \* bound on the session's comings and goings waiting to be heard
  MaxQueue      \* bound on what is queued for each peer

ASSUME EmulationAssumption ==
  /\ IsFiniteSet(Peers) /\ IsFiniteSet(Keys) /\ Steady \subseteq Peers
  /\ Inputs \in [Peers -> SUBSET {"move", "down", "up"}]
  /\ Scopes \subseteq {"machine", "handle"} /\ Scopes # {}
  /\ Limit \in Nat \ {0, 1}
  /\ MaxLinks \in Nat /\ MaxNotices \in Nat /\ MaxRequests \in Nat /\ MaxTold \in Nat
  /\ MaxQueue \in [Peers -> Nat]

VARIABLES
  trust,     \* the peers a lease lets drive this machine
  cutting,   \* the peers a lease was taken from, whose links are yet to be cut
  links,     \* how many links from each address are listed (conns)
  readers,   \* how many links from each address are read
  notices,   \* ListenEvents waiting: "accept" and "closed", with the address
  peerOf,    \* the addresses accepted and not seen closed
  refused,   \* the peers let go of because the trust check refused them
  driving,   \* Crossed: the peers crossed onto this machine
  active,    \* emulation_active, as the listening task last heard
  told,      \* EmulationEvents to it: "enabled", "disabled"
  requests,  \* ProxyRequests to the injecting task
  session,   \* "off", "starting", "creating", "on", "ending"
  restart,   \* a restart of the session is awaited
  queues,    \* what each peer waits for
  turn,      \* the peers with something queued, in the order they are served
  pressure,  \* the peers told to stop sending
  handles,   \* the peers the injecting task has a handle for
  pressed,   \* what each handle holds
  scope,     \* the backend's ButtonScope
  os,        \* what is down at the system, by device
  held,      \* Driven::held
  recent,    \* Driven::last_input is within the quiet window
  click,     \* a peer's click asked the service to widen trust
  consented  \* history: such a request was granted

linkVars == <<trust, cutting, links, readers, notices>>
listenVars == <<peerOf, refused, driving, active>>
queueVars == <<queues, turn, pressure>>
backendVars == <<handles, pressed, os, held>>
vars == <<linkVars, listenVars, told, requests, session, restart, queueVars, backendVars,
          scope, recent, click, consented>>

Input(p, kind, key) == [kind |-> kind, peer |-> p, key |-> key]
RemoveOf(p) == [kind |-> "remove", peer |-> p, key |-> "none"]
Reenable == [kind |-> "reenable", peer |-> "none", key |-> "none"]
StopForMissing == [kind |-> "stop", peer |-> "none", key |-> "none"]
InputsOf(p) ==
  {Input(p, kind, key) : kind \in Inputs[p] \cap {"down", "up"}, key \in Keys}
    \cup {Input(p, kind, "none") : kind \in Inputs[p] \cap {"move"}}

----------------------------------------------------------------------------
(* Links and trust *)

\* admit: a link is listed, said to be accepted, and read.  Its peer could drive
\* this machine when it was asked, before the reply stream was opened.
Accept(p) ==
  /\ readers[p] < MaxLinks /\ Len(notices) < MaxNotices
  /\ links' = [links EXCEPT ![p] = @ + 1]
  /\ readers' = [readers EXCEPT ![p] = @ + 1]
  /\ notices' = Append(notices, <<"accept", p>>)
  /\ UNCHANGED <<trust, cutting, listenVars, told, requests, session, restart, queueVars,
                 backendVars, scope, recent, click, consented>>

\* read_loop ends, and remove_conn: one entry of that address is taken off the
\* list, and if none is left that is said.  A peer told to stop sending is not
\* read, and its link is not seen to end, until it may send again.
LinkEnds(p) ==
  /\ readers[p] > 0 /\ p \notin pressure /\ p \notin Steady
  /\ readers' = [readers EXCEPT ![p] = @ - 1]
  /\ links' = [links EXCEPT ![p] = IF @ = 0 THEN 0 ELSE @ - 1]
  /\ notices' = IF links'[p] = 0 THEN Append(notices, <<"closed", p>>) ELSE notices
  /\ UNCHANGED <<trust, cutting, listenVars, told, requests, session, restart, queueVars,
                 backendVars, scope, recent, click, consented>>

\* A lease is taken back, or given again.
TrustChanges(p) ==
  /\ p \notin Steady
  /\ \/ p \in trust /\ trust' = trust \ {p} /\ cutting' = cutting \cup {p}
     \/ p \notin trust /\ trust' = trust \cup {p} /\ UNCHANGED cutting
  /\ UNCHANGED <<links, readers, notices, listenVars, told, requests, session, restart,
                 queueVars, backendVars, scope, recent, click, consented>>

\* close_fingerprint: the service closes what a lease taken back had let in and
\* takes it off the list; each link's own reader finds it closed.
Cut(p) ==
  /\ p \in cutting
  /\ cutting' = cutting \ {p}
  /\ links' = [links EXCEPT ![p] = 0]
  /\ UNCHANGED <<trust, readers, notices, listenVars, told, requests, session, restart,
                 queueVars, backendVars, scope, recent, click, consented>>

----------------------------------------------------------------------------
(* The listening task *)

Send(request) == requests' = Append(requests, request)

\* input_permitted.
Permitted(p) == p \in peerOf /\ p \in trust

\* ListenTask::admit refuses: what the peer holds is let go, once.
Refuse(p) ==
  /\ ~Permitted(p)
  /\ refused' = refused \cup {p}
  /\ IF p \in refused THEN UNCHANGED requests ELSE Send(RemoveOf(p))
  /\ UNCHANGED <<driving, recent>>

Admit(p) == Permitted(p) /\ refused' = refused \ {p}

\* Crossed::remove.
NoLongerDriving(p) ==
  /\ driving' = driving \ {p}
  /\ recent' = (recent \/ p \in driving)

OnEnter(p) ==
  \/ Refuse(p)
  \/ /\ Admit(p)
     /\ driving' = IF links[p] > 0 THEN driving \cup {p} ELSE driving
     /\ UNCHANGED <<requests, recent>>

\* Mutant of OnLeave: what the peer holds is not let go.
LeaveKeepsHeld(p) ==
  /\ NoLongerDriving(p)
  /\ UNCHANGED <<refused, requests>>

OnLeave(p) ==
  /\ NoLongerDriving(p)
  /\ Send(RemoveOf(p))
  /\ UNCHANGED refused

\* EmulationProxy::consume, of a peer that has crossed.
OnInput(p, input) ==
  \/ Refuse(p)
  \/ /\ Admit(p) /\ p \in driving
     /\ recent' = TRUE
     /\ IF active THEN Send(input) ELSE UNCHANGED requests
     /\ UNCHANGED driving
  \/ /\ Admit(p) /\ p \notin driving
     /\ UNCHANGED <<driving, requests, recent>>

\* A message of a peer's link.
Message(p) ==
  /\ p \in peerOf /\ Len(requests) < MaxRequests
  /\ OnEnter(p) \/ OnLeave(p) \/ \E input \in InputsOf(p) : OnInput(p, input)
  /\ UNCHANGED <<linkVars, peerOf, active, told, session, restart, queueVars,
                 backendVars, scope, click, consented>>

OnAccept(p) ==
  /\ NoLongerDriving(p)
  /\ peerOf' = peerOf \cup {p}
  /\ UNCHANGED <<refused, requests>>

OnClosed(p) ==
  /\ Send(RemoveOf(p))
  /\ NoLongerDriving(p)
  /\ refused' = refused \ {p}
  /\ peerOf' = peerOf \ {p}

Notice ==
  /\ notices # <<>> /\ Len(requests) < MaxRequests
  /\ notices' = Tail(notices)
  /\ LET p == Head(notices)[2] IN
     \/ Head(notices)[1] = "accept" /\ OnAccept(p)
     \/ Head(notices)[1] = "closed" /\ OnClosed(p)
  /\ UNCHANGED <<trust, cutting, links, readers, active, told, session, restart, queueVars, backendVars,
                 scope, click, consented>>

\* The watchdog: nothing was heard from the peer for too long (last_response).
Reap(p) ==
  /\ p \in peerOf /\ Len(requests) < MaxRequests
  /\ Send(RemoveOf(p))
  /\ NoLongerDriving(p)
  /\ refused' = refused \ {p}
  /\ UNCHANGED <<linkVars, peerOf, active, told, session, restart, queueVars,
                 backendVars, scope, click, consented>>

\* EmulationProxy::event.
HearSession ==
  /\ told # <<>>
  /\ active' = (Head(told) = "enabled")
  /\ told' = Tail(told)
  /\ UNCHANGED <<linkVars, peerOf, refused, driving, requests, session, restart,
                 queueVars, backendVars, scope, recent, click, consented>>

\* The service asks for emulation again, or stops it for a permission taken.
AskSession ==
  /\ Len(requests) < MaxRequests
  /\ \/ Send(Reenable) /\ UNCHANGED active
     \/ Send(StopForMissing) /\ active' = FALSE
  /\ UNCHANGED <<linkVars, peerOf, refused, driving, told, session, restart,
                 queueVars, backendVars, scope, recent, click, consented>>

----------------------------------------------------------------------------
(* What the backend holds *)

Devices(p) == IF scope = "machine" THEN "machine" ELSE p
Holders(key) == {p \in Peers : key \in pressed[p]}
HoldsAnything == \E p \in Peers : pressed[p] # {}

\* A down: recorded and passed on.
Down(p, key) ==
  /\ pressed' = [pressed EXCEPT ![p] = @ \cup {key}]
  /\ os' = os \cup {<<Devices(p), key>>}

\* An up: dropped if nobody holds it; on one shared device for everyone; else on
\* the sender's own device, or on another that holds it.
Up(p, key) ==
  \/ Holders(key) = {} /\ UNCHANGED <<pressed, os>>
  \/ /\ Holders(key) # {} /\ scope = "machine"
     /\ pressed' = [q \in Peers |-> pressed[q] \ {key}]
     /\ os' = os \ {<<"machine", key>>}
  \/ /\ scope = "handle"
     /\ \E q \in IF key \in pressed[p] THEN {p} ELSE Holders(key) :
          /\ pressed' = [pressed EXCEPT ![q] = @ \ {key}]
          /\ os' = os \ {<<q, key>>}

\* Mutant of LetGo: what another peer holds too is let go at the system.
LetGoOfAll(p) ==
  /\ pressed' = [pressed EXCEPT ![p] = {}]
  /\ os' = os \ {<<Devices(p), key>> : key \in pressed[p]}

\* release_held and destroy: a device others share keeps what they hold.
LetGo(p) ==
  /\ pressed' = [pressed EXCEPT ![p] = {}]
  /\ os' = os \ {<<Devices(p), key>> :
                   key \in {k \in pressed[p] :
                              scope = "machine" => Holders(k) \subseteq {p}}}

\* Driven::let_go, and a click the release completes may ask to widen trust.
Released(wasHeld) ==
  /\ held' = (\E p \in Peers : pressed'[p] # {})
  /\ recent' = (recent \/ wasHeld)
  /\ click' \in {click, click \/ wasHeld}

\* EmulationTask::destroy.
Destroy(p) ==
  \/ /\ p \in handles
     /\ handles' = handles \ {p}
     /\ LetGo(p)
     /\ Released(pressed[p] # {})
  \/ p \notin handles /\ UNCHANGED <<backendVars, recent, click>>

----------------------------------------------------------------------------
(* The injecting task *)

\* PeerQueues::push.
Merges(queue, item) ==
  item.kind = "move" /\ queue # <<>> /\ queue[Len(queue)].kind = "move"
Pushed(queue, item) == IF Merges(queue, item) THEN queue ELSE Append(queue, item)

Push(item) ==
  LET p == item.peer IN
  /\ Len(queues[p]) < MaxQueue[p]
  /\ queues' = [queues EXCEPT ![p] = Pushed(@, item)]
  /\ turn' = IF queues[p] = <<>> THEN Append(turn, p) ELSE turn
  /\ pressure' = IF item.kind # "remove" /\ Len(queues'[p]) >= Limit
                 THEN pressure \cup {p} ELSE pressure

\* Mutant of SessionEnds: the peers told to stop are not told otherwise.
EndsUnderPressure(mayRestart) ==
  /\ session' = "ending"
  /\ restart' = mayRestart
  /\ queues' = [p \in Peers |-> <<>>]
  /\ turn' = <<>>
  /\ UNCHANGED pressure

\* do_emulation after its session: what was waiting goes with it, and its
\* peers may send again.
SessionEnds(mayRestart) ==
  /\ session' = "ending"
  /\ restart' = mayRestart
  /\ queues' = [p \in Peers |-> <<>>]
  /\ turn' = <<>>
  /\ pressure' = pressure \ {p \in Peers : queues[p] # <<>>}

\* EmulationTask::sort, of one request.
Sort ==
  /\ session = "on" /\ requests # <<>>
  /\ requests' = Tail(requests)
  /\ LET request == Head(requests) IN
     \/ request.kind = "stop" /\ SessionEnds(FALSE)
     \/ request.kind = "reenable" /\ UNCHANGED <<session, restart, queueVars>>
     \/ /\ request.kind \notin {"stop", "reenable"}
        /\ Push(request)
        /\ UNCHANGED <<session, restart>>
  /\ UNCHANGED <<linkVars, listenVars, told, backendVars, scope, recent, click, consented>>

\* PeerQueues::pop, and a peer whose queue has drained may send again.
Pop(p) ==
  /\ turn # <<>> /\ p = Head(turn)
  /\ queues' = [queues EXCEPT ![p] = Tail(@)]
  /\ turn' = IF Len(queues[p]) > 1 THEN Append(Tail(turn), p) ELSE Tail(turn)
  /\ pressure' = IF Len(queues[p]) - 1 < Limit \div 2 THEN pressure \ {p} ELSE pressure

\* PeerQueues::drop_peer.
DropPeer(p) ==
  /\ turn # <<>> /\ p = Head(turn)
  /\ queues' = [queues EXCEPT ![p] = <<>>]
  /\ turn' = Tail(turn)
  /\ pressure' = pressure \ {p}

\* InputEmulation::consume and Driven::injected.
Consume(input) ==
  LET p == input.peer IN
  /\ handles' = handles \cup {p}
  /\ \/ input.kind = "down" /\ Down(p, input.key)
     \/ input.kind = "up" /\ Up(p, input.key)
     \/ input.kind = "move" /\ UNCHANGED <<pressed, os>>
  /\ held' = (\E q \in Peers : pressed'[q] # {})
  /\ recent' = TRUE
  /\ click' \in {click, TRUE}

\* One turn of the injecting task: an input of a peer that lost permission
\* takes everything of that peer with it.
Inject(p) ==
  /\ session = "on" /\ turn # <<>> /\ p = Head(turn)
  /\ LET item == Head(queues[p]) IN
     \/ item.kind # "remove" /\ p \notin trust /\ DropPeer(p) /\ Destroy(p)
     \/ item.kind # "remove" /\ p \in trust /\ Pop(p) /\ Consume(item)
     \/ item.kind = "remove" /\ Pop(p) /\ Destroy(p)
  /\ UNCHANGED <<linkVars, listenVars, told, requests, session, restart, scope, consented>>

\* The system ends the session, or refuses the next input.
SystemEnds ==
  /\ session = "on"
  /\ \E mayRestart \in BOOLEAN : SessionEnds(mayRestart)
  /\ UNCHANGED <<linkVars, listenVars, told, requests, backendVars, scope, recent, click,
                 consented>>

\* Mutant of Terminated: the releases are not counted as the peers' input.
TerminatedUncounted ==
  /\ session = "ending"
  /\ session' = "off"
  /\ pressed' = [p \in Peers |-> {}] /\ os' = {} /\ held' = FALSE
  /\ click' \in {click, click \/ HoldsAnything}
  /\ told' = Append(told, "disabled")
  /\ UNCHANGED <<linkVars, listenVars, requests, restart, queueVars, handles, scope,
                 recent, consented>>

\* InputEmulation::terminate and let_go, and the guard says so.
Terminated ==
  /\ session = "ending"
  /\ session' = "off"
  /\ pressed' = [p \in Peers |-> {}] /\ os' = {}
  /\ Released(HoldsAnything)
  /\ told' = Append(told, "disabled")
  /\ UNCHANGED <<linkVars, listenVars, requests, restart, queueVars, handles, scope,
                 consented>>

\* EmulationTask::run between sessions: only a request to start is heeded.
WhileOff ==
  /\ session = "off" /\ requests # <<>>
  /\ requests' = Tail(requests)
  /\ session' = IF Head(requests).kind = "reenable" THEN "starting" ELSE "off"
  /\ restart' = (restart /\ Head(requests).kind \notin {"stop", "reenable"})
  /\ UNCHANGED <<linkVars, listenVars, told, queueVars, backendVars, scope, recent, click,
                 consented>>

\* A second or more after the session ended: what was waiting by then was read.
RestartAfterTheShield ==
  /\ session = "off" /\ restart /\ requests = <<>> /\ told = <<>>
  /\ session' = "starting"
  /\ restart' = FALSE
  /\ UNCHANGED <<linkVars, listenVars, told, requests, queueVars, backendVars, scope,
                 recent, click, consented>>

\* wait_for_termination: what comes while the backend starts is dropped.
WhileStarting ==
  /\ session = "starting" \/ (session = "creating" /\ handles # {})
  /\ requests # <<>>
  /\ requests' = Tail(requests)
  /\ UNCHANGED <<linkVars, listenVars, told, session, restart, queueVars, backendVars,
                 scope, recent, click, consented>>

Start ==
  /\ session = "starting"
  /\ Len(told) < MaxTold
  /\ \/ session' = "creating" /\ told' = Append(told, "enabled")
     \/ session' = "off" /\ UNCHANGED told
  /\ UNCHANGED <<linkVars, listenVars, requests, restart, queueVars, backendVars, scope,
                 recent, click, consented>>

CreateClients ==
  /\ session = "creating"
  /\ session' = "on"
  /\ UNCHANGED <<linkVars, listenVars, told, requests, restart, queueVars, backendVars,
                 scope, recent, click, consented>>

----------------------------------------------------------------------------
(* The service, asked to widen trust *)

\* Driven::within.
RemotelyDriven == driving # {} \/ held \/ recent

\* A key a peer holds repeats at this machine with nothing sent.
KeyRepeats ==
  /\ os # {}
  /\ click' = TRUE
  /\ UNCHANGED <<linkVars, listenVars, told, requests, session, restart, queueVars,
                 backendVars, scope, recent, consented>>

\* refuse_while_remotely_driven.
WidenTrust ==
  /\ click
  /\ click' = FALSE
  /\ consented' = (consented \/ ~RemotelyDriven)
  /\ UNCHANGED <<linkVars, listenVars, told, requests, session, restart, queueVars,
                 backendVars, scope, recent>>

\* The quiet window passes; a request a click made is handled well within it.
QuietPasses ==
  /\ recent /\ ~click
  /\ recent' = FALSE
  /\ UNCHANGED <<linkVars, listenVars, told, requests, session, restart, queueVars,
                 backendVars, scope, click, consented>>

----------------------------------------------------------------------------

Init ==
  /\ trust = Peers
  /\ cutting = {} /\ links = [p \in Peers |-> 0] /\ readers = links /\ notices = <<>>
  /\ peerOf = {} /\ refused = {} /\ driving = {} /\ active = FALSE
  /\ told = <<>> /\ requests = <<>>
  /\ session = "starting" /\ restart = FALSE
  /\ queues = [p \in Peers |-> <<>>] /\ turn = <<>> /\ pressure = {}
  /\ handles = {} /\ pressed = [p \in Peers |-> {}] /\ os = {} /\ scope \in Scopes
  /\ held = FALSE /\ recent = FALSE /\ click = FALSE /\ consented = FALSE

Next ==
  \/ \E p \in Peers :
       \/ Accept(p) \/ LinkEnds(p) \/ TrustChanges(p) \/ Cut(p)
       \/ Message(p) \/ Reap(p) \/ Inject(p)
  \/ Notice \/ HearSession \/ AskSession
  \/ Sort \/ SystemEnds \/ Terminated \/ WhileOff \/ RestartAfterTheShield
  \/ WhileStarting \/ Start \/ CreateClients
  \/ KeyRepeats \/ WidenTrust \/ QuietPasses

Spec == Init /\ [][Next]_vars

----------------------------------------------------------------------------
(* Properties *)

\* What a peer holds is on its way up once its session is over, however it
\* ended: the peer left, its link closed, the watchdog reaped it, its permission
\* was taken, the backend's session ended under it.
LetGoIsComing(p) ==
  \/ \E i \in DOMAIN requests : requests[i] = RemoveOf(p)
  \/ \E i \in DOMAIN queues[p] : queues[p][i] = RemoveOf(p)
  \/ session = "ending"
HeldOnlyWhileCrossed ==
  \A p \in Peers : pressed[p] # {} => p \in driving \/ LetGoIsComing(p)

\* What the system is left holding is what the books say the peers hold, on one
\* shared device and on a device for each of them, whoever let go and in which
\* order; and only a running session holds anything.
SystemHoldsWhatIsRecorded ==
  /\ os = {<<Devices(x[1]), x[2]>> : x \in {y \in Peers \X Keys : y[2] \in pressed[y[1]]}}
  /\ held = HoldsAnything
  /\ HoldsAnything => session \in {"on", "ending"}

\* A peer with something queued is served within one turn of every other, and
\* one told to stop sending has a backlog here: the order of turns names exactly
\* the peers with something queued, each once, and no end of a session, no loss
\* of permission leaves a peer stopped for good (PeerQueues, Pressure).
NoPeerStarves ==
  /\ \A i, j \in DOMAIN turn : i # j => turn[i] # turn[j]
  /\ Range(turn) = {p \in Peers : queues[p] # <<>>}
  /\ \A p \in pressure : Len(queues[p]) >= Limit \div 2 /\ queues[p] # <<>>

\* No request that a peer's input made widens trust: not by a click that waited
\* in a queue, not by one that the end of its session completes, not by a key
\* that repeats.
NoRemoteConsent == ~consented
====
