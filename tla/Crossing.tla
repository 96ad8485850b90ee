---- MODULE Crossing ----
(***************************************************************************)
(* The machine that drives (src/src/capture.rs): the capture task, the     *)
(* events its backend queues, the crossing it makes to a device, and the   *)
(* device's links (src/src/connect.rs), composed with what the machine at  *)
(* the other end makes of what arrives (src/src/emulation.rs, listen.rs).  *)
(*                                                                         *)
(* A link is numbered as it comes up (PeerLink::serial).  Frames of a link *)
(* arrive in order, those of two links in any; frames a link still carries *)
(* when it ends are lost.  A handler is one step; time is only the order   *)
(* of steps, so a deadline may pass at any moment.                         *)
(***************************************************************************)
EXTENDS Naturals, Sequences, FiniteSets

CONSTANTS
  Clients,    \* the devices, each at an edge of its own
  Keys,       \* the keys of the keyboard
  Buttons,    \* the buttons of the mouse
  LockKeys,   \* is_lock_key
  Bind,       \* release_bind
  Gestures,   \* what the person may press and let go of, as kind and key
  None,       \* no client
  Linger,     \* a peer may still list a link when the next one comes up
  MaxLinks,   \* bound on the links made to a device
  MaxEvents,  \* bound on the events waiting in the backend
  MaxHeard,   \* bound on the answers waiting to be handled
  MaxFrames   \* bound on the frames on their way on one link

ASSUME CrossingAssumption ==
  /\ IsFiniteSet(Clients) /\ None \notin Clients
  /\ IsFiniteSet(Keys) /\ IsFiniteSet(Buttons) /\ Keys \cap Buttons = {}
  /\ LockKeys \subseteq Keys /\ Bind \subseteq Keys /\ Bind # {}
  /\ Gestures \subseteq [kind : {"down", "up"}, key : Keys \cup Buttons]
  /\ Linger \in BOOLEAN
  /\ MaxLinks \in Nat /\ MaxEvents \in Nat /\ MaxHeard \in Nat /\ MaxFrames \in Nat

VARIABLES
  running,     \* a capture session runs
  on,          \* captures: the clients switched on
  captured,    \* the edge the backend holds the pointer at
  events,      \* what the backend has queued
  pressed,     \* InputCapture::pressed_keys
  active,      \* active_client
  state,       \* "WaitingForAck", "Sending"
  awaiting,    \* awaiting_ack: a deadline runs
  enterWaits,  \* enter_waits
  ackedAt,     \* acked_at: the client whose address is known
  ackedLink,   \* acked_link, 0 for none
  buttons,     \* buttons_down_on_peer
  lockHeld,    \* held_lock_keys
  unanswered,  \* the clients in their backoff
  mayDrive,    \* the clients this machine holds a lease to drive
  link,        \* the link each client is on, 0 for none
  made,        \* the links made to each client
  answered,    \* the clients that answered a ping
  alive,       \* the clients that last said they inject
  heard,       \* what peers sent, with the link it came on
  out,         \* the frames on their way on each link
  accepted,    \* the last link each peer accepted
  listed,      \* the links each peer lists
  crossed,     \* the peers this machine has crossed onto
  held         \* what each peer holds down for this machine

backendVars == <<running, on, captured, events>>
crossingVars == <<active, state, awaiting, enterWaits, ackedAt, ackedLink, buttons>>
booksVars == <<pressed, lockHeld, unanswered>>
connVars == <<link, answered, alive>>
peerVars == <<accepted, listed, crossed, held>>
vars == <<backendVars, crossingVars, booksVars, connVars, mayDrive, made, heard, out,
          peerVars>>

Inputs == Keys \cup Buttons
Event(kind, key) == [kind |-> kind, key |-> key]
Begin == Event("begin", "none")
Move == Event("move", "none")
Enter == [kind |-> "enter", keys |-> {}]
Leave == [kind |-> "leave", keys |-> {}]
Frame(event) ==
  [kind |-> event.kind, keys |-> IF event.key = "none" THEN {} ELSE {event.key}]
Ups(keys) == [kind |-> "up", keys |-> keys]

----------------------------------------------------------------------------
(* Links, as the capture task sees them *)

\* A dial lands, or a link the peer dialled is adopted.  One adopted in the
\* place of another leaves what the device said on that one.
LinkUp(c) ==
  /\ c \in mayDrive /\ made[c] < MaxLinks
  /\ made' = [made EXCEPT ![c] = @ + 1]
  /\ link' = [link EXCEPT ![c] = made[c] + 1]
  /\ UNCHANGED <<backendVars, crossingVars, booksVars, answered, alive, mayDrive, heard,
                 out, peerVars>>

\* disconnect.
Disconnected(c) ==
  /\ link' = [link EXCEPT ![c] = 0]
  /\ answered' = answered \ {c}
  /\ alive' = alive \ {c}

LinkDown(c) ==
  /\ link[c] # 0
  /\ Disconnected(c)
  /\ UNCHANGED <<backendVars, crossingVars, booksVars, mayDrive, made, heard, out, peerVars>>

\* The lease to drive the device is taken back, or given again.
LeaseChanges(c) ==
  /\ mayDrive' = IF c \in mayDrive THEN mayDrive \ {c} ELSE mayDrive \cup {c}
  /\ UNCHANGED <<backendVars, crossingVars, booksVars, connVars, made, heard, out, peerVars>>

\* receive_loop: a Pong, of which the first on a link goes to the capture task.
Pong(c) ==
  /\ link[c] \in listed[c] /\ Len(heard) < MaxHeard
  /\ answered' = answered \cup {c}
  /\ alive' \in {alive \cup {c}, alive \ {c}}
  /\ heard' = IF c \in answered THEN heard ELSE Append(heard, <<c, "pong", link[c]>>)
  /\ UNCHANGED <<backendVars, crossingVars, booksVars, link, mayDrive, made, out, peerVars>>

\* LanMouseConnection::send goes through.
CanSend(c) == link[c] # 0 /\ c \in mayDrive /\ c \in alive
Sent(c, frames) == out' = [out EXCEPT ![c][link[c]] = @ \o frames]

----------------------------------------------------------------------------
(* Leaving *)

\* Mutant of LeavingReaches: the frames that end a visit go out as any input.
LeavesAsInput(c) == CanSend(c)

\* leave_active_client: what the peer holds is let go and it is told, on the
\* link at the address that acknowledged the crossing, else as any input.
LeavingReaches(c) ==
  \/ link[c] # 0 /\ ackedAt = c
  \/ CanSend(c)

LeaveActive(keys) ==
  /\ active' = None /\ awaiting' = FALSE /\ enterWaits' = FALSE
  /\ buttons' = {} /\ ackedAt' = None /\ ackedLink' = 0
  /\ \/ active = None /\ UNCHANGED <<out, connVars>>
     \/ /\ active # None /\ LeavingReaches(active)
        /\ Sent(active, <<Ups(buttons \cup keys), Leave>>)
        /\ UNCHANGED connVars
     \/ /\ active # None /\ ~LeavingReaches(active)
        /\ IF link[active] # 0 /\ active \notin mayDrive
           THEN Disconnected(active) ELSE UNCHANGED connVars
        /\ UNCHANGED out

\* release_capture.
ReleaseCapture(keys) ==
  /\ LeaveActive(keys)
  /\ captured' = None
  /\ pressed' = {}

\* A send that failed: it closed the link of a peer this machine may no longer
\* drive, and the capture is released.
SendFailed(c, keys) ==
  /\ captured' = None /\ pressed' = {}
  /\ IF link[c] # 0 /\ c \in mayDrive
     THEN LeaveActive(keys)
     ELSE /\ Disconnected(c)
          /\ active' = None /\ awaiting' = FALSE /\ enterWaits' = FALSE
          /\ buttons' = {} /\ ackedAt' = None /\ ackedLink' = 0
          /\ UNCHANGED out

----------------------------------------------------------------------------
(* What the backend delivers *)

\* The pointer is pushed at an edge a client takes.
PushEdge(c) ==
  /\ running /\ c \in on /\ captured = None /\ Len(events) < MaxEvents
  /\ captured' = c
  /\ events' = Append(events, <<c, Begin>>)
  /\ UNCHANGED <<running, on, crossingVars, booksVars, connVars, mayDrive, made, heard,
                 out, peerVars>>

\* The person moves, presses or lets go, with the pointer held.
UserInput ==
  /\ running /\ captured # None /\ Len(events) < MaxEvents
  /\ \E event \in {Move} \cup Gestures :
       events' = Append(events, <<captured, event>>)
  /\ UNCHANGED <<running, on, captured, crossingVars, booksVars, connVars, mayDrive, made,
                 heard, out, peerVars>>

\* update_pressed_keys.
PressedAfter(event) ==
  IF event.key \notin Keys THEN pressed
  ELSE IF event.kind = "down" THEN pressed \cup {event.key} ELSE pressed \ {event.key}

\* Mutant of Relinked: a crossing is taken on every link.
RelinkUnnoticed(c) == FALSE

\* cross_again_if_relinked holds.
Relinked(c) ==
  /\ state = "Sending" /\ active = c
  /\ link[c] # 0 /\ ackedLink # link[c]

\* cannot_cross holds.
CannotCross(c) ==
  c \notin mayDrive \/ link[c] = 0 \/ c \notin answered \/ c \notin alive \/ c \in unanswered

\* What a crossing is once the relinked check is made.
StateNow(c) == IF Relinked(c) THEN "WaitingForAck" ELSE state

Settle(c) ==
  /\ state' = StateNow(c)
  /\ awaiting' = (awaiting \/ Relinked(c))
  /\ ackedLink' = IF Relinked(c) THEN 0 ELSE ackedLink

\* The release bind is down.
ByBind(now) ==
  /\ Bind \subseteq now
  /\ ReleaseCapture(now)
  /\ UNCHANGED <<state, lockHeld>>

\* A crossing to a client the pointer is not on.
Refused(c, now) ==
  /\ CannotCross(c)
  /\ ReleaseCapture(now)
  /\ UNCHANGED <<state, lockHeld>>

\* A link that is up and not answered on yet.
Unanswered(c) == link[c] # 0 /\ c \notin answered /\ c \in mayDrive

\* Mutant of NewCrossing: no deadline is set.
CrossesWithoutDeadline(c, now) ==
  /\ ~CannotCross(c)
  /\ state' = "WaitingForAck" /\ active' = c
  /\ enterWaits' = FALSE
  /\ Sent(c, <<Enter>>)
  /\ pressed' = now
  /\ UNCHANGED <<captured, awaiting, ackedAt, ackedLink, buttons, lockHeld, connVars>>

NewCrossing(c, now) ==
  /\ ~CannotCross(c)
  /\ state' = "WaitingForAck" /\ active' = c /\ awaiting' = TRUE
  /\ enterWaits' = FALSE
  /\ Sent(c, <<Enter>>)
  /\ pressed' = now
  /\ UNCHANGED <<captured, ackedAt, ackedLink, buttons, lockHeld, connVars>>

\* InputCapture::poll_next: an event at an edge no client takes any more; a
\* crossing there gives the pointer back.
Unclaimed(c, event, now) ==
  /\ c \notin on
  /\ captured' = IF event = Begin THEN None ELSE captured
  /\ pressed' = now
  /\ UNCHANGED <<crossingVars, lockHeld, connVars, out>>

\* An event of the local pointer: nothing reaches a peer outside a crossing.
Ignored(c, event, now) ==
  /\ active # c /\ event # Begin
  /\ pressed' = now
  /\ UNCHANGED <<captured, crossingVars, lockHeld, connVars, out>>

\* A lock key's auto-repeat.
Swallowed(event) == event.kind = "down" /\ event.key \in lockHeld
LockHeldAfter(event) ==
  IF event.kind = "down" THEN lockHeld \cup ({event.key} \cap LockKeys)
  ELSE lockHeld \ {event.key}

\* An event of the client the pointer is on goes out as what it is, or as the
\* Enter the crossing still waits for an answer to.
FrameOf(c, event) ==
  IF event = Begin \/ StateNow(c) = "WaitingForAck" THEN Enter ELSE Frame(event)
EnterMustWait(c, event) ==
  FrameOf(c, event) = Enter /\ (awaiting \/ Relinked(c)) /\ Unanswered(c)

\* Buttons the peer was sent a down for and no up since.
ButtonsAfter(frame) ==
  IF frame.kind = "down" THEN buttons \cup (frame.keys \cap Buttons)
  ELSE IF frame.kind = "up" THEN buttons \ frame.keys ELSE buttons

Forwarded(c, event, now) ==
  /\ active = c
  /\ \/ /\ Swallowed(event)
        /\ Settle(c)
        /\ pressed' = now
        /\ UNCHANGED <<captured, active, enterWaits, ackedAt, buttons, lockHeld, connVars, out>>
     \/ /\ ~Swallowed(event)
        /\ EnterMustWait(c, event)
        /\ Settle(c)
        /\ enterWaits' = TRUE
        /\ pressed' = now /\ lockHeld' = LockHeldAfter(event)
        /\ UNCHANGED <<captured, active, ackedAt, buttons, connVars, out>>
     \/ /\ ~Swallowed(event)
        /\ ~EnterMustWait(c, event)
        /\ CanSend(c)
        /\ Settle(c)
        /\ enterWaits' = (enterWaits /\ FrameOf(c, event).kind = "move")
        /\ buttons' = ButtonsAfter(FrameOf(c, event))
        /\ Sent(c, <<FrameOf(c, event)>>)
        /\ pressed' = now /\ lockHeld' = LockHeldAfter(event)
        /\ UNCHANGED <<captured, active, ackedAt, connVars>>
     \/ /\ ~Swallowed(event)
        /\ ~EnterMustWait(c, event)
        /\ ~CanSend(c)
        /\ SendFailed(c, now)
        /\ state' = StateNow(c)
        /\ lockHeld' = LockHeldAfter(event)

\* handle_capture_event.
HandleEvent ==
  /\ running /\ events # <<>>
  /\ events' = Tail(events)
  /\ LET c == Head(events)[1]
         event == Head(events)[2]
         now == PressedAfter(event)
     IN  /\ \A d \in Clients, l \in 1..MaxLinks : Len(out[d][l]) < MaxFrames
         /\ \/ Unclaimed(c, event, now)
            \/ c \in on /\ ByBind(now)
            \/ /\ c \in on /\ ~(Bind \subseteq now)
               /\ \/ event = Begin /\ active # c /\ (Refused(c, now) \/ NewCrossing(c, now))
                  \/ Ignored(c, event, now)
                  \/ Forwarded(c, event, now)
  /\ UNCHANGED <<running, on, unanswered, mayDrive, made, heard, peerVars>>

----------------------------------------------------------------------------
(* What peers answer, and what is asked of the capture task *)

OnAck(c, l) ==
  /\ state' = "Sending"
  /\ IF active = c
     THEN /\ awaiting' = FALSE
          /\ unanswered' = unanswered \ {c}
          /\ ackedAt' = IF link[c] # 0 THEN c ELSE None
          /\ ackedLink' = l
     ELSE UNCHANGED <<awaiting, unanswered, ackedAt, ackedLink>>
  /\ UNCHANGED <<captured, pressed, active, enterWaits, buttons, connVars, out>>

\* send_waiting_enter.
OnPong(c, l) ==
  LET waits == enterWaits /\ active = c /\ state = "WaitingForAck" /\ link[c] = l IN
  /\ \/ ~waits /\ UNCHANGED <<captured, pressed, crossingVars, connVars, out>>
     \/ /\ waits /\ CanSend(c)
        /\ enterWaits' = FALSE
        /\ Sent(c, <<Enter>>)
        /\ UNCHANGED <<captured, pressed, active, state, awaiting, ackedAt, ackedLink,
                       buttons, connVars>>
     \/ /\ waits /\ ~CanSend(c)
        /\ SendFailed(c, pressed)
        /\ UNCHANGED state
  /\ UNCHANGED unanswered

OnLeave == ReleaseCapture(pressed) /\ UNCHANGED <<state, unanswered>>

Hear ==
  /\ running /\ heard # <<>>
  /\ heard' = Tail(heard)
  /\ LET c == Head(heard)[1]
         what == Head(heard)[2]
         l == Head(heard)[3]
     IN  \/ /\ active \notin {None, c}
            /\ UNCHANGED <<captured, pressed, crossingVars, unanswered, connVars, out>>
         \/ /\ active \in {None, c}
            /\ \/ what = "ack" /\ OnAck(c, l)
               \/ what = "pong" /\ OnPong(c, l)
               \/ what = "leave" /\ OnLeave
  /\ UNCHANGED <<running, on, events, lockHeld, mayDrive, made, peerVars>>

\* give_up_on_crossing: the deadline passed.
GiveUp ==
  /\ running /\ awaiting
  /\ IF active = None
     THEN /\ awaiting' = FALSE
          /\ UNCHANGED <<captured, pressed, active, state, enterWaits, ackedAt, ackedLink,
                         buttons, unanswered, connVars, out>>
     ELSE /\ unanswered' = unanswered \cup {active}
          /\ ReleaseCapture(pressed)
          /\ UNCHANGED state
  /\ UNCHANGED <<running, on, events, lockHeld, mayDrive, made, heard, peerVars>>

BackoffEnds(c) ==
  /\ c \in unanswered
  /\ unanswered' = unanswered \ {c}
  /\ UNCHANGED <<backendVars, crossingVars, pressed, lockHeld, connVars, mayDrive, made,
                 heard, out, peerVars>>

\* CaptureRequest::Release.
AskRelease ==
  /\ running /\ captured # None
  /\ ReleaseCapture(pressed)
  /\ UNCHANGED <<running, on, events, state, lockHeld, unanswered, mayDrive, made, heard,
                 peerVars>>

\* CaptureRequest::Destroy: the client the pointer is on is left first.
SwitchOff(c) ==
  /\ running /\ c \in on
  /\ on' = on \ {c}
  /\ IF active = c THEN ReleaseCapture(pressed)
     ELSE UNCHANGED <<captured, pressed, active, awaiting, enterWaits, ackedAt, ackedLink,
                      buttons, connVars, out>>
  /\ unanswered' = unanswered \ {c}
  /\ UNCHANGED <<running, events, state, lockHeld, mayDrive, made, heard, peerVars>>

\* CaptureRequest::Create.
SwitchOn(c) ==
  /\ c \notin on
  /\ on' = on \cup {c}
  /\ UNCHANGED <<running, captured, events, crossingVars, booksVars, connVars, mayDrive,
                 made, heard, out, peerVars>>

\* do_capture after its session, however it ended, and the next one.
SessionEnds ==
  /\ running
  /\ running' = FALSE
  /\ LeaveActive(pressed)
  /\ captured' = None /\ events' = <<>> /\ pressed' = {}
  /\ UNCHANGED <<on, state, lockHeld, unanswered, mayDrive, made, heard, peerVars>>

SessionStarts ==
  /\ ~running
  /\ running' = TRUE
  /\ UNCHANGED <<on, captured, events, crossingVars, booksVars, connVars, mayDrive, made, heard,
                 out, peerVars>>

----------------------------------------------------------------------------
(* The machine at the other end *)

\* Its listener lists a link; a new link is a new session.
PeerAccepts(c) ==
  \E l \in (accepted[c] + 1)..made[c] :
    /\ Linger \/ listed[c] = {}
    /\ accepted' = [accepted EXCEPT ![c] = l]
    /\ listed' = [listed EXCEPT ![c] = @ \cup {l}]
    /\ crossed' = crossed \ {c}
    /\ UNCHANGED <<backendVars, crossingVars, booksVars, connVars, mayDrive, made, heard,
                   out, held>>

\* A reply goes out on the oldest link of that address, and is read while that
\* link is this machine's.
Reply(c, what) ==
  heard' = IF \A k \in listed[c] : link[c] <= k
           THEN Append(heard, <<c, what, link[c]>>) ELSE heard

\* A link ends here, with what it still carried; the last one of an address
\* lets go of what was held.
PeerLinkEnds(c, l) ==
  /\ l \in listed[c]
  /\ listed' = [listed EXCEPT ![c] = @ \ {l}]
  /\ out' = [out EXCEPT ![c][l] = <<>>]
  /\ IF listed[c] = {l}
     THEN crossed' = crossed \ {c} /\ held' = [held EXCEPT ![c] = {}]
     ELSE UNCHANGED <<crossed, held>>
  /\ UNCHANGED <<backendVars, crossingVars, booksVars, connVars, mayDrive, made, heard,
                 accepted>>

PeerReads(c, l) ==
  /\ l \in listed[c] /\ out[c][l] # <<>> /\ Len(heard) < MaxHeard
  /\ out' = [out EXCEPT ![c][l] = Tail(@)]
  /\ LET frame == Head(out[c][l]) IN
     \/ /\ frame.kind = "enter"
        /\ crossed' = crossed \cup {c}
        /\ Reply(c, "ack")
        /\ UNCHANGED held
     \/ /\ frame.kind = "leave"
        /\ crossed' = crossed \ {c} /\ held' = [held EXCEPT ![c] = {}]
        /\ Reply(c, "ack")
     \/ /\ frame.kind \notin {"enter", "leave"}
        /\ held' = IF c \notin crossed THEN held
                   ELSE IF frame.kind = "down" THEN [held EXCEPT ![c] = @ \cup frame.keys]
                   ELSE [held EXCEPT ![c] = @ \ frame.keys]
        /\ UNCHANGED <<crossed, heard>>
  /\ UNCHANGED <<backendVars, crossingVars, booksVars, connVars, mayDrive, made,
                 accepted, listed>>

\* The pointer is pushed back at its edge, or it takes itself back.
PeerLeaves(c) ==
  /\ c \in crossed /\ Len(heard) < MaxHeard
  /\ Reply(c, "leave")
  /\ UNCHANGED <<backendVars, crossingVars, booksVars, connVars, mayDrive, made, out,
                 peerVars>>

----------------------------------------------------------------------------

Init ==
  /\ running = TRUE /\ on = Clients /\ captured = None /\ events = <<>> /\ pressed = {}
  /\ active = None /\ state = "WaitingForAck" /\ awaiting = FALSE /\ enterWaits = FALSE
  /\ ackedAt = None /\ ackedLink = 0 /\ buttons = {} /\ lockHeld = {} /\ unanswered = {}
  /\ mayDrive = Clients
  /\ link = [c \in Clients |-> 0] /\ made = link /\ answered = {} /\ alive = {}
  /\ heard = <<>> /\ out = [c \in Clients |-> [l \in 1..MaxLinks |-> <<>>]]
  /\ accepted = link /\ listed = [c \in Clients |-> {}] /\ crossed = {} /\ held = [c \in Clients |-> {}]

Next ==
  \/ \E c \in Clients :
       \/ LinkUp(c) \/ LinkDown(c) \/ LeaseChanges(c) \/ Pong(c)
       \/ PushEdge(c) \/ BackoffEnds(c) \/ SwitchOff(c) \/ SwitchOn(c)
       \/ PeerAccepts(c) \/ PeerLeaves(c)
       \/ \E l \in 1..MaxLinks : PeerLinkEnds(c, l) \/ PeerReads(c, l)
  \/ UserInput \/ HandleEvent \/ Hear \/ GiveUp \/ AskRelease
  \/ SessionEnds \/ SessionStarts

Spec == Init /\ [][Next]_vars

\* The deadline of a crossing passes.
FairSpec == Spec /\ WF_vars(GiveUp)

----------------------------------------------------------------------------
(* Properties *)

\* Input that a peer reads was sent on a crossing it took on that link, so none
\* is dropped there while this machine holds the pointer.
InputLands ==
  \A c \in Clients, l \in 1..MaxLinks :
    (l \in listed[c] /\ out[c][l] # <<>> /\ Head(out[c][l]).kind \in {"move", "down"})
      => c \in crossed

\* What a peer holds for a crossing that ended is on its way up: this machine
\* told it so, or a link of it that this machine let go is ending there.
LetGoIsComing(c) ==
  \E l \in listed[c] :
    \/ \E i \in DOMAIN out[c][l] : out[c][l][i].kind = "leave"
    \/ link[c] # l
NothingLeftDown == \A c \in Clients : held[c] # {} => active = c \/ LetGoIsComing(c)

\* A crossing is answered or given up on.
CrossingSettles ==
  \A c \in Clients :
    (active = c /\ state = "WaitingForAck") ~> (active # c \/ state = "Sending")
====
