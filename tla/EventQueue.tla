---- MODULE EventQueue ----
(***************************************************************************)
(* The queue between a capture backend's event thread and the task that    *)
(* sends what was captured (crates/input-capture/src/event_queue.rs).      *)
(*                                                                         *)
(* One thread pushes and one task takes; each operation holds the queue's  *)
(* lock, and a waker taken under the lock is woken after it.  Motion is    *)
(* one unit in one direction, so a merged motion is how many units it      *)
(* carries.  How far an edge's pointer moved since is counted from what    *)
(* was taken, so that the count returns to zero as the queue drains.       *)
(***************************************************************************)
EXTENDS Naturals, Sequences, FiniteSets, SequencesExt

CONSTANTS
  Positions,  \* the edges captured
  Keys,       \* keys and buttons: Held
  Capacity,   \* how many kept events may wait
  Makes,      \* the kinds of events made at each edge
  MaxMoved,   \* bound on the motion of an edge that waits
  MaxBegins   \* bound on the Begins waiting: one is made per crossing

ASSUME QueueAssumption ==
  /\ Positions # {} /\ IsFiniteSet(Positions) /\ IsFiniteSet(Keys)
  /\ Capacity \in Nat \ {0}   \* channel: capacity.max(1)
  /\ Makes \in [Positions -> SUBSET {"motion", "begin", "other", "keys"}]
  /\ MaxMoved \in [Positions -> Nat] /\ MaxBegins \in Nat

VARIABLES
  events,    \* the queue
  kept,      \* how many of them are not motion
  held,      \* what a press was kept for and no release since, in press order
  refusing,  \* the queue let go of what it held and refuses presses
  gone,      \* the ends dropped: "sender", "receiver"
  waker,     \* the receiver's waker is stored
  waking,    \* the waker was taken and is about to be woken
  consumer,  \* "ready", "asleep" until woken, or "ended": told there is no more
  down,      \* history: what is held down at the capture thread
  peer,      \* history: what the taken events leave held
  moved      \* history: the motion made at each edge and not taken

queueVars == <<events, kept, held, refusing>>
wakeVars == <<waker, waking, consumer>>
histVars == <<down, peer, moved>>
vars == <<queueVars, gone, wakeVars, histVars>>

Things == {t \in Positions \X Keys : "keys" \in Makes[t[1]]}

\* An item's `at' is the motion made at its edge before it and not taken; a
\* motion's `dx' is what it carries.
Item(pos, kind, key, dx) ==
  [pos |-> pos, kind |-> kind, key |-> key, dx |-> dx, at |-> moved[pos]]
NoKey == "no key"
Motion(pos) == Item(pos, "motion", NoKey, 1)
Begin(pos) == Item(pos, "begin", NoKey, 0)
Other(pos) == Item(pos, "other", NoKey, 0)
Press(t) == Item(t[1], "press", t[2], 0)
Release(t) == Item(t[1], "release", t[2], 0)

IsMotion(item) == item.kind = "motion"
ThingOf(item) == <<item.pos, item.key>>

----------------------------------------------------------------------------
(* Pushing *)

\* State::keep, of one item or of several in order.
Keep(items) ==
  /\ events' = events \o items
  /\ kept' = kept + Len(items)

\* Mutant of TailMotion: only the last entry is merged into.
LastMotion(pos) ==
  {i \in DOMAIN events : i = Len(events) /\ IsMotion(events[i]) /\ events[i].pos = pos}

\* Mutant of TailMotion: the motion is found past a kept event.
AnyMotion(pos) == {i \in DOMAIN events : IsMotion(events[i]) /\ events[i].pos = pos}

\* The motion of this edge in the run of motion at the tail.
TailMotion(pos) ==
  {i \in DOMAIN events :
     events[i].pos = pos /\ \A j \in i..Len(events) : IsMotion(events[j])}

PushMotion(pos) ==
  /\ "motion" \in Makes[pos] /\ moved[pos] < MaxMoved[pos]
  /\ moved' = [moved EXCEPT ![pos] = @ + 1]
  /\ events' =
       IF TailMotion(pos) = {} THEN Append(events, Motion(pos))
       ELSE [i \in DOMAIN events |->
               IF i \in TailMotion(pos) THEN [events[i] EXCEPT !.dx = @ + 1]
               ELSE events[i]]
  /\ UNCHANGED <<kept, held, refusing, down, peer>>

PushBegin(pos) ==
  /\ "begin" \in Makes[pos]
  /\ Cardinality({i \in DOMAIN events : events[i].kind = "begin"}) < MaxBegins
  /\ Keep(<<Begin(pos)>>)
  /\ UNCHANGED <<held, refusing, histVars>>

\* position, remove: where the thing is held, if it is; it is held once.
Without(t) ==
  IF t \in Range(held) THEN RemoveAt(held, CHOOSE i \in DOMAIN held : held[i] = t) ELSE held

\* A release of what this queue holds is always kept; another while there is
\* room.
PushRelease(t) ==
  /\ down' = down \ {t}
  /\ held' = Without(t)
  /\ IF t \in Range(held) \/ (~refusing /\ kept < Capacity) THEN Keep(<<Release(t)>>)
     ELSE UNCHANGED <<events, kept>>
  /\ UNCHANGED <<refusing, peer, moved>>

\* Mutant of Overflow: what is held is let go of in no event.
OverflowForgets ==
  /\ held' = <<>>
  /\ refusing' = TRUE
  /\ UNCHANGED <<events, kept>>

\* A press or a scroll at capacity: everything held is let go of.
Overflow ==
  /\ Keep([i \in DOMAIN held |-> Release(held[i])])
  /\ held' = <<>>
  /\ refusing' = TRUE

\* Press and Other alike: refused, or the one that overflows, or kept.
PushKept(item, nowHeld) ==
  \/ refusing /\ UNCHANGED queueVars
  \/ ~refusing /\ kept >= Capacity /\ Overflow
  \/ /\ ~refusing /\ kept < Capacity
     /\ Keep(<<item>>)
     /\ held' = nowHeld
     /\ UNCHANGED refusing

PushPress(t) ==
  /\ down' = down \cup {t}
  /\ PushKept(Press(t), IF t \in Range(held) THEN held ELSE Append(held, t))
  /\ UNCHANGED <<peer, moved>>

PushOther(pos) ==
  /\ "other" \in Makes[pos]
  /\ PushKept(Other(pos), held)
  /\ UNCHANGED histVars

\* Mutant of TakeWaker: only a push to an empty queue wakes the consumer, and
\* only once.
WakeIfEmpty ==
  /\ waker' = FALSE
  /\ waking' = (waker /\ events = <<>> /\ ~waking)
  /\ UNCHANGED consumer

\* The waker, if there is one, is taken under the lock.
TakeWaker ==
  /\ waker' = FALSE
  /\ waking' = (waking \/ waker)
  /\ UNCHANGED consumer

\* Once the receiver is gone every push is discarded.
PushDiscarded ==
  /\ "receiver" \in gone
  /\ UNCHANGED <<queueVars, peer, moved>>
  /\ \E t \in Things : down' \in {down \cup {t}, down \ {t}}

\* QueueSender::push.
Push ==
  /\ "sender" \notin gone
  /\ TakeWaker
  /\ \/ PushDiscarded
     \/ /\ "receiver" \notin gone
        /\ \/ \E pos \in Positions : PushMotion(pos) \/ PushBegin(pos) \/ PushOther(pos)
           \/ \E t \in Things : PushPress(t) \/ PushRelease(t)
  /\ UNCHANGED gone

DropSender ==
  /\ "sender" \notin gone
  /\ gone' = gone \cup {"sender"}
  /\ TakeWaker
  /\ UNCHANGED <<queueVars, histVars>>

\* Waker::wake, after the lock.
Wake ==
  /\ waking
  /\ waking' = FALSE
  /\ consumer' = IF consumer = "asleep" THEN "ready" ELSE consumer
  /\ UNCHANGED <<queueVars, gone, waker, histVars>>

----------------------------------------------------------------------------
(* Taking *)

\* History: what was taken counts no more for the items behind it.
Recounted(item, rest) ==
  [i \in DOMAIN rest |->
     IF rest[i].pos = item.pos THEN [rest[i] EXCEPT !.at = @ - item.dx] ELSE rest[i]]

\* State::pop, of a queue that is not empty.
Pop ==
  LET item == Head(events) IN
  /\ events' = Recounted(item, Tail(events))
  /\ kept' = IF IsMotion(item) THEN kept ELSE kept - 1
  /\ refusing' = (refusing /\ Tail(events) # <<>>)
  /\ UNCHANGED held

\* What the far end makes of an item.
After(set, item) ==
  CASE item.kind = "press" -> set \cup {ThingOf(item)}
    [] item.kind = "release" -> set \ {ThingOf(item)}
    [] OTHER -> set

Receive(item) ==
  /\ peer' = After(peer, item)
  /\ moved' = [moved EXCEPT ![item.pos] = @ - item.dx]
  /\ UNCHANGED down

\* QueueReceiver::poll_recv.  Its task may poll without having been woken: it
\* waits for other things too.
PollRecv ==
  /\ "receiver" \notin gone
  /\ \/ /\ events # <<>>
        /\ Pop
        /\ Receive(Head(events))
        /\ consumer' = "ready"
        /\ UNCHANGED waker
     \/ /\ events = <<>> /\ "sender" \in gone
        /\ consumer' = "ended"
        /\ UNCHANGED <<queueVars, waker, histVars>>
     \/ /\ events = <<>> /\ "sender" \notin gone
        /\ waker' = TRUE
        /\ consumer' = "asleep"
        /\ UNCHANGED <<queueVars, histVars>>
  /\ UNCHANGED <<gone, waking>>

DropReceiver ==
  /\ "receiver" \notin gone
  /\ gone' = gone \cup {"receiver"}
  /\ events' = <<>> /\ kept' = 0 /\ held' = <<>>
  /\ UNCHANGED <<refusing, wakeVars, histVars>>

----------------------------------------------------------------------------

Init ==
  /\ events = <<>> /\ kept = 0 /\ held = <<>> /\ refusing = FALSE
  /\ gone = {}
  /\ waker = FALSE /\ waking = FALSE /\ consumer = "ready"
  /\ down = {} /\ peer = {}
  /\ moved = [p \in Positions |-> 0]

Next == Push \/ DropSender \/ Wake \/ PollRecv \/ DropReceiver

Spec == Init /\ [][Next]_vars

----------------------------------------------------------------------------
(* Properties *)

\* A consumer that takes nothing costs a bounded queue: past capacity only what
\* is let go of and the crossings' Begins are kept, at most one motion for each
\* edge stands between two kept events, and everything has its type.
QueueIsBounded ==
  /\ events \in Seq([pos : Positions, kind : {"motion", "begin", "other", "press", "release"},
                     key : Keys \cup {NoKey}, dx : Nat, at : Nat])
  /\ kept \in Nat
  /\ held \in Seq(Things)
  /\ refusing \in BOOLEAN
  /\ gone \subseteq {"sender", "receiver"}
  /\ waker \in BOOLEAN /\ waking \in BOOLEAN /\ consumer \in {"ready", "asleep", "ended"}
  /\ down \subseteq Things /\ peer \subseteq Things
  /\ moved \in [Positions -> Nat]
  /\ kept = Cardinality({i \in DOMAIN events : ~IsMotion(events[i])})
  /\ kept + Len(held) <= Capacity + Cardinality(Things) + MaxBegins
  /\ Len(events) <= kept + (kept + 1) * Cardinality(Positions)

\* What the far end will hold once it has taken everything: the last item about
\* a thing decides.
Owed ==
  {t \in Things :
     \/ \E i \in DOMAIN events :
          /\ events[i].kind = "press" /\ ThingOf(events[i]) = t
          /\ \A j \in i..Len(events) : events[j].kind = "release" => ThingOf(events[j]) # t
     \/ /\ t \in peer
        /\ \A j \in DOMAIN events : events[j].kind = "release" => ThingOf(events[j]) # t}

\* x is where the first n items of a queue leave the pointer of an edge, counted
\* from where it stands: nowhere else with none of that edge, or where the last
\* of them does.
LeavesAt(queue, pos, n, x) ==
  /\ (\A i \in 1..n : queue[i].pos # pos) => x = 0
  /\ \A i \in 1..n :
       queue[i].pos = pos /\ (\A j \in i + 1..n : queue[j].pos # pos)
         => x = queue[i].at + queue[i].dx

\* A click lands where it was made: the items before it in the queue take the
\* pointer of its edge exactly as far as it had moved when it was made, however
\* motion was merged; and no motion is lost while the queue refuses
\* (State::push, PushMotion's merge).
ClicksLandWhereMade ==
  /\ \A i \in DOMAIN events : LeavesAt(events, events[i].pos, i - 1, events[i].at)
  /\ "receiver" \notin gone =>
       \A pos \in Positions : LeavesAt(events, pos, Len(events), moved[pos])

\* The consumer never sleeps on a queue with something in it, or on one whose
\* sender is gone, unless a wake is on its way.
NoLostWakeup ==
  consumer = "asleep" /\ "receiver" \notin gone /\ (events # <<>> \/ "sender" \in gone)
    => waking

\* The queue is one of the kind HeldKeys describes: no step of it, merge,
\* overflow, refusal or drop of an end, leaves the far end owed anything but
\* what HeldKeys allows that step.
Promise ==
  INSTANCE HeldKeys WITH
    owed <- IF "receiver" \in gone THEN {} ELSE Owed,
    ended <- "receiver" \in gone

KeepsItsPromise == Promise!Spec
====
