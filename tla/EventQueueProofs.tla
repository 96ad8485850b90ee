---- MODULE EventQueueProofs ----
(***************************************************************************)
(* The queue of captured events, for every set of edges and keys and every *)
(* capacity: its consumer is never left asleep, it stays bounded, it keeps *)
(* what HeldKeys promises, and a click lands where it was made.            *)
(***************************************************************************)
EXTENDS EventQueue, SequenceTheorems, FiniteSetTheorems, FunctionTheorems, TLAPS

\* A consumer asleep left its waker, or a wake is on its way.
WakerLeft == consumer = "asleep" /\ "receiver" \notin gone => waker \/ waking

\* The consumer never sleeps on a queue with something in it, or on one whose
\* sender is gone, unless a wake is on its way: a waker is taken under the lock
\* by the push that makes the difference, and woken after it
\* (QueueSender::push, Drop for QueueSender, QueueReceiver::poll_recv).
THEOREM WakeupsAreNotLost == Spec => []NoLostWakeup
<1> DEFINE Inv == NoLostWakeup /\ WakerLeft
<1>1. Init => Inv
  BY DEF Init, NoLostWakeup, WakerLeft
<1>2. Inv /\ [Next]_vars => Inv'
  <2> SUFFICES ASSUME NoLostWakeup, WakerLeft, [Next]_vars
               PROVE  Inv'
    OBVIOUS
  <2>1. CASE Push
    BY <2>1 DEF Push, TakeWaker, NoLostWakeup, WakerLeft
  <2>2. CASE DropSender
    BY <2>2 DEF DropSender, TakeWaker, NoLostWakeup, WakerLeft
  <2>3. CASE Wake
    BY <2>3 DEF Wake, queueVars, NoLostWakeup, WakerLeft
  <2>4. CASE PollRecv
    BY <2>4 DEF PollRecv, queueVars, NoLostWakeup, WakerLeft
  <2>5. CASE DropReceiver
    BY <2>5 DEF DropReceiver, NoLostWakeup, WakerLeft
  <2>6. CASE UNCHANGED vars
    BY <2>6 DEF vars, queueVars, wakeVars, NoLostWakeup, WakerLeft
  <2> QED
    BY <2>1, <2>2, <2>3, <2>4, <2>5, <2>6 DEF Next
<1>3. Inv => NoLostWakeup
  OBVIOUS
<1> QED
  BY <1>1, <1>2, <1>3, PTL DEF Spec

-----------------------------------------------------------------------------
(***************************************************************************)
(* What is in the queue.                                                   *)
(***************************************************************************)

Kinds == {"motion", "begin", "other", "press", "release"}
Items == [pos : Positions, kind : Kinds, key : Keys \cup {NoKey}, dx : Nat, at : Nat]

\* Only motion moves the pointer, and what is pressed is a thing of its edge.
ItemsOK ==
  /\ events \in Seq(Items)
  /\ \A i \in 1..Len(events) :
       /\ ~IsMotion(events[i]) => events[i].dx = 0
       /\ events[i].kind = "press" => ThingOf(events[i]) \in Things

\* Two motions of an edge have a kept event between them.
OneMotionPerRun ==
  \A i, k \in 1..Len(events) :
    i < k /\ IsMotion(events[i]) /\ IsMotion(events[k]) /\ events[i].pos = events[k].pos
      => \E j \in i..k : ~IsMotion(events[j])

\* An item was made after the motion of those of its edge before it, and what
\* waits is part of what was made.
MotionInOrder ==
  /\ \A i, j \in 1..Len(events) :
       i < j /\ events[i].pos = events[j].pos
         => events[i].at + events[i].dx <= events[j].at
  /\ "receiver" \notin gone =>
       \A i \in 1..Len(events) : events[i].at + events[i].dx <= moved[events[i].pos]

EventsInv == ItemsOK /\ moved \in [Positions -> Nat] /\ OneMotionPerRun /\ MotionInOrder

\* An item that may be kept: it moves nothing, and is made where its edge's
\* pointer is.
Keepable(item) ==
  /\ item \in Items /\ ~IsMotion(item) /\ item.dx = 0 /\ item.at = moved[item.pos]
  /\ item.kind = "press" => ThingOf(item) \in Things

\* A function on 1..n is a sequence of length n.
LEMMA FunctionIsSeq ==
  ASSUME NEW S, NEW n \in Nat, NEW f \in [1..n -> S]
  PROVE  f \in Seq(S) /\ Len(f) = n
<1>1. f \in Seq(S)
  BY SeqDef
<1>2. Len(f) \in Nat /\ DOMAIN f = 1..Len(f)
  BY <1>1, LenProperties
<1> QED
  BY <1>1, <1>2

\* Items kept stand behind the others.
KeptBehind ==
  /\ events' \in Seq(Items) /\ Len(events) \in Nat /\ Len(events') \in Nat
  /\ Len(events) <= Len(events')
  /\ \A i \in 1..Len(events) : events'[i] = events[i]
  /\ \A i \in Len(events) + 1..Len(events') : Keepable(events'[i])

LEMMA KeepPlaces ==
  ASSUME events \in Seq(Items), NEW items \in Seq(Items), events' = events \o items
  PROVE  /\ events' \in Seq(Items) /\ Len(events') = Len(events) + Len(items)
         /\ Len(events) \in Nat /\ Len(items) \in Nat
         /\ \A i \in 1..Len(events) : events'[i] = events[i]
         /\ \A i \in Len(events) + 1..Len(events') : events'[i] = items[i - Len(events)]
<1>1. /\ Len(events) \in Nat /\ Len(items) \in Nat
  BY LenProperties
<1>2. /\ events \o items \in Seq(Items)
      /\ Len(events \o items) = Len(events) + Len(items)
      /\ \A i \in 1..Len(events) + Len(items) :
           (events \o items)[i] = IF i <= Len(events) THEN events[i] ELSE items[i - Len(events)]
  BY ConcatProperties
<1> HIDE DEF Items
<1> QED
  BY <1>1, <1>2

LEMMA KeepStandsBehind ==
  ASSUME events \in Seq(Items), NEW items \in Seq(Items), events' = events \o items,
         \A i \in 1..Len(items) : Keepable(items[i])
  PROVE  KeptBehind
<1>1. \A i \in Len(events) + 1..Len(events') :
        i - Len(events) \in 1..Len(items) /\ events'[i] = items[i - Len(events)]
  BY KeepPlaces
<1> HIDE DEF Keepable, Items
<1> QED
  BY <1>1, KeepPlaces DEF KeptBehind

\* What is popped moves the others up by one, and they count what it moved no
\* more.
MovedUp ==
  /\ Len(events) \in Nat \ {0} /\ Len(events') = Len(events) - 1
  /\ Head(events) = events[1] /\ events[1] \in Items
  /\ events' = [i \in 1..Len(events) - 1 |-> events'[i]]
  /\ \A i \in 1..Len(events) - 1 :
       /\ events[i + 1] \in Items
       /\ events'[i] = IF events[i + 1].pos = events[1].pos
                       THEN [events[i + 1] EXCEPT !.at = @ - events[1].dx]
                       ELSE events[i + 1]

LEMMA PopMovesUp ==
  ASSUME events \in Seq(Items), events # <<>>,
         events' = Recounted(Head(events), Tail(events))
  PROVE  MovedUp
<1>1. Len(events) \in Nat \ {0} /\ Head(events) = events[1]
  BY EmptySeq, LenProperties
<1>2. /\ Tail(events) \in Seq(Items) /\ Len(Tail(events)) = Len(events) - 1
      /\ \A i \in 1..Len(Tail(events)) : Tail(events)[i] = events[i + 1]
  BY HeadTailProperties
<1>3. DOMAIN Tail(events) = 1..Len(events) - 1
  BY <1>2, LenProperties
<1>4. \A i \in 1..Len(events) : events[i] \in Items
  BY ElementOfSeq
<1>5. /\ events' = [i \in 1..Len(events) - 1 |-> events'[i]]
      /\ events' \in [1..Len(events) - 1 -> {events'[i] : i \in 1..Len(events) - 1}]
  BY <1>3 DEF Recounted
<1>6. Len(events') = Len(events) - 1
  <2>1. Len(events) - 1 \in Nat
    BY <1>1
  <2> QED
    BY <1>5, <2>1, FunctionIsSeq
<1> QED
  BY <1>1, <1>2, <1>3, <1>4, <1>5, <1>6 DEF Recounted, MovedUp

\* Keeping items keeps the queue in order.
LEMMA KeepKeepsOrder ==
  ASSUME EventsInv, "receiver" \notin gone, UNCHANGED <<moved, gone>>, KeptBehind
  PROVE  EventsInv'
<1> DEFINE n == Len(events)
           m == Len(events')
<1>1. /\ events' \in Seq(Items) /\ n \in Nat /\ m \in Nat /\ n <= m
      /\ \A i \in 1..n : events'[i] = events[i]
      /\ \A i \in 1..m : ~(i <= n) => Keepable(events'[i])
  BY DEF KeptBehind
<1>2. /\ \A i \in 1..n : events[i] \in Items
      /\ \A i \in 1..m : events'[i] \in Items
  BY <1>1, ElementOfSeq DEF EventsInv, ItemsOK
<1> HIDE DEF n, m
<1>3. ItemsOK'
  <2> SUFFICES ASSUME NEW i \in 1..m
               PROVE  /\ ~IsMotion(events'[i]) => events'[i].dx = 0
                      /\ events'[i].kind = "press" => ThingOf(events'[i]) \in Things
    BY <1>1 DEF ItemsOK, m, ThingOf, IsMotion, Things
  <2>1. CASE i <= n
    <3>1. i \in 1..n /\ events'[i] = events[i]
      BY <1>1, <2>1
    <3> QED
      BY <3>1 DEF EventsInv, ItemsOK, n
  <2>2. CASE ~(i <= n)
    <3>1. Keepable(events'[i])
      BY <1>1, <2>2
    <3> QED
      BY <3>1 DEF Keepable
  <2> QED
    BY <2>1, <2>2
<1>4. OneMotionPerRun'
  <2> SUFFICES ASSUME NEW i \in 1..m, NEW k \in 1..m, i < k,
                      IsMotion(events'[i]), IsMotion(events'[k]),
                      events'[i].pos = events'[k].pos
               PROVE  \E j \in i..k : ~IsMotion(events'[j])
    BY DEF OneMotionPerRun, m, IsMotion
  <2>1. k \in 1..n /\ i \in 1..n
    <3>1. ~Keepable(events'[k])
      BY DEF Keepable
    <3> QED
      BY <1>1, <3>1
  <2>2. events'[i] = events[i] /\ events'[k] = events[k]
    BY <1>1, <2>1
  <2>3. PICK j \in i..k : ~IsMotion(events[j])
    BY <1>1, <2>1, <2>2 DEF EventsInv, OneMotionPerRun, n
  <2>4. j \in 1..n
    BY <1>1, <2>1
  <2>5. events'[j] = events[j]
    BY <1>1, <2>4
  <2> QED
    BY <2>3, <2>5
<1>5. MotionInOrder'
  <2>1. ASSUME NEW i \in 1..m
        PROVE  events'[i].at + events'[i].dx <= moved[events'[i].pos]
    <3>1. CASE i <= n
      <4>1. i \in 1..n /\ events'[i] = events[i]
        BY <1>1, <3>1
      <4> QED
        BY <4>1 DEF EventsInv, MotionInOrder, n
    <3>2. CASE ~(i <= n)
      <4>1. Keepable(events'[i])
        BY <1>1, <3>2
      <4>2. moved[events'[i].pos] \in Nat
        BY <1>2 DEF EventsInv, Items
      <4> QED
        BY <4>1, <4>2 DEF Keepable
    <3> QED
      BY <3>1, <3>2
  <2>2. ASSUME NEW i \in 1..m, NEW j \in 1..m, i < j, events'[i].pos = events'[j].pos
        PROVE  events'[i].at + events'[i].dx <= events'[j].at
    <3>1. CASE j <= n
      <4>1. i \in 1..n /\ j \in 1..n
        BY <1>1, <2>2, <3>1
      <4>2. events'[i] = events[i] /\ events'[j] = events[j]
        BY <1>1, <4>1
      <4> QED
        BY <2>2, <4>1, <4>2 DEF EventsInv, MotionInOrder, n
    <3>2. CASE ~(j <= n)
      <4>1. Keepable(events'[j])
        BY <1>1, <3>2
      <4> QED
        BY <2>1, <2>2, <4>1 DEF Keepable
    <3> QED
      BY <3>1, <3>2
  <2> QED
    BY <2>1, <2>2 DEF MotionInOrder, m
<1> QED
  BY <1>3, <1>4, <1>5 DEF EventsInv

\* Taking an item keeps the queue in order.
LEMMA PopKeepsOrder ==
  ASSUME EventsInv, "receiver" \notin gone, UNCHANGED gone, MovedUp, Receive(Head(events))
  PROVE  EventsInv'
<1> DEFINE n == Len(events)
           h == events[1]
<1>1. /\ n \in Nat \ {0} /\ Len(events') = n - 1 /\ Head(events) = h /\ h \in Items
      /\ events' = [i \in 1..n - 1 |-> events'[i]]
      /\ \A i \in 1..n - 1 :
           /\ events[i + 1] \in Items
           /\ events'[i] = IF events[i + 1].pos = h.pos
                           THEN [events[i + 1] EXCEPT !.at = @ - h.dx]
                           ELSE events[i + 1]
  BY DEF MovedUp
<1>o. ItemsOK /\ OneMotionPerRun /\ MotionInOrder /\ moved \in [Positions -> Nat]
  BY DEF EventsInv
<1>0. 1 \in 1..n /\ h.at + h.dx <= moved[h.pos]
  BY <1>1, <1>o DEF MotionInOrder
<1> HIDE DEF n, h
<1>2. /\ h.pos \in Positions /\ h.dx \in Nat /\ h.at \in Nat
      /\ moved' = [moved EXCEPT ![h.pos] = @ - h.dx]
  BY <1>1 DEF Items, Receive
<1>3. moved' \in [Positions -> Nat]
  BY <1>o, <1>0, <1>2
<1>4. ASSUME NEW i \in 1..n - 1
      PROVE  /\ events'[i] \in Items
             /\ events'[i].pos = events[i + 1].pos /\ events'[i].kind = events[i + 1].kind
             /\ events'[i].key = events[i + 1].key /\ events'[i].dx = events[i + 1].dx
             /\ events[i + 1].at \in Nat /\ events[i + 1].dx \in Nat
             /\ events[i + 1].pos \in Positions /\ i + 1 \in 1..n
             /\ events'[i].at = IF events[i + 1].pos = h.pos THEN events[i + 1].at - h.dx
                                ELSE events[i + 1].at
  <2>1. events[i + 1] \in Items
    BY <1>1
  <2>2. i + 1 \in 1..n /\ 1 < i + 1
    BY <1>1
  <2>3. events[i + 1].at \in Nat
    BY <2>1 DEF Items
  <2>4. events[i + 1].pos = h.pos => h.dx <= events[i + 1].at
    <3>1. events[i + 1].pos = h.pos => h.at + h.dx <= events[i + 1].at
      BY <1>0, <1>o, <2>2 DEF MotionInOrder, n, h
    <3> QED
      BY <1>2, <2>3, <3>1
  <2>5. events'[i] = IF events[i + 1].pos = h.pos
                     THEN [events[i + 1] EXCEPT !.at = @ - h.dx]
                     ELSE events[i + 1]
    BY <1>1
  <2>6. CASE events[i + 1].pos = h.pos
    <3>1. events[i + 1].at - h.dx \in Nat
      BY <1>2, <2>3, <2>4, <2>6
    <3> QED
      BY <2>1, <2>2, <2>5, <2>6, <3>1 DEF Items
  <2>7. CASE events[i + 1].pos # h.pos
    BY <2>1, <2>2, <2>5, <2>7 DEF Items
  <2> QED
    BY <2>6, <2>7
<1>5. ItemsOK'
  <2>1. events' \in [1..n - 1 -> Items]
    <3> HIDE DEF Items
    <3> QED
      BY <1>1, <1>4
  <2>2. events' \in Seq(Items)
    <3>1. n - 1 \in Nat
      BY <1>1
    <3> QED
      BY <2>1, <3>1, FunctionIsSeq
  <2>3. ASSUME NEW i \in 1..n - 1
        PROVE  /\ ~IsMotion(events'[i]) => events'[i].dx = 0
               /\ events'[i].kind = "press" => ThingOf(events'[i]) \in Things
    BY <1>4, <1>o DEF ItemsOK, IsMotion, ThingOf, n
  <2> QED
    BY <1>1, <2>2, <2>3 DEF ItemsOK, IsMotion, ThingOf, Things
<1>6. OneMotionPerRun'
  <2> SUFFICES ASSUME NEW i \in 1..n - 1, NEW k \in 1..n - 1, i < k,
                      IsMotion(events'[i]), IsMotion(events'[k]),
                      events'[i].pos = events'[k].pos
               PROVE  \E j \in i..k : ~IsMotion(events'[j])
    BY <1>1 DEF OneMotionPerRun, IsMotion
  <2>1. i + 1 \in 1..n /\ k + 1 \in 1..n /\ i + 1 < k + 1
    BY <1>1
  <2>2. /\ IsMotion(events[i + 1]) /\ IsMotion(events[k + 1])
        /\ events[i + 1].pos = events[k + 1].pos
    BY <1>4 DEF IsMotion
  <2>3. PICK j \in i + 1..k + 1 : ~IsMotion(events[j])
    BY <1>o, <2>1, <2>2 DEF OneMotionPerRun, n
  <2>4. j - 1 \in i..k /\ j - 1 \in 1..n - 1 /\ (j - 1) + 1 = j
    BY <1>1
  <2>5. ~IsMotion(events'[j - 1])
    BY <1>4, <2>3, <2>4 DEF IsMotion
  <2> QED
    BY <2>4, <2>5
<1>7. MotionInOrder'
  <2>1. ASSUME NEW i \in 1..n - 1
        PROVE  events'[i].at + events'[i].dx <= moved'[events'[i].pos]
    <3>1. events[i + 1].at + events[i + 1].dx <= moved[events[i + 1].pos]
      BY <1>4, <1>o DEF MotionInOrder, n
    <3>2. moved[events[i + 1].pos] \in Nat
      BY <1>4, <1>o
    <3> QED
      BY <1>o, <1>2, <1>4, <3>1, <3>2
  <2>2. ASSUME NEW i \in 1..n - 1, NEW j \in 1..n - 1, i < j, events'[i].pos = events'[j].pos
        PROVE  events'[i].at + events'[i].dx <= events'[j].at
    <3>1. i + 1 < j + 1
      BY <2>2
    <3>2. events[i + 1].at + events[i + 1].dx <= events[j + 1].at
      BY <1>4, <1>o, <2>2, <3>1 DEF MotionInOrder, n
    <3>3. CASE events[i + 1].pos = h.pos
      BY <1>2, <1>4, <2>2, <3>2, <3>3
    <3>4. CASE events[i + 1].pos # h.pos
      BY <1>4, <2>2, <3>2, <3>4
    <3> QED
      BY <3>3, <3>4
  <2> QED
    BY <1>1, <2>1, <2>2 DEF MotionInOrder
<1> QED
  BY <1>3, <1>5, <1>6, <1>7 DEF EventsInv

\* Motion of an edge with none in the run of motion at the tail stands behind
\* the others.
LEMMA NewMotionKeepsOrder ==
  ASSUME EventsInv, "receiver" \notin gone, UNCHANGED gone, NEW pos \in Positions,
         moved' = [moved EXCEPT ![pos] = @ + 1],
         TailMotion(pos) = {}, events' = Append(events, Motion(pos))
  PROVE  EventsInv'
<1> DEFINE n == Len(events)
           new == Motion(pos)
<1>o. ItemsOK /\ OneMotionPerRun /\ MotionInOrder /\ moved \in [Positions -> Nat]
  BY DEF EventsInv
<1>0. /\ new \in Items /\ new.kind = "motion" /\ new.dx = 1 /\ new.pos = pos
      /\ new.at = moved[pos] /\ moved[pos] \in Nat
  BY <1>o DEF Motion, Item, Items, Kinds
<1>1. /\ n \in Nat /\ events' \in Seq(Items) /\ Len(events') = n + 1
      /\ \A i \in 1..n : events'[i] = events[i]
      /\ events'[n + 1] = new
      /\ \A i \in 1..n : events[i] \in Items
  <2> HIDE DEF Items, new
  <2>1. events \in Seq(Items)
    BY <1>o DEF ItemsOK
  <2> QED
    BY <1>0, <2>1, AppendProperties, LenProperties, ElementOfSeq DEF new
<1>2. \A i \in 1..n : IsMotion(events[i]) /\ events[i].pos = pos
                        => \E j \in i..n : ~IsMotion(events[j])
  BY <1>o, <1>1 DEF TailMotion, ItemsOK
<1>3. moved' \in [Positions -> Nat]
  BY <1>o
<1> HIDE DEF n, new
<1>4. ItemsOK'
  <2> SUFFICES ASSUME NEW i \in 1..n + 1
               PROVE  /\ ~IsMotion(events'[i]) => events'[i].dx = 0
                      /\ events'[i].kind = "press" => ThingOf(events'[i]) \in Things
    BY <1>1 DEF ItemsOK, ThingOf, IsMotion, Things
  <2>1. CASE i \in 1..n
    BY <1>o, <1>1, <2>1 DEF ItemsOK, n
  <2>2. CASE i = n + 1
    BY <1>0, <1>1, <2>2 DEF IsMotion
  <2> QED
    BY <1>1, <2>1, <2>2
<1>5. OneMotionPerRun'
  <2> SUFFICES ASSUME NEW i \in 1..n + 1, NEW k \in 1..n + 1, i < k,
                      IsMotion(events'[i]), IsMotion(events'[k]),
                      events'[i].pos = events'[k].pos
               PROVE  \E j \in i..k : ~IsMotion(events'[j])
    BY <1>1 DEF OneMotionPerRun, IsMotion
  <2>1. i \in 1..n /\ events'[i] = events[i]
    BY <1>1
  <2>2. PICK j \in i..k : j \in 1..n /\ ~IsMotion(events[j])
    <3>1. CASE k \in 1..n
      <4>1. events'[k] = events[k]
        BY <1>1, <3>1
      <4>2. PICK j \in i..k : ~IsMotion(events[j])
        BY <1>o, <2>1, <3>1, <4>1 DEF OneMotionPerRun, n
      <4> QED
        BY <1>1, <2>1, <3>1, <4>2
    <3>2. CASE k = n + 1
      <4>1. events[i].pos = pos
        BY <1>0, <1>1, <2>1, <3>2
      <4>2. PICK j \in i..n : ~IsMotion(events[j])
        BY <1>2, <2>1, <4>1
      <4> QED
        BY <1>1, <2>1, <3>2, <4>2
    <3> QED
      BY <1>1, <3>1, <3>2
  <2>3. events'[j] = events[j]
    BY <1>1, <2>2
  <2> QED
    BY <2>2, <2>3
<1>6. MotionInOrder'
  <2>1. ASSUME NEW i \in 1..n
        PROVE  /\ events[i].at \in Nat /\ events[i].dx \in Nat /\ events[i].pos \in Positions
               /\ events[i].at + events[i].dx <= moved[events[i].pos]
    BY <1>o, <1>1, <2>1 DEF MotionInOrder, Items, n
  <2>2. ASSUME NEW i \in 1..n + 1
        PROVE  events'[i].at + events'[i].dx <= moved'[events'[i].pos]
    <3>1. CASE i \in 1..n
      <4>1. moved[events[i].pos] \in Nat
        BY <1>o, <2>1, <2>2, <3>1
      <4> QED
        BY <1>o, <1>1, <2>1, <2>2, <3>1, <4>1
    <3>2. CASE i = n + 1
      BY <1>0, <1>1, <1>o, <3>2
    <3> QED
      BY <1>1, <3>1, <3>2
  <2>3. ASSUME NEW i \in 1..n + 1, NEW j \in 1..n + 1, i < j, events'[i].pos = events'[j].pos
        PROVE  events'[i].at + events'[i].dx <= events'[j].at
    <3>1. i \in 1..n /\ events'[i] = events[i]
      BY <1>1, <2>3
    <3>2. CASE j \in 1..n
      <4>1. events'[j] = events[j]
        BY <1>1, <3>2
      <4> QED
        BY <1>o, <2>3, <3>1, <3>2, <4>1 DEF MotionInOrder, n
    <3>3. CASE j = n + 1
      BY <1>0, <1>1, <2>1, <2>3, <3>1, <3>3
    <3> QED
      BY <1>1, <3>2, <3>3
  <2> QED
    BY <1>1, <2>2, <2>3 DEF MotionInOrder
<1> QED
  BY <1>3, <1>4, <1>5, <1>6 DEF EventsInv

\* Motion merged into the run at the tail is merged into the last item of its
\* edge.
LEMMA MergedIsLast ==
  ASSUME EventsInv, NEW pos \in Positions, NEW i \in TailMotion(pos),
         NEW j \in 1..Len(events), i < j
  PROVE  events[j].pos # pos
<1>1. /\ Len(events) \in Nat /\ DOMAIN events = 1..Len(events)
  BY LenProperties DEF EventsInv, ItemsOK
<1>2. /\ i \in 1..Len(events) /\ events[i].pos = pos
      /\ \A k \in i..Len(events) : IsMotion(events[k])
  BY <1>1 DEF TailMotion
<1>3. \A k \in i..j : IsMotion(events[k])
  BY <1>1, <1>2
<1>4. IsMotion(events[i]) /\ IsMotion(events[j])
  BY <1>1, <1>2
<1> QED
  BY <1>2, <1>3, <1>4 DEF EventsInv, OneMotionPerRun

\* Merging motion changes nothing but how far it goes.
Merged(pos) ==
  /\ events' \in Seq(Items) /\ Len(events') = Len(events) /\ Len(events) \in Nat
  /\ \A i \in 1..Len(events) :
       /\ events[i] \in Items
       /\ events'[i].pos = events[i].pos /\ events'[i].kind = events[i].kind
       /\ events'[i].key = events[i].key /\ events'[i].at = events[i].at
       /\ events'[i].dx = IF i \in TailMotion(pos) THEN events[i].dx + 1 ELSE events[i].dx

LEMMA MergePlaces ==
  ASSUME events \in Seq(Items), NEW pos \in Positions,
         events' = [i \in DOMAIN events |->
                      IF i \in TailMotion(pos) THEN [events[i] EXCEPT !.dx = @ + 1]
                      ELSE events[i]]
  PROVE  Merged(pos)
<1>1. /\ Len(events) \in Nat /\ DOMAIN events = 1..Len(events)
  BY LenProperties
<1>2. \A i \in 1..Len(events) : events[i] \in Items
  BY ElementOfSeq
<1>3. ASSUME NEW i \in 1..Len(events)
      PROVE  /\ events'[i] \in Items
             /\ events'[i].pos = events[i].pos /\ events'[i].kind = events[i].kind
             /\ events'[i].key = events[i].key /\ events'[i].at = events[i].at
             /\ events'[i].dx = IF i \in TailMotion(pos) THEN events[i].dx + 1 ELSE events[i].dx
  <2>1. events[i] \in Items
    BY <1>2
  <2>2. events'[i] = IF i \in TailMotion(pos) THEN [events[i] EXCEPT !.dx = @ + 1] ELSE events[i]
    BY <1>1
  <2>3. CASE i \in TailMotion(pos)
    <3>1. events'[i] = [events[i] EXCEPT !.dx = events[i].dx + 1] /\ events[i].dx + 1 \in Nat
      BY <2>1, <2>2, <2>3 DEF Items
    <3> QED
      BY <2>1, <2>3, <3>1 DEF Items
  <2>4. CASE i \notin TailMotion(pos)
    BY <2>1, <2>2, <2>4 DEF Items
  <2> QED
    BY <2>3, <2>4
<1>4. events' \in [1..Len(events) -> Items]
  <2>1. DOMAIN events' = 1..Len(events)
    BY <1>1
  <2>2. events' = [i \in 1..Len(events) |-> events'[i]]
    BY <1>1
  <2> HIDE DEF Items
  <2> QED
    BY <1>3, <2>2
<1>5. events' \in Seq(Items) /\ Len(events') = Len(events)
  BY <1>1, <1>4, FunctionIsSeq
<1> QED
  BY <1>1, <1>2, <1>3, <1>5 DEF Merged

LEMMA MergeKeepsOrder ==
  ASSUME EventsInv, UNCHANGED gone, NEW pos \in Positions,
         moved' = [moved EXCEPT ![pos] = @ + 1], Merged(pos)
  PROVE  EventsInv'
<1> DEFINE n == Len(events)
<1>o. ItemsOK /\ OneMotionPerRun /\ MotionInOrder /\ moved \in [Positions -> Nat]
  BY DEF EventsInv
<1>1. /\ events' \in Seq(Items) /\ Len(events') = n /\ n \in Nat
      /\ \A i \in 1..n :
           /\ events[i] \in Items
           /\ events'[i].pos = events[i].pos /\ events'[i].kind = events[i].kind
           /\ events'[i].key = events[i].key /\ events'[i].at = events[i].at
           /\ events'[i].dx = IF i \in TailMotion(pos) THEN events[i].dx + 1 ELSE events[i].dx
  BY DEF Merged
<1>2. \A i \in 1..n : /\ events[i].at \in Nat /\ events[i].dx \in Nat
                      /\ events[i].pos \in Positions
  BY <1>1 DEF Items
<1>3. \A i \in TailMotion(pos) : /\ i \in 1..n /\ IsMotion(events[i]) /\ events[i].pos = pos
                                 /\ \A j \in 1..n : i < j => events[j].pos # pos
  <2>1. ASSUME NEW i \in TailMotion(pos)
        PROVE  i \in 1..n /\ IsMotion(events[i]) /\ events[i].pos = pos
    <3>1. DOMAIN events = 1..n
      BY <1>o, LenProperties DEF ItemsOK
    <3>2. i \in 1..n /\ events[i].pos = pos /\ \A j \in i..n : IsMotion(events[j])
      BY <3>1 DEF TailMotion
    <3> QED
      BY <1>1, <3>2
  <2> QED
    BY <2>1, MergedIsLast
<1>4. moved' \in [Positions -> Nat]
  BY <1>o
<1> HIDE DEF n
<1>5. ItemsOK'
  <2>1. ASSUME NEW i \in 1..n
        PROVE  /\ ~IsMotion(events'[i]) => events'[i].dx = 0
               /\ events'[i].kind = "press" => ThingOf(events'[i]) \in Things
    <3>1. /\ ~IsMotion(events[i]) => events[i].dx = 0 /\ i \notin TailMotion(pos)
          /\ events[i].kind = "press" => ThingOf(events[i]) \in Things
      BY <1>o, <1>3 DEF ItemsOK, n
    <3> QED
      BY <1>1, <3>1 DEF IsMotion, ThingOf
  <2> QED
    BY <1>1, <2>1 DEF ItemsOK, ThingOf, IsMotion, Things
<1>6. OneMotionPerRun'
  <2> SUFFICES ASSUME NEW i \in 1..n, NEW k \in 1..n, i < k,
                      IsMotion(events'[i]), IsMotion(events'[k]),
                      events'[i].pos = events'[k].pos
               PROVE  \E j \in i..k : ~IsMotion(events'[j])
    BY <1>1 DEF OneMotionPerRun, IsMotion
  <2>1. IsMotion(events[i]) /\ IsMotion(events[k]) /\ events[i].pos = events[k].pos
    BY <1>1 DEF IsMotion
  <2>2. PICK j \in i..k : ~IsMotion(events[j])
    BY <1>o, <2>1 DEF OneMotionPerRun, n
  <2>3. j \in 1..n
    BY <1>1
  <2> QED
    BY <1>1, <2>2, <2>3 DEF IsMotion
<1>7. MotionInOrder'
  <2>1. ASSUME NEW i \in 1..n, "receiver" \notin gone
        PROVE  events'[i].at + events'[i].dx <= moved'[events'[i].pos]
    <3>1. events[i].at + events[i].dx <= moved[events[i].pos] /\ moved[events[i].pos] \in Nat
      BY <1>o, <1>2, <2>1 DEF MotionInOrder, n
    <3>o. /\ events'[i].pos = events[i].pos /\ events'[i].at = events[i].at
          /\ events'[i].dx = IF i \in TailMotion(pos) THEN events[i].dx + 1 ELSE events[i].dx
          /\ events[i].at \in Nat /\ events[i].dx \in Nat /\ events[i].pos \in Positions
      BY <1>1, <1>2, <2>1
    <3>2. CASE i \in TailMotion(pos)
      <4>1. events[i].pos = pos /\ moved'[pos] = moved[pos] + 1
        BY <1>o, <1>3, <3>2
      <4> QED BY <3>o, <3>1, <3>2, <4>1
    <3>3. CASE i \notin TailMotion(pos)
      <4>1. moved'[events[i].pos] >= moved[events[i].pos] /\ moved'[events[i].pos] \in Nat
        BY <1>o, <3>o
      <4> QED BY <3>o, <3>1, <3>3, <4>1
    <3> QED
      BY <3>2, <3>3
  <2>2. ASSUME NEW i \in 1..n, NEW j \in 1..n, i < j, events'[i].pos = events'[j].pos
        PROVE  events'[i].at + events'[i].dx <= events'[j].at
    <3>1. events[i].pos = events[j].pos
      BY <1>1, <2>2
    <3>2. i \notin TailMotion(pos)
      BY <1>3, <2>2, <3>1
    <3>3. events[i].at + events[i].dx <= events[j].at
      BY <1>o, <2>2, <3>1 DEF MotionInOrder, n
    <3> QED
      BY <1>1, <1>2, <3>2, <3>3
  <2> QED
    BY <1>1, <2>1, <2>2 DEF MotionInOrder
<1> QED
  BY <1>4, <1>5, <1>6, <1>7 DEF EventsInv

-----------------------------------------------------------------------------
(***************************************************************************)
(* What is held and what the far end is owed.                              *)
(***************************************************************************)

\* A thing is owed by its last press or, with none waiting, by what the far end
\* holds, when no release of it follows.
NoRelease(t, i) ==
  \A j \in i..Len(events) : events[j].kind = "release" => ThingOf(events[j]) # t

LEMMA OwedIs ==
  ASSUME events \in Seq(Items), NEW t \in Things
  PROVE  t \in Owed <=>
           \/ \E i \in 1..Len(events) :
                events[i].kind = "press" /\ ThingOf(events[i]) = t /\ NoRelease(t, i)
           \/ t \in peer /\ NoRelease(t, 1)
<1>1. DOMAIN events = 1..Len(events)
  BY LenProperties
<1> QED
  BY <1>1 DEF Owed, NoRelease

\* Items that are not presses stand behind the others.
LongerBy(n, m) ==
  /\ n \in Nat /\ m \in Nat /\ n <= m /\ n = Len(events) /\ m = Len(events')
  /\ events' \in Seq(Items) /\ \A i \in 1..n : events'[i] = events[i]

LEMMA OwedAfterReleases ==
  ASSUME events \in Seq(Items), NEW n, NEW m, LongerBy(n, m), UNCHANGED peer,
         \A i \in n + 1..m : events'[i].kind # "press",
         NEW t \in Things
  PROVE  t \in Owed' <=>
           /\ t \in Owed
           /\ \A j \in n + 1..m : events'[j].kind = "release" => ThingOf(events'[j]) # t
<1> DEFINE Spared == \A j \in n + 1..m : events'[j].kind = "release" => ThingOf(events'[j]) # t
<1>1. /\ n \in Nat /\ m \in Nat /\ n <= m /\ n = Len(events) /\ m = Len(events')
      /\ events' \in Seq(Items) /\ \A i \in 1..n : events'[i] = events[i]
  BY DEF LongerBy
<1>2. t \in Owed' <=>
        \/ \E i \in 1..m : events'[i].kind = "press" /\ ThingOf(events'[i]) = t /\ NoRelease(t, i)'
        \/ t \in peer' /\ NoRelease(t, 1)'
  <2>1. DOMAIN events' = 1..m
    BY <1>1, LenProperties
  <2> QED
    BY <1>1, <2>1 DEF Owed, NoRelease, ThingOf, Things
<1>3. ASSUME NEW i \in 1..m, i <= n + 1
      PROVE  NoRelease(t, i)' <=> NoRelease(t, i) /\ Spared
  <2>1. ASSUME NoRelease(t, i)'
        PROVE  NoRelease(t, i) /\ Spared
    <3>1. \A j \in i..m : events'[j].kind = "release" => ThingOf(events'[j]) # t
      BY <1>1, <2>1 DEF NoRelease, ThingOf
    <3>2. Spared
      BY <1>1, <1>3, <3>1
    <3>3. ASSUME NEW j \in i..n, events[j].kind = "release"
          PROVE  ThingOf(events[j]) # t
      <4>1. j \in 1..n /\ j \in i..m
        BY <1>1, <1>3
      <4>2. events'[j] = events[j]
        BY <1>1, <4>1
      <4> QED
        BY <3>1, <3>3, <4>1, <4>2
    <3> QED
      BY <1>1, <3>2, <3>3 DEF NoRelease
  <2>2. ASSUME NoRelease(t, i), Spared
        PROVE  NoRelease(t, i)'
    <3>1. ASSUME NEW j \in i..m, events'[j].kind = "release"
          PROVE  ThingOf(events'[j]) # t
      <4>1. CASE j \in n + 1..m
        BY <2>2, <3>1, <4>1
      <4>2. CASE j \in 1..n
        <5>1. events'[j] = events[j] /\ j \in i..n
          BY <1>1, <1>3, <4>2
        <5> QED
          BY <1>1, <2>2, <3>1, <5>1 DEF NoRelease
      <4> QED
        BY <1>1, <1>3, <4>1, <4>2
    <3> QED
      BY <1>1, <3>1 DEF NoRelease, ThingOf
  <2> QED
    BY <2>1, <2>2
<1>4. NoRelease(t, 1)' <=> NoRelease(t, 1) /\ Spared
  <2>1. CASE m = 0
    BY <1>1, <2>1 DEF NoRelease
  <2>2. CASE m # 0
    BY <1>1, <1>3, <2>2
  <2> QED
    BY <2>1, <2>2
<1>5. \A i \in 1..m : events'[i].kind = "press" => i \in 1..n
  BY <1>1
<1>6. \A i \in 1..n : events'[i] = events[i] /\ i \in 1..m /\ i <= n + 1
  BY <1>1
<1>7. t \in Owed <=>
        \/ \E i \in 1..n : events[i].kind = "press" /\ ThingOf(events[i]) = t /\ NoRelease(t, i)
        \/ t \in peer /\ NoRelease(t, 1)
  BY <1>1, OwedIs
<1> HIDE DEF Spared
<1>8. t \in Owed' <=> t \in Owed /\ Spared
  BY <1>2, <1>3, <1>4, <1>5, <1>6, <1>7
<1> QED
  BY <1>8 DEF Spared

\* A press is owed.
LEMMA OwedAfterPress ==
  ASSUME events \in Seq(Items), NEW n, LongerBy(n, n + 1), UNCHANGED peer,
         events'[n + 1].kind = "press", NEW t \in Things
  PROVE  t \in Owed' <=> t \in Owed \/ ThingOf(events'[n + 1]) = t
<1> DEFINE m == n + 1
<1>1. /\ n \in Nat /\ m \in Nat /\ n = Len(events) /\ m = Len(events')
      /\ events' \in Seq(Items) /\ \A i \in 1..n : events'[i] = events[i]
  BY DEF LongerBy
<1>2. t \in Owed' <=>
        \/ \E i \in 1..m : events'[i].kind = "press" /\ ThingOf(events'[i]) = t /\ NoRelease(t, i)'
        \/ t \in peer' /\ NoRelease(t, 1)'
  <2>1. DOMAIN events' = 1..m
    BY <1>1, LenProperties
  <2> QED
    BY <1>1, <2>1 DEF Owed, NoRelease, ThingOf, Things
<1>3. ASSUME NEW i \in 1..m
      PROVE  NoRelease(t, i)' <=> NoRelease(t, i)
  <2>1. NoRelease(t, i)' <=> \A j \in i..m : events'[j].kind = "release" => ThingOf(events'[j]) # t
    BY <1>1 DEF NoRelease, ThingOf
  <2>2. \A j \in i..m : j = m \/ (j \in i..n /\ events'[j] = events[j])
    BY <1>1
  <2>3. \A j \in i..n : j \in i..m /\ events'[j] = events[j]
    BY <1>1
  <2>4. events'[m].kind # "release"
    OBVIOUS
  <2> HIDE DEF m
  <2> QED
    BY <1>1, <2>1, <2>2, <2>3, <2>4 DEF NoRelease
<1>4. NoRelease(t, m)
  BY <1>1 DEF NoRelease
<1>5. m \in 1..m /\ 1 \in 1..m /\ \A i \in 1..m : i = m \/ i \in 1..n
  BY <1>1
<1>6. \A i \in 1..n : events'[i] = events[i] /\ i \in 1..m
  BY <1>1
<1>7. t \in Owed <=>
        \/ \E i \in 1..n : events[i].kind = "press" /\ ThingOf(events[i]) = t /\ NoRelease(t, i)
        \/ t \in peer /\ NoRelease(t, 1)
  BY <1>1, OwedIs
<1>8. events'[m].kind = "press"
  OBVIOUS
<1> HIDE DEF m
<1>9. t \in Owed' <=> t \in Owed \/ ThingOf(events'[m]) = t
  BY <1>2, <1>3, <1>4, <1>5, <1>6, <1>7, <1>8
<1> QED
  BY <1>9 DEF m

\* Taking an item leaves what is owed alone.
LEMMA OwedAfterPop ==
  ASSUME events \in Seq(Items), MovedUp, Receive(Head(events)), NEW t \in Things
  PROVE  t \in Owed' <=> t \in Owed
<1> DEFINE n == Len(events)
           h == events[1]
<1>1. /\ n \in Nat \ {0} /\ n - 1 = Len(events') /\ h = Head(events)
      /\ events' = [i \in 1..n - 1 |-> events'[i]]
  BY DEF MovedUp
<1>2. \A i \in 1..n - 1 : /\ events'[i].kind = events[i + 1].kind
                          /\ ThingOf(events'[i]) = ThingOf(events[i + 1])
  <2> SUFFICES ASSUME NEW i \in 1..n - 1
               PROVE  /\ events'[i].kind = events[i + 1].kind
                      /\ ThingOf(events'[i]) = ThingOf(events[i + 1])
    OBVIOUS
  <2>1. /\ events[i + 1] \in Items
        /\ events'[i] = IF events[i + 1].pos = events[1].pos
                        THEN [events[i + 1] EXCEPT !.at = @ - events[1].dx]
                        ELSE events[i + 1]
    BY DEF MovedUp
  <2> QED
    BY <2>1 DEF Items, ThingOf
<1>3. t \in Owed' <=>
        \/ \E i \in 1..n - 1 :
             events'[i].kind = "press" /\ ThingOf(events'[i]) = t /\ NoRelease(t, i)'
        \/ t \in peer' /\ NoRelease(t, 1)'
  <2>1. DOMAIN events' = 1..n - 1
    BY <1>1
  <2> QED
    BY <1>1, <2>1 DEF Owed, NoRelease, ThingOf, Things
<1>4. t \in Owed <=>
        \/ \E i \in 1..n : events[i].kind = "press" /\ ThingOf(events[i]) = t /\ NoRelease(t, i)
        \/ t \in peer /\ NoRelease(t, 1)
  BY OwedIs
<1> HIDE DEF n, h
<1>5. ASSUME NEW i \in 1..n
      PROVE  NoRelease(t, i)' <=> NoRelease(t, i + 1)
  <2>1. NoRelease(t, i)' <=>
          \A j \in i..n - 1 : events'[j].kind = "release" => ThingOf(events'[j]) # t
    BY <1>1 DEF NoRelease, ThingOf
  <2>2. NoRelease(t, i + 1) <=>
          \A j \in i + 1..n : events[j].kind = "release" => ThingOf(events[j]) # t
    BY DEF NoRelease, n
  <2>3. \A j \in i..n - 1 : j \in 1..n - 1 /\ j + 1 \in i + 1..n
    BY <1>1
  <2>4. \A j \in i + 1..n : j - 1 \in i..n - 1 /\ j - 1 \in 1..n - 1 /\ (j - 1) + 1 = j
    BY <1>1
  <2>5. ASSUME NoRelease(t, i)', NEW j \in i + 1..n, events[j].kind = "release"
        PROVE  ThingOf(events[j]) # t
    <3>1. events'[j - 1].kind = "release" /\ ThingOf(events'[j - 1]) = ThingOf(events[j])
      BY <1>2, <2>4, <2>5
    <3> QED
      BY <2>1, <2>4, <2>5, <3>1
  <2>6. ASSUME NoRelease(t, i + 1), NEW j \in i..n - 1, events'[j].kind = "release"
        PROVE  ThingOf(events'[j]) # t
    BY <1>2, <2>2, <2>3, <2>6
  <2> QED
    BY <2>1, <2>2, <2>5, <2>6
<1>6. NoRelease(t, 1) <=> NoRelease(t, 2) /\ (h.kind = "release" => ThingOf(h) # t)
  <2>1. \A j \in 1..n : j = 1 \/ j \in 2..n
    BY <1>1
  <2>2. 1 \in 1..n /\ \A j \in 2..n : j \in 1..n
    BY <1>1
  <2> QED
    BY <2>1, <2>2 DEF NoRelease, n, h
<1>7. t \in peer' <=> \/ h.kind = "press" /\ ThingOf(h) = t
                      \/ t \in peer /\ ~(h.kind = "release" /\ ThingOf(h) = t)
  BY <1>1 DEF Receive, After
<1>8. 1 \in 1..n
  BY <1>1
<1>9. NoRelease(t, 1)' <=> NoRelease(t, 2)
  BY <1>5, <1>8
<1>10. (\E i \in 1..n - 1 :
          events'[i].kind = "press" /\ ThingOf(events'[i]) = t /\ NoRelease(t, i)') <=>
       (\E i \in 2..n :
          events[i].kind = "press" /\ ThingOf(events[i]) = t /\ NoRelease(t, i))
  <2>1. \A i \in 1..n - 1 : i \in 1..n /\ i + 1 \in 2..n
    BY <1>1
  <2>2. \A i \in 2..n : i - 1 \in 1..n - 1 /\ i - 1 \in 1..n /\ (i - 1) + 1 = i
    BY <1>1
  <2>3. ASSUME NEW i \in 1..n - 1,
               events'[i].kind = "press" /\ ThingOf(events'[i]) = t /\ NoRelease(t, i)'
        PROVE  /\ i + 1 \in 2..n /\ events[i + 1].kind = "press"
               /\ ThingOf(events[i + 1]) = t /\ NoRelease(t, i + 1)
    BY <1>2, <1>5, <2>1, <2>3
  <2>4. ASSUME NEW i \in 2..n,
               events[i].kind = "press" /\ ThingOf(events[i]) = t /\ NoRelease(t, i)
        PROVE  \E j \in 1..n - 1 :
                 events'[j].kind = "press" /\ ThingOf(events'[j]) = t /\ NoRelease(t, j)'
    <3>1. /\ events'[i - 1].kind = "press" /\ ThingOf(events'[i - 1]) = t
          /\ NoRelease(t, i - 1)' <=> NoRelease(t, i)
      BY <1>2, <1>5, <2>2, <2>4
    <3> QED
      BY <2>2, <2>4, <3>1
  <2> QED
    BY <2>3, <2>4
<1>11. (\E i \in 1..n :
          events[i].kind = "press" /\ ThingOf(events[i]) = t /\ NoRelease(t, i)) <=>
       \/ h.kind = "press" /\ ThingOf(h) = t /\ NoRelease(t, 1)
       \/ \E i \in 2..n :
            events[i].kind = "press" /\ ThingOf(events[i]) = t /\ NoRelease(t, i)
  <2>1. 1 \in 1..n /\ (\A j \in 2..n : j \in 1..n) /\ \A j \in 1..n : j = 1 \/ j \in 2..n
    BY <1>1
  <2> QED
    BY <2>1 DEF h
<1> QED
  BY <1>3, <1>4, <1>6, <1>7, <1>9, <1>10, <1>11

\* Merging motion leaves what is owed alone.
LEMMA OwedAfterMerge ==
  ASSUME events \in Seq(Items), NEW pos \in Positions, Merged(pos), UNCHANGED peer,
         NEW t \in Things
  PROVE  t \in Owed' <=> t \in Owed
<1> DEFINE n == Len(events)
<1>1. n \in Nat /\ n = Len(events') /\ events' \in Seq(Items)
  BY DEF Merged
<1>2. \A i \in 1..n : /\ events'[i].kind = events[i].kind
                      /\ ThingOf(events'[i]) = ThingOf(events[i])
  BY DEF Merged, ThingOf
<1>3. t \in Owed' <=>
        \/ \E i \in 1..n : events'[i].kind = "press" /\ ThingOf(events'[i]) = t /\ NoRelease(t, i)'
        \/ t \in peer' /\ NoRelease(t, 1)'
  <2>1. DOMAIN events' = 1..n
    BY <1>1, LenProperties
  <2> QED
    BY <1>1, <2>1 DEF Owed, NoRelease, ThingOf, Things
<1>4. t \in Owed <=>
        \/ \E i \in 1..n : events[i].kind = "press" /\ ThingOf(events[i]) = t /\ NoRelease(t, i)
        \/ t \in peer /\ NoRelease(t, 1)
  BY OwedIs
<1>5. ASSUME NEW i \in Nat \ {0}
      PROVE  NoRelease(t, i)' <=> NoRelease(t, i)
  <2>1. NoRelease(t, i)' <=> \A j \in i..n : events'[j].kind = "release" => ThingOf(events'[j]) # t
    BY <1>1 DEF NoRelease, ThingOf
  <2>2. \A j \in i..n : j \in 1..n
    BY <1>1
  <2> QED
    BY <1>2, <2>1, <2>2 DEF NoRelease
<1> HIDE DEF n
<1> QED
  BY <1>2, <1>3, <1>4, <1>5

\* What is held, each once, without one of them.
LEMMA WithoutOne ==
  ASSUME held \in Seq(Things), \A i, j \in 1..Len(held) : held[i] = held[j] => i = j,
         NEW t \in Range(held)
  PROVE  /\ Without(t) \in Seq(Things) /\ Len(Without(t)) = Len(held) - 1
         /\ \A i, j \in 1..Len(Without(t)) : Without(t)[i] = Without(t)[j] => i = j
         /\ Range(Without(t)) = Range(held) \ {t}
<1> DEFINE n == Len(held)
           k == CHOOSE i \in DOMAIN held : held[i] = t
           w == Without(t)
<1>1. n \in Nat /\ DOMAIN held = 1..n /\ \A i \in 1..n : held[i] \in Things
  BY LenProperties, ElementOfSeq
<1>2. k \in 1..n /\ held[k] = t
  BY <1>1 DEF Range
<1>3. w = SubSeq(held, 1, k - 1) \o SubSeq(held, k + 1, n)
  BY DEF Without, RemoveAt
<1> HIDE DEF k, w, n
<1>4. /\ SubSeq(held, 1, k - 1) \in Seq(Things) /\ Len(SubSeq(held, 1, k - 1)) = k - 1
      /\ \A i \in 1..k - 1 : SubSeq(held, 1, k - 1)[i] = held[i]
  <2>1. 1 \in Int /\ k - 1 \in Int /\ \A i \in 1..k - 1 : held[i] \in Things
    BY <1>1, <1>2
  <2>2. /\ SubSeq(held, 1, k - 1) \in Seq(Things)
        /\ Len(SubSeq(held, 1, k - 1)) = IF 1 <= k - 1 THEN (k - 1) - 1 + 1 ELSE 0
        /\ \A i \in 1..(k - 1) - 1 + 1 : SubSeq(held, 1, k - 1)[i] = held[1 + i - 1]
    BY <2>1, SubSeqProperties
  <2> QED
    BY <1>1, <1>2, <2>2
<1>5. /\ SubSeq(held, k + 1, n) \in Seq(Things) /\ Len(SubSeq(held, k + 1, n)) = n - k
      /\ \A i \in 1..n - k : SubSeq(held, k + 1, n)[i] = held[k + i]
  <2>1. k + 1 \in Int /\ n \in Int /\ \A i \in k + 1..n : held[i] \in Things
    BY <1>1, <1>2
  <2>2. /\ SubSeq(held, k + 1, n) \in Seq(Things)
        /\ Len(SubSeq(held, k + 1, n)) = IF k + 1 <= n THEN n - (k + 1) + 1 ELSE 0
        /\ \A i \in 1..n - (k + 1) + 1 : SubSeq(held, k + 1, n)[i] = held[(k + 1) + i - 1]
    BY <2>1, SubSeqProperties
  <2> QED
    BY <1>1, <1>2, <2>2
<1>6. /\ w \in Seq(Things) /\ Len(w) = n - 1
      /\ \A i \in 1..n - 1 : w[i] = IF i <= k - 1 THEN held[i] ELSE held[i + 1]
  <2> DEFINE a == SubSeq(held, 1, k - 1)
             b == SubSeq(held, k + 1, n)
  <2>1. /\ a \in Seq(Things) /\ b \in Seq(Things) /\ Len(a) = k - 1 /\ Len(b) = n - k
        /\ (\A i \in 1..k - 1 : a[i] = held[i]) /\ \A i \in 1..n - k : b[i] = held[k + i]
    BY <1>4, <1>5
  <2> HIDE DEF a, b
  <2>2. /\ a \o b \in Seq(Things) /\ Len(a \o b) = Len(a) + Len(b)
        /\ \A i \in 1..Len(a) + Len(b) : (a \o b)[i] = IF i <= Len(a) THEN a[i] ELSE b[i - Len(a)]
    BY <2>1, ConcatProperties
  <2>3. w = a \o b
    BY <1>3 DEF a, b
  <2>4. ASSUME NEW i \in 1..n - 1
        PROVE  w[i] = IF i <= k - 1 THEN held[i] ELSE held[i + 1]
    <3>1. i \in 1..Len(a) + Len(b)
      BY <1>1, <1>2, <2>1
    <3>2. CASE i <= k - 1
      BY <1>1, <1>2, <2>1, <2>2, <2>3, <3>1, <3>2
    <3>3. CASE ~(i <= k - 1)
      <4>1. i - (k - 1) \in 1..n - k /\ k + (i - (k - 1)) = i + 1
        BY <1>1, <1>2, <3>3
      <4>2. w[i] = b[i - (k - 1)]
        BY <2>1, <2>2, <2>3, <3>1, <3>3
      <4> QED
        BY <2>1, <3>3, <4>1, <4>2
    <3> QED
      BY <3>2, <3>3
  <2>5. w \in Seq(Things) /\ Len(w) = n - 1
    <3>1. Len(a) = k - 1 /\ Len(b) = n - k
      BY <2>1
    <3>2. a \o b \in Seq(Things) /\ Len(a \o b) = Len(a) + Len(b)
      BY <2>2
    <3>3. n \in Nat /\ k \in 1..n
      BY <1>1, <1>2
    <3> QED
      BY <2>3, <3>1, <3>2, <3>3
  <2> QED
    BY <2>4, <2>5
<1>7. ASSUME NEW i \in 1..n - 1, NEW j \in 1..n - 1, w[i] = w[j]
      PROVE  i = j
  <2>1. \A x, y \in 1..n : held[x] = held[y] => x = y
    BY DEF n
  <2>2. i \in 1..n /\ i + 1 \in 1..n /\ j \in 1..n /\ j + 1 \in 1..n
    BY <1>1
  <2> QED
    BY <1>1, <1>2, <1>6, <1>7, <2>1, <2>2
<1>8. Range(w) = Range(held) \ {t}
  <2>1. Range(w) = {w[i] : i \in 1..n - 1} /\ Range(held) = {held[i] : i \in 1..n}
    BY <1>1, <1>6, RangeEquality DEF n
  <2>2. ASSUME NEW i \in 1..n - 1
        PROVE  w[i] # t /\ \E j \in 1..n : w[i] = held[j]
    <3>1. \A x \in 1..n : held[x] = t => x = k
      BY <1>2 DEF n
    <3>2. i \in 1..n /\ i + 1 \in 1..n
      BY <1>1
    <3> QED
      BY <1>1, <1>2, <1>6, <3>1, <3>2
  <2>3. ASSUME NEW j \in 1..n, held[j] # t
        PROVE  \E i \in 1..n - 1 : held[j] = w[i]
    <3>1. CASE j <= k - 1
      <4>1. j \in 1..n - 1
        BY <1>1, <1>2, <3>1
      <4> QED
        BY <1>6, <3>1, <4>1
    <3>2. CASE ~(j <= k - 1)
      <4>1. j # k /\ j - 1 \in 1..n - 1 /\ ~(j - 1 <= k - 1) /\ (j - 1) + 1 = j
        BY <1>1, <1>2, <2>3, <3>2
      <4>2. w[j - 1] = held[j]
        BY <1>6, <4>1
      <4> QED
        BY <4>1, <4>2
    <3> QED
      BY <3>1, <3>2
  <2> QED
    BY <2>1, <2>2, <2>3
<1> QED
  BY <1>6, <1>7, <1>8 DEF w, n

\* Keeping one item, and what becomes of what is owed.
LEMMA KeepOne ==
  ASSUME EventsInv, "receiver" \notin gone, UNCHANGED <<moved, gone, peer>>,
         NEW item, Keepable(item), events' = events \o <<item>>
  PROVE  /\ EventsInv' /\ LongerBy(Len(events), Len(events) + 1)
         /\ events'[Len(events) + 1] = item
         /\ item.kind = "press" => Owed' = Owed \cup {ThingOf(item)}
         /\ item.kind = "release" => Owed' = Owed \ {ThingOf(item)}
         /\ item.kind \notin {"press", "release"} => Owed' = Owed
<1> DEFINE n == Len(events)
<1>1. events \in Seq(Items) /\ <<item>> \in Seq(Items) /\ Len(<<item>>) = 1 /\ item \in Items
  BY DEF EventsInv, ItemsOK, Keepable
<1>2. \A i \in 1..Len(<<item>>) : Keepable(<<item>>[i])
  <2> HIDE DEF Keepable
  <2> QED
    BY <1>1
<1>3. EventsInv'
  <2> HIDE DEF Keepable, Items
  <2>1. KeptBehind
    BY <1>1, <1>2, KeepStandsBehind
  <2> QED
    BY <2>1, KeepKeepsOrder
<1>4. LongerBy(n, n + 1) /\ events'[n + 1] = item /\ n \in Nat
  <2>1. /\ events' \in Seq(Items) /\ Len(events') = n + 1 /\ n \in Nat
        /\ \A i \in 1..n : events'[i] = events[i]
        /\ \A i \in n + 1..n + 1 : events'[i] = <<item>>[i - n]
    <3> HIDE DEF Items
    <3> QED
      BY <1>1, KeepPlaces
  <2>2. events'[n + 1] = <<item>>[1]
    BY <2>1
  <2> QED
    BY <2>1, <2>2 DEF LongerBy
<1> HIDE DEF n
<1>5. Owed \subseteq Things /\ Owed' \subseteq Things
  BY DEF Owed, Things
<1>6. CASE item.kind = "press"
  <2>1. \A t \in Things : t \in Owed' <=> t \in Owed \/ ThingOf(item) = t
    BY <1>1, <1>4, <1>6, OwedAfterPress
  <2>2. ThingOf(item) \in Things
    BY <1>6 DEF Keepable
  <2>3. Owed' = Owed \cup {ThingOf(item)}
    BY <1>5, <2>1, <2>2
  <2> QED
    BY <1>3, <1>4, <1>6, <2>3 DEF n
<1>7. CASE item.kind # "press"
  <2>0. n \in Nat /\ events'[n + 1] = item
    BY <1>4
  <2>1. \A i \in n + 1..n + 1 : events'[i] = item /\ events'[i].kind # "press"
    <3>1. \A i \in n + 1..n + 1 : i = n + 1
      BY <2>0
    <3> QED
      BY <1>7, <2>0, <3>1
  <2>2. ASSUME NEW t \in Things
        PROVE  t \in Owed' <=> t \in Owed /\ (item.kind = "release" => ThingOf(item) # t)
    <3>1. t \in Owed' <=>
            /\ t \in Owed
            /\ \A j \in n + 1..n + 1 : events'[j].kind = "release" => ThingOf(events'[j]) # t
      BY <1>1, <1>4, <2>1, OwedAfterReleases
    <3>2. n + 1 \in n + 1..n + 1
      BY <1>4
    <3> QED
      BY <2>1, <3>1, <3>2
  <2>3. /\ item.kind = "release" => Owed' = Owed \ {ThingOf(item)}
        /\ item.kind # "release" => Owed' = Owed
    BY <1>5, <2>2
  <2> QED
    BY <1>3, <1>4, <1>7, <2>3 DEF n
<1> QED
  BY <1>6, <1>7

\* What is held, once each, is what the far end is owed.
HeldInv ==
  /\ held \in Seq(Things)
  /\ \A i, j \in 1..Len(held) : held[i] = held[j] => i = j
  /\ peer \subseteq Things
  /\ "receiver" \notin gone => Owed = Range(held)

LEMMA ThingsAre ==
  ASSUME NEW t \in Things
  PROVE  t[1] \in Positions /\ t[2] \in Keys /\ t = <<t[1], t[2]>>
BY DEF Things

\* The items made are such as may be kept.
LEMMA MadeItems ==
  ASSUME moved \in [Positions -> Nat]
  PROVE  /\ \A pos \in Positions : /\ Keepable(Begin(pos)) /\ Begin(pos).kind = "begin"
                                   /\ Keepable(Other(pos)) /\ Other(pos).kind = "other"
         /\ \A t \in Things :
              /\ Keepable(Press(t)) /\ Press(t).kind = "press" /\ ThingOf(Press(t)) = t
              /\ Keepable(Release(t)) /\ Release(t).kind = "release" /\ ThingOf(Release(t)) = t
<1>1. ASSUME NEW pos \in Positions
      PROVE  /\ Keepable(Begin(pos)) /\ Begin(pos).kind = "begin"
             /\ Keepable(Other(pos)) /\ Other(pos).kind = "other"
  BY DEF Keepable, Begin, Other, Item, Items, Kinds, IsMotion
<1>2. ASSUME NEW t \in Things
      PROVE  /\ Keepable(Press(t)) /\ Press(t).kind = "press" /\ ThingOf(Press(t)) = t
             /\ Keepable(Release(t)) /\ Release(t).kind = "release" /\ ThingOf(Release(t)) = t
  BY <1>2, ThingsAre DEF Keepable, Press, Release, Item, Items, Kinds, IsMotion, ThingOf
<1> QED
  BY <1>1, <1>2

\* Letting go of everything held leaves nothing owed.
LEMMA OverflowStep ==
  ASSUME EventsInv, HeldInv, "receiver" \notin gone, UNCHANGED <<moved, gone, peer>>, Overflow
  PROVE  /\ EventsInv' /\ HeldInv' /\ Owed' = {} /\ KeptBehind
         /\ Len(events') = Len(events) + Len(held) /\ Len(held) \in Nat
         /\ \A i \in Len(events) + 1..Len(events') : events'[i].kind = "release"
<1> DEFINE items == [i \in DOMAIN held |-> Release(held[i])]
           n == Len(events)
           m == Len(events')
<1>1. /\ events \in Seq(Items) /\ held \in Seq(Things) /\ moved \in [Positions -> Nat]
      /\ Len(held) \in Nat /\ DOMAIN held = 1..Len(held)
      /\ \A i \in 1..Len(held) : held[i] \in Things
      /\ Owed = Range(held) /\ Range(held) = {held[i] : i \in 1..Len(held)}
  BY LenProperties, ElementOfSeq, RangeEquality DEF EventsInv, ItemsOK, HeldInv
<1>2. \A i \in 1..Len(held) : /\ items[i] = Release(held[i]) /\ Keepable(items[i])
                              /\ items[i].kind = "release" /\ ThingOf(items[i]) = held[i]
  <2> HIDE DEF Keepable
  <2> QED
    BY <1>1, MadeItems
<1>3. items \in Seq(Items) /\ Len(items) = Len(held)
  <2>1. \A i \in 1..Len(held) : items[i] \in Items
    BY <1>2 DEF Keepable
  <2>2. items \in [1..Len(held) -> Items]
    <3>1. items = [i \in 1..Len(held) |-> items[i]]
      BY <1>1
    <3> HIDE DEF items, Items
    <3> QED
      BY <2>1, <3>1
  <2> QED
    BY <1>1, <2>2, FunctionIsSeq
<1>4. events' = events \o items /\ held' = <<>>
  BY DEF Overflow, Keep
<1> HIDE DEF items
<1>5. KeptBehind
  <2> HIDE DEF Keepable
  <2> QED
    BY <1>1, <1>2, <1>3, <1>4, KeepStandsBehind
<1>6. EventsInv'
  BY <1>5, KeepKeepsOrder
<1>7. /\ events' \in Seq(Items) /\ m = n + Len(held) /\ n \in Nat
      /\ \A i \in 1..n : events'[i] = events[i]
      /\ \A i \in n + 1..m : events'[i] = items[i - n]
  <2> HIDE DEF Items
  <2> QED
    BY <1>1, <1>3, <1>4, KeepPlaces
<1>8. LongerBy(n, m)
  BY <1>1, <1>7 DEF LongerBy
<1> HIDE DEF n, m
<1>9. ASSUME NEW i \in n + 1..m
      PROVE  events'[i].kind = "release" /\ events'[i].kind # "press"
  <2>1. i - n \in 1..Len(held)
    BY <1>1, <1>7
  <2> QED
    BY <1>2, <1>7, <2>1
<1>10. ASSUME NEW t \in Things
       PROVE  t \notin Owed'
  <2>1. t \in Owed' <=>
          /\ t \in Owed
          /\ \A j \in n + 1..m : events'[j].kind = "release" => ThingOf(events'[j]) # t
    BY <1>1, <1>8, <1>9, OwedAfterReleases
  <2>2. ASSUME t \in Owed
        PROVE  \E j \in n + 1..m : events'[j].kind = "release" /\ ThingOf(events'[j]) = t
    <3>1. PICK i \in 1..Len(held) : held[i] = t
      BY <1>1, <2>2
    <3>2. n + i \in n + 1..m /\ (n + i) - n = i
      BY <1>1, <1>7
    <3>3. events'[n + i] = items[i]
      BY <1>7, <3>2
    <3> QED
      BY <1>2, <3>1, <3>2, <3>3
  <2> QED
    BY <2>1, <2>2
<1>11. Owed' = {}
  BY <1>10 DEF Owed, Things
<1>12. HeldInv'
  <2>1. held' \in Seq(Things) /\ Len(held') = 0 /\ Range(held') = {}
    BY <1>4 DEF Range
  <2>2. peer' \subseteq Things
    BY DEF HeldInv
  <2> QED
    BY <1>11, <2>1, <2>2 DEF HeldInv, Things
<1> QED
  BY <1>1, <1>5, <1>6, <1>7, <1>9, <1>11, <1>12 DEF n, m

\* A queue left alone stays in order, and owes what it did.
LEMMA SameEvents ==
  ASSUME UNCHANGED <<events, moved, gone, peer>>
  PROVE  (EventsInv' <=> EventsInv) /\ Owed' = Owed
<1>1. Owed' = Owed
  BY DEF Owed, ThingOf, Things
<1>2. ItemsOK' <=> ItemsOK
  BY DEF ItemsOK, IsMotion, ThingOf, Things
<1>3. OneMotionPerRun' <=> OneMotionPerRun
  BY DEF OneMotionPerRun, IsMotion
<1>4. MotionInOrder' <=> MotionInOrder
  BY DEF MotionInOrder
<1> QED
  BY <1>1, <1>2, <1>3, <1>4 DEF EventsInv

\* What each push does to the queue and to what is owed.
LEMMA MotionStep ==
  ASSUME EventsInv, HeldInv, "receiver" \notin gone, UNCHANGED gone,
         NEW pos \in Positions, PushMotion(pos)
  PROVE  EventsInv' /\ HeldInv' /\ Owed' = Owed
<1>1. /\ events \in Seq(Items) /\ moved \in [Positions -> Nat]
      /\ moved' = [moved EXCEPT ![pos] = @ + 1] /\ UNCHANGED <<held, peer>>
  BY DEF EventsInv, ItemsOK, PushMotion
<1>2. EventsInv' /\ Owed' = Owed
  <2>1. CASE TailMotion(pos) = {}
    <3>1. events' = Append(events, Motion(pos))
      BY <2>1 DEF PushMotion
    <3>2. EventsInv'
      BY <1>1, <2>1, <3>1, NewMotionKeepsOrder
    <3>3. Motion(pos) \in Items /\ Motion(pos).kind = "motion"
      BY <1>1 DEF Motion, Item, Items, Kinds
    <3> DEFINE n == Len(events)
    <3>4. /\ LongerBy(n, n + 1) /\ n \in Nat
          /\ events'[n + 1] = Motion(pos)
      <4> HIDE DEF Items
      <4>1. /\ Append(events, Motion(pos)) \in Seq(Items)
            /\ Len(Append(events, Motion(pos))) = n + 1
            /\ \A i \in 1..n : Append(events, Motion(pos))[i] = events[i]
            /\ Append(events, Motion(pos))[n + 1] = Motion(pos)
        BY <1>1, <3>3, AppendProperties
      <4>2. n \in Nat
        BY <1>1, LenProperties
      <4> QED
        BY <3>1, <4>1, <4>2 DEF LongerBy
    <3> HIDE DEF n
    <3>5. \A i \in n + 1..n + 1 : events'[i].kind = "motion"
      <4>1. \A i \in n + 1..n + 1 : i = n + 1
        BY <3>4
      <4> QED
        BY <3>3, <3>4, <4>1
    <3>6. ASSUME NEW t \in Things
          PROVE  t \in Owed' <=> t \in Owed
      BY <1>1, <3>4, <3>5, OwedAfterReleases
    <3> QED
      BY <3>2, <3>6 DEF Owed, Things
  <2>2. CASE TailMotion(pos) # {}
    <3>1. events' = [i \in DOMAIN events |->
                       IF i \in TailMotion(pos) THEN [events[i] EXCEPT !.dx = @ + 1]
                       ELSE events[i]]
      BY <2>2 DEF PushMotion
    <3>2. Merged(pos)
      BY <1>1, <3>1, MergePlaces
    <3>3. EventsInv'
      BY <1>1, <3>2, MergeKeepsOrder
    <3>4. ASSUME NEW t \in Things
          PROVE  t \in Owed' <=> t \in Owed
      BY <1>1, <3>2, OwedAfterMerge
    <3> QED
      BY <3>3, <3>4 DEF Owed, Things
  <2> QED
    BY <2>1, <2>2
<1> QED
  BY <1>1, <1>2 DEF HeldInv, Things

LEMMA BeginStep ==
  ASSUME EventsInv, HeldInv, "receiver" \notin gone, UNCHANGED gone,
         NEW pos \in Positions, PushBegin(pos)
  PROVE  EventsInv' /\ HeldInv' /\ Owed' = Owed
<1>1. /\ moved \in [Positions -> Nat] /\ events' = events \o <<Begin(pos)>>
      /\ UNCHANGED <<moved, gone, peer, held>>
  BY DEF PushBegin, Keep, histVars, EventsInv
<1>2. Keepable(Begin(pos)) /\ Begin(pos).kind = "begin"
  BY <1>1, MadeItems
<1>3. EventsInv' /\ Owed' = Owed
  <2> HIDE DEF Keepable, Begin
  <2> QED
    BY <1>1, <1>2, KeepOne
<1> QED
  BY <1>1, <1>3 DEF HeldInv, Things

LEMMA OtherStep ==
  ASSUME EventsInv, HeldInv, "receiver" \notin gone, UNCHANGED gone,
         NEW pos \in Positions, PushOther(pos)
  PROVE  EventsInv' /\ HeldInv' /\ Owed' \in {Owed, {}}
<1>1. /\ moved \in [Positions -> Nat] /\ UNCHANGED <<moved, gone, peer>>
      /\ PushKept(Other(pos), held)
  BY DEF PushOther, histVars, EventsInv
<1>2. Keepable(Other(pos)) /\ Other(pos).kind = "other"
  BY <1>1, MadeItems
<1>3. CASE UNCHANGED queueVars
  BY <1>1, <1>3, SameEvents DEF queueVars, HeldInv, Things
<1>4. CASE Overflow
  BY <1>1, <1>4, OverflowStep
<1>5. CASE Keep(<<Other(pos)>>) /\ held' = held
  <2>1. EventsInv' /\ Owed' = Owed
    <3> HIDE DEF Keepable, Other
    <3> QED
      BY <1>1, <1>2, <1>5, KeepOne DEF Keep
  <2> QED
    BY <1>1, <1>5, <2>1 DEF HeldInv, Things
<1> QED
  BY <1>1, <1>3, <1>4, <1>5 DEF PushKept

LEMMA PressStep ==
  ASSUME EventsInv, HeldInv, "receiver" \notin gone, UNCHANGED gone,
         NEW t \in Things, PushPress(t)
  PROVE  EventsInv' /\ HeldInv' /\ Owed' \in {Owed, {}, Owed \cup {t}}
<1> DEFINE nowHeld == IF t \in Range(held) THEN held ELSE Append(held, t)
<1>1. /\ moved \in [Positions -> Nat] /\ UNCHANGED <<moved, gone, peer>>
      /\ PushKept(Press(t), nowHeld)
  BY DEF PushPress, EventsInv
<1>2. Keepable(Press(t)) /\ Press(t).kind = "press" /\ ThingOf(Press(t)) = t
  BY <1>1, MadeItems
<1>3. CASE UNCHANGED queueVars
  BY <1>1, <1>3, SameEvents DEF queueVars, HeldInv, Things
<1>4. CASE Overflow
  BY <1>1, <1>4, OverflowStep
<1>5. CASE Keep(<<Press(t)>>) /\ held' = nowHeld
  <2>1. EventsInv' /\ Owed' = Owed \cup {t}
    <3> HIDE DEF Keepable, Press
    <3> QED
      BY <1>1, <1>2, <1>5, KeepOne DEF Keep
  <2>2. /\ held' \in Seq(Things) /\ Range(held') = Range(held) \cup {t}
        /\ \A i, j \in 1..Len(held') : held'[i] = held'[j] => i = j
    <3>1. /\ held \in Seq(Things) /\ Len(held) \in Nat
          /\ Range(held) = {held[i] : i \in 1..Len(held)}
          /\ \A i, j \in 1..Len(held) : held[i] = held[j] => i = j
      BY LenProperties, RangeEquality DEF HeldInv
    <3>2. CASE t \in Range(held)
      <4>1. held' = held
        BY <1>5, <3>2
      <4> QED
        BY <3>1, <3>2, <4>1
    <3>3. CASE t \notin Range(held)
      <4>1. held' = Append(held, t)
        BY <1>5, <3>3
      <4>2. /\ held' \in Seq(Things) /\ Len(held') = Len(held) + 1
            /\ \A i \in 1..Len(held) : held'[i] = held[i]
            /\ held'[Len(held) + 1] = t
        BY <3>1, <4>1, AppendProperties
      <4>3. Range(held') = {held'[i] : i \in 1..Len(held) + 1}
        BY <4>2, RangeEquality
      <4>4. \A i \in 1..Len(held) + 1 : i \in 1..Len(held) \/ i = Len(held) + 1
        BY <3>1
      <4>5. Len(held) + 1 \in 1..Len(held) + 1 /\ 1..Len(held) \subseteq 1..Len(held) + 1
        BY <3>1
      <4>6. Range(held') = Range(held) \cup {t}
        BY <3>1, <4>2, <4>3, <4>4, <4>5
      <4>7. \A i, j \in 1..Len(held) + 1 : held'[i] = held'[j] => i = j
        BY <3>1, <3>3, <4>2, <4>4
      <4> QED
        BY <4>2, <4>6, <4>7
    <3> QED
      BY <3>2, <3>3
  <2> HIDE DEF nowHeld
  <2> QED
    BY <1>1, <2>1, <2>2 DEF HeldInv, Things
<1> QED
  BY <1>1, <1>3, <1>4, <1>5 DEF PushKept

LEMMA ReleaseStep ==
  ASSUME EventsInv, HeldInv, "receiver" \notin gone, UNCHANGED gone,
         NEW t \in Things, PushRelease(t)
  PROVE  EventsInv' /\ HeldInv' /\ Owed' = Owed \ {t}
<1>1. /\ moved \in [Positions -> Nat] /\ UNCHANGED <<moved, gone, peer>>
      /\ held' = Without(t) /\ Owed = Range(held)
  BY DEF PushRelease, EventsInv, HeldInv
<1>2. Keepable(Release(t)) /\ Release(t).kind = "release" /\ ThingOf(Release(t)) = t
  BY <1>1, MadeItems
<1>3. /\ held' \in Seq(Things) /\ Range(held') = Range(held) \ {t}
      /\ \A i, j \in 1..Len(held') : held'[i] = held'[j] => i = j
  <2>1. CASE t \in Range(held)
    BY <1>1, <2>1, WithoutOne DEF HeldInv
  <2>2. CASE t \notin Range(held)
    <3>1. held' = held
      BY <1>1, <2>2 DEF Without
    <3> QED
      BY <2>2, <3>1 DEF HeldInv
  <2> QED
    BY <2>1, <2>2
<1>4. EventsInv' /\ Owed' = Owed \ {t}
  <2>1. CASE Keep(<<Release(t)>>)
    <3> HIDE DEF Keepable, Release
    <3> QED
      BY <1>1, <1>2, <2>1, KeepOne DEF Keep
  <2>2. CASE t \notin Range(held) /\ UNCHANGED <<events, kept>>
    BY <1>1, <2>2, SameEvents
  <2> QED
    BY <2>1, <2>2 DEF PushRelease
<1> QED
  BY <1>1, <1>3, <1>4 DEF HeldInv, Things

\* Taking an item leaves what is owed alone.
LEMMA PopStep ==
  ASSUME EventsInv, HeldInv, "receiver" \notin gone, UNCHANGED gone,
         events # <<>>, Pop, Receive(Head(events))
  PROVE  EventsInv' /\ HeldInv' /\ Owed' = Owed /\ MovedUp
<1>1. events \in Seq(Items) /\ UNCHANGED held /\ events' = Recounted(Head(events), Tail(events))
  BY DEF EventsInv, ItemsOK, Pop
<1>2. MovedUp
  BY <1>1, PopMovesUp
<1>3. EventsInv'
  BY <1>2, PopKeepsOrder
<1>4. ASSUME NEW t \in Things
      PROVE  t \in Owed' <=> t \in Owed
  BY <1>1, <1>2, OwedAfterPop
<1>5. Owed' = Owed
  BY <1>4 DEF Owed, Things
<1>6. peer' \subseteq Things
  <2>1. /\ Head(events) = events[1] /\ 1 \in 1..Len(events)
    BY <1>2 DEF MovedUp
  <2>2. events[1].kind = "press" => ThingOf(events[1]) \in Things
    BY <2>1 DEF EventsInv, ItemsOK
  <2> QED
    BY <2>1, <2>2 DEF Receive, After, HeldInv
<1> QED
  BY <1>1, <1>2, <1>3, <1>5, <1>6 DEF HeldInv, Things

-----------------------------------------------------------------------------
(***************************************************************************)
(* The queue keeps what HeldKeys promises.                                 *)
(***************************************************************************)

\* What the promise speaks of: what the far end is owed, and whether it is gone.
PromisedOwed == IF "receiver" \in gone THEN {} ELSE Owed
Ended == "receiver" \in gone

\* A step that leaves those and what is down alone is a stutter of the promise.
LEMMA PromiseStutters ==
  ASSUME UNCHANGED <<down, PromisedOwed, Ended>>
  PROVE  UNCHANGED Promise!vars
BY DEF PromisedOwed, Ended, Promise!vars

\* A push while the receiver is there.
LEMMA LivePush ==
  ASSUME EventsInv, HeldInv, "receiver" \notin gone, UNCHANGED gone,
         \/ \E pos \in Positions : PushMotion(pos) \/ PushBegin(pos) \/ PushOther(pos)
         \/ \E t \in Things : PushPress(t) \/ PushRelease(t)
  PROVE  EventsInv' /\ HeldInv' /\ [Promise!Next]_(Promise!vars)
<1>0. /\ PromisedOwed = Owed /\ PromisedOwed' = Owed'
      /\ "receiver" \notin gone' /\ Ended' = Ended
  BY DEF PromisedOwed, Ended
<1>1. ASSUME NEW pos \in Positions, PushMotion(pos)
      PROVE  EventsInv' /\ HeldInv' /\ [Promise!Next]_(Promise!vars)
  <2>1. UNCHANGED down
    BY <1>1 DEF PushMotion
  <2> QED
    BY <1>0, <1>1, <2>1, MotionStep, PromiseStutters
<1>2. ASSUME NEW pos \in Positions, PushBegin(pos)
      PROVE  EventsInv' /\ HeldInv' /\ [Promise!Next]_(Promise!vars)
  <2>1. UNCHANGED down
    BY <1>2 DEF PushBegin, histVars
  <2> QED
    BY <1>0, <1>2, <2>1, BeginStep, PromiseStutters
<1>3. ASSUME NEW pos \in Positions, PushOther(pos)
      PROVE  EventsInv' /\ HeldInv' /\ [Promise!Next]_(Promise!vars)
  <2>1. UNCHANGED down
    BY <1>3 DEF PushOther, histVars
  <2>2. EventsInv' /\ HeldInv' /\ Owed' \in {Owed, {}}
    BY <1>3, OtherStep
  <2>3. CASE Owed' = Owed
    BY <1>0, <2>1, <2>2, <2>3, PromiseStutters
  <2>4. CASE Owed' = {}
    <3>1. Promise!Other
      BY <1>0, <2>1, <2>4 DEF Promise!Other
    <3> QED
      BY <2>2, <3>1 DEF Promise!Next
  <2> QED
    BY <2>2, <2>3, <2>4
<1>4. ASSUME NEW t \in Things, PushPress(t)
      PROVE  EventsInv' /\ HeldInv' /\ [Promise!Next]_(Promise!vars)
  <2>1. down' = down \cup {t}
    BY <1>4 DEF PushPress
  <2>2. EventsInv' /\ HeldInv' /\ Owed' \in {Owed, {}, Owed \cup {t}}
    BY <1>4, PressStep
  <2>3. Promise!Press(t)
    BY <1>0, <2>1, <2>2 DEF Promise!Press
  <2> QED
    BY <2>2, <2>3 DEF Promise!Next
<1>5. ASSUME NEW t \in Things, PushRelease(t)
      PROVE  EventsInv' /\ HeldInv' /\ [Promise!Next]_(Promise!vars)
  <2>1. down' = down \ {t}
    BY <1>5 DEF PushRelease
  <2>2. EventsInv' /\ HeldInv' /\ Owed' = Owed \ {t}
    BY <1>5, ReleaseStep
  <2>3. Promise!Release(t)
    BY <1>0, <2>1, <2>2 DEF Promise!Release
  <2> QED
    BY <2>2, <2>3 DEF Promise!Next
<1> QED
  BY <1>1, <1>2, <1>3, <1>4, <1>5

\* Every step of the queue keeps it in order and is a step of the promise, or a
\* stutter of it.
LEMMA QueueStep ==
  ASSUME EventsInv, HeldInv, [Next]_vars
  PROVE  EventsInv' /\ HeldInv' /\ [Promise!Next]_(Promise!vars)
<1> DEFINE Goal == EventsInv' /\ HeldInv' /\ [Promise!Next]_(Promise!vars)
<1>0. ASSUME UNCHANGED <<events, moved, peer, held, gone>>
      PROVE  EventsInv' /\ HeldInv' /\ UNCHANGED <<PromisedOwed, Ended>>
  BY <1>0, SameEvents DEF HeldInv, Things, PromisedOwed, Ended
<1>1. ASSUME Push
      PROVE  Goal
  <2>1. CASE PushDiscarded
    <3>1. UNCHANGED <<events, moved, peer, held, gone>> /\ "receiver" \in gone
      BY <1>1, <2>1 DEF Push, PushDiscarded, queueVars
    <3>2. PICK t \in Things : down' \in {down \cup {t}, down \ {t}}
      BY <2>1 DEF PushDiscarded
    <3>3. Promise!Press(t) \/ Promise!Release(t)
      BY <3>1, <3>2 DEF Promise!Press, Promise!Release
    <3> QED
      BY <1>0, <3>1, <3>3 DEF Promise!Next
  <2>2. CASE ~PushDiscarded
    <3>1. /\ "receiver" \notin gone /\ UNCHANGED gone
          /\ \/ \E pos \in Positions : PushMotion(pos) \/ PushBegin(pos) \/ PushOther(pos)
             \/ \E t \in Things : PushPress(t) \/ PushRelease(t)
      BY <1>1, <2>2 DEF Push
    <3> QED
      BY <3>1, LivePush
  <2> QED
    BY <2>1, <2>2
<1>2. ASSUME DropSender
      PROVE  Goal
  <2>1. UNCHANGED <<events, moved, peer, held, down>> /\ gone' = gone \cup {"sender"}
    BY <1>2 DEF DropSender, queueVars, histVars
  <2>2. ("receiver" \in gone') <=> ("receiver" \in gone)
    BY <2>1
  <2>3. Owed' = Owed
    BY <2>1 DEF Owed, ThingOf, Things
  <2>4. EventsInv'
    <3>1. ItemsOK' /\ OneMotionPerRun'
      BY <2>1 DEF EventsInv, ItemsOK, OneMotionPerRun, IsMotion, ThingOf, Things
    <3>2. MotionInOrder'
      BY <2>1, <2>2 DEF EventsInv, MotionInOrder
    <3> QED
      BY <2>1, <3>1, <3>2 DEF EventsInv
  <2>5. HeldInv'
    BY <2>1, <2>2, <2>3 DEF HeldInv, Things
  <2>6. UNCHANGED <<PromisedOwed, Ended>>
    BY <2>2, <2>3 DEF PromisedOwed, Ended
  <2> QED
    BY <2>1, <2>4, <2>5, <2>6, PromiseStutters
<1>3. ASSUME Wake
      PROVE  Goal
  <2>1. UNCHANGED <<events, moved, peer, held, gone, down>>
    BY <1>3 DEF Wake, queueVars, histVars
  <2> QED
    BY <1>0, <2>1, PromiseStutters
<1>4. ASSUME PollRecv
      PROVE  Goal
  <2>0. "receiver" \notin gone /\ UNCHANGED gone
    BY <1>4 DEF PollRecv
  <2>1. CASE events # <<>>
    <3>1. Pop /\ Receive(Head(events)) /\ UNCHANGED down
      BY <1>4, <2>1 DEF PollRecv, Receive
    <3>2. EventsInv' /\ HeldInv' /\ Owed' = Owed
      BY <2>0, <2>1, <3>1, PopStep
    <3>3. UNCHANGED <<PromisedOwed, Ended>>
      BY <2>0, <3>2 DEF PromisedOwed, Ended
    <3> QED
      BY <3>1, <3>2, <3>3, PromiseStutters
  <2>2. CASE events = <<>>
    <3>1. UNCHANGED <<events, moved, peer, held, gone, down>>
      BY <1>4, <2>2 DEF PollRecv, queueVars, histVars
    <3> QED
      BY <1>0, <3>1, PromiseStutters
  <2> QED
    BY <2>1, <2>2
<1>5. ASSUME DropReceiver
      PROVE  Goal
  <2>1. /\ "receiver" \in gone' /\ events' = <<>> /\ held' = <<>>
        /\ UNCHANGED <<moved, peer, down>>
    BY <1>5 DEF DropReceiver, histVars
  <2>2. events' \in Seq(Items) /\ Len(events') = 0 /\ held' \in Seq(Things) /\ Len(held') = 0
    BY <2>1
  <2>3. EventsInv'
    BY <2>1, <2>2 DEF EventsInv, ItemsOK, OneMotionPerRun, MotionInOrder, IsMotion, ThingOf, Things
  <2>4. HeldInv'
    BY <2>1, <2>2 DEF HeldInv, Things
  <2>5. Promise!End
    BY <2>1 DEF Promise!End
  <2> QED
    BY <2>3, <2>4, <2>5 DEF Promise!Next
<1>6. ASSUME UNCHANGED vars
      PROVE  Goal
  <2>1. UNCHANGED <<events, moved, peer, held, gone, down>>
    BY <1>6 DEF vars, queueVars, histVars
  <2> QED
    BY <1>0, <2>1, PromiseStutters
<1> QED
  BY <1>1, <1>2, <1>3, <1>4, <1>5, <1>6 DEF Next

LEMMA QueueInit ==
  Init => EventsInv /\ HeldInv /\ Promise!Init
<1> SUFFICES ASSUME Init
             PROVE  EventsInv /\ HeldInv /\ Promise!Init
  OBVIOUS
<1>1. /\ events = <<>> /\ held = <<>> /\ peer = {} /\ gone = {} /\ down = {}
      /\ moved = [p \in Positions |-> 0]
  BY DEF Init
<1>2. events \in Seq(Items) /\ Len(events) = 0 /\ held \in Seq(Things) /\ Len(held) = 0
  BY <1>1
<1>3. Owed = {} /\ Range(held) = {}
  BY <1>1 DEF Owed, Range
<1>4. EventsInv
  BY <1>1, <1>2 DEF EventsInv, ItemsOK, OneMotionPerRun, MotionInOrder
<1>5. HeldInv
  BY <1>1, <1>2, <1>3 DEF HeldInv
<1>6. Promise!Init
  BY <1>1, <1>3 DEF Promise!Init
<1> QED
  BY <1>4, <1>5, <1>6

\* The queue implements HeldKeys, for every set of edges and keys and every
\* capacity: no merge, overflow, refusal, wake or drop of an end leaves the far
\* end owed anything but what HeldKeys allows that step (State::push,
\* State::pop, Drop for QueueReceiver).
THEOREM QueueKeepsItsPromise == Spec => KeepsItsPromise
<1>1. Init => EventsInv /\ HeldInv /\ Promise!Init
  BY QueueInit
<1>2. EventsInv /\ HeldInv /\ [Next]_vars
        => EventsInv' /\ HeldInv' /\ [Promise!Next]_(Promise!vars)
  BY QueueStep
<1> QED
  BY <1>1, <1>2, PTL DEF Spec, KeepsItsPromise, Promise!Spec

\* What HeldKeys' steps come to, for any keys and buttons: a key let go of where
\* events are made (a release that counts, an overflow that lets everything go,
\* a receiver that goes) is never left held at the far end once it has taken
\* everything (State::push, overflow).
THEOREM NothingLeftHeld == Promise!Spec => []Promise!OwedIsDown
<1> DEFINE owed == IF "receiver" \in gone THEN {} ELSE Owed
<1>1. Promise!Init => Promise!OwedIsDown
  BY DEF Promise!Init, Promise!OwedIsDown
<1>2. Promise!OwedIsDown /\ [Promise!Next]_(Promise!vars) => Promise!OwedIsDown'
  <2>0. Promise!OwedIsDown <=> owed \subseteq down
    BY DEF Promise!OwedIsDown
  <2>1. Promise!OwedIsDown' <=> owed' \subseteq down'
    BY DEF Promise!OwedIsDown
  <2> SUFFICES ASSUME owed \subseteq down, [Promise!Next]_(Promise!vars)
               PROVE  owed' \subseteq down'
    BY <2>0, <2>1
  <2>2. CASE Promise!Other
    BY <2>2 DEF Promise!Other
  <2>3. CASE Promise!End
    BY <2>3 DEF Promise!End
  <2>4. ASSUME NEW t \in Things, Promise!Press(t)
        PROVE  owed' \subseteq down'
    <3>1. owed' \in {owed, {}, owed \cup {t}} /\ down' = down \cup {t}
      BY <2>4 DEF Promise!Press
    <3> HIDE DEF owed
    <3> QED BY <3>1
  <2>5. ASSUME NEW t \in Things, Promise!Release(t)
        PROVE  owed' \subseteq down'
    <3>1. owed' = owed \ {t} /\ down' = down \ {t}
      BY <2>5 DEF Promise!Release
    <3> HIDE DEF owed
    <3> QED BY <3>1
  <2>6. CASE UNCHANGED Promise!vars
    BY <2>6 DEF Promise!vars
  <2> QED
    BY <2>2, <2>3, <2>4, <2>5, <2>6 DEF Promise!Next
<1> QED
  BY <1>1, <1>2, PTL DEF Promise!Spec

\* So a key let go of at the capture thread is never left down at the far end
\* once that has taken everything, however long the queue refuses and whatever
\* it merged or dropped: HeldKeys' invariant, inherited.
THEOREM NothingStaysDown == Spec => []Promise!OwedIsDown
BY QueueKeepsItsPromise, NothingLeftHeld, PTL DEF KeepsItsPromise

-----------------------------------------------------------------------------
(***************************************************************************)
(* The queue stays bounded.                                                *)
(***************************************************************************)

KeptAt == {i \in 1..Len(events) : ~IsMotion(events[i])}
BeginsAt == {i \in 1..Len(events) : events[i].kind = "begin"}

\* Places of a sequence are finitely many.
LEMMA PlacesAreFinite ==
  ASSUME NEW n \in Nat, NEW S \in SUBSET (1..n)
  PROVE  IsFiniteSet(S) /\ Cardinality(S) \in Nat /\ Cardinality(S) <= n
<1>1. IsFiniteSet(1..n) /\ Cardinality(1..n) = n
  BY FS_Interval
<1> QED
  BY <1>1, FS_Subset, FS_CardinalityType

\* Adding places behind the others.
LEMMA PlacesAdded ==
  ASSUME NEW n \in Nat, NEW m \in Nat, n <= m, NEW S \in SUBSET (1..n)
  PROVE  Cardinality(S \cup (n + 1..m)) = Cardinality(S) + (m - n)
<1>1. IsFiniteSet(S) /\ Cardinality(S) \in Nat
  BY PlacesAreFinite
<1>2. IsFiniteSet(n + 1..m) /\ Cardinality(n + 1..m) = m - n
  <2>1. n + 1 \in Int /\ m \in Int
    OBVIOUS
  <2>2. /\ IsFiniteSet(n + 1..m)
        /\ Cardinality(n + 1..m) = IF n + 1 > m THEN 0 ELSE m - (n + 1) + 1
    BY <2>1, FS_Interval
  <2> QED
    BY <2>2
<1>3. S \cap (n + 1..m) = {}
  OBVIOUS
<1>4. Cardinality(S \cap (n + 1..m)) = 0
  BY <1>3, FS_EmptySet
<1>5. Cardinality(S \cup (n + 1..m)) =
        Cardinality(S) + Cardinality(n + 1..m) - Cardinality(S \cap (n + 1..m))
  BY <1>1, <1>2, FS_Union
<1> QED
  BY <1>1, <1>2, <1>4, <1>5

\* Places that move up by one, the first of them taken.
LEMMA PlacesMovedUp ==
  ASSUME NEW n \in Nat \ {0}, NEW S \in SUBSET (1..n), NEW T \in SUBSET (1..n - 1),
         \A i \in 1..n - 1 : i \in T <=> i + 1 \in S
  PROVE  Cardinality(T) = IF 1 \in S THEN Cardinality(S) - 1 ELSE Cardinality(S)
<1> DEFINE f == [i \in T |-> i + 1]
           R == S \ {1}
<1>1. IsFiniteSet(S) /\ IsFiniteSet(T)
  <2>1. n - 1 \in Nat
    OBVIOUS
  <2> QED
    BY <2>1, PlacesAreFinite
<1>2. f \in [T -> R]
  OBVIOUS
<1>3. \A a, b \in T : f[a] = f[b] => a = b
  OBVIOUS
<1>4. \A s \in R : \E a \in T : f[a] = s
  <2> SUFFICES ASSUME NEW s \in R
               PROVE  \E a \in T : f[a] = s
    OBVIOUS
  <2>1. s - 1 \in 1..n - 1 /\ (s - 1) + 1 = s
    OBVIOUS
  <2>2. s - 1 \in T
    BY <2>1
  <2> QED
    BY <2>1, <2>2
<1> HIDE DEF f, R
<1>5. f \in Bijection(T, R)
  BY <1>2, <1>3, <1>4, Fun_IsBij
<1>6. ExistsBijection(T, R)
  BY <1>5, Fun_ExistsBij
<1>7. Cardinality(T) = Cardinality(R)
  BY <1>1, <1>6, FS_Bijection
<1> QED
  BY <1>1, <1>7, FS_RemoveElement DEF R

\* The things are finitely many, and as many at most are held.
LEMMA HeldIsBounded ==
  ASSUME NEW once \in Seq(Things),
         \A i, j \in 1..Len(once) : once[i] = once[j] => i = j
  PROVE  /\ Cardinality(Things) \in Nat /\ Len(once) \in Nat
         /\ Len(once) <= Cardinality(Things)
<1>1. IsFiniteSet(Things)
  <2>1. IsFiniteSet(Positions \X Keys)
    BY QueueAssumption, FS_Product
  <2>2. Things \subseteq Positions \X Keys
    BY DEF Things
  <2> QED
    BY <2>1, <2>2, FS_Subset
<1>2. Cardinality(Things) \in Nat
  BY <1>1, FS_CardinalityType
<1>3. Len(once) \in Nat /\ once \in [1..Len(once) -> Things]
  BY LenProperties
<1>4. once \in Injection(1..Len(once), Things)
  BY <1>3, Fun_IsInj
<1>5. Cardinality(1..Len(once)) <= Cardinality(Things)
  BY <1>1, <1>4, FS_Injection
<1>6. Cardinality(1..Len(once)) = Len(once)
  BY <1>3, FS_Interval
<1> QED
  BY <1>2, <1>3, <1>5, <1>6

\* At most one motion for each edge stands before, between and behind the kept
\* events: a motion is told apart by its edge and by how many kept ones are
\* before it.
LEMMA MotionIsBounded ==
  ASSUME EventsInv, kept = Cardinality(KeptAt)
  PROVE  Len(events) <= kept + (kept + 1) * Cardinality(Positions)
<1> DEFINE n == Len(events)
           M == (1..n) \ KeptAt
           before(i) == {j \in KeptAt : j < i}
           f == [i \in M |-> <<Cardinality(before(i)), events[i].pos>>]
<1>1. /\ n \in Nat /\ KeptAt \in SUBSET (1..n)
      /\ \A i \in 1..n : events[i] \in Items
  BY LenProperties, ElementOfSeq DEF EventsInv, ItemsOK, KeptAt
<1>2. \A i \in M : i \in 1..n /\ IsMotion(events[i]) /\ events[i].pos \in Positions
  BY <1>1 DEF KeptAt, Items
<1> HIDE DEF n
<1>3. IsFiniteSet(KeptAt) /\ kept \in Nat
  BY <1>1, PlacesAreFinite
<1>4. IsFiniteSet(M) /\ Cardinality(M) = n - kept /\ Cardinality(M) \in Nat
  <2>1. IsFiniteSet(1..n) /\ Cardinality(1..n) = n
    BY <1>1, FS_Interval
  <2>2. (1..n) \cap KeptAt = KeptAt
    BY <1>1
  <2>3. IsFiniteSet(M) /\ Cardinality(M) = Cardinality(1..n) - Cardinality((1..n) \cap KeptAt)
    BY <2>1, FS_Difference
  <2> QED
    BY <2>1, <2>2, <2>3, FS_CardinalityType
<1>5. ASSUME NEW i \in M
      PROVE  /\ IsFiniteSet(before(i)) /\ Cardinality(before(i)) \in 0..kept
             /\ before(i) \subseteq KeptAt
  <2>1. before(i) \in SUBSET KeptAt
    OBVIOUS
  <2>2. IsFiniteSet(before(i)) /\ Cardinality(before(i)) <= kept
    BY <1>3, <2>1, FS_Subset
  <2>3. Cardinality(before(i)) \in Nat
    BY <2>2, FS_CardinalityType
  <2> HIDE DEF before
  <2> QED
    BY <1>3, <2>1, <2>2, <2>3
<1>6. f \in [M -> (0..kept) \X Positions]
  <2> HIDE DEF before, M
  <2> QED
    BY <1>2, <1>5
<1>7. ASSUME NEW i \in M, NEW k \in M, i < k, events[i].pos = events[k].pos
      PROVE  Cardinality(before(i)) # Cardinality(before(k))
  <2>1. PICK j \in i..k : ~IsMotion(events[j])
    BY <1>2, <1>7 DEF EventsInv, OneMotionPerRun, n
  <2>2. j \in 1..n /\ j # i /\ j # k
    BY <1>1, <1>2, <2>1
  <2>3. j \in before(k) /\ j \notin before(i)
    BY <1>1, <2>1, <2>2 DEF KeptAt, n
  <2>4. before(i) \in SUBSET before(k)
    <3> SUFFICES ASSUME NEW x \in KeptAt, x < i
                 PROVE  x < k
      OBVIOUS
    <3>1. x \in Int /\ i \in Int /\ k \in Int
      BY <1>1, <1>2
    <3> QED
      BY <1>7, <3>1
  <2>5. before(i) # before(k)
    BY <2>3
  <2> HIDE DEF before
  <2> QED
    BY <1>5, <2>4, <2>5, FS_Subset
<1>8. \A a, b \in M : f[a] = f[b] => a = b
  <2> SUFFICES ASSUME NEW a \in M, NEW b \in M, f[a] = f[b]
               PROVE  a = b
    OBVIOUS
  <2> DEFINE g(i) == Cardinality(before(i))
  <2>1. \A i \in M : f[i][1] = g(i) /\ f[i][2] = events[i].pos
    <3> HIDE DEF before
    <3> QED
      OBVIOUS
  <2> HIDE DEF g, f, M
  <2>2. g(a) = g(b) /\ events[a].pos = events[b].pos
    BY <2>1
  <2>3. a \in Nat /\ b \in Nat
    BY <1>2
  <2> HIDE DEF before
  <2> QED
    BY <1>7, <2>2, <2>3 DEF g
<1>9. /\ IsFiniteSet((0..kept) \X Positions) /\ Cardinality(Positions) \in Nat
      /\ Cardinality((0..kept) \X Positions) = (kept + 1) * Cardinality(Positions)
  <2>1. IsFiniteSet(0..kept) /\ Cardinality(0..kept) = kept + 1
    BY <1>3, FS_Interval
  <2>2. IsFiniteSet(Positions) /\ Cardinality(Positions) \in Nat
    BY QueueAssumption, FS_CardinalityType
  <2> QED
    BY <2>1, <2>2, FS_Product
<1> HIDE DEF M, f, before
<1>10. Cardinality(M) <= Cardinality((0..kept) \X Positions)
  <2> DEFINE T == (0..kept) \X Positions
  <2>1. f \in [M -> T] /\ IsFiniteSet(T)
    BY <1>6, <1>9
  <2> HIDE DEF T
  <2>2. f \in Injection(M, T)
    BY <1>8, <2>1, Fun_IsInj
  <2>3. Cardinality(M) <= Cardinality(T)
    BY <2>1, <2>2, FS_Injection
  <2> QED
    BY <2>3 DEF T
<1> DEFINE c == (kept + 1) * Cardinality(Positions)
<1>11. c \in Nat
  BY <1>3, <1>9
<1>12. Cardinality(M) <= c
  BY <1>9, <1>10
<1> HIDE DEF c
<1>13. n <= kept + c
  BY <1>1, <1>3, <1>4, <1>11, <1>12
<1> QED
  BY <1>13 DEF n, c

\* What is kept and held stays within the capacity, the things that can be held
\* and the Begins waiting.
RoomInv ==
  /\ kept = Cardinality(KeptAt)
  /\ Cardinality(BeginsAt) <= MaxBegins
  /\ kept + Len(held) <= Capacity + Cardinality(Things) + Cardinality(BeginsAt)

LEMMA CountsAreNaturals ==
  ASSUME EventsInv, HeldInv, RoomInv
  PROVE  /\ kept \in Nat /\ Cardinality(BeginsAt) \in Nat /\ Len(held) \in Nat
         /\ Cardinality(Things) \in Nat /\ Len(held) <= Cardinality(Things)
         /\ Capacity \in Nat /\ MaxBegins \in Nat /\ Len(events) \in Nat
         /\ KeptAt \in SUBSET (1..Len(events)) /\ BeginsAt \in SUBSET (1..Len(events))
<1>1. /\ Len(events) \in Nat
      /\ KeptAt \in SUBSET (1..Len(events)) /\ BeginsAt \in SUBSET (1..Len(events))
  BY LenProperties DEF EventsInv, ItemsOK, KeptAt, BeginsAt
<1>2. Cardinality(KeptAt) \in Nat /\ Cardinality(BeginsAt) \in Nat
  BY <1>1, PlacesAreFinite
<1> QED
  BY <1>1, <1>2, HeldIsBounded, QueueAssumption DEF RoomInv, HeldInv

\* Keeping items counts each of them.
LEMMA KeptCount ==
  ASSUME EventsInv, HeldInv, RoomInv, NEW n, NEW m, LongerBy(n, m),
         \A i \in n + 1..m : ~IsMotion(events'[i])
  PROVE  /\ Cardinality(KeptAt') = kept + (m - n)
         /\ (\A i \in n + 1..m : events'[i].kind # "begin")
              => Cardinality(BeginsAt') = Cardinality(BeginsAt)
         /\ (\A i \in n + 1..m : events'[i].kind = "begin")
              => Cardinality(BeginsAt') = Cardinality(BeginsAt) + (m - n)
<1>1. /\ n \in Nat /\ m \in Nat /\ n <= m /\ n = Len(events) /\ m = Len(events')
      /\ \A i \in 1..n : events'[i] = events[i]
  BY DEF LongerBy
<1>2. /\ \A i \in 1..m : i \in 1..n \/ i \in n + 1..m
      /\ 1..n \subseteq 1..m /\ n + 1..m \subseteq 1..m
  BY <1>1
<1>3. KeptAt \in SUBSET (1..n) /\ BeginsAt \in SUBSET (1..n) /\ kept = Cardinality(KeptAt)
  BY <1>1, CountsAreNaturals DEF RoomInv
<1>4. KeptAt' = KeptAt \cup (n + 1..m)
  BY <1>1, <1>2 DEF KeptAt, IsMotion
<1>5. Cardinality(KeptAt') = kept + (m - n)
  BY <1>1, <1>3, <1>4, PlacesAdded
<1>6. ASSUME \A i \in n + 1..m : events'[i].kind # "begin"
      PROVE  BeginsAt' = BeginsAt
  BY <1>1, <1>2, <1>6 DEF BeginsAt
<1>7. ASSUME \A i \in n + 1..m : events'[i].kind = "begin"
      PROVE  BeginsAt' = BeginsAt \cup (n + 1..m)
  BY <1>1, <1>2, <1>7 DEF BeginsAt
<1>8. ASSUME \A i \in n + 1..m : events'[i].kind = "begin"
      PROVE  Cardinality(BeginsAt') = Cardinality(BeginsAt) + (m - n)
  BY <1>1, <1>3, <1>7, <1>8, PlacesAdded
<1> QED
  BY <1>5, <1>6, <1>8

LEMMA KeptOneCount ==
  ASSUME EventsInv, HeldInv, RoomInv, "receiver" \notin gone, UNCHANGED <<moved, gone, peer>>,
         NEW item, Keepable(item), Keep(<<item>>)
  PROVE  /\ kept' = kept + 1 /\ kept' = Cardinality(KeptAt')
         /\ item.kind = "begin" => Cardinality(BeginsAt') = Cardinality(BeginsAt) + 1
         /\ item.kind # "begin" => Cardinality(BeginsAt') = Cardinality(BeginsAt)
<1> DEFINE n == Len(events)
<1>1. events' = events \o <<item>> /\ kept' = kept + 1
  <2>1. Len(<<item>>) = 1
    OBVIOUS
  <2> QED
    BY <2>1 DEF Keep
<1>2. LongerBy(n, n + 1) /\ events'[n + 1] = item /\ n \in Nat
  <2> HIDE DEF Keepable
  <2> QED
    BY <1>1, KeepOne, CountsAreNaturals
<1> HIDE DEF n
<1>3. \A i \in n + 1..n + 1 : events'[i] = item
  <2>1. \A i \in n + 1..n + 1 : i = n + 1
    BY <1>2
  <2> QED
    BY <1>2, <2>1
<1>4. \A i \in n + 1..n + 1 : ~IsMotion(events'[i])
  BY <1>3 DEF Keepable
<1>5. (n + 1) - n = 1
  BY <1>2
<1>6. Cardinality(KeptAt') = kept + 1
  BY <1>2, <1>4, <1>5, KeptCount
<1>7. ASSUME item.kind # "begin"
      PROVE  Cardinality(BeginsAt') = Cardinality(BeginsAt)
  <2>1. \A i \in n + 1..n + 1 : events'[i].kind # "begin"
    BY <1>3, <1>7
  <2> QED
    BY <1>2, <1>4, <2>1, KeptCount
<1>8. ASSUME item.kind = "begin"
      PROVE  Cardinality(BeginsAt') = Cardinality(BeginsAt) + 1
  <2>1. \A i \in n + 1..n + 1 : events'[i].kind = "begin"
    BY <1>3, <1>8
  <2> QED
    BY <1>2, <1>4, <1>5, <2>1, KeptCount
<1> QED
  BY <1>1, <1>6, <1>7, <1>8

\* Taking an item counts it no more.
LEMMA PopCount ==
  ASSUME EventsInv, HeldInv, RoomInv, MovedUp
  PROVE  /\ Cardinality(KeptAt') = IF IsMotion(Head(events)) THEN kept ELSE kept - 1
         /\ Cardinality(BeginsAt') \in {Cardinality(BeginsAt), Cardinality(BeginsAt) - 1}
         /\ IsMotion(Head(events)) => Cardinality(BeginsAt') = Cardinality(BeginsAt)
<1> DEFINE n == Len(events)
<1>1. /\ n \in Nat \ {0} /\ Len(events') = n - 1 /\ Head(events) = events[1] /\ 1 \in 1..n
      /\ \A i \in 1..n - 1 : i + 1 \in 1..n
      /\ kept = Cardinality(KeptAt)
  BY DEF MovedUp, RoomInv
<1>2. \A i \in 1..n - 1 : events'[i].kind = events[i + 1].kind
  BY DEF MovedUp, Items
<1>3. KeptAt \in SUBSET (1..n) /\ BeginsAt \in SUBSET (1..n)
  BY CountsAreNaturals
<1>4. /\ KeptAt' \in SUBSET (1..n - 1)
      /\ \A i \in 1..n - 1 : i \in KeptAt' <=> i + 1 \in KeptAt
  BY <1>1, <1>2 DEF KeptAt, IsMotion
<1>5. /\ BeginsAt' \in SUBSET (1..n - 1)
      /\ \A i \in 1..n - 1 : i \in BeginsAt' <=> i + 1 \in BeginsAt
  BY <1>1, <1>2 DEF BeginsAt
<1>6. 1 \in KeptAt <=> ~IsMotion(Head(events))
  BY <1>1 DEF KeptAt
<1>7. IsMotion(Head(events)) => 1 \notin BeginsAt
  BY <1>1 DEF BeginsAt, IsMotion
<1> HIDE DEF n
<1>8. Cardinality(KeptAt') = IF 1 \in KeptAt THEN Cardinality(KeptAt) - 1 ELSE Cardinality(KeptAt)
  BY <1>1, <1>3, <1>4, PlacesMovedUp
<1>9. Cardinality(BeginsAt') =
        IF 1 \in BeginsAt THEN Cardinality(BeginsAt) - 1 ELSE Cardinality(BeginsAt)
  BY <1>1, <1>3, <1>5, PlacesMovedUp
<1> QED
  BY <1>1, <1>6, <1>7, <1>8, <1>9

\* Motion is not counted.
LEMMA MotionCount ==
  ASSUME EventsInv, NEW pos \in Positions, PushMotion(pos)
  PROVE  KeptAt' = KeptAt /\ BeginsAt' = BeginsAt
<1>1. events \in Seq(Items) /\ moved \in [Positions -> Nat]
  BY DEF EventsInv, ItemsOK
<1> DEFINE n == Len(events)
<1>2. n \in Nat
  BY <1>1, LenProperties
<1>3. CASE TailMotion(pos) = {}
  <2>1. events' = Append(events, Motion(pos)) /\ Motion(pos).kind = "motion"
    BY <1>3 DEF PushMotion, Motion, Item
  <2>2. Motion(pos) \in Items
    BY <1>1 DEF Motion, Item, Items, Kinds
  <2>3. /\ Len(events') = n + 1 /\ events'[n + 1] = Motion(pos)
        /\ \A i \in 1..n : events'[i] = events[i]
    BY <1>1, <2>1, <2>2, AppendProperties
  <2>4. /\ \A i \in 1..n + 1 : i \in 1..n \/ i = n + 1
        /\ 1..n \subseteq 1..n + 1
    BY <1>2
  <2> QED
    BY <2>1, <2>3, <2>4 DEF KeptAt, BeginsAt, IsMotion
<1>4. CASE TailMotion(pos) # {}
  <2>1. events' = [i \in DOMAIN events |->
                     IF i \in TailMotion(pos) THEN [events[i] EXCEPT !.dx = @ + 1]
                     ELSE events[i]]
    BY <1>4 DEF PushMotion
  <2>2. Merged(pos)
    BY <1>1, <2>1, MergePlaces
  <2> QED
    BY <2>2 DEF Merged, KeptAt, BeginsAt, IsMotion
<1> QED
  BY <1>3, <1>4

\* Counts that are within the bounds, in the state after a step.
LEMMA RoomAfter ==
  ASSUME HeldInv', NEW b, kept' = Cardinality(KeptAt'), Cardinality(BeginsAt') = b,
         b \in Nat, b <= MaxBegins, kept' \in Nat,
         \/ kept' <= Capacity
         \/ kept' + Len(held') <= Capacity + Cardinality(Things) + b
  PROVE  RoomInv'
<1>1. /\ held' \in Seq(Things) /\ Things' = Things
      /\ \A i, j \in 1..Len(held') : held'[i] = held'[j] => i = j
  BY DEF HeldInv, Things
<1>2. /\ Cardinality(Things) \in Nat /\ Len(held') \in Nat /\ Len(held') <= Cardinality(Things)
  BY <1>1, HeldIsBounded
<1>3. Capacity \in Nat
  BY QueueAssumption
<1>4. kept' + Len(held') <= Capacity + Cardinality(Things) + b
  BY <1>2, <1>3
<1> QED
  BY <1>1, <1>4 DEF RoomInv

\* A press, a scroll or a release is kept or not, or everything held is let go of.
LEMMA KeptRoom ==
  ASSUME EventsInv, HeldInv, HeldInv', RoomInv, "receiver" \notin gone,
         UNCHANGED <<moved, gone, peer>>, NEW item, Keepable(item), item.kind # "begin",
         NEW nowHeld, PushKept(item, nowHeld)
  PROVE  RoomInv'
<1> DEFINE b == Cardinality(BeginsAt)
<1>1. /\ kept \in Nat /\ b \in Nat /\ Capacity \in Nat /\ Len(held) \in Nat
      /\ Cardinality(Things) \in Nat
  BY CountsAreNaturals
<1>2. /\ b <= MaxBegins /\ kept = Cardinality(KeptAt)
      /\ kept + Len(held) <= Capacity + Cardinality(Things) + b
  BY DEF RoomInv
<1>3. CASE UNCHANGED queueVars
  BY <1>2, <1>3 DEF queueVars, RoomInv, KeptAt, BeginsAt, IsMotion, Things
<1>4. CASE Overflow
  <2> DEFINE n == Len(events)
             m == Len(events')
  <2>1. /\ KeptBehind /\ m = n + Len(held) /\ Len(held) \in Nat
        /\ \A i \in n + 1..m : events'[i].kind = "release"
    BY <1>4, OverflowStep
  <2>2. LongerBy(n, m) /\ n \in Nat
    BY <1>1, <2>1 DEF KeptBehind, LongerBy
  <2> HIDE DEF n, m
  <2>3. \A i \in n + 1..m : ~IsMotion(events'[i]) /\ events'[i].kind # "begin"
    BY <2>1 DEF IsMotion
  <2>4. Cardinality(KeptAt') = kept + (m - n) /\ Cardinality(BeginsAt') = b
    BY <2>2, <2>3, KeptCount
  <2>5. /\ kept' = kept + Len(held) /\ held' = <<>>
    <3>1. kept' = kept + Len([i \in DOMAIN held |-> Release(held[i])])
      BY <1>4 DEF Overflow, Keep
    <3>2. Len([i \in DOMAIN held |-> Release(held[i])]) = Len(held)
      <4> DEFINE items == [i \in 1..Len(held) |-> Release(held[i])]
      <4>1. DOMAIN held = 1..Len(held)
        BY LenProperties DEF HeldInv
      <4>2. items \in [1..Len(held) -> {Release(held[i]) : i \in 1..Len(held)}]
        OBVIOUS
      <4>3. Len(items) = Len(held)
        BY <1>1, <4>2, FunctionIsSeq
      <4> QED
        BY <4>1, <4>3
    <3> QED
      BY <1>4, <3>1, <3>2 DEF Overflow
  <2>6. kept' = Cardinality(KeptAt') /\ Len(held') = 0 /\ kept' \in Nat
    BY <1>1, <2>1, <2>2, <2>4, <2>5
  <2>7. kept' + Len(held') <= Capacity + Cardinality(Things) + b
    BY <1>1, <1>2, <2>5, <2>6
  <2> HIDE DEF b
  <2> QED
    BY <1>1, <1>2, <2>4, <2>6, <2>7, RoomAfter
<1>5. CASE kept < Capacity /\ Keep(<<item>>)
  <2>1. kept' = kept + 1 /\ kept' = Cardinality(KeptAt') /\ Cardinality(BeginsAt') = b
    BY <1>5, KeptOneCount
  <2>2. kept' \in Nat /\ kept' <= Capacity
    BY <1>1, <1>5, <2>1
  <2> HIDE DEF b
  <2> QED
    BY <1>1, <1>2, <2>1, <2>2, RoomAfter
<1> QED
  BY <1>3, <1>4, <1>5 DEF PushKept

\* Every step leaves the counts right and within the bounds.
LEMMA RoomStep ==
  ASSUME EventsInv, HeldInv, HeldInv', RoomInv, [Next]_vars
  PROVE  RoomInv'
<1> DEFINE b == Cardinality(BeginsAt)
<1>1. /\ kept \in Nat /\ b \in Nat /\ Capacity \in Nat /\ Len(held) \in Nat
      /\ Cardinality(Things) \in Nat /\ MaxBegins \in Nat
  BY CountsAreNaturals
<1>2. /\ b <= MaxBegins /\ kept = Cardinality(KeptAt)
      /\ kept + Len(held) <= Capacity + Cardinality(Things) + b
  BY DEF RoomInv
<1>3. moved \in [Positions -> Nat]
  BY DEF EventsInv
<1>4. ASSUME UNCHANGED queueVars
      PROVE  RoomInv'
  BY <1>2, <1>4 DEF queueVars, RoomInv, KeptAt, BeginsAt, IsMotion, Things
<1>5. ASSUME "receiver" \notin gone, UNCHANGED gone, NEW pos \in Positions, PushMotion(pos)
      PROVE  RoomInv'
  <2>1. KeptAt' = KeptAt /\ BeginsAt' = BeginsAt
    BY <1>5, MotionCount
  <2>2. UNCHANGED <<kept, held>>
    BY <1>5 DEF PushMotion
  <2> QED
    BY <1>2, <2>1, <2>2 DEF RoomInv, Things
<1>6. ASSUME "receiver" \notin gone, UNCHANGED gone, NEW pos \in Positions, PushBegin(pos)
      PROVE  RoomInv'
  <2>1. Keepable(Begin(pos)) /\ Begin(pos).kind = "begin"
    BY <1>3, MadeItems
  <2>2. /\ Keep(<<Begin(pos)>>) /\ UNCHANGED <<moved, peer, held>>
        /\ Cardinality({i \in DOMAIN events : events[i].kind = "begin"}) < MaxBegins
    BY <1>6 DEF PushBegin, histVars
  <2>3. b < MaxBegins
    <3>1. DOMAIN events = 1..Len(events)
      BY LenProperties DEF EventsInv, ItemsOK
    <3> QED
      BY <2>2, <3>1 DEF BeginsAt
  <2>4. /\ kept' = kept + 1 /\ kept' = Cardinality(KeptAt')
        /\ Cardinality(BeginsAt') = b + 1
    <3> HIDE DEF Keepable, Begin
    <3> QED
      BY <1>6, <2>1, <2>2, KeptOneCount
  <2>5. /\ b + 1 \in Nat /\ b + 1 <= MaxBegins /\ kept' \in Nat
        /\ kept' + Len(held') <= Capacity + Cardinality(Things) + (b + 1)
    BY <1>1, <1>2, <2>2, <2>3, <2>4
  <2> HIDE DEF b
  <2> QED
    BY <2>4, <2>5, RoomAfter
<1>7. ASSUME "receiver" \notin gone, UNCHANGED gone, NEW pos \in Positions, PushOther(pos)
      PROVE  RoomInv'
  <2>1. Keepable(Other(pos)) /\ Other(pos).kind = "other"
    BY <1>3, MadeItems
  <2>2. PushKept(Other(pos), held) /\ UNCHANGED <<moved, peer>>
    BY <1>7 DEF PushOther, histVars
  <2> HIDE DEF Keepable, Other
  <2> QED
    BY <1>7, <2>1, <2>2, KeptRoom
<1>8. ASSUME "receiver" \notin gone, UNCHANGED gone, NEW t \in Things, PushPress(t)
      PROVE  RoomInv'
  <2>1. Keepable(Press(t)) /\ Press(t).kind = "press"
    BY <1>3, MadeItems
  <2>2. /\ PushKept(Press(t), IF t \in Range(held) THEN held ELSE Append(held, t))
        /\ UNCHANGED <<moved, peer>>
    BY <1>8 DEF PushPress
  <2> HIDE DEF Keepable, Press
  <2> QED
    BY <1>8, <2>1, <2>2, KeptRoom
<1>9. ASSUME "receiver" \notin gone, UNCHANGED gone, NEW t \in Things, PushRelease(t)
      PROVE  RoomInv'
  <2>1. Keepable(Release(t)) /\ Release(t).kind = "release"
    BY <1>3, MadeItems
  <2>2. UNCHANGED <<moved, peer>> /\ held' = Without(t)
    BY <1>9 DEF PushRelease
  <2>3. ASSUME Keep(<<Release(t)>>)
        PROVE  /\ kept' = kept + 1 /\ kept' = Cardinality(KeptAt')
               /\ Cardinality(BeginsAt') = b /\ kept' \in Nat
    <3>1. /\ kept' = kept + 1 /\ kept' = Cardinality(KeptAt')
          /\ Cardinality(BeginsAt') = b
      <4> HIDE DEF Keepable, Release
      <4> QED
        BY <1>9, <2>1, <2>2, <2>3, KeptOneCount
    <3> QED
      BY <1>1, <3>1
  <2>4. CASE t \in Range(held)
    <3>1. Keep(<<Release(t)>>)
      BY <1>9, <2>4 DEF PushRelease
    <3>2. Len(held') = Len(held) - 1
      BY <2>2, <2>4, WithoutOne DEF HeldInv
    <3>3. kept' + Len(held') <= Capacity + Cardinality(Things) + b
      BY <1>1, <1>2, <2>3, <3>1, <3>2
    <3> HIDE DEF b
    <3> QED
      BY <1>1, <1>2, <2>3, <3>1, <3>3, RoomAfter
  <2>5. CASE t \notin Range(held) /\ kept < Capacity /\ Keep(<<Release(t)>>)
    <3>1. kept' <= Capacity
      BY <1>1, <2>3, <2>5
    <3> HIDE DEF b
    <3> QED
      BY <1>1, <1>2, <2>3, <2>5, <3>1, RoomAfter
  <2>6. CASE t \notin Range(held) /\ UNCHANGED <<events, kept>>
    <3>1. held' = held
      BY <2>2, <2>6 DEF Without
    <3> QED
      BY <1>2, <2>6, <3>1 DEF RoomInv, KeptAt, BeginsAt, IsMotion, Things
  <2> QED
    BY <1>9, <2>4, <2>5, <2>6 DEF PushRelease
<1>10. CASE Push
  BY <1>4, <1>5, <1>6, <1>7, <1>8, <1>9, <1>10 DEF Push, PushDiscarded
<1>11. CASE PollRecv
  <2>1. CASE events # <<>>
    <3>1. "receiver" \notin gone /\ UNCHANGED gone /\ Pop /\ Receive(Head(events))
      BY <1>11, <2>1 DEF PollRecv
    <3>2. MovedUp
      BY <2>1, <3>1, PopStep
    <3>3. /\ Cardinality(KeptAt') = IF IsMotion(Head(events)) THEN kept ELSE kept - 1
          /\ Cardinality(BeginsAt') \in {b, b - 1}
          /\ IsMotion(Head(events)) => Cardinality(BeginsAt') = b
      BY <3>2, PopCount
    <3>4. /\ kept' = IF IsMotion(Head(events)) THEN kept ELSE kept - 1
          /\ UNCHANGED held
      BY <3>1 DEF Pop
    <3>5. Cardinality(BeginsAt') \in Nat /\ kept' \in Nat
      <4>1. Len(events') \in Nat
        BY <3>2 DEF MovedUp
      <4>2. KeptAt' \in SUBSET (1..Len(events')) /\ BeginsAt' \in SUBSET (1..Len(events'))
        BY DEF KeptAt, BeginsAt
      <4>3. Cardinality(BeginsAt') \in Nat /\ Cardinality(KeptAt') \in Nat
        BY <4>1, <4>2, PlacesAreFinite
      <4> QED
        BY <3>3, <3>4, <4>3
    <3> DEFINE a == Cardinality(BeginsAt')
    <3>6. /\ a \in Nat /\ a \in {b, b - 1} /\ kept' \in {kept, kept - 1}
          /\ kept' = kept => a = b
      BY <1>1, <3>3, <3>4, <3>5
    <3> HIDE DEF a, b
    <3>7. a <= MaxBegins /\ kept' + Len(held') <= Capacity + Cardinality(Things) + a
      BY <1>1, <1>2, <3>4, <3>5, <3>6
    <3>8. kept' = Cardinality(KeptAt') /\ Cardinality(BeginsAt') = a
      BY <3>3, <3>4 DEF a
    <3> QED
      BY <3>5, <3>6, <3>7, <3>8, RoomAfter
  <2>2. CASE events = <<>>
    BY <1>4, <1>11, <2>2 DEF PollRecv
  <2> QED
    BY <2>1, <2>2
<1>12. CASE DropReceiver
  <2>1. events' = <<>> /\ kept' = 0 /\ held' = <<>>
    BY <1>12 DEF DropReceiver
  <2>2. KeptAt' = {} /\ BeginsAt' = {}
    BY <2>1 DEF KeptAt, BeginsAt
  <2>3. kept' = Cardinality(KeptAt') /\ Cardinality(BeginsAt') = 0
    BY <2>1, <2>2, FS_EmptySet
  <2>4. 0 \in Nat /\ 0 <= MaxBegins /\ kept' <= Capacity /\ kept' \in Nat
    BY <1>1, <2>1
  <2> QED
    BY <2>3, <2>4, RoomAfter
<1>13. CASE DropSender \/ Wake \/ UNCHANGED vars
  BY <1>4, <1>13 DEF DropSender, Wake, vars
<1> QED
  BY <1>10, <1>11, <1>12, <1>13 DEF Next

\* The rest of what QueueIsBounded says.
RestInv ==
  /\ refusing \in BOOLEAN
  /\ gone \subseteq {"sender", "receiver"}
  /\ waker \in BOOLEAN /\ waking \in BOOLEAN /\ consumer \in {"ready", "asleep", "ended"}
  /\ down \subseteq Things

LEMMA RestStep ==
  ASSUME RestInv, [Next]_vars
  PROVE  RestInv'
<1>1. Things' = Things
  BY DEF Things
<1>2. CASE Push
  <2>1. /\ refusing' \in BOOLEAN /\ down' \subseteq Things
    BY <1>2 DEF RestInv, Push, PushDiscarded, PushMotion, PushBegin, PushOther, PushPress,
         PushRelease, PushKept, Overflow, queueVars, histVars
  <2>2. waker' \in BOOLEAN /\ waking' \in BOOLEAN /\ UNCHANGED <<gone, consumer>>
    BY <1>2 DEF RestInv, Push, TakeWaker
  <2> QED
    BY <1>1, <2>1, <2>2 DEF RestInv
<1>3. CASE DropSender
  BY <1>1, <1>3 DEF RestInv, DropSender, TakeWaker, queueVars, histVars
<1>4. CASE Wake
  BY <1>1, <1>4 DEF RestInv, Wake, queueVars, histVars
<1>5. CASE PollRecv
  BY <1>1, <1>5 DEF RestInv, PollRecv, Pop, Receive, queueVars, histVars
<1>6. CASE DropReceiver
  BY <1>1, <1>6 DEF RestInv, DropReceiver, wakeVars, histVars
<1>7. CASE UNCHANGED vars
  BY <1>1, <1>7 DEF RestInv, vars, queueVars, wakeVars, histVars
<1> QED
  BY <1>2, <1>3, <1>4, <1>5, <1>6, <1>7 DEF Next

\* A consumer that takes nothing costs a bounded queue, for every capacity:
\* past it only what is let go of and the crossings' Begins are kept, at most
\* one motion for each edge stands between two kept events, and everything has
\* its type (State::push, State::overflow, State::pop).
THEOREM QueueStaysBounded == Spec => []QueueIsBounded
<1> DEFINE Inv == EventsInv /\ HeldInv /\ RoomInv /\ RestInv
<1>1. Init => Inv
  <2> SUFFICES ASSUME Init
               PROVE  RoomInv /\ RestInv
    BY QueueInit
  <2>1. events = <<>> /\ kept = 0 /\ held = <<>> /\ Len(events) = 0 /\ Len(held) = 0
    BY DEF Init
  <2>2. KeptAt = {} /\ BeginsAt = {}
    BY <2>1 DEF KeptAt, BeginsAt
  <2>3. Cardinality(KeptAt) = 0 /\ Cardinality(BeginsAt) = 0
    BY <2>2, FS_EmptySet
  <2>4. held \in Seq(Things) /\ \A i, j \in 1..Len(held) : held[i] = held[j] => i = j
    BY <2>1
  <2>5. Cardinality(Things) \in Nat
    BY <2>4, HeldIsBounded
  <2>6. RoomInv
    BY <2>1, <2>3, <2>5, QueueAssumption DEF RoomInv
  <2>7. RestInv
    BY DEF Init, RestInv
  <2> QED
    BY <2>6, <2>7
<1>2. Inv /\ [Next]_vars => Inv'
  <2> SUFFICES ASSUME EventsInv, HeldInv, RoomInv, RestInv, [Next]_vars
               PROVE  Inv'
    OBVIOUS
  <2>1. EventsInv' /\ HeldInv'
    BY QueueStep
  <2> QED
    BY <2>1, RoomStep, RestStep
<1>3. Inv => QueueIsBounded
  <2> SUFFICES ASSUME EventsInv, HeldInv, RoomInv, RestInv
               PROVE  QueueIsBounded
    OBVIOUS
  <2>1. events \in Seq(Items) /\ DOMAIN events = 1..Len(events) /\ moved \in [Positions -> Nat]
    BY LenProperties DEF EventsInv, ItemsOK
  <2>2. kept = Cardinality({i \in DOMAIN events : ~IsMotion(events[i])})
    BY <2>1 DEF RoomInv, KeptAt
  <2>3. kept \in Nat
    BY CountsAreNaturals
  <2>4. Len(events) <= kept + (kept + 1) * Cardinality(Positions)
    BY MotionIsBounded DEF RoomInv
  <2>5. kept + Len(held) <= Capacity + Cardinality(Things) + MaxBegins
    <3> DEFINE b == Cardinality(BeginsAt)
    <3>1. /\ kept \in Nat /\ b \in Nat /\ Capacity \in Nat /\ Len(held) \in Nat
          /\ Cardinality(Things) \in Nat /\ MaxBegins \in Nat
      BY CountsAreNaturals
    <3>2. b <= MaxBegins /\ kept + Len(held) <= Capacity + Cardinality(Things) + b
      BY DEF RoomInv
    <3> HIDE DEF b
    <3> QED
      BY <3>1, <3>2
  <2>6. held \in Seq(Things) /\ peer \subseteq Things
    BY DEF HeldInv
  <2>7. events \in Seq([pos : Positions,
                        kind : {"motion", "begin", "other", "press", "release"},
                        key : Keys \cup {NoKey}, dx : Nat, at : Nat])
    BY <2>1 DEF Items, Kinds
  <2> HIDE DEF Inv
  <2> QED
    BY <2>1, <2>2, <2>3, <2>4, <2>5, <2>6, <2>7 DEF QueueIsBounded, RestInv
<1> QED
  BY <1>1, <1>2, <1>3, PTL DEF Spec

-----------------------------------------------------------------------------
(***************************************************************************)
(* Where the pointer is when a click is taken.                             *)
(***************************************************************************)

\* Items of other places say nothing of where the first n leave a pointer.
LEMMA LeavesSame ==
  ASSUME NEW q, NEW r, NEW n, NEW pos, NEW x,
         \A i \in 1..n : r[i] = q[i], LeavesAt(q, pos, n, x)
  PROVE  LeavesAt(r, pos, n, x)
<1>1. \A i \in 1..n : \A j \in i + 1..n : n \in Int => j \in 1..n
  BY DEF LeavesAt
<1> QED
  BY <1>1 DEF LeavesAt

\* Items kept leave every pointer where it was.
LEMMA LeavesBehind ==
  ASSUME NEW q, NEW r, NEW n \in Nat, NEW m \in Nat, n <= m, NEW pos, NEW x \in Nat,
         \A i \in 1..n : r[i] = q[i],
         \A i \in n + 1..m : r[i].pos = pos => r[i].at = x /\ r[i].dx = 0,
         LeavesAt(q, pos, n, x)
  PROVE  LeavesAt(r, pos, m, x)
<1>1. ASSUME \A i \in 1..m : r[i].pos # pos
      PROVE  x = 0
  <2>1. \A i \in 1..n : i \in 1..m /\ q[i].pos # pos
    BY <1>1
  <2> QED
    BY <2>1 DEF LeavesAt
<1>2. ASSUME NEW i \in 1..m, r[i].pos = pos, \A j \in i + 1..m : r[j].pos # pos
      PROVE  x = r[i].at + r[i].dx
  <2>1. CASE i \in n + 1..m
    BY <1>2, <2>1
  <2>2. CASE i \in 1..n
    <3>1. \A j \in i + 1..n : j \in i + 1..m /\ j \in 1..n
      BY <2>2
    <3>2. q[i].pos = pos /\ \A j \in i + 1..n : q[j].pos # pos
      BY <1>2, <2>2, <3>1
    <3>3. x = q[i].at + q[i].dx
      BY <2>2, <3>2 DEF LeavesAt
    <3> QED
      BY <2>2, <3>3
  <2> QED
    BY <2>1, <2>2
<1> QED
  BY <1>1, <1>2 DEF LeavesAt

\* An item that moves its pointer leaves it there, and the others where they were.
LEMMA LeavesMoved ==
  ASSUME NEW q, NEW r, NEW n \in Nat, NEW pos, NEW x \in Nat,
         \A i \in 1..n : r[i] = q[i], LeavesAt(q, pos, n, x),
         r[n + 1].at \in Nat, r[n + 1].dx \in Nat,
         r[n + 1].pos = pos => r[n + 1].at = x
  PROVE  LeavesAt(r, pos, n + 1, IF r[n + 1].pos = pos THEN x + r[n + 1].dx ELSE x)
<1>1. CASE r[n + 1].pos # pos
  <2>1. LeavesAt(r, pos, n + 1, x)
    <3>1. \A i \in n + 1..n + 1 : r[i].pos = pos => r[i].at = x /\ r[i].dx = 0
      BY <1>1
    <3>2. n + 1 \in Nat /\ n <= n + 1
      OBVIOUS
    <3> HIDE DEF LeavesAt
    <3> QED
      BY <3>1, <3>2, LeavesBehind
  <2> QED
    BY <1>1, <2>1
<1>2. CASE r[n + 1].pos = pos
  <2>1. n + 1 \in 1..n + 1
    OBVIOUS
  <2>2. \A i \in 1..n + 1 : (\A j \in i + 1..n + 1 : r[j].pos # pos) => i = n + 1
    BY <1>2
  <2> QED
    BY <1>2, <2>1, <2>2 DEF LeavesAt
<1> QED
  BY <1>1, <1>2

\* The first item taken, what is behind it leaves its pointer so much nearer.
LEMMA LeavesUp ==
  ASSUME NEW q, NEW r, NEW n \in Nat \ {0}, NEW pos, NEW x \in Nat,
         \A i \in 1..n : q[i].at \in Nat /\ q[i].dx \in Nat,
         q[1].at = 0,
         \A i \in 1..n - 1 :
           /\ r[i].pos = q[i + 1].pos /\ r[i].dx = q[i + 1].dx
           /\ r[i].at = IF q[i + 1].pos = q[1].pos THEN q[i + 1].at - q[1].dx ELSE q[i + 1].at,
         LeavesAt(q, pos, n, x)
  PROVE  LeavesAt(r, pos, n - 1, IF pos = q[1].pos THEN x - q[1].dx ELSE x)
<1> DEFINE y == IF pos = q[1].pos THEN x - q[1].dx ELSE x
<1>0. 1 \in 1..n /\ q[1].dx \in Nat
  OBVIOUS
<1>1. ASSUME NEW j \in 2..n
      PROVE  j - 1 \in 1..n - 1 /\ r[j - 1].pos = q[j].pos
  <2>1. j - 1 \in 1..n - 1 /\ (j - 1) + 1 = j
    OBVIOUS
  <2>2. r[j - 1].pos = q[(j - 1) + 1].pos
    BY <2>1
  <2> QED
    BY <2>1, <2>2
<1>2. ASSUME \A i \in 1..n - 1 : r[i].pos # pos
      PROVE  y = 0
  <2>2. \A j \in 2..n : q[j].pos # pos
    BY <1>1, <1>2
  <2>3. CASE pos = q[1].pos
    <3>1. \A j \in 1 + 1..n : q[j].pos # pos
      BY <2>2
    <3>2. x = q[1].at + q[1].dx
      BY <1>0, <2>3, <3>1 DEF LeavesAt
    <3>3. x = q[1].dx
      BY <1>0, <3>2
    <3> QED
      BY <1>0, <2>3, <3>3
  <2>4. CASE pos # q[1].pos
    <3>1. \A j \in 1..n : j = 1 \/ j \in 2..n
      OBVIOUS
    <3>2. \A j \in 1..n : q[j].pos # pos
      BY <2>2, <2>4, <3>1
    <3>3. x = 0
      BY <3>2 DEF LeavesAt
    <3> QED
      BY <2>4, <3>3
  <2> QED
    BY <2>3, <2>4
<1>3. ASSUME NEW i \in 1..n - 1, r[i].pos = pos, \A j \in i + 1..n - 1 : r[j].pos # pos
      PROVE  y = r[i].at + r[i].dx
  <2>1. i + 1 \in 1..n /\ q[i + 1].pos = pos
    BY <1>3
  <2>2. \A j \in (i + 1) + 1..n : j \in 2..n /\ j - 1 \in i + 1..n - 1
    OBVIOUS
  <2>3. \A j \in (i + 1) + 1..n : q[j].pos # pos
    BY <1>1, <1>3, <2>2
  <2>4. x = q[i + 1].at + q[i + 1].dx
    BY <2>1, <2>3 DEF LeavesAt
  <2>5. /\ q[i + 1].at \in Nat /\ q[i + 1].dx \in Nat /\ r[i].dx = q[i + 1].dx
        /\ r[i].at = IF pos = q[1].pos THEN q[i + 1].at - q[1].dx ELSE q[i + 1].at
    BY <1>3, <2>1
  <2> QED
    BY <1>0, <2>4, <2>5
<1> HIDE DEF y
<1>4. LeavesAt(r, pos, n - 1, y)
  BY <1>2, <1>3 DEF LeavesAt
<1> QED
  BY <1>4 DEF y

\* Each item of a queue stands where those before it leave its pointer, and all
\* of them leave each pointer where it is.
Lands(q, x) ==
  /\ \A i \in 1..Len(q) : LeavesAt(q, q[i].pos, i - 1, q[i].at)
  /\ \A pos \in Positions : LeavesAt(q, pos, Len(q), x[pos])

\* While the receiver is there, both parts of ClicksLandWhereMade hold of the
\* queue; once it is gone the queue is empty.
LandsInv ==
  /\ "receiver" \notin gone => Lands(events, moved)
  /\ "receiver" \in gone => Len(events) = 0

\* Keeping items.
LEMMA KeepLands ==
  ASSUME EventsInv, UNCHANGED moved, KeptBehind, Lands(events, moved)
  PROVE  Lands(events', moved')
<1> DEFINE n == Len(events)
           m == Len(events')
<1>1. /\ n \in Nat /\ m \in Nat /\ n <= m /\ moved \in [Positions -> Nat] /\ moved' = moved
      /\ \A i \in 1..n : events'[i] = events[i]
      /\ \A i \in n + 1..m : Keepable(events'[i])
  BY DEF KeptBehind, EventsInv
<1>2. /\ \A i \in 1..n : LeavesAt(events, events[i].pos, i - 1, events[i].at)
      /\ \A pos \in Positions : LeavesAt(events, pos, n, moved[pos])
  BY DEF Lands
<1> HIDE DEF n, m
<1>3. \A i \in n + 1..m : /\ events'[i].pos \in Positions /\ events'[i].dx = 0
                          /\ events'[i].at = moved[events'[i].pos]
  BY <1>1 DEF Keepable, Items
<1>4. ASSUME NEW pos \in Positions, NEW k \in n..m
      PROVE  LeavesAt(events', pos, k, moved[pos])
  <2>1. k \in Nat /\ n <= k /\ moved[pos] \in Nat
    BY <1>1
  <2>2. \A i \in n + 1..k : events'[i].pos = pos => events'[i].at = moved[pos] /\ events'[i].dx = 0
    BY <1>1, <1>3
  <2>3. LeavesAt(events, pos, n, moved[pos])
    BY <1>2
  <2> HIDE DEF LeavesAt
  <2> QED
    BY <1>1, <2>1, <2>2, <2>3, LeavesBehind
<1>5. ASSUME NEW i \in 1..m
      PROVE  LeavesAt(events', events'[i].pos, i - 1, events'[i].at)
  <2>1. CASE i \in 1..n
    <3>1. /\ \A j \in 1..i - 1 : events'[j] = events[j]
          /\ events'[i] = events[i]
      BY <1>1, <2>1
    <3>2. LeavesAt(events, events[i].pos, i - 1, events[i].at)
      BY <1>2, <2>1
    <3> HIDE DEF LeavesAt
    <3> QED
      BY <3>1, <3>2, LeavesSame
  <2>2. CASE i \in n + 1..m
    <3>1. i - 1 \in n..m
      BY <1>1, <2>2
    <3>2. events'[i].pos \in Positions /\ events'[i].at = moved[events'[i].pos]
      BY <1>3, <2>2
    <3> HIDE DEF LeavesAt
    <3> QED
      BY <1>4, <3>1, <3>2
  <2> QED
    BY <1>1, <2>1, <2>2
<1>6. m \in n..m
  BY <1>1
<1> HIDE DEF LeavesAt
<1> QED
  BY <1>1, <1>4, <1>5, <1>6 DEF Lands, m

LEMMA OneLands ==
  ASSUME EventsInv, UNCHANGED moved, NEW item, Keepable(item), events' = events \o <<item>>,
         Lands(events, moved)
  PROVE  Lands(events', moved')
<1>1. events \in Seq(Items) /\ <<item>> \in Seq(Items) /\ Len(<<item>>) = 1
  BY DEF EventsInv, ItemsOK, Keepable
<1> HIDE DEF Keepable, Items
<1>2. \A i \in 1..Len(<<item>>) : Keepable(<<item>>[i])
  BY <1>1
<1>3. KeptBehind
  BY <1>1, <1>2, KeepStandsBehind
<1> QED
  BY <1>3, KeepLands

\* Motion with none of its edge in the run at the tail.
LEMMA NewMotionLands ==
  ASSUME EventsInv, NEW p \in Positions, moved' = [moved EXCEPT ![p] = @ + 1],
         events' = Append(events, Motion(p)), Lands(events, moved)
  PROVE  Lands(events', moved')
<1> DEFINE n == Len(events)
           new == Motion(p)
<1>0. moved \in [Positions -> Nat]
  BY DEF EventsInv
<1>1. /\ new \in Items /\ new.dx = 1 /\ new.pos = p /\ new.at = moved[p] /\ moved[p] \in Nat
  BY <1>0 DEF Motion, Item, Items, Kinds
<1>2. /\ n \in Nat /\ Len(events') = n + 1 /\ events'[n + 1] = new
      /\ \A i \in 1..n : events'[i] = events[i]
  <2> HIDE DEF Items, new
  <2>1. events \in Seq(Items)
    BY DEF EventsInv, ItemsOK
  <2> QED
    BY <1>1, <2>1, AppendProperties, LenProperties DEF new
<1>3. /\ \A i \in 1..n : LeavesAt(events, events[i].pos, i - 1, events[i].at)
      /\ \A pos \in Positions : LeavesAt(events, pos, n, moved[pos])
  BY DEF Lands
<1> HIDE DEF n, new, LeavesAt
<1>4. ASSUME NEW pos \in Positions
      PROVE  LeavesAt(events', pos, n + 1, moved'[pos])
  <2>1. /\ moved[pos] \in Nat /\ LeavesAt(events, pos, n, moved[pos])
        /\ events'[n + 1].at \in Nat /\ events'[n + 1].dx \in Nat
        /\ events'[n + 1].pos = pos => events'[n + 1].at = moved[pos]
    BY <1>0, <1>1, <1>2, <1>3
  <2>2. LeavesAt(events', pos, n + 1,
                 IF events'[n + 1].pos = pos THEN moved[pos] + events'[n + 1].dx ELSE moved[pos])
    BY <1>2, <2>1, LeavesMoved
  <2>3. moved'[pos] = IF events'[n + 1].pos = pos THEN moved[pos] + events'[n + 1].dx
                      ELSE moved[pos]
    BY <1>0, <1>1, <1>2
  <2> QED
    BY <2>2, <2>3
<1>5. ASSUME NEW i \in 1..n + 1
      PROVE  LeavesAt(events', events'[i].pos, i - 1, events'[i].at)
  <2>1. \A j \in 1..i - 1 : events'[j] = events[j]
    BY <1>2
  <2>2. LeavesAt(events, events'[i].pos, i - 1, events'[i].at)
    <3>1. CASE i \in 1..n
      BY <1>2, <1>3, <3>1
    <3>2. CASE i = n + 1
      <4>1. i - 1 = n /\ events'[i].pos = p /\ events'[i].at = moved[p]
        BY <1>1, <1>2, <3>2
      <4> QED
        BY <1>3, <4>1
    <3> QED
      BY <1>2, <3>1, <3>2
  <2> QED
    BY <2>1, <2>2, LeavesSame
<1> QED
  BY <1>2, <1>4, <1>5 DEF Lands

\* Motion merged: the item it is merged into is the last of its edge.
LEMMA MergeLands ==
  ASSUME EventsInv, NEW p \in Positions, moved' = [moved EXCEPT ![p] = @ + 1],
         Merged(p), TailMotion(p) # {}, Lands(events, moved)
  PROVE  Lands(events', moved')
<1> DEFINE n == Len(events)
<1>0. moved \in [Positions -> Nat] /\ DOMAIN events = 1..n
  BY LenProperties DEF EventsInv, ItemsOK
<1>1. /\ Len(events') = n /\ n \in Nat
      /\ \A i \in 1..n :
           /\ events[i] \in Items
           /\ events'[i].pos = events[i].pos /\ events'[i].at = events[i].at
           /\ events'[i].dx = IF i \in TailMotion(p) THEN events[i].dx + 1 ELSE events[i].dx
  BY DEF Merged
<1>2. /\ \A i \in 1..n : LeavesAt(events, events[i].pos, i - 1, events[i].at)
      /\ \A pos \in Positions : LeavesAt(events, pos, n, moved[pos])
  BY DEF Lands
<1>3. PICK t \in TailMotion(p) : TRUE
  OBVIOUS
<1>4. \A i \in TailMotion(p) : /\ i \in 1..n /\ events[i].pos = p
                               /\ \A j \in 1..n : i < j => events[j].pos # p
  <2>1. \A i \in TailMotion(p) : i \in 1..n /\ events[i].pos = p
    BY <1>0 DEF TailMotion
  <2> QED
    BY <2>1, MergedIsLast
<1>5. \A i \in 1..n : events[i].at \in Nat /\ events[i].dx \in Nat
  BY <1>1 DEF Items
<1> HIDE DEF n
<1>6. ASSUME NEW i \in 1..n
      PROVE  LeavesAt(events', events'[i].pos, i - 1, events'[i].at)
  <2> DEFINE pos == events[i].pos
  <2>1. LeavesAt(events, pos, i - 1, events[i].at)
    BY <1>2
  <2>2. \A j \in 1..i - 1 : /\ j \in 1..n /\ j < i /\ events'[j].pos = events[j].pos
                            /\ events'[j].at = events[j].at
                            /\ events[j].pos = pos => events'[j].dx = events[j].dx
    BY <1>1, <1>4
  <2>3. events'[i].pos = pos /\ events'[i].at = events[i].at
    BY <1>1
  <2>4. \A j \in 1..i - 1 : \A k \in j + 1..i - 1 : k \in 1..i - 1
    BY <1>1
  <2> HIDE DEF pos
  <2>5. LeavesAt(events', pos, i - 1, events[i].at)
    BY <2>1, <2>2, <2>4 DEF LeavesAt
  <2> QED
    BY <2>3, <2>5
<1>7. ASSUME NEW pos \in Positions
      PROVE  LeavesAt(events', pos, n, moved'[pos])
  <2>1. LeavesAt(events, pos, n, moved[pos]) /\ moved[pos] \in Nat
    BY <1>0, <1>2
  <2>2. \A j \in 1..n : \A k \in j + 1..n : k \in 1..n /\ j < k
    BY <1>1
  <2>3. CASE pos # p
    <3>1. moved'[pos] = moved[pos]
      BY <1>0, <2>3
    <3>2. \A j \in 1..n : events[j].pos = pos => events'[j].dx = events[j].dx
      BY <1>1, <1>4, <2>3
    <3> QED
      BY <1>1, <2>1, <2>2, <3>1, <3>2 DEF LeavesAt
  <2>4. CASE pos = p
    <3>1. moved'[pos] = moved[pos] + 1
      BY <1>0, <2>4
    <3>2. ~\A i \in 1..n : events'[i].pos # pos
      BY <1>1, <1>3, <1>4, <2>4
    <3>3. ASSUME NEW i \in 1..n, events'[i].pos = pos, \A j \in i + 1..n : events'[j].pos # pos
          PROVE  moved'[pos] = events'[i].at + events'[i].dx
      <4>1. i = t
        <5>1. t \in 1..n /\ events[t].pos = p /\ ~(t < i)
          BY <1>1, <1>4, <2>4, <3>3
        <5>2. ~(i < t)
          <6>1. i < t => t \in i + 1..n
            BY <1>1, <5>1
          <6> QED
            BY <1>1, <2>4, <3>3, <5>1, <6>1
        <5> QED
          BY <1>1, <5>1, <5>2
      <4>2. events[i].pos = pos /\ \A j \in i + 1..n : events[j].pos # pos
        BY <1>1, <2>2, <3>3
      <4>3. moved[pos] = events[i].at + events[i].dx
        BY <2>1, <4>2 DEF LeavesAt
      <4>4. events'[i].at = events[i].at /\ events'[i].dx = events[i].dx + 1
        BY <1>1, <1>3, <4>1
      <4> QED
        BY <1>5, <3>1, <4>3, <4>4
    <3> QED
      BY <3>2, <3>3 DEF LeavesAt
  <2> QED
    BY <2>3, <2>4
<1> HIDE DEF LeavesAt
<1> QED
  BY <1>1, <1>6, <1>7 DEF Lands

\* An item taken: nothing was to move its pointer before it.
LEMMA PopLands ==
  ASSUME EventsInv, MovedUp, Receive(Head(events)), Lands(events, moved)
  PROVE  Lands(events', moved')
<1> DEFINE n == Len(events)
           h == events[1]
<1>0. moved \in [Positions -> Nat]
  BY DEF EventsInv
<1>1. /\ n \in Nat \ {0} /\ Len(events') = n - 1 /\ Head(events) = h /\ h \in Items
      /\ \A i \in 1..n - 1 :
           /\ events[i + 1] \in Items
           /\ events'[i] = IF events[i + 1].pos = h.pos
                           THEN [events[i + 1] EXCEPT !.at = @ - h.dx]
                           ELSE events[i + 1]
  BY DEF MovedUp
<1>2. /\ \A i \in 1..n : LeavesAt(events, events[i].pos, i - 1, events[i].at)
      /\ \A pos \in Positions : LeavesAt(events, pos, n, moved[pos])
  BY DEF Lands
<1>3. moved' = [moved EXCEPT ![h.pos] = @ - h.dx]
  BY <1>1 DEF Receive
<1>4. \A i \in 1..n : /\ events[i].at \in Nat /\ events[i].dx \in Nat
                      /\ events[i].pos \in Positions
  <2>1. \A i \in 1..n : events[i] \in Items
    BY ElementOfSeq DEF EventsInv, ItemsOK
  <2> QED
    BY <2>1 DEF Items
<1> HIDE DEF n
<1>5. h.at = 0 /\ 1 \in 1..n
  <2>1. 1 \in 1..n
    BY <1>1
  <2>2. LeavesAt(events, h.pos, 1 - 1, h.at)
    BY <1>2, <2>1
  <2> QED
    BY <2>1, <2>2 DEF LeavesAt
<1>6. ASSUME NEW i \in 1..n - 1
      PROVE  /\ events'[i].pos = events[i + 1].pos /\ events'[i].dx = events[i + 1].dx
             /\ events'[i].at = IF events[i + 1].pos = h.pos THEN events[i + 1].at - h.dx
                                ELSE events[i + 1].at
  <2>1. /\ events[i + 1] \in Items
        /\ events'[i] = IF events[i + 1].pos = h.pos
                        THEN [events[i + 1] EXCEPT !.at = @ - h.dx]
                        ELSE events[i + 1]
    BY <1>1
  <2> QED
    BY <2>1 DEF Items
<1>7. ASSUME NEW k \in 1..n, NEW pos, NEW x \in Nat, LeavesAt(events, pos, k, x)
      PROVE  LeavesAt(events', pos, k - 1, IF pos = h.pos THEN x - h.dx ELSE x)
  <2>1. /\ k \in Nat \ {0}
        /\ \A i \in 1..k : i \in 1..n
        /\ \A i \in 1..k - 1 : i \in 1..n - 1
    BY <1>1
  <2>2. \A i \in 1..k : events[i].at \in Nat /\ events[i].dx \in Nat
    BY <1>4, <2>1
  <2>3. \A i \in 1..k - 1 :
          /\ events'[i].pos = events[i + 1].pos /\ events'[i].dx = events[i + 1].dx
          /\ events'[i].at = IF events[i + 1].pos = events[1].pos
                             THEN events[i + 1].at - events[1].dx
                             ELSE events[i + 1].at
    BY <1>6, <2>1
  <2> HIDE DEF LeavesAt
  <2> QED
    BY <1>5, <1>7, <2>1, <2>2, <2>3, LeavesUp
<1>8. ASSUME NEW i \in 1..n - 1
      PROVE  LeavesAt(events', events'[i].pos, i - 1, events'[i].at)
  <2>1. i + 1 \in 1..n /\ i \in 1..n /\ (i + 1) - 1 = i
    BY <1>1
  <2>2. /\ LeavesAt(events, events[i + 1].pos, (i + 1) - 1, events[i + 1].at)
        /\ events[i + 1].at \in Nat
    BY <1>2, <1>4, <2>1
  <2> HIDE DEF LeavesAt, h
  <2>3. LeavesAt(events', events[i + 1].pos, i - 1,
                 IF events[i + 1].pos = h.pos THEN events[i + 1].at - h.dx ELSE events[i + 1].at)
    BY <1>7, <2>1, <2>2
  <2> QED
    BY <1>6, <2>3
<1>9. ASSUME NEW pos \in Positions
      PROVE  LeavesAt(events', pos, n - 1, moved'[pos])
  <2>1. n \in 1..n /\ moved[pos] \in Nat /\ LeavesAt(events, pos, n, moved[pos])
    BY <1>0, <1>1, <1>2
  <2>2. moved'[pos] = IF pos = h.pos THEN moved[pos] - h.dx ELSE moved[pos]
    BY <1>0, <1>3
  <2> HIDE DEF LeavesAt, h
  <2>3. LeavesAt(events', pos, n - 1, IF pos = h.pos THEN moved[pos] - h.dx ELSE moved[pos])
    BY <1>7, <2>1
  <2> QED
    BY <2>2, <2>3
<1> HIDE DEF LeavesAt
<1> QED
  BY <1>1, <1>8, <1>9 DEF Lands

\* A press or a scroll, and everything let go of when it overflows.
LEMMA KeptLands ==
  ASSUME EventsInv, HeldInv, "receiver" \notin gone, UNCHANGED <<moved, gone, peer>>,
         NEW item, Keepable(item), NEW nowHeld, PushKept(item, nowHeld), Lands(events, moved)
  PROVE  Lands(events', moved')
<1>1. CASE UNCHANGED queueVars
  BY <1>1 DEF queueVars
<1>2. CASE Overflow
  BY <1>2, OverflowStep, KeepLands
<1>3. CASE Keep(<<item>>)
  BY <1>3, OneLands DEF Keep
<1> QED
  BY <1>1, <1>2, <1>3 DEF PushKept

\* A push while the receiver is there.
LEMMA PushLands ==
  ASSUME EventsInv, HeldInv, "receiver" \notin gone, UNCHANGED gone, Lands(events, moved),
         \/ \E pos \in Positions : PushMotion(pos) \/ PushBegin(pos) \/ PushOther(pos)
         \/ \E t \in Things : PushPress(t) \/ PushRelease(t)
  PROVE  Lands(events', moved')
<1>0. moved \in [Positions -> Nat] /\ events \in Seq(Items)
  BY DEF EventsInv, ItemsOK
<1> HIDE DEF Keepable, Items
<1>1. ASSUME NEW pos \in Positions, PushMotion(pos)
      PROVE  Lands(events', moved')
  <2>0. moved' = [moved EXCEPT ![pos] = @ + 1]
    BY <1>1 DEF PushMotion
  <2>1. CASE TailMotion(pos) = {}
    <3>1. events' = Append(events, Motion(pos))
      BY <1>1, <2>1 DEF PushMotion
    <3> QED
      BY <2>0, <3>1, NewMotionLands
  <2>2. CASE TailMotion(pos) # {}
    <3>1. events' = [i \in DOMAIN events |->
                       IF i \in TailMotion(pos) THEN [events[i] EXCEPT !.dx = @ + 1]
                       ELSE events[i]]
      BY <1>1, <2>2 DEF PushMotion
    <3>2. Merged(pos)
      BY <1>0, <3>1, MergePlaces
    <3> QED
      BY <2>0, <2>2, <3>2, MergeLands
  <2> QED
    BY <2>1, <2>2
<1>2. ASSUME NEW pos \in Positions, PushBegin(pos)
      PROVE  Lands(events', moved')
  <2>1. events' = events \o <<Begin(pos)>> /\ UNCHANGED moved
    BY <1>2 DEF PushBegin, Keep, histVars
  <2>2. Keepable(Begin(pos))
    BY <1>0, MadeItems
  <2> HIDE DEF Begin
  <2> QED
    BY <2>1, <2>2, OneLands
<1>3. ASSUME NEW pos \in Positions, PushOther(pos)
      PROVE  Lands(events', moved')
  <2>1. PushKept(Other(pos), held) /\ UNCHANGED <<moved, peer>>
    BY <1>3 DEF PushOther, histVars
  <2>2. Keepable(Other(pos))
    BY <1>0, MadeItems
  <2> HIDE DEF Other
  <2> QED
    BY <2>1, <2>2, KeptLands
<1>4. ASSUME NEW t \in Things, PushPress(t)
      PROVE  Lands(events', moved')
  <2>1. /\ PushKept(Press(t), IF t \in Range(held) THEN held ELSE Append(held, t))
        /\ UNCHANGED <<moved, peer>>
    BY <1>4 DEF PushPress
  <2>2. Keepable(Press(t))
    BY <1>0, MadeItems
  <2> HIDE DEF Press
  <2> QED
    BY <2>1, <2>2, KeptLands
<1>5. ASSUME NEW t \in Things, PushRelease(t)
      PROVE  Lands(events', moved')
  <2>1. (events' = events \o <<Release(t)>> \/ UNCHANGED events) /\ UNCHANGED moved
    BY <1>5 DEF PushRelease, Keep
  <2>2. Keepable(Release(t))
    BY <1>0, MadeItems
  <2> HIDE DEF Release
  <2>3. CASE UNCHANGED events
    BY <2>1, <2>3
  <2>4. CASE events' = events \o <<Release(t)>>
    BY <2>1, <2>2, <2>4, OneLands
  <2> QED
    BY <2>1, <2>3, <2>4
<1> QED
  BY <1>1, <1>2, <1>3, <1>4, <1>5

\* Every step leaves each item where it was made.
LEMMA LandsStep ==
  ASSUME EventsInv, HeldInv, LandsInv, [Next]_vars
  PROVE  LandsInv'
<1>1. ASSUME UNCHANGED <<events, moved>>, ("receiver" \in gone') <=> ("receiver" \in gone)
      PROVE  LandsInv'
  BY <1>1 DEF LandsInv
<1>2. CASE Push
  <2>1. CASE PushDiscarded
    BY <1>1, <1>2, <2>1 DEF Push, PushDiscarded, queueVars
  <2>2. CASE ~PushDiscarded
    <3>1. /\ "receiver" \notin gone /\ UNCHANGED gone
          /\ \/ \E pos \in Positions : PushMotion(pos) \/ PushBegin(pos) \/ PushOther(pos)
             \/ \E t \in Things : PushPress(t) \/ PushRelease(t)
      BY <1>2, <2>2 DEF Push
    <3>2. Lands(events', moved')
      BY <3>1, PushLands DEF LandsInv
    <3> QED
      BY <3>1, <3>2 DEF LandsInv
  <2> QED
    BY <2>1, <2>2
<1>3. CASE DropSender
  BY <1>1, <1>3 DEF DropSender, queueVars, histVars
<1>4. CASE Wake
  BY <1>1, <1>4 DEF Wake, queueVars, histVars
<1>5. CASE PollRecv
  <2>0. "receiver" \notin gone /\ UNCHANGED gone
    BY <1>5 DEF PollRecv
  <2>1. CASE events # <<>>
    <3>1. Pop /\ Receive(Head(events))
      BY <1>5, <2>1 DEF PollRecv
    <3>2. MovedUp
      BY <2>0, <2>1, <3>1, PopStep
    <3>3. Lands(events', moved')
      BY <2>0, <3>1, <3>2, PopLands DEF LandsInv
    <3> QED
      BY <2>0, <3>3 DEF LandsInv
  <2>2. CASE events = <<>>
    BY <1>1, <1>5, <2>2 DEF PollRecv, queueVars, histVars
  <2> QED
    BY <2>1, <2>2
<1>6. CASE DropReceiver
  <2>1. "receiver" \in gone' /\ events' = <<>>
    BY <1>6 DEF DropReceiver
  <2> QED
    BY <2>1 DEF LandsInv
<1>7. CASE UNCHANGED vars
  BY <1>1, <1>7 DEF vars, queueVars, histVars
<1> QED
  BY <1>2, <1>3, <1>4, <1>5, <1>6, <1>7 DEF Next

\* A click lands where it was made, for every set of edges and every capacity:
\* what is taken before it moves the pointer of its edge exactly as far as it
\* had moved then, however motion was merged, and no motion is lost while the
\* queue refuses (State::push, State::overflow, State::pop).
THEOREM ClicksLand == Spec => []ClicksLandWhereMade
<1> DEFINE Inv == EventsInv /\ HeldInv /\ LandsInv
<1>1. Init => Inv
  <2> SUFFICES ASSUME Init
               PROVE  LandsInv
    BY QueueInit
  <2>1. /\ Len(events) = 0 /\ gone = {}
        /\ \A pos \in Positions : moved[pos] = 0
    BY DEF Init
  <2> QED
    BY <2>1 DEF LandsInv, Lands, LeavesAt
<1>2. Inv /\ [Next]_vars => Inv'
  BY QueueStep, LandsStep
<1>3. Inv => ClicksLandWhereMade
  <2> SUFFICES ASSUME EventsInv, LandsInv
               PROVE  ClicksLandWhereMade
    OBVIOUS
  <2>1. DOMAIN events = 1..Len(events)
    BY LenProperties DEF EventsInv, ItemsOK
  <2>2. CASE "receiver" \notin gone
    BY <2>1, <2>2 DEF LandsInv, Lands, ClicksLandWhereMade
  <2>3. CASE "receiver" \in gone
    BY <2>1, <2>3 DEF LandsInv, ClicksLandWhereMade
  <2> QED
    BY <2>2, <2>3
<1> QED
  BY <1>1, <1>2, <1>3, PTL DEF Spec
====
