---- MODULE EmulationProofs ----
(***************************************************************************)
(* Proofs about Emulation: what the peers hold down is what the system     *)
(* holds, no peer starves in the queues, no peer's click widens trust, and *)
(* what a peer held is let go of with its session.                         *)
(***************************************************************************)
EXTENDS Emulation, TLAPS

----------------------------------------------------------------------------
(* What is sent between the tasks *)

\* What may be queued for the peer p: its inputs, and that it is removed.
ItemOf(p) ==
  {r \in [kind : {"move", "down", "up", "remove"}, peer : {p}, key : Keys \cup {"none"}] :
     /\ r.kind \in {"down", "up"} => r.key \in Keys
     /\ r.kind = "remove" => r.key = "none"}

Request == {Reenable, StopForMissing} \cup UNION {ItemOf(p) : p \in Peers}

\* An item names its peer, and one that removes it is RemoveOf.
LEMMA ItemFacts ==
  ASSUME NEW p, NEW r \in ItemOf(p)
  PROVE  /\ r.peer = p
         /\ r.kind \in {"move", "down", "up", "remove"}
         /\ r.kind \in {"down", "up"} => r.key \in Keys
         /\ r.kind = "remove" <=> r = RemoveOf(p)
BY DEF ItemOf, RemoveOf

LEMMA RemoveIsItem ==
  ASSUME NEW p
  PROVE  RemoveOf(p) \in ItemOf(p) /\ RemoveOf(p).kind = "remove"
BY DEF ItemOf, RemoveOf

LEMMA InputIsItem ==
  ASSUME NEW p \in Peers, NEW r \in InputsOf(p)
  PROVE  r \in ItemOf(p) /\ r.kind # "remove"
BY EmulationAssumption DEF InputsOf, Input, ItemOf, EmulationAssumption

LEMMA RequestFacts ==
  /\ \A p \in Peers : ItemOf(p) \subseteq Request
  /\ Reenable \in Request /\ StopForMissing \in Request
  /\ \A r \in Request : r.kind \notin {"stop", "reenable"} =>
       r.peer \in Peers /\ r \in ItemOf(r.peer)
  /\ \A r \in Request, p \in Peers : r = RemoveOf(p) => r.kind = "remove" /\ r.peer = p
BY DEF Request, Reenable, StopForMissing, ItemOf, RemoveOf

----------------------------------------------------------------------------
(* What the backend holds *)

\* The system's device for what p holds, the backend being of the kind sc.
DeviceOf(sc, p) == IF sc = "machine" THEN "machine" ELSE p

\* The system holds in o what the books pr say.
Recorded(sc, pr, o) ==
  \A e : e \in o <=> \E p \in Peers : \E k \in pr[p] : e = <<DeviceOf(sc, p), k>>

AllRecorded(sc, pr) ==
  {<<DeviceOf(sc, x[1]), x[2]>> : x \in {y \in Peers \X Keys : y[2] \in pr[y[1]]}}

LEMMA RecordedIs ==
  ASSUME NEW sc, NEW pr \in [Peers -> SUBSET Keys], NEW o
  PROVE  (o = AllRecorded(sc, pr)) <=> Recorded(sc, pr, o)
<1> DEFINE all == {<<DeviceOf(sc, x[1]), x[2]>> :
                     x \in {y \in Peers \X Keys : y[2] \in pr[y[1]]}}
<1>1. ASSUME NEW e
      PROVE  e \in all <=> \E p \in Peers : \E k \in pr[p] : e = <<DeviceOf(sc, p), k>>
  <2>1. ASSUME e \in all
        PROVE  \E p \in Peers : \E k \in pr[p] : e = <<DeviceOf(sc, p), k>>
    <3>1. PICK x \in Peers \X Keys : x[2] \in pr[x[1]] /\ e = <<DeviceOf(sc, x[1]), x[2]>>
      BY <2>1
    <3>2. x[1] \in Peers
      BY <3>1
    <3> QED BY <3>1, <3>2
  <2>2. ASSUME NEW p \in Peers, NEW k \in pr[p], e = <<DeviceOf(sc, p), k>>
        PROVE  e \in all
    <3>1. <<p, k>> \in {y \in Peers \X Keys : y[2] \in pr[y[1]]}
      OBVIOUS
    <3> QED BY <2>2, <3>1
  <2> QED BY <2>1, <2>2
<1> HIDE DEF all
<1>2. (o = all) <=> \A e : e \in o <=> e \in all
  OBVIOUS
<1>3. (o = all) <=> Recorded(sc, pr, o)
  BY <1>1, <1>2, Zenon DEF Recorded
<1> QED BY <1>3 DEF all, AllRecorded

LEMMA DownIsRecorded ==
  ASSUME NEW sc, NEW pr \in [Peers -> SUBSET Keys], NEW o, Recorded(sc, pr, o),
         NEW p \in Peers, NEW k \in Keys
  PROVE  Recorded(sc, [pr EXCEPT ![p] = @ \cup {k}], o \cup {<<DeviceOf(sc, p), k>>})
<1> DEFINE new == [pr EXCEPT ![p] = @ \cup {k}]
<1>1. new[p] = pr[p] \cup {k} /\ \A q \in Peers : q # p => new[q] = pr[q]
  OBVIOUS
<1> HIDE DEF new
<1>2. Recorded(sc, new, o \cup {<<DeviceOf(sc, p), k>>})
  BY <1>1 DEF Recorded
<1> QED BY <1>2 DEF new

\* An up on the one shared device is everyone's.
LEMMA SharedUpIsRecorded ==
  ASSUME NEW pr \in [Peers -> SUBSET Keys], NEW o, Recorded("machine", pr, o), NEW k
  PROVE  Recorded("machine", [q \in Peers |-> pr[q] \ {k}], o \ {<<"machine", k>>})
BY DEF Recorded, DeviceOf

\* An up on a device of one's own is one's own.
LEMMA OwnUpIsRecorded ==
  ASSUME NEW pr \in [Peers -> SUBSET Keys], NEW o, Recorded("handle", pr, o),
         NEW p \in Peers, NEW k
  PROVE  Recorded("handle", [pr EXCEPT ![p] = @ \ {k}], o \ {<<p, k>>})
<1> DEFINE new == [pr EXCEPT ![p] = @ \ {k}]
<1>1. new[p] = pr[p] \ {k} /\ \A q \in Peers : q # p => new[q] = pr[q]
  OBVIOUS
<1> HIDE DEF new
<1>2. Recorded("handle", new, o \ {<<p, k>>})
  BY <1>1 DEF Recorded, DeviceOf
<1> QED BY <1>2 DEF new

\* What letting go of p takes up at the system.
GoneWith(sc, pr, p) ==
  {<<DeviceOf(sc, p), key>> :
     key \in {k \in pr[p] : sc = "machine" => {q \in Peers : k \in pr[q]} \subseteq {p}}}

\* Letting go of p takes up what nobody else holds on the same device.
LEMMA LetGoIsRecorded ==
  ASSUME NEW sc, NEW pr \in [Peers -> SUBSET Keys], NEW o, Recorded(sc, pr, o),
         NEW p \in Peers
  PROVE  Recorded(sc, [pr EXCEPT ![p] = {}], o \ GoneWith(sc, pr, p))
<1> DEFINE new == [pr EXCEPT ![p] = {}]
           gone == GoneWith(sc, pr, p)
<1>1. new[p] = {} /\ \A q \in Peers : q # p => new[q] = pr[q]
  OBVIOUS
<1>2. \A e : e \in gone <=> \E k \in pr[p] :
                /\ sc = "machine" => {q \in Peers : k \in pr[q]} \subseteq {p}
                /\ e = <<DeviceOf(sc, p), k>>
  BY DEF GoneWith
<1> HIDE DEF new, gone
<1>3. CASE sc = "machine"
  <2>1. ASSUME NEW e
        PROVE  e \in o \ gone <=> \E q \in Peers : \E k \in new[q] : e = <<DeviceOf(sc, q), k>>
    BY <1>1, <1>2, <1>3 DEF Recorded, DeviceOf
  <2> QED BY <2>1 DEF Recorded, new, gone
<1>4. CASE sc # "machine"
  <2>1. ASSUME NEW e
        PROVE  e \in o \ gone <=> \E q \in Peers : \E k \in new[q] : e = <<DeviceOf(sc, q), k>>
    BY <1>1, <1>2, <1>4 DEF Recorded, DeviceOf
  <2> QED BY <2>1 DEF Recorded, new, gone
<1> QED BY <1>3, <1>4

----------------------------------------------------------------------------
(* The order of turns *)

\* No peer has two turns.
Once(t) == \A i, j \in DOMAIN t : i # j => t[i] # t[j]

LEMMA TurnAppended ==
  ASSUME NEW t \in Seq(Peers), NEW p \in Peers
  PROVE  /\ Append(t, p) \in Seq(Peers)
         /\ Range(Append(t, p)) = Range(t) \cup {p}
         /\ Once(t) /\ p \notin Range(t) => Once(Append(t, p))
<1>1. Append(t, p) \in Seq(Peers) /\ DOMAIN Append(t, p) = DOMAIN t \cup {Len(t) + 1}
      /\ \A i \in DOMAIN t : Append(t, p)[i] = t[i] /\ i # Len(t) + 1
  OBVIOUS
<1>2. Append(t, p)[Len(t) + 1] = p
  OBVIOUS
<1>3. Range(Append(t, p)) = Range(t) \cup {p}
  BY <1>1, <1>2 DEF Range
<1>4. ASSUME Once(t), p \notin Range(t)
      PROVE  Once(Append(t, p))
  BY <1>1, <1>2, <1>4 DEF Once, Range
<1> QED BY <1>1, <1>3, <1>4

LEMMA TurnTaken ==
  ASSUME NEW t \in Seq(Peers), t # <<>>, Once(t)
  PROVE  /\ Head(t) \in Peers /\ Head(t) \in Range(t)
         /\ Tail(t) \in Seq(Peers) /\ Once(Tail(t))
         /\ Range(Tail(t)) = Range(t) \ {Head(t)}
<1>1. Head(t) = t[1] /\ 1 \in DOMAIN t /\ Head(t) \in Peers /\ Tail(t) \in Seq(Peers)
  OBVIOUS
<1>2. \A i \in DOMAIN Tail(t) : i + 1 \in DOMAIN t /\ i + 1 # 1 /\ Tail(t)[i] = t[i + 1]
  OBVIOUS
<1>3. \A j \in DOMAIN t : j # 1 => j - 1 \in DOMAIN Tail(t) /\ Tail(t)[j - 1] = t[j]
  OBVIOUS
<1>4. Once(Tail(t))
  <2>1. \A i, j \in DOMAIN Tail(t) : i # j => i + 1 # j + 1
    OBVIOUS
  <2> QED BY <1>2, <2>1 DEF Once
<1>5. ASSUME NEW x
      PROVE  x \in Range(Tail(t)) <=> x \in Range(t) \ {Head(t)}
  <2>1. ASSUME x \in Range(Tail(t))
        PROVE  x \in Range(t) \ {Head(t)}
    BY <1>1, <1>2, <2>1 DEF Range, Once
  <2>2. ASSUME x \in Range(t), x # Head(t)
        PROVE  x \in Range(Tail(t))
    BY <1>1, <1>3, <2>2 DEF Range
  <2> QED BY <2>1, <2>2
<1> QED BY <1>1, <1>4, <1>5 DEF Range

----------------------------------------------------------------------------
(* No peer starves *)

Sessions == {"off", "starting", "creating", "on", "ending"}

ListenTypes ==
  /\ links \in [Peers -> Nat] /\ readers \in [Peers -> Nat]
  /\ notices \in Seq({"accept", "closed"} \X Peers)
  /\ peerOf \subseteq Peers /\ driving \subseteq Peers
  /\ requests \in Seq(Request)

QueueTypes ==
  /\ session \in Sessions
  /\ queues \in [Peers -> Seq(Request)] /\ \A p \in Peers : queues[p] \in Seq(ItemOf(p))
  /\ turn \in Seq(Peers) /\ pressure \subseteq Peers

\* The peers told to stop have a backlog.
Backlog == \A p \in pressure : Len(queues[p]) >= Limit \div 2 /\ queues[p] # <<>>

\* Only a running session has anything queued.
QueuedWhileOn == session # "on" => \A p \in Peers : queues[p] = <<>>

QueueInv ==
  /\ QueueTypes /\ QueuedWhileOn
  /\ Once(turn) /\ Range(turn) = {p \in Peers : queues[p] # <<>>}
  /\ Backlog

LEMMA QueueInvStates ==
  QueueInv => NoPeerStarves
BY DEF QueueInv, NoPeerStarves, Once, Backlog

LEMMA PushedFacts ==
  ASSUME NEW S, NEW queue \in Seq(S), NEW item \in S
  PROVE  /\ Pushed(queue, item) \in Seq(S) /\ Pushed(queue, item) # <<>>
         /\ Len(Pushed(queue, item)) >= Len(queue)
<1>1. CASE Merges(queue, item)
  BY <1>1 DEF Pushed, Merges
<1>2. CASE ~Merges(queue, item)
  <2>1. Pushed(queue, item) = Append(queue, item)
    BY <1>2 DEF Pushed
  <2>2. Len(Append(queue, item)) = Len(queue) + 1 /\ Append(queue, item) \in Seq(S)
        /\ Append(queue, item) # <<>> /\ Len(queue) \in Nat
    OBVIOUS
  <2> QED BY <2>1, <2>2
<1> QED BY <1>1, <1>2

LEMMA PushKeeps ==
  ASSUME QueueInv, session = "on", session' = "on",
         NEW item \in Request, item.kind \notin {"stop", "reenable"}, Push(item)
  PROVE  QueueInv'
<1> DEFINE p == item.peer
<1>1. p \in Peers /\ item \in ItemOf(p) /\ ItemOf(p) \subseteq Request
  BY RequestFacts
<1>2. queues[p] \in Seq(ItemOf(p))
  BY <1>1 DEF QueueInv, QueueTypes
<1>3. Pushed(queues[p], item) \in Seq(ItemOf(p)) /\ Pushed(queues[p], item) # <<>>
      /\ Len(Pushed(queues[p], item)) >= Len(queues[p])
  BY <1>1, <1>2, PushedFacts
<1>4. /\ queues' \in [Peers -> Seq(Request)]
      /\ queues'[p] = Pushed(queues[p], item)
      /\ \A q \in Peers : q # p => queues'[q] = queues[q]
  BY <1>1, <1>3 DEF Push, QueueInv, QueueTypes
<1>5. \A q \in Peers : queues'[q] \in Seq(ItemOf(q))
  BY <1>3, <1>4 DEF QueueInv, QueueTypes
<1>6. turn' \in Seq(Peers) /\ Once(turn') /\ Range(turn') = {q \in Peers : queues'[q] # <<>>}
  <2>1. CASE queues[p] = <<>>
    <3>1. turn' = Append(turn, p) /\ p \notin Range(turn)
      BY <2>1 DEF Push, QueueInv
    <3>2. turn' \in Seq(Peers) /\ Once(turn') /\ Range(turn') = Range(turn) \cup {p}
      BY <1>1, <3>1, TurnAppended DEF QueueInv, QueueTypes
    <3> QED BY <1>1, <1>3, <1>4, <2>1, <3>2 DEF QueueInv
  <2>2. CASE queues[p] # <<>>
    <3>1. turn' = turn
      BY <2>2 DEF Push
    <3> QED BY <1>1, <1>3, <1>4, <2>2, <3>1 DEF QueueInv, QueueTypes
  <2> QED BY <2>1, <2>2
<1>7. pressure' \subseteq Peers /\ pressure' \subseteq pressure \cup {p}
      /\ (p \in pressure' \ pressure => Len(queues'[p]) >= Limit)
  BY <1>1 DEF Push, QueueInv, QueueTypes
<1>8. Backlog'
  <2>1. ASSUME NEW q \in pressure'
        PROVE  Len(queues'[q]) >= Limit \div 2 /\ queues'[q] # <<>>
    <3>0. Limit \in Nat /\ Limit >= Limit \div 2 /\ Limit \div 2 \in Nat
      BY EmulationAssumption DEF EmulationAssumption
    <3>1. CASE q = p /\ q \notin pressure
      BY <1>3, <1>4, <1>7, <3>0, <3>1
    <3>2. CASE q = p /\ q \in pressure
      <4>1. Len(queues[p]) >= Limit \div 2
        BY <3>2 DEF QueueInv, Backlog
      <4> QED BY <1>2, <1>3, <1>4, <3>0, <3>2, <4>1
    <3>3. CASE q # p
      BY <1>4, <1>7, <3>3 DEF QueueInv, Backlog
    <3> QED BY <3>1, <3>2, <3>3
  <2> QED BY <2>1 DEF Backlog
<1> QED BY <1>4, <1>5, <1>6, <1>7, <1>8 DEF QueueInv, QueueTypes, QueuedWhileOn, Sessions

\* The limit's half, which the room in a queue is compared with.
LEMMA HalfLimit ==
  Limit \in Nat /\ Limit \div 2 \in Nat /\ Limit \div 2 >= 1 /\ Limit >= Limit \div 2
<1>1. Limit \in Nat /\ Limit >= 2
  BY EmulationAssumption DEF EmulationAssumption
<1> QED BY <1>1

LEMMA LengthOfNone ==
  ASSUME NEW S, NEW q \in Seq(S)
  PROVE  q # <<>> <=> Len(q) > 0
OBVIOUS

LEMMA TailFacts ==
  ASSUME NEW S, NEW q \in Seq(S), q # <<>>
  PROVE  /\ Tail(q) \in Seq(S) /\ Len(Tail(q)) = Len(q) - 1
         /\ Len(q) \in Nat /\ Len(q) >= 1
         /\ (Tail(q) # <<>> <=> Len(q) > 1)
         /\ Head(q) \in S /\ Head(q) = q[1]
         /\ \A i \in DOMAIN Tail(q) : i + 1 \in DOMAIN q /\ Tail(q)[i] = q[i + 1]
         /\ \A i \in DOMAIN q : i > 1 => i - 1 \in DOMAIN Tail(q) /\ Tail(q)[i - 1] = q[i]
<1>1. /\ Tail(q) \in Seq(S) /\ Len(Tail(q)) = Len(q) - 1
      /\ Len(q) \in Nat /\ Len(q) >= 1
  OBVIOUS
<1>2. Tail(q) # <<>> <=> Len(Tail(q)) > 0
  BY <1>1, LengthOfNone
<1>3. /\ Head(q) \in S /\ Head(q) = q[1]
      /\ \A i \in DOMAIN Tail(q) : i + 1 \in DOMAIN q /\ Tail(q)[i] = q[i + 1]
      /\ \A i \in DOMAIN q : i > 1 => i - 1 \in DOMAIN Tail(q) /\ Tail(q)[i - 1] = q[i]
  OBVIOUS
<1> QED BY <1>1, <1>2, <1>3

LEMMA PopKeeps ==
  ASSUME QueueInv, session = "on", session' = "on", NEW p \in Peers, Pop(p)
  PROVE  QueueInv'
<1>1. /\ turn # <<>> /\ p = Head(turn)
      /\ queues' = [queues EXCEPT ![p] = Tail(@)]
      /\ turn' = IF Len(queues[p]) > 1 THEN Append(Tail(turn), p) ELSE Tail(turn)
      /\ pressure' = IF Len(queues[p]) - 1 < Limit \div 2 THEN pressure \ {p} ELSE pressure
  BY DEF Pop
<1>2. /\ queues \in [Peers -> Seq(Request)] /\ queues[p] \in Seq(ItemOf(p))
      /\ turn \in Seq(Peers) /\ pressure \subseteq Peers /\ Once(turn)
      /\ Range(turn) = {q \in Peers : queues[q] # <<>>}
  BY DEF QueueInv, QueueTypes
<1>3. /\ p \in Range(turn) /\ Tail(turn) \in Seq(Peers) /\ Once(Tail(turn))
      /\ Range(Tail(turn)) = Range(turn) \ {p}
  BY <1>1, <1>2, TurnTaken
<1>4. queues[p] # <<>>
  BY <1>2, <1>3
<1>5. /\ Tail(queues[p]) \in Seq(ItemOf(p)) /\ Len(Tail(queues[p])) = Len(queues[p]) - 1
      /\ Len(queues[p]) \in Nat /\ Len(queues[p]) >= 1
      /\ (Tail(queues[p]) # <<>> <=> Len(queues[p]) > 1)
  BY <1>2, <1>4, TailFacts
<1>6. Tail(queues[p]) \in Seq(Request)
  BY <1>2, <1>4
<1>7. /\ queues' \in [Peers -> Seq(Request)]
      /\ queues'[p] = Tail(queues[p])
      /\ \A q \in Peers : q # p => queues'[q] = queues[q]
  BY <1>1, <1>2, <1>6
<1>8. \A q \in Peers : queues'[q] \in Seq(ItemOf(q))
  BY <1>5, <1>7 DEF QueueInv, QueueTypes
<1>9. turn' \in Seq(Peers) /\ Once(turn') /\ Range(turn') = {q \in Peers : queues'[q] # <<>>}
  <2>1. CASE Len(queues[p]) > 1
    <3>1. turn' = Append(Tail(turn), p) /\ p \notin Range(Tail(turn))
      BY <1>1, <1>3, <2>1
    <3>2. turn' \in Seq(Peers) /\ Once(turn') /\ Range(turn') = Range(Tail(turn)) \cup {p}
      BY <1>3, <3>1, TurnAppended
    <3> QED BY <1>2, <1>3, <1>5, <1>7, <2>1, <3>2
  <2>2. CASE ~(Len(queues[p]) > 1)
    <3>1. turn' = Tail(turn)
      BY <1>1, <2>2
    <3> QED BY <1>2, <1>3, <1>5, <1>7, <2>2, <3>1
  <2> QED BY <2>1, <2>2
<1>10. Backlog'
  <2>1. ASSUME NEW q \in pressure'
        PROVE  Len(queues'[q]) >= Limit \div 2 /\ queues'[q] # <<>>
    <3>1. CASE q = p
      <4>1. ~(Len(queues[p]) - 1 < Limit \div 2)
        BY <1>1, <2>1, <3>1
      <4>2. Len(queues[p]) - 1 >= Limit \div 2 /\ Len(queues[p]) > 1
        BY <1>5, <4>1, HalfLimit
      <4> QED BY <1>5, <1>7, <3>1, <4>2
    <3>2. CASE q # p
      BY <1>1, <1>2, <1>7, <3>2 DEF QueueInv, Backlog
    <3> QED BY <3>1, <3>2
  <2> QED BY <2>1 DEF Backlog
<1>11. pressure' \subseteq Peers
  BY <1>1, <1>2
<1> QED BY <1>7, <1>8, <1>9, <1>10, <1>11 DEF QueueInv, QueueTypes, QueuedWhileOn, Sessions

LEMMA DropKeeps ==
  ASSUME QueueInv, session = "on", session' = "on", NEW p \in Peers, DropPeer(p)
  PROVE  QueueInv'
<1>1. /\ turn # <<>> /\ p = Head(turn)
      /\ queues' = [queues EXCEPT ![p] = <<>>]
      /\ turn' = Tail(turn)
      /\ pressure' = pressure \ {p}
  BY DEF DropPeer
<1>2. /\ queues \in [Peers -> Seq(Request)]
      /\ turn \in Seq(Peers) /\ pressure \subseteq Peers /\ Once(turn)
      /\ Range(turn) = {q \in Peers : queues[q] # <<>>}
  BY DEF QueueInv, QueueTypes
<1>3. /\ p \in Range(turn) /\ Tail(turn) \in Seq(Peers) /\ Once(Tail(turn))
      /\ Range(Tail(turn)) = Range(turn) \ {p}
  BY <1>1, <1>2, TurnTaken
<1>4. /\ queues' \in [Peers -> Seq(Request)]
      /\ queues'[p] = <<>>
      /\ \A q \in Peers : q # p => queues'[q] = queues[q]
  BY <1>1, <1>2
<1>5. \A q \in Peers : queues'[q] \in Seq(ItemOf(q))
  <2>1. <<>> \in Seq(ItemOf(p))
    OBVIOUS
  <2> QED BY <1>4, <2>1 DEF QueueInv, QueueTypes
<1>6. Range(turn') = {q \in Peers : queues'[q] # <<>>}
  BY <1>1, <1>2, <1>3, <1>4
<1>7. Backlog'
  BY <1>1, <1>2, <1>4 DEF QueueInv, Backlog
<1> QED BY <1>1, <1>2, <1>3, <1>4, <1>5, <1>6, <1>7
        DEF QueueInv, QueueTypes, QueuedWhileOn, Sessions

LEMMA EndKeeps ==
  ASSUME QueueInv, NEW mayRestart, SessionEnds(mayRestart)
  PROVE  QueueInv'
<1>1. pressure' = {}
  BY DEF SessionEnds, QueueInv, QueueTypes, Backlog
<1>2. \A q \in Peers : queues'[q] = <<>>
  BY DEF SessionEnds
<1>3. queues' \in [Peers -> Seq(Request)] /\ \A q \in Peers : queues'[q] \in Seq(ItemOf(q))
  BY DEF SessionEnds
<1>4. turn' \in Seq(Peers) /\ Once(turn') /\ Range(turn') = {}
  BY DEF SessionEnds, Once, Range
<1> QED BY <1>1, <1>2, <1>3, <1>4
        DEF QueueInv, QueueTypes, QueuedWhileOn, Sessions, Backlog, SessionEnds

\* Every step but these leaves the queues and the session.
QueueStep ==
  \/ Sort \/ SystemEnds \/ Terminated \/ WhileOff \/ RestartAfterTheShield
  \/ Start \/ CreateClients \/ \E p \in Peers : Inject(p)

LEMMA OtherStepsLeaveQueues ==
  ASSUME [Next]_vars, ~QueueStep
  PROVE  UNCHANGED <<session, queues, turn, pressure>>
<1>1. CASE UNCHANGED vars
  BY <1>1 DEF vars, queueVars
<1>2. CASE Next
  <2>1. ASSUME NEW p \in Peers,
               Accept(p) \/ LinkEnds(p) \/ TrustChanges(p) \/ Cut(p) \/ Message(p) \/ Reap(p)
        PROVE  UNCHANGED <<session, queues, turn, pressure>>
    BY <2>1 DEF Accept, LinkEnds, TrustChanges, Cut, Message, Reap, queueVars
  <2>2. ASSUME \/ Notice \/ HearSession \/ AskSession \/ WhileStarting
               \/ KeyRepeats \/ WidenTrust \/ QuietPasses
        PROVE  UNCHANGED <<session, queues, turn, pressure>>
    BY <2>2 DEF Notice, HearSession, AskSession, WhileStarting, KeyRepeats, WidenTrust,
                QuietPasses, queueVars
  <2> QED BY <1>2, <2>1, <2>2, Zenon DEF Next, QueueStep
<1> QED BY <1>1, <1>2

LEMMA QueueInvStep ==
  ASSUME QueueInv, requests \in Seq(Request), [Next]_vars
  PROVE  QueueInv'
<1>1. CASE Sort
  <2>1. session = "on" /\ requests # <<>> /\ Head(requests) \in Request
    BY <1>1 DEF Sort
  <2>2. CASE SessionEnds(FALSE)
    BY <2>2, EndKeeps
  <2>3. CASE UNCHANGED <<session, restart, queueVars>>
    BY <2>3 DEF queueVars, QueueInv, QueueTypes, QueuedWhileOn, Backlog
  <2>4. CASE Head(requests).kind \notin {"stop", "reenable"} /\ Push(Head(requests))
             /\ UNCHANGED <<session, restart>>
    BY <2>1, <2>4, PushKeeps
  <2> QED BY <1>1, <2>2, <2>3, <2>4 DEF Sort
<1>2. CASE SystemEnds
  BY <1>2, EndKeeps DEF SystemEnds
<1>3. CASE Terminated \/ WhileOff \/ RestartAfterTheShield \/ Start \/ CreateClients
  <2>1. UNCHANGED <<queues, turn, pressure>> /\ session # "on" /\ session' \in Sessions
    BY <1>3 DEF Terminated, WhileOff, RestartAfterTheShield, Start, CreateClients, queueVars,
                Sessions
  <2> QED BY <2>1 DEF QueueInv, QueueTypes, QueuedWhileOn, Backlog
<1>4. ASSUME NEW p \in Peers, Inject(p)
      PROVE  QueueInv'
  <2>1. session = "on" /\ session' = "on" /\ (Pop(p) \/ DropPeer(p))
    BY <1>4 DEF Inject
  <2> QED BY <2>1, PopKeeps, DropKeeps
<1>5. CASE ~QueueStep
  BY <1>5, OtherStepsLeaveQueues DEF QueueInv, QueueTypes, QueuedWhileOn, Backlog
<1> QED BY <1>1, <1>2, <1>3, <1>4, <1>5, Zenon DEF QueueStep

----------------------------------------------------------------------------
(* What the listening task keeps *)

\* One message more to the injecting task, or none.
SendsOne == requests' = requests \/ \E r \in Request : requests' = Append(requests, r)

LEMMA SendingKeeps ==
  ASSUME ListenTypes, SendsOne
  PROVE  requests' \in Seq(Request)
<1>1. requests \in Seq(Request)
  BY DEF ListenTypes
<1>2. ASSUME NEW r \in Request
      PROVE  Append(requests, r) \in Seq(Request)
  BY <1>1
<1> QED BY <1>1, <1>2 DEF SendsOne

LEMMA MessageSends ==
  ASSUME NEW p \in Peers, Message(p)
  PROVE  SendsOne /\ driving' \subseteq driving \cup {p} /\ UNCHANGED <<links, readers, notices, peerOf>>
<1>1. RemoveOf(p) \in Request /\ \A input \in InputsOf(p) : input \in Request
  BY RemoveIsItem, InputIsItem, RequestFacts
<1>2. CASE OnEnter(p) \/ OnLeave(p)
  BY <1>1, <1>2 DEF OnEnter, OnLeave, Refuse, NoLongerDriving, Send, SendsOne, Message, linkVars
<1>3. ASSUME NEW input \in InputsOf(p), OnInput(p, input)
      PROVE  SendsOne /\ driving' = driving
  BY <1>1, <1>3 DEF OnInput, Refuse, Send, SendsOne
<1> QED BY <1>2, <1>3 DEF Message, linkVars

LEMMA ListenTypesStep ==
  ASSUME ListenTypes, [Next]_vars
  PROVE  ListenTypes'
<1>1. ASSUME NEW p \in Peers, Accept(p) \/ LinkEnds(p) \/ TrustChanges(p) \/ Cut(p)
      PROVE  ListenTypes'
  <2>1. UNCHANGED <<peerOf, driving, requests>>
    BY <1>1 DEF Accept, LinkEnds, TrustChanges, Cut, listenVars
  <2>2. notices' = notices \/ notices' = Append(notices, <<"accept", p>>)
        \/ notices' = Append(notices, <<"closed", p>>)
    BY <1>1 DEF Accept, LinkEnds, TrustChanges, Cut
  <2>3. <<"accept", p>> \in {"accept", "closed"} \X Peers /\ <<"closed", p>> \in {"accept", "closed"} \X Peers
    OBVIOUS
  <2>4. notices' \in Seq({"accept", "closed"} \X Peers)
    <3> DEFINE S == {"accept", "closed"} \X Peers
    <3>1. notices \in Seq(S)
      BY DEF ListenTypes
    <3>2. <<"accept", p>> \in S /\ <<"closed", p>> \in S
      BY <2>3
    <3> HIDE DEF S
    <3>3. \A e \in S : Append(notices, e) \in Seq(S)
      BY <3>1
    <3>4. notices' \in Seq(S)
      BY <2>2, <3>1, <3>2, <3>3
    <3> QED BY <3>4 DEF S
  <2>5. links' \in [Peers -> Nat] /\ readers' \in [Peers -> Nat]
    <3>1. CASE Accept(p)
      <4>1. links[p] + 1 \in Nat /\ readers[p] + 1 \in Nat
        BY DEF ListenTypes
      <4>2. links' = [links EXCEPT ![p] = links[p] + 1]
            /\ readers' = [readers EXCEPT ![p] = readers[p] + 1]
        BY <3>1 DEF Accept
      <4>3. links \in [Peers -> Nat] /\ readers \in [Peers -> Nat]
        BY DEF ListenTypes
      <4>4. [links EXCEPT ![p] = links[p] + 1] \in [Peers -> Nat]
        BY <4>1, <4>3
      <4>5. [readers EXCEPT ![p] = readers[p] + 1] \in [Peers -> Nat]
        BY <4>1, <4>3
      <4> QED BY <4>2, <4>4, <4>5
    <3>2. CASE LinkEnds(p)
      <4>1. links \in [Peers -> Nat] /\ readers \in [Peers -> Nat] /\ readers[p] > 0
        BY <3>2 DEF LinkEnds, ListenTypes
      <4>2. readers[p] - 1 \in Nat /\ (links[p] # 0 => links[p] - 1 \in Nat)
        BY <4>1
      <4>3. readers' = [readers EXCEPT ![p] = readers[p] - 1]
            /\ \E n \in Nat : links' = [links EXCEPT ![p] = n]
        BY <3>2, <4>2 DEF LinkEnds
      <4>4. links' \in [Peers -> Nat]
        BY <4>1, <4>2, <4>3
      <4>5. readers' \in [Peers -> Nat]
        BY <4>1, <4>2, <4>3
      <4> QED BY <4>4, <4>5
    <3>3. CASE TrustChanges(p)
      BY <3>3 DEF TrustChanges, ListenTypes
    <3>4. CASE Cut(p)
      <4>1. readers' = readers /\ links' = [links EXCEPT ![p] = 0] /\ links \in [Peers -> Nat]
        BY <3>4 DEF Cut, ListenTypes
      <4>2. links' \in [Peers -> Nat]
        BY <4>1
      <4> QED BY <4>1, <4>2 DEF ListenTypes
    <3> QED BY <1>1, <3>1, <3>2, <3>3, <3>4
  <2> QED BY <2>1, <2>4, <2>5 DEF ListenTypes
<1>2. ASSUME NEW p \in Peers, Message(p)
      PROVE  ListenTypes'
  BY <1>2, MessageSends, SendingKeeps DEF ListenTypes
<1>3. ASSUME NEW p \in Peers, Reap(p)
      PROVE  ListenTypes'
  <2>1. SendsOne
    BY <1>3, RemoveIsItem, RequestFacts DEF Reap, Send, SendsOne
  <2>2. UNCHANGED <<links, readers, notices, peerOf>> /\ driving' \subseteq driving
    BY <1>3 DEF Reap, linkVars, NoLongerDriving
  <2> QED BY <2>1, <2>2, SendingKeeps DEF ListenTypes
<1>4. CASE Notice
  <2> DEFINE p == Head(notices)[2]
  <2>1. p \in Peers /\ notices' \in Seq({"accept", "closed"} \X Peers)
    <3>1. Head(notices) \in {"accept", "closed"} \X Peers
          /\ Tail(notices) \in Seq({"accept", "closed"} \X Peers)
      BY <1>4 DEF Notice, ListenTypes
    <3> QED BY <1>4, <3>1 DEF Notice
  <2>2. OnAccept(p) \/ OnClosed(p)
    BY <1>4 DEF Notice
  <2>3. SendsOne
    BY <2>1, <2>2, RemoveIsItem, RequestFacts DEF OnAccept, OnClosed, Send, SendsOne
  <2>4. peerOf' \subseteq peerOf \cup {p} /\ driving' \subseteq driving /\ UNCHANGED <<links, readers>>
    BY <1>4, <2>2 DEF OnAccept, OnClosed, NoLongerDriving, Notice
  <2> QED BY <2>1, <2>3, <2>4, SendingKeeps DEF ListenTypes
<1>5. CASE AskSession
  <2>1. SendsOne /\ UNCHANGED <<links, readers, notices, peerOf, driving>>
    BY <1>5, RequestFacts DEF AskSession, Send, SendsOne, linkVars
  <2> QED BY <2>1, SendingKeeps DEF ListenTypes
<1>6. CASE Sort \/ WhileOff \/ WhileStarting
  <2>1. requests # <<>> /\ requests' = Tail(requests)
        /\ UNCHANGED <<links, readers, notices, peerOf, driving>>
    BY <1>6 DEF Sort, WhileOff, WhileStarting, linkVars, listenVars
  <2> QED BY <2>1 DEF ListenTypes
<1>7. ASSUME \/ HearSession \/ SystemEnds \/ Terminated \/ RestartAfterTheShield
             \/ Start \/ CreateClients \/ KeyRepeats \/ WidenTrust \/ QuietPasses
             \/ \E p \in Peers : Inject(p)
             \/ UNCHANGED vars
      PROVE  ListenTypes'
  <2>1. UNCHANGED <<links, readers, notices, peerOf, driving, requests>>
    BY <1>7 DEF HearSession, SystemEnds, Terminated, RestartAfterTheShield, Start, CreateClients,
                KeyRepeats, WidenTrust, QuietPasses, Inject, vars, linkVars, listenVars
  <2> QED BY <2>1 DEF ListenTypes
<1> QED BY <1>1, <1>2, <1>3, <1>4, <1>5, <1>6, <1>7, Zenon DEF Next

\* Types and the queues' order hold from the start.
LEMMA QueueInit ==
  ASSUME Init
  PROVE  ListenTypes /\ QueueInv
<1>1. links \in [Peers -> Nat] /\ readers \in [Peers -> Nat]
  BY DEF Init
<1>2. ListenTypes
  BY <1>1 DEF Init, ListenTypes
<1>3. queues \in [Peers -> Seq(Request)] /\ \A p \in Peers : queues[p] = <<>> /\ queues[p] \in Seq(ItemOf(p))
  BY DEF Init
<1>4. turn \in Seq(Peers) /\ Once(turn) /\ Range(turn) = {}
  BY DEF Init, Once, Range
<1>5. pressure = {} /\ session = "starting"
  BY DEF Init
<1>6. QueueInv
  BY <1>3, <1>4, <1>5 DEF QueueInv, QueueTypes, QueuedWhileOn, Sessions, Backlog
<1> QED BY <1>2, <1>6

LEMMA QueueInvariant ==
  Spec => [](ListenTypes /\ QueueInv)
<1>1. Init => ListenTypes /\ QueueInv
  BY QueueInit
<1>2. (ListenTypes /\ QueueInv) /\ [Next]_vars => (ListenTypes /\ QueueInv)'
  <2> SUFFICES ASSUME ListenTypes, QueueInv, [Next]_vars
               PROVE  ListenTypes' /\ QueueInv'
    OBVIOUS
  <2>1. requests \in Seq(Request)
    BY DEF ListenTypes
  <2> QED BY <2>1, ListenTypesStep, QueueInvStep
<1> QED BY <1>1, <1>2, PTL DEF Spec

\* For any peers, any kind of backend and any limit of two or more: the order of
\* turns names exactly the peers with something queued, each once, and a peer
\* told to stop sending has a backlog that will let it go on (PeerQueues,
\* Pressure).  With a limit of one a peer would be stopped with nothing queued.
THEOREM EveryPeerHasItsTurn == Spec => []NoPeerStarves
BY QueueInvariant, QueueInvStates, PTL

----------------------------------------------------------------------------
(* The books and the system *)

BackendTypes ==
  /\ handles \subseteq Peers /\ pressed \in [Peers -> SUBSET Keys]
  /\ scope \in {"machine", "handle"}
  /\ held \in BOOLEAN /\ recent \in BOOLEAN /\ click \in BOOLEAN

\* Only a peer with a handle holds anything.
HeldByHandles == \A p \in Peers : pressed[p] # {} => p \in handles

BooksInv ==
  /\ BackendTypes /\ HeldByHandles
  /\ Recorded(scope, pressed, os)
  /\ held <=> HoldsAnything
  /\ HoldsAnything => session \in {"on", "ending"}

\* A click that is yet to be heeded finds this machine driven.
ClickInv == (click => RemotelyDriven) /\ ~consented

LEMMA BooksAreRecorded ==
  ASSUME BooksInv
  PROVE  SystemHoldsWhatIsRecorded
<1>0. pressed \in [Peers -> SUBSET Keys] /\ Recorded(scope, pressed, os)
  BY DEF BooksInv, BackendTypes
<1>1. os = AllRecorded(scope, pressed)
  BY <1>0, RecordedIs
<1>2. os = {<<Devices(x[1]), x[2]>> :
              x \in {y \in Peers \X Keys : y[2] \in pressed[y[1]]}}
  BY <1>1 DEF AllRecorded, Devices, DeviceOf
<1>3. held = HoldsAnything
  BY Zenon DEF BooksInv, BackendTypes, HoldsAnything
<1> QED BY <1>2, <1>3 DEF SystemHoldsWhatIsRecorded, BooksInv

LEMMA LetGoFacts ==
  ASSUME BooksInv, NEW p \in Peers, LetGo(p)
  PROVE  /\ pressed' \in [Peers -> SUBSET Keys] /\ pressed'[p] = {}
         /\ \A q \in Peers : q # p => pressed'[q] = pressed[q]
         /\ Recorded(scope, pressed', os')
<1>1. pressed \in [Peers -> SUBSET Keys] /\ Recorded(scope, pressed, os)
  BY DEF BooksInv, BackendTypes
<1>2. pressed' = [pressed EXCEPT ![p] = {}]
  BY DEF LetGo
<1>3. os' = os \ GoneWith(scope, pressed, p)
  BY DEF LetGo, Devices, Holders, DeviceOf, GoneWith
<1>4. Recorded(scope, pressed', os')
  BY <1>1, <1>2, <1>3, LetGoIsRecorded
<1> QED BY <1>1, <1>2, <1>4

LEMMA DestroyKeeps ==
  ASSUME BooksInv, ClickInv, NEW p \in Peers, Destroy(p),
         UNCHANGED <<session, scope, driving, consented>>
  PROVE  BooksInv' /\ ClickInv' /\ pressed'[p] = {}
         /\ \A q \in Peers : q # p => pressed'[q] = pressed[q]
<1>1. CASE p \notin handles
  <2>1. UNCHANGED <<handles, pressed, os, held, recent, click>>
    BY <1>1 DEF Destroy, backendVars
  <2>2. pressed[p] = {}
    BY <1>1 DEF BooksInv, HeldByHandles
  <2> QED BY <2>1, <2>2 DEF BooksInv, BackendTypes, HeldByHandles, HoldsAnything, ClickInv,
                            RemotelyDriven
<1>2. CASE p \in handles
  <2>1. handles' = handles \ {p} /\ LetGo(p) /\ Released(pressed[p] # {})
    BY <1>2 DEF Destroy
  <2>2. /\ pressed' \in [Peers -> SUBSET Keys] /\ pressed'[p] = {}
        /\ \A q \in Peers : q # p => pressed'[q] = pressed[q]
        /\ Recorded(scope, pressed', os')
    BY <2>1, LetGoFacts
  <2>3. held' = HoldsAnything' /\ held' \in BOOLEAN
    BY <2>1 DEF Released, HoldsAnything
  <2>4. recent' = (recent \/ pressed[p] # {}) /\ click' \in {click, click \/ pressed[p] # {}}
    BY <2>1 DEF Released
  <2>5. recent' \in BOOLEAN /\ click' \in BOOLEAN
    BY <2>4, Zenon DEF BooksInv, BackendTypes
  <2>6. HoldsAnything' => HoldsAnything
    BY <2>2 DEF HoldsAnything
  <2>7. HeldByHandles'
    BY <2>1, <2>2 DEF HeldByHandles, BooksInv
  <2>8. BooksInv'
    BY <2>1, <2>2, <2>3, <2>5, <2>6, <2>7 DEF BooksInv, BackendTypes
  <2>9. ASSUME click'
        PROVE  RemotelyDriven'
    <3>1. CASE pressed[p] # {}
      BY <2>4, <3>1 DEF RemotelyDriven
    <3>2. CASE pressed[p] = {}
      <4>1. click /\ (recent => recent')
        BY <2>4, <2>9, <3>2
      <4>2. HoldsAnything => HoldsAnything'
        BY <2>2, <3>2 DEF HoldsAnything
      <4>3. held => held'
        BY <2>3, <4>2 DEF BooksInv
      <4> QED BY <4>1, <4>3 DEF RemotelyDriven, ClickInv
    <3> QED BY <3>1, <3>2
  <2>10. ClickInv'
    BY <2>9 DEF ClickInv
  <2> QED BY <2>2, <2>8, <2>10
<1> QED BY <1>1, <1>2

LEMMA UpFacts ==
  ASSUME BooksInv, NEW p \in Peers, NEW k \in Keys, Up(p, k)
  PROVE  /\ pressed' \in [Peers -> SUBSET Keys]
         /\ \A q \in Peers : pressed'[q] \subseteq pressed[q]
         /\ Recorded(scope, pressed', os')
<1>1. /\ pressed \in [Peers -> SUBSET Keys] /\ Recorded(scope, pressed, os)
      /\ scope \in {"machine", "handle"}
  BY DEF BooksInv, BackendTypes
<1>2. CASE UNCHANGED <<pressed, os>>
  BY <1>1, <1>2
<1>3. CASE /\ scope = "machine"
           /\ pressed' = [q \in Peers |-> pressed[q] \ {k}]
           /\ os' = os \ {<<"machine", k>>}
  BY <1>1, <1>3, SharedUpIsRecorded
<1>4. ASSUME scope = "handle", NEW q \in Peers,
             pressed' = [pressed EXCEPT ![q] = @ \ {k}],
             os' = os \ {<<q, k>>}
      PROVE  /\ pressed' \in [Peers -> SUBSET Keys]
             /\ \A r \in Peers : pressed'[r] \subseteq pressed[r]
             /\ Recorded(scope, pressed', os')
  BY <1>1, <1>4, OwnUpIsRecorded
<1> QED BY <1>2, <1>3, <1>4 DEF Up, Holders

LEMMA ConsumeKeeps ==
  ASSUME BooksInv, ClickInv, session = "on",
         NEW p \in Peers, NEW input \in ItemOf(p), Consume(input),
         UNCHANGED <<session, scope, driving, consented>>
  PROVE  BooksInv' /\ ClickInv' /\ \A q \in Peers : q # p => pressed'[q] \subseteq pressed[q]
<1>1. input.peer = p /\ (input.kind \in {"down", "up"} => input.key \in Keys)
  BY ItemFacts
<1>2. /\ handles' = handles \cup {p} /\ held' = HoldsAnything' /\ held' \in BOOLEAN
      /\ recent' = TRUE /\ click' \in {click, TRUE}
  BY <1>1 DEF Consume, HoldsAnything
<1>3. /\ pressed' \in [Peers -> SUBSET Keys]
      /\ \A q \in Peers : q # p => pressed'[q] \subseteq pressed[q]
      /\ Recorded(scope, pressed', os')
  <2>1. CASE input.kind = "down" /\ Down(p, input.key)
    <3>1. /\ pressed' = [pressed EXCEPT ![p] = @ \cup {input.key}]
          /\ os' = os \cup {<<DeviceOf(scope, p), input.key>>}
      BY <2>1 DEF Down, Devices, DeviceOf
    <3>2. pressed \in [Peers -> SUBSET Keys] /\ Recorded(scope, pressed, os) /\ input.key \in Keys
      BY <1>1, <2>1 DEF BooksInv, BackendTypes
    <3>3. Recorded(scope, pressed', os')
      BY <3>1, <3>2, DownIsRecorded
    <3> QED BY <3>1, <3>2, <3>3
  <2>2. CASE input.kind = "up" /\ Up(p, input.key)
    BY <1>1, <2>2, UpFacts
  <2>3. CASE UNCHANGED <<pressed, os>>
    BY <2>3 DEF BooksInv, BackendTypes
  <2> QED BY <1>1, <2>1, <2>2, <2>3 DEF Consume
<1>4. HeldByHandles'
  BY <1>2, <1>3 DEF HeldByHandles, BooksInv
<1>5. click' \in BOOLEAN
  BY <1>2 DEF BooksInv, BackendTypes
<1>6. BooksInv'
  BY <1>2, <1>3, <1>4, <1>5 DEF BooksInv, BackendTypes
<1>7. ClickInv'
  BY <1>2 DEF ClickInv, RemotelyDriven
<1> QED BY <1>3, <1>6, <1>7

\* A peer's coming or going: what it did is recent once it no longer drives.
LEMMA DrivingKeeps ==
  ASSUME BooksInv, ClickInv, UNCHANGED <<session, backendVars, scope, click, consented>>,
         recent' \in BOOLEAN, recent => recent', driving \subseteq driving' \/ recent'
  PROVE  BooksInv' /\ ClickInv'
<1>1. UNCHANGED <<session, handles, pressed, os, held, scope, click, consented>>
  BY DEF backendVars
<1>2. BooksInv'
  BY <1>1 DEF BooksInv, BackendTypes, HeldByHandles, HoldsAnything
<1>3. RemotelyDriven => RemotelyDriven'
  BY <1>1 DEF RemotelyDriven
<1> QED BY <1>1, <1>2, <1>3 DEF ClickInv

LEMMA LeavingIsRecent ==
  ASSUME NEW p, recent \in BOOLEAN, NoLongerDriving(p)
  PROVE  recent' \in BOOLEAN /\ (recent => recent') /\ (driving \subseteq driving' \/ recent')
BY DEF NoLongerDriving

LEMMA MessageKeepsBooks ==
  ASSUME BooksInv, ClickInv, NEW p \in Peers, Message(p)
  PROVE  BooksInv' /\ ClickInv'
<1>1. recent \in BOOLEAN
  BY DEF BooksInv, BackendTypes
<1>2. recent' \in BOOLEAN /\ (recent => recent') /\ (driving \subseteq driving' \/ recent')
  <2>1. CASE OnEnter(p)
    BY <1>1, <2>1 DEF OnEnter, Refuse
  <2>2. CASE OnLeave(p)
    BY <1>1, <2>2, LeavingIsRecent DEF OnLeave
  <2>3. ASSUME NEW input, OnInput(p, input)
        PROVE  recent' \in BOOLEAN /\ (recent => recent') /\ driving \subseteq driving'
    BY <1>1, <2>3 DEF OnInput, Refuse
  <2> QED BY <2>1, <2>2, <2>3 DEF Message
<1>3. UNCHANGED <<session, backendVars, scope, click, consented>>
  BY DEF Message
<1> QED BY <1>2, <1>3, DrivingKeeps

LEMMA NoticeKeepsBooks ==
  ASSUME BooksInv, ClickInv, Notice \/ \E p \in Peers : Reap(p)
  PROVE  BooksInv' /\ ClickInv'
<1>1. recent \in BOOLEAN
  BY DEF BooksInv, BackendTypes
<1>2. \E p : NoLongerDriving(p)
  BY DEF Notice, Reap, OnAccept, OnClosed
<1>3. UNCHANGED <<session, backendVars, scope, click, consented>>
  BY DEF Notice, Reap
<1> QED BY <1>1, <1>2, <1>3, LeavingIsRecent, DrivingKeeps

LEMMA TerminatedKeepsBooks ==
  ASSUME BooksInv, ClickInv, Terminated
  PROVE  BooksInv' /\ ClickInv'
<1>1. /\ pressed' = [p \in Peers |-> {}] /\ os' = {} /\ Released(HoldsAnything)
      /\ UNCHANGED <<handles, scope, driving, consented>>
  BY DEF Terminated, listenVars
<1>2. ~HoldsAnything' /\ HeldByHandles'
  BY <1>1 DEF HoldsAnything, HeldByHandles
<1>3. held' = FALSE
  BY <1>1 DEF Released
<1>4. recent' = (recent \/ HoldsAnything) /\ click' \in {click, click \/ HoldsAnything}
  BY <1>1 DEF Released
<1>5. recent' \in BOOLEAN
  BY <1>4 DEF BooksInv, BackendTypes
<1>6. click' \in BOOLEAN
  BY <1>4, Zenon DEF BooksInv, BackendTypes
<1>7. Recorded(scope', pressed', os')
  BY <1>1 DEF Recorded
<1>8. pressed' \in [Peers -> SUBSET Keys]
  BY <1>1
<1>9. BooksInv'
  BY <1>1, <1>2, <1>3, <1>5, <1>6, <1>7, <1>8 DEF BooksInv, BackendTypes
<1>10. ASSUME click'
       PROVE  RemotelyDriven'
  <2>1. CASE HoldsAnything
    BY <1>4, <2>1 DEF RemotelyDriven
  <2>2. CASE ~HoldsAnything
    <3>1. click /\ (recent => recent') /\ ~held
      BY <1>4, <1>10, <2>2 DEF BooksInv
    <3> QED BY <1>1, <3>1 DEF ClickInv, RemotelyDriven
  <2> QED BY <2>1, <2>2
<1> QED BY <1>1, <1>9, <1>10 DEF ClickInv

LEMMA InjectKeepsBooks ==
  ASSUME BooksInv, ClickInv, QueueInv, NEW p \in Peers, Inject(p)
  PROVE  BooksInv' /\ ClickInv'
<1>1. session = "on" /\ UNCHANGED <<session, scope, driving, consented>>
  BY DEF Inject, listenVars
<1>2. CASE Destroy(p)
  BY <1>1, <1>2, DestroyKeeps
<1>3. CASE Consume(Head(queues[p]))
  <2>1. queues[p] # <<>> /\ queues[p] \in Seq(ItemOf(p))
    BY TurnTaken DEF Inject, QueueInv, QueueTypes
  <2>2. Head(queues[p]) \in ItemOf(p)
    BY <2>1
  <2> QED BY <1>1, <1>3, <2>2, ConsumeKeeps
<1> QED BY <1>2, <1>3 DEF Inject

LEMMA BooksStep ==
  ASSUME BooksInv, ClickInv, QueueInv, [Next]_vars
  PROVE  BooksInv' /\ ClickInv'
<1>1. ASSUME NEW p \in Peers, Message(p) \/ Reap(p) \/ Inject(p)
      PROVE  BooksInv' /\ ClickInv'
  BY <1>1, MessageKeepsBooks, NoticeKeepsBooks, InjectKeepsBooks
<1>2. CASE Notice \/ Terminated
  BY <1>2, NoticeKeepsBooks, TerminatedKeepsBooks
<1>3. ASSUME \/ Sort \/ SystemEnds \/ WhileOff \/ RestartAfterTheShield \/ Start \/ CreateClients
      PROVE  BooksInv' /\ ClickInv'
  <2>1. UNCHANGED <<handles, pressed, os, held, scope, recent, click, consented, driving>>
    BY <1>3 DEF Sort, SystemEnds, WhileOff, RestartAfterTheShield, Start, CreateClients,
                backendVars, listenVars
  <2>2. session \in {"on", "ending"} => session' \in {"on", "ending"}
    BY <1>3 DEF Sort, SystemEnds, WhileOff, RestartAfterTheShield, Start, CreateClients,
                SessionEnds
  <2> QED BY <2>1, <2>2 DEF BooksInv, BackendTypes, HeldByHandles, HoldsAnything, ClickInv,
                            RemotelyDriven
<1>4. CASE KeyRepeats
  <2>1. click' = TRUE /\ UNCHANGED <<session, handles, pressed, os, held, scope, recent, consented, driving>>
        /\ os # {}
    BY <1>4 DEF KeyRepeats, backendVars, listenVars
  <2>2. HoldsAnything
    BY <2>1 DEF BooksInv, Recorded, HoldsAnything
  <2> QED BY <2>1, <2>2 DEF BooksInv, BackendTypes, HeldByHandles, HoldsAnything, ClickInv,
                            RemotelyDriven
<1>5. CASE WidenTrust
  <2>1. click /\ click' = FALSE /\ consented' = (consented \/ ~RemotelyDriven)
        /\ UNCHANGED <<session, handles, pressed, os, held, scope, recent, driving>>
    BY <1>5 DEF WidenTrust, backendVars, listenVars
  <2>2. ClickInv'
    BY <2>1 DEF ClickInv
  <2> QED BY <2>1, <2>2 DEF BooksInv, BackendTypes, HeldByHandles, HoldsAnything
<1>6. CASE QuietPasses
  <2>1. ~click /\ recent' = FALSE
        /\ UNCHANGED <<session, handles, pressed, os, held, scope, click, consented, driving>>
    BY <1>6 DEF QuietPasses, backendVars, listenVars
  <2> QED BY <2>1 DEF BooksInv, BackendTypes, HeldByHandles, HoldsAnything, ClickInv
<1>7. ASSUME \/ \E p \in Peers : Accept(p) \/ LinkEnds(p) \/ TrustChanges(p) \/ Cut(p)
             \/ HearSession \/ AskSession \/ WhileStarting \/ UNCHANGED vars
      PROVE  BooksInv' /\ ClickInv'
  <2>1. UNCHANGED <<session, handles, pressed, os, held, scope, recent, click, consented, driving>>
    BY <1>7 DEF Accept, LinkEnds, TrustChanges, Cut, HearSession, AskSession, WhileStarting,
                vars, backendVars, listenVars
  <2> QED BY <2>1 DEF BooksInv, BackendTypes, HeldByHandles, HoldsAnything, ClickInv,
                      RemotelyDriven
<1> QED BY <1>1, <1>2, <1>3, <1>4, <1>5, <1>6, <1>7, Zenon DEF Next

LEMMA BooksInit ==
  ASSUME Init
  PROVE  BooksInv /\ ClickInv
<1>1. pressed \in [Peers -> SUBSET Keys] /\ \A p \in Peers : pressed[p] = {}
  BY DEF Init
<1>2. Recorded(scope, pressed, os)
  BY <1>1 DEF Init, Recorded
<1>3. BackendTypes /\ ~held /\ ~click /\ ~consented
  BY <1>1, EmulationAssumption DEF Init, BackendTypes, EmulationAssumption
<1>4. ~HoldsAnything /\ HeldByHandles
  BY <1>1 DEF HoldsAnything, HeldByHandles
<1> QED BY <1>2, <1>3, <1>4 DEF BooksInv, ClickInv

LEMMA BooksInvariant ==
  Spec => [](ListenTypes /\ QueueInv /\ BooksInv /\ ClickInv)
<1>1. Init => BooksInv /\ ClickInv
  BY BooksInit
<1>2. QueueInv /\ (BooksInv /\ ClickInv) /\ [Next]_vars => (BooksInv /\ ClickInv)'
  BY BooksStep
<1> QED BY <1>1, <1>2, QueueInvariant, PTL DEF Spec

\* For any peers and keys, one shared device or a device for each peer: what the
\* system is left holding is what the books say the peers hold, and only a
\* running session holds anything (machine_button, per_handle_button,
\* release_held).
THEOREM SystemAgreesWithTheBooks == Spec => []SystemHoldsWhatIsRecorded
BY BooksInvariant, BooksAreRecorded, PTL

\* For any peers and any backend: no request that a peer's input made widens
\* trust (Driven, refuse_while_remotely_driven).
THEOREM PeersCannotConsent == Spec => []NoRemoteConsent
<1>1. ClickInv => NoRemoteConsent
  BY DEF ClickInv, NoRemoteConsent
<1> QED BY <1>1, BooksInvariant, PTL

----------------------------------------------------------------------------
(* Links that come and go one at a time *)

Accepted(n, i, p) == n[i][1] = "accept" /\ n[i][2] = p
Closed(n, i, p) == n[i][1] = "closed" /\ n[i][2] = p

\* No link of p is said to be accepted while the one before it, known or waiting
\* to be, is not said to be closed.
InOrder(n, p, known) ==
  /\ \A i \in DOMAIN n : Accepted(n, i, p) /\ p \in known =>
       \E j \in DOMAIN n : j < i /\ Closed(n, j, p)
  /\ \A i, k \in DOMAIN n : Accepted(n, i, p) /\ Accepted(n, k, p) /\ i < k =>
       \E j \in DOMAIN n : i < j /\ j < k /\ Closed(n, j, p)

\* The last that is said of p is that it is closed.
EndsClosed(n, p, known) ==
  /\ p \in known => \E j \in DOMAIN n : Closed(n, j, p)
  /\ \A i \in DOMAIN n : Accepted(n, i, p) => \E j \in DOMAIN n : i < j /\ Closed(n, j, p)

LinkInv ==
  /\ driving \subseteq peerOf
  /\ \A p \in Peers : links[p] <= readers[p] /\ readers[p] <= 1
  /\ \A p \in Peers : InOrder(notices, p, peerOf)
  /\ \A p \in Peers : readers[p] = 0 => EndsClosed(notices, p, peerOf)

Notices == {"accept", "closed"} \X Peers

LEMMA AppendFacts ==
  ASSUME NEW S, NEW n \in Seq(S), NEW e \in S
  PROVE  /\ Append(n, e) \in Seq(S)
         /\ DOMAIN Append(n, e) = DOMAIN n \cup {Len(n) + 1}
         /\ Append(n, e)[Len(n) + 1] = e
         /\ Len(n) \in Nat
         /\ \A i \in DOMAIN n : i \in Nat /\ 0 < i /\ i < Len(n) + 1 /\ Append(n, e)[i] = n[i]
OBVIOUS

LEMMA SaidOfAnother ==
  ASSUME NEW n \in Seq(Notices), NEW e \in Notices, NEW p, NEW known, e[2] # p
  PROVE  /\ InOrder(n, p, known) => InOrder(Append(n, e), p, known)
         /\ EndsClosed(n, p, known) => EndsClosed(Append(n, e), p, known)
<1> DEFINE m == Append(n, e)
           last == Len(n) + 1
<1>1. /\ DOMAIN m = DOMAIN n \cup {last} /\ m[last] = e
      /\ \A i \in DOMAIN n : i < last /\ m[i] = n[i]
  BY AppendFacts
<1> HIDE DEF m, last, Notices
<1>2. ~Accepted(m, last, p) /\ ~Closed(m, last, p)
  BY <1>1 DEF Accepted, Closed
<1>3. \A i \in DOMAIN n : (Accepted(m, i, p) <=> Accepted(n, i, p))
                          /\ (Closed(m, i, p) <=> Closed(n, i, p))
  BY <1>1 DEF Accepted, Closed
<1>4. InOrder(n, p, known) => InOrder(m, p, known)
  BY <1>1, <1>2, <1>3 DEF InOrder
<1>5. EndsClosed(n, p, known) => EndsClosed(m, p, known)
  BY <1>1, <1>2, <1>3 DEF EndsClosed
<1> QED BY <1>4, <1>5 DEF m

LEMMA SaidAccepted ==
  ASSUME NEW n \in Seq(Notices), NEW p \in Peers, NEW known,
         InOrder(n, p, known), EndsClosed(n, p, known)
  PROVE  InOrder(Append(n, <<"accept", p>>), p, known)
<1> DEFINE e == <<"accept", p>>
           m == Append(n, e)
           last == Len(n) + 1
<1>0. e \in Notices /\ e[1] = "accept" /\ e[2] = p
  BY DEF Notices
<1> HIDE DEF e
<1>1. /\ DOMAIN m = DOMAIN n \cup {last} /\ m[last] = e /\ last \in Nat
      /\ \A i \in DOMAIN n : i \in Nat /\ i < last /\ m[i] = n[i]
  BY <1>0, AppendFacts
<1> HIDE DEF m, last, Notices
<1>2. ~Closed(m, last, p)
  BY <1>0, <1>1 DEF Closed
<1>3. \A i \in DOMAIN n : (Accepted(m, i, p) <=> Accepted(n, i, p))
                          /\ (Closed(m, i, p) <=> Closed(n, i, p))
  BY <1>1 DEF Accepted, Closed
<1>4. ASSUME NEW i \in DOMAIN m, Accepted(m, i, p), p \in known
      PROVE  \E j \in DOMAIN m : j < i /\ Closed(m, j, p)
  <2>1. CASE i = last
    BY <1>1, <1>3, <1>4, <2>1 DEF EndsClosed
  <2>2. CASE i \in DOMAIN n
    BY <1>1, <1>3, <1>4, <2>2 DEF InOrder
  <2> QED BY <1>1, <2>1, <2>2
<1>5. ASSUME NEW i \in DOMAIN m, NEW k \in DOMAIN m,
             Accepted(m, i, p), Accepted(m, k, p), i < k
      PROVE  \E j \in DOMAIN m : i < j /\ j < k /\ Closed(m, j, p)
  <2>1. i \in DOMAIN n
    BY <1>1, <1>5
  <2>2. CASE k = last
    BY <1>1, <1>3, <1>5, <2>1, <2>2 DEF EndsClosed
  <2>3. CASE k \in DOMAIN n
    BY <1>1, <1>3, <1>5, <2>1, <2>3 DEF InOrder
  <2> QED BY <1>1, <2>2, <2>3
<1>6. InOrder(m, p, known)
  BY <1>4, <1>5 DEF InOrder
<1> QED BY <1>6 DEF m, e

LEMMA SaidClosed ==
  ASSUME NEW n \in Seq(Notices), NEW p \in Peers, NEW known, InOrder(n, p, known)
  PROVE  /\ InOrder(Append(n, <<"closed", p>>), p, known)
         /\ EndsClosed(Append(n, <<"closed", p>>), p, known)
<1> DEFINE e == <<"closed", p>>
           m == Append(n, e)
           last == Len(n) + 1
<1>0. e \in Notices /\ e[1] = "closed" /\ e[2] = p
  BY DEF Notices
<1> HIDE DEF e
<1>1. /\ DOMAIN m = DOMAIN n \cup {last} /\ m[last] = e
      /\ \A i \in DOMAIN n : i < last /\ m[i] = n[i]
  BY <1>0, AppendFacts
<1> HIDE DEF m, last, Notices
<1>2. ~Accepted(m, last, p) /\ Closed(m, last, p)
  BY <1>0, <1>1 DEF Accepted, Closed
<1>3. \A i \in DOMAIN n : (Accepted(m, i, p) <=> Accepted(n, i, p))
                          /\ (Closed(m, i, p) <=> Closed(n, i, p))
  BY <1>1 DEF Accepted, Closed
<1>4. InOrder(m, p, known)
  BY <1>1, <1>2, <1>3 DEF InOrder
<1>5. EndsClosed(m, p, known)
  BY <1>1, <1>2, <1>3 DEF EndsClosed
<1> QED BY <1>4, <1>5 DEF m, e

\* What is left to be said once the first has been heard.
LEMMA Heard ==
  ASSUME NEW n \in Seq(Notices), n # <<>>, NEW p
  PROVE  /\ 1 \in DOMAIN n /\ Head(n) = n[1]
         /\ \A i \in DOMAIN Tail(n) : i \in Nat /\ 0 < i /\ i + 1 \in DOMAIN n
              /\ (Accepted(Tail(n), i, p) <=> Accepted(n, i + 1, p))
              /\ (Closed(Tail(n), i, p) <=> Closed(n, i + 1, p))
         /\ \A i \in DOMAIN n : i \in Nat /\ (i = 1 \/ (i > 1 /\ i - 1 \in DOMAIN Tail(n)
              /\ (Closed(Tail(n), i - 1, p) <=> Closed(n, i, p))))
<1> HIDE DEF Notices
<1>1. /\ 1 \in DOMAIN n /\ Head(n) = n[1]
      /\ \A i \in DOMAIN Tail(n) : i \in Nat /\ 0 < i /\ i + 1 \in DOMAIN n
      /\ \A i \in DOMAIN n : i \in Nat /\ (i = 1 \/ i > 1)
  OBVIOUS
<1>2. /\ \A i \in DOMAIN Tail(n) : Tail(n)[i] = n[i + 1]
      /\ \A i \in DOMAIN n : i > 1 => i - 1 \in DOMAIN Tail(n) /\ Tail(n)[i - 1] = n[i]
  BY TailFacts
<1> QED BY <1>1, <1>2 DEF Accepted, Closed

LEMMA HeardAccepted ==
  ASSUME NEW n \in Seq(Notices), n # <<>>, NEW p, NEW known,
         Head(n)[1] = "accept", Head(n)[2] = p, InOrder(n, p, known)
  PROVE  /\ p \notin known
         /\ InOrder(Tail(n), p, known \cup {p})
         /\ EndsClosed(n, p, known) => EndsClosed(Tail(n), p, known \cup {p})
<1> DEFINE m == Tail(n)
<1>1. /\ 1 \in DOMAIN n /\ Accepted(n, 1, p)
      /\ \A i \in DOMAIN m : i \in Nat /\ 0 < i /\ i + 1 \in DOMAIN n
           /\ (Accepted(m, i, p) <=> Accepted(n, i + 1, p))
           /\ (Closed(m, i, p) <=> Closed(n, i + 1, p))
      /\ \A i \in DOMAIN n : i \in Nat /\ (i = 1 \/ (i > 1 /\ i - 1 \in DOMAIN m
           /\ (Closed(m, i - 1, p) <=> Closed(n, i, p))))
  BY Heard DEF Accepted
<1> HIDE DEF m
<1>2. p \notin known
  BY <1>1 DEF InOrder
<1>3. ASSUME NEW i \in DOMAIN m, Accepted(m, i, p)
      PROVE  \E j \in DOMAIN m : j < i /\ Closed(m, j, p)
  <2>1. i + 1 \in DOMAIN n /\ Accepted(n, i + 1, p) /\ 1 < i + 1
    BY <1>1, <1>3
  <2>2. PICK j \in DOMAIN n : 1 < j /\ j < i + 1 /\ Closed(n, j, p)
    BY <1>1, <2>1 DEF InOrder
  <2>3. j - 1 \in DOMAIN m /\ Closed(m, j - 1, p) /\ j - 1 < i
    BY <1>1, <2>2
  <2> QED BY <2>3
<1>4. ASSUME NEW i \in DOMAIN m, NEW k \in DOMAIN m, Accepted(m, i, p), Accepted(m, k, p), i < k
      PROVE  \E j \in DOMAIN m : i < j /\ j < k /\ Closed(m, j, p)
  <2>1. i + 1 \in DOMAIN n /\ Accepted(n, i + 1, p) /\ k + 1 \in DOMAIN n /\ Accepted(n, k + 1, p)
        /\ i + 1 < k + 1
    BY <1>1, <1>4
  <2>2. PICK j \in DOMAIN n : i + 1 < j /\ j < k + 1 /\ Closed(n, j, p)
    BY <2>1 DEF InOrder
  <2>3. j - 1 \in DOMAIN m /\ Closed(m, j - 1, p) /\ i < j - 1 /\ j - 1 < k
    BY <1>1, <2>2
  <2> QED BY <2>3
<1>5. InOrder(m, p, known \cup {p})
  BY <1>3, <1>4 DEF InOrder
<1>6. ASSUME EndsClosed(n, p, known)
      PROVE  EndsClosed(m, p, known \cup {p})
  <2>1. ASSUME NEW i \in DOMAIN n, Accepted(n, i, p)
        PROVE  \E j \in DOMAIN m : i < j + 1 /\ Closed(m, j, p)
    <3>1. PICK j \in DOMAIN n : i < j /\ Closed(n, j, p)
      BY <1>6, <2>1 DEF EndsClosed
    <3>2. j - 1 \in DOMAIN m /\ Closed(m, j - 1, p) /\ i < (j - 1) + 1
      BY <1>1, <3>1
    <3> QED BY <3>2
  <2>2. \E j \in DOMAIN m : Closed(m, j, p)
    BY <1>1, <2>1
  <2>3. ASSUME NEW i \in DOMAIN m, Accepted(m, i, p)
        PROVE  \E j \in DOMAIN m : i < j /\ Closed(m, j, p)
    <3>1. i + 1 \in DOMAIN n /\ Accepted(n, i + 1, p)
      BY <1>1, <2>3
    <3>2. PICK j \in DOMAIN m : i + 1 < j + 1 /\ Closed(m, j, p)
      BY <2>1, <3>1
    <3> QED BY <1>1, <3>2
  <2> QED BY <2>2, <2>3 DEF EndsClosed
<1> QED BY <1>2, <1>5, <1>6 DEF m

LEMMA HeardClosed ==
  ASSUME NEW n \in Seq(Notices), n # <<>>, NEW p, NEW known,
         Head(n)[1] = "closed", Head(n)[2] = p, InOrder(n, p, known)
  PROVE  /\ InOrder(Tail(n), p, known \ {p})
         /\ EndsClosed(n, p, known) => EndsClosed(Tail(n), p, known \ {p})
<1> DEFINE m == Tail(n)
<1>1. /\ \A i \in DOMAIN m : i \in Nat /\ 0 < i /\ i + 1 \in DOMAIN n
           /\ (Accepted(m, i, p) <=> Accepted(n, i + 1, p))
      /\ \A i \in DOMAIN n : i \in Nat /\ (i = 1 \/ (i > 1 /\ i - 1 \in DOMAIN m
           /\ (Closed(m, i - 1, p) <=> Closed(n, i, p))))
  BY Heard
<1> HIDE DEF m
<1>2. ASSUME NEW i \in DOMAIN m, NEW k \in DOMAIN m, Accepted(m, i, p), Accepted(m, k, p), i < k
      PROVE  \E j \in DOMAIN m : i < j /\ j < k /\ Closed(m, j, p)
  <2>1. i + 1 \in DOMAIN n /\ Accepted(n, i + 1, p) /\ k + 1 \in DOMAIN n /\ Accepted(n, k + 1, p)
        /\ i + 1 < k + 1
    BY <1>1, <1>2
  <2>2. PICK j \in DOMAIN n : i + 1 < j /\ j < k + 1 /\ Closed(n, j, p)
    BY <2>1 DEF InOrder
  <2>3. j - 1 \in DOMAIN m /\ Closed(m, j - 1, p) /\ i < j - 1 /\ j - 1 < k
    BY <1>1, <2>2
  <2> QED BY <2>3
<1>3. InOrder(m, p, known \ {p})
  BY <1>2 DEF InOrder
<1>4. ASSUME EndsClosed(n, p, known)
      PROVE  EndsClosed(m, p, known \ {p})
  <2>1. ASSUME NEW i \in DOMAIN m, Accepted(m, i, p)
        PROVE  \E j \in DOMAIN m : i < j /\ Closed(m, j, p)
    <3>1. i + 1 \in DOMAIN n /\ Accepted(n, i + 1, p)
      BY <1>1, <2>1
    <3>2. PICK j \in DOMAIN n : i + 1 < j /\ Closed(n, j, p)
      BY <1>4, <3>1 DEF EndsClosed
    <3>3. j - 1 \in DOMAIN m /\ Closed(m, j - 1, p) /\ i < j - 1
      BY <1>1, <3>2
    <3> QED BY <3>3
  <2> QED BY <2>1 DEF EndsClosed
<1> QED BY <1>3, <1>4 DEF m

LEMMA HeardOfAnother ==
  ASSUME NEW n \in Seq(Notices), n # <<>>, NEW p, NEW known, NEW after,
         Head(n)[2] # p, p \in after => p \in known
  PROVE  /\ InOrder(n, p, known) => InOrder(Tail(n), p, after)
         /\ EndsClosed(n, p, known) => EndsClosed(Tail(n), p, after)
<1> DEFINE m == Tail(n)
<1>1. /\ 1 \in DOMAIN n /\ ~Closed(n, 1, p)
      /\ \A i \in DOMAIN m : i \in Nat /\ 0 < i /\ i + 1 \in DOMAIN n
           /\ (Accepted(m, i, p) <=> Accepted(n, i + 1, p))
      /\ \A i \in DOMAIN n : i \in Nat /\ (i = 1 \/ (i > 1 /\ i - 1 \in DOMAIN m
           /\ (Closed(m, i - 1, p) <=> Closed(n, i, p))))
  BY Heard DEF Closed
<1> HIDE DEF m
<1>2. ASSUME NEW j \in DOMAIN n, Closed(n, j, p)
      PROVE  j - 1 \in DOMAIN m /\ Closed(m, j - 1, p) /\ j \in Nat
  BY <1>1, <1>2
<1>3. ASSUME InOrder(n, p, known)
      PROVE  InOrder(m, p, after)
  <2>1. ASSUME NEW i \in DOMAIN m, Accepted(m, i, p), p \in after
        PROVE  \E j \in DOMAIN m : j < i /\ Closed(m, j, p)
    <3>1. PICK j \in DOMAIN n : j < i + 1 /\ Closed(n, j, p)
      BY <1>1, <1>3, <2>1 DEF InOrder
    <3>2. j - 1 \in DOMAIN m /\ Closed(m, j - 1, p) /\ j - 1 < i
      BY <1>1, <1>2, <3>1
    <3> QED BY <3>2
  <2>2. ASSUME NEW i \in DOMAIN m, NEW k \in DOMAIN m, Accepted(m, i, p), Accepted(m, k, p), i < k
        PROVE  \E j \in DOMAIN m : i < j /\ j < k /\ Closed(m, j, p)
    <3>1. i + 1 \in DOMAIN n /\ Accepted(n, i + 1, p) /\ k + 1 \in DOMAIN n
          /\ Accepted(n, k + 1, p) /\ i + 1 < k + 1
      BY <1>1, <2>2
    <3>2. PICK j \in DOMAIN n : i + 1 < j /\ j < k + 1 /\ Closed(n, j, p)
      BY <1>3, <3>1 DEF InOrder
    <3>3. /\ j \in Nat /\ i \in Nat /\ k \in Nat
          /\ j - 1 \in DOMAIN m /\ Closed(m, j - 1, p)
      BY <1>1, <1>2, <3>2
    <3>4. i < j - 1 /\ j - 1 < k
      BY <3>2, <3>3
    <3> QED BY <3>3, <3>4
  <2> QED BY <2>1, <2>2 DEF InOrder
<1>4. ASSUME EndsClosed(n, p, known)
      PROVE  EndsClosed(m, p, after)
  <2>1. ASSUME p \in after
        PROVE  \E j \in DOMAIN m : Closed(m, j, p)
    BY <1>2, <1>4, <2>1 DEF EndsClosed
  <2>2. ASSUME NEW i \in DOMAIN m, Accepted(m, i, p)
        PROVE  \E j \in DOMAIN m : i < j /\ Closed(m, j, p)
    <3>1. i + 1 \in DOMAIN n /\ Accepted(n, i + 1, p)
      BY <1>1, <2>2
    <3>2. PICK j \in DOMAIN n : i + 1 < j /\ Closed(n, j, p)
      BY <1>4, <3>1 DEF EndsClosed
    <3>3. j \in Nat /\ i \in Nat /\ j - 1 \in DOMAIN m /\ Closed(m, j - 1, p)
      BY <1>1, <1>2, <3>2
    <3>4. i < j - 1
      BY <3>2, <3>3
    <3> QED BY <3>3, <3>4
  <2> QED BY <2>1, <2>2 DEF EndsClosed
<1> QED BY <1>3, <1>4 DEF m

\* What is written of a link's coming and going: nothing, or one notice.
LEMMA LinkInvStep ==
  ASSUME MaxLinks <= 1, ListenTypes, LinkInv, [Next]_vars
  PROVE  LinkInv'
<1>0. /\ notices \in Seq(Notices) /\ links \in [Peers -> Nat] /\ readers \in [Peers -> Nat]
      /\ \A p \in Peers : links[p] \in Nat /\ readers[p] \in Nat
  BY DEF ListenTypes, Notices
<1>1. ASSUME NEW p \in Peers, Accept(p)
      PROVE  LinkInv'
  <2>1. /\ links' = [links EXCEPT ![p] = links[p] + 1]
        /\ readers' = [readers EXCEPT ![p] = readers[p] + 1]
        /\ notices' = Append(notices, <<"accept", p>>)
        /\ UNCHANGED <<driving, peerOf>> /\ readers[p] < MaxLinks
    BY <1>1 DEF Accept, listenVars
  <2>2. readers[p] = 0 /\ links[p] = 0
    <3>1. MaxLinks \in Nat
      BY EmulationAssumption DEF EmulationAssumption
    <3>2. links[p] <= readers[p]
      BY DEF LinkInv
    <3> QED BY <1>0, <2>1, <3>1, <3>2
  <2>3. readers'[p] = 1 /\ links'[p] = 1
        /\ \A q \in Peers : q # p => readers'[q] = readers[q] /\ links'[q] = links[q]
    BY <1>0, <2>1, <2>2
  <2>4. InOrder(notices', p, peerOf')
    BY <1>0, <2>1, <2>2, SaidAccepted DEF LinkInv
  <2>5. ASSUME NEW q \in Peers, q # p
        PROVE  /\ InOrder(notices', q, peerOf')
               /\ readers'[q] = 0 => EndsClosed(notices', q, peerOf')
    <3>1. <<"accept", p>> \in Notices /\ <<"accept", p>>[2] # q
      BY <2>5 DEF Notices
    <3> QED BY <1>0, <2>1, <2>3, <2>5, <3>1, SaidOfAnother DEF LinkInv
  <2> QED BY <2>1, <2>3, <2>4, <2>5 DEF LinkInv
<1>2. ASSUME NEW p \in Peers, LinkEnds(p)
      PROVE  LinkInv'
  <2>1. /\ links' = [links EXCEPT ![p] = IF links[p] = 0 THEN 0 ELSE links[p] - 1]
        /\ readers' = [readers EXCEPT ![p] = readers[p] - 1]
        /\ notices' = IF links'[p] = 0 THEN Append(notices, <<"closed", p>>) ELSE notices
        /\ UNCHANGED <<driving, peerOf>> /\ readers[p] > 0
    BY <1>2 DEF LinkEnds, listenVars
  <2>2. readers[p] = 1 /\ links[p] \in {0, 1}
    <3>1. links[p] <= readers[p] /\ readers[p] <= 1
      BY DEF LinkInv
    <3> QED BY <1>0, <2>1, <3>1
  <2>3. readers'[p] = 0 /\ links'[p] = 0
        /\ \A q \in Peers : q # p => readers'[q] = readers[q] /\ links'[q] = links[q]
    BY <1>0, <2>1, <2>2
  <2>4. notices' = Append(notices, <<"closed", p>>)
    BY <2>1, <2>3
  <2>5. InOrder(notices', p, peerOf') /\ EndsClosed(notices', p, peerOf')
    BY <1>0, <2>1, <2>4, SaidClosed DEF LinkInv
  <2>6. ASSUME NEW q \in Peers, q # p
        PROVE  /\ InOrder(notices', q, peerOf')
               /\ readers'[q] = 0 => EndsClosed(notices', q, peerOf')
    <3>1. <<"closed", p>> \in Notices /\ <<"closed", p>>[2] # q
      BY <2>6 DEF Notices
    <3> QED BY <1>0, <2>1, <2>3, <2>4, <2>6, <3>1, SaidOfAnother DEF LinkInv
  <2> QED BY <2>1, <2>3, <2>5, <2>6 DEF LinkInv
<1>3. ASSUME NEW p \in Peers, Cut(p)
      PROVE  LinkInv'
  <2>1. links' = [links EXCEPT ![p] = 0] /\ UNCHANGED <<readers, notices, driving, peerOf>>
    BY <1>3 DEF Cut, listenVars
  <2>2. links'[p] = 0 /\ \A q \in Peers : q # p => links'[q] = links[q]
    BY <1>0, <2>1
  <2>3. \A q \in Peers : links'[q] <= readers'[q]
    BY <1>0, <2>1, <2>2 DEF LinkInv
  <2> QED BY <2>1, <2>3 DEF LinkInv
<1>4. CASE Notice
  <2> DEFINE p == Head(notices)[2]
  <2>1. notices # <<>> /\ notices' = Tail(notices) /\ UNCHANGED <<links, readers>>
    BY <1>4 DEF Notice
  <2>2. Head(notices) \in Notices
    BY <1>0, <2>1
  <2>3. p \in Peers
    BY <2>2 DEF Notices
  <2>4. ASSUME NEW q \in Peers, q # p
        PROVE  /\ InOrder(notices', q, peerOf')
               /\ readers'[q] = 0 => EndsClosed(notices', q, peerOf')
    <3>1. q \in peerOf' => q \in peerOf
      BY <1>4, <2>4 DEF Notice, OnAccept, OnClosed
    <3> QED BY <1>0, <2>1, <2>4, <3>1, HeardOfAnother DEF LinkInv
  <2>5. CASE Head(notices)[1] = "accept" /\ OnAccept(p)
    <3>1. peerOf' = peerOf \cup {p} /\ driving' = driving \ {p}
      BY <2>5 DEF OnAccept, NoLongerDriving
    <3>2. /\ InOrder(notices', p, peerOf')
          /\ readers'[p] = 0 => EndsClosed(notices', p, peerOf')
      BY <1>0, <2>1, <2>3, <2>5, <3>1, HeardAccepted DEF LinkInv
    <3> QED BY <2>1, <2>4, <3>1, <3>2 DEF LinkInv
  <2>6. CASE Head(notices)[1] = "closed" /\ OnClosed(p)
    <3>1. peerOf' = peerOf \ {p} /\ driving' = driving \ {p}
      BY <2>6 DEF OnClosed, NoLongerDriving
    <3>2. /\ InOrder(notices', p, peerOf')
          /\ readers'[p] = 0 => EndsClosed(notices', p, peerOf')
      BY <1>0, <2>1, <2>3, <2>6, <3>1, HeardClosed DEF LinkInv
    <3> QED BY <2>1, <2>4, <3>1, <3>2 DEF LinkInv
  <2> QED BY <1>4, <2>5, <2>6 DEF Notice
<1>5. ASSUME NEW p \in Peers, Message(p) \/ Reap(p)
      PROVE  LinkInv'
  <2>1. driving' \subseteq driving \cup peerOf /\ UNCHANGED <<links, readers, notices, peerOf>>
    <3>1. CASE Message(p)
      BY <3>1, MessageSends DEF Message
    <3>2. CASE Reap(p)
      BY <3>2 DEF Reap, NoLongerDriving, linkVars
    <3> QED BY <1>5, <3>1, <3>2
  <2> QED BY <2>1 DEF LinkInv
<1>6. ASSUME \/ \E p \in Peers : TrustChanges(p) \/ Inject(p)
             \/ HearSession \/ AskSession \/ Sort \/ SystemEnds \/ Terminated \/ WhileOff
             \/ RestartAfterTheShield \/ WhileStarting \/ Start \/ CreateClients
             \/ KeyRepeats \/ WidenTrust \/ QuietPasses \/ UNCHANGED vars
      PROVE  LinkInv'
  <2>1. UNCHANGED <<links, readers, notices, peerOf, driving>>
    BY <1>6 DEF TrustChanges, Inject, HearSession, AskSession, Sort, SystemEnds, Terminated,
                WhileOff, RestartAfterTheShield, WhileStarting, Start, CreateClients,
                KeyRepeats, WidenTrust, QuietPasses, vars, linkVars, listenVars
  <2> QED BY <2>1 DEF LinkInv
<1> QED BY <1>1, <1>2, <1>3, <1>4, <1>5, <1>6, Zenon DEF Next

----------------------------------------------------------------------------
(* What a peer holds is let go of with its session *)

IsInput(r, p) == r.peer = p /\ r.kind \in {"move", "down", "up"}

\* A removal of p waits in s.
Coming(s, p) == \E j \in DOMAIN s : s[j] = RemoveOf(p)

\* Each input of p in s has a removal of p behind it.
AllFollowed(s, p) ==
  \A i \in DOMAIN s : IsInput(s[i], p) => \E j \in DOMAIN s : i < j /\ s[j] = RemoveOf(p)

\* A peer that does not drive this machine has a removal behind each input that
\* is still to be injected, and one to come if it holds anything.
Followed(p) ==
  /\ AllFollowed(requests, p)
  /\ AllFollowed(queues[p], p) \/ Coming(requests, p)
  /\ pressed[p] # {} => Coming(requests, p) \/ Coming(queues[p], p) \/ session = "ending"

SessionsInv == \A p \in Peers : p \in driving \/ Followed(p)

LEMMA NothingFollowed ==
  ASSUME NEW p
  PROVE  AllFollowed(<<>>, p)
BY DEF AllFollowed

LEMMA FollowedAppended ==
  ASSUME NEW S, NEW s \in Seq(S), NEW r \in S, NEW p
  PROVE  /\ Coming(s, p) => Coming(Append(s, r), p)
         /\ AllFollowed(s, p) /\ ~IsInput(r, p) => AllFollowed(Append(s, r), p)
         /\ r = RemoveOf(p) => Coming(Append(s, r), p) /\ AllFollowed(Append(s, r), p)
<1> DEFINE m == Append(s, r)
           last == Len(s) + 1
<1>1. /\ DOMAIN m = DOMAIN s \cup {last} /\ m[last] = r
      /\ \A i \in DOMAIN s : i < last /\ m[i] = s[i]
  BY AppendFacts
<1> HIDE DEF m, last
<1>2. Coming(s, p) => Coming(m, p)
  BY <1>1 DEF Coming
<1>3. AllFollowed(s, p) /\ ~IsInput(r, p) => AllFollowed(m, p)
  BY <1>1 DEF AllFollowed
<1>4. ASSUME r = RemoveOf(p)
      PROVE  Coming(m, p) /\ AllFollowed(m, p)
  <2>1. ~IsInput(r, p)
    BY <1>4 DEF RemoveOf, IsInput
  <2> QED BY <1>1, <1>4, <2>1 DEF AllFollowed, Coming
<1> QED BY <1>2, <1>3, <1>4 DEF m

LEMMA FollowedTaken ==
  ASSUME NEW S, NEW s \in Seq(S), s # <<>>, NEW p
  PROVE  /\ AllFollowed(s, p) => AllFollowed(Tail(s), p)
         /\ Coming(s, p) /\ Head(s) # RemoveOf(p) => Coming(Tail(s), p)
         /\ AllFollowed(s, p) /\ IsInput(Head(s), p) => Coming(Tail(s), p)
<1> DEFINE m == Tail(s)
<1>1. /\ 1 \in DOMAIN s /\ Head(s) = s[1]
      /\ \A i \in DOMAIN m : i \in Nat /\ i + 1 \in DOMAIN s /\ m[i] = s[i + 1]
      /\ \A i \in DOMAIN s : i \in Nat /\ (i = 1 \/ (i > 1 /\ i - 1 \in DOMAIN m /\ m[i - 1] = s[i]))
  <2>1. /\ 1 \in DOMAIN s
        /\ \A i \in DOMAIN m : i \in Nat
        /\ \A i \in DOMAIN s : i \in Nat /\ (i = 1 \/ i > 1)
    OBVIOUS
  <2> QED BY <2>1, TailFacts
<1> HIDE DEF m
<1>2. ASSUME AllFollowed(s, p)
      PROVE  AllFollowed(m, p)
  <2>1. ASSUME NEW i \in DOMAIN m, IsInput(m[i], p)
        PROVE  \E j \in DOMAIN m : i < j /\ m[j] = RemoveOf(p)
    <3>1. i + 1 \in DOMAIN s /\ IsInput(s[i + 1], p)
      BY <1>1, <2>1
    <3>2. PICK j \in DOMAIN s : i + 1 < j /\ s[j] = RemoveOf(p)
      BY <1>2, <3>1 DEF AllFollowed
    <3>3. j - 1 \in DOMAIN m /\ i < j - 1 /\ m[j - 1] = RemoveOf(p)
      BY <1>1, <3>2
    <3> QED BY <3>3
  <2> QED BY <2>1 DEF AllFollowed
<1>3. ASSUME Coming(s, p), Head(s) # RemoveOf(p)
      PROVE  Coming(m, p)
  BY <1>1, <1>3 DEF Coming
<1>4. ASSUME AllFollowed(s, p), IsInput(Head(s), p)
      PROVE  Coming(m, p)
  <2>1. PICK j \in DOMAIN s : 1 < j /\ s[j] = RemoveOf(p)
    BY <1>1, <1>4 DEF AllFollowed
  <2>2. j - 1 \in DOMAIN m /\ m[j - 1] = RemoveOf(p)
    BY <1>1, <2>1
  <2> QED BY <2>2 DEF Coming
<1> QED BY <1>2, <1>3, <1>4 DEF m

\* The listening task sends r, or nothing, and p goes on driving if it did.
LEMMA SendKeepsFollowed ==
  ASSUME requests \in Seq(Request), UNCHANGED <<session, queues, pressed>>,
         NEW p \in Peers, p \in driving \/ Followed(p),
         p \in driving => p \in driving',
         \/ requests' = requests
         \/ \E r \in Request : requests' = Append(requests, r) /\ (IsInput(r, p) => p \in driving')
  PROVE  p \in driving' \/ Followed(p)'
<1>1. CASE requests' = requests
  BY <1>1 DEF Followed
<1>2. ASSUME NEW r \in Request, requests' = Append(requests, r), ~IsInput(r, p), Followed(p)
      PROVE  Followed(p)'
  BY <1>2, FollowedAppended DEF Followed
<1> QED BY <1>1, <1>2

\* What p held is let go of in its turn.
LEMMA RemovalKeepsFollowed ==
  ASSUME requests \in Seq(Request), UNCHANGED <<session, queues, pressed>>,
         NEW p \in Peers, p \in driving \/ Followed(p),
         NEW q \in Peers, requests' = Append(requests, RemoveOf(q)), driving' = driving \ {q}
  PROVE  p \in driving' \/ Followed(p)'
<1>1. RemoveOf(q) \in Request
  BY RemoveIsItem, RequestFacts
<1>2. CASE p = q
  BY <1>1, <1>2, FollowedAppended DEF Followed
<1>3. CASE p # q
  <2>1. ~IsInput(RemoveOf(q), p)
    BY <1>3 DEF IsInput, RemoveOf
  <2> QED BY <1>1, <1>3, <2>1, SendKeepsFollowed
<1> QED BY <1>2, <1>3

LEMMA MessageKeepsFollowed ==
  ASSUME ListenTypes, NEW p \in Peers, p \in driving \/ Followed(p), NEW q \in Peers, Message(q)
  PROVE  p \in driving' \/ Followed(p)'
<1>1. requests \in Seq(Request) /\ UNCHANGED <<session, queues, pressed>>
  BY DEF ListenTypes, Message, queueVars, backendVars
<1>2. RemoveOf(q) \in Request /\ ~IsInput(RemoveOf(q), p)
      /\ \A input \in InputsOf(q) : input \in Request /\ input.peer = q
  <2>1. RemoveOf(q) \in Request /\ \A input \in InputsOf(q) : input \in Request /\ input.peer = q
    BY RemoveIsItem, InputIsItem, ItemFacts, RequestFacts
  <2> QED BY <2>1 DEF IsInput, RemoveOf
<1>3. CASE Refuse(q)
  <2>1. driving' = driving /\ (requests' = requests \/ requests' = Append(requests, RemoveOf(q)))
    BY <1>3 DEF Refuse, Send
  <2> QED BY <1>1, <1>2, <2>1, SendKeepsFollowed
<1>4. CASE OnLeave(q)
  BY <1>1, <1>4, RemovalKeepsFollowed DEF OnLeave, NoLongerDriving, Send
<1>5. ASSUME UNCHANGED requests, driving' = driving \/ driving' = driving \cup {q}
      PROVE  p \in driving' \/ Followed(p)'
  BY <1>1, <1>5, SendKeepsFollowed
<1>6. ASSUME NEW input \in InputsOf(q), q \in driving, driving' = driving,
             requests' = Append(requests, input)
      PROVE  p \in driving' \/ Followed(p)'
  <2>1. IsInput(input, p) => p \in driving'
    BY <1>2, <1>6 DEF IsInput
  <2> QED BY <1>1, <1>2, <1>6, <2>1, SendKeepsFollowed
<1>7. CASE OnEnter(q)
  BY <1>3, <1>5, <1>7 DEF OnEnter
<1>8. ASSUME NEW input \in InputsOf(q), OnInput(q, input)
      PROVE  p \in driving' \/ Followed(p)'
  BY <1>3, <1>5, <1>6, <1>8 DEF OnInput, Send
<1> QED BY <1>4, <1>7, <1>8 DEF Message

LEMMA NoticeKeepsFollowed ==
  ASSUME ListenTypes, LinkInv, NEW p \in Peers, p \in driving \/ Followed(p), Notice
  PROVE  p \in driving' \/ Followed(p)'
<1> DEFINE q == Head(notices)[2]
<1>1. /\ requests \in Seq(Request) /\ UNCHANGED <<session, queues, pressed>>
      /\ notices \in Seq(Notices) /\ notices # <<>>
  BY DEF ListenTypes, Notice, queueVars, backendVars, Notices
<1>2. Head(notices) \in Notices
  BY <1>1
<1>3. q \in Peers
  BY <1>2 DEF Notices
<1>4. CASE Head(notices)[1] = "closed" /\ OnClosed(q)
  BY <1>1, <1>3, <1>4, RemovalKeepsFollowed DEF OnClosed, NoLongerDriving, Send
<1>5. CASE Head(notices)[1] = "accept" /\ OnAccept(q)
  <2>1. q \notin peerOf
    BY <1>1, <1>3, <1>5, HeardAccepted DEF LinkInv
  <2>2. driving' = driving
    BY <1>5, <2>1 DEF OnAccept, NoLongerDriving, LinkInv
  <2>3. requests' = requests
    BY <1>5 DEF OnAccept
  <2> QED BY <1>1, <2>2, <2>3, SendKeepsFollowed
<1> QED BY <1>4, <1>5 DEF Notice

LEMMA SortKeepsFollowed ==
  ASSUME ListenTypes, QueueInv, NEW p \in Peers, p \in driving \/ Followed(p), Sort
  PROVE  p \in driving' \/ Followed(p)'
<1> DEFINE head == Head(requests)
<1>1. /\ requests \in Seq(Request) /\ requests # <<>> /\ requests' = Tail(requests)
      /\ UNCHANGED <<driving, pressed>>
  BY DEF ListenTypes, Sort, listenVars, backendVars
<1>2. head \in Request
  BY <1>1
<1> SUFFICES ASSUME Followed(p)
             PROVE  Followed(p)'
  BY <1>1
<1>3. /\ AllFollowed(requests', p)
      /\ Coming(requests, p) /\ head # RemoveOf(p) => Coming(requests', p)
      /\ IsInput(head, p) => Coming(requests', p)
  BY <1>1, FollowedTaken DEF Followed
<1>4. CASE head.kind = "stop" /\ SessionEnds(FALSE)
  <2>1. session' = "ending" /\ queues'[p] = <<>>
    BY <1>4 DEF SessionEnds
  <2> QED BY <1>1, <1>3, <2>1, NothingFollowed DEF Followed
<1>5. CASE head.kind = "reenable" /\ UNCHANGED <<session, restart, queueVars>>
  <2>1. head # RemoveOf(p)
    BY <1>5 DEF RemoveOf
  <2>2. UNCHANGED <<session, queues>>
    BY <1>5 DEF queueVars
  <2> QED BY <1>1, <1>3, <2>1, <2>2 DEF Followed
<1>6. CASE head.kind \notin {"stop", "reenable"} /\ Push(head) /\ UNCHANGED <<session, restart>>
  <2>1. head.peer \in Peers /\ head \in ItemOf(head.peer) /\ queues \in [Peers -> Seq(Request)]
        /\ queues[p] \in Seq(ItemOf(p))
    BY <1>2, <1>6, RequestFacts DEF QueueInv, QueueTypes
  <2>2. queues' = [queues EXCEPT ![head.peer] = Pushed(queues[head.peer], head)]
    BY <1>6 DEF Push
  <2>3. CASE head.peer # p
    <3>1. queues'[p] = queues[p]
      BY <2>1, <2>2, <2>3
    <3>2. head # RemoveOf(p)
      BY <2>3 DEF RemoveOf
    <3> QED BY <1>1, <1>3, <1>6, <3>1, <3>2 DEF Followed
  <2>4. CASE head.peer = p /\ head.kind = "remove"
    <3>1. head = RemoveOf(p) /\ head \in ItemOf(p)
      BY <2>1, <2>4, ItemFacts
    <3>2. queues'[p] = Append(queues[p], head)
      BY <2>1, <2>2, <2>4 DEF Pushed, Merges
    <3>3. Coming(queues'[p], p) /\ AllFollowed(queues'[p], p)
      BY <2>1, <3>1, <3>2, FollowedAppended
    <3> QED BY <1>3, <3>3 DEF Followed
  <2>5. CASE head.peer = p /\ head.kind # "remove"
    <3>1. IsInput(head, p)
      BY <2>1, <2>5, ItemFacts DEF IsInput
    <3> QED BY <1>3, <3>1 DEF Followed
  <2> QED BY <2>3, <2>4, <2>5
<1> QED BY <1>4, <1>5, <1>6 DEF Sort

LEMMA InjectKeepsFollowed ==
  ASSUME QueueInv, BooksInv, ClickInv, NEW p \in Peers, p \in driving \/ Followed(p),
         NEW q \in Peers, Inject(q)
  PROVE  p \in driving' \/ Followed(p)'
<1>1. /\ session = "on" /\ UNCHANGED <<session, scope, driving, consented, requests>>
      /\ turn # <<>> /\ q = Head(turn)
  BY DEF Inject, listenVars
<1> SUFFICES ASSUME Followed(p)
             PROVE  Followed(p)'
  BY <1>1
<1>2. queues[q] # <<>> /\ queues[q] \in Seq(ItemOf(q)) /\ queues \in [Peers -> Seq(Request)]
  BY <1>1, TurnTaken DEF QueueInv, QueueTypes
<1>3. Head(queues[q]) \in ItemOf(q)
  BY <1>2
<1>4. queues'[q] = Tail(queues[q]) \/ queues'[q] = <<>>
  BY <1>2 DEF Inject, Pop, DropPeer
<1>5. \A r \in Peers : r # q => queues'[r] = queues[r]
  BY <1>2 DEF Inject, Pop, DropPeer
<1>6. \A r \in Peers : r # q => pressed'[r] \subseteq pressed[r]
  <2>1. CASE Destroy(q)
    BY <1>1, <2>1, DestroyKeeps
  <2>2. CASE Consume(Head(queues[q]))
    BY <1>1, <1>3, <2>2, ConsumeKeeps
  <2> QED BY <2>1, <2>2 DEF Inject
<1>7. CASE p # q
  BY <1>1, <1>5, <1>6, <1>7 DEF Followed
<1>8. CASE p = q
  <2>1. AllFollowed(queues'[p], p) \/ Coming(requests', p)
    BY <1>1, <1>2, <1>4, <1>8, NothingFollowed, FollowedTaken DEF Followed
  <2>2. CASE Destroy(p)
    <3>1. pressed'[p] = {}
      BY <1>1, <2>2, DestroyKeeps
    <3> QED BY <1>1, <2>1, <3>1 DEF Followed
  <2>3. CASE Head(queues[p]).kind # "remove" /\ Pop(p)
    <3>1. IsInput(Head(queues[p]), p)
      BY <1>3, <1>8, <2>3, ItemFacts DEF IsInput
    <3>2. queues'[p] = Tail(queues[p])
      BY <1>2, <1>8, <2>3 DEF Pop
    <3>3. Coming(queues'[p], p) \/ Coming(requests', p)
      BY <1>1, <1>2, <1>8, <3>1, <3>2, FollowedTaken DEF Followed
    <3> QED BY <1>1, <2>1, <3>3 DEF Followed
  <2> QED BY <1>8, <2>2, <2>3 DEF Inject
<1> QED BY <1>7, <1>8

LEMMA SessionsStep ==
  ASSUME ListenTypes, QueueInv, BooksInv, ClickInv, LinkInv, SessionsInv, [Next]_vars
  PROVE  SessionsInv'
<1> SUFFICES ASSUME NEW p \in Peers
             PROVE  p \in driving' \/ Followed(p)'
  BY DEF SessionsInv
<1>0. (p \in driving \/ Followed(p)) /\ requests \in Seq(Request)
  BY DEF SessionsInv, ListenTypes
<1>1. ASSUME NEW q \in Peers, Message(q) \/ Inject(q)
      PROVE  p \in driving' \/ Followed(p)'
  BY <1>0, <1>1, MessageKeepsFollowed, InjectKeepsFollowed
<1>2. ASSUME NEW q \in Peers, Reap(q)
      PROVE  p \in driving' \/ Followed(p)'
  BY <1>0, <1>2, RemovalKeepsFollowed DEF Reap, Send, NoLongerDriving, queueVars, backendVars
<1>3. CASE Notice \/ Sort
  BY <1>0, <1>3, NoticeKeepsFollowed, SortKeepsFollowed
<1>4. CASE AskSession
  <2>1. ~IsInput(Reenable, p) /\ ~IsInput(StopForMissing, p)
    BY DEF IsInput, Reenable, StopForMissing
  <2>2. UNCHANGED <<driving, session, queues, pressed>>
        /\ (requests' = Append(requests, Reenable) \/ requests' = Append(requests, StopForMissing))
    BY <1>4 DEF AskSession, Send, queueVars, backendVars
  <2> QED BY <1>0, <2>1, <2>2, RequestFacts, SendKeepsFollowed
<1>5. CASE SystemEnds
  <2>1. UNCHANGED <<driving, requests, pressed>> /\ session' = "ending" /\ queues'[p] = <<>>
    BY <1>5 DEF SystemEnds, SessionEnds, listenVars, backendVars
  <2> QED BY <1>0, <2>1, NothingFollowed DEF Followed
<1>6. CASE Terminated
  <2>1. UNCHANGED <<driving, requests, queues>> /\ pressed'[p] = {}
    BY <1>6 DEF Terminated, listenVars, queueVars
  <2> QED BY <1>0, <2>1 DEF Followed
<1>7. CASE WhileOff \/ WhileStarting
  <2>1. /\ session \notin {"on", "ending"} /\ UNCHANGED <<driving, queues, pressed>>
        /\ requests # <<>> /\ requests' = Tail(requests)
    BY <1>7 DEF WhileOff, WhileStarting, listenVars, queueVars, backendVars
  <2>2. queues[p] = <<>> /\ pressed[p] = {}
    BY <2>1 DEF QueueInv, QueuedWhileOn, BooksInv, HoldsAnything
  <2> QED BY <1>0, <2>1, <2>2, FollowedTaken, NothingFollowed DEF Followed
<1>8. CASE RestartAfterTheShield \/ Start \/ CreateClients
  <2>1. /\ session \notin {"on", "ending"} /\ UNCHANGED <<driving, queues, pressed, requests>>
    BY <1>8 DEF RestartAfterTheShield, Start, CreateClients, listenVars, queueVars, backendVars
  <2>2. pressed[p] = {}
    BY <2>1 DEF BooksInv, HoldsAnything
  <2> QED BY <1>0, <2>1, <2>2 DEF Followed
<1>9. ASSUME \/ \E q \in Peers : Accept(q) \/ LinkEnds(q) \/ TrustChanges(q) \/ Cut(q)
             \/ HearSession \/ KeyRepeats \/ WidenTrust \/ QuietPasses \/ UNCHANGED vars
      PROVE  p \in driving' \/ Followed(p)'
  <2>1. UNCHANGED <<driving, queues, pressed, requests, session>>
    BY <1>9 DEF Accept, LinkEnds, TrustChanges, Cut, HearSession, KeyRepeats, WidenTrust,
                QuietPasses, vars, listenVars, queueVars, backendVars
  <2> QED BY <1>0, <2>1 DEF Followed
<1> QED BY <1>1, <1>2, <1>3, <1>4, <1>5, <1>6, <1>7, <1>8, <1>9, Zenon DEF Next

LEMMA SessionsInit ==
  ASSUME Init
  PROVE  LinkInv /\ SessionsInv
<1>1. /\ notices = <<>> /\ peerOf = {} /\ driving = {} /\ requests = <<>>
      /\ \A p \in Peers : links[p] = 0 /\ readers[p] = 0 /\ queues[p] = <<>> /\ pressed[p] = {}
  BY DEF Init
<1>2. LinkInv
  BY <1>1 DEF LinkInv, InOrder, EndsClosed
<1>3. SessionsInv
  BY <1>1, NothingFollowed DEF SessionsInv, Followed
<1> QED BY <1>2, <1>3

\* For any peers, keys and backend, with one link at a time from an address: what
\* a peer holds is on its way up once its session is over, however it ended
\* (ListenTask::run, EmulationTask).  A second link from the same address ends
\* the session of the first with nothing let go.
THEOREM NothingOutlivesItsSession ==
  ASSUME MaxLinks <= 1
  PROVE  Spec => []HeldOnlyWhileCrossed
<1>1. Init => LinkInv /\ SessionsInv
  BY SessionsInit
<1>2. /\ ListenTypes /\ QueueInv /\ BooksInv /\ ClickInv
      /\ LinkInv /\ SessionsInv /\ [Next]_vars
      => (LinkInv /\ SessionsInv)'
  BY LinkInvStep, SessionsStep
<1>3. SessionsInv => HeldOnlyWhileCrossed
  BY DEF SessionsInv, Followed, Coming, HeldOnlyWhileCrossed, LetGoIsComing
<1> QED BY <1>1, <1>2, <1>3, BooksInvariant, PTL DEF Spec

====
