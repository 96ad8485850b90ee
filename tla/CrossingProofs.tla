---- MODULE CrossingProofs ----
(***************************************************************************)
(* Driving another machine, for any devices, keys, links and queues, with  *)
(* one link at a time from an address: no input is read outside a crossing *)
(* the peer took, and what a peer holds when a crossing ends is on its way *)
(* up.                                                                     *)
(***************************************************************************)
EXTENDS Crossing, SequenceTheorems, TLAPS

\* A peer lists a link only once the one before it has ended there.
OneAtATime == Linger = FALSE

----------------------------------------------------------------------------
(* What a link carries *)

Kinds == {"enter", "leave", "move", "down", "up"}
FrameSet == [kind : Kinds, keys : SUBSET Inputs]
IsInput(f) == f.kind \in {"move", "down"}

\* After n of the frames s the peer is crossed onto, if it was (x) or was not
\* before them.
Live(s, x, n) ==
  \/ x /\ \A i \in 1..n : s[i].kind # "leave"
  \/ \E j \in 1..n : s[j].kind = "enter" /\ \A i \in j+1..n : s[i].kind # "leave"

\* Every input in s is read while the peer is.
Ordered(s, x) == \A n \in 1..Len(s) : IsInput(s[n]) => Live(s, x, n - 1)

\* What the peer holds (h) or will press by s, it will let go of by s.
Clear(s, h) ==
  \/ ~h /\ \A i \in 1..Len(s) : s[i].kind # "down"
  \/ \E j \in 1..Len(s) : s[j].kind = "leave" /\ \A i \in j+1..Len(s) : s[i].kind # "down"

----------------------------------------------------------------------------
(* The invariant *)

LinkIds == 1..MaxLinks
EventSet == {Begin, Move} \cup Gestures
AnswerSet == Clients \X {"ack", "pong", "leave"} \X Nat

LinkType ==
  /\ link \in [Clients -> Nat] /\ made \in [Clients -> Nat] /\ accepted \in [Clients -> Nat]
  /\ listed \in [Clients -> SUBSET Nat] /\ crossed \subseteq Clients
  /\ held \in [Clients -> SUBSET Inputs]
  /\ active \in Clients \cup {None} /\ ackedLink \in Nat
  /\ state \in {"WaitingForAck", "Sending"}
  /\ out \in [Clients -> [LinkIds -> Seq(FrameSet)]]
  /\ heard \in Seq(AnswerSet)

BookType ==
  /\ captured \in Clients \cup {None}
  /\ events \in Seq(Clients \X EventSet)
  /\ pressed \subseteq Keys /\ buttons \subseteq Buttons

CrossingType == LinkType /\ BookType

\* Links come one after the other, at both ends.
LinkOrder ==
  \A c \in Clients :
    /\ link[c] \in {0, made[c]} /\ made[c] <= MaxLinks
    /\ accepted[c] <= made[c] /\ listed[c] \subseteq {accepted[c]} \ {0}
    /\ \A l \in LinkIds : l > made[c] => out[c][l] = <<>>

\* An answer came on a link that was made.
HeardOrder == \A i \in 1..Len(heard) : heard[i][3] <= made[heard[i][1]]

\* So did the Ack of the crossing under way.
AckedOrder == \A c \in Clients : (active = c /\ state = "Sending") => ackedLink <= made[c]

\* A link whose frames the peer may still read, and its session there.
Readable(c, l) == l \in listed[c] \/ l > accepted[c]
Session(c, l) == l \in listed[c] /\ c \in crossed

FramesOrdered ==
  \A c \in Clients, l \in LinkIds : Readable(c, l) => Ordered(out[c][l], Session(c, l))

\* Nothing about a crossing was said on the link l of c yet.
Untouched(c, l) ==
  /\ \A i \in 1..Len(out[c][l]) : out[c][l][i].kind \notin {"enter", "leave"}
  /\ ~Session(c, l)
  /\ \A i \in 1..Len(heard) : heard[i] # <<c, "ack", l>>
  /\ ~(state = "Sending" /\ ackedLink = l)

\* The link of the crossing under way: what was last said there is an Enter.
OnCourse(c) ==
  LET l == link[c] IN
  (active = c /\ l # 0 /\ Readable(c, l)) =>
    Untouched(c, l) \/ Live(out[c][l], Session(c, l), Len(out[c][l]))

InputInv ==
  /\ CrossingType /\ LinkOrder /\ HeardOrder /\ AckedOrder /\ FramesOrdered
  /\ \A c \in Clients : OnCourse(c)

\* What the peer c holds by the link l.
Holds(c, l) == l \in listed[c] /\ held[c] # {}

\* A peer with no link holds nothing; what a peer holds by its link is let go of
\* by what it was sent, or the crossing under way was acknowledged, and then
\* leaving it reaches the peer.
Releases(c) ==
  /\ listed[c] = {} => held[c] = {}
  /\ LET l == link[c] IN
     (l # 0 /\ Readable(c, l)) =>
       (active = c /\ ackedAt = c) \/ Clear(out[c][l], Holds(c, l))
  /\ (active = c /\ state = "Sending" /\ ackedAt # c) => (link[c] # ackedLink \/ link[c] = 0)

ReleaseInv == InputInv /\ \A c \in Clients : Releases(c)

\* The pointer leaves a device before it crosses onto another.
LeavesFirst == active # None => active' \in {None, active}

----------------------------------------------------------------------------
(* Sequences of frames *)

\* A frame goes out behind the others.
LEMMA Sending ==
  ASSUME NEW s \in Seq(FrameSet), NEW f \in FrameSet
  PROVE  /\ s \o <<f>> \in Seq(FrameSet) /\ Len(s \o <<f>>) = Len(s) + 1 /\ Len(s) \in Nat
         /\ (s \o <<f>>)[Len(s) + 1] = f
         /\ \A i \in 1..Len(s) : (s \o <<f>>)[i] = s[i]
OBVIOUS

\* The first one is read.
LEMMA Reading ==
  ASSUME NEW s \in Seq(FrameSet), s # <<>>
  PROVE  /\ Tail(s) \in Seq(FrameSet) /\ Len(Tail(s)) = Len(s) - 1 /\ Len(s) \in Nat /\ Len(s) >= 1
         /\ Head(s) = s[1] /\ s[1] \in FrameSet
         /\ \A i \in 1..Len(Tail(s)) : Tail(s)[i] = s[i + 1]
OBVIOUS

\* Whether the peer is crossed onto after n frames is settled by those n.
LEMMA LiveSame ==
  ASSUME NEW s, NEW t, NEW x, NEW n \in Nat, \A i \in 1..n : t[i] = s[i]
  PROVE  Live(t, x, n) <=> Live(s, x, n)
BY DEF Live

\* What a frame put behind the others does.
LEMMA SendKeeps ==
  ASSUME NEW s \in Seq(FrameSet), NEW f \in FrameSet, NEW x, Ordered(s, x),
         IsInput(f) => Live(s, x, Len(s))
  PROVE  Ordered(s \o <<f>>, x)
<1> DEFINE t == s \o <<f>>
<1>1. /\ Len(t) = Len(s) + 1 /\ Len(s) \in Nat /\ t[Len(s) + 1] = f
      /\ \A i \in 1..Len(s) : t[i] = s[i]
  BY Sending
<1> HIDE DEF t
<1>2. ASSUME NEW n \in 1..Len(t), IsInput(t[n]) PROVE Live(t, x, n - 1)
  <2>1. n - 1 \in Nat /\ n - 1 <= Len(s) /\ \A i \in 1..n-1 : t[i] = s[i]
    BY <1>1
  <2>2. Live(t, x, n - 1) <=> Live(s, x, n - 1)
    BY <2>1, LiveSame
  <2>3. CASE n = Len(s) + 1
    BY <1>1, <1>2, <2>2, <2>3
  <2>4. CASE n \in 1..Len(s)
    BY <1>1, <1>2, <2>2, <2>4 DEF Ordered
  <2> QED BY <1>1, <2>3, <2>4
<1>3. Ordered(t, x)
  BY <1>2 DEF Ordered
<1> QED BY <1>3 DEF t

LEMMA SendLives ==
  ASSUME NEW s \in Seq(FrameSet), NEW f \in FrameSet, NEW x,
         f.kind = "enter" \/ (f.kind # "leave" /\ Live(s, x, Len(s)))
  PROVE  Live(s \o <<f>>, x, Len(s \o <<f>>))
<1> DEFINE t == s \o <<f>>
<1>1. /\ Len(t) = Len(s) + 1 /\ Len(s) \in Nat /\ t[Len(s) + 1] = f
      /\ \A i \in 1..Len(s) : t[i] = s[i]
  BY Sending
<1> HIDE DEF t
<1>2. CASE f.kind = "enter"
  <2>1. Len(t) \in 1..Len(t) /\ t[Len(t)].kind = "enter" /\ \A i \in Len(t)+1..Len(t) : t[i].kind # "leave"
    BY <1>1, <1>2
  <2>2. Live(t, x, Len(t))
    BY <2>1 DEF Live
  <2> QED BY <2>2 DEF t
<1>3. CASE f.kind # "leave" /\ x /\ \A i \in 1..Len(s) : s[i].kind # "leave"
  <2>1. \A i \in 1..Len(t) : t[i].kind # "leave"
    BY <1>1, <1>3
  <2>2. Live(t, x, Len(t))
    BY <1>3, <2>1 DEF Live
  <2> QED BY <2>2 DEF t
<1>4. ASSUME f.kind # "leave", NEW j \in 1..Len(s), s[j].kind = "enter", \A i \in j+1..Len(s) : s[i].kind # "leave"
      PROVE  Live(t, x, Len(t))
  <2>1. j \in 1..Len(t) /\ t[j].kind = "enter"
    BY <1>1, <1>4
  <2>2. \A i \in j+1..Len(t) : t[i].kind # "leave"
    BY <1>1, <1>4
  <2> QED BY <2>1, <2>2 DEF Live
<1> QED BY <1>2, <1>3, <1>4 DEF Live, t

\* What the peer makes of its session by reading f.
After(f, x) == f.kind = "enter" \/ (x /\ f.kind # "leave")

LEMMA ReadLives ==
  ASSUME NEW s \in Seq(FrameSet), s # <<>>, NEW x \in BOOLEAN, NEW n \in 0..Len(s)-1, Live(s, x, n + 1)
  PROVE  Live(Tail(s), After(Head(s), x), n)
<1> DEFINE t == Tail(s)
<1>1. /\ Len(t) = Len(s) - 1 /\ Len(s) \in Nat /\ Len(s) >= 1 /\ Head(s) = s[1]
      /\ \A i \in 1..Len(t) : t[i] = s[i + 1]
  BY Reading
<1> HIDE DEF t
<1>2. \A i \in 1..n : i \in 1..Len(t) /\ i + 1 \in 1..n+1 /\ t[i] = s[i + 1]
  BY <1>1
<1>3. CASE x /\ \A i \in 1..n+1 : s[i].kind # "leave"
  <2>1. 1 \in 1..n+1
    OBVIOUS
  <2>2. After(Head(s), x)
    BY <1>1, <1>3, <2>1 DEF After
  <2>3. \A i \in 1..n : t[i].kind # "leave"
    BY <1>2, <1>3
  <2> QED BY <2>2, <2>3 DEF Live, t
<1>4. ASSUME NEW j \in 1..n+1, s[j].kind = "enter", \A i \in j+1..n+1 : s[i].kind # "leave"
      PROVE  Live(t, After(Head(s), x), n)
  <2>1. CASE j = 1
    <3>1. After(Head(s), x)
      BY <1>1, <1>4, <2>1 DEF After
    <3>2. \A i \in 1..n : i + 1 \in j+1..n+1
      BY <2>1
    <3>3. \A i \in 1..n : t[i].kind # "leave"
      BY <1>2, <1>4, <3>2
    <3> QED BY <3>1, <3>3 DEF Live
  <2>2. CASE j > 1
    <3>1. j - 1 \in 1..n /\ (j - 1) + 1 = j
      BY <2>2
    <3>2. t[j - 1].kind = "enter"
      BY <1>2, <1>4, <3>1
    <3>3. \A i \in (j-1)+1..n : i \in 1..n /\ i + 1 \in j+1..n+1
      BY <2>2
    <3>4. \A i \in (j-1)+1..n : t[i].kind # "leave"
      BY <1>2, <1>4, <3>3
    <3> QED BY <3>1, <3>2, <3>4 DEF Live
  <2> QED BY <2>1, <2>2
<1> QED BY <1>3, <1>4 DEF Live, t

LEMMA ReadKeeps ==
  ASSUME NEW s \in Seq(FrameSet), s # <<>>, NEW x \in BOOLEAN, Ordered(s, x)
  PROVE  Ordered(Tail(s), After(Head(s), x))
<1> DEFINE t == Tail(s)
<1>1. /\ Len(t) = Len(s) - 1 /\ Len(s) \in Nat /\ Len(s) >= 1
      /\ \A i \in 1..Len(t) : t[i] = s[i + 1]
  BY Reading
<1> SUFFICES ASSUME NEW n \in 1..Len(t), IsInput(t[n]) PROVE Live(t, After(Head(s), x), n - 1)
  BY DEF Ordered
<1>2. n + 1 \in 1..Len(s) /\ IsInput(s[n + 1]) /\ n - 1 \in 0..Len(s)-1 /\ (n - 1) + 1 = n /\ (n + 1) - 1 = n
  BY <1>1 DEF IsInput
<1>3. Live(s, x, n)
  BY <1>2 DEF Ordered
<1> HIDE DEF t
<1>4. Live(s, x, (n - 1) + 1)
  BY <1>2, <1>3
<1> QED BY <1>2, <1>4, ReadLives DEF t

\* Two frames go out as one and then the other.
LEMMA TwoByTwo ==
  ASSUME NEW s \in Seq(FrameSet), NEW f \in FrameSet, NEW g \in FrameSet
  PROVE  s \o <<f, g>> = (s \o <<f>>) \o <<g>>
<1>1. Len(s \o <<f, g>>) = Len((s \o <<f>>) \o <<g>>)
  OBVIOUS
<1>2. \A i \in 1..Len(s \o <<f, g>>) : (s \o <<f, g>>)[i] = ((s \o <<f>>) \o <<g>>)[i]
  OBVIOUS
<1>3. s \o <<f, g>> \in Seq(FrameSet) /\ (s \o <<f>>) \o <<g>> \in Seq(FrameSet)
  OBVIOUS
<1> QED BY <1>1, <1>2, <1>3, SeqEqual

\* A frame that presses nothing leaves what is on its way up as it is, and a
\* Leave brings up everything before it.
LEMMA SendClears ==
  ASSUME NEW s \in Seq(FrameSet), NEW f \in FrameSet, NEW h,
         f.kind = "leave" \/ (f.kind # "down" /\ Clear(s, h))
  PROVE  Clear(s \o <<f>>, h)
<1> DEFINE t == s \o <<f>>
<1>1. /\ Len(t) = Len(s) + 1 /\ Len(s) \in Nat /\ t[Len(s) + 1] = f
      /\ \A i \in 1..Len(s) : t[i] = s[i]
  BY Sending
<1> HIDE DEF t
<1>2. CASE f.kind = "leave"
  <2>1. Len(t) \in 1..Len(t) /\ t[Len(t)].kind = "leave" /\ \A i \in Len(t)+1..Len(t) : t[i].kind # "down"
    BY <1>1, <1>2
  <2>2. Clear(t, h)
    BY <2>1 DEF Clear
  <2> QED BY <2>2 DEF t
<1>3. CASE f.kind # "down" /\ ~h /\ \A i \in 1..Len(s) : s[i].kind # "down"
  <2>1. \A i \in 1..Len(t) : t[i].kind # "down"
    BY <1>1, <1>3
  <2>2. Clear(t, h)
    BY <1>3, <2>1 DEF Clear
  <2> QED BY <2>2 DEF t
<1>4. ASSUME f.kind # "down", NEW j \in 1..Len(s), s[j].kind = "leave", \A i \in j+1..Len(s) : s[i].kind # "down"
      PROVE  Clear(t, h)
  <2>1. j \in 1..Len(t) /\ t[j].kind = "leave"
    BY <1>1, <1>4
  <2>2. \A i \in j+1..Len(t) : t[i].kind # "down"
    BY <1>1, <1>4
  <2> QED BY <2>1, <2>2 DEF Clear
<1> QED BY <1>2, <1>3, <1>4 DEF Clear, t

\* Reading keeps it so: nothing is held after a Leave, nor, where nothing was,
\* after a frame that presses nothing.
LEMMA ReadClears ==
  ASSUME NEW s \in Seq(FrameSet), s # <<>>, NEW h, NEW g, Clear(s, h),
         Head(s).kind = "leave" => ~g,
         (~h /\ Head(s).kind # "down") => ~g
  PROVE  Clear(Tail(s), g)
<1> DEFINE t == Tail(s)
<1>1. /\ Len(t) = Len(s) - 1 /\ Len(s) \in Nat /\ Len(s) >= 1 /\ Head(s) = s[1]
      /\ \A i \in 1..Len(t) : t[i] = s[i + 1]
  BY Reading
<1> HIDE DEF t
<1>2. CASE ~h /\ \A i \in 1..Len(s) : s[i].kind # "down"
  <2>1. ~g
    BY <1>1, <1>2
  <2>2. \A i \in 1..Len(t) : t[i].kind # "down"
    BY <1>1, <1>2
  <2> QED BY <2>1, <2>2 DEF Clear, t
<1>3. ASSUME NEW j \in 1..Len(s), s[j].kind = "leave", \A i \in j+1..Len(s) : s[i].kind # "down"
      PROVE  Clear(t, g)
  <2>1. CASE j = 1
    <3>1. ~g
      BY <1>1, <1>3, <2>1
    <3>2. \A i \in 1..Len(t) : t[i].kind # "down"
      BY <1>1, <1>3, <2>1
    <3> QED BY <3>1, <3>2 DEF Clear
  <2>2. CASE j > 1
    <3>1. j - 1 \in 1..Len(t) /\ (j - 1) + 1 = j
      BY <1>1, <2>2
    <3>2. t[j - 1].kind = "leave"
      BY <1>1, <1>3, <3>1
    <3>3. \A i \in (j-1)+1..Len(t) : t[i].kind # "down"
      BY <1>1, <1>3, <2>2
    <3> QED BY <3>1, <3>2, <3>3 DEF Clear
  <2> QED BY <2>1, <2>2
<1> QED BY <1>2, <1>3 DEF Clear, t

----------------------------------------------------------------------------
(* What a step of the capture task does to its links *)

HeardOn == heard' = heard \/ (heard # <<>> /\ heard' = Tail(heard))
Settled == \/ state' = state /\ ackedLink' = ackedLink
           \/ state' = "WaitingForAck" /\ ackedLink' = 0

\* Nothing is sent and nobody is left.
Stays == UNCHANGED <<active, ackedAt, out, link>> /\ Settled

\* The device the pointer is on is told, or its link is down, or it did not
\* acknowledge the crossing, or its link is closed.
Leaves ==
  /\ active' = None /\ ackedLink' = 0 /\ state' \in {state, "WaitingForAck"}
  /\ \/ /\ active \in Clients /\ link[active] # 0 /\ link' = link
        /\ \E keys \in SUBSET Inputs : Sent(active, <<Ups(keys), Leave>>)
     \/ /\ out' = out /\ link' = link
        /\ active = None \/ link[active] = 0 \/ ackedAt # active
     \/ out' = out /\ active \in Clients /\ link' = [link EXCEPT ![active] = 0]

Crosses(c) ==
  /\ active # c /\ active' = c /\ state' = "WaitingForAck"
  /\ UNCHANGED <<ackedAt, ackedLink, link>>
  /\ link[c] # 0 /\ Sent(c, <<Enter>>)

\* An Enter, or input on the link that acknowledged the crossing.
Sends(c) ==
  /\ active = c /\ UNCHANGED <<active, ackedAt, link>>
  /\ link[c] # 0
  /\ \/ Settled /\ Sent(c, <<Enter>>)
     \/ /\ state = "Sending" /\ ackedLink = link[c] /\ UNCHANGED <<state, ackedLink>>
        /\ \E f \in FrameSet : f.kind \notin {"enter", "leave"} /\ Sent(c, <<f>>)

Acks(c, l) ==
  /\ heard # <<>> /\ Head(heard) = <<c, "ack", l>> /\ heard' = Tail(heard)
  /\ active \in {None, c} /\ state' = "Sending"
  /\ UNCHANGED <<active, out, link>>
  /\ IF active = c THEN (link[c] # 0 => ackedAt' = c) /\ ackedLink' = l
     ELSE UNCHANGED <<ackedAt, ackedLink>>

Driven ==
  /\ UNCHANGED <<made, accepted, listed, crossed, held>>
  /\ HeardOn
  /\ Stays \/ Leaves \/ \E c \in Clients : Crosses(c) \/ Sends(c) \/ \E l \in Nat : Acks(c, l)

LEMMA PressedTyped ==
  ASSUME BookType, NEW event
  PROVE  PressedAfter(event) \in SUBSET Keys
BY DEF BookType, PressedAfter

LEMMA LeavesActive ==
  ASSUME CrossingType, NEW keys \in SUBSET Keys, LeaveActive(keys),
         state' \in {state, "WaitingForAck"}
  PROVE  Leaves
<1>1. buttons \cup keys \in SUBSET Inputs
  BY DEF CrossingType, BookType, Inputs
<1>2. active \in Clients \cup {None}
  BY DEF CrossingType, LinkType
<1>3. active' = None /\ ackedLink' = 0
  BY DEF LeaveActive
<1>4. CASE active = None /\ UNCHANGED <<out, connVars>>
  BY <1>3, <1>4 DEF Leaves, connVars
<1>5. CASE active # None /\ LeavingReaches(active) /\ Sent(active, <<Ups(buttons \cup keys), Leave>>) /\ UNCHANGED connVars
  <2>1. link[active] # 0
    BY <1>5 DEF LeavingReaches, CanSend
  <2>2. link' = link
    BY <1>5 DEF connVars
  <2> QED BY <1>1, <1>2, <1>3, <1>5, <2>1, <2>2 DEF Leaves
<1>6. CASE active # None /\ ~LeavingReaches(active) /\ UNCHANGED connVars /\ UNCHANGED out
  <2>1. link[active] = 0 \/ ackedAt # active
    BY <1>6 DEF LeavingReaches
  <2> QED BY <1>3, <1>6, <2>1 DEF Leaves, connVars
<1>7. CASE active # None /\ Disconnected(active) /\ UNCHANGED out
  BY <1>2, <1>3, <1>7 DEF Leaves, Disconnected
<1> QED BY <1>4, <1>5, <1>6, <1>7 DEF LeaveActive

LEMMA FailedLeaves ==
  ASSUME CrossingType, NEW keys \in SUBSET Keys, active # None, SendFailed(active, keys),
         state' \in {state, "WaitingForAck"}
  PROVE  Leaves
<1>1. CASE LeaveActive(keys)
  BY <1>1, LeavesActive
<1>2. CASE Disconnected(active) /\ active' = None /\ ackedLink' = 0 /\ UNCHANGED out
  BY <1>2 DEF Leaves, Disconnected, CrossingType, LinkType
<1> QED BY <1>1, <1>2 DEF SendFailed

\* What goes out for an event.
LEMMA FrameSent ==
  ASSUME CrossingType, NEW c \in Clients, NEW event \in EventSet, active = c, link[c] # 0, Settle(c),
         Sent(c, <<FrameOf(c, event)>>), UNCHANGED <<active, ackedAt, link>>
  PROVE  Sends(c)
<1>1. Settled
  BY DEF Settle, StateNow, Settled
<1>2. CASE FrameOf(c, event) = Enter
  BY <1>1, <1>2 DEF Sends
<1>3. CASE FrameOf(c, event) # Enter
  <2>1. event # Begin /\ StateNow(c) # "WaitingForAck" /\ FrameOf(c, event) = Frame(event)
    BY <1>3 DEF FrameOf
  <2>2. ~Relinked(c)
    BY <2>1 DEF StateNow
  <2>3. UNCHANGED <<state, ackedLink>>
    BY <2>2 DEF Settle, StateNow
  <2>4. state = "Sending" /\ ackedLink = link[c]
    BY <2>1, <2>2 DEF StateNow, Relinked, CrossingType, LinkType
  <2>5. event.kind \in {"move", "down", "up"} /\ (event.key = "none" \/ event.key \in Inputs)
    BY <2>1, CrossingAssumption DEF EventSet, Begin, Move, Event, Inputs
  <2>6. Frame(event) \in FrameSet /\ Frame(event).kind \notin {"enter", "leave"}
    BY <2>5 DEF Frame, FrameSet, Kinds
  <2> QED BY <2>1, <2>3, <2>4, <2>6 DEF Sends
<1> QED BY <1>2, <1>3

----------------------------------------------------------------------------
(* The steps of the capture task are Driven *)

LEMMA HandleEventDriven ==
  ASSUME CrossingType, HandleEvent
  PROVE  Driven
<1>1. PICK c, event : Head(events) = <<c, event>> /\ c \in Clients /\ event \in EventSet
  <2>1. Head(events) \in Clients \X EventSet
    BY DEF HandleEvent, CrossingType, BookType
  <2> QED BY <2>1
<1> DEFINE now == PressedAfter(event)
<1>2. now \in SUBSET Keys
  BY PressedTyped DEF CrossingType
<1> HIDE DEF now
<1>3. UNCHANGED <<made, accepted, listed, crossed, held>> /\ HeardOn
  BY DEF HandleEvent, peerVars, HeardOn
<1>4. \/ Unclaimed(c, event, now)
      \/ ByBind(now)
      \/ Refused(c, now)
      \/ active # c /\ NewCrossing(c, now)
      \/ Ignored(c, event, now)
      \/ Forwarded(c, event, now)
  BY <1>1 DEF HandleEvent, now
<1>5. ASSUME Unclaimed(c, event, now) \/ Ignored(c, event, now) PROVE Stays
  BY <1>5 DEF Unclaimed, Ignored, Stays, Settled, crossingVars, connVars
<1>6. ASSUME ByBind(now) \/ Refused(c, now) PROVE Leaves
  <2>1. LeaveActive(now) /\ state' = state
    BY <1>6 DEF ByBind, Refused, ReleaseCapture
  <2> QED BY <1>2, <2>1, LeavesActive
<1>7. ASSUME active # c, NewCrossing(c, now) PROVE Crosses(c)
  BY <1>7 DEF NewCrossing, CannotCross, Crosses, connVars
<1>8. ASSUME Forwarded(c, event, now) PROVE Stays \/ Leaves \/ Sends(c)
  <2>1. active = c /\ active # None
    BY <1>1, <1>8, CrossingAssumption DEF Forwarded
  <2>2. CASE Settle(c) /\ UNCHANGED <<active, ackedAt, connVars, out>>
    BY <2>2 DEF Settle, StateNow, Stays, Settled, connVars
  <2>3. CASE CanSend(c) /\ Settle(c) /\ Sent(c, <<FrameOf(c, event)>>) /\ UNCHANGED <<active, ackedAt, connVars>>
    <3>1. link[c] # 0 /\ UNCHANGED link
      BY <2>3 DEF CanSend, connVars
    <3> QED BY <1>1, <2>1, <2>3, <3>1, FrameSent
  <2>4. CASE SendFailed(c, now) /\ state' = StateNow(c)
    <3>1. state' \in {state, "WaitingForAck"}
      BY <2>4 DEF StateNow
    <3> QED BY <1>2, <2>1, <2>4, <3>1, FailedLeaves
  <2> QED BY <1>8, <2>2, <2>3, <2>4 DEF Forwarded
<1> QED BY <1>1, <1>3, <1>4, <1>5, <1>6, <1>7, <1>8 DEF Driven

LEMMA HearDriven ==
  ASSUME CrossingType, Hear
  PROVE  Driven
<1>1. PICK c, what, l : Head(heard) = <<c, what, l>> /\ c \in Clients /\ l \in Nat
  <2>1. Head(heard) \in AnswerSet
    BY DEF Hear, CrossingType, LinkType
  <2> QED BY <2>1 DEF AnswerSet
<1>2. UNCHANGED <<made, accepted, listed, crossed, held>> /\ heard # <<>> /\ heard' = Tail(heard)
  BY DEF Hear, peerVars
<1>3. \/ UNCHANGED <<captured, pressed, crossingVars, unanswered, connVars, out>>
      \/ what = "ack" /\ active \in {None, c} /\ OnAck(c, l)
      \/ OnPong(c, l)
      \/ OnLeave
  BY <1>1 DEF Hear
<1>4. CASE UNCHANGED <<captured, pressed, crossingVars, unanswered, connVars, out>>
  BY <1>2, <1>4 DEF Driven, HeardOn, Stays, Settled, crossingVars, connVars
<1>5. ASSUME what = "ack", active \in {None, c}, OnAck(c, l) PROVE Acks(c, l)
  BY <1>1, <1>2, <1>5 DEF OnAck, Acks, connVars
<1>6. ASSUME OnPong(c, l) PROVE Stays \/ Leaves \/ Sends(c)
  <2>1. CASE UNCHANGED <<captured, pressed, crossingVars, connVars, out>>
    BY <2>1 DEF Stays, Settled, crossingVars, connVars
  <2>2. CASE active = c /\ CanSend(c) /\ Sent(c, <<Enter>>)
             /\ UNCHANGED <<captured, pressed, active, state, awaiting, ackedAt, ackedLink, buttons, connVars>>
    BY <2>2 DEF CanSend, Sends, Settled, connVars
  <2>3. CASE active = c /\ SendFailed(c, pressed) /\ UNCHANGED state
    <3>1. active # None /\ pressed \in SUBSET Keys
      BY <1>1, <2>3, CrossingAssumption DEF CrossingType, BookType
    <3> QED BY <2>3, <3>1, FailedLeaves
  <2> QED BY <1>6, <2>1, <2>2, <2>3 DEF OnPong
<1>7. ASSUME OnLeave PROVE Leaves
  <2>1. LeaveActive(pressed) /\ state' = state /\ pressed \in SUBSET Keys
    BY <1>7 DEF OnLeave, ReleaseCapture, CrossingType, BookType
  <2> QED BY <2>1, LeavesActive
<1> QED BY <1>1, <1>2, <1>3, <1>4, <1>5, <1>6, <1>7 DEF Driven, HeardOn

\* What else the capture task is asked, and what does not reach a link.
LEMMA OthersDriven ==
  ASSUME CrossingType, NEW c,
         \/ LeaseChanges(c) \/ (c \in Clients /\ PushEdge(c)) \/ BackoffEnds(c) \/ SwitchOff(c) \/ SwitchOn(c)
         \/ UserInput \/ GiveUp \/ AskRelease \/ SessionEnds \/ SessionStarts
  PROVE  Driven
<1>1. pressed \in SUBSET Keys
  BY DEF CrossingType, BookType
<1>2. ASSUME LeaveActive(pressed), state' = state, UNCHANGED <<made, heard, peerVars>> PROVE Driven
  <2>1. Leaves
    BY <1>1, <1>2, LeavesActive
  <2> QED BY <1>2, <2>1 DEF Driven, HeardOn, peerVars
<1>3. ASSUME UNCHANGED <<active, ackedAt, out, link, state, ackedLink, made, heard, peerVars>> PROVE Driven
  BY <1>3 DEF Driven, HeardOn, peerVars, Stays, Settled
<1>4. CASE LeaseChanges(c) \/ PushEdge(c) \/ BackoffEnds(c) \/ SwitchOn(c) \/ UserInput \/ SessionStarts
  BY <1>3, <1>4 DEF LeaseChanges, PushEdge, BackoffEnds, SwitchOn, UserInput, SessionStarts, crossingVars, connVars
<1>5. CASE SwitchOff(c)
  BY <1>2, <1>3, <1>5 DEF SwitchOff, ReleaseCapture, connVars
<1>6. CASE GiveUp
  BY <1>2, <1>3, <1>6 DEF GiveUp, ReleaseCapture, connVars
<1>7. CASE AskRelease \/ SessionEnds
  BY <1>2, <1>7 DEF AskRelease, SessionEnds, ReleaseCapture
<1> QED BY <1>4, <1>5, <1>6, <1>7

----------------------------------------------------------------------------
(* Types *)

LEMMA HandleEventBooks ==
  ASSUME CrossingType, HandleEvent
  PROVE  BookType'
<1>1. PICK c, event : Head(events) = <<c, event>> /\ c \in Clients /\ event \in EventSet
  <2>1. Head(events) \in Clients \X EventSet
    BY DEF HandleEvent, CrossingType, BookType
  <2> QED BY <2>1
<1> DEFINE now == PressedAfter(event)
<1>2. now \in SUBSET Keys
  BY PressedTyped DEF CrossingType
<1> HIDE DEF now
<1>3. events' \in Seq(Clients \X EventSet)
  BY DEF HandleEvent, CrossingType, BookType
<1>4. \/ Unclaimed(c, event, now)
      \/ ByBind(now)
      \/ Refused(c, now)
      \/ NewCrossing(c, now)
      \/ Ignored(c, event, now)
      \/ Forwarded(c, event, now)
  BY <1>1 DEF HandleEvent, now
<1> DEFINE Rest == captured' \in {captured, None} /\ pressed' \in {now, {}} /\ buttons' \subseteq Buttons
<1>5. CASE Unclaimed(c, event, now) \/ Ignored(c, event, now) \/ NewCrossing(c, now)
  <2>1. Rest
    BY <1>5 DEF Unclaimed, Ignored, NewCrossing, crossingVars, CrossingType, BookType
  <2> QED BY <1>2, <1>3, <2>1 DEF CrossingType, BookType
<1>6. CASE ByBind(now) \/ Refused(c, now)
  <2>1. Rest
    BY <1>6 DEF ByBind, Refused, ReleaseCapture, LeaveActive
  <2> QED BY <1>2, <1>3, <2>1 DEF CrossingType, BookType
<1>7. CASE Forwarded(c, event, now)
  <2>1. captured' \in {captured, None} /\ pressed' \in {now, {}}
    BY <1>7 DEF Forwarded, SendFailed
  <2>2. \A f : ButtonsAfter(f) \subseteq Buttons
    BY DEF ButtonsAfter, CrossingType, BookType
  <2>3. buttons' \in {buttons, {}, ButtonsAfter(FrameOf(c, event))}
    BY <1>7 DEF Forwarded, SendFailed, LeaveActive
  <2>4. buttons' \subseteq Buttons
    BY <2>2, <2>3 DEF CrossingType, BookType
  <2> QED BY <1>2, <1>3, <2>1, <2>4 DEF CrossingType, BookType
<1> QED BY <1>4, <1>5, <1>6, <1>7

\* The steps that are neither an event nor an answer.
LEMMA OthersBooks ==
  ASSUME CrossingType, NEW c,
         \/ LeaseChanges(c) \/ (c \in Clients /\ PushEdge(c)) \/ BackoffEnds(c) \/ SwitchOff(c) \/ SwitchOn(c)
         \/ UserInput \/ GiveUp \/ AskRelease \/ SessionEnds \/ SessionStarts
  PROVE  BookType'
<1> USE DEF CrossingType, BookType
<1>1. CASE LeaseChanges(c) \/ BackoffEnds(c) \/ SwitchOn(c) \/ SessionStarts
  BY <1>1 DEF LeaseChanges, BackoffEnds, SwitchOn, SessionStarts, backendVars, crossingVars, booksVars
<1>2. CASE c \in Clients /\ PushEdge(c)
  <2>1. <<c, Begin>> \in Clients \X EventSet
    BY <1>2 DEF EventSet
  <2>2. events' \in Seq(Clients \X EventSet)
    BY <1>2, <2>1 DEF PushEdge
  <2> QED BY <1>2, <2>2 DEF PushEdge, crossingVars, booksVars
<1>3. CASE UserInput
  <2>1. PICK event \in {Move} \cup Gestures : events' = Append(events, <<captured, event>>)
    BY <1>3 DEF UserInput
  <2>2. <<captured, event>> \in Clients \X EventSet
    BY <1>3 DEF UserInput, EventSet
  <2>3. events' \in Seq(Clients \X EventSet)
    BY <2>1, <2>2
  <2> QED BY <1>3, <2>3 DEF UserInput, crossingVars, booksVars
<1>4. CASE SwitchOff(c) \/ GiveUp \/ AskRelease \/ SessionEnds
  <2>1. captured' \in {captured, None} /\ pressed' \in {pressed, {}} /\ buttons' \in {buttons, {}}
    BY <1>4 DEF SwitchOff, GiveUp, AskRelease, SessionEnds, ReleaseCapture, LeaveActive
  <2>2. events' \in {events, <<>>}
    BY <1>4 DEF SwitchOff, GiveUp, AskRelease, SessionEnds
  <2>3. <<>> \in Seq(Clients \X EventSet) /\ events \in Seq(Clients \X EventSet)
    BY EmptySeq
  <2>4. events' \in Seq(Clients \X EventSet)
    BY <2>2, <2>3 DEF EventSet
  <2> QED BY <2>1, <2>4
<1> QED BY <1>1, <1>2, <1>3, <1>4

LEMMA HearBooks ==
  ASSUME CrossingType, Hear
  PROVE  BookType'
<1>1. PICK c, l : \/ UNCHANGED <<captured, pressed, crossingVars, unanswered, connVars, out>>
                  \/ OnAck(c, l) \/ OnPong(c, l) \/ OnLeave
  BY DEF Hear
<1>2. captured' \in {captured, None} /\ pressed' \in {pressed, {}} /\ buttons' \in {buttons, {}}
  BY <1>1 DEF OnAck, OnPong, OnLeave, SendFailed, ReleaseCapture, LeaveActive, crossingVars
<1>3. events' = events
  BY DEF Hear
<1> QED BY <1>2, <1>3 DEF CrossingType, BookType

\* Appending to one link, as the code that writes to it does.
LEMMA SentTyped ==
  ASSUME LinkType, LinkOrder, NEW c \in Clients, link[c] # 0,
         NEW frames \in Seq(FrameSet), Sent(c, frames)
  PROVE  /\ link[c] \in LinkIds /\ link[c] = made[c]
         /\ out' \in [Clients -> [LinkIds -> Seq(FrameSet)]]
         /\ out'[c][link[c]] = out[c][link[c]] \o frames
         /\ \A d \in Clients, l \in LinkIds : (d # c \/ l # link[c]) => out'[d][l] = out[d][l]
<1>1. link[c] \in LinkIds /\ link[c] = made[c]
  BY DEF LinkOrder, LinkType, LinkIds
<1>2. out[c][link[c]] \o frames \in Seq(FrameSet)
  BY <1>1 DEF LinkType
<1>3. out' = [out EXCEPT ![c][link[c]] = out[c][link[c]] \o frames]
  BY DEF Sent
<1> QED BY <1>1, <1>2, <1>3 DEF LinkType

\* The frames of a crossing are frames.
LEMMA CrossingFrames ==
  /\ Enter \in FrameSet /\ Leave \in FrameSet
  /\ \A keys \in SUBSET Inputs : Ups(keys) \in FrameSet
BY DEF Enter, Leave, Ups, FrameSet, Kinds

----------------------------------------------------------------------------
(* Driven steps: types and links *)

LEMMA HeardLess ==
  ASSUME heard \in Seq(AnswerSet), HeardOn
  PROVE  /\ heard' \in Seq(AnswerSet)
         /\ \A i \in 1..Len(heard') : \E j \in 1..Len(heard) : heard'[i] = heard[j]
<1>1. CASE heard' = heard
  BY <1>1
<1>2. CASE heard # <<>> /\ heard' = Tail(heard)
  <2>1. heard' \in Seq(AnswerSet) /\ Len(heard') = Len(heard) - 1 /\ Len(heard) \in Nat
    BY <1>2
  <2>2. ASSUME NEW i \in 1..Len(heard') PROVE i + 1 \in 1..Len(heard) /\ heard'[i] = heard[i + 1]
    BY <1>2, <2>1
  <2> QED BY <2>1, <2>2
<1> QED BY <1>1, <1>2 DEF HeardOn

\* What the capture task writes: nothing, or on the link of one device.
LEMMA DrivenWrites ==
  ASSUME LinkType, Driven
  PROVE  \/ out' = out
         \/ \E c \in Clients, frames \in Seq(FrameSet) : link[c] # 0 /\ Sent(c, frames)
<1>1. ASSUME NEW f \in FrameSet, NEW g \in FrameSet PROVE <<f, g>> \in Seq(FrameSet) /\ <<f>> \in Seq(FrameSet)
  OBVIOUS
<1>2. CASE Stays
  BY <1>2 DEF Stays
<1>3. CASE Leaves
  <2>1. CASE out' = out
    BY <2>1
  <2>2. ASSUME active \in Clients, link[active] # 0, NEW keys \in SUBSET Inputs, Sent(active, <<Ups(keys), Leave>>)
        PROVE  \E c \in Clients, frames \in Seq(FrameSet) : link[c] # 0 /\ Sent(c, frames)
    <3>1. <<Ups(keys), Leave>> \in Seq(FrameSet)
      BY <1>1, CrossingFrames
    <3> QED BY <2>2, <3>1
  <2> QED BY <1>3, <2>1, <2>2 DEF Leaves
<1>4. ASSUME NEW c \in Clients, Crosses(c) \/ Sends(c)
      PROVE  \E d \in Clients, frames \in Seq(FrameSet) : link[d] # 0 /\ Sent(d, frames)
  <2>1. PICK f \in FrameSet : link[c] # 0 /\ Sent(c, <<f>>)
    BY <1>4, CrossingFrames DEF Crosses, Sends
  <2> QED BY <1>1, <2>1
<1>5. ASSUME NEW c \in Clients, NEW l \in Nat, Acks(c, l) PROVE out' = out
  BY <1>5 DEF Acks
<1> QED BY <1>2, <1>3, <1>4, <1>5 DEF Driven

LEMMA DrivenOut ==
  ASSUME LinkType, LinkOrder, Driven
  PROVE  /\ out' \in [Clients -> [LinkIds -> Seq(FrameSet)]]
         /\ \A c \in Clients, l \in LinkIds : l > made[c] => out'[c][l] = out[c][l]
<1>1. CASE out' = out
  BY <1>1 DEF LinkType
<1>2. ASSUME NEW c \in Clients, NEW frames \in Seq(FrameSet), link[c] # 0, Sent(c, frames)
      PROVE  /\ out' \in [Clients -> [LinkIds -> Seq(FrameSet)]]
             /\ \A d \in Clients, l \in LinkIds : l > made[d] => out'[d][l] = out[d][l]
  <2>1. /\ link[c] = made[c] /\ out' \in [Clients -> [LinkIds -> Seq(FrameSet)]]
        /\ \A d \in Clients, l \in LinkIds : (d # c \/ l # link[c]) => out'[d][l] = out[d][l]
    BY <1>2, SentTyped
  <2>2. ASSUME NEW d \in Clients, NEW l \in LinkIds, l > made[d] PROVE d # c \/ l # link[c]
    BY <2>1, <2>2 DEF LinkType, LinkIds
  <2> QED BY <2>1, <2>2
<1> QED BY <1>1, <1>2, DrivenWrites

LEMMA DrivenLink ==
  ASSUME LinkType, Driven
  PROVE  link' \in [Clients -> Nat] /\ \A c \in Clients : link'[c] \in {0, link[c]}
<1>1. link' = link \/ \E c \in Clients : link' = [link EXCEPT ![c] = 0]
  BY DEF Driven, Stays, Leaves, Crosses, Sends, Acks
<1>2. CASE link' = link
  BY <1>2 DEF LinkType
<1>3. ASSUME NEW c \in Clients, link' = [link EXCEPT ![c] = 0]
      PROVE  link' \in [Clients -> Nat] /\ \A d \in Clients : link'[d] \in {0, link[d]}
  BY <1>3 DEF LinkType
<1> QED BY <1>1, <1>2, <1>3

LEMMA DrivenType ==
  ASSUME LinkType, LinkOrder, Driven
  PROVE  LinkType' /\ LinkOrder'
<1>1. /\ out' \in [Clients -> [LinkIds -> Seq(FrameSet)]]
      /\ \A c \in Clients, l \in LinkIds : l > made[c] => out'[c][l] = out[c][l]
  BY DrivenOut
<1>2. link' \in [Clients -> Nat] /\ \A c \in Clients : link'[c] \in {0, link[c]}
  BY DrivenLink
<1>3. heard' \in Seq(AnswerSet)
  BY HeardLess DEF LinkType, Driven
<1>4. UNCHANGED <<made, accepted, listed, crossed, held>>
  BY DEF Driven
<1>5. active' \in Clients \cup {None}
  BY DEF Driven, Stays, Leaves, Crosses, Sends, Acks, LinkType
<1>6. ackedLink' \in Nat
  BY DEF Driven, Stays, Leaves, Crosses, Sends, Acks, Settled, LinkType
<1>7. state' \in {"WaitingForAck", "Sending"}
  BY DEF Driven, Stays, Leaves, Crosses, Sends, Acks, Settled, LinkType
<1>8. LinkType'
  BY <1>1, <1>2, <1>3, <1>4, <1>5, <1>6, <1>7 DEF LinkType
<1>9. LinkOrder'
  BY <1>1, <1>2, <1>4 DEF LinkOrder
<1> QED BY <1>8, <1>9

LEMMA DrivenHeard ==
  ASSUME LinkType, HeardOrder, AckedOrder, Driven
  PROVE  HeardOrder' /\ AckedOrder'
<1>1. /\ heard' \in Seq(AnswerSet)
      /\ \A i \in 1..Len(heard') : \E j \in 1..Len(heard) : heard'[i] = heard[j]
  BY HeardLess DEF LinkType, Driven
<1>2. made' = made
  BY DEF Driven
<1>3. HeardOrder'
  BY <1>1, <1>2 DEF HeardOrder
<1>4. AckedOrder'
  <2> SUFFICES ASSUME NEW c \in Clients, active' = c, state' = "Sending" PROVE ackedLink' <= made[c]
    BY <1>2 DEF AckedOrder
  <2>1. c # None
    BY CrossingAssumption
  <2>2. CASE Stays \/ Sends(c)
    BY <2>2 DEF Stays, Sends, Settled, AckedOrder
  <2>3. ASSUME NEW d \in Clients, Sends(d) PROVE d = c
    BY <2>3 DEF Sends
  <2>4. ASSUME NEW d \in Clients, NEW l \in Nat, Acks(d, l) PROVE ackedLink' <= made[c]
    <3>1. active = c /\ d = c /\ ackedLink' = l
      BY <2>1, <2>4 DEF Acks
    <3>2. 1 \in 1..Len(heard) /\ heard[1] = <<c, "ack", l>>
      BY <2>4, <3>1 DEF Acks, LinkType
    <3>3. heard[1][3] <= made[heard[1][1]]
      BY <3>2 DEF HeardOrder
    <3> QED BY <3>1, <3>2, <3>3
  <2>5. ASSUME NEW d \in Clients, Crosses(d) PROVE FALSE
    BY <2>5 DEF Crosses
  <2>6. ~Leaves
    BY <2>1 DEF Leaves
  <2> QED BY <2>2, <2>3, <2>4, <2>5, <2>6 DEF Driven
<1> QED BY <1>3, <1>4

----------------------------------------------------------------------------
(* Driven steps: what the links carry *)

LEMMA WriteOrdered ==
  ASSUME LinkType, LinkOrder, FramesOrdered, UNCHANGED <<accepted, listed, crossed>>,
         NEW c \in Clients, link[c] # 0, NEW frames \in Seq(FrameSet), Sent(c, frames),
         Readable(c, link[c]) => Ordered(out[c][link[c]] \o frames, Session(c, link[c]))
  PROVE  FramesOrdered'
<1>1. /\ link[c] \in LinkIds
      /\ out'[c][link[c]] = out[c][link[c]] \o frames
      /\ \A d \in Clients, l \in LinkIds : (d # c \/ l # link[c]) => out'[d][l] = out[d][l]
  BY SentTyped
<1> SUFFICES ASSUME NEW d \in Clients, NEW l \in LinkIds, Readable(d, l)'
             PROVE  Ordered(out'[d][l], Session(d, l)')
  BY DEF FramesOrdered
<1>2. Readable(d, l) /\ Session(d, l)' = Session(d, l)
  BY DEF Readable, Session
<1>3. CASE d = c /\ l = link[c]
  BY <1>1, <1>2, <1>3
<1>4. CASE d # c \/ l # link[c]
  <2>1. Ordered(out[d][l], Session(d, l))
    BY <1>2 DEF FramesOrdered
  <2> QED BY <1>1, <1>2, <1>4, <2>1
<1> QED BY <1>3, <1>4

\* The crossing under way was acknowledged on its link, so the peer is on it.
LEMMA AckedLive ==
  ASSUME NEW c \in Clients, OnCourse(c), active = c, link[c] # 0, Readable(c, link[c]),
         \/ state = "Sending" /\ ackedLink = link[c]
         \/ \E i \in 1..Len(heard) : heard[i] = <<c, "ack", link[c]>>
  PROVE  Live(out[c][link[c]], Session(c, link[c]), Len(out[c][link[c]]))
BY DEF OnCourse, Untouched

LEMMA DrivenOrdered ==
  ASSUME InputInv, Driven
  PROVE  FramesOrdered'
<1>1. LinkType /\ LinkOrder /\ FramesOrdered /\ UNCHANGED <<accepted, listed, crossed>>
  BY DEF InputInv, CrossingType, Driven
<1>2. CASE out' = out
  BY <1>1, <1>2 DEF FramesOrdered, Readable, Session
<1>3. ASSUME NEW c \in Clients, link[c] # 0, NEW f \in FrameSet, Sent(c, <<f>>),
             (IsInput(f) /\ Readable(c, link[c])) => Live(out[c][link[c]], Session(c, link[c]), Len(out[c][link[c]]))
      PROVE  FramesOrdered'
  <2>1. link[c] \in LinkIds
    BY <1>1, <1>3 DEF LinkOrder, LinkType, LinkIds
  <2>2. out[c][link[c]] \in Seq(FrameSet) /\ <<f>> \in Seq(FrameSet)
    BY <1>1, <2>1 DEF LinkType
  <2>3. ASSUME Readable(c, link[c]) PROVE Ordered(out[c][link[c]] \o <<f>>, Session(c, link[c]))
    <3>1. Ordered(out[c][link[c]], Session(c, link[c]))
      BY <1>1, <2>1, <2>3 DEF FramesOrdered
    <3>2. IsInput(f) => Live(out[c][link[c]], Session(c, link[c]), Len(out[c][link[c]]))
      BY <1>3, <2>3
    <3> QED BY <2>2, <3>1, <3>2, SendKeeps
  <2> QED BY <1>1, <1>3, <2>2, <2>3, WriteOrdered
<1>4. ASSUME active \in Clients, link[active] # 0, NEW keys \in SUBSET Inputs, Sent(active, <<Ups(keys), Leave>>)
      PROVE  FramesOrdered'
  <2> DEFINE c == active
             s == out[c][link[c]]
             x == Session(c, link[c])
  <2>1. link[c] \in LinkIds
    BY <1>1, <1>4 DEF LinkOrder, LinkType, LinkIds
  <2>2. s \in Seq(FrameSet)
    BY <1>1, <1>4, <2>1 DEF LinkType
  <2>3. Ups(keys) \in FrameSet /\ Leave \in FrameSet /\ ~IsInput(Ups(keys)) /\ ~IsInput(Leave)
    BY CrossingFrames DEF IsInput, Ups, Leave
  <2>4. ASSUME Readable(c, link[c]) PROVE Ordered(s \o <<Ups(keys), Leave>>, x)
    <3>1. Ordered(s, x)
      BY <1>1, <1>4, <2>1, <2>4 DEF FramesOrdered
    <3> HIDE DEF s, x
    <3>2. Ordered(s \o <<Ups(keys)>>, x) /\ s \o <<Ups(keys)>> \in Seq(FrameSet)
      BY <2>2, <2>3, <3>1, SendKeeps
    <3>3. Ordered((s \o <<Ups(keys)>>) \o <<Leave>>, x)
      BY <2>3, <3>2, SendKeeps
    <3> QED BY <2>2, <2>3, <3>3, TwoByTwo
  <2>5. <<Ups(keys), Leave>> \in Seq(FrameSet)
    BY <2>3
  <2> QED BY <1>1, <1>4, <2>4, <2>5, WriteOrdered
<1>5. CASE Leaves
  BY <1>2, <1>4, <1>5 DEF Leaves
<1>6. ASSUME NEW c \in Clients, Crosses(c) PROVE FramesOrdered'
  <2>1. ~IsInput(Enter) /\ Enter \in FrameSet
    BY CrossingFrames DEF IsInput, Enter
  <2> QED BY <1>3, <1>6, <2>1 DEF Crosses
<1>7. ASSUME NEW c \in Clients, Sends(c) PROVE FramesOrdered'
  <2>1. ~IsInput(Enter) /\ Enter \in FrameSet
    BY CrossingFrames DEF IsInput, Enter
  <2>2. active = c /\ link[c] # 0 /\ OnCourse(c)
    BY <1>7 DEF Sends, InputInv
  <2>3. CASE Sent(c, <<Enter>>)
    BY <1>3, <2>1, <2>2, <2>3
  <2>4. ASSUME state = "Sending", ackedLink = link[c], NEW f \in FrameSet, Sent(c, <<f>>) PROVE FramesOrdered'
    <3>1. Readable(c, link[c]) => Live(out[c][link[c]], Session(c, link[c]), Len(out[c][link[c]]))
      BY <2>2, <2>4, AckedLive
    <3> QED BY <1>3, <2>2, <2>4, <3>1
  <2> QED BY <1>7, <2>3, <2>4 DEF Sends
<1> QED BY <1>2, <1>5, <1>6, <1>7 DEF Driven, Stays, Acks

\* A frame that does not leave goes out on the course.
LEMMA WriteLive ==
  ASSUME LinkType, LinkOrder, UNCHANGED <<listed, crossed>>, NEW c \in Clients, link[c] # 0,
         NEW l, l = link[c], NEW f \in FrameSet, Sent(c, <<f>>),
         \/ f.kind = "enter"
         \/ f.kind # "leave" /\ Live(out[c][link[c]], Session(c, link[c]), Len(out[c][link[c]]))
  PROVE  Live(out'[c][l], Session(c, l)', Len(out'[c][l]))
<1>1. <<f>> \in Seq(FrameSet)
  OBVIOUS
<1>2. link[c] \in LinkIds /\ out'[c][link[c]] = out[c][link[c]] \o <<f>>
  BY <1>1, SentTyped
<1>3. out[c][link[c]] \in Seq(FrameSet)
  BY <1>2 DEF LinkType
<1>4. Session(c, l)' = Session(c, link[c])
  BY DEF Session
<1>5. Live(out[c][link[c]] \o <<f>>, Session(c, link[c]), Len(out[c][link[c]] \o <<f>>))
  BY <1>3, SendLives
<1> QED BY <1>2, <1>4, <1>5

LEMMA DrivenCourse ==
  ASSUME InputInv, Driven, NEW c \in Clients
  PROVE  OnCourse(c)'
<1>1. LinkType /\ LinkOrder /\ UNCHANGED <<accepted, listed, crossed>> /\ OnCourse(c)
  BY DEF InputInv, CrossingType, Driven
<1>2. c # None
  BY CrossingAssumption
<1>3. /\ heard' \in Seq(AnswerSet)
      /\ \A i \in 1..Len(heard') : \E j \in 1..Len(heard) : heard'[i] = heard[j]
  BY <1>1, HeardLess DEF LinkType, Driven
<1> SUFFICES ASSUME NEW l, l = link'[c], active' = c, l # 0, Readable(c, l)'
             PROVE  \/ Untouched(c, l)'
                    \/ Live(out'[c][l], Session(c, l)', Len(out'[c][l]))
  BY DEF OnCourse, Readable, Session, Untouched
\* Nothing said on the link.
<1>4. ASSUME active = c, link' = link, out' = out, state' = "Sending" => (ackedLink' # link[c] \/ (state = state' /\ ackedLink' = ackedLink))
      PROVE  \/ Untouched(c, l)'
             \/ Live(out'[c][l], Session(c, l)', Len(out'[c][l]))
  <2>1. Readable(c, link[c]) /\ Session(c, l)' = Session(c, link[c])
    BY <1>1, <1>4 DEF Readable, Session
  <2>2. CASE Live(out[c][link[c]], Session(c, link[c]), Len(out[c][link[c]]))
    BY <1>4, <2>1, <2>2
  <2>3. CASE Untouched(c, link[c])
    BY <1>1, <1>3, <1>4, <2>1, <2>3 DEF Untouched
  <2> QED BY <1>1, <1>4, <2>1, <2>2, <2>3 DEF OnCourse
<1>5. CASE Stays
  BY <1>4, <1>5 DEF Stays, Settled
<1>6. CASE Leaves
  BY <1>2, <1>6 DEF Leaves
<1>7. ASSUME NEW d \in Clients, Crosses(d) \/ (Sends(d) /\ Sent(d, <<Enter>>))
      PROVE  Live(out'[c][l], Session(c, l)', Len(out'[c][l]))
  <2>1. d = c /\ link[c] # 0 /\ link' = link /\ Sent(c, <<Enter>>)
    BY <1>7 DEF Crosses, Sends
  <2>2. Enter \in FrameSet /\ Enter.kind = "enter"
    BY CrossingFrames DEF Enter
  <2> QED BY <1>1, <2>1, <2>2, WriteLive
<1>8. ASSUME Sends(c), ~Sent(c, <<Enter>>)
      PROVE  Live(out'[c][l], Session(c, l)', Len(out'[c][l]))
  <2>1. PICK f \in FrameSet : f.kind # "leave" /\ Sent(c, <<f>>)
    BY <1>8 DEF Sends
  <2>2. active = c /\ link[c] # 0 /\ link' = link /\ state = "Sending" /\ ackedLink = link[c]
    BY <1>8 DEF Sends
  <2>3. Readable(c, link[c])
    BY <1>1, <2>2 DEF Readable
  <2>4. Live(out[c][link[c]], Session(c, link[c]), Len(out[c][link[c]]))
    BY <1>1, <2>2, <2>3, AckedLive
  <2> QED BY <1>1, <2>1, <2>2, <2>4, WriteLive
<1>9. ASSUME NEW d \in Clients, NEW k \in Nat, Acks(d, k)
      PROVE  \/ Untouched(c, l)'
             \/ Live(out'[c][l], Session(c, l)', Len(out'[c][l]))
  <2>1. active = c /\ d = c /\ ackedLink' = k /\ link' = link /\ out' = out
    BY <1>2, <1>9 DEF Acks
  <2>2. CASE k # link[c]
    BY <1>4, <2>1, <2>2
  <2>3. CASE k = link[c]
    <3>1. 1 \in 1..Len(heard) /\ heard[1] = <<c, "ack", link[c]>>
      BY <1>1, <1>9, <2>1, <2>3 DEF Acks, LinkType
    <3>2. Readable(c, link[c]) /\ Session(c, l)' = Session(c, link[c])
      BY <1>1, <2>1 DEF Readable, Session
    <3>3. Live(out[c][link[c]], Session(c, link[c]), Len(out[c][link[c]]))
      BY <1>1, <2>1, <3>1, <3>2, AckedLive
    <3> QED BY <2>1, <3>2, <3>3
  <2> QED BY <2>2, <2>3
<1>10. ASSUME NEW d \in Clients, Sends(d) PROVE d = c
  BY <1>10 DEF Sends
<1> QED BY <1>5, <1>6, <1>7, <1>8, <1>9, <1>10 DEF Driven

----------------------------------------------------------------------------
(* The links and the peers *)

LEMMA SameBooks ==
  ASSUME CrossingType, UNCHANGED <<backendVars, crossingVars, booksVars>>
  PROVE  BookType'
BY DEF CrossingType, BookType, backendVars, crossingVars, booksVars

\* An answer comes in.
LEMMA AnswerComes ==
  ASSUME LinkType, LinkOrder, HeardOrder, made' = made, NEW c \in Clients,
         NEW what \in {"ack", "pong", "leave"},
         heard' \in {heard, Append(heard, <<c, what, link[c]>>)}
  PROVE  /\ heard' \in Seq(AnswerSet) /\ HeardOrder'
         /\ \A i \in 1..Len(heard') :
              heard'[i] = <<c, what, link[c]>> \/ \E j \in 1..Len(heard) : heard'[i] = heard[j]
<1>1. link[c] \in Nat /\ link[c] <= made[c]
  <2>1. link[c] \in Nat /\ made[c] \in Nat
    BY DEF LinkType
  <2>2. link[c] \in {0, made[c]}
    BY DEF LinkOrder
  <2> QED BY <2>1, <2>2
<1> DEFINE a == <<c, what, link[c]>>
<1>2. a \in AnswerSet /\ a[1] = c /\ a[3] = link[c]
  BY <1>1 DEF AnswerSet
<1> HIDE DEF a
<1>3. heard \in Seq(AnswerSet) /\ heard' \in {heard, Append(heard, a)}
  BY DEF LinkType, a
<1>4. heard' \in Seq(AnswerSet) /\ \A i \in 1..Len(heard') : heard'[i] = a \/ \E j \in 1..Len(heard) : heard'[i] = heard[j]
  <2>1. CASE heard' = heard
    BY <1>3, <2>1
  <2>2. CASE heard' = Append(heard, a)
    <3>1. heard' \in Seq(AnswerSet) /\ Len(heard') = Len(heard) + 1 /\ Len(heard) \in Nat
      BY <1>2, <1>3, <2>2
    <3>2. heard'[Len(heard) + 1] = a /\ \A i \in 1..Len(heard) : heard'[i] = heard[i]
      BY <1>2, <1>3, <2>2
    <3> QED BY <3>1, <3>2
  <2> QED BY <1>3, <2>1, <2>2
<1>5. HeardOrder'
  BY <1>1, <1>2, <1>4 DEF HeardOrder
<1> QED BY <1>4, <1>5 DEF a

\* A Pong, and a Leave from the peer: nothing else changes.
LEMMA OnlyAnswers ==
  ASSUME InputInv, NEW c \in Clients, Pong(c) \/ PeerLeaves(c)
  PROVE  InputInv'
<1>1. PICK what \in {"pong", "leave"} : heard' \in {heard, Append(heard, <<c, what, link[c]>>)}
  BY DEF Pong, PeerLeaves, Reply
<1>2. /\ UNCHANGED <<link, made, out, accepted, listed, crossed, held, active, state, ackedLink>>
      /\ UNCHANGED <<backendVars, crossingVars, booksVars>>
  BY DEF Pong, PeerLeaves, connVars, peerVars, crossingVars
<1>3. CrossingType /\ LinkType /\ LinkOrder /\ HeardOrder
  BY DEF InputInv, CrossingType
<1>4. /\ heard' \in Seq(AnswerSet) /\ HeardOrder'
      /\ \A i \in 1..Len(heard') :
           heard'[i] = <<c, what, link[c]>> \/ \E j \in 1..Len(heard) : heard'[i] = heard[j]
  BY <1>1, <1>2, <1>3, AnswerComes
<1>5. CrossingType' /\ LinkOrder' /\ AckedOrder' /\ FramesOrdered'
  <2>1. BookType'
    BY <1>2, <1>3, SameBooks
  <2>2. LinkType'
    BY <1>2, <1>3, <1>4 DEF LinkType
  <2>3. LinkOrder' /\ AckedOrder' /\ FramesOrdered'
    BY <1>2 DEF InputInv, LinkOrder, AckedOrder, FramesOrdered, Readable, Session
  <2> QED BY <2>1, <2>2, <2>3 DEF CrossingType
<1>6. ASSUME NEW d \in Clients PROVE OnCourse(d)'
  <2>1. OnCourse(d)
    BY DEF InputInv
  <2>2. \A i \in 1..Len(heard') : heard'[i] = <<d, "ack", link[d]>> => \E j \in 1..Len(heard) : heard[j] = <<d, "ack", link[d]>>
    BY <1>4
  <2> QED BY <1>2, <2>1, <2>2 DEF OnCourse, Untouched, Readable, Session
<1> QED BY <1>4, <1>5, <1>6 DEF InputInv

\* A new link carries nothing and nothing was said on it.
LEMMA LinkUpKeeps ==
  ASSUME InputInv, NEW c \in Clients, LinkUp(c)
  PROVE  InputInv'
<1>1. /\ UNCHANGED <<heard, out, accepted, listed, crossed, held, active, state, ackedLink>>
      /\ UNCHANGED <<backendVars, crossingVars, booksVars>>
      /\ made[c] < MaxLinks
      /\ made' = [made EXCEPT ![c] = made[c] + 1] /\ link' = [link EXCEPT ![c] = made[c] + 1]
  BY DEF LinkUp, peerVars, crossingVars
<1>2. CrossingType /\ LinkType /\ LinkOrder /\ HeardOrder /\ AckedOrder
  BY DEF InputInv, CrossingType
<1> PICK n : n = made[c] + 1
  OBVIOUS
<1>3. made[c] \in Nat /\ n \in Nat
  BY <1>2 DEF LinkType
<1>4. n \in LinkIds /\ n > made[c]
  BY <1>1, <1>3, CrossingAssumption DEF LinkIds
<1>5. /\ made' \in [Clients -> Nat] /\ link' \in [Clients -> Nat]
      /\ made'[c] = n /\ link'[c] = n
      /\ \A d \in Clients : d # c => made'[d] = made[d] /\ link'[d] = link[d]
  BY <1>1, <1>2, <1>3 DEF LinkType
<1>6. /\ made[c] \in Nat /\ n \in LinkIds /\ n > made[c]
      /\ made' \in [Clients -> Nat] /\ link' \in [Clients -> Nat]
      /\ made'[c] = n /\ link'[c] = n
      /\ \A d \in Clients : d # c => made'[d] = made[d] /\ link'[d] = link[d]
      /\ \A d \in Clients : made[d] <= made'[d]
  <2>1. ASSUME NEW d \in Clients PROVE made[d] <= made'[d]
    <3>1. made[d] \in Nat
      BY <1>2 DEF LinkType
    <3> QED BY <1>3, <1>4, <1>5, <3>1
  <2> QED BY <1>3, <1>4, <1>5, <2>1
<1>7. CrossingType'
  <2>1. LinkType'
    BY <1>1, <1>2, <1>6 DEF LinkType
  <2> QED BY <1>1, <1>2, <2>1, SameBooks DEF CrossingType
<1>8. LinkOrder'
  <2> SUFFICES ASSUME NEW d \in Clients
               PROVE  /\ link'[d] \in {0, made'[d]} /\ made'[d] <= MaxLinks
                      /\ accepted[d] <= made'[d] /\ listed[d] \subseteq {accepted[d]} \ {0}
                      /\ \A l \in LinkIds : l > made'[d] => out[d][l] = <<>>
    BY <1>1 DEF LinkOrder
  <2>1. made[d] \in Nat /\ made'[d] \in Nat /\ accepted[d] \in Nat
    BY <1>2, <1>6 DEF LinkType
  <2>2. link'[d] \in {0, made'[d]} /\ made'[d] <= MaxLinks
    BY <1>2, <1>6 DEF LinkOrder, LinkIds
  <2>3. accepted[d] <= made'[d] /\ listed[d] \subseteq {accepted[d]} \ {0}
    BY <1>2, <1>6, <2>1 DEF LinkOrder
  <2>4. ASSUME NEW l \in LinkIds, l > made'[d] PROVE out[d][l] = <<>>
    BY <1>2, <1>6, <2>1, <2>4 DEF LinkOrder, LinkIds
  <2> QED BY <2>2, <2>3, <2>4
<1>9. HeardOrder'
  <2> SUFFICES ASSUME NEW i \in 1..Len(heard) PROVE heard[i][3] <= made'[heard[i][1]]
    BY <1>1 DEF HeardOrder
  <2>1. heard[i] \in AnswerSet
    BY <1>2 DEF LinkType
  <2>2. heard[i][1] \in Clients /\ heard[i][3] \in Nat /\ heard[i][3] <= made[heard[i][1]]
    BY <1>2, <2>1 DEF AnswerSet, HeardOrder
  <2> DEFINE d == heard[i][1]
  <2> HIDE DEF d
  <2>3. d \in Clients /\ heard[i][3] <= made[d]
    BY <2>2 DEF d
  <2>4. made[d] \in Nat /\ made'[d] \in Nat /\ made[d] <= made'[d]
    BY <1>2, <1>6, <2>3 DEF LinkType
  <2>5. heard[i][3] <= made'[d]
    BY <2>2, <2>3, <2>4
  <2> QED BY <2>5 DEF d
<1>10. AckedOrder'
  BY <1>1, <1>2, <1>6 DEF AckedOrder, LinkType
<1>11. FramesOrdered'
  BY <1>1 DEF InputInv, FramesOrdered, Readable, Session
<1>12. ASSUME NEW d \in Clients PROVE OnCourse(d)'
  <2>1. CASE d # c
    <3>1. link'[d] = link[d] /\ OnCourse(d)
      BY <1>6, <2>1 DEF InputInv
    <3> QED BY <1>1, <3>1 DEF OnCourse, Untouched, Readable, Session
  <2>2. CASE d = c /\ active = c
    <3>1. out[c][n] = <<>> /\ n \notin listed[c]
      BY <1>2, <1>6 DEF LinkOrder, LinkType
    <3>2. \A i \in 1..Len(heard) : heard[i] # <<c, "ack", n>>
      BY <1>2, <1>6 DEF HeardOrder, LinkType
    <3>3. ~(state = "Sending" /\ ackedLink = n)
      BY <1>2, <1>6, <2>2 DEF AckedOrder, LinkType
    <3>4. Len(out'[c][n]) = 0
      BY <1>1, <3>1
    <3>5. Untouched(c, n)'
      BY <1>1, <3>1, <3>2, <3>3, <3>4 DEF Untouched, Session
    <3> QED BY <1>6, <2>2, <3>5 DEF OnCourse, Untouched, Session
  <2> QED BY <1>1, <2>1, <2>2 DEF OnCourse
<1> QED BY <1>7, <1>8, <1>9, <1>10, <1>11, <1>12 DEF InputInv

LEMMA LinkDownKeeps ==
  ASSUME InputInv, NEW c \in Clients, LinkDown(c)
  PROVE  InputInv'
<1>1. /\ UNCHANGED <<heard, out, made, accepted, listed, crossed, held, active, state, ackedLink>>
      /\ UNCHANGED <<backendVars, crossingVars, booksVars>>
      /\ link' = [link EXCEPT ![c] = 0]
  BY DEF LinkDown, Disconnected, peerVars, crossingVars
<1>2. CrossingType /\ LinkType /\ LinkOrder
  BY DEF InputInv, CrossingType
<1>3. /\ link' \in [Clients -> Nat] /\ link'[c] = 0
      /\ \A d \in Clients : d # c => link'[d] = link[d]
  BY <1>1, <1>2 DEF LinkType
<1>4. LinkType'
  BY <1>1, <1>2, <1>3 DEF LinkType
<1>5. CrossingType'
  BY <1>1, <1>2, <1>4, SameBooks DEF CrossingType
<1>6. LinkOrder'
  BY <1>1, <1>2, <1>3 DEF LinkOrder
<1>7. HeardOrder' /\ AckedOrder' /\ FramesOrdered'
  BY <1>1 DEF InputInv, HeardOrder, AckedOrder, FramesOrdered, Readable, Session
<1>8. ASSUME NEW d \in Clients PROVE OnCourse(d)'
  <2>1. CASE d = c
    BY <1>3, <2>1 DEF OnCourse
  <2>2. CASE d # c
    BY <1>1, <1>3, <2>2 DEF InputInv, OnCourse, Untouched, Readable, Session
  <2> QED BY <2>1, <2>2
<1> QED BY <1>5, <1>6, <1>7, <1>8 DEF InputInv

\* A link is accepted once no other is listed: its session has not begun.
LEMMA PeerAcceptsKeeps ==
  ASSUME OneAtATime, InputInv, NEW c \in Clients, PeerAccepts(c)
  PROVE  InputInv'
<1>1. PICK l \in (accepted[c] + 1)..made[c] :
        /\ listed[c] = {}
        /\ accepted' = [accepted EXCEPT ![c] = l] /\ listed' = [listed EXCEPT ![c] = @ \cup {l}]
        /\ crossed' = crossed \ {c}
  BY DEF PeerAccepts, OneAtATime
<1>2. /\ UNCHANGED <<link, made, heard, out, held, active, state, ackedLink>>
      /\ UNCHANGED <<backendVars, crossingVars, booksVars>>
  BY DEF PeerAccepts, crossingVars, connVars
<1>3. CrossingType /\ LinkType /\ LinkOrder
  BY DEF InputInv, CrossingType
<1>4. l \in Nat /\ l > accepted[c] /\ l <= made[c] /\ l # 0 /\ accepted[c] \in Nat
  BY <1>1, <1>3 DEF LinkType
<1>5. /\ accepted' \in [Clients -> Nat] /\ accepted'[c] = l
      /\ \A d \in Clients : d # c => accepted'[d] = accepted[d]
  BY <1>1, <1>3, <1>4 DEF LinkType
<1>6. /\ listed' \in [Clients -> SUBSET Nat] /\ listed'[c] = {l}
      /\ \A d \in Clients : d # c => listed'[d] = listed[d]
  BY <1>1, <1>3, <1>4 DEF LinkType
<1>7. LinkType'
  BY <1>1, <1>2, <1>3, <1>5, <1>6 DEF LinkType
<1>8. CrossingType'
  BY <1>2, <1>3, <1>7, SameBooks DEF CrossingType
<1>9. LinkOrder'
  BY <1>2, <1>3, <1>4, <1>5, <1>6 DEF LinkOrder
<1>10. HeardOrder' /\ AckedOrder'
  BY <1>2 DEF InputInv, HeardOrder, AckedOrder
<1>11. ASSUME NEW d \in Clients, NEW k \in Nat, Readable(d, k)'
       PROVE  Readable(d, k) /\ Session(d, k)' = Session(d, k)
  <2>1. CASE d # c
    BY <1>1, <1>5, <1>6, <1>11, <2>1 DEF Readable, Session
  <2>2. CASE d = c
    <3>1. k > accepted[c]
      BY <1>4, <1>5, <1>6, <1>11, <2>2 DEF Readable
    <3>2. ~Session(c, k) /\ ~Session(c, k)'
      BY <1>1 DEF Session
    <3> QED BY <2>2, <3>1, <3>2 DEF Readable, Session
  <2> QED BY <2>1, <2>2
<1>12. FramesOrdered'
  <2> SUFFICES ASSUME NEW d \in Clients, NEW k \in LinkIds, Readable(d, k)'
               PROVE  Ordered(out'[d][k], Session(d, k)')
    BY DEF FramesOrdered
  <2>1. k \in Nat
    BY DEF LinkIds
  <2>2. Readable(d, k) /\ Session(d, k)' = Session(d, k)
    BY <1>11, <2>1
  <2>3. Ordered(out[d][k], Session(d, k))
    BY <2>2 DEF InputInv, FramesOrdered
  <2> QED BY <1>2, <2>2, <2>3
<1>13. ASSUME NEW d \in Clients PROVE OnCourse(d)'
  <2> SUFFICES ASSUME NEW k, k = link[d], active = d, k # 0, Readable(d, k)'
               PROVE  Untouched(d, k)' \/ Live(out'[d][k], Session(d, k)', Len(out'[d][k]))
    BY <1>2 DEF OnCourse, Readable, Session, Untouched
  <2>1. k \in Nat
    BY <1>3 DEF LinkType
  <2>2. Readable(d, k) /\ Session(d, k)' = Session(d, k)
    BY <1>11, <2>1
  <2>3. Untouched(d, k) \/ Live(out[d][k], Session(d, k), Len(out[d][k]))
    BY <2>2 DEF InputInv, OnCourse
  <2> QED BY <1>2, <2>2, <2>3 DEF Untouched
<1> QED BY <1>8, <1>9, <1>10, <1>12, <1>13 DEF InputInv

\* The link a peer lists is the one it accepted last.
LEMMA TheListed ==
  ASSUME LinkType, LinkOrder, NEW c \in Clients, NEW l \in listed[c]
  PROVE  /\ listed[c] = {l} /\ l = accepted[c] /\ l # 0 /\ l \in Nat /\ l <= made[c]
         /\ l \in LinkIds
<1>1. listed[c] \subseteq {accepted[c]} \ {0} /\ accepted[c] <= made[c] /\ made[c] <= MaxLinks
  BY DEF LinkOrder
<1>2. accepted[c] \in Nat /\ made[c] \in Nat
  BY DEF LinkType
<1> QED BY <1>1, <1>2, CrossingAssumption DEF LinkIds

LEMMA PeerLinkEndsKeeps ==
  ASSUME InputInv, NEW c \in Clients, NEW l \in LinkIds, PeerLinkEnds(c, l)
  PROVE  InputInv'
<1>1. CrossingType /\ LinkType /\ LinkOrder
  BY DEF InputInv, CrossingType
<1>2. listed[c] = {l} /\ l = accepted[c] /\ l # 0 /\ l \in Nat /\ l <= made[c]
  BY <1>1, TheListed DEF PeerLinkEnds
<1>3. /\ UNCHANGED <<link, made, heard, accepted, active, state, ackedLink>>
      /\ UNCHANGED <<backendVars, crossingVars, booksVars>>
      /\ crossed' = crossed \ {c} /\ held' = [held EXCEPT ![c] = {}]
      /\ listed' = [listed EXCEPT ![c] = @ \ {l}] /\ out' = [out EXCEPT ![c][l] = <<>>]
  BY <1>2 DEF PeerLinkEnds, crossingVars, connVars
<1>4. /\ listed' \in [Clients -> SUBSET Nat] /\ listed'[c] = {}
      /\ \A d \in Clients : d # c => listed'[d] = listed[d]
  BY <1>1, <1>2, <1>3 DEF LinkType
<1>5. <<>> \in Seq(FrameSet)
  OBVIOUS
<1>6. /\ out' \in [Clients -> [LinkIds -> Seq(FrameSet)]] /\ out'[c][l] = <<>>
      /\ \A d \in Clients, k \in LinkIds : (d # c \/ k # l) => out'[d][k] = out[d][k]
  BY <1>1, <1>3, <1>5 DEF LinkType
<1>7. held' \in [Clients -> SUBSET Inputs] /\ crossed' \subseteq Clients
  BY <1>1, <1>3 DEF LinkType
<1>8. LinkType'
  BY <1>1, <1>3, <1>4, <1>6, <1>7 DEF LinkType
<1>9. CrossingType'
  BY <1>1, <1>3, <1>8, SameBooks DEF CrossingType
<1>10. LinkOrder'
  BY <1>1, <1>3, <1>4, <1>6 DEF LinkOrder
<1>11. HeardOrder' /\ AckedOrder'
  BY <1>3 DEF InputInv, HeardOrder, AckedOrder
<1>12. ASSUME NEW d \in Clients, NEW k \in LinkIds, Readable(d, k)'
       PROVE  Readable(d, k) /\ Session(d, k)' = Session(d, k) /\ out'[d][k] = out[d][k]
  <2>1. CASE d # c
    BY <1>3, <1>4, <1>6, <1>12, <2>1 DEF Readable, Session
  <2>2. CASE d = c
    <3>1. k > l /\ k # l
      BY <1>2, <1>3, <1>4, <1>12, <2>2 DEF Readable, LinkIds
    <3> QED BY <1>2, <1>3, <1>4, <1>6, <2>2, <3>1 DEF Readable, Session
  <2> QED BY <2>1, <2>2
<1>13. FramesOrdered'
  <2> SUFFICES ASSUME NEW d \in Clients, NEW k \in LinkIds, Readable(d, k)'
               PROVE  Ordered(out'[d][k], Session(d, k)')
    BY DEF FramesOrdered
  <2>1. Readable(d, k) /\ Session(d, k)' = Session(d, k) /\ out'[d][k] = out[d][k]
    BY <1>12
  <2>2. Ordered(out[d][k], Session(d, k))
    BY <2>1 DEF InputInv, FramesOrdered
  <2> QED BY <2>1, <2>2
<1>14. ASSUME NEW d \in Clients PROVE OnCourse(d)'
  <2> SUFFICES ASSUME NEW k, k = link[d], active = d, k # 0, Readable(d, k)'
               PROVE  Untouched(d, k)' \/ Live(out'[d][k], Session(d, k)', Len(out'[d][k]))
    BY <1>3 DEF OnCourse, Readable, Session, Untouched
  <2>1. k \in LinkIds
    BY <1>1 DEF LinkType, LinkOrder, LinkIds
  <2>2. Readable(d, k) /\ Session(d, k)' = Session(d, k) /\ out'[d][k] = out[d][k]
    BY <1>12, <2>1
  <2>3. Untouched(d, k) \/ Live(out[d][k], Session(d, k), Len(out[d][k]))
    BY <2>2 DEF InputInv, OnCourse
  <2> QED BY <1>3, <2>2, <2>3 DEF Untouched
<1> QED BY <1>9, <1>10, <1>11, <1>13, <1>14 DEF InputInv

\* What the peer makes of the frame it reads.
LEMMA ReadEffect ==
  ASSUME CrossingType, LinkOrder, NEW c \in Clients, NEW l \in LinkIds, PeerReads(c, l)
  PROVE  /\ listed[c] = {l} /\ l = accepted[c] /\ l # 0 /\ l \in Nat /\ l <= made[c]
         /\ out[c][l] \in Seq(FrameSet) /\ out[c][l] # <<>>
         /\ UNCHANGED <<link, made, accepted, listed, active, ackedAt, state, ackedLink>>
         /\ out' \in [Clients -> [LinkIds -> Seq(FrameSet)]] /\ out'[c][l] = Tail(out[c][l])
         /\ \A d \in Clients, k \in LinkIds : (d # c \/ k # l) => out'[d][k] = out[d][k]
         /\ Session(c, l)' = After(Head(out[c][l]), Session(c, l))
         /\ \A d \in Clients, k \in LinkIds : (d # c \/ k # l) => Session(d, k)' = Session(d, k)
         /\ crossed' \subseteq Clients
<1>1. LinkType /\ l \in listed[c] /\ out[c][l] # <<>>
  BY DEF CrossingType, PeerReads
<1>2. listed[c] = {l} /\ l = accepted[c] /\ l # 0 /\ l \in Nat /\ l <= made[c]
  BY <1>1, TheListed
<1>3. UNCHANGED <<link, made, accepted, listed, active, ackedAt, state, ackedLink>>
  BY DEF PeerReads, crossingVars, connVars
<1>4. out[c][l] \in Seq(FrameSet)
  BY <1>1 DEF LinkType
<1>5. Tail(out[c][l]) \in Seq(FrameSet)
  BY <1>1, <1>4, Reading
<1>6. out' = [out EXCEPT ![c][l] = Tail(out[c][l])]
  BY DEF PeerReads
<1>7. /\ out' \in [Clients -> [LinkIds -> Seq(FrameSet)]] /\ out'[c][l] = Tail(out[c][l])
      /\ \A d \in Clients, k \in LinkIds : (d # c \/ k # l) => out'[d][k] = out[d][k]
  BY <1>1, <1>5, <1>6 DEF LinkType
<1> DEFINE f == Head(out[c][l])
<1>8. \/ f.kind = "enter" /\ crossed' = crossed \cup {c}
      \/ f.kind = "leave" /\ crossed' = crossed \ {c}
      \/ f.kind \notin {"enter", "leave"} /\ crossed' = crossed
  BY DEF PeerReads
<1> HIDE DEF f
<1>9. Session(c, l) <=> c \in crossed
  BY <1>1 DEF Session
<1>10. Session(c, l)' <=> c \in crossed'
  BY <1>1, <1>3 DEF Session
<1>11. Session(c, l)' = After(f, Session(c, l))
  <2>1. Session(c, l)' <=> After(f, Session(c, l))
    BY <1>8, <1>9, <1>10 DEF After
  <2>2. Session(c, l)' \in BOOLEAN /\ After(f, Session(c, l)) \in BOOLEAN
    BY DEF Session, After
  <2> QED BY <2>1, <2>2
<1>12. ASSUME NEW d \in Clients, NEW k \in LinkIds, d # c \/ k # l PROVE Session(d, k)' = Session(d, k)
  <2>1. CASE d # c
    <3>1. d \in crossed' <=> d \in crossed
      BY <1>8, <2>1
    <3> QED BY <1>3, <3>1 DEF Session
  <2>2. CASE d = c
    BY <1>2, <1>3, <1>12, <2>2 DEF Session
  <2> QED BY <2>1, <2>2
<1>13. crossed' \subseteq Clients
  BY <1>1, <1>8 DEF LinkType
<1> QED BY <1>1, <1>2, <1>3, <1>4, <1>7, <1>11, <1>12, <1>13 DEF f

LEMMA ReadHolds ==
  ASSUME LinkType, NEW c \in Clients, NEW l \in LinkIds, PeerReads(c, l)
  PROVE  /\ held' \in [Clients -> SUBSET Inputs]
         /\ \A d \in Clients : d # c => held'[d] = held[d]
         /\ Head(out[c][l]).kind = "leave" => held'[c] = {}
         /\ (held[c] = {} /\ Head(out[c][l]).kind # "down") => held'[c] = {}
<1>1. out[c][l] \in Seq(FrameSet) /\ out[c][l] # <<>>
  BY DEF LinkType, PeerReads
<1>2. PICK f : f = Head(out[c][l]) /\ f \in FrameSet
  BY <1>1, Reading
<1>3. f.keys \subseteq Inputs
  BY <1>2 DEF FrameSet
<1>4. \/ f.kind = "enter" /\ held' = held
      \/ f.kind = "leave" /\ held' = [held EXCEPT ![c] = {}]
      \/ f.kind \notin {"enter", "leave"} /\ held' = held
      \/ f.kind = "down" /\ held' = [held EXCEPT ![c] = held[c] \cup f.keys]
      \/ f.kind \notin {"enter", "leave", "down"} /\ held' = [held EXCEPT ![c] = held[c] \ f.keys]
  BY <1>2 DEF PeerReads
<1>5. \E h \in SUBSET Inputs : /\ held' = [held EXCEPT ![c] = h]
                               /\ f.kind = "leave" => h = {}
                               /\ (held[c] = {} /\ f.kind # "down") => h = {}
  <2>1. held \in [Clients -> SUBSET Inputs] /\ held[c] \in SUBSET Inputs
    BY DEF LinkType
  <2>2. CASE held' = held /\ f.kind # "leave"
    <3>1. held' = [held EXCEPT ![c] = held[c]]
      BY <2>1, <2>2
    <3> QED BY <2>1, <2>2, <3>1
  <2>3. CASE f.kind = "leave" /\ held' = [held EXCEPT ![c] = {}]
    BY <2>3
  <2>4. CASE f.kind = "down" /\ held' = [held EXCEPT ![c] = held[c] \cup f.keys]
    <3>1. held[c] \cup f.keys \in SUBSET Inputs /\ f.kind # "leave"
      BY <1>3, <2>1, <2>4
    <3> QED BY <2>4, <3>1
  <2>5. CASE f.kind \notin {"enter", "leave", "down"} /\ held' = [held EXCEPT ![c] = held[c] \ f.keys]
    <3>1. held[c] \ f.keys \in SUBSET Inputs /\ f.kind # "leave" /\ (held[c] = {} => held[c] \ f.keys = {})
      BY <2>1, <2>5
    <3> QED BY <2>5, <3>1
  <2> QED BY <1>4, <2>2, <2>3, <2>4, <2>5
<1>6. PICK h \in SUBSET Inputs : /\ held' = [held EXCEPT ![c] = h]
                                 /\ f.kind = "leave" => h = {}
                                 /\ (held[c] = {} /\ f.kind # "down") => h = {}
  BY <1>5
<1>7. held' \in [Clients -> SUBSET Inputs] /\ held'[c] = h /\ \A d \in Clients : d # c => held'[d] = held[d]
  BY <1>6 DEF LinkType
<1> QED BY <1>2, <1>6, <1>7

LEMMA PeerReadsKeeps ==
  ASSUME InputInv, NEW c \in Clients, NEW l \in LinkIds, PeerReads(c, l)
  PROVE  InputInv'
<1>1. CrossingType /\ LinkType /\ LinkOrder /\ HeardOrder
  BY DEF InputInv, CrossingType
<1> DEFINE s == out[c][l]
<1>2. /\ listed[c] = {l} /\ l = accepted[c] /\ l # 0 /\ l \in Nat /\ l <= made[c]
      /\ s \in Seq(FrameSet) /\ s # <<>>
      /\ UNCHANGED <<link, made, accepted, listed, active, ackedAt, state, ackedLink>>
      /\ out' \in [Clients -> [LinkIds -> Seq(FrameSet)]] /\ out'[c][l] = Tail(s)
      /\ \A d \in Clients, k \in LinkIds : (d # c \/ k # l) => out'[d][k] = out[d][k]
      /\ Session(c, l)' = After(Head(s), Session(c, l))
      /\ \A d \in Clients, k \in LinkIds : (d # c \/ k # l) => Session(d, k)' = Session(d, k)
      /\ crossed' \subseteq Clients
  BY <1>1, ReadEffect
<1>3. held' \in [Clients -> SUBSET Inputs]
  BY <1>1, ReadHolds
<1>4. \/ heard' = heard
      \/ /\ heard' = Append(heard, <<c, "ack", link[c]>>)
         /\ Head(s).kind \in {"enter", "leave"} /\ link[c] <= l
  <2>1. l \in listed[c]
    BY <1>2
  <2> QED BY <2>1 DEF PeerReads, Reply
<1>5. /\ heard' \in Seq(AnswerSet) /\ HeardOrder'
      /\ \A i \in 1..Len(heard') :
           heard'[i] = <<c, "ack", link[c]>> \/ \E j \in 1..Len(heard) : heard'[i] = heard[j]
  BY <1>1, <1>2, <1>4, AnswerComes
<1>6. LinkType'
  BY <1>1, <1>2, <1>3, <1>5 DEF LinkType
<1>7. CrossingType'
  <2>1. UNCHANGED <<backendVars, crossingVars, booksVars>>
    BY DEF PeerReads
  <2> QED BY <1>1, <1>6, <2>1, SameBooks DEF CrossingType
<1>8. LinkOrder'
  <2>1. ASSUME NEW d \in Clients, NEW k \in LinkIds, k > made[d] PROVE out'[d][k] = <<>>
    <3>1. d # c \/ k # l
      BY <1>1, <1>2, <2>1 DEF LinkType
    <3>2. out[d][k] = <<>>
      BY <1>1, <2>1 DEF LinkOrder
    <3> QED BY <1>2, <3>1, <3>2
  <2> QED BY <1>1, <1>2, <2>1 DEF LinkOrder
<1>9. AckedOrder'
  BY <1>2 DEF InputInv, AckedOrder
<1>10. ASSUME NEW d \in Clients, NEW k \in LinkIds, Readable(d, k)' PROVE Readable(d, k)
  BY <1>2, <1>10 DEF Readable
<1>11. FramesOrdered'
  <2> SUFFICES ASSUME NEW d \in Clients, NEW k \in LinkIds, Readable(d, k)'
               PROVE  Ordered(out'[d][k], Session(d, k)')
    BY DEF FramesOrdered
  <2>1. Ordered(out[d][k], Session(d, k))
    BY <1>10 DEF InputInv, FramesOrdered
  <2>2. CASE d # c \/ k # l
    BY <1>2, <2>1, <2>2
  <2>3. CASE d = c /\ k = l
    <3>1. Session(c, l) \in BOOLEAN
      BY DEF Session
    <3>2. Ordered(Tail(s), After(Head(s), Session(c, l)))
      BY <1>2, <2>1, <2>3, <3>1, ReadKeeps
    <3> QED BY <1>2, <2>3, <3>2
  <2> QED BY <2>2, <2>3
<1>12. ASSUME NEW d \in Clients PROVE OnCourse(d)'
  <2> SUFFICES ASSUME NEW k, k = link[d], active = d, k # 0, Readable(d, k)'
               PROVE  Untouched(d, k)' \/ Live(out'[d][k], Session(d, k)', Len(out'[d][k]))
    BY <1>2 DEF OnCourse, Readable, Session, Untouched
  <2>1. k \in LinkIds
    BY <1>1 DEF LinkType, LinkOrder, LinkIds
  <2>2. Untouched(d, k) \/ Live(out[d][k], Session(d, k), Len(out[d][k]))
    BY <1>10, <2>1 DEF InputInv, OnCourse
  <2>3. CASE d # c \/ k # l
    <3>1. out'[d][k] = out[d][k] /\ Session(d, k)' = Session(d, k)
      BY <1>2, <2>1, <2>3
    <3>2. \A i \in 1..Len(heard') : heard'[i] = <<d, "ack", k>> => \E j \in 1..Len(heard) : heard[j] = <<d, "ack", k>>
      <4>1. CASE d # c
        BY <1>5, <4>1
      <4>2. CASE d = c
        <5>1. k > l
          BY <1>2, <1>10, <2>1, <2>3, <4>2 DEF Readable
        <5>2. heard' = heard
          BY <1>2, <1>4, <2>1, <4>2, <5>1 DEF LinkIds
        <5> QED BY <5>2
      <4> QED BY <4>1, <4>2
    <3> QED BY <1>2, <2>2, <3>1, <3>2 DEF Untouched
  <2>4. CASE d = c /\ k = l /\ Untouched(c, l)
    <3>1. /\ Len(Tail(s)) = Len(s) - 1 /\ Len(s) \in Nat /\ Len(s) >= 1 /\ Head(s) = s[1]
          /\ \A i \in 1..Len(Tail(s)) : Tail(s)[i] = s[i + 1]
      BY <1>2, Reading
    <3>2. \A i \in 1..Len(s) : s[i].kind \notin {"enter", "leave"}
      BY <2>4 DEF Untouched
    <3>3. Head(s).kind \notin {"enter", "leave"}
      BY <3>1, <3>2
    <3>4. heard' = heard /\ Session(c, l)' = Session(c, l)
      BY <1>2, <1>4, <2>4, <3>3 DEF After, Untouched, Session
    <3>5. \A i \in 1..Len(out'[c][l]) : out'[c][l][i].kind \notin {"enter", "leave"}
      <4>1. ASSUME NEW i \in 1..Len(Tail(s)) PROVE Tail(s)[i].kind \notin {"enter", "leave"}
        <5>1. i + 1 \in 1..Len(s) /\ Tail(s)[i] = s[i + 1]
          BY <3>1
        <5> QED BY <3>2, <5>1
      <4> QED BY <1>2, <4>1
    <3>6. Untouched(c, l)'
      BY <1>2, <2>4, <3>4, <3>5 DEF Untouched
    <3> QED BY <2>4, <3>6
  <2>5. CASE d = c /\ k = l /\ Live(s, Session(c, l), Len(s))
    <3>1. Session(c, l) \in BOOLEAN /\ Len(s) \in Nat /\ Len(s) >= 1 /\ Len(Tail(s)) = Len(s) - 1
      BY <1>2, Reading DEF Session
    <3>2. Len(s) - 1 \in 0..Len(s)-1 /\ (Len(s) - 1) + 1 = Len(s)
      BY <3>1
    <3>3. Live(s, Session(c, l), (Len(s) - 1) + 1)
      BY <2>5, <3>2
    <3>4. Live(Tail(s), After(Head(s), Session(c, l)), Len(s) - 1)
      BY <1>2, <3>1, <3>2, <3>3, ReadLives
    <3>5. Live(out'[c][l], Session(c, l)', Len(out'[c][l]))
      <4> HIDE DEF s
      <4>1. out'[c][l] = Tail(s) /\ Session(c, l)' = After(Head(s), Session(c, l)) /\ Len(Tail(s)) = Len(s) - 1
        BY <1>2, <3>1
      <4> QED BY <3>4, <4>1
    <3> QED BY <2>5, <3>5
  <2> QED BY <2>2, <2>3, <2>4, <2>5
<1> QED BY <1>5, <1>7, <1>8, <1>9, <1>11, <1>12 DEF InputInv

----------------------------------------------------------------------------
(* Input lands *)

LEMMA DrivenKeeps ==
  ASSUME InputInv, Driven, BookType'
  PROVE  InputInv'
<1>1. LinkType /\ LinkOrder /\ HeardOrder /\ AckedOrder
  BY DEF InputInv, CrossingType
<1>2. LinkType' /\ LinkOrder'
  BY <1>1, DrivenType
<1>3. HeardOrder' /\ AckedOrder'
  BY <1>1, DrivenHeard
<1>4. FramesOrdered'
  BY DrivenOrdered
<1>5. \A c \in Clients : OnCourse(c)'
  BY DrivenCourse
<1> QED BY <1>2, <1>3, <1>4, <1>5 DEF InputInv, CrossingType

\* A step is the capture task's, a link's or a peer's.
LEMMA NextSteps ==
  ASSUME CrossingType, Next
  PROVE  \/ Driven /\ BookType'
         \/ \E c \in Clients :
              \/ LinkUp(c) \/ LinkDown(c) \/ Pong(c) \/ PeerLeaves(c) \/ PeerAccepts(c)
              \/ \E l \in LinkIds : PeerLinkEnds(c, l) \/ PeerReads(c, l)
<1>1. CASE HandleEvent
  BY <1>1, HandleEventDriven, HandleEventBooks
<1>2. CASE Hear
  BY <1>2, HearDriven, HearBooks
<1>3. ASSUME NEW c \in Clients,
             \/ LeaseChanges(c) \/ PushEdge(c) \/ BackoffEnds(c) \/ SwitchOff(c) \/ SwitchOn(c)
      PROVE  Driven /\ BookType'
  BY <1>3, OthersDriven, OthersBooks
<1>4. CASE UserInput \/ GiveUp \/ AskRelease \/ SessionEnds \/ SessionStarts
  BY <1>4, OthersDriven, OthersBooks
<1> QED BY <1>1, <1>2, <1>3, <1>4 DEF Next, LinkIds

LEMMA InputInvInit ==
  Init => InputInv
<1> SUFFICES ASSUME Init PROVE InputInv
  OBVIOUS
<1>1. \A c \in Clients : link[c] = 0 /\ made[c] = 0 /\ accepted[c] = 0 /\ listed[c] = {}
  BY DEF Init
<1>2. out = [c \in Clients |-> [l \in LinkIds |-> <<>>]] /\ heard = <<>> /\ events = <<>>
  BY DEF Init, LinkIds
<1>3. \A c \in Clients, l \in LinkIds : out[c][l] = <<>>
  BY <1>2
<1>4. LinkType
  <2>1. <<>> \in Seq(FrameSet) /\ <<>> \in Seq(AnswerSet)
    OBVIOUS
  <2>2. out \in [Clients -> [LinkIds -> Seq(FrameSet)]]
    BY <1>2, <2>1
  <2> QED BY <1>2, <2>1, <2>2 DEF Init, LinkType
<1>5. BookType
  <2>1. <<>> \in Seq(Clients \X EventSet)
    OBVIOUS
  <2> QED BY <1>2, <2>1 DEF Init, BookType
<1>6. LinkOrder
  BY <1>1, <1>3, CrossingAssumption DEF LinkOrder
<1>7. HeardOrder /\ AckedOrder
  BY <1>2, CrossingAssumption DEF Init, HeardOrder, AckedOrder
<1>8. FramesOrdered
  BY <1>3 DEF FramesOrdered, Ordered
<1>9. \A c \in Clients : OnCourse(c)
  BY <1>1 DEF OnCourse
<1> QED BY <1>4, <1>5, <1>6, <1>7, <1>8, <1>9 DEF InputInv, CrossingType

LEMMA InputInvNext ==
  ASSUME OneAtATime, InputInv, [Next]_vars
  PROVE  InputInv'
<1>1. CASE UNCHANGED vars
  <2>1. UNCHANGED <<link, made, accepted, listed, crossed, held, active, ackedLink, state, out, heard,
                    captured, events, pressed, buttons>>
    BY <1>1 DEF vars, backendVars, crossingVars, booksVars, connVars, peerVars
  <2> QED BY <2>1 DEF InputInv, CrossingType, LinkType, BookType, LinkOrder, HeardOrder, AckedOrder,
                      FramesOrdered, OnCourse, Untouched, Readable, Session
<1>2. CASE Next
  <2>1. CrossingType
    BY DEF InputInv
  <2>2. CASE Driven /\ BookType'
    BY <2>2, DrivenKeeps
  <2>3. ASSUME NEW c \in Clients, LinkUp(c) PROVE InputInv'
    BY <2>3, LinkUpKeeps
  <2>4. ASSUME NEW c \in Clients, LinkDown(c) PROVE InputInv'
    BY <2>4, LinkDownKeeps
  <2>5. ASSUME NEW c \in Clients, Pong(c) \/ PeerLeaves(c) PROVE InputInv'
    BY <2>5, OnlyAnswers
  <2>6. ASSUME NEW c \in Clients, PeerAccepts(c) PROVE InputInv'
    BY <2>6, PeerAcceptsKeeps
  <2>7. ASSUME NEW c \in Clients, NEW l \in LinkIds, PeerLinkEnds(c, l) PROVE InputInv'
    BY <2>7, PeerLinkEndsKeeps
  <2>8. ASSUME NEW c \in Clients, NEW l \in LinkIds, PeerReads(c, l) PROVE InputInv'
    BY <2>8, PeerReadsKeeps
  <2> QED BY <1>2, <2>1, <2>2, <2>3, <2>4, <2>5, <2>6, <2>7, <2>8, NextSteps
<1> QED BY <1>1, <1>2

LEMMA InputInvLands ==
  InputInv => InputLands
<1> SUFFICES ASSUME InputInv, NEW c \in Clients, NEW l \in LinkIds, l \in listed[c],
                    out[c][l] # <<>>, Head(out[c][l]).kind \in {"move", "down"}
             PROVE  c \in crossed
  BY DEF InputLands, LinkIds
<1>1. out[c][l] \in Seq(FrameSet) /\ Ordered(out[c][l], Session(c, l))
  BY DEF InputInv, CrossingType, LinkType, FramesOrdered, Readable
<1>2. Len(out[c][l]) \in Nat /\ Len(out[c][l]) >= 1 /\ Head(out[c][l]) = out[c][l][1]
  BY <1>1, Reading
<1>3. 1 \in 1..Len(out[c][l]) /\ IsInput(out[c][l][1])
  BY <1>2 DEF IsInput
<1>4. Live(out[c][l], Session(c, l), 0)
  BY <1>1, <1>3 DEF Ordered
<1> QED BY <1>4 DEF Live, Session

\* With one link at a time from an address, input that reaches a peer is read
\* while the peer is crossed onto: what cross_again_if_relinked and the Ack on a
\* link are for, whatever the links, releases and deadlines do meanwhile.
THEOREM InputOnlyCrossed ==
  OneAtATime => (Spec => []InputLands)
<1> SUFFICES ASSUME OneAtATime PROVE Spec => []InputLands
  OBVIOUS
<1>1. Init => InputInv
  BY InputInvInit
<1>2. InputInv /\ [Next]_vars => InputInv'
  BY InputInvNext
<1>3. InputInv => InputLands
  BY InputInvLands
<1> QED BY <1>1, <1>2, <1>3, PTL DEF Spec

----------------------------------------------------------------------------
(* Nothing is left down *)

LEMMA WriteClear ==
  ASSUME LinkType, LinkOrder, NEW c \in Clients, link[c] # 0, NEW l, l = link[c],
         NEW f \in FrameSet, Sent(c, <<f>>), NEW h,
         f.kind = "leave" \/ (f.kind # "down" /\ Clear(out[c][l], h))
  PROVE  Clear(out'[c][l], h)
<1>1. <<f>> \in Seq(FrameSet)
  OBVIOUS
<1>2. l \in LinkIds /\ out'[c][l] = out[c][l] \o <<f>>
  BY <1>1, SentTyped
<1>3. out[c][l] \in Seq(FrameSet)
  BY <1>2 DEF LinkType
<1>4. Clear(out[c][l] \o <<f>>, h)
  BY <1>3, SendClears
<1> QED BY <1>2, <1>4

\* What is sent on the way out lets go of everything.
LEMMA LeaveClears ==
  ASSUME LinkType, LinkOrder, NEW c \in Clients, link[c] # 0, NEW l, l = link[c],
         NEW keys \in SUBSET Inputs, Sent(c, <<Ups(keys), Leave>>), NEW h
  PROVE  Clear(out'[c][l], h)
<1>1. Ups(keys) \in FrameSet /\ Leave \in FrameSet /\ Leave.kind = "leave"
  BY CrossingFrames DEF Leave
<1>2. <<Ups(keys), Leave>> \in Seq(FrameSet)
  BY <1>1
<1>3. l \in LinkIds /\ out'[c][l] = out[c][l] \o <<Ups(keys), Leave>>
  BY <1>2, SentTyped
<1>4. out[c][l] \in Seq(FrameSet)
  BY <1>3 DEF LinkType
<1>5. out[c][l] \o <<Ups(keys)>> \in Seq(FrameSet)
  BY <1>1, <1>4
<1>6. Clear((out[c][l] \o <<Ups(keys)>>) \o <<Leave>>, h)
  BY <1>1, <1>5, SendClears
<1>7. out[c][l] \o <<Ups(keys), Leave>> = (out[c][l] \o <<Ups(keys)>>) \o <<Leave>>
  BY <1>1, <1>4, TwoByTwo
<1> QED BY <1>3, <1>6, <1>7

\* A write on the link of one device is none on another's.
LEMMA OtherLink ==
  ASSUME LinkType, LinkOrder, NEW d \in Clients, link[d] # 0, NEW frames \in Seq(FrameSet),
         Sent(d, frames), NEW c \in Clients, c # d, NEW l \in LinkIds
  PROVE  out'[c][l] = out[c][l]
BY SentTyped

LEMMA DrivenReleases ==
  ASSUME ReleaseInv, Driven, LeavesFirst, NEW c \in Clients
  PROVE  Releases(c)'
<1>1. /\ LinkType /\ LinkOrder /\ Releases(c) /\ UNCHANGED <<made, accepted, listed, crossed, held>>
  BY DEF ReleaseInv, InputInv, CrossingType, Driven
<1>2. c # None
  BY CrossingAssumption
<1>3. listed'[c] = {} => held'[c] = {}
  BY <1>1 DEF Releases
<1>4. link'[c] \in {0, link[c]}
  BY <1>1, DrivenLink
<1>5. ASSUME active' = c, state' = "Sending", ackedAt' # c PROVE link'[c] # ackedLink' \/ link'[c] = 0
  <2>1. CASE Stays
    BY <1>1, <1>5, <2>1 DEF Stays, Settled, Releases
  <2>2. ~Leaves
    BY <1>2, <1>5 DEF Leaves
  <2>3. ASSUME NEW d \in Clients, Crosses(d) PROVE FALSE
    BY <1>5, <2>3 DEF Crosses
  <2>4. ASSUME NEW d \in Clients, Sends(d) PROVE link'[c] # ackedLink' \/ link'[c] = 0
    BY <1>1, <1>5, <2>4 DEF Sends, Settled, Releases
  <2>5. ASSUME NEW d \in Clients, NEW k \in Nat, Acks(d, k) PROVE link'[c] = 0
    BY <1>2, <1>5, <2>5 DEF Acks
  <2> QED BY <2>1, <2>2, <2>3, <2>4, <2>5 DEF Driven
<1>6. ASSUME NEW l, l = link'[c], l # 0, Readable(c, l)'
      PROVE  (active' = c /\ ackedAt' = c) \/ Clear(out'[c][l], Holds(c, l)')
  <2>1. l = link[c] /\ l \in LinkIds /\ Readable(c, l) /\ Holds(c, l)' = Holds(c, l)
    BY <1>1, <1>4, <1>6 DEF Readable, Holds, LinkType, LinkOrder, LinkIds
  <2>2. (active = c /\ ackedAt = c) \/ Clear(out[c][l], Holds(c, l))
    BY <1>1, <1>6, <2>1 DEF Releases
  <2> DEFINE Kept == Clear(out'[c][l], Holds(c, l)')
  <2>3. ASSUME Clear(out[c][l], Holds(c, l)), out'[c][l] = out[c][l] PROVE Kept
    BY <2>1, <2>3
  <2>4. CASE Stays
    BY <2>2, <2>3, <2>4 DEF Stays
  <2>5. ASSUME Leaves PROVE Kept
    <3>1. CASE active \in Clients /\ active # c
      <4>1. Clear(out[c][l], Holds(c, l))
        BY <2>2, <3>1
      <4>2. CASE out' = out
        BY <2>3, <4>1, <4>2
      <4>3. ASSUME link[active] # 0, NEW keys \in SUBSET Inputs, Sent(active, <<Ups(keys), Leave>>) PROVE Kept
        <5>1. <<Ups(keys), Leave>> \in Seq(FrameSet)
          BY CrossingFrames
        <5>2. out'[c][l] = out[c][l]
          BY <1>1, <2>1, <3>1, <4>3, <5>1, OtherLink
        <5> QED BY <2>3, <4>1, <5>2
      <4> QED BY <2>5, <4>2, <4>3 DEF Leaves
    <3>2. CASE active = c
      <4>1. ASSUME link[c] # 0, NEW keys \in SUBSET Inputs, Sent(c, <<Ups(keys), Leave>>) PROVE Kept
        BY <1>1, <2>1, <4>1, LeaveClears
      <4>2. ASSUME out' = out, link[c] = 0 \/ ackedAt # c PROVE Kept
        BY <1>6, <2>1, <2>2, <2>3, <4>2
      <4>3. link' # [link EXCEPT ![c] = 0]
        BY <1>1, <1>6 DEF LinkType
      <4> QED BY <1>2, <2>5, <3>2, <4>1, <4>2, <4>3 DEF Leaves
    <3>3. CASE active = None
      <4>1. Clear(out[c][l], Holds(c, l)) /\ out' = out
        BY <1>2, <2>2, <2>5, <3>3, CrossingAssumption DEF Leaves
      <4> QED BY <2>3, <4>1
    <3> QED BY <1>1, <3>1, <3>2, <3>3 DEF LinkType
  <2>6. ASSUME NEW d \in Clients, Crosses(d) PROVE Kept
    <3>1. active = None /\ link[d] # 0 /\ Sent(d, <<Enter>>)
      BY <2>6, CrossingAssumption DEF Crosses, LeavesFirst
    <3>2. Clear(out[c][l], Holds(c, l)) /\ Enter \in FrameSet /\ Enter.kind = "enter"
      BY <1>2, <2>2, <3>1, CrossingFrames DEF Enter
    <3>3. CASE d = c
      <4>1. Clear(out'[c][l], Holds(c, l))
        BY <1>1, <2>1, <3>1, <3>2, <3>3, WriteClear
      <4> QED BY <2>1, <4>1
    <3>4. CASE d # c
      <4>1. <<Enter>> \in Seq(FrameSet)
        BY <3>2
      <4>2. out'[c][l] = out[c][l]
        BY <1>1, <2>1, <3>1, <3>4, <4>1, OtherLink
      <4> QED BY <2>3, <3>2, <4>2
    <3> QED BY <3>3, <3>4
  <2>7. ASSUME NEW d \in Clients, Sends(d) PROVE (active' = c /\ ackedAt' = c) \/ Kept
    <3>1. active = d /\ active' = d /\ ackedAt' = ackedAt /\ link[d] # 0
      BY <2>7 DEF Sends
    <3>2. PICK f \in FrameSet : Sent(d, <<f>>) /\ (f = Enter \/ (state = "Sending" /\ ackedLink = link[d]))
      BY <2>7, CrossingFrames DEF Sends
    <3>3. CASE d # c
      <4>1. <<f>> \in Seq(FrameSet)
        OBVIOUS
      <4>2. out'[c][l] = out[c][l] /\ Clear(out[c][l], Holds(c, l))
        BY <1>1, <2>1, <2>2, <3>1, <3>2, <3>3, <4>1, OtherLink
      <4> QED BY <2>3, <4>2
    <3>4. CASE d = c /\ ackedAt # c
      <4>1. ~(state = "Sending" /\ ackedLink = link[c])
        BY <1>1, <3>1, <3>4 DEF Releases
      <4>2. f = Enter /\ f.kind # "down" /\ Clear(out[c][l], Holds(c, l))
        BY <2>2, <3>2, <3>4, <4>1 DEF Enter
      <4>3. Clear(out'[c][l], Holds(c, l))
        BY <1>1, <2>1, <3>1, <3>2, <3>4, <4>2, WriteClear
      <4> QED BY <2>1, <4>3
    <3> QED BY <3>1, <3>3, <3>4
  <2>8. ASSUME NEW d \in Clients, NEW k \in Nat, Acks(d, k) PROVE (active' = c /\ ackedAt' = c) \/ Kept
    <3>1. out' = out /\ active' = active /\ active \in {None, d}
      BY <2>8 DEF Acks
    <3>2. CASE active = c
      BY <1>2, <1>6, <2>1, <2>8, <3>1, <3>2 DEF Acks
    <3>3. CASE active # c
      BY <2>2, <2>3, <3>1, <3>3
    <3> QED BY <3>2, <3>3
  <2> QED BY <2>4, <2>5, <2>6, <2>7, <2>8 DEF Driven
<1> QED BY <1>3, <1>5, <1>6 DEF Releases, Readable, Holds

\* A step that is not about the device.
LEMMA SameReleases ==
  ASSUME NEW d \in Clients, Releases(d), UNCHANGED <<active, ackedAt, state, ackedLink>>,
         link'[d] = link[d], listed'[d] = listed[d], accepted'[d] = accepted[d], held'[d] = held[d],
         out'[d] = out[d]
  PROVE  Releases(d)'
BY DEF Releases, Readable, Holds

LEMMA LinkUpReleases ==
  ASSUME ReleaseInv, NEW c \in Clients, LinkUp(c), NEW d \in Clients
  PROVE  Releases(d)'
<1>1. LinkType /\ LinkOrder /\ AckedOrder /\ Releases(d)
  BY DEF ReleaseInv, InputInv, CrossingType
<1>2. /\ UNCHANGED <<out, accepted, listed, held, active, ackedAt, state, ackedLink>>
      /\ made[c] < MaxLinks /\ link' = [link EXCEPT ![c] = made[c] + 1]
  BY DEF LinkUp, peerVars, crossingVars
<1>3. CASE d # c
  <2>1. link'[d] = link[d]
    BY <1>1, <1>2, <1>3 DEF LinkType
  <2> QED BY <1>1, <1>2, <2>1, SameReleases
<1>4. CASE d = c
  <2>1. PICK n : n = made[c] + 1
    OBVIOUS
  <2>2. made[c] \in Nat /\ n \in LinkIds /\ n > made[c]
    <3>1. made[c] \in Nat
      BY <1>1 DEF LinkType
    <3> QED BY <1>2, <2>1, <3>1, CrossingAssumption DEF LinkIds
  <2>3. link'[c] = n
    BY <1>1, <1>2, <2>1 DEF LinkType
  <2>4. out[c][n] = <<>> /\ n \notin listed[c]
    BY <1>1, <2>2 DEF LinkOrder, LinkType
  <2>5. Len(out'[c][n]) = 0 /\ ~Holds(c, n)'
    BY <1>2, <2>4 DEF Holds
  <2>6. Clear(out'[c][n], Holds(c, n)')
    BY <2>5 DEF Clear
  <2>7. (active = c /\ state = "Sending") => ackedLink # n
    BY <1>1, <2>2 DEF AckedOrder, LinkType
  <2>8. listed'[c] = {} => held'[c] = {}
    BY <1>1, <1>2, <1>4 DEF Releases
  <2> QED BY <1>2, <1>4, <2>3, <2>6, <2>7, <2>8 DEF Releases, Holds
<1> QED BY <1>3, <1>4

LEMMA LinkDownReleases ==
  ASSUME ReleaseInv, NEW c \in Clients, LinkDown(c), NEW d \in Clients
  PROVE  Releases(d)'
<1>1. LinkType /\ Releases(d)
  BY DEF ReleaseInv, InputInv, CrossingType
<1>2. /\ UNCHANGED <<out, accepted, listed, held, active, ackedAt, state, ackedLink>>
      /\ link' = [link EXCEPT ![c] = 0]
  BY DEF LinkDown, Disconnected, peerVars, crossingVars
<1>3. CASE d # c
  <2>1. link'[d] = link[d]
    BY <1>1, <1>2, <1>3 DEF LinkType
  <2> QED BY <1>1, <1>2, <2>1, SameReleases
<1>4. CASE d = c
  <2>1. link'[c] = 0
    BY <1>1, <1>2 DEF LinkType
  <2> QED BY <1>1, <1>2, <1>4, <2>1 DEF Releases
<1> QED BY <1>3, <1>4

LEMMA AnswersRelease ==
  ASSUME ReleaseInv, NEW c \in Clients, Pong(c) \/ PeerLeaves(c), NEW d \in Clients
  PROVE  Releases(d)'
<1>1. UNCHANGED <<link, out, accepted, listed, held, active, ackedAt, state, ackedLink>>
  BY DEF Pong, PeerLeaves, connVars, peerVars, crossingVars
<1>2. Releases(d)
  BY DEF ReleaseInv
<1> QED BY <1>1, <1>2, SameReleases

LEMMA PeerAcceptsReleases ==
  ASSUME OneAtATime, ReleaseInv, NEW c \in Clients, PeerAccepts(c), NEW d \in Clients
  PROVE  Releases(d)'
<1>1. LinkType /\ LinkOrder /\ Releases(d) /\ Releases(c)
  BY DEF ReleaseInv, InputInv, CrossingType
<1>2. PICK l \in (accepted[c] + 1)..made[c] :
        /\ listed[c] = {}
        /\ accepted' = [accepted EXCEPT ![c] = l] /\ listed' = [listed EXCEPT ![c] = @ \cup {l}]
  BY DEF PeerAccepts, OneAtATime
<1>3. UNCHANGED <<link, out, held, active, ackedAt, state, ackedLink>>
  BY DEF PeerAccepts, crossingVars, connVars
<1>4. accepted[c] \in Nat /\ made[c] \in Nat /\ l \in Nat /\ l > accepted[c]
  BY <1>1, <1>2 DEF LinkType
<1>5. /\ accepted'[c] = l /\ listed'[c] = {l}
      /\ \A e \in Clients : e # c => accepted'[e] = accepted[e] /\ listed'[e] = listed[e]
  BY <1>1, <1>2 DEF LinkType
<1>6. CASE d # c
  BY <1>1, <1>3, <1>5, <1>6, SameReleases
<1>7. CASE d = c
  <2>1. held[c] = {}
    BY <1>1, <1>2 DEF Releases
  <2>2. ASSUME NEW k, k = link[c], k # 0, Readable(c, k)'
        PROVE  (active = c /\ ackedAt = c) \/ Clear(out[c][k], Holds(c, k)')
    <3>1. k \in Nat
      BY <1>1, <2>2 DEF LinkType
    <3>2. Readable(c, k)
      BY <1>4, <1>5, <2>2, <3>1 DEF Readable
    <3>3. Holds(c, k)' = Holds(c, k)
      BY <1>3, <2>1 DEF Holds
    <3> QED BY <1>1, <2>2, <3>2, <3>3 DEF Releases
  <2>3. (active = c /\ state = "Sending" /\ ackedAt # c) => (link[c] # ackedLink \/ link[c] = 0)
    BY <1>1 DEF Releases
  <2> QED BY <1>3, <1>7, <2>1, <2>2, <2>3 DEF Releases, Readable, Holds
<1> QED BY <1>6, <1>7

LEMMA PeerLinkEndsReleases ==
  ASSUME ReleaseInv, NEW c \in Clients, NEW l \in LinkIds, PeerLinkEnds(c, l), NEW d \in Clients
  PROVE  Releases(d)'
<1>1. LinkType /\ LinkOrder /\ Releases(d)
  BY DEF ReleaseInv, InputInv, CrossingType
<1>2. listed[c] = {l} /\ l = accepted[c] /\ l # 0 /\ l \in Nat
  BY <1>1, TheListed DEF PeerLinkEnds
<1>3. /\ UNCHANGED <<link, accepted, active, ackedAt, state, ackedLink>>
      /\ held' = [held EXCEPT ![c] = {}]
      /\ listed' = [listed EXCEPT ![c] = @ \ {l}] /\ out' = [out EXCEPT ![c][l] = <<>>]
  BY <1>2 DEF PeerLinkEnds, crossingVars, connVars
<1>4. CASE d # c
  <2>1. listed'[d] = listed[d] /\ held'[d] = held[d] /\ out'[d] = out[d]
    BY <1>1, <1>3, <1>4 DEF LinkType
  <2> QED BY <1>1, <1>3, <2>1, SameReleases
<1>5. CASE d = c
  <2>1. listed'[c] = {} /\ held'[c] = {}
    BY <1>1, <1>2, <1>3 DEF LinkType
  <2>2. ASSUME NEW k, k = link[c], k # 0, Readable(c, k)'
        PROVE  (active = c /\ ackedAt = c) \/ Clear(out'[c][k], Holds(c, k)')
    <3>1. k \in LinkIds
      BY <1>1, <2>2 DEF LinkType, LinkOrder, LinkIds
    <3>2. k > l
      BY <1>2, <1>3, <2>1, <2>2 DEF Readable
    <3>3. Readable(c, k) /\ k # l
      BY <1>2, <3>1, <3>2 DEF Readable, LinkIds
    <3>4. out'[c][k] = out[c][k]
      BY <1>1, <1>3, <3>1, <3>3 DEF LinkType
    <3>5. Holds(c, k)' = Holds(c, k)
      BY <1>2, <2>1, <3>3 DEF Holds
    <3> QED BY <1>1, <1>5, <2>2, <3>3, <3>4, <3>5 DEF Releases
  <2>3. (active = c /\ state = "Sending" /\ ackedAt # c) => (link[c] # ackedLink \/ link[c] = 0)
    BY <1>1, <1>5 DEF Releases
  <2> QED BY <1>3, <1>5, <2>1, <2>2, <2>3 DEF Releases, Readable, Holds
<1> QED BY <1>4, <1>5

LEMMA PeerReadsReleases ==
  ASSUME ReleaseInv, NEW c \in Clients, NEW l \in LinkIds, PeerReads(c, l), NEW d \in Clients
  PROVE  Releases(d)'
<1>1. CrossingType /\ LinkType /\ LinkOrder /\ Releases(d)
  BY DEF ReleaseInv, InputInv, CrossingType
<1> DEFINE s == out[c][l]
<1>2. /\ listed[c] = {l} /\ l = accepted[c] /\ l # 0 /\ l \in Nat
      /\ s \in Seq(FrameSet) /\ s # <<>>
      /\ UNCHANGED <<link, accepted, listed, active, ackedAt, state, ackedLink>>
      /\ out'[c][l] = Tail(s)
      /\ \A e \in Clients, k \in LinkIds : (e # c \/ k # l) => out'[e][k] = out[e][k]
  BY <1>1, ReadEffect
<1>3. /\ \A e \in Clients : e # c => held'[e] = held[e]
      /\ Head(s).kind = "leave" => held'[c] = {}
      /\ (held[c] = {} /\ Head(s).kind # "down") => held'[c] = {}
  BY <1>1, ReadHolds
<1>4. CASE d # c
  <2>1. out' = [out EXCEPT ![c][l] = Tail(out[c][l])]
    BY DEF PeerReads
  <2>2. out'[d] = out[d]
    BY <1>1, <1>4, <2>1 DEF LinkType
  <2> QED BY <1>1, <1>2, <1>3, <1>4, <2>2, SameReleases
<1>5. CASE d = c
  <2>1. listed'[c] # {}
    BY <1>2
  <2>2. ASSUME NEW k, k = link[c], k # 0, Readable(c, k)'
        PROVE  (active = c /\ ackedAt = c) \/ Clear(out'[c][k], Holds(c, k)')
    <3>1. k \in LinkIds
      BY <1>1, <2>2 DEF LinkType, LinkOrder, LinkIds
    <3>2. Readable(c, k)
      BY <1>2, <2>2 DEF Readable
    <3>3. (active = c /\ ackedAt = c) \/ Clear(out[c][k], Holds(c, k))
      BY <1>1, <1>5, <2>2, <3>2 DEF Releases
    <3>4. CASE k # l
      <4>1. out'[c][k] = out[c][k] /\ Holds(c, k)' = Holds(c, k)
        BY <1>2, <3>1, <3>4 DEF Holds
      <4> QED BY <3>3, <4>1
    <3>5. ASSUME k = l, Clear(s, Holds(c, l)) PROVE Clear(Tail(s), Holds(c, l)')
      <4>1. Head(s).kind = "leave" => ~Holds(c, l)'
        BY <1>3 DEF Holds
      <4>2. (~Holds(c, l) /\ Head(s).kind # "down") => ~Holds(c, l)'
        BY <1>2, <1>3 DEF Holds
      <4> HIDE DEF s
      <4> QED BY <1>2, <3>5, <4>1, <4>2, ReadClears
    <3> QED BY <1>2, <3>3, <3>4, <3>5
  <2>3. (active = c /\ state = "Sending" /\ ackedAt # c) => (link[c] # ackedLink \/ link[c] = 0)
    BY <1>1, <1>5 DEF Releases
  <2> QED BY <1>2, <1>5, <2>1, <2>2, <2>3 DEF Releases, Readable, Holds
<1> QED BY <1>4, <1>5

LEMMA ReleaseInvInit ==
  Init => ReleaseInv
<1> SUFFICES ASSUME Init PROVE ReleaseInv
  OBVIOUS
<1>1. InputInv
  BY InputInvInit
<1>2. ASSUME NEW c \in Clients PROVE Releases(c)
  <2>1. link[c] = 0 /\ held[c] = {} /\ state = "WaitingForAck"
    BY DEF Init
  <2> QED BY <2>1 DEF Releases
<1> QED BY <1>1, <1>2 DEF ReleaseInv

LEMMA ReleaseInvNext ==
  ASSUME OneAtATime, ReleaseInv, [Next]_vars, [LeavesFirst]_vars
  PROVE  ReleaseInv'
<1>1. InputInv /\ CrossingType
  BY DEF ReleaseInv, InputInv
<1>2. InputInv'
  BY <1>1, InputInvNext
<1>3. ASSUME NEW d \in Clients PROVE Releases(d)'
  <2>1. CASE UNCHANGED vars
    <3>1. UNCHANGED <<link, out, accepted, listed, held, active, ackedAt, state, ackedLink>>
      BY <2>1 DEF vars, crossingVars, connVars, peerVars
    <3>2. Releases(d)
      BY DEF ReleaseInv
    <3> QED BY <3>1, <3>2, SameReleases
  <2>2. CASE Next /\ LeavesFirst
    <3>1. CASE Driven
      BY <2>2, <3>1, DrivenReleases
    <3>2. ASSUME NEW c \in Clients, LinkUp(c) PROVE Releases(d)'
      BY <3>2, LinkUpReleases
    <3>3. ASSUME NEW c \in Clients, LinkDown(c) PROVE Releases(d)'
      BY <3>3, LinkDownReleases
    <3>4. ASSUME NEW c \in Clients, Pong(c) \/ PeerLeaves(c) PROVE Releases(d)'
      BY <3>4, AnswersRelease
    <3>5. ASSUME NEW c \in Clients, PeerAccepts(c) PROVE Releases(d)'
      BY <3>5, PeerAcceptsReleases
    <3>6. ASSUME NEW c \in Clients, NEW l \in LinkIds, PeerLinkEnds(c, l) PROVE Releases(d)'
      BY <3>6, PeerLinkEndsReleases
    <3>7. ASSUME NEW c \in Clients, NEW l \in LinkIds, PeerReads(c, l) PROVE Releases(d)'
      BY <3>7, PeerReadsReleases
    <3> QED BY <1>1, <2>2, <3>1, <3>2, <3>3, <3>4, <3>5, <3>6, <3>7, NextSteps
  <2> QED BY <2>1, <2>2
<1> QED BY <1>2, <1>3 DEF ReleaseInv

LEMMA ReleaseInvHolds ==
  ReleaseInv => NothingLeftDown
<1> SUFFICES ASSUME ReleaseInv, NEW c \in Clients, held[c] # {}, active # c
             PROVE  LetGoIsComing(c)
  BY DEF NothingLeftDown
<1>1. LinkType /\ LinkOrder /\ Releases(c)
  BY DEF ReleaseInv, InputInv, CrossingType
<1>2. PICK l \in listed[c] : TRUE
  BY <1>1 DEF Releases
<1>3. CASE link[c] # l
  BY <1>3 DEF LetGoIsComing
<1>4. CASE link[c] = l
  <2>1. l # 0 /\ l \in LinkIds /\ Readable(c, l) /\ Holds(c, l)
    BY <1>1, TheListed DEF Readable, Holds
  <2>2. Clear(out[c][l], Holds(c, l))
    BY <1>1, <1>4, <2>1 DEF Releases
  <2>3. PICK j \in 1..Len(out[c][l]) : out[c][l][j].kind = "leave"
    BY <2>1, <2>2 DEF Clear
  <2>4. out[c][l] \in Seq(FrameSet)
    BY <1>1, <2>1 DEF LinkType
  <2>5. j \in DOMAIN out[c][l]
    BY <2>4
  <2> QED BY <2>3, <2>5 DEF LetGoIsComing
<1> QED BY <1>3, <1>4

\* With one link at a time from an address, and while the pointer goes back
\* before it crosses onto another device, what a peer holds for a crossing that
\* ended is on its way up: leave_active_client told it on the link that
\* acknowledged the crossing, or that link is ending.
THEOREM ReleasesReach ==
  OneAtATime => (Spec /\ [][LeavesFirst]_vars => []NothingLeftDown)
<1> SUFFICES ASSUME OneAtATime PROVE Spec /\ [][LeavesFirst]_vars => []NothingLeftDown
  OBVIOUS
<1>1. Init => ReleaseInv
  BY ReleaseInvInit
<1>2. ReleaseInv /\ [Next]_vars /\ [LeavesFirst]_vars => ReleaseInv'
  BY ReleaseInvNext
<1>3. ReleaseInv => NothingLeftDown
  BY ReleaseInvHolds
<1> QED BY <1>1, <1>2, <1>3, PTL DEF Spec

\* So it is with one device, as the run has it, for any keys, links and queues.
THEOREM ReleasesReachTheOne ==
  (OneAtATime /\ \A c, d \in Clients : c = d) => (Spec => []NothingLeftDown)
<1> SUFFICES ASSUME OneAtATime, \A c, d \in Clients : c = d PROVE Spec => []NothingLeftDown
  OBVIOUS
<1>1. Init => ReleaseInv
  BY ReleaseInvInit
<1>2. ReleaseInv /\ [Next]_vars => ReleaseInv'
  <2> SUFFICES ASSUME ReleaseInv, [Next]_vars PROVE ReleaseInv'
    OBVIOUS
  <2>1. InputInv /\ InputInv'
    BY InputInvNext DEF ReleaseInv
  <2>2. active \in Clients \cup {None} /\ active' \in Clients \cup {None}
    BY <2>1 DEF InputInv, CrossingType, LinkType
  <2>3. LeavesFirst
    BY <2>2 DEF LeavesFirst
  <2> QED BY <2>3, ReleaseInvNext
<1>3. ReleaseInv => NothingLeftDown
  BY ReleaseInvHolds
<1> QED BY <1>1, <1>2, <1>3, PTL DEF Spec
====
