---- MODULE Pairing ----
(***************************************************************************)
(* Pick-the-number pairing between two machines (src/src/pairing.rs,       *)
(* pair_ceremony.rs and the service's handlers for it): each person        *)
(* approves the other machine, the machines dial each other, compare one   *)
(* number on one of the connections, and each confirms to the other once   *)
(* the person there answered.                                              *)
(*                                                                         *)
(* Every connection is handled by a task on each machine; the tasks share  *)
(* the machine's board of attempts and tell the service by one queue.  A   *)
(* step below is what a task or the service does between two awaits.       *)
(* Closing a connection is seen at the other end later; what was sent      *)
(* before may still be read there until then.                              *)
(*                                                                         *)
(* The number is not computed: a comparison that reaches it has both       *)
(* nonces, and a person who picks it picks the connection's.  A timer may  *)
(* fire whenever its wait is not yet over.  An answer byte that does not   *)
(* come in time on a connection still open is compared with nothing, as    *)
(* one that agrees would be, and is left out.                              *)
(***************************************************************************)
EXTENDS Naturals, Sequences, FiniteSets

CONSTANTS
  First, Second,  \* the two machines; First's fingerprint sorts first
  MaxConns,       \* bound on the connections they may make
  Choices,        \* the answers the card is given at each machine
  MaxApprovals,   \* bound on the approvals at each machine
  Faults          \* what may go wrong: "lost" links, a "crash"

Machines == {First, Second}
Conns == 1..MaxConns  \* as they are dialled
Other(m) == IF m = First THEN Second ELSE First
Bits == {"controls", "controlled"}

ASSUME PairingAssumption ==
  /\ First # Second /\ "nobody" \notin Machines
  /\ MaxConns \in Nat
  /\ MaxApprovals \in [Machines -> Nat]
  /\ Choices \in [Machines -> SUBSET ((SUBSET Bits) \ {{}})]
  /\ Faults \subseteq {"lost", "crash"}

VARIABLES
  dialler,  \* Conns -> the machine that dialled it, or "nobody" yet
  closed,   \* Machines, Conns: seen closed at that end
  pc,       \* Machines, Conns: where that end's task is
  answer,   \* Machines, Conns: the answer its approval gave, as it was begun
  wire,     \* Machines, Conns: what that end has sent
  flags,    \* Machines: Arriving's `sent' and `told'
  stage,    \* Machines: the stage of the attempt held, or "none"
  lease,    \* Machines: the lease for the other machine
  screen,   \* Machines: the ceremony shown, or NoScreen
  events,   \* Machines: the queue of PairingEvents to the service
  gen,      \* history: how many approvals each machine has given
  yes,      \* history: the connections whose number the person answered
  paired    \* history: the connections each machine's pairing settled on

linkVars == <<dialler, closed, wire>>
boardVars == <<pc, answer, flags, stage>>
serviceVars == <<lease, screen>>
histVars == <<gen, yes, paired>>
vars == <<linkVars, boardVars, serviceVars, events, histVars>>

NoLease == [state |-> "none", answer |-> {}]
NoScreen == [conn |-> 0, answered |-> FALSE, disagree |-> FALSE]

\* A value for every end, and m's own ones seen closed on the connections cs.
AtEnds(x) == [m \in Machines |-> [c \in Conns |-> x]]
Shut(m, cs) == [closed EXCEPT ![m] = [c \in Conns |-> closed[m][c] \/ c \in cs]]

----------------------------------------------------------------------------
(* The board *)

ArrivingPcs == {"begun", "waiting", "sent"}
HeldPcs == {"number", "hello", "confirm"}

Arriving(m) == {c \in Conns : pc[m][c] \in ArrivingPcs}
Held(m) == {c \in Conns : pc[m][c] \in HeldPcs}

\* preferred and keeps: the connection the machine sorting first dialled.
Preferred(c) == dialler[c] = First

\* Answer::agrees_with.
AgreesWith(ours, theirs) ==
  \/ "controls" \in ours /\ "controlled" \in theirs
  \/ "controlled" \in ours /\ "controls" \in theirs

\* What the end that waits for it has to read before it may send its half: the
\* listener's commitment, or the dialler's nonce.
Opening(m, c) == IF dialler[c] = m THEN "commitment" ELSE "half"

\* Drop for Arrival: the last one out takes the entry, its flags with it.
CountOut(m, c, told) ==
  flags' = [flags EXCEPT ![m] = IF Arriving(m) = {c} THEN {} ELSE @ \cup told]

Tell(m, event) == events' = [events EXCEPT ![m] = Append(@, event)]
NumberEvent(c, theirs) == [kind |-> "number", conn |-> c, theirs |-> theirs]
PeerConfirmedEvent(c) == [kind |-> "confirmed", conn |-> c, theirs |-> {}]
EndedEvent(c) == [kind |-> "ended", conn |-> c, theirs |-> {}]

----------------------------------------------------------------------------
(* Connections *)

\* The connections of m's own dial still under way.  One device dials once at
\* a time (`connecting'), but to each address that machine has.
Dialling(m) == {c \in Conns : dialler[c] = m /\ pc[m][c] = "off"}

\* A dial to a machine approved here, or paired: the TLS verifier here admits
\* no other.
Dial(m, c) ==
  /\ dialler[c] = "nobody" /\ \A d \in 1..c-1 : dialler[d] # "nobody"
  /\ lease[m].state # "none"
  /\ \A d \in Conns : dialler[d] = m => pc[m][d] \in {"off", "over"}
  /\ dialler' = [dialler EXCEPT ![c] = m]
  /\ UNCHANGED <<closed, wire, boardVars, serviceVars, events, histVars>>

\* An end learns that the other closed the connection, or loses the link.
SeeClosed(m, c) ==
  /\ dialler[c] # "nobody"
  /\ ~closed[m][c]
  /\ closed[Other(m)][c] \/ "lost" \in Faults
  /\ closed' = [closed EXCEPT ![m][c] = TRUE]
  /\ UNCHANGED <<dialler, wire, boardVars, serviceVars, events, histVars>>

\* The connection is up at m.  A machine mid-pairing begins the comparison
\* there, unless another already sent this machine's half (begin); one not
\* approved here is turned away, and one paired is a link.  The first of a
\* dial's connections to come up is the one it keeps.
Land(m, c) ==
  LET dropped == IF dialler[c] = m THEN Dialling(m) \ {c} ELSE {}
      with(to) == [pc EXCEPT ![m] = [d \in Conns |->
                     IF d = c THEN to ELSE IF d \in dropped THEN "over" ELSE pc[m][d]]] IN
  /\ dialler[c] # "nobody" /\ pc[m][c] = "off" /\ ~closed[m][c]
  /\ IF lease[m].state = "approved" /\ Held(m) = {} /\ flags[m] = {}
     THEN /\ pc' = with("begun")
          /\ answer' = [answer EXCEPT ![m][c] = lease[m].answer]
          /\ wire' = IF dialler[c] = m THEN wire
                     ELSE [wire EXCEPT ![m][c] = @ \cup {"commitment"}]
          /\ closed' = Shut(m, dropped)
     ELSE /\ pc' = with(IF lease[m].state = "paired" THEN "link" ELSE "over")
          /\ closed' = Shut(m, IF lease[m].state = "paired" THEN dropped ELSE dropped \cup {c})
          /\ UNCHANGED <<answer, wire>>
  /\ UNCHANGED <<dialler, flags, stage, serviceVars, events, gen, yes, paired>>

----------------------------------------------------------------------------
(* The comparison, before its number *)

\* Mutant of MaySend: whatever was sent already.
MaySendAgain(m, c) == Preferred(c) \/ {d \in Arriving(m) : Preferred(d)} = {}

\* Arrival::may_send: how a comparison that would send its half finds the board.
MaySend(m, c) ==
  /\ Held(m) = {} /\ flags[m] = {}
  /\ Preferred(c) \/ {d \in Arriving(m) : Preferred(d)} = {}

GivesUp(m) == Held(m) # {} \/ flags[m] # {}

\* The half goes out: the dialler's nonce, or the reveal; the answer after it.
SendHalf(m, c) ==
  /\ pc[m][c] = "waiting" \/ (pc[m][c] = "begun" /\ Opening(m, c) \in wire[Other(m)][c])
  /\ ~closed[m][c]
  /\ MaySend(m, c)
  /\ pc' = [pc EXCEPT ![m][c] = "sent"]
  /\ flags' = [flags EXCEPT ![m] = {"sent"}]
  /\ wire' = [wire EXCEPT ![m][c] = @ \cup {"half"}]
  /\ UNCHANGED <<dialler, closed, answer, stage, serviceVars, events, histVars>>

\* Held back for a preferred comparison under way.
Wait(m, c) ==
  /\ pc[m][c] = "begun" /\ Opening(m, c) \in wire[Other(m)][c] /\ ~closed[m][c]
  /\ ~MaySend(m, c) /\ ~GivesUp(m)
  /\ pc' = [pc EXCEPT ![m][c] = "waiting"]
  /\ UNCHANGED <<linkVars, answer, flags, stage, serviceVars, events, histVars>>

\* HeldBack, nothing sent: another is the one, or this connection closed.
GiveUp(m, c) ==
  /\ \/ pc[m][c] = "waiting" /\ (closed[m][c] \/ GivesUp(m))
     \/ /\ pc[m][c] = "begun" /\ Opening(m, c) \in wire[Other(m)][c]
        /\ ~closed[m][c] /\ GivesUp(m)
  /\ pc' = [pc EXCEPT ![m][c] = "over"]
  /\ closed' = [closed EXCEPT ![m][c] = TRUE]
  /\ CountOut(m, c, {})
  /\ UNCHANGED <<dialler, wire, answer, stage, serviceVars, events, histVars>>

\* It failed before the half went out.  Closed, it is dropped quietly; still
\* open, the peer offered no number in time, and the service is told.
FailEarly(m, c) ==
  /\ pc[m][c] = "begun"
  /\ pc' = [pc EXCEPT ![m][c] = "over"]
  /\ closed' = [closed EXCEPT ![m][c] = TRUE]
  /\ IF closed[m][c] THEN CountOut(m, c, {}) /\ UNCHANGED events
     ELSE CountOut(m, c, {"told"}) /\ Tell(m, EndedEvent(c))
  /\ UNCHANGED <<dialler, wire, answer, stage, serviceVars, histVars>>

\* It failed after the half went out: the other machine may know the number.
FailLate(m, c) ==
  /\ pc[m][c] = "sent"
  /\ dialler[c] = m \/ closed[m][c]
  /\ pc' = [pc EXCEPT ![m][c] = "over"]
  /\ closed' = [closed EXCEPT ![m][c] = TRUE]
  /\ CountOut(m, c, {"told"})
  /\ Tell(m, EndedEvent(c))
  /\ UNCHANGED <<dialler, wire, answer, stage, serviceVars, histVars>>

\* The number: hold the connection and tell the service.  What the other
\* machine answered comes with it, if its byte arrived.
Reach(m, c) ==
  /\ pc[m][c] = "sent"
  /\ dialler[c] = m => "half" \in wire[Other(m)][c] /\ ~closed[m][c]
  /\ Held(m) = {}
  /\ \E theirs \in {answer[Other(m)][c]} \cup (IF closed[m][c] THEN {{}} ELSE {}) :
       Tell(m, NumberEvent(c, theirs))
  /\ pc' = [pc EXCEPT ![m][c] = "number"]
  /\ stage' = [stage EXCEPT ![m] = "comparing"]
  /\ CountOut(m, c, {})
  /\ UNCHANGED <<linkVars, answer, serviceVars, histVars>>

----------------------------------------------------------------------------
(* The attempt held *)

Release(m, c, to) ==
  /\ pc' = [pc EXCEPT ![m][c] = to]
  /\ stage' = [stage EXCEPT ![m] = "none"]

\* Mutant of SeeAnswered: the Hello goes out before the person answers.
SeeAnsweredAtOnce(m, c) ==
  /\ pc[m][c] = "number" /\ stage[m] # "over"
  /\ pc' = [pc EXCEPT ![m][c] = "hello"]
  /\ wire' = IF dialler[c] = m /\ ~closed[m][c]
             THEN [wire EXCEPT ![m][c] = @ \cup {"hello"}] ELSE wire
  /\ UNCHANGED <<dialler, closed, answer, flags, stage, serviceVars, events, histVars>>

\* The person here answered.  The dialler says so at once, with its Hello.
SeeAnswered(m, c) ==
  /\ pc[m][c] = "number" /\ stage[m] = "answered"
  /\ pc' = [pc EXCEPT ![m][c] = "hello"]
  /\ wire' = IF dialler[c] = m /\ ~closed[m][c]
             THEN [wire EXCEPT ![m][c] = @ \cup {"hello"}] ELSE wire
  /\ UNCHANGED <<dialler, closed, answer, flags, stage, serviceVars, events, histVars>>

\* Mutant of SeePeerHello: the machine added answers before its store says so.
SeePeerHelloAnswers(m, c) ==
  /\ pc[m][c] = "hello" /\ stage[m] # "over"
  /\ "hello" \in wire[Other(m)][c] /\ ~closed[m][c]
  /\ pc' = [pc EXCEPT ![m][c] = "confirm"]
  /\ wire' = [wire EXCEPT ![m][c] = @ \cup {"hello"}]
  /\ Tell(m, PeerConfirmedEvent(c))
  /\ UNCHANGED <<dialler, closed, answer, flags, stage, serviceVars, histVars>>

\* The other machine's Hello.
SeePeerHello(m, c) ==
  /\ pc[m][c] = "hello" /\ stage[m] # "over"
  /\ "hello" \in wire[Other(m)][c] /\ ~closed[m][c]
  /\ pc' = [pc EXCEPT ![m][c] = "confirm"]
  /\ Tell(m, PeerConfirmedEvent(c))
  /\ UNCHANGED <<linkVars, answer, flags, stage, serviceVars, histVars>>

\* The store says so: the connection becomes a link, and the machine that was
\* added answers with its own Hello.
SeeSettled(m, c) ==
  /\ pc[m][c] = "confirm" /\ stage[m] = "settled"
  /\ Release(m, c, "link")
  /\ wire' = IF dialler[c] # m /\ ~closed[m][c]
             THEN [wire EXCEPT ![m][c] = @ \cup {"hello"}] ELSE wire
  /\ UNCHANGED <<dialler, closed, answer, flags, serviceVars, events, histVars>>

\* What each wait of a held attempt is for.
Wanted(m, c) ==
  \/ pc[m][c] = "number" /\ stage[m] = "answered"
  \/ pc[m][c] = "confirm" /\ stage[m] = "settled"

\* Mutant of EndHeld: the service is not told.
EndHeldQuietly(m, c) ==
  /\ c \in Held(m)
  /\ stage[m] # "over" /\ ~Wanted(m, c)
  /\ Release(m, c, "over")
  /\ closed' = [closed EXCEPT ![m][c] = TRUE]
  /\ UNCHANGED <<dialler, wire, answer, flags, events, serviceVars, histVars>>

\* Closed, out of time, or the device switched off: ended, the service told.
EndHeld(m, c) ==
  /\ c \in Held(m)
  /\ stage[m] # "over" /\ ~Wanted(m, c)
  /\ Release(m, c, "over")
  /\ closed' = [closed EXCEPT ![m][c] = TRUE]
  /\ Tell(m, EndedEvent(c))
  /\ UNCHANGED <<dialler, wire, answer, flags, serviceVars, histVars>>

\* Ended by the service, which said why.
SeeOver(m, c) ==
  /\ c \in Held(m) /\ stage[m] = "over"
  /\ Release(m, c, "over")
  /\ UNCHANGED <<linkVars, answer, flags, serviceVars, events, histVars>>

----------------------------------------------------------------------------
(* The service *)

\* Pairings::end, and the number off the screen.
EndCeremony(m) ==
  /\ stage' = [stage EXCEPT ![m] = IF Held(m) = {} THEN @ ELSE "over"]
  /\ closed' = Shut(m, Held(m))
  /\ screen' = [screen EXCEPT ![m] = NoScreen]

\* forget_pairing: an approval goes, a pairing stays.
ForgetPairing(m) ==
  lease' = [lease EXCEPT ![m] = IF @.state = "approved" THEN NoLease ELSE @]

EndAndForget(m) == EndCeremony(m) /\ ForgetPairing(m)

\* add_authorized_key, for a machine this one holds no pairing with.
Approve(m) ==
  /\ lease[m].state = "none"
  /\ gen[m] < MaxApprovals[m]
  /\ gen' = [gen EXCEPT ![m] = @ + 1]
  /\ \E a \in Choices[m] : lease' = [lease EXCEPT ![m] = [state |-> "approved", answer |-> a]]
  /\ UNCHANGED <<linkVars, boardVars, screen, events, yes, paired>>

CancelPairing(m) ==
  /\ lease[m].state = "approved" \/ screen[m] # NoScreen
  /\ EndAndForget(m)
  /\ UNCHANGED <<dialler, wire, pc, answer, flags, events, histVars>>

\* forget_unstarted_pairings: no number within the window.
ForgetUnstarted(m) ==
  /\ lease[m].state = "approved" /\ screen[m] = NoScreen
  /\ ForgetPairing(m)
  /\ UNCHANGED <<linkVars, boardVars, screen, events, histVars>>

\* remove_authorized_key of a machine paired with: its links are cut.
Remove(m) ==
  LET links == {c \in Conns : pc[m][c] = "link"} IN
  /\ lease[m].state = "paired"
  /\ lease' = [lease EXCEPT ![m] = NoLease]
  /\ screen' = [screen EXCEPT ![m] = NoScreen]
  /\ stage' = [stage EXCEPT ![m] = IF Held(m) = {} THEN @ ELSE "over"]
  /\ closed' = Shut(m, links \cup Held(m))
  /\ pc' = [pc EXCEPT ![m] = [c \in Conns |-> IF c \in links THEN "over" ELSE pc[m][c]]]
  /\ UNCHANGED <<dialler, wire, answer, flags, events, histVars>>

\* Mutant of AnswerRight: answers that disagree are let through.
AnswerRightAnyway(m) ==
  /\ screen[m] # NoScreen /\ ~screen[m].answered
  /\ yes' = [yes EXCEPT ![m] = @ \cup {screen[m].conn}]
  /\ screen' = [screen EXCEPT ![m].answered = TRUE]
  /\ stage' = [stage EXCEPT ![m] = IF @ = "comparing" THEN "answered" ELSE @]
  /\ UNCHANGED <<dialler, wire, pc, answer, flags, events, gen, paired, closed, lease>>

\* answer_pairing with the right number.
AnswerRight(m) ==
  /\ screen[m] # NoScreen /\ ~screen[m].answered
  /\ yes' = [yes EXCEPT ![m] = @ \cup {screen[m].conn}]
  /\ IF screen[m].disagree
     THEN EndAndForget(m)
     ELSE /\ screen' = [screen EXCEPT ![m].answered = TRUE]
          /\ stage' = [stage EXCEPT ![m] = IF @ = "comparing" THEN "answered" ELSE @]
          /\ UNCHANGED <<closed, lease>>
  /\ UNCHANGED <<dialler, wire, pc, answer, flags, events, gen, paired>>

\* answer_pairing with another number.
AnswerWrong(m) ==
  /\ screen[m] # NoScreen /\ ~screen[m].answered
  /\ EndAndForget(m)
  /\ UNCHANGED <<dialler, wire, pc, answer, flags, events, histVars>>

\* show_pairing_number.
ShowNumber(m, e) ==
  IF lease[m].state = "approved"
  THEN \/ /\ screen' = [screen EXCEPT ![m] =
               [conn |-> e.conn, answered |-> FALSE,
                disagree |-> e.theirs # {} /\ ~AgreesWith(lease[m].answer, e.theirs)]]
          /\ UNCHANGED <<stage, closed, lease>>
       \/ dialler[e.conn] # m /\ EndAndForget(m)  \* no randomness to offer three
  ELSE EndCeremony(m) /\ UNCHANGED lease

\* settle_pairing: the one door that makes an approval grant.
SettlePairing(m) ==
  IF screen[m].answered /\ lease[m].state # "none"
  THEN /\ lease' = [lease EXCEPT ![m].state = "paired"]
       /\ screen' = [screen EXCEPT ![m] = NoScreen]
       /\ stage' = [stage EXCEPT ![m] = IF @ = "answered" THEN "settled" ELSE @]
       /\ paired' = [paired EXCEPT ![m] = @ \cup {screen[m].conn}]
       /\ UNCHANGED closed
  ELSE EndAndForget(m) /\ UNCHANGED paired

\* Mutant of PairingEnded: any number on screen keeps the pairing.
PairingEndedUnlessShown(m, c) ==
  /\ IF screen[m] # NoScreen THEN UNCHANGED <<screen, lease>>
     ELSE screen' = [screen EXCEPT ![m] = NoScreen] /\ ForgetPairing(m)
  /\ UNCHANGED <<stage, closed>>

\* pairing_ended: unless another attempt is the one on screen.
PairingEnded(m, c) ==
  /\ IF screen[m] # NoScreen /\ screen[m].conn # c
     THEN UNCHANGED <<screen, lease>>
     ELSE screen' = [screen EXCEPT ![m] = NoScreen] /\ ForgetPairing(m)
  /\ UNCHANGED <<stage, closed>>

HandleEvent(m) ==
  /\ events[m] # <<>>
  /\ events' = [events EXCEPT ![m] = Tail(@)]
  /\ LET e == Head(events[m]) IN
     \/ e.kind = "number" /\ ShowNumber(m, e) /\ UNCHANGED paired
     \/ e.kind = "confirmed" /\ SettlePairing(m)
     \/ e.kind = "ended" /\ PairingEnded(m, e.conn) /\ UNCHANGED paired
  /\ UNCHANGED <<dialler, wire, pc, answer, flags, gen, yes>>

\* The daemon dies and starts again: its connections, its tasks and every
\* approval still waiting for its number are gone; a pairing is kept.
Restart(m) ==
  /\ "crash" \in Faults
  /\ pc' = [pc EXCEPT ![m] = [c \in Conns |->
              IF dialler[c] # "nobody" THEN "over" ELSE pc[m][c]]]
  /\ closed' = Shut(m, {c \in Conns : dialler[c] # "nobody"})
  /\ flags' = [flags EXCEPT ![m] = {}]
  /\ stage' = [stage EXCEPT ![m] = "none"]
  /\ ForgetPairing(m)
  /\ screen' = [screen EXCEPT ![m] = NoScreen]
  /\ events' = [events EXCEPT ![m] = <<>>]
  /\ UNCHANGED <<dialler, wire, answer, histVars>>

----------------------------------------------------------------------------

Init ==
  /\ dialler = [c \in Conns |-> "nobody"]
  /\ closed = AtEnds(FALSE)
  /\ pc = AtEnds("off")
  /\ answer = AtEnds({})
  /\ wire = AtEnds({})
  /\ flags = [m \in Machines |-> {}]
  /\ stage = [m \in Machines |-> "none"]
  /\ lease = [m \in Machines |-> NoLease]
  /\ screen = [m \in Machines |-> NoScreen]
  /\ events = [m \in Machines |-> <<>>]
  /\ gen = [m \in Machines |-> 0]
  /\ yes = [m \in Machines |-> {}]
  /\ paired = [m \in Machines |-> {}]

Task(m, c) ==
  \/ Land(m, c) \/ SendHalf(m, c) \/ Wait(m, c) \/ GiveUp(m, c)
  \/ FailEarly(m, c) \/ FailLate(m, c) \/ Reach(m, c)
  \/ SeeAnswered(m, c) \/ SeePeerHello(m, c) \/ SeeSettled(m, c)
  \/ EndHeld(m, c) \/ SeeOver(m, c)

Person(m) == Approve(m) \/ Remove(m) \/ CancelPairing(m) \/ AnswerRight(m) \/ AnswerWrong(m)

Next ==
  \E m \in Machines :
    \/ Person(m) \/ ForgetUnstarted(m) \/ HandleEvent(m) \/ Restart(m)
    \/ \E c \in Conns : Dial(m, c) \/ SeeClosed(m, c) \/ Task(m, c)

Spec == Init /\ [][Next]_vars

\* At the machine that gives way, the runtime polls every task that can go on,
\* a timer that is due included, and the service's loop takes what is queued
\* and runs its ticks.  Nobody is made to approve, answer, dial or cancel, and
\* the other machine may do nothing for ever.
FairSpec ==
  /\ Spec
  /\ WF_vars(HandleEvent(Second))
  /\ WF_vars(ForgetUnstarted(Second))
  /\ \A c \in Conns : WF_vars(Task(Second, c))

----------------------------------------------------------------------------
(* Correctness *)

\* A pairing grants only once the people at both machines answered the number
\* of one and the same connection: no late confirmation, cancel or second
\* connection ever settles one otherwise, while each person approves once
\* (settle_pairing, whose PeerConfirmed names no attempt).
PairedOnlyByBoth ==
  \A m \in Machines : paired[m] \subseteq yes[m] \cap yes[Other(m)]

\* The machine that dialled is never paired on a connection the machine it
\* reached did not pair on: "an answer lost on the wire can leave only the
\* machine being added paired" (pairing.rs).
OnlyTheAddedIsStranded ==
  \A m \in Machines : \A c \in paired[m] :
    dialler[c] = m => c \in paired[Other(m)]

\* Two machines that hold an attempt at once hold the same connection, also
\* while one of them has yet to learn that the other ended: nobody is asked to
\* match two different numbers (begin, may_send, hold).
BothHoldTheSame ==
  \A c \in Held(First), d \in Held(Second) : c = d

\* Two machines that paired on one connection chose answers that let control go
\* some way (show_pairing_number, answer_pairing, #220).
PairedAnswersAgree ==
  \A c \in Conns :
    (\A m \in Machines : c \in paired[m] /\ lease[m].state = "paired")
      => AgreesWith(lease[First].answer, lease[Second].answer)

\* No approval waits for ever: it becomes a pairing or is forgotten, whatever
\* the other machine does or fails to do (Pairings::DEADLINE, the step
\* timeouts, forget_unstarted_pairings).
ApprovalEnds == lease[Second].state = "approved" ~> lease[Second].state # "approved"

\* No number stays on screen once its connection cannot finish, whatever the
\* other machine does: it is settled, or the attempt's end takes it down
\* (EndHeld's Ended, pairing_ended).
NumberLeavesScreen == screen[Second] # NoScreen ~> screen[Second] = NoScreen
====
