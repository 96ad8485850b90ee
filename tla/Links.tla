---- MODULE Links ----
(***************************************************************************)
(* The links over which one machine, here "C", drives another, here "D".   *)
(* Either may dial: C when the pointer crosses (connect_to_handle in       *)
(* src/src/connect.rs), D to be driven (src/src/dial_back.rs).  C keeps    *)
(* the device's link in a map by address and shows one of them as active;  *)
(* D lists the links in that it reads (src/src/listen.rs).  The pairing,   *)
(* the device's switch and its address change under all of this, and the   *)
(* task that closes the links runs some time after each change             *)
(* (src/src/service.rs).                                                   *)
(*                                                                         *)
(* A step is what a task does between two awaits.  Each end learns of a    *)
(* link's end on its own: "shut" holds the ends that have.  Waits between  *)
(* dials are only the order of steps.  A link both ends are done with is   *)
(* free to be made again, so the number of dials has no bound.             *)
(***************************************************************************)
EXTENDS Naturals, FiniteSets

CONSTANTS
  MaxLinks,   \* bound on the links in being at once
  MaxEdits,   \* bound on what people change: pairing, switches, names
  MaxFaults   \* bound on the links lost and the first frames too late

ASSUME LinksAssumption == MaxLinks \in Nat \ {0} /\ MaxEdits \in Nat /\ MaxFaults \in Nat

VARIABLES
  link,     \* each link: who dialled it, how far each end is, who knows its end
  conns,    \* C: LanMouseConnection::conns, the link at each address, 0 for none
  active,   \* C: the device's active_addr
  device,   \* the device each machine has for the other, and its switch
  knows,    \* the machines whose trust store lets C drive D
  holding,  \* D: DialBack::held has a task for C
  cut,      \* the machines with a cut_sessions task to run
  closing,  \* C: a close_device task is to run
  told,     \* the machines whose service is yet to hear the other removed it
  edits, faults

vars == <<link, conns, active, device, knows, holding, cut, closing, told,
          edits, faults>>

Machines == {"C", "D"}
Ids == 1..MaxLinks

\* The address of D's listener, which every link C dials has; a link D dials
\* has an address of its own, the link's number.
Listener == 0
Addrs == {Listener} \cup Ids
NoAddr == MaxLinks + 1

\* A link: who dialled it; how far the task at each end is; the ends that know
\* it ended; why it did, a machine for the one that removed the other; and
\* the ends where it is stray: listed there after what it was checked against
\* was gone, or up as its device was renamed, or taken beside such a one.
Free == [by |-> "C", c |-> "over", d |-> "over", shut |-> Machines, why |-> "ended",
         stray |-> {}]

\* Once both ends are done with a link, it may be made again.
Settled(links) ==
  [l \in Ids |-> IF /\ links[l].c = "over" /\ links[l].d = "over"
                    /\ links[l].shut = Machines
                 THEN Free ELSE links[l]]

Addr(l) == IF link[l].by = "C" THEN Listener ELSE l

\* Connection::close at the end `m': the reason reaches the other end, unless
\* that one closes the link too before it arrives.
Shut(r, m, why) ==
  IF m \in r.shut THEN r
  ELSE [r EXCEPT !.shut = @ \cup {m}, !.why = IF r.shut = {} THEN why ELSE "ended"]

\* transport::close_reason, asked of the store as the link is closed.
Reason(m) == IF m \in knows THEN "ended" ELSE m

Open(l, m) == m \notin link[l].shut
Up(l) == link[l].c = "up" /\ Open(l, "C")
Listed(l) == link[l].d = "listed" /\ Open(l, "D")

Switched(m) == device[m] = "on"

\* A new link takes the first number that is free: which one means nothing.
NewLink(by, l) ==
  /\ link[l] = Free /\ \A k \in Ids : k < l => link[k] # Free
  /\ link' = [link EXCEPT ![l] = [by |-> by,
                                  c |-> IF by = "C" THEN "dial" ELSE "none",
                                  d |-> IF by = "D" THEN "dial" ELSE "none",
                                  shut |-> {}, why |-> "no", stray |-> {}]]

StrayAtC == \E l \in Ids : "C" \in link[l].stray

\* The end `m' lists the link, in time if what it asked before still holds.
Listing(r, m, intime) ==
  LET stray == IF intime THEN r.stray ELSE r.stray \cup {m}
  IN IF m = "C" THEN [r EXCEPT !.c = "up", !.stray = stray]
     ELSE [r EXCEPT !.d = "listed", !.stray = stray]

\* Mutant of Over: the task ends and leaves the link open.
OverUnclosed(r, m, why) ==
  IF m = "C" THEN [r EXCEPT !.c = "over"] ELSE [r EXCEPT !.d = "over"]

\* The task at the end `m' of a link is over, and closes it if it is open.
Over(r, m, why) ==
  IF m = "C" THEN [Shut(r, m, why) EXCEPT !.c = "over"]
  ELSE [Shut(r, m, why) EXCEPT !.d = "over"]

Ends(l, m) == link' = Settled([link EXCEPT ![l] = Over(@, m, "ended")])

-----------------------------------------------------------------------------
(***************************************************************************)
(* C dials.                                                                *)
(***************************************************************************)

Connecting == \E l \in Ids : link[l].by = "C" /\ link[l].c \in {"dial", "landed"}

HasLink == active # NoAddr /\ conns[active] # 0

\* LanMouseConnection::send and ::dial with no link to send on: start_dial,
\* unless a dial is under way.
StartDial(l) ==
  /\ Switched("C") /\ ~HasLink /\ ~Connecting
  /\ NewLink("C", l)
  /\ UNCHANGED <<conns, active, device, knows, holding, cut, closing, told, edits, faults>>

\* The dialler refuses the other's certificate in the handshake: the other
\* end never has the link.
Abandoned(l) == link' = [link EXCEPT ![l] = Free]

\* connect: D's certificate is checked, in the handshake and once after it.
Connect(l) ==
  /\ link[l].by = "C" /\ link[l].c = "dial" /\ Open(l, "C")
  /\ IF "C" \in knows
     THEN link' = [link EXCEPT ![l].c = "landed"]
     ELSE Abandoned(l) \/ Ends(l, "C")
  /\ UNCHANGED <<conns, active, device, knows, holding, cut, closing, told, edits, faults>>

\* connect_to_handle once the dial landed, under the lock on the map.  The
\* lease is not asked again.
Takes(l) == Switched("C") /\ ~HasLink

Land(l) ==
  /\ link[l].by = "C" /\ link[l].c = "landed"
  /\ IF Takes(l)
     THEN /\ link' = [link EXCEPT ![l] = Listing(@, "C", "C" \in knows /\ ~StrayAtC)]
          /\ conns' = [conns EXCEPT ![Listener] = l]
          /\ active' = Listener
     ELSE /\ Ends(l, "C")
          /\ UNCHANGED <<conns, active>>
  /\ UNCHANGED <<device, knows, holding, cut, closing, told, edits, faults>>

\* D's listener: C's certificate is checked in the handshake, after C's half
\* of it, and again once it is done.
Accept(l) ==
  /\ link[l].by = "C" /\ link[l].d = "none" /\ link[l].c # "dial" /\ Open(l, "D")
  /\ IF "D" \in knows
     THEN link' = [link EXCEPT ![l].d = "checked"]
     ELSE Ends(l, "D")
  /\ UNCHANGED <<conns, active, device, knows, holding, cut, closing, told, edits, faults>>

-----------------------------------------------------------------------------
(***************************************************************************)
(* D dials, to be driven.                                                  *)
(***************************************************************************)

\* DialBack::wanted.
Wanted == Switched("D") /\ "D" \in knows

\* The task holds a link, or is making one: it dials no other.
Busy == \E l \in Ids : /\ link[l].by = "D"
                       /\ link[l].d \in {"dial", "waiting", "checked"} \/ Listed(l)

\* Admitter::links_from.
LinksFrom == {l \in Ids : Listed(l)}

\* DialBack::reconcile: start the task that is wanted, stop the one that is
\* not, which closes what it holds or was making.
Reconcile ==
  /\ holding # Wanted
  /\ holding' = Wanted
  /\ link' = IF Wanted THEN link
             ELSE Settled([l \in Ids |->
                    IF link[l].by # "D" THEN link[l]
                    ELSE IF link[l].d = "dial" THEN Free
                    ELSE IF link[l].d = "waiting" THEN Over(link[l], "D", "ended")
                    ELSE IF link[l].d = "checked" THEN Over(link[l], "D", Reason("D"))
                    ELSE IF link[l].d = "listed" THEN Shut(link[l], "D", Reason("D"))
                    ELSE link[l]])
  /\ UNCHANGED <<conns, active, device, knows, cut, closing, told, edits, faults>>

\* hold: a dial starts only while C drives this machine over no other link.
HoldDials(l) ==
  /\ holding /\ ~Busy /\ LinksFrom = {}
  /\ NewLink("D", l)
  /\ UNCHANGED <<conns, active, device, knows, holding, cut, closing, told, edits, faults>>

\* attempt: C's certificate is checked in the handshake.
Attempt(l) ==
  /\ link[l].by = "D" /\ link[l].d = "dial" /\ Open(l, "D")
  /\ IF "D" \in knows
     THEN link' = [link EXCEPT ![l].d = "waiting"]
     ELSE Abandoned(l)
  /\ UNCHANGED <<conns, active, device, knows, holding, cut, closing, told, edits, faults>>

\* C's listener, after D's half of the handshake: a link whose dialler is to
\* be driven goes to the service.
DialledIn(l) ==
  /\ link[l].by = "D" /\ link[l].c = "none" /\ link[l].d # "dial" /\ Open(l, "C")
  /\ IF "C" \in knows
     THEN link' = [link EXCEPT ![l].c = "queued"]
     ELSE Ends(l, "C")
  /\ UNCHANGED <<conns, active, device, knows, holding, cut, closing, told, edits, faults>>

\* handle_dialled_in and the first half of Adopter::adopt, up to its input
\* stream: the lease and the switch are asked here and not again.
MayAdopt(l) == "C" \in knows /\ Switched("C")

AdoptChecks(l) ==
  /\ link[l].by = "D" /\ link[l].c = "queued" /\ Open(l, "C")
  /\ IF MayAdopt(l)
     THEN link' = [link EXCEPT ![l].c = "checked"]
     ELSE Ends(l, "C")
  /\ device' = IF device["C"] = "none" THEN [device EXCEPT !["C"] = "on"] ELSE device
  /\ UNCHANGED <<conns, active, knows, holding, cut, closing, told, edits, faults>>

\* The second half, under the lock on the map: a link D dialled earlier is
\* replaced, one C dialled keeps its place.
OwnLinkUp == HasLink /\ link[conns[active]].by = "C"

Adopt(l) ==
  /\ link[l].by = "D" /\ link[l].c = "checked"
  /\ IF OwnLinkUp
     THEN /\ Ends(l, "C")
          /\ UNCHANGED <<conns, active>>
     ELSE /\ link' = [k \in Ids |->
                        IF k = l THEN Listing(link[k], "C", MayAdopt(l) /\ ~StrayAtC)
                        ELSE IF HasLink /\ k = conns[active]
                        THEN Shut(link[k], "C", "ended")
                        ELSE link[k]]
          /\ conns' = [a \in Addrs |-> IF a = l THEN l
                                       ELSE IF a = active THEN 0 ELSE conns[a]]
          /\ active' = l
  /\ UNCHANGED <<device, knows, holding, cut, closing, told, edits, faults>>

\* C greets on a link it took; D reads that first frame and asks once more
\* (Admitter::admit).
FirstFrame(l) ==
  /\ link[l].by = "D" /\ link[l].d = "waiting" /\ link[l].c = "up" /\ Open(l, "D")
  /\ IF "D" \in knows
     THEN link' = [link EXCEPT ![l].d = "checked"]
     ELSE Ends(l, "D")
  /\ UNCHANGED <<conns, active, device, knows, holding, cut, closing, told, edits, faults>>

\* FIRST_FRAME_TIMEOUT passes: NotTaken.
FirstFrameLate(l) ==
  /\ faults < MaxFaults
  /\ link[l].by = "D" /\ link[l].d = "waiting" /\ Open(l, "D")
  /\ faults' = faults + 1
  /\ Ends(l, "D")
  /\ UNCHANGED <<conns, active, device, knows, holding, cut, closing, told, edits>>

\* listen::admit, after its reply stream: the link is listed and read.
Admit(l) ==
  /\ link[l].d = "checked"
  /\ link' = [link EXCEPT ![l] = Listing(@, "D", "D" \in knows)]
  /\ UNCHANGED <<conns, active, device, knows, holding, cut, closing, told, edits, faults>>

-----------------------------------------------------------------------------
(***************************************************************************)
(* A link ends.                                                            *)
(***************************************************************************)

\* The close reaches the other end, or what is lost at one end times out there.
Arrives(l) ==
  /\ link[l].shut \notin {{}, Machines}
  /\ link' = Settled([link EXCEPT ![l].shut = Machines])
  /\ UNCHANGED <<conns, active, device, knows, holding, cut, closing, told, edits, faults>>

\* A link one end has taken is lost: one end finds out first.  Or the close of
\* one end is, and the other end times out, told nothing.
Lose(l, m) ==
  /\ faults < MaxFaults
  /\ link[l].c = "up" \/ link[l].d = "listed"
  /\ Open(l, m)
  /\ faults' = faults + 1
  /\ link' = Settled([link EXCEPT ![l] = [link[l] EXCEPT !.shut = @ \cup {m}, !.why = "ended"]])
  /\ UNCHANGED <<conns, active, device, knows, holding, cut, closing, told, edits>>

\* told_removed, read as the task at the end `m' ends: the other machine closed
\* the link because it removed this one.
ToldRemoved(l, m) ==
  told' = IF link[l].why \in Machines \ {m} THEN told \cup {m} ELSE told

\* disconnect, for the ended link `l' or for whatever is at the address.
Disconnected(l) ==
  LET a == Addr(l)
      newer == conns[a] \notin {0, l}
  IN /\ conns' = IF newer THEN conns ELSE [conns EXCEPT ![a] = 0]
     /\ active' = IF ~newer /\ active = a THEN NoAddr ELSE active

\* The receive loop of a link at C ends; told of a close only by D.
EndsAtC(l) ==
  /\ link[l].c = "up" /\ ~Open(l, "C")
  /\ Ends(l, "C")
  /\ Disconnected(l)
  /\ ToldRemoved(l, "C")
  /\ UNCHANGED <<device, knows, holding, cut, closing, edits, faults>>

\* read_loop at D ends: told_removed, remove_conn.
EndsAtD(l) ==
  /\ link[l].d = "listed" /\ ~Open(l, "D")
  /\ Ends(l, "D")
  /\ ToldRemoved(l, "D")
  /\ UNCHANGED <<conns, active, device, knows, holding, cut, closing, edits, faults>>

\* Mutant of GivesUp: a dialler waiting for its first frame misses the close.
GivesUpAtC(l) ==
  /\ link[l].c \in {"none", "dial", "queued"} /\ ~Open(l, "C")
  /\ Ends(l, "C")
  /\ UNCHANGED <<conns, active, device, knows, holding, cut, closing, told, edits, faults>>

\* A dial, or a handshake, whose link ended under it.
GivesUp(l) ==
  /\ \/ /\ link[l].c \in {"none", "dial", "queued"} /\ ~Open(l, "C")
        /\ Ends(l, "C")
     \/ /\ link[l].d \in {"none", "dial", "waiting"} /\ ~Open(l, "D")
        /\ Ends(l, "D")
  /\ UNCHANGED <<conns, active, device, knows, holding, cut, closing, told, edits, faults>>

\* The next event is for a machine this one may no longer drive: send closes
\* the link.
SendRefused(l) ==
  /\ HasLink /\ conns[active] = l /\ "C" \notin knows
  /\ link' = [link EXCEPT ![l] = Shut(@, "C", "ended")]
  /\ Disconnected(l)
  /\ UNCHANGED <<device, knows, holding, cut, closing, told, edits, faults>>

\* receive_loop, Pong: the link that answers is the one the device shows.
Pong(l) ==
  /\ Up(l) /\ Listed(l) /\ active # Addr(l)
  /\ active' = Addr(l)
  /\ UNCHANGED <<link, conns, device, knows, holding, cut, closing, told, edits, faults>>

-----------------------------------------------------------------------------
(***************************************************************************)
(* What people change, and the tasks that follow.                          *)
(***************************************************************************)

Edit == edits < MaxEdits /\ edits' = edits + 1

\* remove_authorized_key at `m'; the sessions are cut by a task of their own.
Remove(m) ==
  /\ Edit /\ m \in knows
  /\ knows' = knows \ {m}
  /\ cut' = cut \cup {m}
  /\ UNCHANGED <<link, conns, active, device, holding, closing, told, faults>>

\* forget_machine_that_removed_this_one: the device goes too.
HearRemoved(m) ==
  /\ m \in told
  /\ told' = told \ {m}
  /\ IF m \in knows
     THEN /\ knows' = knows \ {m}
          /\ cut' = cut \cup {m}
          /\ device' = [device EXCEPT ![m] = "none"]
     ELSE UNCHANGED <<knows, cut, device>>
  /\ UNCHANGED <<link, conns, active, holding, closing, edits, faults>>

\* OutboundRevoker::close_fingerprint and ::close_device: every link in the
\* map is closed, and leaves it.
InMap(l) == \E a \in Addrs : conns[a] = l

CloseOutbound ==
  /\ link' = [l \in Ids |-> IF InMap(l) THEN Shut(link[l], "C", Reason("C")) ELSE link[l]]
  /\ conns' = [a \in Addrs |-> 0]
  /\ active' = IF HasLink THEN NoAddr ELSE active

\* Mutant of CloseInbound: the links this machine dialled are not looked at.
CloseDialledIn ==
  /\ link' = Settled([l \in Ids |-> IF link[l].d = "listed" /\ link[l].by = "C"
                                    THEN Over(link[l], "D", Reason("D")) ELSE link[l]])
  /\ UNCHANGED <<conns, active>>

\* ConnRevoker::close_fingerprint.
CloseInbound ==
  /\ link' = Settled([l \in Ids |-> IF link[l].d = "listed"
                                    THEN Over(link[l], "D", Reason("D")) ELSE link[l]])
  /\ UNCHANGED <<conns, active>>

\* cut_sessions: its task.
CutSessions(m) ==
  /\ m \in cut
  /\ cut' = cut \ {m}
  /\ IF m = "C" THEN CloseOutbound ELSE CloseInbound
  /\ UNCHANGED <<device, knows, holding, closing, told, edits, faults>>

\* switch_off: at C the device's links are closed, by a task of their own; at
\* D its links in are not the device's.
SwitchOff(m) ==
  /\ Edit /\ Switched(m)
  /\ device' = [device EXCEPT ![m] = "off"]
  /\ closing' = (closing \/ m = "C")
  /\ UNCHANGED <<link, conns, active, knows, holding, cut, told, faults>>

CloseDevice ==
  /\ closing
  /\ closing' = FALSE
  /\ CloseOutbound
  /\ UNCHANGED <<device, knows, holding, cut, told, edits, faults>>

SwitchOn(m) ==
  /\ device[m] = "off"
  /\ device' = [device EXCEPT ![m] = "on"]
  /\ UNCHANGED <<link, conns, active, knows, holding, cut, closing, told, edits, faults>>

\* set_hostname: the device shows no address until a link answers again.
Rename ==
  /\ Edit /\ active # NoAddr
  /\ active' = NoAddr
  /\ link' = [l \in Ids |-> IF Up(l) THEN [link[l] EXCEPT !.stray = @ \cup {"C"}] ELSE link[l]]
  /\ UNCHANGED <<conns, device, knows, holding, cut, closing, told, faults>>

\* The two are paired again (Pairing.tla), by people: what a removal set off
\* is over by then.
Pair ==
  /\ knows # Machines /\ cut = {} /\ told = {}
  /\ \A l \in Ids : link[l] = Free \/ link[l].why \notin Machines
  /\ Edit
  /\ knows' = Machines
  /\ device' = [m \in Machines |-> "on"]
  /\ UNCHANGED <<link, conns, active, holding, cut, closing, told, faults>>

-----------------------------------------------------------------------------
Init ==
  /\ link = [l \in Ids |-> Free]
  /\ conns = [a \in Addrs |-> 0]
  /\ active = NoAddr
  /\ device = [m \in Machines |-> "on"] /\ knows = Machines
  /\ holding = FALSE /\ cut = {} /\ closing = FALSE /\ told = {}
  /\ edits = 0 /\ faults = 0

LinkStep(l) ==
  \/ Connect(l) \/ Land(l) \/ Accept(l)
  \/ Attempt(l) \/ DialledIn(l) \/ AdoptChecks(l) \/ Adopt(l) \/ FirstFrame(l) \/ Admit(l)
  \/ Arrives(l) \/ EndsAtC(l) \/ EndsAtD(l) \/ GivesUp(l) \/ Pong(l)

ServiceStep ==
  \/ Reconcile \/ CloseDevice
  \/ \E m \in Machines : CutSessions(m) \/ HearRemoved(m)

Next ==
  \/ ServiceStep
  \/ \E l \in Ids : LinkStep(l) \/ StartDial(l) \/ HoldDials(l) \/ FirstFrameLate(l) \/ SendRefused(l)
  \/ \E l \in Ids, m \in Machines : Lose(l, m)
  \/ \E m \in Machines : Remove(m) \/ SwitchOff(m) \/ SwitchOn(m)
  \/ Rename \/ Pair

Spec == Init /\ [][Next]_vars

(***************************************************************************)
(* Fairness: every task of the runtime goes on, a close arrives or the      *)
(* other end times out, and the task holding a link for C dials again after *)
(* its wait.  Nobody has to cross, and nothing has to be lost or changed.   *)
(***************************************************************************)
FairSpec ==
  /\ Spec
  /\ \A l \in Ids : WF_vars(LinkStep(l))
  /\ WF_vars(ServiceStep) /\ WF_vars(\E l \in Ids : HoldDials(l))

-----------------------------------------------------------------------------
(***************************************************************************)
(* Properties.                                                             *)
(***************************************************************************)

\* Nothing is being dialled, and no link has ended at one end alone.
Quiet ==
  \A l \in Ids : /\ link[l].shut \in {{}, Machines}
                 /\ link[l].c \in {"up", "over"} /\ link[l].d \in {"listed", "over"}

\* Each side keeps the same one of two links made at once: once nothing is
\* being made, what C sends on is what D reads, and it is one link.
EachSideKeepsTheSame ==
  Quiet /\ ~StrayAtC =>
    /\ \A l \in Ids : Up(l) <=> Listed(l)
    /\ \A k, l \in Ids : Listed(k) /\ Listed(l) => k = l

\* A pairing that is gone, and a device that is switched off (#218,
\* connect.rs:1435), leave no link once the task that closes them has run,
\* however many dials and adoptions were on their way: only a stray one, if any.
CutLeavesNoLink ==
  /\ "C" \notin knows \cup cut => \A l \in Ids : Up(l) => "C" \in link[l].stray
  /\ "D" \notin knows \cup cut => \A l \in Ids : Listed(l) => "D" \in link[l].stray
  /\ ~Switched("C") /\ ~closing /\ "C" \notin cut =>
       \A l \in Ids : Up(l) => "C" \in link[l].stray

Linked == \E l \in Ids : Up(l) /\ Listed(l) /\ active = Addr(l)

\* Two machines that stay paired and switched on end up linked whatever dials
\* crossed, were lost or were refused before: D dials until C takes a link.
LinkComesUp ==
  <>[](knows = Machines /\ \A m \in Machines : Switched(m)) => <>[]Linked

====
