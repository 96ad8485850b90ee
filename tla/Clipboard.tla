---- MODULE Clipboard ----
(***************************************************************************)
(* The shared clipboard of two linked machines: the task that polls the    *)
(* system's clipboard and writes to it (src/src/clipboard.rs), the         *)
(* broadcasts over links of either direction (connect.rs, listen.rs), the  *)
(* transfers, each on a stream of its own (transport.rs), and the last     *)
(* check before a text lands (ClipboardInbox).                             *)
(*                                                                         *)
(* A poll looks at a copy's marks and then reads its text: two steps,      *)
(* between which another app may copy.  The task's own write cannot come   *)
(* between them.  The count of copies is kept as whether it has moved      *)
(* since it was last read, and a text is what it is equal to.              *)
(***************************************************************************)
EXTENDS Naturals, Sequences, SequencesExt

CONSTANTS
  Machines,       \* the two machines
  Texts,          \* what apps copy
  Copies,         \* Machines -> the texts the apps of a machine copy
  Secrets,        \* texts whose app marks the copy as not to be shared
  Counted,        \* machines whose platform counts copies (not X11)
  Policies,       \* Machines -> the settings each may be given: see Settings
  NoText,         \* nothing, or nothing that is text
  QueuedPerLink,  \* QUEUED_PER_LINK
  MaxCopies,      \* bound on what apps copy
  MaxFaults       \* bound on reads, writes and transfers that fail

\* The lease shares this clipboard, takes the other's; the device is on.
Settings == {"to", "from", "on"}

ASSUME ClipboardAssumption ==
  /\ NoText \notin Texts /\ Secrets \subseteq Texts /\ Counted \subseteq Machines
  /\ Copies \in [Machines -> SUBSET Texts]
  /\ Policies \in [Machines -> SUBSET SUBSET Settings]
  /\ QueuedPerLink \in Nat \ {0} /\ MaxCopies \in Nat /\ MaxFaults \in Nat

VARIABLES
  board,      \* Machines -> the copy on the system's clipboard
  poll,       \* Machines -> "idle", or "clear": looked, found unmarked, not yet read
  counter,    \* Machines -> "same" or "moved" since the poll looked
  last,       \* Machines -> the text the clipboard is known to hold
  reading,    \* Machines -> whether the last poll read the clipboard
  settling,   \* Machines -> the text the last poll found, and whether the count moved since
  changed,    \* Machines -> changes the service has yet to broadcast
  wire,       \* Machines -> transfers on their way to it, "sent" or "open"
  inbox,      \* Machines -> texts waiting for the last check
  incoming,   \* Machines -> the text waiting for the task to write it
  policy,     \* Machines -> the settings in force
  copies, faults,
  \* history
  wronged,    \* Machines -> what was sent or written that should not have been: see Wrongs
  raced,      \* Machines -> copies, uncounted, that landed between a look and its read, up to 2
  due         \* Machines -> a text was handed over before it stopped taking them

taskVars == <<poll, last, reading, settling, changed>>
netVars == <<wire, inbox, incoming>>
bounds == <<copies, faults>>
clipVars == <<board, counter, taskVars, netVars, policy, bounds, wronged, raced, due>>

Other(m) == CHOOSE o \in Machines : o # m

\* A copy on the clipboard, what its app wants of it, and two marks of history:
\* a poll passed it by because nothing took the clipboard, and a read of it failed.
Copy(t, by) == [text |-> t, by |-> by, secret |-> FALSE, marked |-> FALSE,
                seen |-> FALSE, passed |-> FALSE, missed |-> FALSE]

Nothing == [text |-> NoText, moved |-> FALSE]

Wrongs == {"echo", "secret", "unshared", "landed"}

----------------------------------------------------------------------------
(* The clipboard task *)

\* clipboard_is_taken: the lease shares it and the device is switched on.
Wanted(m) == {"to", "on"} \subseteq policy[m]

\* ClipboardInbox's questions: the lease takes from it and the device is on.
Takes(m) == {"from", "on"} \subseteq policy[m]

Upto2(n) == IF n < 2 THEN n + 1 ELSE 2

Fault == faults < MaxFaults /\ faults' = faults + 1

\* What was wrong with sending the copy c: it came from the other machine, its
\* app meant it to stay, or nothing took the clipboard when a poll passed it.
WrongToSend(c) == {w \in Wrongs : \/ w = "echo" /\ c.by = "peer" /\ ~c.missed
                                  \/ w = "secret" /\ c.secret
                                  \/ w = "unshared" /\ c.passed /\ ~c.missed}

\* Mutant of Sends: where copies are not counted, no count is the same.
SendsCounted(m, text) ==
  settling[m].text = text /\ m \in Counted /\ ~settling[m].moved

\* The text was found by the poll before, at the same count of copies.
Sends(m, text) ==
  settling[m].text = text /\ (m \in Counted => ~settling[m].moved)

\* The first poll that reads remembers what is there and sends nothing.
Begins(m, copied, text) ==
  IF copied = "changing" THEN UNCHANGED <<reading, last>>
  ELSE /\ reading' = [reading EXCEPT ![m] = TRUE]
       /\ last' = [last EXCEPT ![m] = IF copied = "text" THEN text ELSE NoText]

\* What a poll does with what it found (the match in Clipboard::spawn).
Polled(m, copied) ==
  LET text == board[m].text
      settle(s) == settling' = [settling EXCEPT ![m] = s]
  IN
  \/ /\ ~reading[m]
     /\ Begins(m, copied, text)
     /\ UNCHANGED <<settling, changed, wronged>>
  \/ /\ reading[m] /\ copied = "text" /\ last[m] = text
     /\ settle(Nothing) /\ UNCHANGED <<last, reading, changed, wronged>>
  \/ /\ reading[m] /\ copied = "text" /\ last[m] # text /\ ~Sends(m, text)
     /\ settle([text |-> text, moved |-> FALSE])
     /\ UNCHANGED <<last, reading, changed, wronged>>
  \/ /\ reading[m] /\ copied = "text" /\ last[m] # text /\ Sends(m, text)
     /\ settle(Nothing)
     /\ last' = [last EXCEPT ![m] = text]
     /\ changed' = [changed EXCEPT ![m] = Append(@, text)]
     /\ wronged' = [wronged EXCEPT ![m] = @ \cup WrongToSend(board[m])]
     /\ UNCHANGED reading
  \/ /\ reading[m] /\ copied \in {"private", "nothing"}
     /\ settle(Nothing)
     /\ last' = [last EXCEPT ![m] = NoText]
     /\ UNCHANGED <<reading, changed, wronged>>
  \/ /\ reading[m] /\ copied = "changing"
     /\ settle(Nothing) /\ UNCHANGED <<last, reading, changed, wronged>>

\* A tick while nothing takes the clipboard.
PollUnwanted(m) ==
  /\ poll[m] = "idle" /\ ~Wanted(m)
  /\ reading' = [reading EXCEPT ![m] = FALSE]
  /\ settling' = [settling EXCEPT ![m] = Nothing]
  /\ board' = [board EXCEPT ![m].passed = board[m].text # NoText]
  /\ UNCHANGED <<poll, counter, last, changed, netVars, policy, bounds, wronged, raced, due>>

\* An app marks its copy before the second poll after it: the half second the
\* two-poll rule gives it.
MarkedInTime(m) == board[m].secret /\ ~board[m].marked => ~board[m].seen

\* A tick looks at the marks: marked, not marked, or (a fault) not to be told now.
PollLook(m) ==
  /\ poll[m] = "idle" /\ Wanted(m) /\ MarkedInTime(m)
  /\ \/ /\ board[m].marked
        /\ Polled(m, "private")
        /\ UNCHANGED <<poll, counter, board, faults>>
     \/ /\ Fault
        /\ Polled(m, "changing")
        /\ UNCHANGED <<poll, counter, board>>
     \/ /\ ~board[m].marked
        /\ poll' = [poll EXCEPT ![m] = "clear"]
        /\ board' = [board EXCEPT ![m].seen = board[m].secret]
        /\ UNCHANGED <<counter, last, reading, settling, changed, faults, wronged>>
  /\ UNCHANGED <<netVars, policy, copies, raced, due>>

\* The text is read; a copy that landed since the look was not looked at, and
\* where the platform counts copies that shows.
PollRead(m) ==
  /\ poll[m] = "clear"
  /\ poll' = [poll EXCEPT ![m] = "idle"]
  /\ counter' = [counter EXCEPT ![m] = "same"]
  /\ \/ /\ m \in Counted /\ counter[m] = "moved"
        /\ Polled(m, "changing")
        /\ board' = [board EXCEPT ![m].seen = board[m].secret] /\ UNCHANGED faults
     \/ /\ ~(m \in Counted /\ counter[m] = "moved")
        /\ Polled(m, IF board[m].text = NoText THEN "nothing" ELSE "text")
        /\ board' = [board EXCEPT ![m].seen = board[m].secret] /\ UNCHANGED faults
     \/ /\ ~(m \in Counted /\ counter[m] = "moved") /\ board[m].text # NoText
        /\ Fault
        /\ Polled(m, "nothing")
        /\ board' = [board EXCEPT ![m].missed = TRUE]
  /\ UNCHANGED <<netVars, policy, copies, raced, due>>

\* The clipboard holds c from here on, and its count has moved.
Lands(m, c) ==
  /\ board' = [board EXCEPT ![m] = c]
  /\ counter' = [counter EXCEPT ![m] = IF poll[m] = "clear" THEN "moved" ELSE "same"]
  /\ settling' = [settling EXCEPT ![m].moved = settling[m].text # NoText]

\* Mutant of Write: the text is not remembered as written here.
WriteForgets(m) ==
  /\ incoming[m] # NoText /\ poll[m] = "idle"
  /\ Lands(m, Copy(incoming[m], "peer"))
  /\ incoming' = [incoming EXCEPT ![m] = NoText]
  /\ UNCHANGED <<poll, last, reading, changed, wire, inbox, policy, bounds, wronged, raced, due>>

\* The task writes the text handed to it.  It is remembered only if the write
\* succeeds.
Write(m) ==
  /\ incoming[m] # NoText /\ poll[m] = "idle"
  /\ \/ /\ Lands(m, Copy(incoming[m], "peer"))
        /\ last' = [last EXCEPT ![m] = incoming[m]]
        /\ wronged' = IF Takes(m) \/ due[m] THEN wronged
                      ELSE [wronged EXCEPT ![m] = @ \cup {"landed"}]
        /\ UNCHANGED faults
     \/ /\ Fault
        /\ UNCHANGED <<board, counter, last, settling, wronged>>
  /\ due' = [due EXCEPT ![m] = FALSE]
  /\ incoming' = [incoming EXCEPT ![m] = NoText]
  /\ UNCHANGED <<poll, reading, changed, wire, inbox, policy, copies, raced>>

----------------------------------------------------------------------------
(* Between the machines *)

\* Service::handle_clipboard_change and both broadcasts: to a machine whose
\* lease shares it and that is switched on, each text on a stream of its own.
Broadcast(m) ==
  /\ changed[m] # <<>>
  /\ changed' = [changed EXCEPT ![m] = Tail(@)]
  /\ wire' = IF Wanted(m)
             THEN [wire EXCEPT ![Other(m)] = Append(@, [text |-> Head(changed[m]), at |-> "sent"])]
             ELSE wire
  /\ UNCHANGED <<board, counter, poll, last, reading, settling, inbox, incoming, policy,
                 bounds, wronged, raced, due>>

Room(m) == "from" \in policy[m] /\ Len(inbox[m]) < QueuedPerLink

\* clipboard_accept_loop: a stream is stopped before it is read, or read beside
\* the others.
Accept(m, i) ==
  /\ wire[m][i].at = "sent"
  /\ wire' = [wire EXCEPT ![m] = IF Room(m) THEN [@ EXCEPT ![i].at = "open"]
                                ELSE RemoveAt(@, i)]
  /\ UNCHANGED <<board, counter, taskVars, inbox, incoming, policy, bounds, wronged, raced, due>>

\* A transfer read to its end, in whatever order the streams end: the lease and
\* the room are asked again.
Complete(m, i) ==
  /\ wire[m][i].at = "open"
  /\ wire' = [wire EXCEPT ![m] = RemoveAt(@, i)]
  /\ inbox' = IF Room(m) THEN [inbox EXCEPT ![m] = Append(@, wire[m][i].text)] ELSE inbox
  /\ UNCHANGED <<board, counter, taskVars, incoming, policy, bounds, wronged, raced, due>>

\* A transfer that is cut off, times out or is lost with its link.
Lose(m, i) ==
  /\ Fault
  /\ wire' = [wire EXCEPT ![m] = RemoveAt(@, i)]
  /\ UNCHANGED <<board, counter, taskVars, inbox, incoming, policy, copies, wronged, raced, due>>

\* Mutant of Take: a text queued is a text applied.
TakeUnasked(m) ==
  /\ inbox[m] # <<>>
  /\ inbox' = [inbox EXCEPT ![m] = Tail(@)]
  /\ incoming' = [incoming EXCEPT ![m] = Head(inbox[m])]
  /\ UNCHANGED <<board, counter, taskVars, wire, policy, bounds, wronged, raced, due>>

\* ClipboardInbox::next and Clipboard::apply: the last check; the latest wins.
Take(m) ==
  /\ inbox[m] # <<>>
  /\ inbox' = [inbox EXCEPT ![m] = Tail(@)]
  /\ incoming' = IF Takes(m) THEN [incoming EXCEPT ![m] = Head(inbox[m])] ELSE incoming
  /\ UNCHANGED <<board, counter, taskVars, wire, policy, bounds, wronged, raced, due>>

----------------------------------------------------------------------------
(* Apps and people *)

\* An app copies.  On X11 a mark is offered with the copy itself; elsewhere it
\* may come after the text.
AppCopies(m, t) ==
  /\ copies < MaxCopies /\ copies' = copies + 1
  /\ \E marked \in IF t \notin Secrets THEN {FALSE}
                    ELSE IF m \in Counted THEN BOOLEAN ELSE {TRUE} :
       Lands(m, [Copy(t, "app") EXCEPT !.secret = t \in Secrets, !.marked = marked])
  /\ raced' = IF poll[m] = "clear" /\ m \notin Counted THEN [raced EXCEPT ![m] = Upto2(@)] ELSE raced
  /\ UNCHANGED <<poll, last, reading, changed, netVars, policy, faults, wronged, due>>

\* The mark added to a copy already there: the count does not move.
AppMarks(m) ==
  /\ board[m].secret /\ ~board[m].marked
  /\ board' = [board EXCEPT ![m].marked = TRUE]
  /\ UNCHANGED <<counter, taskVars, netVars, policy, bounds, wronged, raced, due>>

\* A lease or a switch changed by a person here.
SetPolicy(m, p) ==
  /\ p # policy[m]
  /\ policy' = [policy EXCEPT ![m] = p]
  /\ due' = IF Takes(m) THEN [due EXCEPT ![m] = incoming[m] # NoText] ELSE due
  /\ UNCHANGED <<board, counter, taskVars, netVars, bounds, wronged, raced>>

----------------------------------------------------------------------------

ClipInit ==
  /\ board = [m \in Machines |-> Copy(NoText, "app")]
  /\ poll = [m \in Machines |-> "idle"] /\ counter = [m \in Machines |-> "same"]
  /\ last = [m \in Machines |-> NoText] /\ reading = [m \in Machines |-> FALSE]
  /\ settling = [m \in Machines |-> Nothing]
  /\ changed = [m \in Machines |-> <<>>] /\ wire = [m \in Machines |-> <<>>]
  /\ inbox = [m \in Machines |-> <<>>] /\ incoming = [m \in Machines |-> NoText]
  /\ policy \in {p \in [Machines -> SUBSET Settings] : \A m \in Machines : p[m] \in Policies[m]}
  /\ copies = 0 /\ faults = 0
  /\ wronged = [m \in Machines |-> {}] /\ raced = [m \in Machines |-> 0]
  /\ due = [m \in Machines |-> FALSE]

Poll(m) == PollUnwanted(m) \/ PollLook(m) \/ PollRead(m)

ClipNext ==
  \E m \in Machines :
    \/ Poll(m) \/ Write(m) \/ Broadcast(m) \/ Take(m) \/ AppMarks(m)
    \/ \E i \in 1..Len(wire[m]) : Accept(m, i) \/ Complete(m, i) \/ Lose(m, i)
    \/ \E t \in Copies[m] \cup {NoText} : AppCopies(m, t)
    \/ \E p \in Policies[m] : SetPolicy(m, p)

\* The interval ticks for as long as the task runs, a read that began ends, and
\* an app finishes its copy.
ClipSpec ==
  /\ ClipInit /\ [][ClipNext]_clipVars
  /\ \A m \in Machines : WF_clipVars(Poll(m)) /\ WF_clipVars(AppMarks(m))

----------------------------------------------------------------------------
(* Correctness *)

\* A machine sends only ordinary copies of its own apps, made while its clipboard
\* was shared, however polls, writes and copies interleave:
\*  - not a text that came from the other machine, and not a copy that was there
\*    when nothing took the clipboard, unless a read of it failed, which the
\*    task takes for an empty clipboard (Clipboard::spawn's baseline);
\*  - not a copy its app marks, though the mark comes after the text and the copy
\*    may land between the look at the marks and the read.  Where copies are not
\*    counted it takes two that land so (read, the two-poll rule).
SendsOnlyItsOwn ==
  \A m \in Machines :
    /\ wronged[m] \cap {"echo", "unshared"} = {}
    /\ "secret" \in wronged[m] => m \notin Counted /\ raced[m] = 2

\* Once a machine stops taking the other's clipboard, by its lease or by its
\* switch, no text still on its way lands, but the one already handed to the
\* task (ClipboardInbox, clipboard_accept_loop).
NothingLandsUntaken == \A m \in Machines : "landed" \notin wronged[m]

\* An app's ordinary copy that a task reading the clipboard does not know of.
Unnoticed(m) ==
  /\ Wanted(m) /\ reading[m]
  /\ board[m].by = "app" /\ ~board[m].secret
  /\ board[m].text \notin {NoText, last[m]}

\* A copy that stays on a clipboard being read becomes known, which is to say
\* sent or equal to what was sent or written last, whatever comes in, fails or
\* is copied meanwhile: settling over two polls never starves it.
CopyIsNoticed == \A m \in Machines : []<>~Unnoticed(m)
====
