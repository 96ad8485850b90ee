---- MODULE ServiceArmsProofs ----
(***************************************************************************)
(* Proofs about three arms of the service's loop that share no state: the  *)
(* permission watch never takes for a grant what was none; the clipboard   *)
(* neither lands a text untaken nor sends what is not its own; and the     *)
(* prompt gate, for every set of machines and addresses, every window and  *)
(* every limit of its tables, keeps a prompt approvable exactly while its  *)
(* window lasts, and gives no approval on one that lapsed.                 *)
(***************************************************************************)
EXTENDS Clipboard, PermissionWatch, PromptGate, SequenceTheorems, FiniteSetTheorems, TLAPS

----------------------------------------------------------------------------
(* Permissions that stay gone *)

\* The permission p will not be seen granted while nothing is granted: the
\* system refuses it, and a preflight check has not kept a yes for it.
Gone(p) ==
  /\ p \in {"accessibility", "post"} => "accessibility" \notin granted
  /\ p # "accessibility" => p \notin granted /\ (sticky => first[p] # "yes")

WatchTypes ==
  /\ waiting \in [Sides -> {"no", "unchecked", "missing"}]
  /\ DOMAIN running \subseteq Sides
  /\ first \in [Permissions -> {"unasked", "yes", "no"}]
  /\ pending.at \in {"none", "asked", "answered"}
  /\ pending.at # "none" => pending.needed \subseteq Permissions

\* A no kept from a first answer is still the system's.
FirstsHold == \A p \in Permissions : first[p] = "no" => p \notin granted

\* A side found missing something misses something that is gone.
MissingIsGone == \A s \in Sides : waiting[s] = "missing" => \E p \in Needs[s] : Gone(p)

\* What a check was refused is gone, and it completes no side.
AnswersHold ==
  pending.at = "answered" =>
    /\ \A p \in pending.needed \ pending.yes : Gone(p)
    /\ \A s \in Sides : waiting[s] = "missing" => ~(Needs[s] \subseteq pending.yes)

WatchInv ==
  /\ WatchTypes /\ ~uncalled
  /\ ~news => FirstsHold /\ MissingIsGone /\ AnswersHold

LEMMA NeedsArePermissions ==
  \A s \in Sides : Needs[s] \subseteq Permissions /\ WatchedWhileRunning[s] \subseteq Needs[s]
BY DEF Sides, Needs, Permissions, WatchedWhileRunning

\* What the system does not grant is gone, unless a no was kept from before a grant.
LEMMA RefusedIsGone ==
  ASSUME WatchTypes, FirstsHold, NEW p \in Permissions, ~Granted(p)
  PROVE  Gone(p)
<1>1. ASSUME NEW q \in Permissions, ~Preflight(q)
      PROVE  q \notin granted /\ (sticky => first[q] # "yes")
  BY <1>1 DEF Preflight, WatchTypes, FirstsHold
<1>2. "accessibility" \in Permissions
  BY DEF Permissions
<1>3. ~Probed => "accessibility" \notin granted
  BY <1>1, <1>2 DEF Probed
<1>4. CASE p = "accessibility"
  BY <1>3, <1>4 DEF Granted, Gone
<1>5. CASE p = "listen"
  BY <1>1, <1>5 DEF Granted, Gone
<1>6. CASE p = "post"
  BY <1>1, <1>3, <1>6 DEF Granted, Gone
<1> QED BY <1>4, <1>5, <1>6 DEF Permissions

LEMMA GoneIsRefused ==
  ASSUME NEW p \in Permissions, Gone(p)
  PROVE  ~Granted(p)
<1>1. ASSUME p # "accessibility"
      PROVE  ~Preflight(p)
  BY <1>1 DEF Gone, Preflight
<1>2. p # "listen" => ~Probed
  BY DEF Gone, Permissions, Probed
<1>3. CASE p = "accessibility"
  BY <1>2, <1>3 DEF Granted
<1>4. CASE p = "listen"
  BY <1>1, <1>4 DEF Granted
<1>5. CASE p = "post"
  BY <1>1, <1>2, <1>5 DEF Granted
<1> QED BY <1>3, <1>4, <1>5 DEF Permissions

\* Nothing is granted in the step, and first answers are kept.
NothingGranted ==
  /\ granted' \subseteq granted /\ sticky' = sticky
  /\ first' \in [Permissions -> {"unasked", "yes", "no"}]
  /\ \A p \in Permissions : \/ first'[p] = first[p]
                            \/ first'[p] = "yes" /\ p \in granted
                            \/ first'[p] = "no" /\ p \notin granted

LEMMA GoneStays ==
  ASSUME NothingGranted
  PROVE  /\ \A p \in Permissions : Gone(p) => Gone(p)'
         /\ FirstsHold => FirstsHold'
BY DEF NothingGranted, Gone, FirstsHold

LEMMA AskGrantsNothing ==
  ASSUME WatchTypes, NEW needed, Ask(needed), UNCHANGED <<granted, sticky>>
  PROVE  NothingGranted
BY DEF Ask, NothingGranted, WatchTypes

\* A step that grants nothing, answers no check and finds nothing missing.
LEMMA UneventfulStep ==
  ASSUME WatchInv, NothingGranted, news' <=> news, uncalled' = uncalled,
         DOMAIN running' \subseteq Sides,
         waiting' \in [Sides -> {"no", "unchecked", "missing"}],
         \A s \in Sides : waiting'[s] = "missing" => waiting[s] = "missing",
         \/ pending' = pending
         \/ pending'.at = "none"
         \/ pending'.at = "asked" /\ pending'.needed \subseteq Permissions
  PROVE  WatchInv'
<1>1. WatchTypes'
  BY DEF WatchInv, WatchTypes, NothingGranted
<1>2. ASSUME ~news
      PROVE  FirstsHold' /\ MissingIsGone' /\ AnswersHold'
  <2>1. FirstsHold /\ MissingIsGone /\ AnswersHold
    BY <1>2 DEF WatchInv
  <2>2. FirstsHold'
    BY <2>1, GoneStays
  <2>3. MissingIsGone'
    BY <2>1, GoneStays, NeedsArePermissions DEF MissingIsGone
  <2>4. CASE pending' = pending
    <3>1. pending.at = "answered" => pending.needed \subseteq Permissions
      BY DEF WatchInv, WatchTypes
    <3>2. AnswersHold'
      BY <2>1, <2>4, <3>1, GoneStays DEF AnswersHold
    <3> QED BY <2>2, <2>3, <3>2
  <2>5. CASE pending'.at # "answered"
    BY <2>2, <2>3, <2>5 DEF AnswersHold
  <2> QED BY <2>4, <2>5
<1> QED BY <1>1, <1>2 DEF WatchInv

LEMMA AnswersStep ==
  ASSUME WatchInv, CheckAnswers
  PROVE  WatchInv'
<1>1. /\ pending.at = "asked" /\ Ask(pending.needed)
      /\ UNCHANGED <<granted, sticky, waiting, running, uncalled>>
  BY DEF CheckAnswers
<1>2. NothingGranted
  BY <1>1, AskGrantsNothing DEF WatchInv
<1>3. PICK wrong \in BOOLEAN :
         /\ news' = (news \/ wrong)
         /\ pending' = [at |-> "answered", needed |-> pending.needed, armed |-> pending.armed,
                        yes |-> {p \in pending.needed : Granted(p) /\ ~(wrong /\ p = "accessibility")}]
  BY DEF CheckAnswers
<1>4. pending.needed \subseteq Permissions
  BY <1>1 DEF WatchInv, WatchTypes
<1>5. WatchTypes'
  BY <1>1, <1>2, <1>3, <1>4 DEF WatchInv, WatchTypes, NothingGranted
<1>6. ASSUME ~news'
      PROVE  FirstsHold' /\ MissingIsGone' /\ AnswersHold'
  <2>1. /\ ~news /\ pending'.needed = pending.needed
        /\ pending'.yes = {p \in pending.needed : Granted(p)}
    BY <1>3, <1>6
  <2>2. FirstsHold /\ MissingIsGone
    BY <2>1 DEF WatchInv
  <2>3. FirstsHold' /\ MissingIsGone'
    BY <1>1, <1>2, <2>2, GoneStays, NeedsArePermissions DEF MissingIsGone
  <2>4. \A p \in pending'.needed \ pending'.yes : Gone(p)'
    BY <1>2, <1>4, <2>1, <2>2, RefusedIsGone, GoneStays DEF WatchInv
  <2>5. ASSUME NEW s \in Sides, waiting'[s] = "missing"
        PROVE  ~(Needs[s] \subseteq pending'.yes)
    <3>1. PICK p \in Needs[s] : Gone(p)
      BY <1>1, <2>2, <2>5 DEF MissingIsGone
    <3>2. ~Granted(p)
      BY <3>1, GoneIsRefused, NeedsArePermissions
    <3> QED BY <2>1, <3>1, <3>2
  <2> QED BY <2>3, <2>4, <2>5 DEF AnswersHold
<1> QED BY <1>1, <1>5, <1>6 DEF WatchInv

LEMMA EndsStep ==
  ASSUME WatchInv, CheckEnds
  PROVE  WatchInv'
<1>1. /\ pending.at = "answered" /\ pending' = NoCheck
      /\ running' = [s \in DOMAIN running \ Revoked |-> IF Refused(s) THEN running[s] + 1 ELSE 0]
      /\ waiting' = [s \in Sides |-> IF s \in Revoked THEN "missing" ELSE Settled(s)]
      /\ uncalled' = (uncalled \/ (Completed # {} /\ ~news))
      /\ UNCHANGED <<granted, sticky, first, news>>
  BY DEF CheckEnds
<1>2. ASSUME ~news
      PROVE  Completed = {}
  BY <1>1, <1>2 DEF WatchInv, AnswersHold, Completed
<1>3. ~uncalled'
  BY <1>1, <1>2 DEF WatchInv
<1>4. pending'.at = "none" /\ DOMAIN running' \subseteq Sides
  BY <1>1 DEF NoCheck, WatchInv, WatchTypes
<1>5. waiting' \in [Sides -> {"no", "unchecked", "missing"}]
  BY <1>1 DEF Settled, WatchInv, WatchTypes
<1>6. WatchTypes'
  BY <1>1, <1>4, <1>5 DEF WatchTypes, WatchInv
<1>7. ASSUME ~news
      PROVE  FirstsHold' /\ MissingIsGone' /\ AnswersHold'
  <2>1. FirstsHold /\ MissingIsGone /\ AnswersHold
    BY <1>7 DEF WatchInv
  <2>2. FirstsHold' /\ AnswersHold'
    BY <1>1, <1>4, <2>1 DEF FirstsHold, AnswersHold
  <2>3. \A p : Gone(p) => Gone(p)'
    BY <1>1 DEF Gone
  <2>4. ASSUME NEW s \in Sides, waiting'[s] = "missing"
        PROVE  \E p \in Needs[s] : Gone(p)
    <3>1. CASE s \in Revoked
      <4>1. (WatchedWhileRunning[s] \cap pending.needed) \ pending.yes # {}
        BY <3>1 DEF Revoked, Refused
      <4> QED BY <1>1, <2>1, <4>1, NeedsArePermissions DEF AnswersHold
    <3>2. CASE s \notin Revoked
      <4>1. Settled(s) = "missing"
        BY <1>1, <2>4, <3>2
      <4>2. CASE waiting[s] = "missing"
        BY <2>1, <4>2 DEF MissingIsGone
      <4>3. CASE waiting[s] # "missing"
        <5>1. Needs[s] \subseteq pending.needed /\ ~(Needs[s] \subseteq pending.yes)
          BY <4>1, <4>3 DEF Settled
        <5> QED BY <1>1, <2>1, <5>1 DEF AnswersHold
      <4> QED BY <4>2, <4>3
    <3> QED BY <3>1, <3>2
  <2>5. MissingIsGone'
    BY <2>3, <2>4 DEF MissingIsGone
  <2> QED BY <2>2, <2>5
<1> QED BY <1>1, <1>3, <1>6, <1>7 DEF WatchInv

LEMMA WatchStep ==
  ASSUME WatchInv, [PermissionNext]_permissionVars
  PROVE  WatchInv'
<1>0. /\ waiting \in [Sides -> {"no", "unchecked", "missing"}] /\ DOMAIN running \subseteq Sides
      /\ first \in [Permissions -> {"unasked", "yes", "no"}] /\ WatchTypes
  BY DEF WatchInv, WatchTypes
<1>1. CASE CheckBegin
  <2> DEFINE waited == UNION {Needs[s] : s \in {t \in Sides : waiting[t] # "no"}}
             watched == UNION {WatchedWhileRunning[s] : s \in DOMAIN running}
             armed == {s \in Sides : waiting[s] = "missing"}
  <2>0. pending' = [at |-> "asked", needed |-> waited \cup watched, armed |-> armed]
    BY <1>1, Zenon DEF CheckBegin
  <2>1. UNCHANGED <<granted, sticky, first, waiting, running, news, uncalled>>
    BY <1>1 DEF CheckBegin, history
  <2>2. waited \subseteq Permissions /\ watched \subseteq Permissions
    <3>1. \A s \in {t \in Sides : waiting[t] # "no"} : Needs[s] \subseteq Permissions
      BY NeedsArePermissions
    <3>2. \A s \in DOMAIN running : WatchedWhileRunning[s] \subseteq Permissions
      BY <1>0, NeedsArePermissions
    <3>3. waited \subseteq Permissions
      BY <3>1
    <3>4. watched \subseteq Permissions
      BY <3>2
    <3> HIDE DEF waited, watched, armed
    <3> QED BY <3>3, <3>4
  <2> HIDE DEF waited, watched, armed
  <2>3. NothingGranted
    BY <1>0, <2>1 DEF NothingGranted
  <2> QED BY <1>0, <2>0, <2>1, <2>2, <2>3, UneventfulStep
<1>2. CASE CheckAnswers \/ CheckEnds
  BY <1>2, AnswersStep, EndsStep
<1>3. ASSUME \/ HandFound \/ CaptureLoses
             \/ \E s \in Sides : SideHears(s) \/ SideEnds(s) \/ EnableInput(s)
             \/ UNCHANGED permissionVars
      PROVE  WatchInv'
  <2>1. UNCHANGED <<granted, sticky, first, waiting, running, pending, news, uncalled>>
    BY <1>3 DEF HandFound, CaptureLoses, SideHears, SideEnds, EnableInput, permissionVars,
                history, watchVars
  <2>2. NothingGranted
    BY <1>0, <2>1 DEF NothingGranted
  <2> QED BY <1>0, <2>1, <2>2, UneventfulStep
<1>4. ASSUME NEW s \in Sides, SideStarts(s)
      PROVE  WatchInv'
  <2>1. UNCHANGED <<granted, sticky, waiting, running, pending, news, uncalled>> /\ Ask(Needs[s])
    BY <1>4 DEF SideStarts, history, watchVars
  <2>2. NothingGranted
    BY <1>0, <2>1, AskGrantsNothing
  <2> QED BY <1>0, <2>1, <2>2, UneventfulStep
<1>5. ASSUME NEW s \in Sides, ServiceHears(s)
      PROVE  WatchInv'
  <2>1. UNCHANGED <<granted, sticky, first, news, uncalled>> /\ (WatchStarted(s) \/ WatchStopped(s))
    BY <1>5 DEF ServiceHears, history
  <2>2. NothingGranted
    BY <1>0, <2>1 DEF NothingGranted
  <2>3. pending' = pending \/ pending'.at = "none"
    BY <2>1 DEF WatchStarted, WatchStopped, NoCheck
  <2>4. DOMAIN running' \subseteq Sides
    BY <1>0, <2>1 DEF WatchStarted, WatchStopped
  <2>5. /\ waiting' \in [Sides -> {"no", "unchecked", "missing"}]
        /\ \A t \in Sides : waiting'[t] = "missing" => waiting[t] = "missing"
    BY <1>0, <2>1 DEF WatchStarted, WatchStopped
  <2> QED BY <2>1, <2>2, <2>3, <2>4, <2>5, UneventfulStep
<1>6. ASSUME NEW p \in Permissions, Toggle(p)
      PROVE  WatchInv'
  <2>1. /\ news' = (news \/ p \notin granted) /\ (p \in granted => granted' \subseteq granted)
        /\ UNCHANGED <<sticky, first, waiting, running, pending, uncalled>>
    BY <1>6 DEF Toggle, watchVars
  <2>2. CASE p \in granted /\ ~news
    <3>1. ~news' /\ ~news
      BY <2>1, <2>2
    <3>2. NothingGranted
      BY <1>0, <2>1, <2>2 DEF NothingGranted
    <3> QED BY <1>0, <2>1, <3>1, <3>2, UneventfulStep
  <2>3. CASE p \notin granted \/ news
    BY <2>1, <2>3 DEF WatchInv, WatchTypes
  <2> QED BY <2>2, <2>3
<1>7. CASE LaunchdStarts
  <2>1. /\ first' = [p \in Permissions |-> "unasked"] /\ pending' = NoCheck
        /\ waiting' = [s \in Sides |-> "unchecked"] /\ running' = [s \in {} |-> 0]
        /\ UNCHANGED uncalled
    BY <1>7 DEF LaunchdStarts, Fresh
  <2>2. WatchTypes'
    BY <2>1 DEF WatchTypes, NoCheck
  <2>3. FirstsHold' /\ MissingIsGone' /\ AnswersHold'
    BY <2>1 DEF FirstsHold, MissingIsGone, AnswersHold, NoCheck
  <2> QED BY <2>1, <2>2, <2>3 DEF WatchInv
<1> QED BY <1>1, <1>2, <1>3, <1>4, <1>5, <1>6, <1>7, Zenon DEF PermissionNext, Check, Side

LEMMA WatchInit ==
  ASSUME PermissionInit
  PROVE  WatchInv
<1>1. /\ first = [p \in Permissions |-> "unasked"] /\ pending = NoCheck
      /\ waiting = [s \in Sides |-> "unchecked"] /\ running = [s \in {} |-> 0]
      /\ uncalled = FALSE
  BY DEF PermissionInit
<1>2. WatchTypes
  BY <1>1 DEF WatchTypes, NoCheck
<1>3. FirstsHold /\ MissingIsGone /\ AnswersHold
  BY <1>1 DEF FirstsHold, MissingIsGone, AnswersHold, NoCheck
<1> QED BY <1>1, <1>2, <1>3 DEF WatchInv

\* Whatever the checks, the sides, the switches and the failures of a process do,
\* and however many: a grant is found only in a process in which something was
\* granted, or a probe refused in error (PermissionWatch::settle).
THEOREM GrantsAreReal == PermissionSpec => []NoExitLoop
<1>1. PermissionInit => WatchInv
  BY WatchInit
<1>2. WatchInv /\ [PermissionNext]_permissionVars => WatchInv'
  BY WatchStep
<1>3. WatchInv => NoExitLoop
  BY DEF WatchInv, NoExitLoop
<1> QED BY <1>1, <1>2, <1>3, PTL DEF PermissionSpec

----------------------------------------------------------------------------
(* The clipboard's types *)

Text == Texts \cup {NoText}

CopyOnBoard ==
  [text : Text, by : {"app", "peer"}, secret : BOOLEAN, marked : BOOLEAN,
   seen : BOOLEAN, passed : BOOLEAN, missed : BOOLEAN]

TaskTypes ==
  /\ board \in [Machines -> CopyOnBoard]
  /\ poll \in [Machines -> {"idle", "clear"}] /\ counter \in [Machines -> {"same", "moved"}]
  /\ last \in [Machines -> Text] /\ reading \in [Machines -> BOOLEAN]
  /\ settling \in [Machines -> [text : Text, moved : BOOLEAN]]
  /\ changed \in [Machines -> Seq(Texts)]
  /\ wronged \in [Machines -> SUBSET Wrongs] /\ raced \in [Machines -> 0..2]

\* What a poll leaves of another machine.
LEMMA PolledTypes ==
  ASSUME TaskTypes, NEW n \in Machines, NEW copied, Polled(n, copied),
         copied = "text" => board[n].text # NoText
  PROVE  /\ last' \in [Machines -> Text] /\ reading' \in [Machines -> BOOLEAN]
         /\ settling' \in [Machines -> [text : Text, moved : BOOLEAN]]
         /\ changed' \in [Machines -> Seq(Texts)]
         /\ wronged' \in [Machines -> SUBSET Wrongs]
         /\ \A m \in Machines : m # n =>
              /\ last'[m] = last[m] /\ reading'[m] = reading[m] /\ settling'[m] = settling[m]
              /\ changed'[m] = changed[m] /\ wronged'[m] = wronged[m]
<1> DEFINE text == board[n].text
<1>0. /\ last \in [Machines -> Text] /\ reading \in [Machines -> BOOLEAN]
      /\ settling \in [Machines -> [text : Text, moved : BOOLEAN]]
      /\ changed \in [Machines -> Seq(Texts)]
      /\ wronged \in [Machines -> SUBSET Wrongs]
      /\ text \in Text
  BY DEF TaskTypes, CopyOnBoard
<1>1. NoText \in Text /\ Nothing \in [text : Text, moved : BOOLEAN]
      /\ [text |-> text, moved |-> FALSE] \in [text : Text, moved : BOOLEAN]
  BY <1>0 DEF Text, Nothing
<1>2. CASE ~reading[n] /\ Begins(n, copied, text) /\ UNCHANGED <<settling, changed, wronged>>
  BY <1>0, <1>1, <1>2 DEF Begins
<1>3. CASE settling' = [settling EXCEPT ![n] = Nothing] /\ UNCHANGED <<last, reading, changed, wronged>>
  BY <1>0, <1>1, <1>3
<1>4. CASE /\ settling' = [settling EXCEPT ![n] = [text |-> text, moved |-> FALSE]]
           /\ UNCHANGED <<last, reading, changed, wronged>>
  BY <1>0, <1>1, <1>4
<1>5. CASE /\ copied = "text"
           /\ settling' = [settling EXCEPT ![n] = Nothing]
           /\ last' = [last EXCEPT ![n] = text]
           /\ changed' = [changed EXCEPT ![n] = Append(@, text)]
           /\ wronged' = [wronged EXCEPT ![n] = @ \cup WrongToSend(board[n])]
           /\ UNCHANGED reading
  <2>1. text \in Texts
    BY <1>0, <1>5 DEF Text
  <2>2. Append(changed[n], text) \in Seq(Texts)
    BY <1>0, <2>1
  <2>3. wronged[n] \cup WrongToSend(board[n]) \in SUBSET Wrongs
    BY <1>0 DEF WrongToSend
  <2> HIDE DEF text
  <2>4. changed' = [changed EXCEPT ![n] = Append(changed[n], text)]
    BY <1>5
  <2>5. changed' \in [Machines -> Seq(Texts)] /\ \A m \in Machines : m # n => changed'[m] = changed[m]
    BY <1>0, <2>2, <2>4
  <2>6. wronged' \in [Machines -> SUBSET Wrongs] /\ \A m \in Machines : m # n => wronged'[m] = wronged[m]
    BY <1>0, <1>5, <2>3
  <2>7. last' \in [Machines -> Text] /\ \A m \in Machines : m # n => last'[m] = last[m]
    BY <1>0, <1>5
  <2>8. settling' \in [Machines -> [text : Text, moved : BOOLEAN]]
        /\ \A m \in Machines : m # n => settling'[m] = settling[m]
    BY <1>0, <1>1, <1>5
  <2> QED BY <1>0, <1>5, <2>5, <2>6, <2>7, <2>8
<1>6. CASE /\ settling' = [settling EXCEPT ![n] = Nothing]
           /\ last' = [last EXCEPT ![n] = NoText]
           /\ UNCHANGED <<reading, changed, wronged>>
  BY <1>0, <1>1, <1>6
<1> QED BY <1>2, <1>3, <1>4, <1>5, <1>6 DEF Polled

\* The machine m's clipboard and task are left alone.
LocalSame(m) ==
  /\ board'[m] = board[m] /\ poll'[m] = poll[m] /\ counter'[m] = counter[m]
  /\ last'[m] = last[m] /\ reading'[m] = reading[m] /\ settling'[m] = settling[m]
  /\ wronged'[m] = wronged[m] /\ raced'[m] = raced[m]

OthersSame(n) == \A m \in Machines : m # n => LocalSame(m) /\ changed'[m] = changed[m]

LEMMA LandsTypes ==
  ASSUME TaskTypes, NEW n \in Machines, NEW c \in CopyOnBoard, Lands(n, c)
  PROVE  /\ board' \in [Machines -> CopyOnBoard] /\ counter' \in [Machines -> {"same", "moved"}]
         /\ settling' \in [Machines -> [text : Text, moved : BOOLEAN]]
         /\ \A m \in Machines : m # n =>
              board'[m] = board[m] /\ counter'[m] = counter[m] /\ settling'[m] = settling[m]
         /\ board'[n] = c
         /\ counter'[n] = IF poll[n] = "clear" THEN "moved" ELSE "same"
         /\ settling'[n].text = settling[n].text
         /\ settling'[n].moved <=> settling[n].text # NoText
<1>0. /\ board \in [Machines -> CopyOnBoard] /\ counter \in [Machines -> {"same", "moved"}]
      /\ settling \in [Machines -> [text : Text, moved : BOOLEAN]]
  BY DEF TaskTypes
<1>1. board' = [board EXCEPT ![n] = c]
  BY DEF Lands
<1>2. board' \in [Machines -> CopyOnBoard] /\ board'[n] = c
      /\ \A m \in Machines : m # n => board'[m] = board[m]
  BY <1>0, <1>1
<1>3. counter' = [counter EXCEPT ![n] = IF poll[n] = "clear" THEN "moved" ELSE "same"]
      /\ settling' = [settling EXCEPT ![n].moved = settling[n].text # NoText]
  BY DEF Lands
<1>4. counter' \in [Machines -> {"same", "moved"}]
      /\ counter'[n] = (IF poll[n] = "clear" THEN "moved" ELSE "same")
      /\ \A m \in Machines : m # n => counter'[m] = counter[m]
  BY <1>0, <1>3
<1>5. settling' \in [Machines -> [text : Text, moved : BOOLEAN]]
      /\ settling'[n].text = settling[n].text
      /\ (settling'[n].moved <=> settling[n].text # NoText)
      /\ \A m \in Machines : m # n => settling'[m] = settling[m]
  BY <1>0, <1>3
<1> QED BY <1>2, <1>4, <1>5

LEMMA CopyTypes ==
  ASSUME NEW t \in Text, NEW by \in {"app", "peer"}
  PROVE  /\ Copy(t, by) \in CopyOnBoard
         /\ Copy(t, by).text = t /\ Copy(t, by).by = by
         /\ ~Copy(t, by).secret /\ ~Copy(t, by).marked /\ ~Copy(t, by).seen
         /\ ~Copy(t, by).passed /\ ~Copy(t, by).missed
BY DEF Copy, CopyOnBoard

\* One machine's copy replaced, and one of a copy's Booleans.
LEMMA FieldTypes ==
  ASSUME NEW c \in CopyOnBoard, NEW b \in BOOLEAN
  PROVE  /\ [c EXCEPT !.passed = b] \in CopyOnBoard
         /\ [c EXCEPT !.seen = b] \in CopyOnBoard
         /\ [c EXCEPT !.missed = b] \in CopyOnBoard
         /\ [c EXCEPT !.marked = b] \in CopyOnBoard
BY DEF CopyOnBoard

LEMMA BoardTypes ==
  ASSUME TaskTypes, NEW n \in Machines, NEW c \in CopyOnBoard, board' = [board EXCEPT ![n] = c]
  PROVE  /\ board' \in [Machines -> CopyOnBoard] /\ board'[n] = c
         /\ \A m \in Machines : m # n => board'[m] = board[m]
BY DEF TaskTypes

LEMMA PollUnwantedTypes ==
  ASSUME TaskTypes, NEW n \in Machines, PollUnwanted(n)
  PROVE  TaskTypes' /\ OthersSame(n)
<1>1. /\ reading' = [reading EXCEPT ![n] = FALSE]
      /\ settling' = [settling EXCEPT ![n] = Nothing]
      /\ board' = [board EXCEPT ![n].passed = board[n].text # NoText]
      /\ UNCHANGED <<poll, counter, last, changed, wronged, raced>>
  BY DEF PollUnwanted
<1>2. Nothing \in [text : Text, moved : BOOLEAN]
  BY DEF Nothing, Text
<1>3. board' \in [Machines -> CopyOnBoard] /\ \A m \in Machines : m # n => board'[m] = board[m]
  <2>1. board[n] \in CopyOnBoard
    BY DEF TaskTypes
  <2>2. (board[n].text # NoText) \in BOOLEAN
    OBVIOUS
  <2>3. board' = [board EXCEPT ![n] = [board[n] EXCEPT !.passed = board[n].text # NoText]]
    BY <1>1
  <2> QED BY <2>1, <2>2, <2>3, FieldTypes, BoardTypes
<1>4. settling' \in [Machines -> [text : Text, moved : BOOLEAN]]
      /\ \A m \in Machines : m # n => settling'[m] = settling[m]
  BY <1>1, <1>2 DEF TaskTypes
<1>5. reading' \in [Machines -> BOOLEAN] /\ \A m \in Machines : m # n => reading'[m] = reading[m]
  BY <1>1 DEF TaskTypes
<1> QED BY <1>1, <1>3, <1>4, <1>5 DEF TaskTypes, OthersSame, LocalSame

LEMMA PollLookTypes ==
  ASSUME TaskTypes, NEW n \in Machines, PollLook(n)
  PROVE  TaskTypes' /\ OthersSame(n)
<1>0. UNCHANGED <<counter, raced>>
  BY DEF PollLook
<1>1. ASSUME NEW copied \in {"private", "changing"}, Polled(n, copied), UNCHANGED <<poll, board>>
      PROVE  TaskTypes' /\ OthersSame(n)
  BY <1>0, <1>1, PolledTypes DEF TaskTypes, OthersSame, LocalSame
<1>2. ASSUME poll' = [poll EXCEPT ![n] = "clear"],
             board' = [board EXCEPT ![n].seen = board[n].secret],
             UNCHANGED <<last, reading, settling, changed, wronged>>
      PROVE  TaskTypes' /\ OthersSame(n)
  <2>1. board' \in [Machines -> CopyOnBoard] /\ \A m \in Machines : m # n => board'[m] = board[m]
    <3>1. board[n] \in CopyOnBoard /\ board[n].secret \in BOOLEAN
      BY DEF TaskTypes, CopyOnBoard
    <3>2. board' = [board EXCEPT ![n] = [board[n] EXCEPT !.seen = board[n].secret]]
      BY <1>2
    <3> QED BY <3>1, <3>2, FieldTypes, BoardTypes
  <2>2. poll' \in [Machines -> {"idle", "clear"}] /\ \A m \in Machines : m # n => poll'[m] = poll[m]
    BY <1>2 DEF TaskTypes
  <2> QED BY <1>0, <1>2, <2>1, <2>2 DEF TaskTypes, OthersSame, LocalSame
<1> QED BY <1>1, <1>2 DEF PollLook

LEMMA PollReadTypes ==
  ASSUME TaskTypes, NEW n \in Machines, PollRead(n)
  PROVE  TaskTypes' /\ OthersSame(n)
<1>0. /\ poll' = [poll EXCEPT ![n] = "idle"] /\ counter' = [counter EXCEPT ![n] = "same"]
      /\ UNCHANGED raced
  BY DEF PollRead
<1>1. \E copied : Polled(n, copied) /\ (copied = "text" => board[n].text # NoText)
  BY DEF PollRead
<1>2. board' = [board EXCEPT ![n].seen = board[n].secret] \/ board' = [board EXCEPT ![n].missed = TRUE]
  BY DEF PollRead
<1>3. board' \in [Machines -> CopyOnBoard] /\ \A m \in Machines : m # n => board'[m] = board[m]
  <2>1. board[n] \in CopyOnBoard /\ board[n].secret \in BOOLEAN
    BY DEF TaskTypes, CopyOnBoard
  <2>2. CASE board' = [board EXCEPT ![n] = [board[n] EXCEPT !.seen = board[n].secret]]
    BY <2>1, <2>2, FieldTypes, BoardTypes
  <2>3. CASE board' = [board EXCEPT ![n] = [board[n] EXCEPT !.missed = TRUE]]
    BY <2>1, <2>3, FieldTypes, BoardTypes
  <2> QED BY <1>2, <2>2, <2>3
<1>4. poll' \in [Machines -> {"idle", "clear"}] /\ \A m \in Machines : m # n => poll'[m] = poll[m]
  BY <1>0 DEF TaskTypes
<1>5. counter' \in [Machines -> {"same", "moved"}] /\ \A m \in Machines : m # n => counter'[m] = counter[m]
  BY <1>0 DEF TaskTypes
<1>6. /\ last' \in [Machines -> Text] /\ reading' \in [Machines -> BOOLEAN]
      /\ settling' \in [Machines -> [text : Text, moved : BOOLEAN]]
      /\ changed' \in [Machines -> Seq(Texts)]
      /\ wronged' \in [Machines -> SUBSET Wrongs]
      /\ \A m \in Machines : m # n =>
           /\ last'[m] = last[m] /\ reading'[m] = reading[m] /\ settling'[m] = settling[m]
           /\ changed'[m] = changed[m] /\ wronged'[m] = wronged[m]
  BY <1>1, PolledTypes
<1> QED BY <1>0, <1>3, <1>4, <1>5, <1>6 DEF TaskTypes, OthersSame, LocalSame

----------------------------------------------------------------------------
(* Texts on their way *)

\* Every text on its way from one clipboard to the other is of T.
InTransit(T) ==
  /\ changed \in [Machines -> Seq(T)]
  /\ wire \in [Machines -> Seq([text : T, at : {"sent", "open"}])]
  /\ inbox \in [Machines -> Seq(T)] /\ incoming \in [Machines -> T \cup {NoText}]

PolicyTypes == policy \in [Machines -> SUBSET Settings] /\ due \in [Machines -> BOOLEAN]

LEMMA QueueFacts ==
  ASSUME NEW S, NEW q \in Seq(S)
  PROVE  /\ q # <<>> => Head(q) \in S /\ Tail(q) \in Seq(S)
         /\ \A e \in S : Append(q, e) \in Seq(S)
OBVIOUS

LEMMA RemovedFacts ==
  ASSUME NEW S, NEW q \in Seq(S), NEW i \in 1..Len(q)
  PROVE  RemoveAt(q, i) \in Seq(S)
<1>1. Len(q) \in Nat /\ \A j \in 1..Len(q) : q[j] \in S
  OBVIOUS
<1>2. SubSeq(q, 1, i - 1) \in Seq(S)
  <2>1. 1 \in Int /\ i - 1 \in Int /\ \A j \in 1..i - 1 : q[j] \in S
    BY <1>1
  <2> QED BY <2>1, SubSeqProperties
<1>3. SubSeq(q, i + 1, Len(q)) \in Seq(S)
  <2>1. i + 1 \in Int /\ Len(q) \in Int /\ \A j \in i + 1..Len(q) : q[j] \in S
    BY <1>1
  <2> QED BY <2>1, SubSeqProperties
<1> QED BY <1>2, <1>3 DEF RemoveAt

\* What travels is what was handed over: no step of the service, of a stream or
\* of the inbox makes a text.
LEMMA BroadcastCarries ==
  ASSUME NEW T, InTransit(T), NEW n \in Machines, Broadcast(n)
  PROVE  InTransit(T)'
<1>1. /\ changed[n] \in Seq(T) /\ changed[n] # <<>> /\ changed' = [changed EXCEPT ![n] = Tail(changed[n])]
      /\ UNCHANGED <<inbox, incoming>>
  BY DEF Broadcast, InTransit
<1>2. Head(changed[n]) \in T /\ Tail(changed[n]) \in Seq(T)
  BY <1>1, QueueFacts
<1>3. changed' \in [Machines -> Seq(T)]
  BY <1>1, <1>2 DEF InTransit
<1>4. wire' \in [Machines -> Seq([text : T, at : {"sent", "open"}])]
  <2> DEFINE S == [text : T, at : {"sent", "open"}]
             e == [text |-> Head(changed[n]), at |-> "sent"]
  <2>1. e \in S
    BY <1>2
  <2>2. wire \in [Machines -> Seq(S)]
    BY DEF InTransit
  <2>3. wire' = wire \/ wire' = [wire EXCEPT ![Other(n)] = Append(wire[Other(n)], e)]
    BY DEF Broadcast
  <2> HIDE DEF S, e
  <2>4. \A o \in Machines : Append(wire[o], e) \in Seq(S)
    BY <2>1, <2>2, QueueFacts
  <2>5. wire' \in [Machines -> Seq(S)]
    BY <2>2, <2>3, <2>4
  <2> QED BY <2>5 DEF S
<1> QED BY <1>1, <1>3, <1>4 DEF InTransit

LEMMA StreamCarries ==
  ASSUME NEW T, InTransit(T), NEW n \in Machines, NEW i \in 1..Len(wire[n]),
         Accept(n, i) \/ Complete(n, i) \/ Lose(n, i)
  PROVE  InTransit(T)'
<1> DEFINE S == [text : T, at : {"sent", "open"}]
<1>0. wire \in [Machines -> Seq(S)]
  BY DEF InTransit
<1>1. wire[n] \in Seq(S) /\ wire[n][i] \in S
  <2> HIDE DEF S
  <2>1. wire[n] \in Seq(S)
    BY <1>0
  <2> QED BY <2>1
<1>2. wire[n][i].text \in T /\ [wire[n][i] EXCEPT !.at = "open"] \in S
  BY <1>1
<1> HIDE DEF S
<1>3. RemoveAt(wire[n], i) \in Seq(S)
  BY <1>1, RemovedFacts
<1>4. [wire[n] EXCEPT ![i] = [wire[n][i] EXCEPT !.at = "open"]] \in Seq(S)
  BY <1>1, <1>2
<1>5. \/ wire' = [wire EXCEPT ![n] = RemoveAt(wire[n], i)]
      \/ wire' = [wire EXCEPT ![n] = [wire[n] EXCEPT ![i] = [wire[n][i] EXCEPT !.at = "open"]]]
  BY DEF Accept, Complete, Lose
<1>6. wire' \in [Machines -> Seq(S)]
  BY <1>0, <1>1, <1>3, <1>4, <1>5
<1>7. UNCHANGED <<changed, incoming>>
      /\ (inbox' = inbox \/ inbox' = [inbox EXCEPT ![n] = Append(inbox[n], wire[n][i].text)])
  BY DEF Accept, Complete, Lose, taskVars
<1>8. inbox \in [Machines -> Seq(T)] /\ Append(inbox[n], wire[n][i].text) \in Seq(T)
  <2>1. inbox \in [Machines -> Seq(T)] /\ inbox[n] \in Seq(T)
    BY DEF InTransit
  <2> QED BY <1>2, <2>1, QueueFacts
<1>9. inbox' \in [Machines -> Seq(T)]
  BY <1>7, <1>8
<1> QED BY <1>6, <1>7, <1>9 DEF InTransit, S

LEMMA TakeCarries ==
  ASSUME NEW T, InTransit(T), NEW n \in Machines, Take(n)
  PROVE  InTransit(T)'
<1>1. inbox[n] # <<>> /\ inbox' = [inbox EXCEPT ![n] = Tail(inbox[n])]
      /\ (incoming' = incoming \/ incoming' = [incoming EXCEPT ![n] = Head(inbox[n])])
      /\ UNCHANGED <<changed, wire>>
  BY DEF Take, taskVars
<1>2. inbox \in [Machines -> Seq(T)] /\ inbox[n] \in Seq(T) /\ incoming \in [Machines -> T \cup {NoText}]
  BY DEF InTransit
<1>3. Head(inbox[n]) \in T /\ Tail(inbox[n]) \in Seq(T)
  BY <1>1, <1>2, QueueFacts
<1>4. inbox' \in [Machines -> Seq(T)] /\ incoming' \in [Machines -> T \cup {NoText}]
  BY <1>1, <1>2, <1>3
<1> QED BY <1>1, <1>4 DEF InTransit

LEMMA WriteCarries ==
  ASSUME NEW T, InTransit(T), NEW n \in Machines, Write(n)
  PROVE  InTransit(T)'
BY DEF Write, InTransit

----------------------------------------------------------------------------
(* A text lands only where it is taken *)

ClipTypes == TaskTypes /\ InTransit(Texts) /\ PolicyTypes

\* What a poll sends is the text on the clipboard, and nothing of it has landed.
LEMMA PolledSends ==
  ASSUME NEW n \in Machines, NEW copied, Polled(n, copied)
  PROVE  \/ UNCHANGED <<changed, wronged>>
         \/ /\ reading[n] /\ copied = "text" /\ last[n] # board[n].text /\ Sends(n, board[n].text)
            /\ changed' = [changed EXCEPT ![n] = Append(changed[n], board[n].text)]
            /\ wronged' = [wronged EXCEPT ![n] = wronged[n] \cup WrongToSend(board[n])]
BY DEF Polled

\* What a tick of the task leaves alone.
LEMMA PollLeaves ==
  ASSUME NEW n \in Machines, Poll(n)
  PROVE  /\ UNCHANGED <<wire, inbox, incoming, policy, raced, due>>
         /\ \/ UNCHANGED <<changed, wronged>>
            \/ /\ poll[n] = "clear" /\ ~(n \in Counted /\ counter[n] = "moved")
               /\ reading[n] /\ board[n].text # NoText
               /\ last[n] # board[n].text /\ Sends(n, board[n].text)
               /\ changed' = [changed EXCEPT ![n] = Append(changed[n], board[n].text)]
               /\ wronged' = [wronged EXCEPT ![n] = wronged[n] \cup WrongToSend(board[n])]
<1>1. UNCHANGED <<wire, inbox, incoming, policy, raced, due>>
  BY DEF Poll, PollUnwanted, PollLook, PollRead, netVars, bounds
<1>2. CASE PollUnwanted(n)
  BY <1>1, <1>2 DEF PollUnwanted
<1>3. CASE PollLook(n)
  <2>1. CASE Polled(n, "private") \/ Polled(n, "changing")
    BY <1>1, <2>1, PolledSends
  <2>2. CASE UNCHANGED <<changed, wronged>>
    BY <1>1, <2>2
  <2> QED BY <1>3, <2>1, <2>2 DEF PollLook
<1>4. CASE PollRead(n)
  <2>1. CASE Polled(n, "changing") \/ Polled(n, "nothing")
    BY <1>1, <2>1, PolledSends
  <2>2. CASE ~(n \in Counted /\ counter[n] = "moved") /\ Polled(n, "text") /\ board[n].text # NoText
    <3>1. poll[n] = "clear"
      BY <1>4 DEF PollRead
    <3> QED BY <1>1, <2>2, <3>1, PolledSends
  <2> QED BY <1>4, <2>1, <2>2 DEF PollRead
<1> QED BY <1>2, <1>3, <1>4 DEF Poll

LEMMA PollTypes ==
  ASSUME ClipTypes, NEW n \in Machines, Poll(n)
  PROVE  ClipTypes' /\ OthersSame(n)
<1>1. TaskTypes' /\ OthersSame(n)
  BY PollUnwantedTypes, PollLookTypes, PollReadTypes DEF ClipTypes, Poll
<1>2. InTransit(Texts)' /\ PolicyTypes'
  BY <1>1, PollLeaves DEF ClipTypes, TaskTypes, InTransit, PolicyTypes
<1> QED BY <1>1, <1>2 DEF ClipTypes

LEMMA WriteTypes ==
  ASSUME ClipTypes, NEW n \in Machines, Write(n)
  PROVE  ClipTypes' /\ OthersSame(n)
<1>1. /\ incoming[n] \in Texts /\ incoming[n] # NoText
      /\ UNCHANGED <<poll, reading, changed, raced, policy>>
      /\ due' = [due EXCEPT ![n] = FALSE]
  BY DEF ClipTypes, InTransit, Write
<1>2. Copy(incoming[n], "peer") \in CopyOnBoard
  BY <1>1, CopyTypes DEF Text
<1>3. InTransit(Texts)'
  BY WriteCarries DEF ClipTypes
<1>4. PolicyTypes'
  BY <1>1 DEF ClipTypes, PolicyTypes
<1>5. CASE UNCHANGED <<board, counter, last, settling, wronged>>
  BY <1>1, <1>3, <1>4, <1>5 DEF ClipTypes, TaskTypes, OthersSame, LocalSame
<1>6. CASE /\ Lands(n, Copy(incoming[n], "peer"))
           /\ last' = [last EXCEPT ![n] = incoming[n]]
           /\ wronged' = IF Takes(n) \/ due[n] THEN wronged
                         ELSE [wronged EXCEPT ![n] = @ \cup {"landed"}]
  <2>1. TaskTypes
    BY DEF ClipTypes
  <2>2. /\ board' \in [Machines -> CopyOnBoard] /\ counter' \in [Machines -> {"same", "moved"}]
        /\ settling' \in [Machines -> [text : Text, moved : BOOLEAN]]
        /\ \A m \in Machines : m # n =>
             board'[m] = board[m] /\ counter'[m] = counter[m] /\ settling'[m] = settling[m]
    BY <1>2, <1>6, <2>1, LandsTypes
  <2>3. last' \in [Machines -> Text] /\ \A m \in Machines : m # n => last'[m] = last[m]
    BY <1>1, <1>6, <2>1 DEF TaskTypes, Text
  <2>4. wronged' \in [Machines -> SUBSET Wrongs] /\ \A m \in Machines : m # n => wronged'[m] = wronged[m]
    <3>1. wronged[n] \cup {"landed"} \in SUBSET Wrongs
      BY <2>1 DEF TaskTypes, Wrongs
    <3> QED BY <1>6, <2>1, <3>1 DEF TaskTypes
  <2>5. TaskTypes'
    BY <1>1, <2>1, <2>2, <2>3, <2>4 DEF TaskTypes
  <2>6. OthersSame(n)
    BY <1>1, <2>2, <2>3, <2>4 DEF OthersSame, LocalSame
  <2> QED BY <1>3, <1>4, <2>5, <2>6 DEF ClipTypes
<1> QED BY <1>5, <1>6 DEF Write

\* A copy an app makes.
AppCopy(t, marked) == [Copy(t, "app") EXCEPT !.secret = t \in Secrets, !.marked = marked]

LEMMA AppCopyFacts ==
  ASSUME NEW t \in Text, NEW marked \in BOOLEAN
  PROVE  /\ AppCopy(t, marked) \in CopyOnBoard
         /\ AppCopy(t, marked).text = t /\ AppCopy(t, marked).by = "app"
         /\ (AppCopy(t, marked).secret <=> t \in Secrets) /\ (AppCopy(t, marked).marked <=> marked)
         /\ ~AppCopy(t, marked).seen /\ ~AppCopy(t, marked).passed /\ ~AppCopy(t, marked).missed
<1>1. (t \in Secrets) \in BOOLEAN
  OBVIOUS
<1> QED BY <1>1 DEF AppCopy, Copy, CopyOnBoard

LEMMA AppCopiesIs ==
  ASSUME NEW n \in Machines, NEW t \in Copies[n] \cup {NoText}, AppCopies(n, t)
  PROVE  /\ t \in Text
         /\ \E marked \in BOOLEAN :
              /\ marked => t \in Secrets
              /\ t \in Secrets /\ n \notin Counted => marked
              /\ Lands(n, AppCopy(t, marked))
         /\ raced' = IF poll[n] = "clear" /\ n \notin Counted
                     THEN [raced EXCEPT ![n] = Upto2(raced[n])] ELSE raced
         /\ UNCHANGED <<poll, last, reading, changed, wire, inbox, incoming, policy, wronged, due>>
<1>1. t \in Text
  BY ClipboardAssumption DEF Text
<1>2. \E marked \in IF t \notin Secrets THEN {FALSE} ELSE IF n \in Counted THEN BOOLEAN ELSE {TRUE} :
        Lands(n, AppCopy(t, marked))
  BY DEF AppCopies, AppCopy
<1>3. PICK marked \in IF t \notin Secrets THEN {FALSE} ELSE IF n \in Counted THEN BOOLEAN ELSE {TRUE} :
        Lands(n, AppCopy(t, marked))
  BY <1>2
<1>4. marked \in BOOLEAN /\ (marked => t \in Secrets) /\ (t \in Secrets /\ n \notin Counted => marked)
  BY <1>3
<1>5. raced' = (IF poll[n] = "clear" /\ n \notin Counted
                THEN [raced EXCEPT ![n] = Upto2(raced[n])] ELSE raced)
      /\ UNCHANGED <<poll, last, reading, changed, wire, inbox, incoming, policy, wronged, due>>
  BY DEF AppCopies, netVars
<1> QED BY <1>1, <1>3, <1>4, <1>5

LEMMA AppCopiesTypes ==
  ASSUME ClipTypes, NEW n \in Machines, NEW t \in Copies[n] \cup {NoText}, AppCopies(n, t)
  PROVE  ClipTypes' /\ OthersSame(n) /\ \A m \in Machines : raced'[m] >= raced[m]
<1>0. TaskTypes /\ UNCHANGED <<poll, last, reading, changed, wire, inbox, incoming, policy, wronged, due>>
      /\ t \in Text
  BY AppCopiesIs DEF ClipTypes
<1>1. PICK marked \in BOOLEAN : Lands(n, AppCopy(t, marked))
  BY AppCopiesIs
<1>2. AppCopy(t, marked) \in CopyOnBoard
  BY <1>0, AppCopyFacts
<1>3. /\ board' \in [Machines -> CopyOnBoard] /\ counter' \in [Machines -> {"same", "moved"}]
      /\ settling' \in [Machines -> [text : Text, moved : BOOLEAN]]
      /\ \A m \in Machines : m # n =>
           board'[m] = board[m] /\ counter'[m] = counter[m] /\ settling'[m] = settling[m]
  BY <1>0, <1>1, <1>2, LandsTypes
<1>4. raced' \in [Machines -> 0..2] /\ (\A m \in Machines : m # n => raced'[m] = raced[m])
      /\ \A m \in Machines : raced'[m] >= raced[m]
  <2>1. raced \in [Machines -> 0..2] /\ raced[n] \in 0..2
    BY <1>0 DEF TaskTypes
  <2>2. Upto2(raced[n]) \in 0..2 /\ Upto2(raced[n]) >= raced[n]
    BY <2>1 DEF Upto2
  <2>3. raced' = raced \/ raced' = [raced EXCEPT ![n] = Upto2(raced[n])]
    BY AppCopiesIs
  <2> QED BY <2>1, <2>2, <2>3
<1>5. TaskTypes'
  BY <1>0, <1>3, <1>4 DEF TaskTypes
<1>6. OthersSame(n)
  BY <1>0, <1>3, <1>4 DEF OthersSame, LocalSame
<1>7. InTransit(Texts)' /\ PolicyTypes'
  BY <1>0 DEF ClipTypes, InTransit, PolicyTypes
<1> QED BY <1>4, <1>5, <1>6, <1>7 DEF ClipTypes

LEMMA AppMarksTypes ==
  ASSUME ClipTypes, NEW n \in Machines, AppMarks(n)
  PROVE  ClipTypes' /\ OthersSame(n)
<1>1. /\ board' = [board EXCEPT ![n] = [board[n] EXCEPT !.marked = TRUE]]
      /\ UNCHANGED <<counter, poll, last, reading, settling, changed, wire, inbox, incoming,
                     policy, wronged, raced, due>>
  BY DEF AppMarks, taskVars, netVars
<1>2. TaskTypes /\ board[n] \in CopyOnBoard
  BY DEF ClipTypes, TaskTypes
<1>3. board' \in [Machines -> CopyOnBoard] /\ \A m \in Machines : m # n => board'[m] = board[m]
  BY <1>1, <1>2, FieldTypes, BoardTypes
<1>4. TaskTypes'
  BY <1>1, <1>2, <1>3 DEF TaskTypes
<1>5. InTransit(Texts)' /\ PolicyTypes'
  BY <1>1 DEF ClipTypes, InTransit, PolicyTypes
<1> QED BY <1>1, <1>3, <1>4, <1>5 DEF ClipTypes, OthersSame, LocalSame

\* The steps of the service, the streams and the inbox, and those of a person.
Carries(n) ==
  \/ Broadcast(n) \/ Take(n)
  \/ \E i \in 1..Len(wire[n]) : Accept(n, i) \/ Complete(n, i) \/ Lose(n, i)

LEMMA CarriesTypes ==
  ASSUME ClipTypes, NEW n \in Machines, Carries(n)
  PROVE  /\ ClipTypes' /\ \A m \in Machines : LocalSame(m)
         /\ UNCHANGED <<policy, due>>
         /\ incoming' = incoming \/ (Takes(n) /\ \E t : incoming' = [incoming EXCEPT ![n] = t])
<1>1. /\ UNCHANGED <<board, counter, poll, last, reading, settling, policy, wronged, raced, due>>
      /\ incoming' = incoming \/ (Takes(n) /\ \E t : incoming' = [incoming EXCEPT ![n] = t])
  <2>1. CASE Broadcast(n)
    BY <2>1 DEF Broadcast
  <2>2. CASE Take(n)
    BY <2>2 DEF Take, taskVars
  <2>3. CASE \E i \in 1..Len(wire[n]) : Accept(n, i) \/ Complete(n, i) \/ Lose(n, i)
    BY <2>3 DEF Accept, Complete, Lose, taskVars
  <2> QED BY <2>1, <2>2, <2>3 DEF Carries
<1>2. InTransit(Texts)'
  BY BroadcastCarries, TakeCarries, StreamCarries DEF Carries, ClipTypes
<1>3. TaskTypes'
  BY <1>1, <1>2 DEF ClipTypes, TaskTypes, InTransit
<1>4. PolicyTypes'
  BY <1>1 DEF ClipTypes, PolicyTypes
<1> QED BY <1>1, <1>2, <1>3, <1>4 DEF ClipTypes, LocalSame

LEMMA SetPolicyTypes ==
  ASSUME ClipTypes, NEW n \in Machines, NEW p \in Policies[n], SetPolicy(n, p)
  PROVE  ClipTypes' /\ \A m \in Machines : LocalSame(m)
<1>1. /\ UNCHANGED <<board, counter, poll, last, reading, settling, changed, wire, inbox, incoming,
                     wronged, raced>>
      /\ policy' = [policy EXCEPT ![n] = p]
      /\ due' = due \/ due' = [due EXCEPT ![n] = incoming[n] # NoText]
  BY DEF SetPolicy, taskVars, netVars
<1>2. p \in SUBSET Settings
  BY ClipboardAssumption
<1>3. PolicyTypes'
  BY <1>1, <1>2 DEF ClipTypes, PolicyTypes
<1>4. TaskTypes' /\ InTransit(Texts)'
  BY <1>1 DEF ClipTypes, TaskTypes, InTransit
<1> QED BY <1>1, <1>3, <1>4 DEF ClipTypes, LocalSame

LEMMA ClipNextIs ==
  ASSUME ClipNext
  PROVE  \E n \in Machines :
           \/ Poll(n) \/ Write(n) \/ Carries(n) \/ AppMarks(n)
           \/ \E t \in Copies[n] \cup {NoText} : AppCopies(n, t)
           \/ \E p \in Policies[n] : SetPolicy(n, p)
BY Zenon DEF ClipNext, Carries

LEMMA ClipTypesInit ==
  ASSUME ClipInit
  PROVE  ClipTypes
<1>1. /\ board = [m \in Machines |-> Copy(NoText, "app")]
      /\ poll = [m \in Machines |-> "idle"] /\ counter = [m \in Machines |-> "same"]
      /\ last = [m \in Machines |-> NoText] /\ reading = [m \in Machines |-> FALSE]
      /\ settling = [m \in Machines |-> Nothing]
      /\ changed = [m \in Machines |-> <<>>] /\ wire = [m \in Machines |-> <<>>]
      /\ inbox = [m \in Machines |-> <<>>] /\ incoming = [m \in Machines |-> NoText]
      /\ policy \in [Machines -> SUBSET Settings]
      /\ wronged = [m \in Machines |-> {}] /\ raced = [m \in Machines |-> 0]
      /\ due = [m \in Machines |-> FALSE]
  BY DEF ClipInit
<1>2. Copy(NoText, "app") \in CopyOnBoard /\ Nothing \in [text : Text, moved : BOOLEAN] /\ NoText \in Text
  BY CopyTypes DEF Text, Nothing
<1>3. TaskTypes
  BY <1>1, <1>2 DEF TaskTypes
<1>4. InTransit(Texts) /\ PolicyTypes
  BY <1>1 DEF InTransit, PolicyTypes
<1> QED BY <1>3, <1>4 DEF ClipTypes

LEMMA ClipTypesStep ==
  ASSUME ClipTypes, [ClipNext]_clipVars
  PROVE  ClipTypes'
<1>1. CASE UNCHANGED clipVars
  BY <1>1 DEF clipVars, taskVars, netVars, bounds, ClipTypes, TaskTypes, InTransit, PolicyTypes
<1>2. CASE ClipNext
  <2>1. PICK n \in Machines :
           \/ Poll(n) \/ Write(n) \/ Carries(n) \/ AppMarks(n)
           \/ \E t \in Copies[n] \cup {NoText} : AppCopies(n, t)
           \/ \E p \in Policies[n] : SetPolicy(n, p)
    BY <1>2, ClipNextIs
  <2> QED
    BY <2>1, PollTypes, WriteTypes, CarriesTypes, AppMarksTypes, AppCopiesTypes, SetPolicyTypes
<1> QED BY <1>1, <1>2

\* One machine's: what is handed to its task is taken, and nothing else landed.
Rightly(m) == (incoming[m] # NoText => Takes(m) \/ due[m]) /\ "landed" \notin wronged[m]

LEMMA RightlySame ==
  ASSUME NEW m \in Machines, Rightly(m), incoming'[m] = incoming[m], policy'[m] = policy[m],
         due'[m] = due[m], wronged'[m] = wronged[m]
  PROVE  Rightly(m)'
BY DEF Rightly, Takes

LEMMA RightlyStep ==
  ASSUME ClipTypes, \A m \in Machines : Rightly(m), [ClipNext]_clipVars
  PROVE  \A m \in Machines : Rightly(m)'
<1> SUFFICES ASSUME NEW m \in Machines PROVE Rightly(m)'
  OBVIOUS
<1>0. /\ incoming \in [Machines -> Texts \cup {NoText}] /\ policy \in [Machines -> SUBSET Settings]
      /\ due \in [Machines -> BOOLEAN] /\ wronged \in [Machines -> SUBSET Wrongs]
      /\ Rightly(m)
  BY DEF ClipTypes, TaskTypes, InTransit, PolicyTypes
<1>1. CASE UNCHANGED clipVars
  BY <1>0, <1>1, RightlySame DEF clipVars, taskVars, netVars
<1>2. ASSUME NEW n \in Machines, Poll(n) PROVE Rightly(m)'
  <2>1. UNCHANGED <<incoming, policy, due>>
    BY <1>2, PollLeaves
  <2>2. "landed" \notin wronged'[m]
    <3>1. "landed" \notin wronged[m] /\ "landed" \notin WrongToSend(board[n])
      BY <1>0 DEF Rightly, WrongToSend
    <3>2. wronged' = wronged \/ wronged' = [wronged EXCEPT ![n] = wronged[n] \cup WrongToSend(board[n])]
      BY <1>2, PollLeaves
    <3> QED BY <1>0, <3>1, <3>2
  <2> QED BY <1>0, <2>1, <2>2 DEF Rightly, Takes
<1>3. ASSUME NEW n \in Machines, Write(n) PROVE Rightly(m)'
  <2>1. /\ incoming' = [incoming EXCEPT ![n] = NoText] /\ due' = [due EXCEPT ![n] = FALSE]
        /\ UNCHANGED policy /\ incoming[n] # NoText
        /\ wronged' = wronged \/ ~(Takes(n) \/ due[n])
    BY <1>3 DEF Write
  <2>2. wronged' = wronged
    BY <2>1 DEF Rightly
  <2>3. CASE m = n
    BY <1>0, <2>1, <2>2, <2>3 DEF Rightly
  <2>4. CASE m # n
    BY <1>0, <2>1, <2>2, <2>4, RightlySame
  <2> QED BY <2>3, <2>4
<1>4. ASSUME NEW n \in Machines, Carries(n) PROVE Rightly(m)'
  <2>1. /\ UNCHANGED <<policy, due>> /\ wronged'[m] = wronged[m]
        /\ incoming' = incoming \/ (Takes(n) /\ \E t : incoming' = [incoming EXCEPT ![n] = t])
    BY <1>4, CarriesTypes DEF LocalSame
  <2> QED BY <1>0, <2>1 DEF Rightly, Takes
<1>5. ASSUME NEW n \in Machines, AppMarks(n) PROVE Rightly(m)'
  BY <1>0, <1>5, RightlySame DEF AppMarks, netVars
<1>6. ASSUME NEW n \in Machines, NEW t \in Copies[n] \cup {NoText}, AppCopies(n, t) PROVE Rightly(m)'
  BY <1>0, <1>6, RightlySame, AppCopiesIs
<1>7. ASSUME NEW n \in Machines, NEW p \in Policies[n], SetPolicy(n, p) PROVE Rightly(m)'
  <2>1. /\ policy' = [policy EXCEPT ![n] = p] /\ UNCHANGED <<incoming, wronged>>
        /\ due' = IF Takes(n) THEN [due EXCEPT ![n] = incoming[n] # NoText] ELSE due
    BY <1>7 DEF SetPolicy, netVars
  <2>2. CASE m # n
    BY <1>0, <2>1, <2>2, RightlySame
  <2>3. CASE m = n
    BY <1>0, <2>1, <2>3 DEF Rightly
  <2> QED BY <2>2, <2>3
<1>8. CASE ClipNext
  BY <1>2, <1>3, <1>4, <1>5, <1>6, <1>7, <1>8, ClipNextIs
<1> QED BY <1>1, <1>8

LEMMA ClipTyped == ClipSpec => []ClipTypes
<1>1. ClipInit => ClipTypes
  BY ClipTypesInit
<1>2. ClipTypes /\ [ClipNext]_clipVars => ClipTypes'
  BY ClipTypesStep
<1> QED BY <1>1, <1>2, PTL DEF ClipSpec

\* However transfers, checks and changes of mind are ordered, and for any number
\* of them, no text lands on a clipboard that has stopped taking them, but the one
\* its task already had (ClipboardInbox::next, Clipboard::apply).
THEOREM OnlyTakenTextsLand == ClipSpec => []NothingLandsUntaken
<1> DEFINE RightInv == \A m \in Machines : Rightly(m)
<1>1. ClipInit => RightInv
  BY DEF ClipInit, Rightly
<1>2. ClipTypes /\ RightInv /\ [ClipNext]_clipVars => RightInv'
  BY RightlyStep
<1>3. RightInv => NothingLandsUntaken
  BY DEF Rightly, NothingLandsUntaken
<1> HIDE DEF RightInv
<1> QED BY <1>1, <1>2, <1>3, ClipTyped, PTL DEF ClipSpec

----------------------------------------------------------------------------
(* A machine sends only what is its own *)

\* What the task knows of the copy on the clipboard.  A text it wrote is one it
\* knows, as is one a poll passed by, unless a read of it failed; a marked copy a
\* poll found is not remembered, and is not read while it is marked.
Known(m) ==
  /\ board[m].by = "peer" => board[m].text # NoText /\ ~board[m].secret
  /\ board[m].passed => board[m].text # NoText
  /\ board[m].marked => board[m].secret
  /\ board[m].secret => board[m].text \in Secrets
  /\ board[m].by = "peer" /\ ~board[m].missed => last[m] = board[m].text
  /\ board[m].passed /\ ~board[m].missed /\ reading[m] =>
       last[m] = board[m].text \/ (board[m].marked /\ poll[m] = "idle")

\* Where copies are counted, a copy yet to be marked does not settle twice: the
\* poll that found it has seen it, and the next one finds the mark.
SettlesOnce(m) ==
  m \in Counted /\ board[m].secret /\ settling[m].text # NoText /\ ~settling[m].moved =>
    /\ board[m].seen
    /\ poll[m] = "clear" => counter[m] = "moved" \/ settling[m].text # board[m].text

\* No machine has had two uncounted copies land between a look and its read.
Clean == \A n \in Machines \ Counted : raced[n] < 2

\* Where copies are not counted, a mark comes with its copy, so that a secret
\* read at all has raced a look, and one settling for a second time has twice.
Uncounted(m) ==
  m \notin Counted =>
    /\ board[m].secret => board[m].marked
    /\ poll[m] = "clear" /\ board[m].secret => raced[m] >= 1
    /\ Clean /\ settling[m].text \in Secrets =>
         raced[m] >= 1 /\ (poll[m] = "clear" /\ board[m].secret => raced[m] >= 2)

\* A secret text is on a clipboard only as a secret.
KeptSecret(m) == Clean /\ board[m].text \in Secrets => board[m].secret

Sent(m) ==
  /\ wronged[m] \cap {"echo", "unshared"} = {}
  /\ "secret" \in wronged[m] => m \notin Counted /\ ~Clean

Own(m) == Known(m) /\ SettlesOnce(m) /\ Uncounted(m) /\ KeptSecret(m)

LEMMA OwnSame ==
  ASSUME NEW m \in Machines, LocalSame(m), Own(m), Sent(m), Clean' => Clean
  PROVE  Own(m)' /\ Sent(m)'
<1>0. /\ board'[m] = board[m] /\ poll'[m] = poll[m] /\ counter'[m] = counter[m]
      /\ last'[m] = last[m] /\ reading'[m] = reading[m] /\ settling'[m] = settling[m]
      /\ wronged'[m] = wronged[m] /\ raced'[m] = raced[m]
  BY DEF LocalSame
<1>1. Known(m)' /\ SettlesOnce(m)'
  BY <1>0 DEF Own, Known, SettlesOnce
<1>2. Uncounted(m)'
  BY <1>0 DEF Own, Uncounted
<1>3. KeptSecret(m)' /\ Sent(m)'
  BY <1>0 DEF Own, KeptSecret, Sent
<1> QED BY <1>1, <1>2, <1>3 DEF Own

LEMMA CleanBefore ==
  ASSUME TaskTypes, TaskTypes', \A m \in Machines : raced'[m] >= raced[m]
  PROVE  Clean' => Clean
<1>1. \A m \in Machines : raced[m] \in 0..2 /\ raced'[m] \in 0..2
  BY DEF TaskTypes
<1> QED BY <1>1 DEF Clean

\* The copy on a clipboard with one of its marks set.
LEMMA FieldValues ==
  ASSUME NEW c \in CopyOnBoard, NEW b \in BOOLEAN
  PROVE  /\ LET d == [c EXCEPT !.passed = b]
            IN  d.text = c.text /\ d.by = c.by /\ d.secret = c.secret /\ d.marked = c.marked
                /\ d.seen = c.seen /\ d.passed = b /\ d.missed = c.missed
         /\ LET d == [c EXCEPT !.seen = b]
            IN  d.text = c.text /\ d.by = c.by /\ d.secret = c.secret /\ d.marked = c.marked
                /\ d.seen = b /\ d.passed = c.passed /\ d.missed = c.missed
         /\ LET d == [c EXCEPT !.missed = b]
            IN  d.text = c.text /\ d.by = c.by /\ d.secret = c.secret /\ d.marked = c.marked
                /\ d.seen = c.seen /\ d.passed = c.passed /\ d.missed = b
         /\ LET d == [c EXCEPT !.marked = b]
            IN  d.text = c.text /\ d.by = c.by /\ d.secret = c.secret /\ d.marked = b
                /\ d.seen = c.seen /\ d.passed = c.passed /\ d.missed = c.missed
BY DEF CopyOnBoard

\* The types of one machine's state.
LEMMA LocalTypes ==
  ASSUME TaskTypes, NEW n \in Machines
  PROVE  /\ board[n] \in CopyOnBoard /\ board[n].text \in Text /\ board[n].by \in {"app", "peer"}
         /\ board[n].secret \in BOOLEAN /\ board[n].marked \in BOOLEAN /\ board[n].seen \in BOOLEAN
         /\ board[n].passed \in BOOLEAN /\ board[n].missed \in BOOLEAN
         /\ poll[n] \in {"idle", "clear"} /\ reading[n] \in BOOLEAN /\ raced[n] \in 0..2
         /\ settling[n].text \in Text /\ settling[n].moved \in BOOLEAN
         /\ NoText \notin Secrets /\ Nothing.text = NoText
BY ClipboardAssumption DEF TaskTypes, CopyOnBoard, Nothing

LEMMA PollUnwantedOwn ==
  ASSUME TaskTypes, NEW n \in Machines, PollUnwanted(n), Own(n), Sent(n)
  PROVE  Own(n)' /\ Sent(n)'
<1>1. /\ reading'[n] = FALSE /\ settling'[n].text = NoText
      /\ board'[n].text = board[n].text /\ board'[n].by = board[n].by
      /\ board'[n].secret = board[n].secret /\ board'[n].marked = board[n].marked
      /\ board'[n].missed = board[n].missed
      /\ (board'[n].passed => board[n].text # NoText)
      /\ poll'[n] = "idle" /\ UNCHANGED <<poll, last, wronged, raced>>
  <2>1. /\ reading' = [reading EXCEPT ![n] = FALSE]
        /\ settling' = [settling EXCEPT ![n] = Nothing]
        /\ board' = [board EXCEPT ![n] = [board[n] EXCEPT !.passed = board[n].text # NoText]]
        /\ poll[n] = "idle" /\ UNCHANGED <<poll, last, wronged, raced>>
    BY DEF PollUnwanted
  <2>2. (board[n].text # NoText) \in BOOLEAN
    OBVIOUS
  <2>3. board'[n] = [board[n] EXCEPT !.passed = board[n].text # NoText]
    BY <2>1, <2>2, LocalTypes, FieldTypes, BoardTypes
  <2>4. reading'[n] = FALSE /\ settling'[n].text = NoText
    BY <2>1 DEF TaskTypes, Nothing
  <2>5. /\ board'[n].text = board[n].text /\ board'[n].by = board[n].by
        /\ board'[n].secret = board[n].secret /\ board'[n].marked = board[n].marked
        /\ board'[n].missed = board[n].missed
        /\ board'[n].passed = (board[n].text # NoText)
    <3>1. board[n] \in CopyOnBoard
      BY LocalTypes
    <3> QED BY <2>2, <2>3, <3>1, FieldValues
  <2>6. poll'[n] = "idle" /\ UNCHANGED <<poll, last, wronged, raced>>
    BY <2>1
  <2> QED BY <2>4, <2>5, <2>6
<1>2. Known(n)' /\ SettlesOnce(n)'
  BY <1>1 DEF Own, Known, SettlesOnce
<1>3. Uncounted(n)' /\ KeptSecret(n)' /\ Sent(n)'
  <2>1. Clean' <=> Clean
    BY <1>1 DEF Clean
  <2> QED BY <1>1, <2>1, LocalTypes DEF Own, Uncounted, KeptSecret, Sent
<1> QED BY <1>2, <1>3 DEF Own

\* What a poll leaves of its own machine.
LEMMA PolledValues ==
  ASSUME TaskTypes, NEW n \in Machines, NEW copied, Polled(n, copied)
  PROVE  \/ /\ ~reading[n] /\ copied = "changing" /\ reading'[n] = FALSE /\ last'[n] = last[n]
            /\ settling'[n] = settling[n] /\ wronged'[n] = wronged[n]
         \/ /\ ~reading[n] /\ copied # "changing"
            /\ last'[n] = IF copied = "text" THEN board[n].text ELSE NoText
            /\ settling'[n] = settling[n] /\ wronged'[n] = wronged[n]
         \/ /\ reading[n] /\ copied \in {"text", "changing"} /\ last'[n] = last[n]
            /\ settling'[n] = Nothing /\ wronged'[n] = wronged[n]
         \/ /\ reading[n] /\ copied = "text" /\ last'[n] = last[n] /\ last[n] # board[n].text
            /\ settling'[n] = [text |-> board[n].text, moved |-> FALSE] /\ wronged'[n] = wronged[n]
         \/ /\ reading[n] /\ copied = "text" /\ last[n] # board[n].text /\ last'[n] = board[n].text
            /\ Sends(n, board[n].text) /\ settling'[n] = Nothing
            /\ wronged'[n] = wronged[n] \cup WrongToSend(board[n])
         \/ /\ reading[n] /\ copied \in {"private", "nothing"} /\ last'[n] = NoText
            /\ settling'[n] = Nothing /\ wronged'[n] = wronged[n]
<1>1. /\ last \in [Machines -> Text] /\ reading \in [Machines -> BOOLEAN]
      /\ settling \in [Machines -> [text : Text, moved : BOOLEAN]]
      /\ wronged \in [Machines -> SUBSET Wrongs]
  BY DEF TaskTypes
<1>2. CASE ~reading[n] /\ Begins(n, copied, board[n].text) /\ UNCHANGED <<settling, changed, wronged>>
  BY <1>1, <1>2 DEF Begins
<1>3. CASE reading[n] /\ copied = "text" /\ last[n] = board[n].text
           /\ settling' = [settling EXCEPT ![n] = Nothing] /\ UNCHANGED <<last, reading, changed, wronged>>
  BY <1>1, <1>3
<1>4. CASE /\ reading[n] /\ copied = "text" /\ last[n] # board[n].text /\ ~Sends(n, board[n].text)
           /\ settling' = [settling EXCEPT ![n] = [text |-> board[n].text, moved |-> FALSE]]
           /\ UNCHANGED <<last, reading, changed, wronged>>
  BY <1>1, <1>4
<1>5. CASE /\ reading[n] /\ copied = "text" /\ last[n] # board[n].text /\ Sends(n, board[n].text)
           /\ settling' = [settling EXCEPT ![n] = Nothing]
           /\ last' = [last EXCEPT ![n] = board[n].text]
           /\ wronged' = [wronged EXCEPT ![n] = @ \cup WrongToSend(board[n])]
  BY <1>1, <1>5
<1>6. CASE /\ reading[n] /\ copied \in {"private", "nothing"}
           /\ settling' = [settling EXCEPT ![n] = Nothing]
           /\ last' = [last EXCEPT ![n] = NoText]
           /\ UNCHANGED <<reading, changed, wronged>>
  BY <1>1, <1>6
<1>7. CASE /\ reading[n] /\ copied = "changing"
           /\ settling' = [settling EXCEPT ![n] = Nothing] /\ UNCHANGED <<last, reading, changed, wronged>>
  BY <1>1, <1>7
<1> QED BY <1>2, <1>3, <1>4, <1>5, <1>6, <1>7 DEF Polled

LEMMA ChangingLeaves ==
  ASSUME TaskTypes, NEW n \in Machines, Polled(n, "changing")
  PROVE  /\ wronged'[n] = wronged[n] /\ last'[n] = last[n] /\ (reading'[n] => reading[n])
         /\ settling'[n] = settling[n] \/ settling'[n] = Nothing
<1>1. /\ UNCHANGED <<last, reading, wronged>>
      /\ settling' = settling \/ settling' = [settling EXCEPT ![n] = Nothing]
  BY DEF Polled, Begins
<1> QED BY <1>1 DEF TaskTypes

LEMMA PollLookOwn ==
  ASSUME TaskTypes, NEW n \in Machines, PollLook(n), Own(n), Sent(n)
  PROVE  Own(n)' /\ Sent(n)'
<1>0. poll[n] = "idle" /\ MarkedInTime(n) /\ (Clean' <=> Clean) /\ raced'[n] = raced[n]
  BY DEF PollLook, Clean
<1>1. ASSUME NEW copied \in {"private", "changing"}, copied = "private" => board[n].marked,
             Polled(n, copied), board'[n] = board[n], poll'[n] = poll[n]
      PROVE  Own(n)' /\ Sent(n)'
  <2>1. /\ wronged'[n] = wronged[n]
        /\ settling'[n] = settling[n] \/ settling'[n] = Nothing
        /\ last'[n] = last[n] \/ board[n].marked
        /\ reading'[n] => reading[n] \/ board[n].marked
    <3>1. ~reading[n] /\ copied = "changing" => reading'[n] = FALSE
      BY <1>1, PolledValues
    <3> QED BY <1>1, <3>1, PolledValues
  <2>2. Known(n)'
    BY <1>0, <1>1, <2>1, LocalTypes DEF Own, Known
  <2>3. SettlesOnce(n)' /\ Uncounted(n)'
    BY <1>0, <1>1, <2>1, LocalTypes DEF Own, SettlesOnce, Uncounted
  <2>4. KeptSecret(n)' /\ Sent(n)'
    BY <1>0, <1>1, <2>1 DEF Own, KeptSecret, Sent
  <2> QED BY <2>2, <2>3, <2>4 DEF Own
<1>2. ASSUME ~board[n].marked, poll' = [poll EXCEPT ![n] = "clear"],
             board' = [board EXCEPT ![n].seen = board[n].secret],
             UNCHANGED <<counter, last, reading, settling, changed, wronged>>
      PROVE  Own(n)' /\ Sent(n)'
  <2>1. board' = [board EXCEPT ![n] = [board[n] EXCEPT !.seen = board[n].secret]]
    BY <1>2
  <2>2. board'[n] = [board[n] EXCEPT !.seen = board[n].secret]
    BY <2>1, LocalTypes, FieldTypes, BoardTypes
  <2>3. /\ board'[n].text = board[n].text /\ board'[n].by = board[n].by
        /\ board'[n].secret = board[n].secret /\ board'[n].marked = board[n].marked
        /\ board'[n].missed = board[n].missed /\ board'[n].passed = board[n].passed
    <3>1. board[n] \in CopyOnBoard /\ board[n].secret \in BOOLEAN
      BY LocalTypes
    <3> QED BY <2>2, <3>1, FieldValues
  <2>4. Known(n)'
    BY <1>0, <1>2, <2>3, LocalTypes DEF Own, Known
  <2>5. SettlesOnce(n)'
    BY <1>0, <1>2, <2>3, LocalTypes DEF Own, SettlesOnce, MarkedInTime
  <2>6. Uncounted(n)'
    BY <1>0, <1>2, <2>3, LocalTypes DEF Own, Uncounted
  <2>7. KeptSecret(n)' /\ Sent(n)'
    BY <1>0, <1>2, <2>3 DEF Own, KeptSecret, Sent
  <2> QED BY <2>4, <2>5, <2>6, <2>7 DEF Own
<1> QED BY <1>1, <1>2 DEF PollLook

\* The text a poll sends is not one the task wrote, passed by or should have kept.
LEMMA SendIsRight ==
  ASSUME TaskTypes, NEW n \in Machines, Own(n), poll[n] = "clear",
         ~(n \in Counted /\ counter[n] = "moved"), reading[n],
         board[n].text # NoText, last[n] # board[n].text, Sends(n, board[n].text)
  PROVE  /\ WrongToSend(board[n]) \cap {"echo", "unshared"} = {}
         /\ "secret" \in WrongToSend(board[n]) => n \notin Counted /\ ~Clean
         /\ Clean => board[n].text \notin Secrets
<1>1. ~(board[n].by = "peer" /\ ~board[n].missed) /\ ~(board[n].passed /\ ~board[n].missed)
  BY DEF Own, Known
<1>2. board[n].secret => n \notin Counted /\ ~Clean
  <2>1. settling[n].text = board[n].text /\ (n \in Counted => ~settling[n].moved)
    BY DEF Sends
  <2>2. ASSUME board[n].secret, n \in Counted PROVE FALSE
    BY <2>1, <2>2 DEF Own, SettlesOnce
  <2>3. ASSUME board[n].secret, n \notin Counted, Clean PROVE FALSE
    <3>1. settling[n].text \in Secrets
      BY <2>1, <2>3 DEF Own, Known
    <3>2. raced[n] >= 2 /\ raced[n] \in 0..2
      BY <2>3, <3>1, LocalTypes DEF Own, Uncounted
    <3> QED BY <2>3, <3>2 DEF Clean
  <2> QED BY <2>2, <2>3
<1>3. Clean => board[n].text \notin Secrets
  BY <1>2 DEF Own, KeptSecret
<1> QED BY <1>1, <1>2, <1>3 DEF WrongToSend

LEMMA PollReadOwn ==
  ASSUME TaskTypes, NEW n \in Machines, PollRead(n), Own(n), Sent(n)
  PROVE  Own(n)' /\ Sent(n)'
<1>0. poll[n] = "clear" /\ poll'[n] = "idle" /\ (Clean' <=> Clean) /\ raced'[n] = raced[n]
  BY DEF PollRead, Clean, TaskTypes
<1> DEFINE still == /\ board'[n].text = board[n].text /\ board'[n].by = board[n].by
                    /\ board'[n].secret = board[n].secret /\ board'[n].marked = board[n].marked
                    /\ board'[n].passed = board[n].passed
<1>1. ASSUME board' = [board EXCEPT ![n].seen = board[n].secret]
      PROVE  still /\ board'[n].missed = board[n].missed /\ board'[n].seen = board[n].secret
  <2>1. board' = [board EXCEPT ![n] = [board[n] EXCEPT !.seen = board[n].secret]]
    BY <1>1
  <2>2. board'[n] = [board[n] EXCEPT !.seen = board[n].secret]
    BY <2>1, LocalTypes, FieldTypes, BoardTypes
  <2>3. board[n] \in CopyOnBoard /\ board[n].secret \in BOOLEAN
    BY LocalTypes
  <2> QED BY <2>2, <2>3, FieldValues
<1>2. ASSUME board' = [board EXCEPT ![n].missed = TRUE]
      PROVE  still /\ board'[n].missed = TRUE /\ board'[n].seen = board[n].seen
  <2>1. board' = [board EXCEPT ![n] = [board[n] EXCEPT !.missed = TRUE]]
    BY <1>2
  <2>2. board'[n] = [board[n] EXCEPT !.missed = TRUE]
    BY <2>1, LocalTypes, FieldTypes, BoardTypes
  <2>3. board[n] \in CopyOnBoard
    BY LocalTypes
  <2> QED BY <2>2, <2>3, FieldValues
<1> HIDE DEF still
<1>3. still => KeptSecret(n)'
  BY <1>0 DEF still, Own, KeptSecret
<1>4. ASSUME Polled(n, "changing"), board' = [board EXCEPT ![n].seen = board[n].secret]
      PROVE  Own(n)' /\ Sent(n)'
  <2>1. still /\ board'[n].missed = board[n].missed /\ board'[n].seen = board[n].secret
    BY <1>1, <1>4
  <2>2. /\ wronged'[n] = wronged[n] /\ last'[n] = last[n] /\ (reading'[n] => reading[n])
        /\ settling'[n] = settling[n] \/ settling'[n] = Nothing
    BY <1>4, ChangingLeaves
  <2>3. Known(n)'
    BY <1>0, <2>1, <2>2, LocalTypes DEF still, Own, Known
  <2>4. SettlesOnce(n)' /\ Uncounted(n)'
    BY <1>0, <2>1, <2>2, LocalTypes DEF still, Own, SettlesOnce, Uncounted
  <2> QED BY <1>0, <1>3, <2>1, <2>2, <2>3, <2>4 DEF Own, Sent
<1>5. ASSUME ~(n \in Counted /\ counter[n] = "moved"),
             Polled(n, IF board[n].text = NoText THEN "nothing" ELSE "text"),
             board' = [board EXCEPT ![n].seen = board[n].secret]
      PROVE  Own(n)' /\ Sent(n)'
  <2>1. still /\ board'[n].missed = board[n].missed /\ board'[n].seen = board[n].secret
    BY <1>1, <1>5
  <2>2. \/ last'[n] = board[n].text
        \/ last'[n] = last[n] /\ reading[n]
    BY <1>5, PolledValues
  <2>3. Known(n)'
    BY <1>0, <2>1, <2>2, LocalTypes DEF still, Own, Known
  <2>4. \/ settling'[n] = settling[n] \/ settling'[n] = Nothing
        \/ settling'[n] = [text |-> board[n].text, moved |-> FALSE]
    BY <1>5, PolledValues
  <2>5. SettlesOnce(n)'
    BY <1>0, <2>1, <2>4, LocalTypes DEF still, Own, SettlesOnce
  <2>6. Uncounted(n)'
    <3>1. settling'[n].text \in {settling[n].text, NoText, board[n].text}
      BY <2>4, LocalTypes
    <3>2. Clean /\ board[n].text \in Secrets => board[n].secret
      BY DEF Own, KeptSecret
    <3> QED BY <1>0, <2>1, <3>1, <3>2, LocalTypes DEF still, Own, Uncounted
  <2>7. Sent(n)'
    <3>1. CASE wronged'[n] = wronged[n]
      BY <1>0, <3>1 DEF Sent
    <3>2. CASE /\ reading[n] /\ board[n].text # NoText /\ last[n] # board[n].text
               /\ Sends(n, board[n].text)
               /\ wronged'[n] = wronged[n] \cup WrongToSend(board[n])
      <4>1. /\ WrongToSend(board[n]) \cap {"echo", "unshared"} = {}
            /\ "secret" \in WrongToSend(board[n]) => n \notin Counted /\ ~Clean
        BY <1>0, <1>5, <3>2, SendIsRight
      <4> QED BY <1>0, <3>2, <4>1 DEF Sent
    <3> QED BY <1>5, <3>1, <3>2, PolledValues
  <2> QED BY <1>3, <2>1, <2>3, <2>5, <2>6, <2>7 DEF Own
<1>6. ASSUME Polled(n, "nothing"), board' = [board EXCEPT ![n].missed = TRUE]
      PROVE  Own(n)' /\ Sent(n)'
  <2>1. still /\ board'[n].missed = TRUE /\ board'[n].seen = board[n].seen
    BY <1>2, <1>6
  <2>2. /\ wronged'[n] = wronged[n]
        /\ settling'[n] = settling[n] \/ settling'[n] = Nothing
    BY <1>6, PolledValues
  <2>3. Known(n)'
    BY <1>0, <2>1, <2>2, LocalTypes DEF still, Own, Known
  <2>4. SettlesOnce(n)' /\ Uncounted(n)'
    BY <1>0, <2>1, <2>2, LocalTypes DEF still, Own, SettlesOnce, Uncounted
  <2> QED BY <1>0, <1>3, <2>1, <2>2, <2>3, <2>4 DEF Own, Sent
<1> QED BY <1>4, <1>5, <1>6 DEF PollRead

LEMMA WriteOwn ==
  ASSUME ClipTypes, NEW n \in Machines, Write(n), Own(n), Sent(n),
         Clean => incoming[n] \notin Secrets
  PROVE  Own(n)' /\ Sent(n)'
<1>0. /\ poll'[n] = poll[n] /\ poll[n] = "idle" /\ raced'[n] = raced[n] /\ (Clean' <=> Clean)
      /\ reading'[n] = reading[n]
      /\ incoming[n] \in Text /\ incoming[n] # NoText /\ TaskTypes
      /\ wronged'[n] \cap {"echo", "unshared", "secret"} = wronged[n] \cap {"echo", "unshared", "secret"}
  <2>1. incoming[n] \in Text /\ TaskTypes
    BY DEF ClipTypes, InTransit, Text
  <2>2. wronged' = wronged \/ wronged' = [wronged EXCEPT ![n] = wronged[n] \cup {"landed"}]
    BY DEF Write
  <2>3. wronged'[n] = wronged[n] \/ wronged'[n] = wronged[n] \cup {"landed"}
    BY <2>1, <2>2 DEF TaskTypes
  <2> QED BY <2>1, <2>3 DEF Write, Clean
<1>1. Sent(n)'
  BY <1>0 DEF Sent
<1>2. CASE UNCHANGED <<board, counter, last, settling>>
  BY <1>0, <1>1, <1>2 DEF Own, Known, SettlesOnce, Uncounted, KeptSecret
<1>3. CASE Lands(n, Copy(incoming[n], "peer")) /\ last' = [last EXCEPT ![n] = incoming[n]]
  <2>1. /\ board'[n] = Copy(incoming[n], "peer") /\ settling'[n].text = settling[n].text
    BY <1>0, <1>3, CopyTypes, LandsTypes
  <2>2. /\ board'[n].text = incoming[n] /\ board'[n].by = "peer"
        /\ ~board'[n].secret /\ ~board'[n].marked /\ ~board'[n].seen
        /\ ~board'[n].passed /\ ~board'[n].missed
    BY <1>0, <2>1, CopyTypes
  <2>3. last'[n] = incoming[n]
    BY <1>0, <1>3 DEF TaskTypes
  <2>4. Known(n)' /\ SettlesOnce(n)'
    BY <1>0, <2>2, <2>3 DEF Known, SettlesOnce
  <2>5. Uncounted(n)' /\ KeptSecret(n)'
    BY <1>0, <2>1, <2>2 DEF Own, Uncounted, KeptSecret
  <2> QED BY <1>1, <2>4, <2>5 DEF Own
<1> QED BY <1>2, <1>3 DEF Write

LEMMA AppCopiesOwn ==
  ASSUME ClipTypes, NEW n \in Machines, NEW t \in Copies[n] \cup {NoText}, AppCopies(n, t),
         Own(n), Sent(n), Clean' => Clean
  PROVE  Own(n)' /\ Sent(n)'
<1>0. /\ poll'[n] = poll[n] /\ wronged'[n] = wronged[n] /\ t \in Text /\ TaskTypes
      /\ raced' = IF poll[n] = "clear" /\ n \notin Counted
                  THEN [raced EXCEPT ![n] = Upto2(raced[n])] ELSE raced
  BY AppCopiesIs DEF ClipTypes
<1>1. PICK marked \in BOOLEAN :
        /\ marked => t \in Secrets
        /\ t \in Secrets /\ n \notin Counted => marked
        /\ Lands(n, AppCopy(t, marked))
  BY AppCopiesIs
<1>2. AppCopy(t, marked) \in CopyOnBoard
  BY <1>0, AppCopyFacts
<1>3. /\ board'[n] = AppCopy(t, marked) /\ settling'[n].text = settling[n].text
      /\ settling'[n].moved <=> settling[n].text # NoText
  BY <1>0, <1>1, <1>2, LandsTypes
<1>4. /\ board'[n].text = t /\ board'[n].by = "app"
      /\ (board'[n].secret <=> t \in Secrets) /\ (board'[n].marked <=> marked)
      /\ ~board'[n].seen /\ ~board'[n].passed /\ ~board'[n].missed
  BY <1>0, <1>3, AppCopyFacts
<1>5. Known(n)'
  BY <1>1, <1>4 DEF Known
<1>6. SettlesOnce(n)' /\ KeptSecret(n)'
  BY <1>3, <1>4 DEF SettlesOnce, KeptSecret
<1>7. Uncounted(n)'
  <2>1. /\ raced[n] \in 0..2 /\ raced \in [Machines -> 0..2]
    BY <1>0 DEF TaskTypes
  <2>2. n \notin Counted /\ poll[n] = "clear" => raced'[n] = IF raced[n] < 2 THEN raced[n] + 1 ELSE 2
    BY <1>0, <2>1 DEF Upto2
  <2>3. n \notin Counted /\ poll[n] # "clear" => raced'[n] = raced[n]
    BY <1>0
  <2> QED BY <1>0, <1>1, <1>3, <1>4, <2>1, <2>2, <2>3 DEF Own, Uncounted
<1>8. Sent(n)'
  BY <1>0 DEF Sent
<1> QED BY <1>5, <1>6, <1>7, <1>8 DEF Own

LEMMA AppMarksOwn ==
  ASSUME ClipTypes, NEW n \in Machines, AppMarks(n), Own(n), Sent(n)
  PROVE  Own(n)' /\ Sent(n)'
<1>0. /\ board' = [board EXCEPT ![n] = [board[n] EXCEPT !.marked = TRUE]]
      /\ board[n].secret /\ ~board[n].marked
      /\ UNCHANGED <<counter, poll, last, reading, settling, wronged, raced>>
  BY DEF AppMarks, taskVars
<1>1. TaskTypes /\ board[n] \in CopyOnBoard /\ (Clean' <=> Clean)
  BY <1>0 DEF ClipTypes, TaskTypes, Clean
<1>2. board'[n] = [board[n] EXCEPT !.marked = TRUE]
  BY <1>0, <1>1, FieldTypes, BoardTypes
<1>3. /\ board'[n].text = board[n].text /\ board'[n].by = board[n].by
      /\ board'[n].secret = board[n].secret /\ board'[n].seen = board[n].seen
      /\ board'[n].missed = board[n].missed /\ board'[n].passed = board[n].passed
      /\ board'[n].marked = TRUE
  BY <1>1, <1>2, FieldValues
<1>4. n \in Counted
  BY <1>0 DEF Own, Uncounted
<1>5. Known(n)' /\ SettlesOnce(n)'
  BY <1>0, <1>1, <1>3, LocalTypes DEF Own, Known, SettlesOnce
<1>6. Uncounted(n)' /\ KeptSecret(n)' /\ Sent(n)'
  BY <1>0, <1>1, <1>3, <1>4 DEF Own, Uncounted, KeptSecret, Sent
<1> QED BY <1>5, <1>6 DEF Own

\* Until an uncounted copy has raced twice, no secret is on its way anywhere.
Secretless == Clean => InTransit(Texts \ Secrets)

OwnInv == Secretless /\ \A m \in Machines : Own(m) /\ Sent(m)

LEMMA OwnOthers ==
  ASSUME OwnInv, Clean' => Clean, NEW n \in Machines, OthersSame(n), Own(n)' /\ Sent(n)', Secretless'
  PROVE  OwnInv'
<1>1. ASSUME NEW m \in Machines PROVE Own(m)' /\ Sent(m)'
  <2>1. CASE m = n
    BY <2>1
  <2>2. CASE m # n
    BY <2>2, OwnSame DEF OwnInv, OthersSame
  <2> QED BY <2>1, <2>2
<1> QED BY <1>1 DEF OwnInv

LEMMA PollSecretless ==
  ASSUME TaskTypes, Secretless, NEW n \in Machines, Poll(n), Own(n)
  PROVE  Secretless' /\ (Clean' <=> Clean)
<1>1. UNCHANGED <<wire, inbox, incoming, raced>>
  BY PollLeaves
<1>2. Clean' <=> Clean
  BY <1>1 DEF Clean
<1>3. CASE UNCHANGED changed
  BY <1>1, <1>2, <1>3 DEF Secretless, InTransit
<1>4. CASE /\ poll[n] = "clear" /\ ~(n \in Counted /\ counter[n] = "moved")
           /\ reading[n] /\ board[n].text # NoText
           /\ last[n] # board[n].text /\ Sends(n, board[n].text)
           /\ changed' = [changed EXCEPT ![n] = Append(changed[n], board[n].text)]
  <2>1. SUFFICES ASSUME Clean PROVE InTransit(Texts \ Secrets)'
    BY <1>2 DEF Secretless
  <2>2. InTransit(Texts \ Secrets)
    BY <2>1 DEF Secretless
  <2>3. board[n].text \in Texts \ Secrets
    BY <1>4, <2>1, SendIsRight, LocalTypes DEF Text
  <2>4. changed \in [Machines -> Seq(Texts \ Secrets)] /\ changed[n] \in Seq(Texts \ Secrets)
    BY <2>2 DEF InTransit
  <2>5. Append(changed[n], board[n].text) \in Seq(Texts \ Secrets)
    BY <2>3, <2>4, QueueFacts
  <2>6. changed' \in [Machines -> Seq(Texts \ Secrets)]
    BY <1>4, <2>4, <2>5
  <2> QED BY <1>1, <2>2, <2>6 DEF InTransit
<1> QED BY <1>2, <1>3, <1>4, PollLeaves

LEMMA OwnStep ==
  ASSUME ClipTypes, OwnInv, [ClipNext]_clipVars
  PROVE  OwnInv'
<1>0. TaskTypes /\ Secretless
  BY DEF ClipTypes, OwnInv
<1>1. ASSUME UNCHANGED raced PROVE Clean' <=> Clean
  BY <1>1 DEF Clean
<1>2. CASE UNCHANGED clipVars
  <2>1. UNCHANGED <<board, counter, poll, last, reading, settling, changed, wire, inbox, incoming,
                    wronged, raced>>
    BY <1>2 DEF clipVars, taskVars, netVars
  <2>2. Secretless'
    BY <1>0, <1>1, <2>1 DEF Secretless, InTransit
  <2>3. \A m \in Machines : LocalSame(m)
    BY <2>1 DEF LocalSame
  <2> QED BY <1>1, <2>1, <2>2, <2>3, OwnSame DEF OwnInv
<1>3. ASSUME NEW n \in Machines, Poll(n) PROVE OwnInv'
  <2>1. Secretless' /\ (Clean' <=> Clean) /\ OthersSame(n)
    BY <1>0, <1>3, PollSecretless, PollTypes DEF OwnInv
  <2>2. Own(n)' /\ Sent(n)'
    BY <1>0, <1>3, PollUnwantedOwn, PollLookOwn, PollReadOwn DEF OwnInv, Poll
  <2> QED BY <2>1, <2>2, OwnOthers
<1>4. ASSUME NEW n \in Machines, Write(n) PROVE OwnInv'
  <2>1. Clean' <=> Clean
    BY <1>1, <1>4 DEF Write
  <2>2. Secretless'
    BY <1>0, <1>4, <2>1, WriteCarries DEF Secretless
  <2>3. Clean => incoming[n] \notin Secrets
    BY <1>0, ClipboardAssumption DEF Secretless, InTransit
  <2>4. Own(n)' /\ Sent(n)' /\ OthersSame(n)
    BY <1>4, <2>3, WriteOwn, WriteTypes DEF OwnInv
  <2> QED BY <2>1, <2>2, <2>4, OwnOthers
<1>5. ASSUME NEW n \in Machines, Carries(n) PROVE OwnInv'
  <2>1. \A m \in Machines : LocalSame(m)
    BY <1>5, CarriesTypes
  <2>2. Clean' <=> Clean
    BY <2>1 DEF LocalSame, Clean
  <2>3. Secretless'
    <3> SUFFICES ASSUME Clean PROVE InTransit(Texts \ Secrets)'
      BY <2>2 DEF Secretless
    <3>1. InTransit(Texts \ Secrets)
      BY <1>0 DEF Secretless
    <3> QED BY <1>5, <3>1, BroadcastCarries, TakeCarries, StreamCarries DEF Carries
  <2> QED BY <2>1, <2>2, <2>3, OwnSame DEF OwnInv
<1>6. ASSUME NEW n \in Machines, AppMarks(n) PROVE OwnInv'
  <2>1. UNCHANGED <<changed, wire, inbox, incoming, raced>>
    BY <1>6 DEF AppMarks, taskVars, netVars
  <2>2. Secretless' /\ (Clean' <=> Clean)
    BY <1>0, <1>1, <2>1 DEF Secretless, InTransit
  <2>3. Own(n)' /\ Sent(n)' /\ OthersSame(n)
    BY <1>6, AppMarksOwn, AppMarksTypes DEF OwnInv
  <2> QED BY <2>2, <2>3, OwnOthers
<1>7. ASSUME NEW n \in Machines, NEW t \in Copies[n] \cup {NoText}, AppCopies(n, t) PROVE OwnInv'
  <2>1. UNCHANGED <<changed, wire, inbox, incoming>>
    BY <1>7, AppCopiesIs
  <2>2. Clean' => Clean
    <3>1. TaskTypes' /\ \A m \in Machines : raced'[m] >= raced[m]
      BY <1>7, AppCopiesTypes DEF ClipTypes
    <3> QED BY <1>0, <3>1, CleanBefore
  <2>3. Secretless'
    BY <1>0, <2>1, <2>2 DEF Secretless, InTransit
  <2>4. Own(n)' /\ Sent(n)' /\ OthersSame(n)
    BY <1>7, <2>2, AppCopiesOwn, AppCopiesTypes DEF OwnInv
  <2> QED BY <2>2, <2>3, <2>4, OwnOthers
<1>8. ASSUME NEW n \in Machines, NEW p \in Policies[n], SetPolicy(n, p) PROVE OwnInv'
  <2>1. UNCHANGED <<changed, wire, inbox, incoming, raced>>
    BY <1>8 DEF SetPolicy, taskVars, netVars
  <2>2. Secretless' /\ (Clean' <=> Clean)
    BY <1>0, <1>1, <2>1 DEF Secretless, InTransit
  <2>3. \A m \in Machines : LocalSame(m)
    BY <1>8, SetPolicyTypes
  <2> QED BY <2>2, <2>3, OwnSame DEF OwnInv
<1>9. CASE ClipNext
  BY <1>3, <1>4, <1>5, <1>6, <1>7, <1>8, <1>9, ClipNextIs
<1> QED BY <1>2, <1>9

LEMMA OwnInit ==
  ASSUME ClipInit
  PROVE  OwnInv
<1>1. /\ board = [m \in Machines |-> Copy(NoText, "app")]
      /\ poll = [m \in Machines |-> "idle"] /\ settling = [m \in Machines |-> Nothing]
      /\ changed = [m \in Machines |-> <<>>] /\ wire = [m \in Machines |-> <<>>]
      /\ inbox = [m \in Machines |-> <<>>] /\ incoming = [m \in Machines |-> NoText]
      /\ wronged = [m \in Machines |-> {}]
  BY DEF ClipInit
<1>2. Secretless
  BY <1>1 DEF Secretless, InTransit
<1>3. ASSUME NEW m \in Machines PROVE Own(m) /\ Sent(m)
  <2>1. /\ board[m] = Copy(NoText, "app") /\ poll[m] = "idle" /\ settling[m] = Nothing
        /\ wronged[m] = {}
    BY <1>1
  <2>2. NoText \in Text /\ NoText \notin Secrets /\ settling[m].text = NoText
    BY <2>1, ClipboardAssumption DEF Text, Nothing
  <2>3. /\ board[m].text = NoText /\ board[m].by = "app" /\ ~board[m].secret /\ ~board[m].marked
        /\ ~board[m].passed
    BY <2>1, <2>2, CopyTypes
  <2> QED BY <2>1, <2>2, <2>3 DEF Own, Sent, Known, SettlesOnce, Uncounted, KeptSecret
<1> QED BY <1>2, <1>3 DEF OwnInv

\* However polls, copies, marks, writes and transfers interleave, and whatever
\* fails, a machine sends only ordinary copies of its own apps, made while its
\* clipboard was shared (Clipboard::spawn); of the two machines at most one does
\* not count copies (X11).
THEOREM OnlyOwnCopiesAreSent ==
  ASSUME \A m, n \in Machines \ Counted : m = n
  PROVE  ClipSpec => []SendsOnlyItsOwn
<1>1. ClipInit => OwnInv
  BY OwnInit
<1>2. ClipTypes /\ OwnInv /\ [ClipNext]_clipVars => OwnInv'
  BY OwnStep
<1>3. ClipTypes /\ OwnInv => SendsOnlyItsOwn
  <2> SUFFICES ASSUME ClipTypes, OwnInv, NEW m \in Machines
               PROVE  /\ wronged[m] \cap {"echo", "unshared"} = {}
                      /\ "secret" \in wronged[m] => m \notin Counted /\ raced[m] = 2
    BY DEF SendsOnlyItsOwn
  <2>1. Sent(m) /\ \A n \in Machines : raced[n] \in 0..2
    BY DEF OwnInv, ClipTypes, TaskTypes
  <2>2. m \notin Counted /\ ~Clean => raced[m] = 2
    BY <2>1 DEF Clean
  <2> QED BY <2>1, <2>2 DEF Sent
<1> QED BY <1>1, <1>2, <1>3, ClipTyped, PTL DEF ClipSpec

----------------------------------------------------------------------------
(* The prompt gate: the window a prompt belongs to *)

\* How the gate's instants lie: the window was opened since, and no later than,
\* it was last opened; a prompt held was admitted at an instant past, and one
\* admitted at this very instant finds the window still open, since a window
\* closes only with the clock.
InstantsInOrder ==
  /\ openSince <= opened /\ opened <= now /\ now # Never
  /\ opened # Never => openSince # Never
  /\ lapsed \subseteq Raised
  /\ \A fp \in Raised :
       held[fp].at # Never /\ held[fp].at <= now /\ (held[fp].at = now => Open)

\* The inductive invariant.
GateInv ==
  /\ GateTypeOK
  /\ InstantsInOrder
  /\ ApprovableWhileItsWindowLasts
  /\ GrantsInItsWindow

\* A pruned table is a table of the same type.
LEMMA PrunedType ==
  ASSUME NEW D, NEW R, NEW table \in [D -> R], NEW none \in R, NEW w
  PROVE  Pruned(table, none, w) \in [D -> R]
<1>1. DOMAIN table = D
  OBVIOUS
<1>2. [k \in D |-> IF Within(table[k].at, w) THEN table[k] ELSE none] \in [D -> R]
  OBVIOUS
<1>3. [k \in D |-> none] \in [D -> R]
  OBVIOUS
<1> QED
  BY <1>1, <1>2, <1>3 DEF Pruned

\* Expiring keeps the prompts still approvable, and no other.
LEMMA ExpiredPrompts ==
  ASSUME GateInv
  PROVE  /\ Expired \in [Fingerprints -> [at : Nat, from : Origins]]
         /\ \A fp \in Fingerprints :
              Expired[fp] # NoPrompt =>
                /\ Expired[fp] = held[fp] /\ fp \in Raised \ lapsed
                /\ OpenThroughout(held[fp].at)
<1>1. NoPrompt \in [at : Nat, from : Origins]
  BY DEF NoPrompt, Never, Origins
<1>2. Expired \in [Fingerprints -> [at : Nat, from : Origins]]
  BY <1>1 DEF Expired, GateInv, GateTypeOK
<1>3. ASSUME NEW fp \in Fingerprints, Expired[fp] # NoPrompt
      PROVE  /\ Expired[fp] = held[fp] /\ fp \in Raised \ lapsed
             /\ OpenThroughout(held[fp].at)
  BY <1>3 DEF Expired, Raised, GateInv, ApprovableWhileItsWindowLasts
<1> QED
  BY <1>2, <1>3

\* Every step keeps the types.
LEMMA TypeStep ==
  ASSUME GateInv, [Next]_vars
  PROVE  GateTypeOK'
<1> USE GateAssumption
<1>a. GateTypeOK
  BY DEF GateInv
<1>n. /\ NoPrompt \in [at : Nat, from : Origins]
      /\ NotSeen \in [at : Nat]
      /\ NoSource \in [at : Nat, by : Fingerprints \cup {"nobody"}]
  BY DEF NoPrompt, NotSeen, NoSource, Never, Origins
<1>1. ASSUME NEW fp \in Fingerprints, NEW from \in Origins, Prompt(fp, from)
      PROVE  GateTypeOK'
  <2>1. RecentPruned \in [Fingerprints -> [at : Nat]]
    BY <1>a, <1>n, PrunedType DEF RecentPruned, GateTypeOK
  <2>2. Pruned(sources, NoSource, SourceWindow)
          \in [Sources -> [at : Nat, by : Fingerprints \cup {"nobody"}]]
    BY <1>a, <1>n, PrunedType DEF GateTypeOK
  <2>3. held' \in [Fingerprints -> [at : Nat, from : Origins]]
    <3>1. [at |-> now, from |-> from] \in [at : Nat, from : Origins]
      BY <1>a DEF GateTypeOK
    <3> QED
      BY <1>1, <1>n, <3>1, ExpiredPrompts DEF Prompt, Hold
  <2> HIDE DEF RecentPruned, Pruned, NoSource
  <2>4. recent' \in [Fingerprints -> [at : Nat]]
    BY <1>1, <1>a, <2>1 DEF Prompt, GateTypeOK
  <2>5. sources' \in [Sources -> [at : Nat, by : Fingerprints \cup {"nobody"}]]
    BY <1>1, <1>a, <2>2 DEF Prompt, GateTypeOK, Origins
  <2>6. asked' \in [Sources -> [at : Nat, by : Fingerprints \cup {"nobody"}]]
    BY <1>1, <1>a DEF Prompt, GateTypeOK, Origins
  <2> QED
    BY <1>1, <1>a, <2>3, <2>4, <2>5, <2>6 DEF Prompt, GateTypeOK, trustVars
<1>2. ASSUME NEW fp \in Fingerprints, NEW from \in Origins, HoldBack(fp, from)
      PROVE  GateTypeOK'
  <2>1. RecentPruned \in [Fingerprints -> [at : Nat]]
    BY <1>a, <1>n, PrunedType DEF RecentPruned, GateTypeOK
  <2> QED
    BY <1>2, <1>a, <2>1 DEF HoldBack, GateTypeOK, trustVars
<1>3. CASE OpenPairing
  BY <1>3, <1>a DEF OpenPairing, GateTypeOK, trustVars, histVars
<1>4. ASSUME NEW fp \in Fingerprints, Approve(fp)
      PROVE  GateTypeOK'
  <2> HIDE DEF Expired, NoPrompt
  <2>1. held' \in [Fingerprints -> [at : Nat, from : Origins]]
    BY <1>4, <1>n, ExpiredPrompts DEF Approve
  <2> QED
    BY <1>4, <1>a, <2>1 DEF Approve, GateTypeOK, gateVars
<1>5. CASE Attach
  BY <1>5, <1>a, ExpiredPrompts DEF Attach, GateTypeOK, gateVars, trustVars, histVars
<1>6. ASSUME NEW fp \in Fingerprints, ForgetDevice(fp)
      PROVE  GateTypeOK'
  BY <1>6, <1>a, <1>n DEF ForgetDevice, GateTypeOK, gateVars, histVars
<1>7. ASSUME NEW fp \in Fingerprints, Settle(fp)
      PROVE  GateTypeOK'
  BY <1>7, <1>a DEF Settle, GateTypeOK, gateVars, histVars
<1>8. CASE Tick
  BY <1>8, <1>a DEF Tick, GateTypeOK, gateVars, trustVars, histVars, Raised
<1>9. CASE UNCHANGED vars
  BY <1>9, <1>a DEF vars, GateTypeOK, gateVars, trustVars, histVars
<1> QED
  BY <1>1, <1>2, <1>3, <1>4, <1>5, <1>6, <1>7, <1>8, <1>9 DEF Next

\* Every step keeps the instants in order, the prompts of a window approvable
\* exactly while it lasts, and the grants within their windows.
LEMMA WindowStep ==
  ASSUME GateInv, [Next]_vars
  PROVE  InstantsInOrder' /\ ApprovableWhileItsWindowLasts' /\ GrantsInItsWindow'
<1> USE GateAssumption
<1> DEFINE Goal == InstantsInOrder /\ ApprovableWhileItsWindowLasts /\ GrantsInItsWindow
<1>t. /\ now \in Nat /\ opened \in Nat /\ openSince \in Nat
      /\ held \in [Fingerprints -> [at : Nat, from : Origins]]
      /\ lapsed \subseteq Raised /\ Raised \subseteq Fingerprints
  BY DEF GateInv, GateTypeOK, InstantsInOrder, Raised
<1>i. InstantsInOrder /\ ApprovableWhileItsWindowLasts /\ GrantsInItsWindow
  BY DEF GateInv
\* Steps that leave the clock and the window alone, and of the prompts keep only
\* approvable ones or add one admitted now in an open window.
<1>k. ASSUME UNCHANGED <<now, opened, openSince, late>>,
             NEW F \in SUBSET Fingerprints,
             held' \in [Fingerprints -> [at : Nat, from : Origins]],
             \A f \in Fingerprints \ F :
               \/ held'[f] = NoPrompt
               \/ held'[f] = held[f] /\ (f \in lapsed' <=> f \in lapsed),
             \A f \in F : Open /\ held'[f].at = now /\ f \notin lapsed',
             lapsed' \subseteq Raised'
      PROVE  Goal'
  <2>1. Open' <=> Open
    BY <1>k DEF Open, Within
  <2>2. ASSUME NEW f \in Raised'
        PROVE  /\ held'[f].at # Never /\ held'[f].at <= now
               /\ held'[f].at = now => Open
               /\ OpenThroughout(held[f].at)' <=> f \notin lapsed'
    <3>1. f \in Fingerprints /\ held'[f] # NoPrompt
      BY <2>2 DEF Raised
    <3>2. CASE f \in F
      BY <1>k, <1>t, <1>i, <2>1, <3>2 DEF InstantsInOrder, OpenThroughout
    <3>3. CASE f \notin F
      <4>1. held'[f] = held[f] /\ f \in Raised /\ (f \in lapsed' <=> f \in lapsed)
        BY <1>k, <3>1, <3>3 DEF Raised
      <4> QED
        BY <1>k, <1>i, <2>1, <4>1
           DEF InstantsInOrder, ApprovableWhileItsWindowLasts, OpenThroughout
    <3> QED
      BY <3>2, <3>3
  <2> QED
    BY <1>k, <1>i, <2>1, <2>2
       DEF InstantsInOrder, ApprovableWhileItsWindowLasts, GrantsInItsWindow
<1>1. ASSUME NEW fp \in Fingerprints, NEW from \in Origins, Prompt(fp, from)
      PROVE  Goal'
  <2>1. held' \in [Fingerprints -> [at : Nat, from : Origins]]
    BY <1>1, TypeStep DEF GateTypeOK, Next
  <2>2. ASSUME NEW f \in Fingerprints \ {fp}
        PROVE  \/ held'[f] = NoPrompt
               \/ held'[f] = held[f] /\ (f \in lapsed' <=> f \in lapsed)
    <3>1. held'[f] = NoPrompt \/ held'[f] = Expired[f]
      BY <1>1 DEF Prompt, Hold
    <3> QED
      BY <1>1, <3>1, ExpiredPrompts DEF Prompt
  <2>3. held'[fp] = [at |-> now, from |-> from]
    BY <1>1 DEF Prompt, Hold
  <2>4. lapsed' \subseteq Raised'
    BY <1>1 DEF Prompt, Raised
  <2>5. \A f \in {fp} : Open /\ held'[f].at = now /\ f \notin lapsed'
    BY <1>1, <2>3 DEF Prompt
  <2>6. UNCHANGED <<now, opened, openSince, late>>
    BY <1>1 DEF Prompt
  <2>7. {fp} \in SUBSET Fingerprints
    OBVIOUS
  <2> HIDE DEF Goal
  <2> QED
    BY <1>k, <2>1, <2>2, <2>4, <2>5, <2>6, <2>7
<1>2. ASSUME NEW fp \in Fingerprints, NEW from \in Origins, HoldBack(fp, from)
      PROVE  Goal'
  BY <1>2, <1>i DEF HoldBack, InstantsInOrder, ApprovableWhileItsWindowLasts,
                    GrantsInItsWindow, Raised, OpenThroughout, Open, Within
<1>3. ASSUME OpenPairing
      PROVE  Goal'
  <2>1. Open'
    BY <1>3, <1>t, <1>i DEF OpenPairing, Open, Within, InstantsInOrder
  <2>2. openSince' <= opened' /\ opened' <= now' /\ now' # Never /\ openSince' # Never
    BY <1>3, <1>t, <1>i DEF OpenPairing, Open, Within, InstantsInOrder
  <2>3. Raised' = Raised
    BY <1>3 DEF OpenPairing, Raised
  <2>4. ASSUME NEW f \in Raised
        PROVE  OpenThroughout(held[f].at)' <=> f \notin lapsed
    <3>1. held[f].at \in Nat
      BY <1>t
    <3>2. CASE Open
      BY <1>3, <1>i, <2>1, <3>2
         DEF OpenPairing, OpenThroughout, ApprovableWhileItsWindowLasts
    <3>3. CASE ~Open
      <4>1. f \in lapsed
        BY <1>i, <3>3 DEF ApprovableWhileItsWindowLasts, OpenThroughout
      <4>2. held[f].at <= now /\ held[f].at # now
        BY <1>i, <3>3 DEF InstantsInOrder
      <4> QED
        BY <1>3, <1>t, <3>1, <3>3, <4>1, <4>2 DEF OpenPairing, OpenThroughout
    <3> QED
      BY <3>2, <3>3
  <2> QED
    BY <1>3, <1>i, <2>1, <2>2, <2>3, <2>4
       DEF OpenPairing, InstantsInOrder, ApprovableWhileItsWindowLasts,
           GrantsInItsWindow, histVars
<1>4. ASSUME NEW fp \in Fingerprints, Approve(fp)
      PROVE  Goal'
  <2>1. held' \in [Fingerprints -> [at : Nat, from : Origins]]
    BY <1>4, TypeStep DEF GateTypeOK, Next
  <2>2. ASSUME NEW f \in Fingerprints
        PROVE  \/ held'[f] = NoPrompt
               \/ held'[f] = held[f] /\ (f \in lapsed' <=> f \in lapsed)
    <3>1. held'[f] = NoPrompt \/ held'[f] = Expired[f]
      BY <1>4, ExpiredPrompts DEF Approve
    <3> QED
      BY <1>4, <3>1, ExpiredPrompts DEF Approve
  <2>3. UNCHANGED late
    BY <1>4, ExpiredPrompts DEF Approve, Taken
  <2>4. lapsed' \subseteq Raised'
    BY <1>4 DEF Approve, Raised
  <2>5. {} \in SUBSET Fingerprints
    OBVIOUS
  <2> HIDE DEF Goal
  <2> QED
    BY <1>4, <1>k, <2>1, <2>2, <2>3, <2>4, <2>5 DEF Approve, gateVars
<1>5. ASSUME Attach
      PROVE  Goal'
  <2>1. held' \in [Fingerprints -> [at : Nat, from : Origins]]
    BY <1>5, TypeStep DEF GateTypeOK, Next
  <2>2. ASSUME NEW f \in Fingerprints
        PROVE  \/ held'[f] = NoPrompt
               \/ held'[f] = held[f] /\ (f \in lapsed' <=> f \in lapsed)
    BY <1>5, ExpiredPrompts DEF Attach
  <2>4. lapsed' \subseteq Raised'
    BY <1>5 DEF Attach, Raised
  <2>5. {} \in SUBSET Fingerprints
    OBVIOUS
  <2> HIDE DEF Goal
  <2> QED
    BY <1>5, <1>k, <2>1, <2>2, <2>4, <2>5 DEF Attach, gateVars, histVars
<1>6. ASSUME NEW fp \in Fingerprints, ForgetDevice(fp)
      PROVE  Goal'
  <2>1. held' \in [Fingerprints -> [at : Nat, from : Origins]]
    BY <1>6, TypeStep DEF GateTypeOK, Next
  <2>2. ASSUME NEW f \in Fingerprints
        PROVE  \/ held'[f] = NoPrompt
               \/ held'[f] = held[f] /\ (f \in lapsed' <=> f \in lapsed)
    BY <1>6, <1>t DEF ForgetDevice
  <2>4. lapsed' \subseteq Raised'
    BY <1>6, <1>t DEF ForgetDevice, Raised
  <2>5. {} \in SUBSET Fingerprints
    OBVIOUS
  <2> HIDE DEF Goal
  <2> QED
    BY <1>6, <1>k, <2>1, <2>2, <2>4, <2>5 DEF ForgetDevice, gateVars, histVars
<1>7. ASSUME NEW fp \in Fingerprints, Settle(fp)
      PROVE  Goal'
  BY <1>7, <1>i DEF Settle, InstantsInOrder, ApprovableWhileItsWindowLasts, gateVars,
                    histVars, GrantsInItsWindow, Raised, OpenThroughout, Open, Within
<1>8. ASSUME Tick
      PROVE  Goal'
  <2>1. now' \in Nat /\ now < now' /\ Raised' = Raised
    BY <1>8, <1>t DEF Tick, Raised
  <2>2. CASE Open'
    <3>1. Open /\ lapsed' = lapsed
      BY <1>8, <1>t, <2>1, <2>2 DEF Tick, Open, Within, gateVars
    <3>2. ASSUME NEW f \in Raised
          PROVE  held[f].at \in Nat /\ held[f].at <= now /\ held[f].at # Never
      BY <1>t, <1>i DEF InstantsInOrder
    <3>3. UNCHANGED <<opened, openSince, held, late>>
      BY <1>8 DEF Tick, gateVars, histVars
    <3>4. InstantsInOrder'
      BY <1>t, <1>i, <2>1, <2>2, <3>1, <3>2, <3>3 DEF InstantsInOrder, Never
    <3>5. ASSUME NEW f \in Raised
          PROVE  OpenThroughout(held[f].at)' <=> f \notin lapsed'
      BY <1>i, <2>2, <3>1, <3>3 DEF ApprovableWhileItsWindowLasts, OpenThroughout
    <3> QED
      BY <1>i, <2>1, <3>3, <3>4, <3>5 DEF ApprovableWhileItsWindowLasts, GrantsInItsWindow
  <2>3. CASE ~Open'
    <3>1. lapsed' = Raised
      BY <1>8, <1>t, <2>3 DEF Tick, Open, Within, gateVars
    <3>2. ASSUME NEW f \in Raised
          PROVE  held[f].at \in Nat /\ held[f].at <= now /\ held[f].at # Never
      BY <1>t, <1>i DEF InstantsInOrder
    <3> QED
      BY <1>8, <1>t, <1>i, <2>1, <2>3, <3>1, <3>2
         DEF Tick, InstantsInOrder, ApprovableWhileItsWindowLasts, GrantsInItsWindow,
             OpenThroughout, gateVars, histVars, Never
  <2> QED
    BY <2>2, <2>3
<1>9. ASSUME UNCHANGED vars
      PROVE  Goal'
  BY <1>9, <1>i DEF vars, InstantsInOrder, ApprovableWhileItsWindowLasts, gateVars,
                    histVars, GrantsInItsWindow, Raised, OpenThroughout, Open, Within
<1>10. Goal'
  <2> HIDE DEF Goal
  <2> QED
    BY <1>1, <1>2, <1>3, <1>4, <1>5, <1>6, <1>7, <1>8, <1>9 DEF Next
<1> QED
  BY <1>10

\* Whatever knocks, opens, is approved or lapses, the gate's invariant holds.
THEOREM GateInvariant == Spec => []GateInv
<1>1. Init => GateInv
  BY GateAssumption
     DEF Init, GateInv, GateTypeOK, InstantsInOrder, ApprovableWhileItsWindowLasts,
         GrantsInItsWindow, Raised, NoPrompt, NotSeen, NoSource, Never, Origins
<1>2. GateInv /\ [Next]_vars => GateInv'
  BY TypeStep, WindowStep DEF GateInv
<1> QED
  BY <1>1, <1>2, PTL DEF Spec

\* A prompt may be approved exactly while the window that admitted it has not
\* closed since (open, open_throughout, #107).
THEOREM PromptsLapseWithTheirWindow == Spec => []ApprovableWhileItsWindowLasts
<1>1. GateInv => ApprovableWhileItsWindowLasts
  BY DEF GateInv
<1> QED
  BY <1>1, GateInvariant, PTL

\* No approval is ever given on a prompt whose window has closed
\* (PendingAttempts::take, add_authorized_key).
THEOREM GrantsStayInTheirWindow == Spec => []GrantsInItsWindow
<1>1. GateInv => GrantsInItsWindow
  BY DEF GateInv
<1> QED
  BY <1>1, GateInvariant, PTL

\* What the table of prompts remembers of a machine is its last prompt, and
\* nobody has been held back without one.
RepeatsRemembered ==
  /\ \A fp \in Fingerprints : recent[fp].at # Never => recent[fp].at = prompted[fp]
  /\ NeverStarved

\* A pruned table keeps an entry or drops it.
LEMMA PrunedEntries ==
  ASSUME NEW D, NEW R, NEW table \in [D -> R], NEW none, NEW w, NEW k \in D
  PROVE  Pruned(table, none, w)[k] \in {table[k], none}
<1> QED
  BY DEF Pruned

\* Every step keeps what the table of prompts remembers.
LEMMA RepeatStep ==
  ASSUME GateInv, RepeatsRemembered, [Next]_vars
  PROVE  RepeatsRemembered'
<1> USE GateAssumption
<1>t. /\ now \in Nat /\ recent \in [Fingerprints -> [at : Nat]]
      /\ prompted \in [Fingerprints -> Nat]
  BY DEF GateInv, GateTypeOK
<1>p. ASSUME NEW fp \in Fingerprints
      PROVE  /\ RecentPruned[fp].at # Never => RecentPruned[fp].at = prompted[fp]
             /\ RecentPruned \in [Fingerprints -> [at : Nat]]
  <2>1. NotSeen \in [at : Nat] /\ NotSeen.at = Never
    BY DEF NotSeen, Never
  <2>2. RecentPruned[fp] \in {recent[fp], NotSeen}
    BY <1>t, PrunedEntries DEF RecentPruned
  <2>3. RecentPruned \in [Fingerprints -> [at : Nat]]
    BY <1>t, <2>1, PrunedType DEF RecentPruned
  <2> QED
    BY <2>1, <2>2, <2>3 DEF RepeatsRemembered
<1>1. ASSUME NEW fp \in Fingerprints, NEW from \in Origins, Prompt(fp, from)
      PROVE  RepeatsRemembered'
  <2>1. UNCHANGED starved
    BY <1>1 DEF Prompt
  <2>2. recent' = [RecentPruned EXCEPT ![fp] = [at |-> now]]
    BY <1>1 DEF Prompt
  <2>3. prompted' = [prompted EXCEPT ![fp] = now]
    BY <1>1 DEF Prompt
  <2> HIDE DEF RecentPruned
  <2> QED
    BY <1>t, <1>p, <2>1, <2>2, <2>3 DEF RepeatsRemembered, NeverStarved
<1>2. ASSUME NEW fp \in Fingerprints, NEW from \in Origins, HoldBack(fp, from)
      PROVE  RepeatsRemembered'
  <2>1. Within(prompted[fp], RepeatWindow)
    BY <1>2, <1>p DEF HoldBack, Repeat, Within
  <2>2. UNCHANGED <<starved, prompted>> /\ recent' = RecentPruned
    BY <1>2, <2>1 DEF HoldBack
  <2> QED
    BY <1>p, <2>2 DEF RepeatsRemembered, NeverStarved
<1>3. ASSUME UNCHANGED <<recent, prompted, starved>>
      PROVE  RepeatsRemembered'
  BY <1>3 DEF RepeatsRemembered, NeverStarved
<1> QED
  BY <1>1, <1>2, <1>3
     DEF Next, OpenPairing, Approve, Attach, ForgetDevice, Settle, Tick, vars, gateVars, histVars

\* A machine is held back as a repeat only while a prompt for it is fresh,
\* whatever the table of prompts has dropped (RecentPrompts::seen_recently).
THEOREM RepeatsHaveAPrompt == Spec => []NeverStarved
<1>1. Init => RepeatsRemembered
  BY DEF Init, RepeatsRemembered, NeverStarved, NotSeen, Never
<1>2. GateInv /\ RepeatsRemembered /\ [Next]_vars => RepeatsRemembered'
  BY RepeatStep
<1>3. RepeatsRemembered => NeverStarved
  BY DEF RepeatsRemembered
<1> QED
  BY <1>1, <1>2, <1>3, GateInvariant, PTL DEF Spec

\* The addresses that prompted within the source window.
FreshSources == {s \in Sources : Within(sources[s].at, SourceWindow)}

\* They are fewer than PRUNE_AT, so that RecentSources never has to forget one
\* of them (RecentSources::record).
FewSources == IsFiniteSet(FreshSources) /\ Cardinality(FreshSources) < PruneAt

\* What the table of addresses remembers of one is its last prompt, and that is
\* forgotten only once it is a source window old.
SourcesRemembered ==
  \A s \in Sources :
    /\ sources[s] \in {asked[s], NoSource}
    /\ Within(asked[s].at, SourceWindow) => sources[s] = asked[s]
    /\ asked[s].at = Never => asked[s].by = "nobody"

\* Prompts for two machines at one address come a source window apart: what
\* OnePromptPerAddress says of a step.
SourcesApart ==
  \A s \in Sources :
    asked'[s] # asked[s] =>
      \/ asked[s].by \in {asked'[s].by, "nobody"}
      \/ now - asked[s].at >= SourceWindow

\* While fewer addresses than PRUNE_AT prompted within the window, pruning the
\* table of addresses drops none of those.
LEMMA PrunedSources ==
  ASSUME FewSources, sources \in [Sources -> [at : Nat, by : Fingerprints \cup {"nobody"}]]
  PROVE  \A s \in Sources : Within(sources[s].at, SourceWindow) =>
           Pruned(sources, NoSource, SourceWindow)[s] = sources[s]
<1> DEFINE full(t) == Cardinality({k \in DOMAIN t : t[k] # NoSource}) >= PruneAt
           kept == [k \in DOMAIN sources |->
                      IF Within(sources[k].at, SourceWindow) THEN sources[k] ELSE NoSource]
           none == [k \in DOMAIN sources |-> NoSource]
           left == {k \in DOMAIN kept : kept[k] # NoSource}
<1>1. DOMAIN sources = Sources
  OBVIOUS
<1>2. Pruned(sources, NoSource, SourceWindow) =
        IF ~full(sources) THEN sources ELSE IF ~full(kept) THEN kept ELSE none
  BY DEF Pruned
<1>3. \A s \in Sources : Within(sources[s].at, SourceWindow) => kept[s] = sources[s]
  BY <1>1
<1>4. \A s \in Sources : Within(sources[s].at, SourceWindow) => sources[s] # NoSource
  BY DEF Within, NoSource
<1>5. left = FreshSources
  BY <1>1, <1>4 DEF FreshSources
<1>6. ~full(kept)
  <2>1. Cardinality(FreshSources) \in Nat
    BY FS_CardinalityType DEF FewSources
  <2>2. full(kept) <=> Cardinality(left) >= PruneAt
    OBVIOUS
  <2> HIDE DEF left, full
  <2> QED
    BY <1>5, <2>1, <2>2, GateAssumption DEF FewSources
<1> HIDE DEF kept, none, full
<1> QED
  BY <1>2, <1>3, <1>6

\* A prompt keeps what the table of addresses remembers, and comes a source
\* window after one for another machine at its address.
LEMMA PromptSourceStep ==
  ASSUME GateInv, SourcesRemembered, FewSources,
         NEW fp \in Fingerprints, NEW from \in Origins, Prompt(fp, from)
  PROVE  SourcesRemembered' /\ SourcesApart
<1> USE GateAssumption
<1> DEFINE Row == [at : Nat, by : Fingerprints \cup {"nobody"}]
           pruned == Pruned(sources, NoSource, SourceWindow)
<1>t. /\ now \in Nat /\ now # Never
      /\ sources \in [Sources -> Row] /\ asked \in [Sources -> Row]
  BY DEF GateInv, GateTypeOK, InstantsInOrder
<1>n. NoSource \in Row /\ NoSource.at = Never
  BY DEF NoSource, Never
<1>3. ASSUME NEW s \in Sources
      PROVE  /\ pruned[s] \in {sources[s], NoSource}
             /\ Within(sources[s].at, SourceWindow) => pruned[s] = sources[s]
  BY <1>t, PrunedEntries, PrunedSources
<1>4. pruned \in [Sources -> Row]
  BY <1>t, <1>n, PrunedType
<1>5. CASE from = "dial"
  BY <1>5 DEF Prompt, SourcesRemembered, SourcesApart, Within
<1>6. CASE from # "dial"
  <2> HIDE DEF pruned
  <2>1. /\ from \in Sources /\ UNCHANGED now
        /\ sources' = [pruned EXCEPT ![from] = [at |-> now, by |-> fp]]
        /\ asked' = [asked EXCEPT ![from] = [at |-> now, by |-> fp]]
        /\ sources[from].by = fp \/ ~Within(sources[from].at, SourceWindow)
    BY <1>6 DEF Prompt, TakenByAnother, Origins, pruned
  <2>2. ASSUME NEW s \in Sources, s # from
        PROVE  /\ asked'[s] = asked[s] /\ sources'[s] = pruned[s]
    BY <1>t, <1>4, <2>1, <2>2
  <2>3. asked'[from] = [at |-> now, by |-> fp] /\ sources'[from] = [at |-> now, by |-> fp]
    BY <1>t, <1>4, <2>1
  <2>4. SourcesRemembered'
    <3> SUFFICES ASSUME NEW s \in Sources
                 PROVE  /\ sources'[s] \in {asked'[s], NoSource}
                        /\ Within(asked[s].at, SourceWindow)' => sources'[s] = asked'[s]
                        /\ asked'[s].at = Never => asked'[s].by = "nobody"
      BY DEF SourcesRemembered, NoSource
    <3>1. CASE s = from
      BY <1>t, <2>3, <3>1
    <3>2. CASE s # from
      <4>1. Within(asked[s].at, SourceWindow)' <=> Within(asked[s].at, SourceWindow)
        BY <2>1, <2>2, <3>2 DEF Within
      <4> QED
        BY <1>3, <2>2, <3>2, <4>1 DEF SourcesRemembered
    <3> QED
      BY <3>1, <3>2
  <2>5. SourcesApart
    <3>1. /\ asked[from].at = Never => asked[from].by = "nobody"
          /\ Within(asked[from].at, SourceWindow) => sources[from] = asked[from]
          /\ asked[from].at \in Nat
      BY <1>t, <2>1 DEF SourcesRemembered
    <3>2. CASE Within(asked[from].at, SourceWindow)
      <4>1. asked[from].by = fp
        BY <2>1, <3>1, <3>2
      <4> QED
        BY <2>2, <2>3, <4>1 DEF SourcesApart
    <3>3. CASE ~Within(asked[from].at, SourceWindow)
      <4>1. asked[from].by = "nobody" \/ now - asked[from].at >= SourceWindow
        BY <1>t, <3>1, <3>3 DEF Within
      <4> QED
        BY <2>2, <4>1 DEF SourcesApart
    <3> QED
      BY <3>2, <3>3
  <2> QED
    BY <2>4, <2>5
<1> QED
  BY <1>5, <1>6

\* So does every step; the others leave the table alone, and the clock only
\* makes what it remembers older.
LEMMA SourceStep ==
  ASSUME GateInv, SourcesRemembered, FewSources, [Next]_vars
  PROVE  SourcesRemembered' /\ SourcesApart
<1> USE GateAssumption
<1>1. ASSUME NEW fp \in Fingerprints, NEW from \in Origins, Prompt(fp, from)
      PROVE  SourcesRemembered' /\ SourcesApart
  BY <1>1, PromptSourceStep
<1>2. ASSUME UNCHANGED <<now, sources, asked>>
      PROVE  SourcesRemembered' /\ SourcesApart
  BY <1>2 DEF SourcesRemembered, SourcesApart, Within
<1>3. CASE Tick
  <2>1. now \in Nat /\ now' = now + 1 /\ UNCHANGED <<sources, asked>>
    BY <1>3 DEF Tick, GateInv, GateTypeOK, gateVars, histVars
  <2>2. ASSUME NEW s \in Sources, Within(asked[s].at, SourceWindow)'
        PROVE  Within(asked[s].at, SourceWindow)
    <3>1. asked[s].at \in Nat
      BY DEF GateInv, GateTypeOK
    <3> QED
      BY <2>1, <2>2, <3>1 DEF Within
  <2> QED
    BY <2>1, <2>2 DEF SourcesRemembered, SourcesApart
<1> QED
  BY <1>1, <1>2, <1>3
     DEF Next, OpenPairing, HoldBack, Approve, Attach, ForgetDevice, Settle, vars, gateVars, histVars

\* However many addresses knock, prompts for two machines at one of them come a
\* source window apart, as long as fewer than PRUNE_AT of them prompted within
\* the window at any one time (admit, RecentSources, #101).
THEOREM PromptsPerAddressApart == Spec /\ []FewSources => OnePromptPerAddress
<1>1. Init => SourcesRemembered
  BY DEF Init, SourcesRemembered, NoSource, Never
<1>2. GateInv /\ SourcesRemembered /\ FewSources /\ [Next]_vars
        => SourcesRemembered' /\ [SourcesApart]_vars
  BY SourceStep
<1>3. OnePromptPerAddress <=> [][SourcesApart]_vars
  BY DEF OnePromptPerAddress, SourcesApart
<1> QED
  BY <1>1, <1>2, <1>3, GateInvariant, PTL DEF Spec

\* In particular when there are fewer addresses than PRUNE_AT.
COROLLARY FewAddressesSuffice ==
  ASSUME IsFiniteSet(Sources), Cardinality(Sources) < PruneAt
  PROVE  Spec => OnePromptPerAddress
<1>1. GateInv => FewSources
  <2> SUFFICES ASSUME GateInv
               PROVE  FewSources
    OBVIOUS
  <2>1. FreshSources \subseteq Sources
    BY DEF FreshSources
  <2>2. /\ IsFiniteSet(FreshSources) /\ Cardinality(FreshSources) <= Cardinality(Sources)
        /\ Cardinality(FreshSources) \in Nat /\ Cardinality(Sources) \in Nat
    BY <2>1, FS_Subset, FS_CardinalityType
  <2> QED
    BY <2>2, GateAssumption DEF FewSources
<1> QED
  BY <1>1, GateInvariant, PromptsPerAddressApart, PTL
====
