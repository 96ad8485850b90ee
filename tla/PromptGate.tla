---- MODULE PromptGate ----
(***************************************************************************)
(* When a pairing prompt may appear and for how long it may be approved    *)
(* (src/src/prompt_gate.rs, service/pending.rs and the service's handlers  *)
(* for a connection attempt, add device, an approval and a frontend that   *)
(* attaches).  Time is the monotonic clock, in ticks; instants are told    *)
(* apart to the tick, so several steps may share one.                      *)
(*                                                                         *)
(* The counters that only thin out log lines (Tally, AdmittedLog) and the  *)
(* wording of notices are left out.                                        *)
(***************************************************************************)
EXTENDS Naturals, FiniteSets

CONSTANTS
  Fingerprints,   \* the machines that may knock or be dialled
  Sources,        \* the addresses they knock from, an IPv6 one by its /64
  Window,         \* PromptGate::WINDOW
  SourceWindow,   \* RecentSources::WINDOW
  RepeatWindow,   \* RecentPrompts::WINDOW
  PruneAt,        \* the tables' PRUNE_AT
  MaxPending,     \* MAX_PENDING_ATTEMPTS
  MaxTime         \* bound on the clock

ASSUME GateAssumption ==
  /\ Window \in Nat \ {0} /\ SourceWindow \in Nat /\ RepeatWindow \in Nat
  /\ PruneAt \in Nat \ {0} /\ MaxPending \in Nat \ {0} /\ MaxTime \in Nat
  /\ "dial" \notin Sources /\ "nobody" \notin Fingerprints

\* The instant of what has not happened: the clock starts after it.
Never == 0
Origins == Sources \cup {"dial"}  \* a knock's address, or this machine's own dial
NoPrompt == [at |-> Never, from |-> "dial"]
NoSource == [at |-> Never, by |-> "nobody"]

VARIABLES
  now,        \* pairing_now
  opened,     \* PromptGate.opened
  openSince,  \* PromptGate.open_since
  recent,     \* RecentPrompts.seen: when each machine last raised a prompt
  sources,    \* RecentSources.seen: who each address last prompted for, when
  held,       \* PendingAttempts.held: the prompts raised and not answered
  pairing,    \* the machines approved here and waiting for their number
  paired,     \* the machines paired
  lapsed,     \* history: machines whose held prompt outlived its window
  prompted,   \* history: when each machine was last prompted for
  asked,      \* history: who was last prompted for from each address, when
  starved,    \* history: machines held back as repeats with no prompt to show
  late        \* history: machines granted from a prompt that had lapsed

gateVars == <<opened, openSince, recent, sources>>
trustVars == <<pairing, paired>>
histVars == <<prompted, asked, starved, late>>
vars == <<now, gateVars, held, trustVars, lapsed, histVars>>

----------------------------------------------------------------------------
(* The gate *)

\* Whether an instant is less than w ago.
Within(at, w) == at # Never /\ now - at < w

\* remaining: the window is open.
Open == Within(opened, Window)

\* open_throughout, of an instant of admission.
OpenThroughout(at) == Open /\ at >= openSince

Raised == {fp \in Fingerprints : held[fp] # NoPrompt}

\* expire: what is left of the held prompts.
Expired == [fp \in Fingerprints |->
              IF OpenThroughout(held[fp].at) THEN held[fp] ELSE NoPrompt]

\* A table at its limit drops what is outside its window, and everything if
\* that is not enough.
Pruned(table, none, w) ==
  LET full(t) == Cardinality({k \in DOMAIN t : t[k] # none}) >= PruneAt
      kept == [k \in DOMAIN table |-> IF Within(table[k].at, w) THEN table[k] ELSE none]
  IN IF ~full(table) THEN table
     ELSE IF ~full(kept) THEN kept
     ELSE [k \in DOMAIN table |-> none]

NotSeen == [at |-> Never]
RecentPruned == Pruned(recent, NotSeen, RepeatWindow)

\* Mutant of TakenByAnother: the wrong window.
TakenBriefly(from, fp) ==
  /\ from # "dial"
  /\ sources[from].by # fp /\ Within(sources[from].at, RepeatWindow)

TakenByAnother(from, fp) ==
  /\ from # "dial"
  /\ sources[from].by # fp /\ Within(sources[from].at, SourceWindow)

Repeat(fp) == Within(RecentPruned[fp].at, RepeatWindow)

\* PendingAttempts::hold.
Hold(fp, from) ==
  LET live == Expired
      full == Cardinality({f \in Fingerprints : live[f] # NoPrompt}) >= MaxPending
  IN held' = [f \in Fingerprints |->
                IF f = fp THEN [at |-> now, from |-> from]
                ELSE IF full THEN NoPrompt ELSE live[f]]

----------------------------------------------------------------------------
(* What the service handles *)

\* raise_connection_attempt, admitted: Admit::Prompt.
Prompt(fp, from) ==
  /\ fp \notin pairing
  /\ Open /\ ~TakenByAnother(from, fp) /\ ~Repeat(fp)
  /\ recent' = [RecentPruned EXCEPT ![fp] = [at |-> now]]
  /\ sources' = IF from = "dial" THEN sources
                ELSE [Pruned(sources, NoSource, SourceWindow)
                        EXCEPT ![from] = [at |-> now, by |-> fp]]
  /\ Hold(fp, from)
  /\ lapsed' = lapsed \cap {f \in Fingerprints : held'[f] # NoPrompt /\ f # fp}
  /\ prompted' = [prompted EXCEPT ![fp] = now]
  /\ asked' = IF from = "dial" THEN asked ELSE [asked EXCEPT ![from] = [at |-> now, by |-> fp]]
  /\ UNCHANGED <<now, opened, openSince, trustVars, starved, late>>

\* Mutant of HoldBack: every knock counts as a prompt.
HoldBackAnew(fp, from) ==
  /\ fp \notin pairing
  /\ Open /\ ~TakenByAnother(from, fp) /\ Repeat(fp)
  /\ recent' = [RecentPruned EXCEPT ![fp] = [at |-> now]]
  /\ starved' = IF Within(prompted[fp], RepeatWindow) THEN starved ELSE starved \cup {fp}
  /\ UNCHANGED <<now, opened, openSince, sources, held, trustVars, lapsed, prompted, asked, late>>

\* raise_connection_attempt, held back as a repeat: Admit::Repeat.  Only the
\* pruning of the table stays.
HoldBack(fp, from) ==
  /\ fp \notin pairing
  /\ Open /\ ~TakenByAnother(from, fp) /\ Repeat(fp)
  /\ recent' = RecentPruned
  /\ starved' = IF Within(prompted[fp], RepeatWindow) THEN starved ELSE starved \cup {fp}
  /\ UNCHANGED <<now, opened, openSince, sources, held, trustVars, lapsed, prompted, asked, late>>

\* Mutants of OpenPairing: a window that starts anew each time, and one that
\* starts in the past.
OpenPairingAnew ==
  /\ openSince' = now /\ opened' = now
  /\ UNCHANGED <<now, recent, sources, held, trustVars, lapsed, histVars>>
\* FrontendRequest::OpenPairing.
OpenPairing ==
  /\ openSince' = IF Open THEN openSince ELSE now
  /\ opened' = now
  /\ UNCHANGED <<now, recent, sources, held, trustVars, lapsed, histVars>>

\* Mutant of Taken: nothing lapses before it is looked up.
TakenLate(fp) == held[fp]

\* PendingAttempts::take: what is found, once what lapsed is forgotten.
Taken(fp) == Expired[fp]

\* add_authorized_key: a grant only from a prompt its window still allows.  A
\* machine already paired stays so.
Approve(fp) ==
  /\ held' = [Expired EXCEPT ![fp] = NoPrompt]
  /\ pairing' = IF Taken(fp) # NoPrompt /\ fp \notin paired THEN pairing \cup {fp} ELSE pairing
  /\ late' = IF Taken(fp) # NoPrompt /\ fp \in lapsed THEN late \cup {fp} ELSE late
  /\ lapsed' = lapsed \cap {f \in Fingerprints : held'[f] # NoPrompt}
  /\ UNCHANGED <<now, gateVars, paired, prompted, asked, starved>>

\* replay_pending_attempts, for a frontend that attaches.
Attach ==
  /\ held' = Expired
  /\ lapsed' = lapsed \cap {f \in Fingerprints : held'[f] # NoPrompt}
  /\ UNCHANGED <<now, gateVars, trustVars, histVars>>

\* remove_authorized_key: nothing of a removed device is kept.
ForgetDevice(fp) ==
  /\ held' = [held EXCEPT ![fp] = NoPrompt]
  /\ pairing' = pairing \ {fp}
  /\ paired' = paired \ {fp}
  /\ lapsed' = lapsed \ {fp}
  /\ UNCHANGED <<now, gateVars, histVars>>

\* settle_pairing and forget_pairing: it waits for its number no longer.
Settle(fp) ==
  /\ fp \in pairing
  /\ pairing' = pairing \ {fp}
  /\ \/ paired' = paired \cup {fp}
     \/ UNCHANGED paired
  /\ UNCHANGED <<now, gateVars, held, lapsed, histVars>>

\* A tick of the clock.  A window that is closed then closed on every prompt
\* held.
Tick ==
  /\ now < MaxTime
  /\ now' = now + 1
  /\ lapsed' = IF opened # Never /\ now + 1 - opened < Window THEN lapsed ELSE Raised
  /\ UNCHANGED <<gateVars, held, trustVars, histVars>>

----------------------------------------------------------------------------

Init ==
  /\ now = 1 /\ opened = Never /\ openSince = Never
  /\ recent = [fp \in Fingerprints |-> NotSeen]
  /\ sources = [s \in Sources |-> NoSource]
  /\ held = [fp \in Fingerprints |-> NoPrompt]
  /\ pairing = {} /\ paired = {} /\ lapsed = {} /\ starved = {} /\ late = {}
  /\ prompted = [fp \in Fingerprints |-> Never]
  /\ asked = [s \in Sources |-> NoSource]

Next ==
  \/ OpenPairing \/ Attach \/ Tick
  \/ \E fp \in Fingerprints :
       \/ Approve(fp) \/ ForgetDevice(fp) \/ Settle(fp)
       \/ \E from \in Origins : Prompt(fp, from) \/ HoldBack(fp, from)

Spec == Init /\ [][Next]_vars

----------------------------------------------------------------------------
(* Correctness *)

\* The gate's tables hold what their Rust types say (PromptGate, RecentPrompts,
\* RecentSources, PendingAttempts); an instant is never before the clock's start.
GateTypeOK ==
  /\ now \in Nat /\ opened \in Nat /\ openSince \in Nat
  /\ recent \in [Fingerprints -> [at : Nat]]
  /\ sources \in [Sources -> [at : Nat, by : Fingerprints \cup {"nobody"}]]
  /\ held \in [Fingerprints -> [at : Nat, from : Origins]]
  /\ pairing \subseteq Fingerprints /\ lapsed \subseteq Fingerprints
  /\ paired \subseteq Fingerprints /\ starved \subseteq Fingerprints
  /\ late \subseteq Fingerprints
  /\ prompted \in [Fingerprints -> Nat]
  /\ asked \in [Sources -> [at : Nat, by : Fingerprints \cup {"nobody"}]]

\* A prompt may be approved exactly while the window that admitted it has not
\* closed since: opening add device again keeps every prompt of a window still
\* open and brings back none of one that closed (open, open_throughout, #107).
ApprovableWhileItsWindowLasts ==
  \A fp \in Raised : OpenThroughout(held[fp].at) <=> fp \notin lapsed

\* No approval is ever given on a prompt whose window has closed, however late
\* the request for it comes and whatever was opened since
\* (PendingAttempts::take, add_authorized_key).
GrantsInItsWindow == late = {}

\* Prompts for two machines at one address come a source window apart,
\* whatever else prompted between them, while fewer addresses than PRUNE_AT
\* knock (admit, RecentSources, #101).
OnePromptPerAddress ==
  [][\A s \in Sources :
       asked'[s] # asked[s] =>
         \/ asked[s].by \in {asked'[s].by, "nobody"}
         \/ now - asked[s].at >= SourceWindow]_vars

\* A machine is held back as a repeat only while a prompt for it is fresh: one
\* that goes on knocking is asked about again (RecentPrompts::seen_recently).
NeverStarved == starved = {}

====
