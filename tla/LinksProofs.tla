---- MODULE LinksProofs ----
(***************************************************************************)
(* The links between two machines, for any number of links, edits and      *)
(* faults: a pairing that is gone leaves no link, and once nothing is      *)
(* being made each side keeps the same one.                                *)
(***************************************************************************)
EXTENDS Links, TLAPS

----------------------------------------------------------------------------
(* One link *)

LinkRec == [by : Machines,
            c : {"none", "dial", "landed", "queued", "checked", "up", "over"},
            d : {"none", "dial", "waiting", "checked", "listed", "over"},
            shut : SUBSET Machines, why : Machines \cup {"no", "ended"},
            stray : SUBSET Machines]

\* What Up and Listed say, of the link's record.
UpRec(r) == r.c = "up" /\ "C" \notin r.shut
ListedRec(r) == r.d = "listed" /\ "D" \notin r.shut

\* An end that is done with a link knows that it ended.
OverIsShut(r) ==
  /\ r.c = "over" => "C" \in r.shut
  /\ r.d = "over" => "D" \in r.shut

\* A record s that may follow the record r in a step that lists the link at
\* neither end.
Tidy(r, s) ==
  /\ s \in LinkRec
  /\ OverIsShut(s)
  /\ UpRec(s) => UpRec(r) /\ s.by = r.by /\ r.stray \subseteq s.stray
  /\ ListedRec(s) => ListedRec(r) /\ r.stray \subseteq s.stray

\* A link that is not in being is listed nowhere.
LEMMA FreeIsTidy == \A r : Tidy(r, Free)
BY DEF Free, Tidy, LinkRec, OverIsShut, UpRec, ListedRec, Machines

\* Closing a link at one end keeps what it is.
LEMMA ShutFields ==
  ASSUME NEW r \in LinkRec, NEW m \in Machines, NEW why \in Machines \cup {"ended"}
  PROVE  /\ Shut(r, m, why) \in LinkRec
         /\ Shut(r, m, why).by = r.by /\ Shut(r, m, why).stray = r.stray
         /\ Shut(r, m, why).c = r.c /\ Shut(r, m, why).d = r.d
         /\ Shut(r, m, why).shut = r.shut \cup {m}
<1>1. CASE m \in r.shut
  BY <1>1 DEF Shut, LinkRec
<1>2. CASE m \notin r.shut
  <2> DEFINE s == [r EXCEPT !.shut = r.shut \cup {m},
                            !.why = IF r.shut = {} THEN why ELSE "ended"]
  <2>1. Shut(r, m, why) = s
    BY <1>2 DEF Shut
  <2>2. /\ s \in LinkRec /\ s.by = r.by /\ s.stray = r.stray /\ s.c = r.c /\ s.d = r.d
        /\ s.shut = r.shut \cup {m}
    BY DEF LinkRec
  <2> QED BY <2>1, <2>2
<1> QED BY <1>1, <1>2

\* So does the end of the task at one end, which closes it there.
LEMMA OverFields ==
  ASSUME NEW r \in LinkRec, NEW m \in Machines, NEW why \in Machines \cup {"ended"}
  PROVE  /\ Over(r, m, why) \in LinkRec
         /\ Over(r, m, why).by = r.by /\ Over(r, m, why).stray = r.stray
         /\ Over(r, m, why).c = (IF m = "C" THEN "over" ELSE r.c)
         /\ Over(r, m, why).d = (IF m = "C" THEN r.d ELSE "over")
         /\ Over(r, m, why).shut = r.shut \cup {m}
<1> DEFINE s == Shut(r, m, why)
<1>1. /\ s \in LinkRec /\ s.by = r.by /\ s.stray = r.stray /\ s.c = r.c /\ s.d = r.d
      /\ s.shut = r.shut \cup {m}
  BY ShutFields
<1>2. Over(r, m, why) = IF m = "C" THEN [s EXCEPT !.c = "over"] ELSE [s EXCEPT !.d = "over"]
  BY DEF Over
<1> HIDE DEF s
<1> QED BY <1>1, <1>2 DEF LinkRec

\* Both are tidy.
LEMMA ShutIsTidy ==
  ASSUME NEW r \in LinkRec, OverIsShut(r), NEW m \in Machines, NEW why \in Machines \cup {"ended"}
  PROVE  Tidy(r, Shut(r, m, why)) /\ Tidy(r, Over(r, m, why))
<1>1. Tidy(r, Shut(r, m, why))
  <2> DEFINE s == Shut(r, m, why)
  <2>1. /\ s \in LinkRec /\ s.by = r.by /\ s.stray = r.stray /\ s.c = r.c /\ s.d = r.d
        /\ s.shut = r.shut \cup {m}
    BY ShutFields
  <2> HIDE DEF s
  <2>2. Tidy(r, s)
    BY <2>1 DEF Tidy, OverIsShut, UpRec, ListedRec
  <2> QED BY <2>2 DEF s
<1>2. Tidy(r, Over(r, m, why))
  <2> DEFINE s == Over(r, m, why)
  <2>1. /\ s \in LinkRec /\ s.by = r.by /\ s.stray = r.stray
        /\ s.c = (IF m = "C" THEN "over" ELSE r.c)
        /\ s.d = (IF m = "C" THEN r.d ELSE "over")
        /\ s.shut = r.shut \cup {m}
    BY OverFields
  <2> HIDE DEF s
  <2>2. Tidy(r, s)
    BY <2>1 DEF Tidy, OverIsShut, UpRec, ListedRec, Machines
  <2> QED BY <2>2 DEF s
<1> QED BY <1>1, <1>2

\* A link as it is: no step, or a task that goes on to another wait.
LEMMA StepIsTidy ==
  ASSUME NEW r \in LinkRec, OverIsShut(r)
  PROVE  /\ Tidy(r, r)
         /\ \A x \in {"landed", "queued", "checked"} : Tidy(r, [r EXCEPT !.c = x])
         /\ \A x \in {"waiting", "checked"} : Tidy(r, [r EXCEPT !.d = x])
<1>1. Tidy(r, r)
  BY DEF Tidy
<1>2. ASSUME NEW x \in {"landed", "queued", "checked"} PROVE Tidy(r, [r EXCEPT !.c = x])
  <2> DEFINE s == [r EXCEPT !.c = x]
  <2>1. s \in LinkRec /\ s.c = x /\ s.d = r.d /\ s.shut = r.shut /\ s.stray = r.stray
    BY DEF LinkRec
  <2> HIDE DEF s
  <2>2. Tidy(r, s)
    BY <2>1 DEF Tidy, OverIsShut, UpRec, ListedRec
  <2> QED BY <2>2 DEF s
<1>3. ASSUME NEW x \in {"waiting", "checked"} PROVE Tidy(r, [r EXCEPT !.d = x])
  <2> DEFINE s == [r EXCEPT !.d = x]
  <2>1. /\ s \in LinkRec /\ s.d = x /\ s.c = r.c /\ s.shut = r.shut /\ s.stray = r.stray
        /\ s.by = r.by
    BY DEF LinkRec
  <2> HIDE DEF s
  <2>2. Tidy(r, s)
    BY <2>1 DEF Tidy, OverIsShut, UpRec, ListedRec
  <2> QED BY <2>2 DEF s
<1> QED BY <1>1, <1>2, <1>3

\* A link an end learns the end of.
LEMMA LearnsIsTidy ==
  ASSUME NEW r \in LinkRec, OverIsShut(r), NEW ms \in SUBSET Machines, r.shut \subseteq ms
  PROVE  /\ Tidy(r, [r EXCEPT !.shut = ms])
         /\ Tidy(r, [r EXCEPT !.shut = ms, !.why = "ended"])
<1>1. ASSUME NEW s \in LinkRec, s.c = r.c, s.d = r.d, s.shut = ms, s.stray = r.stray, s.by = r.by
      PROVE  Tidy(r, s)
  BY <1>1 DEF Tidy, OverIsShut, UpRec, ListedRec
<1> DEFINE s == [r EXCEPT !.shut = ms]
           t == [r EXCEPT !.shut = ms, !.why = "ended"]
<1>2. s \in LinkRec /\ s.c = r.c /\ s.d = r.d /\ s.shut = ms /\ s.stray = r.stray /\ s.by = r.by
  BY DEF LinkRec
<1>3. t \in LinkRec /\ t.c = r.c /\ t.d = r.d /\ t.shut = ms /\ t.stray = r.stray /\ t.by = r.by
  BY DEF LinkRec
<1> HIDE DEF s, t
<1>4. Tidy(r, s) /\ Tidy(r, t)
  BY <1>1, <1>2, <1>3
<1> QED BY <1>4 DEF s, t

\* A link marked stray at an end.
LEMMA StrayIsTidy ==
  ASSUME NEW r \in LinkRec, OverIsShut(r)
  PROVE  /\ Tidy(r, [r EXCEPT !.stray = r.stray \cup {"C"}])
         /\ "C" \in [r EXCEPT !.stray = r.stray \cup {"C"}].stray
<1> DEFINE s == [r EXCEPT !.stray = r.stray \cup {"C"}]
<1>1. /\ s \in LinkRec /\ s.c = r.c /\ s.d = r.d /\ s.shut = r.shut /\ s.by = r.by
      /\ s.stray = r.stray \cup {"C"}
  BY DEF LinkRec, Machines
<1> HIDE DEF s
<1>2. Tidy(r, s) /\ "C" \in s.stray
  BY <1>1 DEF Tidy, OverIsShut, UpRec, ListedRec
<1> QED BY <1>2 DEF s

\* Freeing what both ends are done with changes nothing a link is asked for.
LEMMA SettledIsTidy ==
  ASSUME NEW f, NEW k \in Ids, NEW r, Tidy(r, f[k])
  PROVE  /\ Tidy(r, Settled(f)[k])
         /\ Settled(f)[k] = f[k] \/ (~UpRec(Settled(f)[k]) /\ ~ListedRec(Settled(f)[k]))
<1>1. Settled(f)[k] = Free \/ Settled(f)[k] = f[k]
  BY DEF Settled
<1>2. ~UpRec(Free) /\ ~ListedRec(Free)
  BY DEF Free, UpRec, ListedRec
<1> QED BY <1>1, <1>2, FreeIsTidy

\* A record s that follows r as the end `m' lists the link.
Lists(r, s, m, intime) ==
  /\ s \in LinkRec /\ s.by = r.by /\ s.shut = r.shut
  /\ s.stray = (IF intime THEN r.stray ELSE r.stray \cup {m})
  /\ s.c = (IF m = "C" THEN "up" ELSE r.c)
  /\ s.d = (IF m = "C" THEN r.d ELSE "listed")

LEMMA ListingLists ==
  ASSUME NEW r \in LinkRec, NEW m \in Machines, NEW intime \in BOOLEAN
  PROVE  Lists(r, Listing(r, m, intime), m, intime)
<1> DEFINE stray == IF intime THEN r.stray ELSE r.stray \cup {m}
<1>1. stray \in SUBSET Machines
  BY DEF LinkRec
<1>2. Listing(r, m, intime) = IF m = "C" THEN [r EXCEPT !.c = "up", !.stray = stray]
                              ELSE [r EXCEPT !.d = "listed", !.stray = stray]
  BY DEF Listing
<1> HIDE DEF stray
<1>3. CASE m = "C"
  BY <1>1, <1>2, <1>3 DEF LinkRec, Lists, stray
<1>4. CASE m # "C"
  BY <1>1, <1>2, <1>4 DEF LinkRec, Lists, stray
<1> QED BY <1>3, <1>4

----------------------------------------------------------------------------
(* The invariant *)

LinksType ==
  /\ link \in [Ids -> LinkRec] /\ \A l \in Ids : OverIsShut(link[l])
  /\ conns \in [Addrs -> {0} \cup Ids] /\ active \in Addrs \cup {NoAddr}
  /\ device \in [Machines -> {"on", "off", "none"}]
  /\ knows \subseteq Machines /\ cut \subseteq Machines /\ closing \in BOOLEAN

\* A link up at C in time is the one the device shows, is in the map at its
\* address and is the only one up there: what closes the device's links, or
\* takes another, finds it.
OneUp ==
  \A k \in Ids :
    (UpRec(link[k]) /\ "C" \notin link[k].stray) =>
      /\ active = Addr(k) /\ conns[Addr(k)] = k
      /\ \A j \in Ids : UpRec(link[j]) => j = k

\* Every link up at C, or listed at D, is a stray one.
StrayUp == \A l \in Ids : UpRec(link[l]) => "C" \in link[l].stray
StrayListed == \A l \in Ids : ListedRec(link[l]) => "D" \in link[l].stray

\* CutLeavesNoLink, of the records.
CutLeavesStrays ==
  /\ "C" \notin knows \cup cut => StrayUp
  /\ "D" \notin knows \cup cut => StrayListed
  /\ (~Switched("C") /\ ~closing /\ "C" \notin cut) => StrayUp

LinksInv == LinksType /\ OneUp /\ CutLeavesStrays

\* A step that lists no link.
AllTidy ==
  /\ link' = [k \in Ids |-> link'[k]]
  /\ \A k \in Ids : Tidy(link[k], link'[k])

\* What a step may do to the map and to the device's address while a link is
\* up in time: nothing.
KeepsShown ==
  \A k \in Ids : (UpRec(link'[k]) /\ "C" \notin link'[k].stray) =>
    active' = active /\ conns'[Addr(k)] = conns[Addr(k)]

OthersType ==
  /\ conns' \in [Addrs -> {0} \cup Ids] /\ active' \in Addrs \cup {NoAddr}
  /\ device' \in [Machines -> {"on", "off", "none"}]
  /\ knows' \subseteq Machines /\ cut' \subseteq Machines /\ closing' \in BOOLEAN

\* A pairing goes, or a switch is turned, only with its task to run, and a
\* task ends only with the links it is for.
CutsLater ==
  /\ "C" \notin knows' \cup cut' => ("C" \notin knows \cup cut \/ StrayUp')
  /\ "D" \notin knows' \cup cut' => ("D" \notin knows \cup cut \/ StrayListed')
  /\ (~Switched("C")' /\ ~closing' /\ "C" \notin cut') =>
       ((~Switched("C") /\ ~closing /\ "C" \notin cut) \/ StrayUp')

\* Strays stay strays in such a step.
LEMMA TidyKeepsStrays ==
  ASSUME AllTidy
  PROVE  (StrayUp => StrayUp') /\ (StrayListed => StrayListed')
BY DEF AllTidy, Tidy, StrayUp, StrayListed

\* The address of a link is its own or the listener's.
LEMMA AddrType == \A k \in Ids : Addr(k) \in Addrs /\ Addr(k) # NoAddr
<1> SUFFICES ASSUME NEW k \in Ids PROVE Addr(k) \in Addrs /\ Addr(k) # NoAddr
  OBVIOUS
<1>1. Addr(k) = 0 \/ Addr(k) = k
  BY DEF Addr, Listener
<1> QED BY <1>1, LinksAssumption DEF Addrs, Listener, NoAddr, Ids

\* It keeps the invariant.
LEMMA TidyInv ==
  ASSUME LinksInv, AllTidy, KeepsShown, OthersType, CutsLater
  PROVE  LinksInv'
<1>1. LinksType'
  <2>1. link' \in [Ids -> LinkRec] /\ \A l \in Ids : OverIsShut(link'[l])
    BY DEF AllTidy, Tidy
  <2> QED BY <2>1 DEF LinksType, OthersType
<1>2. OneUp'
  <2> SUFFICES ASSUME NEW k \in Ids, UpRec(link'[k]), "C" \notin link'[k].stray
               PROVE  /\ active' = Addr(k)' /\ conns'[Addr(k)'] = k
                      /\ \A j \in Ids : UpRec(link'[j]) => j = k
    BY DEF OneUp
  <2>1. UpRec(link[k]) /\ "C" \notin link[k].stray /\ link'[k].by = link[k].by
    BY DEF AllTidy, Tidy
  <2>2. active = Addr(k) /\ conns[Addr(k)] = k /\ \A j \in Ids : UpRec(link[j]) => j = k
    BY <2>1 DEF LinksInv, OneUp
  <2>3. active' = active /\ conns'[Addr(k)] = conns[Addr(k)]
    BY DEF KeepsShown
  <2>4. Addr(k)' = Addr(k)
    BY <2>1 DEF Addr
  <2>5. \A j \in Ids : UpRec(link'[j]) => UpRec(link[j])
    BY DEF AllTidy, Tidy
  <2> QED BY <2>2, <2>3, <2>4, <2>5
<1>3. CutLeavesStrays'
  BY TidyKeepsStrays DEF LinksInv, CutLeavesStrays, CutsLater
<1> QED BY <1>1, <1>2, <1>3 DEF LinksInv

\* What most steps leave alone.
RestAlone == UNCHANGED <<conns, active, device, knows, cut, closing>>

LEMMA RestAloneInv ==
  ASSUME LinksInv, AllTidy, RestAlone
  PROVE  LinksInv'
<1>1. KeepsShown
  BY DEF KeepsShown, RestAlone
<1>2. OthersType
  BY DEF LinksInv, LinksType, OthersType, RestAlone
<1>3. CutsLater
  BY DEF CutsLater, RestAlone, Switched
<1> QED BY <1>1, <1>2, <1>3, TidyInv

\* One link that changes tidily, and the others as they are.
LEMMA OneChanges ==
  ASSUME LinksInv, NEW l \in Ids, NEW s, Tidy(link[l], s),
         link' = [link EXCEPT ![l] = s] \/ link' = Settled([link EXCEPT ![l] = s])
  PROVE  AllTidy
<1> DEFINE f == [link EXCEPT ![l] = s]
<1>0. link \in [Ids -> LinkRec] /\ \A k \in Ids : OverIsShut(link[k])
  BY DEF LinksInv, LinksType
<1>1. f = [k \in Ids |-> IF k = l THEN s ELSE link[k]]
  BY <1>0
<1>2. \A k \in Ids : Tidy(link[k], f[k])
  BY <1>0, <1>1, StepIsTidy
<1> HIDE DEF f
<1>3. CASE link' = f
  BY <1>1, <1>2, <1>3 DEF AllTidy
<1>4. CASE link' = Settled(f)
  <2>1. \A k \in Ids : Tidy(link[k], Settled(f)[k])
    BY <1>2, SettledIsTidy
  <2>2. Settled(f) = [k \in Ids |-> Settled(f)[k]]
    BY DEF Settled
  <2> QED BY <1>4, <2>1, <2>2 DEF AllTidy
<1> QED BY <1>3, <1>4 DEF f

\* The task at one end of a link ends.
LEMMA EndsTidy ==
  ASSUME LinksInv, NEW l \in Ids, NEW m \in Machines, Ends(l, m)
  PROVE  AllTidy
<1>1. Tidy(link[l], Over(link[l], m, "ended"))
  BY ShutIsTidy DEF LinksInv, LinksType
<1>2. link' = Settled([link EXCEPT ![l] = Over(link[l], m, "ended")])
  BY DEF Ends
<1> QED BY <1>1, <1>2, OneChanges

\* A dial begins, or is abandoned in the handshake.
LEMMA NewLinkTidy ==
  ASSUME LinksInv, NEW l \in Ids, NEW by \in Machines, NewLink(by, l) \/ Abandoned(l)
  PROVE  AllTidy
<1>1. CASE NewLink(by, l)
  <2> DEFINE s == [by |-> by, c |-> IF by = "C" THEN "dial" ELSE "none",
                   d |-> IF by = "D" THEN "dial" ELSE "none",
                   shut |-> {}, why |-> "no", stray |-> {}]
  <2>1. link' = [link EXCEPT ![l] = s]
    BY <1>1 DEF NewLink
  <2>2. s \in LinkRec /\ s.c \in {"dial", "none"} /\ s.d \in {"dial", "none"}
    BY DEF LinkRec
  <2> HIDE DEF s
  <2>3. Tidy(link[l], s)
    BY <2>2 DEF Tidy, OverIsShut, UpRec, ListedRec
  <2> QED BY <2>1, <2>3, OneChanges
<1>2. CASE Abandoned(l)
  BY <1>2, FreeIsTidy, OneChanges DEF Abandoned
<1> QED BY <1>1, <1>2

\* A task goes on to its next wait.
LEMMA GoesOnTidy ==
  ASSUME LinksInv, NEW l \in Ids,
         \/ \E x \in {"landed", "queued", "checked"} : link' = [link EXCEPT ![l].c = x]
         \/ \E x \in {"waiting", "checked"} : link' = [link EXCEPT ![l].d = x]
  PROVE  AllTidy
<1>0. link[l] \in LinkRec /\ OverIsShut(link[l])
  BY DEF LinksInv, LinksType
<1>1. ASSUME NEW x \in {"landed", "queued", "checked"}, link' = [link EXCEPT ![l].c = x]
      PROVE  AllTidy
  <2> DEFINE s == [link[l] EXCEPT !.c = x]
  <2>1. link' = [link EXCEPT ![l] = s] /\ Tidy(link[l], s)
    BY <1>0, <1>1, StepIsTidy
  <2> HIDE DEF s
  <2> QED BY <2>1, OneChanges
<1>2. ASSUME NEW x \in {"waiting", "checked"}, link' = [link EXCEPT ![l].d = x]
      PROVE  AllTidy
  <2> DEFINE s == [link[l] EXCEPT !.d = x]
  <2>1. link' = [link EXCEPT ![l] = s] /\ Tidy(link[l], s)
    BY <1>0, <1>2, StepIsTidy
  <2> HIDE DEF s
  <2> QED BY <2>1, OneChanges
<1> QED BY <1>1, <1>2

----------------------------------------------------------------------------
(* The steps *)

\* C lists a link: none of the others is up in time after it, and none is up
\* at all when this one is in time.
LEMMA ListsAtC ==
  ASSUME LinksInv, NEW l \in Ids, NEW intime \in BOOLEAN,
         intime => "C" \in knows /\ Switched("C"),
         link' = [k \in Ids |-> link'[k]],
         Lists(link[l], link'[l], "C", intime),
         \A k \in Ids \ {l} : /\ Tidy(link[k], link'[k])
                              /\ UpRec(link'[k]) => "C" \in link'[k].stray /\ ~intime,
         active' = Addr(l), conns'[Addr(l)] = l, OthersType,
         UNCHANGED <<device, knows, cut, closing>>
  PROVE  LinksInv'
<1>0. link[l] \in LinkRec /\ OverIsShut(link[l])
  BY DEF LinksInv, LinksType
<1>1. /\ link'[l] \in LinkRec /\ link'[l].by = link[l].by /\ link'[l].shut = link[l].shut
      /\ link'[l].stray = (IF intime THEN link[l].stray ELSE link[l].stray \cup {"C"})
      /\ link'[l].c = "up" /\ link'[l].d = link[l].d
  BY <1>0 DEF Lists
<1>2. OverIsShut(link'[l]) /\ (~intime => "C" \in link'[l].stray)
  BY <1>0, <1>1 DEF OverIsShut
<1>3. ListedRec(link'[l]) => ListedRec(link[l]) /\ link[l].stray \subseteq link'[l].stray
  BY <1>1 DEF ListedRec
<1>4. LinksType'
  <2>1. \A k \in Ids : link'[k] \in LinkRec /\ OverIsShut(link'[k])
    BY <1>1, <1>2 DEF Tidy
  <2> QED BY <2>1 DEF LinksType, OthersType
<1>5. OneUp'
  <2> SUFFICES ASSUME NEW k \in Ids, UpRec(link'[k]), "C" \notin link'[k].stray
               PROVE  /\ active' = Addr(k)' /\ conns'[Addr(k)'] = k
                      /\ \A j \in Ids : UpRec(link'[j]) => j = k
    BY DEF OneUp
  <2>1. k = l /\ intime
    BY <1>2
  <2>2. Addr(l)' = Addr(l)
    BY <1>1 DEF Addr
  <2> QED BY <2>1, <2>2
<1>6. CutLeavesStrays'
  <2>1. StrayListed => StrayListed'
    BY <1>3 DEF StrayListed, Tidy
  <2>2. ~intime => StrayUp'
    BY <1>2 DEF StrayUp
  <2>3. Switched("C")' = Switched("C")
    BY DEF Switched
  <2> QED BY <2>1, <2>2, <2>3 DEF LinksInv, CutLeavesStrays
<1> QED BY <1>4, <1>5, <1>6 DEF LinksInv

\* While a link is up in time the device has a link.
LEMMA UpIsShown ==
  ASSUME LinksInv, NEW k \in Ids, UpRec(link[k]), "C" \notin link[k].stray
  PROVE  HasLink /\ conns[active] = k
<1>1. active = Addr(k) /\ conns[Addr(k)] = k
  BY DEF LinksInv, OneUp
<1>2. k # 0
  BY LinksAssumption DEF Ids
<1> QED BY <1>1, <1>2, AddrType DEF HasLink

LEMMA LandInv ==
  ASSUME LinksInv, NEW l \in Ids, Land(l)
  PROVE  LinksInv'
<1>1. CASE ~Takes(l)
  <2>1. AllTidy
    BY <1>1, EndsTidy DEF Land, Machines
  <2> QED BY <1>1, <2>1, RestAloneInv DEF Land, RestAlone
<1>2. CASE Takes(l)
  <2> DEFINE intime == "C" \in knows /\ ~StrayAtC
  <2>0. /\ link \in [Ids -> LinkRec] /\ \A k \in Ids : OverIsShut(link[k])
        /\ conns \in [Addrs -> {0} \cup Ids] /\ Listener \in Addrs
    BY DEF LinksInv, LinksType, Addrs
  <2>1. /\ link' = [link EXCEPT ![l] = Listing(link[l], "C", intime)]
        /\ conns' = [conns EXCEPT ![Listener] = l] /\ active' = Listener
        /\ UNCHANGED <<device, knows, cut, closing>> /\ link[l].by = "C"
    BY <1>2 DEF Land
  <2>2. ~HasLink /\ Switched("C")
    BY <1>2 DEF Takes
  <2>3. Addr(l) = Listener
    BY <2>1 DEF Addr
  <2>4. \A k \in Ids : UpRec(link[k]) => "C" \in link[k].stray
    BY <2>2, UpIsShown
  <2>5. intime => \A k \in Ids : ~UpRec(link[k])
    BY <2>4 DEF StrayAtC
  <2>6. link' = [k \in Ids |-> link'[k]] /\ link'[l] = Listing(link[l], "C", intime)
    BY <2>0, <2>1
  <2>7. \A k \in Ids \ {l} : link'[k] = link[k]
    BY <2>0, <2>1
  <2>8. conns' \in [Addrs -> {0} \cup Ids] /\ conns'[Listener] = l
    BY <2>0, <2>1
  <2>9. intime \in BOOLEAN /\ (intime => "C" \in knows /\ Switched("C"))
    BY <2>2
  <2> HIDE DEF intime
  <2>10. \A k \in Ids \ {l} : /\ Tidy(link[k], link'[k])
                              /\ UpRec(link'[k]) => "C" \in link'[k].stray /\ ~intime
    BY <2>0, <2>4, <2>5, <2>7, StepIsTidy
  <2>11. OthersType
    BY <2>1, <2>8, <2>0 DEF OthersType, LinksInv, LinksType
  <2>12. Lists(link[l], link'[l], "C", intime)
    BY <2>0, <2>6, <2>9, ListingLists DEF Machines
  <2>13. /\ link' = [k \in Ids |-> link'[k]] /\ active' = Addr(l) /\ conns'[Addr(l)] = l
         /\ UNCHANGED <<device, knows, cut, closing>>
    BY <2>1, <2>3, <2>6, <2>8
  <2> QED BY <2>9, <2>10, <2>11, <2>12, <2>13, ListsAtC
<1> QED BY <1>1, <1>2

LEMMA AdoptInv ==
  ASSUME LinksInv, NEW l \in Ids, Adopt(l)
  PROVE  LinksInv'
<1>1. CASE OwnLinkUp
  <2>1. AllTidy
    BY <1>1, EndsTidy DEF Adopt, Machines
  <2> QED BY <1>1, <2>1, RestAloneInv DEF Adopt, RestAlone
<1>2. CASE ~OwnLinkUp
  <2> DEFINE intime == MayAdopt(l) /\ ~StrayAtC
  <2>0. /\ link \in [Ids -> LinkRec] /\ \A k \in Ids : OverIsShut(link[k])
        /\ conns \in [Addrs -> {0} \cup Ids] /\ l \in Addrs /\ l # 0
    BY LinksAssumption DEF LinksInv, LinksType, Addrs, Ids
  <2>1. /\ link' = [k \in Ids |->
                      IF k = l THEN Listing(link[k], "C", intime)
                      ELSE IF HasLink /\ k = conns[active] THEN Shut(link[k], "C", "ended")
                      ELSE link[k]]
        /\ conns' = [a \in Addrs |-> IF a = l THEN l ELSE IF a = active THEN 0 ELSE conns[a]]
        /\ active' = l
        /\ UNCHANGED <<device, knows, cut, closing>> /\ link[l].by = "D" /\ link[l].c = "checked"
    BY <1>2 DEF Adopt
  <2>3. Addr(l) = l
    BY <2>1 DEF Addr
  <2>4. \A k \in Ids : (UpRec(link[k]) /\ "C" \notin link[k].stray) => HasLink /\ k = conns[active]
    BY UpIsShown
  <2>5. intime => \A k \in Ids : "C" \notin link[k].stray
    BY DEF StrayAtC
  <2>6. link' = [k \in Ids |-> link'[k]] /\ link'[l] = Listing(link[l], "C", intime)
    BY <2>1
  <2>8. conns' \in [Addrs -> {0} \cup Ids] /\ conns'[l] = l
    BY <2>0, <2>1
  <2>9. intime \in BOOLEAN /\ (intime => "C" \in knows /\ Switched("C"))
    BY DEF MayAdopt
  <2> HIDE DEF intime
  <2>10. ASSUME NEW k \in Ids \ {l}
         PROVE  /\ Tidy(link[k], link'[k])
                /\ UpRec(link'[k]) => "C" \in link'[k].stray /\ ~intime
    <3>1. CASE HasLink /\ k = conns[active]
      <4>1. link'[k] = Shut(link[k], "C", "ended")
        BY <2>1, <3>1
      <4>2. Tidy(link[k], link'[k])
        BY <4>1, <2>0, ShutIsTidy DEF Machines
      <4>3. link'[k].shut = link[k].shut \cup {"C"}
        BY <4>1, <2>0, ShutFields DEF Machines
      <4> QED BY <4>2, <4>3 DEF UpRec
    <3>2. CASE ~(HasLink /\ k = conns[active])
      <4>1. link'[k] = link[k]
        BY <2>1, <3>2
      <4>2. Tidy(link[k], link[k])
        BY <2>0, StepIsTidy
      <4> QED BY <4>1, <4>2, <3>2, <2>4, <2>5
    <3> QED BY <3>1, <3>2
  <2>11. OthersType
    BY <2>1, <2>8, <2>0 DEF OthersType, LinksInv, LinksType
  <2>12. Lists(link[l], link'[l], "C", intime)
    BY <2>0, <2>6, <2>9, ListingLists DEF Machines
  <2>13. /\ link' = [k \in Ids |-> link'[k]] /\ active' = Addr(l) /\ conns'[Addr(l)] = l
         /\ UNCHANGED <<device, knows, cut, closing>>
    BY <2>1, <2>3, <2>6, <2>8
  <2> QED BY <2>9, <2>10, <2>11, <2>12, <2>13, ListsAtC
<1> QED BY <1>1, <1>2

\* D lists a link: stray unless the pairing still stands.
LEMMA AdmitInv ==
  ASSUME LinksInv, NEW l \in Ids, Admit(l)
  PROVE  LinksInv'
<1> DEFINE intime == "D" \in knows
           s == Listing(link[l], "D", intime)
<1>0. /\ link \in [Ids -> LinkRec] /\ \A k \in Ids : OverIsShut(link[k])
  BY DEF LinksInv, LinksType
<1>1. link' = [link EXCEPT ![l] = s] /\ RestAlone
  BY DEF Admit, RestAlone
<1>2. /\ s \in LinkRec /\ s.by = link[l].by /\ s.shut = link[l].shut
      /\ s.stray = (IF intime THEN link[l].stray ELSE link[l].stray \cup {"D"})
      /\ s.c = link[l].c /\ s.d = "listed"
  <2>1. intime \in BOOLEAN /\ link[l] \in LinkRec
    BY <1>0
  <2> HIDE DEF intime
  <2>2. Lists(link[l], s, "D", intime)
    BY <2>1, ListingLists DEF s, Machines
  <2> QED BY <2>2 DEF Lists
<1> HIDE DEF s
<1>3. link' = [k \in Ids |-> IF k = l THEN s ELSE link[k]]
  BY <1>0, <1>1
<1>4. OverIsShut(s) /\ (UpRec(s) <=> UpRec(link[l])) /\ ("C" \in s.stray <=> "C" \in link[l].stray)
  BY <1>0, <1>2 DEF OverIsShut, UpRec
<1>5. \A k \in Ids : /\ link'[k] \in LinkRec /\ OverIsShut(link'[k])
                     /\ UpRec(link'[k]) <=> UpRec(link[k])
                     /\ "C" \in link'[k].stray <=> "C" \in link[k].stray
                     /\ link'[k].by = link[k].by
  BY <1>0, <1>2, <1>3, <1>4
<1>6. \A k \in Ids \ {l} : link'[k] = link[k]
  BY <1>3
<1>7. ~intime => "D" \in link'[l].stray
  BY <1>2, <1>3
<1>8. LinksType'
  <2>1. link' \in [Ids -> LinkRec]
    BY <1>3, <1>5
  <2> QED BY <2>1, <1>1, <1>5 DEF LinksInv, LinksType, RestAlone
<1>9. OneUp'
  <2>1. \A k \in Ids : Addr(k)' = Addr(k)
    BY <1>5 DEF Addr
  <2> QED BY <2>1, <1>1, <1>5 DEF LinksInv, OneUp, RestAlone
<1>10. CutLeavesStrays'
  <2>1. StrayUp => StrayUp'
    BY <1>5 DEF StrayUp
  <2>2. ~intime /\ StrayListed => StrayListed'
    BY <1>6, <1>7 DEF StrayListed
  <2>3. Switched("C")' = Switched("C")
    BY <1>1 DEF Switched, RestAlone
  <2>4. knows' = knows /\ cut' = cut /\ closing' = closing
    BY <1>1 DEF RestAlone
  <2> HIDE DEF intime
  <2>5. "C" \notin knows' \cup cut' => StrayUp'
    BY <2>1, <2>4 DEF LinksInv, CutLeavesStrays
  <2>6. "D" \notin knows' \cup cut' => StrayListed'
    BY <2>2, <2>4 DEF LinksInv, CutLeavesStrays, intime
  <2>7. (~Switched("C")' /\ ~closing' /\ "C" \notin cut') => StrayUp'
    BY <2>1, <2>3, <2>4 DEF LinksInv, CutLeavesStrays
  <2> QED BY <2>5, <2>6, <2>7 DEF CutLeavesStrays
<1> QED BY <1>8, <1>9, <1>10 DEF LinksInv

\* disconnect leaves a link that is up in time where it is.
LEMMA DisconnectedKeeps ==
  ASSUME LinksInv, AllTidy, NEW l \in Ids, ~UpRec(link'[l]), Disconnected(l),
         UNCHANGED <<device, knows, cut, closing>>
  PROVE  LinksInv'
<1> DEFINE a == Addr(l)
           newer == conns[a] \notin {0, l}
<1>0. /\ conns' = (IF newer THEN conns ELSE [conns EXCEPT ![a] = 0])
      /\ active' = (IF ~newer /\ active = a THEN NoAddr ELSE active)
  BY DEF Disconnected
<1>1. conns \in [Addrs -> {0} \cup Ids] /\ active \in Addrs \cup {NoAddr}
  BY DEF LinksInv, LinksType
<1>2. KeepsShown
  <2> SUFFICES ASSUME NEW k \in Ids, UpRec(link'[k]), "C" \notin link'[k].stray
               PROVE  active' = active /\ conns'[Addr(k)] = conns[Addr(k)]
    BY DEF KeepsShown
  <2>1. UpRec(link[k]) /\ "C" \notin link[k].stray
    BY DEF AllTidy, Tidy
  <2>2. active = Addr(k) /\ conns[Addr(k)] = k
    BY <2>1 DEF LinksInv, OneUp
  <2>3. k # l /\ k # 0 /\ Addr(k) \in Addrs
    BY AddrType, LinksAssumption DEF Ids
  <2>4. newer \/ a # Addr(k)
    BY <2>2, <2>3
  <2> HIDE DEF newer, a
  <2> QED BY <1>0, <1>1, <2>2, <2>3, <2>4
<1>3. OthersType
  <2>1. conns' \in [Addrs -> {0} \cup Ids]
    BY <1>0, <1>1
  <2>2. active' \in Addrs \cup {NoAddr}
    BY <1>0, <1>1
  <2> QED BY <2>1, <2>2 DEF LinksInv, LinksType, OthersType
<1>4. CutsLater
  BY DEF CutsLater, Switched
<1> QED BY <1>2, <1>3, <1>4, TidyInv

LEMMA EndsAtCInv ==
  ASSUME LinksInv, NEW l \in Ids, EndsAtC(l)
  PROVE  LinksInv'
<1>1. Ends(l, "C") /\ Disconnected(l) /\ UNCHANGED <<device, knows, cut, closing>> /\ ~Open(l, "C")
  BY DEF EndsAtC
<1>2. AllTidy
  BY <1>1, EndsTidy DEF Machines
<1>3. ~UpRec(link[l])
  BY <1>1 DEF UpRec, Open
<1>4. ~UpRec(link'[l])
  BY <1>2, <1>3 DEF AllTidy, Tidy
<1> QED BY <1>1, <1>2, <1>4, DisconnectedKeeps

LEMMA SendRefusedInv ==
  ASSUME LinksInv, NEW l \in Ids, SendRefused(l)
  PROVE  LinksInv'
<1>0. link \in [Ids -> LinkRec] /\ link[l] \in LinkRec /\ OverIsShut(link[l])
  BY DEF LinksInv, LinksType
<1>1. /\ link' = [link EXCEPT ![l] = Shut(link[l], "C", "ended")] /\ Disconnected(l)
      /\ UNCHANGED <<device, knows, cut, closing>>
  BY DEF SendRefused
<1>2. Tidy(link[l], Shut(link[l], "C", "ended"))
  BY <1>0, ShutIsTidy DEF Machines
<1>3. AllTidy
  BY <1>1, <1>2, OneChanges
<1>4. "C" \in link'[l].shut
  <2>1. Shut(link[l], "C", "ended").shut = link[l].shut \cup {"C"}
    BY <1>0, ShutFields DEF Machines
  <2> QED BY <1>0, <1>1, <2>1
<1>5. ~UpRec(link'[l])
  BY <1>4 DEF UpRec
<1> QED BY <1>1, <1>3, <1>5, DisconnectedKeeps

\* The close of what is in the map leaves C no link but a stray one.
LEMMA CloseOutboundTidy ==
  ASSUME LinksInv, CloseOutbound
  PROVE  /\ AllTidy /\ StrayUp' /\ KeepsShown
         /\ conns' \in [Addrs -> {0} \cup Ids] /\ active' \in Addrs \cup {NoAddr}
<1>0. \A k \in Ids : link[k] \in LinkRec /\ OverIsShut(link[k])
  BY DEF LinksInv, LinksType
<1>1. link' = [k \in Ids |-> IF InMap(k) THEN Shut(link[k], "C", Reason("C")) ELSE link[k]]
  BY DEF CloseOutbound
<1>2. Reason("C") \in Machines \cup {"ended"}
  BY DEF Reason, Machines
<1>3. ASSUME NEW k \in Ids PROVE Tidy(link[k], link'[k])
  <2>1. Tidy(link[k], Shut(link[k], "C", Reason("C")))
    BY <1>0, <1>2, ShutIsTidy DEF Machines
  <2>2. Tidy(link[k], link[k])
    BY <1>0, StepIsTidy
  <2> QED BY <1>1, <2>1, <2>2
<1>4. AllTidy
  BY <1>1, <1>3 DEF AllTidy
<1>5. ASSUME NEW k \in Ids, UpRec(link'[k]) PROVE "C" \in link'[k].stray
  <2>1. CASE InMap(k)
    <3>1. link'[k] = Shut(link[k], "C", Reason("C"))
      BY <1>1, <2>1
    <3>2. link'[k].shut = link[k].shut \cup {"C"}
      BY <1>0, <1>2, <3>1, ShutFields DEF Machines
    <3> QED BY <1>5, <3>2 DEF UpRec
  <2>2. CASE ~InMap(k)
    <3>1. link'[k] = link[k]
      BY <1>1, <2>2
    <3>2. "C" \in link[k].stray \/ conns[Addr(k)] = k
      BY <1>5, <3>1 DEF LinksInv, OneUp
    <3>3. conns[Addr(k)] # k
      BY <2>2, AddrType DEF InMap
    <3> QED BY <3>1, <3>2, <3>3
  <2> QED BY <2>1, <2>2
<1>6. StrayUp' /\ KeepsShown
  BY <1>5 DEF StrayUp, KeepsShown
<1>7. conns' \in [Addrs -> {0} \cup Ids] /\ active' \in Addrs \cup {NoAddr}
  BY DEF CloseOutbound, LinksInv, LinksType
<1> QED BY <1>4, <1>6, <1>7

\* The close of what D has listed leaves it none.
LEMMA CloseInboundTidy ==
  ASSUME LinksInv, CloseInbound
  PROVE  AllTidy /\ StrayListed'
<1> DEFINE f == [k \in Ids |-> IF link[k].d = "listed"
                               THEN Over(link[k], "D", Reason("D")) ELSE link[k]]
<1>0. \A k \in Ids : link[k] \in LinkRec /\ OverIsShut(link[k])
  BY DEF LinksInv, LinksType
<1>1. link' = Settled(f)
  BY DEF CloseInbound
<1>2. Reason("D") \in Machines \cup {"ended"}
  BY DEF Reason, Machines
<1>3. ASSUME NEW k \in Ids PROVE Tidy(link[k], f[k]) /\ ~ListedRec(f[k])
  <2>1. CASE link[k].d = "listed"
    <3>1. f[k] = Over(link[k], "D", Reason("D"))
      BY <2>1
    <3>2. Tidy(link[k], f[k])
      BY <1>0, <1>2, <3>1, ShutIsTidy DEF Machines
    <3>3. f[k].shut = link[k].shut \cup {"D"}
      BY <1>0, <1>2, <3>1, OverFields DEF Machines
    <3> HIDE DEF f
    <3> QED BY <3>2, <3>3 DEF ListedRec
  <2>2. CASE link[k].d # "listed"
    <3>1. f[k] = link[k]
      BY <2>2
    <3> HIDE DEF f
    <3> QED BY <1>0, <2>2, <3>1, StepIsTidy DEF ListedRec
  <2> QED BY <2>1, <2>2
<1> HIDE DEF f
<1>4. \A k \in Ids : Tidy(link[k], Settled(f)[k]) /\ ~ListedRec(Settled(f)[k])
  BY <1>3, SettledIsTidy
<1>5. Settled(f) = [k \in Ids |-> Settled(f)[k]]
  BY DEF Settled
<1> QED BY <1>1, <1>4, <1>5 DEF AllTidy, StrayListed

LEMMA CutSessionsInv ==
  ASSUME LinksInv, NEW m \in Machines, CutSessions(m)
  PROVE  LinksInv'
<1>0. /\ UNCHANGED <<device, knows, closing>> /\ cut' = cut \ {m}
      /\ m = "C" => CloseOutbound
      /\ m # "C" => CloseInbound
  BY DEF CutSessions
<1>1. knows' \subseteq Machines /\ cut' \subseteq Machines /\ closing' \in BOOLEAN
      /\ device' \in [Machines -> {"on", "off", "none"}]
  BY <1>0 DEF LinksInv, LinksType
<1>2. CASE m = "C"
  <2>1. /\ AllTidy /\ StrayUp' /\ KeepsShown
        /\ conns' \in [Addrs -> {0} \cup Ids] /\ active' \in Addrs \cup {NoAddr}
    BY <1>0, <1>2, CloseOutboundTidy
  <2>2. OthersType
    BY <1>1, <2>1 DEF OthersType
  <2>3. CutsLater
    BY <1>0, <1>2, <2>1 DEF CutsLater
  <2> QED BY <2>1, <2>2, <2>3, TidyInv
<1>3. CASE m = "D"
  <2>0. CloseInbound
    BY <1>0, <1>3
  <2>1. AllTidy /\ StrayListed' /\ UNCHANGED <<conns, active>>
    BY <2>0, CloseInboundTidy DEF CloseInbound
  <2>2. OthersType
    BY <1>1, <2>1 DEF OthersType, LinksInv, LinksType
  <2>3. CutsLater
    BY <1>0, <1>3, <2>1 DEF CutsLater, Switched
  <2>4. KeepsShown
    BY <2>1 DEF KeepsShown
  <2> QED BY <2>1, <2>2, <2>3, <2>4, TidyInv
<1> QED BY <1>2, <1>3 DEF Machines

LEMMA CloseDeviceInv ==
  ASSUME LinksInv, CloseDevice
  PROVE  LinksInv'
<1>0. UNCHANGED <<device, knows, cut>> /\ closing' = FALSE /\ CloseOutbound
  BY DEF CloseDevice
<1>1. /\ AllTidy /\ StrayUp' /\ KeepsShown
      /\ conns' \in [Addrs -> {0} \cup Ids] /\ active' \in Addrs \cup {NoAddr}
  BY <1>0, CloseOutboundTidy
<1>2. OthersType
  BY <1>0, <1>1 DEF OthersType, LinksInv, LinksType
<1>3. CutsLater
  BY <1>0, <1>1 DEF CutsLater
<1> QED BY <1>1, <1>2, <1>3, TidyInv

LEMMA RenameInv ==
  ASSUME LinksInv, Rename
  PROVE  LinksInv'
<1>0. \A k \in Ids : link[k] \in LinkRec /\ OverIsShut(link[k])
  BY DEF LinksInv, LinksType
<1>1. /\ link' = [k \in Ids |-> IF Up(k) THEN [link[k] EXCEPT !.stray = link[k].stray \cup {"C"}]
                                ELSE link[k]]
      /\ active' = NoAddr /\ UNCHANGED <<conns, device, knows, cut, closing>>
  BY DEF Rename
<1>2. ASSUME NEW k \in Ids
      PROVE  Tidy(link[k], link'[k]) /\ (UpRec(link'[k]) => "C" \in link'[k].stray)
  <2>1. CASE Up(k)
    BY <1>0, <1>1, <2>1, StrayIsTidy
  <2>2. CASE ~Up(k)
    <3>1. link'[k] = link[k] /\ ~UpRec(link[k])
      BY <1>1, <2>2 DEF Up, Open, UpRec
    <3> QED BY <1>0, <3>1, StepIsTidy
  <2> QED BY <2>1, <2>2
<1>3. AllTidy
  BY <1>1, <1>2 DEF AllTidy
<1>4. KeepsShown
  BY <1>2 DEF KeepsShown
<1>5. OthersType
  BY <1>1 DEF OthersType, LinksInv, LinksType
<1>6. CutsLater
  BY <1>1 DEF CutsLater, Switched
<1> QED BY <1>3, <1>4, <1>5, <1>6, TidyInv

\* The link that answers is the one up in time, if one is.
LEMMA PongInv ==
  ASSUME LinksInv, NEW l \in Ids, Pong(l)
  PROVE  LinksInv'
<1>0. link \in [Ids -> LinkRec] /\ \A k \in Ids : OverIsShut(link[k])
  BY DEF LinksInv, LinksType
<1>1. /\ Up(l) /\ active # Addr(l) /\ active' = Addr(l) /\ link' = link
      /\ UNCHANGED <<conns, device, knows, cut, closing>>
  BY DEF Pong
<1>2. AllTidy
  BY <1>0, <1>1, StepIsTidy DEF AllTidy
<1>3. KeepsShown
  <2>1. ASSUME NEW k \in Ids, UpRec(link[k]), "C" \notin link[k].stray PROVE FALSE
    <3>1. active = Addr(k) /\ \A j \in Ids : UpRec(link[j]) => j = k
      BY <2>1 DEF LinksInv, OneUp
    <3>2. UpRec(link[l])
      BY <1>1 DEF Up, Open, UpRec
    <3> QED BY <1>1, <3>1, <3>2
  <2> QED BY <1>1, <2>1 DEF KeepsShown
<1>4. OthersType
  BY <1>1, AddrType DEF OthersType, LinksInv, LinksType
<1>5. CutsLater
  BY <1>1 DEF CutsLater, Switched
<1> QED BY <1>2, <1>3, <1>4, <1>5, TidyInv

\* What people change leaves the links to the tasks it sets off.
LEMMA EditInv ==
  ASSUME LinksInv, UNCHANGED <<link, conns, active>>, OthersType, CutsLater
  PROVE  LinksInv'
<1>1. AllTidy
  BY StepIsTidy DEF AllTidy, LinksInv, LinksType
<1>2. KeepsShown
  BY DEF KeepsShown
<1> QED BY <1>1, <1>2, TidyInv

LEMMA PeopleInv ==
  ASSUME LinksInv, NEW m \in Machines,
         Remove(m) \/ HearRemoved(m) \/ SwitchOff(m) \/ SwitchOn(m) \/ Pair
  PROVE  LinksInv'
<1>0. /\ conns \in [Addrs -> {0} \cup Ids] /\ active \in Addrs \cup {NoAddr}
      /\ device \in [Machines -> {"on", "off", "none"}]
      /\ knows \subseteq Machines /\ cut \subseteq Machines /\ closing \in BOOLEAN
  BY DEF LinksInv, LinksType
<1>1. CASE Remove(m)
  <2>1. /\ knows' = knows \ {m} /\ cut' = cut \cup {m}
        /\ UNCHANGED <<link, conns, active, device, closing>>
    BY <1>1 DEF Remove
  <2>2. OthersType
    BY <1>0, <2>1 DEF OthersType
  <2>3. CutsLater
    BY <2>1 DEF CutsLater, Switched
  <2> QED BY <2>1, <2>2, <2>3, EditInv
<1>2. CASE HearRemoved(m)
  <2>1. UNCHANGED <<link, conns, active, closing>>
    BY <1>2 DEF HearRemoved
  <2>2. CASE m \in knows
    <3>1. knows' = knows \ {m} /\ cut' = cut \cup {m} /\ device' = [device EXCEPT ![m] = "none"]
      BY <1>2, <2>2 DEF HearRemoved
    <3>2. OthersType
      BY <1>0, <2>1, <3>1 DEF OthersType
    <3>3. m # "C" => device'["C"] = device["C"]
      BY <1>0, <3>1 DEF Machines
    <3>4. CutsLater
      BY <2>1, <3>1, <3>3 DEF CutsLater, Switched
    <3> QED BY <2>1, <3>2, <3>4, EditInv
  <2>3. CASE m \notin knows
    <3>1. UNCHANGED <<knows, cut, device>>
      BY <1>2, <2>3 DEF HearRemoved
    <3>2. OthersType
      BY <1>0, <2>1, <3>1 DEF OthersType
    <3>3. CutsLater
      BY <2>1, <3>1 DEF CutsLater, Switched
    <3> QED BY <2>1, <3>2, <3>3, EditInv
  <2> QED BY <2>2, <2>3
<1>3. CASE SwitchOff(m)
  <2>1. /\ device' = [device EXCEPT ![m] = "off"] /\ closing' = (closing \/ m = "C")
        /\ UNCHANGED <<link, conns, active, knows, cut>>
    BY <1>3 DEF SwitchOff
  <2>2. OthersType
    BY <1>0, <2>1 DEF OthersType
  <2>3. m # "C" => device'["C"] = device["C"]
    BY <1>0, <2>1 DEF Machines
  <2>4. ~closing' => m # "C" /\ ~closing
    BY <2>1
  <2>5. CutsLater
    BY <2>1, <2>3, <2>4 DEF CutsLater, Switched
  <2> QED BY <2>1, <2>2, <2>5, EditInv
<1>4. CASE SwitchOn(m)
  <2>1. /\ device' = [device EXCEPT ![m] = "on"]
        /\ UNCHANGED <<link, conns, active, knows, cut, closing>>
    BY <1>4 DEF SwitchOn
  <2>2. OthersType
    BY <1>0, <2>1 DEF OthersType
  <2>3. device'["C"] # "on" => device'["C"] = device["C"]
    BY <1>0, <2>1 DEF Machines
  <2>4. CutsLater
    BY <2>1, <2>3 DEF CutsLater, Switched
  <2> QED BY <2>1, <2>2, <2>4, EditInv
<1>5. CASE Pair
  <2>1. /\ device' = [x \in Machines |-> "on"] /\ knows' = Machines
        /\ UNCHANGED <<link, conns, active, cut, closing>>
    BY <1>5 DEF Pair
  <2>2. OthersType
    BY <1>0, <2>1 DEF OthersType
  <2>3. CutsLater
    BY <2>1 DEF CutsLater, Switched, Machines
  <2> QED BY <2>1, <2>2, <2>3, EditInv
<1> QED BY <1>1, <1>2, <1>3, <1>4, <1>5

\* The first half of adopt may put the device back, switched on.
LEMMA AdoptChecksInv ==
  ASSUME LinksInv, NEW l \in Ids, AdoptChecks(l)
  PROVE  LinksInv'
<1>0. /\ device' = (IF device["C"] = "none" THEN [device EXCEPT !["C"] = "on"] ELSE device)
      /\ UNCHANGED <<conns, active, knows, cut, closing>>
  BY DEF AdoptChecks
<1>1. AllTidy
  <2>1. CASE MayAdopt(l)
    <3>1. link' = [link EXCEPT ![l].c = "checked"]
      BY <2>1 DEF AdoptChecks
    <3> QED BY <3>1, GoesOnTidy
  <2>2. CASE ~MayAdopt(l)
    BY <2>2, EndsTidy DEF AdoptChecks, Machines
  <2> QED BY <2>1, <2>2
<1>2. KeepsShown
  BY <1>0 DEF KeepsShown
<1>3. OthersType
  BY <1>0 DEF OthersType, LinksInv, LinksType
<1>4. device'["C"] # "on" => device'["C"] = device["C"]
  BY <1>0 DEF Machines, LinksInv, LinksType
<1>5. CutsLater
  BY <1>0, <1>4 DEF CutsLater, Switched
<1> QED BY <1>1, <1>2, <1>3, <1>5, TidyInv

\* The task that holds a link for C stops, and closes what it held.
LEMMA ReconcileInv ==
  ASSUME LinksInv, Reconcile
  PROVE  LinksInv'
<1>0. \A k \in Ids : link[k] \in LinkRec /\ OverIsShut(link[k])
  BY DEF LinksInv, LinksType
<1>1. RestAlone
  BY DEF Reconcile, RestAlone
<1>2. CASE Wanted
  <2>1. link' = link
    BY <1>2 DEF Reconcile
  <2>2. AllTidy
    BY <1>0, <2>1, StepIsTidy DEF AllTidy, LinksInv, LinksType
  <2> QED BY <1>1, <2>2, RestAloneInv
<1>3. CASE ~Wanted
  <2> DEFINE f == [l \in Ids |->
                    IF link[l].by # "D" THEN link[l]
                    ELSE IF link[l].d = "dial" THEN Free
                    ELSE IF link[l].d = "waiting" THEN Over(link[l], "D", "ended")
                    ELSE IF link[l].d = "checked" THEN Over(link[l], "D", Reason("D"))
                    ELSE IF link[l].d = "listed" THEN Shut(link[l], "D", Reason("D"))
                    ELSE link[l]]
  <2>1. link' = Settled(f)
    BY <1>3 DEF Reconcile
  <2>2. Reason("D") \in Machines \cup {"ended"}
    BY DEF Reason, Machines
  <2>3. ASSUME NEW k \in Ids PROVE Tidy(link[k], f[k])
    <3>1. f[k] \in {link[k], Free, Over(link[k], "D", "ended"), Over(link[k], "D", Reason("D")),
                    Shut(link[k], "D", Reason("D"))}
      OBVIOUS
    <3>2. /\ Tidy(link[k], Over(link[k], "D", "ended"))
          /\ Tidy(link[k], Over(link[k], "D", Reason("D")))
          /\ Tidy(link[k], Shut(link[k], "D", Reason("D")))
      BY <1>0, <2>2, ShutIsTidy DEF Machines
    <3>3. Tidy(link[k], link[k]) /\ Tidy(link[k], Free)
      BY <1>0, StepIsTidy, FreeIsTidy
    <3> HIDE DEF f
    <3> QED BY <3>1, <3>2, <3>3
  <2> HIDE DEF f
  <2>4. \A k \in Ids : Tidy(link[k], Settled(f)[k])
    BY <2>3, SettledIsTidy
  <2>5. Settled(f) = [k \in Ids |-> Settled(f)[k]]
    BY DEF Settled
  <2>6. AllTidy
    BY <2>1, <2>4, <2>5 DEF AllTidy
  <2> QED BY <1>1, <2>6, RestAloneInv
<1> QED BY <1>2, <1>3

\* The steps that change one link and nothing else.
LEMMA LinkOnlyInv ==
  ASSUME LinksInv, NEW l \in Ids,
         \/ Connect(l) \/ Accept(l) \/ Attempt(l) \/ DialledIn(l) \/ FirstFrame(l)
         \/ StartDial(l) \/ HoldDials(l) \/ FirstFrameLate(l) \/ EndsAtD(l) \/ GivesUp(l)
  PROVE  LinksInv'
<1>0. "C" \in Machines /\ "D" \in Machines
  BY DEF Machines
<1>1. RestAlone
  BY DEF Connect, Accept, Attempt, DialledIn, FirstFrame, StartDial, HoldDials,
         FirstFrameLate, EndsAtD, GivesUp, RestAlone
<1>2. \/ NewLink("C", l) \/ NewLink("D", l) \/ Abandoned(l) \/ Ends(l, "C") \/ Ends(l, "D")
      \/ \E x \in {"landed", "queued", "checked"} : link' = [link EXCEPT ![l].c = x]
      \/ \E x \in {"waiting", "checked"} : link' = [link EXCEPT ![l].d = x]
  BY DEF Connect, Accept, Attempt, DialledIn, FirstFrame, StartDial, HoldDials,
         FirstFrameLate, EndsAtD, GivesUp
<1>3. CASE NewLink("C", l) \/ NewLink("D", l) \/ Abandoned(l)
  BY <1>0, <1>1, <1>3, NewLinkTidy, RestAloneInv
<1>4. CASE Ends(l, "C") \/ Ends(l, "D")
  BY <1>0, <1>1, <1>4, EndsTidy, RestAloneInv
<1>5. CASE \E x \in {"landed", "queued", "checked"} : link' = [link EXCEPT ![l].c = x]
  BY <1>1, <1>5, GoesOnTidy, RestAloneInv
<1>6. CASE \E x \in {"waiting", "checked"} : link' = [link EXCEPT ![l].d = x]
  BY <1>1, <1>6, GoesOnTidy, RestAloneInv
<1> QED BY <1>2, <1>3, <1>4, <1>5, <1>6

LEMMA LearnsInv ==
  ASSUME LinksInv, NEW l \in Ids, NEW m \in Machines, Arrives(l) \/ Lose(l, m)
  PROVE  LinksInv'
<1>0. link \in [Ids -> LinkRec] /\ link[l] \in LinkRec /\ OverIsShut(link[l])
  BY DEF LinksInv, LinksType
<1>1. RestAlone
  BY DEF Arrives, Lose, RestAlone
<1>2. CASE Arrives(l)
  <2> DEFINE s == [link[l] EXCEPT !.shut = Machines]
  <2>1. link' = Settled([link EXCEPT ![l] = s])
    BY <1>0, <1>2 DEF Arrives
  <2>0. Machines \in SUBSET Machines /\ link[l].shut \subseteq Machines
    BY <1>0 DEF LinkRec
  <2>2. Tidy(link[l], s)
    BY <1>0, <2>0, LearnsIsTidy
  <2> HIDE DEF s
  <2>3. AllTidy
    BY <2>1, <2>2, OneChanges
  <2> QED BY <1>1, <2>3, RestAloneInv
<1>3. CASE Lose(l, m)
  <2> DEFINE s == [link[l] EXCEPT !.shut = link[l].shut \cup {m}, !.why = "ended"]
  <2>1. link' = Settled([link EXCEPT ![l] = s])
    BY <1>3 DEF Lose
  <2>2. link[l].shut \cup {m} \in SUBSET Machines /\ link[l].shut \subseteq link[l].shut \cup {m}
    BY <1>0 DEF LinkRec
  <2>3. Tidy(link[l], s)
    BY <1>0, <2>2, LearnsIsTidy
  <2> HIDE DEF s
  <2>4. AllTidy
    BY <2>1, <2>3, OneChanges
  <2> QED BY <1>1, <2>4, RestAloneInv
<1> QED BY <1>2, <1>3

----------------------------------------------------------------------------
(* The theorems *)

LEMMA LinksInitInv ==
  ASSUME Init
  PROVE  LinksInv
<1>1. Tidy(Free, Free) /\ ~UpRec(Free) /\ ~ListedRec(Free)
  BY FreeIsTidy DEF Free, UpRec, ListedRec
<1>2. \A l \in Ids : link[l] = Free
  BY DEF Init
<1>3. LinksType
  BY <1>1, <1>2 DEF Init, LinksType, Tidy
<1>4. OneUp /\ StrayUp /\ StrayListed
  BY <1>1, <1>2 DEF OneUp, StrayUp, StrayListed
<1> QED BY <1>3, <1>4 DEF LinksInv, CutLeavesStrays

LEMMA LinksNextInv ==
  ASSUME LinksInv, [Next]_vars
  PROVE  LinksInv'
<1>1. ASSUME ServiceStep PROVE LinksInv'
  BY <1>1, ReconcileInv, CloseDeviceInv, CutSessionsInv, PeopleInv DEF ServiceStep
<1>2. ASSUME NEW l \in Ids, LinkStep(l) PROVE LinksInv'
  <2>1. \/ Connect(l) \/ Accept(l) \/ Attempt(l) \/ DialledIn(l) \/ FirstFrame(l)
        \/ EndsAtD(l) \/ GivesUp(l)
        \/ Land(l) \/ AdoptChecks(l) \/ Adopt(l) \/ Admit(l) \/ Arrives(l) \/ EndsAtC(l) \/ Pong(l)
    BY <1>2, Zenon DEF LinkStep
  <2>2. "C" \in Machines
    BY DEF Machines
  <2> QED BY <2>1, <2>2, LinkOnlyInv, LandInv, AdoptChecksInv, AdoptInv, AdmitInv, LearnsInv,
             EndsAtCInv, PongInv
<1>3. ASSUME NEW l \in Ids,
             StartDial(l) \/ HoldDials(l) \/ FirstFrameLate(l) \/ SendRefused(l)
      PROVE  LinksInv'
  BY <1>3, LinkOnlyInv, SendRefusedInv
<1>4. ASSUME NEW l \in Ids, NEW m \in Machines, Lose(l, m) PROVE LinksInv'
  BY <1>4, LearnsInv
<1>5. ASSUME NEW m \in Machines, Remove(m) \/ SwitchOff(m) \/ SwitchOn(m) PROVE LinksInv'
  BY <1>5, PeopleInv
<1>6. ASSUME Rename PROVE LinksInv'
  BY <1>6, RenameInv
<1>7. ASSUME Pair PROVE LinksInv'
  BY <1>7, PeopleInv DEF Machines
<1>8. ASSUME UNCHANGED vars PROVE LinksInv'
  <2>1. AllTidy
    BY <1>8, StepIsTidy DEF AllTidy, LinksInv, LinksType, vars
  <2>2. RestAlone
    BY <1>8 DEF RestAlone, vars
  <2> QED BY <2>1, <2>2, RestAloneInv
<1> QED BY <1>1, <1>2, <1>3, <1>4, <1>5, <1>6, <1>7, <1>8, Zenon DEF Next

\* The invariant holds: among the rest, a link that C took in time is the one
\* its device shows, is in the map at its address and is the only one up.
THEOREM LinksInvariant == Spec => []LinksInv
<1>1. Init => LinksInv
  BY LinksInitInv
<1>2. LinksInv /\ [Next]_vars => LinksInv'
  BY LinksNextInv
<1> QED BY <1>1, <1>2, PTL DEF Spec

\* A pairing that is gone and a device that is switched off leave no link but a
\* stray one once the task that closes them has run, whatever dials and
\* adoptions were on their way (close_fingerprint, close_device).
THEOREM CutsLeaveNoLink == Spec => []CutLeavesNoLink
<1>1. LinksInv => CutLeavesNoLink
  BY DEF LinksInv, CutLeavesStrays, StrayUp, StrayListed, UpRec, ListedRec, Up, Listed, Open,
         CutLeavesNoLink
<1> QED BY <1>1, LinksInvariant, PTL

\* Once nothing is being made and C has no stray link, what C sends on is what
\* D reads, and it is one link, whichever of the two dialled it and however
\* many were dialled at once (connect_to_handle, Adopter::adopt).
THEOREM BothKeepTheSame == Spec => []EachSideKeepsTheSame
<1>1. LinksInv => EachSideKeepsTheSame
  <2> SUFFICES ASSUME LinksInv, Quiet, ~StrayAtC
               PROVE  /\ \A l \in Ids : Up(l) <=> Listed(l)
                      /\ \A k, l \in Ids : Listed(k) /\ Listed(l) => k = l
    BY DEF EachSideKeepsTheSame
  <2>1. ASSUME NEW l \in Ids PROVE Up(l) <=> Listed(l)
    <3>1. link[l].shut = {} \/ link[l].shut = Machines
      BY DEF Quiet
    <3>2. link[l].c \in {"up", "over"} /\ link[l].d \in {"listed", "over"}
      BY DEF Quiet
    <3>3. OverIsShut(link[l])
      BY DEF LinksInv, LinksType
    <3> QED BY <3>1, <3>2, <3>3 DEF OverIsShut, Up, Listed, Open, Machines
  <2>2. ASSUME NEW k \in Ids, NEW l \in Ids, Up(k), Up(l) PROVE k = l
    <3>1. UpRec(link[k]) /\ UpRec(link[l])
      BY <2>2 DEF Up, Open, UpRec
    <3>2. "C" \notin link[k].stray
      BY DEF StrayAtC
    <3> QED BY <3>1, <3>2 DEF LinksInv, OneUp
  <2> QED BY <2>1, <2>2
<1> QED BY <1>1, LinksInvariant, PTL
====
