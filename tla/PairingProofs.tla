---- MODULE PairingProofs ----
(***************************************************************************)
(* Pick-the-number pairing, for any number of connections, any answers and *)
(* any faults.  For any number of approvals: two machines that hold an     *)
(* attempt hold the same one (BoardInv).  With one approval at each        *)
(* machine: a pairing was answered at both machines, on one connection,    *)
(* with answers that agree, and the machine added has it first             *)
(* (SettleInv, which needs BoardInv).                                      *)
(***************************************************************************)
(* The argument for the second part.  A confirmation names no attempt, so  *)
(* the service settles whatever is on screen.  Of two connections whose    *)
(* numbers both machines can reach, one is spoilt at both: its number is   *)
(* not on screen, and before it could be, the end of the other connection  *)
(* takes the only approval the machine has.  So what is confirmed is what  *)
(* is on screen, or nothing is settled.                                    *)
(***************************************************************************)
EXTENDS Pairing, TLAPS

----------------------------------------------------------------------------
(* The invariant *)

Pcs == {"off", "begun", "waiting", "sent", "number", "hello", "confirm", "link", "over"}

BoardType ==
  /\ dialler \in [Conns -> Machines \cup {"nobody"}]
  /\ pc \in [Machines -> [Conns -> Pcs]]
  /\ wire \in [Machines -> [Conns -> SUBSET {"commitment", "half", "hello"}]]
  /\ flags \in [Machines -> SUBSET {"sent", "told"}]

Half(m, c) == "half" \in wire[m][c]

\* A comparison whose half is not out, and one whose half is.
Early(m, c) == pc[m][c] \in {"begun", "waiting"}
Ahead(m, c) == pc[m][c] \in {"sent", "number", "hello", "confirm"}

\* A connection the end `m' will never hold: done with, or begun beside one
\* whose half went out, whose flag outlives it.
Dead(m, c) == pc[m][c] \in {"over", "link"} \/ (Early(m, c) /\ flags[m] # {})

\* What an end has sent and read by where its task is.
OrderAt(m, c) ==
  /\ dialler[c] = "nobody" => pc[m][c] = "off"
  /\ pc[m][c] = "off" => wire[m][c] = {}
  /\ Half(m, c) => wire[Other(m)][c] # {} /\ ~Early(m, c)
  /\ Ahead(m, c) => Half(m, c)
  /\ pc[m][c] = "waiting" => Opening(m, c) \in wire[Other(m)][c]
  /\ pc[m][c] = "sent" => flags[m] # {} /\ (dialler[c] # m => Half(Other(m), c))
  /\ pc[m][c] \in HeldPcs => Half(Other(m), c)

Order == \A m \in Machines, c \in Conns : OrderAt(m, c)

\* One connection is ahead at a machine, and those begun beside it are dead.
Single ==
  \A m \in Machines, c, d \in Conns :
    (Ahead(m, c) /\ c # d) => ~Ahead(m, d) /\ (Early(m, d) => flags[m] # {})

\* A machine that may still send its half on c, as the other one did, has put
\* behind it every connection d it sent on before; so has the other: it began d
\* before it sent on c.
Behind ==
  \A m \in Machines, c, d \in Conns :
    (c # d /\ Early(m, c) /\ flags[m] = {} /\ Half(m, d) /\ Half(Other(m), c))
      => Dead(Other(m), d)

\* Of two connections both machines sent their halves on, one is dead at both.
Complete(c) == Half(First, c) /\ Half(Second, c)
DeadAtBoth(c) == Dead(First, c) /\ Dead(Second, c)
OneLives ==
  \A c, d \in Conns :
    (c # d /\ Complete(c) /\ Complete(d)) => DeadAtBoth(c) \/ DeadAtBoth(d)

BoardInv == BoardType /\ Order /\ Single /\ Behind /\ OneLives

----------------------------------------------------------------------------
(* Facts about machines and ends *)

LEMMA OtherFacts ==
  \A m \in Machines : Other(m) \in Machines /\ Other(m) # m /\ Other(Other(m)) = m
BY PairingAssumption DEF Machines, Other

\* One end changes.
LEMMA OneEnd ==
  ASSUME NEW S, NEW f \in [Machines -> [Conns -> S]], NEW m \in Machines, NEW c \in Conns,
         NEW x \in S
  PROVE  /\ [f EXCEPT ![m][c] = x] \in [Machines -> [Conns -> S]]
         /\ \A n \in Machines, d \in Conns :
              [f EXCEPT ![m][c] = x][n][d] = IF n = m /\ d = c THEN x ELSE f[n][d]
OBVIOUS

\* One machine's ends change.
LEMMA OneMachine ==
  ASSUME NEW S, NEW f \in [Machines -> [Conns -> S]], NEW m \in Machines,
         NEW g \in [Conns -> S]
  PROVE  /\ [f EXCEPT ![m] = g] \in [Machines -> [Conns -> S]]
         /\ \A n \in Machines, d \in Conns :
              [f EXCEPT ![m] = g][n][d] = IF n = m THEN g[d] ELSE f[n][d]
OBVIOUS

\* A step that sends no half, revives nothing, and begins only where the other
\* machine has sent none.
Fades ==
  \A m \in Machines, c \in Conns :
    /\ Half(m, c)' <=> Half(m, c)
    /\ Dead(m, c) => Dead(m, c)'
    /\ (Early(m, c)' /\ flags'[m] = {}) => (Early(m, c) /\ flags[m] = {}) \/ ~Half(Other(m), c)

LEMMA FadesKeep ==
  ASSUME Fades, Behind, OneLives
  PROVE  Behind' /\ OneLives'
<1>1. Behind'
  <2> SUFFICES ASSUME NEW m \in Machines, NEW c \in Conns, NEW d \in Conns, c # d,
                      Early(m, c)', flags'[m] = {}, Half(m, d)', Half(Other(m), c)'
               PROVE  Dead(Other(m), d)'
    BY DEF Behind
  <2>1. Other(m) \in Machines
    BY OtherFacts
  <2>2. Half(m, d) /\ Half(Other(m), c)
    BY <2>1 DEF Fades
  <2>3. Early(m, c) /\ flags[m] = {}
    BY <2>2 DEF Fades
  <2>4. Dead(Other(m), d)
    BY <2>2, <2>3 DEF Behind
  <2> QED BY <2>1, <2>4 DEF Fades
<1>2. OneLives'
  <2>1. First \in Machines /\ Second \in Machines
    BY DEF Machines
  <2>2. ASSUME NEW c \in Conns PROVE (Complete(c)' => Complete(c)) /\ (DeadAtBoth(c) => DeadAtBoth(c)')
    BY <2>1 DEF Fades, Complete, DeadAtBoth
  <2> QED BY <2>2 DEF OneLives
<1> QED BY <1>1, <1>2

----------------------------------------------------------------------------
(* The steps *)

\* The invariant is of the board and the wire alone.
boardWire == <<dialler, pc, wire, flags>>

LEMMA UnchangedInv ==
  ASSUME BoardInv, UNCHANGED boardWire
  PROVE  BoardInv'
BY DEF BoardInv, BoardType, Order, OrderAt, Single, Behind, OneLives, Complete, DeadAtBoth, Dead, Half,
       Early, Ahead, Opening, boardWire

LEMMA BoardInitInv ==
  ASSUME Init
  PROVE  BoardInv
<1>1. /\ dialler = [c \in Conns |-> "nobody"] /\ pc = AtEnds("off") /\ wire = AtEnds({})
      /\ flags = [m \in Machines |-> {}]
  BY DEF Init
<1>2. BoardType
  BY <1>1 DEF BoardType, AtEnds, Pcs
<1>3. \A m \in Machines, c \in Conns : pc[m][c] = "off" /\ wire[m][c] = {}
  BY <1>1 DEF AtEnds
<1>4. Order
  BY <1>3 DEF Order, OrderAt, Half, Early, Ahead, HeldPcs
<1>5. Single /\ Behind
  BY <1>3 DEF Single, Behind, Early, Ahead
<1>6. OneLives
  BY <1>3 DEF OneLives, Complete, Half, Machines
<1> QED BY <1>2, <1>4, <1>5, <1>6 DEF BoardInv

\* A dial makes a connection neither end has begun.
LEMMA DialInv ==
  ASSUME BoardInv, NEW m \in Machines, NEW c \in Conns, Dial(m, c)
  PROVE  BoardInv'
<1>1. /\ dialler[c] = "nobody" /\ dialler' = [dialler EXCEPT ![c] = m]
      /\ UNCHANGED <<pc, wire, flags>>
  BY DEF Dial, boardVars
<1>2. BoardType'
  BY <1>1 DEF BoardInv, BoardType
<1>3. \A d \in Conns : dialler'[d] = IF d = c THEN m ELSE dialler[d]
  BY <1>1 DEF BoardInv, BoardType
<1>4. \A n \in Machines : pc[n][c] = "off"
  BY <1>1 DEF BoardInv, Order, OrderAt
<1>5. Order'
  <2> SUFFICES ASSUME NEW n \in Machines, NEW d \in Conns
               PROVE  OrderAt(n, d)'
    BY DEF Order
  <2>1. CASE d = c
    BY <1>1, <1>4, <2>1 DEF BoardInv, Order, OrderAt, Half, Early, Ahead, HeldPcs
  <2>2. CASE d # c
    BY <1>1, <1>3, <2>2 DEF BoardInv, Order, OrderAt, Half, Early, Ahead, Opening
  <2> QED BY <2>1, <2>2
<1>6. Single' /\ Behind' /\ OneLives'
  BY <1>1 DEF BoardInv, Single, Behind, OneLives, Complete, DeadAtBoth, Dead, Half, Early, Ahead
<1> QED BY <1>2, <1>5, <1>6 DEF BoardInv

\* One end of one connection moves on: what each kind of move needs.
Moves(m, c, x) ==
  /\ \A n \in Machines, d \in Conns : pc'[n][d] = IF n = m /\ d = c THEN x ELSE pc[n][d]
  /\ dialler' = dialler

FlagsTo(m, fs) ==
  \A n \in Machines : flags'[n] = IF n = m THEN fs ELSE flags[n]

Sends(m, c, bytes) ==
  \A n \in Machines, d \in Conns :
    wire'[n][d] = IF n = m /\ d = c THEN wire[m][c] \cup bytes ELSE wire[n][d]

\* A held attempt goes on, or ends.
LEMMA HeldMovesInv ==
  ASSUME BoardInv, NEW m \in Machines, NEW c \in Conns, pc[m][c] \in HeldPcs,
         NEW x \in HeldPcs \cup {"link", "over"}, NEW bytes \in SUBSET {"hello"},
         BoardType', Moves(m, c, x), Sends(m, c, bytes), flags' = flags
  PROVE  BoardInv'
<1>1. \A n \in Machines, d \in Conns : pc'[n][d] = IF n = m /\ d = c THEN x ELSE pc[n][d]
  BY DEF Moves
<1>2. \A n \in Machines, d \in Conns :
         wire'[n][d] = IF n = m /\ d = c THEN wire[m][c] \cup bytes ELSE wire[n][d]
  BY DEF Sends
<1>3. \A n \in Machines, d \in Conns :
        /\ Half(n, d)' <=> Half(n, d)
        /\ wire[n][d] \subseteq wire'[n][d]
        /\ (pc'[n][d] = "off" => wire'[n][d] = wire[n][d])
  BY <1>1, <1>2 DEF Half, HeldPcs
<1>4. \A n \in Machines, d \in Conns :
        /\ Early(n, d)' <=> Early(n, d)
        /\ Ahead(n, d)' => Ahead(n, d)
        /\ Dead(n, d) => Dead(n, d)'
        /\ pc'[n][d] \in HeldPcs => pc[n][d] \in HeldPcs
        /\ pc'[n][d] \in {"waiting", "sent", "off"} => pc[n][d] = pc'[n][d]
        /\ dialler[d] = "nobody" => pc'[n][d] = "off"
  <2>1. dialler[c] # "nobody"
    BY DEF BoardInv, Order, OrderAt, HeldPcs
  <2>2. \A n \in Machines, d \in Conns : dialler[d] = "nobody" => pc[n][d] = "off"
    BY DEF BoardInv, Order, OrderAt
  <2> QED BY <1>1, <2>1, <2>2 DEF Early, Ahead, Dead, HeldPcs
<1>5. Order'
  <2> SUFFICES ASSUME NEW n \in Machines, NEW d \in Conns
               PROVE  OrderAt(n, d)'
    BY DEF Order
  <2>0. Other(n) \in Machines /\ dialler' = dialler
    BY OtherFacts DEF Moves
  <2>1. OrderAt(n, d)
    BY DEF BoardInv, Order
  <2>2. Opening(n, d)' = Opening(n, d)
    BY <2>0 DEF Opening
  <2>3. wire'[Other(n)][d] = {} => wire[Other(n)][d] = {}
    BY <1>3, <2>0
  <2>4. pc'[n][d] = "waiting" => Opening(n, d)' \in wire'[Other(n)][d]
    BY <1>3, <1>4, <2>0, <2>1, <2>2 DEF OrderAt
  <2> QED BY <1>3, <1>4, <2>0, <2>1, <2>3, <2>4 DEF OrderAt
<1>6. Single'
  BY <1>4 DEF BoardInv, Single
<1>7. Fades
  BY <1>3, <1>4 DEF Fades
<1> QED BY <1>5, <1>6, <1>7, FadesKeep DEF BoardInv

\* A comparison is counted out, over or with its number: the flags outlive it
\* while another is under way.
LEMMA CountedOutInv ==
  ASSUME BoardInv, NEW m \in Machines, NEW c \in Conns, pc[m][c] \in ArrivingPcs,
         NEW x, x = "over" \/ (x = "number" /\ pc[m][c] = "sent" /\ Half(Other(m), c)),
         NEW told \in SUBSET {"told"},
         BoardType', Moves(m, c, x), wire' = wire, CountOut(m, c, told)
  PROVE  BoardInv'
<1>1. \A n \in Machines, d \in Conns : pc'[n][d] = IF n = m /\ d = c THEN x ELSE pc[n][d]
  BY DEF Moves
<1>2. \A n \in Machines : n # m => flags'[n] = flags[n]
  BY DEF CountOut, BoardInv, BoardType
<1>3. \A d \in Conns : (d # c /\ pc[m][d] \in ArrivingPcs) => flags[m] \subseteq flags'[m]
  <2>1. flags'[m] = IF Arriving(m) = {c} THEN {} ELSE flags[m] \cup told
    BY DEF CountOut, BoardInv, BoardType
  <2>2. ASSUME NEW d \in Conns, d # c, pc[m][d] \in ArrivingPcs PROVE Arriving(m) # {c}
    <3>1. d \in Arriving(m)
      BY <2>2 DEF Arriving
    <3> QED BY <2>2, <3>1
  <2> QED BY <2>1, <2>2
<1>4. \A n \in Machines, d \in Conns : Half(n, d)' <=> Half(n, d)
  BY DEF Half
<1>5. \A n \in Machines, d \in Conns : (n # m \/ d # c) =>
        /\ pc'[n][d] = pc[n][d]
        /\ pc[n][d] \in {"begun", "waiting", "sent"} => flags[n] \subseteq flags'[n]
  BY <1>1, <1>2, <1>3 DEF ArrivingPcs
<1>6. pc'[m][c] = x
  BY <1>1
<1>7. \A n \in Machines, d \in Conns :
        /\ Early(n, d)' => Early(n, d) /\ flags[n] \subseteq flags'[n]
        /\ Ahead(n, d)' => Ahead(n, d)
        /\ Dead(n, d) => Dead(n, d)'
  BY <1>5, <1>6 DEF Early, Ahead, Dead
<1>8. Order'
  <2> SUFFICES ASSUME NEW n \in Machines, NEW d \in Conns
               PROVE  OrderAt(n, d)'
    BY DEF Order
  <2>0. Other(n) \in Machines /\ dialler' = dialler
    BY OtherFacts DEF Moves
  <2>1. OrderAt(n, d)
    BY DEF BoardInv, Order
  <2>2. Opening(n, d)' = Opening(n, d)
    BY <2>0 DEF Opening
  <2>3. CASE n = m /\ d = c
    <3>1. dialler[c] # "nobody" /\ ~Early(m, c)' /\ (x = "number" => Half(m, c))
      BY <1>6, <2>1, <2>3 DEF OrderAt, ArrivingPcs, Early, Ahead
    <3>2. pc'[n][d] = x /\ Half(n, d)' = Half(n, d) /\ Half(Other(n), d)' = Half(Other(n), d)
      BY <1>6, <2>3 DEF Half
    <3>3. x = "number" => Half(n, d) /\ Half(Other(n), d)
      BY <2>3, <3>1
    <3>4. Half(n, d)' => wire'[Other(n)][d] # {}
      BY <2>1, <3>2 DEF OrderAt
    <3>5. x \in {"over", "number"}
      OBVIOUS
    <3> QED BY <2>0, <2>3, <3>1, <3>2, <3>3, <3>4, <3>5 DEF OrderAt, Ahead, HeldPcs
  <2>4. CASE ~(n = m /\ d = c)
    <3>1. pc'[n][d] = pc[n][d] /\ (pc[n][d] = "sent" => flags[n] \subseteq flags'[n])
      BY <1>5, <2>4
    <3> QED BY <1>4, <1>7, <2>0, <2>1, <2>2, <3>1 DEF OrderAt
  <2> QED BY <2>3, <2>4
<1>9. Single'
  <2> SUFFICES ASSUME NEW n \in Machines, NEW d \in Conns, NEW e \in Conns, Ahead(n, d)', d # e
               PROVE  ~Ahead(n, e)' /\ (Early(n, e)' => flags'[n] # {})
    BY DEF Single
  <2> QED BY <1>7 DEF BoardInv, Single
<1>10. Fades
  <2> SUFFICES ASSUME NEW n \in Machines, NEW d \in Conns
               PROVE  /\ Half(n, d)' <=> Half(n, d)
                      /\ Dead(n, d) => Dead(n, d)'
                      /\ (Early(n, d)' /\ flags'[n] = {}) => (Early(n, d) /\ flags[n] = {})
    BY DEF Fades
  <2> QED BY <1>4, <1>7
<1> QED BY <1>8, <1>9, <1>10, FadesKeep DEF BoardInv

\* A comparison held back waits.
LEMMA WaitInv ==
  ASSUME BoardInv, NEW m \in Machines, NEW c \in Conns, Wait(m, c)
  PROVE  BoardInv'
<1>0. /\ pc[m][c] = "begun" /\ Opening(m, c) \in wire[Other(m)][c]
      /\ pc' = [pc EXCEPT ![m][c] = "waiting"] /\ UNCHANGED <<dialler, wire, flags>>
  BY DEF Wait, linkVars
<1>1. /\ pc' \in [Machines -> [Conns -> Pcs]]
      /\ \A n \in Machines, d \in Conns : pc'[n][d] = IF n = m /\ d = c THEN "waiting" ELSE pc[n][d]
  <2>1. "waiting" \in Pcs
    BY DEF Pcs
  <2> QED BY <1>0, <2>1, OneEnd DEF BoardInv, BoardType
<1>2. BoardType'
  BY <1>0, <1>1 DEF BoardInv, BoardType
<1>3. \A n \in Machines, d \in Conns :
        /\ Half(n, d)' <=> Half(n, d)
        /\ Early(n, d)' <=> Early(n, d)
        /\ Ahead(n, d)' <=> Ahead(n, d)
        /\ Dead(n, d)' <=> Dead(n, d)
        /\ Opening(n, d)' = Opening(n, d)
  BY <1>0, <1>1 DEF Half, Early, Ahead, Dead, Opening
<1>4. Order'
  <2> SUFFICES ASSUME NEW n \in Machines, NEW d \in Conns
               PROVE  OrderAt(n, d)'
    BY DEF Order
  <2>1. OrderAt(n, d) /\ Other(n) \in Machines
    BY OtherFacts DEF BoardInv, Order
  <2>2. (n = m /\ d = c) => pc'[n][d] = "waiting" /\ dialler[d] # "nobody"
    BY <1>0, <1>1, <2>1 DEF OrderAt
  <2>3. ~(n = m /\ d = c) => pc'[n][d] = pc[n][d]
    BY <1>1
  <2> QED BY <1>0, <1>3, <2>1, <2>2, <2>3 DEF OrderAt, HeldPcs
<1>5. Single'
  BY <1>0, <1>3 DEF BoardInv, Single
<1>6. Fades
  BY <1>0, <1>3 DEF Fades
<1> QED BY <1>2, <1>4, <1>5, <1>6, FadesKeep DEF BoardInv

\* The links of a machine that is removed are over.
LEMMA RemoveInv ==
  ASSUME BoardInv, NEW m \in Machines, Remove(m)
  PROVE  BoardInv'
<1> DEFINE g == [c \in Conns |-> IF c \in {d \in Conns : pc[m][d] = "link"} THEN "over" ELSE pc[m][c]]
<1>0. pc' = [pc EXCEPT ![m] = g] /\ UNCHANGED <<dialler, wire, flags>>
  BY DEF Remove
<1>1. g \in [Conns -> Pcs] /\ \A d \in Conns : g[d] = IF pc[m][d] = "link" THEN "over" ELSE pc[m][d]
  BY DEF BoardInv, BoardType, Pcs
<1> HIDE DEF g
<1>2. /\ pc' \in [Machines -> [Conns -> Pcs]]
      /\ \A n \in Machines, d \in Conns : pc'[n][d] = IF n = m THEN g[d] ELSE pc[n][d]
  BY <1>0, <1>1, OneMachine DEF BoardInv, BoardType
<1>3. \A n \in Machines, d \in Conns :
        pc'[n][d] = pc[n][d] \/ (pc[n][d] = "link" /\ pc'[n][d] = "over")
  BY <1>1, <1>2
<1>4. BoardType'
  BY <1>0, <1>2 DEF BoardInv, BoardType
<1>5. \A n \in Machines, d \in Conns :
        /\ Half(n, d)' <=> Half(n, d)
        /\ Early(n, d)' <=> Early(n, d)
        /\ Ahead(n, d)' <=> Ahead(n, d)
        /\ Dead(n, d)' <=> Dead(n, d)
        /\ Opening(n, d)' = Opening(n, d)
  BY <1>0, <1>3 DEF Half, Early, Ahead, Dead, Opening
<1>6. Order'
  <2> SUFFICES ASSUME NEW n \in Machines, NEW d \in Conns
               PROVE  OrderAt(n, d)'
    BY DEF Order
  <2>1. OrderAt(n, d) /\ Other(n) \in Machines
    BY OtherFacts DEF BoardInv, Order
  <2>2. pc'[n][d] = pc[n][d] \/ (pc[n][d] = "link" /\ pc'[n][d] = "over")
    BY <1>3
  <2> QED BY <1>0, <1>5, <2>1, <2>2 DEF OrderAt, HeldPcs
<1>7. Single'
  BY <1>0, <1>5 DEF BoardInv, Single
<1>8. Fades
  BY <1>0, <1>5 DEF Fades
<1> QED BY <1>4, <1>6, <1>7, <1>8, FadesKeep DEF BoardInv

\* A daemon that starts again has begun nothing.
LEMMA RestartInv ==
  ASSUME BoardInv, NEW m \in Machines, Restart(m)
  PROVE  BoardInv'
<1> DEFINE g == [c \in Conns |-> IF dialler[c] # "nobody" THEN "over" ELSE pc[m][c]]
<1>0. /\ pc' = [pc EXCEPT ![m] = g] /\ flags' = [flags EXCEPT ![m] = {}]
      /\ UNCHANGED <<dialler, wire>>
  BY DEF Restart
<1>1. g \in [Conns -> Pcs]
  BY DEF BoardInv, BoardType, Pcs
<1>2. \A d \in Conns : g[d] = IF dialler[d] # "nobody" THEN "over" ELSE pc[m][d]
  OBVIOUS
<1> HIDE DEF g
<1>3. /\ pc' \in [Machines -> [Conns -> Pcs]]
      /\ \A n \in Machines, d \in Conns : pc'[n][d] = IF n = m THEN g[d] ELSE pc[n][d]
  BY <1>0, <1>1, OneMachine DEF BoardInv, BoardType
<1>4. BoardType'
  BY <1>0, <1>3 DEF BoardInv, BoardType
<1>5. \A n \in Machines : n # m => flags'[n] = flags[n]
  BY <1>0 DEF BoardInv, BoardType
<1>6. \A d \in Conns : pc'[m][d] = IF dialler[d] = "nobody" THEN "off" ELSE "over"
  BY <1>2, <1>3 DEF BoardInv, Order, OrderAt
<1>7. \A n \in Machines, d \in Conns : n # m => pc'[n][d] = pc[n][d]
  BY <1>3
<1>8. \A n \in Machines, d \in Conns :
        /\ Half(n, d)' <=> Half(n, d)
        /\ Opening(n, d)' = Opening(n, d)
        /\ Early(n, d)' => n # m /\ Early(n, d)
        /\ Ahead(n, d)' => n # m /\ Ahead(n, d)
  BY <1>0, <1>6, <1>7 DEF Half, Opening, Early, Ahead
<1>9. ASSUME NEW n \in Machines, NEW d \in Conns, Dead(n, d) PROVE Dead(n, d)'
  <2>1. CASE n # m
    BY <1>5, <1>7, <1>9, <2>1 DEF Dead, Early
  <2>2. CASE n = m
    <3>1. dialler[d] # "nobody"
      BY <1>9 DEF Dead, Early, BoardInv, Order, OrderAt
    <3> QED BY <1>6, <2>2, <3>1 DEF Dead
  <2> QED BY <2>1, <2>2
<1>10. Order'
  <2> SUFFICES ASSUME NEW n \in Machines, NEW d \in Conns
               PROVE  OrderAt(n, d)'
    BY DEF Order
  <2>1. OrderAt(n, d) /\ Other(n) \in Machines
    BY OtherFacts DEF BoardInv, Order
  <2>2. CASE n = m
    <3>1. pc[n][d] # "off" \/ wire[n][d] = {}
      BY <2>1 DEF OrderAt
    <3>2. dialler[d] = "nobody" => pc[n][d] = "off"
      BY <2>1 DEF OrderAt
    <3> QED BY <1>0, <1>6, <1>8, <2>1, <2>2, <3>1, <3>2 DEF OrderAt, HeldPcs
  <2>3. CASE n # m
    BY <1>0, <1>5, <1>7, <1>8, <2>1, <2>3 DEF OrderAt
  <2> QED BY <2>2, <2>3
<1>11. Single'
  BY <1>5, <1>8 DEF BoardInv, Single
<1>12. Fades
  BY <1>5, <1>8, <1>9 DEF Fades
<1> QED BY <1>4, <1>10, <1>11, <1>12, FadesKeep DEF BoardInv

\* A connection comes up at one end.  Nobody has sent a half on it.
LEMMA LandInv ==
  ASSUME BoardInv, NEW m \in Machines, NEW c \in Conns, Land(m, c)
  PROVE  BoardInv'
<1> DEFINE dropped == IF dialler[c] = m THEN Dialling(m) \ {c} ELSE {}
           with(to) == [d \in Conns |-> IF d = c THEN to ELSE IF d \in dropped THEN "over" ELSE pc[m][d]]
<1>0. /\ dialler[c] # "nobody" /\ pc[m][c] = "off" /\ UNCHANGED <<dialler, flags>>
  BY DEF Land
<1>1. PICK to \in {"begun", "link", "over"}, bytes \in SUBSET {"commitment"} :
        /\ pc' = [pc EXCEPT ![m] = with(to)]
        /\ wire' = [wire EXCEPT ![m][c] = wire[m][c] \cup bytes]
        /\ to = "begun" => Held(m) = {} /\ flags[m] = {}
  <2>0. [wire EXCEPT ![m][c] = wire[m][c] \cup {}] = wire
    BY DEF BoardInv, BoardType
  <2>1. CASE lease[m].state = "approved" /\ Held(m) = {} /\ flags[m] = {}
    <3>1. pc' = [pc EXCEPT ![m] = with("begun")]
      BY <2>1 DEF Land
    <3>2. \/ wire' = wire
          \/ wire' = [wire EXCEPT ![m][c] = wire[m][c] \cup {"commitment"}]
      BY <2>1 DEF Land
    <3>3. PICK bytes \in SUBSET {"commitment"} : wire' = [wire EXCEPT ![m][c] = wire[m][c] \cup bytes]
      BY <2>0, <3>2
    <3> HIDE DEF with
    <3> QED BY <2>1, <3>1, <3>3
  <2>2. CASE ~(lease[m].state = "approved" /\ Held(m) = {} /\ flags[m] = {})
    <3>1. wire' = wire /\ pc' = [pc EXCEPT ![m] = with(IF lease[m].state = "paired" THEN "link" ELSE "over")]
      BY <2>2 DEF Land
    <3> HIDE DEF with
    <3>2. PICK to \in {"link", "over"} : pc' = [pc EXCEPT ![m] = with(to)]
      BY <3>1
    <3>3. {} \in SUBSET {"commitment"} /\ to # "begun" /\ to \in {"begun", "link", "over"}
      BY <3>2
    <3>4. wire' = [wire EXCEPT ![m][c] = wire[m][c] \cup {}]
      BY <2>0, <3>1
    <3> QED BY <3>2, <3>3, <3>4
  <2> QED BY <2>1, <2>2
<1>2. with(to) \in [Conns -> Pcs]
  BY DEF BoardInv, BoardType, Pcs
<1>3. \A d \in Conns : (d \in dropped) => dialler[d] = m /\ pc[m][d] = "off"
  BY DEF Dialling
<1>4. \A d \in Conns : with(to)[d] = IF d = c THEN to ELSE IF d \in dropped THEN "over" ELSE pc[m][d]
  OBVIOUS
<1> HIDE DEF with, dropped
<1>5. /\ pc' \in [Machines -> [Conns -> Pcs]]
      /\ \A n \in Machines, d \in Conns : pc'[n][d] = IF n = m THEN with(to)[d] ELSE pc[n][d]
  BY <1>1, <1>2, OneMachine DEF BoardInv, BoardType
<1>6. wire[m][c] \cup bytes \in SUBSET {"commitment", "half", "hello"}
  <2>1. wire[m][c] \in SUBSET {"commitment", "half", "hello"}
    BY DEF BoardInv, BoardType
  <2> QED BY <1>1, <2>1
<1>7. /\ wire' \in [Machines -> [Conns -> SUBSET {"commitment", "half", "hello"}]]
      /\ \A n \in Machines, d \in Conns :
           wire'[n][d] = IF n = m /\ d = c THEN wire[m][c] \cup bytes ELSE wire[n][d]
  BY <1>1, <1>6, OneEnd DEF BoardInv, BoardType
<1>8. BoardType'
  BY <1>0, <1>5, <1>7 DEF BoardInv, BoardType
<1>9. \A n \in Machines, d \in Conns :
        \/ pc'[n][d] = pc[n][d] /\ wire'[n][d] = wire[n][d]
        \/ n = m /\ pc[n][d] = "off" /\ dialler[d] # "nobody" /\ pc'[n][d] \in {"link", "over"}
             /\ "half" \notin (wire'[n][d] \ wire[n][d]) /\ wire[n][d] \subseteq wire'[n][d]
        \/ n = m /\ pc[n][d] = "off" /\ dialler[d] # "nobody" /\ pc'[n][d] = "begun"
             /\ "half" \notin (wire'[n][d] \ wire[n][d]) /\ wire[n][d] \subseteq wire'[n][d]
             /\ Held(m) = {} /\ flags[m] = {}
  BY <1>0, <1>1, <1>3, <1>4, <1>5, <1>7, PairingAssumption
<1>10. \A n \in Machines, d \in Conns :
        /\ Half(n, d)' <=> Half(n, d)
        /\ wire[n][d] \subseteq wire'[n][d]
        /\ Opening(n, d)' = Opening(n, d)
        /\ Ahead(n, d)' <=> Ahead(n, d)
        /\ Dead(n, d) => Dead(n, d)'
        /\ Early(n, d)' => Early(n, d)
             \/ (n = m /\ pc[n][d] = "off" /\ Held(m) = {} /\ flags[m] = {})
  BY <1>0, <1>9 DEF Half, Opening, Ahead, Dead, Early
<1>11. \A n \in Machines, d \in Conns : pc[n][d] = "off" => ~Half(n, d) /\ ~Half(Other(n), d)
  <2> SUFFICES ASSUME NEW n \in Machines, NEW d \in Conns, pc[n][d] = "off"
               PROVE  ~Half(n, d) /\ ~Half(Other(n), d)
    OBVIOUS
  <2>1. wire[n][d] = {}
    BY DEF BoardInv, Order, OrderAt
  <2>2. Half(Other(n), d) => wire[Other(Other(n))][d] # {}
    BY OtherFacts DEF BoardInv, Order, OrderAt
  <2> QED BY <2>1, <2>2, OtherFacts DEF Half
<1>12. Order'
  <2> SUFFICES ASSUME NEW n \in Machines, NEW d \in Conns
               PROVE  OrderAt(n, d)'
    BY DEF Order
  <2>1. OrderAt(n, d) /\ Other(n) \in Machines
    BY OtherFacts DEF BoardInv, Order
  <2>2. wire[Other(n)][d] \subseteq wire'[Other(n)][d] /\ (Half(Other(n), d)' <=> Half(Other(n), d))
    BY <1>10, <2>1
  <2>3. CASE pc'[n][d] = pc[n][d] /\ wire'[n][d] = wire[n][d]
    BY <1>0, <1>10, <2>1, <2>2, <2>3 DEF OrderAt, Early
  <2>4. CASE pc[n][d] = "off" /\ dialler[d] # "nobody" /\ pc'[n][d] \in {"begun", "link", "over"}
    <3>1. ~Half(n, d)' /\ ~Ahead(n, d)'
      BY <1>10, <1>11, <2>4 DEF Ahead
    <3> QED BY <1>0, <2>4, <3>1 DEF OrderAt, HeldPcs
  <2> QED BY <1>9, <2>3, <2>4
<1>13. Single'
  <2> SUFFICES ASSUME NEW n \in Machines, NEW d \in Conns, NEW e \in Conns, Ahead(n, d)', d # e
               PROVE  ~Ahead(n, e)' /\ (Early(n, e)' => flags'[n] # {})
    BY DEF Single
  <2>1. Ahead(n, d)
    BY <1>10
  <2>2. ~Ahead(n, e) /\ (Early(n, e) => flags[n] # {})
    BY <2>1 DEF BoardInv, Single
  <2>3. ~(n = m /\ Held(m) = {} /\ flags[m] = {})
    BY <2>1 DEF Ahead, Held, HeldPcs, BoardInv, Order, OrderAt
  <2> QED BY <1>0, <1>10, <2>2, <2>3
<1>14. Fades
  <2> SUFFICES ASSUME NEW n \in Machines, NEW d \in Conns
               PROVE  /\ Half(n, d)' <=> Half(n, d)
                      /\ Dead(n, d) => Dead(n, d)'
                      /\ (Early(n, d)' /\ flags'[n] = {})
                            => (Early(n, d) /\ flags[n] = {}) \/ ~Half(Other(n), d)
    BY DEF Fades
  <2> QED BY <1>0, <1>10, <1>11
<1> QED BY <1>8, <1>12, <1>13, <1>14, FadesKeep DEF BoardInv

\* The half goes out: nothing else is ahead here, and what was begun beside it
\* is dead from now on.
LEMMA SendHalfInv ==
  ASSUME BoardInv, NEW m \in Machines, NEW c \in Conns, SendHalf(m, c)
  PROVE  BoardInv'
<1>0. /\ Early(m, c) /\ Held(m) = {} /\ flags[m] = {} /\ dialler' = dialler
      /\ pc' = [pc EXCEPT ![m][c] = "sent"] /\ flags' = [flags EXCEPT ![m] = {"sent"}]
      /\ wire' = [wire EXCEPT ![m][c] = wire[m][c] \cup {"half"}]
  BY DEF SendHalf, MaySend, Early
<1>1. Opening(m, c) \in wire[Other(m)][c]
  BY DEF SendHalf, BoardInv, Order, OrderAt
<1>2. /\ pc' \in [Machines -> [Conns -> Pcs]]
      /\ \A n \in Machines, d \in Conns : pc'[n][d] = IF n = m /\ d = c THEN "sent" ELSE pc[n][d]
  <2>1. "sent" \in Pcs
    BY DEF Pcs
  <2> QED BY <1>0, <2>1, OneEnd DEF BoardInv, BoardType
<1>3. /\ wire' \in [Machines -> [Conns -> SUBSET {"commitment", "half", "hello"}]]
      /\ \A n \in Machines, d \in Conns :
           wire'[n][d] = IF n = m /\ d = c THEN wire[m][c] \cup {"half"} ELSE wire[n][d]
  <2>1. wire[m][c] \cup {"half"} \in SUBSET {"commitment", "half", "hello"}
    BY DEF BoardInv, BoardType
  <2> QED BY <1>0, <2>1, OneEnd DEF BoardInv, BoardType
<1>4. flags' \in [Machines -> SUBSET {"sent", "told"}] /\ flags'[m] = {"sent"}
      /\ \A n \in Machines : n # m => flags'[n] = flags[n]
  BY <1>0 DEF BoardInv, BoardType
<1>5. BoardType'
  BY <1>0, <1>2, <1>3, <1>4 DEF BoardInv, BoardType
<1>6. \A n \in Machines, d \in Conns :
        /\ Half(n, d)' <=> (Half(n, d) \/ (n = m /\ d = c))
        /\ wire[n][d] \subseteq wire'[n][d]
        /\ Opening(n, d)' = Opening(n, d)
        /\ Ahead(n, d)' <=> (Ahead(n, d) \/ (n = m /\ d = c))
        /\ Early(n, d)' <=> (Early(n, d) /\ ~(n = m /\ d = c))
  BY <1>0, <1>2, <1>3 DEF Half, Opening, Ahead, Early
<1>7. \A d \in Conns : ~Ahead(m, d)
  BY <1>0 DEF Ahead, Held, HeldPcs, BoardInv, Order, OrderAt
<1>8. \A n \in Machines, d \in Conns : Dead(n, d) => Dead(n, d)'
  BY <1>0, <1>2, <1>4 DEF Dead, Early
\* What m began, and is not c, is dead there now.
<1>9. \A d \in Conns : (d # c /\ pc[m][d] # "off") => Dead(m, d)'
  <2> SUFFICES ASSUME NEW d \in Conns, d # c, pc[m][d] # "off"
               PROVE  Dead(m, d)'
    OBVIOUS
  <2>1. pc'[m][d] = pc[m][d] /\ pc[m][d] \in Pcs /\ flags'[m] # {}
    BY <1>2, <1>4 DEF BoardInv, BoardType
  <2>2. pc[m][d] \notin {"sent", "number", "hello", "confirm"}
    BY <1>7 DEF Ahead
  <2> QED BY <2>1, <2>2 DEF Dead, Early, Pcs
<1>10. Order'
  <2> SUFFICES ASSUME NEW n \in Machines, NEW d \in Conns
               PROVE  OrderAt(n, d)'
    BY DEF Order
  <2>1. OrderAt(n, d) /\ Other(n) \in Machines /\ Other(n) # n
    BY OtherFacts DEF BoardInv, Order
  <2>2. CASE n = m /\ d = c
    <3>1. /\ pc'[n][d] = "sent" /\ Half(n, d)' /\ ~Early(n, d)' /\ flags'[n] # {}
          /\ dialler'[d] # "nobody"
      BY <1>0, <1>2, <1>4, <1>6, <2>1, <2>2 DEF OrderAt, Early
    <3>2. wire'[Other(n)][d] # {}
      BY <1>1, <1>6, <2>1, <2>2
    <3>3. dialler'[d] # n => Half(Other(n), d)'
      BY <1>0, <1>1, <1>6, <2>1, <2>2 DEF Opening, Half
    <3> QED BY <3>1, <3>2, <3>3 DEF OrderAt, HeldPcs
  <2>3. CASE ~(n = m /\ d = c)
    <3>1. /\ pc'[n][d] = pc[n][d] /\ wire'[n][d] = wire[n][d]
          /\ wire[Other(n)][d] \subseteq wire'[Other(n)][d]
          /\ (Half(Other(n), d) => Half(Other(n), d)')
          /\ flags[n] # {} => flags'[n] # {}
      BY <1>2, <1>3, <1>4, <1>6, <2>1, <2>3
    <3> QED BY <1>0, <1>6, <2>1, <2>3, <3>1 DEF OrderAt
  <2> QED BY <2>2, <2>3
<1>11. Single'
  <2> SUFFICES ASSUME NEW n \in Machines, NEW d \in Conns, NEW e \in Conns, Ahead(n, d)', d # e
               PROVE  ~Ahead(n, e)' /\ (Early(n, e)' => flags'[n] # {})
    BY DEF Single
  <2>1. CASE n = m
    BY <1>4, <1>6, <1>7, <2>1
  <2>2. CASE n # m
    BY <1>4, <1>6, <2>2 DEF BoardInv, Single
  <2> QED BY <2>1, <2>2
<1>12. Behind'
  <2> SUFFICES ASSUME NEW n \in Machines, NEW e \in Conns, NEW d \in Conns, e # d,
                      Early(n, e)', flags'[n] = {}, Half(n, d)', Half(Other(n), e)'
               PROVE  Dead(Other(n), d)'
    BY DEF Behind
  <2>1. n # m /\ Other(n) = m /\ n = Other(m)
    BY <1>4, OtherFacts DEF Machines, Other
  <2>2. Half(n, d) /\ Early(n, e) /\ flags[n] = {}
    BY <1>4, <1>6, <2>1
  <2>3. pc[m][d] # "off"
    <3>1. wire[Other(n)][d] # {}
      BY <2>2 DEF BoardInv, Order, OrderAt
    <3> QED BY <2>1, <3>1 DEF BoardInv, Order, OrderAt
  <2>4. CASE d # c
    BY <1>9, <2>1, <2>3, <2>4
  <2>5. CASE d = c
    <3>1. Half(m, e)
      BY <1>6, <2>1, <2>5
    <3>2. Dead(m, d)
      BY <2>1, <2>2, <3>1 DEF BoardInv, Behind
    <3> QED BY <1>8, <2>1, <3>2
  <2> QED BY <2>4, <2>5
<1>13. OneLives'
  <2>0. First \in Machines /\ Second \in Machines /\ m \in {First, Second}
    BY DEF Machines
  <2>1. ASSUME NEW d \in Conns, DeadAtBoth(d) PROVE DeadAtBoth(d)'
    BY <1>8, <2>0, <2>1 DEF DeadAtBoth
  <2>2. ASSUME NEW d \in Conns, d # c PROVE Complete(d)' => Complete(d)
    BY <1>6, <2>0, <2>2 DEF Complete
  \* With c complete, whatever else was is dead at both.
  <2>3. ASSUME NEW d \in Conns, d # c, Complete(d)', Complete(c)' PROVE DeadAtBoth(d)'
    <3>1. Half(m, d) /\ Half(Other(m), d)
      BY <2>0, <2>2, <2>3 DEF Complete, Other
    <3>2. Half(Other(m), c)
      BY <1>6, <2>0, <2>3, OtherFacts DEF Complete, Other
    <3>3. Dead(Other(m), d)
      BY <1>0, <2>3, <3>1, <3>2 DEF BoardInv, Behind
    <3>4. pc[m][d] # "off"
      BY <3>1 DEF BoardInv, Order, OrderAt, Half
    <3>5. Dead(m, d)' /\ Dead(Other(m), d)'
      BY <1>8, <1>9, <2>3, <3>3, <3>4, OtherFacts
    <3> QED BY <2>0, <3>5 DEF DeadAtBoth, Other
  <2> SUFFICES ASSUME NEW d \in Conns, NEW e \in Conns, d # e, Complete(d)', Complete(e)'
               PROVE  DeadAtBoth(d)' \/ DeadAtBoth(e)'
    BY DEF OneLives
  <2>4. CASE d = c
    BY <2>3, <2>4
  <2>5. CASE e = c
    BY <2>3, <2>5
  <2>6. CASE d # c /\ e # c
    BY <2>1, <2>2, <2>6 DEF BoardInv, OneLives
  <2> QED BY <2>4, <2>5, <2>6
<1> QED BY <1>5, <1>10, <1>11, <1>12, <1>13 DEF BoardInv

----------------------------------------------------------------------------
(* The theorem *)

\* The steps of a held attempt.
LEMMA HeldStepInv ==
  ASSUME BoardInv, NEW m \in Machines, NEW c \in Conns,
         \/ SeeAnswered(m, c) \/ SeePeerHello(m, c) \/ SeeSettled(m, c)
         \/ EndHeld(m, c) \/ SeeOver(m, c)
  PROVE  BoardInv'
<1>0. wire = [wire EXCEPT ![m][c] = wire[m][c] \cup {}]
  BY DEF BoardInv, BoardType
<1>1. PICK x \in HeldPcs \cup {"link", "over"}, bytes \in SUBSET {"hello"} :
        /\ pc[m][c] \in HeldPcs
        /\ pc' = [pc EXCEPT ![m][c] = x]
        /\ wire' = [wire EXCEPT ![m][c] = wire[m][c] \cup bytes]
        /\ UNCHANGED <<dialler, flags>>
  <2>0. {} \in SUBSET {"hello"} /\ {"hello"} \in SUBSET {"hello"}
    OBVIOUS
  <2>1. \/ wire' = [wire EXCEPT ![m][c] = wire[m][c] \cup {}]
        \/ wire' = [wire EXCEPT ![m][c] = wire[m][c] \cup {"hello"}]
    BY <1>0 DEF SeeAnswered, SeePeerHello, SeeSettled, EndHeld, SeeOver, linkVars
  <2>2. pc[m][c] \in HeldPcs
    BY DEF SeeAnswered, SeePeerHello, SeeSettled, EndHeld, SeeOver, Held, HeldPcs
  <2>3. PICK x \in HeldPcs \cup {"link", "over"} : pc' = [pc EXCEPT ![m][c] = x]
    BY DEF SeeAnswered, SeePeerHello, SeeSettled, EndHeld, SeeOver, Release, HeldPcs
  <2>4. UNCHANGED <<dialler, flags>>
    BY DEF SeeAnswered, SeePeerHello, SeeSettled, EndHeld, SeeOver, linkVars
  <2> QED BY <2>0, <2>1, <2>2, <2>3, <2>4
<1>2. x \in Pcs /\ wire[m][c] \cup bytes \in SUBSET {"commitment", "half", "hello"}
  <2>1. wire[m][c] \in SUBSET {"commitment", "half", "hello"}
    BY DEF BoardInv, BoardType
  <2> QED BY <1>1, <2>1 DEF HeldPcs, Pcs
<1>3. /\ pc' \in [Machines -> [Conns -> Pcs]]
      /\ \A n \in Machines, d \in Conns : pc'[n][d] = IF n = m /\ d = c THEN x ELSE pc[n][d]
  BY <1>1, <1>2, OneEnd DEF BoardInv, BoardType
<1>4. /\ wire' \in [Machines -> [Conns -> SUBSET {"commitment", "half", "hello"}]]
      /\ \A n \in Machines, d \in Conns :
           wire'[n][d] = IF n = m /\ d = c THEN wire[m][c] \cup bytes ELSE wire[n][d]
  BY <1>1, <1>2, OneEnd DEF BoardInv, BoardType
<1>5. BoardType' /\ Moves(m, c, x) /\ Sends(m, c, bytes)
  BY <1>1, <1>3, <1>4 DEF BoardInv, BoardType, Moves, Sends
<1> QED BY <1>1, <1>5, HeldMovesInv

\* The steps that count a comparison out.
LEMMA ArrivingStepInv ==
  ASSUME BoardInv, NEW m \in Machines, NEW c \in Conns,
         GiveUp(m, c) \/ FailEarly(m, c) \/ FailLate(m, c) \/ Reach(m, c)
  PROVE  BoardInv'
<1>0. UNCHANGED <<dialler, wire>>
  BY DEF GiveUp, FailEarly, FailLate, Reach, linkVars
<1>1. PICK told \in SUBSET {"told"} : CountOut(m, c, told)
  <2>1. {} \in SUBSET {"told"} /\ {"told"} \in SUBSET {"told"}
    OBVIOUS
  <2>2. CountOut(m, c, {}) \/ CountOut(m, c, {"told"})
    BY DEF GiveUp, FailEarly, FailLate, Reach
  <2> QED BY <2>1, <2>2
<1>2. pc[m][c] \in ArrivingPcs
  BY DEF GiveUp, FailEarly, FailLate, Reach, ArrivingPcs
<1>3. \/ pc' = [pc EXCEPT ![m][c] = "over"]
      \/ pc' = [pc EXCEPT ![m][c] = "number"] /\ pc[m][c] = "sent" /\ Half(Other(m), c)
  <2>1. CASE Reach(m, c)
    <3>1. pc[m][c] = "sent" /\ (dialler[c] = m => Half(Other(m), c))
      BY <2>1 DEF Reach, Half
    <3>2. dialler[c] # m => Half(Other(m), c)
      BY <3>1 DEF BoardInv, Order, OrderAt
    <3> QED BY <2>1, <3>1, <3>2 DEF Reach
  <2>2. CASE ~Reach(m, c)
    BY <2>2 DEF GiveUp, FailEarly, FailLate
  <2> QED BY <2>1, <2>2
<1>4. PICK x \in {"over", "number"} :
        /\ pc' = [pc EXCEPT ![m][c] = x]
        /\ x = "over" \/ (x = "number" /\ pc[m][c] = "sent" /\ Half(Other(m), c))
  BY <1>3
<1>5. /\ pc' \in [Machines -> [Conns -> Pcs]]
      /\ \A n \in Machines, d \in Conns : pc'[n][d] = IF n = m /\ d = c THEN x ELSE pc[n][d]
  <2>1. x \in Pcs
    BY <1>4 DEF Pcs
  <2> QED BY <1>4, <2>1, OneEnd DEF BoardInv, BoardType
<1>6. flags' \in [Machines -> SUBSET {"sent", "told"}]
  <2>1. flags[m] \cup told \in SUBSET {"sent", "told"}
    BY <1>1 DEF BoardInv, BoardType
  <2>2. flags' = [flags EXCEPT ![m] = IF Arriving(m) = {c} THEN {} ELSE flags[m] \cup told]
    BY <1>1 DEF CountOut
  <2> QED BY <2>1, <2>2 DEF BoardInv, BoardType
<1>7. BoardType' /\ Moves(m, c, x)
  BY <1>0, <1>5, <1>6 DEF BoardInv, BoardType, Moves
<1> QED BY <1>0, <1>1, <1>2, <1>4, <1>7, CountedOutInv

\* What the service and people do leaves the tasks to themselves.
LEMMA ServiceInv ==
  ASSUME BoardInv, NEW m \in Machines,
         \/ Approve(m) \/ CancelPairing(m) \/ AnswerRight(m) \/ AnswerWrong(m)
         \/ ForgetUnstarted(m) \/ HandleEvent(m) \/ \E c \in Conns : SeeClosed(m, c)
  PROVE  BoardInv'
<1>1. UNCHANGED boardWire
  BY DEF Approve, CancelPairing, AnswerRight, AnswerWrong, ForgetUnstarted, HandleEvent, SeeClosed,
         boardWire, boardVars, linkVars
<1> QED BY <1>1, UnchangedInv

LEMMA BoardNextInv ==
  ASSUME BoardInv, [Next]_vars
  PROVE  BoardInv'
<1>1. ASSUME NEW m \in Machines, Person(m) PROVE BoardInv'
  BY <1>1, ServiceInv, RemoveInv DEF Person
<1>2. ASSUME NEW m \in Machines, ForgetUnstarted(m) \/ HandleEvent(m) PROVE BoardInv'
  BY <1>2, ServiceInv
<1>3. ASSUME NEW m \in Machines, Restart(m) PROVE BoardInv'
  BY <1>3, RestartInv
<1>4. ASSUME NEW m \in Machines, NEW c \in Conns, Dial(m, c) PROVE BoardInv'
  BY <1>4, DialInv
<1>5. ASSUME NEW m \in Machines, NEW c \in Conns, SeeClosed(m, c) PROVE BoardInv'
  BY <1>5, ServiceInv
<1>6. ASSUME NEW m \in Machines, NEW c \in Conns, Task(m, c) PROVE BoardInv'
  <2>1. CASE Land(m, c)
    BY <2>1, LandInv
  <2>2. CASE SendHalf(m, c)
    BY <2>2, SendHalfInv
  <2>3. CASE Wait(m, c)
    BY <2>3, WaitInv
  <2>4. CASE GiveUp(m, c) \/ FailEarly(m, c) \/ FailLate(m, c) \/ Reach(m, c)
    BY <2>4, ArrivingStepInv
  <2>5. CASE \/ SeeAnswered(m, c) \/ SeePeerHello(m, c) \/ SeeSettled(m, c)
             \/ EndHeld(m, c) \/ SeeOver(m, c)
    BY <2>5, HeldStepInv
  <2> QED BY <1>6, <2>1, <2>2, <2>3, <2>4, <2>5, Zenon DEF Task
<1>7. ASSUME UNCHANGED vars PROVE BoardInv'
  BY <1>7, UnchangedInv DEF vars, linkVars, boardVars, boardWire
<1> QED BY <1>1, <1>2, <1>3, <1>4, <1>5, <1>6, <1>7, Zenon DEF Next

\* Two machines that hold an attempt at once hold the same connection, however
\* many connections they make, however often people approve, cancel or answer,
\* and whatever links are lost or daemons restarted (begin, may_send, hold).
THEOREM HoldTheSame == Spec => []BothHoldTheSame
<1>1. Init => BoardInv
  BY BoardInitInv
<1>2. BoardInv /\ [Next]_vars => BoardInv'
  BY BoardNextInv
<1>3. BoardInv => BothHoldTheSame
  <2> SUFFICES ASSUME BoardInv, NEW c \in Held(First), NEW d \in Held(Second), c # d
               PROVE  FALSE
    BY DEF BothHoldTheSame
  <2>1. /\ c \in Conns /\ pc[First][c] \in HeldPcs /\ d \in Conns /\ pc[Second][d] \in HeldPcs
        /\ First \in Machines /\ Second \in Machines
        /\ Other(First) = Second /\ Other(Second) = First
    BY PairingAssumption DEF Held, Machines, Other
  <2>2. Ahead(First, c) /\ Ahead(Second, d)
    BY <2>1 DEF Ahead, HeldPcs
  <2>3. Complete(c) /\ Complete(d)
    BY <2>1, <2>2 DEF BoardInv, Order, OrderAt, Complete
  <2>4. DeadAtBoth(c) \/ DeadAtBoth(d)
    BY <2>1, <2>3 DEF BoardInv, OneLives
  <2> QED BY <2>2, <2>4 DEF DeadAtBoth, Dead, Early, Ahead
<1> QED BY <1>1, <1>2, <1>3, PTL DEF Spec

----------------------------------------------------------------------------
(* One approval at each machine: what its service may settle *)

\* The person at each machine approves the other one at most once.
OneApproval == \A m \in Machines : MaxApprovals[m] <= 1

Event == [kind : {"number", "confirmed", "ended"}, conn : Conns, theirs : SUBSET Bits]

ServiceType ==
  /\ closed \in [Machines -> [Conns -> BOOLEAN]]
  /\ answer \in [Machines -> [Conns -> SUBSET Bits]]
  /\ stage \in [Machines -> {"none", "comparing", "answered", "settled", "over"}]
  /\ lease \in [Machines -> [state : {"none", "approved", "paired"}, answer : SUBSET Bits]]
  /\ screen \in [Machines -> [conn : Conns \cup {0}, answered : BOOLEAN, disagree : BOOLEAN]]
  /\ events \in [Machines -> Seq(Event)]
  /\ gen \in [Machines -> Nat]
  /\ yes \in [Machines -> SUBSET Conns]
  /\ paired \in [Machines -> SUBSET Conns]

Approved(m) == lease[m].state = "approved"

\* The end of d, in m's queue at j, will take the approval: nothing before it is
\* about another connection, and no other is on screen.
Kills(m, j, d) ==
  /\ j \in 1..Len(events[m]) /\ events[m][j].kind = "ended" /\ events[m][j].conn = d
  /\ screen[m].conn \in {0, d}
  /\ \A i \in 1..j-1 : events[m][i].kind # "ended" => events[m][i].conn = d

\* The number of c will not be answered at m any more.
Spoilt(m, c) ==
  /\ screen[m].conn # c /\ gen[m] >= 1
  /\ Approved(m) => \E d \in Conns : d # c /\ \E j \in 1..Len(events[m]) : Kills(m, j, d)

\* The number of c is on m's screen, or will be by the i-th event, if ever.
NumberTold(m, c, i) ==
  Approved(m) =>
    \/ screen[m].conn = c
    \/ Spoilt(m, c)
    \/ \E k \in 1..i-1 : events[m][k].kind = "number" /\ events[m][k].conn = c

\* An approval that was given once is not given again.
Gens(m) ==
  /\ lease[m].state # "none" => gen[m] >= 1 /\ lease[m].answer # {}
  /\ \A c \in Conns : (Half(m, c) \/ Early(m, c)) => gen[m] >= 1
  /\ stage[m] \in {"over", "settled"} => ~Approved(m) /\ gen[m] >= 1

\* An end nobody can confirm any more at m: closed, and no confirmation queued.
Blind(m, c) ==
  /\ closed[m][c]
  /\ \A i \in 1..Len(events[m]) : ~(events[m][i].kind = "confirmed" /\ events[m][i].conn = c)

\* What is queued to the service was reached on both sides.
Queued(m) ==
  \A i \in 1..Len(events[m]) :
    LET c == events[m][i].conn IN
    /\ events[m][i].kind # "ended" => Half(m, c) /\ Half(Other(m), c)
    /\ events[m][i].kind = "number" => events[m][i].theirs = answer[Other(m)][c] \/ Blind(m, c)
    /\ events[m][i].kind = "confirmed" =>
         /\ "hello" \in wire[Other(m)][c] /\ pc[m][c] \in {"confirm", "link", "over"}
         /\ NumberTold(m, c, i)

\* What is on screen.
Shown(m) ==
  /\ screen[m].conn = 0 => screen[m] = NoScreen
  /\ screen[m].conn # 0 =>
       /\ Approved(m) /\ Half(m, screen[m].conn) /\ Half(Other(m), screen[m].conn)
       /\ screen[m].answered => screen[m].conn \in yes[m] /\ ~screen[m].disagree
       /\ \/ screen[m].disagree \/ Blind(m, screen[m].conn)
          \/ AgreesWith(lease[m].answer, answer[Other(m)][screen[m].conn])
  /\ \A c \in Held(m) : NumberTold(m, c, Len(events[m]) + 1)

\* An approval outlives a connection that was ahead only until its end is heard.
Left(m) ==
  (Approved(m) /\ \E d \in Conns : Half(m, d) /\ ~Ahead(m, d)) =>
    \E e \in Conns : pc[m][e] = "over" /\ \E j \in 1..Len(events[m]) : Kills(m, j, e)

\* A comparison begun after another one's half went out comes too late, at the
\* machine that began it, and at the other one if that sent its half on both.
Late(m) ==
  \A c, d \in Conns :
    (c # d /\ Early(m, c) /\ flags[m] = {} /\ Half(m, d)) =>
      /\ Spoilt(m, c)
      /\ (Half(Other(m), c) /\ Half(Other(m), d)) => Spoilt(Other(m), c)

\* Of two connections both machines sent their halves on, one is answered at
\* neither.
SpoiltAtBoth(c) == Spoilt(First, c) /\ Spoilt(Second, c)
OneSpoilt ==
  \A c, d \in Conns :
    (c # d /\ Complete(c) /\ Complete(d)) => SpoiltAtBoth(c) \/ SpoiltAtBoth(d)

\* An attempt that goes on for an answer goes on for its own, or nobody answers
\* it at the other machine; so does a Hello.
Vouched(m) ==
  \A c \in Conns :
    LET lost == Spoilt(Other(m), c) IN
    /\ (c \in Held(m) /\ stage[m] \in {"answered", "settled"}) => c \in yes[m] \/ lost
    /\ (c \in Held(m) /\ stage[m] = "settled") => c \in paired[m] \/ lost
    /\ "hello" \in wire[m][c] => c \in yes[m] \/ lost
    /\ ("hello" \in wire[m][c] /\ dialler[c] # m) => c \in paired[m] \/ lost

\* The answer a connection carries is the approval's, and a pairing's agrees.
Said(m) ==
  \A c \in Conns :
    /\ (Half(m, c) \/ Early(m, c)) =>
         answer[m][c] # {} /\ (lease[m].state # "none" => answer[m][c] = lease[m].answer)
    /\ c \in paired[m] =>
         /\ Half(m, c) /\ Half(Other(m), c)
         /\ lease[m].state # "none" => AgreesWith(lease[m].answer, answer[Other(m)][c])

\* What was settled.
Settled(m) ==
  \A c \in paired[m] :
    /\ c \in yes[m] /\ c \in yes[Other(m)]
    /\ dialler[c] = m => c \in paired[Other(m)]

SettleInv ==
  /\ ServiceType /\ OneSpoilt
  /\ \A m \in Machines :
       /\ Gens(m) /\ Queued(m) /\ Shown(m) /\ Left(m) /\ Late(m)
       /\ Vouched(m) /\ Said(m) /\ Settled(m)

----------------------------------------------------------------------------
(* What a step does, as far as the service's invariant can tell *)

\* An event a task may put on the queue.
Fit(n, e) ==
  /\ e.kind = "number" =>
       /\ Half(n, e.conn) /\ Half(Other(n), e.conn) /\ pc[n][e.conn] = "sent"
       /\ e.theirs = answer[Other(n)][e.conn] \/ closed[n][e.conn]
  /\ e.kind = "confirmed" =>
       /\ e.conn \in Held(n) /\ "hello" \in wire[Other(n)][e.conn] /\ ~closed[n][e.conn]
       /\ pc'[n][e.conn] = "confirm"

\* The person answers the number on screen.
Answered(n) ==
  /\ screen[n] # NoScreen /\ screen[n].conn \in yes'[n] /\ ~screen[n].disagree
  /\ screen'[n] = [screen[n] EXCEPT !.answered = TRUE]
  /\ lease'[n] = lease[n] /\ events'[n] = events[n] /\ gen'[n] = gen[n]

\* What the service of a machine does: nothing, though a task may tell it
\* something; ...
Rests(n) ==
  /\ lease'[n] = lease[n] /\ screen'[n] = screen[n] /\ gen'[n] = gen[n]
  /\ \/ events'[n] = events[n]
     \/ \E e \in Event : Fit(n, e) /\ events'[n] = Append(events[n], e)

\* ... the approval ends, as a pairing or not, and the number leaves the screen;
Lapses(n) ==
  /\ ~Approved(n)' /\ screen'[n] = NoScreen /\ gen'[n] = gen[n]
  /\ lease'[n].state = "none" \/ (lease[n].state # "none" /\ lease'[n].answer = lease[n].answer)
  /\ \/ events'[n] = events[n] \/ events'[n] = <<>>
     \/ events[n] # <<>> /\ events'[n] = Tail(events[n])

\* ... it shows a number, or takes an end that is not about the one on screen;
Shows(n) ==
  LET e == Head(events[n]) IN
  /\ events[n] # <<>> /\ e.kind = "number" /\ events'[n] = Tail(events[n])
  /\ Approved(n) /\ lease'[n] = lease[n] /\ gen'[n] = gen[n]
  /\ screen'[n] = [conn |-> e.conn, answered |-> FALSE,
                   disagree |-> e.theirs # {} /\ ~AgreesWith(lease[n].answer, e.theirs)]

Skips(n) ==
  LET e == Head(events[n]) IN
  /\ events[n] # <<>> /\ e.kind = "ended" /\ events'[n] = Tail(events[n])
  /\ lease'[n] = lease[n] /\ gen'[n] = gen[n]
  /\ screen[n] # NoScreen /\ screen[n].conn # e.conn /\ screen'[n] = screen[n]

\* ... or the person approves.
Approves(n) ==
  /\ gen[n] < MaxApprovals[n] /\ gen'[n] = gen[n] + 1
  /\ lease'[n].answer # {} /\ screen'[n] = screen[n] /\ events'[n] = events[n]

Serves(n) == Rests(n) \/ Answered(n) \/ Lapses(n) \/ Shows(n) \/ Skips(n) \/ Approves(n)

\* A confirmation settles a pairing on what is on screen.
Settles(n) ==
  /\ events[n] # <<>> /\ Head(events[n]).kind = "confirmed"
  /\ screen[n].answered /\ lease[n].state # "none"
  /\ paired'[n] = paired[n] \cup {screen[n].conn}

\* The stage of what is held, and what people and pairings add.
Stages(n) ==
  /\ \/ stage'[n] = stage[n] \/ stage'[n] \in {"none", "comparing"}
     \/ stage'[n] = "over" /\ Lapses(n) /\ Held(n) # {}
     \/ stage'[n] = "answered" /\ Answered(n)
     \/ stage'[n] = "settled" /\ stage[n] = "answered" /\ Lapses(n) /\ Settles(n)
  /\ yes[n] \subseteq yes'[n]
  /\ paired'[n] = paired[n] \/ (Settles(n) /\ Lapses(n))

\* A comparison begins, and a task leaves one that is ahead.
Begins(n, c) ==
  /\ pc[n][c] = "off" /\ Approved(n) /\ Held(n) = {} /\ flags[n] = {}
  /\ answer'[n][c] = lease[n].answer /\ Rests(n)

Leaves(n, c) ==
  \/ ~Approved(n)'
  \/ /\ pc'[n][c] = "over" /\ events'[n] = Append(events[n], EndedEvent(c))
     /\ lease'[n] = lease[n] /\ screen'[n] = screen[n] /\ gen'[n] = gen[n]

Reaches(n, c) ==
  /\ stage'[n] = "comparing" /\ Rests(n)
  /\ \E theirs \in SUBSET Bits : events'[n] = Append(events[n], NumberEvent(c, theirs))

\* One end of one connection.
Goes(n, c) ==
  /\ Half(n, c) => Half(n, c)'
  /\ (Half(n, c)' /\ ~Half(n, c)) => SendHalf(n, c)
  /\ (Early(n, c)' /\ ~Early(n, c)) => Begins(n, c)
  /\ (Early(n, c)' /\ flags'[n] = {}) => flags[n] = {}
  /\ pc[n][c] = "over" => pc'[n][c] = "over"
  /\ pc[n][c] \in {"confirm", "link", "over"} => pc'[n][c] \in {"confirm", "link", "over"}
  /\ (Ahead(n, c) /\ ~Ahead(n, c)') => Leaves(n, c)
  /\ (pc'[n][c] \in HeldPcs /\ pc[n][c] \notin HeldPcs) => Reaches(n, c)
  /\ closed[n][c] => closed'[n][c]
  /\ (Half(n, c) \/ Early(n, c)) => answer'[n][c] = answer[n][c]
  /\ "hello" \in wire[n][c] => "hello" \in wire'[n][c]
  /\ ("hello" \in wire'[n][c] /\ "hello" \notin wire[n][c]) =>
       /\ pc[n][c] \in HeldPcs /\ stage[n] \in {"answered", "settled"}
       /\ dialler[c] # n => stage[n] = "settled"
  /\ dialler[c] # "nobody" => dialler'[c] = dialler[c]

Steps(n) == Serves(n) /\ Stages(n) /\ \A c \in Conns : Goes(n, c)

\* Nothing at a machine changes.
Still(n) ==
  /\ UNCHANGED <<pc[n], closed[n], answer[n], wire[n], flags[n], stage[n], lease[n], screen[n]>>
  /\ UNCHANGED <<events[n], gen[n], yes[n], paired[n]>>
  /\ \A c \in Conns : dialler[c] # "nobody" => dialler'[c] = dialler[c]

LEMMA StillSteps ==
  ASSUME NEW n \in Machines, Still(n)
  PROVE  Steps(n)
<1>1. Serves(n)
  BY DEF Still, Serves, Rests
<1>2. Stages(n)
  BY DEF Still, Stages
<1>3. \A c \in Conns : Goes(n, c)
  BY DEF Still, Goes, Half, Early, Ahead
<1> QED BY <1>1, <1>2, <1>3 DEF Steps

----------------------------------------------------------------------------
(* What stays *)

LEMMA AppendFacts ==
  ASSUME NEW s \in Seq(Event), NEW e \in Event
  PROVE  /\ Len(Append(s, e)) = Len(s) + 1 /\ Len(s) \in Nat
         /\ Append(s, e)[Len(s) + 1] = e
         /\ \A i \in 1..Len(s) : Append(s, e)[i] = s[i]
OBVIOUS

LEMMA TailFacts ==
  ASSUME NEW s \in Seq(Event), s # <<>>
  PROVE  /\ Len(Tail(s)) = Len(s) - 1 /\ Len(s) \in Nat /\ Len(s) >= 1
         /\ Head(s) = s[1] /\ s[1] \in Event
         /\ \A i \in 1..Len(Tail(s)) : Tail(s)[i] = s[i + 1]
OBVIOUS

\* What may be assumed of a step.
Context ==
  /\ OneApproval /\ BoardInv /\ SettleInv /\ BoardInv' /\ ServiceType'
  /\ \A n \in Machines : Steps(n)

\* A machine that has approved does not again.
LEMMA GenStays ==
  ASSUME Context, NEW n \in Machines
  PROVE  /\ gen[n] \in Nat /\ gen'[n] \in Nat /\ gen'[n] >= gen[n]
         /\ gen[n] >= 1 => ~Approves(n) /\ gen'[n] = gen[n] /\ (Approved(n)' => Approved(n))
<1>1. /\ gen[n] \in Nat /\ gen'[n] \in Nat /\ MaxApprovals[n] \in Nat /\ MaxApprovals[n] <= 1
      /\ Serves(n)
  BY PairingAssumption DEF Context, SettleInv, ServiceType, OneApproval, Steps
<1>2. Approves(n) => gen[n] = 0 /\ gen'[n] = gen[n] + 1
  BY <1>1 DEF Approves
<1>3. ~Approves(n) => gen'[n] = gen[n] /\ (Approved(n)' => Approved(n))
  BY <1>1 DEF Serves, Rests, Answered, Lapses, Shows, Skips, Approved
<1> QED BY <1>1, <1>2, <1>3

\* A queue that is added to keeps its ends deadly.
LEMMA KillsStay ==
  ASSUME Context, NEW n \in Machines, Rests(n) \/ Answered(n), NEW j \in 1..Len(events[n]), NEW d,
         Kills(n, j, d)
  PROVE  j \in 1..Len(events'[n]) /\ Kills(n, j, d)'
<1>1. events[n] \in Seq(Event) /\ Len(events[n]) \in Nat
      /\ screen[n] \in [conn : Conns \cup {0}, answered : BOOLEAN, disagree : BOOLEAN]
  BY DEF Context, SettleInv, ServiceType
<1>2. screen'[n].conn = screen[n].conn
  BY <1>1 DEF Rests, Answered
<1>3. /\ Len(events'[n]) \in Nat /\ Len(events'[n]) >= Len(events[n])
      /\ \A i \in 1..Len(events[n]) : events'[n][i] = events[n][i]
  <2>1. CASE events'[n] = events[n]
    BY <1>1, <2>1
  <2>2. ASSUME NEW e \in Event, events'[n] = Append(events[n], e)
        PROVE  /\ Len(events'[n]) \in Nat /\ Len(events'[n]) >= Len(events[n])
               /\ \A i \in 1..Len(events[n]) : events'[n][i] = events[n][i]
    BY <1>1, <2>2, AppendFacts
  <2> QED BY <2>1, <2>2 DEF Rests, Answered
<1>4. j \in 1..Len(events'[n]) /\ \A i \in 1..j-1 : i \in 1..Len(events[n])
  BY <1>1, <1>3
<1> QED BY <1>2, <1>3, <1>4 DEF Kills

\* Taken from, it has what it kills with one place nearer.
LEMMA KillsNear ==
  ASSUME Context, NEW n \in Machines, Shows(n) \/ Skips(n), NEW j \in 1..Len(events[n]), NEW d,
         Kills(n, j, d)
  PROVE  /\ j - 1 \in 1..Len(events'[n]) /\ Kills(n, j - 1, d)'
         /\ Shows(n) => Head(events[n]).conn = d
<1>1. events[n] \in Seq(Event) /\ events[n] # <<>> /\ events'[n] = Tail(events[n])
  BY DEF Context, SettleInv, ServiceType, Shows, Skips
<1>2. /\ Len(events'[n]) = Len(events[n]) - 1 /\ Len(events[n]) \in Nat /\ Len(events[n]) >= 1
      /\ Head(events[n]) = events[n][1]
      /\ \A i \in 1..Len(events'[n]) : events'[n][i] = events[n][i + 1]
  BY <1>1, TailFacts
<1>3. j # 1
  <2>1. CASE Shows(n)
    BY <1>2, <2>1 DEF Shows, Kills
  <2>2. CASE Skips(n)
    <3>1. Shown(n)
      BY DEF Context, SettleInv
    <3>2. screen[n].conn # 0 /\ screen[n].conn # events[n][1].conn
      BY <1>2, <2>2, <3>1 DEF Skips, Shown
    <3> QED BY <3>2 DEF Kills
  <2> QED BY <2>1, <2>2
<1>4. j - 1 \in 1..Len(events'[n]) /\ (j - 1) + 1 = j /\ 1 \in 1..j-1
  BY <1>2, <1>3
<1>5. Shows(n) => Head(events[n]).conn = d
  BY <1>2, <1>4 DEF Shows, Kills
<1>6. screen'[n].conn \in {0, d}
  BY <1>5 DEF Shows, Skips, Kills
<1>7. ASSUME NEW i \in 1..(j-1)-1, events'[n][i].kind # "ended" PROVE events'[n][i].conn = d
  <2>1. i \in 1..Len(events'[n]) /\ i + 1 \in 1..j-1
    BY <1>2, <1>4
  <2>2. events'[n][i] = events[n][i + 1]
    BY <1>2, <2>1
  <2> QED BY <1>7, <2>1, <2>2 DEF Kills
<1>8. events'[n][j - 1] = events[n][j]
  BY <1>2, <1>4
<1> QED BY <1>4, <1>5, <1>6, <1>7, <1>8 DEF Kills

\* What will not be answered will not be later.
LEMMA SpoiltStays ==
  ASSUME Context, NEW n \in Machines, NEW c \in Conns, Spoilt(n, c)
  PROVE  Spoilt(n, c)'
<1>1. gen'[n] >= 1 /\ ~Approves(n)
  BY GenStays DEF Spoilt
<1>2. Serves(n) /\ c # 0
  BY PairingAssumption DEF Context, Steps, Conns
<1>3. CASE ~Approved(n)'
  <2>1. ~Approved(n)' => screen'[n].conn # c
    <3>1. CASE Lapses(n)
      BY <1>2, <3>1 DEF Lapses, NoScreen
    <3>2. CASE Rests(n) \/ Answered(n) \/ Skips(n)
      <4>1. screen[n] \in [conn : Conns \cup {0}, answered : BOOLEAN, disagree : BOOLEAN]
        BY DEF Context, SettleInv, ServiceType
      <4> QED BY <3>2, <4>1 DEF Rests, Answered, Skips, Spoilt
    <3>3. CASE Shows(n)
      BY <1>3, <3>3 DEF Shows, Approved
    <3> QED BY <1>1, <1>2, <3>1, <3>2, <3>3 DEF Serves
  <2> QED BY <1>1, <1>3, <2>1 DEF Spoilt
<1>4. CASE Approved(n)'
  <2>1. Approved(n) /\ ~Lapses(n)
    BY <1>4, GenStays DEF Spoilt, Lapses
  <2>2. PICK d \in Conns : d # c /\ \E j \in 1..Len(events[n]) : Kills(n, j, d)
    BY <2>1 DEF Spoilt
  <2>3. PICK j \in 1..Len(events[n]) : Kills(n, j, d)
    BY <2>2
  <2>4. \E k \in 1..Len(events'[n]) : Kills(n, k, d)'
    BY <1>1, <1>2, <2>1, <2>3, KillsStay, KillsNear DEF Serves
  <2>5. screen'[n].conn \in {0, d}
    BY <2>4 DEF Kills
  <2> QED BY <1>1, <1>2, <2>2, <2>4, <2>5 DEF Spoilt
<1> QED BY <1>3, <1>4

\* A number about to be shown takes no other's place.
LEMMA FreshHead ==
  ASSUME Context, NEW n \in Machines, Shows(n)
  PROVE  screen[n].conn \in {0, Head(events[n]).conn}
<1> DEFINE x == screen[n].conn
           d == Head(events[n]).conn
<1>1. events[n] \in Seq(Event) /\ events[n] # <<>> /\ screen[n].conn \in Conns \cup {0}
  BY DEF Context, SettleInv, ServiceType, Shows
<1>2. 1 \in 1..Len(events[n]) /\ Head(events[n]) = events[n][1] /\ d \in Conns
  <2>1. Len(events[n]) \in Nat /\ Len(events[n]) >= 1 /\ Head(events[n]) = events[n][1]
        /\ events[n][1] \in Event
    BY <1>1, TailFacts
  <2>2. d \in Conns
    BY <2>1 DEF Event
  <2> QED BY <2>1, <2>2
<1> SUFFICES ASSUME x # 0, x # d
             PROVE  FALSE
  OBVIOUS
<1>3. Half(n, d) /\ Half(Other(n), d)
  BY <1>2 DEF Context, SettleInv, Queued, Shows
<1>4. Half(n, x) /\ Half(Other(n), x) /\ x \in Conns
  BY <1>1 DEF Context, SettleInv, Shown
<1>5. \A c \in Conns : (Half(n, c) /\ Half(Other(n), c)) => Complete(c)
  BY DEF Complete, Other, Machines
<1>6. SpoiltAtBoth(x) \/ SpoiltAtBoth(d)
  BY <1>2, <1>3, <1>4, <1>5 DEF Context, SettleInv, OneSpoilt
<1>7. Spoilt(n, x) \/ Spoilt(n, d)
  BY <1>6 DEF SpoiltAtBoth, Machines
<1>8. Spoilt(n, d)
  BY <1>7 DEF Spoilt
<1>9. PICK e \in Conns : e # d /\ \E j \in 1..Len(events[n]) : Kills(n, j, e)
  BY <1>8 DEF Spoilt, Shows
<1> QED BY <1>9, KillsNear

\* A number told, or not to be answered, stays so.
LEMMA ToldStays ==
  ASSUME Context, NEW n \in Machines, gen[n] >= 1, Rests(n) \/ Answered(n), NEW c \in Conns,
         NEW i \in 1..Len(events[n])+1, NumberTold(n, c, i)
  PROVE  NumberTold(n, c, i)'
<1>1. events[n] \in Seq(Event) /\ Len(events[n]) \in Nat
      /\ screen[n] \in [conn : Conns \cup {0}, answered : BOOLEAN, disagree : BOOLEAN]
  BY DEF Context, SettleInv, ServiceType
<1>2. screen'[n].conn = screen[n].conn
  BY <1>1 DEF Rests, Answered
<1>3. \A k \in 1..Len(events[n]) : events'[n][k] = events[n][k]
  <2>1. CASE events'[n] = events[n]
    BY <2>1
  <2>2. ASSUME NEW e \in Event, events'[n] = Append(events[n], e)
        PROVE  \A k \in 1..Len(events[n]) : events'[n][k] = events[n][k]
    BY <1>1, <2>2, AppendFacts
  <2> QED BY <2>1, <2>2 DEF Rests, Answered
<1>4. \A k \in 1..i-1 : k \in 1..Len(events[n])
  BY <1>1
<1>5. Approved(n)' => Approved(n)
  BY GenStays
<1>6. Spoilt(n, c) => Spoilt(n, c)'
  BY SpoiltStays
<1> QED BY <1>2, <1>3, <1>4, <1>5, <1>6 DEF NumberTold

LEMMA ToldNear ==
  ASSUME Context, NEW n \in Machines, gen[n] >= 1, Shows(n) \/ Skips(n), NEW c \in Conns,
         NEW i \in 1..Len(events[n]), NumberTold(n, c, i + 1)
  PROVE  NumberTold(n, c, i)'
<1>1. events[n] \in Seq(Event) /\ events[n] # <<>> /\ events'[n] = Tail(events[n])
  BY DEF Context, SettleInv, ServiceType, Shows, Skips
<1>2. /\ Len(events'[n]) = Len(events[n]) - 1 /\ Len(events[n]) \in Nat /\ Len(events[n]) >= 1
      /\ Head(events[n]) = events[n][1]
      /\ \A k \in 1..Len(events'[n]) : events'[n][k] = events[n][k + 1]
  BY <1>1, TailFacts
<1> SUFFICES ASSUME Approved(n)'
             PROVE  \/ screen'[n].conn = c
                    \/ Spoilt(n, c)'
                    \/ \E k \in 1..i-1 : events'[n][k].kind = "number" /\ events'[n][k].conn = c
  BY DEF NumberTold
<1>3. Approved(n) /\ c # 0
  BY GenStays, PairingAssumption DEF Conns
<1>4. CASE screen[n].conn = c
  <2>1. CASE Shows(n)
    BY <1>3, <1>4, <2>1, FreshHead DEF Shows
  <2>2. CASE Skips(n)
    BY <1>4, <2>2 DEF Skips
  <2> QED BY <2>1, <2>2
<1>5. CASE Spoilt(n, c)
  BY <1>5, SpoiltStays
<1>6. ASSUME NEW k \in 1..(i+1)-1, events[n][k].kind = "number", events[n][k].conn = c
      PROVE  screen'[n].conn = c \/ \E l \in 1..i-1 : events'[n][l].kind = "number" /\ events'[n][l].conn = c
  <2>1. CASE k = 1
    BY <1>2, <1>6, <2>1 DEF Shows, Skips
  <2>2. CASE k # 1
    <3>1. k - 1 \in 1..i-1 /\ k - 1 \in 1..Len(events'[n]) /\ (k - 1) + 1 = k
      BY <1>2, <2>2
    <3>2. events'[n][k - 1] = events[n][k]
      BY <1>2, <3>1
    <3> QED BY <1>6, <3>1, <3>2
  <2> QED BY <2>1, <2>2
<1> QED BY <1>3, <1>4, <1>5, <1>6 DEF NumberTold

\* Where an event on the queue comes from.
LEMMA Origin ==
  ASSUME Context, NEW n \in Machines, NEW i \in 1..Len(events'[n])
  PROVE  \/ /\ i \in 1..Len(events[n]) /\ events'[n][i] = events[n][i]
            /\ Rests(n) \/ Answered(n) \/ Lapses(n) \/ Approves(n)
         \/ /\ i + 1 \in 1..Len(events[n]) /\ events'[n][i] = events[n][i + 1]
            /\ Lapses(n) \/ Shows(n) \/ Skips(n)
         \/ Rests(n) /\ i = Len(events[n]) + 1 /\ Fit(n, events'[n][i])
<1>1. events[n] \in Seq(Event) /\ Len(events[n]) \in Nat /\ Serves(n)
  BY DEF Context, SettleInv, ServiceType, Steps
<1>2. CASE events'[n] = events[n] /\ (Rests(n) \/ Answered(n) \/ Lapses(n) \/ Approves(n))
  BY <1>2
<1>3. CASE events'[n] = <<>>
  BY <1>3
<1>4. CASE events[n] # <<>> /\ events'[n] = Tail(events[n]) /\ (Lapses(n) \/ Shows(n) \/ Skips(n))
  <2>1. /\ Len(events'[n]) = Len(events[n]) - 1 /\ events'[n][i] = events[n][i + 1]
    BY <1>1, <1>4, TailFacts
  <2> QED BY <1>1, <1>4, <2>1
<1>5. CASE Rests(n) /\ \E e \in Event : Fit(n, e) /\ events'[n] = Append(events[n], e)
  <2>1. PICK e \in Event : Fit(n, e) /\ events'[n] = Append(events[n], e)
    BY <1>5
  <2>2. /\ Len(events'[n]) = Len(events[n]) + 1 /\ events'[n][Len(events[n]) + 1] = e
        /\ \A k \in 1..Len(events[n]) : events'[n][k] = events[n][k]
    BY <1>1, <2>1, AppendFacts
  <2>3. i \in 1..Len(events[n]) \/ i = Len(events[n]) + 1
    BY <1>1, <2>2
  <2> QED BY <1>5, <2>1, <2>2, <2>3
<1> QED BY <1>1, <1>2, <1>3, <1>4, <1>5 DEF Serves, Rests, Answered, Lapses, Shows, Skips, Approves

\* An end that is closed with no confirmation queued stays so.
LEMMA BlindStays ==
  ASSUME Context, NEW n \in Machines, NEW c \in Conns, Blind(n, c)
  PROVE  Blind(n, c)'
<1>1. closed'[n][c] /\ closed[n][c]
  BY DEF Context, Steps, Goes, Blind
<1>2. ASSUME NEW i \in 1..Len(events'[n]), events'[n][i].kind = "confirmed", events'[n][i].conn = c
      PROVE  FALSE
  <2>1. ~Fit(n, events'[n][i])
    BY <1>1, <1>2 DEF Fit
  <2> QED BY <1>2, <2>1, Origin DEF Blind
<1> QED BY <1>1, <1>2 DEF Blind

----------------------------------------------------------------------------
(* The parts of the invariant *)

\* The invariant at one machine.
LEMMA AtMachine ==
  ASSUME Context, NEW n \in Machines
  PROVE  /\ Gens(n) /\ Queued(n) /\ Shown(n) /\ Left(n) /\ Late(n) /\ Vouched(n) /\ Said(n)
         /\ Settled(n) /\ Serves(n) /\ Stages(n) /\ Other(n) \in Machines
         /\ \A c \in Conns : Goes(n, c) /\ Goes(Other(n), c)
BY OtherFacts DEF Context, SettleInv, Steps

\* Where a half goes out the comparison was under way.
LEMMA SendsEarly ==
  ASSUME NEW n \in Machines, NEW c \in Conns, SendHalf(n, c)
  PROVE  Early(n, c) /\ flags[n] = {} /\ Held(n) = {}
BY DEF SendHalf, Early, MaySend

\* A half out, or a comparison under way, is of an approval given.
LEMMA GivenOnce ==
  ASSUME Context, NEW n \in Machines
  PROVE  /\ \A c \in Conns : (Half(n, c)' \/ Early(n, c)') => gen[n] >= 1 /\ gen'[n] = gen[n]
         /\ \A c \in Conns : (Half(n, c) \/ Early(n, c)) => gen[n] >= 1
         /\ lease[n].state # "none" => gen[n] >= 1
<1>1. Gens(n) /\ \A c \in Conns : Goes(n, c)
  BY AtMachine
<1>2. ASSUME NEW c \in Conns, Half(n, c)' \/ Early(n, c)' PROVE gen[n] >= 1
  <2>1. Half(n, c) \/ Early(n, c) \/ SendHalf(n, c) \/ Begins(n, c)
    BY <1>1, <1>2 DEF Goes
  <2>2. Begins(n, c) => lease[n].state # "none"
    BY DEF Begins, Approved
  <2> QED BY <1>1, <2>1, <2>2, SendsEarly DEF Gens
<1> QED BY <1>1, <1>2, GenStays DEF Gens

LEMMA GensNext ==
  ASSUME Context, NEW n \in Machines
  PROVE  Gens(n)'
<1>0. Gens(n) /\ Serves(n) /\ Stages(n) /\ gen[n] \in Nat /\ gen'[n] \in Nat /\ gen'[n] >= gen[n]
  BY AtMachine, GenStays
<1>1. lease'[n].state # "none" => gen'[n] >= 1 /\ lease'[n].answer # {}
  <2>1. CASE Approves(n)
    BY <1>0, <2>1 DEF Approves
  <2>2. CASE ~Approves(n)
    <3>1. \/ lease'[n].state = "none" \/ lease'[n] = lease[n]
          \/ lease[n].state # "none" /\ lease'[n].answer = lease[n].answer
      BY <1>0, <2>2 DEF Serves, Rests, Answered, Lapses, Shows, Skips
    <3> QED BY <1>0, <3>1 DEF Gens
  <2> QED BY <2>1, <2>2
<1>2. \A c \in Conns : (Half(n, c)' \/ Early(n, c)') => gen'[n] >= 1
  BY GivenOnce
<1>3. stage'[n] \in {"over", "settled"} => ~Approved(n)' /\ gen'[n] >= 1
  <2>1. CASE stage'[n] = stage[n]
    BY <1>0, <2>1, GenStays DEF Gens
  <2>2. CASE stage'[n] = "over" /\ Lapses(n) /\ Held(n) # {}
    <3>1. PICK c \in Conns : pc[n][c] \in HeldPcs
      BY <2>2 DEF Held
    <3>2. Half(n, c)
      BY <3>1 DEF Context, BoardInv, Order, OrderAt, Ahead, HeldPcs
    <3> QED BY <2>2, <3>2, GivenOnce, <1>0 DEF Lapses
  <2>3. CASE stage'[n] = "settled" /\ Lapses(n) /\ Settles(n)
    BY <2>3, GivenOnce, <1>0 DEF Settles, Lapses
  <2> QED BY <1>0, <2>1, <2>2, <2>3 DEF Stages
<1> QED BY <1>1, <1>2, <1>3 DEF Gens

LEMMA QueuedNext ==
  ASSUME Context, NEW n \in Machines
  PROVE  Queued(n)'
<1>0. Gens(n) /\ Queued(n) /\ Shown(n) /\ Other(n) \in Machines
      /\ \A c \in Conns : Goes(n, c) /\ Goes(Other(n), c)
  BY AtMachine
<1>1. events'[n] \in Seq(Event) /\ events[n] \in Seq(Event) /\ Len(events[n]) \in Nat
  BY DEF Context, SettleInv, ServiceType
<1> SUFFICES ASSUME NEW i \in 1..Len(events'[n]), NEW c, c = events'[n][i].conn
             PROVE  /\ events'[n][i].kind # "ended" => Half(n, c)' /\ Half(Other(n), c)'
                    /\ events'[n][i].kind = "number" =>
                         events'[n][i].theirs = answer'[Other(n)][c] \/ Blind(n, c)'
                    /\ events'[n][i].kind = "confirmed" =>
                         /\ "hello" \in wire'[Other(n)][c] /\ pc'[n][c] \in {"confirm", "link", "over"}
                         /\ NumberTold(n, c, i)'
  BY DEF Queued
<1>2. events'[n][i] \in Event
  BY <1>1
<1>3. c \in Conns
  BY <1>2 DEF Event
\* It was there before, at `j'.
<1>4. ASSUME NEW j \in 1..Len(events[n]), events'[n][i] = events[n][j],
             gen[n] >= 1 => (NumberTold(n, c, j) => NumberTold(n, c, i)')
      PROVE  /\ events'[n][i].kind # "ended" => Half(n, c)' /\ Half(Other(n), c)'
             /\ events'[n][i].kind = "number" =>
                  events'[n][i].theirs = answer'[Other(n)][c] \/ Blind(n, c)'
             /\ events'[n][i].kind = "confirmed" =>
                  /\ "hello" \in wire'[Other(n)][c] /\ pc'[n][c] \in {"confirm", "link", "over"}
                  /\ NumberTold(n, c, i)'
  <2>1. /\ events[n][j].kind # "ended" => Half(n, c) /\ Half(Other(n), c)
        /\ events[n][j].kind = "number" => events[n][j].theirs = answer[Other(n)][c] \/ Blind(n, c)
        /\ events[n][j].kind = "confirmed" =>
             /\ "hello" \in wire[Other(n)][c] /\ pc[n][c] \in {"confirm", "link", "over"}
             /\ NumberTold(n, c, j)
    BY <1>0, <1>4 DEF Queued
  <2>2. events'[n][i].kind # "ended" => Half(n, c)' /\ Half(Other(n), c)' /\ gen[n] >= 1
    BY <1>0, <1>3, <1>4, <2>1 DEF Goes, Gens
  <2>3. ASSUME events'[n][i].kind = "number"
        PROVE  events'[n][i].theirs = answer'[Other(n)][c] \/ Blind(n, c)'
    <3>1. answer'[Other(n)][c] = answer[Other(n)][c]
      BY <1>0, <1>3, <1>4, <2>1, <2>3 DEF Goes
    <3> QED BY <1>3, <1>4, <2>1, <2>3, <3>1, BlindStays
  <2>4. ASSUME events'[n][i].kind = "confirmed"
        PROVE  /\ "hello" \in wire'[Other(n)][c] /\ pc'[n][c] \in {"confirm", "link", "over"}
               /\ NumberTold(n, c, i)'
    BY <1>0, <1>3, <1>4, <2>1, <2>2, <2>4 DEF Goes
  <2> QED BY <2>2, <2>3, <2>4
<1>5. CASE /\ i \in 1..Len(events[n]) /\ events'[n][i] = events[n][i]
           /\ Rests(n) \/ Answered(n) \/ Lapses(n) \/ Approves(n)
  <2>1. ASSUME gen[n] >= 1, NumberTold(n, c, i) PROVE NumberTold(n, c, i)'
    <3>1. CASE Rests(n) \/ Answered(n)
      BY <1>1, <1>3, <1>5, <2>1, <3>1, ToldStays
    <3>2. CASE Lapses(n)
      BY <3>2 DEF Lapses, NumberTold
    <3> QED BY <1>5, <2>1, <3>1, <3>2, GenStays
  <2> QED BY <1>4, <1>5, <2>1
<1>6. CASE /\ i + 1 \in 1..Len(events[n]) /\ events'[n][i] = events[n][i + 1]
           /\ Lapses(n) \/ Shows(n) \/ Skips(n)
  <2>1. ASSUME gen[n] >= 1, NumberTold(n, c, i + 1) PROVE NumberTold(n, c, i)'
    <3>1. CASE Shows(n) \/ Skips(n)
      <4>1. i \in 1..Len(events[n])
        BY <1>1, <1>6
      <4> QED BY <1>3, <2>1, <3>1, <4>1, ToldNear
    <3>2. CASE Lapses(n)
      BY <3>2 DEF Lapses, NumberTold
    <3> QED BY <1>6, <3>1, <3>2
  <2> QED BY <1>4, <1>6, <2>1
<1>7. CASE Rests(n) /\ i = Len(events[n]) + 1 /\ Fit(n, events'[n][i])
  <2>1. ASSUME events'[n][i].kind = "number"
        PROVE  /\ Half(n, c)' /\ Half(Other(n), c)'
               /\ events'[n][i].theirs = answer'[Other(n)][c] \/ Blind(n, c)'
    <3>1. /\ Half(n, c) /\ Half(Other(n), c) /\ pc[n][c] = "sent"
          /\ events'[n][i].theirs = answer[Other(n)][c] \/ closed[n][c]
      BY <1>7, <2>1 DEF Fit
    <3>2. answer'[Other(n)][c] = answer[Other(n)][c] /\ Half(n, c)' /\ Half(Other(n), c)'
      BY <1>0, <1>3, <3>1 DEF Goes
    <3>3. closed[n][c] => Blind(n, c)
      BY <1>0, <3>1 DEF Blind, Queued
    <3> QED BY <1>3, <3>1, <3>2, <3>3, BlindStays
  <2>2. ASSUME events'[n][i].kind = "confirmed"
        PROVE  /\ Half(n, c)' /\ Half(Other(n), c)'
               /\ "hello" \in wire'[Other(n)][c] /\ pc'[n][c] \in {"confirm", "link", "over"}
               /\ NumberTold(n, c, i)'
    <3>1. c \in Held(n) /\ "hello" \in wire[Other(n)][c] /\ pc'[n][c] = "confirm"
      BY <1>7, <2>2 DEF Fit
    <3>2. Half(n, c) /\ Half(Other(n), c)
      BY <1>3, <3>1 DEF Held, HeldPcs, Ahead, Context, BoardInv, Order, OrderAt
    <3>3. gen[n] >= 1
      BY <1>3, <3>2, GivenOnce
    <3>4. NumberTold(n, c, i) /\ i \in 1..Len(events[n])+1
      BY <1>0, <1>1, <1>7, <3>1 DEF Shown
    <3>5. NumberTold(n, c, i)'
      BY <1>3, <1>7, <3>3, <3>4, ToldStays
    <3> QED BY <1>0, <1>3, <3>1, <3>2, <3>5 DEF Goes
  <2>3. events'[n][i].kind \in {"number", "confirmed", "ended"}
    BY <1>2 DEF Event
  <2> QED BY <2>1, <2>2, <2>3
<1> QED BY <1>5, <1>6, <1>7, Origin

\* A number shown is one that agrees, disagrees, or will not be confirmed.
LEMMA ScreenNext ==
  ASSUME Context, NEW n \in Machines, NEW x \in Conns, screen'[n].conn = x
  PROVE  /\ Approved(n)' /\ Half(n, x)' /\ Half(Other(n), x)'
         /\ screen'[n].answered => x \in yes'[n] /\ ~screen'[n].disagree
         /\ \/ screen'[n].disagree \/ Blind(n, x)'
            \/ AgreesWith(lease'[n].answer, answer'[Other(n)][x])
<1>0. /\ Queued(n) /\ Shown(n) /\ Serves(n) /\ Stages(n) /\ Other(n) \in Machines /\ Said(Other(n))
      /\ Goes(n, x) /\ Goes(Other(n), x) /\ x # 0
  BY AtMachine, PairingAssumption DEF Conns
<1>1. screen[n] \in [conn : Conns \cup {0}, answered : BOOLEAN, disagree : BOOLEAN]
  BY DEF Context, SettleInv, ServiceType
<1>2. CASE Rests(n) \/ Skips(n) \/ Approves(n) \/ Answered(n)
  <2>1. screen[n].conn = x /\ screen'[n].disagree = screen[n].disagree
    BY <1>1, <1>2 DEF Rests, Skips, Approves, Answered
  <2>2. /\ Approved(n) /\ Half(n, x) /\ Half(Other(n), x)
        /\ screen[n].answered => x \in yes[n] /\ ~screen[n].disagree
        /\ \/ screen[n].disagree \/ Blind(n, x)
           \/ AgreesWith(lease[n].answer, answer[Other(n)][x])
    BY <1>0, <2>1 DEF Shown
  <2>3. ~Approves(n)
    BY <2>2, GivenOnce, GenStays
  <2>4. lease'[n] = lease[n] /\ answer'[Other(n)][x] = answer[Other(n)][x] /\ Half(n, x)' /\ Half(Other(n), x)'
    BY <1>0, <1>2, <2>2, <2>3 DEF Rests, Skips, Answered, Goes
  <2>5. screen'[n].answered => x \in yes'[n] /\ ~screen'[n].disagree
    <3>1. CASE Rests(n) \/ Skips(n)
      BY <1>0, <2>2, <3>1 DEF Rests, Skips, Stages
    <3>2. CASE Answered(n)
      BY <2>1, <3>2 DEF Answered
    <3> QED BY <1>2, <2>3, <3>1, <3>2
  <2> QED BY <2>1, <2>2, <2>4, <2>5, BlindStays DEF Approved
<1>3. CASE Lapses(n)
  BY <1>0, <1>3 DEF Lapses, NoScreen
<1>4. CASE Shows(n)
  <2>1. events[n] \in Seq(Event) /\ events[n] # <<>>
    BY <1>4 DEF Context, SettleInv, ServiceType, Shows
  <2>2. 1 \in 1..Len(events[n]) /\ Head(events[n]) = events[n][1]
    BY <2>1, TailFacts
  <2> DEFINE e == Head(events[n])
  <2>3. /\ e.kind = "number" /\ e.conn = x /\ ~screen'[n].answered /\ lease'[n] = lease[n] /\ Approved(n)
        /\ screen'[n].disagree = (e.theirs # {} /\ ~AgreesWith(lease[n].answer, e.theirs))
    BY <1>4 DEF Shows
  <2>4. Half(n, x) /\ Half(Other(n), x) /\ (e.theirs = answer[Other(n)][x] \/ Blind(n, x))
    BY <1>0, <2>2, <2>3 DEF Queued
  <2>5. answer[Other(n)][x] # {} /\ answer'[Other(n)][x] = answer[Other(n)][x] /\ Half(n, x)' /\ Half(Other(n), x)'
    BY <1>0, <2>4 DEF Said, Goes
  <2> HIDE DEF e
  <2>6. screen'[n].disagree \/ Blind(n, x)' \/ AgreesWith(lease'[n].answer, answer'[Other(n)][x])
    BY <2>3, <2>4, <2>5, BlindStays
  <2> QED BY <2>3, <2>5, <2>6 DEF Approved
<1> QED BY <1>0, <1>2, <1>3, <1>4 DEF Serves

LEMMA ShownNext ==
  ASSUME Context, NEW n \in Machines
  PROVE  Shown(n)'
<1>0. Shown(n) /\ Serves(n) /\ \A c \in Conns : Goes(n, c)
  BY AtMachine
<1>1. /\ screen[n] \in [conn : Conns \cup {0}, answered : BOOLEAN, disagree : BOOLEAN]
      /\ screen'[n] \in [conn : Conns \cup {0}, answered : BOOLEAN, disagree : BOOLEAN]
      /\ events[n] \in Seq(Event) /\ events'[n] \in Seq(Event)
      /\ Len(events[n]) \in Nat /\ Len(events'[n]) \in Nat /\ 0 \notin Conns
  BY PairingAssumption DEF Context, SettleInv, ServiceType, Conns
<1>2. screen'[n].conn = 0 => screen'[n] = NoScreen
  <2>1. CASE Rests(n) \/ Skips(n) \/ Approves(n)
    BY <1>0, <2>1 DEF Rests, Skips, Approves, Shown
  <2>2. CASE Answered(n)
    BY <1>0, <1>1, <2>2 DEF Answered, Shown
  <2>3. CASE Lapses(n)
    BY <2>3 DEF Lapses
  <2>4. CASE Shows(n)
    <3>1. Head(events[n]) \in Event
      BY <1>1, <2>4, TailFacts DEF Shows
    <3> QED BY <1>1, <2>4, <3>1 DEF Shows, Event
  <2> QED BY <1>0, <2>1, <2>2, <2>3, <2>4 DEF Serves
<1>3. ASSUME NEW c \in Conns, pc'[n][c] \in HeldPcs, NEW l \in Nat, l = Len(events'[n]) + 1
      PROVE  NumberTold(n, c, l)'
  <2>0. c \in Conns /\ pc'[n][c] \in HeldPcs
    BY <1>3
  <2>1. CASE pc[n][c] \notin HeldPcs
    <3>1. PICK theirs \in SUBSET Bits : events'[n] = Append(events[n], NumberEvent(c, theirs))
      BY <1>0, <2>0, <2>1 DEF Goes, Reaches
    <3>2. NumberEvent(c, theirs) \in Event /\ NumberEvent(c, theirs).kind = "number"
          /\ NumberEvent(c, theirs).conn = c
      BY <2>0 DEF NumberEvent, Event
    <3>3. Len(events'[n]) = Len(events[n]) + 1 /\ events'[n][Len(events[n]) + 1] = NumberEvent(c, theirs)
      BY <1>1, <3>1, <3>2, AppendFacts
    <3>4. Len(events[n]) + 1 \in 1..l-1
      BY <1>1, <1>3, <3>3
    <3> QED BY <3>2, <3>3, <3>4 DEF NumberTold
  <2>2. CASE pc[n][c] \in HeldPcs
    <3>1. Half(n, c) /\ c \in Held(n)
      BY <2>0, <2>2 DEF Held, HeldPcs, Ahead, Context, BoardInv, Order, OrderAt
    <3>2. gen[n] >= 1 /\ NumberTold(n, c, Len(events[n]) + 1) /\ ~Approves(n)
      BY <1>0, <2>0, <3>1, GivenOnce, GenStays DEF Shown
    <3>3. CASE Rests(n) \/ Answered(n)
      <4>0. PICK i \in 1..Len(events[n])+1 : i = Len(events[n]) + 1
        <5>1. Len(events[n]) + 1 \in 1..Len(events[n])+1
          BY <1>1
        <5> QED BY <5>1
      <4>1. NumberTold(n, c, i)'
        <5>1. NumberTold(n, c, i)
          BY <3>2, <4>0
        <5> QED BY <2>0, <3>2, <3>3, <4>0, <5>1, ToldStays
      <4>2. Len(events'[n]) >= Len(events[n])
        <5>1. ASSUME NEW e \in Event, events'[n] = Append(events[n], e)
              PROVE  Len(events'[n]) >= Len(events[n])
          BY <1>1, <5>1, AppendFacts
        <5>2. CASE events'[n] = events[n]
          BY <1>1, <5>2
        <5> QED BY <3>3, <5>1, <5>2 DEF Rests, Answered
      <4>3. \A k \in 1..i-1 : k \in 1..l-1
        BY <1>1, <1>3, <4>0, <4>2
      <4> QED BY <4>1, <4>3 DEF NumberTold
    <3>4. CASE Shows(n) \/ Skips(n)
      <4>1. events[n] # <<>> /\ events'[n] = Tail(events[n])
        BY <3>4 DEF Shows, Skips
      <4>2. Len(events'[n]) = Len(events[n]) - 1 /\ Len(events[n]) >= 1
        BY <1>1, <4>1, TailFacts
      <4>3. l \in 1..Len(events[n]) /\ l = Len(events[n])
        BY <1>1, <1>3, <4>2
      <4> QED BY <2>0, <3>2, <3>4, <4>3, ToldNear
    <3>5. CASE Lapses(n)
      BY <3>5 DEF Lapses, NumberTold
    <3> QED BY <1>0, <3>2, <3>3, <3>4, <3>5 DEF Serves
  <2> QED BY <2>1, <2>2
<1>4. ASSUME NEW x, x = screen'[n].conn, x # 0
      PROVE  /\ Approved(n)' /\ Half(n, x)' /\ Half(Other(n), x)'
             /\ screen'[n].answered => x \in yes'[n] /\ ~screen'[n].disagree
             /\ \/ screen'[n].disagree \/ Blind(n, x)'
                \/ AgreesWith(lease'[n].answer, answer'[Other(n)][x])
  <2>1. x \in Conns
    BY <1>1, <1>4
  <2> QED BY <1>4, <2>1, ScreenNext
<1>5. \A c \in Held(n)' : c \in Conns /\ pc'[n][c] \in HeldPcs
  BY DEF Held
<1>6. ASSUME NEW c \in Held(n)' PROVE NumberTold(n, c, Len(events[n]) + 1)'
  BY <1>1, <1>3, <1>5
<1> QED BY <1>2, <1>4, <1>6 DEF Shown

\* A half going out changes no other end.
LEMMA SendsOne ==
  ASSUME BoardInv, NEW n \in Machines, NEW c \in Conns, SendHalf(n, c)
  PROVE  /\ pc'[n][c] = "sent" /\ flags'[n] # {}
         /\ \A k \in Machines, d \in Conns : (k # n \/ d # c) =>
              pc'[k][d] = pc[k][d] /\ (Half(k, d)' <=> Half(k, d))
<1>1. /\ pc' = [pc EXCEPT ![n][c] = "sent"] /\ flags' = [flags EXCEPT ![n] = {"sent"}]
      /\ wire' = [wire EXCEPT ![n][c] = wire[n][c] \cup {"half"}]
  BY DEF SendHalf
<1>2. "sent" \in Pcs /\ wire[n][c] \cup {"half"} \in SUBSET {"commitment", "half", "hello"}
  BY DEF Pcs, BoardInv, BoardType
<1>3. \A k \in Machines, d \in Conns : pc'[k][d] = IF k = n /\ d = c THEN "sent" ELSE pc[k][d]
  BY <1>1, <1>2, OneEnd DEF BoardInv, BoardType
<1>4. \A k \in Machines, d \in Conns :
         wire'[k][d] = IF k = n /\ d = c THEN wire[n][c] \cup {"half"} ELSE wire[k][d]
  BY <1>1, <1>2, OneEnd DEF BoardInv, BoardType
<1>5. flags'[n] # {}
  BY <1>1 DEF BoardInv, BoardType
<1> QED BY <1>3, <1>4, <1>5 DEF Half

\* The end of a connection that was ahead is told before anything else can be.
LEMMA LeftNext ==
  ASSUME Context, NEW n \in Machines
  PROVE  Left(n)'
<1> SUFFICES ASSUME Approved(n)', NEW d \in Conns, Half(n, d)', ~Ahead(n, d)'
             PROVE  \E e \in Conns : pc'[n][e] = "over" /\ \E j \in 1..Len(events'[n]) : Kills(n, j, e)'
  BY DEF Left
<1>0. /\ Queued(n) /\ Shown(n) /\ Left(n) /\ Serves(n) /\ \A c \in Conns : Goes(n, c)
      /\ BoardInv /\ Single
  BY AtMachine DEF Context, BoardInv
<1>1. gen[n] >= 1 /\ Approved(n) /\ ~Approves(n) /\ ~Lapses(n)
  BY GivenOnce, GenStays DEF Lapses
<1>2. Half(n, d)
  <2> SUFFICES ASSUME SendHalf(n, d)
               PROVE  FALSE
    BY <1>0 DEF Goes
  <2> QED BY <1>0, SendsOne DEF Ahead
<1>3. ASSUME NEW x \in Conns, Half(n, x), ~Ahead(n, x)
      PROVE  \E e \in Conns : pc'[n][e] = "over" /\ \E j \in 1..Len(events'[n]) : Kills(n, j, e)'
  <2>1. PICK e \in Conns : pc[n][e] = "over" /\ \E j \in 1..Len(events[n]) : Kills(n, j, e)
    BY <1>0, <1>1, <1>3 DEF Left
  <2>2. PICK j \in 1..Len(events[n]) : Kills(n, j, e)
    BY <2>1
  <2>3. pc'[n][e] = "over"
    BY <1>0, <2>1 DEF Goes
  <2>4. \E k \in 1..Len(events'[n]) : Kills(n, k, e)'
    BY <1>0, <1>1, <2>2, KillsStay, KillsNear DEF Serves
  <2> QED BY <2>3, <2>4
<1>4. CASE Ahead(n, d) /\ \A x \in Conns : Half(n, x) => Ahead(n, x)
  <2>1. /\ pc'[n][d] = "over" /\ events'[n] = Append(events[n], EndedEvent(d))
        /\ screen'[n] = screen[n]
    BY <1>0, <1>4 DEF Goes, Leaves
  <2>2. \A x \in Conns : Half(n, x) => x = d
    BY <1>0, <1>4 DEF Single
  <2>3. events[n] \in Seq(Event) /\ Len(events[n]) \in Nat /\ screen[n].conn \in Conns \cup {0}
    BY DEF Context, SettleInv, ServiceType
  <2>4. EndedEvent(d) \in Event /\ EndedEvent(d).kind = "ended" /\ EndedEvent(d).conn = d
    BY DEF EndedEvent, Event
  <2>5. /\ Len(events'[n]) = Len(events[n]) + 1 /\ events'[n][Len(events[n]) + 1] = EndedEvent(d)
        /\ \A i \in 1..Len(events[n]) : events'[n][i] = events[n][i]
    BY <2>1, <2>3, <2>4, AppendFacts
  <2>6. screen'[n].conn \in {0, d}
    BY <1>0, <2>1, <2>2, <2>3 DEF Shown
  <2>7. ASSUME NEW i \in 1..Len(events[n]), events'[n][i].kind # "ended" PROVE events'[n][i].conn = d
    <3>1. events[n][i] \in Event /\ events'[n][i] = events[n][i]
      BY <2>3, <2>5
    <3>2. events[n][i].conn \in Conns
      BY <3>1 DEF Event
    <3>3. Half(n, events[n][i].conn)
      BY <1>0, <2>7, <3>1 DEF Queued
    <3> QED BY <2>2, <3>1, <3>2, <3>3
  <2>8. ASSUME NEW j, j = Len(events[n]) + 1 PROVE j \in 1..Len(events'[n]) /\ Kills(n, j, d)'
    <3>1. j \in 1..Len(events'[n]) /\ \A i \in 1..j-1 : i \in 1..Len(events[n])
      BY <2>3, <2>5, <2>8
    <3> QED BY <2>4, <2>5, <2>6, <2>7, <2>8, <3>1 DEF Kills
  <2> QED BY <2>1, <2>8
<1> QED BY <1>2, <1>3, <1>4

\* What is begun after a half went out is begun too late.
LEMMA LateNext ==
  ASSUME Context, NEW n \in Machines
  PROVE  Late(n)'
<1> DEFINE o == Other(n)
<1> SUFFICES ASSUME NEW c \in Conns, NEW d \in Conns, c # d, Early(n, c)', flags'[n] = {}, Half(n, d)'
             PROVE  Spoilt(n, c)' /\ ((Half(o, c)' /\ Half(o, d)') => Spoilt(o, c)')
  BY DEF Late
<1>0. /\ Shown(n) /\ Left(n) /\ Late(n) /\ Late(o) /\ o \in Machines /\ o # n /\ Other(o) = n
      /\ Goes(n, c) /\ Goes(n, d) /\ Goes(o, c) /\ Goes(o, d) /\ BoardInv
  BY AtMachine, OtherFacts DEF Context
<1>1. flags[n] = {}
  BY <1>0 DEF Goes
<1>2. Half(n, d)
  BY <1>0, SendsOne DEF Goes
<1>3. CASE Early(n, c)
  <2>1. Spoilt(n, c)
    BY <1>0, <1>1, <1>2, <1>3 DEF Late
  <2>2. ASSUME Half(o, c)', Half(o, d)' PROVE Spoilt(o, c)
    <3>1. CASE Half(o, c) /\ Half(o, d)
      BY <1>0, <1>1, <1>2, <1>3, <3>1 DEF Late
    <3>2. CASE ~Half(o, c)
      <4>1. SendHalf(o, c)
        BY <1>0, <2>2, <3>2 DEF Goes
      <4>2. Half(o, d) /\ Early(o, c) /\ flags[o] = {}
        BY <1>0, <2>2, <4>1, SendsOne, SendsEarly
      <4> QED BY <1>0, <4>2 DEF Late
    <3>3. CASE Half(o, c) /\ ~Half(o, d)
      <4>1. SendHalf(o, d)
        BY <1>0, <2>2, <3>3 DEF Goes
      <4>2. Early(o, d) /\ flags[o] = {}
        BY <1>0, <4>1, SendsEarly
      <4>3. Dead(n, c)
        BY <1>0, <1>2, <3>3, <4>2 DEF BoardInv, Behind
      <4> QED BY <1>1, <1>3, <4>3 DEF Dead, Early
    <3> QED BY <3>1, <3>2, <3>3
  <2> QED BY <1>0, <2>1, <2>2, SpoiltStays
<1>4. CASE ~Early(n, c)
  <2>1. pc[n][c] = "off" /\ Approved(n) /\ Held(n) = {}
    BY <1>0, <1>4 DEF Goes, Begins
  <2>2. wire[n][c] = {} /\ ~Half(o, c)
    <3>1. wire[n][c] = {}
      BY <2>1 DEF Context, BoardInv, Order, OrderAt
    <3>2. Half(o, c) => wire[Other(o)][c] # {}
      BY <1>0 DEF BoardInv, Order, OrderAt
    <3> QED BY <1>0, <3>1, <3>2
  <2>3. ~Half(o, c)'
    <3>1. SendHalf(o, c) => pc'[n][c] = pc[n][c]
      BY <1>0, SendsOne
    <3> QED BY <1>0, <2>1, <2>2, <3>1 DEF Goes, Early
  <2>4. ~Ahead(n, d)
    BY <1>1, <2>1 DEF Ahead, Held, HeldPcs, Context, BoardInv, Order, OrderAt
  <2>5. PICK e \in Conns : pc[n][e] = "over" /\ \E j \in 1..Len(events[n]) : Kills(n, j, e)
    BY <1>0, <1>2, <2>1, <2>4 DEF Left
  <2>6. e # c
    BY <2>1, <2>5
  <2>7. screen[n].conn # c
    <3>1. ~Half(n, c) /\ c # 0
      BY <2>2, PairingAssumption DEF Half, Conns
    <3> QED BY <1>0, <3>1 DEF Shown
  <2>8. gen[n] >= 1
    BY <1>2, GivenOnce
  <2>9. Spoilt(n, c)
    BY <2>5, <2>6, <2>7, <2>8 DEF Spoilt
  <2> QED BY <2>3, <2>9, SpoiltStays
<1> QED BY <1>3, <1>4

\* The second of two connections to have both halves out is the one that is lost.
LEMMA OneSpoiltNext ==
  ASSUME Context
  PROVE  OneSpoilt'
<1>0. First \in Machines /\ Second \in Machines /\ BoardInv /\ OneSpoilt
  BY DEF Machines, Context, SettleInv
<1>1. ASSUME NEW c \in Conns, SpoiltAtBoth(c) PROVE SpoiltAtBoth(c)'
  BY <1>0, <1>1, SpoiltStays DEF SpoiltAtBoth
<1>2. ASSUME NEW c \in Conns, NEW d \in Conns, c # d, Complete(c)', Complete(d)', ~Complete(c)
      PROVE  SpoiltAtBoth(c)
  <2>1. PICK m \in Machines : Half(m, c)' /\ ~Half(m, c)
    BY <1>0, <1>2 DEF Complete
  <2>2. Goes(m, c) /\ Late(m) /\ Other(m) \in Machines /\ Other(m) # m
    BY AtMachine, OtherFacts
  <2>3. SendHalf(m, c)
    BY <2>1, <2>2 DEF Goes
  <2>4. Half(Other(m), c)' /\ Half(Other(m), d)' /\ Half(m, d)'
    BY <1>2, <2>1 DEF Complete, Machines, Other
  <2>5. Half(Other(m), c) /\ Half(Other(m), d) /\ Half(m, d) /\ Early(m, c) /\ flags[m] = {}
    BY <1>0, <1>2, <2>2, <2>3, <2>4, SendsOne, SendsEarly
  <2>6. Spoilt(m, c) /\ Spoilt(Other(m), c)
    BY <1>2, <2>2, <2>5 DEF Late
  <2> QED BY <2>6 DEF SpoiltAtBoth, Machines, Other
<1> SUFFICES ASSUME NEW c \in Conns, NEW d \in Conns, c # d, Complete(c)', Complete(d)'
             PROVE  SpoiltAtBoth(c)' \/ SpoiltAtBoth(d)'
  BY DEF OneSpoilt
<1>3. SpoiltAtBoth(c) \/ SpoiltAtBoth(d)
  <2>1. CASE Complete(c) /\ Complete(d)
    BY <1>0, <2>1 DEF OneSpoilt
  <2> QED BY <1>2, <2>1
<1> QED BY <1>1, <1>3

\* With another connection's number on screen, nobody answers the one held at
\* the other machine.
LEMMA OtherNumber ==
  ASSUME Context, NEW n \in Machines, NEW c \in Conns, pc[n][c] \in HeldPcs,
         screen[n].conn # 0, screen[n].conn # c
  PROVE  Spoilt(Other(n), c)
<1> DEFINE x == screen[n].conn
<1>1. Half(n, x) /\ Half(Other(n), x) /\ x \in Conns
  <2>1. Shown(n) /\ screen[n].conn \in Conns \cup {0}
    BY AtMachine DEF Context, SettleInv, ServiceType
  <2> QED BY <2>1 DEF Shown
<1>2. Half(n, c) /\ Half(Other(n), c)
  BY DEF Context, BoardInv, Order, OrderAt, Ahead, HeldPcs
<1>3. Complete(x) /\ Complete(c)
  BY <1>1, <1>2 DEF Complete, Machines, Other
<1>4. SpoiltAtBoth(x) \/ SpoiltAtBoth(c)
  BY <1>1, <1>3 DEF Context, SettleInv, OneSpoilt
<1>5. ~Spoilt(n, x)
  BY DEF Spoilt
<1> QED BY <1>4, <1>5 DEF SpoiltAtBoth, Machines, Other

\* A confirmation settles the connection it came by, with the number on screen
\* answered and the other machine's person's answer agreeing.
LEMMA SettlesOn ==
  ASSUME Context, NEW n \in Machines, Settles(n), NEW x, x = screen[n].conn
  PROVE  /\ x \in Conns /\ x \in yes[n] /\ "hello" \in wire[Other(n)][x] /\ ~Spoilt(n, x)
         /\ Half(n, x) /\ Half(Other(n), x)
         /\ AgreesWith(lease[n].answer, answer[Other(n)][x])
<1>1. events[n] \in Seq(Event) /\ events[n] # <<>> /\ x \in Conns \cup {0}
  BY DEF Context, SettleInv, ServiceType, Settles
<1>2. Queued(n) /\ Shown(n)
  BY AtMachine
<1>3. x # 0
  BY <1>2 DEF Shown, Settles, NoScreen
<1>4. /\ Approved(n) /\ Half(n, x) /\ Half(Other(n), x) /\ x \in yes[n]
      /\ Blind(n, x) \/ AgreesWith(lease[n].answer, answer[Other(n)][x])
  BY <1>2, <1>3 DEF Shown, Settles
<1>5. /\ 1 \in 1..Len(events[n]) /\ events[n][1].kind = "confirmed" /\ Len(events[n]) \in Nat
  BY <1>1, TailFacts DEF Settles
<1>6. events[n][1].conn = x
  <2> DEFINE y == events[n][1].conn
  <2>1. NumberTold(n, y, 1)
    BY <1>2, <1>5 DEF Queued
  <2>2. screen[n].conn = y \/ Spoilt(n, y)
    BY <1>4, <2>1 DEF NumberTold
  <2>3. ASSUME Spoilt(n, y) PROVE FALSE
    <3>1. PICK d \in Conns : d # y /\ \E j \in 1..Len(events[n]) : Kills(n, j, d)
      BY <1>4, <2>3 DEF Spoilt
    <3>2. PICK j \in 1..Len(events[n]) : Kills(n, j, d)
      BY <3>1
    <3>3. j # 1
      BY <1>5, <3>2 DEF Kills
    <3>4. 1 \in 1..j-1
      BY <1>5, <3>2, <3>3
    <3> QED BY <1>5, <3>1, <3>2, <3>4 DEF Kills
  <2> QED BY <2>2, <2>3
<1>7. "hello" \in wire[Other(n)][x] /\ ~Blind(n, x)
  BY <1>2, <1>5, <1>6 DEF Queued, Blind
<1>8. ~Spoilt(n, x)
  BY DEF Spoilt
<1> QED BY <1>1, <1>3, <1>4, <1>7, <1>8

\* A connection with something sent on it keeps its dialler.
LEMMA DiallerStays ==
  ASSUME Context, NEW n \in Machines, NEW c \in Conns, wire[n][c] # {}
  PROVE  dialler[c] # "nobody" /\ dialler'[c] = dialler[c]
<1>1. dialler[c] # "nobody"
  BY DEF Context, BoardInv, Order, OrderAt
<1> QED BY <1>1, AtMachine DEF Goes

LEMMA VouchedNext ==
  ASSUME Context, NEW n \in Machines
  PROVE  Vouched(n)'
<1> DEFINE o == Other(n)
<1>0. Vouched(n) /\ Stages(n) /\ Shown(n) /\ o \in Machines /\ \A c \in Conns : Goes(n, c)
  BY AtMachine
<1>1. yes[n] \subseteq yes'[n] /\ paired[n] \subseteq paired'[n]
  BY <1>0 DEF Stages, Settles
<1> SUFFICES ASSUME NEW c \in Conns
             PROVE  LET lost == Spoilt(o, c)' IN
                    /\ (c \in Held(n)' /\ stage'[n] \in {"answered", "settled"}) => c \in yes'[n] \/ lost
                    /\ (c \in Held(n)' /\ stage'[n] = "settled") => c \in paired'[n] \/ lost
                    /\ "hello" \in wire'[n][c] => c \in yes'[n] \/ lost
                    /\ ("hello" \in wire'[n][c] /\ dialler'[c] # n) => c \in paired'[n] \/ lost
  BY DEF Vouched
<1>2. Spoilt(o, c) => Spoilt(o, c)'
  BY <1>0, SpoiltStays
<1>3. /\ (c \in Held(n) /\ stage[n] \in {"answered", "settled"}) => c \in yes[n] \/ Spoilt(o, c)
      /\ (c \in Held(n) /\ stage[n] = "settled") => c \in paired[n] \/ Spoilt(o, c)
      /\ "hello" \in wire[n][c] => c \in yes[n] \/ Spoilt(o, c)
      /\ ("hello" \in wire[n][c] /\ dialler[c] # n) => c \in paired[n] \/ Spoilt(o, c)
  BY <1>0 DEF Vouched
<1>4. ASSUME c \in Held(n)', stage'[n] \in {"answered", "settled"}
      PROVE  pc[n][c] \in HeldPcs /\ c \in Held(n)
  <2>1. pc'[n][c] \in HeldPcs
    BY <1>4 DEF Held
  <2> QED BY <1>0, <1>4, <2>1 DEF Goes, Reaches, Held
<1>5. ASSUME c \in Held(n)', stage'[n] \in {"answered", "settled"}
      PROVE  c \in yes'[n] \/ Spoilt(o, c)
  <2>1. CASE stage'[n] = stage[n] \/ stage[n] = "answered"
    BY <1>1, <1>3, <1>4, <1>5, <2>1
  <2>2. CASE stage'[n] = "answered" /\ Answered(n)
    <3>1. screen[n].conn # 0 /\ screen[n].conn \in yes'[n]
      BY <1>0, <2>2 DEF Answered, Shown
    <3> QED BY <1>4, <1>5, <3>1, OtherNumber
  <2> QED BY <1>0, <1>5, <2>1, <2>2 DEF Stages
<1>6. ASSUME c \in Held(n)', stage'[n] = "settled"
      PROVE  c \in paired'[n] \/ Spoilt(o, c)
  <2>1. CASE stage'[n] = stage[n]
    BY <1>1, <1>3, <1>4, <1>6, <2>1
  <2>2. CASE Settles(n)
    <3>1. screen[n].conn # 0 /\ screen[n].conn \in paired'[n]
      BY <1>0, <2>2 DEF Settles, Shown, NoScreen
    <3> QED BY <1>4, <1>6, <3>1, OtherNumber
  <2> QED BY <1>0, <1>6, <2>1, <2>2 DEF Stages
<1>7. ASSUME "hello" \in wire'[n][c], "hello" \notin wire[n][c]
      PROVE  /\ c \in yes[n] \/ Spoilt(o, c)
             /\ dialler[c] # n => c \in paired[n] \/ Spoilt(o, c)
  <2>1. /\ pc[n][c] \in HeldPcs /\ stage[n] \in {"answered", "settled"}
        /\ dialler[c] # n => stage[n] = "settled"
    BY <1>0, <1>7 DEF Goes
  <2>2. c \in Held(n)
    BY <2>1 DEF Held
  <2> QED BY <1>3, <2>1, <2>2
<1>8. ASSUME "hello" \in wire'[n][c], dialler'[c] # n PROVE dialler[c] # n
  <2>1. n # "nobody" /\ Goes(n, c)
    BY <1>0, PairingAssumption
  <2> QED BY <1>8, <2>1 DEF Goes
<1> QED BY <1>1, <1>2, <1>3, <1>5, <1>6, <1>7, <1>8

LEMMA SaidNext ==
  ASSUME Context, NEW n \in Machines
  PROVE  Said(n)'
<1> DEFINE o == Other(n)
<1>0. /\ Gens(n) /\ Said(n) /\ Serves(n) /\ Stages(n) /\ o \in Machines
      /\ \A c \in Conns : Goes(n, c) /\ Goes(o, c)
  BY AtMachine
<1>1. ASSUME gen[n] >= 1
      PROVE  lease'[n].state # "none" => lease[n].state # "none" /\ lease'[n].answer = lease[n].answer
  <2>1. ~Approves(n)
    BY <1>1, GenStays
  <2> QED BY <1>0, <2>1 DEF Serves, Rests, Answered, Lapses, Shows, Skips
<1>2. ASSUME NEW c \in Conns, Half(n, c)' \/ Early(n, c)'
      PROVE  answer'[n][c] # {} /\ (lease'[n].state # "none" => answer'[n][c] = lease'[n].answer)
  <2>1. CASE Half(n, c) \/ Early(n, c)
    <3>1. /\ answer[n][c] # {} /\ (lease[n].state # "none" => answer[n][c] = lease[n].answer)
          /\ answer'[n][c] = answer[n][c] /\ gen[n] >= 1
      BY <1>0, <2>1, GivenOnce DEF Said, Goes
    <3> QED BY <1>1, <3>1
  <2>2. CASE ~Half(n, c) /\ ~Early(n, c)
    <3>1. Begins(n, c)
      BY <1>0, <1>2, <2>2, SendsEarly DEF Goes
    <3>2. lease'[n] = lease[n] /\ answer'[n][c] = lease[n].answer /\ lease[n].state # "none"
      BY <3>1 DEF Begins, Rests, Approved
    <3> QED BY <1>0, <3>2 DEF Gens
  <2> QED BY <2>1, <2>2
<1>3. ASSUME NEW c \in Conns, c \in paired'[n]
      PROVE  /\ Half(n, c)' /\ Half(o, c)'
             /\ lease'[n].state # "none" => AgreesWith(lease'[n].answer, answer'[o][c])
  <2>1. /\ Half(n, c) /\ Half(o, c)
        /\ lease[n].state # "none" => AgreesWith(lease[n].answer, answer[o][c])
    <3>1. CASE c \in paired[n]
      BY <1>0, <3>1 DEF Said
    <3>2. CASE c \notin paired[n]
      <4>1. Settles(n) /\ c = screen[n].conn
        BY <1>0, <1>3, <3>2 DEF Stages, Settles
      <4> QED BY <4>1, SettlesOn
    <3> QED BY <3>1, <3>2
  <2>2. Half(n, c)' /\ Half(o, c)' /\ answer'[o][c] = answer[o][c]
    BY <1>0, <2>1 DEF Goes
  <2>3. gen[n] >= 1
    BY <2>1, GivenOnce
  <2> QED BY <1>1, <2>1, <2>2, <2>3
<1> QED BY <1>2, <1>3 DEF Said

LEMMA SettledNext ==
  ASSUME Context, NEW n \in Machines
  PROVE  Settled(n)'
<1> DEFINE o == Other(n)
<1>0. /\ Said(n) /\ Settled(n) /\ Stages(n) /\ Stages(o) /\ Vouched(o) /\ o \in Machines
      /\ o # n /\ Other(o) = n
  BY AtMachine, OtherFacts
<1>1. yes[n] \subseteq yes'[n] /\ yes[o] \subseteq yes'[o] /\ paired[o] \subseteq paired'[o]
  BY <1>0 DEF Stages, Settles
<1>2. paired'[n] \in SUBSET Conns /\ paired[n] \in SUBSET Conns
  BY DEF Context, SettleInv, ServiceType
<1> SUFFICES ASSUME NEW c \in paired'[n]
             PROVE  c \in yes'[n] /\ c \in yes'[o] /\ (dialler'[c] = n => c \in paired'[o])
  BY DEF Settled
<1>3. c \in Conns
  BY <1>2
<1>4. Half(n, c) /\ c \in yes[n] /\ c \in yes[o] /\ (dialler[c] = n => c \in paired[o])
  <2>1. CASE c \in paired[n]
    BY <1>0, <1>3, <2>1 DEF Said, Settled
  <2>2. CASE c \notin paired[n]
    <3>1. Settles(n) /\ c = screen[n].conn
      BY <1>0, <2>2 DEF Stages, Settles
    <3>2. c \in yes[n] /\ "hello" \in wire[o][c] /\ ~Spoilt(n, c) /\ Half(n, c)
      BY <3>1, SettlesOn
    <3> QED BY <1>0, <1>3, <3>2 DEF Vouched
  <2> QED BY <2>1, <2>2
<1>5. dialler'[c] = dialler[c]
  BY <1>3, <1>4, DiallerStays DEF Half
<1> QED BY <1>1, <1>4, <1>5

----------------------------------------------------------------------------
(* Every step is one of those *)

\* A step of the machine `m', and what it needs to be one.
Moved(m) ==
  /\ ServiceType'
  /\ \A n \in Machines : n # m => Still(n)
  /\ Steps(m)

LEMMA MovedSteps ==
  ASSUME NEW m \in Machines, Moved(m)
  PROVE  ServiceType' /\ \A n \in Machines : Steps(n)
BY StillSteps DEF Moved

\* An end whose task does nothing.
LEMMA BesideGoes ==
  ASSUME NEW m \in Machines, NEW d \in Conns,
         pc'[m][d] = pc[m][d], wire'[m][d] = wire[m][d], answer'[m][d] = answer[m][d],
         closed[m][d] => closed'[m][d],
         (Early(m, d) /\ flags'[m] = {}) => flags[m] = {},
         dialler[d] # "nobody" => dialler'[d] = dialler[d]
  PROVE  Goes(m, d)
BY DEF Goes, Half, Early, Ahead

\* A step of one connection's task.
TaskStep(m, c) ==
  /\ \E x \in Pcs : pc' = [pc EXCEPT ![m][c] = x]
  /\ \/ wire' = wire
     \/ wire' = [wire EXCEPT ![m][c] = wire[m][c] \cup {"half"}]
     \/ wire' = [wire EXCEPT ![m][c] = wire[m][c] \cup {"hello"}]
  /\ closed' = closed \/ closed' = [closed EXCEPT ![m][c] = TRUE]
  /\ \/ stage' = stage
     \/ stage' = [stage EXCEPT ![m] = "none"]
     \/ stage' = [stage EXCEPT ![m] = "comparing"]
  /\ events' = events \/ \E e \in Event : Fit(m, e) /\ Tell(m, e)
  /\ UNCHANGED <<dialler, answer, lease, screen, gen, yes, paired>>
  /\ \A n \in Machines : n # m => flags'[n] = flags[n]
  /\ \A d \in Conns : (d # c /\ Early(m, d) /\ flags'[m] = {}) => flags[m] = {}

LEMMA TaskMoved ==
  ASSUME BoardType, ServiceType, NEW m \in Machines, NEW c \in Conns, TaskStep(m, c), Goes(m, c)
  PROVE  Moved(m)
<1>1. PICK x \in Pcs : pc' = [pc EXCEPT ![m][c] = x]
  BY DEF TaskStep
<1>2. /\ \A n \in Machines : n # m => pc'[n] = pc[n]
      /\ \A d \in Conns : d # c => pc'[m][d] = pc[m][d]
  BY <1>1 DEF BoardType
<1>3. /\ \A n \in Machines : n # m => wire'[n] = wire[n]
      /\ \A d \in Conns : d # c => wire'[m][d] = wire[m][d]
  BY DEF TaskStep, BoardType
<1>4. /\ closed' \in [Machines -> [Conns -> BOOLEAN]]
      /\ \A n \in Machines : n # m => closed'[n] = closed[n]
      /\ \A d \in Conns : closed[m][d] => closed'[m][d]
  <2>1. CASE closed' = closed
    BY <2>1 DEF ServiceType
  <2>2. CASE closed' = [closed EXCEPT ![m][c] = TRUE]
    BY <2>2 DEF ServiceType
  <2> QED BY <2>1, <2>2 DEF TaskStep
<1>5. /\ stage' \in [Machines -> {"none", "comparing", "answered", "settled", "over"}]
      /\ \A n \in Machines : n # m => stage'[n] = stage[n]
      /\ stage'[m] = stage[m] \/ stage'[m] \in {"none", "comparing"}
  BY DEF TaskStep, ServiceType
<1>6. /\ events' \in [Machines -> Seq(Event)]
      /\ \A n \in Machines : n # m => events'[n] = events[n]
      /\ \/ events'[m] = events[m]
         \/ \E e \in Event : Fit(m, e) /\ events'[m] = Append(events[m], e)
  <2>1. CASE events' = events
    BY <2>1 DEF ServiceType
  <2>2. ASSUME NEW e \in Event, Fit(m, e), Tell(m, e)
        PROVE  /\ events' \in [Machines -> Seq(Event)]
               /\ \A n \in Machines : n # m => events'[n] = events[n]
               /\ events'[m] = Append(events[m], e)
    <3>1. Append(events[m], e) \in Seq(Event) /\ events' = [events EXCEPT ![m] = Append(events[m], e)]
      BY <2>2 DEF Tell, ServiceType
    <3> QED BY <3>1 DEF ServiceType
  <2> QED BY <2>1, <2>2 DEF TaskStep
<1>7. UNCHANGED <<dialler, answer, lease, screen, gen, yes, paired>>
  BY DEF TaskStep
<1>8. ServiceType'
  BY <1>4, <1>5, <1>6, <1>7 DEF ServiceType
<1>9. \A n \in Machines : n # m => Still(n)
  BY <1>2, <1>3, <1>4, <1>5, <1>6, <1>7 DEF Still, TaskStep
<1>10. Serves(m)
  BY <1>6, <1>7 DEF Serves, Rests
<1>11. Stages(m)
  BY <1>5, <1>7 DEF Stages
<1>12. ASSUME NEW d \in Conns, d # c PROVE Goes(m, d)
  <2>1. (Early(m, d) /\ flags'[m] = {}) => flags[m] = {}
    BY <1>12 DEF TaskStep
  <2> QED BY <1>2, <1>3, <1>4, <1>7, <1>12, <2>1, BesideGoes
<1> QED BY <1>8, <1>9, <1>10, <1>11, <1>12 DEF Moved, Steps

\* The flags outlive the comparison counted out while another is under way.
LEMMA CountOutKeeps ==
  ASSUME BoardType, NEW m \in Machines, NEW c \in Conns, NEW told \in SUBSET {"told"}, CountOut(m, c, told)
  PROVE  /\ \A n \in Machines : n # m => flags'[n] = flags[n]
         /\ \A d \in Conns : (d # c /\ Early(m, d) /\ flags'[m] = {}) => flags[m] = {}
<1>1. /\ \A n \in Machines : n # m => flags'[n] = flags[n]
      /\ flags'[m] = IF Arriving(m) = {c} THEN {} ELSE flags[m] \cup told
  BY DEF CountOut, BoardType
<1>2. ASSUME NEW d \in Conns, d # c, Early(m, d) PROVE Arriving(m) # {c}
  <2>1. d \in Arriving(m)
    BY <1>2 DEF Arriving, ArrivingPcs, Early
  <2> QED BY <1>2, <2>1
<1> QED BY <1>1, <1>2

\* The end that moves.
LEMMA ThisEnd ==
  ASSUME BoardType, NEW m \in Machines, NEW c \in Conns, NEW x \in Pcs, pc' = [pc EXCEPT ![m][c] = x]
  PROVE  pc'[m][c] = x
BY DEF BoardType

LEMMA ThisClosed ==
  ASSUME ServiceType, NEW m \in Machines, NEW c \in Conns,
         closed' = closed \/ closed' = [closed EXCEPT ![m][c] = TRUE]
  PROVE  closed[m][c] => closed'[m][c]
BY DEF ServiceType

LEMMA ComparisonMoved ==
  ASSUME BoardInv, ServiceType, NEW m \in Machines, NEW c \in Conns,
         SendHalf(m, c) \/ Wait(m, c) \/ GiveUp(m, c) \/ FailEarly(m, c)
  PROVE  Moved(m)
<1>0. BoardType /\ EndedEvent(c) \in Event /\ Fit(m, EndedEvent(c))
  BY DEF BoardInv, EndedEvent, Event, Fit
<1>1. CASE SendHalf(m, c)
  <2>1. /\ Early(m, c) /\ pc' = [pc EXCEPT ![m][c] = "sent"] /\ flags' = [flags EXCEPT ![m] = {"sent"}]
        /\ wire' = [wire EXCEPT ![m][c] = wire[m][c] \cup {"half"}]
        /\ UNCHANGED <<dialler, closed, answer, stage, lease, screen, events, gen, yes, paired>>
        /\ "sent" \in Pcs
    BY <1>1 DEF SendHalf, serviceVars, histVars, Early, Pcs
  <2>2. pc'[m][c] = "sent" /\ flags'[m] # {} /\ \A n \in Machines : n # m => flags'[n] = flags[n]
    BY <1>0, <2>1, ThisEnd DEF BoardType
  <2>3. Half(m, c)' /\ ("hello" \in wire'[m][c] <=> "hello" \in wire[m][c])
    BY <1>0, <2>1 DEF BoardType, Half
  <2>4. TaskStep(m, c)
    BY <2>1, <2>2 DEF TaskStep
  <2>5. Goes(m, c)
    BY <1>1, <2>1, <2>2, <2>3 DEF Goes, Early, Ahead, HeldPcs
  <2> QED BY <1>0, <2>4, <2>5, TaskMoved
<1>2. CASE Wait(m, c)
  <2>1. /\ pc[m][c] = "begun" /\ pc' = [pc EXCEPT ![m][c] = "waiting"] /\ "waiting" \in Pcs
        /\ UNCHANGED <<dialler, closed, wire, flags, answer, stage, lease, screen, events, gen, yes, paired>>
    BY <1>2 DEF Wait, linkVars, serviceVars, histVars, Pcs
  <2>2. pc'[m][c] = "waiting"
    BY <1>0, <2>1, ThisEnd
  <2>3. TaskStep(m, c)
    BY <2>1 DEF TaskStep
  <2>4. Goes(m, c)
    BY <2>1, <2>2 DEF Goes, Half, Early, Ahead, HeldPcs
  <2> QED BY <1>0, <2>3, <2>4, TaskMoved
<1>3. CASE GiveUp(m, c) \/ FailEarly(m, c)
  <2>1. /\ Early(m, c) /\ pc' = [pc EXCEPT ![m][c] = "over"] /\ closed' = [closed EXCEPT ![m][c] = TRUE]
        /\ UNCHANGED <<dialler, wire, answer, stage, lease, screen, gen, yes, paired>>
        /\ "over" \in Pcs
    BY <1>3 DEF GiveUp, FailEarly, serviceVars, histVars, Early, Pcs
  <2>2. PICK told \in SUBSET {"told"} : CountOut(m, c, told)
    <3>1. {} \in SUBSET {"told"} /\ {"told"} \in SUBSET {"told"}
      OBVIOUS
    <3> QED BY <1>3, <3>1 DEF GiveUp, FailEarly
  <2>3. events' = events \/ Tell(m, EndedEvent(c))
    BY <1>3 DEF GiveUp, FailEarly
  <2>4. /\ \A n \in Machines : n # m => flags'[n] = flags[n]
        /\ \A d \in Conns : (d # c /\ Early(m, d) /\ flags'[m] = {}) => flags[m] = {}
    BY <1>0, <2>2, CountOutKeeps
  <2>5. pc'[m][c] = "over" /\ (closed[m][c] => closed'[m][c])
    BY <1>0, <2>1, ThisEnd, ThisClosed
  <2>6. TaskStep(m, c)
    BY <1>0, <2>1, <2>3, <2>4 DEF TaskStep
  <2>7. Goes(m, c)
    BY <2>1, <2>5 DEF Goes, Half, Early, Ahead, HeldPcs
  <2> QED BY <1>0, <2>6, <2>7, TaskMoved
<1> QED BY <1>1, <1>2, <1>3

LEMMA FailLateMoved ==
  ASSUME BoardInv, ServiceType, NEW m \in Machines, NEW c \in Conns,
         FailLate(m, c) \/ EndHeld(m, c)
  PROVE  Moved(m)
<1>0. BoardType /\ EndedEvent(c) \in Event /\ Fit(m, EndedEvent(c)) /\ "over" \in Pcs
  BY DEF BoardInv, EndedEvent, Event, Fit, Pcs
<1>1. /\ Ahead(m, c) /\ pc' = [pc EXCEPT ![m][c] = "over"] /\ closed' = [closed EXCEPT ![m][c] = TRUE]
      /\ Tell(m, EndedEvent(c)) /\ UNCHANGED <<dialler, wire, answer, lease, screen, gen, yes, paired>>
      /\ stage' = stage \/ stage' = [stage EXCEPT ![m] = "none"]
  BY DEF FailLate, EndHeld, Release, serviceVars, histVars, Ahead, Held, HeldPcs
<1>2. /\ \A n \in Machines : n # m => flags'[n] = flags[n]
      /\ \A d \in Conns : (d # c /\ Early(m, d) /\ flags'[m] = {}) => flags[m] = {}
  <2>1. CASE flags' = flags
    BY <2>1
  <2>2. CASE CountOut(m, c, {"told"})
    <3>1. {"told"} \in SUBSET {"told"}
      OBVIOUS
    <3> QED BY <1>0, <2>2, <3>1, CountOutKeeps
  <2> QED BY <2>1, <2>2 DEF FailLate, EndHeld
<1>3. pc'[m][c] = "over" /\ (closed[m][c] => closed'[m][c])
  BY <1>0, <1>1, ThisEnd, ThisClosed
<1>4. TaskStep(m, c)
  BY <1>0, <1>1, <1>2 DEF TaskStep
<1>5. Leaves(m, c)
  BY <1>1, <1>3 DEF Leaves, Tell, ServiceType
<1>6. Goes(m, c)
  BY <1>1, <1>3, <1>5 DEF Goes, Half, Early, Ahead, HeldPcs
<1> QED BY <1>0, <1>4, <1>6, TaskMoved

LEMMA ReachMoved ==
  ASSUME BoardInv, ServiceType, NEW m \in Machines, NEW c \in Conns, Reach(m, c)
  PROVE  Moved(m)
<1>0. BoardType /\ "number" \in Pcs
  BY DEF BoardInv, Pcs
<1>1. /\ pc[m][c] = "sent" /\ pc' = [pc EXCEPT ![m][c] = "number"]
      /\ stage' = [stage EXCEPT ![m] = "comparing"] /\ CountOut(m, c, {})
      /\ UNCHANGED <<dialler, closed, wire, answer, lease, screen, gen, yes, paired>>
  BY DEF Reach, linkVars, serviceVars, histVars
<1>2. PICK theirs \in {answer[Other(m)][c]} \cup (IF closed[m][c] THEN {{}} ELSE {}) :
        Tell(m, NumberEvent(c, theirs))
  BY DEF Reach
<1>3. theirs \in SUBSET Bits /\ (theirs = answer[Other(m)][c] \/ closed[m][c])
  <2>1. answer[Other(m)][c] \in SUBSET Bits
    BY OtherFacts DEF ServiceType
  <2> QED BY <1>2, <2>1
<1> DEFINE e == NumberEvent(c, theirs)
<1>4. e \in Event /\ e.kind = "number" /\ e.conn = c /\ e.theirs = theirs
  BY <1>3 DEF NumberEvent, Event
<1>5. Half(m, c) /\ Half(Other(m), c)
  <2>1. OrderAt(m, c) /\ (dialler[c] = m => "half" \in wire[Other(m)][c])
    BY DEF BoardInv, Order, Reach
  <2> QED BY <1>1, <2>1 DEF OrderAt, Ahead, Half
<1> HIDE DEF e
<1>6. Fit(m, e)
  BY <1>1, <1>3, <1>4, <1>5 DEF Fit
<1>7. /\ \A n \in Machines : n # m => flags'[n] = flags[n]
      /\ \A d \in Conns : (d # c /\ Early(m, d) /\ flags'[m] = {}) => flags[m] = {}
  <2>1. {} \in SUBSET {"told"}
    OBVIOUS
  <2> QED BY <1>0, <1>1, <2>1, CountOutKeeps
<1>8. Tell(m, e)
  BY <1>2 DEF e
<1>9. TaskStep(m, c)
  BY <1>0, <1>1, <1>4, <1>6, <1>7, <1>8 DEF TaskStep
<1>10. pc'[m][c] = "number"
  BY <1>0, <1>1, ThisEnd
<1>11. Reaches(m, c)
  <2>1. events'[m] = Append(events[m], e) /\ stage'[m] = "comparing"
    BY <1>1, <1>8 DEF Tell, ServiceType
  <2>2. Rests(m)
    BY <1>1, <1>4, <1>6, <2>1 DEF Rests
  <2> QED BY <1>3, <2>1, <2>2 DEF Reaches, e
<1>12. Goes(m, c)
  BY <1>1, <1>10, <1>11 DEF Goes, Half, Early, Ahead, HeldPcs
<1> QED BY <1>0, <1>9, <1>12, TaskMoved

LEMMA HeldMoved ==
  ASSUME BoardInv, ServiceType, NEW m \in Machines, Gens(m), NEW c \in Conns,
         SeeAnswered(m, c) \/ SeePeerHello(m, c) \/ SeeSettled(m, c) \/ SeeOver(m, c)
  PROVE  Moved(m)
<1>0. BoardType /\ {"hello", "confirm", "link", "over"} \subseteq Pcs
  BY DEF BoardInv, Pcs
<1>1. /\ \/ wire' = wire
         \/ /\ wire' = [wire EXCEPT ![m][c] = wire[m][c] \cup {"hello"}]
            /\ stage[m] \in {"answered", "settled"} /\ (dialler[c] # m => stage[m] = "settled")
      /\ UNCHANGED <<dialler, closed, answer, flags, lease, screen, gen, yes, paired>>
      /\ stage' = stage \/ stage' = [stage EXCEPT ![m] = "none"]
      /\ pc[m][c] \in HeldPcs
  BY DEF SeeAnswered, SeePeerHello, SeeSettled, SeeOver, Release, linkVars, serviceVars, histVars, Held, HeldPcs
<1>2. \/ /\ pc' = [pc EXCEPT ![m][c] = "hello"] /\ pc[m][c] = "number" /\ events' = events
      \/ /\ pc' = [pc EXCEPT ![m][c] = "confirm"] /\ pc[m][c] = "hello"
         /\ Tell(m, PeerConfirmedEvent(c)) /\ "hello" \in wire[Other(m)][c] /\ ~closed[m][c]
      \/ /\ pc' = [pc EXCEPT ![m][c] = "link"] \/ pc' = [pc EXCEPT ![m][c] = "over"]
         /\ events' = events /\ stage[m] \in {"over", "settled"}
  BY DEF SeeAnswered, SeePeerHello, SeeSettled, SeeOver, Release
<1>3. PICK x \in {"hello", "confirm", "link", "over"} : pc' = [pc EXCEPT ![m][c] = x]
  BY <1>2
<1>4. x \in Pcs /\ pc'[m][c] = x
  BY <1>0, <1>3, ThisEnd
<1>5. events' = events \/ \E e \in Event : Fit(m, e) /\ Tell(m, e)
  <2>1. PeerConfirmedEvent(c) \in Event
    BY DEF PeerConfirmedEvent, Event
  <2>2. ASSUME pc' = [pc EXCEPT ![m][c] = "confirm"], "hello" \in wire[Other(m)][c], ~closed[m][c]
        PROVE  Fit(m, PeerConfirmedEvent(c))
    <3>1. pc'[m][c] = "confirm"
      BY <1>0, <2>2, ThisEnd
    <3>2. c \in Held(m)
      BY <1>1 DEF Held
    <3> QED BY <2>2, <3>1, <3>2 DEF Fit, PeerConfirmedEvent
  <2> QED BY <1>2, <2>1, <2>2
<1>6. TaskStep(m, c)
  BY <1>1, <1>3, <1>4, <1>5 DEF TaskStep
<1>7. x \in {"link", "over"} => Leaves(m, c)
  <2>1. x \in {"link", "over"} => stage[m] \in {"over", "settled"}
    <3>1. pc' = [pc EXCEPT ![m][c] = "hello"] => x = "hello"
      BY <1>0, <1>4, ThisEnd
    <3>2. pc' = [pc EXCEPT ![m][c] = "confirm"] => x = "confirm"
      BY <1>0, <1>4, ThisEnd
    <3> QED BY <1>2, <3>1, <3>2
  <2> QED BY <1>1, <2>1 DEF Gens, Leaves, Approved
<1>8. (Half(m, c) <=> Half(m, c)') /\ ("hello" \in wire[m][c] => "hello" \in wire'[m][c])
  BY <1>0, <1>1 DEF Half, BoardType
<1>9. pc[m][c] = "confirm" => x \in {"confirm", "link", "over"}
  <2>1. pc[m][c] = "confirm" => pc' = [pc EXCEPT ![m][c] = "link"] \/ pc' = [pc EXCEPT ![m][c] = "over"]
    BY <1>2
  <2>2. /\ pc' = [pc EXCEPT ![m][c] = "link"] => x = "link"
        /\ pc' = [pc EXCEPT ![m][c] = "over"] => x = "over"
    BY <1>0, <1>4, ThisEnd
  <2> QED BY <2>1, <2>2
<1>10. Goes(m, c)
  BY <1>1, <1>3, <1>4, <1>7, <1>8, <1>9 DEF Goes, Early, Ahead, HeldPcs
<1> QED BY <1>0, <1>6, <1>10, TaskMoved

LEMMA DialMoved ==
  ASSUME BoardInv, ServiceType, NEW m \in Machines, NEW c \in Conns, Dial(m, c)
  PROVE  Moved(m)
<1>1. /\ dialler[c] = "nobody" /\ dialler' = [dialler EXCEPT ![c] = m]
      /\ UNCHANGED <<closed, wire, pc, answer, flags, stage, lease, screen, events, gen, yes, paired>>
  BY DEF Dial, boardVars, serviceVars, histVars
<1>2. \A d \in Conns : dialler[d] # "nobody" => dialler'[d] = dialler[d]
  BY <1>1 DEF BoardInv, BoardType
<1>3. ServiceType'
  BY <1>1 DEF ServiceType
<1>4. \A n \in Machines : Still(n)
  BY <1>1, <1>2 DEF Still
<1> QED BY <1>3, <1>4, StillSteps DEF Moved

LEMMA SeeClosedMoved ==
  ASSUME BoardInv, ServiceType, NEW m \in Machines, NEW c \in Conns, SeeClosed(m, c)
  PROVE  Moved(m)
<1>1. /\ closed' = [closed EXCEPT ![m][c] = TRUE]
      /\ UNCHANGED <<dialler, wire, pc, answer, flags, stage, lease, screen, events, gen, yes, paired>>
  BY DEF SeeClosed, boardVars, serviceVars, histVars
<1>2. pc' = [pc EXCEPT ![m][c] = pc[m][c]] /\ pc[m][c] \in Pcs
  BY <1>1 DEF BoardInv, BoardType
<1>3. TaskStep(m, c)
  BY <1>1, <1>2 DEF TaskStep
<1>4. closed[m][c] => closed'[m][c]
  BY <1>1, ThisClosed
<1>5. Goes(m, c)
  BY <1>1, <1>4, BesideGoes
<1> QED BY <1>3, <1>5, TaskMoved DEF BoardInv

\* The connections a machine closes.
LEMMA ShutFacts ==
  ASSUME ServiceType, NEW m \in Machines, NEW cs, closed' = Shut(m, cs)
  PROVE  /\ closed' \in [Machines -> [Conns -> BOOLEAN]]
         /\ \A n \in Machines : n # m => closed'[n] = closed[n]
         /\ \A d \in Conns : closed[m][d] => closed'[m][d]
<1> DEFINE g == [c \in Conns |-> closed[m][c] \/ c \in cs]
<1>1. g \in [Conns -> BOOLEAN] /\ \A d \in Conns : closed[m][d] => g[d]
  BY DEF ServiceType
<1>2. closed' = [closed EXCEPT ![m] = g]
  BY DEF Shut
<1> HIDE DEF g
<1> QED BY <1>1, <1>2 DEF ServiceType

LEMMA LandMoved ==
  ASSUME BoardInv, BoardInv', ServiceType, NEW m \in Machines, NEW c \in Conns, Land(m, c)
  PROVE  Moved(m)
<1> DEFINE dropped == IF dialler[c] = m THEN Dialling(m) \ {c} ELSE {}
           begins == Approved(m) /\ Held(m) = {} /\ flags[m] = {}
           to == IF begins THEN "begun" ELSE IF lease[m].state = "paired" THEN "link" ELSE "over"
           g == [d \in Conns |-> IF d = c THEN to ELSE IF d \in dropped THEN "over" ELSE pc[m][d]]
<1>1. /\ pc[m][c] = "off" /\ pc' = [pc EXCEPT ![m] = g]
      /\ UNCHANGED <<dialler, flags, stage, lease, screen, events, gen, yes, paired>>
  BY DEF Land, serviceVars, Approved
<1>2. \/ /\ begins /\ answer' = [answer EXCEPT ![m][c] = lease[m].answer]
         /\ wire' = wire \/ wire' = [wire EXCEPT ![m][c] = wire[m][c] \cup {"commitment"}]
      \/ ~begins /\ answer' = answer /\ wire' = wire
  BY DEF Land, Approved
<1>3. \E cs : closed' = Shut(m, cs)
  BY DEF Land
<1>4. /\ closed' \in [Machines -> [Conns -> BOOLEAN]]
      /\ \A n \in Machines : n # m => closed'[n] = closed[n]
      /\ \A d \in Conns : closed[m][d] => closed'[m][d]
  BY <1>3, ShutFacts
<1>5. \A d \in Conns : pc'[m][d] = pc[m][d] \/ (pc[m][d] = "off" /\ pc'[m][d] \in {"begun", "link", "over"})
  <2>1. \A d \in dropped : pc[m][d] = "off"
    BY DEF Dialling
  <2>2. \A d \in Conns : g[d] = IF d = c THEN to ELSE IF d \in dropped THEN "over" ELSE pc[m][d]
    OBVIOUS
  <2>3. pc'[m] = g
    BY <1>1 DEF BoardInv, BoardType
  <2>4. to \in {"begun", "link", "over"}
    OBVIOUS
  <2> HIDE DEF g, to, dropped
  <2> QED BY <1>1, <2>1, <2>2, <2>3, <2>4
<1>6. \A d \in Conns : (pc'[m][d] = "begun" /\ pc[m][d] # "begun") => d = c /\ begins
  <2>1. pc'[m] = g
    BY <1>1 DEF BoardInv, BoardType
  <2>2. \A d \in Conns : g[d] = IF d = c THEN to ELSE IF d \in dropped THEN "over" ELSE pc[m][d]
    OBVIOUS
  <2>3. to = "begun" => begins
    OBVIOUS
  <2> HIDE DEF g, to, dropped, begins
  <2> QED BY <2>1, <2>2, <2>3
<1>7. \A n \in Machines : n # m => pc'[n] = pc[n] /\ wire'[n] = wire[n] /\ answer'[n] = answer[n]
  <2>1. \A n \in Machines : n # m => pc'[n] = pc[n]
    BY <1>1 DEF BoardInv, BoardType
  <2>2. \A n \in Machines : n # m => wire'[n] = wire[n] /\ answer'[n] = answer[n]
    BY <1>2 DEF BoardInv, BoardType, ServiceType
  <2> QED BY <2>1, <2>2
<1>8. /\ \A d \in Conns : (Half(m, d)' <=> Half(m, d)) /\ ("hello" \in wire'[m][d] <=> "hello" \in wire[m][d])
      /\ \A d \in Conns : d # c => answer'[m][d] = answer[m][d]
      /\ begins => answer'[m][c] = lease[m].answer
  <2>1. \A d \in Conns : (Half(m, d)' <=> Half(m, d)) /\ ("hello" \in wire'[m][d] <=> "hello" \in wire[m][d])
    <3>1. CASE wire' = wire
      BY <3>1 DEF Half
    <3>2. CASE wire' = [wire EXCEPT ![m][c] = wire[m][c] \cup {"commitment"}]
      <4>1. wire[m][c] \cup {"commitment"} \in SUBSET {"commitment", "half", "hello"}
        BY DEF BoardInv, BoardType
      <4>2. \A d \in Conns : wire'[m][d] = IF d = c THEN wire[m][c] \cup {"commitment"} ELSE wire[m][d]
        BY <3>2, <4>1, OneEnd DEF BoardInv, BoardType
      <4> QED BY <4>2 DEF Half
    <3> QED BY <1>2, <3>1, <3>2
  <2>2. \A d \in Conns : d # c => answer'[m][d] = answer[m][d]
    BY <1>2 DEF ServiceType
  <2>3. begins => answer'[m][c] = lease[m].answer
    BY <1>2 DEF ServiceType
  <2> QED BY <2>1, <2>2, <2>3
<1>9. answer' \in [Machines -> [Conns -> SUBSET Bits]]
  <2>1. lease[m].answer \in SUBSET Bits
    BY DEF ServiceType
  <2>2. [answer EXCEPT ![m][c] = lease[m].answer] \in [Machines -> [Conns -> SUBSET Bits]]
    BY <2>1, OneEnd DEF ServiceType
  <2> QED BY <1>2, <2>2 DEF ServiceType
<1> HIDE DEF g, to, dropped
<1>10. ServiceType'
  BY <1>1, <1>4, <1>9 DEF ServiceType
<1>11. \A n \in Machines : n # m => Still(n)
  BY <1>1, <1>4, <1>7 DEF Still
<1>12. Rests(m) /\ Serves(m) /\ Stages(m)
  BY <1>1 DEF Rests, Serves, Stages
<1>13. ASSUME NEW d \in Conns PROVE Goes(m, d)
  <2>1. ~Half(m, c) /\ ~Early(m, c)
    BY <1>1 DEF BoardInv, Order, OrderAt, Half, Early
  <2>2. (Early(m, d)' /\ ~Early(m, d)) => Begins(m, d)
    BY <1>1, <1>5, <1>6, <1>8, <1>12 DEF Early, Begins
  <2>3. (Half(m, d) \/ Early(m, d)) => answer'[m][d] = answer[m][d]
    BY <1>8, <2>1
  <2>4. (Ahead(m, d) <=> Ahead(m, d)') /\ (pc'[m][d] \in HeldPcs => pc[m][d] \in HeldPcs)
    BY <1>5 DEF Ahead, HeldPcs
  <2>5. /\ pc[m][d] = "over" => pc'[m][d] = "over"
        /\ pc[m][d] \in {"confirm", "link", "over"} => pc'[m][d] \in {"confirm", "link", "over"}
    BY <1>5
  <2> QED BY <1>1, <1>4, <1>8, <2>2, <2>3, <2>4, <2>5 DEF Goes
<1> QED BY <1>10, <1>11, <1>12, <1>13 DEF Moved, Steps

\* A step of the service, or of a person there.
StageSet == {"none", "comparing", "answered", "settled", "over"}
LeaseSet == [state : {"none", "approved", "paired"}, answer : SUBSET Bits]
ScreenSet == [conn : Conns \cup {0}, answered : BOOLEAN, disagree : BOOLEAN]

ServiceStep(m) ==
  /\ UNCHANGED <<dialler, wire, answer>>
  /\ \A n \in Machines : n # m => pc'[n] = pc[n] /\ flags'[n] = flags[n]
  /\ closed' = closed \/ \E cs : closed' = Shut(m, cs)
  /\ \E x \in StageSet : stage' = [stage EXCEPT ![m] = x]
  /\ \E x \in LeaseSet : lease' = [lease EXCEPT ![m] = x]
  /\ \E x \in ScreenSet : screen' = [screen EXCEPT ![m] = x]
  /\ \E x \in Seq(Event) : events' = [events EXCEPT ![m] = x]
  /\ \E x \in Nat : gen' = [gen EXCEPT ![m] = x]
  /\ \E x \in SUBSET Conns : yes' = [yes EXCEPT ![m] = x]
  /\ \E x \in SUBSET Conns : paired' = [paired EXCEPT ![m] = x]

\* A function that changes at one machine only.
LEMMA OnlyAt ==
  ASSUME NEW S, NEW f \in [Machines -> S], NEW m \in Machines, NEW g, \E x \in S : g = [f EXCEPT ![m] = x]
  PROVE  g \in [Machines -> S] /\ \A n \in Machines : n # m => g[n] = f[n]
OBVIOUS

LEMMA ServiceMoved ==
  ASSUME ServiceType, NEW m \in Machines, ServiceStep(m), Serves(m), Stages(m),
         UNCHANGED <<pc, flags>> \/ \A c \in Conns : Goes(m, c)
  PROVE  Moved(m)
<1>1. /\ closed' \in [Machines -> [Conns -> BOOLEAN]]
      /\ \A n \in Machines : n # m => closed'[n] = closed[n]
      /\ \A d \in Conns : closed[m][d] => closed'[m][d]
  <2>1. CASE closed' = closed
    BY <2>1 DEF ServiceType
  <2>2. CASE \E cs : closed' = Shut(m, cs)
    BY <2>2, ShutFacts
  <2> QED BY <2>1, <2>2 DEF ServiceStep
<1>2. stage' \in [Machines -> StageSet] /\ \A n \in Machines : n # m => stage'[n] = stage[n]
  <2>1. stage \in [Machines -> StageSet] /\ \E x \in StageSet : stage' = [stage EXCEPT ![m] = x]
    BY DEF ServiceType, StageSet, ServiceStep
  <2> QED BY <2>1, OnlyAt
<1>3. lease' \in [Machines -> LeaseSet] /\ \A n \in Machines : n # m => lease'[n] = lease[n]
  <2>1. lease \in [Machines -> LeaseSet] /\ \E x \in LeaseSet : lease' = [lease EXCEPT ![m] = x]
    BY DEF ServiceType, LeaseSet, ServiceStep
  <2> QED BY <2>1, OnlyAt
<1>4. screen' \in [Machines -> ScreenSet] /\ \A n \in Machines : n # m => screen'[n] = screen[n]
  <2>1. screen \in [Machines -> ScreenSet] /\ \E x \in ScreenSet : screen' = [screen EXCEPT ![m] = x]
    BY DEF ServiceType, ScreenSet, ServiceStep
  <2> QED BY <2>1, OnlyAt
<1>5. events' \in [Machines -> Seq(Event)] /\ \A n \in Machines : n # m => events'[n] = events[n]
  <2>1. events \in [Machines -> Seq(Event)] /\ \E x \in Seq(Event) : events' = [events EXCEPT ![m] = x]
    BY DEF ServiceType, ServiceStep
  <2> QED BY <2>1, OnlyAt
<1>6. gen' \in [Machines -> Nat] /\ \A n \in Machines : n # m => gen'[n] = gen[n]
  <2>1. gen \in [Machines -> Nat] /\ \E x \in Nat : gen' = [gen EXCEPT ![m] = x]
    BY DEF ServiceType, ServiceStep
  <2> QED BY <2>1, OnlyAt
<1>7. yes' \in [Machines -> SUBSET Conns] /\ \A n \in Machines : n # m => yes'[n] = yes[n]
  <2>1. yes \in [Machines -> SUBSET Conns] /\ \E x \in SUBSET Conns : yes' = [yes EXCEPT ![m] = x]
    BY DEF ServiceType, ServiceStep
  <2> QED BY <2>1, OnlyAt
<1>8. paired' \in [Machines -> SUBSET Conns] /\ \A n \in Machines : n # m => paired'[n] = paired[n]
  <2>1. paired \in [Machines -> SUBSET Conns] /\ \E x \in SUBSET Conns : paired' = [paired EXCEPT ![m] = x]
    BY DEF ServiceType, ServiceStep
  <2> QED BY <2>1, OnlyAt
<1>9. UNCHANGED <<dialler, wire, answer>> /\ \A n \in Machines : n # m => pc'[n] = pc[n] /\ flags'[n] = flags[n]
  BY DEF ServiceStep
<1>10. ServiceType'
  BY <1>1, <1>2, <1>3, <1>4, <1>5, <1>6, <1>7, <1>8, <1>9 DEF ServiceType, StageSet, LeaseSet, ScreenSet
<1>11. \A n \in Machines : n # m => Still(n)
  BY <1>1, <1>2, <1>3, <1>4, <1>5, <1>6, <1>7, <1>8, <1>9 DEF Still
<1>12. \A c \in Conns : Goes(m, c)
  BY <1>1, <1>9, BesideGoes
<1> QED BY <1>10, <1>11, <1>12 DEF Moved, Steps

\* What a machine keeps is what it had there.
LEMMA Kept ==
  ASSUME ServiceType, NEW m \in Machines
  PROVE  /\ stage = [stage EXCEPT ![m] = stage[m]] /\ stage[m] \in StageSet
         /\ lease = [lease EXCEPT ![m] = lease[m]] /\ lease[m] \in LeaseSet
         /\ screen = [screen EXCEPT ![m] = screen[m]] /\ screen[m] \in ScreenSet
         /\ events = [events EXCEPT ![m] = events[m]] /\ events[m] \in Seq(Event)
         /\ gen = [gen EXCEPT ![m] = gen[m]] /\ gen[m] \in Nat
         /\ yes = [yes EXCEPT ![m] = yes[m]] /\ yes[m] \in SUBSET Conns
         /\ paired = [paired EXCEPT ![m] = paired[m]] /\ paired[m] \in SUBSET Conns
         /\ NoLease \in LeaseSet /\ NoScreen \in ScreenSet
<1>1. stage = [stage EXCEPT ![m] = stage[m]] /\ stage[m] \in StageSet
  BY DEF ServiceType, StageSet
<1>2. lease = [lease EXCEPT ![m] = lease[m]] /\ lease[m] \in LeaseSet
  BY DEF ServiceType, LeaseSet
<1>3. screen = [screen EXCEPT ![m] = screen[m]] /\ screen[m] \in ScreenSet
  BY DEF ServiceType, ScreenSet
<1>4. events = [events EXCEPT ![m] = events[m]] /\ events[m] \in Seq(Event)
  BY DEF ServiceType
<1>5. gen = [gen EXCEPT ![m] = gen[m]] /\ gen[m] \in Nat
  BY DEF ServiceType
<1>6. yes = [yes EXCEPT ![m] = yes[m]] /\ yes[m] \in SUBSET Conns
  BY DEF ServiceType
<1>7. paired = [paired EXCEPT ![m] = paired[m]] /\ paired[m] \in SUBSET Conns
  BY DEF ServiceType
<1>8. NoLease \in LeaseSet /\ NoScreen \in ScreenSet
  BY DEF NoLease, LeaseSet, NoScreen, ScreenSet
<1> QED BY <1>1, <1>2, <1>3, <1>4, <1>5, <1>6, <1>7, <1>8

\* The approval goes, if it was still one, and the number leaves the screen.
Quits(m) ==
  /\ closed' = closed \/ \E cs : closed' = Shut(m, cs)
  /\ stage' = stage \/ (Held(m) # {} /\ stage' = [stage EXCEPT ![m] = "over"])
  /\ screen' = [screen EXCEPT ![m] = NoScreen]
  /\ lease' = [lease EXCEPT ![m] = NoLease] \/ (~Approved(m) /\ lease' = lease)

LEMMA ForgetFacts ==
  ASSUME ServiceType, NEW m \in Machines, ForgetPairing(m)
  PROVE  lease' = [lease EXCEPT ![m] = NoLease] \/ (~Approved(m) /\ lease' = lease)
<1>1. CASE Approved(m)
  BY <1>1 DEF ForgetPairing, Approved
<1>2. CASE ~Approved(m)
  <2>1. lease' = [lease EXCEPT ![m] = lease[m]]
    BY <1>2 DEF ForgetPairing, Approved
  <2> QED BY <1>2, <2>1, Kept
<1> QED BY <1>1, <1>2

LEMMA EndQuits ==
  ASSUME ServiceType, NEW m \in Machines, EndCeremony(m),
         ForgetPairing(m) \/ (~Approved(m) /\ lease' = lease)
  PROVE  Quits(m)
<1>1. stage' = stage \/ (Held(m) # {} /\ stage' = [stage EXCEPT ![m] = "over"])
  <2>1. CASE Held(m) = {}
    <3>1. stage' = [stage EXCEPT ![m] = stage[m]]
      BY <2>1 DEF EndCeremony
    <3> QED BY <3>1, Kept
  <2>2. CASE Held(m) # {}
    BY <2>2 DEF EndCeremony
  <2> QED BY <2>1, <2>2
<1> QED BY <1>1, ForgetFacts DEF Quits, EndCeremony

\* What is left of the lease and on screen.
LEMMA QuitFacts ==
  ASSUME ServiceType, NEW m \in Machines, Quits(m)
  PROVE  /\ \E x \in StageSet : stage' = [stage EXCEPT ![m] = x]
         /\ \E x \in LeaseSet : lease' = [lease EXCEPT ![m] = x]
         /\ \E x \in ScreenSet : screen' = [screen EXCEPT ![m] = x]
         /\ ~Approved(m)' /\ screen'[m] = NoScreen
         /\ lease'[m].state = "none" \/ (lease[m].state # "none" /\ lease'[m].answer = lease[m].answer)
         /\ stage'[m] = stage[m] \/ (stage'[m] = "over" /\ Held(m) # {})
<1>1. \E x \in StageSet : stage' = [stage EXCEPT ![m] = x]
  BY Kept DEF Quits, StageSet
<1>2. \E x \in LeaseSet : lease' = [lease EXCEPT ![m] = x]
  BY Kept DEF Quits
<1>3. \E x \in ScreenSet : screen' = [screen EXCEPT ![m] = x]
  BY Kept DEF Quits
<1>4. ~Approved(m)'
      /\ (lease'[m].state = "none" \/ (lease[m].state # "none" /\ lease'[m].answer = lease[m].answer))
  <2>1. CASE lease' = [lease EXCEPT ![m] = NoLease]
    <3>1. lease'[m] = NoLease
      BY <2>1 DEF ServiceType
    <3> QED BY <3>1 DEF NoLease, Approved
  <2>2. CASE ~Approved(m) /\ lease' = lease
    BY <2>2 DEF Approved, ServiceType
  <2> QED BY <2>1, <2>2 DEF Quits
<1>5. screen'[m] = NoScreen /\ (stage'[m] = stage[m] \/ (stage'[m] = "over" /\ Held(m) # {}))
  BY DEF Quits, ServiceType
<1> QED BY <1>1, <1>2, <1>3, <1>4, <1>5

\* The queue as the service leaves it.
LEMMA TakeFacts ==
  ASSUME ServiceType, NEW m \in Machines, events[m] # <<>>, events' = [events EXCEPT ![m] = Tail(@)]
  PROVE  /\ \E x \in Seq(Event) : events' = [events EXCEPT ![m] = x]
         /\ events'[m] = Tail(events[m]) /\ Head(events[m]) \in Event
<1>1. events[m] \in Seq(Event) /\ Tail(events[m]) \in Seq(Event) /\ Head(events[m]) \in Event
  BY DEF ServiceType
<1>2. events' = [events EXCEPT ![m] = Tail(events[m])]
  OBVIOUS
<1> QED BY <1>1, <1>2 DEF ServiceType

LEMMA QuitsMoved ==
  ASSUME ServiceType, NEW m \in Machines, Quits(m),
         UNCHANGED <<dialler, wire, pc, answer, flags, gen, paired>>,
         events' = events \/ (events[m] # <<>> /\ events' = [events EXCEPT ![m] = Tail(@)]),
         yes' = yes \/ \E c \in Conns : yes' = [yes EXCEPT ![m] = yes[m] \cup {c}]
  PROVE  Moved(m)
<1>1. /\ \E x \in Seq(Event) : events' = [events EXCEPT ![m] = x]
      /\ events'[m] = events[m] \/ (events[m] # <<>> /\ events'[m] = Tail(events[m]))
  BY Kept, TakeFacts
<1>2. (\E x \in SUBSET Conns : yes' = [yes EXCEPT ![m] = x]) /\ yes[m] \subseteq yes'[m]
  <2>1. CASE yes' = yes
    BY <2>1, Kept
  <2>2. ASSUME NEW c \in Conns, yes' = [yes EXCEPT ![m] = yes[m] \cup {c}]
        PROVE  (\E x \in SUBSET Conns : yes' = [yes EXCEPT ![m] = x]) /\ yes[m] \subseteq yes'[m]
    <3>1. yes[m] \cup {c} \in SUBSET Conns
      BY Kept
    <3>2. yes'[m] = yes[m] \cup {c}
      BY <2>2 DEF ServiceType
    <3> QED BY <2>2, <3>1, <3>2
  <2> QED BY <2>1, <2>2
<1>3. ServiceStep(m)
  <2>1. \E x \in Nat : gen' = [gen EXCEPT ![m] = x]
    BY Kept
  <2>2. \E x \in SUBSET Conns : paired' = [paired EXCEPT ![m] = x]
    BY Kept
  <2>3. /\ \E x \in StageSet : stage' = [stage EXCEPT ![m] = x]
        /\ \E x \in LeaseSet : lease' = [lease EXCEPT ![m] = x]
        /\ \E x \in ScreenSet : screen' = [screen EXCEPT ![m] = x]
    BY QuitFacts
  <2> QED BY <1>1, <1>2, <2>1, <2>2, <2>3 DEF ServiceStep, Quits
<1>4. Lapses(m)
  BY <1>1, QuitFacts DEF Lapses
<1>5. Stages(m)
  BY <1>2, <1>4, QuitFacts DEF Stages
<1> QED BY <1>3, <1>4, <1>5, ServiceMoved DEF Serves

\* A number on screen is some connection's.
LEMMA OnScreen ==
  ASSUME ServiceType, NEW m \in Machines, Shown(m), screen[m] # NoScreen
  PROVE  screen[m].conn \in Conns
BY DEF ServiceType, Shown

LEMMA PersonMoved ==
  ASSUME ServiceType, NEW m \in Machines, Shown(m),
         CancelPairing(m) \/ AnswerWrong(m) \/ ForgetUnstarted(m) \/ (AnswerRight(m) /\ screen[m].disagree)
  PROVE  Moved(m)
<1>1. UNCHANGED <<dialler, wire, pc, answer, flags, gen, paired, events>>
  BY DEF CancelPairing, AnswerWrong, ForgetUnstarted, AnswerRight, linkVars, boardVars, histVars
<1>2. Quits(m)
  <2>1. CASE CancelPairing(m) \/ AnswerWrong(m) \/ (AnswerRight(m) /\ screen[m].disagree)
    BY <2>1, EndQuits DEF CancelPairing, AnswerWrong, AnswerRight, EndAndForget
  <2>2. CASE ForgetUnstarted(m)
    <3>1. /\ ForgetPairing(m) /\ screen[m] = NoScreen
          /\ UNCHANGED <<closed, stage, screen>>
      BY <2>2 DEF ForgetUnstarted, linkVars, boardVars
    <3>2. screen' = [screen EXCEPT ![m] = NoScreen]
      BY <3>1, Kept
    <3> QED BY <3>1, <3>2, ForgetFacts DEF Quits
  <2> QED BY <2>1, <2>2
<1>3. yes' = yes \/ \E c \in Conns : yes' = [yes EXCEPT ![m] = yes[m] \cup {c}]
  <2>1. CASE CancelPairing(m) \/ AnswerWrong(m) \/ ForgetUnstarted(m)
    BY <2>1 DEF CancelPairing, AnswerWrong, ForgetUnstarted, histVars
  <2>2. CASE AnswerRight(m)
    BY <2>2, OnScreen DEF AnswerRight
  <2> QED BY <2>1, <2>2
<1> QED BY <1>1, <1>2, <1>3, QuitsMoved

LEMMA ApproveMoved ==
  ASSUME ServiceType, NEW m \in Machines, Approve(m)
  PROVE  Moved(m)
<1>1. /\ gen[m] < MaxApprovals[m] /\ gen' = [gen EXCEPT ![m] = gen[m] + 1]
      /\ UNCHANGED <<dialler, closed, wire, pc, answer, flags, stage, screen, events, yes, paired>>
  BY DEF Approve, linkVars, boardVars
<1>2. PICK a \in Choices[m] : lease' = [lease EXCEPT ![m] = [state |-> "approved", answer |-> a]]
  BY DEF Approve
<1>3. a \in SUBSET Bits /\ a # {}
  BY <1>2, PairingAssumption
<1>4. [state |-> "approved", answer |-> a] \in LeaseSet
  BY <1>3 DEF LeaseSet
<1>5. gen[m] + 1 \in Nat
  BY DEF ServiceType
<1>6. lease'[m].answer # {} /\ gen'[m] = gen[m] + 1
  <2>1. lease'[m] = [state |-> "approved", answer |-> a]
    BY <1>2 DEF ServiceType
  <2> QED BY <1>1, <1>3, <2>1 DEF ServiceType
<1>7. ServiceStep(m)
  BY <1>1, <1>2, <1>4, <1>5, Kept DEF ServiceStep
<1>8. Serves(m) /\ Stages(m)
  BY <1>1, <1>6 DEF Serves, Approves, Stages
<1> QED BY <1>1, <1>7, <1>8, ServiceMoved

LEMMA AnswerMoved ==
  ASSUME ServiceType, NEW m \in Machines, Shown(m), AnswerRight(m), ~screen[m].disagree
  PROVE  Moved(m)
<1> DEFINE s == [screen[m] EXCEPT !.answered = TRUE]
           x == IF stage[m] = "comparing" THEN "answered" ELSE stage[m]
           y == yes[m] \cup {screen[m].conn}
<1>1. /\ screen[m] # NoScreen /\ screen' = [screen EXCEPT ![m] = s]
      /\ stage' = [stage EXCEPT ![m] = x] /\ yes' = [yes EXCEPT ![m] = y]
      /\ UNCHANGED <<dialler, wire, pc, answer, flags, events, gen, paired, closed, lease>>
  <2>1. screen' = [screen EXCEPT ![m].answered = TRUE]
    BY DEF AnswerRight
  <2>2. screen' = [screen EXCEPT ![m] = s]
    BY <2>1
  <2> QED BY <2>2 DEF AnswerRight
<1>2. screen[m].conn \in Conns
  BY <1>1, OnScreen
<1>3. s \in ScreenSet /\ x \in StageSet /\ y \in SUBSET Conns
  BY <1>2, Kept DEF ScreenSet, StageSet
<1>4. /\ screen'[m] = s /\ stage'[m] = x /\ yes'[m] = y
      /\ x = stage[m] \/ x = "answered"
  BY <1>1 DEF ServiceType
<1>5. screen[m].conn \in y /\ yes[m] \subseteq y
  OBVIOUS
<1>6. Answered(m)
  BY <1>1, <1>4, <1>5 DEF Answered
<1>7. Stages(m)
  BY <1>1, <1>4, <1>5, <1>6 DEF Stages
<1> HIDE DEF s, x, y
<1>8. ServiceStep(m)
  BY <1>1, <1>3, Kept DEF ServiceStep
<1> QED BY <1>1, <1>6, <1>7, <1>8, ServiceMoved DEF Serves

LEMMA ShowMoved ==
  ASSUME ServiceType, NEW m \in Machines, HandleEvent(m), Head(events[m]).kind = "number"
  PROVE  Moved(m)
<1> DEFINE e == Head(events[m])
           s == [conn |-> e.conn, answered |-> FALSE,
                 disagree |-> e.theirs # {} /\ ~AgreesWith(lease[m].answer, e.theirs)]
<1>1. /\ events[m] # <<>> /\ events' = [events EXCEPT ![m] = Tail(@)]
      /\ ShowNumber(m, e) /\ UNCHANGED <<dialler, wire, pc, answer, flags, gen, yes, paired>>
  BY DEF HandleEvent
<1>2. /\ \E x \in Seq(Event) : events' = [events EXCEPT ![m] = x]
      /\ events'[m] = Tail(events[m]) /\ e \in Event
  BY <1>1, TakeFacts
<1>3. CASE Approved(m) /\ screen' = [screen EXCEPT ![m] = s] /\ UNCHANGED <<stage, closed, lease>>
  <2>1. s \in ScreenSet /\ screen'[m] = s
    <3>1. e.conn \in Conns /\ (e.theirs # {} /\ ~AgreesWith(lease[m].answer, e.theirs)) \in BOOLEAN
      BY <1>2 DEF Event
    <3>2. s \in ScreenSet
      BY <3>1 DEF ScreenSet
    <3> QED BY <1>3, <3>2 DEF ServiceType
  <2>2. Shows(m)
    BY <1>1, <1>2, <1>3, <2>1 DEF Shows
  <2>3. Stages(m)
    BY <1>1, <1>3 DEF Stages
  <2> HIDE DEF e, s
  <2>4. ServiceStep(m)
    BY <1>1, <1>2, <1>3, <2>1, Kept DEF ServiceStep
  <2> QED BY <1>1, <2>2, <2>3, <2>4, ServiceMoved DEF Serves
<1>4. CASE EndAndForget(m) \/ (~Approved(m) /\ EndCeremony(m) /\ lease' = lease)
  <2>1. Quits(m)
    BY <1>4, EndQuits DEF EndAndForget
  <2> QED BY <1>1, <2>1, QuitsMoved
<1>5. \/ Approved(m) /\ screen' = [screen EXCEPT ![m] = s] /\ UNCHANGED <<stage, closed, lease>>
      \/ EndAndForget(m) \/ (~Approved(m) /\ EndCeremony(m) /\ lease' = lease)
  BY <1>1 DEF ShowNumber, Approved
<1> QED BY <1>3, <1>4, <1>5

LEMMA EndedMoved ==
  ASSUME ServiceType, NEW m \in Machines, HandleEvent(m), Head(events[m]).kind = "ended"
  PROVE  Moved(m)
<1> DEFINE e == Head(events[m])
<1>1. /\ events[m] # <<>> /\ events' = [events EXCEPT ![m] = Tail(@)]
      /\ PairingEnded(m, e.conn) /\ UNCHANGED <<dialler, wire, pc, answer, flags, gen, yes, paired>>
  BY DEF HandleEvent
<1>2. /\ \E x \in Seq(Event) : events' = [events EXCEPT ![m] = x]
      /\ events'[m] = Tail(events[m])
  BY <1>1, TakeFacts
<1>3. CASE screen[m] # NoScreen /\ screen[m].conn # e.conn
  <2>1. UNCHANGED <<screen, lease, stage, closed>>
    BY <1>1, <1>3 DEF PairingEnded
  <2>2. Skips(m)
    BY <1>1, <1>2, <1>3, <2>1 DEF Skips
  <2>3. Stages(m)
    BY <1>1, <2>1 DEF Stages
  <2>4. ServiceStep(m)
    BY <1>1, <1>2, <2>1, Kept DEF ServiceStep
  <2> QED BY <1>1, <2>2, <2>3, <2>4, ServiceMoved DEF Serves
<1>4. CASE ~(screen[m] # NoScreen /\ screen[m].conn # e.conn)
  <2>1. screen' = [screen EXCEPT ![m] = NoScreen] /\ ForgetPairing(m) /\ UNCHANGED <<stage, closed>>
    BY <1>1, <1>4 DEF PairingEnded
  <2>2. Quits(m)
    BY <2>1, ForgetFacts DEF Quits
  <2> QED BY <1>1, <2>2, QuitsMoved
<1> QED BY <1>3, <1>4

LEMMA SettleMoved ==
  ASSUME ServiceType, NEW m \in Machines, Shown(m), HandleEvent(m), Head(events[m]).kind = "confirmed"
  PROVE  Moved(m)
<1>1. /\ events[m] # <<>> /\ events' = [events EXCEPT ![m] = Tail(@)]
      /\ SettlePairing(m) /\ UNCHANGED <<dialler, wire, pc, answer, flags, gen, yes>>
  BY DEF HandleEvent
<1>2. /\ \E x \in Seq(Event) : events' = [events EXCEPT ![m] = x]
      /\ events'[m] = Tail(events[m])
  BY <1>1, TakeFacts
<1>3. CASE screen[m].answered /\ lease[m].state # "none"
  <2> DEFINE l == [lease[m] EXCEPT !.state = "paired"]
             x == IF stage[m] = "answered" THEN "settled" ELSE stage[m]
             p == paired[m] \cup {screen[m].conn}
  <2>1. /\ lease' = [lease EXCEPT ![m] = l] /\ screen' = [screen EXCEPT ![m] = NoScreen]
        /\ stage' = [stage EXCEPT ![m] = x] /\ paired' = [paired EXCEPT ![m] = p] /\ closed' = closed
    <3>1. lease' = [lease EXCEPT ![m].state = "paired"]
      BY <1>1, <1>3 DEF SettlePairing
    <3>2. lease' = [lease EXCEPT ![m] = l]
      BY <3>1
    <3> QED BY <1>1, <1>3, <3>2 DEF SettlePairing
  <2>2. screen[m].conn \in Conns
    <3>1. screen[m] # NoScreen
      BY <1>3 DEF NoScreen
    <3> QED BY <3>1, OnScreen
  <2>3. l \in LeaseSet /\ x \in StageSet /\ p \in SUBSET Conns
    BY <2>2, Kept DEF LeaseSet, StageSet
  <2>4. l.state = "paired" /\ l.answer = lease[m].answer
    BY Kept DEF LeaseSet
  <2>5. lease'[m] = l /\ screen'[m] = NoScreen /\ stage'[m] = x /\ paired'[m] = p
    BY <2>1 DEF ServiceType
  <2>6. Lapses(m)
    BY <1>1, <1>2, <1>3, <2>4, <2>5 DEF Lapses, Approved
  <2>7. Settles(m)
    BY <1>1, <1>3, <2>5 DEF Settles
  <2>8. Stages(m)
    BY <1>1, <2>5, <2>6, <2>7 DEF Stages
  <2> HIDE DEF l, x, p
  <2>9. ServiceStep(m)
    BY <1>1, <1>2, <2>1, <2>3, Kept DEF ServiceStep
  <2> QED BY <1>1, <2>6, <2>8, <2>9, ServiceMoved DEF Serves
<1>4. CASE ~(screen[m].answered /\ lease[m].state # "none")
  <2>1. EndAndForget(m) /\ paired' = paired
    BY <1>1, <1>4 DEF SettlePairing
  <2>2. Quits(m)
    BY <2>1, EndQuits DEF EndAndForget
  <2> QED BY <1>1, <2>1, <2>2, QuitsMoved
<1> QED BY <1>3, <1>4

LEMMA RemoveMoved ==
  ASSUME BoardInv, ServiceType, NEW m \in Machines, Remove(m)
  PROVE  Moved(m)
<1> DEFINE links == {c \in Conns : pc[m][c] = "link"}
           g == [c \in Conns |-> IF c \in links THEN "over" ELSE pc[m][c]]
<1>1. /\ pc' = [pc EXCEPT ![m] = g] /\ closed' = Shut(m, links \cup Held(m))
      /\ UNCHANGED <<dialler, wire, answer, flags, events, gen, yes, paired>>
  BY DEF Remove, histVars
<1>2. Quits(m)
  <2>1. /\ stage' = [stage EXCEPT ![m] = IF Held(m) = {} THEN stage[m] ELSE "over"]
        /\ lease' = [lease EXCEPT ![m] = NoLease] /\ screen' = [screen EXCEPT ![m] = NoScreen]
    BY DEF Remove
  <2>2. stage' = stage \/ (Held(m) # {} /\ stage' = [stage EXCEPT ![m] = "over"])
    BY <2>1, Kept
  <2> QED BY <1>1, <2>1, <2>2 DEF Quits
<1>3. /\ \A n \in Machines : n # m => pc'[n] = pc[n]
      /\ \A d \in Conns : pc'[m][d] = pc[m][d] \/ (pc[m][d] = "link" /\ pc'[m][d] = "over")
  <2>1. pc'[m] = g /\ \A n \in Machines : n # m => pc'[n] = pc[n]
    BY <1>1 DEF BoardInv, BoardType
  <2>2. \A d \in Conns : g[d] = pc[m][d] \/ (pc[m][d] = "link" /\ g[d] = "over")
    OBVIOUS
  <2> HIDE DEF g
  <2> QED BY <2>1, <2>2
<1>4. \A d \in Conns : closed[m][d] => closed'[m][d]
  BY <1>1, ShutFacts
<1>5. ServiceStep(m)
  <2>1. /\ \E x \in Seq(Event) : events' = [events EXCEPT ![m] = x]
        /\ \E x \in Nat : gen' = [gen EXCEPT ![m] = x]
    BY <1>1, Kept
  <2>2. /\ \E x \in SUBSET Conns : yes' = [yes EXCEPT ![m] = x]
        /\ \E x \in SUBSET Conns : paired' = [paired EXCEPT ![m] = x]
    BY <1>1, Kept
  <2>3. /\ \E x \in StageSet : stage' = [stage EXCEPT ![m] = x]
        /\ \E x \in LeaseSet : lease' = [lease EXCEPT ![m] = x]
        /\ \E x \in ScreenSet : screen' = [screen EXCEPT ![m] = x]
    BY <1>2, QuitFacts
  <2>4. \E cs : closed' = Shut(m, cs)
    BY <1>1
  <2> HIDE DEF g, links
  <2> QED BY <1>1, <1>3, <2>1, <2>2, <2>3, <2>4 DEF ServiceStep
<1>6. Lapses(m)
  BY <1>1, <1>2, QuitFacts DEF Lapses
<1>7. Stages(m)
  BY <1>1, <1>2, <1>6, QuitFacts DEF Stages
<1>8. ASSUME NEW d \in Conns PROVE Goes(m, d)
  BY <1>1, <1>3, <1>4 DEF Goes, Half, Early, Ahead, HeldPcs
<1> QED BY <1>5, <1>6, <1>7, <1>8, ServiceMoved DEF Serves

LEMMA RestartMoved ==
  ASSUME BoardInv, ServiceType, NEW m \in Machines, Restart(m)
  PROVE  Moved(m)
<1> DEFINE g == [c \in Conns |-> IF dialler[c] # "nobody" THEN "over" ELSE pc[m][c]]
<1>1. /\ pc' = [pc EXCEPT ![m] = g] /\ closed' = Shut(m, {c \in Conns : dialler[c] # "nobody"})
      /\ flags' = [flags EXCEPT ![m] = {}] /\ stage' = [stage EXCEPT ![m] = "none"]
      /\ ForgetPairing(m) /\ screen' = [screen EXCEPT ![m] = NoScreen]
      /\ events' = [events EXCEPT ![m] = <<>>]
      /\ UNCHANGED <<dialler, wire, answer, gen, yes, paired>>
  BY DEF Restart, histVars
<1>2. lease' = [lease EXCEPT ![m] = NoLease] \/ (~Approved(m) /\ lease' = lease)
  BY <1>1, ForgetFacts
<1>3. /\ \E x \in LeaseSet : lease' = [lease EXCEPT ![m] = x]
      /\ ~Approved(m)'
      /\ lease'[m].state = "none" \/ (lease[m].state # "none" /\ lease'[m].answer = lease[m].answer)
  <2>1. CASE lease' = [lease EXCEPT ![m] = NoLease]
    <3>1. lease'[m] = NoLease
      BY <2>1 DEF ServiceType
    <3>2. \E x \in LeaseSet : lease' = [lease EXCEPT ![m] = x]
      BY <2>1, Kept
    <3>3. ~Approved(m)' /\ lease'[m].state = "none"
      BY <3>1 DEF NoLease, Approved
    <3> QED BY <3>2, <3>3
  <2>2. CASE ~Approved(m) /\ lease' = lease
    BY <2>2, Kept DEF Approved, ServiceType
  <2> QED BY <1>2, <2>1, <2>2
<1>4. /\ \A n \in Machines : n # m => pc'[n] = pc[n]
      /\ \A d \in Conns : pc'[m][d] = IF dialler[d] # "nobody" THEN "over" ELSE pc[m][d]
  <2>1. pc'[m] = g /\ \A n \in Machines : n # m => pc'[n] = pc[n]
    BY <1>1 DEF BoardInv, BoardType
  <2> QED BY <2>1
<1>5. screen'[m] = NoScreen /\ stage'[m] = "none" /\ events'[m] = <<>>
      /\ (\A n \in Machines : n # m => flags'[n] = flags[n])
  BY <1>1 DEF ServiceType, BoardInv, BoardType
<1>6. \A d \in Conns : closed[m][d] => closed'[m][d]
  BY <1>1, ShutFacts
<1>7. ServiceStep(m)
  <2>1. <<>> \in Seq(Event) /\ "none" \in StageSet
    BY DEF StageSet
  <2>2. /\ \E x \in StageSet : stage' = [stage EXCEPT ![m] = x]
        /\ \E x \in ScreenSet : screen' = [screen EXCEPT ![m] = x]
        /\ \E x \in Seq(Event) : events' = [events EXCEPT ![m] = x]
    BY <1>1, <2>1, Kept
  <2>3. /\ \E x \in Nat : gen' = [gen EXCEPT ![m] = x]
        /\ \E x \in SUBSET Conns : yes' = [yes EXCEPT ![m] = x]
        /\ \E x \in SUBSET Conns : paired' = [paired EXCEPT ![m] = x]
    BY <1>1, Kept
  <2>4. \E cs : closed' = Shut(m, cs)
    BY <1>1
  <2> HIDE DEF g
  <2> QED BY <1>1, <1>3, <1>4, <1>5, <2>2, <2>3, <2>4 DEF ServiceStep
<1>8. Lapses(m)
  BY <1>1, <1>3, <1>5 DEF Lapses
<1>9. Stages(m)
  BY <1>1, <1>5 DEF Stages
<1>10. ASSUME NEW d \in Conns PROVE Goes(m, d)
  <2>1. dialler[d] = "nobody" => pc[m][d] = "off"
    BY DEF BoardInv, Order, OrderAt
  <2>2. pc'[m][d] \in {"off", "over"} /\ (pc[m][d] # "off" => pc'[m][d] = "over")
    BY <1>4, <2>1
  <2>3. Leaves(m, d)
    BY <1>3 DEF Leaves
  <2> QED BY <1>1, <1>6, <2>2, <2>3 DEF Goes, Half, Early, Ahead, HeldPcs
<1> QED BY <1>7, <1>8, <1>9, <1>10, ServiceMoved DEF Serves

----------------------------------------------------------------------------
(* The service's invariant, and what follows *)

LEMMA NextSteps ==
  ASSUME BoardInv, BoardInv', SettleInv, [Next]_vars
  PROVE  ServiceType' /\ \A n \in Machines : Steps(n)
<1>0. ServiceType /\ \A m \in Machines : Gens(m) /\ Shown(m)
  BY DEF SettleInv
<1>1. ASSUME NEW m \in Machines, Person(m) PROVE Moved(m)
  BY <1>0, <1>1, ApproveMoved, RemoveMoved, PersonMoved, AnswerMoved DEF Person
<1>2. ASSUME NEW m \in Machines, ForgetUnstarted(m) PROVE Moved(m)
  BY <1>0, <1>2, PersonMoved
<1>3. ASSUME NEW m \in Machines, HandleEvent(m) PROVE Moved(m)
  <2>1. Head(events[m]).kind \in {"number", "confirmed", "ended"}
    BY <1>3 DEF HandleEvent
  <2> QED BY <1>0, <1>3, <2>1, ShowMoved, EndedMoved, SettleMoved
<1>4. ASSUME NEW m \in Machines, Restart(m) PROVE Moved(m)
  BY <1>0, <1>4, RestartMoved
<1>5. ASSUME NEW m \in Machines, NEW c \in Conns, Dial(m, c) \/ SeeClosed(m, c) PROVE Moved(m)
  BY <1>0, <1>5, DialMoved, SeeClosedMoved
<1>6. ASSUME NEW m \in Machines, NEW c \in Conns, Task(m, c) PROVE Moved(m)
  <2>1. CASE Land(m, c)
    BY <1>0, <2>1, LandMoved
  <2>2. CASE SendHalf(m, c) \/ Wait(m, c) \/ GiveUp(m, c) \/ FailEarly(m, c)
    BY <1>0, <2>2, ComparisonMoved
  <2>3. CASE FailLate(m, c) \/ EndHeld(m, c)
    BY <1>0, <2>3, FailLateMoved
  <2>4. CASE Reach(m, c)
    BY <1>0, <2>4, ReachMoved
  <2>5. CASE SeeAnswered(m, c) \/ SeePeerHello(m, c) \/ SeeSettled(m, c) \/ SeeOver(m, c)
    BY <1>0, <2>5, HeldMoved
  <2> QED BY <1>6, <2>1, <2>2, <2>3, <2>4, <2>5, Zenon DEF Task
<1>7. ASSUME UNCHANGED vars PROVE ServiceType' /\ \A n \in Machines : Steps(n)
  <2>1. UNCHANGED <<dialler, closed, wire, pc, answer, flags, stage, lease, screen, events, gen, yes, paired>>
    BY <1>7 DEF vars, linkVars, boardVars, serviceVars, histVars
  <2>2. ServiceType' /\ \A n \in Machines : Still(n)
    BY <1>0, <2>1 DEF ServiceType, Still
  <2> QED BY <2>2, StillSteps
<1>8. ASSUME NEW m \in Machines, Moved(m) PROVE ServiceType' /\ \A n \in Machines : Steps(n)
  BY <1>8, MovedSteps
<1> QED BY <1>1, <1>2, <1>3, <1>4, <1>5, <1>6, <1>7, <1>8, Zenon DEF Next

LEMMA SettleNext ==
  ASSUME OneApproval, BoardInv, SettleInv, [Next]_vars
  PROVE  SettleInv'
<1>1. BoardInv'
  BY BoardNextInv
<1>2. Context
  BY <1>1, NextSteps DEF Context
<1>3. ServiceType'
  BY <1>2 DEF Context
<1>4. OneSpoilt'
  BY <1>2, OneSpoiltNext
<1>5. ASSUME NEW m \in Machines
      PROVE  /\ Gens(m)' /\ Queued(m)' /\ Shown(m)' /\ Left(m)' /\ Late(m)'
             /\ Vouched(m)' /\ Said(m)' /\ Settled(m)'
  BY <1>2, GensNext, QueuedNext, ShownNext, LeftNext, LateNext, VouchedNext, SaidNext, SettledNext
<1> QED BY <1>3, <1>4, <1>5 DEF SettleInv

LEMMA SettleInit ==
  ASSUME Init
  PROVE  SettleInv
<1>1. /\ \A m \in Machines, c \in Conns :
           /\ pc[m][c] = "off" /\ wire[m][c] = {} /\ closed[m][c] = FALSE /\ answer[m][c] = {}
      /\ \A m \in Machines :
           /\ stage[m] = "none" /\ lease[m] = NoLease /\ screen[m] = NoScreen /\ events[m] = <<>>
           /\ gen[m] = 0 /\ yes[m] = {} /\ paired[m] = {} /\ flags[m] = {}
  BY DEF Init, AtEnds
<1>2. ServiceType
  <2>1. closed \in [Machines -> [Conns -> BOOLEAN]] /\ answer \in [Machines -> [Conns -> SUBSET Bits]]
    BY DEF Init, AtEnds
  <2>2. /\ stage \in [Machines -> {"none", "comparing", "answered", "settled", "over"}]
        /\ lease \in [Machines -> [state : {"none", "approved", "paired"}, answer : SUBSET Bits]]
        /\ screen \in [Machines -> [conn : Conns \cup {0}, answered : BOOLEAN, disagree : BOOLEAN]]
    BY DEF Init, NoLease, NoScreen
  <2>3. events \in [Machines -> Seq(Event)]
    BY DEF Init
  <2>4. /\ gen \in [Machines -> Nat] /\ yes \in [Machines -> SUBSET Conns]
        /\ paired \in [Machines -> SUBSET Conns]
    BY DEF Init
  <2> QED BY <2>1, <2>2, <2>3, <2>4 DEF ServiceType
<1>3. \A m \in Machines, c \in Conns : ~Half(m, c) /\ ~Early(m, c) /\ c \notin Held(m)
  BY <1>1 DEF Half, Early, Held, HeldPcs
<1>4. OneSpoilt
  BY <1>3 DEF OneSpoilt, Complete, Machines
<1>5. ASSUME NEW m \in Machines
      PROVE  /\ Gens(m) /\ Queued(m) /\ Shown(m) /\ Left(m) /\ Late(m)
             /\ Vouched(m) /\ Said(m) /\ Settled(m)
  <2>0. lease[m].state = "none" /\ screen[m].conn = 0 /\ 1..Len(events[m]) = {}
    BY <1>1 DEF NoLease, NoScreen
  <2>1. Gens(m)
    BY <1>1, <1>3, <2>0 DEF Gens
  <2>2. Queued(m)
    BY <2>0 DEF Queued
  <2>3. Shown(m) /\ Left(m)
    <3>1. Held(m) = {}
      BY <1>3 DEF Held
    <3> QED BY <1>1, <1>3, <2>0, <3>1 DEF Shown, Left, Approved
  <2>4. Late(m) /\ Vouched(m) /\ Said(m) /\ Settled(m)
    BY <1>1, <1>3 DEF Late, Vouched, Said, Settled
  <2> QED BY <2>1, <2>2, <2>3, <2>4
<1> QED BY <1>2, <1>4, <1>5 DEF SettleInv

LEMMA SettleInvariant == OneApproval => (Spec => [](BoardInv /\ SettleInv))
<1> SUFFICES ASSUME OneApproval PROVE Spec => [](BoardInv /\ SettleInv)
  OBVIOUS
<1>1. Init => BoardInv /\ SettleInv
  BY BoardInitInv, SettleInit
<1>2. BoardInv /\ SettleInv /\ [Next]_vars => (BoardInv /\ SettleInv)'
  BY BoardNextInv, SettleNext
<1> QED BY <1>1, <1>2, PTL DEF Spec

\* With one approval at each machine, a pairing grants only once the people at
\* both machines answered the number of the connection it settles on, however
\* many connections they make and whatever is cancelled, lost or restarted:
\* PeerConfirmed names no attempt (settle_pairing), and the one on screen is
\* nevertheless the one that was confirmed.
THEOREM PairedByBoth == OneApproval => (Spec => []PairedOnlyByBoth)
<1>1. BoardInv /\ SettleInv => PairedOnlyByBoth
  BY DEF SettleInv, Settled, PairedOnlyByBoth
<1> QED BY <1>1, SettleInvariant, PTL

\* With one approval at each machine, the machine that dialled is never paired
\* on a connection the machine it reached did not pair on: the machine added
\* answers with its Hello only once its store says so (SeeSettled).
THEOREM StrandsOnlyTheAdded == OneApproval => (Spec => []OnlyTheAddedIsStranded)
<1>1. BoardInv /\ SettleInv => OnlyTheAddedIsStranded
  BY DEF SettleInv, Settled, OnlyTheAddedIsStranded
<1> QED BY <1>1, SettleInvariant, PTL

\* With one approval at each machine, two machines that paired on one connection
\* chose answers that let control go some way, whatever either person chose
\* (show_pairing_number's disagree, answer_pairing).
THEOREM AnswersAgree == OneApproval => (Spec => []PairedAnswersAgree)
<1>1. BoardInv /\ SettleInv => PairedAnswersAgree
  <2> SUFFICES ASSUME BoardInv, SettleInv, NEW c \in Conns,
                      \A m \in Machines : c \in paired[m] /\ lease[m].state = "paired"
               PROVE  AgreesWith(lease[First].answer, lease[Second].answer)
    BY DEF PairedAnswersAgree
  <2>1. First \in Machines /\ Second \in Machines /\ Other(First) = Second /\ Other(Second) = First
    BY DEF Machines, Other
  <2>2. Said(First) /\ Said(Second)
    BY <2>1 DEF SettleInv
  <2>3. Half(Second, c) /\ AgreesWith(lease[First].answer, answer[Second][c])
    BY <2>1, <2>2 DEF Said
  <2>4. answer[Second][c] = lease[Second].answer
    BY <2>1, <2>2, <2>3 DEF Said
  <2> QED BY <2>3, <2>4
<1> QED BY <1>1, SettleInvariant, PTL
====
