------------------------ MODULE CoherenceGuardProofs ------------------------
(* Proof that every committed selection is coherent, for any sets of       *)
(* transactions and generations.                                           *)
EXTENDS CoherenceGuard, TLAPS

(***************************************************************************)
(* The inductive invariant.                                                *)
(***************************************************************************)
Selections == Generation \cup {None}
Assignment ==
  {s \in [row : Row, value : Selections \cup
                             {"complete", "failed", "unlinked"}] :
     s.row \in {State, Content} => s.value \in Selections}

TypeInv ==
  /\ pc \in [Transaction -> {"new", "run", "ended"}]
  /\ todo \in [Transaction -> Seq(Assignment)]
  /\ checks \in [Transaction -> Seq(Pairs \cup {State})]
  /\ writes = [t \in Transaction |-> writes[t]]
  /\ owner \in [Row -> Transaction \cup {None}]
  /\ sharers \subseteq Transaction
  /\ db[State] \in Selections /\ db[Content] \in Selections
  /\ \A t \in Transaction :
       /\ DOMAIN writes[t] \subseteq Row
       /\ \A x \in {State, Content} :
            x \in DOMAIN writes[t] => writes[t][x] \in Selections

(* A transaction locks the rows it wrote and no others, it shares the      *)
(* selection only while it commits, and one that does not run holds        *)
(* nothing.                                                                *)
LockInv ==
  \A t \in Transaction :
    /\ \A x \in Row : x \in DOMAIN writes[t] <=> owner[x] = t
    /\ t \in sharers =>
         pc[t] = "run" /\ todo[t] = <<>> /\ owner[State] = None
    /\ pc[t] # "run" => DOMAIN writes[t] = {} /\ todo[t] = <<>>

Pending(t) == {checks[t][i] : i \in DOMAIN checks[t]}
Done(t) == {x \in DOMAIN writes[t] : x # Content /\ x \notin Pending(t)}

(* What a trigger that has passed leaves behind until the transaction      *)
(* ends.                                                                   *)
StateSound(t) == Selected(View(t))
PairSound(t, x) ==
  /\ Holds(t)
  /\ State \notin DOMAIN writes[t] /\ db[State] # None =>
       /\ x = Gen(db[State]) => writes[t][x] = "complete"
       /\ x = Build(db[State]) =>
            \/ writes[t][x] = "complete"
            \/ /\ Gen(db[State]) \in DOMAIN writes[t]
               /\ writes[t][Gen(db[State])] \notin Linked
Sound(t, x) == IF x = State THEN StateSound(t) ELSE PairSound(t, x)

CheckOf(t) ==
  /\ todo[t] # <<>> => Done(t) = {}
  /\ \A x \in Done(t) : Sound(t, x)
CheckInv == \A t \in Transaction : CheckOf(t)

IInv == TypeInv /\ LockInv /\ CheckInv /\ CoherentSelection

(***************************************************************************)
(* Rows.                                                                   *)
(***************************************************************************)
LEMMA RowFacts ==
  /\ State # Content
  /\ \A g, h : Gen(g) # Build(h)
  /\ \A g : /\ Gen(g) # State /\ Gen(g) # Content
            /\ Build(g) # State /\ Build(g) # Content
  /\ State \in Row /\ Content \in Row
  /\ \A g \in Generation : /\ Gen(g) \in Row /\ Build(g) \in Row
                           /\ Gen(g) \in Pairs /\ Build(g) \in Pairs
  /\ Pairs \subseteq Row
<1>1. State # Content
  BY DEF State, Content
<1>2. \A g, h : Gen(g) # Build(h)
  BY DEF Gen, Build
<1>3. \A g : Gen(g) # State /\ Gen(g) # Content
  BY DEF Gen, State, Content
<1>4. \A g : Build(g) # State /\ Build(g) # Content
  BY DEF Build, State, Content
<1>5. State \in Row /\ Content \in Row /\ Pairs \subseteq Row
  BY DEF Row
<1>6. \A g \in Generation : Gen(g) \in Pairs /\ Build(g) \in Pairs
  BY DEF Pairs
<1>7. QED
  BY <1>1, <1>2, <1>3, <1>4, <1>5, <1>6

LEMMA ViewFacts ==
  ASSUME NEW t \in Transaction, NEW x \in Row
  PROVE  /\ x \in DOMAIN writes[t] => View(t)[x] = writes[t][x]
         /\ x \notin DOMAIN writes[t] => View(t)[x] = db[x]
BY DEF View

(* A commit whose triggers have passed leaves a coherent selection.        *)
LEMMA PassedIsCoherent ==
  ASSUME TypeInv, LockInv, CheckInv, CoherentSelection,
         NEW t \in Transaction, checks[t] = <<>>
  PROVE  Selected(View(t)) /\ View(t)[State] \in Selections
<1>1. Pending(t) = {}
  BY DEF Pending
<1>2. \A x \in DOMAIN writes[t] : x # Content => x \in Done(t)
  BY <1>1 DEF Done
<1>3. View(t)[State] \in Selections
  BY RowFacts, ViewFacts DEF TypeInv
<1>4. CASE State \in DOMAIN writes[t]
  <2>1. Sound(t, State)
    BY <1>2, <1>4, RowFacts DEF CheckInv, CheckOf
  <2>2. QED
    BY <1>3, <2>1 DEF Sound, StateSound
<1>5. CASE State \notin DOMAIN writes[t]
  <2> DEFINE s == db[State]
  <2>1. View(t)[State] = s
    BY <1>5, RowFacts, ViewFacts
  <2>2. SUFFICES ASSUME s # None
                 PROVE  Coherent(View(t), s)
    BY <1>3, <2>1 DEF Selected
  <2>3. s \in Generation
    BY <2>2 DEF TypeInv, Selections
  <2>4. Gen(s) \in Row /\ Build(s) \in Row
        /\ Gen(s) # Build(s) /\ Gen(s) # State /\ Build(s) # State
        /\ Gen(s) # Content /\ Build(s) # Content
    BY <2>3, RowFacts
  <2>5. db[Gen(s)] = "complete" /\ db[Build(s)] = "complete"
    BY <2>2 DEF CoherentSelection, Selected, Coherent
  <2>6. Gen(s) \in DOMAIN writes[t] => writes[t][Gen(s)] = "complete"
    <3>1. SUFFICES ASSUME Gen(s) \in DOMAIN writes[t]
                   PROVE  writes[t][Gen(s)] = "complete"
      OBVIOUS
    <3>2. PairSound(t, Gen(s))
      BY <1>2, <2>4, <3>1 DEF CheckInv, CheckOf, Sound
    <3>3. QED
      BY <1>5, <2>2, <3>2 DEF PairSound
  <2>7. Build(s) \in DOMAIN writes[t] => writes[t][Build(s)] = "complete"
    <3>1. SUFFICES ASSUME Build(s) \in DOMAIN writes[t]
                   PROVE  writes[t][Build(s)] = "complete"
      OBVIOUS
    <3>2. PairSound(t, Build(s))
      BY <1>2, <2>4, <3>1 DEF CheckInv, CheckOf, Sound
    <3>3. QED
      BY <1>5, <2>2, <2>6, <3>2 DEF PairSound, Linked
  <2>8. QED
    BY <2>4, <2>5, <2>6, <2>7, ViewFacts DEF Coherent
<1>6. QED
  BY <1>4, <1>5

(***************************************************************************)
(* Steps.                                                                  *)
(***************************************************************************)

(* A transaction whose writes and queue a step leaves alone, and whose     *)
(* locks it does not take away, stays sound.                               *)
LEMMA Kept ==
  ASSUME NEW t \in Transaction, CheckOf(t), UNCHANGED db,
         writes'[t] = writes[t], checks'[t] = checks[t],
         todo'[t] = todo[t], Holds(t) => Holds(t)'
  PROVE  CheckOf(t)'
<1>1. View(t)' = View(t) /\ Done(t)' = Done(t)
  BY DEF View, Done, Pending
<1>2. \A x \in Done(t) : Sound(t, x) => Sound(t, x)'
  BY <1>1 DEF Sound, StateSound, PairSound, Selected, Coherent
<1>3. QED
  BY <1>1, <1>2 DEF CheckOf

LEMMA InitInv ==
  ASSUME GuardInit, GuardAssumption
  PROVE  IInv
<1>1. DOMAIN <<>> = {}
  OBVIOUS
<1>2. db[State] \in Selections /\ db[Content] \in Selections
  <2>1. PICK status \in [Generation -> {"building", "unlinked"} \cup Linked],
             selected \in Selections, content \in Selections :
          db = [x \in Row |->
                  IF x = State THEN selected
                  ELSE IF x = Content THEN content
                  ELSE IF \/ x[1] = "corpus_generation"
                          \/ status[x[2]] = "building"
                  THEN status[x[2]] ELSE "complete"]
    BY DEF GuardInit, Selections
  <2>2. db[State] = selected /\ db[Content] = content
    BY <2>1, RowFacts
  <2>3. QED
    BY <2>2
<1>3. TypeInv
  <2>1. todo \in [Transaction -> Seq(Assignment)]
        /\ checks \in [Transaction -> Seq(Pairs \cup {State})]
    BY DEF GuardInit
  <2>2. pc \in [Transaction -> {"new", "run", "ended"}]
        /\ owner \in [Row -> Transaction \cup {None}]
        /\ sharers \subseteq Transaction
    BY DEF GuardInit
  <2>3. writes = [t \in Transaction |-> writes[t]]
        /\ \A t \in Transaction : DOMAIN writes[t] = {}
    BY <1>1 DEF GuardInit
  <2>4. QED
    BY <1>2, <2>1, <2>2, <2>3 DEF TypeInv
<1>4. LockInv
  BY <1>1 DEF GuardInit, LockInv, GuardAssumption
<1>5. CheckInv
  BY <1>1 DEF GuardInit, CheckInv, CheckOf, Done
<1>6. QED
  BY <1>3, <1>4, <1>5 DEF IInv, GuardInit, CoherentSelection

LEMMA StartsInv ==
  ASSUME IInv, NEW t \in Transaction, NEW script \in Seq(Assignment),
         Starts(t, script)
  PROVE  IInv'
<1>1. TypeInv'
  BY DEF IInv, TypeInv, Starts
<1>2. LockInv'
  BY DEF IInv, TypeInv, LockInv, Starts
<1>3. CheckInv'
  <2>1. SUFFICES ASSUME NEW u \in Transaction PROVE CheckOf(u)'
    BY DEF CheckInv
  <2>2. CASE u = t
    <3>1. DOMAIN writes'[t] = {}
      BY DEF IInv, LockInv, Starts
    <3>2. QED
      BY <2>2, <3>1 DEF CheckOf, Done
  <2>3. CASE u # t
    BY <2>3, Kept DEF IInv, TypeInv, CheckInv, Starts, Holds
  <2>4. QED
    BY <2>2, <2>3
<1>4. QED
  BY <1>1, <1>2, <1>3 DEF IInv, CoherentSelection, Starts

LEMMA ScriptFacts ==
  ASSUME NEW g \in Generation
  PROVE  /\ Publication(g) \in Seq(Assignment)
         /\ \A s \in Demotions(g) \cup {Selection(g), Selection(None)} :
              s \in Seq(Assignment)
<1> DEFINE Kinds == {"complete", "failed", "unlinked"}
<1>1. \A k \in Kinds : /\ Set(Gen(g), k) \in Assignment
                       /\ Set(Build(g), k) \in Assignment
  BY RowFacts DEF Set, Assignment
<1>2. Set(Content, g) \in Assignment
  BY RowFacts DEF Set, Assignment, Selections
<1>3. Set(State, g) \in Assignment /\ Set(State, None) \in Assignment
  BY RowFacts DEF Set, Assignment, Selections
<1>4. Publication(g) \in Seq(Assignment)
  BY <1>1, <1>2, <1>3 DEF Publication
<1>5. Selection(g) \in Seq(Assignment) /\ Selection(None) \in Seq(Assignment)
  BY <1>3 DEF Selection
<1>6. \A s \in Demotions(g) : s \in Seq(Assignment)
  <2>1. \A a, b \in Assignment :
          <<a>> \in Seq(Assignment) /\ <<a, b>> \in Seq(Assignment)
    OBVIOUS
  <2>2. QED
    BY <1>1, <2>1 DEF Demotions
<1>7. QED
  BY <1>4, <1>5, <1>6

LEMMA StatementInv ==
  ASSUME IInv, GuardAssumption, NEW t \in Transaction, pc[t] = "run",
         Statement(t)
  PROVE  IInv'
<1> DEFINE s == Head(todo[t])
           x == s.row
           value == Becomes(s, View(t)[x])
           Nothing == UNCHANGED <<writes, checks, owner>>
           Updates ==
             /\ writes' = [writes EXCEPT ![t] =
                  [y \in DOMAIN writes[t] \cup {x} |->
                     IF y = x THEN value ELSE writes[t][y]]]
             /\ checks' = [checks EXCEPT ![t] =
                  IF x = Content THEN checks[t] ELSE Append(checks[t], x)]
             /\ owner' = [owner EXCEPT ![x] = t]
<1>1. /\ todo[t] # <<>> /\ owner[x] \in {None, t}
      /\ x = State => sharers \subseteq {t}
      /\ Nothing \/ Updates
      /\ todo' = [todo EXCEPT ![t] = Tail(todo[t])]
      /\ UNCHANGED <<db, pc, sharers>>
  BY DEF Statement
<1>2. /\ s \in Assignment /\ x \in Row
      /\ Tail(todo[t]) \in Seq(Assignment)
  BY <1>1 DEF IInv, TypeInv, Assignment
<1>3. t \notin sharers
  BY <1>1 DEF IInv, LockInv
<1>4. x \in {State, Content} => value \in Selections
  <2>1. SUFFICES ASSUME x \in {State, Content} PROVE value \in Selections
    OBVIOUS
  <2>2. s.value \in Selections
    BY <1>2, <2>1 DEF Assignment
  <2>3. View(t)[x] \in Selections
    <3>1. db[x] \in Selections
      BY <2>1 DEF IInv, TypeInv
    <3>2. x \in DOMAIN writes[t] => writes[t][x] \in Selections
      BY <2>1 DEF IInv, TypeInv
    <3>3. QED
      BY <1>2, <3>1, <3>2, ViewFacts
  <2>4. x \notin {Gen(g) : g \in Generation}
    BY <2>1, RowFacts
  <2>5. value \in {s.value, View(t)[x]}
    BY <2>4 DEF Becomes
  <2>6. QED
    BY <2>2, <2>3, <2>5
<1>5. \A u \in Transaction :
        /\ u # t => writes'[u] = writes[u] /\ checks'[u] = checks[u]
                    /\ todo'[u] = todo[u]
        /\ DOMAIN writes'[u] \subseteq Row
  BY <1>1, <1>2 DEF IInv, TypeInv
<1>6. \A u \in Transaction :
        \A y \in {State, Content} :
          y \in DOMAIN writes'[u] => writes'[u][y] \in Selections
  BY <1>1, <1>2, <1>4, <1>5 DEF IInv, TypeInv
<1>7. x \in (Pairs \cup {State}) \cup {Content}
  BY <1>2 DEF Row
<1>8. checks' \in [Transaction -> Seq(Pairs \cup {State})]
  <2>1. checks \in [Transaction -> Seq(Pairs \cup {State})]
    BY DEF IInv, TypeInv
  <2>2. x # Content => Append(checks[t], x) \in Seq(Pairs \cup {State})
    BY <1>7, <2>1
  <2>3. PICK q \in Seq(Pairs \cup {State}) :
          UNCHANGED checks \/ checks' = [checks EXCEPT ![t] = q]
    BY <1>1, <2>1, <2>2
  <2>4. QED
    BY <2>1, <2>3
<1>9. TypeInv'
  <2>1. writes' = [u \in Transaction |-> writes'[u]]
    <3>1. PICK w : UNCHANGED writes \/ writes' = [writes EXCEPT ![t] = w]
      BY <1>1
    <3>2. writes = [u \in Transaction |-> writes[u]]
      BY DEF IInv, TypeInv
    <3>3. CASE UNCHANGED writes
      BY <3>2, <3>3
    <3>4. CASE writes' = [writes EXCEPT ![t] = w]
      BY <3>2, <3>4
    <3>5. QED
      BY <3>1, <3>3, <3>4
  <2>2. owner' \in [Row -> Transaction \cup {None}]
    <3>1. UNCHANGED owner \/ owner' = [owner EXCEPT ![x] = t]
      BY <1>1
    <3>2. owner \in [Row -> Transaction \cup {None}]
      BY DEF IInv, TypeInv
    <3>3. QED
      BY <3>1, <3>2
  <2>3. todo' \in [Transaction -> Seq(Assignment)]
    BY <1>1, <1>2 DEF IInv, TypeInv
  <2>4. UNCHANGED <<db, pc, sharers>>
    BY <1>1
  <2>5. /\ pc \in [Transaction -> {"new", "run", "ended"}]
        /\ sharers \subseteq Transaction
        /\ db[State] \in Selections /\ db[Content] \in Selections
    BY DEF IInv, TypeInv
  <2>6. QED
    BY <1>5, <1>6, <1>8, <2>1, <2>2, <2>3, <2>4, <2>5 DEF TypeInv
<1>10. LockInv'
  <2>1. SUFFICES ASSUME NEW u \in Transaction
        PROVE /\ \A y \in Row : y \in DOMAIN writes'[u] <=> owner'[y] = u
              /\ u \in sharers' =>
                   pc'[u] = "run" /\ todo'[u] = <<>> /\ owner'[State] = None
              /\ pc'[u] # "run" => DOMAIN writes'[u] = {} /\ todo'[u] = <<>>
    BY DEF LockInv
  <2>2. \A y \in Row : y \in DOMAIN writes'[u] <=> owner'[y] = u
    BY <1>1, <1>2, <1>5 DEF IInv, TypeInv, LockInv, GuardAssumption
  <2>3. u \in sharers' =>
          pc'[u] = "run" /\ todo'[u] = <<>> /\ owner'[State] = None
    BY <1>1, <1>3, <1>5, RowFacts DEF IInv, TypeInv, LockInv
  <2>4. pc'[u] # "run" => DOMAIN writes'[u] = {} /\ todo'[u] = <<>>
    BY <1>1, <1>5 DEF IInv, TypeInv, LockInv
  <2>5. QED
    BY <2>2, <2>3, <2>4
<1>11. CheckInv'
  <2>1. SUFFICES ASSUME NEW u \in Transaction PROVE CheckOf(u)'
    BY DEF CheckInv
  <2>2. CASE u = t
    <3>1. Done(t) = {}
      BY <1>1 DEF IInv, CheckInv, CheckOf
    <3>2. Done(t)' = {}
      <4>1. CASE Nothing
        BY <3>1, <4>1 DEF Done, Pending
      <4>2. CASE Updates
        <5>1. DOMAIN writes'[t] = DOMAIN writes[t] \cup {x}
          BY <4>2 DEF IInv, TypeInv
        <5>2. CASE x = Content
          <6>1. checks'[t] = checks[t]
            BY <4>2, <5>2 DEF IInv, TypeInv
          <6>2. QED
            BY <3>1, <5>1, <5>2, <6>1 DEF Done, Pending
        <5>3. CASE x # Content
          <6>1. checks'[t] = Append(checks[t], x)
            BY <4>2, <5>3 DEF IInv, TypeInv
          <6>2. Pending(t)' = Pending(t) \cup {x}
            <7>1. checks[t] \in Seq(Pairs \cup {State})
              BY DEF IInv, TypeInv
            <7>2. DOMAIN Append(checks[t], x) = 1 .. Len(checks[t]) + 1
                  /\ DOMAIN checks[t] = 1 .. Len(checks[t])
                  /\ Len(checks[t]) \in Nat
              BY <7>1
            <7>3. \A i \in 1 .. Len(checks[t]) :
                    Append(checks[t], x)[i] = checks[t][i]
              BY <7>1
            <7>4. Append(checks[t], x)[Len(checks[t]) + 1] = x
              BY <7>1
            <7>5. QED
              BY <6>1, <7>2, <7>3, <7>4 DEF Pending
          <6>3. QED
            BY <3>1, <5>1, <6>2 DEF Done
        <5>4. QED
          BY <5>2, <5>3
      <4>3. QED
        BY <1>1, <4>1, <4>2
    <3>3. QED
      BY <2>2, <3>2 DEF CheckOf
  <2>3. CASE u # t
    <3>1. Holds(u) => Holds(u)'
      BY <1>1, <1>2, <2>3, RowFacts DEF Holds, IInv, TypeInv, GuardAssumption
    <3>2. CheckOf(u)
      BY DEF IInv, CheckInv
    <3>3. QED
      BY <1>1, <1>5, <2>3, <3>1, <3>2, Kept
  <2>4. QED
    BY <2>2, <2>3
<1>12. QED
  BY <1>1, <1>9, <1>10, <1>11 DEF IInv, CoherentSelection

LEMMA ShareInv ==
  ASSUME IInv, NEW t \in Transaction, Share(t)
  PROVE  IInv'
<1>1. /\ pc[t] = "run" /\ todo[t] = <<>> /\ owner[State] = None
      /\ sharers' = sharers \cup {t}
      /\ UNCHANGED <<db, pc, todo, writes, checks, owner>>
  BY DEF Share, Committing
<1>2. TypeInv'
  BY <1>1 DEF IInv, TypeInv
<1>3. LockInv'
  BY <1>1 DEF IInv, LockInv
<1>4. CheckInv'
  BY <1>1, Kept DEF IInv, CheckInv, Holds
<1>5. QED
  BY <1>1, <1>2, <1>3, <1>4 DEF IInv, CoherentSelection

(* What Judge has let pass is sound.                                       *)
LEMMA JudgedIsSound ==
  ASSUME IInv, NEW t \in Transaction, NEW x \in DOMAIN writes[t],
         x = State \/ Holds(t), Passes(View(t), x)
  PROVE  Sound(t, x)
<1>1. CASE x = State
  BY <1>1 DEF Passes, Sound, StateSound
<1>2. CASE x # State
  <2> DEFINE s == db[State]
  <2>1. SUFFICES ASSUME State \notin DOMAIN writes[t], s # None
        PROVE  /\ x = Gen(s) => writes[t][x] = "complete"
               /\ x = Build(s) =>
                    \/ writes[t][x] = "complete"
                    \/ /\ Gen(s) \in DOMAIN writes[t]
                       /\ writes[t][Gen(s)] \notin Linked
    BY <1>2 DEF Sound, PairSound
  <2>2. s \in Generation /\ Gen(s) \in Row /\ Build(s) \in Row
    BY <2>1, RowFacts DEF IInv, TypeInv, Selections
  <2>3. View(t)[State] = s
    BY <2>1, RowFacts, ViewFacts
  <2>4. Concerns(View(t), x) => Coherent(View(t), s)
    BY <2>1, <2>3 DEF Passes, Selected
  <2>5. x = Gen(s) => writes[t][x] = "complete"
    BY <2>2, <2>3, <2>4, ViewFacts DEF Concerns, Coherent
  <2>6. ASSUME x = Build(s), Gen(s) \notin DOMAIN writes[t]
                             \/ writes[t][Gen(s)] \in Linked
        PROVE  writes[t][x] = "complete"
    <3>1. db[Gen(s)] = "complete"
      BY <2>1 DEF IInv, CoherentSelection, Selected, Coherent
    <3>2. View(t)[Gen(s)] \in Linked
      BY <2>2, <2>6, <3>1, ViewFacts DEF Linked
    <3>3. View(t)[Build(s)] = "complete"
      BY <2>3, <2>4, <2>6, <3>2 DEF Concerns, Coherent
    <3>4. QED
      BY <2>2, <2>6, <3>3, ViewFacts
  <2>7. QED
    BY <2>5, <2>6
<1>3. QED
  BY <1>1, <1>2

LEMMA JudgeInv ==
  ASSUME IInv, NEW t \in Transaction, Judge(t)
  PROVE  IInv'
<1>1. /\ pc[t] = "run" /\ todo[t] = <<>> /\ checks[t] # <<>>
      /\ Head(checks[t]) = State \/ Holds(t)
      /\ Passes(View(t), Head(checks[t]))
      /\ checks' = [checks EXCEPT ![t] = Tail(checks[t])]
      /\ UNCHANGED <<db, pc, todo, writes, owner, sharers>>
  BY DEF Judge, Committing
<1>2. checks \in [Transaction -> Seq(Pairs \cup {State})]
  BY DEF IInv, TypeInv
<1>3. checks'[t] = Tail(checks[t])
      /\ Tail(checks[t]) \in Seq(Pairs \cup {State})
  BY <1>1, <1>2
<1>4. TypeInv'
  <2>1. checks' \in [Transaction -> Seq(Pairs \cup {State})]
    BY <1>1, <1>2, <1>3
  <2>2. QED
    BY <1>1, <2>1 DEF IInv, TypeInv
<1>5. LockInv'
  BY <1>1 DEF IInv, LockInv
<1>6. CheckInv'
  <2>1. SUFFICES ASSUME NEW u \in Transaction PROVE CheckOf(u)'
    BY DEF CheckInv
  <2>2. CASE u = t
    <3>1. Pending(t) \subseteq Pending(t)' \cup {Head(checks[t])}
      <4>1. SUFFICES ASSUME NEW i \in DOMAIN checks[t], i # 1
                     PROVE  checks[t][i] \in Pending(t)'
        BY <1>1, <1>2 DEF Pending
      <4>2. i - 1 \in DOMAIN Tail(checks[t])
            /\ Tail(checks[t])[i - 1] = checks[t][i]
        BY <1>1, <1>2, <4>1
      <4>3. QED
        BY <1>3, <4>2 DEF Pending
    <3>2. Done(t)' \subseteq Done(t) \cup {Head(checks[t])}
      BY <1>1, <3>1 DEF Done
    <3>3. \A x \in Done(t)' : Sound(t, x)
      <4>1. TAKE x \in Done(t)'
      <4>2. x \in DOMAIN writes[t]
        BY <1>1, <4>1 DEF Done
      <4>3. CASE x \in Done(t)
        BY <4>3 DEF IInv, CheckInv, CheckOf
      <4>4. CASE x = Head(checks[t])
        BY <1>1, <4>2, <4>4, JudgedIsSound
      <4>5. QED
        BY <3>2, <4>1, <4>3, <4>4
    <3>4. \A x \in Done(t)' : Sound(t, x)'
      <4>1. View(t)' = View(t)
        BY <1>1 DEF View
      <4>2. \A x : Sound(t, x) => Sound(t, x)'
        BY <1>1, <4>1
           DEF Sound, StateSound, PairSound, Selected, Coherent, Holds
      <4>3. QED
        BY <3>3, <4>2
    <3>5. QED
      BY <1>1, <2>2, <3>4 DEF CheckOf
  <2>3. CASE u # t
    <3>1. checks'[u] = checks[u]
      BY <1>1, <1>2, <2>3
    <3>2. QED
      BY <1>1, <3>1, Kept DEF IInv, CheckInv, Holds
  <2>4. QED
    BY <2>2, <2>3
<1>7. QED
  BY <1>1, <1>4, <1>5, <1>6 DEF IInv, CoherentSelection

(* The end of a transaction.                                               *)
LEMMA ReleaseFacts ==
  ASSUME IInv, GuardAssumption, NEW t \in Transaction, Release(t)
  PROVE  /\ writes'[t] = <<>> /\ DOMAIN writes'[t] = {}
         /\ \A u \in Transaction \ {t} :
              /\ writes'[u] = writes[u] /\ checks'[u] = checks[u]
              /\ todo'[u] = todo[u]
              /\ Holds(u) => Holds(u)'
         /\ writes' = [u \in Transaction |-> writes'[u]]
         /\ LockInv'
<1>1. writes'[t] = <<>> /\ DOMAIN <<>> = {}
  BY DEF IInv, TypeInv, Release
<1>2. \A u \in Transaction \ {t} :
        /\ writes'[u] = writes[u] /\ checks'[u] = checks[u]
        /\ todo'[u] = todo[u] /\ pc'[u] = pc[u]
  BY DEF IInv, TypeInv, Release
<1>3. \A u \in Transaction \ {t} : Holds(u) => Holds(u)'
  BY RowFacts DEF Holds, Release, GuardAssumption
<1>4. writes' = [u \in Transaction |-> writes'[u]]
  <2>1. writes = [u \in Transaction |-> writes[u]]
    BY DEF IInv, TypeInv
  <2>2. writes' = [writes EXCEPT ![t] = <<>>]
    BY DEF Release
  <2>3. QED
    BY <2>1, <2>2
<1>5. LockInv'
  <2>1. SUFFICES ASSUME NEW u \in Transaction
        PROVE /\ \A y \in Row : y \in DOMAIN writes'[u] <=> owner'[y] = u
              /\ u \in sharers' =>
                   pc'[u] = "run" /\ todo'[u] = <<>> /\ owner'[State] = None
              /\ pc'[u] # "run" => DOMAIN writes'[u] = {} /\ todo'[u] = <<>>
    BY DEF LockInv
  <2>2. owner' = [x \in Row |-> IF owner[x] = t THEN None ELSE owner[x]]
        /\ sharers' = sharers \ {t}
    BY DEF Release
  <2>3. pc'[t] = "ended" /\ todo'[t] = <<>>
    BY DEF IInv, TypeInv, Release
  <2>4. CASE u = t
    BY <1>1, <2>2, <2>3, <2>4 DEF GuardAssumption
  <2>5. CASE u # t
    <3>1. \A y \in Row : y \in DOMAIN writes[u] <=> owner[y] = u
      BY DEF IInv, LockInv
    <3>2. \A y \in Row : owner'[y] = u <=> owner[y] = u
      BY <2>2, <2>5 DEF GuardAssumption
    <3>3. u \in sharers' => owner'[State] = None
      BY <2>2, RowFacts DEF IInv, LockInv
    <3>4. QED
      BY <1>2, <2>2, <2>5, <3>1, <3>2, <3>3 DEF IInv, LockInv
  <2>6. QED
    BY <2>4, <2>5
<1>6. QED
  BY <1>1, <1>2, <1>3, <1>4, <1>5

LEMMA ReleaseType ==
  ASSUME IInv, GuardAssumption, NEW t \in Transaction, Release(t),
         db'[State] \in Selections, db'[Content] \in Selections
  PROVE  TypeInv'
<1>1. /\ pc' \in [Transaction -> {"new", "run", "ended"}]
      /\ sharers' \subseteq Transaction
  BY DEF IInv, TypeInv, Release
<1>2. owner' \in [Row -> Transaction \cup {None}]
  BY DEF IInv, TypeInv, Release
<1>3. todo' \in [Transaction -> Seq(Assignment)]
      /\ checks' \in [Transaction -> Seq(Pairs \cup {State})]
  <2>1. \A S : <<>> \in Seq(S)
    OBVIOUS
  <2>2. QED
    BY <2>1 DEF IInv, TypeInv, Release
<1>4. \A u \in Transaction :
        /\ DOMAIN writes'[u] \subseteq Row
        /\ \A x \in {State, Content} :
             x \in DOMAIN writes'[u] => writes'[u][x] \in Selections
  <2>1. TAKE u \in Transaction
  <2>2. CASE u = t
    BY <2>2, ReleaseFacts
  <2>3. CASE u # t
    BY <2>3, ReleaseFacts DEF IInv, TypeInv
  <2>4. QED
    BY <2>2, <2>3
<1>5. QED
  BY <1>1, <1>2, <1>3, <1>4, ReleaseFacts DEF TypeInv

LEMMA AbortInv ==
  ASSUME IInv, GuardAssumption, NEW t \in Transaction, Release(t),
         UNCHANGED db
  PROVE  IInv'
<1>1. TypeInv'
  BY ReleaseType DEF IInv, TypeInv
<1>2. CheckInv'
  <2>1. SUFFICES ASSUME NEW u \in Transaction PROVE CheckOf(u)'
    BY DEF CheckInv
  <2>2. CASE u = t
    BY <2>2, ReleaseFacts DEF CheckOf, Done
  <2>3. CASE u # t
    BY <2>3, ReleaseFacts, Kept DEF IInv, CheckInv
  <2>4. QED
    BY <2>2, <2>3
<1>3. QED
  BY <1>1, <1>2, ReleaseFacts DEF IInv, CoherentSelection

LEMMA CommitInv ==
  ASSUME IInv, GuardAssumption, NEW t \in Transaction, Commit(t)
  PROVE  IInv'
<1>1. /\ checks[t] = <<>> /\ db' = View(t) /\ Release(t)
  BY DEF Commit
<1>2. Selected(db') /\ db'[State] \in Selections
  BY <1>1, PassedIsCoherent DEF IInv
<1>3. TypeInv'
  <2>1. db'[Content] \in Selections
    BY <1>1, RowFacts, ViewFacts DEF IInv, TypeInv
  <2>2. QED
    BY <1>1, <1>2, <2>1, ReleaseType
<1>4. Pending(t) = {}
  BY <1>1 DEF Pending
<1>5. \A x \in DOMAIN writes[t] : x \in Pairs => Holds(t)
  <2>1. TAKE x \in DOMAIN writes[t]
  <2>2. HAVE x \in Pairs
  <2>3. x # State /\ x # Content
    BY <2>2, RowFacts DEF Pairs
  <2>4. x \in Done(t)
    BY <1>4, <2>3 DEF Done
  <2>5. Sound(t, x)
    BY <2>4 DEF IInv, CheckInv, CheckOf
  <2>6. QED
    BY <2>3, <2>5 DEF Sound, PairSound
<1>6. CheckInv'
  <2>1. SUFFICES ASSUME NEW u \in Transaction PROVE CheckOf(u)'
    BY DEF CheckInv
  <2>2. CASE u = t
    BY <1>1, <2>2, ReleaseFacts DEF CheckOf, Done
  <2>3. CASE u # t
    <3>1. /\ writes'[u] = writes[u] /\ checks'[u] = checks[u]
          /\ todo'[u] = todo[u]
          /\ Holds(u) => Holds(u)'
      BY <1>1, <2>3, ReleaseFacts
    <3>2. Done(u)' = Done(u)
      BY <3>1 DEF Done, Pending
    <3>3. ASSUME NEW x \in Done(u) PROVE Sound(u, x)'
      <4>1. Sound(u, x)
        BY <3>3 DEF IInv, CheckInv, CheckOf
      <4>2. CASE x = State
        <5>1. State \in DOMAIN writes[u] /\ owner[State] = u
          BY <3>3, <4>2, RowFacts DEF Done, IInv, LockInv
        <5>2. ~ Holds(t)
          BY <2>3, <5>1 DEF Holds, IInv, LockInv, GuardAssumption
        <5>3. \A y \in Pairs : db'[y] = db[y]
          BY <1>1, <1>5, <5>2, RowFacts, ViewFacts
        <5>4. \A y \in Pairs : View(u)'[y] = View(u)[y]
          BY <3>1, <5>3, RowFacts DEF View
        <5>5. View(u)'[State] = View(u)[State]
              /\ View(u)[State] \in Selections
          BY <3>1, <5>1, RowFacts, ViewFacts DEF View, IInv, TypeInv
        <5>6. Selected(View(u))
          BY <4>1, <4>2 DEF Sound, StateSound
        <5>7. Selected(View(u)')
          BY <5>4, <5>5, <5>6, RowFacts DEF Selected, Coherent, Selections
        <5>8. QED
          BY <4>2, <5>7 DEF Sound, StateSound, Selected, Coherent
      <4>3. CASE x # State
        <5>1. Holds(u)
          BY <4>1, <4>3 DEF Sound, PairSound
        <5>2. State \notin DOMAIN writes[t]
          BY <2>3, <5>1, RowFacts DEF Holds, IInv, LockInv, GuardAssumption
        <5>3. db'[State] = db[State]
          BY <1>1, <5>2, RowFacts, ViewFacts
        <5>4. PairSound(u, x)
          BY <4>1, <4>3 DEF Sound
        <5>5. Holds(u)'
          BY <3>1, <5>1
        <5>6. PairSound(u, x)'
          BY <3>1, <5>3, <5>4, <5>5 DEF PairSound, Gen, Build, State
        <5>7. QED
          BY <4>3, <5>6 DEF Sound, State
      <4>4. QED
        BY <4>2, <4>3
    <3>4. todo[u] # <<>> => Done(u) = {}
      BY DEF IInv, CheckInv, CheckOf
    <3>5. \A x \in Done(u)' : Sound(u, x)'
      BY <3>2, <3>3
    <3>6. QED
      BY <3>1, <3>2, <3>4, <3>5 DEF CheckOf
  <2>4. QED
    BY <2>2, <2>3
<1>7. QED
  BY <1>1, <1>2, <1>3, <1>6, ReleaseFacts DEF IInv, CoherentSelection

LEMMA NextInv ==
  ASSUME IInv, GuardAssumption, [GuardNext]_guardVars
  PROVE  IInv'
<1>1. ASSUME NEW t \in Transaction, BeginPublication(t)
      PROVE  IInv'
  BY <1>1, ScriptFacts, StartsInv DEF BeginPublication
<1>2. ASSUME NEW t \in Transaction, BeginOperation(t)
      PROVE  IInv'
  BY <1>2, ScriptFacts, StartsInv DEF BeginOperation
<1>3. ASSUME NEW t \in Transaction, Statement(t)
      PROVE  IInv'
  <2>1. pc[t] = "run"
    BY <1>3 DEF Statement, IInv, LockInv
  <2>2. QED
    BY <1>3, <2>1, StatementInv
<1>4. ASSUME NEW t \in Transaction, Share(t)
      PROVE  IInv'
  BY <1>4, ShareInv
<1>5. ASSUME NEW t \in Transaction, Judge(t)
      PROVE  IInv'
  BY <1>5, JudgeInv
<1>6. ASSUME NEW t \in Transaction, Refuse(t)
      PROVE  IInv'
  BY <1>6, AbortInv DEF Refuse
<1>7. ASSUME NEW t \in Transaction, Commit(t)
      PROVE  IInv'
  BY <1>7, CommitInv
<1>8. ASSUME NEW t \in Transaction, Rollback(t)
      PROVE  IInv'
  BY <1>8, AbortInv DEF Rollback
<1>9. CASE UNCHANGED guardVars
  <2>1. UNCHANGED <<db, pc, todo, writes, checks, owner, sharers>>
    BY <1>9 DEF guardVars
  <2>2. TypeInv' /\ LockInv' /\ CoherentSelection'
    BY <2>1 DEF IInv, TypeInv, LockInv, CoherentSelection
  <2>3. CheckInv'
    BY <2>1, Kept DEF IInv, CheckInv, Holds
  <2>4. QED
    BY <2>2, <2>3 DEF IInv
<1>10. QED
  BY <1>1, <1>2, <1>3, <1>4, <1>5, <1>6, <1>7, <1>8, <1>9
     DEF GuardNext, Advance

(* Every committed selection has a completed build, for any number of      *)
(* concurrent publications, selections and demotions                       *)
(* (require_coherent_selection_after_pair_update).                         *)
THEOREM GuardKeepsCoherence == GuardSpec => []CoherentSelection
<1>1. GuardInit => IInv
  BY InitInv, GuardAssumption
<1>2. IInv /\ [GuardNext]_guardVars => IInv'
  BY NextInv, GuardAssumption
<1>3. IInv => CoherentSelection
  BY DEF IInv
<1>4. QED
  BY <1>1, <1>2, <1>3, PTL DEF GuardSpec
=============================================================================
