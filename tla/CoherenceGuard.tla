--------------------------- MODULE CoherenceGuard ---------------------------
(* The triggers that keep the selected corpus coherent                     *)
(* (coherent_corpus_schema.sql, coherent_selection_guard_schema.sql), run  *)
(* by concurrent transactions: publications of the indexer, and            *)
(* selections and demotions that an operator makes by hand.                *)
(*                                                                         *)
(* Transactions are READ COMMITTED: a statement sees what is committed     *)
(* when it runs and what its own transaction wrote.  An UPDATE locks its   *)
(* row until the transaction ends.  The triggers are deferred: they run at *)
(* COMMIT, one after another, while the locks are still held.              *)
EXTENDS Integers, Sequences

CONSTANTS
  Transaction,
  Publisher,    \* the transactions of index runs
  Generation,   \* corpus generations, each with its one semantic build
  None          \* no selection; no owner

ASSUME GuardAssumption ==
  /\ Publisher \subseteq Transaction
  /\ None \notin Transaction \cup Generation

(* Rows.  Content stands for the rows of the current relations.            *)
State == <<"corpus_state", None>>
Content == <<"current", None>>
Gen(g) == <<"corpus_generation", g>>
Build(g) == <<"semantic_build", g>>
Pairs == {Gen(g) : g \in Generation} \cup {Build(g) : g \in Generation}
Row == Pairs \cup {State, Content}

(* A generation is "unlinked" when semantic_build is NULL and it is not    *)
(* being built; a publication sets the link together with the status.      *)
Linked == {"complete", "failed"}

VARIABLES
  db,       \* [Row -> value], committed
  pc,       \* "new", "run", "ended"
  todo,     \* statements left
  writes,   \* rows written, a function
  checks,   \* rows whose deferred trigger is still to run
  owner,    \* [Row -> transaction whose UPDATE locks it, or None]
  sharers   \* transactions that hold State FOR SHARE

guardVars == <<db, pc, todo, writes, checks, owner, sharers>>

(***************************************************************************)
(* Statements.                                                             *)
(***************************************************************************)
Set(x, value) == [row |-> x, value |-> value]

\* mutant: the selection is written first
PublicationOfState(g) ==
  <<Set(Content, g), Set(State, g),
    Set(Build(g), "complete"), Set(Gen(g), "complete")>>
(* _publish_coherent_candidate writes in this order.                       *)
Publication(g) ==
  <<Set(Content, g), Set(Build(g), "complete"),
    Set(Gen(g), "complete"), Set(State, g)>>

Selection(g) == <<Set(State, g)>>
Demotions(g) ==
  {<<Set(Build(g), "failed")>>, <<Set(Gen(g), "failed")>>,
   <<Set(Gen(g), "unlinked")>>,
   <<Set(Build(g), "failed"), Set(Gen(g), "unlinked")>>}

(* What an UPDATE makes of the value it finds: publication has WHERE       *)
(* status = 'building'; failing a generation leaves its link as it is.     *)
Becomes(s, old) ==
  CASE s.value = "complete" -> IF old = "building" THEN "complete" ELSE old
    [] s.value = "failed" /\ s.row \in {Gen(g) : g \in Generation} ->
         IF old \in Linked THEN "failed" ELSE "unlinked"
    [] OTHER -> s.value

View(t) ==
  [x \in Row |-> IF x \in DOMAIN writes[t] THEN writes[t][x] ELSE db[x]]

(***************************************************************************)
(* The triggers.                                                           *)
(***************************************************************************)
Coherent(v, g) == v[Gen(g)] = "complete" /\ v[Build(g)] = "complete"
Selected(v) == v[State] # None => Coherent(v, v[State])

(* Is the updated row one of the selected pair?                            *)
Concerns(v, x) ==
  \/ x = Gen(v[State])
  \/ x = Build(v[State]) /\ v[Gen(v[State])] \in Linked

(* require_coherent_corpus_selection, and                                  *)
(* require_coherent_selection_after_pair_update after its lock.            *)
Passes(v, x) ==
  x = State \/ (v[State] # None /\ Concerns(v, x)) => Selected(v)

\* mutant: the trigger reads the selection without FOR SHARE
HoldsNothing(t) == TRUE
Holds(t) == owner[State] = t \/ t \in sharers

(***************************************************************************)
(* Steps of a transaction.                                                 *)
(***************************************************************************)
Release(t) ==
  /\ pc' = [pc EXCEPT ![t] = "ended"]
  /\ todo' = [todo EXCEPT ![t] = <<>>]
  /\ writes' = [writes EXCEPT ![t] = <<>>]
  /\ checks' = [checks EXCEPT ![t] = <<>>]
  /\ owner' = [x \in Row |-> IF owner[x] = t THEN None ELSE owner[x]]
  /\ sharers' = sharers \ {t}

Starts(t, script) ==
  /\ pc[t] = "new"
  /\ pc' = [pc EXCEPT ![t] = "run"]
  /\ todo' = [todo EXCEPT ![t] = script]
  /\ UNCHANGED <<db, writes, checks, owner, sharers>>

(* Index runs follow one another (OneOwner of IndexLedger).                *)
BeginPublication(t) ==
  /\ t \in Publisher
  /\ \A u \in Publisher : pc[u] # "run"
  /\ \E g \in Generation :
       /\ db[Gen(g)] = "building" /\ db[Build(g)] = "building"
       /\ Starts(t, Publication(g))

BeginOperation(t) ==
  /\ t \notin Publisher
  /\ \E g \in Generation :
       \E script \in Demotions(g) \cup {Selection(g), Selection(None)} :
         Starts(t, script)

(* An UPDATE waits for whoever locks its row; without a row to change it   *)
(* locks nothing and fires nothing.                                        *)
Statement(t) ==
  /\ todo[t] # <<>>
  /\ LET s == Head(todo[t])
         x == s.row
         value == Becomes(s, View(t)[x])
     IN  /\ owner[x] \in {None, t}
         /\ x = State => sharers \subseteq {t}
         /\ IF s.value = "complete" /\ value = View(t)[x]
            THEN UNCHANGED <<writes, checks, owner>>
            ELSE /\ writes' = [writes EXCEPT ![t] =
                      [y \in DOMAIN @ \cup {x} |->
                         IF y = x THEN value ELSE @[y]]]
                 /\ checks' = [checks EXCEPT ![t] =
                      IF x = Content THEN @ ELSE Append(@, x)]
                 /\ owner' = [owner EXCEPT ![x] = t]
  /\ todo' = [todo EXCEPT ![t] = Tail(@)]
  /\ UNCHANGED <<db, pc, sharers>>

Committing(t) == pc[t] = "run" /\ todo[t] = <<>>

(* SELECT ... FROM corpus_state ... FOR SHARE.                             *)
Share(t) ==
  /\ Committing(t) /\ checks[t] # <<>> /\ Head(checks[t]) # State
  /\ ~ Holds(t)
  /\ owner[State] = None
  /\ sharers' = sharers \cup {t}
  /\ UNCHANGED <<db, pc, todo, writes, checks, owner>>

Judge(t) ==
  /\ Committing(t) /\ checks[t] # <<>>
  /\ Head(checks[t]) = State \/ Holds(t)
  /\ Passes(View(t), Head(checks[t]))
  /\ checks' = [checks EXCEPT ![t] = Tail(@)]
  /\ UNCHANGED <<db, pc, todo, writes, owner, sharers>>

(* A trigger raises check_violation.                                       *)
Refuse(t) ==
  /\ Committing(t) /\ checks[t] # <<>>
  /\ Head(checks[t]) = State \/ Holds(t)
  /\ ~ Passes(View(t), Head(checks[t]))
  /\ Release(t)
  /\ UNCHANGED db

Commit(t) ==
  /\ Committing(t) /\ checks[t] = <<>>
  /\ db' = View(t)
  /\ Release(t)

(* The session gives up, times out or dies.                                *)
Rollback(t) ==
  /\ pc[t] = "run"
  /\ Release(t)
  /\ UNCHANGED db

(* A selection that holds, or none; generations published, demoted before, *)
(* and under way.                                                          *)
GuardInit ==
  /\ \E status \in [Generation -> {"building", "unlinked"} \cup Linked],
        selected, content \in Generation \cup {None} :
       db = [x \in Row |->
               IF x = State THEN selected
               ELSE IF x = Content THEN content
               ELSE IF x[1] = "corpus_generation" \/ status[x[2]] = "building"
               THEN status[x[2]] ELSE "complete"]
  /\ Selected(db)
  /\ pc \in [Transaction -> {"new", "ended"}]
  /\ todo = [t \in Transaction |-> <<>>]
  /\ writes = [t \in Transaction |-> <<>>]
  /\ checks = [t \in Transaction |-> <<>>]
  /\ owner = [x \in Row |-> None]
  /\ sharers = {}

Advance(t) == Statement(t) \/ Share(t) \/ Judge(t) \/ Refuse(t) \/ Commit(t)

GuardNext ==
  \E t \in Transaction :
    BeginPublication(t) \/ BeginOperation(t) \/ Advance(t) \/ Rollback(t)

GuardSpec == GuardInit /\ [][GuardNext]_guardVars

(***************************************************************************)
(* Property.                                                               *)
(***************************************************************************)

(* While transactions publish, select a generation and demote pairs at     *)
(* the same time, every committed selection has a completed build: the row *)
(* lock of the deferred checks lets neither of two transactions miss the   *)
(* other (test_migrations.py:1040).  Relinking a generation to another     *)
(* build is not among the operations.                                      *)
CoherentSelection == Selected(db)
=============================================================================
