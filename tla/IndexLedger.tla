---------------------------- MODULE IndexLedger ----------------------------
(***************************************************************************)
(* Ownership of index work and the life cycle of the rows that record it:  *)
(* refresh_run, corpus_generation, semantic_build and the corpus_state     *)
(* singleton that selects the published corpus.                            *)
(*                                                                         *)
(* Several indexers (index_corpus in storage/postgresql/refresh.py)        *)
(* contend for the session advisory lock INDEX_QUEUE_LOCK.  Every          *)
(* statement outside an explicit transaction block commits by itself, so   *)
(* each one is an action here, and a session may die between any two.      *)
(* Readers pin a snapshot of the selected corpus.                          *)
(*                                                                         *)
(* What a run reads and writes inside a candidate is modelled in           *)
(* SourceRefresh; here `rows' only names the generation whose rows the     *)
(* current relations hold.                                                 *)
(***************************************************************************)
EXTENDS Integers, FiniteSets

CONSTANTS
  Procs,      \* indexer processes, each with its own database session
  CLI,        \* those that index through the command line, which takes the
              \* session lock before it calls index_corpus
  NoProc,     \* the lock has no owner
  Readers,    \* sessions that search the selected corpus
  MaxRuns,    \* bound: refresh_run rows ever inserted
  Retained    \* _RETAINED_REFRESH_RUNS

ASSUME ProcsAssumption == CLI \subseteq Procs /\ NoProc \notin Procs
ASSUME BoundAssumption == MaxRuns \in Nat \ {0} /\ Retained \in Nat \ {0}

VARIABLES
  lock,       \* owner of the advisory lock
  pc,         \* where each indexer is
  required,   \* _require_publication: nothing coherent was selected before
  changed,    \* the scan found plans, removals or traversal failures
  partial,    \* failed_source_count > 0
  prepared,   \* prepare_candidate_semantics returned a build
  raised,     \* an exception is propagating out of the owner block
  result,     \* RefreshResult.corpus_generation
  outcome,    \* how index_corpus ended
  myRun, myGen, myBuild,          \* row ids an indexer holds, 0 for none
  run, lastRun,                   \* refresh_run and its identity sequence
  gen, lastGen,                   \* corpus_generation
  build, lastBuild,               \* semantic_build
  selected,                       \* corpus_state.current_corpus_generation
  rows,                           \* generation of the current relations
  snap                            \* what each reader's transaction pinned

localVars == <<required, changed, partial, prepared, raised, result, outcome>>
idVars == <<myRun, myGen, myBuild>>
runVars == <<run, lastRun>>
genVars == <<gen, lastGen>>
buildVars == <<build, lastBuild>>
pubVars == <<selected, rows>>
ledgerVars == <<runVars, genVars, buildVars, pubVars>>
vars == <<lock, pc, localVars, idVars, ledgerVars, snap>>

-----------------------------------------------------------------------------
(* Row types.  Status "absent" is a row not inserted yet, "pruned" a       *)
(* refresh_run row that retention deleted.  Id 0 stands for NULL.          *)

Ids == 1..MaxRuns
RunRow == [status: {"absent", "building", "complete", "partial", "failed",
                    "pruned"},
           gen: 0..MaxRuns]
GenRow == [status: {"absent", "building", "complete", "failed"},
           build: 0..MaxRuns]
BuildRow == [status: {"absent", "building", "complete", "failed"},
             gen: 0..MaxRuns]

RunTerminal == {"complete", "partial", "failed"}
BuildPhase == {"embedding", "publishing", "failBuild"}
GenPhase == {"projecting", "failGen"} \cup BuildPhase
RunPhase == {"staging", "candidate"} \cup GenPhase
Critical == {"planning", "published", "failRun", "recorded", "leaving"}
              \cup RunPhase
SessionPcs == {"entry", "owner", "after", "closing"}
Pcs == {"idle", "queued"} \cup SessionPcs \cup Critical

(* The advisory lock belongs to a session: the owner block takes it for    *)
(* any caller, a CLI session holds it until its connection closes.         *)
Holds(p) == pc[p] \in Critical \/ (p \in CLI /\ pc[p] \in SessionPcs)

Goto(p, from, to) ==
  /\ pc[p] = from
  /\ pc' = [pc EXCEPT ![p] = to]

(* _selected_coherent_build: the selected generation joined to its own     *)
(* build, both complete.                                                   *)
CoherentPair(g) ==
  /\ g \in Ids
  /\ gen[g].status = "complete"
  /\ gen[g].build \in Ids
  /\ build[gen[g].build] = [status |-> "complete", gen |-> g]

-----------------------------------------------------------------------------
(* Mutants: the helpers below as a bug would have them.  No specification  *)
(* uses them; README.md says which property each one must break.           *)

NoWait(p) == TRUE
UnlockAll(p) == lock' = NoProc
KeepLock(p) == UNCHANGED lock
KeepRow(row) == row
FailAnyRow(row) == [row EXCEPT !.status = "failed"]
AbandonRow(row) == [row EXCEPT !.status = "abandoned"]
KeepBuildRow(row, g) == row
SelectOnly(g) == selected' = g /\ UNCHANGED rows

-----------------------------------------------------------------------------
(* The advisory lock.  CanOwn: it is free, or this session has it already. *)
(* The finally of _refresh_owner unlocks once, so a CLI session keeps its  *)
(* own hold; a closing connection drops every hold.                        *)
CanOwn(p) == lock \in {NoProc, p}
UnlockOnce(p) == lock' = IF p \in CLI THEN lock ELSE NoProc
ReleaseSession(p) == lock' = IF lock = p THEN NoProc ELSE lock

(* The guarded UPDATEs: ... SET status = ... WHERE status = 'building'.     *)
FailBuilding(row) ==
  IF row.status = "building" THEN [row EXCEPT !.status = "failed"] ELSE row
CompleteBuild(row, g) ==
  IF row = [status |-> "building", gen |-> g]
  THEN [row EXCEPT !.status = "complete"] ELSE row
CompleteGeneration(row, b) ==
  IF row.status = "building" THEN [status |-> "complete", build |-> b] ELSE row

(* The candidate replaces the current relations and is selected.           *)
Select(g) == selected' = g /\ rows' = g

Init ==
  /\ lock = NoProc
  /\ pc = [p \in Procs |-> "idle"]
  /\ required = [p \in Procs |-> FALSE]
  /\ changed = [p \in Procs |-> FALSE]
  /\ partial = [p \in Procs |-> FALSE]
  /\ prepared = [p \in Procs |-> FALSE]
  /\ raised = [p \in Procs |-> FALSE]
  /\ result = [p \in Procs |-> 0]
  /\ outcome = [p \in Procs |-> "none"]
  /\ myRun = [p \in Procs |-> 0]
  /\ myGen = [p \in Procs |-> 0]
  /\ myBuild = [p \in Procs |-> 0]
  /\ run = [i \in Ids |-> [status |-> "absent", gen |-> 0]]
  /\ gen = [i \in Ids |-> [status |-> "absent", build |-> 0]]
  /\ build = [i \in Ids |-> [status |-> "absent", gen |-> 0]]
  /\ lastRun = 0 /\ lastGen = 0 /\ lastBuild = 0
  /\ selected = 0
  /\ rows = 0
  /\ snap = [r \in Readers |-> [open |-> FALSE, gen |-> 0, rows |-> 0]]

-----------------------------------------------------------------------------
(* Entering and leaving the owner block.                                   *)

(* An invocation starts.  The bound keeps one row id free per active       *)
(* indexer, so no indexer stops for lack of an id.                         *)
Begin(p) ==
  /\ lastRun + Cardinality({q \in Procs : pc[q] # "idle"}) < MaxRuns
  /\ Goto(p, "idle", IF p \in CLI THEN "queued" ELSE "entry")
  /\ outcome' = [outcome EXCEPT ![p] = "none"]
  /\ UNCHANGED <<lock, required, changed, partial, prepared, raised, result,
                 idVars, ledgerVars, snap>>

(* acquire_index_session: pg_advisory_lock until the connection closes.    *)
AcquireSession(p) ==
  /\ CanOwn(p)
  /\ Goto(p, "queued", "entry")
  /\ lock' = p
  /\ UNCHANGED <<localVars, idVars, ledgerVars, snap>>

(* index_corpus reads selected_before ahead of the owner block.            *)
ReadSelectedBefore(p) ==
  /\ Goto(p, "entry", "owner")
  /\ required' = [required EXCEPT ![p] = ~CoherentPair(selected)]
  /\ UNCHANGED <<lock, changed, partial, prepared, raised, result, outcome,
                 idVars, ledgerVars, snap>>

(* _refresh_owner: pg_try_advisory_lock succeeds, at once when this        *)
(* session already holds the lock.                                         *)
EnterOwner(p) ==
  /\ CanOwn(p)
  /\ Goto(p, "owner", "planning")
  /\ lock' = p
  /\ UNCHANGED <<localVars, idVars, ledgerVars, snap>>

(* The finally of _refresh_owner.  An exception skips the check of         *)
(* selected_after.                                                         *)
LeaveOwner(p) ==
  /\ Goto(p, "leaving", IF raised[p] THEN "closing" ELSE "after")
  /\ UnlockOnce(p)
  /\ outcome' = [outcome EXCEPT ![p] = IF raised[p] THEN "raised" ELSE @]
  /\ UNCHANGED <<required, changed, partial, prepared, raised, result,
                 idVars, ledgerVars, snap>>

(* index_corpus reads selected_after, outside the owner block.             *)
ReadSelectedAfter(p) ==
  /\ Goto(p, "after", "closing")
  /\ outcome' = [outcome EXCEPT ![p] =
       IF ~CoherentPair(selected) THEN "unselected"
       ELSE IF prepared[p]
               /\ <<selected, gen[selected].build>> # <<result[p], myBuild[p]>>
            THEN "mismatch"
            ELSE "ok"]
  /\ UNCHANGED <<lock, required, changed, partial, prepared, raised, result,
                 idVars, ledgerVars, snap>>

Forget(p) ==
  /\ required' = [required EXCEPT ![p] = FALSE]
  /\ changed' = [changed EXCEPT ![p] = FALSE]
  /\ partial' = [partial EXCEPT ![p] = FALSE]
  /\ prepared' = [prepared EXCEPT ![p] = FALSE]
  /\ raised' = [raised EXCEPT ![p] = FALSE]
  /\ result' = [result EXCEPT ![p] = 0]
  /\ myRun' = [myRun EXCEPT ![p] = 0]
  /\ myGen' = [myGen EXCEPT ![p] = 0]
  /\ myBuild' = [myBuild EXCEPT ![p] = 0]

(* The connection closes and with it the session's hold on the lock.       *)
Return(p) ==
  /\ Goto(p, "closing", "idle")
  /\ ReleaseSession(p)
  /\ Forget(p)
  /\ UNCHANGED <<outcome, ledgerVars, snap>>

(* The process is killed or its connection is lost at any point.  The      *)
(* server rolls back what was not committed and releases the lock; a       *)
(* statement in flight has committed before this step or never does.       *)
Crash(p) ==
  /\ pc[p] # "idle"
  /\ pc' = [pc EXCEPT ![p] = "idle"]
  /\ ReleaseSession(p)
  /\ outcome' = [outcome EXCEPT ![p] = "crashed"]
  /\ Forget(p)
  /\ UNCHANGED <<ledgerVars, snap>>

-----------------------------------------------------------------------------
(* Inside the owner block, before a candidate exists.                      *)

(* Discovery fails, for one because a configured root is missing.          *)
PlanFails(p) ==
  /\ Goto(p, "planning", "leaving")
  /\ raised' = [raised EXCEPT ![p] = TRUE]
  /\ UNCHANGED <<lock, required, changed, partial, prepared, result, outcome,
                 idVars, ledgerVars, snap>>

(* Nothing to do and no publication required: no row is written.           *)
NoOp(p) ==
  /\ ~required[p]
  /\ Goto(p, "planning", "leaving")
  /\ result' = [result EXCEPT ![p] = selected]
  /\ UNCHANGED <<lock, required, changed, partial, prepared, raised, outcome,
                 idVars, ledgerVars, snap>>

(* _start_run: in one transaction fail every run still building, whose     *)
(* owner must have died, and insert this run.                              *)
StartRun(p) ==
  /\ lastRun < MaxRuns
  /\ Goto(p, "planning", "staging")
  /\ \E c \in BOOLEAN :
       /\ c \/ required[p]
       /\ changed' = [changed EXCEPT ![p] = c]
  /\ lastRun' = lastRun + 1
  /\ run' = [i \in Ids |->
       IF i = lastRun + 1 THEN [status |-> "building", gen |-> 0]
       ELSE FailBuilding(run[i])]
  /\ myRun' = [myRun EXCEPT ![p] = lastRun + 1]
  /\ UNCHANGED <<lock, required, partial, prepared, raised, result, outcome,
                 myGen, myBuild, genVars, buildVars, pubVars, snap>>

(* The sources are parsed.  Either some change was staged, with or without *)
(* failed sources, or a required publication has no failed source; ...     *)
StageSources(p) ==
  /\ Goto(p, "staging", "candidate")
  /\ \E failed \in BOOLEAN :
       /\ changed[p] \/ ~failed
       /\ partial' = [partial EXCEPT ![p] = failed]
  /\ UNCHANGED <<lock, required, changed, prepared, raised, result, outcome,
                 idVars, ledgerVars, snap>>

(* ... or no source could be staged, and the run ends failed without a     *)
(* candidate and without an exception.                                     *)
StageNothing(p) ==
  /\ changed[p]
  /\ Goto(p, "staging", "recorded")
  /\ run' = [run EXCEPT ![myRun[p]].status = "failed"]
  /\ result' = [result EXCEPT ![p] = selected]
  /\ UNCHANGED <<lock, required, changed, partial, prepared, raised, outcome,
                 idVars, lastRun, genVars, buildVars, pubVars, snap>>

(* An exception outside the publisher: heartbeat lost, database error.     *)
StageRaises(p) ==
  /\ pc[p] \in {"staging", "candidate", "published", "recorded"}
  /\ Goto(p, pc[p], "failRun")
  /\ UNCHANGED <<lock, localVars, idVars, ledgerVars, snap>>

-----------------------------------------------------------------------------
(* The candidate: publish_candidate and prepare_candidate_semantics.       *)

InsertGeneration(p) ==
  /\ lastGen < MaxRuns
  /\ Goto(p, "candidate", "projecting")
  /\ lastGen' = lastGen + 1
  /\ gen' = [gen EXCEPT ![lastGen + 1] = [status |-> "building", build |-> 0]]
  /\ myGen' = [myGen EXCEPT ![p] = lastGen + 1]
  /\ UNCHANGED <<lock, localVars, myRun, myBuild, runVars, buildVars, pubVars,
                 snap>>

(* Conflicting observations of one identity, or a database error.          *)
ProjectionFails(p) ==
  /\ Goto(p, "projecting", "failGen")
  /\ UNCHANGED <<lock, localVars, idVars, ledgerVars, snap>>

(* The build row is committed, then the heartbeat connection is opened:    *)
(* when that fails the exception leaves before the try that would mark the *)
(* build failed.                                                           *)
InsertBuild(p) ==
  /\ lastBuild < MaxRuns
  /\ \E to \in {"embedding", "failGen"} : Goto(p, "projecting", to)
  /\ lastBuild' = lastBuild + 1
  /\ build' = [build EXCEPT ![lastBuild + 1] =
                 [status |-> "building", gen |-> myGen[p]]]
  /\ myBuild' = [myBuild EXCEPT ![p] = lastBuild + 1]
  /\ UNCHANGED <<lock, localVars, myRun, myGen, runVars, genVars, pubVars, snap>>

(* Chunking or embedding fails: the build is marked failed on the way out. *)
EmbedFails(p) ==
  /\ Goto(p, "embedding", "failGen")
  /\ build' = [build EXCEPT ![myBuild[p]] = FailBuilding(@)]
  /\ UNCHANGED <<lock, localVars, idVars, runVars, genVars, lastBuild, pubVars,
                 snap>>

EmbedDone(p) ==
  /\ Goto(p, "embedding", "publishing")
  /\ prepared' = [prepared EXCEPT ![p] = TRUE]
  /\ UNCHANGED <<lock, required, changed, partial, raised, result, outcome,
                 idVars, ledgerVars, snap>>

(* _publish_coherent_candidate commits: rows, build, generation, selection *)
(* and run in one transaction.                                             *)
Publish(p) ==
  /\ Goto(p, "publishing", "published")
  /\ build' = [build EXCEPT ![myBuild[p]] = CompleteBuild(@, myGen[p])]
  /\ gen' = [gen EXCEPT ![myGen[p]] = CompleteGeneration(@, myBuild[p])]
  /\ Select(myGen[p])
  /\ run' = [run EXCEPT ![myRun[p]] =
       [status |-> IF partial[p] THEN "partial" ELSE "complete",
        gen |-> myGen[p]]]
  /\ result' = [result EXCEPT ![p] = myGen[p]]
  /\ UNCHANGED <<lock, required, changed, partial, prepared, raised, outcome,
                 idVars, lastRun, lastGen, lastBuild, snap>>

(* ... or rolls back, and the handler of publish_candidate runs.           *)
PublishFails(p) ==
  /\ Goto(p, "publishing", "failBuild")
  /\ UNCHANGED <<lock, localVars, idVars, ledgerVars, snap>>

MarkBuildFailed(p) ==
  /\ Goto(p, "failBuild", "failGen")
  /\ build' = [build EXCEPT ![myBuild[p]] = FailBuilding(@)]
  /\ UNCHANGED <<lock, localVars, idVars, runVars, genVars, lastBuild, pubVars,
                 snap>>

MarkGenerationFailed(p) ==
  /\ Goto(p, "failGen", "failRun")
  /\ gen' = [gen EXCEPT ![myGen[p]] = FailBuilding(@)]
  /\ UNCHANGED <<lock, localVars, idVars, runVars, lastGen, buildVars, pubVars,
                 snap>>

(* _record_run_failure, then the exception is raised again.                *)
RecordRunFailure(p) ==
  /\ Goto(p, "failRun", "leaving")
  /\ run' = [run EXCEPT ![myRun[p]] = FailBuilding(@)]
  /\ raised' = [raised EXCEPT ![p] = TRUE]
  /\ UNCHANGED <<lock, required, changed, partial, prepared, result, outcome,
                 idVars, lastRun, genVars, buildVars, pubVars, snap>>

(* _prune_refresh_runs: terminal rows beyond the newest Retained go.       *)
Prunable(i) ==
  /\ run[i].status \in RunTerminal
  /\ Cardinality({j \in Ids : j > i /\ run[j].status \in RunTerminal})
       >= Retained

PruneRuns(p) ==
  /\ \E from \in {"published", "recorded"} : Goto(p, from, "leaving")
  /\ run' = [i \in Ids |->
       IF Prunable(i) THEN [run[i] EXCEPT !.status = "pruned"] ELSE run[i]]
  /\ UNCHANGED <<lock, localVars, idVars, lastRun, genVars, buildVars, pubVars,
                 snap>>

-----------------------------------------------------------------------------
(* Readers: a REPEATABLE READ transaction pins the selected generation and *)
(* the rows of the current relations at once.                              *)

OpenRead(r) ==
  /\ ~snap[r].open
  /\ CoherentPair(selected)
  /\ snap' = [snap EXCEPT ![r] =
                [open |-> TRUE, gen |-> selected, rows |-> rows]]
  /\ UNCHANGED <<lock, pc, localVars, idVars, ledgerVars>>

CloseRead(r) ==
  /\ snap[r].open
  /\ snap' = [snap EXCEPT ![r] = [open |-> FALSE, gen |-> 0, rows |-> 0]]
  /\ UNCHANGED <<lock, pc, localVars, idVars, ledgerVars>>

-----------------------------------------------------------------------------
(* The steps of an indexer that is running, as opposed to the decision to  *)
(* start one and to its death.                                             *)
Progress(p) ==
  \/ ReadSelectedBefore(p) \/ EnterOwner(p)
  \/ PlanFails(p) \/ NoOp(p) \/ StartRun(p)
  \/ StageSources(p) \/ StageNothing(p) \/ StageRaises(p)
  \/ InsertGeneration(p) \/ ProjectionFails(p) \/ InsertBuild(p)
  \/ EmbedFails(p) \/ EmbedDone(p)
  \/ Publish(p) \/ PublishFails(p)
  \/ MarkBuildFailed(p) \/ MarkGenerationFailed(p) \/ RecordRunFailure(p)
  \/ PruneRuns(p) \/ LeaveOwner(p) \/ ReadSelectedAfter(p) \/ Return(p)

Next ==
  \/ \E p \in Procs : Begin(p) \/ AcquireSession(p) \/ Progress(p) \/ Crash(p)
  \/ \E r \in Readers : OpenRead(r) \/ CloseRead(r)

Spec == Init /\ [][Next]_vars

(* A running indexer takes its next step (parsing and embedding end, by    *)
(* success, failure or death), and PostgreSQL grants pg_advisory_lock in   *)
(* the order of arrival, so a session that waits while the lock is again   *)
(* and again released gets it.                                             *)
Fairness ==
  /\ \A p \in Procs : WF_vars(Progress(p))
  /\ \A p \in Procs : SF_vars(AcquireSession(p))

FairSpec == Spec /\ Fairness
-----------------------------------------------------------------------------
(* Properties.                                                             *)

ControlTypeOK ==
  /\ lock \in Procs \cup {NoProc}
  /\ pc \in [Procs -> Pcs]
  /\ required \in [Procs -> BOOLEAN]
  /\ changed \in [Procs -> BOOLEAN]
  /\ partial \in [Procs -> BOOLEAN]
  /\ prepared \in [Procs -> BOOLEAN]
  /\ raised \in [Procs -> BOOLEAN]
  /\ result \in [Procs -> 0..MaxRuns]
  /\ outcome \in [Procs -> {"none", "ok", "raised", "unselected", "mismatch",
                            "crashed"}]
  /\ myRun \in [Procs -> 0..MaxRuns]
  /\ myGen \in [Procs -> 0..MaxRuns]
  /\ myBuild \in [Procs -> 0..MaxRuns]
  /\ snap \in [Readers -> [open: BOOLEAN, gen: 0..MaxRuns, rows: 0..MaxRuns]]

LedgerTypeOK ==
  /\ run \in [Ids -> RunRow]
  /\ gen \in [Ids -> GenRow]
  /\ build \in [Ids -> BuildRow]
  /\ lastRun \in 0..MaxRuns
  /\ lastGen \in 0..MaxRuns
  /\ lastBuild \in 0..MaxRuns
  /\ selected \in 0..MaxRuns
  /\ rows \in 0..MaxRuns

(* Every variable stays in its domain, the check constraints on the status *)
(* columns included.                                                       *)
TypeOK == ControlTypeOK /\ LedgerTypeOK

(* One session advisory owner serializes corpus work: no two indexers are  *)
(* ever between taking and releasing the lock, whichever way they came in. *)
OneOwner ==
  \A p, q \in Procs : pc[p] \in Critical /\ pc[q] \in Critical => p = q

(* While an owner works on its run, that run is the only one building: the *)
(* runs of owners that died were failed when it started.                   *)
SoleBuildingRun ==
  \A p \in Procs : pc[p] \in RunPhase =>
    \A i \in Ids : run[i].status = "building" <=> i = myRun[p]

(* A selected generation is complete and owns a complete build, whatever   *)
(* candidates failed or were abandoned before and after it.                *)
SelectedCoherent == selected # 0 => CoherentPair(selected)

(* Publication is joint: a complete build belongs to the complete          *)
(* generation that links it, the selected generation is such a pair, and   *)
(* none was completed without being selected.                              *)
PublicationIsJoint ==
  /\ SelectedCoherent
  /\ \A g \in Ids : gen[g].status = "complete" => g <= selected
  /\ \A b \in Ids : build[b].status = "complete" =>
       /\ build[b].gen \in Ids
       /\ gen[build[b].gen] = [status |-> "complete", build |-> b]

(* A run that ends complete or partial names a published generation of its *)
(* own; any other run names none.                                          *)
RunNamesItsPublication ==
  /\ \A i \in Ids :
       run[i].status \in {"complete", "partial"} => CoherentPair(run[i].gen)
  /\ \A i \in Ids : run[i].status \in {"building", "failed"} => run[i].gen = 0
  /\ \A i, j \in Ids : run[i].gen = run[j].gen /\ run[i].gen # 0 => i = j

(* When the exception of a failed index run has left the owner block, the  *)
(* generation it inserted is no longer building.                           *)
FailureSettlesGeneration ==
  \A p \in Procs : pc[p] \in {"leaving", "after", "closing"} /\ myGen[p] # 0 =>
    gen[myGen[p]].status \in {"complete", "failed"}

(* An indexer started from the command line never finds another indexer's  *)
(* corpus in place of the one it published.                                *)
CLIOwnResult == \A p \in CLI : outcome[p] # "mismatch"

(* The final state of a run, a generation or a build is final, whichever   *)
(* error handler or later owner runs; only retention removes a run, and    *)
(* never the newest.                                                       *)
SettledRowsKept ==
  /\ \A i \in Ids : run[i].status \in RunTerminal =>
       run'[i] = run[i] \/ (run'[i].status = "pruned" /\ i # lastRun)
  /\ \A g \in Ids : gen[g].status \in {"complete", "failed"} =>
       gen'[g] = gen[g]
  /\ \A b \in Ids : build[b].status \in {"complete", "failed"} =>
       build'[b] = build[b]

TerminalRowsFrozen == [][SettledRowsKept]_vars

(* "A no-op creates no generation" (docs/architecture/database.md): while  *)
(* a coherent corpus is selected, an indexer that read selected_before     *)
(* under the session lock and found nothing to do inserts none.            *)
CLINoOpCreatesNothing ==
  [][\A p \in CLI :
       InsertGeneration(p) /\ CoherentPair(selected) => changed[p]]_vars

(* A session that waits for the lock gets it, whatever the owners ahead of *)
(* it do, unless it is itself killed.                                      *)
WaiterIsServed ==
  \A p \in CLI : pc[p] = "queued" ~> (pc[p] = "entry" \/ outcome[p] = "crashed")

(* What a reader may see (PublishedCorpus).                                *)
Published == INSTANCE PublishedCorpus WITH
  Generations <- Ids, current <- selected,
  pinned <- [r \in Readers |-> IF snap[r].open THEN snap[r].rows ELSE -1]

(* Readers see the old or the new corpus, each whole, and the selection    *)
(* moves in one step: the ledger implements PublishedCorpus.               *)
ImplementsPublishedCorpus == Published!Spec

-----------------------------------------------------------------------------
(* The inductive invariant behind the safety properties.                   *)

(* The advisory lock has the session that holds it as its owner, and only  *)
(* command-line sessions queue for it.                                     *)
LockInv ==
  \A p \in Procs :
    /\ lock = p <=> Holds(p)
    /\ pc[p] = "queued" => p \in CLI

(* Identity sequences: a row exists iff its id was handed out.             *)
SequenceInv ==
  \A i \in Ids :
    /\ run[i].status = "absent" <=> i > lastRun
    /\ gen[i].status = "absent" <=> i > lastGen
    /\ build[i].status = "absent" <=> i > lastBuild

(* What an owner holds of its candidate at each point of its work.         *)
OwnerOK(p) ==
  /\ pc[p] \in RunPhase \cup {"published", "failRun", "recorded"} =>
       myRun[p] \in Ids
  /\ pc[p] \in RunPhase => run[myRun[p]] = [status |-> "building", gen |-> 0]
  /\ pc[p] = "recorded" => run[myRun[p]].status # "building"
  /\ pc[p] \in GenPhase =>
       /\ myGen[p] \in Ids
       /\ gen[myGen[p]] = [status |-> "building", build |-> 0]
       /\ myGen[p] > selected
  /\ pc[p] \in BuildPhase =>
       /\ myBuild[p] \in Ids
       /\ build[myBuild[p]] = [status |-> "building", gen |-> myGen[p]]

OwnerInv == \A p \in Procs : OwnerOK(p)

(* The current relations and every open snapshot hold a selected corpus.   *)
SnapshotInv ==
  /\ rows = selected
  /\ \A r \in Readers :
       snap[r].open => snap[r].gen = snap[r].rows /\ snap[r].rows # 0

(* A run, pruned ones included, names a generation only once it is         *)
(* published.                                                              *)
RunInv ==
  /\ RunNamesItsPublication
  /\ \A i \in Ids : run[i].gen # 0 =>
       run[i].status \in {"complete", "partial", "pruned"}
         /\ CoherentPair(run[i].gen)

(* What an indexer knows of the selection.  It owns its own publication    *)
(* until it gives the lock up; under the session lock of the command line  *)
(* what was selected before the owner block still is.                      *)
Unstarted == {"idle", "queued", "entry", "owner", "planning", "staging",
              "candidate", "recorded"}
Settling == {"published", "failRun", "leaving", "after", "closing"}
HasPublished(p) ==
  \/ pc[p] \in {"published", "after"}
  \/ pc[p] = "leaving" /\ ~raised[p]
WorkOK(p) ==
  /\ pc[p] \in Unstarted => myGen[p] = 0
  /\ pc[p] \in Unstarted \cup {"projecting", "embedding"} => ~prepared[p]
  /\ pc[p] \in Settling /\ myGen[p] # 0 =>
       gen[myGen[p]].status \in {"complete", "failed"}
  /\ Holds(p) /\ prepared[p] /\ HasPublished(p) =>
       selected = result[p] /\ gen[selected].build = myBuild[p]
  /\ p \in CLI =>
       /\ pc[p] \in {"owner", "planning"} /\ required[p] =>
            ~CoherentPair(selected)
       /\ pc[p] \in {"staging", "candidate"} =>
            changed[p] \/ ~CoherentPair(selected)
       /\ outcome[p] # "mismatch"

WorkInv == \A p \in Procs : WorkOK(p)

(* The strengthening of the properties above that one step preserves.      *)
IInv ==
  /\ TypeOK
  /\ LockInv
  /\ SequenceInv
  /\ OwnerInv
  /\ SoleBuildingRun
  /\ PublicationIsJoint
  /\ SnapshotInv
  /\ RunInv
  /\ WorkInv
=============================================================================
