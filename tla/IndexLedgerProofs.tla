------------------------- MODULE IndexLedgerProofs -------------------------
(***************************************************************************)
(* Proofs about IndexLedger, for any number of indexers, readers and row   *)
(* ids: the inductive invariant IInv, the safety properties that follow    *)
(* from it, and the refinement of PublishedCorpus.                         *)
(*                                                                         *)
(* A lemma named ...Step says that one step preserves one part of IInv.    *)
(* Parts about rows consider the ten actions that write a row (LedgerStep);*)
(* parts about an indexer's control consider every action.                 *)
(***************************************************************************)
EXTENDS IndexLedger, FiniteSetTheorems, TLAPS

USE ProcsAssumption, BoundAssumption

(* FailBuilding keeps the shape of a row.                                  *)
LEMMA FailBuildingRun ==
  ASSUME NEW r \in RunRow
  PROVE  FailBuilding(r) \in RunRow
BY DEF FailBuilding, RunRow

LEMMA FailBuildingGen ==
  ASSUME NEW r \in GenRow
  PROVE  FailBuilding(r) \in GenRow
BY DEF FailBuilding, GenRow

LEMMA FailBuildingBuild ==
  ASSUME NEW r \in BuildRow
  PROVE  FailBuilding(r) \in BuildRow
BY DEF FailBuilding, BuildRow

LEMMA SettledRun ==
  ASSUME NEW r \in RunRow, NEW s \in {"failed", "pruned"}
  PROVE  [r EXCEPT !.status = s] \in RunRow
BY DEF RunRow

(* The steps that write a row; every other step leaves the ledger alone.   *)
LedgerStep ==
  \E p \in Procs :
    \/ StartRun(p) \/ StageNothing(p) \/ InsertGeneration(p)
    \/ InsertBuild(p) \/ EmbedFails(p) \/ Publish(p) \/ MarkBuildFailed(p)
    \/ MarkGenerationFailed(p) \/ RecordRunFailure(p) \/ PruneRuns(p)

LEMMA QuietIndexer ==
  ASSUME NEW p \in Procs,
         \/ Begin(p) \/ AcquireSession(p) \/ ReadSelectedBefore(p)
         \/ EnterOwner(p) \/ LeaveOwner(p) \/ ReadSelectedAfter(p)
         \/ Return(p) \/ Crash(p) \/ PlanFails(p) \/ NoOp(p)
         \/ StageSources(p) \/ StageRaises(p) \/ ProjectionFails(p)
         \/ EmbedDone(p) \/ PublishFails(p)
  PROVE  UNCHANGED ledgerVars
BY DEF Begin, AcquireSession, ReadSelectedBefore, EnterOwner, LeaveOwner,
       ReadSelectedAfter, Return, Crash, PlanFails, NoOp, StageSources,
       StageRaises, ProjectionFails, EmbedDone, PublishFails

LEMMA LedgerSteps ==
  ASSUME [Next]_vars
  PROVE  UNCHANGED ledgerVars \/ LedgerStep
<1>1. ASSUME NEW r \in Readers, OpenRead(r) \/ CloseRead(r)
      PROVE  UNCHANGED ledgerVars
  BY <1>1 DEF OpenRead, CloseRead
<1>2. CASE UNCHANGED vars
  BY <1>2 DEF vars
<1>3. QED
  BY <1>1, <1>2, QuietIndexer DEF Next, Progress, LedgerStep

(* What an owner holds, by the phase it is in.                             *)
LEMMA OwnsRun ==
  ASSUME OwnerInv, NEW p \in Procs, pc[p] \in RunPhase
  PROVE  /\ myRun[p] \in Ids
         /\ run[myRun[p]].status = "building"
         /\ run[myRun[p]].gen = 0
<1>1. myRun[p] \in Ids /\ run[myRun[p]] = [status |-> "building", gen |-> 0]
  BY DEF OwnerInv, OwnerOK
<1>2. QED
  BY <1>1

LEMMA OwnsGeneration ==
  ASSUME OwnerInv, NEW p \in Procs, pc[p] \in GenPhase
  PROVE  /\ myGen[p] \in Ids
         /\ gen[myGen[p]].status = "building"
         /\ gen[myGen[p]].build = 0
         /\ myGen[p] > selected
<1>1. /\ myGen[p] \in Ids
      /\ gen[myGen[p]] = [status |-> "building", build |-> 0]
      /\ myGen[p] > selected
  BY DEF OwnerInv, OwnerOK
<1>2. QED
  BY <1>1

LEMMA OwnsBuild ==
  ASSUME OwnerInv, NEW p \in Procs, pc[p] \in BuildPhase
  PROVE  /\ myBuild[p] \in Ids
         /\ build[myBuild[p]] = [status |-> "building", gen |-> myGen[p]]
BY DEF OwnerInv, OwnerOK

(* An owner excludes every other indexer from the owner block.             *)
LEMMA OthersOutside ==
  ASSUME LockInv, NEW p \in Procs, pc[p] \in Critical,
         NEW q \in Procs, q # p
  PROVE  pc[q] \notin Critical
BY DEF LockInv, Holds

LEMMA OwnerElsewhere ==
  ASSUME LockInv, NEW p \in Procs, pc[p] \in Critical,
         NEW q \in Procs, q # p, pc'[q] = pc[q]
  PROVE  OwnerOK(q)'
<1>1. pc'[q] \notin Critical
  BY OthersOutside
<1>2. QED
  BY <1>1 DEF OwnerOK, Critical, RunPhase, GenPhase, BuildPhase

(* A build that is not complete, before and after, decides nothing.        *)
LEMMA JointKept ==
  ASSUME PublicationIsJoint, NEW b \in Ids,
         build[b].status # "complete", build'[b].status # "complete",
         \A c \in Ids \ {b} : build'[c] = build[c],
         UNCHANGED <<gen, selected>>
  PROVE  PublicationIsJoint'
<1> USE DEF PublicationIsJoint, SelectedCoherent, CoherentPair
<1>1. SelectedCoherent'
  <2>1. selected # 0 => gen[selected].build # b
    OBVIOUS
  <2>2. QED
    BY <2>1
<1>2. \A c \in Ids : build'[c].status = "complete" => build'[c] = build[c]
  OBVIOUS
<1>3. QED
  BY <1>1, <1>2

(* A published generation was inserted before.                             *)
LEMMA SelectedWasInserted ==
  ASSUME TypeOK, SequenceInv, PublicationIsJoint
  PROVE  selected <= lastGen
<1>1. CASE selected = 0
  BY <1>1 DEF TypeOK, LedgerTypeOK
<1>2. CASE selected # 0
  <2>1. selected \in Ids /\ gen[selected].status = "complete"
    BY <1>2 DEF PublicationIsJoint, SelectedCoherent, CoherentPair
  <2>2. ~(selected > lastGen)
    BY <2>1 DEF SequenceInv
  <2>3. QED
    BY <2>2 DEF TypeOK, LedgerTypeOK
<1>3. QED
  BY <1>1, <1>2

LEMMA ControlTypeOKStep ==
  ASSUME TypeOK, [Next]_vars
  PROVE  ControlTypeOK'
<1> USE DEF TypeOK, ControlTypeOK, LedgerTypeOK, Pcs, Critical,
       RunPhase, GenPhase, BuildPhase, SessionPcs, Goto, localVars, idVars,
       runVars, genVars, buildVars, pubVars, ledgerVars
<1>1. ASSUME NEW p \in Procs, Begin(p) PROVE ControlTypeOK'
  BY <1>1 DEF Begin
<1>2. ASSUME NEW p \in Procs, AcquireSession(p) PROVE ControlTypeOK'
  BY <1>2 DEF AcquireSession, CanOwn
<1>3. ASSUME NEW p \in Procs, ReadSelectedBefore(p) PROVE ControlTypeOK'
  BY <1>3 DEF ReadSelectedBefore
<1>4. ASSUME NEW p \in Procs, EnterOwner(p) PROVE ControlTypeOK'
  BY <1>4 DEF EnterOwner, CanOwn
<1>5. ASSUME NEW p \in Procs, LeaveOwner(p) PROVE ControlTypeOK'
  BY <1>5 DEF LeaveOwner, UnlockOnce
<1>6. ASSUME NEW p \in Procs, ReadSelectedAfter(p) PROVE ControlTypeOK'
  BY <1>6 DEF ReadSelectedAfter
<1>7. ASSUME NEW p \in Procs, Return(p) PROVE ControlTypeOK'
  BY <1>7 DEF Return, ReleaseSession, Forget
<1>8. ASSUME NEW p \in Procs, Crash(p) PROVE ControlTypeOK'
  BY <1>8 DEF Crash, ReleaseSession, Forget
<1>9. ASSUME NEW p \in Procs, PlanFails(p) PROVE ControlTypeOK'
  BY <1>9 DEF PlanFails
<1>10. ASSUME NEW p \in Procs, NoOp(p) PROVE ControlTypeOK'
  BY <1>10 DEF NoOp
<1>11. ASSUME NEW p \in Procs, StartRun(p) PROVE ControlTypeOK'
  BY <1>11 DEF StartRun
<1>12. ASSUME NEW p \in Procs, StageSources(p) PROVE ControlTypeOK'
  BY <1>12 DEF StageSources
<1>13. ASSUME NEW p \in Procs, StageNothing(p) PROVE ControlTypeOK'
  BY <1>13 DEF StageNothing
<1>14. ASSUME NEW p \in Procs, StageRaises(p) PROVE ControlTypeOK'
  BY <1>14 DEF StageRaises
<1>15. ASSUME NEW p \in Procs, InsertGeneration(p) PROVE ControlTypeOK'
  BY <1>15 DEF InsertGeneration
<1>16. ASSUME NEW p \in Procs, ProjectionFails(p) PROVE ControlTypeOK'
  BY <1>16 DEF ProjectionFails
<1>17. ASSUME NEW p \in Procs, InsertBuild(p) PROVE ControlTypeOK'
  BY <1>17 DEF InsertBuild
<1>18. ASSUME NEW p \in Procs, EmbedFails(p) PROVE ControlTypeOK'
  BY <1>18 DEF EmbedFails
<1>19. ASSUME NEW p \in Procs, EmbedDone(p) PROVE ControlTypeOK'
  BY <1>19 DEF EmbedDone
<1>20. ASSUME NEW p \in Procs, Publish(p) PROVE ControlTypeOK'
  BY <1>20 DEF Publish, CompleteBuild, CompleteGeneration, Select
<1>21. ASSUME NEW p \in Procs, PublishFails(p) PROVE ControlTypeOK'
  BY <1>21 DEF PublishFails
<1>22. ASSUME NEW p \in Procs, MarkBuildFailed(p) PROVE ControlTypeOK'
  BY <1>22 DEF MarkBuildFailed
<1>23. ASSUME NEW p \in Procs, MarkGenerationFailed(p) PROVE ControlTypeOK'
  BY <1>23 DEF MarkGenerationFailed
<1>24. ASSUME NEW p \in Procs, RecordRunFailure(p) PROVE ControlTypeOK'
  BY <1>24 DEF RecordRunFailure
<1>25. ASSUME NEW p \in Procs, PruneRuns(p) PROVE ControlTypeOK'
  BY <1>25 DEF PruneRuns
<1>26. ASSUME NEW r \in Readers, OpenRead(r) PROVE ControlTypeOK'
  BY <1>26 DEF OpenRead
<1>27. ASSUME NEW r \in Readers, CloseRead(r) PROVE ControlTypeOK'
  BY <1>27 DEF CloseRead
<1>28. CASE UNCHANGED vars
  BY <1>28 DEF vars
<1>29. QED
  BY <1>1, <1>2, <1>3, <1>4, <1>5, <1>6, <1>7, <1>8, <1>9, <1>10, <1>11,
         <1>12, <1>13, <1>14, <1>15, <1>16, <1>17, <1>18, <1>19, <1>20, <1>21,
         <1>22, <1>23, <1>24, <1>25, <1>26, <1>27, <1>28 DEF Next, Progress

LEMMA LedgerTypeOKStep ==
  ASSUME TypeOK, [Next]_vars
  PROVE  LedgerTypeOK'
<1> USE DEF TypeOK, ControlTypeOK, LedgerTypeOK, Ids, Goto, idVars,
       runVars, genVars, buildVars, pubVars
<1>1. CASE UNCHANGED ledgerVars
  BY <1>1 DEF ledgerVars, runVars, genVars, buildVars, pubVars
<1>2. ASSUME NEW p \in Procs, StartRun(p) PROVE LedgerTypeOK'
  <2>1. run' \in [Ids -> RunRow]
    BY <1>2, FailBuildingRun DEF StartRun, RunRow
  <2>9. QED
    BY <1>2, <2>1 DEF StartRun
<1>3. ASSUME NEW p \in Procs, StageNothing(p) PROVE LedgerTypeOK'
  <2>1. \A i \in Ids : run[i] \in RunRow /\ [run[i] EXCEPT !.status = "failed"] \in RunRow
    BY SettledRun
  <2>2. run' \in [Ids -> RunRow]
    BY <1>3, <2>1 DEF StageNothing
  <2>9. QED
    BY <1>3, <2>2 DEF StageNothing
<1>4. ASSUME NEW p \in Procs, InsertGeneration(p) PROVE LedgerTypeOK'
  <2>1. gen' \in [Ids -> GenRow]
    BY <1>4 DEF InsertGeneration, GenRow
  <2>9. QED
    BY <1>4, <2>1 DEF InsertGeneration
<1>5. ASSUME NEW p \in Procs, InsertBuild(p) PROVE LedgerTypeOK'
  <2>1. build' \in [Ids -> BuildRow]
    BY <1>5 DEF InsertBuild, BuildRow
  <2>9. QED
    BY <1>5, <2>1 DEF InsertBuild
<1>6. ASSUME NEW p \in Procs, EmbedFails(p) PROVE LedgerTypeOK'
  BY <1>6, FailBuildingBuild DEF EmbedFails
<1>7. ASSUME NEW p \in Procs, Publish(p) PROVE LedgerTypeOK'
  <2>1. run' \in [Ids -> RunRow]
    BY <1>7 DEF Publish, CompleteBuild, CompleteGeneration, Select, RunRow
  <2>2. gen' \in [Ids -> GenRow]
    BY <1>7 DEF Publish, CompleteBuild, CompleteGeneration, Select, GenRow
  <2>3. build' \in [Ids -> BuildRow]
    BY <1>7 DEF Publish, CompleteBuild, CompleteGeneration, Select, BuildRow
  <2>9. QED
    BY <1>7, <2>1, <2>2, <2>3 DEF Publish, CompleteBuild,
           CompleteGeneration, Select
<1>8. ASSUME NEW p \in Procs, MarkBuildFailed(p) PROVE LedgerTypeOK'
  BY <1>8, FailBuildingBuild DEF MarkBuildFailed
<1>9. ASSUME NEW p \in Procs, MarkGenerationFailed(p) PROVE LedgerTypeOK'
  BY <1>9, FailBuildingGen DEF MarkGenerationFailed
<1>10. ASSUME NEW p \in Procs, RecordRunFailure(p) PROVE LedgerTypeOK'
  BY <1>10, FailBuildingRun DEF RecordRunFailure
<1>11. ASSUME NEW p \in Procs, PruneRuns(p) PROVE LedgerTypeOK'
  <2>1. \A i \in Ids : run[i] \in RunRow /\ [run[i] EXCEPT !.status = "pruned"] \in RunRow
    BY SettledRun
  <2>2. run' \in [Ids -> RunRow]
    BY <1>11, <2>1 DEF PruneRuns
  <2>9. QED
    BY <1>11, <2>2 DEF PruneRuns
<1>12. QED
  BY <1>1, <1>2, <1>3, <1>4, <1>5, <1>6, <1>7, <1>8, <1>9, <1>10, <1>11,
         LedgerSteps
     DEF LedgerStep

LEMMA SequenceStep ==
  ASSUME TypeOK, SequenceInv, OwnerInv, [Next]_vars
  PROVE  SequenceInv'
<1> USE DEF TypeOK, ControlTypeOK, LedgerTypeOK, SequenceInv, OwnerInv,
       Ids, Critical, RunPhase, GenPhase, BuildPhase, Goto, runVars, genVars,
       buildVars
<1>1. CASE UNCHANGED ledgerVars
  BY <1>1 DEF ledgerVars
<1>2. ASSUME NEW p \in Procs, StartRun(p) PROVE SequenceInv'
  <2>1. \A i \in Ids : (run[i].status = "absent" <=> i > lastRun)'
    <3>1. \A i \in Ids : i # lastRun + 1 => run'[i] = FailBuilding(run[i])
      BY <1>2 DEF StartRun
    <3>2. run'[lastRun + 1].status = "building" /\ lastRun' = lastRun + 1
      BY <1>2 DEF StartRun
    <3>3. \A row \in RunRow :
            FailBuilding(row).status = "absent" <=> row.status = "absent"
      BY DEF RunRow, FailBuilding
    <3>4. \A i \in Ids : run[i] \in RunRow
      OBVIOUS
    <3>5. \A i \in Ids : i # lastRun + 1 =>
            (run'[i].status = "absent" <=> i > lastRun)
      BY <3>1, <3>3, <3>4
    <3>6. ASSUME NEW i \in Ids
          PROVE  run'[i].status = "absent" <=> i > lastRun'
      <4>1. CASE i = lastRun + 1
        BY <3>2, <4>1
      <4>2. CASE i # lastRun + 1
        BY <3>2, <3>5, <4>2
      <4>3. QED
        BY <4>1, <4>2
    <3>7. QED
      BY <3>6
  <2>2. \A i \in Ids : (gen[i].status = "absent" <=> i > lastGen)'
    BY <1>2 DEF StartRun
  <2>3. \A i \in Ids : (build[i].status = "absent" <=> i > lastBuild)'
    BY <1>2 DEF StartRun
  <2>9. QED
    BY <2>1, <2>2, <2>3
<1>3. ASSUME NEW p \in Procs, StageNothing(p) PROVE SequenceInv'
  <2>0. pc[p] = "staging"
    BY <1>3 DEF StageNothing
  <2>1. myRun[p] \in Ids /\ run[myRun[p]].status = "building"
    BY <2>0, OwnsRun DEF RunPhase
  <2>2. run' = [run EXCEPT ![myRun[p]].status = "failed"]
    BY <1>3 DEF StageNothing
  <2>3. \A i \in Ids : run'[i].status = "absent" <=> run[i].status = "absent"
    BY <2>1, <2>2 DEF RunRow
  <2>9. QED
    BY <1>3, <2>3 DEF StageNothing
<1>4. ASSUME NEW p \in Procs, InsertGeneration(p) PROVE SequenceInv'
  <2>1. \A i \in Ids : (run[i].status = "absent" <=> i > lastRun)'
    BY <1>4 DEF InsertGeneration
  <2>2. \A i \in Ids : (gen[i].status = "absent" <=> i > lastGen)'
    BY <1>4 DEF InsertGeneration, GenRow, FailBuilding
  <2>3. \A i \in Ids : (build[i].status = "absent" <=> i > lastBuild)'
    BY <1>4 DEF InsertGeneration
  <2>9. QED
    BY <2>1, <2>2, <2>3
<1>5. ASSUME NEW p \in Procs, InsertBuild(p) PROVE SequenceInv'
  <2>1. \A i \in Ids : (run[i].status = "absent" <=> i > lastRun)'
    BY <1>5 DEF InsertBuild
  <2>2. \A i \in Ids : (gen[i].status = "absent" <=> i > lastGen)'
    BY <1>5 DEF InsertBuild
  <2>3. \A i \in Ids : (build[i].status = "absent" <=> i > lastBuild)'
    BY <1>5 DEF InsertBuild, BuildRow, FailBuilding
  <2>9. QED
    BY <2>1, <2>2, <2>3
<1>6. ASSUME NEW p \in Procs, EmbedFails(p) PROVE SequenceInv'
  <2>1. \A i \in Ids : (run[i].status = "absent" <=> i > lastRun)'
    BY <1>6 DEF EmbedFails
  <2>2. \A i \in Ids : (gen[i].status = "absent" <=> i > lastGen)'
    BY <1>6 DEF EmbedFails
  <2>3. \A i \in Ids : (build[i].status = "absent" <=> i > lastBuild)'
    BY <1>6 DEF EmbedFails, BuildRow, FailBuilding
  <2>9. QED
    BY <2>1, <2>2, <2>3
<1>7. ASSUME NEW p \in Procs, Publish(p) PROVE SequenceInv'
  <2>1. \A i \in Ids : (run[i].status = "absent" <=> i > lastRun)'
    <3>1. pc[p] = "publishing"
      BY <1>7 DEF Publish, CompleteBuild, CompleteGeneration, Select
    <3>2. myRun[p] \in Ids /\ run[myRun[p]].status # "absent"
      BY <3>1, OwnsRun
    <3>3. PICK s \in {"partial", "complete"} :
            run' = [run EXCEPT ![myRun[p]] = [status |-> s, gen |-> myGen[p]]]
      BY <1>7 DEF Publish, CompleteBuild, CompleteGeneration, Select
    <3>4. \A i \in Ids : run'[i].status = "absent" <=> run[i].status = "absent"
      BY <3>2, <3>3
    <3>5. QED
      BY <1>7, <3>4 DEF Publish, CompleteBuild, CompleteGeneration, Select
  <2>2. \A i \in Ids : (gen[i].status = "absent" <=> i > lastGen)'
    BY <1>7 DEF Publish, CompleteBuild, CompleteGeneration, Select,
           GenRow, FailBuilding
  <2>3. \A i \in Ids : (build[i].status = "absent" <=> i > lastBuild)'
    BY <1>7 DEF Publish, CompleteBuild, CompleteGeneration, Select,
           BuildRow, FailBuilding
  <2>9. QED
    BY <2>1, <2>2, <2>3
<1>8. ASSUME NEW p \in Procs, MarkBuildFailed(p) PROVE SequenceInv'
  <2>1. \A i \in Ids : (run[i].status = "absent" <=> i > lastRun)'
    BY <1>8 DEF MarkBuildFailed
  <2>2. \A i \in Ids : (gen[i].status = "absent" <=> i > lastGen)'
    BY <1>8 DEF MarkBuildFailed
  <2>3. \A i \in Ids : (build[i].status = "absent" <=> i > lastBuild)'
    BY <1>8 DEF MarkBuildFailed, BuildRow, FailBuilding
  <2>9. QED
    BY <2>1, <2>2, <2>3
<1>9. ASSUME NEW p \in Procs, MarkGenerationFailed(p) PROVE SequenceInv'
  <2>1. \A i \in Ids : (run[i].status = "absent" <=> i > lastRun)'
    BY <1>9 DEF MarkGenerationFailed
  <2>2. \A i \in Ids : (gen[i].status = "absent" <=> i > lastGen)'
    BY <1>9 DEF MarkGenerationFailed, GenRow, FailBuilding
  <2>3. \A i \in Ids : (build[i].status = "absent" <=> i > lastBuild)'
    BY <1>9 DEF MarkGenerationFailed
  <2>9. QED
    BY <2>1, <2>2, <2>3
<1>10. ASSUME NEW p \in Procs, RecordRunFailure(p) PROVE SequenceInv'
  <2>1. \A i \in Ids : (run[i].status = "absent" <=> i > lastRun)'
    BY <1>10 DEF RecordRunFailure, RunRow, FailBuilding
  <2>2. \A i \in Ids : (gen[i].status = "absent" <=> i > lastGen)'
    BY <1>10 DEF RecordRunFailure
  <2>3. \A i \in Ids : (build[i].status = "absent" <=> i > lastBuild)'
    BY <1>10 DEF RecordRunFailure
  <2>9. QED
    BY <2>1, <2>2, <2>3
<1>11. ASSUME NEW p \in Procs, PruneRuns(p) PROVE SequenceInv'
  <2>1. \A i \in Ids : (run[i].status = "absent" <=> i > lastRun)'
    BY <1>11 DEF PruneRuns, RunRow, FailBuilding, Prunable, RunTerminal
  <2>2. \A i \in Ids : (gen[i].status = "absent" <=> i > lastGen)'
    BY <1>11 DEF PruneRuns
  <2>3. \A i \in Ids : (build[i].status = "absent" <=> i > lastBuild)'
    BY <1>11 DEF PruneRuns
  <2>9. QED
    BY <2>1, <2>2, <2>3
<1>12. QED
  BY <1>1, <1>2, <1>3, <1>4, <1>5, <1>6, <1>7, <1>8, <1>9, <1>10, <1>11,
         LedgerSteps
     DEF LedgerStep

LEMMA LockStep ==
  ASSUME TypeOK, LockInv, [Next]_vars
  PROVE  LockInv'
<1> USE DEF TypeOK, ControlTypeOK, LockInv, Holds, Critical, RunPhase,
       GenPhase, BuildPhase, SessionPcs, Goto
<1>1. ASSUME NEW p \in Procs, Begin(p) PROVE LockInv'
  BY <1>1 DEF Begin
<1>2. ASSUME NEW p \in Procs, AcquireSession(p) PROVE LockInv'
  BY <1>2 DEF AcquireSession, CanOwn
<1>3. ASSUME NEW p \in Procs, ReadSelectedBefore(p) PROVE LockInv'
  BY <1>3 DEF ReadSelectedBefore
<1>4. ASSUME NEW p \in Procs, EnterOwner(p) PROVE LockInv'
  BY <1>4 DEF EnterOwner, CanOwn
<1>5. ASSUME NEW p \in Procs, LeaveOwner(p) PROVE LockInv'
  BY <1>5 DEF LeaveOwner, UnlockOnce
<1>6. ASSUME NEW p \in Procs, ReadSelectedAfter(p) PROVE LockInv'
  BY <1>6 DEF ReadSelectedAfter
<1>7. ASSUME NEW p \in Procs, Return(p) PROVE LockInv'
  <2>1. pc' = [pc EXCEPT ![p] = "idle"] /\ lock' = IF lock = p THEN NoProc ELSE lock
    BY <1>7 DEF Return, ReleaseSession
  <2>2. pc'[p] = "idle"
    BY <2>1
  <2>3. ASSUME NEW q \in Procs, q # p PROVE lock' = q <=> lock = q
    BY <2>1, <2>3
  <2>4. lock' # p
    BY <2>1
  <2>9. QED
    BY <2>1, <2>2, <2>3, <2>4
<1>8. ASSUME NEW p \in Procs, Crash(p) PROVE LockInv'
  <2>1. pc' = [pc EXCEPT ![p] = "idle"] /\ lock' = IF lock = p THEN NoProc ELSE lock
    BY <1>8 DEF Crash, ReleaseSession
  <2>2. pc'[p] = "idle"
    BY <2>1
  <2>3. ASSUME NEW q \in Procs, q # p PROVE lock' = q <=> lock = q
    BY <2>1, <2>3
  <2>4. lock' # p
    BY <2>1
  <2>9. QED
    BY <2>1, <2>2, <2>3, <2>4
<1>9. ASSUME NEW p \in Procs, PlanFails(p) PROVE LockInv'
  BY <1>9 DEF PlanFails
<1>10. ASSUME NEW p \in Procs, NoOp(p) PROVE LockInv'
  BY <1>10 DEF NoOp
<1>11. ASSUME NEW p \in Procs, StartRun(p) PROVE LockInv'
  BY <1>11 DEF StartRun
<1>12. ASSUME NEW p \in Procs, StageSources(p) PROVE LockInv'
  BY <1>12 DEF StageSources
<1>13. ASSUME NEW p \in Procs, StageNothing(p) PROVE LockInv'
  BY <1>13 DEF StageNothing
<1>14. ASSUME NEW p \in Procs, StageRaises(p) PROVE LockInv'
  BY <1>14 DEF StageRaises
<1>15. ASSUME NEW p \in Procs, InsertGeneration(p) PROVE LockInv'
  BY <1>15 DEF InsertGeneration
<1>16. ASSUME NEW p \in Procs, ProjectionFails(p) PROVE LockInv'
  BY <1>16 DEF ProjectionFails
<1>17. ASSUME NEW p \in Procs, InsertBuild(p) PROVE LockInv'
  BY <1>17 DEF InsertBuild
<1>18. ASSUME NEW p \in Procs, EmbedFails(p) PROVE LockInv'
  BY <1>18 DEF EmbedFails
<1>19. ASSUME NEW p \in Procs, EmbedDone(p) PROVE LockInv'
  BY <1>19 DEF EmbedDone
<1>20. ASSUME NEW p \in Procs, Publish(p) PROVE LockInv'
  BY <1>20 DEF Publish, CompleteBuild, CompleteGeneration, Select
<1>21. ASSUME NEW p \in Procs, PublishFails(p) PROVE LockInv'
  BY <1>21 DEF PublishFails
<1>22. ASSUME NEW p \in Procs, MarkBuildFailed(p) PROVE LockInv'
  BY <1>22 DEF MarkBuildFailed
<1>23. ASSUME NEW p \in Procs, MarkGenerationFailed(p) PROVE LockInv'
  BY <1>23 DEF MarkGenerationFailed
<1>24. ASSUME NEW p \in Procs, RecordRunFailure(p) PROVE LockInv'
  BY <1>24 DEF RecordRunFailure
<1>25. ASSUME NEW p \in Procs, PruneRuns(p) PROVE LockInv'
  BY <1>25 DEF PruneRuns
<1>26. ASSUME NEW r \in Readers, OpenRead(r) PROVE LockInv'
  BY <1>26 DEF OpenRead
<1>27. ASSUME NEW r \in Readers, CloseRead(r) PROVE LockInv'
  BY <1>27 DEF CloseRead
<1>28. CASE UNCHANGED vars
  BY <1>28 DEF vars
<1>29. QED
  BY <1>1, <1>2, <1>3, <1>4, <1>5, <1>6, <1>7, <1>8, <1>9, <1>10, <1>11,
         <1>12, <1>13, <1>14, <1>15, <1>16, <1>17, <1>18, <1>19, <1>20, <1>21,
         <1>22, <1>23, <1>24, <1>25, <1>26, <1>27, <1>28 DEF Next, Progress

LEMMA SoleStep ==
  ASSUME TypeOK, LockInv, OwnerInv, SequenceInv, SoleBuildingRun, [Next]_vars
  PROVE  SoleBuildingRun'
<1> USE DEF TypeOK, ControlTypeOK, LedgerTypeOK, LockInv, Holds,
       OwnerInv, OwnerOK, SequenceInv, SoleBuildingRun, Ids, FailBuilding,
       RunRow, Critical, RunPhase, GenPhase, BuildPhase, Goto, localVars,
       idVars, runVars, genVars, buildVars, pubVars, ledgerVars
<1>1. ASSUME NEW p \in Procs, Begin(p) PROVE SoleBuildingRun'
  BY <1>1 DEF Begin
<1>2. ASSUME NEW p \in Procs, AcquireSession(p) PROVE SoleBuildingRun'
  BY <1>2 DEF AcquireSession, CanOwn
<1>3. ASSUME NEW p \in Procs, ReadSelectedBefore(p) PROVE SoleBuildingRun'
  BY <1>3 DEF ReadSelectedBefore
<1>4. ASSUME NEW p \in Procs, EnterOwner(p) PROVE SoleBuildingRun'
  BY <1>4 DEF EnterOwner, CanOwn
<1>5. ASSUME NEW p \in Procs, LeaveOwner(p) PROVE SoleBuildingRun'
  BY <1>5 DEF LeaveOwner, UnlockOnce
<1>6. ASSUME NEW p \in Procs, ReadSelectedAfter(p) PROVE SoleBuildingRun'
  BY <1>6 DEF ReadSelectedAfter
<1>7. ASSUME NEW p \in Procs, Return(p) PROVE SoleBuildingRun'
  BY <1>7 DEF Return, ReleaseSession, Forget
<1>8. ASSUME NEW p \in Procs, Crash(p) PROVE SoleBuildingRun'
  BY <1>8 DEF Crash, ReleaseSession, Forget
<1>9. ASSUME NEW p \in Procs, PlanFails(p) PROVE SoleBuildingRun'
  BY <1>9 DEF PlanFails
<1>10. ASSUME NEW p \in Procs, NoOp(p) PROVE SoleBuildingRun'
  BY <1>10 DEF NoOp
<1>11. ASSUME NEW p \in Procs, StartRun(p) PROVE SoleBuildingRun'
  BY <1>11 DEF StartRun
<1>12. ASSUME NEW p \in Procs, StageSources(p) PROVE SoleBuildingRun'
  BY <1>12 DEF StageSources
<1>13. ASSUME NEW p \in Procs, StageNothing(p) PROVE SoleBuildingRun'
  BY <1>13 DEF StageNothing
<1>14. ASSUME NEW p \in Procs, StageRaises(p) PROVE SoleBuildingRun'
  BY <1>14 DEF StageRaises
<1>15. ASSUME NEW p \in Procs, InsertGeneration(p) PROVE SoleBuildingRun'
  BY <1>15 DEF InsertGeneration
<1>16. ASSUME NEW p \in Procs, ProjectionFails(p) PROVE SoleBuildingRun'
  BY <1>16 DEF ProjectionFails
<1>17. ASSUME NEW p \in Procs, InsertBuild(p) PROVE SoleBuildingRun'
  BY <1>17 DEF InsertBuild
<1>18. ASSUME NEW p \in Procs, EmbedFails(p) PROVE SoleBuildingRun'
  BY <1>18 DEF EmbedFails
<1>19. ASSUME NEW p \in Procs, EmbedDone(p) PROVE SoleBuildingRun'
  BY <1>19 DEF EmbedDone
<1>20. ASSUME NEW p \in Procs, Publish(p) PROVE SoleBuildingRun'
  BY <1>20 DEF Publish, CompleteBuild, CompleteGeneration, Select
<1>21. ASSUME NEW p \in Procs, PublishFails(p) PROVE SoleBuildingRun'
  BY <1>21 DEF PublishFails
<1>22. ASSUME NEW p \in Procs, MarkBuildFailed(p) PROVE SoleBuildingRun'
  BY <1>22 DEF MarkBuildFailed
<1>23. ASSUME NEW p \in Procs, MarkGenerationFailed(p) PROVE SoleBuildingRun'
  BY <1>23 DEF MarkGenerationFailed
<1>24. ASSUME NEW p \in Procs, RecordRunFailure(p) PROVE SoleBuildingRun'
  BY <1>24 DEF RecordRunFailure
<1>25. ASSUME NEW p \in Procs, PruneRuns(p) PROVE SoleBuildingRun'
  BY <1>25 DEF PruneRuns, Prunable, RunTerminal
<1>26. ASSUME NEW r \in Readers, OpenRead(r) PROVE SoleBuildingRun'
  BY <1>26 DEF OpenRead
<1>27. ASSUME NEW r \in Readers, CloseRead(r) PROVE SoleBuildingRun'
  BY <1>27 DEF CloseRead
<1>28. CASE UNCHANGED vars
  BY <1>28 DEF vars
<1>29. QED
  BY <1>1, <1>2, <1>3, <1>4, <1>5, <1>6, <1>7, <1>8, <1>9, <1>10, <1>11,
         <1>12, <1>13, <1>14, <1>15, <1>16, <1>17, <1>18, <1>19, <1>20, <1>21,
         <1>22, <1>23, <1>24, <1>25, <1>26, <1>27, <1>28 DEF Next, Progress

LEMMA OwnerStep ==
  ASSUME TypeOK, LockInv, SequenceInv, OwnerInv, PublicationIsJoint,
         [Next]_vars
  PROVE  OwnerInv'
<1> USE DEF TypeOK, ControlTypeOK, LedgerTypeOK, OwnerInv, OwnerOK,
       SequenceInv, Ids, Critical, RunPhase, GenPhase, BuildPhase, Goto,
       localVars, idVars, runVars, genVars, buildVars, pubVars, ledgerVars
<1>1. ASSUME NEW p \in Procs, Begin(p) PROVE OwnerInv'
  BY <1>1 DEF Begin
<1>2. ASSUME NEW p \in Procs, AcquireSession(p) PROVE OwnerInv'
  BY <1>2 DEF AcquireSession, CanOwn
<1>3. ASSUME NEW p \in Procs, ReadSelectedBefore(p) PROVE OwnerInv'
  BY <1>3 DEF ReadSelectedBefore
<1>4. ASSUME NEW p \in Procs, EnterOwner(p) PROVE OwnerInv'
  BY <1>4 DEF EnterOwner, CanOwn
<1>5. ASSUME NEW p \in Procs, LeaveOwner(p) PROVE OwnerInv'
  <2>1. pc[p] \in Critical
    BY <1>5 DEF LeaveOwner, UnlockOnce
  <2>2. OwnerOK(p)'
    BY <1>5 DEF LeaveOwner, UnlockOnce
  <2>3. ASSUME NEW q \in Procs, q # p PROVE OwnerOK(q)'
    <3>1. pc'[q] = pc[q]
      BY <1>5, <2>3 DEF LeaveOwner, UnlockOnce
    <3>2. QED
      BY <2>1, <2>3, <3>1, OwnerElsewhere
  <2>9. QED
    BY <2>2, <2>3
<1>6. ASSUME NEW p \in Procs, ReadSelectedAfter(p) PROVE OwnerInv'
  BY <1>6 DEF ReadSelectedAfter
<1>7. ASSUME NEW p \in Procs, Return(p) PROVE OwnerInv'
  BY <1>7 DEF Return, ReleaseSession, Forget
<1>8. ASSUME NEW p \in Procs, Crash(p) PROVE OwnerInv'
  BY <1>8 DEF Crash, ReleaseSession, Forget
<1>9. ASSUME NEW p \in Procs, PlanFails(p) PROVE OwnerInv'
  <2>1. pc[p] \in Critical
    BY <1>9 DEF PlanFails
  <2>2. OwnerOK(p)'
    BY <1>9 DEF PlanFails
  <2>3. ASSUME NEW q \in Procs, q # p PROVE OwnerOK(q)'
    <3>1. pc'[q] = pc[q]
      BY <1>9, <2>3 DEF PlanFails
    <3>2. QED
      BY <2>1, <2>3, <3>1, OwnerElsewhere
  <2>9. QED
    BY <2>2, <2>3
<1>10. ASSUME NEW p \in Procs, NoOp(p) PROVE OwnerInv'
  <2>1. pc[p] \in Critical
    BY <1>10 DEF NoOp
  <2>2. OwnerOK(p)'
    BY <1>10 DEF NoOp
  <2>3. ASSUME NEW q \in Procs, q # p PROVE OwnerOK(q)'
    <3>1. pc'[q] = pc[q]
      BY <1>10, <2>3 DEF NoOp
    <3>2. QED
      BY <2>1, <2>3, <3>1, OwnerElsewhere
  <2>9. QED
    BY <2>2, <2>3
<1>11. ASSUME NEW p \in Procs, StartRun(p) PROVE OwnerInv'
  <2>1. pc[p] \in Critical
    BY <1>11 DEF StartRun
  <2>2. OwnerOK(p)'
    BY <1>11 DEF StartRun
  <2>3. ASSUME NEW q \in Procs, q # p PROVE OwnerOK(q)'
    <3>1. pc'[q] = pc[q]
      BY <1>11, <2>3 DEF StartRun
    <3>2. QED
      BY <2>1, <2>3, <3>1, OwnerElsewhere
  <2>9. QED
    BY <2>2, <2>3
<1>12. ASSUME NEW p \in Procs, StageSources(p) PROVE OwnerInv'
  <2>1. pc[p] \in Critical
    BY <1>12 DEF StageSources
  <2>2. OwnerOK(p)'
    BY <1>12 DEF StageSources
  <2>3. ASSUME NEW q \in Procs, q # p PROVE OwnerOK(q)'
    <3>1. pc'[q] = pc[q]
      BY <1>12, <2>3 DEF StageSources
    <3>2. QED
      BY <2>1, <2>3, <3>1, OwnerElsewhere
  <2>9. QED
    BY <2>2, <2>3
<1>13. ASSUME NEW p \in Procs, StageNothing(p) PROVE OwnerInv'
  <2>1. pc[p] \in Critical
    BY <1>13 DEF StageNothing
  <2>2. OwnerOK(p)'
    <3>1. myRun[p] \in Ids /\ run \in [Ids -> RunRow]
      BY <1>13 DEF StageNothing
    <3>2. /\ run' = [run EXCEPT ![myRun[p]].status = "failed"]
          /\ pc'[p] = "recorded"
          /\ UNCHANGED myRun
      BY <1>13 DEF StageNothing
    <3>3. run'[myRun[p]].status = "failed"
      BY <3>1, <3>2 DEF RunRow
    <3>4. QED
      BY <3>1, <3>2, <3>3
  <2>3. ASSUME NEW q \in Procs, q # p PROVE OwnerOK(q)'
    <3>1. pc'[q] = pc[q]
      BY <1>13, <2>3 DEF StageNothing
    <3>2. QED
      BY <2>1, <2>3, <3>1, OwnerElsewhere
  <2>9. QED
    BY <2>2, <2>3
<1>14. ASSUME NEW p \in Procs, StageRaises(p) PROVE OwnerInv'
  <2>1. pc[p] \in Critical
    BY <1>14 DEF StageRaises
  <2>2. OwnerOK(p)'
    BY <1>14 DEF StageRaises
  <2>3. ASSUME NEW q \in Procs, q # p PROVE OwnerOK(q)'
    <3>1. pc'[q] = pc[q]
      BY <1>14, <2>3 DEF StageRaises
    <3>2. QED
      BY <2>1, <2>3, <3>1, OwnerElsewhere
  <2>9. QED
    BY <2>2, <2>3
<1>15. ASSUME NEW p \in Procs, InsertGeneration(p) PROVE OwnerInv'
  <2>1. pc[p] \in Critical
    BY <1>15 DEF InsertGeneration
  <2>2. OwnerOK(p)'
    <3>1. /\ pc[p] = "candidate" /\ pc'[p] = "projecting"
          /\ lastGen + 1 \in Ids
          /\ gen' = [gen EXCEPT ![lastGen + 1] =
                       [status |-> "building", build |-> 0]]
          /\ myGen' = [myGen EXCEPT ![p] = lastGen + 1]
          /\ UNCHANGED <<run, myRun, selected>>
      BY <1>15 DEF InsertGeneration
    <3>2. myGen'[p] = lastGen + 1 /\ lastGen + 1 > selected
      BY <3>1, SelectedWasInserted
    <3>3. gen'[lastGen + 1] = [status |-> "building", build |-> 0]
      BY <3>1
    <3>4. myRun[p] \in Ids /\ run[myRun[p]] = [status |-> "building", gen |-> 0]
      BY <3>1
    <3>5. QED
      BY <3>1, <3>2, <3>3, <3>4
  <2>3. ASSUME NEW q \in Procs, q # p PROVE OwnerOK(q)'
    <3>1. pc'[q] = pc[q]
      BY <1>15, <2>3 DEF InsertGeneration
    <3>2. QED
      BY <2>1, <2>3, <3>1, OwnerElsewhere
  <2>9. QED
    BY <2>2, <2>3
<1>16. ASSUME NEW p \in Procs, ProjectionFails(p) PROVE OwnerInv'
  <2>1. pc[p] \in Critical
    BY <1>16 DEF ProjectionFails
  <2>2. OwnerOK(p)'
    BY <1>16 DEF ProjectionFails
  <2>3. ASSUME NEW q \in Procs, q # p PROVE OwnerOK(q)'
    <3>1. pc'[q] = pc[q]
      BY <1>16, <2>3 DEF ProjectionFails
    <3>2. QED
      BY <2>1, <2>3, <3>1, OwnerElsewhere
  <2>9. QED
    BY <2>2, <2>3
<1>17. ASSUME NEW p \in Procs, InsertBuild(p) PROVE OwnerInv'
  <2>1. pc[p] \in Critical
    BY <1>17 DEF InsertBuild
  <2>2. OwnerOK(p)'
    BY <1>17 DEF InsertBuild
  <2>3. ASSUME NEW q \in Procs, q # p PROVE OwnerOK(q)'
    <3>1. pc'[q] = pc[q]
      BY <1>17, <2>3 DEF InsertBuild
    <3>2. QED
      BY <2>1, <2>3, <3>1, OwnerElsewhere
  <2>9. QED
    BY <2>2, <2>3
<1>18. ASSUME NEW p \in Procs, EmbedFails(p) PROVE OwnerInv'
  <2>1. pc[p] \in Critical
    BY <1>18 DEF EmbedFails
  <2>2. OwnerOK(p)'
    BY <1>18 DEF EmbedFails
  <2>3. ASSUME NEW q \in Procs, q # p PROVE OwnerOK(q)'
    <3>1. pc'[q] = pc[q]
      BY <1>18, <2>3 DEF EmbedFails
    <3>2. QED
      BY <2>1, <2>3, <3>1, OwnerElsewhere
  <2>9. QED
    BY <2>2, <2>3
<1>19. ASSUME NEW p \in Procs, EmbedDone(p) PROVE OwnerInv'
  <2>1. pc[p] \in Critical
    BY <1>19 DEF EmbedDone
  <2>2. OwnerOK(p)'
    BY <1>19 DEF EmbedDone
  <2>3. ASSUME NEW q \in Procs, q # p PROVE OwnerOK(q)'
    <3>1. pc'[q] = pc[q]
      BY <1>19, <2>3 DEF EmbedDone
    <3>2. QED
      BY <2>1, <2>3, <3>1, OwnerElsewhere
  <2>9. QED
    BY <2>2, <2>3
<1>20. ASSUME NEW p \in Procs, Publish(p) PROVE OwnerInv'
  <2>1. pc[p] \in Critical
    BY <1>20 DEF Publish, CompleteBuild, CompleteGeneration, Select
  <2>2. OwnerOK(p)'
    BY <1>20 DEF Publish, CompleteBuild, CompleteGeneration, Select
  <2>3. ASSUME NEW q \in Procs, q # p PROVE OwnerOK(q)'
    <3>1. pc'[q] = pc[q]
      BY <1>20, <2>3 DEF Publish, CompleteBuild, CompleteGeneration, Select
    <3>2. QED
      BY <2>1, <2>3, <3>1, OwnerElsewhere
  <2>9. QED
    BY <2>2, <2>3
<1>21. ASSUME NEW p \in Procs, PublishFails(p) PROVE OwnerInv'
  <2>1. pc[p] \in Critical
    BY <1>21 DEF PublishFails
  <2>2. OwnerOK(p)'
    BY <1>21 DEF PublishFails
  <2>3. ASSUME NEW q \in Procs, q # p PROVE OwnerOK(q)'
    <3>1. pc'[q] = pc[q]
      BY <1>21, <2>3 DEF PublishFails
    <3>2. QED
      BY <2>1, <2>3, <3>1, OwnerElsewhere
  <2>9. QED
    BY <2>2, <2>3
<1>22. ASSUME NEW p \in Procs, MarkBuildFailed(p) PROVE OwnerInv'
  <2>1. pc[p] \in Critical
    BY <1>22 DEF MarkBuildFailed
  <2>2. OwnerOK(p)'
    BY <1>22 DEF MarkBuildFailed
  <2>3. ASSUME NEW q \in Procs, q # p PROVE OwnerOK(q)'
    <3>1. pc'[q] = pc[q]
      BY <1>22, <2>3 DEF MarkBuildFailed
    <3>2. QED
      BY <2>1, <2>3, <3>1, OwnerElsewhere
  <2>9. QED
    BY <2>2, <2>3
<1>23. ASSUME NEW p \in Procs, MarkGenerationFailed(p) PROVE OwnerInv'
  <2>1. pc[p] \in Critical
    BY <1>23 DEF MarkGenerationFailed
  <2>2. OwnerOK(p)'
    BY <1>23 DEF MarkGenerationFailed
  <2>3. ASSUME NEW q \in Procs, q # p PROVE OwnerOK(q)'
    <3>1. pc'[q] = pc[q]
      BY <1>23, <2>3 DEF MarkGenerationFailed
    <3>2. QED
      BY <2>1, <2>3, <3>1, OwnerElsewhere
  <2>9. QED
    BY <2>2, <2>3
<1>24. ASSUME NEW p \in Procs, RecordRunFailure(p) PROVE OwnerInv'
  <2>1. pc[p] \in Critical
    BY <1>24 DEF RecordRunFailure
  <2>2. OwnerOK(p)'
    BY <1>24 DEF RecordRunFailure
  <2>3. ASSUME NEW q \in Procs, q # p PROVE OwnerOK(q)'
    <3>1. pc'[q] = pc[q]
      BY <1>24, <2>3 DEF RecordRunFailure
    <3>2. QED
      BY <2>1, <2>3, <3>1, OwnerElsewhere
  <2>9. QED
    BY <2>2, <2>3
<1>25. ASSUME NEW p \in Procs, PruneRuns(p) PROVE OwnerInv'
  <2>1. pc[p] \in Critical
    BY <1>25 DEF PruneRuns
  <2>2. OwnerOK(p)'
    BY <1>25 DEF PruneRuns
  <2>3. ASSUME NEW q \in Procs, q # p PROVE OwnerOK(q)'
    <3>1. pc'[q] = pc[q]
      BY <1>25, <2>3 DEF PruneRuns
    <3>2. QED
      BY <2>1, <2>3, <3>1, OwnerElsewhere
  <2>9. QED
    BY <2>2, <2>3
<1>26. ASSUME NEW r \in Readers, OpenRead(r) PROVE OwnerInv'
  BY <1>26 DEF OpenRead
<1>27. ASSUME NEW r \in Readers, CloseRead(r) PROVE OwnerInv'
  BY <1>27 DEF CloseRead
<1>28. CASE UNCHANGED vars
  BY <1>28 DEF vars
<1>29. QED
  BY <1>1, <1>2, <1>3, <1>4, <1>5, <1>6, <1>7, <1>8, <1>9, <1>10, <1>11,
         <1>12, <1>13, <1>14, <1>15, <1>16, <1>17, <1>18, <1>19, <1>20, <1>21,
         <1>22, <1>23, <1>24, <1>25, <1>26, <1>27, <1>28 DEF Next, Progress

LEMMA JointStep ==
  ASSUME TypeOK, LockInv, SequenceInv, OwnerInv, PublicationIsJoint,
         [Next]_vars
  PROVE  PublicationIsJoint'
<1> USE DEF TypeOK, ControlTypeOK, LedgerTypeOK, OwnerInv, OwnerOK,
       SequenceInv, PublicationIsJoint, SelectedCoherent, CoherentPair, Ids,
       FailBuilding, GenRow, BuildRow, Critical, RunPhase, GenPhase,
       BuildPhase, Goto, idVars, runVars, genVars, buildVars, pubVars
<1>1. CASE UNCHANGED ledgerVars
  BY <1>1 DEF ledgerVars
<1>2. ASSUME NEW p \in Procs, StartRun(p) PROVE PublicationIsJoint'
  BY <1>2 DEF StartRun
<1>3. ASSUME NEW p \in Procs, StageNothing(p) PROVE PublicationIsJoint'
  BY <1>3 DEF StageNothing
<1>4. ASSUME NEW p \in Procs, InsertGeneration(p) PROVE PublicationIsJoint'
  BY <1>4 DEF InsertGeneration
<1>5. ASSUME NEW p \in Procs, InsertBuild(p) PROVE PublicationIsJoint'
  <2>1. lastBuild + 1 \in Ids /\ build[lastBuild + 1].status # "complete"
    BY <1>5 DEF InsertBuild
  <2>2. build'[lastBuild + 1].status # "complete"
    BY <1>5, <2>1 DEF InsertBuild
  <2>3. \A c \in Ids \ {lastBuild + 1} : build'[c] = build[c]
    BY <1>5, <2>1 DEF InsertBuild
  <2>4. UNCHANGED <<gen, selected>>
    BY <1>5 DEF InsertBuild
  <2>9. QED
    BY <2>1, <2>2, <2>3, <2>4, JointKept
<1>6. ASSUME NEW p \in Procs, EmbedFails(p) PROVE PublicationIsJoint'
  <2>1. myBuild[p] \in Ids /\ build[myBuild[p]].status # "complete"
    <3>1. pc[p] = "embedding"
      BY <1>6 DEF EmbedFails
    <3>2. /\ myBuild[p] \in Ids
          /\ build[myBuild[p]] = [status |-> "building", gen |-> myGen[p]]
      BY <3>1, OwnsBuild
    <3>3. QED
      BY <3>2
  <2>2. build'[myBuild[p]].status # "complete"
    BY <1>6, <2>1 DEF EmbedFails
  <2>3. \A c \in Ids \ {myBuild[p]} : build'[c] = build[c]
    BY <1>6, <2>1 DEF EmbedFails
  <2>4. UNCHANGED <<gen, selected>>
    BY <1>6 DEF EmbedFails
  <2>9. QED
    BY <2>1, <2>2, <2>3, <2>4, JointKept
<1>7. ASSUME NEW p \in Procs, Publish(p) PROVE PublicationIsJoint'
  <2>1. pc[p] = "publishing"
    BY <1>7 DEF Publish, CompleteBuild, CompleteGeneration, Select
  <2>2. /\ myGen[p] \in Ids
        /\ gen[myGen[p]].status = "building"
        /\ myGen[p] > selected
    BY <2>1, OwnsGeneration
  <2>3. /\ myBuild[p] \in Ids
        /\ build[myBuild[p]] = [status |-> "building", gen |-> myGen[p]]
    BY <2>1, OwnsBuild
  <2>4. gen' = [gen EXCEPT ![myGen[p]] =
                  [status |-> "complete", build |-> myBuild[p]]]
    BY <1>7, <2>2 DEF Publish, CompleteBuild, CompleteGeneration, Select
  <2>5. build' = [build EXCEPT ![myBuild[p]] =
                    [status |-> "complete", gen |-> myGen[p]]]
    <3>1. [[status |-> "building", gen |-> myGen[p]] EXCEPT !.status = "complete"]
            = [status |-> "complete", gen |-> myGen[p]]
      OBVIOUS
    <3>2. build' = [build EXCEPT ![myBuild[p]] =
                      [build[myBuild[p]] EXCEPT !.status = "complete"]]
      BY <1>7, <2>3 DEF Publish, CompleteBuild, CompleteGeneration, Select
    <3>3. QED
      BY <2>3, <3>1, <3>2
  <2>6. selected' = myGen[p]
    BY <1>7 DEF Publish, CompleteBuild, CompleteGeneration, Select
  <2>7. SelectedCoherent'
    BY <2>2, <2>3, <2>4, <2>5, <2>6
  <2>8. \A g \in Ids : gen'[g].status = "complete" => g <= selected'
    BY <2>2, <2>4, <2>6
  <2>9. ASSUME NEW b \in Ids, build'[b].status = "complete"
        PROVE  /\ build'[b].gen \in Ids
               /\ gen'[build'[b].gen] = [status |-> "complete", build |-> b]
    <3>1. CASE b = myBuild[p]
      BY <2>2, <2>3, <2>4, <2>5, <3>1
    <3>2. CASE b # myBuild[p]
      <4>1. build'[b] = build[b]
        BY <2>5, <3>2
      <4>2. /\ build[b].gen \in Ids
            /\ gen[build[b].gen] = [status |-> "complete", build |-> b]
        BY <2>9, <4>1
      <4>3. build[b].gen # myGen[p]
        BY <2>2, <4>2
      <4>4. QED
        BY <2>4, <4>1, <4>2, <4>3
    <3>3. QED
      BY <3>1, <3>2
  <2>10. QED
    BY <2>7, <2>8, <2>9
<1>8. ASSUME NEW p \in Procs, MarkBuildFailed(p) PROVE PublicationIsJoint'
  <2>1. myBuild[p] \in Ids /\ build[myBuild[p]].status # "complete"
    <3>1. pc[p] = "failBuild"
      BY <1>8 DEF MarkBuildFailed
    <3>2. /\ myBuild[p] \in Ids
          /\ build[myBuild[p]] = [status |-> "building", gen |-> myGen[p]]
      BY <3>1, OwnsBuild
    <3>3. QED
      BY <3>2
  <2>2. build'[myBuild[p]].status # "complete"
    BY <1>8, <2>1 DEF MarkBuildFailed
  <2>3. \A c \in Ids \ {myBuild[p]} : build'[c] = build[c]
    BY <1>8, <2>1 DEF MarkBuildFailed
  <2>4. UNCHANGED <<gen, selected>>
    BY <1>8 DEF MarkBuildFailed
  <2>9. QED
    BY <2>1, <2>2, <2>3, <2>4, JointKept
<1>9. ASSUME NEW p \in Procs, MarkGenerationFailed(p) PROVE PublicationIsJoint'
  <2>1. pc[p] = "failGen"
    BY <1>9 DEF MarkGenerationFailed
  <2>2. myGen[p] \in Ids /\ gen[myGen[p]].status = "building"
    BY <2>1, OwnsGeneration
  <2>3. gen'[myGen[p]].status # "complete"
    BY <1>9, <2>2 DEF MarkGenerationFailed
  <2>4. \A g \in Ids \ {myGen[p]} : gen'[g] = gen[g]
    BY <1>9, <2>2 DEF MarkGenerationFailed
  <2>5. UNCHANGED <<build, selected>>
    BY <1>9 DEF MarkGenerationFailed
  <2>6. \A g \in Ids : gen[g].status = "complete" => gen'[g] = gen[g]
    BY <2>2, <2>4
  <2>7. \A g \in Ids : gen'[g].status = "complete" => gen[g].status = "complete"
    BY <2>3, <2>4
  <2>8. SelectedCoherent'
    <3>1. selected # 0 => gen'[selected] = gen[selected]
      BY <2>6
    <3>2. QED
      BY <2>5, <3>1
  <2>9. ASSUME NEW b \in Ids, build'[b].status = "complete"
        PROVE  /\ build'[b].gen \in Ids
               /\ gen'[build'[b].gen] = [status |-> "complete", build |-> b]
    <3>1. /\ build[b].gen \in Ids
          /\ gen[build[b].gen] = [status |-> "complete", build |-> b]
      BY <2>5, <2>9
    <3>2. gen[build[b].gen].status = "complete"
      BY <3>1
    <3>3. QED
      BY <2>5, <2>6, <3>1, <3>2
  <2>10. \A g \in Ids : gen'[g].status = "complete" => g <= selected'
    BY <2>5, <2>7
  <2>11. QED
    BY <2>8, <2>9, <2>10
<1>10. ASSUME NEW p \in Procs, RecordRunFailure(p) PROVE PublicationIsJoint'
  BY <1>10 DEF RecordRunFailure
<1>11. ASSUME NEW p \in Procs, PruneRuns(p) PROVE PublicationIsJoint'
  BY <1>11 DEF PruneRuns
<1>12. QED
  BY <1>1, <1>2, <1>3, <1>4, <1>5, <1>6, <1>7, <1>8, <1>9, <1>10, <1>11,
         LedgerSteps
     DEF LedgerStep

LEMMA SnapSteps ==
  ASSUME [Next]_vars
  PROVE  \/ UNCHANGED snap
         \/ \E r \in Readers : OpenRead(r) \/ CloseRead(r)
<1>1. ASSUME NEW p \in Procs,
             Begin(p) \/ AcquireSession(p) \/ Progress(p) \/ Crash(p)
      PROVE  UNCHANGED snap
  BY <1>1 DEF Progress, Begin, AcquireSession, ReadSelectedBefore,
     EnterOwner, PlanFails, NoOp, StartRun, StageSources, StageNothing,
     StageRaises, InsertGeneration, ProjectionFails, InsertBuild, EmbedFails,
     EmbedDone, Publish, PublishFails, MarkBuildFailed, MarkGenerationFailed,
     RecordRunFailure, PruneRuns, LeaveOwner, ReadSelectedAfter, Return, Crash
<1>2. CASE UNCHANGED vars
  BY <1>2 DEF vars
<1>3. QED
  BY <1>1, <1>2 DEF Next

LEMMA SnapshotStep ==
  ASSUME SnapshotInv, SelectedCoherent, [Next]_vars
  PROVE  SnapshotInv'
<1> USE DEF SnapshotInv, Goto, pubVars
<1>1. CASE UNCHANGED ledgerVars
  <2>1. UNCHANGED <<rows, selected>>
    BY <1>1 DEF ledgerVars, pubVars
  <2>2. ASSUME NEW r \in Readers, OpenRead(r) PROVE SnapshotInv'
    BY <2>1, <2>2 DEF OpenRead, CoherentPair, Ids
  <2>3. ASSUME NEW r \in Readers, CloseRead(r) PROVE SnapshotInv'
    BY <2>1, <2>3 DEF CloseRead
  <2>4. CASE UNCHANGED snap
    BY <2>1, <2>4
  <2>9. QED
    BY <2>2, <2>3, <2>4, SnapSteps
<1>2. ASSUME NEW p \in Procs, StartRun(p) PROVE SnapshotInv'
  BY <1>2 DEF StartRun
<1>3. ASSUME NEW p \in Procs, StageNothing(p) PROVE SnapshotInv'
  BY <1>3 DEF StageNothing
<1>4. ASSUME NEW p \in Procs, InsertGeneration(p) PROVE SnapshotInv'
  BY <1>4 DEF InsertGeneration
<1>5. ASSUME NEW p \in Procs, InsertBuild(p) PROVE SnapshotInv'
  BY <1>5 DEF InsertBuild
<1>6. ASSUME NEW p \in Procs, EmbedFails(p) PROVE SnapshotInv'
  BY <1>6 DEF EmbedFails
<1>7. ASSUME NEW p \in Procs, Publish(p) PROVE SnapshotInv'
  BY <1>7 DEF Publish, CompleteBuild, CompleteGeneration, Select
<1>8. ASSUME NEW p \in Procs, MarkBuildFailed(p) PROVE SnapshotInv'
  BY <1>8 DEF MarkBuildFailed
<1>9. ASSUME NEW p \in Procs, MarkGenerationFailed(p) PROVE SnapshotInv'
  BY <1>9 DEF MarkGenerationFailed
<1>10. ASSUME NEW p \in Procs, RecordRunFailure(p) PROVE SnapshotInv'
  BY <1>10 DEF RecordRunFailure
<1>11. ASSUME NEW p \in Procs, PruneRuns(p) PROVE SnapshotInv'
  BY <1>11 DEF PruneRuns
<1>12. QED
  BY <1>1, <1>2, <1>3, <1>4, <1>5, <1>6, <1>7, <1>8, <1>9, <1>10, <1>11,
         LedgerSteps
     DEF LedgerStep

LEMMA NewerTerminalRun ==
  ASSUME NEW i \in Ids, Prunable(i)
  PROVE  \E j \in Ids : j > i /\ run[j].status \in RunTerminal
<1> DEFINE Newer == {j \in Ids : j > i /\ run[j].status \in RunTerminal}
<1>1. Cardinality(Newer) >= Retained
  BY DEF Prunable
<1>2. Newer # {}
  <2>1. Cardinality({}) = 0
    BY FS_EmptySet
  <2>2. Newer = {} => Cardinality(Newer) = 0
    BY <2>1, Zenon
  <2>3. QED
    BY <1>1, <2>2
<1>3. QED
  BY <1>2

LEMMA SettledStep ==
  ASSUME TypeOK, SequenceInv, OwnerInv, [Next]_vars
  PROVE  SettledRowsKept
<1> USE DEF TypeOK, ControlTypeOK, LedgerTypeOK, SequenceInv,
       SettledRowsKept, RunTerminal, Ids, FailBuilding, Critical, RunPhase,
       GenPhase, BuildPhase, Goto, genVars, buildVars, runVars
<1>1. CASE UNCHANGED ledgerVars
  BY <1>1 DEF ledgerVars
<1>2. ASSUME NEW p \in Procs, StartRun(p) PROVE SettledRowsKept
  BY <1>2 DEF StartRun
<1>3. ASSUME NEW p \in Procs, StageNothing(p) PROVE SettledRowsKept
  <2>1. pc[p] = "staging"
    BY <1>3 DEF StageNothing
  <2>2. myRun[p] \in Ids /\ run[myRun[p]].status = "building"
    BY <2>1, OwnsRun
  <2>9. QED
    BY <1>3, <2>1, <2>2 DEF StageNothing
<1>4. ASSUME NEW p \in Procs, InsertGeneration(p) PROVE SettledRowsKept
  BY <1>4 DEF InsertGeneration
<1>5. ASSUME NEW p \in Procs, InsertBuild(p) PROVE SettledRowsKept
  BY <1>5 DEF InsertBuild
<1>6. ASSUME NEW p \in Procs, EmbedFails(p) PROVE SettledRowsKept
  <2>1. pc[p] = "embedding"
    BY <1>6 DEF EmbedFails
  <2>2. myBuild[p] \in Ids /\ build[myBuild[p]].status = "building"
    <3>1. /\ myBuild[p] \in Ids
          /\ build[myBuild[p]] = [status |-> "building", gen |-> myGen[p]]
      BY <2>1, OwnsBuild
    <3>2. QED
      BY <3>1
  <2>9. QED
    BY <1>6, <2>1, <2>2 DEF EmbedFails
<1>7. ASSUME NEW p \in Procs, Publish(p) PROVE SettledRowsKept
  <2>1. pc[p] = "publishing"
    BY <1>7 DEF Publish, CompleteBuild, CompleteGeneration, Select
  <2>2. myRun[p] \in Ids /\ run[myRun[p]].status = "building"
    BY <2>1, OwnsRun
  <2>3. myGen[p] \in Ids /\ gen[myGen[p]].status = "building"
    BY <2>1, OwnsGeneration
  <2>4. myBuild[p] \in Ids /\ build[myBuild[p]].status = "building"
    <3>1. /\ myBuild[p] \in Ids
          /\ build[myBuild[p]] = [status |-> "building", gen |-> myGen[p]]
      BY <2>1, OwnsBuild
    <3>2. QED
      BY <3>1
  <2>9. QED
    BY <1>7, <2>1, <2>2, <2>3, <2>4 DEF Publish, CompleteBuild,
           CompleteGeneration, Select
<1>8. ASSUME NEW p \in Procs, MarkBuildFailed(p) PROVE SettledRowsKept
  <2>1. pc[p] = "failBuild"
    BY <1>8 DEF MarkBuildFailed
  <2>2. myBuild[p] \in Ids /\ build[myBuild[p]].status = "building"
    <3>1. /\ myBuild[p] \in Ids
          /\ build[myBuild[p]] = [status |-> "building", gen |-> myGen[p]]
      BY <2>1, OwnsBuild
    <3>2. QED
      BY <3>1
  <2>9. QED
    BY <1>8, <2>1, <2>2 DEF MarkBuildFailed
<1>9. ASSUME NEW p \in Procs, MarkGenerationFailed(p) PROVE SettledRowsKept
  <2>1. pc[p] = "failGen"
    BY <1>9 DEF MarkGenerationFailed
  <2>2. myGen[p] \in Ids /\ gen[myGen[p]].status = "building"
    BY <2>1, OwnsGeneration
  <2>9. QED
    BY <1>9, <2>1, <2>2 DEF MarkGenerationFailed
<1>10. ASSUME NEW p \in Procs, RecordRunFailure(p) PROVE SettledRowsKept
  BY <1>10 DEF RecordRunFailure
<1>11. ASSUME NEW p \in Procs, PruneRuns(p) PROVE SettledRowsKept
  <2>1. UNCHANGED <<gen, build>>
    BY <1>11 DEF PruneRuns
  <2>2. ASSUME NEW i \in Ids, Prunable(i)
        PROVE  i # lastRun
    <3>2. PICK j \in Ids : j > i /\ run[j].status \in RunTerminal
      BY <2>2, NewerTerminalRun
    <3>3. ~(j > lastRun)
      BY <3>2
    <3>4. QED
      BY <3>2, <3>3
  <2>3. \A i \in Ids :
          run'[i] = run[i]
            \/ (Prunable(i) /\ run'[i] = [run[i] EXCEPT !.status = "pruned"])
    BY <1>11 DEF PruneRuns
  <2>4. \A i \in Ids : [run[i] EXCEPT !.status = "pruned"].status = "pruned"
    BY DEF RunRow
  <2>9. QED
    BY <2>1, <2>2, <2>3, <2>4
<1>12. QED
  BY <1>1, <1>2, <1>3, <1>4, <1>5, <1>6, <1>7, <1>8, <1>9, <1>10, <1>11,
         LedgerSteps
     DEF LedgerStep

(***************************************************************************)
(* Runs and what they name.                                                *)
(***************************************************************************)

(* RunInv, with the rows as arguments.                                     *)
PairIn(gs, bs, g) ==
  /\ g \in Ids /\ gs[g].status = "complete" /\ gs[g].build \in Ids
  /\ bs[gs[g].build] = [status |-> "complete", gen |-> g]
NamesIn(rs, gs, bs) ==
  /\ \A i \in Ids :
       /\ rs[i].status \in {"complete", "partial"} => rs[i].gen # 0
       /\ rs[i].status \in {"building", "failed"} => rs[i].gen = 0
       /\ rs[i].gen # 0 =>
            /\ rs[i].status \in {"complete", "partial", "pruned"}
            /\ PairIn(gs, bs, rs[i].gen)
  /\ \A i, j \in Ids : rs[i].gen = rs[j].gen /\ rs[i].gen # 0 => i = j

LEMMA RunNames ==
  /\ RunInv <=> NamesIn(run, gen, build)
  /\ RunInv' <=> NamesIn(run', gen', build')
<1>1. /\ \A g : CoherentPair(g) <=> PairIn(gen, build, g)
      /\ \A g : CoherentPair(g)' <=> PairIn(gen', build', g)
  BY DEF CoherentPair, PairIn
<1>2. \A g : PairIn(gen, build, g) \/ PairIn(gen', build', g) => g # 0
  BY DEF PairIn, Ids
<1> HIDE DEF PairIn
<1>3. RunInv <=> NamesIn(run, gen, build)
  BY <1>1, <1>2 DEF RunInv, RunNamesItsPublication, NamesIn
<1>4. RunInv' <=> NamesIn(run', gen', build')
  <2>1. /\ RunNamesItsPublication' <=>
             /\ \A i \in Ids : run'[i].status \in {"complete", "partial"} =>
                   CoherentPair(run[i].gen)'
             /\ \A i \in Ids : run'[i].status \in {"building", "failed"} =>
                   run'[i].gen = 0
             /\ \A i, j \in Ids :
                   run'[i].gen = run'[j].gen /\ run'[i].gen # 0 => i = j
    BY DEF RunNamesItsPublication
  <2>2. \A i \in Ids :
           CoherentPair(run[i].gen)' <=> PairIn(gen', build', run'[i].gen)
    BY DEF CoherentPair, PairIn
  <2>3. QED
    BY <1>2, <2>1, <2>2 DEF RunInv, NamesIn
<1>5. QED
  BY <1>3, <1>4

(* What is complete stays so, whichever step is taken.                     *)
LEMMA PairKept ==
  ASSUME SettledRowsKept
  PROVE  \A g : PairIn(gen, build, g) => PairIn(gen', build', g)
BY DEF PairIn, SettledRowsKept

(* No run changes the generation it names, and only the status of a run    *)
(* that names none, or to pruned.                                          *)
LEMMA RunGensKept ==
  ASSUME SettledRowsKept, RunInv,
         \A i \in Ids :
           /\ run'[i].gen = run[i].gen
           /\ \/ run'[i].status = run[i].status
              \/ run'[i].status = "pruned"
              \/ run'[i].status \in {"building", "failed"} /\ run[i].gen = 0
  PROVE  RunInv'
<1>1. NamesIn(run, gen, build)
  BY RunNames
<1>2. NamesIn(run', gen', build')
  BY <1>1, PairKept DEF NamesIn
<1>3. QED
  BY <1>2, RunNames

(* The generation of a publication is complete, and was named by no run.   *)
LEMMA PublishRun ==
  ASSUME TypeOK, OwnerInv, RunInv, NEW p \in Procs, Publish(p),
         SettledRowsKept
  PROVE  RunInv'
<1> DEFINE r == myRun[p]
           g == myGen[p]
           b == myBuild[p]
<1>1. pc[p] = "publishing"
  BY DEF Publish, Goto
<1>2. /\ r \in Ids /\ g \in Ids /\ b \in Ids
      /\ gen[g].status = "building" /\ gen[g].build = 0
      /\ build[b] = [status |-> "building", gen |-> g]
  BY <1>1, OwnsRun, OwnsGeneration, OwnsBuild
     DEF RunPhase, GenPhase, BuildPhase
<1>3. /\ run \in [Ids -> RunRow] /\ gen \in [Ids -> GenRow]
      /\ build \in [Ids -> BuildRow]
  BY DEF TypeOK, LedgerTypeOK
<1>4. PICK s \in {"partial", "complete"} :
        run' = [run EXCEPT ![r] = [status |-> s, gen |-> g]]
  BY DEF Publish
<1>5. gen'[g] = [status |-> "complete", build |-> b]
  BY <1>2, <1>3 DEF Publish, CompleteGeneration
<1>6. build'[b] = [status |-> "complete", gen |-> g]
  <2>1. build'[b] = [build[b] EXCEPT !.status = "complete"]
    BY <1>2, <1>3 DEF Publish, CompleteBuild
  <2>2. QED
    BY <1>2, <2>1
<1> HIDE DEF r, g, b
<1>7. PairIn(gen', build', g) /\ g # 0
  <2>1. gen'[g].status = "complete" /\ gen'[g].build = b
    BY <1>5
  <2>2. QED
    BY <1>2, <1>6, <2>1 DEF PairIn, Ids
<1>8. NamesIn(run, gen, build)
  BY RunNames
<1>9. \A i \in Ids : run[i].gen # g
  BY <1>2, <1>7, <1>8 DEF NamesIn, PairIn
<1>10. run'[r].gen = g /\ run'[r].status = s
         /\ \A i \in Ids : i # r => run'[i] = run[i]
  BY <1>2, <1>3, <1>4
<1>11. NamesIn(run', gen', build')
  BY <1>7, <1>8, <1>9, <1>10, PairKept DEF NamesIn
<1>12. QED
  BY <1>11, RunNames

LEMMA RunInvStep ==
  ASSUME TypeOK, SequenceInv, OwnerInv, RunInv, [Next]_vars
  PROVE  RunInv'
<1>1. SettledRowsKept /\ NamesIn(run, gen, build)
  BY SettledStep, RunNames
<1>2. run \in [Ids -> RunRow] /\ lastRun \in 0..MaxRuns
  BY DEF TypeOK, LedgerTypeOK
<1>3. CASE UNCHANGED run
  BY <1>1, <1>3, RunGensKept
<1>4. ASSUME NEW p \in Procs, StartRun(p)
      PROVE  RunInv'
  <2>1. ASSUME NEW i \in Ids, i # lastRun + 1
        PROVE  run'[i] = FailBuilding(run[i])
    BY <1>4, <2>1 DEF StartRun
  <2>2. ASSUME NEW i \in Ids, i = lastRun + 1
        PROVE  /\ run'[i].status = "building" /\ run'[i].gen = 0
               /\ run[i].gen = 0
    <3>1. run'[i] = [status |-> "building", gen |-> 0]
      BY <1>4, <2>2 DEF StartRun
    <3>2. run[i].status = "absent"
      BY <1>2, <2>2 DEF SequenceInv
    <3>3. run[i].gen = 0
      BY <1>1, <3>2 DEF NamesIn
    <3>4. QED
      BY <3>1, <3>3
  <2>3. \A i \in Ids : FailBuilding(run[i]).gen = run[i].gen
          /\ \/ FailBuilding(run[i]).status = run[i].status
             \/ FailBuilding(run[i]).status = "failed" /\ run[i].gen = 0
    BY <1>1, <1>2 DEF FailBuilding, RunRow, NamesIn
  <2>4. QED
    BY <1>1, <2>1, <2>2, <2>3, RunGensKept
<1>5. ASSUME NEW p \in Procs, StageNothing(p)
      PROVE  RunInv'
  <2>1. /\ pc[p] = "staging"
        /\ run' = [run EXCEPT ![myRun[p]].status = "failed"]
    BY <1>5 DEF StageNothing, Goto
  <2>2. myRun[p] \in Ids /\ run[myRun[p]].gen = 0
    BY <2>1, OwnsRun DEF RunPhase
  <2>3. \A i \in Ids :
          /\ [run[i] EXCEPT !.status = "failed"].gen = run[i].gen
          /\ [run[i] EXCEPT !.status = "failed"].status = "failed"
    BY <1>2 DEF RunRow
  <2>4. \A i \in Ids :
          \/ run'[i] = run[i]
          \/ i = myRun[p] /\ run'[i] = [run[i] EXCEPT !.status = "failed"]
    BY <1>2, <2>1
  <2>5. \A i \in Ids :
          /\ run'[i].gen = run[i].gen
          /\ \/ run'[i].status = run[i].status
             \/ run'[i].status \in {"building", "failed"} /\ run[i].gen = 0
    BY <2>2, <2>3, <2>4
  <2>6. QED
    BY <1>1, <2>5, RunGensKept
<1>6. ASSUME NEW p \in Procs, RecordRunFailure(p)
      PROVE  RunInv'
  <2>1. run' = [run EXCEPT ![myRun[p]] = FailBuilding(run[myRun[p]])]
    BY <1>6 DEF RecordRunFailure
  <2>2. \A i \in Ids : FailBuilding(run[i]).gen = run[i].gen
          /\ \/ FailBuilding(run[i]).status = run[i].status
             \/ FailBuilding(run[i]).status = "failed" /\ run[i].gen = 0
    BY <1>1, <1>2 DEF FailBuilding, RunRow, NamesIn
  <2>3. \A i \in Ids : run'[i] \in {run[i], FailBuilding(run[i])}
    BY <1>2, <2>1
  <2>4. QED
    BY <1>1, <2>2, <2>3, RunGensKept
<1>7. ASSUME NEW p \in Procs, PruneRuns(p)
      PROVE  RunInv'
  <2>1. \A i \in Ids :
          run'[i] \in {run[i], [run[i] EXCEPT !.status = "pruned"]}
    BY <1>7 DEF PruneRuns
  <2>2. \A i \in Ids : [run[i] EXCEPT !.status = "pruned"].status = "pruned"
          /\ [run[i] EXCEPT !.status = "pruned"].gen = run[i].gen
    BY <1>2 DEF RunRow
  <2>3. QED
    BY <1>1, <2>1, <2>2, RunGensKept
<1>8. ASSUME NEW p \in Procs,
             \/ InsertGeneration(p) \/ InsertBuild(p) \/ EmbedFails(p)
             \/ MarkBuildFailed(p) \/ MarkGenerationFailed(p)
      PROVE  UNCHANGED run
  BY <1>8 DEF InsertGeneration, InsertBuild, EmbedFails, MarkBuildFailed,
     MarkGenerationFailed, runVars
<1>9. QED
  BY <1>1, <1>3, <1>4, <1>5, <1>6, <1>7, <1>8, PublishRun, LedgerSteps
     DEF LedgerStep, ledgerVars, runVars

(***************************************************************************)
(* What an indexer knows.                                                  *)
(***************************************************************************)

(* What an indexer holds in memory.                                        *)
Memory(p) ==
  <<pc[p], required[p], changed[p], prepared[p], raised[p], result[p],
    outcome[p], myGen[p], myBuild[p]>>

(* The indexer of a step, if it is one of an indexer.                      *)
IndexerStep(p) == Begin(p) \/ AcquireSession(p) \/ Progress(p) \/ Crash(p)

(* A step of one indexer leaves the memory of the others alone.            *)
LEMMA MemoryKept ==
  ASSUME TypeOK, NEW q \in Procs, IndexerStep(q), NEW p \in Procs, p # q
  PROVE  UNCHANGED Memory(p)
<1> USE DEF TypeOK, ControlTypeOK, Memory, Goto, localVars, idVars, Forget
<1>1. CASE Begin(q)
  BY <1>1 DEF Begin
<1>2. CASE AcquireSession(q)
  BY <1>2 DEF AcquireSession
<1>3. CASE ReadSelectedBefore(q)
  BY <1>3 DEF ReadSelectedBefore
<1>4. CASE EnterOwner(q)
  BY <1>4 DEF EnterOwner
<1>5. CASE LeaveOwner(q)
  BY <1>5 DEF LeaveOwner
<1>6. CASE ReadSelectedAfter(q)
  BY <1>6 DEF ReadSelectedAfter
<1>7. CASE Return(q)
  BY <1>7 DEF Return
<1>8. CASE Crash(q)
  BY <1>8 DEF Crash
<1>9. CASE PlanFails(q)
  BY <1>9 DEF PlanFails
<1>10. CASE NoOp(q)
  BY <1>10 DEF NoOp
<1>11. CASE StartRun(q)
  BY <1>11 DEF StartRun
<1>12. CASE StageSources(q)
  BY <1>12 DEF StageSources
<1>13. CASE StageNothing(q)
  BY <1>13 DEF StageNothing
<1>14. CASE StageRaises(q)
  BY <1>14 DEF StageRaises
<1>15. CASE InsertGeneration(q)
  BY <1>15 DEF InsertGeneration
<1>16. CASE ProjectionFails(q)
  BY <1>16 DEF ProjectionFails
<1>17. CASE InsertBuild(q)
  BY <1>17 DEF InsertBuild
<1>18. CASE EmbedFails(q)
  BY <1>18 DEF EmbedFails
<1>19. CASE EmbedDone(q)
  BY <1>19 DEF EmbedDone
<1>20. CASE Publish(q)
  BY <1>20 DEF Publish
<1>21. CASE PublishFails(q)
  BY <1>21 DEF PublishFails
<1>22. CASE MarkBuildFailed(q)
  BY <1>22 DEF MarkBuildFailed
<1>23. CASE MarkGenerationFailed(q)
  BY <1>23 DEF MarkGenerationFailed
<1>24. CASE RecordRunFailure(q)
  BY <1>24 DEF RecordRunFailure
<1>25. CASE PruneRuns(q)
  BY <1>25 DEF PruneRuns
<1>26. QED
  BY <1>1, <1>2, <1>3, <1>4, <1>5, <1>6, <1>7, <1>8, <1>9, <1>10, <1>11,
         <1>12, <1>13, <1>14, <1>15, <1>16, <1>17, <1>18, <1>19, <1>20,
         <1>21, <1>22, <1>23, <1>24, <1>25
     DEF IndexerStep, Progress

LEMMA LedgerStepOwns ==
  ASSUME NEW q \in Procs, IndexerStep(q), pc[q] \notin Critical
  PROVE  UNCHANGED ledgerVars
BY QuietIndexer
   DEF IndexerStep, Progress, Goto, Critical, RunPhase, GenPhase, BuildPhase,
       StartRun, StageNothing, InsertGeneration, InsertBuild, EmbedFails,
       Publish, MarkBuildFailed, MarkGenerationFailed, RecordRunFailure,
       PruneRuns

(* An indexer that does not move keeps what it knows: a settled row stays, *)
(* and the ledger is not written under its lock.                           *)
LEMMA WorkElsewhere ==
  ASSUME TypeOK, SettledRowsKept, NEW p \in Procs, WorkOK(p),
         UNCHANGED Memory(p), Holds(p) => UNCHANGED ledgerVars
  PROVE  WorkOK(p)'
<1>1. /\ pc'[p] = pc[p] /\ required'[p] = required[p]
      /\ changed'[p] = changed[p] /\ prepared'[p] = prepared[p]
      /\ raised'[p] = raised[p] /\ result'[p] = result[p]
      /\ outcome'[p] = outcome[p] /\ myGen'[p] = myGen[p]
      /\ myBuild'[p] = myBuild[p]
  BY DEF Memory
<1>2. Holds(p)' <=> Holds(p)
  BY <1>1 DEF Holds
<1>3. pc[p] \in Settling /\ myGen[p] # 0 =>
        gen'[myGen[p]].status \in {"complete", "failed"}
  <2>1. myGen[p] \in 0..MaxRuns
    BY DEF TypeOK, ControlTypeOK
  <2>2. QED
    BY <2>1 DEF WorkOK, SettledRowsKept, Ids
<1>4. Holds(p) => UNCHANGED <<selected, gen, build>>
  BY DEF ledgerVars, genVars, buildVars, pubVars
<1>5. Holds(p) /\ prepared[p] /\ HasPublished(p) =>
        selected' = result[p] /\ gen'[selected'].build = myBuild[p]
  BY <1>4 DEF WorkOK
<1>6. ASSUME p \in CLI, pc[p] \in {"owner", "planning", "staging", "candidate"}
      PROVE  CoherentPair(selected)' <=> CoherentPair(selected)
  <2>1. Holds(p)
    BY <1>6 DEF Holds, SessionPcs, Critical, RunPhase
  <2>2. QED
    BY <1>4, <2>1 DEF CoherentPair
<1>7. HasPublished(p)' <=> HasPublished(p)
  BY <1>1 DEF HasPublished
<1>8. QED
  BY <1>1, <1>2, <1>3, <1>5, <1>6, <1>7 DEF WorkOK


(* The steps of an indexer that leave the ledger alone, ...                *)
LEMMA QuietWork ==
  ASSUME TypeOK, NEW p \in Procs, WorkOK(p),
         \/ Begin(p) \/ AcquireSession(p) \/ ReadSelectedBefore(p)
         \/ EnterOwner(p) \/ LeaveOwner(p) \/ ReadSelectedAfter(p)
         \/ Return(p) \/ Crash(p) \/ PlanFails(p) \/ NoOp(p)
         \/ StageSources(p) \/ StageRaises(p) \/ ProjectionFails(p)
         \/ EmbedDone(p) \/ PublishFails(p)
  PROVE  WorkOK(p)'
<1> DEFINE joined == CoherentPair(selected)
<1>0. UNCHANGED <<selected, gen, build>> /\ joined' = joined
  BY QuietIndexer DEF ledgerVars, genVars, buildVars, pubVars, CoherentPair
<1> HIDE DEF joined
<1> USE <1>0 DEF TypeOK, ControlTypeOK, WorkOK, HasPublished, Unstarted,
       Settling, Holds, Critical, RunPhase, GenPhase, BuildPhase, SessionPcs,
       Goto, localVars, idVars, joined
<1>1. CASE Begin(p)
  BY <1>1 DEF Begin
<1>2. CASE AcquireSession(p)
  BY <1>2 DEF AcquireSession
<1>3. CASE ReadSelectedBefore(p)
  BY <1>3 DEF ReadSelectedBefore
<1>4. CASE EnterOwner(p)
  BY <1>4 DEF EnterOwner
<1>5. CASE LeaveOwner(p)
  BY <1>5 DEF LeaveOwner
<1>6. CASE ReadSelectedAfter(p)
  BY <1>6 DEF ReadSelectedAfter
<1>7. CASE Return(p)
  BY <1>7 DEF Return, Forget
<1>8. CASE Crash(p)
  BY <1>8 DEF Crash, Forget
<1>9. CASE PlanFails(p)
  BY <1>9 DEF PlanFails
<1>10. CASE NoOp(p)
  BY <1>10 DEF NoOp
<1>11. CASE StageSources(p)
  BY <1>11 DEF StageSources
<1>12. CASE StageRaises(p)
  BY <1>12 DEF StageRaises
<1>13. CASE ProjectionFails(p)
  BY <1>13 DEF ProjectionFails
<1>14. CASE EmbedDone(p)
  BY <1>14 DEF EmbedDone
<1>15. CASE PublishFails(p)
  BY <1>15 DEF PublishFails
<1>16. QED
  BY <1>1, <1>2, <1>3, <1>4, <1>5, <1>6, <1>7, <1>8, <1>9, <1>10, <1>11,
         <1>12, <1>13, <1>14, <1>15

(* ... and the ten that write it.                                          *)
LEMMA WritingWork ==
  ASSUME TypeOK, OwnerInv, NEW p \in Procs, WorkOK(p),
         \/ StartRun(p) \/ StageNothing(p) \/ InsertGeneration(p)
         \/ InsertBuild(p) \/ EmbedFails(p) \/ Publish(p)
         \/ MarkBuildFailed(p) \/ MarkGenerationFailed(p)
         \/ RecordRunFailure(p) \/ PruneRuns(p)
  PROVE  WorkOK(p)'
<1> DEFINE joined == CoherentPair(selected)
<1> HIDE DEF joined
<1> USE DEF TypeOK, ControlTypeOK, WorkOK, HasPublished, Unstarted,
       Settling, Holds, Critical, RunPhase, GenPhase, BuildPhase, SessionPcs,
       Goto, localVars, idVars, runVars, genVars, buildVars, pubVars
<1>1. CASE StartRun(p)
  <2>1. joined' = joined
    BY <1>1 DEF StartRun, CoherentPair, joined
  <2>2. QED
    BY <1>1, <2>1 DEF StartRun, joined
<1>2. CASE StageNothing(p)
  BY <1>2 DEF StageNothing
<1>3. CASE InsertGeneration(p)
  BY <1>3 DEF InsertGeneration
<1>4. CASE InsertBuild(p)
  BY <1>4 DEF InsertBuild
<1>5. CASE EmbedFails(p)
  BY <1>5 DEF EmbedFails
<1>6. CASE Publish(p)
  <2>1. /\ pc[p] = "publishing" /\ myGen[p] \in Ids
        /\ gen[myGen[p]].status = "building"
    BY <1>6, OwnsGeneration DEF Publish
  <2>2. gen'[myGen[p]] = [status |-> "complete", build |-> myBuild[p]]
    BY <1>6, <2>1 DEF Publish, CompleteGeneration, LedgerTypeOK
  <2>3. /\ gen'[myGen[p]].status = "complete"
        /\ gen'[myGen[p]].build = myBuild[p]
    BY <2>2
  <2>4. /\ pc'[p] = "published" /\ selected' = myGen[p]
        /\ result'[p] = myGen[p] /\ outcome'[p] = outcome[p]
        /\ UNCHANGED <<myGen, myBuild>>
    BY <1>6 DEF Publish, Select
  <2>5. QED
    BY <2>1, <2>3, <2>4
<1>7. CASE MarkBuildFailed(p)
  BY <1>7 DEF MarkBuildFailed
<1>8. CASE MarkGenerationFailed(p)
  <2>1. /\ pc[p] = "failGen" /\ myGen[p] \in Ids
        /\ gen[myGen[p]].status = "building"
    BY <1>8, OwnsGeneration DEF MarkGenerationFailed
  <2>2. gen'[myGen[p]] = [gen[myGen[p]] EXCEPT !.status = "failed"]
    BY <1>8, <2>1 DEF MarkGenerationFailed, FailBuilding, LedgerTypeOK
  <2>3. gen'[myGen[p]].status = "failed"
    BY <2>1, <2>2 DEF LedgerTypeOK, GenRow
  <2>4. /\ pc'[p] = "failRun" /\ outcome'[p] = outcome[p]
        /\ UNCHANGED <<myGen>>
    BY <1>8 DEF MarkGenerationFailed
  <2>5. QED
    BY <2>1, <2>3, <2>4
<1>9. CASE RecordRunFailure(p)
  BY <1>9 DEF RecordRunFailure
<1>10. CASE PruneRuns(p)
  BY <1>10 DEF PruneRuns
<1>11. QED
  BY <1>1, <1>2, <1>3, <1>4, <1>5, <1>6, <1>7, <1>8, <1>9, <1>10

LEMMA WorkStep ==
  ASSUME TypeOK, LockInv, SequenceInv, OwnerInv, WorkInv, [Next]_vars
  PROVE  WorkInv'
<1>1. SettledRowsKept
  BY SettledStep
<1>2. ASSUME NEW q \in Procs, IndexerStep(q), NEW p \in Procs
      PROVE  WorkOK(p)'
  <2>1. CASE p = q
    BY <1>2, <2>1, QuietWork, WritingWork DEF WorkInv, IndexerStep, Progress
  <2>2. CASE p # q
    <3>1. UNCHANGED Memory(p)
      BY <1>2, <2>2, MemoryKept
    <3>2. Holds(p) => pc[q] \notin Critical
      BY <2>2 DEF LockInv, Holds
    <3>3. Holds(p) => UNCHANGED ledgerVars
      BY <1>2, <3>2, LedgerStepOwns
    <3>4. QED
      BY <1>1, <3>1, <3>3, WorkElsewhere DEF WorkInv
  <2>3. QED
    BY <2>1, <2>2
<1>3. ASSUME UNCHANGED <<pc, localVars, idVars, ledgerVars>>,
             NEW p \in Procs
      PROVE  WorkOK(p)'
  <2>1. UNCHANGED Memory(p)
    BY <1>3 DEF Memory, localVars, idVars
  <2>2. QED
    BY <1>1, <1>3, <2>1, WorkElsewhere DEF WorkInv
<1>4. CASE \E q \in Procs : IndexerStep(q)
  BY <1>2, <1>4 DEF WorkInv
<1>5. CASE \E r \in Readers : OpenRead(r) \/ CloseRead(r)
  <2>1. UNCHANGED <<pc, localVars, idVars, ledgerVars>>
    BY <1>5 DEF OpenRead, CloseRead
  <2>2. QED
    BY <1>3, <2>1 DEF WorkInv
<1>6. CASE UNCHANGED vars
  <2>1. UNCHANGED <<pc, localVars, idVars, ledgerVars>>
    BY <1>6 DEF vars
  <2>2. QED
    BY <1>3, <2>1 DEF WorkInv
<1>7. QED
  BY <1>4, <1>5, <1>6 DEF Next, IndexerStep

LEMMA InitOK ==
  ASSUME Init
  PROVE  IInv
<1> USE DEF Init, Ids
<1>1. TypeOK
  BY DEF TypeOK, ControlTypeOK, LedgerTypeOK, Pcs, RunRow, GenRow, BuildRow
<1>2. LockInv
  BY DEF LockInv, Holds, Critical, RunPhase, GenPhase, BuildPhase, SessionPcs
<1>3. SequenceInv
  BY DEF SequenceInv
<1>4. OwnerInv
  BY DEF OwnerInv, OwnerOK, RunPhase, GenPhase, BuildPhase
<1>5. SoleBuildingRun
  BY DEF SoleBuildingRun, RunPhase, GenPhase, BuildPhase
<1>6. PublicationIsJoint
  BY DEF PublicationIsJoint, SelectedCoherent
<1>7. SnapshotInv
  BY DEF SnapshotInv
<1>8. RunInv
  BY DEF RunInv, RunNamesItsPublication
<1>9. WorkInv
  BY DEF WorkInv, WorkOK, Unstarted, Settling, Holds, Critical, RunPhase,
         GenPhase, BuildPhase, SessionPcs, HasPublished
<1>10. QED
  BY <1>1, <1>2, <1>3, <1>4, <1>5, <1>6, <1>7, <1>8, <1>9 DEF IInv

LEMMA StepOK ==
  ASSUME IInv, [Next]_vars
  PROVE  IInv'
<1> USE DEF IInv
<1>1. TypeOK'
  BY ControlTypeOKStep, LedgerTypeOKStep DEF TypeOK
<1>2. LockInv' /\ SequenceInv' /\ OwnerInv'
  BY LockStep, SequenceStep, OwnerStep
<1>3. SoleBuildingRun' /\ PublicationIsJoint'
  BY SoleStep, JointStep
<1>4. SnapshotInv'
  BY SnapshotStep DEF PublicationIsJoint
<1>5. RunInv' /\ WorkInv'
  BY RunInvStep, WorkStep
<1>6. QED
  BY <1>1, <1>2, <1>3, <1>4, <1>5

(* The inductive invariant holds in every reachable state, for any number  *)
(* of indexers, readers and row ids.                                       *)
THEOREM Invariance == Spec => []IInv
<1>1. Init => IInv
  BY InitOK
<1>2. IInv /\ [Next]_vars => IInv'
  BY StepOK
<1>3. QED
  BY <1>1, <1>2, PTL DEF Spec

(* Every variable stays in its domain: no handler writes a status its      *)
(* check constraint refuses, nor a row id that was never handed out.       *)
THEOREM TypeCorrect == Spec => []TypeOK
<1>1. IInv => TypeOK
  BY DEF IInv
<1>2. QED
  BY <1>1, Invariance, PTL

(* Index work is serialized: at most one indexer is in the owner block,    *)
(* command-line and library callers mixed, whoever crashes.                *)
THEOREM Serialized == Spec => []OneOwner
<1>1. IInv => OneOwner
  BY OthersOutside DEF IInv, OneOwner
<1>2. QED
  BY <1>1, Invariance, PTL

(* While an owner works, the runs dead owners left building are failed.    *)
THEOREM AbandonedRunsFailed == Spec => []SoleBuildingRun
<1>1. IInv => SoleBuildingRun
  BY DEF IInv
<1>2. QED
  BY <1>1, Invariance, PTL

(* The selected corpus is a complete generation linked to its own complete *)
(* build, and only published generations and builds are complete.          *)
THEOREM JointPublication == Spec => []PublicationIsJoint
<1>1. IInv => PublicationIsJoint
  BY DEF IInv
<1>2. QED
  BY <1>1, Invariance, PTL

(* No error handler, later owner or retention step rewrites the final      *)
(* state of a run, generation or build.                                    *)
THEOREM FinalStatesKept == Spec => TerminalRowsFrozen
<1>1. IInv /\ [Next]_vars => [SettledRowsKept]_vars
  BY SettledStep DEF IInv
<1>2. QED
  BY <1>1, Invariance, PTL DEF Spec, TerminalRowsFrozen

(* A run that ends complete or partial names a complete generation, whose  *)
(* build is complete, and no other run names it; a failed one names none.  *)
THEOREM RunsNamePublications == Spec => []RunNamesItsPublication
<1>1. IInv => RunNamesItsPublication
  BY DEF IInv, RunInv
<1>2. QED
  BY <1>1, Invariance, PTL

(* Whichever way index_corpus fails, the generation it inserted is settled *)
(* when the owner block has been left.                                     *)
THEOREM FailuresSettle == Spec => []FailureSettlesGeneration
<1>1. IInv => FailureSettlesGeneration
  BY DEF IInv, WorkInv, WorkOK, FailureSettlesGeneration, Settling
<1>2. QED
  BY <1>1, Invariance, PTL

(* The session lock of the command line makes the check of selected_after  *)
(* succeed: no other indexer publishes between the owner block and it.     *)
THEOREM OwnResult == Spec => []CLIOwnResult
<1>1. IInv => CLIOwnResult
  BY DEF IInv, WorkInv, WorkOK, CLIOwnResult
<1>2. QED
  BY <1>1, Invariance, PTL

(* A command-line indexer that found nothing to do inserts no generation   *)
(* while a coherent corpus is selected: the selected_before it read under  *)
(* the session lock still holds when it would insert one.                  *)
THEOREM NoOpInsertsNothing == Spec => CLINoOpCreatesNothing
<1> DEFINE Justified ==
      \A p \in CLI :
        InsertGeneration(p) /\ CoherentPair(selected) => changed[p]
<1>1. IInv => Justified
  BY DEF IInv, WorkInv, WorkOK, InsertGeneration, Goto
<1>2. Spec => [][Justified]_vars
  <2>1. IInv /\ [Next]_vars => [Justified]_vars
    BY <1>1
  <2> HIDE DEF Justified
  <2>2. QED
    BY <2>1, Invariance, PTL DEF Spec
<1>3. QED
  BY <1>2 DEF CLINoOpCreatesNothing

(* The steps that move the selection or a reader.                          *)
LEMMA SelectionSteps ==
  ASSUME [Next]_vars
  PROVE  \/ UNCHANGED <<selected, snap>>
         \/ \E r \in Readers : OpenRead(r) \/ CloseRead(r)
         \/ \E p \in Procs : Publish(p)
<1>1. UNCHANGED selected \/ \E p \in Procs : Publish(p)
  <2>1. ASSUME LedgerStep, ~ \E p \in Procs : Publish(p)
        PROVE  UNCHANGED selected
    BY <2>1 DEF LedgerStep, StartRun, StageNothing, InsertGeneration,
       InsertBuild, EmbedFails, MarkBuildFailed, MarkGenerationFailed,
       RecordRunFailure, PruneRuns, pubVars
  <2>2. QED
    BY <2>1, LedgerSteps DEF ledgerVars, pubVars
<1>2. QED
  BY <1>1, SnapSteps

LEMMA PublishedInit ==
  ASSUME Init
  PROVE  Published!Init
BY DEF Init, Published!Init, Published!Closed

LEMMA PublishedStep ==
  ASSUME IInv, [Next]_vars
  PROVE  [Published!Next]_(Published!vars)
<1> USE DEF Published!Next, Published!vars, Published!Closed
<1>2. ASSUME NEW r \in Readers, OpenRead(r)
      PROVE  Published!Open(r)
  <2>1. /\ ~snap[r].open /\ selected # 0 /\ rows = selected
        /\ snap' = [snap EXCEPT ![r] =
                      [open |-> TRUE, gen |-> selected, rows |-> rows]]
        /\ UNCHANGED selected
    BY <1>2 DEF OpenRead, IInv, SnapshotInv, CoherentPair, Ids, ledgerVars,
       pubVars
  <2>2. snap \in [Readers ->
                    [open: BOOLEAN, gen: 0..MaxRuns, rows: 0..MaxRuns]]
    BY DEF IInv, TypeOK, ControlTypeOK
  <2>3. snap'[r].open /\ snap'[r].rows = selected
    BY <2>1, <2>2
  <2>4. \A q \in Readers \ {r} : snap'[q] = snap[q]
    BY <2>1, <2>2
  <2>5. \A q \in Readers :
          (IF snap'[q].open THEN snap'[q].rows ELSE -1) =
            IF q = r THEN selected
            ELSE IF snap[q].open THEN snap[q].rows ELSE -1
    BY <2>3, <2>4
  <2>6. QED
    BY <2>1, <2>5 DEF Published!Open
<1>3. ASSUME NEW r \in Readers, CloseRead(r)
      PROVE  Published!Close(r)
  <2>1. /\ snap[r].open
        /\ snap' = [snap EXCEPT ![r] = [open |-> FALSE, gen |-> 0, rows |-> 0]]
        /\ UNCHANGED selected
    BY <1>3 DEF CloseRead, ledgerVars, pubVars
  <2>2. snap \in [Readers ->
                    [open: BOOLEAN, gen: 0..MaxRuns, rows: 0..MaxRuns]]
    BY DEF IInv, TypeOK, ControlTypeOK
  <2>3. ~snap'[r].open /\ snap[r].rows # -1
    BY <2>1, <2>2
  <2>4. \A q \in Readers \ {r} : snap'[q] = snap[q]
    BY <2>1, <2>2
  <2>5. \A q \in Readers :
          (IF snap'[q].open THEN snap'[q].rows ELSE -1) =
            IF q = r THEN -1
            ELSE IF snap[q].open THEN snap[q].rows ELSE -1
    BY <2>3, <2>4
  <2>6. QED
    BY <2>1, <2>3, <2>5 DEF Published!Close
<1>4. ASSUME NEW p \in Procs, Publish(p)
      PROVE  Published!Publish
  <2>1. pc[p] = "publishing"
    BY <1>4 DEF Publish, CompleteBuild, CompleteGeneration, Select, Goto
  <2>2. myGen[p] \in Ids /\ myGen[p] > selected
    BY <2>1, OwnsGeneration DEF IInv, GenPhase, BuildPhase
  <2>3. QED
    BY <1>4, <2>2 DEF Publish, CompleteBuild, CompleteGeneration,
           Select, Published!Publish
<1>5. ASSUME UNCHANGED <<selected, snap>>
      PROVE  UNCHANGED Published!vars
  BY <1>5
<1>6. QED
  BY <1>2, <1>3, <1>4, <1>5, SelectionSteps

(* The ledger implements PublishedCorpus: readers see one whole corpus,    *)
(* replaced only forwards and in a single step.                            *)
THEOREM Refinement == Spec => ImplementsPublishedCorpus
<1>1. Init => Published!Init
  BY PublishedInit
<1>2. IInv /\ [Next]_vars => [Published!Next]_(Published!vars)
  BY PublishedStep
<1>3. QED
  BY <1>1, <1>2, Invariance, PTL
     DEF Spec, ImplementsPublishedCorpus, Published!Spec
=============================================================================
