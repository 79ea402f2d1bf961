----------------------- MODULE SourceRefreshProofs -----------------------
(***************************************************************************)
(* What holds of an index run whatever the native programs write: the      *)
(* domains of the rows, how a plan relates to the checkpoint it was made   *)
(* from and a staged row to its plan, and that no failure is forgotten.    *)
(* SourceContentProofs builds on ShapeInv to prove what the corpus says.   *)
(***************************************************************************)
EXTENDS SourceRefresh, WellFoundedInduction, TLAPS

(* The domains of files, observations, rows, plans, failures and messages. *)
FileSet == [inode : 0..2, mtime : Nat, recs : Seq(Record), tail : {0, 1}]
ObsSet == [inode : 0..2, size : Nat, mtime : Nat, seen : Seq(Record)]
RowSet ==
  [obs : ObsSet, offset : Nat, version : Nat, cwd : BOOLEAN,
   status : {"none", "indexed", "excluded"},
   disposition : {"none", "append", "replace"}]
PlanSet ==
  [obs : ObsSet, disposition : {"none", "append", "replace"},
   start : Nat, cwd : BOOLEAN]
FailureSet ==
  [obs : ObsSet, version : Nat,
   code : {"none", "unknown", "unsupported", "changed", "unreadable"},
   class : {"none", "deterministic", "transient"}, due : BOOLEAN]
AliasSet == [file : Files, ord : Nat, id : Ids]
StageSet == [file : Files, ord : Nat, id : Ids, text : Texts, cwd : BOOLEAN]
MessageSet == [text : Texts \cup {"none"}, cwd : BOOLEAN]

(* Files, and the scalars.                                                 *)
FileInv ==
  /\ file \in [Files -> FileSet]
  /\ \A f \in Files : Len(file[f].recs) <= MaxLen /\ file[f].mtime <= edits
ScalarInv ==
  /\ edits \in 0..MaxEdits /\ faults \in 0..MaxFaults
  /\ version \in 1..MaxVersion /\ selected \in BOOLEAN
  /\ phase \in {"idle", "staging", "reading"}
  /\ config \in SUBSET Roots /\ ignoring \in BOOLEAN /\ failed \in BOOLEAN
  /\ phase # "idle" => config \in Configs
  /\ cwd \in BOOLEAN

(* What a stat recorded is the size of a file no larger than the bound,    *)
(* and a checkpoint ends inside it.                                        *)
Measured(o) ==
  /\ Len(o.seen) <= MaxLen
  /\ o.size \in {2 * Len(o.seen), 2 * Len(o.seen) + 1}
  /\ o.mtime <= edits
RowFits(r) ==
  /\ Measured(r.obs) /\ r.version <= version /\ r.offset <= r.obs.size
  /\ r.status = "none" => r = NoSource
  /\ r.status # "none" => r.obs.inode # 0
  /\ r.status = "indexed" => r.offset = 2 * Len(r.obs.seen)
RowInv ==
  /\ checkpoint \in [Files -> RowSet]
  /\ \A f \in Files : RowFits(checkpoint[f])
FailureInv ==
  /\ failure \in [Files -> FailureSet]
  /\ \A f \in Files :
       failure[f].obs \in Observed /\ failure[f].version <= version
CorpusInv ==
  /\ alias \subseteq AliasSet /\ message \in [Ids -> MessageSet]
  /\ \A a \in alias : a.ord < MaxLen

(* A plan fits the checkpoint it was made from for the whole run.          *)
PlanFits(p, c) ==
  /\ p.obs.inode # 0 /\ p.disposition # "none"
  /\ ~UpToDate(p.obs, c)
  /\ p.disposition = "replace" => p.start = 0 /\ p.cwd = FALSE
  /\ p.disposition = "append" =>
       Grown(p.obs, c) /\ p.start = c.offset /\ p.cwd = c.cwd
PlanInv ==
  /\ plan \in [Files -> PlanSet] /\ todo \subseteq Planned
  /\ \A f \in Files : Measured(plan[f].obs)
  /\ \A f \in Planned :
       PlanFits(plan[f], checkpoint[f]) /\ f \notin stageRemoved
  /\ phase = "idle" => Planned = {}

(* What is staged comes from a plan that has been taken.                   *)
StageFits(r, p) ==
  r.obs = p.obs /\ r.version = version /\ r.disposition = p.disposition
StageInv ==
  /\ stageSource \in [Files -> RowSet]
  /\ \A f \in Files : RowFits(stageSource[f])
  /\ \A f \in Staged :
       f \in Planned \ todo /\ StageFits(stageSource[f], plan[f])
  /\ stageRemoved \subseteq Files
  /\ \A f \in stageRemoved : Checkpointed(f)
  /\ phase = "idle" => stageRemoved = {}
MessageInv ==
  /\ stageMessage \subseteq StageSet
  /\ \A m \in stageMessage :
       /\ m.ord < MaxLen /\ plan[m.file].start \div 2 <= m.ord
       /\ m.file = current \/ stageSource[m.file].status = "indexed"
ReadInv ==
  /\ pos \in Nat /\ current \in Files \cup {NoFile}
  /\ phase # "reading" => current = NoFile /\ pos = 0
  /\ phase = "reading" =>
       /\ current \in Planned \ (todo \cup Staged)
       /\ plan[current].start \div 2 <= pos
       /\ pos <= Len(plan[current].obs.seen)
       /\ \A m \in stageMessage : m.file = current => m.ord < pos

ShapeInv ==
  /\ ScalarInv /\ FileInv /\ RowInv /\ FailureInv /\ CorpusInv
  /\ PlanInv /\ StageInv /\ MessageInv /\ ReadInv

LEMMA Half ==
  ASSUME NEW n \in Nat
  PROVE  (2 * n) \div 2 = n /\ (2 * n + 1) \div 2 = n
OBVIOUS

LEMMA MessageFields ==
  ASSUME NEW r \in Record, r.kind = "message"
  PROVE  r \in Message /\ r.id \in Ids /\ r.text \in Texts
BY DEF Record, Message

LEMMA StatFacts ==
  ASSUME NEW x \in FileSet, Len(x.recs) <= MaxLen, x.mtime <= edits
  PROVE  /\ Stat(x) \in ObsSet
         /\ Measured(Stat(x))
BY DEF Stat, FileSet, ObsSet, Measured, Size

LEMMA Observable ==
  ASSUME NEW o \in ObsSet, Measured(o), edits \in 0..MaxEdits,
         BoundsAssumption
  PROVE  o \in Observed
<1>1. o.seen \in [1..Len(o.seen) -> Record] /\ Len(o.seen) \in 0..MaxLen
  BY DEF ObsSet, Measured, BoundsAssumption
<1>2. o.seen \in UNION {[1..n -> Record] : n \in 0..MaxLen}
  BY <1>1
<1>3. o.size \in 0..(2 * MaxLen + 1) /\ o.mtime \in 0..MaxEdits
  BY <1>1 DEF ObsSet, Measured, BoundsAssumption
<1>4. QED BY <1>2, <1>3 DEF ObsSet, Observed

LEMMA NativeWriteShape ==
  ASSUME NEW f \in Files, NativeWrite(f), FileInv, edits \in 0..MaxEdits,
         BoundsAssumption, WritesAssumption
  PROVE  \E x \in FileSet :
           /\ Edit(f, x)
           /\ Len(x.recs) <= MaxLen
           /\ x = Absent \/ (x.inode # 0 /\ x.mtime = edits + 1)
<1>1. file[f] \in FileSet /\ edits \in Nat /\ MaxLen \in Nat /\ MaxLen >= 1
  BY DEF FileInv, BoundsAssumption
<1>2. Writes(f) \subseteq Record
  BY DEF WritesAssumption
<1>3. \A s \in Content(f) : s \in Seq(Record) /\ Len(s) <= 1
  <2>1. SUFFICES ASSUME NEW s \in Content(f)
                 PROVE  s \in Seq(Record) /\ Len(s) <= 1
    OBVIOUS
  <2>2. CASE s = <<>>
    BY <2>2
  <2>3. CASE \E r \in Writes(f) : s = <<r>>
    BY <1>2, <2>3
  <2>4. QED BY <2>1, <2>2, <2>3 DEF Content
<1> DEFINE Fits(x) == /\ x \in FileSet /\ Len(x.recs) <= MaxLen
                      /\ x = Absent \/ (x.inode # 0 /\ x.mtime = edits + 1)
<1>4. ASSUME NEW s \in Seq(Record), NEW t \in {0, 1},
             Len(s) <= MaxLen, Exists(f)
      PROVE  Fits(Written(f, s, t))
  BY <1>1, <1>4 DEF Written, FileSet, Exists
<1>5. CASE AppendRecord(f)
  <2>1. PICK r \in Writes(f) : Edit(f, Written(f, Append(file[f].recs, r), 0))
    BY <1>5 DEF AppendRecord
  <2>2. file[f].recs \in Seq(Record) /\ r \in Record
    BY <1>1, <1>2 DEF FileSet
  <2>3. /\ Append(file[f].recs, r) \in Seq(Record)
        /\ Len(Append(file[f].recs, r)) <= MaxLen
        /\ Exists(f)
    BY <1>1, <1>5, <2>2 DEF AppendRecord
  <2>4. Fits(Written(f, Append(file[f].recs, r), 0))
    BY <1>4, <2>3
  <2>5. QED BY <2>1, <2>4
<1>6. CASE AppendTail(f)
  <2>1. Fits(Written(f, file[f].recs, 1))
    BY <1>1, <1>4, <1>6 DEF AppendTail, FileInv, FileSet
  <2>2. QED BY <1>6, <2>1 DEF AppendTail
<1>7. CASE PutFile(f)
  <2>1. PICK i \in {1, 2} \ {file[f].inode}, s \in Content(f) :
          Edit(f, [inode |-> i, mtime |-> edits + 1, recs |-> s, tail |-> 0])
    BY <1>7 DEF PutFile
  <2>2. Fits([inode |-> i, mtime |-> edits + 1, recs |-> s, tail |-> 0])
    BY <1>1, <1>3, <2>1 DEF FileSet
  <2>3. QED BY <2>1, <2>2
<1>8. CASE RewriteInPlace(f)
  <2>1. PICK s \in Content(f) : Edit(f, Written(f, s, 0))
    BY <1>8 DEF RewriteInPlace
  <2>2. Len(s) <= MaxLen /\ s \in Seq(Record)
    BY <1>1, <1>3
  <2>3. Fits(Written(f, s, 0))
    BY <1>4, <1>8, <2>2 DEF RewriteInPlace
  <2>4. QED BY <2>1, <2>3
<1>9. CASE DeleteFile(f)
  <2>1. Fits(Absent)
    BY <1>1 DEF Absent, FileSet
  <2>2. QED BY <1>9, <2>1 DEF DeleteFile
<1>10. QED BY <1>5, <1>6, <1>7, <1>8, <1>9 DEF NativeWrite

LEMMA NatMin ==
  ASSUME NEW S \in SUBSET Nat, S # {}
  PROVE  \E m \in S : \A n \in S : m <= n
<1>1. IsWellFoundedOn(OpToRel(<, Nat), Nat)
  BY NatLessThanWellFounded
<1>2. PICK m \in S : \A y \in S : ~ (<<y, m>> \in OpToRel(<, Nat))
  BY <1>1, WFMin
<1>3. ASSUME NEW n \in S PROVE m <= n
  <2>1. ~(n < m)
    BY <1>2 DEF OpToRel
  <2>2. QED BY <2>1
<1>4. QED BY <1>3

LEMMA ConstantSets ==
  /\ NoStat \in ObsSet /\ NoSource \in RowSet /\ NoPlan \in PlanSet
  /\ NoFailure \in FailureSet /\ NoMessage \in MessageSet
  /\ NoStat.seen = <<>> /\ NoStat.size = 0 /\ NoStat.mtime = 0
  /\ NoStat.inode = 0
BY DEF NoStat, Stat, Absent, Size, ObsSet, NoSource, RowSet, NoPlan, PlanSet,
       NoFailure, FailureSet, NoMessage, MessageSet

LEMMA NoneFits ==
  ASSUME ScalarInv, BoundsAssumption
  PROVE  Measured(NoStat) /\ RowFits(NoSource) /\ NoStat \in Observed
<1>1. Measured(NoStat)
  BY ConstantSets DEF ScalarInv, BoundsAssumption, Measured
<1>2. RowFits(NoSource)
  BY <1>1, ConstantSets DEF ScalarInv, BoundsAssumption, RowFits, NoSource
<1>3. NoStat \in Observed
  BY <1>1, ConstantSets, Observable DEF ScalarInv
<1>4. QED BY <1>1, <1>2, <1>3

(* Counters only grow.                                                     *)
LEMMA MeasuredGrows ==
  ASSUME NEW o \in ObsSet, Measured(o),
         edits \in Nat, edits' \in Nat, edits <= edits'
  PROVE  Measured(o)'
BY DEF Measured, ObsSet

LEMMA RowGrows ==
  ASSUME NEW r \in RowSet, RowFits(r),
         edits \in Nat, edits' \in Nat, edits <= edits',
         version \in Nat, version' \in Nat, version <= version'
  PROVE  RowFits(r)'
<1>1. r.obs \in ObsSet /\ r.version \in Nat
  BY DEF RowSet
<1>2. Measured(r.obs)'
  BY <1>1, MeasuredGrows DEF RowFits
<1>3. QED BY <1>1, <1>2 DEF RowFits

LEMMA PlanSourceFits ==
  ASSUME NEW o \in ObsSet, Measured(o), o.inode # 0,
         NEW c \in RowSet, RowFits(c), ScalarInv, BoundsAssumption
  PROVE  /\ PlanSource(o, c) \in PlanSet
         /\ Measured(PlanSource(o, c).obs)
         /\ PlanSource(o, c) # NoPlan =>
              PlanSource(o, c).obs = o /\ PlanFits(PlanSource(o, c), c)
<1>1. CASE UpToDate(o, c)
  BY <1>1, ConstantSets, NoneFits DEF PlanSource, NoPlan
<1>2. CASE ~UpToDate(o, c) /\ Grown(o, c)
  BY <1>2 DEF PlanSource, AppendPlan, PlanSet, RowSet, PlanFits
<1>3. CASE ~UpToDate(o, c) /\ ~Grown(o, c)
  BY <1>3 DEF PlanSource, ReplacePlan, PlanSet, RowSet, PlanFits
<1>4. QED BY <1>1, <1>2, <1>3

LEMMA StartFits ==
  ASSUME NEW p \in PlanSet, NEW c \in RowSet, Measured(p.obs), RowFits(c),
         PlanFits(p, c), BoundsAssumption
  PROVE  /\ p.start \div 2 \in Nat
         /\ p.start \div 2 <= Len(p.obs.seen)
         /\ p.disposition = "append" => p.start \div 2 = Len(c.obs.seen)
<1>1. p.obs \in ObsSet /\ c.obs \in ObsSet
  BY DEF PlanSet, RowSet
<1>2. p.obs.size \in Nat /\ Len(p.obs.seen) \in Nat /\ c.obs.size \in Nat
        /\ Len(c.obs.seen) \in Nat
  BY <1>1 DEF ObsSet
<1>3. CASE p.disposition = "append"
  <2>1. p.start = 2 * Len(c.obs.seen) /\ p.obs.size > c.obs.size
    BY <1>3 DEF PlanFits, Grown, RowFits
  <2>2. p.start \div 2 = Len(c.obs.seen)
    BY <1>2, <2>1, Half
  <2>3. Len(c.obs.seen) <= Len(p.obs.seen)
    <3>1. Measured(c.obs) BY DEF RowFits
    <3>2. c.obs.size >= 2 * Len(c.obs.seen)
      BY <1>2, <3>1 DEF Measured
    <3>3. p.obs.size <= 2 * Len(p.obs.seen) + 1
      BY <1>2 DEF Measured
    <3>4. QED BY <1>2, <2>1, <3>2, <3>3
  <2>4. QED BY <1>2, <2>2, <2>3
<1>4. CASE p.disposition = "replace"
  BY <1>2, <1>4 DEF PlanFits
<1>5. QED BY <1>3, <1>4 DEF PlanFits, PlanSet

(***************************************************************************)
(* Steps of the native programs, of the clock and of an upgrade.           *)
(***************************************************************************)
LEMMA RunKept ==
  ASSUME ShapeInv, UNCHANGED <<corpusVars, runVars>>,
         edits' \in Nat, edits <= edits', version' \in Nat,
         version <= version', version' = version \/ phase = "idle"
  PROVE  /\ RowInv' /\ CorpusInv' /\ PlanInv'
         /\ StageInv' /\ MessageInv' /\ ReadInv'
<1> USE DEF corpusVars, runVars, optionVars, readVars, stageVars
<1>1. edits \in Nat /\ version \in Nat /\ MaxLen \in Nat
  BY BoundsAssumption DEF ShapeInv, ScalarInv
<1>2. RowInv'
  <2>1. ASSUME NEW f \in Files
        PROVE  RowFits(checkpoint[f])'
    <3>1. checkpoint[f] \in RowSet /\ RowFits(checkpoint[f])
            /\ checkpoint' = checkpoint
      BY DEF ShapeInv, RowInv
    <3>2. QED BY <1>1, <3>1, RowGrows
  <2>2. QED BY <2>1 DEF ShapeInv, RowInv
<1>3. CorpusInv'
  BY DEF ShapeInv, CorpusInv
<1>4. Planned' = Planned /\ Staged' = Staged
  BY DEF Planned, Staged
<1>5. PlanInv'
  <2>1. \A f \in Files : plan[f].obs \in ObsSet
    BY DEF ShapeInv, PlanInv, PlanSet
  <2>2. \A f \in Files : Measured(plan[f].obs)'
    BY <1>1, <2>1, MeasuredGrows DEF ShapeInv, PlanInv, RowInv
  <2>3. \A f \in Planned : PlanFits(plan[f], checkpoint[f])'
    BY DEF ShapeInv, PlanInv, PlanFits, UpToDate, Grown
  <2>4. QED BY <1>4, <2>2, <2>3 DEF ShapeInv, PlanInv
<1>6. StageInv'
  <2>1. ASSUME NEW f \in Files
        PROVE  RowFits(stageSource[f])'
    <3>1. stageSource[f] \in RowSet /\ RowFits(stageSource[f])
            /\ stageSource' = stageSource
      BY DEF ShapeInv, StageInv
    <3>2. QED BY <1>1, <3>1, RowGrows
  <2>2. \A f \in Staged : StageFits(stageSource[f], plan[f])'
    BY DEF ShapeInv, PlanInv, StageInv, StageFits
  <2>3. QED BY <1>4, <2>1, <2>2 DEF ShapeInv, StageInv, Checkpointed
<1>7. MessageInv' /\ ReadInv'
  BY <1>4 DEF ShapeInv, MessageInv, ReadInv
<1>8. QED BY <1>2, <1>3, <1>5, <1>6, <1>7

LEMMA EditShape ==
  ASSUME NEW f \in Files, NEW x \in FileSet, Edit(f, x), ShapeInv,
         Len(x.recs) <= MaxLen, x.mtime <= edits + 1
  PROVE  ShapeInv'
<1>1. edits \in Nat /\ edits' = edits + 1 /\ edits' \in 0..MaxEdits
        /\ file' = [file EXCEPT ![f] = x]
        /\ UNCHANGED <<faults, version, corpusVars, failure, runVars>>
  BY BoundsAssumption DEF ShapeInv, ScalarInv, Edit
<1>2. ScalarInv'
  BY <1>1 DEF ShapeInv, ScalarInv, corpusVars, runVars, optionVars, readVars
<1>3. FileInv'
  <2>1. file' \in [Files -> FileSet]
    BY <1>1 DEF ShapeInv, FileInv
  <2>2. ASSUME NEW g \in Files
        PROVE  Len(file'[g].recs) <= MaxLen /\ file'[g].mtime <= edits'
    <3>1. CASE g = f
      BY <1>1, <3>1 DEF ShapeInv, FileInv
    <3>2. CASE g # f
      <4>1. file'[g] = file[g] /\ file[g].mtime \in Nat
        BY <1>1, <3>2 DEF ShapeInv, FileInv, FileSet
      <4>2. QED BY <1>1, <4>1 DEF ShapeInv, FileInv
    <3>3. QED BY <3>1, <3>2
  <2>3. QED BY <2>1, <2>2 DEF FileInv
<1>4. RowInv' /\ CorpusInv' /\ PlanInv' /\ StageInv' /\ MessageInv' /\ ReadInv'
  <2>1. version \in Nat /\ version' = version
    BY <1>1, BoundsAssumption DEF ShapeInv, ScalarInv
  <2>2. QED BY <1>1, <2>1, RunKept
<1>5. FailureInv'
  BY <1>1 DEF ShapeInv, FailureInv
<1>6. QED BY <1>2, <1>3, <1>4, <1>5 DEF ShapeInv

LEMMA RetryShape ==
  ASSUME NEW f \in Files, RetryDue(f), ShapeInv
  PROVE  ShapeInv'
<1>1. UNCHANGED <<envVars, faults, version, corpusVars, runVars>>
        /\ failure' = [failure EXCEPT ![f].due = TRUE]
  BY DEF RetryDue
<1>2. ScalarInv' /\ FileInv'
  BY <1>1 DEF ShapeInv, ScalarInv, FileInv, envVars, corpusVars, runVars,
              optionVars, readVars
<1>3. edits' = edits /\ version' = version /\ edits \in Nat /\ version \in Nat
  BY <1>1, BoundsAssumption DEF envVars, ShapeInv, ScalarInv
<1>4. RowInv' /\ CorpusInv' /\ PlanInv' /\ StageInv' /\ MessageInv' /\ ReadInv'
  BY <1>1, <1>3, RunKept
<1>5. FailureInv'
  <2>1. failure[f] \in FailureSet /\ failure \in [Files -> FailureSet]
    BY DEF ShapeInv, FailureInv
  <2> DEFINE r == [failure[f] EXCEPT !.due = TRUE]
  <2>2. r \in FailureSet /\ r.obs = failure[f].obs
          /\ r.version = failure[f].version
    BY <2>1 DEF FailureSet
  <2>3. failure' = [failure EXCEPT ![f] = r]
    BY <1>1
  <2> HIDE DEF r
  <2>4. QED BY <1>3, <2>1, <2>2, <2>3 DEF ShapeInv, FailureInv
<1>6. QED BY <1>2, <1>4, <1>5 DEF ShapeInv

LEMMA UpgradeShape ==
  ASSUME Upgrade, ShapeInv
  PROVE  ShapeInv'
<1>1. /\ UNCHANGED <<envVars, faults, corpusVars, failure, runVars>>
      /\ phase = "idle" /\ version' = version + 1 /\ version < MaxVersion
      /\ edits' = edits
  BY DEF Upgrade, envVars
<1>2. ScalarInv' /\ FileInv'
  BY <1>1, BoundsAssumption DEF ShapeInv, ScalarInv, FileInv, envVars,
     corpusVars, runVars, optionVars, readVars
<1>3. edits \in Nat /\ version \in Nat
  BY BoundsAssumption DEF ShapeInv, ScalarInv
<1>4. RowInv' /\ CorpusInv' /\ PlanInv' /\ StageInv' /\ MessageInv' /\ ReadInv'
  BY <1>1, <1>3, RunKept
<1>5. FailureInv'
  <2>1. \A f \in Files : failure[f].version \in Nat
    BY DEF ShapeInv, FailureInv, FailureSet
  <2>2. QED BY <1>1, <1>3, <2>1 DEF ShapeInv, FailureInv
<1>6. QED BY <1>2, <1>4, <1>5 DEF ShapeInv

(***************************************************************************)
(* Steps of the run that read and stage.                                   *)
(***************************************************************************)
LEMMA CorpusKept ==
  ASSUME ShapeInv, UNCHANGED <<envVars, version, corpusVars, failure>>
  PROVE  FileInv' /\ RowInv' /\ FailureInv' /\ CorpusInv'
<1> USE DEF envVars, corpusVars
<1>1. edits \in Nat /\ version \in Nat
  BY BoundsAssumption DEF ShapeInv, ScalarInv
<1>2. RowInv'
  <2>1. ASSUME NEW f \in Files
        PROVE  RowFits(checkpoint[f])'
    <3>1. checkpoint[f] \in RowSet /\ RowFits(checkpoint[f])
            /\ checkpoint' = checkpoint
      BY DEF ShapeInv, RowInv
    <3>2. QED BY <1>1, <3>1, RowGrows
  <2>2. QED BY <2>1 DEF ShapeInv, RowInv
<1>3. FileInv' /\ FailureInv' /\ CorpusInv'
  BY DEF ShapeInv, FileInv, FailureInv, CorpusInv
<1>4. QED BY <1>2, <1>3

LEMMA PlanKept ==
  ASSUME ShapeInv, UNCHANGED <<envVars, version, checkpoint, plan,
                               stageRemoved>>,
         todo' \subseteq todo, phase' # "idle"
  PROVE  PlanInv' /\ Planned' = Planned
<1> USE DEF envVars
<1>1. Planned' = Planned
  BY DEF Planned
<1>2. \A f \in Planned : PlanFits(plan[f], checkpoint[f])'
  BY DEF ShapeInv, PlanInv, PlanFits, UpToDate, Grown
<1>3. \A f \in Files : Measured(plan[f].obs)'
  BY DEF ShapeInv, PlanInv, Measured
<1>4. QED BY <1>1, <1>2, <1>3 DEF ShapeInv, PlanInv

LEMMA StageKept ==
  ASSUME ShapeInv, UNCHANGED <<envVars, version, checkpoint, stageSource,
                               stageRemoved>>,
         todo' \subseteq todo, phase # "idle", phase' # "idle",
         Planned' = Planned,
         \A f \in Staged : plan'[f] = plan[f]
  PROVE  StageInv' /\ Staged' = Staged
<1> USE DEF envVars
<1>1. Staged' = Staged
  BY DEF Staged
<1>2. edits \in Nat /\ version \in Nat
  BY BoundsAssumption DEF ShapeInv, ScalarInv
<1>3. ASSUME NEW f \in Files
      PROVE  RowFits(stageSource[f])'
  <2>1. stageSource[f] \in RowSet /\ RowFits(stageSource[f])
          /\ stageSource' = stageSource
    BY DEF ShapeInv, StageInv
  <2>2. QED BY <1>2, <2>1, RowGrows
<1>4. \A f \in Staged : StageFits(stageSource[f], plan[f])'
  BY DEF ShapeInv, StageInv, StageFits
<1>5. QED BY <1>1, <1>3, <1>4 DEF ShapeInv, StageInv, Checkpointed

LEMMA PlannedFacts ==
  ASSUME ShapeInv, NEW f \in Planned
  PROVE  /\ f \in Files /\ plan[f] \in PlanSet /\ checkpoint[f] \in RowSet
         /\ Measured(plan[f].obs) /\ RowFits(checkpoint[f])
         /\ PlanFits(plan[f], checkpoint[f]) /\ phase # "idle"
         /\ plan[f].obs \in ObsSet /\ plan[f].obs.inode # 0
BY DEF ShapeInv, PlanInv, RowInv, Planned, PlanFits, PlanSet

(* A source is staged once, and only after its plan was taken.             *)
LEMMA RowStaged ==
  ASSUME ShapeInv, NEW f \in Planned, NEW offset \in Nat,
         NEW state \in BOOLEAN,
         NEW status \in {"indexed", "excluded"},
         offset <= plan[f].obs.size,
         status = "indexed" => offset = 2 * Len(plan[f].obs.seen),
         UNCHANGED <<envVars, version, checkpoint, plan, stageRemoved>>,
         phase' # "idle",
         stageSource' =
           [stageSource EXCEPT ![f] = SourceRow(f, offset, state, status)],
         todo' = todo \ {f}
  PROVE  StageInv' /\ Staged' = Staged \cup {f}
<1> DEFINE r == SourceRow(f, offset, state, status)
<1> USE DEF envVars
<1>1. f \in Files /\ plan[f] \in PlanSet /\ Measured(plan[f].obs)
        /\ plan[f].obs \in ObsSet /\ plan[f].obs.inode # 0
        /\ stageSource \in [Files -> RowSet]
        /\ version \in Nat /\ edits \in Nat
  BY PlannedFacts, BoundsAssumption DEF ShapeInv, ScalarInv, StageInv
<1>2. /\ r \in RowSet /\ r.obs = plan[f].obs /\ r.version = version
      /\ r.disposition = plan[f].disposition
      /\ r.status = status /\ r.offset = offset
  BY <1>1 DEF SourceRow, RowSet, PlanSet
<1>3. RowFits(r)
  BY <1>1, <1>2 DEF RowFits
<1>4. stageSource' = [stageSource EXCEPT ![f] = r]
  OBVIOUS
<1> HIDE DEF r
<1>5. stageSource' \in [Files -> RowSet]
  BY <1>1, <1>2, <1>4
<1>6. Staged' = Staged \cup {f} /\ Planned' = Planned
  BY <1>1, <1>2, <1>4 DEF Staged, Planned
<1>7. ASSUME NEW g \in Files
      PROVE  RowFits(stageSource[g])'
  <2>1. stageSource'[g] \in RowSet /\ RowFits(stageSource'[g])
    BY <1>1, <1>2, <1>3, <1>4 DEF ShapeInv, StageInv
  <2>2. QED BY <1>1, <2>1, RowGrows
<1>8. ASSUME NEW g \in Staged'
      PROVE  g \in Planned' \ todo' /\ StageFits(stageSource[g], plan[g])'
  <2>1. CASE g = f
    BY <1>1, <1>2, <1>4, <1>6, <2>1 DEF StageFits
  <2>2. CASE g # f
    <3>1. g \in Staged /\ stageSource'[g] = stageSource[g]
      BY <1>1, <1>4, <1>6, <2>2 DEF Staged
    <3>2. QED BY <1>6, <3>1 DEF ShapeInv, StageInv, StageFits
  <2>3. QED BY <2>1, <2>2
<1>9. QED BY <1>5, <1>6, <1>7, <1>8 DEF ShapeInv, StageInv, Checkpointed

LEMMA OpenSourceShape ==
  ASSUME NEW f \in Files, OpenSource(f), ShapeInv
  PROVE  ShapeInv'
<1> DEFINE start == plan[f].start \div 2
<1>1. /\ phase = "staging" /\ phase' = "reading" /\ f \in todo
      /\ todo' = todo \ {f} /\ current' = f /\ pos' = start
      /\ cwd' = plan[f].cwd
      /\ UNCHANGED <<envVars, faults, version, corpusVars, failure,
                     optionVars, failed, plan, stageVars>>
  BY DEF OpenSource, Takes
<1>2. f \in Planned /\ f \notin Staged
  BY <1>1 DEF ShapeInv, PlanInv, StageInv
<1>3. FileInv' /\ RowInv' /\ FailureInv' /\ CorpusInv'
  BY <1>1, CorpusKept
<1>4. ScalarInv'
  <2>1. plan[f].cwd \in BOOLEAN
    BY DEF ShapeInv, PlanInv, PlanSet
  <2>2. QED BY <1>1, <2>1 DEF ShapeInv, ScalarInv, envVars, corpusVars,
                                optionVars
<1>5. PlanInv' /\ Planned' = Planned
  BY <1>1, PlanKept DEF corpusVars, stageVars
<1>6. StageInv' /\ Staged' = Staged
  BY <1>1, <1>5, StageKept DEF corpusVars, stageVars
<1>7. \A m \in stageMessage : m.file # f /\ m.file # current
  <2>1. SUFFICES ASSUME NEW m \in stageMessage
                 PROVE  m.file # f /\ m.file # current
    OBVIOUS
  <2>2. m.file \in Files /\ current = NoFile
    BY <1>1 DEF ShapeInv, MessageInv, ReadInv, StageSet
  <2>3. m.file # current
    BY <2>2, FilesAssumption
  <2>4. stageSource[m.file].status = "indexed"
    BY <2>3 DEF ShapeInv, MessageInv
  <2>5. QED BY <1>2, <2>2, <2>3, <2>4 DEF Staged
<1>8. MessageInv'
  BY <1>1, <1>7 DEF ShapeInv, MessageInv, stageVars
<1>9. ReadInv'
  <2>1. start \in Nat /\ start <= Len(plan[f].obs.seen)
    BY <1>2, PlannedFacts, StartFits, BoundsAssumption
  <2>2. f \in Planned' \ (todo' \cup Staged')
    BY <1>1, <1>2, <1>5, <1>6
  <2>3. \A m \in stageMessage' : m.file # f
    BY <1>1, <1>7 DEF stageVars
  <2>4. plan'[f].start \div 2 = start /\ plan'[f].obs = plan[f].obs
    BY <1>1
  <2> HIDE DEF start
  <2>5. QED BY <1>1, <2>1, <2>2, <2>3, <2>4 DEF ReadInv
<1>10. QED BY <1>3, <1>4, <1>5, <1>6, <1>8, <1>9 DEF ShapeInv

LEMMA StageArtifactShape ==
  ASSUME NEW f \in Files, StageArtifact(f), ShapeInv
  PROVE  ShapeInv'
<1>1. /\ phase = "staging" /\ f \in todo /\ todo' = todo \ {f}
      /\ stageSource' = [stageSource EXCEPT ![f] =
           SourceRow(f, plan[f].obs.size, FALSE, "excluded")]
      /\ UNCHANGED <<envVars, faults, version, corpusVars, failure, phase,
                     optionVars, failed, plan, readVars, stageMessage,
                     stageRemoved>>
  BY DEF StageArtifact, Takes
<1>2. f \in Planned /\ f \notin Staged
  BY <1>1 DEF ShapeInv, PlanInv, StageInv
<1>3. FileInv' /\ RowInv' /\ FailureInv' /\ CorpusInv'
  BY <1>1, CorpusKept
<1>4. ScalarInv'
  BY <1>1 DEF ShapeInv, ScalarInv, envVars, corpusVars, optionVars, readVars
<1>5. PlanInv' /\ Planned' = Planned
  BY <1>1, PlanKept DEF corpusVars
<1>6. StageInv' /\ Staged' = Staged \cup {f}
  <2>1. plan[f].obs.size \in Nat
    BY <1>2, PlannedFacts DEF ObsSet
  <2>2. UNCHANGED <<envVars, version, checkpoint, plan, stageRemoved>>
    BY <1>1 DEF corpusVars
  <2>3. plan[f].obs.size <= plan[f].obs.size /\ phase' # "idle"
    BY <1>1, <2>1
  <2> HIDE <1>1
  <2>4. /\ stageSource' = [stageSource EXCEPT ![f] =
             SourceRow(f, plan[f].obs.size, FALSE, "excluded")]
        /\ todo' = todo \ {f}
    BY <1>1
  <2>5. QED BY <1>2, <2>1, <2>2, <2>3, <2>4, RowStaged
<1>7. MessageInv'
  <2>1. ASSUME NEW m \in stageMessage
        PROVE  m.file = current \/ stageSource'[m.file].status = "indexed"
    <3>1. m.file \in Files /\ stageSource \in [Files -> RowSet]
      BY DEF ShapeInv, MessageInv, StageInv, StageSet
    <3>2. CASE m.file = current
      BY <3>2
    <3>3. CASE stageSource[m.file].status = "indexed"
      <4>1. m.file # f
        BY <1>2, <3>3 DEF Staged
      <4>2. QED BY <1>1, <3>1, <3>3, <4>1
    <3>4. QED BY <3>2, <3>3 DEF ShapeInv, MessageInv
  <2>2. QED BY <1>1, <2>1 DEF ShapeInv, MessageInv, readVars
<1>8. ReadInv'
  BY <1>1 DEF ShapeInv, ReadInv, readVars
<1>9. QED BY <1>3, <1>4, <1>5, <1>6, <1>7, <1>8 DEF ShapeInv

(* Where the run reads.                                                    *)
LEMMA ReadingFacts ==
  ASSUME ShapeInv, phase = "reading"
  PROVE  /\ current \in Planned /\ current \notin todo \cup Staged
         /\ current \in Files /\ pos \in Nat
         /\ Target = Len(plan[current].obs.seen) /\ Target \in Nat
         /\ Target <= MaxLen /\ pos <= Target
         /\ 2 * Target <= plan[current].obs.size
         /\ plan[current].start \div 2 <= pos
         /\ \A m \in stageMessage : m.file = current => m.ord < pos
<1>1. current \in Planned /\ current \notin todo \cup Staged
  BY DEF ShapeInv, ReadInv
<1>2. current \in Files /\ Measured(plan[current].obs)
        /\ plan[current].obs \in ObsSet
  BY <1>1, PlannedFacts
<1>3. Len(plan[current].obs.seen) \in Nat
  BY <1>2 DEF ObsSet
<1>4. Target = Len(plan[current].obs.seen)
  BY <1>2, <1>3, Half DEF Measured, Target
<1>5. 2 * Target <= plan[current].obs.size
  BY <1>2, <1>3, <1>4 DEF Measured
<1>6. Target <= MaxLen
  BY <1>2, <1>4 DEF Measured
<1>7. QED BY <1>1, <1>2, <1>3, <1>4, <1>5, <1>6 DEF ShapeInv, ReadInv

LEMMA NextSourceScalars ==
  ASSUME ShapeInv, phase = "reading", NextSource,
         UNCHANGED <<edits, version, selected, config, ignoring>>,
         faults' \in 0..MaxFaults, failed' \in BOOLEAN
  PROVE  ScalarInv' /\ phase' # "idle"
BY DEF ShapeInv, ScalarInv, NextSource

LEMMA StageExcludedShape ==
  ASSUME StageExcluded, ShapeInv
  PROVE  ShapeInv'
<1>1. /\ phase = "reading" /\ pos = 0 /\ NextSource
      /\ stageSource' = [stageSource EXCEPT ![current] =
           SourceRow(current, plan[current].obs.size, FALSE, "excluded")]
      /\ UNCHANGED <<envVars, faults, version, corpusVars, failure,
                     optionVars, failed, plan, todo, stageMessage,
                     stageRemoved>>
  BY DEF StageExcluded, CanRead, OutOfScope
<1>2. current \in Planned /\ current \notin todo /\ current \in Files
        /\ current \notin Staged
  BY <1>1, ReadingFacts
<1>3. FileInv' /\ RowInv' /\ FailureInv' /\ CorpusInv'
  BY <1>1, CorpusKept
<1>4. ScalarInv' /\ phase' # "idle"
  <2>1. faults' \in 0..MaxFaults /\ failed' \in BOOLEAN
    BY <1>1 DEF ShapeInv, ScalarInv
  <2>2. QED BY <1>1, <2>1, NextSourceScalars DEF envVars, corpusVars,
                                                 optionVars
<1>5. PlanInv' /\ Planned' = Planned
  BY <1>1, <1>4, PlanKept DEF corpusVars
<1>6. StageInv' /\ Staged' = Staged \cup {current}
  <2>1. plan[current].obs.size \in Nat
    BY <1>2, PlannedFacts DEF ObsSet
  <2>2. UNCHANGED <<envVars, version, checkpoint, plan, stageRemoved>>
    BY <1>1 DEF corpusVars
  <2>3. plan[current].obs.size <= plan[current].obs.size
    BY <2>1
  <2>4. todo' = todo \ {current}
    BY <1>1, <1>2
  <2>5. stageSource' = [stageSource EXCEPT ![current] =
           SourceRow(current, plan[current].obs.size, FALSE, "excluded")]
    BY <1>1
  <2> HIDE <1>1
  <2>6. QED BY <1>2, <1>4, <2>1, <2>2, <2>3, <2>4, <2>5, RowStaged
<1>7. \A m \in stageMessage : m.file # current
  <2>1. SUFFICES ASSUME NEW m \in stageMessage, m.file = current
                 PROVE  FALSE
    OBVIOUS
  <2>2. m.ord \in Nat /\ m.ord < 0
    BY <1>1, <2>1, ReadingFacts DEF ShapeInv, MessageInv, StageSet
  <2>3. QED BY <2>2
<1>8. MessageInv'
  <2>1. ASSUME NEW m \in stageMessage
        PROVE  stageSource'[m.file].status = "indexed"
    <3>1. m.file \in Files /\ stageSource \in [Files -> RowSet]
      BY DEF ShapeInv, MessageInv, StageInv, StageSet
    <3>2. stageSource[m.file].status = "indexed"
      BY <1>7 DEF ShapeInv, MessageInv
    <3>3. QED BY <1>1, <1>7, <3>1, <3>2
  <2>2. QED BY <1>1, <2>1 DEF ShapeInv, MessageInv
<1>9. ReadInv'
  BY <1>1, <1>4 DEF ShapeInv, ReadInv, NextSource
<1>10. QED BY <1>3, <1>4, <1>5, <1>6, <1>8, <1>9 DEF ShapeInv

(* What ReadBatch adds.                                                    *)
NewMessages ==
  {Observation(current, pos, r, cwd) :
     r \in {q \in {Here[pos + 1]} : q.kind = "message"}}

LEMMA NewMessageFacts ==
  ASSUME ShapeInv, CanRead, NEW m \in NewMessages
  PROVE  /\ Here[pos + 1] \in Record /\ Here[pos + 1].kind = "message"
         /\ m = Observation(current, pos, Here[pos + 1], cwd)
         /\ m \in StageSet
         /\ m.file = current /\ m.ord = pos /\ m.id = Here[pos + 1].id
         /\ m.text = Here[pos + 1].text /\ m.cwd = cwd
<1>1. m = Observation(current, pos, Here[pos + 1], cwd)
        /\ Here[pos + 1].kind = "message"
  BY DEF NewMessages
<1>2. current \in Files /\ pos \in Nat /\ pos < Len(Here)
  BY ReadingFacts DEF CanRead
<1>3. Here \in Seq(Record)
  BY <1>2 DEF ShapeInv, FileInv, FileSet, Here
<1>4. Here[pos + 1] \in Record
  BY <1>2, <1>3
<1>5. Here[pos + 1].id \in Ids /\ Here[pos + 1].text \in Texts
  BY <1>1, <1>4, MessageFields
<1>6. cwd \in BOOLEAN
  BY DEF ShapeInv, ScalarInv
<1>7. QED BY <1>1, <1>2, <1>4, <1>5, <1>6 DEF Observation, StageSet

LEMMA ReadBatchShape ==
  ASSUME ReadBatch, ShapeInv
  PROVE  ShapeInv'
<1>1. /\ phase = "reading" /\ pos < Target /\ CanRead
      /\ pos' = pos + 1
      /\ cwd' = (cwd \/ Here[pos + 1].kind = "cwd")
      /\ stageMessage' = stageMessage \cup NewMessages
      /\ UNCHANGED <<envVars, faults, version, corpusVars, failure, phase,
                     optionVars, failed, plan, todo, current, stageSource,
                     stageRemoved>>
  BY DEF ReadBatch, CanRead, NewMessages
<1>2. FileInv' /\ RowInv' /\ FailureInv' /\ CorpusInv'
  BY <1>1, CorpusKept
<1>3. ScalarInv'
  BY <1>1 DEF ShapeInv, ScalarInv, envVars, corpusVars, optionVars
<1>4. PlanInv' /\ Planned' = Planned
  BY <1>1, PlanKept DEF corpusVars
<1>5. StageInv' /\ Staged' = Staged
  BY <1>1, <1>4, StageKept DEF corpusVars
<1>6. MessageInv'
  <2>1. stageMessage' \subseteq StageSet
    BY <1>1, NewMessageFacts DEF ShapeInv, MessageInv
  <2>2. ASSUME NEW m \in stageMessage'
        PROVE  /\ m.ord < MaxLen /\ plan[m.file].start \div 2 <= m.ord
               /\ m.file = current \/ stageSource[m.file].status = "indexed"
    <3>1. CASE m \in stageMessage
      BY <3>1 DEF ShapeInv, MessageInv
    <3>2. CASE m \in NewMessages
      <4>1. m.file = current /\ m.ord = pos
        BY <1>1, <3>2, NewMessageFacts
      <4>2. pos < MaxLen /\ plan[current].start \div 2 <= pos
        BY <1>1, ReadingFacts, BoundsAssumption
      <4>3. QED BY <4>1, <4>2
    <3>3. QED BY <1>1, <3>1, <3>2
  <2>3. QED BY <1>1, <2>1, <2>2 DEF MessageInv
<1>7. ReadInv'
  <2>1. pos + 1 \in Nat /\ plan[current].start \div 2 <= pos + 1
          /\ pos + 1 <= Len(plan[current].obs.seen)
    <3>1. plan[current].start \div 2 \in Int
      BY <1>1, ReadingFacts, PlannedFacts DEF PlanSet
    <3>2. QED BY <1>1, <3>1, ReadingFacts
  <2>2. ASSUME NEW m \in stageMessage', m.file = current
        PROVE  m.ord < pos + 1
    <3>1. CASE m \in stageMessage
      <4>1. m.ord \in Nat /\ m.ord < pos /\ pos \in Nat
        BY <1>1, <2>2, <3>1, ReadingFacts DEF ShapeInv, MessageInv, StageSet
      <4>2. QED BY <4>1
    <3>2. CASE m \in NewMessages
      BY <1>1, <3>2, NewMessageFacts, ReadingFacts
    <3>3. QED BY <1>1, <3>1, <3>2
  <2>3. current \in Planned' \ (todo' \cup Staged')
    BY <1>1, <1>4, <1>5, ReadingFacts
  <2>4. current \in Files /\ plan' = plan /\ current' = current
    BY <1>1, ReadingFacts
  <2>5. QED BY <1>1, <2>1, <2>2, <2>3, <2>4 DEF ReadInv
<1>8. QED BY <1>2, <1>3, <1>4, <1>5, <1>6, <1>7 DEF ShapeInv

LEMMA ReparseShape ==
  ASSUME Reparse, ShapeInv
  PROVE  ShapeInv'
<1> DEFINE p == ReplacePlan(plan[current].obs)
<1>1. /\ phase = "reading" /\ pos' = 0 /\ cwd' = FALSE
      /\ plan' = [plan EXCEPT ![current] = p]
      /\ stageMessage' = WithoutStaged(current)
      /\ UNCHANGED <<envVars, faults, version, corpusVars, failure, phase,
                     optionVars, failed, todo, current, stageSource,
                     stageRemoved>>
  BY DEF Reparse
<1>2. current \in Planned /\ current \notin todo /\ current \in Files
        /\ current \notin Staged
  BY <1>1, ReadingFacts
<1>3. p \in PlanSet /\ p.obs = plan[current].obs /\ p.start = 0
        /\ p.cwd = FALSE /\ p.disposition = "replace"
  BY <1>2, PlannedFacts DEF ReplacePlan, PlanSet
<1> HIDE DEF p
<1>4. FileInv' /\ RowInv' /\ FailureInv' /\ CorpusInv'
  BY <1>1, CorpusKept
<1>5. ScalarInv'
  BY <1>1 DEF ShapeInv, ScalarInv, envVars, corpusVars, optionVars
<1>6. \A g \in Files : g # current => plan'[g] = plan[g]
  BY <1>1 DEF ShapeInv, PlanInv
<1>7. plan' \in [Files -> PlanSet] /\ plan'[current] = p
  BY <1>1, <1>2, <1>3 DEF ShapeInv, PlanInv
<1>8. Planned' = Planned
  <2>1. p # NoPlan
    BY <1>3 DEF NoPlan
  <2>2. plan[current] # NoPlan
    BY <1>2 DEF Planned
  <2>3. QED BY <1>2, <1>6, <1>7, <2>1, <2>2 DEF Planned
<1>9. PlanInv'
  <2>1. ASSUME NEW g \in Files
        PROVE  Measured(plan[g].obs)'
    <3>1. plan'[g].obs = plan[g].obs
      BY <1>3, <1>6, <1>7
    <3>2. edits' = edits
      BY <1>1 DEF envVars
    <3>3. QED BY <3>1, <3>2 DEF ShapeInv, PlanInv, Measured
  <2>2. ASSUME NEW g \in Planned
        PROVE  PlanFits(plan[g], checkpoint[g])' /\ g \notin stageRemoved
    <3>1. PlanFits(plan[g], checkpoint[g]) /\ g \notin stageRemoved
      BY DEF ShapeInv, PlanInv
    <3>2. checkpoint' = checkpoint /\ version' = version
      BY <1>1 DEF corpusVars
    <3>3. CASE g = current
      BY <1>3, <1>7, <3>1, <3>2, <3>3 DEF PlanFits, UpToDate
    <3>4. CASE g # current
      <4>1. plan'[g] = plan[g]
        BY <1>6, <3>4 DEF Planned
      <4>2. QED BY <3>1, <3>2, <4>1 DEF PlanFits, UpToDate, Grown
    <3>5. QED BY <3>3, <3>4
  <2>3. QED BY <1>1, <1>7, <1>8, <2>1, <2>2 DEF ShapeInv, PlanInv
<1>10. StageInv' /\ Staged' = Staged
  <2>1. \A g \in Staged : plan'[g] = plan[g]
    BY <1>2, <1>6 DEF Staged
  <2>2. UNCHANGED <<envVars, version, checkpoint, stageSource, stageRemoved>>
    BY <1>1 DEF corpusVars
  <2>3. todo' \subseteq todo /\ phase # "idle" /\ phase' # "idle"
    BY <1>1
  <2>4. QED BY <1>8, <2>1, <2>2, <2>3, StageKept
<1>11. MessageInv'
  <2>1. ASSUME NEW m \in stageMessage'
        PROVE  /\ m \in StageSet /\ m.ord < MaxLen
               /\ plan'[m.file].start \div 2 <= m.ord
               /\ stageSource'[m.file].status = "indexed"
    <3>1. m \in stageMessage /\ m.file # current
      BY <1>1 DEF WithoutStaged
    <3>2. m \in StageSet /\ m.file \in Files
      BY <3>1 DEF ShapeInv, MessageInv, StageSet
    <3>3. plan'[m.file] = plan[m.file] /\ stageSource' = stageSource
      BY <1>1, <1>6, <3>1, <3>2
    <3>4. QED BY <3>1, <3>2, <3>3 DEF ShapeInv, MessageInv
  <2>2. QED BY <2>1 DEF MessageInv
<1>12. ReadInv'
  <2>1. p.start \div 2 = 0
    BY <1>3
  <2>2. 0 <= Len(p.obs.seen)
    BY <1>3, ReadingFacts, <1>1
  <2>3. \A m \in stageMessage' : m.file # current
    BY <1>1 DEF WithoutStaged
  <2>4. current \in Planned' \ (todo' \cup Staged') /\ plan'[current] = p
    BY <1>1, <1>2, <1>7, <1>8, <1>10
  <2>5. QED BY <1>1, <1>2, <2>1, <2>2, <2>3, <2>4 DEF ReadInv
<1>13. QED BY <1>4, <1>5, <1>9, <1>10, <1>11, <1>12 DEF ShapeInv

LEMMA StampFacts ==
  ASSUME ShapeInv, NEW f, NEW state \in BOOLEAN, NEW n \in Stamp(f, state)
  PROVE  \E m \in stageMessage :
           /\ n \in StageSet
           /\ n.file = m.file /\ n.ord = m.ord /\ n.id = m.id
           /\ n.text = m.text
           /\ n.cwd = IF m.file = f THEN m.cwd \/ state ELSE m.cwd
<1>1. PICK m \in stageMessage :
        n = IF m.file = f THEN [m EXCEPT !.cwd = @ \/ state] ELSE m
  BY DEF Stamp
<1>2. m \in StageSet
  BY DEF ShapeInv, MessageInv
<1>3. CASE m.file = f
  <2>1. n = [m EXCEPT !.cwd = m.cwd \/ state]
    BY <1>1, <1>3
  <2>2. (m.cwd \/ state) \in BOOLEAN
    BY <1>2 DEF StageSet
  <2>3. n \in StageSet /\ n.cwd = (m.cwd \/ state)
          /\ n.file = m.file /\ n.ord = m.ord /\ n.id = m.id /\ n.text = m.text
    BY <1>2, <2>1, <2>2 DEF StageSet
  <2>4. QED BY <1>3, <2>3
<1>4. CASE m.file # f
  BY <1>1, <1>2, <1>4
<1>5. QED BY <1>3, <1>4

LEMMA StageSourceShape ==
  ASSUME StageSource, ShapeInv
  PROVE  ShapeInv'
<1>1. /\ phase = "reading" /\ pos = Target /\ NextSource
      /\ stageSource' = [stageSource EXCEPT ![current] =
           SourceRow(current, 2 * pos, cwd, "indexed")]
      /\ stageMessage' = Stamp(current, cwd)
      /\ UNCHANGED <<envVars, faults, version, corpusVars, failure,
                     optionVars, failed, plan, todo, stageRemoved>>
  BY DEF StageSource
<1>2. current \in Planned /\ current \notin todo /\ current \in Files
        /\ current \notin Staged
  BY <1>1, ReadingFacts
<1>3. FileInv' /\ RowInv' /\ FailureInv' /\ CorpusInv'
  BY <1>1, CorpusKept
<1>4. ScalarInv' /\ phase' # "idle"
  <2>1. faults' \in 0..MaxFaults /\ failed' \in BOOLEAN
    BY <1>1 DEF ShapeInv, ScalarInv
  <2>2. QED BY <1>1, <2>1, NextSourceScalars DEF envVars, corpusVars,
                                                 optionVars
<1>5. PlanInv' /\ Planned' = Planned
  BY <1>1, <1>4, PlanKept DEF corpusVars
<1>6. StageInv' /\ Staged' = Staged \cup {current}
  <2>1. 2 * pos \in Nat /\ 2 * pos <= plan[current].obs.size
          /\ 2 * pos = 2 * Len(plan[current].obs.seen)
    BY <1>1, ReadingFacts
  <2>2. UNCHANGED <<envVars, version, checkpoint, plan, stageRemoved>>
    BY <1>1 DEF corpusVars
  <2>3. todo' = todo \ {current} /\ cwd \in BOOLEAN
    BY <1>1, <1>2 DEF ShapeInv, ScalarInv
  <2>4. stageSource' = [stageSource EXCEPT ![current] =
           SourceRow(current, 2 * pos, cwd, "indexed")]
    BY <1>1
  <2> HIDE <1>1
  <2>5. QED BY <1>2, <1>4, <2>1, <2>2, <2>3, <2>4, RowStaged
<1>7. MessageInv'
  <2>1. ASSUME NEW n \in stageMessage'
        PROVE  /\ n \in StageSet /\ n.ord < MaxLen
               /\ plan[n.file].start \div 2 <= n.ord
               /\ stageSource'[n.file].status = "indexed"
    <3>1. cwd \in BOOLEAN
      BY DEF ShapeInv, ScalarInv
    <3>2. PICK m \in stageMessage :
            n \in StageSet /\ n.file = m.file /\ n.ord = m.ord
      BY <1>1, <2>1, <3>1, StampFacts
    <3>3. n.ord < MaxLen /\ plan[n.file].start \div 2 <= n.ord
            /\ (n.file = current \/ stageSource[n.file].status = "indexed")
      BY <3>2 DEF ShapeInv, MessageInv
    <3>4. SourceRow(current, 2 * pos, cwd, "indexed").status = "indexed"
      BY DEF SourceRow
    <3>5. n.file \in Files /\ stageSource \in [Files -> RowSet]
      BY <3>2 DEF ShapeInv, StageInv, StageSet
    <3>6. stageSource'[n.file].status = "indexed"
      <4>1. CASE n.file = current
        BY <1>1, <3>4, <3>5, <4>1
      <4>2. CASE n.file # current
        BY <1>1, <3>3, <3>5, <4>2
      <4>3. QED BY <4>1, <4>2
    <3>7. QED BY <3>2, <3>3, <3>6
  <2>2. QED BY <1>1, <2>1 DEF MessageInv
<1>8. ReadInv'
  BY <1>1, <1>4 DEF ShapeInv, ReadInv, NextSource
<1>9. QED BY <1>3, <1>4, <1>5, <1>6, <1>7, <1>8 DEF ShapeInv

LEMMA FailedObservation ==
  ASSUME NEW o \in ObsSet, Measured(o), edits \in 0..MaxEdits
  PROVE  [o EXCEPT !.seen = <<>>] \in ObsSet \cap Observed
<1> DEFINE p == [o EXCEPT !.seen = <<>>]
<1>1. p = [inode |-> o.inode, size |-> o.size, mtime |-> o.mtime,
           seen |-> <<>>]
  <2>1. o = [inode |-> o.inode, size |-> o.size, mtime |-> o.mtime,
             seen |-> o.seen]
    BY DEF ObsSet
  <2>2. QED BY <2>1
<1>2. o.size \in 0..(2 * MaxLen + 1) /\ o.mtime \in 0..MaxEdits
  BY Observable, BoundsAssumption DEF Observed
<1>3. <<>> \in Seq(Record) /\ <<>> \in [1..0 -> Record] /\ 0 \in 0..MaxLen
  BY BoundsAssumption
<1>4. <<>> \in UNION {[1..n -> Record] : n \in 0..MaxLen}
  BY <1>3
<1>5. QED BY <1>1, <1>2, <1>3, <1>4 DEF ObsSet, Observed

LEMMA FailureRow ==
  ASSUME ShapeInv, phase = "reading", NEW code, NEW class,
         FailSource(current, code, class),
         code \in {"unknown", "unsupported", "changed", "unreadable"},
         class \in {"deterministic", "transient"}
  PROVE  \E r \in FailureSet :
           /\ failure' = [failure EXCEPT ![current] = r]
           /\ r.obs \in Observed /\ r.version = version /\ r # NoFailure
<1> DEFINE o == [plan[current].obs EXCEPT !.seen = <<>>]
           r == [obs |-> o, version |-> version, code |-> code,
                 class |-> class, due |-> FALSE]
<1>1. o \in ObsSet /\ o \in Observed
  BY ReadingFacts, PlannedFacts, FailedObservation DEF ShapeInv, ScalarInv
<1>2. failure' = [failure EXCEPT ![current] = r]
  BY DEF FailSource
<1> HIDE DEF o
<1>3. version \in Nat
  BY BoundsAssumption DEF ShapeInv, ScalarInv
<1>4. r \in FailureSet
  BY <1>1, <1>3 DEF FailureSet
<1>5. r # NoFailure
  BY DEF NoFailure
<1>6. QED BY <1>1, <1>2, <1>4, <1>5

LEMMA FailSourceShape ==
  ASSUME ShapeInv, phase = "reading", NEW code, NEW class,
         FailSource(current, code, class), faults' \in 0..MaxFaults,
         code \in {"unknown", "unsupported", "changed", "unreadable"},
         class \in {"deterministic", "transient"}
  PROVE  ShapeInv'
<1>1. /\ stageMessage' = WithoutStaged(current)
      /\ failed' = TRUE /\ NextSource
      /\ UNCHANGED <<envVars, version, corpusVars, optionVars, plan, todo,
                     stageSource, stageRemoved>>
  BY DEF FailSource
<1>2. version \in Nat /\ edits \in Nat /\ edits' = edits
        /\ version' = version
  BY <1>1, BoundsAssumption DEF ShapeInv, ScalarInv, envVars
<1>3. ScalarInv' /\ phase' # "idle"
  <2>1. failed' \in BOOLEAN
    BY <1>1
  <2>2. UNCHANGED <<edits, version, selected, config, ignoring>>
    BY <1>1 DEF envVars, corpusVars, optionVars
  <2>3. QED BY <1>1, <2>1, <2>2, NextSourceScalars
<1>4. PlanInv' /\ Planned' = Planned
  BY <1>1, <1>3, PlanKept DEF corpusVars
<1>5. StageInv' /\ Staged' = Staged
  BY <1>1, <1>3, <1>4, StageKept DEF corpusVars
<1>6. RowInv' /\ FileInv' /\ CorpusInv'
  <2>1. ASSUME NEW f \in Files
        PROVE  RowFits(checkpoint[f])'
    <3>1. checkpoint[f] \in RowSet /\ RowFits(checkpoint[f])
            /\ checkpoint' = checkpoint
      BY <1>1 DEF ShapeInv, RowInv, corpusVars
    <3>2. QED BY <1>2, <3>1, RowGrows
  <2>2. QED BY <1>1, <2>1 DEF ShapeInv, RowInv, FileInv, CorpusInv, envVars,
                              corpusVars
<1>7. FailureInv'
  <2>1. PICK r \in FailureSet :
          /\ failure' = [failure EXCEPT ![current] = r]
          /\ r.obs \in Observed /\ r.version = version
    BY FailureRow
  <2>2. current \in Files
    BY ReadingFacts
  <2>3. failure' \in [Files -> FailureSet]
    BY <2>1 DEF ShapeInv, FailureInv
  <2>4. ASSUME NEW f \in Files
        PROVE  failure'[f].obs \in Observed /\ failure'[f].version <= version
    <3>1. failure'[f] = IF f = current THEN r ELSE failure[f]
      BY <2>1, <2>2 DEF ShapeInv, FailureInv
    <3>2. QED BY <1>2, <2>1, <3>1 DEF ShapeInv, FailureInv
  <2>5. QED BY <1>2, <2>3, <2>4 DEF FailureInv
<1>8. MessageInv'
  <2>1. ASSUME NEW m \in stageMessage'
        PROVE  m \in stageMessage /\ stageSource[m.file].status = "indexed"
    <3>1. m \in stageMessage /\ m.file # current
      BY <1>1 DEF WithoutStaged
    <3>2. QED BY <3>1 DEF ShapeInv, MessageInv
  <2>2. QED BY <1>1, <2>1 DEF ShapeInv, MessageInv
<1>9. ReadInv'
  BY <1>1, <1>3 DEF ShapeInv, ReadInv, NextSource
<1>10. QED BY <1>3, <1>4, <1>5, <1>6, <1>7, <1>8, <1>9 DEF ShapeInv

LEMMA BlockSourceShape ==
  ASSUME BlockSource, ShapeInv
  PROVE  ShapeInv'
<1>1. /\ phase = "reading" /\ UNCHANGED faults
      /\ Here[pos + 1].kind \in {"unknown", "unsupported"}
      /\ FailSource(current, Here[pos + 1].kind, "deterministic")
  BY DEF BlockSource, CanRead, Blocking
<1>2. QED BY <1>1, FailSourceShape DEF ShapeInv, ScalarInv

LEMMA SourceChangedShape ==
  ASSUME SourceChanged, ShapeInv
  PROVE  ShapeInv'
BY FailSourceShape DEF SourceChanged, ShapeInv, ScalarInv

LEMMA ReadFailsShape ==
  ASSUME ReadFails, ShapeInv
  PROVE  ShapeInv'
<1>1. phase = "reading" /\ FailSource(current, "unreadable", "transient")
  BY DEF ReadFails
<1>2. faults' \in 0..MaxFaults
  BY BoundsAssumption DEF ReadFails, Fault, ShapeInv, ScalarInv
<1>3. QED BY <1>1, <1>2, FailSourceShape

(***************************************************************************)
(* The end of a run.                                                       *)
(***************************************************************************)
LEMMA ForgetShape ==
  ASSUME Forget, BoundsAssumption, UNCHANGED <<edits, version>>,
         ShapeInv, faults' \in 0..MaxFaults, selected' \in BOOLEAN
  PROVE  ScalarInv' /\ PlanInv' /\ StageInv' /\ MessageInv' /\ ReadInv'
<1>1. edits \in Nat /\ version \in Nat /\ ScalarInv
  BY DEF ShapeInv, ScalarInv
<1>2. ScalarInv'
  BY <1>1 DEF Forget, ScalarInv
<1>3. Measured(NoStat)' /\ RowFits(NoSource)'
  BY <1>1, NoneFits, ConstantSets, MeasuredGrows, RowGrows
<1>4. PlanInv'
  <2>1. plan' \in [Files -> PlanSet] /\ todo' = {}
    BY ConstantSets DEF Forget
  <2>2. Planned' = {}
    BY DEF Forget, Planned
  <2>3. \A f \in Files : plan'[f].obs = NoStat
    BY DEF Forget, NoPlan
  <2>4. \A f \in Files : Measured(plan[f].obs)'
    BY <1>3, <2>3 DEF Measured
  <2>5. QED BY <2>1, <2>2, <2>4 DEF PlanInv
<1>5. StageInv'
  <2>1. stageSource' \in [Files -> RowSet]
          /\ \A f \in Files : stageSource'[f] = NoSource
    BY ConstantSets DEF Forget
  <2>2. Staged' = {}
    BY <2>1 DEF Staged, NoSource
  <2>3. \A f \in Files : RowFits(stageSource[f])'
    BY <1>3, <2>1 DEF RowFits, Measured
  <2>4. stageRemoved' = {}
    BY DEF Forget
  <2>5. QED BY <2>1, <2>2, <2>3, <2>4 DEF StageInv
<1>6. MessageInv' /\ ReadInv'
  BY DEF Forget, MessageInv, ReadInv
<1>7. QED BY <1>2, <1>4, <1>5, <1>6

LEMMA ForgottenShape ==
  ASSUME ShapeInv, PublishNothing \/ AbortConflict \/ AbortRun
  PROVE  ShapeInv'
<1>1. Forget /\ UNCHANGED <<envVars, version, corpusVars, failure>>
  BY DEF PublishNothing, AbortConflict, AbortRun
<1>2. faults' \in 0..MaxFaults
  BY BoundsAssumption DEF PublishNothing, AbortConflict, AbortRun, Fault,
     ShapeInv, ScalarInv
<1>3. edits' = edits /\ version' = version /\ selected' \in BOOLEAN
  BY <1>1 DEF envVars, corpusVars, ShapeInv, ScalarInv
<1>4. QED BY <1>1, <1>2, <1>3, CorpusKept, ForgetShape, BoundsAssumption
             DEF ShapeInv

(***************************************************************************)
(* The begin of a run.                                                     *)
(***************************************************************************)
LEMMA ClearedFailures ==
  ASSUME ShapeInv, NEW gone, ClearFailures(gone), version' = version
  PROVE  FailureInv'
<1>1. failure' = [f \in Files |-> IF f \in gone THEN NoFailure ELSE failure[f]]
  BY DEF ClearFailures
<1>2. failure \in [Files -> FailureSet] /\ version \in Nat
  BY BoundsAssumption DEF ShapeInv, FailureInv, ScalarInv
<1>3. failure' \in [Files -> FailureSet]
  BY <1>1, <1>2, ConstantSets
<1>4. NoFailure.obs \in Observed /\ NoFailure.version <= version
  BY <1>2, NoneFits, BoundsAssumption DEF NoFailure, ShapeInv
<1>5. ASSUME NEW f \in Files
      PROVE  failure'[f].obs \in Observed /\ failure'[f].version <= version
  <2>1. failure'[f] = NoFailure \/ failure'[f] = failure[f]
    BY <1>1
  <2>2. QED BY <1>4, <2>1 DEF ShapeInv, FailureInv
<1>6. QED BY <1>3, <1>5 DEF FailureInv

LEMMA IdleFacts ==
  ASSUME ShapeInv, phase = "idle"
  PROVE  /\ Planned = {} /\ Staged = {} /\ todo = {} /\ stageMessage = {}
         /\ stageRemoved = {} /\ current = NoFile
<1>1. Planned = {} /\ Staged = {} /\ todo = {} /\ stageRemoved = {}
        /\ current = NoFile
  BY DEF ShapeInv, PlanInv, StageInv, ReadInv
<1>2. ASSUME NEW m \in stageMessage PROVE FALSE
  <2>1. m.file \in Files /\ m.file # NoFile
    BY FilesAssumption DEF ShapeInv, MessageInv, StageSet
  <2>2. stageSource[m.file].status = "indexed"
    BY <1>1, <2>1 DEF ShapeInv, MessageInv
  <2>3. m.file \in Staged
    BY <2>1, <2>2 DEF Staged
  <2>4. QED BY <1>1, <2>3
<1>3. QED BY <1>1, <1>2

(* The plans of a run.                                                     *)
LEMMA PlansFit ==
  ASSUME ShapeInv, NEW c, NEW missed, NEW unread, NEW flags, NEW f \in Files
  PROVE  LET s == Scan(c, missed, unread)
             p == Plans(s, flags)[f]
         IN /\ p \in PlanSet /\ Measured(p.obs)
            /\ p # NoPlan => /\ f \in s.discovered /\ Exists(f)
                             /\ p.obs = Stat(file[f])
                             /\ PlanFits(p, checkpoint[f])
<1> DEFINE s == Scan(c, missed, unread)
           p == Plans(s, flags)[f]
           o == Stat(file[f])
<1>1. file[f] \in FileSet /\ Len(file[f].recs) <= MaxLen
        /\ file[f].mtime <= edits /\ checkpoint[f] \in RowSet
        /\ RowFits(checkpoint[f])
  BY DEF ShapeInv, FileInv, RowInv
<1>2. o \in ObsSet /\ Measured(o)
  BY <1>1, StatFacts
<1>3. CASE f \in s.observed /\ ~FailureBlocks(f, o, flags)
  <2>1. f \in s.discovered /\ Exists(f)
    BY <1>3 DEF Scan
  <2>2. o.inode # 0
    BY <2>1 DEF Stat, Exists
  <2>3. p = PlanSource(o, checkpoint[f])
    BY <1>3 DEF Plans
  <2> HIDE DEF p, o, s
  <2>4. p \in PlanSet /\ Measured(p.obs)
          /\ (p # NoPlan => p.obs = o /\ PlanFits(p, checkpoint[f]))
    BY <1>1, <1>2, <2>2, <2>3, PlanSourceFits, BoundsAssumption DEF ShapeInv
  <2>5. QED BY <2>1, <2>4 DEF p, o, s
<1>4. CASE ~(f \in s.observed /\ ~FailureBlocks(f, o, flags))
  <2>1. p = NoPlan
    BY <1>4 DEF Plans
  <2>2. Measured(NoPlan.obs)
    BY NoneFits, BoundsAssumption DEF ShapeInv, NoPlan
  <2>3. QED BY <2>1, <2>2, ConstantSets
<1>5. QED BY <1>3, <1>4

LEMMA BeginShape ==
  ASSUME ShapeInv, phase = "idle", NEW c \in Configs, NEW flags \in Flags,
         NEW missed, NEW unread, Begin(c, flags, missed, unread)
  PROVE  ShapeInv'
<1> DEFINE s == Scan(c, missed, unread)
           plans == Plans(s, flags)
           removed == Removed(c, s)
<1>1. /\ UNCHANGED <<envVars, version, corpusVars>>
      /\ IF s.faulty THEN Fault ELSE UNCHANGED faults
      /\ ClearFailures(Obsolete(s) \cup Orphaned(c, checkpoint))
  BY DEF Begin
<1>2. \/ UNCHANGED runVars
      \/ /\ phase' = "staging" /\ config' = c /\ ignoring' = flags.ignore
         /\ failed' = s.faulty /\ plan' = plans
         /\ todo' = {f \in Files : plans[f] # NoPlan}
         /\ stageRemoved' = removed
         /\ UNCHANGED <<readVars, stageSource, stageMessage>>
  BY DEF Begin
<1>3. version' = version /\ edits' = edits /\ edits \in Nat /\ version \in Nat
  BY <1>1, BoundsAssumption DEF envVars, ShapeInv, ScalarInv
<1>4. FailureInv'
  BY <1>1, ClearedFailures
<1>5. FileInv' /\ RowInv' /\ CorpusInv'
  <2>1. ASSUME NEW f \in Files
        PROVE  RowFits(checkpoint[f])'
    <3>1. checkpoint[f] \in RowSet /\ RowFits(checkpoint[f])
            /\ checkpoint' = checkpoint
      BY <1>1 DEF ShapeInv, RowInv, corpusVars
    <3>2. QED BY <1>3, <3>1, RowGrows
  <2>2. QED BY <1>1, <2>1 DEF ShapeInv, RowInv, FileInv, CorpusInv, envVars,
                              corpusVars
<1>6. faults' \in 0..MaxFaults
  BY <1>1, BoundsAssumption DEF Fault, ShapeInv, ScalarInv
<1>7. CASE UNCHANGED runVars
  <2>1. ScalarInv'
    BY <1>1, <1>3, <1>6, <1>7 DEF ShapeInv, ScalarInv, corpusVars, runVars,
                                  optionVars, readVars
  <2>2. PlanInv' /\ StageInv' /\ MessageInv' /\ ReadInv'
    BY <1>1, <1>3, <1>7, RunKept
  <2>3. QED BY <1>4, <1>5, <2>1, <2>2 DEF ShapeInv
<1>8. CASE /\ phase' = "staging" /\ config' = c /\ ignoring' = flags.ignore
           /\ failed' = s.faulty /\ plan' = plans
           /\ todo' = {f \in Files : plans[f] # NoPlan}
           /\ stageRemoved' = removed
           /\ UNCHANGED <<readVars, stageSource, stageMessage>>
  <2>1. ScalarInv'
    <3>1. c \in SUBSET Roots /\ flags.ignore \in BOOLEAN
      BY ChoicesAssumption
    <3>2. s.faulty \in BOOLEAN
      BY DEF Scan
    <3> HIDE DEF s, plans, removed
    <3>3. QED BY <1>1, <1>3, <1>6, <1>8, <3>1, <3>2
                 DEF ShapeInv, ScalarInv, corpusVars, readVars
  <2>2. stageMessage' = {} /\ Staged' = {} /\ current' = NoFile /\ pos' = 0
    BY <1>8, IdleFacts DEF readVars, Staged, ShapeInv, ReadInv
  <2>3. removed \subseteq Files /\ (\A f \in removed : Checkpointed(f))
          /\ \A f \in removed : f \notin s.discovered
    BY DEF Removed
  <2>4. DOMAIN plans = Files /\ plans = [f \in Files |-> plans[f]]
    BY DEF Plans
  <2>5. ASSUME NEW f \in Files
        PROVE  /\ plans[f] \in PlanSet /\ Measured(plans[f].obs)
               /\ plans[f] # NoPlan => /\ f \notin removed
                                       /\ PlanFits(plans[f], checkpoint[f])
    BY <2>3, PlansFit
  <2>6. checkpoint' = checkpoint
    BY <1>1 DEF corpusVars
  <2> HIDE DEF s, plans, removed
  <2>7. Planned' = {f \in Files : plans[f] # NoPlan}
    BY <1>8 DEF Planned
  <2>8. PlanInv'
    <3>1. plan' \in [Files -> PlanSet] /\ todo' = Planned'
      BY <1>8, <2>4, <2>5, <2>7
    <3>2. \A f \in Files : Measured(plan[f].obs)'
      BY <1>3, <1>8, <2>5 DEF Measured
    <3>3. \A f \in Planned' :
            PlanFits(plan[f], checkpoint[f])' /\ f \notin stageRemoved'
      BY <1>3, <1>8, <2>5, <2>6, <2>7 DEF PlanFits, UpToDate, Grown
    <3>4. QED BY <1>8, <3>1, <3>2, <3>3 DEF PlanInv
  <2>9. StageInv'
    <3>1. ASSUME NEW f \in Files
          PROVE  RowFits(stageSource[f])'
      <4>1. stageSource[f] \in RowSet /\ RowFits(stageSource[f])
              /\ stageSource' = stageSource
        BY <1>8 DEF ShapeInv, StageInv
      <4>2. QED BY <1>3, <4>1, RowGrows
    <3>2. \A f \in stageRemoved' : Checkpointed(f)'
      BY <1>8, <2>3, <2>6 DEF Checkpointed
    <3>3. stageSource' \in [Files -> RowSet] /\ stageRemoved' \subseteq Files
      BY <1>8, <2>3 DEF ShapeInv, StageInv
    <3>4. QED BY <1>8, <2>2, <3>1, <3>2, <3>3 DEF StageInv
  <2>10. MessageInv' /\ ReadInv'
    BY <1>8, <2>2 DEF MessageInv, ReadInv
  <2>11. QED BY <1>4, <1>5, <2>1, <2>8, <2>9, <2>10 DEF ShapeInv
<1>9. QED BY <1>2, <1>7, <1>8

(***************************************************************************)
(* Publication.                                                            *)
(***************************************************************************)
LEMMA ObservationFacts ==
  ASSUME ShapeInv, NEW m \in Observations
  PROVE  /\ m.file \in Files /\ m.ord \in Nat /\ m.id \in Ids
         /\ m.text \in Texts \cup {"none"} /\ m.cwd \in BOOLEAN
         /\ m \in stageMessage \/
              \E a \in Kept : /\ m.file = a.file /\ m.ord = a.ord
                              /\ m.id = a.id /\ m.text = message[a.id].text
                              /\ m.cwd = message[a.id].cwd
<1>1. CASE m \in stageMessage
  BY <1>1 DEF ShapeInv, MessageInv, StageSet
<1>2. CASE \E a \in Kept :
             m = [file |-> a.file, ord |-> a.ord, id |-> a.id,
                  text |-> message[a.id].text, cwd |-> message[a.id].cwd]
  <2>1. PICK a \in Kept :
             m = [file |-> a.file, ord |-> a.ord, id |-> a.id,
                  text |-> message[a.id].text, cwd |-> message[a.id].cwd]
    BY <1>2
  <2>2. a \in AliasSet
    BY DEF Kept, ShapeInv, CorpusInv
  <2>3. a.file \in Files /\ a.ord \in Nat /\ a.id \in Ids
    BY <2>2 DEF AliasSet
  <2>4. message[a.id] \in MessageSet
    BY <2>3 DEF ShapeInv, CorpusInv
  <2>5. QED BY <2>1, <2>3, <2>4 DEF MessageSet
<1>3. QED BY <1>1, <1>2 DEF Observations

(* First is one of the observations: those of an identity have a least     *)
(* file, and those of that file a least ordinal.                           *)
LEMMA FirstExists ==
  ASSUME ShapeInv, NEW i, \E m \in Observations : m.id = i
  PROVE  First(i) \in Observations /\ First(i).id = i
<1> DEFINE O == {m \in Observations : m.id = i}
           F == {m.file : m \in O}
<1>1. O # {} /\ \A m \in O : m.file \in Nat /\ m.ord \in Nat
  BY ObservationFacts, FilesAssumption
<1>2. F \in SUBSET Nat /\ F # {}
  BY <1>1
<1>3. PICK f \in F : \A g \in F : f <= g
  BY <1>2, NatMin
<1> DEFINE K == {m.ord : m \in {n \in O : n.file = f}}
<1>4. K \in SUBSET Nat /\ K # {}
  BY <1>1, <1>3
<1>5. PICK k \in K : \A j \in K : k <= j
  BY <1>4, NatMin
<1>6. PICK m \in O : m.file = f /\ m.ord = k
  BY <1>5
<1>7. ASSUME NEW n \in O
      PROVE  Before(m, n)
  <2>1. n.file \in F /\ n.file \in Nat /\ m.file \in Nat
    BY <1>1
  <2>2. m.file <= n.file
    BY <1>3, <1>6, <2>1
  <2>3. CASE n.file = m.file
    <3>1. n.ord \in K
      BY <1>6, <2>3
    <3>2. QED BY <1>5, <1>6, <2>3, <3>1 DEF Before
  <2>4. CASE n.file # m.file
    BY <2>1, <2>2, <2>4 DEF Before
  <2>5. QED BY <2>3, <2>4
<1>8. m \in Observations /\ m.id = i
  BY <1>6
<1>9. \E n \in Observations :
        n.id = i /\ \A o \in Observations : o.id = i => Before(n, o)
  BY <1>7, <1>8
<1>10. QED BY <1>9 DEF First

LEMMA PublishShape ==
  ASSUME Publish, ShapeInv
  PROVE  ShapeInv'
<1>1. /\ alias' = {a \in alias : a.id \notin Affected} \cup CandidateAlias
      /\ message' = [i \in Ids |->
           IF i \in Affected THEN CandidateMessage(i) ELSE message[i]]
      /\ checkpoint' = [f \in Files |->
           IF f \in Staged
           THEN [stageSource[f] EXCEPT !.disposition = "none"]
           ELSE IF f \in stageRemoved THEN NoSource ELSE checkpoint[f]]
      /\ selected' = TRUE
      /\ ClearFailures(Staged \cup stageRemoved
                         \cup Orphaned(config, checkpoint'))
      /\ Forget /\ UNCHANGED <<envVars, faults, version>>
  BY DEF Publish
<1>2. edits' = edits /\ version' = version /\ edits \in Nat
        /\ version \in Nat /\ faults' \in 0..MaxFaults /\ selected' \in BOOLEAN
  BY <1>1, BoundsAssumption DEF envVars, ShapeInv, ScalarInv
<1>3. ScalarInv' /\ PlanInv' /\ StageInv' /\ MessageInv' /\ ReadInv'
  <2>1. Forget
    BY <1>1
  <2>2. UNCHANGED <<edits, version>>
    BY <1>2
  <2>3. QED BY <1>2, <2>1, <2>2, ForgetShape, BoundsAssumption
<1>4. FileInv'
  BY <1>1 DEF ShapeInv, FileInv, envVars
<1>5. FailureInv'
  BY <1>1, <1>2, ClearedFailures
<1>6. RowInv'
  <2>1. ASSUME NEW f \in Files
        PROVE  checkpoint'[f] \in RowSet /\ RowFits(checkpoint'[f])
    <3>1. CASE f \in Staged
      <4> DEFINE r == stageSource[f]
                 q == [r EXCEPT !.disposition = "none"]
      <4>1. r \in RowSet /\ RowFits(r) /\ r.status # "none"
        BY <3>1 DEF ShapeInv, StageInv, Staged
      <4>2. checkpoint'[f] = q
        BY <1>1, <3>1
      <4> HIDE DEF r
      <4>3. q \in RowSet /\ q.obs = r.obs /\ q.version = r.version
              /\ q.offset = r.offset /\ q.status = r.status
        BY <4>1 DEF RowSet
      <4>4. RowFits(q)
        BY <4>1, <4>3 DEF RowFits
      <4>5. QED BY <4>2, <4>3, <4>4
    <3>2. CASE f \notin Staged /\ f \in stageRemoved
      BY <1>1, <3>2, ConstantSets, NoneFits, BoundsAssumption DEF ShapeInv
    <3>3. CASE f \notin Staged /\ f \notin stageRemoved
      BY <1>1, <3>3 DEF ShapeInv, RowInv
    <3>4. QED BY <3>1, <3>2, <3>3
  <2>2. checkpoint' \in [Files -> RowSet]
    BY <1>1, <2>1
  <2>3. ASSUME NEW f \in Files
        PROVE  RowFits(checkpoint[f])'
    <3>1. QED BY <1>2, <2>1, RowGrows
  <2>4. QED BY <2>2, <2>3 DEF RowInv
<1>7. CorpusInv'
  <2>1. ASSUME NEW a \in alias'
        PROVE  a \in AliasSet /\ a.ord < MaxLen
    <3>1. CASE a \in alias
      BY <3>1 DEF ShapeInv, CorpusInv
    <3>2. CASE \E m \in stageMessage :
                 a = [file |-> m.file, ord |-> m.ord, id |-> m.id]
      BY <3>2 DEF ShapeInv, MessageInv, StageSet, AliasSet
    <3>3. QED BY <1>1, <2>1, <3>1, <3>2 DEF CandidateAlias, Kept
  <2>2. ASSUME NEW i \in Ids
        PROVE  message'[i] \in MessageSet
    <3>1. CASE i \in Affected /\ \E m \in Observations : m.id = i
      <4>1. First(i) \in Observations
        BY <3>1, FirstExists
      <4>2. First(i).text \in Texts \cup {"none"} /\ First(i).cwd \in BOOLEAN
        BY <4>1, ObservationFacts
      <4>3. message'[i] = [text |-> First(i).text, cwd |-> First(i).cwd]
        BY <1>1, <3>1 DEF CandidateMessage
      <4>4. QED BY <4>2, <4>3 DEF MessageSet
    <3>2. CASE i \in Affected /\ ~\E m \in Observations : m.id = i
      <4>1. message'[i] = NoMessage
        BY <1>1, <3>2 DEF CandidateMessage
      <4>2. QED BY <4>1, ConstantSets
    <3>3. CASE i \notin Affected
      BY <1>1, <3>3 DEF ShapeInv, CorpusInv
    <3>4. QED BY <3>1, <3>2, <3>3
  <2>3. message' \in [Ids -> MessageSet]
    BY <1>1, <2>2
  <2>4. QED BY <2>1, <2>3 DEF CorpusInv
<1>8. QED BY <1>3, <1>4, <1>5, <1>6, <1>7 DEF ShapeInv

(***************************************************************************)
(* The invariant is inductive.                                             *)
(***************************************************************************)
LEMMA InitShape ==
  ASSUME Init
  PROVE  ShapeInv
<1>1. ScalarInv
  <2>1. /\ edits = 0 /\ faults = 0 /\ version = 1 /\ selected = FALSE
        /\ phase = "idle" /\ config = {} /\ ignoring = FALSE
        /\ failed = FALSE /\ cwd = FALSE
    BY DEF Init
  <2>2. 0 \in 0..MaxEdits /\ 0 \in 0..MaxFaults /\ 1 \in 1..MaxVersion
    BY BoundsAssumption
  <2>3. {} \in SUBSET Roots
    OBVIOUS
  <2>4. QED BY <2>1, <2>2, <2>3 DEF ScalarInv
<1>2. FileInv
  <2>1. Absent \in FileSet /\ Len(Absent.recs) = 0 /\ Absent.mtime = 0
    BY DEF Absent, FileSet
  <2>2. QED BY <2>1, BoundsAssumption DEF Init, FileInv
<1>3. RowInv /\ FailureInv
  <2>1. NoFailure.obs = NoStat /\ NoFailure.version = 0
    BY DEF NoFailure
  <2>2. QED BY <1>1, <2>1, ConstantSets, NoneFits, BoundsAssumption
            DEF Init, RowInv, FailureInv, ScalarInv
<1>4. CorpusInv
  BY ConstantSets DEF Init, CorpusInv
<1>5. Planned = {} /\ Staged = {}
  BY DEF Init, Planned, Staged, NoSource
<1>6. PlanInv
  <2>1. \A f \in Files : plan[f].obs = NoStat
    BY DEF Init, NoPlan
  <2>2. QED BY <1>1, <1>5, <2>1, ConstantSets, NoneFits, BoundsAssumption
            DEF Init, PlanInv
<1>7. StageInv
  BY <1>1, <1>5, ConstantSets, NoneFits, BoundsAssumption DEF Init, StageInv
<1>8. MessageInv /\ ReadInv
  BY DEF Init, MessageInv, ReadInv
<1>9. QED BY <1>1, <1>2, <1>3, <1>4, <1>6, <1>7, <1>8 DEF ShapeInv

LEMMA NativeWriteShapeKept ==
  ASSUME NEW f \in Files, NativeWrite(f), ShapeInv
  PROVE  ShapeInv'
<1>1. edits \in Nat
  BY BoundsAssumption DEF ShapeInv, ScalarInv
<1>2. PICK x \in FileSet :
        /\ Edit(f, x) /\ Len(x.recs) <= MaxLen
        /\ x = Absent \/ (x.inode # 0 /\ x.mtime = edits + 1)
  BY NativeWriteShape, BoundsAssumption, WritesAssumption
     DEF ShapeInv, ScalarInv
<1>3. x.mtime <= edits + 1
  BY <1>1, <1>2 DEF Absent
<1>4. QED BY <1>2, <1>3, EditShape

LEMMA StutterShape ==
  ASSUME UNCHANGED vars, ShapeInv
  PROVE  ShapeInv'
<1>1. edits \in Nat /\ version \in Nat
  BY BoundsAssumption DEF ShapeInv, ScalarInv
<1>2. UNCHANGED <<envVars, faults, version, corpusVars, failure, runVars>>
        /\ edits' = edits /\ version' = version
  BY DEF vars, envVars
<1>3. ScalarInv'
  BY <1>2 DEF ShapeInv, ScalarInv, corpusVars, runVars, optionVars, readVars
<1>4. PlanInv' /\ StageInv' /\ MessageInv' /\ ReadInv'
  BY <1>1, <1>2, RunKept
<1>5. QED BY <1>2, <1>3, <1>4, CorpusKept DEF ShapeInv

LEMMA NextShape ==
  ASSUME [Next]_vars, ShapeInv
  PROVE  ShapeInv'
<1>1. CASE \E f \in Files : NativeWrite(f) \/ RetryDue(f)
  BY <1>1, NativeWriteShapeKept, RetryShape
<1>2. CASE Upgrade
  BY <1>2, UpgradeShape
<1>3. CASE BeginRun
  BY <1>3, BeginShape DEF BeginRun
<1>4. CASE RunStep
  <2>1. CASE \E f \in Files : TakeSource(f)
    BY <2>1, OpenSourceShape, StageArtifactShape DEF TakeSource
  <2>2. CASE StageExcluded
    BY <2>2, StageExcludedShape
  <2>3. CASE ReadBatch
    BY <2>3, ReadBatchShape
  <2>4. CASE Reparse
    BY <2>4, ReparseShape
  <2>5. CASE StageSource
    BY <2>5, StageSourceShape
  <2>6. CASE BlockSource \/ SourceChanged
    BY <2>6, BlockSourceShape, SourceChangedShape
  <2>7. CASE Publish
    BY <2>7, PublishShape
  <2>8. CASE PublishNothing \/ AbortConflict
    BY <2>8, ForgottenShape
  <2>9. QED BY <1>4, <2>1, <2>2, <2>3, <2>4, <2>5, <2>6, <2>7, <2>8
            DEF RunStep
<1>5. CASE ReadFails
  BY <1>5, ReadFailsShape
<1>6. CASE AbortRun
  BY <1>6, ForgottenShape
<1>7. CASE UNCHANGED vars
  BY <1>7, StutterShape
<1>8. QED BY <1>1, <1>2, <1>3, <1>4, <1>5, <1>6, <1>7 DEF Next

LEMMA Shape == Spec => []ShapeInv
<1>1. Init => ShapeInv
  BY InitShape
<1>2. ShapeInv /\ [Next]_vars => ShapeInv'
  BY NextShape
<1>3. QED BY <1>1, <1>2, PTL DEF Spec

(***************************************************************************)
(* What follows from it.                                                   *)
(***************************************************************************)
LEMMA RowTyped ==
  ASSUME ShapeInv, NEW r \in RowSet, RowFits(r)
  PROVE  r \in SourceRows
<1>1. r.obs \in ObsSet /\ Measured(r.obs)
  BY DEF RowSet, RowFits
<1>2. r.obs \in Observed
  BY <1>1, Observable, BoundsAssumption DEF ShapeInv, ScalarInv
<1>3. r.obs.size \in 0..(2 * MaxLen + 1)
  BY <1>2 DEF Observed
<1>4. r.offset \in 0..(2 * MaxLen + 1) /\ r.version \in 0..MaxVersion
  BY <1>3, BoundsAssumption DEF RowSet, RowFits, ShapeInv, ScalarInv
<1>5. QED BY <1>2, <1>4 DEF RowSet, SourceRows

LEMMA ShapeImpliesType ==
  ASSUME ShapeInv
  PROVE  TypeOK
<1>1. ScalarInv /\ MaxLen \in Nat /\ MaxVersion \in Nat
  BY BoundsAssumption DEF ShapeInv
<1>2. ASSUME NEW f \in Files
      PROVE  /\ Stat(file[f]) \in Observed
             /\ checkpoint[f] \in SourceRows /\ stageSource[f] \in SourceRows
             /\ failure[f].obs \in Observed
             /\ failure[f].version \in 0..version
             /\ plan[f].obs \in Observed
             /\ plan[f].start <= plan[f].obs.size
  <2>1. Stat(file[f]) \in Observed
    BY <1>1, StatFacts, Observable, BoundsAssumption
       DEF ShapeInv, FileInv, ScalarInv
  <2>2. checkpoint[f] \in SourceRows /\ stageSource[f] \in SourceRows
    BY RowTyped DEF ShapeInv, RowInv, StageInv
  <2>3. failure[f].obs \in Observed /\ failure[f].version \in 0..version
    BY <1>1 DEF ShapeInv, FailureInv, FailureSet, ScalarInv
  <2>4. plan[f] \in PlanSet /\ plan[f].obs \in ObsSet
          /\ Measured(plan[f].obs)
    BY DEF ShapeInv, PlanInv, PlanSet
  <2>5. plan[f].obs \in Observed
    BY <1>1, <2>4, Observable, BoundsAssumption DEF ScalarInv
  <2>6. plan[f].start <= plan[f].obs.size
    <3>1. CASE f \notin Planned
      BY <3>1, ConstantSets DEF Planned, NoPlan
    <3>2. CASE f \in Planned
      <4>1. PlanFits(plan[f], checkpoint[f]) /\ RowFits(checkpoint[f])
              /\ checkpoint[f] \in RowSet
        BY <3>2, PlannedFacts
      <4>2. CASE plan[f].disposition = "replace"
        BY <2>4, <4>1, <4>2 DEF PlanFits, ObsSet
      <4>3. CASE plan[f].disposition = "append"
        <5>1. /\ plan[f].start = checkpoint[f].offset
              /\ checkpoint[f].offset <= checkpoint[f].obs.size
              /\ plan[f].obs.size > checkpoint[f].obs.size
          BY <4>1, <4>3 DEF PlanFits, RowFits, Grown
        <5>2. /\ plan[f].start \in Nat /\ plan[f].obs.size \in Nat
              /\ checkpoint[f].obs.size \in Nat
          BY <2>4, <4>1 DEF PlanSet, RowSet, ObsSet
        <5>3. QED BY <5>1, <5>2
      <4>4. QED BY <2>4, <4>1, <4>2, <4>3 DEF PlanFits, PlanSet
    <3>3. QED BY <3>1, <3>2
  <2>7. QED BY <2>1, <2>2, <2>3, <2>5, <2>6
<1>3. alias \subseteq [file : Files, ord : 0..MaxLen, id : Ids]
  <2>1. SUFFICES ASSUME NEW a \in alias
                 PROVE  a \in [file : Files, ord : 0..MaxLen, id : Ids]
    OBVIOUS
  <2>2. a \in AliasSet /\ a.ord < MaxLen
    BY DEF ShapeInv, CorpusInv
  <2>3. QED BY <1>1, <2>2 DEF AliasSet
<1>4. stageMessage \subseteq StagedMessages
  <2>1. SUFFICES ASSUME NEW m \in stageMessage
                 PROVE  m \in StagedMessages
    OBVIOUS
  <2>2. m \in StageSet /\ m.ord < MaxLen
    BY DEF ShapeInv, MessageInv
  <2>3. QED BY <1>1, <2>2 DEF StageSet, StagedMessages
<1>5. message \in [Ids -> [text : Texts \cup {"none"}, cwd : BOOLEAN]]
  BY DEF ShapeInv, CorpusInv, MessageSet
<1>6. pos \in 0..MaxLen
  <2>1. CASE phase = "reading"
    BY <1>1, <2>1, ReadingFacts
  <2>2. CASE phase # "reading"
    BY <1>1, <2>2 DEF ShapeInv, ReadInv
  <2>3. QED BY <2>1, <2>2
<1>7. /\ edits \in 0..MaxEdits /\ faults \in 0..MaxFaults
      /\ version \in 1..MaxVersion
      /\ selected \in BOOLEAN /\ phase \in {"idle", "staging", "reading"}
      /\ config \in SUBSET Roots /\ ignoring \in BOOLEAN /\ failed \in BOOLEAN
      /\ cwd \in BOOLEAN
  BY <1>1 DEF ScalarInv
<1>8. /\ todo \subseteq Planned /\ current \in Files \cup {NoFile}
      /\ stageRemoved \subseteq Files
  BY DEF ShapeInv, PlanInv, ReadInv, StageInv
<1>9. QED BY <1>2, <1>3, <1>4, <1>5, <1>6, <1>7, <1>8 DEF TypeOK

(* Offsets and ordinals never pass the largest file, whatever is written   *)
(* while a run reads (refresh.py, the checkpoint and its staged rows).     *)
THEOREM TypeCorrect == Spec => []TypeOK
<1>1. ShapeInv => TypeOK
  BY ShapeImpliesType
<1>2. QED BY <1>1, Shape, PTL

(* A step that forgets a failure either stages its source anew, finds the  *)
(* file gone, or the root not configured.                                  *)
LEMMA FailureStep ==
  ASSUME ShapeInv, [Next]_vars, NEW f \in Files, Failed(f),
         failure'[f] = NoFailure
  PROVE  FailureSettled(f)
<1>1. failure \in [Files -> FailureSet] /\ failure'[f] # failure[f]
  BY DEF ShapeInv, FailureInv, Failed
<1>2. CASE BeginRun
  <2>1. PICK c \in Configs, flags \in Flags, missed \in SUBSET Files,
             unread \in SUBSET Files : Begin(c, flags, missed, unread)
    BY <1>2 DEF BeginRun
  <2> DEFINE s == Scan(c, missed, unread)
  <2>2. f \in Obsolete(s) \cup Orphaned(c, checkpoint)
    BY <1>1, <2>1 DEF Begin, ClearFailures
  <2>3. CASE f \in Obsolete(s)
    <3>1. Root(f) \in c /\ f \notin missed /\ f \notin s.discovered
      BY <2>3 DEF Obsolete, Scan
    <3>2. ~Exists(f)
      BY <3>1 DEF Scan
    <3>3. QED BY <3>2 DEF FailureSettled
  <2>4. CASE f \in Orphaned(c, checkpoint)
    BY <2>4 DEF Orphaned, FailureSettled
  <2>5. QED BY <2>2, <2>3, <2>4
<1>3. CASE Publish
  <2>1. /\ ClearFailures(Staged \cup stageRemoved
                           \cup Orphaned(config, checkpoint'))
        /\ phase = "staging"
        /\ checkpoint' = [g \in Files |->
             IF g \in Staged
             THEN [stageSource[g] EXCEPT !.disposition = "none"]
             ELSE IF g \in stageRemoved THEN NoSource ELSE checkpoint[g]]
    BY <1>3 DEF Publish, EndStaging
  <2>2. f \in Staged \cup stageRemoved \cup Orphaned(config, checkpoint')
    BY <1>1, <2>1 DEF ClearFailures
  <2>3. CASE f \in Staged
    <3> DEFINE r == stageSource[f]
    <3>1. r \in RowSet /\ r.status # "none" /\ f \in Planned
            /\ StageFits(r, plan[f])
      BY <2>3 DEF ShapeInv, StageInv, Staged
    <3>2. checkpoint'[f] = [r EXCEPT !.disposition = "none"]
      BY <2>1, <2>3
    <3> HIDE DEF r
    <3>3. checkpoint'[f].obs = plan[f].obs /\ checkpoint'[f].version = version
            /\ checkpoint'[f].status # "none"
      BY <3>1, <3>2 DEF RowSet, StageFits
    <3>4. ~UpToDate(plan[f].obs, checkpoint[f])
      BY <3>1, PlannedFacts DEF PlanFits
    <3>5. checkpoint'[f] # checkpoint[f]
      BY <3>3, <3>4 DEF UpToDate, SameMetadata, SameFile
    <3>6. QED BY <3>5 DEF FailureSettled
  <2>4. CASE f \in stageRemoved
    <3>1. f \notin Staged /\ Checkpointed(f)
      BY <2>4 DEF ShapeInv, StageInv, PlanInv
    <3>2. checkpoint'[f].status = "none"
      BY <2>1, <2>4, <3>1 DEF NoSource
    <3>3. QED BY <3>1, <3>2 DEF Checkpointed, FailureSettled
  <2>5. CASE f \in Orphaned(config, checkpoint')
    <3>1. config \in Configs
      BY <2>1 DEF ShapeInv, ScalarInv
    <3>2. QED BY <2>5, <3>1 DEF Orphaned, FailureSettled
  <2>6. QED BY <2>2, <2>3, <2>4, <2>5
<1>4. ASSUME NEW g \in Files, RetryDue(g)
      PROVE  FALSE
  <2> DEFINE r == [failure[g] EXCEPT !.due = TRUE]
  <2>1. failure' = [failure EXCEPT ![g] = r] /\ failure[g].class = "transient"
    BY <1>4 DEF RetryDue
  <2>2. r.class = "transient"
    <3>1. failure[g] \in FailureSet
      BY <1>1
    <3>2. QED BY <2>1, <3>1 DEF FailureSet
  <2> HIDE DEF r
  <2>3. CASE f = g
    BY <1>1, <2>1, <2>2, <2>3 DEF NoFailure
  <2>4. CASE f # g
    BY <1>1, <2>1, <2>4
  <2>5. QED BY <2>3, <2>4
<1>5. ASSUME NEW code, NEW class, phase = "reading",
             FailSource(current, code, class),
             code \in {"unknown", "unsupported", "changed", "unreadable"},
             class \in {"deterministic", "transient"}
      PROVE  FALSE
  <2>1. PICK r \in FailureSet :
          failure' = [failure EXCEPT ![current] = r] /\ r # NoFailure
    BY <1>5, FailureRow
  <2>2. QED BY <1>1, <2>1
<1>6. ~BlockSource /\ ~SourceChanged /\ ~ReadFails
  BY <1>5 DEF BlockSource, SourceChanged, ReadFails, CanRead, Blocking
<1>7. CASE UNCHANGED failure
  BY <1>1, <1>7
<1>8. CASE /\ ~BeginRun /\ ~Publish /\ ~BlockSource /\ ~SourceChanged
           /\ ~ReadFails /\ \A g \in Files : ~RetryDue(g)
  <2>1. CASE \E g \in Files : NativeWrite(g)
    <3>1. UNCHANGED failure
      BY <2>1 DEF NativeWrite, AppendRecord, AppendTail, PutFile,
         RewriteInPlace, DeleteFile, Edit
    <3>2. QED BY <1>7, <3>1
  <2>2. CASE \E g \in Files : TakeSource(g)
    <3>1. UNCHANGED failure
      BY <2>2 DEF TakeSource, OpenSource, StageArtifact
    <3>2. QED BY <1>7, <3>1
  <2>3. CASE Upgrade \/ StageExcluded \/ ReadBatch \/ Reparse \/ StageSource
    <3>1. UNCHANGED failure
      BY <2>3 DEF Upgrade, StageExcluded, ReadBatch, Reparse, StageSource
    <3>2. QED BY <1>7, <3>1
  <2>4. CASE PublishNothing \/ AbortConflict \/ AbortRun \/ UNCHANGED vars
    <3>1. UNCHANGED failure
      BY <2>4 DEF PublishNothing, AbortConflict, AbortRun, vars
    <3>2. QED BY <1>7, <3>1
  <2>5. QED BY <1>8, <2>1, <2>2, <2>3, <2>4 DEF Next, RunStep
<1>9. QED BY <1>2, <1>3, <1>4, <1>6, <1>8

(* A recorded failure disappears only when its source is checkpointed      *)
(* anew, is gone, or its root is no longer configured: no crash, abort,    *)
(* noop or half-done run forgets one (refresh.py,                          *)
(* _delete_obsolete_failed_observations and the publication).              *)
THEOREM FailuresAreKept == Spec => FailureNotForgotten
<1>1. ShapeInv /\ [Next]_vars =>
        [\A f \in Files :
           Failed(f) /\ failure'[f] = NoFailure => FailureSettled(f)]_vars
  BY FailureStep
<1>2. QED BY <1>1, Shape, PTL DEF Spec, FailureNotForgotten
==========================================================================
