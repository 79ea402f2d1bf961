----------------------- MODULE SourceContentProofs -----------------------
(***************************************************************************)
(* That what an index run publishes is what it read: the aliases of a      *)
(* source are those of one content it had, the messages say what their     *)
(* sources say, a file without unindexed bytes is wholly in the corpus,    *)
(* and the cwd of a session follows its checkpointed prefix.               *)
(*                                                                         *)
(* The theorems assume ~Regrow: no file is rewritten in place past a size  *)
(* that a plan or a checkpoint recorded, which the code takes for growth.  *)
(***************************************************************************)
EXTENDS SourceRefreshProofs

(***************************************************************************)
(* The inductive invariant.                                                *)
(***************************************************************************)

(* A file with the inode of a recorded observation has grown from it, or   *)
(* is no longer than it; with its mtime too, it is what was observed.      *)
KnownAs(x, o) ==
  o.inode # 0 /\ SameFile(x, o) =>
    /\ Prefix(o.seen, x.recs) \/ Size(x) <= o.size
    /\ x.mtime = o.mtime => Stat(x) = o
KnownInv ==
  \A f \in Files : /\ KnownAs(file[f], checkpoint[f].obs)
                   /\ KnownAs(file[f], plan[f].obs)
                   /\ KnownAs(file[f], stageSource[f].obs)

(* The staged messages of a file are those of a content, from one ordinal  *)
(* to another.                                                             *)
SaidIn(m, s) ==
  /\ m.ord < Len(s) /\ s[m.ord + 1].kind = "message"
  /\ s[m.ord + 1].id = m.id /\ s[m.ord + 1].text = m.text
StagedIn(messages, s, f, from, to) ==
  /\ \A m \in messages : m.file = f => SaidIn(m, s)
  /\ \A k \in from..(to - 1) :
       s[k + 1].kind = "message" => \E m \in messages : m.file = f /\ m.ord = k

AppendInv ==
  \A f \in Planned :
    plan[f].disposition = "append" =>
      Prefix(checkpoint[f].obs.seen, plan[f].obs.seen)
ReadContent ==
  phase = "reading" /\ Continues(file[current], plan[current].obs) =>
    StagedIn(stageMessage, plan[current].obs.seen, current,
             plan[current].start \div 2, pos)
StageContent ==
  \A f \in Files :
    stageSource[f].status = "indexed" =>
      StagedIn(stageMessage, plan[f].obs.seen, f, plan[f].start \div 2,
               Len(plan[f].obs.seen))

SaidInv == \A i \in Ids : message[i] = NoMessage \/ message[i].text \in Texts

CorpusContent == RowsAreOneContent /\ MessagesHaveSources /\ SaidInv
ContentInv ==
  KnownInv /\ AppendInv /\ ReadContent /\ StageContent /\ CorpusContent

(***************************************************************************)
(* Native writes.                                                          *)
(***************************************************************************)
LEMMA KnownEdit ==
  ASSUME ShapeInv, ContentInv, ~Regrow, NEW f \in Files, NativeWrite(f)
  PROVE  ContentInv'
<1>1. edits \in Nat
  BY BoundsAssumption DEF ShapeInv, ScalarInv
<1>2. PICK x \in FileSet :
        /\ Edit(f, x) /\ Len(x.recs) <= MaxLen
        /\ x = Absent \/ (x.inode # 0 /\ x.mtime = edits + 1)
  BY NativeWriteShape, BoundsAssumption, WritesAssumption
     DEF ShapeInv, ScalarInv
<1>3. /\ file' = [file EXCEPT ![f] = x]
      /\ UNCHANGED <<corpusVars, runVars>>
      /\ Recognisable(f, x)
  BY <1>2 DEF Edit
<1>4. file \in [Files -> FileSet]
  BY DEF ShapeInv, FileInv
<1>5. ASSUME NEW o \in ObsSet, Measured(o), KnownAs(file[f], o),
             o = NoStat \/ o \in Recorded(f)
      PROVE  KnownAs(x, o)
  <2>1. SUFFICES ASSUME o.inode # 0, SameFile(x, o)
                 PROVE  /\ Prefix(o.seen, x.recs) \/ Size(x) <= o.size
                        /\ x.mtime = o.mtime => Stat(x) = o
    BY DEF KnownAs
  <2>2. o \in Recorded(f)
    BY <1>5, <2>1, ConstantSets
  <2>3. Prefix(o.seen, x.recs) \/ Size(x) <= o.size
    BY <1>3, <2>1, <2>2 DEF Recognisable, Continues
  <2>4. x.mtime # o.mtime
    <3>1. x.mtime = edits + 1
      BY <1>2, <2>1 DEF Absent, SameFile
    <3>2. o.mtime <= edits /\ o.mtime \in Nat
      BY <1>5 DEF Measured, ObsSet
    <3>3. QED BY <1>1, <3>1, <3>2
  <2>5. QED BY <2>3, <2>4
<1>6. KnownInv'
  <2>1. ASSUME NEW g \in Files
        PROVE  /\ KnownAs(file'[g], checkpoint[g].obs)
               /\ KnownAs(file'[g], plan[g].obs)
               /\ KnownAs(file'[g], stageSource[g].obs)
    <3>1. CASE g # f
      <4>1. file'[g] = file[g]
        BY <1>3, <1>4, <3>1
      <4>2. QED BY <4>1 DEF ContentInv, KnownInv
    <3>2. CASE g = f
      <4>1. file'[g] = x
        BY <1>3, <1>4, <3>2
      <4>2. /\ checkpoint[f].obs \in ObsSet /\ Measured(checkpoint[f].obs)
            /\ plan[f].obs \in ObsSet /\ Measured(plan[f].obs)
            /\ stageSource[f].obs \in ObsSet /\ Measured(stageSource[f].obs)
        BY DEF ShapeInv, RowInv, PlanInv, StageInv, RowFits, RowSet, PlanSet
      <4>3. /\ KnownAs(file[f], checkpoint[f].obs)
            /\ KnownAs(file[f], plan[f].obs)
            /\ KnownAs(file[f], stageSource[f].obs)
        BY DEF ContentInv, KnownInv
      <4>4. /\ checkpoint[f].obs = NoStat \/ checkpoint[f].obs \in Recorded(f)
            /\ plan[f].obs = NoStat \/ plan[f].obs \in Recorded(f)
            /\ stageSource[f].obs = NoStat
                 \/ stageSource[f].obs \in Recorded(f)
        BY DEF Recorded
      <4>5. QED BY <1>5, <3>2, <4>1, <4>2, <4>3, <4>4
    <3>3. QED BY <3>1, <3>2
  <2>2. checkpoint' = checkpoint /\ plan' = plan /\ stageSource' = stageSource
    BY <1>3 DEF corpusVars, runVars, stageVars
  <2>3. QED BY <2>1, <2>2 DEF KnownInv
<1>7. ReadContent'
  <2>1. SUFFICES ASSUME phase' = "reading",
                        Continues(file'[current'], plan'[current'].obs)
                 PROVE  StagedIn(stageMessage', plan'[current'].obs.seen,
                                 current', plan'[current'].start \div 2, pos')
    BY DEF ReadContent
  <2>2. /\ phase' = phase /\ current' = current /\ plan' = plan
        /\ stageMessage' = stageMessage /\ pos' = pos
    BY <1>3 DEF runVars, readVars, stageVars
  <2>3. current \in Planned /\ current \in Files
    BY <2>1, <2>2, ReadingFacts
  <2>4. plan[current].obs \in Recorded(current)
    BY <2>3, PlannedFacts, ConstantSets DEF Recorded
  <2>5. Continues(file[current], plan[current].obs)
    <3>1. CASE current = f
      BY <1>3, <1>4, <2>1, <2>2, <2>4, <3>1 DEF Recognisable, Continues
    <3>2. CASE current # f
      BY <1>3, <1>4, <2>1, <2>2, <2>3, <3>2
    <3>3. QED BY <3>1, <3>2
  <2>6. StagedIn(stageMessage, plan[current].obs.seen, current,
                 plan[current].start \div 2, pos)
    BY <2>1, <2>2, <2>5 DEF ContentInv, ReadContent
  <2>7. QED BY <2>2, <2>6
<1>8. AppendInv' /\ StageContent' /\ CorpusContent'
  BY <1>3 DEF ContentInv, AppendInv, StageContent, CorpusContent, Planned,
     RowsAreOneContent, RowsOf, MessagesHaveSources, SaidInv,
     corpusVars, runVars, stageVars
<1>9. QED BY <1>6, <1>7, <1>8 DEF ContentInv

(* Steps that change neither the corpus nor the files nor what is staged.  *)
LEMMA ContentKept ==
  ASSUME ContentInv, UNCHANGED <<file, corpusVars, plan, stageVars>>,
         phase' # "reading" \/ UNCHANGED <<phase, current, pos>>
  PROVE  ContentInv'
<1>1. KnownInv' /\ AppendInv' /\ StageContent' /\ CorpusContent'
  BY DEF ContentInv, KnownInv, AppendInv, StageContent, CorpusContent, Planned,
     RowsAreOneContent, RowsOf, MessagesHaveSources, SaidInv,
     corpusVars, stageVars
<1>2. ReadContent'
  BY DEF ContentInv, ReadContent, stageVars
<1>3. QED BY <1>1, <1>2 DEF ContentInv

(***************************************************************************)
(* Steps of the run.                                                       *)
(***************************************************************************)
LEMMA StagedSame ==
  ASSUME NEW M, NEW N, NEW s, NEW f, NEW from, NEW to,
         StagedIn(M, s, f, from, to),
         \A n \in N : n.file = f =>
           \E m \in M : /\ m.file = f /\ m.ord = n.ord /\ m.id = n.id
                        /\ m.text = n.text,
         \A m \in M : m.file = f => \E n \in N : n.file = f /\ n.ord = m.ord
  PROVE  StagedIn(N, s, f, from, to)
<1>1. ASSUME NEW n \in N, n.file = f
      PROVE  SaidIn(n, s)
  <2>1. PICK m \in M : /\ m.file = f /\ m.ord = n.ord /\ m.id = n.id
                       /\ m.text = n.text
    BY <1>1
  <2>2. SaidIn(m, s)
    BY <2>1 DEF StagedIn
  <2>3. QED BY <2>1, <2>2 DEF SaidIn
<1>2. ASSUME NEW k \in from..(to - 1), s[k + 1].kind = "message"
      PROVE  \E n \in N : n.file = f /\ n.ord = k
  <2>1. PICK m \in M : m.file = f /\ m.ord = k
    BY <1>2 DEF StagedIn
  <2>2. QED BY <2>1
<1>3. QED BY <1>1, <1>2 DEF StagedIn

(* A plan is made for a file as it is.                                     *)
LEMMA StatKnown ==
  ASSUME NEW x
  PROVE  KnownAs(x, Stat(x))
BY DEF KnownAs, Stat, Prefix

LEMMA BeginContent ==
  ASSUME ShapeInv, ContentInv, phase = "idle", NEW c, NEW flags,
         NEW missed, NEW unread, Begin(c, flags, missed, unread)
  PROVE  ContentInv'
<1> DEFINE s == Scan(c, missed, unread)
           plans == Plans(s, flags)
<1>1. UNCHANGED <<envVars, corpusVars>>
  BY DEF Begin
<1>2. \/ UNCHANGED runVars
      \/ /\ phase' = "staging" /\ plan' = plans
         /\ UNCHANGED <<readVars, stageSource, stageMessage>>
  BY DEF Begin
<1>3. CASE UNCHANGED runVars
  BY <1>1, <1>3, ContentKept DEF envVars, runVars, readVars
<1>4. CASE /\ phase' = "staging" /\ plan' = plans
           /\ UNCHANGED <<readVars, stageSource, stageMessage>>
  <2>1. ASSUME NEW f \in Files
        PROVE  plans[f] = NoPlan \/
                 /\ plans[f].obs = Stat(file[f])
                 /\ PlanFits(plans[f], checkpoint[f])
    BY PlansFit
  <2> HIDE DEF plans
  <2>2. KnownInv'
    <3>1. ASSUME NEW f \in Files
          PROVE  /\ KnownAs(file[f], checkpoint[f].obs)
                 /\ KnownAs(file[f], plans[f].obs)
                 /\ KnownAs(file[f], stageSource[f].obs)
      <4>1. CASE plans[f] = NoPlan
        BY <4>1, ConstantSets DEF ContentInv, KnownInv, KnownAs, NoPlan
      <4>2. CASE plans[f].obs = Stat(file[f])
        BY <4>2, StatKnown DEF ContentInv, KnownInv
      <4>3. QED BY <2>1, <4>1, <4>2
    <3>2. /\ file' = file /\ checkpoint' = checkpoint /\ plan' = plans
          /\ stageSource' = stageSource
      BY <1>1, <1>4 DEF envVars, corpusVars
    <3>3. QED BY <3>1, <3>2 DEF KnownInv
  <2>3. AppendInv'
    <3>1. ASSUME NEW f \in Files, plans[f] # NoPlan,
                 plans[f].disposition = "append"
          PROVE  Prefix(checkpoint[f].obs.seen, plans[f].obs.seen)
      <4> DEFINE x == file[f]
                 o == checkpoint[f].obs
      <4>1. /\ plans[f].obs = Stat(x) /\ Grown(Stat(x), checkpoint[f])
        BY <2>1, <3>1 DEF PlanFits
      <4>2. /\ o.inode # 0 /\ SameFile(x, o) /\ Size(x) > o.size
            /\ Stat(x).seen = x.recs
        BY <4>1 DEF Grown, SameFile, Stat, ShapeInv, RowInv, RowFits
      <4>3. Size(x) \in Int /\ o.size \in Int
        <5>1. Stat(x) \in ObsSet /\ o \in ObsSet
          BY StatFacts DEF ShapeInv, FileInv, RowInv, RowSet
        <5>2. QED BY <5>1 DEF ObsSet, Stat
      <4>4. KnownAs(x, o)
        BY DEF ContentInv, KnownInv
      <4>5. Prefix(o.seen, x.recs)
        BY <4>2, <4>3, <4>4 DEF KnownAs
      <4>6. QED BY <4>1, <4>2, <4>5
    <3>2. checkpoint' = checkpoint
      BY <1>1 DEF corpusVars
    <3>3. QED BY <1>4, <3>1, <3>2 DEF AppendInv, Planned
  <2>4. StageContent'
    <3>1. \A f \in Files : stageSource'[f].status # "indexed"
      BY <1>4, IdleFacts DEF Staged
    <3>2. QED BY <3>1 DEF StageContent
  <2>5. ReadContent'
    BY <1>4 DEF ReadContent
  <2>6. CorpusContent'
    BY <1>1 DEF ContentInv, CorpusContent, RowsAreOneContent, RowsOf,
                MessagesHaveSources, SaidInv, corpusVars
  <2>7. QED BY <2>2, <2>3, <2>4, <2>5, <2>6 DEF ContentInv
<1>5. QED BY <1>2, <1>3, <1>4

LEMMA OpenSourceContent ==
  ASSUME ShapeInv, ContentInv, NEW f \in Files, OpenSource(f)
  PROVE  ContentInv'
<1>1. /\ phase = "staging" /\ f \in todo /\ current' = f
      /\ pos' = plan[f].start \div 2
      /\ UNCHANGED <<envVars, corpusVars, plan, stageVars>>
  BY DEF OpenSource, Takes
<1>2. /\ file' = file /\ checkpoint' = checkpoint /\ plan' = plan
      /\ stageSource' = stageSource /\ stageMessage' = stageMessage
  BY <1>1 DEF envVars, corpusVars, stageVars
<1>3. KnownInv' /\ AppendInv' /\ StageContent' /\ CorpusContent'
  BY <1>1, <1>2 DEF ContentInv, KnownInv, AppendInv, StageContent,
     CorpusContent, Planned, RowsAreOneContent, RowsOf, MessagesHaveSources,
     SaidInv, corpusVars
<1>4. f \in Planned /\ f \notin Staged
  BY <1>1 DEF ShapeInv, PlanInv, StageInv
<1>5. \A m \in stageMessage : m.file # f
  <2>1. SUFFICES ASSUME NEW m \in stageMessage
                 PROVE  m.file # f
    OBVIOUS
  <2>2. m.file \in Files /\ m.file # current
    BY <1>1, FilesAssumption DEF ShapeInv, MessageInv, ReadInv, StageSet
  <2>3. stageSource[m.file].status = "indexed"
    BY <2>2 DEF ShapeInv, MessageInv
  <2>4. QED BY <1>4, <2>2, <2>3 DEF Staged
<1>6. plan[f].start \div 2 \in Nat
  BY <1>4, PlannedFacts, StartFits, BoundsAssumption
<1>7. StagedIn(stageMessage, plan[f].obs.seen, f, plan[f].start \div 2,
               plan[f].start \div 2)
  BY <1>5, <1>6 DEF StagedIn
<1>8. ReadContent'
  BY <1>1, <1>2, <1>7 DEF ReadContent
<1>9. QED BY <1>3, <1>8 DEF ContentInv

LEMMA RowKnown ==
  ASSUME ShapeInv, ContentInv, NEW f \in Files, NEW r,
         r.obs = plan[f].obs, UNCHANGED <<file, checkpoint, plan>>,
         stageSource' = [stageSource EXCEPT ![f] = r]
  PROVE  /\ KnownInv' /\ AppendInv'
         /\ stageSource'[f] = r
         /\ \A g \in Files : g # f => stageSource'[g] = stageSource[g]
<1>1. stageSource \in [Files -> RowSet]
  BY DEF ShapeInv, StageInv
<1>2. stageSource'[f].obs = plan[f].obs /\ stageSource'[f] = r
        /\ \A g \in Files : g # f => stageSource'[g] = stageSource[g]
  BY <1>1
<1>3. KnownInv'
  BY <1>2 DEF ContentInv, KnownInv
<1>4. AppendInv'
  BY DEF ContentInv, AppendInv, Planned
<1>5. QED BY <1>2, <1>3, <1>4

LEMMA CorpusContentKept ==
  ASSUME ContentInv, UNCHANGED corpusVars
  PROVE  CorpusContent'
BY DEF ContentInv, CorpusContent, RowsAreOneContent, RowsOf, SaidInv,
       MessagesHaveSources, corpusVars

LEMMA StageArtifactContent ==
  ASSUME ShapeInv, ContentInv, NEW f \in Files, StageArtifact(f)
  PROVE  ContentInv'
<1>1. /\ phase = "staging" /\ phase' = phase
      /\ stageSource' = [stageSource EXCEPT ![f] =
           SourceRow(f, plan[f].obs.size, FALSE, "excluded")]
      /\ UNCHANGED <<envVars, corpusVars, plan, stageMessage>>
  BY DEF StageArtifact, Takes
<1>2. UNCHANGED <<file, checkpoint, plan>>
  BY <1>1 DEF envVars, corpusVars
<1>3. /\ KnownInv' /\ AppendInv' /\ stageSource'[f].status = "excluded"
      /\ \A g \in Files : g # f => stageSource'[g] = stageSource[g]
  <2> DEFINE r == SourceRow(f, plan[f].obs.size, FALSE, "excluded")
  <2>1. r.obs = plan[f].obs /\ r.status = "excluded"
          /\ stageSource' = [stageSource EXCEPT ![f] = r]
    BY <1>1 DEF SourceRow
  <2> HIDE DEF r
  <2>2. QED BY <1>2, <2>1, RowKnown
<1>4. StageContent'
  BY <1>1, <1>3 DEF ContentInv, StageContent
<1>5. ReadContent' /\ CorpusContent'
  BY <1>1, CorpusContentKept DEF ReadContent
<1>6. QED BY <1>3, <1>4, <1>5 DEF ContentInv

LEMMA StageExcludedContent ==
  ASSUME ShapeInv, ContentInv, StageExcluded
  PROVE  ContentInv'
<1>1. /\ phase = "reading" /\ phase' = "staging"
      /\ stageSource' = [stageSource EXCEPT ![current] =
           SourceRow(current, plan[current].obs.size, FALSE, "excluded")]
      /\ UNCHANGED <<envVars, corpusVars, plan, stageMessage>>
  BY DEF StageExcluded, CanRead, NextSource
<1>2. UNCHANGED <<file, checkpoint, plan>> /\ current \in Files
  BY <1>1, ReadingFacts DEF envVars, corpusVars
<1>3. /\ KnownInv' /\ AppendInv' /\ stageSource'[current].status = "excluded"
      /\ \A g \in Files : g # current => stageSource'[g] = stageSource[g]
  <2> DEFINE r == SourceRow(current, plan[current].obs.size, FALSE, "excluded")
  <2>1. r.obs = plan[current].obs /\ r.status = "excluded"
          /\ stageSource' = [stageSource EXCEPT ![current] = r]
    BY <1>1 DEF SourceRow
  <2> HIDE DEF r
  <2>2. QED BY <1>2, <2>1, RowKnown
<1>4. StageContent'
  BY <1>1, <1>3 DEF ContentInv, StageContent
<1>5. ReadContent' /\ CorpusContent'
  BY <1>1, CorpusContentKept DEF ReadContent
<1>6. QED BY <1>3, <1>4, <1>5 DEF ContentInv

LEMMA ReadBatchContent ==
  ASSUME ShapeInv, ContentInv, ReadBatch
  PROVE  ContentInv'
<1> DEFINE s == plan[current].obs.seen
           start == plan[current].start \div 2
<1>1. /\ phase = "reading" /\ pos < Target /\ CanRead /\ pos' = pos + 1
      /\ stageMessage' = stageMessage \cup NewMessages
      /\ UNCHANGED <<envVars, corpusVars, phase, plan, current, stageSource>>
  BY DEF ReadBatch, CanRead, NewMessages
<1>2. /\ file' = file /\ checkpoint' = checkpoint /\ plan' = plan
      /\ stageSource' = stageSource /\ current' = current /\ phase' = phase
  BY <1>1 DEF envVars, corpusVars
<1>3. KnownInv' /\ AppendInv' /\ CorpusContent'
  BY <1>1, <1>2, CorpusContentKept DEF ContentInv, KnownInv, AppendInv, Planned
<1>4. /\ current \in Files /\ pos \in Nat /\ current \notin Staged
      /\ Target = Len(s) /\ Target \in Nat
  BY <1>1, ReadingFacts
<1>5. \A m \in NewMessages : m.file = current /\ m.ord = pos
  BY <1>1, NewMessageFacts
<1>6. StageContent'
  <2>1. SUFFICES ASSUME NEW f \in Files, stageSource[f].status = "indexed"
                 PROVE  StagedIn(stageMessage', plan[f].obs.seen, f,
                                 plan[f].start \div 2, Len(plan[f].obs.seen))
    BY <1>2 DEF StageContent
  <2>2. f # current
    BY <1>4, <2>1 DEF Staged
  <2>3. \A n \in stageMessage' : n.file = f => n \in stageMessage
    BY <1>1, <1>5, <2>2
  <2>4. \A m \in stageMessage : m \in stageMessage'
    BY <1>1
  <2>5. StagedIn(stageMessage, plan[f].obs.seen, f,
                 plan[f].start \div 2, Len(plan[f].obs.seen))
    BY <2>1 DEF ContentInv, StageContent
  <2>6. QED BY <2>3, <2>4, <2>5, StagedSame
<1>7. ReadContent'
  <2>1. SUFFICES ASSUME Continues(file[current], plan[current].obs)
                 PROVE  StagedIn(stageMessage', s, current, start, pos + 1)
    BY <1>1, <1>2 DEF ReadContent
  <2>2. StagedIn(stageMessage, s, current, start, pos)
    BY <1>1, <2>1 DEF ContentInv, ReadContent
  <2>3. Here[pos + 1] = s[pos + 1] /\ pos < Len(s)
    BY <1>1, <1>4, <2>1 DEF Continues, Prefix, Here
  <2>4. ASSUME NEW m \in stageMessage', m.file = current
        PROVE  SaidIn(m, s)
    <3>1. CASE m \in stageMessage
      BY <2>2, <2>4, <3>1 DEF StagedIn
    <3>2. CASE m \in NewMessages
      <4>1. /\ m.ord = pos /\ Here[pos + 1].kind = "message"
            /\ m.id = Here[pos + 1].id /\ m.text = Here[pos + 1].text
        BY <1>1, <3>2, NewMessageFacts
      <4>2. QED BY <2>3, <4>1 DEF SaidIn
    <3>3. QED BY <1>1, <3>1, <3>2
  <2>5. ASSUME NEW k \in start..pos, s[k + 1].kind = "message"
        PROVE  \E m \in stageMessage' : m.file = current /\ m.ord = k
    <3>1. start \in Int
      BY <1>1, ReadingFacts, PlannedFacts DEF PlanSet
    <3>2. CASE k = pos
      <4>1. Observation(current, pos, Here[pos + 1], cwd) \in NewMessages
        BY <2>3, <2>5, <3>2 DEF NewMessages
      <4>2. QED BY <1>1, <1>5, <3>2, <4>1
    <3>3. CASE k # pos
      <4>1. k \in start..(pos - 1)
        BY <1>4, <2>5, <3>1, <3>3
      <4>2. PICK m \in stageMessage : m.file = current /\ m.ord = k
        BY <2>2, <2>5, <4>1 DEF StagedIn
      <4>3. QED BY <1>1, <4>2
    <3>4. QED BY <3>2, <3>3
  <2> DEFINE M == stageMessage'
  <2>6. \A m \in M : m.file = current => SaidIn(m, s)
    BY <2>4
  <2>7. \A k \in start..pos : s[k + 1].kind = "message" =>
          \E m \in M : m.file = current /\ m.ord = k
    BY <2>5
  <2>8. start \in Int
    BY <1>1, ReadingFacts, PlannedFacts DEF PlanSet
  <2> HIDE DEF s, start, M
  <2>9. StagedIn(M, s, current, start, pos + 1)
    BY <1>4, <2>6, <2>7, <2>8 DEF StagedIn
  <2>10. QED BY <2>9 DEF M
<1>8. QED BY <1>3, <1>6, <1>7 DEF ContentInv

LEMMA ReparseContent ==
  ASSUME ShapeInv, ContentInv, Reparse
  PROVE  ContentInv'
<1> DEFINE p == ReplacePlan(plan[current].obs)
<1>1. /\ phase = "reading" /\ pos' = 0
      /\ plan' = [plan EXCEPT ![current] = p]
      /\ stageMessage' = WithoutStaged(current)
      /\ UNCHANGED <<envVars, corpusVars, phase, current, stageSource>>
  BY DEF Reparse
<1>2. /\ file' = file /\ checkpoint' = checkpoint /\ phase' = phase
      /\ stageSource' = stageSource /\ current' = current
  BY <1>1 DEF envVars, corpusVars
<1>3. p.obs = plan[current].obs /\ p.start = 0 /\ p.disposition = "replace"
  BY DEF ReplacePlan
<1> HIDE DEF p
<1>4. /\ current \in Files /\ current \notin Staged
      /\ plan'[current] = p
      /\ \A f \in Files : f # current => plan'[f] = plan[f]
  BY <1>1, ReadingFacts DEF ShapeInv, PlanInv
<1>5. KnownInv' /\ CorpusContent'
  BY <1>1, <1>2, <1>3, <1>4, CorpusContentKept DEF ContentInv, KnownInv
<1>6. AppendInv'
  <2>1. SUFFICES ASSUME NEW f \in Files, plan'[f] # NoPlan,
                        plan'[f].disposition = "append"
                 PROVE  Prefix(checkpoint[f].obs.seen, plan'[f].obs.seen)
    BY <1>2 DEF AppendInv, Planned
  <2>2. f # current
    BY <1>3, <1>4, <2>1
  <2>3. QED BY <1>4, <2>1, <2>2 DEF ContentInv, AppendInv, Planned
<1>7. \A m \in stageMessage' : m.file # current /\ m \in stageMessage
  BY <1>1 DEF WithoutStaged
<1>8. StageContent'
  <2>1. SUFFICES ASSUME NEW f \in Files, stageSource[f].status = "indexed"
                 PROVE  StagedIn(stageMessage', plan'[f].obs.seen, f,
                                 plan'[f].start \div 2, Len(plan'[f].obs.seen))
    BY <1>2 DEF StageContent
  <2>2. f # current /\ plan'[f] = plan[f]
    BY <1>4, <2>1 DEF Staged
  <2>3. \A m \in stageMessage : m.file = f => m \in stageMessage'
    BY <1>1, <2>2 DEF WithoutStaged
  <2>4. StagedIn(stageMessage, plan[f].obs.seen, f,
                 plan[f].start \div 2, Len(plan[f].obs.seen))
    BY <2>1 DEF ContentInv, StageContent
  <2>5. QED BY <1>7, <2>2, <2>3, <2>4, StagedSame
<1>9. ReadContent'
  <2>1. p.start \div 2 = 0
    BY <1>3
  <2>2. StagedIn(stageMessage', p.obs.seen, current, 0, 0)
    BY <1>7 DEF StagedIn
  <2>3. QED BY <1>1, <1>2, <1>4, <2>1, <2>2 DEF ReadContent
<1>10. QED BY <1>5, <1>6, <1>8, <1>9 DEF ContentInv

(* A source that passes the last check is one the plan's observation is a  *)
(* prefix of.                                                              *)
LEMMA VerifiedContinues ==
  ASSUME ShapeInv, ContentInv, phase = "reading", Verified
  PROVE  Continues(file[current], plan[current].obs)
<1> DEFINE x == file[current]
           o == plan[current].obs
<1>1. current \in Planned /\ current \in Files
  BY ReadingFacts
<1>2. o \in ObsSet /\ o.inode # 0
  BY <1>1, PlannedFacts
<1>3. x \in FileSet /\ Stat(x) \in ObsSet
  BY <1>1, StatFacts DEF ShapeInv, FileInv
<1>4. KnownAs(x, o)
  BY <1>1 DEF ContentInv, KnownInv
<1>5. /\ SameFile(x, o) /\ Size(x) >= o.size
      /\ Size(x) = o.size => x.mtime = o.mtime
  BY DEF Verified
<1>6. Size(x) \in Nat /\ o.size \in Nat
  BY <1>2, <1>3 DEF Stat, ObsSet
<1> HIDE DEF x, o
<1>7. CASE Size(x) = o.size
  <2>1. Stat(x) = o
    BY <1>2, <1>4, <1>5, <1>7 DEF KnownAs
  <2>2. x.recs = o.seen
    BY <2>1 DEF Stat
  <2>3. Len(x.recs) \in Nat
    BY <1>3 DEF FileSet
  <2>4. QED BY <1>5, <2>2, <2>3 DEF Continues, Prefix, x, o
<1>8. CASE Size(x) # o.size
  <2>1. ~(Size(x) <= o.size)
    BY <1>5, <1>6, <1>8
  <2>2. QED BY <1>2, <1>4, <1>5, <2>1 DEF KnownAs, Continues, x, o
<1>9. QED BY <1>7, <1>8

LEMMA StampCovers ==
  ASSUME NEW f, NEW state, NEW m \in stageMessage, m \in StageSet
  PROVE  \E n \in Stamp(f, state) : n.file = m.file /\ n.ord = m.ord
<1> DEFINE n == IF m.file = f THEN [m EXCEPT !.cwd = @ \/ state] ELSE m
<1>1. n \in Stamp(f, state)
  BY DEF Stamp
<1>2. n.file = m.file /\ n.ord = m.ord
  BY DEF StageSet
<1>3. QED BY <1>1, <1>2

LEMMA StageSourceContent ==
  ASSUME ShapeInv, ContentInv, StageSource
  PROVE  ContentInv'
<1> DEFINE r == SourceRow(current, 2 * pos, cwd, "indexed")
<1>1. /\ phase = "reading" /\ phase' = "staging" /\ pos = Target /\ Verified
      /\ stageSource' = [stageSource EXCEPT ![current] = r]
      /\ stageMessage' = Stamp(current, cwd)
      /\ UNCHANGED <<envVars, corpusVars, plan>>
  BY DEF StageSource, NextSource
<1>2. UNCHANGED <<file, checkpoint, plan>> /\ current \in Files
        /\ pos = Len(plan[current].obs.seen)
  BY <1>1, ReadingFacts DEF envVars, corpusVars
<1>3. /\ KnownInv' /\ AppendInv'
      /\ \A g \in Files : g # current => stageSource'[g] = stageSource[g]
  <2>1. r.obs = plan[current].obs
    BY DEF SourceRow
  <2> HIDE DEF r
  <2>2. QED BY <1>1, <1>2, <2>1, RowKnown
<1>4. cwd \in BOOLEAN /\ stageMessage \subseteq StageSet
  BY DEF ShapeInv, ScalarInv, MessageInv
<1>5. \A n \in stageMessage' : \E m \in stageMessage :
        /\ n.file = m.file /\ n.ord = m.ord /\ n.id = m.id /\ n.text = m.text
  BY <1>1, <1>4, StampFacts
<1>6. \A m \in stageMessage : \E n \in stageMessage' :
        n.file = m.file /\ n.ord = m.ord
  BY <1>1, <1>4, StampCovers
<1>7. StageContent'
  <2>1. SUFFICES ASSUME NEW f \in Files, stageSource'[f].status = "indexed"
                 PROVE  StagedIn(stageMessage', plan[f].obs.seen, f,
                                 plan[f].start \div 2, Len(plan[f].obs.seen))
    BY <1>1 DEF StageContent
  <2>2. StagedIn(stageMessage, plan[f].obs.seen, f,
                 plan[f].start \div 2, Len(plan[f].obs.seen))
    <3>1. CASE f = current
      BY <1>1, <1>2, <3>1, VerifiedContinues DEF ContentInv, ReadContent
    <3>2. CASE f # current
      BY <1>3, <2>1, <3>2 DEF ContentInv, StageContent
    <3>3. QED BY <3>1, <3>2
  <2>3. \A n \in stageMessage' : n.file = f =>
          \E m \in stageMessage : /\ m.file = f /\ m.ord = n.ord /\ m.id = n.id
                                  /\ m.text = n.text
    BY <1>5
  <2>4. \A m \in stageMessage : m.file = f =>
          \E n \in stageMessage' : n.file = f /\ n.ord = m.ord
    BY <1>6
  <2>5. QED BY <2>2, <2>3, <2>4, StagedSame
<1>8. ReadContent' /\ CorpusContent'
  BY <1>1, CorpusContentKept DEF ReadContent
<1>9. QED BY <1>3, <1>7, <1>8 DEF ContentInv

LEMMA FailSourceContent ==
  ASSUME ShapeInv, ContentInv, phase = "reading", NEW code, NEW class,
         FailSource(current, code, class)
  PROVE  ContentInv'
<1>1. /\ phase' = "staging" /\ stageMessage' = WithoutStaged(current)
      /\ UNCHANGED <<envVars, corpusVars, plan, stageSource>>
  BY DEF FailSource, NextSource
<1>2. /\ file' = file /\ checkpoint' = checkpoint /\ plan' = plan
      /\ stageSource' = stageSource
  BY <1>1 DEF envVars, corpusVars
<1>3. KnownInv' /\ AppendInv' /\ CorpusContent' /\ ReadContent'
  BY <1>1, <1>2, CorpusContentKept
     DEF ContentInv, KnownInv, AppendInv, Planned, ReadContent
<1>4. StageContent'
  <2>1. SUFFICES ASSUME NEW f \in Files, stageSource[f].status = "indexed"
                 PROVE  StagedIn(stageMessage', plan[f].obs.seen, f,
                                 plan[f].start \div 2, Len(plan[f].obs.seen))
    BY <1>2 DEF StageContent
  <2>2. f # current
    BY <2>1, ReadingFacts DEF Staged
  <2>3. /\ \A m \in stageMessage : m.file = f => m \in stageMessage'
        /\ \A m \in stageMessage' : m \in stageMessage
    BY <1>1, <2>2 DEF WithoutStaged
  <2>4. StagedIn(stageMessage, plan[f].obs.seen, f,
                 plan[f].start \div 2, Len(plan[f].obs.seen))
    BY <2>1 DEF ContentInv, StageContent
  <2>5. QED BY <2>3, <2>4, StagedSame
<1>5. QED BY <1>3, <1>4 DEF ContentInv

LEMMA ForgetContent ==
  ASSUME Forget, UNCHANGED file,
         \A f \in Files : KnownAs(file[f], checkpoint'[f].obs)
  PROVE  KnownInv' /\ AppendInv' /\ ReadContent' /\ StageContent'
<1>1. \A f \in Files : /\ plan'[f] = NoPlan /\ stageSource'[f] = NoSource
  BY DEF Forget
<1>2. NoPlan.obs = NoStat /\ NoSource.obs = NoStat /\ NoSource.status = "none"
  BY DEF NoPlan, NoSource
<1>3. KnownInv'
  BY <1>1, <1>2, ConstantSets DEF KnownInv, KnownAs
<1>4. AppendInv' /\ StageContent'
  BY <1>1, <1>2 DEF AppendInv, StageContent, Planned
<1>5. ReadContent'
  BY DEF Forget, ReadContent
<1>6. QED BY <1>3, <1>4, <1>5

LEMMA ForgottenContent ==
  ASSUME ContentInv, PublishNothing \/ AbortConflict \/ AbortRun
  PROVE  ContentInv'
<1>1. Forget /\ UNCHANGED <<envVars, corpusVars>>
  BY DEF PublishNothing, AbortConflict, AbortRun
<1>2. file' = file /\ checkpoint' = checkpoint
  BY <1>1 DEF envVars, corpusVars
<1>3. QED BY <1>1, <1>2, ForgetContent, CorpusContentKept
             DEF ContentInv, KnownInv

(***************************************************************************)
(* Publication.                                                            *)
(***************************************************************************)
LEMMA OccurrencesOf ==
  ASSUME NEW f, NEW s, NEW a, Len(s) \in Nat
  PROVE  a \in Occurrences(f, s, 2 * Len(s)) <=>
           \E k \in Nat : /\ k < Len(s) /\ s[k + 1].kind = "message"
                          /\ a = [file |-> f, ord |-> k, id |-> s[k + 1].id]
<1>1. (2 * Len(s)) \div 2 = Len(s)
  BY Half
<1>2. ASSUME a \in Occurrences(f, s, 2 * Len(s))
      PROVE  \E k \in Nat : /\ k < Len(s) /\ s[k + 1].kind = "message"
                            /\ a = [file |-> f, ord |-> k, id |-> s[k + 1].id]
  <2>1. PICK i \in 1..Len(s) :
          /\ s[i].kind = "message"
          /\ a = [file |-> f, ord |-> i - 1, id |-> s[i].id]
    BY <1>1, <1>2 DEF Occurrences
  <2>2. i - 1 \in Nat /\ i - 1 < Len(s) /\ (i - 1) + 1 = i
    BY <2>1
  <2>3. QED BY <2>1, <2>2
<1>3. ASSUME NEW k \in Nat, k < Len(s), s[k + 1].kind = "message",
             a = [file |-> f, ord |-> k, id |-> s[k + 1].id]
      PROVE  a \in Occurrences(f, s, 2 * Len(s))
  <2>1. k + 1 \in 1..Len(s) /\ (k + 1) - 1 = k
    BY <1>3
  <2>2. QED BY <1>1, <1>3, <2>1 DEF Occurrences
<1>4. QED BY <1>2, <1>3

LEMMA PrefixAt ==
  ASSUME NEW s \in Seq(Record), NEW t, Prefix(s, t), NEW k \in Nat,
         k < Len(s)
  PROVE  Len(s) <= Len(t) /\ t[k + 1] = s[k + 1]
<1>1. k + 1 \in 1..Len(s)
  OBVIOUS
<1>2. QED BY <1>1 DEF Prefix

LEMMA StagedMessageFacts ==
  ASSUME ShapeInv, ContentInv, phase = "staging", NEW m \in stageMessage
  PROVE  /\ m.file \in Staged /\ m.file \in Files /\ m.id \in Ids
         /\ stageSource[m.file].status = "indexed"
         /\ m.text \in Texts /\ m.ord \in Nat
         /\ plan[m.file].start \div 2 <= m.ord
         /\ SaidIn(m, plan[m.file].obs.seen)
<1>1. m \in StageSet
  BY DEF ShapeInv, MessageInv
<1>2. m.file \in Files /\ m.id \in Ids /\ m.text \in Texts /\ m.ord \in Nat
  BY <1>1 DEF StageSet
<1>3. m.file # current
  BY <1>2, FilesAssumption DEF ShapeInv, ReadInv
<1>4. stageSource[m.file].status = "indexed"
        /\ plan[m.file].start \div 2 <= m.ord
  BY <1>3 DEF ShapeInv, MessageInv
<1>5. SaidIn(m, plan[m.file].obs.seen)
  BY <1>2, <1>4 DEF ContentInv, StageContent, StagedIn
<1>6. QED BY <1>2, <1>4, <1>5 DEF Staged

(* The rows that publication writes.                                       *)
LEMMA PublishedRow ==
  ASSUME ShapeInv, Publish, NEW f \in Files
  PROVE  /\ f \in Staged =>
              /\ checkpoint'[f].obs = plan[f].obs
              /\ checkpoint'[f].status = stageSource[f].status
              /\ checkpoint'[f].offset = stageSource[f].offset
              /\ checkpoint'[f].cwd = stageSource[f].cwd
              /\ f \in Planned /\ f \notin stageRemoved
         /\ f \in stageRemoved => checkpoint'[f] = NoSource
         /\ f \notin Staged \cup stageRemoved => checkpoint'[f] = checkpoint[f]
<1>1. checkpoint' = [g \in Files |->
        IF g \in Staged THEN [stageSource[g] EXCEPT !.disposition = "none"]
        ELSE IF g \in stageRemoved THEN NoSource ELSE checkpoint[g]]
  BY DEF Publish
<1>2. CASE f \in Staged
  <2> DEFINE r == stageSource[f]
  <2>1. r \in RowSet /\ r.obs = plan[f].obs /\ f \in Planned
          /\ f \notin stageRemoved
    BY <1>2 DEF ShapeInv, StageInv, StageFits, PlanInv
  <2>2. checkpoint'[f] = [r EXCEPT !.disposition = "none"]
    BY <1>1, <1>2
  <2> HIDE DEF r
  <2>3. checkpoint'[f].obs = r.obs /\ checkpoint'[f].status = r.status
          /\ checkpoint'[f].offset = r.offset /\ checkpoint'[f].cwd = r.cwd
    BY <2>1, <2>2 DEF RowSet
  <2>4. QED BY <1>2, <2>1, <2>3 DEF r
<1>3. CASE f \notin Staged
  BY <1>1, <1>3
<1>4. QED BY <1>2, <1>3

(* A source that is staged and not replaced is appended to.                *)
LEMMA StagedAppend ==
  ASSUME ShapeInv, ContentInv, NEW f \in Staged, f \notin Dropped
  PROVE  /\ checkpoint[f].status = "indexed"
         /\ plan[f].disposition = "append"
         /\ plan[f].start \div 2 = Len(checkpoint[f].obs.seen)
         /\ Prefix(checkpoint[f].obs.seen, plan[f].obs.seen)
<1>1. f \in Planned /\ StageFits(stageSource[f], plan[f])
  BY DEF ShapeInv, StageInv
<1>2. plan[f].disposition = "append"
  <2>1. plan[f].disposition # "replace"
    BY <1>1 DEF StageFits, Dropped, Replaced
  <2>2. QED BY <1>1, <2>1, PlannedFacts DEF PlanFits, PlanSet
<1>3. QED BY <1>1, <1>2, PlannedFacts, StartFits, BoundsAssumption
             DEF PlanFits, Grown, ContentInv, AppendInv

(* The records of an indexed checkpoint, and its aliases.                  *)
LEMMA IndexedRows ==
  ASSUME ShapeInv, ContentInv, NEW f \in Files,
         checkpoint[f].status = "indexed", NEW a
  PROVE  /\ checkpoint[f].obs.seen \in Seq(Record)
         /\ a \in RowsOf(f) <=>
              \E k \in Nat :
                /\ k < Len(checkpoint[f].obs.seen)
                /\ checkpoint[f].obs.seen[k + 1].kind = "message"
                /\ a = [file |-> f, ord |-> k,
                        id |-> checkpoint[f].obs.seen[k + 1].id]
<1> DEFINE s == checkpoint[f].obs.seen
<1>1. s \in Seq(Record) /\ Len(s) \in Nat
  BY DEF ShapeInv, RowInv, RowSet, ObsSet
<1>2. checkpoint[f].offset = 2 * Len(s)
  BY DEF ShapeInv, RowInv, RowFits
<1>3. RowsOf(f) = Occurrences(f, s, 2 * Len(s))
  BY <1>2 DEF ContentInv, CorpusContent, RowsAreOneContent
<1> HIDE DEF s
<1>4. a \in RowsOf(f) <=>
              \E k \in Nat :
                /\ k < Len(s) /\ s[k + 1].kind = "message"
                /\ a = [file |-> f, ord |-> k, id |-> s[k + 1].id]
  BY <1>1, <1>3, OccurrencesOf
<1>5. QED BY <1>1, <1>4 DEF s

(* An alias that survives is one of the content published for its source.  *)
LEMMA SurvivingAlias ==
  ASSUME ShapeInv, ContentInv, Publish, NEW a \in alias,
         a.file \notin Dropped, checkpoint'[a.file].status = "indexed"
  PROVE  /\ checkpoint[a.file].status = "indexed"
         /\ a.file \in Files /\ a.ord \in Nat
         /\ a.ord < Len(checkpoint[a.file].obs.seen)
         /\ Len(checkpoint[a.file].obs.seen)
              <= Len(checkpoint'[a.file].obs.seen)
         /\ checkpoint'[a.file].obs.seen[a.ord + 1] =
              checkpoint[a.file].obs.seen[a.ord + 1]
         /\ checkpoint[a.file].obs.seen[a.ord + 1].kind = "message"
         /\ a = [file |-> a.file, ord |-> a.ord,
                 id |-> checkpoint[a.file].obs.seen[a.ord + 1].id]
<1> DEFINE f == a.file
           s == checkpoint[f].obs.seen
           t == checkpoint'[f].obs.seen
<1>1. f \in Files /\ a.ord \in Nat
  BY DEF ShapeInv, CorpusInv, AliasSet
<1>2. f \notin stageRemoved
  BY DEF Dropped
<1>3. checkpoint[f].status = "indexed" /\ Prefix(s, t)
  <2>1. CASE f \in Staged
    BY <1>1, <2>1, StagedAppend, PublishedRow
  <2>2. CASE f \notin Staged
    <3>1. checkpoint'[f] = checkpoint[f]
      BY <1>1, <1>2, <2>2, PublishedRow
    <3>2. Len(s) \in Nat
      BY <1>1 DEF ShapeInv, RowInv, RowSet, ObsSet
    <3>3. QED BY <3>1, <3>2 DEF Prefix
  <2>3. QED BY <2>1, <2>2
<1>4. a \in RowsOf(f) /\ s \in Seq(Record)
  BY <1>1, <1>3, IndexedRows DEF RowsOf
<1>5. PICK k \in Nat : /\ k < Len(s) /\ s[k + 1].kind = "message"
                       /\ a = [file |-> f, ord |-> k, id |-> s[k + 1].id]
  BY <1>1, <1>3, <1>4, IndexedRows
<1>6. a.ord = k
  BY <1>5
<1>7. Len(s) <= Len(t) /\ t[k + 1] = s[k + 1]
  BY <1>3, <1>4, <1>5, PrefixAt
<1> HIDE DEF f, s, t
<1>8. /\ a.ord < Len(s) /\ s[a.ord + 1].kind = "message"
      /\ Len(s) <= Len(t) /\ t[a.ord + 1] = s[a.ord + 1]
      /\ a = [file |-> f, ord |-> a.ord, id |-> s[a.ord + 1].id]
  BY <1>5, <1>6, <1>7
<1>9. QED BY <1>1, <1>3, <1>8 DEF f, s, t

LEMMA AliasAfter ==
  ASSUME Publish, NEW a \in alias'
  PROVE  \/ a \in alias /\ a.file \notin Dropped
              /\ (a.id \notin Affected \/ a \in Kept)
         \/ \E m \in stageMessage :
              a = [file |-> m.file, ord |-> m.ord, id |-> m.id]
<1>1. alias' = {b \in alias : b.id \notin Affected} \cup CandidateAlias
  BY DEF Publish
<1>2. CASE a \in alias /\ a.id \notin Affected
  <2>1. a.file \notin Dropped
    BY <1>2 DEF Affected
  <2>2. QED BY <1>2, <2>1
<1>3. CASE a \in Kept
  BY <1>3 DEF Kept
<1>4. QED BY <1>1, <1>2, <1>3 DEF CandidateAlias

LEMMA AliasSurvives ==
  ASSUME Publish, NEW a \in alias, a.file \notin Dropped,
         \A m \in stageMessage : Key(m) # Key(a)
  PROVE  a \in alias'
<1>1. alias' = {b \in alias : b.id \notin Affected} \cup CandidateAlias
  BY DEF Publish
<1>2. QED BY <1>1 DEF CandidateAlias, Kept

LEMMA PublishRows ==
  ASSUME ShapeInv, ContentInv, Publish
  PROVE  RowsAreOneContent'
<1>1. phase = "staging"
  BY DEF Publish, EndStaging
<1>2. ASSUME NEW f \in Files, checkpoint'[f].status # "excluded", NEW a
      PROVE  a \in RowsOf(f)' <=>
               a \in Occurrences(f, checkpoint'[f].obs.seen,
                                 checkpoint'[f].offset)
  <2>1. a \in RowsOf(f)' <=> a \in alias' /\ a.file = f
    BY DEF RowsOf
  <2>2. CASE f \in Staged
    <3> DEFINE s == plan[f].obs.seen
    <3>1. /\ stageSource[f].status = "indexed"
          /\ checkpoint'[f].obs = plan[f].obs
          /\ checkpoint'[f].status = "indexed"
          /\ checkpoint'[f].offset = stageSource[f].offset
          /\ f \in Planned /\ f \notin stageRemoved
      <4>1. stageSource[f].status \in {"indexed", "excluded"}
        BY <2>2 DEF ShapeInv, StageInv, RowSet, Staged
      <4>2. QED BY <1>2, <2>2, <4>1, PublishedRow
    <3>2. s \in Seq(Record) /\ Len(s) \in Nat
      BY <3>1, PlannedFacts DEF ObsSet
    <3>3. checkpoint'[f].offset = 2 * Len(s)
      BY <2>2, <3>1 DEF ShapeInv, StageInv, StageFits, RowFits
    <3>4. StagedIn(stageMessage, s, f, plan[f].start \div 2, Len(s))
      BY <3>1 DEF ContentInv, StageContent
    <3>5. ASSUME a \in alias', a.file = f
          PROVE  \E k \in Nat :
                   /\ k < Len(s) /\ s[k + 1].kind = "message"
                   /\ a = [file |-> f, ord |-> k, id |-> s[k + 1].id]
      <4>1. CASE a \in alias /\ a.file \notin Dropped
        <5>1. /\ a.ord \in Nat /\ s[a.ord + 1].kind = "message"
              /\ a.ord < Len(checkpoint[f].obs.seen)
              /\ Len(checkpoint[f].obs.seen) <= Len(s)
              /\ a = [file |-> f, ord |-> a.ord, id |-> s[a.ord + 1].id]
          BY <3>1, <3>5, <4>1, SurvivingAlias
        <5>2. Len(checkpoint[f].obs.seen) \in Nat
          BY DEF ShapeInv, RowInv, RowSet, ObsSet
        <5>3. a.ord < Len(s)
          BY <3>2, <5>1, <5>2
        <5> HIDE DEF s
        <5>4. QED BY <5>1, <5>3
      <4>2. CASE \E m \in stageMessage :
                   a = [file |-> m.file, ord |-> m.ord, id |-> m.id]
        <5>1. PICK m \in stageMessage :
                   a = [file |-> m.file, ord |-> m.ord, id |-> m.id]
          BY <4>2
        <5>2. m.file = f /\ m.ord \in Nat
          BY <1>1, <3>5, <5>1, StagedMessageFacts
        <5>3. SaidIn(m, s)
          BY <3>4, <5>2 DEF StagedIn
        <5> HIDE DEF s
        <5>4. QED BY <5>1, <5>2, <5>3 DEF SaidIn
      <4>3. QED BY <3>5, <4>1, <4>2, AliasAfter
    <3>6. ASSUME NEW k \in Nat, k < Len(s), s[k + 1].kind = "message",
                 a = [file |-> f, ord |-> k, id |-> s[k + 1].id]
          PROVE  a \in alias' /\ a.file = f
      <4>1. CASE k < plan[f].start \div 2
        <5> DEFINE c == checkpoint[f].obs.seen
        <5>1. f \notin Dropped
          <6>1. plan[f].disposition # "replace"
            <7>1. SUFFICES ASSUME plan[f].disposition = "replace"
                           PROVE  FALSE
              OBVIOUS
            <7>2. plan[f].start = 0
              BY <3>1, <7>1, PlannedFacts DEF PlanFits
            <7>3. k < 0
              BY <4>1, <7>2
            <7>4. QED BY <7>3
          <6>2. stageSource[f].disposition # "replace"
            BY <2>2, <6>1 DEF ShapeInv, StageInv, StageFits
          <6>3. QED BY <3>1, <6>2 DEF Dropped, Replaced
        <5>2. /\ checkpoint[f].status = "indexed"
              /\ plan[f].start \div 2 = Len(c) /\ Prefix(c, s)
          BY <2>2, <5>1, StagedAppend
        <5>3. c \in Seq(Record)
          BY <5>2, IndexedRows
        <5>4. k < Len(c) /\ s[k + 1] = c[k + 1]
          BY <3>6, <4>1, <5>2, <5>3, PrefixAt
        <5>5. a \in RowsOf(f)
          <6>1. c[k + 1].kind = "message"
                  /\ a = [file |-> f, ord |-> k, id |-> c[k + 1].id]
            BY <3>6, <5>4
          <6>2. QED BY <5>2, <5>4, <6>1, IndexedRows
        <5>6. a \in alias /\ a.file = f /\ a.ord = k
          BY <3>6, <5>5 DEF RowsOf
        <5>7. ASSUME NEW m \in stageMessage, Key(m) = Key(a)
              PROVE  FALSE
          <6>1. m.file = f /\ m.ord = k
            BY <5>6, <5>7 DEF Key
          <6>2. plan[f].start \div 2 <= k
            BY <1>1, <6>1, StagedMessageFacts
          <6>3. plan[f].start \div 2 \in Nat
            BY <5>2, <5>3
          <6>4. QED BY <4>1, <6>2, <6>3
        <5>8. QED BY <5>1, <5>6, <5>7, AliasSurvives
      <4>2. CASE ~(k < plan[f].start \div 2)
        <5>1. plan[f].start \div 2 \in Nat
          BY <3>1, PlannedFacts, StartFits, BoundsAssumption
        <5>2. k \in (plan[f].start \div 2)..(Len(s) - 1)
          BY <3>2, <3>6, <4>2, <5>1
        <5>3. PICK m \in stageMessage : m.file = f /\ m.ord = k
          BY <3>4, <3>6, <5>2 DEF StagedIn
        <5>4. SaidIn(m, s)
          BY <3>4, <5>3 DEF StagedIn
        <5>5. a = [file |-> m.file, ord |-> m.ord, id |-> m.id]
          BY <3>6, <5>3, <5>4 DEF SaidIn
        <5>6. QED BY <3>6, <5>5 DEF Publish, CandidateAlias
      <4>3. QED BY <4>1, <4>2
    <3> HIDE DEF s
    <3>7. a \in Occurrences(f, s, 2 * Len(s)) <=>
            \E k \in Nat : /\ k < Len(s) /\ s[k + 1].kind = "message"
                           /\ a = [file |-> f, ord |-> k, id |-> s[k + 1].id]
      BY <3>2, OccurrencesOf
    <3>8. a \in Occurrences(f, s, 2 * Len(s)) <=> a \in alias' /\ a.file = f
      BY <3>5, <3>6, <3>7
    <3>9. QED BY <2>1, <3>1, <3>3, <3>8 DEF s
  <2>3. CASE f \in stageRemoved
    <3>1. checkpoint'[f] = NoSource /\ f \notin Staged
      BY <2>3, PublishedRow
    <3>2. checkpoint'[f].obs.seen = <<>>
            /\ checkpoint'[f].offset = 2 * Len(<<>>)
      BY <3>1, ConstantSets DEF NoSource
    <3>3. a \notin Occurrences(f, <<>>, 2 * Len(<<>>))
      <4> DEFINE e == <<>>
      <4>1. Len(e) = 0
        OBVIOUS
      <4> HIDE DEF e
      <4>2. a \notin Occurrences(f, e, 2 * Len(e))
        <5>1. Len(e) \in Nat /\ \A k \in Nat : ~(k < Len(e))
          BY <4>1
        <5>2. QED BY <5>1, OccurrencesOf
      <4>3. QED BY <4>2 DEF e
    <3>4. ~(a \in alias' /\ a.file = f)
      <4>1. SUFFICES ASSUME a \in alias', a.file = f PROVE FALSE
        OBVIOUS
      <4>2. f \in Dropped
        BY <2>3 DEF Dropped
      <4>3. PICK m \in stageMessage :
              a = [file |-> m.file, ord |-> m.ord, id |-> m.id]
        BY <4>1, <4>2, AliasAfter
      <4>4. m.file = f
        BY <4>1, <4>3
      <4>5. QED BY <1>1, <3>1, <4>4, StagedMessageFacts
    <3>5. QED BY <2>1, <3>2, <3>3, <3>4
  <2>4. CASE f \notin Staged \cup stageRemoved
    <3>1. checkpoint'[f] = checkpoint[f] /\ f \notin Dropped
      BY <2>4, PublishedRow DEF Dropped, Replaced
    <3>2. \A m \in stageMessage : m.file # f
      BY <1>1, <2>4, StagedMessageFacts
    <3>3. a \in alias' /\ a.file = f => a \in alias
      <4>1. SUFFICES ASSUME a \in alias', a.file = f PROVE a \in alias
        OBVIOUS
      <4>2. CASE \E m \in stageMessage :
                   a = [file |-> m.file, ord |-> m.ord, id |-> m.id]
        BY <3>2, <4>1, <4>2
      <4>3. QED BY <4>1, <4>2, AliasAfter
    <3>4. a \in alias /\ a.file = f => a \in alias'
      <4>1. SUFFICES ASSUME a \in alias, a.file = f PROVE a \in alias'
        OBVIOUS
      <4>2. \A m \in stageMessage : Key(m) # Key(a)
        BY <3>2, <4>1 DEF Key
      <4>3. QED BY <3>1, <4>1, <4>2, AliasSurvives
    <3>5. RowsOf(f) = Occurrences(f, checkpoint[f].obs.seen,
                                  checkpoint[f].offset)
      BY <1>2, <3>1 DEF ContentInv, CorpusContent, RowsAreOneContent
    <3>6. a \in RowsOf(f) <=> a \in alias /\ a.file = f
      BY DEF RowsOf
    <3>7. QED BY <2>1, <3>1, <3>3, <3>4, <3>5, <3>6
  <2>5. QED BY <2>2, <2>3, <2>4
<1>3. ASSUME NEW f \in Files, checkpoint'[f].status # "excluded"
      PROVE  RowsOf(f)' = Occurrences(f, checkpoint'[f].obs.seen,
                                      checkpoint'[f].offset)
  BY <1>2, <1>3
<1>4. QED BY <1>3 DEF RowsAreOneContent

LEMMA ObservedTexts ==
  ASSUME ShapeInv, ContentInv, NEW m \in Observations
  PROVE  m.text \in Texts
<1>1. CASE m \in stageMessage
  BY <1>1 DEF ShapeInv, MessageInv, StageSet
<1>2. CASE \E a \in Kept : m.id = a.id /\ m.text = message[a.id].text
  <2>1. PICK a \in Kept : m.text = message[a.id].text
    BY <1>2
  <2>2. a \in alias /\ a.id \in Ids
    BY DEF Kept, ShapeInv, CorpusInv, AliasSet
  <2>3. message[a.id] # NoMessage
    BY <2>2 DEF ContentInv, CorpusContent, MessagesHaveSources
  <2>4. QED BY <2>1, <2>2, <2>3 DEF ContentInv, CorpusContent, SaidInv
<1>3. QED BY <1>1, <1>2, ObservationFacts

(* What publication says of an identity is what every observation of it    *)
(* says.                                                                   *)
LEMMA PublishedMessage ==
  ASSUME ShapeInv, ContentInv, Publish, NEW i \in Ids, i \in Affected,
         NEW m \in Observations, m.id = i
  PROVE  message'[i].text = m.text /\ message'[i] # NoMessage
           /\ message'[i].cwd = First(i).cwd
<1>1. First(i) \in Observations /\ First(i).id = i
  BY FirstExists
<1>2. message'[i] = [text |-> First(i).text, cwd |-> First(i).cwd]
  <2>1. message' = [j \in Ids |->
          IF j \in Affected THEN CandidateMessage(j) ELSE message[j]]
    BY DEF Publish
  <2>2. QED BY <2>1 DEF CandidateMessage
<1>3. First(i).text = m.text
  BY <1>1 DEF Publish, Conflict
<1>4. First(i).text \in Texts
  BY <1>1, ObservedTexts
<1>5. First(i).text # NoMessage.text
  BY <1>4, TextsAssumption DEF NoMessage
<1>6. QED BY <1>2, <1>3, <1>5

(* The observation behind a published alias of an affected identity.       *)
LEMMA ObservationOf ==
  ASSUME NEW a \in CandidateAlias, ShapeInv
  PROVE  \E m \in Observations :
           /\ m.file = a.file /\ m.ord = a.ord /\ m.id = a.id
           /\ \/ m \in stageMessage
              \/ a \in Kept /\ m.text = message[a.id].text
                   /\ m.cwd = message[a.id].cwd
<1>1. CASE a \in Kept
  <2> DEFINE m == [file |-> a.file, ord |-> a.ord, id |-> a.id,
                   text |-> message[a.id].text, cwd |-> message[a.id].cwd]
  <2>1. m \in Observations
    BY <1>1 DEF Observations
  <2>2. QED BY <1>1, <2>1
<1>2. CASE \E m \in stageMessage :
             a = [file |-> m.file, ord |-> m.ord, id |-> m.id]
  BY <1>2 DEF Observations
<1>3. QED BY <1>1, <1>2 DEF CandidateAlias

LEMMA PublishSaid ==
  ASSUME ShapeInv, ContentInv, Publish, NEW i \in Ids
  PROVE  /\ (message'[i] # NoMessage) <=> \E a \in alias' : a.id = i
         /\ message'[i] = NoMessage \/ message'[i].text \in Texts
<1>1. alias' = {b \in alias : b.id \notin Affected} \cup CandidateAlias
        /\ message' = [j \in Ids |->
             IF j \in Affected THEN CandidateMessage(j) ELSE message[j]]
  BY DEF Publish
<1>2. \A a \in CandidateAlias : a.id \in Affected
  BY DEF CandidateAlias, Kept, Affected
<1>3. CASE i \in Affected /\ \E m \in Observations : m.id = i
  <2>1. PICK m \in Observations : m.id = i
    BY <1>3
  <2>2. message'[i].text = m.text /\ message'[i] # NoMessage
    BY <1>3, <2>1, PublishedMessage
  <2>3. m.text \in Texts
    BY ObservedTexts
  <2>4. \E a \in CandidateAlias : a.id = i
    <3> DEFINE a == [file |-> m.file, ord |-> m.ord, id |-> m.id]
    <3>1. CASE m \in stageMessage
      <4>1. a \in CandidateAlias
        BY <3>1 DEF CandidateAlias
      <4>2. a.id = i
        BY <2>1
      <4>3. QED BY <4>1, <4>2
    <3>2. CASE \E b \in Kept : m.id = b.id
      BY <2>1, <3>2 DEF CandidateAlias
    <3>3. QED BY <3>1, <3>2, ObservationFacts
  <2>5. QED BY <1>1, <2>2, <2>3, <2>4
<1>4. CASE i \in Affected /\ ~\E m \in Observations : m.id = i
  <2>1. message'[i] = NoMessage
    BY <1>1, <1>4 DEF CandidateMessage
  <2>2. ASSUME NEW a \in alias', a.id = i
        PROVE  FALSE
    <3>1. a \in CandidateAlias
      BY <1>1, <1>4, <2>2
    <3>2. \E m \in Observations : m.id = a.id
      BY <3>1, ObservationOf
    <3>3. QED BY <1>4, <2>2, <3>2
  <2>3. QED BY <2>1, <2>2
<1>5. CASE i \notin Affected
  <2>1. message'[i] = message[i]
    BY <1>1, <1>5
  <2>2. \A a : a.id = i => (a \in alias <=> a \in alias')
    BY <1>1, <1>2, <1>5
  <2>3. (message[i] # NoMessage) <=> \E a \in alias : a.id = i
    BY DEF ContentInv, CorpusContent, MessagesHaveSources
  <2>4. message[i] = NoMessage \/ message[i].text \in Texts
    BY DEF ContentInv, CorpusContent, SaidInv
  <2>5. QED BY <2>1, <2>2, <2>3, <2>4
<1>6. QED BY <1>3, <1>4, <1>5

LEMMA PublishTexts ==
  ASSUME ShapeInv, ContentInv, Publish, NEW a \in alias',
         checkpoint'[a.file].status = "indexed"
  PROVE  message'[a.id].text = checkpoint'[a.file].obs.seen[a.ord + 1].text
<1> DEFINE t == checkpoint'[a.file].obs.seen
<1>1. alias' = {b \in alias : b.id \notin Affected} \cup CandidateAlias
        /\ message' = [j \in Ids |->
             IF j \in Affected THEN CandidateMessage(j) ELSE message[j]]
        /\ phase = "staging"
  BY DEF Publish, EndStaging
<1>2. ASSUME a \in alias, a.file \notin Dropped
      PROVE  message[a.id].text = t[a.ord + 1].text /\ a.id \in Ids
  <2>1. checkpoint[a.file].status = "indexed"
          /\ t[a.ord + 1] = checkpoint[a.file].obs.seen[a.ord + 1]
    BY <1>2, SurvivingAlias
  <2>2. message[a.id].text = checkpoint[a.file].obs.seen[a.ord + 1].text
    BY <1>2, <2>1 DEF ContentInv, CorpusContent, MessagesHaveSources
  <2>3. a.id \in Ids
    BY <1>2 DEF ShapeInv, CorpusInv, AliasSet
  <2>4. QED BY <2>1, <2>2, <2>3
<1>3. CASE a \in alias /\ a.file \notin Dropped /\ a.id \notin Affected
  BY <1>1, <1>2, <1>3
<1>4. CASE a \in CandidateAlias
  <2>1. PICK m \in Observations :
           /\ m.file = a.file /\ m.ord = a.ord /\ m.id = a.id
           /\ \/ m \in stageMessage
              \/ a \in Kept /\ m.text = message[a.id].text
    BY <1>4, ObservationOf
  <2>2. a.id \in Affected /\ a.id \in Ids
    BY <1>4, <2>1, ObservationFacts DEF CandidateAlias, Kept, Affected
  <2>3. message'[a.id].text = m.text
    BY <2>1, <2>2, PublishedMessage
  <2>4. m.text = t[a.ord + 1].text
    <3>1. CASE m \in stageMessage
      <4>1. m.file \in Staged /\ m.file \in Files
              /\ SaidIn(m, plan[m.file].obs.seen)
        BY <1>1, <3>1, StagedMessageFacts
      <4>2. t = plan[m.file].obs.seen
        BY <2>1, <4>1, PublishedRow
      <4>3. QED BY <2>1, <4>1, <4>2 DEF SaidIn
    <3>2. CASE a \in Kept /\ m.text = message[a.id].text
      BY <1>2, <3>2 DEF Kept
    <3>3. QED BY <2>1, <3>1, <3>2
  <2>5. QED BY <2>3, <2>4
<1>5. QED BY <1>1, <1>3, <1>4 DEF Affected

LEMMA PublishContent ==
  ASSUME ShapeInv, ContentInv, Publish
  PROVE  ContentInv'
<1>1. RowsAreOneContent'
  BY PublishRows
<1>2. MessagesHaveSources' /\ SaidInv'
  BY PublishSaid, PublishTexts DEF MessagesHaveSources, SaidInv
<1>3. \A f \in Files : KnownAs(file[f], checkpoint'[f].obs)
  <2>1. SUFFICES ASSUME NEW f \in Files
                 PROVE  KnownAs(file[f], checkpoint'[f].obs)
    OBVIOUS
  <2>2. CASE f \in stageRemoved
    <3>1. checkpoint'[f].obs = NoStat
      BY <2>2, PublishedRow DEF NoSource
    <3>2. QED BY <3>1, ConstantSets DEF KnownAs
  <2>3. CASE f \notin stageRemoved
    <3>1. checkpoint'[f].obs \in {plan[f].obs, checkpoint[f].obs}
      BY <2>3, PublishedRow
    <3>2. QED BY <3>1 DEF ContentInv, KnownInv
  <2>4. QED BY <2>2, <2>3
<1>4. KnownInv' /\ AppendInv' /\ ReadContent' /\ StageContent'
  <2>1. Forget /\ UNCHANGED file
    BY DEF Publish, envVars
  <2>2. QED BY <1>3, <2>1, ForgetContent
<1>5. QED BY <1>1, <1>2, <1>4 DEF ContentInv, CorpusContent

(***************************************************************************)
(* The theorems.                                                           *)
(***************************************************************************)
LEMMA InitContent ==
  ASSUME Init
  PROVE  ContentInv
<1>1. /\ file = [f \in Files |-> Absent]
      /\ checkpoint = [f \in Files |-> NoSource]
      /\ plan = [f \in Files |-> NoPlan]
      /\ stageSource = [f \in Files |-> NoSource]
      /\ alias = {} /\ message = [i \in Ids |-> NoMessage]
      /\ phase = "idle"
  BY DEF Init
<1>2. NoSource.obs = NoStat /\ NoPlan.obs = NoStat /\ NoStat.inode = 0
        /\ NoSource.status = "none" /\ NoSource.offset = 0
        /\ NoStat.seen = <<>>
  BY DEF NoSource, NoPlan, NoStat, Stat, Absent
<1>3. KnownInv
  BY <1>1, <1>2 DEF KnownInv, KnownAs
<1>4. AppendInv /\ ReadContent /\ StageContent
  BY <1>1, <1>2 DEF AppendInv, ReadContent, StageContent, Planned
<1>5. RowsAreOneContent
  <2>1. \A f : Occurrences(f, <<>>, 0) = {}
    BY DEF Occurrences
  <2>2. QED BY <1>1, <1>2, <2>1 DEF RowsAreOneContent, RowsOf
<1>6. MessagesHaveSources /\ SaidInv
  BY <1>1 DEF MessagesHaveSources, SaidInv
<1>7. QED BY <1>3, <1>4, <1>5, <1>6 DEF ContentInv, CorpusContent

LEMMA NextContent ==
  ASSUME ShapeInv, ContentInv, ~Regrow, [Next]_vars
  PROVE  ContentInv'
<1>1. ASSUME NEW f \in Files, NativeWrite(f) \/ RetryDue(f)
      PROVE  ContentInv'
  <2>1. CASE NativeWrite(f)
    BY <2>1, KnownEdit
  <2>2. CASE RetryDue(f)
    <3>1. UNCHANGED <<file, corpusVars, plan, stageVars, phase, current, pos>>
      BY <2>2 DEF RetryDue, envVars, runVars, readVars
    <3>2. QED BY <3>1, ContentKept
  <2>3. QED BY <1>1, <2>1, <2>2
<1>2. CASE Upgrade \/ UNCHANGED vars
  <2>1. UNCHANGED <<file, corpusVars, plan, stageVars, phase, current, pos>>
    BY <1>2 DEF Upgrade, vars, envVars, runVars, readVars
  <2>2. QED BY <2>1, ContentKept
<1>3. CASE BeginRun
  BY <1>3, BeginContent DEF BeginRun
<1>4. CASE RunStep
  <2>1. CASE \E f \in Files : TakeSource(f)
    BY <2>1, OpenSourceContent, StageArtifactContent DEF TakeSource
  <2>2. CASE StageExcluded \/ ReadBatch \/ Reparse \/ StageSource
    BY <2>2, StageExcludedContent, ReadBatchContent, ReparseContent,
       StageSourceContent
  <2>3. CASE BlockSource \/ SourceChanged
    BY <2>3, FailSourceContent DEF BlockSource, SourceChanged, CanRead
  <2>4. CASE Publish
    BY <2>4, PublishContent
  <2>5. CASE PublishNothing \/ AbortConflict
    BY <2>5, ForgottenContent
  <2>6. QED BY <1>4, <2>1, <2>2, <2>3, <2>4, <2>5 DEF RunStep
<1>5. CASE ReadFails
  BY <1>5, FailSourceContent DEF ReadFails
<1>6. CASE AbortRun
  BY <1>6, ForgottenContent
<1>7. QED BY <1>1, <1>2, <1>3, <1>4, <1>5, <1>6 DEF Next

LEMMA ContentHolds ==
  ASSUME ~Regrow
  PROVE  Spec => []ContentInv
<1>1. Init => ContentInv
  BY InitContent
<1>2. ShapeInv /\ ContentInv /\ [Next]_vars => ContentInv'
  BY NextContent
<1>3. QED BY <1>1, <1>2, Shape, PTL DEF Spec

(* The aliases of a source are those of one content it had when its        *)
(* checkpoint was observed: whatever native writes, failures, re-parses,   *)
(* crashes and aborts came between, the corpus holds no row of a failed or *)
(* half-replaced parse and misses none (_parse_and_stage_source and        *)
(* _create_candidate_projection of refresh.py).                            *)
THEOREM RowsOfOneContent ==
  ASSUME ~Regrow
  PROVE  Spec => []RowsAreOneContent
<1>1. ContentInv => RowsAreOneContent
  BY DEF ContentInv, CorpusContent
<1>2. Spec => []ContentInv
  BY ContentHolds
<1>3. QED BY <1>1, <1>2, PTL

(* A message is published exactly when an occurrence of it is, and says    *)
(* what each indexed source that holds it says: _create_candidate_projec-  *)
(* tion re-elects the messages of every identity it touches.               *)
THEOREM MessagesOfSources ==
  ASSUME ~Regrow
  PROVE  Spec => []MessagesHaveSources
<1>1. ContentInv => MessagesHaveSources
  BY DEF ContentInv, CorpusContent
<1>2. Spec => []ContentInv
  BY ContentHolds
<1>3. QED BY <1>1, <1>2, PTL

LEMMA UnindexedFacts ==
  ASSUME ShapeInv, ContentInv, NEW f \in Files, Exists(f),
         checkpoint[f].status = "indexed",
         UnindexedBytes(Stat(file[f]), checkpoint[f]) = -1
  PROVE  /\ file[f].tail = 0 /\ checkpoint[f].obs.seen = file[f].recs
         /\ checkpoint[f].offset = 2 * Len(file[f].recs)
         /\ Size(file[f]) = 2 * Len(file[f].recs)
<1> DEFINE x == file[f]
           c == checkpoint[f]
           s == Stat(x)
<1>1. /\ x \in FileSet /\ Len(x.recs) \in Nat /\ x.tail \in {0, 1}
      /\ c.obs \in ObsSet /\ c.offset = 2 * Len(c.obs.seen)
      /\ c.offset \in Nat
      /\ s.size = 2 * Len(x.recs) + x.tail /\ s.inode = x.inode
      /\ s.mtime = x.mtime /\ s.seen = x.recs
  BY DEF ShapeInv, FileInv, FileSet, RowInv, RowSet, RowFits, Stat, Size
<1>2. KnownAs(x, c.obs)
  BY DEF ContentInv, KnownInv
<1> HIDE DEF x, c, s
<1>3. c.status = "indexed" /\ UnindexedBytes(s, c) = -1
        /\ s = Stat(x) /\ x.inode # 0
  BY DEF x, c, s, Exists
<1>4. s.size \in Nat
  BY <1>1
<1>5. SameFile(s, c.obs) /\ Unchanged(s, c)
  BY <1>1, <1>3, <1>4 DEF UnindexedBytes
<1>6. s = c.obs
  BY <1>1, <1>2, <1>3, <1>5 DEF KnownAs, SameFile, Unchanged
<1>7. c.obs.seen = x.recs /\ c.obs.size = 2 * Len(x.recs) + x.tail
        /\ c.obs.size <= c.offset
  BY <1>1, <1>5, <1>6 DEF Unchanged
<1>8. x.tail = 0 /\ Size(x) = 2 * Len(x.recs)
  BY <1>1, <1>7 DEF Size
<1>9. QED BY <1>1, <1>7, <1>8 DEF x, c

(* Where the freshness scan reports nothing unindexed for an indexed file  *)
(* (_unindexed_bytes of staleness.py), the corpus holds every record of    *)
(* the file as it is now and no partial tail is pending.                   *)
THEOREM NothingUnindexed ==
  ASSUME ~Regrow
  PROVE  Spec => []ZeroUnindexedIsComplete
<1>1. ShapeInv /\ ContentInv => ZeroUnindexedIsComplete
  <2>1. SUFFICES ASSUME ShapeInv, ContentInv, NEW f \in Files, Exists(f),
                        checkpoint[f].status = "indexed",
                        UnindexedBytes(Stat(file[f]), checkpoint[f]) = -1
                 PROVE  /\ file[f].tail = 0
                        /\ RowsOf(f) =
                             Occurrences(f, file[f].recs, Size(file[f]))
    BY DEF ZeroUnindexedIsComplete
  <2>2. RowsOf(f) = Occurrences(f, checkpoint[f].obs.seen,
                                checkpoint[f].offset)
    BY <2>1 DEF ContentInv, CorpusContent, RowsAreOneContent
  <2>3. QED BY <2>1, <2>2, UnindexedFacts
<1>2. Spec => []ContentInv
  BY ContentHolds
<1>3. QED BY <1>1, <1>2, Shape, PTL

(***************************************************************************)
(* The cwd of a session.                                                   *)
(***************************************************************************)

(* No two files hold a message of the same identity: no session was copied *)
(* or forked into another file.                                            *)
MayWrite(f, i) == \E r \in Writes(f) : r.kind = "message" /\ r.id = i
DisjointWrites ==
  \A f, g \in Files : \A i \in Ids : MayWrite(f, i) /\ MayWrite(g, i) => f = g

(* One of the first n records of a content establishes cwd.                *)
HasCwd(s, n) == \E k \in 1..n : s[k].kind = "cwd"

OwnContents ==
  \A f \in Files : /\ file[f].recs \in Seq(Writes(f))
                   /\ checkpoint[f].obs.seen \in Seq(Writes(f))
                   /\ plan[f].obs.seen \in Seq(Writes(f))
OwnAliases == \A a \in alias : MayWrite(a.file, a.id)
RowCwd ==
  \A f \in Files :
    checkpoint[f].status = "indexed" =>
      (checkpoint[f].cwd <=>
         HasCwd(checkpoint[f].obs.seen, Len(checkpoint[f].obs.seen)))
ReadCwd ==
  phase = "reading" =>
    /\ Continues(file[current], plan[current].obs) =>
         (cwd <=> HasCwd(plan[current].obs.seen, pos))
    /\ \A m \in stageMessage : m.file = current /\ m.cwd => cwd
StageCwd ==
  \A f \in Files :
    stageSource[f].status = "indexed" =>
      /\ stageSource[f].cwd <=>
           HasCwd(plan[f].obs.seen, Len(plan[f].obs.seen))
      /\ plan[f].disposition = "append" /\ stageSource[f].cwd => plan[f].cwd
      /\ \A m \in stageMessage : m.file = f => m.cwd = stageSource[f].cwd
MessageCwd ==
  \A a \in alias :
    checkpoint[a.file].status = "indexed" =>
      message[a.id].cwd = checkpoint[a.file].cwd

CwdInv ==
  OwnContents /\ OwnAliases /\ RowCwd /\ ReadCwd /\ StageCwd /\ MessageCwd

LEMMA OwnWrite ==
  ASSUME NEW f \in Files, NativeWrite(f), OwnContents
  PROVE  \E x : /\ Edit(f, x) /\ x.recs \in Seq(Writes(f))
<1>1. file[f].recs \in Seq(Writes(f))
  BY DEF OwnContents
<1>2. \A s \in Content(f) : s \in Seq(Writes(f))
  <2>1. SUFFICES ASSUME NEW s \in Content(f)
                 PROVE  s \in Seq(Writes(f))
    OBVIOUS
  <2>2. CASE s = <<>>
    BY <2>2
  <2>3. CASE \E r \in Writes(f) : s = <<r>>
    BY <2>3
  <2>4. QED BY <2>1, <2>2, <2>3 DEF Content
<1>3. CASE AppendRecord(f)
  <2>1. PICK r \in Writes(f) : Edit(f, Written(f, Append(file[f].recs, r), 0))
    BY <1>3 DEF AppendRecord
  <2>2. Append(file[f].recs, r) \in Seq(Writes(f))
    BY <1>1
  <2>3. Written(f, Append(file[f].recs, r), 0).recs = Append(file[f].recs, r)
    BY DEF Written
  <2>4. QED BY <2>1, <2>2, <2>3
<1>4. CASE AppendTail(f)
  <2>1. Written(f, file[f].recs, 1).recs = file[f].recs
    BY DEF Written
  <2>2. QED BY <1>1, <1>4, <2>1 DEF AppendTail
<1>5. CASE PutFile(f)
  <2>1. PICK i \in {1, 2}, s \in Content(f) :
          Edit(f, [inode |-> i, mtime |-> edits + 1, recs |-> s, tail |-> 0])
    BY <1>5 DEF PutFile
  <2>2. [inode |-> i, mtime |-> edits + 1, recs |-> s, tail |-> 0].recs = s
    OBVIOUS
  <2>3. QED BY <1>2, <2>1, <2>2
<1>6. CASE RewriteInPlace(f)
  <2>1. PICK s \in Content(f) : Edit(f, Written(f, s, 0))
    BY <1>6 DEF RewriteInPlace
  <2>2. Written(f, s, 0).recs = s
    BY DEF Written
  <2>3. QED BY <1>2, <2>1, <2>2
<1>7. CASE DeleteFile(f)
  <2>1. Absent.recs \in Seq(Writes(f))
    BY DEF Absent
  <2>2. Edit(f, Absent)
    BY <1>7 DEF DeleteFile
  <2>3. QED BY <2>1, <2>2
<1>8. QED BY <1>3, <1>4, <1>5, <1>6, <1>7 DEF NativeWrite

LEMMA EditCwd ==
  ASSUME ShapeInv, ContentInv, CwdInv, ~Regrow, NEW f \in Files, NativeWrite(f)
  PROVE  CwdInv'
<1>1. PICK x : Edit(f, x) /\ x.recs \in Seq(Writes(f))
  BY OwnWrite DEF CwdInv
<1>2. /\ file' = [file EXCEPT ![f] = x] /\ Recognisable(f, x)
      /\ UNCHANGED <<corpusVars, runVars>>
  BY <1>1 DEF Edit
<1>3. /\ checkpoint' = checkpoint /\ plan' = plan /\ alias' = alias
      /\ message' = message /\ phase' = phase /\ current' = current
      /\ pos' = pos /\ cwd' = cwd /\ stageSource' = stageSource
      /\ stageMessage' = stageMessage
  BY <1>2 DEF corpusVars, runVars, readVars, stageVars
<1>4. file \in [Files -> FileSet]
  BY DEF ShapeInv, FileInv
<1>5. \A g \in Files : file'[g] = IF g = f THEN x ELSE file[g]
  BY <1>2, <1>4
<1>6. OwnContents'
  BY <1>1, <1>3, <1>5 DEF CwdInv, OwnContents
<1>7. ReadCwd'
  <2>1. SUFFICES ASSUME phase = "reading"
                 PROVE  /\ Continues(file'[current], plan[current].obs) =>
                             Continues(file[current], plan[current].obs)
    BY <1>3 DEF CwdInv, ReadCwd
  <2>2. current \in Planned /\ current \in Files
    BY <2>1, ReadingFacts
  <2>3. plan[current].obs \in Recorded(current)
    BY <2>2, PlannedFacts, ConstantSets DEF Recorded
  <2>4. CASE current = f
    BY <1>2, <1>5, <2>2, <2>3, <2>4 DEF Recognisable, Continues
  <2>5. CASE current # f
    BY <1>5, <2>2, <2>5
  <2>6. QED BY <2>4, <2>5
<1>8. OwnAliases' /\ RowCwd' /\ StageCwd' /\ MessageCwd'
  BY <1>3 DEF CwdInv, OwnAliases, RowCwd, StageCwd, MessageCwd
<1>9. QED BY <1>6, <1>7, <1>8 DEF CwdInv

(* The parts of the invariant that are about the corpus.                   *)
LEMMA CorpusCwdKept ==
  ASSUME CwdInv, UNCHANGED corpusVars
  PROVE  OwnAliases' /\ RowCwd' /\ MessageCwd'
BY DEF CwdInv, OwnAliases, RowCwd, MessageCwd, corpusVars

LEMMA CwdKept ==
  ASSUME CwdInv, UNCHANGED <<file, corpusVars, plan, stageVars>>,
         phase' # "reading" \/ UNCHANGED <<phase, current, pos, cwd>>
  PROVE  CwdInv'
<1>1. OwnContents' /\ StageCwd'
  BY DEF CwdInv, OwnContents, StageCwd, corpusVars, stageVars
<1>2. ReadCwd'
  BY DEF CwdInv, ReadCwd, stageVars
<1>3. QED BY <1>1, <1>2, CorpusCwdKept DEF CwdInv

LEMMA BeginCwd ==
  ASSUME ShapeInv, CwdInv, phase = "idle", NEW c, NEW flags,
         NEW missed, NEW unread, Begin(c, flags, missed, unread)
  PROVE  CwdInv'
<1> DEFINE s == Scan(c, missed, unread)
           plans == Plans(s, flags)
<1>1. UNCHANGED <<envVars, corpusVars>>
  BY DEF Begin
<1>2. \/ UNCHANGED runVars
      \/ /\ phase' = "staging" /\ plan' = plans
         /\ UNCHANGED <<readVars, stageSource, stageMessage>>
  BY DEF Begin
<1>3. CASE UNCHANGED runVars
  BY <1>1, <1>3, CwdKept DEF envVars, runVars, readVars
<1>4. CASE /\ phase' = "staging" /\ plan' = plans
           /\ UNCHANGED <<readVars, stageSource, stageMessage>>
  <2>1. ASSUME NEW f \in Files
        PROVE  plans[f].obs.seen \in Seq(Writes(f))
    <3>1. plans[f] = NoPlan \/ plans[f].obs = Stat(file[f])
      BY PlansFit
    <3> HIDE DEF plans
    <3>2. Stat(file[f]).seen = file[f].recs
      BY DEF Stat
    <3>3. NoPlan.obs.seen = <<>> /\ <<>> \in Seq(Writes(f))
      BY ConstantSets DEF NoPlan
    <3>4. file[f].recs \in Seq(Writes(f))
      BY DEF CwdInv, OwnContents
    <3>5. QED BY <3>1, <3>2, <3>3, <3>4
  <2> HIDE DEF plans
  <2>2. OwnContents'
    BY <1>1, <1>4, <2>1 DEF CwdInv, OwnContents, envVars, corpusVars
  <2>3. \A f \in Files : stageSource'[f].status # "indexed"
    BY <1>4, IdleFacts DEF Staged
  <2>4. StageCwd' /\ ReadCwd'
    BY <1>4, <2>3 DEF StageCwd, ReadCwd
  <2>5. QED BY <1>1, <2>2, <2>4, CorpusCwdKept DEF CwdInv
<1>5. QED BY <1>2, <1>3, <1>4

LEMMA HasCwdPrefix ==
  ASSUME NEW s \in Seq(Record), NEW t, Prefix(s, t)
  PROVE  HasCwd(s, Len(s)) <=> HasCwd(t, Len(s))
BY DEF HasCwd, Prefix

LEMMA HasCwdNext ==
  ASSUME NEW s, NEW n \in Nat
  PROVE  HasCwd(s, n + 1) <=> HasCwd(s, n) \/ s[n + 1].kind = "cwd"
<1>1. \A k \in 1..(n + 1) : k \in 1..n \/ k = n + 1
  OBVIOUS
<1>2. (1..n) \subseteq 1..(n + 1) /\ n + 1 \in 1..(n + 1)
  OBVIOUS
<1> QED BY <1>1, <1>2 DEF HasCwd

(* The parser state an append starts from is that of the records before.   *)
LEMMA AppendCwd ==
  ASSUME ShapeInv, ContentInv, CwdInv, NEW f \in Planned,
         plan[f].disposition = "append"
  PROVE  /\ plan[f].cwd <=>
              HasCwd(plan[f].obs.seen, Len(checkpoint[f].obs.seen))
         /\ plan[f].cwd = checkpoint[f].cwd
         /\ plan[f].start \div 2 = Len(checkpoint[f].obs.seen)
<1>1. /\ f \in Files /\ Grown(plan[f].obs, checkpoint[f])
      /\ plan[f].cwd = checkpoint[f].cwd
  BY PlannedFacts DEF PlanFits
<1>2. checkpoint[f].status = "indexed"
  BY <1>1 DEF Grown
<1>3. plan[f].start \div 2 = Len(checkpoint[f].obs.seen)
  BY PlannedFacts, StartFits, BoundsAssumption
<1>4. Prefix(checkpoint[f].obs.seen, plan[f].obs.seen)
  BY DEF ContentInv, AppendInv
<1>5. checkpoint[f].obs.seen \in Seq(Record)
  BY <1>1 DEF ShapeInv, RowInv, RowSet, ObsSet
<1>6. checkpoint[f].cwd <=>
        HasCwd(checkpoint[f].obs.seen, Len(checkpoint[f].obs.seen))
  BY <1>1, <1>2 DEF CwdInv, RowCwd
<1>7. QED BY <1>1, <1>3, <1>4, <1>5, <1>6, HasCwdPrefix

LEMMA OpenSourceCwd ==
  ASSUME ShapeInv, ContentInv, CwdInv, NEW f \in Files, OpenSource(f)
  PROVE  CwdInv'
<1>1. /\ phase = "staging" /\ f \in todo /\ current' = f
      /\ pos' = plan[f].start \div 2 /\ cwd' = plan[f].cwd
      /\ UNCHANGED <<envVars, corpusVars, plan, stageVars>>
  BY DEF OpenSource, Takes
<1>2. /\ file' = file /\ checkpoint' = checkpoint /\ plan' = plan
      /\ stageSource' = stageSource /\ stageMessage' = stageMessage
  BY <1>1 DEF envVars, corpusVars, stageVars
<1>3. OwnContents' /\ StageCwd'
  BY <1>2 DEF CwdInv, OwnContents, StageCwd
<1>4. f \in Planned /\ f \notin Staged
  BY <1>1 DEF ShapeInv, PlanInv, StageInv
<1>5. \A m \in stageMessage : m.file # f
  <2>1. SUFFICES ASSUME NEW m \in stageMessage
                 PROVE  m.file # f
    OBVIOUS
  <2>2. m.file \in Files /\ m.file # current
    BY <1>1, FilesAssumption DEF ShapeInv, MessageInv, ReadInv, StageSet
  <2>3. stageSource[m.file].status = "indexed"
    BY <2>2 DEF ShapeInv, MessageInv
  <2>4. QED BY <1>4, <2>2, <2>3 DEF Staged
<1>6. plan[f].cwd <=> HasCwd(plan[f].obs.seen, plan[f].start \div 2)
  <2>1. CASE plan[f].disposition = "append"
    BY <1>4, <2>1, AppendCwd
  <2>2. CASE plan[f].disposition # "append"
    <3>1. plan[f].start = 0 /\ plan[f].cwd = FALSE
      BY <1>4, <2>2, PlannedFacts DEF PlanFits, PlanSet
    <3>2. QED BY <3>1 DEF HasCwd
  <2>3. QED BY <2>1, <2>2
<1>7. ReadCwd'
  BY <1>1, <1>2, <1>5, <1>6 DEF ReadCwd
<1>8. QED BY <1>1, <1>3, <1>7, CorpusCwdKept DEF CwdInv

(* A source without messages is staged as out of scope.                    *)
LEMMA ExcludeCwd ==
  ASSUME ShapeInv, CwdInv, NEW f \in Files,
         stageSource' = [stageSource EXCEPT ![f] =
           SourceRow(f, plan[f].obs.size, FALSE, "excluded")],
         UNCHANGED <<file, corpusVars, plan, stageMessage>>,
         phase' # "reading"
  PROVE  CwdInv'
<1> DEFINE r == SourceRow(f, plan[f].obs.size, FALSE, "excluded")
<1>1. r.status = "excluded"
  BY DEF SourceRow
<1>2. stageSource' = [stageSource EXCEPT ![f] = r]
  OBVIOUS
<1> HIDE DEF r
<1>3. StageCwd'
  <2>1. SUFFICES ASSUME NEW g \in Files, stageSource'[g].status = "indexed"
        PROVE
          /\ stageSource'[g].cwd <=>
               HasCwd(plan[g].obs.seen, Len(plan[g].obs.seen))
          /\ plan[g].disposition = "append" /\ stageSource'[g].cwd
               => plan[g].cwd
          /\ \A m \in stageMessage : m.file = g => m.cwd = stageSource'[g].cwd
    BY DEF StageCwd
  <2>2. stageSource'[g] = stageSource[g]
    BY <1>1, <1>2, <2>1 DEF ShapeInv, StageInv
  <2>3. QED BY <2>1, <2>2 DEF CwdInv, StageCwd
<1>4. OwnContents' /\ ReadCwd'
  BY DEF CwdInv, OwnContents, ReadCwd, corpusVars
<1>5. QED BY <1>3, <1>4, CorpusCwdKept DEF CwdInv

LEMMA ReadBatchCwd ==
  ASSUME ShapeInv, ContentInv, CwdInv, ReadBatch
  PROVE  CwdInv'
<1> DEFINE s == plan[current].obs.seen
<1>1. /\ phase = "reading" /\ pos < Target /\ CanRead /\ pos' = pos + 1
      /\ cwd' = (cwd \/ Here[pos + 1].kind = "cwd")
      /\ stageMessage' = stageMessage \cup NewMessages
      /\ UNCHANGED <<envVars, corpusVars, phase, plan, current, stageSource>>
  BY DEF ReadBatch, CanRead, NewMessages
<1>2. /\ file' = file /\ checkpoint' = checkpoint /\ plan' = plan
      /\ stageSource' = stageSource /\ current' = current /\ phase' = phase
  BY <1>1 DEF envVars, corpusVars
<1>3. OwnContents'
  BY <1>2 DEF CwdInv, OwnContents
<1>4. /\ current \in Files /\ pos \in Nat /\ current \notin Staged
      /\ Target = Len(s) /\ Target \in Nat
  BY <1>1, ReadingFacts
<1>5. \A m \in NewMessages : m.file = current /\ m.cwd = cwd
  BY <1>1, NewMessageFacts
<1>6. StageCwd'
  <2>1. SUFFICES ASSUME NEW f \in Files, stageSource[f].status = "indexed",
                        NEW m \in stageMessage', m.file = f
                 PROVE  m \in stageMessage
    BY <1>2 DEF CwdInv, StageCwd
  <2>2. f # current
    BY <1>4, <2>1 DEF Staged
  <2>3. QED BY <1>1, <1>5, <2>1, <2>2
<1>7. \A m \in stageMessage' : m.file = current /\ m.cwd => cwd'
  BY <1>1, <1>5 DEF CwdInv, ReadCwd
<1>8. ASSUME Continues(file[current], plan[current].obs)
      PROVE  cwd' <=> HasCwd(s, pos + 1)
  <2>1. Here[pos + 1] = s[pos + 1]
    BY <1>1, <1>4, <1>8 DEF Continues, Prefix, Here
  <2>2. cwd <=> HasCwd(s, pos)
    BY <1>1, <1>8 DEF CwdInv, ReadCwd
  <2>3. HasCwd(s, pos + 1) <=> HasCwd(s, pos) \/ s[pos + 1].kind = "cwd"
    BY <1>4, HasCwdNext
  <2>4. QED BY <1>1, <2>1, <2>2, <2>3
<1>9. ReadCwd'
  BY <1>1, <1>2, <1>7, <1>8 DEF ReadCwd
<1>10. QED BY <1>1, <1>3, <1>6, <1>9, CorpusCwdKept DEF CwdInv

LEMMA ReparseCwd ==
  ASSUME ShapeInv, CwdInv, Reparse
  PROVE  CwdInv'
<1> DEFINE p == ReplacePlan(plan[current].obs)
<1>1. /\ phase = "reading" /\ pos' = 0 /\ cwd' = FALSE
      /\ plan' = [plan EXCEPT ![current] = p]
      /\ stageMessage' = WithoutStaged(current)
      /\ UNCHANGED <<envVars, corpusVars, phase, current, stageSource>>
  BY DEF Reparse
<1>2. /\ file' = file /\ checkpoint' = checkpoint /\ phase' = phase
      /\ stageSource' = stageSource /\ current' = current
  BY <1>1 DEF envVars, corpusVars
<1>3. p.obs = plan[current].obs
  BY DEF ReplacePlan
<1> HIDE DEF p
<1>4. /\ current \in Files /\ current \notin Staged
      /\ plan'[current] = p
      /\ \A f \in Files : f # current => plan'[f] = plan[f]
  BY <1>1, ReadingFacts DEF ShapeInv, PlanInv
<1>5. \A f \in Files : plan'[f].obs = plan[f].obs
  BY <1>3, <1>4
<1>6. OwnContents'
  BY <1>2, <1>5 DEF CwdInv, OwnContents
<1>7. \A m \in stageMessage' : m.file # current /\ m \in stageMessage
  BY <1>1 DEF WithoutStaged
<1>8. StageCwd'
  <2>1. SUFFICES ASSUME NEW f \in Files, stageSource[f].status = "indexed"
                 PROVE  f # current
    BY <1>2, <1>4, <1>7 DEF CwdInv, StageCwd
  <2>2. QED BY <1>4, <2>1 DEF Staged
<1>9. ReadCwd'
  BY <1>1, <1>2, <1>7 DEF ReadCwd, HasCwd
<1>10. QED BY <1>1, <1>6, <1>8, <1>9, CorpusCwdKept DEF CwdInv

LEMMA StageSourceCwd ==
  ASSUME ShapeInv, ContentInv, CwdInv, StageSource
  PROVE  CwdInv'
<1> DEFINE r == SourceRow(current, 2 * pos, cwd, "indexed")
<1>1. /\ phase = "reading" /\ phase' = "staging" /\ pos = Target /\ Verified
      /\ stageSource' = [stageSource EXCEPT ![current] = r]
      /\ stageMessage' = Stamp(current, cwd) /\ ~Established
      /\ UNCHANGED <<envVars, corpusVars, plan>>
  BY DEF StageSource, NextSource
<1>2. UNCHANGED <<file, checkpoint, plan>> /\ current \in Files
        /\ pos = Len(plan[current].obs.seen) /\ cwd \in BOOLEAN
  BY <1>1, ReadingFacts DEF envVars, corpusVars, ShapeInv, ScalarInv
<1>3. r.cwd = cwd
  BY DEF SourceRow
<1> HIDE DEF r
<1>4. stageSource'[current] = r
        /\ \A g \in Files : g # current => stageSource'[g] = stageSource[g]
  BY <1>1, <1>2 DEF ShapeInv, StageInv
<1>5. cwd <=> HasCwd(plan[current].obs.seen, Len(plan[current].obs.seen))
  BY <1>1, <1>2, VerifiedContinues DEF CwdInv, ReadCwd
<1>6. \A n \in stageMessage' : \E m \in stageMessage :
        /\ n.file = m.file /\ m.cwd \in BOOLEAN
        /\ n.cwd = IF m.file = current THEN m.cwd \/ cwd ELSE m.cwd
  <2>1. SUFFICES ASSUME NEW n \in Stamp(current, cwd)
                 PROVE  \E m \in stageMessage :
                   /\ n.file = m.file /\ m.cwd \in BOOLEAN
                   /\ n.cwd = IF m.file = current THEN m.cwd \/ cwd
                              ELSE m.cwd
    BY <1>1
  <2>2. \A m \in stageMessage : m.cwd \in BOOLEAN
    BY DEF ShapeInv, MessageInv, StageSet
  <2>3. QED BY <1>2, <2>1, <2>2, StampFacts
<1>7. StageCwd'
  <2>1. SUFFICES ASSUME NEW f \in Files, stageSource'[f].status = "indexed"
        PROVE
          /\ stageSource'[f].cwd <=>
               HasCwd(plan[f].obs.seen, Len(plan[f].obs.seen))
          /\ plan[f].disposition = "append" /\ stageSource'[f].cwd
               => plan[f].cwd
          /\ \A n \in stageMessage' : n.file = f => n.cwd = stageSource'[f].cwd
    BY <1>1 DEF StageCwd
  <2>2. CASE f = current
    <3>1. ASSUME NEW n \in stageMessage', n.file = f
          PROVE  n.cwd = cwd
      <4>1. PICK m \in stageMessage :
              /\ n.file = m.file /\ m.cwd \in BOOLEAN
              /\ n.cwd = IF m.file = current THEN m.cwd \/ cwd ELSE m.cwd
        BY <1>6, <3>1
      <4>2. m.file = current /\ (m.cwd => cwd)
        BY <1>1, <2>2, <3>1, <4>1 DEF CwdInv, ReadCwd
      <4>3. n.cwd = (m.cwd \/ cwd)
        BY <4>1, <4>2
      <4>4. QED BY <1>2, <4>1, <4>2, <4>3
    <3>2. stageSource'[f].cwd = cwd
      BY <1>3, <1>4, <2>2
    <3>3. plan[f].disposition = "append" /\ cwd => plan[f].cwd
      BY <1>1, <2>2 DEF Established
    <3>4. QED BY <1>5, <2>2, <3>1, <3>2, <3>3
  <2>3. CASE f # current
    <3>1. stageSource'[f] = stageSource[f]
      BY <1>4, <2>3
    <3>2. \A n \in stageMessage' : n.file = f =>
            \E m \in stageMessage : m.file = f /\ n.cwd = m.cwd
      BY <1>6, <2>3
    <3>3. QED BY <2>1, <3>1, <3>2 DEF CwdInv, StageCwd
  <2>4. QED BY <2>2, <2>3
<1>8. OwnContents' /\ ReadCwd'
  BY <1>1, <1>2 DEF CwdInv, OwnContents, ReadCwd
<1>9. QED BY <1>1, <1>7, <1>8, CorpusCwdKept DEF CwdInv

LEMMA FailSourceCwd ==
  ASSUME ShapeInv, CwdInv, phase = "reading", NEW code, NEW class,
         FailSource(current, code, class)
  PROVE  CwdInv'
<1>1. /\ phase' = "staging" /\ stageMessage' = WithoutStaged(current)
      /\ UNCHANGED <<envVars, corpusVars, plan, stageSource>>
  BY DEF FailSource, NextSource
<1>2. \A m \in stageMessage' : m \in stageMessage
  BY <1>1 DEF WithoutStaged
<1>3. OwnContents' /\ StageCwd' /\ ReadCwd'
  BY <1>1, <1>2
     DEF CwdInv, OwnContents, StageCwd, ReadCwd, envVars, corpusVars
<1>4. QED BY <1>1, <1>3, CorpusCwdKept DEF CwdInv

LEMMA ForgetCwd ==
  ASSUME CwdInv, Forget, UNCHANGED file,
         \A f \in Files : checkpoint'[f].obs.seen \in Seq(Writes(f))
  PROVE  OwnContents' /\ StageCwd' /\ ReadCwd'
<1>1. \A f \in Files : plan'[f] = NoPlan /\ stageSource'[f] = NoSource
  BY DEF Forget
<1>2. NoPlan.obs.seen = <<>> /\ NoSource.status = "none"
  BY ConstantSets DEF NoPlan, NoSource
<1>3. \A f \in Files : <<>> \in Seq(Writes(f))
  OBVIOUS
<1>4. OwnContents'
  BY <1>1, <1>2, <1>3 DEF CwdInv, OwnContents
<1>5. StageCwd' /\ ReadCwd'
  BY <1>1, <1>2 DEF StageCwd, ReadCwd, Forget
<1>6. QED BY <1>4, <1>5

LEMMA ForgottenCwd ==
  ASSUME CwdInv, PublishNothing \/ AbortConflict \/ AbortRun
  PROVE  CwdInv'
<1>1. Forget /\ UNCHANGED <<envVars, corpusVars>>
  BY DEF PublishNothing, AbortConflict, AbortRun
<1>2. file' = file /\ checkpoint' = checkpoint
  BY <1>1 DEF envVars, corpusVars
<1>3. \A f \in Files : checkpoint'[f].obs.seen \in Seq(Writes(f))
  BY <1>2 DEF CwdInv, OwnContents
<1>4. QED BY <1>1, <1>2, <1>3, ForgetCwd, CorpusCwdKept DEF CwdInv

LEMMA PublishAliases ==
  ASSUME ShapeInv, ContentInv, CwdInv, Publish
  PROVE  OwnAliases'
<1>1. SUFFICES ASSUME NEW a \in alias'
               PROVE  MayWrite(a.file, a.id)
  BY DEF OwnAliases
<1>2. CASE a \in alias
  BY <1>2 DEF CwdInv, OwnAliases
<1>3. CASE \E m \in stageMessage :
             a = [file |-> m.file, ord |-> m.ord, id |-> m.id]
  <2>1. PICK m \in stageMessage :
          a = [file |-> m.file, ord |-> m.ord, id |-> m.id]
    BY <1>3
  <2>2. phase = "staging"
    BY DEF Publish, EndStaging
  <2>3. m.file \in Files /\ m.ord \in Nat /\ SaidIn(m, plan[m.file].obs.seen)
    BY <2>2, StagedMessageFacts
  <2>4. plan[m.file].obs.seen \in Seq(Writes(m.file))
    BY <2>3 DEF CwdInv, OwnContents
  <2> DEFINE s == plan[m.file].obs.seen
  <2>5. m.ord < Len(s) /\ s[m.ord + 1].kind = "message"
          /\ s[m.ord + 1].id = m.id
    BY <2>3 DEF SaidIn
  <2> HIDE DEF s
  <2>6. s[m.ord + 1] \in Writes(m.file)
    BY <2>3, <2>4, <2>5 DEF s
  <2>7. QED BY <2>1, <2>5, <2>6 DEF MayWrite
<1>4. QED BY <1>2, <1>3, AliasAfter

(* What a publication says of the cwd of a source.                         *)
LEMMA PublishedCwd ==
  ASSUME ShapeInv, ContentInv, CwdInv, Publish, NEW f \in Files,
         checkpoint'[f].status = "indexed"
  PROVE  /\ checkpoint'[f].cwd <=>
              HasCwd(checkpoint'[f].obs.seen, Len(checkpoint'[f].obs.seen))
         /\ f \notin Dropped =>
              checkpoint[f].status = "indexed"
                /\ (checkpoint'[f].cwd <=> checkpoint[f].cwd)
<1>1. f \notin stageRemoved
  BY PublishedRow DEF NoSource
<1>2. CASE f \in Staged
  <2>1. /\ checkpoint'[f].obs = plan[f].obs
        /\ checkpoint'[f].cwd = stageSource[f].cwd
        /\ stageSource[f].status = "indexed" /\ f \in Planned
    BY <1>2, PublishedRow
  <2>2. /\ stageSource[f].cwd <=>
             HasCwd(plan[f].obs.seen, Len(plan[f].obs.seen))
        /\ plan[f].disposition = "append" /\ stageSource[f].cwd => plan[f].cwd
    BY <2>1 DEF CwdInv, StageCwd
  <2>3. ASSUME f \notin Dropped
        PROVE  checkpoint[f].status = "indexed"
                 /\ (stageSource[f].cwd <=> checkpoint[f].cwd)
    <3>1. /\ checkpoint[f].status = "indexed"
          /\ plan[f].disposition = "append"
          /\ Prefix(checkpoint[f].obs.seen, plan[f].obs.seen)
      BY <1>2, <2>3, StagedAppend
    <3>2. /\ plan[f].cwd <=>
               HasCwd(plan[f].obs.seen, Len(checkpoint[f].obs.seen))
          /\ plan[f].cwd = checkpoint[f].cwd
      BY <2>1, <3>1, AppendCwd
    <3> DEFINE s == checkpoint[f].obs.seen
               t == plan[f].obs.seen
    <3>3. Len(s) \in Nat /\ Len(t) \in Nat /\ Len(s) <= Len(t)
      BY <3>1 DEF Prefix, ShapeInv, RowInv, RowSet, PlanInv, PlanSet, ObsSet
    <3> HIDE DEF s, t
    <3>4. HasCwd(t, Len(s)) => HasCwd(t, Len(t))
      BY <3>3 DEF HasCwd
    <3>5. QED BY <2>2, <3>1, <3>2, <3>4 DEF s, t
  <2>4. QED BY <2>1, <2>2, <2>3
<1>3. CASE f \notin Staged
  BY <1>1, <1>3, PublishedRow DEF CwdInv, RowCwd
<1>4. QED BY <1>2, <1>3

LEMMA PublishMessages ==
  ASSUME ShapeInv, ContentInv, CwdInv, DisjointWrites, Publish
  PROVE  MessageCwd'
<1>1. SUFFICES ASSUME NEW a \in alias', checkpoint'[a.file].status = "indexed"
               PROVE  message'[a.id].cwd = checkpoint'[a.file].cwd
  BY DEF MessageCwd
<1> DEFINE f == a.file
<1>2. /\ phase = "staging"
      /\ message' = [j \in Ids |->
           IF j \in Affected THEN CandidateMessage(j) ELSE message[j]]
      /\ alias' = {b \in alias : b.id \notin Affected} \cup CandidateAlias
  BY DEF Publish, EndStaging
<1>3. f \in Files /\ a.id \in Ids
  <2>1. ShapeInv'
    BY PublishShape
  <2>2. QED BY <2>1 DEF ShapeInv, CorpusInv, AliasSet
<1>4. checkpoint'[f].cwd \in BOOLEAN
  <2>1. ShapeInv'
    BY PublishShape
  <2>2. QED BY <1>3, <2>1 DEF ShapeInv, RowInv, RowSet
<1>5. MayWrite(f, a.id)
  BY PublishAliases DEF OwnAliases
<1>6. ASSUME NEW b \in alias, b.file = f, f \notin Dropped
      PROVE  message[b.id].cwd = checkpoint'[f].cwd
  <2>1. checkpoint[f].status = "indexed"
          /\ (checkpoint'[f].cwd <=> checkpoint[f].cwd)
    BY <1>1, <1>3, <1>6, PublishedCwd
  <2>2. message[b.id].cwd = checkpoint[f].cwd
    BY <1>6, <2>1 DEF CwdInv, MessageCwd
  <2>3. checkpoint[f].cwd \in BOOLEAN
    BY <1>3 DEF ShapeInv, RowInv, RowSet
  <2>4. QED BY <1>4, <2>1, <2>2, <2>3
<1>7. CASE a.id \notin Affected
  <2>1. a \in alias
    BY <1>2, <1>7 DEF CandidateAlias, Kept, Affected
  <2>2. f \notin Dropped
    BY <1>7, <2>1 DEF Affected
  <2>3. message'[a.id] = message[a.id]
    BY <1>2, <1>3, <1>7
  <2>4. QED BY <1>6, <2>1, <2>2, <2>3
<1>8. CASE a.id \in Affected
  <2>1. a \in CandidateAlias
    BY <1>2, <1>8
  <2>2. PICK m \in Observations : m.id = a.id
    BY <2>1, ObservationOf
  <2> DEFINE n == First(a.id)
  <2>3. n \in Observations /\ n.id = a.id
    BY <2>2, FirstExists
  <2>4. message'[a.id].cwd = n.cwd
    BY <1>3, <1>8, <2>2, PublishedMessage
  <2> HIDE DEF n
  <2>5. n.file \in Files
    BY <2>3, ObservationFacts
  <2>6. CASE n \in stageMessage
    <3>1. /\ n.file \in Staged /\ stageSource[n.file].status = "indexed"
          /\ n.ord \in Nat /\ SaidIn(n, plan[n.file].obs.seen)
      BY <1>2, <2>6, StagedMessageFacts
    <3>2. [file |-> n.file, ord |-> n.ord, id |-> n.id] \in alias'
      BY <1>2, <2>6 DEF CandidateAlias
    <3>3. MayWrite(n.file, n.id)
      BY <3>2, PublishAliases DEF OwnAliases
    <3>4. n.file = f
      BY <1>3, <1>5, <2>3, <2>5, <3>3 DEF DisjointWrites
    <3>5. n.cwd = stageSource[f].cwd
      BY <1>3, <2>6, <3>1, <3>4 DEF CwdInv, StageCwd
    <3>6. checkpoint'[f].cwd = stageSource[f].cwd
      BY <1>3, <3>1, <3>4, PublishedRow
    <3>7. QED BY <2>4, <3>5, <3>6
  <2>7. CASE \E b \in Kept : /\ n.file = b.file /\ n.id = b.id
                             /\ n.cwd = message[b.id].cwd
    <3>1. PICK b \in Kept : /\ n.file = b.file /\ n.id = b.id
                            /\ n.cwd = message[b.id].cwd
      BY <2>7
    <3>2. b \in alias /\ b.file \notin Dropped /\ MayWrite(b.file, b.id)
      BY DEF Kept, CwdInv, OwnAliases
    <3>3. b.file = f
      BY <1>3, <1>5, <2>3, <2>5, <3>1, <3>2 DEF DisjointWrites
    <3>4. QED BY <1>6, <2>4, <3>1, <3>2, <3>3
  <2>8. QED BY <2>3, <2>6, <2>7, ObservationFacts
<1>9. QED BY <1>7, <1>8

LEMMA PublishCwd ==
  ASSUME ShapeInv, ContentInv, CwdInv, DisjointWrites, Publish
  PROVE  CwdInv'
<1>1. RowCwd'
  BY PublishedCwd DEF RowCwd
<1>2. ASSUME NEW f \in Files
      PROVE  checkpoint'[f].obs.seen \in Seq(Writes(f))
  <2>1. CASE f \in stageRemoved
    <3>1. checkpoint'[f].obs.seen = <<>> /\ <<>> \in Seq(Writes(f))
      BY <2>1, PublishedRow, ConstantSets DEF NoSource
    <3>2. QED BY <3>1
  <2>2. CASE f \notin stageRemoved
    <3>1. checkpoint'[f].obs \in {plan[f].obs, checkpoint[f].obs}
      BY <2>2, PublishedRow
    <3>2. QED BY <3>1 DEF CwdInv, OwnContents
  <2>3. QED BY <2>1, <2>2
<1>3. Forget /\ UNCHANGED file
  BY DEF Publish, envVars
<1>4. OwnContents' /\ StageCwd' /\ ReadCwd'
  BY <1>2, <1>3, ForgetCwd
<1>5. QED BY <1>1, <1>4, PublishAliases, PublishMessages DEF CwdInv

LEMMA InitCwd ==
  ASSUME Init
  PROVE  CwdInv
<1>1. /\ file = [f \in Files |-> Absent]
      /\ checkpoint = [f \in Files |-> NoSource]
      /\ plan = [f \in Files |-> NoPlan]
      /\ stageSource = [f \in Files |-> NoSource]
      /\ alias = {} /\ phase = "idle"
  BY DEF Init
<1>2. /\ Absent.recs = <<>> /\ NoSource.obs.seen = <<>>
      /\ NoPlan.obs.seen = <<>> /\ NoSource.status = "none"
  BY ConstantSets DEF Absent, NoSource, NoPlan
<1>3. \A f \in Files : <<>> \in Seq(Writes(f))
  OBVIOUS
<1>4. OwnContents
  BY <1>1, <1>2, <1>3 DEF OwnContents
<1>5. OwnAliases /\ RowCwd /\ ReadCwd /\ StageCwd /\ MessageCwd
  BY <1>1, <1>2 DEF OwnAliases, RowCwd, ReadCwd, StageCwd, MessageCwd
<1>6. QED BY <1>4, <1>5 DEF CwdInv

LEMMA NextCwd ==
  ASSUME ShapeInv, ContentInv, CwdInv, ~Regrow, DisjointWrites, [Next]_vars
  PROVE  CwdInv'
<1>1. ASSUME NEW f \in Files, NativeWrite(f) \/ RetryDue(f)
      PROVE  CwdInv'
  <2>1. CASE NativeWrite(f)
    BY <2>1, EditCwd
  <2>2. CASE RetryDue(f)
    <3>1. UNCHANGED <<file, corpusVars, plan, stageVars>>
            /\ UNCHANGED <<phase, current, pos, cwd>>
      BY <2>2 DEF RetryDue, envVars, runVars, readVars
    <3>2. QED BY <3>1, CwdKept
  <2>3. QED BY <1>1, <2>1, <2>2
<1>2. CASE Upgrade \/ UNCHANGED vars
  <2>1. UNCHANGED <<file, corpusVars, plan, stageVars>>
          /\ UNCHANGED <<phase, current, pos, cwd>>
    BY <1>2 DEF Upgrade, vars, envVars, runVars, readVars
  <2>2. QED BY <2>1, CwdKept
<1>3. CASE BeginRun
  BY <1>3, BeginCwd DEF BeginRun
<1>4. CASE RunStep
  <2>1. ASSUME NEW f \in Files, StageArtifact(f)
        PROVE  CwdInv'
    <3>1. /\ UNCHANGED <<file, corpusVars, plan, stageMessage>>
          /\ phase' # "reading"
          /\ stageSource' = [stageSource EXCEPT ![f] =
               SourceRow(f, plan[f].obs.size, FALSE, "excluded")]
      BY <2>1 DEF StageArtifact, Takes, envVars
    <3>2. QED BY <3>1, ExcludeCwd
  <2>2. CASE StageExcluded
    <3>1. /\ UNCHANGED <<file, corpusVars, plan, stageMessage>>
          /\ phase' # "reading" /\ phase = "reading"
          /\ stageSource' = [stageSource EXCEPT ![current] =
               SourceRow(current, plan[current].obs.size, FALSE, "excluded")]
      BY <2>2 DEF StageExcluded, CanRead, NextSource, envVars
    <3>2. current \in Files
      BY <3>1, ReadingFacts
    <3>3. QED BY <3>1, <3>2, ExcludeCwd
  <2>3. CASE ReadBatch \/ Reparse \/ StageSource
    BY <2>3, ReadBatchCwd, ReparseCwd, StageSourceCwd
  <2>4. CASE BlockSource \/ SourceChanged
    BY <2>4, FailSourceCwd DEF BlockSource, SourceChanged, CanRead
  <2>5. CASE Publish
    BY <2>5, PublishCwd
  <2>6. CASE PublishNothing \/ AbortConflict
    BY <2>6, ForgottenCwd
  <2>7. QED BY <1>4, <2>1, <2>2, <2>3, <2>4, <2>5, <2>6, OpenSourceCwd
            DEF RunStep, TakeSource
<1>5. CASE ReadFails
  BY <1>5, FailSourceCwd DEF ReadFails
<1>6. CASE AbortRun
  BY <1>6, ForgottenCwd
<1>7. QED BY <1>1, <1>2, <1>3, <1>4, <1>5, <1>6 DEF Next

(* Where no message identity is in two files, the cwd of a session is on   *)
(* all of its published messages once its checkpointed prefix establishes  *)
(* one, and on none before, however appends, re-parses, failures and       *)
(* crashes cut the prefix (_stamp_staged_cwd and the re-parse of           *)
(* _parse_and_stage_source).                                               *)
THEOREM CwdFollowsPrefix ==
  ASSUME ~Regrow, DisjointWrites
  PROVE  Spec => []CwdOfPrefix
<1>1. Init => CwdInv
  BY InitCwd
<1>2. ShapeInv /\ ContentInv /\ CwdInv /\ [Next]_vars => CwdInv'
  BY NextCwd
<1>3. ShapeInv /\ CwdInv => CwdOfPrefix
  <2>1. SUFFICES ASSUME ShapeInv, CwdInv, NEW a \in alias,
                        checkpoint[a.file].status = "indexed"
                 PROVE  message[a.id].cwd = PrefixHasCwd(a.file)
    BY DEF CwdOfPrefix
  <2> DEFINE c == checkpoint[a.file]
  <2>2. a.file \in Files
    BY <2>1 DEF ShapeInv, CorpusInv, AliasSet
  <2>3. /\ c.offset \div 2 = Len(c.obs.seen) /\ c.cwd \in BOOLEAN
    <3>1. c.obs.seen \in Seq(Record) /\ c.cwd \in BOOLEAN
      BY <2>1, <2>2 DEF ShapeInv, RowInv, RowSet, ObsSet
    <3>2. c.offset = 2 * Len(c.obs.seen)
      BY <2>1, <2>2 DEF ShapeInv, RowInv, RowFits
    <3>3. Len(c.obs.seen) \in Nat
      BY <3>1
    <3>4. (2 * Len(c.obs.seen)) \div 2 = Len(c.obs.seen)
      BY <3>3, Half
    <3>5. QED BY <3>1, <3>2, <3>4
  <2>4. c.cwd <=> HasCwd(c.obs.seen, Len(c.obs.seen))
    BY <2>1, <2>2 DEF CwdInv, RowCwd
  <2>5. message[a.id].cwd = c.cwd
    BY <2>1 DEF CwdInv, MessageCwd
  <2>6. PrefixHasCwd(a.file) <=> HasCwd(c.obs.seen, Len(c.obs.seen))
    BY <2>3 DEF PrefixHasCwd, HasCwd
  <2>7. PrefixHasCwd(a.file) \in BOOLEAN
    BY DEF PrefixHasCwd
  <2>8. QED BY <2>3, <2>4, <2>5, <2>6, <2>7
<1>4. Spec => []ContentInv
  BY ContentHolds
<1>5. QED BY <1>1, <1>2, <1>3, <1>4, Shape, PTL DEF Spec
==========================================================================
