--------------------------- MODULE SourceRefresh ---------------------------
(***************************************************************************)
(* What one index run reads, stages and publishes: refresh_native_sources  *)
(* and its helpers in storage/postgresql/refresh.py, with the freshness    *)
(* test of staleness.py.                                                   *)
(*                                                                         *)
(* IndexLedger shows that at most one run is in the owner block, so there  *)
(* is one run here.  The native programs write the session files at any    *)
(* moment, also between the stat of a file and the reads of it.  A run     *)
(* dies or raises at any step; only source_failure_current is written      *)
(* before publication.                                                     *)
(*                                                                         *)
(* A complete record is 2 bytes long and an unterminated last one 1 byte,  *)
(* so that a size tells a partial tail from the record it becomes.         *)
(***************************************************************************)
EXTENDS Integers, Sequences, FiniteSets

CONSTANTS
  Files,       \* session files, numbers in the order of their paths
  Roots,       \* configured source roots
  Root(_),     \* the root a file lies under
  Inspected,   \* files of Claude and Codex, inspected for artefacts; the
               \* others are admitted by their first record
  Ids,         \* logical message identities
  Texts,       \* what the observations of an identity may say
  Writes(_),   \* the records that may be written to a file
  NoFile,
  MaxLen,      \* bound: complete records in a file
  MaxEdits,    \* bound: writes of the native programs
  MaxFaults,   \* bound: I/O failures, semantic failures and crashes
  MaxVersion,  \* bound: parser_state_version
  Regrow,      \* a file may be rewritten in place past a recorded size
  Configs,     \* the sets of roots a run may be configured with
  Flags        \* the force_retry and ignore_unknown_records of a run

Message == [kind : {"message"}, id : Ids, text : Texts]
Record == Message \cup [kind : {"cwd", "unknown", "unsupported", "foreign"}]

ASSUME FilesAssumption == Files \subseteq Nat /\ NoFile \notin Files
ASSUME RootAssumption == \A f \in Files : Root(f) \in Roots
ASSUME WritesAssumption == \A f \in Files : Writes(f) \subseteq Record
ASSUME ChoicesAssumption ==
  /\ Configs \subseteq SUBSET Roots
  /\ Flags \subseteq [force : BOOLEAN, ignore : BOOLEAN]
ASSUME TextsAssumption == "none" \notin Texts
ASSUME BoundsAssumption ==
  /\ MaxLen \in Nat \ {0} /\ MaxEdits \in Nat /\ MaxFaults \in Nat
  /\ MaxVersion \in Nat \ {0} /\ Regrow \in BOOLEAN

VARIABLES
  file, edits,       \* the session files, the writes so far
  faults, version,   \* the failures so far; parser_state_version
  checkpoint,        \* source_file_current
  failure,           \* source_failure_current
  alias, message,    \* physical_alias_current, message_current
  selected,          \* a coherent corpus is selected
  phase,             \* where the run is
  config, ignoring,  \* its roots; ignore_unknown_records
  failed,            \* failed_source_count > 0
  plan, todo,        \* its plans, and those not taken yet
  current, pos, cwd, \* the plan being parsed: next ordinal, parser state
  stageSource, stageMessage, stageRemoved

envVars == <<file, edits>>
corpusVars == <<checkpoint, alias, message, selected>>
optionVars == <<config, ignoring>>
readVars == <<current, pos, cwd>>
stageVars == <<stageSource, stageMessage, stageRemoved>>
runVars == <<phase, optionVars, failed, plan, todo, readVars, stageVars>>
vars == <<envVars, faults, version, corpusVars, failure, runVars>>

-----------------------------------------------------------------------------
(* Mutants: definitions below as a bug would have them.  No specification  *)
(* uses them; README.md says which property each one must break.           *)

SizeRoundedUp(f) == 2 * (Len(f.recs) + f.tail)
Unverified == TRUE
NoConflict == FALSE
NeverEstablished == FALSE
SameSize(o, c) == o.size = c.obs.size /\ c.obs.size <= c.offset
Unlisted(s) == Files \ s.discovered
NeverRetried(r) == TRUE
-----------------------------------------------------------------------------
(* Files and what a stat of them records.  `seen' is no column: it is the  *)
(* content of the file at the stat, and only the bound on the environment  *)
(* and the properties look at it.                                          *)

Absent == [inode |-> 0, mtime |-> 0, recs |-> <<>>, tail |-> 0]
Size(x) == 2 * Len(x.recs) + x.tail
Exists(f) == file[f].inode # 0
Stat(x) ==
  [inode |-> x.inode, size |-> Size(x), mtime |-> x.mtime, seen |-> x.recs]
NoStat == Stat(Absent)
Prefix(s, t) == Len(s) <= Len(t) /\ \A i \in 1..Len(s) : s[i] = t[i]

SameFile(o, p) == o.inode = p.inode
SameMetadata(o, p) ==
  SameFile(o, p) /\ o.size = p.size /\ o.mtime = p.mtime

(* Rows.  cwd is parser_state.cwd, offset complete_byte_offset.            *)
NoSource == [obs |-> NoStat, offset |-> 0, version |-> 0, cwd |-> FALSE,
             status |-> "none", disposition |-> "none"]
NoFailure == [obs |-> NoStat, version |-> 0, code |-> "none",
              class |-> "none", due |-> FALSE]
NoPlan == [obs |-> NoStat, disposition |-> "none", start |-> 0, cwd |-> FALSE]
NoMessage == [text |-> "none", cwd |-> FALSE]

Failed(f) == failure[f] # NoFailure
Checkpointed(f) == checkpoint[f].status # "none"
Planned == {f \in Files : plan[f] # NoPlan}
Staged == {f \in Files : stageSource[f].status # "none"}
Replaced == {f \in Staged : stageSource[f].disposition = "replace"}
RowsOf(f) == {a \in alias : a.file = f}

-----------------------------------------------------------------------------
(* Planning.                                                               *)

(* _failed_observation_matches, _failed_observation_blocks.                *)
FailureMatches(f, o) ==
  Failed(f) /\ SameMetadata(o, failure[f].obs) /\ failure[f].version = version

NotRetried(r) == r.class = "deterministic" \/ ~r.due

FailureBlocks(f, o, flags) ==
  /\ ~flags.force
  /\ FailureMatches(f, o)
  /\ ~(flags.ignore /\ failure[f].code = "unknown")
  /\ NotRetried(failure[f])

(* _plan_source.                                                           *)
ReplacePlan(o) ==
  [obs |-> o, disposition |-> "replace", start |-> 0, cwd |-> FALSE]
AppendPlan(o, c) ==
  [obs |-> o, disposition |-> "append", start |-> c.offset, cwd |-> c.cwd]

UpToDate(o, c) ==
  /\ c.status # "none"
  /\ c.version = version
  /\ \/ SameMetadata(o, c.obs)
     \/ c.status = "excluded" /\ SameFile(o, c.obs) /\ o.size >= c.obs.size

Grown(o, c) ==
  /\ c.status = "indexed"
  /\ c.version = version
  /\ SameFile(o, c.obs)
  /\ o.size > c.obs.size

PlanSource(o, c) ==
  IF UpToDate(o, c) THEN NoPlan
  ELSE IF Grown(o, c) THEN AppendPlan(o, c) ELSE ReplacePlan(o)

(* _unindexed_bytes of the freshness scan; -1 stands for None.             *)
Unchanged(o, c) ==
  o.size = c.obs.size /\ o.mtime = c.obs.mtime /\ c.obs.size <= c.offset

UnindexedBytes(o, c) ==
  IF c.status = "none" \/ ~SameFile(o, c.obs) THEN o.size
  ELSE IF \/ c.status = "excluded" /\ o.size >= c.obs.size
          \/ Unchanged(o, c)
       THEN -1
  ELSE IF o.size > c.offset THEN o.size - c.offset ELSE 0

-----------------------------------------------------------------------------
(* The native programs.                                                    *)

(* The observations that a plan or a checkpoint relies on.                 *)
Recorded(f) ==
  {checkpoint[f].obs, plan[f].obs, stageSource[f].obs} \ {NoStat}

Continues(x, o) == SameFile(x, o) /\ Prefix(o.seen, x.recs)

(* Unless Regrow, a file grows past a recorded size only by appending to   *)
(* what was observed, and content it lost does not come back.              *)
Recognisable(f, x) ==
  Regrow \/ \A o \in Recorded(f) :
    SameFile(x, o) => IF Continues(x, o) THEN Continues(file[f], o)
                      ELSE Size(x) <= o.size

Edit(f, x) ==
  /\ edits < MaxEdits
  /\ Recognisable(f, x)
  /\ file' = [file EXCEPT ![f] = x]
  /\ edits' = edits + 1
  /\ UNCHANGED <<faults, version, corpusVars, failure, runVars>>

(* A write to the file that has the name.                                  *)
Written(f, recs, tail) ==
  [inode |-> file[f].inode, mtime |-> edits + 1, recs |-> recs, tail |-> tail]

Content(f) == {<<>>} \cup {<<r>> : r \in Writes(f)}

AppendRecord(f) ==
  /\ Exists(f) /\ Len(file[f].recs) < MaxLen
  /\ \E r \in Writes(f) : Edit(f, Written(f, Append(file[f].recs, r), 0))

AppendTail(f) ==
  /\ Exists(f) /\ file[f].tail = 0
  /\ Edit(f, Written(f, file[f].recs, 1))

(* A new file under the name: created, or renamed over the old one.  An    *)
(* inode number is free again once its file is gone.                       *)
PutFile(f) ==
  \E i \in {1, 2} \ {file[f].inode}, s \in Content(f) :
    Edit(f, [inode |-> i, mtime |-> edits + 1, recs |-> s, tail |-> 0])

RewriteInPlace(f) ==
  /\ Exists(f)
  /\ \E s \in Content(f) \ {file[f].recs} : Edit(f, Written(f, s, 0))

DeleteFile(f) == Exists(f) /\ Edit(f, Absent)

(* retry_after passes.                                                     *)
RetryDue(f) ==
  /\ failure[f].class = "transient" /\ ~failure[f].due
  /\ failure' = [failure EXCEPT ![f].due = TRUE]
  /\ UNCHANGED <<envVars, faults, version, corpusVars, runVars>>

(* A newer parser is installed between two runs.                           *)
Upgrade ==
  /\ phase = "idle" /\ version < MaxVersion
  /\ version' = version + 1
  /\ UNCHANGED <<envVars, faults, corpusVars, failure, runVars>>

-----------------------------------------------------------------------------
(* The run.                                                                *)

Init ==
  /\ file = [f \in Files |-> Absent]
  /\ edits = 0 /\ faults = 0 /\ version = 1
  /\ checkpoint = [f \in Files |-> NoSource]
  /\ failure = [f \in Files |-> NoFailure]
  /\ alias = {}
  /\ message = [i \in Ids |-> NoMessage]
  /\ selected = FALSE
  /\ phase = "idle"
  /\ config = {} /\ ignoring = FALSE /\ failed = FALSE
  /\ plan = [f \in Files |-> NoPlan]
  /\ todo = {}
  /\ current = NoFile /\ pos = 0 /\ cwd = FALSE
  /\ stageSource = [f \in Files |-> NoSource]
  /\ stageMessage = {}
  /\ stageRemoved = {}

(* What the run holds in memory and in pg_temp is gone when it ends.       *)
Forget ==
  /\ phase' = "idle"
  /\ config' = {} /\ ignoring' = FALSE /\ failed' = FALSE
  /\ plan' = [f \in Files |-> NoPlan]
  /\ todo' = {}
  /\ current' = NoFile /\ pos' = 0 /\ cwd' = FALSE
  /\ stageSource' = [f \in Files |-> NoSource]
  /\ stageMessage' = {}
  /\ stageRemoved' = {}

Fault == faults < MaxFaults /\ faults' = faults + 1

(* A scan of the roots c: a failed traversal hides the paths in missed,    *)
(* and a file in unread is listed but its stat fails.                      *)
Scan(c, missed, unread) ==
  LET complete == c \ {Root(f) : f \in missed}
      discovered == {f \in Files \ missed : Exists(f) /\ Root(f) \in c}
  IN [complete |-> complete,
      discovered |-> discovered,
      observed |-> discovered \ unread,
      faulty |-> missed # {} \/ discovered \cap unread # {}]

Plans(s, flags) ==
  [f \in Files |->
     IF f \in s.observed /\ ~FailureBlocks(f, Stat(file[f]), flags)
     THEN PlanSource(Stat(file[f]), checkpoint[f]) ELSE NoPlan]

(* removed_keys: checkpointed, not discovered, and not for want of a       *)
(* complete traversal.                                                     *)
Removed(c, s) ==
  {f \in Files \ s.discovered :
     Checkpointed(f) /\ (Root(f) \in c => Root(f) \in s.complete)}

(* _delete_obsolete_failed_observations; _sync_roots drops a root that is  *)
(* neither configured nor the root of a source, and its failures with it.  *)
Obsolete(s) ==
  {f \in Files : Root(f) \in s.complete /\ f \notin s.discovered}
Orphaned(c, rows) ==
  {f \in Files : /\ Root(f) \notin c
                 /\ \A g \in Files :
                      Root(g) = Root(f) => rows[g].status = "none"}

ClearFailures(gone) ==
  failure' = [f \in Files |-> IF f \in gone THEN NoFailure ELSE failure[f]]

(* The scan and the transaction that follows it, up to the decision        *)
(* whether anything is to do.                                              *)
Begin(c, flags, missed, unread) ==
  LET s == Scan(c, missed, unread)
      plans == Plans(s, flags)
      removed == Removed(c, s)
      noop == /\ \A f \in Files : plans[f] = NoPlan
              /\ removed = {} /\ ~s.faulty /\ selected
  IN /\ missed \subseteq {f \in Files : Root(f) \in c}
     /\ unread \subseteq s.discovered
     /\ IF s.faulty THEN Fault ELSE UNCHANGED faults
     /\ ClearFailures(Obsolete(s) \cup Orphaned(c, checkpoint))
     /\ IF noop THEN UNCHANGED runVars
        ELSE /\ phase' = "staging"
             /\ config' = c /\ ignoring' = flags.ignore /\ failed' = s.faulty
             /\ plan' = plans
             /\ todo' = {f \in Files : plans[f] # NoPlan}
             /\ stageRemoved' = removed
             /\ UNCHANGED <<readVars, stageSource, stageMessage>>
     /\ UNCHANGED <<envVars, version, corpusVars>>

BeginRun ==
  /\ phase = "idle"
  /\ \E c \in Configs, flags \in Flags, missed, unread \in SUBSET Files :
       Begin(c, flags, missed, unread)

(* A run of the nightly timer: no flags, and a scan without faults.        *)
NightlyRun ==
  /\ phase = "idle"
  /\ \E c \in Configs : Begin(c, [force |-> FALSE, ignore |-> FALSE], {}, {})

SourceRow(f, offset, state, status) ==
  [obs |-> plan[f].obs, offset |-> offset, version |-> version,
   cwd |-> state, status |-> status, disposition |-> plan[f].disposition]

NextSource ==
  phase' = "staging" /\ current' = NoFile /\ pos' = 0 /\ cwd' = FALSE

(* _parse_and_stage_source for the next plan, in the order of the paths;   *)
(* _index_artifact reads the first line the file has now.                  *)
Takes(f) == phase = "staging" /\ f \in todo /\ \A g \in todo : f <= g

IsArtifact(f) ==
  /\ f \in Inspected /\ Exists(f)
  /\ file[f].recs # <<>> /\ file[f].recs[1].kind = "foreign"

OpenSource(f) ==
  /\ Takes(f) /\ ~IsArtifact(f)
  /\ phase' = "reading"
  /\ todo' = todo \ {f}
  /\ current' = f
  /\ pos' = plan[f].start \div 2
  /\ cwd' = plan[f].cwd
  /\ UNCHANGED <<envVars, faults, version, corpusVars, failure, optionVars,
                 failed, plan, stageVars>>

(* _stage_index_artifact.                                                  *)
StageArtifact(f) ==
  /\ Takes(f) /\ IsArtifact(f)
  /\ todo' = todo \ {f}
  /\ stageSource' = [stageSource EXCEPT ![f] =
       SourceRow(f, plan[f].obs.size, FALSE, "excluded")]
  /\ UNCHANGED <<envVars, faults, version, corpusVars, failure, phase,
                 optionVars, failed, plan, readVars, stageMessage,
                 stageRemoved>>

(* read_bounded_jsonl opens the path anew for each batch; here a batch is  *)
(* one record.  What it has to read ends at the size of the stat.          *)
Target == plan[current].obs.size \div 2
Here == file[current].recs
CanRead == phase = "reading" /\ pos < Target /\ Exists(current)
             /\ pos < Len(Here)

(* _admission_decision, on record 0 of a parse from byte zero.             *)
OutOfScope == /\ current \notin Inspected
              /\ pos = 0
              /\ Here[1].kind = "foreign"
Blocking(r) == r.kind = "unsupported" \/ (r.kind = "unknown" /\ ~ignoring)

StageExcluded ==
  /\ CanRead /\ OutOfScope
  /\ stageSource' = [stageSource EXCEPT ![current] =
       SourceRow(current, plan[current].obs.size, FALSE, "excluded")]
  /\ NextSource
  /\ UNCHANGED <<envVars, faults, version, corpusVars, failure, optionVars,
                 failed, plan, todo, stageMessage, stageRemoved>>

(* _stage_parsed_batch.                                                    *)
Observation(f, k, r, state) ==
  [file |-> f, ord |-> k, id |-> r.id, text |-> r.text, cwd |-> state]

ReadBatch ==
  /\ CanRead /\ ~OutOfScope /\ ~Blocking(Here[pos + 1])
  /\ pos' = pos + 1
  /\ cwd' = (cwd \/ Here[pos + 1].kind = "cwd")
  /\ stageMessage' = stageMessage \cup
       {Observation(current, pos, r, cwd) :
          r \in {q \in {Here[pos + 1]} : q.kind = "message"}}
  /\ UNCHANGED <<envVars, faults, version, corpusVars, failure, phase,
                 optionVars, failed, plan, todo, current, stageSource,
                 stageRemoved>>

(* An appended tail that first establishes cwd: the source is parsed       *)
(* again from byte zero.                                                   *)
Established == plan[current].disposition = "append" /\ cwd
                 /\ ~plan[current].cwd
WithoutStaged(f) == {m \in stageMessage : m.file # f}

Reparse ==
  /\ phase = "reading" /\ pos = Target /\ Established
  /\ plan' = [plan EXCEPT ![current] = ReplacePlan(@.obs)]
  /\ pos' = 0 /\ cwd' = FALSE
  /\ stageMessage' = WithoutStaged(current)
  /\ UNCHANGED <<envVars, faults, version, corpusVars, failure, phase,
                 optionVars, failed, todo, current, stageSource,
                 stageRemoved>>

(* _verified_final_size: replaced, truncated, or changed in place.         *)
Verified ==
  LET o == plan[current].obs  x == file[current]
  IN /\ SameFile(x, o)
     /\ Size(x) >= o.size
     /\ Size(x) = o.size => x.mtime = o.mtime

(* The checkpoint of a source parsed to its last complete record;          *)
(* _stamp_staged_cwd.                                                      *)
Stamp(f, state) ==
  {IF m.file = f THEN [m EXCEPT !.cwd = @ \/ state] ELSE m : m \in stageMessage}

StageSource ==
  /\ phase = "reading" /\ pos = Target /\ ~Established /\ Verified
  /\ stageSource' = [stageSource EXCEPT ![current] =
       SourceRow(current, 2 * pos, cwd, "indexed")]
  /\ stageMessage' = Stamp(current, cwd)
  /\ NextSource
  /\ UNCHANGED <<envVars, faults, version, corpusVars, failure, optionVars,
                 failed, plan, todo, stageRemoved>>

(* A _SourceRefreshError: _clear_staged_source and                         *)
(* _record_failed_observation; the run goes on.                            *)
FailSource(f, code, class) ==
  /\ stageMessage' = WithoutStaged(f)
  /\ failure' = [failure EXCEPT ![f] =
       [obs |-> [plan[f].obs EXCEPT !.seen = <<>>], version |-> version,
        code |-> code, class |-> class, due |-> FALSE]]
  /\ failed' = TRUE
  /\ NextSource
  /\ UNCHANGED <<envVars, version, corpusVars, optionVars, plan, todo,
                 stageSource, stageRemoved>>

BlockSource ==
  /\ CanRead /\ ~OutOfScope /\ Blocking(Here[pos + 1])
  /\ UNCHANGED faults
  /\ FailSource(current, Here[pos + 1].kind, "deterministic")

SourceChanged ==
  /\ phase = "reading"
  /\ \/ ~Exists(current)
     \/ pos < Target /\ pos >= Len(Here)
     \/ pos = Target /\ ~Established /\ ~Verified
  /\ UNCHANGED faults
  /\ FailSource(current, "changed", "transient")

ReadFails ==
  /\ phase = "reading" /\ Fault
  /\ FailSource(current, "unreadable", "transient")

-----------------------------------------------------------------------------
(* The candidate: _create_candidate_projection.                            *)

Dropped == Replaced \cup stageRemoved
Affected == {a.id : a \in {b \in alias : b.file \in Dropped}}
              \cup {m.id : m \in stageMessage}
Key(a) == <<a.file, a.ord>>

Kept == {a \in alias : /\ a.id \in Affected
                       /\ a.file \notin Dropped
                       /\ \A m \in stageMessage : Key(m) # Key(a)}
CandidateAlias ==
  Kept \cup {[file |-> m.file, ord |-> m.ord, id |-> m.id] :
               m \in stageMessage}

Observations ==
  stageMessage \cup
    {[file |-> a.file, ord |-> a.ord, id |-> a.id,
      text |-> message[a.id].text, cwd |-> message[a.id].cwd] : a \in Kept}

Conflict == \E m, n \in Observations : m.id = n.id /\ m.text # n.text

Before(m, n) == m.file < n.file \/ (m.file = n.file /\ m.ord <= n.ord)
First(i) ==
  CHOOSE m \in Observations :
    /\ m.id = i
    /\ \A n \in Observations : n.id = i => Before(m, n)
CandidateMessage(i) ==
  IF \E m \in Observations : m.id = i
  THEN [text |-> First(i).text, cwd |-> First(i).cwd] ELSE NoMessage

-----------------------------------------------------------------------------
(* The end of the run.                                                     *)

EndStaging == phase = "staging" /\ todo = {}
Worthwhile == Staged # {} \/ stageRemoved # {} \/ (~selected /\ ~failed)

(* _publish_coherent_candidate, once the candidate and its semantic build  *)
(* are prepared.                                                           *)
Publish ==
  /\ EndStaging /\ Worthwhile /\ ~Conflict
  /\ alias' = {a \in alias : a.id \notin Affected} \cup CandidateAlias
  /\ message' = [i \in Ids |->
       IF i \in Affected THEN CandidateMessage(i) ELSE message[i]]
  /\ checkpoint' = [f \in Files |->
       IF f \in Staged THEN [stageSource[f] EXCEPT !.disposition = "none"]
       ELSE IF f \in stageRemoved THEN NoSource ELSE checkpoint[f]]
  /\ selected' = TRUE
  /\ ClearFailures(Staged \cup stageRemoved \cup Orphaned(config, checkpoint'))
  /\ Forget
  /\ UNCHANGED <<envVars, faults, version>>

(* Nothing to publish: the run is recorded as failed.                      *)
PublishNothing ==
  /\ EndStaging /\ ~Worthwhile
  /\ Forget
  /\ UNCHANGED <<envVars, faults, version, corpusVars, failure>>

(* Conflicting observations of one identity abort the run.                 *)
AbortConflict ==
  /\ EndStaging /\ Worthwhile /\ Conflict
  /\ Forget
  /\ UNCHANGED <<envVars, faults, version, corpusVars, failure>>

(* The semantic build fails, or the process dies.                          *)
AbortRun ==
  /\ phase # "idle" /\ Fault
  /\ Forget
  /\ UNCHANGED <<envVars, version, corpusVars, failure>>

NativeWrite(f) ==
  AppendRecord(f) \/ AppendTail(f) \/ PutFile(f) \/ RewriteInPlace(f)
    \/ DeleteFile(f)

TakeSource(f) == OpenSource(f) \/ StageArtifact(f)

RunStep ==
  \/ \E f \in Files : TakeSource(f)
  \/ StageExcluded \/ ReadBatch \/ Reparse \/ StageSource
  \/ BlockSource \/ SourceChanged
  \/ Publish \/ PublishNothing \/ AbortConflict

Next ==
  \/ \E f \in Files : NativeWrite(f) \/ RetryDue(f)
  \/ Upgrade \/ BeginRun \/ RunStep \/ ReadFails \/ AbortRun

(* The timer keeps starting runs, an owner works on, and clocks advance;   *)
(* the bounds make writes, faults and upgrades stop.                       *)
Fairness ==
  /\ WF_vars(NightlyRun)
  /\ WF_vars(RunStep)
  /\ \A f \in Files : WF_vars(RetryDue(f))

Spec == Init /\ [][Next]_vars
FairSpec == Spec /\ Fairness

-----------------------------------------------------------------------------
(* Properties.                                                             *)

Observed ==
  [inode : 0..2, size : 0..(2 * MaxLen + 1), mtime : 0..MaxEdits,
   seen : UNION {[1..n -> Record] : n \in 0..MaxLen}]
SourceRows ==
  [obs : Observed, offset : 0..(2 * MaxLen + 1), version : 0..MaxVersion,
   cwd : BOOLEAN, status : {"none", "indexed", "excluded"},
   disposition : {"none", "append", "replace"}]
StagedMessages ==
  [file : Files, ord : 0..MaxLen, id : Ids, text : Texts, cwd : BOOLEAN]

(* Every row and every run-local value stays in its domain: offsets and    *)
(* ordinals never pass the largest file, whatever is written meanwhile.    *)
TypeOK ==
  /\ \A f \in Files :
       /\ Stat(file[f]) \in Observed
       /\ checkpoint[f] \in SourceRows /\ stageSource[f] \in SourceRows
       /\ failure[f].obs \in Observed /\ failure[f].version \in 0..version
       /\ plan[f].obs \in Observed
       /\ plan[f].start <= plan[f].obs.size
  /\ edits \in 0..MaxEdits /\ faults \in 0..MaxFaults
  /\ version \in 1..MaxVersion
  /\ alias \subseteq [file : Files, ord : 0..MaxLen, id : Ids]
  /\ message \in [Ids -> [text : Texts \cup {"none"}, cwd : BOOLEAN]]
  /\ selected \in BOOLEAN
  /\ phase \in {"idle", "staging", "reading"}
  /\ config \in SUBSET Roots /\ ignoring \in BOOLEAN /\ failed \in BOOLEAN
  /\ todo \subseteq Planned
  /\ current \in Files \cup {NoFile} /\ pos \in 0..MaxLen /\ cwd \in BOOLEAN
  /\ stageMessage \subseteq StagedMessages
  /\ stageRemoved \subseteq Files

(* The occurrences of one observed content, up to a byte offset.           *)
Occurrences(f, recs, offset) ==
  {[file |-> f, ord |-> i - 1, id |-> recs[i].id] :
     i \in {j \in 1..(offset \div 2) : recs[j].kind = "message"}}

(* The aliases of a source are those of one content that it had when its   *)
(* checkpoint was observed, cut at the checkpointed offset: no row of a    *)
(* failed, aborted or half-replaced parse, none missing, none of a removed *)
(* source.                                                                 *)
RowsAreOneContent ==
  \A f \in Files : LET c == checkpoint[f] IN
    c.status # "excluded" => RowsOf(f) = Occurrences(f, c.obs.seen, c.offset)

(* An excluded source has no messages.                                     *)
ExcludedHasNoRows ==
  \A f \in Files : checkpoint[f].status = "excluded" => RowsOf(f) = {}

(* A message is published exactly when an alias is, and says what every    *)
(* indexed source that holds it says.                                      *)
MessagesHaveSources ==
  /\ \A i \in Ids : (message[i] # NoMessage) <=> \E a \in alias : a.id = i
  /\ \A a \in alias :
       checkpoint[a.file].status = "indexed" =>
         message[a.id].text = checkpoint[a.file].obs.seen[a.ord + 1].text

(* When the freshness scan counts nothing for an indexed file, the corpus  *)
(* holds every record the file has now, and no tail is pending.            *)
ZeroUnindexedIsComplete ==
  \A f \in Files :
    /\ Exists(f) /\ checkpoint[f].status = "indexed"
    /\ UnindexedBytes(Stat(file[f]), checkpoint[f]) = -1
    => /\ file[f].tail = 0
       /\ RowsOf(f) = Occurrences(f, file[f].recs, Size(file[f]))

(* The cwd of a session is on all of its messages once its checkpointed    *)
(* prefix establishes one, and on none before, however the prefix was cut  *)
(* into appends.                                                           *)
PrefixHasCwd(f) ==
  \E i \in 1..(checkpoint[f].offset \div 2) :
    checkpoint[f].obs.seen[i].kind = "cwd"
CwdOfPrefix ==
  \A a \in alias :
    checkpoint[a.file].status = "indexed" =>
      message[a.id].cwd = PrefixHasCwd(a.file)

(* A message has a cwd only while one of its sources establishes it.       *)
CwdHasSource ==
  \A i \in Ids : message[i].cwd =>
    \E a \in alias : a.id = i /\ PrefixHasCwd(a.file)

(* A recorded failure disappears only when its source is checkpointed      *)
(* anew, is gone, or its root is no longer configured.                     *)
FailureSettled(f) ==
  \/ checkpoint'[f] # checkpoint[f]
  \/ ~Exists(f)
  \/ \E c \in Configs : Root(f) \notin c
FailureNotForgotten ==
  [][\A f \in Files :
       Failed(f) /\ failure'[f] = NoFailure => FailureSettled(f)]_vars

(* Each file is again and again represented: absent from disk and corpus,  *)
(* checkpointed as it is, or blocked by a failure recorded for what it is. *)
RepresentedNow(f) ==
  \/ ~Exists(f) /\ ~Checkpointed(f)
  \/ UpToDate(Stat(file[f]), checkpoint[f])
  \/ FailureMatches(f, Stat(file[f])) /\ failure[f].class = "deterministic"
EventuallyRepresented == \A f \in Files : []<>RepresentedNow(f)
=============================================================================
