---------------------------- MODULE SessionParse ----------------------------
(***************************************************************************)
(* One native session, parsed again and again as its file grows: the       *)
(* refresh reads what was appended since its checkpoint, in batches,       *)
(* parses every batch from the state the one before it left, stages the    *)
(* messages and publishes them with the state (registry.py and the         *)
(* per-source part of refresh.py).                                         *)
(*                                                                         *)
(* A file only grows here; SourceRefresh models replacement, truncation,   *)
(* several files and failed observations.  The read is bounded by the      *)
(* size observed when the run began, so a record appended during a run is  *)
(* one appended after it.                                                  *)
(***************************************************************************)
EXTENDS NativeIdentity, Integers, FiniteSets, SequencesExt

CONSTANTS
  Opening,     \* first records of a file, by provider
  Following,   \* the other records, by provider
  Places,      \* where a Claude file is below its root
  ScopeStart,  \* SCOPE_START
  MaxRecords   \* bound: records of a file, by provider

ASSUME ProvidersAssumption ==
  DOMAIN Opening \subseteq {"codex", "claude", "antigravity"}

VARIABLES
  provider,
  place,
  file,     \* the records
  status,   \* source_status, "new" without a checkpoint
  done,     \* next_record_ordinal of the checkpoint
  store,    \* parser_state of the checkpoint
  corpus,   \* physical_alias_current joined with message_current
  run       \* the run in progress

vars == <<provider, place, file, status, done, store, corpus, run>>

Codex == INSTANCE CodexParser
Claude == INSTANCE ClaudeParser
Antigravity == INSTANCE AntigravityParser

-----------------------------------------------------------------------------
(* The adapters of the providers.                                          *)

InitialState(p) ==
  CASE p = "codex" -> Codex!Initial
    [] p = "claude" -> Claude!Initial
    [] p = "antigravity" -> Antigravity!Initial

SessionName == "session"   \* of the file or directory name

ParseClaude(envs, state) ==
  Claude!Parse(envs, state, Claude!PathKind(place.parts, place.subagents),
               SessionName)

Parse(envs, state) ==
  CASE provider = "codex" -> Codex!Parse(envs, state)
    [] provider = "claude" -> ParseClaude(envs, state)
    [] provider = "antigravity" ->
         Antigravity!Parse(envs, state, SessionName)

(* Claude and Codex repair every text they put into a message.             *)
Raised(parsed) == provider = "antigravity" /\ parsed.raised
Established(parsed) == provider = "antigravity" /\ parsed.established
StateCwd(state) == IF provider = "antigravity" THEN state.cwd ELSE NoCwd

Admission(rec) ==
  IF provider = "antigravity" THEN Antigravity!Admission(rec)
  ELSE "admitted"

UnknownShapeCodes(p) ==
  CASE p = "claude" ->
         {"unknown_conversation_record", "unknown_content_block",
          "unknown_role", "invalid_compact_boundary"}
    [] p = "codex" ->
         {"unknown_response_item", "unknown_event", "unknown_outer_type",
          "unknown_metadata_shape", "unknown_compaction",
          "unknown_content_block", "unknown_role"}
    [] p = "antigravity" -> {"antigravity_unknown_record_pair"}

UnsupportedCodes(p) ==
  CASE p = "claude" ->
         {"missing_message", "non_object_message", "unknown_role",
          "unknown_content_block", "unknown_conversation_record",
          "missing_message_uuid"}
    [] p = "codex" ->
         {"unsupported_source_shape", "unknown_role",
          "unknown_content_block", "unknown_response_item",
          "unknown_event", "unknown_outer_type", "invalid_payload",
          "unsupported_session_identity"}
    [] p = "antigravity" ->
         {"antigravity_unknown_record_pair", "antigravity_missing_required_key",
          "antigravity_invalid_field_type",
          "antigravity_missing_user_request",
          "antigravity_invalid_created_at"}

SkippableCodes == {"malformed_json", "invalid_encoding"}

BlockingCodes(ignoring) ==
  UnsupportedCodes(provider) \
    (IF ignoring THEN UnknownShapeCodes(provider) ELSE {})

-----------------------------------------------------------------------------
(* One batch.                                                              *)

Envelopes(from, n) == [i \in 1..n |-> [ord |-> from + i,
                                       rec |-> file[from + i]]]

(* The first batch of a file decides whether it is read.                   *)
Admits(from) == IF from = 0 THEN Admission(file[1]) ELSE "admitted"

(* _parse_batch.                                                           *)
Blocked(parsed, ignoring) ==
  Codes(parsed.notes) \cap BlockingCodes(ignoring) # {}

(* _skipped_record_diagnostics and _unknown_shape_entries: records of      *)
(* which nothing is staged.                                                *)
Omitted(parsed, ignoring) ==
  LET shapes == UnknownShapeCodes(provider) \cap UnsupportedCodes(provider)
      counted == shapes \ BlockingCodes(ignoring)
      omitting == SkippableCodes \cup (counted \ {"unknown_content_block"})
  IN {d.ord : d \in {x \in parsed.notes : x.code \in omitting}}

(* _messages_without_skipped_records.                                      *)
Kept(parsed, ignoring) ==
  {m \in parsed.messages :
     \A a \in m.aliases : a.ord \notin Omitted(parsed, ignoring)}

(* A row of the database: an alias with its message.                       *)
Rows(messages) ==
  UNION {{[ord |-> a.ord, alias |-> a.locator, id |-> m.id,
           class |-> m.class, locator |-> m.locator, time |-> m.time,
           role |-> m.role, kind |-> m.kind, epoch |-> m.epoch,
           text |-> m.text, cwd |-> m.cwd, harness |-> m.harness] :
            a \in m.aliases} : m \in messages}

PrimaryKey(row) == <<row.ord, row.class>>
MessageKey(row) == <<row.id, row.class>>

(* _stage_messages: rows of a later batch replace those of an earlier one. *)
Unambiguous(rows) ==
  \A r, s \in rows : PrimaryKey(r) = PrimaryKey(s) => r = s
Stage(staged, rows) ==
  {r \in staged : \A s \in rows : PrimaryKey(r) # PrimaryKey(s)} \cup rows

-----------------------------------------------------------------------------
(* Publication.                                                            *)

(* _stamp_staged_cwd.                                                      *)
Stamped(rows, state) ==
  IF StateCwd(state) = NoCwd THEN rows
  ELSE {[r EXCEPT !.cwd = StateCwd(state)] : r \in rows}

(* _finish_candidate_projection: the messages the run touches.             *)
Affected(rows, replace) ==
  {MessageKey(r) : r \in rows \cup (IF replace THEN corpus ELSE {})}
Remaining(rows, replace) ==
  {r \in corpus : /\ ~replace
                  /\ MessageKey(r) \in Affected(rows, replace)}
Candidates(rows, replace) == Stage(Remaining(rows, replace), rows)

Observation(r) ==
  <<r.locator, r.time, r.role, r.kind, r.epoch, r.text, r.harness>>
Conflict(rows) ==
  \E r, s \in rows :
    MessageKey(r) = MessageKey(s) /\ Observation(r) # Observation(s)

(* DISTINCT ON: the earliest observation gives the cwd of a message.       *)
Earliest(r, rows) ==
  CHOOSE s \in rows :
    /\ MessageKey(s) = MessageKey(r)
    /\ \A t \in rows : MessageKey(t) = MessageKey(r) => s.ord <= t.ord
Settled(rows) == {[r EXCEPT !.cwd = Earliest(r, rows).cwd] : r \in rows}

(* _publish_coherent_candidate; a primary key may not be inserted twice.   *)
NoneUntouched(rows, replace) == {}               \* mutant
Untouched(rows, replace) ==
  {r \in corpus : MessageKey(r) \notin Affected(rows, replace)}
Published(rows, replace) ==
  Untouched(rows, replace) \cup Settled(Candidates(rows, replace))
Rejected(rows, replace) ==
  \/ Conflict(Candidates(rows, replace))
  \/ ~Unambiguous(Published(rows, replace))

-----------------------------------------------------------------------------
(* Runs.                                                                   *)

NoRun == [active |-> FALSE]
NewRun(replace, ignoring) ==
  [active |-> TRUE, replace |-> replace, ignoring |-> ignoring,
   pos |-> IF replace THEN 0 ELSE done,
   state |-> IF replace THEN InitialState(provider) ELSE store,
   staged |-> {}, established |-> FALSE]

Init ==
  /\ provider \in DOMAIN Opening
  /\ place \in (IF provider = "claude" THEN Places
                ELSE {[parts |-> 2, subagents |-> Claude!NoSubagents]})
  /\ file = <<>>
  /\ status = "new"
  /\ done = 0
  /\ store = InitialState(provider)
  /\ corpus = {}
  /\ run = NoRun

(* The agent that owns the session writes a record.                        *)
Grow ==
  /\ ~run.active
  /\ Len(file) < MaxRecords[provider]
  /\ \E rec \in (IF file = <<>> THEN Opening ELSE Following)[provider] :
       file' = Append(file, rec)
  /\ UNCHANGED <<provider, place, status, done, store, corpus, run>>

(* _source_plan: an excluded source is not read again.                     *)
Begin ==
  /\ ~run.active
  /\ status # "excluded"
  /\ done < Len(file)
  /\ \E ignoring \in BOOLEAN : run' = NewRun(status = "new", ignoring)
  /\ UNCHANGED <<provider, place, file, status, done, store, corpus>>

(* _stage_parsed_batch: a batch that cannot be staged fails its source, or *)
(* the whole run.                                                          *)
Batch(n) == Parse(Envelopes(run.pos, n), run.state)
Stageable(parsed, rows) ==
  /\ ~Raised(parsed)
  /\ ~Blocked(parsed, run.ignoring)
  /\ Unambiguous(rows)
Staged(parsed, rows, n) ==
  [run EXCEPT !.pos = @ + n, !.state = parsed.state,
              !.staged = Stage(@, rows),
              !.established = @ \/ Established(parsed)]

(* _parse_source_batches: n is what the limits of a batch let through.     *)
StageBatch(parsed, rows, n) ==
  /\ Stageable(parsed, rows)
  /\ run' = Staged(parsed, rows, n)
ReadBatch(parsed, n) ==
  StageBatch(parsed, Rows(Kept(parsed, run.ignoring)), n)
Read ==
  /\ run.active
  /\ run.pos < Len(file)
  /\ Admits(run.pos) = "admitted"
  /\ \E n \in 1..(Len(file) - run.pos) : ReadBatch(Batch(n), n)
  /\ UNCHANGED <<provider, place, file, status, done, store, corpus>>

Unstageable(parsed) ==
  ~Stageable(parsed, Rows(Kept(parsed, run.ignoring)))
Refused(n) == Admits(run.pos) = "blocked" \/ Unstageable(Batch(n))

FailRead ==
  /\ run.active
  /\ run.pos < Len(file)
  /\ Admits(run.pos) # "excluded"
  /\ \E n \in 1..(Len(file) - run.pos) : Refused(n)
  /\ run' = NoRun
  /\ UNCHANGED <<provider, place, file, status, done, store, corpus>>

(* _stage_excluded_source.                                                 *)
Exclude ==
  /\ run.active
  /\ run.pos = 0
  /\ Admits(0) = "excluded"
  /\ status' = "excluded"
  /\ done' = Len(file)
  /\ run' = NoRun
  /\ UNCHANGED <<provider, place, file, store, corpus>>

(* _parse_and_stage_source: rows already published have no cwd, so the     *)
(* append that finds one is done again from the first record.              *)
Again == ~run.replace /\ run.established
Reparse ==
  /\ run.active
  /\ run.pos = Len(file)
  /\ Again
  /\ run' = NewRun(TRUE, run.ignoring)
  /\ UNCHANGED <<provider, place, file, status, done, store, corpus>>

ToPublish == Stamped(run.staged, run.state)

Publish ==
  /\ run.active
  /\ run.pos = Len(file)
  /\ ~Again
  /\ ~Rejected(ToPublish, run.replace)
  /\ corpus' = Published(ToPublish, run.replace)
  /\ status' = "indexed"
  /\ done' = run.pos
  /\ store' = run.state
  /\ run' = NoRun
  /\ UNCHANGED <<provider, place, file>>

FailPublish ==
  /\ run.active
  /\ run.pos = Len(file)
  /\ ~Again
  /\ Rejected(ToPublish, run.replace)
  /\ run' = NoRun
  /\ UNCHANGED <<provider, place, file, status, done, store, corpus>>

(* The process ends: what it staged were temporary tables.                 *)
Crash ==
  /\ run.active
  /\ run' = NoRun
  /\ UNCHANGED <<provider, place, file, status, done, store, corpus>>

Next == \/ Grow \/ Begin \/ Read \/ FailRead \/ Exclude
        \/ Reparse \/ Publish \/ FailPublish \/ Crash

Spec == Init /\ [][Next]_vars

-----------------------------------------------------------------------------
(* The direct scan of a file for a locator the index does not hold.        *)

(* The native id that the locator of a record is made of.                  *)
CodexKey(rec) ==
  IF rec.type = "response_item" /\ rec.item = "message" THEN rec.native
  ELSE NoId
NativeKey(rec) ==
  CASE provider = "codex" -> CodexKey(rec)
    [] provider = "claude" /\ rec.type \notin Claude!Undecoded -> rec.uuid
    [] OTHER -> NoId

(* raw_record_matches.  Codex looks for payload.id in a record of any type.*)
MatchedIds(rec) ==
  IF provider = "codex" THEN {rec[f] : f \in DOMAIN rec \cap {"id", "native"}}
  ELSE {NativeKey(rec)}
RecordMatches(locator, e) ==
  IF locator.key = "ordinal" THEN e.ord = locator.ord
  ELSE locator.key \in MatchedIds(e.rec)

(* _recognizes_locator.                                                    *)
Recognizes(parsed, locator) ==
  \E m \in parsed.messages : \E a \in m.aliases : a.locator = locator

ScanUnsupportedCodes(p) ==
  UnsupportedCodes(p) \cup {"malformed_json"}

(* _unsupported_at_target.                                                 *)
UnsupportedAtTarget(parsed, envs, locator) ==
  /\ provider = "codex" => parsed.session \in {NoId, locator.session}
  /\ \E d \in parsed.notes :
       /\ d.code \in ScanUnsupportedCodes(provider)
       /\ \E e \in ToSet(envs) : e.ord = d.ord /\ RecordMatches(locator, e)

(* scan_unindexed, in batches of the same width.                           *)
FromScratch(scan) == InitialState(provider)      \* mutant
Resume(scan) == scan.state
Scanned(scan, envs, parsed, locator) ==
  [state |-> parsed.state,
   recognized |-> Recognizes(parsed, locator),
   unsupported |-> \/ scan.unsupported
                   \/ UnsupportedAtTarget(parsed, envs, locator)]
ScanEnvelopes(scan, envs, locator) ==
  Scanned(scan, envs, Parse(envs, Resume(scan)), locator)
ScanNext(scan, from, locator, width) ==
  IF scan.recognized THEN scan
  ELSE ScanEnvelopes(scan,
         Envelopes(from, IF from + width <= Len(file) THEN width
                         ELSE Len(file) - from), locator)
Scan(locator, width) ==
  LET batches == (Len(file) + width - 1) \div width
      after[i \in 0..batches] ==
        IF i = 0 THEN [state |-> InitialState(provider),
                       recognized |-> FALSE, unsupported |-> FALSE]
        ELSE ScanNext(after[i - 1], (i - 1) * width, locator, width)
  IN after[IF Admits(0) = "admitted" THEN batches ELSE 0]

-----------------------------------------------------------------------------
(* Reference definitions: what a record is when it is looked at alone.     *)

NoContext == [session |-> SessionName, kind |-> "primary", epoch |-> 0,
              cwd |-> NoCwd]
Alone(i) == [ord |-> i, rec |-> file[i]]

Decoded(i) ==
  IF provider = "antigravity" THEN file[i].pair \notin Antigravity!Undecoded
  ELSE file[i].type \notin Codex!Undecoded

Projections(i) ==
  Codex!Record([ctx |-> NoContext, seen |-> {}, candidates |-> {},
                boundaries |-> {}, notes |-> {}], Alone(i)).candidates

ClassesOf(i) ==
  CASE ~Decoded(i) -> {}
    [] Decoded(i) /\ provider = "codex" -> {c.class : c \in Projections(i)}
    [] Decoded(i) /\ provider = "claude" ->
         {m.class : m \in Claude!Record(
            [ctx |-> NoContext, seen |-> {}, messages |-> {},
             boundaries |-> {}, notes |-> {}], Alone(i)).messages}
    [] Decoded(i) /\ provider = "antigravity" ->
         {x.row.class : x \in Antigravity!Record(
            [epoch |-> 0, cwd |-> NoCwd, rows |-> {}, notes |-> {}],
            Alone(i)).rows}

(* What a boundary record is known by; nothing for any other record.       *)
BoundaryKeys(i) ==
  LET r == file[i]
  IN CASE provider = "codex" ->
            {x.digest : x \in {y \in {r} : y.type = "compacted" /\ y.good}}
       [] provider = "claude" ->
            {x.uuid : x \in {y \in {r} :
               /\ y.type = "system" /\ y.subtype = "compact_boundary"
               /\ y.good /\ y.uuid # NoId}}
       [] provider = "antigravity" ->
            {i : x \in {y \in {r} :
               y.pair = "checkpoint" /\ y.flaw = Antigravity!NoFlaw}}

SameProse(i, j) ==
  \E c \in Projections(i), d \in Projections(j) :
    /\ Codex!Projection(c) /\ c.family = d.family
    /\ <<c.role, c.text>> = <<d.role, d.text>>

(* A Codex file that says everything once, and has one session_meta.       *)
SaidOnce ==
  provider = "codex" =>
    \A i, j \in 1..done : i < j => ~SameProse(i, j)
OneMeta ==
  provider = "codex" => \A i \in 2..done : file[i].type # "session_meta"

-----------------------------------------------------------------------------
(* Properties.                                                             *)

(* Every parser state that is stored, or handed to the next batch, is one  *)
(* the parser accepts back: a trailing candidate is a lone prose           *)
(* projection of the continuing epoch, session and kind                    *)
(* (CodexParserState.__post_init__; a state that is refused makes the next *)
(* refresh parse the whole file again).                                    *)
Admissible(state) ==
  /\ (state.kind = Codex!NoKind) = (state.session = NoId)
  /\ \A c \in state.carry :
       /\ Codex!Projection(c) /\ c.class = "prose"
       /\ c.epoch = state.epoch
       /\ c.session = state.session /\ c.kind = state.kind
       /\ state.carry = {c}
StateAdmissible ==
  provider = "codex" =>
    /\ Admissible(store)
    /\ run.active => Admissible(run.state)

(* Only the publication that ends a run changes the corpus, so what is     *)
(* said of the corpus is said between the runs.                            *)
AtRest == ~run.active

(* However the reads were split, failed or repeated, the corpus has every  *)
(* visible content of the records up to the checkpoint, each of them once, *)
(* and nothing else (parse, stage, publish).                               *)
VisibleRecordsPublished ==
  AtRest /\ status # "excluded" =>
    /\ {PrimaryKey(r) : r \in corpus} =
         {<<i, class>> : i \in 1..done,
                         class \in {"prose", "tool_name", "tool_input"}}
           \cap UNION {{<<i, class>> : class \in ClassesOf(i)} :
                         i \in 1..done}
    /\ Unambiguous(corpus)

(* A published record keeps its row, and the row its locator, its message  *)
(* and the message its canonical locator, whatever is read later: links    *)
(* into the archive do not move (codex_logical_message_id).                *)
IdentitiesStay ==
  [][\A r \in corpus : \E s \in corpus' :
       /\ PrimaryKey(s) = PrimaryKey(r)
       /\ <<s.id, s.alias, s.locator>> = <<r.id, r.alias, r.locator>>]_corpus

(* A Codex record shares its message with another only as the response and *)
(* the event of one text, in one epoch, with nothing visible between them, *)
(* or as a copy under one native id (canonicalize_codex_candidates).       *)
ProjectionPair(r, s) ==
  LET epoch(x) == Cardinality(UNION {BoundaryKeys(i) : i \in 1..x.ord})
      within(x, y) == (x.ord + 1)..(y.ord - 1)
  IN \E c \in Projections(r.ord), d \in Projections(s.ord) :
       /\ {c.family, d.family} = {"response", "event"}
       /\ <<c.role, c.text>> = <<d.role, d.text>>
       /\ epoch(r) = epoch(s)
       /\ \A i \in within(r, s) \cup within(s, r) :
            "prose" \notin ClassesOf(i)
PairsAreProjections ==
  AtRest /\ provider = "codex" =>
    \A r \in corpus :
      LET others == {s \in corpus \ {r} : MessageKey(s) = MessageKey(r)}
      IN others # {} =>
           \E s \in others : s.alias = r.alias \/ ProjectionPair(r, s)

(* The epoch of a message is the number of different boundaries recorded   *)
(* before it: a boundary that is written again, in the same batch or in    *)
(* another one, does not count twice (seen_compaction_digests).            *)
EpochsAreBoundaries ==
  AtRest => \A r \in corpus :
    r.epoch = Cardinality(UNION {BoundaryKeys(i) : i \in 1..(r.ord - 1)})

(* Reading a file as it grew gives the rows that reading it at once gives, *)
(* for a Codex file that repeats no text and copies no metadata.  The      *)
(* session kind of Claude and the cwd of Codex are those of a batch.       *)
Comparable(r) ==
  CASE provider = "codex" -> [r EXCEPT !.cwd = NoCwd]
    [] provider = "claude" -> [r EXCEPT !.kind = "any", !.harness = FALSE]
    [] OTHER -> r
SettledRows(parsed) ==
  Settled(Stamped(Rows(parsed.messages), parsed.state))
OneShot == SettledRows(Parse(Envelopes(0, done), InitialState(provider)))
IncrementalIsOneShot ==
  AtRest /\ status = "indexed" /\ SaidOnce /\ OneMeta =>
    {Comparable(r) : r \in corpus} = {Comparable(r) : r \in OneShot}

(* A published locator is recognized by the scan of the file, in batches   *)
(* of any width: resolution does not depend on how the index was built     *)
(* (scan_unindexed).                                                       *)
ScanFindsPublished ==
  AtRest /\ status = "indexed" /\ done = Len(file) /\ OneMeta =>
    \A r \in corpus : \A width \in 1..MaxRecords[provider] :
      Scan(r.alias, width).recognized

(* A publication is refused only over records that share a native id: how  *)
(* a file is split into batches never makes a run fail.                    *)
Copied == \E i, j \in 1..Len(file) :
  /\ i < j
  /\ NativeKey(file[i]) = NativeKey(file[j]) /\ NativeKey(file[i]) # NoId
OnlyCopiesConflict ==
  /\ run.active
  /\ run.pos = Len(file)
  /\ ~Again
  /\ Rejected(ToPublish, run.replace)
  => Copied
=============================================================================
