---------------------------- MODULE CodexParser ----------------------------
(***************************************************************************)
(* providers/codex.py: one batch of records of a Codex session, parsed     *)
(* from the state that the batch before it left.                           *)
(*                                                                         *)
(* An envelope is [ord, rec].  A record has a type: the outer type of the  *)
(* JSON object, or how it failed to decode.  What the parser reads from a  *)
(* record of that type are its further fields; key sets and field types    *)
(* that only say whether a shape is an audited one are one field, good.    *)
(***************************************************************************)
EXTENDS Canonicalization, SequencesExt

NoKind == "none"
Unsafe == "a:b"   \* not a locator-safe id

Undecoded == {"malformed_json", "invalid_encoding", "non_object"}
DecodeCode(type) ==
  IF type = "non_object" THEN "unknown_outer_type" ELSE type

-----------------------------------------------------------------------------
(* session_meta: kind and identity.                                        *)

(* The session_meta records of a batch, in their order.                    *)
MetaPlaces(envs) == {i \in DOMAIN envs : envs[i].rec.type = "session_meta"}
Nth(k, places) ==
  CHOOSE i \in places : Cardinality({j \in places : j <= i}) = k
Metas(envs) == LET at == MetaPlaces(envs)
               IN [k \in 1..Cardinality(at) |-> envs[Nth(k, at)]]

(* _source_kind.                                                           *)
SourceKind(meta) ==
  CASE meta.source = "cli" -> "primary"
    [] meta.source \in {"spawned", "review"} -> "agent"
    [] OTHER -> NoKind

(* _child_lineage_identity and metadata_identity: a spawned thread has its *)
(* own id, any other one value under id and session_id.                    *)
MetaIdentity(meta) ==
  LET present == {meta.id, meta.session} \ {NoId}
      own == meta.id
  IN IF meta.source = "spawned"
     THEN IF Unsafe \in {own, meta.spawn} \/ own = meta.spawn THEN NoId
          ELSE own
     ELSE IF Cardinality(present) = 1 /\ Unsafe \notin present
          THEN CHOOSE id \in present : TRUE
          ELSE NoId

(* lineage_identities.                                                     *)
Lineage(meta) ==
  {meta.session, meta.parent, meta.spawn} \ {NoId, Unsafe}

(* Further session_meta records that are neither the owner's nor of a      *)
(* lineage attested by the ones before them.                               *)
Attest(allowed, e) ==
  IF MetaIdentity(e.rec) \in allowed THEN allowed \cup Lineage(e.rec)
  ELSE allowed
AttestedBefore(metas, i) ==
  LET owner == metas[1].rec
  IN FoldLeft(Attest, {MetaIdentity(owner)} \cup Lineage(owner),
              SubSeq(metas, 2, i - 1))
Unattested(metas) ==
  {metas[i] : i \in {j \in 2..Len(metas) :
     MetaIdentity(metas[j].rec) \notin AttestedBefore(metas, j)}}

(* _metadata_session_identity.                                             *)
ObservedSession(metas) ==
  IF Unattested(metas) = {} THEN MetaIdentity(metas[1].rec) ELSE NoId

(* _resolved_session_identity; NoId when a diagnostic says why not.        *)
ResolvedSession(metas, established) ==
  IF metas = <<>> THEN established
  ELSE LET observed == ObservedSession(metas)
       IN IF established \in {NoId, observed} THEN observed ELSE NoId

(* The records its diagnostics are at; 0 when none decoded.                *)
Unidentified(decoded, metas) ==
  CASE decoded = <<>> -> {0}
    [] metas # <<>> /\ MetaIdentity(metas[1].rec) = NoId -> {metas[1].ord}
    [] metas # <<>> /\ MetaIdentity(metas[1].rec) # NoId
         /\ Unattested(metas) # {} -> {e.ord : e \in Unattested(metas)}
    [] OTHER -> {decoded[1].ord}

(* _continued_session_kind.                                                *)
UnknownKind == [kind |-> "unknown", good |-> FALSE]
FirstKind(metas) ==
  IF SourceKind(metas[1].rec) = NoKind THEN UnknownKind
  ELSE [kind |-> SourceKind(metas[1].rec), good |-> TRUE]
ContinuedKind(metas, established) ==
  IF metas = <<>>
  THEN [kind |-> IF established = NoKind THEN "unknown" ELSE established,
        good |-> TRUE]
  ELSE IF established \in {NoKind, "unknown", FirstKind(metas).kind}
       THEN FirstKind(metas) ELSE UnknownKind

-----------------------------------------------------------------------------
(* Visible records.  ctx is the session, kind, epoch and cwd they are read *)
(* under.                                                                  *)

LocatorOf(e, ctx, native) ==
  IF native \in {NoId, Unsafe} THEN OrdinalLocator(ctx.session, e.ord)
  ELSE IdLocator(ctx.session, native)

(* _native_message.                                                        *)
Candidate(e, ctx, family, class, role, text, native) ==
  [ord |-> e.ord, family |-> family, locator |-> LocatorOf(e, ctx, native),
   session |-> ctx.session, kind |-> ctx.kind, epoch |-> ctx.epoch,
   role |-> role, class |-> class, text |-> text, time |-> e.rec.time,
   cwd |-> ctx.cwd, harness |-> role = "user" /\ ctx.kind = "agent"]

Emitted(candidates, codes) == [candidates |-> candidates, codes |-> codes]
Silent(code) == Emitted({}, {code})

HarnessText(line, role) == role = "user" /\ line = Injected

(* _message_content: the lines of the blocks of the type the role expects. *)
TextBlock(b) == b.block = "text"
BlockCode(b) ==
  CASE b.block = "reasoning" -> "excluded_reasoning"
    [] b.block = "input_image" -> "excluded_non_text_content"
    [] OTHER -> "unknown_content_block"
BlockCodes(blocks) ==
  {BlockCode(b) : b \in {x \in ToSet(blocks) : ~TextBlock(x)}}
Lines(blocks, role) ==
  LET shown == SelectSeq(blocks, LAMBDA b :
                 TextBlock(b) /\ ~HarnessText(b.line, role))
  IN [i \in DOMAIN shown |-> shown[i].line]
Removed(blocks, role) ==
  \E b \in ToSet(blocks) : TextBlock(b) /\ HarnessText(b.line, role)
WithoutText(blocks, role) ==
  IF Removed(blocks, role) THEN {"excluded_injected"}
  ELSE {c \in {"empty_content"} :
          blocks = <<>> \/ Lines(blocks, role) # <<>>}

MessageItem(e, ctx) ==
  LET r == e.rec
      lines == Lines(r.blocks, r.role)
      codes == BlockCodes(r.blocks) \cup RepairCodes(lines)
  IN IF SomeText(lines)
     THEN Emitted({Candidate(e, ctx, "response", "prose", r.role,
                             Joined(lines), r.native)}, codes)
     ELSE Emitted({}, codes \cup WithoutText(r.blocks, r.role))

(* _parse_tool_call_item.                                                  *)
ToolItem(e, ctx) ==
  LET r == e.rec
      row(class, line) == Candidate(e, ctx, "tool", class, "assistant",
                                    Joined(<<line>>), NoId)
  IN IF r.name = Blank \/ ~r.good THEN Silent("unknown_response_item")
     ELSE Emitted({row("tool_name", r.name), row("tool_input", r.input)},
                  RepairCodes(<<r.name, r.input>>))

(* _parse_response_item.                                                   *)
InterAgent(item) == item = "agent_message"  \* of an audited key set
ItemCode(item) ==
  CASE item = "ghost_snapshot" -> "excluded_metadata"
    [] item = "reasoning" -> "excluded_reasoning"
    [] InterAgent(item) -> "excluded_inter_agent_metadata"
    [] item = "tool_call_output" -> "excluded_tool_result"
    [] item = "no_object" -> "invalid_payload"
    [] OTHER -> "unknown_response_item"
ResponseItem(e, ctx) ==
  LET r == e.rec
  IN CASE r.item = "message" ->
            (CASE r.role \in {"user", "assistant"} -> MessageItem(e, ctx)
               [] r.role = "developer" -> Silent("excluded_developer")
               [] OTHER -> Silent("unknown_role"))
       [] r.item = "tool_call" -> ToolItem(e, ctx)
       [] OTHER -> Silent(ItemCode(r.item))

(* _parse_event.                                                           *)
EventRole(event) ==
  CASE event = "user_message" -> "user"
    [] event = "agent_message" -> "assistant"
    [] OTHER -> NoId
Lifecycle(event) == event = "task_started"  \* of an audited key set
EventCode(event) ==
  CASE Lifecycle(event) -> "excluded_lifecycle_event"
    [] event = "no_object" -> "invalid_payload"
    [] OTHER -> "unknown_event"
Event(e, ctx) ==
  LET r == e.rec
      role == EventRole(r.event)
  IN CASE role = NoId -> Silent(EventCode(r.event))
       [] role # NoId /\ HarnessText(r.line, role) ->
            Silent("excluded_injected")
       [] role # NoId /\ r.line = Blank -> Silent("empty_content")
       [] OTHER -> Emitted({Candidate(e, ctx, "event", "prose", role,
                                      Joined(<<r.line>>), NoId)},
                           RepairCodes(<<r.line>>))

-----------------------------------------------------------------------------
(* The batch.                                                              *)

Initial == [epoch |-> 0, kind |-> NoKind, seen |-> {}, carry |-> {},
            session |-> NoId]

ForgottenSeen(state) == {}                       \* mutant
Seen(state) == state.seen

(* The first cwd any record of the batch has.                              *)
HasCwd(e) == "cwd" \in DOMAIN e.rec /\ e.rec.cwd # NoCwd
BatchCwd(envs) ==
  LET having == SelectSeq(envs, HasCwd)
  IN IF having = <<>> THEN NoCwd ELSE having[1].rec.cwd

(* A compacted record starts the next epoch, once per digest.              *)
Compact(acc, e) ==
  IF ~e.rec.good
  THEN [acc EXCEPT !.notes = @ \cup {Note(e, "unknown_compaction")}]
  ELSE IF e.rec.digest \in acc.seen
  THEN [acc EXCEPT !.notes = @ \cup {Note(e, "duplicate_compaction")}]
  ELSE [acc EXCEPT !.seen = @ \cup {e.rec.digest},
                   !.ctx.epoch = @ + 1,
                   !.boundaries = @ \cup {<<e.ord, acc.ctx.epoch + 1>>}]

Visible(acc, e, emitted) ==
  [acc EXCEPT !.candidates = @ \cup emitted.candidates,
              !.notes = @ \cup Notes(e, emitted.codes)]

(* Records of metadata: audited ones are silent or excluded by name.       *)
Audited(type) ==
  CASE type = "inter_agent_communication_metadata" ->
         {"excluded_inter_agent_metadata"}
    [] type = "token_usage_record" -> {"excluded_metadata"}
    [] OTHER -> {}
Unaudited(type) ==
  IF type \in {"turn_context", "world_state",
               "inter_agent_communication_metadata"}
  THEN {"unknown_metadata_shape"} ELSE {"unknown_outer_type"}
Metadata(r) == IF r.good THEN Audited(r.type) ELSE Unaudited(r.type)

(* What did not decode is passed over, and so is a session_meta.           *)
Record(acc, e) ==
  LET r == e.rec
  IN CASE r.type \in Undecoded \cup {"session_meta"} -> acc
       [] r.type = "response_item" -> Visible(acc, e, ResponseItem(e, acc.ctx))
       [] r.type = "event_msg" -> Visible(acc, e, Event(e, acc.ctx))
       [] r.type = "compacted" -> Compact(acc, e)
       [] OTHER -> Visible(acc, e, Emitted({}, Metadata(r)))

(* _next_trailing_candidate: the last projection, if it is of the epoch    *)
(* the batch ended in and nothing it could have been paired with was seen. *)
AnyEpoch(c, epoch) == TRUE                       \* mutant
OfEpoch(c, epoch) == c.epoch = epoch
NothingTrailing(all, epoch) == {}                \* mutant
Trailing(all, epoch) ==
  LET current == {c \in all : Projection(c) /\ OfEpoch(c, epoch)}
  IN {c \in current :
        /\ \A d \in current : d.ord <= c.ord
        /\ Group(c, all) = {c}
        /\ ~Ambiguous(c, all)}

(* _messages_touching_new_candidates.                                      *)
AllNew(x, fresh) == \A a \in x.aliases : a.ord \in fresh   \* mutant
Touches(x, fresh) == \E a \in x.aliases : a.ord \in fresh

(* parse_codex_session, from the session and kind of the batch: a         *)
(* candidate is carried on only under the kind it was read under.          *)
Established(state, kind) ==
  IF state.kind \in {NoKind, "unknown"} THEN kind ELSE state.kind
Carried(state, kind) == {c \in state.carry : state.kind = kind}

NextState(read, all, state) ==
  LET established == Established(state, read.ctx.kind)
  IN [epoch |-> read.ctx.epoch, kind |-> established, seen |-> read.seen,
      session |-> read.ctx.session,
      carry |-> IF read.ctx.kind = established
                THEN Trailing(all, read.ctx.epoch) ELSE {}]

Finished(read, all, state) ==
  [session |-> read.ctx.session,
   messages |-> {x \in Canonicalize(all) :
                   Touches(x, {c.ord : c \in read.candidates})},
   boundaries |-> read.boundaries, notes |-> read.notes,
   state |-> NextState(read, all, state)]

Finish(read, state) ==
  Finished(read, Carried(state, read.ctx.kind) \cup read.candidates, state)

Visit(envs, ctx, notes, state) ==
  LET after[i \in 0..Len(envs)] ==
        IF i = 0 THEN [ctx |-> ctx, seen |-> Seen(state), candidates |-> {},
                       boundaries |-> {}, notes |-> notes]
        ELSE Record(after[i - 1], envs[i])
  IN after[Len(envs)]

ParseUnder(session, kind, envs, notes, state) ==
  Finish(Visit(envs, [session |-> session, kind |-> kind,
                      epoch |-> state.epoch, cwd |-> BatchCwd(envs)],
               notes, state),
         state)

Decoded(envs) == SelectSeq(envs, LAMBDA e : e.rec.type \notin Undecoded)

Unresolved(decoded, metas, notes, state) ==
  [session |-> NoId, messages |-> {}, boundaries |-> {},
   notes |-> notes \cup [ord : Unidentified(decoded, metas),
                         code : {"unsupported_session_identity"}],
   state |-> state]

KindNotes(kind, metas) ==
  IF kind.good THEN {} ELSE {Note(metas[1], "unsupported_source_shape")}

ParseAs(session, kind, envs, metas, notes, state) ==
  IF session = NoId
  THEN Unresolved(Decoded(envs), metas, notes, state)
  ELSE ParseUnder(session, kind, envs, notes, state)

ParseRecords(envs, metas, kind, notes, state) ==
  ParseAs(ResolvedSession(metas, state.session), kind.kind, envs, metas,
          notes \cup KindNotes(kind, metas), state)

DecodeNotes(envs) ==
  {Note(e, DecodeCode(e.rec.type)) :
     e \in {x \in ToSet(envs) : x.rec.type \in Undecoded}}

Parse(envs, state) ==
  ParseRecords(envs, Metas(envs), ContinuedKind(Metas(envs), state.kind),
               DecodeNotes(envs), state)
=============================================================================
