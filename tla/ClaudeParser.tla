---------------------------- MODULE ClaudeParser ----------------------------
(***************************************************************************)
(* providers/claude.py: one batch of records of a Claude session, parsed   *)
(* from the state that the batch before it left.                           *)
(*                                                                         *)
(* Envelopes and records are as in CodexParser.  The type of a record is   *)
(* also "metadata" for a record of an audited metadata key set and         *)
(* "legacy" for a flat message record, whose key set has no session, agent *)
(* or cwd: it is read without them.                                        *)
(***************************************************************************)
EXTENDS NativeIdentity, Integers, SequencesExt

Undecoded == {"malformed_json", "invalid_encoding", "non_object"}
DecodeCode(type) ==
  IF type = "non_object" THEN "unknown_conversation_record" ELSE type

-----------------------------------------------------------------------------
(* _path_kind: parts of the path below the root, and where "subagents" is  *)
(* among them, counted from 0.                                             *)
NoSubagents == -1
PathKind(parts, subagents) ==
  CASE subagents = NoSubagents ->
         (IF parts \in 1..2 THEN "primary" ELSE "unknown")
    [] subagents # NoSubagents ->
         (IF subagents >= 1 /\ subagents = parts - 2 THEN "agent"
          ELSE "unknown")

(* _is_known_metadata_record, _is_legacy_flat_message_record.              *)
KnownMetadata(r) == r.type = "metadata"
HasUuid(r) == r.uuid # NoId                      \* _message_uuid
Legacy(r) == r.type = "legacy" /\ HasUuid(r)

(* _classify_session_kind: what records of the batch say against the path. *)
Evidence(e) == ~KnownMetadata(e.rec) /\ ~Legacy(e.rec)
Contradicts(e, kind, session) ==
  LET r == e.rec
  IN \/ r.session \notin {"absent", session}
     \/ "malformed" \in {r.sidechain, r.agent}
     \/ /\ kind = "primary"
        /\ r.sidechain = "true" \/ r.agent = "some"
     \/ /\ kind = "agent"
        /\ r.sidechain = "false"

SessionKind(decoded, path, session) ==
  IF \/ decoded = <<>>
     \/ \E e \in ToSet(decoded) :
          Evidence(e) /\ Contradicts(e, path, session)
  THEN "unknown" ELSE path

-----------------------------------------------------------------------------
(* Content.  A string is the sequence of the spans it is made of, where    *)
(* Injected is a system-reminder span; a block list has one block per      *)
(* element.                                                                *)

Emitted(rows, codes) == [rows |-> rows, codes |-> codes]
Silent(code) == Emitted({}, {code})

(* _without_system_reminders, of user prose only.                          *)
Reminded(spans, user) == user /\ Injected \in ToSet(spans)
Spoken(spans, user) ==
  IF user THEN SelectSeq(spans, LAMBDA x : x # Injected) ELSE spans

(* _extract_string_content.                                                *)
StringContent(spans, user) ==
  LET said == Spoken(spans, user)
  IN IF SomeText(said)
     THEN Emitted({[class |-> "prose", text |-> Joined(said)]},
                  RepairCodes(said))
     ELSE Silent(IF Reminded(spans, user) THEN "excluded_injected"
                 ELSE "empty_content")

(* _excluded_content_block_diagnostic.                                     *)
BlockCode(block) ==
  CASE block = "tool_result" -> "excluded_tool_result"
    [] block \in {"advisor_tool_result", "fallback", "server_tool_use"} ->
         "excluded_tool_metadata"
    [] block = "image" -> "excluded_non_text_tool_result"
    [] block = "thinking" -> "excluded_thinking"
    [] block = "reasoning" -> "excluded_reasoning"
    [] block \in {"system", "developer", "injected"} -> "excluded_injected"
    [] OTHER -> "unknown_content_block"

(* _extract_text_block keeps a text unless reminders were all there was.   *)
TextBlocks(blocks) == SelectSeq(blocks, LAMBDA b : b.block = "text")
Kept(blocks, user) ==
  SelectSeq(TextBlocks(blocks), LAMBDA b :
    Reminded(b.spans, user) => SomeText(Spoken(b.spans, user)))
Prose(blocks, user) ==
  LET kept == Kept(blocks, user)
  IN FlattenSeq([i \in DOMAIN kept |-> Spoken(kept[i].spans, user)])

(* _extract_tool_use_block.                                                *)
ToolBlocks(blocks) ==
  SelectSeq(blocks, LAMBDA b : b.block = "tool_use" /\ b.name # Blank)
Names(tools) == [i \in DOMAIN tools |-> tools[i].name]
Inputs(tools) ==
  LET given == SelectSeq(tools, LAMBDA b : b.input # NoId)
  IN [i \in DOMAIN given |-> given[i].input]

OtherCodes(blocks) ==
  {BlockCode(b.block) : b \in {x \in ToSet(blocks) :
     x.block # "text" /\ (x.block = "tool_use" => x.name = Blank)}}

(* _extract_content of a block list: one row per content class.            *)
Rows(class, lines) ==
  IF lines = <<>> THEN {} ELSE {[class |-> class, text |-> Joined(lines)]}
BlockContent(blocks, user) ==
  LET prose == Prose(blocks, user)
      tools == ToolBlocks(blocks)
      rows == (IF SomeText(prose) THEN Rows("prose", prose) ELSE {})
                \cup Rows("tool_name", Names(tools))
                \cup Rows("tool_input", Inputs(tools))
      reminded == \E b \in ToSet(TextBlocks(blocks)) :
                    Reminded(b.spans, user)
      empty == \/ blocks = <<>>
               \/ Kept(blocks, user) # <<>> /\ ~SomeText(prose)
  IN Emitted(rows,
       OtherCodes(blocks)
         \cup RepairCodes(prose \o Names(tools) \o Inputs(tools))
         \cup {c \in {"empty_content"} : empty}
         \cup {c \in {"excluded_injected"} : reminded /\ rows = {}})

Content(c, user) ==
  CASE c.form = "string" -> StringContent(c.spans, user)
    [] c.form = "blocks" -> BlockContent(c.blocks, user)
    [] OTHER -> Silent("unknown_content_block")

-----------------------------------------------------------------------------
(* Records.                                                                *)

(* _native_message, one per content class.                                 *)
Messages(e, role, rows, ctx) ==
  LET r == e.rec
      identity == Identity({Alias(e.ord, IdLocator(ctx.session, r.uuid))})
  IN {[id |-> identity.id, locator |-> identity.locator,
       aliases |-> identity.aliases, time |-> r.time, role |-> role,
       kind |-> ctx.kind, epoch |-> ctx.epoch, class |-> row.class,
       text |-> row.text, cwd |-> r.cwd,
       harness |-> /\ role = "user" /\ ctx.kind = "agent"
                   /\ r.sidechain = "true" /\ r.agent = "some"] :
      row \in rows}

(* What keeps a user or assistant record out, in the order of the tests.   *)
Refusal(r) ==
  IF r.meta THEN "excluded_injected"
  ELSE IF r.message = "absent" THEN "missing_message"
  ELSE IF r.message = "no_object" THEN "non_object_message"
  ELSE IF r.role # r.type THEN "unknown_role"
  ELSE IF ~HasUuid(r) THEN "missing_message_uuid" ELSE NoId

Noted(acc, e, codes) == [acc EXCEPT !.notes = @ \cup Notes(e, codes)]

Said(acc, e, role) ==
  LET content == Content(e.rec.content, role = "user")
  IN [Noted(acc, e, content.codes) EXCEPT
        !.messages = @ \cup Messages(e, role, content.rows, acc.ctx)]

(* _parse_boundary: a compact_boundary starts the next epoch, once per     *)
(* uuid.                                                                   *)
Compact(acc, e) ==
  CASE ~e.rec.good \/ ~HasUuid(e.rec) ->
         Noted(acc, e, {"invalid_compact_boundary"})
    [] e.rec.good /\ HasUuid(e.rec) /\ e.rec.uuid \in acc.seen ->
         Noted(acc, e, {"duplicate_compact_boundary"})
    [] OTHER -> [acc EXCEPT !.seen = @ \cup {e.rec.uuid},
                            !.ctx.epoch = @ + 1,
                            !.boundaries = @ \cup
                              {<<e.ord, acc.ctx.epoch + 1>>}]

(* What did not decode is passed over.                                     *)
Record(acc, e) ==
  LET r == e.rec
  IN CASE r.type \in Undecoded -> acc
       [] KnownMetadata(r) -> Noted(acc, e, {"excluded_metadata"})
       [] Legacy(r) -> Said(acc, e, r.role)
       [] r.type = "system" ->
            (IF r.subtype = "compact_boundary" THEN Compact(acc, e)
             ELSE Noted(acc, e, {"excluded_system"}))
       [] r.type \in {"user", "assistant"} ->
            (IF Refusal(r) = NoId THEN Said(acc, e, r.role)
             ELSE Noted(acc, e, {Refusal(r)}))
       [] OTHER -> Noted(acc, e, {"unknown_conversation_record"})

-----------------------------------------------------------------------------
Initial == [epoch |-> 0, seen |-> {}]

(* parse_claude_session.                                                   *)
Visit(envs, ctx, notes, state) ==
  LET after[i \in 0..Len(envs)] ==
        IF i = 0 THEN [ctx |-> ctx, seen |-> state.seen, messages |-> {},
                       boundaries |-> {}, notes |-> notes]
        ELSE Record(after[i - 1], envs[i])
  IN after[Len(envs)]

Finish(read) ==
  [session |-> read.ctx.session, messages |-> read.messages,
   boundaries |-> read.boundaries, notes |-> read.notes,
   state |-> [epoch |-> read.ctx.epoch, seen |-> read.seen]]

ParseAs(kind, envs, notes, state, session) ==
  Finish(Visit(envs,
               [session |-> session, epoch |-> state.epoch, kind |-> kind],
               notes, state))

Decoded(envs) == SelectSeq(envs, LAMBDA e : e.rec.type \notin Undecoded)
DecodeNotes(envs) ==
  {Note(e, DecodeCode(e.rec.type)) :
     e \in {x \in ToSet(envs) : x.rec.type \in Undecoded}}

Parse(envs, state, path, session) ==
  ParseAs(SessionKind(Decoded(envs), path, session), envs,
          DecodeNotes(envs), state, session)
=============================================================================
