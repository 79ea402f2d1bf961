------------------------- MODULE AntigravityParser -------------------------
(***************************************************************************)
(* providers/antigravity.py: the admission of a session by its first       *)
(* record, and one batch of its records parsed from the state that the     *)
(* batch before it left.                                                   *)
(*                                                                         *)
(* The pair of a record is its source and type.  flaw is the code of the   *)
(* first thing its common shape lacks, NoFlaw when it lacks nothing.       *)
(***************************************************************************)
EXTENDS NativeIdentity, SequencesExt

CONSTANT ScopeStart   \* SCOPE_START

NoFlaw == "none"
Undecoded == {"malformed_json", "invalid_encoding"}

-----------------------------------------------------------------------------
(* admit_antigravity_session.                                              *)
Admission(r) ==
  IF r.pair \in Undecoded \/ r.flaw # NoFlaw THEN "blocked"
  ELSE IF r.time < ScopeStart \/ r.pair = "system_message" THEN "excluded"
  ELSE IF r.pair = "user_input" THEN "admitted" ELSE "blocked"

-----------------------------------------------------------------------------
(* Projections.  code is NoFlaw unless the record is rejected.             *)
Projection(role, rows, codes, cwd) ==
  [role |-> role, rows |-> rows, codes |-> codes, cwd |-> cwd]
Nothing(codes) == Projection(NoId, {}, codes, NoCwd)

(* _storable_text: blank content gives no row.                             *)
Truncated == "<truncated>"
Storable(lines) == {t \in {Joined(lines)} : SomeText(lines)}
StorableCodes(lines) ==
  IF ~SomeText(lines) THEN {"empty_content"}
  ELSE RepairCodes(lines) \cup {c \in {"antigravity_truncated_prose"} :
                                   Truncated \in ToSet(lines)}
Prose(lines) == {[class |-> "prose", text |-> t] : t \in Storable(lines)}

(* _user_request_text: what follows the USER_REQUEST element is excluded.  *)
UserInput(r) ==
  Projection("user", Prose(r.request),
             StorableCodes(r.request) \cup
               {c \in {"excluded_injected"} : r.context}, NoCwd)

(* _tool_calls, _first_run_command_cwd: the first run_command decides,     *)
(* whether it has a Cwd or not.                                            *)
RunCommands(calls) ==
  SelectSeq(calls, LAMBDA call : call.name = "run_command")
RunCommandCwd(calls) ==
  IF RunCommands(calls) = <<>> THEN NoCwd ELSE RunCommands(calls)[1].cwd
ToolRows(calls) ==
  IF calls = <<>> THEN {}
  ELSE {[class |-> "tool_name",
         text |-> [i \in DOMAIN calls |-> calls[i].name]],
        [class |-> "tool_input",
         text |-> [i \in DOMAIN calls |-> calls[i].args]]}

(* _project_planner_response; no content is the empty sequence of lines.   *)
PlannerResponse(r) ==
  Projection("assistant", Prose(r.content) \cup ToolRows(r.calls),
             (IF r.content = <<>> THEN {} ELSE StorableCodes(r.content))
               \cup {c \in {"excluded_thinking"} : r.thinking},
             RunCommandCwd(r.calls))

(* What _RecordRejectedError says of a record, NoFlaw when it is projected. *)
Pairs == {"user_input", "planner_response", "generic", "system_message",
          "error_message", "checkpoint"}
Rejection(r) ==
  IF r.flaw # NoFlaw THEN r.flaw
  ELSE IF r.pair \notin Pairs THEN "antigravity_unknown_record_pair"
  ELSE IF r.pair \in {"user_input", "planner_response"} THEN r.misfit
  ELSE NoFlaw

(* _project_record of a record that is not rejected.                       *)
Project(r) ==
  CASE r.pair = "user_input" -> UserInput(r)
    [] r.pair = "planner_response" -> PlannerResponse(r)
    [] r.pair = "generic" -> Nothing({"excluded_tool_result"})
    [] r.pair \in {"system_message", "error_message"} ->
         Nothing({"excluded_injected"})
    [] OTHER -> Nothing({})

-----------------------------------------------------------------------------
(* The batch.                                                              *)

Initial == [epoch |-> 0, cwd |-> NoCwd]

FirstOf(known, found) == IF known = NoCwd THEN found ELSE known

Projected(acc, e, p) ==
  [acc EXCEPT !.notes = @ \cup Notes(e, p.codes),
              !.cwd = FirstOf(@, p.cwd),
              !.rows = @ \cup {[e |-> e, role |-> p.role, row |-> row,
                                epoch |-> acc.epoch] : row \in p.rows}]
(* What did not decode is passed over.                                     *)
Record(acc, e) ==
  IF e.rec.pair \in Undecoded THEN acc
  ELSE IF Rejection(e.rec) # NoFlaw
  THEN [acc EXCEPT !.notes = @ \cup {Note(e, Rejection(e.rec))}]
  ELSE IF e.rec.pair = "checkpoint" THEN [acc EXCEPT !.epoch = @ + 1]
  ELSE Projected(acc, e, Project(e.rec))

(* _native_messages; the cwd the batch ends with is on all its rows.       *)
Message(x, session, cwd) ==
  LET identity == Identity({Alias(x.e.ord, OrdinalLocator(session, x.e.ord))})
  IN [id |-> identity.id, locator |-> identity.locator,
      aliases |-> identity.aliases, time |-> x.e.rec.time, role |-> x.role,
      kind |-> "primary", epoch |-> x.epoch, class |-> x.row.class,
      text |-> x.row.text, cwd |-> cwd, harness |-> FALSE]

(* parse_antigravity_session.  raised: NativeMessage refuses a text that   *)
(* was not repaired, and a tool row is not.                                *)
Visit(envs, notes, state) ==
  LET after[i \in 0..Len(envs)] ==
        IF i = 0 THEN [epoch |-> state.epoch, cwd |-> state.cwd,
                       rows |-> {}, notes |-> notes]
        ELSE Record(after[i - 1], envs[i])
  IN after[Len(envs)]

Finish(read, state, session) ==
  [session |-> session,
   messages |-> {Message(x, session, read.cwd) : x \in read.rows},
   boundaries |-> {}, notes |-> read.notes,
   state |-> [epoch |-> read.epoch, cwd |-> read.cwd],
   established |-> state.cwd = NoCwd /\ read.cwd # NoCwd,
   raised |-> \E x \in read.rows : Unstorable \in ToSet(x.row.text)]

DecodeNotes(envs) ==
  {Note(e, e.rec.pair) :
     e \in {x \in ToSet(envs) : x.rec.pair \in Undecoded}}

Parse(envs, state, session) ==
  Finish(Visit(envs, DecodeNotes(envs), state), state, session)
=============================================================================
