--------------------------- MODULE MCSessionParse ---------------------------
(* Records that the files of SessionParse are made of, for TLC.            *)
EXTENDS SessionParse

(* Codex.                                                                  *)
Meta(source, id, spawn, cwd) ==
  [type |-> "session_meta", source |-> source, id |-> id,
   session |-> NoId, parent |-> NoId, spawn |-> spawn, cwd |-> cwd]
Response(native, role, lines, time) ==
  [type |-> "response_item", item |-> "message", role |-> role,
   native |-> native, time |-> time,
   blocks |-> [i \in DOMAIN lines |-> [block |-> "text",
                                       line |-> lines[i]]]]
Echo(event, line, time) ==
  [type |-> "event_msg", event |-> event, line |-> line, time |-> time]
ToolCall(name) ==
  [type |-> "response_item", item |-> "tool_call", name |-> name, id |-> "c1",
   input |-> "args", good |-> TRUE, time |-> 1]
TurnContext(cwd) == [type |-> "turn_context", good |-> TRUE, cwd |-> cwd]
Compacted(digest, good) ==
  [type |-> "compacted", digest |-> digest, good |-> good]

CodexOpening ==
  {Meta("cli", "own", NoId, "w1"), Meta("spawned", "child", "own", NoCwd)}
CodexFollowing ==
  {Meta("cli", "own", NoId, NoCwd),
   Response("m1", "user", <<"hi">>, 1),
   Response("m2", "user", <<Injected, "yo">>, 1),
   Echo("user_message", "hi", 1),
   ToolCall(Unstorable),
   TurnContext("w2"),
   Compacted("d1", TRUE),
   Compacted("d2", TRUE)}

(* Claude.                                                                 *)
ClaudeRecord(type, uuid) ==
  [type |-> type, uuid |-> uuid, session |-> SessionName, agent |-> "absent",
   sidechain |-> "absent", meta |-> FALSE, message |-> "object",
   role |-> type, time |-> 1, cwd |-> "w1", good |-> TRUE,
   subtype |-> "compact_boundary",
   content |-> [form |-> "string", spans |-> <<"hi">>]]
Spans(spans) == [form |-> "string", spans |-> spans]
Blocks(blocks) == [form |-> "blocks", blocks |-> blocks]

ClaudeOpening == {ClaudeRecord("user", "u1"), ClaudeRecord("metadata", NoId),
                  ClaudeRecord("system", "b1")}
ClaudeFollowing ==
  {ClaudeRecord("user", "u1"),
   [ClaudeRecord("user", "u2") EXCEPT
      !.content = Spans(<<Injected, "hi">>), !.sidechain = "true",
      !.agent = "some"],
   [ClaudeRecord("user", "u3") EXCEPT !.content = Spans(<<Injected>>)],
   [ClaudeRecord("assistant", "u4") EXCEPT
      !.content = Blocks(<<[block |-> "text", spans |-> <<Unstorable>>],
                           [block |-> "tool_use", name |-> "run",
                            input |-> "args"],
                           [block |-> "thinking"]>>)],
   ClaudeRecord("system", "b1"),
   ClaudeRecord("system", "b2"),
   ClaudeRecord("progress", NoId),
   [ClaudeRecord("legacy", "u5") EXCEPT
      !.role = "user", !.session = "absent", !.cwd = NoCwd],
   [type |-> "malformed_json"]}

(* Antigravity.                                                            *)
Native(pair, time) ==
  [pair |-> pair, flaw |-> "none", misfit |-> "none", time |-> time,
   request |-> <<"hi">>, context |-> TRUE, content |-> <<>>,
   thinking |-> TRUE, calls |-> <<>>]
Ran(cwd, args) ==
  [Native("planner_response", 2) EXCEPT
     !.calls = <<[name |-> "run_command", cwd |-> cwd, args |-> args]>>]

AntigravityOpening ==
  {Native("user_input", 2), Native("user_input", 1),
   Native("system_message", 2), Native("planner_response", 2)}
AntigravityFollowing ==
  {Native("user_input", 2),
   [Native("planner_response", 2) EXCEPT !.content = <<"hi", Unstorable>>],
   Ran("w1", "ls"), Ran("w2", "ls"), Ran("w1", Unstorable),
   Native("generic", 2), Native("checkpoint", 2),
   [Native("checkpoint", 2) EXCEPT !.flaw = "antigravity_invalid_created_at"],
   Native("other", 2),
   [pair |-> "malformed_json"]}

Openings == [codex |-> CodexOpening, claude |-> ClaudeOpening,
             antigravity |-> AntigravityOpening]
Followings == [codex |-> CodexFollowing, claude |-> ClaudeFollowing,
               antigravity |-> AntigravityFollowing]
Lengths == [codex |-> 5, claude |-> 3, antigravity |-> 4]
ClaudePlaces ==
  {[parts |-> 2, subagents |-> -1], [parts |-> 4, subagents |-> 2]}
=============================================================================
