-------------------------- MODULE NativeIdentity --------------------------
(***************************************************************************)
(* What the three provider parsers emit: core/identity.py.                 *)
(*                                                                         *)
(* A session file only grows here, so its records are told apart by their  *)
(* ordinals; the digest of a record, the line and the byte offset that go  *)
(* with an ordinal in the code are left out.                               *)
(*                                                                         *)
(* A text is the sequence of its lines, a line one of a few words.         *)
(***************************************************************************)
EXTENDS Naturals, Sequences

NoId == "none"
NoCwd == "none"
Blank == ""              \* a line without characters
Injected == "<harness>"  \* a whole text the harness put in
Unstorable == "nul"      \* a line with U+0000 or a lone surrogate
Repaired == "fffd"       \* the same line with U+FFFD instead

(* repair_unstorable_text; nothing is left that a strict encoder refuses.  *)
Repair(line) == IF line = Unstorable THEN Repaired ELSE line
Joined(lines) == [i \in DOMAIN lines |-> Repair(lines[i])]
SomeText(lines) == \E i \in DOMAIN lines : lines[i] # Blank
RepairCodes(lines) ==
  {c \in {"repaired_unicode"} :
     \E i \in DOMAIN lines : lines[i] = Unstorable}

(* NativeLocator: by native id or uuid, or by ordinal.                     *)
IdLocator(s, key) == [session |-> s, key |-> key, ord |-> 0]
OrdinalLocator(s, n) == [session |-> s, key |-> "ordinal", ord |-> n]

(* codex_logical_message_id; for Claude the uuid.                          *)
LogicalId(locator) == [key |-> locator.key, ord |-> locator.ord]

Alias(n, locator) == [ord |-> n, locator |-> locator]
LatestAlias(aliases) ==                          \* mutant
  CHOOSE a \in aliases : \A b \in aliases : b.ord <= a.ord
Canonical(aliases) ==
  CHOOSE a \in aliases : \A b \in aliases : a.ord <= b.ord

(* MessageIdentity, built from the aliases of a message.                   *)
Identity(aliases) ==
  LET canonical == Canonical(aliases).locator
  IN [id |-> LogicalId(canonical), locator |-> canonical,
      aliases |-> aliases]

Note(e, code) == [ord |-> e.ord, code |-> code]
Notes(e, codes) == {Note(e, c) : c \in codes}
Codes(diagnostics) == {d.code : d \in diagnostics}
=============================================================================
