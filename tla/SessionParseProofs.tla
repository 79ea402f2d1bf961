------------------------- MODULE SessionParseProofs -------------------------
(***************************************************************************)
(* That what is said of a session does not depend on how its file was cut  *)
(* into batches, for any records, any number of them, and any failures:    *)
(* the parser state that is carried on, the epochs, the published rows and *)
(* their identities.                                                       *)
(***************************************************************************)
EXTENDS SessionParse, FiniteSetTheorems, WellFoundedInduction, TLAPS

(***************************************************************************)
(* The inductive invariant.                                                *)
(***************************************************************************)

(* The boundaries among the first n records, and the epoch of a record.    *)
Boundaries(n) == UNION {BoundaryKeys(i) : i \in 1..n}
EpochAt(i) == Cardinality(Boundaries(i - 1))

(* A row, or what becomes one, tells its record as the record is when it   *)
(* is looked at alone.                                                     *)
RowClasses == {"prose", "tool_name", "tool_input"}
Says(x) == <<x.time, x.role, x.kind, x.epoch, x.text, x.harness>>
Nameless == IF provider = "codex" THEN {NoId, Codex!Unsafe} ELSE {NoId}
LocatorAt(session, n) ==
  IF NativeKey(file[n]) \in Nameless THEN OrdinalLocator(session, n)
  ELSE IdLocator(session, NativeKey(file[n]))
Located(n, locator) == locator = LocatorAt(locator.session, n)
Tells(x) ==
  /\ x.ord \in 1..Len(file)
  /\ x.class \in ClassesOf(x.ord) \cap RowClasses
  /\ x.epoch = EpochAt(x.ord)
(* The rows of a Claude or Antigravity record: class, time, role and text. *)
Content(x) == <<x.class, x.time, x.role, x.text>>
ClaudeShapes(r) ==
  IF \/ Claude!Legacy(r)
     \/ r.type \in {"user", "assistant"} /\ Claude!Refusal(r) = Claude!NoId
  THEN Claude!Content(r.content, r.role = "user").rows ELSE {}
Projects(r) ==
  /\ r.pair \notin Antigravity!Undecoded
  /\ Antigravity!Rejection(r) = Antigravity!NoFlaw
  /\ r.pair # "checkpoint"
AntigravityShapes(r) ==
  IF Projects(r) THEN Antigravity!Project(r).rows ELSE {}
ShapeContents(r, role, shapes) ==
  {<<s.class, r.time, role, s.text>> : s \in shapes}
Contents(i) ==
  IF provider = "claude"
  THEN ShapeContents(file[i], file[i].role, ClaudeShapes(file[i]))
  ELSE ShapeContents(file[i], Antigravity!Project(file[i]).role,
                     AntigravityShapes(file[i]))
Primary(x) == x.kind = "primary" /\ x.harness = FALSE
NamedBy(x, locator) ==
  /\ x.alias = locator /\ x.locator = locator
  /\ x.id = LogicalId(locator)
Own(x) == NamedBy(x, x.alias)
RowOK(x) ==
  /\ Tells(x) /\ Located(x.ord, x.alias)
  /\ provider # "codex" =>
       /\ Own(x) /\ x.alias.session = SessionName
       /\ Content(x) \in Contents(x.ord)
  /\ provider = "antigravity" =>
       /\ NamedBy(x, OrdinalLocator(SessionName, x.ord))
       /\ Primary(x)
RowsOK(rows, n) == \A x \in rows : RowOK(x) /\ x.ord <= n

(* Every visible content of the records in the interval has its row.       *)
Complete(rows, from, to) ==
  \A i \in from..to : \A class \in ClassesOf(i) :
    \E x \in rows : x.ord = i /\ x.class = class

(* An occurrence has the text, time and name of its record; while it waits *)
(* for its pair, nothing visible is said.                                  *)
Shows(c) ==
  /\ Located(c.ord, c.locator) /\ c.locator.session = c.session
  /\ \E p \in Projections(c.ord) :
       <<p.family, p.class, p.role, p.text>> =
         <<c.family, c.class, c.role, c.text>>
  /\ c.time = file[c.ord].time
  /\ c.harness = (c.role = "user" /\ c.kind = "agent")
Waits(c, n) ==
  /\ Tells(c) /\ Shows(c) /\ c.ord <= n
  /\ \A i \in (c.ord + 1)..n : "prose" \notin ClassesOf(i)

(* The session and kind of a Codex file that has one session_meta are that *)
(* record's, which is the first.                                           *)
MetaKind(r) ==
  IF Codex!SourceKind(r) = Codex!NoKind THEN "unknown"
  ELSE Codex!SourceKind(r)
OneMetaTo(n) == \A i \in 2..n : file[i].type # "session_meta"
MetaKnown(session, kind, n) ==
  session # NoId /\ OneMetaTo(n) =>
    /\ n # 0 /\ file[1].type = "session_meta"
    /\ session = Codex!MetaIdentity(file[1])
    /\ kind = MetaKind(file[1])

(* The cwd of an Antigravity session is the first that a record has.       *)
RecordCwd(r) == IF Projects(r) THEN Antigravity!Project(r).cwd ELSE NoCwd
CwdOf(i) == RecordCwd(file[i])
CwdKnown(cwd, n) ==
  \/ cwd = NoCwd /\ \A i \in 1..n : CwdOf(i) = NoCwd
  \/ /\ cwd # NoCwd
     /\ \E i \in 1..n : /\ CwdOf(i) = cwd
                       /\ \A j \in 1..(i - 1) : CwdOf(j) = NoCwd

(* A parser state after n records.                                         *)
StateOK(s, n) ==
  /\ s.epoch = Cardinality(Boundaries(n))
  /\ provider # "antigravity" => s.seen = Boundaries(n)
  /\ provider = "antigravity" => CwdKnown(s.cwd, n)
  /\ provider = "codex" =>
       /\ Admissible(s)
       /\ \A c \in s.carry : Waits(c, n)
       /\ MetaKnown(s.session, s.kind, n)

(* A candidate that may still be paired has named its own rows.            *)
Names(c, rows) ==
  \A x \in rows : PrimaryKey(x) = PrimaryKey(c) =>
    NamedBy(x, c.locator) /\ Says(x) = Says(c)
CarryNames(s, rows) ==
  provider = "codex" => \A c \in s.carry : Names(c, rows)

SameIdentity(x, y) ==
  <<x.id, x.alias, x.locator>> = <<y.id, y.alias, y.locator>>

(* A row that another record names is one of a pair with it.               *)
PairedWith(x, y) ==
  /\ Own(y) /\ MessageKey(y) = MessageKey(x)
  /\ Observation(y) = Observation(x)
  /\ ProjectionPair(x, y)
RowsPaired(rows) ==
  provider = "codex" =>
    \A x \in rows : Own(x) \/ \E y \in rows : PairedWith(x, y)

(* The rows of a Codex file are named within one session, the one that its *)
(* parser state is of.                                                     *)
OfSession(rows, s) ==
  provider = "codex" =>
    \A x \in rows : s.session # NoId /\ x.alias.session = s.session

(* The fields of a row.                                                    *)
RowOf(x) ==
  [ord |-> x.ord, alias |-> x.alias, id |-> x.id, class |-> x.class,
   locator |-> x.locator, time |-> x.time, role |-> x.role, kind |-> x.kind,
   epoch |-> x.epoch, text |-> x.text, cwd |-> x.cwd,
   harness |-> x.harness]
Fields(rows) == \A x \in rows : x = RowOf(x)

(* The first record of a file decides whether it is read.                  *)
Admitted(n) == n # 0 => Admission(file[1]) = "admitted"

FileInv ==
  /\ provider \in {"codex", "claude", "antigravity"}
  /\ file \in Seq(UNION {Opening[provider], Following[provider]})
  /\ done \in 0..Len(file)

CorpusInv ==
  /\ status \in {"new", "indexed", "excluded"}
  /\ status = "new" => done = 0 /\ corpus = {}
  /\ status = "excluded" => provider = "antigravity"
  /\ status # "excluded" =>
       /\ StateOK(store, done)
       /\ Complete(corpus, 1, done)
       /\ Admitted(done)
  /\ RowsOK(corpus, done)
  /\ RowsPaired(corpus) /\ OfSession(corpus, store)
  /\ Unambiguous(corpus)
  /\ Fields(corpus)
  /\ CarryNames(store, corpus)

RunOK(r) ==
  /\ DOMAIN r = {"active", "replace", "ignoring", "pos", "state",
                 "staged", "established"}
  /\ r.pos \in 0..Len(file)
  /\ r.replace \in BOOLEAN
  /\ status # "excluded"
  /\ r.replace /\ provider # "antigravity" => corpus = {}
  /\ r.established => provider = "antigravity"
  /\ StateOK(r.state, r.pos)
  /\ Admitted(r.pos)
  /\ RowsOK(r.staged, r.pos)
  /\ RowsPaired(r.staged) /\ OfSession(r.staged, r.state)
  /\ Complete(r.staged, IF r.replace THEN 1 ELSE done + 1, r.pos)
  /\ Unambiguous(r.staged)
  /\ Fields(r.staged)
  /\ CarryNames(r.state, r.staged)
  /\ ~r.replace =>
       /\ done <= r.pos
       /\ CarryNames(r.state, corpus) /\ OfSession(corpus, r.state)
       /\ \A x \in r.staged, y \in corpus :
            PrimaryKey(x) = PrimaryKey(y) =>
              SameIdentity(x, y) /\ Says(x) = Says(y)
RunInv == run.active => RunOK(run)

SessionInv == FileInv /\ CorpusInv /\ RunInv

(***************************************************************************)
(* Numbers, and the boundaries of a file.                                  *)
(***************************************************************************)
LEMMA NatMin ==
  ASSUME NEW S \in SUBSET Nat, S # {}
  PROVE  \E m \in S : \A n \in S : m <= n
<1>1. PICK m \in S : \A n \in S : ~ (<<n, m>> \in OpToRel(<, Nat))
  BY NatLessThanWellFounded, WFMin
<1>2. ASSUME NEW n \in S PROVE m <= n
  <2>1. ~(n < m)
    BY <1>1 DEF OpToRel
  <2>2. QED
    BY <2>1
<1>3. QED
  BY <1>2

(* Induction, for a set in place of a predicate.                           *)
LEMMA SetInduction ==
  ASSUME NEW S, 0 \in S, \A k \in Nat : k \in S => k + 1 \in S
  PROVE  \A k \in Nat : k \in S
<1>1. SUFFICES ASSUME Nat \ S # {} PROVE FALSE
  OBVIOUS
<1>2. PICK m \in Nat \ S : \A n \in Nat \ S : m <= n
  BY <1>1, NatMin
<1>3. m - 1 \in Nat
  BY <1>2
<1>4. m - 1 \in S
  BY <1>2, <1>3
<1>5. QED
  BY <1>2, <1>3, <1>4

Providers == {"codex", "claude", "antigravity"}

(* A record is one boundary or none.                                       *)
CodexBoundary(r) == r.type = "compacted" /\ r.good
ClaudeBoundary(r) ==
  /\ r.type = "system" /\ r.subtype = "compact_boundary"
  /\ r.good /\ r.uuid # NoId
AntigravityBoundary(r) ==
  r.pair = "checkpoint" /\ r.flaw = Antigravity!NoFlaw

LEMMA BoundaryOf ==
  ASSUME NEW i
  PROVE  /\ provider = "codex" => BoundaryKeys(i) =
              IF CodexBoundary(file[i]) THEN {file[i].digest} ELSE {}
         /\ provider = "claude" => BoundaryKeys(i) =
              IF ClaudeBoundary(file[i]) THEN {file[i].uuid} ELSE {}
         /\ provider = "antigravity" => BoundaryKeys(i) =
              IF AntigravityBoundary(file[i]) THEN {i} ELSE {}
<1>1. ASSUME provider = "codex"
      PROVE  BoundaryKeys(i) =
               IF CodexBoundary(file[i]) THEN {file[i].digest} ELSE {}
  BY <1>1 DEF BoundaryKeys, CodexBoundary
<1>2. ASSUME provider = "claude"
      PROVE  BoundaryKeys(i) =
               IF ClaudeBoundary(file[i]) THEN {file[i].uuid} ELSE {}
  BY <1>2 DEF BoundaryKeys, ClaudeBoundary
<1>3. ASSUME provider = "antigravity"
      PROVE  BoundaryKeys(i) =
               IF AntigravityBoundary(file[i]) THEN {i} ELSE {}
  BY <1>3 DEF BoundaryKeys, AntigravityBoundary
<1>4. QED
  BY <1>1, <1>2, <1>3

LEMMA BoundariesStep ==
  /\ Boundaries(0) = {}
  /\ \A n \in Nat : Boundaries(n + 1) = Boundaries(n) \cup BoundaryKeys(n + 1)
<1>1. Boundaries(0) = {}
  BY DEF Boundaries
<1>2. ASSUME NEW n \in Nat
      PROVE  Boundaries(n + 1) = Boundaries(n) \cup BoundaryKeys(n + 1)
  <2>1. 1..(n + 1) = (1..n) \cup {n + 1}
    OBVIOUS
  <2>2. QED
    BY <2>1 DEF Boundaries
<1>3. QED
  BY <1>1, <1>2

LEMMA BoundariesFinite ==
  ASSUME provider \in Providers
  PROVE  \A n \in Nat : IsFiniteSet(Boundaries(n))
<1> DEFINE S == {n \in Nat : IsFiniteSet(Boundaries(n))}
<1>1. 0 \in S
  BY BoundariesStep, FS_EmptySet
<1>2. ASSUME NEW n \in Nat, n \in S PROVE n + 1 \in S
  <2>1. \E k : BoundaryKeys(n + 1) \in {{}, {k}}
    BY BoundaryOf DEF Providers
  <2> DEFINE B == BoundaryKeys(n + 1)
  <2>2. IsFiniteSet(B)
    <3>1. CASE B = {}
      BY <3>1, FS_EmptySet
    <3>2. ASSUME NEW k, B = {k} PROVE IsFiniteSet(B)
      BY <3>2, FS_Singleton
    <3>3. QED
      BY <2>1, <3>1, <3>2
  <2>3. IsFiniteSet(Boundaries(n))
    BY <1>2
  <2>4. IsFiniteSet(Boundaries(n) \cup B)
    BY <2>2, <2>3, FS_Union
  <2>5. Boundaries(n + 1) = Boundaries(n) \cup B
    BY BoundariesStep
  <2>6. QED
    BY <2>4, <2>5
<1> HIDE DEF S
<1>3. \A n \in Nat : n \in S
  BY <1>1, <1>2, SetInduction
<1>4. QED
  BY <1>3 DEF S

(* A boundary that was met before does not count, any other counts once.   *)
LEMMA EpochStep ==
  ASSUME provider \in Providers, NEW n \in Nat
  PROVE  /\ Cardinality(Boundaries(n)) \in Nat
         /\ \A k : BoundaryKeys(n + 1) = {k} =>
              Cardinality(Boundaries(n + 1)) =
                IF k \in Boundaries(n) THEN Cardinality(Boundaries(n))
                ELSE Cardinality(Boundaries(n)) + 1
         /\ BoundaryKeys(n + 1) = {} => Boundaries(n + 1) = Boundaries(n)
<1>1. IsFiniteSet(Boundaries(n))
  BY BoundariesFinite
<1>2. Boundaries(n + 1) = Boundaries(n) \cup BoundaryKeys(n + 1)
  BY BoundariesStep
<1>3. Cardinality(Boundaries(n)) \in Nat
  BY <1>1, FS_CardinalityType
<1>4. ASSUME NEW k, BoundaryKeys(n + 1) = {k}
      PROVE  Cardinality(Boundaries(n + 1)) =
               IF k \in Boundaries(n) THEN Cardinality(Boundaries(n))
               ELSE Cardinality(Boundaries(n)) + 1
  <2>1. CASE k \in Boundaries(n)
    <3>1. Boundaries(n + 1) = Boundaries(n)
      BY <1>2, <1>4, <2>1
    <3>2. QED
      BY <2>1, <3>1
  <2>2. CASE k \notin Boundaries(n)
    BY <1>1, <1>2, <1>4, <2>2, FS_AddElement
  <2>3. QED
    BY <2>1, <2>2
<1>5. QED
  BY <1>2, <1>3, <1>4

LEMMA EpochsGrow ==
  ASSUME provider \in Providers, NEW n \in Nat, NEW m \in Nat, n <= m
  PROVE  Cardinality(Boundaries(n)) <= Cardinality(Boundaries(m))
<1>1. Boundaries(n) \subseteq Boundaries(m)
  <2>1. \A i \in 1..n : i \in 1..m
    OBVIOUS
  <2>2. QED
    BY <2>1 DEF Boundaries
<1>2. QED
  BY <1>1, BoundariesFinite, FS_Subset

LEMMA AntigravityEpochs ==
  ASSUME provider = "antigravity"
  PROVE  \A n \in Nat : Boundaries(n) \subseteq 1..n
BY BoundaryOf DEF Boundaries

(***************************************************************************)
(* Codex: one record.                                                      *)
(***************************************************************************)

(* The occurrences a record has, whatever it is read under.                *)
Shape(family, class, role, text, native) ==
  [family |-> family, class |-> class, role |-> role, text |-> text,
   native |-> native]
MessageShapes(r) ==
  IF Codex!SomeText(Codex!Lines(r.blocks, r.role))
  THEN {Shape("response", "prose", r.role,
              Codex!Joined(Codex!Lines(r.blocks, r.role)), r.native)}
  ELSE {}
ToolShapes(r) ==
  IF r.name = Codex!Blank \/ ~r.good THEN {}
  ELSE {Shape("tool", "tool_name", "assistant", Codex!Joined(<<r.name>>),
              Codex!NoId),
        Shape("tool", "tool_input", "assistant", Codex!Joined(<<r.input>>),
              Codex!NoId)}
ResponseShapes(r) ==
  IF r.item = "message" /\ r.role \in {"user", "assistant"}
  THEN MessageShapes(r)
  ELSE IF r.item = "tool_call" THEN ToolShapes(r) ELSE {}
EventShapes(r) ==
  IF \/ Codex!EventRole(r.event) = Codex!NoId
     \/ Codex!HarnessText(r.line, Codex!EventRole(r.event))
     \/ r.line = Codex!Blank
  THEN {}
  ELSE {Shape("event", "prose", Codex!EventRole(r.event),
              Codex!Joined(<<r.line>>), Codex!NoId)}
CodexShapes(r) ==
  IF r.type = "response_item" THEN ResponseShapes(r)
  ELSE IF r.type = "event_msg" THEN EventShapes(r) ELSE {}
OccurrenceOf(e, ctx, s) ==
  Codex!Candidate(e, ctx, s.family, s.class, s.role, s.text, s.native)
Occurrences(e, ctx, shapes) == {OccurrenceOf(e, ctx, s) : s \in shapes}

(* Diagnostics for which a record is left out when unknown shapes are      *)
(* ignored.                                                                *)
Skips ==
  {"malformed_json", "invalid_encoding", "unknown_role",
   "unknown_response_item", "unknown_event", "unknown_outer_type",
   "unknown_conversation_record", "antigravity_unknown_record_pair"}

LEMMA CodexMessageItem ==
  ASSUME NEW e, NEW ctx
  PROVE  /\ Codex!MessageItem(e, ctx).candidates =
              Occurrences(e, ctx, MessageShapes(e.rec))
         /\ Codex!MessageItem(e, ctx).codes \cap Skips = {}
<1> DEFINE r == e.rec
           lines == Codex!Lines(r.blocks, r.role)
<1>1. Codex!BlockCodes(r.blocks) \cap Skips = {}
  BY DEF Codex!BlockCodes, Codex!BlockCode, Skips
<1>2. Codex!RepairCodes(lines) \cap Skips = {}
  BY DEF Codex!RepairCodes, Skips
<1>3. Codex!WithoutText(r.blocks, r.role) \cap Skips = {}
  BY DEF Codex!WithoutText, Skips
<1>4. CASE Codex!SomeText(lines)
  <2>1. MessageShapes(r) =
          {Shape("response", "prose", r.role, Codex!Joined(lines), r.native)}
    BY <1>4 DEF MessageShapes
  <2>2. Occurrences(e, ctx, MessageShapes(r)) =
          {Codex!Candidate(e, ctx, "response", "prose", r.role,
                           Codex!Joined(lines), r.native)}
    BY <2>1 DEF Occurrences, OccurrenceOf, Shape
  <2>3. Codex!MessageItem(e, ctx) =
          Codex!Emitted({Codex!Candidate(e, ctx, "response", "prose", r.role,
                                         Codex!Joined(lines), r.native)},
                        Codex!BlockCodes(r.blocks)
                          \cup Codex!RepairCodes(lines))
    BY <1>4 DEF Codex!MessageItem
  <2>4. QED
    BY <1>1, <1>2, <2>2, <2>3 DEF Codex!Emitted
<1>5. CASE ~Codex!SomeText(lines)
  <2>1. Occurrences(e, ctx, MessageShapes(r)) = {}
    BY <1>5 DEF MessageShapes, Occurrences
  <2>2. Codex!MessageItem(e, ctx) =
          Codex!Emitted({}, (Codex!BlockCodes(r.blocks)
                               \cup Codex!RepairCodes(lines))
                              \cup Codex!WithoutText(r.blocks, r.role))
    BY <1>5 DEF Codex!MessageItem
  <2>3. QED
    BY <1>1, <1>2, <1>3, <2>1, <2>2 DEF Codex!Emitted
<1>6. QED
  BY <1>4, <1>5

LEMMA CodexToolItem ==
  ASSUME NEW e, NEW ctx
  PROVE  /\ Codex!ToolItem(e, ctx).candidates =
              Occurrences(e, ctx, ToolShapes(e.rec))
         /\ ToolShapes(e.rec) # {} =>
              Codex!ToolItem(e, ctx).codes \cap Skips = {}
<1> DEFINE r == e.rec
           row(class, line) == Codex!Candidate(e, ctx, "tool", class,
                                 "assistant", Codex!Joined(<<line>>),
                                 Codex!NoId)
<1>1. CASE r.name = Codex!Blank \/ ~r.good
  <2>1. Codex!ToolItem(e, ctx) = Codex!Silent("unknown_response_item")
    BY <1>1 DEF Codex!ToolItem
  <2>2. ToolShapes(r) = {}
    BY <1>1 DEF ToolShapes
  <2>3. QED
    BY <2>1, <2>2 DEF Codex!Silent, Codex!Emitted, Occurrences
<1>2. CASE ~(r.name = Codex!Blank \/ ~r.good)
  <2>1. Codex!ToolItem(e, ctx) =
          Codex!Emitted({row("tool_name", r.name), row("tool_input", r.input)},
                        Codex!RepairCodes(<<r.name, r.input>>))
    BY <1>2 DEF Codex!ToolItem
  <2>2. ToolShapes(r) =
          {Shape("tool", "tool_name", "assistant", Codex!Joined(<<r.name>>),
                 Codex!NoId),
           Shape("tool", "tool_input", "assistant", Codex!Joined(<<r.input>>),
                 Codex!NoId)}
    BY <1>2 DEF ToolShapes
  <2>3. Occurrences(e, ctx, ToolShapes(r)) =
          {row("tool_name", r.name), row("tool_input", r.input)}
    BY <2>2 DEF Occurrences, OccurrenceOf, Shape
  <2>4. Codex!RepairCodes(<<r.name, r.input>>) \cap Skips = {}
    BY DEF Codex!RepairCodes, Skips
  <2>5. QED
    BY <2>1, <2>3, <2>4 DEF Codex!Emitted
<1>3. QED
  BY <1>1, <1>2

LEMMA CodexResponse ==
  ASSUME NEW e, NEW ctx
  PROVE  /\ Codex!ResponseItem(e, ctx).candidates =
              Occurrences(e, ctx, ResponseShapes(e.rec))
         /\ ResponseShapes(e.rec) # {} =>
              Codex!ResponseItem(e, ctx).codes \cap Skips = {}
<1> DEFINE r == e.rec
<1>1. CASE r.item = "message" /\ r.role \in {"user", "assistant"}
  <2>1. Codex!ResponseItem(e, ctx) = Codex!MessageItem(e, ctx)
    BY <1>1 DEF Codex!ResponseItem
  <2>2. ResponseShapes(r) = MessageShapes(r)
    BY <1>1 DEF ResponseShapes
  <2>3. QED
    BY <2>1, <2>2, CodexMessageItem
<1>2. CASE r.item = "tool_call"
  <2>1. Codex!ResponseItem(e, ctx) = Codex!ToolItem(e, ctx)
    BY <1>2 DEF Codex!ResponseItem
  <2>2. ResponseShapes(r) = ToolShapes(r)
    BY <1>2 DEF ResponseShapes
  <2>3. QED
    BY <2>1, <2>2, CodexToolItem
<1>3. CASE ~(r.item = "message" /\ r.role \in {"user", "assistant"})
             /\ r.item # "tool_call"
  <2>1. ResponseShapes(r) = {}
    BY <1>3 DEF ResponseShapes
  <2>2. \E c : Codex!ResponseItem(e, ctx) = Codex!Silent(c)
    BY <1>3 DEF Codex!ResponseItem
  <2>3. Codex!ResponseItem(e, ctx).candidates = {}
    BY <2>2 DEF Codex!Silent, Codex!Emitted
  <2>4. QED
    BY <2>1, <2>3 DEF Occurrences
<1>4. QED
  BY <1>1, <1>2, <1>3

LEMMA CodexEvent ==
  ASSUME NEW e, NEW ctx
  PROVE  /\ Codex!Event(e, ctx).candidates =
              Occurrences(e, ctx, EventShapes(e.rec))
         /\ EventShapes(e.rec) # {} =>
              Codex!Event(e, ctx).codes \cap Skips = {}
<1> DEFINE r == e.rec
           role == Codex!EventRole(r.event)
           said == Codex!Candidate(e, ctx, "event", "prose", role,
                                   Codex!Joined(<<r.line>>), Codex!NoId)
           silent == \/ role = Codex!NoId \/ Codex!HarnessText(r.line, role)
                     \/ r.line = Codex!Blank
<1>1. CASE silent
  <2>1. EventShapes(r) = {}
    BY <1>1 DEF EventShapes
  <2>2. \E c : Codex!Event(e, ctx) = Codex!Silent(c)
    BY <1>1 DEF Codex!Event
  <2>3. Codex!Event(e, ctx).candidates = {}
    BY <2>2 DEF Codex!Silent, Codex!Emitted
  <2>4. QED
    BY <2>1, <2>3 DEF Occurrences
<1>2. CASE ~silent
  <2>1. Codex!Event(e, ctx) =
          Codex!Emitted({said}, Codex!RepairCodes(<<r.line>>))
    BY <1>2 DEF Codex!Event
  <2>2. EventShapes(r) =
          {Shape("event", "prose", role, Codex!Joined(<<r.line>>), Codex!NoId)}
    BY <1>2 DEF EventShapes
  <2>3. Occurrences(e, ctx, EventShapes(r)) = {said}
    BY <2>2 DEF Occurrences, OccurrenceOf, Shape
  <2>4. Codex!RepairCodes(<<r.line>>) \cap Skips = {}
    BY DEF Codex!RepairCodes, Skips
  <2>5. QED
    BY <2>1, <2>3, <2>4 DEF Codex!Emitted
<1>3. QED
  BY <1>1, <1>2

LEMMA ShapeFacts ==
  ASSUME NEW r, NEW s \in CodexShapes(r)
  PROVE  /\ s.family \in {"response", "event", "tool"}
         /\ s.class \in RowClasses
         /\ s.family # "tool" <=> s.class = "prose"
         /\ \A t \in CodexShapes(r) : t.class = s.class => t = s
BY DEF CodexShapes, ResponseShapes, MessageShapes, ToolShapes, EventShapes,
       Shape, RowClasses

LEMMA ShapeNames ==
  ASSUME NEW r, NEW s \in CodexShapes(r)
  PROVE  s.native = CodexKey(r)
<1>1. CASE r.type = "response_item" /\ r.item = "message"
  <2>1. CodexKey(r) = r.native
    BY <1>1 DEF CodexKey
  <2>2. s \in MessageShapes(r)
    BY <1>1 DEF CodexShapes, ResponseShapes
  <2>3. QED
    BY <2>1, <2>2 DEF MessageShapes, Shape
<1>2. CASE ~(r.type = "response_item" /\ r.item = "message")
  <2>1. s \in ToolShapes(r) \/ s \in EventShapes(r)
    BY <1>2 DEF CodexShapes, ResponseShapes
  <2>2. s.native = Codex!NoId
    BY <2>1 DEF ToolShapes, EventShapes, Shape
  <2>3. CodexKey(r) = NoId
    BY <1>2 DEF CodexKey
  <2>4. QED
    BY <2>2, <2>3 DEF Codex!NoId, NoId
<1>3. QED
  BY <1>1, <1>2

(* The accumulator of a batch: session and kind are those of the batch.    *)
CodexAcc(acc, s, k) ==
  /\ DOMAIN acc = {"ctx", "seen", "candidates", "boundaries", "notes"}
  /\ DOMAIN acc.ctx = {"session", "kind", "epoch", "cwd"}
  /\ acc.ctx.session = s /\ acc.ctx.kind = k

(* Notes about a record that had something visible are not such skips.     *)
NotesOf(notes, old, n, skips, shapes) ==
  \A d \in notes : \/ d \in old
                   \/ d.ord = n /\ (d.code \in skips => shapes = {})

Reads(next, acc, e, s, k, shapes) ==
  /\ CodexAcc(next, s, k)
  /\ next.candidates = acc.candidates \cup Occurrences(e, acc.ctx, shapes)
  /\ NotesOf(next.notes, acc.notes, e.ord, Skips, shapes)
SameEpoch(next, acc) ==
  next.ctx.epoch = acc.ctx.epoch /\ next.seen = acc.seen
NextEpoch(next, acc, key) ==
  next.ctx.epoch = acc.ctx.epoch + 1 /\ next.seen = acc.seen \cup {key}

LEMMA CodexVisible ==
  ASSUME NEW acc, NEW s, NEW k, NEW e, NEW emitted, NEW shapes,
         CodexAcc(acc, s, k),
         emitted.candidates = Occurrences(e, acc.ctx, shapes),
         shapes # {} => emitted.codes \cap Skips = {}
  PROVE  /\ Reads(Codex!Visible(acc, e, emitted), acc, e, s, k, shapes)
         /\ SameEpoch(Codex!Visible(acc, e, emitted), acc)
<1> DEFINE next == Codex!Visible(acc, e, emitted)
<1>1. /\ DOMAIN next = DOMAIN acc
      /\ next.ctx = acc.ctx /\ next.seen = acc.seen
      /\ next.candidates =
           acc.candidates \cup Occurrences(e, acc.ctx, shapes)
      /\ next.notes = acc.notes \cup Codex!Notes(e, emitted.codes)
  BY DEF Codex!Visible, CodexAcc
<1>2. \A d \in Codex!Notes(e, emitted.codes) :
        d.ord = e.ord /\ d.code \in emitted.codes
  BY DEF Codex!Notes, Codex!Note
<1> HIDE DEF next
<1>3. CodexAcc(next, s, k)
  BY <1>1 DEF CodexAcc
<1>4. NotesOf(next.notes, acc.notes, e.ord, Skips, shapes)
  BY <1>1, <1>2 DEF NotesOf
<1>5. Reads(next, acc, e, s, k, shapes) /\ SameEpoch(next, acc)
  BY <1>1, <1>3, <1>4 DEF Reads, SameEpoch
<1>6. QED
  BY <1>5 DEF next

LEMMA CodexCompact ==
  ASSUME NEW acc, NEW s, NEW k, NEW e, CodexAcc(acc, s, k)
  PROVE  /\ Reads(Codex!Compact(acc, e), acc, e, s, k, {})
         /\ IF ~e.rec.good \/ e.rec.digest \in acc.seen
            THEN SameEpoch(Codex!Compact(acc, e), acc)
            ELSE NextEpoch(Codex!Compact(acc, e), acc, e.rec.digest)
<1> DEFINE next == Codex!Compact(acc, e)
           met == ~e.rec.good \/ e.rec.digest \in acc.seen
<1>1. Occurrences(e, acc.ctx, {}) = {}
  BY DEF Occurrences
<1>2. CASE met
  <2>1. PICK c : next = [acc EXCEPT !.notes = @ \cup {Codex!Note(e, c)}]
    BY <1>2 DEF Codex!Compact
  <2> HIDE DEF next
  <2>2. /\ DOMAIN next = DOMAIN acc
        /\ next.ctx = acc.ctx /\ next.seen = acc.seen
        /\ next.candidates = acc.candidates
        /\ next.notes = acc.notes \cup {Codex!Note(e, c)}
    BY <2>1 DEF CodexAcc
  <2>3. Codex!Note(e, c).ord = e.ord
    BY DEF Codex!Note
  <2>4. QED
    BY <1>1, <1>2, <2>2, <2>3 DEF Reads, SameEpoch, CodexAcc, NotesOf, next
<1>3. CASE ~met
  <2>1. next = [acc EXCEPT !.seen = @ \cup {e.rec.digest},
                  !.ctx.epoch = @ + 1,
                  !.boundaries = @ \cup {<<e.ord, acc.ctx.epoch + 1>>}]
    BY <1>3 DEF Codex!Compact
  <2> HIDE DEF next
  <2>2. /\ DOMAIN next = DOMAIN acc
        /\ next.ctx = [acc.ctx EXCEPT !.epoch = @ + 1]
        /\ next.seen = acc.seen \cup {e.rec.digest}
        /\ next.candidates = acc.candidates
        /\ next.notes = acc.notes
    BY <2>1 DEF CodexAcc
  <2>3. /\ DOMAIN next.ctx = DOMAIN acc.ctx
        /\ next.ctx.session = acc.ctx.session
        /\ next.ctx.kind = acc.ctx.kind
        /\ next.ctx.epoch = acc.ctx.epoch + 1
    BY <2>2 DEF CodexAcc
  <2>4. QED
    BY <1>1, <1>3, <2>2, <2>3 DEF Reads, NextEpoch, CodexAcc, NotesOf, next
<1>4. QED
  BY <1>2, <1>3

(* One record: what it adds does not depend on what was read before,       *)
(* except for the context its occurrences carry.                           *)
LEMMA CodexRecord ==
  ASSUME NEW acc, NEW s, NEW k, NEW e, CodexAcc(acc, s, k)
  PROVE  /\ Reads(Codex!Record(acc, e), acc, e, s, k, CodexShapes(e.rec))
         /\ IF CodexBoundary(e.rec) /\ e.rec.digest \notin acc.seen
            THEN NextEpoch(Codex!Record(acc, e), acc, e.rec.digest)
            ELSE SameEpoch(Codex!Record(acc, e), acc)
<1> DEFINE r == e.rec
           next == Codex!Record(acc, e)
           silent == Codex!Undecoded \cup {"session_meta"}
<1>1. /\ "response_item" \notin silent /\ "event_msg" \notin silent
      /\ "compacted" \notin silent
  BY DEF Codex!Undecoded
<1>2. CASE r.type \in silent
  <2>1. next = acc
    BY <1>1, <1>2 DEF Codex!Record
  <2>2. CodexShapes(r) = {} /\ ~CodexBoundary(r)
    BY <1>1, <1>2 DEF CodexShapes, CodexBoundary
  <2>3. Occurrences(e, acc.ctx, CodexShapes(r)) = {}
    BY <2>2 DEF Occurrences
  <2>4. QED
    BY <2>1, <2>2, <2>3 DEF NotesOf, Reads, SameEpoch
<1>3. CASE r.type = "response_item"
  <2>1. next = Codex!Visible(acc, e, Codex!ResponseItem(e, acc.ctx))
    BY <1>1, <1>3 DEF Codex!Record
  <2>2. CodexShapes(r) = ResponseShapes(r) /\ ~CodexBoundary(r)
    BY <1>3 DEF CodexShapes, CodexBoundary
  <2>3. QED
    BY <2>1, <2>2, CodexResponse, CodexVisible
<1>4. CASE r.type = "event_msg"
  <2>1. next = Codex!Visible(acc, e, Codex!Event(e, acc.ctx))
    BY <1>1, <1>4 DEF Codex!Record
  <2>2. CodexShapes(r) = EventShapes(r) /\ ~CodexBoundary(r)
    BY <1>4 DEF CodexShapes, CodexBoundary
  <2>3. QED
    BY <2>1, <2>2, CodexEvent, CodexVisible
<1>5. CASE r.type = "compacted"
  <2>1. next = Codex!Compact(acc, e)
    BY <1>1, <1>5 DEF Codex!Record
  <2>2. CodexShapes(r) = {} /\ (CodexBoundary(r) <=> r.good)
    BY <1>5 DEF CodexShapes, CodexBoundary
  <2>3. QED
    BY <2>1, <2>2, CodexCompact
<1>6. CASE r.type \notin silent \cup {"response_item", "event_msg",
                                      "compacted"}
  <2>1. next = Codex!Visible(acc, e, Codex!Emitted({}, Codex!Metadata(r)))
    BY <1>6 DEF Codex!Record
  <2>2. CodexShapes(r) = {} /\ ~CodexBoundary(r)
    BY <1>6 DEF CodexShapes, CodexBoundary
  <2>3. Occurrences(e, acc.ctx, CodexShapes(r)) = {}
    BY <2>2 DEF Occurrences
  <2>4. Codex!Emitted({}, Codex!Metadata(r)).candidates = {}
    BY DEF Codex!Emitted
  <2>5. QED
    BY <2>1, <2>2, <2>3, <2>4, CodexVisible
<1>7. QED
  BY <1>2, <1>3, <1>4, <1>5, <1>6

LEMMA CodexAlone ==
  ASSUME NEW i
  PROVE  Projections(i) =
           Occurrences(Alone(i), NoContext, CodexShapes(file[i]))
<1> DEFINE acc == [ctx |-> NoContext, seen |-> {}, candidates |-> {},
                   boundaries |-> {}, notes |-> {}]
<1>1. CodexAcc(acc, SessionName, "primary")
  BY DEF CodexAcc, NoContext
<1>2. acc.candidates = {} /\ acc.ctx = NoContext /\ Alone(i).rec = file[i]
  BY DEF Alone
<1>3. Projections(i) = Codex!Record(acc, Alone(i)).candidates
  BY DEF Projections
<1> HIDE DEF acc
<1>4. Reads(Codex!Record(acc, Alone(i)), acc, Alone(i), SessionName,
            "primary", CodexShapes(Alone(i).rec))
  BY <1>1, CodexRecord
<1>5. QED
  BY <1>2, <1>3, <1>4 DEF Reads

(* What a Codex record shows, taken alone.                                 *)
LEMMA CodexClasses ==
  ASSUME NEW i, provider = "codex"
  PROVE  /\ \A s \in CodexShapes(file[i]) : s.class \in ClassesOf(i)
         /\ \A class \in ClassesOf(i) :
              \E s \in CodexShapes(file[i]) : s.class = class
<1>1. \A e : \A ctx : \A s : OccurrenceOf(e, ctx, s).class = s.class
  BY DEF OccurrenceOf, Codex!Candidate
<1>2. CASE file[i].type \in Codex!Undecoded
  <2>1. ClassesOf(i) = {}
    BY <1>2 DEF ClassesOf, Decoded
  <2>2. CodexShapes(file[i]) = {}
    BY <1>2 DEF CodexShapes, Codex!Undecoded
  <2>3. QED
    BY <2>1, <2>2
<1>3. CASE file[i].type \notin Codex!Undecoded
  <2>1. ClassesOf(i) = {c.class : c \in Projections(i)}
    BY <1>3 DEF ClassesOf, Decoded
  <2>2. /\ \A s \in CodexShapes(file[i]) :
             OccurrenceOf(Alone(i), NoContext, s) \in Projections(i)
        /\ \A c \in Projections(i) : \E s \in CodexShapes(file[i]) :
             c = OccurrenceOf(Alone(i), NoContext, s)
    BY CodexAlone DEF Occurrences
  <2>3. /\ \A c \in Projections(i) : c.class \in ClassesOf(i)
        /\ \A class \in ClassesOf(i) :
             \E c \in Projections(i) : c.class = class
    BY <2>1
  <2>4. QED
    BY <1>1, <2>2, <2>3
<1>4. QED
  BY <1>2, <1>3

(* A record that says something is no boundary.                            *)
LEMMA CodexSaid ==
  ASSUME provider = "codex", NEW i \in Nat, i # 0, ClassesOf(i) # {}
  PROVE  Cardinality(Boundaries(i)) = EpochAt(i)
<1>1. CodexShapes(file[i]) # {}
  BY CodexClasses
<1>2. ~CodexBoundary(file[i])
  BY <1>1 DEF CodexShapes, CodexBoundary
<1>3. BoundaryKeys(i) = {}
  BY <1>2, BoundaryOf
<1>4. i - 1 \in Nat /\ (i - 1) + 1 = i
  OBVIOUS
<1>5. Boundaries(i) = Boundaries(i - 1)
  BY <1>3, <1>4, BoundariesStep
<1>6. QED
  BY <1>5 DEF EpochAt

(***************************************************************************)
(* Codex: the records of a batch.                                          *)
(***************************************************************************)
Occurs(c, s, k, from, to) ==
  /\ Tells(c) /\ Shows(c) /\ c.ord \in (from + 1)..to
  /\ c.session = s /\ c.kind = k
  /\ c.family \in {"response", "event", "tool"}
  /\ c.family # "tool" <=> c.class = "prose"
Distinct(all) ==
  \A c, d \in all : c.ord = d.ord /\ c.class = d.class => c = d
NotesOK(notes, skips) ==
  \A d \in notes : d.code \in skips => ClassesOf(d.ord) = {}
CodexReadOK(acc, s, k, from, to) ==
  /\ CodexAcc(acc, s, k)
  /\ acc.seen = Boundaries(to)
  /\ acc.ctx.epoch = Cardinality(Boundaries(to))
  /\ \A c \in acc.candidates : Occurs(c, s, k, from, to)
  /\ Distinct(acc.candidates)
  /\ Complete(acc.candidates, from + 1, to)
  /\ NotesOK(acc.notes, Skips)

(* Where one record more is read.                                          *)
LEMMA CompleteStep ==
  ASSUME NEW from \in Nat, NEW to \in Nat, NEW rows, NEW more,
         Complete(rows, from, to),
         \A class \in ClassesOf(to + 1) :
           \E x \in more : x.ord = to + 1 /\ x.class = class
  PROVE  Complete(rows \cup more, from, to + 1)
<1>1. \A i \in from..(to + 1) : i \in from..to \/ i = to + 1
  OBVIOUS
<1>2. QED
  BY <1>1 DEF Complete

LEMMA OccurrenceFields ==
  ASSUME NEW e, NEW ctx, NEW s
  PROVE  LET c == OccurrenceOf(e, ctx, s)
         IN  /\ c.ord = e.ord /\ c.session = ctx.session /\ c.kind = ctx.kind
             /\ c.epoch = ctx.epoch /\ c.family = s.family
             /\ c.class = s.class /\ c.role = s.role /\ c.text = s.text
             /\ c.locator = Codex!LocatorOf(e, ctx, s.native)
             /\ c.time = e.rec.time
             /\ c.harness = (c.role = "user" /\ c.kind = "agent")
BY DEF OccurrenceOf, Codex!Candidate

(* An occurrence is what its record shows alone, under its own name.       *)
LEMMA OccurrenceShows ==
  ASSUME provider = "codex", NEW e, e.ord \in Nat, e.rec = file[e.ord],
         NEW ctx, NEW s \in CodexShapes(file[e.ord])
  PROVE  Shows(OccurrenceOf(e, ctx, s))
<1> DEFINE c == OccurrenceOf(e, ctx, s)
           p == OccurrenceOf(Alone(e.ord), NoContext, s)
<1>1. /\ c.ord = e.ord /\ c.locator = Codex!LocatorOf(e, ctx, s.native)
      /\ c.session = ctx.session /\ c.time = file[e.ord].time
      /\ c.harness = (c.role = "user" /\ c.kind = "agent")
      /\ <<p.family, p.class, p.role, p.text>> =
           <<c.family, c.class, c.role, c.text>>
  BY OccurrenceFields
<1>2. p \in Projections(e.ord)
  BY CodexAlone DEF Occurrences
<1> HIDE DEF c, p
<1>3. /\ Located(e.ord, Codex!LocatorOf(e, ctx, s.native))
      /\ Codex!LocatorOf(e, ctx, s.native).session = ctx.session
  <2>1. s.native = NativeKey(file[e.ord])
    BY ShapeNames DEF NativeKey
  <2>2. Codex!LocatorOf(e, ctx, s.native) = LocatorAt(ctx.session, e.ord)
    BY <2>1 DEF LocatorAt, Nameless, Codex!LocatorOf, Codex!OrdinalLocator,
                OrdinalLocator, Codex!IdLocator, IdLocator, Codex!NoId, NoId
  <2>3. LocatorAt(ctx.session, e.ord).session = ctx.session
    BY DEF LocatorAt, OrdinalLocator, IdLocator
  <2>4. QED
    BY <2>2, <2>3 DEF Located
<1>4. Shows(c)
  BY <1>1, <1>2, <1>3 DEF Shows
<1>5. QED
  BY <1>4 DEF c

LEMMA CodexReadStep ==
  ASSUME FileInv, provider = "codex", NEW from \in Nat, NEW to \in Nat,
         from <= to, to + 1 <= Len(file), NEW s, NEW k, NEW acc,
         CodexReadOK(acc, s, k, from, to)
  PROVE  CodexReadOK(Codex!Record(acc, [ord |-> to + 1,
                                        rec |-> file[to + 1]]),
                     s, k, from, to + 1)
<1> DEFINE e == [ord |-> to + 1, rec |-> file[to + 1]]
           next == Codex!Record(acc, e)
           shapes == CodexShapes(file[to + 1])
           more == Occurrences(e, acc.ctx, shapes)
<1>1. e.ord = to + 1 /\ e.rec = file[to + 1]
  OBVIOUS
<1>2. CodexAcc(acc, s, k)
  BY DEF CodexReadOK
<1>3. /\ Reads(next, acc, e, s, k, shapes)
      /\ IF CodexBoundary(file[to + 1]) /\ file[to + 1].digest \notin acc.seen
         THEN NextEpoch(next, acc, file[to + 1].digest)
         ELSE SameEpoch(next, acc)
  BY <1>1, <1>2, CodexRecord
<1> HIDE DEF e, next
<1>4. /\ next.seen = Boundaries(to + 1)
      /\ next.ctx.epoch = Cardinality(Boundaries(to + 1))
  <2> DEFINE key == file[to + 1].digest
  <2>1. provider \in Providers
    BY DEF Providers
  <2>2. Boundaries(to + 1) = Boundaries(to) \cup BoundaryKeys(to + 1)
    BY BoundariesStep
  <2>3. /\ acc.seen = Boundaries(to)
        /\ acc.ctx.epoch = Cardinality(Boundaries(to))
    BY DEF CodexReadOK
  <2>4. CASE CodexBoundary(file[to + 1])
    <3>1. BoundaryKeys(to + 1) = {key}
      BY <2>4, BoundaryOf
    <3>2. Cardinality(Boundaries(to + 1)) =
            IF key \in Boundaries(to) THEN Cardinality(Boundaries(to))
            ELSE Cardinality(Boundaries(to)) + 1
      BY <2>1, <3>1, EpochStep
    <3>3. CASE key \in Boundaries(to)
      BY <1>3, <2>2, <2>3, <3>1, <3>2, <3>3 DEF SameEpoch
    <3>4. CASE key \notin Boundaries(to)
      BY <1>3, <2>2, <2>3, <2>4, <3>1, <3>2, <3>4 DEF NextEpoch
    <3>5. QED
      BY <3>3, <3>4
  <2>5. CASE ~CodexBoundary(file[to + 1])
    <3>1. BoundaryKeys(to + 1) = {}
      BY <2>5, BoundaryOf
    <3>2. Boundaries(to + 1) = Boundaries(to)
      BY <2>2, <3>1
    <3>3. QED
      BY <1>3, <2>3, <2>5, <3>2 DEF SameEpoch
  <2>6. QED
    BY <2>4, <2>5
<1>5. next.candidates = acc.candidates \cup more
  BY <1>3 DEF Reads
<1>6. \A c \in more : \E t \in shapes : c = OccurrenceOf(e, acc.ctx, t)
  BY DEF Occurrences
<1>7. /\ \A t \in shapes : t.class \in ClassesOf(to + 1)
      /\ \A class \in ClassesOf(to + 1) : \E t \in shapes : t.class = class
  BY CodexClasses
<1>8. \A c \in more : Occurs(c, s, k, from, to + 1) /\ c.ord = to + 1
  <2>1. SUFFICES ASSUME NEW t \in shapes
                 PROVE  LET c == OccurrenceOf(e, acc.ctx, t)
                        IN  Occurs(c, s, k, from, to + 1) /\ c.ord = to + 1
    BY <1>6
  <2> DEFINE c == OccurrenceOf(e, acc.ctx, t)
  <2>2. /\ c.ord = to + 1 /\ c.session = acc.ctx.session
        /\ c.kind = acc.ctx.kind /\ c.epoch = acc.ctx.epoch
        /\ c.family = t.family /\ c.class = t.class
    BY <1>1, OccurrenceFields DEF e
  <2> HIDE DEF c
  <2>3. /\ t.family \in {"response", "event", "tool"}
        /\ t.class \in RowClasses
        /\ t.family # "tool" <=> t.class = "prose"
    BY ShapeFacts
  <2>4. acc.ctx.epoch = EpochAt(to + 1)
    <3>1. (to + 1) - 1 = to
      OBVIOUS
    <3>2. QED
      BY <3>1 DEF CodexReadOK, EpochAt
  <2>5. to + 1 \in 1..Len(file)
    BY DEF FileInv
  <2>6. Tells(c)
    BY <1>7, <2>2, <2>3, <2>4, <2>5 DEF Tells
  <2>7. Shows(c)
    BY <1>1, OccurrenceShows DEF c, e
  <2>8. QED
    BY <1>2, <2>2, <2>3, <2>6, <2>7 DEF Occurs, CodexAcc, c
<1>9. \A c \in acc.candidates : Occurs(c, s, k, from, to + 1) /\ c.ord <= to
  BY DEF CodexReadOK, Occurs
<1>10. Distinct(more)
  BY <1>6, ShapeFacts, OccurrenceFields DEF Distinct
<1>11. Distinct(next.candidates)
  <2>1. Distinct(acc.candidates)
    BY DEF CodexReadOK
  <2>2. \A c \in acc.candidates, d \in more : c.ord # d.ord
    BY <1>8, <1>9 DEF Occurs
  <2>3. QED
    BY <1>5, <1>10, <2>1, <2>2 DEF Distinct
<1>12. Complete(next.candidates, from + 1, to + 1)
  <2>1. ASSUME NEW class \in ClassesOf(to + 1)
        PROVE  \E x \in more : x.ord = to + 1 /\ x.class = class
    <3>1. PICK t \in shapes : t.class = class
      BY <1>7
    <3>2. OccurrenceOf(e, acc.ctx, t) \in more
      BY DEF Occurrences
    <3>3. QED
      BY <1>1, <3>1, <3>2, OccurrenceFields DEF e
  <2>2. Complete(acc.candidates, from + 1, to)
    BY DEF CodexReadOK
  <2> HIDE DEF more
  <2>3. from + 1 \in Nat
    OBVIOUS
  <2>4. Complete(acc.candidates \cup more, from + 1, to + 1)
    BY <2>1, <2>2, <2>3, CompleteStep
  <2>5. QED
    BY <1>5, <2>4
<1>13. NotesOK(next.notes, Skips)
  <2>1. shapes = {} => ClassesOf(to + 1) = {}
    BY <1>7
  <2>2. NotesOf(next.notes, acc.notes, to + 1, Skips, shapes)
    BY <1>1, <1>3 DEF Reads, e
  <2>3. NotesOK(acc.notes, Skips)
    BY DEF CodexReadOK
  <2>4. QED
    BY <2>1, <2>2, <2>3 DEF NotesOf, NotesOK
<1>14. CodexAcc(next, s, k)
  BY <1>3 DEF Reads
<1>15. CodexReadOK(next, s, k, from, to + 1)
  BY <1>4, <1>5, <1>8, <1>9, <1>11, <1>12, <1>13, <1>14 DEF CodexReadOK
<1>16. QED
  BY <1>15 DEF next, e

(***************************************************************************)
(* A batch is read record by record: the function that Visit defines by    *)
(* recursion exists, so that it may be reasoned about by induction.        *)
(***************************************************************************)
RecordOf(acc, e) ==
  IF provider = "codex" THEN Codex!Record(acc, e)
  ELSE IF provider = "claude" THEN Claude!Record(acc, e)
  ELSE Antigravity!Record(acc, e)

Follows(f, n, base, envs) ==
  f = [i \in 0..n |-> IF i = 0 THEN base
                      ELSE RecordOf(f[i - 1], envs[i])]

LEMMA RecordsFollow ==
  ASSUME NEW envs, NEW base
  PROVE  \A n \in Nat : \E f : Follows(f, n, base, envs)
<1> DEFINE S == {n \in Nat : \E f : Follows(f, n, base, envs)}
<1>1. 0 \in S
  <2> DEFINE f == [i \in 0..0 |-> base]
  <2>1. f = [i \in 0..0 |-> IF i = 0 THEN base
                            ELSE RecordOf(f[i - 1], envs[i])]
    OBVIOUS
  <2>2. Follows(f, 0, base, envs)
    BY <2>1 DEF Follows
  <2>3. QED
    BY <2>2
<1>2. ASSUME NEW n \in Nat, n \in S PROVE n + 1 \in S
  <2>1. PICK f : Follows(f, n, base, envs)
    BY <1>2
  <2> DEFINE g == [i \in 0..(n + 1) |->
                     IF i = n + 1 THEN RecordOf(f[n], envs[n + 1])
                     ELSE f[i]]
             h == [i \in 0..(n + 1) |-> IF i = 0 THEN base
                                        ELSE RecordOf(g[i - 1], envs[i])]
  <2>2. ASSUME NEW i \in 0..(n + 1) PROVE g[i] = h[i]
    <3>1. CASE i = n + 1
      <4>1. g[n] = f[n] /\ n \in 0..(n + 1) /\ (n + 1) - 1 = n
        OBVIOUS
      <4>2. QED
        BY <3>1, <4>1
    <3>2. CASE i = 0
      <4>1. f[0] = base /\ 0 # n + 1
        BY <2>1 DEF Follows
      <4>2. QED
        BY <3>2, <4>1
    <3>3. CASE i # 0 /\ i # n + 1
      <4>1. i \in 0..n /\ i - 1 \in 0..(n + 1) /\ i - 1 # n + 1
        BY <3>3
      <4>2. f[i] = RecordOf(f[i - 1], envs[i])
        BY <2>1, <3>3, <4>1 DEF Follows
      <4>3. g[i] = f[i] /\ g[i - 1] = f[i - 1]
        BY <3>3, <4>1
      <4>4. QED
        BY <3>3, <4>2, <4>3
    <3>4. QED
      BY <3>1, <3>2, <3>3
  <2>3. g = h
    <3> HIDE DEF g
    <3>1. g = [i \in 0..(n + 1) |-> g[i]]
      BY DEF g
    <3>2. h = [i \in 0..(n + 1) |-> h[i]]
      OBVIOUS
    <3> HIDE DEF h
    <3>3. QED
      BY <2>2, <3>1, <3>2
  <2>4. Follows(g, n + 1, base, envs)
    BY <2>3 DEF Follows
  <2>5. QED
    BY <2>4
<1> HIDE DEF S
<1>3. \A n \in Nat : n \in S
  BY <1>1, <1>2, SetInduction
<1>4. QED
  BY <1>3 DEF S

(* The records of a batch.                                                 *)
LEMMA EnvelopesOf ==
  ASSUME NEW from \in Nat, NEW n \in Nat
  PROVE  /\ Len(Envelopes(from, n)) = n
         /\ \A i \in 1..n : Envelopes(from, n)[i] =
              [ord |-> from + i, rec |-> file[from + i]]
<1> DEFINE envs == Envelopes(from, n)
           S == {[ord |-> from + i, rec |-> file[from + i]] : i \in 1..n}
<1>1. envs \in [1..n -> S]
  BY DEF Envelopes
<1>2. \A i \in 1..n : envs[i] = [ord |-> from + i, rec |-> file[from + i]]
  BY DEF Envelopes
<1> HIDE DEF envs, S
<1>3. envs \in Seq(S) /\ Len(envs) = n
  BY <1>1
<1>4. QED
  BY <1>2, <1>3 DEF envs

LEMMA CodexVisit ==
  ASSUME FileInv, provider = "codex", NEW from \in Nat, NEW n \in Nat,
         from + n <= Len(file), NEW state, StateOK(state, from),
         NEW s, NEW k, NEW cwd, NEW notes, NotesOK(notes, Skips)
  PROVE  CodexReadOK(
           Codex!Visit(Envelopes(from, n),
                       [session |-> s, kind |-> k, epoch |-> state.epoch,
                        cwd |-> cwd], notes, state),
           s, k, from, from + n)
<1> DEFINE envs == Envelopes(from, n)
           ctx == [session |-> s, kind |-> k, epoch |-> state.epoch,
                   cwd |-> cwd]
           base == [ctx |-> ctx, seen |-> Codex!Seen(state),
                    candidates |-> {}, boundaries |-> {}, notes |-> notes]
<1>1. CodexReadOK(base, s, k, from, from)
  <2>1. state.seen = Boundaries(from)
        /\ state.epoch = Cardinality(Boundaries(from))
    BY DEF StateOK
  <2>2. CodexAcc(base, s, k)
    BY DEF CodexAcc
  <2>3. Complete({}, from + 1, from)
    BY DEF Complete
  <2>4. QED
    BY <2>1, <2>2, <2>3 DEF CodexReadOK, Codex!Seen, Distinct
<1>2. Len(envs) = n
  BY EnvelopesOf
<1>3. \A i \in 1..n : envs[i] = [ord |-> from + i, rec |-> file[from + i]]
  BY EnvelopesOf
<1> HIDE DEF envs
<1>4. PICK f : f = [i \in 0..Len(envs) |->
                 IF i = 0 THEN base ELSE Codex!Record(f[i - 1], envs[i])]
  <2> HIDE DEF base
  <2>1. PICK f : Follows(f, n, base, envs)
    BY RecordsFollow
  <2>2. f = [i \in 0..n |-> IF i = 0 THEN base
                            ELSE RecordOf(f[i - 1], envs[i])]
    BY <2>1 DEF Follows
  <2>3. \A acc, e : RecordOf(acc, e) = Codex!Record(acc, e)
    BY DEF RecordOf
  <2>4. f = [i \in 0..n |-> IF i = 0 THEN base
                            ELSE Codex!Record(f[i - 1], envs[i])]
    BY <2>2, <2>3
  <2>5. QED
    BY <1>2, <2>4
<1> DEFINE read == Codex!Visit(envs, ctx, notes, state)
           g == CHOOSE h : h = [i \in 0..Len(envs) |->
                  IF i = 0 THEN base ELSE Codex!Record(h[i - 1], envs[i])]
<1>5. g = [i \in 0..Len(envs) |->
             IF i = 0 THEN base ELSE Codex!Record(g[i - 1], envs[i])]
  BY <1>4
<1>6. read = g[n]
  BY <1>2 DEF Codex!Visit
<1> HIDE DEF base, g, read
<1> DEFINE S == {i \in Nat : i <= n =>
                   CodexReadOK(g[i], s, k, from, from + i)}
<1>7. 0 \in S
  BY <1>1, <1>2, <1>5
<1>8. ASSUME NEW i \in Nat, i \in S PROVE i + 1 \in S
  <2>1. SUFFICES ASSUME i + 1 <= n
                 PROVE  CodexReadOK(g[i + 1], s, k, from, from + (i + 1))
    OBVIOUS
  <2>2. CodexReadOK(g[i], s, k, from, from + i)
    BY <1>8, <2>1
  <2>3. /\ i + 1 \in 0..Len(envs) /\ i + 1 # 0 /\ (i + 1) - 1 = i
        /\ i + 1 \in 1..n
    BY <1>2, <2>1
  <2>4. g[i + 1] = Codex!Record(g[i], envs[i + 1])
    BY <1>5, <2>3
  <2>5. envs[i + 1] = [ord |-> from + (i + 1), rec |-> file[from + (i + 1)]]
    BY <1>3, <2>3
  <2>6. /\ from + (i + 1) = (from + i) + 1 /\ from + i \in Nat
        /\ from <= from + i /\ (from + i) + 1 <= Len(file)
    BY <2>1 DEF FileInv
  <2>7. g[i + 1] = Codex!Record(g[i], [ord |-> (from + i) + 1,
                                       rec |-> file[(from + i) + 1]])
    BY <2>4, <2>5, <2>6
  <2>8. CodexReadOK(g[i + 1], s, k, from, (from + i) + 1)
    BY <2>2, <2>6, <2>7, CodexReadStep
  <2>9. QED
    BY <2>6, <2>8
<1> HIDE DEF S
<1>9. \A i \in Nat : i \in S
  BY <1>7, <1>8, SetInduction
<1>10. CodexReadOK(read, s, k, from, from + n)
  BY <1>6, <1>9 DEF S
<1>11. QED
  BY <1>10 DEF read, envs

(***************************************************************************)
(* Codex: what becomes of the occurrences.                                 *)
(***************************************************************************)
(* From an occurrence on, all that is said is there.                       *)
Filled(all, to) ==
  \A c \in all : \A i \in (c.ord + 1)..to :
    "prose" \in ClassesOf(i) => \E x \in all : x.ord = i /\ x.class = "prose"
FromBatch(all, s, k, to) ==
  /\ \A c \in all : /\ Tells(c) /\ Shows(c) /\ c.ord <= to
                    /\ c.session = s /\ c.kind = k
                    /\ c.family \in {"response", "event", "tool"}
                    /\ c.family # "tool" <=> c.class = "prose"
  /\ Distinct(all)
  /\ Filled(all, to)

LEMMA CodexAll ==
  ASSUME FileInv, provider = "codex", NEW from \in Nat, NEW to \in Nat,
         from <= to, NEW state, StateOK(state, from), NEW s, NEW k,
         s # NoId, k # Codex!NoKind, state.session \in {s, NoId},
         NEW read, CodexReadOK(read, s, k, from, to)
  PROVE  /\ FromBatch(Codex!Carried(state, k) \cup read.candidates, s, k, to)
         /\ \A c \in Codex!Carried(state, k) :
              c \in state.carry /\ c.ord <= from /\ Waits(c, from)
         /\ \A c \in read.candidates : c.ord > from
<1> DEFINE carried == Codex!Carried(state, k)
<1>1. \A c \in carried : c \in state.carry /\ state.kind = k
  BY DEF Codex!Carried
<1>2. Admissible(state) /\ \A c \in state.carry : Waits(c, from)
  BY DEF StateOK
<1> HIDE DEF carried
<1>3. ASSUME NEW c \in carried
      PROVE  /\ Tells(c) /\ Shows(c) /\ Waits(c, from)
             /\ c.ord <= from /\ c.session = s /\ c.kind = k
             /\ c.family \in {"response", "event"} /\ c.class = "prose"
             /\ carried = {c}
  <2>1. /\ Codex!Projection(c) /\ c.class = "prose"
        /\ c.session = state.session /\ c.kind = state.kind
        /\ state.carry = {c}
    BY <1>1, <1>2 DEF Admissible
  <2>2. state.session # NoId
    BY <1>1, <1>2 DEF Admissible
  <2>3. Tells(c) /\ Shows(c) /\ Waits(c, from) /\ c.ord <= from
    BY <1>1, <1>2 DEF Waits
  <2>4. QED
    BY <1>1, <1>2, <2>1, <2>2, <2>3 DEF Codex!Projection
<1>4. \A c \in carried : c.ord \in Nat /\ c.ord <= to
  BY <1>3 DEF Tells, FileInv
<1>5. \A c \in read.candidates :
        /\ Occurs(c, s, k, from, to) /\ c.ord > from /\ c.ord <= to
  BY DEF CodexReadOK, Occurs
<1>6. Distinct(carried \cup read.candidates)
  <2>1. Distinct(read.candidates)
    BY DEF CodexReadOK
  <2>2. \A c \in carried, d \in read.candidates : c.ord # d.ord
    BY <1>3, <1>4, <1>5
  <2>3. QED
    BY <1>3, <2>1, <2>2 DEF Distinct
<1>7. Filled(carried \cup read.candidates, to)
  <2>1. SUFFICES ASSUME NEW c \in carried \cup read.candidates,
                        NEW i \in (c.ord + 1)..to, "prose" \in ClassesOf(i)
                 PROVE  \E x \in read.candidates :
                          x.ord = i /\ x.class = "prose"
    BY DEF Filled
  <2>2. c.ord \in Nat /\ i \in Nat
    BY <1>4, <1>5 DEF Occurs
  <2>3. i > from
    <3>1. CASE c \in carried
      <4>1. i \notin (c.ord + 1)..from
        BY <1>3, <2>1, <3>1 DEF Waits
      <4>2. QED
        BY <2>1, <2>2, <4>1
    <3>2. CASE c \in read.candidates
      BY <1>5, <2>2, <3>2
    <3>3. QED
      BY <3>1, <3>2
  <2>4. i \in (from + 1)..to
    BY <2>2, <2>3
  <2>5. Complete(read.candidates, from + 1, to)
    BY DEF CodexReadOK
  <2>6. QED
    BY <2>1, <2>4, <2>5 DEF Complete
<1>8. FromBatch(carried \cup read.candidates, s, k, to)
  BY <1>3, <1>4, <1>5, <1>6, <1>7 DEF FromBatch, Occurs
<1>9. QED
  BY <1>1, <1>3, <1>5, <1>8 DEF carried

(* A message has one occurrence, or the two of one text.                   *)
LEMMA GroupOf ==
  ASSUME NEW all, NEW c \in all
  PROVE  \/ Codex!Group(c, all) = {c}
         \/ \E d \in all : /\ Codex!Group(c, all) = {c, d}
                           /\ Codex!Paired(c, d, all)
                           /\ Codex!Compatible(c, d)
<1>1. CASE \E d \in all : Codex!Paired(c, d, all)
  <2>1. PICK d \in all : Codex!Paired(c, d, all)
    BY <1>1
  <2>2. Codex!Partners(c, all) = {d}
    BY <2>1 DEF Codex!Paired
  <2>3. Codex!Compatible(c, d)
    BY <2>2 DEF Codex!Partners
  <2>4. \A x \in all : Codex!Paired(c, x, all) => x = d
    BY <2>2 DEF Codex!Paired
  <2>5. Codex!Group(c, all) = {c, d}
    BY <2>1, <2>4 DEF Codex!Group
  <2>6. QED
    BY <2>1, <2>3, <2>5
<1>2. CASE \A d \in all : ~Codex!Paired(c, d, all)
  BY <1>2 DEF Codex!Group
<1>3. QED
  BY <1>1, <1>2

LEMMA GroupTells ==
  ASSUME FileInv, NEW all, NEW s, NEW k, NEW to,
         FromBatch(all, s, k, to), NEW c \in all
  PROVE  \E f \in Codex!Group(c, all) :
           /\ c \in Codex!Group(c, all)
           /\ Codex!Group(c, all) \subseteq all
           /\ \A d \in Codex!Group(c, all) :
                /\ d.ord \in Nat /\ d.class = c.class /\ d.epoch = c.epoch
                /\ d # f => f.ord < d.ord
<1>1. \A d \in all : d.ord \in Nat
  BY DEF FromBatch, Tells, FileInv
<1>2. CASE Codex!Group(c, all) = {c}
  BY <1>1, <1>2
<1>3. ASSUME NEW d \in all, Codex!Group(c, all) = {c, d},
             Codex!Compatible(c, d)
      PROVE  \E f \in Codex!Group(c, all) :
               /\ c \in Codex!Group(c, all)
               /\ Codex!Group(c, all) \subseteq all
               /\ \A x \in Codex!Group(c, all) :
                    /\ x.ord \in Nat
                    /\ x.class = c.class /\ x.epoch = c.epoch
                    /\ x # f => f.ord < x.ord
  <2>1. /\ {c.family, d.family} = {"response", "event"}
        /\ c.class = "prose" /\ d.class = "prose" /\ c.epoch = d.epoch
    BY <1>3 DEF Codex!Compatible
  <2>2. c # d
    BY <2>1
  <2>3. c.ord # d.ord
    BY <2>1, <2>2 DEF FromBatch, Distinct
  <2>4. CASE c.ord < d.ord
    BY <1>1, <1>3, <2>1, <2>4
  <2>5. CASE d.ord < c.ord
    BY <1>1, <1>3, <2>1, <2>5
  <2>6. QED
    BY <1>1, <2>3, <2>4, <2>5
<1>4. QED
  BY <1>2, <1>3, GroupOf

(* The earliest occurrence names the message.                              *)
Speaks(m, g, f) ==
  /\ m.aliases = {Codex!Alias(c.ord, c.locator) : c \in g}
  /\ m.class = f.class /\ m.epoch = f.epoch /\ Says(m) = Says(f)
  /\ m.id = LogicalId(f.locator) /\ m.locator = f.locator

LEMMA MergedSpeaks ==
  ASSUME NEW g, NEW f \in g,
         \A d \in g : d.ord \in Nat /\ (d # f => f.ord < d.ord)
  PROVE  Speaks(Codex!Merged(g), g, f)
<1> DEFINE first == CHOOSE c \in g : \A d \in g : c.ord <= d.ord
           aliases == {Codex!Alias(c.ord, c.locator) : c \in g}
<1>1. first = f
  <2>1. \A d \in g : f.ord <= d.ord
    OBVIOUS
  <2>2. \A c \in g : (\A d \in g : c.ord <= d.ord) => c = f
    OBVIOUS
  <2>3. QED
    BY <2>1, <2>2
<1>2. Codex!Canonical(aliases) = Codex!Alias(f.ord, f.locator)
  <2> DEFINE a == Codex!Alias(f.ord, f.locator)
  <2>1. a \in aliases
    OBVIOUS
  <2>2. \A b \in aliases : \E c \in g : b = Codex!Alias(c.ord, c.locator)
    OBVIOUS
  <2>3. \A x, y : Codex!Alias(x, y).ord = x
    BY DEF Codex!Alias
  <2> HIDE DEF aliases, a
  <2>4. \A b \in aliases : a.ord <= b.ord
    BY <2>2, <2>3 DEF a
  <2>5. \A b \in aliases : (\A d \in aliases : b.ord <= d.ord) => b = a
    <3>1. SUFFICES ASSUME NEW b \in aliases, b.ord <= a.ord PROVE b = a
      BY <2>1
    <3>2. PICK c \in g : b = Codex!Alias(c.ord, c.locator)
      BY <2>2
    <3>3. c = f
      BY <2>3, <3>1, <3>2 DEF a
    <3>4. QED
      BY <3>2, <3>3 DEF a
  <2>6. QED
    BY <2>1, <2>4, <2>5 DEF Codex!Canonical, a
<1>3. Codex!Alias(f.ord, f.locator).locator = f.locator
  BY DEF Codex!Alias
<1>4. /\ Codex!Identity(aliases).id = Codex!LogicalId(f.locator)
      /\ Codex!Identity(aliases).locator = f.locator
      /\ Codex!Identity(aliases).aliases = aliases
  BY <1>2, <1>3 DEF Codex!Identity
<1>5. /\ Codex!Merged(g).aliases = aliases
      /\ Codex!Merged(g).class = first.class
      /\ Codex!Merged(g).epoch = first.epoch
      /\ Says(Codex!Merged(g)) = Says(first)
      /\ Codex!Merged(g).id = Codex!Identity(aliases).id
      /\ Codex!Merged(g).locator = Codex!Identity(aliases).locator
  BY DEF Codex!Merged, Says
<1>6. Codex!LogicalId(f.locator) = LogicalId(f.locator)
  BY DEF Codex!LogicalId, LogicalId
<1>7. QED
  BY <1>1, <1>4, <1>5, <1>6 DEF Speaks

(***************************************************************************)
(* The rows of a batch.                                                    *)
(***************************************************************************)
RowFor(x, m, a) ==
  /\ x.ord = a.ord /\ x.alias = a.locator
  /\ x.id = m.id /\ x.locator = m.locator
  /\ x.class = m.class /\ x.epoch = m.epoch /\ Says(x) = Says(m)
  /\ x.cwd = m.cwd

LEMMA RowsOf ==
  ASSUME NEW messages
  PROVE  /\ \A x \in Rows(messages) : \E m \in messages :
              \E a \in m.aliases : RowFor(x, m, a)
         /\ \A m \in messages : \A a \in m.aliases :
              \E x \in Rows(messages) : RowFor(x, m, a)
<1> DEFINE R(m, a) ==
             [ord |-> a.ord, alias |-> a.locator, id |-> m.id,
              class |-> m.class, locator |-> m.locator, time |-> m.time,
              role |-> m.role, kind |-> m.kind, epoch |-> m.epoch,
              text |-> m.text, cwd |-> m.cwd, harness |-> m.harness]
           Of(m) == {R(m, a) : a \in m.aliases}
<1>1. Rows(messages) = UNION {Of(m) : m \in messages}
  BY DEF Rows
<1>2. \A m, a : RowFor(R(m, a), m, a)
  BY DEF RowFor, Says
<1>3. \A m : /\ \A x \in Of(m) : \E a \in m.aliases : x = R(m, a)
            /\ \A a \in m.aliases : R(m, a) \in Of(m)
  OBVIOUS
<1> HIDE DEF R, Of
<1>4. \A x \in Rows(messages) : \E m \in messages : x \in Of(m)
  BY <1>1
<1>5. \A m \in messages : \A x \in Of(m) : x \in Rows(messages)
  BY <1>1
<1>6. QED
  BY <1>2, <1>3, <1>4, <1>5

(* Nothing that is shown is left out with the records of unknown shape.    *)
LEMMA NothingOmitted ==
  ASSUME FileInv, NEW parsed, NEW ignoring, NotesOK(parsed.notes, Skips),
         \A x \in Rows(parsed.messages) : RowOK(x)
  PROVE  Kept(parsed, ignoring) = parsed.messages
<1>1. \A n \in Omitted(parsed, ignoring) : ClassesOf(n) = {}
  <2>1. \A n \in Omitted(parsed, ignoring) :
          \E d \in parsed.notes : d.ord = n /\ d.code \in Skips
    BY DEF Omitted, Skips, SkippableCodes, UnknownShapeCodes,
           UnsupportedCodes, FileInv
  <2>2. QED
    BY <2>1 DEF NotesOK
<1>2. \A m \in parsed.messages : \A a \in m.aliases : ClassesOf(a.ord) # {}
  <2>1. SUFFICES ASSUME NEW m \in parsed.messages, NEW a \in m.aliases
                 PROVE  ClassesOf(a.ord) # {}
    OBVIOUS
  <2>2. PICK x \in Rows(parsed.messages) : RowFor(x, m, a)
    BY RowsOf
  <2>3. Tells(x) /\ x.ord = a.ord
    BY <2>2 DEF RowOK, RowFor
  <2>4. QED
    BY <2>3 DEF Tells
<1>3. QED
  BY <1>1, <1>2 DEF Kept

(* What a batch adds to the records before it, from a state s.             *)
BatchRows(rows, s, from, to) ==
  /\ \A x \in rows : RowOK(x) /\ x.ord <= to
  /\ \A x \in rows : x.ord <= from =>
       /\ provider = "codex"
       /\ \E c \in s.carry : /\ PrimaryKey(c) = PrimaryKey(x)
                             /\ NamedBy(x, c.locator) /\ Says(x) = Says(c)
  /\ RowsPaired(rows)
  /\ Complete(rows, from + 1, to)
BatchState(t, rows, s, from, to) ==
  /\ StateOK(t, to)
  /\ OfSession(rows, t)
  /\ provider = "codex" =>
       t.session # NoId /\ s.session \in {t.session, NoId}
  /\ provider = "codex" =>
       \A c \in t.carry : /\ Names(c, rows)
                          /\ c.ord <= from => c \in s.carry
(* The rows of a batch have the cwd of their record, or what is known when *)
(* it ends.                                                                *)
BatchCwds(rows, s, parsed) ==
  /\ provider = "claude" => \A x \in rows : x.cwd = file[x.ord].cwd
  /\ provider = "antigravity" =>
       /\ \A x \in rows : x.cwd = parsed.state.cwd
       /\ Established(parsed) = (s.cwd = NoCwd /\ parsed.state.cwd # NoCwd)
BatchOK(parsed, s, from, to) ==
  /\ NotesOK(parsed.notes, Skips)
  /\ BatchRows(Rows(parsed.messages), s, from, to)
  /\ BatchState(parsed.state, Rows(parsed.messages), s, from, to)
  /\ BatchCwds(Rows(parsed.messages), s, parsed)
  /\ Established(parsed) => provider = "antigravity"

(* The rows of a Codex batch: one for every occurrence of a message.       *)
CodexMessages(all, fresh) ==
  {x \in Codex!Canonicalize(all) : Codex!Touches(x, {c.ord : c \in fresh})}

(* The row of occurrence d in a message that occurrence f speaks for.      *)
RowAt(x, d, f) ==
  /\ x.ord = d.ord /\ x.class = d.class /\ x.epoch = d.epoch
  /\ x.alias = d.locator
  /\ x.id = LogicalId(f.locator) /\ x.locator = f.locator
  /\ Says(x) = Says(f)

LEMMA CodexRows ==
  ASSUME FileInv, NEW all, NEW s, NEW k, NEW to,
         FromBatch(all, s, k, to), NEW fresh \in SUBSET all
  PROVE  /\ \A x \in Rows(CodexMessages(all, fresh)) :
              \E c \in all : \E f, d, h \in Codex!Group(c, all) :
                /\ \A y \in Codex!Group(c, all) : y # f => f.ord < y.ord
                /\ \E z \in fresh : z.ord = h.ord
                /\ RowAt(x, d, f)
                /\ \A e \in Codex!Group(c, all) :
                     \E y \in Rows(CodexMessages(all, fresh)) :
                       RowAt(y, e, f)
         /\ \A c \in fresh : \E x \in Rows(CodexMessages(all, fresh)) :
              x.ord = c.ord /\ x.class = c.class
<1> DEFINE messages == CodexMessages(all, fresh)
           G(c) == Codex!Group(c, all)
           ords == {c.ord : c \in fresh}
<1>1. \A x, y : Codex!Alias(x, y).ord = x /\ Codex!Alias(x, y).locator = y
  BY DEF Codex!Alias
<1>2. ASSUME NEW c \in all
      PROVE  \E f \in G(c) :
               /\ Speaks(Codex!Merged(G(c)), G(c), f)
               /\ c \in G(c) /\ G(c) \subseteq all
               /\ \A d \in G(c) :
                    /\ d.class = f.class /\ d.epoch = f.epoch
                    /\ d # f => f.ord < d.ord
  <2>1. PICK f \in G(c) :
           /\ c \in G(c) /\ G(c) \subseteq all
           /\ \A d \in G(c) :
                /\ d.ord \in Nat /\ d.class = c.class /\ d.epoch = c.epoch
                /\ d # f => f.ord < d.ord
    BY GroupTells
  <2> HIDE DEF G
  <2>2. Speaks(Codex!Merged(G(c)), G(c), f)
    BY <2>1, MergedSpeaks
  <2>3. QED
    BY <2>1, <2>2
<1>3. /\ \A m \in messages : \E c \in all : m = Codex!Merged(G(c))
                                 /\ Codex!Touches(m, ords)
      /\ \A c \in all : Codex!Touches(Codex!Merged(G(c)), ords) =>
           Codex!Merged(G(c)) \in messages
  BY DEF CodexMessages, Codex!Canonicalize
<1>4. ASSUME NEW x \in Rows(messages)
      PROVE  \E c \in all : \E f, d, h \in G(c) :
                /\ \A y \in G(c) : y # f => f.ord < y.ord
                /\ \E z \in fresh : z.ord = h.ord
                /\ RowAt(x, d, f)
                /\ \A e \in G(c) : \E y \in Rows(messages) : RowAt(y, e, f)
  <2> HIDE DEF messages
  <2>1. PICK m \in messages : \E a \in m.aliases : RowFor(x, m, a)
    BY RowsOf
  <2>2. PICK a \in m.aliases : RowFor(x, m, a)
    BY <2>1
  <2>3. PICK c \in all : m = Codex!Merged(G(c)) /\ Codex!Touches(m, ords)
    BY <1>3, <2>1
  <2> HIDE DEF G
  <2>4. PICK f \in G(c) :
           /\ Speaks(m, G(c), f)
           /\ \A d \in G(c) :
                /\ d.class = f.class /\ d.epoch = f.epoch
                /\ d # f => f.ord < d.ord
    BY <1>2, <2>3
  <2>5. \A b \in m.aliases : \E d \in G(c) : b = Codex!Alias(d.ord, d.locator)
    BY <2>4 DEF Speaks
  <2>6. PICK d \in G(c) : a = Codex!Alias(d.ord, d.locator)
    BY <2>5
  <2>7. PICK b \in m.aliases : \E z \in fresh : z.ord = b.ord
    BY <2>3 DEF Codex!Touches
  <2>8. PICK h \in G(c) : b = Codex!Alias(h.ord, h.locator)
    BY <2>5
  <2>9. \E z \in fresh : z.ord = h.ord
    BY <1>1, <2>7, <2>8
  <2>10. ASSUME NEW e \in G(c), NEW y,
                RowFor(y, m, Codex!Alias(e.ord, e.locator))
         PROVE  RowAt(y, e, f)
    <3>1. y.ord = e.ord /\ y.alias = e.locator
      BY <1>1, <2>10 DEF RowFor
    <3>2. /\ y.class = e.class /\ y.epoch = e.epoch
          /\ y.id = LogicalId(f.locator) /\ y.locator = f.locator
          /\ Says(y) = Says(f)
      BY <2>4, <2>10 DEF RowFor, Speaks
    <3>3. QED
      BY <3>1, <3>2 DEF RowAt
  <2>11. RowAt(x, d, f)
    BY <2>2, <2>6, <2>10
  <2>12. ASSUME NEW e \in G(c)
         PROVE  \E y \in Rows(messages) : RowAt(y, e, f)
    <3>1. Codex!Alias(e.ord, e.locator) \in m.aliases
      BY <2>4 DEF Speaks
    <3>2. PICK y \in Rows(messages) :
            RowFor(y, m, Codex!Alias(e.ord, e.locator))
      BY <2>1, <3>1, RowsOf
    <3>3. QED
      BY <2>10, <3>2
  <2>13. QED
    BY <2>4, <2>9, <2>11, <2>12
<1>5. ASSUME NEW c \in fresh
      PROVE  \E x \in Rows(messages) : x.ord = c.ord /\ x.class = c.class
  <2> DEFINE m == Codex!Merged(G(c))
             a == Codex!Alias(c.ord, c.locator)
  <2>1. c \in all
    OBVIOUS
  <2> HIDE DEF G
  <2>2. PICK f \in G(c) :
           /\ Speaks(m, G(c), f) /\ c \in G(c)
           /\ \A d \in G(c) : d.class = f.class
    BY <1>2, <2>1
  <2>3. a \in m.aliases
    BY <2>2 DEF Speaks
  <2>4. Codex!Touches(m, ords)
    BY <1>1, <2>3 DEF Codex!Touches
  <2>5. m \in messages
    BY <1>3, <2>1, <2>4
  <2> HIDE DEF messages, m
  <2>6. PICK x \in Rows(messages) : RowFor(x, m, a)
    BY <2>3, <2>5, RowsOf
  <2>7. QED
    BY <1>1, <2>2, <2>6 DEF RowFor, Speaks
<1>6. QED
  BY <1>4, <1>5

(* What is carried on is alone, so that it names its own rows.             *)
LEMMA CodexTrailing ==
  ASSUME FileInv, provider = "codex", NEW all, NEW s, NEW k, NEW to,
         FromBatch(all, s, k, to), NEW fresh \in SUBSET all, NEW epoch,
         NEW c \in Codex!Trailing(all, epoch)
  PROVE  /\ c \in all /\ Codex!Projection(c) /\ c.class = "prose"
         /\ c.epoch = epoch
         /\ Codex!Trailing(all, epoch) = {c}
         /\ Names(c, Rows(CodexMessages(all, fresh)))
<1> DEFINE T == Codex!Trailing(all, epoch)
<1>1. \A d \in T : /\ d \in all /\ Codex!Projection(d) /\ d.epoch = epoch
                   /\ Codex!Group(d, all) = {d}
                   /\ \A x \in T : x.ord <= d.ord
  BY DEF Codex!Trailing, Codex!OfEpoch
<1> HIDE DEF T
<1>2. \A d \in T : d.class = "prose" /\ d.ord \in Nat
  BY <1>1 DEF FromBatch, Codex!Projection, Tells, FileInv
<1>3. T = {c}
  <2>1. c \in T
    BY DEF T
  <2>2. ASSUME NEW d \in T PROVE d = c
    <3>1. d.ord <= c.ord /\ c.ord <= d.ord
      BY <1>1, <2>1
    <3>2. d.ord = c.ord /\ d.class = c.class
      BY <1>2, <2>1, <3>1
    <3>3. QED
      BY <1>1, <2>1, <3>2 DEF FromBatch, Distinct
  <2>3. QED
    BY <2>1, <2>2
<1>4. ASSUME NEW x \in Rows(CodexMessages(all, fresh)),
             PrimaryKey(x) = PrimaryKey(c)
      PROVE  NamedBy(x, c.locator) /\ Says(x) = Says(c)
  <2>1. PICK g \in all : \E f, d, h \in Codex!Group(g, all) :
           RowAt(x, d, f)
    BY CodexRows
  <2>2. PICK f \in Codex!Group(g, all), d \in Codex!Group(g, all) :
           RowAt(x, d, f)
    BY <2>1
  <2>3. c \in all /\ Codex!Group(c, all) = {c}
    BY <1>1, <1>3
  <2>4. d \in all
    BY <2>2 DEF Codex!Group
  <2>5. d = c
    BY <1>4, <2>2, <2>3, <2>4 DEF FromBatch, Distinct, PrimaryKey, RowAt
  <2>6. g = c
    <3>1. SUFFICES ASSUME g # c PROVE FALSE
      OBVIOUS
    <3>2. Codex!Paired(g, c, all)
      BY <2>2, <2>5, <3>1 DEF Codex!Group
    <3>3. Codex!Between(c, g, all) = {}
      <4>1. Codex!Compatible(g, c)
        BY <3>2 DEF Codex!Paired, Codex!Partners
      <4>2. g.session = c.session /\ g.epoch = c.epoch
        BY <4>1 DEF Codex!Compatible
      <4>3. Codex!Between(g, c, all) = {}
        BY <3>2 DEF Codex!Paired
      <4>4. Codex!Between(c, g, all) = Codex!Between(g, c, all)
        BY <4>2 DEF Codex!Between
      <4>5. QED
        BY <4>3, <4>4
    <3>4. Codex!Paired(c, g, all)
      BY <3>2, <3>3 DEF Codex!Paired
    <3>5. g \in Codex!Group(c, all)
      BY <3>4 DEF Codex!Group
    <3>6. QED
      BY <2>3, <3>1, <3>5
  <2>7. f = c
    BY <2>2, <2>3, <2>6
  <2>8. QED
    BY <2>2, <2>5, <2>7 DEF NamedBy, RowAt
<1>5. QED
  BY <1>1, <1>2, <1>3, <1>4 DEF T, Names

(* It is the last that was said.                                           *)
LEMMA CodexWaits ==
  ASSUME FileInv, provider = "codex", NEW all, NEW s, NEW k, NEW to \in Nat,
         FromBatch(all, s, k, to),
         NEW c \in Codex!Trailing(all, Cardinality(Boundaries(to)))
  PROVE  Waits(c, to)
<1> DEFINE epoch == Cardinality(Boundaries(to))
<1>1. /\ c \in all /\ c.epoch = epoch
      /\ \A d \in all : Codex!Projection(d) /\ d.epoch = epoch
                       => d.ord <= c.ord
  BY DEF Codex!Trailing, Codex!OfEpoch
<1>2. Tells(c) /\ Shows(c) /\ c.ord <= to /\ c.ord \in Nat /\ c.ord # 0
  BY <1>1 DEF FromBatch, Tells, FileInv
<1>3. ASSUME NEW i \in (c.ord + 1)..to, "prose" \in ClassesOf(i)
      PROVE  FALSE
  <2>1. PICK x \in all : x.ord = i /\ x.class = "prose"
    BY <1>1, <1>3 DEF FromBatch, Filled
  <2>2. Tells(x) /\ Codex!Projection(x)
    BY <2>1 DEF FromBatch, Codex!Projection
  <2>3. x.epoch = epoch
    <3>1. /\ c.ord - 1 \in Nat /\ i - 1 \in Nat /\ c.ord - 1 <= i - 1
          /\ i - 1 <= to
      BY <1>2
    <3>2. EpochAt(c.ord) <= EpochAt(i) /\ EpochAt(i) <= epoch
      BY <3>1, EpochsGrow DEF EpochAt, Providers
    <3>3. EpochAt(i) \in Nat /\ epoch \in Nat
      BY <3>1, EpochStep DEF EpochAt, Providers
    <3>4. EpochAt(c.ord) = epoch /\ x.epoch = EpochAt(i)
      BY <1>1, <1>2, <2>1, <2>2 DEF Tells
    <3>5. QED
      BY <3>2, <3>3, <3>4
  <2>4. QED
    BY <1>1, <1>2, <2>1, <2>2, <2>3
<1>4. QED
  BY <1>2, <1>3 DEF Waits

(* What is paired are the two projections of one text, with nothing        *)
(* visible between them.                                                   *)
LEMMA PairFacts ==
  ASSUME FileInv, provider = "codex", NEW all, NEW s, NEW k, NEW to \in Nat,
         FromBatch(all, s, k, to), NEW c \in all, NEW d \in all,
         Codex!Compatible(c, d), Codex!Between(c, d, all) = {},
         NEW x, NEW y, x.ord = c.ord, y.ord = d.ord
  PROVE  ProjectionPair(x, y) /\ ProjectionPair(y, x)
<1>1. /\ {c.family, d.family} = {"response", "event"}
      /\ c.role = d.role /\ c.text = d.text /\ c.epoch = d.epoch
      /\ c.session = s /\ Tells(c) /\ Tells(d) /\ Shows(c) /\ Shows(d)
      /\ c.ord <= to /\ d.ord <= to
  BY DEF Codex!Compatible, FromBatch
<1>2. /\ c.ord \in Nat /\ d.ord \in Nat /\ c.ord # 0 /\ d.ord # 0
      /\ EpochAt(c.ord) = c.epoch /\ EpochAt(d.ord) = c.epoch
      /\ ClassesOf(c.ord) # {} /\ ClassesOf(d.ord) # {}
  <2>1. ASSUME NEW x1, Tells(x1)
        PROVE  /\ x1.ord \in Nat /\ x1.ord # 0
               /\ EpochAt(x1.ord) = x1.epoch /\ ClassesOf(x1.ord) # {}
    <3>1. x1.ord \in 1..Len(file) /\ x1.epoch = EpochAt(x1.ord)
      BY <2>1 DEF Tells
    <3>2. x1.class \in ClassesOf(x1.ord)
      BY <2>1 DEF Tells
    <3>3. Len(file) \in Nat
      BY DEF FileInv
    <3>4. QED
      BY <3>1, <3>2, <3>3
  <2>2. QED
    BY <1>1, <2>1
<1>3. PICK p \in Projections(c.ord), q \in Projections(d.ord) :
        /\ p.family = c.family /\ p.role = c.role /\ p.text = c.text
        /\ q.family = d.family /\ q.role = d.role /\ q.text = d.text
  BY <1>1 DEF Shows
<1>4. Cardinality(Boundaries(c.ord)) = Cardinality(Boundaries(d.ord))
  BY <1>2, CodexSaid
<1>5. ASSUME NEW lo \in {c, d}, NEW hi \in {c, d},
             NEW i \in (lo.ord + 1)..(hi.ord - 1)
      PROVE  "prose" \notin ClassesOf(i)
  <2>1. SUFFICES ASSUME "prose" \in ClassesOf(i) PROVE FALSE
    OBVIOUS
  <2>2. /\ lo.ord \in Nat /\ hi.ord \in Nat /\ hi.ord <= to /\ lo \in all
        /\ EpochAt(lo.ord) = c.epoch /\ EpochAt(hi.ord) = c.epoch
        /\ lo.ord # 0 /\ hi.ord # 0
    BY <1>1, <1>2
  <2>3. i \in (lo.ord + 1)..to
    BY <2>2
  <2>4. PICK z \in all : z.ord = i /\ z.class = "prose"
    BY <2>1, <2>2, <2>3 DEF FromBatch, Filled
  <2>5. Tells(z) /\ z.session = s
    BY <2>4 DEF FromBatch
  <2>6. z.epoch = c.epoch
    <3>1. /\ lo.ord - 1 \in Nat /\ i - 1 \in Nat /\ hi.ord - 1 \in Nat
          /\ lo.ord - 1 <= i - 1 /\ i - 1 <= hi.ord - 1
      BY <2>2
    <3>2. EpochAt(lo.ord) <= EpochAt(i) /\ EpochAt(i) <= EpochAt(hi.ord)
      BY <3>1, EpochsGrow DEF EpochAt, Providers
    <3>3. EpochAt(i) \in Nat /\ EpochAt(lo.ord) \in Nat
      BY <3>1, EpochStep DEF EpochAt, Providers
    <3>4. z.epoch = EpochAt(i)
      BY <2>4, <2>5 DEF Tells
    <3>5. QED
      BY <2>2, <3>2, <3>3, <3>4
  <2>7. \/ c.ord < z.ord /\ z.ord < d.ord
        \/ d.ord < z.ord /\ z.ord < c.ord
    BY <1>2, <2>2, <2>4
  <2>8. z \in Codex!Between(c, d, all)
    BY <1>1, <2>4, <2>5, <2>6, <2>7 DEF Codex!Between
  <2>9. QED
    BY <2>8
<1>6. /\ {p.family, q.family} = {"response", "event"}
      /\ <<p.role, p.text>> = <<q.role, q.text>>
  BY <1>1, <1>3
<1>7. \A i \in ((x.ord + 1)..(y.ord - 1)) \cup ((y.ord + 1)..(x.ord - 1)) :
        "prose" \notin ClassesOf(i)
  BY <1>5
<1>8. /\ Cardinality(UNION {BoundaryKeys(i) : i \in 1..x.ord}) =
           Cardinality(UNION {BoundaryKeys(i) : i \in 1..y.ord})
  BY <1>4 DEF Boundaries
<1>9. /\ p \in Projections(x.ord) /\ q \in Projections(y.ord)
      /\ {q.family, p.family} = {"response", "event"}
      /\ <<q.role, q.text>> = <<p.role, p.text>>
  BY <1>3, <1>6
<1>10. ProjectionPair(x, y)
  BY <1>6, <1>7, <1>8, <1>9 DEF ProjectionPair
<1>11. ProjectionPair(y, x)
  BY <1>6, <1>7, <1>8, <1>9 DEF ProjectionPair
<1>12. QED
  BY <1>10, <1>11

LEMMA CodexPairs ==
  ASSUME FileInv, provider = "codex", NEW all, NEW s, NEW k, NEW to \in Nat,
         FromBatch(all, s, k, to), NEW fresh \in SUBSET all
  PROVE  RowsPaired(Rows(CodexMessages(all, fresh)))
<1> DEFINE rows == Rows(CodexMessages(all, fresh))
<1>1. SUFFICES ASSUME NEW x \in rows
               PROVE  Own(x) \/ \E y \in rows : PairedWith(x, y)
  BY DEF RowsPaired
<1>2. PICK g \in all : \E f, d \in Codex!Group(g, all) :
         /\ RowAt(x, d, f)
         /\ \A e \in Codex!Group(g, all) : \E y \in rows : RowAt(y, e, f)
  BY CodexRows
<1> HIDE DEF rows
<1>3. PICK f \in Codex!Group(g, all), d \in Codex!Group(g, all) :
         /\ RowAt(x, d, f)
         /\ \A e \in Codex!Group(g, all) : \E y \in rows : RowAt(y, e, f)
  BY <1>2
<1>4. CASE f = d
  BY <1>3, <1>4 DEF RowAt, Own, NamedBy
<1>5. CASE f # d
  <2>1. PICK y \in rows : RowAt(y, f, f)
    BY <1>3
  <2>2. PICK h \in all : /\ Codex!Group(g, all) = {g, h}
                         /\ Codex!Compatible(g, h) /\ Codex!Paired(g, h, all)
    BY <1>3, <1>5, GroupOf
  <2>3. Codex!Between(g, h, all) = {}
    BY <2>2 DEF Codex!Paired
  <2>4. ProjectionPair(x, y)
    <3>1. x.ord = d.ord /\ y.ord = f.ord
      BY <1>3, <2>1 DEF RowAt
    <3>2. CASE d = g
      <4>1. f = h
        BY <1>3, <1>5, <2>2, <3>2
      <4>2. QED
        BY <2>2, <2>3, <3>1, <3>2, <4>1, PairFacts
    <3>3. CASE d = h
      <4>1. f = g
        BY <1>3, <1>5, <2>2, <3>3
      <4>2. QED
        BY <2>2, <2>3, <3>1, <3>3, <4>1, PairFacts
    <3>4. QED
      BY <1>3, <2>2, <3>2, <3>3
  <2>5. x.class = y.class
    <3>1. g.class = "prose" /\ h.class = "prose"
      BY <2>2 DEF Codex!Compatible
    <3>2. QED
      BY <1>3, <2>1, <2>2, <3>1 DEF RowAt
  <2>6. Own(y)
    BY <2>1 DEF RowAt, Own, NamedBy
  <2>7. MessageKey(y) = MessageKey(x) /\ Observation(y) = Observation(x)
    <3>1. /\ x.id = y.id /\ x.locator = y.locator /\ Says(x) = Says(y)
      BY <1>3, <2>1 DEF RowAt
    <3>2. QED
      BY <2>5, <3>1 DEF MessageKey, Observation, Says
  <2>8. QED
    BY <2>4, <2>6, <2>7 DEF PairedWith
<1>6. QED
  BY <1>4, <1>5

(* A Codex row is a row of its record.  That of a carried candidate keeps  *)
(* the name it had: it is the earlier of the two occurrences.              *)
LEMMA CodexRowsOK ==
  ASSUME FileInv, provider = "codex", NEW from \in Nat, NEW to \in Nat,
         NEW state, NEW all, NEW s, NEW k, FromBatch(all, s, k, to),
         NEW fresh \in SUBSET all, \A c \in fresh : c.ord > from,
         \A c \in all \ fresh : c \in state.carry,
         Complete(fresh, from + 1, to)
  PROVE  BatchRows(Rows(CodexMessages(all, fresh)), state, from, to)
<1> DEFINE rows == Rows(CodexMessages(all, fresh))
<1>1. ASSUME NEW x \in rows
      PROVE  /\ RowOK(x) /\ x.ord <= to
             /\ x.ord <= from => \E c \in state.carry :
                  /\ PrimaryKey(c) = PrimaryKey(x)
                  /\ NamedBy(x, c.locator) /\ Says(x) = Says(c)
  <2>1. PICK g \in all : \E f, d, h \in Codex!Group(g, all) :
           /\ \A y \in Codex!Group(g, all) : y # f => f.ord < y.ord
           /\ \E z \in fresh : z.ord = h.ord
           /\ RowAt(x, d, f)
    BY CodexRows
  <2>2. PICK f, d, h \in Codex!Group(g, all) :
           /\ \A y \in Codex!Group(g, all) : y # f => f.ord < y.ord
           /\ \E z \in fresh : z.ord = h.ord
           /\ RowAt(x, d, f)
    BY <2>1
  <2>3. Codex!Group(g, all) \subseteq all
    BY DEF Codex!Group
  <2>4. d \in all /\ Tells(d) /\ d.ord <= to /\ Located(d.ord, d.locator)
    BY <2>2, <2>3 DEF FromBatch, Shows
  <2>5. Tells(x) /\ x.ord <= to /\ Located(x.ord, x.alias) /\ x.ord = d.ord
    BY <2>2, <2>4 DEF Tells, RowAt
  <2>6. ASSUME x.ord <= from
        PROVE  \E c \in state.carry :
                 /\ PrimaryKey(c) = PrimaryKey(x)
                 /\ NamedBy(x, c.locator) /\ Says(x) = Says(c)
    <3>1. \A y \in all : y.ord \in Nat
      BY DEF FromBatch, Tells, FileInv
    <3>2. d \notin fresh
      BY <2>4, <2>5, <2>6, <3>1
    <3>3. h.ord > from
      BY <2>2
    <3>4. h # d
      BY <2>2, <2>3, <2>5, <2>6, <3>1, <3>3
    <3>5. f = d
      <4>1. SUFFICES ASSUME f # d PROVE FALSE
        OBVIOUS
      <4>2. \A y, z, w \in Codex!Group(g, all) : y = z \/ y = w \/ z = w
        BY GroupOf
      <4>3. f = h
        BY <2>2, <3>4, <4>1, <4>2
      <4>4. f.ord < d.ord
        BY <2>2, <4>1
      <4>5. QED
        BY <2>2, <2>3, <2>5, <2>6, <3>1, <3>3, <4>3, <4>4
    <3>6. d \in state.carry
      BY <2>4, <3>2
    <3>7. /\ PrimaryKey(d) = PrimaryKey(x) /\ NamedBy(x, d.locator)
          /\ Says(x) = Says(d)
      BY <2>2, <3>5 DEF PrimaryKey, NamedBy, RowAt
    <3>8. QED
      BY <3>6, <3>7
  <2>7. QED
    BY <2>5, <2>6 DEF RowOK
<1>2. Complete(rows, from + 1, to)
  <2>1. \A c \in fresh : \E x \in rows : x.ord = c.ord /\ x.class = c.class
    BY CodexRows
  <2> HIDE DEF rows
  <2>2. SUFFICES ASSUME NEW i \in (from + 1)..to, NEW class \in ClassesOf(i)
                 PROVE  \E x \in rows : x.ord = i /\ x.class = class
    BY DEF Complete
  <2>3. PICK c \in fresh : c.ord = i /\ c.class = class
    BY DEF Complete
  <2>4. QED
    BY <2>1, <2>3
<1>3. RowsPaired(rows)
  BY CodexPairs
<1>4. QED
  BY <1>1, <1>2, <1>3 DEF BatchRows

Finishes(parsed, read, state, s, k) ==
  LET all == Codex!Carried(state, k) \cup read.candidates
      next == parsed.state
  IN  /\ parsed.messages = CodexMessages(all, read.candidates)
      /\ parsed.notes = read.notes
      /\ next.epoch = read.ctx.epoch /\ next.seen = read.seen
      /\ next.session = s /\ next.kind = Codex!Established(state, k)
      /\ next.carry = IF k = next.kind
                      THEN Codex!Trailing(all, read.ctx.epoch) ELSE {}

LEMMA FinishFields ==
  ASSUME NEW read, NEW state, NEW s, NEW k, CodexAcc(read, s, k)
  PROVE  Finishes(Codex!Finish(read, state), read, state, s, k)
<1>1. read.ctx.kind = k /\ read.ctx.session = s
  BY DEF CodexAcc
<1>2. QED
  BY <1>1 DEF Finishes, Codex!Finish, Codex!Finished, CodexMessages,
              Codex!NextState

LEMMA CodexFinish ==
  ASSUME FileInv, provider = "codex", NEW from \in Nat, NEW to \in Nat,
         from <= to, NEW state, StateOK(state, from), NEW s, NEW k,
         s # NoId, k # Codex!NoKind, state.session \in {s, NoId},
         NEW read, CodexReadOK(read, s, k, from, to),
         MetaKnown(s, Codex!Established(state, k), to)
  PROVE  BatchOK(Codex!Finish(read, state), state, from, to)
<1> DEFINE all == Codex!Carried(state, k) \cup read.candidates
           fresh == read.candidates
           messages == CodexMessages(all, fresh)
           parsed == Codex!Finish(read, state)
           next == parsed.state
           trailing == Codex!Trailing(all, read.ctx.epoch)
<1>1. CodexAcc(read, s, k)
  BY DEF CodexReadOK
<1>2. /\ parsed.messages = messages /\ parsed.notes = read.notes
      /\ next.epoch = read.ctx.epoch /\ next.seen = read.seen
      /\ next.session = s /\ next.kind = Codex!Established(state, k)
      /\ next.carry = IF k = next.kind THEN trailing ELSE {}
  BY <1>1, FinishFields DEF Finishes
<1>3. /\ FromBatch(all, s, k, to)
      /\ \A c \in Codex!Carried(state, k) : c \in state.carry
      /\ \A c \in fresh : c.ord > from
  BY CodexAll
<1> HIDE DEF parsed, messages, all, trailing
<1>4. NotesOK(parsed.notes, Skips)
  BY <1>2 DEF CodexReadOK
<1>5. fresh \in SUBSET all /\ \A c \in all \ fresh : c \in state.carry
  BY <1>3 DEF all
<1>6. BatchRows(Rows(messages), state, from, to)
  <2>1. Complete(fresh, from + 1, to)
    BY DEF CodexReadOK
  <2> HIDE DEF fresh
  <2>2. QED
    BY <1>3, <1>5, <2>1, CodexRowsOK DEF messages
<1>7. ASSUME NEW c \in trailing
      PROVE  /\ c \in all /\ Codex!Projection(c) /\ c.class = "prose"
             /\ c.epoch = read.ctx.epoch /\ trailing = {c}
             /\ Names(c, Rows(messages))
             /\ Waits(c, to) /\ c.session = s /\ c.kind = k
  <2> HIDE DEF fresh
  <2> DEFINE epoch == read.ctx.epoch
  <2>1. c \in Codex!Trailing(all, epoch)
    BY DEF trailing
  <2> HIDE DEF epoch
  <2>2. /\ c \in all /\ Codex!Projection(c) /\ c.class = "prose"
        /\ c.epoch = epoch
        /\ Codex!Trailing(all, epoch) = {c}
        /\ Names(c, Rows(CodexMessages(all, fresh)))
    BY <1>3, <1>5, <2>1, CodexTrailing
  <2>3. c.session = s /\ c.kind = k
    BY <1>3, <2>2 DEF FromBatch
  <2>4. Waits(c, to)
    <3>1. epoch = Cardinality(Boundaries(to))
      BY DEF CodexReadOK, epoch
    <3>2. QED
      BY <1>3, <2>1, <3>1, CodexWaits
  <2>5. QED
    BY <2>2, <2>3, <2>4 DEF epoch, trailing, messages
<1>8. next.kind # Codex!NoKind
  BY <1>2 DEF Codex!Established
<1>9. Admissible(next)
  <2>1. (next.kind = Codex!NoKind) = (next.session = NoId)
    BY <1>2, <1>8
  <2>2. ASSUME NEW c \in next.carry
        PROVE  /\ Codex!Projection(c) /\ c.class = "prose"
               /\ c.epoch = next.epoch
               /\ c.session = next.session /\ c.kind = next.kind
               /\ next.carry = {c}
    <3>1. k = next.kind /\ next.carry = trailing
      BY <1>2
    <3>2. QED
      BY <1>2, <1>7, <3>1
  <2>3. QED
    BY <2>1, <2>2 DEF Admissible
<1>10. StateOK(next, to)
  <2>1. next.epoch = Cardinality(Boundaries(to)) /\ next.seen = Boundaries(to)
    BY <1>2 DEF CodexReadOK
  <2>2. \A c \in next.carry : Waits(c, to)
    BY <1>2, <1>7
  <2>3. MetaKnown(next.session, next.kind, to)
    BY <1>2
  <2>4. QED
    BY <1>9, <2>1, <2>2, <2>3 DEF StateOK
<1>11. OfSession(Rows(messages), next)
  <2>1. SUFFICES ASSUME NEW x \in Rows(messages)
                 PROVE  next.session # NoId /\ x.alias.session = next.session
    BY DEF OfSession
  <2> HIDE DEF fresh, next
  <2>2. PICK g \in all : \E f, d \in Codex!Group(g, all) : RowAt(x, d, f)
    BY <1>3, <1>5, <2>1, CodexRows DEF messages
  <2>3. PICK f, d \in Codex!Group(g, all) : RowAt(x, d, f)
    BY <2>2
  <2>4. d \in all
    BY DEF Codex!Group
  <2>5. x.alias = d.locator /\ d.locator.session = s
    BY <1>3, <2>3, <2>4 DEF RowAt, FromBatch, Shows
  <2>6. QED
    BY <1>2, <2>5 DEF next
<1>12. BatchState(next, Rows(messages), state, from, to)
  <2>1. ASSUME NEW c \in next.carry
        PROVE  Names(c, Rows(messages)) /\ (c.ord <= from => c \in state.carry)
    <3>1. c \in trailing
      BY <1>2
    <3>2. c \in all /\ c.ord \in Nat
      BY <1>7, <3>1 DEF Waits, Tells, FileInv
    <3>3. c.ord <= from => c \notin fresh
      BY <1>3, <3>2
    <3>4. QED
      BY <1>5, <1>7, <3>1, <3>2, <3>3
  <2>2. QED
    BY <1>2, <1>10, <1>11, <2>1 DEF BatchState
<1>13. BatchOK(parsed, state, from, to)
  BY <1>2, <1>4, <1>6, <1>12 DEF BatchOK, Established, BatchCwds
<1>14. QED
  BY <1>13 DEF parsed

(***************************************************************************)
(* Codex: the session a batch is read under.                               *)
(***************************************************************************)
LEMMA SameCount == \A S : Codex!Cardinality(S) = Cardinality(S)
BY DEF Codex!Cardinality, Cardinality

LEMMA NoMetas ==
  ASSUME NEW from \in Nat, NEW n \in Nat,
         \A i \in (from + 1)..(from + n) : file[i].type # "session_meta"
  PROVE  Codex!Metas(Envelopes(from, n)) = <<>>
<1> DEFINE envs == Envelopes(from, n)
           at == Codex!MetaPlaces(envs)
<1>1. DOMAIN envs = 1..n
  BY DEF Envelopes
<1>2. \A i \in 1..n : envs[i].rec = file[from + i]
  <2>1. SUFFICES ASSUME NEW i \in 1..n PROVE envs[i].rec = file[from + i]
    OBVIOUS
  <2>2. envs[i] = [ord |-> from + i, rec |-> file[from + i]]
    BY EnvelopesOf
  <2> HIDE DEF envs
  <2>3. QED
    BY <2>2
<1>3. \A i \in 1..n : from + i \in (from + 1)..(from + n)
  OBVIOUS
<1>4. at = {}
  BY <1>1, <1>2, <1>3 DEF Codex!MetaPlaces
<1>5. Codex!Cardinality(at) = 0
  BY <1>4, SameCount, FS_EmptySet
<1>6. Codex!Metas(envs) = [k \in 1..0 |-> envs[Codex!Nth(k, at)]]
  BY <1>5 DEF Codex!Metas
<1> HIDE DEF envs, at
<1>7. [k \in 1..0 |-> envs[Codex!Nth(k, at)]] = <<>>
  OBVIOUS
<1>8. QED
  BY <1>6, <1>7 DEF envs

LEMMA FirstMeta ==
  ASSUME NEW from \in Nat, NEW n \in Nat, n # 0,
         file[from + 1].type = "session_meta",
         \A i \in (from + 2)..(from + n) : file[i].type # "session_meta"
  PROVE  Codex!Metas(Envelopes(from, n)) =
           <<[ord |-> from + 1, rec |-> file[from + 1]]>>
<1> DEFINE envs == Envelopes(from, n)
           at == Codex!MetaPlaces(envs)
           first == [ord |-> from + 1, rec |-> file[from + 1]]
<1>1. DOMAIN envs = 1..n
  BY DEF Envelopes
<1>2. \A i \in 1..n : envs[i].rec = file[from + i]
  <2>1. SUFFICES ASSUME NEW i \in 1..n PROVE envs[i].rec = file[from + i]
    OBVIOUS
  <2>2. envs[i] = [ord |-> from + i, rec |-> file[from + i]]
    BY EnvelopesOf
  <2> HIDE DEF envs
  <2>3. QED
    BY <2>2
<1>3. \A i \in 1..n : i # 1 => from + i \in (from + 2)..(from + n)
  OBVIOUS
<1>4. at = {1}
  BY <1>1, <1>2, <1>3 DEF Codex!MetaPlaces
<1>5. Codex!Cardinality(at) = 1
  BY <1>4, SameCount, FS_Singleton
<1>6. Codex!Nth(1, at) = 1
  <2>1. {j \in at : j <= 1} = {1}
    BY <1>4
  <2>2. Codex!Cardinality({j \in at : j <= 1}) = 1
    BY <2>1, SameCount, FS_Singleton
  <2> HIDE DEF at
  <2>3. Codex!Nth(1, at) \in at
    BY <1>4, <2>2 DEF Codex!Nth
  <2>4. QED
    BY <1>4, <2>3
<1>7. envs[1] = first
  BY EnvelopesOf
<1>8. Codex!Metas(envs) = [k \in 1..1 |-> envs[Codex!Nth(k, at)]]
  BY <1>5 DEF Codex!Metas
<1> HIDE DEF envs, at, first
<1>9. [k \in 1..1 |-> envs[Codex!Nth(k, at)]] = <<first>>
  BY <1>6, <1>7
<1>10. QED
  BY <1>8, <1>9 DEF envs, first

LEMMA ResolvedByOne ==
  ASSUME NEW e, NEW established
  PROVE  Codex!ResolvedSession(<<e>>, established) =
           IF established \in {NoId, Codex!MetaIdentity(e.rec)}
           THEN Codex!MetaIdentity(e.rec) ELSE NoId
<1> DEFINE metas == <<e>>
<1>1. metas # <<>> /\ Len(metas) = 1 /\ metas[1] = e
  OBVIOUS
<1> HIDE DEF metas
<1>2. Codex!Unattested(metas) = {}
  BY <1>1 DEF Codex!Unattested
<1>3. Codex!ObservedSession(metas) = Codex!MetaIdentity(e.rec)
  BY <1>1, <1>2 DEF Codex!ObservedSession
<1>4. Codex!ResolvedSession(metas, established) =
        IF established \in {NoId, Codex!MetaIdentity(e.rec)}
        THEN Codex!MetaIdentity(e.rec) ELSE NoId
  BY <1>1, <1>3 DEF Codex!ResolvedSession, Codex!NoId, NoId
<1>5. QED
  BY <1>4 DEF metas

(* The session and the kind that a batch is read under.                    *)
BatchSession(state, from, n) ==
  Codex!ResolvedSession(Codex!Metas(Envelopes(from, n)), state.session)
BatchKind(state, from, n) ==
  Codex!ContinuedKind(Codex!Metas(Envelopes(from, n)), state.kind).kind
Identified(state, from, n) == BatchSession(state, from, n) # NoId

(* A batch continues what is known by the session_meta of the file.        *)
LEMMA CodexKnown ==
  ASSUME FileInv, provider = "codex", NEW from \in Nat, NEW n \in Nat,
         n # 0, from + n <= Len(file), NEW state, StateOK(state, from),
         OneMetaTo(from + n)
  PROVE  /\ state.session # NoId => Identified(state, from, n)
         /\ Identified(state, from, n) =>
              LET kind == BatchKind(state, from, n)
              IN  /\ kind = MetaKind(file[1])
                  /\ Codex!Established(state, kind) = kind
                  /\ MetaKnown(BatchSession(state, from, n), kind, from + n)
         /\ /\ from = 0 /\ file[1].type = "session_meta"
            /\ Codex!MetaIdentity(file[1]) # NoId
            => Identified(state, from, n)
<1> DEFINE metas == Codex!Metas(Envelopes(from, n))
           session == BatchSession(state, from, n)
           kind == BatchKind(state, from, n)
           K == MetaKind(file[1])
<1> SUFFICES /\ state.session # NoId => session # NoId
             /\ session # NoId => /\ kind = K
                                  /\ Codex!Established(state, kind) = kind
                                  /\ MetaKnown(session, kind, from + n)
             /\ /\ from = 0 /\ file[1].type = "session_meta"
                /\ Codex!MetaIdentity(file[1]) # NoId
                => session # NoId
  BY DEF Identified
<1>1. /\ session = Codex!ResolvedSession(metas, state.session)
      /\ kind = Codex!ContinuedKind(metas, state.kind).kind
  BY DEF BatchSession, BatchKind
<1> HIDE DEF session, kind
<1>2. /\ Admissible(state) /\ MetaKnown(state.session, state.kind, from)
      /\ K # Codex!NoKind
      /\ \A kd : Codex!Established(state, kd) =
           IF state.kind \in {Codex!NoKind, "unknown"} THEN kd ELSE state.kind
  BY DEF StateOK, MetaKind, Codex!NoKind, Codex!Established
<1>3. CASE from # 0
  <2>1. \A i \in (from + 1)..(from + n) : i \in 2..(from + n)
    BY <1>3
  <2>2. metas = <<>>
    BY <2>1, NoMetas DEF OneMetaTo
  <2>3. session = state.session
    BY <1>1, <2>2 DEF Codex!ResolvedSession
  <2>4. \A i \in 2..from : i \in 2..(from + n)
    OBVIOUS
  <2>5. state.session # NoId =>
          /\ file[1].type = "session_meta"
          /\ state.session = Codex!MetaIdentity(file[1])
          /\ state.kind = K
    BY <1>2, <2>4 DEF MetaKnown, OneMetaTo
  <2>6. state.session # NoId => kind = K
    BY <1>2, <1>1, <2>2, <2>5 DEF Codex!ContinuedKind
  <2>7. from + n # 0
    BY <1>3
  <2>8. QED
    BY <1>2, <1>3, <2>3, <2>5, <2>6, <2>7 DEF MetaKnown
<1>4. CASE from = 0
  <2>1. state.session = NoId /\ state.kind = Codex!NoKind
    <3>1. OneMetaTo(0)
      BY DEF OneMetaTo
    <3>2. state.session = NoId
      BY <1>2, <1>4, <3>1 DEF MetaKnown
    <3>3. QED
      BY <1>2, <3>2 DEF Admissible
  <2>2. CASE file[1].type = "session_meta"
    <3> DEFINE first == [ord |-> from + 1, rec |-> file[from + 1]]
    <3>1. metas = <<first>>
      <4>1. from + 1 = 1 /\ from + 2 = 2 /\ from + n = n
        BY <1>4
      <4>2. file[from + 1].type = "session_meta"
        BY <2>2, <4>1
      <4>3. \A i \in (from + 2)..(from + n) : file[i].type # "session_meta"
        BY <4>1 DEF OneMetaTo
      <4> HIDE DEF metas
      <4>4. Codex!Metas(Envelopes(from, n)) = <<first>>
        BY <4>2, <4>3, FirstMeta
      <4>5. QED
        BY <4>4 DEF metas
    <3>2. first.rec = file[1]
      BY <1>4
    <3> HIDE DEF first
    <3>3. session = Codex!MetaIdentity(file[1])
      BY <1>1, <2>1, <3>1, <3>2, ResolvedByOne
    <3>4. kind = K
      <4>1. metas # <<>> /\ metas[1] = first
        BY <3>1
      <4> HIDE DEF metas
      <4>2. Codex!FirstKind(metas).kind = K
        BY <3>2, <4>1 DEF Codex!FirstKind, MetaKind, Codex!UnknownKind
      <4>3. kind = Codex!FirstKind(metas).kind
        BY <1>1, <2>1, <4>1 DEF Codex!ContinuedKind
      <4>4. QED
        BY <4>2, <4>3
    <3>5. from + n # 0
      BY <1>4
    <3>6. QED
      BY <1>2, <2>1, <2>2, <3>3, <3>4, <3>5 DEF MetaKnown
  <2>3. CASE file[1].type # "session_meta"
    <3>1. \A i \in (from + 1)..(from + n) : i = 1 \/ i \in 2..(from + n)
      BY <1>4
    <3>2. metas = <<>>
      BY <2>3, <3>1, NoMetas DEF OneMetaTo
    <3>3. session = NoId
      BY <1>1, <2>1, <3>2 DEF Codex!ResolvedSession
    <3>4. QED
      BY <2>1, <2>3, <3>3
  <2>4. QED
    BY <2>2, <2>3
<1>5. QED
  BY <1>3, <1>4

(* A batch whose session is not identified is not staged, whether unknown  *)
(* shapes are ignored or not.                                              *)
LEMMA CodexUnresolved ==
  ASSUME provider = "codex", NEW decoded, NEW metas, NEW notes, NEW state,
         NEW ignoring
  PROVE  Blocked(Codex!Unresolved(decoded, metas, notes, state), ignoring)
<1> DEFINE parsed == Codex!Unresolved(decoded, metas, notes, state)
           at == Codex!Unidentified(decoded, metas)
           code == "unsupported_session_identity"
<1>1. \E n : n \in at
  <2> DEFINE first == metas[1]
             others == Codex!Unattested(metas)
  <2>1. \/ at = {0} \/ at = {first.ord} \/ at = {decoded[1].ord}
        \/ at = {e.ord : e \in others} /\ others # {}
    BY DEF Codex!Unidentified
  <2>2. others # {} => \E n : n \in {e.ord : e \in others}
    OBVIOUS
  <2> HIDE DEF at, others, first
  <2>3. QED
    BY <2>1, <2>2
<1>2. PICK n : n \in at
  BY <1>1
<1>3. [ord |-> n, code |-> code] \in parsed.notes
  <2> HIDE DEF at
  <2>1. parsed.notes = notes \cup [ord : at, code : {code}]
    BY DEF Codex!Unresolved, at
  <2>2. QED
    BY <1>2, <2>1
<1>4. code \in Codes(parsed.notes)
  BY <1>3 DEF Codes
<1>5. code \in BlockingCodes(ignoring)
  BY DEF BlockingCodes, UnsupportedCodes, UnknownShapeCodes
<1>6. QED
  BY <1>4, <1>5 DEF Blocked

LEMMA CodexIdentified ==
  ASSUME provider = "codex", NEW from, NEW n, NEW state, NEW ignoring,
         ~Blocked(Codex!Parse(Envelopes(from, n), state), ignoring)
  PROVE  Identified(state, from, n)
<1> DEFINE envs == Envelopes(from, n)
           metas == Codex!Metas(envs)
           kind == Codex!ContinuedKind(metas, state.kind)
           session == Codex!ResolvedSession(metas, state.session)
           notes == Codex!DecodeNotes(envs) \cup Codex!KindNotes(kind, metas)
           parsed == Codex!Parse(envs, state)
<1>1. parsed = Codex!ParseAs(session, kind.kind, envs, metas, notes, state)
  BY DEF Codex!Parse, Codex!ParseRecords
<1> HIDE DEF notes, metas, kind, session, parsed, envs
<1>2. ASSUME session = NoId PROVE FALSE
  <2>1. parsed = Codex!Unresolved(Codex!Decoded(envs), metas, notes, state)
    BY <1>1, <1>2 DEF Codex!ParseAs, Codex!NoId, NoId
  <2>2. Blocked(parsed, ignoring)
    BY <2>1, CodexUnresolved
  <2>3. QED
    BY <2>2 DEF parsed, envs
<1>3. QED
  BY <1>2 DEF Identified, BatchSession, session, metas, envs

LEMMA CodexNotes ==
  ASSUME provider = "codex", NEW from \in Nat, NEW n \in Nat,
         NEW kind, NEW metas
  PROVE  NotesOK(Codex!DecodeNotes(Envelopes(from, n))
                   \cup Codex!KindNotes(kind, metas), Skips)
<1> DEFINE envs == Envelopes(from, n)
<1>1. ASSUME NEW d \in Codex!DecodeNotes(envs) PROVE ClassesOf(d.ord) = {}
  <2>1. PICK e \in Codex!ToSet(envs) :
          /\ e.rec.type \in Codex!Undecoded
          /\ d = Codex!Note(e, Codex!DecodeCode(e.rec.type))
    BY DEF Codex!DecodeNotes
  <2>2. PICK i \in 1..n : e = [ord |-> from + i, rec |-> file[from + i]]
    <3>1. DOMAIN envs = 1..n
      BY DEF Envelopes
    <3>2. PICK i \in 1..n : e = envs[i]
      BY <3>1 DEF Codex!ToSet
    <3>3. QED
      BY <3>2, EnvelopesOf
  <2>3. d.ord = e.ord
    BY <2>1 DEF Codex!Note
  <2>4. file[d.ord].type \in Codex!Undecoded
    BY <2>1, <2>2, <2>3
  <2>5. QED
    BY <2>4 DEF ClassesOf, Decoded
<1>2. \A d \in Codex!KindNotes(kind, metas) : d.code \notin Skips
  BY DEF Codex!KindNotes, Codex!Note, Skips
<1>3. QED
  BY <1>1, <1>2 DEF NotesOK

(* The records of a batch, read under its session and kind.                *)
LEMMA CodexVisited ==
  ASSUME FileInv, provider = "codex", NEW from \in Nat, NEW n \in Nat,
         from + n <= Len(file), NEW state, StateOK(state, from),
         Identified(state, from, n)
  PROVE  LET s == BatchSession(state, from, n)
             k == BatchKind(state, from, n)
         IN  /\ k # Codex!NoKind /\ state.session \in {s, NoId}
             /\ \E read : /\ CodexReadOK(read, s, k, from, from + n)
                          /\ Codex!Parse(Envelopes(from, n), state) =
                               Codex!Finish(read, state)
<1> DEFINE envs == Envelopes(from, n)
           metas == Codex!Metas(envs)
           kind == Codex!ContinuedKind(metas, state.kind)
           session == Codex!ResolvedSession(metas, state.session)
           notes == Codex!DecodeNotes(envs) \cup Codex!KindNotes(kind, metas)
           parsed == Codex!Parse(envs, state)
           ctx == [session |-> session, kind |-> kind.kind,
                   epoch |-> state.epoch, cwd |-> Codex!BatchCwd(envs)]
           read == Codex!Visit(envs, ctx, notes, state)
<1>1. parsed = Codex!ParseAs(session, kind.kind, envs, metas, notes, state)
  BY DEF Codex!Parse, Codex!ParseRecords
<1>2. session # NoId
  BY DEF Identified, BatchSession
<1>3. state.session \in {session, NoId}
  BY <1>2 DEF Codex!ResolvedSession, Codex!NoId, NoId
<1>4. kind.kind # Codex!NoKind
  BY DEF Codex!ContinuedKind, Codex!FirstKind, Codex!UnknownKind,
         Codex!NoKind
<1>5. NotesOK(notes, Skips)
  BY CodexNotes
<1>6. parsed = Codex!Finish(read, state)
  BY <1>1, <1>2 DEF Codex!ParseAs, Codex!ParseUnder, Codex!NoId, NoId
<1>7. CodexReadOK(read, session, kind.kind, from, from + n)
  <2> DEFINE cwd == Codex!BatchCwd(envs)
             k == kind.kind
  <2> HIDE DEF session, k, notes, cwd
  <2>1. CodexReadOK(
          Codex!Visit(Envelopes(from, n),
                      [session |-> session, kind |-> k,
                       epoch |-> state.epoch, cwd |-> cwd], notes, state),
          session, k, from, from + n)
    BY <1>5, CodexVisit
  <2>2. QED
    BY <2>1 DEF k, cwd
<1>8. /\ session = BatchSession(state, from, n)
      /\ kind.kind = BatchKind(state, from, n)
  BY DEF BatchSession, BatchKind
<1> HIDE DEF read, session, kind
<1>9. /\ CodexReadOK(read, session, kind.kind, from, from + n)
      /\ Codex!Parse(Envelopes(from, n), state) = Codex!Finish(read, state)
  BY <1>6, <1>7
<1> HIDE DEF parsed, envs
<1>10. QED
  BY <1>3, <1>4, <1>8, <1>9

LEMMA CodexBatch ==
  ASSUME FileInv, provider = "codex", NEW from \in Nat, NEW n \in Nat,
         n # 0, from + n <= Len(file), NEW state, StateOK(state, from),
         Identified(state, from, n)
  PROVE  BatchOK(Codex!Parse(Envelopes(from, n), state), state,
                 from, from + n)
<1> DEFINE session == BatchSession(state, from, n)
           k == BatchKind(state, from, n)
           to == from + n
<1>1. /\ k # Codex!NoKind /\ state.session \in {session, NoId}
      /\ \E read : /\ CodexReadOK(read, session, k, from, to)
                   /\ Codex!Parse(Envelopes(from, n), state) =
                        Codex!Finish(read, state)
  BY CodexVisited
<1>2. session # NoId
  BY DEF Identified
<1>3. to \in Nat /\ from <= to
  OBVIOUS
<1>4. MetaKnown(session, Codex!Established(state, k), to)
  <2>1. CASE OneMetaTo(to)
    BY <2>1, CodexKnown
  <2>2. CASE ~OneMetaTo(to)
    BY <2>2 DEF MetaKnown
  <2>3. QED
    BY <2>1, <2>2
<1> HIDE DEF session, k, to
<1>5. PICK read : /\ CodexReadOK(read, session, k, from, to)
                  /\ Codex!Parse(Envelopes(from, n), state) =
                       Codex!Finish(read, state)
  BY <1>1
<1>6. BatchOK(Codex!Finish(read, state), state, from, to)
  BY <1>1, <1>2, <1>3, <1>4, <1>5, CodexFinish
<1>7. QED
  BY <1>5, <1>6 DEF to

(***************************************************************************)
(* Claude: one record.                                                     *)
(***************************************************************************)
(* Content is of the three classes, and what it leaves out on the way is   *)
(* no reason to leave the record out.                                      *)
LEMMA ClaudeContent ==
  ASSUME NEW c, NEW user
  PROVE  LET content == Claude!Content(c, user)
         IN  /\ \A x \in content.rows : x.class \in RowClasses
             /\ content.codes \cap Skips = {}
<1> DEFINE content == Claude!Content(c, user)
<1>1. \A lines : Claude!RepairCodes(lines) \cap Skips = {}
  BY DEF Claude!RepairCodes, Skips
<1>2. CASE c.form = "string"
  <2>1. content = Claude!StringContent(c.spans, user)
    BY <1>2 DEF Claude!Content
  <2>2. /\ \A x \in content.rows : x.class \in RowClasses
        /\ content.codes \cap Skips = {}
    <3> DEFINE said == Claude!Spoken(c.spans, user)
    <3>1. CASE Claude!SomeText(said)
      <4>1. content =
              Claude!Emitted({[class |-> "prose",
                               text |-> Claude!Joined(said)]},
                             Claude!RepairCodes(said))
        BY <2>1, <3>1 DEF Claude!StringContent
      <4> HIDE DEF content, said
      <4>2. QED
        BY <1>1, <4>1 DEF Claude!Emitted, RowClasses
    <3>2. CASE ~Claude!SomeText(said)
      <4>1. \E code \in {"excluded_injected", "empty_content"} :
              content = Claude!Silent(code)
        BY <2>1, <3>2 DEF Claude!StringContent
      <4> HIDE DEF content
      <4>2. QED
        BY <4>1 DEF Claude!Silent, Claude!Emitted, Skips
    <3>3. QED
      BY <3>1, <3>2
  <2>3. QED
    BY <2>2
<1>3. CASE c.form = "blocks"
  <2> DEFINE b == c.blocks
             prose == Claude!Prose(b, user)
             tools == Claude!ToolBlocks(b)
             rows == (IF Claude!SomeText(prose)
                      THEN Claude!Rows("prose", prose) ELSE {})
                       \cup Claude!Rows("tool_name", Claude!Names(tools))
                       \cup Claude!Rows("tool_input", Claude!Inputs(tools))
  <2>1. content = Claude!BlockContent(b, user)
    BY <1>3 DEF Claude!Content
  <2>2. \A class \in RowClasses : \A lines :
          \A x \in Claude!Rows(class, lines) : x.class \in RowClasses
    BY DEF Claude!Rows
  <2>3. \A x \in rows : x.class \in RowClasses
    BY <2>2 DEF RowClasses
  <2>4. Claude!OtherCodes(b) \cap Skips = {}
    BY DEF Claude!OtherCodes, Claude!BlockCode, Skips
  <2>5. \E lines : \E more \in SUBSET {"empty_content", "excluded_injected"} :
          content = Claude!Emitted(rows, (Claude!OtherCodes(b)
                                   \cup Claude!RepairCodes(lines)) \cup more)
    <3> DEFINE lines == prose \o Claude!Names(tools) \o Claude!Inputs(tools)
               reminded == \E x \in Claude!ToSet(Claude!TextBlocks(b)) :
                             Claude!Reminded(x.spans, user)
               empty == \/ b = <<>>
                        \/ /\ Claude!Kept(b, user) # <<>>
                           /\ ~Claude!SomeText(prose)
               one == {x \in {"empty_content"} : empty}
               two == {x \in {"excluded_injected"} : reminded /\ rows = {}}
    <3>1. content = Claude!Emitted(rows,
                      Claude!OtherCodes(b) \cup Claude!RepairCodes(lines)
                        \cup one \cup two)
      BY <2>1 DEF Claude!BlockContent
    <3>2. one \cup two \in SUBSET {"empty_content", "excluded_injected"}
      OBVIOUS
    <3> HIDE DEF one, two, rows, lines, content
    <3>3. (Claude!OtherCodes(b) \cup Claude!RepairCodes(lines))
             \cup (one \cup two) =
          Claude!OtherCodes(b) \cup Claude!RepairCodes(lines)
             \cup one \cup two
      OBVIOUS
    <3>4. QED
      BY <3>1, <3>2, <3>3
  <2> HIDE DEF content, rows, prose, tools
  <2> DEFINE AllCodes(l, more) ==
               (Claude!OtherCodes(b) \cup Claude!RepairCodes(l)) \cup more
             Optional == SUBSET {"empty_content", "excluded_injected"}
  <2>6. PICK lines : \E more \in Optional :
          content = Claude!Emitted(rows, AllCodes(lines, more))
    BY <2>5
  <2>7. PICK more \in Optional :
          content = Claude!Emitted(rows, AllCodes(lines, more))
    BY <2>6
  <2>8. "empty_content" \notin Skips /\ "excluded_injected" \notin Skips
    BY DEF Skips
  <2>9. content.rows = rows /\ content.codes = AllCodes(lines, more)
    BY <2>7 DEF Claude!Emitted
  <2>10. content.codes \cap Skips = {}
    BY <1>1, <2>4, <2>8, <2>9
  <2>11. QED
    BY <2>3, <2>9, <2>10 DEF content
<1>4. CASE c.form \notin {"string", "blocks"}
  <2>1. content = Claude!Silent("unknown_content_block")
    BY <1>4 DEF Claude!Content
  <2>2. QED
    BY <2>1 DEF Claude!Silent, Claude!Emitted, Skips
<1>5. QED
  BY <1>2, <1>3, <1>4

ClaudeAcc(acc) ==
  /\ DOMAIN acc = {"ctx", "seen", "messages", "boundaries", "notes"}
  /\ "epoch" \in DOMAIN acc.ctx /\ "session" \in DOMAIN acc.ctx

ClaudeReads(next, acc, e, shapes) ==
  /\ ClaudeAcc(next) /\ next.ctx.session = acc.ctx.session
  /\ next.messages =
       acc.messages \cup Claude!Messages(e, e.rec.role, shapes, acc.ctx)
  /\ NotesOf(next.notes, acc.notes, e.ord, Skips, shapes)

LEMMA ClaudeNoted ==
  ASSUME NEW acc, NEW e, NEW codes, ClaudeAcc(acc)
  PROVE  LET next == Claude!Noted(acc, e, codes)
         IN  /\ DOMAIN next = DOMAIN acc
             /\ next.ctx = acc.ctx /\ next.seen = acc.seen
             /\ next.messages = acc.messages
             /\ \A d \in next.notes : \/ d \in acc.notes
                                      \/ d.ord = e.ord /\ d.code \in codes
<1> DEFINE next == Claude!Noted(acc, e, codes)
<1>1. next = [acc EXCEPT !.notes = @ \cup Claude!Notes(e, codes)]
  BY DEF Claude!Noted
<1>2. \A d \in Claude!Notes(e, codes) : d.ord = e.ord /\ d.code \in codes
  BY DEF Claude!Notes, Claude!Note
<1> HIDE DEF next
<1>3. /\ DOMAIN next = DOMAIN acc
      /\ next.ctx = acc.ctx /\ next.seen = acc.seen
      /\ next.messages = acc.messages
      /\ next.notes = acc.notes \cup Claude!Notes(e, codes)
  BY <1>1 DEF ClaudeAcc
<1>4. QED
  BY <1>2, <1>3 DEF next

LEMMA ClaudeSilent ==
  ASSUME NEW acc, NEW e, NEW codes, ClaudeAcc(acc)
  PROVE  /\ ClaudeReads(Claude!Noted(acc, e, codes), acc, e, {})
         /\ SameEpoch(Claude!Noted(acc, e, codes), acc)
<1> DEFINE next == Claude!Noted(acc, e, codes)
<1>1. /\ DOMAIN next = DOMAIN acc
      /\ next.ctx = acc.ctx /\ next.seen = acc.seen
      /\ next.messages = acc.messages
      /\ \A d \in next.notes : \/ d \in acc.notes
                               \/ d.ord = e.ord /\ d.code \in codes
  BY ClaudeNoted
<1>2. Claude!Messages(e, e.rec.role, {}, acc.ctx) = {}
  BY DEF Claude!Messages
<1> HIDE DEF next
<1>3. QED
  BY <1>1, <1>2 DEF ClaudeReads, ClaudeAcc, SameEpoch, NotesOf, next

LEMMA ClaudeSaid ==
  ASSUME NEW acc, NEW e, ClaudeAcc(acc)
  PROVE  /\ ClaudeReads(Claude!Said(acc, e, e.rec.role), acc, e,
              Claude!Content(e.rec.content, e.rec.role = "user").rows)
         /\ SameEpoch(Claude!Said(acc, e, e.rec.role), acc)
<1> DEFINE role == e.rec.role
           content == Claude!Content(e.rec.content, role = "user")
           noted == Claude!Noted(acc, e, content.codes)
           next == Claude!Said(acc, e, role)
<1>1. content.codes \cap Skips = {}
  BY ClaudeContent
<1> HIDE DEF content
<1>2. /\ DOMAIN noted = DOMAIN acc
      /\ noted.ctx = acc.ctx /\ noted.seen = acc.seen
      /\ noted.messages = acc.messages
      /\ \A d \in noted.notes :
           \/ d \in acc.notes
           \/ d.ord = e.ord /\ d.code \in content.codes
  BY ClaudeNoted
<1>3. next = [noted EXCEPT
                !.messages = @ \cup Claude!Messages(e, role, content.rows,
                                                    acc.ctx)]
  BY DEF Claude!Said, content
<1> HIDE DEF noted, next
<1>4. /\ DOMAIN next = DOMAIN noted
      /\ next.ctx = noted.ctx /\ next.seen = noted.seen
      /\ next.notes = noted.notes
      /\ next.messages = noted.messages
           \cup Claude!Messages(e, role, content.rows, acc.ctx)
  BY <1>2, <1>3 DEF ClaudeAcc
<1>5. NotesOf(next.notes, acc.notes, e.ord, Skips, content.rows)
  BY <1>1, <1>2, <1>4 DEF NotesOf
<1>6. /\ ClaudeReads(next, acc, e, content.rows) /\ SameEpoch(next, acc)
  BY <1>2, <1>4, <1>5 DEF ClaudeReads, ClaudeAcc, SameEpoch
<1>7. QED
  BY <1>6 DEF next, content

LEMMA ClaudeCompact ==
  ASSUME NEW acc, NEW e, ClaudeAcc(acc)
  PROVE  /\ ClaudeReads(Claude!Compact(acc, e), acc, e, {})
         /\ IF \/ ~e.rec.good \/ e.rec.uuid = Claude!NoId
               \/ e.rec.uuid \in acc.seen
            THEN SameEpoch(Claude!Compact(acc, e), acc)
            ELSE NextEpoch(Claude!Compact(acc, e), acc, e.rec.uuid)
<1> DEFINE next == Claude!Compact(acc, e)
           met == \/ ~e.rec.good \/ e.rec.uuid = Claude!NoId
                  \/ e.rec.uuid \in acc.seen
<1>1. CASE met
  <2>1. \E codes : next = Claude!Noted(acc, e, codes)
    BY <1>1 DEF Claude!Compact, Claude!HasUuid
  <2>2. QED
    BY <1>1, <2>1, ClaudeSilent
<1>2. CASE ~met
  <2>1. next = [acc EXCEPT !.seen = @ \cup {e.rec.uuid},
                  !.ctx.epoch = @ + 1,
                  !.boundaries = @ \cup {<<e.ord, acc.ctx.epoch + 1>>}]
    BY <1>2 DEF Claude!Compact, Claude!HasUuid
  <2> HIDE DEF next
  <2>2. /\ DOMAIN next = DOMAIN acc
        /\ next.ctx = [acc.ctx EXCEPT !.epoch = @ + 1]
        /\ next.seen = acc.seen \cup {e.rec.uuid}
        /\ next.messages = acc.messages
        /\ next.notes = acc.notes
    BY <2>1 DEF ClaudeAcc
  <2>3. /\ DOMAIN next.ctx = DOMAIN acc.ctx
        /\ next.ctx.epoch = acc.ctx.epoch + 1
        /\ next.ctx.session = acc.ctx.session
    BY <2>2 DEF ClaudeAcc
  <2>4. Claude!Messages(e, e.rec.role, {}, acc.ctx) = {}
    BY DEF Claude!Messages
  <2>5. QED
    BY <1>2, <2>2, <2>3, <2>4
       DEF ClaudeReads, NextEpoch, ClaudeAcc, NotesOf, next
<1>3. QED
  BY <1>1, <1>2

LEMMA ClaudeRecord ==
  ASSUME NEW acc, NEW e, ClaudeAcc(acc)
  PROVE  /\ ClaudeReads(Claude!Record(acc, e), acc, e, ClaudeShapes(e.rec))
         /\ IF ClaudeBoundary(e.rec) /\ e.rec.uuid \notin acc.seen
            THEN NextEpoch(Claude!Record(acc, e), acc, e.rec.uuid)
            ELSE SameEpoch(Claude!Record(acc, e), acc)
<1> DEFINE r == e.rec
           next == Claude!Record(acc, e)
           said == {"legacy", "user", "assistant"}
<1>1. /\ said \cap Claude!Undecoded = {} /\ "metadata" \notin said
      /\ "system" \notin said \cup Claude!Undecoded
  BY DEF Claude!Undecoded
<1>2. CASE r.type \in Claude!Undecoded
  <2>1. next = acc
    BY <1>2 DEF Claude!Record, Claude!Undecoded, Claude!KnownMetadata,
                Claude!Legacy
  <2>2. ClaudeShapes(r) = {} /\ ~ClaudeBoundary(r)
    BY <1>1, <1>2 DEF ClaudeShapes, ClaudeBoundary, Claude!Legacy
  <2>3. Claude!Messages(e, r.role, {}, acc.ctx) = {}
    BY DEF Claude!Messages
  <2>4. QED
    BY <2>1, <2>2, <2>3 DEF NotesOf, ClaudeReads, SameEpoch
<1>3. CASE Claude!Legacy(r)
  <2>1. next = Claude!Said(acc, e, r.role)
    BY <1>3 DEF Claude!Record, Claude!Undecoded, Claude!KnownMetadata,
                Claude!Legacy
  <2>2. /\ ClaudeShapes(r) = Claude!Content(r.content, r.role = "user").rows
        /\ ~ClaudeBoundary(r)
    BY <1>3 DEF ClaudeShapes, ClaudeBoundary, Claude!Legacy
  <2>3. QED
    BY <2>1, <2>2, ClaudeSaid
<1>4. CASE /\ r.type \in {"user", "assistant"}
           /\ Claude!Refusal(r) = Claude!NoId
  <2>1. next = Claude!Said(acc, e, r.role)
    BY <1>4 DEF Claude!Record, Claude!Undecoded, Claude!KnownMetadata,
                Claude!Legacy
  <2>2. /\ ClaudeShapes(r) = Claude!Content(r.content, r.role = "user").rows
        /\ ~ClaudeBoundary(r)
    BY <1>4 DEF ClaudeShapes, ClaudeBoundary
  <2>3. QED
    BY <2>1, <2>2, ClaudeSaid
<1>5. CASE r.type = "system" /\ r.subtype = "compact_boundary"
  <2>1. next = Claude!Compact(acc, e)
    BY <1>5 DEF Claude!Record, Claude!Undecoded, Claude!KnownMetadata,
                Claude!Legacy
  <2>2. /\ ClaudeShapes(r) = {}
        /\ ClaudeBoundary(r) <=> r.good /\ r.uuid # Claude!NoId
    BY <1>5 DEF ClaudeShapes, ClaudeBoundary, Claude!Legacy, Claude!NoId,
                NoId
  <2>3. QED
    BY <2>1, <2>2, ClaudeCompact
<1>6. CASE /\ r.type \notin Claude!Undecoded /\ ~Claude!Legacy(r)
           /\ ~(/\ r.type \in {"user", "assistant"}
                /\ Claude!Refusal(r) = Claude!NoId)
           /\ ~(r.type = "system" /\ r.subtype = "compact_boundary")
  <2>1. \E codes : next = Claude!Noted(acc, e, codes)
    BY <1>6 DEF Claude!Record, Claude!KnownMetadata
  <2>2. ClaudeShapes(r) = {} /\ ~ClaudeBoundary(r)
    BY <1>6 DEF ClaudeShapes, ClaudeBoundary
  <2>3. QED
    BY <2>1, <2>2, ClaudeSilent
<1>7. QED
  BY <1>2, <1>3, <1>4, <1>5, <1>6

LEMMA ClaudeMessages ==
  ASSUME NEW e, NEW role, NEW rows, NEW ctx
  PROVE  /\ \A m \in Claude!Messages(e, role, rows, ctx) :
              /\ \E row \in rows : m.class = row.class /\ m.text = row.text
              /\ m.epoch = ctx.epoch /\ m.time = e.rec.time
              /\ m.role = role /\ m.cwd = e.rec.cwd
              /\ m.aliases # {} /\ m.id = LogicalId(m.locator)
              /\ m.locator = IdLocator(ctx.session, e.rec.uuid)
              /\ \A a \in m.aliases : a.ord = e.ord /\ a.locator = m.locator
         /\ \A row \in rows : \E m \in Claude!Messages(e, role, rows, ctx) :
              m.class = row.class
<1> DEFINE locator == Claude!IdLocator(ctx.session, e.rec.uuid)
           alias == Claude!Alias(e.ord, locator)
           aliases == {alias}
<1>1. alias.ord = e.ord /\ alias.locator = locator
  BY DEF Claude!Alias
<1>2. locator = IdLocator(ctx.session, e.rec.uuid)
  BY DEF Claude!IdLocator, IdLocator
<1> HIDE DEF alias, locator
<1>3. Claude!Canonical(aliases) = alias
  <2>1. \A a \in aliases : (\A b \in aliases : a.ord <= b.ord) => a = alias
    OBVIOUS
  <2>2. Claude!Canonical(aliases) \in aliases
    BY DEF Claude!Canonical
  <2>3. QED
    BY <2>2
<1>4. /\ Claude!Identity(aliases).aliases = aliases
      /\ Claude!Identity(aliases).locator = locator
      /\ Claude!Identity(aliases).id = LogicalId(locator)
  BY <1>1, <1>3 DEF Claude!Identity, Claude!LogicalId, LogicalId
<1> DEFINE identity == Claude!Identity(aliases)
           Message(row) ==
             [id |-> identity.id, locator |-> identity.locator,
              aliases |-> identity.aliases, time |-> e.rec.time,
              role |-> role, kind |-> ctx.kind, epoch |-> ctx.epoch,
              class |-> row.class, text |-> row.text, cwd |-> e.rec.cwd,
              harness |-> /\ role = "user" /\ ctx.kind = "agent"
                          /\ e.rec.sidechain = "true"
                          /\ e.rec.agent = "some"]
<1>5. Claude!Messages(e, role, rows, ctx) = {Message(row) : row \in rows}
  BY DEF Claude!Messages, alias, locator
<1>6. \A row : /\ Message(row).class = row.class
               /\ Message(row).text = row.text
               /\ Message(row).time = e.rec.time
               /\ Message(row).role = role
               /\ Message(row).cwd = e.rec.cwd
               /\ Message(row).epoch = ctx.epoch
               /\ Message(row).aliases = aliases
               /\ Message(row).locator = locator
               /\ Message(row).id = LogicalId(locator)
  BY <1>4
<1> HIDE DEF Message, identity
<1>7. ASSUME NEW m \in Claude!Messages(e, role, rows, ctx)
      PROVE  \E row \in rows : m = Message(row)
  BY <1>5
<1>8. \A row \in rows : Message(row) \in Claude!Messages(e, role, rows, ctx)
  BY <1>5
<1>9. QED
  BY <1>1, <1>6, <1>7, <1>2, <1>8

(* What a Claude record shows, taken alone.                                *)
LEMMA ClaudeClasses ==
  ASSUME NEW i, provider = "claude"
  PROVE  /\ \A s \in ClaudeShapes(file[i]) :
              s.class \in ClassesOf(i) \cap RowClasses
         /\ \A class \in ClassesOf(i) :
              \E s \in ClaudeShapes(file[i]) : s.class = class
<1> DEFINE acc == [ctx |-> NoContext, seen |-> {}, messages |-> {},
                   boundaries |-> {}, notes |-> {}]
           alone == Claude!Record(acc, Alone(i)).messages
           shapes == ClaudeShapes(file[i])
<1>1. \A s \in shapes : s.class \in RowClasses
  BY ClaudeContent DEF ClaudeShapes
<1>2. Codex!Undecoded = Claude!Undecoded
  BY DEF Codex!Undecoded, Claude!Undecoded
<1>3. CASE file[i].type \in Claude!Undecoded
  <2>1. ClassesOf(i) = {}
    BY <1>2, <1>3 DEF ClassesOf, Decoded
  <2>2. shapes = {}
    BY <1>3 DEF ClaudeShapes, Claude!Undecoded, Claude!Legacy
  <2>3. QED
    BY <2>1, <2>2
<1>4. CASE file[i].type \notin Claude!Undecoded
  <2>1. ClassesOf(i) = {m.class : m \in alone}
    BY <1>2, <1>4 DEF ClassesOf, Decoded
  <2>2. ClaudeAcc(acc) /\ acc.messages = {} /\ acc.ctx = NoContext
    BY DEF ClaudeAcc, NoContext
  <2> HIDE DEF acc
  <2>3. Alone(i).rec = file[i]
    BY DEF Alone
  <2>4. ClaudeReads(Claude!Record(acc, Alone(i)), acc, Alone(i), shapes)
    BY <2>2, <2>3, ClaudeRecord
  <2>5. alone = Claude!Messages(Alone(i), file[i].role, shapes, NoContext)
    BY <2>2, <2>3, <2>4 DEF ClaudeReads
  <2> HIDE DEF alone, shapes
  <2>6. /\ \A m \in alone : \E s \in shapes : m.class = s.class
        /\ \A s \in shapes : \E m \in alone : m.class = s.class
    BY <2>5, ClaudeMessages
  <2>7. /\ \A m \in alone : m.class \in ClassesOf(i)
        /\ \A class \in ClassesOf(i) : \E m \in alone : m.class = class
    BY <2>1
  <2>8. QED
    BY <1>1, <2>6, <2>7 DEF shapes
<1>5. QED
  BY <1>3, <1>4

(* A Claude record that shows something has an id of its own.              *)
LEMMA ClaudeNames ==
  ASSUME provider = "claude", NEW r, ClaudeShapes(r) # {}
  PROVE  NativeKey(r) = r.uuid /\ r.uuid # NoId
<1>1. CASE Claude!Legacy(r)
  BY <1>1 DEF Claude!Legacy, Claude!HasUuid, Claude!NoId, NoId, NativeKey,
              Claude!Undecoded
<1>2. CASE r.type \in {"user", "assistant"} /\ Claude!Refusal(r) = Claude!NoId
  <2>1. Claude!HasUuid(r)
    BY <1>2 DEF Claude!Refusal, Claude!NoId
  <2>2. QED
    BY <1>2, <2>1 DEF Claude!HasUuid, Claude!NoId, NoId, NativeKey,
                      Claude!Undecoded
<1>3. QED
  BY <1>1, <1>2 DEF ClaudeShapes

(***************************************************************************)
(* Claude: the records of a batch.                                         *)
(***************************************************************************)
MessageOK(m, from, to) ==
  /\ m.aliases # {}
  /\ \A a \in m.aliases :
       /\ a.ord \in 1..Len(file) /\ a.ord \in (from + 1)..to
       /\ m.class \in ClassesOf(a.ord) \cap RowClasses
       /\ m.epoch = EpochAt(a.ord)
       /\ Located(a.ord, a.locator) /\ a.locator = m.locator
       /\ a.locator.session = SessionName
       /\ provider = "antigravity" =>
            a.locator = OrdinalLocator(SessionName, a.ord)
       /\ Content(m) \in Contents(a.ord)
       /\ provider = "claude" => m.cwd = file[a.ord].cwd
  /\ m.id = LogicalId(m.locator)
  /\ provider = "antigravity" => Primary(m)
Shown(messages, from, to) ==
  \A i \in from..to : \A class \in ClassesOf(i) :
    \E m \in messages : m.class = class /\ \E a \in m.aliases : a.ord = i
ClaudeReadOK(acc, from, to) ==
  /\ ClaudeAcc(acc) /\ acc.ctx.session = SessionName
  /\ acc.seen = Boundaries(to)
  /\ acc.ctx.epoch = Cardinality(Boundaries(to))
  /\ \A m \in acc.messages : MessageOK(m, from, to)
  /\ Shown(acc.messages, from + 1, to)
  /\ NotesOK(acc.notes, Skips)

LEMMA ClaudeReadStep ==
  ASSUME FileInv, provider = "claude", NEW from \in Nat, NEW to \in Nat,
         from <= to, to + 1 <= Len(file), NEW acc,
         ClaudeReadOK(acc, from, to)
  PROVE  ClaudeReadOK(Claude!Record(acc, [ord |-> to + 1,
                                          rec |-> file[to + 1]]),
                      from, to + 1)
<1> DEFINE e == [ord |-> to + 1, rec |-> file[to + 1]]
           next == Claude!Record(acc, e)
           shapes == ClaudeShapes(file[to + 1])
           more == Claude!Messages(e, e.rec.role, shapes, acc.ctx)
<1>1. e.ord = to + 1 /\ e.rec = file[to + 1]
  OBVIOUS
<1>2. ClaudeAcc(acc)
  BY DEF ClaudeReadOK
<1>3. /\ ClaudeReads(next, acc, e, shapes)
      /\ IF ClaudeBoundary(file[to + 1]) /\ file[to + 1].uuid \notin acc.seen
         THEN NextEpoch(next, acc, file[to + 1].uuid)
         ELSE SameEpoch(next, acc)
  BY <1>1, <1>2, ClaudeRecord
<1> HIDE DEF e, next
<1>4. /\ next.seen = Boundaries(to + 1)
      /\ next.ctx.epoch = Cardinality(Boundaries(to + 1))
  <2> DEFINE key == file[to + 1].uuid
  <2>1. provider \in Providers
    BY DEF Providers
  <2>2. Boundaries(to + 1) = Boundaries(to) \cup BoundaryKeys(to + 1)
    BY BoundariesStep
  <2>3. /\ acc.seen = Boundaries(to)
        /\ acc.ctx.epoch = Cardinality(Boundaries(to))
    BY DEF ClaudeReadOK
  <2>4. CASE ClaudeBoundary(file[to + 1])
    <3>1. BoundaryKeys(to + 1) = {key}
      BY <2>4, BoundaryOf
    <3>2. Cardinality(Boundaries(to + 1)) =
            IF key \in Boundaries(to) THEN Cardinality(Boundaries(to))
            ELSE Cardinality(Boundaries(to)) + 1
      BY <2>1, <3>1, EpochStep
    <3>3. CASE key \in Boundaries(to)
      BY <1>3, <2>2, <2>3, <3>1, <3>2, <3>3 DEF SameEpoch
    <3>4. CASE key \notin Boundaries(to)
      BY <1>3, <2>2, <2>3, <2>4, <3>1, <3>2, <3>4 DEF NextEpoch
    <3>5. QED
      BY <3>3, <3>4
  <2>5. CASE ~ClaudeBoundary(file[to + 1])
    <3>1. BoundaryKeys(to + 1) = {}
      BY <2>5, BoundaryOf
    <3>2. Boundaries(to + 1) = Boundaries(to)
      BY <2>2, <3>1
    <3>3. QED
      BY <1>3, <2>3, <2>5, <3>2 DEF SameEpoch
  <2>6. QED
    BY <2>4, <2>5
<1>5. next.messages = acc.messages \cup more
  BY <1>3 DEF ClaudeReads
<1>6. /\ \A t \in shapes : t.class \in ClassesOf(to + 1) \cap RowClasses
      /\ \A class \in ClassesOf(to + 1) : \E t \in shapes : t.class = class
  BY ClaudeClasses
<1>7. /\ \A m \in more : /\ \E t \in shapes :
                              m.class = t.class /\ m.text = t.text
                         /\ m.epoch = acc.ctx.epoch
                         /\ m.time = e.rec.time /\ m.role = e.rec.role
                         /\ m.cwd = e.rec.cwd
                         /\ m.aliases # {} /\ m.id = LogicalId(m.locator)
                         /\ m.locator = IdLocator(acc.ctx.session, e.rec.uuid)
                         /\ \A a \in m.aliases :
                              a.ord = e.ord /\ a.locator = m.locator
      /\ \A t \in shapes : \E m \in more : m.class = t.class
  BY ClaudeMessages
<1> HIDE DEF more, shapes
<1>8. \A m \in next.messages : MessageOK(m, from, to + 1)
  <2>1. acc.ctx.epoch = EpochAt(to + 1)
    <3>1. (to + 1) - 1 = to
      OBVIOUS
    <3>2. QED
      BY <3>1 DEF ClaudeReadOK, EpochAt
  <2>2. to + 1 \in 1..Len(file) /\ to + 1 \in (from + 1)..(to + 1)
    BY DEF FileInv
  <2>3. \A m \in more : MessageOK(m, from, to + 1)
    <3>1. ASSUME NEW m \in more
          PROVE  /\ Located(to + 1, m.locator)
                 /\ m.locator.session = SessionName
      <4>1. NativeKey(file[to + 1]) = file[to + 1].uuid
            /\ file[to + 1].uuid # NoId
        BY <1>7, ClaudeNames DEF shapes
      <4>2. m.locator = IdLocator(acc.ctx.session, NativeKey(file[to + 1]))
        BY <1>1, <1>7, <4>1
      <4>3. m.locator.session = acc.ctx.session
        BY <4>2 DEF IdLocator
      <4>4. NativeKey(file[to + 1]) \notin Nameless
        BY <4>1 DEF Nameless
      <4>5. acc.ctx.session = SessionName
        BY DEF ClaudeReadOK
      <4>6. QED
        BY <4>2, <4>3, <4>4, <4>5 DEF Located, LocatorAt
    <3>2. ASSUME NEW m \in more PROVE Content(m) \in Contents(to + 1)
      <4>1. PICK t \in shapes : m.class = t.class /\ m.text = t.text
        BY <1>7
      <4>2. m.time = file[to + 1].time /\ m.role = file[to + 1].role
        BY <1>1, <1>7
      <4>3. Content(m) = <<t.class, file[to + 1].time, file[to + 1].role,
                           t.text>>
        BY <4>1, <4>2 DEF Content
      <4>4. QED
        BY <4>3 DEF Contents, ShapeContents, shapes
    <3>3. QED
      BY <1>1, <1>6, <1>7, <2>1, <2>2, <3>1, <3>2 DEF MessageOK
  <2>4. \A m \in acc.messages : MessageOK(m, from, to + 1)
    <3>1. (from + 1)..to \subseteq (from + 1)..(to + 1)
      OBVIOUS
    <3>2. QED
      BY <3>1 DEF MessageOK, ClaudeReadOK
  <2>5. QED
    BY <1>5, <2>3, <2>4
<1>9. Shown(next.messages, from + 1, to + 1)
  <2>1. \A class \in ClassesOf(to + 1) : \E m \in more :
          m.class = class /\ \E a \in m.aliases : a.ord = to + 1
    BY <1>1, <1>6, <1>7
  <2>2. \A i \in (from + 1)..(to + 1) : i \in (from + 1)..to \/ i = to + 1
    OBVIOUS
  <2>3. QED
    BY <1>5, <2>1, <2>2 DEF Shown, ClaudeReadOK
<1>10. NotesOK(next.notes, Skips)
  <2>1. shapes = {} => ClassesOf(to + 1) = {}
    BY <1>6
  <2>2. NotesOf(next.notes, acc.notes, to + 1, Skips, shapes)
    BY <1>1, <1>3 DEF ClaudeReads
  <2>3. NotesOK(acc.notes, Skips)
    BY DEF ClaudeReadOK
  <2>4. QED
    BY <2>1, <2>2, <2>3 DEF NotesOf, NotesOK
<1>11. ClaudeAcc(next) /\ next.ctx.session = SessionName
  BY <1>3 DEF ClaudeReads, ClaudeReadOK
<1>12. ClaudeReadOK(next, from, to + 1)
  BY <1>4, <1>8, <1>9, <1>10, <1>11 DEF ClaudeReadOK
<1>13. QED
  BY <1>12 DEF next, e

LEMMA ClaudeVisit ==
  ASSUME FileInv, provider = "claude", NEW from \in Nat, NEW n \in Nat,
         from + n <= Len(file), NEW state, StateOK(state, from),
         NEW k, NEW notes, NotesOK(notes, Skips)
  PROVE  ClaudeReadOK(
           Claude!Visit(Envelopes(from, n),
                        [session |-> SessionName, epoch |-> state.epoch,
                         kind |-> k],
                        notes, state),
           from, from + n)
<1> DEFINE envs == Envelopes(from, n)
           ctx == [session |-> SessionName, epoch |-> state.epoch,
                   kind |-> k]
           base == [ctx |-> ctx, seen |-> state.seen, messages |-> {},
                    boundaries |-> {}, notes |-> notes]
<1>1. ClaudeReadOK(base, from, from)
  <2>1. state.seen = Boundaries(from)
        /\ state.epoch = Cardinality(Boundaries(from))
    BY DEF StateOK
  <2>2. ClaudeAcc(base)
    BY DEF ClaudeAcc
  <2>3. Shown({}, from + 1, from)
    BY DEF Shown
  <2>4. QED
    BY <2>1, <2>2, <2>3 DEF ClaudeReadOK
<1>2. Len(envs) = n
  BY EnvelopesOf
<1>3. \A i \in 1..n : envs[i] = [ord |-> from + i, rec |-> file[from + i]]
  BY EnvelopesOf
<1> HIDE DEF envs
<1>4. PICK f : f = [i \in 0..Len(envs) |->
                 IF i = 0 THEN base ELSE Claude!Record(f[i - 1], envs[i])]
  <2> HIDE DEF base
  <2>1. PICK f : Follows(f, n, base, envs)
    BY RecordsFollow
  <2>2. f = [i \in 0..n |-> IF i = 0 THEN base
                            ELSE RecordOf(f[i - 1], envs[i])]
    BY <2>1 DEF Follows
  <2>3. \A acc, e : RecordOf(acc, e) = Claude!Record(acc, e)
    BY DEF RecordOf
  <2>4. f = [i \in 0..n |-> IF i = 0 THEN base
                            ELSE Claude!Record(f[i - 1], envs[i])]
    BY <2>2, <2>3
  <2>5. QED
    BY <1>2, <2>4
<1> DEFINE read == Claude!Visit(envs, ctx, notes, state)
           g == CHOOSE h : h = [i \in 0..Len(envs) |->
                  IF i = 0 THEN base ELSE Claude!Record(h[i - 1], envs[i])]
<1>5. g = [i \in 0..Len(envs) |->
             IF i = 0 THEN base ELSE Claude!Record(g[i - 1], envs[i])]
  BY <1>4
<1>6. read = g[n]
  BY <1>2 DEF Claude!Visit
<1> HIDE DEF base, g, read
<1> DEFINE S == {i \in Nat : i <= n => ClaudeReadOK(g[i], from, from + i)}
<1>7. 0 \in S
  BY <1>1, <1>2, <1>5
<1>8. ASSUME NEW i \in Nat, i \in S PROVE i + 1 \in S
  <2>1. SUFFICES ASSUME i + 1 <= n
                 PROVE  ClaudeReadOK(g[i + 1], from, from + (i + 1))
    OBVIOUS
  <2>2. ClaudeReadOK(g[i], from, from + i)
    BY <1>8, <2>1
  <2>3. /\ i + 1 \in 0..Len(envs) /\ i + 1 # 0 /\ (i + 1) - 1 = i
        /\ i + 1 \in 1..n
    BY <1>2, <2>1
  <2>4. g[i + 1] = Claude!Record(g[i], envs[i + 1])
    BY <1>5, <2>3
  <2>5. envs[i + 1] = [ord |-> from + (i + 1), rec |-> file[from + (i + 1)]]
    BY <1>3, <2>3
  <2>6. /\ from + (i + 1) = (from + i) + 1 /\ from + i \in Nat
        /\ from <= from + i /\ (from + i) + 1 <= Len(file)
    BY <2>1 DEF FileInv
  <2>7. g[i + 1] = Claude!Record(g[i], [ord |-> (from + i) + 1,
                                        rec |-> file[(from + i) + 1]])
    BY <2>4, <2>5, <2>6
  <2>8. ClaudeReadOK(g[i + 1], from, (from + i) + 1)
    BY <2>2, <2>6, <2>7, ClaudeReadStep
  <2>9. QED
    BY <2>6, <2>8
<1> HIDE DEF S
<1>9. \A i \in Nat : i \in S
  BY <1>7, <1>8, SetInduction
<1>10. ClaudeReadOK(read, from, from + n)
  BY <1>6, <1>9 DEF S
<1>11. QED
  BY <1>10 DEF read, envs

(* Messages of one record each make rows of those records.                 *)
LEMMA RowsOfMessages ==
  ASSUME FileInv, provider # "codex", NEW from \in Nat, NEW to \in Nat,
         NEW state, NEW messages,
         \A m \in messages : MessageOK(m, from, to),
         Shown(messages, from + 1, to)
  PROVE  /\ BatchRows(Rows(messages), state, from, to)
         /\ provider = "claude" =>
              \A x \in Rows(messages) : x.cwd = file[x.ord].cwd
<1> DEFINE rows == Rows(messages)
<1>1. /\ \A x \in rows : \E m \in messages : \E a \in m.aliases :
           RowFor(x, m, a)
      /\ \A m \in messages : \A a \in m.aliases : \E x \in rows :
           RowFor(x, m, a)
  BY RowsOf
<1> HIDE DEF rows
<1>2. ASSUME NEW x \in rows
      PROVE  /\ RowOK(x) /\ x.ord <= to /\ ~(x.ord <= from)
             /\ provider = "claude" => x.cwd = file[x.ord].cwd
  <2>1. PICK m \in messages : \E a \in m.aliases : RowFor(x, m, a)
    BY <1>1
  <2>2. PICK a \in m.aliases : RowFor(x, m, a)
    BY <2>1
  <2>3. MessageOK(m, from, to)
    OBVIOUS
  <2>4. /\ a.ord \in 1..Len(file) /\ a.ord \in (from + 1)..to
        /\ m.class \in ClassesOf(a.ord) \cap RowClasses
        /\ m.epoch = EpochAt(a.ord)
        /\ Located(a.ord, a.locator) /\ a.locator = m.locator
        /\ a.locator.session = SessionName
        /\ m.id = LogicalId(m.locator)
        /\ provider = "antigravity" =>
             a.locator = OrdinalLocator(SessionName, a.ord)
        /\ Content(m) \in Contents(a.ord)
        /\ provider = "claude" => m.cwd = file[a.ord].cwd
        /\ provider = "antigravity" => Primary(m)
    BY <2>3 DEF MessageOK
  <2>5. x.ord = a.ord /\ x.class = m.class /\ x.epoch = m.epoch
    BY <2>2 DEF RowFor
  <2>6. /\ x.time = m.time /\ x.role = m.role /\ x.text = m.text
         /\ x.kind = m.kind /\ x.harness = m.harness /\ x.cwd = m.cwd
    BY <2>2 DEF RowFor, Says
  <2>7. Content(x) \in Contents(x.ord)
    BY <2>4, <2>5, <2>6 DEF Content
  <2>8. Tells(x)
    BY <2>4, <2>5 DEF Tells
  <2>9. x.ord <= to /\ ~(x.ord <= from)
    BY <2>4, <2>5
  <2>10. /\ x.alias = a.locator /\ x.locator = m.locator /\ x.id = m.id
    BY <2>2 DEF RowFor
  <2>11. NamedBy(x, x.alias)
    BY <2>4, <2>10 DEF NamedBy
  <2>12. Located(x.ord, x.alias) /\ x.alias.session = SessionName
    BY <2>4, <2>5, <2>10
  <2>13. provider = "antigravity" =>
           NamedBy(x, OrdinalLocator(SessionName, x.ord))
    BY <2>4, <2>5, <2>10, <2>11
  <2>14. provider = "antigravity" => Primary(x)
    BY <2>4, <2>6 DEF Primary
  <2>15. RowOK(x)
    BY <2>4, <2>8, <2>11, <2>12, <2>13, <2>7, <2>14 DEF RowOK, Own
  <2>16. QED
    BY <2>4, <2>5, <2>9, <2>6, <2>15
<1>3. RowsPaired(rows)
  BY DEF RowsPaired
<1>4. Complete(rows, from + 1, to)
  <2>1. SUFFICES ASSUME NEW i \in (from + 1)..to, NEW class \in ClassesOf(i)
                 PROVE  \E x \in rows : x.ord = i /\ x.class = class
    BY DEF Complete
  <2>2. PICK m \in messages : m.class = class
                              /\ \E a \in m.aliases : a.ord = i
    BY DEF Shown
  <2>3. PICK a \in m.aliases : a.ord = i
    BY <2>2
  <2>4. PICK x \in rows : RowFor(x, m, a)
    BY <1>1
  <2>5. QED
    BY <2>2, <2>3, <2>4 DEF RowFor
<1>5. QED
  BY <1>2, <1>3, <1>4 DEF BatchRows, rows

LEMMA ClaudeNotes ==
  ASSUME provider = "claude", NEW from \in Nat, NEW n \in Nat
  PROVE  NotesOK(Claude!DecodeNotes(Envelopes(from, n)), Skips)
<1> DEFINE envs == Envelopes(from, n)
<1>1. ASSUME NEW d \in Claude!DecodeNotes(envs) PROVE ClassesOf(d.ord) = {}
  <2>1. PICK e \in Claude!ToSet(envs) :
          /\ e.rec.type \in Claude!Undecoded
          /\ d = Claude!Note(e, Claude!DecodeCode(e.rec.type))
    BY DEF Claude!DecodeNotes
  <2>2. PICK i \in 1..n : e = [ord |-> from + i, rec |-> file[from + i]]
    <3>1. DOMAIN envs = 1..n
      BY DEF Envelopes
    <3>2. PICK i \in 1..n : e = envs[i]
      BY <3>1 DEF Claude!ToSet
    <3>3. QED
      BY <3>2, EnvelopesOf
  <2>3. d.ord = e.ord
    BY <2>1 DEF Claude!Note
  <2>4. file[d.ord].type \in Codex!Undecoded
    BY <2>1, <2>2, <2>3 DEF Codex!Undecoded, Claude!Undecoded
  <2>5. QED
    BY <2>4 DEF ClassesOf, Decoded
<1>2. QED
  BY <1>1 DEF NotesOK

LEMMA ClaudeBatch ==
  ASSUME FileInv, provider = "claude", NEW from \in Nat, NEW n \in Nat,
         from + n <= Len(file), NEW state, StateOK(state, from)
  PROVE  BatchOK(ParseClaude(Envelopes(from, n), state), state,
                 from, from + n)
<1> DEFINE envs == Envelopes(from, n)
           path == Claude!PathKind(place.parts, place.subagents)
           kind == Claude!SessionKind(Claude!Decoded(envs), path,
                                      SessionName)
           notes == Claude!DecodeNotes(envs)
           ctx == [session |-> SessionName, epoch |-> state.epoch,
                   kind |-> kind]
           read == Claude!Visit(envs, ctx, notes, state)
           parsed == ParseClaude(envs, state)
           next == parsed.state
           to == from + n
<1>1. parsed = Claude!Finish(read)
  BY DEF ParseClaude, Claude!Parse, Claude!ParseAs
<1>2. NotesOK(notes, Skips)
  BY ClaudeNotes
<1>3. ClaudeReadOK(read, from, to)
  <2> HIDE DEF notes, kind
  <2>1. ClaudeReadOK(
           Claude!Visit(Envelopes(from, n),
                        [session |-> SessionName, epoch |-> state.epoch,
                         kind |-> kind], notes, state),
           from, from + n)
    BY <1>2, ClaudeVisit
  <2>2. QED
    BY <2>1
<1> HIDE DEF read, parsed
<1>4. /\ parsed.messages = read.messages /\ parsed.notes = read.notes
      /\ next.epoch = read.ctx.epoch /\ next.seen = read.seen
  BY <1>1 DEF Claude!Finish
<1>5. to \in Nat
  OBVIOUS
<1>6. /\ BatchRows(Rows(parsed.messages), state, from, to)
      /\ \A x \in Rows(parsed.messages) : x.cwd = file[x.ord].cwd
  <2> DEFINE messages == parsed.messages
  <2>1. /\ \A m \in messages : MessageOK(m, from, to)
        /\ Shown(messages, from + 1, to)
    BY <1>3, <1>4 DEF ClaudeReadOK
  <2> HIDE DEF messages, to
  <2>2. /\ BatchRows(Rows(messages), state, from, to)
        /\ \A x \in Rows(messages) : x.cwd = file[x.ord].cwd
    BY <1>5, <2>1, RowsOfMessages
  <2>3. QED
    BY <2>2 DEF messages
<1>7. StateOK(next, to)
  BY <1>3, <1>4 DEF StateOK, ClaudeReadOK
<1>8. BatchOK(parsed, state, from, to)
  BY <1>3, <1>4, <1>6, <1>7 DEF BatchOK, BatchState, ClaudeReadOK,
                                OfSession, Established, BatchCwds
<1>9. QED
  BY <1>8 DEF parsed, envs

(***************************************************************************)
(* Antigravity: one record.                                                *)
(***************************************************************************)
LEMMA AntigravityContent ==
  ASSUME NEW r
  PROVE  /\ \A x \in Antigravity!Project(r).rows : x.class \in RowClasses
         /\ Antigravity!Project(r).codes \cap Skips = {}
<1> DEFINE p == Antigravity!Project(r)
<1>1. \A lines : \A x \in Antigravity!Prose(lines) : x.class \in RowClasses
  BY DEF Antigravity!Prose, RowClasses
<1>2. \A lines : Antigravity!StorableCodes(lines) \cap Skips = {}
  BY DEF Antigravity!StorableCodes, Antigravity!RepairCodes, Skips
<1>3. \A calls : \A x \in Antigravity!ToolRows(calls) : x.class \in RowClasses
  BY DEF Antigravity!ToolRows, RowClasses
<1>4. CASE r.pair = "user_input"
  <2>1. p = Antigravity!UserInput(r)
    BY <1>4 DEF Antigravity!Project
  <2> DEFINE more == {c \in {"excluded_injected"} : r.context}
  <2> HIDE DEF p
  <2>2. /\ p.rows = Antigravity!Prose(r.request)
        /\ p.codes = Antigravity!StorableCodes(r.request) \cup more
    BY <2>1 DEF Antigravity!UserInput, Antigravity!Projection
  <2>3. more \cap Skips = {}
    BY DEF Skips
  <2> HIDE DEF more
  <2>4. QED
    BY <1>1, <1>2, <2>2, <2>3 DEF p
<1>5. CASE r.pair = "planner_response"
  <2>1. p = Antigravity!PlannerResponse(r)
    BY <1>5 DEF Antigravity!Project
  <2> DEFINE said == IF r.content = <<>> THEN {}
                     ELSE Antigravity!StorableCodes(r.content)
             more == {c \in {"excluded_thinking"} : r.thinking}
  <2> HIDE DEF p
  <2>2. /\ p.rows = Antigravity!Prose(r.content)
                      \cup Antigravity!ToolRows(r.calls)
        /\ p.codes = said \cup more
    BY <2>1 DEF Antigravity!PlannerResponse, Antigravity!Projection
  <2>3. more \cap Skips = {}
    BY DEF Skips
  <2>4. said \cap Skips = {}
    BY <1>2
  <2> HIDE DEF said, more
  <2>5. QED
    BY <1>1, <1>3, <2>2, <2>3, <2>4 DEF p
<1>6. CASE r.pair \notin {"user_input", "planner_response"}
  <2>1. \E codes \in {{"excluded_tool_result"}, {"excluded_injected"}, {}} :
          p = Antigravity!Nothing(codes)
    BY <1>6 DEF Antigravity!Project
  <2> HIDE DEF p
  <2>2. QED
    BY <2>1 DEF Antigravity!Nothing, Antigravity!Projection, Skips, p
<1>7. QED
  BY <1>4, <1>5, <1>6

AntigravityAcc(acc) == DOMAIN acc = {"epoch", "cwd", "rows", "notes"}

RecordRow(e, role, row, epoch) ==
  [e |-> e, role |-> role, row |-> row, epoch |-> epoch]
RecordRows(e, role, shapes, epoch) ==
  {RecordRow(e, role, row, epoch) : row \in shapes}

AntigravityReads(next, acc, e, shapes) ==
  /\ AntigravityAcc(next)
  /\ next.rows =
       acc.rows \cup RecordRows(e, Antigravity!Project(e.rec).role, shapes,
                               acc.epoch)
  /\ next.cwd = IF acc.cwd = NoCwd THEN RecordCwd(e.rec) ELSE acc.cwd
  /\ NotesOf(next.notes, acc.notes, e.ord, Skips, shapes)

LEMMA AntigravityRecord ==
  ASSUME NEW acc, NEW e, AntigravityAcc(acc)
  PROVE  /\ AntigravityReads(Antigravity!Record(acc, e), acc, e,
                             AntigravityShapes(e.rec))
         /\ Antigravity!Record(acc, e).epoch =
              IF AntigravityBoundary(e.rec) THEN acc.epoch + 1
              ELSE acc.epoch
<1> DEFINE r == e.rec
           next == Antigravity!Record(acc, e)
           shapes == AntigravityShapes(r)
<1>1. \A role : RecordRows(e, role, {}, acc.epoch) = {}
  BY DEF RecordRows
<1>2. "checkpoint" \notin Antigravity!Undecoded
  BY DEF Antigravity!Undecoded
<1>3. CASE r.pair \in Antigravity!Undecoded
  <2>1. next = acc
    BY <1>3 DEF Antigravity!Record
  <2>2. shapes = {} /\ ~AntigravityBoundary(r)
    BY <1>2, <1>3 DEF AntigravityShapes, Projects, AntigravityBoundary
  <2>3. RecordCwd(r) = NoCwd
    BY <1>3 DEF RecordCwd, Projects
  <2>4. QED
    BY <1>1, <2>1, <2>2, <2>3 DEF AntigravityReads, NotesOf
<1>4. CASE /\ r.pair \notin Antigravity!Undecoded
           /\ Antigravity!Rejection(r) # Antigravity!NoFlaw
  <2> DEFINE note == Antigravity!Note(e, Antigravity!Rejection(r))
  <2>1. next = [acc EXCEPT !.notes = @ \cup {note}]
    BY <1>4 DEF Antigravity!Record
  <2>2. shapes = {}
    BY <1>4 DEF AntigravityShapes, Projects
  <2>3. ~AntigravityBoundary(r)
    BY <1>4 DEF AntigravityBoundary, Antigravity!Rejection,
                Antigravity!Pairs
  <2>4. note.ord = e.ord
    BY DEF Antigravity!Note
  <2>5. RecordCwd(r) = NoCwd
    BY <1>4 DEF RecordCwd, Projects
  <2> HIDE DEF note, next, shapes
  <2>6. /\ DOMAIN next = DOMAIN acc /\ next.epoch = acc.epoch
        /\ next.rows = acc.rows /\ next.notes = acc.notes \cup {note}
        /\ next.cwd = acc.cwd
    BY <2>1 DEF AntigravityAcc
  <2>7. AntigravityReads(next, acc, e, shapes)
    BY <1>1, <2>2, <2>4, <2>6, <2>5
       DEF AntigravityReads, AntigravityAcc, NotesOf
  <2>8. QED
    BY <2>3, <2>6, <2>7 DEF next, shapes
<1>5. CASE /\ r.pair = "checkpoint"
           /\ Antigravity!Rejection(r) = Antigravity!NoFlaw
  <2>1. next = [acc EXCEPT !.epoch = @ + 1]
    BY <1>2, <1>5 DEF Antigravity!Record
  <2>2. shapes = {}
    BY <1>5 DEF AntigravityShapes, Projects
  <2>3. AntigravityBoundary(r)
    BY <1>5 DEF AntigravityBoundary, Antigravity!Rejection
  <2>4. RecordCwd(r) = NoCwd
    BY <1>5 DEF RecordCwd, Projects
  <2> HIDE DEF next, shapes
  <2>5. /\ DOMAIN next = DOMAIN acc /\ next.epoch = acc.epoch + 1
        /\ next.rows = acc.rows /\ next.notes = acc.notes
        /\ next.cwd = acc.cwd
    BY <2>1 DEF AntigravityAcc
  <2>6. AntigravityReads(next, acc, e, shapes)
    BY <1>1, <2>2, <2>5, <2>4 DEF AntigravityReads, AntigravityAcc, NotesOf
  <2>7. QED
    BY <2>3, <2>5, <2>6 DEF next, shapes
<1>6. CASE Projects(r)
  <2> DEFINE p == Antigravity!Project(r)
             notes == Antigravity!Notes(e, p.codes)
             cwd == Antigravity!FirstOf(acc.cwd, p.cwd)
             rows == RecordRows(e, p.role, p.rows, acc.epoch)
  <2>1. next = Antigravity!Projected(acc, e, p)
    BY <1>6 DEF Projects, Antigravity!Record
  <2>2. p.codes \cap Skips = {}
    BY AntigravityContent
  <2>3. shapes = p.rows
    BY <1>6 DEF AntigravityShapes
  <2>4. ~AntigravityBoundary(r)
    BY <1>6 DEF Projects, AntigravityBoundary
  <2>5. \A d \in notes : d.ord = e.ord /\ d.code \in p.codes
    BY DEF Antigravity!Notes, Antigravity!Note
  <2>6. cwd = IF acc.cwd = NoCwd THEN RecordCwd(r) ELSE acc.cwd
    BY <1>6 DEF RecordCwd, Antigravity!FirstOf, Antigravity!NoCwd, NoCwd
  <2> HIDE DEF p
  <2>7. next = [acc EXCEPT !.notes = @ \cup notes,
                           !.cwd = cwd,
                           !.rows = @ \cup rows]
    BY <2>1 DEF Antigravity!Projected, RecordRows, RecordRow
  <2> HIDE DEF next, notes, rows, shapes, cwd
  <2>8. /\ DOMAIN next = DOMAIN acc /\ next.epoch = acc.epoch
        /\ next.rows = acc.rows \cup rows /\ next.cwd = cwd
        /\ next.notes = acc.notes \cup notes
    BY <2>7 DEF AntigravityAcc
  <2>9. NotesOf(next.notes, acc.notes, e.ord, Skips, shapes)
    BY <2>2, <2>5, <2>8 DEF NotesOf
  <2>10. AntigravityReads(next, acc, e, shapes)
    BY <2>3, <2>8, <2>9, <2>6 DEF AntigravityReads, AntigravityAcc, rows, p
  <2>11. QED
    BY <2>4, <2>8, <2>10 DEF next, shapes
<1>7. QED
  BY <1>3, <1>4, <1>5, <1>6 DEF Projects

(* What an Antigravity record shows, taken alone.                          *)
LEMMA AntigravityClasses ==
  ASSUME NEW i, provider = "antigravity"
  PROVE  /\ \A s \in AntigravityShapes(file[i]) :
              s.class \in ClassesOf(i) \cap RowClasses
         /\ \A class \in ClassesOf(i) :
              \E s \in AntigravityShapes(file[i]) : s.class = class
<1> DEFINE acc == [epoch |-> 0, cwd |-> NoCwd, rows |-> {}, notes |-> {}]
           alone == Antigravity!Record(acc, Alone(i)).rows
           shapes == AntigravityShapes(file[i])
<1>1. \A s \in shapes : s.class \in RowClasses
  BY AntigravityContent DEF AntigravityShapes
<1>2. CASE file[i].pair \in Antigravity!Undecoded
  <2>1. ClassesOf(i) = {}
    BY <1>2 DEF ClassesOf, Decoded
  <2>2. shapes = {}
    BY <1>2 DEF AntigravityShapes, Projects
  <2>3. QED
    BY <2>1, <2>2
<1>3. CASE file[i].pair \notin Antigravity!Undecoded
  <2>1. ClassesOf(i) = {x.row.class : x \in alone}
    BY <1>3 DEF ClassesOf, Decoded
  <2>2. AntigravityAcc(acc) /\ acc.rows = {}
    BY DEF AntigravityAcc
  <2> HIDE DEF acc
  <2>3. Alone(i).rec = file[i]
    BY DEF Alone
  <2>4. AntigravityReads(Antigravity!Record(acc, Alone(i)), acc, Alone(i),
                         shapes)
    BY <2>2, <2>3, AntigravityRecord
  <2> DEFINE role == Antigravity!Project(file[i]).role
  <2>5. alone = RecordRows(Alone(i), role, shapes, acc.epoch)
    BY <2>2, <2>3, <2>4 DEF AntigravityReads
  <2>6. \A row : RecordRow(Alone(i), role, row, acc.epoch).row = row
    BY DEF RecordRow
  <2> HIDE DEF alone, shapes, role
  <2>7. /\ \A x \in alone : x.row \in shapes
        /\ \A s \in shapes : \E x \in alone : x.row = s
    BY <2>5, <2>6 DEF RecordRows
  <2>8. /\ \A x \in alone : x.row.class \in ClassesOf(i)
        /\ \A class \in ClassesOf(i) : \E x \in alone : x.row.class = class
    BY <2>1
  <2>9. QED
    BY <1>1, <2>7, <2>8 DEF shapes
<1>4. QED
  BY <1>2, <1>3

(***************************************************************************)
(* Antigravity: the records of a batch.                                    *)
(***************************************************************************)
RecordRowOK(x, from, to) ==
  /\ x.e.ord \in 1..Len(file) /\ x.e.ord \in (from + 1)..to
  /\ x.row.class \in ClassesOf(x.e.ord) \cap RowClasses
  /\ x.row \in AntigravityShapes(file[x.e.ord])
  /\ x.e.rec = file[x.e.ord]
  /\ x.role = Antigravity!Project(file[x.e.ord]).role
  /\ x.epoch = EpochAt(x.e.ord)
Projected(rows, from, to) ==
  \A i \in from..to : \A class \in ClassesOf(i) :
    \E x \in rows : x.row.class = class /\ x.e.ord = i
AntigravityReadOK(acc, from, to) ==
  /\ AntigravityAcc(acc)
  /\ acc.epoch = Cardinality(Boundaries(to))
  /\ CwdKnown(acc.cwd, to)
  /\ \A x \in acc.rows : RecordRowOK(x, from, to)
  /\ Projected(acc.rows, from + 1, to)
  /\ NotesOK(acc.notes, Skips)

LEMMA CwdStep ==
  ASSUME NEW n \in Nat, NEW cwd, NEW next, CwdKnown(cwd, n),
         next = IF cwd = NoCwd THEN CwdOf(n + 1) ELSE cwd
  PROVE  CwdKnown(next, n + 1)
<1>1. \A i \in 1..(n + 1) : i \in 1..n \/ i = n + 1
  OBVIOUS
<1>2. CASE cwd = NoCwd
  <2>1. \A i \in 1..n : CwdOf(i) = NoCwd
    BY <1>2 DEF CwdKnown
  <2>2. CASE next = NoCwd
    BY <1>1, <1>2, <2>1, <2>2 DEF CwdKnown
  <2>3. CASE next # NoCwd
    <3>1. n + 1 \in 1..(n + 1) /\ (n + 1) - 1 = n
      OBVIOUS
    <3>2. QED
      BY <1>2, <2>1, <2>3, <3>1 DEF CwdKnown
  <2>4. QED
    BY <2>2, <2>3
<1>3. CASE cwd # NoCwd
  <2>1. PICK i \in 1..n : /\ CwdOf(i) = cwd
                          /\ \A j \in 1..(i - 1) : CwdOf(j) = NoCwd
    BY <1>3 DEF CwdKnown
  <2>2. i \in 1..(n + 1)
    OBVIOUS
  <2>3. QED
    BY <1>3, <2>1, <2>2 DEF CwdKnown
<1>4. QED
  BY <1>2, <1>3

LEMMA AntigravityReadStep ==
  ASSUME FileInv, provider = "antigravity", NEW from \in Nat, NEW to \in Nat,
         from <= to, to + 1 <= Len(file), NEW acc,
         AntigravityReadOK(acc, from, to)
  PROVE  AntigravityReadOK(Antigravity!Record(acc, [ord |-> to + 1,
                                                    rec |-> file[to + 1]]),
                           from, to + 1)
<1> DEFINE e == [ord |-> to + 1, rec |-> file[to + 1]]
           next == Antigravity!Record(acc, e)
           shapes == AntigravityShapes(file[to + 1])
<1>1. e.ord = to + 1 /\ e.rec = file[to + 1]
  OBVIOUS
<1>2. AntigravityAcc(acc)
  BY DEF AntigravityReadOK
<1>3. /\ AntigravityReads(next, acc, e, shapes)
      /\ next.epoch = IF AntigravityBoundary(file[to + 1])
                      THEN acc.epoch + 1 ELSE acc.epoch
  BY <1>1, <1>2, AntigravityRecord
<1> HIDE DEF e, next
<1>4. next.epoch = Cardinality(Boundaries(to + 1))
  <2>1. provider \in Providers
    BY DEF Providers
  <2>2. acc.epoch = Cardinality(Boundaries(to))
    BY DEF AntigravityReadOK
  <2>3. CASE AntigravityBoundary(file[to + 1])
    <3>1. BoundaryKeys(to + 1) = {to + 1}
      BY <2>3, BoundaryOf
    <3>2. Cardinality(Boundaries(to + 1)) =
            IF to + 1 \in Boundaries(to) THEN Cardinality(Boundaries(to))
            ELSE Cardinality(Boundaries(to)) + 1
      BY <2>1, <3>1, EpochStep
    <3>3. to + 1 \notin Boundaries(to)
      <4>1. Boundaries(to) \subseteq 1..to
        BY AntigravityEpochs
      <4>2. to + 1 \notin 1..to
        OBVIOUS
      <4>3. QED
        BY <4>1, <4>2
    <3>4. QED
      BY <1>3, <2>2, <2>3, <3>2, <3>3
  <2>4. CASE ~AntigravityBoundary(file[to + 1])
    <3>1. BoundaryKeys(to + 1) = {}
      BY <2>4, BoundaryOf
    <3>2. Boundaries(to + 1) = Boundaries(to)
      BY <2>1, <3>1, EpochStep
    <3>3. QED
      BY <1>3, <2>2, <2>4, <3>2
  <2>5. QED
    BY <2>3, <2>4
<1> DEFINE role == Antigravity!Project(file[to + 1]).role
<1>5. next.rows = acc.rows \cup RecordRows(e, role, shapes, acc.epoch)
  BY <1>1, <1>3 DEF AntigravityReads
<1>6. CwdKnown(next.cwd, to + 1)
  <2>1. next.cwd = IF acc.cwd = NoCwd THEN CwdOf(to + 1) ELSE acc.cwd
    BY <1>1, <1>3 DEF AntigravityReads, CwdOf
  <2>2. CwdKnown(acc.cwd, to)
    BY DEF AntigravityReadOK
  <2>3. QED
    BY <2>1, <2>2, CwdStep
<1> DEFINE more == RecordRows(e, role, shapes, acc.epoch)
<1>7. /\ \A t \in shapes : t.class \in ClassesOf(to + 1) \cap RowClasses
      /\ \A class \in ClassesOf(to + 1) : \E t \in shapes : t.class = class
  BY AntigravityClasses
<1>8. /\ \A x \in more : /\ x.e = e /\ x.row \in shapes
                         /\ x.epoch = acc.epoch /\ x.role = role
      /\ \A t \in shapes : \E x \in more : x.e = e /\ x.row = t
  <2> DEFINE row(t) == RecordRow(e, role, t, acc.epoch)
  <2>1. \A t : /\ row(t).e = e /\ row(t).row = t
               /\ row(t).epoch = acc.epoch /\ row(t).role = role
    BY DEF RecordRow
  <2>2. /\ \A x \in more : \E t \in shapes : x = row(t)
        /\ \A t \in shapes : row(t) \in more
    BY DEF RecordRows
  <2> HIDE DEF row, more, role
  <2>3. QED
    BY <2>1, <2>2
<1> HIDE DEF more, shapes, role
<1>9. \A x \in next.rows : RecordRowOK(x, from, to + 1)
  <2>1. acc.epoch = EpochAt(to + 1)
    <3>1. (to + 1) - 1 = to
      OBVIOUS
    <3>2. QED
      BY <3>1 DEF AntigravityReadOK, EpochAt
  <2>2. to + 1 \in 1..Len(file) /\ to + 1 \in (from + 1)..(to + 1)
    BY DEF FileInv
  <2>3. \A x \in more : RecordRowOK(x, from, to + 1)
    BY <1>1, <1>7, <1>8, <2>1, <2>2 DEF RecordRowOK, shapes, role
  <2>4. \A x \in acc.rows : RecordRowOK(x, from, to + 1)
    <3>1. (from + 1)..to \subseteq (from + 1)..(to + 1)
      OBVIOUS
    <3>2. QED
      BY <3>1 DEF RecordRowOK, AntigravityReadOK
  <2>5. QED
    BY <1>5, <2>3, <2>4 DEF more
<1>10. Projected(next.rows, from + 1, to + 1)
  <2>1. \A class \in ClassesOf(to + 1) : \E x \in more :
          x.row.class = class /\ x.e.ord = to + 1
    BY <1>1, <1>7, <1>8
  <2>2. \A i \in (from + 1)..(to + 1) : i \in (from + 1)..to \/ i = to + 1
    OBVIOUS
  <2>3. next.rows = acc.rows \cup more
    BY <1>5 DEF more
  <2>4. QED
    BY <2>1, <2>2, <2>3 DEF Projected, AntigravityReadOK
<1>11. NotesOK(next.notes, Skips)
  <2>1. shapes = {} => ClassesOf(to + 1) = {}
    BY <1>7
  <2>2. NotesOf(next.notes, acc.notes, to + 1, Skips, shapes)
    BY <1>1, <1>3 DEF AntigravityReads
  <2>3. NotesOK(acc.notes, Skips)
    BY DEF AntigravityReadOK
  <2>4. QED
    BY <2>1, <2>2, <2>3 DEF NotesOf, NotesOK
<1>12. AntigravityAcc(next)
  BY <1>3 DEF AntigravityReads
<1>13. AntigravityReadOK(next, from, to + 1)
  BY <1>4, <1>9, <1>10, <1>11, <1>12, <1>6 DEF AntigravityReadOK
<1>14. QED
  BY <1>13 DEF next, e

LEMMA AntigravityVisit ==
  ASSUME FileInv, provider = "antigravity", NEW from \in Nat, NEW n \in Nat,
         from + n <= Len(file), NEW state, StateOK(state, from),
         NEW notes, NotesOK(notes, Skips)
  PROVE  AntigravityReadOK(
           Antigravity!Visit(Envelopes(from, n), notes, state),
           from, from + n)
<1> DEFINE envs == Envelopes(from, n)
           base == [epoch |-> state.epoch, cwd |-> state.cwd, rows |-> {},
                    notes |-> notes]
<1>1. AntigravityReadOK(base, from, from)
  <2>1. /\ state.epoch = Cardinality(Boundaries(from))
        /\ CwdKnown(state.cwd, from)
    BY DEF StateOK
  <2>2. AntigravityAcc(base)
    BY DEF AntigravityAcc
  <2>3. Projected({}, from + 1, from)
    BY DEF Projected
  <2>4. QED
    BY <2>1, <2>2, <2>3 DEF AntigravityReadOK
<1>2. Len(envs) = n
  BY EnvelopesOf
<1>3. \A i \in 1..n : envs[i] = [ord |-> from + i, rec |-> file[from + i]]
  BY EnvelopesOf
<1> HIDE DEF envs
<1>4. PICK f : f = [i \in 0..Len(envs) |->
            IF i = 0 THEN base ELSE Antigravity!Record(f[i - 1], envs[i])]
  <2> HIDE DEF base
  <2>1. PICK f : Follows(f, n, base, envs)
    BY RecordsFollow
  <2>2. f = [i \in 0..n |-> IF i = 0 THEN base
                            ELSE RecordOf(f[i - 1], envs[i])]
    BY <2>1 DEF Follows
  <2>3. \A acc, e : RecordOf(acc, e) = Antigravity!Record(acc, e)
    BY DEF RecordOf
  <2>4. f = [i \in 0..n |-> IF i = 0 THEN base
                            ELSE Antigravity!Record(f[i - 1], envs[i])]
    BY <2>2, <2>3
  <2>5. QED
    BY <1>2, <2>4
<1> DEFINE read == Antigravity!Visit(envs, notes, state)
           g == CHOOSE h : h = [i \in 0..Len(envs) |->
             IF i = 0 THEN base ELSE Antigravity!Record(h[i - 1], envs[i])]
<1>5. g = [i \in 0..Len(envs) |->
             IF i = 0 THEN base ELSE Antigravity!Record(g[i - 1], envs[i])]
  BY <1>4
<1>6. read = g[n]
  BY <1>2 DEF Antigravity!Visit
<1> HIDE DEF base, g, read
<1> DEFINE S == {i \in Nat :
                   i <= n => AntigravityReadOK(g[i], from, from + i)}
<1>7. 0 \in S
  BY <1>1, <1>2, <1>5
<1>8. ASSUME NEW i \in Nat, i \in S PROVE i + 1 \in S
  <2>1. SUFFICES ASSUME i + 1 <= n
                 PROVE  AntigravityReadOK(g[i + 1], from, from + (i + 1))
    OBVIOUS
  <2>2. AntigravityReadOK(g[i], from, from + i)
    BY <1>8, <2>1
  <2>3. /\ i + 1 \in 0..Len(envs) /\ i + 1 # 0 /\ (i + 1) - 1 = i
        /\ i + 1 \in 1..n
    BY <1>2, <2>1
  <2>4. g[i + 1] = Antigravity!Record(g[i], envs[i + 1])
    BY <1>5, <2>3
  <2>5. envs[i + 1] = [ord |-> from + (i + 1), rec |-> file[from + (i + 1)]]
    BY <1>3, <2>3
  <2>6. /\ from + (i + 1) = (from + i) + 1 /\ from + i \in Nat
        /\ from <= from + i /\ (from + i) + 1 <= Len(file)
    BY <2>1 DEF FileInv
  <2>7. g[i + 1] = Antigravity!Record(g[i], [ord |-> (from + i) + 1,
                                             rec |-> file[(from + i) + 1]])
    BY <2>4, <2>5, <2>6
  <2>8. AntigravityReadOK(g[i + 1], from, (from + i) + 1)
    BY <2>2, <2>6, <2>7, AntigravityReadStep
  <2>9. QED
    BY <2>6, <2>8
<1> HIDE DEF S
<1>9. \A i \in Nat : i \in S
  BY <1>7, <1>8, SetInduction
<1>10. AntigravityReadOK(read, from, from + n)
  BY <1>6, <1>9 DEF S
<1>11. QED
  BY <1>10 DEF read, envs

LEMMA AntigravityMessage ==
  ASSUME FileInv, NEW x, NEW cwd, x.e.ord \in Nat
  PROVE  LET m == Antigravity!Message(x, SessionName, cwd)
         IN  /\ m.class = x.row.class /\ m.epoch = x.epoch
             /\ m.time = x.e.rec.time /\ m.role = x.role /\ m.text = x.row.text
             /\ Primary(m) /\ m.cwd = cwd
             /\ m.aliases # {} /\ m.id = LogicalId(m.locator)
             /\ \A a \in m.aliases :
                  /\ a.ord = x.e.ord /\ a.locator = m.locator
                  /\ a.locator = OrdinalLocator(SessionName, a.ord)
<1> DEFINE m == Antigravity!Message(x, SessionName, cwd)
           locator == Antigravity!OrdinalLocator(SessionName, x.e.ord)
           alias == Antigravity!Alias(x.e.ord, locator)
           identity == Antigravity!Identity({alias})
<1>1. alias.ord = x.e.ord /\ alias.locator = locator
  BY DEF Antigravity!Alias
<1>2. /\ m.id = identity.id /\ m.locator = identity.locator
      /\ m.aliases = identity.aliases
      /\ m.class = x.row.class /\ m.epoch = x.epoch
      /\ m.time = x.e.rec.time /\ m.role = x.role /\ m.text = x.row.text
      /\ Primary(m) /\ m.cwd = cwd
  BY DEF Antigravity!Message, Primary
<1>3. locator = OrdinalLocator(SessionName, x.e.ord)
  BY DEF Antigravity!OrdinalLocator, OrdinalLocator
<1> HIDE DEF m, alias, locator
<1>4. Antigravity!Canonical({alias}) = alias
  BY <1>1 DEF Antigravity!Canonical
<1>5. /\ identity.id = Antigravity!LogicalId(locator)
      /\ identity.locator = locator /\ identity.aliases = {alias}
  BY <1>1, <1>4 DEF Antigravity!Identity
<1>6. Antigravity!LogicalId(locator) = LogicalId(locator)
  BY DEF Antigravity!LogicalId, LogicalId
<1> HIDE DEF identity
<1>7. m.aliases = {alias} /\ m.locator = locator /\ m.id = LogicalId(locator)
  BY <1>2, <1>5, <1>6
<1>8. /\ m.class = x.row.class /\ m.epoch = x.epoch
      /\ m.time = x.e.rec.time /\ m.role = x.role /\ m.text = x.row.text
      /\ Primary(m) /\ m.cwd = cwd
      /\ m.aliases # {} /\ m.id = LogicalId(m.locator)
      /\ \A a \in m.aliases :
           /\ a.ord = x.e.ord /\ a.locator = m.locator
           /\ a.locator = OrdinalLocator(SessionName, a.ord)
  BY <1>1, <1>2, <1>3, <1>7
<1>9. QED
  BY <1>8 DEF m

LEMMA AntigravityNotes ==
  ASSUME provider = "antigravity", NEW from \in Nat, NEW n \in Nat
  PROVE  NotesOK(Antigravity!DecodeNotes(Envelopes(from, n)), Skips)
<1> DEFINE envs == Envelopes(from, n)
<1>1. ASSUME NEW d \in Antigravity!DecodeNotes(envs)
      PROVE  ClassesOf(d.ord) = {}
  <2>1. PICK e \in Antigravity!ToSet(envs) :
          /\ e.rec.pair \in Antigravity!Undecoded
          /\ d = Antigravity!Note(e, e.rec.pair)
    BY DEF Antigravity!DecodeNotes
  <2>2. PICK i \in 1..n : e = [ord |-> from + i, rec |-> file[from + i]]
    <3>1. DOMAIN envs = 1..n
      BY DEF Envelopes
    <3>2. PICK i \in 1..n : e = envs[i]
      BY <3>1 DEF Antigravity!ToSet
    <3>3. QED
      BY <3>2, EnvelopesOf
  <2>3. d.ord = e.ord
    BY <2>1 DEF Antigravity!Note
  <2>4. file[d.ord].pair \in Antigravity!Undecoded
    BY <2>1, <2>2, <2>3
  <2>5. QED
    BY <2>4 DEF ClassesOf, Decoded
<1>2. QED
  BY <1>1 DEF NotesOK

LEMMA AntigravityBatch ==
  ASSUME FileInv, provider = "antigravity", NEW from \in Nat, NEW n \in Nat,
         from + n <= Len(file), NEW state, StateOK(state, from)
  PROVE  BatchOK(Antigravity!Parse(Envelopes(from, n), state, SessionName),
                 state, from, from + n)
<1> DEFINE envs == Envelopes(from, n)
           notes == Antigravity!DecodeNotes(envs)
           read == Antigravity!Visit(envs, notes, state)
           parsed == Antigravity!Parse(envs, state, SessionName)
           next == parsed.state
           to == from + n
           Message(x) == Antigravity!Message(x, SessionName, read.cwd)
           messages == {Message(x) : x \in read.rows}
<1>1. parsed = Antigravity!Finish(read, state, SessionName)
  BY DEF Antigravity!Parse
<1>2. NotesOK(notes, Skips)
  BY AntigravityNotes
<1>3. AntigravityReadOK(read, from, to)
  <2> HIDE DEF notes
  <2>1. QED
    BY <1>2, AntigravityVisit
<1> HIDE DEF read, parsed
<1>4. /\ parsed.messages = messages /\ parsed.notes = read.notes
      /\ next.epoch = read.epoch /\ next.cwd = read.cwd
      /\ parsed.established = (state.cwd = NoCwd /\ read.cwd # NoCwd)
  BY <1>1 DEF Antigravity!Finish, Antigravity!NoCwd, NoCwd
<1>5. to \in Nat
  OBVIOUS
<1>6. ASSUME NEW x \in read.rows
      PROVE  /\ MessageOK(Message(x), from, to)
             /\ Message(x).class = x.row.class
             /\ Message(x).cwd = read.cwd
             /\ \E a \in Message(x).aliases : a.ord = x.e.ord
  <2> HIDE DEF Message
  <2>1. RecordRowOK(x, from, to)
    BY <1>3 DEF AntigravityReadOK
  <2>2. x.e.ord \in Nat
    BY <2>1 DEF RecordRowOK, FileInv
  <2> DEFINE m == Message(x)
  <2>3. /\ m.class = x.row.class /\ m.epoch = x.epoch
        /\ m.time = x.e.rec.time /\ m.role = x.role /\ m.text = x.row.text
        /\ Primary(m) /\ m.cwd = read.cwd
        /\ m.aliases # {} /\ m.id = LogicalId(m.locator)
        /\ \A a \in m.aliases :
             /\ a.ord = x.e.ord /\ a.locator = m.locator
             /\ a.locator = OrdinalLocator(SessionName, a.ord)
    <3> DEFINE cwd == read.cwd
    <3>1. m = Antigravity!Message(x, SessionName, cwd)
      BY DEF Message
    <3> HIDE DEF cwd, m
    <3>2. QED
      BY <2>2, <3>1, AntigravityMessage DEF cwd
  <2> HIDE DEF m
  <2>4. \A a \in m.aliases :
          Located(a.ord, a.locator) /\ a.locator.session = SessionName
    <3>1. ASSUME NEW a \in m.aliases
          PROVE  Located(a.ord, a.locator) /\ a.locator.session = SessionName
      <4>1. a.locator = OrdinalLocator(SessionName, a.ord)
        BY <2>3
      <4>2. OrdinalLocator(SessionName, a.ord).session = SessionName
        BY DEF OrdinalLocator
      <4>3. NativeKey(file[a.ord]) \in Nameless
        BY DEF NativeKey, Nameless
      <4>4. QED
        BY <4>1, <4>2, <4>3 DEF Located, LocatorAt
    <3>2. QED
      BY <3>1
  <2>5. Content(m) \in Contents(x.e.ord)
    BY <2>1, <2>3 DEF RecordRowOK, Contents, ShapeContents, Content
  <2>6. MessageOK(m, from, to)
    BY <2>1, <2>3, <2>4, <2>5 DEF MessageOK, RecordRowOK
  <2>7. QED
    BY <2>3, <2>6 DEF m
<1> HIDE DEF Message
<1>7. BatchRows(Rows(messages), state, from, to)
  <2>1. \A m \in messages : MessageOK(m, from, to)
    BY <1>6
  <2>2. Shown(messages, from + 1, to)
    <3>1. SUFFICES ASSUME NEW i \in (from + 1)..to,
                          NEW class \in ClassesOf(i)
                   PROVE  \E m \in messages :
                            /\ m.class = class
                            /\ \E a \in m.aliases : a.ord = i
      BY DEF Shown
    <3>2. PICK x \in read.rows : x.row.class = class /\ x.e.ord = i
      BY <1>3 DEF AntigravityReadOK, Projected
    <3>3. Message(x) \in messages
      OBVIOUS
    <3>4. QED
      BY <1>6, <3>2, <3>3
  <2> HIDE DEF messages, to
  <2>3. QED
    BY <1>5, <2>1, <2>2, RowsOfMessages
<1>8. StateOK(next, to)
  BY <1>3, <1>4 DEF StateOK, AntigravityReadOK
<1>9. \A x \in Rows(messages) : x.cwd = next.cwd
  <2>1. \A m \in messages : m.cwd = next.cwd
    BY <1>4, <1>6
  <2> HIDE DEF messages
  <2>2. QED
    BY <2>1, RowsOf DEF RowFor
<1>10. BatchOK(parsed, state, from, to)
  BY <1>3, <1>4, <1>7, <1>8, <1>9
     DEF BatchOK, BatchState, AntigravityReadOK, OfSession, Established,
         BatchCwds
<1>11. QED
  BY <1>10 DEF parsed, envs

(***************************************************************************)
(* The steps.                                                              *)
(***************************************************************************)

(* What a record says when it is looked at alone stays as the file grows.  *)
Steady ==
  /\ provider' = provider
  /\ Len(file) \in Nat /\ Len(file') \in Nat /\ Len(file) <= Len(file')
  /\ \A i \in 1..Len(file) : file'[i] = file[i]
  /\ \A i \in 1..Len(file) : Projections(i)' = Projections(i)
  /\ \A i \in 1..Len(file) : ClassesOf(i)' = ClassesOf(i)
  /\ \A i \in 1..Len(file) : Contents(i)' = Contents(i)
  /\ \A i \in 1..Len(file) : EpochAt(i)' = EpochAt(i)
  /\ \A n \in 0..Len(file) : Boundaries(n)' = Boundaries(n)

LEMMA SteadyRecords ==
  ASSUME provider' = provider, Len(file) \in Nat, Len(file') \in Nat,
         Len(file) <= Len(file'), \A i \in 1..Len(file) : file'[i] = file[i]
  PROVE  Steady
<1>1. ASSUME NEW i \in 1..Len(file)
      PROVE  /\ Projections(i)' = Projections(i)
             /\ ClassesOf(i)' = ClassesOf(i)
             /\ BoundaryKeys(i)' = BoundaryKeys(i)
  <2>1. file'[i] = file[i]
    OBVIOUS
  <2>2. Alone(i)' = Alone(i)
    BY <2>1 DEF Alone
  <2>3. Projections(i)' = Projections(i)
    BY <2>2 DEF Projections
  <2>4. Decoded(i)' = Decoded(i)
    BY <2>1 DEF Decoded
  <2>5. ClassesOf(i)' = ClassesOf(i)
    BY <2>2, <2>3, <2>4 DEF ClassesOf
  <2>6. BoundaryKeys(i)' = BoundaryKeys(i)
    BY <2>1 DEF BoundaryKeys
  <2>7. QED
    BY <2>3, <2>5, <2>6
<1>2. ASSUME NEW n \in 0..Len(file) PROVE Boundaries(n)' = Boundaries(n)
  <2>1. \A i \in 1..n : i \in 1..Len(file)
    OBVIOUS
  <2>2. \A i \in 1..n : BoundaryKeys(i)' = BoundaryKeys(i)
    BY <1>1, <2>1
  <2>3. QED
    BY <2>2 DEF Boundaries
<1>3. ASSUME NEW i \in 1..Len(file) PROVE EpochAt(i)' = EpochAt(i)
  <2>1. i - 1 \in 0..Len(file)
    OBVIOUS
  <2>2. Boundaries(i - 1)' = Boundaries(i - 1)
    BY <1>2, <2>1
  <2>3. QED
    BY <2>2 DEF EpochAt
<1>4. ASSUME NEW i \in 1..Len(file) PROVE Contents(i)' = Contents(i)
  <2>1. file'[i] = file[i]
    OBVIOUS
  <2>2. QED
    BY <2>1 DEF Contents
<1>5. QED
  BY <1>1, <1>2, <1>3, <1>4 DEF Steady

LEMMA SteadyFacts ==
  ASSUME Steady, NEW n \in 0..Len(file)
  PROVE  /\ \A rows : RowsOK(rows, n) => RowsOK(rows, n)'
         /\ \A rows : \A from \in Nat : from # 0 /\ Complete(rows, from, n)
              => Complete(rows, from, n)'
         /\ \A rows : RowsOK(rows, n) /\ RowsPaired(rows)
              => RowsPaired(rows)'
         /\ \A s : StateOK(s, n) => StateOK(s, n)'
         /\ Admitted(n) => Admitted(n)'
<1>1. n \in Nat /\ \A i \in 1..n : i \in 1..Len(file)
  BY DEF Steady
<1>2. ASSUME NEW x, Tells(x), x.ord <= n PROVE Tells(x)'
  BY <1>2 DEF Steady, Tells
<1>3. ASSUME NEW i \in 1..Len(file), NEW locator, Located(i, locator)
      PROVE  Located(i, locator)'
  <2>1. file'[i] = file[i] /\ provider' = provider
    BY DEF Steady
  <2>2. NativeKey(file[i])' = NativeKey(file[i])
    BY <2>1 DEF NativeKey
  <2>3. Nameless' = Nameless
    BY <2>1 DEF Nameless
  <2>4. QED
    BY <1>3, <2>2, <2>3 DEF Located, LocatorAt
<1>4. ASSUME NEW rows, RowsOK(rows, n) PROVE RowsOK(rows, n)'
  <2>1. \A x \in rows : Tells(x)'
    BY <1>2, <1>4 DEF RowsOK, RowOK
  <2>2. \A x \in rows : Located(x.ord, x.alias)'
    BY <1>4, <1>3 DEF RowsOK, RowOK, Tells
  <2>3. \A x \in rows : Own(x) => Own(x)'
    BY DEF Own, NamedBy
  <2>4. ASSUME NEW x \in rows, provider # "codex"
        PROVE  (Content(x) \in Contents(x.ord))'
    <3>1. x.ord \in 1..Len(file) /\ Content(x) \in Contents(x.ord)
      BY <1>4, <2>4 DEF RowsOK, RowOK, Tells
    <3>2. Contents(x.ord)' = Contents(x.ord)
      BY <3>1 DEF Steady
    <3>3. QED
      BY <3>1, <3>2 DEF Content
  <2>5. \A x \in rows : Primary(x)' = Primary(x)
    BY DEF Primary
  <2>6. QED
    BY <1>4, <2>1, <2>2, <2>3, <2>4, <2>5
       DEF RowsOK, RowOK, NamedBy, Steady
<1>5. ASSUME NEW rows, NEW from \in Nat, from # 0, Complete(rows, from, n)
      PROVE  Complete(rows, from, n)'
  <2>1. \A i \in from..n : i \in 1..Len(file)
    BY <1>5 DEF Steady
  <2>2. \A i \in from..n : ClassesOf(i)' = ClassesOf(i)
    BY <2>1 DEF Steady
  <2>3. QED
    BY <1>5, <2>2 DEF Complete
<1>6. ASSUME NEW s, StateOK(s, n) PROVE StateOK(s, n)'
  <2>1. Boundaries(n)' = Boundaries(n) /\ provider' = provider
    BY DEF Steady
  <2>2. ASSUME NEW c, Waits(c, n) PROVE Waits(c, n)'
    <3>1. Tells(c)'
      BY <1>2, <2>2 DEF Waits
    <3>2. c.ord \in 1..Len(file) /\ c.ord \in Nat
      BY <2>2 DEF Waits, Tells, Steady
    <3>3. Located(c.ord, c.locator)'
      BY <1>3, <2>2, <3>2 DEF Waits, Shows
    <3>4. Projections(c.ord)' = Projections(c.ord)
          /\ file'[c.ord] = file[c.ord]
      BY <3>2 DEF Steady
    <3>5. Shows(c)'
      BY <2>2, <3>3, <3>4 DEF Waits, Shows
    <3>6. \A i \in (c.ord + 1)..n : ClassesOf(i)' = ClassesOf(i)
      BY <1>1, <3>2 DEF Steady
    <3>7. QED
      BY <2>2, <3>1, <3>5, <3>6 DEF Waits
  <2>3. Admissible(s)' = Admissible(s)
    BY DEF Admissible
  <2>4. ASSUME MetaKnown(s.session, s.kind, n)
        PROVE  MetaKnown(s.session, s.kind, n)'
    <3>1. \A i \in 2..n : i \in 1..Len(file)
      BY <1>1
    <3>2. OneMetaTo(n)' = OneMetaTo(n)
      BY <3>1 DEF OneMetaTo, Steady
    <3>3. n # 0 => file'[1] = file[1]
      BY <1>1 DEF Steady
    <3>4. QED
      BY <2>4, <3>2, <3>3 DEF MetaKnown, MetaKind
  <2>5. ASSUME CwdKnown(s.cwd, n) PROVE CwdKnown(s.cwd, n)'
    <3>1. \A i \in 1..n : CwdOf(i)' = CwdOf(i)
      BY <1>1 DEF Steady, CwdOf
    <3>2. \A i \in 1..n : \A j \in 1..(i - 1) : j \in 1..n
      OBVIOUS
    <3>3. QED
      BY <2>5, <3>1, <3>2 DEF CwdKnown
  <2>6. QED
    BY <1>6, <2>1, <2>2, <2>3, <2>4, <2>5 DEF StateOK
<1>7. ASSUME NEW rows, RowsOK(rows, n), RowsPaired(rows)
      PROVE  RowsPaired(rows)'
  <2>1. SUFFICES ASSUME provider = "codex", NEW x \in rows
                 PROVE  Own(x) \/ \E y \in rows : PairedWith(x, y)'
    BY DEF RowsPaired, Own, NamedBy, Steady
  <2>2. ASSUME NEW y \in rows, ProjectionPair(x, y)
        PROVE  ProjectionPair(x, y)'
    <3>1. x.ord \in 1..n /\ y.ord \in 1..n
      BY <1>1, <1>7 DEF RowsOK, RowOK, Tells
    <3>2. /\ Projections(x.ord)' = Projections(x.ord)
          /\ Projections(y.ord)' = Projections(y.ord)
      BY <1>1, <3>1 DEF Steady
    <3>3. /\ Boundaries(x.ord)' = Boundaries(x.ord)
          /\ Boundaries(y.ord)' = Boundaries(y.ord)
      BY <3>1 DEF Steady
    <3>4. \A i \in ((x.ord + 1)..(y.ord - 1))
                     \cup ((y.ord + 1)..(x.ord - 1)) :
            ClassesOf(i)' = ClassesOf(i)
      BY <1>1, <3>1 DEF Steady
    <3>5. QED
      BY <2>2, <3>2, <3>3, <3>4 DEF ProjectionPair, Boundaries
  <2>3. \A y \in rows : PairedWith(x, y) => PairedWith(x, y)'
    BY <2>2 DEF PairedWith, Own, NamedBy, MessageKey, Observation
  <2>4. QED
    BY <1>7, <2>1, <2>3 DEF RowsPaired
<1>8. ASSUME Admitted(n) PROVE Admitted(n)'
  <2>1. n # 0 => file'[1] = file[1]
    BY <1>1 DEF Steady
  <2>2. QED
    BY <1>8, <2>1 DEF Admitted, Admission, Steady
<1>9. QED
  BY <1>4, <1>5, <1>6, <1>7, <1>8

LEMMA StartOK ==
  ASSUME FileInv
  PROVE  StateOK(InitialState(provider), 0)
<1>1. Boundaries(0) = {} /\ Cardinality(Boundaries(0)) = 0
  BY BoundariesStep, FS_EmptySet
<1>2. CASE provider = "codex"
  <2>1. InitialState(provider) = Codex!Initial
    BY <1>2 DEF InitialState
  <2>2. Admissible(Codex!Initial)
    BY DEF Admissible, Codex!Initial, Codex!NoId, NoId
  <2>3. MetaKnown(NoId, Codex!NoKind, 0)
    BY DEF MetaKnown
  <2>4. QED
    BY <1>1, <1>2, <2>1, <2>2, <2>3
       DEF StateOK, Codex!Initial, Codex!NoId, NoId
<1>3. CASE provider = "claude"
  BY <1>1, <1>3 DEF StateOK, InitialState, Claude!Initial
<1>4. CASE provider = "antigravity"
  <2>1. InitialState(provider) = [epoch |-> 0, cwd |-> NoCwd]
    BY <1>4 DEF InitialState, Antigravity!Initial, Antigravity!NoCwd, NoCwd
  <2>2. CwdKnown(NoCwd, 0)
    BY DEF CwdKnown
  <2>3. QED
    BY <1>1, <1>4, <2>1, <2>2 DEF StateOK
<1>5. QED
  BY <1>2, <1>3, <1>4 DEF FileInv

LEMMA InitInv == Init => SessionInv
<1> SUFFICES ASSUME Init PROVE SessionInv
  OBVIOUS
<1>1. FileInv
  BY ProvidersAssumption DEF Init, FileInv
<1>2. StateOK(store, 0)
  BY <1>1, StartOK DEF Init
<1>3. Complete({}, 1, 0)
  BY DEF Complete
<1>4. CorpusInv
  BY <1>2, <1>3 DEF Init, CorpusInv, Admitted, RowsOK, RowsPaired, OfSession,
                   Unambiguous, Fields, CarryNames, Names
<1>5. RunInv
  BY DEF Init, RunInv, NoRun
<1>6. QED
  BY <1>1, <1>4, <1>5 DEF SessionInv

LEMMA GrowInv ==
  ASSUME SessionInv, Grow
  PROVE  SessionInv' /\ corpus' = corpus /\ Steady
<1>1. PICK rec \in UNION {Opening[provider], Following[provider]} :
        file' = Append(file, rec)
  BY DEF Grow
<1>2. file \in Seq(UNION {Opening[provider], Following[provider]})
  BY DEF SessionInv, FileInv
<1>3. /\ file' \in Seq(UNION {Opening[provider], Following[provider]})
      /\ Len(file') = Len(file) + 1 /\ Len(file) \in Nat
      /\ \A i \in 1..Len(file) : file'[i] = file[i]
  BY <1>1, <1>2
<1>4. /\ provider' = provider /\ status' = status /\ done' = done
      /\ store' = store /\ corpus' = corpus /\ run' = run
      /\ ~run.active
  BY DEF Grow
<1>5. Steady
  BY <1>3, <1>4, SteadyRecords
<1>6. done \in 0..Len(file) /\ done \in 0..Len(file')
  BY <1>3 DEF SessionInv, FileInv
<1>7. FileInv'
  BY <1>3, <1>4, <1>6 DEF SessionInv, FileInv
<1>8. CorpusInv'
  <2>1. RowsOK(corpus, done)'
    BY <1>4, <1>5, <1>6, SteadyFacts DEF SessionInv, CorpusInv
  <2>2. status # "excluded" =>
          /\ StateOK(store, done)' /\ Complete(corpus, 1, done)'
          /\ Admitted(done)'
    BY <1>4, <1>5, <1>6, SteadyFacts DEF SessionInv, CorpusInv
  <2>3. CarryNames(store, corpus)'
    BY <1>4 DEF SessionInv, CorpusInv, CarryNames, Names
  <2>4. RowsPaired(corpus)'
    BY <1>4, <1>5, <1>6, SteadyFacts DEF SessionInv, CorpusInv
  <2>5. OfSession(corpus, store)'
    BY <1>4 DEF SessionInv, CorpusInv, OfSession
  <2>6. QED
    BY <1>4, <2>1, <2>2, <2>3, <2>4, <2>5
       DEF SessionInv, CorpusInv, Unambiguous, Fields
<1>9. RunInv'
  BY <1>4 DEF RunInv
<1>10. QED
  BY <1>4, <1>5, <1>7, <1>8, <1>9 DEF SessionInv

(* A file that is not written to.                                          *)
LEMMA StillFile ==
  ASSUME FileInv, provider' = provider, file' = file
  PROVE  Steady
<1>1. Len(file) \in Nat
  BY DEF FileInv
<1>2. QED
  BY <1>1, SteadyRecords

(* The records and the corpus stay; only the run is another one.           *)
LEMMA SameCorpus ==
  ASSUME SessionInv, UNCHANGED <<provider, file, status, done, store, corpus>>
  PROVE  FileInv' /\ CorpusInv'
<1>1. Steady
  BY StillFile DEF SessionInv
<1>2. done \in 0..Len(file)
  BY DEF SessionInv, FileInv
<1>3. FileInv'
  BY DEF SessionInv, FileInv
<1>4. RowsOK(corpus, done)'
  BY <1>1, <1>2, SteadyFacts DEF SessionInv, CorpusInv
<1>5. status # "excluded" =>
        /\ StateOK(store, done)' /\ Complete(corpus, 1, done)'
        /\ Admitted(done)'
  BY <1>1, <1>2, SteadyFacts DEF SessionInv, CorpusInv
<1>6. CarryNames(store, corpus)'
  BY DEF SessionInv, CorpusInv, CarryNames, Names
<1>7. RowsPaired(corpus)' /\ OfSession(corpus, store)'
  <2>1. RowsPaired(corpus)'
    BY <1>1, <1>2, SteadyFacts DEF SessionInv, CorpusInv
  <2>2. QED
    BY <2>1 DEF SessionInv, CorpusInv, OfSession
<1>8. QED
  BY <1>3, <1>4, <1>5, <1>6, <1>7
     DEF SessionInv, CorpusInv, Unambiguous, Fields

LEMMA EndInv ==
  ASSUME SessionInv, FailRead \/ FailPublish \/ Crash
  PROVE  SessionInv' /\ corpus' = corpus
<1>1. /\ UNCHANGED <<provider, file, status, done, store, corpus>>
      /\ run' = NoRun
  BY DEF FailRead, FailPublish, Crash
<1>2. FileInv' /\ CorpusInv'
  BY <1>1, SameCorpus
<1>3. RunInv'
  BY <1>1 DEF RunInv, NoRun
<1>4. QED
  BY <1>1, <1>2, <1>3 DEF SessionInv

(* What is said of a run is said of the records and the corpus it reads.   *)
LEMMA SameRun ==
  ASSUME SessionInv, UNCHANGED <<provider, file, status, done, store, corpus>>,
         NEW r, RunOK(r)
  PROVE  RunOK(r)'
<1>1. Steady
  BY StillFile DEF SessionInv
<1> DEFINE from == IF r.replace THEN 1 ELSE done + 1
<1>2. r.pos \in 0..Len(file) /\ from \in Nat /\ from # 0
  BY DEF RunOK, SessionInv, FileInv
<1>3. /\ StateOK(r.state, r.pos)' /\ RowsOK(r.staged, r.pos)'
      /\ Admitted(r.pos)'
  BY <1>1, <1>2, SteadyFacts DEF RunOK
<1>4. Complete(r.staged, from, r.pos)'
  <2>1. Complete(r.staged, from, r.pos)
    BY DEF RunOK
  <2>2. from' = from
    OBVIOUS
  <2> HIDE DEF from
  <2>3. QED
    BY <1>1, <1>2, <2>1, <2>2, SteadyFacts
<1>5. /\ CarryNames(r.state, r.staged)' /\ Fields(r.staged)'
      /\ OfSession(r.staged, r.state)' /\ Unambiguous(r.staged)'
  BY DEF RunOK, CarryNames, Fields, Names, OfSession, Unambiguous
<1>6. RowsPaired(r.staged)'
  BY <1>1, <1>2, SteadyFacts DEF RunOK
<1>7. ~r.replace => CarryNames(r.state, corpus)' /\ OfSession(corpus, r.state)'
  BY DEF RunOK, CarryNames, Names, OfSession
<1>8. QED
  BY <1>3, <1>4, <1>5, <1>6, <1>7 DEF RunOK

LEMMA NextRun ==
  ASSUME SessionInv, UNCHANGED <<provider, file, status, done, store, corpus>>,
         RunOK(run')
  PROVE  SessionInv' /\ corpus' = corpus
<1>1. FileInv' /\ CorpusInv'
  BY SameCorpus
<1>2. RunOK(run)'
  BY SameRun
<1>3. QED
  BY <1>1, <1>2 DEF SessionInv, RunInv

(* The same row but for its cwd, which publication settles.                *)
SameRow(x, y) ==
  /\ x.ord = y.ord /\ x.class = y.class /\ x.epoch = y.epoch
  /\ x.id = y.id /\ x.alias = y.alias /\ x.locator = y.locator
  /\ Says(x) = Says(y)

LEMMA SameRowFacts ==
  ASSUME NEW x, NEW y
  PROVE  /\ SameRow(x, y) <=> /\ PrimaryKey(x) = PrimaryKey(y)
                             /\ SameIdentity(x, y) /\ Says(x) = Says(y)
         /\ SameRow(x, y) =>
              /\ RowOK(y) => RowOK(x)
              /\ \A locator : NamedBy(y, locator) => NamedBy(x, locator)
              /\ Own(x) = Own(y)
              /\ MessageKey(x) = MessageKey(y)
              /\ Observation(x) = Observation(y)
<1>1. SameRow(x, y) <=> /\ PrimaryKey(x) = PrimaryKey(y)
                        /\ SameIdentity(x, y) /\ Says(x) = Says(y)
  BY DEF SameRow, PrimaryKey, SameIdentity, Says
<1>2. ASSUME SameRow(x, y)
      PROVE  /\ \A locator : NamedBy(y, locator) <=> NamedBy(x, locator)
             /\ Own(x) = Own(y)
             /\ MessageKey(x) = MessageKey(y)
             /\ Observation(x) = Observation(y)
  BY <1>2 DEF SameRow, Says, Own, NamedBy, MessageKey, Observation
<1>3. ASSUME SameRow(x, y), RowOK(y) PROVE RowOK(x)
  <2>1. Content(x) = Content(y) /\ Primary(x) = Primary(y)
    BY <1>3 DEF SameRow, Says, Content, Primary
  <2>2. QED
    BY <1>2, <1>3, <2>1 DEF SameRow, RowOK, Tells
<1>4. QED
  BY <1>1, <1>2, <1>3

LEMMA SamePair ==
  ASSUME NEW x, NEW y, NEW v, NEW w, PairedWith(x, y),
         SameRow(v, x), SameRow(w, y)
  PROVE  PairedWith(v, w)
<1>1. /\ Own(w) /\ MessageKey(w) = MessageKey(v)
      /\ Observation(w) = Observation(v)
  BY SameRowFacts DEF PairedWith
<1>2. ProjectionPair(v, w)
  BY DEF PairedWith, SameRow, ProjectionPair
<1>3. QED
  BY <1>1, <1>2 DEF PairedWith

(* A run begins, from the first record or from the checkpoint.             *)
LEMMA NewRunOK ==
  ASSUME SessionInv, status # "excluded", NEW replace \in BOOLEAN,
         NEW ignoring, replace /\ provider # "antigravity" => corpus = {}
  PROVE  RunOK(NewRun(replace, ignoring))
<1> DEFINE new == NewRun(replace, ignoring)
<1>1. /\ DOMAIN new = {"active", "replace", "ignoring", "pos", "state",
                       "staged", "established"}
      /\ new.replace = replace /\ new.staged = {} /\ new.established = FALSE
      /\ new.pos = IF replace THEN 0 ELSE done
      /\ new.state = IF replace THEN InitialState(provider) ELSE store
  BY DEF NewRun
<1> HIDE DEF new
<1>2. done \in 0..Len(file) /\ Len(file) \in Nat
  BY DEF SessionInv, FileInv
<1>3. StateOK(new.state, new.pos)
  <2>1. FileInv
    BY DEF SessionInv
  <2>2. StateOK(InitialState(provider), 0)
    BY <2>1, StartOK
  <2>3. StateOK(store, done)
    BY DEF SessionInv, CorpusInv
  <2>4. QED
    BY <1>1, <2>2, <2>3
<1>4. Admitted(new.pos)
  BY <1>1 DEF Admitted, SessionInv, CorpusInv
<1>5. Complete({}, IF replace THEN 1 ELSE done + 1, new.pos)
  BY <1>1, <1>2 DEF Complete
<1>6. /\ CarryNames(new.state, {}) /\ RowsOK({}, new.pos) /\ Fields({})
      /\ RowsPaired({}) /\ OfSession({}, new.state) /\ Unambiguous({})
  BY DEF CarryNames, Names, RowsOK, Fields, RowsPaired, OfSession,
         Unambiguous
<1>7. ~replace => /\ done <= new.pos /\ CarryNames(new.state, corpus)
                  /\ OfSession(corpus, new.state)
  BY <1>1, <1>2 DEF SessionInv, CorpusInv
<1>8. RunOK(new)
  BY <1>1, <1>2, <1>3, <1>5, <1>6, <1>7, <1>4 DEF RunOK
<1>9. QED
  BY <1>8 DEF new

LEMMA BeginInv ==
  ASSUME SessionInv, Begin
  PROVE  SessionInv' /\ corpus' = corpus /\ RunOK(run')
<1>1. PICK ignoring \in BOOLEAN : run' = NewRun(status = "new", ignoring)
  BY DEF Begin
<1>2. /\ UNCHANGED <<provider, file, status, done, store, corpus>>
      /\ status # "excluded"
  BY DEF Begin
<1>3. status = "new" => corpus = {}
  BY DEF SessionInv, CorpusInv
<1> DEFINE replace == status = "new"
<1>4. /\ replace \in BOOLEAN
      /\ replace /\ provider # "antigravity" => corpus = {}
  BY <1>3
<1> HIDE DEF replace
<1>5. RunOK(NewRun(replace, ignoring))
  BY <1>2, <1>4, NewRunOK
<1>6. RunOK(run')
  BY <1>1, <1>5 DEF replace
<1>7. QED
  BY <1>2, <1>6, NextRun

LEMMA ReparseInv ==
  ASSUME SessionInv, Reparse
  PROVE  SessionInv' /\ corpus' = corpus /\ RunOK(run')
<1>1. /\ UNCHANGED <<provider, file, status, done, store, corpus>>
      /\ run' = NewRun(TRUE, run.ignoring)
      /\ run.active /\ run.established
  BY DEF Reparse, Again
<1>2. status # "excluded" /\ provider = "antigravity"
  BY <1>1 DEF SessionInv, RunInv, RunOK
<1>3. RunOK(NewRun(TRUE, run.ignoring))
  BY <1>2, NewRunOK
<1>4. QED
  BY <1>1, <1>3, NextRun

LEMMA ExcludeInv ==
  ASSUME SessionInv, Exclude
  PROVE  SessionInv' /\ corpus' = corpus
<1>1. /\ provider' = provider /\ file' = file /\ store' = store
      /\ corpus' = corpus /\ status' = "excluded" /\ done' = Len(file)
      /\ run' = NoRun /\ Admits(0) = "excluded"
  BY DEF Exclude
<1>2. provider = "antigravity"
  BY <1>1 DEF Admits, Admission
<1>3. Steady
  BY <1>1, StillFile DEF SessionInv
<1>4. Len(file) \in Nat /\ done \in 0..Len(file)
  BY DEF SessionInv, FileInv
<1>5. RowsOK(corpus, Len(file))
  <2>1. RowsOK(corpus, done)
    BY DEF SessionInv, CorpusInv
  <2>2. QED
    BY <1>4, <2>1 DEF RowsOK, RowOK, Tells
<1>6. RowsOK(corpus, done)'
  BY <1>1, <1>3, <1>4, <1>5, SteadyFacts
<1>7. CarryNames(store, corpus)'
  BY <1>1, <1>2 DEF CarryNames
<1>8. FileInv'
  BY <1>1, <1>4 DEF SessionInv, FileInv
<1>9. RowsPaired(corpus)' /\ OfSession(corpus, store)'
  BY <1>1, <1>2 DEF RowsPaired, OfSession
<1>10. CorpusInv'
  BY <1>1, <1>2, <1>6, <1>7, <1>9
     DEF SessionInv, CorpusInv, Unambiguous, Fields
<1>11. RunInv'
  BY <1>1 DEF RunInv, NoRun
<1>12. QED
  BY <1>1, <1>8, <1>10, <1>11 DEF SessionInv

(***************************************************************************)
(* A batch is read.                                                        *)
(***************************************************************************)
LEMMA BatchFacts ==
  ASSUME FileInv, NEW from \in Nat, NEW n \in Nat, n # 0,
         from + n <= Len(file), NEW state, StateOK(state, from),
         provider = "codex" => Identified(state, from, n)
  PROVE  BatchOK(Parse(Envelopes(from, n), state), state, from, from + n)
<1> DEFINE envs == Envelopes(from, n)
<1>1. CASE provider = "codex"
  <2>1. Parse(envs, state) = Codex!Parse(envs, state)
    BY <1>1 DEF Parse
  <2>2. QED
    BY <1>1, <2>1, CodexBatch
<1>2. CASE provider = "claude"
  <2>1. Parse(envs, state) = ParseClaude(envs, state)
    BY <1>2 DEF Parse
  <2>2. QED
    BY <1>2, <2>1, ClaudeBatch
<1>3. CASE provider = "antigravity"
  <2>1. Parse(envs, state) = Antigravity!Parse(envs, state, SessionName)
    BY <1>3 DEF Parse
  <2>2. QED
    BY <1>3, <2>1, AntigravityBatch
<1>4. QED
  BY <1>1, <1>2, <1>3 DEF FileInv

LEMMA RowsFields ==
  ASSUME NEW messages
  PROVE  Fields(Rows(messages))
<1> DEFINE R(m, a) ==
             [ord |-> a.ord, alias |-> a.locator, id |-> m.id,
              class |-> m.class, locator |-> m.locator, time |-> m.time,
              role |-> m.role, kind |-> m.kind, epoch |-> m.epoch,
              text |-> m.text, cwd |-> m.cwd, harness |-> m.harness]
           Of(m) == {R(m, a) : a \in m.aliases}
<1>1. Rows(messages) = UNION {Of(m) : m \in messages}
  BY DEF Rows
<1>2. \A m, a : R(m, a) = RowOf(R(m, a))
  BY DEF RowOf
<1>3. \A m : \A x \in Of(m) : \E a : x = R(m, a)
  OBVIOUS
<1> HIDE DEF R, Of
<1>4. \A x \in Rows(messages) : \E m, a : x = R(m, a)
  BY <1>1, <1>3
<1>5. QED
  BY <1>2, <1>4 DEF Fields

(* What a batch puts beside the rows that were staged before it.           *)
LEMMA StagedRows ==
  ASSUME FileInv, NEW from \in Nat, NEW to \in Nat, from <= to,
         NEW staged, NEW rows, NEW s, NEW t, NEW first \in Nat,
         RowsOK(staged, from), Complete(staged, first, from),
         Fields(staged), Fields(rows), CarryNames(s, staged),
         RowsPaired(staged), OfSession(staged, s),
         Unambiguous(staged), Unambiguous(rows),
         BatchRows(rows, s, from, to), BatchState(t, rows, s, from, to)
  PROVE  /\ RowsOK(Stage(staged, rows), to)
         /\ Complete(Stage(staged, rows), first, to)
         /\ Fields(Stage(staged, rows))
         /\ CarryNames(t, Stage(staged, rows))
         /\ RowsPaired(Stage(staged, rows))
         /\ OfSession(Stage(staged, rows), t)
         /\ Unambiguous(Stage(staged, rows))
<1> DEFINE both == Stage(staged, rows)
<1>1. /\ \A x \in both : \/ x \in rows
                          \/ /\ x \in staged
                             /\ \A y \in rows : PrimaryKey(x) # PrimaryKey(y)
      /\ \A x \in rows : x \in both
      /\ \A x \in staged : x \in both \/ \E y \in rows :
           PrimaryKey(x) = PrimaryKey(y)
  BY DEF Stage
<1> HIDE DEF both
<1>2. /\ \A x \in staged : RowOK(x) /\ x.ord <= from
      /\ \A x \in rows : RowOK(x) /\ x.ord <= to
      /\ \A x \in staged \cup rows : x.ord \in Nat
  BY DEF RowsOK, BatchRows, RowOK, Tells, FileInv
<1>3. RowsOK(both, to)
  BY <1>1, <1>2 DEF RowsOK
<1>4. Complete(both, first, to)
  <2>1. SUFFICES ASSUME NEW i \in first..to, NEW class \in ClassesOf(i)
                 PROVE  \E x \in both : x.ord = i /\ x.class = class
    BY DEF Complete
  <2>2. CASE i <= from
    <3>1. PICK x \in staged : x.ord = i /\ x.class = class
      BY <2>2 DEF Complete
    <3>2. CASE x \in both
      BY <3>1, <3>2
    <3>3. CASE x \notin both
      <4>1. PICK y \in rows : PrimaryKey(x) = PrimaryKey(y)
        BY <1>1, <3>3
      <4>2. y \in both /\ y.ord = i /\ y.class = class
        BY <1>1, <3>1, <4>1 DEF PrimaryKey
      <4>3. QED
        BY <4>2
    <3>4. QED
      BY <3>2, <3>3
  <2>3. CASE ~(i <= from)
    <3>1. i \in (from + 1)..to
      BY <2>3
    <3>2. PICK x \in rows : x.ord = i /\ x.class = class
      BY <3>1 DEF BatchRows, Complete
    <3>3. QED
      BY <1>1, <3>2
  <2>4. QED
    BY <2>2, <2>3
<1>5. Fields(both)
  BY <1>1 DEF Fields
<1>6. CarryNames(t, both)
  <2>1. SUFFICES ASSUME provider = "codex", NEW c \in t.carry,
                        NEW x \in both, PrimaryKey(x) = PrimaryKey(c)
                 PROVE  NamedBy(x, c.locator) /\ Says(x) = Says(c)
    BY DEF CarryNames, Names
  <2>2. Names(c, rows) /\ (c.ord <= from => c \in s.carry)
    BY <2>1 DEF BatchState
  <2>3. CASE x \in rows
    BY <2>1, <2>2, <2>3 DEF Names
  <2>4. CASE x \in staged
    <3>1. c.ord <= from
      BY <1>2, <2>1, <2>4 DEF PrimaryKey
    <3>2. Names(c, staged)
      BY <2>1, <2>2, <3>1 DEF CarryNames
    <3>3. QED
      BY <2>1, <2>4, <3>2 DEF Names
  <2>5. QED
    BY <1>1, <2>3, <2>4
<1>7. RowsPaired(both)
  <2>1. SUFFICES ASSUME provider = "codex", NEW x \in both, ~Own(x)
                 PROVE  \E y \in both : PairedWith(x, y)
    BY DEF RowsPaired
  <2>2. CASE x \in rows
    <3>1. PICK y \in rows : PairedWith(x, y)
      BY <2>1, <2>2 DEF BatchRows, RowsPaired
    <3>2. QED
      BY <1>1, <3>1
  <2>3. CASE x \in staged
    <3>1. PICK y \in staged : PairedWith(x, y)
      BY <2>1, <2>3 DEF RowsPaired
    <3>2. CASE y \in both
      BY <3>1, <3>2
    <3>3. CASE y \notin both
      <4>1. PICK z \in rows : PrimaryKey(y) = PrimaryKey(z)
        BY <1>1, <3>3
      <4>2. z.ord <= from
        BY <1>2, <4>1 DEF PrimaryKey
      <4>3. PICK c \in s.carry : /\ PrimaryKey(c) = PrimaryKey(z)
                                 /\ NamedBy(z, c.locator)
                                 /\ Says(z) = Says(c)
        BY <4>2 DEF BatchRows
      <4>4. NamedBy(y, c.locator) /\ Says(y) = Says(c)
        BY <2>1, <4>1, <4>3 DEF CarryNames, Names
      <4>5. SameRow(z, y)
        BY <4>1, <4>3, <4>4, SameRowFacts DEF NamedBy, SameIdentity
      <4>6. SameRow(x, x)
        BY DEF SameRow
      <4>7. PairedWith(x, z)
        BY <3>1, <4>5, <4>6, SamePair
      <4>8. QED
        BY <1>1, <4>7
    <3>4. QED
      BY <3>2, <3>3
  <2>4. QED
    BY <1>1, <2>2, <2>3
<1>8. OfSession(both, t)
  BY <1>1 DEF OfSession, BatchState
<1>9. Unambiguous(both)
  BY <1>1 DEF Unambiguous
<1>10. QED
  BY <1>3, <1>4, <1>5, <1>6, <1>7, <1>8, <1>9 DEF both

(* What a read leaves of the batch that it parsed.                         *)
Reading(n, parsed, rows) ==
  /\ n \in Nat /\ n # 0 /\ run.pos + n <= Len(file)
  /\ parsed = Parse(Envelopes(run.pos, n), run.state)
  /\ rows = Rows(parsed.messages) /\ Unambiguous(rows)
  /\ provider = "codex" => Identified(run.state, run.pos, n)
  /\ BatchOK(parsed, run.state, run.pos, run.pos + n)
  /\ DOMAIN run' = DOMAIN run
  /\ run'.pos = run.pos + n /\ run'.state = parsed.state
  /\ run'.staged = Stage(run.staged, rows)
  /\ run'.established = (run.established \/ Established(parsed))
  /\ run'.replace = run.replace

LEMMA ReadFacts ==
  ASSUME SessionInv, Read
  PROVE  \E n, parsed, rows : Reading(n, parsed, rows)
<1>1. PICK n \in 1..(Len(file) - run.pos) : ReadBatch(Batch(n), n)
  BY DEF Read
<1>2. RunOK(run) /\ FileInv /\ run.pos < Len(file)
  BY DEF SessionInv, RunInv, Read
<1> DEFINE from == run.pos
           s == run.state
           parsed == Batch(n)
           rows == Rows(Kept(parsed, run.ignoring))
           new == Staged(parsed, rows, n)
<1>3. /\ run' = new /\ ~Blocked(parsed, run.ignoring)
      /\ Unambiguous(rows)
  BY <1>1 DEF ReadBatch, StageBatch, Stageable
<1>4. /\ from \in Nat /\ n \in Nat /\ n # 0 /\ from + n <= Len(file)
  BY <1>2 DEF RunOK, FileInv
<1>5. parsed = Parse(Envelopes(from, n), s)
  BY DEF Batch
<1>6. /\ BatchOK(parsed, s, from, from + n)
      /\ provider = "codex" => Identified(s, from, n)
  <2>1. StateOK(s, from)
    BY <1>2 DEF RunOK
  <2> HIDE DEF from, s, parsed
  <2> DEFINE ignoring == run.ignoring
  <2>2. provider = "codex" => Identified(s, from, n)
    <3>1. ~Blocked(Parse(Envelopes(from, n), s), ignoring)
      BY <1>3, <1>5
    <3> HIDE DEF ignoring
    <3>2. QED
      BY <3>1, CodexIdentified DEF Parse
  <2>3. BatchOK(Parse(Envelopes(from, n), s), s, from, from + n)
    BY <1>2, <1>4, <2>1, <2>2, BatchFacts
  <2>4. QED
    BY <1>5, <2>2, <2>3
<1>7. rows = Rows(parsed.messages)
  <2>1. \A x \in Rows(parsed.messages) : RowOK(x)
    BY <1>6 DEF BatchOK, BatchRows
  <2>2. NotesOK(parsed.notes, Skips)
    BY <1>6 DEF BatchOK
  <2> HIDE DEF parsed
  <2>3. Kept(parsed, run.ignoring) = parsed.messages
    BY <1>2, <2>1, <2>2, NothingOmitted
  <2>4. QED
    BY <2>3
<1>8. /\ DOMAIN new = DOMAIN run
      /\ new.pos = from + n /\ new.state = parsed.state
      /\ new.staged = Stage(run.staged, rows)
      /\ new.established = (run.established \/ Established(parsed))
      /\ new.replace = run.replace
  BY <1>2 DEF Staged, RunOK
<1> HIDE DEF parsed, rows, new
<1>9. Reading(n, parsed, rows)
  BY <1>3, <1>4, <1>5, <1>6, <1>7, <1>8 DEF Reading
<1>10. QED
  BY <1>9

LEMMA ReadInv ==
  ASSUME SessionInv, Read
  PROVE  SessionInv' /\ corpus' = corpus /\ RunOK(run')
<1>1. PICK n, parsed, rows : Reading(n, parsed, rows)
  BY ReadFacts
<1>2. /\ UNCHANGED <<provider, file, status, done, store, corpus>>
      /\ run.active /\ run.pos < Len(file)
  BY DEF Read
<1>3. RunOK(run) /\ FileInv
  BY <1>2 DEF SessionInv, RunInv
<1> DEFINE from == run.pos
           to == from + n
           s == run.state
           new == run'
           first == IF run.replace THEN 1 ELSE done + 1
<1>4. Unambiguous(rows)
  BY <1>1 DEF Reading
<1>5. /\ from \in Nat /\ n \in Nat /\ to \in Nat /\ to <= Len(file)
      /\ from <= to /\ first \in Nat /\ done \in Nat
  BY <1>1, <1>3 DEF RunOK, FileInv, Reading
<1>6. BatchOK(parsed, s, from, to) /\ rows = Rows(parsed.messages)
  BY <1>1 DEF Reading
<1>7. /\ DOMAIN new = DOMAIN run
      /\ new.pos = to /\ new.state = parsed.state
      /\ new.staged = Stage(run.staged, rows)
      /\ new.established = (run.established \/ Established(parsed))
      /\ new.replace = run.replace
  BY <1>1 DEF Reading
<1> DEFINE t == parsed.state
           staged == run.staged
<1>8. /\ BatchRows(rows, s, from, to) /\ BatchState(t, rows, s, from, to)
      /\ Established(parsed) => provider = "antigravity"
      /\ Fields(rows)
  BY <1>6, RowsFields DEF BatchOK
<1>9. /\ RowsOK(staged, from) /\ Complete(staged, first, from)
       /\ Fields(staged) /\ CarryNames(s, staged)
       /\ RowsPaired(staged) /\ OfSession(staged, s)
       /\ Unambiguous(staged)
  BY <1>3 DEF RunOK
<1> HIDE DEF from, to, s, t, new, staged, first
<1>10. /\ RowsOK(Stage(staged, rows), to)
       /\ Complete(Stage(staged, rows), first, to)
       /\ Fields(Stage(staged, rows))
       /\ CarryNames(t, Stage(staged, rows))
       /\ RowsPaired(Stage(staged, rows))
       /\ OfSession(Stage(staged, rows), t)
       /\ Unambiguous(Stage(staged, rows))
  BY <1>3, <1>4, <1>5, <1>8, <1>9, StagedRows
<1>11. ASSUME ~run.replace
       PROVE  /\ done <= to /\ CarryNames(t, corpus) /\ OfSession(corpus, t)
              /\ \A x \in Stage(staged, rows), y \in corpus :
                   PrimaryKey(x) = PrimaryKey(y) =>
                     SameIdentity(x, y) /\ Says(x) = Says(y)
  <2>1. /\ done <= from /\ CarryNames(s, corpus) /\ OfSession(corpus, s)
        /\ \A x \in staged, y \in corpus :
             PrimaryKey(x) = PrimaryKey(y) =>
               SameIdentity(x, y) /\ Says(x) = Says(y)
    BY <1>3, <1>11 DEF RunOK, from, s, staged
  <2>2. \A y \in corpus : y.ord \in Nat /\ y.ord <= from
    <3>1. RowsOK(corpus, done)
      BY DEF SessionInv, CorpusInv
    <3>2. QED
      BY <1>3, <1>5, <2>1, <3>1 DEF RowsOK, RowOK, Tells, FileInv
  <2>3. CarryNames(t, corpus)
    <3>1. SUFFICES ASSUME provider = "codex", NEW c \in t.carry,
                          NEW y \in corpus, PrimaryKey(y) = PrimaryKey(c)
                   PROVE  NamedBy(y, c.locator) /\ Says(y) = Says(c)
      BY DEF CarryNames, Names
    <3>2. c.ord <= from
      BY <2>2, <3>1 DEF PrimaryKey
    <3>3. c \in s.carry
      BY <1>8, <3>1, <3>2 DEF BatchState
    <3>4. QED
      BY <2>1, <3>1, <3>3 DEF CarryNames, Names
  <2>4. ASSUME NEW x \in rows, NEW y \in corpus,
               PrimaryKey(x) = PrimaryKey(y)
        PROVE  SameIdentity(x, y) /\ Says(x) = Says(y)
    <3>1. x.ord <= from
      BY <2>2, <2>4 DEF PrimaryKey
    <3>2. PICK c \in s.carry : PrimaryKey(c) = PrimaryKey(x)
                               /\ NamedBy(x, c.locator) /\ Says(x) = Says(c)
      BY <1>8, <3>1 DEF BatchRows
    <3>3. provider = "codex"
      BY <1>8, <3>1 DEF BatchRows
    <3>4. NamedBy(y, c.locator) /\ Says(y) = Says(c)
      BY <2>1, <2>4, <3>2, <3>3 DEF CarryNames, Names
    <3>5. QED
      BY <3>2, <3>4 DEF NamedBy, SameIdentity
  <2>5. \A x \in Stage(staged, rows) : x \in staged \/ x \in rows
    BY DEF Stage
  <2>6. OfSession(corpus, t)
    BY <1>8, <2>1 DEF OfSession, BatchState
  <2>7. QED
    BY <1>5, <2>1, <2>3, <2>4, <2>5, <2>6
<1>12. Admitted(to)
  <2>1. run.pos # 0 => Admitted(run.pos)
    BY <1>3 DEF RunOK
  <2>2. Admits(run.pos) = "admitted"
    BY DEF Read
  <2>3. QED
    BY <2>1, <2>2 DEF Admitted, Admits
<1>13. RunOK(new)
  <2>1. DOMAIN new = {"active", "replace", "ignoring", "pos", "state",
                      "staged", "established"}
    BY <1>3, <1>7 DEF RunOK
  <2>2. new.pos \in 0..Len(file)
    BY <1>5, <1>7
  <2>3. /\ new.replace \in BOOLEAN /\ status # "excluded"
        /\ new.replace /\ provider # "antigravity" => corpus = {}
    BY <1>3, <1>7 DEF RunOK
  <2>4. new.established => provider = "antigravity"
    <3>1. run.established => provider = "antigravity"
      BY <1>3 DEF RunOK
    <3>2. QED
      BY <1>7, <1>8, <3>1
  <2>5. StateOK(new.state, new.pos) /\ Admitted(new.pos)
    BY <1>7, <1>8, <1>12 DEF BatchState, t
  <2>6. /\ RowsOK(new.staged, new.pos)
        /\ Complete(new.staged, IF new.replace THEN 1 ELSE done + 1, new.pos)
        /\ Fields(new.staged) /\ CarryNames(new.state, new.staged)
        /\ RowsPaired(new.staged) /\ OfSession(new.staged, new.state)
        /\ Unambiguous(new.staged)
    BY <1>7, <1>10 DEF t, staged, first
  <2>7. ~new.replace =>
          /\ done <= new.pos /\ CarryNames(new.state, corpus)
          /\ OfSession(corpus, new.state)
          /\ \A x \in new.staged, y \in corpus :
               PrimaryKey(x) = PrimaryKey(y) =>
                 SameIdentity(x, y) /\ Says(x) = Says(y)
    BY <1>7, <1>11 DEF t, staged
  <2>8. QED
    BY <2>1, <2>5, <2>6, <2>7, <2>2, <2>3, <2>4 DEF RunOK
<1>14. QED
  BY <1>2, <1>13, NextRun DEF new

(***************************************************************************)
(* Publication.                                                            *)
(***************************************************************************)

(* Publication sets the cwd of a row and nothing else.                     *)
Recast(new, old) ==
  /\ \A x \in new : \E y \in old : SameRow(x, y)
  /\ \A y \in old : \E x \in new : SameRow(x, y)
  /\ Fields(new)

LEMMA CwdRow ==
  ASSUME NEW r, r = RowOf(r), NEW cwd
  PROVE  /\ SameRow([r EXCEPT !.cwd = cwd], r)
         /\ [r EXCEPT !.cwd = cwd] = RowOf([r EXCEPT !.cwd = cwd])
         /\ [r EXCEPT !.cwd = cwd].cwd = cwd
<1> DEFINE cast == [ord |-> r.ord, alias |-> r.alias, id |-> r.id,
                    class |-> r.class, locator |-> r.locator,
                    time |-> r.time, role |-> r.role, kind |-> r.kind,
                    epoch |-> r.epoch, text |-> r.text, cwd |-> cwd,
                    harness |-> r.harness]
<1>1. [RowOf(r) EXCEPT !.cwd = cwd] = cast
  BY DEF RowOf
<1>2. [r EXCEPT !.cwd = cwd] = cast
  BY <1>1
<1>3. SameRow(cast, r) /\ cast.cwd = cwd
  BY DEF SameRow, Says
<1>4. cast = RowOf(cast)
  BY DEF RowOf
<1> HIDE DEF cast
<1>5. QED
  BY <1>2, <1>3, <1>4

LEMMA StampedRecast ==
  ASSUME NEW rows, NEW state, Fields(rows)
  PROVE  Recast(Stamped(rows, state), rows)
<1>1. CASE StateCwd(state) = NoCwd
  BY <1>1 DEF Stamped, Recast, SameRow
<1>2. CASE StateCwd(state) # NoCwd
  <2> DEFINE cast(r) == [r EXCEPT !.cwd = StateCwd(state)]
  <2>1. Stamped(rows, state) = {cast(r) : r \in rows}
    BY <1>2 DEF Stamped
  <2>2. \A r \in rows : SameRow(cast(r), r) /\ cast(r) = RowOf(cast(r))
    BY CwdRow DEF Fields
  <2> HIDE DEF cast
  <2>3. QED
    BY <2>1, <2>2 DEF Recast, Fields
<1>3. QED
  BY <1>1, <1>2

LEMMA SettledRecast ==
  ASSUME NEW rows, Fields(rows)
  PROVE  Recast(Settled(rows), rows)
<1> DEFINE cast(r) == [r EXCEPT !.cwd = Earliest(r, rows).cwd]
<1>1. Settled(rows) = {cast(r) : r \in rows}
  BY DEF Settled
<1>2. \A r \in rows : SameRow(cast(r), r) /\ cast(r) = RowOf(cast(r))
  BY CwdRow DEF Fields
<1> HIDE DEF cast
<1>3. QED
  BY <1>1, <1>2 DEF Recast, Fields

(* The new corpus has the rows the run staged, and of the old one those    *)
(* the run has no row for.                                                 *)
Carries(new, old, staged) ==
  /\ \A x \in new : \E y \in old \cup staged : SameRow(x, y)
  /\ \A y \in staged : \E x \in new : SameRow(x, y)
  /\ \A y \in old : \/ \E x \in new : SameRow(x, y)
                    \/ \E z \in staged : PrimaryKey(z) = PrimaryKey(y)
  /\ Fields(new)

LEMMA PublishedRows ==
  ASSUME NEW staged, NEW state, NEW replace \in BOOLEAN, Fields(staged),
         Fields(corpus)
  PROVE  Carries(Published(Stamped(staged, state), replace),
                 IF replace THEN {} ELSE corpus, staged)
<1> DEFINE rows == Stamped(staged, state)
           untouched == Untouched(rows, replace)
           remaining == Remaining(rows, replace)
           candidates == Candidates(rows, replace)
           settled == Settled(candidates)
           old == IF replace THEN {} ELSE corpus
           new == Published(rows, replace)
           affected == Affected(rows, replace)
<1>1. Recast(rows, staged)
  BY StampedRecast
<1>2. new = untouched \cup settled
  BY DEF Published
<1>3. candidates = {r \in remaining : \A s \in rows :
                      PrimaryKey(r) # PrimaryKey(s)} \cup rows
  BY DEF Candidates, Stage
<1>4. /\ untouched = {r \in corpus : MessageKey(r) \notin affected}
      /\ remaining = {r \in corpus : ~replace /\ MessageKey(r) \in affected}
  BY DEF Untouched, Remaining
<1>5. replace => \A r \in corpus : MessageKey(r) \in affected
  BY DEF Affected
<1> HIDE DEF affected
<1>6. /\ untouched \subseteq old /\ remaining \subseteq old
      /\ \A r \in old : r \in untouched \/ r \in remaining
  BY <1>4, <1>5
<1>7. Fields(old)
  BY DEF Fields
<1> HIDE DEF rows, untouched, remaining, candidates, new
<1>8. Fields(candidates)
  BY <1>1, <1>3, <1>6, <1>7 DEF Fields, Recast
<1>9. Recast(settled, candidates)
  BY <1>8, SettledRecast
<1> HIDE DEF settled, old
<1>10. \A x, y, z : SameRow(x, y) /\ SameRow(y, z) => SameRow(x, z)
  BY DEF SameRow
<1>11. \A x : SameRow(x, x)
  BY DEF SameRow
<1>12. ASSUME NEW x \in new
       PROVE  \E y \in old \cup staged : SameRow(x, y)
  <2>1. CASE x \in untouched
    BY <1>6, <1>11, <2>1
  <2>2. CASE x \in settled
    <3>1. PICK y \in candidates : SameRow(x, y)
      BY <1>9, <2>2 DEF Recast
    <3>2. CASE y \in rows
      <4>1. PICK z \in staged : SameRow(y, z)
        BY <1>1, <3>2 DEF Recast
      <4>2. QED
        BY <1>10, <3>1, <4>1
    <3>3. CASE y \in remaining
      BY <1>6, <3>1, <3>3
    <3>4. QED
      BY <1>3, <3>2, <3>3
  <2>3. QED
    BY <1>2, <2>1, <2>2
<1>13. \A y \in candidates : \E x \in new : SameRow(x, y)
  BY <1>2, <1>9 DEF Recast
<1>14. ASSUME NEW y \in staged PROVE \E x \in new : SameRow(x, y)
  <2>1. PICK z \in rows : SameRow(z, y)
    BY <1>1 DEF Recast
  <2>2. PICK x \in new : SameRow(x, z)
    BY <1>3, <1>13
  <2>3. QED
    BY <1>10, <2>1, <2>2
<1>15. ASSUME NEW y \in old
       PROVE  \/ \E x \in new : SameRow(x, y)
              \/ \E z \in staged : PrimaryKey(z) = PrimaryKey(y)
  <2>1. CASE y \in untouched
    BY <1>2, <1>11, <2>1
  <2>2. CASE y \in candidates
    BY <1>13, <2>2
  <2>3. CASE \E s \in rows : PrimaryKey(y) = PrimaryKey(s)
    <3>1. PICK s \in rows : PrimaryKey(y) = PrimaryKey(s)
      BY <2>3
    <3>2. PICK z \in staged : SameRow(s, z)
      BY <1>1 DEF Recast
    <3>3. PrimaryKey(s) = PrimaryKey(z)
      BY <3>2, SameRowFacts
    <3>4. QED
      BY <3>1, <3>3
  <2>4. QED
    BY <1>3, <1>6, <2>1, <2>2, <2>3
<1>16. Fields(new)
  BY <1>2, <1>6, <1>7, <1>9 DEF Fields, Recast
<1>17. Carries(new, old, staged)
  BY <1>12, <1>14, <1>15, <1>16 DEF Carries
<1>18. QED
  BY <1>17 DEF new, old, rows

(* What a publication leaves: the corpus is right again, and what it had   *)
(* is still there under the same name.                                     *)
LEMMA PublishInv ==
  ASSUME SessionInv, Publish
  PROVE  /\ SessionInv'
         /\ \A r \in corpus : \E s \in corpus' :
              PrimaryKey(s) = PrimaryKey(r) /\ SameIdentity(s, r)
<1>1. /\ run.active /\ run.pos = Len(file)
      /\ corpus' = Published(ToPublish, run.replace)
      /\ status' = "indexed" /\ done' = run.pos /\ store' = run.state
      /\ run' = NoRun /\ provider' = provider /\ file' = file
      /\ ~Rejected(ToPublish, run.replace)
  BY DEF Publish
<1>2. RunOK(run) /\ FileInv
  BY <1>1 DEF SessionInv, RunInv
<1> DEFINE pos == run.pos
           staged == run.staged
           state == run.state
           replace == run.replace
           new == Published(Stamped(staged, state), replace)
           old == IF replace THEN {} ELSE corpus
<1>3. corpus' = new
  BY <1>1 DEF ToPublish
<1>4. Unambiguous(new)
  BY <1>1 DEF Rejected, ToPublish
<1>5. /\ replace \in BOOLEAN /\ Fields(staged) /\ RowsOK(staged, pos)
      /\ StateOK(state, pos) /\ CarryNames(state, staged)
      /\ RowsPaired(staged) /\ OfSession(staged, state)
      /\ Complete(staged, IF replace THEN 1 ELSE done + 1, pos)
      /\ status # "excluded" /\ Admitted(pos)
      /\ replace /\ provider # "antigravity" => corpus = {}
      /\ ~replace =>
           /\ CarryNames(state, corpus) /\ OfSession(corpus, state)
           /\ \A x \in staged, y \in corpus :
                PrimaryKey(x) = PrimaryKey(y) =>
                  SameIdentity(x, y) /\ Says(x) = Says(y)
  BY <1>2 DEF RunOK
<1>6. /\ Fields(corpus) /\ RowsOK(corpus, done) /\ Complete(corpus, 1, done)
      /\ RowsPaired(corpus)
  BY <1>5 DEF SessionInv, CorpusInv
<1>7. Carries(new, old, staged)
  <2> HIDE DEF staged, state, replace
  <2>1. QED
    BY <1>5, <1>6, PublishedRows
<1>8. /\ pos \in Nat /\ done \in Nat /\ done <= pos /\ pos = Len(file)
  BY <1>1, <1>2 DEF FileInv
<1> HIDE DEF pos, staged, state, replace, new
<1>9. /\ \A x \in new : \E y \in old \cup staged : SameRow(x, y)
      /\ \A y \in staged : \E x \in new : SameRow(x, y)
      /\ \A y \in old : \/ \E x \in new : SameRow(x, y)
                        \/ \E z \in staged : PrimaryKey(z) = PrimaryKey(y)
  BY <1>7 DEF Carries
<1>10. old \subseteq corpus
  OBVIOUS
<1>11. RowsOK(new, pos)
  <2>1. SUFFICES ASSUME NEW x \in new PROVE RowOK(x) /\ x.ord <= pos
    BY DEF RowsOK
  <2>2. PICK y \in old \cup staged : SameRow(x, y)
    BY <1>9
  <2>3. RowOK(y) /\ y.ord \in Nat /\ y.ord <= pos
    <3>1. \A z \in corpus : RowOK(z) /\ z.ord <= done
      BY <1>6 DEF RowsOK
    <3>2. \A z \in staged : RowOK(z) /\ z.ord <= pos
      BY <1>5 DEF RowsOK
    <3>3. \A z : RowOK(z) => z.ord \in Nat
      BY <1>2 DEF RowOK, Tells, FileInv
    <3>4. QED
      BY <1>8, <1>10, <3>1, <3>2, <3>3
  <2>4. x.ord = y.ord
    BY <2>2 DEF SameRow
  <2>5. QED
    BY <2>2, <2>3, <2>4, SameRowFacts
<1>12. Complete(new, 1, pos)
  <2>1. SUFFICES ASSUME NEW i \in 1..pos, NEW class \in ClassesOf(i)
                 PROVE  \E x \in new : x.ord = i /\ x.class = class
    BY DEF Complete
  <2>2. ASSUME NEW y \in staged, y.ord = i, y.class = class
        PROVE  \E x \in new : x.ord = i /\ x.class = class
    BY <1>9, <2>2 DEF SameRow
  <2>3. CASE replace \/ i > done
    <3>1. \E y \in staged : y.ord = i /\ y.class = class
      BY <1>5, <1>8, <2>3 DEF Complete
    <3>2. QED
      BY <2>2, <3>1
  <2>4. CASE ~(replace \/ i > done)
    <3>1. i \in 1..done
      BY <1>8, <2>4
    <3>2. PICK y \in corpus : y.ord = i /\ y.class = class
      BY <1>6, <3>1 DEF Complete
    <3>3. CASE \E x \in new : SameRow(x, y)
      BY <3>2, <3>3 DEF SameRow
    <3>4. CASE \E z \in staged : PrimaryKey(z) = PrimaryKey(y)
      BY <2>2, <3>2, <3>4 DEF PrimaryKey
    <3>5. y \in old
      BY <2>4
    <3>6. QED
      BY <1>9, <3>3, <3>4, <3>5
  <2>5. QED
    BY <2>3, <2>4
<1>13. CarryNames(state, new)
  <2>1. SUFFICES ASSUME provider = "codex", NEW c \in state.carry,
                        NEW x \in new, PrimaryKey(x) = PrimaryKey(c)
                 PROVE  NamedBy(x, c.locator) /\ Says(x) = Says(c)
    BY DEF CarryNames, Names
  <2>2. PICK y \in old \cup staged : SameRow(x, y)
    BY <1>9
  <2>3. PrimaryKey(y) = PrimaryKey(c)
    BY <2>1, <2>2, SameRowFacts
  <2>4. NamedBy(y, c.locator) /\ Says(y) = Says(c)
    <3>1. CASE y \in staged
      BY <1>5, <2>1, <2>3, <3>1 DEF CarryNames, Names
    <3>2. CASE y \in old
      BY <1>5, <2>1, <2>3, <3>2 DEF CarryNames, Names
    <3>3. QED
      BY <3>1, <3>2
  <2>5. QED
    BY <2>2, <2>4, SameRowFacts
<1>14. ASSUME NEW y \in old \cup staged
       PROVE  \E x \in new : SameRow(x, y)
  <2>1. CASE y \in staged
    BY <1>9, <2>1
  <2>2. ASSUME NEW z \in staged, PrimaryKey(z) = PrimaryKey(y), y \in old
        PROVE  \E x \in new : SameRow(x, y)
    <3>1. SameRow(z, y)
      BY <1>5, <2>2, SameRowFacts
    <3>2. PICK x \in new : SameRow(x, z)
      BY <1>9
    <3>3. SameRow(x, y)
      BY <3>1, <3>2 DEF SameRow
    <3>4. QED
      BY <3>3
  <2>3. QED
    BY <1>9, <2>1, <2>2
<1>15. RowsPaired(new)
  <2>1. SUFFICES ASSUME provider = "codex", NEW x \in new, ~Own(x)
                 PROVE  \E w \in new : PairedWith(x, w)
    BY DEF RowsPaired
  <2>2. PICK y \in old \cup staged : SameRow(x, y)
    BY <1>9
  <2>3. ~Own(y)
    BY <2>1, <2>2, SameRowFacts
  <2>4. PICK z \in old \cup staged : PairedWith(y, z)
    <3>1. CASE y \in staged
      BY <1>5, <2>1, <2>3, <3>1 DEF RowsPaired
    <3>2. CASE y \in old
      BY <1>6, <2>1, <2>3, <3>2 DEF RowsPaired
    <3>3. QED
      BY <3>1, <3>2
  <2>5. PICK w \in new : SameRow(w, z)
    BY <1>14
  <2>6. QED
    BY <2>2, <2>4, <2>5, SamePair
<1>16. OfSession(new, state)
  <2>1. SUFFICES ASSUME provider = "codex", NEW x \in new
                 PROVE  state.session # NoId /\ x.alias.session = state.session
    BY DEF OfSession
  <2>2. PICK y \in old \cup staged : SameRow(x, y)
    BY <1>9
  <2>3. state.session # NoId /\ y.alias.session = state.session
    BY <1>5, <2>1, <2>2 DEF OfSession
  <2>4. QED
    BY <2>2, <2>3 DEF SameRow
<1>17. Steady /\ pos \in 0..Len(file)
  BY <1>1, <1>2, <1>8, StillFile
<1>18. FileInv'
  BY <1>1, <1>2, <1>17 DEF FileInv, pos
<1>19. CorpusInv'
  <2>1. /\ RowsOK(new, pos) /\ Complete(new, 1, pos) /\ StateOK(state, pos)
        /\ Unambiguous(new) /\ Fields(new) /\ CarryNames(state, new)
        /\ RowsPaired(new) /\ OfSession(new, state) /\ Admitted(pos)
    BY <1>4, <1>5, <1>7, <1>11, <1>12, <1>13, <1>15, <1>16 DEF Carries
  <2>2. /\ corpus' = new /\ done' = pos /\ store' = state
    BY <1>1, <1>3 DEF pos, state
  <2>3. RowsOK(corpus', done') /\ Complete(corpus', 1, done')
        /\ StateOK(store', done') /\ done' \in 0..Len(file)
        /\ RowsPaired(corpus') /\ Admitted(done')
    BY <1>17, <2>1, <2>2
  <2>4. RowsOK(corpus, done)' /\ Complete(corpus, 1, done)'
        /\ StateOK(store, done)' /\ RowsPaired(corpus)'
        /\ Admitted(done)'
    BY <1>17, <2>3, SteadyFacts
  <2>5. CarryNames(store, corpus)'
    <3>1. CarryNames(store', corpus')
      BY <2>1, <2>2
    <3>2. QED
      BY <1>1, <3>1 DEF CarryNames, Names
  <2>6. Unambiguous(corpus)' /\ Fields(corpus)' /\ OfSession(corpus, store)'
    <3>1. /\ Unambiguous(corpus') /\ Fields(corpus')
          /\ OfSession(corpus', store')
      BY <2>1, <2>2
    <3>2. QED
      BY <1>1, <3>1 DEF Unambiguous, Fields, OfSession
  <2>7. QED
    BY <1>1, <2>4, <2>5, <2>6 DEF CorpusInv
<1>20. RunInv'
  BY <1>1 DEF RunInv, NoRun
<1>21. ASSUME NEW r \in corpus
       PROVE  \E s \in new : PrimaryKey(s) = PrimaryKey(r)
                             /\ SameIdentity(s, r)
  <2>1. ASSUME NEW z \in staged, PrimaryKey(z) = PrimaryKey(r),
               SameIdentity(z, r)
        PROVE  \E s \in new : PrimaryKey(s) = PrimaryKey(r)
                              /\ SameIdentity(s, r)
    <3>1. PICK s \in new : SameRow(s, z)
      BY <1>9
    <3>2. PrimaryKey(s) = PrimaryKey(z) /\ SameIdentity(s, z)
      BY <3>1, SameRowFacts
    <3>3. SameIdentity(s, r)
      BY <2>1, <3>2 DEF SameIdentity
    <3>4. QED
      BY <2>1, <3>2, <3>3
  <2>2. CASE ~replace
    <3>1. CASE \E x \in new : SameRow(x, r)
      BY <3>1, SameRowFacts
    <3>2. CASE \E z \in staged : PrimaryKey(z) = PrimaryKey(r)
      <4>1. PICK z \in staged : PrimaryKey(z) = PrimaryKey(r)
        BY <3>2
      <4>2. SameIdentity(z, r)
        BY <1>5, <2>2, <4>1
      <4>3. QED
        BY <2>1, <4>1, <4>2
    <3>3. r \in old
      BY <2>2
    <3>4. QED
      BY <1>9, <3>1, <3>2, <3>3
  <2>3. CASE replace
    <3>1. provider = "antigravity"
      BY <1>5, <2>3
    <3>2. RowOK(r) /\ r.ord <= done
      BY <1>6 DEF RowsOK
    <3>3. r.ord \in 1..pos /\ r.class \in ClassesOf(r.ord)
      BY <1>2, <1>8, <3>2 DEF RowOK, Tells
    <3>4. PICK z \in staged : z.ord = r.ord /\ z.class = r.class
      BY <1>5, <2>3, <3>3 DEF Complete
    <3>5. RowOK(z)
      BY <1>5 DEF RowsOK
    <3>6. SameIdentity(z, r)
      BY <3>1, <3>2, <3>4, <3>5 DEF RowOK, NamedBy, SameIdentity
    <3>7. PrimaryKey(z) = PrimaryKey(r)
      BY <3>4 DEF PrimaryKey
    <3>8. QED
      BY <2>1, <3>6, <3>7
  <2>4. QED
    BY <1>5, <2>2, <2>3
<1>22. QED
  BY <1>3, <1>18, <1>19, <1>20, <1>21 DEF SessionInv

LEMMA StutterInv ==
  ASSUME SessionInv, UNCHANGED vars
  PROVE  SessionInv' /\ corpus' = corpus
<1>1. UNCHANGED <<provider, file, status, done, store, corpus, run>>
  BY DEF vars
<1>2. FileInv' /\ CorpusInv'
  BY <1>1, SameCorpus
<1>3. CASE run.active
  <2>1. RunOK(run')
    BY <1>1, <1>3 DEF SessionInv, RunInv
  <2>2. QED
    BY <1>1, <2>1, NextRun
<1>4. CASE ~run.active
  <2>1. RunInv'
    BY <1>1, <1>4 DEF RunInv
  <2>2. QED
    BY <1>1, <1>2, <2>1 DEF SessionInv
<1>5. QED
  BY <1>3, <1>4

(* Every step keeps the invariant; only a publication changes the corpus.  *)
LEMMA StepInv ==
  ASSUME SessionInv, [Next]_vars
  PROVE  /\ SessionInv'
         /\ \A r \in corpus : \E s \in corpus' :
              PrimaryKey(s) = PrimaryKey(r) /\ SameIdentity(s, r)
<1>1. ASSUME corpus' = corpus
      PROVE  \A r \in corpus : \E s \in corpus' :
               PrimaryKey(s) = PrimaryKey(r) /\ SameIdentity(s, r)
  BY <1>1 DEF SameIdentity
<1>2. CASE Grow
  BY <1>1, <1>2, GrowInv
<1>3. CASE Begin
  BY <1>1, <1>3, BeginInv
<1>4. CASE Read
  BY <1>1, <1>4, ReadInv
<1>5. CASE FailRead \/ FailPublish \/ Crash
  BY <1>1, <1>5, EndInv
<1>6. CASE Exclude
  BY <1>1, <1>6, ExcludeInv
<1>7. CASE Reparse
  BY <1>1, <1>7, ReparseInv
<1>8. CASE Publish
  BY <1>8, PublishInv
<1>9. CASE UNCHANGED vars
  BY <1>1, <1>9, StutterInv
<1>10. QED
  BY <1>2, <1>3, <1>4, <1>5, <1>6, <1>7, <1>8, <1>9 DEF Next

(* At every moment of every history, what is stored, staged and published  *)
(* is what the records read so far say, each looked at alone.              *)
THEOREM SessionIsKept == Spec => []SessionInv
<1>1. Init => SessionInv
  BY InitInv
<1>2. SessionInv /\ [Next]_vars => SessionInv'
  BY StepInv
<1>3. QED
  BY <1>1, <1>2, PTL DEF Spec

(***************************************************************************)
(* What follows from it.                                                   *)
(***************************************************************************)

(* No parser state that is stored, or handed to the next batch, is one the *)
(* parser refuses: no refresh reads a file again because of its state.     *)
THEOREM StatesAreAdmissible == Spec => []StateAdmissible
<1>1. SessionInv => StateAdmissible
  <2>1. SUFFICES ASSUME SessionInv, provider = "codex"
                 PROVE  /\ Admissible(store)
                        /\ run.active => Admissible(run.state)
    BY DEF StateAdmissible
  <2>2. StateOK(store, done)
    BY <2>1 DEF SessionInv, CorpusInv
  <2>3. run.active => StateOK(run.state, run.pos)
    BY <2>1 DEF SessionInv, RunInv, RunOK
  <2>4. QED
    BY <2>1, <2>2, <2>3 DEF StateOK
<1>2. QED
  BY <1>1, SessionIsKept, PTL

(* The epoch of a published message is the number of different boundaries  *)
(* before it, wherever the batches were cut.                               *)
THEOREM EpochsCountBoundaries == Spec => []EpochsAreBoundaries
<1>1. SessionInv => EpochsAreBoundaries
  <2>1. SUFFICES ASSUME SessionInv, NEW r \in corpus
                 PROVE  r.epoch = Cardinality(
                          UNION {BoundaryKeys(i) : i \in 1..(r.ord - 1)})
    BY DEF EpochsAreBoundaries
  <2>2. RowOK(r)
    BY <2>1 DEF SessionInv, CorpusInv, RowsOK
  <2>3. QED
    BY <2>2 DEF RowOK, Tells, EpochAt, Boundaries
<1>2. QED
  BY <1>1, SessionIsKept, PTL

(* Between the runs the corpus has every visible content of the records up *)
(* to the checkpoint, once, and nothing else.                              *)
THEOREM PublishedOnce == Spec => []VisibleRecordsPublished
<1>1. ASSUME SessionInv, status # "excluded"
      PROVE  /\ {PrimaryKey(r) : r \in corpus} =
                  {<<i, class>> : i \in 1..done, class \in RowClasses}
                    \cap UNION {{<<i, class>> : class \in ClassesOf(i)} :
                                  i \in 1..done}
             /\ Unambiguous(corpus)
  <2> DEFINE visible(i) == {<<i, class>> : class \in ClassesOf(i)}
             keys == {PrimaryKey(r) : r \in corpus}
             pairs == {<<i, class>> : i \in 1..done, class \in RowClasses}
  <2>1. /\ RowsOK(corpus, done) /\ Complete(corpus, 1, done)
        /\ Unambiguous(corpus) /\ done \in 0..Len(file) /\ Len(file) \in Nat
    BY <1>1 DEF SessionInv, FileInv, CorpusInv
  <2>2. ASSUME NEW r \in corpus
        PROVE  /\ r.ord \in 1..done /\ r.class \in ClassesOf(r.ord)
               /\ r.class \in RowClasses
    BY <2>1 DEF RowsOK, RowOK, Tells
  <2>3. keys \subseteq pairs
    BY <2>2 DEF PrimaryKey
  <2>4. keys \subseteq UNION {visible(i) : i \in 1..done}
    <3>1. SUFFICES ASSUME NEW r \in corpus
                   PROVE  \E i \in 1..done : PrimaryKey(r) \in visible(i)
      OBVIOUS
    <3>2. PrimaryKey(r) \in visible(r.ord)
      BY <2>2 DEF PrimaryKey
    <3>3. QED
      BY <2>2, <3>2
  <2>5. ASSUME NEW i \in 1..done, NEW key \in visible(i)
        PROVE  key \in keys
    <3>1. PICK class \in ClassesOf(i) : key = <<i, class>>
      OBVIOUS
    <3>2. PICK r \in corpus : r.ord = i /\ r.class = class
      BY <2>1 DEF Complete
    <3>3. QED
      BY <3>1, <3>2 DEF PrimaryKey
  <2> HIDE DEF visible, keys, pairs
  <2>6. keys = pairs \cap UNION {visible(i) : i \in 1..done}
    BY <2>3, <2>4, <2>5
  <2>7. QED
    BY <2>1, <2>6 DEF visible, keys, pairs
<1>2. SessionInv => VisibleRecordsPublished
  BY <1>1 DEF VisibleRecordsPublished, RowClasses
<1>3. QED
  BY <1>2, SessionIsKept, PTL

(* No step takes a published record's row, locator, message or canonical   *)
(* locator away.                                                           *)
THEOREM IdentitiesAreKept == Spec => IdentitiesStay
<1>1. SessionInv /\ [Next]_vars =>
        [\A r \in corpus : \E s \in corpus' :
           /\ PrimaryKey(s) = PrimaryKey(r)
           /\ <<s.id, s.alias, s.locator>> =
                <<r.id, r.alias, r.locator>>]_corpus
  BY StepInv DEF SameIdentity
<1>2. QED
  BY <1>1, SessionIsKept, PTL DEF Spec, IdentitiesStay

LEMMA PairIsSymmetric ==
  ASSUME NEW x, NEW y, ProjectionPair(x, y)
  PROVE  ProjectionPair(y, x)
<1>1. PICK c \in Projections(x.ord), d \in Projections(y.ord) :
        /\ {c.family, d.family} = {"response", "event"}
        /\ <<c.role, c.text>> = <<d.role, d.text>>
  BY DEF ProjectionPair
<1>2. {d.family, c.family} = {"response", "event"}
  BY <1>1
<1>3. <<d.role, d.text>> = <<c.role, c.text>>
  BY <1>1
<1>4. QED
  BY <1>1, <1>2, <1>3 DEF ProjectionPair

LEMMA LocatedForms ==
  ASSUME NEW n, NEW locator, Located(n, locator)
  PROVE  \/ /\ locator.key = "ordinal" /\ locator.ord = n
            /\ locator = [session |-> locator.session, key |-> "ordinal",
                          ord |-> n]
         \/ /\ NativeKey(file[n]) # NoId
            /\ locator.key = NativeKey(file[n]) /\ locator.ord = 0
            /\ locator = [session |-> locator.session,
                          key |-> NativeKey(file[n]), ord |-> 0]
BY DEF Located, LocatorAt, Nameless, OrdinalLocator, IdLocator

(* Two rows that name their message themselves share it only under one     *)
(* locator key.                                                            *)
LEMMA OwnersOfOne ==
  ASSUME NEW x, NEW y, RowOK(x), RowOK(y), Own(x), Own(y), x.id = y.id,
         FileInv
  PROVE  /\ x.alias.session = y.alias.session => x.alias = y.alias
         /\ \/ x.ord = y.ord
            \/ /\ NativeKey(file[x.ord]) = NativeKey(file[y.ord])
               /\ NativeKey(file[x.ord]) # NoId
<1>1. [key |-> x.alias.key, ord |-> x.alias.ord] =
        [key |-> y.alias.key, ord |-> y.alias.ord]
  BY DEF Own, NamedBy, LogicalId
<1>2. x.alias.key = y.alias.key /\ x.alias.ord = y.alias.ord
  BY <1>1
<1>3. x.ord \in 1..Len(file) /\ y.ord \in 1..Len(file) /\ Len(file) \in Nat
  BY DEF RowOK, Tells, FileInv
<1>4. Located(x.ord, x.alias) /\ Located(y.ord, y.alias)
  BY DEF RowOK
<1> DEFINE u == x.alias
           v == y.alias
<1> HIDE DEF u, v
<1>5. /\ \/ /\ u.key = "ordinal" /\ u.ord = x.ord
            /\ u = [session |-> u.session, key |-> "ordinal", ord |-> x.ord]
         \/ /\ NativeKey(file[x.ord]) # NoId
            /\ u.key = NativeKey(file[x.ord]) /\ u.ord = 0
            /\ u = [session |-> u.session, key |-> NativeKey(file[x.ord]),
                    ord |-> 0]
      /\ \/ /\ v.key = "ordinal" /\ v.ord = y.ord
            /\ v = [session |-> v.session, key |-> "ordinal", ord |-> y.ord]
         \/ /\ NativeKey(file[y.ord]) # NoId
            /\ v.key = NativeKey(file[y.ord]) /\ v.ord = 0
            /\ v = [session |-> v.session, key |-> NativeKey(file[y.ord]),
                    ord |-> 0]
  BY <1>4, LocatedForms DEF u, v
<1>6. u.key = v.key /\ u.ord = v.ord
  BY <1>2 DEF u, v
<1>7. u = [session |-> u.session, key |-> u.key, ord |-> u.ord]
  BY <1>5
<1>8. v = [session |-> v.session, key |-> v.key, ord |-> v.ord]
  BY <1>5
<1>9. u.session = v.session => u = v
  BY <1>6, <1>7, <1>8
<1>10. \/ x.ord = y.ord
       \/ /\ NativeKey(file[x.ord]) = NativeKey(file[y.ord])
          /\ NativeKey(file[x.ord]) # NoId
  BY <1>3, <1>5, <1>6
<1>11. QED
  BY <1>9, <1>10 DEF u, v

(* Two records of a Codex file share a message only as the two projections *)
(* of one text, or as copies under one native id.                          *)
THEOREM SharedOnlyByPairs == Spec => []PairsAreProjections
<1>1. SessionInv => PairsAreProjections
  <2>1. SUFFICES ASSUME SessionInv, provider = "codex", NEW r \in corpus,
                        NEW t \in corpus \ {r}, MessageKey(t) = MessageKey(r)
                 PROVE  \E s \in corpus \ {r} :
                          /\ MessageKey(s) = MessageKey(r)
                          /\ s.alias = r.alias \/ ProjectionPair(r, s)
    BY DEF PairsAreProjections
  <2>2. /\ FileInv /\ RowsOK(corpus, done) /\ RowsPaired(corpus)
        /\ OfSession(corpus, store)
    BY <2>1 DEF SessionInv, CorpusInv
  <2>3. \A x \in corpus : Own(x) \/ \E y \in corpus : PairedWith(x, y)
    BY <2>1, <2>2 DEF RowsPaired
  <2>4. ASSUME NEW s \in corpus, Own(s), Own(r),
               MessageKey(s) = MessageKey(r)
        PROVE  s.alias = r.alias
    <3>1. RowOK(s) /\ RowOK(r) /\ s.id = r.id
      BY <2>2, <2>4 DEF RowsOK, MessageKey
    <3>2. s.alias.session = r.alias.session
      BY <2>1, <2>2 DEF OfSession
    <3>3. QED
      BY <2>2, <2>4, <3>1, <3>2, OwnersOfOne
  <2>5. CASE ~Own(r)
    <3>1. PICK y \in corpus : PairedWith(r, y)
      BY <2>3, <2>5
    <3>2. /\ Own(y) /\ MessageKey(y) = MessageKey(r)
          /\ ProjectionPair(r, y)
      BY <3>1 DEF PairedWith
    <3>3. y # r
      BY <2>5, <3>2
    <3>4. QED
      BY <3>2, <3>3
  <2>6. CASE Own(r) /\ Own(t)
    BY <2>1, <2>4, <2>6
  <2>7. CASE Own(r) /\ ~Own(t)
    <3>1. PICK y \in corpus : PairedWith(t, y)
      BY <2>1, <2>3, <2>7
    <3>2. /\ Own(y) /\ MessageKey(y) = MessageKey(t)
          /\ ProjectionPair(t, y)
      BY <3>1 DEF PairedWith
    <3>3. CASE y = r
      <4>1. ProjectionPair(r, t)
        BY <3>2, <3>3, PairIsSymmetric
      <4>2. QED
        BY <2>1, <4>1
    <3>4. CASE y # r
      BY <2>1, <2>4, <2>7, <3>2, <3>4
    <3>5. QED
      BY <3>3, <3>4
  <2>8. QED
    BY <2>5, <2>6, <2>7
<1>2. QED
  BY <1>1, SessionIsKept, PTL

(***************************************************************************)
(* What a publication is refused over.                                     *)
(***************************************************************************)

(* What a run may publish: what it staged, and what it does not replace.   *)
Prior == IF run.replace THEN {} ELSE corpus
Known == Prior \cup run.staged

LEMMA KnownRows ==
  ASSUME SessionInv, run.active
  PROVE  /\ RowsOK(Known, Len(file)) /\ RowsPaired(Known)
         /\ \A x, y \in Known : PrimaryKey(x) = PrimaryKey(y) => SameRow(x, y)
<1>1. RunOK(run) /\ FileInv /\ CorpusInv
  BY DEF SessionInv, RunInv
<1>2. /\ RowsOK(run.staged, run.pos) /\ RowsOK(corpus, done)
      /\ RowsPaired(run.staged) /\ RowsPaired(corpus)
      /\ Unambiguous(run.staged) /\ Unambiguous(corpus)
      /\ run.pos \in 0..Len(file) /\ done \in 0..Len(file)
      /\ Len(file) \in Nat
      /\ ~run.replace => \A x \in run.staged, y \in corpus :
           PrimaryKey(x) = PrimaryKey(y) =>
             SameIdentity(x, y) /\ Says(x) = Says(y)
  BY <1>1 DEF RunOK, CorpusInv, FileInv
<1> DEFINE staged == run.staged
           old == Prior
<1>3. /\ \A x \in Known : x \in old \/ x \in staged
      /\ \A x \in old : x \in Known
      /\ \A x \in staged : x \in Known
      /\ \A x \in old : x \in corpus /\ ~run.replace
      /\ \A x \in old : \A y \in corpus : y \in old
  BY DEF Known, Prior
<1> HIDE DEF staged, old
<1>4. RowsOK(Known, Len(file))
  <2>1. SUFFICES ASSUME NEW x \in Known
                 PROVE  RowOK(x) /\ x.ord <= Len(file)
    BY DEF RowsOK
  <2>2. RowOK(x)
    BY <1>2, <1>3 DEF RowsOK, staged
  <2>3. x.ord <= Len(file)
    BY <1>2, <2>2 DEF RowOK, Tells
  <2>4. QED
    BY <2>2, <2>3
<1>5. RowsPaired(Known)
  BY <1>2, <1>3 DEF RowsPaired, staged
<1>6. ASSUME NEW x \in Known, NEW y \in Known, PrimaryKey(x) = PrimaryKey(y)
      PROVE  SameRow(x, y)
  <2>1. CASE x \in staged /\ y \in staged
    <3>1. x = y
      BY <1>2, <1>6, <2>1 DEF Unambiguous, staged
    <3>2. QED
      BY <3>1 DEF SameRow
  <2>2. CASE x \in old /\ y \in old
    <3>1. x = y
      BY <1>2, <1>3, <1>6, <2>2 DEF Unambiguous
    <3>2. QED
      BY <3>1 DEF SameRow
  <2>3. CASE x \in staged /\ y \in old
    <3>1. SameIdentity(x, y) /\ Says(x) = Says(y)
      BY <1>2, <1>3, <1>6, <2>3 DEF staged
    <3>2. QED
      BY <1>6, <3>1, SameRowFacts
  <2>4. CASE x \in old /\ y \in staged
    <3>1. SameIdentity(y, x) /\ Says(y) = Says(x)
      BY <1>2, <1>3, <1>6, <2>4 DEF staged
    <3>2. SameIdentity(x, y)
      BY <3>1 DEF SameIdentity
    <3>3. QED
      BY <1>6, <3>1, <3>2, SameRowFacts
  <2>5. QED
    BY <1>3, <2>1, <2>2, <2>3, <2>4
<1>7. QED
  BY <1>4, <1>5, <1>6

(* Without copies one message is one observation.                          *)
LEMMA OneObservation ==
  ASSUME SessionInv, run.active, ~Copied, NEW x \in Known, NEW y \in Known,
         MessageKey(x) = MessageKey(y)
  PROVE  Observation(x) = Observation(y)
<1>1. /\ RowsOK(Known, Len(file)) /\ RowsPaired(Known)
      /\ \A v, w \in Known : PrimaryKey(v) = PrimaryKey(w) => SameRow(v, w)
  BY KnownRows
<1>2. FileInv /\ Len(file) \in Nat
  BY DEF SessionInv, FileInv
<1>3. \A v \in Known : \E w \in Known :
        /\ Own(w) /\ MessageKey(w) = MessageKey(v)
        /\ Observation(w) = Observation(v)
  <2>1. SUFFICES ASSUME NEW v \in Known
                 PROVE  \E w \in Known :
                          /\ Own(w) /\ MessageKey(w) = MessageKey(v)
                          /\ Observation(w) = Observation(v)
    OBVIOUS
  <2>2. CASE Own(v)
    BY <2>2
  <2>3. CASE ~Own(v)
    <3>1. provider = "codex"
      BY <1>1, <2>3 DEF RowsOK, RowOK
    <3>2. PICK w \in Known : PairedWith(v, w)
      BY <1>1, <2>3, <3>1 DEF RowsPaired
    <3>3. QED
      BY <3>2 DEF PairedWith
  <2>4. QED
    BY <2>2, <2>3
<1>4. PICK v \in Known : /\ Own(v) /\ MessageKey(v) = MessageKey(x)
                         /\ Observation(v) = Observation(x)
  BY <1>3
<1>5. PICK w \in Known : /\ Own(w) /\ MessageKey(w) = MessageKey(y)
                         /\ Observation(w) = Observation(y)
  BY <1>3
<1>6. v.id = w.id /\ v.class = w.class
  BY <1>4, <1>5 DEF MessageKey
<1>7. RowOK(v) /\ RowOK(w)
  BY <1>1 DEF RowsOK
<1>8. v.ord \in 1..Len(file) /\ w.ord \in 1..Len(file)
  BY <1>7 DEF RowOK, Tells
<1>9. v.ord = w.ord
  <2>1. SUFFICES ASSUME NativeKey(file[v.ord]) = NativeKey(file[w.ord]),
                        NativeKey(file[v.ord]) # NoId, v.ord # w.ord
                 PROVE  FALSE
    BY <1>2, <1>4, <1>5, <1>6, <1>7, OwnersOfOne
  <2>2. v.ord < w.ord \/ w.ord < v.ord
    BY <1>2, <1>8, <2>1
  <2>3. QED
    BY <1>8, <2>1, <2>2 DEF Copied
<1>10. SameRow(v, w)
  BY <1>1, <1>6, <1>9 DEF PrimaryKey
<1>11. Observation(v) = Observation(w)
  BY <1>10, SameRowFacts
<1>12. QED
  BY <1>4, <1>5, <1>11

(* The rows that are settled are rows of the run or of the corpus, each    *)
(* record's content once.                                                  *)
LEMMA CandidateRows ==
  ASSUME SessionInv, run.active
  PROVE  LET candidates == Candidates(ToPublish, run.replace)
             untouched == Untouched(ToPublish, run.replace)
         IN /\ Fields(candidates)
            /\ \A x \in candidates : \E y \in Known : SameRow(x, y)
            /\ Unambiguous(candidates)
            /\ \A x \in candidates, y \in untouched :
                 PrimaryKey(x) # PrimaryKey(y)
<1> DEFINE rows == Stamped(run.staged, run.state)
           replace == run.replace
           staged == run.staged
           candidates == Candidates(rows, replace)
           remaining == Remaining(rows, replace)
           affected == Affected(rows, replace)
           untouched == Untouched(rows, replace)
<1>1. RunOK(run) /\ CorpusInv
  BY DEF SessionInv, RunInv
<1>2. /\ Fields(staged) /\ Fields(corpus) /\ Unambiguous(staged)
      /\ Unambiguous(corpus) /\ replace \in BOOLEAN
  BY <1>1 DEF RunOK, CorpusInv
<1>3. Recast(rows, staged)
  BY <1>2, StampedRecast
<1>4. Unambiguous(rows)
  <2>1. CASE StateCwd(run.state) = NoCwd
    BY <1>2, <2>1 DEF Stamped
  <2>2. CASE StateCwd(run.state) # NoCwd
    <3> DEFINE cast(r) == [r EXCEPT !.cwd = StateCwd(run.state)]
    <3>1. rows = {cast(r) : r \in staged}
      BY <2>2 DEF Stamped
    <3>2. \A r \in staged : SameRow(cast(r), r)
      BY <1>2, CwdRow DEF Fields
    <3> HIDE DEF cast
    <3>3. \A r \in staged : PrimaryKey(cast(r)) = PrimaryKey(r)
      BY <3>2, SameRowFacts
    <3>4. QED
      BY <1>2, <3>1, <3>3 DEF Unambiguous
  <2>3. QED
    BY <2>1, <2>2
<1>5. candidates = {r \in remaining : \A s \in rows :
                      PrimaryKey(r) # PrimaryKey(s)} \cup rows
  BY DEF Candidates, Stage
<1>6. /\ untouched = {r \in corpus : MessageKey(r) \notin affected}
      /\ remaining = {r \in corpus : ~replace /\ MessageKey(r) \in affected}
      /\ \A r \in rows : MessageKey(r) \in affected
      /\ replace => \A r \in corpus : MessageKey(r) \in affected
  BY DEF Untouched, Remaining, Affected
<1>7. /\ \A x \in remaining : x \in Known
      /\ \A x \in staged : x \in Known
      /\ ~replace => \A x \in corpus : x \in Known
  BY DEF Remaining, Known, Prior
<1>8. ToPublish = rows
  BY DEF ToPublish
<1>9. \A x, y \in Known : PrimaryKey(x) = PrimaryKey(y) => SameRow(x, y)
  BY KnownRows
<1> HIDE DEF rows, candidates, remaining, affected, untouched, staged, replace
<1>10. Fields(candidates)
  BY <1>2, <1>3, <1>5, <1>6 DEF Recast, Fields
<1>11. \A x \in candidates : \E y \in Known : SameRow(x, y)
  <2>1. \A x \in rows : \E y \in Known : SameRow(x, y)
    BY <1>3, <1>7 DEF Recast
  <2>2. \A x \in remaining : SameRow(x, x)
    BY DEF SameRow
  <2>3. QED
    BY <1>5, <1>7, <2>1, <2>2
<1>12. Unambiguous(candidates)
  BY <1>2, <1>4, <1>5, <1>6 DEF Unambiguous
<1>13. ASSUME NEW x \in candidates, NEW y \in untouched
       PROVE  PrimaryKey(x) # PrimaryKey(y)
  <2>1. SUFFICES ASSUME PrimaryKey(x) = PrimaryKey(y)
                 PROVE  MessageKey(x) \in affected
                        /\ MessageKey(x) = MessageKey(y)
    BY <1>6
  <2>2. y \in corpus /\ ~replace /\ y \in Known
    BY <1>2, <1>6, <1>7
  <2>3. MessageKey(x) \in affected
    BY <1>5, <1>6
  <2>4. PICK z \in Known : SameRow(x, z)
    BY <1>11
  <2>5. PrimaryKey(z) = PrimaryKey(y) /\ MessageKey(x) = MessageKey(z)
    BY <2>1, <2>4, SameRowFacts
  <2>6. MessageKey(z) = MessageKey(y)
    BY <1>9, <2>2, <2>5, SameRowFacts
  <2>7. QED
    BY <2>3, <2>5, <2>6
<1>14. QED
  BY <1>8, <1>10, <1>11, <1>12, <1>13
     DEF rows, candidates, untouched, replace

(* How a file is split into batches never makes a run fail: a publication  *)
(* is refused only over records that share a native id.                    *)
THEOREM RefusedOverCopies == Spec => []OnlyCopiesConflict
<1>1. ASSUME SessionInv, run.active, ~Copied
      PROVE  ~Rejected(ToPublish, run.replace)
  <2> DEFINE candidates == Candidates(ToPublish, run.replace)
             untouched == Untouched(ToPublish, run.replace)
             settled == Settled(candidates)
             cast(r) == [r EXCEPT !.cwd = Earliest(r, candidates).cwd]
  <2>1. /\ Fields(candidates)
        /\ \A x \in candidates : \E y \in Known : SameRow(x, y)
        /\ Unambiguous(candidates)
        /\ \A x \in candidates, y \in untouched :
             PrimaryKey(x) # PrimaryKey(y)
    BY <1>1, CandidateRows
  <2>2. settled = {cast(r) : r \in candidates}
    BY DEF Settled
  <2>3. untouched \subseteq corpus
    BY DEF Untouched
  <2>4. Unambiguous(corpus)
    BY <1>1 DEF SessionInv, CorpusInv
  <2> HIDE DEF candidates, untouched, settled
  <2>5. \A r \in candidates : SameRow(cast(r), r)
    BY <2>1, CwdRow DEF Fields
  <2> HIDE DEF cast
  <2>6. \A r \in candidates : PrimaryKey(cast(r)) = PrimaryKey(r)
    BY <2>5, SameRowFacts
  <2>7. Unambiguous(untouched \cup settled)
    BY <2>1, <2>2, <2>3, <2>4, <2>6 DEF Unambiguous
  <2>8. ASSUME NEW r \in candidates, NEW s \in candidates,
               MessageKey(r) = MessageKey(s)
        PROVE  Observation(r) = Observation(s)
    <3>1. PICK x \in Known : SameRow(r, x)
      BY <2>1
    <3>2. PICK y \in Known : SameRow(s, y)
      BY <2>1
    <3>3. /\ MessageKey(r) = MessageKey(x) /\ MessageKey(s) = MessageKey(y)
          /\ Observation(r) = Observation(x)
          /\ Observation(s) = Observation(y)
      BY <3>1, <3>2, SameRowFacts
    <3>4. Observation(x) = Observation(y)
      BY <1>1, <2>8, <3>3, OneObservation
    <3>5. QED
      BY <3>3, <3>4
  <2>9. ~Conflict(candidates)
    BY <2>8 DEF Conflict
  <2>10. Unambiguous(Published(ToPublish, run.replace))
    BY <2>7 DEF Published, candidates, untouched, settled
  <2>11. QED
    BY <2>9, <2>10 DEF Rejected, candidates
<1>2. SessionInv => OnlyCopiesConflict
  BY <1>1 DEF OnlyCopiesConflict
<1>3. QED
  BY <1>2, SessionIsKept, PTL

(***************************************************************************)
(* The scan of the file for a published locator.                           *)
(***************************************************************************)
ScanStart ==
  [state |-> InitialState(provider), recognized |-> FALSE,
   unsupported |-> FALSE]
ScanFollows(f, n, locator, width) ==
  f = [i \in 0..n |-> IF i = 0 THEN ScanStart
                      ELSE ScanNext(f[i - 1], (i - 1) * width, locator,
                                    width)]

LEMMA ScansFollow ==
  ASSUME NEW locator, NEW width, NEW n \in Nat
  PROVE  \E f : ScanFollows(f, n, locator, width)
<1> DEFINE S == {k \in Nat : \E f : ScanFollows(f, k, locator, width)}
           Step(scan, i) == ScanNext(scan, (i - 1) * width, locator, width)
<1>1. 0 \in S
  <2> DEFINE f == [i \in 0..0 |-> ScanStart]
  <2>1. f = [i \in 0..0 |-> IF i = 0 THEN ScanStart ELSE Step(f[i - 1], i)]
    OBVIOUS
  <2>2. ScanFollows(f, 0, locator, width)
    BY <2>1 DEF ScanFollows
  <2>3. QED
    BY <2>2
<1>2. ASSUME NEW k \in Nat, k \in S PROVE k + 1 \in S
  <2>1. PICK f : ScanFollows(f, k, locator, width)
    BY <1>2
  <2>2. f = [i \in 0..k |-> IF i = 0 THEN ScanStart
                            ELSE Step(f[i - 1], i)]
    BY <2>1 DEF ScanFollows
  <2> HIDE DEF Step
  <2> DEFINE g == [i \in 0..(k + 1) |->
                     IF i = k + 1 THEN Step(f[k], k + 1) ELSE f[i]]
             h == [i \in 0..(k + 1) |-> IF i = 0 THEN ScanStart
                                        ELSE Step(g[i - 1], i)]
  <2>3. ASSUME NEW i \in 0..(k + 1) PROVE g[i] = h[i]
    <3>1. CASE i = k + 1
      <4>1. g[k] = f[k] /\ k \in 0..(k + 1) /\ (k + 1) - 1 = k
        OBVIOUS
      <4>2. QED
        BY <3>1, <4>1
    <3>2. CASE i = 0
      <4>1. f[0] = ScanStart /\ 0 # k + 1
        BY <2>2
      <4>2. QED
        BY <3>2, <4>1
    <3>3. CASE i # 0 /\ i # k + 1
      <4>1. i \in 0..k /\ i - 1 \in 0..(k + 1) /\ i - 1 # k + 1
        BY <3>3
      <4>2. f[i] = Step(f[i - 1], i)
        BY <2>2, <3>3, <4>1
      <4>3. g[i] = f[i] /\ g[i - 1] = f[i - 1]
        BY <3>3, <4>1
      <4>4. QED
        BY <3>3, <4>2, <4>3
    <3>4. QED
      BY <3>1, <3>2, <3>3
  <2>4. g = h
    <3> HIDE DEF g
    <3>1. g = [i \in 0..(k + 1) |-> g[i]]
      BY DEF g
    <3>2. h = [i \in 0..(k + 1) |-> h[i]]
      OBVIOUS
    <3> HIDE DEF h
    <3>3. QED
      BY <2>3, <3>1, <3>2
  <2>5. ScanFollows(g, k + 1, locator, width)
    BY <2>4 DEF ScanFollows, Step
  <2>6. QED
    BY <2>5
<1> HIDE DEF S
<1>3. \A k \in Nat : k \in S
  BY <1>1, <1>2, SetInduction
<1>4. QED
  BY <1>3 DEF S

(* The scan that has not found a row yet is before its record, and its     *)
(* state is one that the refresh could be in there.                        *)
ScanOK(scan, r, from) ==
  \/ scan.recognized
  \/ /\ from < r.ord
     /\ StateOK(scan.state, from)
     /\ provider = "codex" /\ from # 0 => scan.state.session # NoId

LEMMA ScanIdentified ==
  ASSUME SessionInv, provider = "codex", status = "indexed", OneMeta,
         NEW r \in corpus, NEW from \in Nat, NEW n \in Nat, n # 0,
         from + n <= done, done = Len(file), NEW state,
         StateOK(state, from), from # 0 => state.session # NoId
  PROVE  /\ Identified(state, from, n)
         /\ OneMetaTo(from + n)
         /\ r.alias.session = Codex!MetaIdentity(file[1])
<1>1. /\ StateOK(store, done) /\ OfSession(corpus, store)
      /\ FileInv /\ done \in Nat
  BY DEF SessionInv, CorpusInv, FileInv
<1>2. OneMetaTo(done)
  BY DEF OneMeta, OneMetaTo
<1>3. OneMetaTo(from + n)
  <2>1. \A i \in 2..(from + n) : i \in 2..done
    BY <1>1
  <2>2. QED
    BY <1>2, <2>1 DEF OneMetaTo
<1>4. store.session # NoId /\ r.alias.session = store.session
  BY <1>1 DEF OfSession
<1>5. MetaKnown(store.session, store.kind, done)
  BY <1>1 DEF StateOK
<1>6. /\ file[1].type = "session_meta"
      /\ store.session = Codex!MetaIdentity(file[1])
  BY <1>2, <1>4, <1>5 DEF MetaKnown
<1>7. Identified(state, from, n)
  BY <1>1, <1>3, <1>4, <1>6, CodexKnown
<1>8. QED
  BY <1>3, <1>4, <1>6, <1>7

LEMMA ScanStep ==
  ASSUME SessionInv, status = "indexed", done = Len(file), OneMeta,
         NEW r \in corpus, NEW width \in Nat, width # 0,
         NEW from \in Nat, NEW scan, ScanOK(scan, r, from)
  PROVE  ScanOK(ScanNext(scan, from, r.alias, width), r, from + width)
<1>1. CASE scan.recognized
  BY <1>1 DEF ScanNext, ScanOK
<1>2. CASE ~scan.recognized
  <2> DEFINE n == IF from + width <= Len(file) THEN width
                  ELSE Len(file) - from
             state == scan.state
             envs == Envelopes(from, n)
             parsed == Parse(envs, state)
             rows == Rows(parsed.messages)
             to == from + n
             next == ScanNext(scan, from, r.alias, width)
  <2>1. /\ from < r.ord /\ StateOK(state, from)
        /\ provider = "codex" /\ from # 0 => state.session # NoId
    BY <1>2 DEF ScanOK
  <2>2. /\ FileInv /\ RowOK(r) /\ r.ord \in 1..Len(file)
        /\ Len(file) \in Nat
    BY DEF SessionInv, CorpusInv, RowsOK, RowOK, Tells, FileInv
  <2>3. next = Scanned(scan, envs, parsed, r.alias)
    BY <1>2 DEF ScanNext, ScanEnvelopes, Resume
  <2>4. /\ next.state = parsed.state
        /\ next.recognized = Recognizes(parsed, r.alias)
    BY <2>3 DEF Scanned
  <2>5. /\ n \in Nat /\ n # 0 /\ to <= Len(file) /\ to \in Nat
        /\ to < Len(file) => to = from + width
    BY <2>1, <2>2
  <2> HIDE DEF n, state, next
  <2>6. provider = "codex" =>
          /\ Identified(state, from, n) /\ OneMetaTo(to)
          /\ r.alias.session = Codex!MetaIdentity(file[1])
    BY <2>1, <2>5, ScanIdentified
  <2>7. BatchOK(parsed, state, from, to)
    BY <2>1, <2>2, <2>5, <2>6, BatchFacts
  <2>8. /\ BatchRows(rows, state, from, to)
        /\ BatchState(parsed.state, rows, state, from, to)
    BY <2>7 DEF BatchOK
  <2> HIDE DEF parsed, to
  <2>9. CASE r.ord <= to
    <3>1. r.ord \in (from + 1)..to /\ r.class \in ClassesOf(r.ord)
      BY <2>1, <2>2, <2>5, <2>9 DEF RowOK, Tells
    <3>2. PICK x \in rows : x.ord = r.ord /\ x.class = r.class
      BY <2>8, <3>1 DEF BatchRows, Complete
    <3>3. RowOK(x)
      BY <2>8 DEF BatchRows
    <3>4. x.alias.session = r.alias.session
      <4>1. CASE provider = "codex"
        <5>1. /\ parsed.state.session # NoId
              /\ x.alias.session = parsed.state.session
              /\ MetaKnown(parsed.state.session, parsed.state.kind, to)
          BY <2>8, <4>1 DEF BatchState, OfSession, StateOK
        <5>2. QED
          BY <2>6, <4>1, <5>1 DEF MetaKnown
      <4>2. CASE provider # "codex"
        BY <2>2, <3>3, <4>2 DEF RowOK
      <4>3. QED
        BY <4>1, <4>2
    <3>5. x.alias = r.alias
      BY <2>2, <3>2, <3>3, <3>4 DEF RowOK, Located
    <3>6. PICK m \in parsed.messages : \E a \in m.aliases : RowFor(x, m, a)
      BY RowsOf
    <3>7. Recognizes(parsed, r.alias)
      BY <3>5, <3>6 DEF Recognizes, RowFor
    <3>8. QED
      BY <2>4, <3>7 DEF ScanOK, next
  <2>10. CASE ~(r.ord <= to)
    <3>1. to < r.ord /\ to = from + width
      BY <2>2, <2>5, <2>10
    <3>2. /\ StateOK(parsed.state, to)
          /\ provider = "codex" => parsed.state.session # NoId
      BY <2>8 DEF BatchState
    <3>3. ScanOK(next, r, to)
      BY <2>4, <3>1, <3>2 DEF ScanOK
    <3>4. QED
      BY <3>1, <3>3 DEF next
  <2>11. QED
    BY <2>9, <2>10
<1>3. QED
  BY <1>1, <1>2

LEMMA ScanFinds ==
  ASSUME SessionInv, status = "indexed", done = Len(file), OneMeta,
         NEW r \in corpus, NEW width \in Nat, width # 0
  PROVE  Scan(r.alias, width).recognized
<1> DEFINE batches == (Len(file) + width - 1) \div width
           locator == r.alias
           after == CHOOSE f : f = [i \in 0..batches |->
             IF i = 0 THEN [state |-> InitialState(provider),
                            recognized |-> FALSE, unsupported |-> FALSE]
             ELSE ScanNext(f[i - 1], (i - 1) * width, locator, width)]
<1>1. /\ FileInv /\ Len(file) \in Nat /\ r.ord \in 1..Len(file)
      /\ Admitted(done)
  BY DEF SessionInv, CorpusInv, RowsOK, RowOK, Tells, FileInv
<1>2. Admits(0) = "admitted"
  BY <1>1 DEF Admits, Admitted
<1>3. Scan(locator, width) = after[batches]
  BY <1>2 DEF Scan
<1>4. batches \in Nat /\ batches * width >= Len(file)
  BY <1>1
<1> HIDE DEF batches
<1>5. ScanFollows(after, batches, locator, width)
  <2>1. \E f : ScanFollows(f, batches, locator, width)
    BY <1>4, ScansFollow
  <2>2. QED
    BY <2>1 DEF ScanFollows, ScanStart
<1> HIDE DEF after
<1> DEFINE S == {i \in Nat : i <= batches =>
                   ScanOK(after[i], r, i * width)}
<1>6. 0 \in S
  <2>1. after[0] = ScanStart /\ 0 * width = 0
    BY <1>4, <1>5 DEF ScanFollows
  <2>2. StateOK(InitialState(provider), 0)
    BY <1>1, StartOK
  <2>3. ScanOK(ScanStart, r, 0)
    BY <1>1, <2>2 DEF ScanOK, ScanStart
  <2>4. QED
    BY <2>1, <2>3
<1>7. ASSUME NEW i \in Nat, i \in S PROVE i + 1 \in S
  <2>1. SUFFICES ASSUME i + 1 <= batches
                 PROVE  ScanOK(after[i + 1], r, (i + 1) * width)
    OBVIOUS
  <2> DEFINE from == i * width
  <2>2. from \in Nat /\ (i + 1) * width = from + width
    OBVIOUS
  <2>3. ScanOK(after[i], r, from)
    BY <1>4, <1>7, <2>1
  <2>4. /\ i + 1 \in 0..batches /\ i + 1 # 0 /\ (i + 1) - 1 = i
    BY <1>4, <2>1
  <2>5. after[i + 1] = ScanNext(after[i], from, locator, width)
    BY <1>5, <2>4 DEF ScanFollows
  <2> HIDE DEF from
  <2>6. ScanOK(ScanNext(after[i], from, locator, width), r, from + width)
    BY <2>2, <2>3, ScanStep
  <2>7. QED
    BY <2>2, <2>5, <2>6
<1> HIDE DEF S
<1>8. \A i \in Nat : i \in S
  BY <1>6, <1>7, SetInduction
<1>9. ScanOK(after[batches], r, batches * width)
  BY <1>4, <1>8 DEF S
<1>10. after[batches].recognized
  <2> DEFINE end == batches * width
  <2>1. end \in Nat /\ ~(end < r.ord)
    BY <1>1, <1>4
  <2> HIDE DEF end
  <2>2. ScanOK(after[batches], r, end)
    BY <1>9 DEF end
  <2>3. QED
    BY <2>1, <2>2 DEF ScanOK
<1>11. QED
  BY <1>3, <1>10

(* Every published locator is found again by the scan of its file, in      *)
(* batches of any width, however the refreshes cut the file when they      *)
(* built the index (scan_unindexed); a Codex file has one session_meta.    *)
THEOREM PublishedAreFound == Spec => []ScanFindsPublished
<1>1. SessionInv => ScanFindsPublished
  <2>1. SUFFICES ASSUME SessionInv, status = "indexed", done = Len(file),
                        OneMeta, NEW r \in corpus,
                        NEW width \in 1..MaxRecords[provider]
                 PROVE  Scan(r.alias, width).recognized
    BY DEF ScanFindsPublished
  <2>2. width \in Nat /\ width # 0
    OBVIOUS
  <2>3. QED
    BY <2>1, <2>2, ScanFinds
<1>2. QED
  BY <1>1, SessionIsKept, PTL

(***************************************************************************)
(* However a file was cut into batches, its rows are those of one batch.   *)
(***************************************************************************)

(* Two Codex records are a pair, whatever batches they were read in, and   *)
(* the earlier one speaks for both.                                        *)
At(i) == [ord |-> i]
PairAt(j, i) ==
  /\ ProjectionPair(At(j), At(i))
  /\ file[j].time # 0 /\ file[i].time # 0 /\ file[j].time <= file[i].time
Unpaired(i) == \A j \in 1..(i - 1) : ~PairAt(j, i)
SpeaksFor(j, i) ==
  \/ j \in 1..(i - 1) /\ PairAt(j, i)
  \/ j = i /\ Unpaired(i)

(* The row of a Codex record tells what the record does that speaks for    *)
(* it, in a file that repeats nothing.                                     *)
SaidOnceTo(n) == \A i, j \in 1..n : i < j => ~SameProse(i, j)
Plain(n) == provider = "codex" /\ SaidOnceTo(n) /\ OneMetaTo(n)
VoiceOf(x, j) ==
  /\ \E p \in Projections(j) :
       <<p.class, p.role, p.text>> = <<x.class, x.role, x.text>>
  /\ x.time = file[j].time
  /\ x.kind = MetaKind(file[1])
  /\ x.harness = (x.role = "user" /\ x.kind = "agent")
  /\ x.locator = LocatorAt(x.alias.session, j)
  /\ x.id = LogicalId(x.locator)
Voiced(x) == \E j \in 1..x.ord : SpeaksFor(j, x.ord) /\ VoiceOf(x, j)
VoicedTo(rows, n) == Plain(n) => \A x \in rows : Voiced(x)

(* What is carried on is the last that was said, unless it has its pair or *)
(* its epoch is over.                                                      *)
Lasts(i, n) ==
  /\ "prose" \in ClassesOf(i) /\ EpochAt(i) = Cardinality(Boundaries(n))
  /\ \A k \in (i + 1)..n : "prose" \notin ClassesOf(k)
  /\ Unpaired(i)
CarryLast(s, n) ==
  Plain(n) =>
    /\ \A c \in s.carry : Unpaired(c.ord)
    /\ s.session # NoId =>
         \A i \in 1..n : Lasts(i, n) => \E c \in s.carry : c.ord = i

(* The cwd of a Claude message is that of its earliest record.             *)
Heads(y, x, rows) ==
  /\ y \in rows /\ MessageKey(y) = MessageKey(x)
  /\ \A z \in rows : MessageKey(z) = MessageKey(x) => y.ord <= z.ord
HeadCwds(rows) ==
  \A x, y \in rows : Heads(y, x, rows) => x.cwd = file[y.ord].cwd

(* A staged row has the cwd of its record, or what its batch knew.         *)
StagedCwds(rows, s) ==
  /\ provider = "claude" => \A x \in rows : x.cwd = file[x.ord].cwd
  /\ provider = "antigravity" /\ s.cwd = NoCwd =>
       \A x \in rows : x.cwd = NoCwd

CorpusReads ==
  status # "excluded" =>
    /\ VoicedTo(corpus, done) /\ CarryLast(store, done)
    /\ provider = "claude" => HeadCwds(corpus)
    /\ provider = "antigravity" => \A x \in corpus : x.cwd = store.cwd
RunReads(r) ==
  /\ VoicedTo(r.staged, r.pos) /\ CarryLast(r.state, r.pos)
  /\ StagedCwds(r.staged, r.state)
  /\ provider = "antigravity" /\ ~r.replace /\ ~r.established =>
       r.state.cwd = store.cwd

ReadingInv == SessionInv /\ CorpusReads /\ (run.active => RunReads(run))

LEMMA ShapeAlone ==
  ASSUME NEW r, NEW s \in CodexShapes(r), s.family # "tool"
  PROVE  CodexShapes(r) = {s}
BY DEF CodexShapes, ResponseShapes, MessageShapes, ToolShapes, EventShapes,
       Shape

(* What a Codex record shows alone: prose, by itself, or a tool call.      *)
LEMMA ProjectionFacts ==
  ASSUME provider = "codex", NEW i, NEW p \in Projections(i)
  PROVE  /\ p.family \in {"response", "event", "tool"}
         /\ p.family # "tool" <=> p.class = "prose"
         /\ p.class \in ClassesOf(i)
         /\ \A q \in Projections(i) : q.class = p.class => q = p
         /\ p.family # "tool" => Projections(i) = {p}
<1> DEFINE Of(s) == OccurrenceOf(Alone(i), NoContext, s)
<1>1. Projections(i) = {Of(s) : s \in CodexShapes(file[i])}
  BY CodexAlone DEF Occurrences
<1>2. \A s \in CodexShapes(file[i]) :
        Of(s).family = s.family /\ Of(s).class = s.class
  BY OccurrenceFields
<1> HIDE DEF Of
<1>3. PICK s \in CodexShapes(file[i]) : p = Of(s)
  BY <1>1
<1>4. /\ s.family \in {"response", "event", "tool"}
      /\ s.family # "tool" <=> s.class = "prose"
      /\ \A t \in CodexShapes(file[i]) : t.class = s.class => t = s
  BY ShapeFacts
<1>5. s.class \in ClassesOf(i)
  BY CodexClasses
<1>6. s.family # "tool" => CodexShapes(file[i]) = {s}
  BY ShapeAlone
<1>7. QED
  BY <1>1, <1>2, <1>3, <1>4, <1>5, <1>6

LEMMA ProseShown ==
  ASSUME provider = "codex", NEW i, "prose" \in ClassesOf(i)
  PROVE  \E p \in Projections(i) : p.class = "prose"
<1>1. PICK s \in CodexShapes(file[i]) : s.class = "prose"
  BY CodexClasses
<1>2. OccurrenceOf(Alone(i), NoContext, s) \in Projections(i)
  BY CodexAlone DEF Occurrences
<1>3. QED
  BY <1>1, <1>2, OccurrenceFields

(* A pair is two prose records of one text, in one epoch, with nothing     *)
(* said between them.                                                      *)
Joins(p, q, j, i) ==
  /\ {p.family, q.family} = {"response", "event"}
  /\ p.role = q.role /\ p.text = q.text
  /\ Projections(j) = {p} /\ Projections(i) = {q}
  /\ p.class = "prose" /\ q.class = "prose"

LEMMA PairAtFacts ==
  ASSUME FileInv, provider = "codex", NEW j \in 1..Len(file),
         NEW i \in 1..Len(file), PairAt(j, i)
  PROVE  /\ \E p, q : Joins(p, q, j, i)
         /\ "prose" \in ClassesOf(j) /\ "prose" \in ClassesOf(i)
         /\ EpochAt(j) = EpochAt(i)
         /\ \A k \in (j + 1)..(i - 1) : "prose" \notin ClassesOf(k)
<1>1. At(j).ord = j /\ At(i).ord = i
  BY DEF At
<1>2. /\ Cardinality(Boundaries(j)) = Cardinality(Boundaries(i))
      /\ \A k \in (j + 1)..(i - 1) : "prose" \notin ClassesOf(k)
      /\ \E p \in Projections(j), q \in Projections(i) :
           /\ {p.family, q.family} = {"response", "event"}
           /\ <<p.role, p.text>> = <<q.role, q.text>>
  BY <1>1 DEF PairAt, ProjectionPair, Boundaries
<1>3. PICK p \in Projections(j), q \in Projections(i) :
        /\ {p.family, q.family} = {"response", "event"}
        /\ <<p.role, p.text>> = <<q.role, q.text>>
  BY <1>2
<1>4. p.family # "tool" /\ q.family # "tool"
  BY <1>3
<1>5. /\ Projections(j) = {p} /\ p.class = "prose" /\ p.class \in ClassesOf(j)
      /\ Projections(i) = {q} /\ q.class = "prose" /\ q.class \in ClassesOf(i)
  BY <1>4, ProjectionFacts
<1>6. j \in Nat /\ j # 0 /\ i \in Nat /\ i # 0
  BY DEF FileInv
<1>7. EpochAt(j) = EpochAt(i)
  BY <1>2, <1>5, <1>6, CodexSaid
<1>8. Joins(p, q, j, i)
  BY <1>3, <1>5 DEF Joins
<1>9. QED
  BY <1>2, <1>5, <1>7, <1>8

(* In a file that repeats nothing no record is of two pairs.               *)
LEMMA NoChain ==
  ASSUME FileInv, provider = "codex", NEW to \in 1..Len(file),
         SaidOnceTo(to), NEW j \in 1..to, NEW i \in 1..to, NEW k \in 1..to,
         j < i, i < k, PairAt(j, i), PairAt(i, k)
  PROVE  FALSE
<1>1. /\ j \in 1..Len(file) /\ i \in 1..Len(file) /\ k \in 1..Len(file)
      /\ j < k
  BY DEF FileInv
<1>2. PICK p, q : Joins(p, q, j, i)
  BY <1>1, PairAtFacts
<1>3. PICK v, r : Joins(v, r, i, k)
  BY <1>1, PairAtFacts
<1>4. q = v
  BY <1>2, <1>3 DEF Joins
<1>5. /\ p.family = r.family /\ p.family \in {"response", "event"}
      /\ p.role = r.role /\ p.text = r.text
      /\ p \in Projections(j) /\ r \in Projections(k)
  BY <1>2, <1>3, <1>4 DEF Joins
<1>6. SameProse(j, k)
  BY <1>5 DEF SameProse, Codex!Projection
<1>7. QED
  BY <1>1, <1>6 DEF SaidOnceTo

(* In such a file an occurrence has one partner, and who it is does not    *)
(* depend on the batch.                                                    *)
LEMMA OnePartner ==
  ASSUME FileInv, provider = "codex", NEW all, NEW s, NEW k, NEW to,
         FromBatch(all, s, k, to), SaidOnceTo(to), to \in 1..Len(file),
         NEW c \in all, NEW d \in all, NEW e \in all,
         Codex!Compatible(c, d), Codex!Compatible(c, e)
  PROVE  d = e
<1>1. /\ d.family = e.family /\ d.family \in {"response", "event"}
      /\ d.role = e.role /\ d.text = e.text
      /\ d.class = "prose" /\ e.class = "prose"
  BY DEF Codex!Compatible
<1>2. /\ d.ord \in 1..to /\ e.ord \in 1..to /\ Shows(d) /\ Shows(e)
  BY DEF FromBatch, Tells, FileInv
<1>3. PICK p \in Projections(d.ord), q \in Projections(e.ord) :
        /\ p.family = d.family /\ p.role = d.role /\ p.text = d.text
        /\ q.family = e.family /\ q.role = e.role /\ q.text = e.text
  BY <1>2 DEF Shows
<1>4. SameProse(d.ord, e.ord) /\ SameProse(e.ord, d.ord)
  BY <1>1, <1>3 DEF SameProse, Codex!Projection
<1>5. d.ord = e.ord
  <2>1. ~(d.ord < e.ord) /\ ~(e.ord < d.ord)
    BY <1>2, <1>4 DEF SaidOnceTo
  <2>2. d.ord \in Nat /\ e.ord \in Nat
    BY <1>2 DEF FileInv
  <2>3. QED
    BY <2>1, <2>2
<1>6. QED
  BY <1>1, <1>5 DEF FromBatch, Distinct

LEMMA CompatibleBoth ==
  ASSUME NEW c, NEW d
  PROVE  /\ Codex!Compatible(c, d) <=> Codex!Compatible(d, c)
         /\ Codex!Compatible(c, d) => c # d
         /\ \A all : Codex!Paired(c, d, all) => Codex!Paired(d, c, all)
<1>1. Codex!Compatible(c, d) <=> Codex!Compatible(d, c)
  BY DEF Codex!Compatible, Codex!InOrder
<1>2. ASSUME NEW all, Codex!Paired(c, d, all) PROVE Codex!Paired(d, c, all)
  <2>1. /\ Codex!Partners(c, all) = {d} /\ Codex!Partners(d, all) = {c}
        /\ Codex!Between(c, d, all) = {}
    BY <1>2 DEF Codex!Paired
  <2>2. Codex!Compatible(c, d)
    BY <2>1 DEF Codex!Partners
  <2>3. Codex!Between(d, c, all) = Codex!Between(c, d, all)
    BY <2>2 DEF Codex!Compatible, Codex!Between
  <2>4. QED
    BY <2>1, <2>3 DEF Codex!Paired
<1>3. ASSUME Codex!Compatible(c, d) PROVE c # d
  <2>1. {c.family, d.family} = {"response", "event"}
    BY <1>3 DEF Codex!Compatible
  <2>2. c.family # d.family
    BY <2>1
  <2>3. QED
    BY <2>2
<1>4. QED
  BY <1>1, <1>2, <1>3

LEMMA PartnersOf ==
  ASSUME FileInv, provider = "codex", NEW all, NEW s, NEW k, NEW to,
         FromBatch(all, s, k, to), SaidOnceTo(to), to \in 1..Len(file),
         NEW c \in all, NEW d \in all, Codex!Compatible(c, d)
  PROVE  Codex!Partners(c, all) = {d} /\ Codex!Partners(d, all) = {c}
<1>1. Codex!Compatible(d, c)
  BY CompatibleBoth
<1>2. \A e \in Codex!Partners(c, all) : e \in all /\ Codex!Compatible(c, e)
  BY DEF Codex!Partners
<1>3. \A e \in Codex!Partners(d, all) : e \in all /\ Codex!Compatible(d, e)
  BY DEF Codex!Partners
<1>4. d \in Codex!Partners(c, all) /\ c \in Codex!Partners(d, all)
  BY <1>1 DEF Codex!Partners
<1>5. \A e \in Codex!Partners(c, all) : e = d
  BY <1>2, OnePartner
<1>6. \A e \in Codex!Partners(d, all) : e = c
  BY <1>1, <1>3, OnePartner
<1>7. QED
  BY <1>4, <1>5, <1>6

(* What is paired in a batch is a pair of the file.                        *)
LEMMA AtPairs ==
  ASSUME FileInv, provider = "codex", NEW all, NEW s, NEW k, NEW to,
         FromBatch(all, s, k, to), to \in 1..Len(file),
         NEW c \in all, NEW d \in all, c.ord < d.ord,
         Codex!Paired(c, d, all)
  PROVE  PairAt(c.ord, d.ord)
<1>1. Codex!Compatible(c, d) /\ Codex!Between(c, d, all) = {}
  BY DEF Codex!Paired, Codex!Partners
<1>2. At(c.ord).ord = c.ord /\ At(d.ord).ord = d.ord /\ to \in Nat
  BY DEF At, FileInv
<1>3. ProjectionPair(At(c.ord), At(d.ord))
  BY <1>1, <1>2, PairFacts
<1>4. c.time = file[c.ord].time /\ d.time = file[d.ord].time
  BY DEF FromBatch, Shows
<1>5. /\ c.time # 0 /\ d.time # 0
      /\ c.ord <= d.ord => c.time <= d.time
  BY <1>1 DEF Codex!Compatible, Codex!InOrder
<1>6. c.ord \in Nat /\ d.ord \in Nat
  BY DEF FromBatch, Tells, FileInv
<1>7. QED
  BY <1>3, <1>4, <1>5, <1>6 DEF PairAt

(* A pair of the file is paired in the batch that has both.                *)
LEMMA PairsAt ==
  ASSUME FileInv, provider = "codex", NEW all, NEW s, NEW k, NEW to,
         FromBatch(all, s, k, to), SaidOnceTo(to), to \in 1..Len(file),
         NEW c \in all, NEW d \in all, c.ord < d.ord,
         c.class = "prose", d.class = "prose", PairAt(c.ord, d.ord)
  PROVE  Codex!Paired(c, d, all) /\ Codex!Paired(d, c, all)
<1>1. /\ c.ord \in 1..to /\ d.ord \in 1..to
      /\ c.ord \in 1..Len(file) /\ d.ord \in 1..Len(file)
      /\ Shows(c) /\ Shows(d) /\ c.session = d.session /\ c.kind = d.kind
      /\ c.epoch = EpochAt(c.ord) /\ d.epoch = EpochAt(d.ord)
  BY DEF FromBatch, Tells, FileInv
<1>2. /\ EpochAt(c.ord) = EpochAt(d.ord)
      /\ \A i \in (c.ord + 1)..(d.ord - 1) : "prose" \notin ClassesOf(i)
      /\ \E p, q : Joins(p, q, c.ord, d.ord)
  BY <1>1, PairAtFacts
<1>3. PICK p, q : Joins(p, q, c.ord, d.ord)
  BY <1>2
<1>4. /\ \E v \in Projections(c.ord) : /\ v.family = c.family
                                      /\ v.role = c.role /\ v.text = c.text
      /\ \E v \in Projections(d.ord) : /\ v.family = d.family
                                      /\ v.role = d.role /\ v.text = d.text
  BY <1>1 DEF Shows
<1>5. /\ p.family = c.family /\ p.role = c.role /\ p.text = c.text
      /\ q.family = d.family /\ q.role = d.role /\ q.text = d.text
      /\ {p.family, q.family} = {"response", "event"}
      /\ p.role = q.role /\ p.text = q.text
  BY <1>3, <1>4 DEF Joins
<1>6. c.time = file[c.ord].time /\ d.time = file[d.ord].time
  BY <1>1 DEF Shows
<1>7. Codex!InOrder(c, d)
  <2>1. c.ord \in Nat /\ d.ord \in Nat
    BY <1>1 DEF FileInv
  <2>2. c.time # 0 /\ d.time # 0 /\ c.time <= d.time
    BY <1>6 DEF PairAt
  <2>3. ~(d.ord <= c.ord)
    BY <2>1
  <2>4. QED
    BY <2>2, <2>3 DEF Codex!InOrder
<1>8. Codex!Compatible(c, d)
  BY <1>1, <1>2, <1>5, <1>7 DEF Codex!Compatible
<1>9. Codex!Partners(c, all) = {d} /\ Codex!Partners(d, all) = {c}
  BY <1>8, PartnersOf
<1>10. Codex!Between(c, d, all) = {}
  <2>1. SUFFICES ASSUME NEW x \in all, x.class = "prose",
                        \/ c.ord < x.ord /\ x.ord < d.ord
                        \/ d.ord < x.ord /\ x.ord < c.ord
                 PROVE  FALSE
    BY DEF Codex!Between
  <2>2. x.ord \in Nat /\ "prose" \in ClassesOf(x.ord)
    BY <2>1 DEF FromBatch, Tells, FileInv
  <2>3. x.ord \in (c.ord + 1)..(d.ord - 1)
    BY <1>1, <2>1, <2>2 DEF FileInv
  <2>4. QED
    BY <1>2, <2>2, <2>3
<1>11. Codex!Paired(c, d, all)
  BY <1>9, <1>10 DEF Codex!Paired
<1>12. QED
  BY <1>11, CompatibleBoth

(* What is there of the file when a batch ends: all it says, and what was  *)
(* last said before it.                                                    *)
Gathers(all, from, to) ==
  /\ \A i \in (from + 1)..to : "prose" \in ClassesOf(i) =>
       \E c \in all : c.ord = i /\ c.class = "prose"
  /\ \A i \in 1..from : Lasts(i, from) =>
       \E c \in all : c.ord = i /\ c.class = "prose"
  /\ \A c \in all : c.ord <= from => Unpaired(c.ord)

LEMMA FirstIsUnpaired ==
  ASSUME FileInv, provider = "codex", NEW to \in 1..Len(file),
         SaidOnceTo(to), NEW i \in 1..to, NEW k \in 1..to, i < k,
         PairAt(i, k)
  PROVE  Unpaired(i)
<1>1. SUFFICES ASSUME NEW j \in 1..(i - 1), PairAt(j, i) PROVE FALSE
  BY DEF Unpaired
<1>2. j \in 1..to /\ j < i
  BY DEF FileInv
<1>3. QED
  BY <1>1, <1>2, NoChain

LEMMA SoleIsUnpaired ==
  ASSUME FileInv, provider = "codex", NEW from \in Nat,
         NEW to \in 1..Len(file), NEW all, NEW s, NEW k,
         FromBatch(all, s, k, to), SaidOnceTo(to), Gathers(all, from, to),
         NEW c \in all, Codex!Group(c, all) = {c}
  PROVE  Unpaired(c.ord)
<1>1. /\ c.ord \in 1..to /\ c.ord \in 1..Len(file) /\ c.ord \in Nat
      /\ to \in Nat /\ c.class \in ClassesOf(c.ord) /\ Shows(c)
      /\ c.family # "tool" <=> c.class = "prose"
  BY DEF FromBatch, Tells, FileInv
<1>2. SUFFICES ASSUME NEW j \in 1..(c.ord - 1), PairAt(j, c.ord)
               PROVE  FALSE
  BY DEF Unpaired
<1>3. /\ j \in Nat /\ j < c.ord /\ j \in 1..to /\ j \in 1..Len(file)
  BY <1>1 DEF FileInv
<1>4. /\ \E p, q : Joins(p, q, j, c.ord)
      /\ "prose" \in ClassesOf(j)
      /\ EpochAt(j) = EpochAt(c.ord)
      /\ \A i \in (j + 1)..(c.ord - 1) : "prose" \notin ClassesOf(i)
  BY <1>1, <1>2, <1>3, PairAtFacts
<1>5. c.class = "prose"
  <2>1. PICK p, q : Joins(p, q, j, c.ord)
    BY <1>4
  <2>2. \E v \in Projections(c.ord) : v.class = c.class
    BY <1>1 DEF Shows
  <2>3. QED
    BY <2>1, <2>2 DEF Joins
<1>6. ASSUME NEW d \in all, d.ord = j, d.class = "prose" PROVE FALSE
  <2>1. Codex!Paired(c, d, all)
    BY <1>1, <1>2, <1>3, <1>5, <1>6, PairsAt
  <2>2. d \in Codex!Group(c, all)
    BY <2>1 DEF Codex!Group
  <2>3. d = c
    BY <2>2
  <2>4. QED
    BY <1>3, <1>6, <2>3
<1>7. CASE c.ord <= from
  <2>1. Unpaired(c.ord)
    BY <1>7 DEF Gathers
  <2>2. QED
    BY <1>2, <2>1 DEF Unpaired
<1>8. CASE from < c.ord /\ from < j
  <2>1. j \in (from + 1)..to
    BY <1>1, <1>3, <1>8
  <2>2. \E d \in all : d.ord = j /\ d.class = "prose"
    BY <1>4, <2>1 DEF Gathers
  <2>3. QED
    BY <1>6, <2>2
<1>9. CASE from < c.ord /\ j <= from
  <2>1. EpochAt(j) = Cardinality(Boundaries(from))
    <3>1. /\ j - 1 \in Nat /\ c.ord - 1 \in Nat
          /\ j - 1 <= from /\ from <= c.ord - 1
      BY <1>1, <1>3, <1>9
    <3>2. /\ EpochAt(j) <= Cardinality(Boundaries(from))
          /\ Cardinality(Boundaries(from)) <= EpochAt(c.ord)
      BY <3>1, EpochsGrow DEF EpochAt, Providers
    <3>3. /\ EpochAt(j) \in Nat /\ EpochAt(c.ord) \in Nat
          /\ Cardinality(Boundaries(from)) \in Nat
      BY <3>1, EpochStep DEF EpochAt, Providers
    <3>4. QED
      BY <1>4, <3>2, <3>3
  <2>2. Unpaired(j)
    BY <1>1, <1>2, <1>3, FirstIsUnpaired
  <2>3. \A i \in (j + 1)..from : "prose" \notin ClassesOf(i)
    <3>1. \A i \in (j + 1)..from : i \in (j + 1)..(c.ord - 1)
      BY <1>1, <1>3, <1>9
    <3>2. QED
      BY <1>4, <3>1
  <2>4. Lasts(j, from)
    BY <1>4, <2>1, <2>2, <2>3 DEF Lasts
  <2>5. j \in 1..from
    BY <1>3, <1>9
  <2>6. \E d \in all : d.ord = j /\ d.class = "prose"
    BY <2>4, <2>5 DEF Gathers
  <2>7. QED
    BY <1>6, <2>6
<1>10. QED
  BY <1>1, <1>3, <1>7, <1>8, <1>9

(* The row that occurrence f of its message speaks for.                    *)
LEMMA VoicedRow ==
  ASSUME FileInv, provider = "codex", NEW all, NEW s, NEW k, NEW to,
         FromBatch(all, s, k, to), to \in 1..Len(file),
         k = MetaKind(file[1]), NEW x, NEW d \in all, NEW f \in all,
         RowAt(x, d, f), SpeaksFor(f.ord, d.ord), f.ord <= d.ord,
         f.class = d.class
  PROVE  Voiced(x)
<1>1. /\ x.ord = d.ord /\ x.alias = d.locator
      /\ x.id = LogicalId(f.locator) /\ x.locator = f.locator
      /\ x.class = d.class /\ x.time = f.time /\ x.role = f.role
      /\ x.kind = f.kind /\ x.text = f.text /\ x.harness = f.harness
  BY DEF RowAt, Says
<1>2. /\ Tells(f) /\ Shows(f) /\ Shows(d) /\ f.kind = k
      /\ f.session = s /\ d.session = s /\ f.ord \in 1..to
  BY DEF FromBatch, Tells, FileInv
<1>3. f.class = d.class
  OBVIOUS
<1>4. \E p \in Projections(f.ord) :
        <<p.class, p.role, p.text>> = <<x.class, x.role, x.text>>
  <2>1. \E p \in Projections(f.ord) :
          p.class = f.class /\ p.role = f.role /\ p.text = f.text
    BY <1>2 DEF Shows
  <2>2. QED
    BY <1>1, <1>3, <2>1
<1>5. /\ x.time = file[f.ord].time
      /\ x.harness = (x.role = "user" /\ x.kind = "agent")
      /\ x.kind = MetaKind(file[1])
  BY <1>1, <1>2 DEF Shows
<1>6. /\ x.locator = LocatorAt(x.alias.session, f.ord)
      /\ x.id = LogicalId(x.locator)
  BY <1>1, <1>2 DEF Shows, Located
<1>7. VoiceOf(x, f.ord)
  BY <1>4, <1>5, <1>6 DEF VoiceOf
<1>8. f.ord \in 1..x.ord
  BY <1>1, <1>2 DEF FromBatch, Tells, FileInv
<1>9. QED
  BY <1>1, <1>7, <1>8 DEF Voiced

(* Every row of a Codex batch tells what the record does that speaks for   *)
(* its own, wherever the batch begins.                                     *)
LEMMA CodexVoices ==
  ASSUME FileInv, provider = "codex", NEW from \in Nat,
         NEW to \in 1..Len(file), NEW all, NEW s, NEW k,
         FromBatch(all, s, k, to), SaidOnceTo(to), Gathers(all, from, to),
         k = MetaKind(file[1]), NEW fresh \in SUBSET all
  PROVE  \A x \in Rows(CodexMessages(all, fresh)) : Voiced(x)
<1>1. SUFFICES ASSUME NEW x \in Rows(CodexMessages(all, fresh))
               PROVE  Voiced(x)
  OBVIOUS
<1>2. PICK g \in all : \E f, d \in Codex!Group(g, all) :
         /\ \A y \in Codex!Group(g, all) : y # f => f.ord < y.ord
         /\ RowAt(x, d, f)
  BY CodexRows
<1>3. PICK f, d \in Codex!Group(g, all) :
         /\ \A y \in Codex!Group(g, all) : y # f => f.ord < y.ord
         /\ RowAt(x, d, f)
  BY <1>2
<1>4. f \in all /\ d \in all
  BY DEF Codex!Group
<1>5. f.ord \in 1..to /\ d.ord \in 1..to /\ f.ord \in Nat /\ d.ord \in Nat
  BY <1>4 DEF FromBatch, Tells, FileInv
<1>6. CASE Codex!Group(g, all) = {g}
  <2>1. f = g /\ d = g
    BY <1>3, <1>6
  <2>2. Unpaired(f.ord)
    BY <1>6, <2>1, SoleIsUnpaired
  <2>3. SpeaksFor(f.ord, d.ord)
    BY <2>1, <2>2 DEF SpeaksFor
  <2>4. QED
    BY <1>3, <1>4, <1>5, <2>1, <2>3, VoicedRow
<1>7. ASSUME NEW h \in all, Codex!Group(g, all) = {g, h},
             Codex!Paired(g, h, all), Codex!Compatible(g, h)
      PROVE  Voiced(x)
  <2>1. g.class = "prose" /\ h.class = "prose"
    BY <1>7 DEF Codex!Compatible
  <2>2. f.class = d.class
    BY <1>3, <1>7, <2>1
  <2>3. PICK e \in {g, h} : e # f /\ Codex!Paired(f, e, all)
    <3>1. g # h
      BY <1>7, CompatibleBoth
    <3>2. Codex!Paired(h, g, all)
      BY <1>7, CompatibleBoth
    <3>3. QED
      BY <1>3, <1>7, <3>1, <3>2
  <2>4. f.ord < e.ord /\ e \in all /\ e.ord \in 1..to
    BY <1>3, <1>7, <2>3 DEF FromBatch, Tells, FileInv
  <2>5. PairAt(f.ord, e.ord)
    BY <1>4, <2>3, <2>4, AtPairs
  <2>6. Unpaired(f.ord)
    BY <1>5, <2>4, <2>5, FirstIsUnpaired
  <2>7. SpeaksFor(f.ord, d.ord) /\ f.ord <= d.ord
    <3>1. CASE d = f
      BY <1>5, <2>6, <3>1 DEF SpeaksFor
    <3>2. CASE d = e
      <4>1. f.ord \in 1..(d.ord - 1)
        BY <1>5, <2>4, <3>2
      <4>2. QED
        BY <1>5, <2>4, <2>5, <3>2, <4>1 DEF SpeaksFor
    <3>3. QED
      BY <1>3, <1>7, <2>3, <3>1, <3>2
  <2>8. QED
    BY <1>3, <1>4, <2>2, <2>7, VoicedRow
<1>8. QED
  BY <1>6, <1>7, GroupOf

(* What the next batch may need is carried on.                             *)
LEMMA CodexCarries ==
  ASSUME FileInv, provider = "codex", NEW from \in Nat,
         NEW to \in 1..Len(file), from <= to, NEW all, NEW s, NEW k,
         FromBatch(all, s, k, to), SaidOnceTo(to), Gathers(all, from, to),
         NEW epoch, epoch = Cardinality(Boundaries(to))
  PROVE  /\ \A c \in Codex!Trailing(all, epoch) : Unpaired(c.ord)
         /\ \A i \in 1..to : Lasts(i, to) =>
              \E c \in Codex!Trailing(all, epoch) : c.ord = i
<1>1. ASSUME NEW c \in Codex!Trailing(all, epoch) PROVE Unpaired(c.ord)
  <2>1. c \in all /\ Codex!Group(c, all) = {c}
    BY DEF Codex!Trailing
  <2>2. QED
    BY <2>1, SoleIsUnpaired
<1>2. ASSUME NEW i \in 1..to, Lasts(i, to)
      PROVE  \E c \in Codex!Trailing(all, epoch) : c.ord = i
  <2>1. /\ "prose" \in ClassesOf(i) /\ EpochAt(i) = epoch
        /\ \A j \in (i + 1)..to : "prose" \notin ClassesOf(j)
        /\ Unpaired(i) /\ i \in Nat /\ to \in Nat
    BY <1>2 DEF Lasts, FileInv
  <2>2. PICK c \in all : c.ord = i /\ c.class = "prose"
    <3>1. CASE from < i
      <4>1. i \in (from + 1)..to
        BY <2>1, <3>1
      <4>2. QED
        BY <2>1, <4>1 DEF Gathers
    <3>2. CASE i <= from
      <4>1. i \in 1..from
        BY <2>1, <3>2
      <4>2. EpochAt(i) = Cardinality(Boundaries(from))
        <5>1. i - 1 \in Nat /\ i - 1 <= from
          BY <2>1, <3>2
        <5>2. /\ EpochAt(i) <= Cardinality(Boundaries(from))
              /\ Cardinality(Boundaries(from)) <= epoch
          BY <2>1, <5>1, EpochsGrow DEF EpochAt, Providers
        <5>3. EpochAt(i) \in Nat /\ Cardinality(Boundaries(from)) \in Nat
          BY <5>1, EpochStep DEF EpochAt, Providers
        <5>4. QED
          BY <2>1, <5>2, <5>3
      <4>3. \A j \in (i + 1)..from : "prose" \notin ClassesOf(j)
        BY <2>1
      <4>4. Lasts(i, from)
        BY <2>1, <4>2, <4>3 DEF Lasts
      <4>5. QED
        BY <4>1, <4>4 DEF Gathers
    <3>3. QED
      BY <2>1, <3>1, <3>2
  <2>3. \A d \in all : /\ d.ord \in 1..to /\ d.ord \in Nat
                        /\ d.class \in ClassesOf(d.ord)
                        /\ d.epoch = EpochAt(d.ord)
    BY DEF FromBatch, Tells, FileInv
  <2>4. \A d \in all : d.class = "prose" => d.ord <= c.ord
    <3>1. SUFFICES ASSUME NEW d \in all, d.class = "prose",
                          ~(d.ord <= c.ord)
                   PROVE  FALSE
      OBVIOUS
    <3>2. d.ord \in (i + 1)..to
      BY <2>1, <2>2, <2>3, <3>1
    <3>3. QED
      BY <2>1, <2>3, <3>1, <3>2
  <2>5. Codex!Group(c, all) = {c}
    <3>1. SUFFICES ASSUME NEW d \in all, Codex!Paired(c, d, all)
                   PROVE  FALSE
      BY DEF Codex!Group
    <3>2. Codex!Compatible(c, d)
      BY <3>1 DEF Codex!Paired, Codex!Partners
    <3>3. c # d /\ d.class = "prose"
      BY <3>2, CompatibleBoth DEF Codex!Compatible
    <3>4. c.ord # d.ord
      BY <2>2, <3>3 DEF FromBatch, Distinct
    <3>5. d.ord < c.ord
      <4>1. d.ord <= c.ord /\ d.ord \in Nat /\ c.ord \in Nat
        BY <2>3, <2>4, <3>3
      <4>2. QED
        BY <3>4, <4>1
    <3>6. Codex!Paired(d, c, all)
      BY <3>1, CompatibleBoth
    <3>7. PairAt(d.ord, c.ord)
      BY <3>5, <3>6, AtPairs
    <3>8. d.ord \in 1..(i - 1)
      <4>1. d.ord \in 1..to /\ d.ord < i
        BY <2>2, <2>3, <3>5
      <4>2. QED
        BY <2>1, <4>1
    <3>9. QED
      BY <2>1, <2>2, <3>7, <3>8 DEF Unpaired
  <2>6. ~Codex!Ambiguous(c, all)
    <3>1. SUFFICES ASSUME NEW p \in Codex!Partners(c, all) \cup {c},
                          Codex!Cardinality(Codex!Partners(p, all)) > 1
                   PROVE  FALSE
      BY DEF Codex!Ambiguous
    <3>2. p \in all
      BY DEF Codex!Partners
    <3> DEFINE S == Codex!Partners(p, all)
    <3>3. \A d \in S : S = {d}
      <4>1. \A d \in S : d \in all /\ Codex!Compatible(p, d)
        BY DEF Codex!Partners
      <4> HIDE DEF S
      <4>2. \A d \in S : Codex!Partners(p, all) = {d}
        BY <3>2, <4>1, PartnersOf
      <4>3. QED
        BY <4>2 DEF S
    <3> HIDE DEF S
    <3>4. Cardinality(S) \in {0, 1}
      <4>1. CASE S = {}
        BY <4>1, FS_EmptySet
      <4>2. ASSUME NEW d \in S PROVE Cardinality(S) = 1
        BY <3>3, FS_Singleton
      <4>3. QED
        BY <4>1, <4>2
    <3>5. Cardinality(S) > 1
      BY <3>1, SameCount DEF S
    <3>6. QED
      BY <3>4, <3>5
  <2>7. c \in Codex!Trailing(all, epoch)
    <3>1. \A d \in all : Codex!Projection(d) => d.class = "prose"
      BY DEF FromBatch, Codex!Projection
    <3>2. Codex!Projection(c)
      BY <2>2 DEF FromBatch, Codex!Projection
    <3>3. c.epoch = epoch
      BY <2>1, <2>2, <2>3
    <3>4. QED
      BY <2>2, <2>4, <2>5, <2>6, <3>1, <3>2, <3>3
         DEF Codex!Trailing, Codex!OfEpoch
  <2>8. QED
    BY <2>2, <2>7
<1>3. QED
  BY <1>1, <1>2

LEMMA PlainBefore ==
  ASSUME NEW from \in Nat, NEW to \in Nat, from <= to, Plain(to)
  PROVE  Plain(from)
<1>1. \A i \in 1..from : i \in 1..to
  OBVIOUS
<1>2. \A i \in 2..from : i \in 2..to
  OBVIOUS
<1>3. QED
  BY <1>1, <1>2 DEF Plain, SaidOnceTo, OneMetaTo

(* A batch of a file that repeats nothing has all of it that it needs.     *)
LEMMA CodexGathers ==
  ASSUME FileInv, provider = "codex", NEW from \in Nat, NEW n \in Nat,
         n # 0, from + n <= Len(file), NEW state, StateOK(state, from),
         CarryLast(state, from), Plain(from + n),
         Identified(state, from, n), NEW fresh,
         Complete(fresh, from + 1, from + n),
         \A c \in fresh : ~(c.ord <= from),
         NEW k, k = BatchKind(state, from, n)
  PROVE  Gathers(Codex!Carried(state, k) \cup fresh, from, from + n)
<1> DEFINE to == from + n
           all == Codex!Carried(state, k) \cup fresh
<1>1. to \in Nat /\ from <= to /\ Plain(to)
  OBVIOUS
<1>2. Plain(from)
  BY <1>1, PlainBefore
<1>3. /\ \A c \in state.carry : Unpaired(c.ord)
      /\ state.session # NoId =>
           \A i \in 1..from : Lasts(i, from) =>
             \E c \in state.carry : c.ord = i
  BY <1>2 DEF CarryLast
<1>4. /\ \A c \in state.carry : c.class = "prose"
      /\ MetaKnown(state.session, state.kind, from)
  BY DEF StateOK, Admissible
<1>5. k = MetaKind(file[1])
  BY <1>1, CodexKnown DEF Plain
<1>6. ASSUME from # 0 PROVE state.session # NoId /\ state.kind = k
  <2>1. \A i \in (from + 1)..(from + n) : file[i].type # "session_meta"
    <3>1. \A i \in (from + 1)..to : i \in 2..to
      BY <1>6
    <3>2. QED
      BY <1>1, <3>1 DEF Plain, OneMetaTo
  <2>2. Codex!Metas(Envelopes(from, n)) = <<>>
    BY <2>1, NoMetas
  <2>3. BatchSession(state, from, n) = state.session
    BY <2>2 DEF BatchSession, Codex!ResolvedSession
  <2>4. state.session # NoId
    BY <2>3 DEF Identified
  <2>5. state.kind = MetaKind(file[1])
    BY <1>2, <1>4, <2>4 DEF MetaKnown, Plain
  <2>6. QED
    BY <1>5, <2>4, <2>5
<1>7. ASSUME NEW i \in (from + 1)..to, "prose" \in ClassesOf(i)
      PROVE  \E c \in all : c.ord = i /\ c.class = "prose"
  BY <1>7 DEF Complete
<1>8. ASSUME NEW i \in 1..from, Lasts(i, from)
      PROVE  \E c \in all : c.ord = i /\ c.class = "prose"
  <2>1. from # 0
    OBVIOUS
  <2>2. PICK c \in state.carry : c.ord = i
    BY <1>3, <1>6, <1>8, <2>1
  <2>3. c \in Codex!Carried(state, k)
    BY <1>6, <2>1 DEF Codex!Carried
  <2>4. QED
    BY <1>4, <2>2, <2>3
<1>9. ASSUME NEW c \in all, c.ord <= from PROVE Unpaired(c.ord)
  <2>1. c \in Codex!Carried(state, k) => c \in state.carry
    BY DEF Codex!Carried
  <2>2. c \notin fresh
    BY <1>9
  <2>3. QED
    BY <1>3, <2>1, <2>2
<1>10. QED
  BY <1>7, <1>8, <1>9 DEF Gathers

LEMMA CodexReading ==
  ASSUME FileInv, provider = "codex", NEW from \in Nat, NEW n \in Nat,
         n # 0, from + n <= Len(file), NEW state, StateOK(state, from),
         CarryLast(state, from), Identified(state, from, n)
  PROVE  LET parsed == Codex!Parse(Envelopes(from, n), state)
         IN  /\ VoicedTo(Rows(parsed.messages), from + n)
             /\ CarryLast(parsed.state, from + n)
<1> DEFINE s == BatchSession(state, from, n)
           k == BatchKind(state, from, n)
           to == from + n
           parsed == Codex!Parse(Envelopes(from, n), state)
<1>1. CASE ~Plain(to)
  BY <1>1 DEF VoicedTo, CarryLast
<1>2. CASE Plain(to)
  <2>1. /\ k # Codex!NoKind /\ state.session \in {s, NoId} /\ s # NoId
        /\ \E read : /\ CodexReadOK(read, s, k, from, to)
                     /\ parsed = Codex!Finish(read, state)
    BY CodexVisited DEF Identified
  <2>2. /\ to \in Nat /\ from <= to /\ to \in 1..Len(file)
        /\ SaidOnceTo(to)
    BY <1>2 DEF FileInv, Plain
  <2>3. k = MetaKind(file[1]) /\ Codex!Established(state, k) = k
    BY <1>2, CodexKnown DEF Plain
  <2>4. k = BatchKind(state, from, n)
    OBVIOUS
  <2> HIDE DEF s, k, parsed
  <2>5. PICK read : /\ CodexReadOK(read, s, k, from, to)
                    /\ parsed = Codex!Finish(read, state)
    BY <2>1
  <2> DEFINE fresh == read.candidates
             all == Codex!Carried(state, k) \cup fresh
             epoch == read.ctx.epoch
  <2>6. /\ parsed.messages = CodexMessages(all, fresh)
        /\ parsed.state.carry =
             IF k = Codex!Established(state, k)
             THEN Codex!Trailing(all, epoch) ELSE {}
        /\ epoch = Cardinality(Boundaries(to))
    <3>1. /\ CodexAcc(read, s, k)
          /\ epoch = Cardinality(Boundaries(to))
      BY <2>5 DEF CodexReadOK
    <3>2. Finishes(parsed, read, state, s, k)
      BY <2>5, <3>1, FinishFields
    <3>3. parsed.state.kind = Codex!Established(state, k)
      BY <3>2 DEF Finishes
    <3>4. QED
      BY <3>1, <3>2, <3>3 DEF Finishes
  <2>7. /\ FromBatch(all, s, k, to)
        /\ \A c \in fresh : c.ord > from
    BY <2>1, <2>2, <2>5, CodexAll
  <2>8. Complete(fresh, from + 1, to)
    BY <2>5 DEF CodexReadOK
  <2>9. \A c \in fresh : ~(c.ord <= from)
    <3>1. \A c \in all : c.ord \in Nat
      BY <2>7 DEF FromBatch, Tells, FileInv
    <3> HIDE DEF fresh
    <3>2. QED
      BY <2>7, <3>1
  <2> HIDE DEF fresh
  <2>10. Gathers(all, from, to)
    BY <1>2, <2>4, <2>8, <2>9, CodexGathers
  <2> HIDE DEF all, to, epoch
  <2>11. \A x \in Rows(CodexMessages(all, fresh)) : Voiced(x)
    <3>1. fresh \in SUBSET all
      BY DEF all
    <3>2. QED
      BY <2>2, <2>3, <2>7, <2>10, <3>1, CodexVoices
  <2>12. /\ \A c \in Codex!Trailing(all, epoch) : Unpaired(c.ord)
         /\ \A i \in 1..to : Lasts(i, to) =>
              \E c \in Codex!Trailing(all, epoch) : c.ord = i
    BY <2>2, <2>6, <2>7, <2>10, CodexCarries
  <2>13. parsed.state.carry = Codex!Trailing(all, epoch)
    BY <2>3, <2>6
  <2>14. VoicedTo(Rows(parsed.messages), to)
    BY <2>6, <2>11 DEF VoicedTo
  <2>15. CarryLast(parsed.state, to)
    BY <2>12, <2>13 DEF CarryLast
  <2>16. QED
    BY <2>14, <2>15 DEF to, parsed
<1>3. QED
  BY <1>1, <1>2

LEMMA SteadyPairs ==
  ASSUME Steady, NEW n \in 0..Len(file)
  PROVE  /\ \A i, j \in 1..n : PairAt(j, i)' <=> PairAt(j, i)
         /\ \A i \in 1..n : Unpaired(i)' <=> Unpaired(i)
         /\ \A i \in 1..n : Lasts(i, n)' <=> Lasts(i, n)
         /\ Plain(n)' <=> Plain(n)
<1>1. /\ n \in Nat /\ \A i \in 1..n : i \in 1..Len(file) /\ i \in Nat
      /\ provider' = provider
  BY DEF Steady
<1>2. ASSUME NEW i \in 1..n, NEW j \in 1..n
      PROVE  PairAt(j, i)' <=> PairAt(j, i)
  <2>1. At(j).ord = j /\ At(i).ord = i /\ At(i)' = At(i) /\ At(j)' = At(j)
    BY DEF At
  <2>2. /\ Projections(j)' = Projections(j)
        /\ Projections(i)' = Projections(i)
        /\ file'[i] = file[i] /\ file'[j] = file[j]
    BY <1>1 DEF Steady
  <2>3. Boundaries(j)' = Boundaries(j) /\ Boundaries(i)' = Boundaries(i)
    BY DEF Steady
  <2>4. \A k \in ((j + 1)..(i - 1)) \cup ((i + 1)..(j - 1)) :
          ClassesOf(k)' = ClassesOf(k)
    BY <1>1 DEF Steady
  <2>5. ProjectionPair(At(j), At(i))' <=> ProjectionPair(At(j), At(i))
    BY <2>1, <2>2, <2>3, <2>4 DEF ProjectionPair, Boundaries
  <2>6. QED
    BY <2>2, <2>5 DEF PairAt
<1>3. ASSUME NEW i \in 1..n PROVE Unpaired(i)' <=> Unpaired(i)
  <2>1. \A j \in 1..(i - 1) : j \in 1..n
    BY <1>1
  <2>2. \A j \in 1..(i - 1) : PairAt(j, i)' <=> PairAt(j, i)
    BY <1>2, <2>1
  <2>3. QED
    BY <2>2 DEF Unpaired
<1>4. ASSUME NEW i \in 1..n PROVE Lasts(i, n)' <=> Lasts(i, n)
  <2>1. ClassesOf(i)' = ClassesOf(i) /\ EpochAt(i)' = EpochAt(i)
    BY <1>1 DEF Steady
  <2>2. Boundaries(n)' = Boundaries(n)
    BY DEF Steady
  <2>3. \A k \in (i + 1)..n : ClassesOf(k)' = ClassesOf(k)
    BY <1>1 DEF Steady
  <2>4. QED
    BY <1>3, <2>1, <2>2, <2>3 DEF Lasts
<1>5. Plain(n)' <=> Plain(n)
  <2>1. \A i \in 1..n : Projections(i)' = Projections(i)
    BY <1>1 DEF Steady
  <2>2. \A i, j \in 1..n : SameProse(i, j)' <=> SameProse(i, j)
    BY <2>1 DEF SameProse
  <2>3. SaidOnceTo(n)' <=> SaidOnceTo(n)
    BY <2>2 DEF SaidOnceTo
  <2>4. \A i \in 2..n : file'[i] = file[i]
    BY <1>1 DEF Steady
  <2>5. OneMetaTo(n)' <=> OneMetaTo(n)
    BY <2>4 DEF OneMetaTo
  <2>6. QED
    BY <1>1, <2>3, <2>5 DEF Plain
<1>6. QED
  BY <1>2, <1>3, <1>4, <1>5

LEMMA SteadyReads ==
  ASSUME Steady, NEW n \in 0..Len(file)
  PROVE  /\ \A rows : RowsOK(rows, n) /\ VoicedTo(rows, n)
              => VoicedTo(rows, n)'
         /\ \A s : StateOK(s, n) /\ CarryLast(s, n) => CarryLast(s, n)'
         /\ \A rows : RowsOK(rows, n) /\ HeadCwds(rows) => HeadCwds(rows)'
         /\ \A rows, s : RowsOK(rows, n) /\ StagedCwds(rows, s)
              => StagedCwds(rows, s)'
<1>1. /\ n \in Nat /\ \A i \in 1..n : i \in 1..Len(file) /\ i \in Nat
      /\ provider' = provider
  BY DEF Steady
<1>2. \A i \in 1..n : file'[i] = file[i]
  BY <1>1 DEF Steady
<1>3. ASSUME NEW rows, RowsOK(rows, n)
      PROVE  \A x \in rows : x.ord \in 1..n /\ x.ord \in Nat
  BY <1>1, <1>3 DEF RowsOK, RowOK, Tells
<1>4. ASSUME NEW rows, RowsOK(rows, n), VoicedTo(rows, n)
      PROVE  VoicedTo(rows, n)'
  <2>1. SUFFICES ASSUME Plain(n), NEW x \in rows PROVE Voiced(x)'
    BY SteadyPairs DEF VoicedTo
  <2>2. PICK j \in 1..x.ord : SpeaksFor(j, x.ord) /\ VoiceOf(x, j)
    BY <1>4, <2>1 DEF VoicedTo, Voiced
  <2>3. x.ord \in 1..n /\ j \in 1..n /\ x.ord \in Nat /\ 1 \in 1..n
    BY <1>1, <1>3, <1>4
  <2>4. SpeaksFor(j, x.ord)'
    BY <2>2, <2>3, SteadyPairs DEF SpeaksFor
  <2>5. VoiceOf(x, j)'
    <3>1. file'[j] = file[j] /\ file'[1] = file[1]
      BY <1>2, <2>3
    <3>2. Projections(j)' = Projections(j)
      BY <1>1, <2>3 DEF Steady
    <3>3. LocatorAt(x.alias.session, j)' = LocatorAt(x.alias.session, j)
      <4>1. NativeKey(file[j])' = NativeKey(file[j])
        BY <1>1, <3>1 DEF NativeKey
      <4>2. Nameless' = Nameless
        BY <1>1 DEF Nameless
      <4>3. QED
        BY <4>1, <4>2 DEF LocatorAt
    <3>4. MetaKind(file[1])' = MetaKind(file[1])
      BY <3>1 DEF MetaKind
    <3>5. QED
      BY <2>2, <3>1, <3>2, <3>3, <3>4 DEF VoiceOf
  <2>6. QED
    BY <2>4, <2>5 DEF Voiced
<1>5. ASSUME NEW s, StateOK(s, n), CarryLast(s, n) PROVE CarryLast(s, n)'
  <2>1. SUFFICES ASSUME Plain(n)
                 PROVE  /\ \A c \in s.carry : Unpaired(c.ord)'
                        /\ s.session # NoId =>
                             \A i \in 1..n : Lasts(i, n)' =>
                               \E c \in s.carry : c.ord = i
    BY SteadyPairs DEF CarryLast
  <2>2. \A c \in s.carry : c.ord \in 1..n
    BY <1>1, <1>5, <2>1 DEF StateOK, Plain, Waits, Tells
  <2>3. QED
    BY <1>5, <2>1, <2>2, SteadyPairs DEF CarryLast
<1>6. ASSUME NEW rows, RowsOK(rows, n), HeadCwds(rows)
      PROVE  HeadCwds(rows)'
  <2>1. SUFFICES ASSUME NEW x \in rows, NEW y \in rows, Heads(y, x, rows)
                 PROVE  x.cwd = file'[y.ord].cwd
    BY DEF HeadCwds, Heads, MessageKey
  <2>2. x.cwd = file[y.ord].cwd
    BY <1>6, <2>1 DEF HeadCwds
  <2>3. QED
    BY <1>2, <1>3, <1>6, <2>2
<1>7. ASSUME NEW rows, NEW s, RowsOK(rows, n), StagedCwds(rows, s)
      PROVE  StagedCwds(rows, s)'
  BY <1>1, <1>2, <1>3, <1>7 DEF StagedCwds
<1>8. QED
  BY <1>4, <1>5, <1>6, <1>7

(***************************************************************************)
(* The steps, once more.                                                   *)
(***************************************************************************)
LEMMA CorpusReadsStay ==
  ASSUME SessionInv, CorpusReads, Steady,
         UNCHANGED <<status, done, store, corpus>>
  PROVE  CorpusReads'
<1>1. done \in 0..Len(file) /\ provider' = provider
  BY DEF SessionInv, FileInv, Steady
<1>2. CASE status = "excluded"
  BY <1>2 DEF CorpusReads
<1>3. CASE status # "excluded"
  <2>1. /\ RowsOK(corpus, done) /\ StateOK(store, done)
        /\ VoicedTo(corpus, done) /\ CarryLast(store, done)
        /\ provider = "claude" => HeadCwds(corpus)
        /\ provider = "antigravity" => \A x \in corpus : x.cwd = store.cwd
    BY <1>3 DEF SessionInv, CorpusInv, CorpusReads
  <2>2. /\ VoicedTo(corpus, done)' /\ CarryLast(store, done)'
        /\ provider = "claude" => HeadCwds(corpus)'
    BY <1>1, <2>1, SteadyReads
  <2>3. QED
    BY <1>1, <2>1, <2>2 DEF CorpusReads
<1>4. QED
  BY <1>2, <1>3

LEMMA RunReadsStay ==
  ASSUME SessionInv, UNCHANGED <<provider, file, status, done, store, corpus>>,
         NEW r, RunOK(r), RunReads(r)
  PROVE  RunReads(r)'
<1>1. Steady
  BY StillFile DEF SessionInv
<1>2. r.pos \in 0..Len(file) /\ RowsOK(r.staged, r.pos)
      /\ StateOK(r.state, r.pos)
  BY DEF RunOK
<1>3. /\ VoicedTo(r.staged, r.pos) /\ CarryLast(r.state, r.pos)
      /\ StagedCwds(r.staged, r.state)
  BY DEF RunReads
<1>4. /\ VoicedTo(r.staged, r.pos)' /\ CarryLast(r.state, r.pos)'
      /\ StagedCwds(r.staged, r.state)'
  BY <1>1, <1>2, <1>3, SteadyReads
<1>5. QED
  BY <1>4 DEF RunReads

LEMMA NextReads ==
  ASSUME SessionInv, CorpusReads,
         UNCHANGED <<provider, file, status, done, store, corpus>>,
         run'.active => RunOK(run') /\ RunReads(run')
  PROVE  CorpusReads' /\ (run.active => RunReads(run))'
<1>1. Steady
  BY StillFile DEF SessionInv
<1>2. CorpusReads'
  BY <1>1, CorpusReadsStay
<1>3. ASSUME run'.active PROVE RunReads(run)'
  BY <1>3, RunReadsStay
<1>4. QED
  BY <1>2, <1>3

LEMMA NothingRead ==
  ASSUME FileInv
  PROVE  /\ \A n : VoicedTo({}, n)
         /\ CarryLast(InitialState(provider), 0)
         /\ \A s : StagedCwds({}, s)
         /\ HeadCwds({})
<1>1. CarryLast(InitialState(provider), 0)
  <2>1. CASE provider = "codex"
    <3>1. InitialState(provider) = Codex!Initial
      BY <2>1 DEF InitialState
    <3>2. /\ Codex!Initial.carry = {} /\ Codex!Initial.session = NoId
      BY DEF Codex!Initial, Codex!NoId, NoId
    <3>3. QED
      BY <3>1, <3>2 DEF CarryLast
  <2>2. CASE provider # "codex"
    BY <2>2 DEF CarryLast, Plain
  <2>3. QED
    BY <2>1, <2>2
<1>2. QED
  BY <1>1 DEF VoicedTo, StagedCwds, HeadCwds

LEMMA InitReads == Init => ReadingInv
<1> SUFFICES ASSUME Init PROVE ReadingInv
  OBVIOUS
<1>1. SessionInv
  BY InitInv
<1>2. /\ corpus = {} /\ done = 0 /\ store = InitialState(provider)
      /\ ~run.active
  BY DEF Init, NoRun
<1>3. CorpusReads
  BY <1>1, <1>2, NothingRead DEF CorpusReads, SessionInv
<1>4. QED
  BY <1>1, <1>2, <1>3 DEF ReadingInv

LEMMA NewRunReads ==
  ASSUME SessionInv, CorpusReads, status # "excluded",
         NEW replace \in BOOLEAN, NEW ignoring
  PROVE  RunReads(NewRun(replace, ignoring))
<1> DEFINE new == NewRun(replace, ignoring)
<1>1. /\ new.replace = replace /\ new.staged = {}
      /\ new.pos = IF replace THEN 0 ELSE done
      /\ new.state = IF replace THEN InitialState(provider) ELSE store
  BY DEF NewRun
<1> HIDE DEF new
<1>2. /\ VoicedTo({}, new.pos) /\ StagedCwds({}, new.state)
      /\ CarryLast(InitialState(provider), 0)
  BY NothingRead DEF SessionInv
<1>3. CarryLast(new.state, new.pos)
  BY <1>1, <1>2 DEF CorpusReads
<1>4. RunReads(new)
  BY <1>1, <1>2, <1>3 DEF RunReads
<1>5. QED
  BY <1>4 DEF new

(* What is known of the cwd of a session stays known.                      *)
LEMMA CwdKeeps ==
  ASSUME NEW m \in Nat, NEW n \in Nat, m <= n, NEW a, NEW b,
         CwdKnown(a, m), CwdKnown(b, n)
  PROVE  a # NoCwd => b = a
<1>1. SUFFICES ASSUME a # NoCwd PROVE b = a
  OBVIOUS
<1>2. PICK i \in 1..m : /\ CwdOf(i) = a
                       /\ \A j \in 1..(i - 1) : CwdOf(j) = NoCwd
  BY <1>1 DEF CwdKnown
<1>3. i \in 1..n
  OBVIOUS
<1>4. PICK k \in 1..n : /\ CwdOf(k) = b /\ b # NoCwd
                       /\ \A j \in 1..(k - 1) : CwdOf(j) = NoCwd
  BY <1>1, <1>2, <1>3 DEF CwdKnown
<1>5. CASE i < k
  <2>1. i \in 1..(k - 1)
    BY <1>5
  <2>2. QED
    BY <1>1, <1>2, <1>4, <2>1
<1>6. CASE k < i
  <2>1. k \in 1..(i - 1)
    BY <1>6
  <2>2. QED
    BY <1>2, <1>4, <2>1
<1>7. QED
  BY <1>2, <1>4, <1>5, <1>6

LEMMA BatchReads ==
  ASSUME FileInv, NEW from \in Nat, NEW n \in Nat, n # 0,
         from + n <= Len(file), NEW state, StateOK(state, from),
         CarryLast(state, from),
         provider = "codex" => Identified(state, from, n)
  PROVE  LET parsed == Parse(Envelopes(from, n), state)
         IN  /\ VoicedTo(Rows(parsed.messages), from + n)
             /\ CarryLast(parsed.state, from + n)
<1>1. CASE provider = "codex"
  BY <1>1, CodexReading DEF Parse
<1>2. CASE provider # "codex"
  BY <1>2 DEF VoicedTo, CarryLast, Plain
<1>3. QED
  BY <1>1, <1>2

(* A batch more is told by what its records say, and keeps the cwd that is *)
(* known.                                                                  *)
LEMMA ReadReads ==
  ASSUME ReadingInv, Read
  PROVE  ReadingInv'
<1>1. PICK n, parsed, rows : Reading(n, parsed, rows)
  BY ReadFacts DEF ReadingInv
<1>2. /\ UNCHANGED <<provider, file, status, done, store, corpus>>
      /\ run.active
  BY DEF Read
<1>3. RunOK(run) /\ FileInv /\ SessionInv /\ CorpusReads /\ RunReads(run)
  BY <1>2 DEF ReadingInv, SessionInv, RunInv
<1>4. SessionInv' /\ RunOK(run')
  BY <1>3, ReadInv
<1> DEFINE from == run.pos
           to == from + n
           s == run.state
           t == parsed.state
           new == run'
           staged == run.staged
<1>5. /\ from \in Nat /\ n \in Nat /\ n # 0 /\ to \in Nat
      /\ to <= Len(file) /\ from <= to
  BY <1>1, <1>3 DEF RunOK, FileInv, Reading
<1>6. /\ new.pos = to /\ new.state = t
      /\ new.staged = Stage(staged, rows)
      /\ new.established = (run.established \/ Established(parsed))
      /\ new.replace = run.replace
      /\ parsed = Parse(Envelopes(from, n), s)
      /\ rows = Rows(parsed.messages)
      /\ provider = "codex" => Identified(s, from, n)
  BY <1>1 DEF Reading
<1>7. /\ provider = "claude" => \A x \in rows : x.cwd = file[x.ord].cwd
      /\ provider = "antigravity" =>
           /\ \A x \in rows : x.cwd = t.cwd
           /\ Established(parsed) = (s.cwd = NoCwd /\ t.cwd # NoCwd)
      /\ StateOK(t, to)
  BY <1>1 DEF Reading, BatchOK, BatchCwds, BatchState
<1>8. StateOK(s, from)
  BY <1>3 DEF RunOK
<1>9. /\ VoicedTo(staged, from) /\ CarryLast(s, from)
      /\ StagedCwds(staged, s)
      /\ provider = "antigravity" /\ ~run.replace /\ ~run.established =>
           s.cwd = store.cwd
  BY <1>3 DEF RunReads
<1>10. \A x \in Stage(staged, rows) : x \in staged \/ x \in rows
  BY DEF Stage
<1> HIDE DEF from, to, s, t, new, staged
<1>11. VoicedTo(Rows(parsed.messages), to) /\ CarryLast(parsed.state, to)
  <2>1. provider = "codex" => Identified(s, from, n)
    BY <1>6
  <2>2. from + n <= Len(file)
    BY <1>5 DEF to
  <2>3. LET p == Parse(Envelopes(from, n), s)
        IN  /\ VoicedTo(Rows(p.messages), from + n)
            /\ CarryLast(p.state, from + n)
    BY <1>3, <1>5, <1>8, <1>9, <2>1, <2>2, BatchReads
  <2>4. QED
    BY <1>6, <2>3 DEF to
<1>12. VoicedTo(Stage(staged, rows), to)
  <2>1. SUFFICES ASSUME Plain(to), NEW x \in Stage(staged, rows)
                 PROVE  Voiced(x)
    BY DEF VoicedTo
  <2>2. Plain(from)
    BY <1>5, <2>1, PlainBefore
  <2>3. QED
    BY <1>6, <1>9, <1>10, <1>11, <2>1, <2>2 DEF VoicedTo
<1>13. provider = "antigravity" => (s.cwd # NoCwd => t.cwd = s.cwd)
  <2>1. SUFFICES ASSUME provider = "antigravity"
                 PROVE  s.cwd # NoCwd => t.cwd = s.cwd
    OBVIOUS
  <2>2. CwdKnown(s.cwd, from) /\ CwdKnown(t.cwd, to)
    BY <1>7, <1>8, <2>1 DEF StateOK
  <2>3. QED
    BY <1>5, <2>2, CwdKeeps
<1>14. StagedCwds(Stage(staged, rows), t)
  BY <1>7, <1>9, <1>10, <1>13 DEF StagedCwds
<1>15. ASSUME provider = "antigravity", ~new.replace, ~new.established
       PROVE  t.cwd = store.cwd
  <2>1. ~run.replace /\ ~run.established /\ ~Established(parsed)
    BY <1>6, <1>15
  <2>2. QED
    BY <1>7, <1>9, <1>13, <1>15, <2>1
<1>16. RunReads(new)
  BY <1>6, <1>11, <1>12, <1>14, <1>15 DEF RunReads, t
<1>17. CorpusReads' /\ (run.active => RunReads(run))'
  BY <1>2, <1>3, <1>4, <1>16, NextReads DEF new
<1>18. QED
  BY <1>4, <1>17 DEF ReadingInv

(* A run begins from what is stored, or anew.                              *)
LEMMA NewRunKeeps ==
  ASSUME ReadingInv, status # "excluded", NEW replace \in BOOLEAN,
         NEW ignoring, run' = NewRun(replace, ignoring), RunOK(run'),
         UNCHANGED <<provider, file, status, done, store, corpus>>,
         SessionInv'
  PROVE  ReadingInv'
<1>1. SessionInv /\ CorpusReads
  BY DEF ReadingInv
<1>2. RunReads(run')
  BY <1>1, NewRunReads
<1>3. CorpusReads' /\ (run.active => RunReads(run))'
  BY <1>1, <1>2, NextReads
<1>4. QED
  BY <1>3 DEF ReadingInv

LEMMA BeginReads ==
  ASSUME ReadingInv, Begin
  PROVE  ReadingInv'
<1>1. PICK ignoring \in BOOLEAN : run' = NewRun(status = "new", ignoring)
  BY DEF Begin
<1>2. /\ UNCHANGED <<provider, file, status, done, store, corpus>>
      /\ status # "excluded"
  BY DEF Begin
<1>3. SessionInv' /\ RunOK(run')
  BY BeginInv DEF ReadingInv
<1> DEFINE replace == status = "new"
<1>4. replace \in BOOLEAN /\ run' = NewRun(replace, ignoring)
  BY <1>1
<1> HIDE DEF replace
<1>5. QED
  BY <1>2, <1>3, <1>4, NewRunKeeps

LEMMA ReparseReads ==
  ASSUME ReadingInv, Reparse
  PROVE  ReadingInv'
<1>1. /\ UNCHANGED <<provider, file, status, done, store, corpus>>
      /\ run' = NewRun(TRUE, run.ignoring) /\ run.active
  BY DEF Reparse
<1>2. SessionInv' /\ RunOK(run')
  BY ReparseInv DEF ReadingInv
<1>3. status # "excluded"
  BY <1>1 DEF ReadingInv, SessionInv, RunInv, RunOK
<1>4. QED
  BY <1>1, <1>2, <1>3, NewRunKeeps

(* A run that ends without publishing leaves what was published.           *)
LEMMA EndReads ==
  ASSUME ReadingInv, FailRead \/ FailPublish \/ Crash
  PROVE  ReadingInv'
<1>1. /\ UNCHANGED <<provider, file, status, done, store, corpus>>
      /\ ~run'.active
  BY DEF FailRead, FailPublish, Crash, NoRun
<1>2. SessionInv'
  BY EndInv DEF ReadingInv
<1>3. CorpusReads' /\ (run.active => RunReads(run))'
  BY <1>1, NextReads DEF ReadingInv
<1>4. QED
  BY <1>2, <1>3 DEF ReadingInv

LEMMA ExcludeReads ==
  ASSUME ReadingInv, Exclude
  PROVE  ReadingInv'
<1>1. status' = "excluded" /\ ~run'.active
  BY DEF Exclude, NoRun
<1>2. SessionInv'
  BY ExcludeInv DEF ReadingInv
<1>3. QED
  BY <1>1, <1>2 DEF ReadingInv, CorpusReads

LEMMA StutterReads ==
  ASSUME ReadingInv, UNCHANGED vars
  PROVE  ReadingInv'
<1>1. /\ UNCHANGED <<provider, file, status, done, store, corpus>>
      /\ run' = run
  BY DEF vars
<1>2. SessionInv'
  BY StutterInv DEF ReadingInv
<1>3. run.active => RunOK(run) /\ RunReads(run)
  BY DEF ReadingInv, SessionInv, RunInv
<1>4. CorpusReads' /\ (run.active => RunReads(run))'
  BY <1>1, <1>3, NextReads DEF ReadingInv
<1>5. QED
  BY <1>2, <1>4 DEF ReadingInv

(* What a longer file adds is after what was read.                         *)
LEMMA GrowReads ==
  ASSUME ReadingInv, Grow
  PROVE  ReadingInv'
<1>1. /\ UNCHANGED <<provider, status, done, store, corpus, run>>
      /\ ~run.active
  BY DEF Grow
<1>2. SessionInv' /\ Steady
  BY GrowInv DEF ReadingInv
<1>3. CorpusReads'
  BY <1>1, <1>2, CorpusReadsStay DEF ReadingInv
<1>4. QED
  BY <1>1, <1>2, <1>3 DEF ReadingInv

(* Publication leaves the records of the rows, and settles their cwd.      *)
LEMMA PublishedFrom ==
  ASSUME SessionInv, run.active, run.pos = Len(file)
  PROVE  /\ \A x \in Published(ToPublish, run.replace) :
              \E y \in Known : SameRow(x, y)
         /\ RowsOK(Published(ToPublish, run.replace), run.pos)
<1> DEFINE new == Published(ToPublish, run.replace)
<1>1. RunOK(run) /\ CorpusInv
  BY DEF SessionInv, RunInv
<1>2. /\ Fields(run.staged) /\ Fields(corpus) /\ run.replace \in BOOLEAN
  BY <1>1 DEF RunOK, CorpusInv
<1> DEFINE staged == run.staged
           replace == run.replace
           state == run.state
           old == IF replace THEN {} ELSE corpus
<1>3. Carries(Published(Stamped(staged, state), replace), old, staged)
  <2> HIDE DEF staged, replace, state
  <2>1. QED
    BY <1>2, PublishedRows DEF staged, replace
<1>4. \A x \in new : \E y \in old \cup staged : SameRow(x, y)
  BY <1>3 DEF Carries, ToPublish
<1>5. old \cup staged = Known
  BY DEF Known, Prior
<1> HIDE DEF new, old, staged
<1>6. \A x \in new : \E y \in Known : SameRow(x, y)
  BY <1>4, <1>5
<1>7. ASSUME NEW x \in new PROVE RowOK(x) /\ x.ord <= run.pos
  <2>1. PICK y \in Known : SameRow(x, y)
    BY <1>6
  <2>2. RowOK(y) /\ y.ord <= run.pos
    BY KnownRows DEF RowsOK
  <2>3. x.ord = y.ord
    BY <2>1 DEF SameRow
  <2>4. QED
    BY <2>1, <2>2, <2>3, SameRowFacts
<1>8. QED
  BY <1>6, <1>7 DEF RowsOK, new

LEMMA VoicedSame ==
  ASSUME NEW x, NEW y, SameRow(x, y), Voiced(y)
  PROVE  Voiced(x)
<1>1. /\ x.ord = y.ord /\ x.class = y.class /\ x.id = y.id
      /\ x.alias = y.alias /\ x.locator = y.locator
      /\ x.time = y.time /\ x.role = y.role /\ x.kind = y.kind
      /\ x.text = y.text /\ x.harness = y.harness
  BY DEF SameRow, Says
<1>2. \A j : VoiceOf(y, j) => VoiceOf(x, j)
  BY <1>1 DEF VoiceOf
<1>3. QED
  BY <1>1, <1>2 DEF Voiced

LEMMA PublishedVoices ==
  ASSUME ReadingInv, run.active, run.pos = Len(file)
  PROVE  VoicedTo(Published(ToPublish, run.replace), run.pos)
<1>1. SUFFICES ASSUME Plain(run.pos),
                      NEW x \in Published(ToPublish, run.replace)
               PROVE  Voiced(x)
  BY DEF VoicedTo
<1>2. SessionInv /\ RunReads(run) /\ CorpusReads
  BY DEF ReadingInv
<1>3. /\ done \in Nat /\ run.pos \in Nat /\ done <= run.pos
      /\ status # "excluded"
  BY <1>2 DEF SessionInv, FileInv, RunInv, RunOK
<1>4. Plain(done)
  BY <1>1, <1>3, PlainBefore
<1>5. PICK y \in Known : SameRow(x, y)
  BY <1>1, <1>2, PublishedFrom
<1>6. Voiced(y)
  BY <1>1, <1>2, <1>3, <1>4 DEF RunReads, CorpusReads, VoicedTo, Known, Prior
<1>7. QED
  BY <1>5, <1>6, VoicedSame

(* The earliest row of a message.                                          *)
LEMMA EarliestHeads ==
  ASSUME NEW rows, \A x \in rows : x.ord \in Nat, NEW r \in rows
  PROVE  Heads(Earliest(r, rows), r, rows)
<1> DEFINE S == {s.ord : s \in {t \in rows : MessageKey(t) = MessageKey(r)}}
<1>1. S \in SUBSET Nat /\ S # {}
  OBVIOUS
<1>2. PICK m \in S : \A k \in S : m <= k
  <2> HIDE DEF S
  <2>1. QED
    BY <1>1, NatMin
<1>3. PICK s \in rows : MessageKey(s) = MessageKey(r) /\ s.ord = m
  BY <1>2
<1>4. \A t \in rows : MessageKey(t) = MessageKey(r) => s.ord <= t.ord
  BY <1>2, <1>3
<1>5. QED
  BY <1>3, <1>4 DEF Earliest, Heads

(* What is settled is every row, with the cwd of the earliest row of its   *)
(* message.                                                                *)
Settling(rows) ==
  /\ \A x \in Settled(rows) : \E r \in rows :
       SameRow(x, r) /\ x.cwd = Earliest(r, rows).cwd
  /\ \A r \in rows : \E x \in Settled(rows) : SameRow(x, r)
  /\ \A r \in rows : /\ Earliest(r, rows) \in rows
                     /\ Heads(Earliest(r, rows), r, rows)

LEMMA RowsSettle ==
  ASSUME NEW rows, Fields(rows), \A x \in rows : x.ord \in Nat
  PROVE  Settling(rows)
<1> DEFINE cast(r) == [r EXCEPT !.cwd = Earliest(r, rows).cwd]
<1>1. Settled(rows) = {cast(r) : r \in rows}
  BY DEF Settled
<1>2. \A r \in rows :
        SameRow(cast(r), r) /\ cast(r).cwd = Earliest(r, rows).cwd
  BY CwdRow DEF Fields
<1> HIDE DEF cast
<1>3. \A r \in rows : Heads(Earliest(r, rows), r, rows)
  BY EarliestHeads
<1>4. \A r \in rows : Earliest(r, rows) \in rows
  BY <1>3 DEF Heads
<1>5. \A x \in Settled(rows) : \E r \in rows :
        SameRow(x, r) /\ x.cwd = Earliest(r, rows).cwd
  BY <1>1, <1>2
<1>6. \A r \in rows : \E x \in Settled(rows) : SameRow(x, r)
  BY <1>1, <1>2
<1>7. QED
  BY <1>3, <1>4, <1>5, <1>6 DEF Settling

(* If the earliest row of a message has the cwd of its record, its rows    *)
(* have it when they are settled.                                          *)
LEMMA SettledHeads ==
  ASSUME NEW rows, Fields(rows), \A x \in rows : x.ord \in Nat,
         \A e \in rows : Heads(e, e, rows) => e.cwd = file[e.ord].cwd
  PROVE  HeadCwds(Settled(rows))
<1>1. Settling(rows)
  BY RowsSettle
<1>2. SUFFICES ASSUME NEW x \in Settled(rows), NEW y \in Settled(rows),
                      Heads(y, x, Settled(rows))
               PROVE  x.cwd = file[y.ord].cwd
  BY DEF HeadCwds
<1>3. \A z, r : SameRow(z, r) => MessageKey(z) = MessageKey(r)
  BY SameRowFacts
<1>4. PICK r \in rows : SameRow(x, r) /\ x.cwd = Earliest(r, rows).cwd
  BY <1>1 DEF Settling
<1> DEFINE e == Earliest(r, rows)
<1>5. e \in rows /\ Heads(e, r, rows)
  BY <1>1 DEF Settling
<1>6. x.cwd = e.cwd
  BY <1>4
<1> HIDE DEF e
<1>7. Heads(e, e, rows) /\ MessageKey(e) = MessageKey(x)
  BY <1>3, <1>4, <1>5 DEF Heads
<1>8. PICK w \in rows : SameRow(y, w)
  BY <1>1 DEF Settling
<1>9. PICK v \in Settled(rows) : SameRow(v, e)
  BY <1>1, <1>5 DEF Settling
<1>10. e.ord <= w.ord /\ y.ord = w.ord
  BY <1>2, <1>3, <1>7, <1>8 DEF Heads, SameRow
<1>11. y.ord <= v.ord /\ v.ord = e.ord
  <2>1. MessageKey(v) = MessageKey(x)
    BY <1>3, <1>7, <1>9
  <2>2. QED
    BY <1>2, <1>9, <2>1 DEF Heads, SameRow
<1>12. y.ord = e.ord
  BY <1>5, <1>8, <1>10, <1>11
<1>13. e.cwd = file[e.ord].cwd
  BY <1>5, <1>7
<1>14. QED
  BY <1>6, <1>12, <1>13

(* The rows that a publication settles.                                    *)
LEMMA PublishedSettles ==
  ASSUME SessionInv, run.active, run.pos = Len(file)
  PROVE  LET candidates == Candidates(ToPublish, run.replace)
         IN  /\ Published(ToPublish, run.replace) =
                  Untouched(ToPublish, run.replace) \cup Settled(candidates)
             /\ Fields(candidates) /\ \A x \in candidates : x.ord \in Nat
<1> DEFINE candidates == Candidates(ToPublish, run.replace)
<1>1. /\ Fields(candidates)
      /\ \A x \in candidates : \E y \in Known : SameRow(x, y)
  BY CandidateRows
<1>2. Published(ToPublish, run.replace) =
        Untouched(ToPublish, run.replace) \cup Settled(candidates)
  BY DEF Published
<1>3. \A y \in Known : y.ord \in Nat
  BY KnownRows DEF RowsOK, RowOK, Tells
<1>4. \A x \in candidates : x.ord \in Nat
  BY <1>1, <1>3 DEF SameRow
<1>5. QED
  BY <1>1, <1>2, <1>4

(* All rows of an Antigravity session have the cwd that is known.          *)
LEMMA PublishedCwd ==
  ASSUME ReadingInv, provider = "antigravity", run.active,
         run.pos = Len(file), ~Again
  PROVE  \A x \in Published(ToPublish, run.replace) : x.cwd = run.state.cwd
<1> DEFINE st == run.state
           rows == ToPublish
           untouched == Untouched(ToPublish, run.replace)
           remaining == Remaining(ToPublish, run.replace)
           candidates == Candidates(ToPublish, run.replace)
           new == Published(ToPublish, run.replace)
<1>1. SessionInv /\ RunReads(run) /\ CorpusReads /\ RunOK(run)
  BY DEF ReadingInv, SessionInv, RunInv
<1>2. \A x \in rows : x.cwd = st.cwd
  <2>1. Fields(run.staged)
    BY <1>1 DEF RunOK
  <2>2. CASE st.cwd = NoCwd
    <3>1. rows = run.staged
      BY <2>2 DEF ToPublish, Stamped, StateCwd
    <3>2. QED
      BY <1>1, <2>2, <3>1 DEF RunReads, StagedCwds
  <2>3. CASE st.cwd # NoCwd
    <3> DEFINE cast(r) == [r EXCEPT !.cwd = st.cwd]
    <3>1. rows = {cast(r) : r \in run.staged}
      BY <2>3 DEF ToPublish, Stamped, StateCwd
    <3>2. \A r \in run.staged : cast(r).cwd = st.cwd
      BY <2>1, CwdRow DEF Fields
    <3> HIDE DEF cast, rows
    <3>3. QED
      BY <3>1, <3>2
  <2>4. QED
    BY <2>2, <2>3
<1>3. \A x \in untouched \cup remaining : x.cwd = st.cwd
  <2>1. CASE run.replace
    <3>1. untouched = {} /\ remaining = {}
      BY <2>1 DEF Untouched, Remaining, Affected
    <3>2. QED
      BY <3>1
  <2>2. CASE ~run.replace
    <3>1. ~run.established /\ status # "excluded"
      BY <1>1, <2>2 DEF Again, RunOK
    <3>2. st.cwd = store.cwd
      BY <1>1, <2>2, <3>1 DEF RunReads
    <3>3. \A x \in corpus : x.cwd = store.cwd
      BY <1>1, <3>1 DEF CorpusReads
    <3>4. untouched \subseteq corpus /\ remaining \subseteq corpus
      BY DEF Untouched, Remaining
    <3>5. QED
      BY <3>2, <3>3, <3>4
  <2>3. QED
    BY <2>1, <2>2
<1>4. \A x \in candidates : x \in remaining \/ x \in rows
  BY DEF Candidates, Stage
<1>5. /\ new = untouched \cup Settled(candidates)
      /\ Fields(candidates) /\ \A x \in candidates : x.ord \in Nat
  BY <1>1, PublishedSettles
<1> HIDE DEF st, rows, untouched, remaining, candidates, new
<1>6. \A x \in candidates : x.cwd = st.cwd
  BY <1>2, <1>3, <1>4
<1>7. Settling(candidates)
  BY <1>5, RowsSettle
<1>8. \A x \in new : x.cwd = st.cwd
  BY <1>3, <1>5, <1>6, <1>7 DEF Settling
<1>9. QED
  BY <1>8 DEF new, st

(* The earliest of the rows that are settled has the cwd of its record: it *)
(* was staged, or it is the earliest of those that were published.         *)
LEMMA SettledHead ==
  ASSUME ReadingInv, provider = "claude", run.active, run.pos = Len(file),
         NEW e \in Candidates(ToPublish, run.replace),
         Heads(e, e, Candidates(ToPublish, run.replace))
  PROVE  e.cwd = file[e.ord].cwd
<1> DEFINE remaining == Remaining(ToPublish, run.replace)
           candidates == Candidates(ToPublish, run.replace)
<1>1. /\ SessionInv /\ RunReads(run) /\ CorpusReads /\ RunOK(run)
      /\ status # "excluded"
  BY DEF ReadingInv, SessionInv, RunInv, RunOK
<1>2. ToPublish = run.staged
  BY DEF ToPublish, Stamped, StateCwd
<1>3. candidates = {r \in remaining : \A s \in run.staged :
                      PrimaryKey(r) # PrimaryKey(s)} \cup run.staged
  BY <1>2 DEF Candidates, Stage
<1>4. remaining = {r \in corpus : /\ ~run.replace
                                  /\ MessageKey(r) \in
                                       Affected(ToPublish, run.replace)}
  BY DEF Remaining
<1>5. CASE e \in run.staged
  BY <1>1, <1>5 DEF RunReads, StagedCwds
<1>6. CASE e \in remaining
  <2>1. ASSUME NEW z \in corpus, MessageKey(z) = MessageKey(e)
        PROVE  e.ord <= z.ord
    <3>1. z \in remaining /\ ~run.replace
      BY <1>4, <1>6, <2>1
    <3>2. CASE z \in candidates
      BY <2>1, <3>2 DEF Heads
    <3>3. ASSUME NEW s \in run.staged, PrimaryKey(z) = PrimaryKey(s)
          PROVE  e.ord <= z.ord
      <4>1. SameIdentity(s, z)
        BY <1>1, <3>1, <3>3 DEF RunOK
      <4>2. MessageKey(s) = MessageKey(e) /\ s.ord = z.ord
        BY <2>1, <3>3, <4>1 DEF MessageKey, PrimaryKey, SameIdentity
      <4>3. s \in candidates
        BY <1>3
      <4>4. QED
        BY <4>2, <4>3 DEF Heads
    <3>4. QED
      BY <1>3, <3>1, <3>2, <3>3
  <2>2. e \in corpus
    BY <1>4, <1>6
  <2>3. Heads(e, e, corpus)
    BY <2>1, <2>2 DEF Heads
  <2>4. HeadCwds(corpus)
    BY <1>1 DEF CorpusReads
  <2>5. QED
    BY <2>2, <2>3, <2>4 DEF HeadCwds
<1>7. QED
  BY <1>3, <1>5, <1>6

LEMMA PublishedHeads ==
  ASSUME ReadingInv, provider = "claude", run.active, run.pos = Len(file)
  PROVE  HeadCwds(Published(ToPublish, run.replace))
<1> DEFINE untouched == Untouched(ToPublish, run.replace)
           candidates == Candidates(ToPublish, run.replace)
           affected == Affected(ToPublish, run.replace)
           new == Published(ToPublish, run.replace)
<1>1. SessionInv /\ CorpusReads /\ status # "excluded" /\ CorpusInv
  BY DEF ReadingInv, SessionInv, RunInv, RunOK
<1>2. /\ new = untouched \cup Settled(candidates)
      /\ Fields(candidates) /\ \A x \in candidates : x.ord \in Nat
  BY <1>1, PublishedSettles
<1>3. \A r \in candidates : MessageKey(r) \in affected
  BY DEF Candidates, Stage, Remaining, Affected
<1>4. untouched = {r \in corpus : MessageKey(r) \notin affected}
  BY DEF Untouched
<1>5. \A e \in candidates : Heads(e, e, candidates) => e.cwd = file[e.ord].cwd
  BY SettledHead
<1> HIDE DEF untouched, candidates, affected, new
<1>6. Settling(candidates) /\ HeadCwds(Settled(candidates))
  BY <1>2, <1>5, RowsSettle, SettledHeads
<1>7. SUFFICES ASSUME NEW x \in new, NEW y \in new, Heads(y, x, new)
               PROVE  x.cwd = file[y.ord].cwd
  BY DEF HeadCwds, new
<1>8. MessageKey(y) = MessageKey(x)
  BY <1>7 DEF Heads
<1>9. \A z \in Settled(candidates) : MessageKey(z) \in affected
  BY <1>3, <1>6, SameRowFacts DEF Settling
<1>10. CASE x \in untouched
  <2>1. MessageKey(x) \notin affected /\ x \in corpus
    BY <1>4, <1>10
  <2>2. y \in corpus
    BY <1>2, <1>4, <1>8, <1>9, <2>1
  <2>3. \A z \in corpus : MessageKey(z) = MessageKey(x) => z \in new
    BY <1>2, <1>4, <2>1
  <2>4. Heads(y, x, corpus)
    BY <1>7, <2>2, <2>3 DEF Heads
  <2>5. HeadCwds(corpus)
    BY <1>1 DEF CorpusReads
  <2>6. QED
    BY <2>1, <2>2, <2>4, <2>5 DEF HeadCwds
<1>11. CASE x \in Settled(candidates)
  <2>1. y \in Settled(candidates)
    BY <1>2, <1>4, <1>8, <1>9, <1>11
  <2>2. Heads(y, x, Settled(candidates))
    BY <1>2, <1>7, <2>1 DEF Heads
  <2>3. QED
    BY <1>6, <1>11, <2>1, <2>2 DEF HeadCwds
<1>12. QED
  BY <1>2, <1>10, <1>11

LEMMA PublishReads ==
  ASSUME ReadingInv, Publish
  PROVE  ReadingInv'
<1> DEFINE new == Published(ToPublish, run.replace)
           pos == run.pos
           state == run.state
<1>1. /\ run.active /\ run.pos = Len(file) /\ ~Again
      /\ corpus' = new /\ done' = pos /\ store' = state
      /\ run' = NoRun /\ provider' = provider /\ file' = file
  BY DEF Publish
<1>2. /\ SessionInv /\ RunReads(run) /\ FileInv /\ RunOK(run)
      /\ pos \in 0..Len(file)
  BY <1>1 DEF ReadingInv, SessionInv, RunInv, RunOK
<1>3. SessionInv'
  BY <1>2, PublishInv
<1>4. Steady
  BY <1>1, <1>2, StillFile
<1>5. RowsOK(new, pos) /\ StateOK(state, pos) /\ CarryLast(state, pos)
  BY <1>1, <1>2, PublishedFrom DEF RunOK, RunReads
<1>6. VoicedTo(new, pos)
  BY <1>1, PublishedVoices
<1>7. provider = "claude" => HeadCwds(new)
  BY <1>1, PublishedHeads
<1>8. provider = "antigravity" => \A x \in new : x.cwd = state.cwd
  BY <1>1, PublishedCwd
<1> HIDE DEF new, pos, state
<1>9. /\ RowsOK(corpus', done') /\ StateOK(store', done')
      /\ CarryLast(store', done') /\ VoicedTo(corpus', done')
      /\ provider = "claude" => HeadCwds(corpus')
      /\ done' \in 0..Len(file)
  BY <1>1, <1>2, <1>5, <1>6, <1>7
<1>10. /\ VoicedTo(corpus, done)' /\ CarryLast(store, done)'
       /\ provider = "claude" => HeadCwds(corpus)'
  BY <1>4, <1>9, SteadyReads
<1>11. provider = "antigravity" => \A x \in corpus' : x.cwd = store'.cwd
  BY <1>1, <1>8
<1>12. CorpusReads'
  BY <1>1, <1>10, <1>11 DEF CorpusReads
<1>13. QED
  BY <1>1, <1>3, <1>12 DEF ReadingInv, NoRun

LEMMA StepReads ==
  ASSUME ReadingInv, [Next]_vars
  PROVE  ReadingInv'
<1>1. CASE Grow
  BY <1>1, GrowReads
<1>2. CASE Begin
  BY <1>2, BeginReads
<1>3. CASE Read
  BY <1>3, ReadReads
<1>4. CASE FailRead \/ FailPublish \/ Crash
  BY <1>4, EndReads
<1>5. CASE Exclude
  BY <1>5, ExcludeReads
<1>6. CASE Reparse
  BY <1>6, ReparseReads
<1>7. CASE Publish
  BY <1>7, PublishReads
<1>8. CASE UNCHANGED vars
  BY <1>8, StutterReads
<1>9. QED
  BY <1>1, <1>2, <1>3, <1>4, <1>5, <1>6, <1>7, <1>8 DEF Next

(* At every moment of every history, the rows of a Codex file that repeats *)
(* nothing tell what the record does that speaks for them, whichever batch *)
(* read them; the cwd of a Claude message is that of its earliest record,  *)
(* and that of an Antigravity session the first that a record has.         *)
THEOREM ReadingIsKept == Spec => []ReadingInv
<1>1. Init => ReadingInv
  BY InitReads
<1>2. ReadingInv /\ [Next]_vars => ReadingInv'
  BY StepReads
<1>3. QED
  BY <1>1, <1>2, PTL DEF Spec

(***************************************************************************)
(* A file that is read at once.                                            *)
(***************************************************************************)

(* A record shows one content of a class.                                  *)
LEMMA ClaudeOneOfClass ==
  ASSUME NEW c, NEW user, NEW s \in Claude!Content(c, user).rows,
         NEW t \in Claude!Content(c, user).rows, s.class = t.class
  PROVE  s = t
<1>1. \A class, lines : \A x \in Claude!Rows(class, lines) :
        x = [class |-> class, text |-> Claude!Joined(lines)]
  BY DEF Claude!Rows
<1>2. \A codes, rows : Claude!Emitted(rows, codes).rows = rows
  BY DEF Claude!Emitted
<1>3. CASE c.form = "string"
  <2>1. Claude!Content(c, user) = Claude!StringContent(c.spans, user)
    BY <1>3 DEF Claude!Content
  <2> DEFINE said == Claude!Spoken(c.spans, user)
  <2>2. \A x \in Claude!StringContent(c.spans, user).rows :
          x = [class |-> "prose", text |-> Claude!Joined(said)]
    BY <1>2 DEF Claude!StringContent, Claude!Silent
  <2>3. QED
    BY <2>1, <2>2
<1>4. CASE c.form = "blocks"
  <2> DEFINE prose == Claude!Prose(c.blocks, user)
             tools == Claude!ToolBlocks(c.blocks)
             rows == (IF Claude!SomeText(prose)
                      THEN Claude!Rows("prose", prose) ELSE {})
                       \cup Claude!Rows("tool_name", Claude!Names(tools))
                       \cup Claude!Rows("tool_input", Claude!Inputs(tools))
  <2>1. Claude!Content(c, user) = Claude!BlockContent(c.blocks, user)
    BY <1>4 DEF Claude!Content
  <2>2. Claude!BlockContent(c.blocks, user).rows = rows
    BY <1>2 DEF Claude!BlockContent
  <2> HIDE DEF prose, tools
  <2>3. \A x \in rows :
          \/ x = [class |-> "prose", text |-> Claude!Joined(prose)]
          \/ x = [class |-> "tool_name",
                  text |-> Claude!Joined(Claude!Names(tools))]
          \/ x = [class |-> "tool_input",
                  text |-> Claude!Joined(Claude!Inputs(tools))]
    BY <1>1
  <2> HIDE DEF rows
  <2>4. s \in rows /\ t \in rows
    BY <2>1, <2>2
  <2>5. QED
    BY <2>3, <2>4
<1>5. CASE c.form \notin {"string", "blocks"}
  <2>1. Claude!Content(c, user) = Claude!Silent("unknown_content_block")
    BY <1>5 DEF Claude!Content
  <2>2. Claude!Silent("unknown_content_block").rows = {}
    BY <1>2 DEF Claude!Silent
  <2>3. QED
    BY <2>1, <2>2
<1>6. QED
  BY <1>3, <1>4, <1>5

LEMMA AntigravityOneOfClass ==
  ASSUME NEW r, NEW s \in Antigravity!Project(r).rows,
         NEW t \in Antigravity!Project(r).rows, s.class = t.class
  PROVE  s = t
<1>1. \A lines : \A x \in Antigravity!Prose(lines) :
        x = [class |-> "prose", text |-> Antigravity!Joined(lines)]
  BY DEF Antigravity!Prose, Antigravity!Storable
<1>2. \A role, rows, codes, cwd :
        Antigravity!Projection(role, rows, codes, cwd).rows = rows
  BY DEF Antigravity!Projection
<1>3. CASE r.pair = "user_input"
  <2>1. Antigravity!Project(r).rows = Antigravity!Prose(r.request)
    BY <1>2, <1>3 DEF Antigravity!Project, Antigravity!UserInput
  <2>2. QED
    BY <1>1, <2>1
<1>4. CASE r.pair = "planner_response"
  <2> DEFINE names == [i \in DOMAIN r.calls |-> r.calls[i].name]
             args == [i \in DOMAIN r.calls |-> r.calls[i].args]
  <2>1. Antigravity!Project(r).rows =
          Antigravity!Prose(r.content) \cup Antigravity!ToolRows(r.calls)
    BY <1>2, <1>4 DEF Antigravity!Project, Antigravity!PlannerResponse
  <2>2. \A x \in Antigravity!ToolRows(r.calls) :
          \/ x = [class |-> "tool_name", text |-> names]
          \/ x = [class |-> "tool_input", text |-> args]
    BY DEF Antigravity!ToolRows
  <2> HIDE DEF names, args
  <2>3. QED
    BY <1>1, <2>1, <2>2
<1>5. CASE r.pair \notin {"user_input", "planner_response"}
  <2>1. \E codes : Antigravity!Project(r) = Antigravity!Nothing(codes)
    BY <1>5 DEF Antigravity!Project
  <2>2. Antigravity!Project(r).rows = {}
    BY <1>2, <2>1 DEF Antigravity!Nothing
  <2>3. QED
    BY <2>2
<1>6. QED
  BY <1>3, <1>4, <1>5

LEMMA OneOfClass ==
  ASSUME provider \in {"claude", "antigravity"}, NEW i, NEW x, NEW y,
         Content(x) \in Contents(i), Content(y) \in Contents(i),
         x.class = y.class
  PROVE  x.time = y.time /\ x.role = y.role /\ x.text = y.text
<1> DEFINE Same(shapes) ==
             \A s, t \in shapes : s.class = t.class => s = t
<1>1. Same(ClaudeShapes(file[i]))
  BY ClaudeOneOfClass DEF ClaudeShapes
<1>2. Same(AntigravityShapes(file[i]))
  BY AntigravityOneOfClass DEF AntigravityShapes
<1>3. PICK r, role, shapes :
        Contents(i) = ShapeContents(r, role, shapes) /\ Same(shapes)
  BY <1>1, <1>2 DEF Contents
<1>4. PICK s \in shapes : Content(x) = <<s.class, r.time, role, s.text>>
  BY <1>3 DEF ShapeContents
<1>5. PICK t \in shapes : Content(y) = <<t.class, r.time, role, t.text>>
  BY <1>3 DEF ShapeContents
<1>6. /\ x.class = s.class /\ x.time = r.time /\ x.role = role
      /\ x.text = s.text
  BY <1>4 DEF Content
<1>7. /\ y.class = t.class /\ y.time = r.time /\ y.role = role
      /\ y.text = t.text
  BY <1>5 DEF Content
<1>8. s = t
  BY <1>3, <1>6, <1>7
<1>9. QED
  BY <1>6, <1>7, <1>8

(* One record speaks for another.                                          *)
LEMMA OneSpeaker ==
  ASSUME FileInv, provider = "codex", NEW i \in 1..Len(file),
         NEW j, NEW k, SpeaksFor(j, i), SpeaksFor(k, i)
  PROVE  j = k
<1>1. Len(file) \in Nat
  BY DEF FileInv
<1>2. ASSUME NEW a \in 1..(i - 1), NEW b \in 1..(i - 1), a < b,
             PairAt(a, i), PairAt(b, i)
      PROVE  FALSE
  <2>1. a \in 1..Len(file) /\ b \in 1..Len(file)
    BY <1>1
  <2>2. \A m \in (a + 1)..(i - 1) : "prose" \notin ClassesOf(m)
    BY <1>2, <2>1, PairAtFacts
  <2>3. "prose" \in ClassesOf(b)
    BY <1>2, <2>1, PairAtFacts
  <2>4. b \in (a + 1)..(i - 1)
    BY <1>1, <1>2
  <2>5. QED
    BY <2>2, <2>3, <2>4
<1>3. CASE Unpaired(i)
  BY <1>3 DEF SpeaksFor, Unpaired
<1>4. CASE ~Unpaired(i)
  <2>1. /\ j \in 1..(i - 1) /\ PairAt(j, i)
        /\ k \in 1..(i - 1) /\ PairAt(k, i)
    BY <1>4 DEF SpeaksFor
  <2>2. ~(j < k) /\ ~(k < j)
    BY <1>2, <2>1
  <2>3. QED
    BY <1>1, <2>1, <2>2
<1>5. QED
  BY <1>3, <1>4

(* What the rows are of records that were read, at once or bit by bit.     *)
ReadOnce(rows, cwd) ==
  /\ RowsOK(rows, done) /\ Complete(rows, 1, done) /\ Fields(rows)
  /\ provider = "codex" => \A x \in rows :
       Voiced(x) /\ x.alias.session = Codex!MetaIdentity(file[1])
  /\ provider = "claude" => HeadCwds(rows)
  /\ provider = "antigravity" =>
       CwdKnown(cwd, done) /\ \A x \in rows : x.cwd = cwd

(* Two rows that are the same but for what no comparison is made of.       *)
Alike(x, y) ==
  /\ SameRow(x, y) \/ (provider = "claude" /\ x.ord = y.ord
                       /\ x.class = y.class /\ x.epoch = y.epoch
                       /\ SameIdentity(x, y) /\ x.time = y.time
                       /\ x.role = y.role /\ x.text = y.text)
  /\ provider = "codex" \/ x.cwd = y.cwd

LEMMA AlikeCompare ==
  ASSUME FileInv, NEW x, NEW y, x = RowOf(x), y = RowOf(y), Alike(x, y)
  PROVE  Comparable(x) = Comparable(y)
<1>1. CASE provider = "codex"
  <2>1. SameRow(x, y)
    BY <1>1 DEF Alike
  <2>2. [RowOf(x) EXCEPT !.cwd = NoCwd] = [RowOf(y) EXCEPT !.cwd = NoCwd]
    BY <2>1 DEF RowOf, SameRow, Says
  <2>3. QED
    BY <1>1, <2>2 DEF Comparable
<1>2. CASE provider = "claude"
  <2>1. [RowOf(x) EXCEPT !.kind = "any", !.harness = FALSE] =
          [RowOf(y) EXCEPT !.kind = "any", !.harness = FALSE]
    BY <1>2 DEF Alike, RowOf, SameRow, SameIdentity, Says
  <2>2. QED
    BY <1>2, <2>1 DEF Comparable
<1>3. CASE provider = "antigravity"
  <2>1. RowOf(x) = RowOf(y)
    BY <1>3 DEF Alike, RowOf, SameRow, Says
  <2>2. QED
    BY <1>3, <2>1 DEF Comparable
<1>4. QED
  BY <1>1, <1>2, <1>3 DEF FileInv

LEMMA CodexAlike ==
  ASSUME FileInv, provider = "codex", NEW x, NEW y, RowOK(x), RowOK(y),
         Voiced(x), Voiced(y), x.alias.session = y.alias.session,
         x.ord = y.ord, x.class = y.class
  PROVE  Alike(x, y)
<1>1. /\ x.ord \in 1..Len(file) /\ x.epoch = y.epoch
      /\ Located(x.ord, x.alias) /\ Located(x.ord, y.alias)
  BY DEF RowOK, Tells
<1>2. PICK j : SpeaksFor(j, x.ord) /\ VoiceOf(x, j)
  BY DEF Voiced
<1>3. PICK k : SpeaksFor(k, x.ord) /\ VoiceOf(y, k)
  BY DEF Voiced
<1>4. j = k
  BY <1>1, <1>2, <1>3, OneSpeaker
<1>5. PICK p \in Projections(j) :
        <<p.class, p.role, p.text>> = <<x.class, x.role, x.text>>
  BY <1>2 DEF VoiceOf
<1>6. PICK q \in Projections(j) :
        <<q.class, q.role, q.text>> = <<y.class, y.role, y.text>>
  BY <1>3, <1>4 DEF VoiceOf
<1>7. p = q
  <2>1. p.class = q.class
    BY <1>5, <1>6
  <2>2. QED
    BY <2>1, ProjectionFacts
<1>8. x.role = y.role /\ x.text = y.text
  BY <1>5, <1>6, <1>7
<1>9. x.alias = y.alias
  BY <1>1 DEF Located
<1>10. /\ x.time = y.time /\ x.kind = y.kind /\ x.harness = y.harness
       /\ x.locator = y.locator /\ x.id = y.id
  BY <1>2, <1>3, <1>4, <1>8 DEF VoiceOf
<1>11. QED
  BY <1>1, <1>8, <1>9, <1>10 DEF Alike, SameRow, Says

(* The earliest row of a Claude message is of one record.                  *)
LEMMA ClaudeSameKey ==
  ASSUME provider = "claude", NEW x, NEW y, RowOK(x), RowOK(y),
         x.ord = y.ord, x.class = y.class
  PROVE  SameIdentity(x, y) /\ MessageKey(x) = MessageKey(y)
<1>1. x.alias = y.alias
  BY DEF RowOK, Located
<1>2. QED
  BY <1>1 DEF RowOK, Own, NamedBy, SameIdentity, MessageKey

LEMMA HeadOf ==
  ASSUME NEW rows, \A x \in rows : x.ord \in Nat, NEW x \in rows
  PROVE  \E y \in rows : Heads(y, x, rows)
<1>1. Heads(Earliest(x, rows), x, rows)
  BY EarliestHeads
<1>2. QED
  BY <1>1 DEF Heads

LEMMA HeadFound ==
  ASSUME FileInv, provider = "claude", NEW rows, NEW others, NEW c, NEW d,
         ReadOnce(rows, c), ReadOnce(others, d), NEW x, NEW e, NEW y, NEW f,
         MessageKey(x) = MessageKey(y), Heads(e, x, rows),
         Heads(f, y, others)
  PROVE  f.ord <= e.ord
<1>1. /\ e \in rows /\ MessageKey(e) = MessageKey(x)
      /\ \A z \in others : MessageKey(z) = MessageKey(y) => f.ord <= z.ord
  BY DEF Heads
<1>2. /\ RowOK(e) /\ e.ord \in 1..done /\ e.class \in ClassesOf(e.ord)
  BY <1>1 DEF ReadOnce, RowsOK, RowOK, Tells, FileInv
<1>3. PICK z \in others : z.ord = e.ord /\ z.class = e.class
  BY <1>2 DEF ReadOnce, Complete
<1>4. RowOK(z)
  BY DEF ReadOnce, RowsOK
<1>5. MessageKey(z) = MessageKey(y)
  BY <1>1, <1>2, <1>3, <1>4, ClaudeSameKey
<1>6. QED
  BY <1>1, <1>3, <1>5

LEMMA ClaudeAlike ==
  ASSUME FileInv, provider = "claude", NEW rows, NEW others, NEW c, NEW d,
         ReadOnce(rows, c), ReadOnce(others, d), NEW x \in rows,
         NEW y \in others, x.ord = y.ord, x.class = y.class
  PROVE  Alike(x, y)
<1>1. /\ \A z \in rows : RowOK(z) /\ z.ord \in Nat
      /\ \A z \in others : RowOK(z) /\ z.ord \in Nat
  BY DEF ReadOnce, RowsOK, RowOK, Tells
<1>2. SameIdentity(x, y) /\ MessageKey(x) = MessageKey(y)
  BY <1>1, ClaudeSameKey
<1>3. /\ x.epoch = y.epoch
      /\ x.time = y.time /\ x.role = y.role /\ x.text = y.text
  <2>1. /\ Content(x) \in Contents(x.ord) /\ Content(y) \in Contents(x.ord)
        /\ x.epoch = y.epoch
    BY <1>1 DEF RowOK, Tells
  <2>2. QED
    BY <2>1, OneOfClass
<1>4. PICK e \in rows : Heads(e, x, rows)
  BY <1>1, HeadOf
<1>5. PICK f \in others : Heads(f, y, others)
  BY <1>1, HeadOf
<1>6. f.ord <= e.ord
  BY <1>2, <1>4, <1>5, HeadFound
<1>7. e.ord <= f.ord
  BY <1>2, <1>4, <1>5, HeadFound
<1>8. e.ord = f.ord
  BY <1>1, <1>6, <1>7
<1>9. x.cwd = file[e.ord].cwd /\ y.cwd = file[f.ord].cwd
  BY <1>4, <1>5 DEF ReadOnce, HeadCwds
<1>10. QED
  BY <1>2, <1>3, <1>8, <1>9 DEF Alike

LEMMA AntigravityAlike ==
  ASSUME FileInv, provider = "antigravity", NEW rows, NEW others, NEW c,
         NEW d, ReadOnce(rows, c), ReadOnce(others, d), NEW x \in rows,
         NEW y \in others, x.ord = y.ord, x.class = y.class
  PROVE  Alike(x, y)
<1>1. RowOK(x) /\ RowOK(y)
  BY DEF ReadOnce, RowsOK
<1>2. /\ Content(x) \in Contents(x.ord) /\ Content(y) \in Contents(x.ord)
      /\ x.epoch = y.epoch /\ Primary(x) /\ Primary(y)
      /\ NamedBy(x, OrdinalLocator(SessionName, x.ord))
      /\ NamedBy(y, OrdinalLocator(SessionName, x.ord))
  BY <1>1 DEF RowOK, Tells
<1>3. x.time = y.time /\ x.role = y.role /\ x.text = y.text
  BY <1>2, OneOfClass
<1>4. x.cwd = y.cwd
  <2>1. CwdKnown(c, done) /\ CwdKnown(d, done) /\ x.cwd = c /\ y.cwd = d
    BY DEF ReadOnce
  <2>2. done \in Nat /\ done <= done
    BY DEF FileInv
  <2>3. (c # NoCwd => d = c) /\ (d # NoCwd => c = d)
    BY <2>1, <2>2, CwdKeeps
  <2>4. QED
    BY <2>1, <2>3
<1>5. QED
  BY <1>2, <1>3, <1>4 DEF Alike, SameRow, NamedBy, Primary, Says

(* Two readings of the same records agree.                                 *)
LEMMA ReadingsCover ==
  ASSUME FileInv, NEW rows, NEW others, NEW c, NEW d,
         ReadOnce(rows, c), ReadOnce(others, d), NEW x \in rows
  PROVE  \E y \in others : Comparable(x) = Comparable(y)
<1>1. /\ RowOK(x) /\ x.ord \in 1..done /\ x.class \in ClassesOf(x.ord)
      /\ x = RowOf(x)
  BY DEF ReadOnce, RowsOK, RowOK, Tells, FileInv, Fields
<1>2. PICK y \in others : y.ord = x.ord /\ y.class = x.class
  BY <1>1 DEF ReadOnce, Complete
<1>3. RowOK(y) /\ y = RowOf(y)
  BY DEF ReadOnce, RowsOK, Fields
<1>4. Alike(x, y)
  <2>1. CASE provider = "codex"
    <3>1. Voiced(x) /\ Voiced(y) /\ x.alias.session = y.alias.session
      BY <2>1 DEF ReadOnce
    <3>2. QED
      BY <1>1, <1>2, <1>3, <2>1, <3>1, CodexAlike
  <2>2. CASE provider = "claude"
    BY <1>2, <2>2, ClaudeAlike
  <2>3. CASE provider = "antigravity"
    BY <1>2, <2>3, AntigravityAlike
  <2>4. QED
    BY <2>1, <2>2, <2>3 DEF FileInv
<1>5. QED
  BY <1>1, <1>3, <1>4, AlikeCompare

LEMMA CorpusReadOnce ==
  ASSUME ReadingInv, status = "indexed", SaidOnce, OneMeta
  PROVE  ReadOnce(corpus, store.cwd)
<1>1. SessionInv /\ CorpusInv /\ FileInv /\ CorpusReads
  BY DEF ReadingInv, SessionInv
<1>2. /\ RowsOK(corpus, done) /\ Complete(corpus, 1, done) /\ Fields(corpus)
      /\ StateOK(store, done) /\ OfSession(corpus, store)
  BY <1>1 DEF CorpusInv
<1>3. ASSUME provider = "codex", NEW x \in corpus
      PROVE  Voiced(x) /\ x.alias.session = Codex!MetaIdentity(file[1])
  <2>1. Plain(done) /\ OneMetaTo(done)
    BY <1>3 DEF Plain, SaidOnceTo, OneMetaTo, SaidOnce, OneMeta
  <2>2. Voiced(x)
    BY <1>1, <2>1 DEF CorpusReads, VoicedTo
  <2>3. store.session # NoId /\ x.alias.session = store.session
    BY <1>2, <1>3 DEF OfSession
  <2>4. store.session = Codex!MetaIdentity(file[1])
    BY <1>2, <1>3, <2>1, <2>3 DEF StateOK, MetaKnown
  <2>5. QED
    BY <2>2, <2>3, <2>4
<1>4. provider = "claude" => HeadCwds(corpus)
  BY <1>1 DEF CorpusReads
<1>5. provider = "antigravity" =>
        CwdKnown(store.cwd, done) /\ \A x \in corpus : x.cwd = store.cwd
  BY <1>1, <1>2 DEF CorpusReads, StateOK
<1>6. QED
  BY <1>2, <1>3, <1>4, <1>5 DEF ReadOnce

(* The rows of one batch are settled as those of a publication are.        *)
LEMMA SettledOnce ==
  ASSUME FileInv, NEW parsed, NEW s,
         BatchOK(parsed, s, 0, done),
         provider = "codex" => \A x \in Rows(parsed.messages) :
           Voiced(x) /\ x.alias.session = Codex!MetaIdentity(file[1])
  PROVE  ReadOnce(SettledRows(parsed), parsed.state.cwd)
<1> DEFINE rows == Rows(parsed.messages)
           t == parsed.state
           stamped == Stamped(rows, t)
           settled == Settled(stamped)
<1>1. /\ BatchRows(rows, s, 0, done) /\ BatchState(t, rows, s, 0, done)
      /\ BatchCwds(rows, s, parsed)
  BY DEF BatchOK
<1>2. /\ RowsOK(rows, done) /\ Complete(rows, 1, done) /\ Fields(rows)
      /\ StateOK(t, done)
  BY <1>1, RowsFields DEF BatchRows, BatchState, RowsOK
<1>3. provider = "claude" => \A x \in rows : x.cwd = file[x.ord].cwd
  BY <1>1 DEF BatchCwds
<1>4. provider = "antigravity" => \A x \in rows : x.cwd = t.cwd
  BY <1>1 DEF BatchCwds
<1>5. provider = "codex" => \A x \in rows :
        Voiced(x) /\ x.alias.session = Codex!MetaIdentity(file[1])
  OBVIOUS
<1>6. SettledRows(parsed) = settled
  BY DEF SettledRows
<1>7. provider # "antigravity" => stamped = rows
  BY DEF Stamped, StateCwd
<1>8. ASSUME provider = "antigravity", NEW x \in stamped
      PROVE  x.cwd = t.cwd
  <2>1. CASE t.cwd = NoCwd
    <3>1. stamped = rows
      BY <1>8, <2>1 DEF Stamped, StateCwd
    <3>2. QED
      BY <1>4, <1>8, <3>1
  <2>2. CASE t.cwd # NoCwd
    <3> DEFINE cast(r) == [r EXCEPT !.cwd = t.cwd]
    <3>1. stamped = {cast(r) : r \in rows}
      BY <1>8, <2>2 DEF Stamped, StateCwd
    <3>2. \A r \in rows : cast(r).cwd = t.cwd
      BY <1>2, CwdRow DEF Fields
    <3> HIDE DEF cast, stamped
    <3>3. QED
      BY <1>8, <3>1, <3>2
  <2>3. QED
    BY <2>1, <2>2
<1>9. Recast(stamped, rows)
  BY <1>2, StampedRecast
<1> HIDE DEF rows, t, stamped, settled
<1>10. Fields(stamped) /\ Recast(settled, stamped)
  BY <1>9, SettledRecast DEF Recast, settled
<1>11. \A x \in stamped : x.ord \in Nat
  <2>1. \A x \in rows : x.ord \in Nat
    BY <1>2 DEF RowsOK, RowOK, Tells
  <2>2. QED
    BY <1>9, <2>1 DEF Recast, SameRow
<1>12. Settling(stamped)
  BY <1>10, <1>11, RowsSettle
<1>13. \A x, y, z : SameRow(x, y) /\ SameRow(y, z) => SameRow(x, z)
  BY DEF SameRow
<1>14. /\ \A x \in settled : \E y \in rows : SameRow(x, y)
       /\ \A y \in rows : \E x \in settled : SameRow(x, y)
       /\ Fields(settled)
  BY <1>9, <1>10, <1>13 DEF Recast
<1>15. RowsOK(settled, done)
  <2>1. SUFFICES ASSUME NEW x \in settled PROVE RowOK(x) /\ x.ord <= done
    BY DEF RowsOK
  <2>2. PICK y \in rows : SameRow(x, y)
    BY <1>14
  <2>3. RowOK(y) /\ y.ord <= done /\ x.ord = y.ord
    BY <1>2, <2>2 DEF RowsOK, SameRow
  <2>4. QED
    BY <2>2, <2>3, SameRowFacts
<1>16. Complete(settled, 1, done)
  BY <1>2, <1>14 DEF Complete, SameRow
<1>17. ASSUME provider = "codex", NEW x \in settled
       PROVE  Voiced(x) /\ x.alias.session = Codex!MetaIdentity(file[1])
  <2>1. PICK y \in rows : SameRow(x, y)
    BY <1>14
  <2>2. Voiced(y) /\ y.alias.session = Codex!MetaIdentity(file[1])
    BY <1>5, <1>17
  <2>3. x.alias = y.alias /\ Voiced(x)
    BY <2>1, <2>2, VoicedSame DEF SameRow
  <2>4. QED
    BY <2>2, <2>3
<1>18. provider = "claude" => HeadCwds(settled)
  BY <1>3, <1>7, <1>10, <1>11, SettledHeads DEF settled
<1>19. provider = "antigravity" =>
         CwdKnown(t.cwd, done) /\ \A x \in settled : x.cwd = t.cwd
  BY <1>2, <1>8, <1>12 DEF StateOK, Settling, settled
<1>20. QED
  BY <1>6, <1>14, <1>15, <1>16, <1>17, <1>18, <1>19 DEF ReadOnce, t

(* A Codex file that is not identified shows nothing.                      *)
LEMMA NothingIdentified ==
  ASSUME ReadingInv, provider = "codex", status = "indexed", OneMeta,
         ~Identified(InitialState(provider), 0, done)
  PROVE  corpus = {} /\ OneShot = {}
<1>1. SessionInv /\ CorpusInv /\ FileInv
  BY DEF ReadingInv, SessionInv
<1>2. StateOK(InitialState(provider), 0) /\ done \in Nat /\ done <= Len(file)
  BY <1>1, StartOK DEF FileInv
<1>3. corpus = {}
  <2>1. SUFFICES ASSUME NEW x \in corpus PROVE FALSE
    OBVIOUS
  <2>2. /\ store.session # NoId
        /\ MetaKnown(store.session, store.kind, done)
    BY <1>1 DEF CorpusInv, StateOK, OfSession
  <2>3. OneMetaTo(done)
    BY DEF OneMeta, OneMetaTo
  <2>4. /\ done # 0 /\ file[1].type = "session_meta"
        /\ Codex!MetaIdentity(file[1]) # NoId
    BY <2>2, <2>3 DEF MetaKnown
  <2>5. OneMetaTo(0 + done) /\ 0 + done <= Len(file) /\ 0 \in Nat
    BY <1>2, <2>3
  <2>6. Identified(InitialState(provider), 0, done)
    BY <1>1, <1>2, <2>4, <2>5, CodexKnown
  <2>7. QED
    BY <2>6
<1>4. Parse(Envelopes(0, done), InitialState(provider)).messages = {}
  <2> DEFINE envs == Envelopes(0, done)
             state == InitialState(provider)
  <2>1. Codex!ResolvedSession(Codex!Metas(envs), state.session) = Codex!NoId
    BY DEF Identified, BatchSession, NoId, Codex!NoId
  <2>2. \A decoded, metas, notes :
          Codex!Unresolved(decoded, metas, notes, state).messages = {}
    BY DEF Codex!Unresolved
  <2> HIDE DEF envs, state
  <2>3. Codex!Parse(envs, state).messages = {}
    BY <2>1, <2>2 DEF Codex!Parse, Codex!ParseRecords, Codex!ParseAs
  <2>4. QED
    BY <2>3 DEF Parse, envs, state
<1>5. Rows({}) = {} /\ \A state : Stamped({}, state) = {}
  BY DEF Rows, Stamped
<1>6. Settled({}) = {}
  BY DEF Settled
<1>7. QED
  BY <1>3, <1>4, <1>5, <1>6 DEF OneShot, SettledRows

LEMMA OneShotReadOnce ==
  ASSUME FileInv, SaidOnce, OneMeta,
         provider = "codex" => Identified(InitialState(provider), 0, done)
  PROVE  \E cwd : ReadOnce(OneShot, cwd)
<1> DEFINE state == InitialState(provider)
           parsed == Parse(Envelopes(0, done), state)
<1>1. StateOK(state, 0) /\ CarryLast(state, 0)
  BY StartOK, NothingRead
<1>2. done \in Nat /\ 0 + done = done /\ done <= Len(file) /\ 0 \in Nat
  BY DEF FileInv
<1>3. OneShot = SettledRows(parsed)
  BY DEF OneShot
<1>4. ASSUME provider = "codex" PROVE done # 0
  <2>1. SUFFICES ASSUME done = 0 PROVE FALSE
    OBVIOUS
  <2>2. Codex!Metas(Envelopes(0, 0)) = <<>>
    BY NoMetas
  <2>3. state.session = NoId
    BY <1>4 DEF InitialState, Codex!Initial, NoId, Codex!NoId
  <2>4. BatchSession(state, 0, 0) = NoId
    BY <2>2, <2>3 DEF BatchSession, Codex!ResolvedSession
  <2>5. QED
    BY <1>4, <2>1, <2>4 DEF Identified
<1> HIDE DEF state
<1>5. BatchOK(parsed, state, 0, done)
  <2>1. CASE provider = "codex"
    <3>1. BatchOK(Parse(Envelopes(0, done), state), state, 0, 0 + done)
      BY <1>1, <1>2, <1>4, <2>1, BatchFacts DEF state
    <3>2. QED
      BY <1>2, <3>1
  <2>2. CASE provider = "claude"
    <3>1. BatchOK(ParseClaude(Envelopes(0, done), state), state, 0, 0 + done)
      BY <1>1, <1>2, <2>2, ClaudeBatch
    <3>2. parsed = ParseClaude(Envelopes(0, done), state)
      BY <2>2 DEF Parse
    <3>3. QED
      BY <1>2, <3>1, <3>2
  <2>3. CASE provider = "antigravity"
    <3>1. BatchOK(Antigravity!Parse(Envelopes(0, done), state, SessionName),
                  state, 0, 0 + done)
      BY <1>1, <1>2, <2>3, AntigravityBatch
    <3>2. parsed = Antigravity!Parse(Envelopes(0, done), state, SessionName)
      BY <2>3 DEF Parse
    <3>3. QED
      BY <1>2, <3>1, <3>2
  <2>4. QED
    BY <2>1, <2>2, <2>3 DEF FileInv
<1>6. ASSUME provider = "codex", NEW x \in Rows(parsed.messages)
      PROVE  Voiced(x) /\ x.alias.session = Codex!MetaIdentity(file[1])
  <2>1. Plain(done) /\ OneMetaTo(done)
    BY <1>6 DEF Plain, SaidOnceTo, OneMetaTo, SaidOnce, OneMeta
  <2>2. LET p == Parse(Envelopes(0, done), state)
        IN  /\ VoicedTo(Rows(p.messages), 0 + done)
            /\ CarryLast(p.state, 0 + done)
    BY <1>1, <1>2, <1>4, <1>6, BatchReads DEF state
  <2>3. Voiced(x)
    BY <1>2, <1>6, <2>1, <2>2 DEF VoicedTo
  <2>4. /\ StateOK(parsed.state, done)
        /\ OfSession(Rows(parsed.messages), parsed.state)
    BY <1>5 DEF BatchOK, BatchState
  <2>5. /\ parsed.state.session # NoId
        /\ x.alias.session = parsed.state.session
    BY <1>6, <2>4 DEF OfSession
  <2>6. parsed.state.session = Codex!MetaIdentity(file[1])
    BY <1>6, <2>1, <2>4, <2>5 DEF StateOK, MetaKnown
  <2>7. QED
    BY <2>3, <2>5, <2>6
<1> HIDE DEF parsed
<1>7. ReadOnce(SettledRows(parsed), parsed.state.cwd)
  BY <1>5, <1>6, SettledOnce
<1>8. QED
  BY <1>3, <1>7

(* However often a file was read as it grew, where the batches were cut,   *)
(* and whatever failed in between, the index has the rows that one reading *)
(* of the whole file gives: for a Codex file that repeats no text and      *)
(* copies no metadata; the session kind of Claude and the cwd of Codex are *)
(* those of a batch (registry.py, refresh.py).                             *)
THEOREM ReadAsItGrew == Spec => []IncrementalIsOneShot
<1>1. ReadingInv => IncrementalIsOneShot
  <2>1. SUFFICES ASSUME ReadingInv, status = "indexed", SaidOnce, OneMeta
                 PROVE  {Comparable(r) : r \in corpus} =
                          {Comparable(r) : r \in OneShot}
    BY DEF IncrementalIsOneShot
  <2>2. FileInv
    BY <2>1 DEF ReadingInv, SessionInv
  <2>3. CASE provider = "codex"
             /\ ~Identified(InitialState(provider), 0, done)
    BY <2>1, <2>3, NothingIdentified
  <2>4. CASE provider = "codex" => Identified(InitialState(provider), 0, done)
    <3>1. PICK cwd : ReadOnce(OneShot, cwd)
      BY <2>1, <2>2, <2>4, OneShotReadOnce
    <3>2. ReadOnce(corpus, store.cwd)
      BY <2>1, CorpusReadOnce
    <3>3. \A x \in corpus : \E y \in OneShot : Comparable(x) = Comparable(y)
      BY <2>2, <3>1, <3>2, ReadingsCover
    <3>4. \A x \in OneShot : \E y \in corpus : Comparable(x) = Comparable(y)
      BY <2>2, <3>1, <3>2, ReadingsCover
    <3>5. QED
      BY <3>3, <3>4
  <2>5. QED
    BY <2>3, <2>4
<1>2. QED
  BY <1>1, ReadingIsKept, PTL
=============================================================================
