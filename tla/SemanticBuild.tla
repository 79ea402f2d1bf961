--------------------------- MODULE SemanticBuild ---------------------------
(* The semantic half of an index run: which passages a candidate corpus    *)
(* needs, which of them the model still has to embed, and what publication *)
(* makes of both (storage/postgresql/semantic.py, and the publication in   *)
(* refresh.py).                                                            *)
(*                                                                         *)
(* There is one run at a time: OneOwner of IndexLedger.  What the refresh  *)
(* finds in the session files is the function source; one entry stands for *)
(* a prose message.  A passage is known by its input digest.  The tables   *)
(* message_current, semantic_chunk_current and embedding_value are         *)
(* message, chunk and vector; the tables in pg_temp are fields of run.     *)
EXTENDS Integers, FiniteSets, Sequences

CONSTANTS
  Message,      \* logical messages
  Text,         \* nonblank prose
  Blank,        \* prose without a visible character
  Absent,       \* no such message
  Versions,     \* number of versions of the program that get installed
  ChunkerOf,    \* [Package -> chunker id]
  ModelOf,      \* [Package -> model revision]
  Passages,     \* [chunker id -> [Text -> sequence of input digests]]
  BatchSize,    \* passages per call of the model
  MaxEdits,     \* bound on changes of the session files
  None          \* no selected corpus

Package == 1 .. Versions
Content == Text \cup {Blank, Absent}
Chunkers == {ChunkerOf[p] : p \in Package}

ASSUME PackageAssumption ==
  /\ Versions \in Nat \ {0}
  /\ BatchSize \in Nat \ {0}

(* There are finitely many messages, a text with a visible character has a *)
(* passage, and digests have an order.                                     *)
ASSUME PassageAssumption ==
  /\ IsFiniteSet(Message)
  /\ \A c \in Chunkers, t \in Text : Passages[c][t] \in Seq(Nat) \ {<<>>}

VARIABLES
  source,     \* what the session files say
  message,    \* message_current
  chunk,      \* semantic_chunk_current
  vector,     \* embedding_value, with the model that made the vector
  selected,   \* the chunker of the selected corpus, or None
  package,    \* the installed version
  run,        \* the index run and its temporary tables
  edits

vars == <<source, message, chunk, vector, selected, package, run, edits>>

(***************************************************************************)
(* Chunk rows.                                                             *)
(***************************************************************************)

(* The rows of a message: ordinals, chunker, digest of the source text and *)
(* input digest of each passage.                                           *)
Rows(m, t, c) ==
  {[message |-> m, ordinal |-> i, chunker |-> c, text |-> t,
    digest |-> Passages[c][t][i]] : i \in DOMAIN Passages[c][t]}

(* Rows of chunker c whose source text is the current one of the message.  *)
Fresh(rows, current, c) ==
  {r \in rows : r.chunker = c /\ r.text = current[r.message]}

Owners(rows) == {r.message : r \in rows}
Embedded(rows, values) ==
  {r \in rows : \E v \in values : v.digest = r.digest}
Eligible(current) == {m \in Message : current[m] \in Text}

(***************************************************************************)
(* The candidate.                                                          *)
(***************************************************************************)
Idle == [pc |-> "idle"]
Chunker == ChunkerOf[run.package]

(* The messages of the candidate corpus.                                   *)
Candidate ==
  [m \in Message |->
     IF m \in run.affected THEN run.found[m] ELSE message[m]]

(* _candidate_messages_requiring_chunks: every prose message the run       *)
(* replaces, and every other one without a fresh row.                      *)
Requiring(affected, found, c) ==
  {m \in affected : found[m] \in Text} \cup
  {m \in Eligible(message) \ affected :
     m \notin Owners(Fresh(chunk, message, c))}

\* mutant: forgets that the run deletes or replaces the message
CandidateRowsStale(affected, staged, rows, c) ==
  rows \cup {r \in Fresh(chunk, message, c) : r.message \notin staged}
(* The rows of the candidate: staged ones, and fresh ones of messages that *)
(* are neither affected nor chunked again.                                 *)
CandidateRows(affected, staged, rows, c) ==
  rows \cup {r \in Fresh(chunk, message, c) :
               r.message \notin affected \cup staged}

(* _prepare_candidate_embedding_queue: the digests without a vector, each  *)
(* with the rows that wait for it, which the code counts as mapped_units.  *)
Queue(rows) ==
  LET missing == {r.digest : r \in rows \ Embedded(rows, vector)}
  IN  [d \in missing |-> {r \in rows : r.digest = d}]

(* The sum of mapped_units: a row waits for one digest.                    *)
Units(queue, digests) == Cardinality(UNION {queue[d] : d \in digests})

(***************************************************************************)
(* The run.                                                                *)
(***************************************************************************)
Changed == {m \in Message : source[m] # message[m]}

(* verify_model_revision: the profile row was recorded with the model of   *)
(* the first version.                                                      *)
RevisionMatches == ModelOf[package] = ModelOf[1]

(* A refresh that found something to replace, or a corpus that is not      *)
(* selected.  A parser upgrade replaces everything.                        *)
Begin ==
  /\ run = Idle
  /\ RevisionMatches
  /\ Changed # {} \/ selected = None
  /\ \E affected \in {Changed, Message} :
       run' = [pc |-> "stage", package |-> package, affected |-> affected,
               found |-> source]
  /\ UNCHANGED <<source, message, chunk, vector, selected, package, edits>>

(* _stage_candidate_chunks, the queue, and the first count.                *)
Stage ==
  /\ run.pc = "stage"
  /\ LET staged == Requiring(run.affected, run.found, Chunker)
         rows == UNION {Rows(m, Candidate[m], Chunker) : m \in staged}
         all == CandidateRows(run.affected, staged, rows, Chunker)
         queue == Queue(all)
         total == Cardinality(all)
     IN  run' = [pc |-> IF Owners(all) = Eligible(Candidate)
                        THEN "embed" ELSE "inconsistent",
                 package |-> run.package, affected |-> run.affected,
                 found |-> run.found, staged |-> staged, rows |-> rows,
                 queue |-> queue, total |-> total,
                 completed |-> total - Units(queue, DOMAIN queue)]
  /\ UNCHANGED <<source, message, chunk, vector, selected, package, edits>>

(* The first digests of the queue in their order.                          *)
Batch(queue) ==
  {d \in DOMAIN queue : Cardinality({e \in DOMAIN queue : e < d}) < BatchSize}

(* One batch: its vectors and its removal from the queue commit together.  *)
EmbedBatch ==
  /\ run.pc = "embed" /\ run.completed < run.total
  /\ LET batch == Batch(run.queue)
         new == {d \in batch : \A v \in vector : v.digest # d}
     IN  IF batch = {}
         THEN run' = [run EXCEPT !.pc = "inconsistent"] /\ UNCHANGED vector
         ELSE /\ vector' = vector \cup
                   [digest : new, model : {ModelOf[run.package]}]
              /\ run' = [run EXCEPT
                   !.queue = [d \in DOMAIN run.queue \ batch |->
                                run.queue[d]],
                   !.completed = @ + Units(run.queue, batch)]
  /\ UNCHANGED <<source, message, chunk, selected, package, edits>>

(* The second count: the candidate is prepared.                            *)
Prepare ==
  /\ run.pc = "embed" /\ run.completed >= run.total
  /\ LET all == CandidateRows(run.affected, run.staged, run.rows, Chunker)
     IN  run' = [run EXCEPT !.pc =
                   IF /\ Owners(all) = Eligible(Candidate)
                      /\ Cardinality(Embedded(all, vector)) = run.total
                      /\ run.completed = run.total
                   THEN "publish" ELSE "inconsistent"]
  /\ UNCHANGED <<source, message, chunk, vector, selected, package, edits>>

(* semantic_chunk_current after publication: deleting a message deletes    *)
(* its rows, and a message that was chunked again loses the old ones.      *)
Published ==
  {r \in chunk : r.message \notin run.affected \cup run.staged} \cup run.rows

\* mutant: keeps only what the run itself staged
CollectedOfRun(rows) ==
  {v \in vector : \E r \in run.rows : r.digest = v.digest}
(* Vectors that no published row refers to are deleted.                    *)
Collected(rows) == {v \in vector : \E r \in rows : r.digest = v.digest}

(* The one transaction of publication, with its joint count.               *)
Publish ==
  /\ run.pc = "publish"
  /\ LET fresh == Fresh(Published, Candidate, Chunker)
     IN  IF /\ Owners(fresh) = Eligible(Candidate)
            /\ Embedded(fresh, vector) = fresh
            /\ Cardinality(fresh) = run.total
         THEN /\ message' = Candidate
              /\ chunk' = Published
              /\ vector' = Collected(Published)
              /\ selected' = Chunker
              /\ run' = Idle
         ELSE /\ run' = [run EXCEPT !.pc = "inconsistent"]
              /\ UNCHANGED <<message, chunk, vector, selected>>
  /\ UNCHANGED <<source, package, edits>>

\* mutant: one transaction for all batches
AbandonAll ==
  /\ run.pc \notin {"idle", "inconsistent"}
  /\ run' = Idle
  /\ vector' = Collected(chunk)
  /\ UNCHANGED <<source, message, chunk, selected, package, edits>>
(* The chunker or the model fails, a publication is rolled back, or the    *)
(* session dies: the temporary tables go, committed vectors stay.          *)
Abandon ==
  /\ run.pc \notin {"idle", "inconsistent"}
  /\ run' = Idle
  /\ UNCHANGED <<source, message, chunk, vector, selected, package, edits>>

(***************************************************************************)
(* The environment.                                                        *)
(***************************************************************************)
Edit ==
  /\ edits < MaxEdits
  /\ \E m \in Message, t \in Content :
       t # source[m] /\ source' = [source EXCEPT ![m] = t]
  /\ edits' = edits + 1
  /\ UNCHANGED <<message, chunk, vector, selected, package, run>>

(* A new version is installed; a run that is under way keeps its own.      *)
Upgrade ==
  /\ package + 1 \in Package
  /\ package' = package + 1
  /\ UNCHANGED <<source, message, chunk, vector, selected, run, edits>>

(* A new database, or one migrated from before passages: messages without  *)
(* rows, and no selection.                                                 *)
Init ==
  /\ source \in [Message -> Content]
  /\ message \in {source, [m \in Message |-> Absent]}
  /\ chunk = {}
  /\ vector = {}
  /\ selected = None
  /\ package = 1
  /\ run = Idle
  /\ edits = 0

Next ==
  \/ Begin \/ Stage \/ EmbedBatch \/ Prepare \/ Publish \/ Abandon
  \/ Edit \/ Upgrade

Spec == Init /\ [][Next]_vars

(* Runs are made as long as there is something to do.  A run may stop      *)
(* anywhere, but not always at the same place.                             *)
FairSpec ==
  /\ Spec
  /\ WF_vars(Begin) /\ SF_vars(Stage) /\ SF_vars(EmbedBatch)
  /\ SF_vars(Prepare) /\ SF_vars(Publish)

(***************************************************************************)
(* Properties.                                                             *)
(***************************************************************************)

(* At every commit each prose message of the selected corpus has the       *)
(* passages of its present text, all of them, and each passage has exactly *)
(* one vector, made by the model of the recorded revision: whatever was    *)
(* replaced, kept, shared, upgraded, abandoned or collected before         *)
(* (_publish_coherent_candidate).                                          *)
SelectedIsEmbedded ==
  selected # None =>
    /\ chunk =
         UNION {Rows(m, message[m], selected) : m \in Eligible(message)}
    /\ \A r \in chunk :
         \E v \in vector : v = [digest |-> r.digest, model |-> ModelOf[1]]
    /\ \A v, w \in vector : v.digest = w.digest => v = w

(* The checks of the code on itself never fail: a run that neither the     *)
(* model nor the database disappoints is not turned away because its       *)
(* counts of messages, passages, waiting passages and vectors disagree     *)
(* (the ValueErrors of prepare_candidate_semantics and of publication).    *)
CountsAgree == run.pc # "inconsistent"

(* However often runs stop, the corpus of the files is selected in the     *)
(* end, unless a model of another revision is installed: what a failed run *)
(* embedded is not embedded again (the retry of database.md).              *)
EventuallyPublished ==
  <>[](~RevisionMatches \/ (selected # None /\ message = source))
=============================================================================
