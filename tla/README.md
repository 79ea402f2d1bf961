# A verification project for cc-search-chats

cc-search-chats indexes the session files that coding assistants write (Claude,
Codex, Antigravity; one JSON record per line) into PostgreSQL and searches them
by text and by meaning. This directory holds TLA+ modules of the parts of it
where several processes meet, files change under a reader, state is carried from
one batch to the next, and work fails half way; the TLC runs that check them;
and proofs that TLAPS checks.

## 1. Inventory

### Components, their state and their operations

| Component | State | Operations |
|---|---|---|
| Index ownership and ledger (`storage/postgresql/refresh.py`, `guardrails.py`, the schema files) | session advisory lock `INDEX_QUEUE_LOCK`; `refresh_run`, `corpus_generation`, `semantic_build`; singleton `corpus_state` | `acquire_index_session`, `index_corpus`, `_refresh_owner`, `_start_run`, `publish_candidate`, `_publish_coherent_candidate`, `_record_run_failure`, `_prune_refresh_runs` |
| Source refresh (`refresh.py`, `providers/source_discovery.py`) | `source_file_current`, `source_failure_current`, `physical_alias_current`, `message_current`, staging tables | `_discover_sources`, `_plan_source`, `_parse_and_stage_source`, `_stage_index_artifact`, `_stage_removed_sources`, `_record_failed_observation`, `_finish_candidate_projection` |
| Freshness scan (`staleness.py`) | reads checkpoints and stats | `unindexed_sources` |
| Warm query embedder (`semantic/query_embedder.py`) | socket path, lock file (flock, record lock, recorded pid), model in memory | `request_query_embedding`, `shutdown_query_embedder`, `serve_query_embedder` |
| Semantic build (`semantic.py`) | `semantic_chunk_current`, `embedding_value`, a queue in `pg_temp` | `prepare_candidate_semantics`, the semantic half of publication, `verify_model_revision` |
| Coherence guard (`coherent_corpus_schema.sql`, `coherent_selection_guard_schema.sql`) | row locks on the pair and the singleton | deferred checks at commit |
| Search (`cli.py`, `index.py`, `semantic.py`, `guardrails.py`) | snapshot, `READ_QUEUE_LOCK`, hits | `_postgres_search`: literal, exhaustive and hybrid retrieval, envelope, resolution |
| Rest of the read side (`events.py`, `resolution.py`, `queueing.py`) | local lock files | `client_admission`, export, exact resolution |
| Migrations (`migrations.py`) | `schema_migration`, legacy snapshot inventory | `apply_migrations`, plan, import and prune of legacy snapshots |
| Parsers and identity (`providers/`, `core/`) | per-file continuation state | `parse_batch` of three formats, canonicalisation, `scan_unindexed` |
| Unknown shapes (`core/record_shape.py`, `unknown_shapes.py`) | acknowledged shapes | fingerprint, report |
| Command line and output (`cli.py`, `output.py`) | none of its own | order of the calls above, deadlines, rendering |
| Legacy SQLite index (`storage/index.py`, `core/search.py`) | one SQLite file | single-process index and search |

### How they interact

`cc-search-chats index` first calls `shutdown_query_embedder`, then takes the
session advisory lock, then calls `index_corpus`, which takes the same lock
again in its owner block. Within it a run stats and plans every source file,
parses the planned ones into staging tables, projects a candidate, embeds it,
and publishes by one transaction that replaces the current relations, completes
the build and the generation, and moves `corpus_state`. Only failure
rows, ledger rows and vectors are committed before. The parsers are called once per
batch with the state that the batch before left; that state is part of the
checkpoint. A search pins a snapshot of the selected corpus, takes the read
queue, and holds it while it sends its query to the warm helper (which it spawns
if there is none); the corpus may be replaced in between. An operator may select
and demote generations by hand, beside a publication. The native programs write
the session files at any moment.

### What is hard here

- a session may die between any two statements, with rows left `building`;
- a library caller of `index_corpus` takes the lock only in the owner block, a
  command-line caller twice, so what is read around the block may be stale;
- a file is stat'ed, read in batches, and stat'ed again, while it is written;
- a record may be half written, a file truncated, replaced, deleted, recreated;
- a failure is committed while its run may still abort, and decides what later
  runs skip;
- several files carry one message and may contradict each other;
- a Codex file says most things twice and replays them after a compaction, and
  a batch may end between the two;
- vectors are shared by passages, kept by abandoned runs, and collected by the
  publication of others;
- constraint triggers run at commit under READ COMMITTED, where two transactions
  need not see each other;
- an answer is put together from several statements, with waits in between;
- helpers race for a lifetime lock that clients probe by taking it, socket
  paths are unlinked by processes that do not own them, and an idle helper
  leaves while someone connects.

The list with source lines is `hazards` in `PROJECT.json`.

### What makes each component correct

- Ledger: one owner; one running `refresh_run`; publication is joint and moves
  forwards; final rows stay final; readers see one whole corpus; queued
  sessions are served.
- Refresh: the rows of a source are those of one content it had, cut at its
  checkpoint; shared messages agree with all their sources; a zero freshness
  count is true; failures are not forgotten; every file is represented in the
  end.
- Embedder: the model is in one process; a shutdown is complete when it
  returns; one spawn at a time; nothing is left behind; every search ends.
- Parsers: one parse of a whole file and many of its parts give the same rows;
  published identities never move; nothing visible is lost; two records are
  taken for one message only where they must be.
- Semantic build: a selected corpus has one right vector for each passage; the
  counts agree; a run that stopped is made up for.
- Guard: every committed selection is complete.
- Search: an answer is one corpus; cutting off candidates and pages loses
  nothing it should keep; every search ends.

## 2. Plan

| # | Module | State |
|---|---|---|
| 1 | `IndexLedger`, abstract `PublishedCorpus`, `IndexLedgerProofs` | written, checked, proved |
| 2 | `SourceRefresh` (with the freshness scan), `SourceRefreshProofs`, `SourceContentProofs` | written, checked, proved |
| 3 | `QueryEmbedder`, `QueryEmbedderProofs` | written, checked, proved |
| 4 | `NativeIdentity`, `Canonicalization`, `CodexParser`, `ClaudeParser`, `AntigravityParser`, composed in `SessionParse`, `SessionParseProofs` | written, checked, proved |
| 5 | `SemanticBuild`, `SemanticBuildProofs` | written, checked, proved |
| 6 | `CoherenceGuard`, `CoherenceGuardProofs` | written, checked, proved |
| 7 | `SearchRequest`, composed with `CoherenceGuard`, `SearchRequestProofs` | written, checked, proved |
| 8 | `Migrations`: pending set, lock, dry-run fingerprint, prune | left for later |
| 9 | `client_admission`, exact resolution of native bytes, event export | left for later |

How they fit: `IndexLedger` treats the rows of a candidate as one value and
proves that there is one owner; `SourceRefresh`, `SessionParse` and
`SemanticBuild` take one index run at a time from that and look into the rows:
which content of which file, what a parser makes of it, which vectors it needs.
`SearchRequest` EXTENDS `CoherenceGuard`, so that searches read what its
transactions commit. Every invariant and every property of steps that a passing
run checks is proved as well; what is left to model is in the last two rows.

## 3. The modules

### IndexLedger and PublishedCorpus

One process per `index_corpus` call. `pc` names the place in `index_corpus`,
`_refresh_owner`, `refresh_native_sources`, `publish_candidate` and
`prepare_candidate_semantics`; each statement that commits by itself is an
action, the statements of one transaction are one action.
`run`, `gen` and `build` are the three tables by row id, with the identity
sequences `last...`; `selected` is `corpus_state`, `rows` the generation whose
rows the current relations hold. `Crash(p)` ends a session anywhere: its locks go, its
rows stay. Handlers are actions of their own (`MarkBuildFailed`,
`MarkGenerationFailed`, `RecordRunFailure`) in the order in which the exception
reaches them. `OpenRead` and `CloseRead` are the repeatable-read transaction of
a search.

`PublishedCorpus` is what a reader is promised: the current corpus is replaced
by a newer one in a single step, and an open reader keeps the one it pinned.
`ImplementsPublishedCorpus` says that the ledger implements it.

### SourceRefresh

One run at a time, justified by `OneOwner` of `IndexLedger`. A file has an
inode, an mtime, records and a `tail` of one byte when its last record is not
terminated; a complete record is two bytes long. `Stat` is what the code
compares. Records are of five kinds: a message (identity and text), one that
establishes the working directory, one of an unknown shape, one the parser
rejects, and one that puts the session out of scope. `Begin` is the scan with
all plans; `OpenSource`, `ReadBatch`, `StageSource`, `StageExcluded`,
`StageArtifact`, `BlockSource`, `SourceChanged`, `ReadFails` take the plans one
by one; a batch is one record, so the writer may act between any two reads and
before the final stat. A plan appends whenever the code tries to: that the
parser state stored under the same version is then taken back, without which
`_plan_source` replaces, is `StateAdmissible` of `SessionParse`. `Publish` is the projection and the publication,
`AbortConflict` the contradiction that aborts it, `AbortRun` any other failure
or death. `UnindexedBytes` is the test of the freshness scan.

What is assumed of the environment: a write gives a new mtime; an inode number
is not reused for another file; and, with `Regrow` FALSE as in all runs, a file
whose inode and recorded size the corpus holds is not rewritten in place to a
larger size with other content. Section 5 says what happens without the last of
these.

### QueryEmbedder

Clients run `request_query_embedding`; those in `Indexers` may run
`shutdown_query_embedder` and then index. Helpers run `serve_query_embedder`. `pc`
and `helper[h].stage` name the place in the code, `conn` are the
connections of clients and `backlog` the queue of each listening socket, `sock` says whose socket the
path names, `lifetime` and `spawnLock` are the flock and the POSIX record lock
on one lock file, `pidFile` the pid in it. An `OSError` of `connect`, `send` or
`recv` and the `RuntimeError` of a stream that ends without a response are told
apart, since the code treats them differently.

- `ReadPid` drops the spawn lock: `_recorded_helper_pid` opens and closes the
  lock file, and POSIX removes all record locks of a process on a file when it
  closes any descriptor of it.
- A killed process is `KillHelper` or `KillClient`; a request whose client is
  gone stays in the queue as `ghost`, and its answer fails.
- Merged into one step, because no other process can act between them in a way
  that matters: a probe that takes and drops the flock (a helper retries for two
  seconds); writing the pid, unlinking the path and binding under the lifetime
  lock; accepting a connection and reading its request.
- A recorded pid whose process is gone reads as none: pids are not reused.
- `Spawn` waits for a free helper slot, which bounds the processes; a slot is
  reused.

### The parsers and SessionParse

`CodexParser`, `ClaudeParser` and `AntigravityParser` each model `parse_batch`
of their provider: a function of the records of a batch and the state left by
the batch before, that gives messages, diagnostics, boundaries and the next
state. Records are of every kind that the parser treats differently; key sets
that only say whether a shape is an audited one are one field `good`, a text is
a sequence of lines from a few words (blank, put in by the harness, not
storable). `Canonicalization` is the pairing of Codex occurrences,
`NativeIdentity` what all three emit. In `CodexParser` the state carries the
trailing candidate, which a record of the next batch may complete; the working
directory of a batch is the first that a record of any type has. A legacy Claude
record is flat and has no session, agent or working directory.

`SessionParse` puts them behind the adapters of `registry.py` and runs them as
the refresh does: a file grows, a run reads what was appended in batches of any
width, stages, may fail or stop after any batch, and publishes rows with the
checkpoint; `Scan` is the exact scan of a file for a locator, which in a Codex
file looks for the id in records of every type (`MatchedIds`). It uses the three
parsers by INSTANCE. Replacement, truncation and several files are in
`SourceRefresh` and not repeated.

### SemanticBuild

`source` is what the session files say, `message`, `chunk` and `vector` the
three tables, `run` the temporary tables and the place in
`prepare_candidate_semantics`. `Begin` decides as `index_corpus` does, `Stage`
chunks what lacks fresh rows and fills the queue (for each digest the rows that
wait for its vector), `EmbedBatch` commits one batch
of vectors, `Prepare` is the second count, `Publish` the semantic part of the
one publishing transaction with its collection of vectors. `Abandon` is any
failure or death. A passage is its input digest; texts may share passages and
contain one twice. Not modelled: lines 757-1277 of `semantic.py`, a semantic run
apart from the refresh that nothing calls, and the outcome `unknown` of the
recorded revision, which no migration leaves behind.

### CoherenceGuard

Transactions in READ COMMITTED over the rows of the selection, the generations
and their builds (one build per generation, as the code makes them). A statement
waits for the row lock, writes to the view of its own transaction and queues the
deferred trigger of its row; at commit each trigger takes the selection
`FOR SHARE` (`Share`), and passes or raises (`Judge`, `Refuse`). `Publication`
writes in the order of `_publish_coherent_candidate`; `Selection` and
`Demotions` are what an operator can write by hand, as the tests of the
migration do. The guard has a hole that lies outside: linking the
selected generation to another build while that build is demoted (both
transactions hold `FOR SHARE`, and neither sees the other's row). No code does
so.

### SearchRequest

One process per search: `pc` names the place in `_postgres_search`. The snapshot
is pinned first; the advisory lock of the first queued read is held to the end
of the outer transaction, which includes the wait for the model. Retrieval is
modelled by what it computes: the literal list, the keyset pages, the passages
the database cuts off and the one retry, the fusion by `1 / (60 + rank)` in
exact fractions. The kinds of request are `literal`, `tools` (`--literal --tools`,
whose order leaves the rows of one message with equal ranks in any order:
`Rankings`), `exhaustive` (with `--tools`; without, it pages over the prose rows
alone) and `hybrid`. A corpus is any finite set of rows that the tables allow
(`RowsOfTable`): the key of a row is unique; the locator of prose tells its key,
because a parser derives the logical id of a message from its locator
(`canonicalization.py:269` for Codex and Antigravity with the check of
`identity.py:252`, `claude.py:1283`); only prose has passages.
`Expire` is the deadline of a literal search, `Die` a kill.
`past` records what was committed and when, for `AnswerIsOneCorpus`.

## 4. Runs

| Run | Module | Instance | Shows |
|---|---|---|---|
| `ledger` | `MCIndexLedger` | a command-line and a library indexer, one reader, 3 runs, 1 retained | safety, refinement and service of the queue |
| `ledger_heartbeat` | `MCIndexLedger` | two command-line indexers, 2 runs | **violated**: `FailureMarksBuild` |
| `refresh_shared` | `MCSourceRefresh` | 2 files in 2 roots that share identities, 3 writes, one parser upgrade, a root that leaves the configuration | rows are those of one content; shared messages agree |
| `refresh_single` | `MCSourceRefresh` | 1 admitted file, 3 records, 3 writes, one fault, forced and ignoring runs | derived values, freshness, failures, liveness |
| `refresh_excluded` | `MCSourceRefresh` | 1 inspected file | **violated**: `ExcludedHasNoRows` |
| `refresh_cwd` | `MCSourceRefresh` | 2 copies of a session | **violated**: `CwdHasSource` |
| `embedder` | `MCQueryEmbedder` | 2 clients of one version, one of them also indexes, 2 helpers, 1 kill | single spawn, nothing left behind, every search ends |
| `embedder_replace` | `MCQueryEmbedder` | 2 clients of different versions, one of them also indexes, 2 helpers | one model, complete shutdown |
| `embedder_spawn` | `MCQueryEmbedder` | 2 clients of different versions | **violated**: `SpawnsAlone` |
| `session_parse` | `MCSessionParse` | one file: Codex of 5 records, Antigravity of 4, Claude of 3 in two places | identities, epochs and rows do not depend on batches; nothing visible is lost |
| `semantic_build` | `MCSemanticBuild` | 2 messages, 2 texts with shared and repeated passages, 3 versions, 2 edits, batches of 1 | complete and right vectors, counts, progress of runs that stop |
| `search` | `MCSearchRequest` | one publication and two operators; searches beside them; one search over some 500 small corpora, one over 729 paged ones | coherent selection, answers of one corpus, exact cut-offs, no deadlock |

### Why the bounds are enough

- Ledger: three runs give an abandoned, a failed and a published candidate in
  every order, and one run more than retention keeps; a third indexer would
  only wait. Both kinds of caller are there. Readers do not interact with each
  other.
- Refresh: two files are enough for shared identities, a contradiction and a
  removed root; two or three records give a prefix, an append and a partial
  tail; three writes give an append, a replacement and a deletion within one
  scan or across two. Whatever fails, one fault is enough to make a run abort
  with everything staged.
- Embedder: two clients contend for the spawn lock and replace one another's
  helper, two helpers race for the lifetime lock and are successors of one
  another, one kill takes out any of them at any point. The run with two
  versions has no kill, which would make it too large; `OneModel` and
  `ShutdownReleases` are proved for any number of kills. `RequestEnds` speaks
  of clients that only search and is checked among clients of one version: with
  two, a search that lost the spawn lock can wait for as long as others keep
  a helper of another version warm (see `hazards`).
- `session_parse`: a Codex pair, a record between its halves, a compaction and
  a replay need five records; a batch may end after each of them. Claude and
  Antigravity carry less from batch to batch, and have more kinds of record.
- `semantic_build`: two messages share passages, so that one can lose a vector
  the other needs; the versions change the chunker and then the model.
- `search`: the guard is about two transactions, a third makes a queue of row
  locks; candidate bounds of 2 and 4 are below and above what three messages
  with up to three passages need. `Loads` names what runs together, since
  transactions and many corpora at a time would only multiply.
- `CHECK_DEADLOCK FALSE` stands where the system may really stop: in the
  ledger's configurations the bounded number of runs ends, in the embedder's all
  helper slots and clients may be idle or waiting, in `session_parse` the file is
  full, in `semantic_build` nothing is left to do, in `search` each transaction
  and each search begins once (`RequestsEnd` finds the deadlocks there).

### Fairness

- `IndexLedger`: a running indexer goes on (`WF` of `Progress`); PostgreSQL
  grants `pg_advisory_lock` in the order of arrival (`SF` of `AcquireSession`).
  Crashes, reads and new runs are not fair. The polling of the owner block by
  `pg_try_advisory_lock` gets no fairness and no liveness is claimed for
  library callers.
- `SourceRefresh`: the systemd timer starts a run every night (`NightlyRun`,
  weakly fair, without force or ignore flags), a run goes on (`RunStep`), and a
  failed source becomes due (`RetryDue`). Writers are not fair.
- `QueryEmbedder`: a helper goes on (`WF` of `HelperStep`: an embedding ends, a
  warm window elapses), and so does a search (`SF` of `SearchStep`: the kernel
  wakes the waiters of a record lock). Index runs and kills are not fair. The
  listen queue is first in, first out, so that serving needs no fairness of its
  own.

- `SemanticBuild`: runs are made as long as there is something to do (`WF` of
  `Begin`), and none of `Stage`, `EmbedBatch`, `Prepare` and `Publish` is always
  hit by an `Abandon` (`SF`): a run may stop anywhere, but not always at the same
  place. Edits and upgrades are not fair.
- `SearchRequest`: statements that do not wait go on (`WF` of each transaction's
  `Advance`), and so does a search; the answer of the model is `RequestEnds`.
  Deadlines, deaths and rollbacks are not fair, so that nothing ends only
  because it was cut off.

### Mutants

The section *Mutants* of each module holds its helpers as a plausible bug would
have them. `PROJECT.json` names, for every property of every passing run, the
mutant under which TLC finds the property violated. Among them: an owner that
does not wait, a `finally` that unlocks every hold, handlers that touch a row
that is already final, a selection without its rows, a final stat that is not
compared, a contradiction that is not looked for, a failure that is dropped
because the scan did not list its file, a helper that ignores the lifetime lock
or keeps it, a socket that stays behind, an epoch that forgets the boundaries of
earlier batches, a collection of vectors that keeps only the run's own, a trigger
without `FOR SHARE`, a publication that writes the selection first, and a search
that reads without its snapshot.

## 5. What disagrees with the documentation

- `ledger_heartbeat`: `prepare_candidate_semantics` starts its heartbeat outside
  the `try` that would mark the build failed.
- `refresh_excluded`: an artefact found where an append was planned is staged
  with the disposition of the append, and the old messages stay published.
- `refresh_cwd`: a kept message keeps a working directory that no remaining
  source establishes.
- `embedder_spawn`: stopping an incompatible helper silently gives up the spawn
  lock.

`PROJECT.json` quotes the documentation for each under `findings`. Some more that
were met while modelling, without a run of their own:

- A file that was truncated and has grown past its checkpoint is read as an
  append (`refresh.py:701`), where `docs/architecture/database.md:113` has a
  replacement. With `Regrow = TRUE` in `refresh_single.cfg` TLC finds
  `RowsAreOneContent` violated.
- A deadline that strikes after retrieval yields a `partial` answer only while
  hits are resolved. A statement timeout in `_search_envelope` (`cli.py:2217`)
  exits with code 7 and drops the hits, against `README.md:254` and
  `docs/architecture/database.md:220`. `Expire` models what the code does.
- A model that is unavailable is to give `literal_fallback` (`README.md:57`), but
  a missing local snapshot raises in `verify_model_revision` (`cli.py:2136`) and
  the search exits with code 8. `VerifyRevision` models what the code does.
- The `context` command reads in two transactions (`cli.py:2043`), so that its
  parts may come from two corpora; search pins one.

## 6. Proofs

Each theorem below holds for every value of the constants that satisfies the
named assumptions of its module; the run of the same property shows it on one
instance. Every inductive invariant was an invariant of a run of TLC before its
proof was attempted.

### The ledger

`IndexLedgerProofs` proves, for any sets of indexers and readers and any number
of runs and retained rows, from the assumptions `ProcsAssumption` (command-line
indexers are indexers, `NoProc` is none) and `BoundAssumption` (the bounds are
positive):

| Theorem | Property |
|---|---|
| `Invariance` | `IInv`, the inductive invariant |
| `TypeCorrect` | `TypeOK` |
| `Serialized` | `OneOwner` |
| `AbandonedRunsFailed` | `SoleBuildingRun` |
| `JointPublication` | `PublicationIsJoint` |
| `RunsNamePublications` | `RunNamesItsPublication` |
| `FailuresSettle` | `FailureSettlesGeneration` |
| `OwnResult` | `CLIOwnResult` |
| `FinalStatesKept` | `TerminalRowsFrozen` (a property of steps) |
| `NoOpInsertsNothing` | `CLINoOpCreatesNothing` (a property of steps) |
| `Refinement` | `ImplementsPublishedCorpus` |

None of the properties is inductive alone. Publication completes a build and a
generation by id, so that it stays joint only if the owner's ids name its own
building rows (`OwnerInv`), which no one else may finish because there is one
owner (`LockInv`: the lock has an owner exactly where the control state holds
it), and a new row gets an id nobody holds (`SequenceInv`: rows exist up to the
sequence value). `SnapshotInv` adds what the refinement needs of readers.
`RunInv` says that a run that names a generation has ended and that this
generation is complete with its build. `WorkInv` says, place by place, what an
indexer knows of the selection: a generation it inserted is complete or failed
when it leaves, what it published is selected until it gives the lock up, and a
command-line caller, which holds the lock around the whole call, never sees a
selection it did not make. A library caller reads the selection before it owns
the lock and after, so `CLIOwnResult` does not claim that of it. The proof that
a step preserves `IInv` goes action by action, with a lemma for each group that
changes the same tables; the refinement maps publication to `Publish`, opening
and closing a read to theirs, and every other step to a stutter. `IInv` is also
an invariant of the run `ledger`.

### The source refresh

`SourceRefreshProofs` and `SourceContentProofs` prove, for any files, roots,
records a program may write, schedules of runs and bounds:

| Theorem | Property | Hypothesis |
|---|---|---|
| `TypeCorrect` | `TypeOK` | |
| `FailuresAreKept` | `FailureNotForgotten` (a property of steps) | |
| `RowsOfOneContent` | `RowsAreOneContent` | `~Regrow` |
| `MessagesOfSources` | `MessagesHaveSources` | `~Regrow` |
| `NothingUnindexed` | `ZeroUnindexedIsComplete` | `~Regrow` |
| `CwdFollowsPrefix` | `CwdOfPrefix` | `~Regrow`, `DisjointWrites` |

The assumptions on constants are about the model's values: every file has a
root, programs write records, the empty text of a missing message is no text,
and the largest file holds at least one record. The two hypotheses are about the
code. Without `~Regrow` TLC finds `RowsAreOneContent` violated, the hazard at
`refresh.py:701`. `DisjointWrites` (no identity is written to two files) is what
`CwdOfPrefix` needs of the environment: with copies of one session the working
directory of a message may come from neither, which is the finding of
`refresh_cwd`. `RowsOfOneContent` and `MessagesOfSources` are about shared
identities and do without.

There are three inductive invariants, each on top of the one before. `ShapeInv`
relates rows, plans, stages and the file being read by their sizes and phases: a
checkpoint ends inside what was observed, an append starts where the checkpoint
of its file ends, a staged row belongs to a plan that is done. `ContentInv` says
what they contain. `KnownInv` is its core: a file that still has the inode of a
recorded observation has grown from it or is not larger than it, which is what
lets the code take growth for an append; it is what `Regrow` would break. From
it, the staged messages of a file are those of the observed content between the
planned start and the position read (`ReadContent`), staged rows are those of
the staged observation (`StageContent`), and what is published is staged rows on
a prefix that was published (`CorpusContent`). `CwdInv` adds, for files that
share nothing, that the flag of the staged and published messages is whether the
prefix established a directory. TLC finds `ShapeInv` and `ContentInv` to hold in
the instances of `refresh_shared` (856,426 states) and `refresh_single`
(441,684), and `CwdInv` in the latter and in two files with writes of their own
(487,745).

### The warm embedder

`QueryEmbedderProofs` proves, for any sets of clients, helpers and versions and
any number of kills, from `ActorsAssumption` (helpers, clients, `NoHelper` and
`Gone` are different things; indexers are clients), `VersionAssumption` and
`KillsAssumption` (the number of kills is a number):

| Theorem | Property | Hypothesis |
|---|---|---|
| `Invariance` | `IInv` | |
| `TypeCorrect` | `TypeOK` | |
| `ModelHeldOnce` | `OneModel` | |
| `ShutdownComplete` | `ShutdownReleases` | |
| `NothingLeft` | `NothingRemains` | |
| `SpawnedAlone` | `SpawnsAlone` | `SameVersions` |

`IInv` says that the flock belongs to a helper exactly in the stages from
`bound` to `closed` (`LockInv`), that the model is loaded only while it serves
(`MemoryInv`), and that the helper a shutdown met is in one of these stages or
about to exit, and about to exit once the lock was seen free (`TargetInv`):
stages only go forward, and a slot is used again only after the process, and
with it the target, is gone. `RestInv` says that the recorded pid, the socket
path, the connections and the queues follow these stages: while nobody was
killed the path names no dead helper (`SockInv`), and the queue of a listener
holds waiting connections to it, each once (`ConnInv`).

`SpawnsAlone` holds while all clients are of one version and is false otherwise
(the finding of `embedder_spawn`: stopping an incompatible helper gives up the
spawn lock). Under `SameVersions` no client ever stops a helper (`VersionInv`:
whatever answers a hello is compatible), so that the spawn lock is held from the
probe to the answer, and no other process took the lifetime lock since it was
seen free (`SpawnInv`). Steps of clients, of helpers and ends of processes are
three lemmas each; every action is an instance of one.

### The coherence guard

`CoherenceGuardProofs` proves, for any sets of transactions, publishers and
generations, from `GuardAssumption` (publishers are transactions, and `None` is
neither a transaction nor a generation):

| Theorem | Property |
|---|---|
| `GuardKeepsCoherence` | `CoherentSelection` |

`CoherentSelection` says nothing of transactions that are under way, so it is
not inductive. `LockInv` says that a transaction locks exactly the rows it wrote
and shares the selection only while nobody else has written it. `CheckInv` says
what a trigger that has passed leaves behind until its transaction ends
(`Sound`): for the selection, that it is coherent in the transaction's view
(`StateSound`); for a row of a pair, that the transaction still holds the
selection and that the row it wrote does not break it (`PairSound`). Both must
survive the steps of others. A commit of a pair row holds the selection, so that
no other transaction holds it for writing; a commit of the selection excludes
all that share it (`CommitInv`). At commit the checks are done, and what is
sound for every row written is coherent (`PassedIsCoherent`). `TypeInv` also
says that the selection and the content stay pairs of a generation and its
build, which the proofs about searches use.

### The parsers

`SessionParseProofs` proves, for any records, files of any length cut into any
batches, and any failed, repeated and crashed runs, from `ProvidersAssumption`
(the openings are those of the three providers):

| Theorem | Property |
|---|---|
| `SessionIsKept` | `SessionInv`, the inductive invariant |
| `StatesAreAdmissible` | `StateAdmissible` |
| `EpochsCountBoundaries` | `EpochsAreBoundaries` |
| `PublishedOnce` | `VisibleRecordsPublished` |
| `IdentitiesAreKept` | `IdentitiesStay` (a property of steps) |
| `SharedOnlyByPairs` | `PairsAreProjections` |
| `RefusedOverCopies` | `OnlyCopiesConflict` |
| `PublishedAreFound` | `ScanFindsPublished` |
| `ReadingIsKept` | `ReadingInv`, the inductive invariant of the next |
| `ReadAsItGrew` | `IncrementalIsOneShot` |

The idea of `SessionInv` is that every row, staged or published, says what its
record says when it is looked at alone (`Tells`), and that no record is left out
(`Complete`); both are indifferent to where a batch ends. A parser state after n
records has seen the boundaries among them, so that its epoch is their number
(`StateOK`). What is not indifferent is the candidate that a Codex state
carries, which the next batch may pair: it has already named its rows
(`CarryNames`), and a later row under the same key has the same identity and says
the same, because an earlier alias names a message (`NativeIdentity`). A
replacement stages every row again, and only Antigravity replaces what is
published, whose locators are the ordinals of the records.

A row is located by the ordinal or the native id of its record (`Located`), in
the session of the parser state (`OfSession`). Either its own locator names its
message (`Own`), or the other half of a pair does and is a row too
(`RowsPaired`). Two rows that name one message themselves are of one record or
of copies (`OwnersOfOne`), so a message is shared by a pair or by copies. For the
same reason one message is one observation among the rows that a run may publish
(`OneObservation`) when no native id is written twice; and no primary key is ever
inserted twice, copies or not (`CandidateRows`).

Per provider, one lemma says what `Record` adds for one record (`CodexRecord`,
`ClaudeRecord`, `AntigravityRecord`), one that this is what the record has when
alone (`...Classes`), one that it keeps the invariant of the loop (`...ReadStep`),
and one what the whole batch gives (`CodexBatch`, `ClaudeBatch`,
`AntigravityBatch`). The loop is a recursive function over the records:
`RecordsFollow` proves that it exists and has its defining equation, from an
induction in which a set stands for the predicate (`SetInduction`). For Codex,
`CodexRows` follows the occurrences through grouping and merging to the rows of
the batch. `Steady` says that all this stays as the file grows. TLC finds
`SessionInv` to hold in the 676,504 states of the run.

`PublishedAreFound` compares a row that several batches left with a parse the
index never made: the whole file again, in batches of the reader's own width. It
needs three more parts of the invariant. The first record has been admitted
(`Admitted`). The session and the kind of a Codex state are those of the first
record as long as it is the only `session_meta` (`MetaKnown`, `OneMetaTo`), so
that the two parses agree on the session although they met the record at
different places. And a locator is a function of the session and the record
(`LocatorAt`). The scan is followed in turn as a recursive function
(`ScansFollow`); `ScanStep` says that after every batch the scan has recognized
the row or has not yet reached its record (`ScanOK`), with `ScanIdentified` for
the context of a Codex batch and `ScanFinds` for the batch that holds the record.

`ReadAsItGrew` compares every field of the rows that any number of batches,
runs, failures and replacements left with those of one parse of the whole file.
`SessionInv` says where a row comes from; what it leaves open is which record
speaks for a row that two records share, and which cwd is settled on it. Both
must be functions of the file alone, and `ReadingInv` says that they are:

- Whether two Codex records are a pair is stated of the file (`PairAt`), and so
  is the record that speaks for another (`SpeaksFor`). In a file that repeats no
  text a record is of one pair (`NoChain`, `OnePartner`), so a batch pairs what
  the file pairs: `AtPairs` and `PairsAt`, one for each direction. A batch has all
  that it needs for this (`Gathers`) because the state carries the last
  candidate that was said and has no partner yet (`CarryLast`); this is the part
  without which nothing is inductive, and the carried candidate is all that a
  batch knows of the records before it. `CodexVoices` gives that every row is
  `Voiced` by the record that speaks for it, `CodexCarries` that the next state
  carries the last candidate again.
- The cwd of a Claude message is that of the earliest record with its id
  (`HeadCwds`). A publication settles it over the rows that the run touches,
  which for one message are all of its rows (`SettledHead`, `PublishedHeads`).
- The cwd of an Antigravity session is the first that a record has (`CwdKnown`,
  of which there is one, `CwdKeeps`). Rows that were published without a cwd
  are what `_parse_and_stage_source` reads again for: an append that finds one is
  not published, so that all published rows have the cwd of the stored state
  (`PublishedCwd`).

A set of rows with these properties that is complete is the only one up to the
comparison (`ReadOnce`, `ReadingsCover`); `CorpusReadOnce` and `OneShotReadOnce`
say that the corpus and the one parse are such sets. `NothingIdentified` is the
Codex file whose session is never identified, which shows nothing either way.
TLC finds `ReadingInv`, too, to hold in the states of the run. The hypotheses
are those of the property: a batch that ends before a text is said again pairs
what is ambiguous, and stays unpaired, when the whole file is read.

### The semantic build

`SemanticBuildProofs` proves, for any messages, texts, versions and batches,
from `PackageAssumption` (there is a version, and a batch is not empty) and
`PassageAssumption` (finitely many messages, and at least one passage for a text
that is not blank, without which `_validate_chunks` raises):

| Theorem | Property |
|---|---|
| `SelectedCorpusIsEmbedded` | `SelectedIsEmbedded` |
| `CountsNeverFail` | `CountsAgree` |

The invariant of the first says that every vector was made by the recorded model
(`VectorInv`), that the rows are those of the whole selected corpus or none
(`ChunkInv`), and that what a run staged is what the tables lack (`StagedInv`),
which stays true because only publication changes them. A message that was
neither replaced nor chunked again has a fresh row, and one fresh row means that
the selected chunker is the run's and all rows are there (`FreshIsWhole`); so
publication leaves the rows of the whole candidate (`PublishedIsWhole`), and its
count over the vectors makes them complete.

The publication is guarded by counts, and `CountsNeverFail` says that they never
turn away a run that nothing went wrong for. Its invariant, `CountInv`, says
that the queue holds exactly the rows of the candidate that lack a vector, that
the totals are the sizes of these sets, and that before the publication nothing
is lacking; a message counts as chunked because each of its texts has a passage
zero. TLC finds it to hold in the 190,869 states of the run.

### Searches

`SearchRequestProofs` proves, for any transactions beside any searches, any
corpora, limits, page sizes and bounds on candidates, from `GuardAssumption`,
`BoundsAssumption` (limits and bounds are numbers) and `RowsAssumption` (every
corpus is a finite set of rows that the tables allow, section 3):

| Theorem | Property |
|---|---|
| `SnapshotIsKept` | `AnswerIsOneCorpus` |
| `CutsLoseNothing` | `HitsAreExact` |
| `SearchesKeepCoherence` | `CoherentSelection` of the composition |

`SearchInv` relates each search to the history of commits: its snapshot is an
entry that was current when it began (`SnapshotOK`), which has the rows of the
generation selected in it because that selection was coherent; its lists are
those of the snapshot (`AnswerOK`); and what it has retrieved so far is exact
(`ExactOK`): the pages so far begin the list of all matching rows, and the
semantic list begins the exact ranking. It holds in the 194,940 states of the
run, together with the invariant of the guard. The lemmas below it are about
finite strict orders: the list of the rows in an order has each row once and in
order (`ListFacts`), its beginning is the set of the first rows (`ListOfFirst`),
and cutting the passages that the database returns by distance cuts no row that
is ahead of one it keeps (`CandidateFacts`, `BestOfFacts`, `SemanticFacts`). Why
the cut is safe is the order of the ranking: the best passage of a row decides
its place, so that the rows of the nearest passages are the nearest rows. Where
an order defines one list, the module proves it strict and total on a table's
rows; that needs the locator to be unique among prose, which is why
`RowsOfTable` says so.

### What is model-checked only

- Liveness (`WaiterIsServed`, `EventuallyRepresented`, `RequestEnds`,
  `EventuallyPublished`, `RequestsEnd`): fairness and ENABLED are out of reach of
  the prover.
- The four disagreements of section 5, which TLC shows by a counterexample.

## 7. What is not modelled, and why

- Wording: key sets and field types of records beyond what decides how a record
  is treated, text repair beyond one unstorable line, snippets and rendering.
- The embedding model's GPU placement and numbers.
- Malformed requests and peers of another user on the helper's socket.
- The SQLite index, a single-process predecessor.
- Coverage counters and skipped-record reports, which no decision reads.
- `client_admission` (one flock on a local file around the whole command, before
  it asks for anything else, and freed with its process), event export
  (one read-only query), the comparison of native bytes in exact resolution.
- Migrations and the pruning of legacy snapshots: they run once, under their own
  lock, before anything modelled here. `SemanticBuild` begins with a database as
  they leave it.
- Read commands other than search.
- A parser state that `_plan_source` cannot take back although its version is the
  same (`refresh.py:708`): the code writes none (`StateAdmissible`), so it takes
  a checkpoint changed by hand, and the file is then replaced as after an
  upgrade.
