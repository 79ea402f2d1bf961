--------------------------- MODULE SearchRequest ---------------------------
(* The search command: one repeatable-read transaction over several        *)
(* queued reads, with the model and the deadline in between (cli.py,       *)
(* index.py, semantic.py, guardrails.py), beside the transactions of       *)
(* CoherenceGuard.                                                         *)
(*                                                                         *)
(* A corpus is a set of rows of message_current.  A row has the rank of    *)
(* its text for the query, 0 when it does not match, and a prose row the   *)
(* scores of its passages.  key stands for provider, session and message   *)
(* id, which order rows with equal ranks.                                  *)
EXTENDS CoherenceGuard, FiniteSets, FiniteSetsExt, SequencesExt

CONSTANTS
  Request,
  Limit,             \* --limit
  Depth,             \* rows from each list of a ranked search
  PageSize,          \* rows of an exhaustive page
  FirstCandidates,   \* passages the database ranks for Depth messages
  RetryCandidates,   \* and in the one retry
  Loads              \* what runs together, and on which corpora

Prose == 0   \* content classes are numbers

VARIABLES
  corpus,    \* [Generation -> the rows its publication leaves]
  request,   \* [Request -> record]
  queue,     \* holder of READ_QUEUE_LOCK
  past       \* committed content and selection, in commit order

(* What the tables guarantee of the rows of a corpus: there are finitely   *)
(* many, the primary key of message_current tells them apart, the locator  *)
(* and the id of a prose row name the same record, and only prose has      *)
(* passages.                                                               *)
RowsOfTable(rows) ==
  /\ IsFiniteSet(rows)
  /\ \A r \in rows :
       /\ r.key \in Int /\ r.locator \in Int /\ r.class \in Int
       /\ r.rank \in Int /\ r.scores \in Seq(Int)
       /\ r.class # Prose => r.scores = <<>>
       /\ \A s \in rows :
            /\ r.key = s.key /\ r.class = s.class => r = s
            /\ r.class = Prose /\ s.class = Prose =>
                 (r.key = s.key <=> r.locator = s.locator)

ASSUME BoundsAssumption ==
  /\ Limit \in Nat /\ Depth \in Nat /\ PageSize \in Nat
  /\ FirstCandidates \in Nat /\ RetryCandidates \in Nat
ASSUME RowsAssumption ==
  \A load \in Loads : \A content \in load.corpora, g \in Generation :
    RowsOfTable(content[g])

requestVars == <<corpus, request, queue, past>>
vars == <<guardVars, requestVars>>

RankConstant == 60

(***************************************************************************)
(* Literal search.                                                         *)
(***************************************************************************)
Top(s, n) == SubSeq(s, 1, IF Len(s) < n THEN Len(s) ELSE n)

(* The elements of a set in an order that is total on them.                *)
Sorted(set, Before(_, _)) ==
  [i \in 1 .. Cardinality(set) |->
     CHOOSE x \in set : Cardinality({y \in set : Before(y, x)}) = i - 1]

Matching(rows) == {r \in rows : r.rank > 0}

(* ORDER BY rank DESC, provider, source_session_id, logical_message_id.    *)
(* With --tools that leaves the rows of one message with equal ranks in    *)
(* any order.                                                              *)
Ranked(a, b) == a.rank > b.rank \/ (a.rank = b.rank /\ a.key < b.key)
Rankings(rows) ==
  {s \in SetToSeqs(rows) :
     \A i, j \in DOMAIN s : Ranked(s[i], s[j]) => i < j}
SearchMessages(rows, tools, limit) ==
  {Top(s, limit) :
     s \in Rankings({r \in Matching(rows) : tools \/ r.class = Prose})}

(* The keys of the cursor: a record can have prose and tool rows, and a    *)
(* locator more than one message.                                          *)
PageOrder(a, b) ==
  \/ a.locator < b.locator
  \/ a.locator = b.locator /\ a.class < b.class
  \/ a.locator = b.locator /\ a.class = b.class /\ a.key < b.key

(* exhaustive_search_page with --tools, without which it reads the prose   *)
(* rows alone: one row more than the page tells whether there is another.  *)
PageAfter(rows, after) ==
  Top(Sorted({r \in Matching(rows) :
                        after = <<>> \/ PageOrder(Last(after), r)},
                     PageOrder), PageSize + 1)

(***************************************************************************)
(* Semantic search and fusion.                                             *)
(***************************************************************************)
Passages(rows) ==
  UNION {{[row |-> r, ordinal |-> i, score |-> r.scores[i]] :
            i \in DOMAIN r.scores} : r \in rows}

\* mutant: the boundary of the candidates ignores the message
CandidateByOrdinal(a, b) ==
  \/ a.score > b.score
  \/ a.score = b.score /\ a.ordinal < b.ordinal
  \/ a.score = b.score /\ a.ordinal = b.ordinal /\ a.row.key > b.row.key
(* The order in which the database cuts off passages.                      *)
CandidateOrder(a, b) ==
  \/ a.score > b.score
  \/ a.score = b.score /\ a.row.key < b.row.key
  \/ a.score = b.score /\ a.row.key = b.row.key /\ a.ordinal < b.ordinal

Candidates(passages, bound) == Top(Sorted(passages, CandidateOrder), bound)

(* Each message at its best passage among the candidates.                  *)
BestAmong(found) ==
  [r \in {c.row : c \in found} |->
     Max({c.score : c \in {d \in found : d.row = r}})]
BetterOf(best, r, q) ==
  best[r] > best[q] \/ (best[r] = best[q] /\ r.key < q.key)
BestOf(candidates, limit) ==
  LET best == BestAmong(ToSet(candidates))
  IN  Top(Sorted(DOMAIN best, LAMBDA r, q : BetterOf(best, r, q)), limit)

(* One retry when the bound was reached and messages are missing.          *)
SemanticSearch(first, retry, limit) ==
  IF \/ Len(BestOf(first, limit)) >= limit
     \/ Len(first) < FirstCandidates
  THEN BestOf(first, limit)
  ELSE BestOf(retry, limit)

(* The rank of a row in a list, as the two parts of 1 / (60 + rank).       *)
Share60(list, r) ==
  IF r \in ToSet(list)
  THEN [over |-> 1,
        under |-> RankConstant + (CHOOSE i \in DOMAIN list : list[i] = r)]
  ELSE [over |-> 0, under |-> 1]

Fused(literal, semantic, r) ==
  LET a == Share60(literal, r)
      b == Share60(semantic, r)
  IN  [over |-> a.over * b.under + b.over * a.under,
       under |-> a.under * b.under]

(* _fuse_hybrid.                                                           *)
AheadOf(score, r, q) ==
  LET left == score[r].over * score[q].under
      right == score[q].over * score[r].under
  IN  left > right \/ (left = right /\ r.locator < q.locator)
FuseHybrid(literal, semantic) ==
  LET score == [r \in ToSet(literal) \cup ToSet(semantic) |->
                  Fused(literal, semantic, r)]
  IN  Top(Sorted(DOMAIN score, LAMBDA r, q : AheadOf(score, r, q)), Limit)

(***************************************************************************)
(* A request.                                                              *)
(***************************************************************************)
Present ==
  [rows |-> IF db[Content] = None THEN {} ELSE corpus[db[Content]],
   selected |-> db[State],
   ready |-> db[State] # None /\ Coherent(db, db[State])]

\* mutant: READ COMMITTED
SeenNow(q) == Present
Seen(q) == request[q].snapshot

At(q, step) == request[q].pc = step
Override(r, changes) ==
  [f \in DOMAIN r |-> IF f \in DOMAIN changes THEN changes[f] ELSE r[f]]
Goes(q, changes) == request' = [request EXCEPT ![q] = Override(@, changes)]
Step(q, changes) ==
  /\ Goes(q, changes)
  /\ UNCHANGED <<guardVars, corpus, queue, past>>

(* COMMIT, ROLLBACK or the end of the process.                             *)
Ends(q, outcome) ==
  /\ Goes(q, [pc |-> "ended", outcome |-> outcome, until |-> Len(past)])
  /\ queue' = IF queue = q THEN None ELSE queue
  /\ UNCHANGED <<guardVars, corpus, past>>

(* _begin_search_snapshot: the first SELECT pins what the others see.      *)
BeginSearchSnapshot(q) ==
  /\ At(q, "begin")
  /\ Step(q, [pc |-> "queue", from |-> Len(past), snapshot |-> Present])

(* The advisory lock of queued_read belongs to the outer transaction: the  *)
(* first read takes it and the end of the search frees it.                 *)
QueuedRead(q) ==
  /\ At(q, "queue") /\ queue = None
  /\ queue' = q
  /\ Goes(q, [pc |-> "literal"])
  /\ UNCHANGED <<guardVars, corpus, past>>

(* A ranked search by words alone, with or without --tools.                *)
Literal(q) == request[q].kind \in {"literal", "tools"}

(* _literal_search_state of a ranked search.                               *)
SearchLiteral(q) ==
  /\ At(q, "literal") /\ request[q].kind # "exhaustive"
  /\ \E hits \in SearchMessages(Seen(q).rows, request[q].kind = "tools",
                    IF Literal(q) THEN Limit ELSE Depth) :
         Step(q, [pc |-> IF Literal(q) THEN "envelope" ELSE "revision",
                  literal |-> hits, hits |-> Top(hits, Limit)])

(* One turn of _exhaustive_search_hits.                                    *)
SearchPage(q) ==
  /\ At(q, "literal") /\ request[q].kind = "exhaustive"
  /\ \E page \in {PageAfter(Seen(q).rows, request[q].hits)} :
         Step(q, [pc |-> IF Len(page) <= PageSize
                         THEN "envelope" ELSE "literal",
                  hits |-> request[q].hits \o Top(page, PageSize)])

(* verify_model_revision lets the search go on, or ends it.                *)
VerifyRevision(q) ==
  /\ At(q, "revision")
  /\ \/ Step(q, [pc |-> "embed"])
     \/ Ends(q, "model_unavailable")

(* _bounded_query_embedding.                                               *)
Embed(q) ==
  /\ At(q, "embed")
  /\ \/ Step(q, [pc |-> "semantic"])
     \/ Step(q, [pc |-> "envelope", mode |-> "literal_fallback"])

(* semantic_search and fuse_hybrid; a corpus without a completed build is  *)
(* a ValueError.                                                           *)
SearchSemantic(q) ==
  /\ At(q, "semantic")
  /\ \/ /\ Seen(q).ready
        /\ \E passages \in {Passages(Seen(q).rows)} :
             \E first \in {Candidates(passages, FirstCandidates)},
                retry \in {Candidates(passages, RetryCandidates)} :
               \E semantic \in {SemanticSearch(first, retry, Depth)} :
                 \E hits \in {FuseHybrid(request[q].literal, semantic)} :
                   Step(q, [pc |-> "envelope", mode |-> "hybrid",
                            semantic |-> semantic, hits |-> hits])
     \/ /\ ~ Seen(q).ready
        /\ Ends(q, "semantic_unavailable")

(* _search_envelope and _apply_search_staleness.                           *)
Envelope(q) ==
  /\ At(q, "envelope")
  /\ Step(q, [pc |-> "resolve", generation |-> Seen(q).selected,
              mode |-> IF Seen(q).ready \/ request[q].mode # "hybrid"
                       THEN request[q].mode ELSE "literal_fallback"])

(* _resolve_or_degrade_search: every hit is found again by locator.        *)
Resolve(q) ==
  /\ At(q, "resolve")
  /\ Ends(q,
       IF \A h \in ToSet(request[q].hits) : \E r \in Seen(q).rows :
            r.locator = h.locator /\ r.key = h.key
       THEN "complete" ELSE "stale")

(* The deadline of a literal search: while it resolves its hits it still   *)
(* answers with them, before that it fails.                                *)
Expire(q) ==
  /\ Literal(q)
  /\ request[q].pc \in {"queue", "literal", "envelope", "resolve"}
  /\ Ends(q, IF At(q, "resolve") THEN "partial" ELSE "deadline")

(* The process is killed.                                                  *)
Die(q) ==
  /\ request[q].pc \notin {"begin", "ended"}
  /\ Ends(q, "killed")

Search(q) ==
  \/ BeginSearchSnapshot(q) \/ QueuedRead(q) \/ SearchLiteral(q)
  \/ SearchPage(q) \/ VerifyRevision(q) \/ Embed(q) \/ SearchSemantic(q)
  \/ Envelope(q) \/ Resolve(q)

(***************************************************************************)
(* Together.                                                               *)
(***************************************************************************)
NewRequest(kind, runs) ==
  [kind |-> kind, pc |-> IF runs THEN "begin" ELSE "ended",
   outcome |-> "none", mode |-> "literal", hits |-> <<>>, literal |-> <<>>,
   semantic |-> <<>>, generation |-> None, from |-> 1, until |-> 1,
   snapshot |-> [rows |-> {}, selected |-> None, ready |-> FALSE]]

Committed == <<[content |-> db[Content], selected |-> db[State]]>>

Init ==
  /\ GuardInit
  /\ \E load \in Loads :
       /\ \A t \in Transaction : pc[t] = "new" <=> t \in load.transactions
       /\ db \in load.databases
       /\ corpus \in load.corpora
       /\ \E kind \in [Request -> load.kinds \cup {"literal"}] :
            /\ \A q \in Request :
                 kind[q] \in IF q \in load.requests
                            THEN load.kinds ELSE {"literal"}
            /\ request = [q \in Request |->
                            NewRequest(kind[q], q \in load.requests)]
  /\ queue = None
  /\ past = Committed

(* A step of a transaction, which a search sees when it has committed.     *)
Beside(step) ==
  /\ step
  /\ past' = IF Committed' = <<Last(past)>> THEN past ELSE past \o Committed'
  /\ UNCHANGED <<corpus, request, queue>>

Next ==
  \/ Beside(GuardNext)
  \/ \E q \in Request : Search(q) \/ Expire(q) \/ Die(q)

Spec == Init /\ [][Next]_vars

(* PostgreSQL runs every statement that does not wait and the program goes *)
(* on; the answer of the model is RequestEnds of QueryEmbedder.  Nothing   *)
(* has to time out or to die.                                              *)
FairSpec ==
  /\ Spec
  /\ \A t \in Transaction : WF_vars(Beside(Advance(t)))
  /\ \A q \in Request : WF_vars(Search(q))

(***************************************************************************)
(* Properties.                                                             *)
(***************************************************************************)
Answered(q) == request[q].outcome \in {"complete", "partial"}

(* An answer is one corpus that was current at some moment of the search:  *)
(* hits, reported generation and mode belong together although they come   *)
(* from several statements, some of them after a wait for the queue or the *)
(* model, and no hit has vanished when it is resolved                      *)
(* (_begin_search_snapshot, _resolved_search_results).                     *)
AnswerIsOneCorpus ==
  \A q \in Request :
    /\ request[q].outcome # "stale"
    /\ Answered(q) =>
         \E i \in request[q].from .. request[q].until :
           /\ past[i].selected = request[q].generation
           /\ ToSet(request[q].hits) \subseteq
                IF past[i].content = None THEN {} ELSE corpus[past[i].content]
           /\ request[q].mode = "hybrid" => past[i].selected # None

Best(r) == Max(ToSet(r.scores))
Embedded(rows) == {r \in rows : r.scores # <<>>}
Better(a, b) ==
  Best(a) > Best(b) \/ (Best(a) = Best(b) /\ a.key < b.key)

(* Cutting off passages and pages loses nothing it should keep: the        *)
(* semantic list is the beginning of the exact ranking of messages by      *)
(* their best passage, as long as asked for unless even the retry reached  *)
(* its bound; the pages of an exhaustive search are every matching row     *)
(* once (semantic_search, exhaustive_search_page).                         *)
HitsAreExact ==
  \A q \in Request :
    LET rows == request[q].snapshot.rows
        exact == Sorted(Embedded(rows), Better)
        hits == request[q].semantic
    IN  Answered(q) =>
          /\ request[q].mode = "hybrid" =>
               /\ hits = Top(exact, Len(hits))
               /\ \/ Len(hits) = Len(Top(exact, Depth))
                  \/ Cardinality(Passages(rows)) > RetryCandidates
          /\ request[q].kind = "exhaustive" =>
               /\ ToSet(request[q].hits) = Matching(rows)
               /\ Len(request[q].hits) = Cardinality(Matching(rows))

(* Whatever has begun ends, as each begins only once: neither the row      *)
(* locks of transactions that publish, select and demote, nor the read     *)
(* queue that a search keeps while it waits for the model, leave anyone    *)
(* waiting for ever.                                                       *)
RequestsEnd ==
  []<>(/\ \A t \in Transaction : pc[t] # "run"
       /\ \A q \in Request : request[q].pc \in {"begin", "ended"})
=============================================================================
