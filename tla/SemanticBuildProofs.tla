------------------------ MODULE SemanticBuildProofs ------------------------
(* Proofs that a selected corpus has its passages and their vectors, and   *)
(* that the counts by which a run checks itself never disagree, for any    *)
(* messages, texts, versions, bounds and batches.                          *)
EXTENDS SemanticBuild, FiniteSetTheorems, WellFoundedInduction, TLAPS

(***************************************************************************)
(* The inductive invariant.                                                *)
(***************************************************************************)

(* All rows of a corpus.                                                   *)
Whole(current, c) ==
  UNION {Rows(m, current[m], c) : m \in Eligible(current)}

Made(digest) == [digest |-> digest, model |-> ModelOf[1]]

VectorInv == \A v \in vector : v = Made(v.digest)

ChunkInv ==
  /\ chunk = {} \/ chunk = Whole(message, selected)
  /\ selected # None =>
       /\ chunk = Whole(message, selected)
       /\ \A r \in chunk : Made(r.digest) \in vector

(* What is staged is what the tables lack: they do not change until the    *)
(* run publishes.                                                          *)
StagedInv ==
  /\ run.staged = Requiring(run.affected, run.found, Chunker)
  /\ run.rows = UNION {Rows(m, Candidate[m], Chunker) : m \in run.staged}

BeginRun ==
  run = [pc |-> "stage", package |-> run.package,
         affected |-> run.affected, found |-> run.found]
CandidateRun ==
  run = [pc |-> run.pc, package |-> run.package,
         affected |-> run.affected, found |-> run.found,
         staged |-> run.staged, rows |-> run.rows, queue |-> run.queue,
         total |-> run.total, completed |-> run.completed]

RunInv ==
  run # Idle =>
    /\ run.affected \subseteq Message
    /\ ModelOf[run.package] = ModelOf[1]
    /\ BeginRun \/ (CandidateRun /\ run.pc # "stage" /\ StagedInv)

IInv == VectorInv /\ ChunkInv /\ RunInv

(***************************************************************************)
(* Rows.                                                                   *)
(***************************************************************************)
LEMMA RowFacts ==
  ASSUME NEW m, NEW t, NEW c, NEW r \in Rows(m, t, c)
  PROVE  r.message = m /\ r.text = t /\ r.chunker = c
BY DEF Rows

LEMMA WholeFacts ==
  ASSUME NEW current, NEW c, NEW r \in Whole(current, c)
  PROVE  /\ r.message \in Eligible(current)
         /\ r \in Rows(r.message, current[r.message], c)
         /\ r.chunker = c /\ r.text = current[r.message]
<1>1. PICK m \in Eligible(current) : r \in Rows(m, current[m], c)
  BY DEF Whole
<1>2. QED
  BY <1>1, RowFacts

(* A message with a fresh row has all its rows, and the selected chunker   *)
(* is the one of the run.                                                  *)
LEMMA FreshIsWhole ==
  ASSUME ChunkInv, NEW c, NEW m \in Owners(Fresh(chunk, message, c))
  PROVE  selected = c /\ chunk = Whole(message, selected)
<1>1. PICK r \in chunk : r.message = m /\ r.chunker = c
  BY DEF Owners, Fresh
<1>2. chunk = Whole(message, selected)
  BY <1>1 DEF ChunkInv
<1>3. r.chunker = selected
  BY <1>1, <1>2, WholeFacts
<1>4. QED
  BY <1>1, <1>2, <1>3

(* Publication makes the rows those of the whole candidate.                *)
LEMMA PublishedIsWhole ==
  ASSUME ChunkInv, StagedInv, run.affected \subseteq Message
  PROVE  Published = Whole(Candidate, Chunker)
<1>1. \A m \in Message \ run.affected : Candidate[m] = message[m]
  BY DEF Candidate
<1>2. \A m \in run.affected : Candidate[m] = run.found[m]
  BY DEF Candidate
<1>3. run.staged \subseteq Eligible(Candidate)
  BY <1>1, <1>2 DEF StagedInv, Requiring, Eligible
<1>4. ASSUME NEW m \in Eligible(message) \ (run.affected \cup run.staged)
      PROVE  selected = Chunker /\ chunk = Whole(message, selected)
  <2>1. m \in Owners(Fresh(chunk, message, Chunker))
    BY DEF StagedInv, Requiring
  <2>2. QED
    BY <2>1, FreshIsWhole
<1>5. ASSUME NEW r \in Published PROVE r \in Whole(Candidate, Chunker)
  <2>1. CASE r \in run.rows
    BY <1>3, <2>1 DEF StagedInv, Whole
  <2>2. CASE r \in chunk /\ r.message \notin run.affected \cup run.staged
    <3>1. chunk = Whole(message, selected)
      BY <2>2 DEF ChunkInv
    <3>2. /\ r.message \in Eligible(message)
          /\ r \in Rows(r.message, message[r.message], selected)
      BY <2>2, <3>1, WholeFacts
    <3>3. selected = Chunker
      BY <1>4, <2>2, <3>2
    <3>4. r.message \in Message /\ message[r.message] \in Text
      BY <3>2 DEF Eligible
    <3>5. /\ Candidate[r.message] = message[r.message]
          /\ r.message \in Eligible(Candidate)
      BY <1>1, <2>2, <3>4 DEF Eligible
    <3>6. QED
      BY <3>2, <3>3, <3>5 DEF Whole
  <2>3. QED
    BY <2>1, <2>2 DEF Published
<1>6. ASSUME NEW r \in Whole(Candidate, Chunker) PROVE r \in Published
  <2>1. PICK m \in Eligible(Candidate) : r \in Rows(m, Candidate[m], Chunker)
    BY DEF Whole
  <2>2. r.message = m
    BY <2>1, RowFacts
  <2>3. CASE m \in run.staged
    BY <2>1, <2>3 DEF StagedInv, Published
  <2>4. CASE m \notin run.staged
    <3>1. m \in Message /\ Candidate[m] \in Text
      BY <2>1 DEF Eligible
    <3>2. m \notin run.affected
      BY <1>2, <2>4, <3>1 DEF StagedInv, Requiring
    <3>3. m \in Eligible(message) /\ Candidate[m] = message[m]
      BY <1>1, <3>1, <3>2 DEF Eligible
    <3>4. selected = Chunker /\ chunk = Whole(message, selected)
      BY <1>4, <2>4, <3>2, <3>3
    <3>5. r \in chunk
      BY <2>1, <3>3, <3>4 DEF Whole
    <3>6. QED
      BY <2>2, <2>4, <3>2, <3>5 DEF Published
  <2>5. QED
    BY <2>3, <2>4
<1>7. QED
  BY <1>5, <1>6

(***************************************************************************)
(* Steps.                                                                  *)
(***************************************************************************)
LEMMA InitInv == Init => IInv
BY DEF Init, IInv, VectorInv, ChunkInv, RunInv, Idle

(* Steps of the run that change neither the tables nor what is staged.     *)
LEMMA Kept ==
  ASSUME IInv, run # Idle, CandidateRun, StagedInv,
         UNCHANGED <<message, chunk, selected>>,
         run'.pc # "stage", CandidateRun',
         run'.package = run.package, run'.affected = run.affected,
         run'.found = run.found, run'.staged = run.staged,
         run'.rows = run.rows
  PROVE  RunInv'
<1>1. Chunker' = Chunker /\ Candidate' = Candidate
  BY DEF Chunker, Candidate
<1>2. StagedInv'
  BY <1>1 DEF StagedInv, Requiring, Eligible, Owners, Fresh
<1>3. QED
  BY <1>2 DEF IInv, RunInv

LEMMA StageInv == ASSUME IInv, Stage PROVE IInv'
<1> USE DEF Stage
<1>1. run # Idle /\ run.affected \subseteq Message
      /\ ModelOf[run.package] = ModelOf[1]
  BY DEF Idle, IInv, RunInv
<1>2. /\ run'.pc \in {"embed", "inconsistent"}
      /\ run'.package = run.package /\ run'.affected = run.affected
      /\ run'.found = run.found
      /\ run'.staged = Requiring(run.affected, run.found, Chunker)
      /\ run'.rows =
           UNION {Rows(m, Candidate[m], Chunker) : m \in run'.staged}
  OBVIOUS
<1>3. CandidateRun'
  BY DEF CandidateRun
<1>4. Chunker' = Chunker /\ Candidate' = Candidate
  BY <1>2 DEF Chunker, Candidate
<1>5. StagedInv'
  BY <1>2, <1>4 DEF StagedInv, Requiring, Eligible, Owners, Fresh
<1>6. RunInv'
  BY <1>1, <1>2, <1>3, <1>5 DEF RunInv
<1>7. QED
  BY <1>6 DEF IInv, VectorInv, ChunkInv

LEMMA EmbedInv == ASSUME IInv, EmbedBatch PROVE IInv'
<1>1. /\ run # Idle /\ CandidateRun /\ StagedInv
      /\ ModelOf[run.package] = ModelOf[1]
  BY DEF EmbedBatch, Idle, IInv, RunInv, BeginRun
<1> DEFINE
  batch == Batch(run.queue)
  new == {d \in batch : \A v \in vector : v.digest # d}
  left == [d \in DOMAIN run.queue \ batch |-> run.queue[d]]
  sum == run.completed + Units(run.queue, batch)
<1>2. \/ run' = [run EXCEPT !.pc = "inconsistent"] /\ UNCHANGED vector
      \/ /\ vector' = vector \cup
              [digest : new, model : {ModelOf[run.package]}]
         /\ run' = [run EXCEPT !.queue = left, !.completed = sum]
  BY <1>1 DEF EmbedBatch, CandidateRun
<1>3. run'.pc # "stage" /\ CandidateRun'
      /\ run'.package = run.package /\ run'.affected = run.affected
      /\ run'.found = run.found /\ run'.staged = run.staged
      /\ run'.rows = run.rows
  <2> HIDE DEF left, sum
  <2>1. run.pc = "embed"
    BY DEF EmbedBatch
  <2>2. QED
    BY <1>1, <1>2, <2>1 DEF CandidateRun
<1>4. RunInv'
  BY <1>1, <1>3, Kept DEF EmbedBatch
<1>5. VectorInv' /\ vector \subseteq vector'
  <2> HIDE DEF new, left, sum
  <2>1. QED
    BY <1>1, <1>2 DEF IInv, VectorInv, Made
<1>6. ChunkInv'
  BY <1>5 DEF EmbedBatch, IInv, ChunkInv
<1>7. QED
  BY <1>4, <1>5, <1>6 DEF IInv

LEMMA PrepareInv == ASSUME IInv, Prepare PROVE IInv'
<1>1. run # Idle /\ CandidateRun /\ StagedInv
  BY DEF Prepare, Idle, IInv, RunInv, BeginRun
<1>2. PICK pc \in {"publish", "inconsistent"} :
        run' = [run EXCEPT !.pc = pc]
  BY DEF Prepare
<1>3. run'.pc # "stage" /\ CandidateRun'
      /\ run'.package = run.package /\ run'.affected = run.affected
      /\ run'.found = run.found /\ run'.staged = run.staged
      /\ run'.rows = run.rows
  BY <1>1, <1>2 DEF CandidateRun
<1>4. RunInv'
  BY <1>1, <1>3, Kept DEF Prepare
<1>5. QED
  BY <1>4 DEF Prepare, IInv, VectorInv, ChunkInv

LEMMA PublishInv == ASSUME IInv, Publish PROVE IInv'
<1>1. /\ run # Idle /\ CandidateRun /\ StagedInv
      /\ run.affected \subseteq Message
  BY DEF Publish, Idle, IInv, RunInv, BeginRun
<1> DEFINE fresh == Fresh(Published, Candidate, Chunker)
<1>2. CASE /\ Embedded(fresh, vector) = fresh
           /\ message' = Candidate /\ chunk' = Published
           /\ vector' = Collected(Published)
           /\ selected' = Chunker /\ run' = Idle
  <2>1. Published = Whole(Candidate, Chunker)
    BY <1>1, PublishedIsWhole DEF IInv
  <2>2. fresh = Published
    BY <2>1, WholeFacts DEF Fresh
  <2>3. \A r \in Published : Made(r.digest) \in Collected(Published)
    <3>1. TAKE r \in Published
    <3>2. PICK v \in vector : v.digest = r.digest
      BY <1>2, <2>2 DEF Embedded
    <3>3. v = Made(r.digest)
      BY <3>2 DEF IInv, VectorInv
    <3>4. QED
      BY <3>2, <3>3 DEF Collected
  <2>4. ChunkInv'
    BY <1>2, <2>1, <2>3 DEF ChunkInv, Whole, Eligible
  <2>5. VectorInv'
    BY <1>2 DEF Collected, IInv, VectorInv
  <2>6. QED
    BY <1>2, <2>4, <2>5 DEF IInv, RunInv
<1>3. CASE /\ run' = [run EXCEPT !.pc = "inconsistent"]
           /\ UNCHANGED <<message, chunk, vector, selected>>
  <2>1. run'.pc # "stage" /\ CandidateRun'
        /\ run'.package = run.package /\ run'.affected = run.affected
        /\ run'.found = run.found /\ run'.staged = run.staged
        /\ run'.rows = run.rows
    BY <1>1, <1>3 DEF CandidateRun
  <2>2. RunInv'
    BY <1>1, <1>3, <2>1, Kept
  <2>3. QED
    BY <1>3, <2>2 DEF IInv, VectorInv, ChunkInv
<1>4. QED
  BY <1>2, <1>3 DEF Publish

LEMMA BeginInv == ASSUME IInv, Begin PROVE IInv'
<1>1. PICK affected \in {Changed, Message} :
        run' = [pc |-> "stage", package |-> package, affected |-> affected,
                found |-> source]
  BY DEF Begin
<1>2. affected \subseteq Message
  BY <1>1 DEF Changed
<1>3. RunInv'
  BY <1>1, <1>2 DEF Begin, RevisionMatches, RunInv, BeginRun
<1>4. QED
  BY <1>3 DEF Begin, IInv, VectorInv, ChunkInv

LEMMA NextInv == ASSUME IInv, [Next]_vars PROVE IInv'
<1>1. CASE Abandon
  BY <1>1 DEF Abandon, IInv, VectorInv, ChunkInv, RunInv
<1>2. CASE UNCHANGED <<message, chunk, vector, selected, run>>
  <2>1. Chunker' = Chunker /\ Candidate' = Candidate
    BY <1>2 DEF Chunker, Candidate
  <2>2. StagedInv => StagedInv'
    BY <1>2, <2>1 DEF StagedInv, Requiring, Eligible, Owners, Fresh
  <2>3. QED
    BY <1>2, <2>2
    DEF IInv, VectorInv, ChunkInv, RunInv, BeginRun, CandidateRun
<1>3. CASE Edit
  BY <1>2, <1>3 DEF Edit
<1>4. CASE Upgrade
  BY <1>2, <1>4 DEF Upgrade
<1>5. CASE UNCHANGED vars
  BY <1>2, <1>5 DEF vars
<1>6. QED
  BY <1>1, <1>3, <1>4, <1>5, BeginInv, StageInv, EmbedInv, PrepareInv,
     PublishInv DEF Next

(***************************************************************************)
(* Results.                                                                *)
(***************************************************************************)

(* At every commit of a publication, and after every failure, upgrade and  *)
(* collection, the prose of the selected corpus has all its passages and   *)
(* each of them one vector of the recorded model                           *)
(* (_publish_coherent_candidate).                                          *)
THEOREM SelectedCorpusIsEmbedded == Spec => []SelectedIsEmbedded
<1>1. IInv => SelectedIsEmbedded
  <2>1. SUFFICES ASSUME IInv, selected # None PROVE SelectedIsEmbedded
    BY DEF SelectedIsEmbedded
  <2>2. chunk = UNION {Rows(m, message[m], selected) : m \in Eligible(message)}
    BY <2>1 DEF IInv, ChunkInv, Whole
  <2>3. \A r \in chunk :
          \E v \in vector : v = [digest |-> r.digest, model |-> ModelOf[1]]
    BY <2>1 DEF IInv, ChunkInv, Made
  <2>4. \A v, w \in vector : v.digest = w.digest => v = w
    BY <2>1 DEF IInv, VectorInv
  <2>5. QED
    BY <2>2, <2>3, <2>4 DEF SelectedIsEmbedded
<1>2. QED
  BY <1>1, InitInv, NextInv, PTL DEF Spec

(***************************************************************************)
(* The counts.                                                             *)
(***************************************************************************)

(* The rows of the candidate, which a run counts twice.                    *)
All == CandidateRows(run.affected, run.staged, run.rows, Chunker)

(* The queue is what the rows of the candidate lack at every moment, and   *)
(* the number of completed passages that of the rows with a vector.        *)
CountOK ==
  /\ run.pc \in {"embed", "publish"}
  /\ run.queue = Queue(All)
  /\ run.total = Cardinality(All)
  /\ run.completed = Cardinality(Embedded(All, vector))
  /\ run.pc = "publish" => Embedded(All, vector) = All

CountInv ==
  /\ package \in Package
  /\ run # Idle =>
       /\ run.package \in Package
       /\ run.pc # "stage" => CountOK

LEMMA NatMin ==
  ASSUME NEW S \in SUBSET Nat, S # {}
  PROVE  \E m \in S : \A n \in S : m <= n
<1>1. PICK m \in S : \A n \in S : ~ (<<n, m>> \in OpToRel(<, Nat))
  BY NatLessThanWellFounded, WFMin
<1>2. ASSUME NEW n \in S PROVE m <= n
  <2>1. ~(n < m)
    BY <1>1 DEF OpToRel
  <2>2. QED
    BY <2>1
<1>3. QED
  BY <1>2

(* A queue that is not empty gives a batch.                                *)
LEMMA BatchIsNotEmpty ==
  ASSUME NEW queue, DOMAIN queue \subseteq Nat, DOMAIN queue # {}
  PROVE  Batch(queue) # {}
<1>1. PICK d \in DOMAIN queue : \A e \in DOMAIN queue : d <= e
  BY NatMin
<1>2. {e \in DOMAIN queue : e < d} = {}
  BY <1>1
<1>3. Cardinality({e \in DOMAIN queue : e < d}) = 0
  BY <1>2, FS_EmptySet
<1>4. d \in Batch(queue)
  BY <1>3, PackageAssumption DEF Batch
<1>5. QED
  BY <1>4

LEMMA RowsAreFinite ==
  ASSUME NEW m, NEW t \in Text, NEW c \in Chunkers
  PROVE  /\ IsFiniteSet(Rows(m, t, c)) /\ Rows(m, t, c) # {}
         /\ \A r \in Rows(m, t, c) : r.digest \in Nat
<1> DEFINE
  p == Passages[c][t]
  row == [i \in 1 .. Len(p) |->
            [message |-> m, ordinal |-> i, chunker |-> c, text |-> t,
             digest |-> p[i]]]
<1>1. p \in Seq(Nat) /\ p # <<>>
  BY PassageAssumption
<1>2. DOMAIN p = 1 .. Len(p) /\ Len(p) \in Nat /\ Len(p) > 0
  BY <1>1
<1>3. Rows(m, t, c) = {row[i] : i \in 1 .. Len(p)}
  BY <1>2 DEF Rows
<1>4. row \in Surjection(1 .. Len(p), Rows(m, t, c))
  BY <1>3 DEF Surjection
<1>5. IsFiniteSet(1 .. Len(p))
  BY <1>2, FS_Interval
<1>6. IsFiniteSet(Rows(m, t, c))
  BY <1>4, <1>5, FS_Surjection
<1>7. row[1] \in Rows(m, t, c)
  BY <1>2, <1>3
<1>8. \A i \in 1 .. Len(p) : row[i].digest \in Nat
  BY <1>1
<1>9. QED
  BY <1>3, <1>6, <1>7, <1>8

LEMMA WholeIsFinite ==
  ASSUME NEW current, NEW c \in Chunkers
  PROVE  /\ IsFiniteSet(Whole(current, c))
         /\ Owners(Whole(current, c)) = Eligible(current)
         /\ \A r \in Whole(current, c) : r.digest \in Nat
<1> DEFINE
  prose == Eligible(current)
  rows == [m \in prose |-> Rows(m, current[m], c)]
  parts == {rows[m] : m \in prose}
<1>1. IsFiniteSet(prose)
  BY PassageAssumption, FS_Subset DEF Eligible
<1>2. rows \in Surjection(prose, parts)
  BY DEF Surjection
<1>3. IsFiniteSet(parts)
  BY <1>1, <1>2, FS_Surjection
<1>4. \A m \in prose : current[m] \in Text
  BY DEF Eligible
<1>5. \A m \in prose :
        /\ IsFiniteSet(rows[m]) /\ rows[m] # {}
        /\ \A r \in rows[m] : r.digest \in Nat /\ r.message = m
  BY <1>4, RowsAreFinite, RowFacts
<1>6. Whole(current, c) = UNION parts
  BY DEF Whole
<1>7. IsFiniteSet(Whole(current, c))
  BY <1>3, <1>5, <1>6, FS_UNION
<1>8. Owners(Whole(current, c)) = prose
  BY <1>5, <1>6 DEF Owners
<1>9. QED
  BY <1>5, <1>6, <1>7, <1>8

(* What a run counts is what its publication leaves: all rows of the       *)
(* candidate, and fresh ones.                                              *)
LEMMA AllIsWhole ==
  ASSUME IInv, run # Idle, run.pc # "stage"
  PROVE  /\ All = Whole(Candidate, Chunker)
         /\ Published = All
         /\ Fresh(Published, Candidate, Chunker) = All
<1>1. ChunkInv /\ StagedInv /\ run.affected \subseteq Message
  BY DEF IInv, RunInv, BeginRun
<1>2. Published = Whole(Candidate, Chunker)
  BY <1>1, PublishedIsWhole
<1>3. \A r \in Published :
        r.chunker = Chunker /\ r.text = Candidate[r.message]
        /\ r.message \in Message
  BY <1>2, WholeFacts DEF Eligible
<1>4. ASSUME NEW r \in Published PROVE r \in All
  <2>1. CASE r \in run.rows
    BY <2>1 DEF All, CandidateRows
  <2>2. CASE r \in chunk /\ r.message \notin run.affected \cup run.staged
    <3>1. Candidate[r.message] = message[r.message]
      BY <1>3, <2>2 DEF Candidate
    <3>2. r \in Fresh(chunk, message, Chunker)
      BY <1>3, <2>2, <3>1 DEF Fresh
    <3>3. QED
      BY <2>2, <3>2 DEF All, CandidateRows
  <2>3. QED
    BY <2>1, <2>2 DEF Published
<1>5. All \subseteq Published
  BY DEF All, CandidateRows, Published, Fresh
<1>6. Fresh(Published, Candidate, Chunker) = Published
  BY <1>3 DEF Fresh
<1>7. QED
  BY <1>2, <1>4, <1>5, <1>6

(* The same as a state formula, which holds in the next state as well.     *)
LEMMA AllFacts ==
  IInv /\ run # Idle /\ run.pc # "stage" /\ run.package \in Package =>
    /\ IsFiniteSet(All) /\ Owners(All) = Eligible(Candidate)
    /\ \A r \in All : r.digest \in Nat
    /\ Published = All /\ Fresh(Published, Candidate, Chunker) = All
    /\ Embedded(All, vector) \subseteq All
    /\ IsFiniteSet(Embedded(All, vector))
<1>1. SUFFICES ASSUME IInv, run # Idle, run.pc # "stage",
                      run.package \in Package
               PROVE  /\ IsFiniteSet(All)
                      /\ Owners(All) = Eligible(Candidate)
                      /\ \A r \in All : r.digest \in Nat
                      /\ Published = All
                      /\ Fresh(Published, Candidate, Chunker) = All
                      /\ Embedded(All, vector) \subseteq All
                      /\ IsFiniteSet(Embedded(All, vector))
  OBVIOUS
<1>2. Chunker \in Chunkers
  BY <1>1 DEF Chunker, Chunkers
<1>3. Embedded(All, vector) \subseteq All
  BY DEF Embedded
<1>4. QED
  BY <1>1, <1>2, <1>3, AllIsWhole, WholeIsFinite, FS_Subset

(* The rows that wait for some digests.                                    *)
Waiting(rows, digests) == {r \in rows : r.digest \in digests}

(* Counts of disjoint sets add up.                                         *)
LEMMA DisjointCount ==
  ASSUME NEW S, NEW T, IsFiniteSet(S), IsFiniteSet(T), S \cap T = {}
  PROVE  Cardinality(S \cup T) = Cardinality(S) + Cardinality(T)
<1>1. Cardinality(S \cup T)
        = Cardinality(S) + Cardinality(T) - Cardinality(S \cap T)
  BY FS_Union
<1>2. Cardinality(S \cap T) = 0
  BY FS_EmptySet
<1>3. Cardinality(S) \in Nat /\ Cardinality(T) \in Nat
  BY FS_CardinalityType
<1>4. QED
  BY <1>1, <1>2, <1>3

(* What waits is what has no vector.                                       *)
LEMMA QueueFacts ==
  ASSUME NEW rows, NEW digests, digests \subseteq DOMAIN Queue(rows)
  PROVE  /\ DOMAIN Queue(rows)
              = {r.digest : r \in rows \ Embedded(rows, vector)}
         /\ Units(Queue(rows), digests)
              = Cardinality(Waiting(rows, digests))
         /\ \A r \in rows : r.digest \in DOMAIN Queue(rows)
              <=> r \notin Embedded(rows, vector)
<1>1. DOMAIN Queue(rows) = {r.digest : r \in rows \ Embedded(rows, vector)}
  BY DEF Queue
<1>2. \A d \in DOMAIN Queue(rows) :
        Queue(rows)[d] = {r \in rows : r.digest = d}
  BY DEF Queue
<1>3. \A r, s \in rows : r.digest = s.digest =>
        (r \in Embedded(rows, vector) <=> s \in Embedded(rows, vector))
  BY DEF Embedded
<1>4. \A r \in rows : r.digest \in DOMAIN Queue(rows)
        <=> r \notin Embedded(rows, vector)
  BY <1>1, <1>3
<1>5. UNION {Queue(rows)[d] : d \in digests}
        = Waiting(rows, digests)
  BY <1>2 DEF Waiting
<1>6. QED
  BY <1>1, <1>4, <1>5 DEF Units

(* The rows counted are the same as long as neither the tables nor what is *)
(* staged changes.                                                         *)
LEMMA AllKept ==
  ASSUME UNCHANGED <<message, chunk>>,
         run'.package = run.package, run'.affected = run.affected,
         run'.found = run.found, run'.staged = run.staged,
         run'.rows = run.rows
  PROVE  All' = All
BY DEF All, CandidateRows, Fresh, Chunker

LEMMA StageCounts == ASSUME IInv, CountInv, Stage PROVE CountInv'
<1> DEFINE
  staged == Requiring(run.affected, run.found, Chunker)
  rows == UNION {Rows(m, Candidate[m], Chunker) : m \in staged}
  all == CandidateRows(run.affected, staged, rows, Chunker)
  queue == Queue(all)
  total == Cardinality(all)
<1>1. /\ run'.pc = IF Owners(all) = Eligible(Candidate)
                   THEN "embed" ELSE "inconsistent"
      /\ run'.package = run.package /\ run'.affected = run.affected
      /\ run'.found = run.found
      /\ run'.staged = staged /\ run'.rows = rows
      /\ run'.queue = queue /\ run'.total = total
      /\ run'.completed = total - Units(queue, DOMAIN queue)
      /\ UNCHANGED <<message, chunk, vector, selected, package>>
  <2> HIDE DEF staged, rows, all, queue, total
  <2>1. run' = [pc |-> IF Owners(all) = Eligible(Candidate)
                       THEN "embed" ELSE "inconsistent",
                package |-> run.package, affected |-> run.affected,
                found |-> run.found, staged |-> staged, rows |-> rows,
                queue |-> queue, total |-> total,
                completed |-> total - Units(queue, DOMAIN queue)]
    BY DEF Stage, staged, rows, all, queue, total
  <2>2. QED
    BY <2>1 DEF Stage
<1>2. Chunker' = Chunker /\ Candidate' = Candidate
  <2> HIDE DEF staged, rows, all, queue, total
  <2>1. QED
    BY <1>1 DEF Chunker, Candidate
<1>3. All' = all
  <2>1. (Fresh(chunk, message, Chunker))' = Fresh(chunk, message, Chunker)
    <3> HIDE DEF staged, rows, all, queue, total
    <3>1. QED
      BY <1>1, <1>2 DEF Fresh
  <2>2. QED
    BY <1>1, <1>2, <2>1 DEF All, CandidateRows
<1>4. run' # Idle /\ run'.pc # "stage" /\ run.package \in Package
      /\ package' \in Package
  <2> HIDE DEF staged, rows, all, queue, total
  <2>1. run # Idle
    BY DEF Stage, Idle
  <2>2. QED
    BY <1>1, <2>1 DEF Idle, CountInv
<1> HIDE DEF staged, rows, queue, total
<1>5. (IInv /\ run # Idle /\ run.pc # "stage" /\ run.package \in Package)'
  BY StageInv, <1>1, <1>4
<1>6. (/\ IsFiniteSet(All) /\ Owners(All) = Eligible(Candidate)
       /\ Embedded(All, vector) \subseteq All)'
  BY <1>5, AllFacts, PTL
<1>7. /\ IsFiniteSet(all) /\ Owners(all) = Eligible(Candidate)
      /\ Embedded(all, vector) \subseteq all
      /\ Embedded(all, vector) = (Embedded(All, vector))'
      /\ queue = (Queue(All))'
  BY <1>1, <1>2, <1>3, <1>6 DEF Embedded, queue, Queue
<1>8. Units(queue, DOMAIN queue) = Cardinality(all \ Embedded(all, vector))
  <2> HIDE DEF all
  <2>1. Units(queue, DOMAIN queue)
          = Cardinality(Waiting(all, DOMAIN queue))
    BY QueueFacts DEF queue
  <2>2. \A r \in all : r.digest \in DOMAIN queue
                        <=> r \notin Embedded(all, vector)
    BY QueueFacts DEF queue
  <2>3. Waiting(all, DOMAIN queue) = all \ Embedded(all, vector)
    BY <2>2 DEF Waiting
  <2>4. QED
    BY <2>1, <2>3
<1>9. run'.completed = Cardinality(Embedded(all, vector))
  <2> DEFINE having == Embedded(all, vector)
  <2>1. /\ IsFiniteSet(all) /\ having \subseteq all
        /\ all \cap having = having
    BY <1>7
  <2> HIDE DEF all, having
  <2>2. Cardinality(all \ having) = Cardinality(all) - Cardinality(having)
    BY <2>1, FS_Difference
  <2>3. Cardinality(all) \in Nat /\ Cardinality(having) \in Nat
    BY <2>1, FS_Subset, FS_CardinalityType
  <2>4. QED
    BY <1>1, <1>8, <2>2, <2>3 DEF total, having
<1>10. CountOK'
  BY <1>1, <1>3, <1>7, <1>9 DEF CountOK, total
<1>11. QED
  BY <1>4, <1>5, <1>10 DEF CountInv

(* One batch: what it embeds leaves the queue and is counted.              *)
LEMMA EmbedCounts == ASSUME IInv, CountInv, EmbedBatch PROVE CountInv'
<1> DEFINE
  batch == Batch(run.queue)
  new == {d \in batch : \A v \in vector : v.digest # d}
  left == [d \in DOMAIN run.queue \ batch |-> run.queue[d]]
  units == Units(run.queue, batch)
  waiting == Waiting(All, batch)
<1>1. /\ run # Idle /\ CandidateRun /\ run.pc = "embed"
      /\ run.package \in Package /\ CountOK
      /\ run.completed < run.total
  BY DEF EmbedBatch, Idle, IInv, RunInv, BeginRun, CountInv
<1>2. /\ IsFiniteSet(All) /\ \A r \in All : r.digest \in Nat
      /\ Embedded(All, vector) \subseteq All
      /\ IsFiniteSet(Embedded(All, vector))
  BY <1>1, AllFacts
<1>3. /\ DOMAIN run.queue = {r.digest : r \in All \ Embedded(All, vector)}
      /\ \A r \in All : r.digest \in DOMAIN run.queue
           <=> r \notin Embedded(All, vector)
      /\ batch \subseteq DOMAIN run.queue
      /\ units = Cardinality(waiting)
  <2>1. batch \subseteq DOMAIN run.queue
    BY DEF Batch
  <2>2. run.queue = Queue(All)
    BY <1>1 DEF CountOK
  <2> HIDE DEF batch
  <2>3. /\ DOMAIN run.queue = {r.digest : r \in All \ Embedded(All, vector)}
        /\ \A r \in All : r.digest \in DOMAIN run.queue
             <=> r \notin Embedded(All, vector)
    BY <2>1, <2>2, QueueFacts
  <2>4. Units(run.queue, batch)
          = Cardinality(Waiting(All, batch))
    BY <2>1, <2>2, QueueFacts
  <2>5. QED
    BY <2>1, <2>3, <2>4
<1>4. batch # {}
  <2>1. Embedded(All, vector) # All
    <3>1. Cardinality(Embedded(All, vector)) < Cardinality(All)
      BY <1>1 DEF CountOK
    <3>2. Cardinality(All) \in Nat
      BY <1>2, FS_CardinalityType
    <3>3. QED
      BY <3>1, <3>2
  <2>2. DOMAIN run.queue # {} /\ DOMAIN run.queue \subseteq Nat
    BY <1>2, <1>3, <2>1
  <2>3. QED
    BY <2>2, BatchIsNotEmpty
<1>5. /\ vector' = vector \cup [digest : new, model : {ModelOf[run.package]}]
      /\ run' = [run EXCEPT !.queue = left, !.completed = @ + units]
  BY <1>4 DEF EmbedBatch
<1>5a. /\ waiting \subseteq All
       /\ \A r \in All : r \in waiting <=> r.digest \in batch
  BY DEF Waiting
<1> HIDE DEF batch, left, units, waiting
<1>6. /\ run'.pc = "embed" /\ run'.queue = left /\ run'.total = run.total
      /\ run'.completed = run.completed + units
      /\ run'.package = run.package /\ run'.affected = run.affected
      /\ run'.found = run.found /\ run'.staged = run.staged
      /\ run'.rows = run.rows /\ run' # Idle
      /\ UNCHANGED <<message, chunk, package>>
  BY <1>1, <1>5 DEF CandidateRun, EmbedBatch, Idle
<1>7. All' = All
  BY <1>6, AllKept
<1>8. (Embedded(All, vector))' = Embedded(All, vector) \cup waiting
  <2>1. new = batch
    BY <1>3 DEF Embedded
  <2>2. \A d \in batch : [digest |-> d, model |-> ModelOf[run.package]]
                            \in vector'
    BY <1>5, <2>1
  <2>3. \A v \in vector' : v \in vector \/ v.digest \in batch
    BY <1>5, <2>1
  <2>4. vector \subseteq vector'
    BY <1>5
  <2>5. \A r \in All : (\E v \in vector' : v.digest = r.digest)
          <=> r \in Embedded(All, vector) \/ r.digest \in batch
    BY <2>2, <2>3, <2>4 DEF Embedded
  <2>6. QED
    BY <1>2, <1>5a, <1>7, <2>5 DEF Embedded
<1>9. run'.completed = (Cardinality(Embedded(All, vector)))'
  <2>1. Embedded(All, vector) \cap waiting = {}
    BY <1>3, <1>5a
  <2>2. IsFiniteSet(waiting)
    BY <1>2, <1>5a, FS_Subset
  <2>3. Cardinality(Embedded(All, vector) \cup waiting)
          = Cardinality(Embedded(All, vector)) + Cardinality(waiting)
    BY <1>2, <2>1, <2>2, DisjointCount
  <2>4. QED
    BY <1>1, <1>3, <1>6, <1>8, <2>3 DEF CountOK
<1>10. run'.queue = (Queue(All))'
  <2>1. {r.digest : r \in All \ (Embedded(All, vector))'}
          = DOMAIN run.queue \ batch
    BY <1>3, <1>5a, <1>8
  <2>2. \A d \in DOMAIN run.queue : run.queue[d] = {r \in All : r.digest = d}
    BY <1>1, <1>3 DEF CountOK, Queue
  <2>3. QED
    BY <1>6, <1>7, <2>1, <2>2 DEF Queue, left
<1>11. QED
  BY <1>1, <1>6, <1>7, <1>9, <1>10 DEF CountOK, CountInv

LEMMA PrepareCounts == ASSUME IInv, CountInv, Prepare PROVE CountInv'
<1>1. /\ run # Idle /\ CandidateRun /\ run.pc = "embed"
      /\ run.package \in Package /\ CountOK
      /\ run.completed >= run.total
  BY DEF Prepare, Idle, IInv, RunInv, BeginRun, CountInv
<1>2. /\ IsFiniteSet(All) /\ Owners(All) = Eligible(Candidate)
      /\ Embedded(All, vector) \subseteq All
  BY <1>1, AllFacts
<1>3. Embedded(All, vector) = All
  <2>1. /\ Cardinality(All) \in Nat
        /\ Cardinality(Embedded(All, vector)) <= Cardinality(All)
        /\ Cardinality(Embedded(All, vector)) \in Nat
        /\ Cardinality(All) = Cardinality(Embedded(All, vector))
             => All = Embedded(All, vector)
    BY <1>2, FS_Subset, FS_CardinalityType
  <2>2. QED
    BY <1>1, <2>1 DEF CountOK
<1>4. run' = [run EXCEPT !.pc = "publish"]
  BY <1>1, <1>2, <1>3 DEF Prepare, CountOK, All
<1>5. /\ run'.pc = "publish" /\ run'.queue = run.queue
      /\ run'.total = run.total /\ run'.completed = run.completed
      /\ run'.package = run.package /\ run'.affected = run.affected
      /\ run'.found = run.found /\ run'.staged = run.staged
      /\ run'.rows = run.rows /\ run' # Idle
      /\ UNCHANGED <<message, chunk, vector, package>>
  BY <1>1, <1>4 DEF CandidateRun, Prepare, Idle
<1>6. All' = All
  BY <1>5, AllKept
<1>7. QED
  BY <1>1, <1>3, <1>5, <1>6 DEF CountOK, CountInv, Queue, Embedded

LEMMA PublishCounts == ASSUME IInv, CountInv, Publish PROVE CountInv'
<1>1. run # Idle /\ run.pc # "stage" /\ run.package \in Package /\ CountOK
      /\ Embedded(All, vector) = All
  BY DEF Publish, Idle, CountInv, CountOK
<1>2. /\ Fresh(Published, Candidate, Chunker) = All
      /\ Owners(All) = Eligible(Candidate)
  BY <1>1, AllFacts
<1>3. run' = Idle /\ package' = package
  BY <1>1, <1>2 DEF Publish, CountOK
<1>4. QED
  BY <1>3 DEF CountInv

LEMMA NextCounts ==
  ASSUME IInv, CountInv, [Next]_vars
  PROVE  CountInv'
<1>1. CASE Begin
  <2>1. run'.pc = "stage" /\ run'.package = package /\ package' = package
    BY <1>1 DEF Begin
  <2>2. QED
    BY <2>1 DEF CountInv
<1>2. CASE Abandon
  BY <1>2 DEF Abandon, CountInv
<1>3. CASE UNCHANGED <<message, chunk, vector, run>> /\ package' \in Package
  <2>1. All' = All
    BY <1>3, AllKept
  <2>2. QED
    BY <1>3, <2>1 DEF CountInv, CountOK, Queue, Embedded
<1>4. CASE Edit
  BY <1>3, <1>4 DEF Edit, CountInv
<1>5. CASE Upgrade
  BY <1>3, <1>5 DEF Upgrade, CountInv
<1>6. CASE UNCHANGED vars
  BY <1>3, <1>6 DEF vars, CountInv
<1>7. QED
  BY <1>1, <1>2, <1>4, <1>5, <1>6, StageCounts, EmbedCounts, PrepareCounts,
     PublishCounts DEF Next

(* A run that neither the model nor the database disappoints is never      *)
(* turned away by its own counts of messages, passages and vectors, not    *)
(* before it embeds, not after, and not by the publication                 *)
(* (prepare_candidate_semantics and _publish_coherent_candidate).          *)
THEOREM CountsNeverFail == Spec => []CountsAgree
<1>1. Init => CountInv
  BY PackageAssumption DEF Init, CountInv, Package
<1>2. IInv /\ CountInv /\ [Next]_vars => CountInv'
  BY NextCounts
<1>3. CountInv => CountsAgree
  BY DEF CountInv, CountOK, CountsAgree, Idle
<1>4. QED
  BY <1>1, <1>2, <1>3, InitInv, NextInv, PTL DEF Spec
=============================================================================
