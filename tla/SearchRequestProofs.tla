------------------------ MODULE SearchRequestProofs -------------------------
(* Proof that an answer is one corpus and that cutting off passages and    *)
(* pages loses no hit, for any requests, bounds and corpora and beside any *)
(* transactions.                                                           *)
EXTENDS SearchRequest, CoherenceGuardProofs, FiniteSetTheorems, TLAPS

(***************************************************************************)
(* A finite set in a strict total order, given as a set of pairs, and its  *)
(* list.                                                                   *)
(***************************************************************************)
Before(S, R, x) == {y \in S : <<y, x>> \in R}
After(S, R, x) == {y \in S : <<x, y>> \in R}

StrictOrder(S, R) ==
  \A x, y, z \in S :
    /\ <<x, x>> \notin R
    /\ x # y => <<x, y>> \in R \/ <<y, x>> \in R
    /\ <<x, y>> \in R /\ <<y, z>> \in R => <<x, z>> \in R

(* s lists S in the order R: its i-th element has i - 1 elements before it. *)
Lists(s, S, R) ==
  /\ s \in [1 .. Cardinality(S) -> S]
  /\ \A i \in 1 .. Cardinality(S) : Cardinality(Before(S, R, s[i])) = i - 1

LEMMA BeforeFacts ==
  ASSUME NEW S, NEW R, IsFiniteSet(S), StrictOrder(S, R), NEW x \in S
  PROVE  /\ IsFiniteSet(Before(S, R, x))
         /\ Cardinality(Before(S, R, x)) \in Nat
         /\ Cardinality(Before(S, R, x)) < Cardinality(S)
         /\ Cardinality(S) \in Nat
<1>1. Before(S, R, x) \subseteq S /\ x \notin Before(S, R, x)
  BY DEF Before, StrictOrder
<1>2. /\ IsFiniteSet(Before(S, R, x))
      /\ Cardinality(Before(S, R, x)) <= Cardinality(S)
      /\ Cardinality(S) = Cardinality(Before(S, R, x))
           => S = Before(S, R, x)
  BY <1>1, FS_Subset
<1>3. Cardinality(Before(S, R, x)) \in Nat /\ Cardinality(S) \in Nat
  BY <1>2, FS_CardinalityType
<1>4. QED
  BY <1>1, <1>2, <1>3

LEMMA BeforeOrder ==
  ASSUME NEW S, NEW R, IsFiniteSet(S), StrictOrder(S, R),
         NEW x \in S, NEW y \in S
  PROVE  /\ <<x, y>> \in R <=>
              Cardinality(Before(S, R, x)) < Cardinality(Before(S, R, y))
         /\ Cardinality(Before(S, R, x)) = Cardinality(Before(S, R, y))
              => x = y
<1>1. ASSUME NEW a \in S, NEW b \in S, <<a, b>> \in R
      PROVE  Cardinality(Before(S, R, a)) < Cardinality(Before(S, R, b))
  <2>1. Before(S, R, a) \subseteq Before(S, R, b)
    BY <1>1 DEF Before, StrictOrder
  <2>2. a \in Before(S, R, b) /\ a \notin Before(S, R, a)
    BY <1>1 DEF Before, StrictOrder
  <2>3. /\ Cardinality(Before(S, R, a)) <= Cardinality(Before(S, R, b))
        /\ Cardinality(Before(S, R, b)) = Cardinality(Before(S, R, a))
             => Before(S, R, b) = Before(S, R, a)
    BY <2>1, BeforeFacts, FS_Subset
  <2>4. /\ Cardinality(Before(S, R, a)) \in Nat
        /\ Cardinality(Before(S, R, b)) \in Nat
    BY BeforeFacts
  <2>5. QED
    BY <2>2, <2>3, <2>4
<1>2. /\ Cardinality(Before(S, R, x)) \in Nat
      /\ Cardinality(Before(S, R, y)) \in Nat
  BY BeforeFacts
<1>3. x = y \/ <<x, y>> \in R \/ <<y, x>> \in R
  BY DEF StrictOrder
<1>4. <<x, y>> \in R =>
        Cardinality(Before(S, R, x)) < Cardinality(Before(S, R, y))
  BY <1>1
<1>5. <<y, x>> \in R =>
        Cardinality(Before(S, R, y)) < Cardinality(Before(S, R, x))
  BY <1>1
<1>6. QED
  BY <1>2, <1>3, <1>4, <1>5

(* Every place of the list is taken.                                       *)
LEMMA PlaceIsTaken ==
  ASSUME NEW S, NEW R, IsFiniteSet(S), StrictOrder(S, R),
         NEW i \in 1 .. Cardinality(S)
  PROVE  \E x \in S : Cardinality(Before(S, R, x)) = i - 1
<1> DEFINE
  n == Cardinality(S)
  place == [x \in S |-> Cardinality(Before(S, R, x)) + 1]
<1>1. n \in Nat
  BY FS_CardinalityType
<1>2. \A x \in S : place[x] \in 1 .. n
  <2>1. TAKE x \in S
  <2>2. /\ Cardinality(Before(S, R, x)) \in Nat
        /\ Cardinality(Before(S, R, x)) < n
    BY BeforeFacts
  <2>3. QED
    BY <1>1, <2>2
<1>3. \A x, y \in S : place[x] = place[y] => x = y
  <2>1. TAKE x, y \in S
  <2>2. /\ Cardinality(Before(S, R, x)) \in Nat
        /\ Cardinality(Before(S, R, y)) \in Nat
    BY BeforeFacts
  <2>3. Cardinality(Before(S, R, x)) = Cardinality(Before(S, R, y)) => x = y
    BY BeforeOrder
  <2>4. QED
    BY <2>2, <2>3
<1>4. place \in Injection(S, 1 .. n)
  BY <1>2, <1>3 DEF Injection, IsInjective
<1>5. IsFiniteSet(1 .. n) /\ Cardinality(1 .. n) = n
  BY <1>1, FS_Interval
<1> HIDE DEF place
<1>6. place \in Surjection(S, 1 .. n)
  BY <1>4, <1>5, FS_Injection
<1>7. PICK x \in S : place[x] = i
  BY <1>6 DEF Surjection
<1>8. QED
  <2>1. Cardinality(Before(S, R, x)) \in Nat
    BY BeforeFacts
  <2>2. QED
    BY <1>7, <2>1 DEF place

LEMMA ListFacts ==
  ASSUME NEW S, NEW R, IsFiniteSet(S), StrictOrder(S, R),
         NEW s, Lists(s, S, R)
  PROVE  /\ s \in Seq(S) /\ Len(s) = Cardinality(S)
         /\ DOMAIN s = 1 .. Cardinality(S) /\ Cardinality(S) \in Nat
         /\ \A x \in S : \E i \in 1 .. Cardinality(S) : s[i] = x
         /\ \A i, j \in 1 .. Cardinality(S) :
              /\ <<s[i], s[j]>> \in R <=> i < j
              /\ s[i] = s[j] => i = j
<1> DEFINE n == Cardinality(S)
<1>1. n \in Nat
  BY FS_CardinalityType
<1>2. s \in [1 .. n -> S]
  BY DEF Lists
<1>3. s \in Seq(S) /\ Len(s) = n /\ DOMAIN s = 1 .. n
  BY <1>1, <1>2
<1>4. ASSUME NEW x \in S PROVE \E i \in 1 .. n : s[i] = x
  <2> DEFINE c == Cardinality(Before(S, R, x))
  <2>1. c \in Nat /\ c < n
    BY BeforeFacts
  <2>2. c + 1 \in 1 .. n
    BY <1>1, <2>1
  <2>3. Cardinality(Before(S, R, s[c + 1])) = c
    BY <2>1, <2>2 DEF Lists
  <2>4. s[c + 1] \in S
    BY <1>2, <2>2
  <2>5. s[c + 1] = x
    BY <2>3, <2>4, BeforeOrder
  <2>6. QED
    BY <2>2, <2>5
<1>5. ASSUME NEW i \in 1 .. n, NEW j \in 1 .. n
      PROVE  /\ <<s[i], s[j]>> \in R <=> i < j
             /\ s[i] = s[j] => i = j
  <2>1. s[i] \in S /\ s[j] \in S
    BY <1>2
  <2>2. /\ Cardinality(Before(S, R, s[i])) = i - 1
        /\ Cardinality(Before(S, R, s[j])) = j - 1
    BY DEF Lists
  <2>3. <<s[i], s[j]>> \in R <=> i - 1 < j - 1
    BY <2>1, <2>2, BeforeOrder
  <2>4. s[i] = s[j] => i - 1 = j - 1
    BY <2>2
  <2>5. QED
    BY <2>3, <2>4
<1>6. QED
  BY <1>1, <1>3, <1>4, <1>5

(* A list of the first elements of a set is the beginning of its list.     *)
LEMMA ListOfFirst ==
  ASSUME NEW S, NEW R, IsFiniteSet(S), StrictOrder(S, R),
         NEW s, Lists(s, S, R),
         NEW T \in SUBSET S, NEW Q, NEW t, Lists(t, T, Q),
         \A x, y \in T : <<x, y>> \in Q <=> <<x, y>> \in R,
         \A x \in T, y \in S : <<y, x>> \in R => y \in T
  PROVE  /\ Cardinality(T) <= Cardinality(S)
         /\ \A i \in 1 .. Cardinality(T) : t[i] = s[i]
<1>1. /\ IsFiniteSet(T) /\ Cardinality(T) <= Cardinality(S)
      /\ Cardinality(T) \in Nat /\ Cardinality(S) \in Nat
  BY FS_Subset, FS_CardinalityType
<1>2. \A x \in T : Before(T, Q, x) = Before(S, R, x)
  BY DEF Before
<1>3. ASSUME NEW i \in 1 .. Cardinality(T) PROVE t[i] = s[i]
  <2>1. t[i] \in T /\ i \in 1 .. Cardinality(S)
    BY <1>1 DEF Lists
  <2>2. Cardinality(Before(S, R, t[i])) = i - 1
    BY <1>2, <2>1 DEF Lists
  <2>3. s[i] \in S /\ Cardinality(Before(S, R, s[i])) = i - 1
    BY <2>1 DEF Lists
  <2>4. QED
    BY <2>1, <2>2, <2>3, BeforeOrder
<1>4. QED
  BY <1>1, <1>3

(* What comes after an element in the list.                                *)
LEMMA ListOfRest ==
  ASSUME NEW S, NEW R, IsFiniteSet(S), StrictOrder(S, R),
         NEW s, Lists(s, S, R), NEW e \in S,
         NEW Q, NEW t, Lists(t, After(S, R, e), Q),
         \A x, y \in After(S, R, e) : <<x, y>> \in Q <=> <<x, y>> \in R
  PROVE  LET k == Cardinality(Before(S, R, e)) + 1
         IN  /\ Cardinality(After(S, R, e)) = Cardinality(S) - k
             /\ \A i \in 1 .. Cardinality(After(S, R, e)) : t[i] = s[k + i]
<1> DEFINE
  T == After(S, R, e)
  first == {x \in S : <<e, x>> \notin R}
  k == Cardinality(Before(S, R, e)) + 1
<1>1. Cardinality(S) \in Nat
  BY FS_CardinalityType
<1>2. first = Before(S, R, e) \cup {e} /\ e \notin Before(S, R, e)
  BY DEF Before, StrictOrder
<1>3. Cardinality(Before(S, R, e)) = k - 1 /\ k \in Nat /\ k > 0
  <2>1. Cardinality(Before(S, R, e)) \in Nat
    BY BeforeFacts
  <2>2. QED
    BY <2>1
<1> HIDE DEF k
<1>4. Cardinality(first) = k /\ IsFiniteSet(first)
  <2>1. IsFiniteSet(Before(S, R, e))
    BY BeforeFacts
  <2> HIDE DEF first
  <2>2. IsFiniteSet(first) /\ Cardinality(first) = (k - 1) + 1
    BY <1>2, <1>3, <2>1, FS_AddElement
  <2>3. QED
    BY <1>3, <2>2
<1>5. ASSUME NEW U \in SUBSET S, first \subseteq U
      PROVE  /\ IsFiniteSet(U) /\ IsFiniteSet(U \ first)
             /\ Cardinality(U \ first) = Cardinality(U) - k
  <2>1. U \cap first = first
    BY <1>5
  <2>2. IsFiniteSet(U)
    BY FS_Subset
  <2> HIDE DEF first
  <2>3. /\ IsFiniteSet(U \ first)
        /\ Cardinality(U \ first)
             = Cardinality(U) - Cardinality(U \cap first)
    BY <2>2, FS_Difference
  <2>4. QED
    BY <1>4, <2>1, <2>2, <2>3
<1>6. T = S \ first
  BY DEF After
<1>7. Cardinality(T) = Cardinality(S) - k /\ IsFiniteSet(T)
  BY <1>5, <1>6
<1>8. ASSUME NEW i \in 1 .. Cardinality(T) PROVE t[i] = s[k + i]
  <2>1. t[i] \in T /\ t[i] \in S /\ <<e, t[i]>> \in R
    BY DEF Lists, After
  <2>2. Before(T, Q, t[i]) = Before(S, R, t[i]) \ first
    BY <2>1 DEF Before, After
  <2>3. first \subseteq Before(S, R, t[i])
    BY <1>1, <1>2, <2>1 DEF Before, StrictOrder
  <2>4. Before(S, R, t[i]) \subseteq S
    BY DEF Before
  <2>5. Cardinality(Before(T, Q, t[i]))
          = Cardinality(Before(S, R, t[i])) - k
    BY <1>5, <2>2, <2>3, <2>4
  <2>6. Cardinality(Before(T, Q, t[i])) = i - 1
    BY DEF Lists
  <2>7. Cardinality(Before(S, R, t[i])) \in Nat
    BY <2>1, BeforeFacts
  <2>8. k + i \in 1 .. Cardinality(S)
    BY <1>1, <1>3, <1>7
  <2>9. s[k + i] \in S /\ Cardinality(Before(S, R, s[k + i])) = (k + i) - 1
    BY <2>8 DEF Lists
  <2>10. Cardinality(Before(S, R, t[i])) = Cardinality(Before(S, R, s[k + i]))
    BY <1>3, <2>5, <2>6, <2>7, <2>9
  <2>11. QED
    BY <2>1, <2>9, <2>10, BeforeOrder
<1>9. QED
  BY <1>7, <1>8 DEF k

(***************************************************************************)
(* The orders of the search.                                               *)
(***************************************************************************)
PageRel(S) == {p \in S \X S : PageOrder(p[1], p[2])}
CandidateRel(S) == {p \in S \X S : CandidateOrder(p[1], p[2])}
BetterRel(S) == {p \in S \X S : Better(p[1], p[2])}
BestRel(best) ==
  {p \in (DOMAIN best) \X (DOMAIN best) : BetterOf(best, p[1], p[2])}
AheadRel(score) ==
  {p \in (DOMAIN score) \X (DOMAIN score) : AheadOf(score, p[1], p[2])}

ProseOf(rows) == {r \in rows : r.class = Prose}

LEMMA RowFields ==
  ASSUME NEW rows, RowsOfTable(rows), NEW r \in rows
  PROVE  /\ r.key \in Int /\ r.locator \in Int /\ r.class \in Int
         /\ r.rank \in Int /\ r.scores \in Seq(Int)
         /\ r.scores # <<>> => r.class = Prose
BY DEF RowsOfTable

LEMMA ProseKeys ==
  ASSUME NEW rows, RowsOfTable(rows),
         NEW r \in ProseOf(rows), NEW s \in ProseOf(rows), r # s
  PROVE  r.key # s.key /\ r.locator # s.locator
BY DEF RowsOfTable, ProseOf

LEMMA PageIsStrict ==
  ASSUME NEW rows, RowsOfTable(rows), NEW S \in SUBSET rows
  PROVE  IsFiniteSet(S) /\ StrictOrder(S, PageRel(S))
<1>1. IsFiniteSet(S)
  BY FS_Subset DEF RowsOfTable
<1>2. \A x \in S : x.key \in Int /\ x.locator \in Int /\ x.class \in Int
  BY RowFields
<1>3. \A x, y \in S : x.key = y.key /\ x.class = y.class => x = y
  BY DEF RowsOfTable
<1>4. ASSUME NEW x \in S, NEW y \in S, NEW z \in S
      PROVE  /\ ~ PageOrder(x, x)
             /\ x # y => PageOrder(x, y) \/ PageOrder(y, x)
             /\ PageOrder(x, y) /\ PageOrder(y, z) => PageOrder(x, z)
  BY <1>2, <1>3 DEF PageOrder
<1>5. QED
  BY <1>1, <1>4 DEF StrictOrder, PageRel

LEMMA BestIsStrict ==
  ASSUME NEW rows, RowsOfTable(rows), NEW best,
         DOMAIN best \subseteq ProseOf(rows),
         \A r \in DOMAIN best : best[r] \in Int
  PROVE  IsFiniteSet(DOMAIN best) /\ StrictOrder(DOMAIN best, BestRel(best))
<1> DEFINE S == DOMAIN best
<1>1. S \subseteq rows
  BY DEF ProseOf
<1>2. IsFiniteSet(S)
  BY <1>1, FS_Subset DEF RowsOfTable
<1>3. \A x \in S : x.key \in Int /\ best[x] \in Int
  BY <1>1, RowFields
<1>4. \A x, y \in S : x # y => x.key # y.key
  BY ProseKeys
<1>5. ASSUME NEW x \in S, NEW y \in S, NEW z \in S
      PROVE  /\ ~ BetterOf(best, x, x)
             /\ x # y => BetterOf(best, x, y) \/ BetterOf(best, y, x)
             /\ BetterOf(best, x, y) /\ BetterOf(best, y, z)
                  => BetterOf(best, x, z)
  BY <1>3, <1>4 DEF BetterOf
<1>6. QED
  BY <1>2, <1>5 DEF StrictOrder, BestRel

(* Fractions with positive denominators.                                   *)
LEMMA Fractions ==
  ASSUME NEW a \in Nat, NEW b \in Nat, NEW c \in Nat,
         NEW u \in Nat, NEW v \in Nat, NEW w \in Nat, u > 0, v > 0, w > 0
  PROVE  /\ a * v > b * u /\ b * w >= c * v => a * w > c * u
         /\ a * v >= b * u /\ b * w > c * v => a * w > c * u
         /\ a * v = b * u /\ b * w = c * v => a * w = c * u
<1>1. \A x, y \in Int, k \in Nat : k > 0 =>
        /\ x > y <=> x * k > y * k
        /\ x >= y <=> x * k >= y * k
        /\ x = y <=> x * k = y * k
  OBVIOUS
<1>2. /\ a * v \in Int /\ b * u \in Int /\ b * w \in Int
      /\ c * v \in Int /\ a * w \in Int /\ c * u \in Int
  OBVIOUS
<1>3. /\ (a * v) * w = (a * w) * v
      /\ (b * u) * w = (b * w) * u
      /\ (c * v) * u = (c * u) * v
  OBVIOUS
<1>4. /\ a * v > b * u <=> (a * v) * w > (b * u) * w
      /\ a * v >= b * u <=> (a * v) * w >= (b * u) * w
      /\ a * v = b * u <=> (a * v) * w = (b * u) * w
  BY <1>1, <1>2
<1>5. /\ b * w > c * v <=> (b * w) * u > (c * v) * u
      /\ b * w >= c * v <=> (b * w) * u >= (c * v) * u
      /\ b * w = c * v <=> (b * w) * u = (c * v) * u
  BY <1>1, <1>2
<1>6. /\ a * w > c * u <=> (a * w) * v > (c * u) * v
      /\ a * w = c * u <=> (a * w) * v = (c * u) * v
  BY <1>1, <1>2
<1> DEFINE
  x == (a * w) * v
  y == (b * w) * u
  z == (c * u) * v
<1>7. x \in Int /\ y \in Int /\ z \in Int
  OBVIOUS
<1> HIDE DEF x, y, z
<1>8. /\ a * v > b * u <=> x > y
      /\ a * v >= b * u <=> x >= y
      /\ a * v = b * u <=> x = y
  BY <1>3, <1>4 DEF x, y
<1>9. /\ b * w > c * v <=> y > z
      /\ b * w >= c * v <=> y >= z
      /\ b * w = c * v <=> y = z
  BY <1>3, <1>5 DEF y, z
<1>10. /\ a * w > c * u <=> x > z
       /\ a * w = c * u <=> x = z
  BY <1>6 DEF x, z
<1>11. QED
  BY <1>7, <1>8, <1>9, <1>10

LEMMA AheadIsStrict ==
  ASSUME NEW rows, RowsOfTable(rows), NEW score,
         DOMAIN score \subseteq ProseOf(rows),
         \A r \in DOMAIN score :
           score[r].over \in Nat /\ score[r].under \in Nat \ {0}
  PROVE  IsFiniteSet(DOMAIN score)
         /\ StrictOrder(DOMAIN score, AheadRel(score))
<1> DEFINE S == DOMAIN score
<1>1. S \subseteq rows
  BY DEF ProseOf
<1>2. IsFiniteSet(S)
  BY <1>1, FS_Subset DEF RowsOfTable
<1>3. \A x \in S : x.locator \in Int
  BY <1>1, RowFields
<1>4. \A x, y \in S : x # y => x.locator # y.locator
  BY ProseKeys
<1>5. ASSUME NEW x \in S, NEW y \in S, NEW z \in S
      PROVE  /\ ~ AheadOf(score, x, x)
             /\ x # y => AheadOf(score, x, y) \/ AheadOf(score, y, x)
             /\ AheadOf(score, x, y) /\ AheadOf(score, y, z)
                  => AheadOf(score, x, z)
  <2> DEFINE
    nx == score[x].over
    ny == score[y].over
    nz == score[z].over
    dx == score[x].under
    dy == score[y].under
    dz == score[z].under
  <2>1. /\ nx \in Nat /\ ny \in Nat /\ nz \in Nat
        /\ dx \in Nat /\ dy \in Nat /\ dz \in Nat
        /\ dx > 0 /\ dy > 0 /\ dz > 0
    OBVIOUS
  <2>2. /\ AheadOf(score, x, x)
             <=> nx * dx > nx * dx
                 \/ (nx * dx = nx * dx /\ x.locator < x.locator)
        /\ AheadOf(score, x, y)
             <=> nx * dy > ny * dx
                 \/ (nx * dy = ny * dx /\ x.locator < y.locator)
        /\ AheadOf(score, y, x)
             <=> ny * dx > nx * dy
                 \/ (ny * dx = nx * dy /\ y.locator < x.locator)
        /\ AheadOf(score, y, z)
             <=> ny * dz > nz * dy
                 \/ (ny * dz = nz * dy /\ y.locator < z.locator)
        /\ AheadOf(score, x, z)
             <=> nx * dz > nz * dx
                 \/ (nx * dz = nz * dx /\ x.locator < z.locator)
    BY DEF AheadOf
  <2> HIDE DEF nx, ny, nz, dx, dy, dz
  <2>3. /\ nx * dy > ny * dx /\ ny * dz >= nz * dy => nx * dz > nz * dx
        /\ nx * dy >= ny * dx /\ ny * dz > nz * dy => nx * dz > nz * dx
        /\ nx * dy = ny * dx /\ ny * dz = nz * dy => nx * dz = nz * dx
    BY <2>1, Fractions
  <2> DEFINE
    xx == nx * dx
    xy == nx * dy
    yx == ny * dx
    yz == ny * dz
    zy == nz * dy
    xz == nx * dz
    zx == nz * dx
  <2>4. /\ xx \in Int /\ xy \in Int /\ yx \in Int /\ yz \in Int
        /\ zy \in Int /\ xz \in Int /\ zx \in Int
    BY <2>1
  <2>5. /\ xy > yx /\ yz >= zy => xz > zx
        /\ xy >= yx /\ yz > zy => xz > zx
        /\ xy = yx /\ yz = zy => xz = zx
    BY <2>3
  <2>6. /\ AheadOf(score, x, x)
             <=> xx > xx \/ (xx = xx /\ x.locator < x.locator)
        /\ AheadOf(score, x, y)
             <=> xy > yx \/ (xy = yx /\ x.locator < y.locator)
        /\ AheadOf(score, y, x)
             <=> yx > xy \/ (yx = xy /\ y.locator < x.locator)
        /\ AheadOf(score, y, z)
             <=> yz > zy \/ (yz = zy /\ y.locator < z.locator)
        /\ AheadOf(score, x, z)
             <=> xz > zx \/ (xz = zx /\ x.locator < z.locator)
    BY <2>2
  <2> HIDE DEF xx, xy, yx, yz, zy, xz, zx
  <2>7. QED
    BY <1>3, <1>4, <2>4, <2>5, <2>6
<1>6. QED
  BY <1>2, <1>5 DEF StrictOrder, AheadRel

LEMMA PassageForm ==
  ASSUME NEW rows, NEW c
  PROVE  c \in Passages(rows) <=>
           \E r \in rows : \E i \in DOMAIN r.scores :
             c = [row |-> r, ordinal |-> i, score |-> r.scores[i]]
BY DEF Passages

LEMMA PassageFields ==
  ASSUME NEW rows, RowsOfTable(rows), NEW c \in Passages(rows)
  PROVE  /\ c.row \in ProseOf(rows) /\ c.row.scores # <<>>
         /\ c.ordinal \in DOMAIN c.row.scores /\ c.ordinal \in Int
         /\ c.score = c.row.scores[c.ordinal] /\ c.score \in Int
<1>1. PICK r \in rows : \E i \in DOMAIN r.scores :
        c = [row |-> r, ordinal |-> i, score |-> r.scores[i]]
  BY PassageForm
<1>2. PICK i \in DOMAIN r.scores :
        c = [row |-> r, ordinal |-> i, score |-> r.scores[i]]
  BY <1>1
<1>3. r.scores \in Seq(Int) /\ r.scores # <<>>
  BY <1>2, RowFields
<1>4. r \in ProseOf(rows)
  BY <1>3, RowFields DEF ProseOf
<1>5. i \in Int /\ r.scores[i] \in Int
  BY <1>3
<1>6. QED
  BY <1>2, <1>3, <1>4, <1>5

LEMMA PassagesAreFinite ==
  ASSUME NEW rows, RowsOfTable(rows)
  PROVE  IsFiniteSet(Passages(rows))
<1> DEFINE
  of(r) == {[row |-> r, ordinal |-> i, score |-> r.scores[i]] :
              i \in DOMAIN r.scores}
  all == {of(r) : r \in rows}
  f == [r \in rows |-> of(r)]
<1>1. ASSUME NEW r \in rows PROVE IsFiniteSet(of(r))
  <2> DEFINE g == [i \in DOMAIN r.scores |->
                     [row |-> r, ordinal |-> i, score |-> r.scores[i]]]
  <2>1. r.scores \in Seq(Int)
    BY RowFields
  <2>2. DOMAIN r.scores = 1 .. Len(r.scores) /\ Len(r.scores) \in Nat
    BY <2>1
  <2>3. IsFiniteSet(DOMAIN r.scores)
    BY <2>2, FS_Interval
  <2>4. g \in Surjection(DOMAIN r.scores, of(r))
    BY DEF Surjection
  <2> HIDE DEF g, of
  <2>5. QED
    BY <2>3, <2>4, FS_Surjection
<1> HIDE DEF of
<1>2. IsFiniteSet(rows)
  BY DEF RowsOfTable
<1>3. f \in Surjection(rows, all)
  BY DEF Surjection
<1> HIDE DEF f
<1>4. IsFiniteSet(all)
  BY <1>2, <1>3, FS_Surjection
<1>5. \A T \in all : IsFiniteSet(T)
  BY <1>1
<1>6. Passages(rows) = UNION all
  BY DEF Passages, of
<1> HIDE DEF all
<1>7. QED
  BY <1>4, <1>5, <1>6, FS_UNION

LEMMA CandidateIsStrict ==
  ASSUME NEW rows, RowsOfTable(rows), NEW S \in SUBSET Passages(rows)
  PROVE  IsFiniteSet(S) /\ StrictOrder(S, CandidateRel(S))
<1>1. IsFiniteSet(S)
  BY PassagesAreFinite, FS_Subset
<1>2. \A x \in S : /\ x.score \in Int /\ x.ordinal \in Int
                   /\ x.row \in ProseOf(rows) /\ x.row.key \in Int
  <2>1. TAKE x \in S
  <2>2. x \in Passages(rows)
    OBVIOUS
  <2>3. x.row \in rows
    BY <2>2, PassageFields DEF ProseOf
  <2>4. QED
    BY <2>2, <2>3, PassageFields, RowFields
<1>3. ASSUME NEW x \in S, NEW y \in S, x # y
      PROVE  x.row.key # y.row.key \/ x.ordinal # y.ordinal
  <2>1. x \in Passages(rows) /\ y \in Passages(rows)
    OBVIOUS
  <2>2. /\ x = [row |-> x.row, ordinal |-> x.ordinal,
                 score |-> x.row.scores[x.ordinal]]
        /\ y = [row |-> y.row, ordinal |-> y.ordinal,
                 score |-> y.row.scores[y.ordinal]]
    BY <2>1, PassageForm
  <2>3. x.row # y.row \/ x.ordinal # y.ordinal
    BY <1>3, <2>2
  <2>4. QED
    BY <1>2, <2>3, ProseKeys
<1>4. ASSUME NEW x \in S, NEW y \in S, NEW z \in S
      PROVE  /\ ~ CandidateOrder(x, x)
             /\ x # y => CandidateOrder(x, y) \/ CandidateOrder(y, x)
             /\ CandidateOrder(x, y) /\ CandidateOrder(y, z)
                  => CandidateOrder(x, z)
  BY <1>2, <1>3 DEF CandidateOrder
<1>5. QED
  BY <1>1, <1>4 DEF StrictOrder, CandidateRel

(* Sorted takes an operator, so this is said of each order.                *)
LEMMA PagesAreLists ==
  ASSUME NEW rows, RowsOfTable(rows), NEW set \in SUBSET rows
  PROVE  Lists(Sorted(set, PageOrder), set, PageRel(set))
<1> DEFINE
  S == set
  R == PageRel(set)
  at(i) ==
    CHOOSE x \in S : Cardinality({y \in S : PageOrder(y, x)}) = i - 1
<1>1. \A x \in S : {y \in S : PageOrder(y, x)} = Before(S, R, x)
  BY DEF Before, PageRel
<1>2. Sorted(S, PageOrder) = [i \in 1 .. Cardinality(S) |-> at(i)]
  BY DEF Sorted
<1>3. IsFiniteSet(S) /\ StrictOrder(S, R)
  BY PageIsStrict
<1>4. ASSUME NEW i \in 1 .. Cardinality(S)
      PROVE  at(i) \in S /\ Cardinality(Before(S, R, at(i))) = i - 1
  <2> HIDE DEF S, R
  <2>1. \E x \in S : Cardinality({y \in S : PageOrder(y, x)}) = i - 1
    BY <1>1, <1>3, PlaceIsTaken
  <2>2. at(i) \in S
        /\ Cardinality({y \in S : PageOrder(y, at(i))}) = i - 1
    BY <2>1
  <2> HIDE DEF at
  <2>3. QED
    BY <1>1, <2>2
<1> HIDE DEF at, R, S
<1>5. Lists(Sorted(S, PageOrder), S, R)
  BY <1>2, <1>4 DEF Lists
<1>6. QED
  BY <1>5 DEF R, S

LEMMA CandidatesAreLists ==
  ASSUME NEW rows, RowsOfTable(rows), NEW set \in SUBSET Passages(rows)
  PROVE  Lists(Sorted(set, CandidateOrder), set, CandidateRel(set))
<1> DEFINE
  S == set
  R == CandidateRel(set)
  at(i) ==
    CHOOSE x \in S : Cardinality({y \in S : CandidateOrder(y, x)}) = i - 1
<1>1. \A x \in S : {y \in S : CandidateOrder(y, x)} = Before(S, R, x)
  BY DEF Before, CandidateRel
<1>2. Sorted(S, CandidateOrder) = [i \in 1 .. Cardinality(S) |-> at(i)]
  BY DEF Sorted
<1>3. IsFiniteSet(S) /\ StrictOrder(S, R)
  BY CandidateIsStrict
<1>4. ASSUME NEW i \in 1 .. Cardinality(S)
      PROVE  at(i) \in S /\ Cardinality(Before(S, R, at(i))) = i - 1
  <2> HIDE DEF S, R
  <2>1. \E x \in S : Cardinality({y \in S : CandidateOrder(y, x)}) = i - 1
    BY <1>1, <1>3, PlaceIsTaken
  <2>2. at(i) \in S
        /\ Cardinality({y \in S : CandidateOrder(y, at(i))}) = i - 1
    BY <2>1
  <2> HIDE DEF at
  <2>3. QED
    BY <1>1, <2>2
<1> HIDE DEF at, R, S
<1>5. Lists(Sorted(S, CandidateOrder), S, R)
  BY <1>2, <1>4 DEF Lists
<1>6. QED
  BY <1>5 DEF R, S

LEMMA BestAreLists ==
  ASSUME NEW rows, RowsOfTable(rows), NEW best,
         DOMAIN best \subseteq ProseOf(rows),
         \A r \in DOMAIN best : best[r] \in Int
  PROVE  Lists(Sorted(DOMAIN best, LAMBDA r, q : BetterOf(best, r, q)),
               DOMAIN best, BestRel(best))
<1> DEFINE
  S == DOMAIN best
  R == BestRel(best)
  at(i) ==
    CHOOSE x \in S : Cardinality({y \in S : BetterOf(best, y, x)}) = i - 1
<1>1. \A x \in S : {y \in S : BetterOf(best, y, x)} = Before(S, R, x)
  BY DEF Before, BestRel
<1>2. Sorted(S, LAMBDA r, q : BetterOf(best, r, q))
        = [i \in 1 .. Cardinality(S) |-> at(i)]
  BY DEF Sorted
<1>3. IsFiniteSet(S) /\ StrictOrder(S, R)
  BY BestIsStrict
<1>4. ASSUME NEW i \in 1 .. Cardinality(S)
      PROVE  at(i) \in S /\ Cardinality(Before(S, R, at(i))) = i - 1
  <2> HIDE DEF S, R
  <2>1. \E x \in S : Cardinality({y \in S : BetterOf(best, y, x)}) = i - 1
    BY <1>1, <1>3, PlaceIsTaken
  <2>2. at(i) \in S
        /\ Cardinality({y \in S : BetterOf(best, y, at(i))}) = i - 1
    BY <2>1
  <2> HIDE DEF at
  <2>3. QED
    BY <1>1, <2>2
<1> HIDE DEF at, R, S
<1>5. Lists(Sorted(S, LAMBDA r, q : BetterOf(best, r, q)), S, R)
  BY <1>2, <1>4 DEF Lists
<1>6. QED
  BY <1>5 DEF R, S

LEMMA AheadAreLists ==
  ASSUME NEW rows, RowsOfTable(rows), NEW score,
         DOMAIN score \subseteq ProseOf(rows),
         \A r \in DOMAIN score :
           score[r].over \in Nat /\ score[r].under \in Nat \ {0}
  PROVE  Lists(Sorted(DOMAIN score, LAMBDA r, q : AheadOf(score, r, q)),
               DOMAIN score, AheadRel(score))
<1> DEFINE
  S == DOMAIN score
  R == AheadRel(score)
  at(i) ==
    CHOOSE x \in S : Cardinality({y \in S : AheadOf(score, y, x)}) = i - 1
<1>1. \A x \in S : {y \in S : AheadOf(score, y, x)} = Before(S, R, x)
  BY DEF Before, AheadRel
<1>2. Sorted(S, LAMBDA r, q : AheadOf(score, r, q))
        = [i \in 1 .. Cardinality(S) |-> at(i)]
  BY DEF Sorted
<1>3. IsFiniteSet(S) /\ StrictOrder(S, R)
  BY AheadIsStrict
<1>4. ASSUME NEW i \in 1 .. Cardinality(S)
      PROVE  at(i) \in S /\ Cardinality(Before(S, R, at(i))) = i - 1
  <2> HIDE DEF S, R
  <2>1. \E x \in S : Cardinality({y \in S : AheadOf(score, y, x)}) = i - 1
    BY <1>1, <1>3, PlaceIsTaken
  <2>2. at(i) \in S
        /\ Cardinality({y \in S : AheadOf(score, y, at(i))}) = i - 1
    BY <2>1
  <2> HIDE DEF at
  <2>3. QED
    BY <1>1, <2>2
<1> HIDE DEF at, R, S
<1>5. Lists(Sorted(S, LAMBDA r, q : AheadOf(score, r, q)), S, R)
  BY <1>2, <1>4 DEF Lists
<1>6. QED
  BY <1>5 DEF R, S

(***************************************************************************)
(* The best messages.                                                      *)
(***************************************************************************)
LEMMA TopFacts ==
  ASSUME NEW S, NEW s \in Seq(S), NEW n \in Nat
  PROVE  /\ Top(s, n) \in Seq(S)
         /\ Len(Top(s, n)) = IF Len(s) < n THEN Len(s) ELSE n
         /\ \A i \in 1 .. Len(Top(s, n)) : Top(s, n)[i] = s[i]
<1> DEFINE m == IF Len(s) < n THEN Len(s) ELSE n
<1>1. m \in Nat /\ m <= Len(s)
  OBVIOUS
<1>2. Top(s, n) = SubSeq(s, 1, m)
  BY DEF Top
<1> HIDE DEF m
<1>3. /\ SubSeq(s, 1, m) \in Seq(S) /\ Len(SubSeq(s, 1, m)) = m
      /\ \A i \in 1 .. m : SubSeq(s, 1, m)[i] = s[i]
  BY <1>1
<1>4. QED
  BY <1>2, <1>3 DEF m

LEMMA ToSetFacts ==
  ASSUME NEW S, NEW s \in Seq(S)
  PROVE  /\ ToSet(s) \subseteq S
         /\ \A x : x \in ToSet(s) <=> \E i \in 1 .. Len(s) : s[i] = x
BY DEF ToSet

(* The maximum of a finite set of integers.                                *)
LEMMA MaxFacts ==
  ASSUME NEW S \in SUBSET Int, IsFiniteSet(S), S # {}
  PROVE  Max(S) \in S /\ \A x \in S : Max(S) >= x
<1> DEFINE R == {p \in S \X S : p[1] > p[2]}
<1>1. StrictOrder(S, R)
  BY DEF StrictOrder
<1>2. Cardinality(S) \in Nat /\ Cardinality(S) # 0
  BY FS_CardinalityType, FS_EmptySet
<1>3. 1 \in 1 .. Cardinality(S)
  BY <1>2
<1> HIDE DEF R
<1>4. PICK m \in S : Cardinality(Before(S, R, m)) = 0
  <2>1. \E x \in S : Cardinality(Before(S, R, x)) = 1 - 1
    BY <1>1, <1>3, PlaceIsTaken
  <2>2. QED
    BY <2>1
<1>5. Before(S, R, m) = {}
  <2>1. IsFiniteSet(Before(S, R, m))
    BY <1>1, BeforeFacts
  <2>2. QED
    BY <1>4, <2>1, FS_EmptySet
<1>6. \A x \in S : m >= x
  <2>1. \A x \in S : <<x, m>> \notin R
    BY <1>5 DEF Before
  <2>2. \A x \in S : ~ (x > m)
    BY <2>1 DEF R
  <2>3. QED
    BY <2>2
<1>7. QED
  BY <1>6 DEF Max

(* The best passage of an embedded row.                                    *)
LEMMA BestFacts ==
  ASSUME NEW rows, RowsOfTable(rows), NEW r \in Embedded(rows)
  PROVE  /\ Best(r) \in Int
         /\ \A i \in DOMAIN r.scores : r.scores[i] <= Best(r)
         /\ \E i \in DOMAIN r.scores : r.scores[i] = Best(r)
<1>1. r \in rows /\ r.scores # <<>> /\ r.scores \in Seq(Int)
  BY RowFields DEF Embedded
<1>2. /\ DOMAIN r.scores = 1 .. Len(r.scores) /\ Len(r.scores) \in Nat
      /\ Len(r.scores) # 0
  BY <1>1
<1> DEFINE S == ToSet(r.scores)
<1>3. S \subseteq Int
        /\ \A x : x \in S <=> \E i \in 1 .. Len(r.scores) : r.scores[i] = x
  BY <1>1, ToSetFacts
<1>4. S # {}
  <2>1. 1 \in 1 .. Len(r.scores)
    BY <1>2
  <2>2. QED
    BY <1>3, <2>1
<1>5. IsFiniteSet(S)
  <2> DEFINE n == Len(r.scores)
  <2>1. n \in Nat /\ DOMAIN r.scores = 1 .. n
    BY <1>2
  <2> HIDE DEF S
  <2>2. r.scores \in Surjection(1 .. n, S)
    BY <1>1, <1>3, <2>1 DEF Surjection
  <2> HIDE DEF n
  <2>3. IsFiniteSet(1 .. n)
    BY <2>1, FS_Interval
  <2>4. QED
    BY <2>2, <2>3, FS_Surjection
<1>6. Max(S) \in S /\ \A x \in S : Max(S) >= x
  BY <1>3, <1>4, <1>5, MaxFacts
<1>7. Best(r) = Max(S)
  BY DEF Best
<1> HIDE DEF S
<1>8. QED
  BY <1>2, <1>3, <1>6, <1>7

LEMMA BetterIsStrict ==
  ASSUME NEW rows, RowsOfTable(rows), NEW S \in SUBSET Embedded(rows)
  PROVE  IsFiniteSet(S) /\ StrictOrder(S, BetterRel(S))
<1>1. S \subseteq rows
  BY DEF Embedded
<1>2. IsFiniteSet(S)
  BY <1>1, FS_Subset DEF RowsOfTable
<1>3. \A x \in S : x.key \in Int /\ Best(x) \in Int
  BY <1>1, RowFields, BestFacts
<1>4. \A x, y \in S : x # y => x.key # y.key
  <2>1. S \subseteq ProseOf(rows)
    BY RowFields DEF Embedded, ProseOf
  <2>2. QED
    BY <2>1, ProseKeys
<1>5. ASSUME NEW x \in S, NEW y \in S, NEW z \in S
      PROVE  /\ ~ Better(x, x)
             /\ x # y => Better(x, y) \/ Better(y, x)
             /\ Better(x, y) /\ Better(y, z) => Better(x, z)
  BY <1>3, <1>4 DEF Better
<1>6. QED
  BY <1>2, <1>5 DEF StrictOrder, BetterRel

LEMMA BetterAreLists ==
  ASSUME NEW rows, RowsOfTable(rows), NEW set \in SUBSET Embedded(rows)
  PROVE  Lists(Sorted(set, Better), set, BetterRel(set))
<1> DEFINE
  R == BetterRel(set)
  at(i) ==
    CHOOSE x \in set : Cardinality({y \in set : Better(y, x)}) = i - 1
<1>1. \A x \in set : {y \in set : Better(y, x)} = Before(set, R, x)
  BY DEF Before, BetterRel
<1>2. Sorted(set, Better) = [i \in 1 .. Cardinality(set) |-> at(i)]
  BY DEF Sorted
<1>3. IsFiniteSet(set) /\ StrictOrder(set, R)
  BY BetterIsStrict
<1>4. ASSUME NEW i \in 1 .. Cardinality(set)
      PROVE  at(i) \in set /\ Cardinality(Before(set, R, at(i))) = i - 1
  <2> HIDE DEF R
  <2>1. \E x \in set : Cardinality({y \in set : Better(y, x)}) = i - 1
    BY <1>1, <1>3, PlaceIsTaken
  <2>2. /\ at(i) \in set
        /\ Cardinality({y \in set : Better(y, at(i))}) = i - 1
    BY <2>1
  <2> HIDE DEF at
  <2>3. QED
    BY <1>1, <2>2
<1> HIDE DEF at, R
<1>5. Lists(Sorted(set, Better), set, R)
  BY <1>2, <1>4 DEF Lists
<1>6. QED
  BY <1>5 DEF R

(* What the database cuts off from the passages: the first of them, and    *)
(* all when there are not more than the bound.                             *)
LEMMA CandidateFacts ==
  ASSUME NEW rows, RowsOfTable(rows), NEW bound \in Nat
  PROVE  LET P == Passages(rows)
             C == ToSet(Candidates(P, bound))
             n == Len(Candidates(P, bound))
         IN  /\ C \subseteq P
             /\ \A c \in C, d \in P : CandidateOrder(d, c) => d \in C
             /\ Cardinality(P) \in Nat
             /\ n = IF Cardinality(P) < bound THEN Cardinality(P) ELSE bound
             /\ Cardinality(P) <= bound => C = P
<1> DEFINE
  P == Passages(rows)
  R == CandidateRel(P)
  s == Sorted(P, CandidateOrder)
  t == Candidates(P, bound)
<1>1. IsFiniteSet(P) /\ StrictOrder(P, R) /\ Lists(s, P, R)
  BY CandidateIsStrict, CandidatesAreLists
<1>2. \A x, y \in P : <<x, y>> \in R <=> CandidateOrder(x, y)
  BY DEF CandidateRel
<1>3. t = Top(s, bound)
  BY DEF Candidates
<1> HIDE DEF P, R, s, t
<1>4. /\ s \in Seq(P) /\ Len(s) = Cardinality(P) /\ Cardinality(P) \in Nat
      /\ \A x \in P : \E i \in 1 .. Cardinality(P) : s[i] = x
      /\ \A i, j \in 1 .. Cardinality(P) : <<s[i], s[j]>> \in R <=> i < j
  BY <1>1, ListFacts
<1>5. /\ t \in Seq(P)
      /\ Len(t) = IF Cardinality(P) < bound THEN Cardinality(P) ELSE bound
      /\ \A i \in 1 .. Len(t) : t[i] = s[i]
  BY <1>3, <1>4, TopFacts
<1>6. /\ ToSet(t) \subseteq P
      /\ \A x : x \in ToSet(t) <=> \E i \in 1 .. Len(t) : t[i] = x
  BY <1>5, ToSetFacts
<1>7. \A i \in 1 .. Len(t) : i \in 1 .. Cardinality(P)
  BY <1>4, <1>5
<1>8. ASSUME NEW c \in ToSet(t), NEW d \in P, CandidateOrder(d, c)
      PROVE  d \in ToSet(t)
  <2>1. PICK i \in 1 .. Len(t) : t[i] = c
    BY <1>6
  <2>2. PICK j \in 1 .. Cardinality(P) : s[j] = d
    BY <1>4
  <2>3. s[i] = c /\ i \in 1 .. Cardinality(P)
    BY <1>5, <1>7, <2>1
  <2>4. <<s[j], s[i]>> \in R
    BY <1>2, <1>6, <1>8, <2>2, <2>3
  <2>5. j < i
    BY <1>4, <2>2, <2>3, <2>4
  <2>6. j \in 1 .. Len(t)
    BY <1>4, <1>5, <2>1, <2>2, <2>5
  <2>7. QED
    BY <1>5, <1>6, <2>2, <2>6
<1>9. ASSUME Cardinality(P) <= bound PROVE P \subseteq ToSet(t)
  <2>1. Len(t) = Cardinality(P)
    BY <1>4, <1>5, <1>9
  <2>2. QED
    BY <1>4, <1>5, <1>6, <2>1
<1>10. QED
  <2>1. /\ ToSet(t) \subseteq P
        /\ \A c \in ToSet(t), d \in P : CandidateOrder(d, c) => d \in ToSet(t)
        /\ Cardinality(P) \in Nat
        /\ Len(t) = IF Cardinality(P) < bound THEN Cardinality(P) ELSE bound
        /\ Cardinality(P) <= bound => ToSet(t) = P
    BY <1>4, <1>5, <1>6, <1>8, <1>9
  <2>2. QED
    BY <2>1 DEF P, t

(* Cutting off passages keeps the best messages, with their best scores.   *)
LEMMA AmongFacts ==
  ASSUME NEW rows, RowsOfTable(rows), NEW C \in SUBSET Passages(rows),
         \A c \in C, d \in Passages(rows) : CandidateOrder(d, c) => d \in C
  PROVE  LET best == BestAmong(C)
         IN  /\ DOMAIN best \subseteq Embedded(rows)
             /\ \A r \in DOMAIN best : best[r] = Best(r)
             /\ \A r \in DOMAIN best, q \in Embedded(rows) :
                  Better(q, r) => q \in DOMAIN best
             /\ C = Passages(rows) => DOMAIN best = Embedded(rows)
<1> DEFINE
  D == {c.row : c \in C}
  of(r) == {c.score : c \in {d \in C : d.row = r}}
<1>1. BestAmong(C) = [r \in D |-> Max(of(r))]
  BY DEF BestAmong
<1>2. ASSUME NEW c \in C
      PROVE  /\ c \in Passages(rows) /\ c.row \in Embedded(rows)
             /\ c.row \in rows /\ c.row.key \in Int
             /\ c.score <= Best(c.row) /\ c.score \in Int
  <2>1. c \in Passages(rows)
    OBVIOUS
  <2>2. /\ c.row \in ProseOf(rows) /\ c.row.scores # <<>>
        /\ c.ordinal \in DOMAIN c.row.scores
        /\ c.score = c.row.scores[c.ordinal] /\ c.score \in Int
    BY <2>1, PassageFields
  <2>3. c.row \in Embedded(rows) /\ c.row \in rows
    BY <2>2 DEF Embedded, ProseOf
  <2>4. c.score <= Best(c.row)
    BY <2>2, <2>3, BestFacts
  <2>5. QED
    BY <2>1, <2>2, <2>3, <2>4, RowFields
<1>3. ASSUME NEW q \in Embedded(rows)
      PROVE  \E d \in Passages(rows) : d.row = q /\ d.score = Best(q)
  <2>1. q \in rows
    BY DEF Embedded
  <2>2. PICK i \in DOMAIN q.scores : q.scores[i] = Best(q)
    BY BestFacts
  <2>3. [row |-> q, ordinal |-> i, score |-> q.scores[i]] \in Passages(rows)
    BY <2>1, PassageForm
  <2>4. QED
    BY <2>2, <2>3
<1>4. ASSUME NEW r \in D
      PROVE  r \in Embedded(rows) /\ Max(of(r)) = Best(r)
  <2>1. PICK c \in C : c.row = r
    OBVIOUS
  <2>2. r \in Embedded(rows) /\ r.key \in Int /\ Best(r) \in Int
    BY <1>2, <2>1, BestFacts
  <2>3. PICK d \in Passages(rows) : d.row = r /\ d.score = Best(r)
    BY <1>3, <2>2
  <2>4. \E e \in C : e.row = r /\ e.score = Best(r)
    <3>1. CASE d.score > c.score
      <4>1. CandidateOrder(d, c)
        BY <3>1 DEF CandidateOrder
      <4>2. QED
        BY <2>3, <4>1
    <3>2. CASE ~ (d.score > c.score)
      <4>1. c.score <= Best(r) /\ c.score \in Int
        BY <1>2, <2>1
      <4>2. c.score = Best(r)
        BY <2>2, <2>3, <3>2, <4>1
      <4>3. QED
        BY <2>1, <4>2
    <3>3. QED
      BY <3>1, <3>2
  <2>5. Best(r) \in of(r)
    BY <2>4
  <2>6. \A x \in of(r) : x \in Int /\ x <= Best(r)
    BY <1>2
  <2> HIDE DEF of
  <2>7. Max(of(r)) = Best(r)
    <3> DEFINE m == Max(of(r))
    <3>1. \A y \in of(r) : Best(r) >= y
      BY <2>2, <2>6
    <3>2. m \in of(r) /\ \A y \in of(r) : m >= y
      BY <2>5, <3>1 DEF Max
    <3> HIDE DEF m
    <3>3. m >= Best(r) /\ m <= Best(r) /\ m \in Int
      BY <2>5, <2>6, <3>2
    <3>4. m = Best(r)
      BY <2>2, <3>3
    <3>5. QED
      BY <3>4 DEF m
  <2>8. QED
    BY <2>2, <2>7
<1> HIDE DEF of
<1>5. ASSUME NEW r \in D, NEW q \in Embedded(rows), Better(q, r)
      PROVE  q \in D
  <2>1. PICK c \in C : c.row = r
    OBVIOUS
  <2>2. PICK d \in Passages(rows) : d.row = q /\ d.score = Best(q)
    BY <1>3
  <2>3. /\ c.score <= Best(r) /\ c.score \in Int /\ Best(r) \in Int
        /\ Best(q) \in Int /\ r.key \in Int
    BY <1>2, <2>1, BestFacts
  <2>4. Best(q) > Best(r) \/ (Best(q) = Best(r) /\ q.key < r.key)
    BY <1>5 DEF Better
  <2>5. d.score > c.score \/ (d.score = c.score /\ d.row.key < c.row.key)
    BY <2>1, <2>2, <2>3, <2>4
  <2>6. d \in C
    BY <2>5 DEF CandidateOrder
  <2>7. QED
    BY <2>2, <2>6
<1>6. D \subseteq Embedded(rows)
  BY <1>2
<1>7. C = Passages(rows) => Embedded(rows) \subseteq D
  BY <1>3
<1> HIDE DEF D
<1>8. DOMAIN BestAmong(C) = D /\ \A r \in D : BestAmong(C)[r] = Best(r)
  BY <1>1, <1>4
<1>9. QED
  BY <1>5, <1>6, <1>7, <1>8

Begins(s, t) ==
  /\ Len(s) <= Len(t)
  /\ \A i \in 1 .. Len(s) : s[i] = t[i]

ExactRanking(rows) == Sorted(Embedded(rows), Better)

(* The messages found among candidates are the beginning of the exact      *)
(* ranking.                                                                *)
LEMMA BestOfFacts ==
  ASSUME NEW rows, RowsOfTable(rows), NEW bound \in Nat, NEW limit \in Nat
  PROVE  LET P == Passages(rows)
             hits == BestOf(Candidates(P, bound), limit)
             exact == ExactRanking(rows)
         IN  /\ hits \in Seq(Embedded(rows))
             /\ exact \in Seq(Embedded(rows))
             /\ Begins(hits, exact)
             /\ Len(hits) <= limit
             /\ Cardinality(P) <= bound => Len(hits) = Len(Top(exact, limit))
<1> DEFINE
  P == Passages(rows)
  C == ToSet(Candidates(P, bound))
  best == BestAmong(C)
  D == DOMAIN best
  E == Embedded(rows)
  order(r, q) == BetterOf(best, r, q)
  all == Sorted(D, order)
  exact == ExactRanking(rows)
<1>1. /\ C \in SUBSET P
      /\ \A c \in C, d \in P : CandidateOrder(d, c) => d \in C
      /\ Cardinality(P) <= bound => C = P
  BY CandidateFacts
<1>2. /\ D \subseteq E
      /\ \A r \in D : best[r] = Best(r)
      /\ \A r \in D, q \in E : Better(q, r) => q \in D
      /\ C = P => D = E
  <2> HIDE DEF C
  <2>1. QED
    BY <1>1, AmongFacts
<1>3. BestOf(Candidates(P, bound), limit) = Top(all, limit)
  BY DEF BestOf
<1>4. E \subseteq ProseOf(rows)
  BY RowFields DEF Embedded, ProseOf
<1>5. \A r \in D : best[r] \in Int
  BY <1>2, BestFacts
<1>6. /\ IsFiniteSet(E) /\ StrictOrder(E, BetterRel(E))
      /\ Lists(exact, E, BetterRel(E))
  BY BetterIsStrict, BetterAreLists DEF ExactRanking
<1>7. /\ IsFiniteSet(D) /\ StrictOrder(D, BestRel(best))
      /\ Lists(all, D, BestRel(best))
  <2>1. D \subseteq ProseOf(rows)
    BY <1>2, <1>4
  <2> HIDE DEF C
  <2>2. QED
    BY <1>5, <2>1, BestIsStrict, BestAreLists
<1>8. \A x, y \in D : <<x, y>> \in BestRel(best) <=> <<x, y>> \in BetterRel(E)
  <2>1. SUFFICES ASSUME NEW x \in D, NEW y \in D
                 PROVE  BetterOf(best, x, y) <=> Better(x, y)
    BY <1>2 DEF BestRel, BetterRel
  <2>2. QED
    BY <1>2 DEF BetterOf, Better
<1>9. \A x \in D, y \in E : <<y, x>> \in BetterRel(E) => y \in D
  BY <1>2 DEF BetterRel
<1> HIDE DEF P, C, best, D, E, order, all, exact
<1>10. /\ Cardinality(D) <= Cardinality(E)
       /\ \A i \in 1 .. Cardinality(D) : all[i] = exact[i]
  BY <1>2, <1>6, <1>7, <1>8, <1>9, ListOfFirst
<1>11. /\ all \in Seq(D) /\ Len(all) = Cardinality(D)
       /\ Cardinality(D) \in Nat
  BY <1>7, ListFacts
<1>12. /\ exact \in Seq(E) /\ Len(exact) = Cardinality(E)
       /\ Cardinality(E) \in Nat
  BY <1>6, ListFacts
<1> DEFINE hits == Top(all, limit)
<1>13. /\ hits \in Seq(D)
       /\ Len(hits) = IF Len(all) < limit THEN Len(all) ELSE limit
       /\ \A i \in 1 .. Len(hits) : hits[i] = all[i]
  BY <1>11, TopFacts
<1>14. Len(Top(exact, limit))
         = IF Len(exact) < limit THEN Len(exact) ELSE limit
  BY <1>12, TopFacts
<1> HIDE DEF hits
<1>15. hits \in Seq(E)
  BY <1>2, <1>13
<1>16. Len(hits) <= limit /\ Len(hits) <= Len(exact)
       /\ Len(hits) <= Cardinality(D)
  BY <1>10, <1>11, <1>12, <1>13
<1>17. Begins(hits, exact)
  <2>1. \A i \in 1 .. Len(hits) : i \in 1 .. Cardinality(D)
    BY <1>11, <1>13, <1>16
  <2>2. QED
    BY <1>10, <1>13, <1>16, <2>1 DEF Begins
<1>18. Cardinality(P) <= bound => Len(hits) = Len(Top(exact, limit))
  BY <1>1, <1>2, <1>11, <1>12, <1>13, <1>14
<1>19. QED
  BY <1>3, <1>12, <1>15, <1>16, <1>17, <1>18 DEF hits, P, E, exact

(* The retry is made unless the answer is already full or there are no     *)
(* more passages.                                                          *)
LEMMA SemanticFacts ==
  ASSUME NEW rows, RowsOfTable(rows), BoundsAssumption
  PROVE  LET P == Passages(rows)
             hits == SemanticSearch(Candidates(P, FirstCandidates),
                                    Candidates(P, RetryCandidates), Depth)
             exact == ExactRanking(rows)
         IN  /\ hits \in Seq(Embedded(rows))
             /\ exact \in Seq(Embedded(rows))
             /\ Begins(hits, exact)
             /\ \/ Len(hits) = Len(Top(exact, Depth))
                \/ Cardinality(P) > RetryCandidates
<1> DEFINE
  P == Passages(rows)
  first == Candidates(P, FirstCandidates)
  retry == Candidates(P, RetryCandidates)
  h1 == BestOf(first, Depth)
  h2 == BestOf(retry, Depth)
  exact == ExactRanking(rows)
<1>1. Depth \in Nat /\ FirstCandidates \in Nat /\ RetryCandidates \in Nat
  BY DEF BoundsAssumption
<1>2. /\ h1 \in Seq(Embedded(rows)) /\ exact \in Seq(Embedded(rows))
      /\ Begins(h1, exact) /\ Len(h1) <= Depth
      /\ Cardinality(P) <= FirstCandidates
           => Len(h1) = Len(Top(exact, Depth))
  BY <1>1, BestOfFacts
<1>3. /\ h2 \in Seq(Embedded(rows)) /\ Begins(h2, exact)
      /\ Cardinality(P) <= RetryCandidates
           => Len(h2) = Len(Top(exact, Depth))
  BY <1>1, BestOfFacts
<1>4. /\ Cardinality(P) \in Nat
      /\ Len(first) = IF Cardinality(P) < FirstCandidates
                      THEN Cardinality(P) ELSE FirstCandidates
  BY <1>1, CandidateFacts
<1>5. SemanticSearch(first, retry, Depth)
        = IF Len(h1) >= Depth \/ Len(first) < FirstCandidates
          THEN h1 ELSE h2
  BY DEF SemanticSearch
<1>6. Len(Top(exact, Depth))
        = IF Len(exact) < Depth THEN Len(exact) ELSE Depth
  BY <1>1, <1>2, TopFacts
<1> HIDE DEF P, first, retry, h1, h2, exact
<1>7. Len(h1) >= Depth => Len(h1) = Len(Top(exact, Depth))
  BY <1>1, <1>2, <1>6 DEF Begins
<1>8. Len(first) < FirstCandidates => Len(h1) = Len(Top(exact, Depth))
  BY <1>1, <1>2, <1>4
<1>9. Len(h2) = Len(Top(exact, Depth)) \/ Cardinality(P) > RetryCandidates
  BY <1>1, <1>3, <1>4
<1>10. QED
  BY <1>2, <1>3, <1>5, <1>7, <1>8, <1>9 DEF P, first, retry, exact

(***************************************************************************)
(* Fusion and pages.                                                       *)
(***************************************************************************)
LEMMA LiteralFacts ==
  ASSUME NEW rows, RowsOfTable(rows), NEW tools \in BOOLEAN,
         NEW limit \in Nat, NEW list \in SearchMessages(rows, tools, limit)
  PROVE  /\ list \in Seq(rows)
         /\ ~ tools => list \in Seq(ProseOf(rows))
<1> DEFINE set == {r \in Matching(rows) : tools \/ r.class = Prose}
<1>1. /\ set \subseteq rows
      /\ ~ tools => set \subseteq ProseOf(rows)
  BY DEF Matching, ProseOf
<1>2. PICK s \in Rankings(set) : list = Top(s, limit)
  BY DEF SearchMessages
<1>3. IsFiniteSet(rows)
  BY DEF RowsOfTable
<1> HIDE DEF set
<1>4. Cardinality(set) \in Nat
  BY <1>1, <1>3, FS_Subset, FS_CardinalityType
<1>5. s \in [1 .. Cardinality(set) -> set]
  BY <1>2 DEF Rankings, SetToSeqs
<1>6. s \in Seq(set)
  BY <1>4, <1>5
<1>7. list \in Seq(set)
  BY <1>2, <1>6, TopFacts
<1>8. QED
  BY <1>1, <1>7

LEMMA ShareFacts ==
  ASSUME NEW S, NEW list \in Seq(S), NEW r
  PROVE  /\ Share60(list, r).over \in Nat
         /\ Share60(list, r).under \in Nat \ {0}
<1>1. CASE r \in ToSet(list)
  <2> DEFINE i == CHOOSE j \in DOMAIN list : list[j] = r
  <2>1. \E j \in DOMAIN list : list[j] = r
    BY <1>1 DEF ToSet
  <2>2. i \in DOMAIN list
    BY <2>1
  <2>3. i \in Nat
    BY <2>2
  <2>4. Share60(list, r) = [over |-> 1, under |-> RankConstant + i]
    BY <1>1 DEF Share60
  <2> HIDE DEF i
  <2>5. QED
    BY <2>3, <2>4 DEF RankConstant
<1>2. CASE r \notin ToSet(list)
  BY <1>2 DEF Share60
<1>3. QED
  BY <1>1, <1>2

LEMMA FusedFacts ==
  ASSUME NEW S, NEW literal \in Seq(S), NEW semantic \in Seq(S), NEW r
  PROVE  /\ Fused(literal, semantic, r).over \in Nat
         /\ Fused(literal, semantic, r).under \in Nat \ {0}
<1> DEFINE
  a == Share60(literal, r)
  b == Share60(semantic, r)
<1>1. /\ a.over \in Nat /\ a.under \in Nat \ {0}
      /\ b.over \in Nat /\ b.under \in Nat \ {0}
  BY ShareFacts
<1>2. Fused(literal, semantic, r)
        = [over |-> a.over * b.under + b.over * a.under,
           under |-> a.under * b.under]
  BY DEF Fused
<1> HIDE DEF a, b
<1>3. \A x, y \in Nat \ {0} : x * y \in Nat \ {0}
  OBVIOUS
<1>4. \A x, y \in Nat : x * y \in Nat
  OBVIOUS
<1>5. a.under * b.under \in Nat \ {0}
  BY <1>1, <1>3
<1>6. a.over * b.under \in Nat /\ b.over * a.under \in Nat
  BY <1>1, <1>4
<1>7. QED
  BY <1>2, <1>5, <1>6

LEMMA FuseFacts ==
  ASSUME NEW rows, RowsOfTable(rows), BoundsAssumption,
         NEW literal \in Seq(ProseOf(rows)),
         NEW semantic \in Seq(ProseOf(rows))
  PROVE  FuseHybrid(literal, semantic) \in Seq(ProseOf(rows))
<1> DEFINE
  score == [r \in ToSet(literal) \cup ToSet(semantic) |->
              Fused(literal, semantic, r)]
  D == DOMAIN score
  order(r, q) == AheadOf(score, r, q)
  s == Sorted(D, order)
<1>1. D \subseteq ProseOf(rows)
  BY ToSetFacts
<1>2. \A r \in D : score[r].over \in Nat /\ score[r].under \in Nat \ {0}
  BY FusedFacts
<1>3. FuseHybrid(literal, semantic) = Top(s, Limit)
  BY DEF FuseHybrid
<1> HIDE DEF score
<1>4. /\ IsFiniteSet(D) /\ StrictOrder(D, AheadRel(score))
      /\ Lists(s, D, AheadRel(score))
  BY <1>1, <1>2, AheadIsStrict, AheadAreLists
<1> HIDE DEF D, s
<1>5. s \in Seq(D)
  BY <1>4, ListFacts
<1>6. Limit \in Nat
  BY DEF BoundsAssumption
<1>7. Top(s, Limit) \in Seq(D)
  BY <1>5, <1>6, TopFacts
<1>8. QED
  BY <1>1, <1>3, <1>7

Pages(rows) == Sorted(Matching(rows), PageOrder)

LEMMA PagesFacts ==
  ASSUME NEW rows, RowsOfTable(rows)
  PROVE  /\ Pages(rows) \in Seq(Matching(rows))
         /\ Len(Pages(rows)) = Cardinality(Matching(rows))
         /\ Cardinality(Matching(rows)) \in Nat
         /\ ToSet(Pages(rows)) = Matching(rows)
<1> DEFINE
  M == Matching(rows)
  s == Pages(rows)
<1>1. M \subseteq rows
  BY DEF Matching
<1>2. /\ IsFiniteSet(M) /\ StrictOrder(M, PageRel(M))
      /\ Lists(s, M, PageRel(M))
  BY <1>1, PageIsStrict, PagesAreLists DEF Pages
<1> HIDE DEF M, s
<1>3. /\ s \in Seq(M) /\ Len(s) = Cardinality(M) /\ Cardinality(M) \in Nat
      /\ \A x \in M : \E i \in 1 .. Cardinality(M) : s[i] = x
  BY <1>2, ListFacts
<1>4. ToSet(s) = M
  <2>1. /\ ToSet(s) \subseteq M
        /\ \A x : x \in ToSet(s) <=> \E i \in 1 .. Len(s) : s[i] = x
    BY <1>3, ToSetFacts
  <2>2. QED
    BY <1>3, <2>1
<1>5. QED
  BY <1>3, <1>4 DEF M, s

(* The next page goes on where the last one ended.                         *)
LEMMA PageFacts ==
  ASSUME NEW rows, RowsOfTable(rows), BoundsAssumption,
         NEW hits \in Seq(Matching(rows)), Begins(hits, Pages(rows))
  PROVE  LET page == PageAfter(rows, hits)
             more == hits \o Top(page, PageSize)
         IN  /\ more \in Seq(Matching(rows))
             /\ Begins(more, Pages(rows))
             /\ Len(page) <= PageSize => more = Pages(rows)
<1> DEFINE
  M == Matching(rows)
  R == PageRel(M)
  s == Pages(rows)
  k == Len(hits)
  T == {r \in M : hits = <<>> \/ PageOrder(Last(hits), r)}
  t == Sorted(T, PageOrder)
  page == PageAfter(rows, hits)
  top == Top(page, PageSize)
  more == hits \o top
<1>1. M \subseteq rows /\ T \subseteq rows /\ T \subseteq M
  BY DEF Matching
<1>2. /\ IsFiniteSet(M) /\ StrictOrder(M, R) /\ Lists(s, M, R)
  BY <1>1, PageIsStrict, PagesAreLists DEF Pages
<1>3. /\ IsFiniteSet(T) /\ StrictOrder(T, PageRel(T))
      /\ Lists(t, T, PageRel(T))
  <2> HIDE DEF T
  <2>1. QED
    BY <1>1, PageIsStrict, PagesAreLists
<1>4. \A x, y \in T : <<x, y>> \in PageRel(T) <=> <<x, y>> \in R
  BY DEF PageRel
<1>5. page = Top(t, PageSize + 1)
  BY DEF PageAfter
<1>6. k \in Nat /\ hits \in Seq(M) /\ Begins(hits, s)
  OBVIOUS
<1>7. /\ s \in Seq(M) /\ Len(s) = Cardinality(M) /\ Cardinality(M) \in Nat
  BY PagesFacts
<1>8. /\ Cardinality(T) = Cardinality(M) - k
      /\ \A i \in 1 .. Cardinality(T) : t[i] = s[k + i]
  <2>1. CASE hits = <<>>
    <3>1. T = M /\ k = 0
      BY <2>1
    <3>2. t = s
      BY <3>1 DEF Pages
    <3> HIDE DEF T, M, k, s, t
    <3>3. QED
      BY <1>7, <3>1, <3>2
  <2>2. CASE hits # <<>>
    <3> DEFINE e == s[k]
    <3>1. k \in 1 .. Cardinality(M) /\ Last(hits) = e
      <4> HIDE DEF M, R, T, s, t
      <4>1. k # 0 /\ k <= Len(s)
        BY <1>6, <2>2 DEF Begins
      <4>2. hits[k] = s[k]
        BY <1>6, <4>1 DEF Begins
      <4>3. Last(hits) = hits[k]
        BY DEF Last
      <4>4. QED
        BY <1>6, <1>7, <4>1, <4>2, <4>3
    <3>2. e \in M
      BY <1>7, <3>1
    <3>3. T = After(M, R, e)
      BY <2>2, <3>1, <3>2 DEF PageRel, After
    <3>4. Cardinality(Before(M, R, e)) + 1 = k
      <4> HIDE DEF M, R, s, k
      <4>1. QED
        BY <1>2, <1>7, <3>1 DEF Lists
    <3> DEFINE Q == PageRel(T)
    <3> HIDE DEF T, M, R, k, s, t, Q, e
    <3>5. /\ Lists(t, After(M, R, e), Q)
          /\ \A x, y \in After(M, R, e) : <<x, y>> \in Q <=> <<x, y>> \in R
      BY <1>3, <1>4, <3>3 DEF Q
    <3> DEFINE n == Cardinality(Before(M, R, e)) + 1
    <3>6. /\ Cardinality(After(M, R, e)) = Cardinality(M) - n
          /\ \A i \in 1 .. Cardinality(After(M, R, e)) : t[i] = s[n + i]
      BY <1>2, <3>2, <3>5, ListOfRest
    <3>7. QED
      BY <3>3, <3>4, <3>6
  <2>3. QED
    BY <2>1, <2>2
<1>9. t \in Seq(T) /\ Len(t) = Cardinality(T) /\ Cardinality(T) \in Nat
  <2> HIDE DEF T, t
  <2>1. QED
    BY <1>3, ListFacts
<1>10. PageSize \in Nat /\ PageSize + 1 \in Nat
  BY DEF BoundsAssumption
<1> HIDE DEF M, R, s, k, T, t, page, top
<1>11. /\ page \in Seq(T)
       /\ Len(page) = IF Len(t) < PageSize + 1 THEN Len(t) ELSE PageSize + 1
       /\ \A i \in 1 .. Len(page) : page[i] = t[i]
  BY <1>5, <1>9, <1>10, TopFacts
<1>12. /\ top \in Seq(T)
       /\ Len(top) = IF Len(page) < PageSize THEN Len(page) ELSE PageSize
       /\ \A i \in 1 .. Len(top) : top[i] = page[i]
  BY <1>10, <1>11, TopFacts DEF top
<1>13. /\ Len(top) \in Nat /\ Len(top) <= Cardinality(T)
       /\ \A i \in 1 .. Len(top) : top[i] = s[k + i]
  <2>1. Len(top) \in Nat /\ Len(top) <= Cardinality(T)
        /\ Len(top) <= Len(page)
    BY <1>9, <1>10, <1>11, <1>12
  <2>2. \A i \in 1 .. Len(top) :
          i \in 1 .. Len(page) /\ i \in 1 .. Cardinality(T)
    BY <1>9, <1>11, <2>1
  <2>3. QED
    BY <1>8, <1>11, <1>12, <2>1, <2>2
<1>14. top \in Seq(M)
  BY <1>1, <1>12
<1>15. /\ more \in Seq(M) /\ Len(more) = k + Len(top)
       /\ \A i \in 1 .. Len(more) :
            more[i] = IF i <= k THEN hits[i] ELSE top[i - k]
  BY <1>6, <1>14 DEF k
<1> HIDE DEF more
<1>16. Begins(more, s)
  <2>1. Len(more) <= Len(s)
    BY <1>6, <1>7, <1>8, <1>13, <1>15
  <2>2. ASSUME NEW i \in 1 .. Len(more) PROVE more[i] = s[i]
    <3>1. CASE i <= k
      <4>1. i \in 1 .. Len(hits)
        BY <3>1 DEF k
      <4>2. QED
        BY <1>6, <1>15, <3>1, <4>1 DEF Begins
    <3>2. CASE ~ (i <= k)
      <4>1. i - k \in 1 .. Len(top) /\ k + (i - k) = i
        BY <1>6, <1>13, <1>15, <3>2
      <4>2. QED
        BY <1>13, <1>15, <3>2, <4>1
    <3>3. QED
      BY <3>1, <3>2
  <2>3. QED
    BY <2>1, <2>2 DEF Begins
<1>17. Len(page) <= PageSize => more = s
  <2>1. SUFFICES ASSUME Len(page) <= PageSize PROVE more = s
    OBVIOUS
  <2>2. Len(top) = Len(t)
    BY <1>9, <1>10, <1>11, <1>12, <2>1
  <2>3. Len(more) = Len(s)
    BY <1>6, <1>7, <1>8, <1>9, <1>15, <2>2
  <2>4. QED
    BY <1>7, <1>15, <1>16, <2>3 DEF Begins
<1>18. QED
  BY <1>15, <1>16, <1>17 DEF M, s, page, top, more

(***************************************************************************)
(* The inductive invariant.                                                *)
(***************************************************************************)
RowsAt(i) == IF past[i].content = None THEN {} ELSE corpus[past[i].content]

PastInv ==
  /\ past \in Seq([content : Selections, selected : Selections])
  /\ past # <<>>
  /\ Last(past) = [content |-> db[Content], selected |-> db[State]]
  /\ \A g \in Generation : RowsOfTable(corpus[g])

Fields ==
  {"kind", "pc", "outcome", "mode", "hits", "literal", "semantic",
   "generation", "from", "until", "snapshot"}

Begun(r) == r.pc # "begin" /\ ~ (r.pc = "ended" /\ r.outcome = "none")
Ready(r) == r.outcome \in {"complete", "partial"}

(* The snapshot is the corpus that was current when the search began.      *)
SnapshotOK(r) ==
  /\ r.from \in 1 .. Len(past)
  /\ r.snapshot.rows = RowsAt(r.from)
  /\ r.snapshot.selected = past[r.from].selected
  /\ r.snapshot.ready => r.snapshot.selected # None

(* Hits, mode and generation come from it.                                 *)
AnswerOK(r) ==
  /\ r.outcome # "stale"
  /\ r.pc \in {"revision", "embed", "semantic"} =>
       r.literal \in Seq(ProseOf(r.snapshot.rows))
  /\ r.hits \in Seq(r.snapshot.rows)
  /\ r.pc = "resolve" \/ Ready(r) =>
       /\ r.generation = r.snapshot.selected
       /\ r.mode = "hybrid" => r.snapshot.ready
  /\ r.pc = "ended" => r.until \in Int /\ r.from <= r.until

(* The semantic list begins the exact ranking; the pages read so far are   *)
(* the first matching rows.                                                *)
ExactOK(r) ==
  LET rows == r.snapshot.rows
      exact == ExactRanking(rows)
  IN  /\ r.mode = "hybrid" =>
           /\ r.semantic \in Seq(Embedded(rows))
           /\ exact \in Seq(Embedded(rows))
           /\ Begins(r.semantic, exact)
           /\ \/ Len(r.semantic) = Len(Top(exact, Depth))
              \/ Cardinality(Passages(rows)) > RetryCandidates
      /\ r.kind = "exhaustive" =>
           /\ r.pc \notin {"revision", "embed", "semantic"}
           /\ r.pc = "queue" => r.hits = <<>>
           /\ r.pc = "literal" =>
                /\ r.hits \in Seq(Matching(rows))
                /\ Begins(r.hits, Pages(rows))
           /\ r.pc \in {"envelope", "resolve"} \/ Ready(r) =>
                r.hits = Pages(rows)

RequestOK(r) ==
  /\ DOMAIN r = Fields
  /\ r.pc # "ended" => r.outcome = "none"
  /\ ~ Begun(r) =>
       r.mode = "literal" /\ r.hits = <<>> /\ r.literal = <<>>
  /\ Begun(r) => SnapshotOK(r) /\ AnswerOK(r) /\ ExactOK(r)

SearchInv ==
  /\ PastInv
  /\ request = [q \in Request |-> request[q]]
  /\ \A q \in Request : RequestOK(request[q])

LEMMA RowsFacts ==
  ASSUME PastInv, NEW i \in 1 .. Len(past)
  PROVE  RowsOfTable(RowsAt(i))
<1>1. past[i].content \in Selections
  <2> DEFINE X == [content : Selections, selected : Selections]
  <2>1. past \in Seq(X)
    BY DEF PastInv
  <2> HIDE DEF X
  <2>2. past[i] \in X
    BY <2>1
  <2>3. QED
    BY <2>2 DEF X
<1>2. RowsOfTable({})
  BY FS_EmptySet DEF RowsOfTable
<1>3. CASE past[i].content = None
  BY <1>2, <1>3 DEF RowsAt
<1>4. CASE past[i].content # None
  BY <1>1, <1>4 DEF RowsAt, Selections, PastInv
<1>5. QED
  BY <1>3, <1>4

LEMMA InitSearch ==
  ASSUME Init, GuardAssumption, RowsAssumption
  PROVE  IInv /\ SearchInv
<1>1. GuardInit
  BY DEF Init
<1>2. IInv
  BY <1>1, InitInv
<1>3. PastInv
  <2>1. past = <<[content |-> db[Content], selected |-> db[State]]>>
    BY DEF Init, Committed
  <2>2. db[Content] \in Selections /\ db[State] \in Selections
    BY <1>2 DEF IInv, TypeInv
  <2>3. \A g \in Generation : RowsOfTable(corpus[g])
    BY DEF Init, RowsAssumption
  <2>4. past \in Seq([content : Selections, selected : Selections])
    BY <2>1, <2>2
  <2>5. past # <<>> /\ Last(past) = past[1]
    BY <2>1 DEF Last
  <2>6. QED
    BY <2>1, <2>3, <2>4, <2>5 DEF PastInv
<1>4. PICK load \in Loads :
        \E kind \in [Request -> load.kinds \cup {"literal"}] :
          request = [q \in Request |->
                       NewRequest(kind[q], q \in load.requests)]
  BY DEF Init
<1>5. PICK kind \in [Request -> load.kinds \cup {"literal"}] :
        request = [q \in Request |->
                     NewRequest(kind[q], q \in load.requests)]
  BY <1>4
<1>6. \A q \in Request :
        request[q] = NewRequest(kind[q], q \in load.requests)
  BY <1>5
<1>7. ASSUME NEW q \in Request PROVE RequestOK(request[q])
  <2>1. \A k, runs : RequestOK(NewRequest(k, runs))
    BY DEF NewRequest, RequestOK, Begun, Fields
  <2>2. QED
    BY <1>6, <2>1
<1>8. QED
  BY <1>2, <1>3, <1>5, <1>7 DEF SearchInv

(* A commit of a transaction extends the past.                             *)
LEMMA BesideKeeps ==
  ASSUME IInv, SearchInv, GuardAssumption, Beside(GuardNext)
  PROVE  IInv' /\ SearchInv'
<1>1. IInv'
  <2>1. [GuardNext]_guardVars
    BY DEF Beside
  <2>2. QED
    BY <2>1, NextInv
<1> DEFINE
  now == [content |-> db'[Content], selected |-> db'[State]]
  Moment == [content : Selections, selected : Selections]
<1>2. now \in Moment
  BY <1>1 DEF IInv, TypeInv
<1>3. past' = IF <<now>> = <<Last(past)>> THEN past ELSE past \o <<now>>
  BY DEF Beside, Committed
<1>4. past \in Seq(Moment) /\ past # <<>>
  BY DEF SearchInv, PastInv
<1>5. corpus' = corpus /\ request' = request
  BY DEF Beside
<1> HIDE DEF now, Moment
<1>6. /\ past' \in Seq(Moment) /\ past' # <<>> /\ Last(past') = now
      /\ Len(past) <= Len(past')
      /\ \A i \in 1 .. Len(past) : past'[i] = past[i]
  <2>1. CASE now = Last(past)
    BY <1>3, <1>4, <2>1
  <2>2. CASE now # Last(past)
    <3>1. past' = Append(past, now)
      BY <1>2, <1>3, <1>4, <2>2
    <3>2. QED
      BY <1>2, <1>4, <3>1 DEF Last
  <2>3. QED
    BY <2>1, <2>2
<1>7. PastInv'
  BY <1>5, <1>6 DEF SearchInv, PastInv, now, Moment
<1>8. ASSUME NEW q \in Request PROVE RequestOK(request[q])'
  <2> DEFINE r == request[q]
  <2>1. RequestOK(r) /\ r' = r
    BY <1>5 DEF SearchInv
  <2>2. SnapshotOK(r) => SnapshotOK(r)'
    <3>1. SUFFICES ASSUME SnapshotOK(r) PROVE SnapshotOK(r)'
      OBVIOUS
    <3>2. r.from \in 1 .. Len(past)
      BY <3>1 DEF SnapshotOK
    <3>3. r.from \in 1 .. Len(past') /\ past'[r.from] = past[r.from]
      BY <1>4, <1>6, <3>2
    <3>4. QED
      BY <1>5, <2>1, <3>1, <3>3 DEF SnapshotOK, RowsAt
  <2>3. /\ Begun(r)' <=> Begun(r)
        /\ AnswerOK(r) => AnswerOK(r)'
        /\ ExactOK(r) => ExactOK(r)'
    BY <2>1 DEF Begun, AnswerOK, ExactOK, Ready
  <2> HIDE DEF r
  <2>4. RequestOK(r)'
    BY <2>1, <2>2, <2>3 DEF RequestOK
  <2>5. QED
    BY <2>4 DEF r
<1>9. QED
  BY <1>1, <1>5, <1>7, <1>8 DEF SearchInv

(***************************************************************************)
(* The steps of a request.                                                 *)
(***************************************************************************)
LEMMA GoesFacts ==
  ASSUME SearchInv, NEW q \in Request, NEW changes, Goes(q, changes)
  PROVE  /\ request'[q] = Override(request[q], changes)
         /\ \A p \in Request \ {q} : request'[p] = request[p]
         /\ request' = [p \in Request |-> request'[p]]
BY DEF SearchInv, Goes

LEMMA BegunFacts ==
  ASSUME SearchInv, NEW q \in Request, Begun(request[q])
  PROVE  /\ SnapshotOK(request[q]) /\ AnswerOK(request[q])
         /\ ExactOK(request[q])
         /\ DOMAIN request[q] = Fields
         /\ RowsOfTable(request[q].snapshot.rows)
         /\ request[q].pc # "ended" => request[q].outcome = "none"
<1> DEFINE r == request[q]
<1>1. RequestOK(r) /\ PastInv
  BY DEF SearchInv
<1>2. /\ SnapshotOK(r) /\ AnswerOK(r) /\ ExactOK(r) /\ DOMAIN r = Fields
      /\ r.pc # "ended" => r.outcome = "none"
  BY <1>1 DEF RequestOK
<1> HIDE DEF r
<1>3. RowsOfTable(r.snapshot.rows)
  BY <1>1, <1>2, RowsFacts DEF SnapshotOK
<1>4. QED
  BY <1>2, <1>3 DEF r

LEMMA BeginOK ==
  ASSUME SearchInv, NEW q \in Request, BeginSearchSnapshot(q)
  PROVE  RequestOK(request'[q])
<1> DEFINE
  r == request[q]
  x == request'[q]
<1>1. RequestOK(r) /\ r.pc = "begin" /\ PastInv
  BY DEF SearchInv, BeginSearchSnapshot, At
<1>2. x = Override(r, [pc |-> "queue", from |-> Len(past),
                       snapshot |-> Present])
  BY GoesFacts DEF BeginSearchSnapshot, Step
<1>3. /\ DOMAIN r = Fields /\ r.outcome = "none" /\ r.mode = "literal"
      /\ r.hits = <<>> /\ r.literal = <<>>
  BY <1>1 DEF RequestOK, Begun
<1> HIDE DEF r, x
<1>4. /\ DOMAIN x = Fields /\ x.pc = "queue" /\ x.from = Len(past)
      /\ x.snapshot = Present /\ x.outcome = "none" /\ x.mode = "literal"
      /\ x.hits = <<>> /\ x.literal = <<>>
  BY <1>2, <1>3 DEF Override, Fields
<1>5. /\ Len(past) \in 1 .. Len(past) /\ past[Len(past)] = Last(past)
  <2> DEFINE X == [content : Selections, selected : Selections]
  <2>1. past \in Seq(X) /\ past # <<>>
    BY <1>1 DEF PastInv
  <2> HIDE DEF X
  <2>2. QED
    BY <2>1 DEF Last
<1>6. /\ past[Len(past)].content = db[Content]
      /\ past[Len(past)].selected = db[State]
  BY <1>1, <1>5 DEF PastInv
<1>7. SnapshotOK(x)
  <2>1. /\ Present.rows
             = IF db[Content] = None THEN {} ELSE corpus[db[Content]]
        /\ Present.selected = db[State]
    BY DEF Present
  <2>2. Present.ready => db[State] # None
    BY DEF Present
  <2>3. RowsAt(Len(past)) = Present.rows
    BY <1>6, <2>1 DEF RowsAt
  <2>4. QED
    BY <1>4, <1>5, <1>6, <2>1, <2>2, <2>3 DEF SnapshotOK
<1>8. /\ <<>> \in Seq(x.snapshot.rows)
      /\ <<>> \in Seq(ProseOf(x.snapshot.rows))
  OBVIOUS
<1>9. AnswerOK(x)
  BY <1>4, <1>8 DEF AnswerOK, Ready
<1>10. ExactOK(x)
  BY <1>4 DEF ExactOK, Ready
<1>11. RequestOK(x)
  BY <1>4, <1>7, <1>9, <1>10 DEF RequestOK, Begun
<1>12. QED
  BY <1>11 DEF x

LEMMA QueuedReadOK ==
  ASSUME SearchInv, NEW q \in Request, QueuedRead(q)
  PROVE  RequestOK(request'[q])
<1> DEFINE
  r == request[q]
  x == request'[q]
<1>1. r.pc = "queue" /\ Begun(r)
  BY DEF QueuedRead, At, Begun
<1>2. /\ SnapshotOK(r) /\ AnswerOK(r) /\ ExactOK(r) /\ DOMAIN r = Fields
      /\ r.outcome = "none" /\ RowsOfTable(r.snapshot.rows)
  BY <1>1, BegunFacts
<1>3. x = Override(r, [pc |-> "literal"])
  BY GoesFacts DEF QueuedRead
<1> HIDE DEF r, x
<1>4. /\ DOMAIN x = Fields /\ x.pc = "literal" /\ x.kind = r.kind
      /\ x.outcome = "none" /\ x.mode = r.mode
      /\ x.hits = r.hits /\ x.literal = r.literal
      /\ x.semantic = r.semantic /\ x.from = r.from
      /\ x.snapshot = r.snapshot
  BY <1>2, <1>3 DEF Override, Fields
<1>5. SnapshotOK(x)
  BY <1>2, <1>4 DEF SnapshotOK
<1>6. AnswerOK(x)
  BY <1>2, <1>4 DEF AnswerOK, Ready
<1>7. r.hits = <<>> => /\ r.hits \in Seq(Matching(r.snapshot.rows))
                       /\ Begins(r.hits, Pages(r.snapshot.rows))
  <2>1. Len(Pages(r.snapshot.rows)) \in Nat
    BY <1>2, PagesFacts
  <2>2. QED
    BY <2>1 DEF Begins
<1>8. ExactOK(x)
  BY <1>1, <1>2, <1>4, <1>7 DEF ExactOK, Ready, r
<1>9. RequestOK(x)
  BY <1>4, <1>5, <1>6, <1>8 DEF RequestOK, Begun
<1>10. QED
  BY <1>9 DEF x

LEMMA SearchLiteralOK ==
  ASSUME SearchInv, BoundsAssumption, NEW q \in Request, SearchLiteral(q)
  PROVE  RequestOK(request'[q])
<1> DEFINE
  r == request[q]
  x == request'[q]
  rows == r.snapshot.rows
  tools == r.kind = "tools"
  limit == IF Literal(q) THEN Limit ELSE Depth
  stage == IF Literal(q) THEN "envelope" ELSE "revision"
<1>1. r.pc = "literal" /\ r.kind # "exhaustive" /\ Begun(r)
  BY DEF SearchLiteral, At, Begun
<1>2. /\ SnapshotOK(r) /\ AnswerOK(r) /\ ExactOK(r) /\ DOMAIN r = Fields
      /\ r.outcome = "none" /\ RowsOfTable(rows)
  BY <1>1, BegunFacts
<1>3. PICK list \in SearchMessages(rows, tools, limit) :
        x = Override(r, [pc |-> stage, literal |-> list,
                         hits |-> Top(list, Limit)])
  BY GoesFacts DEF SearchLiteral, Step, Seen
<1>4. Limit \in Nat /\ limit \in Nat
  BY DEF BoundsAssumption
<1>5. /\ stage \in {"envelope", "revision"} /\ tools \in BOOLEAN
      /\ stage = "revision" => ~ tools
  BY DEF Literal
<1> HIDE DEF r, x, limit, rows, stage, tools
<1>6. list \in Seq(rows) /\ (~ tools => list \in Seq(ProseOf(rows)))
  BY <1>2, <1>3, <1>4, <1>5, LiteralFacts
<1>7. Top(list, Limit) \in Seq(rows)
  BY <1>4, <1>6, TopFacts
<1>8. /\ DOMAIN x = Fields /\ x.pc = stage /\ x.literal = list
      /\ x.hits = Top(list, Limit) /\ x.kind = r.kind
      /\ x.outcome = "none" /\ x.mode = r.mode
      /\ x.semantic = r.semantic /\ x.from = r.from
      /\ x.snapshot = r.snapshot
  BY <1>2, <1>3 DEF Override, Fields
<1>9. SnapshotOK(x)
  BY <1>2, <1>8 DEF SnapshotOK
<1>10. AnswerOK(x)
  BY <1>5, <1>6, <1>7, <1>8 DEF AnswerOK, Ready, rows
<1>11. ExactOK(x)
  BY <1>1, <1>2, <1>8 DEF ExactOK, Ready, r
<1>12. RequestOK(x)
  BY <1>5, <1>8, <1>9, <1>10, <1>11 DEF RequestOK, Begun
<1>13. QED
  BY <1>12 DEF x

LEMMA SearchPageOK ==
  ASSUME SearchInv, BoundsAssumption, NEW q \in Request, SearchPage(q)
  PROVE  RequestOK(request'[q])
<1> DEFINE
  r == request[q]
  x == request'[q]
  rows == r.snapshot.rows
  page == PageAfter(rows, r.hits)
  more == r.hits \o Top(page, PageSize)
  stage == IF Len(page) <= PageSize THEN "envelope" ELSE "literal"
<1>1. r.pc = "literal" /\ r.kind = "exhaustive" /\ Begun(r)
  BY DEF SearchPage, At, Begun
<1>2. /\ SnapshotOK(r) /\ AnswerOK(r) /\ ExactOK(r) /\ DOMAIN r = Fields
      /\ r.outcome = "none" /\ RowsOfTable(rows)
  BY <1>1, BegunFacts
<1>3. x = Override(r, [pc |-> stage, hits |-> more])
  BY GoesFacts DEF SearchPage, Step, Seen
<1>4. r.hits \in Seq(Matching(rows)) /\ Begins(r.hits, Pages(rows))
  BY <1>1, <1>2 DEF ExactOK
<1>5. stage \in {"envelope", "literal"}
      /\ (stage = "envelope" => Len(page) <= PageSize)
  OBVIOUS
<1> HIDE DEF r, rows
<1>6. /\ more \in Seq(Matching(rows)) /\ Begins(more, Pages(rows))
      /\ Len(page) <= PageSize => more = Pages(rows)
  BY <1>2, <1>4, PageFacts
<1> HIDE DEF x, page, more, stage
<1>7. more \in Seq(rows)
  <2>1. Matching(rows) \subseteq rows
    BY DEF Matching
  <2>2. QED
    BY <1>6, <2>1
<1>8. /\ DOMAIN x = Fields /\ x.pc = stage /\ x.literal = r.literal
      /\ x.hits = more /\ x.kind = r.kind
      /\ x.outcome = "none" /\ x.mode = r.mode
      /\ x.semantic = r.semantic /\ x.from = r.from
      /\ x.snapshot = r.snapshot
  BY <1>2, <1>3 DEF Override, Fields
<1>9. SnapshotOK(x)
  BY <1>2, <1>8 DEF SnapshotOK
<1>10. AnswerOK(x)
  BY <1>2, <1>5, <1>7, <1>8 DEF AnswerOK, Ready, rows
<1>11. ExactOK(x)
  BY <1>2, <1>5, <1>6, <1>8 DEF ExactOK, Ready, rows
<1>12. RequestOK(x)
  BY <1>5, <1>8, <1>9, <1>10, <1>11 DEF RequestOK, Begun
<1>13. QED
  BY <1>12 DEF x

(* COMMIT, ROLLBACK or the end of the process.                             *)
LEMMA EndsOK ==
  ASSUME SearchInv, NEW q \in Request, Begun(request[q]),
         NEW outcome, Ends(q, outcome), outcome \notin {"none", "stale"},
         outcome \in {"complete", "partial"} => request[q].pc = "resolve"
  PROVE  RequestOK(request'[q])
<1> DEFINE
  r == request[q]
  x == request'[q]
<1>1. /\ SnapshotOK(r) /\ AnswerOK(r) /\ ExactOK(r) /\ DOMAIN r = Fields
      /\ outcome \in {"complete", "partial"} => r.pc = "resolve"
  BY BegunFacts
<1>2. x = Override(r, [pc |-> "ended", outcome |-> outcome,
                       until |-> Len(past)])
  BY GoesFacts DEF Ends
<1> HIDE DEF r, x
<1>3. /\ DOMAIN x = Fields /\ x.pc = "ended" /\ x.outcome = outcome
      /\ x.until = Len(past) /\ x.kind = r.kind /\ x.mode = r.mode
      /\ x.hits = r.hits /\ x.literal = r.literal
      /\ x.semantic = r.semantic /\ x.from = r.from
      /\ x.snapshot = r.snapshot /\ x.generation = r.generation
  BY <1>1, <1>2 DEF Override, Fields
<1>4. SnapshotOK(x)
  BY <1>1, <1>3 DEF SnapshotOK
<1>5. x.until \in Int /\ x.from <= x.until
  <2> DEFINE X == [content : Selections, selected : Selections]
  <2>1. past \in Seq(X)
    BY DEF SearchInv, PastInv
  <2> HIDE DEF X
  <2>2. r.from \in 1 .. Len(past)
    BY <1>1 DEF SnapshotOK
  <2>3. QED
    BY <1>3, <2>1, <2>2
<1>6. AnswerOK(x)
  BY <1>1, <1>3, <1>5 DEF AnswerOK, Ready
<1>7. ExactOK(x)
  BY <1>1, <1>3 DEF ExactOK, Ready
<1>8. RequestOK(x)
  BY <1>3, <1>4, <1>6, <1>7 DEF RequestOK, Begun
<1>9. QED
  BY <1>8 DEF x

LEMMA VerifyRevisionOK ==
  ASSUME SearchInv, NEW q \in Request, VerifyRevision(q)
  PROVE  RequestOK(request'[q])
<1> DEFINE
  r == request[q]
  x == request'[q]
<1>1. r.pc = "revision" /\ Begun(r)
  BY DEF VerifyRevision, At, Begun
<1>2. /\ SnapshotOK(r) /\ AnswerOK(r) /\ ExactOK(r) /\ DOMAIN r = Fields
      /\ r.outcome = "none"
  BY <1>1, BegunFacts
<1>3. CASE Ends(q, "model_unavailable")
  BY <1>1, <1>3, EndsOK
<1>4. CASE Step(q, [pc |-> "embed"])
  <2>1. x = Override(r, [pc |-> "embed"])
    BY <1>4, GoesFacts DEF Step
  <2> HIDE DEF r, x
  <2>2. /\ DOMAIN x = Fields /\ x.pc = "embed" /\ x.kind = r.kind
        /\ x.outcome = "none" /\ x.mode = r.mode /\ x.hits = r.hits
        /\ x.literal = r.literal /\ x.semantic = r.semantic
        /\ x.from = r.from /\ x.snapshot = r.snapshot
    BY <1>2, <2>1 DEF Override, Fields
  <2>3. SnapshotOK(x)
    BY <1>2, <2>2 DEF SnapshotOK
  <2>4. AnswerOK(x)
    BY <1>1, <1>2, <2>2 DEF AnswerOK, Ready, r
  <2>5. ExactOK(x)
    BY <1>1, <1>2, <2>2 DEF ExactOK, Ready, r
  <2>6. RequestOK(x)
    BY <2>2, <2>3, <2>4, <2>5 DEF RequestOK, Begun
  <2>7. QED
    BY <2>6 DEF x
<1>5. QED
  BY <1>3, <1>4 DEF VerifyRevision

LEMMA EmbedOK ==
  ASSUME SearchInv, NEW q \in Request, Embed(q)
  PROVE  RequestOK(request'[q])
<1> DEFINE
  r == request[q]
  x == request'[q]
<1>1. r.pc = "embed" /\ Begun(r)
  BY DEF Embed, At, Begun
<1>2. /\ SnapshotOK(r) /\ AnswerOK(r) /\ ExactOK(r) /\ DOMAIN r = Fields
      /\ r.outcome = "none" /\ r.kind # "exhaustive"
  BY <1>1, BegunFacts DEF ExactOK
<1>3. \/ x = Override(r, [pc |-> "semantic"])
      \/ x = Override(r, [pc |-> "envelope", mode |-> "literal_fallback"])
  BY GoesFacts DEF Embed, Step
<1> HIDE DEF r, x
<1>4. /\ DOMAIN x = Fields /\ x.pc \in {"semantic", "envelope"}
      /\ x.kind = r.kind /\ x.outcome = "none"
      /\ x.mode \in {r.mode, "literal_fallback"} /\ x.hits = r.hits
      /\ x.literal = r.literal /\ x.semantic = r.semantic
      /\ x.from = r.from /\ x.snapshot = r.snapshot
  BY <1>2, <1>3 DEF Override, Fields
<1>5. SnapshotOK(x)
  BY <1>2, <1>4 DEF SnapshotOK
<1>6. AnswerOK(x)
  BY <1>1, <1>2, <1>4 DEF AnswerOK, Ready, r
<1>7. ExactOK(x)
  BY <1>2, <1>4 DEF ExactOK, Ready
<1>8. RequestOK(x)
  BY <1>4, <1>5, <1>6, <1>7 DEF RequestOK, Begun
<1>9. QED
  BY <1>8 DEF x

LEMMA SearchSemanticOK ==
  ASSUME SearchInv, BoundsAssumption, NEW q \in Request, SearchSemantic(q)
  PROVE  RequestOK(request'[q])
<1> DEFINE
  r == request[q]
  x == request'[q]
  rows == r.snapshot.rows
  P == Passages(rows)
  semantic == SemanticSearch(Candidates(P, FirstCandidates),
                             Candidates(P, RetryCandidates), Depth)
  fused == FuseHybrid(r.literal, semantic)
<1>1. r.pc = "semantic" /\ Begun(r)
  BY DEF SearchSemantic, At, Begun
<1>2. /\ SnapshotOK(r) /\ AnswerOK(r) /\ ExactOK(r) /\ DOMAIN r = Fields
      /\ r.outcome = "none" /\ r.kind # "exhaustive" /\ RowsOfTable(rows)
  BY <1>1, BegunFacts DEF ExactOK
<1>3. CASE Ends(q, "semantic_unavailable")
  BY <1>1, <1>3, EndsOK
<1>4. CASE Step(q, [pc |-> "envelope", mode |-> "hybrid",
                    semantic |-> semantic, hits |-> fused])
  <2>1. x = Override(r, [pc |-> "envelope", mode |-> "hybrid",
                         semantic |-> semantic, hits |-> fused])
    BY <1>4, GoesFacts DEF Step
  <2>2. r.literal \in Seq(ProseOf(rows))
    BY <1>1, <1>2 DEF AnswerOK
  <2> HIDE DEF r, x, rows, P, semantic, fused
  <2>3. /\ semantic \in Seq(Embedded(rows))
        /\ ExactRanking(rows) \in Seq(Embedded(rows))
        /\ Begins(semantic, ExactRanking(rows))
        /\ \/ Len(semantic) = Len(Top(ExactRanking(rows), Depth))
           \/ Cardinality(Passages(rows)) > RetryCandidates
    BY <1>2, SemanticFacts DEF P, semantic
  <2>4. Embedded(rows) \subseteq ProseOf(rows)
    BY <1>2, RowFields DEF Embedded, ProseOf
  <2>5. semantic \in Seq(ProseOf(rows))
    BY <2>3, <2>4
  <2>6. fused \in Seq(ProseOf(rows))
    BY <1>2, <2>2, <2>5, FuseFacts DEF fused
  <2>7. fused \in Seq(rows)
    <3>1. ProseOf(rows) \subseteq rows
      BY DEF ProseOf
    <3>2. QED
      BY <2>6, <3>1
  <2>8. /\ DOMAIN x = Fields /\ x.pc = "envelope" /\ x.kind = r.kind
        /\ x.outcome = "none" /\ x.mode = "hybrid" /\ x.hits = fused
        /\ x.literal = r.literal /\ x.semantic = semantic
        /\ x.from = r.from /\ x.snapshot = r.snapshot
    BY <1>2, <2>1 DEF Override, Fields
  <2>9. SnapshotOK(x)
    BY <1>2, <2>8 DEF SnapshotOK
  <2>10. AnswerOK(x)
    BY <2>7, <2>8 DEF AnswerOK, Ready, rows
  <2>11. ExactOK(x)
    BY <1>2, <2>3, <2>8 DEF ExactOK, rows
  <2>12. RequestOK(x)
    BY <2>8, <2>9, <2>10, <2>11 DEF RequestOK, Begun
  <2>13. QED
    BY <2>12 DEF x
<1>5. QED
  BY <1>3, <1>4 DEF SearchSemantic, Seen

LEMMA EnvelopeOK ==
  ASSUME SearchInv, NEW q \in Request, Envelope(q)
  PROVE  RequestOK(request'[q])
<1> DEFINE
  r == request[q]
  x == request'[q]
  mode == IF r.snapshot.ready \/ r.mode # "hybrid"
          THEN r.mode ELSE "literal_fallback"
<1>1. r.pc = "envelope" /\ Begun(r)
  BY DEF Envelope, At, Begun
<1>2. /\ SnapshotOK(r) /\ AnswerOK(r) /\ ExactOK(r) /\ DOMAIN r = Fields
      /\ r.outcome = "none"
  BY <1>1, BegunFacts
<1>3. x = Override(r, [pc |-> "resolve",
                       generation |-> r.snapshot.selected, mode |-> mode])
  BY GoesFacts DEF Envelope, Step, Seen
<1>4. mode = "hybrid" => r.mode = "hybrid" /\ r.snapshot.ready
  OBVIOUS
<1> HIDE DEF r, x, mode
<1>5. /\ DOMAIN x = Fields /\ x.pc = "resolve" /\ x.kind = r.kind
      /\ x.outcome = "none" /\ x.mode = mode /\ x.hits = r.hits
      /\ x.literal = r.literal /\ x.semantic = r.semantic
      /\ x.from = r.from /\ x.snapshot = r.snapshot
      /\ x.generation = r.snapshot.selected
  BY <1>2, <1>3 DEF Override, Fields
<1>6. SnapshotOK(x)
  BY <1>2, <1>5 DEF SnapshotOK
<1>7. AnswerOK(x)
  BY <1>2, <1>4, <1>5 DEF AnswerOK, Ready
<1>8. ExactOK(x)
  BY <1>1, <1>2, <1>4, <1>5 DEF ExactOK, Ready, r
<1>9. RequestOK(x)
  BY <1>5, <1>6, <1>7, <1>8 DEF RequestOK, Begun
<1>10. QED
  BY <1>9 DEF x

(* No hit is missing when it is resolved.                                  *)
LEMMA ResolveOK ==
  ASSUME SearchInv, NEW q \in Request, Resolve(q)
  PROVE  RequestOK(request'[q])
<1> DEFINE r == request[q]
<1>1. r.pc = "resolve" /\ Begun(r)
  BY DEF Resolve, At, Begun
<1>2. r.hits \in Seq(r.snapshot.rows)
  BY <1>1, BegunFacts DEF AnswerOK
<1>3. \A h \in ToSet(r.hits) : \E s \in r.snapshot.rows :
        s.locator = h.locator /\ s.key = h.key
  BY <1>2, ToSetFacts
<1>4. Ends(q, "complete")
  BY <1>3 DEF Resolve, Seen
<1>5. QED
  BY <1>1, <1>4, EndsOK

LEMMA ExpireOK ==
  ASSUME SearchInv, NEW q \in Request, Expire(q)
  PROVE  RequestOK(request'[q])
<1>1. Begun(request[q])
  BY DEF Expire, Begun
<1>2. CASE At(q, "resolve")
  <2>1. Ends(q, "partial") /\ request[q].pc = "resolve"
    BY <1>2 DEF Expire, At
  <2>2. QED
    BY <1>1, <2>1, EndsOK
<1>3. CASE ~ At(q, "resolve")
  <2>1. Ends(q, "deadline")
    BY <1>3 DEF Expire
  <2>2. QED
    BY <1>1, <2>1, EndsOK
<1>4. QED
  BY <1>2, <1>3

LEMMA DieOK ==
  ASSUME SearchInv, NEW q \in Request, Die(q)
  PROVE  RequestOK(request'[q])
<1>1. Begun(request[q]) /\ Ends(q, "killed")
  BY DEF Die, Begun
<1>2. QED
  BY <1>1, EndsOK

LEMMA SearchKeeps ==
  ASSUME IInv, SearchInv, BoundsAssumption, NEW q \in Request,
         Search(q) \/ Expire(q) \/ Die(q)
  PROVE  IInv' /\ SearchInv'
<1>1. RequestOK(request'[q])
  BY BeginOK, QueuedReadOK, SearchLiteralOK, SearchPageOK, VerifyRevisionOK,
     EmbedOK, SearchSemanticOK, EnvelopeOK, ResolveOK, ExpireOK, DieOK
     DEF Search
<1>2. /\ UNCHANGED <<guardVars, corpus, past>>
      /\ \E changes : Goes(q, changes)
  BY DEF Search, BeginSearchSnapshot, QueuedRead, SearchLiteral, SearchPage,
         VerifyRevision, Embed, SearchSemantic, Envelope, Resolve, Expire,
         Die, Step, Ends
<1>3. /\ \A p \in Request \ {q} : request'[p] = request[p]
      /\ request' = [p \in Request |-> request'[p]]
  BY <1>2, GoesFacts
<1>4. IInv'
  <2>1. [GuardNext]_guardVars
    BY <1>2
  <2>2. QED
    BY <2>1, GuardAssumption, NextInv
<1>5. PastInv'
  BY <1>2 DEF SearchInv, PastInv, guardVars
<1>6. ASSUME NEW p \in Request PROVE RequestOK(request[p])'
  <2>1. RequestOK(request'[p])
    BY <1>1, <1>3 DEF SearchInv
  <2>2. \A r : RequestOK(r) => RequestOK(r)'
    BY <1>2 DEF RequestOK, Begun, SnapshotOK, RowsAt, AnswerOK, ExactOK,
                Ready
  <2>3. QED
    BY <2>1, <2>2
<1>7. QED
  BY <1>3, <1>4, <1>5, <1>6 DEF SearchInv

(***************************************************************************)
(* Theorems.                                                               *)
(***************************************************************************)
LEMMA NextSearch ==
  ASSUME IInv, SearchInv, BoundsAssumption, GuardAssumption, [Next]_vars
  PROVE  IInv' /\ SearchInv'
<1>1. CASE Beside(GuardNext)
  BY <1>1, BesideKeeps
<1>2. ASSUME NEW q \in Request, Search(q) \/ Expire(q) \/ Die(q)
      PROVE  IInv' /\ SearchInv'
  BY <1>2, SearchKeeps
<1>3. CASE UNCHANGED vars
  <2>1. UNCHANGED <<guardVars, corpus, request, past>>
    BY <1>3 DEF vars, requestVars
  <2>2. IInv'
    <3>1. [GuardNext]_guardVars
      BY <2>1
    <3>2. QED
      BY <3>1, NextInv
  <2>3. PastInv'
    BY <2>1 DEF SearchInv, PastInv, guardVars
  <2>4. ASSUME NEW q \in Request PROVE RequestOK(request[q])'
    <3>1. RequestOK(request[q])
      BY DEF SearchInv
    <3>2. QED
      BY <2>1, <3>1 DEF RequestOK, Begun, SnapshotOK, RowsAt, AnswerOK,
                        ExactOK, Ready
  <2>5. QED
    BY <2>1, <2>2, <2>3, <2>4 DEF SearchInv
<1>4. QED
  BY <1>1, <1>2, <1>3 DEF Next

LEMMA AnswersOfOneCorpus == SearchInv => AnswerIsOneCorpus
<1>1. SUFFICES ASSUME SearchInv, NEW q \in Request
      PROVE  /\ request[q].outcome # "stale"
             /\ Answered(q) =>
                  \E i \in request[q].from .. request[q].until :
                    /\ past[i].selected = request[q].generation
                    /\ ToSet(request[q].hits) \subseteq
                         IF past[i].content = None THEN {}
                         ELSE corpus[past[i].content]
                    /\ request[q].mode = "hybrid" => past[i].selected # None
  BY DEF AnswerIsOneCorpus
<1> DEFINE r == request[q]
<1>2. RequestOK(r)
  BY <1>1 DEF SearchInv
<1>3. CASE ~ Begun(r)
  <2>1. r.outcome = "none"
    BY <1>2, <1>3 DEF RequestOK, Begun
  <2>2. QED
    BY <2>1 DEF Answered
<1>4. CASE Begun(r)
  <2>1. SnapshotOK(r) /\ AnswerOK(r) /\ (r.pc # "ended" => r.outcome = "none")
    BY <1>1, <1>4, BegunFacts
  <2>2. SUFFICES ASSUME Answered(q)
        PROVE  /\ r.from \in r.from .. r.until
               /\ past[r.from].selected = r.generation
               /\ ToSet(r.hits) \subseteq RowsAt(r.from)
               /\ r.mode = "hybrid" => past[r.from].selected # None
    BY <2>1 DEF RowsAt, AnswerOK
  <2>3. Ready(r) /\ r.pc = "ended"
    BY <2>1, <2>2 DEF Answered, Ready
  <2>4. r.from \in r.from .. r.until
    <3>1. r.from \in Int
      BY <2>1 DEF SnapshotOK
    <3>2. r.until \in Int /\ r.from <= r.until
      BY <2>1, <2>3 DEF AnswerOK
    <3>3. QED
      BY <3>1, <3>2
  <2>5. ToSet(r.hits) \subseteq RowsAt(r.from)
    <3>1. r.hits \in Seq(RowsAt(r.from))
      BY <2>1 DEF AnswerOK, SnapshotOK
    <3>2. QED
      BY <3>1, ToSetFacts
  <2>6. QED
    BY <2>1, <2>3, <2>4, <2>5 DEF SnapshotOK, AnswerOK
<1>5. QED
  BY <1>3, <1>4

LEMMA AnswersAreExact ==
  ASSUME SearchInv, BoundsAssumption
  PROVE  HitsAreExact
<1>1. SUFFICES ASSUME NEW q \in Request, Answered(q)
      PROVE  LET rows == request[q].snapshot.rows
                 exact == Sorted(Embedded(rows), Better)
                 hits == request[q].semantic
             IN  /\ request[q].mode = "hybrid" =>
                      /\ hits = Top(exact, Len(hits))
                      /\ \/ Len(hits) = Len(Top(exact, Depth))
                         \/ Cardinality(Passages(rows)) > RetryCandidates
                 /\ request[q].kind = "exhaustive" =>
                      /\ ToSet(request[q].hits) = Matching(rows)
                      /\ Len(request[q].hits) = Cardinality(Matching(rows))
  BY DEF HitsAreExact
<1> DEFINE
  r == request[q]
  rows == r.snapshot.rows
  exact == ExactRanking(rows)
  hits == r.semantic
<1>2. Begun(r) /\ Ready(r)
  BY <1>1 DEF Answered, Ready, Begun, SearchInv, RequestOK
<1>3. ExactOK(r) /\ RowsOfTable(rows)
  BY <1>2, BegunFacts
<1>4. ASSUME r.mode = "hybrid"
      PROVE  /\ hits = Top(exact, Len(hits))
             /\ \/ Len(hits) = Len(Top(exact, Depth))
                \/ Cardinality(Passages(rows)) > RetryCandidates
  <2>1. /\ hits \in Seq(Embedded(rows)) /\ exact \in Seq(Embedded(rows))
        /\ Begins(hits, exact)
        /\ \/ Len(hits) = Len(Top(exact, Depth))
           \/ Cardinality(Passages(rows)) > RetryCandidates
    BY <1>3, <1>4 DEF ExactOK
  <2> DEFINE top == Top(exact, Len(hits))
  <2> HIDE DEF hits, exact, rows
  <2>2. Len(hits) \in Nat /\ Len(hits) <= Len(exact) /\ Len(exact) \in Nat
    BY <2>1 DEF Begins
  <2>3. /\ top \in Seq(Embedded(rows))
        /\ Len(top) = IF Len(exact) < Len(hits) THEN Len(exact) ELSE Len(hits)
        /\ \A i \in 1 .. Len(top) : top[i] = exact[i]
    BY <2>1, <2>2, TopFacts
  <2> HIDE DEF top
  <2>4. Len(top) = Len(hits)
    BY <2>2, <2>3
  <2>5. \A i \in 1 .. Len(hits) : hits[i] = top[i]
    BY <2>1, <2>3, <2>4 DEF Begins
  <2>6. hits = top
    BY <2>1, <2>3, <2>4, <2>5
  <2>7. QED
    BY <2>1, <2>6 DEF top
<1>5. ASSUME r.kind = "exhaustive"
      PROVE  /\ ToSet(r.hits) = Matching(rows)
             /\ Len(r.hits) = Cardinality(Matching(rows))
  <2>1. r.hits = Pages(rows)
    BY <1>2, <1>3, <1>5 DEF ExactOK
  <2>2. QED
    BY <1>3, <2>1, PagesFacts
<1>6. QED
  BY <1>4, <1>5 DEF ExactRanking

LEMMA SearchInvariance == Spec => [](IInv /\ SearchInv)
<1>1. Init => IInv /\ SearchInv
  BY InitSearch, GuardAssumption, RowsAssumption
<1>2. (IInv /\ SearchInv) /\ [Next]_vars => (IInv /\ SearchInv)'
  BY NextSearch, BoundsAssumption, GuardAssumption
<1>3. QED
  BY <1>1, <1>2, PTL DEF Spec

(* Every answer, whatever is published, selected and demoted while the     *)
(* search waits for the queue and the model, is one corpus that was        *)
(* current, and none of its hits is missing when it is resolved            *)
(* (_begin_search_snapshot).                                               *)
THEOREM SnapshotIsKept == Spec => []AnswerIsOneCorpus
<1>1. IInv /\ SearchInv => AnswerIsOneCorpus
  BY AnswersOfOneCorpus
<1>2. QED
  BY <1>1, SearchInvariance, PTL

(* For any limits, page size and bounds on passages, and any corpora that  *)
(* the tables allow, the semantic list begins the exact ranking, in full   *)
(* unless the retry reached its bound, and the pages of an exhaustive      *)
(* search are every matching row once (semantic_search,                    *)
(* exhaustive_search_page).                                                *)
THEOREM CutsLoseNothing == Spec => []HitsAreExact
<1>1. IInv /\ SearchInv => HitsAreExact
  BY AnswersAreExact, BoundsAssumption
<1>2. QED
  BY <1>1, SearchInvariance, PTL

(* The guard keeps the selection coherent beside searches too: a search    *)
(* changes nothing that it looks at                                        *)
(* (require_coherent_selection_after_pair_update).                         *)
THEOREM SearchesKeepCoherence == Spec => []CoherentSelection
<1>1. IInv /\ SearchInv => CoherentSelection
  BY DEF IInv
<1>2. QED
  BY <1>1, SearchInvariance, PTL
=============================================================================
