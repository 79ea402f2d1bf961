-------------------------- MODULE MCSearchRequest --------------------------
(* Instances of SearchRequest for TLC: concurrent transactions without a   *)
(* search, searches beside a publication and an operator, and one search   *)
(* over every small corpus.                                                *)
EXTENDS SearchRequest

CONSTANTS p1, o1, o2, q1, q2, g1, g2

Database(pairs, selected, content) ==
  [x \in Row |->
     CASE x = State -> selected
       [] x = Content -> content
       [] OTHER -> pairs[x[2]]]

Published == Database((g1 :> "complete") @@ (g2 :> "building"), g1, g1)
TwoPublished == Database((g1 :> "complete") @@ (g2 :> "complete"), g2, g2)
Migrated == Database((g1 :> "complete") @@ (g2 :> "building"), None, g1)
Databases == {Published, TwoPublished, Migrated}

(* Messages: a key, whether the words match, and the passages.             *)
Message(k, rank, scores) ==
  [key |-> k, locator |-> 4 - k, class |-> Prose, rank |-> rank,
   scores |-> scores]
Tool(k, l, class) ==
  [key |-> k, locator |-> l, class |-> class, rank |-> 1, scores |-> <<>>]

Old == {Message(1, 1, <<1>>), Message(2, 2, <<2>>), Tool(1, 3, 2)}
New == {Message(2, 1, <<2, 1>>), Message(3, 1, <<1>>)}
OldAndNew == (g1 :> Old) @@ (g2 :> New)

Scores == {<<1>>, <<2>>, <<1, 2>>, <<2, 2>>, <<2, 2, 2>>}
SmallCorpora ==
  {[g \in Generation |->
      {Message(1, r1, s1), Message(2, r2, s2), Message(3, 1, s3)}] :
     r1 \in {0, 2}, r2 \in {0, 1}, s1 \in Scores, s2 \in Scores,
     s3 \in Scores}

(* Tool rows of one record, and of several messages with one locator.      *)
ToolRows ==
  {Tool(k, l, c) : k \in {1, 2, 3}, l \in {1, 2}, c \in {1, 3}}
Keyed(rows) ==
  \A r, s \in rows : r.key = s.key /\ r.class = s.class => r = s
PagedCorpora ==
  {[g \in Generation |-> rows] : rows \in {s \in SUBSET ToolRows : Keyed(s)}}

Kinds == {"literal", "tools", "exhaustive", "hybrid"}
AllLoads ==
  {[transactions |-> {p1, o1, o2}, requests |-> {}, kinds |-> {"literal"},
    databases |-> Databases, corpora |-> {OldAndNew}],
   [transactions |-> {p1, o1}, requests |-> {q1}, kinds |-> Kinds,
    databases |-> Databases, corpora |-> {OldAndNew}],
   [transactions |-> {p1}, requests |-> {q1, q2}, kinds |-> Kinds,
    databases |-> {Published, Migrated}, corpora |-> {OldAndNew}],
   [transactions |-> {}, requests |-> {q1}, kinds |-> {"hybrid"},
    databases |-> {Published}, corpora |-> SmallCorpora],
   [transactions |-> {}, requests |-> {q1}, kinds |-> {"exhaustive"},
    databases |-> {Published}, corpora |-> PagedCorpora]}
=============================================================================
