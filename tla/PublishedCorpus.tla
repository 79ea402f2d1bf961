-------------------------- MODULE PublishedCorpus --------------------------
(***************************************************************************)
(* What the index promises its readers: one corpus is current, publication *)
(* replaces it by a newer one in a single step, and a reader that opened a *)
(* transaction keeps the corpus that was current then, until it closes.    *)
(***************************************************************************)
EXTENDS Integers

CONSTANTS
  Readers,
  Generations     \* positive integers, newer ones greater

VARIABLES
  current,    \* the published generation, 0 before the first publication
  pinned      \* the generation each reader sees, or Closed

vars == <<current, pinned>>

Closed == -1

Init ==
  /\ current = 0
  /\ pinned = [r \in Readers |-> Closed]

Publish ==
  /\ \E g \in Generations : g > current /\ current' = g
  /\ UNCHANGED pinned

Open(r) ==
  /\ pinned[r] = Closed
  /\ current # 0
  /\ pinned' = [pinned EXCEPT ![r] = current]
  /\ UNCHANGED current

Close(r) ==
  /\ pinned[r] # Closed
  /\ pinned' = [pinned EXCEPT ![r] = Closed]
  /\ UNCHANGED current

Next == Publish \/ \E r \in Readers : Open(r) \/ Close(r)

Spec == Init /\ [][Next]_vars
=============================================================================
