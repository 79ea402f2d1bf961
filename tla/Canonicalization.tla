------------------------- MODULE Canonicalization -------------------------
(***************************************************************************)
(* core/canonicalization.py: a Codex transcript records a visible message  *)
(* twice, as a response_item and as an event_msg; the two are paired when  *)
(* nothing else could be meant.                                            *)
(*                                                                         *)
(* A candidate is one occurrence, of one file: its ordinal, family,        *)
(* locator, session, kind, epoch, role, class, text, time and cwd.  Time 0 *)
(* is a timestamp that does not parse.  The buckets of the code only save  *)
(* comparisons: a pair of one bucket agrees on what Compatible compares.   *)
(***************************************************************************)
EXTENDS NativeIdentity, FiniteSets

Projection(c) == c.family \in {"response", "event"}

(* _timestamps_follow_physical_order.                                      *)
InOrder(c, d) ==
  /\ c.time # 0 /\ d.time # 0
  /\ c.ord <= d.ord => c.time <= d.time
  /\ d.ord <= c.ord => d.time <= c.time

(* _base_compatible.                                                       *)
Compatible(c, d) ==
  /\ {c.family, d.family} = {"response", "event"}
  /\ <<c.session, c.kind, c.epoch, c.role, c.text>>
       = <<d.session, d.kind, d.epoch, d.role, d.text>>
  /\ c.class = "prose" /\ d.class = "prose"
  /\ InOrder(c, d)

Partners(c, all) == {d \in all : Compatible(c, d)}

(* _has_intervening_visible_message.                                       *)
NeverBetween(c, d, all) == {}                    \* mutant
Between(c, d, all) ==
  {x \in all : /\ x.class = "prose"
               /\ x.session = c.session /\ x.epoch = c.epoch
               /\ \/ c.ord < x.ord /\ x.ord < d.ord
                  \/ d.ord < x.ord /\ x.ord < c.ord}

Paired(c, d, all) ==
  /\ Partners(c, all) = {d}
  /\ Partners(d, all) = {c}
  /\ Between(c, d, all) = {}

(* The diagnostic of a projection that stays alone.                        *)
Ambiguous(c, all) ==
  \E p \in Partners(c, all) \cup {c} : Cardinality(Partners(p, all)) > 1

(* _merge_messages: the earliest occurrence speaks for the message.        *)
Merged(cs) ==
  LET first == CHOOSE c \in cs : \A d \in cs : c.ord <= d.ord
      aliases == {Alias(c.ord, c.locator) : c \in cs}
      identity == Identity(aliases)
  IN [id |-> identity.id, locator |-> identity.locator, aliases |-> aliases,
      time |-> first.time, role |-> first.role, kind |-> first.kind,
      epoch |-> first.epoch, class |-> first.class, text |-> first.text,
      cwd |-> first.cwd, harness |-> first.harness]

(* canonicalize_codex_candidates.                                          *)
Group(c, all) == {c} \cup {d \in all : Paired(c, d, all)}
Canonicalize(all) == {Merged(Group(c, all)) : c \in all}
=============================================================================
