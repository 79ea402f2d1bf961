-------------------------- MODULE MCQueryEmbedder --------------------------
(* Instances of QueryEmbedder for TLC.                                     *)
EXTENDS QueryEmbedder

CONSTANTS s1, old, new

SameVersion(s) == new
OneOld(s) == IF s = s1 THEN old ELSE new
=============================================================================
