-------------------------- MODULE MCSourceRefresh --------------------------
(* Instances of SourceRefresh for TLC.  Root i holds file i.               *)
EXTENDS SourceRefresh

CONSTANTS A, B, t1, t2

OwnRoot(f) == f
Says(i, t) == [kind |-> "message", id |-> i, text |-> t]

(* Two copies of a session, in two roots: identities are shared, and the   *)
(* copies may disagree on one.                                             *)
SharedWrites(f) ==
  {Says(A, t1)} \cup
    IF f = 1 THEN [kind : {"foreign"}] ELSE {Says(A, t2), Says(B, t1)}

(* Sessions of their own.  Plain records, then records that establish cwd, *)
(* block the source or put it out of scope.                                *)
Plain(f) == {Says(IF f = 1 THEN A ELSE B, t1)}
CwdWrites(f) == Plain(f) \cup [kind : {"cwd", "unknown", "foreign"}]
ForeignWrites(f) == Plain(f) \cup [kind : {"foreign"}]

(* Two copies of a session, of which one goes on to establish a cwd.       *)
CopiedCwdWrites(f) ==
  {Says(A, t1)} \cup (IF f = 1 THEN [kind : {"cwd"}] ELSE {})

BothWrites(f) == {Says(A, t1), Says(B, t1)}

FirstRoot == {{1}}
SecondRoot == {{2}}
BothRoots == {{1, 2}}
SomeRoots == {{2}, {1, 2}}
NoFlags == {[force |-> FALSE, ignore |-> FALSE]}
SomeFlags == {[force |-> b, ignore |-> b] : b \in BOOLEAN}
=============================================================================
