--------------------------- MODULE MCIndexLedger ---------------------------
(***************************************************************************)
(* IndexLedger for TLC, with a claim the documentation makes of every      *)
(* failure and the code keeps only in part.                                *)
(***************************************************************************)
EXTENDS IndexLedger

(* docs/architecture/database.md: "Failure marks the candidate             *)
(* generation/build failed".                                               *)
FailureMarksBuild ==
  \A p \in Procs : outcome[p] = "raised" /\ myBuild[p] # 0 =>
    build[myBuild[p]].status # "building"
=============================================================================
