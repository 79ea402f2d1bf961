-------------------------- MODULE MCSemanticBuild --------------------------
(* An instance of SemanticBuild for TLC: a second version with another     *)
(* chunker, a third with another model.  Texts share passages, and one     *)
(* repeats a passage.                                                      *)
EXTENDS SemanticBuild, TLC

CONSTANTS m1, m2, short, long

ThreeVersions == <<1, 2, 2>>
ThirdModel == <<1, 1, 2>>
SharedPassages ==
  <<(short :> <<2>>) @@ (long :> <<1, 2, 2>>),
    (short :> <<1>>) @@ (long :> <<2, 3>>)>>
=============================================================================
