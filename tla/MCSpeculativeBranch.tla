------------------------ MODULE MCSpeculativeBranch -------------------------
(***************************************************************************)
(* Instances of SpeculativeBranch for TLC.                                 *)
(***************************************************************************)
EXTENDS SpeculativeBranch

CONSTANTS s1, s2, s3        \* model values

MCStrategies == {s1, s2, s3}
=============================================================================
