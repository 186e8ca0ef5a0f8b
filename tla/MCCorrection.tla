---------------------------- MODULE MCCorrection ----------------------------
(***************************************************************************)
(* A small correction lane for TLC: a first stage whose role declares two  *)
(* outputs, so that a scope can leave one of them out, and a second stage  *)
(* that has not run when the first one fails.                              *)
(***************************************************************************)
EXTENDS Correction

CONSTANTS author, reviewer, claim, proof, review

MCStageOf == [r \in Role |-> IF r = author THEN 1 ELSE 2]

MCOwnerOf == [o \in Output |-> IF o = review THEN reviewer ELSE author]

=============================================================================
