---------------------------- MODULE MCRunHarness ----------------------------
(***************************************************************************)
(* A small run for TLC: a serial stage of one role, then a parallel stage  *)
(* of two, as the phases of the repository that open with a lead and fan   *)
(* out to reviewers.                                                       *)
(***************************************************************************)
EXTENDS RunHarness, TLC

CONSTANTS lead, left, right

MCStageOf == [i \in Inv |-> IF i = lead THEN 1 ELSE 2]

\* The two roles of the parallel stage are interchangeable.
MCSymmetry == Permutations({left, right})

=============================================================================
