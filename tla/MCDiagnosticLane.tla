-------------------------- MODULE MCDiagnosticLane --------------------------
(***************************************************************************)
(* Two start commands and a cancel command on one profile for TLC.         *)
(***************************************************************************)
EXTENDS DiagnosticLane, TLC

\* Start commands are interchangeable, and so are keys.
MCSymmetry == Permutations(Start) \cup Permutations(Key)

=============================================================================
