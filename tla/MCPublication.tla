---------------------------- MODULE MCPublication ----------------------------
(***************************************************************************)
(* A small project for TLC: two methods, two runs, two requests.           *)
(***************************************************************************)
EXTENDS Publication, TLC

CONSTANTS a, b

\* A method, a second one, and a portfolio that retires the first.
MCDraft == {a :> "active", b :> "proposed", a :> "retired" @@ b :> "active"}

=============================================================================
