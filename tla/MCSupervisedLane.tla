-------------------------- MODULE MCSupervisedLane --------------------------
(***************************************************************************)
(* Two invocations of one project-role for TLC.                            *)
(***************************************************************************)
EXTENDS SupervisedLane

=============================================================================
