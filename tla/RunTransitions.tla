--------------------------- MODULE RunTransitions ---------------------------
(***************************************************************************)
(* The status vocabulary of a research run and the table of legal status   *)
(* transitions, as the enumeration RunStatus and the mapping _TRANSITIONS  *)
(* of src/model_forge/domain/runs.py define them.                          *)
(***************************************************************************)

RunStatus ==
    {"created", "preparing", "prepared", "running",
     "cancellation_requested", "cancelled",
     "submitted", "validating", "promoting", "published",
     "failed", "rejected", "conflicted",
     "correction_authorized", "correcting", "correction_exhausted"}

TerminalRunStatuses ==
    {"cancelled", "published", "failed", "rejected", "conflicted",
     "correction_exhausted"}

ActiveRunStatuses == RunStatus \ TerminalRunStatuses

\* A run can be cancelled only before its submission is sealed.
Cancellable == {"created", "preparing", "prepared", "running"}

\* _TRANSITIONS: the statuses that may follow each status.
Transitions ==
    [s \in RunStatus |->
        CASE s = "created"    -> {"preparing", "cancellation_requested", "failed"}
          [] s = "preparing"  -> {"prepared", "cancellation_requested",
                                  "conflicted", "failed"}
          [] s = "prepared"   -> {"running", "cancellation_requested", "failed"}
          [] s = "running"    -> {"submitted", "cancellation_requested", "failed"}
          [] s = "cancellation_requested" -> {"cancelled"}
          [] s = "submitted"  -> {"validating", "rejected", "failed"}
          [] s = "validating" -> {"promoting", "rejected", "conflicted", "failed"}
          [] s = "promoting"  -> {"published", "conflicted", "failed"}
          [] s \in {"failed", "rejected"} -> {"correction_authorized"}
          [] s = "correction_authorized" -> {"correcting", "correction_exhausted"}
          [] s = "correcting" -> {"submitted", "correction_exhausted", "running"}
          [] OTHER            -> {}]

=============================================================================
