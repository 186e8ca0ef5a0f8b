----------------------------- MODULE RunJournal -----------------------------
(***************************************************************************)
(* What the durable record of one run promises to a reader who sees only   *)
(* the database: the status, the cancellation fence, the immutable         *)
(* submission row and the publication receipt.  No process, no server, no  *)
(* crash: a run moves along the transition table, cancellation and         *)
(* submission exclude each other, and the receipt exists exactly when the  *)
(* run is about to be, or is, published.  RunHarness implements it.        *)
(***************************************************************************)
EXTENDS RunTransitions

VARIABLES status, fenced, submission, receipt

vars == <<status, fenced, submission, receipt>>

Init ==
    /\ status = "created"
    /\ fenced = FALSE
    /\ submission = FALSE
    /\ receipt = FALSE

\* The harness moves the run along the table.  The three moves that carry
\* another durable fact with them are actions of their own.
Advance ==
    /\ ~receipt
    /\ status' \in Transitions[status]
                     \ {"cancellation_requested", "submitted", "published",
                        "correction_authorized"}
    /\ UNCHANGED <<fenced, submission, receipt>>

RequestCancellation ==
    /\ status \in Cancellable
    /\ ~submission
    /\ status' = "cancellation_requested"
    /\ fenced' = TRUE
    /\ UNCHANGED <<submission, receipt>>

Submit ==
    /\ status = "running"
    /\ ~fenced
    /\ status' = "submitted"
    /\ submission' = TRUE
    /\ UNCHANGED <<fenced, receipt>>

\* The publication transaction commits before the status says so.
Commit ==
    /\ status = "promoting"
    /\ submission
    /\ ~receipt
    /\ receipt' = TRUE
    /\ UNCHANGED <<status, fenced, submission>>

Publish ==
    /\ status = "promoting"
    /\ receipt
    /\ status' = "published"
    /\ UNCHANGED <<fenced, submission, receipt>>

Next == Advance \/ RequestCancellation \/ Submit \/ Commit \/ Publish

Spec == Init /\ [][Next]_vars

=============================================================================
