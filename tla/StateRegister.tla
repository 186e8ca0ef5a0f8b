--------------------------- MODULE StateRegister ---------------------------
(***************************************************************************)
(* What the role state of a project promises its readers: one register     *)
(* per target that successful runs replace, all targets of a run and its   *)
(* promotion record in one step, each run once.  Only a replacement that   *)
(* is cut short, because the server is killed or the rollback fails too,   *)
(* may leave a mixture of the state before it and that of its run.         *)
(***************************************************************************)
EXTENDS Naturals, Sequences

CONSTANTS
    Invocation,
    Target,    \* what is promoted
    Absent     \* a target nobody has written yet

VARIABLES
    value,     \* content of each target, by the run that wrote it
    record,    \* run_promotion_records, oldest first
    damaged    \* the number of replacements that were cut short

Init ==
    /\ value = [t \in Target |-> Absent]
    /\ record = <<>>
    /\ damaged = 0

Unrecorded(i) == \A n \in DOMAIN record : record[n].by # i

Promote(i, ts) ==
    /\ Unrecorded(i)
    /\ value' = [t \in Target |-> IF t \in ts THEN i ELSE value[t]]
    /\ record' = Append(record, [by |-> i, targets |-> ts])
    /\ UNCHANGED damaged

\* A target stays, becomes that of the run, or is gone.
Damage(i) ==
    /\ Unrecorded(i)
    /\ damaged' = damaged + 1
    /\ value' \in [Target -> Invocation \cup {Absent}]
    /\ \A t \in Target : value'[t] \in {value[t], i, Absent}
    /\ UNCHANGED record

Next ==
    \/ \E i \in Invocation, ts \in SUBSET Target : Promote(i, ts)
    \/ \E i \in Invocation : Damage(i)

Spec == Init /\ [][Next]_<<value, record, damaged>>

=============================================================================
