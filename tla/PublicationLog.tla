--------------------------- MODULE PublicationLog ---------------------------
(***************************************************************************)
(* What a reader of a project's formal records may rely on: the receipts   *)
(* form one log, every entry was computed from exactly the generations     *)
(* that were current when it was appended, it overwrites nothing it has    *)
(* not seen, and no run or command ever appears twice.                     *)
(***************************************************************************)
EXTENDS Naturals, Sequences

CONSTANTS
    Slot,      \* logical slots of the current index
    Origin,    \* what can publish: runs and commands
    Absent     \* no generation

VARIABLES
    log,       \* publication_receipts of the project, in order
    current    \* current_slots: the generation in each slot, by its origin

Init == log = <<>> /\ current \in [Slot -> Origin \cup {Absent}]

Commit(by, reads, writes) ==
    /\ \A i \in DOMAIN log : log[i].by # by
    /\ writes # {} /\ writes \subseteq DOMAIN reads
    /\ \A s \in DOMAIN reads : reads[s] = current[s]
    /\ log' = Append(log, [by |-> by, reads |-> reads, writes |-> writes])
    /\ current' = [s \in Slot |-> IF s \in writes THEN by ELSE current[s]]

\* The entry is the one that the step appends.
Next == LET e == log'[Len(log) + 1]
        IN  Len(log') = Len(log) + 1 /\ Commit(e.by, e.reads, e.writes)

Spec == Init /\ [][Next]_<<log, current>>

=============================================================================
