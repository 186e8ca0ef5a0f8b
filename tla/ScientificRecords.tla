-------------------------- MODULE ScientificRecords --------------------------
(***************************************************************************)
(* The scientific records of one project: what the agents of a run write,  *)
(* what the harness fills in, what the validators of a phase report, how   *)
(* a rejected run is corrected, and what a publication makes of it.        *)
(*                                                                         *)
(* Runs follow each other; that several of them compete for the formal     *)
(* head is in Publication, and how a correction is executed in Correction. *)
(* A document keeps the fields that some validator relates to each other:  *)
(* identifiers and references, identities, statuses, and of its prose      *)
(* whether it is there.                                                    *)
(***************************************************************************)
EXTENDS Naturals, Sequences, FiniteSets, SequencesExt

CONSTANTS
    Method,       \* stable ids of methods
    Digest,       \* digests of method definitions
    MaxVersion,   \* bound: versions of a method
    Mode,         \* the modes that are run
    Writes,       \* the documents that agents may write for each output
    Earlier,      \* the records that earlier runs have published
    MaxRuns,      \* bound: runs after them
    None

Identity == [of : Method, version : 1 .. MaxVersion, digest : Digest]

LiteratureModes == {"literature_update"}
MethodModes == {"full_catalog", "researcher_proposal", "focused_method"}
TheoryModes == {"theory_establishment", "theory_revision"}
EmpiricalModes == {"preliminary", "comprehensive"}
ManuscriptModes == {"assembly", "review_revision"}
MethodBound == TheoryModes \cup EmpiricalModes \cup ManuscriptModes \cup {"focused_method"}

\* The outputs that the validators read, and who writes them.
Outputs(m) ==
    CASE m \in LiteratureModes -> {"source_changes", "synthesis"}
      [] m \in MethodModes -> {"method_changes", "theory_review", "empirical_review"}
      [] m \in TheoryModes -> {"theory_candidate", "analyst_audit", "complete_theory"}
      [] m \in EmpiricalModes -> {"protocol", "evidence"}
      [] m = "assembly" -> {"claims", "manuscript"}
      [] OTHER -> {"claims", "manuscript", "theory_audit", "empirical_audit",
                   "outside_review", "review_issues"}

\* The outputs whose times some validator compares.
Timed == {"protocol", "evidence"}

Author(o) ==
    CASE o \in {"theory_review", "theory_candidate", "theory_audit"} -> "theorist"
      [] o \in {"empirical_review", "analyst_audit", "empirical_audit",
                "protocol", "evidence"} -> "data_analyst"
      [] o = "outside_review" -> "outside_reviewer"
      [] OTHER -> "research_lead"

ASSUME BoundAssumption == MaxVersion \in Nat \ {0} /\ MaxRuns \in Nat
ASSUME ModeAssumption ==
    Mode \subseteq LiteratureModes \cup MethodModes \cup MethodBound

\* The records of a project: an index is a set with one function or none, a
\* method is an identity or None, and the rest are the versions that have one.
IsRecords(r) ==
    /\ r = [library |-> r.library, catalog |-> r.catalog, methods |-> r.methods,
            theory |-> r.theory, empirical |-> r.empirical, manuscript |-> r.manuscript,
            ledger |-> r.ledger]
    /\ \A p, q \in r.catalog : p = q
    /\ r.methods \in [Method -> Identity \cup {None}]
    /\ r.theory \cup r.empirical \cup r.manuscript \subseteq Identity
    /\ r.ledger = [x \in Identity |-> r.ledger[x]]

\* Each record has under it what the contract of its phase asks for.
StandsOn(r) ==
    /\ r.catalog # {} => r.library # {}
    /\ r.theory \cup r.empirical # {} => r.catalog # {}
    /\ r.manuscript \subseteq r.theory \cap r.empirical
    /\ \A x \in Identity : r.ledger[x] # {} => x \in r.manuscript
    /\ \A m \in Method : r.methods[m] # None =>
            \E catalog \in r.catalog : m \in DOMAIN catalog /\ catalog[m] = r.methods[m]

VARIABLES
    current,    \* current_slots: the formal records; an index is a set with it or without
    history,    \* the sources that were ever published, in order
    run,        \* the number of the run
    pc,         \* where it is
    mode,       \* its mode
    method,     \* the selected method identity, or None
    written,    \* what its agents wrote, output by output
    stamp,      \* when each timed output was closed
    findings,   \* the codes of its validation report
    used        \* the correction lanes that are spent

formal == <<current, history>>
work == <<run, pc, mode, method, written, stamp, findings, used>>
vars == <<formal, work>>

-----------------------------------------------------------------------------
\* What the harness fills in when it closes an output.

\* A closure accepts what it has filled in when it is valid against its schema
\* (validate_role_outputs): a list is one, its items have the fields that are
\* filled in, and the issues inside the outside review have ids of their own.
IsList(d) == d \in Seq({d[i] : i \in DOMAIN d})

ASSUME WriteAssumption ==
    /\ \A o \in {"source_changes", "method_changes", "theory_audit", "empirical_audit",
                  "review_issues"} : \A d \in Writes[o] : IsList(d)
    /\ \A d \in Writes["method_changes"] : \A i \in DOMAIN d :
            "identity" \in DOMAIN d[i] /\ d[i].identity \in Identity
    /\ \A d \in Writes["theory_audit"] \cup Writes["empirical_audit"] :
            \A i \in DOMAIN d : "id" \in DOMAIN d[i]
    /\ \A d \in Writes["outside_review"] : \A i \in DOMAIN d : d[i].id # None
    /\ \A d \in Writes["complete_theory"] : "statements" \in DOMAIN d /\ IsList(d.statements)

\* None is no id that is filled in.
ASSUME NoneAssumption == None \notin {"finding"} \X Nat

\* An id that the agent left out is derived from the position and from the first
\* twelve characters of the run id, which name phase and mode and not the run
\* (_run_id): the runs of a mode derive the same ids.  Sources come from one mode
\* only, and so do issues.
FillId(id, prefix, i) == IF id = None THEN <<prefix, i>> ELSE id

PopulateSources(d) ==
    [i \in DOMAIN d |-> [d[i] EXCEPT !.id = FillId(@, "source", i)]]

\* The identity is the selected one, when one is selected; lineage is the agents'.
PopulateMethods(d) ==
    [i \in DOMAIN d |-> [d[i] EXCEPT !.identity = IF method = None THEN @ ELSE method]]

\* Findings and dispositions are filled from one namespace.
PopulateFindings(d, role) ==
    [i \in DOMAIN d |-> [d[i] EXCEPT !.id = FillId(@, "finding", i), !.by = role]]

PopulateIssues(d) ==
    [i \in DOMAIN d |-> [d[i] EXCEPT !.id = FillId(@, "finding", i)]]

\* populate_harness_fields, over the fields that this model keeps.  The issues
\* inside the outside review are no documents of their own: nothing fills them.
Populated(o) ==
    LET d == written[o] IN
    CASE o = "source_changes" -> PopulateSources(d)
      [] o = "method_changes" -> PopulateMethods(d)
      [] o \in {"complete_theory", "manuscript"} -> [d EXCEPT !.identity = method]
      [] o = "protocol" -> [d EXCEPT !.identity = method, !.mode = mode]
      [] o = "evidence" -> [i \in DOMAIN d |-> [d[i] EXCEPT !.identity = method]]
      [] o \in {"theory_audit", "empirical_audit"} -> PopulateFindings(d, Author(o))
      [] o = "review_issues" -> PopulateIssues(d)
      [] OTHER -> d

-----------------------------------------------------------------------------
\* The helpers of the validators.

When(condition, code) == IF condition THEN {code} ELSE {}

Ids(items) == {items[i].id : i \in DOMAIN items}

\* Some id of the list occurs more than once.
Repeated(items) == \E i, j \in DOMAIN items : i < j /\ items[i].id = items[j].id

\* A reference whose target is not in the record.
Unresolved(references, ids) == ~(references \subseteq ids)

\* A pointer that the closure has not stamped: the layer has no sealed bytes.
PointerFindings(layers, prefix) ==
    When("compact_decision_view" \in layers, prefix \o ".compact_view_pointer_invalid") \cup
    When(layers \ {"compact_decision_view"} # {}, prefix \o ".primary_pointer_invalid")

-----------------------------------------------------------------------------
\* Phase 1: sources with identifiers, and the synthesis.

\* The key of a source in the library: all its identifiers, or else its id.
LiteratureKey(s) ==
    IF s.keys # {} THEN <<"identifiers", s.keys>> ELSE <<"id", s.id>>

\* The validation of a submission knows a source by its smallest identifier.
SubmissionKey(s) ==
    IF s.keys # {}
    THEN <<"identifiers", {k \in s.keys : \A other \in s.keys : k <= other}>>
    ELSE <<"id", s.id>>

LiteratureFindings(sources, layers) ==
    When(Repeated(sources), "p1.duplicate_source_id") \cup
    When(\E i, j \in DOMAIN sources : i < j /\ sources[i].keys \cap sources[j].keys # {},
         "p1.duplicate_source_identifier") \cup
    When(\E i \in DOMAIN sources : ~sources[i].searched, "p1.search_provenance_missing") \cup
    When(\E i, j \in DOMAIN sources :
            i < j /\ SubmissionKey(sources[i]) = SubmissionKey(sources[j]),
         "p1.duplicate_source_identity") \cup
    PointerFindings(layers, "p1")

-----------------------------------------------------------------------------
\* Phase 2: method records and the two reviews of them.

\* What a method record has to state; some of it only draws attention.
DefinitionFindings(d) ==
    When("definition" \notin d.states, "p2.canonical_definition_empty") \cup
    When("components" \notin d.states, "p2.defining_components_empty") \cup
    When("assumptions" \notin d.states, "p2.assumptions_empty") \cup
    When("provenance" \notin d.states, "p2.literature_provenance_empty") \cup
    When("limitations" \notin d.states, "p2.limitations_empty")

EvaluationFindings(d) ==
    When(d.evaluation = "missing", "p2.method_evaluation_missing") \cup
    When(d.evaluation = "invalid", "p2.method_evaluation_invalid")

CanonicalPointerFindings(d) == When(~d.stamped, "p2.canonical_pointer_invalid")

ReviewFindings(axes, owned) ==
    When(axes = {}, "p2.review_evaluations_missing") \cup
    When(~(axes \subseteq {owned}), "p2.review_axis_violation")

\* A focused run changes the selected method and says what kind of change it is.
LineageFindings(d) ==
    When(d.change = "initial", "p2.focused_initial_lineage") \cup
    When(d.predecessor # method, "p2.predecessor_identity_mismatch") \cup
    When(d.generation = None, "p2.predecessor_generation_missing") \cup
    When(d.change \in {"editorial", "lifecycle"} /\ d.identity # method,
         "p2.nonmathematical_identity_changed") \cup
    When(d.change = "mathematical" /\ d.identity.of # method.of,
         "p2.mathematical_stable_id_changed") \cup
    When(d.change = "mathematical" /\ d.identity.version # method.version + 1,
         "p2.mathematical_version_not_advanced") \cup
    When(d.change = "mathematical" /\ d.identity.digest = method.digest,
         "p2.mathematical_digest_unchanged")

FocusFindings(methods) ==
    When(Len(methods) > 1, "p2.focused_scope_exceeded") \cup
    UNION {LineageFindings(methods[i]) : i \in DOMAIN methods}

MethodFindings(methods, theoryReview, empiricalReview) ==
    UNION {DefinitionFindings(methods[i]) \cup EvaluationFindings(methods[i])
             \cup CanonicalPointerFindings(methods[i]) : i \in DOMAIN methods} \cup
    ReviewFindings(theoryReview, "theoretical_validity") \cup
    ReviewFindings(empiricalReview, "empirical_feasibility") \cup
    (IF mode = "focused_method" THEN FocusFindings(methods) ELSE {})

-----------------------------------------------------------------------------
\* Phase 3: the theory, a record of statements that rest on each other.

FormalKinds == {"lemma", "proposition", "theorem", "corollary"}

\* What the status of a statement asks of its justification.
StatementFindings(s) ==
    When(s.status = "established" /\ s.type \in FormalKinds
           /\ ~(s.by \in {"proof", "derivation"} /\ s.artifacts),
         "p3.established_statement_unsupported") \cup
    When(s.status = "incomplete" /\ ~(s.by = "open_obligation" /\ s.explained),
         "p3.incomplete_statement_without_obligation") \cup
    When(s.status = "contradicted"
           /\ ~(s.by \in {"counterexample", "empirical_evidence"} /\ s.artifacts),
         "p3.contradiction_without_evidence") \cup
    When(s.status = "conditional" /\ s.assumes = {},
         "p3.conditional_statement_without_assumption") \cup
    When(s.status = "untested" /\ ~(s.by = "open_obligation" /\ s.explained),
         "p3.untested_statement_without_obligation") \cup
    When(s.status = "retracted" /\ ~s.explained,
         "p3.retracted_statement_without_reason")

\* The dependency graph: of statements with one id, the last one counts.
Dependencies(statements) ==
    [n \in Ids(statements) |->
        LET last == CHOOSE i \in DOMAIN statements :
                /\ statements[i].id = n
                /\ \A j \in DOMAIN statements : statements[j].id = n => j <= i
        IN  statements[last].rests \cap Ids(statements)]

\* Defect: only statements that rest on themselves or on each other are seen.
HasShortCycle(graph) == \E n, k \in DOMAIN graph : k \in graph[n] /\ n \in graph[k]

\* The depth-first search: a stack of nodes, each of which is left when it is
\* popped a second time.
Searches(graph) ==
    [stack : Seq([node : DOMAIN graph, left : BOOLEAN]),
     visiting : SUBSET DOMAIN graph, visited : SUBSET DOMAIN graph]

Top(s) == s.stack[Len(s.stack)]
Rest(s) == SubSeq(s.stack, 1, Len(s.stack) - 1)

\* A node that is reached while it is being visited closes a cycle.
ClosesCycle(s) == s.stack # <<>> /\ ~Top(s).left /\ Top(s).node \in s.visiting

Exhausted(graph, s) == s.stack = <<>> /\ s.visited = DOMAIN graph

\* The dependencies of a node, which are pushed in any order.
Pushed(graph, s) ==
    SetToSeq({[node |-> d, left |-> FALSE] : d \in graph[Top(s).node] \ s.visited})

\* One turn of the loops.
Turn(graph, s) ==
    IF s.stack = <<>>
    THEN [s EXCEPT !.stack =
            <<[node |-> CHOOSE n \in DOMAIN graph \ s.visited : TRUE, left |-> FALSE]>>]
    ELSE IF Top(s).left
    THEN [stack |-> Rest(s), visiting |-> s.visiting \ {Top(s).node},
          visited |-> s.visited \cup {Top(s).node}]
    ELSE IF Top(s).node \in s.visited
    THEN [s EXCEPT !.stack = Rest(s)]
    ELSE [stack |-> Rest(s) \o <<[node |-> Top(s).node, left |-> TRUE]>> \o Pushed(graph, s),
          visiting |-> s.visiting \cup {Top(s).node}, visited |-> s.visited]

HasCycle(graph) ==
    LET search[s \in Searches(graph)] ==
            ClosesCycle(s) \/ (~Exhausted(graph, s) /\ search[Turn(graph, s)])
    IN  search[[stack |-> <<>>, visiting |-> {}, visited |-> {}]]

\* Statements that rest on each other in a circle, of any length.
CircleFindings(statements) ==
    When(HasCycle(Dependencies(statements)), "p3.statement_dependency_cycle")

\* Every reference of a theory has its target in the record.
ReferenceFindings(t) ==
    LET statements == Ids(t.statements)
        Of(items, field) == UNION {items[i][field] : i \in DOMAIN items}
    IN  When(Repeated(t.assumptions), "p3.duplicate_assumption_id") \cup
        When(Repeated(t.statements), "p3.duplicate_statement_id") \cup
        When(Repeated(t.implications), "p3.duplicate_implication_id") \cup
        When(Unresolved(Of(t.assumptions, "usedBy"), statements),
             "p3.unknown_statement_reference") \cup
        When(Unresolved(Of(t.statements, "assumes"), Ids(t.assumptions)),
             "p3.unknown_assumption_reference") \cup
        When(Unresolved(Of(t.statements, "rests"), statements),
             "p3.unknown_statement_dependency") \cup
        When(\E i \in DOMAIN t.statements : t.statements[i].id \in t.statements[i].rests,
             "p3.self_dependent_statement") \cup
        When(Unresolved(Of(t.statements, "implies"), Ids(t.implications)),
             "p3.unknown_empirical_implication") \cup
        When(Unresolved(Of(t.implications, "of"), statements),
             "p3.unknown_implication_statement")

\* A revision accounts for the statements that it changed.
AccountFindings(t) ==
    When(t.account = None, "p3.revision_account_missing") \cup
    (IF t.account = None THEN {}
     ELSE When(Unresolved(t.account, Ids(t.statements)), "p3.unknown_revision_statement"))

TheoryFindings(t, candidate, audit) ==
    PointerFindings(candidate, "p3") \cup PointerFindings(audit, "p3") \cup
    When(~t.basis, "p3.no_assumptions_documented") \cup
    When(t.identity # method, "p3.method_identity_mismatch") \cup
    When(t.mode # mode, "p3.development_mode_mismatch") \cup
    When(~t.represented, "p3.primary_artifact_not_represented") \cup
    PointerFindings(t.unstamped, "p3") \cup
    ReferenceFindings(t) \cup CircleFindings(t.statements) \cup
    UNION {StatementFindings(t.statements[i]) : i \in DOMAIN t.statements} \cup
    (IF mode = "theory_revision" THEN AccountFindings(t) ELSE {})

-----------------------------------------------------------------------------
\* Phase 4: the protocol that is fixed beforehand, and the evidence.

ProtocolFindings(p) ==
    LET Claims == {p.tests[i].claim : i \in DOMAIN p.tests}
        Of(items, field) == UNION {items[i][field] : i \in DOMAIN items}
    IN  When(p.mode # mode, "p4.protocol_mode_mismatch") \cup
        When(p.identity # method, "p4.protocol_method_mismatch") \cup
        When(Repeated(p.tests), "p4.duplicate_test_id") \cup
        When(Repeated(p.metrics), "p4.duplicate_metric_id") \cup
        When(Repeated(p.thresholds), "p4.duplicate_threshold_id") \cup
        When(Unresolved(Of(p.tests, "decidedBy"), Ids(p.thresholds)),
             "p4.unknown_decision_threshold") \cup
        When(\E i \in DOMAIN p.thresholds : p.thresholds[i].metric \notin Ids(p.metrics),
             "p4.unknown_threshold_metric") \cup
        When(\E i \in DOMAIN p.thresholds : p.thresholds[i].claim \notin Claims,
             "p4.unknown_threshold_claim") \cup
        When(Unresolved(p.deviations, Ids(p.tests)), "p4.unknown_deviation_test")

Reproducible == {"computation", "simulation", "experiment", "external_validation"}
MethodEvidence == Reproducible \cup {"proof"}

\* Only a comprehensive study has to be reproducible.
ReproducibilityFindings(e) ==
    When(e.record = None, "p4.reproducibility_missing") \cup
    (IF e.record = None THEN {}
     ELSE When(~({"code", "configuration", "environment"} \subseteq e.record),
               "p4.reproducibility_artifact_missing") \cup
          When(e.kind = "simulation" /\ "seeds" \notin e.record,
               "p4.simulation_seed_missing"))

EvidenceFindings(e) ==
    When(e.kind \in MethodEvidence /\ e.identity = None,
         "p4.evidence_missing_method_identity") \cup
    When(e.kind \in MethodEvidence /\ e.identity \notin {None, method},
         "p4.evidence_method_mismatch") \cup
    When(e.kind \in MethodEvidence /\ ~e.applies, "p4.evidence_not_exactly_applicable") \cup
    (IF e.kind \in Reproducible /\ mode = "comprehensive"
     THEN ReproducibilityFindings(e) ELSE {})

\* An output carries the time at which it was closed.
PrespecificationFindings(items) ==
    When(items # <<>> /\ stamp["protocol"] > stamp["evidence"],
         "p4.protocol_finalized_after_evidence")

EmpiricalFindings(protocol, evidence) ==
    ProtocolFindings(protocol) \cup PrespecificationFindings(evidence) \cup
    UNION {EvidenceFindings(evidence[i]) : i \in DOMAIN evidence}

-----------------------------------------------------------------------------
\* Phase 5: the manuscript, its claims, and the reviews with their issues.

ClaimFindings(claims) ==
    When(\E i \in DOMAIN claims :
            ~claims[i].evidenced /\ claims[i].type \notin {"limitation", "open_question"},
         "p5.claim_without_evidence")

ManuscriptFindings(d, claims) ==
    When(d.kind # (IF mode = "assembly" THEN "assembly_candidate" ELSE "revised_candidate"),
         "p5.manuscript_kind_mismatch") \cup
    When(d.identity # method, "p5.method_identity_mismatch") \cup
    When(~d.basis, "p5.manuscript_basis_missing") \cup
    When(~d.represented, "p5.primary_artifact_not_represented") \cup
    When(Unresolved(d.rests, Ids(claims)), "p5.unknown_claim_support_reference")

\* A reviewer reports open issues of its own.
OpenIssueFindings(issues, role) ==
    When(\E i \in DOMAIN issues : ~issues[i].open, "p5.specialist_prejudged_disposition") \cup
    When(\E i \in DOMAIN issues : issues[i].by # role, "p5.review_role_mismatch")

\* Defect: the issues of the outside reviewer are left out of the account.
RaisedBySpecialists(theory, empirical, outside) ==
    (Ids(theory) \cup Ids(empirical)) \ {None}

\* The issues that ask for a disposition; one without an id asks for none.
Raised(theory, empirical, outside) ==
    (Ids(theory) \cup Ids(empirical) \cup Ids(outside)) \ {None}

DispositionFindings(issues) ==
    When(Repeated(issues), "p5.duplicate_issue_disposition") \cup
    When(\E i \in DOMAIN issues : issues[i].disposition = "open", "p5.issue_undispositioned") \cup
    When(\E i \in DOMAIN issues :
            issues[i].disposition \in {"fixed", "partially_fixed"} /\ ~issues[i].located,
         "p5.revision_location_missing") \cup
    When(\E i \in DOMAIN issues :
            issues[i].disposition \in {"deferred", "rejected"} /\ ~issues[i].reasoned,
         "p5.disposition_reason_missing")

ReviewIssueFindings(theory, empirical, outside, issues) ==
    OpenIssueFindings(theory, "theorist") \cup
    OpenIssueFindings(empirical, "data_analyst") \cup
    OpenIssueFindings(outside, "outside_reviewer") \cup
    DispositionFindings(issues) \cup
    When(Unresolved(Raised(theory, empirical, outside), Ids(issues)),
         "p5.review_finding_not_dispositioned")

ManuscriptRunFindings ==
    LET claims == Populated("claims") IN
    ClaimFindings(claims) \cup ManuscriptFindings(Populated("manuscript"), claims) \cup
    (IF mode = "review_revision"
     THEN ReviewIssueFindings(Populated("theory_audit"), Populated("empirical_audit"),
                              Populated("outside_review"), Populated("review_issues"))
     ELSE {})

-----------------------------------------------------------------------------
\* The report of a validation, and what a finding of it allows.

PhaseFindings ==
    CASE mode \in LiteratureModes ->
            LiteratureFindings(Populated("source_changes"), Populated("synthesis").unstamped)
      [] mode \in MethodModes ->
            MethodFindings(Populated("method_changes"), Populated("theory_review"),
                           Populated("empirical_review"))
      [] mode \in TheoryModes ->
            TheoryFindings(Populated("complete_theory"),
                           Populated("theory_candidate").unstamped,
                           Populated("analyst_audit").unstamped)
      [] mode \in EmpiricalModes ->
            EmpiricalFindings(Populated("protocol"), Populated("evidence"))
      [] OTHER -> ManuscriptRunFindings

\* Findings that ask for attention and stop nothing.
Attention == {"p1.search_provenance_missing", "p2.assumptions_empty",
    "p2.limitations_empty", "p2.literature_provenance_empty",
    "p4.evidence_not_exactly_applicable"}

\* A claim that lacks its support: the scientific lane.
ClaimBlockers == {"p2.canonical_definition_empty", "p2.defining_components_empty",
    "p3.established_statement_unsupported", "p3.primary_artifact_not_represented",
    "p4.evidence_method_mismatch", "p4.evidence_missing_method_identity",
    "p4.protocol_finalized_after_evidence", "p4.reproducibility_artifact_missing",
    "p4.reproducibility_missing", "p4.simulation_seed_missing",
    "p5.claim_without_evidence", "p5.primary_artifact_not_represented"}

\* Identity, mode and authorship cannot be corrected.  A code that the registry
\* does not know is one of these as well.
IntegrityBlockers == {"p2.focused_initial_lineage", "p2.focused_scope_exceeded",
    "p2.mathematical_digest_unchanged", "p2.mathematical_stable_id_changed",
    "p2.mathematical_version_not_advanced", "p2.nonmathematical_identity_changed",
    "p2.predecessor_identity_mismatch", "p3.development_mode_mismatch",
    "p3.method_identity_mismatch", "p4.protocol_method_mismatch",
    "p4.protocol_mode_mismatch", "p5.method_identity_mismatch",
    "p5.review_role_mismatch", "p5.specialist_prejudged_disposition"}

Blocking(codes) == codes \ Attention

\* A correction is offered when something can be corrected and nothing cannot.
Correctable(codes) ==
    /\ Blocking(codes) # {}
    /\ codes \cap IntegrityBlockers = {}

-----------------------------------------------------------------------------
\* The inputs of a run.  "library" stands for the three records that phase 1
\* publishes together, "empirical" for the three of phase 4.

Always(m) ==
    CASE m \in LiteratureModes -> {}
      [] m \in MethodModes -> {<<"library", "any">>}
      [] m \in TheoryModes \cup EmpiricalModes ->
            {<<"library", "any">>, <<"catalog", "any">>, <<"method", "exact">>} \cup
            (IF m = "theory_revision" THEN {<<"theory", "exact">>} ELSE {})
      [] OTHER ->
            {<<"library", "any">>, <<"catalog", "any">>, <<"method", "exact">>,
             <<"theory", "exact">>, <<"empirical", "exact">>} \cup
            (IF m = "review_revision" THEN {<<"manuscript", "same_stable">>} ELSE {})

\* Frozen when there is one: the inputs of a repetition, and optional context.
IfThere(m) ==
    CASE m \in LiteratureModes -> {<<"library", "any">>}
      [] m \in MethodModes ->
            {<<"catalog", "any">>, <<"theory", "exact">>, <<"empirical", "exact">>,
             <<"manuscript", "exact">>}
      [] m \in TheoryModes \cup EmpiricalModes ->
            {<<"theory", "exact">>, <<"empirical", "exact">>}
      [] OTHER -> {<<"manuscript", "same_stable">>, <<"ledger", "same_stable">>}

\* The method identities that the current records of a type declare.  The
\* ledger of review issues declares none.
Declares(type) ==
    CASE type = "method" -> {current.methods[m] : m \in Method} \ {None}
      [] type = "theory" -> current.theory
      [] type = "empirical" -> current.empirical
      [] type = "manuscript" -> current.manuscript
      [] OTHER -> {}

\* Defect: a record of another version of the method is taken for an exact one.
FoundLoosely(input, x) ==
    IF input[2] = "any"
    THEN \/ input[1] = "library" /\ current.library # {}
         \/ input[1] = "catalog" /\ current.catalog # {}
    ELSE x # None /\ \E y \in Declares(input[1]) : y.of = x.of

\* current_record: a method-scoped input matches nothing without a method.
Found(input, x) ==
    IF input[2] = "any"
    THEN \/ input[1] = "library" /\ current.library # {}
         \/ input[1] = "catalog" /\ current.catalog # {}
    ELSE /\ x # None
         /\ \E y \in Declares(input[1]) :
                IF input[2] = "exact" THEN y = x ELSE y.of = x.of

Frozen(m, x) == {input[1] : input \in {i \in Always(m) \cup IfThere(m) : Found(i, x)}}

\* A run with method-bound outputs is for one of the current methods.
Selectable(m) == IF m \in MethodBound THEN Declares("method") ELSE {None}

-----------------------------------------------------------------------------
\* The indexes, and what a publication may do to them.

\* The latest item of each key in a list; keys says what the key of each is.
Latest(items, keys) ==
    [k \in {keys[i] : i \in DOMAIN items} |->
        items[CHOOSE i \in DOMAIN items :
                keys[i] = k /\ \A j \in DOMAIN items : keys[j] = k => j <= i]]

\* Defect: an item that the prior index holds is not replaced.
FirstWins(prior, changes) ==
    {[k \in (UNION {DOMAIN p : p \in prior}) \cup DOMAIN changes |->
        IF \E p \in prior : k \in DOMAIN p THEN (CHOOSE p \in prior : TRUE)[k] ELSE changes[k]]}

\* A reducer: the frozen prior index, if any, and over it the items of the run.
Merged(prior, changes) ==
    {[k \in (UNION {DOMAIN p : p \in prior}) \cup DOMAIN changes |->
        IF k \in DOMAIN changes THEN changes[k] ELSE (CHOOSE p \in prior : TRUE)[k]]}

\* The prior index counts when it was frozen as an input.
Prior(type, index) == IF type \in Frozen(mode, method) THEN index ELSE {}

LiteratureKeys(items) == [i \in DOMAIN items |-> LiteratureKey(items[i])]
MethodKeys(items) == [i \in DOMAIN items |-> items[i].identity.of]
IssueKeys(items) == [i \in DOMAIN items |-> items[i].id]

\* The items of a run, by their keys.
SourceChanges ==
    LET items == Populated("source_changes") IN Latest(items, LiteratureKeys(items))
MethodChanges ==
    LET items == Populated("method_changes") IN Latest(items, MethodKeys(items))
IssueChanges ==
    LET items == Populated("review_issues") IN Latest(items, IssueKeys(items))

\* Two records for one slot.
TargetedTwice ==
    /\ mode \in MethodModes
    /\ LET keys == MethodKeys(Populated("method_changes"))
       IN  \E i, j \in DOMAIN keys : i < j /\ keys[i] = keys[j]

\* A review replaces the manuscript of this very version.
NothingToReplace == mode = "review_revision" /\ method \notin current.manuscript

\* The slot has a prior index that the run did not freeze.
IndexUnread ==
    \/ mode \in LiteratureModes /\ Prior("library", current.library) # current.library
    \/ mode \in MethodModes /\ Prior("catalog", current.catalog) # current.catalog
    \/ mode = "review_revision" /\ Prior("ledger", current.ledger[method]) # current.ledger[method]

\* A publication plan that cannot be made.
Implausible == TargetedTwice \/ NothingToReplace \/ IndexUnread

\* The formal records after a publication of each phase.
AfterLiterature ==
    [current EXCEPT !.library = Merged(Prior("library", @), SourceChanges)]

AfterMethods ==
    [current EXCEPT
        !.methods = [m \in Method |->
                        IF m \in DOMAIN MethodChanges THEN MethodChanges[m].identity ELSE @[m]],
        !.catalog = Merged(Prior("catalog", @),
                        [m \in DOMAIN MethodChanges |-> MethodChanges[m].identity])]

AfterTheory == [current EXCEPT !.theory = @ \cup {method}]

AfterEvidence == [current EXCEPT !.empirical = @ \cup {method}]

AfterAssembly == [current EXCEPT !.manuscript = @ \cup {method}]

AfterReview ==
    [current EXCEPT !.manuscript = @ \cup {method},
                    !.ledger[method] = Merged(Prior("ledger", @), IssueChanges)]

Records ==
    CASE mode \in LiteratureModes -> AfterLiterature
      [] mode \in MethodModes -> AfterMethods
      [] mode \in TheoryModes -> AfterTheory
      [] mode \in EmpiricalModes -> AfterEvidence
      [] mode = "assembly" -> AfterAssembly
      [] OTHER -> AfterReview

-----------------------------------------------------------------------------
\* The run.

\* A library has, of every source, what was published last, and is there once
\* anything was.
IsLatest(library, sources) ==
    /\ library \subseteq {Latest(sources, LiteratureKeys(sources))}
    /\ library = {} => sources = <<>>

\* What earlier runs left is what such runs can leave.
ASSUME EarlierAssumption ==
    \A e \in Earlier :
        /\ IsRecords(e.current) /\ StandsOn(e.current)
        /\ IsList(e.sources) /\ IsLatest(e.current.library, e.sources)

Init ==
    /\ \E e \in Earlier : current = e.current /\ history = e.sources
    /\ run = 0 /\ pc = "idle" /\ mode = None /\ method = None
    /\ written = <<>> /\ stamp = <<>> /\ findings = {} /\ used = {}

\* The required inputs are there; nothing of an earlier run is carried over.
Start(m, x) ==
    /\ pc \in {"idle", "rejected", "published"} /\ run < MaxRuns
    /\ x \in Selectable(m)
    /\ \A input \in Always(m) : Found(input, x)
    /\ run' = run + 1 /\ pc' = "working" /\ mode' = m /\ method' = x
    /\ written' = <<>> /\ stamp' = <<>> /\ findings' = {} /\ used' = {}
    /\ UNCHANGED formal

Role == {"research_lead", "theorist", "data_analyst", "outside_reviewer"}
Lane == {"packaging", "scientific"}

OutputsOf(role) == {o \in Outputs(mode) : Author(o) = role}

\* What an agent may write for some outputs of its role: one of the documents of
\* each.  A document is marked with its output for TLC to tell them apart.
Scopes == UNION {SUBSET {o \in Outputs(m) : Author(o) = role} : m \in Mode, role \in Role}
Drafts ==
    [outputs \in Scopes |->
        LET marked == [outputs -> UNION {{o} \X Writes[o] : o \in outputs}]
            own == {w \in marked : \A o \in outputs : w[o][1] = o}
        IN  {[o \in outputs |-> w[o][2]] : w \in own}]

\* A role is closed: its outputs are populated with one closure time.  The lead
\* comes last, when it has outputs of its own to reconcile.
Close(role) ==
    /\ pc = "working"
    /\ OutputsOf(role) # {} /\ OutputsOf(role) \cap DOMAIN written = {}
    /\ role = "research_lead" => Outputs(mode) = OutputsOf(role) \cup DOMAIN written
    /\ \E w \in Drafts[OutputsOf(role)] :
        written' = [o \in DOMAIN written \cup DOMAIN w |->
                        IF o \in DOMAIN w THEN w[o] ELSE written[o]]
    /\ stamp' = [o \in DOMAIN written' \cap Timed |-> IF o \in DOMAIN stamp THEN stamp[o] ELSE 1]
    /\ UNCHANGED <<formal, run, pc, mode, method, findings, used>>

Submitted == pc = "working" /\ DOMAIN written = Outputs(mode)

\* Validation stops at findings; without any, at a plan that cannot be made,
\* of which the report says nothing.
Reject ==
    /\ Submitted
    /\ LET codes == PhaseFindings IN
        /\ Blocking(codes) # {} \/ Implausible
        /\ findings' = IF Blocking(codes) # {} THEN codes ELSE {}
    /\ pc' = "rejected"
    /\ UNCHANGED <<formal, run, mode, method, written, stamp, used>>

Publish ==
    /\ Submitted
    /\ Blocking(PhaseFindings) = {} /\ ~Implausible
    /\ current' = Records
    /\ history' = IF mode \in LiteratureModes THEN history \o Populated("source_changes")
                  ELSE history
    /\ pc' = "published" /\ findings' = {}
    /\ UNCHANGED <<run, mode, method, written, stamp, used>>

\* Defect: the time of a correction is that of the one after it.
AheadOfTime == Cardinality(used) + 3

\* Each correction closes its outputs at a time of its own.
Now == Cardinality(used) + 2

\* A correction lets one role write some of its outputs again; only these are
\* populated again.  Each lane is open once.
Correct(lane, role) ==
    /\ pc = "rejected" /\ lane \notin used /\ Correctable(findings)
    /\ \E scope \in SUBSET OutputsOf(role) \ {{}} : \E w \in Drafts[scope] :
        /\ written' = [o \in DOMAIN written |-> IF o \in scope THEN w[o] ELSE written[o]]
        /\ stamp' = [o \in DOMAIN stamp |-> IF o \in scope THEN Now ELSE stamp[o]]
    /\ used' = used \cup {lane}
    /\ pc' = "working" /\ findings' = {}
    /\ UNCHANGED <<formal, run, mode, method>>

Next ==
    \/ \E m \in Mode : \E x \in Identity \cup {None} : Start(m, x)
    \/ \E role \in Role : Close(role)
    \/ Reject
    \/ Publish
    \/ \E lane \in Lane, role \in Role : Correct(lane, role)

Spec == Init /\ [][Next]_vars

-----------------------------------------------------------------------------
\* Properties.

\* The types; an output is stamped by its closure or by one of the corrections
\* that were made (_close and _validate_and_close_correction).
TypeOK ==
    /\ run \in 0 .. MaxRuns
    /\ pc \in {"idle", "working", "rejected", "published"}
    /\ mode \in Mode \cup {None} /\ method \in Identity \cup {None}
    /\ IsRecords(current)
    /\ mode # None => DOMAIN written \subseteq Outputs(mode)
    /\ DOMAIN stamp = DOMAIN written \cap Timed
    /\ used \subseteq Lane
    /\ \A o \in DOMAIN stamp : stamp[o] \in 1 .. Cardinality(used) + 1

\* The formal records stand on each other: what is published for a version of a
\* method has under it what the contract of its phase asked for, for that same
\* version, although the inputs were looked up once, when the run was started
\* (resolve_run_inputs, current_record).
Grounded == StandsOn(current)

\* The library, which each run makes of the index it froze and its own changes,
\* says of every source what the latest publication said of it
\* (_literature_library over p1.literature_sources).
LibraryIsLatest == IsLatest(current.library, history)

\* A theory that is published can be read from the front: its statements can be
\* put into an order in which each rests on earlier statements of the same
\* record only (_has_cycle, _require_resolved_ids, _unique_ids).
TheoryCanBeRead ==
    pc = "published" /\ mode \in TheoryModes =>
        LET statements == Populated("complete_theory").statements IN
        \E place \in [Ids(statements) -> DOMAIN statements] :
            /\ \A m, n \in Ids(statements) : place[m] = place[n] => m = n
            /\ \A i \in DOMAIN statements : \A n \in statements[i].rests :
                    n \in Ids(statements) /\ place[n] < place[statements[i].id]

\* After a review, each issue that a reviewer raised is in the ledger with a
\* final answer, although reviewers and lead write and correct their lists
\* apart (p5.issue_disposition of the contract of phase 5).
IssuesAreAnswered ==
    pc = "published" /\ mode = "review_revision" =>
        \A id \in Ids(Populated("theory_audit")) \cup Ids(Populated("empirical_audit"))
                   \cup Ids(Populated("outside_review")) :
            \E ledger \in current.ledger[method] :
                id \in DOMAIN ledger /\ ledger[id].disposition # "open"

\* "p5.review_issue_ledger is included when a current same-lineage ledger
\* exists" (docs on the roles of phase 5): a review has the ledger of the
\* version that it reviews among its frozen inputs.
LedgerIsRead ==
    pc = "working" /\ mode = "review_revision" /\ current.ledger[method] # {} =>
        "ledger" \in Frozen(mode, method)

=============================================================================
