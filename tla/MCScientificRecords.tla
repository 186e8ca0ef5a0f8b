------------------------ MODULE MCScientificRecords ------------------------
(***************************************************************************)
(* Documents for TLC: for each output a correct one, and around it one for *)
(* each thing that an agent may get wrong.                                 *)
(***************************************************************************)
EXTENDS ScientificRecords, SequencesExt

x1 == [of |-> "m", version |-> 1, digest |-> "d1"]
x2 == [of |-> "m", version |-> 2, digest |-> "d2"]
x3 == [of |-> "n", version |-> 1, digest |-> "d1"]

a == <<"a">>
b == <<"b">>
c == <<"c">>

\* Sources: with an id or without, with identifiers 1 and 2 or without.
Source == {[id |-> None, keys |-> {1}, searched |-> TRUE],
           [id |-> a, keys |-> {}, searched |-> TRUE],
           [id |-> b, keys |-> {1, 2}, searched |-> FALSE]}
SourceLists == SeqOf(Source, 2)

\* Method records: one correct record of each version, and its variations.
Record == [identity |-> x1, change |-> "initial", predecessor |-> None, generation |-> None,
           states |-> {"definition", "components", "assumptions", "provenance", "limitations"},
           evaluation |-> "full", stamped |-> TRUE]
Revision == [Record EXCEPT !.change = "editorial", !.predecessor = x1, !.generation = "g"]
MethodLists ==
    {<<[Record EXCEPT !.identity = x]>> : x \in {x1, x2, x3}} \cup
    {<<Record, [Record EXCEPT !.identity = x]>> : x \in {x2, x3}} \cup
    {<<[Revision EXCEPT !.change = k, !.predecessor = p]>> :
        k \in {"editorial", "mathematical", "lifecycle"}, p \in {None, x1, x2}} \cup
    {<<[Revision EXCEPT !.generation = None]>>, <<[Record EXCEPT !.stamped = FALSE]>>,
     <<[Record EXCEPT !.evaluation = "missing"]>>, <<[Record EXCEPT !.evaluation = "invalid"]>>,
     <<[Record EXCEPT !.states = @ \ {"limitations"}]>>, <<[Record EXCEPT !.states = {}]>>, <<>>}

\* Theories: every dependency graph over three statements (one of which may rest
\* on itself), one statement in every status, a dangling reference of every kind.
Statement == [id |-> a, type |-> "theorem", status |-> "established", by |-> "proof",
              artifacts |-> TRUE, explained |-> TRUE, assumes |-> {c}, rests |-> {},
              implies |-> {}]
Theory(statements) == [identity |-> None, mode |-> "theory_establishment", basis |-> TRUE,
    represented |-> TRUE, unstamped |-> {}, assumptions |-> <<[id |-> c, usedBy |-> {a}]>>,
    statements |-> statements, implications |-> <<[id |-> c, of |-> {a}]>>, account |-> None]
Graphs3 == {Theory(<<[Statement EXCEPT !.rests = ra], [Statement EXCEPT !.id = b, !.rests = rb],
                     [Statement EXCEPT !.id = c, !.rests = rc]>>) :
            ra \in {{}, {a}, {b}, {b, c}}, rb \in {{}, {a}, {c}}, rc \in {{}, {a}, {b}}}
OneTheory == Theory(<<Statement>>)
Theories == Graphs3 \cup
    {Theory(<<[Statement EXCEPT !.status = st, !.by = k]>>) :
        st \in {"established", "incomplete", "contradicted", "conditional", "untested", "retracted"},
        k \in {"proof", "open_obligation", "counterexample"}} \cup
    {Theory(<<[Statement EXCEPT !.status = st, !.artifacts = FALSE, !.explained = FALSE]>>) :
        st \in {"established", "retracted"}} \cup
    {Theory(<<Statement, Statement>>), Theory(<<[Statement EXCEPT !.rests = {b}]>>),
     Theory(<<[Statement EXCEPT !.assumes = {b}]>>), Theory(<<[Statement EXCEPT !.implies = {b}]>>),
     Theory(<<[Statement EXCEPT !.status = "conditional", !.assumes = {}]>>),
     [OneTheory EXCEPT !.assumptions = <<[id |-> c, usedBy |-> {b}]>>],
     [OneTheory EXCEPT !.implications = <<[id |-> c, of |-> {b}]>>],
     [OneTheory EXCEPT !.represented = FALSE],
     [OneTheory EXCEPT !.unstamped = {"primary_artifact"}],
     [OneTheory EXCEPT !.mode = "theory_revision"],
     [OneTheory EXCEPT !.mode = "theory_revision", !.account = {a}],
     [OneTheory EXCEPT !.mode = "theory_revision", !.account = {b}]}

\* Protocols and evidence.
Protocol == [identity |-> None, mode |-> None,
    tests |-> <<[id |-> a, claim |-> a, decidedBy |-> {b}]>>, metrics |-> <<[id |-> c]>>,
    thresholds |-> <<[id |-> b, metric |-> c, claim |-> a]>>, deviations |-> {a}]
Protocols ==
    {Protocol, [Protocol EXCEPT !.deviations = {b}],
     [Protocol EXCEPT !.tests = <<[id |-> a, claim |-> a, decidedBy |-> {c}]>>],
     [Protocol EXCEPT !.tests = @ \o @], [Protocol EXCEPT !.metrics = @ \o @],
     [Protocol EXCEPT !.thresholds = @ \o @]} \cup
    {[Protocol EXCEPT !.thresholds = <<[id |-> b, metric |-> k, claim |-> k]>>] : k \in {a, b, c}}
Evidence == [kind |-> "simulation", identity |-> None, applies |-> TRUE,
             record |-> {"code", "configuration", "environment", "seeds"}]
EvidenceLists == {<<>>, <<Evidence>>, <<[Evidence EXCEPT !.record = None]>>,
    <<[Evidence EXCEPT !.record = {"seeds"}]>>, <<[Evidence EXCEPT !.record = @ \ {"seeds"}]>>,
    <<[Evidence EXCEPT !.applies = FALSE]>>, <<[Evidence EXCEPT !.kind = "proof"], Evidence>>,
    <<[Evidence EXCEPT !.kind = "literature", !.record = None]>>}

\* Manuscripts, their claims, the issues of the reviewers and their answers.
Claim == [id |-> a, type |-> "claim", evidenced |-> TRUE]
Manuscript == [identity |-> None, kind |-> "revised_candidate", basis |-> TRUE,
               represented |-> TRUE, rests |-> {a}]
Issue == [id |-> a, open |-> TRUE, by |-> None]
Answer == [id |-> a, disposition |-> "fixed", located |-> TRUE, reasoned |-> FALSE]

EveryDocument == [
    source_changes |-> SourceLists,
    synthesis |-> {[unstamped |-> u] : u \in {{}, {"compact_decision_view"}}},
    method_changes |-> MethodLists,
    theory_review |-> {{"theoretical_validity"}, {}},
    empirical_review |-> {{"empirical_feasibility"}, {"theoretical_validity"}},
    theory_candidate |-> {[unstamped |-> {}]},
    analyst_audit |-> {[unstamped |-> u] : u \in {{}, {"primary_artifact"}}},
    complete_theory |-> Theories,
    protocol |-> Protocols,
    evidence |-> EvidenceLists,
    claims |-> {<<Claim>>, <<[Claim EXCEPT !.evidenced = FALSE]>>,
                <<[Claim EXCEPT !.id = b, !.evidenced = FALSE, !.type = "limitation"]>>},
    manuscript |-> {Manuscript, [Manuscript EXCEPT !.kind = "assembly_candidate"],
                    [Manuscript EXCEPT !.represented = FALSE]},
    theory_audit |-> {<<>>, <<Issue>>, <<[Issue EXCEPT !.id = None]>>},
    empirical_audit |-> {<<>>, <<[Issue EXCEPT !.id = None]>>},
    outside_review |-> {<<>>, <<[Issue EXCEPT !.id = b, !.by = "outside_reviewer"]>>,
                        <<[Issue EXCEPT !.open = FALSE, !.by = "theorist"]>>},
    review_issues |-> {<<Answer>>, <<[Answer EXCEPT !.id = None]>>, <<Answer, Answer>>,
        <<[Answer EXCEPT !.located = FALSE], [Answer EXCEPT !.id = b]>>,
        <<[Answer EXCEPT !.disposition = "rejected"], [Answer EXCEPT !.id = b]>>,
        <<[Answer EXCEPT !.disposition = "open"], [Answer EXCEPT !.id = b]>>,
        <<[Answer EXCEPT !.id = None], Answer, [Answer EXCEPT !.id = b]>>}]

\* What earlier runs have published: nothing, the literature, two methods, the
\* first with a theory and its evidence, and a manuscript of it.
Nothing == [library |-> {}, catalog |-> {}, methods |-> [k \in {"m", "n"} |-> None],
    theory |-> {}, empirical |-> {}, manuscript |-> {}, ledger |-> [x \in Identity |-> {}]]
Old == [id |-> a, keys |-> {1}, searched |-> TRUE]
Literature == [Nothing EXCEPT !.library = {Latest(<<Old>>, LiteratureKeys(<<Old>>))}]
Methods == [Literature EXCEPT !.catalog = {[k \in {"m"} |-> x1]}, !.methods["m"] = x1]
Studied == [Methods EXCEPT !.theory = {x1}, !.empirical = {x1}]
Written == [Studied EXCEPT !.manuscript = {x1}]
\* A second version, with evidence, but without a theory or a manuscript.
Renewed == [Written EXCEPT !.catalog = {[k \in {"m"} |-> x2]}, !.methods["m"] = x2,
                           !.empirical = {x1, x2}]
SomeEarlier == {[current |-> Nothing, sources |-> <<>>]} \cup
    {[current |-> r, sources |-> <<Old>>] : r \in {Written, Renewed}}
WithManuscript == {[current |-> Written, sources |-> <<Old>>]}

=============================================================================
