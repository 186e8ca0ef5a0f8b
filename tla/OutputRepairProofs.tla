------------------------- MODULE OutputRepairProofs -------------------------
(***************************************************************************)
(* Proofs about OutputRepair, for any outputs, schemas and agents, and any *)
(* number of crashes, failed writes and corrections.                       *)
(*                                                                         *)
(* What an agent left can be recovered (RecoveryInv), and an accepted      *)
(* correction returns the outputs that it was not to touch (ScopeInv).     *)
(* The rest is about what a repair does to a document: it stays a document *)
(* (FilesInv), what was done to it is disclosed (RecordsInv and            *)
(* DisclosedInv), and nothing is left to be done (CompleteInv).  The files *)
(* of one role fit each other, pass after pass (LinkInv).                  *)
(***************************************************************************)
EXTENDS OutputRepair, TLAPS

-----------------------------------------------------------------------------
\* What the agent left.

\* Nothing is rewritten before the archive is there.
RecoveryInv == AuthoredIsRecoverable /\ (pc = "repair" => authored \in snapshots)

\* At first the agent is at work.
LEMMA RecoveryInit == Init => RecoveryInv
BY DEF Init, RecoveryInv, AuthoredIsRecoverable

\* Each step keeps what the agent left on disk or in an archive.
LEMMA RecoveryStep == RecoveryInv /\ [Next]_vars => RecoveryInv'
<1> SUFFICES ASSUME RecoveryInv, [Next]_vars PROVE RecoveryInv'
  OBVIOUS
<1> USE DEF RecoveryInv, AuthoredIsRecoverable
<1>1. CASE AgentWrites \/ AgentReturns \/ AgentFails \/ AgentVanishes
  BY <1>1 DEF AgentWrites, AgentReturns, AgentFails, AgentVanishes, store, order
<1>2. CASE Preserve \/ PreserveFails \/ Reconcile
  BY <1>2 DEF Preserve, PreserveFails, Reconcile, store, order, memory
<1>3. CASE RepairOutput \/ Judge \/ SealOutput
  <2>1. CASE RepairOutput
    BY <2>1 DEF RepairOutput, store, order
  <2>2. CASE Judge
    BY <2>2 DEF Judge, store, order
  <2>3. CASE SealOutput
    BY <2>3 DEF SealOutput, order
  <2> QED
    BY <1>3, <2>1, <2>2, <2>3
<1>4. CASE Close \/ Interrupt \/ UpgradeCatalog
  BY <1>4, UpgradeAssumption DEF Close, Interrupt, UpgradeCatalog, store, order, memory
<1>5. ASSUME NEW type \in {"packaging", "scientific"}, NEW outputs \in SUBSET Output,
             Correct(type, outputs)
      PROVE  RecoveryInv'
  BY <1>5 DEF Correct, store
<1>6. ASSUME NEW codes \in Codes, NEW outputs \in SUBSET Output, Normalize(codes, outputs)
      PROVE  RecoveryInv'
  BY <1>6 DEF Normalize, order, memory
<1>7. CASE UNCHANGED vars
  BY <1>7 DEF vars, store
<1> QED
  BY <1>1, <1>2, <1>3, <1>4, <1>5, <1>6, <1>7, FileAssumption DEF Next

\* Whatever crashes, fails or is repeated, the files that an agent left are on
\* disk as they were or in an archive (_validate_and_close, preserve_raw_output).
THEOREM AuthoredIsAlwaysRecoverable == Spec => []AuthoredIsRecoverable
<1>1. RecoveryInv => AuthoredIsRecoverable
  BY DEF RecoveryInv
<1> QED
  BY RecoveryInit, RecoveryStep, <1>1, PTL DEF Spec

-----------------------------------------------------------------------------
\* What a correction was not to touch.

\* The files of a correction that are outside of its scope, as they were given.
AsGiven(files, k, outputs) ==
    \A o \in Output \ outputs :
        files[o] = IF o \in DOMAIN closures[k].outputs THEN closures[k].outputs[o] ELSE Absent

\* The fields of a closure.
ClosureFields ==
    {"lane", "source", "scope", "status", "outputs", "raw", "records", "findings"}

\* The closures are a sequence of records, which is only appended to.
ClosuresInv ==
    /\ \E S : closures \in Seq(S)
    /\ \A k \in DOMAIN closures :
        /\ ClosureFields \subseteq DOMAIN closures[k]
        /\ \A o \in DOMAIN closures[k].outputs : IsDocument(closures[k].outputs[o])
        /\ closures[k].lane \in {"packaging", "scientific", "normalize"} =>
            closures[k].source \in DOMAIN closures
    /\ lane \in {"role", "packaging", "scientific"}
    /\ lane # "role" => source \in DOMAIN closures

\* What is judged is what the agent left, outside of the scope also what is
\* sealed; and a correction that passed was compared.
PassInv ==
    /\ DOMAIN disk = Output
    /\ pc \in {"repair", "seal"} =>
        DOMAIN raw = Output /\ \A o \in Output \ scope : disk[o] = raw[o]
    /\ pc = "seal" /\ lane # "role" /\ verdict = "succeeded" =>
        Findings(disk) = {} /\ AsGiven(raw, source, scope)

ScopeInv == ClosuresInv /\ PassInv /\ OutOfScopeIsReturned

\* A document without findings is accepted, and only documents are
\* (validate_role_outputs).
LEMMA AcceptedWithoutFindings ==
    ASSUME NEW files, DOMAIN files = Output, Findings(files) = {}
    PROVE  \A o \in Output : IsDocument(files[o]) <=> o \in DOMAIN Accepted(files)
<1> SUFFICES ASSUME NEW o \in Output
             PROVE  IsDocument(files[o]) <=> o \in DOMAIN Accepted(files)
  OBVIOUS
<1>1. FileFindings(o, files[o]) = {}
  BY DEF Findings
<1>2. ASSUME IsDocument(files[o]) PROVE Violations(o, files[o]) = {}
  <2>1. FileFindings(o, files[o]) = {<<o, f>> : f \in Violations(o, files[o])}
    BY <1>2 DEF FileFindings, IsDocument
  <2> QED
    BY <2>1, <1>1
<1> QED
  BY <1>2 DEF Accepted, Valid

\* A correction that passes was compared with what it was given
\* (verify_correction_blast_radius).
LEMMA NothingStrayed ==
    ASSUME Strayed = {}
    PROVE  AsGiven(raw, source, scope)
<1> DEFINE given == closures[source].outputs
           Given(o) == IF o \in DOMAIN given THEN given[o] ELSE Absent
<1> SUFFICES ASSUME NEW o \in Output \ scope, raw[o] # Given(o) PROVE FALSE
  BY DEF AsGiven
<1>1. <<o, "">> \in Strayed
  BY DEF Strayed
<1> QED
  BY <1>1

\* A step that appends nothing keeps the closures.
LEMMA ClosuresKept ==
    ASSUME ScopeInv, UNCHANGED <<closures, lane, source>>
    PROVE  ClosuresInv' /\ OutOfScopeIsReturned'
BY DEF ScopeInv, ClosuresInv, OutOfScopeIsReturned

\* A closure that is right can be appended.
LEMMA ClosureAppended ==
    ASSUME ScopeInv, UNCHANGED <<lane, source>>, NEW c, closures' = Append(closures, c),
           ClosureFields \subseteq DOMAIN c,
           \A o \in DOMAIN c.outputs : IsDocument(c.outputs[o]),
           c.lane \in {"packaging", "scientific", "normalize"} => c.source \in DOMAIN closures,
           c.lane \in {"packaging", "scientific"} /\ c.status = "succeeded" =>
             \A o \in Output \ c.scope :
                 /\ o \in DOMAIN c.outputs <=> o \in DOMAIN closures[c.source].outputs
                 /\ o \in DOMAIN c.outputs => c.outputs[o] = closures[c.source].outputs[o]
    PROVE  ClosuresInv' /\ OutOfScopeIsReturned'
<1>1. PICK S : closures \in Seq(S)
  BY DEF ScopeInv, ClosuresInv
<1>2. closures \in Seq(S \cup {c}) /\ closures' \in Seq(S \cup {c})
  BY <1>1
<1>3. /\ Len(closures) \in Nat /\ DOMAIN closures = 1 .. Len(closures)
      /\ DOMAIN closures' = 1 .. Len(closures) + 1
      /\ closures'[Len(closures) + 1] = c
      /\ \A k \in DOMAIN closures : closures'[k] = closures[k]
  BY <1>2
<1>4. ClosuresInv'
  <2>1. \A k \in DOMAIN closures' :
          /\ ClosureFields \subseteq DOMAIN closures'[k]
          /\ \A o \in DOMAIN closures'[k].outputs : IsDocument(closures'[k].outputs[o])
          /\ closures'[k].lane \in {"packaging", "scientific", "normalize"} =>
              closures'[k].source \in DOMAIN closures
    BY <1>3 DEF ScopeInv, ClosuresInv
  <2>2. DOMAIN closures \subseteq DOMAIN closures'
    BY <1>3
  <2>3. (\E T : closures \in Seq(T))'
    BY <1>2
  <2> QED
    BY <2>1, <2>2, <2>3 DEF ScopeInv, ClosuresInv, IsDocument, ClosureFields
<1>5. OutOfScopeIsReturned'
  <2> SUFFICES ASSUME NEW k \in DOMAIN closures',
                      closures'[k].lane \in {"packaging", "scientific"},
                      closures'[k].status = "succeeded",
                      NEW o \in Output \ closures'[k].scope
               PROVE  LET d == closures'[k] IN
                      /\ o \in DOMAIN d.outputs <=> o \in DOMAIN closures'[d.source].outputs
                      /\ o \in DOMAIN d.outputs => d.outputs[o] = closures'[d.source].outputs[o]
    BY DEF OutOfScopeIsReturned
  <2>1. CASE k \in DOMAIN closures
    BY <2>1, <1>3 DEF ScopeInv, ClosuresInv, OutOfScopeIsReturned
  <2>2. CASE k = Len(closures) + 1
    BY <2>2, <1>3
  <2>3. k \in DOMAIN closures \/ k = Len(closures) + 1
    BY <1>3
  <2> QED
    BY <2>1, <2>2, <2>3
<1> QED
  BY <1>4, <1>5

\* The findings depend on the files and the catalog alone.
LEMMA FindingsKept ==
    ASSUME UNCHANGED <<disk, catalog>>
    PROVE  Findings(disk)' = Findings(disk)
<1>1. ASSUME NEW o, NEW d PROVE Violations(o, d)' = Violations(o, d)
  <2>1. Schema(o)' = Schema(o)
    BY DEF Schema
  <2>2. ASSUME NEW s, NEW f, NEW value PROVE Illegal(s, f, value)' = Illegal(s, f, value)
    BY DEF Illegal
  <2> QED
    BY <2>1, <2>2 DEF Violations, Illegal
<1>2. ASSUME NEW o, NEW d PROVE FileFindings(o, d)' = FileFindings(o, d)
  BY <1>1 DEF FileFindings
<1>3. ASSUME NEW o PROVE FileFindings(o, disk[o])' = FileFindings(o, disk[o])
  BY <1>2
<1> QED
  BY <1>3 DEF Findings

\* A step of a pass that leaves its files alone keeps what was judged.
LEMMA PassKept ==
    ASSUME ScopeInv,
           UNCHANGED <<disk, raw, scope, lane, source, closures, catalog, verdict, pc>>
    PROVE  PassInv'
<1>1. AsGiven(raw, source, scope)' = AsGiven(raw, source, scope)
  BY DEF AsGiven
<1> QED
  BY <1>1, FindingsKept DEF ScopeInv, PassInv

\* At first there is no closure.
LEMMA ScopeInit == Init => ScopeInv
<1> SUFFICES ASSUME Init PROVE ScopeInv
  OBVIOUS
<1>1. closures = <<>> /\ <<>> \in Seq({}) /\ DOMAIN <<>> = {}
  <2>1. closures = <<>>
    BY DEF Init
  <2> QED
    BY <2>1
<1>2. \E S : closures \in Seq(S)
  BY <1>1
<1> QED
  BY <1>1, <1>2 DEF Init, ScopeInv, ClosuresInv, PassInv, OutOfScopeIsReturned

\* Each step keeps the invariant.
LEMMA ScopeStep == ScopeInv /\ [Next]_vars => ScopeInv'
<1> SUFFICES ASSUME ScopeInv, [Next]_vars PROVE ScopeInv'
  OBVIOUS
<1> USE DEF ScopeInv
<1>1. CASE AgentWrites \/ AgentReturns
  <2>1. PassInv'
    BY <1>1 DEF AgentWrites, AgentReturns, PassInv
  <2> QED
    BY <1>1, <2>1, ClosuresKept DEF AgentWrites, AgentReturns, store, order
<1>2. CASE AgentFails \/ AgentVanishes \/ Interrupt \/ Reconcile \/ PreserveFails
  <2>1. PassInv'
    BY <1>2 DEF AgentFails, AgentVanishes, Interrupt, Reconcile, PreserveFails, PassInv, order
  <2> QED
    BY <1>2, <2>1, ClosuresKept
    DEF AgentFails, AgentVanishes, Interrupt, Reconcile, PreserveFails, store, order, memory
<1>3. CASE Preserve
  <2>1. PassInv'
    BY <1>3 DEF Preserve, PassInv, order
  <2> QED
    BY <1>3, <2>1, ClosuresKept DEF Preserve, order
<1>4. CASE RepairOutput
  <2> DEFINE o == Order[next]
  <2>1. UNCHANGED <<raw, scope, lane, source, closures, pc>> /\ pc = "repair"
    BY <1>4 DEF RepairOutput, store, order
  <2>2. DOMAIN disk' = Output /\ \A p \in Output \ scope : disk'[p] = disk[p]
    <3>1. CASE o \in scope
      BY <1>4, <3>1 DEF RepairOutput, PassInv
    <3>2. CASE o \notin scope
      BY <1>4, <3>2 DEF RepairOutput, PassInv
    <3> QED
      BY <3>1, <3>2
  <2>3. PassInv'
    BY <2>1, <2>2 DEF PassInv
  <2> QED
    BY <2>1, <2>3, ClosuresKept
<1>5. CASE Judge
  <2>1. UNCHANGED <<disk, raw, scope, lane, source, closures, catalog>> /\ pc = "repair"
    BY <1>5 DEF Judge, store, order
  <2>2. ASSUME lane # "role", verdict' = "succeeded"
        PROVE  Findings(disk) = {} /\ Strayed = {}
    BY <1>5, <2>2 DEF Judge
  <2>3. ASSUME lane # "role", verdict' = "succeeded"
        PROVE  Findings(disk)' = {} /\ AsGiven(raw, source, scope)'
    <3>1. Findings(disk) = {} /\ AsGiven(raw, source, scope)
      BY <2>2, <2>3, NothingStrayed
    <3> QED
      BY <3>1, <2>1, FindingsKept DEF AsGiven
  <2>4. PassInv'
    BY <2>1, <2>3 DEF PassInv
  <2> QED
    BY <2>1, <2>4, ClosuresKept
<1>6. CASE SealOutput
  <2>1. UNCHANGED <<disk, raw, scope, lane, source, closures, catalog, verdict, pc>>
    BY <1>6 DEF SealOutput, order
  <2>2. PassInv'
    BY <2>1, PassKept
  <2> QED
    BY <2>1, <2>2, ClosuresKept
<1>7. CASE Close
  <2> DEFINE c == [lane |-> lane, source |-> source, scope |-> scope,
                   status |-> IF pc = "seal" THEN verdict ELSE "failed",
                   outputs |-> IF pc = "seal" THEN Accepted(disk) ELSE Nothing,
                   raw |-> raw, records |-> records, findings |-> findings]
  <2>1. UNCHANGED <<disk, scope, lane, source>> /\ closures' = Append(closures, c)
    BY <1>7 DEF Close, order
  <2>2. PassInv'
    BY <1>7, <2>1 DEF Close, PassInv
  <2>3. \A o \in DOMAIN c.outputs : IsDocument(c.outputs[o])
    BY DEF Accepted, Valid, Nothing
  <2>4. ASSUME c.lane \in {"packaging", "scientific"}, c.status = "succeeded",
               NEW o \in Output \ c.scope
        PROVE  /\ o \in DOMAIN c.outputs <=> o \in DOMAIN closures[c.source].outputs
               /\ o \in DOMAIN c.outputs => c.outputs[o] = closures[c.source].outputs[o]
    <3>1. pc = "seal" /\ verdict = "succeeded" /\ lane # "role" /\ source \in DOMAIN closures
      BY <2>4 DEF ClosuresInv
    <3>2. /\ DOMAIN disk = Output /\ Findings(disk) = {}
          /\ disk[o] = IF o \in DOMAIN closures[source].outputs
                       THEN closures[source].outputs[o] ELSE Absent
      BY <3>1, <2>4 DEF PassInv, AsGiven
    <3>3. IsDocument(disk[o]) <=> o \in DOMAIN closures[source].outputs
      BY <3>1, <3>2 DEF ClosuresInv, IsDocument
    <3>4. IsDocument(disk[o]) <=> o \in DOMAIN Accepted(disk)
      BY <3>2, AcceptedWithoutFindings
    <3>5. o \in DOMAIN Accepted(disk) => Accepted(disk)[o] = disk[o]
      BY DEF Accepted
    <3> QED
      BY <3>1, <3>2, <3>3, <3>4, <3>5
  <2>5. c.lane \in {"packaging", "scientific", "normalize"} => c.source \in DOMAIN closures
    BY DEF ClosuresInv
  <2>6. ClosureFields \subseteq DOMAIN c
    BY DEF ClosureFields
  <2> HIDE DEF c
  <2> QED
    BY <2>1, <2>2, <2>3, <2>4, <2>5, <2>6, ClosureAppended
<1>8. CASE UpgradeCatalog
  <2>1. PassInv'
    BY <1>8, UpgradeAssumption DEF UpgradeCatalog, PassInv, order, memory
  <2> QED
    BY <1>8, <2>1, ClosuresKept DEF UpgradeCatalog, store, order
<1>9. ASSUME NEW type \in {"packaging", "scientific"}, NEW outputs \in SUBSET Output,
             Correct(type, outputs)
      PROVE  ScopeInv'
  <2>1. /\ UNCHANGED closures /\ lane' = type /\ source' \in DOMAIN closures
        /\ pc' = "agent" /\ DOMAIN disk' = Output
    BY <1>9 DEF Correct, store
  <2>2. PassInv'
    BY <1>9, <2>1 DEF Correct, PassInv
  <2>3. ClosuresInv' /\ OutOfScopeIsReturned'
    BY <1>9, <2>1 DEF ClosuresInv, OutOfScopeIsReturned
  <2> QED
    BY <2>2, <2>3
<1>10. ASSUME NEW codes \in Codes, NEW outputs \in SUBSET Output, Normalize(codes, outputs)
       PROVE  ScopeInv'
  <2>0. PICK k \in DOMAIN closures :
          LET new == Candidate(closures[k].outputs, codes) IN
          /\ \A o \in DOMAIN new : Valid(o, new[o])
          /\ closures' = Append(closures,
               [closures[k] EXCEPT
                  !.lane = "normalize", !.source = k, !.status = "succeeded",
                  !.outputs = new, !.findings = {},
                  !.records = [o \in DOMAIN new |-> Record(o, closures[k].outputs[o], new[o])]])
    BY <1>10 DEF Normalize
  <2> DEFINE new == Candidate(closures[k].outputs, codes)
             c == [closures[k] EXCEPT
                     !.lane = "normalize", !.source = k, !.status = "succeeded",
                     !.outputs = new, !.findings = {},
                     !.records = [o \in DOMAIN new |-> Record(o, closures[k].outputs[o], new[o])]]
  <2>1. /\ UNCHANGED <<catalog, disk, pc, scope, lane, source, raw, verdict>>
        /\ closures' = Append(closures, c) /\ pc = "idle"
        /\ \A o \in DOMAIN new : Valid(o, new[o])
    BY <1>10, <2>0 DEF Normalize, order, memory
  <2>2. PassInv'
    BY <2>1 DEF PassInv
  <2>3. /\ ClosureFields \subseteq DOMAIN c
        /\ c.lane = "normalize" /\ c.source = k /\ c.outputs = new
    BY DEF ClosuresInv, ClosureFields
  <2>4. \A o \in DOMAIN c.outputs : IsDocument(c.outputs[o])
    BY <2>1, <2>3 DEF Valid
  <2> HIDE DEF c, new
  <2> QED
    BY <2>1, <2>2, <2>3, <2>4, ClosureAppended
<1>11. CASE UNCHANGED vars
  <2>1. PassInv'
    BY <1>11, PassKept DEF vars, store, order, memory
  <2> QED
    BY <1>11, <2>1, ClosuresKept DEF vars, store, order
<1> QED
  BY <1>1, <1>2, <1>3, <1>4, <1>5, <1>6, <1>7, <1>8, <1>9, <1>10, <1>11, FileAssumption DEF Next

\* A correction that succeeded returns each output outside of its scope as it
\* was given (_validate_and_close_correction, verify_correction_blast_radius).
THEOREM OutOfScopeIsAlwaysReturned == Spec => []OutOfScopeIsReturned
<1>1. ScopeInv => OutOfScopeIsReturned
  BY DEF ScopeInv
<1> QED
  BY ScopeInit, ScopeStep, <1>1, PTL DEF Spec

-----------------------------------------------------------------------------
\* What the repairs make of a document.

\* A later time allows for more.
LEMMA WellFormedLater ==
    ASSUME NEW t \in Nat, NEW u \in Nat, t <= u, NEW d, WellFormed(d, t)
    PROVE  WellFormed(d, u)
BY DEF WellFormed

\* Fields can be taken out of a document (Restrict, Without).
LEMMA WellFormedPart ==
    ASSUME NEW t, NEW d, WellFormed(d, t), NEW S \in SUBSET DOMAIN d
    PROVE  WellFormed(Restrict(d, S), t)
BY DEF WellFormed, Restrict

\* Without takes fields out.
LEMMA WellFormedWithout ==
    ASSUME NEW t, NEW d, WellFormed(d, t), NEW fields
    PROVE  WellFormed(Without(d, fields), t)
BY WellFormedPart DEF Without

\* A digest is no name and no time (_compute_content_sha256).
LEMMA WellFormedDigest ==
    ASSUME NEW t, NEW d, WellFormed(d, t)
    PROVE  WellFormed(WithDigest(d), t)
<1> DEFINE e == WithDigest(d)
<1>1. /\ e = [f \in DOMAIN d \cup {Digest} |-> e[f]] /\ DOMAIN e = DOMAIN d \cup {Digest}
      /\ \A f \in DOMAIN e : IF f = Digest THEN e[f] = <<"digest", Without(d, {Digest})>>
                             ELSE e[f] = d[f]
  BY DEF WithDigest
<1> HIDE DEF e
<1>2. \A f \in DOMAIN e : e[f][1] \in {"name", "time"} => f \in DOMAIN d /\ e[f] = d[f]
  BY <1>1
<1>3. WellFormed(e, t)
  BY <1>1, <1>2 DEF WellFormed
<1> QED
  BY <1>3 DEF e

\* The repairs recompute a digest that is there (_fix_self_referential_hashes).
LEMMA WellFormedHashed ==
    ASSUME NEW t, NEW d, WellFormed(d, t)
    PROVE  WellFormed(Hashed(d), t)
BY WellFormedDigest DEF Hashed

\* What the harness fills in is well-formed (populate_harness_fields).
LEMMA WellFormedPopulated ==
    ASSUME NEW t \in Nat, NEW o, NEW d, WellFormed(d, t)
    PROVE  WellFormed(Populate(o, d, t), t)
<1> DEFINE own == Owned[o]
           kept == DOMAIN d \ (own.generation \cup own.withheld)
           Blank(f) == f \notin kept \/ d[f] \in {<<"empty">>, <<"null">>}
           Value(f) ==
               IF f \in own.times THEN <<"time", t>>
               ELSE IF f \in own.facts THEN <<"fact">>
               ELSE IF f \in own.filled /\ Blank(f) THEN <<"name", Derived>> ELSE d[f]
           fields == kept \cup own.facts \cup own.times \cup own.filled
           e == [f \in fields |-> Value(f)]
<1>1. ASSUME NEW f \in fields
      PROVE  /\ Value(f)[1] = "name" => \E n \in DOMAIN Sane : Value(f) = <<"name", n>>
             /\ Value(f)[1] = "time" => Value(f)[2] \in 0 .. t
  <2>1. CASE f \in own.times
    BY <2>1
  <2>2. CASE f \notin own.times /\ f \in own.facts
    BY <2>2
  <2>3. CASE f \notin own.times \cup own.facts /\ f \in own.filled /\ Blank(f)
    BY <2>3, SaneAssumption
  <2>4. CASE f \notin own.times \cup own.facts /\ ~(f \in own.filled /\ Blank(f))
    BY <2>4 DEF WellFormed
  <2> QED
    BY <2>1, <2>2, <2>3, <2>4
<1>2. WellFormed(e, t)
  <2> HIDE DEF Value, fields
  <2>1. e = [f \in DOMAIN e |-> e[f]] /\ DOMAIN e = fields /\ \A f \in fields : e[f] = Value(f)
    OBVIOUS
  <2> HIDE DEF e
  <2> QED
    BY <2>1, <1>1 DEF WellFormed
<1>3. Populate(o, d, t) = WithDigest(e)
  BY DEF Populate
<1> HIDE DEF e
<1> QED
  BY <1>2, <1>3, WellFormedDigest

\* A missing time is the time of the pass (_add_missing_timestamps).
LEMMA WellFormedTimes ==
    ASSUME NEW t \in Nat, NEW s, NEW d, WellFormed(d, t)
    PROVE  WellFormed(AddTimes(s, d, t), t)
<1> DEFINE e == AddTimes(s, d, t)
<1>1. /\ e = [f \in DOMAIN e |-> e[f]]
      /\ \A f \in DOMAIN e : e[f] = IF f \in DOMAIN d THEN d[f] ELSE <<"time", t>>
  BY DEF AddTimes
<1> HIDE DEF e
<1>2. \A f \in DOMAIN e : (f \in DOMAIN d /\ e[f] = d[f]) \/ e[f] = <<"time", t>>
  BY <1>1
<1>3. WellFormed(e, t)
  BY <1>1, <1>2 DEF WellFormed
<1> QED
  BY <1>3 DEF e

\* The strips take fields out (_fix_item, _strip_empty_strings).
LEMMA WellFormedStripped ==
    ASSUME NEW t, NEW s, NEW d, WellFormed(d, t)
    PROVE  /\ WellFormed(StripUndeclared(s, d), t)
           /\ WellFormed(StripNulls(s, d), t)
           /\ WellFormed(StripEmpty(s, d), t)
<1>1. WellFormed(StripUndeclared(s, d), t)
  BY WellFormedPart DEF StripUndeclared
<1> QED
  BY <1>1, WellFormedWithout DEF StripNulls, StripEmpty

\* What stands for a name is a name (_deep_sanitize_ids, _rewrite_id_references).
LEMMA WellFormedRewritten ==
    ASSUME NEW t, NEW names, NEW d, WellFormed(d, t)
    PROVE  WellFormed(Rewritten(d, names), t)
<1> DEFINE e == Rewritten(d, names)
<1>1. /\ e = [f \in DOMAIN d |-> e[f]] /\ DOMAIN e = DOMAIN d
      /\ \A f \in DOMAIN d : e[f] = IF d[f][1] = "name" /\ d[f][2] \in names
                                    THEN <<"name", Sane[d[f][2]]>> ELSE d[f]
  BY DEF Rewritten
<1> HIDE DEF e
<1>2. ASSUME NEW f \in DOMAIN d, d[f][1] = "name" PROVE \E n \in DOMAIN Sane : e[f] = <<"name", n>>
  <2>1. PICK n \in DOMAIN Sane : d[f] = <<"name", n>>
    BY <1>2 DEF WellFormed
  <2>2. e[f] = <<"name", Sane[n]>> \/ e[f] = <<"name", n>>
    BY <2>1, <1>1
  <2> QED
    BY <2>2, SaneAssumption
<1>3. ASSUME NEW f \in DOMAIN d, d[f][1] # "name" PROVE e[f] = d[f]
  BY <1>1, <1>3
<1>4. WellFormed(e, t)
  <2>1. ASSUME NEW f \in DOMAIN e
        PROVE  /\ e[f][1] = "name" => \E n \in DOMAIN Sane : e[f] = <<"name", n>>
               /\ e[f][1] = "time" => e[f][2] \in 0 .. t
    <3>1. CASE d[f][1] = "name"
      BY <3>1, <1>1, <1>2
    <3>2. CASE d[f][1] # "name"
      BY <3>2, <1>1, <1>3 DEF WellFormed
    <3> QED
      BY <3>1, <3>2
  <2> QED
    BY <1>1, <2>1 DEF WellFormed
<1> QED
  BY <1>4 DEF e

\* A stamped pointer is no name and no time (_stamp_output_pointer).
LEMMA WellFormedStamped ==
    ASSUME NEW t, NEW o, NEW d, NEW files, NEW plan, WellFormed(d, t)
    PROVE  WellFormed(Stamped(o, d, files, plan), t)
<1> DEFINE e == Stamped(o, d, files, plan)
<1>1. /\ e = [f \in DOMAIN d |-> e[f]] /\ DOMAIN e = DOMAIN d
      /\ \A f \in DOMAIN d :
            \/ e[f] = d[f]
            \/ e[f] = <<"at", d[f][2], d[f][2] = o, files[d[f][2]]>>
  BY DEF Stamped
<1> HIDE DEF e
<1>2. \A f \in DOMAIN d : e[f][1] \in {"name", "time"} => e[f] = d[f]
  BY <1>1
<1>3. WellFormed(e, t)
  BY <1>1, <1>2 DEF WellFormed
<1> QED
  BY <1>3 DEF e

\* The mechanical repairs leave a well-formed document.
LEMMA WellFormedTidied ==
    ASSUME NEW t \in Nat, NEW s, NEW d, WellFormed(d, t)
    PROVE  WellFormed(Tidied(s, d, t), t)
<1> DEFINE fixed == IF Bare(s) THEN d ELSE StripNulls(s, StripUndeclared(s, AddTimes(s, d, t)))
           named == Rewritten(fixed, Renamed(s, fixed))
<1>1. WellFormed(fixed, t)
  BY WellFormedTimes, WellFormedStripped
<1> HIDE DEF fixed
<1>2. WellFormed(named, t)
  BY <1>1, WellFormedRewritten
<1> HIDE DEF named
<1>3. WellFormed(IF Bare(s) THEN named ELSE StripEmpty(s, named), t)
  BY <1>2, WellFormedStripped
<1> QED
  BY <1>3 DEF Tidied, fixed, named

\* So does a repair pass (_apply_disclosed_mechanical_repairs).
LEMMA WellFormedRepaired ==
    ASSUME NEW t \in Nat, NEW o, NEW d, NEW files, WellFormed(d, t)
    PROVE  WellFormed(Repaired(o, d, files, t), t)
<1> DEFINE tidy == Tidied(Schema(o), Populate(o, d, t), t)
<1>1. WellFormed(tidy, t)
  BY WellFormedPopulated, WellFormedTidied
<1> HIDE DEF tidy
<1>2. WellFormed(Hashed(Stamped(o, tidy, files, scope)), t)
  BY <1>1, WellFormedStamped, WellFormedHashed
<1> QED
  BY <1>1, <1>2 DEF Repaired, tidy

\* And a normalization (apply_normalize_transformations).
LEMMA WellFormedNormalized ==
    ASSUME NEW t \in Nat, NEW o, NEW d, NEW codes, WellFormed(d, t)
    PROVE  WellFormed(Normalized(o, d, t, codes), t)
<1> DEFINE s == Schema(o)
           On(code, after, before) == IF code \in codes /\ ~Bare(s) THEN after ELSE before
           d1 == On("timestamp_injection", AddTimes(s, d, t), d)
           d2 == On("additional_properties_strip", StripUndeclared(s, d1), d1)
           d3 == On("null_strip", StripNulls(s, d2), d2)
           d4 == IF "id_sanitization" \in codes THEN Rewritten(d3, Renamed(s, d3)) ELSE d3
           d5 == On("empty_string_strip", StripEmpty(s, d4), d4)
           d6 == On("hash_recomputation", Hashed(d5), d5)
<1>0. Normalized(o, d, t, codes) = d6
  BY DEF Normalized
<1> HIDE DEF s
<1>1. WellFormed(d1, t)
  BY WellFormedTimes
<1> HIDE DEF d1
<1>2. WellFormed(d2, t)
  BY <1>1, WellFormedStripped
<1> HIDE DEF d2
<1>3. WellFormed(d3, t)
  BY <1>2, WellFormedStripped
<1> HIDE DEF d3
<1>4. WellFormed(d4, t)
  BY <1>3, WellFormedRewritten
<1> HIDE DEF d4
<1>5. WellFormed(d5, t)
  BY <1>4, WellFormedStripped
<1> HIDE DEF d5
<1>6. WellFormed(d6, t)
  BY <1>5, WellFormedHashed
<1> QED
  BY <1>0, <1>6

\* An agent that edits a document leaves a well-formed one.
LEMMA WellFormedEdited ==
    ASSUME NEW t \in Nat, NEW o \in Output, NEW file,
           IsDocument(file) => WellFormed(file, t),
           NEW new \in Edits(o, file), IsDocument(new)
    PROVE  WellFormed(new, t)
<1>1. ASSUME NEW d, WellFormed(d, 0) PROVE WellFormed(d, t)
  BY <1>1, WellFormedLater
<1>2. ASSUME IsDocument(file), NEW c \in Changes[o], new = With(file, c) PROVE WellFormed(new, t)
  <2>1. WellFormed(c, t)
    BY <1>1, WriteAssumption
  <2>2. /\ new = [f \in DOMAIN new |-> new[f]]
        /\ \A f \in DOMAIN new :
              \/ f \in DOMAIN c /\ new[f] = c[f]
              \/ f \in DOMAIN file /\ new[f] = file[f]
    BY <1>2 DEF With
  <2> QED
    BY <2>1, <2>2, <1>2 DEF WellFormed
<1> QED
  BY <1>1, <1>2, WriteAssumption DEF Edits

-----------------------------------------------------------------------------
\* The types.

\* Every document is well-formed, on disk and in a closure.
FilesInv ==
    /\ tick \in Nat
    /\ \A o \in Output : IsDocument(disk[o]) => WellFormed(disk[o], tick)
    /\ \A k \in DOMAIN closures : \A o \in DOMAIN closures[k].outputs :
        o \in Output /\ WellFormed(closures[k].outputs[o], tick)

\* The types of the other variables.
ScalarInv ==
    /\ catalog \in DOMAIN Catalog
    /\ DOMAIN disk = Output /\ DOMAIN sidecar = Output /\ DOMAIN authored = Output
    /\ pc \in {"agent", "returned", "repair", "seal", "close", "vanished", "idle"}
    /\ lane \in {"role", "packaging", "scientific"}
    /\ scope \subseteq Output /\ source \in 0 .. Len(closures)
    /\ next \in 1 .. Len(Order) + 1
    /\ verdict \in {"", "succeeded", "failed"}

TypeInv == ScalarInv /\ FilesInv

\* The order names the outputs.
LEMMA OrderNamesOutputs ==
    /\ Len(Order) \in Nat /\ DOMAIN Order = 1 .. Len(Order)
    /\ \A i \in 1 .. Len(Order) : Order[i] \in Output
    /\ \A o \in Output : \E i \in 1 .. Len(Order) : Order[i] = o
    /\ \A i, j \in 1 .. Len(Order) : Order[i] = Order[j] => i = j
BY OrderAssumption DEF Output, ToSet, IsInjective

\* What appending does.
LEMMA Appended ==
    ASSUME ClosuresInv, NEW c, closures' = Append(closures, c)
    PROVE  /\ Len(closures) \in Nat /\ DOMAIN closures = 1 .. Len(closures)
           /\ Len(closures') = Len(closures) + 1
           /\ DOMAIN closures' = DOMAIN closures \cup {Len(closures) + 1}
           /\ closures'[Len(closures) + 1] = c
           /\ \A k \in DOMAIN closures : closures'[k] = closures[k]
<1>1. PICK S : closures \in Seq(S)
  BY DEF ClosuresInv
<1>2. closures \in Seq(S \cup {c}) /\ closures' \in Seq(S \cup {c})
  BY <1>1
<1> QED
  BY <1>2

\* The two parts are the types.
LEMMA TypesOfParts == TypeInv => TypeOK
<1> SUFFICES ASSUME TypeInv PROVE TypeOK
  OBVIOUS
<1>1. \A k \in DOMAIN closures : \A o \in DOMAIN closures[k].outputs :
        LET d == closures[k].outputs[o] IN
        /\ o \in Output
        /\ \A f \in DOMAIN d : d[f][1] = "time" => d[f][2] \in 0 .. tick
  BY DEF TypeInv, FilesInv, WellFormed
<1> QED
  BY <1>1 DEF TypeInv, ScalarInv, TypeOK

\* At first there is no file and no closure.
LEMMA TypeInit == Init => TypeInv
<1> SUFFICES ASSUME Init PROVE TypeInv
  OBVIOUS
<1>1. DOMAIN closures = {} /\ Len(closures) = 0
  <2>1. closures = <<>>
    BY DEF Init
  <2> QED
    BY <2>1
<1>2. 1 \in DOMAIN Catalog
  BY CatalogAssumption
<1>3. 1 \in 1 .. Len(Order) + 1
  BY OrderNamesOutputs
<1>4. FilesInv
  BY <1>1 DEF Init, FilesInv, IsDocument
<1>5. DOMAIN disk = Output /\ DOMAIN sidecar = Output /\ DOMAIN authored = Output
  BY DEF Init
<1>6. catalog \in DOMAIN Catalog /\ next \in 1 .. Len(Order) + 1
  BY <1>2, <1>3 DEF Init
<1>7. pc = "agent" /\ lane = "role" /\ scope = Output /\ verdict = "" /\ source = 0
  BY DEF Init
<1>8. source \in 0 .. Len(closures)
  <2>1. Len(closures) = 0 /\ source = 0
    BY <1>1, <1>7
  <2>2. 0 \in 0 .. 0
    OBVIOUS
  <2> QED
    BY <2>1, <2>2, Zenon
<1>9. ScalarInv
  BY <1>1, <1>5, <1>6, <1>7, <1>8 DEF ScalarInv
<1> QED
  BY <1>4, <1>9 DEF TypeInv

\* A step that leaves the documents alone keeps the files.
LEMMA FilesKept ==
    ASSUME FilesInv, UNCHANGED <<disk, closures, tick>>
    PROVE  FilesInv'
<1>1. /\ \A o \in Output : IsDocument(disk'[o]) => WellFormed(disk'[o], tick')
      /\ \A k \in DOMAIN closures' : \A o \in DOMAIN closures'[k].outputs :
            o \in Output /\ WellFormed(closures'[k].outputs[o], tick')
  BY DEF FilesInv
<1> QED
  BY <1>1 DEF FilesInv, IsDocument, WellFormed

\* A step that leaves a well-formed document in each file keeps the files.
LEMMA FilesRewritten ==
    ASSUME FilesInv, UNCHANGED <<closures, tick>>,
           \A o \in Output : IsDocument(disk'[o]) => WellFormed(disk'[o], tick)
    PROVE  FilesInv'
<1>1. \A k \in DOMAIN closures' : \A o \in DOMAIN closures'[k].outputs :
            o \in Output /\ WellFormed(closures'[k].outputs[o], tick')
  BY DEF FilesInv
<1>2. tick' \in Nat /\ \A o \in Output : IsDocument(disk'[o]) => WellFormed(disk'[o], tick')
  BY DEF FilesInv
<1> QED
  BY <1>1, <1>2 DEF FilesInv, IsDocument, WellFormed

\* A closure with well-formed documents can be appended.
LEMMA FilesAppended ==
    ASSUME FilesInv, ClosuresInv, tick' \in Nat, tick <= tick', UNCHANGED disk,
           NEW c, closures' = Append(closures, c),
           \A o \in DOMAIN c.outputs : o \in Output /\ WellFormed(c.outputs[o], tick')
    PROVE  FilesInv'
<1>1. /\ DOMAIN closures' = DOMAIN closures \cup {Len(closures) + 1}
      /\ closures'[Len(closures) + 1] = c
      /\ \A k \in DOMAIN closures : closures'[k] = closures[k]
  BY Appended
<1>2. ASSUME NEW d, WellFormed(d, tick) PROVE WellFormed(d, tick')
  BY <1>2, WellFormedLater DEF FilesInv
<1>3. \A k \in DOMAIN closures' : \A o \in DOMAIN closures'[k].outputs :
        o \in Output /\ WellFormed(closures'[k].outputs[o], tick')
  <2> SUFFICES ASSUME NEW k \in DOMAIN closures', NEW o \in DOMAIN closures'[k].outputs
               PROVE  o \in Output /\ WellFormed(closures'[k].outputs[o], tick')
    OBVIOUS
  <2>1. CASE k \in DOMAIN closures
    BY <2>1, <1>1, <1>2 DEF FilesInv
  <2>2. CASE k = Len(closures) + 1
    BY <2>2, <1>1
  <2> QED
    BY <2>1, <2>2, <1>1
<1>4. \A o \in Output : IsDocument(disk'[o]) => WellFormed(disk'[o], tick')
  BY <1>2 DEF FilesInv
<1> QED
  BY <1>3, <1>4 DEF FilesInv, IsDocument, WellFormed

\* Each step keeps the types.
LEMMA TypeStep == TypeInv /\ ClosuresInv /\ [Next]_vars => TypeInv'
<1> SUFFICES ASSUME TypeInv, ClosuresInv, [Next]_vars PROVE TypeInv'
  OBVIOUS
<1> USE DEF TypeInv
<1>0. Len(Order) \in Nat /\ 1 \in 1 .. Len(Order) + 1 /\ Len(closures) \in Nat
  <2>1. PICK S : closures \in Seq(S)
    BY DEF ClosuresInv
  <2> QED
    BY <2>1, OrderNamesOutputs
<1>b. /\ tick \in Nat /\ catalog \in DOMAIN Catalog
      /\ next \in 1 .. Len(Order) + 1 /\ source \in 0 .. Len(closures)
  BY DEF FilesInv, ScalarInv
<1>u. Len(closures) + 1 \in Nat /\ \A n \in 0 .. Len(closures) : n \in 0 .. Len(closures) + 1
  BY <1>0
<1>n. \A n \in 1 .. Len(Order) + 1 : n <= Len(Order) =>
        n \in 1 .. Len(Order) /\ n + 1 \in 1 .. Len(Order) + 1
  BY <1>0
<1>1. CASE AgentWrites
  <2>1. /\ next <= Len(Order) /\ next' = next + 1
        /\ UNCHANGED <<catalog, sidecar, authored, closures, pc, lane, scope, source, verdict, tick>>
    BY <1>1 DEF AgentWrites, store, order
  <2>2. Order[next] \in Output /\ next' \in 1 .. Len(Order) + 1
    BY <2>1, <1>b, <1>n, OrderNamesOutputs
  <2>3. PICK file \in Edits(Order[next], disk[Order[next]]) :
            disk' = [disk EXCEPT ![Order[next]] = file]
    BY <1>1 DEF AgentWrites
  <2>4. IsDocument(file) => WellFormed(file, tick)
    BY <2>2, <2>3, WellFormedEdited DEF FilesInv
  <2>5. FilesInv'
    <3>1. \A o \in Output : IsDocument(disk'[o]) => WellFormed(disk'[o], tick)
      BY <2>2, <2>3, <2>4 DEF FilesInv, ScalarInv
    <3> QED
      BY <3>1, <2>1, FilesRewritten
  <2>6. ScalarInv'
    BY <2>1, <2>2, <2>3 DEF ScalarInv
  <2> QED
    BY <2>5, <2>6
<1>2. CASE AgentReturns \/ AgentFails \/ AgentVanishes
  <2>1. UNCHANGED <<disk, closures, tick>>
    BY <1>2 DEF AgentReturns, AgentFails, AgentVanishes, store
  <2>2. ScalarInv'
    BY <1>0, <1>2 DEF AgentReturns, AgentFails, AgentVanishes, ScalarInv, Forget, store, order
  <2> QED
    BY <2>1, <2>2, FilesKept
<1>3. CASE Preserve
  <2>1. UNCHANGED <<disk, closures>> /\ tick \in Nat /\ tick' = tick + 1
    BY <1>3 DEF Preserve, FilesInv
  <2>2. ScalarInv'
    BY <1>3 DEF Preserve, ScalarInv, order
  <2>3. ASSUME NEW d, WellFormed(d, tick) PROVE WellFormed(d, tick')
    BY <2>1, <2>3, WellFormedLater
  <2>4. FilesInv'
    <3>1. /\ \A o \in Output : IsDocument(disk'[o]) => WellFormed(disk'[o], tick')
          /\ \A k \in DOMAIN closures' : \A o \in DOMAIN closures'[k].outputs :
                o \in Output /\ WellFormed(closures'[k].outputs[o], tick')
      BY <2>1, <2>3 DEF FilesInv
    <3> QED
      BY <3>1, <2>1 DEF FilesInv, IsDocument, WellFormed
  <2> QED
    BY <2>2, <2>4
<1>4. CASE PreserveFails \/ Interrupt \/ Reconcile \/ UpgradeCatalog
  <2>1. UNCHANGED <<disk, closures, tick>>
    BY <1>4 DEF PreserveFails, Interrupt, Reconcile, UpgradeCatalog, store
  <2>2. UNCHANGED <<sidecar, authored, lane, scope, source>>
    BY <1>4 DEF PreserveFails, Interrupt, Reconcile, UpgradeCatalog, order
  <2>3. catalog' \in DOMAIN Catalog
    <3>1. Len(Catalog) \in Nat /\ DOMAIN Catalog = 1 .. Len(Catalog)
      BY CatalogAssumption
    <3> QED
      BY <1>4, <1>b, <3>1 DEF PreserveFails, Interrupt, Reconcile, UpgradeCatalog
  <2>4. /\ pc' \in {"agent", "returned", "repair", "seal", "close", "vanished", "idle"}
        /\ next' \in 1 .. Len(Order) + 1 /\ verdict' \in {"", "succeeded", "failed"}
    BY <1>0, <1>4
    DEF PreserveFails, Interrupt, Reconcile, UpgradeCatalog, ScalarInv, Forget, memory
  <2>5. ScalarInv'
    BY <2>1, <2>2, <2>3, <2>4 DEF ScalarInv
  <2> QED
    BY <2>1, <2>5, FilesKept
<1>5. CASE RepairOutput
  <2> DEFINE o == Order[next]
             repaired == Repaired(o, disk[o], disk, tick)
  <2>1. /\ next <= Len(Order) /\ next' = next + 1
        /\ UNCHANGED <<catalog, authored, closures, pc, lane, scope, source, verdict, tick>>
    BY <1>5 DEF RepairOutput, store, order
  <2>2. o \in Output /\ next' \in 1 .. Len(Order) + 1
    BY <2>1, <1>b, <1>n, OrderNamesOutputs
  <2>3. IsDocument(disk[o]) => WellFormed(repaired, tick)
    BY <2>2, WellFormedRepaired DEF FilesInv
  <2>4. /\ DOMAIN sidecar' = Output
        /\ UNCHANGED disk \/ (IsDocument(disk[o]) /\ disk' = [disk EXCEPT ![o] = repaired])
    BY <1>5 DEF RepairOutput, ScalarInv
  <2> HIDE DEF repaired, o
  <2>5. DOMAIN disk' = Output
        /\ \A p \in Output : IsDocument(disk'[p]) => WellFormed(disk'[p], tick)
    BY <2>2, <2>3, <2>4 DEF FilesInv, ScalarInv
  <2>6. FilesInv'
    BY <2>1, <2>5, FilesRewritten
  <2>7. ScalarInv'
    BY <2>1, <2>2, <2>4, <2>5 DEF ScalarInv
  <2> QED
    BY <2>6, <2>7
<1>6. CASE Judge
  <2>1. UNCHANGED <<disk, closures, tick>>
    BY <1>6 DEF Judge, store
  <2>2. verdict' \in {"", "succeeded", "failed"}
    BY <1>6 DEF Judge
  <2>3. ScalarInv'
    BY <1>0, <1>6, <2>1, <2>2 DEF Judge, ScalarInv, order
  <2> QED
    BY <2>1, <2>3, FilesKept
<1>7. CASE SealOutput
  <2>1. UNCHANGED <<disk, closures, tick>>
    BY <1>7 DEF SealOutput
  <2>2. next' \in 1 .. Len(Order) + 1
    BY <1>b, <1>n, <1>7 DEF SealOutput
  <2>3. ScalarInv'
    BY <1>7, <2>1, <2>2 DEF SealOutput, ScalarInv, order
  <2> QED
    BY <2>1, <2>3, FilesKept
<1>8. CASE Close
  <2> DEFINE c == [lane |-> lane, source |-> source, scope |-> scope,
                   status |-> IF pc = "seal" THEN verdict ELSE "failed",
                   outputs |-> IF pc = "seal" THEN Accepted(disk) ELSE Nothing,
                   raw |-> raw, records |-> records, findings |-> findings]
  <2>1. /\ UNCHANGED <<catalog, disk, sidecar, authored, tick, scope, lane, source>>
        /\ closures' = Append(closures, c)
        /\ pc' = "idle" /\ next' = 1 /\ verdict' = ""
    BY <1>8 DEF Close, order, Forget
  <2>2. \A o \in DOMAIN c.outputs : o \in Output /\ WellFormed(c.outputs[o], tick)
    <3>1. \A o \in DOMAIN Accepted(disk) : o \in Output /\ WellFormed(Accepted(disk)[o], tick)
      BY DEF Accepted, Valid, FilesInv, ScalarInv
    <3> QED
      BY <3>1 DEF Nothing
  <2> HIDE DEF c
  <2>3. tick \in Nat /\ tick' \in Nat /\ tick <= tick'
    <3>1. tick' = tick
      BY <2>1
    <3>2. tick <= tick
      BY <1>b
    <3> QED
      BY <1>b, <3>1, <3>2, Zenon
  <2>4. FilesInv'
    BY <2>1, <2>2, <2>3, FilesAppended
  <2>5. source \in 0 .. Len(closures')
    <3>1. Len(closures') = Len(closures) + 1
      BY <2>1, Appended
    <3> QED
      BY <1>b, <1>u, <3>1
  <2>6. ScalarInv'
    BY <1>0, <2>1, <2>5 DEF ScalarInv
  <2> QED
    BY <2>4, <2>6
<1>9. ASSUME NEW type \in {"packaging", "scientific"}, NEW outputs \in SUBSET Output,
             Correct(type, outputs)
      PROVE  TypeInv'
  <2>1. PICK k \in DOMAIN closures :
            /\ source' = k
            /\ disk' = [o \in Output |-> IF o \in DOMAIN closures[k].outputs
                                         THEN closures[k].outputs[o] ELSE Absent]
    BY <1>9 DEF Correct
  <2>2. UNCHANGED <<catalog, closures, tick>> /\ pc' = "agent" /\ lane' = type /\ scope' = outputs
    BY <1>9 DEF Correct, store
  <2>3. authored' = disk' /\ DOMAIN sidecar' = Output /\ next' = 1 /\ verdict' = ""
    BY <1>9 DEF Correct, Forget
  <2>4. \A o \in Output : IsDocument(disk'[o]) => WellFormed(disk'[o], tick)
    BY <2>1 DEF FilesInv, IsDocument
  <2>5. FilesInv'
    BY <2>2, <2>4, FilesRewritten
  <2>6. DOMAIN disk' = Output /\ source' \in 0 .. Len(closures)
    <3>1. PICK S : closures \in Seq(S)
      BY DEF ClosuresInv
    <3> QED
      BY <2>1, <3>1
  <2>7. ScalarInv'
    BY <1>0, <2>2, <2>3, <2>6 DEF ScalarInv
  <2> QED
    BY <2>5, <2>7
<1>10. ASSUME NEW codes \in Codes, NEW outputs \in SUBSET Output, Normalize(codes, outputs)
       PROVE  TypeInv'
  <2>0. PICK k \in DOMAIN closures :
          LET new == Candidate(closures[k].outputs, codes) IN
          closures' = Append(closures,
               [closures[k] EXCEPT
                  !.lane = "normalize", !.source = k, !.status = "succeeded",
                  !.outputs = new, !.findings = {},
                  !.records = [o \in DOMAIN new |-> Record(o, closures[k].outputs[o], new[o])]])
    BY <1>10 DEF Normalize
  <2> DEFINE new == Candidate(closures[k].outputs, codes)
             c == [closures[k] EXCEPT
                     !.lane = "normalize", !.source = k, !.status = "succeeded",
                     !.outputs = new, !.findings = {},
                     !.records = [o \in DOMAIN new |-> Record(o, closures[k].outputs[o], new[o])]]
  <2>1. /\ UNCHANGED <<catalog, disk, sidecar, authored, pc, scope, lane, source, next, verdict>>
        /\ closures' = Append(closures, c) /\ tick' = tick + 1
    BY <1>10, <2>0 DEF Normalize, order, memory
  <2>2. tick \in Nat /\ tick' \in Nat /\ tick <= tick'
    BY <2>1 DEF FilesInv
  <2>3. c.outputs = new
    BY DEF ClosuresInv, ClosureFields
  <2>4. \A o \in DOMAIN new : o \in Output /\ WellFormed(new[o], tick')
    <3> SUFFICES ASSUME NEW o \in DOMAIN closures[k].outputs
                 PROVE  /\ o \in Output
                        /\ WellFormed(Normalized(o, closures[k].outputs[o], tick + 1, codes), tick')
      BY DEF Candidate
    <3>1. o \in Output /\ WellFormed(closures[k].outputs[o], tick + 1)
      BY <2>1, <2>2, WellFormedLater DEF FilesInv
    <3> QED
      BY <3>1, <2>1, <2>2, WellFormedNormalized
  <2> HIDE DEF c, new
  <2>5. FilesInv'
    BY <2>1, <2>2, <2>3, <2>4, FilesAppended
  <2>6. source \in 0 .. Len(closures')
    <3>1. Len(closures') = Len(closures) + 1
      BY <2>1, Appended
    <3> QED
      BY <1>b, <1>u, <3>1
  <2>7. ScalarInv'
    BY <1>0, <2>1, <2>6 DEF ScalarInv
  <2> QED
    BY <2>5, <2>7
<1>11. CASE UNCHANGED vars
  <2>1. UNCHANGED <<disk, closures, tick>>
    BY <1>11 DEF vars, store
  <2>2. ScalarInv'
    BY <1>11 DEF vars, store, order, memory, ScalarInv
  <2> QED
    BY <2>1, <2>2, FilesKept
<1> QED
  BY <1>1, <1>2, <1>3, <1>4, <1>5, <1>6, <1>7, <1>8, <1>9, <1>10, <1>11, FileAssumption DEF Next

\* The closures are records of the sealed kind.
LEMMA ScopesHold == Spec => []ScopeInv
BY ScopeInit, ScopeStep, PTL DEF Spec

\* The types, and that they are kept.
LEMMA TypesHold == Spec => [](TypeInv /\ ClosuresInv)
<1>1. ScopeInv => ClosuresInv
  BY DEF ScopeInv
<1> QED
  BY <1>1, ScopesHold, TypeInit, TypeStep, PTL DEF Spec

\* The types; a stamped time is that of a repair pass (_validate_and_close).
THEOREM TypesAreCorrect == Spec => []TypeOK
BY TypesHold, TypesOfParts, PTL

-----------------------------------------------------------------------------
\* What a closure discloses.

\* The record of an output tells exactly what differs.
Tells(record, before, after) ==
    LET differs == Changed(before, after) IN
    /\ differs = {e.field : e \in record.entries}
    /\ record.unchanged => differs \subseteq {Digest}
    /\ differs = {} => record.unchanged

\* An output has a record that tells, or was not touched.
Told(recs, o, before, after) ==
    IF o \in DOMAIN recs THEN Tells(recs[o], before, after) ELSE before = after

\* A pass keeps a record of each output that it has repaired, and of no other.
RecordsInv ==
    /\ pc \in {"repair", "seal"} => \A o \in Output : Told(records, o, raw[o], disk[o])
    /\ pc = "repair" => DOMAIN records \subseteq {Order[i] : i \in 1 .. next - 1}
    /\ pc \notin {"repair", "seal"} => DOMAIN records = {}

\* A record is made of both documents (_classify_transformations).
LEMMA RecordTells ==
    ASSUME NEW o, NEW before, NEW after
    PROVE  Tells(Record(o, before, after), before, after)
<1> DEFINE Code(f) == IF f \notin DOMAIN after THEN CodeOfRemoval(o, f, before[f])
                      ELSE IF f \notin DOMAIN before THEN CodeOfAddition(o, f)
                      ELSE CodeOfChange(o, f, before[f], after[f])
           differs == Changed(before, after)
           entries == {[field |-> f, code |-> Code(f)] : f \in differs}
<1>1. Entries(o, before, after) = entries
  BY DEF Entries
<1>2. differs = {e.field : e \in entries}
  <2> HIDE DEF Code, differs
  <2>1. \A f \in differs : [field |-> f, code |-> Code(f)] \in entries
    OBVIOUS
  <2>2. \A f \in differs : \E e \in entries : e.field = f
    BY <2>1
  <2>3. \A e \in entries : e.field \in differs
    OBVIOUS
  <2> HIDE DEF entries
  <2> QED
    BY <2>2, <2>3
<1>3. ASSUME NEW f, Code(f) = "hash_recomputation" PROVE f = Digest
  BY <1>3 DEF CodeOfRemoval, CodeOfAddition, CodeOfChange
<1>4. (\A e \in entries : e.code = "hash_recomputation") => differs \subseteq {Digest}
  <2> SUFFICES ASSUME \A e \in entries : e.code = "hash_recomputation", NEW f \in differs
               PROVE  f = Digest
    OBVIOUS
  <2> HIDE DEF Code, differs
  <2>1. [field |-> f, code |-> Code(f)] \in entries
    OBVIOUS
  <2>2. Code(f) = "hash_recomputation"
    BY <2>1
  <2> QED
    BY <2>2, <1>3
<1>5. differs = {} => entries = {}
  OBVIOUS
<1>6. /\ Record(o, before, after).entries = entries
      /\ Record(o, before, after).unchanged = (\A e \in entries : e.code = "hash_recomputation")
  BY <1>1 DEF Record
<1> HIDE DEF entries
<1> QED
  BY <1>2, <1>4, <1>5, <1>6 DEF Tells

\* The closures disclose what the property says.
DisclosedInv ==
    \A k \in DOMAIN closures : \A o \in DOMAIN closures[k].outputs :
        LET c == closures[k]
            before == IF c.lane = "normalize" THEN closures[c.source].outputs[o] ELSE c.raw[o]
        IN  Told(c.records, o, before, c.outputs[o])

\* What did not change does not differ.
LEMMA DisclosedIsExact == DisclosedInv => DisclosureIsExact
<1>1. \A d : Changed(d, d) = {}
  BY DEF Changed
<1> QED
  BY <1>1 DEF DisclosedInv, DisclosureIsExact, Told, Tells

\* A closure that tells can be appended.
LEMMA DisclosedAppended ==
    ASSUME DisclosedInv, ClosuresInv, NEW c, closures' = Append(closures, c),
           c.lane = "normalize" => c.source \in DOMAIN closures,
           \A o \in DOMAIN c.outputs :
               Told(c.records, o,
                    IF c.lane = "normalize" THEN closures[c.source].outputs[o] ELSE c.raw[o],
                    c.outputs[o])
    PROVE  DisclosedInv'
<1>1. /\ DOMAIN closures' = DOMAIN closures \cup {Len(closures) + 1}
      /\ closures'[Len(closures) + 1] = c
      /\ \A k \in DOMAIN closures : closures'[k] = closures[k]
  BY Appended
<1>2. \A k \in DOMAIN closures : closures[k].lane = "normalize" => closures[k].source \in DOMAIN closures
  BY DEF ClosuresInv
<1> SUFFICES ASSUME NEW k \in DOMAIN closures', NEW o \in DOMAIN closures'[k].outputs
             PROVE  LET d == closures'[k]
                        before == IF d.lane = "normalize" THEN closures'[d.source].outputs[o]
                                  ELSE d.raw[o]
                    IN  Told(d.records, o, before, d.outputs[o])
  BY DEF DisclosedInv, Told, Tells, Changed
<1>3. CASE k \in DOMAIN closures
  BY <1>1, <1>2, <1>3 DEF DisclosedInv
<1>4. CASE k = Len(closures) + 1
  BY <1>1, <1>4
<1> QED
  BY <1>1, <1>3, <1>4

\* At first nothing is closed.
LEMMA DiscloseInit == Init => RecordsInv /\ DisclosedInv
<1> SUFFICES ASSUME Init PROVE RecordsInv /\ DisclosedInv
  OBVIOUS
<1>1. DOMAIN closures = {}
  <2>1. closures = <<>>
    BY DEF Init
  <2> QED
    BY <2>1
<1>2. DOMAIN records = {}
  BY DEF Init, Nothing
<1> QED
  BY <1>1, <1>2 DEF Init, RecordsInv, DisclosedInv

\* Each step keeps the records of a pass.
LEMMA RecordsStep == TypeInv /\ RecordsInv /\ [Next]_vars => RecordsInv'
<1> SUFFICES ASSUME TypeInv, RecordsInv, [Next]_vars PROVE RecordsInv'
  OBVIOUS
<1>0. Len(Order) \in Nat /\ next \in 1 .. Len(Order) + 1
  BY OrderNamesOutputs DEF TypeInv, ScalarInv
<1>1. CASE AgentWrites \/ PreserveFails \/ Reconcile \/ UpgradeCatalog
  <2>1. pc \notin {"repair", "seal"} /\ pc' \notin {"repair", "seal"} /\ UNCHANGED records
    BY <1>1, UpgradeAssumption
    DEF AgentWrites, PreserveFails, Reconcile, UpgradeCatalog, memory
  <2> QED
    BY <2>1 DEF RecordsInv
<1>2. CASE AgentReturns \/ AgentFails \/ AgentVanishes \/ Close \/ Interrupt
  <2>1. pc' \notin {"repair", "seal"} /\ records' = Nothing
    BY <1>2 DEF AgentReturns, AgentFails, AgentVanishes, Close, Interrupt, Forget
  <2> QED
    BY <2>1 DEF RecordsInv, Nothing
<1>3. CASE Preserve
  <2>1. DOMAIN records = {} /\ pc' = "repair" /\ raw' = disk /\ UNCHANGED <<disk, records>>
    BY <1>3 DEF Preserve, RecordsInv
  <2> QED
    BY <2>1 DEF RecordsInv, Told
<1>4. CASE RepairOutput
  <2> DEFINE o == Order[next]
             repaired == Repaired(o, disk[o], disk, tick)
             record == Record(o, disk[o], repaired)
  <2>1. /\ pc = "repair" /\ pc' = "repair" /\ next <= Len(Order) /\ next' = next + 1
        /\ UNCHANGED raw
    BY <1>4 DEF RepairOutput
  <2>2. \/ UNCHANGED <<disk, records>>
        \/ /\ disk' = [disk EXCEPT ![o] = repaired]
           /\ records' = [p \in DOMAIN records \cup {o} |-> IF p = o THEN record ELSE records[p]]
    BY <1>4 DEF RepairOutput
  <2>3. o \in Output /\ o \notin DOMAIN records
    <3>1. next \in 1 .. Len(Order) /\ \A i \in 1 .. next - 1 : i \in 1 .. Len(Order) /\ i # next
      BY <1>0, <2>1
    <3>2. \A i \in 1 .. next - 1 : Order[i] # o
      BY <3>1, OrderNamesOutputs
    <3> QED
      BY <2>1, <3>1, <3>2, OrderNamesOutputs DEF RecordsInv
  <2>4. Tells(record, raw[o], repaired)
    <3>1. raw[o] = disk[o]
      BY <2>1, <2>3 DEF RecordsInv, Told
    <3> HIDE DEF repaired
    <3> QED
      BY <3>1, RecordTells
  <2>5. DOMAIN records' \subseteq {Order[i] : i \in 1 .. next' - 1}
    <3>1. next \in 1 .. next' - 1 /\ 1 .. next - 1 \subseteq 1 .. next' - 1
      BY <1>0, <2>1
    <3>2. DOMAIN records' \subseteq DOMAIN records \cup {o}
      BY <2>2
    <3> QED
      BY <2>1, <3>1, <3>2 DEF RecordsInv
  <2>6. ASSUME NEW p \in Output PROVE Told(records', p, raw[p], disk'[p])
    <3> HIDE DEF repaired, record, o
    <3>1. Told(records, p, raw[p], disk[p])
      BY <2>1 DEF RecordsInv
    <3>2. DOMAIN disk = Output
      BY DEF TypeInv, ScalarInv
    <3>3. CASE UNCHANGED <<disk, records>>
      BY <3>1, <3>3
    <3>4. CASE ~UNCHANGED <<disk, records>>
      <4>1. /\ p = o => p \in DOMAIN records' /\ records'[p] = record /\ disk'[p] = repaired
            /\ p # o => /\ p \in DOMAIN records' <=> p \in DOMAIN records
                        /\ records'[p] = records[p] \/ p \notin DOMAIN records
                        /\ disk'[p] = disk[p]
        BY <2>2, <2>3, <3>2, <3>4
      <4> QED
        BY <4>1, <2>4, <3>1 DEF Told
    <3> QED
      BY <3>3, <3>4
  <2> QED
    BY <2>1, <2>5, <2>6 DEF RecordsInv, Told, Tells, Changed
<1>5. CASE Judge \/ SealOutput
  <2>1. pc \in {"repair", "seal"} /\ pc' = "seal" /\ UNCHANGED <<disk, raw, records>>
    BY <1>5 DEF Judge, SealOutput
  <2> QED
    BY <2>1 DEF RecordsInv
<1>6. ASSUME NEW type \in {"packaging", "scientific"}, NEW outputs \in SUBSET Output,
             Correct(type, outputs)
      PROVE  RecordsInv'
  <2>1. pc' = "agent" /\ records' = Nothing
    BY <1>6 DEF Correct, Forget
  <2> QED
    BY <2>1 DEF RecordsInv, Nothing
<1>7. ASSUME NEW codes \in Codes, NEW outputs \in SUBSET Output, Normalize(codes, outputs)
      PROVE  RecordsInv'
  <2>1. pc = "idle" /\ pc' = "idle" /\ UNCHANGED records
    BY <1>7 DEF Normalize, memory
  <2> QED
    BY <2>1 DEF RecordsInv
<1>8. CASE UNCHANGED vars
  BY <1>8 DEF vars, memory, RecordsInv
<1> QED
  BY <1>1, <1>2, <1>3, <1>4, <1>5, <1>6, <1>7, <1>8, FileAssumption DEF Next

\* Each step keeps what is disclosed.
LEMMA DisclosedStep ==
    TypeInv /\ ClosuresInv /\ RecordsInv /\ DisclosedInv /\ [Next]_vars => DisclosedInv'
<1> SUFFICES ASSUME TypeInv, ClosuresInv, RecordsInv, DisclosedInv, [Next]_vars
             PROVE  DisclosedInv'
  OBVIOUS
<1>1. CASE UNCHANGED closures
  BY <1>1 DEF DisclosedInv, Told, Tells, Changed
<1>2. CASE Close
  <2> DEFINE c == [lane |-> lane, source |-> source, scope |-> scope,
                   status |-> IF pc = "seal" THEN verdict ELSE "failed",
                   outputs |-> IF pc = "seal" THEN Accepted(disk) ELSE Nothing,
                   raw |-> raw, records |-> records, findings |-> findings]
  <2>1. closures' = Append(closures, c)
    BY <1>2 DEF Close
  <2>2. c.lane # "normalize"
    BY DEF TypeInv, ScalarInv
  <2>3. ASSUME NEW o \in DOMAIN c.outputs PROVE Told(c.records, o, c.raw[o], c.outputs[o])
    <3>1. pc = "seal" /\ o \in Output /\ c.outputs[o] = disk[o]
      BY <2>3 DEF Nothing, Accepted, TypeInv, ScalarInv
    <3> QED
      BY <3>1 DEF RecordsInv
  <2> HIDE DEF c
  <2> QED
    BY <2>1, <2>2, <2>3, DisclosedAppended
<1>3. ASSUME NEW codes \in Codes, NEW outputs \in SUBSET Output, Normalize(codes, outputs)
      PROVE  DisclosedInv'
  <2>0. PICK k \in DOMAIN closures :
          LET new == Candidate(closures[k].outputs, codes) IN
          closures' = Append(closures,
               [closures[k] EXCEPT
                  !.lane = "normalize", !.source = k, !.status = "succeeded",
                  !.outputs = new, !.findings = {},
                  !.records = [o \in DOMAIN new |-> Record(o, closures[k].outputs[o], new[o])]])
    BY <1>3 DEF Normalize
  <2> DEFINE new == Candidate(closures[k].outputs, codes)
             recs == [o \in DOMAIN new |-> Record(o, closures[k].outputs[o], new[o])]
             c == [closures[k] EXCEPT
                     !.lane = "normalize", !.source = k, !.status = "succeeded",
                     !.outputs = new, !.findings = {}, !.records = recs]
  <2>1. closures' = Append(closures, c)
    BY <2>0
  <2>2. c.lane = "normalize" /\ c.source = k /\ c.outputs = new /\ c.records = recs
    BY DEF ClosuresInv, ClosureFields
  <2>3. ASSUME NEW o \in DOMAIN new PROVE Told(recs, o, closures[k].outputs[o], new[o])
    BY RecordTells DEF Told
  <2> HIDE DEF c, new, recs
  <2> QED
    BY <2>1, <2>2, <2>3, DisclosedAppended
<1> QED
  <2>1. ASSUME AgentWrites \/ AgentReturns \/ AgentFails \/ AgentVanishes \/ Preserve \/ PreserveFails
               \/ RepairOutput \/ Judge \/ SealOutput \/ Interrupt \/ Reconcile \/ UpgradeCatalog
        PROVE  UNCHANGED closures
    BY <2>1 DEF AgentWrites, AgentReturns, AgentFails, AgentVanishes, Preserve, PreserveFails,
       RepairOutput, Judge, SealOutput, Interrupt, Reconcile, UpgradeCatalog, store
  <2>2. ASSUME NEW type \in {"packaging", "scientific"}, NEW outputs \in SUBSET Output,
               Correct(type, outputs)
        PROVE  UNCHANGED closures
    BY <2>2 DEF Correct, store
  <2>3. UNCHANGED vars => UNCHANGED closures
    BY DEF vars, store
  <2> QED
    BY <1>1, <1>2, <1>3, <2>1, <2>2, <2>3, FileAssumption DEF Next

\* The record of an output has an entry for each field in which the sealed
\* document differs from what was preserved or corrected, and for no other; what
\* has no record was not touched (_classify_transformations).
THEOREM DisclosureIsAlwaysExact == Spec => []DisclosureIsExact
<1>1. Spec => [](RecordsInv /\ DisclosedInv)
  <2>1. Init => RecordsInv /\ DisclosedInv
    BY DiscloseInit
  <2>2. TypeInv /\ ClosuresInv /\ RecordsInv /\ DisclosedInv /\ [Next]_vars
            => RecordsInv' /\ DisclosedInv'
    BY RecordsStep, DisclosedStep
  <2> QED
    BY TypesHold, <2>1, <2>2, PTL DEF Spec
<1> QED
  BY <1>1, DisclosedIsExact, PTL

-----------------------------------------------------------------------------
\* The two implementations of the repairs.

\* The names are settled.
NamesSettled(s, d) == \A n \in Renamed(s, d) : Sane[n] = n

\* The times are there and nothing is undeclared or null.
FieldsSettled(s, d) ==
    /\ s.times \subseteq DOMAIN d
    /\ s.strict => DOMAIN d \subseteq s.declared
    /\ \A f \in DOMAIN d \ s.required : d[f] # <<"null">>

\* Nothing is empty.
NothingEmpty(s, d) == \A f \in DOMAIN d \ (s.required \cup s.nested) : d[f] # <<"empty">>

\* The digest is that of the document.
DigestSettled(d) == Digest \in DOMAIN d => d[Digest] = <<"digest", Without(d, {Digest})>>

\* No repair has anything to do in the document.
Settled(s, d) ==
    /\ NamesSettled(s, d)
    /\ ~Bare(s) => FieldsSettled(s, d) /\ NothingEmpty(s, d) /\ DigestSettled(d)

\* Names that were rewritten are settled (_deep_sanitize_ids): the sanitizer
\* leaves alone what it made.
LEMMA RewrittenIsSettled ==
    ASSUME NEW t, NEW s, NEW d, WellFormed(d, t)
    PROVE  NamesSettled(s, Rewritten(d, Renamed(s, d)))
<1> DEFINE names == Renamed(s, d)
           e == Rewritten(d, names)
<1>1. /\ DOMAIN e = DOMAIN d
      /\ \A f \in DOMAIN d : e[f] = IF d[f][1] = "name" /\ d[f][2] \in names
                                    THEN <<"name", Sane[d[f][2]]>> ELSE d[f]
  BY DEF Rewritten
<1> SUFFICES ASSUME NEW n \in Renamed(s, e) PROVE Sane[n] = n
  BY DEF NamesSettled
<1> HIDE DEF e
<1>2. PICK f \in DOMAIN d \cap s.ids : e[f][1] = "name" /\ e[f][2] \notin Pattern /\ n = e[f][2]
  BY <1>1 DEF Renamed
<1>3. CASE d[f][1] = "name" /\ d[f][2] \in names
  <2>1. PICK m \in DOMAIN Sane : d[f] = <<"name", m>>
    BY <1>3 DEF WellFormed
  <2>2. n = Sane[m]
    BY <1>1, <1>2, <1>3, <2>1
  <2> QED
    BY <2>2, SaneAssumption
<1>4. CASE ~(d[f][1] = "name" /\ d[f][2] \in names)
  <2>1. d[f] = e[f]
    BY <1>1, <1>4
  <2>2. d[f][2] \in names
    BY <1>2, <2>1 DEF Renamed
  <2> QED
    BY <1>2, <1>4, <2>1, <2>2
<1> QED
  BY <1>3, <1>4

\* What no longer holds other names, nulls or empty fields stays settled.
LEMMA SettledPart ==
    ASSUME NEW s, NEW d, NEW e, DOMAIN e \subseteq DOMAIN d,
           \A f \in DOMAIN e : e[f] = d[f] \/ e[f][1] \notin {"name", "null", "empty"}
    PROVE  /\ NamesSettled(s, d) => NamesSettled(s, e)
           /\ FieldsSettled(s, d) /\ s.times \subseteq DOMAIN e => FieldsSettled(s, e)
           /\ NothingEmpty(s, d) => NothingEmpty(s, e)
<1>1. Renamed(s, e) \subseteq Renamed(s, d)
  BY DEF Renamed
<1>2. NamesSettled(s, d) => NamesSettled(s, e)
  BY <1>1 DEF NamesSettled
<1>3. \A f \in DOMAIN e : /\ e[f] = <<"null">> => d[f] = <<"null">>
                          /\ e[f] = <<"empty">> => d[f] = <<"empty">>
  <2>1. <<"null">>[1] = "null" /\ <<"empty">>[1] = "empty"
    OBVIOUS
  <2> QED
    BY <2>1
<1>4. FieldsSettled(s, d) /\ s.times \subseteq DOMAIN e => FieldsSettled(s, e)
  BY <1>3 DEF FieldsSettled
<1>5. NothingEmpty(s, d) => NothingEmpty(s, e)
  BY <1>3 DEF NothingEmpty
<1> QED
  BY <1>2, <1>4, <1>5

\* The strips leave the fields settled (_fix_item).
LEMMA StrippedIsSettled ==
    ASSUME NEW t, NEW s, NEW d, s.times \subseteq s.required, s.required \subseteq s.declared
    PROVE  FieldsSettled(s, StripNulls(s, StripUndeclared(s, AddTimes(s, d, t))))
<1> DEFINE a == AddTimes(s, d, t)
           b == StripUndeclared(s, a)
           c == StripNulls(s, b)
<1>1. s.times \subseteq DOMAIN a
  BY DEF AddTimes
<1> HIDE DEF a
<1>2. s.times \subseteq DOMAIN b /\ (s.strict => DOMAIN b \subseteq s.declared)
  BY <1>1 DEF StripUndeclared, Restrict
<1> HIDE DEF b
<1>3. /\ DOMAIN c = DOMAIN b \ {f \in DOMAIN b \ s.required : b[f] = <<"null">>}
      /\ \A f \in DOMAIN c : c[f] = b[f]
  BY DEF StripNulls, Without, Restrict
<1> HIDE DEF c
<1>4. FieldsSettled(s, c)
  BY <1>2, <1>3 DEF FieldsSettled
<1> QED
  BY <1>4 DEF a, b, c

\* A tidied document is settled but for its digest.
LEMMA TidiedIsSettled ==
    ASSUME NEW t \in Nat, NEW s, NEW d, WellFormed(d, t),
           s.times \subseteq s.required, s.required \subseteq s.declared
    PROVE  LET tidy == Tidied(s, d, t) IN
           /\ NamesSettled(s, tidy)
           /\ ~Bare(s) => FieldsSettled(s, tidy) /\ NothingEmpty(s, tidy)
<1> DEFINE fixed == IF Bare(s) THEN d ELSE StripNulls(s, StripUndeclared(s, AddTimes(s, d, t)))
           named == Rewritten(fixed, Renamed(s, fixed))
           tidy == IF Bare(s) THEN named ELSE StripEmpty(s, named)
<1>0. Tidied(s, d, t) = tidy
  BY DEF Tidied
<1>1. WellFormed(fixed, t)
  BY WellFormedTimes, WellFormedStripped
<1>2. ~Bare(s) => FieldsSettled(s, fixed)
  BY StrippedIsSettled
<1> HIDE DEF fixed
<1>3. NamesSettled(s, named)
  BY <1>1, RewrittenIsSettled
<1>4. /\ DOMAIN named = DOMAIN fixed
      /\ \A f \in DOMAIN fixed : named[f] = fixed[f] \/ named[f][1] = "name"
  BY DEF Rewritten
<1>5. ~Bare(s) => FieldsSettled(s, named)
  <2> SUFFICES ASSUME ~Bare(s) PROVE FieldsSettled(s, named)
    OBVIOUS
  <2>1. \A f \in DOMAIN fixed : named[f] = <<"null">> => fixed[f] = <<"null">>
    <3>1. <<"null">>[1] = "null"
      OBVIOUS
    <3> HIDE DEF named
    <3> QED
      BY <1>4, <3>1
  <2> HIDE DEF named
  <2> QED
    BY <1>2, <1>4, <2>1 DEF FieldsSettled
<1> HIDE DEF named
<1>6. ~Bare(s) => /\ DOMAIN tidy = DOMAIN named \ {f \in DOMAIN named \ (s.required \cup s.nested) :
                                                        named[f] = <<"empty">>}
                  /\ \A f \in DOMAIN tidy : tidy[f] = named[f]
  BY DEF StripEmpty, Without, Restrict
<1>7. CASE Bare(s)
  BY <1>0, <1>3, <1>7
<1>8. CASE ~Bare(s)
  <2> HIDE DEF tidy
  <2>1. NothingEmpty(s, tidy)
    BY <1>6, <1>8 DEF NothingEmpty
  <2>2. s.times \subseteq DOMAIN tidy
    BY <1>5, <1>6, <1>8 DEF FieldsSettled
  <2>3. NamesSettled(s, tidy) /\ FieldsSettled(s, tidy)
    BY <1>3, <1>5, <1>6, <1>8, <2>2, SettledPart
  <2> QED
    BY <1>0, <1>8, <2>1, <2>3
<1> QED
  BY <1>7, <1>8

\* A repair pass leaves nothing to repair (_apply_disclosed_mechanical_repairs).
LEMMA RepairedIsSettled ==
    ASSUME NEW t \in Nat, NEW o \in Output, NEW d, NEW files, WellFormed(d, t),
           catalog \in DOMAIN Catalog
    PROVE  Settled(Schema(o), Repaired(o, d, files, t))
<1> DEFINE s == Schema(o)
           tidy == Tidied(s, Populate(o, d, t), t)
           g == Stamped(o, tidy, files, scope)
           h == Hashed(g)
<1>0. Repaired(o, d, files, t) = IF Bare(s) THEN tidy ELSE h
  BY DEF Repaired
<1>1. s.times \subseteq s.required /\ s.required \subseteq s.declared
  BY CatalogAssumption DEF Schema
<1>2. WellFormed(Populate(o, d, t), t)
  BY WellFormedPopulated
<1> HIDE DEF s
<1>3. /\ NamesSettled(s, tidy)
      /\ ~Bare(s) => FieldsSettled(s, tidy) /\ NothingEmpty(s, tidy)
  BY <1>1, <1>2, TidiedIsSettled
<1> HIDE DEF tidy
<1>4. CASE Bare(s)
  BY <1>0, <1>3, <1>4 DEF Settled, s
<1>5. CASE ~Bare(s)
  <2>1. /\ DOMAIN g = DOMAIN tidy
        /\ \A f \in DOMAIN g : g[f] = tidy[f] \/ g[f][1] = "at"
    BY DEF Stamped
  <2>2. s.times \subseteq DOMAIN tidy
    BY <1>3, <1>5 DEF FieldsSettled
  <2>3. NamesSettled(s, g) /\ FieldsSettled(s, g) /\ NothingEmpty(s, g)
    <3> HIDE DEF g
    <3>1. DOMAIN g \subseteq DOMAIN tidy /\ s.times \subseteq DOMAIN g
      BY <2>1, <2>2
    <3>2. \A f \in DOMAIN g : g[f] = tidy[f] \/ g[f][1] \notin {"name", "null", "empty"}
      BY <2>1
    <3> QED
      BY <1>3, <1>5, <3>1, <3>2, SettledPart
  <2> HIDE DEF g
  <2>4. /\ DOMAIN h = DOMAIN g
        /\ \A f \in DOMAIN h : f # Digest => h[f] = g[f]
        /\ Digest \in DOMAIN h => h[Digest] = <<"digest", Without(g, {Digest})>>
    BY DEF Hashed, WithDigest
  <2> HIDE DEF h
  <2>5. NamesSettled(s, h) /\ FieldsSettled(s, h) /\ NothingEmpty(s, h)
    <3>1. DOMAIN h \subseteq DOMAIN g /\ s.times \subseteq DOMAIN h
      BY <2>3, <2>4 DEF FieldsSettled
    <3>2. \A f \in DOMAIN h : h[f] = g[f] \/ h[f][1] \notin {"name", "null", "empty"}
      BY <2>4
    <3> QED
      BY <2>3, <3>1, <3>2, SettledPart
  <2>6. DigestSettled(h)
    <3>1. Without(h, {Digest}) = Without(g, {Digest})
      BY <2>4 DEF Without, Restrict
    <3> QED
      BY <2>4, <3>1 DEF DigestSettled
  <2> QED
    BY <1>0, <1>5, <2>5, <2>6 DEF Settled, s
<1> QED
  BY <1>4, <1>5

\* A normalization leaves a settled document as it is, whatever transformations
\* are asked for (apply_normalize_transformations).
LEMMA NormalizedIsSame ==
    ASSUME NEW t, NEW u, NEW o, NEW d, NEW codes, WellFormed(d, t), Settled(Schema(o), d)
    PROVE  Normalized(o, d, u, codes) = d
<1> DEFINE s == Schema(o)
<1>0. d = [f \in DOMAIN d |-> d[f]]
  BY DEF WellFormed
<1>1. Restrict(d, DOMAIN d) = d
  BY <1>0 DEF Restrict
<1>2. ~Bare(s) => AddTimes(s, d, u) = d
  <2> SUFFICES ASSUME ~Bare(s) PROVE AddTimes(s, d, u) = d
    OBVIOUS
  <2>1. DOMAIN d \cup s.times = DOMAIN d
    BY DEF Settled, FieldsSettled
  <2>2. AddTimes(s, d, u) = [f \in DOMAIN d |-> d[f]]
    BY <2>1 DEF AddTimes
  <2> QED
    BY <1>0, <2>2
<1>3. ~Bare(s) => StripUndeclared(s, d) = d
  <2> SUFFICES ASSUME ~Bare(s), s.strict PROVE StripUndeclared(s, d) = d
    BY DEF StripUndeclared
  <2>1. DOMAIN d \cap s.declared = DOMAIN d
    BY DEF Settled, FieldsSettled
  <2> QED
    BY <1>1, <2>1 DEF StripUndeclared
<1>4. ~Bare(s) => StripNulls(s, d) = d
  <2> SUFFICES ASSUME ~Bare(s) PROVE StripNulls(s, d) = d
    OBVIOUS
  <2>1. {f \in DOMAIN d \ s.required : d[f] = <<"null">>} = {}
    BY DEF Settled, FieldsSettled
  <2> QED
    BY <1>1, <2>1 DEF StripNulls, Without
<1>5. Rewritten(d, Renamed(s, d)) = d
  <2>1. ASSUME NEW f \in DOMAIN d, d[f][1] = "name", d[f][2] \in Renamed(s, d)
        PROVE  <<"name", Sane[d[f][2]]>> = d[f]
    <3>1. PICK n \in DOMAIN Sane : d[f] = <<"name", n>>
      BY <2>1 DEF WellFormed
    <3>2. d[f][2] = n
      BY <3>1
    <3> QED
      BY <2>1, <3>1, <3>2 DEF Settled, NamesSettled
  <2>2. Rewritten(d, Renamed(s, d)) = [f \in DOMAIN d |-> d[f]]
    BY <2>1 DEF Rewritten
  <2> QED
    BY <1>0, <2>2
<1>6. ~Bare(s) => StripEmpty(s, d) = d
  <2> SUFFICES ASSUME ~Bare(s) PROVE StripEmpty(s, d) = d
    OBVIOUS
  <2>1. {f \in DOMAIN d \ (s.required \cup s.nested) : d[f] = <<"empty">>} = {}
    BY DEF Settled, NothingEmpty
  <2> QED
    BY <1>1, <2>1 DEF StripEmpty, Without
<1>7. ~Bare(s) => Hashed(d) = d
  <2> SUFFICES ASSUME ~Bare(s), Digest \in DOMAIN d PROVE WithDigest(d) = d
    BY DEF Hashed
  <2>1. d[Digest] = <<"digest", Without(d, {Digest})>>
    BY DEF Settled, DigestSettled
  <2>2. DOMAIN d \cup {Digest} = DOMAIN d
    OBVIOUS
  <2>3. WithDigest(d) = [f \in DOMAIN d |-> d[f]]
    BY <2>1, <2>2 DEF WithDigest
  <2> QED
    BY <1>0, <2>3
<1> HIDE DEF s
<1> QED
  BY <1>2, <1>3, <1>4, <1>5, <1>6, <1>7 DEF Normalized, s

\* While the first catalog is installed, what a role's pass has repaired is
\* settled, and what it has closed.
SettledOnDisk(o) == IsDocument(disk[o]) => Settled(Catalog[1][o], disk[o])

CompleteInv ==
    /\ lane = "role" => scope = Output
    /\ pc \in {"returned", "vanished"} => next = 1
    /\ lane = "role" /\ catalog = 1 =>
        /\ pc = "repair" => \A i \in 1 .. next - 1 : SettledOnDisk(Order[i])
        /\ pc = "seal" => \A o \in Output : SettledOnDisk(o)
    /\ \A k \in DOMAIN closures : closures[k].lane = "role" /\ catalog = 1 =>
        \A o \in DOMAIN closures[k].outputs : Settled(Catalog[1][o], closures[k].outputs[o])

\* Nothing is transformed in settled documents (preview_normalize).
LEMMA SettledIsComplete == TypeInv /\ CompleteInv => RepairIsComplete
<1> SUFFICES ASSUME TypeInv, CompleteInv,
                    NEW k \in DOMAIN closures, closures[k].lane = "role", catalog = 1,
                    NEW codes \in Codes,
                    NEW o \in DOMAIN closures[k].outputs
             PROVE  Normalized(o, closures[k].outputs[o], tick + 1, codes) = closures[k].outputs[o]
  BY DEF RepairIsComplete, Preview
<1>1. WellFormed(closures[k].outputs[o], tick)
  BY DEF TypeInv, FilesInv
<1>2. Settled(Schema(o), closures[k].outputs[o])
  BY DEF CompleteInv, Schema
<1> QED
  BY <1>1, <1>2, NormalizedIsSame

\* At first nothing is closed.
LEMMA CompleteInit == Init => CompleteInv
<1> SUFFICES ASSUME Init PROVE CompleteInv
  OBVIOUS
<1>1. DOMAIN closures = {}
  <2>1. closures = <<>>
    BY DEF Init
  <2> QED
    BY <2>1
<1> QED
  BY <1>1 DEF Init, CompleteInv

\* Each step of another kind keeps what is settled.
LEMMA CompleteKept ==
    ASSUME CompleteInv, UNCHANGED <<catalog, lane, scope, closures>>,
           pc' \in {"returned", "vanished"} => next' = 1,
           lane = "role" /\ catalog = 1 =>
               /\ pc' = "repair" => \A i \in 1 .. next' - 1 : SettledOnDisk(Order[i])'
               /\ pc' = "seal" => \A o \in Output : SettledOnDisk(o)'
    PROVE  CompleteInv'
BY DEF CompleteInv, SettledOnDisk

\* Each step keeps what is settled.
LEMMA CompleteStep == TypeInv /\ ClosuresInv /\ CompleteInv /\ [Next]_vars => CompleteInv'
<1> SUFFICES ASSUME TypeInv, ClosuresInv, CompleteInv, [Next]_vars PROVE CompleteInv'
  OBVIOUS
<1>0. Len(Order) \in Nat /\ next \in 1 .. Len(Order) + 1
  BY OrderNamesOutputs DEF TypeInv, ScalarInv
<1>1. CASE AgentWrites \/ AgentReturns \/ AgentFails \/ AgentVanishes \/ Interrupt \/ Reconcile
           \/ PreserveFails
  <2>1. UNCHANGED <<catalog, lane, scope, closures>> /\ pc' \notin {"repair", "seal"}
    BY <1>1 DEF AgentWrites, AgentReturns, AgentFails, AgentVanishes, Interrupt, Reconcile,
       PreserveFails, store, order
  <2>2. pc' \in {"returned", "vanished"} => next' = 1
    BY <1>1 DEF AgentWrites, AgentReturns, AgentFails, AgentVanishes, Interrupt, Reconcile,
       PreserveFails, Forget, memory, CompleteInv
  <2> QED
    BY <2>1, <2>2, CompleteKept
<1>2. CASE Preserve
  <2>1. /\ UNCHANGED <<catalog, lane, scope, closures, next>> /\ pc' = "repair"
        /\ next = 1
    BY <1>2 DEF Preserve, order, CompleteInv
  <2>2. 1 .. next' - 1 = {}
    BY <2>1
  <2> QED
    BY <2>1, <2>2, CompleteKept
<1>3. CASE RepairOutput
  <2> DEFINE o == Order[next]
             repaired == Repaired(o, disk[o], disk, tick)
  <2>1. /\ UNCHANGED <<catalog, lane, scope, closures>> /\ pc = "repair" /\ pc' = "repair"
        /\ next <= Len(Order) /\ next' = next + 1
    BY <1>3 DEF RepairOutput, store, order
  <2>2. IF o \in scope /\ IsDocument(disk[o]) THEN disk' = [disk EXCEPT ![o] = repaired]
        ELSE UNCHANGED disk
    BY <1>3 DEF RepairOutput
  <2>3. /\ next \in 1 .. Len(Order)
        /\ \A i \in 1 .. next' - 1 : i = next \/ (i \in 1 .. next - 1 /\ i \in 1 .. Len(Order) /\ i # next)
    BY <1>0, <2>1
  <2>4. o \in Output /\ \A i \in 1 .. next - 1 : Order[i] # o
    <3>1. \A i \in 1 .. next - 1 : i \in 1 .. Len(Order) /\ i # next
      BY <1>0, <2>1
    <3> QED
      BY <2>3, <3>1, OrderNamesOutputs
  <2>5. ASSUME lane = "role", catalog = 1, NEW i \in 1 .. next' - 1
        PROVE  IsDocument(disk'[Order[i]]) => Settled(Catalog[1][Order[i]], disk'[Order[i]])
    <3>1. CASE i = next
      <4>1. ASSUME IsDocument(disk[o]) PROVE disk'[o] = repaired /\ WellFormed(disk[o], tick)
        BY <2>2, <2>4, <2>5, <4>1 DEF CompleteInv, TypeInv, FilesInv, ScalarInv
      <4>2. ASSUME IsDocument(disk[o]) PROVE Settled(Catalog[1][o], disk'[o])
        <5>1. tick \in Nat /\ catalog \in DOMAIN Catalog
          BY DEF TypeInv, FilesInv, ScalarInv
        <5>2. Settled(Schema(o), repaired)
          BY <2>4, <4>1, <4>2, <5>1, RepairedIsSettled
        <5> HIDE DEF repaired
        <5> QED
          BY <2>5, <4>1, <4>2, <5>2 DEF Schema
      <4>3. ~IsDocument(disk[o]) => disk'[o] = disk[o]
        BY <2>2
      <4> HIDE DEF repaired
      <4> QED
        BY <3>1, <4>2, <4>3 DEF IsDocument
    <3>2. CASE i \in 1 .. next - 1
      <4>1. disk'[Order[i]] = disk[Order[i]]
        <5>1. Order[i] # o /\ Order[i] \in Output /\ DOMAIN disk = Output
          BY <2>3, <2>4, <3>2, OrderNamesOutputs DEF TypeInv, ScalarInv
        <5> HIDE DEF o, repaired
        <5> QED
          BY <2>2, <5>1
      <4> QED
        BY <2>1, <2>5, <3>2, <4>1 DEF CompleteInv, SettledOnDisk
    <3> QED
      BY <2>3, <3>1, <3>2
  <2>6. lane = "role" /\ catalog = 1 => \A i \in 1 .. next' - 1 : SettledOnDisk(Order[i])'
    BY <2>5 DEF SettledOnDisk
  <2> QED
    BY <2>1, <2>6, CompleteKept
<1>4. CASE Judge
  <2>1. /\ UNCHANGED <<catalog, lane, scope, closures, disk>> /\ pc = "repair" /\ pc' = "seal"
        /\ next > Len(Order)
    BY <1>4 DEF Judge, store, order
  <2>2. \A i \in 1 .. Len(Order) : i \in 1 .. next - 1
    BY <1>0, <2>1
  <2>3. lane = "role" /\ catalog = 1 => \A o \in Output : SettledOnDisk(o)
    BY <2>1, <2>2, OrderNamesOutputs DEF CompleteInv
  <2>4. lane = "role" /\ catalog = 1 => \A o \in Output : SettledOnDisk(o)'
    BY <2>1, <2>3 DEF SettledOnDisk
  <2> QED
    BY <2>1, <2>4, CompleteKept
<1>5. CASE SealOutput
  <2>1. UNCHANGED <<catalog, lane, scope, closures, disk>> /\ pc = "seal" /\ pc' = "seal"
    BY <1>5 DEF SealOutput, order
  <2>2. lane = "role" /\ catalog = 1 => \A o \in Output : SettledOnDisk(o)
    BY <2>1 DEF CompleteInv
  <2>3. lane = "role" /\ catalog = 1 => \A o \in Output : SettledOnDisk(o)'
    BY <2>1, <2>2 DEF SettledOnDisk
  <2> QED
    BY <2>1, <2>3, CompleteKept
<1>6. CASE Close
  <2> DEFINE c == [lane |-> lane, source |-> source, scope |-> scope,
                   status |-> IF pc = "seal" THEN verdict ELSE "failed",
                   outputs |-> IF pc = "seal" THEN Accepted(disk) ELSE Nothing,
                   raw |-> raw, records |-> records, findings |-> findings]
  <2>1. /\ UNCHANGED <<catalog, lane, scope>> /\ pc' = "idle" /\ closures' = Append(closures, c)
    BY <1>6 DEF Close, order
  <2>2. ASSUME c.lane = "role", catalog = 1, NEW o \in DOMAIN c.outputs
        PROVE  Settled(Catalog[1][o], c.outputs[o])
    <3>1. /\ pc = "seal" /\ o \in Output /\ c.outputs[o] = disk[o] /\ IsDocument(disk[o])
          /\ lane = "role"
      BY <2>2 DEF Nothing, Accepted, Valid, TypeInv, ScalarInv
    <3> HIDE DEF c
    <3> QED
      BY <2>2, <3>1 DEF CompleteInv, SettledOnDisk
  <2> HIDE DEF c
  <2>3. \A k \in DOMAIN closures' : closures'[k].lane = "role" /\ catalog = 1 =>
            \A o \in DOMAIN closures'[k].outputs : Settled(Catalog[1][o], closures'[k].outputs[o])
    BY <2>1, <2>2, Appended DEF CompleteInv
  <2> QED
    BY <2>1, <2>3 DEF CompleteInv
<1>7. CASE UpgradeCatalog
  <2>1. catalog' # 1
    <3>1. catalog \in Nat \ {0}
      <4>1. DOMAIN Catalog = 1 .. Len(Catalog) /\ Len(Catalog) \in Nat
        BY CatalogAssumption
      <4>2. catalog \in DOMAIN Catalog
        BY DEF TypeInv, ScalarInv
      <4> QED
        BY <4>1, <4>2
    <3> QED
      BY <1>7, <3>1 DEF UpgradeCatalog
  <2>2. UNCHANGED <<lane, scope, pc, next>>
    BY <1>7 DEF UpgradeCatalog, order, memory
  <2> QED
    BY <2>1, <2>2 DEF CompleteInv
<1>8. ASSUME NEW type \in {"packaging", "scientific"}, NEW outputs \in SUBSET Output,
             Correct(type, outputs)
      PROVE  CompleteInv'
  <2>1. /\ UNCHANGED <<catalog, closures>> /\ lane' # "role" /\ pc' = "agent"
    BY <1>8 DEF Correct, store
  <2> QED
    BY <2>1 DEF CompleteInv
<1>9. ASSUME NEW codes \in Codes, NEW outputs \in SUBSET Output, Normalize(codes, outputs)
      PROVE  CompleteInv'
  <2>0. PICK k \in DOMAIN closures :
          LET new == Candidate(closures[k].outputs, codes) IN
          closures' = Append(closures,
               [closures[k] EXCEPT
                  !.lane = "normalize", !.source = k, !.status = "succeeded",
                  !.outputs = new, !.findings = {},
                  !.records = [o \in DOMAIN new |-> Record(o, closures[k].outputs[o], new[o])]])
    BY <1>9 DEF Normalize
  <2> DEFINE new == Candidate(closures[k].outputs, codes)
             c == [closures[k] EXCEPT
                     !.lane = "normalize", !.source = k, !.status = "succeeded",
                     !.outputs = new, !.findings = {},
                     !.records = [o \in DOMAIN new |-> Record(o, closures[k].outputs[o], new[o])]]
  <2>1. /\ UNCHANGED <<catalog, lane, scope>> /\ pc' = "idle" /\ closures' = Append(closures, c)
    BY <1>9, <2>0 DEF Normalize, order
  <2>2. c.lane = "normalize"
    BY DEF ClosuresInv, ClosureFields
  <2> HIDE DEF c
  <2>3. \A j \in DOMAIN closures' : closures'[j].lane = "role" /\ catalog = 1 =>
            \A o \in DOMAIN closures'[j].outputs : Settled(Catalog[1][o], closures'[j].outputs[o])
    BY <2>1, <2>2, Appended DEF CompleteInv
  <2> QED
    BY <2>1, <2>3 DEF CompleteInv
<1>10. CASE UNCHANGED vars
  <2>1. UNCHANGED <<catalog, lane, scope, closures, disk, pc, next>>
    BY <1>10 DEF vars, store, order, memory
  <2> QED
    BY <2>1 DEF CompleteInv, SettledOnDisk
<1> QED
  BY <1>1, <1>2, <1>3, <1>4, <1>5, <1>6, <1>7, <1>8, <1>9, <1>10, FileAssumption DEF Next

\* The two implementations of the repairs agree: while no other catalog is
\* installed, a normalization has nothing to transform in the outputs that a
\* role has sealed (normalize_closure_outputs after
\* _apply_disclosed_mechanical_repairs).
THEOREM RepairIsAlwaysComplete == Spec => []RepairIsComplete
<1>1. Spec => []CompleteInv
  BY TypesHold, CompleteInit, CompleteStep, PTL DEF Spec
<1> QED
  BY <1>1, TypesHold, SettledIsComplete, PTL

-----------------------------------------------------------------------------
\* The documents of one closure.

\* A tidied document has the fields of the one that it was made of, as they were
\* but for names, and times that were missing; it keeps what no repair is about.
LEMMA TidiedFields ==
    ASSUME NEW s, NEW d, NEW t
    PROVE  LET e == Tidied(s, d, t) IN
           /\ \A f \in DOMAIN e :
                \/ f \notin DOMAIN d /\ e[f] = <<"time", t>>
                \/ f \in DOMAIN d /\ e[f] = d[f]
                \/ f \in DOMAIN d /\ d[f][1] = "name" /\ e[f][1] = "name"
           /\ \A f \in DOMAIN d :
                d[f][1] \notin {"name", "null", "empty"} /\ (s.strict => f \in s.declared)
                  => f \in DOMAIN e /\ e[f] = d[f]
<1> DEFINE a == AddTimes(s, d, t)
           b == StripUndeclared(s, a)
           c == StripNulls(s, b)
           fixed == IF Bare(s) THEN d ELSE c
           named == Rewritten(fixed, Renamed(s, fixed))
           e == IF Bare(s) THEN named ELSE StripEmpty(s, named)
<1>0. Tidied(s, d, t) = e
  BY DEF Tidied
<1>1. /\ DOMAIN a = DOMAIN d \cup s.times
      /\ \A f \in DOMAIN a : a[f] = IF f \in DOMAIN d THEN d[f] ELSE <<"time", t>>
  BY DEF AddTimes
<1> HIDE DEF a
<1>2. /\ DOMAIN b \subseteq DOMAIN a /\ \A f \in DOMAIN b : b[f] = a[f]
      /\ \A f \in DOMAIN a : (s.strict => f \in s.declared) => f \in DOMAIN b
  BY DEF StripUndeclared, Restrict
<1> HIDE DEF b
<1>3. /\ DOMAIN c \subseteq DOMAIN b /\ \A f \in DOMAIN c : c[f] = b[f]
      /\ \A f \in DOMAIN b : b[f] # <<"null">> => f \in DOMAIN c
  BY DEF StripNulls, Without, Restrict
<1> HIDE DEF c
<1>4. /\ \A f \in DOMAIN fixed :
            \/ f \notin DOMAIN d /\ fixed[f] = <<"time", t>>
            \/ f \in DOMAIN d /\ fixed[f] = d[f]
      /\ \A f \in DOMAIN d :
            d[f] # <<"null">> /\ (s.strict => f \in s.declared)
              => f \in DOMAIN fixed /\ fixed[f] = d[f]
  BY <1>1, <1>2, <1>3
<1> HIDE DEF fixed
<1>5. /\ DOMAIN named = DOMAIN fixed
      /\ \A f \in DOMAIN fixed :
            \/ named[f] = fixed[f]
            \/ fixed[f][1] = "name" /\ named[f][1] = "name"
  BY DEF Rewritten
<1> HIDE DEF named
<1>6. /\ DOMAIN e \subseteq DOMAIN named /\ \A f \in DOMAIN e : e[f] = named[f]
      /\ \A f \in DOMAIN named : named[f] # <<"empty">> => f \in DOMAIN e
  BY DEF StripEmpty, Without, Restrict
<1> HIDE DEF e
<1>7. ASSUME NEW f \in DOMAIN e
      PROVE  \/ f \notin DOMAIN d /\ e[f] = <<"time", t>>
             \/ f \in DOMAIN d /\ e[f] = d[f]
             \/ f \in DOMAIN d /\ d[f][1] = "name" /\ e[f][1] = "name"
  <2>1. f \in DOMAIN fixed /\ e[f] = named[f]
    BY <1>5, <1>6, <1>7
  <2>2. CASE f \notin DOMAIN d
    <3>1. fixed[f] = <<"time", t>> /\ fixed[f][1] # "name"
      BY <1>4, <2>1, <2>2
    <3> QED
      BY <1>5, <2>1, <2>2, <3>1
  <2>3. CASE f \in DOMAIN d
    BY <1>4, <1>5, <2>1, <2>3
  <2> QED
    BY <2>2, <2>3
<1>8. ASSUME NEW f \in DOMAIN d, d[f][1] \notin {"name", "null", "empty"},
             s.strict => f \in s.declared
      PROVE  f \in DOMAIN e /\ e[f] = d[f]
  <2>1. d[f] # <<"null">> /\ d[f] # <<"empty">>
    BY <1>8
  <2>2. f \in DOMAIN fixed /\ fixed[f] = d[f]
    BY <1>4, <1>8, <2>1
  <2>3. f \in DOMAIN named /\ named[f] = d[f]
    BY <1>5, <1>8, <2>2
  <2> QED
    BY <1>6, <2>1, <2>3
<1> QED
  BY <1>0, <1>7, <1>8

\* The harness writes no pointers; its times, its facts and the digest are there.
LEMMA PopulatedFields ==
    ASSUME NEW o, NEW d, NEW t
    PROVE  LET e == Populate(o, d, t) IN
           /\ \A f \in DOMAIN e : e[f][1] \in {"to", "at"} => f \in DOMAIN d /\ e[f] = d[f]
           /\ \A f \in Owned[o].times \ {Digest} : f \in DOMAIN e /\ e[f] = <<"time", t>>
           /\ \A f \in Owned[o].facts \ (Owned[o].times \cup {Digest}) :
                f \in DOMAIN e /\ e[f] = <<"fact">>
           /\ \A f \in DOMAIN d \ (OwnedFields(o)) : f \in DOMAIN e /\ e[f] = d[f]
           /\ \A f \in DOMAIN e : f \in DOMAIN d \/ f \in OwnedFields(o)
           /\ DigestSettled(e)
<1> DEFINE own == Owned[o]
           kept == DOMAIN d \ (own.generation \cup own.withheld)
           Blank(f) == f \notin kept \/ d[f] \in {<<"empty">>, <<"null">>}
           Value(f) ==
               IF f \in own.times THEN <<"time", t>>
               ELSE IF f \in own.facts THEN <<"fact">>
               ELSE IF f \in own.filled /\ Blank(f) THEN <<"name", Derived>> ELSE d[f]
           fields == kept \cup own.facts \cup own.times \cup own.filled
           g == [f \in fields |-> Value(f)]
           e == WithDigest(g)
<1>0. Populate(o, d, t) = e
  BY DEF Populate
<1>1. /\ DOMAIN g = fields
      /\ \A f \in fields : g[f] = Value(f)
  OBVIOUS
<1> HIDE DEF g
<1>2. /\ DOMAIN e = DOMAIN g \cup {Digest}
      /\ e[Digest] = <<"digest", Without(g, {Digest})>>
      /\ \A f \in DOMAIN g \ {Digest} : e[f] = g[f]
  BY DEF WithDigest
<1> HIDE DEF e
<1>3. ASSUME NEW f \in DOMAIN e, e[f][1] \in {"to", "at"} PROVE f \in DOMAIN d /\ e[f] = d[f]
  <2>1. f # Digest
    BY <1>2, <1>3
  <2>2. f \in fields /\ e[f] = Value(f)
    BY <1>1, <1>2, <2>1
  <2>3. f \notin own.times /\ f \notin own.facts /\ ~(f \in own.filled /\ Blank(f))
    BY <1>3, <2>2
  <2> QED
    BY <2>2, <2>3
<1>4. \A f \in own.times \ {Digest} : f \in DOMAIN e /\ e[f] = <<"time", t>>
  BY <1>1, <1>2
<1>5. \A f \in own.facts \ (own.times \cup {Digest}) : f \in DOMAIN e /\ e[f] = <<"fact">>
  BY <1>1, <1>2
<1>6. ASSUME NEW f \in DOMAIN d \ OwnedFields(o) PROVE f \in DOMAIN e /\ e[f] = d[f]
  BY <1>1, <1>2 DEF OwnedFields
<1>7. \A f \in DOMAIN e : f \in DOMAIN d \/ f \in OwnedFields(o)
  BY <1>1, <1>2 DEF OwnedFields
<1>8. DigestSettled(e)
  <2>1. Without(e, {Digest}) = Without(g, {Digest})
    BY <1>2 DEF Without, Restrict
  <2> QED
    BY <1>2, <2>1 DEF DigestSettled
<1> QED
  BY <1>0, <1>3, <1>4, <1>5, <1>6, <1>7, <1>8

\* What a repair makes of pointers, times and facts (_stamp_output_pointer): an
\* address is new only where a pointer at a file that is there was.
LEMMA RepairedFields ==
    ASSUME NEW o, NEW d, NEW files, NEW t
    PROVE  LET r == Repaired(o, d, files, t)
               s == Schema(o)
           IN
           /\ \A f \in DOMAIN r : r[f][1] = "to" =>
                /\ f \in DOMAIN d /\ r[f] = d[f]
                /\ Bare(s) \/ d[f][2] \notin scope \/ files[d[f][2]] = Absent
           /\ \A f \in DOMAIN r : r[f][1] = "at" =>
                /\ f \in DOMAIN d
                /\ \/ r[f] = d[f]
                   \/ /\ d[f][1] = "to" /\ d[f][2] \in scope /\ files[d[f][2]] # Absent
                      /\ r[f] = <<"at", d[f][2], d[f][2] = o, files[d[f][2]]>>
                      /\ ~Bare(s)
           /\ \A f \in DOMAIN r \cap Owned[o].times : f # Digest => r[f] = <<"time", t>>
           /\ \A f \in Owned[o].facts \ (Owned[o].times \cup {Digest}) :
                (s.strict => f \in s.declared) => f \in DOMAIN r /\ r[f] = <<"fact">>
<1> DEFINE s == Schema(o)
           e == Populate(o, d, t)
           tidy == Tidied(s, e, t)
           g == Stamped(o, tidy, files, scope)
           r == IF Bare(s) THEN tidy ELSE Hashed(g)
<1>0. Repaired(o, d, files, t) = r
  BY DEF Repaired
<1>1. /\ \A f \in DOMAIN e : e[f][1] \in {"to", "at"} => f \in DOMAIN d /\ e[f] = d[f]
      /\ \A f \in Owned[o].times \ {Digest} : f \in DOMAIN e /\ e[f] = <<"time", t>>
      /\ \A f \in Owned[o].facts \ (Owned[o].times \cup {Digest}) :
            f \in DOMAIN e /\ e[f] = <<"fact">>
  BY PopulatedFields
<1> HIDE DEF e, s
<1>2. /\ \A f \in DOMAIN tidy :
            \/ f \notin DOMAIN e /\ tidy[f] = <<"time", t>>
            \/ f \in DOMAIN e /\ tidy[f] = e[f]
            \/ f \in DOMAIN e /\ e[f][1] = "name" /\ tidy[f][1] = "name"
      /\ \A f \in DOMAIN e :
            e[f][1] \notin {"name", "null", "empty"} /\ (s.strict => f \in s.declared)
              => f \in DOMAIN tidy /\ tidy[f] = e[f]
  BY TidiedFields
<1> HIDE DEF tidy
<1>3. \A f \in DOMAIN tidy : tidy[f][1] \in {"to", "at"} => f \in DOMAIN d /\ tidy[f] = d[f]
  <2> TAKE f \in DOMAIN tidy
  <2> HAVE tidy[f][1] \in {"to", "at"}
  <2>1. f \in DOMAIN e /\ tidy[f] = e[f]
    BY <1>2
  <2> QED
    BY <1>1, <2>1
<1>4. \A f \in DOMAIN tidy \cap Owned[o].times : f # Digest => tidy[f] = <<"time", t>>
  <2> TAKE f \in DOMAIN tidy \cap Owned[o].times
  <2> HAVE f # Digest
  <2>1. f \in DOMAIN e /\ e[f] = <<"time", t>>
    BY <1>1
  <2>2. e[f][1] # "name"
    BY <2>1
  <2> QED
    BY <1>2, <2>1, <2>2
<1>5. \A f \in Owned[o].facts \ (Owned[o].times \cup {Digest}) :
        (s.strict => f \in s.declared) => f \in DOMAIN tidy /\ tidy[f] = <<"fact">>
  <2> TAKE f \in Owned[o].facts \ (Owned[o].times \cup {Digest})
  <2> HAVE s.strict => f \in s.declared
  <2>1. f \in DOMAIN e /\ e[f] = <<"fact">>
    BY <1>1
  <2>2. e[f][1] \notin {"name", "null", "empty"}
    BY <2>1
  <2> QED
    BY <1>2, <2>1, <2>2
<1>6. /\ DOMAIN g = DOMAIN tidy
      /\ \A f \in DOMAIN tidy :
            IF tidy[f][1] = "to" /\ tidy[f][2] \in scope /\ files[tidy[f][2]] # Absent
            THEN g[f] = <<"at", tidy[f][2], tidy[f][2] = o, files[tidy[f][2]]>>
            ELSE g[f] = tidy[f]
  BY DEF Stamped
<1> HIDE DEF g
<1>7. ~Bare(s) => /\ DOMAIN r = DOMAIN g
                  /\ \A f \in DOMAIN r : f # Digest => r[f] = g[f]
                  /\ Digest \in DOMAIN r => r[Digest][1] = "digest"
  BY DEF Hashed, WithDigest
<1>8. Bare(s) => r = tidy
  OBVIOUS
<1> HIDE DEF r
<1>9. ASSUME NEW f \in DOMAIN r, r[f][1] = "to"
      PROVE  /\ f \in DOMAIN d /\ r[f] = d[f]
             /\ Bare(s) \/ d[f][2] \notin scope \/ files[d[f][2]] = Absent
  <2>1. CASE Bare(s)
    BY <1>3, <1>8, <1>9, <2>1
  <2>2. CASE ~Bare(s)
    <3>1. f # Digest
      BY <1>7, <1>9, <2>2
    <3>2. f \in DOMAIN tidy /\ r[f] = g[f]
      BY <1>6, <1>7, <2>2, <3>1
    <3>3. ~(tidy[f][1] = "to" /\ tidy[f][2] \in scope /\ files[tidy[f][2]] # Absent)
      BY <1>6, <1>9, <3>2
    <3>4. r[f] = tidy[f]
      BY <1>6, <3>2, <3>3
    <3> QED
      BY <1>3, <1>9, <3>2, <3>3, <3>4
  <2> QED
    BY <2>1, <2>2
<1>10. ASSUME NEW f \in DOMAIN r, r[f][1] = "at"
       PROVE  /\ f \in DOMAIN d
              /\ \/ r[f] = d[f]
                 \/ /\ d[f][1] = "to" /\ d[f][2] \in scope /\ files[d[f][2]] # Absent
                    /\ r[f] = <<"at", d[f][2], d[f][2] = o, files[d[f][2]]>>
                    /\ ~Bare(s)
  <2>1. CASE Bare(s)
    BY <1>3, <1>8, <1>10, <2>1
  <2>2. CASE ~Bare(s)
    <3>1. f # Digest
      BY <1>7, <1>10, <2>2
    <3>2. f \in DOMAIN tidy /\ r[f] = g[f]
      BY <1>6, <1>7, <2>2, <3>1
    <3>3. tidy[f][1] \in {"to", "at"}
      BY <1>6, <1>10, <3>2
    <3>4. f \in DOMAIN d /\ tidy[f] = d[f]
      BY <1>3, <3>2, <3>3
    <3> QED
      BY <1>6, <2>2, <3>2, <3>4
  <2> QED
    BY <2>1, <2>2
<1>11. \A f \in DOMAIN r \cap Owned[o].times : f # Digest => r[f] = <<"time", t>>
  <2> TAKE f \in DOMAIN r \cap Owned[o].times
  <2> HAVE f # Digest
  <2>1. CASE Bare(s)
    BY <1>4, <1>8, <2>1
  <2>2. CASE ~Bare(s)
    <3>1. f \in DOMAIN tidy /\ r[f] = g[f]
      BY <1>6, <1>7, <2>2
    <3>2. tidy[f] = <<"time", t>> /\ tidy[f][1] # "to"
      BY <1>4, <3>1
    <3> QED
      BY <1>6, <3>1, <3>2
  <2> QED
    BY <2>1, <2>2
<1>12. \A f \in Owned[o].facts \ (Owned[o].times \cup {Digest}) :
         (s.strict => f \in s.declared) => f \in DOMAIN r /\ r[f] = <<"fact">>
  <2> TAKE f \in Owned[o].facts \ (Owned[o].times \cup {Digest})
  <2> HAVE s.strict => f \in s.declared
  <2>1. f \in DOMAIN tidy /\ tidy[f] = <<"fact">> /\ tidy[f][1] # "to"
    BY <1>5
  <2>2. CASE Bare(s)
    BY <1>8, <2>1, <2>2
  <2>3. CASE ~Bare(s)
    <3>1. f \in DOMAIN g /\ g[f] = <<"fact">>
      BY <1>6, <2>1
    <3> QED
      BY <1>7, <2>3, <3>1
  <2> QED
    BY <2>2, <2>3
<1> QED
  BY <1>0, <1>9, <1>10, <1>11, <1>12 DEF s

\* A name in a populated document is the derived one, where there was none that
\* is kept, or as the agent wrote it (populate_harness_fields).
LEMMA PopulatedNames ==
    ASSUME NEW o \in Output, NEW d, NEW t,
           NEW f \in DOMAIN Populate(o, d, t), Populate(o, d, t)[f][1] = "name"
    PROVE  LET e == Populate(o, d, t) IN
           \/ f \in DOMAIN d /\ e[f] = d[f]
           \/ /\ e[f] = <<"name", Derived>>
              /\ f \in DOMAIN d => d[f] \in {<<"empty">>, <<"null">>}
<1> DEFINE own == Owned[o]
           kept == DOMAIN d \ (own.generation \cup own.withheld)
           Blank(g) == g \notin kept \/ d[g] \in {<<"empty">>, <<"null">>}
           Value(g) ==
               IF g \in own.times THEN <<"time", t>>
               ELSE IF g \in own.facts THEN <<"fact">>
               ELSE IF g \in own.filled /\ Blank(g) THEN <<"name", Derived>> ELSE d[g]
           fields == kept \cup own.facts \cup own.times \cup own.filled
           w == [g \in fields |-> Value(g)]
           e == WithDigest(w)
<1>0. Populate(o, d, t) = e
  BY DEF Populate
<1>1. /\ DOMAIN e = fields \cup {Digest}
      /\ e[Digest][1] = "digest"
      /\ \A g \in fields \ {Digest} : e[g] = Value(g)
  BY DEF WithDigest
<1> HIDE DEF e
<1>2. f # Digest
  BY <1>0, <1>1
<1>3. f \in fields /\ e[f] = Value(f) /\ e[f][1] = "name"
  BY <1>0, <1>1, <1>2
<1>4. f \notin own.times /\ f \notin own.facts
  BY <1>3
<1>5. CASE f \in own.filled /\ Blank(f)
  <2>1. e[f] = <<"name", Derived>>
    BY <1>3, <1>4, <1>5
  <2>2. f \in DOMAIN d => f \in kept
    BY <1>5, OwnedAssumption
  <2> QED
    BY <1>0, <1>5, <2>1, <2>2
<1>6. CASE ~(f \in own.filled /\ Blank(f))
  <2>1. e[f] = d[f] /\ f \in DOMAIN d
    BY <1>3, <1>4, <1>6
  <2> QED
    BY <1>0, <2>1
<1> QED
  BY <1>5, <1>6

\* A document with its names as they were before it was repaired.
Reverted(file, before, entries) ==
    [f \in DOMAIN file |->
        IF \E e \in entries : e.field = f /\ e.code = "id_sanitization"
        THEN before[f] ELSE file[f]]

\* The fields that a record says were renamed.
LEMMA RenamedFields ==
    ASSUME NEW o, NEW d, NEW r, NEW f \in DOMAIN r
    PROVE  (\E e \in Entries(o, d, r) : e.field = f /\ e.code = "id_sanitization")
             <=> /\ f \in DOMAIN d /\ d[f] # r[f]
                 /\ d[f][1] = "name" /\ r[f] = <<"name", Sane[d[f][2]]>> /\ d[f][2] \notin Pattern
<1> DEFINE Code(g) == IF g \notin DOMAIN r THEN CodeOfRemoval(o, g, d[g])
                      ELSE IF g \notin DOMAIN d THEN CodeOfAddition(o, g)
                      ELSE CodeOfChange(o, g, d[g], r[g])
           differs == Changed(d, r)
           entries == {[field |-> g, code |-> Code(g)] : g \in differs}
<1>1. Entries(o, d, r) = entries
  BY DEF Entries
<1>2. (\E e \in entries : e.field = f /\ e.code = "id_sanitization")
        <=> f \in differs /\ Code(f) = "id_sanitization"
  <2> HIDE DEF Code, differs
  <2>1. f \in differs => [field |-> f, code |-> Code(f)] \in entries
    OBVIOUS
  <2>2. \A e \in entries : e.field = f => f \in differs /\ e.code = Code(f)
    OBVIOUS
  <2> HIDE DEF entries
  <2> QED
    BY <2>1, <2>2
<1>3. f \in differs <=> f \notin DOMAIN d \/ d[f] # r[f]
  BY DEF Changed
<1>4. CodeOfAddition(o, f) # "id_sanitization"
  BY DEF CodeOfAddition
<1>5. CodeOfChange(o, f, d[f], r[f]) = "id_sanitization"
        <=> d[f][1] = "name" /\ r[f] = <<"name", Sane[d[f][2]]>> /\ d[f][2] \notin Pattern
  BY DEF CodeOfChange
<1> QED
  BY <1>1, <1>2, <1>3, <1>4, <1>5

\* Where only names are repaired, the digest is that of the document before the
\* renamings that are disclosed (_deep_sanitize_ids, skip_item_repairs).
LEMMA BareDigest ==
    ASSUME NEW t \in Nat, NEW o \in Output, NEW d, NEW files, WellFormed(d, t), Bare(Schema(o))
    PROVE  LET r == Repaired(o, d, files, t) IN
           r[Digest] = <<"digest", Without(Reverted(r, d, Entries(o, d, r)), {Digest})>>
<1> DEFINE s == Schema(o)
           e == Populate(o, d, t)
           names == Renamed(s, e)
           r == Rewritten(e, names)
           before == Reverted(r, d, Entries(o, d, r))
<1>0. Repaired(o, d, files, t) = r
  BY DEF Repaired, Tidied
<1>1. /\ Digest \in DOMAIN e /\ e[Digest] = <<"digest", Without(e, {Digest})>>
      /\ WellFormed(e, t)
  <2>1. Digest \in DOMAIN e
    BY DEF Populate, WithDigest
  <2>2. DigestSettled(e)
    BY PopulatedFields
  <2>3. WellFormed(e, t)
    BY WellFormedPopulated
  <2> HIDE DEF e
  <2> QED
    BY <2>1, <2>2, <2>3 DEF DigestSettled
<1>2. \A f \in DOMAIN e : e[f][1] = "name" =>
        \/ f \in DOMAIN d /\ e[f] = d[f]
        \/ /\ e[f] = <<"name", Derived>>
           /\ f \in DOMAIN d => d[f] \in {<<"empty">>, <<"null">>}
  BY PopulatedNames
<1>3. \A f \in DOMAIN e : e[f][1] = "name" => e[f] = <<"name", e[f][2]>>
  BY <1>1 DEF WellFormed
<1> HIDE DEF e
<1>4. names \cap Pattern = {}
  BY DEF Renamed
<1> HIDE DEF names
<1>5. /\ DOMAIN r = DOMAIN e
      /\ \A f \in DOMAIN e :
            r[f] = IF e[f][1] = "name" /\ e[f][2] \in names THEN <<"name", Sane[e[f][2]]>> ELSE e[f]
  BY DEF Rewritten
<1> HIDE DEF r
<1>6. r[Digest] = e[Digest]
  BY <1>1, <1>5
<1>7. /\ DOMAIN before = DOMAIN e
      /\ \A f \in DOMAIN e :
            before[f] = IF /\ f \in DOMAIN d /\ d[f] # r[f] /\ d[f][1] = "name"
                           /\ r[f] = <<"name", Sane[d[f][2]]>> /\ d[f][2] \notin Pattern
                        THEN d[f] ELSE r[f]
  BY <1>5, RenamedFields DEF Reverted
<1> HIDE DEF before
<1>8. ASSUME NEW f \in DOMAIN e PROVE before[f] = e[f]
  <2>1. CASE e[f][1] = "name" /\ e[f][2] \in names
    <3>1. e[f][2] \notin Pattern /\ e[f] # <<"name", Derived>>
      <4>1. e[f][2] # Derived
        BY <1>4, <2>1, SaneAssumption
      <4>2. <<"name", Derived>>[2] = Derived
        OBVIOUS
      <4> QED
        BY <1>4, <2>1, <4>1, <4>2
    <3>2. f \in DOMAIN d /\ e[f] = d[f]
      BY <1>2, <2>1, <3>1
    <3>3. r[f] = <<"name", Sane[d[f][2]]>>
      BY <1>5, <2>1, <3>2
    <3> QED
      BY <1>7, <2>1, <3>1, <3>2, <3>3
  <2>2. CASE ~(e[f][1] = "name" /\ e[f][2] \in names)
    <3>1. r[f] = e[f]
      BY <1>5, <2>2
    <3>2. ASSUME f \in DOMAIN d, d[f] # r[f], d[f][1] = "name", r[f] = <<"name", Sane[d[f][2]]>>
          PROVE  FALSE
      <4>1. e[f][1] = "name"
        BY <3>1, <3>2
      <4>2. d[f] \in {<<"empty">>, <<"null">>}
        BY <1>2, <3>1, <3>2, <4>1
      <4> QED
        BY <3>2, <4>2
    <3> QED
      BY <1>7, <3>1, <3>2
  <2> QED
    BY <2>1, <2>2
<1>9. Without(before, {Digest}) = Without(e, {Digest})
  BY <1>7, <1>8 DEF Without, Restrict
<1> QED
  BY <1>0, <1>1, <1>6, <1>9 DEF before

\* A document to which another pass of the role does nothing.
Final(o, d) ==
    /\ Settled(Catalog[1][o], d)
    /\ \A f \in DOMAIN d : d[f][1] # "to"
    /\ \A f \in Owned[o].facts \cap Catalog[1][o].declared : f \in DOMAIN d /\ d[f] = <<"fact">>

\* The first pass makes a view final.
LEMMA ViewIsFinal ==
    ASSUME NEW t \in Nat, NEW o \in Output, NEW d, NEW files, WellFormed(d, t),
           catalog = 1, catalog \in DOMAIN Catalog, IsView(o),
           \A f \in DOMAIN d \cap Catalog[1][o].declared : d[f][1] # "to"
    PROVE  Final(o, Repaired(o, d, files, t))
<1> DEFINE s == Catalog[1][o]
           r == Repaired(o, d, files, t)
<1>1. Schema(o) = s /\ s.strict /\ ~Bare(s)
  BY DEF Schema, IsView, Bare
<1>2. Settled(s, r)
  BY <1>1, RepairedIsSettled
<1>3. DOMAIN r \subseteq s.declared
  BY <1>1, <1>2 DEF Settled, FieldsSettled
<1>4. \A f \in DOMAIN r : r[f][1] = "to" => f \in DOMAIN d /\ r[f] = d[f]
  BY RepairedFields
<1>5. \A f \in Owned[o].facts \cap s.declared : f \in DOMAIN r /\ r[f] = <<"fact">>
  <2>1. \A f \in Owned[o].facts \cap s.declared : f \notin Owned[o].times \cup {Digest}
    BY DEF IsView
  <2>2. \A f \in Owned[o].facts \ (Owned[o].times \cup {Digest}) :
            (s.strict => f \in s.declared) => f \in DOMAIN r /\ r[f] = <<"fact">>
    BY <1>1, RepairedFields
  <2> HIDE DEF r, s
  <2> QED
    BY <2>1, <2>2
<1> HIDE DEF r
<1>6. \A f \in DOMAIN r : r[f][1] # "to"
  BY <1>3, <1>4
<1> QED
  BY <1>2, <1>5, <1>6 DEF Final, r

\* What is final stays as it is in later passes, whatever their time is.
LEMMA FinalIsKept ==
    ASSUME NEW t, NEW u, NEW o \in Output, NEW d, NEW files, WellFormed(d, u),
           catalog = 1, IsView(o), Final(o, d)
    PROVE  Repaired(o, d, files, t) = d
<1> DEFINE s == Catalog[1][o]
           e == Populate(o, d, t)
<1>0. d = [f \in DOMAIN d |-> d[f]]
  BY DEF WellFormed
<1>1. Schema(o) = s /\ s.strict /\ ~Bare(s)
  BY DEF Schema, IsView, Bare
<1>2. FieldsSettled(s, d) /\ NothingEmpty(s, d) /\ NamesSettled(s, d)
  BY <1>1 DEF Final, Settled
<1>3. DOMAIN d \subseteq s.declared /\ s.times \subseteq DOMAIN d
  BY <1>1, <1>2 DEF FieldsSettled
<1>4. \A f \in s.declared : f \notin Owned[o].times \cup Owned[o].filled
            \cup Owned[o].generation \cup Owned[o].withheld \cup {Digest}
  BY DEF IsView
<1>5. ASSUME NEW f \in DOMAIN d PROVE f \in DOMAIN e /\ e[f] = d[f]
  <2>1. CASE f \in Owned[o].facts
    <3>1. d[f] = <<"fact">>
      BY <1>3, <2>1 DEF Final
    <3>2. f \in Owned[o].facts \ (Owned[o].times \cup {Digest})
      BY <1>3, <1>4, <2>1
    <3> QED
      BY <3>1, <3>2, PopulatedFields
  <2>2. CASE f \notin Owned[o].facts
    <3>1. f \in DOMAIN d \ OwnedFields(o)
      BY <1>3, <1>4, <2>2 DEF OwnedFields
    <3> QED
      BY <3>1, PopulatedFields
  <2> QED
    BY <2>1, <2>2
<1>6. DOMAIN e \cap s.declared = DOMAIN d
  <2>1. ASSUME NEW f \in DOMAIN e, f \in s.declared PROVE f \in DOMAIN d
    <3>1. f \in DOMAIN d \/ f \in OwnedFields(o)
      BY PopulatedFields
    <3>2. CASE f \in OwnedFields(o)
      <4>1. f \in Owned[o].facts
        BY <1>4, <2>1, <3>2 DEF OwnedFields
      <4> QED
        BY <2>1, <4>1 DEF Final
    <3> QED
      BY <3>1, <3>2
  <2> HIDE DEF e
  <2> QED
    BY <1>3, <1>5, <2>1
<1>7. e = [f \in DOMAIN e |-> e[f]]
  BY DEF Populate, WithDigest
<1> HIDE DEF e
<1>8. AddTimes(s, e, t) = e
  <2>1. DOMAIN e \cup s.times = DOMAIN e
    BY <1>3, <1>5
  <2>2. AddTimes(s, e, t) = [f \in DOMAIN e |-> e[f]]
    BY <2>1 DEF AddTimes
  <2> QED
    BY <1>7, <2>2
<1>9. StripUndeclared(s, e) = d
  <2>1. StripUndeclared(s, e) = [f \in DOMAIN d |-> e[f]]
    BY <1>1, <1>6 DEF StripUndeclared, Restrict
  <2>2. [f \in DOMAIN d |-> e[f]] = [f \in DOMAIN d |-> d[f]]
    BY <1>5
  <2> QED
    BY <1>0, <2>1, <2>2
<1>10. Restrict(d, DOMAIN d) = d
  BY <1>0 DEF Restrict
<1>11. StripNulls(s, d) = d
  <2>1. {f \in DOMAIN d \ s.required : d[f] = <<"null">>} = {}
    BY <1>2 DEF FieldsSettled
  <2> QED
    BY <1>10, <2>1 DEF StripNulls, Without
<1>12. Rewritten(d, Renamed(s, d)) = d
  <2>1. ASSUME NEW f \in DOMAIN d, d[f][1] = "name", d[f][2] \in Renamed(s, d)
        PROVE  <<"name", Sane[d[f][2]]>> = d[f]
    <3>1. PICK n \in DOMAIN Sane : d[f] = <<"name", n>>
      BY <2>1 DEF WellFormed
    <3>2. d[f][2] = n
      BY <3>1
    <3> QED
      BY <1>2, <2>1, <3>1, <3>2 DEF NamesSettled
  <2>2. Rewritten(d, Renamed(s, d)) = [f \in DOMAIN d |-> d[f]]
    BY <2>1 DEF Rewritten
  <2> QED
    BY <1>0, <2>2
<1>13. StripEmpty(s, d) = d
  <2>1. {f \in DOMAIN d \ (s.required \cup s.nested) : d[f] = <<"empty">>} = {}
    BY <1>2 DEF NothingEmpty
  <2> QED
    BY <1>10, <2>1 DEF StripEmpty, Without
<1>14. Tidied(s, e, t) = d
  BY <1>1, <1>8, <1>9, <1>11, <1>12, <1>13 DEF Tidied
<1>15. Stamped(o, d, files, scope) = d
  <2>1. \A f \in DOMAIN d : d[f][1] # "to"
    BY DEF Final
  <2>2. Stamped(o, d, files, scope) = [f \in DOMAIN d |-> d[f]]
    BY <2>1 DEF Stamped
  <2> QED
    BY <1>0, <2>2
<1>16. Hashed(d) = d
  BY <1>3, <1>4 DEF Hashed
<1> HIDE DEF s
<1> QED
  BY <1>1, <1>14, <1>15, <1>16 DEF Repaired, e

-----------------------------------------------------------------------------
\* The pointers of the role's files.

\* A pointer names its own file or a view that comes before it; a view has none.
\* An address is that of the copy of the own file, or that of a view as it is,
\* which no later pass changes.  Beside an address of the copy there is no
\* pointer left that would have the file copied again.
Linked(o, files, copies) ==
    \A f \in DOMAIN files[o] :
        LET v == files[o][f] IN
        /\ v[1] = "to" =>
            /\ v = <<"to", v[2]>>
            /\ v[2] \in Output \ {o} =>
                /\ IsView(v[2])
                /\ \E j \in DOMAIN Order : \E i \in 1 .. j - 1 : Order[i] = v[2] /\ Order[j] = o
            /\ IsView(o) => f \notin Catalog[1][o].declared
        /\ v[1] = "at" =>
            /\ v = <<"at", v[2], v[2] = o, v[4]>> /\ v[2] \in Output /\ v[4] # Absent
            /\ v[2] = o =>
                copies[o] = v[4] /\ \A g \in DOMAIN files[o] : files[o][g] # <<"to", o>>
            /\ v[2] # o =>
                /\ files[v[2]] = v[4] /\ IsView(v[2])
                /\ IsDocument(v[4]) => Final(v[2], v[4])

\* An output that the pass of time t has repaired.
Fresh(o, file, t) ==
    IsDocument(file) =>
        /\ \A f \in DOMAIN file \cap Owned[o].times : file[f] = <<"time", t>>
        /\ ~Bare(Catalog[1][o]) => DigestSettled(file)
        /\ IsView(o) => Final(o, file)

\* An output that is stored, with its copy if there is one.
Stored(o, file, copy, rows) ==
    IsDocument(file) =>
        /\ Row(o, FALSE, file) \in rows
        /\ copy # Absent => Row(o, TRUE, copy) \in rows

\* The files of a role from its agent to its closure.
LinkInv ==
    lane = "role" /\ pc # "idle" =>
        /\ catalog = 1
        /\ pc = "agent" => \A i \in next .. Len(Order) : disk[Order[i]] = Absent
        /\ \A o \in Output : IsDocument(disk[o]) => Linked(o, disk, sidecar)
        /\ pc = "repair" => \A i \in 1 .. next - 1 : Fresh(Order[i], disk[Order[i]], tick)
        /\ pc = "seal" =>
            /\ \A o \in Output : Fresh(o, disk[o], tick)
            /\ verdict = "succeeded" =>
                /\ Findings(disk) = {}
                /\ \A i \in 1 .. next - 1 :
                    Stored(Order[i], disk[Order[i]], sidecar[Order[i]], artifacts)

\* At first no file is there.
LEMMA LinkInit == Init => LinkInv
<1> SUFFICES ASSUME Init PROVE LinkInv
  OBVIOUS
<1>1. pc = "agent" /\ catalog = 1 /\ disk = [o \in Output |-> Absent]
  BY Zenon DEF Init
<1>2. \A o \in Output : disk[o] = Absent
  BY <1>1
<1>3. \A i \in next .. Len(Order) : Order[i] \in Output
  <2>1. next = 1
    BY Zenon DEF Init
  <2> QED
    BY <2>1, OrderNamesOutputs
<1> QED
  BY <1>1, <1>2, <1>3 DEF LinkInv, IsDocument

\* A step that leaves the files alone and begins no work keeps the pointers.
LEMMA LinksKept ==
    ASSUME LinkInv, UNCHANGED <<catalog, lane, disk, sidecar>>,
           lane = "role" /\ pc' # "idle" => pc # "idle",
           lane = "role" => pc' \notin {"agent", "repair", "seal"}
    PROVE  LinkInv'
BY DEF LinkInv, IsDocument

\* What an agent writes is linked: it has pointers and no addresses.
LEMMA WrittenIsLinked ==
    ASSUME ViewsComeFirst, NEW o \in Output, NEW files, NEW copies,
           files[o] \in Writes[o], IsDocument(files[o])
    PROVE  Linked(o, files, copies)
<1> SUFFICES ASSUME NEW f \in DOMAIN files[o]
             PROVE  LET v == files[o][f] IN
                    /\ v[1] # "at"
                    /\ v[1] = "to" =>
                        /\ v = <<"to", v[2]>>
                        /\ v[2] \in Output \ {o} =>
                            /\ IsView(v[2])
                            /\ \E j \in DOMAIN Order : \E i \in 1 .. j - 1 :
                                Order[i] = v[2] /\ Order[j] = o
                        /\ IsView(o) => f \notin Catalog[1][o].declared
  BY DEF Linked
<1>1. /\ files[o][f][1] # "at"
      /\ files[o][f][1] = "to" => files[o][f] = <<"to", files[o][f][2]>>
  BY PointerAssumption
<1>2. files[o][f][1] = "to" /\ files[o][f][2] \in Output \ {o} =>
        /\ IsView(files[o][f][2])
        /\ \E j \in DOMAIN Order : \E i \in 1 .. j - 1 :
            Order[i] = files[o][f][2] /\ Order[j] = o
  BY DEF ViewsComeFirst
<1>3. files[o][f][1] = "to" /\ IsView(o) => f \notin Catalog[1][o].declared
  BY DEF IsView
<1> QED
  BY <1>1, <1>2, <1>3

\* A file that was not there, or that stays as it is, disturbs no other one.
LEMMA OthersStayLinked ==
    ASSUME NEW q \in Output, NEW o \in Output, NEW files, NEW copies, NEW after, NEW copied,
           q # o, Linked(q, files, copies),
           \A p \in Output : p # o => after[p] = files[p] /\ copied[p] = copies[p],
           \/ files[o] = Absent
           \/ after[o] = files[o]
           \/ IsDocument(files[o]) /\ (IsView(o) /\ Final(o, files[o]) => after[o] = files[o])
    PROVE  Linked(q, after, copied)
<1>1. after[q] = files[q] /\ copied[q] = copies[q]
  OBVIOUS
<1> SUFFICES ASSUME NEW f \in DOMAIN files[q], files[q][f][1] = "at", files[q][f][2] # q
             PROVE  after[files[q][f][2]] = files[q][f][4]
  BY <1>1 DEF Linked
<1> DEFINE p == files[q][f][2]
<1>2. /\ p \in Output /\ files[p] = files[q][f][4] /\ files[p] # Absent /\ IsView(p)
      /\ IsDocument(files[p]) => Final(p, files[p])
  BY DEF Linked
<1>3. CASE p # o
  BY <1>2, <1>3
<1>4. CASE p = o
  BY <1>2, <1>4
<1> QED
  BY <1>3, <1>4

\* A repair leaves its output linked (_stamp_output_pointer): the views that it
\* points at have been repaired in this pass, and its own file has been copied.
LEMMA RepairedIsLinked ==
    ASSUME NEW o \in Output, NEW t, scope = Output,
           IsDocument(disk[o]), Linked(o, disk, sidecar),
           NEW files, NEW copies,
           files[o] = Repaired(o, disk[o], disk, t),
           \A p \in Output : p # o => files[p] = disk[p],
           copies[o] = IF PointsAtItself(o, disk[o]) THEN disk[o] ELSE sidecar[o],
           NEW n \in 1 .. Len(Order), Order[n] = o,
           \A i \in 1 .. n - 1 : Fresh(Order[i], disk[Order[i]], t)
    PROVE  Linked(o, files, copies)
<1> DEFINE d == disk[o]
           r == files[o]
<1>1. \A f \in DOMAIN r : r[f][1] = "to" =>
        /\ f \in DOMAIN d /\ r[f] = d[f]
        /\ Bare(Schema(o)) \/ d[f][2] \notin scope \/ disk[d[f][2]] = Absent
  BY RepairedFields
<1>2. \A f \in DOMAIN r : r[f][1] = "at" =>
        /\ f \in DOMAIN d
        /\ \/ r[f] = d[f]
           \/ /\ d[f][1] = "to" /\ d[f][2] \in scope /\ disk[d[f][2]] # Absent
              /\ r[f] = <<"at", d[f][2], d[f][2] = o, disk[d[f][2]]>>
              /\ ~Bare(Schema(o))
  BY RepairedFields
<1> HIDE DEF r
<1>3. \A g \in DOMAIN r : r[g] = <<"to", o>> =>
        g \in DOMAIN d /\ d[g] = <<"to", o>> /\ Bare(Schema(o))
  <2> TAKE g \in DOMAIN r
  <2> HAVE r[g] = <<"to", o>>
  <2>1. r[g][1] = "to"
    OBVIOUS
  <2>2. /\ g \in DOMAIN d /\ r[g] = d[g]
        /\ Bare(Schema(o)) \/ d[g][2] \notin scope \/ disk[d[g][2]] = Absent
    BY <1>1, <2>1
  <2>3. d[g] = <<"to", o>> /\ d[g][2] = o
    BY <2>2
  <2> QED
    BY <2>2, <2>3 DEF IsDocument
<1> SUFFICES ASSUME NEW f \in DOMAIN r
             PROVE  LET v == r[f] IN
                    /\ v[1] = "to" =>
                        /\ v = <<"to", v[2]>>
                        /\ v[2] \in Output \ {o} =>
                            /\ IsView(v[2])
                            /\ \E j \in DOMAIN Order : \E i \in 1 .. j - 1 :
                                Order[i] = v[2] /\ Order[j] = o
                        /\ IsView(o) => f \notin Catalog[1][o].declared
                    /\ v[1] = "at" =>
                        /\ v = <<"at", v[2], v[2] = o, v[4]>> /\ v[2] \in Output /\ v[4] # Absent
                        /\ v[2] = o => copies[o] = v[4] /\ \A g \in DOMAIN r : r[g] # <<"to", o>>
                        /\ v[2] # o =>
                            /\ files[v[2]] = v[4] /\ IsView(v[2])
                            /\ IsDocument(v[4]) => Final(v[2], v[4])
  BY DEF Linked, r
<1>4. CASE r[f][1] = "to"
  <2>1. f \in DOMAIN d /\ r[f] = d[f] /\ d[f][1] = "to"
    BY <1>1, <1>4
  <2> QED
    BY <2>1 DEF Linked
<1>5. CASE r[f][1] = "at" /\ f \in DOMAIN d /\ r[f] = d[f]
  <2> DEFINE v == d[f]
  <2>1. /\ v = <<"at", v[2], v[2] = o, v[4]>> /\ v[2] \in Output /\ v[4] # Absent
        /\ v[2] = o => sidecar[o] = v[4] /\ \A g \in DOMAIN d : d[g] # <<"to", o>>
        /\ v[2] # o =>
            /\ disk[v[2]] = v[4] /\ IsView(v[2])
            /\ IsDocument(v[4]) => Final(v[2], v[4])
    BY <1>5 DEF Linked
  <2>2. v[2] = o => copies[o] = v[4] /\ \A g \in DOMAIN r : r[g] # <<"to", o>>
    <3> SUFFICES ASSUME v[2] = o PROVE copies[o] = v[4] /\ \A g \in DOMAIN r : r[g] # <<"to", o>>
      OBVIOUS
    <3>1. ~PointsAtItself(o, d)
      BY <2>1 DEF PointsAtItself
    <3> QED
      BY <1>3, <2>1, <3>1
  <2> HIDE DEF v
  <2>3. r[f] = v /\ v[1] = "at"
    BY <1>5 DEF v
  <2> QED
    BY <2>1, <2>2, <2>3
<1>6. CASE /\ r[f][1] = "at" /\ f \in DOMAIN d /\ d[f][1] = "to" /\ d[f][2] \in scope
           /\ disk[d[f][2]] # Absent
           /\ r[f] = <<"at", d[f][2], d[f][2] = o, disk[d[f][2]]>>
           /\ ~Bare(Schema(o))
  <2> DEFINE p == d[f][2]
  <2>1. /\ d[f] = <<"to", p>> /\ p \in Output /\ disk[p] # Absent
        /\ r[f] = <<"at", p, p = o, disk[p]>>
        /\ p # o =>
            /\ IsView(p)
            /\ \E j \in DOMAIN Order : \E i \in 1 .. j - 1 : Order[i] = p /\ Order[j] = o
    BY <1>6 DEF Linked
  <2> HIDE DEF p
  <2>2. r[f][2] = p /\ r[f][3] = (p = o) /\ r[f][4] = disk[p]
    BY <2>1
  <2>3. CASE p = o
    <3>1. PointsAtItself(o, d)
      BY <1>6, <2>1, <2>3 DEF PointsAtItself
    <3>2. \A g \in DOMAIN r : r[g] # <<"to", o>>
      BY <1>3, <1>6
    <3>3. copies[o] = disk[o]
      BY <3>1
    <3> QED
      BY <1>6, <2>1, <2>2, <2>3, <3>2, <3>3
  <2>4. CASE p # o
    <3>1. PICK j \in DOMAIN Order : \E i \in 1 .. j - 1 : Order[i] = p /\ Order[j] = o
      BY <2>1, <2>4
    <3>2. PICK i \in 1 .. j - 1 : Order[i] = p /\ Order[j] = o
      BY <3>1
    <3>3. Fresh(p, disk[p], t)
      <4>1. j = n
        BY <3>2, OrderNamesOutputs
      <4> QED
        BY <3>2, <4>1
    <3>4. files[p] = disk[p]
      BY <2>1, <2>4
    <3> QED
      BY <1>6, <2>1, <2>2, <2>4, <3>3, <3>4 DEF Fresh
  <2> QED
    BY <2>3, <2>4
<1>7. CASE r[f][1] \notin {"to", "at"}
  BY <1>7
<1> QED
  BY <1>2, <1>4, <1>5, <1>6, <1>7

\* The types that a pass works with.
LEMMA TypesOfPass ==
    ASSUME TypeInv
    PROVE  /\ next \in 1 .. Len(Order) + 1 /\ DOMAIN disk = Output /\ DOMAIN sidecar = Output
           /\ tick \in Nat /\ catalog \in DOMAIN Catalog
BY Zenon DEF TypeInv, ScalarInv, FilesInv

\* An agent writes files that were not there.
LEMMA LinksWritten ==
    ASSUME ViewsComeFirst, TypeInv, LinkInv, AgentWrites
    PROVE  LinkInv'
<1> DEFINE o == Order[next]
<1>0. /\ pc = "agent" /\ pc' = "agent" /\ next' = next + 1 /\ next <= Len(Order)
      /\ UNCHANGED <<catalog, sidecar, lane>>
      /\ \E file \in Edits(o, disk[o]) : disk' = [disk EXCEPT ![o] = file]
  BY DEF AgentWrites, order
<1>1. next \in 1 .. Len(Order) /\ Len(Order) \in Nat /\ DOMAIN disk = Output
  BY <1>0, OrderNamesOutputs, TypesOfPass
<1>2. o \in Output /\ \A i \in next' .. Len(Order) : Order[i] # o /\ Order[i] \in Output
  <2>1. \A i \in next' .. Len(Order) : i \in 1 .. Len(Order) /\ i # next
    BY <1>0, <1>1
  <2> QED
    BY <1>1, <2>1, OrderNamesOutputs
<1> SUFFICES ASSUME lane = "role" PROVE LinkInv'
  <2>1. lane' = lane
    BY <1>0
  <2> QED
    BY <2>1, Zenon DEF LinkInv
<1>3. /\ catalog = 1
      /\ \A i \in next .. Len(Order) : disk[Order[i]] = Absent
      /\ \A q \in Output : IsDocument(disk[q]) => Linked(q, disk, sidecar)
  BY <1>0 DEF LinkInv
<1>4. disk[o] = Absent
  BY <1>1, <1>3
<1>5. PICK file \in Writes[o] \cup {Absent} : disk' = [disk EXCEPT ![o] = file]
  BY <1>0, <1>4 DEF Edits, IsDocument
<1>6. disk'[o] = file /\ \A q \in Output : q # o => disk'[q] = disk[q]
  BY <1>1, <1>2, <1>5
<1> HIDE DEF o
<1>7. \A i \in next' .. Len(Order) : disk'[Order[i]] = Absent
  <2>1. \A i \in next' .. Len(Order) : i \in next .. Len(Order)
    BY <1>0, <1>1
  <2> QED
    BY <1>2, <1>3, <1>6, <2>1
<1>8. ASSUME NEW q \in Output, IsDocument(disk'[q]) PROVE Linked(q, disk', sidecar')
  <2>1. CASE q = o
    <3>1. disk'[o] \in Writes[o]
      BY <1>5, <1>6, <1>8, <2>1 DEF IsDocument
    <3> QED
      BY <1>8, <2>1, <3>1, WrittenIsLinked
  <2>2. CASE q # o
    <3>1. Linked(q, disk, sidecar)
      BY <1>3, <1>6, <1>8, <2>2
    <3>2. \A p \in Output : p # o => disk'[p] = disk[p] /\ sidecar'[p] = sidecar[p]
      BY <1>0, <1>6
    <3> QED
      BY <1>2, <1>4, <2>2, <3>1, <3>2, OthersStayLinked
  <2> QED
    BY <2>1, <2>2
<1>9. (\A q \in Output : IsDocument(disk[q]) => Linked(q, disk, sidecar))'
  BY <1>8 DEF IsDocument
<1> QED
  BY <1>0, <1>3, <1>7, <1>9 DEF LinkInv

\* One output is repaired, which is fresh then and linked; what points at it
\* does so only if it is final, and then it stays as it is.
LEMMA LinksRepaired ==
    ASSUME TypeInv, CompleteInv, LinkInv, RepairOutput
    PROVE  LinkInv'
<1> DEFINE o == Order[next]
           r == Repaired(o, disk[o], disk, tick)
<1>0. /\ pc = "repair" /\ pc' = "repair" /\ next' = next + 1 /\ next <= Len(Order)
      /\ UNCHANGED <<catalog, lane, scope, tick>>
      /\ IF o \in scope /\ IsDocument(disk[o])
         THEN /\ disk' = [disk EXCEPT ![o] = r]
              /\ sidecar' = IF PointsAtItself(o, disk[o])
                            THEN [sidecar EXCEPT ![o] = disk[o]] ELSE sidecar
         ELSE UNCHANGED <<disk, sidecar>>
  BY DEF RepairOutput, order
<1>1. /\ next \in 1 .. Len(Order) /\ Len(Order) \in Nat
      /\ DOMAIN disk = Output /\ DOMAIN sidecar = Output
      /\ tick \in Nat /\ catalog \in DOMAIN Catalog
  BY <1>0, OrderNamesOutputs, TypesOfPass
<1>2. o \in Output /\ \A i \in 1 .. next - 1 : Order[i] # o /\ Order[i] \in Output
  <2>1. \A i \in 1 .. next - 1 : i \in 1 .. Len(Order) /\ i # next
    BY <1>1
  <2> QED
    BY <1>1, <2>1, OrderNamesOutputs
<1> SUFFICES ASSUME lane = "role" PROVE LinkInv'
  <2>1. lane' = lane
    BY <1>0
  <2> QED
    BY <2>1, Zenon DEF LinkInv
<1>3. /\ catalog = 1 /\ scope = Output
      /\ \A q \in Output : IsDocument(disk[q]) => Linked(q, disk, sidecar)
      /\ \A i \in 1 .. next - 1 : Fresh(Order[i], disk[Order[i]], tick)
  BY <1>0 DEF LinkInv, CompleteInv
<1>4. /\ \A q \in Output : q # o => disk'[q] = disk[q] /\ sidecar'[q] = sidecar[q]
      /\ IsDocument(disk[o]) =>
            /\ disk'[o] = r
            /\ sidecar'[o] = IF PointsAtItself(o, disk[o]) THEN disk[o] ELSE sidecar[o]
      /\ ~IsDocument(disk[o]) => disk'[o] = disk[o] /\ sidecar'[o] = sidecar[o]
  <2> HIDE DEF r, o
  <2>1. CASE IsDocument(disk[o])
    <3>1. /\ disk' = [disk EXCEPT ![o] = r]
          /\ sidecar' = IF PointsAtItself(o, disk[o])
                        THEN [sidecar EXCEPT ![o] = disk[o]] ELSE sidecar
      BY <1>0, <1>2, <1>3, <2>1
    <3> QED
      BY <1>1, <1>2, <2>1, <3>1
  <2>2. CASE ~IsDocument(disk[o])
    BY <1>0, <2>2
  <2> QED
    BY <2>1, <2>2
<1>5. IsDocument(disk[o]) => WellFormed(disk[o], tick)
  BY <1>2 DEF TypeInv, FilesInv
<1>6. Schema(o) = Catalog[1][o]
  BY <1>3 DEF Schema
<1>7. Fresh(o, disk'[o], tick)
  <2>1. CASE ~IsDocument(disk[o])
    BY <1>4, <2>1 DEF Fresh
  <2>2. CASE IsDocument(disk[o])
    <3>1. disk'[o] = r /\ WellFormed(disk[o], tick)
      BY <1>4, <1>5, <2>2
    <3>2. \A f \in DOMAIN r \cap Owned[o].times : r[f] = <<"time", tick>>
      <4>1. \A f \in DOMAIN r \cap Owned[o].times : f # Digest => r[f] = <<"time", tick>>
        BY RepairedFields
      <4>2. Digest \notin Owned[o].times
        BY <1>2, OwnedAssumption
      <4> HIDE DEF r
      <4> QED
        BY <4>1, <4>2
    <3>3. ~Bare(Catalog[1][o]) => DigestSettled(r)
      BY <1>1, <1>2, <1>6, <3>1, RepairedIsSettled DEF Settled
    <3>4. IsView(o) => Final(o, r)
      <4> SUFFICES ASSUME IsView(o) PROVE Final(o, r)
        OBVIOUS
      <4>1. \A f \in DOMAIN disk[o] \cap Catalog[1][o].declared : disk[o][f][1] # "to"
        BY <1>2, <1>3, <2>2 DEF Linked
      <4> HIDE DEF o
      <4> QED
        BY <1>1, <1>2, <1>3, <3>1, <4>1, ViewIsFinal
    <3> HIDE DEF r
    <3> QED
      BY <3>1, <3>2, <3>3, <3>4 DEF Fresh
  <2> QED
    BY <2>1, <2>2
<1>8. IsDocument(disk[o]) /\ IsView(o) /\ Final(o, disk[o]) => disk'[o] = disk[o]
  BY <1>2, <1>3, <1>4, <1>5, FinalIsKept
<1>9. ASSUME NEW q \in Output, IsDocument(disk'[q]) PROVE Linked(q, disk', sidecar')
  <2>1. CASE q # o
    <3>1. Linked(q, disk, sidecar)
      BY <1>3, <1>4, <1>9, <2>1
    <3> HIDE DEF r, o
    <3> QED
      BY <1>2, <1>4, <1>8, <2>1, <3>1, OthersStayLinked
  <2>2. CASE q = o /\ IsDocument(disk[o])
    <3>1. /\ Linked(o, disk, sidecar) /\ disk'[o] = Repaired(o, disk[o], disk, tick)
          /\ sidecar'[o] = IF PointsAtItself(o, disk[o]) THEN disk[o] ELSE sidecar[o]
      BY <1>2, <1>3, <1>4, <2>2
    <3>2. \A p \in Output : p # o => disk'[p] = disk[p]
      BY <1>4
    <3>3. Order[next] = o
      OBVIOUS
    <3> HIDE DEF o, r
    <3> QED
      BY <1>1, <1>2, <1>3, <2>2, <3>1, <3>2, <3>3, RepairedIsLinked
  <2>3. CASE q = o /\ ~IsDocument(disk[o])
    BY <1>4, <1>9, <2>3
  <2> QED
    BY <2>1, <2>2, <2>3
<1>10. \A i \in 1 .. next' - 1 : Fresh(Order[i], disk'[Order[i]], tick)
  <2> TAKE i \in 1 .. next' - 1
  <2>1. CASE i = next
    BY <1>7, <2>1
  <2>2. CASE i \in 1 .. next - 1
    <3>1. disk'[Order[i]] = disk[Order[i]]
      BY <1>2, <1>4, <2>2
    <3> QED
      BY <1>3, <2>2, <3>1
  <2>3. i = next \/ i \in 1 .. next - 1
    BY <1>0, <1>1
  <2> QED
    BY <2>1, <2>2, <2>3
<1>11. (\A q \in Output : IsDocument(disk[q]) => Linked(q, disk, sidecar))'
  BY <1>9 DEF IsDocument
<1>12. (\A i \in 1 .. next - 1 : Fresh(Order[i], disk[Order[i]], tick))'
  BY <1>0, <1>10
<1> HIDE DEF o, r
<1> QED
  BY <1>0, <1>3, <1>11, <1>12 DEF LinkInv

\* All outputs have been repaired when they are judged.
LEMMA LinksJudged ==
    ASSUME TypeInv, LinkInv, Judge
    PROVE  LinkInv'
<1>0. /\ pc = "repair" /\ pc' = "seal" /\ next' = 1 /\ next > Len(Order)
      /\ UNCHANGED <<catalog, lane, disk, sidecar, tick>>
  BY DEF Judge, order
<1>1. next \in 1 .. Len(Order) + 1 /\ Len(Order) \in Nat
  BY OrderNamesOutputs, TypesOfPass
<1> SUFFICES ASSUME lane = "role" PROVE LinkInv'
  <2>1. lane' = lane
    BY <1>0
  <2> QED
    BY <2>1, Zenon DEF LinkInv
<1>2. /\ catalog = 1
      /\ \A q \in Output : IsDocument(disk[q]) => Linked(q, disk, sidecar)
      /\ \A i \in 1 .. next - 1 : Fresh(Order[i], disk[Order[i]], tick)
  BY <1>0 DEF LinkInv
<1>3. \A o \in Output : Fresh(o, disk[o], tick)
  <2>1. \A i \in 1 .. Len(Order) : i \in 1 .. next - 1
    BY <1>0, <1>1
  <2> QED
    BY <1>2, <2>1, OrderNamesOutputs
<1>4. verdict' = "succeeded" => Findings(disk) = {}
  BY DEF Judge
<1>5. Findings(disk)' = Findings(disk)
  BY <1>0, FindingsKept
<1>6. (\A q \in Output : IsDocument(disk[q]) => Linked(q, disk, sidecar))'
  BY <1>0, <1>2 DEF IsDocument
<1>7. (\A o \in Output : Fresh(o, disk[o], tick))'
  BY <1>0, <1>3
<1>8. \A i \in 1 .. next' - 1 : FALSE
  BY <1>0
<1> QED
  BY <1>0, <1>2, <1>4, <1>5, <1>6, <1>7, <1>8 DEF LinkInv

\* What was repaired without findings is stored, output by output.
LEMMA LinksSealed ==
    ASSUME TypeInv, LinkInv, SealOutput
    PROVE  LinkInv'
<1> DEFINE o == Order[next]
<1>0. /\ pc = "seal" /\ pc' = "seal" /\ next' = next + 1 /\ next <= Len(Order)
      /\ UNCHANGED <<catalog, lane, disk, sidecar, tick, verdict>>
      /\ artifacts' = artifacts \cup
            (IF ~Valid(o, disk[o]) THEN {}
             ELSE {Row(o, FALSE, disk[o])} \cup
                  (IF sidecar[o] = Absent THEN {} ELSE {Row(o, TRUE, sidecar[o])}))
  BY DEF SealOutput, order, memory
<1>1. next \in 1 .. Len(Order) /\ Len(Order) \in Nat /\ DOMAIN disk = Output
  BY <1>0, OrderNamesOutputs, TypesOfPass
<1>2. o \in Output
  BY <1>1, OrderNamesOutputs
<1> SUFFICES ASSUME lane = "role" PROVE LinkInv'
  <2>1. lane' = lane
    BY <1>0
  <2> QED
    BY <2>1, Zenon DEF LinkInv
<1>3. /\ catalog = 1
      /\ \A q \in Output : IsDocument(disk[q]) => Linked(q, disk, sidecar)
      /\ \A q \in Output : Fresh(q, disk[q], tick)
      /\ verdict = "succeeded" =>
            /\ Findings(disk) = {}
            /\ \A i \in 1 .. next - 1 :
                Stored(Order[i], disk[Order[i]], sidecar[Order[i]], artifacts)
  BY <1>0 DEF LinkInv
<1>4. ASSUME verdict = "succeeded", NEW i \in 1 .. next' - 1
      PROVE  Stored(Order[i], disk[Order[i]], sidecar[Order[i]], artifacts')
  <2>1. CASE i = next
    <3>1. IsDocument(disk[o]) => Valid(o, disk[o])
      BY <1>1, <1>2, <1>3, <1>4, AcceptedWithoutFindings DEF Accepted
    <3> QED
      BY <1>0, <2>1, <3>1 DEF Stored
  <2>2. CASE i \in 1 .. next - 1
    <3>1. artifacts \subseteq artifacts'
      BY <1>0
    <3> QED
      BY <1>3, <1>4, <2>2, <3>1 DEF Stored
  <2>3. i = next \/ i \in 1 .. next - 1
    BY <1>0, <1>1
  <2> QED
    BY <2>1, <2>2, <2>3
<1>5. Findings(disk)' = Findings(disk)
  BY <1>0, FindingsKept
<1>6. (\A q \in Output : IsDocument(disk[q]) => Linked(q, disk, sidecar))'
  BY <1>0, <1>3 DEF IsDocument
<1>7. (\A q \in Output : Fresh(q, disk[q], tick))'
  BY <1>0, <1>3
<1>8. (verdict = "succeeded" =>
        \A i \in 1 .. next - 1 :
            Stored(Order[i], disk[Order[i]], sidecar[Order[i]], artifacts))'
  BY <1>0, <1>4
<1> HIDE DEF o
<1> QED
  BY <1>0, <1>3, <1>5, <1>6, <1>7, <1>8 DEF LinkInv

\* Each step keeps the pointers, if no catalog is installed while a role waits.
LEMMA LinkStep ==
    ASSUME ViewsComeFirst, Upgradable \subseteq {"idle"},
           TypeInv, ClosuresInv, CompleteInv, LinkInv, [Next]_vars
    PROVE  LinkInv'
<1>1. CASE AgentWrites
  BY <1>1, LinksWritten
<1>2. CASE AgentReturns \/ AgentFails \/ AgentVanishes \/ Interrupt \/ Reconcile \/ PreserveFails
  <2>1. /\ UNCHANGED <<catalog, lane, disk, sidecar>> /\ pc # "idle"
        /\ pc' \notin {"agent", "repair", "seal"}
    BY <1>2 DEF AgentReturns, AgentFails, AgentVanishes, Interrupt, Reconcile, PreserveFails,
       order
  <2> QED
    BY <2>1, LinksKept
<1>3. CASE Preserve
  <2>1. /\ UNCHANGED <<catalog, lane, disk, sidecar, next>> /\ pc = "returned" /\ pc' = "repair"
        /\ next = 1
    BY <1>3 DEF Preserve, order, CompleteInv
  <2>2. \A i \in 1 .. next' - 1 : FALSE
    BY <2>1
  <2>3. (\A q \in Output : IsDocument(disk[q]) => Linked(q, disk, sidecar))'
            \/ lane # "role"
    BY <2>1 DEF LinkInv, IsDocument
  <2> QED
    BY <2>1, <2>2, <2>3 DEF LinkInv
<1>4. CASE RepairOutput
  BY <1>4, LinksRepaired
<1>5. CASE Judge
  BY <1>5, LinksJudged
<1>6. CASE SealOutput
  BY <1>6, LinksSealed
<1>7. CASE Close
  <2>1. pc' = "idle"
    BY <1>7 DEF Close
  <2> QED
    BY <2>1 DEF LinkInv
<1>8. CASE UpgradeCatalog
  <2>1. pc' = "idle"
    BY <1>8 DEF UpgradeCatalog
  <2> QED
    BY <2>1 DEF LinkInv
<1>9. ASSUME NEW type \in {"packaging", "scientific"}, NEW outputs \in SUBSET Output,
             Correct(type, outputs)
      PROVE  LinkInv'
  <2>1. lane' # "role"
    BY <1>9 DEF Correct
  <2> QED
    BY <2>1 DEF LinkInv
<1>10. ASSUME NEW codes \in Codes, NEW outputs \in SUBSET Output, Normalize(codes, outputs)
       PROVE  LinkInv'
  <2>1. pc' = "idle"
    BY <1>10 DEF Normalize
  <2> QED
    BY <2>1 DEF LinkInv
<1>11. CASE UNCHANGED vars
  <2>1. UNCHANGED <<catalog, lane, disk, sidecar, pc, next, tick, verdict, artifacts>>
    BY <1>11 DEF vars, store, order, memory
  <2>2. Findings(disk)' = Findings(disk)
    BY <2>1, FindingsKept
  <2> QED
    BY <2>1, <2>2 DEF LinkInv, IsDocument
<1> QED
  BY <1>1, <1>2, <1>3, <1>4, <1>5, <1>6, <1>7, <1>8, <1>9, <1>10, <1>11, FileAssumption DEF Next

\* The digest of an output that was repaired for its names alone is that of the
\* output before the renamings in its record.
Explained(o, file, before, recs) ==
    IsDocument(file) /\ Bare(Catalog[1][o]) /\ Digest \in DOMAIN file =>
        /\ o \in DOMAIN recs
        /\ file[Digest] = <<"digest", Without(Reverted(file, before, recs[o].entries), {Digest})>>

DigestInv ==
    lane = "role" =>
        /\ pc = "repair" =>
            \A i \in 1 .. next - 1 : Explained(Order[i], disk[Order[i]], raw[Order[i]], records)
        /\ pc = "seal" => \A o \in Output : Explained(o, disk[o], raw[o], records)

\* At first nothing was repaired.
LEMMA DigestInit == Init => DigestInv
<1>1. Init => pc = "agent"
  BY Zenon DEF Init
<1> QED
  BY <1>1 DEF DigestInv

\* One output is repaired, from what was preserved of it.
LEMMA DigestRepaired ==
    ASSUME TypeInv, CompleteInv, RecordsInv, LinkInv, DigestInv, RepairOutput, lane = "role"
    PROVE  DigestInv'
<1> DEFINE o == Order[next]
           file == disk[o]
           fixed == Repaired(o, file, disk, tick)
<1>0. /\ pc = "repair" /\ pc' = "repair" /\ next' = next + 1 /\ next <= Len(Order)
      /\ UNCHANGED <<raw, lane>>
  BY DEF RepairOutput, order
<1>1. /\ next \in 1 .. Len(Order) /\ Len(Order) \in Nat
      /\ DOMAIN disk = Output /\ tick \in Nat /\ catalog \in DOMAIN Catalog
  BY <1>0, OrderNamesOutputs, TypesOfPass
<1>2. o \in Output /\ \A i \in 1 .. next - 1 : Order[i] # o /\ Order[i] \in Output
  <2>1. \A i \in 1 .. next - 1 : i \in 1 .. Len(Order) /\ i # next
    BY <1>1
  <2> QED
    BY <1>1, <2>1, OrderNamesOutputs
<1>3. \A i \in 1 .. next - 1 : Explained(Order[i], disk[Order[i]], raw[Order[i]], records)
  BY <1>0 DEF DigestInv
<1>4. raw[o] = file
  <2>1. o \notin DOMAIN records
    BY <1>0, <1>2 DEF RecordsInv
  <2> QED
    BY <1>0, <1>2, <2>1 DEF RecordsInv, Told
<1>5. catalog = 1
  BY <1>0 DEF LinkInv
<1>6. CASE o \in scope /\ IsDocument(file)
  <2>1. /\ disk' = [disk EXCEPT ![o] = fixed]
        /\ records' = [p \in DOMAIN records \cup {o} |->
                          IF p = o THEN Record(o, file, fixed) ELSE records[p]]
    BY <1>6 DEF RepairOutput
  <2>2. WellFormed(file, tick)
    BY <1>2, <1>6 DEF TypeInv, FilesInv
  <2>3. Bare(Catalog[1][o]) =>
          fixed[Digest] = <<"digest", Without(Reverted(fixed, file, Entries(o, file, fixed)), {Digest})>>
    <3>1. Schema(o) = Catalog[1][o]
      BY <1>5 DEF Schema
    <3> QED
      BY <1>1, <1>2, <2>2, <3>1, BareDigest
  <2>4. Record(o, file, fixed).entries = Entries(o, file, fixed)
    BY DEF Record
  <2> HIDE DEF fixed, file
  <2>5. /\ disk'[o] = fixed /\ records'[o].entries = Entries(o, file, fixed)
        /\ \A i \in 1 .. next - 1 : disk'[Order[i]] = disk[Order[i]]
    BY <1>1, <1>2, <2>1, <2>4
  <2>6. \A p \in DOMAIN records \ {o} : p \in DOMAIN records' /\ records'[p] = records[p]
    BY <2>1
  <2>7. Explained(o, disk'[o], raw[o], records')
    <3>1. o \in DOMAIN records'
      BY <2>1
    <3> QED
      BY <1>4, <2>3, <2>5, <3>1 DEF Explained
  <2>8. ASSUME NEW i \in 1 .. next - 1
        PROVE  Explained(Order[i], disk'[Order[i]], raw[Order[i]], records')
    <3>1. Explained(Order[i], disk[Order[i]], raw[Order[i]], records)
      BY <1>3
    <3>2. disk'[Order[i]] = disk[Order[i]] /\ Order[i] # o
      BY <1>2, <2>5
    <3> HIDE DEF o
    <3> QED
      BY <2>6, <3>1, <3>2 DEF Explained
  <2>9. ASSUME NEW i \in 1 .. next' - 1
        PROVE  Explained(Order[i], disk'[Order[i]], raw[Order[i]], records')
    <3>1. i = next \/ i \in 1 .. next - 1
      BY <1>0, <1>1
    <3> QED
      BY <2>7, <2>8, <3>1 DEF o
  <2>10. \A i \in 1 .. next' - 1 : Explained(Order[i], disk[Order[i]], raw[Order[i]], records)'
    BY <1>0, <2>9 DEF Explained, IsDocument
  <2> QED
    BY <1>0, <2>10 DEF DigestInv
<1>7. CASE ~(o \in scope /\ IsDocument(file))
  <2>1. UNCHANGED <<disk, records>> /\ ~IsDocument(file)
    BY <1>2, <1>7 DEF RepairOutput, CompleteInv
  <2>2. ASSUME NEW i \in 1 .. next' - 1
        PROVE  Explained(Order[i], disk[Order[i]], raw[Order[i]], records)
    <3>1. i = next \/ i \in 1 .. next - 1
      BY <1>0, <1>1
    <3>2. Explained(o, file, raw[o], records)
      BY <2>1 DEF Explained
    <3> QED
      BY <1>3, <3>1, <3>2
  <2> HIDE DEF file
  <2>3. \A i \in 1 .. next' - 1 : Explained(Order[i], disk[Order[i]], raw[Order[i]], records)'
    BY <1>0, <2>1, <2>2 DEF Explained, IsDocument
  <2> QED
    BY <1>0, <2>3 DEF DigestInv
<1> QED
  BY <1>6, <1>7

\* Each step keeps what the digests are of.
LEMMA DigestStep ==
    ASSUME TypeInv, CompleteInv, RecordsInv, LinkInv, DigestInv, [Next]_vars
    PROVE  DigestInv'
<1> SUFFICES ASSUME lane' = "role", pc' \in {"repair", "seal"} PROVE DigestInv'
  BY DEF DigestInv
<1>1. CASE AgentWrites \/ AgentReturns \/ AgentFails \/ AgentVanishes \/ PreserveFails
           \/ Close \/ Interrupt \/ Reconcile \/ UpgradeCatalog
  <2>1. pc' \notin {"repair", "seal"}
    BY <1>1, UpgradeAssumption DEF AgentWrites, AgentReturns, AgentFails, AgentVanishes,
       PreserveFails, Close, Interrupt, Reconcile, UpgradeCatalog
  <2> QED
    BY <2>1
<1>2. CASE Preserve
  <2>1. pc' = "repair" /\ next' = 1
    BY <1>2 DEF Preserve, CompleteInv
  <2>2. \A i \in 1 .. next' - 1 : FALSE
    BY <2>1
  <2> QED
    BY <2>1, <2>2 DEF DigestInv
<1>3. CASE RepairOutput
  BY <1>3, DigestRepaired DEF RepairOutput, order
<1>4. CASE Judge
  <2>1. /\ pc = "repair" /\ pc' = "seal" /\ next > Len(Order)
        /\ UNCHANGED <<lane, disk, raw, records>>
    BY <1>4 DEF Judge, order
  <2>2. \A i \in 1 .. Len(Order) : i \in 1 .. next - 1
    BY <2>1, OrderNamesOutputs, TypesOfPass
  <2>3. \A o \in Output : Explained(o, disk[o], raw[o], records)
    BY <2>1, <2>2, OrderNamesOutputs DEF DigestInv
  <2>4. (\A o \in Output : Explained(o, disk[o], raw[o], records))'
    BY <2>1, <2>3 DEF Explained, IsDocument
  <2> QED
    BY <2>1, <2>4 DEF DigestInv
<1>5. CASE SealOutput \/ UNCHANGED vars
  <2>1. UNCHANGED <<lane, disk, raw, records, pc>> /\ (pc = "repair" => next' = next)
    BY <1>5 DEF SealOutput, order, memory, vars
  <2>2. pc = "repair" => (\A i \in 1 .. next - 1 :
            Explained(Order[i], disk[Order[i]], raw[Order[i]], records))'
    BY <2>1 DEF DigestInv, Explained, IsDocument
  <2>3. pc = "seal" => (\A o \in Output : Explained(o, disk[o], raw[o], records))'
    BY <2>1 DEF DigestInv, Explained, IsDocument
  <2> QED
    BY <2>1, <2>2, <2>3 DEF DigestInv
<1>6. ASSUME NEW type \in {"packaging", "scientific"}, NEW outputs \in SUBSET Output,
             Correct(type, outputs)
      PROVE  DigestInv'
  BY <1>6 DEF Correct
<1>7. ASSUME NEW codes \in Codes, NEW outputs \in SUBSET Output, Normalize(codes, outputs)
      PROVE  DigestInv'
  BY <1>7 DEF Normalize
<1> QED
  BY <1>1, <1>2, <1>3, <1>4, <1>5, <1>6, <1>7, FileAssumption DEF Next

\* What the outputs of a closure satisfy that fit each other.
Coherent(c, rows) ==
    LET sealed == c.outputs IN
    /\ \A o \in DOMAIN sealed : \A f \in DOMAIN sealed[o] :
        LET v == sealed[o][f]
            covered == IF Bare(Catalog[1][o]) THEN Unrenamed(c, o) ELSE sealed[o]
        IN
        /\ v[1] = "at" => Row(v[2], v[3], v[4]) \in rows
        /\ f = Digest => v = <<"digest", Without(covered, {Digest})>>
    /\ \A o, p \in DOMAIN sealed :
        \A f \in DOMAIN sealed[o] \cap Owned[o].times :
            \A g \in DOMAIN sealed[p] \cap Owned[p].times : sealed[o][f] = sealed[p][g]

\* The closures of roles that succeeded fit.
CoherentInv ==
    \A k \in DOMAIN closures :
        closures[k].lane = "role" /\ closures[k].status = "succeeded" =>
            Coherent(closures[k], artifacts)

\* What fits stays so when more is stored.
LEMMA CoherentLater ==
    ASSUME NEW c, NEW rows, NEW more, rows \subseteq more, Coherent(c, rows)
    PROVE  Coherent(c, more)
BY DEF Coherent

\* A step that closes nothing takes no stored artifact away.
LEMMA CoherenceKept ==
    ASSUME CoherentInv, UNCHANGED closures, artifacts \subseteq artifacts'
    PROVE  CoherentInv'
BY CoherentLater DEF CoherentInv

\* A closure that fits can be appended.
LEMMA CoherenceAppended ==
    ASSUME ClosuresInv, CoherentInv, artifacts \subseteq artifacts',
           NEW c, closures' = Append(closures, c),
           c.lane = "role" /\ c.status = "succeeded" => Coherent(c, artifacts')
    PROVE  CoherentInv'
BY Appended, CoherentLater DEF CoherentInv

\* A normalization appends a closure of its own, and takes nothing away.
LEMMA NormalizationAppends ==
    ASSUME ClosuresInv, NEW codes, NEW outputs, Normalize(codes, outputs)
    PROVE  /\ artifacts \subseteq artifacts'
           /\ \E c : closures' = Append(closures, c) /\ c.lane = "normalize"
<1>1. artifacts \subseteq artifacts'
  BY DEF Normalize
<1>2. PICK k \in DOMAIN closures :
        LET new == Candidate(closures[k].outputs, codes) IN
        closures' = Append(closures,
           [closures[k] EXCEPT
              !.lane = "normalize", !.source = k, !.status = "succeeded",
              !.outputs = new, !.findings = {},
              !.records = [o \in DOMAIN new |-> Record(o, closures[k].outputs[o], new[o])]])
  BY Zenon DEF Normalize
<1> DEFINE new == Candidate(closures[k].outputs, codes)
           c == [closures[k] EXCEPT
                   !.lane = "normalize", !.source = k, !.status = "succeeded",
                   !.outputs = new, !.findings = {},
                   !.records = [o \in DOMAIN new |-> Record(o, closures[k].outputs[o], new[o])]]
<1>3. c.lane = "normalize"
  BY DEF ClosuresInv, ClosureFields
<1>4. closures' = Append(closures, c)
  BY <1>2, Zenon
<1> HIDE DEF c
<1> QED
  BY <1>1, <1>3, <1>4

\* What a role seals after a pass without findings fits.
LEMMA SealedIsCoherent ==
    ASSUME TypeInv, LinkInv, DigestInv, lane = "role", pc = "seal", next > Len(Order),
           verdict = "succeeded",
           NEW c, c.outputs = Accepted(disk), c.raw = raw, c.records = records
    PROVE  Coherent(c, artifacts)
<1> DEFINE sealed == Accepted(disk)
<1>0. /\ Len(Order) \in Nat /\ DOMAIN disk = Output /\ next \in 1 .. Len(Order) + 1
  BY OrderNamesOutputs, TypesOfPass
<1>1. /\ \A o \in Output : IsDocument(disk[o]) => Linked(o, disk, sidecar)
      /\ \A o \in Output : Fresh(o, disk[o], tick)
      /\ Findings(disk) = {}
      /\ \A i \in 1 .. next - 1 : Stored(Order[i], disk[Order[i]], sidecar[Order[i]], artifacts)
  BY DEF LinkInv
<1>2. \A o \in Output : Stored(o, disk[o], sidecar[o], artifacts)
  <2>1. \A i \in 1 .. Len(Order) : i \in 1 .. next - 1
    BY <1>0
  <2> QED
    BY <1>1, <2>1, OrderNamesOutputs
<1>3. \A o \in Output : IsDocument(disk[o]) <=> o \in DOMAIN sealed
  BY <1>0, <1>1, AcceptedWithoutFindings
<1>4. \A o \in DOMAIN sealed : o \in Output /\ sealed[o] = disk[o] /\ IsDocument(disk[o])
  BY <1>0 DEF Accepted, Valid
<1>5. \A p \in Output : disk[p] # Absent => IsDocument(disk[p])
  <2> SUFFICES ASSUME NEW p \in Output, disk[p] = Garbage, Garbage # Absent PROVE FALSE
    BY DEF IsDocument
  <2>1. FileFindings(p, disk[p]) # {}
    BY Zenon DEF FileFindings
  <2> QED
    BY <1>0, <1>1, <2>1 DEF Findings
<1> HIDE DEF sealed
<1>6. ASSUME NEW o \in DOMAIN sealed, NEW f \in DOMAIN sealed[o], sealed[o][f][1] = "at"
      PROVE  Row(sealed[o][f][2], sealed[o][f][3], sealed[o][f][4]) \in artifacts
  <2> DEFINE v == disk[o][f]
             p == v[2]
  <2>1. /\ v = <<"at", p, p = o, v[4]>> /\ p \in Output /\ v[4] # Absent
        /\ p = o => sidecar[o] = v[4]
        /\ p # o => disk[p] = v[4]
    BY <1>1, <1>4, <1>6 DEF Linked
  <2>2. sealed[o][f] = v
    BY <1>4
  <2> HIDE DEF v, p
  <2>3. v[2] = p /\ v[3] = (p = o)
    BY <2>1
  <2>4. CASE p = o
    <3>1. Row(o, TRUE, sidecar[o]) \in artifacts
      BY <1>2, <1>4, <2>1, <2>4 DEF Stored
    <3> QED
      BY <2>1, <2>2, <2>3, <2>4, <3>1
  <2>5. CASE p # o
    <3>1. IsDocument(disk[p])
      BY <1>5, <2>1, <2>5
    <3>2. Row(p, FALSE, disk[p]) \in artifacts
      BY <1>2, <2>1, <3>1 DEF Stored
    <3> QED
      BY <2>1, <2>2, <2>3, <2>5, <3>2
  <2> QED
    BY <2>4, <2>5
<1>7. ASSUME NEW o \in DOMAIN sealed, Digest \in DOMAIN sealed[o]
      PROVE  sealed[o][Digest] =
                <<"digest", Without(IF Bare(Catalog[1][o]) THEN Unrenamed(c, o) ELSE sealed[o],
                                    {Digest})>>
  <2>0. o \in Output /\ sealed[o] = disk[o] /\ IsDocument(disk[o]) /\ c.outputs[o] = disk[o]
    BY <1>4 DEF sealed
  <2>1. CASE Bare(Catalog[1][o])
    <3>1. Unrenamed(c, o) = Reverted(disk[o], raw[o], records[o].entries)
      BY <2>0 DEF Unrenamed, Reverted
    <3>2. disk[o][Digest] =
            <<"digest", Without(Reverted(disk[o], raw[o], records[o].entries), {Digest})>>
      BY <1>7, <2>0, <2>1 DEF DigestInv, Explained
    <3> QED
      BY <2>0, <2>1, <3>1, <3>2
  <2>2. CASE ~Bare(Catalog[1][o])
    <3>1. DigestSettled(disk[o])
      BY <1>1, <2>0, <2>2 DEF Fresh
    <3> QED
      BY <1>7, <2>0, <2>2, <3>1 DEF DigestSettled
  <2> QED
    BY <2>1, <2>2
<1>8. \A o \in DOMAIN sealed : \A f \in DOMAIN sealed[o] \cap Owned[o].times :
        sealed[o][f] = <<"time", tick>>
  BY <1>1, <1>4 DEF Fresh
<1>9. c.outputs = sealed
  BY DEF sealed
<1> QED
  BY <1>6, <1>7, <1>8, <1>9 DEF Coherent

\* Each step keeps what was closed, and a role closes what fits.
LEMMA CoherenceStep ==
    TypeInv /\ ClosuresInv /\ LinkInv /\ DigestInv /\ CoherentInv /\ [Next]_vars => CoherentInv'
<1> SUFFICES ASSUME TypeInv, ClosuresInv, LinkInv, DigestInv, CoherentInv, [Next]_vars
             PROVE  CoherentInv'
  OBVIOUS
<1>1. CASE AgentWrites \/ AgentReturns \/ AgentFails \/ AgentVanishes \/ Interrupt \/ Reconcile
           \/ PreserveFails \/ Preserve \/ RepairOutput \/ Judge \/ UpgradeCatalog
  <2>1. UNCHANGED closures /\ artifacts' = artifacts
    BY <1>1 DEF AgentWrites, AgentReturns, AgentFails, AgentVanishes, Interrupt, Reconcile,
       PreserveFails, Preserve, RepairOutput, Judge, UpgradeCatalog, store
  <2> QED
    BY <2>1, CoherenceKept
<1>2. CASE SealOutput
  <2>1. UNCHANGED closures /\ artifacts \subseteq artifacts'
    BY <1>2 DEF SealOutput
  <2> QED
    BY <2>1, CoherenceKept
<1>3. CASE Close
  <2> DEFINE c == [lane |-> lane, source |-> source, scope |-> scope,
                   status |-> IF pc = "seal" THEN verdict ELSE "failed",
                   outputs |-> IF pc = "seal" THEN Accepted(disk) ELSE Nothing,
                   raw |-> raw, records |-> records, findings |-> findings]
  <2>1. /\ UNCHANGED artifacts /\ closures' = Append(closures, c)
        /\ pc = "seal" => next > Len(Order)
    BY <1>3 DEF Close
  <2>2. ASSUME c.lane = "role", c.status = "succeeded" PROVE Coherent(c, artifacts')
    <3>1. pc = "seal" /\ lane = "role" /\ verdict = "succeeded"
      BY <2>2
    <3>2. c.outputs = Accepted(disk) /\ c.raw = raw /\ c.records = records
      BY <3>1
    <3>3. Coherent(c, artifacts)
      <4> HIDE DEF c
      <4> QED
        BY <2>1, <3>1, <3>2, SealedIsCoherent
    <3> HIDE DEF c
    <3> QED
      BY <2>1, <3>3
  <2> HIDE DEF c
  <2> QED
    BY <2>1, <2>2, CoherenceAppended
<1>4. ASSUME NEW type \in {"packaging", "scientific"}, NEW outputs \in SUBSET Output,
             Correct(type, outputs)
      PROVE  CoherentInv'
  <2>1. UNCHANGED closures /\ artifacts' = artifacts
    BY <1>4 DEF Correct, store
  <2> QED
    BY <2>1, CoherenceKept
<1>5. ASSUME NEW codes \in Codes, NEW outputs \in SUBSET Output, Normalize(codes, outputs)
      PROVE  CoherentInv'
  <2>1. PICK c : closures' = Append(closures, c) /\ c.lane = "normalize"
    BY <1>5, NormalizationAppends
  <2>2. artifacts \subseteq artifacts' /\ c.lane # "role"
    BY <1>5, <2>1, NormalizationAppends
  <2> QED
    BY <2>1, <2>2, CoherenceAppended
<1>6. CASE UNCHANGED vars
  <2>1. UNCHANGED closures /\ artifacts' = artifacts
    BY <1>6 DEF vars, store
  <2> QED
    BY <2>1, CoherenceKept
<1> QED
  BY <1>1, <1>2, <1>3, <1>4, <1>5, <1>6, FileAssumption DEF Next

\* The sealed documents of a role that succeeded fit each other, although its
\* files were rewritten one by one, perhaps by several passes: under contracts
\* that declare views before the records that point at them, and as long as no
\* package is installed while an interrupted role waits
\* (_fix_self_referential_hashes, _stamp_output_pointer).
THEOREM ClosuresAreCoherent ==
    ASSUME ViewsComeFirst, Upgradable \subseteq {"idle"}
    PROVE  Spec => []ClosureIsCoherent
<1>1. Spec => []CompleteInv
  BY TypesHold, CompleteInit, CompleteStep, PTL DEF Spec
<1>2. Init => LinkInv /\ CoherentInv
  <2>1. Init => DOMAIN closures = {}
    <3>1. Init => closures = <<>>
      BY Zenon DEF Init
    <3> QED
      BY <3>1
  <2> QED
    BY <2>1, LinkInit DEF CoherentInv
<1>3. TypeInv /\ ClosuresInv /\ CompleteInv /\ LinkInv /\ [Next]_vars => LinkInv'
  BY LinkStep
<1>6. TypeInv /\ CompleteInv /\ RecordsInv /\ LinkInv /\ DigestInv /\ [Next]_vars => DigestInv'
  BY DigestStep
<1>7. TypeInv /\ RecordsInv /\ [Next]_vars => RecordsInv'
  BY RecordsStep
<1>5. Spec => [](LinkInv /\ RecordsInv /\ DigestInv)
  BY <1>1, <1>2, <1>3, <1>6, <1>7, TypesHold, DiscloseInit, DigestInit, PTL DEF Spec
<1>4. CoherentInv => ClosureIsCoherent
  BY DEF CoherentInv, Coherent, ClosureIsCoherent
<1> QED
  BY <1>1, <1>2, <1>3, <1>4, <1>5, TypesHold, CoherenceStep, PTL DEF Spec

=============================================================================
