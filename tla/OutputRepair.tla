---------------------------- MODULE OutputRepair ----------------------------
(***************************************************************************)
(* What happens to the files of one role between the return of its agent   *)
(* and the closure: they are preserved, repaired in place, validated and   *)
(* sealed, and the closure discloses what was changed.  The server may die *)
(* or a write may fail at any of these steps, and the same files are then  *)
(* closed again.  Later the sealed outputs are corrected: by an agent that *)
(* works on copies of them, or by a normalization.                         *)
(*                                                                         *)
(* A document is a function from its fields to values, nested objects and  *)
(* lists being flattened.  A value is a pair of a kind and what is told    *)
(* apart: text, names, times and digests; "to" is a pointer that an agent  *)
(* declared at a file, "at" one that names stored bytes.  Bytes and their  *)
(* digest are the document itself.  Commands, attempts and the lanes of    *)
(* corrections are in Correction.                                          *)
(***************************************************************************)
EXTENDS Naturals, Sequences, FiniteSets, SequencesExt

CONSTANTS
    Order,        \* the outputs of the role, in the order of their declaration
    Required,     \* the outputs that must be there
    Catalog,      \* the schema catalogs, in the order of their installation
    Owned,        \* for each output, the fields that the harness owns
    Pattern,      \* the names that match the pattern of identifiers
    Sane,         \* the name that the sanitizer makes of a name
    Derived,      \* the name that is derived for a missing identifier
    Writes,       \* the files that an agent may write for each output
    Changes,      \* what it may change in a document that it was given
    Asked,        \* the sets of outputs that corrections are asked for
    Blamed,       \* the fields that a report on a submission may point at
    Codes,        \* the sets of transformations asked of a normalization
    MaxEvents,    \* bound: closures of the role, crashes and failed writes together
    Upgradable,   \* where another version of the package may be installed
    Absent,       \* there is no file
    Garbage       \* a file that is not JSON

Output == ToSet(Order)

\* A plan declares an output once.
ASSUME OrderAssumption == Order \in Seq(Output) /\ IsInjective(Order)
\* A schema names the fields it declares, those it requires at the top and in
\* nested objects, those that hold identifiers and those, at the top, that hold
\* times, and says whether other fields are refused.  It requires those times.
ASSUME CatalogAssumption ==
    /\ Catalog \in Seq(ToSet(Catalog)) /\ Catalog # <<>>
    /\ \A v \in DOMAIN Catalog : \A o \in Output :
        LET s == Catalog[v][o] IN
        /\ s.required \cup s.ids \subseteq s.declared /\ s.times \subseteq s.required
        /\ s.strict \in BOOLEAN
\* What the sanitizer has made of a name is left alone by it, and so is a
\* derived name, which matches the pattern.
ASSUME SaneAssumption ==
    /\ \A n \in DOMAIN Sane : Sane[n] \in DOMAIN Sane /\ Sane[Sane[n]] = Sane[n]
    /\ Derived \in DOMAIN Sane \cap Pattern
ASSUME BoundAssumption == MaxEvents \in Nat
ASSUME FileAssumption == Required \subseteq Output /\ Asked \subseteq SUBSET Output
ASSUME UpgradeAssumption == Upgradable \subseteq {"idle", "vanished"}

VARIABLES
    catalog,     \* the schema catalog that is installed
    disk,        \* the files of the execution, output by output
    sidecar,     \* the <output>.as-authored files beside them
    authored,    \* what the agent left; kept nowhere but in this model
    snapshots,   \* the archives of workspaces in the artifact store
    artifacts,   \* the artifact rows of outputs and of authored copies
    closures,    \* the closures of the role, oldest first
    pc,          \* where the execution is
    lane,        \* who works: the role, or a correction of some type
    scope,       \* the outputs it may change
    permitted,   \* the fields a packaging correction may change
    source,      \* the closure that is corrected
    next,        \* the position in Order of the output at hand
    raw,         \* the files as they were preserved
    records,     \* the transformation record of each repaired output
    findings,    \* what the validation found
    verdict,     \* the status to close with
    tick,        \* counts the repair passes; their time
    faults       \* crashes and failed writes so far

store == <<snapshots, artifacts, closures>>
order == <<lane, scope, permitted, source>>
memory == <<next, raw, records, findings, verdict>>
vars == <<catalog, disk, sidecar, authored, store, pc, order, memory, tick, faults>>

Digest == "content_sha256"

Schema(o) == Catalog[catalog][o]
\* The digest is no time, and no identifier is both filled and taken out.
ASSUME OwnedAssumption ==
    \A o \in Output :
        /\ Digest \notin Owned[o].times
        /\ Owned[o].filled \cap (Owned[o].generation \cup Owned[o].withheld) = {}

OwnedFields(o) ==
    Owned[o].facts \cup Owned[o].times \cup Owned[o].filled
      \cup Owned[o].generation \cup Owned[o].withheld \cup {Digest}

IsDocument(file) == file \notin {Absent, Garbage}

\* A document whose names the sanitizer knows, without a time after t.
WellFormed(d, t) ==
    /\ d = [f \in DOMAIN d |-> d[f]]
    /\ \A f \in DOMAIN d :
        /\ d[f][1] = "name" => \E n \in DOMAIN Sane : d[f] = <<"name", n>>
        /\ d[f][1] = "time" => d[f][2] \in 0 .. t

\* The times that an agent writes are those of no pass.
ASSUME WriteAssumption ==
    \A o \in Output :
        /\ \A file \in Writes[o] : IsDocument(file) => WellFormed(file, 0)
        /\ \A c \in Changes[o] : WellFormed(c, 0)
\* An agent points at a file by its name.  An address that it writes itself is
\* text, which nothing stamps.
ASSUME PointerAssumption ==
    \A o \in Output : \A file \in Writes[o] : IsDocument(file) =>
        \A f \in DOMAIN file :
            /\ file[f][1] # "at"
            /\ file[f][1] = "to" => file[f] = <<"to", file[f][2]>>

\* The document without some of its fields.
Without(d, fields) == Restrict(d, DOMAIN d \ fields)

\* The digest covers the document but itself.
WithDigest(d) ==
    [f \in DOMAIN d \cup {Digest} |->
        IF f = Digest THEN <<"digest", Without(d, {Digest})>> ELSE d[f]]

-----------------------------------------------------------------------------
\* The fields that the harness owns.

\* A time of its own for each output.
PopulateInTurn(o, d, t) ==
    LET kept == DOMAIN d \ (Owned[o].generation \cup Owned[o].withheld)
        Value(f) == IF f \in Owned[o].times THEN <<"time", t + next>>
                    ELSE IF f \in Owned[o].facts THEN <<"fact">> ELSE d[f]
    IN  WithDigest([f \in kept \cup Owned[o].facts \cup Owned[o].times |-> Value(f)])

\* Facts of the run and times are overwritten whatever the agent wrote.  A
\* missing identifier is derived.  What only a publication may assign, and what
\* the run has no fact for, is taken out.
Populate(o, d, t) ==
    LET own == Owned[o]
        kept == DOMAIN d \ (own.generation \cup own.withheld)
        Blank(f) == f \notin kept \/ d[f] \in {<<"empty">>, <<"null">>}
        Value(f) ==
            IF f \in own.times THEN <<"time", t>>
            ELSE IF f \in own.facts THEN <<"fact">>
            ELSE IF f \in own.filled /\ Blank(f) THEN <<"name", Derived>> ELSE d[f]
    IN  WithDigest([f \in kept \cup own.facts \cup own.times \cup own.filled |-> Value(f)])

-----------------------------------------------------------------------------
\* The mechanical repairs.

AddTimes(s, d, t) ==
    [f \in DOMAIN d \cup s.times |-> IF f \in DOMAIN d THEN d[f] ELSE <<"time", t>>]

StripUndeclared(s, d) == IF s.strict THEN Restrict(d, DOMAIN d \cap s.declared) ELSE d

StripNulls(s, d) == Without(d, {f \in DOMAIN d \ s.required : d[f] = <<"null">>})

\* The names at positions of identifiers that do not match the pattern.
Renamed(s, d) ==
    {d[f][2] : f \in {g \in DOMAIN d \cap s.ids : d[g][1] = "name" /\ d[g][2] \notin Pattern}}

\* They are replaced wherever they occur in the document.
Rewritten(d, names) ==
    [f \in DOMAIN d |->
        IF d[f][1] = "name" /\ d[f][2] \in names THEN <<"name", Sane[d[f][2]]>> ELSE d[f]]

\* A field that some nested object requires is kept everywhere.
StripEmpty(s, d) ==
    Without(d, {f \in DOMAIN d \ (s.required \cup s.nested) : d[f] = <<"empty">>})

\* Defect: it receives the bytes that the agent left.
StampedWithRaw(o, d, files, plan) ==
    [f \in DOMAIN d |->
        IF d[f][1] = "to" /\ d[f][2] \in plan /\ files[d[f][2]] # Absent
        THEN <<"at", d[f][2], d[f][2] = o, raw[d[f][2]]>>
        ELSE d[f]]

\* A pointer at a file of the plan receives the bytes that the file has now.
\* Its own file has yet to be rewritten: there the bytes of the agent are meant,
\* which get an identity of their own.
Stamped(o, d, files, plan) ==
    [f \in DOMAIN d |->
        IF d[f][1] = "to" /\ d[f][2] \in plan /\ files[d[f][2]] # Absent
        THEN <<"at", d[f][2], d[f][2] = o, files[d[f][2]]>>
        ELSE d[f]]

\* A pointer at the own file asks for a copy of it.
PointsAtItself(o, d) == o \in scope /\ \E f \in DOMAIN d : d[f] = <<"to", o>>

Hashed(d) == IF Digest \in DOMAIN d THEN WithDigest(d) ELSE d

\* A schema with nothing to strip and no times: only names are repaired, and
\* the digest stays that of the populated document.  (The schema of manuscripts
\* is one: it has its properties in an allOf, where the repair does not look.)
Bare(s) == s.times = {} /\ ~s.strict

\* The fields of an item, and its names.
Tidied(s, d, t) ==
    LET fixed == IF Bare(s) THEN d ELSE StripNulls(s, StripUndeclared(s, AddTimes(s, d, t)))
        named == Rewritten(fixed, Renamed(s, fixed))
    IN  IF Bare(s) THEN named ELSE StripEmpty(s, named)

\* Defect: pointers are stamped after the digest.
RepairedHashFirst(o, d, files, t) ==
    LET s == Schema(o)
        tidy == Tidied(s, Populate(o, d, t), t)
    IN  IF Bare(s) THEN tidy ELSE Stamped(o, Hashed(tidy), files, scope)

\* The repairs of a role's output.  The digest comes last.
Repaired(o, d, files, t) ==
    LET s == Schema(o)
        tidy == Tidied(s, Populate(o, d, t), t)
    IN  IF Bare(s) THEN tidy ELSE Hashed(Stamped(o, tidy, files, scope))

\* Those repairs among them that a normalization was asked for.  It knows no
\* facts of the run and stamps no pointers.
Normalized(o, d, t, codes) ==
    LET s == Schema(o)
        On(code, after, before) == IF code \in codes /\ ~Bare(s) THEN after ELSE before
        d1 == On("timestamp_injection", AddTimes(s, d, t), d)
        d2 == On("additional_properties_strip", StripUndeclared(s, d1), d1)
        d3 == On("null_strip", StripNulls(s, d2), d2)
        d4 == IF "id_sanitization" \in codes THEN Rewritten(d3, Renamed(s, d3)) ELSE d3
        d5 == On("empty_string_strip", StripEmpty(s, d4), d4)
    IN  On("hash_recomputation", Hashed(d5), d5)

-----------------------------------------------------------------------------
\* The disclosure.

\* The fields in which two documents differ.
Changed(d, e) ==
    {f \in DOMAIN d \cup DOMAIN e :
        f \notin DOMAIN d \/ f \notin DOMAIN e \/ d[f] # e[f]}

\* The fields that are told by their names to hold a time.
Timestamps(o) == Schema(o).times \cup Owned[o].times \cup {"published_at"}

CodeOfRemoval(o, f, value) ==
    IF f \in Owned[o].generation THEN "generation_identity_strip"
    ELSE IF value = <<"null">> THEN "null_strip"
    ELSE IF value = <<"empty">> /\ f \notin Timestamps(o) THEN "empty_string_strip"
    ELSE "additional_properties_strip"

CodeOfAddition(o, f) ==
    CASE f \in Timestamps(o) -> "timestamp_injection"
      [] f = "schema_version" -> "schema_version_injection"
      [] OTHER -> "field_injection"

CodeOfChange(o, f, before, after) ==
    IF before[1] = "name" /\ after = <<"name", Sane[before[2]]>> /\ before[2] \notin Pattern
    THEN "id_sanitization"
    ELSE IF f = Digest THEN "hash_recomputation"
    ELSE IF f \in OwnedFields(o) THEN "harness_population_overwrite"
    ELSE "value_rewrite"

\* One entry for each field that changed, with the kind of the change.
Entries(o, before, after) ==
    {[field |-> f,
      code |-> IF f \notin DOMAIN after THEN CodeOfRemoval(o, f, before[f])
               ELSE IF f \notin DOMAIN before THEN CodeOfAddition(o, f)
               ELSE CodeOfChange(o, f, before[f], after[f])] :
        f \in Changed(before, after)}

\* Defect: what the harness fills in is not told.
RecordOfPopulated(o, before, after) ==
    LET entries == Entries(o, Populate(o, before, tick), after)
    IN  [before |-> before, after |-> after, entries |-> entries,
         unchanged |-> \A e \in entries : e.code = "hash_recomputation"]

\* What an output was, what it has become, and the entries.
Record(o, before, after) ==
    LET entries == Entries(o, before, after)
    IN  [before |-> before, after |-> after, entries |-> entries,
         unchanged |-> \A e \in entries : e.code = "hash_recomputation"]

-----------------------------------------------------------------------------
\* The validation of the files of a role.

Illegal(s, f, value) ==
    \/ value[1] \in {"null", "empty", "to"}
    \/ f \in s.ids /\ value[1] = "name" /\ value[2] \notin Pattern

\* The fields that violate the schema.
Violations(o, d) ==
    LET s == Schema(o) IN
    (s.required \ DOMAIN d)
      \cup (IF s.strict THEN DOMAIN d \ s.declared ELSE {})
      \cup {f \in DOMAIN d \cap s.declared : Illegal(s, f, d[f])}

\* A finding is an output with a field of it, or with nothing for the file.
FileFindings(o, file) ==
    CASE file = Absent -> IF o \in Required THEN {<<o, "">>} ELSE {}
      [] file = Garbage -> {<<o, "">>}
      [] OTHER -> {<<o, f>> : f \in Violations(o, file)}

Findings(files) == UNION {FileFindings(o, files[o]) : o \in DOMAIN files}

Valid(o, file) == IsDocument(file) /\ Violations(o, file) = {}

\* No correction can mend a field that the harness fills.
Operational(finding) == finding[2] \in OwnedFields(finding[1])

Accepted(files) == [o \in {p \in DOMAIN files : Valid(p, files[p])} |-> files[o]]

-----------------------------------------------------------------------------
\* The execution of the role, and of a correction of it.

Nothing == [o \in {} |-> Absent]

\* The bound leaves room for another closure, or for a mishap and a closure.
RoomForClosure == Len(closures) + faults < MaxEvents
RoomForMishap == Len(closures) + faults + 1 < MaxEvents

\* What a pass has in memory is gone.
Forget ==
    /\ next' = 1 /\ raw' = Nothing /\ records' = Nothing
    /\ findings' = {} /\ verdict' = ""

Init ==
    /\ catalog = 1
    /\ disk = [o \in Output |-> Absent] /\ sidecar = [o \in Output |-> Absent]
    /\ authored = disk
    /\ snapshots = {} /\ artifacts = {} /\ closures = <<>>
    /\ pc = "agent"
    /\ lane = "role" /\ scope = Output /\ permitted = {} /\ source = 0
    /\ next = 1 /\ raw = Nothing /\ records = Nothing /\ findings = {} /\ verdict = ""
    /\ tick = 0 /\ faults = 0

\* The document with some fields changed or added.
With(d, c) == [f \in DOMAIN d \cup DOMAIN c |-> IF f \in DOMAIN c THEN c[f] ELSE d[f]]

\* An agent writes a file that is not there, or fails to; it leaves a document,
\* or changes or adds a field of it.
Edits(o, file) ==
    IF IsDocument(file)
    THEN {file} \cup {With(file, c) : c \in Changes[o]}
    ELSE Writes[o] \cup {file}

AgentWrites ==
    /\ pc = "agent" /\ next <= Len(Order)
    /\ \E file \in Edits(Order[next], disk[Order[next]]) : disk' = [disk EXCEPT ![Order[next]] = file]
    /\ next' = next + 1
    /\ UNCHANGED <<catalog, sidecar, authored, store, pc, order, raw, records, findings,
                   verdict, tick, faults>>

AgentReturns ==
    /\ pc = "agent" /\ next > Len(Order)
    /\ authored' = disk
    /\ pc' = "returned"
    /\ Forget
    /\ UNCHANGED <<catalog, disk, sidecar, store, order, tick, faults>>

\* The agent ends with an error: the files are preserved if that is possible,
\* and nothing is sealed.
AgentFails ==
    /\ pc = "agent"
    /\ authored' = disk
    /\ \/ snapshots' = snapshots \cup {disk} /\ UNCHANGED faults
       \/ RoomForMishap /\ faults' = faults + 1 /\ UNCHANGED snapshots
    /\ pc' = "close"
    /\ Forget
    /\ UNCHANGED <<catalog, disk, sidecar, artifacts, closures, order, tick>>

\* The process is gone when the server is back, whatever it had written.
AgentVanishes ==
    /\ pc = "agent" /\ RoomForMishap
    /\ faults' = faults + 1
    /\ authored' = disk
    /\ pc' = IF lane = "role" THEN "vanished" ELSE "idle"
    /\ Forget
    /\ UNCHANGED <<catalog, disk, sidecar, store, order, tick>>

\* Defect: the archive is made of the repaired files.
PreserveLate ==
    /\ pc = "returned"
    /\ raw' = disk
    /\ pc' = "repair" /\ tick' = tick + 1
    /\ snapshots' = IF closures = <<>> THEN snapshots ELSE snapshots \cup {disk}
    /\ UNCHANGED <<catalog, disk, sidecar, authored, artifacts, closures, order, next,
                   records, findings, verdict, faults>>

\* The workspace is archived before anything is rewritten in it.
Preserve ==
    /\ pc = "returned"
    /\ snapshots' = snapshots \cup {disk}
    /\ raw' = disk
    /\ pc' = "repair" /\ tick' = tick + 1
    /\ UNCHANGED <<catalog, disk, sidecar, authored, artifacts, closures, order, next,
                   records, findings, verdict, faults>>

\* Without the archive the execution fails and the files are left alone.
PreserveFails ==
    /\ pc = "returned" /\ RoomForMishap
    /\ faults' = faults + 1
    /\ pc' = "close" /\ verdict' = "failed"
    /\ UNCHANGED <<catalog, disk, sidecar, authored, store, order, next, raw, records,
                   findings, tick>>

\* One output of the plan is repaired, and rewritten on disk at once.
RepairOutput ==
    /\ pc = "repair" /\ next <= Len(Order)
    /\ LET o == Order[next]
           file == disk[o]
           repaired == Repaired(o, file, disk, tick)
       IN  IF o \in scope /\ IsDocument(file)
           THEN /\ disk' = [disk EXCEPT ![o] = repaired]
                /\ sidecar' = IF PointsAtItself(o, file)
                              THEN [sidecar EXCEPT ![o] = file] ELSE sidecar
                /\ records' = [p \in DOMAIN records \cup {o} |->
                                  IF p = o THEN Record(o, file, repaired) ELSE records[p]]
           ELSE UNCHANGED <<disk, sidecar, records>>
    /\ next' = next + 1
    /\ UNCHANGED <<catalog, authored, store, pc, order, raw, findings, verdict, tick, faults>>

\* What a correction changed beyond what it was allowed to: an output outside
\* of its scope, or, for a packaging correction, another field of a document
\* that it was given.
Strayed ==
    LET given == closures[source].outputs
        Given(o) == IF o \in DOMAIN given THEN given[o] ELSE Absent
        changed == {o \in Output : raw[o] # Given(o)}
        Beyond(o) == IF IsDocument(raw[o]) THEN Changed(given[o], raw[o]) \ permitted ELSE {""}
    IN  {<<o, "">> : o \in changed \ scope} \cup
        (IF lane = "packaging"
         THEN UNION {{<<o, f>> : f \in Beyond(o)} : o \in changed \cap scope \cap DOMAIN given}
         ELSE {})

\* Defect: a correction that passes is not compared with what it was given.
JudgeScope ==
    /\ pc = "repair" /\ next > Len(Order)
    /\ findings' = Findings(disk)
    /\ verdict' = IF findings' = {} THEN "succeeded" ELSE "failed"
    /\ pc' = "seal" /\ next' = 1
    /\ UNCHANGED <<catalog, disk, sidecar, authored, store, order, raw, records, tick, faults>>

\* The files are validated as they are now.  A correction that passes is also
\* compared with what it was given, by what its agent left.
Judge ==
    /\ pc = "repair" /\ next > Len(Order)
    /\ LET codes == Findings(disk)
           strayed == IF lane = "role" \/ codes # {} THEN {} ELSE Strayed
       IN  /\ findings' = codes \cup strayed
           /\ verdict' = IF codes \cup strayed = {} THEN "succeeded" ELSE "failed"
    /\ pc' = "seal" /\ next' = 1
    /\ UNCHANGED <<catalog, disk, sidecar, authored, store, order, raw, records, tick, faults>>

Row(o, ofAgent, bytes) == [output |-> o, ofAgent |-> ofAgent, bytes |-> bytes]

\* A valid output is stored, with the copy of what the agent wrote if there is
\* one.  Other outputs are not.
SealOutput ==
    /\ pc = "seal" /\ next <= Len(Order)
    /\ LET o == Order[next] IN
        artifacts' = artifacts \cup
            (IF ~Valid(o, disk[o]) THEN {}
             ELSE {Row(o, FALSE, disk[o])} \cup
                  (IF sidecar[o] = Absent THEN {} ELSE {Row(o, TRUE, sidecar[o])}))
    /\ next' = next + 1
    /\ UNCHANGED <<catalog, disk, sidecar, authored, snapshots, closures, pc, order, raw,
                   records, findings, verdict, tick, faults>>

\* The closure document is stored and the execution closed.
Close ==
    /\ \/ pc = "seal" /\ next > Len(Order)
       \/ pc = "close"
    /\ RoomForClosure
    /\ closures' = Append(closures,
            [lane |-> lane, source |-> source, scope |-> scope,
             status |-> IF pc = "seal" THEN verdict ELSE "failed",
             outputs |-> IF pc = "seal" THEN Accepted(disk) ELSE Nothing,
             raw |-> raw, records |-> records, findings |-> findings])
    /\ pc' = "idle"
    /\ Forget
    /\ UNCHANGED <<catalog, disk, sidecar, authored, snapshots, artifacts, order, tick, faults>>

\* The server dies, or a write of the closing fails.  The files stay.  A role
\* is reconciled by a later pass; a correction is lost.
Interrupt ==
    /\ pc \in {"returned", "repair", "seal", "close"} /\ RoomForMishap
    /\ faults' = faults + 1
    /\ pc' = IF lane = "role" THEN "vanished" ELSE "idle"
    /\ Forget
    /\ UNCHANGED <<catalog, disk, sidecar, authored, store, order, tick>>

\* A process that vanished counts as completed when all its files are there.
Reconcile ==
    /\ pc = "vanished"
    /\ IF \A o \in Output : disk[o] # Absent
       THEN pc' = "returned" /\ UNCHANGED snapshots
       ELSE /\ pc' = "close"
            /\ snapshots' = snapshots \cup {disk}
    /\ UNCHANGED <<catalog, disk, sidecar, authored, artifacts, closures, order, memory,
                   tick, faults>>

\* Another version of the package is installed while the server is down.
UpgradeCatalog ==
    /\ pc \in Upgradable /\ catalog < Len(Catalog)
    /\ catalog' = catalog + 1
    /\ UNCHANGED <<disk, sidecar, authored, store, pc, order, memory, tick, faults>>

-----------------------------------------------------------------------------
\* Corrections.

Failed(k) == closures[k].status = "failed"

\* The newest failed closure, or else the newest one; rather one that sealed
\* the outputs that are asked for.
Target(k, outputs) ==
    LET failed == {j \in DOMAIN closures : Failed(j)}
        pool == IF failed # {} THEN failed ELSE DOMAIN closures
        covering == {j \in pool : outputs \subseteq DOMAIN closures[j].outputs}
        candidates == IF covering # {} THEN covering ELSE pool
    IN  k \in candidates /\ \A j \in candidates : j <= k

\* Any output of a closure that failed, the sealed ones of another.
InScope(k, outputs) ==
    /\ outputs # {}
    /\ outputs \subseteq IF Failed(k) THEN Output ELSE DOMAIN closures[k].outputs

\* Some finding of the failed role can be corrected; or the role was accepted,
\* and it is the submission that is reported on.
Correctable ==
    \/ \E k \in DOMAIN closures : ~Failed(k)
    \/ \E e \in closures[1].findings : ~Operational(e)

\* The fields that findings point at, and those of the harness, in any output.
Permitted(k, blamed) ==
    ((IF closures[k].findings # {} THEN {e[2] : e \in closures[k].findings} ELSE blamed)
       \cup UNION {OwnedFields(o) : o \in Output}) \ {""}

\* The agent gets a directory with the sealed outputs of the closure in it.
Correct(type, outputs) ==
    /\ pc = "idle" /\ RoomForClosure
    /\ Correctable
    /\ \E k \in DOMAIN closures :
        /\ Target(k, outputs) /\ InScope(k, outputs)
        /\ source' = k
        /\ \E blamed \in Blamed :
            permitted' = IF type = "packaging" THEN Permitted(k, blamed) ELSE {}
        /\ disk' = [o \in Output |-> IF o \in DOMAIN closures[k].outputs
                                     THEN closures[k].outputs[o] ELSE Absent]
    /\ lane' = type /\ scope' = outputs
    /\ sidecar' = [o \in Output |-> Absent]
    /\ authored' = disk'
    /\ pc' = "agent"
    /\ Forget
    /\ UNCHANGED <<catalog, store, tick, faults>>

\* A declared pointer at another output of the closure cannot be stamped here.
PointsAtSibling(outputs) ==
    \E o \in DOMAIN outputs : \E f \in DOMAIN outputs[o] :
        \E p \in DOMAIN outputs \ {o} : outputs[o][f] = <<"to", p>>

\* The outputs of a closure after the transformations.
Candidate(outputs, codes) ==
    [o \in DOMAIN outputs |-> Normalized(o, outputs[o], tick + 1, codes)]

\* What the dry run of a normalization would transform.
Preview(k, codes) ==
    {o \in DOMAIN closures[k].outputs :
        Normalized(o, closures[k].outputs[o], tick + 1, codes) # closures[k].outputs[o]}

\* A normalization that leaves no finding; others are refused after their dry
\* run.  The outputs it changed are stored, and the closure that it writes is
\* the old one with these in their place.
Normalize(codes, outputs) ==
    /\ pc = "idle" /\ RoomForClosure
    /\ Correctable
    /\ \E k \in DOMAIN closures :
        LET old == closures[k]
            new == Candidate(old.outputs, codes)
        IN  /\ Target(k, outputs) /\ InScope(k, outputs)
            /\ ~PointsAtSibling(old.outputs)
            /\ Required \subseteq DOMAIN new /\ \A o \in DOMAIN new : Valid(o, new[o])
            /\ artifacts' = artifacts \cup
                {Row(o, FALSE, new[o]) : o \in {p \in DOMAIN new : new[p] # old.outputs[p]}}
            /\ closures' = Append(closures,
                [old EXCEPT !.lane = "normalize", !.source = k, !.status = "succeeded",
                            !.outputs = new, !.findings = {},
                            !.records = [o \in DOMAIN new |-> Record(o, old.outputs[o], new[o])]])
    /\ tick' = tick + 1
    /\ UNCHANGED <<catalog, disk, sidecar, authored, snapshots, pc, order, memory, faults>>

Next ==
    \/ AgentWrites \/ AgentReturns \/ AgentFails \/ AgentVanishes
    \/ Preserve \/ PreserveFails
    \/ RepairOutput \/ Judge \/ SealOutput \/ Close
    \/ Interrupt \/ Reconcile \/ UpgradeCatalog
    \/ \E type \in {"packaging", "scientific"}, outputs \in Asked : Correct(type, outputs)
    \/ \E codes \in Codes, outputs \in Asked : Normalize(codes, outputs)

Spec == Init /\ [][Next]_vars

-----------------------------------------------------------------------------
\* Properties.

\* The types; a stamped time is that of a repair pass (_validate_and_close).
TypeOK ==
    /\ catalog \in DOMAIN Catalog
    /\ DOMAIN disk = Output /\ DOMAIN sidecar = Output /\ DOMAIN authored = Output
    /\ pc \in {"agent", "returned", "repair", "seal", "close", "vanished", "idle"}
    /\ lane \in {"role", "packaging", "scientific"}
    /\ scope \subseteq Output /\ source \in 0 .. Len(closures)
    /\ next \in 1 .. Len(Order) + 1
    /\ verdict \in {"", "succeeded", "failed"}
    /\ \A k \in DOMAIN closures : \A o \in DOMAIN closures[k].outputs :
        LET d == closures[k].outputs[o] IN
        /\ o \in Output
        /\ \A f \in DOMAIN d : d[f][1] = "time" => d[f][2] \in 0 .. tick

\* Whatever crashes, fails or is repeated, what the agent left is still there:
\* on disk as it was, or in an archive ("repair and validation failure must
\* never destroy the agent's original bytes", _validate_and_close).
AuthoredIsRecoverable ==
    pc # "agent" => disk = authored \/ authored \in snapshots

\* The record of an output has an entry for each field in which the sealed
\* document differs from the preserved one, or from the one that was corrected,
\* and for no other; what has no record was not touched
\* (_classify_transformations, normalize_closure_outputs).
DisclosureIsExact ==
    \A k \in DOMAIN closures : \A o \in DOMAIN closures[k].outputs :
        LET c == closures[k]
            before == IF c.lane = "normalize" THEN closures[c.source].outputs[o] ELSE c.raw[o]
            differs == Changed(before, c.outputs[o])
        IN  IF o \in DOMAIN c.records
            THEN /\ differs = {e.field : e \in c.records[o].entries}
                 /\ c.records[o].unchanged => differs \subseteq {Digest}
                 /\ differs = {} => c.records[o].unchanged
            ELSE differs = {}

\* What the contracts and schemas are expected to be like, and no code enforces:
\* the next property holds as long as they are.
\* A view has no field of those that the harness assigns anew or takes out, and
\* no pointer at a file.
IsView(o) ==
    LET s == Catalog[1][o]
        own == Owned[o]
    IN  /\ s.strict
        /\ s.declared \cap (own.times \cup own.filled \cup own.generation
                            \cup own.withheld \cup {Digest}) = {}
        /\ \A file \in Writes[o] : IsDocument(file) =>
            \A f \in DOMAIN file \cap s.declared : file[f][1] # "to"

\* A record points at itself and at views that are declared before it.
ViewsComeFirst ==
    \A o \in Output : \A file \in Writes[o] : IsDocument(file) =>
        \A f \in DOMAIN file : file[f][1] = "to" /\ file[f][2] \in Output \ {o} =>
            /\ IsView(file[f][2])
            /\ \E j \in DOMAIN Order : \E i \in 1 .. j - 1 :
                Order[i] = file[f][2] /\ Order[j] = o

\* The sealed document of a closure with its identifiers as the agent wrote them.
Unrenamed(c, o) ==
    [f \in DOMAIN c.outputs[o] |->
        IF \E e \in c.records[o].entries : e.field = f /\ e.code = "id_sanitization"
        THEN c.raw[o][f] ELSE c.outputs[o][f]]

\* The sealed documents of a role that succeeded fit each other, although its
\* files were rewritten one by one, perhaps by several passes: each stamped
\* pointer names a stored artifact, all times are those of one pass, and each
\* digest is that of its document, or, where only names are repaired, that of
\* the document before the renamings that its record discloses.
ClosureIsCoherent ==
    \A k \in DOMAIN closures :
        LET c == closures[k]
            sealed == c.outputs
        IN
        c.lane = "role" /\ c.status = "succeeded" =>
            /\ \A o \in DOMAIN sealed : \A f \in DOMAIN sealed[o] :
                LET v == sealed[o][f]
                    covered == IF Bare(Catalog[1][o]) THEN Unrenamed(c, o) ELSE sealed[o]
                IN
                /\ v[1] = "at" => Row(v[2], v[3], v[4]) \in artifacts
                /\ f = Digest => v = <<"digest", Without(covered, {Digest})>>
            /\ \A o, p \in DOMAIN sealed :
                \A f \in DOMAIN sealed[o] \cap Owned[o].times :
                    \A g \in DOMAIN sealed[p] \cap Owned[p].times : sealed[o][f] = sealed[p][g]

\* "content_sha256 is recomputed LAST ... so the stamped value matches the sealed
\* bytes": it is not in a schema where only names are repaired.
DigestIsCurrent ==
    \A k \in DOMAIN closures : \A o \in DOMAIN closures[k].outputs :
        LET d == closures[k].outputs[o] IN
        closures[k].lane = "role" /\ Digest \in DOMAIN d =>
            d[Digest] = <<"digest", Without(d, {Digest})>>

\* A correction that succeeded returns each output outside of its scope as it
\* was given, although the harness rewrites files itself after the agent
\* (_validate_and_close_correction, verify_correction_blast_radius).
OutOfScopeIsReturned ==
    \A k \in DOMAIN closures :
        LET c == closures[k] IN
        c.lane \in {"packaging", "scientific"} /\ c.status = "succeeded" =>
            \A o \in Output \ c.scope :
                /\ o \in DOMAIN c.outputs <=> o \in DOMAIN closures[c.source].outputs
                /\ o \in DOMAIN c.outputs => c.outputs[o] = closures[c.source].outputs[o]

\* The two implementations of the repairs agree: as long as no other catalog is
\* installed, a normalization has nothing to transform in the outputs that a
\* role has sealed (normalize_closure_outputs after
\* _apply_disclosed_mechanical_repairs).
RepairIsComplete ==
    \A k \in DOMAIN closures :
        closures[k].lane = "role" /\ catalog = 1 =>
            \A codes \in Codes : Preview(k, codes) = {}

=============================================================================
