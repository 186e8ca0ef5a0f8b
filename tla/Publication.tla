----------------------------- MODULE Publication -----------------------------
(***************************************************************************)
(* The formal records of one project: research runs that freeze a basis    *)
(* and publish on it, the researcher's own commands (a new brief, the      *)
(* lifecycle of a method), and the acceptance of all of them under         *)
(* idempotency keys, with crashes between any two database commits.        *)
(*                                                                         *)
(* Phase 2 stands for the phases that write keyed slots and an index       *)
(* (phase 1 has an index and no keyed slots), phase 3 for those that work  *)
(* on one method (phases 4 and 5 write more slots of the same kind).  A    *)
(* generation is named by what published it, since a run or a command      *)
(* writes a slot at most once.  The authority root is a hash chain over    *)
(* the events of the receipts, so two heads are equal exactly when the     *)
(* same receipts are in the log: a head is the length of the log.          *)
(* Execution and correction of a run are one step each; RunHarness and     *)
(* Correction have them in full.                                           *)
(***************************************************************************)
EXTENDS Naturals, Sequences

CONSTANTS
    Method,          \* stable method ids
    Run,             \* run ids
    Key,             \* idempotency keys of requests
    Project, None,
    Bootstrap,       \* origin of the records the project starts with
    MaxCrashes,      \* bound: server crashes
    MaxCorrections,  \* bound: corrections that bring a run to submission
    MaxProjects,     \* bound: projects created under one key
    Draft            \* bound: the method records that agents may submit

ASSUME BoundAssumption ==
    MaxCrashes \in Nat /\ MaxCorrections \in Nat /\ MaxProjects \in Nat

ASSUME DraftAssumption ==
    \A d \in Draft :
        /\ DOMAIN d # {} /\ DOMAIN d \subseteq Method
        /\ \A m \in DOMAIN d : d[m] \in {"proposed", "active", "retired"}

ASSUME NamesAssumption ==
    /\ Run \cap Key = {} /\ None \notin Run \cup Key \cup Method \cup {Bootstrap}
    /\ Bootstrap \notin Run \cup Key

Origin == Run \cup Key \cup {Bootstrap}
Generation == Origin \cup {None}

Brief == <<"brief", Project>>
Catalog == <<"catalog", Project>>
MethodSlot(m) == <<"method", m>>
TheorySlot(m) == <<"theory", m>>
Slot == {Brief, Catalog} \cup {MethodSlot(m) : m \in Method}
                         \cup {TheorySlot(m) : m \in Method}

Lifecycle == {"proposed", "active", "retired"}

CONSTANT Op   \* bound: the operations that clients use

StartOp == {"catalog_run", "theory_run"}
ControlOp == {"brief", "lifecycle"}
\* What a client sends: the operation, its object, and the head it has seen.
Request == [op : StartOp \cup ControlOp \cup {"cancel", "create"},
            on : Method \cup Run \cup {None}, seen : Nat]

ASSUME OpAssumption == Op \subseteq StartOp \cup ControlOp \cup {"cancel", "create"}

VARIABLES
    \* Formal records.
    current,       \* current_slots
    lifecycle,     \* lifecycle_state of the current record of each method
    listing,       \* the current catalog document: for each method the
                   \* generation it lists and the lifecycle state it shows
    receipts,      \* publication_receipts, in order
    \* Runs.
    status,        \* runs.status, or "absent"
    command,       \* the command of each run
    basis,         \* the publication basis in the manifest, or None
    output,        \* the method records of a submitted catalog run
    corrections,   \* bound: corrections of all runs together
    \* Requests.
    request,       \* what each key was used for, or None
    sealed,        \* keys with a row in sealed_commands
    answer,        \* the last response to each key
    made, bare,    \* projects created under a key, and those without a brief
    \* The server.
    up, busy,      \* running?  the handler that has the event loop
    crashes

formal == <<current, lifecycle, listing, receipts>>
runs == <<status, command, basis, output, corrections>>
requests == <<request, sealed, answer, made, bare>>
vars == <<formal, runs, requests, up, busy, crashes>>

FormalHead == Len(receipts)

RunStatus == {"absent", "created", "preparing", "running", "submitted", "promoting",
              "published", "conflicted", "rejected", "failed",
              "cancellation_requested", "cancelled"}
Terminal == {"published", "conflicted", "rejected", "failed", "cancelled"}
ActiveRunStates == RunStatus \ (Terminal \cup {"absent"})
Cancellable == {"created", "preparing", "running"}

Listing == [Method -> [of : Generation, state : Lifecycle]]
Basis == [head : Nat, slots : [Slot -> Generation], listing : Listing]
Idle == [key |-> None, at |-> "idle"]

\* None is the absence of a row, and no row.
ASSUME NoneAssumption == None \notin Request /\ None \notin Basis

TypeOK ==
    /\ current \in [Slot -> Generation]
    /\ lifecycle \in [Method -> Lifecycle]
    /\ listing \in Listing
    /\ \A i \in DOMAIN receipts : receipts[i].by \in Run \cup Key
    /\ status \in [Run -> RunStatus]
    /\ command \in [Run -> Key \cup {None}]
    /\ basis \in [Run -> Basis \cup {None}]
    /\ output \in [Run -> Draft \cup {<<>>}]
    /\ corrections \in 0 .. MaxCorrections
    /\ request \in [Key -> Request \cup {None}]
    /\ sealed \subseteq Key
    /\ answer \in [Key -> {"none", "accepted", "rejected", "error"}]
    /\ made \in [Key -> 0 .. MaxProjects] /\ bare \in [Key -> 0 .. MaxProjects]
    /\ up \in BOOLEAN
    /\ busy \in [key : Key \cup {None}, at : {"idle", "sealed", "row", "brief"}]
    /\ crashes \in 0 .. MaxCrashes

\* The project has a brief; phase 2 may have published some methods already.
Init ==
    /\ \E known \in SUBSET Method, state \in [Method -> {"proposed", "active"}] :
           /\ current = [s \in Slot |->
                  IF \/ s = Brief
                     \/ s = Catalog /\ known # {}
                     \/ \E m \in known : s = MethodSlot(m)
                  THEN Bootstrap ELSE None]
           /\ lifecycle = [m \in Method |-> IF m \in known THEN state[m] ELSE "proposed"]
           /\ listing = [m \in Method |->
                  [of |-> IF m \in known THEN Bootstrap ELSE None,
                   state |-> IF m \in known THEN state[m] ELSE "proposed"]]
    /\ receipts = <<>>
    /\ status = [r \in Run |-> "absent"]
    /\ command = [r \in Run |-> None]
    /\ basis = [r \in Run |-> None]
    /\ output = [r \in Run |-> <<>>]
    /\ corrections = 0
    /\ request = [k \in Key |-> None]
    /\ sealed = {}
    /\ answer = [k \in Key |-> "none"]
    /\ made = [k \in Key |-> 0] /\ bare = [k \in Key |-> 0]
    /\ up = TRUE
    /\ busy = Idle
    /\ crashes = 0

-----------------------------------------------------------------------------
(* Requests: a client looks at the project, decides and sends; a network   *)
(* that loses the answer makes it send the same body again.                *)

Receipted(o) == \E i \in DOMAIN receipts : receipts[i].by = o
RunOf(k) == {r \in Run : command[r] = k}
NoActiveRun == \A r \in Run : status[r] \notin ActiveRunStates
Catalogued(m) == current[MethodSlot(m)] # None
OnMethod == {"theory_run", "lifecycle"}

\* An op that the client is shown, on an object that it is shown.
View(k, op, on) ==
    /\ request[k] = None
    /\ CASE op \in OnMethod -> on \in Method /\ Catalogued(on)
         [] op = "cancel"   -> on \in Run /\ status[on] # "absent"
         [] OTHER           -> on = None
    /\ request' = [request EXCEPT ![k] = [op |-> op, on |-> on, seen |-> FormalHead]]
    /\ UNCHANGED <<formal, runs, sealed, answer, made, bare, up, busy, crashes>>

Delivered(k, ops) == up /\ busy = Idle /\ request[k] # None /\ request[k].op \in ops
Answer(k, a) == answer' = [answer EXCEPT ![k] = a]
Seal(k) == sealed' = sealed \cup {k} /\ busy' = [key |-> k, at |-> "sealed"]
\* The descriptor of an action is a digest of the head that it was shown at.
Stale(k) == request[k].seen # FormalHead

\* start_run for a key that already has its run.
ReplayStart(k) ==
    /\ Delivered(k, StartOp) /\ RunOf(k) # {}
    /\ Answer(k, "accepted")
    /\ UNCHANGED <<formal, runs, request, sealed, made, bare, up, busy, crashes>>

\* The eligibility findings of the phase view: only starts are not gated by
\* the runs that are active.
Startable(k) ==
    /\ current[Brief] # None
    /\ request[k].op = "theory_run" =>
           /\ current[Catalog] # None
           /\ Catalogued(request[k].on) /\ lifecycle[request[k].on] = "active"

RefuseStart(k) ==
    /\ Delivered(k, StartOp) /\ RunOf(k) = {}
    /\ Stale(k) \/ ~Startable(k)
    /\ Answer(k, "rejected")
    /\ UNCHANGED <<formal, runs, request, sealed, made, bare, up, busy, crashes>>

AdmitStart(k) ==
    Delivered(k, StartOp) /\ RunOf(k) = {} /\ ~Stale(k) /\ Startable(k)

SealStart(k) ==
    /\ AdmitStart(k) /\ k \notin sealed
    /\ \E r \in Run : status[r] = "absent"
    /\ Seal(k)
    /\ UNCHANGED <<formal, runs, request, answer, made, bare, up, crashes>>

\* build_run_command draws a new command id on every call, and seal_command
\* refuses a second command under one key with an error nobody catches.
SealStartAgain(k) ==
    /\ AdmitStart(k) /\ k \in sealed
    /\ Answer(k, "error")
    /\ UNCHANGED <<formal, runs, request, sealed, made, bare, up, busy, crashes>>

AtSealed(ops) == up /\ busy.at = "sealed" /\ request[busy.key].op \in ops

CreateRun(r) ==
    /\ AtSealed(StartOp) /\ status[r] = "absent"
    /\ status' = [status EXCEPT ![r] = "created"]
    /\ command' = [command EXCEPT ![r] = busy.key]
    /\ Answer(busy.key, "accepted")
    /\ busy' = Idle
    /\ UNCHANGED <<formal, basis, output, corrections, request, sealed, made, bare,
                   up, crashes>>

\* Defect: a sealed key is taken for one that was served.
ReplayControlTrusts(k) ==
    /\ Delivered(k, ControlOp) /\ k \in sealed
    /\ Answer(k, "accepted")
    /\ UNCHANGED <<formal, runs, request, sealed, made, bare, up, busy, crashes>>

\* update_project_brief and change_method_lifecycle look at the receipt of a
\* key that is sealed, whatever has happened since.
ReplayControl(k) ==
    /\ Delivered(k, ControlOp) /\ k \in sealed
    /\ Answer(k, IF Receipted(k) THEN "accepted" ELSE "rejected")
    /\ UNCHANGED <<formal, runs, request, sealed, made, bare, up, busy, crashes>>

Controllable(k) ==
    /\ NoActiveRun
    /\ request[k].op = "lifecycle" =>
           Catalogued(request[k].on) /\ current[Catalog] # None

RefuseControl(k) ==
    /\ Delivered(k, ControlOp) /\ k \notin sealed
    /\ Stale(k) \/ ~Controllable(k)
    /\ Answer(k, "rejected")
    /\ UNCHANGED <<formal, runs, request, sealed, made, bare, up, busy, crashes>>

SealControl(k) ==
    /\ Delivered(k, ControlOp) /\ k \notin sealed
    /\ ~Stale(k) /\ Controllable(k)
    /\ Seal(k)
    /\ UNCHANGED <<formal, runs, request, answer, made, bare, up, crashes>>

-----------------------------------------------------------------------------
(* Publication.                                                            *)

Receipt(o, reads, writes) == [by |-> o, reads |-> reads, writes |-> writes]

\* publication_transaction: generations, slots, events and receipt together.
Commit(o, reads, writes) ==
    /\ receipts' = Append(receipts, Receipt(o, reads, writes))
    /\ current' = [s \in Slot |-> IF s \in writes THEN o ELSE current[s]]

CurrentOf(slots) == [s \in slots |-> current[s]]

\* The submitted fields may say what the brief says already.
PublishBrief ==
    /\ AtSealed({"brief"})
    /\ \/ /\ Commit(busy.key, CurrentOf({Brief}), {Brief})
          /\ Answer(busy.key, "accepted")
       \/ /\ Answer(busy.key, "rejected")
          /\ UNCHANGED <<current, receipts>>
    /\ busy' = Idle
    /\ UNCHANGED <<lifecycle, listing, runs, request, sealed, made, bare, up, crashes>>

Toggled(state) == IF state = "active" THEN "retired" ELSE "active"

\* The catalogue must list exactly the current method in its current state.
ChangeLifecycle(m) ==
    LET slots == {MethodSlot(m), Catalog}
        state == Toggled(lifecycle[m])
    IN  /\ Commit(busy.key, CurrentOf(slots), slots)
        /\ lifecycle' = [lifecycle EXCEPT ![m] = state]
        /\ listing' = [listing EXCEPT ![m] = [of |-> busy.key, state |-> state]]

PublishLifecycle ==
    LET m == request[busy.key].on
    IN  /\ AtSealed({"lifecycle"})
        /\ IF listing[m].state = lifecycle[m]
           THEN ChangeLifecycle(m) /\ Answer(busy.key, "accepted")
           ELSE Answer(busy.key, "rejected") /\ UNCHANGED formal
        /\ busy' = Idle
        /\ UNCHANGED <<runs, request, sealed, made, bare, up, crashes>>

-----------------------------------------------------------------------------
(* Runs.                                                                   *)

Phase2(r) == request[command[r]].op = "catalog_run"
MethodOf(r) == request[command[r]].on

Move(r, from, to) == up /\ busy = Idle /\ status[r] = from
                     /\ status' = [status EXCEPT ![r] = to]
KeepRun == UNCHANGED <<command, basis, output, corrections, formal, requests, up,
                       busy, crashes>>

Claim(r) == Move(r, "created", "preparing") /\ KeepRun

\* What a run of each phase rests on, and what it replaces.
Inputs(r) == IF Phase2(r) THEN {Brief, Catalog}
             ELSE {Brief, Catalog, MethodSlot(MethodOf(r)), TheorySlot(MethodOf(r))}
Targets(r) == IF Phase2(r) THEN {Catalog} \cup {MethodSlot(m) : m \in DOMAIN output[r]}
              ELSE {TheorySlot(MethodOf(r))}

\* capture_publication_basis, and the frozen catalogue document.
CapturedBasis == [head |-> FormalHead, slots |-> current, listing |-> listing]

\* The whole preparation: the inventory of all current slots, the frozen
\* inputs, the comparison with the head that the researcher reviewed.
Prepare(r) ==
    /\ Move(r, "preparing", "running")
    /\ ~Stale(command[r])
    /\ basis' = [basis EXCEPT ![r] = CapturedBasis]
    /\ UNCHANGED <<formal, command, output, corrections, requests, up, busy, crashes>>

\* A run published another version of the method: its exact record is gone.
MethodGone(r) == ~Phase2(r) /\ current[MethodSlot(MethodOf(r))] \in Run

PrepareFails(r) ==
    /\ \/ Move(r, "preparing", "conflicted")
       \/ Move(r, "preparing", "failed") /\ MethodGone(r)
    /\ Stale(command[r])
    /\ KeepRun

Submit(r, from) ==
    /\ Move(r, from, "submitted")
    /\ IF Phase2(r)
       THEN \E d \in Draft : output' = [output EXCEPT ![r] = d]
       ELSE UNCHANGED output
    /\ UNCHANGED <<formal, command, basis, requests, up, busy, crashes>>

Execute(r) ==
    \/ Submit(r, "running") /\ UNCHANGED corrections
    \/ Move(r, "running", "failed") /\ KeepRun

Correct(r) ==
    /\ basis[r] # None /\ corrections < MaxCorrections
    /\ corrections' = corrections + 1
    /\ Submit(r, "failed") \/ Submit(r, "rejected")

\* What the validators and the publication plan say of a submission.
Verdict == {"promoting", "rejected"}

Validate(r) == (\E v \in Verdict : Move(r, "submitted", v)) /\ KeepRun

SettleCancellation(r) == Move(r, "cancellation_requested", "cancelled") /\ KeepRun

\* Defect: the index is replaced by what was submitted.
ReducedToSubmitted(r, prior) ==
    [m \in Method |-> IF m \in DOMAIN output[r] THEN [of |-> r, state |-> output[r][m]]
                      ELSE [of |-> None, state |-> "proposed"]]

\* The index reducer: the submitted records over the frozen catalogue.
Reduced(r, prior) ==
    [m \in Method |-> IF m \in DOMAIN output[r] THEN [of |-> r, state |-> output[r][m]]
                      ELSE prior[m]]

\* Defect: only the slots that are replaced are compared.
BasisHoldsForTargets(r) == \A s \in Targets(r) : basis[r].slots[s] = current[s]

BasisHolds(r) ==
    /\ basis[r].head = FormalHead
    /\ \A s \in Targets(r) : basis[r].slots[s] = current[s]

PublishRun(r) ==
    /\ up /\ busy = Idle /\ status[r] = "promoting"
    /\ ~Receipted(r) /\ BasisHolds(r)
    /\ Commit(r, [s \in Inputs(r) \cup Targets(r) |-> basis[r].slots[s]], Targets(r))
    /\ IF Phase2(r)
       THEN /\ lifecycle' = [m \in Method |-> IF m \in DOMAIN output[r]
                                              THEN output[r][m] ELSE lifecycle[m]]
            /\ listing' = Reduced(r, basis[r].listing)
       ELSE UNCHANGED <<lifecycle, listing>>
    /\ UNCHANGED <<runs, requests, up, busy, crashes>>

\* Defect: the conflict is raised and nothing is written.
SettleSilent(r) ==
    /\ Move(r, "promoting", "published") /\ Receipted(r)
    /\ KeepRun

\* The receipt is looked up first, so that a crash after the commit does not
\* turn the run's own publication into a conflict.
Settle(r) ==
    /\ \/ Move(r, "promoting", "published") /\ Receipted(r)
       \/ Move(r, "promoting", "conflicted") /\ ~Receipted(r) /\ ~BasisHolds(r)
    /\ KeepRun

-----------------------------------------------------------------------------
(* Cancelling and creating.                                                *)

\* cancel_run answers a key that is sealed with the run as it is.
ReplayCancel(k) ==
    /\ Delivered(k, {"cancel"}) /\ k \in sealed
    /\ Answer(k, "accepted")
    /\ UNCHANGED <<formal, runs, request, sealed, made, bare, up, busy, crashes>>

RefuseCancel(k) ==
    /\ Delivered(k, {"cancel"}) /\ k \notin sealed
    /\ status[request[k].on] \notin Cancellable
    /\ Answer(k, "rejected")
    /\ UNCHANGED <<formal, runs, request, sealed, made, bare, up, busy, crashes>>

SealCancel(k) ==
    /\ Delivered(k, {"cancel"}) /\ k \notin sealed
    /\ status[request[k].on] \in Cancellable
    /\ Seal(k)
    /\ UNCHANGED <<formal, runs, request, answer, made, bare, up, crashes>>

\* Defect: a status outside the vocabulary.
FenceMisspelt ==
    /\ AtSealed({"cancel"})
    /\ status' = [status EXCEPT ![request[busy.key].on] = "cancelling"]
    /\ Answer(busy.key, "accepted")
    /\ busy' = Idle
    /\ UNCHANGED <<formal, command, basis, output, corrections, request, sealed, made,
                   bare, up, crashes>>

Fence ==
    /\ AtSealed({"cancel"})
    /\ status' = [status EXCEPT ![request[busy.key].on] = "cancellation_requested"]
    /\ Answer(busy.key, "accepted")
    /\ busy' = Idle
    /\ UNCHANGED <<formal, command, basis, output, corrections, request, sealed, made,
                   bare, up, crashes>>

\* create_project writes a row, then the brief, and looks at its key last.
CreateRow(k) ==
    /\ Delivered(k, {"create"}) /\ made[k] < MaxProjects
    /\ made' = [made EXCEPT ![k] = @ + 1]
    /\ bare' = [bare EXCEPT ![k] = @ + 1]
    /\ busy' = [key |-> k, at |-> "row"]
    /\ UNCHANGED <<formal, runs, request, sealed, answer, up, crashes>>

BootstrapBrief ==
    /\ up /\ busy.at = "row"
    /\ bare' = [bare EXCEPT ![busy.key] = @ - 1]
    /\ busy' = [busy EXCEPT !.at = "brief"]
    /\ UNCHANGED <<formal, runs, request, sealed, answer, made, up, crashes>>

\* The request is recorded with the id of the new project, so the second
\* project under a key is refused after it was made.
AttachRawRequest ==
    /\ up /\ busy.at = "brief"
    /\ sealed' = sealed \cup {busy.key}
    /\ Answer(busy.key, IF busy.key \in sealed THEN "rejected" ELSE "accepted")
    /\ busy' = Idle
    /\ UNCHANGED <<formal, runs, request, made, bare, up, crashes>>

-----------------------------------------------------------------------------

Crash ==
    /\ up /\ crashes < MaxCrashes
    /\ up' = FALSE /\ busy' = Idle /\ crashes' = crashes + 1
    /\ UNCHANGED <<formal, runs, requests>>

Restart == ~up /\ up' = TRUE /\ UNCHANGED <<formal, runs, requests, busy, crashes>>

Arrive(k) ==
    \/ ReplayStart(k) \/ RefuseStart(k) \/ SealStart(k) \/ SealStartAgain(k)
    \/ ReplayControl(k) \/ RefuseControl(k) \/ SealControl(k)
    \/ ReplayCancel(k) \/ RefuseCancel(k) \/ SealCancel(k)
    \/ CreateRow(k)

Handler ==
    \/ \E r \in Run : CreateRun(r)
    \/ PublishBrief \/ PublishLifecycle \/ Fence
    \/ BootstrapBrief \/ AttachRawRequest

Advance(r) ==
    \/ Claim(r) \/ Prepare(r) \/ PrepareFails(r) \/ Execute(r) \/ Validate(r)
    \/ PublishRun(r) \/ Settle(r) \/ SettleCancellation(r)

Next ==
    \/ \E k \in Key, op \in Op, on \in Method \cup Run \cup {None} : View(k, op, on)
    \/ \E k \in Key : Arrive(k)
    \/ Handler
    \/ \E r \in Run : Advance(r) \/ Correct(r)
    \/ Crash \/ Restart

Spec == Init /\ [][Next]_vars

\* The event loop runs every ready task and the server is started again;
\* nothing is assumed of clients.
FairSpec ==
    /\ Spec
    /\ WF_vars(Handler) /\ WF_vars(Restart)
    /\ \A r \in Run : WF_vars(Advance(r))

-----------------------------------------------------------------------------
(* Properties.                                                             *)

\* The two places that hold the state of a method agree: the catalogue lists
\* exactly the current generation of every method, in its current lifecycle
\* state, although a run computes the catalogue from what it froze and a
\* command from what is there (index_reducers.py, method_lifecycle.py).
CatalogMirrorsMethods ==
    \A m \in Method : Catalogued(m) =>
        listing[m] = [of |-> current[MethodSlot(m)], state |-> lifecycle[m]]

\* What is told is so, however often a request was delivered and wherever the
\* server crashed: a request that was answered with success has had its effect
\* exactly once (service.py, start_run, update_project_brief,
\* change_method_lifecycle), and a run is told as published if it was, even when
\* the crash fell between the commit and the status, and only if it was
\* (run_coordinator.py, _promote).
ToldIsSo ==
    /\ \A k \in Key : answer[k] = "accepted" =>
           /\ request[k].op \in StartOp => RunOf(k) # {}
           /\ request[k].op \in ControlOp => Receipted(k)
    /\ \A q, r \in Run : q # r /\ command[q] # None => command[q] # command[r]
    /\ \A r \in Run :
        /\ Receipted(r) => status[r] \in {"promoting", "published"}
        /\ status[r] = "published" => Receipted(r)

\* The formal records are one serial log: every publication was computed from
\* the generations it replaces and rests on, and nothing publishes twice.
Log == INSTANCE PublicationLog WITH log <- receipts, current <- current,
                                    Slot <- Slot, Origin <- Origin, Absent <- None
ImplementsLog == Log!Spec

\* A run that was accepted ends, whatever is published meanwhile, with crashes
\* (run_coordinator.py, run).
RunSettles == \A r \in Run : (status[r] = "created") ~> (status[r] \in Terminal)

-----------------------------------------------------------------------------
(* Promises of documents that the code does not keep (README, section 7).  *)

\* A run conflicts only because something that it rests on or replaces moved
\* (02-run-harness.md, section on publication).
ConflictNamesAMovedSlot ==
    \A r \in Run : status[r] = "conflicted" /\ basis[r] # None =>
        \E s \in Inputs(r) \cup Targets(r) : basis[r].slots[s] # current[s]

\* Every project has a brief once its creation is over (project_commands.py).
ProjectHasBrief == \A k \in Key : bare[k] > 0 => busy.key = k

\* A key creates one project.
OneProjectPerKey == \A k \in Key : made[k] <= 1

\* A start that was interrupted can be sent again.
RetryIsAnswered == \A k \in Key : answer[k] # "error"

\* A cancellation that was answered with success has fenced the run.
CancelledWhenTold ==
    \A k \in Key : answer[k] = "accepted" /\ request[k].op = "cancel" =>
        status[request[k].on] \in {"cancellation_requested"} \cup Terminal

=============================================================================
