----------------------------- MODULE RunHarness -----------------------------
(***************************************************************************)
(* One research run, from the accepted command to its terminal status:     *)
(* the advancement pass of the run coordinator, the role lifecycle that    *)
(* launches, acknowledges, reconciles and closes external agent processes, *)
(* the local executor, user cancellation, and crashes and restarts of the  *)
(* server.                                                                 *)
(*                                                                         *)
(* The server is one asyncio process over one SQLite database.  A step is  *)
(* what happens between two awaits, split further wherever the code        *)
(* commits one database write and then another, because the server can     *)
(* crash there.  Agent processes are started in a session of their own and *)
(* survive a crash of the server.                                          *)
(***************************************************************************)
EXTENDS RunTransitions, Naturals

CONSTANTS
    Inv,          \* the role invocations of the frozen plan: one per stage and role
    NumStages,    \* the number of stages
    StageOf,      \* the stage of each invocation, in 1 .. NumStages
    MaxCrashes,   \* bound: server crashes
    MaxFaults,    \* bound: transient failures of the harness's own bookkeeping
    FaultSites,   \* where such a failure may hit, a subset of AllFaultSites
    SlowKill      \* may a killed process outlive the grace period of cancel()?

AllFaultSites ==
    {"intent", "ack", "close", "settle", "prepare", "progress",
     "transition", "mark_published"}

ASSUME PlanAssumption ==
    /\ NumStages \in Nat \ {0}
    /\ StageOf \in [Inv -> 1 .. NumStages]

ASSUME BoundAssumption ==
    /\ MaxCrashes \in Nat
    /\ MaxFaults \in Nat
    /\ FaultSites \subseteq AllFaultSites
    /\ SlowKill \in BOOLEAN

VARIABLES
    \* In the database.
    status,      \* runs.status
    fenced,      \* runs.cancellation_fenced
    manifest,    \* is there a run_manifests row?
    submission,  \* is there a run_submissions row?
    receipt,     \* is there a publication_receipts row for the run?
    intent,      \* invocations with a role_execution_intents row
    ack,         \* invocations with a role_execution_acknowledgements row
    closure,     \* the status sealed in role_execution_closures, or "none"
    \* Outside the server.
    proc,        \* the last process launched for each invocation
    orphan,      \* invocations with an older live process nobody recorded
    outputs,     \* the declared output files of each invocation
    \* In the server's memory, lost in a crash.
    up,          \* is the server running?
    queued,      \* coordinator tasks waiting for the lock of the run
    pc,          \* where the task holding the lock is
    stage,       \* the stage it is executing
    role,        \* where the coroutine of each invocation is
    result,      \* the executor's result for each invocation
    watchers,    \* invocations with a pending-execution watcher
    \* Bounds.
    crashes, faults

database == <<status, fenced, manifest, submission, receipt, intent, ack, closure>>
outside == <<proc, orphan, outputs>>
memory == <<up, queued, pc, stage, role, result, watchers>>
bounds == <<crashes, faults>>
vars == <<database, outside, memory, bounds>>

ClosureStatus == {"succeeded", "failed", "cancelled"}
ProcState == {"none", "running", "dying", "exit0", "exit1"}
OutputState == {"absent", "invalid", "valid"}
PassPoint == {"idle", "loop", "stage", "gather", "settle"}
RolePoint ==
    {"idle", "begin", "launch", "spawned", "attached", "reconcile", "close",
     "done", "cancelled", "pending", "infra", "error"}

Members(s) == {i \in Inv : StageOf[i] = s}
Alive(i) == proc[i] \in {"running", "dying"}
Exited(i) == proc[i] \in {"exit0", "exit1"}

DatabaseType ==
    /\ status \in RunStatus
    /\ fenced \in BOOLEAN
    /\ manifest \in BOOLEAN
    /\ submission \in BOOLEAN
    /\ receipt \in BOOLEAN
    /\ intent \subseteq Inv
    /\ ack \subseteq Inv
    /\ closure \in [Inv -> ClosureStatus \cup {"none"}]

OutsideType ==
    /\ proc \in [Inv -> ProcState]
    /\ orphan \subseteq Inv
    /\ outputs \in [Inv -> OutputState]

MemoryType ==
    /\ up \in BOOLEAN
    /\ queued \in Nat
    /\ pc \in PassPoint
    /\ stage \in 1 .. NumStages + 1
    /\ pc = "gather" => stage <= NumStages
    /\ role \in [Inv -> RolePoint]
    /\ result \in [Inv -> {"none", "succeeded", "failed"}]
    /\ watchers \subseteq Inv

BoundsType ==
    /\ crashes \in 0 .. MaxCrashes
    /\ faults \in 0 .. MaxFaults

TypeOK == DatabaseType /\ OutsideType /\ MemoryType /\ BoundsType

\* start_run has just created the run row and the first coordinator task.
Init ==
    /\ status = "created"
    /\ fenced = FALSE
    /\ manifest = FALSE
    /\ submission = FALSE
    /\ receipt = FALSE
    /\ intent = {}
    /\ ack = {}
    /\ closure = [i \in Inv |-> "none"]
    /\ proc = [i \in Inv |-> "none"]
    /\ orphan = {}
    /\ outputs = [i \in Inv |-> "absent"]
    /\ up = TRUE
    /\ queued = 1
    /\ pc = "idle"
    /\ stage = 1
    /\ role = [i \in Inv |-> "idle"]
    /\ result = [i \in Inv |-> "none"]
    /\ watchers = {}
    /\ crashes = 0
    /\ faults = 0

-----------------------------------------------------------------------------
(* Helpers.                                                                *)

\* The pass returns and releases the lock.
PassReturns ==
    /\ pc' = "idle"
    /\ stage' = 1
    /\ role' = [i \in Inv |-> "idle"]
    /\ result' = [i \in Inv |-> "none"]

\* _handle_error: a run that is terminal or being cancelled is left alone,
\* every other one is failed.
StatusAfterError ==
    IF status \in TerminalRunStatuses \cup {"cancellation_requested"}
    THEN status
    ELSE "failed"

\* The effect of SIGTERM, grace period, SIGKILL on a process.  cancel() does
\* not wait after SIGKILL, so a process may still be there when it returns.
KillOutcomes == IF SlowKill THEN {"exit1", "dying"} ELSE {"exit1"}

Fault(site) ==
    /\ site \in FaultSites
    /\ faults < MaxFaults
    /\ faults' = faults + 1

-----------------------------------------------------------------------------
(* RunCoordinator.run: one iteration of the advancement loop per action.   *)

AcquireLock ==
    /\ up
    /\ pc = "idle"
    /\ queued > 0
    /\ pc' = "loop"
    /\ queued' = queued - 1
    /\ UNCHANGED <<database, outside, up, stage, role, result, watchers, bounds>>

\* A lifecycle transition that leaves the pass in its loop.
InLoop(from, to) ==
    /\ pc = "loop"
    /\ status = from
    /\ status' = to

StaysInLoop ==
    UNCHANGED <<fenced, submission, intent, ack, closure, outside, memory, bounds>>

LoopTerminal ==
    /\ pc = "loop"
    /\ status \in TerminalRunStatuses
    /\ PassReturns
    /\ UNCHANGED <<database, outside, up, queued, watchers, bounds>>

BeginPreparation ==
    /\ InLoop("created", "preparing")
    /\ UNCHANGED <<manifest, receipt>>
    /\ StaysInLoop

\* _prepare seals the manifest; inputs that cannot be frozen fail the run,
\* a basis that moved underneath makes it conflicted.
FreezeManifest ==
    /\ InLoop("preparing", "preparing")
    /\ ~manifest
    /\ manifest' = TRUE
    /\ UNCHANGED receipt
    /\ StaysInLoop

PreparationFails ==
    /\ pc = "loop"
    /\ status = "preparing"
    /\ ~manifest
    /\ status' \in {"failed", "conflicted"}
    /\ PassReturns
    /\ UNCHANGED <<fenced, manifest, submission, receipt, intent, ack, closure,
                   outside, up, queued, watchers, bounds>>

MarkPrepared ==
    /\ InLoop("preparing", "prepared")
    /\ manifest
    /\ UNCHANGED <<manifest, receipt>>
    /\ StaysInLoop

BeginRunning ==
    /\ InLoop("prepared", "running")
    /\ UNCHANGED <<manifest, receipt>>
    /\ StaysInLoop

BeginExecution ==
    /\ pc = "loop"
    /\ status = "running"
    /\ pc' = "stage"
    /\ stage' = 1
    /\ UNCHANGED <<database, outside, up, queued, role, result, watchers, bounds>>

BeginSettlement ==
    /\ pc = "loop"
    /\ status = "cancellation_requested"
    /\ pc' = "settle"
    /\ UNCHANGED <<database, outside, up, queued, stage, role, result, watchers, bounds>>

BeginValidation ==
    /\ InLoop("submitted", "validating")
    /\ UNCHANGED <<manifest, receipt>>
    /\ StaysInLoop

\* The validators pass the submission or reject it.
Validate ==
    /\ \E verdict \in {"promoting", "rejected"} : InLoop("validating", verdict)
    /\ UNCHANGED <<manifest, receipt>>
    /\ StaysInLoop

\* _promote commits the publication transaction; the status follows later.
CommitPublication ==
    /\ InLoop("promoting", "promoting")
    /\ ~receipt
    /\ receipt' = TRUE
    /\ UNCHANGED manifest
    /\ StaysInLoop

\* Defect: a conflict is reported although the receipt is already committed.
PublicationRefusedAfterCommit ==
    /\ \E reason \in {"conflicted", "failed"} : InLoop("promoting", reason)
    /\ UNCHANGED <<manifest, receipt>>
    /\ StaysInLoop

\* The frozen formal head no longer matches, or revalidation fails.
PublicationRefused ==
    /\ \E reason \in {"conflicted", "failed"} : InLoop("promoting", reason)
    /\ ~receipt
    /\ UNCHANGED <<manifest, receipt>>
    /\ StaysInLoop

\* A receipt found at the start of _promote finishes an interrupted publication.
MarkPublished ==
    /\ InLoop("promoting", "published")
    /\ receipt
    /\ UNCHANGED <<manifest, receipt>>
    /\ StaysInLoop

\* The write of a transition fails once; _handle_error then fails the run,
\* or its own write fails too and the task dies with the row unchanged.
TransitionFault ==
    /\ pc = "loop"
    /\ status \in {"created", "preparing", "prepared",
                   "submitted", "validating", "promoting"}
    /\ Fault(IF status = "promoting" /\ receipt THEN "mark_published" ELSE "transition")
    /\ status' \in {status, StatusAfterError}
    /\ PassReturns
    /\ UNCHANGED <<fenced, manifest, submission, receipt, intent, ack, closure,
                   outside, up, queued, watchers, crashes>>

-----------------------------------------------------------------------------
(* ContractSequentialOrchestrator and HarnessExecutionServices.            *)

\* The cancellation checks before a stage, inside it and before submission.
StageCancelled ==
    /\ pc = "stage"
    /\ fenced
    /\ pc' = "settle"
    /\ stage' = 1
    /\ UNCHANGED <<database, outside, up, queued, role, result, watchers, bounds>>

\* _basis_before: a role may read only what succeeded roles of earlier
\* stages closed.
BasisBefore(s) ==
    \A j \in Inv : StageOf[j] < s => closure[j] = "succeeded"

\* Defect: the coroutines of all the remaining stages start together.
EnterEveryStage ==
    /\ pc = "stage"
    /\ ~fenced
    /\ stage <= NumStages
    /\ pc' = "gather"
    /\ role' = [i \in Inv |-> IF StageOf[i] >= stage THEN "begin" ELSE "idle"]
    /\ UNCHANGED <<database, outside, up, queued, stage, result, watchers, bounds>>

EnterStage ==
    /\ pc = "stage"
    /\ ~fenced
    /\ stage <= NumStages
    /\ BasisBefore(stage)
    /\ pc' = "gather"
    /\ role' = [i \in Inv |-> IF i \in Members(stage) THEN "begin" ELSE "idle"]
    /\ UNCHANGED <<database, outside, up, queued, stage, result, watchers, bounds>>

Stopped(i) == role[i] \in {"done", "cancelled", "pending", "infra", "error"}
Raised == {i \in Members(stage) : role[i] \in {"pending", "infra", "error"}}

GatherDone ==
    /\ pc = "gather"
    /\ \A i \in Members(stage) : Stopped(i)

\* Writing the stage progress event, before the stage or after it, fails.  The
\* exception replaces whatever the stage returned or raised and fails the run.
ProgressFault ==
    /\ (pc = "stage" /\ stage <= NumStages) \/ GatherDone
    /\ status = "running"
    /\ Fault("progress")
    /\ status' = StatusAfterError
    /\ PassReturns
    /\ UNCHANGED <<fenced, manifest, submission, receipt, intent, ack, closure,
                   outside, up, queued, watchers, crashes>>

\* A pending or infrastructure error ends the pass with the run left running.
\* Only the execution of the first such error in declaration order is watched;
\* declaration order is arbitrary here.
StageUnresolved ==
    /\ GatherDone
    /\ \E first \in Raised :
        /\ role[first] \in {"pending", "infra"}
        /\ watchers' = IF role[first] = "pending" THEN watchers \cup {first} ELSE watchers
    /\ PassReturns
    /\ UNCHANGED <<database, outside, up, queued, bounds>>

\* Any other exception of a role reaches _handle_error.
StageRaised ==
    /\ GatherDone
    /\ Raised # {}
    /\ \A i \in Raised : role[i] = "error"
    /\ status' = StatusAfterError
    /\ PassReturns
    /\ UNCHANGED <<fenced, manifest, submission, receipt, intent, ack, closure,
                   outside, up, queued, watchers, bounds>>

\* Every role returned: cancelled before failed before succeeded.
StageClosed ==
    /\ GatherDone
    /\ Raised = {}
    /\ UNCHANGED <<fenced, manifest, submission, receipt, intent, ack, closure,
                   outside, up, queued, watchers, bounds>>
    /\ role' = [i \in Inv |-> "idle"]
    /\ result' = [i \in Inv |-> "none"]
    /\ \/ /\ fenced
          /\ pc' = "settle"
          /\ stage' = 1
          /\ UNCHANGED status
       \/ /\ ~fenced
          /\ \E i \in Members(stage) : closure[i] = "failed"
          /\ pc' = "loop"
          /\ stage' = 1
          /\ status' = "failed"
       \/ /\ ~fenced
          /\ \A i \in Members(stage) : closure[i] = "succeeded"
          /\ pc' = "stage"
          /\ stage' = stage + 1
          /\ UNCHANGED status

\* SubmissionAssembler.submit_or_reconcile and HubRepository.seal_submission:
\* the whole chain must have succeeded, the fence must be open and the run
\* still running; the row and the status are one transaction.
ChainSucceeded == \A i \in Inv : closure[i] = "succeeded"

\* Defect: the gate opens when the last stage begins and trusts the stage loop.
SealSubmissionEarly ==
    /\ pc = "stage"
    /\ stage >= NumStages
    /\ ~submission
    /\ ~fenced
    /\ status = "running"
    /\ submission' = TRUE
    /\ status' = "submitted"
    /\ pc' = "loop"
    /\ stage' = 1
    /\ UNCHANGED <<fenced, manifest, receipt, intent, ack, closure, outside,
                   up, queued, role, result, watchers, bounds>>

SealSubmission ==
    /\ pc = "stage"
    /\ stage = NumStages + 1
    /\ ChainSucceeded
    /\ ~submission
    /\ ~fenced
    /\ status = "running"
    /\ submission' = TRUE
    /\ status' = "submitted"
    /\ pc' = "loop"
    /\ stage' = 1
    /\ UNCHANGED <<fenced, manifest, receipt, intent, ack, closure, outside,
                   up, queued, role, result, watchers, bounds>>

-----------------------------------------------------------------------------
(* RoleLifecycleService.execute_or_reconcile, one coroutine per role.      *)

RoleStep(i, from, to) ==
    /\ pc = "gather"
    /\ role[i] = from
    /\ role' = [role EXCEPT ![i] = to]
    /\ UNCHANGED <<status, fenced, manifest, submission, receipt,
                   up, queued, pc, stage, watchers, crashes>>

\* A sealed closure is reused; a fenced run starts no role; otherwise the
\* intent is recorded, and an acknowledgement decides between reconciling
\* the recorded process and launching one.
RoleReuses(i) ==
    /\ closure[i] # "none"
    /\ RoleStep(i, "begin", "done")
    /\ UNCHANGED <<intent, ack, closure, outside, result, faults>>

RoleFenced(i) ==
    /\ closure[i] = "none"
    /\ fenced
    /\ RoleStep(i, "begin", "cancelled")
    /\ UNCHANGED <<intent, ack, closure, outside, result, faults>>

RoleIntends(i) ==
    /\ closure[i] = "none"
    /\ ~fenced
    /\ RoleStep(i, "begin", IF i \in ack THEN "reconcile" ELSE "launch")
    /\ intent' = intent \cup {i}
    /\ UNCHANGED <<ack, closure, outside, result, faults>>

\* Preparing the invocation raises, or the intent cannot be written.
RolePrepareFault(i) ==
    /\ closure[i] = "none"
    /\ ~fenced
    /\ \/ Fault("prepare") /\ RoleStep(i, "begin", "error")
       \/ Fault("intent") /\ RoleStep(i, "begin", "infra")
    /\ UNCHANGED <<intent, ack, closure, outside, result>>

-----------------------------------------------------------------------------
(* LocalHermesExecutor.execute, seen from the role lifecycle.              *)

\* The binary is missing, a mount is missing or the process does not start.
LaunchFails(i) ==
    /\ RoleStep(i, "launch", "close")
    /\ result' = [result EXCEPT ![i] = "failed"]
    /\ UNCHANGED <<intent, ack, closure, outside, faults>>

Spawn(i) ==
    /\ RoleStep(i, "launch", "spawned")
    /\ proc' = [proc EXCEPT ![i] = "running"]
    /\ UNCHANGED <<intent, ack, closure, orphan, outputs, result, faults>>

Acknowledge(i) ==
    /\ RoleStep(i, "spawned", "attached")
    /\ ack' = ack \cup {i}
    /\ UNCHANGED <<intent, closure, outside, result, faults>>

\* Defect: the executor leaves the process running when the acknowledgement fails.
AcknowledgeFaultLeaks(i) ==
    /\ Fault("ack")
    /\ RoleStep(i, "spawned", "infra")
    /\ UNCHANGED <<intent, ack, closure, outside, result>>

\* The acknowledgement cannot be written: the executor's finally block kills
\* the process tree and the role raises an infrastructure error.
AcknowledgeFault(i) ==
    /\ Fault("ack")
    /\ RoleStep(i, "spawned", "infra")
    /\ proc' = [proc EXCEPT ![i] = "exit1"]
    /\ UNCHANGED <<intent, ack, closure, orphan, outputs, result>>

\* The heartbeat sees the fence and calls executor.cancel.
HeartbeatCancels(i) ==
    /\ pc = "gather"
    /\ role[i] = "attached"
    /\ fenced
    /\ proc[i] = "running"
    /\ \E outcome \in KillOutcomes : proc' = [proc EXCEPT ![i] = outcome]
    /\ UNCHANGED <<database, orphan, outputs, memory, bounds>>

\* The deadline of the invocation passes in the poll loop.  Unlike cancel(),
\* _terminate_process_tree waits for the process after SIGKILL.
TimesOut(i) ==
    /\ proc[i] = "running"
    /\ RoleStep(i, "attached", "close")
    /\ proc' = [proc EXCEPT ![i] = "exit1"]
    /\ result' = [result EXCEPT ![i] = "failed"]
    /\ UNCHANGED <<intent, ack, closure, orphan, outputs, faults>>

SeesExit(i) ==
    /\ Exited(i)
    /\ RoleStep(i, "attached", "close")
    /\ result' = [result EXCEPT ![i] = IF proc[i] = "exit0" THEN "succeeded" ELSE "failed"]
    /\ UNCHANGED <<intent, ack, closure, outside, faults>>

\* reconcile() of a process recorded by an earlier server: still there means
\* pending; gone means failed without an exit code, unless every declared
\* output is on disk.
Reconcile(i) ==
    /\ IF Alive(i)
       THEN /\ RoleStep(i, "reconcile", "pending")
            /\ UNCHANGED result
       ELSE /\ RoleStep(i, "reconcile", "close")
            /\ result' = [result EXCEPT ![i] =
                            IF outputs[i] = "absent" THEN "failed" ELSE "succeeded"]
    /\ UNCHANGED <<intent, ack, closure, outside, faults>>

\* Defect: the close path does not read the fence again.
SealedStatusUnfenced(i) ==
    IF result[i] = "succeeded" /\ outputs[i] = "valid" THEN "succeeded" ELSE "failed"

\* _validate_and_close: the fence overrides every result, a success is sealed
\* only if the outputs validate.
SealedStatus(i) ==
    IF fenced THEN "cancelled"
    ELSE IF result[i] = "succeeded" /\ outputs[i] = "valid" THEN "succeeded"
    ELSE "failed"

Close(i) ==
    /\ RoleStep(i, "close", "done")
    /\ closure' = [closure EXCEPT ![i] = SealedStatus(i)]
    /\ UNCHANGED <<intent, ack, outside, result, faults>>

CloseFault(i) ==
    /\ Fault("close")
    /\ RoleStep(i, "close", "infra")
    /\ UNCHANGED <<intent, ack, closure, outside, result>>

-----------------------------------------------------------------------------
(* RunCoordinator._settle_cancellation and                                 *)
(* RoleLifecycleService.settle_cancellation.                               *)

Unsettled == {i \in intent : closure[i] = "none"}

\* An intent without acknowledgement is closed without looking for a process.
SettleUnacknowledged(i) ==
    /\ pc = "settle"
    /\ i \in Unsettled \ ack
    /\ closure' = [closure EXCEPT ![i] = "cancelled"]
    /\ UNCHANGED <<status, fenced, manifest, submission, receipt, intent, ack,
                   outside, memory, bounds>>

SettleCancels(i) ==
    /\ pc = "settle"
    /\ i \in Unsettled \cap ack
    /\ proc[i] = "running"
    /\ \E outcome \in KillOutcomes : proc' = [proc EXCEPT ![i] = outcome]
    /\ UNCHANGED <<database, orphan, outputs, memory, bounds>>

\* Defect: cancel() is taken to have ended the process.
SettleTrustsCancel(i) ==
    /\ pc = "settle"
    /\ i \in Unsettled \cap ack
    /\ proc[i] # "running"
    /\ closure' = [closure EXCEPT ![i] = "cancelled"]
    /\ UNCHANGED <<status, fenced, manifest, submission, receipt, intent, ack, outside,
                   memory, bounds>>

\* reconcile() after cancel(): a dead process is closed as cancelled, a live
\* one ends the pass.
SettleReconciles(i) ==
    /\ pc = "settle"
    /\ i \in Unsettled \cap ack
    /\ proc[i] # "running"
    /\ IF Alive(i)
       THEN PassReturns /\ UNCHANGED closure
       ELSE /\ closure' = [closure EXCEPT ![i] = "cancelled"]
            /\ UNCHANGED <<pc, stage, role, result>>
    /\ UNCHANGED <<status, fenced, manifest, submission, receipt, intent, ack,
                   outside, up, queued, watchers, bounds>>

\* An exception while settling is swallowed by _handle_error.
SettleFault ==
    /\ pc = "settle"
    /\ Fault("settle")
    /\ PassReturns
    /\ UNCHANGED <<database, outside, up, queued, watchers, crashes>>

FinishCancellation ==
    /\ pc = "settle"
    /\ Unsettled = {}
    /\ status' = "cancelled"
    /\ pc' = "loop"
    /\ UNCHANGED <<fenced, manifest, submission, receipt, intent, ack, closure,
                   outside, up, queued, stage, role, result, watchers, bounds>>

-----------------------------------------------------------------------------
(* The researcher, the watchers, the agent processes and the machine.      *)

\* Defect: the notifier is not called.
RequestCancellationUnnotified ==
    /\ up
    /\ status \in Cancellable
    /\ ~submission
    /\ ~fenced
    /\ status' = "cancellation_requested"
    /\ fenced' = TRUE
    /\ UNCHANGED <<manifest, submission, receipt, intent, ack, closure, outside,
                   memory, bounds>>

\* ModelForgeService.cancel_run and HubRepository.request_cancellation: the
\* fence and the status are one transaction; the notifier queues a pass.
RequestCancellation ==
    /\ up
    /\ status \in Cancellable
    /\ ~submission
    /\ ~fenced
    /\ status' = "cancellation_requested"
    /\ fenced' = TRUE
    /\ queued' = queued + 1
    /\ UNCHANGED <<manifest, submission, receipt, intent, ack, closure, outside,
                   up, pc, stage, role, result, watchers, bounds>>

\* Defect: the watcher ends without scheduling a pass.
WatcherEndsSilently(i) ==
    /\ i \in watchers
    /\ status # "running" \/ ~Alive(i)
    /\ watchers' = watchers \ {i}
    /\ UNCHANGED <<database, outside, up, queued, pc, stage, role, result, bounds>>

\* _watch_pending: gives up once the run is no longer running, queues a pass
\* once the process is gone.
WatcherEnds(i) ==
    /\ i \in watchers
    /\ \/ /\ status # "running"
          /\ UNCHANGED queued
       \/ /\ status = "running"
          /\ ~Alive(i)
          /\ queued' = queued + 1
    /\ watchers' = watchers \ {i}
    /\ UNCHANGED <<database, outside, up, pc, stage, role, result, bounds>>

\* An agent writes its output files.  Bytes written after the closure change
\* nothing: the closure refers to the copies in the artifact store.
WriteOutputs(i) ==
    /\ proc[i] = "running" \/ i \in orphan
    /\ closure[i] = "none"
    /\ \E written \in {"invalid", "valid"} : outputs' = [outputs EXCEPT ![i] = written]
    /\ UNCHANGED <<database, proc, orphan, memory, bounds>>

ProcessExits(i) ==
    /\ proc[i] = "running"
    /\ \E code \in {"exit0", "exit1"} : proc' = [proc EXCEPT ![i] = code]
    /\ UNCHANGED <<database, orphan, outputs, memory, bounds>>

\* SIGKILL takes effect.
ProcessDies(i) ==
    /\ proc[i] = "dying"
    /\ proc' = [proc EXCEPT ![i] = "exit1"]
    /\ UNCHANGED <<database, orphan, outputs, memory, bounds>>

OrphanExits(i) ==
    /\ i \in orphan
    /\ orphan' = orphan \ {i}
    /\ UNCHANGED <<database, proc, outputs, memory, bounds>>

\* Only a launched but unacknowledged process is lost track of.
Crash ==
    /\ up
    /\ crashes < MaxCrashes
    /\ crashes' = crashes + 1
    /\ up' = FALSE
    /\ queued' = 0
    /\ watchers' = {}
    /\ PassReturns
    /\ orphan' = orphan \cup {i \in Inv : role[i] = "spawned" /\ proc[i] = "running"}
    /\ proc' = [i \in Inv |-> IF role[i] = "spawned" THEN "none" ELSE proc[i]]
    /\ UNCHANGED <<database, outputs, faults>>

\* resume_incomplete schedules every run that is not terminal.
Restart ==
    /\ ~up
    /\ up' = TRUE
    /\ queued' = IF status \in TerminalRunStatuses THEN 0 ELSE 1
    /\ UNCHANGED <<database, outside, pc, stage, role, result, watchers, bounds>>

-----------------------------------------------------------------------------
LoopStep ==
    \/ AcquireLock
    \/ LoopTerminal
    \/ BeginPreparation
    \/ FreezeManifest
    \/ PreparationFails
    \/ MarkPrepared
    \/ BeginRunning
    \/ BeginExecution
    \/ BeginSettlement
    \/ BeginValidation
    \/ Validate
    \/ CommitPublication
    \/ PublicationRefused
    \/ MarkPublished

StageStep ==
    \/ StageCancelled
    \/ EnterStage
    \/ StageUnresolved
    \/ StageRaised
    \/ StageClosed
    \/ SealSubmission

RoleProgress(i) ==
    \/ RoleReuses(i)
    \/ RoleFenced(i)
    \/ RoleIntends(i)
    \/ LaunchFails(i)
    \/ Spawn(i)
    \/ Acknowledge(i)
    \/ HeartbeatCancels(i)
    \/ TimesOut(i)
    \/ SeesExit(i)
    \/ Reconcile(i)
    \/ Close(i)

SettleStep ==
    \/ \E i \in Inv : SettleUnacknowledged(i) \/ SettleCancels(i) \/ SettleReconciles(i)
    \/ FinishCancellation

\* Transient failures of the harness's own writes.
FaultStep ==
    \/ TransitionFault
    \/ ProgressFault
    \/ SettleFault
    \/ \E i \in Inv : RolePrepareFault(i) \/ AcknowledgeFault(i) \/ CloseFault(i)

HarnessStep ==
    \/ LoopStep
    \/ StageStep
    \/ \E i \in Inv : RoleProgress(i)
    \/ SettleStep

AgentStep(i) == WriteOutputs(i) \/ ProcessExits(i) \/ ProcessDies(i) \/ OrphanExits(i)

Next ==
    \/ HarnessStep
    \/ FaultStep
    \/ RequestCancellation
    \/ \E i \in Inv : WatcherEnds(i) \/ AgentStep(i)
    \/ Crash
    \/ Restart

Spec == Init /\ [][Next]_vars

-----------------------------------------------------------------------------
(* Fairness.  The event loop runs every ready task, and a killed process   *)
(* dies; a supervisor restarts the server.  Nothing is assumed of the      *)
(* researcher, and nothing of an agent.                                    *)

HarnessFairness ==
    /\ WF_vars(LoopStep \/ StageStep \/ SettleStep)
    /\ \A i \in Inv : WF_vars(RoleProgress(i))
    /\ \A i \in Inv : WF_vars(WatcherEnds(i))
    /\ \A i \in Inv : WF_vars(ProcessDies(i))
    /\ WF_vars(Restart)

LiveSpec == Spec /\ HarnessFairness

\* An agent process exits sooner or later by itself.
AgentsExit == \A i \in Inv : WF_vars(ProcessExits(i))

-----------------------------------------------------------------------------
(* Safety.                                                                 *)

\* A submission rests on a succeeded closure of every role of the plan, however
\* many passes, crashes and partial stages produced them: the assembler never
\* seals a chain with a failed, cancelled or missing link.
SubmissionSealsWholeChain == submission => ChainSucceeded

\* Cancellation and submission race for the run, and exactly one wins: the fence
\* and the submission row never exist together.
OneWinner == ~ (submission /\ fenced)

\* No role is even intended before every role of every earlier stage closed as
\* succeeded, also when a restarted pass walks the stages again.
NoWorkAheadOfBasis == \A i \in intent : BasisBefore(StageOf[i])

\* When the run says cancelled, every intent is sealed, and no process the
\* journal knows of is alive: late output has nobody left to write it.
CancelledIsQuiescent ==
    status = "cancelled" =>
        \A i \in intent : closure[i] # "none" /\ (i \in ack => ~Alive(i))

\* From the instant the fence is durable, whatever pass, watcher or restart is
\* under way, no role starts, and output that arrives is diagnostic only: no
\* closure becomes succeeded any more, not even of a role that had finished.
FenceHolds ==
    [][fenced =>
          /\ intent' = intent
          /\ \A i \in Inv : closure'[i] = "succeeded" => closure[i] = "succeeded"]_vars

\* The durable record of the run is an implementation of the journal.
Journal == INSTANCE RunJournal
               WITH status <- status, fenced <- fenced,
                    submission <- submission, receipt <- receipt
JournalSpec == Journal!Spec

-----------------------------------------------------------------------------
(* The inductive invariant: what is true of the pass and of the journal    *)
(* together at every instant, and keeps the safety properties true.        *)

\* What the status says about where the pass is, and about the fence and the
\* submission row.
StatusInv ==
    /\ pc \in {"stage", "gather"} => status \in {"running", "cancellation_requested"}
    /\ pc = "settle" => status = "cancellation_requested"
    /\ submission => pc \in {"idle", "loop"}
    /\ submission => status \in {"submitted", "validating", "promoting", "published",
                                 "failed", "rejected", "conflicted"}
    /\ status \in {"submitted", "validating", "promoting", "published"} => submission
    /\ fenced <=> status \in {"cancellation_requested", "cancelled"}

\* Coroutines run only for the roles of the stage being executed, whose basis
\* is closed.
ScopeInv ==
    /\ \A i \in Inv : role[i] # "idle" => pc = "gather" /\ StageOf[i] = stage
    /\ pc = "gather" => BasisBefore(stage)

\* A coroutine that has an execution in hand works on an intended, unsealed
\* one; a live process is either acknowledged or about to be, and a sealed
\* execution has none.
HandInv ==
    \A i \in Inv :
        /\ role[i] \in {"launch", "spawned", "attached", "reconcile", "close"} =>
              closure[i] = "none" /\ i \in intent
        /\ role[i] \in {"launch", "spawned"} => i \notin ack
        /\ i \in ack => i \in intent
        /\ Alive(i) => i \in ack \/ role[i] = "spawned"
        /\ closure[i] # "none" \/ role[i] = "close" => ~Alive(i)

\* A cancelled run has settled every intent.
SettledInv == status = "cancelled" => Unsettled = {}

\* The conjunction that every step preserves.
IndInv ==
    /\ TypeOK
    /\ StatusInv
    /\ ScopeInv
    /\ HandInv
    /\ SettledInv
    /\ NoWorkAheadOfBasis
    /\ SubmissionSealsWholeChain

-----------------------------------------------------------------------------
(* Liveness.                                                               *)

\* If agents end by themselves, a run comes to an end, across crashes, in-flight
\* agents and restarts: a pending execution has a watcher, a watcher a pass.
RunTerminates == AgentsExit => <>(status \in TerminalRunStatuses)

\* A requested cancellation is settled, whether or not the agents cooperate.
CancellationSettles == fenced ~> status = "cancelled"

-----------------------------------------------------------------------------
(* What the documents and comments of the repository say, and the program  *)
(* does not do.                                                            *)

\* ADR-012, decision 7: restart reconciliation never relaunches.  At most one
\* process of an invocation is alive.
OneProcessPerRole == \A i \in orphan : ~Alive(i)

\* 02-run-harness, section 3: cancelled means that no role process remains
\* active.
NoProcessAfterCancelled ==
    status = "cancelled" => \A i \in Inv : ~Alive(i) /\ i \notin orphan

\* 02-run-harness, section 11.4: a healthy in-flight agent is never dependent on
\* the next restart to be noticed.
InFlightIsWatched ==
    up /\ pc = "idle" /\ queued = 0 /\ status = "running" =>
        \A i \in ack : Alive(i) => i \in watchers

\* 02-run-harness, section 2.4: a failed run ended without a formal commit.
FailedWithoutCommit == status = "failed" => ~receipt

\* 02-run-harness, section 11.4: bookkeeping failures leave the run running;
\* only a role that closed as failed ends it.
OnlyRolesFailARun ==
    [][status = "running" /\ status' = "failed" =>
         \E i \in Inv : closure[i] = "failed"]_vars

=============================================================================
