# A formal model of model-forge

model-forge runs scientific work by external agents ("roles") under a harness
that freezes inputs, launches role processes, validates and seals what they
wrote, and publishes the result into a project's formal records. Beside the
harness there is a supervised lane that launches one role with a copy of its
memory, a diagnostic lane for one-shot tests of a Hermes profile, and the
configuration of profiles and skills that all of them work with. This
directory holds TLA+ modules of these, the TLC configurations that check
them, and TLAPS proofs about them. Paths below are relative to the package,
`src/src/model_forge/`; design documents are in `src/architecture/design/`.

## 1. Inventory

The server is one asyncio process over one SQLite database and one data
directory. HTTP handlers and coordinator tasks interleave at awaits; a database
write is one `BEGIN IMMEDIATE` transaction. Agents are separate processes in
sessions of their own and survive the server.

| Component | State it keeps | Operations | Talks to | Hard behaviours | What makes it correct |
|---|---|---|---|---|---|
| Run status (`domain/runs.py`) | `runs.status`, `cancellation_fenced` | the transition table | every writer of a run | several writers of one row | only tabled moves; cancel and submit exclude each other |
| Run coordinator (`application/run_coordinator.py`, `run_lifecycle.py`) | one lock and the watchers, in memory | `run`, `notify`, `resume_incomplete`, `_prepare`, `_execute`, `_settle_cancellation`, `_validate`, `_promote`, `_handle_error`, `_watch_pending` | orchestrator, role lifecycle, publisher, repository | crash between two writes, pass ended with nothing scheduled, errors turned into statuses | a live run always has something to bring it forward; a run ends; the status tells the truth about the publication |
| Stage orchestration (`orchestration/sequential.py`, `harness/stage_execution.py`) | none | walk the stages, gather parallel roles | role lifecycle | partial stages re-entered after a crash, several roles failing at once | nothing starts ahead of its basis |
| Role lifecycle (`harness/role_execution.py`, `execution_observer.py`) | intents, acknowledgements, closures | `execute_or_reconcile`, `settle_cancellation`, `execute_correction`, `_validate_and_close` | executor, repository, artifact store | crash between spawn and acknowledgement, late output, cancellation during a role | one closure per execution, never a success after the fence, never two processes |
| Local executor (`executors/local_hermes.py`) | the child process | `execute`, `cancel`, `reconcile` | operating system, observer | slow or refused kills, PID reuse, deadline | cancel ends the process, reconcile recognises it |
| Submission (`harness/submissions.py`) | `run_submissions` | `submit_or_reconcile` | repository | race with cancellation | whole chain succeeded, fence open |
| Publication (`harness/publication.py`, `publication_basis.py`) | formal head, slots, receipts, authority events | `publish` | repository, artifact store | several runs on one head, crash before the status write | a run publishes at most once and never over a head it did not see |
| Correction lane (`application/correction.py`, `correction_execution.py`) | `correction_commands`, `run_validation_attempts` | authorise, revalidate (lane A), re-invoke (lane B), complete | coordinator, role lifecycle | restart in every step, bounded attempts, replay | bounds hold, a correction ends somewhere |
| Supervised lane (`application/run_launcher.py`, `run_preflight.py`, `run_profile_assembler.py`) | seals, launch records, state lock with lease and fencing token, launch threads | seal, dispatch, launch, cancel, reconcile, watch | executor, state promotion | threads beside the event loop, leases that run out, a killed server whose processes live on | one writer of the role state, a launch record closed once and truthfully |
| State promotion and retention (`application/state_promotion.py`, `retention.py`) | memory and session of a role, backups, promotion records | promote, roll back; plan a pruning | file system | crash or failure between two renames | memory, session and record change together, and nothing promoted is lost |
| Command acceptance (`application/service.py`, `project_commands.py`, `method_lifecycle.py`) | sealed commands, idempotency keys | start, cancel, correct, create, rename | everything | same key twice, crash between sealing and effect | one effect per key |
| Configuration (`configuration/`, `profiles/`, `profile_views.py`, `role_resource_snapshot.py`) | profile mappings, skill matrix and its copies, installed skills and role files | assign, edit the matrix, provision, install, freeze for a run | file system, repository, coordinator | an old page, a copy nobody refreshes, kills and failures between renames | runs use what was reviewed, nothing that a user wrote is lost, answers are true |
| Artifact store (`storage/artifacts.py`) | content-addressed files | put, verify, open | file system | two writers of one digest | write once |
| Output repair (`harness/role_execution.py`, `outputs.py`, `envelope.py`, `output_adapters.py`, part of `correction_execution.py`) | files of a role, sidecars and snapshots, artifacts, the repair records of a closure | populate, preserve, repair, validate, seal; normalize | role lifecycle, correction lane | kills between rewriting a file and recording what was rewritten, pointers between outputs, catalogs that change | what the agent wrote can be recovered, every change is disclosed, a passing closure points at what it sealed |
| Index reducers and validators (`harness/index_reducers.py`, `scientific_validators.py`, `submission_validation.py`) | the literature library, the method catalogue, the issue ledger | validate a submission, reduce its events into the current records | publication, inputs of the next run | what a run may rely on was written runs ago, under rules of another phase | accepted records stand on each other; the ledgers agree with their history |
| Kanban executor (`executors/hermes.py`) | external board | execute, cancel, reconcile | external service | no deadline | as the local executor |
| Diagnostics (`diagnostics/`) | invocations, profile locks, snapshots and quarantine | start, cancel, reconcile commands | executor, profile directories, database | every command is a process of its own; status read and written in two transactions; kills between renames | one command at a time on a profile, one process per key, the profile is never gone |
| Contracts, schemas, digests, API, views, briefs | none | pure functions | — | — | — |

## 2. Plan

| Order | Modules | Subject | State |
|---|---|---|---|
| 1 | `RunTransitions`, `RunJournal`, `RunHarness`, `MCRunHarness`, `RunHarnessProofs` | one run from command to terminal status | done |
| 2 | `Correction`, `MCCorrection`, `CorrectionProofs` | lanes A and B over the same run row: bounds, restarts, resume | done |
| 3 | `PublicationLog` (abstract), `Publication`, `MCPublication`, `PublicationProofs` | several runs and the researcher's commands, one formal head | done; refines the log |
| 4 | `StateRegister` (abstract), `SupervisedLane`, `MCSupervisedLane`, `SupervisedLaneProofs` | the one-role lane with the promotion of its state | done; refines the register |
| 5 | `DiagnosticLane`, `MCDiagnosticLane`, `DiagnosticLaneProofs` | start, cancel and reconcile commands on one profile | done |
| 6 | `RoleConfiguration`, `MCRoleConfiguration`, `RoleConfigurationProofs` | assignments, skills, provisioning and the runs that freeze them | done |
| 7 | `ScientificRecords`, `MCScientificRecords`, `ScientificRecordsProofs` | the documents of successive runs: validators, reducers, ledgers | done |
| 8 | `OutputRepair`, `MCOutputRepair`, `OutputRepairProofs` | the outputs of one role from the agent's files to the closure, and what corrections do to them | done |
| 9 | `ExecutorIdentity` | PID reuse, reboot; kanban executor | open |
| 10 | `ArtifactStore` | write-once files | open |

Every safety property of the runs has its theorem (section 6). What is left to
prove is that `ClosureIsCoherent` needs no weaker conditions than the two of its
theorem, and the properties of further modules.

## 3. Modules and the code

`RunTransitions` is the vocabulary of `domain/runs.py`: the statuses, the
terminal set, the table `_TRANSITIONS`, and the statuses in which
`run_views.py` allows a cancellation.

`RunJournal` is the abstract specification: what a reader of the database may
rely on. A run moves along the table; cancelling sets fence and status
together; submitting sets submission row and status together; a publication
commits its receipt while the run is `promoting`, and from then on the run can
only become `published`.

`RunHarness` is the detailed one. Its variables are in four groups.

| Variables | Code |
|---|---|
| `status`, `fenced`, `manifest`, `submission`, `receipt`, `intent`, `ack`, `closure` | the database rows of one run |
| `proc`, `orphan`, `outputs` | agent processes and the files they write; `orphan` holds roles with an older live process whose identity was never recorded |
| `up`, `queued`, `pc`, `stage`, `role`, `result`, `watchers` | the memory of the server: tasks waiting for the run's lock, the place of the task that holds it, one coroutine per role, watchers |
| `crashes`, `faults` | bounds |

A step is what happens between two awaits, split again between two database
commits, since the server can crash there. Groups of actions:

* `LoopStep`: one iteration of `RunCoordinator.run`, by status.
* `StageStep`: `ContractSequentialOrchestrator.execute` and
  `execute_or_reconcile_stage`: cancellation checks, basis, the outcome of a
  gathered stage, sealing.
* `RoleProgress(i)`: `execute_or_reconcile` of one role with the executor's
  launch, acknowledgement, poll loop, deadline and reconcile.
* `SettleStep`: `_settle_cancellation` and `settle_cancellation`.
* `FaultStep`: one write of the harness fails. The sites are named in
  `AllFaultSites`; which may fail, and how often, are constants.
* `RequestCancellation`, `WatcherEnds`, `Restart`: what starts or queues a pass.
* `WriteOutputs`, `ProcessExits`, `ProcessDies`, `OrphanExits`, `Crash`: the
  outside world, modelled from how the code uses it.

Choices a reader should know:

* `RequestCancellation` may fall between any two commits of a pass. The code
  relies on the database transaction for this, not on the event loop; the model
  has every interleaving of the single process and a few more. A cancel whose
  compare-and-swap loses ("refresh and cancel again") is a refused request.
* `compare_and_swap_run` and the progress events bump `head_sequence`. Reading
  the row and swapping happen with no await in between, so the sequence number
  is left out.
* What validators, preparation and the publication transaction compute is a
  nondeterministic verdict.
* Declaration order of parallel roles is arbitrary.
* The 24-iteration limit of the loop is never reached: the longest pass takes
  eight iterations.
* A graceful shutdown is a crash followed by the exit of the process.
* The correction statuses are in the vocabulary and are not entered here:
  `failed` and `rejected` are terminal for the advancement pass. `Correction`
  takes over from there.
* A process that `_terminate_process_tree` kills is gone when it returns, since
  that function waits after SIGKILL; `cancel()` does not, and with `SlowKill`
  the process may still be there.

`Correction` is the lane that follows a failed or rejected run. It shares
`RunTransitions` with the harness and keeps the pipeline coarse: a role closes
in one step, a stage fails, a run submits and is judged, a cancellation
settles. Its own part is in full.

| Variables | Code |
|---|---|
| `status`, `correctable`, `issued` | the run row: status, whether its `closure_findings` admit a correction, and the types whose command identity is taken at the current head |
| `commands`, `attempts`, `closures`, `open` | sealed commands, `run_validation_attempts`, role closures in closing order, acknowledged executions of corrections that are not closed |
| `base`, `submitted` | the `run_submissions` row, and the closures that the newest submission document lists |
| `up`, `hold`, `workers`, `tracked`, `callback` | the coroutine that has the event loop, the detached lane B workers, `_correction_tasks[run_id]`, a done callback that has yet to run |

* `RequestCorrection` is everything `request_output_correction` decides before
  it seals the command: status, correctable findings, target, scope, the
  coverage of a normalization, bounds, a busy lane, command identity.
  `Authorize`, `Begin` (lane B) and `Check`, `Acknowledge`, `Close`, `Advance`
  (lane A) are its later commits.
* `Launch`, `WorkerReturns`, `Close`, `Count` are the worker:
  `execute_targeted_correction`, `execute_correction`,
  `_validate_and_close_correction`. `WorkerWithdraws` and `WorkerTurnedAway` are
  its two reactions to a cancelled run; `WorkerFault`, `PreservationFault` and
  `CloseFault` are writes that fail.
* `Resume`, `SealSubmission`, `InsertSubmissionAttempt` and `Resubmit` are
  `_complete_correction_pass` with the submission assembler.
* The handler has no await after its first read and the worker none after the
  executor returns, so while `hold` is taken only a crash intervenes.
* Of a closure's bytes the model keeps which outputs were sealed and which of
  those an agent changed without authority (`strayed`). The latter is not in
  the database; it is there to state `OutOfScopeIsIdentical`. A packaging
  correction is treated as a scientific one: its JSON-pointer limits are one
  level below what the model tells apart.
* A done callback runs in the turn of the event loop after its task ended, and
  a request may already be waiting in that turn: `callback` keeps the two
  apart. With it two workers of one run can be at work.
* Lane A never passes on a closure that failed its structural validation with
  an unchanged catalog, since invalid outputs are not sealed (`SealsAll`).

`PublicationLog` is the abstract specification of a project's formal records:
one log of receipts, each of which replaces slots it has read at their current
generation. `Publication` is the detailed one: the runs of a project and the
researcher's requests, under idempotency keys, with a crash between any two
commits.

| Variables | Code |
|---|---|
| `receipts`, `current`, `listing` | `publication_receipts`, the current generation of each slot, the method catalogue |
| `status`, `command`, `basis`, `output`, `corrections` | the run rows: status, the sealed command, the frozen basis, what the run submitted |
| `request`, `answer`, `sealed`, `projects` | what clients sent and were told, sealed commands, project rows |
| `up`, `busy`, `crashes` | the server, the handler that has the event loop, bound |

* `AdmitStart`/`RefuseStart`/`ReplayStart`/`SealStart`/`CreateRun`,
  `SealControl`/`PublishBrief`/`PublishLifecycle`, `SealCancel`/`Fence`,
  `CreateRow`/`BootstrapBrief`/`AttachRawRequest` are the handlers of
  `application/service.py`, `project_commands.py` and `method_lifecycle.py`, one
  action per commit. A handler holds the event loop until it has answered.
* `Claim`, `Prepare`, `Execute`, `Correct`, `Validate`, `PublishRun`, `Settle`
  are a run. Execution and correction are one step each, since `RunHarness` and
  `Correction` have them in full.
* Heads are a hash chain over receipts, so a head is the length of the log.
  Phase 2 stands for the phases with an index and keyed slots, phase 3 for those
  that work on one method.

`StateRegister` is the abstract specification of a role's state: memory,
session and the promotion record are replaced in one step, each run once, and
only a replacement that is cut short may damage them: by a killed server, or by
a second failure in the rollback from the first. `SupervisedLane` is the detailed
one.

| Variables | Code |
|---|---|
| `canon`, `backups` | `memories/` and `state.db` in the role's profile with their last-known-good copies |
| `lock`, `tokens` | `project_role_state_locks`, `run_fencing_tokens` |
| `seal`, `runDir`, `launch`, `promoted` | seals with their manifests, run directories, launch and promotion records |
| `up`, `loop`, `worker`, `swap`, `cancelEvent`, `watching` | the server: the handler that has the event loop, launch threads, the replacement under way, `_cancel_requests`, `_reconcile_watchers` |
| `process`, `hasSession` | the Hermes process of an invocation and whether its profile has a `state.db` |
| `lapsed`, `interrupted`, `mishaps` | what happened, for the properties (leases that ran out, the number of replacements cut short), and the bound |

* Request handlers do not await before they answer; launch threads run between
  any two of their steps. A mishap is a killed server, a failed file or database
  operation, or a lease that runs out under a living holder.
* `promote_run_state` takes the lock its launch already holds and its release
  removes the row of both; the model does the same.
* `Validate` and the second preflight are verdicts. `PromotionFails` covers
  staging, the renames, the digest and the record, and leaves the list of targets
  to put back, in the order of the handler that caught it: when the renames or a
  digest fail, the completed targets last first and then the one in flight
  (`state_promotion.py:655`); when the record fails, all of them last first (`760`).
* `RemoveReplaced` and `PutBack` are `_restore_target`, its removal and its rename; a
  kill can come before each. `UndoFails` is one of them failing: nothing
  catches that, so this target and those after it stay as they are, the thread
  ends and releases the lock, and only a line in the log tells. A tree that is
  half removed counts as the content of its run.
* A lease runs out while the process runs or after its holder died, never in
  the seconds of a seal or a promotion.
* A failed lock acquisition also issues a fencing token in the code; tokens are
  compared for equality only, and the model leaves that one out.

`DiagnosticLane` has a process per command over one profile.

| Variables | Code |
|---|---|
| `row`, `lock` | `diagnostic_invocations`, `profile_execution_locks` |
| `profile`, `staging`, `backup`, `snapshot` | the profile directory and its neighbours, the runtime snapshot or quarantine of an invocation; content is the set of runs whose work it holds |
| `runner`, `canceller`, `hermes` | where a start command is, the cancel command at work, the Hermes process of an invocation |
| `lapsed`, `cancels`, `mishaps` | history and bounds |

* `update_status` reads the row and decides in one connection and writes in
  another: `Check` and `Write` (or `CancelChecks` and `CancelWrites`) are two
  steps. `Written`, `After`, `OnRefusal` and `OnFault` say, for the point a start
  command has reached, what it writes and where it goes on when that is done,
  refused, or ends in an exception.
* `Stage` to `CleanBackup` are `promote_snapshot`, a step per rename or removal.
* `HermesWorks` writes into the profile, not into the snapshot: see
  `FailureLeavesNoTrace` in section 7.
* A fencing token is issued once per fresh invocation id, so its comparison
  never fails and is left out. What validation says of an output is a verdict.

`RoleConfiguration` is one project with its roles, the profiles root and the
runs.

| Variables | Code |
|---|---|
| `settings`, `rows` | the profile of each role in the server's settings, and `profile_mappings` over it; `Effective` is what a reader sees |
| `matrix`, `loaded` | `skill-assignments.json` with the copy of the service, and the copy of the run coordinator |
| `page` | a configuration page left open: the mapping its action descriptors are bound to |
| `run` | status, the role resources that the start was reviewed with, those that preparation froze |
| `home`, `left` | the profile directories, and backups and directories set aside that nobody will remove |
| `work` | the provisioning under way: where it is, on what, with which choices and backup |
| `valued`, `worked`, `raced`, `commands`, `mishaps` | what is to be kept, and bounds |

* `SaveProfile` is `save_profile` with `compare_and_set_profile_mapping`: the
  request names a descriptor, the handler rebuilds the view, and the row is
  written without an await between. `Offered` and `Acceptable` are its two checks.
* `StartRun` and `Prepare` each compute the resources (`compute_role_resources`),
  one over `matrix` and the other over `loaded`; `Prepare` compares them
  (`_verify_sealed_basis`). One matrix value stands for the skills of the phase
  at hand, and every phase takes every role.
* `ProvisionRole` starts `provision_role_definition`; `TakeBackup` to `Cleanup`
  are its steps, one per operation that changes the disk, and `SetAside`,
  `PutBack`, `Discard` are `_restore_backup`. `ProvisionFault` is an exception in
  any step within the try block, `RestoreFault` one in the rollback, `Restart` a
  killed server. A copy or removal of a tree is one step.
* One role file stands for `SOUL.md`, the base configuration and the guidance,
  and one skill for those of a role: they are handled one after the other in
  the same way, and a failure in any rolls back all.
* `InstallSkill` is enabled only when its descriptor would be current. The
  removal of a backup after a success is best effort in the code as well.
* Handlers hold the event loop, so no other command runs during a
  provisioning. Agents do (`AgentWorks`): what one remembers while the backup
  is being restored is `raced`, and may be discarded.

`ScientificRecords` is what the runs of a project write, one run after another.

| Variables | Code |
|---|---|
| `current`, `history` | the current slots of the scientific records, and the sources that were ever published |
| `run`, `pc`, `mode`, `method` | the run, where it is, what its command selected |
| `written`, `stamp` | what the agents wrote, output by output, and when each timed output was closed |
| `findings`, `used` | the codes of its validation report, the correction lanes that are spent |

* `Start` resolves the required inputs; `Close(role)` takes what an agent wrote;
  `Reject` and `Publish` judge the whole submission; `Correct` lets one role
  write some of its outputs again.
* `Populated` is `populate_harness_fields` over the fields that some validator
  relates to each other. Documents keep identifiers and references, identities,
  statuses, and of their prose whether it is there.
* `PhaseFindings` has one operator per rule of `scientific_validators.py`, named
  for what it looks at; `Blocking` drops what does not reject. `HasCycle` is the
  depth-first search over the dependencies of statements: a recursive function of
  the visited nodes and the stack, one `Turn` per iteration of the loops.
* `Records` is what the reducers make of the frozen index and the submission:
  the library with its merging of sources, the catalogue, the ledger.
  `Implausible` are the errors of the publication plan.
* `library` stands for the three records of phase 1, `empirical` for those of
  phase 4: each group is required, written and published together. Optional
  context is frozen whenever it is there; that a researcher may deselect it is
  left out. Runs that compete for the head are in `Publication`, the execution
  of a correction in `Correction`.

`OutputRepair` is what happens to the files of one role.

| Variables | Code |
|---|---|
| `disk`, `sidecar`, `snapshots`, `artifacts` | the files of the execution, the copies `.as-authored` beside them, archived workspaces, artifact rows |
| `closures` | the closures of the role with their sealed documents, transformation records and findings |
| `authored` | what the agent left; kept in the model only, to state `AuthoredIsRecoverable` |
| `catalog` | the schema catalog that is installed |
| `pc`, `next`, `raw`, `records`, `findings`, `verdict` | where the closing of an execution is, and what it holds in memory |
| `lane`, `scope`, `permitted`, `source` | who works, and for a correction what it may change and of which closure |
| `tick`, `faults` | the time of the repair passes, and the bound |

* A document is a function from fields to values, and a value a pair of a kind
  and what is told apart. Bytes and digest are the document itself.
* `AgentReturns`, `Preserve`, `RepairOutput` (one output at a time), `Judge`,
  `SealOutput`, `Close` are `_validate_and_close` and
  `_validate_and_close_correction`; `Interrupt` is a crash or failed write at any
  of these steps, `Reconcile` the restart that closes the same files again,
  `UpgradeCatalog` the installation of another version in between.
* A schema that declares nothing at its top level (all of it under `allOf`, as in
  `manuscript-package.schema.json`) is `Bare`: the harness fills in its fields and
  repairs its identifiers, and takes no digest, stamps no pointer and removes no
  field afterwards (`role_execution.py:187`, `239`).
* `Tidied`, `Stamped` and `Hashed` are the mechanical repairs in the order in
  which the code applies them, `Entries` the disclosure of them.
* `Correct` and `Normalize` are the corrections by an agent and by the program,
  `Preview` what the researcher is shown before the latter.
* Left out: the repair of `identity.version`, documents that are arrays, and
  pointers from inputs (`_stamp_canonical_artifact`).

## 4. Runs

All runs of `RunHarness` use three roles: `lead` alone in stage 1, `left` and `right` in the
parallel stage 2. Two stages are needed for a basis, two parallel roles for an
error that hides a sibling; a third stage or role adds no new pair. The safety
run uses the symmetry of `left` and `right`; runs with liveness properties do
not. Deadlock is not checked: a run ends, and a pass may end with nothing left
to do.

| Run | Specification | Bounds | Shows |
|---|---|---|---|
| safety | `Spec` | 2 crashes, 1 fault at any site but `mark_published`, slow kills | inductive invariant (with the type), safety, action properties, refinement of the journal |
| liveness | `LiveSpec` | 2 crashes, no fault | `RunTerminates` for agents that exit, `CancellationSettles` for any |

The runs of `Correction` use two stages of one role each; the second role has
not run when the first one fails, so that a pass can resume or submit. Where
the properties depend on it the first role declares two outputs, so that a
scope can leave one out and a closure can seal a part; lane_safety has one
output per role, which leaves room for a crash and a fault together. Three
commands allow both bounded attempts and one more.

`CorrectionsAreVisible` says that a command has one attempt and one closure at
most, that a passing closure has its attempt, and that the bounded types are
attempted once as long as no write was lost. With a lost write the bound does not hold
(`AttemptsAreBounded` in section 7).

| Run | Specification | Bounds | Shows |
|---|---|---|---|
| lane_safety | `Spec` | 3 commands, 1 crash, 1 fault | type, safety and action properties |
| lane_calm | `FairSpec` | 3 commands, two outputs | liveness without crash and fault |
| laundering | `Spec` | 2 commands, two outputs | bytes refused for their blast radius are accepted by a revalidation |

The other modules:

| Run | Specification | Bounds | Shows |
|---|---|---|---|
| formal | `FairSpec` | 2 runs, 2 requests of any kind, 2 methods, 1 crash, 1 correction | type, catalogue, keys, answers, refinement of the log, every run ends |
| supervised | `FairSpec` | 2 invocations, 2 policies, 2 mishaps | type, one writer, whole snapshots, surviving state, truthful closings, refinement of the register, every launch is closed |
| diagnostic | `Spec`, symmetry | 2 starts, 2 keys, 2 policies, 1 cancellation, 2 mishaps | type, one command at work, one process per key, surviving profile, terminal statuses, no foreign work discarded |
| configuration | `Spec`, symmetry | an author and the reviewer, 3 profiles, 1 run, 1 edit, 2 matrices, 2 commands, 1 mishap | type, reviewed resources, displayed assignments, nothing lost, true answers |
| records | `Spec` | 2 runs after records of every age, 2 methods, 2 versions, 2 digests, both correction lanes | type, records that stand on each other, a library that is up to date, theories without circles, answered issues |
| unread_ledger | `Spec` | 2 runs of `review_revision` | the ledger of the reviewed version is not among the inputs of a review |
| repair | `Spec` | a view, a record that points at it and a manuscript with a bare schema, 2 catalogs, 3 closures, crashes and failed writes together | type, recoverable originals, exact disclosure, coherent closures, outputs out of scope returned, repairs that agree with normalization |

Two runs on one head are the smallest conflict, and a third only meets the same
conflict again; two requests reach every pair of commands between two commits.
Two holders of a lock suffice for every property about locks, since a third
one finds what the second finds. Two mishaps reach a failure during the
recovery from another, and a lease that runs out around a kill. Two
configuration commands are an edit and what overtakes it, or a user's version
and the provisioning over it; three profiles leave the roles a free one; one
mishap reaches a kill or failure at every step of a provisioning and, after a
conflict, at every step of its rollback.

Two runs after `Earlier` records that are absent, written or renewed give every
pair of a record and what was published over it; with two versions and two
digests an identity can differ in either. The documents in
`MCScientificRecords` are for each output a correct one and one for each thing
that its validators look for, so that every rule decides some run.
Three events of `OutputRepair` are two closures with a mishap between them, a
closure interrupted twice, or a closure, its correction and the correction of
that; two outputs are the least in which one points at the other, and the third
has the kind of schema that they have not. The agent writes any of the documents
of each, but a correction is asked for either the first two or the manuscript
(`Asked`), which meet in no repair.

One crash of the harness reaches every pair of adjacent writes; the second covers a crash
during the recovery from the first, and an orphan of a relaunch. One fault
suffices because a fault ends its pass or its coroutine.

Some properties that are proved are in no run, since the theorem says more than
the instance would: `EndedIsTerminal`, `DiscardsOnlyItsOwn`, `SavesAsShown`,
`OneProcessPerKey`.

## 5. Fairness

`HarnessFairness` is weak fairness of the pass, of every role coroutine, of
every watcher (the event loop runs every ready task), of the death of a killed
process, and of the restart of the server. Nothing is assumed of the
researcher. `LiveSpec` assumes nothing of agents; `RunTerminates` has the
premise that a running agent process exits (`AgentsExit`), which it needs because
an adopted process has no deadline (section 7).

`FairSpec` of `Correction` is weak fairness of the coroutine that has the event
loop, of the done callback, of the pipeline, of every worker (its agent exits
or is ended by the deadline of the server that launched it) and of the restart.
Nothing is assumed of the researcher.

`FairSpec` of `Publication` is weak fairness of the handler that has the event
loop, of every run's pipeline and of the restart; clients may stop at any
time. `FairSpec` of `SupervisedLane` is weak fairness of handler steps, of each
launch thread, each watcher, the replacement and the restart, and of the exit
of a Hermes process: at its time limit, or by itself once a restart has left it
without one. `DiagnosticLane` and `RoleConfiguration` state no liveness: their
commands are run by hand and end with the handler. Nor do `ScientificRecords`
and `OutputRepair`: what brings a run forward is in the other modules.

## 6. Proofs

`RunHarnessProofs` proves for every plan (any set of roles, stages and
assignment), any bounds and any set of fault sites:

* `TypeCorrect`, `Inductive`: the type and the inductive invariant `IndInv`;
* `ChainSealed`, `ExactlyOneWins`, `BasisFirst`, `CancelledQuiesces`: the
  safety invariants of the safety run, and the exclusion of cancel and submit,
  which the refinement of the journal also has;
* `FenceAlwaysHolds`: its action property;
* `ImplementsJournal`: the refinement, for fault sites without
  `mark_published`, where it is false (`FailedWithoutCommit` in section 7).

The safety properties are not inductive by themselves. That a submission rests
on a whole chain needs to know that a stage is entered only when its basis is
closed (`NoWorkAheadOfBasis`, `ScopeInv`), and that closures never change
(lemma `ClosureStep`). That cancel and submit exclude each other needs the
fence to be exactly the two cancellation statuses (`StatusInv`). That a
cancelled run has no live acknowledged process needs to know who holds a
process at every instant: a live process is acknowledged or about to be, and
the closing of an execution finds it dead (`HandInv`). `IndInv` is the
conjunction. One lemma per conjunct has one step per group of actions; lemmas
such as `IntentStep`, `CancelledStep` and `SubmissionStep` say which single
action may write a row, and the action properties follow from them. The
refinement adds that the receipt exists only from the commit on
(`ReceiptInv`).

`DiagnosticLaneProofs` proves every property of the diagnostic run for any sets
of start commands and keys, any policies and any number of cancellations and
mishaps:

* `TypeCorrect`. To stay well typed a write must find its row, so the type is
  inductive only together with `KnownInv`: who has a row, and that no two rows
  share a key. `OneProcessPerKeyHolds` follows from it.
* `OneRunnerHolds`, `NoProcessIsLeftBehind`, from `LaneInv`: a command between
  taking the lock and its release holds it unless its lease ran out
  (`LockInv`), and a live process belongs to a command at one of the points
  that host one, or to a killed command (`AliveInv`).
* `ProfileAlwaysSurvives`, from `ProfileInv`: while no lease ran out the profile
  or its backup is there, and whoever is about to remove the backup sees the
  profile in its place.
* `DiscardsOnlyOwnWork`, from `CopyInv`: while no lease ran out and no command
  was killed, the snapshot of whoever will promote holds everything in the
  profile but that command's own work, and what was staged is that snapshot.
* `EndedIsAlwaysTerminal`, from `EndInv`: without a mishap the row of a command
  at its end is terminal or about to be made so by the cancel command at work.

The control tables of the module (`Written`, `After`, `OnRefusal`, `OnFault`) are
evaluated once, in lemmas such as `Tables`, `HostTables` and `EndTables`; the
proofs of the steps cite these and not the tables. `RunnerKeeps` and
`RunnerStays` say what no step outside of the lock and of the promotion
disturbs, so that the invariants above have to be shown only for the few steps
that matter to them.

`RoleConfigurationProofs` proves every property of the configuration run for any
roles, profiles, runs, edits and matrices and any number of commands and
mishaps:

* `TypeCorrect`, with `WorkInv`: what a provisioning has in hand at each point,
  since the type of a restored profile is that of the backup.
* `RunsArePreparedAsReviewed`, from `ReviewInv`: resources are frozen in
  preparation and at no other time. `AssignmentsAreAsShown` follows from the
  type and from what an accepted descriptor says.
* `NothingIsEverLost`, from `KeepInv`: what is to be kept is in the profile
  unless it is set aside, and in the backup as long as there is one, or in a
  directory left behind. `NothingIsLost` alone is not inductive: it would be
  satisfied by a copy in the profile only, which the rollback is about to
  discard. Every step of a provisioning is shown to conserve it.
* `ProvisioningAnswersTruly`, from `DoneInv`: how far the profile is from what the
  answer will claim, and that the backup is what the profile was.

`ScientificRecordsProofs` proves, for any methods, documents, earlier records and
number of runs:

* `RecordsAreGrounded`, from `RecordsInv`: the records are well formed, and the
  required inputs of a run in progress are still there (`InputsAreThere`),
  although nothing looks again after the start. One lemma per group of modes
  says what a publication of that mode replaces and on what it rests.
* `TypesAreCorrect`, with `WorkInv`: each output that was written is one of the
  documents that agents may write. A run of phases 3 to 5 has a method
  (`MethodIsThere`), and what a run changes methods to are identities
  (`ChangesAreMethods`).
* `LibraryIsAlwaysLatest`, from `LibraryInv`. The run sees the index and its own
  changes only, and the property is about all sources ever published;
  `LatestOfBoth` is the step between: the latest of two lists together is the
  latest of the second over that of the first. That the prior index was read is
  one of the conditions of a publication plan (`IndexUnread`).
* `IssuesAreAlwaysAnswered`: the report of the review that is accepted has no
  issue without a disposition (`AcceptedReview`), no issue is without an id
  (`IssuesHaveIds`) and so out of the account, and the last answer under an id is
  what the ledger has (`PublishedLedger`).
* `SearchIsExact`: the search for a cycle answers "yes" exactly when the nodes
  cannot be put into an order in which each depends on earlier ones only, for any
  finite graph. The recursive function is known by its equation alone. That one
  exists follows from the traces of the search (`SearchExists`); that every trace
  ends, from a least counterexample, first in the number of fresh nodes, then in
  the length of the stack (`SearchEnds`). Along a trace that finds no cycle the
  exhausted nodes are in an order (`TurnIsOrdered`, `NoCycleIsOrdered`); in a graph
  with an order the stack descends in it, so the search never returns to a node
  that is on the stack (`TurnDescends`, `OrderedHasNoCycle`).
* `TheoriesCanAlwaysBeRead`: an accepted theory has no blocking finding, so its ids
  are single, its dependencies known and its search without a cycle
  (`AcceptedTheory`); the order of `SearchIsExact` is one in which the statements
  can be read (`ReadFromTheFront`).

`OutputRepairProofs` proves, for any outputs, schemas, documents and number of
mishaps:

* `AuthoredIsAlwaysRecoverable`, from `RecoveryInv`: files are rewritten only
  after an archive has what the agent left, also when the closing of them starts
  anew after a crash.
* `OutOfScopeIsAlwaysReturned`, from `ScopeInv`: closures only grow
  (`ClosuresInv`); a pass of a correction that found nothing has every output out
  of scope as its source sealed it, and is sealed under the findings that it
  judged (`PassInv`). The lemma `NothingStrayed` is the one about the check of the
  blast radius; that no catalog is installed between judging and sealing is
  `UpgradeAssumption`.
* `TypesAreCorrect`: the lemmas on the repairs (`WellFormedTidied` and those
  around it) say that each takes a well-formed document to one, also when its
  identifiers, times or digest are replaced.
* `DisclosureIsAlwaysExact`, from `RecordsInv` and `DisclosedInv`: what a pass tells
  of an output is what it did to it. The lemma `RecordTells` goes through the
  three repairs in their order and through the reading of their entries.
* `RepairIsAlwaysComplete`, from `CompleteInv`. `RepairedIsSettled` says that one
  pass of the repairs leaves nothing for another, `NormalizedIsSame` that a
  document with nothing left to repair is what a normalization makes of it.
* `ClosuresAreCoherent`, under two conditions that are hypotheses of the theorem,
  since no code enforces them:

  * `ViewsComeFirst`: a record points at itself and at views that are declared before
    it; a view (`compact-view.schema.json`) refuses undeclared fields, and declares
    neither a time nor a digest nor another field that the harness assigns anew.
    The docstring of `_OutputPointerContext` (`role_execution.py:681`) asks for the
    order, the contracts of phases 1 and 3 have it, and the instructions tell the
    agents where to point.
  * No catalog is installed while an interrupted role waits.

  The instance of the run satisfies them (`ASSUME` in `MCOutputRepair`).

  What the property says of `content_sha256` differs with the schema. Where the
  harness repairs fields it takes the digest last, of the document that is sealed.
  Under a bare schema it takes the digest when it populates the document, renames
  identifiers afterwards and never takes it again, so the digest is that of the
  document before the renamings, and those are the ones that the transformation
  record of the closure discloses: with the record (`Unrenamed`) a reader can
  recompute it, without it the digest is stale (`DigestIsCurrent` in section 7).
  `DigestInv` carries this from the repair to the seal; `BareDigest` is the lemma
  on one document.

  The invariant for the pointers is `LinkInv`, which the run's instance satisfies too: an address names the copy of
  its own file, or a view as it is on disk. A pass that is repeated after a crash
  repairs the view again, and the record that was stamped in the pass before is not
  stamped anew. So the address stays right only because what the first pass left of
  a view is final: `ViewIsFinal` and `FinalIsKept` say that any later pass, with
  other times, leaves it as it is. A record that pointed at an output with a time
  of its own would fail here.

`PublicationProofs` proves, for any methods, runs, keys, drafts of agents and
bounds:

* `TypesAreCorrect`, with what a request, the handler at work and a run have
  before they are served (`RequestInv`, `BusyInv`, `RunInv`): a handler types its
  write by the request that it was given two commits before.
* `CatalogAlwaysMirrors`. The catalog is computed from the frozen basis and not
  from the present, so it is right only because of `BasisInv`: a basis frozen at
  the head that is still current is what is current now.
* `ToldIsAlwaysSo`, from `Answered`, `Single`, `Settled`: a success that was
  answered has had its effect; a command has one run; a run is told as published
  if and only if it has its receipt.
* `PublicationImplementsLog`: a step that commits is a step of the log, since it
  read its slots at the generation that is current; any other is a stutter.

`SupervisedLaneProofs` proves, for any invocations, policies and number of
mishaps:

* `TypesAreCorrect`, with `KnownInv`: who works on a launch has its record.
* `OneWriterAlways`, from `StartInv` (how far a handler or thread can be, given the
  run directory) and `LeaseInv` (a row of the lock that is not live belongs to
  an invocation whose lease ran out).
* `StateAlwaysSurvives`, from `SwapInv`: for each target of a replacement under way,
  whether it is moved, set aside or untouched, and that what is set aside is in
  a backup; and `PromotedInv`: what was recorded as promoted is in place or in a
  backup.
* `LaneImplementsRegister`: the step that writes the record is the step of the
  register, since by then every target that is touched was moved in
  (`ForwardInv`). A rollback puts targets back in an order in which those still to
  come are exactly those that were touched and are not back (`OrderInv`,
  `BackwardInv`), so that its end is a stutter. A kill in a replacement or in a rollback,
  and a failure in a rollback, leave of each target what was there, what the run moved
  in, or nothing: one step of damage in the register, of a run that has no
  record.

`CorrectionProofs` proves, for any plan, outputs and bounds:

* `TypesAreCorrect`, with `RecordInv`: commands and closures name each other.
* `SubmissionAlwaysListsCorrections`, from `SubmitInv`, as a property of steps: the
  document of a resubmission lists for each role its newest correction, or what
  the run closed where there is none, and each of these succeeded.
* `CorrectionsAreAlwaysVisible`, from `LaneInv` and `BoundInv`. That a passing
  closure has its attempt follows from the place of the coroutine of each lane (`PlaceInv`)
  and the order of its two writes (`ChainInv`). That a type is judged once
  does not follow from the gate, which counts recorded rows only: a second worker
  can start before the first is judged. What excludes it is that one worker is at
  work at a time, that the entry of the run is its own or no other bounded
  correction passes the gates (`WorkBound`), and that a done callback is that of a
  worker that was judged (`SpentBound`). All of it fails with the first write of
  a worker that is lost, so `BoundInv` is about executions without one.

Attempts at these proofs changed the model in places. The bound on attempts, which had
been checked with too few commands to break, is false when a write is lost
(`AttemptsAreBounded` in section 7). `DisclosureIsExact` had asked that a document told
as unchanged have the same bytes; a repair may add or remove its digest and
nothing else, which the code reports under the digest and not as a change
(`role_execution.py:455`). Cases with overlapping guards became
conditionals, since CASE promises nothing of which alternative is taken. And the
answer to every issue rests on ids: one without an id asks for no disposition, so
the schema that requires it of the issues inside the outside review, which nothing
fills in, had to become an assumption.

The proofs rest on named assumptions about the constants and on nothing else.
TLC evaluates them in every run of these modules.

| Module | Assumptions | Why the code justifies them |
|---|---|---|
| `RunHarness`, `Correction` | `PlanAssumption`, `BoundAssumption` | a contract has stages, a role is in one of them and an output of one role |
| `Publication` | `DraftAssumption` | a draft has at least one method record, whose lifecycle state is of the schema's enumeration |
| | `OpAssumption` | the commands that have a handler |
| | `NamesAssumption`, `NoneAssumption`, `BoundAssumption` | ids of runs and commands differ; an absent row is no row |
| `SupervisedLane` | `PolicyAssumption` | the three state policies |
| | `NamesAssumption`, `NoneAssumption`, `BoundAssumption` | an absent row or directory is no row or content |
| `DiagnosticLane` | `NamesAssumption`, `BoundAssumption` | the same of its markers |
| `RoleConfiguration` | `RoleAssumption`, `NoneAssumption`, `BoundAssumption` | the reviewer is not an author |
| `ScientificRecords` | `ModeAssumption`, `EarlierAssumption`, `BoundAssumption` | known modes; earlier records are such as runs can leave |
| | `WriteAssumption`, `NoneAssumption` | a closure accepts what is valid against its schema: lists are arrays, also the statements of a theory, items have the fields that are filled in, an issue inside the outside review has an id; a derived id is not an absent one |
| `OutputRepair` | `OrderAssumption` | outputs are repaired one after the other, each at most once |
| | `CatalogAssumption` | required and identifier fields are declared ones; the harness stamps times that every schema requires |
| | `OwnedAssumption` | the digest is no time; what the harness fills in when it is empty is neither a generation nor withheld (`envelope.py:340-412`) |
| | `SaneAssumption` | a sanitized identifier is left alone by the sanitizer; the derived one is an identifier, fits the pattern and is left alone |
| | `WriteAssumption`, `PointerAssumption` | agents write JSON: a field has a value of one kind; an address that they write themselves is text, which is not stamped |
| | `FileAssumption`, `UpgradeAssumption`, `BoundAssumption` | required files are outputs, and corrections are asked for sets of outputs; catalogs are installed while no pass runs |

`TheoryCanBeRead` rests on a recursive function, for which the induction theorems of
the library cannot be used. `SearchIsExact` does without: a set of numbers that is
not empty has a least one (`MinNat`), a fact about well-founded relations that has
no operator as a parameter.

Only model-checked is all liveness, which is out of the prover's reach, as is
`ENABLED`. `ClosureIsCoherent` is proved under the conditions above and fails
without the last one (section 7).

## 7. Where the code and its documents differ

Two runs end in a violation; `findings` in `PROJECT.json` quotes the document
or comment and the line for each: laundering and unread_ledger.

The modules state more promises of this kind that the code does not keep. No
run is kept for them; each counterexample appears when the property replaces
that of the configuration named here.

| Property | Configuration | What happens | What is said |
|---|---|---|---|
| `CancellationSettles` (under `LiveSpec`) | liveness, `SlowKill = TRUE` | `cancel()` does not wait after SIGKILL; a process that is still there at the settlement leaves the run in `cancellation_requested` with nothing scheduled (`run_coordinator.py:391`) | `02-run-harness.md:488` |
| `FailedWithoutCommit` | safety, fault site `mark_published` | a failed status write after the publication is committed seals a published run as failed (`run_coordinator.py:1137`) | `02-run-harness.md:108` |
| `OneProcessPerRole` | safety | a process spawned just before a crash is launched again (`role_execution.py:1613`) | `ADR-012:106` |
| `NoProcessAfterCancelled` | safety | an intent without acknowledgement is sealed as cancelled while the process spawned just before a crash is alive | `02-run-harness.md:130` |
| `InFlightIsWatched` | safety | after a restart one of two in-flight parallel roles gets a watcher | `02-run-harness.md:533` |
| `OnlyRolesFailARun` | safety, fault site `progress` | a failed progress write fails the run (`orchestration_progress.py:60`) | `02-run-harness.md:522` |
| `RunTerminates` without `AgentsExit` | liveness | an adopted process has no deadline; without a crash the deadline alone ends every run | `ADR-012:104` |
| `SpentMeansConcluded` | laundering, 1 crash | a crash between the last attempt row and its closure leaves a lane with nothing left in `correcting` (`role_execution.py:2195`) | `02-run-harness.md:135` |
| `PassAdvancesTheRun` | laundering | a pass of lane A from `correcting` is recorded and then refused by its compare-and-swap (`service.py:2829`) | `service.py:2281`, `2324` |
| `AttemptsAreBounded` | laundering, 4 commands, 1 fault | the gate counts recorded attempts only (`service.py:2503`), and a lost write leaves a worker at work whose entry the done callback of another removes (`service.py:2730`): a type is attempted twice | `service.py:2278`, `2499` |
| `LostAttemptIsRetryable` | laundering, 1 fault | a lost attempt meets its own sealed command (`correction.py:147`) | `service.py:416`, `role_execution.py:2190` |
| `FailureIsSpent` | laundering, 1 fault | a preservation failure closes without an attempt row (`role_execution.py:2059`) | `role_execution.py:2020` |
| `SupersededIsNotTargeted` | laundering | a failed closure is the target although a correction of its role passed (`service.py:2974`) | `role_execution.py:2405`, `ADR-016:67` |
| `BusyLaneSealsNothing` | laundering, 3 commands | a done callback removes the entry of the next worker (`service.py:2730`), and a command is sealed while that one works | `service.py:2525` |
| `CancellationSettles` (under `FairSpec`) | laundering, 1 crash | the acknowledged execution of an interrupted correction blocks settlement (`run_coordinator.py:392`) | `role_execution.py:2451` |
| `ConflictNamesAMovedSlot` | formal | a run conflicts on a head that moved elsewhere: the compare-and-swap is over the whole head (`repository.py:1472`) | `02-run-harness.md:414`, `429`, `611` |
| `ProjectHasBrief` | formal, crash | a crash between the project row and the bootstrap publication leaves a project that can never have a brief (`project_commands.py:32`, `58`) | `02-run-harness.md:594` |
| `OneProjectPerKey` | formal, `MaxProjects = 2` | the retry of an interrupted creation makes another project | `02-run-harness.md:594` |
| `RetryIsAnswered` | formal | a start interrupted between its command and its run is sent again and is refused by its own key (`service.py:1476`) | `02-run-harness.md:517`, `09-control-commands.md:223` |
| `CancelledWhenTold` | formal | a crash between sealing the cancel command and the fence: the retry is answered with success and cancels nothing (`service.py:2208`) | `09-control-commands.md:291` |
| `NoLostPromotion` | supervised | two runs sealed from one state promote in turn, and what the first remembered is lost (`run_profile_assembler.py:1114`) | `run_profile_assembler.py:10` |
| `EndedHasRecord` | supervised | a launch that finds the lock held ends with a line in the log and no record (`run_launcher.py:470`) | `service.py:1703` |
| `FailureLeavesNoTrace` | diagnostic | `runtime_profile_dir` is put into the metadata and no executor reads it (`diagnostics/service.py:470`): the process works in the profile itself, and a failed invocation leaves its memories there | `diagnostics/runtime_profiles.py:399`, `diagnostics/service.py:468` |
| `TerminalIsFinal` | diagnostic | a cancellation decided before the terminal status is written after it (`diagnostics/store.py:291`) | `diagnostics/contracts.py:411` |
| `OthersAreQuarantined` | diagnostic | a run that is promoted while a cancellation overwrites `closing` ends as cancelled; with a mishap, a rejected promotion leaves its snapshot in place | `diagnostics/service.py:300` |
| `PersistentWorkIsKept` | diagnostic | the promotion puts the untouched snapshot back and reverts the run's own work | `diagnostics/service.py:297` |
| `StaleMeansChanged` | configuration | the coordinator loads the skill matrix once (`run_coordinator.py:104`) and an edit refreshes the copy of the service only (`service.py:3638`): every run reviewed after the edit is refused as overtaken | `service.py:3574` |
| `FrozenWhileInUse` | configuration | provisioning does not ask for active runs (`service.py:3643`) as the installation of a skill does | `service.py:3325` |
| `CollisionInstallsNothing` | configuration | provisioning installs the skills of a role whose profile collides with the reviewer's; it takes the profile of the settings and not of the project | `08-role-context-and-communication.md:561` |
| `OptionsAreSavable` | configuration, two authors | while two authors collide with the reviewer, moving one of them is refused (`service.py:3245`) although the page offers it | `profile_views.py:92` |
| `DigestIsCurrent` | repair | under a schema that keeps everything under `allOf`, identifiers are renamed after the digest was taken and no repair takes it again (`role_execution.py:187`, `233-246`, `1101-1104`, `envelope.py:462`): a manuscript of phase 5 whose agent wrote a claim id as "C1" is sealed with a stale `content_sha256` | `role_execution.py:895-900` |
| `ClosureIsCoherent` | repair, `Upgradable` with `vanished` | a catalog that is installed while an interrupted role waits changes a file that an earlier pass has stamped a pointer at, and the closure succeeds with a pointer at nothing | `role_execution.py:742` |

Seen while modelling, without a property: in the supervised lane reconciliation
can never report a success, so a run that outlives a restart is closed as
failed, and its outputs are neither validated nor promoted; nobody enforces its
time limit; a crash after a launch is closed as succeeded never promotes it; a
crash during a seal leaves a directory that blocks the invocation id; a failed
closing write leaves the record running until the next restart;
`list_all_sealed_invocations` queries a table that does not exist
(`run_profile_assembler.py:601`). In the diagnostic lane the lease is not
compared before a promotion, although a comment says so
(`diagnostics/service.py:304`); two starts that overlap after a lapse can delete
profile and backup between them; a success that ends before the first heartbeat
is recorded as failed, since `launch_acknowledged` does not lead to `closing`;
an exception between the lock and the try block leaves the profile locked for
its lease and the row open; the cancel command does not signal the process.
In the configuration, an unknown name in `skip_assets` is refused after the
backup was made, which stays (`role_provisioner.py:632`); backups left by a
killed server are never looked for; statuses of a correction do not count as
active, so skills can be installed under a correcting agent
(`view_models.py:46`); `os.rename` onto a directory that appeared meanwhile
raises an error the installer does not convert (`skill_installer.py:125`); a
reviewer who is given the former profile of an author finds its memories.

In the scientific records, a focused mathematical revision is always reported as
`p2.mathematical_version_not_advanced`, since its identity is overwritten with the
selected one; ids that the harness derives are not "unique per (run, schema, item)"
(`envelope.py:477`), since the twelve characters that it keeps of a run id name
phase and mode only (`envelope.py:484`, `service.py:3999`), so that a nameless
source takes the place of the one that an earlier update of the literature had
at its position; the order of protocol and evidence is only ever violated by a correction that
writes the protocol again alone (`role_execution.py:106`); the unnamed issues
of both audits get the same ids; a full catalogue can publish a version again
with another digest; the library keeps two entries of a source whose
identifiers were enriched later (`index_reducers.py:252`, against
`03-storage-and-authority.md:274`); the contract rules
`p2.user_lifecycle_authority` and `p4.reproducibility` are not checked; a
rejection by a plan error carries no findings.

In the supervised lane, a rollback that fails leaves the targets after the failing one
as the promotion left them, with the server up and a line in the log
(`state_promotion.py:655`, `760`), although the docstring of the swap says that on any
failure each is restored completely (`593-598`).

In the repair of outputs, an `identity.version` that an agent wrote as `true`
becomes 1 without an entry in the disclosure, since the two are equal in Python
(`role_execution.py:198-207`, `303`); under a bare schema the pointers at other outputs
are not stamped either (`role_execution.py:239`); after a crash between the repair and the closure the
closure's digests of the raw files are those of repaired ones
(`role_execution.py:85`); a record that points at an invalid view is sealed
without it, and when the view is then corrected alone the accepted closure has a
pointer at nothing (`scientific_validators.py:1383`), while correcting the
record alone can never stamp that pointer; a normalization under another catalog
changes a view whose pointer is already stamped, which the check at
`correction_execution.py:513` is there to prevent; a normalization without
`hash_recomputation` leaves `content_sha256` stale; digests of parents are
computed before their nested records are repaired, and two ids can become one
when they are sanitized; nothing downstream compares the `content_sha256` of an
output.

## 8. Not modelled

* The contents of contracts and schemas, digests, and what the validation of the
  supervised lane computes (`contracts/`, `schemas/`, `output_validation.py`): stateless
  functions, which enter the models as verdicts or as constants. They and the views, the
  HTTP API, the task briefs and the package validator in
  `src/architecture/tools/` are more than half of the implementation and have no
  control to speak of, which bounds the share of the code a model like this one
  can stand for. Of `scientific_validators.py` the rules that relate documents or
  records to each other are modelled; those on a single field of prose are not.
* Migrations: DDL executed once at start.
* The artifact store and the kanban executor: open in section 2.
* The directories of a project (`profiles/project_profiles.py`), health reports
  and the texts of the configuration views.
* PID reuse and reboots: a recorded process is recognised exactly.
* Operations that nothing in the program calls: retention, the renewal of a
  lease, `cancel_diagnostic`, `reconcile_nonterminal_invocations`, the cleanup of
  stale snapshots.

`PROJECT.json` lists every component with the reason.
