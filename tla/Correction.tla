----------------------------- MODULE Correction -----------------------------
(***************************************************************************)
(* The correction lane of one research run: the researcher authorizes the  *)
(* correction of the outputs of a failed or rejected run, the server       *)
(* revalidates or normalizes the sealed bytes at once (lane A) or invokes  *)
(* the role again in a detached worker (lane B), and a pass takes the run  *)
(* back to submission or, when later stages never ran, to execution.       *)
(*                                                                         *)
(* The pipeline around the lane (RunHarness) is kept coarse: a role closes *)
(* in one step, and so does a validation.  The command handler and the     *)
(* worker run without an await between their database commits, so while    *)
(* `hold` says one of them has the event loop only a crash can intervene.  *)
(*                                                                         *)
(* Bytes are abstracted to what the lane compares.  Of each closure the    *)
(* model keeps which outputs it sealed and which of those were changed by  *)
(* an agent that had no authority to change them.                          *)
(***************************************************************************)
EXTENDS RunTransitions, Naturals, Sequences, FiniteSets, FiniteSetsExt, Functions

CONSTANTS
    Role,         \* the role invocations of the frozen plan
    NumStages,    \* the number of stages
    StageOf,      \* the stage of each role
    Output,       \* contract output ids
    OwnerOf,      \* the role that declares each output
    MaxCommands,  \* bound: accepted correction commands
    MaxCrashes,   \* bound: server crashes
    MaxFaults     \* bound: transient failures of the harness's bookkeeping

ASSUME PlanAssumption ==
    /\ NumStages \in Nat \ {0}
    /\ StageOf \in [Role -> 1 .. NumStages]
    /\ OwnerOf \in [Output -> Role]

ASSUME BoundAssumption ==
    /\ MaxCommands \in Nat
    /\ MaxCrashes \in Nat
    /\ MaxFaults \in Nat

LaneA == {"revalidate", "normalize"}
LaneB == {"packaging", "scientific"}
CorrectionType == LaneA \cup LaneB

MaxAttempts == 1    \* MAX_PACKAGING_ATTEMPTS and MAX_SCIENTIFIC_ATTEMPTS

VARIABLES
    \* In the database.
    status,       \* runs.status
    correctable,  \* do the closure_findings of the run admit a correction?
    issued,       \* the correction types sealed at the current head of the run
    commands,     \* the sealed correction commands, in order
    attempts,     \* run_validation_attempts: the command of each row
    closures,     \* role_execution_closures of the run, in closing order
    open,         \* commands whose execution is acknowledged and not closed
    base,         \* is there a run_submissions row?
    submitted,    \* the closure of each role in the latest submission document
    \* In the server's memory, lost in a crash.
    up,           \* is the server running?
    hold,         \* who has the event loop, where, and the closure in hand
    workers,      \* commands whose lane B worker is not done
    tracked,      \* _correction_tasks[run_id], or 0
    callback,     \* has the done callback of a worker yet to pop the entry?
    \* Bounds.
    crashes, faults

records == <<commands, attempts, closures, open, base, submitted>>
run == <<status, correctable, issued>>
tasks == <<workers, tracked, callback>>
bounds == <<crashes, faults>>
vars == <<run, records, up, hold, tasks, bounds>>

OutputsOf(r) == {o \in Output : OwnerOf[o] = r}

\* What a closure says of the role's outputs.
Verdict == [status : {"succeeded", "failed", "cancelled"},
            sealed : SUBSET Output, strayed : SUBSET Output]
NoVerdict == [status |-> "failed", sealed |-> {}, strayed |-> {}]
Withdrawn == [NoVerdict EXCEPT !.status = "cancelled"]

Command == [type : CorrectionType, target : Nat, role : Role, scope : SUBSET Output]
Closure == [role : Role, cmd : Nat, verdict : Verdict]
HoldPoint == {"idle", "sealed", "begin", "check", "ack", "close", "advance",
              "complete", "submit", "count"}
Idle == [at |-> "idle", cmd |-> 0, verdict |-> NoVerdict]

TypeOK ==
    /\ status \in RunStatus
    /\ correctable \in BOOLEAN
    /\ issued \subseteq CorrectionType
    /\ commands \in Seq(Command) /\ Len(commands) <= MaxCommands
    /\ attempts \in Seq(1 .. Len(commands))
    /\ closures \in Seq(Closure)
    /\ open \subseteq 1 .. Len(commands)
    /\ base \in BOOLEAN
    /\ submitted \in [Role -> 0 .. Len(closures)]
    /\ up \in BOOLEAN
    /\ hold \in [at : HoldPoint, cmd : 0 .. Len(commands), verdict : Verdict]
    /\ workers \subseteq 1 .. Len(commands)
    /\ tracked \in 0 .. Len(commands)
    /\ callback \in BOOLEAN
    /\ crashes \in 0 .. MaxCrashes
    /\ faults \in 0 .. MaxFaults

\* The run is executing its pipeline and has closed nothing yet.
Init ==
    /\ status = "running"
    /\ correctable = FALSE
    /\ issued = {}
    /\ commands = <<>>
    /\ attempts = <<>>
    /\ closures = <<>>
    /\ open = {}
    /\ base = FALSE
    /\ submitted = [r \in Role |-> 0]
    /\ up = TRUE
    /\ hold = Idle
    /\ workers = {}
    /\ tracked = 0
    /\ callback = FALSE
    /\ crashes = 0
    /\ faults = 0

-----------------------------------------------------------------------------
(* Reading the record.                                                     *)

Succeeded(k) == closures[k].verdict.status = "succeeded"
Failed(k) == closures[k].verdict.status = "failed"

\* cancellation_requested: the fence is up.
Fenced == status \in {"cancellation_requested", "cancelled"}

\* The attempt row of a command (a command has at most one).
AttemptsOf(c) == {a \in DOMAIN attempts : attempts[a] = c}

Spent(t) == Cardinality({a \in DOMAIN attempts : commands[attempts[a]].type = t})

BothSpent == \A t \in LaneB : Spent(t) >= MaxAttempts

\* Succeeded correction closures of a role that an attempt row leads to.
Corrections(r) ==
    {k \in DOMAIN closures :
        closures[k].role = r /\ Succeeded(k) /\ AttemptsOf(closures[k].cmd) # {}}

BaseClosures(r) == {k \in DOMAIN closures : closures[k].role = r /\ closures[k].cmd = 0}

\* load_existing: the succeeded correction with the newest attempt, else the
\* base closure, else nothing (0).
Existing(r) ==
    LET newest == CHOOSE k \in Corrections(r) :
                    \A j \in Corrections(r) :
                        Max(AttemptsOf(closures[k].cmd)) >= Max(AttemptsOf(closures[j].cmd))
    IN  IF Corrections(r) # {} THEN newest ELSE Max(BaseClosures(r) \cup {0})

\* The role is closed as succeeded, by itself or by a correction.
Complete(r) == Existing(r) # 0 /\ Succeeded(Existing(r))

\* Everything the model's roles have sealed, as the submission would list it.
Chain == [r \in Role |-> Existing(r)]

\* The pool a correction may target: failed closures first, whatever happened
\* to their role since.
TargetPool ==
    LET failed == {k \in DOMAIN closures : Failed(k)}
    IN  IF failed # {} THEN failed ELSE {k \in DOMAIN closures : Succeeded(k)}

\* The newest closure of the pool, preferring one whose sealed outputs cover
\* the requested scope.
Target(scope) ==
    LET covering == {k \in TargetPool : scope \subseteq closures[k].verdict.sealed}
    IN  Max(IF covering # {} THEN covering ELSE TargetPool)

\* What a correction of the closure may touch: a failed closure admits every
\* output of its role.
ScopeOutputs(k) ==
    closures[k].verdict.sealed
        \cup (IF Failed(k) THEN OutputsOf(closures[k].role) ELSE {})

\* Lane A can only pass on a closure that sealed every required output.
SealsAll(k) == closures[k].verdict.sealed = OutputsOf(closures[k].role)

TypeOf(c) == commands[c].type
Source(c) == closures[commands[c].target].verdict

\* A write to the run row moves its head, and with it the command identities.
MoveRun(to) == status' = to /\ issued' = {}

\* The coroutine gives the event loop back.
Release == hold' = Idle

\* The worker ends.  Its done callback runs in the next turn of the event loop,
\* after the requests that were ready in this turn.  Where the worker moved the
\* head, those were sent for an older head and are refused, so the callback
\* might as well have run.
WorkerEnds(c) ==
    /\ workers' = workers \ {c}
    /\ callback' = (callback \/ c \in workers)
    /\ UNCHANGED tracked
WorkerEndsMoving(c) ==
    /\ workers' = workers \ {c}
    /\ tracked' = IF c \in workers THEN 0 ELSE tracked
    /\ UNCHANGED callback

\* The event loop begins another turn.
Free == up /\ hold.at = "idle" /\ ~callback

-----------------------------------------------------------------------------
(* The command: request_output_correction.                                 *)

CorrectionEligible == {"failed", "rejected", "correction_authorized", "correcting"}

\* A worker of the run is registered and not done.
InFlight == tracked \in workers

WithinBounds(t) == t \in LaneB => Spent(t) < MaxAttempts

\* The run admits corrections, has a closure to correct, and the scope stays
\* within what that closure may be given.
Authorizable(scope) ==
    /\ status \in CorrectionEligible
    /\ correctable
    /\ TargetPool # {}
    /\ scope \subseteq ScopeOutputs(Target(scope))

\* The request passes every gate and its command is sealed.  The identity of a
\* command is (run, type, head): a second one of the type at the same head is
\* refused by the database.  A normalization is refused unless its preview
\* shows that nothing would remain.
RequestCorrection(t, scope) ==
    /\ up /\ hold.at = "idle"
    /\ Authorizable(scope)
    /\ t = "normalize" => SealsAll(Target(scope))
    /\ WithinBounds(t)
    /\ ~InFlight
    /\ t \notin issued
    /\ Len(commands) < MaxCommands
    /\ commands' = Append(commands,
                      [type |-> t, target |-> Target(scope),
                       role |-> closures[Target(scope)].role, scope |-> scope])
    /\ issued' = issued \cup {t}
    /\ hold' = [Idle EXCEPT !.at = "sealed", !.cmd = Len(commands) + 1]
    /\ UNCHANGED <<status, correctable, attempts, closures, open, base, submitted,
                   up, tasks, bounds>>

\* failed or rejected becomes correction_authorized; the correction states
\* stay as they are.
Authorize ==
    /\ up /\ hold.at = "sealed"
    /\ IF status \in {"correction_authorized", "correcting"}
       THEN UNCHANGED <<status, issued>>
       ELSE MoveRun("correction_authorized")
    /\ hold' = [hold EXCEPT !.at = IF TypeOf(hold.cmd) \in LaneB THEN "begin" ELSE "check"]
    /\ UNCHANGED <<correctable, records, up, tasks, bounds>>

\* Lane B: the run is correcting before the worker is detached.
Begin ==
    /\ up /\ hold.at = "begin"
    /\ IF status = "correcting" THEN UNCHANGED <<status, issued>> ELSE MoveRun("correcting")
    /\ workers' = workers \cup {hold.cmd}
    /\ tracked' = hold.cmd
    /\ Release
    /\ UNCHANGED <<correctable, records, up, callback, bounds>>

\* A validation of the outputs of command c is on record, passed or not.
RecordAttempt(c) == attempts' = Append(attempts, c)

\* Defect: only a failed validation is recorded as an attempt.
CheckRecordsFailures ==
    /\ up /\ hold.at = "check"
    /\ \/ /\ SealsAll(commands[hold.cmd].target)
          /\ hold' = [hold EXCEPT !.at = "ack",
                         !.verdict = [Source(hold.cmd) EXCEPT !.status = "succeeded"]]
          /\ UNCHANGED attempts
       \/ /\ TypeOf(hold.cmd) = "revalidate"
          /\ RecordAttempt(hold.cmd)
          /\ Release
    /\ UNCHANGED <<run, commands, closures, open, base, submitted, up, tasks, bounds>>

\* Lane A: the sealed bytes are validated against the current catalog, and the
\* attempt is recorded, passed or not.
Check ==
    /\ up /\ hold.at = "check"
    /\ RecordAttempt(hold.cmd)
    /\ \/ /\ SealsAll(commands[hold.cmd].target)
          /\ hold' = [hold EXCEPT !.at = "ack",
                         !.verdict = [Source(hold.cmd) EXCEPT !.status = "succeeded"]]
       \/ TypeOf(hold.cmd) = "revalidate" /\ Release
    /\ UNCHANGED <<run, commands, closures, open, base, submitted, up, tasks, bounds>>

\* Lane A: intent and acknowledgement of the execution that is closed next.
Acknowledge ==
    /\ up /\ hold.at = "ack"
    /\ open' = open \cup {hold.cmd}
    /\ hold' = [hold EXCEPT !.at = "close"]
    /\ UNCHANGED <<run, commands, attempts, closures, base, submitted, up, tasks, bounds>>

-----------------------------------------------------------------------------
(* The worker: execute_targeted_correction.                                *)

\* The agent is launched and acknowledged.
Launch(c) ==
    /\ Free
    /\ c \in workers /\ c \notin open
    /\ open' = open \cup {c}
    /\ UNCHANGED <<run, commands, attempts, closures, base, submitted, up, hold, tasks, bounds>>

\* The outputs the agent left in the correction workspace: those it changed and
\* those that are valid.  Outputs the source did not seal are absent until the
\* agent writes them.
Work(c) ==
    [edited : SUBSET OutputsOf(commands[c].role), valid : SUBSET OutputsOf(commands[c].role)]

Conforms(c, w) ==
    /\ w.valid = OutputsOf(commands[c].role)
    /\ w.valid \subseteq Source(c).sealed \cup w.edited

\* verify_correction_blast_radius: an output outside the scope differs from
\* the source closure.
BlastRadiusViolated(c, w) == ~(w.edited \subseteq commands[c].scope)

\* Defect: the reason of a refusal is sealed as the status of the closure.
JudgementByReason(c, w) ==
    [status  |-> IF ~Conforms(c, w) THEN "structural_validation_failed"
                 ELSE IF BlastRadiusViolated(c, w) THEN "blast_radius_violation"
                 ELSE "succeeded",
     sealed  |-> w.valid \cap (Source(c).sealed \cup w.edited),
     strayed |-> ((Source(c).strayed \cup w.edited) \ commands[c].scope) \cap w.valid]

\* An executor failure, a structural failure, a blast radius violation or a
\* pass; the valid outputs are sealed whichever of the last three it is.
Judgement(c, w) ==
    [status  |-> IF Conforms(c, w) /\ ~BlastRadiusViolated(c, w) THEN "succeeded" ELSE "failed",
     sealed  |-> w.valid \cap (Source(c).sealed \cup w.edited),
     strayed |-> ((Source(c).strayed \cup w.edited) \ commands[c].scope) \cap w.valid]

\* The executor returns: the attempt is spent, pass or fail, before the closure
\* is sealed.
WorkerReturns(c) ==
    /\ Free
    /\ c \in workers
    /\ ~Fenced
    /\ RecordAttempt(c)
    /\ \E v \in {NoVerdict} \cup (IF c \in open THEN {Judgement(c, w) : w \in Work(c)} ELSE {}) :
          hold' = [at |-> "close", cmd |-> c, verdict |-> v]
    /\ UNCHANGED <<run, commands, closures, open, base, submitted, up, tasks, bounds>>

\* The executor returns to a run that is being cancelled: the execution is
\* closed and no attempt is spent.
WorkerWithdraws(c) ==
    /\ Free
    /\ c \in workers
    /\ Fenced
    /\ hold' = [at |-> "close", cmd |-> c, verdict |-> Withdrawn]
    /\ UNCHANGED <<run, records, up, tasks, bounds>>

\* The raw bytes of a successful agent cannot be preserved: the closure fails,
\* and this is the one path to a failed closure without an attempt row.
PreservationFault(c) ==
    /\ Free
    /\ faults < MaxFaults
    /\ c \in workers \cap open
    /\ ~Fenced
    /\ hold' = [at |-> "close", cmd |-> c, verdict |-> NoVerdict]
    /\ faults' = faults + 1
    /\ UNCHANGED <<run, records, up, tasks, crashes>>

\* The fence is up before the agent is launched: nothing is closed.
WorkerTurnedAway(c) ==
    /\ Free
    /\ c \in workers \ open
    /\ Fenced
    /\ WorkerEnds(c)
    /\ UNCHANGED <<run, records, up, hold, bounds>>

\* The intent, the acknowledgement or the attempt row cannot be written: the
\* worker logs it and ends, and the run stays correcting.
WorkerFault(c) ==
    /\ Free
    /\ faults < MaxFaults
    /\ c \in workers
    /\ WorkerEnds(c)
    /\ faults' = faults + 1
    /\ UNCHANGED <<run, records, up, hold, crashes>>

\* Defect: the closure is sealed without its execution being marked closed.
CloseKeepsOpen ==
    /\ up /\ hold.at = "close"
    /\ closures' = Append(closures, [role |-> commands[hold.cmd].role, cmd |-> hold.cmd,
                                     verdict |-> hold.verdict])
    /\ hold' = [hold EXCEPT !.at = IF TypeOf(hold.cmd) \in LaneA THEN "advance"
                              ELSE IF hold.verdict.status = "succeeded" THEN "complete"
                              ELSE "count"]
    /\ UNCHANGED <<run, commands, attempts, open, base, submitted, up, tasks, bounds>>

\* The correction closure, of either lane.
Close ==
    /\ up /\ hold.at = "close"
    /\ closures' = Append(closures, [role |-> commands[hold.cmd].role, cmd |-> hold.cmd,
                                     verdict |-> hold.verdict])
    /\ open' = open \ {hold.cmd}
    /\ hold' = [hold EXCEPT !.at = IF TypeOf(hold.cmd) \in LaneA THEN "advance"
                              ELSE IF hold.verdict.status = "succeeded" THEN "complete"
                              ELSE "count"]
    /\ UNCHANGED <<run, commands, attempts, base, submitted, up, tasks, bounds>>

\* The closure cannot be written.
CloseFault ==
    /\ up /\ hold.at = "close"
    /\ faults < MaxFaults
    /\ faults' = faults + 1
    /\ WorkerEnds(hold.cmd)
    /\ Release
    /\ UNCHANGED <<run, records, up, crashes>>

\* A failed lane B attempt: when both bounds are spent the lane is exhausted,
\* otherwise the run stays correcting.
Count ==
    /\ up /\ hold.at = "count"
    /\ IF BothSpent /\ status = "correcting"
       THEN MoveRun("correction_exhausted") /\ WorkerEndsMoving(hold.cmd)
       ELSE UNCHANGED <<status, issued>> /\ WorkerEnds(hold.cmd)
    /\ Release
    /\ UNCHANGED <<correctable, records, up, bounds>>

\* The done callback pops whatever entry the run has.
Untrack ==
    /\ up /\ hold.at = "idle"
    /\ callback
    /\ callback' = FALSE
    /\ tracked' = 0
    /\ UNCHANGED <<run, records, up, hold, workers, bounds>>

-----------------------------------------------------------------------------
(* The pass: _complete_correction_pass.                                    *)

\* Lane A moves correction_authorized to correcting; from any other status the
\* compare-and-swap fails and the request ends with CONTROL_HEAD_STALE.
Advance ==
    /\ up /\ hold.at = "advance"
    /\ IF status = "correction_authorized"
       THEN MoveRun("correcting") /\ hold' = [hold EXCEPT !.at = "complete"]
       ELSE UNCHANGED <<status, issued>> /\ Release
    /\ UNCHANGED <<correctable, records, up, tasks, bounds>>

\* A role without a succeeded closure: the pipeline goes on from there.
Resume ==
    /\ up /\ hold.at = "complete"
    /\ \E r \in Role : ~Complete(r)
    /\ status = "correcting"
    /\ MoveRun("running")
    /\ correctable' = FALSE
    /\ WorkerEndsMoving(hold.cmd)
    /\ Release
    /\ UNCHANGED <<records, up, bounds>>

\* The first submission of the run: the row and the status are one transaction.
SealSubmission ==
    /\ up /\ hold.at = "complete"
    /\ \A r \in Role : Complete(r)
    /\ status = "correcting" /\ ~base
    /\ base' = TRUE
    /\ submitted' = Chain
    /\ MoveRun("submitted")
    /\ WorkerEndsMoving(hold.cmd)
    /\ Release
    /\ UNCHANGED <<correctable, commands, attempts, closures, open, up, bounds>>

\* Defect: the run is resubmitted with the document of its first submission.
InsertSubmissionAttemptStale ==
    /\ up /\ hold.at = "complete"
    /\ \A r \in Role : Complete(r)
    /\ status = "correcting" /\ base
    /\ hold' = [hold EXCEPT !.at = "submit"]
    /\ UNCHANGED <<run, records, up, tasks, bounds>>

\* A later submission: first the attempt row, which readers prefer from now on.
InsertSubmissionAttempt ==
    /\ up /\ hold.at = "complete"
    /\ \A r \in Role : Complete(r)
    /\ status = "correcting" /\ base
    /\ submitted' = Chain
    /\ hold' = [hold EXCEPT !.at = "submit"]
    /\ UNCHANGED <<run, commands, attempts, closures, open, base, up, tasks, bounds>>

\* Then the status.
Resubmit ==
    /\ up /\ hold.at = "submit"
    /\ MoveRun("submitted")
    /\ WorkerEndsMoving(hold.cmd)
    /\ Release
    /\ UNCHANGED <<correctable, records, up, bounds>>

\* The run left correcting while the worker was at work: the pass is refused.
PassRefused ==
    /\ up /\ hold.at = "complete"
    /\ status # "correcting"
    /\ WorkerEnds(hold.cmd)
    /\ Release
    /\ UNCHANGED <<run, records, up, bounds>>

-----------------------------------------------------------------------------
(* The pipeline around the lane.                                           *)

EarlierComplete(s) == \A r \in Role : StageOf[r] < s => Complete(r)

\* A role without any closure runs and closes.  A failed role seals the outputs
\* that are valid by themselves.
RoleCloses(r) ==
    /\ Free
    /\ status = "running"
    /\ EarlierComplete(StageOf[r])
    /\ Existing(r) = 0
    /\ \E sealed \in SUBSET OutputsOf(r), result \in {"succeeded", "failed"} :
          /\ (result = "succeeded") = (sealed = OutputsOf(r))
          /\ closures' = Append(closures, [role |-> r, cmd |-> 0,
                  verdict |-> [status |-> result, sealed |-> sealed, strayed |-> {}]])
    /\ UNCHANGED <<run, commands, attempts, open, base, submitted, up, hold, tasks, bounds>>

\* Every role of the current stage is closed and one of them failed.
StageFails ==
    /\ Free
    /\ status = "running"
    /\ \E s \in 1 .. NumStages :
          /\ EarlierComplete(s)
          /\ \A r \in Role : StageOf[r] = s => Existing(r) # 0
          /\ \E r \in Role : StageOf[r] = s /\ ~Complete(r)
    /\ MoveRun("failed")
    /\ correctable' \in BOOLEAN
    /\ UNCHANGED <<records, up, hold, tasks, bounds>>

RunSubmits ==
    /\ Free
    /\ status = "running" /\ ~base
    /\ \A r \in Role : Complete(r)
    /\ base' = TRUE
    /\ submitted' = Chain
    /\ MoveRun("submitted")
    /\ UNCHANGED <<correctable, commands, attempts, closures, open, up, hold, tasks, bounds>>

\* Validation and publication.  A rejection brings findings of its own; the
\* other outcomes keep what the payload says.
RunJudged ==
    /\ Free
    /\ \/ status = "submitted" /\ MoveRun("validating") /\ UNCHANGED correctable
       \/ status = "validating" /\ MoveRun("promoting") /\ UNCHANGED correctable
       \/ status = "validating" /\ MoveRun("rejected") /\ correctable' \in BOOLEAN
       \/ status = "promoting" /\ MoveRun("published") /\ UNCHANGED correctable
       \/ status = "promoting" /\ MoveRun("conflicted") /\ UNCHANGED correctable
       \/ /\ status \in {"submitted", "validating", "promoting"}
          /\ MoveRun("failed") /\ UNCHANGED correctable
    /\ UNCHANGED <<records, up, hold, tasks, bounds>>

\* The researcher cancels a running run.
Cancel ==
    /\ Free
    /\ status = "running" /\ ~base
    /\ MoveRun("cancellation_requested")
    /\ UNCHANGED <<correctable, records, up, hold, tasks, bounds>>

\* Settlement ends only when no acknowledged execution of the run is open, the
\* executions of corrections included.
Settle ==
    /\ Free
    /\ status = "cancellation_requested"
    /\ open = {}
    /\ MoveRun("cancelled")
    /\ UNCHANGED <<correctable, records, up, hold, tasks, bounds>>

-----------------------------------------------------------------------------
(* Crash and restart.                                                      *)

Crash ==
    /\ up
    /\ crashes < MaxCrashes
    /\ up' = FALSE
    /\ hold' = Idle
    /\ workers' = {} /\ tracked' = 0 /\ callback' = FALSE
    /\ crashes' = crashes + 1
    /\ UNCHANGED <<run, records, faults>>

\* The newest command has no attempt row.
Interrupted == commands # <<>> /\ AttemptsOf(Len(commands)) = {}

\* The coordinator's passes leave the correction states alone; an interrupted
\* correction is marked with an event, which moves the head of the run.
Restart ==
    /\ ~up
    /\ up' = TRUE
    /\ IF status = "correcting" /\ Interrupted
       THEN MoveRun("correcting")
       ELSE UNCHANGED <<status, issued>>
    /\ UNCHANGED <<correctable, records, hold, tasks, bounds>>

-----------------------------------------------------------------------------
HandlerStep ==
    Authorize \/ Begin \/ Check \/ Acknowledge \/ Close \/ Count
    \/ Advance \/ Resume \/ SealSubmission \/ InsertSubmissionAttempt \/ Resubmit \/ PassRefused

PipelineStep == (\E r \in Role : RoleCloses(r)) \/ StageFails \/ RunSubmits \/ RunJudged \/ Settle

WorkerStep(c) == Launch(c) \/ WorkerReturns(c) \/ WorkerWithdraws(c) \/ WorkerTurnedAway(c)

Next ==
    \/ \E t \in CorrectionType, scope \in SUBSET Output \ {{}} : RequestCorrection(t, scope)
    \/ HandlerStep
    \/ \E c \in 1 .. Len(commands) : WorkerStep(c) \/ WorkerFault(c) \/ PreservationFault(c)
    \/ CloseFault
    \/ Untrack
    \/ PipelineStep
    \/ Cancel
    \/ Crash
    \/ Restart

Spec == Init /\ [][Next]_vars

\* The event loop goes on, agents exit in the end, and a crashed server is
\* started again.
FairSpec ==
    /\ Spec
    /\ WF_vars(HandlerStep)
    /\ WF_vars(Untrack)
    /\ WF_vars(PipelineStep)
    /\ \A c \in 1 .. MaxCommands : WF_vars(WorkerReturns(c) \/ WorkerWithdraws(c))
    /\ WF_vars(Restart)

-----------------------------------------------------------------------------
(* Safety.                                                                 *)

\* A command is judged once and closes at most one execution, a succeeded
\* correction closure has the attempt row through which load_existing finds it,
\* and as long as no write of a worker was lost each bounded correction is
\* judged at most MaxAttempts times (HV-5.6), although the gate counts rows that
\* a worker still running has not written and a done callback may drop the entry
\* of the next worker.
CorrectionsAreVisible ==
    /\ \A c \in DOMAIN commands :
          /\ Cardinality(AttemptsOf(c)) <= 1
          /\ Cardinality({k \in DOMAIN closures : closures[k].cmd = c}) <= 1
    /\ \A k \in DOMAIN closures :
          Succeeded(k) /\ closures[k].cmd # 0 => AttemptsOf(closures[k].cmd) # {}
    /\ faults = 0 => \A t \in LaneB : Spent(t) <= MaxAttempts

\* A run is submitted with a document that lists, for every role, the succeeded
\* closure that is current: no correction is left out of it, whichever of the
\* three ways to a submission it takes.
SubmissionListsCorrections ==
    [][status # "submitted" /\ status' = "submitted" =>
         \A r \in Role : Complete(r)' /\ submitted'[r] = Existing(r)']_vars

-----------------------------------------------------------------------------
(* Liveness.                                                               *)

\* A cancellation of a run that was corrected and resumed is settled.
CancellationSettles ==
    status = "cancellation_requested" ~> status = "cancelled"

-----------------------------------------------------------------------------
(* What the documents and comments of the repository say.                  *)

\* 02-run-harness, section 2.3: the lane is exhausted when the bounded attempts
\* are spent; a run does not stay correcting with nothing left to try.
SpentMeansConcluded ==
    Free /\ BothSpent => status # "correcting"

\* request_output_correction: on a pass the run leaves the lane.
PassAdvancesTheRun ==
    Free /\ status = "correcting" =>
        \A k \in DOMAIN closures : closures[k].cmd = Len(commands) => ~Succeeded(k)

\* request_output_correction: packaging and scientific are one bounded attempt
\* each, also after a worker was lost.
AttemptsAreBounded ==
    \A t \in LaneB : Spent(t) <= MaxAttempts

\* _validate_and_close_correction: exactly one attempt row is recorded for each
\* re-invocation that is judged.
FailureIsSpent ==
    \A k \in DOMAIN closures :
        Failed(k) /\ closures[k].cmd # 0 => AttemptsOf(closures[k].cmd) # {}

\* role_execution: a bookkeeping failure of a bounded attempt is retryable.
LostAttemptIsRetryable ==
    Free /\ status = "correcting" /\ workers = {} /\ Interrupted =>
        TypeOf(Len(commands)) \notin issued

\* verify_correction_blast_radius: outputs out of scope are identical, so a
\* succeeded closure holds no byte that an agent had no authority to change.
OutOfScopeIsIdentical ==
    \A k \in DOMAIN closures : Succeeded(k) => closures[k].verdict.strayed = {}

\* load_existing: a succeeded correction supersedes the base closure, so the
\* next correction of the role starts from it.
SupersededIsNotTargeted ==
    [][\A c \in DOMAIN commands' \ DOMAIN commands :
         LET r == commands'[c].role
         IN  Complete(r) => commands'[c].target = Existing(r)]_vars

\* request_output_correction: a busy lane is recognized before a command is
\* sealed.
BusyLaneSealsNothing ==
    [][workers # {} => commands' = commands]_vars

=============================================================================
