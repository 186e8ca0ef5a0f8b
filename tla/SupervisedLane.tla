--------------------------- MODULE SupervisedLane ---------------------------
(***************************************************************************)
(* The supervised lane of one project and one role: a run is sealed with   *)
(* a copy of the role's memory and session, launched by a worker thread    *)
(* under the project-role state lock, validated, and its memory and        *)
(* session are promoted to be the role's state.                            *)
(*                                                                         *)
(* Request handlers do not await before they answer, so one handler at a   *)
(* time has the event loop; the workers are threads and run at any point   *)
(* between.  A kill stops the server and every thread between two file or  *)
(* database operations; the Hermes processes have sessions of their own    *)
(* and survive it.  The content of a target is named by the run that       *)
(* wrote it.                                                               *)
(***************************************************************************)
EXTENDS Naturals, Sequences

CONSTANTS
    Invocation,    \* invocation ids that clients use
    Policy,        \* memory policies that clients choose
    Absent,        \* no file, a clean memory
    None,
    MaxMishaps     \* bound: servers that die, file and database operations
                   \* that fail, and leases that run out, together

ASSUME BoundAssumption == MaxMishaps \in Nat
ASSUME PolicyAssumption == Policy \subseteq {"persistent", "ephemeral", "read_only"}
ASSUME NamesAssumption == Absent \notin Invocation /\ None \notin Invocation

Target == {"memories", "session"}
Content == Invocation \cup {Absent}

VARIABLES
    \* On disk, in the role's profile.
    canon,       \* the current content of each target
    backups,     \* last-known-good copies of each target, oldest first
    \* In the database, and the run directories.
    lock,        \* project_role_state_locks row, or None
    tokens,      \* run_fencing_tokens
    seal,        \* run_profile_seals with the manifest, or None
    runDir,      \* run directories
    launch,      \* run_launch_records, or None
    promoted,    \* run_promotion_records, oldest first
    \* In the server.
    up,
    loop,        \* the handler that has the event loop
    worker,      \* the launch thread of each invocation
    swap,        \* the replacement that is under way, or None
    cancelEvent, \* _cancel_requests
    watching,    \* _reconcile_watchers
    \* Hermes.
    process,     \* the process of each invocation
    hasSession,  \* does its profile hold a state.db?
    \* What happened, for the properties.
    lapsed,      \* invocations whose lease ran out while they worked
    interrupted, \* replacements that were cut short before they were done or undone
    mishaps

role == <<canon, backups>>
stores == <<lock, tokens>>
runs == <<seal, runDir, launch, promoted>>
server == <<up, loop, worker, swap, cancelEvent, watching>>
hermes == <<process, hasSession>>
history == <<lapsed, interrupted, mishaps>>
vars == <<role, stores, runs, server, hermes, history>>

Idle == [at |-> "idle"]
Sealing == {"memories", "session", "record"}
Working == {"preparing", "spawned", "running", "closed", "validated", "promoting"}
Terminal == {"succeeded", "failed", "cancelled"}

LockRow == [by : Invocation, token : Nat, live : BOOLEAN]
SealRow == [policy : Policy, copy : [Target -> Content]]
LaunchRow ==
    [status : Terminal \cup {"running"}, acked : BOOLEAN, asked : BOOLEAN, judged : BOOLEAN]
PromotionRow == [by : Invocation, targets : SUBSET Target]

\* A replacement knows what it replaces and which targets are done and to do;
\* one that failed, which are to be put back.
Replacement ==
    [of : Invocation, old : [Target -> Content], aside : BOOLEAN,
     done : SUBSET Target, todo : Seq(Target), failed : BOOLEAN, undo : Seq(Target)]

Handler ==
    {Idle} \cup [at : {"preflight", "signal"}, of : Invocation]
           \cup [at : Sealing, of : Invocation, policy : Policy, copy : [Target -> Content]]

Thread ==
    [at : {"none", "queued", "done", "dead"}] \cup [at : Working, token : Nat]

\* None is the absence of a row, and no row.
ASSUME NoneAssumption ==
    None \notin LockRow /\ None \notin SealRow /\ None \notin LaunchRow
    /\ None \notin Replacement

TypeOK ==
    /\ canon \in [Target -> Content]
    /\ backups \in [Target -> Seq(Invocation)]
    /\ lock \in LockRow \cup {None}
    /\ tokens \in [Invocation -> Nat]
    /\ seal \in [Invocation -> SealRow \cup {None}]
    /\ runDir \in [Invocation -> {"absent", "partial", "prepared"}]
    /\ launch \in [Invocation -> LaunchRow \cup {None}]
    /\ promoted \in Seq(PromotionRow)
    /\ loop \in Handler
    /\ worker \in [Invocation -> Thread]
    /\ swap \in Replacement \cup {None}
    /\ process \in [Invocation -> {"none", "alive", "ok", "bad"}]
    /\ hasSession \in [Invocation -> BOOLEAN]
    /\ up \in BOOLEAN /\ interrupted \in Nat
    /\ cancelEvent \subseteq Invocation /\ watching \subseteq Invocation
    /\ lapsed \subseteq Invocation
    /\ mishaps \in 0 .. MaxMishaps

Init ==
    /\ canon = [t \in Target |-> Absent] /\ backups = [t \in Target |-> <<>>]
    /\ lock = None /\ tokens = [i \in Invocation |-> 0]
    /\ seal = [i \in Invocation |-> None] /\ runDir = [i \in Invocation |-> "absent"]
    /\ launch = [i \in Invocation |-> None]
    /\ promoted = <<>>
    /\ up = TRUE /\ loop = Idle /\ swap = None
    /\ worker = [i \in Invocation |-> [at |-> "none"]]
    /\ cancelEvent = {} /\ watching = {}
    /\ process = [i \in Invocation |-> "none"]
    /\ hasSession = [i \in Invocation |-> FALSE]
    /\ lapsed = {} /\ interrupted = 0
    /\ mishaps = 0

-----------------------------------------------------------------------------
\* The state lock.

\* A live lease keeps the others out; its own invocation may take it again.
Free(i) == lock # None /\ lock.live => lock.by = i

\* Every acquisition issues the next fencing token of the invocation.
Acquire(i) ==
    /\ Free(i)
    /\ tokens' = [tokens EXCEPT ![i] = @ + 1]
    /\ lock' = [by |-> i, token |-> tokens[i] + 1, live |-> TRUE]

\* Defect: the owner is not checked, a stale owner frees somebody else's lock.
ReleaseUnchecked(i, token) ==
    /\ lock' = IF token = 0 THEN lock ELSE None
    /\ UNCHANGED tokens

\* Only the holder of the row's token removes it.
Release(i, token) ==
    /\ lock' = IF lock # None /\ lock.by = i /\ lock.token = token THEN None ELSE lock
    /\ UNCHANGED tokens

Mishap == mishaps < MaxMishaps /\ mishaps' = mishaps + 1

\* The lease runs out, 14,400 seconds after it was taken: during an execution
\* or after the holder died, never in the seconds of a seal or a promotion.
Lapse ==
    /\ lock # None /\ lock.live /\ swap = None
    /\ loop.at \in Sealing => loop.of # lock.by
    /\ worker[lock.by].at \in {"running", "none", "dead"}
    /\ Mishap
    /\ lapsed' = lapsed \cup {lock.by}
    /\ lock' = [lock EXCEPT !.live = FALSE]
    /\ UNCHANGED <<role, tokens, runs, server, hermes, interrupted>>

-----------------------------------------------------------------------------
\* Starting: seal, preflight, dispatch.

\* A start under an idempotency key that is sealed is answered from its seal.
ReplayStart(i) ==
    /\ up /\ loop = Idle
    /\ seal[i] # None
    /\ UNCHANGED vars

BeginSeal(i, p) ==
    /\ up /\ loop = Idle
    /\ runDir[i] = "absent"
    /\ Acquire(i)
    /\ runDir' = [runDir EXCEPT ![i] = "partial"]
    /\ loop' = [at |-> "memories", of |-> i, policy |-> p,
                copy |-> [t \in Target |-> Absent]]
    /\ UNCHANGED <<role, seal, launch, promoted, up, worker, swap,
                   cancelEvent, watching, hermes, history>>

\* An ephemeral run starts clean; the others copy what is there.
Copied(t) == [loop.copy EXCEPT ![t] = IF loop.policy = "ephemeral" THEN Absent ELSE canon[t]]

SnapshotMemory ==
    /\ loop.at = "memories"
    /\ loop' = [loop EXCEPT !.at = "session", !.copy = Copied("memories")]
    /\ UNCHANGED <<role, stores, runs, up, worker, swap, cancelEvent, watching, hermes, history>>

SnapshotSession ==
    /\ loop.at = "session"
    /\ loop' = [loop EXCEPT !.at = "record", !.copy = Copied("session")]
    /\ UNCHANGED <<role, stores, runs, up, worker, swap, cancelEvent, watching, hermes, history>>

\* The manifest is written, and the seal's row.
RecordSeal ==
    /\ loop.at = "record"
    /\ seal' = [seal EXCEPT ![loop.of] = [policy |-> loop.policy, copy |-> loop.copy]]
    /\ runDir' = [runDir EXCEPT ![loop.of] = "prepared"]
    /\ hasSession' = [hasSession EXCEPT ![loop.of] = loop.copy["session"] # Absent]
    /\ Release(loop.of, tokens[loop.of])
    /\ loop' = [at |-> "preflight", of |-> loop.of]
    /\ UNCHANGED <<role, launch, promoted, up, worker, swap, cancelEvent,
                   watching, process, history>>

\* A failed seal removes the directory it made.
SealFails ==
    /\ loop.at \in Sealing
    /\ Mishap
    /\ runDir' = [runDir EXCEPT ![loop.of] = "absent"]
    /\ Release(loop.of, tokens[loop.of])
    /\ loop' = Idle
    /\ UNCHANGED <<role, seal, launch, promoted, up, worker, swap, cancelEvent,
                   watching, hermes, lapsed, interrupted>>

\* Preflight passes, and a thread is started for the launch.
Dispatch ==
    /\ loop.at = "preflight" /\ Free(loop.of)
    /\ worker' = [worker EXCEPT ![loop.of] = [at |-> "queued"]]
    /\ loop' = Idle
    /\ UNCHANGED <<role, stores, runs, up, swap, cancelEvent, watching, hermes, history>>

\* The lock, the disk space or the Hermes build stop it: sealed, never launched.
RefuseStart ==
    /\ loop.at = "preflight"
    /\ loop' = Idle
    /\ UNCHANGED <<role, stores, runs, up, worker, swap, cancelEvent, watching, hermes, history>>

-----------------------------------------------------------------------------
\* The launch thread.

At(i, stage) == up /\ worker[i].at = stage

\* The thread's end: its cancel event goes with it.
Ended(i) ==
    /\ worker' = [worker EXCEPT ![i] = [at |-> "done"]]
    /\ cancelEvent' = cancelEvent \ {i}

Advance(i, stage) == worker' = [worker EXCEPT ![i].at = stage] /\ UNCHANGED cancelEvent

TakeLock(i) ==
    /\ At(i, "queued")
    /\ Acquire(i)
    /\ launch' = [launch EXCEPT ![i] =
                    [status |-> "running", acked |-> FALSE, asked |-> FALSE, judged |-> FALSE]]
    /\ worker' = [worker EXCEPT ![i] = [at |-> "preparing", token |-> tokens[i] + 1]]
    /\ UNCHANGED <<role, seal, runDir, promoted, up, loop, swap, cancelEvent,
                   watching, hermes, history>>

\* Another invocation has the lock: the thread ends with a line in the log.
LockHeld(i) ==
    /\ At(i, "queued") /\ ~Free(i)
    /\ Ended(i)
    /\ UNCHANGED <<role, stores, runs, up, loop, swap, watching, hermes, history>>

Closed(i, status, judged) ==
    launch' = [launch EXCEPT ![i].status = status, ![i].judged = judged]

\* The second preflight, or the task brief, stops the launch.
PreflightFails(i) ==
    /\ At(i, "preparing")
    /\ Closed(i, "failed", FALSE)
    /\ Release(i, worker[i].token)
    /\ Ended(i)
    /\ UNCHANGED <<role, seal, runDir, promoted, up, loop, swap, watching,
                   hermes, history>>

Spawn(i) ==
    /\ At(i, "preparing") /\ Free(i)
    /\ process' = [process EXCEPT ![i] = "alive"]
    /\ Advance(i, "spawned")
    /\ UNCHANGED <<role, stores, runs, up, loop, swap, watching, hasSession, history>>

\* The observer stores the durable process identity.
Acknowledge(i) ==
    /\ At(i, "spawned")
    /\ launch' = [launch EXCEPT ![i].acked = TRUE]
    /\ Advance(i, "running")
    /\ UNCHANGED <<role, stores, seal, runDir, promoted, up, loop, swap, watching,
                   hermes, history>>

\* A process ends, by itself or at its time limit; one that
\* succeeds may leave a state.db.
Ends(i, how) ==
    /\ process[i] = "alive"
    /\ process' = [process EXCEPT ![i] = how]
    /\ \E db \in BOOLEAN : hasSession' = [hasSession EXCEPT ![i] = @ \/ (db /\ how = "ok")]

Exit(i, how) ==
    /\ Ends(i, how)
    /\ UNCHANGED <<role, stores, runs, server, history>>

\* An observer or the log files fail: the process tree is terminated and the
\* record is closed without a result.
Abort(i) ==
    /\ At(i, "spawned") \/ At(i, "running")
    /\ Mishap
    /\ \/ Ends(i, "bad")
       \/ process[i] # "alive" /\ UNCHANGED hermes
    /\ Closed(i, "failed", FALSE)
    /\ Release(i, worker[i].token)
    /\ Ended(i)
    /\ UNCHANGED <<role, seal, runDir, promoted, up, loop, swap, watching,
                   lapsed, interrupted>>

CloseSucceeded(i) ==
    /\ At(i, "running") /\ process[i] = "ok"
    /\ Closed(i, "succeeded", TRUE)
    /\ Advance(i, "closed")
    /\ UNCHANGED <<role, stores, seal, runDir, promoted, up, loop, swap, watching,
                   hermes, history>>

\* A death the user asked for is recorded as cancelled.
CloseFailed(i) ==
    /\ At(i, "running") /\ process[i] = "bad"
    /\ Closed(i, IF i \in cancelEvent THEN "cancelled" ELSE "failed", TRUE)
    /\ Release(i, worker[i].token)
    /\ Ended(i)
    /\ UNCHANGED <<role, seal, runDir, promoted, up, loop, swap, watching,
                   hermes, history>>

\* The write that closes the record fails: it is not tried again, and the record
\* stays running.
CloseIsLost(i) ==
    /\ At(i, "preparing") \/ At(i, "running")
    /\ process[i] # "alive"
    /\ Mishap
    /\ Release(i, worker[i].token)
    /\ Ended(i)
    /\ UNCHANGED <<role, runs, up, loop, swap, watching, hermes,
                   lapsed, interrupted>>

\* Only a passing persistent run goes on to promotion.
Validate(i, v) ==
    /\ At(i, "closed")
    /\ IF v = None THEN Mishap ELSE UNCHANGED mishaps
    /\ \/ /\ v = "pass" /\ seal[i].policy = "persistent"
          /\ Advance(i, "validated") /\ UNCHANGED stores
       \/ /\ ~(v = "pass" /\ seal[i].policy = "persistent")
          /\ Release(i, worker[i].token) /\ Ended(i)
    /\ UNCHANGED <<role, seal, runDir, launch, promoted, up, loop, swap, watching, hermes,
                   lapsed, interrupted>>

-----------------------------------------------------------------------------
\* Promotion: set the current targets aside, move the run's in, record it.

\* What a run leaves to promote: its memories, and its session if it has one.
Staged(i) == IF hasSession[i] THEN <<"memories", "session">> ELSE <<"memories">>

BeginPromotion(i) ==
    /\ At(i, "validated")
    /\ Acquire(i)
    /\ swap' = [of |-> i, old |-> canon, aside |-> FALSE, done |-> {},
                todo |-> Staged(i), failed |-> FALSE, undo |-> <<>>]
    /\ Advance(i, "promoting")
    /\ UNCHANGED <<role, runs, up, loop, watching, hermes, history>>

\* The lease ran out and another invocation has the lock: logged, not retried.
PromotionLockHeld(i) ==
    /\ At(i, "validated") /\ ~Free(i)
    /\ Release(i, worker[i].token)
    /\ Ended(i)
    /\ UNCHANGED <<role, runs, up, loop, swap, watching, hermes, history>>

\* Defect: the current target is removed instead of renamed.
SetAsideNowhere ==
    /\ swap # None /\ ~swap.failed /\ swap.todo # <<>> /\ ~swap.aside
    /\ canon[Head(swap.todo)] # Absent
    /\ canon' = [canon EXCEPT ![Head(swap.todo)] = Absent]
    /\ swap' = [swap EXCEPT !.aside = TRUE]
    /\ UNCHANGED <<backups, stores, runs, up, loop, worker, cancelEvent, watching, hermes,
                   history>>

\* The current target is renamed to a backup.
SetAside ==
    /\ swap # None /\ ~swap.failed /\ swap.todo # <<>> /\ ~swap.aside
    /\ LET t == Head(swap.todo)
       IN  /\ canon[t] # Absent
           /\ canon' = [canon EXCEPT ![t] = Absent]
           /\ backups' = [backups EXCEPT ![t] = Append(@, canon[t])]
    /\ swap' = [swap EXCEPT !.aside = TRUE]
    /\ UNCHANGED <<stores, runs, up, loop, worker, cancelEvent, watching, hermes, history>>

MoveIn ==
    /\ swap # None /\ ~swap.failed /\ swap.todo # <<>>
    /\ LET t == Head(swap.todo)
       IN  /\ canon[t] = Absent
           /\ canon' = [canon EXCEPT ![t] = swap.of]
           /\ swap' = [swap EXCEPT !.todo = Tail(@), !.aside = FALSE, !.done = @ \cup {t}]
    /\ UNCHANGED <<backups, stores, runs, up, loop, worker, cancelEvent, watching, hermes,
                   history>>

\* The record comes last.  Its release removes the row of the launch's lock
\* with its own, so the launch has nothing left to release.
RecordPromotion ==
    /\ swap # None /\ ~swap.failed /\ swap.todo = <<>>
    /\ promoted' = Append(promoted, [by |-> swap.of, targets |-> swap.done])
    /\ Release(swap.of, tokens[swap.of])
    /\ swap' = None
    /\ Ended(swap.of)
    /\ UNCHANGED <<role, seal, runDir, launch, up, loop, watching, hermes, history>>

-----------------------------------------------------------------------------
\* A promotion that fails: what it has touched is put back, target by target.

\* The targets that the swap has set aside or replaced.
Touched(s) == s.done \cup IF s.aside THEN {Head(s.todo)} ELSE {}

\* Those of them that are not put back.
Open(s) == IF s.failed THEN {s.undo[n] : n \in DOMAIN s.undo} ELSE Touched(s)

\* Defect: the targets that were already replaced are not restored.
UndoInFlight(s) == {IF s.aside THEN <<Head(s.todo)>> ELSE <<>>}

\* What is done is put back before what is in flight, and the last one first
\* when only the record is missing.
UndoOrders(s) ==
    IF Touched(s) = {} THEN {<<>>}
    ELSE IF Touched(s) = {"memories"} THEN {<<"memories">>}
    ELSE {<<"memories", "session">>}
            \cup IF s.todo = <<>> THEN {<<"session", "memories">>} ELSE {}

\* Staging, a rename, a digest or the record fail.
PromotionFails ==
    /\ swap # None /\ ~swap.failed
    /\ Mishap
    /\ \E undo \in UndoOrders(swap) : swap' = [swap EXCEPT !.failed = TRUE, !.undo = undo]
    /\ UNCHANGED <<role, stores, runs, up, loop, worker, cancelEvent, watching, hermes,
                   lapsed, interrupted>>

Undoing == swap # None /\ swap.failed /\ swap.undo # <<>>

\* What was moved in is removed.
RemoveReplaced ==
    /\ Undoing
    /\ canon[Head(swap.undo)] # Absent
    /\ canon' = [canon EXCEPT ![Head(swap.undo)] = Absent]
    /\ UNCHANGED <<backups, stores, runs, server, hermes, history>>

\* The backup is renamed back, if there was a target before.
PutBack ==
    /\ Undoing
    /\ LET t == Head(swap.undo)
       IN  /\ canon[t] = Absent
           /\ canon' = [canon EXCEPT ![t] = swap.old[t]]
           /\ backups' = IF swap.old[t] = Absent THEN backups
                         ELSE [backups EXCEPT ![t] = SubSeq(@, 1, Len(@) - 1)]
    /\ swap' = [swap EXCEPT !.undo = Tail(@)]
    /\ UNCHANGED <<stores, runs, up, loop, worker, cancelEvent, watching, hermes, history>>

\* The thread ends, and releases the lock.
SwapEnds ==
    /\ Release(swap.of, tokens[swap.of])
    /\ swap' = None
    /\ Ended(swap.of)
    /\ UNCHANGED <<role, runs, up, loop, watching, hermes, lapsed>>

UndoDone ==
    /\ swap # None /\ swap.failed /\ swap.undo = <<>>
    /\ SwapEnds
    /\ UNCHANGED <<interrupted, mishaps>>

\* Nothing catches a removal or a rename that fails now: this target and those
\* after it stay as they are, and no record tells.
UndoFails ==
    /\ Undoing
    /\ Mishap
    /\ interrupted' = interrupted + 1
    /\ SwapEnds

-----------------------------------------------------------------------------
\* Cancelling.

\* The intent is stored and the worker's event set before the signal.
RequestCancel(i) ==
    /\ up /\ loop = Idle
    /\ launch[i] # None /\ launch[i].status = "running" /\ launch[i].acked
    /\ launch' = [launch EXCEPT ![i].asked = TRUE]
    /\ cancelEvent' = cancelEvent \cup {i}
    /\ loop' = [at |-> "signal", of |-> i]
    /\ UNCHANGED <<role, stores, seal, runDir, promoted, up, worker, swap,
                   watching, hermes, history>>

\* The process may still end well on SIGTERM; one that is gone is left alone.
SignalProcess ==
    /\ loop.at = "signal"
    /\ \/ /\ \E how \in {"ok", "bad"} : Ends(loop.of, how)
       \/ process[loop.of] # "alive" /\ UNCHANGED hermes
    /\ loop' = Idle
    /\ UNCHANGED <<role, stores, runs, up, worker, swap, cancelEvent, watching,
                   lapsed, interrupted, mishaps>>

-----------------------------------------------------------------------------
\* Kill and restart.

Kill ==
    /\ up
    /\ Mishap
    /\ up' = FALSE /\ loop' = Idle /\ swap' = None
    /\ cancelEvent' = {} /\ watching' = {}
    /\ worker' = [i \in Invocation |->
                    IF worker[i].at \in {"none", "done"} THEN worker[i] ELSE [at |-> "dead"]]
    /\ interrupted' = IF swap # None /\ Open(swap) # {} THEN interrupted + 1 ELSE interrupted
    /\ UNCHANGED <<role, stores, runs, hermes, lapsed>>

\* Defect: an outcome that the launch records do not know.
OutcomeLost(i) == IF launch[i].asked THEN "cancelled" ELSE "lost"

\* A death after a stored intent to cancel is a cancellation.
Outcome(i) == IF launch[i].asked THEN "cancelled" ELSE "failed"

\* A process that cannot be identified, and one that is gone.
Lost(i) == launch[i].status = "running" /\ (launch[i].acked => process[i] # "alive")

\* Defect: processes that are still alive get no watcher.
RestartUnwatched ==
    /\ ~up
    /\ up' = TRUE
    /\ launch' = [i \in Invocation |->
                    IF launch[i] # None /\ Lost(i)
                    THEN [launch[i] EXCEPT !.status = Outcome(i), !.judged = TRUE]
                    ELSE launch[i]]
    /\ watching' = {}
    /\ UNCHANGED <<role, stores, seal, runDir, promoted, loop, worker, swap,
                   cancelEvent, hermes, history>>

\* Every launch that is on record as running is reconciled with its process.
Restart ==
    /\ ~up
    /\ up' = TRUE
    /\ launch' = [i \in Invocation |->
                    IF launch[i] # None /\ Lost(i)
                    THEN [launch[i] EXCEPT !.status = Outcome(i), !.judged = @ \/ launch[i].acked]
                    ELSE launch[i]]
    /\ watching' = {i \in Invocation : launch[i] # None /\ launch[i].status = "running"
                                        /\ ~Lost(i)}
    /\ UNCHANGED <<role, stores, seal, runDir, promoted, loop, worker, swap,
                   cancelEvent, hermes, history>>

\* The watcher cannot learn the exit code: a process that is gone has failed.
WatcherCloses(i) ==
    /\ up /\ i \in watching /\ process[i] # "alive"
    /\ Closed(i, Outcome(i), TRUE)
    /\ watching' = watching \ {i}
    /\ UNCHANGED <<role, stores, seal, runDir, promoted, up, loop, worker, swap,
                   cancelEvent, hermes, history>>

-----------------------------------------------------------------------------
WorkerStep(i) ==
    \/ TakeLock(i) \/ LockHeld(i) \/ PreflightFails(i) \/ Spawn(i) \/ Acknowledge(i)
    \/ Abort(i) \/ CloseSucceeded(i) \/ CloseFailed(i) \/ CloseIsLost(i)
    \/ \E v \in {"pass", "fail", None} : Validate(i, v)
    \/ BeginPromotion(i) \/ PromotionLockHeld(i)

SwapStep ==
    \/ SetAside \/ MoveIn \/ RecordPromotion
    \/ PromotionFails \/ RemoveReplaced \/ PutBack \/ UndoDone \/ UndoFails

\* seal_invocation once it has the lock and the run directory.
SealStep == SnapshotMemory \/ SnapshotSession \/ RecordSeal \/ SealFails

LoopStep ==
    \/ SealStep
    \/ Dispatch \/ RefuseStart \/ SignalProcess

Next ==
    \/ \E i \in Invocation, p \in Policy : BeginSeal(i, p)
    \/ LoopStep \/ SwapStep
    \/ \E i \in Invocation :
        \/ ReplayStart(i) \/ WorkerStep(i) \/ RequestCancel(i) \/ WatcherCloses(i)
        \/ \E how \in {"ok", "bad"} : Exit(i, how)
    \/ Lapse \/ Kill \/ Restart

Spec == Init /\ [][Next]_vars

\* Threads and handlers go on, a server that died is started again, and a
\* process ends: at its time limit, or by itself once a restart has left it
\* without one.  Nothing is assumed of clients or operators.
FairSpec ==
    /\ Spec
    /\ WF_vars(LoopStep) /\ WF_vars(SwapStep) /\ WF_vars(Restart)
    /\ \A i \in Invocation :
        /\ WF_vars(WorkerStep(i)) /\ WF_vars(WatcherCloses(i))
        /\ WF_vars(\E how \in {"ok", "bad"} : Exit(i, how))

-----------------------------------------------------------------------------
\* Properties.

Critical == {i \in Invocation : up /\ worker[i].at \in Working}

\* One writer owns the role's state while it copies, executes and promotes: a
\* seal and a promotion are under a live lock of their own, and a launch keeps
\* the lock row from its record to its end unless its lease ran out.
\* (state_lock and its owner-checked release, promote_run_state inside
\* launch_sealed_run, which takes the same lock a second time.)
OneWriter ==
    /\ loop.at \in Sealing => lock # None /\ lock.by = loop.of /\ lock.live
    /\ swap # None => lock # None /\ lock.by = swap.of /\ lock.live
    /\ \A i \in Critical \ lapsed : lock # None /\ lock.by = i

\* What readers of the role's state may take for current: what a swap that is
\* under way has touched, and not put back, still counts as what it was.
Current(t) == IF swap # None /\ t \in Open(swap) THEN swap.old[t] ELSE canon[t]

\* A target that was ever promoted is never gone, whatever is killed or fails,
\* the rollback included: it is in its place or in a backup.  (_swap_targets,
\* _restore_target)
StateSurvives ==
    \A n \in DOMAIN promoted : \A t \in promoted[n].targets :
        canon[t] # Absent \/ backups[t] # <<>>

\* Seen from outside, memory, session and promotion record change together,
\* whatever step of the replacement fails.  Only a kill in the middle of it, or
\* a failure in its rollback, leaves a mixture, each once and of the one run
\* that was promoted.  (promote_run_state)
Register == INSTANCE StateRegister WITH
    Invocation <- Invocation, Target <- Target, Absent <- Absent,
    value <- [t \in Target |-> Current(t)],
    record <- promoted,
    damaged <- interrupted

ImplementsRegister == Register!Spec

\* A launch that is on record is closed in the end, through failures, a kill
\* and a restart, unless the write that closes it is the one that fails and
\* its thread has ended without it.  (launch_sealed_run,
\* _reconcile_supervised_launches, _watch_reconciled_run)
LaunchSettles ==
    \A i \in Invocation :
        (launch[i] # None /\ launch[i].status = "running")
            ~> (launch[i] # None /\ (launch[i].status = "running" => worker[i].at = "done"))

\* "one writer owns role state across prepare/execute/promote": the state that
\* a promotion replaces is the state its run was sealed with.
NoLostPromotion ==
    [][Len(promoted') = Len(promoted) + 1 =>
        LET e == promoted'[Len(promoted')]
        IN  \A t \in e.targets : seal[e.by].copy[t] = Current(t)]_vars

\* "Thread exceptions are captured onto the launch record": a dispatched
\* launch that ended has a record.
EndedHasRecord == \A i \in Invocation : worker[i].at = "done" => launch[i] # None

=============================================================================
