--------------------------- MODULE DiagnosticLane ---------------------------
(***************************************************************************)
(* The diagnostic lane on one Hermes profile.  Every command is an         *)
(* operating system process of its own: a start command runs one           *)
(* invocation from its row to the release of the profile lock, a cancel    *)
(* command writes the row of somebody else's invocation, and a reconcile   *)
(* command removes expired locks.  They share a database and the profile   *)
(* directory, and any of them may be killed between two operations.        *)
(*                                                                         *)
(* update_status reads the row, decides, and writes in another             *)
(* transaction, so a check and its write are two steps here.  An           *)
(* invocation id is fresh and takes one fencing token, which nobody else   *)
(* ever issues again: the comparison of tokens never fails and is left     *)
(* out.  The mutable content of a profile is the set of the runs whose     *)
(* work it holds.                                                          *)
(***************************************************************************)
EXTENDS Naturals

CONSTANTS
    Start,        \* start commands, and the invocation each of them makes
    Key,          \* idempotency keys
    Policy,       \* memory policies
    Absent,       \* a directory that is not there
    None,
    MaxCancels,   \* bound: cancel commands
    MaxMishaps    \* bound: commands killed, operations that fail, and leases
                  \* that run out under a living holder, together

ASSUME BoundAssumption == MaxCancels \in Nat /\ MaxMishaps \in Nat
ASSUME PolicyAssumption == Policy \subseteq {"persistent", "read_only", "ephemeral"}

VARIABLES
    \* In the database.
    row,         \* diagnostic_invocations, or None
    lock,        \* the profile's row of profile_execution_locks, or None
    \* On disk, beside each other in the profiles directory.
    profile, staging, backup,
    snapshot,    \* runtime-snapshots and quarantine: state and content
    \* Processes.
    runner,      \* start commands
    canceller,   \* the cancel command at work, or None
    hermes,      \* the Hermes process of each invocation
    \* Bookkeeping.
    lapsed,      \* living holders whose lease ran out
    cancels, mishaps

disk == <<profile, staging, backup>>
history == <<lapsed, cancels, mishaps>>
vars == <<row, lock, disk, snapshot, runner, canceller, hermes, history>>

Terminal == {"succeeded", "failed", "cancelled", "timed_out", "unresolved"}

\* ALLOWED_TRANSITIONS, as far as a command takes them.
Allowed ==
    [pending             |-> {"preflight", "cancel_requested", "failed"},
     preflight           |-> {"creating", "cancel_requested", "failed"},
     creating            |-> {"launch_acknowledged", "cancel_requested", "failed"},
     launch_acknowledged |-> {"running", "cancel_requested", "failed"},
     running             |-> {"closing", "cancel_requested", "failed"},
     closing             |-> {"succeeded", "failed"},
     cancel_requested    |-> {"cancelled"}]

Status == DOMAIN Allowed \cup Terminal

\* What is not there can be told from what is.
ASSUME NamesAssumption ==
    /\ \A S \in SUBSET Start : S # Absent
    /\ \A k \in Key, t \in Status : [key |-> k, status |-> t] # None
    /\ \A s \in Start, b \in BOOLEAN : [by |-> s, live |-> b] # None
    /\ \A s \in Start, t \in Status, b \in BOOLEAN : [of |-> s, to |-> t, checked |-> b] # None

Legal(from, to) == from = to \/ (from \notin Terminal /\ to \in Allowed[from])

\* The statuses that a start command writes, by the point it has reached; the
\* last one writes its verdict.
Written ==
    [preflight |-> "preflight", locked |-> "failed", intent |-> "preflight",
     creating |-> "creating", acknowledging |-> "launch_acknowledged",
     beating |-> "running", closing |-> "closing", final |-> "verdict",
     failing |-> "failed"]

\* Where it goes on when the status is written.
After ==
    [preflight |-> "lock", locked |-> "ended", intent |-> "spawn",
     creating |-> "acknowledging", acknowledging |-> "poll", beating |-> "poll",
     closing |-> "evaluate", final |-> "release", failing |-> "release"]

\* Where it goes on when the transition is refused: the first update ignores
\* it, an observer lets the executor terminate the process.
OnRefusal ==
    [preflight |-> "lock", locked |-> "ended", intent |-> "quarantine",
     creating |-> "terminate", acknowledging |-> "terminate", beating |-> "terminate",
     closing |-> "quarantine", final |-> "quarantine", failing |-> "release"]

\* Where it goes on when an operation fails: what comes before the try block
\* leaves without releasing the lock.
OnFault ==
    [preflight |-> "ended", lock |-> "ended", locked |-> "ended", snapshot |-> "ended",
     intent |-> "quarantine", spawn |-> "quarantine", creating |-> "terminate",
     acknowledging |-> "terminate", beating |-> "terminate", closing |-> "quarantine",
     evaluate |-> "quarantine", final |-> "quarantine", failing |-> "release",
     release |-> "ended"]

\* The points between the lock and its release.
Critical == {"snapshot", "intent", "spawn", "creating", "acknowledging", "poll", "beating",
             "closing", "evaluate", "stage", "unbackup", "aside", "in", "clean", "final",
             "terminate", "quarantine", "failing", "release"}

TypeOK ==
    /\ row \in [Start -> [key : Key, status : Status] \cup {None}]
    /\ lock # None => lock \in [by : Start, live : BOOLEAN]
    /\ profile # Absent => profile \subseteq Start
    /\ staging # Absent => staging \subseteq Start
    /\ backup # Absent => backup \subseteq Start
    /\ snapshot \in [Start -> [at : {"none", "runtime", "promoted", "quarantined", "removed"},
                               base : SUBSET Start]]
    /\ runner \in [Start -> [at : Critical \cup DOMAIN Written
                                   \cup {"idle", "create", "lock", "ended", "dead"},
                             checked : BOOLEAN, beaten : BOOLEAN,
                             key : Key \cup {None}, policy : Policy \cup {None},
                             verdict : {"succeeded", "failed"}]]
    /\ canceller # None => canceller \in [of : Start, checked : BOOLEAN,
                                           to : {"cancel_requested", "cancelled"}]
    /\ hermes \in [Start -> {"none", "alive", "gone"}]
    /\ lapsed \subseteq Start
    /\ cancels \in 0 .. MaxCancels /\ mishaps \in 0 .. MaxMishaps

\* A process that is not there has no memory.
Out(point) ==
    [at |-> point, checked |-> FALSE, beaten |-> FALSE, key |-> None, policy |-> None,
     verdict |-> "failed"]

Init ==
    /\ row = [s \in Start |-> None] /\ lock = None
    /\ profile = {} /\ staging = Absent /\ backup = Absent
    /\ snapshot = [s \in Start |-> [at |-> "none", base |-> {}]]
    /\ runner = [s \in Start |-> Out("idle")]
    /\ canceller = None
    /\ hermes = [s \in Start |-> "none"]
    /\ lapsed = {} /\ cancels = 0 /\ mishaps = 0

Mishap == mishaps < MaxMishaps /\ mishaps' = mishaps + 1 /\ UNCHANGED cancels

At(s, point) == runner[s].at = point
Goto(s, point) ==
    runner' = [runner EXCEPT ![s] =
        IF point \in {"ended", "dead"} THEN Out(point)
        ELSE [@ EXCEPT !.at = point, !.checked = FALSE]]

-----------------------------------------------------------------------------
\* Starting an invocation.

Taken(k) == \E s \in Start : row[s] # None /\ row[s].key = k

\* A key that is on record is answered from its row.
Submit(s, k, p) ==
    /\ At(s, "idle")
    /\ IF Taken(k) THEN Goto(s, "ended")
       ELSE runner' = [runner EXCEPT ![s] = [@ EXCEPT !.at = "create", !.key = k, !.policy = p]]
    /\ UNCHANGED <<row, lock, disk, snapshot, canceller, hermes, history>>

\* The other of two starts that found the key free meets the row, or the
\* constraint on the key.
Create(s) ==
    /\ At(s, "create")
    /\ IF Taken(runner[s].key)
       THEN Goto(s, "ended") /\ UNCHANGED row
       ELSE /\ row' = [row EXCEPT ![s] = [key |-> runner[s].key, status |-> "pending"]]
            /\ Goto(s, "preflight")
    /\ UNCHANGED <<lock, disk, snapshot, canceller, hermes, history>>

To(s) == IF At(s, "final") THEN runner[s].verdict ELSE Written[runner[s].at]

Check(s) ==
    /\ runner[s].at \in DOMAIN Written /\ ~runner[s].checked
    /\ Legal(row[s].status, To(s))
    /\ runner' = [runner EXCEPT ![s].checked = TRUE]
    /\ UNCHANGED <<row, lock, disk, snapshot, canceller, hermes, history>>

Refused(s) ==
    /\ runner[s].at \in DOMAIN Written /\ ~runner[s].checked
    /\ ~Legal(row[s].status, To(s))
    /\ Goto(s, OnRefusal[runner[s].at])
    /\ UNCHANGED <<row, lock, disk, snapshot, canceller, hermes, history>>

Write(s) ==
    /\ runner[s].at \in DOMAIN Written /\ runner[s].checked
    /\ row' = [row EXCEPT ![s].status = To(s)]
    /\ Goto(s, After[runner[s].at])
    /\ UNCHANGED <<lock, disk, snapshot, canceller, hermes, history>>

\* Defect: whoever holds the lock is overruled.
FreeForAll(s) == s \in Start

\* A live lease keeps the others out.
Free(s) == lock # None /\ lock.live => lock.by = s

AcquireLock(s) ==
    /\ At(s, "lock") /\ Free(s)
    /\ lock' = [by |-> s, live |-> TRUE]
    /\ Goto(s, "snapshot")
    /\ UNCHANGED <<row, disk, snapshot, canceller, hermes, history>>

ProfileLockHeld(s) ==
    /\ At(s, "lock") /\ ~Free(s)
    /\ Goto(s, "locked")
    /\ UNCHANGED <<row, lock, disk, snapshot, canceller, hermes, history>>

\* A profile that is not there is not copied, and the invocation goes on.
Snapshot(s) ==
    /\ At(s, "snapshot")
    /\ \/ /\ profile # Absent
          /\ snapshot' = [snapshot EXCEPT ![s] =
                [at |-> "runtime", base |-> IF runner[s].policy = "ephemeral" THEN {} ELSE profile]]
       \/ profile = Absent /\ UNCHANGED snapshot
    /\ Goto(s, "intent")
    /\ UNCHANGED <<row, lock, disk, canceller, hermes, history>>

-----------------------------------------------------------------------------
\* Execution.

Spawn(s) ==
    /\ At(s, "spawn")
    /\ hermes' = [hermes EXCEPT ![s] = "alive"]
    /\ Goto(s, "creating")
    /\ UNCHANGED <<row, lock, disk, snapshot, canceller, history>>

\* No Hermes binary, no brief: a failed result without a process.
ExecutorRefuses(s) ==
    /\ At(s, "spawn")
    /\ Goto(s, "closing")
    /\ UNCHANGED <<row, lock, disk, snapshot, canceller, hermes, history>>

\* The first poll that finds the process at work marks the row as running.
Heartbeat(s) ==
    /\ At(s, "poll") /\ ~runner[s].beaten
    /\ runner' = [runner EXCEPT ![s] = [@ EXCEPT !.at = "beating", !.beaten = TRUE]]
    /\ UNCHANGED <<row, lock, disk, snapshot, canceller, hermes, history>>

\* The executor does not look at runtime_profile_dir: the process is told the
\* name of the profile and works in the profile itself.
HermesWorks(s) ==
    /\ hermes[s] = "alive" /\ profile # Absent
    /\ profile' = profile \cup {s}
    /\ UNCHANGED <<row, lock, staging, backup, snapshot, runner, canceller, hermes, history>>

\* By itself, or at the time limit.
Exit(s) ==
    /\ hermes[s] = "alive"
    /\ hermes' = [hermes EXCEPT ![s] = "gone"]
    /\ UNCHANGED <<row, lock, disk, snapshot, runner, canceller, history>>

\* An exception in an observer terminates the process tree.
Terminate(s) ==
    /\ At(s, "terminate")
    /\ hermes' = [hermes EXCEPT ![s] = IF @ = "alive" THEN "gone" ELSE @]
    /\ Goto(s, "quarantine")
    /\ UNCHANGED <<row, lock, disk, snapshot, canceller, history>>

Result(s) ==
    /\ At(s, "poll") /\ hermes[s] # "alive"
    /\ Goto(s, "closing")
    /\ UNCHANGED <<row, lock, disk, snapshot, canceller, hermes, history>>

-----------------------------------------------------------------------------
\* The end: verdict, promotion or quarantine, terminal status, release.

Verdict(s, v) == runner' = [runner EXCEPT ![s] = [@ EXCEPT !.at = "final", !.verdict = v]]

\* The output is validated independently of the exit code.
EvaluateFailed(s) ==
    /\ At(s, "evaluate")
    /\ Verdict(s, "failed")
    /\ snapshot' = [snapshot EXCEPT ![s].at = IF @ = "runtime" THEN "quarantined" ELSE @]
    /\ UNCHANGED <<row, lock, disk, canceller, hermes, history>>

EvaluateSucceeded(s) ==
    /\ At(s, "evaluate") /\ hermes[s] = "gone"
    /\ \/ /\ snapshot[s].at = "runtime" /\ runner[s].policy = "persistent"
          /\ Goto(s, "stage") /\ UNCHANGED snapshot
       \/ /\ snapshot[s].at = "runtime" /\ runner[s].policy # "persistent"
          /\ Verdict(s, "succeeded") /\ snapshot' = [snapshot EXCEPT ![s].at = "removed"]
       \/ /\ snapshot[s].at = "none"
          /\ Verdict(s, "succeeded") /\ UNCHANGED snapshot
    /\ UNCHANGED <<row, lock, disk, canceller, hermes, history>>

\* A copy of the profile with the mutable content of the snapshot, in the one
\* staging directory of the profile.
Stage(s) ==
    /\ At(s, "stage")
    /\ \/ profile # Absent /\ staging' = snapshot[s].base /\ Goto(s, "unbackup")
       \/ profile = Absent /\ staging' = Absent /\ Verdict(s, "failed")
    /\ UNCHANGED <<row, lock, profile, backup, snapshot, canceller, hermes, history>>

RemoveBackup(s) ==
    /\ At(s, "unbackup")
    /\ backup' = Absent
    /\ Goto(s, "aside")
    /\ UNCHANGED <<row, lock, profile, staging, snapshot, canceller, hermes, history>>

\* Defect: the profile is removed instead of renamed.
SetAsideNowhere(s) ==
    /\ At(s, "aside") /\ profile # Absent
    /\ profile' = Absent
    /\ Goto(s, "in")
    /\ UNCHANGED <<row, lock, staging, backup, snapshot, canceller, hermes, history>>

SetAside(s) ==
    /\ At(s, "aside")
    /\ \/ /\ profile # Absent
          /\ backup' = profile /\ profile' = Absent
          /\ Goto(s, "in") /\ UNCHANGED staging
       \/ /\ profile = Absent
          /\ staging' = Absent /\ Verdict(s, "failed")
          /\ UNCHANGED <<profile, backup>>
    /\ UNCHANGED <<row, lock, snapshot, canceller, hermes, history>>

\* A rename that fails puts the backup back, when it is there and the place is free.
RolledBack(s) ==
    /\ IF profile = Absent /\ backup # Absent
       THEN profile' = backup /\ backup' = Absent
       ELSE UNCHANGED <<profile, backup>>
    /\ staging' = Absent
    /\ Verdict(s, "failed")

MoveIn(s) ==
    /\ At(s, "in")
    /\ \/ /\ profile = Absent /\ staging # Absent
          /\ profile' = staging /\ staging' = Absent
          /\ Goto(s, "clean") /\ UNCHANGED backup
       \/ ~(profile = Absent /\ staging # Absent) /\ RolledBack(s)
    /\ UNCHANGED <<row, lock, snapshot, canceller, hermes, history>>

CleanBackup(s) ==
    /\ At(s, "clean")
    /\ backup' = Absent
    /\ snapshot' = [snapshot EXCEPT ![s].at = "promoted"]
    /\ Verdict(s, "succeeded")
    /\ UNCHANGED <<row, lock, profile, staging, canceller, hermes, history>>

\* A failed operation of the promotion rejects it; the snapshot stays where it is.
PromotionFails(s) ==
    /\ Mishap
    /\ \/ runner[s].at \in {"stage", "unbackup", "aside"}
            /\ staging' = Absent /\ Verdict(s, "failed") /\ UNCHANGED <<profile, backup>>
       \/ At(s, "in") /\ RolledBack(s)
    /\ UNCHANGED <<row, lock, snapshot, canceller, hermes, lapsed>>

\* After an exception: one that was removed is not found, and the handler itself
\* ends in an exception.
Quarantine(s) ==
    /\ At(s, "quarantine")
    /\ snapshot' = [snapshot EXCEPT ![s].at = IF @ = "runtime" THEN "quarantined" ELSE @]
    /\ Goto(s, IF snapshot[s].at = "removed" THEN "release" ELSE "failing")
    /\ UNCHANGED <<row, lock, disk, canceller, hermes, history>>

\* Owner-checked.
Release(s) ==
    /\ At(s, "release")
    /\ lock' = IF lock # None /\ lock.by = s THEN None ELSE lock
    /\ Goto(s, "ended")
    /\ UNCHANGED <<row, disk, snapshot, canceller, hermes, history>>

-----------------------------------------------------------------------------
\* The cancel command.  It does not signal the process.

Cancel(s) ==
    /\ canceller = None /\ cancels < MaxCancels
    /\ row[s] # None /\ row[s].status \notin Terminal
    /\ canceller' = [of |-> s, to |-> "cancel_requested", checked |-> FALSE]
    /\ cancels' = cancels + 1
    /\ UNCHANGED <<row, lock, disk, snapshot, runner, hermes, lapsed, mishaps>>

CancelChecks ==
    /\ canceller # None /\ ~canceller.checked
    /\ canceller' = IF Legal(row[canceller.of].status, canceller.to)
                    THEN [canceller EXCEPT !.checked = TRUE] ELSE None
    /\ UNCHANGED <<row, lock, disk, snapshot, runner, hermes, history>>

\* Defect: a status that the table does not know.
CancelWritesMisspelt ==
    /\ canceller # None /\ canceller.checked
    /\ row' = [row EXCEPT ![canceller.of].status = "canceled"]
    /\ canceller' = None
    /\ UNCHANGED <<lock, disk, snapshot, runner, hermes, history>>

CancelWrites ==
    /\ canceller # None /\ canceller.checked
    /\ row' = [row EXCEPT ![canceller.of].status = canceller.to]
    /\ canceller' = IF canceller.to = "cancelled" THEN None
                    ELSE [of |-> canceller.of, to |-> "cancelled", checked |-> FALSE]
    /\ UNCHANGED <<lock, disk, snapshot, runner, hermes, history>>

-----------------------------------------------------------------------------
\* Leases, faults and kills.

\* Nobody renews the lease of a command that is gone.
Abandoned == lock # None /\ runner[lock.by].at \in {"dead", "ended"}

Expire ==
    /\ Abandoned /\ lock.live
    /\ lock' = [lock EXCEPT !.live = FALSE]
    /\ UNCHANGED <<row, disk, snapshot, runner, canceller, hermes, history>>

\* An execution that takes longer than the lease.
Lapse ==
    /\ lock # None /\ lock.live /\ At(lock.by, "poll")
    /\ Mishap
    /\ lapsed' = lapsed \cup {lock.by}
    /\ lock' = [lock EXCEPT !.live = FALSE]
    /\ UNCHANGED <<row, disk, snapshot, runner, canceller, hermes>>

ReconcileLocks ==
    /\ lock # None /\ ~lock.live
    /\ lock' = None
    /\ UNCHANGED <<row, disk, snapshot, runner, canceller, hermes, history>>

Fault(s) ==
    /\ runner[s].at \in DOMAIN OnFault
    /\ Mishap
    /\ Goto(s, OnFault[runner[s].at])
    /\ UNCHANGED <<row, lock, disk, snapshot, canceller, hermes, lapsed>>

KillStart(s) ==
    /\ runner[s].at \notin {"idle", "ended", "dead"}
    /\ Mishap
    /\ Goto(s, "dead")
    /\ UNCHANGED <<row, lock, disk, snapshot, canceller, hermes, lapsed>>

KillCancel ==
    /\ canceller # None
    /\ Mishap
    /\ canceller' = None
    /\ UNCHANGED <<row, lock, disk, snapshot, runner, hermes, lapsed>>

-----------------------------------------------------------------------------
RunnerStep(s) ==
    \/ Create(s) \/ Check(s) \/ Refused(s) \/ Write(s)
    \/ AcquireLock(s) \/ ProfileLockHeld(s) \/ Snapshot(s)
    \/ Spawn(s) \/ ExecutorRefuses(s) \/ Terminate(s) \/ Result(s)
    \/ EvaluateFailed(s) \/ EvaluateSucceeded(s)
    \/ Stage(s) \/ RemoveBackup(s) \/ SetAside(s) \/ MoveIn(s) \/ CleanBackup(s)
    \/ Quarantine(s) \/ Release(s)

Next ==
    \/ \E s \in Start :
        \/ \E k \in Key, p \in Policy : Submit(s, k, p)
        \/ RunnerStep(s) \/ Heartbeat(s) \/ HermesWorks(s)
        \/ Exit(s)
        \/ PromotionFails(s) \/ Fault(s) \/ KillStart(s)
        \/ Cancel(s)
    \/ CancelChecks \/ CancelWrites
    \/ Expire \/ Lapse \/ ReconcileLocks \/ KillCancel

Spec == Init /\ [][Next]_vars

-----------------------------------------------------------------------------
\* Properties.

\* Two start commands work on the profile at a time only when the lease of one
\* of them ran out under it.  (acquire_profile_lock, release_profile_lock)
OneRunner ==
    \A s, t \in Start \ lapsed :
        runner[s].at \in Critical /\ runner[t].at \in Critical => s = t

\* A key starts one Hermes process at most, whatever starts race for it and
\* die on the way.  (find_by_idempotency_key, create_invocation)
OneProcessPerKey ==
    \A s, t \in Start :
        hermes[s] # "none" /\ hermes[t] # "none" /\ s # t => row[s].key # row[t].key

\* A command that returned leaves no process behind, however it ended; only a
\* killed one does.  (LocalHermesExecutor.execute inside run_diagnostic)
NoProcessLeftBehind ==
    \A s \in Start : hermes[s] = "alive" => runner[s].at \notin {"idle", "ended"}

\* The profile is never gone: unless a lease ran out, it is in its place or in
\* the backup, wherever a command is killed.  (promote_snapshot)
ProfileSurvives == lapsed = {} => profile # Absent \/ backup # Absent

\* When the commands have returned and nothing failed, every invocation has a
\* terminal status, in spite of cancellations that overtake its own writes.
\* (update_status, _diag_cancel)
EndedIsTerminal ==
    mishaps = 0 /\ canceller = None =>
        \A s \in Start : At(s, "ended") /\ row[s] # None => row[s].status \in Terminal

\* A promotion throws away nobody's work but that of its own run, as long as no
\* lease ran out and no command left a process behind.  (promote_snapshot under
\* the profile lock)
DiscardsOnlyItsOwn ==
    [][\A s \in Start :
        At(s, "in") /\ runner'[s].at = "clean"
            /\ lapsed = {} /\ (\A t \in Start : ~At(t, "dead")) =>
                backup \ {s} \subseteq profile']_vars

\* "The canonical profile is untouched": a failed invocation leaves no work of
\* its own in the profile.
FailureLeavesNoTrace ==
    \A s \in Start :
        At(s, "ended") /\ row[s] # None /\ row[s].status = "failed" /\ profile # Absent
            => s \notin profile

\* "Terminal states - once entered, the status cannot change."
TerminalIsFinal ==
    [][\A s \in Start : row[s] # None /\ row[s].status \in Terminal =>
        row'[s].status = row[s].status]_vars

\* "Failed/cancelled/timed_out/lease-lost: ALWAYS quarantine": what ended otherwise
\* than in success was not promoted, and is in quarantine.
OthersAreQuarantined ==
    \A s \in Start :
        At(s, "ended") /\ row[s] # None /\ row[s].status \in Terminal \ {"succeeded"}
            => snapshot[s].at \in {"none", "quarantined"}

\* "persistent: promote on validated success": the work of a run that succeeded
\* is in the profile when its command returns.
PersistentWorkIsKept ==
    \A s \in Start :
        At(s, "release") /\ runner[s].policy = "persistent" /\ row[s].status = "succeeded"
            /\ snapshot[s].at = "promoted" => profile = Absent \/ s \in profile

=============================================================================
