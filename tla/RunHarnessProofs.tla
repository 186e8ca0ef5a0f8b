-------------------------- MODULE RunHarnessProofs --------------------------
(***************************************************************************)
(* Proofs about RunHarness, for every plan (Inv, NumStages, StageOf) and   *)
(* every bound.  The argument has three layers: the type invariant; the    *)
(* inductive invariant IndInv, which ties the place of the pass, the       *)
(* coroutines, the journal rows and the processes together; and the safety *)
(* properties and the refinement of RunJournal, which follow from IndInv.  *)
(***************************************************************************)
EXTENDS RunHarness, TLAPS

USE DEF database, outside, memory, bounds

-----------------------------------------------------------------------------
(* The type invariant, one lemma per group of actions.                     *)

\* The run row that start_run creates has the type.
LEMMA InitType == Init => TypeOK
<1> USE PlanAssumption, BoundAssumption DEF PlanAssumption, BoundAssumption, Init
<1>1. Init => DatabaseType
  <2>1. Init => closure \in [Inv -> ClosureStatus \cup {"none"}]
    OBVIOUS
  <2> QED
    BY <2>1 DEF DatabaseType, RunStatus
<1>2. Init => OutsideType
  BY DEF OutsideType, ProcState, OutputState
<1>3. Init => MemoryType
  BY DEF MemoryType, PassPoint, RolePoint
<1>4. Init => BoundsType
  BY DEF BoundsType
<1> QED
  BY <1>1, <1>2, <1>3, <1>4 DEF TypeOK

\* An iteration of the advancement loop keeps the type.
LEMMA LoopType == ASSUME TypeOK, LoopStep PROVE TypeOK'
<1> USE PlanAssumption, BoundAssumption DEF PlanAssumption, BoundAssumption,
        TypeOK, DatabaseType, OutsideType, MemoryType, BoundsType,
        RunStatus, ClosureStatus, ProcState, OutputState, PassPoint, RolePoint
<1>1. CASE AcquireLock
  BY <1>1 DEF AcquireLock
<1>2. CASE LoopTerminal
  BY <1>2 DEF LoopTerminal, PassReturns
<1>3. CASE BeginPreparation
  BY <1>3 DEF BeginPreparation, InLoop, StaysInLoop
<1>4. CASE FreezeManifest
  BY <1>4 DEF FreezeManifest, InLoop, StaysInLoop
<1>5. CASE PreparationFails
  BY <1>5 DEF PreparationFails, PassReturns
<1>6. CASE MarkPrepared
  BY <1>6 DEF MarkPrepared, InLoop, StaysInLoop
<1>7. CASE BeginRunning
  BY <1>7 DEF BeginRunning, InLoop, StaysInLoop
<1>8. CASE BeginExecution
  BY <1>8 DEF BeginExecution
<1>9. CASE BeginSettlement
  BY <1>9 DEF BeginSettlement
<1>10. CASE BeginValidation
  BY <1>10 DEF BeginValidation, InLoop, StaysInLoop
<1>11. CASE Validate
  BY <1>11 DEF Validate, InLoop, StaysInLoop
<1>12. CASE CommitPublication
  BY <1>12 DEF CommitPublication, InLoop, StaysInLoop
<1>13. CASE PublicationRefused
  BY <1>13 DEF PublicationRefused, InLoop, StaysInLoop
<1>14. CASE MarkPublished
  BY <1>14 DEF MarkPublished, InLoop, StaysInLoop
<1> HIDE DEF TypeOK
<1> QED
  BY <1>1, <1>2, <1>3, <1>4, <1>5, <1>6, <1>7, <1>8, <1>9, <1>10, <1>11, <1>12, <1>13, <1>14 DEF LoopStep

\* A step of the stage orchestration keeps the type.
LEMMA StageType == ASSUME TypeOK, StageStep PROVE TypeOK'
<1> USE PlanAssumption, BoundAssumption DEF PlanAssumption, BoundAssumption,
        TypeOK, DatabaseType, OutsideType, MemoryType, BoundsType,
        RunStatus, ClosureStatus, ProcState, OutputState, PassPoint, RolePoint
<1>1. CASE StageCancelled
  BY <1>1 DEF StageCancelled
<1>2. CASE EnterStage
  BY <1>2 DEF EnterStage
<1>3. CASE StageUnresolved
  BY <1>3 DEF StageUnresolved, PassReturns, Raised, Members
<1>4. CASE StageRaised
  BY <1>4 DEF StageRaised, PassReturns, StatusAfterError
<1>5. CASE StageClosed
  BY <1>5 DEF StageClosed, GatherDone
<1>6. CASE SealSubmission
  BY <1>6 DEF SealSubmission
<1> HIDE DEF TypeOK
<1> QED
  BY <1>1, <1>2, <1>3, <1>4, <1>5, <1>6 DEF StageStep

\* A step of a role coroutine keeps the type.
LEMMA RoleType == ASSUME TypeOK, NEW i \in Inv, RoleProgress(i) PROVE TypeOK'
<1> USE PlanAssumption, BoundAssumption DEF PlanAssumption, BoundAssumption,
        TypeOK, DatabaseType, OutsideType, MemoryType, BoundsType,
        RunStatus, ClosureStatus, ProcState, OutputState, PassPoint, RolePoint
<1>1. CASE RoleReuses(i)
  BY <1>1 DEF RoleReuses, RoleStep
<1>2. CASE RoleFenced(i)
  BY <1>2 DEF RoleFenced, RoleStep
<1>3. CASE RoleIntends(i)
  BY <1>3 DEF RoleIntends, RoleStep
<1>4. CASE LaunchFails(i)
  BY <1>4 DEF LaunchFails, RoleStep
<1>5. CASE Spawn(i)
  BY <1>5 DEF Spawn, RoleStep
<1>6. CASE Acknowledge(i)
  BY <1>6 DEF Acknowledge, RoleStep
<1>7. CASE HeartbeatCancels(i)
  BY <1>7 DEF HeartbeatCancels, KillOutcomes
<1>8. CASE TimesOut(i)
  BY <1>8 DEF TimesOut, RoleStep
<1>9. CASE SeesExit(i)
  BY <1>9 DEF SeesExit, RoleStep
<1>10. CASE Reconcile(i)
  BY <1>10 DEF Reconcile, RoleStep
<1>11. CASE Close(i)
  BY <1>11 DEF Close, RoleStep, SealedStatus
<1> HIDE DEF TypeOK
<1> QED
  BY <1>1, <1>2, <1>3, <1>4, <1>5, <1>6, <1>7, <1>8, <1>9, <1>10, <1>11 DEF RoleProgress

\* A step of the cancellation settlement keeps the type.
LEMMA SettleType == ASSUME TypeOK, SettleStep PROVE TypeOK'
<1> USE PlanAssumption, BoundAssumption DEF PlanAssumption, BoundAssumption,
        TypeOK, DatabaseType, OutsideType, MemoryType, BoundsType,
        RunStatus, ClosureStatus, ProcState, OutputState, PassPoint, RolePoint
<1>1. CASE FinishCancellation
  BY <1>1 DEF FinishCancellation
<1>2. ASSUME NEW i \in Inv, SettleUnacknowledged(i) PROVE TypeOK'
  BY <1>2 DEF SettleUnacknowledged, Unsettled
<1>3. ASSUME NEW i \in Inv, SettleCancels(i) PROVE TypeOK'
  BY <1>3 DEF SettleCancels, KillOutcomes
<1>4. ASSUME NEW i \in Inv, SettleReconciles(i) PROVE TypeOK'
  BY <1>4 DEF SettleReconciles, Unsettled, PassReturns
<1> HIDE DEF TypeOK
<1> QED
  BY <1>1, <1>2, <1>3, <1>4 DEF SettleStep

\* A failed write of the harness keeps the type.
LEMMA FaultType == ASSUME TypeOK, FaultStep PROVE TypeOK'
<1> USE PlanAssumption, BoundAssumption DEF PlanAssumption, BoundAssumption,
        TypeOK, DatabaseType, OutsideType, MemoryType, BoundsType,
        RunStatus, ClosureStatus, ProcState, OutputState, PassPoint, RolePoint
<1>1. CASE TransitionFault
  BY <1>1 DEF TransitionFault, Fault, StatusAfterError, PassReturns
<1>2. CASE ProgressFault
  BY <1>2 DEF ProgressFault, Fault, StatusAfterError, PassReturns
<1>3. CASE SettleFault
  BY <1>3 DEF SettleFault, Fault, PassReturns
<1>4. ASSUME NEW i \in Inv, RolePrepareFault(i) PROVE TypeOK'
  BY <1>4 DEF RolePrepareFault, Fault, RoleStep
<1>5. ASSUME NEW i \in Inv, AcknowledgeFault(i) PROVE TypeOK'
  BY <1>5 DEF AcknowledgeFault, Fault, RoleStep
<1>6. ASSUME NEW i \in Inv, CloseFault(i) PROVE TypeOK'
  BY <1>6 DEF CloseFault, Fault, RoleStep
<1> HIDE DEF TypeOK
<1> QED
  BY <1>1, <1>2, <1>3, <1>4, <1>5, <1>6 DEF FaultStep

\* The researcher, the watchers, the agents, a crash and a restart keep the type.
LEMMA OutsideStepType ==
    ASSUME TypeOK,
           \/ RequestCancellation
           \/ Crash
           \/ Restart
           \/ \E i \in Inv : WatcherEnds(i) \/ AgentStep(i)
    PROVE  TypeOK'
<1> USE PlanAssumption, BoundAssumption DEF PlanAssumption, BoundAssumption,
        TypeOK, DatabaseType, OutsideType, MemoryType, BoundsType,
        RunStatus, ClosureStatus, ProcState, OutputState, PassPoint, RolePoint
<1>1. CASE RequestCancellation
  BY <1>1 DEF RequestCancellation
<1>2. CASE Crash
  <2> USE <1>2 DEF Crash, PassReturns
  <2>1. DatabaseType' /\ OutsideType'
    OBVIOUS
  <2>2. MemoryType'
    <3>1. (role \in [Inv -> RolePoint] /\ result \in [Inv -> {"none", "succeeded", "failed"}])'
      OBVIOUS
    <3>2. (watchers \subseteq Inv /\ up \in BOOLEAN /\ queued \in Nat)'
      OBVIOUS
    <3>3. (pc \in PassPoint /\ stage \in 1 .. NumStages + 1 /\ (pc = "gather" => stage <= NumStages))'
      OBVIOUS
    <3> QED
      BY <3>1, <3>2, <3>3
  <2>3. BoundsType'
    OBVIOUS
  <2> QED
    BY <2>1, <2>2, <2>3
<1>3. CASE Restart
  BY <1>3 DEF Restart
<1>4. ASSUME NEW i \in Inv, WatcherEnds(i) PROVE TypeOK'
  BY <1>4 DEF WatcherEnds
<1>5. ASSUME NEW i \in Inv, WriteOutputs(i) PROVE TypeOK'
  BY <1>5 DEF WriteOutputs
<1>6. ASSUME NEW i \in Inv, ProcessExits(i) PROVE TypeOK'
  BY <1>6 DEF ProcessExits
<1>7. ASSUME NEW i \in Inv, ProcessDies(i) PROVE TypeOK'
  BY <1>7 DEF ProcessDies
<1>8. ASSUME NEW i \in Inv, OrphanExits(i) PROVE TypeOK'
  BY <1>8 DEF OrphanExits
<1> HIDE DEF TypeOK
<1> QED
  BY <1>1, <1>2, <1>3, <1>4, <1>5, <1>6, <1>7, <1>8 DEF AgentStep

\* Every step keeps the type.
LEMMA StepType == ASSUME TypeOK, [Next]_vars PROVE TypeOK'
<1>1. CASE UNCHANGED vars
  BY <1>1 DEF vars, TypeOK, DatabaseType, OutsideType, MemoryType, BoundsType
<1> QED
  BY <1>1, LoopType, StageType, RoleType, SettleType, FaultType, OutsideStepType
  DEF Next, HarnessStep

\* The type invariant of a run, of every plan.
THEOREM TypeCorrect == Spec => []TypeOK
<1> QED
  BY InitType, StepType, PTL DEF Spec

-----------------------------------------------------------------------------
(* Frames: what a group of actions leaves alone.                           *)

\* The advancement loop touches no execution.
LEMMA LoopFrame ==
    ASSUME LoopStep
    PROVE  /\ UNCHANGED <<fenced, intent, ack, closure, proc>>
           /\ pc \in {"idle", "loop"}
           /\ role' = role \/ (pc' = "idle" /\ role' = [i \in Inv |-> "idle"])
<1> QED
  BY DEF LoopStep, AcquireLock, LoopTerminal, BeginPreparation, FreezeManifest,
         PreparationFails, MarkPrepared, BeginRunning, BeginExecution, BeginSettlement,
         BeginValidation, Validate, CommitPublication, PublicationRefused, MarkPublished,
         InLoop, StaysInLoop, PassReturns

\* The stage level touches no execution either.
LEMMA StageFrame ==
    ASSUME StageStep
    PROVE  /\ UNCHANGED <<fenced, intent, ack, closure, proc>>
           /\ pc \in {"stage", "gather"}
<1> QED
  BY DEF StageStep, StageCancelled, EnterStage, StageUnresolved, StageRaised,
         StageClosed, SealSubmission, GatherDone

\* A role coroutine leaves the run row and the pass alone, and no other
\* coroutine moves.
LEMMA RoleFrame ==
    ASSUME TypeOK, NEW i \in Inv, RoleProgress(i)
    PROVE  /\ UNCHANGED <<status, fenced, submission, pc, stage>>
           /\ pc = "gather"
           /\ \A j \in Inv \ {i} : /\ role'[j] = role[j] /\ closure'[j] = closure[j]
                                   /\ proc'[j] = proc[j]
                                   /\ j \in intent' <=> j \in intent
                                   /\ j \in ack' <=> j \in ack
<1> USE DEF TypeOK, DatabaseType, OutsideType, MemoryType, RoleStep
<1>1. CASE RoleReuses(i) \/ RoleFenced(i) \/ RoleIntends(i) \/ LaunchFails(i) \/ Spawn(i)
  BY <1>1 DEF RoleReuses, RoleFenced, RoleIntends, LaunchFails, Spawn
<1>2. CASE Acknowledge(i) \/ TimesOut(i) \/ SeesExit(i) \/ Reconcile(i) \/ Close(i)
  BY <1>2 DEF Acknowledge, TimesOut, SeesExit, Reconcile, Close
<1>3. CASE HeartbeatCancels(i)
  BY <1>3 DEF HeartbeatCancels
<1> QED
  BY <1>1, <1>2, <1>3 DEF RoleProgress

-----------------------------------------------------------------------------
(* The inductive invariant, one lemma per conjunct.                        *)

\* A run that has just been created satisfies the inductive invariant.
LEMMA InitInd == Init => IndInv
<1>1. Init => StatusInv /\ SettledInv /\ NoWorkAheadOfBasis /\ SubmissionSealsWholeChain
  BY DEF Init, StatusInv, SettledInv, NoWorkAheadOfBasis, SubmissionSealsWholeChain
<1>2. Init => ScopeInv /\ HandInv
  BY DEF Init, ScopeInv, HandInv, Alive
<1> QED
  BY InitType, <1>1, <1>2 DEF IndInv

\* Status, place of the pass, fence and submission row agree.
LEMMA StatusStep == ASSUME IndInv, [Next]_vars PROVE StatusInv'
<1> USE DEF IndInv, StatusInv
<1>1. CASE LoopStep
  <2>1. CASE AcquireLock \/ LoopTerminal \/ BeginExecution \/ BeginSettlement
    BY <1>1, <2>1 DEF AcquireLock, LoopTerminal, BeginExecution, BeginSettlement, PassReturns
  <2>2. CASE BeginPreparation \/ FreezeManifest \/ MarkPrepared \/ BeginRunning
    BY <2>2 DEF BeginPreparation, FreezeManifest, MarkPrepared, BeginRunning, InLoop, StaysInLoop
  <2>3. CASE PreparationFails
    BY <2>3 DEF PreparationFails, PassReturns
  <2>4. CASE BeginValidation \/ Validate \/ CommitPublication
    BY <2>4 DEF BeginValidation, Validate, CommitPublication, InLoop, StaysInLoop
  <2>5. CASE PublicationRefused \/ MarkPublished
    BY <2>5 DEF PublicationRefused, MarkPublished, InLoop, StaysInLoop
  <2> QED
    BY <1>1, <2>1, <2>2, <2>3, <2>4, <2>5 DEF LoopStep
<1>2. CASE StageStep
  <2>1. CASE StageCancelled
    BY <2>1 DEF StageCancelled, TypeOK, DatabaseType
  <2>2. CASE EnterStage
    BY <2>2 DEF EnterStage
  <2>3. CASE StageUnresolved
    BY <2>3 DEF StageUnresolved, GatherDone, PassReturns
  <2>4. CASE StageRaised
    BY <2>4 DEF StageRaised, GatherDone, PassReturns, StatusAfterError, TerminalRunStatuses
  <2>5. CASE StageClosed
    BY <2>5 DEF StageClosed, GatherDone
  <2>6. CASE SealSubmission
    BY <2>6 DEF SealSubmission
  <2> QED
    BY <1>2, <2>1, <2>2, <2>3, <2>4, <2>5, <2>6 DEF StageStep
<1>3. ASSUME NEW i \in Inv, RoleProgress(i) PROVE StatusInv'
  BY <1>3, RoleFrame
<1>4. CASE SettleStep
  BY <1>4 DEF SettleStep, SettleUnacknowledged, SettleCancels, SettleReconciles,
              FinishCancellation, PassReturns
<1>5. CASE FaultStep
  BY <1>5 DEF FaultStep, TransitionFault, ProgressFault, SettleFault, RolePrepareFault,
              AcknowledgeFault, CloseFault, RoleStep, PassReturns, StatusAfterError,
              TerminalRunStatuses, GatherDone
<1>6. CASE RequestCancellation
  BY <1>6 DEF RequestCancellation, Cancellable
<1>7. ASSUME NEW i \in Inv, WatcherEnds(i) \/ AgentStep(i) PROVE StatusInv'
  BY <1>7 DEF WatcherEnds, AgentStep, WriteOutputs, ProcessExits, ProcessDies, OrphanExits
<1>8. CASE Crash \/ Restart
  BY <1>8 DEF Crash, Restart, PassReturns
<1>9. CASE UNCHANGED vars
  BY <1>9 DEF vars
<1> QED
  BY <1>1, <1>2, <1>3, <1>4, <1>5, <1>6, <1>7, <1>8, <1>9 DEF Next, HarnessStep

\* Closures are immutable once sealed.
LEMMA ClosureStep ==
    ASSUME IndInv, [Next]_vars
    PROVE  \A i \in Inv : closure[i] # "none" => closure'[i] = closure[i]
<1> USE DEF IndInv, TypeOK, DatabaseType
<1>1. CASE LoopStep \/ StageStep
  BY <1>1, LoopFrame, StageFrame
<1>2. ASSUME NEW i \in Inv, RoleProgress(i)
      PROVE  \A j \in Inv : closure[j] # "none" => closure'[j] = closure[j]
  <2>1. CASE Close(i)
    BY <2>1 DEF Close, RoleStep, HandInv
  <2>2. CASE ~Close(i)
    BY <1>2, <2>2 DEF RoleProgress, RoleReuses, RoleFenced, RoleIntends, LaunchFails, Spawn,
         Acknowledge, HeartbeatCancels, TimesOut, SeesExit, Reconcile
  <2> QED
    BY <2>1, <2>2
<1>3. CASE SettleStep
  BY <1>3 DEF SettleStep, SettleUnacknowledged, SettleCancels, SettleReconciles,
              FinishCancellation, Unsettled
<1>4. CASE FaultStep
  BY <1>4 DEF FaultStep, TransitionFault, ProgressFault, SettleFault, RolePrepareFault,
              AcknowledgeFault, CloseFault
<1>5. CASE RequestCancellation \/ Crash \/ Restart \/ UNCHANGED vars
  BY <1>5 DEF RequestCancellation, Crash, Restart, vars
<1>6. ASSUME NEW i \in Inv, WatcherEnds(i) \/ AgentStep(i)
      PROVE  closure' = closure
  BY <1>6 DEF WatcherEnds, AgentStep, WriteOutputs, ProcessExits, ProcessDies, OrphanExits
<1> QED
  BY <1>1, <1>2, <1>3, <1>4, <1>5, <1>6 DEF Next, HarnessStep

\* A basis that is closed stays closed.
LEMMA BasisStep ==
    ASSUME IndInv, [Next]_vars, NEW s \in 1 .. NumStages, BasisBefore(s)
    PROVE  BasisBefore(s)'
<1> QED
  BY ClosureStep DEF BasisBefore

\* Coroutines belong to the executing stage, and its basis is closed.
LEMMA ScopeStep == ASSUME IndInv, [Next]_vars PROVE ScopeInv'
<1> USE PlanAssumption DEF PlanAssumption, IndInv, ScopeInv, TypeOK, MemoryType
<1>1. CASE LoopStep
  <2>1. pc' # "gather"
    BY <1>1 DEF LoopStep, AcquireLock, LoopTerminal, BeginPreparation, FreezeManifest,
         PreparationFails, MarkPrepared, BeginRunning, BeginExecution, BeginSettlement,
         BeginValidation, Validate, CommitPublication, PublicationRefused, MarkPublished,
         InLoop, StaysInLoop, PassReturns
  <2> QED
    BY <1>1, <2>1, LoopFrame
<1>2. CASE StageStep
  <2>1. CASE EnterStage
    BY <2>1 DEF EnterStage, BasisBefore, Members
  <2>2. CASE StageCancelled \/ SealSubmission
    BY <2>2 DEF StageCancelled, SealSubmission
  <2>3. CASE StageUnresolved \/ StageRaised
    BY <2>3 DEF StageUnresolved, StageRaised, PassReturns
  <2>4. CASE StageClosed
    BY <2>4 DEF StageClosed
  <2> QED
    BY <1>2, <2>1, <2>2, <2>3, <2>4 DEF StageStep
<1>3. ASSUME NEW i \in Inv, RoleProgress(i) PROVE ScopeInv'
  <2>1. role[i] # "idle"
    BY <1>3 DEF RoleProgress, RoleReuses, RoleFenced, RoleIntends, LaunchFails, Spawn,
         Acknowledge, HeartbeatCancels, TimesOut, SeesExit, Reconcile, Close, RoleStep
  <2>2. BasisBefore(stage)'
    BY <1>3, RoleFrame, BasisStep DEF Next, HarnessStep, BasisBefore
  <2> QED
    BY <1>3, <2>1, <2>2, RoleFrame
<1>4. CASE SettleStep
  BY <1>4 DEF SettleStep, SettleUnacknowledged, SettleCancels, SettleReconciles,
              FinishCancellation, PassReturns
<1>5. CASE FaultStep
  <2>1. CASE TransitionFault \/ ProgressFault \/ SettleFault
    BY <2>1 DEF TransitionFault, ProgressFault, SettleFault, PassReturns
  <2>2. ASSUME NEW i \in Inv, RolePrepareFault(i) \/ AcknowledgeFault(i) \/ CloseFault(i)
        PROVE  ScopeInv'
    BY <2>2 DEF RolePrepareFault, AcknowledgeFault, CloseFault, RoleStep, BasisBefore
  <2> QED
    BY <1>5, <2>1, <2>2 DEF FaultStep
<1>6. CASE RequestCancellation \/ Restart \/ UNCHANGED vars
  BY <1>6 DEF RequestCancellation, Restart, BasisBefore, vars
<1>7. ASSUME NEW i \in Inv, WatcherEnds(i) \/ AgentStep(i) PROVE ScopeInv'
  BY <1>7 DEF WatcherEnds, AgentStep, WriteOutputs, ProcessExits, ProcessDies, OrphanExits,
              BasisBefore
<1>8. CASE Crash
  BY <1>8 DEF Crash, PassReturns
<1> QED
  BY <1>1, <1>2, <1>3, <1>4, <1>5, <1>6, <1>7, <1>8 DEF Next, HarnessStep

\* What a coroutine has in hand, what is acknowledged and what is alive agree.
LEMMA HandStep == ASSUME IndInv, [Next]_vars PROVE HandInv'
<1> USE DEF IndInv, HandInv, Alive
<1>1. CASE LoopStep
  <2>1. \A i \in Inv : role[i] = "idle"
    BY <1>1, LoopFrame DEF ScopeInv
  <2> QED
    BY <1>1, <2>1, LoopFrame
<1>2. CASE StageStep
  <2>1. CASE StageCancelled \/ SealSubmission
    BY <2>1 DEF StageCancelled, SealSubmission
  <2>2. CASE EnterStage
    BY <2>2 DEF EnterStage, ScopeInv
  <2>3. CASE StageUnresolved \/ StageRaised \/ StageClosed
    <3>1. \A i \in Inv : role[i] # "spawned"
      BY <2>3 DEF StageUnresolved, StageRaised, StageClosed, GatherDone, Stopped,
                  Members, ScopeInv
    <3> QED
      BY <2>3, <3>1 DEF StageUnresolved, StageRaised, StageClosed, PassReturns
  <2> QED
    BY <1>2, <2>1, <2>2, <2>3 DEF StageStep
<1>3. ASSUME NEW i \in Inv, RoleProgress(i) PROVE HandInv'
  <2> USE DEF TypeOK, DatabaseType, OutsideType, MemoryType, RoleStep
  <2>1. CASE RoleReuses(i) \/ RoleFenced(i)
    BY <2>1 DEF RoleReuses, RoleFenced
  <2>2. CASE RoleIntends(i)
    BY <2>2 DEF RoleIntends
  <2>3. CASE LaunchFails(i)
    BY <2>3 DEF LaunchFails
  <2>4. CASE Spawn(i)
    BY <2>4 DEF Spawn
  <2>5. CASE Acknowledge(i)
    BY <2>5 DEF Acknowledge
  <2>6. CASE HeartbeatCancels(i)
    BY <2>6 DEF HeartbeatCancels, KillOutcomes
  <2>7. CASE TimesOut(i)
    BY <2>7 DEF TimesOut
  <2>8. CASE SeesExit(i)
    BY <2>8 DEF SeesExit, Exited
  <2>9. CASE Reconcile(i)
    BY <2>9 DEF Reconcile
  <2>10. CASE Close(i)
    BY <2>10 DEF Close, SealedStatus
  <2> QED
    BY <1>3, <2>1, <2>2, <2>3, <2>4, <2>5, <2>6, <2>7, <2>8, <2>9, <2>10 DEF RoleProgress
<1>4. CASE SettleStep
  <2> USE DEF TypeOK, DatabaseType, OutsideType, Unsettled
  <2>1. \A i \in Inv : role[i] = "idle"
    BY <1>4 DEF SettleStep, SettleUnacknowledged, SettleCancels, SettleReconciles,
                FinishCancellation, ScopeInv
  <2>2. ASSUME NEW i \in Inv, SettleUnacknowledged(i) PROVE HandInv'
    BY <2>1, <2>2 DEF SettleUnacknowledged
  <2>3. ASSUME NEW i \in Inv, SettleCancels(i) PROVE HandInv'
    BY <2>1, <2>3 DEF SettleCancels, KillOutcomes
  <2>4. ASSUME NEW i \in Inv, SettleReconciles(i) PROVE HandInv'
    BY <2>1, <2>4 DEF SettleReconciles, PassReturns
  <2>5. CASE FinishCancellation
    BY <2>5 DEF FinishCancellation
  <2> QED
    BY <1>4, <2>2, <2>3, <2>4, <2>5 DEF SettleStep
<1>5. CASE FaultStep
  <2>1. CASE TransitionFault \/ SettleFault
    BY <2>1 DEF TransitionFault, SettleFault, PassReturns, ScopeInv
  <2>2. CASE ProgressFault
    BY <2>2 DEF ProgressFault, PassReturns, GatherDone, Stopped, Members, ScopeInv
  <2>3. ASSUME NEW i \in Inv, RolePrepareFault(i) \/ AcknowledgeFault(i) \/ CloseFault(i)
        PROVE  HandInv'
    BY <2>3 DEF RolePrepareFault, AcknowledgeFault, CloseFault, RoleStep,
                TypeOK, OutsideType, MemoryType
  <2> QED
    BY <1>5, <2>1, <2>2, <2>3 DEF FaultStep
<1>6. CASE RequestCancellation \/ Restart \/ UNCHANGED vars
  BY <1>6 DEF RequestCancellation, Restart, vars
<1>7. ASSUME NEW i \in Inv, WatcherEnds(i) \/ AgentStep(i) PROVE HandInv'
  BY <1>7 DEF WatcherEnds, AgentStep, WriteOutputs, ProcessExits, ProcessDies, OrphanExits,
              TypeOK, OutsideType
<1>8. CASE Crash
  BY <1>8 DEF Crash, PassReturns
<1> QED
  BY <1>1, <1>2, <1>3, <1>4, <1>5, <1>6, <1>7, <1>8 DEF Next, HarnessStep

\* Only RoleIntends records an intent, and only under an open fence.
LEMMA IntentStep ==
    ASSUME TypeOK, [Next]_vars
    PROVE  \/ intent' = intent
           \/ \E i \in Inv : RoleIntends(i) /\ intent' = intent \cup {i}
<1>1. CASE LoopStep \/ StageStep
  BY <1>1, LoopFrame, StageFrame
<1>2. ASSUME NEW i \in Inv, RoleProgress(i)
      PROVE  intent' = intent \/ (RoleIntends(i) /\ intent' = intent \cup {i})
  BY <1>2 DEF RoleProgress, RoleReuses, RoleFenced, RoleIntends, LaunchFails, Spawn,
       Acknowledge, HeartbeatCancels, TimesOut, SeesExit, Reconcile, Close
<1>3. CASE SettleStep
  BY <1>3 DEF SettleStep, SettleUnacknowledged, SettleCancels, SettleReconciles,
              FinishCancellation
<1>4. CASE FaultStep
  BY <1>4 DEF FaultStep, TransitionFault, ProgressFault, SettleFault, RolePrepareFault,
              AcknowledgeFault, CloseFault
<1>5. CASE RequestCancellation \/ Crash \/ Restart \/ UNCHANGED vars
  BY <1>5 DEF RequestCancellation, Crash, Restart, vars
<1>6. ASSUME NEW i \in Inv, WatcherEnds(i) \/ AgentStep(i)
      PROVE  intent' = intent
  BY <1>6 DEF WatcherEnds, AgentStep, WriteOutputs, ProcessExits, ProcessDies, OrphanExits
<1> QED
  BY <1>1, <1>2, <1>3, <1>4, <1>5, <1>6 DEF Next, HarnessStep

\* Only FinishCancellation makes the run cancelled.
LEMMA CancelledStep ==
    ASSUME IndInv, [Next]_vars, status' = "cancelled"
    PROVE  status = "cancelled" \/ FinishCancellation
<1>1. CASE LoopStep
  BY <1>1 DEF LoopStep, AcquireLock, LoopTerminal, BeginPreparation, FreezeManifest,
       PreparationFails, MarkPrepared, BeginRunning, BeginExecution, BeginSettlement,
       BeginValidation, Validate, CommitPublication, PublicationRefused, MarkPublished,
       InLoop, StaysInLoop
<1>2. CASE StageStep
  BY <1>2 DEF StageStep, StageCancelled, EnterStage, StageUnresolved, StageRaised,
       StageClosed, SealSubmission, StatusAfterError
<1>3. ASSUME NEW i \in Inv, RoleProgress(i) PROVE status' = status
  BY <1>3, RoleFrame DEF IndInv
<1>4. CASE SettleStep
  BY <1>4 DEF SettleStep, SettleUnacknowledged, SettleCancels, SettleReconciles
<1>5. CASE FaultStep
  BY <1>5 DEF FaultStep, TransitionFault, ProgressFault, SettleFault, RolePrepareFault,
              AcknowledgeFault, CloseFault, RoleStep, StatusAfterError
<1>6. CASE RequestCancellation \/ Crash \/ Restart \/ UNCHANGED vars
  BY <1>6 DEF RequestCancellation, Crash, Restart, vars
<1>7. ASSUME NEW i \in Inv, WatcherEnds(i) \/ AgentStep(i) PROVE status' = status
  BY <1>7 DEF WatcherEnds, AgentStep, WriteOutputs, ProcessExits, ProcessDies, OrphanExits
<1> QED
  BY <1>1, <1>2, <1>3, <1>4, <1>5, <1>6, <1>7 DEF Next, HarnessStep

\* Only SealSubmission writes the submission row.
LEMMA SubmissionStep ==
    ASSUME IndInv, [Next]_vars
    PROVE  submission' = submission \/ SealSubmission
<1>1. CASE LoopStep
  BY <1>1 DEF LoopStep, AcquireLock, LoopTerminal, BeginPreparation, FreezeManifest,
       PreparationFails, MarkPrepared, BeginRunning, BeginExecution, BeginSettlement,
       BeginValidation, Validate, CommitPublication, PublicationRefused, MarkPublished,
       InLoop, StaysInLoop
<1>2. CASE StageStep
  BY <1>2 DEF StageStep, StageCancelled, EnterStage, StageUnresolved, StageRaised,
       StageClosed
<1>3. ASSUME NEW i \in Inv, RoleProgress(i) PROVE submission' = submission
  BY <1>3, RoleFrame DEF IndInv
<1>4. CASE SettleStep
  BY <1>4 DEF SettleStep, SettleUnacknowledged, SettleCancels, SettleReconciles,
              FinishCancellation
<1>5. CASE FaultStep
  BY <1>5 DEF FaultStep, TransitionFault, ProgressFault, SettleFault, RolePrepareFault,
              AcknowledgeFault, CloseFault, RoleStep
<1>6. CASE RequestCancellation \/ Crash \/ Restart \/ UNCHANGED vars
  BY <1>6 DEF RequestCancellation, Crash, Restart, vars
<1>7. ASSUME NEW i \in Inv, WatcherEnds(i) \/ AgentStep(i) PROVE submission' = submission
  BY <1>7 DEF WatcherEnds, AgentStep, WriteOutputs, ProcessExits, ProcessDies, OrphanExits
<1> QED
  BY <1>1, <1>2, <1>3, <1>4, <1>5, <1>6, <1>7 DEF Next, HarnessStep

\* Every step preserves the inductive invariant.
LEMMA IndStep == ASSUME IndInv, [Next]_vars PROVE IndInv'
<1>1. TypeOK' /\ StatusInv' /\ ScopeInv' /\ HandInv'
  BY StepType, StatusStep, ScopeStep, HandStep DEF IndInv
<1>2. SettledInv'
  <2> SUFFICES ASSUME status' = "cancelled" PROVE Unsettled' = {}
    BY DEF SettledInv
  <2>1. CASE FinishCancellation
    BY <2>1 DEF FinishCancellation, Unsettled
  <2>2. CASE status = "cancelled"
    <3>1. fenced /\ Unsettled = {}
      BY <2>2 DEF IndInv, StatusInv, SettledInv
    <3>2. intent' = intent
      BY <3>1, IntentStep DEF RoleIntends, IndInv
    <3> QED
      BY <3>1, <3>2, ClosureStep DEF Unsettled, IndInv, TypeOK, DatabaseType
  <2> QED
    BY <2>1, <2>2, CancelledStep
<1>3. NoWorkAheadOfBasis'
  <2> SUFFICES ASSUME NEW i \in Inv, i \in intent' PROVE BasisBefore(StageOf[i])'
    BY <1>1 DEF NoWorkAheadOfBasis, TypeOK, DatabaseType
  <2>1. StageOf[i] \in 1 .. NumStages
    BY PlanAssumption DEF PlanAssumption
  <2>2. BasisBefore(StageOf[i])
    <3>1. CASE i \in intent
      BY <3>1 DEF IndInv, NoWorkAheadOfBasis
    <3>2. CASE i \notin intent
      <4>1. RoleIntends(i)
        BY <3>2, IntentStep DEF IndInv
      <4> QED
        BY <4>1 DEF RoleIntends, RoleStep, IndInv, ScopeInv
    <3> QED
      BY <3>1, <3>2
  <2> QED
    BY <2>1, <2>2, BasisStep DEF BasisBefore
<1>4. SubmissionSealsWholeChain'
  <2>1. CASE SealSubmission
    BY <2>1 DEF SealSubmission, SubmissionSealsWholeChain, ChainSucceeded
  <2>2. CASE submission' = submission
    BY <2>2, ClosureStep DEF IndInv, SubmissionSealsWholeChain, ChainSucceeded
  <2> QED
    BY <2>1, <2>2, SubmissionStep
<1> QED
  BY <1>1, <1>2, <1>3, <1>4 DEF IndInv

\* The inductive invariant holds in every reachable state.
THEOREM Inductive == Spec => []IndInv
<1> QED
  BY InitInd, IndStep, PTL DEF Spec

-----------------------------------------------------------------------------
(* The safety properties.                                                  *)

\* A sealed submission rests on a succeeded closure of every role of the plan.
THEOREM ChainSealed == Spec => []SubmissionSealsWholeChain
<1>1. IndInv => SubmissionSealsWholeChain
  BY DEF IndInv
<1> QED
  BY <1>1, Inductive, PTL

\* Of a racing cancellation and submission exactly one wins.
THEOREM ExactlyOneWins == Spec => []OneWinner
<1>1. IndInv => OneWinner
  BY DEF IndInv, StatusInv, OneWinner
<1> QED
  BY <1>1, Inductive, PTL

\* No role is intended ahead of the closed basis of its stage.
THEOREM BasisFirst == Spec => []NoWorkAheadOfBasis
<1>1. IndInv => NoWorkAheadOfBasis
  BY DEF IndInv
<1> QED
  BY <1>1, Inductive, PTL

\* A cancelled run is sealed and has no live acknowledged process.
THEOREM CancelledQuiesces == Spec => []CancelledIsQuiescent
<1>1. IndInv => CancelledIsQuiescent
  BY DEF IndInv, TypeOK, DatabaseType, HandInv, SettledInv, Unsettled, CancelledIsQuiescent
<1> QED
  BY <1>1, Inductive, PTL

\* Once the fence is durable no role starts and no closure becomes succeeded.
THEOREM FenceAlwaysHolds == Spec => FenceHolds
<1> DEFINE Refused == \A i \in Inv : closure'[i] = "succeeded" => closure[i] = "succeeded"
<1>1. ASSUME IndInv, [Next]_vars, fenced PROVE Refused
  <2> USE DEF IndInv, TypeOK, DatabaseType
  <2>1. CASE LoopStep \/ StageStep
    BY <2>1, LoopFrame, StageFrame
  <2>2. ASSUME NEW i \in Inv, RoleProgress(i) PROVE Refused
    BY <1>1, <2>2 DEF RoleProgress, RoleReuses, RoleFenced, RoleIntends, LaunchFails, Spawn,
         Acknowledge, HeartbeatCancels, TimesOut, SeesExit, Reconcile, Close, SealedStatus
  <2>3. CASE SettleStep
    <3>1. \/ closure' = closure
          \/ \E i \in Inv : closure' = [closure EXCEPT ![i] = "cancelled"]
      BY <2>3 DEF SettleStep, SettleUnacknowledged, SettleCancels, SettleReconciles,
                  FinishCancellation
    <3> QED
      BY <1>1, <3>1
  <2>4. CASE FaultStep
    BY <2>4 DEF FaultStep, TransitionFault, ProgressFault, SettleFault, RolePrepareFault,
                AcknowledgeFault, CloseFault
  <2>5. CASE RequestCancellation \/ Crash \/ Restart \/ UNCHANGED vars
    BY <2>5 DEF RequestCancellation, Crash, Restart, vars
  <2>6. ASSUME NEW i \in Inv, WatcherEnds(i) \/ AgentStep(i) PROVE Refused
    BY <2>6 DEF WatcherEnds, AgentStep, WriteOutputs, ProcessExits, ProcessDies, OrphanExits
  <2> QED
    BY <1>1, <2>1, <2>2, <2>3, <2>4, <2>5, <2>6 DEF Next, HarnessStep
<1>2. IndInv /\ [Next]_vars => [fenced => intent' = intent]_vars
  BY IntentStep DEF IndInv, RoleIntends
<1>3. IndInv /\ [Next]_vars => [fenced => intent' = intent /\ Refused]_vars
  BY <1>1, <1>2
<1> QED
  BY <1>3, Inductive, PTL DEF Spec, FenceHolds

-----------------------------------------------------------------------------
(* RunHarness implements RunJournal, as long as the status write that      *)
(* follows a committed publication does not fail.                          *)

\* A receipt belongs to a run that is being, or is, published.
ReceiptInv == receipt => submission /\ status \in {"promoting", "published"}

\* Every step of the harness is a step of the journal or leaves the journal alone.
LEMMA JournalStep ==
    ASSUME "mark_published" \notin FaultSites, IndInv, ReceiptInv, [Next]_vars
    PROVE  [Journal!Next]_(Journal!vars)
<1> USE DEF IndInv, StatusInv, ReceiptInv, Journal!vars, Journal!Next
<1> DEFINE Moves(to) == /\ ~receipt
                        /\ status' = to
                        /\ to \in Transitions[status] \ {"cancellation_requested", "submitted",
                                                       "published", "correction_authorized"}
                        /\ UNCHANGED <<fenced, submission, receipt>>
<1>1. ASSUME NEW to, Moves(to) PROVE Journal!Advance
  BY <1>1 DEF Journal!Advance, Journal!Transitions, Journal!RunStatus, Transitions, RunStatus
<1>2. /\ status \in {"created", "preparing", "prepared", "running", "submitted",
                     "validating", "promoting"} => "failed" \in Transitions[status]
      /\ "preparing" \in Transitions["created"]
      /\ {"prepared", "conflicted"} \subseteq Transitions["preparing"]
      /\ "running" \in Transitions["prepared"]
      /\ "cancelled" \in Transitions["cancellation_requested"]
      /\ "validating" \in Transitions["submitted"]
      /\ {"promoting", "rejected"} \subseteq Transitions["validating"]
      /\ "conflicted" \in Transitions["promoting"]
  BY DEF Transitions, RunStatus
<1> HIDE DEF Journal!Next
<1>3. Journal!Advance \/ Journal!RequestCancellation \/ Journal!Submit
        \/ Journal!Commit \/ Journal!Publish => Journal!Next
  BY DEF Journal!Next
<1>4. CASE LoopStep
  <2>1. CASE AcquireLock \/ LoopTerminal \/ BeginExecution \/ BeginSettlement \/ FreezeManifest
    BY <2>1 DEF AcquireLock, LoopTerminal, BeginExecution, BeginSettlement, FreezeManifest,
                InLoop, StaysInLoop
  <2>2. CASE BeginPreparation \/ MarkPrepared \/ BeginRunning \/ BeginValidation
    <3>1. \E to \in RunStatus : Moves(to)
      BY <1>2, <2>2 DEF BeginPreparation, MarkPrepared, BeginRunning, BeginValidation,
                        InLoop, StaysInLoop, RunStatus
    <3> QED
      BY <1>1, <1>3, <3>1
  <2>3. CASE PreparationFails \/ Validate \/ PublicationRefused
    <3>1. \E to \in RunStatus : Moves(to)
      BY <1>2, <2>3 DEF PreparationFails, Validate, PublicationRefused,
                        InLoop, StaysInLoop, RunStatus
    <3> QED
      BY <1>1, <1>3, <3>1
  <2>4. CASE CommitPublication
    BY <1>3, <2>4 DEF CommitPublication, InLoop, StaysInLoop, Journal!Commit
  <2>5. CASE MarkPublished
    BY <1>3, <2>5 DEF MarkPublished, InLoop, StaysInLoop, Journal!Publish
  <2> QED
    BY <1>4, <2>1, <2>2, <2>3, <2>4, <2>5 DEF LoopStep
<1>5. CASE StageStep
  <2>1. CASE StageCancelled \/ EnterStage \/ StageUnresolved
    BY <2>1 DEF StageCancelled, EnterStage, StageUnresolved
  <2>2. CASE StageRaised \/ StageClosed
    <3>1. status' = status \/ Moves("failed")
      BY <1>2, <2>2 DEF StageRaised, StageClosed, GatherDone, StatusAfterError,
                        TerminalRunStatuses
    <3> QED
      BY <1>1, <1>3, <2>2, <3>1 DEF StageRaised, StageClosed
  <2>3. CASE SealSubmission
    BY <1>3, <2>3 DEF SealSubmission, Journal!Submit
  <2> QED
    BY <1>5, <2>1, <2>2, <2>3 DEF StageStep
<1>6. ASSUME NEW i \in Inv, RoleProgress(i) PROVE UNCHANGED Journal!vars
  BY <1>6 DEF RoleProgress, RoleReuses, RoleFenced, RoleIntends, LaunchFails, Spawn,
       Acknowledge, HeartbeatCancels, TimesOut, SeesExit, Reconcile, Close, RoleStep
<1>7. CASE SettleStep
  <2>1. ASSUME NEW i \in Inv,
               SettleUnacknowledged(i) \/ SettleCancels(i) \/ SettleReconciles(i)
        PROVE  UNCHANGED Journal!vars
    BY <2>1 DEF SettleUnacknowledged, SettleCancels, SettleReconciles
  <2>2. CASE FinishCancellation
    <3>1. Moves("cancelled")
      BY <1>2, <2>2 DEF FinishCancellation
    <3> QED
      BY <1>1, <1>3, <3>1
  <2> QED
    BY <1>7, <2>1, <2>2 DEF SettleStep
<1>8. CASE FaultStep
  <2>1. CASE TransitionFault
    <3>1. status' = status \/ Moves("failed")
      BY <1>2, <2>1 DEF TransitionFault, Fault, StatusAfterError, TerminalRunStatuses
    <3> QED
      BY <1>1, <1>3, <2>1, <3>1 DEF TransitionFault
  <2>2. CASE ProgressFault
    <3>1. Moves("failed")
      BY <1>2, <2>2 DEF ProgressFault, StatusAfterError, TerminalRunStatuses
    <3> QED
      BY <1>1, <1>3, <3>1
  <2>3. CASE SettleFault
    BY <2>3 DEF SettleFault
  <2>4. ASSUME NEW i \in Inv, RolePrepareFault(i) \/ AcknowledgeFault(i) \/ CloseFault(i)
        PROVE  UNCHANGED Journal!vars
    BY <2>4 DEF RolePrepareFault, AcknowledgeFault, CloseFault, RoleStep
  <2> QED
    BY <1>8, <2>1, <2>2, <2>3, <2>4 DEF FaultStep
<1>9. CASE RequestCancellation
  BY <1>3, <1>9 DEF RequestCancellation, Journal!RequestCancellation,
                     Cancellable, Journal!Cancellable
<1>10. CASE Crash \/ Restart \/ UNCHANGED vars
  BY <1>10 DEF Crash, Restart, vars
<1>11. ASSUME NEW i \in Inv, WatcherEnds(i) \/ AgentStep(i) PROVE UNCHANGED Journal!vars
  BY <1>11 DEF WatcherEnds, AgentStep, WriteOutputs, ProcessExits, ProcessDies, OrphanExits
<1> QED
  BY <1>4, <1>5, <1>6, <1>7, <1>8, <1>9, <1>10, <1>11 DEF Next, HarnessStep

\* The receipt stays with the published run.
LEMMA ReceiptStep ==
    ASSUME "mark_published" \notin FaultSites, IndInv, ReceiptInv, [Next]_vars
    PROVE  ReceiptInv'
<1>1. CASE UNCHANGED Journal!vars
  BY <1>1 DEF Journal!vars, ReceiptInv
<1>2. CASE Journal!Next
  BY <1>2 DEF Journal!Next, Journal!Advance, Journal!RequestCancellation, Journal!Submit,
              Journal!Commit, Journal!Publish, ReceiptInv, Journal!Cancellable
<1> QED
  BY <1>1, <1>2, JournalStep

\* The durable record of a run behaves as the journal says.
THEOREM ImplementsJournal == ("mark_published" \notin FaultSites) => (Spec => JournalSpec)
<1> SUFFICES ASSUME "mark_published" \notin FaultSites PROVE Spec => JournalSpec
  OBVIOUS
<1>1. Init => ReceiptInv /\ Journal!Init
  BY DEF Init, ReceiptInv, Journal!Init
<1>2. IndInv /\ ReceiptInv /\ [Next]_vars => ReceiptInv' /\ [Journal!Next]_(Journal!vars)
  BY ReceiptStep, JournalStep
<1> QED
  BY <1>1, <1>2, Inductive, PTL DEF Spec, JournalSpec, Journal!Spec

=============================================================================
