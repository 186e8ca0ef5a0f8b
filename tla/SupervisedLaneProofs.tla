------------------------ MODULE SupervisedLaneProofs ------------------------
(***************************************************************************)
(* Proofs about SupervisedLane, for any number of invocations and any      *)
(* number of kills, faults and lost leases.                                *)
(*                                                                         *)
(* The argument has three layers.  TypeInv types the state.  LockInv ties  *)
(* the lock row to the handler, threads and replacement that write: a live *)
(* row excludes the others, a dead one is the row of an invocation that    *)
(* lost its lease.  StateInv follows a replacement target by target, from  *)
(* the row of the lock that guards it to its record or its undoing.  The   *)
(* refinement of StateRegister rests on the three.                         *)
(***************************************************************************)
EXTENDS SupervisedLane, SequenceTheorems, TLAPS

USE DEF role, stores, runs, server, hermes, history

-----------------------------------------------------------------------------
(* The type invariant.                                                     *)

\* Who works on a launch, or watches it, has its record.
KnownInv ==
    /\ \A i \in Invocation : worker[i].at \in Working => launch[i] # None
    /\ \A i \in watching : launch[i] # None

TypeInv == TypeOK /\ KnownInv

\* At first no handler, thread or process works and no store holds state.
LEMMA TypeInit == Init => TypeInv
<1> SUFFICES ASSUME Init PROVE TypeInv
  OBVIOUS
<1>1. promoted \in Seq(PromotionRow) /\ backups \in [Target -> Seq(Invocation)]
  BY EmptySeq DEF Init
<1>2. mishaps \in 0 .. MaxMishaps
  BY BoundAssumption DEF Init
<1>3. worker \in [Invocation -> Thread] /\ loop \in Handler
  BY DEF Init, Thread, Handler
<1> QED
  BY <1>1, <1>2, <1>3 DEF Init, TypeInv, TypeOK, KnownInv, Content, Working

\* A handler that seals knows for whom, under which policy, and what it has.
LEMMA SealingType ==
    ASSUME TypeOK, loop.at \in Sealing
    PROVE  loop \in [at : Sealing, of : Invocation, policy : Policy, copy : [Target -> Content]]
BY DEF TypeOK, Handler, Sealing, Idle

\* What a seal copies is some content of each target.
LEMMA CopiedType ==
    ASSUME TypeOK, loop.at \in Sealing, NEW t \in Target
    PROVE  Copied(t) \in [Target -> Content]
<1>1. loop.copy \in [Target -> Content] /\ canon \in [Target -> Content]
  BY SealingType DEF TypeOK
<1> QED
  BY <1>1 DEF Copied, Content

\* A launch record is acknowledged, or asked to be cancelled.
LEMMA LaunchMarked ==
    ASSUME TypeOK, NEW i \in Invocation, launch[i] # None,
           \/ launch' = [launch EXCEPT ![i].acked = TRUE]
           \/ launch' = [launch EXCEPT ![i].asked = TRUE]
    PROVE  /\ launch' \in [Invocation -> LaunchRow \cup {None}]
           /\ \A j \in Invocation : launch[j] # None => launch'[j] # None
<1>1. launch \in [Invocation -> LaunchRow \cup {None}] /\ launch[i] \in LaunchRow
  BY DEF TypeOK
<1>2. /\ [launch[i] EXCEPT !.acked = TRUE] \in LaunchRow
      /\ [launch[i] EXCEPT !.asked = TRUE] \in LaunchRow
  BY <1>1 DEF LaunchRow
<1> QED
  BY <1>1, <1>2, NoneAssumption

\* A seal and what follows it in its handler.
LEMMA BeginSealTypes ==
    ASSUME TypeInv, NEW i \in Invocation, NEW p \in Policy, BeginSeal(i, p)
    PROVE  TypeInv'
BY DEF TypeInv, TypeOK, KnownInv, BeginSeal, Acquire, LockRow, Handler, Sealing, Content

\* The seal of a start, target by target, and its dispatch.
LEMMA SealTypes ==
    ASSUME TypeInv, SealStep \/ Dispatch \/ RefuseStart
    PROVE  TypeInv'
<1> USE DEF TypeInv, TypeOK, KnownInv
<1>1. CASE SnapshotMemory
  <2>1. Copied("memories") \in [Target -> Content]
    BY <1>1, CopiedType DEF SnapshotMemory, Sealing, Target
  <2>2. loop' \in Handler
    <3>1. loop \in [at : Sealing, of : Invocation, policy : Policy, copy : [Target -> Content]]
      BY <1>1, SealingType DEF SnapshotMemory, Sealing
    <3>2. loop' = [at |-> "session", of |-> loop.of, policy |-> loop.policy,
                   copy |-> Copied("memories")]
      BY <1>1, <3>1 DEF SnapshotMemory
    <3> QED
      BY <2>1, <3>1, <3>2 DEF Handler, Sealing
  <2> QED
    BY <1>1, <2>2 DEF SnapshotMemory
<1>2. CASE SnapshotSession
  <2>1. Copied("session") \in [Target -> Content]
    BY <1>2, CopiedType DEF SnapshotSession, Sealing, Target
  <2>2. loop' \in Handler
    <3>1. loop \in [at : Sealing, of : Invocation, policy : Policy, copy : [Target -> Content]]
      BY <1>2, SealingType DEF SnapshotSession, Sealing
    <3>2. loop' = [at |-> "record", of |-> loop.of, policy |-> loop.policy,
                   copy |-> Copied("session")]
      BY <1>2, <3>1 DEF SnapshotSession
    <3> QED
      BY <2>1, <3>1, <3>2 DEF Handler, Sealing
  <2> QED
    BY <1>2, <2>2 DEF SnapshotSession
<1>3. CASE RecordSeal
  BY <1>3 DEF RecordSeal, Release, Handler, Sealing, Idle, SealRow
<1>4. CASE SealFails
  BY <1>4, BoundAssumption DEF SealFails, Mishap, Release, Handler, Sealing, Idle
<1>5. CASE Dispatch
  BY <1>5 DEF Dispatch, Handler, Idle, Thread, Working, Sealing
<1>6. CASE RefuseStart
  BY <1>6 DEF RefuseStart, Handler
<1> QED
  BY <1>1, <1>2, <1>3, <1>4, <1>5, <1>6 DEF SealStep

\* A thread that goes on to another stage of its work is still typed.
LEMMA AdvanceType ==
    ASSUME TypeOK, NEW i \in Invocation, worker[i].at \in Working,
           NEW stage \in Working, Advance(i, stage)
    PROVE  /\ worker' \in [Invocation -> Thread]
           /\ \A j \in Invocation : worker'[j].at \in Working => worker[j].at \in Working
           /\ cancelEvent' = cancelEvent
<1>1. worker[i] \in [at : Working, token : Nat]
  BY DEF TypeOK, Thread, Working
<1>2. [worker[i] EXCEPT !.at = stage] \in [at : Working, token : Nat]
  BY <1>1
<1>3. worker' = [worker EXCEPT ![i] = [worker[i] EXCEPT !.at = stage]]
  BY DEF Advance
<1> QED
  BY <1>2, <1>3 DEF TypeOK, Thread, Advance

\* So is one that ends.
LEMMA EndedType ==
    ASSUME TypeOK, NEW i \in Invocation, Ended(i)
    PROVE  /\ worker' \in [Invocation -> Thread]
           /\ \A j \in Invocation : worker'[j].at \in Working => worker[j].at \in Working
           /\ cancelEvent' \subseteq Invocation
BY DEF TypeOK, Ended, Thread, Working

\* A record that is closed is a record.
LEMMA ClosedType ==
    ASSUME TypeOK, NEW i \in Invocation, launch[i] # None,
           NEW status \in Terminal, NEW judged \in BOOLEAN, Closed(i, status, judged)
    PROVE  /\ launch' \in [Invocation -> LaunchRow \cup {None}]
           /\ \A j \in Invocation : launch[j] # None => launch'[j] # None
<1>1. launch[i] \in LaunchRow
  BY DEF TypeOK
<1>2. [launch[i] EXCEPT !.status = status, !.judged = judged] \in LaunchRow
  BY <1>1 DEF LaunchRow
<1>3. launch' = [launch EXCEPT ![i] = [launch[i] EXCEPT !.status = status, !.judged = judged]]
  BY DEF Closed, TypeOK
<1> QED
  BY <1>2, <1>3, NoneAssumption DEF TypeOK

\* A release drops the row of the lock or leaves it.
LEMMA ReleaseType ==
    ASSUME TypeOK, NEW i \in Invocation, NEW token, Release(i, token)
    PROVE  lock' \in LockRow \cup {None} /\ tokens' = tokens
BY DEF TypeOK, Release

\* The end of a process.
LEMMA EndsType ==
    ASSUME TypeOK, NEW i \in Invocation, NEW how \in {"ok", "bad"}, Ends(i, how)
    PROVE  /\ process' \in [Invocation -> {"none", "alive", "ok", "bad"}]
           /\ hasSession' \in [Invocation -> BOOLEAN]
BY DEF TypeOK, Ends

\* A launch, from its record to the end of its process.
LEMMA LaunchTypes ==
    ASSUME TypeInv, NEW i \in Invocation,
           \/ TakeLock(i) \/ LockHeld(i) \/ PreflightFails(i) \/ Spawn(i)
           \/ Acknowledge(i)
    PROVE  TypeInv'
<1> USE DEF TypeInv, TypeOK, KnownInv, At
<1>1. CASE TakeLock(i)
  <2>1. /\ launch' \in [Invocation -> LaunchRow \cup {None}]
        /\ \A j \in Invocation : j = i \/ launch[j] # None => launch'[j] # None
    <3>1. [status |-> "running", acked |-> FALSE, asked |-> FALSE, judged |-> FALSE] \in LaunchRow
      BY DEF LaunchRow
    <3> QED
      BY <1>1, <3>1, NoneAssumption DEF TakeLock
  <2>2. /\ worker' \in [Invocation -> Thread]
        /\ \A j \in Invocation \ {i} : worker'[j] = worker[j]
    <3>1. [at |-> "preparing", token |-> tokens[i] + 1] \in Thread
      BY DEF Thread, Working
    <3> QED
      BY <1>1, <3>1 DEF TakeLock
  <2>3. lock' \in LockRow /\ tokens' \in [Invocation -> Nat]
    BY <1>1 DEF TakeLock, Acquire, LockRow
  <2> QED
    BY <1>1, <2>1, <2>2, <2>3 DEF TakeLock
<1>2. CASE LockHeld(i)
  BY <1>2, EndedType DEF LockHeld
<1>3. CASE PreflightFails(i)
  BY <1>3, EndedType, ClosedType, ReleaseType DEF PreflightFails, Working, Terminal
<1>4. CASE Spawn(i)
  BY <1>4, AdvanceType DEF Spawn, Working
<1>5. CASE Acknowledge(i)
  <2>1. launch[i] # None /\ launch' = [launch EXCEPT ![i].acked = TRUE]
    BY <1>5 DEF Acknowledge, At, Working
  <2>2. /\ launch' \in [Invocation -> LaunchRow \cup {None}]
        /\ \A j \in Invocation : launch[j] # None => launch'[j] # None
    BY <2>1, LaunchMarked
  <2> QED
    BY <1>5, <2>2, AdvanceType DEF Acknowledge, Working
<1> QED
  BY <1>1, <1>2, <1>3, <1>4, <1>5

\* The end of a thread of its own accord.
LEMMA CloseTypes ==
    ASSUME TypeInv, NEW i \in Invocation,
           \/ Abort(i) \/ CloseSucceeded(i) \/ CloseFailed(i) \/ CloseIsLost(i)
           \/ \E v \in {"pass", "fail", None} : Validate(i, v)
    PROVE  TypeInv'
<1> USE DEF TypeInv, TypeOK, KnownInv, At
<1>1. CASE Abort(i)
  <2>1. process' \in [Invocation -> {"none", "alive", "ok", "bad"}]
        /\ hasSession' \in [Invocation -> BOOLEAN]
    BY <1>1, EndsType DEF Abort
  <2>2. mishaps' \in 0 .. MaxMishaps
    BY <1>1, BoundAssumption DEF Abort, Mishap
  <2>3. launch[i] # None
    BY <1>1 DEF Abort, Working
  <2>4. /\ launch' \in [Invocation -> LaunchRow \cup {None}]
        /\ \A j \in Invocation : launch[j] # None => launch'[j] # None
    BY <1>1, <2>3, ClosedType DEF Abort, Terminal
  <2> QED
    BY <1>1, <2>1, <2>2, <2>4, EndedType, ReleaseType DEF Abort
<1>2. CASE CloseSucceeded(i)
  BY <1>2, AdvanceType, ClosedType DEF CloseSucceeded, Working, Terminal
<1>3. CASE CloseFailed(i)
  BY <1>3, EndedType, ClosedType, ReleaseType DEF CloseFailed, Working, Terminal
<1>4. CASE CloseIsLost(i)
  BY <1>4, EndedType, ReleaseType, BoundAssumption DEF CloseIsLost, Mishap
<1>5. ASSUME NEW v \in {"pass", "fail", None}, Validate(i, v)
      PROVE  TypeInv'
  <2>1. mishaps' \in 0 .. MaxMishaps
    BY <1>5, BoundAssumption DEF Validate, Mishap
  <2> QED
    BY <1>5, <2>1, AdvanceType, EndedType, ReleaseType DEF Validate, Working
<1> QED
  BY <1>1, <1>2, <1>3, <1>4, <1>5

\* A promotion, from its lock to its record.
LEMMA PromotionTypes ==
    ASSUME TypeInv, NEW i \in Invocation, BeginPromotion(i) \/ PromotionLockHeld(i)
    PROVE  TypeInv'
<1> USE DEF TypeInv, TypeOK, KnownInv, At
<1>1. CASE BeginPromotion(i)
  <2>1. Staged(i) \in Seq(Target)
    <3>1. <<"memories", "session">> \in Seq(Target)
      BY DEF Target
    <3>2. <<"memories">> \in Seq(Target)
      BY DEF Target
    <3> QED
      BY <3>1, <3>2 DEF Staged
  <2>2. swap' \in Replacement
    <3>1. swap' = [of |-> i, old |-> canon, aside |-> FALSE, done |-> {},
                   todo |-> Staged(i), failed |-> FALSE, undo |-> <<>>]
      BY <1>1 DEF BeginPromotion
    <3> QED
      BY <2>1, <3>1, EmptySeq DEF Replacement
  <2>3. lock' \in LockRow /\ tokens' \in [Invocation -> Nat]
    BY <1>1 DEF BeginPromotion, Acquire, LockRow
  <2> QED
    BY <1>1, <2>2, <2>3, AdvanceType DEF BeginPromotion, Working
<1>2. CASE PromotionLockHeld(i)
  BY <1>2, EndedType, ReleaseType DEF PromotionLockHeld
<1> QED
  BY <1>1, <1>2

\* What a failed replacement puts back are targets.
LEMMA UndoTargets ==
    ASSUME NEW s, NEW undo \in UndoOrders(s)
    PROVE  /\ undo \in Seq(Target)
           /\ undo \in {<<>>, <<"memories">>, <<"memories", "session">>, <<"session", "memories">>}
<1>1. undo \in {<<>>, <<"memories">>, <<"memories", "session">>, <<"session", "memories">>}
  BY DEF UndoOrders
<1>2. <<"memories", "session">> \in Seq(Target) /\ <<"session", "memories">> \in Seq(Target)
  BY DEF Target
<1>3. <<"memories">> \in Seq(Target) /\ <<>> \in Seq(Target)
  BY DEF Target
<1> QED
  BY <1>1, <1>2, <1>3

\* The replacement of the stores, step by step.
LEMMA SwapTypes ==
    ASSUME TypeInv, SwapStep
    PROVE  TypeInv'
<1> USE DEF TypeInv, TypeOK, KnownInv
<1>1. CASE SetAside
  <2>1. swap \in Replacement /\ swap.todo \in Seq(Target) /\ swap.todo # <<>>
    BY <1>1 DEF SetAside, Replacement
  <2>2. Head(swap.todo) \in Target
    BY <2>1, HeadTailProperties
  <2>3. canon[Head(swap.todo)] \in Invocation
    BY <1>1, <2>2 DEF SetAside, Content
  <2>4. canon' \in [Target -> Content]
    BY <1>1 DEF SetAside, Content
  <2>5. backups' \in [Target -> Seq(Invocation)]
    BY <1>1, <2>2, <2>3, AppendProperties DEF SetAside
  <2>6. swap' \in Replacement
    BY <1>1, <2>1 DEF SetAside, Replacement
  <2> QED
    BY <1>1, <2>4, <2>5, <2>6 DEF SetAside
<1>2. CASE MoveIn
  <2>1. swap \in Replacement /\ swap.todo \in Seq(Target) /\ swap.todo # <<>>
    BY <1>2 DEF MoveIn, Replacement
  <2>2. Head(swap.todo) \in Target /\ Tail(swap.todo) \in Seq(Target)
    BY <2>1, HeadTailProperties
  <2>3. canon' \in [Target -> Content]
    BY <1>2, <2>1 DEF MoveIn, Content, Replacement
  <2>4. swap' \in Replacement
    BY <1>2, <2>1, <2>2 DEF MoveIn, Replacement
  <2> QED
    BY <1>2, <2>3, <2>4 DEF MoveIn
<1>3. CASE RecordPromotion
  <2>1. swap.of \in Invocation /\ swap.done \in SUBSET Target
    BY <1>3 DEF RecordPromotion, Replacement
  <2>2. promoted' \in Seq(PromotionRow)
    BY <1>3, <2>1, AppendProperties DEF RecordPromotion, PromotionRow
  <2> QED
    BY <1>3, <2>1, <2>2, EndedType, ReleaseType DEF RecordPromotion
<1>4. CASE PromotionFails
  <2>1. PICK undo \in UndoOrders(swap) : swap' = [swap EXCEPT !.failed = TRUE, !.undo = undo]
    BY <1>4 DEF PromotionFails
  <2>2. swap \in Replacement /\ undo \in Seq(Target)
    BY <1>4, UndoTargets DEF PromotionFails
  <2>3. swap' \in Replacement
    BY <2>1, <2>2 DEF Replacement
  <2>4. mishaps' \in 0 .. MaxMishaps
    BY <1>4, BoundAssumption DEF PromotionFails, Mishap
  <2> QED
    BY <1>4, <2>3, <2>4 DEF PromotionFails
<1>5. CASE RemoveReplaced
  BY <1>5 DEF RemoveReplaced, Content
<1>6. CASE PutBack
  <2>1. swap \in Replacement /\ swap.undo \in Seq(Target) /\ swap.undo # <<>>
        /\ swap.old \in [Target -> Content]
    BY <1>6 DEF PutBack, Undoing, Replacement
  <2>2. Head(swap.undo) \in Target /\ Tail(swap.undo) \in Seq(Target)
    BY <2>1, HeadTailProperties
  <2>3. canon' \in [Target -> Content]
    BY <1>6, <2>1, <2>2 DEF PutBack
  <2>4. \A t \in Target : SubSeq(backups[t], 1, Len(backups[t]) - 1) \in Seq(Invocation)
    <3> TAKE t \in Target
    <3>1. backups[t] \in Seq(Invocation) /\ Len(backups[t]) \in Nat
      BY LenProperties
    <3>2. \A n \in 1 .. Len(backups[t]) - 1 : backups[t][n] \in Invocation
      BY <3>1, ElementOfSeq
    <3> QED
      BY <3>1, <3>2, SubSeqProperties
  <2>5. backups' \in [Target -> Seq(Invocation)]
    BY <1>6, <2>2, <2>4 DEF PutBack
  <2>6. swap' \in Replacement
    BY <1>6, <2>1, <2>2 DEF PutBack, Replacement
  <2> QED
    BY <1>6, <2>3, <2>5, <2>6 DEF PutBack
<1>7. CASE UndoDone \/ UndoFails
  <2>1. swap.of \in Invocation /\ SwapEnds
    BY <1>7 DEF UndoDone, UndoFails, Undoing, Replacement
  <2>2. mishaps' \in 0 .. MaxMishaps /\ interrupted' \in Nat
    BY <1>7, BoundAssumption DEF UndoDone, UndoFails, Mishap
  <2> QED
    BY <2>1, <2>2, EndedType, ReleaseType DEF SwapEnds
<1> QED
  BY <1>1, <1>2, <1>3, <1>4, <1>5, <1>6, <1>7 DEF SwapStep

\* Cancelling, and the end of a process.
LEMMA CancelTypes ==
    ASSUME TypeInv, NEW i \in Invocation,
           \/ RequestCancel(i) \/ WatcherCloses(i)
           \/ \E how \in {"ok", "bad"} : Exit(i, how)
    PROVE  TypeInv'
<1> USE DEF TypeInv, TypeOK, KnownInv
<1>1. CASE RequestCancel(i)
  <2>1. /\ launch' \in [Invocation -> LaunchRow \cup {None}]
        /\ \A j \in Invocation : launch[j] # None => launch'[j] # None
    <3>1. launch[i] # None /\ launch' = [launch EXCEPT ![i].asked = TRUE]
      BY <1>1 DEF RequestCancel
    <3> QED
      BY <3>1, LaunchMarked
  <2>2. loop' \in Handler
    BY <1>1 DEF RequestCancel, Handler
  <2> QED
    BY <1>1, <2>1, <2>2 DEF RequestCancel
<1>2. CASE WatcherCloses(i)
  <2>1. Outcome(i) \in Terminal
    BY DEF Outcome, Terminal
  <2>2. /\ launch' \in [Invocation -> LaunchRow \cup {None}]
        /\ \A j \in Invocation : launch[j] # None => launch'[j] # None
    BY <1>2, <2>1, ClosedType DEF WatcherCloses
  <2> QED
    BY <1>2, <2>2 DEF WatcherCloses
<1>3. ASSUME NEW how \in {"ok", "bad"}, Exit(i, how) PROVE TypeInv'
  BY <1>3, EndsType DEF Exit
<1> QED
  BY <1>1, <1>2, <1>3

\* The signal of a cancellation, a lease that runs out, kill and restart.
LEMMA ElsewhereTypes ==
    ASSUME TypeInv, SignalProcess \/ Lapse \/ Kill \/ Restart
    PROVE  TypeInv'
<1> USE DEF TypeInv, TypeOK, KnownInv
<1>1. CASE SignalProcess
  <2>1. loop.of \in Invocation
    BY <1>1 DEF SignalProcess, Handler, Idle, Sealing
  <2>2. process' \in [Invocation -> {"none", "alive", "ok", "bad"}]
        /\ hasSession' \in [Invocation -> BOOLEAN]
    BY <1>1, <2>1, EndsType DEF SignalProcess
  <2> QED
    BY <1>1, <2>2 DEF SignalProcess, Handler
<1>2. CASE Lapse
  <2>1. lock \in LockRow
    BY <1>2 DEF Lapse
  <2>2. lock' \in LockRow /\ lapsed' \subseteq Invocation
    BY <1>2, <2>1 DEF Lapse, LockRow
  <2>3. mishaps' \in 0 .. MaxMishaps
    BY <1>2, BoundAssumption DEF Lapse, Mishap
  <2> QED
    BY <1>2, <2>2, <2>3 DEF Lapse
<1>3. CASE Kill
  <2>1. /\ worker' \in [Invocation -> Thread]
        /\ \A j \in Invocation : worker'[j].at \in {"none", "done", "dead"}
    BY <1>3 DEF Kill, Thread, Working
  <2>2. mishaps' \in 0 .. MaxMishaps /\ interrupted' \in Nat
    BY <1>3, BoundAssumption DEF Kill, Mishap
  <2> QED
    BY <1>3, <2>1, <2>2 DEF Kill, Handler, Working
<1>4. CASE Restart
  <2>1. \A j \in Invocation : launch[j] # None =>
          /\ launch[j] \in LaunchRow
          /\ [launch[j] EXCEPT !.status = Outcome(j), !.judged = @ \/ launch[j].acked] \in LaunchRow
    BY DEF LaunchRow, Outcome, Terminal
  <2>2. \A j \in Invocation :
            /\ launch[j] \in LaunchRow \cup {None}
            /\ launch'[j] = launch[j]
               \/ (launch[j] # None /\ launch'[j] = [launch[j] EXCEPT !.status = Outcome(j),
                                                           !.judged = @ \/ launch[j].acked])
    BY <1>4 DEF Restart
  <2>3. launch' = [j \in Invocation |-> launch'[j]]
    BY <1>4 DEF Restart
  <2>4. /\ launch' \in [Invocation -> LaunchRow \cup {None}]
        /\ \A j \in Invocation : launch[j] # None => launch'[j] # None
    <3>1. ASSUME NEW j \in Invocation
          PROVE  /\ launch'[j] \in LaunchRow \cup {None}
                 /\ launch[j] # None => launch'[j] # None
      <4>1. CASE launch'[j] = launch[j]
        BY <2>2, <4>1
      <4>2. CASE /\ launch[j] # None
                 /\ launch'[j] = [launch[j] EXCEPT !.status = Outcome(j),
                                                  !.judged = @ \/ launch[j].acked]
        <5>1. launch'[j] \in LaunchRow
          BY <2>1, <4>2
        <5> QED
          BY <5>1, NoneAssumption
      <4> QED
        BY <2>2, <4>1, <4>2
    <3> QED
      BY <2>3, <3>1
  <2> QED
    BY <1>4, <2>4 DEF Restart
<1> QED
  BY <1>1, <1>2, <1>3, <1>4

\* Each step keeps the type invariant.
LEMMA TypeStep == TypeInv /\ [Next]_vars => TypeInv'
<1> SUFFICES ASSUME TypeInv, [Next]_vars PROVE TypeInv'
  OBVIOUS
<1>1. CASE UNCHANGED vars
  BY <1>1 DEF vars, TypeInv, TypeOK, KnownInv
<1>2. ASSUME NEW i \in Invocation, WorkerStep(i) PROVE TypeInv'
  BY <1>2, LaunchTypes, CloseTypes, PromotionTypes DEF WorkerStep
<1>3. CASE LoopStep
  BY <1>3, SealTypes, ElsewhereTypes DEF LoopStep
<1> QED
  BY <1>1, <1>2, <1>3, BeginSealTypes, SwapTypes, CancelTypes, ElsewhereTypes
  DEF Next, ReplayStart

\* The records of the supervised lane have their types throughout: launches, seals,
\* the lock, promotions and the replacement in hand (state_lock, launch_sealed_run,
\* promote_run_state).
THEOREM TypesAreCorrect == Spec => []TypeOK
<1>1. TypeInv => TypeOK
  BY DEF TypeInv
<1> QED
  BY TypeInit, TypeStep, <1>1, PTL DEF Spec

-----------------------------------------------------------------------------
(* One writer.                                                             *)

\* A server that is down does nothing; a handler seals, or is about to
\* dispatch, an invocation that no thread works for; a thread works on a run
\* that is prepared; and the replacement under way is that of a thread.
StartInv ==
    /\ ~up => /\ loop = Idle /\ swap = None
              /\ \A i \in Invocation : worker[i].at \in {"none", "done", "dead"}
    /\ loop.at \in Sealing => runDir[loop.of] = "partial"
    /\ loop.at = "preflight" => runDir[loop.of] = "prepared" /\ worker[loop.of].at = "none"
    /\ \A i \in Invocation : worker[i].at # "none" => runDir[i] = "prepared"
    /\ swap # None => worker[swap.of].at = "promoting"

\* The row of a lease that ran out is its own last trace.
LeaseInv == lock # None /\ ~lock.live => lock.by \in lapsed

LockInv == StartInv /\ LeaseInv /\ OneWriter

\* At first nobody holds the lock.
LEMMA LockInit == Init => LockInv
BY DEF Init, LockInv, StartInv, LeaseInv, OneWriter, Critical, Idle, Sealing, Working

\* Whoever may take the lock is the only one who may be writing.
LEMMA FreeIsExclusive ==
    ASSUME TypeInv, LockInv, NEW i \in Invocation, Free(i)
    PROVE  /\ loop.at \in Sealing => loop.of = i
           /\ swap # None => swap.of = i
           /\ \A j \in Critical \ lapsed : j = i
BY DEF LockInv, LeaseInv, OneWriter, Free

\* An acquisition leaves a live row.
LEMMA AcquireFacts ==
    ASSUME TypeInv, NEW i \in Invocation, Acquire(i)
    PROVE  Free(i) /\ lock' # None /\ lock'.by = i /\ lock'.live
<1>1. [by |-> i, token |-> tokens[i] + 1, live |-> TRUE] \in LockRow
  BY DEF TypeInv, TypeOK, LockRow
<1> QED
  BY <1>1, NoneAssumption DEF Acquire

\* A release removes no row but that of the releaser.
LEMMA ReleaseFacts ==
    ASSUME NEW i, NEW token, Release(i, token)
    PROVE  lock' = lock \/ (lock' = None /\ lock.by = i)
BY DEF Release

\* What a thread does with itself.
LEMMA ThreadFacts ==
    ASSUME TypeInv, NEW i \in Invocation
    PROVE  /\ Ended(i) => worker'[i].at = "done" /\ \A j \in Invocation \ {i} : worker'[j] = worker[j]
           /\ \A stage \in Working :
                Advance(i, stage) /\ worker[i].at \in Working
                  => worker'[i].at = stage /\ \A j \in Invocation \ {i} : worker'[j] = worker[j]
<1>1. Ended(i) => worker'[i].at = "done" /\ \A j \in Invocation \ {i} : worker'[j] = worker[j]
  BY DEF Ended, TypeInv, TypeOK
<1>2. ASSUME NEW stage \in Working, Advance(i, stage), worker[i].at \in Working
      PROVE  worker'[i].at = stage /\ \A j \in Invocation \ {i} : worker'[j] = worker[j]
  <2>1. worker[i] \in [at : Working, token : Nat]
    BY <1>2 DEF TypeInv, TypeOK, Thread, Working
  <2>2. worker' = [worker EXCEPT ![i] = [worker[i] EXCEPT !.at = stage]]
    BY <1>2 DEF Advance
  <2> QED
    BY <2>1, <2>2 DEF TypeInv, TypeOK
<1> QED
  BY <1>1, <1>2

\* A start is sealed only where nothing was started (start_supervised_role).
LEMMA StartBegins ==
    ASSUME TypeInv, StartInv, NEW i \in Invocation, NEW p \in Policy, BeginSeal(i, p)
    PROVE  StartInv'
BY DEF TypeInv, TypeOK, StartInv, BeginSeal, Sealing, Idle

\* A handler that goes on to dispatch starts the one thread of its start.
LEMMA StartHandlers ==
    ASSUME TypeInv, StartInv, LoopStep
    PROVE  StartInv'
<1> USE DEF TypeInv, TypeOK, StartInv
<1>1. CASE SnapshotMemory
  BY <1>1 DEF SnapshotMemory, Handler, Sealing, Idle
<1>2. CASE SnapshotSession
  BY <1>2 DEF SnapshotSession, Handler, Sealing, Idle
<1>3. CASE RecordSeal
  BY <1>3 DEF RecordSeal, Handler, Sealing, Idle
<1>4. CASE SealFails
  BY <1>4 DEF SealFails, Handler, Sealing, Idle
<1>5. CASE Dispatch
  BY <1>5 DEF Dispatch, Handler, Sealing, Idle
<1>6. CASE RefuseStart
  BY <1>6 DEF RefuseStart, Handler, Sealing, Idle
<1>7. CASE SignalProcess
  BY <1>7 DEF SignalProcess, Handler, Sealing, Idle
<1> QED
  BY <1>1, <1>2, <1>3, <1>4, <1>5, <1>6, <1>7 DEF LoopStep, SealStep

\* A thread that goes on stays the thread of its launch.
LEMMA StartThreads ==
    ASSUME TypeInv, StartInv, NEW i \in Invocation, WorkerStep(i)
    PROVE  StartInv'
<1>1. worker[i].at \in {"queued"} \cup Working /\ worker[i].at # "promoting" /\ up
  BY DEF WorkerStep, At, TakeLock, LockHeld, PreflightFails, Spawn, Acknowledge, Abort,
         CloseSucceeded, CloseFailed, CloseIsLost, Validate, BeginPromotion,
         PromotionLockHeld, Working
<1>2. /\ \A j \in Invocation \ {i} : worker'[j] = worker[j]
      /\ worker'[i].at # "none"
  <2>1. TakeLock(i) \/ Ended(i) \/ \E stage \in Working : Advance(i, stage) /\ worker[i].at \in Working
    BY DEF WorkerStep, At, LockHeld, PreflightFails, Spawn, Acknowledge, Abort,
           CloseSucceeded, CloseFailed, CloseIsLost, Validate, BeginPromotion,
           PromotionLockHeld, Working
  <2>2. CASE TakeLock(i)
    BY <2>2 DEF TakeLock, TypeInv, TypeOK
  <2> QED
    BY <2>1, <2>2, ThreadFacts DEF Working
<1>3. UNCHANGED <<up, loop, runDir>>
  BY DEF WorkerStep, TakeLock, LockHeld, PreflightFails, Spawn, Acknowledge, Abort,
         CloseSucceeded, CloseFailed, CloseIsLost, Validate, BeginPromotion,
         PromotionLockHeld
<1>4. swap' # None => worker'[swap'.of].at = "promoting"
  <2>1. CASE BeginPromotion(i)
    BY <2>1, <1>1, ThreadFacts DEF BeginPromotion, At, Working
  <2>2. CASE ~BeginPromotion(i)
    <3>1. swap' = swap
      BY <2>2 DEF WorkerStep, TakeLock, LockHeld, PreflightFails, Spawn, Acknowledge, Abort,
             CloseSucceeded, CloseFailed, CloseIsLost, Validate, PromotionLockHeld
    <3> QED
      BY <3>1, <1>1, <1>2 DEF StartInv, TypeInv, TypeOK, Replacement
  <2> QED
    BY <2>1, <2>2
<1>5. loop.at \in Sealing \cup {"preflight"} => loop.of \in Invocation /\ loop.of # i
  BY <1>1 DEF StartInv, TypeInv, TypeOK, Handler, Sealing, Idle, Working
<1>6. \A j \in Invocation : worker'[j].at # "none" => runDir[j] = "prepared"
  BY <1>1, <1>2 DEF StartInv, Working
<1> QED
  BY <1>1, <1>2, <1>3, <1>4, <1>5, <1>6 DEF StartInv

\* A replacement, or its rollback, goes on.
GoesOn == SetAside \/ MoveIn \/ PromotionFails \/ RemoveReplaced \/ PutBack

\* Any step of a replacement has one that is under way.
LEMMA SwapSteps ==
    ASSUME SwapStep
    PROVE  swap # None /\ UNCHANGED <<up, loop, runDir, lapsed>>
BY DEF SwapStep, SetAside, MoveIn, RecordPromotion, PromotionFails, RemoveReplaced, PutBack,
       UndoDone, UndoFails, Undoing, SwapEnds

\* One that goes on stays that of its thread.
LEMMA GoingOn ==
    ASSUME TypeInv, GoesOn
    PROVE  swap'.of = swap.of /\ UNCHANGED <<worker, lock>>
<1>1. swap \in Replacement
  BY DEF GoesOn, SetAside, MoveIn, PromotionFails, RemoveReplaced, PutBack, Undoing,
         TypeInv, TypeOK
<1> QED
  BY <1>1 DEF GoesOn, SetAside, MoveIn, PromotionFails, RemoveReplaced, PutBack, Replacement

\* A replacement is run by the thread that promotes.
LEMMA StartSwaps ==
    ASSUME TypeInv, StartInv, SwapStep
    PROVE  StartInv'
<1>1. swap # None /\ swap.of \in Invocation /\ worker[swap.of].at = "promoting"
  BY SwapSteps DEF StartInv, TypeInv, TypeOK, Replacement
<1>2. UNCHANGED <<up, loop, runDir>>
  BY SwapSteps
<1>3. CASE GoesOn
  <2>1. swap'.of = swap.of /\ worker' = worker
    BY <1>3, GoingOn
  <2> QED
    BY <1>1, <1>2, <2>1 DEF StartInv
<1>4. CASE RecordPromotion \/ UndoDone \/ UndoFails
  <2>1. swap' = None /\ worker' = [worker EXCEPT ![swap.of] = [at |-> "done"]]
    BY <1>4 DEF RecordPromotion, UndoDone, UndoFails, SwapEnds, Ended
  <2>2. loop.at = "preflight" => loop.of \in Invocation /\ loop.of # swap.of
    BY <1>1 DEF StartInv, TypeInv, TypeOK, Handler, Sealing, Idle
  <2> QED
    BY <1>1, <1>2, <2>1, <2>2 DEF StartInv, TypeInv, TypeOK
<1> QED
  BY <1>3, <1>4 DEF SwapStep, GoesOn

\* A kill ends every handler and thread; the other steps touch none.
LEMMA StartElsewhere ==
    ASSUME TypeInv, StartInv,
           \/ Lapse \/ Kill \/ Restart
           \/ \E i \in Invocation : RequestCancel(i) \/ WatcherCloses(i)
           \/ \E i \in Invocation, how \in {"ok", "bad"} : Exit(i, how)
    PROVE  StartInv'
<1>1. CASE Lapse
  BY <1>1 DEF Lapse, StartInv
<1>2. CASE Kill
  <2>1. \A i \in Invocation : /\ worker'[i].at \in {"none", "done", "dead"}
                              /\ worker'[i].at # "none" => worker[i].at # "none"
    BY <1>2 DEF Kill, TypeInv, TypeOK, Thread, Working
  <2> QED
    BY <1>2, <2>1 DEF Kill, StartInv, Idle, Sealing
<1>3. CASE Restart
  BY <1>3 DEF Restart, StartInv
<1>4. ASSUME NEW i \in Invocation, RequestCancel(i) PROVE StartInv'
  BY <1>4 DEF RequestCancel, StartInv, Sealing
<1>5. ASSUME NEW i \in Invocation, WatcherCloses(i) PROVE StartInv'
  BY <1>5 DEF WatcherCloses, StartInv
<1>6. ASSUME NEW i \in Invocation, NEW how \in {"ok", "bad"}, Exit(i, how) PROVE StartInv'
  BY <1>6 DEF Exit, StartInv
<1> QED
  BY <1>1, <1>2, <1>3, <1>4, <1>5, <1>6

\* Each step keeps what a start is.
LEMMA StartStep == TypeInv /\ StartInv /\ [Next]_vars => StartInv'
<1> SUFFICES ASSUME TypeInv, StartInv, [Next]_vars PROVE StartInv'
  OBVIOUS
<1>1. CASE UNCHANGED vars
  BY <1>1 DEF vars, StartInv
<1> QED
  BY <1>1, StartBegins, StartHandlers, StartThreads, StartSwaps, StartElsewhere
  DEF Next, ReplayStart

\* A step that leaves the lock alone, or only removes the row of one that does
\* not write any more, leaves the writers in possession.
LEMMA WritersKeep ==
    ASSUME LockInv,
           lapsed' = lapsed, Critical' \subseteq Critical,
           loop'.at \in Sealing => loop.at \in Sealing /\ loop'.of = loop.of,
           swap' # None => swap # None /\ swap'.of = swap.of,
           \/ lock' = lock
           \/ /\ lock' = None
              /\ lock.by \notin Critical'
              /\ loop'.at \in Sealing => lock.by # loop.of
              /\ swap' # None => lock.by # swap.of
    PROVE  LeaseInv' /\ OneWriter'
BY DEF LockInv, LeaseInv, OneWriter

\* Whoever takes the lock is the only one that writes then.
LEMMA WriterTakes ==
    ASSUME TypeInv, LockInv, NEW i \in Invocation, Acquire(i),
           lapsed' = lapsed, Critical' \subseteq Critical \cup {i},
           loop'.at \in Sealing => loop'.of = i \/ (loop.at \in Sealing /\ loop'.of = loop.of),
           swap' # None => swap'.of = i \/ (swap # None /\ swap'.of = swap.of)
    PROVE  LeaseInv' /\ OneWriter'
BY AcquireFacts, FreeIsExclusive DEF LeaseInv, OneWriter

\* A seal begins with the lock.
LEMMA WriterSeals ==
    ASSUME TypeInv, LockInv, NEW i \in Invocation, NEW p \in Policy, BeginSeal(i, p)
    PROVE  LeaseInv' /\ OneWriter'
BY WriterTakes DEF BeginSeal, Critical

\* A handler that seals keeps the lock until it is done.
LEMMA WriterHandlers ==
    ASSUME TypeInv, LockInv, LoopStep
    PROVE  LeaseInv' /\ OneWriter'
<1> USE DEF TypeInv, TypeOK
<1>1. CASE SnapshotMemory \/ SnapshotSession
  <2>1. loop.at \in Sealing /\ loop'.of = loop.of
    <3>1. loop.at \in Sealing
      BY <1>1 DEF SnapshotMemory, SnapshotSession, Sealing
    <3>2. loop'.of = loop.of
      BY <1>1, <3>1, SealingType DEF SnapshotMemory, SnapshotSession
    <3> QED
      BY <3>1, <3>2
  <2>2. UNCHANGED <<lock, lapsed, swap>> /\ Critical' = Critical
    BY <1>1 DEF SnapshotMemory, SnapshotSession, Critical
  <2> QED
    BY <2>1, <2>2, WritersKeep
<1>2. CASE RecordSeal \/ SealFails
  <2>1. /\ loop.at \in Sealing /\ loop.of \in Invocation
        /\ Release(loop.of, tokens[loop.of])
        /\ loop'.at \notin Sealing
        /\ UNCHANGED <<up, worker, swap, lapsed>>
    BY <1>2 DEF RecordSeal, SealFails, Handler, Sealing, Idle
  <2>2. worker[loop.of].at = "none"
    BY <2>1 DEF LockInv, StartInv
  <2>3. loop.of \notin Critical /\ (swap # None => swap.of # loop.of)
    BY <2>2 DEF Critical, Working, LockInv, StartInv
  <2>4. Critical' = Critical
    BY <2>1 DEF Critical
  <2> QED
    BY <2>1, <2>3, <2>4, ReleaseFacts, WritersKeep
<1>3. CASE Dispatch
  <2>1. Critical' \subseteq Critical
    BY <1>3 DEF Dispatch, Critical, Working
  <2> QED
    BY <1>3, <2>1, WritersKeep DEF Dispatch, Idle, Sealing
<1>4. CASE RefuseStart \/ SignalProcess
  BY <1>4, WritersKeep DEF RefuseStart, SignalProcess, Idle, Sealing, Critical
<1> QED
  BY <1>1, <1>2, <1>3, <1>4 DEF LoopStep, SealStep

\* A thread takes the lock before it works and gives it back at its end.
LEMMA WriterThreads ==
    ASSUME TypeInv, LockInv, NEW i \in Invocation, WorkerStep(i)
    PROVE  LeaseInv' /\ OneWriter'
<1> USE DEF At
<1>1. loop' = loop /\ lapsed' = lapsed
  BY DEF WorkerStep, TakeLock, LockHeld, PreflightFails, Spawn, Acknowledge, Abort,
         CloseSucceeded, CloseFailed, CloseIsLost, Validate, BeginPromotion,
         PromotionLockHeld
<1>2. CASE TakeLock(i)
  <2>1. Critical' \subseteq Critical \cup {i} /\ swap' = swap
    BY <1>2 DEF TakeLock, Critical, TypeInv, TypeOK
  <2> QED
    BY <1>1, <1>2, <2>1, WriterTakes DEF TakeLock
<1>3. CASE BeginPromotion(i)
  <2>1. Critical' \subseteq Critical \cup {i} /\ swap'.of = i
    BY <1>3, ThreadFacts DEF BeginPromotion, Critical, Working
  <2> QED
    BY <1>1, <1>3, <2>1, WriterTakes DEF BeginPromotion
<1>4. CASE LockHeld(i)
  <2>1. Critical' \subseteq Critical /\ swap' = swap /\ lock' = lock
    BY <1>4, ThreadFacts DEF LockHeld, Critical, Working
  <2> QED
    BY <1>1, <2>1, WritersKeep
<1>5. CASE \E stage \in Working : Advance(i, stage) /\ worker[i].at \in Working /\ up' = up
             /\ swap' = swap /\ lock' = lock
  <2>1. Critical' \subseteq Critical
    BY <1>5, ThreadFacts DEF Critical
  <2> QED
    BY <1>1, <1>5, <2>1, WritersKeep
<1>6. CASE Ended(i) /\ Release(i, worker[i].token) /\ up' = up /\ swap' = swap
           /\ worker[i].at \in Working \ {"promoting"}
  <2>1. Critical' \subseteq Critical \ {i}
    BY <1>6, ThreadFacts DEF Critical, Working
  <2>2. loop.at \in Sealing => loop.of # i
    BY <1>6 DEF LockInv, StartInv, Working
  <2>3. swap # None => swap.of # i
    BY <1>6 DEF LockInv, StartInv
  <2> QED
    BY <1>1, <1>6, <2>1, <2>2, <2>3, ReleaseFacts, WritersKeep
<1> QED
  BY <1>2, <1>3, <1>4, <1>5, <1>6
  DEF WorkerStep, PreflightFails, Spawn, Acknowledge, Abort,
      CloseSucceeded, CloseFailed, CloseIsLost, Validate, PromotionLockHeld, Working

\* A replacement ends with its thread.
LEMMA WriterSwaps ==
    ASSUME TypeInv, LockInv, SwapStep
    PROVE  LeaseInv' /\ OneWriter'
<1>1. swap # None /\ swap.of \in Invocation /\ worker[swap.of].at = "promoting"
      /\ UNCHANGED <<up, loop, lapsed>>
  BY SwapSteps DEF LockInv, StartInv, TypeInv, TypeOK, Replacement
<1>2. CASE GoesOn
  <2>1. swap'.of = swap.of /\ worker' = worker /\ lock' = lock
    BY <1>2, GoingOn
  <2> QED
    BY <1>1, <2>1, WritersKeep DEF Critical
<1>3. CASE RecordPromotion \/ UndoDone \/ UndoFails
  <2>1. swap' = None /\ Ended(swap.of) /\ Release(swap.of, tokens[swap.of])
    BY <1>3 DEF RecordPromotion, UndoDone, UndoFails, SwapEnds
  <2>2. Critical' \subseteq Critical \ {swap.of}
    BY <1>1, <2>1, ThreadFacts DEF Critical, Working
  <2>3. loop.at \in Sealing => loop.of # swap.of
    BY <1>1 DEF LockInv, StartInv
  <2> QED
    BY <1>1, <2>1, <2>2, <2>3, ReleaseFacts, WritersKeep
<1> QED
  BY <1>2, <1>3 DEF SwapStep, GoesOn

\* A lapse takes the lease of a holder and says so; a kill stops all writers.
LEMMA WriterElsewhere ==
    ASSUME TypeInv, LockInv,
           \/ Lapse \/ Kill \/ Restart
           \/ \E i \in Invocation : RequestCancel(i) \/ WatcherCloses(i)
           \/ \E i \in Invocation, how \in {"ok", "bad"} : Exit(i, how)
    PROVE  LeaseInv' /\ OneWriter'
<1>1. CASE Lapse
  <2>1. lock \in LockRow /\ lock' = [lock EXCEPT !.live = FALSE]
    BY <1>1 DEF Lapse, TypeInv, TypeOK
  <2>2. lock' \in LockRow /\ lock'.by = lock.by
    BY <2>1 DEF LockRow
  <2>3. lock' # None
    BY <2>2, NoneAssumption
  <2>4. Critical' = Critical /\ swap' = None /\ loop' = loop /\ loop.at \notin Sealing
    BY <1>1 DEF Lapse, Critical, LockInv, OneWriter
  <2> QED
    BY <1>1, <2>2, <2>3, <2>4 DEF Lapse, LockInv, LeaseInv, OneWriter
<1>2. CASE Kill
  BY <1>2, WritersKeep DEF Kill, Critical, Idle, Sealing
<1>3. CASE Restart
  <2>1. Critical' = {}
    BY <1>3 DEF Restart, Critical, Working, LockInv, StartInv
  <2> QED
    BY <1>3, <2>1, WritersKeep DEF Restart
<1>4. ASSUME NEW i \in Invocation, RequestCancel(i) PROVE LeaseInv' /\ OneWriter'
  BY <1>4, WritersKeep DEF RequestCancel, Critical, Sealing
<1>5. ASSUME NEW i \in Invocation, WatcherCloses(i) PROVE LeaseInv' /\ OneWriter'
  BY <1>5, WritersKeep DEF WatcherCloses, Critical
<1>6. ASSUME NEW i \in Invocation, NEW how \in {"ok", "bad"}, Exit(i, how)
      PROVE  LeaseInv' /\ OneWriter'
  BY <1>6, WritersKeep DEF Exit, Critical
<1> QED
  BY <1>1, <1>2, <1>3, <1>4, <1>5, <1>6

\* Each step keeps the lock invariant.
LEMMA LockStep == TypeInv /\ LockInv /\ [Next]_vars => LockInv'
<1> SUFFICES ASSUME TypeInv, LockInv, [Next]_vars PROVE LockInv'
  OBVIOUS
<1>1. StartInv'
  BY StartStep DEF LockInv
<1>2. CASE UNCHANGED vars
  BY <1>1, <1>2 DEF vars, LockInv, LeaseInv, OneWriter, Critical
<1>3. CASE Next
  <2>1. CASE \E i \in Invocation : ReplayStart(i)
    BY <1>2, <2>1 DEF ReplayStart
  <2> QED
    BY <1>1, <1>3, <2>1, WriterSeals, WriterHandlers, WriterThreads, WriterSwaps, WriterElsewhere
    DEF Next, LockInv
<1> QED
  BY <1>2, <1>3

\* One invocation at a time owns the role's state while it is copied, executed
\* on and replaced, for any number of invocations, kills, failed steps and
\* leases that run out (state_lock, launch_sealed_run, promote_run_state).
THEOREM OneWriterAlways == Spec => []OneWriter
<1>1. LockInv => OneWriter
  BY DEF LockInv
<1> QED
  BY TypeInit, TypeStep, LockInit, LockStep, <1>1, PTL DEF Spec

-----------------------------------------------------------------------------
(* What was promoted survives.                                             *)

\* A replacement goes through its targets in order.
OrderInv ==
    \/ swap.todo \in {<<"memories", "session">>, <<"memories">>} /\ swap.done = {}
    \/ swap.todo = <<"session">> /\ swap.done = {"memories"}
    \/ swap.todo = <<>> /\ ~swap.aside /\ "memories" \in swap.done

\* While it goes on, each target holds what it held, the run's, or nothing.
ForwardInv ==
    ~swap.failed =>
        \A t \in Target :
            IF t \in swap.done THEN canon[t] = swap.of
            ELSE IF t \in Touched(swap) THEN canon[t] = Absent /\ swap.old[t] # Absent
                 ELSE canon[t] = swap.old[t]

\* Once it failed, each target that is not to be put back any more holds what it
\* held; the others hold the run's, or nothing.
BackwardInv ==
    swap.failed =>
        /\ swap.undo \in {<<>>, <<"memories">>, <<"session">>,
                          <<"memories", "session">>, <<"session", "memories">>}
        /\ \A t \in Target :
            IF t \in Open(swap) THEN canon[t] \in {swap.of, Absent} ELSE canon[t] = swap.old[t]

\* What a target held that is touched is among its backups.
SwapInv ==
    swap # None =>
        /\ OrderInv /\ ForwardInv /\ BackwardInv
        /\ \A t \in Open(swap) : swap.old[t] # Absent => backups[t] # <<>>

\* What is on record as promoted is current or set aside, and its thread ended.
PromotedInv ==
    \A n \in DOMAIN promoted :
        /\ worker[promoted[n].by].at = "done"
        /\ \A t \in promoted[n].targets : Current(t) # Absent \/ backups[t] # <<>>

StateInv == SwapInv /\ PromotedInv

\* At first nothing was promoted.
LEMMA StateInit == Init => StateInv
BY DEF Init, StateInv, SwapInv, PromotedInv

\* The next and the rest of at most two targets, and the targets themselves.
LEMMA FewTargets ==
    ASSUME NEW a, NEW b
    PROVE  /\ Head(<<a>>) = a /\ Tail(<<a>>) = <<>>
           /\ Head(<<a, b>>) = a /\ Tail(<<a, b>>) = <<b>>
           /\ {<<>>[n] : n \in DOMAIN <<>>} = {}
           /\ {<<a>>[n] : n \in DOMAIN <<a>>} = {a}
           /\ {<<a, b>>[n] : n \in DOMAIN <<a, b>>} = {a, b}
<1>1. Head(<<a>>) = a /\ Tail(<<a>>) = <<>>
  OBVIOUS
<1>2. Head(<<a, b>>) = a /\ Tail(<<a, b>>) = <<b>>
  OBVIOUS
<1>3. {<<>>[n] : n \in DOMAIN <<>>} = {} /\ {<<a>>[n] : n \in DOMAIN <<a>>} = {a}
  OBVIOUS
<1>4. {<<a, b>>[n] : n \in DOMAIN <<a, b>>} = {a, b}
  OBVIOUS
<1> QED
  BY <1>1, <1>2, <1>3, <1>4

\* The target that is next is one, and none of those that are done; the others
\* that are left are not it.
LEMMA NextTarget ==
    ASSUME TypeInv, SwapInv, swap # None, swap.todo # <<>>
    PROVE  /\ Head(swap.todo) \in Target \ swap.done
           /\ Tail(swap.todo) \in {<<"session">>, <<>>}
           /\ Tail(swap.todo) = <<"session">> => swap.done = {} /\ Head(swap.todo) = "memories"
           /\ "memories" \in swap.done \/ Head(swap.todo) = "memories"
<1>1. CASE swap.todo = <<"memories", "session">> /\ swap.done = {}
  BY <1>1 DEF Target
<1>2. CASE swap.todo = <<"memories">> /\ swap.done = {}
  BY <1>2 DEF Target
<1>3. CASE swap.todo = <<"session">> /\ swap.done = {"memories"}
  BY <1>3 DEF Target
<1> QED
  BY <1>1, <1>2, <1>3 DEF SwapInv, OrderInv

\* The record of promotions is a sequence of rows.
LEMMA PromotedRows ==
    ASSUME TypeInv
    PROVE  \A n \in DOMAIN promoted : promoted[n].by \in Invocation /\ promoted[n].targets \subseteq Target
<1> SUFFICES ASSUME NEW n \in DOMAIN promoted
             PROVE  promoted[n].by \in Invocation /\ promoted[n].targets \subseteq Target
  OBVIOUS
<1>1. promoted \in Seq(PromotionRow)
  BY DEF TypeInv, TypeOK
<1>2. n \in 1 .. Len(promoted)
  BY <1>1, LenProperties
<1>3. promoted[n] \in PromotionRow
  BY <1>1, <1>2, ElementOfSeq
<1> QED
  BY <1>3 DEF PromotionRow

\* A step that adds no record, reopens no thread and loses no target.
LEMMA PromotedKeeps ==
    ASSUME TypeInv, PromotedInv, promoted' = promoted,
           \A i \in Invocation : worker[i].at = "done" => worker'[i].at = "done",
           \A t \in Target : Current(t) # Absent \/ backups[t] # <<>>
                                => Current(t)' # Absent \/ backups'[t] # <<>>
    PROVE  PromotedInv'
BY PromotedRows DEF PromotedInv

\* Wherever a replacement is cut short, nothing is lost.
LEMMA CutShort ==
    ASSUME TypeInv, StateInv, swap' = None, UNCHANGED <<canon, backups, promoted>>,
           \A i \in Invocation : worker[i].at = "done" => worker'[i].at = "done"
    PROVE  PromotedInv'
<1>1. \A t \in Target : Current(t) # Absent \/ backups[t] # <<>>
                            => Current(t)' # Absent \/ backups'[t] # <<>>
  BY DEF Current, StateInv, SwapInv
<1> QED
  BY <1>1, PromotedKeeps DEF StateInv

\* Nothing is lost when the current target is renamed.
LEMMA StateSetAside ==
    ASSUME TypeInv, StateInv, SetAside
    PROVE  /\ StateInv'
           /\ \A t \in Target : Current(t)' = Current(t)
<1> DEFINE h == Head(swap.todo)
<1>1. /\ h \in Target \ swap.done /\ swap.todo # <<>> /\ ~swap.aside /\ canon[h] # Absent
      /\ ~swap.failed
  BY NextTarget DEF SetAside, StateInv
<1>2. swap \in Replacement /\ swap # None
  BY DEF SetAside, TypeInv, TypeOK
<1>3. /\ swap' \in Replacement /\ swap' # None /\ swap'.aside
      /\ swap'.todo = swap.todo /\ swap'.done = swap.done /\ swap'.old = swap.old
      /\ swap'.of = swap.of /\ ~swap'.failed
  BY <1>1, <1>2, NoneAssumption DEF SetAside, Replacement
<1>4. canon' = [canon EXCEPT ![h] = Absent] /\ backups' = [backups EXCEPT ![h] = Append(@, canon[h])]
      /\ worker' = worker /\ promoted' = promoted
  BY DEF SetAside
<1>5. canon[h] \in Invocation /\ backups[h] \in Seq(Invocation)
  BY <1>1 DEF TypeInv, TypeOK, Content
<1>6. backups'[h] # <<>> /\ \A t \in Target \ {h} : backups'[t] = backups[t]
  <2>1. Append(backups[h], canon[h]) # <<>>
    BY <1>5, AppendProperties
  <2>2. h \in DOMAIN backups /\ DOMAIN backups = Target
    BY <1>1 DEF TypeInv, TypeOK
  <2> QED
    BY <1>4, <2>1, <2>2
<1>7. canon'[h] = Absent /\ \A t \in Target \ {h} : canon'[t] = canon[t]
  BY <1>1, <1>4 DEF TypeInv, TypeOK
<1>8. /\ Touched(swap) = swap.done /\ Touched(swap') = swap.done \cup {h}
      /\ Open(swap) = Touched(swap) /\ Open(swap') = Touched(swap')
  BY <1>1, <1>3 DEF Touched, Open
<1>9. swap.old[h] = canon[h]
  BY <1>1, <1>2, <1>8 DEF SwapInv, ForwardInv, StateInv
<1>10. \A t \in Target : Current(t)' = Current(t)
  BY <1>2, <1>3, <1>7, <1>8, <1>9 DEF Current
<1>11. SwapInv'
  <2>1. OrderInv' /\ BackwardInv'
    BY <1>1, <1>2, <1>3 DEF SwapInv, OrderInv, BackwardInv, StateInv
  <2>2. ForwardInv'
    BY <1>1, <1>2, <1>3, <1>7, <1>8, <1>9 DEF SwapInv, ForwardInv, StateInv
  <2>3. \A t \in Open(swap') : swap'.old[t] # Absent => backups'[t] # <<>>
    BY <1>1, <1>2, <1>3, <1>6, <1>8 DEF SwapInv, StateInv, Touched, TypeInv, TypeOK, Replacement
  <2> QED
    BY <2>1, <2>2, <2>3 DEF SwapInv
<1>12. PromotedInv'
  BY <1>4, <1>6, <1>10, PromotedKeeps DEF StateInv
<1> QED
  BY <1>10, <1>11, <1>12 DEF StateInv

\* The run's target takes its place.
LEMMA StateMoveIn ==
    ASSUME TypeInv, StateInv, MoveIn
    PROVE  /\ StateInv'
           /\ \A t \in Target : Current(t)' = Current(t)
<1> DEFINE h == Head(swap.todo)
<1>1. /\ h \in Target \ swap.done /\ swap.todo # <<>> /\ canon[h] = Absent /\ ~swap.failed
      /\ Tail(swap.todo) \in {<<"session">>, <<>>}
      /\ Tail(swap.todo) = <<"session">> => swap.done = {} /\ h = "memories"
      /\ "memories" \in swap.done \/ h = "memories"
  BY NextTarget DEF MoveIn, StateInv
<1>2. swap \in Replacement /\ swap # None
  BY DEF MoveIn, TypeInv, TypeOK
<1>3. /\ swap' # None /\ ~swap'.aside /\ swap'.todo = Tail(swap.todo)
      /\ swap'.done = swap.done \cup {h} /\ swap'.old = swap.old /\ swap'.of = swap.of
      /\ ~swap'.failed
  <2>1. Tail(swap.todo) \in Seq(Target)
    BY <1>1, <1>2, HeadTailProperties DEF Replacement
  <2>2. swap' \in Replacement
    BY <1>1, <1>2, <2>1 DEF MoveIn, Replacement
  <2> QED
    BY <1>1, <1>2, <2>2, NoneAssumption DEF MoveIn, Replacement
<1>4. canon' = [canon EXCEPT ![h] = swap.of] /\ UNCHANGED <<backups, worker, promoted>>
  BY DEF MoveIn
<1>5. canon'[h] = swap.of /\ \A t \in Target \ {h} : canon'[t] = canon[t]
  BY <1>1, <1>4 DEF TypeInv, TypeOK
<1>6. /\ Touched(swap') = swap.done \cup {h} /\ Touched(swap) \subseteq swap.done \cup {h}
      /\ swap.done \subseteq Touched(swap)
      /\ Open(swap) = Touched(swap) /\ Open(swap') = Touched(swap')
  BY <1>1, <1>3 DEF Touched, Open
<1>7. h \notin Touched(swap) => swap.old[h] = canon[h]
  BY <1>1, <1>2 DEF SwapInv, ForwardInv, StateInv
<1>8. \A t \in Target : Current(t)' = Current(t)
  BY <1>2, <1>3, <1>5, <1>6, <1>7 DEF Current
<1>9. SwapInv'
  <2>1. \/ swap'.todo = <<"session">> /\ swap'.done = {"memories"}
        \/ swap'.todo = <<>> /\ ~swap'.aside /\ "memories" \in swap'.done
    BY <1>1, <1>3
  <2>2. OrderInv' /\ BackwardInv'
    BY <1>3, <2>1 DEF OrderInv, BackwardInv
  <2>3. ForwardInv'
    BY <1>1, <1>2, <1>3, <1>5, <1>6 DEF SwapInv, ForwardInv, StateInv
  <2>4. \A t \in Open(swap') : swap'.old[t] # Absent => backups'[t] # <<>>
    BY <1>1, <1>2, <1>3, <1>4, <1>6, <1>7 DEF SwapInv, StateInv
  <2> QED
    BY <2>2, <2>3, <2>4 DEF SwapInv
<1>10. PromotedInv'
  BY <1>4, <1>8, PromotedKeeps DEF StateInv
<1> QED
  BY <1>8, <1>9, <1>10 DEF StateInv

\* The record: what the replacement moved in is what its readers see from now on.
LEMMA StateRecord ==
    ASSUME TypeInv, LockInv, StateInv, RecordPromotion
    PROVE  /\ StateInv'
           /\ \A t \in Target : Current(t)' = IF t \in swap.done THEN swap.of ELSE Current(t)
<1>1. swap \in Replacement /\ swap # None /\ swap.of \in Invocation /\ swap.done \subseteq Target
  BY DEF RecordPromotion, TypeInv, TypeOK, Replacement
<1>2. swap.todo = <<>> /\ ~swap.aside /\ ~swap.failed
  BY <1>1 DEF RecordPromotion, SwapInv, OrderInv, StateInv
<1>3. /\ swap' = None /\ UNCHANGED <<canon, backups>>
      /\ promoted' = Append(promoted, [by |-> swap.of, targets |-> swap.done])
      /\ worker'[swap.of].at = "done" /\ \A i \in Invocation \ {swap.of} : worker'[i] = worker[i]
  BY <1>1, ThreadFacts DEF RecordPromotion
<1>4. \A t \in Target : canon[t] = IF t \in swap.done THEN swap.of ELSE Current(t)
  BY <1>1, <1>2 DEF SwapInv, ForwardInv, StateInv, Touched, Open, Current
<1>5. \A t \in Target : Current(t)' = IF t \in swap.done THEN swap.of ELSE Current(t)
  BY <1>3, <1>4 DEF Current
<1>6. PromotedInv'
  <2>1. promoted \in Seq(PromotionRow) /\ [by |-> swap.of, targets |-> swap.done] \in PromotionRow
    BY <1>1 DEF TypeInv, TypeOK, PromotionRow
  <2>2. promoted' \in Seq(PromotionRow) /\ Len(promoted') = Len(promoted) + 1
        /\ promoted'[Len(promoted) + 1] = [by |-> swap.of, targets |-> swap.done]
        /\ \A n \in 1 .. Len(promoted) : promoted'[n] = promoted[n]
    BY <1>3, <2>1, AppendProperties
  <2>3. DOMAIN promoted = 1 .. Len(promoted) /\ DOMAIN promoted' = 1 .. Len(promoted) + 1
        /\ Len(promoted) \in Nat
    BY <2>1, <2>2, LenProperties
  <2> SUFFICES ASSUME NEW n \in DOMAIN promoted'
               PROVE  /\ worker'[promoted'[n].by].at = "done"
                      /\ \A t \in promoted'[n].targets : Current(t)' # Absent \/ backups'[t] # <<>>
    BY DEF PromotedInv
  <2>4. CASE n = Len(promoted) + 1
    <3>1. promoted'[n].by = swap.of /\ promoted'[n].targets = swap.done
      BY <2>2, <2>4
    <3> QED
      BY <1>1, <1>3, <1>5, <3>1, NamesAssumption
  <2>5. CASE n \in DOMAIN promoted
    <3>1. promoted'[n] = promoted[n] /\ promoted[n].by \in Invocation /\ promoted[n].targets \subseteq Target
      BY <2>2, <2>3, <2>5, PromotedRows
    <3>2. worker[promoted[n].by].at = "done"
          /\ \A t \in promoted[n].targets : Current(t) # Absent \/ backups[t] # <<>>
      BY <2>5 DEF PromotedInv, StateInv
    <3> QED
      BY <1>1, <1>3, <1>5, <3>1, <3>2, NamesAssumption
  <2> QED
    BY <2>3, <2>4, <2>5
<1> QED
  BY <1>3, <1>5, <1>6 DEF StateInv, SwapInv

\* A replacement that fails has still touched what it has touched.
LEMMA StateFails ==
    ASSUME TypeInv, StateInv, PromotionFails
    PROVE  /\ StateInv'
           /\ \A t \in Target : Current(t)' = Current(t)
<1>1. swap \in Replacement /\ swap # None /\ ~swap.failed
  BY DEF PromotionFails, TypeInv, TypeOK
<1>2. PICK undo \in UndoOrders(swap) : swap' = [swap EXCEPT !.failed = TRUE, !.undo = undo]
  BY DEF PromotionFails
<1>3. /\ undo \in Seq(Target)
      /\ undo \in {<<>>, <<"memories">>, <<"memories", "session">>, <<"session", "memories">>}
  BY <1>2, UndoTargets
<1>4. /\ swap' # None /\ swap'.failed /\ swap'.undo = undo /\ swap'.old = swap.old
      /\ swap'.of = swap.of /\ swap'.todo = swap.todo /\ swap'.done = swap.done
      /\ swap'.aside = swap.aside
  <2>1. swap' \in Replacement
    BY <1>1, <1>2, <1>3 DEF Replacement
  <2> QED
    BY <1>1, <1>2, <2>1, NoneAssumption DEF Replacement
<1>5. UNCHANGED <<canon, backups, worker, promoted>>
  BY DEF PromotionFails
<1>6. Touched(swap) \in {{}, {"memories"}, {"memories", "session"}}
  <2>1. swap.done \subseteq {"memories", "session"}
    BY <1>1 DEF Replacement, Target
  <2>2. \/ swap.done = {} /\ (swap.aside => Head(swap.todo) = "memories")
        \/ swap.done = {"memories"} /\ (swap.aside => Head(swap.todo) = "session")
        \/ ~swap.aside /\ "memories" \in swap.done
    BY <1>1, FewTargets DEF SwapInv, OrderInv, StateInv
  <2> QED
    BY <2>1, <2>2 DEF Touched
<1>7. {undo[n] : n \in DOMAIN undo} = Touched(swap)
  <2>1. CASE undo = <<>>
    BY <1>2, <1>6, <2>1 DEF UndoOrders
  <2>2. CASE undo = <<"memories">>
    BY <1>2, <1>6, <2>2 DEF UndoOrders
  <2>3. CASE undo \in {<<"memories", "session">>, <<"session", "memories">>}
    <3>1. Touched(swap) = {"memories", "session"}
      BY <1>2, <1>6, <2>3 DEF UndoOrders
    <3>2. {undo[n] : n \in DOMAIN undo} = {undo[1], undo[2]}
      BY <2>3
    <3> QED
      BY <2>3, <3>1, <3>2
  <2> QED
    BY <1>3, <2>1, <2>2, <2>3
<1>8. Open(swap) = Touched(swap) /\ Open(swap') = Touched(swap)
  BY <1>1, <1>4, <1>7 DEF Open
<1>9. \A t \in Target : Current(t)' = Current(t)
  BY <1>1, <1>4, <1>5, <1>8 DEF Current
<1>10. SwapInv'
  <2>1. OrderInv' /\ ForwardInv'
    BY <1>1, <1>4 DEF SwapInv, OrderInv, ForwardInv, StateInv
  <2>2. \A t \in Target :
          IF t \in Touched(swap) THEN canon[t] \in {swap.of, Absent} ELSE canon[t] = swap.old[t]
    BY <1>1 DEF SwapInv, ForwardInv, StateInv, Touched
  <2>3. BackwardInv'
    BY <1>3, <1>4, <1>5, <1>8, <2>2 DEF BackwardInv
  <2> QED
    BY <1>1, <1>4, <1>5, <1>8, <2>1, <2>3 DEF SwapInv, StateInv
<1>11. PromotedInv'
  BY <1>5, <1>9, PromotedKeeps DEF StateInv
<1> QED
  BY <1>9, <1>10, <1>11 DEF StateInv

\* The target that is put back next is one of the touched; the others follow.
LEMMA UndoneTarget ==
    ASSUME TypeInv, StateInv, Undoing
    PROVE  /\ Head(swap.undo) \in Target /\ swap # None /\ swap.failed /\ swap \in Replacement
           /\ Open(swap) \subseteq Target /\ Head(swap.undo) \in Open(swap)
           /\ Tail(swap.undo) \in {<<>>, <<"memories">>, <<"session">>}
           /\ {Tail(swap.undo)[n] : n \in DOMAIN Tail(swap.undo)} = Open(swap) \ {Head(swap.undo)}
<1> DEFINE undo == swap.undo
<1>1. swap # None /\ swap.failed /\ undo # <<>> /\ swap \in Replacement
  BY DEF Undoing, TypeInv, TypeOK
<1>2. undo \in {<<"memories">>, <<"session">>, <<"memories", "session">>, <<"session", "memories">>}
  BY <1>1 DEF SwapInv, BackwardInv, StateInv
<1>3. Open(swap) = {undo[n] : n \in DOMAIN undo}
  BY <1>1 DEF Open
<1>4. ASSUME NEW t \in Target, undo = <<t>>
      PROVE  /\ Head(undo) \in Target /\ Head(undo) \in Open(swap) /\ Open(swap) \subseteq Target
             /\ Tail(undo) = <<>>
             /\ {Tail(undo)[n] : n \in DOMAIN Tail(undo)} = Open(swap) \ {Head(undo)}
  <2>1. Head(undo) = t /\ Tail(undo) = <<>> /\ Open(swap) = {t}
    BY <1>3, <1>4, FewTargets
  <2>2. {Tail(undo)[n] : n \in DOMAIN Tail(undo)} = {}
    BY <2>1, FewTargets
  <2> QED
    BY <2>1, <2>2
<1>5. ASSUME NEW t \in Target, NEW u \in Target, t # u, undo = <<t, u>>
      PROVE  /\ Head(undo) \in Target /\ Head(undo) \in Open(swap) /\ Open(swap) \subseteq Target
             /\ Tail(undo) = <<u>>
             /\ {Tail(undo)[n] : n \in DOMAIN Tail(undo)} = Open(swap) \ {Head(undo)}
  <2>1. Head(undo) = t /\ Tail(undo) = <<u>> /\ Open(swap) = {t, u}
    BY <1>3, <1>5, FewTargets
  <2>2. {Tail(undo)[n] : n \in DOMAIN Tail(undo)} = {u}
    <3>1. {<<u>>[n] : n \in DOMAIN <<u>>} = {u}
      BY FewTargets
    <3> QED
      BY <2>1, <3>1
  <2> QED
    BY <1>5, <2>1, <2>2
<1>6. CASE undo = <<"memories">>
  BY <1>1, <1>4, <1>6 DEF Target
<1>7. CASE undo = <<"session">>
  BY <1>1, <1>4, <1>7 DEF Target
<1>8. CASE undo = <<"memories", "session">>
  BY <1>1, <1>5, <1>8 DEF Target
<1>9. CASE undo = <<"session", "memories">>
  BY <1>1, <1>5, <1>9 DEF Target
<1> QED
  BY <1>2, <1>6, <1>7, <1>8, <1>9

\* What was moved in is removed: its readers do not count it.
LEMMA StateRemoves ==
    ASSUME TypeInv, StateInv, RemoveReplaced
    PROVE  /\ StateInv'
           /\ \A t \in Target : Current(t)' = Current(t)
<1> DEFINE h == Head(swap.undo)
<1>1. h \in Target /\ swap # None /\ swap.failed /\ h \in Open(swap)
  BY UndoneTarget DEF RemoveReplaced
<1>2. canon' = [canon EXCEPT ![h] = Absent] /\ UNCHANGED <<swap, backups, worker, promoted>>
  BY DEF RemoveReplaced, runs, server
<1>3. canon'[h] = Absent /\ \A t \in Target \ {h} : canon'[t] = canon[t]
  BY <1>1, <1>2 DEF TypeInv, TypeOK
<1>4. Open(swap') = Open(swap)
  BY <1>2
<1>5. \A t \in Target : Current(t)' = Current(t)
  BY <1>1, <1>2, <1>3, <1>4 DEF Current
<1>6. SwapInv'
  <2>1. OrderInv' /\ ForwardInv'
    BY <1>1, <1>2 DEF SwapInv, OrderInv, ForwardInv, StateInv
  <2>2. BackwardInv'
    BY <1>1, <1>2, <1>3, <1>4 DEF SwapInv, BackwardInv, StateInv
  <2> QED
    BY <1>1, <1>2, <1>4, <2>1, <2>2 DEF SwapInv, StateInv
<1>7. PromotedInv'
  BY <1>2, <1>5, PromotedKeeps DEF StateInv
<1> QED
  BY <1>5, <1>6, <1>7 DEF StateInv

\* A target that is put back is what its readers saw all along.
LEMMA StatePutsBack ==
    ASSUME TypeInv, StateInv, PutBack
    PROVE  /\ StateInv'
           /\ \A t \in Target : Current(t)' = Current(t)
<1> DEFINE h == Head(swap.undo)
<1>1. /\ h \in Target /\ swap # None /\ swap.failed /\ swap \in Replacement /\ h \in Open(swap)
      /\ Tail(swap.undo) \in {<<>>, <<"memories">>, <<"session">>}
      /\ {Tail(swap.undo)[n] : n \in DOMAIN Tail(swap.undo)} = Open(swap) \ {h}
  BY UndoneTarget DEF PutBack
<1>2. canon' = [canon EXCEPT ![h] = swap.old[h]] /\ UNCHANGED <<worker, promoted>>
      /\ swap' = [swap EXCEPT !.undo = Tail(@)]
  BY DEF PutBack
<1>3. canon'[h] = swap.old[h] /\ \A t \in Target \ {h} : canon'[t] = canon[t]
  BY <1>1, <1>2 DEF TypeInv, TypeOK
<1>4. /\ \A t \in Target \ {h} : backups'[t] = backups[t]
      /\ swap.old[h] = Absent => backups' = backups
  BY DEF PutBack, TypeInv, TypeOK
<1>5. /\ swap' # None /\ swap'.failed /\ swap'.undo = Tail(swap.undo) /\ swap'.old = swap.old
      /\ swap'.of = swap.of /\ swap'.todo = swap.todo /\ swap'.done = swap.done
      /\ swap'.aside = swap.aside
  <2>1. Tail(swap.undo) \in Seq(Target)
    BY <1>1, HeadTailProperties DEF Replacement, PutBack, Undoing
  <2>2. swap' \in Replacement
    BY <1>1, <1>2, <2>1 DEF Replacement
  <2> QED
    BY <1>1, <1>2, <2>2, NoneAssumption DEF Replacement
<1>6. Open(swap') = Open(swap) \ {h}
  BY <1>1, <1>5 DEF Open
<1>7. \A t \in Target : Current(t)' = Current(t)
  BY <1>1, <1>3, <1>5, <1>6 DEF Current
<1>8. SwapInv'
  <2>1. OrderInv' /\ ForwardInv'
    BY <1>1, <1>5 DEF SwapInv, OrderInv, ForwardInv, StateInv
  <2>2. BackwardInv'
    BY <1>1, <1>3, <1>5, <1>6 DEF SwapInv, BackwardInv, StateInv
  <2>3. \A t \in Open(swap') : t \in Target
    BY <1>6, UndoneTarget DEF PutBack
  <2> QED
    BY <1>1, <1>4, <1>5, <1>6, <2>1, <2>2, <2>3 DEF SwapInv, StateInv
<1>9. \A t \in Target : Current(t) # Absent \/ backups[t] # <<>>
                            => Current(t)' # Absent \/ backups'[t] # <<>>
  <2>1. Current(h) = swap.old[h]
    BY <1>1 DEF Current
  <2> QED
    BY <1>4, <1>7, <2>1
<1>10. PromotedInv'
  BY <1>2, <1>9, PromotedKeeps DEF StateInv
<1> QED
  BY <1>7, <1>8, <1>10 DEF StateInv

\* Its thread ends: the profile is left as it is.
LEMMA StateEnds ==
    ASSUME TypeInv, StateInv, UndoDone \/ UndoFails
    PROVE  /\ StateInv'
           /\ swap # None /\ swap \in Replacement /\ swap.failed
           /\ swap' = None /\ UNCHANGED <<canon, backups, promoted>>
           /\ UndoDone => \A t \in Target : Current(t)' = Current(t)
<1>1. swap # None /\ swap \in Replacement /\ swap.of \in Invocation /\ swap.failed
  BY DEF UndoDone, UndoFails, Undoing, TypeInv, TypeOK, Replacement
<1>2. swap' = None /\ UNCHANGED <<canon, backups, promoted>> /\ Ended(swap.of)
  BY DEF UndoDone, UndoFails, SwapEnds
<1>3. \A i \in Invocation : worker[i].at = "done" => worker'[i].at = "done"
  BY <1>1, <1>2, ThreadFacts
<1>4. PromotedInv'
  BY <1>1, <1>2, <1>3, CutShort DEF StateInv
<1>5. ASSUME UndoDone PROVE \A t \in Target : Current(t)' = Current(t)
  <2>1. Open(swap) = {}
    BY <1>1, <1>5 DEF Open, UndoDone
  <2> QED
    BY <1>2, <2>1 DEF Current
<1> QED
  BY <1>1, <1>2, <1>4, <1>5 DEF StateInv, SwapInv

\* A replacement begins with nothing touched.
LEMMA StateBegins ==
    ASSUME TypeInv, LockInv, StateInv, NEW i \in Invocation, BeginPromotion(i)
    PROVE  /\ StateInv'
           /\ \A t \in Target : Current(t)' = Current(t)
<1>1. swap = None
  <2>1. worker[i].at = "validated" /\ Free(i)
    BY DEF BeginPromotion, At, Acquire
  <2> QED
    BY <2>1, FreeIsExclusive DEF LockInv, StartInv
<1>2. /\ swap'.todo = Staged(i) /\ swap'.done = {} /\ ~swap'.aside /\ swap'.old = canon
      /\ ~swap'.failed
      /\ UNCHANGED <<canon, backups, promoted>>
  BY DEF BeginPromotion
<1>3. Touched(swap') = {} /\ Open(swap') = {}
  BY <1>2 DEF Touched, Open
<1>4. \A t \in Target : Current(t)' = Current(t)
  BY <1>1, <1>2, <1>3 DEF Current
<1>5. SwapInv'
  BY <1>2, <1>3 DEF SwapInv, OrderInv, ForwardInv, BackwardInv, Staged
<1>6. \A j \in Invocation : worker[j].at = "done" => worker'[j].at = "done"
  BY ThreadFacts DEF BeginPromotion, At, Working
<1> QED
  BY <1>2, <1>4, <1>5, <1>6, PromotedKeeps DEF StateInv

\* A step that leaves the profile and the replacement alone.
LEMMA StateKeeps ==
    ASSUME TypeInv, StateInv, UNCHANGED <<canon, backups, promoted, swap>>,
           \A i \in Invocation : worker[i].at = "done" => worker'[i].at = "done"
    PROVE  /\ StateInv'
           /\ \A t \in Target : Current(t)' = Current(t)
<1>1. \A t \in Target : Current(t)' = Current(t)
  BY DEF Current, Open, Touched
<1>2. SwapInv'
  BY DEF StateInv, SwapInv, OrderInv, ForwardInv, BackwardInv, Open, Touched
<1> QED
  BY <1>1, <1>2, PromotedKeeps DEF StateInv

\* A kill leaves the profile as the replacement has it at that point.
LEMMA StateKill ==
    ASSUME TypeInv, StateInv, Kill
    PROVE  StateInv'
<1>1. swap' = None /\ UNCHANGED <<canon, backups, promoted>>
  BY DEF Kill
<1>2. \A i \in Invocation : worker[i].at = "done" => worker'[i].at = "done"
  BY DEF Kill
<1> QED
  BY <1>1, <1>2, CutShort DEF StateInv, SwapInv

\* The other steps leave the profile and the replacement alone.
LEMMA OtherSteps ==
    ASSUME TypeInv, LockInv, Next, ~Kill, ~SwapStep,
           ~ \E i \in Invocation : BeginPromotion(i)
    PROVE  /\ UNCHANGED <<canon, backups, promoted, swap, interrupted>>
           /\ \A i \in Invocation : worker[i].at = "done" => worker'[i].at = "done"
<1>1. ASSUME NEW i \in Invocation, WorkerStep(i)
      PROVE  /\ UNCHANGED <<canon, backups, promoted, swap, interrupted>>
             /\ \A j \in Invocation : worker[j].at = "done" => worker'[j].at = "done"
  <2>1. UNCHANGED <<canon, backups, promoted, swap, interrupted>>
    BY <1>1 DEF WorkerStep, TakeLock, LockHeld, PreflightFails, Spawn, Acknowledge, Abort,
           CloseSucceeded, CloseFailed, CloseIsLost, Validate, PromotionLockHeld
  <2>2. worker[i].at # "done"
    BY <1>1 DEF WorkerStep, At, TakeLock, LockHeld, PreflightFails, Spawn, Acknowledge, Abort,
           CloseSucceeded, CloseFailed, CloseIsLost, Validate, PromotionLockHeld
  <2>3. \A j \in Invocation \ {i} : worker'[j] = worker[j]
    BY <1>1 DEF WorkerStep, TakeLock, LockHeld, PreflightFails, Spawn, Acknowledge, Abort,
           CloseSucceeded, CloseFailed, CloseIsLost, Validate, PromotionLockHeld,
           Ended, Advance, TypeInv, TypeOK
  <2> QED
    BY <2>1, <2>2, <2>3
<1>2. ASSUME LoopStep
      PROVE  /\ UNCHANGED <<canon, backups, promoted, swap, interrupted>>
             /\ \A j \in Invocation : worker[j].at = "done" => worker'[j].at = "done"
  <2>1. CASE Dispatch
    <3>1. worker[loop.of].at = "none"
      BY <2>1 DEF Dispatch, LockInv, StartInv
    <3> QED
      BY <2>1, <3>1 DEF Dispatch, TypeInv, TypeOK
  <2> QED
    BY <1>2, <2>1 DEF LoopStep, SealStep, SnapshotMemory, SnapshotSession, RecordSeal,
                      SealFails, RefuseStart, SignalProcess
<1>3. ASSUME NEW i \in Invocation,
             \/ \E p \in Policy : BeginSeal(i, p)
             \/ ReplayStart(i) \/ RequestCancel(i) \/ WatcherCloses(i)
             \/ \E how \in {"ok", "bad"} : Exit(i, how)
      PROVE  UNCHANGED <<canon, backups, promoted, swap, interrupted, worker>>
  BY <1>3 DEF BeginSeal, ReplayStart, RequestCancel, WatcherCloses, Exit, vars
<1>4. ASSUME Lapse \/ Restart
      PROVE  UNCHANGED <<canon, backups, promoted, swap, interrupted, worker>>
  BY <1>4 DEF Lapse, Restart
<1> QED
  BY <1>1, <1>2, <1>3, <1>4 DEF Next

\* Each step keeps the state invariant.
LEMMA StateStep == TypeInv /\ LockInv /\ StateInv /\ [Next]_vars => StateInv'
<1> SUFFICES ASSUME TypeInv, LockInv, StateInv, [Next]_vars PROVE StateInv'
  OBVIOUS
<1>1. CASE UNCHANGED vars
  BY <1>1, StateKeeps DEF vars
<1>2. CASE Kill
  BY <1>2, StateKill
<1>3. CASE SwapStep
  BY <1>3, StateSetAside, StateMoveIn, StateRecord, StateFails, StateRemoves, StatePutsBack,
     StateEnds DEF SwapStep
<1>4. ASSUME NEW i \in Invocation, BeginPromotion(i) PROVE StateInv'
  BY <1>4, StateBegins
<1>5. CASE Next /\ ~Kill /\ ~SwapStep /\ ~ \E i \in Invocation : BeginPromotion(i)
  BY <1>5, OtherSteps, StateKeeps
<1> QED
  BY <1>1, <1>2, <1>3, <1>4, <1>5

\* A target that was ever promoted is in its place or in a backup, whatever
\* step of a replacement fails or is killed (_swap_targets, _restore_target).
THEOREM StateAlwaysSurvives == Spec => []StateSurvives
<1>1. TypeInv /\ StateInv => StateSurvives
  <2> SUFFICES ASSUME TypeInv, StateInv, NEW n \in DOMAIN promoted, NEW t \in promoted[n].targets
               PROVE  canon[t] # Absent \/ backups[t] # <<>>
    BY DEF StateSurvives
  <2>1. t \in Target /\ (Current(t) # Absent \/ backups[t] # <<>>)
    BY PromotedRows DEF StateInv, PromotedInv
  <2> QED
    BY <2>1 DEF Current, StateInv, SwapInv
<1> QED
  BY TypeInit, TypeStep, LockInit, LockStep, StateInit, StateStep, <1>1, PTL DEF Spec

-----------------------------------------------------------------------------
(* The lane implements the register.                                       *)

\* At first the register is empty.
LEMMA RegisterInit == Init => Register!Init
BY DEF Init, Register!Init, Current

\* A run that is promoting is not on record.
LEMMA Promoting ==
    ASSUME StateInv, worker[swap.of].at = "promoting"
    PROVE  \A n \in DOMAIN promoted : promoted[n].by # swap.of
BY DEF StateInv, PromotedInv

\* The record of a promotion is the register's promotion: a run promotes once.
LEMMA RegisterPromotes ==
    ASSUME TypeInv, LockInv, StateInv, RecordPromotion
    PROVE  Register!Next
<1>1. swap \in Replacement /\ swap # None /\ swap.of \in Invocation
      /\ swap.done \in SUBSET Target /\ worker[swap.of].at = "promoting"
  BY DEF RecordPromotion, TypeInv, TypeOK, Replacement, LockInv, StartInv
<1>2. \A n \in DOMAIN promoted : promoted[n].by # swap.of
  BY <1>1, Promoting
<1>3. \A t \in Target : Current(t)' = IF t \in swap.done THEN swap.of ELSE Current(t)
  BY StateRecord
<1>4. promoted' = Append(promoted, [by |-> swap.of, targets |-> swap.done])
      /\ interrupted' = interrupted
  BY DEF RecordPromotion
<1>5. Register!Promote(swap.of, swap.done)
  BY <1>2, <1>3, <1>4 DEF Register!Promote, Register!Unrecorded
<1> QED
  BY <1>1, <1>5 DEF Register!Next

\* A replacement that is cut short leaves what was there, what it brought, or
\* nothing in the place of a target.
LEMMA RegisterDamage ==
    ASSUME TypeInv, LockInv, StateInv, swap # None, swap' = None, UNCHANGED <<canon, promoted>>,
           interrupted' = interrupted + 1
    PROVE  Register!Damage(swap.of) /\ swap.of \in Invocation
<1>1. swap \in Replacement /\ swap.of \in Invocation /\ worker[swap.of].at = "promoting"
  BY DEF TypeInv, TypeOK, Replacement, LockInv, StartInv
<1>2. \A n \in DOMAIN promoted : promoted[n].by # swap.of
  BY <1>1, Promoting
<1>3. \A t \in Target : Current(t)' = canon[t]
  BY DEF Current
<1>4. \A t \in Target : canon[t] \in {Current(t), swap.of, Absent}
  BY DEF Current, Open, Touched, StateInv, SwapInv, ForwardInv, BackwardInv
<1>5. [t \in Target |-> Current(t)]' \in [Target -> Invocation \cup {Absent}]
  BY <1>3 DEF TypeInv, TypeOK, Content
<1> QED
  BY <1>1, <1>2, <1>3, <1>4, <1>5 DEF Register!Damage, Register!Unrecorded

\* A kill, or a failure of the rollback, damages the register in the middle of
\* a replacement only.
LEMMA RegisterKill ==
    ASSUME TypeInv, LockInv, StateInv, Kill \/ UndoFails
    PROVE  Register!Next \/ UNCHANGED <<[t \in Target |-> Current(t)], promoted, interrupted>>
<1>1. swap' = None /\ UNCHANGED <<canon, promoted>>
  BY StateEnds DEF Kill
<1>2. CASE swap # None /\ interrupted' = interrupted + 1
  BY <1>1, <1>2, RegisterDamage DEF Register!Next
<1>3. CASE Kill /\ (swap = None \/ Open(swap) = {})
  <2>1. \A t \in Target : Current(t) = canon[t] /\ Current(t)' = canon[t]
    BY <1>1, <1>3 DEF Current
  <2>2. interrupted' = interrupted
    BY <1>3 DEF Kill
  <2> QED
    BY <1>1, <2>1, <2>2
<1> QED
  BY <1>2, <1>3, StateEnds DEF Kill, UndoFails

\* Each step is one of the register, or leaves it as it is.
LEMMA RegisterStep ==
    TypeInv /\ LockInv /\ StateInv /\ [Next]_vars
        => [Register!Next]_<<[t \in Target |-> Current(t)], promoted, interrupted>>
<1> DEFINE register == <<[t \in Target |-> Current(t)], promoted, interrupted>>
<1> SUFFICES ASSUME TypeInv, LockInv, StateInv, [Next]_vars
             PROVE  Register!Next \/ UNCHANGED register
  OBVIOUS
<1>1. CASE UNCHANGED vars
  BY <1>1, StateKeeps DEF vars
<1>2. CASE Kill \/ UndoFails
  BY <1>2, RegisterKill
<1>3. CASE RecordPromotion
  BY <1>3, RegisterPromotes
<1>4. CASE SetAside \/ MoveIn \/ PromotionFails \/ RemoveReplaced \/ PutBack \/ UndoDone
  <2>1. \A t \in Target : Current(t)' = Current(t)
    BY <1>4, StateSetAside, StateMoveIn, StateFails, StateRemoves, StatePutsBack, StateEnds
  <2>2. promoted' = promoted /\ interrupted' = interrupted
    BY <1>4 DEF SetAside, MoveIn, PromotionFails, RemoveReplaced, PutBack, UndoDone, SwapEnds
  <2> QED
    BY <2>1, <2>2
<1>5. ASSUME NEW i \in Invocation, BeginPromotion(i) PROVE UNCHANGED register
  BY <1>5, StateBegins DEF BeginPromotion
<1>6. CASE Next /\ ~Kill /\ ~SwapStep /\ ~ \E i \in Invocation : BeginPromotion(i)
  BY <1>6, OtherSteps, StateKeeps
<1> QED
  BY <1>1, <1>2, <1>3, <1>4, <1>5, <1>6 DEF SwapStep

\* Seen from outside, memory, session and promotion record change together and
\* each run promotes once; what a replacement leaves that is cut short, by a kill
\* or by a failure of its rollback, is a mixture of what was there and what its
\* run brought (promote_run_state, _restore_target).
THEOREM LaneImplementsRegister == Spec => ImplementsRegister
<1> QED
  BY TypeInit, TypeStep, LockInit, LockStep, StateInit, StateStep, RegisterInit, RegisterStep, PTL
  DEF Spec, ImplementsRegister, Register!Spec
=============================================================================
