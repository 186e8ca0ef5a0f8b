-------------------------- MODULE CorrectionProofs --------------------------
(***************************************************************************)
(* Proofs about Correction, for any plan, any contract and any number of   *)
(* commands, crashes and lost writes.                                      *)
(*                                                                         *)
(* TypeInv types the state.  LaneInv says where the coroutine of each lane *)
(* can be and what is on record of its command then: nothing before it is  *)
(* judged, the attempt before the closure, and each of them once.          *)
(* BoundInv, which holds until a write of a worker is lost, says that one  *)
(* worker at most is at work and that either the run's entry is its own or *)
(* no other bounded correction passes the gates.                           *)
(***************************************************************************)
EXTENDS Correction, FiniteSetTheorems, SequenceTheorems, WellFoundedInduction, TLAPS

USE DEF records, run, tasks, bounds

-----------------------------------------------------------------------------
(* Numbers.                                                                *)

\* A set of numbers has a least one.
LEMMA MinNat ==
    ASSUME NEW T \in SUBSET Nat, T # {}
    PROVE  \E m \in T : \A x \in T : m <= x
<1> DEFINE R == OpToRel(<, Nat)
<1>1. \A x, y \in Nat : <<x, y>> \in R <=> x < y
  BY DEF OpToRel
<1>2. IsWellFoundedOn(R, Nat)
  BY NatLessThanWellFounded
<1> HIDE DEF R
<1>3. PICK m \in T : \A x \in T : ~ (<<x, m>> \in R)
  BY <1>2, WFMin
<1>4. ASSUME NEW x \in T PROVE m <= x
  <2>1. ~ (<<x, m>> \in R) /\ x \in Nat /\ m \in Nat
    BY <1>3
  <2> QED
    BY <1>1, <2>1
<1> QED
  BY <1>4

\* A bounded one that is not empty has a maximum.
LEMMA MaxNat ==
    ASSUME NEW n \in Nat, NEW S \in SUBSET (0 .. n), S # {}
    PROVE  Max(S) \in S /\ \A x \in S : Max(S) >= x
<1> DEFINE T == {n - x : x \in S}
<1>1. T \in SUBSET Nat /\ T # {}
  <2>1. ASSUME NEW x \in S PROVE n - x \in Nat
    OBVIOUS
  <2> QED
    BY <2>1
<1>2. PICK m \in T : \A y \in T : m <= y
  BY <1>1, MinNat
<1>3. PICK x \in S : m = n - x
  OBVIOUS
<1>4. ASSUME NEW y \in S PROVE x >= y
  <2>1. m <= n - y
    BY <1>2
  <2> QED
    BY <1>3, <2>1
<1> QED
  BY <1>4 DEF Max

-----------------------------------------------------------------------------
(* The type invariant.                                                     *)

\* A command names a closure that is there, a closure a command that was sealed;
\* a server that is down does nothing, and a coroutine works for a command.
RecordInv ==
    /\ \A c \in DOMAIN commands : commands[c].target \in DOMAIN closures
    /\ \A k \in DOMAIN closures : closures[k].cmd \in 0 .. Len(commands)
    /\ ~up => hold = Idle /\ workers = {} /\ ~callback
    /\ hold.at = "idle" <=> hold.cmd = 0
    /\ hold.at = "idle" => hold = Idle

TypeInv == TypeOK /\ RecordInv

\* The closure that a correction is aimed at is on record.
LEMMA TargetType ==
    ASSUME TypeInv, TargetPool # {}, NEW scope
    PROVE  Target(scope) \in DOMAIN closures
<1> DEFINE covering == {k \in TargetPool : scope \subseteq closures[k].verdict.sealed}
           S == IF covering # {} THEN covering ELSE TargetPool
<1>1. Len(closures) \in Nat /\ DOMAIN closures = 1 .. Len(closures)
  BY LenProperties DEF TypeInv, TypeOK
<1>2. S # {} /\ S \in SUBSET (0 .. Len(closures)) /\ S \subseteq DOMAIN closures
  BY <1>1 DEF TargetPool
<1>3. Max(S) \in S
  BY <1>1, <1>2, MaxNat
<1> QED
  BY <1>2, <1>3 DEF Target

\* What a submission lists for a role is a closure, or nothing.
LEMMA ExistingType ==
    ASSUME TypeInv, NEW r \in Role
    PROVE  Existing(r) \in 0 .. Len(closures)
<1>1. /\ Len(closures) \in Nat /\ DOMAIN closures = 1 .. Len(closures)
      /\ Len(attempts) \in Nat /\ DOMAIN attempts = 1 .. Len(attempts)
  BY LenProperties DEF TypeInv, TypeOK
<1>2. CASE Corrections(r) # {}
  <2> DEFINE newest(k) == Max(AttemptsOf(closures[k].cmd))
             S == {newest(k) : k \in Corrections(r)}
  <2>1. ASSUME NEW k \in Corrections(r) PROVE newest(k) \in 0 .. Len(attempts)
    <3>1. AttemptsOf(closures[k].cmd) \in SUBSET (0 .. Len(attempts))
      BY <1>1 DEF AttemptsOf
    <3> QED
      BY <1>1, <3>1, MaxNat DEF Corrections
  <2> HIDE DEF newest
  <2>2. S \in SUBSET (0 .. Len(attempts)) /\ S # {}
    BY <1>2, <2>1
  <2>3. Max(S) \in S /\ \A x \in S : Max(S) >= x
    BY <1>1, <2>2, MaxNat
  <2>4. PICK k \in Corrections(r) : newest(k) = Max(S)
    BY <2>3
  <2>5. \A j \in Corrections(r) : newest(k) >= newest(j)
    BY <2>3, <2>4
  <2>6. (CHOOSE i \in Corrections(r) : \A j \in Corrections(r) : newest(i) >= newest(j)) \in Corrections(r)
    BY <2>5
  <2>7. Existing(r) \in Corrections(r)
    BY <1>2, <2>6 DEF Existing, newest
  <2> QED
    BY <1>1, <2>7 DEF Corrections
<1>3. CASE Corrections(r) = {}
  <2>1. BaseClosures(r) \cup {0} \in SUBSET (0 .. Len(closures))
    BY <1>1 DEF BaseClosures
  <2>2. Max(BaseClosures(r) \cup {0}) \in 0 .. Len(closures)
    BY <1>1, <2>1, MaxNat
  <2> QED
    BY <1>3, <2>2 DEF Existing
<1> QED
  BY <1>2, <1>3

\* A sequence of elements of a set is one of elements of any larger set.
LEMMA SeqGrows ==
    ASSUME NEW S, NEW T, S \subseteq T, NEW s \in Seq(S)
    PROVE  s \in Seq(T)
<1>1. PICK n \in Nat : s \in [1 .. n -> S]
  BY SeqDef
<1>2. s \in [1 .. n -> T]
  BY <1>1
<1> QED
  BY <1>2, SeqDef

\* Nobody has the event loop.
LEMMA IdleType == Idle \in [at : HoldPoint, cmd : {0}, verdict : Verdict]
BY DEF Idle, HoldPoint, Verdict, NoVerdict

\* At first the run executes its pipeline and nothing is on record.
LEMMA TypeInit == Init => TypeInv
<1> SUFFICES ASSUME Init PROVE TypeInv
  OBVIOUS
<1>1. commands \in Seq(Command) /\ attempts \in Seq(1 .. Len(commands)) /\ closures \in Seq(Closure)
      /\ Len(commands) = 0 /\ Len(closures) = 0
      /\ DOMAIN commands = {} /\ DOMAIN closures = {}
  BY EmptySeq DEF Init
<1>2. status \in RunStatus /\ crashes \in 0 .. MaxCrashes /\ faults \in 0 .. MaxFaults
      /\ Len(commands) <= MaxCommands
  BY <1>1, BoundAssumption DEF Init, BoundAssumption, RunStatus
<1>3. hold = Idle /\ hold \in [at : HoldPoint, cmd : 0 .. Len(commands), verdict : Verdict]
  BY <1>1, IdleType DEF Init
<1>4. RecordInv
  BY <1>1, <1>3 DEF Init, RecordInv, Idle
<1>5. TypeOK
  <2>1. submitted \in [Role -> 0 .. Len(closures)] /\ tracked \in 0 .. Len(commands)
    BY <1>1 DEF Init
  <2> QED
    BY <1>1, <1>2, <1>3, <2>1 DEF Init, TypeOK
<1> QED
  BY <1>4, <1>5 DEF TypeInv

\* The statuses that the lane moves a run to.
LEMMA StatusType ==
    {"correction_authorized", "correcting", "correction_exhausted", "running", "submitted",
     "failed", "rejected", "validating", "promoting", "published", "conflicted",
     "cancellation_requested", "cancelled"} \subseteq RunStatus
BY DEF RunStatus

\* A command is sealed.
LEMMA RequestTypes ==
    ASSUME TypeInv, NEW t \in CorrectionType, NEW scope \in SUBSET Output, RequestCorrection(t, scope)
    PROVE  TypeInv'
<1> DEFINE k == Target(scope)
           c == [type |-> t, target |-> k, role |-> closures[k].role, scope |-> scope]
<1> USE DEF TypeInv, TypeOK, RecordInv
<1>1. k \in DOMAIN closures /\ k \in Nat /\ closures[k].role \in Role
  <2>1. TargetPool # {}
    BY DEF RequestCorrection, Authorizable
  <2>2. k \in DOMAIN closures
    BY <2>1, TargetType
  <2> QED
    <3>1. k \in 1 .. Len(closures) /\ k \in Nat
      BY <2>2, LenProperties
    <3>2. closures[k] \in Closure
      BY <3>1, ElementOfSeq
    <3> QED
      BY <2>2, <3>1, <3>2 DEF Closure
<1> HIDE DEF k
<1>2. c \in Command
  BY <1>1 DEF Command
<1>3. commands' = Append(commands, c)
  BY DEF RequestCorrection, k
<1> HIDE DEF c
<1>4. /\ commands' \in Seq(Command) /\ Len(commands) \in Nat /\ Len(commands') = Len(commands) + 1
      /\ DOMAIN commands = 1 .. Len(commands) /\ DOMAIN commands' = 1 .. Len(commands')
      /\ \A d \in DOMAIN commands : commands'[d] = commands[d]
      /\ commands'[Len(commands')] = c
  BY <1>2, <1>3, AppendProperties, LenProperties
<1>5. Len(commands') <= MaxCommands
  BY <1>4, BoundAssumption DEF RequestCorrection, BoundAssumption
<1>6. attempts' \in Seq(1 .. Len(commands'))
  <2>1. 1 .. Len(commands) \subseteq 1 .. Len(commands')
    BY <1>4
  <2> QED
    BY <2>1, SeqGrows DEF RequestCorrection
<1>7. hold' \in [at : HoldPoint, cmd : 0 .. Len(commands'), verdict : Verdict]
      /\ hold'.at = "sealed" /\ hold'.cmd # 0
  <2>1. Len(commands') = Len(commands) + 1 /\ Len(commands) \in Nat
    BY <1>4
  <2>2. hold' = [Idle EXCEPT !.at = "sealed", !.cmd = Len(commands) + 1]
    BY DEF RequestCorrection
  <2> QED
    <3>1. NoVerdict \in Verdict
      BY DEF NoVerdict, Verdict
    <3>2. hold' = [at |-> "sealed", cmd |-> Len(commands) + 1, verdict |-> NoVerdict]
      BY <2>2 DEF Idle
    <3> QED
      BY <2>1, <3>1, <3>2 DEF HoldPoint
<1>8. \A d \in DOMAIN commands' : commands'[d].target \in DOMAIN closures'
  BY <1>1, <1>4 DEF RequestCorrection, c
<1>9. \A j \in DOMAIN closures' : closures'[j].cmd \in 0 .. Len(commands')
  BY <1>4 DEF RequestCorrection
<1>10. issued' \subseteq CorrectionType
  BY DEF RequestCorrection
<1>11. /\ up /\ up'
       /\ UNCHANGED <<status, correctable, closures, open, base, submitted, workers, tracked,
                      callback, crashes, faults>>
  BY DEF RequestCorrection
<1>12. TypeOK'
  <2>1. /\ status \in RunStatus /\ correctable \in BOOLEAN /\ closures \in Seq(Closure)
        /\ open \subseteq 1 .. Len(commands) /\ base \in BOOLEAN
        /\ submitted \in [Role -> 0 .. Len(closures)] /\ up \in BOOLEAN
        /\ workers \subseteq 1 .. Len(commands) /\ tracked \in 0 .. Len(commands)
        /\ callback \in BOOLEAN /\ crashes \in 0 .. MaxCrashes /\ faults \in 0 .. MaxFaults
    OBVIOUS
  <2>2. /\ 1 .. Len(commands) \subseteq 1 .. Len(commands')
        /\ 0 .. Len(commands) \subseteq 0 .. Len(commands')
    BY <1>4
  <2> QED
    BY <1>4, <1>5, <1>6, <1>7, <1>10, <1>11, <2>1, <2>2 DEF TypeOK
<1>13. RecordInv'
  BY <1>7, <1>8, <1>9, <1>11 DEF RecordInv
<1> QED
  BY <1>12, <1>13

\* The event loop works for a command.
LEMMA HoldFacts ==
    ASSUME TypeInv
    PROVE  /\ Len(commands) \in Nat /\ DOMAIN commands = 1 .. Len(commands)
           /\ Len(closures) \in Nat /\ DOMAIN closures = 1 .. Len(closures)
           /\ Len(attempts) \in Nat /\ DOMAIN attempts = 1 .. Len(attempts)
           /\ hold.cmd \in 0 .. Len(commands) /\ hold.verdict \in Verdict
           /\ hold.at # "idle" => hold.cmd \in DOMAIN commands
           /\ \A c \in DOMAIN commands : Source(c) \in Verdict /\ commands[c] \in Command
           /\ workers \subseteq DOMAIN commands
<1>1. /\ Len(commands) \in Nat /\ DOMAIN commands = 1 .. Len(commands)
      /\ Len(closures) \in Nat /\ DOMAIN closures = 1 .. Len(closures)
      /\ Len(attempts) \in Nat /\ DOMAIN attempts = 1 .. Len(attempts)
  BY LenProperties DEF TypeInv, TypeOK
<1>2. \A c \in DOMAIN commands : commands[c] \in Command /\ commands[c].target \in DOMAIN closures
  BY <1>1, ElementOfSeq DEF TypeInv, TypeOK, RecordInv
<1>3. \A k \in DOMAIN closures : closures[k].verdict \in Verdict
  <2>1. \A k \in DOMAIN closures : closures[k] \in Closure
    BY <1>1, ElementOfSeq DEF TypeInv, TypeOK
  <2> QED
    BY <2>1 DEF Closure
<1> QED
  BY <1>1, <1>2, <1>3 DEF TypeInv, TypeOK, RecordInv, Source

\* An attempt row.
LEMMA AttemptFacts ==
    ASSUME TypeInv, NEW c \in DOMAIN commands, RecordAttempt(c)
    PROVE  /\ attempts' \in Seq(1 .. Len(commands))
           /\ DOMAIN attempts' = DOMAIN attempts \cup {Len(attempts) + 1}
           /\ Len(attempts) + 1 \notin DOMAIN attempts
           /\ \A a \in DOMAIN attempts : attempts'[a] = attempts[a]
           /\ attempts'[Len(attempts) + 1] = c
<1>1. Len(attempts) \in Nat /\ DOMAIN attempts = 1 .. Len(attempts) /\ c \in 1 .. Len(commands)
      /\ attempts \in Seq(1 .. Len(commands))
  BY HoldFacts DEF TypeInv, TypeOK
<1> QED
  BY <1>1, AppendProperties DEF RecordAttempt

\* A closure.
LEMMA ClosureFacts ==
    ASSUME TypeInv, NEW e \in Closure, closures' = Append(closures, e)
    PROVE  /\ closures' \in Seq(Closure)
           /\ Len(closures') = Len(closures) + 1
           /\ DOMAIN closures' = DOMAIN closures \cup {Len(closures) + 1}
           /\ Len(closures) + 1 \notin DOMAIN closures
           /\ \A k \in DOMAIN closures : closures'[k] = closures[k]
           /\ closures'[Len(closures) + 1] = e
<1>1. Len(closures) \in Nat /\ DOMAIN closures = 1 .. Len(closures) /\ closures \in Seq(Closure)
  BY HoldFacts DEF TypeInv, TypeOK
<1> QED
  BY <1>1, AppendProperties

\* The coroutine goes on, or gives the event loop back.
LEMMA HoldMoves ==
    ASSUME TypeInv, up,
           \/ /\ hold.at # "idle"
              /\ \E p \in HoldPoint \ {"idle"}, v \in Verdict :
                    hold' = [at |-> p, cmd |-> hold.cmd, verdict |-> v]
           \/ Release,
           Len(commands') = Len(commands)
    PROVE  /\ hold' \in [at : HoldPoint, cmd : 0 .. Len(commands'), verdict : Verdict]
           /\ hold'.at = "idle" <=> hold'.cmd = 0
           /\ hold'.at = "idle" => hold' = Idle
<1>1. CASE Release
  BY <1>1, IdleType, HoldFacts DEF Release, Idle
<1>2. ASSUME NEW p \in HoldPoint \ {"idle"}, NEW v \in Verdict, hold.at # "idle",
             hold' = [at |-> p, cmd |-> hold.cmd, verdict |-> v]
      PROVE  /\ hold' \in [at : HoldPoint, cmd : 0 .. Len(commands'), verdict : Verdict]
             /\ hold'.at = "idle" <=> hold'.cmd = 0
             /\ hold'.at = "idle" => hold' = Idle
  BY <1>2, HoldFacts DEF TypeInv, RecordInv
<1> QED
  BY <1>1, <1>2

\* A coroutine that keeps its verdict.
LEMMA HoldKeeps ==
    ASSUME TypeInv, NEW p, hold' = [hold EXCEPT !.at = p]
    PROVE  hold' = [at |-> p, cmd |-> hold.cmd, verdict |-> hold.verdict]
BY DEF TypeInv, TypeOK

\* Steps that write the status, the tasks, or the execution that is open.
LEMMA MoveTypes ==
    ASSUME TypeInv, up,
           UNCHANGED <<commands, attempts, closures, up>>,
           status' \in RunStatus, correctable' \in BOOLEAN,
           issued' = issued \/ issued' = {},
           open' \subseteq open \cup DOMAIN commands, base' \in BOOLEAN,
           submitted' = submitted \/ submitted' = Chain,
           \/ hold' = hold
           \/ Release
           \/ /\ hold.at # "idle"
              /\ \E p \in HoldPoint \ {"idle"}, v \in Verdict :
                    hold' = [at |-> p, cmd |-> hold.cmd, verdict |-> v],
           workers' \subseteq workers \cup {hold.cmd}, workers' \subseteq DOMAIN commands,
           tracked' \in {0, tracked, hold.cmd}, callback' \in BOOLEAN,
           crashes' \in 0 .. MaxCrashes, faults' \in 0 .. MaxFaults
    PROVE  TypeInv'
<1>1. /\ hold' \in [at : HoldPoint, cmd : 0 .. Len(commands'), verdict : Verdict]
      /\ hold'.at = "idle" <=> hold'.cmd = 0
      /\ hold'.at = "idle" => hold' = Idle
  BY HoldMoves DEF TypeInv, TypeOK, RecordInv
<1>2. submitted' \in [Role -> 0 .. Len(closures')]
  <2>1. submitted \in [Role -> 0 .. Len(closures)]
    BY DEF TypeInv, TypeOK
  <2>2. \A r \in Role : Existing(r) \in 0 .. Len(closures)
    BY ExistingType
  <2>3. Chain \in [Role -> 0 .. Len(closures)]
    BY <2>2 DEF Chain
  <2> QED
    BY <2>1, <2>3
<1>3. tracked' \in 0 .. Len(commands') /\ workers' \subseteq 1 .. Len(commands')
      /\ open' \subseteq 1 .. Len(commands')
  <2>1. /\ DOMAIN commands = 1 .. Len(commands) /\ Len(commands) \in Nat
        /\ hold.cmd \in 0 .. Len(commands)
    BY HoldFacts
  <2>2. open \subseteq 1 .. Len(commands) /\ tracked \in 0 .. Len(commands)
    BY DEF TypeInv, TypeOK
  <2> QED
    BY <2>1, <2>2
<1>4. TypeOK'
  BY <1>1, <1>2, <1>3 DEF TypeInv, TypeOK
<1>5. RecordInv'
  BY <1>1 DEF TypeInv, RecordInv
<1> QED
  BY <1>4, <1>5 DEF TypeInv

\* A worker that ends.
LEMMA EndsFacts ==
    ASSUME TypeInv, NEW c, WorkerEnds(c) \/ WorkerEndsMoving(c)
    PROVE  /\ workers' = workers \ {c} /\ workers' \subseteq DOMAIN commands
           /\ tracked' \in {0, tracked} /\ callback' \in BOOLEAN
BY HoldFacts DEF TypeInv, TypeOK, WorkerEnds, WorkerEndsMoving

\* The handler, from the sealed command to the worker or to the acknowledgement.
LEMMA HandlerTypes ==
    ASSUME TypeInv, Authorize \/ Begin \/ Acknowledge
    PROVE  TypeInv'
<1> USE HoldFacts
<1>1. CASE Authorize
  <2>1. hold' = [at |-> IF TypeOf(hold.cmd) \in LaneB THEN "begin" ELSE "check",
                 cmd |-> hold.cmd, verdict |-> hold.verdict]
    BY <1>1, HoldKeeps DEF Authorize
  <2> QED
    BY <1>1, <2>1, MoveTypes, StatusType
    DEF Authorize, MoveRun, TypeInv, TypeOK, HoldPoint
<1>2. CASE Begin
  <2>1. hold.cmd \in DOMAIN commands
    BY <1>2 DEF Begin
  <2> QED
    BY <1>2, <2>1, MoveTypes, StatusType DEF Begin, MoveRun, TypeInv, TypeOK
<1>3. CASE Acknowledge
  <2>1. hold' = [at |-> "close", cmd |-> hold.cmd, verdict |-> hold.verdict]
    BY <1>3, HoldKeeps DEF Acknowledge
  <2> QED
    BY <1>3, <2>1, MoveTypes DEF Acknowledge, TypeInv, TypeOK, HoldPoint
<1> QED
  BY <1>1, <1>2, <1>3

\* The end of a command: the attempt is counted, or the run leaves the lane.
LEMMA PassTypes ==
    ASSUME TypeInv, \/ Count \/ Advance \/ Resume \/ SealSubmission
                    \/ InsertSubmissionAttempt \/ Resubmit \/ PassRefused
    PROVE  TypeInv'
<1> USE HoldFacts
<1>1. CASE Count
  BY <1>1, MoveTypes, EndsFacts, StatusType DEF Count, MoveRun, TypeInv, TypeOK
<1>2. CASE Advance
  <2>1. hold' = [hold EXCEPT !.at = "complete"]
          => hold' = [at |-> "complete", cmd |-> hold.cmd, verdict |-> hold.verdict]
    BY HoldKeeps
  <2> QED
    BY <1>2, <2>1, MoveTypes, StatusType DEF Advance, MoveRun, TypeInv, TypeOK, HoldPoint
<1>3. CASE Resume
  BY <1>3, MoveTypes, EndsFacts, StatusType DEF Resume, MoveRun, TypeInv, TypeOK
<1>4. CASE SealSubmission
  BY <1>4, MoveTypes, EndsFacts, StatusType DEF SealSubmission, MoveRun, TypeInv, TypeOK
<1>5. CASE InsertSubmissionAttempt
  <2>1. hold' = [at |-> "submit", cmd |-> hold.cmd, verdict |-> hold.verdict]
    BY <1>5, HoldKeeps DEF InsertSubmissionAttempt
  <2> QED
    BY <1>5, <2>1, MoveTypes DEF InsertSubmissionAttempt, TypeInv, TypeOK, HoldPoint
<1>6. CASE Resubmit
  BY <1>6, MoveTypes, EndsFacts, StatusType DEF Resubmit, MoveRun, TypeInv, TypeOK
<1>7. CASE PassRefused
  BY <1>7, MoveTypes, EndsFacts DEF PassRefused, TypeInv, TypeOK
<1> QED
  BY <1>1, <1>2, <1>3, <1>4, <1>5, <1>6, <1>7

\* Lane A: the attempt, and what the check says.
LEMMA CheckTypes ==
    ASSUME TypeInv, Check
    PROVE  TypeInv'
<1>1. hold.cmd \in DOMAIN commands /\ up /\ Source(hold.cmd) \in Verdict
  BY HoldFacts DEF Check
<1>2. attempts' \in Seq(1 .. Len(commands))
  BY <1>1, AttemptFacts DEF Check
<1>3. \/ Release
      \/ hold' = [at |-> "ack", cmd |-> hold.cmd,
                  verdict |-> [Source(hold.cmd) EXCEPT !.status = "succeeded"]]
  BY DEF Check, TypeInv, TypeOK
<1>4. [Source(hold.cmd) EXCEPT !.status = "succeeded"] \in Verdict
  BY <1>1 DEF Verdict
<1>5. /\ hold' \in [at : HoldPoint, cmd : 0 .. Len(commands'), verdict : Verdict]
      /\ hold'.at = "idle" <=> hold'.cmd = 0
      /\ hold'.at = "idle" => hold' = Idle
  BY <1>1, <1>3, <1>4, HoldMoves DEF Check, HoldPoint
<1>6. TypeOK'
  BY <1>2, <1>5 DEF Check, TypeInv, TypeOK
<1>7. RecordInv'
  BY <1>1, <1>5 DEF Check, TypeInv, RecordInv
<1> QED
  BY <1>6, <1>7 DEF TypeInv

\* The closure of a correction.
LEMMA CloseTypes ==
    ASSUME TypeInv, Close
    PROVE  TypeInv'
<1> DEFINE e == [role |-> commands[hold.cmd].role, cmd |-> hold.cmd, verdict |-> hold.verdict]
           p == IF TypeOf(hold.cmd) \in LaneA THEN "advance"
                ELSE IF hold.verdict.status = "succeeded" THEN "complete"
                ELSE "count"
<1>1. hold.cmd \in DOMAIN commands /\ up /\ hold.verdict \in Verdict /\ hold.cmd \in Nat
      /\ commands[hold.cmd] \in Command
  BY HoldFacts DEF Close
<1>2. e \in Closure
  BY <1>1 DEF Closure, Command
<1>3. /\ closures' \in Seq(Closure) /\ Len(closures') = Len(closures) + 1
      /\ DOMAIN closures' = DOMAIN closures \cup {Len(closures) + 1}
      /\ \A k \in DOMAIN closures : closures'[k] = closures[k]
      /\ closures'[Len(closures) + 1] = e
  BY <1>2, ClosureFacts DEF Close
<1>4. p \in HoldPoint \ {"idle"} /\ hold' = [at |-> p, cmd |-> hold.cmd, verdict |-> hold.verdict]
  <2>1. p \in {"advance", "complete", "count"}
    OBVIOUS
  <2>2. hold' = [hold EXCEPT !.at = p]
    BY DEF Close
  <2> HIDE DEF p
  <2> QED
    BY <2>1, <2>2, HoldKeeps DEF HoldPoint
<1> HIDE DEF p, e
<1>5. /\ hold' \in [at : HoldPoint, cmd : 0 .. Len(commands'), verdict : Verdict]
      /\ hold'.at = "idle" <=> hold'.cmd = 0
      /\ hold'.at = "idle" => hold' = Idle
  BY <1>1, <1>4, HoldMoves DEF Close
<1>6. TypeOK'
  <2>1. submitted' \in [Role -> 0 .. Len(closures')]
    BY <1>3, HoldFacts DEF Close, TypeInv, TypeOK
  <2> QED
    BY <1>3, <1>5, <2>1 DEF Close, TypeInv, TypeOK
<1>7. RecordInv'
  <2>1. e.cmd \in 0 .. Len(commands)
    BY <1>1, HoldFacts DEF e
  <2>2. \A k \in DOMAIN closures' : closures'[k].cmd \in 0 .. Len(commands')
    BY <1>3, <2>1 DEF Close, TypeInv, RecordInv
  <2> QED
    BY <1>1, <1>3, <1>5, <2>2 DEF Close, TypeInv, RecordInv
<1> QED
  BY <1>6, <1>7 DEF TypeInv

\* What an agent leaves is judged.
LEMMA JudgementType ==
    ASSUME TypeInv, NEW c \in DOMAIN commands, NEW w \in Work(c)
    PROVE  Judgement(c, w) \in Verdict
<1>1. Source(c) \in Verdict /\ w.valid \subseteq Output
  BY HoldFacts DEF Work, OutputsOf
<1> QED
  BY <1>1 DEF Judgement, Verdict

\* A worker, from its launch to the end of its agent.
LEMMA WorkerTypes ==
    ASSUME TypeInv, NEW c \in DOMAIN commands, WorkerStep(c) \/ WorkerFault(c) \/ PreservationFault(c)
    PROVE  TypeInv'
<1> USE HoldFacts
<1>1. c \in workers /\ up /\ hold.at = "idle" /\ NoVerdict \in Verdict /\ Withdrawn \in Verdict
      /\ c \in 1 .. Len(commands)
  BY DEF WorkerStep, Launch, WorkerReturns, WorkerWithdraws, WorkerTurnedAway, WorkerFault,
         PreservationFault, Free, NoVerdict, Withdrawn, Verdict
<1>2. CASE Launch(c) \/ WorkerTurnedAway(c) \/ WorkerFault(c)
  <2>1. CASE Launch(c)
    BY <1>1, <2>1, MoveTypes DEF Launch, TypeInv, TypeOK
  <2>2. CASE WorkerTurnedAway(c)
    BY <1>1, <2>2, MoveTypes, EndsFacts DEF WorkerTurnedAway, TypeInv, TypeOK
  <2>3. CASE WorkerFault(c)
    <3>1. faults' \in 0 .. MaxFaults
      BY <2>3, BoundAssumption DEF WorkerFault, TypeInv, TypeOK, BoundAssumption
    <3> QED
      BY <1>1, <2>3, <3>1, MoveTypes, EndsFacts DEF WorkerFault, TypeInv, TypeOK
  <2> QED
    BY <1>2, <2>1, <2>2, <2>3
<1>3. ASSUME NEW v \in Verdict, hold' = [at |-> "close", cmd |-> c, verdict |-> v],
             UNCHANGED <<run, commands, closures, open, base, submitted, up, tasks, crashes>>,
             attempts' = attempts \/ RecordAttempt(c), faults' \in 0 .. MaxFaults
      PROVE  TypeInv'
  <2>1. attempts' \in Seq(1 .. Len(commands))
    BY <1>3, AttemptFacts DEF TypeInv, TypeOK
  <2>2. hold' \in [at : HoldPoint, cmd : 0 .. Len(commands'), verdict : Verdict]
        /\ hold'.cmd # 0 /\ hold'.at # "idle"
    BY <1>1, <1>3 DEF HoldPoint
  <2>3. TypeOK'
    BY <1>3, <2>1, <2>2 DEF TypeInv, TypeOK
  <2>4. RecordInv'
    BY <1>1, <1>3, <2>2 DEF TypeInv, RecordInv
  <2> QED
    BY <2>3, <2>4 DEF TypeInv
<1>4. CASE WorkerReturns(c)
  <2>1. PICK v \in {NoVerdict} \cup (IF c \in open THEN {Judgement(c, w) : w \in Work(c)} ELSE {}) :
          hold' = [at |-> "close", cmd |-> c, verdict |-> v]
    BY <1>4 DEF WorkerReturns
  <2>2. v \in Verdict
    BY <1>1, <2>1, JudgementType
  <2> QED
    BY <1>3, <1>4, <2>1, <2>2 DEF WorkerReturns, TypeInv, TypeOK
<1>5. CASE WorkerWithdraws(c)
  BY <1>1, <1>3, <1>5 DEF WorkerWithdraws, TypeInv, TypeOK
<1>6. CASE PreservationFault(c)
  <2>1. faults' \in 0 .. MaxFaults
    BY <1>6, BoundAssumption DEF PreservationFault, TypeInv, TypeOK, BoundAssumption
  <2> QED
    BY <1>1, <1>3, <1>6, <2>1 DEF PreservationFault, TypeInv, TypeOK
<1> QED
  BY <1>2, <1>4, <1>5, <1>6 DEF WorkerStep

\* The pipeline closes a role.
LEMMA RoleTypes ==
    ASSUME TypeInv, NEW r \in Role, RoleCloses(r)
    PROVE  TypeInv'
<1>1. PICK sealed \in SUBSET OutputsOf(r), result \in {"succeeded", "failed"} :
        closures' = Append(closures, [role |-> r, cmd |-> 0,
                  verdict |-> [status |-> result, sealed |-> sealed, strayed |-> {}]])
  BY DEF RoleCloses
<1> DEFINE e == [role |-> r, cmd |-> 0,
                 verdict |-> [status |-> result, sealed |-> sealed, strayed |-> {}]]
<1>2. e \in Closure /\ e.cmd = 0
  BY DEF Closure, Verdict, OutputsOf
<1> HIDE DEF e
<1>3. /\ closures' \in Seq(Closure) /\ Len(closures') = Len(closures) + 1
      /\ DOMAIN closures' = DOMAIN closures \cup {Len(closures) + 1}
      /\ \A k \in DOMAIN closures : closures'[k] = closures[k]
      /\ closures'[Len(closures) + 1] = e
  BY <1>1, <1>2, ClosureFacts DEF e
<1>4. UNCHANGED <<run, commands, attempts, open, base, submitted, up, hold, tasks, bounds>>
  BY DEF RoleCloses
<1>5. TypeOK'
  <2>1. submitted' \in [Role -> 0 .. Len(closures')]
    BY <1>3, <1>4, HoldFacts DEF TypeInv, TypeOK
  <2> QED
    BY <1>3, <1>4, <2>1 DEF TypeInv, TypeOK
<1>6. RecordInv'
  BY <1>2, <1>3, <1>4, HoldFacts DEF TypeInv, RecordInv
<1> QED
  BY <1>5, <1>6 DEF TypeInv

\* The run around the lane.
LEMMA PipelineTypes ==
    ASSUME TypeInv, StageFails \/ RunSubmits \/ RunJudged \/ Settle \/ Cancel \/ Untrack \/ CloseFault
    PROVE  TypeInv'
<1> USE HoldFacts
<1>1. CASE StageFails
  BY <1>1, MoveTypes, StatusType DEF StageFails, Free, MoveRun, TypeInv, TypeOK
<1>2. CASE RunSubmits
  BY <1>2, MoveTypes, StatusType DEF RunSubmits, Free, MoveRun, TypeInv, TypeOK
<1>3. CASE RunJudged
  <2>1. status' \in RunStatus /\ correctable' \in BOOLEAN /\ issued' = {}
    BY <1>3, StatusType DEF RunJudged, MoveRun, TypeInv, TypeOK
  <2> QED
    BY <1>3, <2>1, MoveTypes DEF RunJudged, Free, TypeInv, TypeOK
<1>4. CASE Settle
  BY <1>4, MoveTypes, StatusType DEF Settle, Free, MoveRun, TypeInv, TypeOK
<1>5. CASE Cancel
  BY <1>5, MoveTypes, StatusType DEF Cancel, Free, MoveRun, TypeInv, TypeOK
<1>6. CASE Untrack
  BY <1>6, MoveTypes DEF Untrack, TypeInv, TypeOK
<1>7. CASE CloseFault
  <2>1. faults' \in 0 .. MaxFaults
    BY <1>7, BoundAssumption DEF CloseFault, TypeInv, TypeOK, BoundAssumption
  <2> QED
    BY <1>7, <2>1, MoveTypes, EndsFacts DEF CloseFault, TypeInv, TypeOK
<1> QED
  BY <1>1, <1>2, <1>3, <1>4, <1>5, <1>6, <1>7

\* The server crashes, and starts again.
LEMMA ServerTypes ==
    ASSUME TypeInv, Crash \/ Restart \/ UNCHANGED vars
    PROVE  TypeInv'
<1>1. CASE Crash
  <2>1. /\ hold' = Idle /\ hold' \in [at : HoldPoint, cmd : 0 .. Len(commands'), verdict : Verdict]
        /\ tracked' \in 0 .. Len(commands') /\ crashes' \in 0 .. MaxCrashes
        /\ workers' = {} /\ callback' = FALSE
    BY <1>1, IdleType, HoldFacts, BoundAssumption
    DEF Crash, TypeInv, TypeOK, BoundAssumption
  <2>2. TypeOK'
    BY <1>1, <2>1 DEF Crash, TypeInv, TypeOK
  <2>3. RecordInv'
    BY <1>1, <2>1 DEF Crash, TypeInv, RecordInv, Idle
  <2> QED
    BY <2>2, <2>3 DEF TypeInv
<1>2. CASE Restart
  <2>1. TypeOK'
    BY <1>2, StatusType DEF Restart, MoveRun, TypeInv, TypeOK
  <2>2. RecordInv'
    BY <1>2 DEF Restart, TypeInv, RecordInv
  <2> QED
    BY <2>1, <2>2 DEF TypeInv
<1>3. CASE UNCHANGED vars
  BY <1>3 DEF vars, TypeInv, TypeOK, RecordInv
<1> QED
  BY <1>1, <1>2, <1>3

\* Each step keeps the type invariant.
LEMMA TypeStep == TypeInv /\ [Next]_vars => TypeInv'
<1> SUFFICES ASSUME TypeInv, [Next]_vars PROVE TypeInv'
  OBVIOUS
<1>1. CASE HandlerStep
  BY <1>1, HandlerTypes, PassTypes, CheckTypes, CloseTypes DEF HandlerStep
<1>2. CASE PipelineStep
  BY <1>2, RoleTypes, PipelineTypes DEF PipelineStep
<1>3. ASSUME NEW c \in 1 .. Len(commands), WorkerStep(c) \/ WorkerFault(c) \/ PreservationFault(c)
      PROVE  TypeInv'
  BY <1>3, WorkerTypes, HoldFacts
<1>4. ASSUME NEW t \in CorrectionType, NEW scope \in SUBSET Output \ {{}}, RequestCorrection(t, scope)
      PROVE  TypeInv'
  BY <1>4, RequestTypes
<1> QED
  BY <1>1, <1>2, <1>3, <1>4, PipelineTypes, ServerTypes DEF Next

\* The commands, attempts, closures and submissions of a run have their types
\* throughout, and a submission lists closures that are on record
\* (request_output_correction, execute_targeted_correction, load_existing).
THEOREM TypesAreCorrect == Spec => []TypeOK
<1>1. TypeInv => TypeOK
  BY DEF TypeInv
<1> QED
  BY TypeInit, TypeStep, <1>1, PTL DEF Spec

-----------------------------------------------------------------------------
(* A correction is on record once, and where it is looked for.             *)

Closings(c) == {k \in DOMAIN closures : closures[k].cmd = c}

\* Nothing is on record of the execution of the command.
Fresh(c) == AttemptsOf(c) = {} /\ Closings(c) = {}

\* Where the coroutine of each lane can be, and what it has done by then.
PlaceInv ==
    /\ \A c \in workers : TypeOf(c) \in LaneB
    /\ hold.at \in {"begin", "count"} => TypeOf(hold.cmd) \in LaneB
    /\ hold.at \in {"check", "ack", "advance"} => TypeOf(hold.cmd) \in LaneA
    /\ hold.at \in {"sealed", "begin", "check"} => hold.cmd \notin workers /\ Fresh(hold.cmd)
    /\ hold.at \in {"close", "count", "complete", "submit"} /\ TypeOf(hold.cmd) \in LaneB
          => hold.cmd \in workers
    /\ \A c \in workers : Fresh(c) \/ hold.cmd = c

\* The attempt comes before the closure, and each of them once.
ChainInv ==
    /\ hold.at \in {"ack", "close"} => Closings(hold.cmd) = {}
    /\ hold.at = "ack" => AttemptsOf(hold.cmd) # {}
    /\ hold.at = "close" /\ hold.verdict.status = "succeeded" => AttemptsOf(hold.cmd) # {}
    /\ \A c \in DOMAIN commands :
          /\ \A a, b \in AttemptsOf(c) : a = b
          /\ \A j, k \in Closings(c) : j = k
    /\ \A k \in DOMAIN closures :
          Succeeded(k) /\ closures[k].cmd # 0 => AttemptsOf(closures[k].cmd) # {}

LaneInv == PlaceInv /\ ChainInv

\* A type is one of lane A or of lane B.
LEMMA Lanes ==
    ASSUME TypeInv, NEW c \in DOMAIN commands
    PROVE  TypeOf(c) \in LaneA \cup LaneB /\ (TypeOf(c) \in LaneA <=> TypeOf(c) \notin LaneB)
<1>1. commands[c] \in Command
  BY HoldFacts
<1> QED
  BY <1>1 DEF TypeOf, Command, CorrectionType, LaneA, LaneB

\* An attempt row is one of its command.
LEMMA AttemptAdds ==
    ASSUME TypeInv, NEW c \in DOMAIN commands, RecordAttempt(c)
    PROVE  \A d : AttemptsOf(d)' = IF d = c THEN AttemptsOf(d) \cup {Len(attempts) + 1}
                                   ELSE AttemptsOf(d)
BY AttemptFacts DEF AttemptsOf

\* A closure is one of its command.
LEMMA ClosureAdds ==
    ASSUME TypeInv, NEW e \in Closure, closures' = Append(closures, e)
    PROVE  \A d : Closings(d)' = IF d = e.cmd THEN Closings(d) \cup {Len(closures) + 1}
                                 ELSE Closings(d)
BY ClosureFacts DEF Closings

\* A step that records nothing.
LEMMA RecordsKept ==
    /\ attempts' = attempts => \A d : AttemptsOf(d)' = AttemptsOf(d)
    /\ closures' = closures => \A d : Closings(d)' = Closings(d)
BY DEF AttemptsOf, Closings

\* What is on record of the commands.
ChainKept ==
    /\ \A c \in DOMAIN commands :
          /\ \A a, b \in AttemptsOf(c) : a = b
          /\ \A j, k \in Closings(c) : j = k
    /\ \A k \in DOMAIN closures :
          Succeeded(k) /\ closures[k].cmd # 0 => AttemptsOf(closures[k].cmd) # {}

LEMMA ChainQuiet ==
    ASSUME ChainInv, UNCHANGED <<commands, attempts, closures>>
    PROVE  ChainKept'
BY RecordsKept DEF ChainInv, ChainKept, Succeeded

\* A step after which nobody has the event loop, and nothing is on record of
\* the workers that are left.
LEMMA LaneRests ==
    ASSUME TypeInv, LaneInv, UNCHANGED <<commands, attempts, closures>>, hold' = Idle,
           \A c \in workers' : TypeOf(c) \in LaneB /\ Fresh(c)
    PROVE  LaneInv'
<1>1. hold'.at = "idle"
  BY DEF Idle
<1>2. PlaceInv'
  BY <1>1, RecordsKept DEF PlaceInv, Fresh, TypeOf
<1>3. ChainInv'
  BY <1>1, ChainQuiet DEF LaneInv, ChainInv, ChainKept
<1> QED
  BY <1>2, <1>3 DEF LaneInv

\* A worker of which something is on record has the event loop.
LEMMA WorkersFresh ==
    ASSUME TypeInv, LaneInv, NEW c \in workers, c # hold.cmd \/ hold.at = "idle"
    PROVE  TypeOf(c) \in LaneB /\ Fresh(c) /\ c \in DOMAIN commands /\ c # 0
<1>1. c \in DOMAIN commands /\ c # 0
  BY HoldFacts
<1>2. hold.at = "idle" => hold.cmd = 0
  BY DEF TypeInv, RecordInv
<1> QED
  BY <1>1, <1>2 DEF LaneInv, PlaceInv

\* Steps of others while the event loop is free.
LEMMA LaneFree ==
    ASSUME TypeInv, LaneInv,
           \/ \E c \in DOMAIN commands : Launch(c) \/ WorkerTurnedAway(c) \/ WorkerFault(c)
           \/ StageFails \/ RunSubmits \/ RunJudged \/ Settle \/ Cancel \/ Untrack
           \/ Crash \/ Restart
    PROVE  LaneInv'
<1>1. UNCHANGED <<commands, attempts, closures>>
  BY DEF Launch, WorkerTurnedAway, WorkerFault, StageFails, RunSubmits, RunJudged, Settle, Cancel,
         Untrack, Crash, Restart
<1>2. hold' = Idle /\ workers' \subseteq workers /\ (hold.at = "idle" \/ workers' = {})
  BY DEF Launch, WorkerTurnedAway, WorkerFault, StageFails, RunSubmits, RunJudged, Settle, Cancel,
         Untrack, Crash, Restart, Free, WorkerEnds, TypeInv, RecordInv, Idle
<1>3. \A c \in workers' : TypeOf(c) \in LaneB /\ Fresh(c)
  BY <1>2, WorkersFresh
<1> QED
  BY <1>1, <1>2, <1>3, LaneRests

\* The coroutine ends: its worker is done, or it was none.
LEMMA LaneEnds ==
    ASSUME TypeInv, LaneInv,
           \/ Count \/ Resume \/ SealSubmission \/ Resubmit \/ PassRefused \/ CloseFault
           \/ Advance /\ Release
    PROVE  LaneInv'
<1>1. UNCHANGED <<commands, attempts, closures>> /\ hold' = Idle /\ hold.at # "idle"
  BY DEF Count, Resume, SealSubmission, Resubmit, PassRefused, CloseFault, Advance, Release
<1>2. workers' = workers \ {hold.cmd} \/ (workers' = workers /\ hold.at = "advance")
  BY DEF Count, Resume, SealSubmission, Resubmit, PassRefused, CloseFault, Advance,
         WorkerEnds, WorkerEndsMoving
<1>3. hold.at = "advance" => hold.cmd \notin workers
  BY <1>1, Lanes, HoldFacts DEF LaneInv, PlaceInv
<1>4. \A c \in workers' : TypeOf(c) \in LaneB /\ Fresh(c)
  BY <1>2, <1>3, WorkersFresh
<1> QED
  BY <1>1, <1>4, LaneRests

\* The handler begins.
LEMMA LaneRequests ==
    ASSUME TypeInv, LaneInv, NEW t \in CorrectionType, NEW scope, RequestCorrection(t, scope)
    PROVE  LaneInv'
<1> DEFINE n == Len(commands) + 1
           k == Target(scope)
           e == [type |-> t, target |-> k, role |-> closures[k].role, scope |-> scope]
<1>1. /\ hold' = [Idle EXCEPT !.at = "sealed", !.cmd = n] /\ commands' = Append(commands, e)
      /\ UNCHANGED <<attempts, closures, workers>> /\ hold.at = "idle"
  BY DEF RequestCorrection
<1>2. /\ hold'.at = "sealed" /\ hold'.cmd = n /\ n \in Nat /\ n \notin DOMAIN commands
      /\ DOMAIN commands' = DOMAIN commands \cup {n}
      /\ \A c \in DOMAIN commands : commands'[c] = commands[c]
  <2>1. commands \in Seq(Command) /\ Len(commands) \in Nat /\ DOMAIN commands = 1 .. Len(commands)
    BY HoldFacts DEF TypeInv, TypeOK
  <2> HIDE DEF e
  <2> QED
    BY <1>1, <2>1 DEF Idle
<1> HIDE DEF n, e
<1>3. Fresh(n)
  <2>1. \A a \in DOMAIN attempts : attempts[a] \in DOMAIN commands
    BY HoldFacts, ElementOfSeq DEF TypeInv, TypeOK
  <2>2. \A j \in DOMAIN closures : closures[j].cmd \in DOMAIN commands \cup {0}
    BY HoldFacts DEF TypeInv, RecordInv
  <2>3. n # 0
    BY HoldFacts DEF n
  <2> QED
    BY <1>2, <2>1, <2>2, <2>3 DEF Fresh, AttemptsOf, Closings
<1>4. \A c \in workers : c \in DOMAIN commands /\ TypeOf(c) \in LaneB /\ Fresh(c)
  BY <1>1, WorkersFresh
<1>5. PlaceInv'
  BY <1>1, <1>2, <1>3, <1>4, RecordsKept DEF PlaceInv, Fresh, TypeOf
<1>6. ChainInv'
  BY <1>1, <1>2, <1>3, RecordsKept DEF LaneInv, ChainInv, Fresh, Succeeded
<1> QED
  BY <1>5, <1>6 DEF LaneInv

\* The handler goes on.
LEMMA LaneHandles ==
    ASSUME TypeInv, LaneInv, Authorize \/ Begin \/ Acknowledge \/ InsertSubmissionAttempt
                             \/ (Advance /\ hold'.at = "complete")
    PROVE  LaneInv'
<1>1. UNCHANGED <<commands, attempts, closures>> /\ hold.cmd \in DOMAIN commands
  BY HoldFacts DEF Authorize, Begin, Acknowledge, InsertSubmissionAttempt, Advance
<1>2. CASE Begin
  <2>1. \A c \in workers' : TypeOf(c) \in LaneB /\ Fresh(c)
    BY <1>2, WorkersFresh DEF Begin, LaneInv, PlaceInv
  <2> QED
    BY <1>1, <1>2, <2>1, LaneRests DEF Begin, Release
<1>3. CASE ~Begin
  <2>1. /\ workers' = workers /\ hold'.cmd = hold.cmd /\ hold'.verdict = hold.verdict
        /\ \/ /\ hold.at = "sealed"
              /\ hold'.at = IF TypeOf(hold.cmd) \in LaneB THEN "begin" ELSE "check"
           \/ hold.at = "ack" /\ hold'.at = "close"
           \/ hold.at = "advance" /\ hold'.at = "complete"
           \/ hold.at = "complete" /\ hold'.at = "submit"
    BY <1>3 DEF Authorize, Begin, Acknowledge, InsertSubmissionAttempt, Advance, Release, Idle,
                TypeInv, TypeOK
  <2>2. TypeOf(hold.cmd) \in LaneA <=> TypeOf(hold.cmd) \notin LaneB
    BY <1>1, Lanes
  <2>3. PlaceInv'
    BY <1>1, <2>1, <2>2, RecordsKept DEF LaneInv, PlaceInv, Fresh, TypeOf
  <2>4. ChainInv'
    <3>1. Closings(hold.cmd)' = Closings(hold.cmd) /\ AttemptsOf(hold.cmd)' = AttemptsOf(hold.cmd)
      BY <1>1, <2>1 DEF Closings, AttemptsOf
    <3> QED
      BY <1>1, <2>1, <3>1, ChainQuiet DEF LaneInv, ChainInv, ChainKept
  <2> QED
    BY <2>3, <2>4 DEF LaneInv
<1> QED
  BY <1>2, <1>3

\* An attempt is recorded where none was.
LEMMA ChainAttempt ==
    ASSUME TypeInv, LaneInv, NEW c \in DOMAIN commands, AttemptsOf(c) = {}, RecordAttempt(c),
           UNCHANGED <<commands, closures>>
    PROVE  ChainKept'
<1>1. \A d : AttemptsOf(d)' = IF d = c THEN AttemptsOf(d) \cup {Len(attempts) + 1}
                              ELSE AttemptsOf(d)
  BY AttemptAdds
<1>2. \A d : Closings(d)' = Closings(d)
  BY RecordsKept
<1> QED
  BY <1>1, <1>2 DEF LaneInv, ChainInv, ChainKept, Succeeded

\* Lane A checks the sealed bytes, and records the attempt.
LEMMA LaneChecks ==
    ASSUME TypeInv, LaneInv, Check
    PROVE  LaneInv'
<1> DEFINE c == hold.cmd
<1>1. /\ c \in DOMAIN commands /\ RecordAttempt(c) /\ UNCHANGED <<commands, closures, workers>>
      /\ c \notin workers /\ AttemptsOf(c) = {} /\ Closings(c) = {} /\ TypeOf(c) \in LaneA
      /\ hold.at = "check"
  BY HoldFacts DEF Check, LaneInv, PlaceInv, Fresh
<1>2. (hold'.at = "idle") \/ (hold'.at = "ack" /\ hold'.cmd = c)
  <2>1. \/ hold' = Idle
        \/ hold' = [hold EXCEPT !.at = "ack",
                       !.verdict = [Source(hold.cmd) EXCEPT !.status = "succeeded"]]
    BY DEF Check, Release
  <2>2. hold \in [at : HoldPoint, cmd : 0 .. Len(commands), verdict : Verdict] /\ Idle.at = "idle"
    BY DEF TypeInv, TypeOK, Idle
  <2> QED
    BY <2>1, <2>2
<1>3. \A d : AttemptsOf(d)' = IF d = c THEN AttemptsOf(d) \cup {Len(attempts) + 1}
                              ELSE AttemptsOf(d)
  BY <1>1, AttemptAdds
<1>4. \A d : Closings(d)' = Closings(d)
  BY <1>1, RecordsKept
<1>5. ChainKept'
  BY <1>1, ChainAttempt
<1>6. \A d \in workers : d # c /\ TypeOf(d) \in LaneB /\ Fresh(d)
  BY <1>1, WorkersFresh
<1>7. PlaceInv'
  BY <1>1, <1>2, <1>3, <1>4, <1>6 DEF PlaceInv, Fresh, TypeOf
<1>8. ChainInv'
  <2>1. CASE hold'.at = "idle"
    BY <1>5, <2>1 DEF ChainInv, ChainKept
  <2>2. CASE hold'.at = "ack" /\ hold'.cmd = c
    <3>1. Closings(c)' = {} /\ AttemptsOf(c)' # {}
      BY <1>1, <1>3, <1>4, <2>2 DEF Closings, AttemptsOf
    <3> QED
      BY <1>5, <2>2, <3>1 DEF ChainInv, ChainKept
  <2> QED
    BY <1>2, <2>1, <2>2
<1> QED
  BY <1>7, <1>8 DEF LaneInv

\* A worker whose agent returned has the event loop.
LEMMA LaneReturns ==
    ASSUME TypeInv, LaneInv, NEW c \in DOMAIN commands,
           WorkerReturns(c) \/ WorkerWithdraws(c) \/ PreservationFault(c)
    PROVE  LaneInv'
<1>1. /\ c \in workers /\ c # 0 /\ hold.at = "idle" /\ UNCHANGED <<commands, closures, workers>>
      /\ TypeOf(c) \in LaneB /\ Fresh(c)
      /\ TypeOf(c) \notin LaneA
  <2>1. c \in workers /\ hold.at = "idle" /\ UNCHANGED <<commands, closures, workers>>
    BY DEF WorkerReturns, WorkerWithdraws, PreservationFault, Free
  <2> QED
    BY <2>1, WorkersFresh, Lanes
<1>2. /\ hold'.at = "close" /\ hold'.cmd = c
      /\ RecordAttempt(c) \/ (attempts' = attempts /\ hold'.verdict.status # "succeeded")
  <2>1. CASE WorkerReturns(c)
    BY <2>1 DEF WorkerReturns
  <2>2. CASE WorkerWithdraws(c)
    BY <2>2 DEF WorkerWithdraws, Withdrawn, NoVerdict
  <2>3. CASE PreservationFault(c)
    BY <2>3 DEF PreservationFault, NoVerdict
  <2> QED
    BY <2>1, <2>2, <2>3
<1>3. ChainKept'
  BY <1>1, <1>2, ChainAttempt, ChainQuiet DEF LaneInv, Fresh
<1>4. \A d : Closings(d)' = Closings(d)
  BY <1>1, RecordsKept
<1>5. /\ \A d : d # c => AttemptsOf(d)' = AttemptsOf(d)
      /\ RecordAttempt(c) => AttemptsOf(c)' # {}
  <2>1. CASE RecordAttempt(c)
    BY <2>1, AttemptAdds
  <2>2. CASE attempts' = attempts
    BY <2>2 DEF AttemptsOf, RecordAttempt
  <2> QED
    BY <1>2, <2>1, <2>2
<1>6. \A d \in workers : TypeOf(d) \in LaneB /\ Fresh(d)
  BY <1>1, WorkersFresh
<1>7. PlaceInv'
  BY <1>1, <1>2, <1>4, <1>5, <1>6 DEF PlaceInv, Fresh, TypeOf
<1>8. ChainInv'
  <2>1. Closings(hold.cmd)' = {}
    BY <1>1, <1>2 DEF Closings, Fresh
  <2>2. hold'.verdict.status = "succeeded" => AttemptsOf(hold.cmd)' # {}
    <3>1. hold'.verdict.status = "succeeded" => RecordAttempt(c)
      BY <1>2
    <3> QED
      BY <1>2, <1>5, <3>1 DEF AttemptsOf
  <2> QED
    BY <1>2, <1>3, <2>1, <2>2 DEF ChainInv, ChainKept
<1> QED
  BY <1>7, <1>8 DEF LaneInv

\* The correction is closed where it was not.
LEMMA LaneCloses ==
    ASSUME TypeInv, LaneInv, Close
    PROVE  LaneInv'
<1> DEFINE c == hold.cmd
           e == [role |-> commands[c].role, cmd |-> c, verdict |-> hold.verdict]
<1>1. /\ c \in DOMAIN commands /\ c # 0 /\ hold.at = "close" /\ closures' = Append(closures, e)
      /\ UNCHANGED <<commands, attempts, workers>> /\ Closings(c) = {}
      /\ hold.verdict.status = "succeeded" => AttemptsOf(c) # {}
      /\ TypeOf(c) \in LaneB => c \in workers
      /\ TypeOf(c) \in LaneA <=> TypeOf(c) \notin LaneB
  <2>1. c \in DOMAIN commands /\ c # 0 /\ hold.at = "close"
    BY HoldFacts DEF Close
  <2> QED
    BY <2>1, Lanes DEF Close, LaneInv, PlaceInv, ChainInv
<1>2. e \in Closure /\ e.cmd = c /\ e.verdict = hold.verdict
  <2>1. commands[c] \in Command /\ c \in Nat /\ hold.verdict \in Verdict
    BY <1>1, HoldFacts
  <2> QED
    BY <2>1 DEF Closure, Command
<1>3. /\ hold'.cmd = c
      /\ hold'.at = IF TypeOf(c) \in LaneA THEN "advance"
                  ELSE IF hold.verdict.status = "succeeded" THEN "complete"
                  ELSE "count"
  BY DEF Close, TypeInv, TypeOK
<1> HIDE DEF e
<1>4. \A d : AttemptsOf(d)' = AttemptsOf(d)
  BY <1>1, RecordsKept
<1>5. \A d : Closings(d)' = IF d = c THEN {Len(closures) + 1} ELSE Closings(d)
  BY <1>1, <1>2, ClosureAdds
<1>6. /\ DOMAIN closures' = DOMAIN closures \cup {Len(closures) + 1}
      /\ \A k \in DOMAIN closures : closures'[k] = closures[k]
      /\ closures'[Len(closures) + 1] = e
  BY <1>1, <1>2, ClosureFacts
<1>7. ChainKept'
  <2>1. \A d \in DOMAIN commands' :
          /\ \A a, b \in AttemptsOf(d)' : a = b
          /\ \A j, k \in Closings(d)' : j = k
    BY <1>1, <1>4, <1>5 DEF LaneInv, ChainInv
  <2>2. ASSUME NEW k \in DOMAIN closures', closures'[k].verdict.status = "succeeded",
               closures'[k].cmd # 0
        PROVE  AttemptsOf(closures[k].cmd)' # {}
    <3>1. CASE k = Len(closures) + 1
      <4>1. closures'[k].cmd = c /\ AttemptsOf(c) # {}
        BY <1>1, <1>2, <1>6, <2>2, <3>1
      <4> QED
        BY <1>4, <4>1
    <3>2. CASE k \in DOMAIN closures
      <4>1. closures'[k] = closures[k] /\ AttemptsOf(closures[k].cmd) # {}
        BY <1>6, <2>2, <3>2 DEF LaneInv, ChainInv, Succeeded
      <4> QED
        BY <1>4, <4>1
    <3> QED
      BY <1>6, <3>1, <3>2
  <2> QED
    BY <2>1, <2>2 DEF ChainKept, Succeeded
<1>8. \A d \in workers : TypeOf(d) \in LaneB /\ (d = c \/ Fresh(d))
  BY <1>1 DEF LaneInv, PlaceInv
<1>9. PlaceInv'
  BY <1>1, <1>3, <1>4, <1>5, <1>8 DEF PlaceInv, Fresh, TypeOf
<1>10. ChainInv'
  BY <1>3, <1>7 DEF ChainInv, ChainKept
<1> QED
  BY <1>9, <1>10 DEF LaneInv

\* A role closes for itself: none of the commands is concerned.
LEMMA LaneOfRoles ==
    ASSUME TypeInv, LaneInv, NEW r \in Role, RoleCloses(r)
    PROVE  LaneInv'
<1>1. PICK e \in Closure : e.cmd = 0 /\ closures' = Append(closures, e)
  <2>1. PICK sealed \in SUBSET OutputsOf(r), result \in {"succeeded", "failed"} :
          closures' = Append(closures, [role |-> r, cmd |-> 0,
                    verdict |-> [status |-> result, sealed |-> sealed, strayed |-> {}]])
    BY DEF RoleCloses
  <2>2. [role |-> r, cmd |-> 0,
         verdict |-> [status |-> result, sealed |-> sealed, strayed |-> {}]] \in Closure
    BY DEF Closure, Verdict, OutputsOf
  <2> QED
    BY <2>1, <2>2
<1>2. UNCHANGED <<commands, attempts, workers, hold>> /\ hold.at = "idle"
  BY DEF RoleCloses, Free
<1>3. \A d : AttemptsOf(d)' = AttemptsOf(d)
  BY <1>2, RecordsKept
<1>4. \A d : d # 0 => Closings(d)' = Closings(d)
  BY <1>1, ClosureAdds
<1>5. /\ DOMAIN closures' = DOMAIN closures \cup {Len(closures) + 1}
      /\ \A k \in DOMAIN closures : closures'[k] = closures[k]
      /\ closures'[Len(closures) + 1] = e
  BY <1>1, ClosureFacts
<1>6. \A c \in workers : TypeOf(c) \in LaneB /\ Fresh(c) /\ c # 0
  BY <1>2, WorkersFresh
<1>7. PlaceInv'
  BY <1>2, <1>3, <1>4, <1>6 DEF PlaceInv, Fresh, TypeOf
<1>8. ChainInv'
  <2>1. \A d \in DOMAIN commands : d # 0
    BY HoldFacts
  <2>2. \A k \in DOMAIN closures' :
          Succeeded(k)' /\ closures'[k].cmd # 0 => AttemptsOf(closures[k].cmd)' # {}
    BY <1>1, <1>3, <1>5 DEF LaneInv, ChainInv, Succeeded
  <2> QED
    BY <1>2, <1>3, <1>4, <2>1, <2>2 DEF LaneInv, ChainInv
<1> QED
  BY <1>7, <1>8 DEF LaneInv

\* At first nothing is on record.
LEMMA LaneInit == Init => LaneInv
BY DEF Init, LaneInv, PlaceInv, ChainInv, AttemptsOf, Closings, Idle

\* Each step keeps the invariant of the lane.
LEMMA LaneStep == TypeInv /\ LaneInv /\ [Next]_vars => LaneInv'
<1> SUFFICES ASSUME TypeInv, LaneInv, [Next]_vars PROVE LaneInv'
  OBVIOUS
<1>1. CASE HandlerStep
  <2>1. Advance => Release \/ hold'.at = "complete"
    BY DEF Advance, TypeInv, TypeOK
  <2> QED
    BY <1>1, <2>1, LaneHandles, LaneChecks, LaneCloses, LaneEnds DEF HandlerStep
<1>2. CASE PipelineStep
  BY <1>2, LaneOfRoles, LaneFree DEF PipelineStep
<1>3. ASSUME NEW c \in 1 .. Len(commands), WorkerStep(c) \/ WorkerFault(c) \/ PreservationFault(c)
      PROVE  LaneInv'
  <2>1. c \in DOMAIN commands
    BY HoldFacts
  <2> QED
    BY <1>3, <2>1, LaneFree, LaneReturns DEF WorkerStep
<1>4. CASE UNCHANGED vars
  <2>1. UNCHANGED <<commands, attempts, closures, hold, workers>>
    BY <1>4 DEF vars
  <2> QED
    BY <2>1, RecordsKept DEF LaneInv, PlaceInv, ChainInv, Fresh, TypeOf, Succeeded
<1> QED
  BY <1>1, <1>2, <1>3, <1>4, LaneRequests, LaneEnds, LaneFree DEF Next

-----------------------------------------------------------------------------
(* A submission lists the corrections.                                     *)

\* A pass that is half on record is the current one.
SubmitInv ==
    hold.at = "submit" => \A r \in Role : Complete(r) /\ submitted[r] = Existing(r)

\* What load_existing finds for a role among closures cs and attempts as.
ExistingIn(cs, as, r) ==
    LET of(c) == {a \in DOMAIN as : as[a] = c}
        corrections == {k \in DOMAIN cs : cs[k].role = r /\ cs[k].verdict.status = "succeeded"
                                            /\ of(cs[k].cmd) # {}}
        bases == {k \in DOMAIN cs : cs[k].role = r /\ cs[k].cmd = 0}
        newest == CHOOSE k \in corrections :
                    \A j \in corrections : Max(of(cs[k].cmd)) >= Max(of(cs[j].cmd))
    IN  IF corrections # {} THEN newest ELSE Max(bases \cup {0})

\* It depends on the closures and the attempts alone.
LEMMA ExistingKept ==
    ASSUME UNCHANGED <<closures, attempts>>
    PROVE  \A r : Existing(r)' = Existing(r) /\ (Complete(r)' <=> Complete(r))
<1> SUFFICES ASSUME NEW r PROVE Existing(r)' = Existing(r) /\ (Complete(r)' <=> Complete(r))
  OBVIOUS
<1>1. Existing(r) = ExistingIn(closures, attempts, r)
  BY Zenon DEF Existing, ExistingIn, Corrections, BaseClosures, Succeeded, AttemptsOf
<1>2. Existing(r)' = ExistingIn(closures', attempts', r)
  BY Zenon DEF Existing, ExistingIn, Corrections, BaseClosures, Succeeded, AttemptsOf
<1>3. Existing(r)' = Existing(r)
  BY <1>1, <1>2
<1> QED
  BY <1>3 DEF Complete, Succeeded

\* Only the row of a later submission leaves a pass half on record, and only the
\* status that follows it or a crash is next.
LEMMA SubmitStep == TypeInv /\ SubmitInv /\ [Next]_vars => SubmitInv'
<1> SUFFICES ASSUME TypeInv, SubmitInv, [Next]_vars, hold'.at = "submit"
             PROVE  \A r \in Role : Complete(r)' /\ submitted'[r] = Existing(r)'
  BY DEF SubmitInv
<1> USE DEF Idle
<1>1. CASE InsertSubmissionAttempt
  <2>1. UNCHANGED <<closures, attempts>> /\ submitted' = Chain /\ \A r \in Role : Complete(r)
    BY <1>1 DEF InsertSubmissionAttempt
  <2> QED
    BY <2>1, ExistingKept DEF Chain
<1>2. CASE UNCHANGED vars
  <2>1. UNCHANGED <<closures, attempts, submitted, hold>>
    BY <1>2 DEF vars
  <2> QED
    BY <2>1, ExistingKept DEF SubmitInv
<1>3. CASE HandlerStep /\ ~InsertSubmissionAttempt
  <2>1. \/ hold' = Idle
        \/ \E p \in {"begin", "check", "close", "advance", "complete", "count"} :
              hold' = [hold EXCEPT !.at = p]
        \/ hold' = [hold EXCEPT !.at = "ack",
                      !.verdict = [Source(hold.cmd) EXCEPT !.status = "succeeded"]]
    BY <1>3 DEF HandlerStep, Authorize, Begin, Check, Acknowledge, Close, Count, Advance, Resume,
                SealSubmission, Resubmit, PassRefused, Release
  <2>2. hold \in [at : HoldPoint, cmd : 0 .. Len(commands), verdict : Verdict]
    BY DEF TypeInv, TypeOK
  <2>3. \A p : [hold EXCEPT !.at = p].at = p
    BY <2>2
  <2>4. \A v : [hold EXCEPT !.at = "ack", !.verdict = v].at = "ack"
    BY <2>2
  <2>5. CASE hold' = [hold EXCEPT !.at = "ack",
                        !.verdict = [Source(hold.cmd) EXCEPT !.status = "succeeded"]]
    BY <2>4, <2>5
  <2>6. ASSUME NEW p \in {"begin", "check", "close", "advance", "complete", "count"},
               hold' = [hold EXCEPT !.at = p]
        PROVE  FALSE
    <3>1. hold'.at = p
      BY <2>3, <2>6
    <3> QED
      BY <3>1
  <2>7. hold' # Idle
    OBVIOUS
  <2> QED
    BY <2>1, <2>5, <2>6, <2>7
<1>4. ASSUME NEW c \in 1 .. Len(commands), WorkerStep(c) \/ WorkerFault(c) \/ PreservationFault(c)
      PROVE  FALSE
  BY <1>4 DEF WorkerStep, Launch, WorkerReturns, WorkerWithdraws, WorkerTurnedAway, WorkerFault,
              PreservationFault, Free
<1>5. CASE PipelineStep \/ Cancel \/ Untrack \/ CloseFault \/ Crash
  BY <1>5 DEF PipelineStep, RoleCloses, StageFails, RunSubmits, RunJudged, Settle, Cancel, Untrack,
              CloseFault, Crash, Release, Free
<1>6. CASE Restart
  BY <1>6 DEF Restart, TypeInv, RecordInv
<1>7. ASSUME NEW t \in CorrectionType, NEW scope \in SUBSET Output \ {{}}, RequestCorrection(t, scope)
      PROVE  FALSE
  BY <1>7 DEF RequestCorrection
<1> QED
  BY <1>1, <1>2, <1>3, <1>4, <1>5, <1>6, <1>7 DEF Next

\* The three ways to a submission list what is current.
LEMMA SubmissionLists ==
    TypeInv /\ SubmitInv /\ [Next]_vars =>
        (status # "submitted" /\ status' = "submitted" =>
            \A r \in Role : Complete(r)' /\ submitted'[r] = Existing(r)')
<1> SUFFICES ASSUME TypeInv, SubmitInv, [Next]_vars, status # "submitted", status' = "submitted"
             PROVE  \A r \in Role : Complete(r)' /\ submitted'[r] = Existing(r)'
  OBVIOUS
<1>1. CASE SealSubmission
  <2>1. UNCHANGED <<closures, attempts>> /\ submitted' = Chain /\ \A r \in Role : Complete(r)
    BY <1>1 DEF SealSubmission
  <2> QED
    BY <2>1, ExistingKept DEF Chain
<1>2. CASE RunSubmits
  <2>1. UNCHANGED <<closures, attempts>> /\ submitted' = Chain /\ \A r \in Role : Complete(r)
    BY <1>2 DEF RunSubmits
  <2> QED
    BY <2>1, ExistingKept DEF Chain
<1>3. CASE Resubmit
  <2>1. UNCHANGED <<closures, attempts, submitted>> /\ hold.at = "submit"
    BY <1>3 DEF Resubmit
  <2> QED
    BY <2>1, ExistingKept DEF SubmitInv
<1>4. HandlerStep => SealSubmission \/ Resubmit
  BY DEF HandlerStep, Authorize, Begin, Check, Acknowledge, Close, Count, Advance, Resume,
         InsertSubmissionAttempt, PassRefused, MoveRun
<1>5. PipelineStep => RunSubmits
  BY DEF PipelineStep, RoleCloses, StageFails, RunJudged, Settle, MoveRun
<1>6. ASSUME NEW c \in 1 .. Len(commands), WorkerStep(c) \/ WorkerFault(c) \/ PreservationFault(c)
      PROVE  FALSE
  BY <1>6 DEF WorkerStep, Launch, WorkerReturns, WorkerWithdraws, WorkerTurnedAway, WorkerFault,
              PreservationFault
<1>7. ~ (Cancel \/ Untrack \/ CloseFault \/ Crash \/ Restart \/ UNCHANGED vars)
  BY DEF Cancel, Untrack, CloseFault, Crash, Restart, MoveRun, vars
<1>8. ASSUME NEW t \in CorrectionType, NEW scope \in SUBSET Output \ {{}}, RequestCorrection(t, scope)
      PROVE  FALSE
  BY <1>8 DEF RequestCorrection
<1> QED
  BY <1>1, <1>2, <1>3, <1>4, <1>5, <1>6, <1>7, <1>8 DEF Next

\* A run is submitted with a document that lists the current succeeded closure
\* of every role, whichever of the three ways it takes and wherever the server
\* crashed (_complete_correction_pass, seal_correction_submission).
THEOREM SubmissionAlwaysListsCorrections == Spec => SubmissionListsCorrections
<1>1. Init => SubmitInv
  BY DEF Init, SubmitInv, Idle
<1>2. TypeInv /\ SubmitInv /\ [Next]_vars =>
        [status # "submitted" /\ status' = "submitted" =>
            \A r \in Role : Complete(r)' /\ submitted'[r] = Existing(r)']_vars
  BY SubmissionLists
<1> QED
  BY TypeInit, TypeStep, SubmitStep, <1>1, <1>2, PTL DEF Spec, SubmissionListsCorrections

-----------------------------------------------------------------------------
(* Each bounded correction is judged once.                                 *)

\* The attempts of a type.
SpentOn(t) == {a \in DOMAIN attempts : TypeOf(attempts[a]) = t}

\* No other bounded correction passes the gates while c is at work: another of
\* its type has its identity, and the other type is spent.
Barred(c) ==
    /\ TypeOf(c) \in issued
    /\ \A t \in LaneB \ {TypeOf(c)} : SpentOn(t) # {}

\* The handler of a bounded correction has yet to detach its worker.
Starting == hold.at \in {"sealed", "begin"} /\ TypeOf(hold.cmd) \in LaneB

\* One worker at most is at work, in a run that is being corrected, and either
\* the entry of the run is its own or nothing else can start.
WorkBound ==
    \A c \in workers :
        /\ status = "correcting" /\ ~Starting
        /\ \A d \in workers : d = c
        /\ Barred(c) \/ (tracked = c /\ ~callback)
        /\ AttemptsOf(c) = {} => SpentOn(TypeOf(c)) = {}

\* What whoever has the event loop relies on.
HoldBound ==
    /\ Starting => SpentOn(TypeOf(hold.cmd)) = {} /\ (callback => Barred(hold.cmd))
    /\ hold.at \in {"close", "count"} => AttemptsOf(hold.cmd) # {}
    /\ hold.at \in {"close", "count"} /\ TypeOf(hold.cmd) \in LaneB => ~callback
    /\ hold.at \in {"complete", "submit"} =>
          ~callback /\ status = "correcting" /\ (TypeOf(hold.cmd) \in LaneA => workers = {})

\* A done callback is that of a judged worker, and a type is judged once.
SpentBound ==
    /\ callback => status = "correcting" /\ \E t \in LaneB : SpentOn(t) # {}
    /\ \A t \in LaneB : \A a, b \in SpentOn(t) : a = b

\* All of this until a write of a worker is lost.
BoundInv == faults = 0 => WorkBound /\ HoldBound /\ SpentBound

\* Spent counts the attempts of a type.
LEMMA SpentCounts ==
    ASSUME TypeInv, NEW t
    PROVE  /\ Spent(t) \in Nat
           /\ Spent(t) < 1 <=> SpentOn(t) = {}
           /\ (\A a, b \in SpentOn(t) : a = b) => Spent(t) <= 1
<1>1. Spent(t) = Cardinality(SpentOn(t))
  BY DEF Spent, SpentOn, TypeOf
<1>2. IsFiniteSet(SpentOn(t))
  <2>1. IsFiniteSet(1 .. Len(attempts)) /\ SpentOn(t) \in SUBSET (1 .. Len(attempts))
    BY FS_Interval, HoldFacts DEF SpentOn
  <2> QED
    BY <2>1, FS_Subset
<1>3. Cardinality(SpentOn(t)) \in Nat
  BY <1>2, FS_CardinalityType
<1>4. Cardinality(SpentOn(t)) = 0 <=> SpentOn(t) = {}
  BY <1>2, FS_EmptySet
<1>5. ASSUME \A a, b \in SpentOn(t) : a = b PROVE Cardinality(SpentOn(t)) <= 1
  <2>1. CASE SpentOn(t) = {}
    BY <1>4, <2>1
  <2>2. CASE SpentOn(t) # {}
    <3>1. PICK a \in SpentOn(t) : TRUE
      BY <2>2
    <3>2. SpentOn(t) = {a}
      BY <1>5, <3>1
    <3>3. Cardinality({a}) = 1
      BY FS_Singleton
    <3> QED
      BY <3>2, <3>3
  <2> QED
    BY <2>1, <2>2
<1> QED
  BY <1>1, <1>3, <1>4, <1>5

\* A step that judges nothing.
LEMMA SpentKept ==
    ASSUME UNCHANGED <<commands, attempts>>
    PROVE  \A t : SpentOn(t)' = SpentOn(t)
BY DEF SpentOn, TypeOf

\* Two types of correction are bounded.
LEMMA OtherType ==
    ASSUME NEW t \in LaneB, NEW u \in LaneB, t # u
    PROVE  LaneB \ {t} = {u}
BY DEF LaneB

\* A step after which nobody works.
LEMMA BoundRests ==
    ASSUME TypeInv, WorkBound, HoldBound, SpentBound, UNCHANGED <<commands, attempts>>,
           hold' = Idle, workers' = {},
           callback' => status' = "correcting" /\ \E t \in LaneB : SpentOn(t) # {}
    PROVE  WorkBound' /\ HoldBound' /\ SpentBound'
<1>1. hold'.at = "idle"
  BY DEF Idle
<1>2. SpentBound'
  BY SpentKept DEF SpentBound
<1> QED
  BY <1>1, <1>2 DEF WorkBound, HoldBound, Starting

\* A step of whoever has the event loop that touches neither status nor tasks.
LEMMA BoundKeeps ==
    ASSUME TypeInv, WorkBound, HoldBound, SpentBound,
           UNCHANGED <<commands, attempts, status, issued, workers, tracked, callback>>,
           hold' = Idle \/ hold'.cmd = hold.cmd,
           Starting' => Starting,
           HoldBound'
    PROVE  WorkBound' /\ HoldBound' /\ SpentBound'
<1>1. \A t : SpentOn(t)' = SpentOn(t)
  BY SpentKept
<1>2. \A c : AttemptsOf(c)' = AttemptsOf(c) /\ (Barred(c)' <=> Barred(c))
  BY <1>1, RecordsKept DEF Barred, TypeOf
<1>3. SpentBound'
  BY <1>1 DEF SpentBound
<1>4. WorkBound'
  BY <1>1, <1>2 DEF WorkBound, TypeOf
<1> QED
  BY <1>3, <1>4

\* The run of a worker is not moved by others, and no callback is due then.
LEMMA BoundFree ==
    ASSUME TypeInv, WorkBound, HoldBound, SpentBound,
           \/ \E r \in Role : RoleCloses(r)
           \/ StageFails \/ RunSubmits \/ RunJudged \/ Settle \/ Cancel \/ Crash \/ Restart
    PROVE  WorkBound' /\ HoldBound' /\ SpentBound'
<1>1. UNCHANGED <<commands, attempts>> /\ hold' = Idle
  BY DEF RoleCloses, StageFails, RunSubmits, RunJudged, Settle, Cancel, Crash, Restart,
         Free, TypeInv, RecordInv
<1>2. CASE Crash
  BY <1>1, <1>2, BoundRests DEF Crash
<1>3. CASE Restart
  BY <1>1, <1>3, BoundRests DEF Restart, TypeInv, RecordInv
<1>4. CASE ~Crash /\ ~Restart
  <2>1. status # "correcting" /\ UNCHANGED tasks /\ ~callback
    BY <1>4 DEF RoleCloses, StageFails, RunSubmits, RunJudged, Settle, Cancel, Free
  <2>2. workers = {}
    BY <2>1 DEF WorkBound
  <2> QED
    BY <1>1, <2>1, <2>2, BoundRests
<1> QED
  BY <1>2, <1>3, <1>4

\* A bounded correction is sealed only while no worker is at work.
LEMMA BoundRequests ==
    ASSUME TypeInv, LaneInv, WorkBound, HoldBound, SpentBound,
           NEW t \in CorrectionType, NEW scope, RequestCorrection(t, scope)
    PROVE  WorkBound' /\ HoldBound' /\ SpentBound'
<1> DEFINE n == Len(commands) + 1
           e == [type |-> t, target |-> Target(scope),
                 role |-> closures[Target(scope)].role, scope |-> scope]
<1>1. /\ hold' = [Idle EXCEPT !.at = "sealed", !.cmd = n] /\ commands' = Append(commands, e)
      /\ UNCHANGED <<status, attempts, tasks>> /\ issued' = issued \cup {t}
      /\ t \notin issued /\ ~InFlight /\ WithinBounds(t)
  BY DEF RequestCorrection
<1>2. /\ hold'.at = "sealed" /\ hold'.cmd = n
      /\ \A c \in DOMAIN commands : commands'[c] = commands[c]
      /\ commands'[n] = e
  <2>1. commands \in Seq(Command) /\ Len(commands) \in Nat /\ DOMAIN commands = 1 .. Len(commands)
    BY HoldFacts DEF TypeInv, TypeOK
  <2> HIDE DEF e
  <2> QED
    BY <1>1, <2>1 DEF Idle
<1>3. e.type = t
  OBVIOUS
<1> HIDE DEF n, e
<1>4. \A u : SpentOn(u)' = SpentOn(u)
  <2>1. \A a \in DOMAIN attempts : attempts[a] \in DOMAIN commands
    BY HoldFacts, ElementOfSeq DEF TypeInv, TypeOK
  <2> QED
    BY <1>1, <1>2, <2>1 DEF SpentOn, TypeOf
<1>5. \A c \in workers : c \in DOMAIN commands /\ TypeOf(c)' = TypeOf(c) /\ TypeOf(c) \in LaneB
  BY <1>2, HoldFacts DEF TypeOf, LaneInv, PlaceInv
<1>6. t \in LaneB => SpentOn(t) = {}
  BY <1>1, SpentCounts DEF WithinBounds, MaxAttempts
<1>7. t \in LaneB => workers = {}
  <2> SUFFICES ASSUME t \in LaneB, NEW c \in workers PROVE FALSE
    OBVIOUS
  <2>1. tracked # c
    BY <1>1 DEF InFlight
  <2>2. Barred(c)
    BY <2>1 DEF WorkBound
  <2>3. t # TypeOf(c)
    BY <1>1, <2>2 DEF Barred
  <2> QED
    BY <1>6, <2>2, <2>3 DEF Barred
<1>8. Starting' <=> t \in LaneB
  BY <1>2, <1>3 DEF Starting, TypeOf
<1>9. WorkBound'
  <2> SUFFICES ASSUME NEW c \in workers
               PROVE  /\ status' = "correcting" /\ ~Starting'
                      /\ \A d \in workers : d = c
                      /\ Barred(c)' \/ (tracked' = c /\ ~callback')
                      /\ AttemptsOf(c)' = {} => SpentOn(TypeOf(c))' = {}
    BY <1>1 DEF WorkBound
  <2>1. AttemptsOf(c)' = AttemptsOf(c) /\ SpentOn(TypeOf(c))' = SpentOn(TypeOf(c))
    <3>1. AttemptsOf(c)' = AttemptsOf(c)
      BY <1>1, RecordsKept
    <3>2. TypeOf(c)' = TypeOf(c)
      BY <1>5
    <3>3. SpentOn(TypeOf(c))' = SpentOn(TypeOf(c))
      BY <1>4, <3>2 DEF SpentOn
    <3> QED
      BY <3>1, <3>3
  <2>2. Barred(c) => Barred(c)'
    BY <1>1, <1>4, <1>5 DEF Barred
  <2> QED
    BY <1>1, <1>7, <1>8, <2>1, <2>2 DEF WorkBound
<1>10. HoldBound'
  <2> SUFFICES ASSUME t \in LaneB
               PROVE  SpentOn(TypeOf(hold.cmd))' = {} /\ (callback' => Barred(hold.cmd)')
    BY <1>2, <1>8 DEF HoldBound
  <2>1. TypeOf(hold.cmd)' = t
    BY <1>2, <1>3 DEF TypeOf
  <2>2. SpentOn(TypeOf(hold.cmd))' = {}
    BY <1>4, <1>6, <2>1 DEF SpentOn
  <2>3. ASSUME callback' PROVE Barred(hold.cmd)'
    <3>1. PICK u \in LaneB : SpentOn(u) # {}
      BY <1>1, <2>3 DEF SpentBound
    <3>2. LaneB \ {t} = {u}
      BY <1>6, <3>1, OtherType
    <3>3. \A v \in LaneB \ {t} : SpentOn(v)' # {}
      BY <1>4, <3>1, <3>2
    <3> QED
      BY <1>1, <2>1, <3>3 DEF Barred
  <2> QED
    BY <2>2, <2>3
<1>11. SpentBound'
  BY <1>1, <1>4 DEF SpentBound
<1> QED
  BY <1>9, <1>10, <1>11

\* The handler goes on, and its worker becomes the one at work.
LEMMA BoundHandles ==
    ASSUME TypeInv, LaneInv, WorkBound, HoldBound, SpentBound, Authorize \/ Begin \/ Acknowledge
    PROVE  WorkBound' /\ HoldBound' /\ SpentBound'
<1> DEFINE c == hold.cmd
<1>1. UNCHANGED <<commands, attempts>> /\ c \in DOMAIN commands
  BY HoldFacts DEF Authorize, Begin, Acknowledge
<1>2. /\ \A t : SpentOn(t)' = SpentOn(t)
      /\ \A d : AttemptsOf(d)' = AttemptsOf(d)
      /\ issued' = issued => \A d : Barred(d)' <=> Barred(d)
  BY <1>1, SpentKept, RecordsKept DEF Barred, TypeOf
<1>3. hold \in [at : HoldPoint, cmd : 0 .. Len(commands), verdict : Verdict]
  BY DEF TypeInv, TypeOK
<1>4. CASE Authorize
  <2>1. /\ hold.at = "sealed" /\ hold'.cmd = c
        /\ hold'.at = IF TypeOf(c) \in LaneB THEN "begin" ELSE "check"
        /\ UNCHANGED tasks
        /\ UNCHANGED <<status, issued>> \/ (status # "correcting" /\ status' # "correcting")
    BY <1>3, <1>4 DEF Authorize, MoveRun
  <2>2. Starting' <=> Starting
    BY <1>1, <2>1 DEF Starting, TypeOf
  <2>3. callback => UNCHANGED <<status, issued>>
    BY <2>1 DEF SpentBound
  <2>4. workers # {} => UNCHANGED <<status, issued>>
    BY <2>1 DEF WorkBound
  <2>5. HoldBound'
    <3>1. Starting' => SpentOn(TypeOf(hold.cmd))' = {} /\ (callback' => Barred(hold.cmd)')
      <4>1. SpentOn(TypeOf(hold.cmd))' = SpentOn(TypeOf(hold.cmd))
        BY <1>1, <2>1 DEF SpentOn, TypeOf
      <4>2. callback => (Barred(hold.cmd)' <=> Barred(hold.cmd))
        BY <1>1, <1>2, <2>1, <2>3 DEF Barred, TypeOf
      <4> QED
        BY <2>1, <2>2, <4>1, <4>2 DEF HoldBound
    <3> QED
      BY <2>1, <3>1 DEF HoldBound
  <2>6. WorkBound'
    BY <1>1, <1>2, <2>1, <2>2, <2>4 DEF WorkBound, TypeOf
  <2>7. SpentBound'
    BY <1>2, <2>1, <2>3 DEF SpentBound
  <2> QED
    BY <2>5, <2>6, <2>7
<1>5. CASE Begin
  <2>1. Starting /\ TypeOf(c) \in LaneB
    BY <1>5 DEF Begin, Starting, LaneInv, PlaceInv
  <2>2. workers = {}
    BY <2>1 DEF WorkBound
  <2>3. /\ workers' = {c} /\ tracked' = c /\ status' = "correcting" /\ hold' = Idle
        /\ callback' = callback
        /\ status = "correcting" => issued' = issued
    BY <1>5, <2>2 DEF Begin, Release, MoveRun
  <2>4. hold'.at = "idle" /\ ~Starting'
    BY <2>3 DEF Idle, Starting
  <2>5. callback => Barred(c) /\ issued' = issued
    BY <2>1, <2>3 DEF HoldBound, SpentBound
  <2>6. SpentOn(TypeOf(c)) = {}
    BY <2>1 DEF HoldBound
  <2>7. WorkBound'
    <3> SUFFICES ASSUME NEW d, d = c
                 PROVE  /\ Barred(d)' \/ (tracked' = d /\ ~callback')
                        /\ SpentOn(TypeOf(d))' = {}
      BY <2>3, <2>4 DEF WorkBound
    <3>1. SpentOn(TypeOf(d))' = {}
      BY <1>1, <2>6 DEF SpentOn, TypeOf
    <3>2. callback => Barred(d)'
      BY <1>2, <2>5
    <3> QED
      BY <2>3, <3>1, <3>2
  <2>8. HoldBound'
    BY <2>4 DEF HoldBound
  <2>9. SpentBound'
    BY <1>2, <2>3 DEF SpentBound
  <2> QED
    BY <2>7, <2>8, <2>9
<1>6. CASE Acknowledge
  <2>1. hold.at = "ack" /\ hold'.at = "close" /\ hold'.cmd = c
        /\ UNCHANGED <<status, issued, workers, tracked, callback>>
    BY <1>3, <1>6 DEF Acknowledge
  <2>2. AttemptsOf(c) # {} /\ TypeOf(c) \in LaneA /\ TypeOf(c) \notin LaneB
    BY <1>1, <2>1, Lanes DEF LaneInv, PlaceInv, ChainInv
  <2>3. AttemptsOf(c)' # {} /\ TypeOf(c)' \notin LaneB
    BY <1>1, <2>1, <2>2 DEF AttemptsOf, TypeOf
  <2>4. HoldBound' /\ ~Starting'
    BY <2>1, <2>3 DEF HoldBound, Starting
  <2> QED
    BY <1>1, <2>1, <2>4, BoundKeeps
<1> QED
  BY <1>4, <1>5, <1>6

\* An attempt is one of its type.
LEMMA SpentAdds ==
    ASSUME TypeInv, NEW c \in DOMAIN commands, RecordAttempt(c), commands' = commands
    PROVE  \A t : SpentOn(t)' = IF t = TypeOf(c) THEN SpentOn(t) \cup {Len(attempts) + 1}
                                ELSE SpentOn(t)
BY AttemptFacts DEF SpentOn, TypeOf

\* Lane A checks: none of the bounded types is judged.
LEMMA BoundChecks ==
    ASSUME TypeInv, LaneInv, WorkBound, HoldBound, SpentBound, Check
    PROVE  WorkBound' /\ HoldBound' /\ SpentBound'
<1> DEFINE c == hold.cmd
<1>1. /\ c \in DOMAIN commands /\ RecordAttempt(c)
      /\ UNCHANGED <<commands, status, issued, workers, tracked, callback>>
      /\ c \notin workers /\ TypeOf(c) \in LaneA /\ TypeOf(c) \notin LaneB
  <2>1. c \in DOMAIN commands /\ hold.at = "check"
    BY HoldFacts DEF Check
  <2> QED
    BY <2>1, Lanes DEF Check, LaneInv, PlaceInv
<1>2. hold'.at \in {"idle", "ack"}
  <2>1. \/ hold' = Idle
        \/ hold' = [hold EXCEPT !.at = "ack",
                       !.verdict = [Source(hold.cmd) EXCEPT !.status = "succeeded"]]
    BY DEF Check, Release
  <2>2. hold \in [at : HoldPoint, cmd : 0 .. Len(commands), verdict : Verdict] /\ Idle.at = "idle"
    BY DEF TypeInv, TypeOK, Idle
  <2> QED
    BY <2>1, <2>2
<1>3. \A t \in LaneB : SpentOn(t)' = SpentOn(t)
  BY <1>1, SpentAdds
<1>4. \A d \in workers : /\ AttemptsOf(d)' = AttemptsOf(d) /\ TypeOf(d) \in LaneB
                         /\ TypeOf(d)' = TypeOf(d) /\ (Barred(d)' <=> Barred(d))
                         /\ SpentOn(TypeOf(d))' = SpentOn(TypeOf(d))
  <2> SUFFICES ASSUME NEW d \in workers
               PROVE  /\ AttemptsOf(d)' = AttemptsOf(d) /\ TypeOf(d) \in LaneB
                      /\ TypeOf(d)' = TypeOf(d) /\ (Barred(d)' <=> Barred(d))
                      /\ SpentOn(TypeOf(d))' = SpentOn(TypeOf(d))
    OBVIOUS
  <2>1. AttemptsOf(d)' = AttemptsOf(d)
    BY <1>1, AttemptAdds
  <2>2. TypeOf(d) \in LaneB /\ TypeOf(d)' = TypeOf(d)
    BY <1>1 DEF LaneInv, PlaceInv, TypeOf
  <2>3. Barred(d)' <=> Barred(d)
    BY <1>1, <1>3, <2>2 DEF Barred
  <2>4. SpentOn(TypeOf(d))' = SpentOn(TypeOf(d))
    BY <1>3, <2>2 DEF SpentOn
  <2> QED
    BY <2>1, <2>2, <2>3, <2>4
<1>5. WorkBound'
  BY <1>1, <1>2, <1>4 DEF WorkBound, Starting
<1>6. HoldBound'
  BY <1>2 DEF HoldBound, Starting
<1>7. SpentBound'
  BY <1>1, <1>3 DEF SpentBound
<1> QED
  BY <1>5, <1>6, <1>7

\* The one worker is judged: its type had not been.
LEMMA BoundReturns ==
    ASSUME TypeInv, LaneInv, WorkBound, HoldBound, SpentBound,
           NEW c \in DOMAIN commands, WorkerReturns(c)
    PROVE  WorkBound' /\ HoldBound' /\ SpentBound'
<1>1. /\ RecordAttempt(c) /\ hold'.at = "close" /\ hold'.cmd = c /\ c \in workers /\ ~callback
      /\ UNCHANGED <<commands, status, issued, workers, tracked, callback>> /\ hold.at = "idle"
  BY DEF WorkerReturns, Free
<1>2. TypeOf(c) \in LaneB /\ AttemptsOf(c) = {}
  BY <1>1, WorkersFresh DEF Fresh
<1>3. SpentOn(TypeOf(c)) = {}
  BY <1>1, <1>2 DEF WorkBound
<1>4. \A t : SpentOn(t)' = IF t = TypeOf(c) THEN SpentOn(t) \cup {Len(attempts) + 1}
                            ELSE SpentOn(t)
  BY <1>1, SpentAdds
<1>5. AttemptsOf(c)' # {}
  BY <1>1, AttemptAdds
<1>6. WorkBound'
  <2>1. Barred(c) => Barred(c)'
    BY <1>1, <1>4 DEF Barred, TypeOf
  <2>2. workers' = {c} /\ ~Starting'
    BY <1>1 DEF WorkBound, Starting
  <2>3. status' = "correcting" /\ (Barred(c)' \/ (tracked' = c /\ ~callback'))
    BY <1>1, <2>1 DEF WorkBound
  <2> QED
    BY <1>5, <2>2, <2>3 DEF WorkBound
<1>7. HoldBound'
  <2>1. AttemptsOf(hold.cmd)' # {}
    BY <1>1, <1>5 DEF AttemptsOf
  <2> QED
    BY <1>1, <2>1 DEF HoldBound, Starting
<1>8. SpentBound'
  BY <1>1, <1>3, <1>4 DEF SpentBound
<1> QED
  BY <1>6, <1>7, <1>8

\* The correction is closed.
LEMMA BoundCloses ==
    ASSUME TypeInv, LaneInv, WorkBound, HoldBound, SpentBound, Close
    PROVE  WorkBound' /\ HoldBound' /\ SpentBound'
<1> DEFINE c == hold.cmd
<1>1. /\ c \in DOMAIN commands /\ hold.at = "close"
      /\ UNCHANGED <<commands, attempts, status, issued, workers, tracked, callback>>
      /\ AttemptsOf(c) # {} /\ (TypeOf(c) \in LaneB => c \in workers /\ ~callback)
      /\ TypeOf(c) \in LaneA <=> TypeOf(c) \notin LaneB
  <2>1. c \in DOMAIN commands /\ hold.at = "close"
    BY HoldFacts DEF Close
  <2> QED
    BY <2>1, Lanes DEF Close, LaneInv, PlaceInv, HoldBound
<1>2. /\ hold'.cmd = c
      /\ hold'.at = IF TypeOf(c) \in LaneA THEN "advance"
                  ELSE IF hold.verdict.status = "succeeded" THEN "complete"
                  ELSE "count"
  BY DEF Close, TypeInv, TypeOK
<1>3. TypeOf(c) \in LaneB => status = "correcting"
  BY <1>1 DEF WorkBound
<1>4. AttemptsOf(c)' # {} /\ TypeOf(c)' = TypeOf(c)
  BY <1>1, <1>2 DEF AttemptsOf, TypeOf
<1>5. /\ hold'.at \in {"advance", "complete", "count"}
      /\ hold'.at \in {"complete", "count"} => TypeOf(c) \in LaneB
  BY <1>1, <1>2
<1>6. HoldBound' /\ ~Starting'
  BY <1>1, <1>2, <1>3, <1>4, <1>5 DEF HoldBound, Starting
<1> QED
  BY <1>1, <1>2, <1>6, BoundKeeps

\* The coroutine ends: with its worker, if it is one, the last is gone.
LEMMA BoundEnds ==
    ASSUME TypeInv, LaneInv, WorkBound, HoldBound, SpentBound,
           Count \/ Resume \/ SealSubmission \/ Resubmit \/ PassRefused
    PROVE  WorkBound' /\ HoldBound' /\ SpentBound'
<1> DEFINE c == hold.cmd
<1>1. /\ c \in DOMAIN commands /\ hold.at \in {"count", "complete", "submit"}
      /\ UNCHANGED <<commands, attempts>> /\ hold' = Idle /\ workers' = workers \ {c}
  BY HoldFacts DEF Count, Resume, SealSubmission, Resubmit, PassRefused, Release,
                   WorkerEnds, WorkerEndsMoving
<1>2. (TypeOf(c) \in LaneB /\ c \in workers) \/ workers = {}
  <2>1. TypeOf(c) \in LaneA <=> TypeOf(c) \notin LaneB
    BY <1>1, Lanes
  <2> QED
    BY <1>1, <2>1 DEF LaneInv, PlaceInv, HoldBound
<1>3. workers' = {} /\ ~callback
  BY <1>1, <1>2 DEF WorkBound, HoldBound, LaneInv, PlaceInv
<1>4. CASE Count
  <2>1. TypeOf(c) \in LaneB /\ c \in workers /\ AttemptsOf(c) # {} /\ status = "correcting"
    BY <1>4 DEF Count, LaneInv, PlaceInv, HoldBound, WorkBound
  <2>2. SpentOn(TypeOf(c)) # {}
    BY <2>1 DEF AttemptsOf, SpentOn
  <2>3. callback' => status' = status
    BY <1>3, <1>4 DEF Count, WorkerEndsMoving
  <2> QED
    BY <1>1, <1>3, <2>1, <2>2, <2>3, BoundRests
<1>5. CASE ~Count
  <2>1. ~PassRefused
    BY <1>5 DEF PassRefused, HoldBound
  <2>2. ~callback'
    BY <1>3, <1>5, <2>1 DEF Resume, SealSubmission, Resubmit, WorkerEndsMoving
  <2> QED
    BY <1>1, <1>3, <2>2, BoundRests
<1> QED
  BY <1>4, <1>5

\* Lane A is done with its own, and a pass with its row.
LEMMA BoundPasses ==
    ASSUME TypeInv, LaneInv, WorkBound, HoldBound, SpentBound, Advance \/ InsertSubmissionAttempt
    PROVE  WorkBound' /\ HoldBound' /\ SpentBound'
<1> DEFINE c == hold.cmd
<1>1. /\ c \in DOMAIN commands /\ UNCHANGED <<commands, attempts, workers, tracked, callback>>
      /\ hold \in [at : HoldPoint, cmd : 0 .. Len(commands), verdict : Verdict]
  BY HoldFacts DEF Advance, InsertSubmissionAttempt, TypeInv, TypeOK
<1>2. CASE InsertSubmissionAttempt
  <2>1. /\ hold.at = "complete" /\ hold'.at = "submit" /\ hold'.cmd = c
        /\ UNCHANGED <<status, issued>>
    BY <1>1, <1>2 DEF InsertSubmissionAttempt
  <2>2. HoldBound' /\ ~Starting'
    BY <1>1, <2>1 DEF HoldBound, Starting, TypeOf
  <2> QED
    BY <1>1, <2>1, <2>2, BoundKeeps
<1>3. CASE Advance /\ status = "correction_authorized"
  <2>1. hold'.at = "complete" /\ hold'.cmd = c /\ status' = "correcting"
    BY <1>1, <1>3 DEF Advance, MoveRun
  <2>2. workers = {} /\ ~callback
    BY <1>3 DEF WorkBound, SpentBound
  <2>3. HoldBound'
    BY <1>1, <2>1, <2>2 DEF HoldBound, Starting
  <2>4. SpentBound'
    BY <1>1, <2>2, SpentKept DEF SpentBound
  <2> QED
    BY <1>1, <2>2, <2>3, <2>4 DEF WorkBound
<1>4. CASE Advance /\ status # "correction_authorized"
  <2>1. hold' = Idle /\ UNCHANGED <<status, issued>>
    BY <1>4 DEF Advance, Release
  <2>2. HoldBound' /\ ~Starting'
    BY <2>1 DEF HoldBound, Starting, Idle
  <2> QED
    BY <1>1, <2>1, <2>2, BoundKeeps
<1> QED
  BY <1>2, <1>3, <1>4

\* Steps that leave the event loop free and the run as it is.
LEMMA BoundElsewhere ==
    ASSUME TypeInv, LaneInv, WorkBound, HoldBound, SpentBound,
           \/ \E c \in DOMAIN commands : Launch(c) \/ WorkerWithdraws(c) \/ WorkerTurnedAway(c)
           \/ Untrack \/ UNCHANGED vars
    PROVE  WorkBound' /\ HoldBound' /\ SpentBound'
<1>1. CASE Untrack
  <2>1. /\ UNCHANGED <<commands, attempts, status, issued, workers, hold>>
        /\ callback /\ ~callback' /\ hold.at = "idle"
    BY <1>1 DEF Untrack
  <2>2. \A t : SpentOn(t)' = SpentOn(t)
    BY <2>1, SpentKept
  <2>3. \A c : AttemptsOf(c)' = AttemptsOf(c) /\ (Barred(c)' <=> Barred(c)) /\ TypeOf(c)' = TypeOf(c)
    BY <2>1, <2>2, RecordsKept DEF Barred, TypeOf
  <2>4. HoldBound' /\ ~Starting'
    BY <2>1 DEF HoldBound, Starting
  <2>5. SpentBound'
    BY <2>1, <2>2 DEF SpentBound
  <2>6. WorkBound'
    BY <2>1, <2>2, <2>3, <2>4 DEF WorkBound, TypeOf
  <2> QED
    BY <2>4, <2>5, <2>6
<1>2. ASSUME NEW c \in DOMAIN commands, Launch(c)
      PROVE  WorkBound' /\ HoldBound' /\ SpentBound'
  <2>1. UNCHANGED <<commands, attempts, status, issued, workers, tracked, callback, hold>>
        /\ hold.at = "idle"
    BY <1>2 DEF Launch, Free
  <2>2. HoldBound' /\ ~Starting'
    BY <2>1 DEF HoldBound, Starting
  <2> QED
    BY <2>1, <2>2, BoundKeeps
<1>3. ASSUME NEW c \in DOMAIN commands, WorkerWithdraws(c) \/ WorkerTurnedAway(c)
      PROVE  FALSE
  BY <1>3 DEF WorkerWithdraws, WorkerTurnedAway, Fenced, WorkBound
<1>4. CASE UNCHANGED vars
  <2>1. UNCHANGED <<commands, attempts, status, issued, workers, tracked, callback, hold>>
    BY <1>4 DEF vars
  <2>2. Starting' <=> Starting
    BY <2>1 DEF Starting, TypeOf
  <2>3. HoldBound'
    BY <2>1 DEF HoldBound, Starting, SpentOn, AttemptsOf, Barred, TypeOf
  <2> QED
    BY <2>1, <2>2, <2>3, BoundKeeps
<1> QED
  BY <1>1, <1>2, <1>3, <1>4

\* Each step keeps the bound, or loses a write.
LEMMA BoundStep == TypeInv /\ LaneInv /\ BoundInv /\ [Next]_vars => BoundInv'
<1> SUFFICES ASSUME TypeInv, LaneInv, BoundInv, [Next]_vars, faults' = 0
             PROVE  WorkBound' /\ HoldBound' /\ SpentBound'
  BY DEF BoundInv
<1>1. ~CloseFault /\ \A c : ~WorkerFault(c) /\ ~PreservationFault(c)
  BY DEF CloseFault, WorkerFault, PreservationFault, TypeInv, TypeOK
<1>2. faults = 0
  <2>1. UNCHANGED vars => faults' = faults
    BY DEF vars
  <2> QED
    BY <1>1, <2>1 DEF Next, RequestCorrection, HandlerStep, Authorize, Begin, Check, Acknowledge, Close, Count,
       Advance, Resume, SealSubmission, InsertSubmissionAttempt, Resubmit, PassRefused,
       WorkerStep, Launch, WorkerReturns, WorkerWithdraws, WorkerTurnedAway, Untrack,
       PipelineStep, RoleCloses, StageFails, RunSubmits, RunJudged, Settle, Cancel, Crash, Restart
<1>3. WorkBound /\ HoldBound /\ SpentBound
  BY <1>2 DEF BoundInv
<1>4. CASE HandlerStep
  BY <1>3, <1>4, BoundHandles, BoundChecks, BoundCloses, BoundEnds, BoundPasses DEF HandlerStep
<1>5. CASE PipelineStep
  BY <1>3, <1>5, BoundFree DEF PipelineStep
<1>6. ASSUME NEW c \in 1 .. Len(commands), WorkerStep(c)
      PROVE  WorkBound' /\ HoldBound' /\ SpentBound'
  <2>1. c \in DOMAIN commands
    BY HoldFacts
  <2> QED
    BY <1>3, <1>6, <2>1, BoundReturns, BoundElsewhere DEF WorkerStep
<1> QED
  BY <1>1, <1>3, <1>4, <1>5, <1>6, BoundRequests, BoundFree, BoundElsewhere DEF Next

\* At first nothing was judged.
LEMMA BoundInit == Init => BoundInv
BY DEF Init, BoundInv, WorkBound, HoldBound, SpentBound, Starting, SpentOn, Idle

\* A set of one element at most counts one at most.
LEMMA AtMostOne ==
    ASSUME NEW S, \A a, b \in S : a = b
    PROVE  Cardinality(S) <= 1
<1>1. CASE S = {}
  BY <1>1, FS_EmptySet
<1>2. CASE S # {}
  <2>1. PICK a \in S : TRUE
    BY <1>2
  <2>2. S = {a}
    BY <2>1
  <2>3. Cardinality({a}) = 1
    BY FS_Singleton
  <2> QED
    BY <2>2, <2>3
<1> QED
  BY <1>1, <1>2

\* A command is judged once and closes at most one execution, a succeeded
\* correction is where load_existing looks for it, and as long as no write of a
\* worker is lost each bounded correction is judged once, although the gate
\* counts rows that are not written yet and a done callback may drop the entry
\* of the next worker (request_output_correction, _drive_lane_b,
\* execute_targeted_correction).
THEOREM CorrectionsAreAlwaysVisible == Spec => []CorrectionsAreVisible
<1>1. TypeInv /\ LaneInv /\ BoundInv => CorrectionsAreVisible
  <2> SUFFICES ASSUME TypeInv, LaneInv, BoundInv PROVE CorrectionsAreVisible
    OBVIOUS
  <2>1. ASSUME NEW c \in DOMAIN commands
        PROVE  /\ Cardinality(AttemptsOf(c)) <= 1
               /\ Cardinality({k \in DOMAIN closures : closures[k].cmd = c}) <= 1
    <3>1. (\A a, b \in AttemptsOf(c) : a = b) /\ (\A j, k \in Closings(c) : j = k)
      BY DEF LaneInv, ChainInv
    <3>2. Cardinality(AttemptsOf(c)) <= 1 /\ Cardinality(Closings(c)) <= 1
      BY <3>1, AtMostOne
    <3> QED
      BY <3>2 DEF Closings
  <2>2. \A k \in DOMAIN closures :
          Succeeded(k) /\ closures[k].cmd # 0 => AttemptsOf(closures[k].cmd) # {}
    BY DEF LaneInv, ChainInv
  <2>3. faults = 0 => \A t \in LaneB : Spent(t) <= MaxAttempts
    BY SpentCounts DEF BoundInv, SpentBound, MaxAttempts
  <2> QED
    BY <2>1, <2>2, <2>3 DEF CorrectionsAreVisible
<1> QED
  BY TypeInit, TypeStep, LaneInit, LaneStep, BoundInit, BoundStep, <1>1, PTL DEF Spec

=============================================================================
