-------------------------- MODULE PublicationProofs --------------------------
(***************************************************************************)
(* Proofs about Publication, for any number of methods, runs, requests and *)
(* crashes, and any records that agents may submit.                        *)
(*                                                                         *)
(* The argument has three layers.  TypeInv types the state and says what a *)
(* request, the handler at work and a run have before they are served.     *)
(* CatalogInv says that a captured basis is never ahead of the records and *)
(* is what they are while nobody published since, so that a publication    *)
(* that verified its basis computes from the present.  ToldIsSo and the    *)
(* step simulation of PublicationLog rest on the two.                      *)
(***************************************************************************)
EXTENDS Publication, SequenceTheorems, TLAPS

USE DEF formal, runs, requests

-----------------------------------------------------------------------------
(* The inductive invariant.                                                *)

\* The receipts are a sequence of rows by runs and commands.
LogInv == \E S : receipts \in Seq(S)

\* What a client was shown; what it sent is answered, sealed and counted.
RequestInv ==
    \A k \in Key :
        /\ request[k] = None => answer[k] = "none"
        /\ request[k] # None =>
            /\ request[k].op \in OnMethod => request[k].on \in Method
            /\ request[k].op = "cancel" => request[k].on \in Run
        /\ Receipted(k) => k \in sealed
        /\ bare[k] <= made[k]

\* The handler that has the event loop serves a request whose effect is not
\* there yet.
BusyInv ==
    /\ busy.at # "idle" => busy.key \in Key /\ request[busy.key] # None
    /\ busy.at = "sealed" =>
        /\ busy.key \in sealed
        /\ request[busy.key].op \in StartOp => RunOf(busy.key) = {}
        /\ request[busy.key].op \in ControlOp => ~Receipted(busy.key)
        /\ request[busy.key].op = "cancel" => status[request[busy.key].on] \in Cancellable
    /\ busy.at \in {"row", "brief"} => request[busy.key].op = "create"
    /\ busy.at = "row" => bare[busy.key] > 0

\* A run has the command that it was started with, and what it froze as long as
\* it can publish on it.
RunInv ==
    \A r \in Run :
        /\ status[r] = "absent" <=> command[r] = None
        /\ command[r] # None => request[command[r]] # None /\ request[command[r]].op \in StartOp
        /\ status[r] \in {"running", "submitted", "promoting"} => basis[r] # None

TypeInv == TypeOK /\ LogInv /\ RequestInv /\ BusyInv /\ RunInv

\* At first there is no request, no run and no receipt.
LEMMA TypeInit == Init => TypeInv
<1> SUFFICES ASSUME Init PROVE TypeInv
  OBVIOUS
<1>1. TypeOK
  <2>1. current \in [Slot -> Generation]
    BY DEF Init, Generation, Origin
  <2>2. listing \in Listing /\ lifecycle \in [Method -> Lifecycle]
    BY DEF Init, Listing, Lifecycle, Generation, Origin
  <2>3. busy \in [key : Key \cup {None}, at : {"idle", "sealed", "row", "brief"}]
    BY DEF Init, Idle
  <2> QED
    BY <2>1, <2>2, <2>3, BoundAssumption DEF Init, TypeOK, RunStatus
<1>2. LogInv
  BY EmptySeq DEF Init, LogInv
<1>3. \A o : ~Receipted(o)
  BY DEF Init, Receipted
<1> QED
  BY <1>1, <1>2, <1>3 DEF TypeInv, RequestInv, BusyInv, RunInv, Init, Idle

\* What a commit adds to the log.
LEMMA CommitFacts ==
    ASSUME LogInv, NEW o, NEW reads, NEW writes, Commit(o, reads, writes)
    PROVE  /\ LogInv'
           /\ Len(receipts) \in Nat /\ Len(receipts') = Len(receipts) + 1
           /\ receipts'[Len(receipts) + 1] = Receipt(o, reads, writes)
           /\ DOMAIN receipts' = DOMAIN receipts \cup {Len(receipts) + 1}
           /\ \A n \in DOMAIN receipts : receipts'[n] = receipts[n]
           /\ \A p : Receipted(p)' <=> Receipted(p) \/ p = o
<1>1. PICK S : receipts \in Seq(S)
  BY DEF LogInv
<1> DEFINE row == Receipt(o, reads, writes)
           T == S \cup {row}
<1>2. receipts \in Seq(T) /\ row \in T
  BY <1>1, SeqMonotonic
<1>3. /\ receipts' \in Seq(T) /\ Len(receipts') = Len(receipts) + 1
      /\ \A n \in 1 .. Len(receipts) : receipts'[n] = receipts[n]
      /\ receipts'[Len(receipts) + 1] = row
  BY <1>2, AppendProperties DEF Commit
<1>4. /\ DOMAIN receipts = 1 .. Len(receipts) /\ DOMAIN receipts' = 1 .. Len(receipts')
      /\ Len(receipts) \in Nat
  BY <1>2, <1>3, LenProperties
<1>5. DOMAIN receipts' = DOMAIN receipts \cup {Len(receipts) + 1}
  BY <1>3, <1>4
<1>6. ASSUME NEW p PROVE Receipted(p)' <=> Receipted(p) \/ p = o
  BY <1>3, <1>4, <1>5 DEF Receipted, Receipt
<1>7. LogInv'
  BY <1>3 DEF LogInv
<1> QED
  BY <1>3, <1>4, <1>5, <1>6, <1>7

\* What it does to the slots.
LEMMA CommitType ==
    ASSUME TypeOK, LogInv, NEW o \in Run \cup Key, NEW reads, NEW writes, Commit(o, reads, writes)
    PROVE  /\ current' \in [Slot -> Generation]
           /\ \A i \in DOMAIN receipts' : receipts'[i].by \in Run \cup Key
<1>1. current' \in [Slot -> Generation]
  BY DEF Commit, TypeOK, Generation, Origin
<1>2. \A i \in DOMAIN receipts' : receipts'[i].by \in Run \cup Key
  <2>1. \A i \in DOMAIN receipts : receipts[i].by \in Run \cup Key
    BY DEF TypeOK
  <2>2. receipts'[Len(receipts) + 1].by = o
    <3>1. receipts'[Len(receipts) + 1] = Receipt(o, reads, writes)
      BY CommitFacts
    <3> QED
      BY <3>1 DEF Receipt
  <2> QED
    BY <2>1, <2>2, CommitFacts
<1> QED
  BY <1>1, <1>2

\* Requests that are only answered: of those that are told that they succeeded,
\* a start has its run and a control command its receipt.
LEMMA AnswerFacts ==
    ASSUME NEW k \in Key,
           \/ ReplayStart(k) \/ RefuseStart(k) \/ SealStartAgain(k)
           \/ ReplayControl(k) \/ RefuseControl(k) \/ ReplayCancel(k) \/ RefuseCancel(k)
    PROVE  /\ UNCHANGED <<formal, runs, request, sealed, made, bare, up, busy, crashes>>
           /\ request[k] # None
           /\ \E a \in {"accepted", "rejected", "error"} :
                /\ Answer(k, a)
                /\ a = "accepted" =>
                    /\ request[k].op \in StartOp => RunOf(k) # {}
                    /\ request[k].op \in ControlOp => Receipted(k)
<1> USE DEF Delivered, StartOp, ControlOp
<1>1. CASE ReplayStart(k)
  BY <1>1 DEF ReplayStart
<1>2. CASE RefuseStart(k) \/ SealStartAgain(k) \/ RefuseControl(k) \/ RefuseCancel(k)
  BY <1>2 DEF RefuseStart, SealStartAgain, AdmitStart, RefuseControl, RefuseCancel
<1>3. CASE ReplayControl(k)
  BY <1>3 DEF ReplayControl
<1>4. CASE ReplayCancel(k)
  BY <1>4 DEF ReplayCancel
<1> QED
  BY <1>1, <1>2, <1>3, <1>4

\* Requests that are sealed.
LEMMA SealFacts ==
    ASSUME TypeInv, NEW k \in Key, SealStart(k) \/ SealControl(k) \/ SealCancel(k)
    PROVE  /\ UNCHANGED <<formal, runs, request, answer, made, bare, up, crashes>>
           /\ sealed' = sealed \cup {k} /\ busy' = [key |-> k, at |-> "sealed"]
           /\ request[k] # None
           /\ request[k].op \in StartOp => RunOf(k) = {}
           /\ request[k].op \in ControlOp => ~Receipted(k)
           /\ request[k].op = "cancel" => status[request[k].on] \in Cancellable
<1> USE DEF Delivered, StartOp, ControlOp, Seal
<1>1. CASE SealStart(k)
  BY <1>1 DEF SealStart, AdmitStart
<1>2. CASE SealControl(k)
  BY <1>2 DEF SealControl, TypeInv, RequestInv
<1>3. CASE SealCancel(k)
  BY <1>3 DEF SealCancel
<1> QED
  BY <1>1, <1>2, <1>3

\* Steps of a run other than its start, its basis and its publication.
LEMMA MoveFacts ==
    ASSUME TypeInv, NEW r \in Run,
           \/ Claim(r) \/ PrepareFails(r) \/ Execute(r) \/ Validate(r) \/ Settle(r)
           \/ SettleCancellation(r) \/ Correct(r)
    PROVE  /\ UNCHANGED <<formal, command, basis, requests, up, busy, crashes>>
           /\ busy = Idle
           /\ output' \in [Run -> Draft \cup {<<>>}] /\ corrections' \in 0 .. MaxCorrections
           /\ \E to \in RunStatus \ {"absent"} :
                /\ status' = [status EXCEPT ![r] = to]
                /\ status[r] # "absent"
                /\ to \in {"running", "submitted", "promoting"} => basis[r] # None
                /\ to = "published" => Receipted(r)
                /\ status[r] = "promoting" => to = "published" \/ (to = "conflicted" /\ ~Receipted(r))
                /\ status[r] # "published"
<1> USE DEF Move, KeepRun, TypeInv, RunStatus
<1>1. CASE Claim(r) \/ PrepareFails(r) \/ SettleCancellation(r)
  BY <1>1 DEF Claim, PrepareFails, SettleCancellation, TypeOK
<1>2. ASSUME NEW from \in {"running", "failed", "rejected"}, Submit(r, from)
      PROVE  /\ UNCHANGED <<formal, command, basis, requests, up, busy, crashes>>
             /\ busy = Idle /\ status[r] = from /\ status' = [status EXCEPT ![r] = "submitted"]
             /\ output' \in [Run -> Draft \cup {<<>>}]
  <2>1. output \in [Run -> Draft \cup {<<>>}]
    BY DEF TypeOK
  <2>2. output' \in [Run -> Draft \cup {<<>>}]
    BY <1>2, <2>1 DEF Submit
  <2> QED
    BY <1>2, <2>2 DEF Submit
<1>3. CASE Execute(r)
  BY <1>2, <1>3 DEF Execute, RunInv, TypeOK
<1>4. CASE Correct(r)
  <2>1. PICK from \in {"failed", "rejected"} : Submit(r, from)
    BY <1>4 DEF Correct
  <2>2. corrections' \in 0 .. MaxCorrections /\ basis[r] # None
    BY <1>4, BoundAssumption DEF Correct, TypeOK
  <2> QED
    BY <1>2, <2>1, <2>2
<1>5. CASE Validate(r)
  BY <1>5 DEF Validate, Verdict, RunInv, TypeOK
<1>6. CASE Settle(r)
  BY <1>6 DEF Settle, TypeOK
<1> QED
  BY <1>1, <1>3, <1>4, <1>5, <1>6

\* The objects of the requests that are being served.
LEMMA ServedFacts ==
    ASSUME TypeInv, NEW ops, AtSealed(ops)
    PROVE  /\ busy.key \in Key /\ request[busy.key] \in Request /\ request[busy.key].op \in ops
           /\ up /\ busy.at = "sealed"
BY DEF TypeInv, TypeOK, BusyInv, AtSealed

\* A command publishes under its own key, once.
LEMMA ControlFacts ==
    ASSUME TypeInv, NEW k, k = busy.key, PublishBrief \/ PublishLifecycle
    PROVE  /\ k \in Key /\ busy.at = "sealed" /\ request[k].op \in ControlOp /\ ~Receipted(k)
           /\ busy' = Idle
           /\ UNCHANGED <<runs, request, sealed, made, bare, up, crashes>>
           /\ \/ /\ UNCHANGED formal /\ Answer(k, "rejected")
              \/ /\ Answer(k, "accepted")
                 /\ \E slots \in SUBSET Slot : slots # {} /\ Commit(k, CurrentOf(slots), slots)
           /\ lifecycle' \in [Method -> Lifecycle] /\ listing' \in Listing
<1>1. k \in Key /\ request[k].op \in ControlOp /\ busy.at = "sealed" /\ ~Receipted(k)
      /\ (PublishLifecycle => request[k].on \in Method)
  <2>1. AtSealed({"brief"}) \/ AtSealed({"lifecycle"})
    BY DEF PublishBrief, PublishLifecycle
  <2>2. k \in Key /\ request[k] # None /\ request[k].op \in ControlOp /\ busy.at = "sealed"
    BY <2>1 DEF AtSealed, ControlOp, TypeInv, BusyInv
  <2> QED
    BY <2>2 DEF PublishLifecycle, AtSealed, TypeInv, BusyInv, RequestInv, OnMethod
<1>2. lifecycle \in [Method -> Lifecycle] /\ listing \in Listing
  BY DEF TypeInv, TypeOK
<1>3. CASE PublishBrief
  BY <1>1, <1>2, <1>3 DEF PublishBrief, Slot
<1>4. CASE PublishLifecycle
  <2> DEFINE m == request[k].on
  <2>1. m \in Method
    BY <1>1, <1>4
  <2>2. {MethodSlot(m), Catalog} \subseteq Slot
    BY <2>1 DEF Slot
  <2>3. CASE listing[m].state = lifecycle[m]
    <3>1. ChangeLifecycle(m) /\ Answer(k, "accepted")
      BY <1>4, <2>3 DEF PublishLifecycle
    <3>2. lifecycle' \in [Method -> Lifecycle]
      BY <1>2, <3>1 DEF ChangeLifecycle, Toggled, Lifecycle
    <3>3. [of |-> k, state |-> Toggled(lifecycle[m])] \in [of : Generation, state : Lifecycle]
      BY <1>1 DEF Toggled, Lifecycle, Generation, Origin
    <3>4. listing' \in Listing
      BY <1>2, <3>1, <3>3 DEF ChangeLifecycle, Listing
    <3> QED
      BY <1>1, <1>4, <2>2, <3>1, <3>2, <3>4 DEF PublishLifecycle, ChangeLifecycle
  <2>4. CASE listing[m].state # lifecycle[m]
    BY <1>1, <1>2, <1>4, <2>4 DEF PublishLifecycle
  <2> QED
    BY <2>3, <2>4
<1> QED
  BY <1>3, <1>4

\* A run replaces slots that it has the generations of.
LEMMA TargetFacts ==
    ASSUME TypeInv, NEW r \in Run, status[r] # "absent"
    PROVE  /\ Targets(r) \subseteq Slot /\ Inputs(r) \subseteq Slot /\ Targets(r) # {}
           /\ DOMAIN output[r] \subseteq Method
           /\ \A m \in DOMAIN output[r] : output[r][m] \in Lifecycle
           /\ ~Phase2(r) => MethodOf(r) \in Method
<1>1. DOMAIN output[r] \subseteq Method /\ \A m \in DOMAIN output[r] : output[r][m] \in Lifecycle
  <2>1. output[r] \in Draft \/ output[r] = <<>>
    BY DEF TypeInv, TypeOK
  <2>2. CASE output[r] \in Draft
    BY <2>2, DraftAssumption DEF Lifecycle
  <2>3. CASE output[r] = <<>>
    <3>1. DOMAIN output[r] = {}
      BY <2>3
    <3> QED
      BY <3>1
  <2> QED
    BY <2>1, <2>2, <2>3
<1>2. ~Phase2(r) => MethodOf(r) \in Method
  <2>1. command[r] \in Key /\ request[command[r]] # None /\ request[command[r]].op \in StartOp
    BY DEF TypeInv, TypeOK, RunInv
  <2> QED
    BY <2>1 DEF TypeInv, RequestInv, Phase2, MethodOf, StartOp, OnMethod
<1> QED
  BY <1>1, <1>2 DEF Targets, Inputs, Slot

\* A publication of a run.
LEMMA PublishFacts ==
    ASSUME TypeInv, NEW r \in Run, PublishRun(r)
    PROVE  /\ status[r] = "promoting" /\ ~Receipted(r) /\ busy = Idle
           /\ UNCHANGED <<runs, requests, up, busy, crashes>>
           /\ basis[r] \in Basis /\ BasisHolds(r)
           /\ Commit(r, [s \in Inputs(r) \cup Targets(r) |-> basis[r].slots[s]], Targets(r))
           /\ lifecycle' \in [Method -> Lifecycle] /\ listing' \in Listing
<1>1. status[r] = "promoting" /\ basis[r] \in Basis
  BY DEF PublishRun, TypeInv, TypeOK, RunInv
<1>2. lifecycle \in [Method -> Lifecycle] /\ listing \in Listing /\ basis[r].listing \in Listing
  BY <1>1 DEF TypeInv, TypeOK, Basis
<1>3. CASE Phase2(r)
  <2>1. lifecycle' \in [Method -> Lifecycle]
    BY <1>1, <1>2, <1>3, TargetFacts DEF PublishRun
  <2>2. \A m \in DOMAIN output[r] :
            [of |-> r, state |-> output[r][m]] \in [of : Generation, state : Lifecycle]
    BY <1>1, TargetFacts DEF Generation, Origin
  <2>3. listing' \in Listing
    <3>1. listing' = Reduced(r, basis[r].listing)
      BY <1>3 DEF PublishRun
    <3>2. \A m \in Method :
              (IF m \in DOMAIN output[r] THEN [of |-> r, state |-> output[r][m]]
               ELSE basis[r].listing[m]) \in [of : Generation, state : Lifecycle]
      BY <1>2, <2>2 DEF Listing
    <3>3. Reduced(r, basis[r].listing) \in Listing
      BY <3>2 DEF Reduced, Listing
    <3> QED
      BY <3>1, <3>3
  <2> QED
    BY <1>1, <2>1, <2>3 DEF PublishRun
<1>4. CASE ~Phase2(r)
  BY <1>1, <1>2, <1>4 DEF PublishRun
<1> QED
  BY <1>3, <1>4

-----------------------------------------------------------------------------
(* The steps keep it.                                                      *)

\* What only changes with the log.
LEMMA SameLog ==
    ASSUME LogInv, UNCHANGED receipts
    PROVE  LogInv' /\ (\A o : Receipted(o)' <=> Receipted(o)) /\ FormalHead' = FormalHead
BY DEF LogInv, Receipted, FormalHead

\* Nobody has the event loop.
LEMMA IdleType == Idle \in [key : Key \cup {None}, at : {"idle", "sealed", "row", "brief"}]
BY DEF Idle

\* The head of the formal records counts them.
LEMMA HeadType == LogInv => FormalHead \in Nat
BY LenProperties DEF LogInv, FormalHead

\* A client looks at the project before it sends a request.
LEMMA ViewTypes ==
    ASSUME TypeInv, NEW k \in Key, NEW op \in Op, NEW on \in Method \cup Run \cup {None},
           View(k, op, on)
    PROVE  TypeInv'
<1> DEFINE shown == [op |-> op, on |-> on, seen |-> FormalHead]
<1>1. /\ request[k] = None /\ request' = [request EXCEPT ![k] = shown]
      /\ UNCHANGED <<formal, runs, sealed, answer, made, bare, up, busy, crashes>>
      /\ op \in OnMethod => on \in Method
      /\ op = "cancel" => on \in Run
  BY DEF View, OnMethod
<1>2. shown \in Request
  BY HeadType, OpAssumption DEF TypeInv, Request
<1>3. request' \in [Key -> Request \cup {None}]
  BY <1>1, <1>2 DEF TypeInv, TypeOK
<1>4. request'[k] = shown /\ \A j \in Key \ {k} : request'[j] = request[j]
  BY <1>1 DEF TypeInv, TypeOK
<1>5. shown # None
  BY <1>2, NoneAssumption
<1>6. TypeOK'
  BY <1>1, <1>3 DEF TypeInv, TypeOK
<1>7. RequestInv'
  BY <1>1, <1>4, <1>5, SameLog DEF TypeInv, RequestInv
<1>8. BusyInv'
  BY <1>1, <1>4, <1>5, SameLog DEF TypeInv, BusyInv, RunOf
<1>9. RunInv'
  <2> SUFFICES ASSUME NEW r \in Run
               PROVE  /\ status[r] = "absent" <=> command[r] = None
                      /\ command[r] # None => /\ request'[command[r]] # None
                                              /\ request'[command[r]].op \in StartOp
                      /\ status[r] \in {"running", "submitted", "promoting"} => basis[r] # None
    BY <1>1 DEF RunInv
  <2>1. command[r] # None => command[r] \in Key \ {k}
    BY <1>1 DEF TypeInv, TypeOK, RunInv
  <2> QED
    BY <1>4, <2>1 DEF TypeInv, RunInv
<1> QED
  BY <1>1, <1>6, <1>7, <1>8, <1>9, SameLog DEF TypeInv

\* An answer without an effect.
LEMMA AnswerTypes ==
    ASSUME TypeInv, NEW k \in Key, request[k] # None,
           UNCHANGED <<formal, runs, request, sealed, made, bare, up, busy, crashes>>,
           NEW a \in {"accepted", "rejected", "error"}, Answer(k, a)
    PROVE  TypeInv'
<1>1. TypeOK'
  BY DEF TypeInv, TypeOK, Answer
<1>2. RequestInv'
  BY SameLog DEF TypeInv, TypeOK, RequestInv, Answer
<1>3. BusyInv' /\ RunInv'
  BY SameLog DEF TypeInv, BusyInv, RunInv, RunOf
<1> QED
  BY <1>1, <1>2, <1>3, SameLog DEF TypeInv

\* A command is sealed and waits for its effect.
LEMMA SealTypes ==
    ASSUME TypeInv, NEW k \in Key, SealStart(k) \/ SealControl(k) \/ SealCancel(k)
    PROVE  TypeInv'
<1>1. TypeOK'
  BY SealFacts DEF TypeInv, TypeOK
<1>2. RequestInv'
  BY SealFacts, SameLog DEF TypeInv, RequestInv
<1>3. BusyInv'
  <2>1. busy'.key = k /\ busy'.at = "sealed"
    BY SealFacts
  <2>2. RunOf(k)' = RunOf(k)
    BY SealFacts DEF RunOf
  <2> QED
    BY <2>1, <2>2, SealFacts, SameLog DEF TypeInv, BusyInv
<1>4. RunInv'
  BY SealFacts DEF TypeInv, RunInv
<1> QED
  BY <1>1, <1>2, <1>3, <1>4, SealFacts, SameLog DEF TypeInv

\* Creating a project.
LEMMA CreateTypes ==
    ASSUME TypeInv, (\E k \in Key : CreateRow(k)) \/ BootstrapBrief \/ AttachRawRequest
    PROVE  TypeInv'
<1>1. UNCHANGED <<formal, runs, request, up, crashes>>
  BY DEF CreateRow, BootstrapBrief, AttachRawRequest
<1>2. RunInv'
  BY <1>1 DEF TypeInv, RunInv
<1>3. ASSUME NEW k \in Key, CreateRow(k) PROVE TypeOK' /\ RequestInv' /\ BusyInv'
  <2>1. /\ made[k] \in Nat /\ made[k] < MaxProjects /\ bare[k] \in Nat /\ bare[k] <= made[k]
        /\ request[k] # None /\ request[k].op = "create"
    BY <1>3, BoundAssumption DEF CreateRow, Delivered, TypeInv, TypeOK, RequestInv
  <2>2. TypeOK'
    BY <1>3, <2>1, BoundAssumption DEF CreateRow, TypeInv, TypeOK
  <2>3. RequestInv'
    BY <1>1, <1>3, <2>1, SameLog DEF CreateRow, TypeInv, TypeOK, RequestInv
  <2>4. BusyInv'
    BY <1>3, <2>1 DEF CreateRow, BusyInv, TypeInv, TypeOK
  <2> QED
    BY <2>2, <2>3, <2>4
<1>4. CASE BootstrapBrief
  <2> DEFINE k == busy.key
  <2>1. /\ k \in Key /\ bare[k] \in Nat /\ bare[k] > 0 /\ made[k] \in Nat /\ bare[k] <= made[k]
        /\ request[k] # None /\ request[k].op = "create"
    BY <1>4, BoundAssumption DEF BootstrapBrief, TypeInv, TypeOK, RequestInv, BusyInv
  <2>2. TypeOK'
    <3>1. bare' \in [Key -> 0 .. MaxProjects]
      BY <1>4, <2>1, BoundAssumption DEF BootstrapBrief, TypeInv, TypeOK
    <3>2. busy' \in [key : Key \cup {None}, at : {"idle", "sealed", "row", "brief"}]
      BY <1>4 DEF BootstrapBrief, TypeInv, TypeOK
    <3> QED
      BY <1>4, <3>1, <3>2 DEF BootstrapBrief, TypeInv, TypeOK
  <2>3. RequestInv'
    BY <1>1, <1>4, <2>1, SameLog DEF BootstrapBrief, TypeInv, TypeOK, RequestInv
  <2>4. busy'.at = "brief" /\ busy'.key = k
    BY <1>4 DEF BootstrapBrief, TypeInv, TypeOK
  <2>5. BusyInv'
    BY <1>1, <2>1, <2>4 DEF BusyInv
  <2> QED
    BY <1>1, <1>2, <2>2, <2>3, <2>5, SameLog DEF TypeInv
<1>5. CASE AttachRawRequest
  <2>1. busy.key \in Key /\ request[busy.key] # None
    BY <1>5 DEF AttachRawRequest, TypeInv, BusyInv
  <2>2. TypeOK'
    BY <1>5, <2>1 DEF AttachRawRequest, Answer, Idle, TypeInv, TypeOK
  <2>3. RequestInv'
    BY <1>1, <1>5, <2>1, SameLog DEF AttachRawRequest, Answer, TypeInv, TypeOK, RequestInv
  <2>4. BusyInv'
    BY <1>5 DEF AttachRawRequest, BusyInv, Idle
  <2> QED
    BY <1>1, <1>2, <2>2, <2>3, <2>4, SameLog DEF TypeInv
<1> QED
  BY <1>1, <1>2, <1>3, <1>4, <1>5, SameLog DEF TypeInv

\* A run starts.
LEMMA CreateRunFacts ==
    ASSUME TypeInv, NEW r \in Run, CreateRun(r)
    PROVE  /\ busy.key \in Key /\ request[busy.key] # None /\ request[busy.key].op \in StartOp
           /\ RunOf(busy.key) = {} /\ command[r] = None /\ status[r] = "absent"
           /\ command'[r] = busy.key /\ status'[r] = "created"
           /\ \A q \in Run \ {r} : command'[q] = command[q] /\ status'[q] = status[q]
           /\ answer' = [answer EXCEPT ![busy.key] = "accepted"] /\ busy' = Idle
           /\ UNCHANGED <<formal, basis, output, corrections, request, sealed, made, bare,
                          up, crashes>>
<1>1. busy.key \in Key /\ request[busy.key] # None /\ request[busy.key].op \in StartOp
      /\ RunOf(busy.key) = {}
  BY DEF CreateRun, AtSealed, TypeInv, BusyInv
<1>2. command[r] = None /\ status[r] = "absent"
  BY DEF CreateRun, TypeInv, RunInv
<1> QED
  BY <1>1, <1>2 DEF CreateRun, Answer, TypeInv, TypeOK

\* The row of a run is created.
LEMMA CreateRunTypes ==
    ASSUME TypeInv, NEW r \in Run, CreateRun(r)
    PROVE  TypeInv'
<1>1. TypeOK'
  BY CreateRunFacts DEF CreateRun, Idle, TypeInv, TypeOK, RunStatus
<1>2. RequestInv'
  BY CreateRunFacts, SameLog DEF TypeInv, TypeOK, RequestInv
<1>3. BusyInv'
  BY CreateRunFacts DEF BusyInv, Idle
<1>4. RunInv'
  BY CreateRunFacts, NamesAssumption DEF TypeInv, TypeOK, RunInv
<1> QED
  BY <1>1, <1>2, <1>3, <1>4, CreateRunFacts, SameLog DEF TypeInv

\* A command publishes a brief or a lifecycle change.
LEMMA ControlTypes ==
    ASSUME TypeInv, PublishBrief \/ PublishLifecycle
    PROVE  TypeInv'
<1> DEFINE k == busy.key
<1>1. CASE UNCHANGED formal /\ Answer(k, "rejected")
  <2>1. TypeOK'
    <3>1. answer' \in [Key -> {"none", "accepted", "rejected", "error"}]
      BY <1>1, ControlFacts DEF Answer, TypeInv, TypeOK
    <3> QED
      BY <1>1, <3>1, ControlFacts, IdleType DEF TypeInv, TypeOK
  <2>2. RequestInv'
    BY <1>1, ControlFacts, SameLog DEF Answer, TypeInv, TypeOK, RequestInv, BusyInv
  <2>3. BusyInv' /\ RunInv'
    BY ControlFacts DEF BusyInv, RunInv, Idle, TypeInv
  <2> QED
    BY <1>1, <2>1, <2>2, <2>3, SameLog DEF TypeInv
<1>2. ASSUME NEW slots \in SUBSET Slot, Commit(k, CurrentOf(slots), slots), Answer(k, "accepted")
      PROVE  TypeInv'
  <2>1. TypeOK'
    <3>1. /\ current' \in [Slot -> Generation]
          /\ \A i \in DOMAIN receipts' : receipts'[i].by \in Run \cup Key
      BY <1>2, ControlFacts, CommitType DEF TypeInv
    <3>2. answer' \in [Key -> {"none", "accepted", "rejected", "error"}]
      BY <1>2, ControlFacts DEF Answer, TypeInv, TypeOK
    <3> QED
      BY <3>1, <3>2, ControlFacts, IdleType DEF TypeInv, TypeOK
  <2>2. RequestInv'
    <3>1. \A p : Receipted(p)' <=> Receipted(p) \/ p = k
      BY <1>2, CommitFacts DEF TypeInv
    <3>2. k \in sealed /\ request[k] # None
      BY ControlFacts DEF TypeInv, BusyInv
    <3>3. \A j \in Key \ {k} : answer'[j] = answer[j]
      BY <1>2 DEF Answer, TypeInv, TypeOK
    <3> QED
      BY <3>1, <3>2, <3>3, ControlFacts DEF TypeInv, RequestInv
  <2>3. BusyInv' /\ RunInv'
    BY ControlFacts DEF BusyInv, RunInv, Idle, TypeInv
  <2>4. LogInv'
    BY <1>2, CommitFacts DEF TypeInv
  <2> QED
    BY <2>1, <2>2, <2>3, <2>4 DEF TypeInv
<1> QED
  BY <1>1, <1>2, ControlFacts

\* A fence hits a run that could still be cancelled when the command was sealed.
LEMMA FenceFacts ==
    ASSUME TypeInv, Fence
    PROVE  \E r \in Run :
              /\ busy.key \in Key /\ request[busy.key] # None /\ request[busy.key].op = "cancel"
              /\ status[r] \in Cancellable
              /\ status' = [status EXCEPT ![r] = "cancellation_requested"]
              /\ answer' = [answer EXCEPT ![busy.key] = "accepted"] /\ busy' = Idle
              /\ UNCHANGED <<formal, command, basis, output, corrections, request, sealed,
                             made, bare, up, crashes>>
<1>1. busy.key \in Key /\ request[busy.key] # None /\ request[busy.key].op = "cancel"
      /\ status[request[busy.key].on] \in Cancellable
  BY DEF Fence, AtSealed, TypeInv, BusyInv
<1>2. request[busy.key].on \in Run
  BY <1>1 DEF TypeInv, RequestInv
<1> QED
  BY <1>1, <1>2 DEF Fence, Answer

\* A run is fenced for its cancellation.
LEMMA FenceTypes ==
    ASSUME TypeInv, Fence
    PROVE  TypeInv'
<1>1. TypeOK'
  <2>1. /\ status' \in [Run -> RunStatus]
        /\ answer' \in [Key -> {"none", "accepted", "rejected", "error"}]
    BY FenceFacts DEF TypeInv, TypeOK, RunStatus
  <2> QED
    BY <2>1, FenceFacts, IdleType DEF TypeInv, TypeOK
<1>2. RequestInv'
  BY FenceFacts, SameLog DEF TypeInv, TypeOK, RequestInv
<1>3. BusyInv'
  BY FenceFacts DEF BusyInv, Idle
<1>4. RunInv'
  BY FenceFacts DEF TypeInv, TypeOK, RunInv, Cancellable
<1> QED
  BY <1>1, <1>2, <1>3, <1>4, FenceFacts, SameLog DEF TypeInv

\* A run moves on.
LEMMA MoveTypes ==
    ASSUME TypeInv, NEW r \in Run,
           \/ Claim(r) \/ PrepareFails(r) \/ Execute(r) \/ Validate(r) \/ Settle(r)
           \/ SettleCancellation(r) \/ Correct(r)
    PROVE  TypeInv'
<1>1. TypeOK'
  <2>1. status' \in [Run -> RunStatus]
    <3>1. PICK to \in RunStatus : status' = [status EXCEPT ![r] = to]
      BY MoveFacts
    <3> QED
      BY <3>1 DEF TypeInv, TypeOK
  <2> QED
    BY <2>1, MoveFacts DEF TypeInv, TypeOK
<1>2. RequestInv'
  BY MoveFacts, SameLog DEF TypeInv, RequestInv
<1>3. BusyInv'
  BY MoveFacts DEF BusyInv, Idle
<1>4. RunInv'
  BY MoveFacts DEF TypeInv, TypeOK, RunInv
<1> QED
  BY <1>1, <1>2, <1>3, <1>4, MoveFacts, SameLog DEF TypeInv

\* What a run freezes is a basis.
LEMMA PrepareFacts ==
    ASSUME TypeInv, NEW r \in Run, Prepare(r)
    PROVE  /\ CapturedBasis \in Basis /\ CapturedBasis # None
           /\ basis' = [basis EXCEPT ![r] = CapturedBasis]
           /\ status' = [status EXCEPT ![r] = "running"] /\ status[r] = "preparing"
           /\ busy = Idle
           /\ UNCHANGED <<formal, command, output, corrections, requests, up, busy, crashes>>
<1>1. CapturedBasis \in Basis
  BY HeadType DEF CapturedBasis, Basis, TypeInv, TypeOK
<1> QED
  BY <1>1, NoneAssumption DEF Prepare, Move

\* A run is prepared: its basis is captured.
LEMMA PrepareTypes ==
    ASSUME TypeInv, NEW r \in Run, Prepare(r)
    PROVE  TypeInv'
<1>1. TypeOK'
  <2>1. status' \in [Run -> RunStatus] /\ basis' \in [Run -> Basis \cup {None}]
    <3>1. /\ status' = [status EXCEPT ![r] = "running"] /\ "running" \in RunStatus
          /\ basis' = [basis EXCEPT ![r] = CapturedBasis] /\ CapturedBasis \in Basis
      BY PrepareFacts DEF RunStatus
    <3> QED
      BY <3>1 DEF TypeInv, TypeOK
  <2> QED
    BY <2>1, PrepareFacts DEF TypeInv, TypeOK
<1>2. RequestInv'
  BY PrepareFacts, SameLog DEF TypeInv, RequestInv
<1>3. BusyInv'
  BY PrepareFacts DEF BusyInv, Idle
<1>4. RunInv'
  <2>1. /\ status'[r] = "running" /\ basis'[r] # None /\ status[r] # "absent"
        /\ \A q \in Run \ {r} : status'[q] = status[q] /\ basis'[q] = basis[q]
    BY PrepareFacts DEF TypeInv, TypeOK
  <2> QED
    BY <2>1, PrepareFacts DEF TypeInv, RunInv
<1> QED
  BY <1>1, <1>2, <1>3, <1>4, PrepareFacts, SameLog DEF TypeInv

\* A run publishes.
LEMMA PublishTypes ==
    ASSUME TypeInv, NEW r \in Run, PublishRun(r)
    PROVE  TypeInv'
<1> DEFINE reads == [s \in Inputs(r) \cup Targets(r) |-> basis[r].slots[s]]
<1>1. Commit(r, reads, Targets(r))
  BY PublishFacts
<1>2. TypeOK'
  <2>1. /\ current' \in [Slot -> Generation]
        /\ \A i \in DOMAIN receipts' : receipts'[i].by \in Run \cup Key
    BY <1>1, CommitType DEF TypeInv
  <2> QED
    BY <2>1, PublishFacts DEF TypeInv, TypeOK
<1>3. RequestInv'
  <2>1. \A k \in Key : Receipted(k)' <=> Receipted(k)
    BY <1>1, CommitFacts, NamesAssumption DEF TypeInv
  <2> QED
    BY <2>1, PublishFacts DEF TypeInv, RequestInv
<1>4. BusyInv'
  <2>1. busy' = Idle
    BY PublishFacts
  <2> QED
    BY <2>1 DEF BusyInv, Idle
<1>5. RunInv'
  BY PublishFacts DEF TypeInv, RunInv
<1>6. LogInv'
  BY <1>1, CommitFacts DEF TypeInv
<1> QED
  BY <1>2, <1>3, <1>4, <1>5, <1>6 DEF TypeInv

\* The server crashes or starts again.
LEMMA ServerTypes ==
    ASSUME TypeInv, Crash \/ Restart \/ UNCHANGED vars
    PROVE  TypeInv'
<1>1. CASE Crash
  <2>1. /\ up' \in BOOLEAN /\ busy' = Idle /\ crashes' \in 0 .. MaxCrashes
        /\ UNCHANGED <<formal, runs, requests>>
    <3>1. crashes' \in 0 .. MaxCrashes
      BY <1>1, BoundAssumption DEF Crash, TypeInv, TypeOK
    <3> QED
      BY <1>1, <3>1 DEF Crash
  <2>2. TypeOK'
    BY <2>1, IdleType DEF TypeInv, TypeOK
  <2>3. RequestInv'
    BY <2>1, SameLog DEF TypeInv, RequestInv
  <2>4. BusyInv' /\ RunInv'
    BY <2>1 DEF TypeInv, BusyInv, RunInv, Idle
  <2> QED
    BY <2>1, <2>2, <2>3, <2>4, SameLog DEF TypeInv
<1>2. CASE Restart \/ UNCHANGED vars
  <2>1. up' \in BOOLEAN /\ UNCHANGED <<formal, runs, requests, busy, crashes>>
    BY <1>2 DEF Restart, vars, TypeInv, TypeOK
  <2>2. TypeOK'
    BY <2>1 DEF TypeInv, TypeOK
  <2>3. RequestInv' /\ BusyInv'
    BY <2>1, SameLog DEF TypeInv, RequestInv, BusyInv, RunOf
  <2>4. RunInv'
    BY <2>1 DEF TypeInv, RunInv
  <2> QED
    BY <2>1, <2>2, <2>3, <2>4, SameLog DEF TypeInv
<1> QED
  BY <1>1, <1>2

\* Each step keeps the type invariant.
LEMMA TypeStep == TypeInv /\ [Next]_vars => TypeInv'
<1> SUFFICES ASSUME TypeInv, [Next]_vars PROVE TypeInv'
  OBVIOUS
<1>1. ASSUME NEW k \in Key, Arrive(k) PROVE TypeInv'
  <2>1. CASE SealStart(k) \/ SealControl(k) \/ SealCancel(k)
    BY <2>1, SealTypes
  <2>2. CASE CreateRow(k)
    BY <2>2, CreateTypes
  <2>3. CASE \/ ReplayStart(k) \/ RefuseStart(k) \/ SealStartAgain(k)
             \/ ReplayControl(k) \/ RefuseControl(k) \/ ReplayCancel(k) \/ RefuseCancel(k)
    BY <2>3, AnswerFacts, AnswerTypes
  <2> QED
    BY <1>1, <2>1, <2>2, <2>3 DEF Arrive
<1>2. CASE Handler
  BY <1>2, CreateRunTypes, ControlTypes, FenceTypes, CreateTypes DEF Handler
<1>3. ASSUME NEW r \in Run, Advance(r) \/ Correct(r) PROVE TypeInv'
  BY <1>3, MoveTypes, PrepareTypes, PublishTypes DEF Advance
<1> QED
  BY <1>1, <1>2, <1>3, ViewTypes, ServerTypes DEF Next

\* The formal records, the runs and the requests have their types throughout, the
\* captured basis of a run and the request a client sent included (publication.py,
\* run_coordinator.py, service.py).
THEOREM TypesAreCorrect == Spec => []TypeOK
<1>1. TypeInv => TypeOK
  BY DEF TypeInv
<1> QED
  BY TypeInit, TypeStep, <1>1, PTL DEF Spec

-----------------------------------------------------------------------------
(* The catalogue and the methods.                                          *)

\* The steps that leave the formal records, or the frozen bases, alone.
LEMMA OtherSteps ==
    ASSUME TypeInv, [Next]_vars, ~PublishBrief, ~PublishLifecycle,
           ~ \E r \in Run : PublishRun(r)
    PROVE  UNCHANGED formal
<1>1. ASSUME NEW k \in Key, Arrive(k) PROVE UNCHANGED formal
  BY <1>1, AnswerFacts, SealFacts DEF Arrive, CreateRow
<1>2. CASE Handler
  BY <1>2, CreateRunFacts, FenceFacts DEF Handler, BootstrapBrief, AttachRawRequest
<1>3. ASSUME NEW r \in Run, Advance(r) \/ Correct(r) PROVE UNCHANGED formal
  BY <1>3, MoveFacts, PrepareFacts DEF Advance
<1> QED
  BY <1>1, <1>2, <1>3 DEF Next, View, Crash, Restart, vars

\* Only a preparation captures a basis.
LEMMA BasisSteps ==
    ASSUME TypeInv, [Next]_vars, ~ \E r \in Run : Prepare(r)
    PROVE  UNCHANGED basis
<1>1. ASSUME NEW k \in Key, Arrive(k) PROVE UNCHANGED basis
  BY <1>1, AnswerFacts, SealFacts DEF Arrive, CreateRow
<1>2. CASE Handler
  <2>1. CASE PublishBrief \/ PublishLifecycle
    BY <2>1, ControlFacts
  <2> QED
    BY <1>2, <2>1, CreateRunFacts, FenceFacts DEF Handler, BootstrapBrief, AttachRawRequest
<1>3. ASSUME NEW r \in Run, Advance(r) \/ Correct(r) PROVE UNCHANGED basis
  BY <1>3, MoveFacts, PublishFacts DEF Advance
<1> QED
  BY <1>1, <1>2, <1>3 DEF Next, View, Crash, Restart, vars

\* What a run froze at the head of the log is what is current at that head.
BasisInv ==
    \A r \in Run : basis[r] # None =>
        /\ basis[r].head <= FormalHead
        /\ basis[r].head = FormalHead => basis[r].slots = current /\ basis[r].listing = listing

CatalogInv == BasisInv /\ CatalogMirrorsMethods

\* At first no basis is captured and the catalogue lists what the bootstrap made.
LEMMA CatalogInit == Init => CatalogInv
<1> SUFFICES ASSUME Init PROVE CatalogInv
  OBVIOUS
<1>1. BasisInv
  BY DEF Init, BasisInv
<1>2. CatalogMirrorsMethods
  <2> SUFFICES ASSUME NEW m \in Method, Catalogued(m)
               PROVE  listing[m] = [of |-> current[MethodSlot(m)], state |-> lifecycle[m]]
    BY DEF CatalogMirrorsMethods
  <2>1. PICK known \in SUBSET Method, state \in [Method -> {"proposed", "active"}] :
           /\ current = [s \in Slot |->
                  IF \/ s = Brief
                     \/ s = Catalog /\ known # {}
                     \/ \E n \in known : s = MethodSlot(n)
                  THEN Bootstrap ELSE None]
           /\ lifecycle = [n \in Method |-> IF n \in known THEN state[n] ELSE "proposed"]
           /\ listing = [n \in Method |->
                  [of |-> IF n \in known THEN Bootstrap ELSE None,
                   state |-> IF n \in known THEN state[n] ELSE "proposed"]]
    BY DEF Init
  <2>2. MethodSlot(m) \in Slot /\ MethodSlot(m) # Brief /\ MethodSlot(m) # Catalog
        /\ \A n \in Method : MethodSlot(m) = MethodSlot(n) => m = n
    BY DEF MethodSlot, Slot, Brief, Catalog
  <2>3. m \in known /\ current[MethodSlot(m)] = Bootstrap
    BY <2>1, <2>2 DEF Catalogued
  <2> QED
    BY <2>1, <2>3
<1> QED
  BY <1>1, <1>2 DEF CatalogInv

\* A commit leaves every basis behind.
LEMMA BasisBehind ==
    ASSUME TypeInv, BasisInv, UNCHANGED basis,
           NEW o, NEW reads, NEW writes, Commit(o, reads, writes)
    PROVE  BasisInv'
<1>1. FormalHead \in Nat /\ FormalHead' = FormalHead + 1
  BY CommitFacts DEF TypeInv, FormalHead
<1>2. \A r \in Run : basis[r] # None => basis[r].head \in Nat
  BY DEF TypeInv, TypeOK, Basis
<1> QED
  BY <1>1, <1>2 DEF BasisInv

\* Each step keeps the captured bases behind the records.
LEMMA BasisStep == TypeInv /\ BasisInv /\ [Next]_vars => BasisInv'
<1> SUFFICES ASSUME TypeInv, BasisInv, [Next]_vars PROVE BasisInv'
  OBVIOUS
<1>1. ASSUME NEW r \in Run, Prepare(r) PROVE BasisInv'
  <2>1. /\ UNCHANGED formal /\ basis'[r] = CapturedBasis
        /\ \A q \in Run \ {r} : basis'[q] = basis[q]
    BY <1>1, PrepareFacts DEF TypeInv, TypeOK
  <2>2. /\ CapturedBasis.head = FormalHead /\ CapturedBasis.slots = current
        /\ CapturedBasis.listing = listing /\ FormalHead \in Nat
    BY HeadType DEF CapturedBasis, TypeInv
  <2> QED
    BY <2>1, <2>2 DEF BasisInv, FormalHead
<1>2. CASE PublishBrief \/ PublishLifecycle
  <2>1. UNCHANGED basis
    BY <1>2, ControlFacts
  <2>2. CASE UNCHANGED formal
    BY <2>1, <2>2 DEF BasisInv, FormalHead
  <2> QED
    BY <1>2, <2>1, <2>2, ControlFacts, BasisBehind
<1>3. ASSUME NEW r \in Run, PublishRun(r) PROVE BasisInv'
  BY <1>3, PublishFacts, BasisBehind
<1>4. CASE ~PublishBrief /\ ~PublishLifecycle /\ (~ \E r \in Run : PublishRun(r))
           /\ (~ \E r \in Run : Prepare(r))
  BY <1>4, OtherSteps, BasisSteps DEF BasisInv, FormalHead
<1> QED
  BY <1>1, <1>2, <1>3, <1>4

\* A method's slot is none of the others.
LEMMA SlotFacts ==
    ASSUME NEW m \in Method
    PROVE  /\ MethodSlot(m) \in Slot /\ MethodSlot(m) # Brief /\ MethodSlot(m) # Catalog
           /\ \A n : MethodSlot(m) # TheorySlot(n)
           /\ \A n : MethodSlot(m) = MethodSlot(n) => m = n
BY DEF MethodSlot, TheorySlot, Slot, Brief, Catalog

\* A command changes the record, its entry in the catalogue and the lifecycle
\* state of one method (change_method_lifecycle); a new brief none of them.
LEMMA CatalogControl ==
    ASSUME TypeInv, CatalogMirrorsMethods, PublishBrief \/ PublishLifecycle
    PROVE  CatalogMirrorsMethods'
<1>1. CASE PublishBrief
  <2>1. UNCHANGED <<lifecycle, listing>> /\ \A m \in Method : current'[MethodSlot(m)] = current[MethodSlot(m)]
    BY <1>1, SlotFacts DEF PublishBrief, Commit
  <2> QED
    BY <2>1 DEF CatalogMirrorsMethods, Catalogued
<1>2. CASE PublishLifecycle /\ ~UNCHANGED formal
  <2> DEFINE k == busy.key
             m == request[k].on
  <2>1. ChangeLifecycle(m)
    BY <1>2 DEF PublishLifecycle
  <2>2. m \in Method
    BY <1>2, ServedFacts DEF PublishLifecycle, TypeInv, BusyInv, RequestInv, OnMethod
  <2>3. /\ current'[MethodSlot(m)] = k
        /\ \A n \in Method \ {m} : current'[MethodSlot(n)] = current[MethodSlot(n)]
    BY <2>1, <2>2, SlotFacts DEF ChangeLifecycle, Commit
  <2>4. /\ lifecycle'[m] = Toggled(lifecycle[m])
        /\ listing'[m] = [of |-> k, state |-> Toggled(lifecycle[m])]
        /\ \A n \in Method \ {m} : lifecycle'[n] = lifecycle[n] /\ listing'[n] = listing[n]
    BY <2>1, <2>2 DEF ChangeLifecycle, TypeInv, TypeOK, Listing
  <2> QED
    BY <2>3, <2>4 DEF CatalogMirrorsMethods, Catalogued
<1>3. CASE UNCHANGED formal
  BY <1>3 DEF CatalogMirrorsMethods, Catalogued
<1> QED
  BY <1>1, <1>2, <1>3

\* A run computes the catalogue from the one that it froze, which is the current
\* one if its basis holds (reduce_method_index).
LEMMA CatalogPublish ==
    ASSUME TypeInv, BasisInv, CatalogMirrorsMethods, NEW r \in Run, PublishRun(r)
    PROVE  CatalogMirrorsMethods'
<1>1. basis[r] # None /\ basis[r].listing = listing
  BY PublishFacts, NoneAssumption DEF BasisHolds, BasisInv
<1>2. current' = [s \in Slot |-> IF s \in Targets(r) THEN r ELSE current[s]]
  BY PublishFacts DEF Commit
<1>3. CASE Phase2(r)
  <2>1. \A m \in Method : current'[MethodSlot(m)] =
            IF m \in DOMAIN output[r] THEN r ELSE current[MethodSlot(m)]
    BY <1>2, <1>3, SlotFacts DEF Targets
  <2>2. \A m \in Method :
            /\ lifecycle'[m] = IF m \in DOMAIN output[r] THEN output[r][m] ELSE lifecycle[m]
            /\ listing'[m] = IF m \in DOMAIN output[r] THEN [of |-> r, state |-> output[r][m]]
                             ELSE listing[m]
    BY <1>1, <1>3 DEF PublishRun, Reduced
  <2> QED
    BY <2>1, <2>2 DEF CatalogMirrorsMethods, Catalogued
<1>4. CASE ~Phase2(r)
  <2>1. UNCHANGED <<lifecycle, listing>> /\ \A m \in Method : current'[MethodSlot(m)] = current[MethodSlot(m)]
    BY <1>2, <1>4, SlotFacts DEF PublishRun, Targets
  <2> QED
    BY <2>1 DEF CatalogMirrorsMethods, Catalogued
<1> QED
  BY <1>3, <1>4

\* Each step keeps the catalogue the mirror of the records.
LEMMA CatalogStep == TypeInv /\ CatalogInv /\ [Next]_vars => CatalogInv'
<1> SUFFICES ASSUME TypeInv, CatalogInv, [Next]_vars PROVE CatalogMirrorsMethods'
  BY BasisStep DEF CatalogInv
<1>1. CASE PublishBrief \/ PublishLifecycle
  BY <1>1, CatalogControl DEF CatalogInv
<1>2. ASSUME NEW r \in Run, PublishRun(r) PROVE CatalogMirrorsMethods'
  BY <1>2, CatalogPublish DEF CatalogInv
<1>3. CASE UNCHANGED formal
  BY <1>3 DEF CatalogInv, CatalogMirrorsMethods, Catalogued
<1> QED
  BY <1>1, <1>2, <1>3, OtherSteps

\* The catalogue lists the current record of every method in its current
\* lifecycle state, whoever published last (index_reducers.py, method_lifecycle.py).
THEOREM CatalogAlwaysMirrors == Spec => []CatalogMirrorsMethods
<1>1. CatalogInv => CatalogMirrorsMethods
  BY DEF CatalogInv
<1> QED
  BY TypeInit, TypeStep, CatalogInit, CatalogStep, <1>1, PTL DEF Spec

-----------------------------------------------------------------------------
(* What is told is so.                                                     *)

\* A request that was answered with success has had its effect.
Answered ==
    \A k \in Key : answer[k] = "accepted" =>
        /\ request[k].op \in StartOp => RunOf(k) # {}
        /\ request[k].op \in ControlOp => Receipted(k)

\* No command has two runs.
Single == \A q, r \in Run : q # r /\ command[q] # None => command[q] # command[r]

\* A run is told as published if it was, and only if it was.
Settled ==
    \A r \in Run :
        /\ Receipted(r) => status[r] \in {"promoting", "published"}
        /\ status[r] = "published" => Receipted(r)

\* What a client is told, in the three parts that are proved one by one.
LEMMA ToldParts == ToldIsSo <=> Answered /\ Single /\ Settled
BY DEF ToldIsSo, Answered, Single, Settled

\* At first nobody was told anything.
LEMMA ToldInit == Init => ToldIsSo
<1> SUFFICES ASSUME Init PROVE Answered /\ Single /\ Settled
  BY ToldParts
<1>1. \A o : ~Receipted(o)
  BY DEF Init, Receipted
<1> QED
  BY <1>1 DEF Init, Answered, Single, Settled

\* A request is answered with success only when its effect is there.
LEMMA AnsweredStep == TypeInv /\ Answered /\ [Next]_vars => Answered'
<1> SUFFICES ASSUME TypeInv, Answered, [Next]_vars PROVE Answered'
  OBVIOUS
<1>1. ASSUME NEW k \in Key, NEW op \in Op, NEW on \in Method \cup Run \cup {None}, View(k, op, on)
      PROVE  Answered'
  <2>1. /\ answer[k] = "none" /\ \A j \in Key \ {k} : request'[j] = request[j]
        /\ UNCHANGED <<formal, runs, answer>>
    BY <1>1 DEF View, TypeInv, TypeOK, RequestInv
  <2> QED
    BY <2>1, SameLog DEF TypeInv, Answered, RunOf
<1>2. ASSUME NEW k \in Key, Arrive(k) PROVE Answered'
  <2>1. CASE SealStart(k) \/ SealControl(k) \/ SealCancel(k)
    BY <2>1, SealFacts, SameLog DEF TypeInv, Answered, RunOf
  <2>2. CASE CreateRow(k)
    BY <2>2, SameLog DEF CreateRow, TypeInv, Answered, RunOf
  <2>3. CASE \/ ReplayStart(k) \/ RefuseStart(k) \/ SealStartAgain(k)
             \/ ReplayControl(k) \/ RefuseControl(k) \/ ReplayCancel(k) \/ RefuseCancel(k)
    <3>1. UNCHANGED <<formal, runs, request>>
      BY <2>3, AnswerFacts
    <3>2. /\ \A j \in Key \ {k} : answer'[j] = answer[j]
          /\ answer'[k] = "accepted" =>
                /\ request[k].op \in StartOp => RunOf(k) # {}
                /\ request[k].op \in ControlOp => Receipted(k)
      <4>1. PICK a : /\ answer' = [answer EXCEPT ![k] = a]
                     /\ a = "accepted" =>
                          /\ request[k].op \in StartOp => RunOf(k) # {}
                          /\ request[k].op \in ControlOp => Receipted(k)
        BY <2>3, AnswerFacts DEF Answer
      <4> QED
        BY <4>1 DEF TypeInv, TypeOK
    <3> QED
      BY <3>1, <3>2, SameLog DEF TypeInv, Answered, RunOf
  <2> QED
    BY <1>2, <2>1, <2>2, <2>3 DEF Arrive
<1>3. ASSUME NEW r \in Run, CreateRun(r) PROVE Answered'
  <2>1. \A k \in Key : RunOf(k) # {} => RunOf(k)' # {}
    <3>1. \A k \in Key : \A q \in RunOf(k) : q # r
      BY <1>3, CreateRunFacts, NamesAssumption DEF RunOf
    <3>2. \A q \in Run \ {r} : command'[q] = command[q]
      BY <1>3, CreateRunFacts
    <3>3. \A k \in Key : \A q \in RunOf(k) : q \in RunOf(k)'
      BY <3>1, <3>2 DEF RunOf
    <3> QED
      BY <3>3
  <2>2. \A k \in Key : k = busy.key => r \in RunOf(k)'
    BY <1>3, CreateRunFacts DEF RunOf
  <2>3. \A k \in Key \ {busy.key} : answer'[k] = answer[k]
    BY <1>3, CreateRunFacts DEF TypeInv, TypeOK
  <2>4. request[busy.key].op \notin ControlOp
    BY <1>3, CreateRunFacts DEF StartOp, ControlOp
  <2>5. UNCHANGED <<formal, request>> /\ busy.key \in Key
    BY <1>3, CreateRunFacts
  <2> QED
    BY <2>1, <2>2, <2>3, <2>4, <2>5, SameLog DEF TypeInv, Answered
<1>4. CASE PublishBrief \/ PublishLifecycle
  <2> DEFINE k == busy.key
  <2>1. /\ UNCHANGED <<runs, request>> /\ k \in Key /\ request[k].op \in ControlOp
        /\ request[k].op \notin StartOp
    BY <1>4, ControlFacts DEF StartOp, ControlOp
  <2>2. CASE UNCHANGED formal /\ Answer(k, "rejected")
    BY <2>1, <2>2, SameLog DEF Answer, TypeInv, TypeOK, Answered, RunOf
  <2>3. ASSUME NEW slots, Commit(k, CurrentOf(slots), slots), Answer(k, "accepted")
        PROVE  Answered'
    <3>1. \A p : Receipted(p)' <=> Receipted(p) \/ p = k
      BY <2>3, CommitFacts DEF TypeInv
    <3>2. \A j \in Key \ {k} : answer'[j] = answer[j]
      BY <2>3 DEF Answer, TypeInv, TypeOK
    <3> QED
      BY <2>1, <3>1, <3>2 DEF Answered, RunOf
  <2> QED
    BY <1>4, <2>2, <2>3, ControlFacts
<1>5. CASE Fence
  <2>1. /\ busy.key \in Key /\ request[busy.key].op = "cancel"
        /\ \A k \in Key \ {busy.key} : answer'[k] = answer[k]
        /\ UNCHANGED <<formal, command, request>>
    BY <1>5, FenceFacts DEF TypeInv, TypeOK
  <2> QED
    BY <2>1, SameLog DEF TypeInv, Answered, RunOf, StartOp, ControlOp
<1>6. CASE BootstrapBrief
  BY <1>6, SameLog DEF BootstrapBrief, TypeInv, Answered, RunOf
<1>7. CASE AttachRawRequest
  <2>1. busy.key \in Key /\ request[busy.key].op = "create"
    BY <1>7 DEF AttachRawRequest, TypeInv, BusyInv
  <2>2. /\ \A k \in Key \ {busy.key} : answer'[k] = answer[k]
        /\ UNCHANGED <<formal, command, request>>
    BY <1>7 DEF AttachRawRequest, Answer, TypeInv, TypeOK
  <2> QED
    BY <2>1, <2>2, SameLog DEF TypeInv, Answered, RunOf, StartOp, ControlOp
<1>8. ASSUME NEW r \in Run, Advance(r) \/ Correct(r) PROVE Answered'
  <2>1. CASE PublishRun(r)
    <3>1. UNCHANGED <<runs, requests>> /\ \A k \in Key : Receipted(k)' <=> Receipted(k)
      BY <2>1, PublishFacts, CommitFacts, NamesAssumption DEF TypeInv
    <3> QED
      BY <3>1 DEF Answered, RunOf
  <2>2. CASE ~PublishRun(r)
    <3>1. UNCHANGED <<formal, command, requests>>
      BY <1>8, <2>2, MoveFacts, PrepareFacts DEF Advance
    <3> QED
      BY <3>1, SameLog DEF TypeInv, Answered, RunOf
  <2> QED
    BY <2>1, <2>2
<1>9. CASE Crash \/ Restart \/ UNCHANGED vars
  <2>1. UNCHANGED <<formal, runs, requests>>
    BY <1>9 DEF Crash, Restart, vars
  <2> QED
    BY <2>1, SameLog DEF TypeInv, Answered, RunOf
<1> QED
  BY <1>1, <1>2, <1>3, <1>4, <1>5, <1>6, <1>7, <1>8, <1>9 DEF Next, Handler

\* A run is started for a command that has none.
LEMMA SingleStep == TypeInv /\ Single /\ [Next]_vars => Single'
<1> SUFFICES ASSUME TypeInv, Single, [Next]_vars PROVE Single'
  OBVIOUS
<1>1. ASSUME NEW r \in Run, CreateRun(r) PROVE Single'
  BY <1>1, CreateRunFacts DEF Single, RunOf
<1>2. CASE UNCHANGED command
  BY <1>2 DEF Single
<1>3. ASSUME NEW k \in Key, Arrive(k) PROVE UNCHANGED command
  BY <1>3, AnswerFacts, SealFacts DEF Arrive, CreateRow
<1>4. ASSUME Handler, ~ \E r \in Run : CreateRun(r) PROVE UNCHANGED command
  BY <1>4, ControlFacts, FenceFacts DEF Handler, BootstrapBrief, AttachRawRequest
<1>5. ASSUME NEW r \in Run, Advance(r) \/ Correct(r) PROVE UNCHANGED command
  BY <1>5, MoveFacts, PrepareFacts, PublishFacts DEF Advance
<1> QED
  BY <1>1, <1>2, <1>3, <1>4, <1>5 DEF Next, View, Crash, Restart, vars

\* A run settles as published with its receipt, and as conflicted without.
LEMMA SettledStep == TypeInv /\ Settled /\ [Next]_vars => Settled'
<1> SUFFICES ASSUME TypeInv, Settled, [Next]_vars PROVE Settled'
  OBVIOUS
<1>1. ASSUME NEW r \in Run, CreateRun(r) PROVE Settled'
  BY <1>1, CreateRunFacts, SameLog DEF TypeInv, Settled
<1>2. CASE PublishBrief \/ PublishLifecycle
  <2>1. status' = status /\ busy.key \in Key
    BY <1>2, ControlFacts
  <2>2. \A r \in Run : Receipted(r)' <=> Receipted(r)
    BY <1>2, <2>1, ControlFacts, CommitFacts, SameLog, NamesAssumption DEF TypeInv
  <2> QED
    BY <2>1, <2>2 DEF Settled
<1>3. CASE Fence
  <2>1. PICK r \in Run : /\ status[r] \in Cancellable /\ UNCHANGED formal
                         /\ status' = [status EXCEPT ![r] = "cancellation_requested"]
    BY <1>3, FenceFacts
  <2>2. status'[r] = "cancellation_requested" /\ \A q \in Run \ {r} : status'[q] = status[q]
    BY <2>1 DEF TypeInv, TypeOK
  <2> QED
    BY <2>1, <2>2, SameLog DEF TypeInv, Settled, Cancellable
<1>4. ASSUME NEW r \in Run, PublishRun(r) PROVE Settled'
  <2>1. status' = status /\ status[r] = "promoting"
        /\ \A p : Receipted(p)' <=> Receipted(p) \/ p = r
    BY <1>4, PublishFacts, CommitFacts DEF TypeInv
  <2> QED
    BY <2>1 DEF Settled
<1>5. ASSUME NEW r \in Run, Prepare(r) PROVE Settled'
  <2>1. /\ status'[r] = "running" /\ status[r] = "preparing" /\ UNCHANGED formal
        /\ \A q \in Run \ {r} : status'[q] = status[q]
    BY <1>5, PrepareFacts DEF TypeInv, TypeOK
  <2> QED
    BY <2>1, SameLog DEF TypeInv, Settled
<1>6. ASSUME NEW r \in Run,
             \/ Claim(r) \/ PrepareFails(r) \/ Execute(r) \/ Validate(r) \/ Settle(r)
             \/ SettleCancellation(r) \/ Correct(r)
      PROVE  Settled'
  <2>1. PICK to \in RunStatus :
          /\ status' = [status EXCEPT ![r] = to] /\ UNCHANGED formal
          /\ to = "published" => Receipted(r)
          /\ status[r] = "promoting" => to = "published" \/ (to = "conflicted" /\ ~Receipted(r))
          /\ status[r] # "published"
    BY <1>6, MoveFacts
  <2>2. status'[r] = to /\ \A q \in Run \ {r} : status'[q] = status[q]
    BY <2>1 DEF TypeInv, TypeOK
  <2> QED
    BY <2>1, <2>2, SameLog DEF TypeInv, Settled
<1>7. CASE UNCHANGED <<formal, status>>
  BY <1>7, SameLog DEF TypeInv, Settled
<1>8. ASSUME NEW k \in Key, Arrive(k) PROVE UNCHANGED <<formal, status>>
  BY <1>8, AnswerFacts, SealFacts DEF Arrive, CreateRow
<1> QED
  BY <1>1, <1>2, <1>3, <1>4, <1>5, <1>6, <1>7, <1>8
  DEF Next, Handler, Advance, BootstrapBrief, AttachRawRequest, View, Crash, Restart, vars

\* Each step keeps what clients were told true.
LEMMA ToldStep == TypeInv /\ ToldIsSo /\ [Next]_vars => ToldIsSo'
<1>1. ToldIsSo' <=> (Answered /\ Single /\ Settled)'
  BY DEF ToldIsSo, Answered, Single, Settled
<1> QED
  BY <1>1, ToldParts, AnsweredStep, SingleStep, SettledStep

\* A request that was answered with success has had its effect, and a run is told
\* as published if it was and only if it was, whatever was sent again and wherever
\* the server crashed (service.py, run_coordinator.py).
THEOREM ToldIsAlwaysSo == Spec => []ToldIsSo
BY TypeInit, TypeStep, ToldInit, ToldStep, PTL DEF Spec

-----------------------------------------------------------------------------
(* The formal records implement the log.                                   *)

\* At first nothing is logged.
LEMMA LogInit == Init => Log!Init
<1> SUFFICES ASSUME Init PROVE Log!Init
  OBVIOUS
<1>1. current \in [Slot -> Origin \cup {None}]
  BY DEF Init, Origin
<1> QED
  BY <1>1 DEF Init, Log!Init

\* A commit on what is current, by who is not in the log yet, is a step of it.
LEMMA CommitIsLogged ==
    ASSUME LogInv, NEW o, ~Receipted(o), NEW writes, writes # {},
           NEW reads, writes \subseteq DOMAIN reads,
           \A s \in DOMAIN reads : reads[s] = current[s],
           Commit(o, reads, writes)
    PROVE  Log!Next
<1> DEFINE e == receipts'[Len(receipts) + 1]
<1>1. e = Receipt(o, reads, writes) /\ Len(receipts') = Len(receipts) + 1
  BY CommitFacts
<1>2. e.by = o /\ e.reads = reads /\ e.writes = writes
  BY <1>1 DEF Receipt
<1>3. Log!Commit(o, reads, writes)
  BY DEF Log!Commit, Commit, Receipted, Receipt
<1> QED
  BY <1>1, <1>2, <1>3 DEF Log!Next

\* Each step appends one receipt to the log, or leaves it as it is.
LEMMA LogStep == TypeInv /\ BasisInv /\ [Next]_vars => [Log!Next]_<<receipts, current>>
<1> SUFFICES ASSUME TypeInv, BasisInv, [Next]_vars
             PROVE  Log!Next \/ UNCHANGED <<receipts, current>>
  OBVIOUS
<1>1. CASE PublishBrief \/ PublishLifecycle
  <2>1. ASSUME NEW slots \in SUBSET Slot, slots # {}, Commit(busy.key, CurrentOf(slots), slots)
        PROVE  Log!Next
    <3>1. DOMAIN CurrentOf(slots) = slots /\ \A s \in slots : CurrentOf(slots)[s] = current[s]
      BY DEF CurrentOf
    <3> QED
      BY <1>1, <2>1, <3>1, ControlFacts, CommitIsLogged DEF TypeInv
  <2> QED
    BY <1>1, <2>1, ControlFacts
<1>2. ASSUME NEW r \in Run, PublishRun(r) PROVE Log!Next
  <2> DEFINE reads == [s \in Inputs(r) \cup Targets(r) |-> basis[r].slots[s]]
  <2>1. basis[r] # None /\ basis[r].slots = current
    BY <1>2, PublishFacts, NoneAssumption DEF BasisHolds, BasisInv
  <2>2. \A s \in DOMAIN reads : reads[s] = current[s]
    BY <2>1
  <2>3. Targets(r) # {} /\ Targets(r) \subseteq DOMAIN reads
    BY <1>2, PublishFacts, TargetFacts
  <2>4. ~Receipted(r) /\ Commit(r, reads, Targets(r))
    BY <1>2, PublishFacts
  <2> QED
    BY <2>2, <2>3, <2>4, CommitIsLogged DEF TypeInv
<1> QED
  BY <1>1, <1>2, OtherSteps

\* The publications of a project are one serial log: each is computed from the
\* generations that it rests on and replaces, and none is there twice
\* (publication_transaction, _verify_basis).
THEOREM PublicationImplementsLog == Spec => ImplementsLog
<1>1. CatalogInv => BasisInv
  BY DEF CatalogInv
<1> QED
  BY TypeInit, TypeStep, CatalogInit, CatalogStep, LogInit, LogStep, <1>1, PTL
  DEF Spec, ImplementsLog, Log!Spec
=============================================================================
