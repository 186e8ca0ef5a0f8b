------------------------ MODULE DiagnosticLaneProofs ------------------------
(***************************************************************************)
(* Proofs about DiagnosticLane, for any number of start commands, keys and *)
(* cancel commands and any number of kills, faults and lost leases.        *)
(*                                                                         *)
(* TypeOK is not inductive: a command writes a status only into a row that *)
(* is there.  KnownInv says which rows are, and TypeInv joins the two.     *)
(* The other invariants rest on it and, from one to the next, on each      *)
(* other: LockInv (who is past the lock holds it), AliveInv (where a       *)
(* living process may find its command), ProfileInv and CopyInv (where a   *)
(* promotion has put the profile), EndInv (which statuses each point may   *)
(* meet when nothing failed).                                              *)
(***************************************************************************)
EXTENDS DiagnosticLane, TLAPS

USE DEF disk, history, At

-----------------------------------------------------------------------------
(* The tables and the program counter.                                     *)

Point == Critical \cup DOMAIN Written \cup {"idle", "create", "lock", "ended", "dead"}

Runner ==
    [at : Point, checked : BOOLEAN, beaten : BOOLEAN, key : Key \cup {None},
     policy : Policy \cup {None}, verdict : {"succeeded", "failed"}]

\* The commands that have no row of their own yet, or none any more.
Rowless == {"idle", "create", "ended", "dead"}

\* The points between the snapshot and the promotion, and those of the promotion.
Working == {"intent", "spawn", "creating", "acknowledging", "poll", "beating", "closing",
            "evaluate"}
Promoting == {"stage", "unbackup", "aside", "in", "clean"}

\* The points at which a start command writes a status.
LEMMA WrittenPoints ==
    DOMAIN Written = {"preflight", "locked", "intent", "creating", "acknowledging", "beating",
                      "closing", "final", "failing"}
BY DEF Written

\* Writing a status, being refused it and failing lead to a known point, and
\* never to one of the promotion or past the lock from before it.
LEMMA Tables ==
    /\ \A p \in DOMAIN Written :
        /\ After[p] \in Point \ ({"idle", "create", "dead"} \cup Promoting)
        /\ OnRefusal[p] \in Point \ ({"idle", "create", "dead"} \cup Promoting)
        /\ p \notin Critical => After[p] \notin Critical /\ OnRefusal[p] \notin Critical
        /\ After[p] \in Working => p \in Working
        /\ OnRefusal[p] \notin Working
        /\ p # "final" => Written[p] \in Status \ {"cancel_requested"}
    /\ \A p \in DOMAIN OnFault :
        /\ OnFault[p] \in Point \ ({"idle", "create", "dead"} \cup Promoting)
        /\ p \notin Critical => OnFault[p] \notin Critical
        /\ OnFault[p] \notin Working
<1>1. \A p \in DOMAIN Written :
        /\ After[p] \in Point \ ({"idle", "create", "dead"} \cup Promoting)
        /\ p \notin Critical => After[p] \notin Critical
        /\ After[p] \in Working => p \in Working
  BY WrittenPoints DEF After, Point, Critical, Promoting, Working
<1>2. \A p \in DOMAIN Written :
        /\ OnRefusal[p] \in Point \ ({"idle", "create", "dead"} \cup Promoting)
        /\ p \notin Critical => OnRefusal[p] \notin Critical
        /\ OnRefusal[p] \notin Working
  BY WrittenPoints DEF OnRefusal, Point, Critical, Promoting, Working
<1>3. \A p \in DOMAIN Written \ {"final"} : Written[p] \in Status \ {"cancel_requested"}
  BY WrittenPoints DEF Written, Status, Terminal, Allowed
<1>4. \A p \in DOMAIN OnFault :
        /\ OnFault[p] \in Point \ ({"idle", "create", "dead"} \cup Promoting)
        /\ p \notin Critical => OnFault[p] \notin Critical
        /\ OnFault[p] \notin Working
  BY DEF OnFault, Point, Critical, Promoting, Working
<1> QED
  BY <1>1, <1>2, <1>3, <1>4

\* What a start command writes is a status, and no request of a cancellation.
LEMMA ToIsStatus ==
    ASSUME TypeOK, NEW s \in Start, runner[s].at \in DOMAIN Written
    PROVE  To(s) \in Status \ {"cancel_requested"}
<1>1. runner[s].verdict \in {"succeeded", "failed"}
  BY DEF TypeOK
<1>2. {"succeeded", "failed"} \subseteq Status \ {"cancel_requested"}
  BY DEF Status, Terminal
<1> QED
  BY <1>1, <1>2, Tables DEF To

\* A step of one command to a point.
LEMMA GotoFacts ==
    ASSUME TypeOK, NEW s \in Start, NEW p \in Point, Goto(s, p)
    PROVE  /\ runner' \in [Start -> Runner]
           /\ runner'[s].at = p
           /\ \A t \in Start \ {s} : runner'[t] = runner[t]
           /\ p \notin {"ended", "dead"} =>
                /\ ~runner'[s].checked
                /\ runner'[s].key = runner[s].key
                /\ runner'[s].policy = runner[s].policy
                /\ runner'[s].verdict = runner[s].verdict
<1>1. runner \in [Start -> Runner]
  BY DEF TypeOK, Runner, Point
<1>2. CASE p \in {"ended", "dead"}
  BY <1>1, <1>2 DEF Goto, Out, Runner
<1>3. CASE p \notin {"ended", "dead"}
  BY <1>1, <1>3 DEF Goto, Runner
<1> QED
  BY <1>2, <1>3

\* A step of one command to its terminal status, with the verdict.
LEMMA VerdictFacts ==
    ASSUME TypeOK, NEW s \in Start, NEW v \in {"succeeded", "failed"}, Verdict(s, v)
    PROVE  /\ runner' \in [Start -> Runner]
           /\ runner'[s].at = "final" /\ runner'[s].verdict = v
           /\ runner'[s].policy = runner[s].policy /\ runner'[s].checked = runner[s].checked
           /\ \A t \in Start \ {s} : runner'[t] = runner[t]
<1>1. runner \in [Start -> Runner]
  BY DEF TypeOK, Runner, Point
<1>2. [runner[s] EXCEPT !.at = "final", !.verdict = v] \in Runner
  <2>1. runner[s] \in Runner /\ "final" \in Point
    BY <1>1 DEF Point, Critical
  <2> QED
    BY <2>1 DEF Runner
<1>3. runner' = [runner EXCEPT ![s] = [runner[s] EXCEPT !.at = "final", !.verdict = v]]
  BY DEF Verdict
<1>4. runner'[s] = [runner[s] EXCEPT !.at = "final", !.verdict = v]
  BY <1>1, <1>3
<1>5. runner[s] \in Runner
  BY <1>1
<1>6. /\ runner'[s].at = "final" /\ runner'[s].verdict = v
      /\ runner'[s].policy = runner[s].policy /\ runner'[s].checked = runner[s].checked
  BY <1>4, <1>5 DEF Runner
<1> QED
  BY <1>1, <1>2, <1>3, <1>6

-----------------------------------------------------------------------------
(* The type invariant.                                                     *)

\* Whoever is past its row, has a process or is being cancelled has a row, and
\* no two rows have a key in common.
KnownInv ==
    /\ \A s \in Start : runner[s].at \notin Rowless => row[s] # None
    /\ \A s \in Start : runner[s].at \in {"idle", "create"} => row[s] = None
    /\ \A s \in Start : runner[s].at = "create" => runner[s].key \in Key
    /\ \A s \in Start : hermes[s] # "none" => row[s] # None
    /\ canceller # None => row[canceller.of] # None
    /\ \A s, t \in Start : row[s] # None /\ row[t] # None /\ s # t => row[s].key # row[t].key

TypeInv == TypeOK /\ KnownInv

\* The type of everything that is neither a row nor a command.
ElsewhereType ==
    /\ lock # None => lock \in [by : Start, live : BOOLEAN]
    /\ profile # Absent => profile \subseteq Start
    /\ staging # Absent => staging \subseteq Start
    /\ backup # Absent => backup \subseteq Start
    /\ snapshot \in [Start -> [at : {"none", "runtime", "promoted", "quarantined", "removed"},
                               base : SUBSET Start]]
    /\ lapsed \subseteq Start
    /\ cancels \in 0 .. MaxCancels /\ mishaps \in 0 .. MaxMishaps

LEMMA InitTypeInv == Init => TypeInv
<1> SUFFICES ASSUME Init PROVE TypeInv
  OBVIOUS
<1>1. TypeOK
  BY BoundAssumption DEF Init, TypeOK, Out, BoundAssumption
<1>2. KnownInv
  BY DEF Init, KnownInv, Out, Rowless
<1> QED
  BY <1>1, <1>2 DEF TypeInv

\* A step of one command to a point where it has a row, or is gone, keeps the
\* invariant, if it touches neither rows nor cancellations and starts no process
\* but its own.
LEMMA MoveTypeInv ==
    ASSUME TypeInv, ElsewhereType', NEW s \in Start,
           runner' \in [Start -> Runner],
           \A t \in Start \ {s} : runner'[t] = runner[t],
           runner'[s].at \notin {"idle", "create"},
           row[s] = None => runner'[s].at \in Rowless,
           UNCHANGED <<row, canceller>>,
           hermes' \in [Start -> {"none", "alive", "gone"}],
           \A t \in Start : hermes'[t] # "none" => row[t] # None
    PROVE  TypeInv'
<1>1. TypeOK'
  BY DEF TypeInv, TypeOK, ElsewhereType, Runner, Point
<1>2. KnownInv'
  BY DEF TypeInv, KnownInv, Rowless
<1> QED
  BY <1>1, <1>2 DEF TypeInv

\* A step of a command that makes or writes rows keeps the invariant.
LEMMA RowTypeInv ==
    ASSUME TypeInv, NEW s \in Start, Create(s) \/ Write(s)
    PROVE  TypeInv'
<1> USE DEF TypeInv
<1>1. CASE Create(s) /\ Taken(runner[s].key)
  <2>1. /\ Goto(s, "ended")
        /\ UNCHANGED <<row, lock, disk, snapshot, canceller, hermes, history>>
    BY <1>1 DEF Create
  <2>2. runner' \in [Start -> Runner] /\ runner'[s].at = "ended"
        /\ \A t \in Start \ {s} : runner'[t] = runner[t]
    BY <2>1, GotoFacts DEF Point
  <2>3. ElsewhereType'
    BY <2>1 DEF TypeOK, ElsewhereType
  <2> QED
    BY <2>1, <2>2, <2>3, MoveTypeInv DEF TypeOK, KnownInv, Rowless
<1>2. CASE Create(s) /\ ~Taken(runner[s].key)
  <2> DEFINE new == [key |-> runner[s].key, status |-> "pending"]
  <2>1. /\ row' = [row EXCEPT ![s] = new]
        /\ Goto(s, "preflight") /\ At(s, "create")
        /\ UNCHANGED <<lock, disk, snapshot, canceller, hermes, history>>
    BY <1>2 DEF Create
  <2>2. new \in [key : Key, status : Status] /\ new # None
    BY <2>1, NamesAssumption DEF KnownInv, NamesAssumption, Status, Allowed
  <2>3. runner' \in [Start -> Runner] /\ runner'[s].at = "preflight"
        /\ \A t \in Start \ {s} : runner'[t] = runner[t]
    BY <2>1, GotoFacts, WrittenPoints DEF Point
  <2>4. TypeOK'
    BY <2>1, <2>2, <2>3 DEF TypeOK, Runner, Point
  <2>5. KnownInv'
    <3>1. row'[s] = new /\ \A t \in Start \ {s} : row'[t] = row[t]
      BY <2>1 DEF TypeOK
    <3>2. \A t \in Start : row[t] # None => row[t].key # runner[s].key
      BY <1>2 DEF Taken
    <3> HIDE DEF new
    <3>3. new.key = runner[s].key
      BY DEF new
    <3> QED
      BY <2>1, <2>2, <2>3, <3>1, <3>2, <3>3 DEF KnownInv, Rowless
  <2> QED
    BY <2>4, <2>5
<1>3. CASE Write(s)
  <2>1. /\ row' = [row EXCEPT ![s].status = To(s)]
        /\ runner[s].at \in DOMAIN Written
        /\ Goto(s, After[runner[s].at])
        /\ UNCHANGED <<lock, disk, snapshot, canceller, hermes, history>>
    BY <1>3 DEF Write
  <2>2. runner' \in [Start -> Runner] /\ runner'[s].at = After[runner[s].at]
        /\ runner'[s].at \notin {"idle", "create"}
        /\ \A t \in Start \ {s} : runner'[t] = runner[t]
    BY <2>1, GotoFacts, Tables
  <2>3. row[s] # None /\ row[s] \in [key : Key, status : Status]
    <3>1. runner[s].at \notin Rowless
      BY <2>1, WrittenPoints DEF Rowless
    <3>2. row[s] # None
      BY <3>1 DEF KnownInv
    <3> QED
      BY <3>2 DEF TypeOK
  <2>4. To(s) \in Status
    BY <2>1, ToIsStatus
  <2>5. /\ row' \in [Start -> [key : Key, status : Status] \cup {None}]
        /\ row'[s].key = row[s].key
        /\ row'[s] \in [key : Key, status : Status]
        /\ \A t \in Start \ {s} : row'[t] = row[t]
    BY <2>1, <2>3, <2>4 DEF TypeOK
  <2>6. row'[s] # None
    <3>1. row'[s] = [key |-> row'[s].key, status |-> row'[s].status]
      BY <2>5
    <3> QED
      BY <2>5, <3>1, NamesAssumption DEF NamesAssumption
  <2>7. TypeOK'
    BY <2>1, <2>2, <2>5 DEF TypeOK, Runner, Point
  <2>8. KnownInv'
    BY <2>1, <2>2, <2>3, <2>5, <2>6 DEF KnownInv, Rowless
  <2> QED
    BY <2>7, <2>8
<1> QED
  BY <1>1, <1>2, <1>3

\* So do the steps that go to a point and those that settle the verdict.
LEMMA GotoTypeInv ==
    ASSUME TypeInv, ElsewhereType', NEW s \in Start, NEW p \in Point \ {"idle", "create"},
           Goto(s, p), row[s] # None \/ p \in Rowless,
           UNCHANGED <<row, canceller>>,
           hermes' = hermes \/ (row[s] # None /\ \E h \in {"alive", "gone", hermes[s]} :
                                    hermes' = [hermes EXCEPT ![s] = h])
    PROVE  TypeInv'
<1>1. /\ runner' \in [Start -> Runner]
      /\ \A t \in Start \ {s} : runner'[t] = runner[t]
      /\ runner'[s].at = p
  BY GotoFacts DEF TypeInv
<1>2. hermes' \in [Start -> {"none", "alive", "gone"}]
  BY DEF TypeInv, TypeOK
<1>3. \A t \in Start : hermes'[t] # "none" => row[t] # None
  BY DEF TypeInv, TypeOK, KnownInv
<1> QED
  BY <1>1, <1>2, <1>3, MoveTypeInv

LEMMA VerdictTypeInv ==
    ASSUME TypeInv, ElsewhereType', NEW s \in Start, NEW v \in {"succeeded", "failed"},
           Verdict(s, v), row[s] # None, UNCHANGED <<row, canceller, hermes>>
    PROVE  TypeInv'
<1>1. /\ runner' \in [Start -> Runner] /\ runner'[s].at = "final"
      /\ \A t \in Start \ {s} : runner'[t] = runner[t]
  BY VerdictFacts DEF TypeInv
<1> QED
  BY <1>1, MoveTypeInv DEF TypeInv, TypeOK, KnownInv

\* A command past its row has one.
LEMMA HasRow ==
    ASSUME TypeInv, NEW s \in Start,
           runner[s].at \in DOMAIN Written \cup Critical \cup {"lock"}
    PROVE  row[s] # None
<1>1. runner[s].at \notin Rowless
  BY WrittenPoints DEF Rowless, Critical
<1> QED
  BY <1>1 DEF TypeInv, KnownInv

\* A step of a command through the lock keeps the invariant.
LEMMA LockTypeInv ==
    ASSUME TypeInv, NEW s \in Start,
           Check(s) \/ Refused(s) \/ AcquireLock(s) \/ ProfileLockHeld(s) \/ Release(s)
    PROVE  TypeInv'
<1>1. TypeOK
  BY DEF TypeInv
<1>2. CASE Check(s)
  <2>1. runner \in [Start -> Runner]
    BY <1>1 DEF TypeOK, Runner, Point
  <2>2. runner' \in [Start -> Runner] /\ runner'[s].at = runner[s].at
        /\ \A t \in Start \ {s} : runner'[t] = runner[t]
    BY <1>2, <2>1 DEF Check, Runner
  <2>3. row[s] # None /\ runner[s].at \notin Rowless
    BY <1>2, HasRow, WrittenPoints DEF Check, Rowless
  <2>4. ElsewhereType'
    BY <1>1, <1>2 DEF Check, TypeOK, ElsewhereType
  <2> QED
    BY <1>1, <1>2, <2>2, <2>3, <2>4, MoveTypeInv DEF Check, TypeInv, TypeOK, KnownInv, Rowless
<1>3. CASE Refused(s)
  <2>1. row[s] # None /\ OnRefusal[runner[s].at] \in Point \ {"idle", "create"}
    BY <1>3, HasRow, Tables DEF Refused
  <2>2. ElsewhereType'
    BY <1>1, <1>3 DEF Refused, TypeOK, ElsewhereType
  <2> QED
    BY <1>3, <2>1, <2>2, GotoTypeInv DEF Refused
<1>4. CASE AcquireLock(s)
  <2>1. row[s] # None /\ ElsewhereType'
    BY <1>1, <1>4, HasRow DEF AcquireLock, TypeOK, ElsewhereType
  <2> QED
    BY <1>4, <2>1, GotoTypeInv DEF AcquireLock, Point, Critical
<1>5. CASE ProfileLockHeld(s)
  <2>1. row[s] # None /\ ElsewhereType'
    BY <1>1, <1>5, HasRow DEF ProfileLockHeld, TypeOK, ElsewhereType
  <2> QED
    BY <1>5, <2>1, GotoTypeInv, WrittenPoints DEF ProfileLockHeld, Point
<1>6. CASE Release(s)
  <2>1. ElsewhereType'
    BY <1>1, <1>6 DEF Release, TypeOK, ElsewhereType
  <2> QED
    BY <1>6, <2>1, GotoTypeInv DEF Release, Point, Rowless
<1> QED
  BY <1>2, <1>3, <1>4, <1>5, <1>6

\* A step of the snapshot and the execution keeps the invariant.
LEMMA ExecutionTypeInv ==
    ASSUME TypeInv, NEW s \in Start,
           \/ Snapshot(s) \/ Spawn(s) \/ ExecutorRefuses(s) \/ Terminate(s) \/ Result(s)
           \/ Heartbeat(s) \/ HermesWorks(s) \/ Exit(s)
    PROVE  TypeInv'
<1>1. TypeOK
  BY DEF TypeInv
<1>2. CASE Snapshot(s)
  <2>1. row[s] # None
    BY <1>2, HasRow DEF Snapshot, Critical
  <2>2. ElsewhereType'
    <3>1. CASE UNCHANGED snapshot
      BY <1>1, <1>2, <3>1 DEF Snapshot, TypeOK, ElsewhereType
    <3>2. CASE profile # Absent /\ ~UNCHANGED snapshot
      <4>1. PICK b \in SUBSET Start :
                snapshot' = [snapshot EXCEPT ![s] = [at |-> "runtime", base |-> b]]
        BY <1>1, <1>2, <3>2 DEF Snapshot, TypeOK
      <4> QED
        BY <1>1, <1>2, <4>1 DEF Snapshot, TypeOK, ElsewhereType
    <3> QED
      BY <1>2, <3>1, <3>2 DEF Snapshot
  <2> QED
    BY <1>2, <2>1, <2>2, GotoTypeInv DEF Snapshot, Point, Critical
<1>3. CASE Spawn(s)
  <2>1. row[s] # None
    BY <1>3, HasRow DEF Spawn, Critical
  <2>2. ElsewhereType'
    BY <1>1, <1>3 DEF Spawn, TypeOK, ElsewhereType
  <2> QED
    BY <1>3, <2>1, <2>2, GotoTypeInv DEF Spawn, Point, Critical
<1>4. CASE ExecutorRefuses(s)
  <2>1. row[s] # None
    BY <1>4, HasRow DEF ExecutorRefuses, Critical
  <2>2. ElsewhereType'
    BY <1>1, <1>4 DEF ExecutorRefuses, TypeOK, ElsewhereType
  <2> QED
    BY <1>4, <2>1, <2>2, GotoTypeInv DEF ExecutorRefuses, Point, Critical
<1>5. CASE Terminate(s)
  <2>1. row[s] # None
    BY <1>5, HasRow DEF Terminate, Critical
  <2>2. ElsewhereType'
    BY <1>1, <1>5 DEF Terminate, TypeOK, ElsewhereType
  <2> QED
    BY <1>5, <2>1, <2>2, GotoTypeInv DEF Terminate, Point, Critical
<1>6. CASE Result(s)
  <2>1. row[s] # None
    BY <1>6, HasRow DEF Result, Critical
  <2>2. ElsewhereType'
    BY <1>1, <1>6 DEF Result, TypeOK, ElsewhereType
  <2> QED
    BY <1>6, <2>1, <2>2, GotoTypeInv DEF Result, Point, Critical
<1>7. CASE Heartbeat(s)
  <2>1. row[s] # None
    BY <1>7, HasRow DEF Heartbeat, Critical
  <2>2. ElsewhereType'
    BY <1>1, <1>7 DEF Heartbeat, TypeOK, ElsewhereType
  <2>3. runner \in [Start -> Runner]
    BY <1>1 DEF TypeOK, Runner, Point
  <2>4. runner' \in [Start -> Runner] /\ runner'[s].at = "beating"
        /\ \A t \in Start \ {s} : runner'[t] = runner[t]
    <3>1. [runner[s] EXCEPT !.at = "beating", !.beaten = TRUE] \in Runner
      <4>1. runner[s] \in Runner /\ "beating" \in Point
        BY <2>3 DEF Point, Critical
      <4> QED
        BY <4>1 DEF Runner
    <3>2. [runner[s] EXCEPT !.at = "beating", !.beaten = TRUE].at = "beating"
      BY <2>3 DEF Runner
    <3>3. runner' = [runner EXCEPT ![s] =
                        [runner[s] EXCEPT !.at = "beating", !.beaten = TRUE]]
      BY <1>7 DEF Heartbeat
    <3> QED
      BY <2>3, <3>1, <3>2, <3>3
  <2> QED
    BY <1>1, <1>7, <2>1, <2>2, <2>4, MoveTypeInv DEF Heartbeat, TypeInv, TypeOK, KnownInv
<1>8. CASE HermesWorks(s)
  <2>1. TypeOK'
    BY <1>1, <1>8 DEF HermesWorks, TypeOK
  <2>2. KnownInv'
    BY <1>8 DEF HermesWorks, TypeInv, KnownInv
  <2> QED
    BY <2>1, <2>2 DEF TypeInv
<1>9. CASE Exit(s)
  <2>1. TypeOK'
    BY <1>1, <1>9 DEF Exit, TypeOK
  <2>2. KnownInv'
    BY <1>1, <1>9 DEF Exit, TypeInv, TypeOK, KnownInv
  <2> QED
    BY <2>1, <2>2 DEF TypeInv
<1> QED
  BY <1>2, <1>3, <1>4, <1>5, <1>6, <1>7, <1>8, <1>9

\* A step of the end keeps the invariant.
LEMMA EndTypeInv ==
    ASSUME TypeInv, NEW s \in Start,
           \/ EvaluateFailed(s) \/ EvaluateSucceeded(s) \/ Stage(s) \/ RemoveBackup(s)
           \/ SetAside(s) \/ MoveIn(s) \/ CleanBackup(s) \/ Quarantine(s)
    PROVE  TypeInv'
<1>1. TypeOK
  BY DEF TypeInv
<1>2. CASE EvaluateFailed(s)
  <2>1. row[s] # None
    BY <1>2, HasRow DEF EvaluateFailed, Critical
  <2>2. ElsewhereType'
    BY <1>1, <1>2 DEF EvaluateFailed, TypeOK, ElsewhereType
  <2> QED
    BY <1>2, <2>1, <2>2, GotoTypeInv, VerdictTypeInv DEF EvaluateFailed, Point, Critical
<1>3. CASE EvaluateSucceeded(s)
  <2>1. row[s] # None
    BY <1>3, HasRow DEF EvaluateSucceeded, Critical
  <2>2. ElsewhereType'
    <3>1. UNCHANGED snapshot \/ snapshot' = [snapshot EXCEPT ![s].at = "removed"]
      BY <1>3 DEF EvaluateSucceeded
    <3>2. snapshot' \in [Start -> [at : {"none", "runtime", "promoted", "quarantined", "removed"},
                                   base : SUBSET Start]]
      BY <1>1, <3>1 DEF TypeOK
    <3> QED
      BY <1>1, <1>3, <3>2 DEF EvaluateSucceeded, TypeOK, ElsewhereType
  <2> QED
    BY <1>3, <2>1, <2>2, GotoTypeInv, VerdictTypeInv DEF EvaluateSucceeded, Point, Critical
<1>4. CASE Stage(s)
  <2>1. row[s] # None
    BY <1>4, HasRow DEF Stage, Critical
  <2>2. ElsewhereType'
    BY <1>1, <1>4 DEF Stage, TypeOK, ElsewhereType
  <2> QED
    BY <1>4, <2>1, <2>2, GotoTypeInv, VerdictTypeInv DEF Stage, Point, Critical
<1>5. CASE RemoveBackup(s)
  <2>1. row[s] # None
    BY <1>5, HasRow DEF RemoveBackup, Critical
  <2>2. ElsewhereType'
    BY <1>1, <1>5 DEF RemoveBackup, TypeOK, ElsewhereType
  <2> QED
    BY <1>5, <2>1, <2>2, GotoTypeInv, VerdictTypeInv DEF RemoveBackup, Point, Critical
<1>6. CASE SetAside(s)
  <2>1. row[s] # None
    BY <1>6, HasRow DEF SetAside, Critical
  <2>2. ElsewhereType'
    BY <1>1, <1>6 DEF SetAside, TypeOK, ElsewhereType
  <2> QED
    BY <1>6, <2>1, <2>2, GotoTypeInv, VerdictTypeInv DEF SetAside, Point, Critical
<1>7. CASE MoveIn(s)
  <2>1. row[s] # None
    BY <1>7, HasRow DEF MoveIn, RolledBack, Critical
  <2>2. ElsewhereType'
    BY <1>1, <1>7 DEF MoveIn, RolledBack, TypeOK, ElsewhereType
  <2> QED
    BY <1>7, <2>1, <2>2, GotoTypeInv, VerdictTypeInv DEF MoveIn, RolledBack, Point, Critical
<1>8. CASE CleanBackup(s)
  <2>1. row[s] # None
    BY <1>8, HasRow DEF CleanBackup, Critical
  <2>2. ElsewhereType'
    <3>1. ElsewhereType
      BY <1>1 DEF TypeOK, ElsewhereType
    <3> QED
      BY <1>8, <3>1 DEF CleanBackup, ElsewhereType
  <2> QED
    BY <1>8, <2>1, <2>2, GotoTypeInv, VerdictTypeInv DEF CleanBackup, Point, Critical
<1>9. CASE Quarantine(s)
  <2>1. row[s] # None
    BY <1>9, HasRow DEF Quarantine, Critical
  <2>2. ElsewhereType'
    BY <1>1, <1>9 DEF Quarantine, TypeOK, ElsewhereType
  <2> QED
    BY <1>9, <2>1, <2>2, GotoTypeInv, VerdictTypeInv DEF Quarantine, Point, Critical
<1> QED
  BY <1>2, <1>3, <1>4, <1>5, <1>6, <1>7, <1>8, <1>9

\* A start, a kill and a failed operation keep the invariant.
LEMMA FaultTypeInv ==
    ASSUME TypeInv, NEW s \in Start,
           \/ \E k \in Key, p \in Policy : Submit(s, k, p)
           \/ PromotionFails(s) \/ Fault(s) \/ KillStart(s)
    PROVE  TypeInv'
<1>1. TypeOK
  BY DEF TypeInv
<1>2. ASSUME Mishap PROVE cancels' \in 0 .. MaxCancels /\ mishaps' \in 0 .. MaxMishaps
  BY <1>1, <1>2, BoundAssumption DEF Mishap, TypeOK, BoundAssumption
<1>3. ASSUME NEW k \in Key, NEW p \in Policy, Submit(s, k, p) PROVE TypeInv'
  <2>1. ElsewhereType'
    BY <1>1, <1>3 DEF Submit, TypeOK, ElsewhereType
  <2>2. CASE Taken(k)
    BY <1>3, <2>1, <2>2, GotoTypeInv DEF Submit, Point, Rowless
  <2>3. CASE ~Taken(k)
    <3>1. runner \in [Start -> Runner] /\ runner[s].at = "idle"
      BY <1>1, <1>3 DEF Submit, TypeOK, Runner, Point
    <3>2. /\ runner' \in [Start -> Runner] /\ runner'[s].at = "create" /\ runner'[s].key = k
          /\ \A t \in Start \ {s} : runner'[t] = runner[t]
      <4>1. runner' = [runner EXCEPT ![s] = [@ EXCEPT !.at = "create", !.key = k, !.policy = p]]
        BY <1>3, <2>3 DEF Submit
      <4>2. [runner[s] EXCEPT !.at = "create", !.key = k, !.policy = p] \in Runner
        BY <3>1 DEF Runner, Point
      <4> QED
        BY <3>1, <4>1, <4>2
    <3>3. TypeOK'
      BY <1>1, <1>3, <3>2 DEF Submit, TypeOK, Runner, Point
    <3>4. KnownInv'
      BY <1>3, <3>1, <3>2 DEF Submit, TypeInv, KnownInv, Rowless
    <3> QED
      BY <3>3, <3>4 DEF TypeInv
  <2> QED
    BY <2>2, <2>3
<1>4. CASE PromotionFails(s)
  <2>1. row[s] # None
    BY <1>4, HasRow DEF PromotionFails, Critical
  <2>2. ElsewhereType'
    BY <1>1, <1>2, <1>4 DEF PromotionFails, RolledBack, TypeOK, ElsewhereType
  <2> QED
    BY <1>4, <2>1, <2>2, VerdictTypeInv DEF PromotionFails, RolledBack
<1>5. CASE Fault(s)
  <2>1. ElsewhereType'
    BY <1>1, <1>2, <1>5 DEF Fault, TypeOK, ElsewhereType
  <2>2. OnFault[runner[s].at] \in Point \ {"idle", "create"}
    BY <1>5, Tables DEF Fault
  <2>3. row[s] # None
    <3>1. runner[s].at \in DOMAIN Written \cup Critical \cup {"lock"}
      BY <1>5, WrittenPoints DEF Fault, OnFault, Critical
    <3> QED
      BY <3>1, HasRow
  <2> QED
    BY <1>5, <2>1, <2>2, <2>3, GotoTypeInv DEF Fault
<1>6. CASE KillStart(s)
  <2>1. ElsewhereType'
    BY <1>1, <1>2, <1>6 DEF KillStart, TypeOK, ElsewhereType
  <2> QED
    BY <1>6, <2>1, GotoTypeInv DEF KillStart, Point, Rowless
<1> QED
  BY <1>3, <1>4, <1>5, <1>6

\* A cancel command, the end of a lease and its removal keep the invariant.
LEMMA OthersTypeInv ==
    ASSUME TypeInv,
           \/ \E s \in Start : Cancel(s)
           \/ CancelChecks \/ CancelWrites \/ Expire \/ Lapse \/ ReconcileLocks \/ KillCancel
    PROVE  TypeInv'
<1> USE DEF TypeInv
<1>1. ASSUME Mishap PROVE cancels' \in 0 .. MaxCancels /\ mishaps' \in 0 .. MaxMishaps
  BY <1>1, BoundAssumption DEF Mishap, TypeOK, BoundAssumption
<1>2. ASSUME NEW s \in Start, Cancel(s) PROVE TypeInv'
  <2>1. cancels' \in 0 .. MaxCancels
    BY <1>2, BoundAssumption DEF Cancel, TypeOK, BoundAssumption
  <2>2. TypeOK'
    BY <1>2, <2>1 DEF Cancel, TypeOK
  <2>3. KnownInv'
    BY <1>2 DEF Cancel, KnownInv
  <2> QED
    BY <2>2, <2>3
<1>3. CASE CancelChecks
  <2>1. TypeOK'
    BY <1>3 DEF CancelChecks, TypeOK
  <2>2. KnownInv'
    BY <1>3 DEF CancelChecks, TypeOK, KnownInv
  <2> QED
    BY <2>1, <2>2
<1>4. CASE CancelWrites
  <2> DEFINE s == canceller.of
  <2>1. s \in Start /\ row[s] # None /\ row[s] \in [key : Key, status : Status]
        /\ canceller.to \in Status
    BY <1>4 DEF CancelWrites, TypeOK, KnownInv, Status, Allowed, Terminal
  <2>2. /\ row' \in [Start -> [key : Key, status : Status] \cup {None}]
        /\ row'[s].key = row[s].key
        /\ row'[s] \in [key : Key, status : Status]
        /\ \A t \in Start \ {s} : row'[t] = row[t]
    BY <1>4, <2>1 DEF CancelWrites, TypeOK
  <2>3. row'[s] # None
    <3>1. row'[s] = [key |-> row'[s].key, status |-> row'[s].status]
      BY <2>2
    <3> QED
      BY <2>2, <3>1, NamesAssumption DEF NamesAssumption
  <2>4. canceller' # None =>
            canceller' \in [of : Start, checked : BOOLEAN, to : {"cancel_requested", "cancelled"}]
            /\ canceller'.of = s
    BY <1>4 DEF CancelWrites, TypeOK
  <2>5. TypeOK'
    BY <1>4, <2>2, <2>4 DEF CancelWrites, TypeOK
  <2> HIDE DEF s
  <2>6. KnownInv'
    BY <1>4, <2>1, <2>2, <2>3, <2>4 DEF CancelWrites, KnownInv, Rowless
  <2> QED
    BY <2>5, <2>6
<1>5. CASE Expire
  <2>1. lock' # None => lock' \in [by : Start, live : BOOLEAN]
    BY <1>5 DEF Expire, Abandoned, TypeOK
  <2>2. TypeOK'
    BY <1>5, <2>1 DEF Expire, TypeOK
  <2>3. KnownInv'
    BY <1>5 DEF Expire, KnownInv
  <2> QED
    BY <2>2, <2>3
<1>6. CASE Lapse
  BY <1>1, <1>6 DEF Lapse, TypeOK, KnownInv
<1>7. CASE ReconcileLocks
  BY <1>7 DEF ReconcileLocks, TypeOK, KnownInv
<1>8. CASE KillCancel
  BY <1>1, <1>8 DEF KillCancel, TypeOK, KnownInv
<1> QED
  BY <1>2, <1>3, <1>4, <1>5, <1>6, <1>7, <1>8

\* Every step keeps the invariant.
LEMMA StepTypeInv == TypeInv /\ [Next]_vars => TypeInv'
<1> SUFFICES ASSUME TypeInv, [Next]_vars PROVE TypeInv'
  OBVIOUS
<1>1. ASSUME NEW s \in Start, RunnerStep(s) \/ Heartbeat(s) \/ HermesWorks(s) \/ Exit(s)
      PROVE  TypeInv'
  BY <1>1, RowTypeInv, LockTypeInv, ExecutionTypeInv, EndTypeInv DEF RunnerStep
<1>2. CASE UNCHANGED vars
  BY <1>2 DEF vars, TypeInv, TypeOK, KnownInv
<1> QED
  BY <1>1, <1>2, FaultTypeInv, OthersTypeInv DEF Next

\* TypeInv holds in every reachable state, and with it the type invariant of
\* the rows, locks, directories and commands (update_status, promote_snapshot).
THEOREM TypeCorrect == Spec => []TypeOK
<1>1. Spec => []TypeInv
  BY InitTypeInv, StepTypeInv, PTL DEF Spec
<1> QED
  BY <1>1, PTL DEF TypeInv

-----------------------------------------------------------------------------
(* The profile lock and the processes.                                     *)

\* A start command before the release of its lock holds it, unless its lease
\* ran out under it.
LockInv ==
    \A s \in Start : runner[s].at \in Critical /\ s \notin lapsed =>
        lock # None /\ lock.by = s /\ lock.live

\* The points at which a start command may have a living process.
Hosting == {"creating", "acknowledging", "poll", "beating", "terminate"}

AliveInv == \A s \in Start : hermes[s] = "alive" => runner[s].at \in Hosting \cup {"dead"}

\* What a step of a start command does not do: move another one, get past the
\* lock without taking it, leave a living process.
Keeps(s) ==
    /\ runner' \in [Start -> Runner]
    /\ \A t \in Start \ {s} : runner'[t] = runner[t] /\ hermes'[t] = hermes[t]
    /\ runner'[s].at \in Critical => runner[s].at \in Critical
    /\ hermes'[s] = "alive" => runner'[s].at \in Hosting \cup {"dead"}
    /\ UNCHANGED <<lock, lapsed>>

\* A process is handed over from point to point, and to the termination when
\* something fails.
LEMMA HostTables ==
    /\ \A p \in DOMAIN Written \cap Hosting :
            After[p] \in Hosting /\ OnRefusal[p] \in Hosting
    /\ \A p \in DOMAIN OnFault \cap Hosting : OnFault[p] \in Hosting
    /\ \A p \in DOMAIN Written : p # "spawn" /\ p # "dead"
    /\ \A p \in DOMAIN OnFault : p # "dead"
<1>1. DOMAIN Written \cap Hosting = {"creating", "acknowledging", "beating"}
  BY WrittenPoints DEF Hosting
<1>2. /\ After["creating"] = "acknowledging" /\ After["acknowledging"] = "poll"
      /\ After["beating"] = "poll"
      /\ OnRefusal["creating"] = "terminate" /\ OnRefusal["acknowledging"] = "terminate"
      /\ OnRefusal["beating"] = "terminate"
  BY DEF After, OnRefusal
<1>3. DOMAIN OnFault \cap Hosting = {"creating", "acknowledging", "beating"}
  BY DEF Hosting, OnFault
<1>4. /\ OnFault["creating"] = "terminate" /\ OnFault["acknowledging"] = "terminate"
      /\ OnFault["beating"] = "terminate"
  BY DEF OnFault
<1>5. \A p \in DOMAIN OnFault : p # "dead"
  BY DEF OnFault
<1> QED
  BY <1>1, <1>2, <1>3, <1>4, <1>5, WrittenPoints DEF Hosting

\* A step that goes to a point, from a point without a process or to one with it.
LEMMA GotoKeeps ==
    ASSUME TypeInv, AliveInv, NEW s \in Start, NEW p \in Point, Goto(s, p), runner[s].at # "dead",
           runner[s].at \in Hosting => p \in Hosting \cup {"dead"},
           p \in Critical => runner[s].at \in Critical,
           UNCHANGED <<hermes, lock, lapsed>>
    PROVE  Keeps(s)
BY GotoFacts DEF TypeInv, AliveInv, Keeps

LEMMA VerdictKeeps ==
    ASSUME TypeInv, AliveInv, NEW s \in Start, NEW v \in {"succeeded", "failed"}, Verdict(s, v),
           runner[s].at \in Critical \ Hosting,
           UNCHANGED <<hermes, lock, lapsed>>
    PROVE  Keeps(s)
<1>1. runner[s].at # "dead"
  BY DEF Critical
<1> QED
  BY <1>1, VerdictFacts DEF TypeInv, AliveInv, Keeps

LEMMA RunnerKeeps ==
    ASSUME TypeInv, AliveInv, NEW s \in Start,
           \/ RunnerStep(s) /\ ~AcquireLock(s) /\ ~Release(s)
           \/ PromotionFails(s) \/ Fault(s) \/ KillStart(s)
           \/ \E k \in Key, p \in Policy : Submit(s, k, p)
    PROVE  Keeps(s)
<1> USE DEF Point, Critical, Hosting
<1>1. CASE RunnerStep(s) /\ ~AcquireLock(s) /\ ~Release(s)
  <2>1. CASE Create(s)
    BY <2>1, GotoKeeps, WrittenPoints DEF Create
  <2>2. CASE Refused(s)
    <3> HIDE DEF Point, Critical, Hosting
    <3> QED
      BY <2>2, GotoKeeps, Tables, HostTables DEF Refused
  <2>3. CASE Write(s)
    <3> HIDE DEF Point, Critical, Hosting
    <3> QED
      BY <2>3, GotoKeeps, Tables, HostTables DEF Write
  <2>4. CASE ProfileLockHeld(s)
    BY <2>4, GotoKeeps, WrittenPoints DEF ProfileLockHeld
  <2>5. CASE Snapshot(s)
    BY <2>5, GotoKeeps DEF Snapshot
  <2>6. CASE ExecutorRefuses(s)
    BY <2>6, GotoKeeps DEF ExecutorRefuses
  <2>7. CASE EvaluateFailed(s) \/ EvaluateSucceeded(s)
    BY <2>7, GotoKeeps, VerdictKeeps DEF EvaluateFailed, EvaluateSucceeded
  <2>8. CASE Stage(s) \/ RemoveBackup(s)
    BY <2>8, GotoKeeps, VerdictKeeps DEF Stage, RemoveBackup
  <2>9. CASE SetAside(s)
    BY <2>9, GotoKeeps, VerdictKeeps DEF SetAside
  <2>10. CASE MoveIn(s) \/ CleanBackup(s)
    BY <2>10, GotoKeeps, VerdictKeeps DEF MoveIn, RolledBack, CleanBackup
  <2>11. CASE Quarantine(s)
    BY <2>11, GotoKeeps DEF Quarantine
  <2>12. CASE Check(s)
    <3>1. runner \in [Start -> Runner]
      BY DEF TypeInv, TypeOK, Runner
    <3>2. runner' \in [Start -> Runner] /\ runner'[s].at = runner[s].at
          /\ \A t \in Start \ {s} : runner'[t] = runner[t]
      <4>1. runner[s] \in Runner
        BY <3>1
      <4>2. /\ [runner[s] EXCEPT !.checked = TRUE] \in Runner
            /\ [runner[s] EXCEPT !.checked = TRUE].at = runner[s].at
        BY <4>1 DEF Runner
      <4>3. runner' = [runner EXCEPT ![s] = [runner[s] EXCEPT !.checked = TRUE]]
        BY <2>12 DEF Check
      <4> QED
        BY <3>1, <4>2, <4>3
    <3> QED
      BY <2>12, <3>2 DEF Check, Keeps, AliveInv
  <2>13. CASE Spawn(s)
    BY <2>13, GotoFacts DEF Spawn, Keeps, TypeInv, TypeOK
  <2>14. CASE Terminate(s)
    BY <2>14, GotoFacts DEF Terminate, Keeps, TypeInv, TypeOK
  <2>15. CASE Result(s)
    BY <2>15, GotoFacts DEF Result, Keeps, TypeInv
  <2> QED
    BY <1>1, <2>1, <2>2, <2>3, <2>4, <2>5, <2>6, <2>7, <2>8, <2>9, <2>10, <2>11,
       <2>12, <2>13, <2>14, <2>15 DEF RunnerStep
<1>2. CASE PromotionFails(s)
  BY <1>2, VerdictKeeps DEF PromotionFails, RolledBack
<1>3. CASE Fault(s)
  <2> HIDE DEF Point, Critical, Hosting
  <2> QED
    BY <1>3, GotoKeeps, Tables, HostTables DEF Fault
<1>4. CASE KillStart(s)
  BY <1>4, GotoKeeps DEF KillStart
<1>5. ASSUME NEW k \in Key, NEW p \in Policy, Submit(s, k, p) PROVE Keeps(s)
  <2>1. CASE Taken(k)
    BY <1>5, <2>1, GotoKeeps DEF Submit
  <2>2. CASE ~Taken(k)
    <3>1. runner \in [Start -> Runner] /\ runner[s].at = "idle"
      BY <1>5 DEF Submit, TypeInv, TypeOK, Runner
    <3>2. runner' = [runner EXCEPT ![s] = [@ EXCEPT !.at = "create", !.key = k, !.policy = p]]
      BY <1>5, <2>2 DEF Submit
    <3>3. [runner[s] EXCEPT !.at = "create", !.key = k, !.policy = p] \in Runner
      BY <3>1 DEF Runner
    <3>4. runner' \in [Start -> Runner] /\ runner'[s].at = "create"
          /\ \A t \in Start \ {s} : runner'[t] = runner[t]
      BY <3>1, <3>2, <3>3 DEF Runner
    <3> QED
      BY <1>5, <3>1, <3>4 DEF Submit, Keeps, AliveInv
  <2> QED
    BY <2>1, <2>2
<1> QED
  BY <1>1, <1>2, <1>3, <1>4, <1>5

\* Neither invariant is broken by a step: past the lock without it, or beside a
\* process, is where no step leads.
LEMMA StepLane ==
    TypeInv /\ LockInv /\ AliveInv /\ [Next]_vars => LockInv' /\ AliveInv'
<1> SUFFICES ASSUME TypeInv, LockInv, AliveInv, [Next]_vars PROVE LockInv' /\ AliveInv'
  OBVIOUS
<1>1. ASSUME NEW s \in Start, Keeps(s) PROVE LockInv' /\ AliveInv'
  BY <1>1 DEF Keeps, LockInv, AliveInv
<1>2. ASSUME NEW s \in Start, AcquireLock(s) PROVE LockInv' /\ AliveInv'
  <2>1. /\ lock' = [by |-> s, live |-> TRUE] /\ lock' # None
        /\ UNCHANGED <<hermes, lapsed>> /\ runner[s].at = "lock"
    BY <1>2, NamesAssumption DEF AcquireLock, NamesAssumption
  <2>2. \A t \in Start \ {s} : runner'[t] = runner[t]
    BY <1>2, GotoFacts DEF AcquireLock, TypeInv, Point, Critical
  <2>3. \A t \in Start \ {s} : ~(runner[t].at \in Critical /\ t \notin lapsed)
    BY <1>2 DEF AcquireLock, Free, LockInv
  <2>4. LockInv'
    BY <2>1, <2>2, <2>3 DEF LockInv
  <2>5. AliveInv'
    BY <2>1, <2>2 DEF AliveInv, Hosting
  <2> QED
    BY <2>4, <2>5
<1>3. ASSUME NEW s \in Start, Release(s) PROVE LockInv' /\ AliveInv'
  <2>1. /\ runner'[s].at = "ended"
        /\ \A t \in Start \ {s} : runner'[t] = runner[t]
    BY <1>3, GotoFacts DEF Release, TypeInv, Point
  <2>2. LockInv'
    BY <1>3, <2>1 DEF Release, LockInv, Critical
  <2>3. AliveInv'
    BY <1>3, <2>1 DEF Release, AliveInv, Hosting
  <2> QED
    BY <2>2, <2>3
<1>4. ASSUME NEW s \in Start, Heartbeat(s) PROVE LockInv' /\ AliveInv'
  <2>1. runner' = [runner EXCEPT ![s] = [@ EXCEPT !.at = "beating", !.beaten = TRUE]]
        /\ runner[s].at = "poll" /\ UNCHANGED <<lock, lapsed, hermes>>
    BY <1>4 DEF Heartbeat
  <2>2. runner'[s].at = "beating" /\ \A t \in Start \ {s} : runner'[t] = runner[t]
    <3>1. runner \in [Start -> Runner]
      BY DEF TypeInv, TypeOK, Runner, Point
    <3> QED
      BY <2>1, <3>1 DEF Runner
  <2> QED
    BY <2>1, <2>2 DEF LockInv, AliveInv, Critical, Hosting
<1>5. ASSUME NEW s \in Start, HermesWorks(s) \/ Exit(s) \/ Cancel(s) PROVE LockInv' /\ AliveInv'
  BY <1>5 DEF HermesWorks, Exit, Cancel, LockInv, AliveInv, TypeInv, TypeOK
<1>6. CASE CancelChecks \/ CancelWrites \/ KillCancel
  BY <1>6 DEF CancelChecks, CancelWrites, KillCancel, LockInv, AliveInv
<1>7. CASE Expire \/ Lapse \/ ReconcileLocks
  <2>1. UNCHANGED <<runner, hermes>> /\ lapsed \subseteq lapsed'
    BY <1>7 DEF Expire, Lapse, ReconcileLocks
  <2>2. \A s \in Start : runner[s].at \in Critical /\ s \notin lapsed' => UNCHANGED lock
    <3>1. {"dead", "ended"} \cap Critical = {}
      BY DEF Critical
    <3> QED
      BY <1>7, <2>1, <3>1 DEF Expire, Abandoned, Lapse, ReconcileLocks, LockInv
  <2> QED
    BY <2>1, <2>2 DEF LockInv, AliveInv
<1>8. CASE UNCHANGED vars
  BY <1>8 DEF vars, LockInv, AliveInv
<1> QED
  <2>1. ASSUME NEW s \in Start, RunnerStep(s) PROVE LockInv' /\ AliveInv'
    BY <2>1, <1>1, <1>2, <1>3, RunnerKeeps
  <2>2. ASSUME NEW s \in Start, \E k \in Key, p \in Policy : Submit(s, k, p)
        PROVE  LockInv' /\ AliveInv'
    BY <2>2, <1>1, RunnerKeeps
  <2>3. ASSUME NEW s \in Start, PromotionFails(s) \/ Fault(s) \/ KillStart(s)
        PROVE  LockInv' /\ AliveInv'
    BY <2>3, <1>1, RunnerKeeps
  <2> QED
    BY <2>1, <2>2, <2>3, <1>4, <1>5, <1>6, <1>7, <1>8 DEF Next

LaneInv == TypeInv /\ LockInv /\ AliveInv

LEMMA LaneInvariant == Spec => []LaneInv
<1>1. Init => LaneInv
  BY InitTypeInv DEF Init, LaneInv, LockInv, AliveInv, Out, Critical
<1>2. LaneInv /\ [Next]_vars => LaneInv'
  BY StepTypeInv, StepLane DEF LaneInv
<1> QED
  BY <1>1, <1>2, PTL DEF Spec

\* Two start commands work on the profile at a time only when the lease of one
\* of them ran out under it (acquire_profile_lock, release_profile_lock).
THEOREM OneRunnerHolds == Spec => []OneRunner
<1>1. LaneInv => OneRunner
  BY DEF LaneInv, LockInv, OneRunner
<1> QED
  BY <1>1, LaneInvariant, PTL

\* A key starts one Hermes process at most (find_by_idempotency_key,
\* create_invocation).
THEOREM OneProcessPerKeyHolds == Spec => []OneProcessPerKey
<1>1. LaneInv => OneProcessPerKey
  BY DEF LaneInv, TypeInv, KnownInv, OneProcessPerKey
<1> QED
  BY <1>1, LaneInvariant, PTL

\* A command that returned leaves no process behind, however it ended
\* (LocalHermesExecutor.execute inside run_diagnostic).
THEOREM NoProcessIsLeftBehind == Spec => []NoProcessLeftBehind
<1>1. LaneInv => NoProcessLeftBehind
  BY DEF LaneInv, AliveInv, Hosting, NoProcessLeftBehind
<1> QED
  BY <1>1, LaneInvariant, PTL

-----------------------------------------------------------------------------
(* The promotion.                                                          *)

\* The profile is in its place, or in the backup: a promotion does not remove the
\* backup of a profile that is not there.
ProfileInv ==
    lapsed = {} =>
        /\ profile # Absent \/ backup # Absent
        /\ \A s \in Start : runner[s].at \in {"unbackup", "clean"} => profile # Absent

\* No lease ran out, and no command was killed.
Calm == lapsed = {} /\ \A t \in Start : runner[t].at # "dead"

\* While a command that will promote holds the lock, what its snapshot was taken
\* from has gained no work but its own.
CopyInv ==
    Calm => \A s \in Start :
        /\ \/ runner[s].at \in {"stage", "unbackup", "aside"}
           \/ /\ runner[s].at \in Working /\ runner[s].policy = "persistent"
              /\ snapshot[s].at = "runtime"
           => (profile # Absent => profile \ {s} \subseteq snapshot[s].base)
        /\ runner[s].at \in {"unbackup", "aside", "in"} => staging = snapshot[s].base
        /\ runner[s].at = "in" => backup \ {s} \subseteq snapshot[s].base

\* A step of one command outside of the promotion.
Stays(s) ==
    /\ \A t \in Start \ {s} : runner'[t] = runner[t] /\ snapshot'[t] = snapshot[t]
    /\ runner'[s].at \notin Promoting
    /\ runner'[s].at \in Working =>
            /\ runner[s].at \in Working
            /\ runner'[s].policy = runner[s].policy /\ snapshot'[s] = snapshot[s]
    /\ runner[s].at # "dead"
    /\ UNCHANGED <<disk, lapsed>>

LEMMA GotoStays ==
    ASSUME TypeInv, NEW s \in Start, NEW p \in Point \ Promoting, Goto(s, p),
           p \in Working => runner[s].at \in Working, runner[s].at # "dead",
           UNCHANGED <<disk, snapshot, lapsed>>
    PROVE  Stays(s)
<1>1. p \in Working => p \notin {"ended", "dead"}
  BY DEF Working
<1> QED
  BY <1>1, GotoFacts DEF TypeInv, Stays

LEMMA RunnerStays ==
    ASSUME TypeInv, NEW s \in Start,
           \/ Create(s) \/ Check(s) \/ Refused(s) \/ Write(s) \/ AcquireLock(s)
           \/ ProfileLockHeld(s) \/ Spawn(s) \/ ExecutorRefuses(s) \/ Terminate(s) \/ Result(s)
           \/ EvaluateFailed(s) \/ Quarantine(s) \/ Release(s) \/ Heartbeat(s) \/ Fault(s)
           \/ KillStart(s) \/ \E k \in Key, p \in Policy : Submit(s, k, p)
    PROVE  Stays(s)
<1> USE DEF Point, Critical, Promoting, Working
<1>0. runner \in [Start -> Runner]
  BY DEF TypeInv, TypeOK, Runner
<1>1. CASE Create(s)
  BY <1>1, GotoStays, WrittenPoints DEF Create
<1>2. CASE Check(s)
  <2>1. runner[s].at \in DOMAIN Written /\ runner' = [runner EXCEPT ![s].checked = TRUE]
        /\ UNCHANGED <<disk, snapshot, lapsed>>
    BY <1>2 DEF Check
  <2>2. /\ runner'[s].at = runner[s].at /\ runner'[s].policy = runner[s].policy
        /\ \A t \in Start \ {s} : runner'[t] = runner[t]
    BY <1>0, <2>1 DEF Runner
  <2> QED
    BY <2>1, <2>2, WrittenPoints DEF Stays
<1>3. CASE Refused(s) \/ Write(s) \/ Fault(s)
  <2> HIDE DEF Point, Critical, Promoting, Working
  <2> QED
    BY <1>3, GotoStays, Tables, HostTables DEF Refused, Write, Fault
<1>4. CASE AcquireLock(s) \/ ProfileLockHeld(s) \/ Release(s)
  BY <1>4, GotoStays, WrittenPoints DEF AcquireLock, ProfileLockHeld, Release
<1>5. CASE Spawn(s) \/ ExecutorRefuses(s) \/ Terminate(s) \/ Result(s)
  BY <1>5, GotoStays DEF Spawn, ExecutorRefuses, Terminate, Result
<1>6. CASE EvaluateFailed(s)
  <2>1. runner[s].at = "evaluate" /\ Verdict(s, "failed") /\ UNCHANGED <<disk, lapsed>>
        /\ \A t \in Start \ {s} : snapshot'[t] = snapshot[t]
    BY <1>6 DEF EvaluateFailed, TypeInv, TypeOK
  <2> QED
    BY <2>1, VerdictFacts DEF TypeInv, Stays
<1>7. CASE Quarantine(s)
  <2>1. PICK p \in {"release", "failing"} : Goto(s, p)
    BY <1>7 DEF Quarantine
  <2>2. /\ UNCHANGED <<disk, lapsed>> /\ runner[s].at = "quarantine"
        /\ \A t \in Start \ {s} : snapshot'[t] = snapshot[t]
    BY <1>7 DEF Quarantine, TypeInv, TypeOK
  <2> QED
    BY <2>1, <2>2, GotoFacts DEF TypeInv, Stays
<1>8. CASE Heartbeat(s)
  <2>1. runner[s].at = "poll" /\ UNCHANGED <<disk, snapshot, lapsed>>
        /\ runner' = [runner EXCEPT ![s] = [@ EXCEPT !.at = "beating", !.beaten = TRUE]]
    BY <1>8 DEF Heartbeat
  <2>2. /\ runner'[s].at = "beating" /\ runner'[s].policy = runner[s].policy
        /\ \A t \in Start \ {s} : runner'[t] = runner[t]
    BY <1>0, <2>1 DEF Runner
  <2> QED
    BY <2>1, <2>2 DEF Stays
<1>9. CASE KillStart(s)
  BY <1>9, GotoStays DEF KillStart
<1>10. ASSUME NEW k \in Key, NEW p \in Policy, Submit(s, k, p) PROVE Stays(s)
  <2>1. CASE Taken(k)
    BY <1>10, <2>1, GotoStays DEF Submit
  <2>2. CASE ~Taken(k)
    <3>1. runner' = [runner EXCEPT ![s] = [@ EXCEPT !.at = "create", !.key = k, !.policy = p]]
          /\ runner[s].at = "idle" /\ UNCHANGED <<disk, snapshot, lapsed>>
      BY <1>10, <2>2 DEF Submit
    <3>2. runner'[s].at = "create" /\ \A t \in Start \ {s} : runner'[t] = runner[t]
      BY <1>0, <3>1 DEF Runner
    <3> QED
      BY <3>1, <3>2 DEF Stays
  <2> QED
    BY <2>1, <2>2
<1> QED
  BY <1>1, <1>2, <1>3, <1>4, <1>5, <1>6, <1>7, <1>8, <1>9, <1>10

\* The invariants as they bear on one command that holds the lock: whoever else is
\* at work has lost the lease, and then both are void.
LEMMA Alone ==
    ASSUME LaneInv, NEW s \in Start, runner[s].at \in Critical, lapsed = {},
           NEW t \in Start \ {s}
    PROVE  runner[t].at \notin Critical
BY DEF LaneInv, LockInv

\* A step of the promotion, and of the command that decides on it.
LEMMA PromotionInv ==
    ASSUME LaneInv, ProfileInv, CopyInv, NEW s \in Start,
           \/ Snapshot(s) \/ EvaluateSucceeded(s) \/ Stage(s) \/ RemoveBackup(s)
           \/ SetAside(s) \/ MoveIn(s) \/ CleanBackup(s) \/ PromotionFails(s)
    PROVE  ProfileInv' /\ CopyInv'
<1> USE DEF Point, Critical
<1>0. TypeOK /\ TypeInv
  BY DEF LaneInv, TypeInv
<1>1. /\ runner[s].at \in Critical /\ runner[s].at # "dead" /\ UNCHANGED lapsed
      /\ \A t \in Start \ {s} : runner'[t] = runner[t] /\ snapshot'[t] = snapshot[t]
  <2>1. CASE Snapshot(s) \/ RemoveBackup(s)
    BY <2>1, <1>0, GotoFacts DEF Snapshot, RemoveBackup, TypeOK
  <2>2. CASE EvaluateSucceeded(s)
    BY <2>2, <1>0, GotoFacts, VerdictFacts DEF EvaluateSucceeded, TypeOK
  <2>3. CASE Stage(s)
    BY <2>3, <1>0, GotoFacts, VerdictFacts DEF Stage
  <2>4. CASE SetAside(s)
    BY <2>4, <1>0, GotoFacts, VerdictFacts DEF SetAside
  <2>5. CASE MoveIn(s)
    BY <2>5, <1>0, GotoFacts, VerdictFacts DEF MoveIn, RolledBack
  <2>6. CASE CleanBackup(s)
    BY <2>6, <1>0, VerdictFacts DEF CleanBackup, TypeOK
  <2>7. CASE PromotionFails(s)
    BY <2>7, <1>0, VerdictFacts DEF PromotionFails, RolledBack
  <2> QED
    BY <2>1, <2>2, <2>3, <2>4, <2>5, <2>6, <2>7
<1>2. lapsed = {} => \A t \in Start \ {s} : runner'[t].at \notin Critical
  BY <1>1, Alone
<1>3. Calm' => Calm
  BY <1>1 DEF Calm
<1>4. \A t \in Start \ {s} : lapsed = {} =>
        runner'[t].at \notin {"unbackup", "clean", "stage", "aside", "in"} \cup Working
  BY <1>2 DEF Working
<1>5. SUFFICES
        /\ lapsed = {} =>
            /\ profile' # Absent \/ backup' # Absent
            /\ runner'[s].at \in {"unbackup", "clean"} => profile' # Absent
        /\ Calm /\ Calm' =>
            /\ \/ runner'[s].at \in {"stage", "unbackup", "aside"}
               \/ /\ runner'[s].at \in Working /\ runner'[s].policy = "persistent"
                  /\ snapshot'[s].at = "runtime"
               => (profile' # Absent => profile' \ {s} \subseteq snapshot'[s].base)
            /\ runner'[s].at \in {"unbackup", "aside", "in"} => staging' = snapshot'[s].base
            /\ runner'[s].at = "in" => backup' \ {s} \subseteq snapshot'[s].base
  <2>1. ProfileInv'
    BY <1>1, <1>4, <1>5 DEF ProfileInv
  <2>2. CopyInv'
    BY <1>1, <1>3, <1>4, <1>5 DEF CopyInv, Calm
  <2> QED
    BY <2>1, <2>2
<1>6. CASE Snapshot(s)
  <2>1. runner[s].at = "snapshot" /\ Goto(s, "intent") /\ UNCHANGED disk
    BY <1>6 DEF Snapshot
  <2>2. runner'[s].at = "intent" /\ runner'[s].policy = runner[s].policy
    BY <1>0, <2>1, GotoFacts
  <2>3. profile # Absent /\ runner[s].policy = "persistent" => snapshot'[s].base = profile
    BY <1>0, <1>6 DEF Snapshot, TypeOK
  <2> QED
    BY <1>1, <2>1, <2>2, <2>3 DEF ProfileInv
<1>7. CASE EvaluateSucceeded(s)
  <2>1. runner[s].at = "evaluate" /\ UNCHANGED disk
    BY <1>7 DEF EvaluateSucceeded
  <2>2. \/ /\ runner'[s].at = "stage" /\ UNCHANGED snapshot
           /\ runner[s].policy = "persistent" /\ snapshot[s].at = "runtime"
        \/ runner'[s].at = "final"
    BY <1>0, <1>7, GotoFacts, VerdictFacts DEF EvaluateSucceeded
  <2> QED
    BY <1>1, <2>1, <2>2 DEF ProfileInv, CopyInv, Working
<1>8. CASE Stage(s)
  <2>1. runner[s].at = "stage" /\ UNCHANGED <<profile, backup, snapshot>>
    BY <1>8 DEF Stage
  <2>2. \/ profile # Absent /\ staging' = snapshot[s].base /\ runner'[s].at = "unbackup"
        \/ runner'[s].at = "final"
    BY <1>0, <1>8, GotoFacts, VerdictFacts DEF Stage
  <2> QED
    BY <1>1, <2>1, <2>2 DEF ProfileInv, CopyInv, Working
<1>9. CASE RemoveBackup(s)
  <2>1. runner[s].at = "unbackup" /\ UNCHANGED <<profile, staging, snapshot>>
    BY <1>9 DEF RemoveBackup
  <2>2. runner'[s].at = "aside"
    BY <1>0, <1>9, GotoFacts DEF RemoveBackup
  <2> QED
    BY <1>1, <2>1, <2>2 DEF ProfileInv, CopyInv, Working
<1>10. CASE SetAside(s)
  <2>1. runner[s].at = "aside" /\ UNCHANGED snapshot
    BY <1>10 DEF SetAside
  <2>2. \/ /\ profile # Absent /\ backup' = profile /\ profile' = Absent
           /\ UNCHANGED staging /\ runner'[s].at = "in"
        \/ UNCHANGED <<profile, backup>> /\ runner'[s].at = "final"
    BY <1>0, <1>10, GotoFacts, VerdictFacts DEF SetAside
  <2> QED
    BY <1>1, <2>1, <2>2 DEF ProfileInv, CopyInv, Working
<1>11. CASE MoveIn(s)
  <2>1. runner[s].at = "in"
    BY <1>11 DEF MoveIn
  <2>2. \/ staging # Absent /\ profile' = staging /\ runner'[s].at = "clean"
        \/ /\ profile = Absent /\ backup # Absent => profile' = backup
           /\ ~(profile = Absent /\ backup # Absent) => UNCHANGED <<profile, backup>>
           /\ runner'[s].at = "final"
    BY <1>0, <1>11, GotoFacts, VerdictFacts DEF MoveIn, RolledBack
  <2> QED
    BY <1>1, <2>1, <2>2 DEF ProfileInv, CopyInv, Working
<1>12. CASE CleanBackup(s)
  <2>1. runner[s].at = "clean" /\ UNCHANGED profile
    BY <1>12 DEF CleanBackup
  <2>2. runner'[s].at = "final"
    BY <1>0, <1>12, VerdictFacts DEF CleanBackup
  <2> QED
    BY <1>1, <2>1, <2>2 DEF ProfileInv, CopyInv, Working
<1>13. CASE PromotionFails(s)
  <2>1. /\ profile = Absent /\ backup # Absent => UNCHANGED <<profile, backup>> \/ profile' = backup
        /\ ~(profile = Absent /\ backup # Absent) => UNCHANGED <<profile, backup>>
    BY <1>13 DEF PromotionFails, RolledBack
  <2>2. runner'[s].at = "final"
    BY <1>0, <1>13, VerdictFacts DEF PromotionFails, RolledBack
  <2> QED
    BY <1>1, <2>1, <2>2 DEF ProfileInv, CopyInv, Working
<1> QED
  BY <1>6, <1>7, <1>8, <1>9, <1>10, <1>11, <1>12, <1>13

\* No step takes the profile away, or lets the work of another slip in between the
\* snapshot and the promotion.
LEMMA StepPromotion ==
    LaneInv /\ ProfileInv /\ CopyInv /\ [Next]_vars => ProfileInv' /\ CopyInv'
<1> SUFFICES ASSUME LaneInv, ProfileInv, CopyInv, [Next]_vars PROVE ProfileInv' /\ CopyInv'
  OBVIOUS
<1>1. ASSUME NEW s \in Start, Stays(s) PROVE ProfileInv' /\ CopyInv'
  <2>1. ProfileInv'
    BY <1>1 DEF Stays, ProfileInv, Promoting
  <2>2. Calm' => Calm
    BY <1>1 DEF Stays, Calm
  <2>3. CopyInv'
    BY <1>1, <2>2 DEF Stays, CopyInv, Promoting
  <2> QED
    BY <2>1, <2>3
<1>2. ASSUME NEW s \in Start, HermesWorks(s) PROVE ProfileInv' /\ CopyInv'
  <2>1. profile # Absent /\ profile' = profile \cup {s} /\ hermes[s] = "alive"
        /\ UNCHANGED <<staging, backup, snapshot, runner, lapsed>>
    BY <1>2 DEF HermesWorks
  <2>2. profile' # Absent
    BY <2>1, NamesAssumption DEF LaneInv, TypeInv, TypeOK, NamesAssumption
  <2>3. ProfileInv'
    BY <2>1, <2>2 DEF ProfileInv
  <2>4. Calm => runner[s].at \in Critical
    BY <2>1 DEF LaneInv, AliveInv, Calm, Hosting, Critical
  <2>5. Calm => \A t \in Start \ {s} : runner[t].at \notin Critical
    BY <2>4, Alone DEF Calm
  <2>6. CopyInv'
    BY <2>1, <2>5 DEF CopyInv, Calm, Critical, Working
  <2> QED
    BY <2>3, <2>6
<1>3. ASSUME NEW s \in Start, Exit(s) \/ Cancel(s) PROVE ProfileInv' /\ CopyInv'
  BY <1>3 DEF Exit, Cancel, ProfileInv, CopyInv, Calm
<1>4. CASE CancelChecks \/ CancelWrites \/ KillCancel \/ Expire \/ ReconcileLocks
  BY <1>4 DEF CancelChecks, CancelWrites, KillCancel, Expire, ReconcileLocks,
              ProfileInv, CopyInv, Calm
<1>5. CASE Lapse
  BY <1>5 DEF Lapse, ProfileInv, CopyInv, Calm
<1>6. CASE UNCHANGED vars
  BY <1>6 DEF vars, ProfileInv, CopyInv, Calm
<1> QED
  <2>1. ASSUME NEW s \in Start, RunnerStep(s) PROVE ProfileInv' /\ CopyInv'
    BY <2>1, <1>1, RunnerStays, PromotionInv DEF RunnerStep, LaneInv
  <2>2. ASSUME NEW s \in Start, \E k \in Key, p \in Policy : Submit(s, k, p)
        PROVE  ProfileInv' /\ CopyInv'
    BY <2>2, <1>1, RunnerStays DEF LaneInv
  <2>3. ASSUME NEW s \in Start, PromotionFails(s) \/ Fault(s) \/ KillStart(s) \/ Heartbeat(s)
        PROVE  ProfileInv' /\ CopyInv'
    BY <2>3, <1>1, RunnerStays, PromotionInv DEF LaneInv
  <2> QED
    BY <2>1, <2>2, <2>3, <1>2, <1>3, <1>4, <1>5, <1>6 DEF Next

LEMMA PromotionInvariant == Spec => [](LaneInv /\ ProfileInv /\ CopyInv)
<1>1. Init => LaneInv /\ ProfileInv /\ CopyInv
  <2>1. Init => LaneInv
    BY InitTypeInv DEF Init, LaneInv, LockInv, AliveInv, Out, Critical
  <2>2. Init => ProfileInv
    BY NamesAssumption DEF Init, ProfileInv, Out, NamesAssumption
  <2>3. Init => CopyInv
    <3>1. Out("idle").at = "idle"
      BY DEF Out
    <3>2. Init => \A s \in Start : runner[s].at = "idle"
      BY <3>1 DEF Init
    <3> QED
      BY <3>2 DEF CopyInv, Working
  <2> QED
    BY <2>1, <2>2, <2>3
<1>2. LaneInv /\ ProfileInv /\ CopyInv /\ [Next]_vars => (LaneInv /\ ProfileInv /\ CopyInv)'
  BY StepTypeInv, StepLane, StepPromotion DEF LaneInv
<1> QED
  BY <1>1, <1>2, PTL DEF Spec

\* The profile is never gone: unless a lease ran out, it is in its place or in
\* the backup, wherever a command is killed (promote_snapshot).
THEOREM ProfileAlwaysSurvives == Spec => []ProfileSurvives
<1>1. ProfileInv => ProfileSurvives
  BY DEF ProfileInv, ProfileSurvives
<1> QED
  BY <1>1, PromotionInvariant, PTL

\* A promotion throws away nobody's work but that of its own run, as long as no
\* lease ran out and no command left a process behind (promote_snapshot under the
\* profile lock).
THEOREM DiscardsOnlyOwnWork == Spec => DiscardsOnlyItsOwn
<1> DEFINE Discards ==
        \A s \in Start :
            At(s, "in") /\ runner'[s].at = "clean"
                /\ lapsed = {} /\ (\A t \in Start : ~At(t, "dead")) =>
                    backup \ {s} \subseteq profile'
<1>1. LaneInv /\ CopyInv /\ [Next]_vars => Discards
  <2> SUFFICES ASSUME LaneInv, CopyInv, [Next]_vars, NEW s \in Start,
                      runner[s].at = "in", runner'[s].at = "clean", Calm
               PROVE  backup \ {s} \subseteq profile'
    BY DEF Calm
  <2>1. TypeOK /\ TypeInv
    BY DEF LaneInv, TypeInv
  <2>2. staging = snapshot[s].base /\ backup \ {s} \subseteq snapshot[s].base
    BY DEF CopyInv
  <2>3. ASSUME NEW t \in Start, Stays(t) PROVE FALSE
    BY <2>3 DEF Stays, Promoting
  <2>4. ASSUME NEW t \in Start,
               \/ Snapshot(t) \/ EvaluateSucceeded(t) \/ Stage(t) \/ RemoveBackup(t)
               \/ SetAside(t) \/ CleanBackup(t) \/ PromotionFails(t)
        PROVE  FALSE
    <3>1. runner'[t].at # "clean" /\ \A u \in Start \ {t} : runner'[u] = runner[u]
      <4>1. CASE Snapshot(t) \/ RemoveBackup(t)
        BY <2>1, <4>1, GotoFacts DEF Snapshot, RemoveBackup, Point, Critical
      <4>2. CASE EvaluateSucceeded(t)
        BY <2>1, <4>2, GotoFacts, VerdictFacts DEF EvaluateSucceeded, Point, Critical
      <4>3. CASE Stage(t) \/ SetAside(t)
        BY <2>1, <4>3, GotoFacts, VerdictFacts DEF Stage, SetAside, Point, Critical
      <4>4. CASE CleanBackup(t) \/ PromotionFails(t)
        BY <2>1, <4>4, VerdictFacts DEF CleanBackup, PromotionFails, RolledBack
      <4> QED
        BY <2>4, <4>1, <4>2, <4>3, <4>4
    <3> QED
      BY <3>1
  <2>5. ASSUME NEW t \in Start, MoveIn(t) PROVE t = s /\ profile' = staging
    <3>1. \/ runner'[t].at = "clean" /\ profile' = staging
          \/ runner'[t].at = "final"
      BY <2>1, <2>5, GotoFacts, VerdictFacts DEF MoveIn, RolledBack, Point, Critical
    <3>2. \A u \in Start \ {t} : runner'[u] = runner[u]
      BY <2>1, <2>5, GotoFacts, VerdictFacts DEF MoveIn, RolledBack, Point, Critical
    <3> QED
      BY <3>1, <3>2
  <2>6. CASE UNCHANGED runner
    BY <2>6
  <2>7. ASSUME NEW t \in Start, RunnerStep(t) PROVE backup \ {s} \subseteq profile'
    BY <2>1, <2>2, <2>3, <2>4, <2>5, <2>7, RunnerStays DEF RunnerStep
  <2>8. ASSUME NEW t \in Start,
               \/ PromotionFails(t) \/ Fault(t) \/ KillStart(t) \/ Heartbeat(t)
               \/ \E k \in Key, p \in Policy : Submit(t, k, p)
        PROVE  FALSE
    BY <2>1, <2>3, <2>4, <2>8, RunnerStays
  <2>9. ASSUME NEW t \in Start, HermesWorks(t) \/ Exit(t) \/ Cancel(t) PROVE UNCHANGED runner
    BY <2>9 DEF HermesWorks, Exit, Cancel
  <2>10. ASSUME \/ CancelChecks \/ CancelWrites \/ KillCancel \/ Expire \/ Lapse
                \/ ReconcileLocks \/ UNCHANGED vars
         PROVE  UNCHANGED runner
    BY <2>10 DEF CancelChecks, CancelWrites, KillCancel, Expire, Lapse, ReconcileLocks, vars
  <2> QED
    BY <2>6, <2>7, <2>8, <2>9, <2>10 DEF Next
<1> QED
  BY <1>1, PromotionInvariant, PTL DEF Spec, DiscardsOnlyItsOwn

-----------------------------------------------------------------------------
(* The terminal status.                                                    *)

\* A status that is terminal, or that a cancel command at work makes terminal.
Settled(status) == status \in Terminal \cup {"cancel_requested"}

\* The points between the closing status and the terminal one.
Judged == {"evaluate", "stage", "unbackup", "aside", "in", "clean", "final"}

\* What the row and the snapshot of a command say at the points of its end.
EndAt(s) ==
    /\ row[s] # None /\ runner[s].at \in {"ended", "release"} => Settled(row[s].status)
    /\ runner[s].at \in Judged => row[s].status \in {"closing", "cancel_requested", "cancelled"}
    /\ snapshot[s].at = "removed" =>
            runner[s].at \in {"final", "quarantine", "release", "ended", "dead"}
    /\ snapshot[s].at = "removed" /\ runner[s].at = "quarantine" => Settled(row[s].status)

\* A requested cancellation has its cancel command at work.
RequestAt(s) ==
    row[s] # None /\ row[s].status = "cancel_requested" =>
        canceller # None /\ canceller.of = s /\ canceller.to = "cancelled"

EndInv == mishaps = 0 => \A s \in Start : EndAt(s) /\ RequestAt(s)

\* Which writes and refusals lead to the end.
LEMMA EndTables ==
    /\ \A p \in DOMAIN Written :
        /\ After[p] \in Judged => p = "closing"
        /\ After[p] \in {"ended", "release"} => p \in {"locked", "final", "failing"}
        /\ After[p] \notin {"quarantine", "dead"}
        /\ OnRefusal[p] \notin Judged
        /\ OnRefusal[p] \in {"ended", "release"} => p \in {"locked", "failing"}
        /\ OnRefusal[p] # "dead"
    /\ Written["closing"] = "closing"
    /\ Written["locked"] = "failed" /\ Written["failing"] = "failed"
    /\ After["final"] = "release" /\ OnRefusal["final"] = "quarantine"
<1>1. \A p \in DOMAIN Written :
        /\ After[p] \in Judged => p = "closing"
        /\ After[p] \in {"ended", "release"} => p \in {"locked", "final", "failing"}
        /\ After[p] \notin {"quarantine", "dead"}
  BY WrittenPoints DEF After, Judged
<1>2. \A p \in DOMAIN Written :
        /\ OnRefusal[p] \notin Judged
        /\ OnRefusal[p] \in {"ended", "release"} => p \in {"locked", "failing"}
        /\ OnRefusal[p] # "dead"
  BY WrittenPoints DEF OnRefusal, Judged
<1>3. Written["closing"] = "closing" /\ Written["locked"] = "failed" /\ Written["failing"] = "failed"
  BY DEF Written
<1>4. After["final"] = "release" /\ OnRefusal["final"] = "quarantine"
  BY DEF After, OnRefusal
<1> QED
  BY <1>1, <1>2, <1>3, <1>4

\* The transitions that the end depends on.
LEMMA EndTransitions ==
    /\ \A status \in Status : ~Legal(status, "failed") => Settled(status)
    /\ Legal("closing", "succeeded") /\ Legal("closing", "failed")
    /\ Legal("cancel_requested", "cancelled")
<1>1. \A status \in DOMAIN Allowed \ {"cancel_requested"} : "failed" \in Allowed[status]
  BY DEF Allowed
<1>2. \A status \in Status : ~Legal(status, "failed") => Settled(status)
  BY <1>1 DEF Legal, Settled, Status
<1>3. Allowed["closing"] = {"succeeded", "failed"} /\ Allowed["cancel_requested"] = {"cancelled"}
  BY DEF Allowed
<1> QED
  BY <1>2, <1>3 DEF Legal, Terminal

\* A step of one command keeps the invariant, if it leaves the command where the
\* invariant allows it.
LEMMA MoveEnd ==
    ASSUME EndInv, NEW s \in Start,
           \A t \in Start \ {s} :
                runner'[t] = runner[t] /\ snapshot'[t] = snapshot[t] /\ row'[t] = row[t],
           UNCHANGED <<canceller, mishaps>>,
           mishaps = 0 => EndAt(s)',
           row'[s] = row[s] \/ row'[s].status # "cancel_requested"
    PROVE  EndInv'
<1>1. SUFFICES ASSUME mishaps = 0, NEW t \in Start PROVE EndAt(t)' /\ RequestAt(t)'
  BY DEF EndInv
<1>2. EndAt(t) /\ RequestAt(t)
  BY <1>1 DEF EndInv
<1>3. EndAt(t)'
  BY <1>1, <1>2 DEF EndAt
<1>4. RequestAt(t)'
  BY <1>1, <1>2 DEF RequestAt
<1> QED
  BY <1>3, <1>4

\* A step to a point that is no end, from one whose snapshot is still there.
LEMMA GotoEnd ==
    ASSUME TypeInv, EndInv, NEW s \in Start,
           NEW p \in Point \ (Judged \cup {"ended", "release"}), Goto(s, p),
           runner[s].at \notin {"final", "quarantine", "release", "ended", "dead"},
           UNCHANGED <<row, snapshot, canceller, mishaps>>
    PROVE  EndInv'
<1>1. /\ runner'[s].at = p
      /\ \A t \in Start \ {s} : runner'[t] = runner[t]
  BY GotoFacts DEF TypeInv
<1>2. mishaps = 0 => EndAt(s)'
  BY <1>1 DEF EndInv, EndAt
<1> QED
  BY <1>1, <1>2, MoveEnd

\* A step within the judgement.
LEMMA JudgedEnd ==
    ASSUME TypeInv, EndInv, NEW s \in Start,
           runner[s].at \in Judged, runner'[s].at \in Judged,
           \A t \in Start \ {s} : runner'[t] = runner[t] /\ snapshot'[t] = snapshot[t],
           snapshot'[s].at = "removed" => runner'[s].at = "final",
           UNCHANGED <<row, canceller, mishaps>>
    PROVE  EndInv'
<1>1. mishaps = 0 => EndAt(s)'
  BY DEF EndInv, EndAt, Judged
<1> QED
  BY <1>1, MoveEnd

\* Making a row, and writing a status or being refused it.
LEMMA StatusEnd ==
    ASSUME TypeInv, EndInv, NEW s \in Start, Create(s) \/ Check(s) \/ Write(s) \/ Refused(s)
    PROVE  EndInv'
<1>0. TypeOK /\ runner \in [Start -> Runner]
  BY DEF TypeInv, TypeOK, Runner, Point
<1>1. CASE Create(s) /\ Taken(runner[s].key)
  <2>1. runner'[s].at = "ended" /\ \A t \in Start \ {s} : runner'[t] = runner[t]
    BY <1>0, <1>1, GotoFacts DEF Create, Point
  <2>2. row[s] = None /\ runner[s].at = "create"
        /\ UNCHANGED <<row, snapshot, canceller, mishaps>>
    BY <1>1 DEF Create, TypeInv, KnownInv
  <2>3. mishaps = 0 => EndAt(s)'
    BY <2>1, <2>2 DEF EndInv, EndAt, Judged
  <2> QED
    BY <2>1, <2>2, <2>3, MoveEnd
<1>2. CASE Create(s) /\ ~Taken(runner[s].key)
  <2>1. runner'[s].at = "preflight" /\ \A t \in Start \ {s} : runner'[t] = runner[t]
    BY <1>0, <1>2, GotoFacts, WrittenPoints DEF Create, Point
  <2>2. /\ row' = [row EXCEPT ![s] = [key |-> runner[s].key, status |-> "pending"]]
        /\ runner[s].at = "create" /\ UNCHANGED <<snapshot, canceller, mishaps>>
    BY <1>2 DEF Create
  <2>3. row'[s].status = "pending" /\ \A t \in Start \ {s} : row'[t] = row[t]
    BY <1>0, <2>2 DEF TypeOK
  <2>4. mishaps = 0 => EndAt(s)'
    BY <2>1, <2>2, <2>3 DEF EndInv, EndAt, Judged
  <2> QED
    BY <2>1, <2>2, <2>3, <2>4, MoveEnd
<1>3. CASE Check(s)
  <2>1. runner' = [runner EXCEPT ![s].checked = TRUE]
        /\ UNCHANGED <<row, snapshot, canceller, mishaps>>
    BY <1>3 DEF Check
  <2>2. runner'[s].at = runner[s].at /\ \A t \in Start \ {s} : runner'[t] = runner[t]
    BY <1>0, <2>1 DEF Runner
  <2>3. mishaps = 0 => EndAt(s)'
    BY <2>1, <2>2 DEF EndInv, EndAt
  <2> QED
    BY <2>1, <2>2, <2>3, MoveEnd
<1>4. CASE Write(s)
  <2> DEFINE p == runner[s].at
  <2>1. /\ row' = [row EXCEPT ![s].status = To(s)]
        /\ p \in DOMAIN Written /\ Goto(s, After[p])
        /\ UNCHANGED <<snapshot, canceller, mishaps>>
    BY <1>4 DEF Write
  <2>2. runner'[s].at = After[p] /\ \A t \in Start \ {s} : runner'[t] = runner[t]
    BY <1>0, <2>1, GotoFacts, Tables
  <2>3. row[s] # None /\ row[s] \in [key : Key, status : Status]
    BY <1>0, <2>1, HasRow DEF TypeOK
  <2>4. row'[s].status = To(s) /\ \A t \in Start \ {s} : row'[t] = row[t]
    BY <1>0, <2>1, <2>3 DEF TypeOK
  <2>5. To(s) # "cancel_requested"
    BY <1>0, <2>1, ToIsStatus
  <2>6. p \in {"locked", "final", "failing"} => Settled(To(s))
    <3>1. To(s) = IF p = "final" THEN runner[s].verdict ELSE Written[p]
      BY DEF To
    <3>2. runner[s].verdict \in {"succeeded", "failed"}
      BY <1>0 DEF TypeOK
    <3> QED
      BY <3>1, <3>2, EndTables DEF Settled, Terminal
  <2>7. p = "closing" => To(s) = "closing"
    BY EndTables DEF To
  <2>8. snapshot[s].at = "removed" /\ mishaps = 0 => p = "final"
    BY <2>1, WrittenPoints DEF EndInv, EndAt
  <2>9. mishaps = 0 => EndAt(s)'
    <3> HIDE DEF p
    <3> QED
      BY <2>1, <2>2, <2>4, <2>6, <2>7, <2>8, EndTables DEF EndAt
  <2> QED
    BY <2>1, <2>2, <2>4, <2>5, <2>9, MoveEnd
<1>5. CASE Refused(s)
  <2> DEFINE p == runner[s].at
  <2>1. /\ p \in DOMAIN Written /\ Goto(s, OnRefusal[p]) /\ ~Legal(row[s].status, To(s))
        /\ UNCHANGED <<row, snapshot, canceller, mishaps>>
    BY <1>5 DEF Refused
  <2>2. runner'[s].at = OnRefusal[p] /\ \A t \in Start \ {s} : runner'[t] = runner[t]
    BY <1>0, <2>1, GotoFacts, Tables
  <2>3. row[s].status \in Status
    BY <1>0, <2>1, HasRow DEF TypeOK
  <2>4. p \in {"locked", "failing"} => Settled(row[s].status)
    BY <2>1, <2>3, EndTables, EndTransitions DEF To
  <2>5. p = "final" /\ mishaps = 0 => Settled(row[s].status)
    <3>1. runner[s].verdict \in {"succeeded", "failed"}
      BY <1>0 DEF TypeOK
    <3>2. p = "final" => row[s].status # "closing"
      BY <2>1, <3>1, EndTransitions DEF To
    <3>3. p = "final" /\ mishaps = 0 =>
            row[s].status \in {"closing", "cancel_requested", "cancelled"}
      BY DEF EndInv, EndAt, Judged
    <3> QED
      BY <3>2, <3>3 DEF Settled, Terminal
  <2>6. snapshot[s].at = "removed" /\ mishaps = 0 => p = "final"
    BY <2>1, WrittenPoints DEF EndInv, EndAt
  <2>7. mishaps = 0 => EndAt(s)'
    <3> HIDE DEF p
    <3> QED
      BY <2>1, <2>2, <2>4, <2>5, <2>6, EndTables DEF EndAt
  <2> QED
    BY <2>1, <2>2, <2>7, MoveEnd
<1> QED
  BY <1>1, <1>2, <1>3, <1>4, <1>5

\* The other steps of a start command.
LEMMA RunnerEnd ==
    ASSUME TypeInv, EndInv, NEW s \in Start,
           \/ AcquireLock(s) \/ ProfileLockHeld(s) \/ Snapshot(s) \/ Spawn(s)
           \/ ExecutorRefuses(s) \/ Terminate(s) \/ Result(s) \/ EvaluateFailed(s)
           \/ EvaluateSucceeded(s) \/ Stage(s) \/ RemoveBackup(s) \/ SetAside(s) \/ MoveIn(s)
           \/ CleanBackup(s) \/ Quarantine(s) \/ Release(s)
           \/ \E k \in Key, p \in Policy : Submit(s, k, p)
    PROVE  EndInv'
<1> USE DEF Point, Critical, Judged
<1>0. TypeOK
  BY DEF TypeInv
<1>1. CASE AcquireLock(s) \/ ProfileLockHeld(s)
  BY <1>1, GotoEnd, WrittenPoints DEF AcquireLock, ProfileLockHeld
<1>2. CASE Snapshot(s)
  <2>1. /\ runner'[s].at = "intent" /\ \A t \in Start \ {s} : runner'[t] = runner[t]
        /\ runner[s].at = "snapshot" /\ UNCHANGED <<row, canceller, mishaps>>
    BY <1>0, <1>2, GotoFacts DEF Snapshot
  <2>2. /\ \A t \in Start \ {s} : snapshot'[t] = snapshot[t]
        /\ snapshot'[s].at = "removed" => snapshot[s].at = "removed"
    BY <1>0, <1>2 DEF Snapshot, TypeOK
  <2>3. mishaps = 0 => EndAt(s)'
    BY <2>1, <2>2 DEF EndInv, EndAt
  <2> QED
    BY <2>1, <2>2, <2>3, MoveEnd
<1>3. CASE Spawn(s) \/ ExecutorRefuses(s) \/ Terminate(s) \/ Result(s)
  BY <1>3, GotoEnd DEF Spawn, ExecutorRefuses, Terminate, Result
<1>4. CASE EvaluateFailed(s)
  <2>1. runner'[s].at = "final" /\ \A t \in Start \ {s} : runner'[t] = runner[t]
    BY <1>0, <1>4, VerdictFacts DEF EvaluateFailed
  <2>2. \A t \in Start \ {s} : snapshot'[t] = snapshot[t]
    BY <1>0, <1>4 DEF EvaluateFailed, TypeOK
  <2> QED
    BY <1>4, <2>1, <2>2, JudgedEnd DEF EvaluateFailed
<1>5. CASE EvaluateSucceeded(s)
  <2>1. runner'[s].at \in {"final", "stage"} /\ \A t \in Start \ {s} : runner'[t] = runner[t]
    BY <1>0, <1>5, GotoFacts, VerdictFacts DEF EvaluateSucceeded
  <2>2. /\ \A t \in Start \ {s} : snapshot'[t] = snapshot[t]
        /\ snapshot'[s].at = "removed" => runner'[s].at = "final"
    BY <1>0, <1>5, GotoFacts, VerdictFacts DEF EvaluateSucceeded, TypeOK
  <2> QED
    BY <1>5, <2>1, <2>2, JudgedEnd DEF EvaluateSucceeded
<1>6. CASE Stage(s) \/ RemoveBackup(s) \/ SetAside(s) \/ MoveIn(s)
  <2>1. /\ runner[s].at \in {"stage", "unbackup", "aside", "in"}
        /\ UNCHANGED <<row, snapshot, canceller, mishaps>>
    BY <1>6 DEF Stage, RemoveBackup, SetAside, MoveIn
  <2>2. runner'[s].at \in Judged /\ \A t \in Start \ {s} : runner'[t] = runner[t]
    <3>1. CASE Stage(s) \/ RemoveBackup(s)
      BY <1>0, <3>1, GotoFacts, VerdictFacts DEF Stage, RemoveBackup
    <3>2. CASE SetAside(s) \/ MoveIn(s)
      BY <1>0, <3>2, GotoFacts, VerdictFacts DEF SetAside, MoveIn, RolledBack
    <3> QED
      BY <1>6, <3>1, <3>2
  <2>3. mishaps = 0 => EndAt(s)'
    BY <2>1, <2>2 DEF EndInv, EndAt
  <2> QED
    BY <2>1, <2>2, <2>3, MoveEnd
<1>7. CASE CleanBackup(s)
  <2>1. runner'[s].at = "final" /\ \A t \in Start \ {s} : runner'[t] = runner[t]
    BY <1>0, <1>7, VerdictFacts DEF CleanBackup
  <2>2. \A t \in Start \ {s} : snapshot'[t] = snapshot[t]
    BY <1>0, <1>7 DEF CleanBackup, TypeOK
  <2> QED
    BY <1>7, <2>1, <2>2, JudgedEnd DEF CleanBackup
<1>8. CASE Quarantine(s)
  <2>1. /\ runner'[s].at = IF snapshot[s].at = "removed" THEN "release" ELSE "failing"
        /\ \A t \in Start \ {s} : runner'[t] = runner[t]
    BY <1>0, <1>8, GotoFacts, WrittenPoints DEF Quarantine
  <2>2. /\ runner[s].at = "quarantine" /\ UNCHANGED <<row, canceller, mishaps>>
        /\ \A t \in Start \ {s} : snapshot'[t] = snapshot[t]
        /\ snapshot'[s].at = "removed" => snapshot[s].at = "removed"
    BY <1>0, <1>8 DEF Quarantine, TypeOK
  <2>3. mishaps = 0 => EndAt(s)'
    BY <2>1, <2>2 DEF EndInv, EndAt
  <2> QED
    BY <2>1, <2>2, <2>3, MoveEnd
<1>9. CASE Release(s)
  <2>1. /\ runner'[s].at = "ended" /\ \A t \in Start \ {s} : runner'[t] = runner[t]
        /\ runner[s].at = "release" /\ UNCHANGED <<row, snapshot, canceller, mishaps>>
    BY <1>0, <1>9, GotoFacts DEF Release
  <2>2. mishaps = 0 => EndAt(s)'
    BY <2>1 DEF EndInv, EndAt
  <2> QED
    BY <2>1, <2>2, MoveEnd
<1>10. ASSUME NEW k \in Key, NEW p \in Policy, Submit(s, k, p) PROVE EndInv'
  <2>1. /\ runner[s].at = "idle" /\ row[s] = None
        /\ UNCHANGED <<row, snapshot, canceller, mishaps>>
    BY <1>10 DEF Submit, TypeInv, KnownInv
  <2>2. runner'[s].at \in {"ended", "create"} /\ \A t \in Start \ {s} : runner'[t] = runner[t]
    <3>1. CASE Taken(k)
      BY <1>0, <1>10, <3>1, GotoFacts DEF Submit
    <3>2. CASE ~Taken(k)
      <4>1. runner' = [runner EXCEPT ![s] = [@ EXCEPT !.at = "create", !.key = k, !.policy = p]]
        BY <1>10, <3>2 DEF Submit
      <4>2. runner \in [Start -> Runner]
        BY <1>0 DEF TypeOK, Runner
      <4> QED
        BY <4>1, <4>2 DEF Runner
    <3> QED
      BY <3>1, <3>2
  <2>3. mishaps = 0 => EndAt(s)'
    BY <2>1, <2>2 DEF EndInv, EndAt
  <2> QED
    BY <2>1, <2>2, <2>3, MoveEnd
<1> QED
  BY <1>1, <1>2, <1>3, <1>4, <1>5, <1>6, <1>7, <1>8, <1>9, <1>10

\* A cancel command that goes on is there, at the same invocation.
LEMMA CancellerFacts ==
    ASSUME NEW c \in [of : Start, checked : BOOLEAN, to : {"cancel_requested", "cancelled"}],
           NEW b \in BOOLEAN
    PROVE  /\ [c EXCEPT !.checked = b] # None
           /\ [c EXCEPT !.checked = b].of = c.of /\ [c EXCEPT !.checked = b].to = c.to
           /\ [of |-> c.of, to |-> "cancelled", checked |-> b] # None
<1>1. {"cancel_requested", "cancelled"} \subseteq Status
  BY DEF Status, Allowed, Terminal
<1>2. \A t \in Status : [of |-> c.of, to |-> t, checked |-> b] # None
  BY NamesAssumption DEF NamesAssumption
<1>3. [c EXCEPT !.checked = b] = [of |-> c.of, to |-> c.to, checked |-> b]
  OBVIOUS
<1> QED
  BY <1>1, <1>2, <1>3

\* The cancel command: its request and its last word come in this order, and
\* what it leaves is terminal.
LEMMA CancelEnd ==
    ASSUME TypeInv, EndInv,
           (\E s \in Start : Cancel(s)) \/ CancelChecks \/ CancelWrites
    PROVE  EndInv'
<1>0. TypeOK
  BY DEF TypeInv
<1>1. ASSUME NEW s \in Start, Cancel(s) PROVE EndInv'
  BY <1>1 DEF Cancel, EndInv, EndAt, RequestAt
<1>2. CASE CancelChecks
  <2>1. SUFFICES ASSUME mishaps = 0, NEW t \in Start PROVE EndAt(t)' /\ RequestAt(t)'
    BY <1>2 DEF CancelChecks, EndInv
  <2>2. EndAt(t) /\ RequestAt(t)
    BY <2>1 DEF EndInv
  <2>3. EndAt(t)'
    BY <1>2, <2>2 DEF CancelChecks, EndAt
  <2>4. ASSUME row[t] # None, row[t].status = "cancel_requested"
        PROVE  canceller' # None /\ canceller'.of = t /\ canceller'.to = "cancelled"
    <3>1. canceller # None /\ canceller.of = t /\ canceller.to = "cancelled"
      BY <2>2, <2>4 DEF RequestAt
    <3>2. canceller' = [canceller EXCEPT !.checked = TRUE]
      BY <1>2, <2>4, <3>1, EndTransitions DEF CancelChecks
    <3> QED
      BY <1>0, <3>1, <3>2, CancellerFacts DEF TypeOK
  <2>5. RequestAt(t)'
    BY <1>2, <2>4 DEF CancelChecks, RequestAt
  <2> QED
    BY <2>3, <2>5
<1>3. CASE CancelWrites
  <2> DEFINE s == canceller.of
  <2>1. /\ s \in Start /\ canceller # None /\ canceller.to \in {"cancel_requested", "cancelled"}
        /\ row[s] \in [key : Key, status : Status] /\ row[s] # None
    BY <1>0, <1>3 DEF CancelWrites, TypeOK, TypeInv, KnownInv
  <2>2. /\ row'[s].status = canceller.to
        /\ \A t \in Start \ {s} : row'[t] = row[t]
        /\ UNCHANGED <<runner, snapshot, mishaps>>
    BY <1>0, <1>3, <2>1 DEF CancelWrites, TypeOK
  <2>3. canceller.to = "cancel_requested" =>
            canceller' # None /\ canceller'.of = s /\ canceller'.to = "cancelled"
    <3>1. ASSUME canceller.to = "cancel_requested"
          PROVE  canceller' = [of |-> s, to |-> "cancelled", checked |-> FALSE]
      BY <1>3, <3>1 DEF CancelWrites
    <3>2. [of |-> s, to |-> "cancelled", checked |-> FALSE] # None
      BY <1>0, <2>1, CancellerFacts DEF TypeOK
    <3> QED
      BY <3>1, <3>2
  <2> HIDE DEF s
  <2>4. SUFFICES ASSUME mishaps = 0, NEW t \in Start PROVE EndAt(t)' /\ RequestAt(t)'
    BY <2>2 DEF EndInv
  <2>5. EndAt(t) /\ RequestAt(t)
    BY <2>4 DEF EndInv
  <2>6. CASE t = s
    <3>1. EndAt(t)'
      BY <2>1, <2>2, <2>5, <2>6 DEF EndAt, Settled, Terminal
    <3>2. RequestAt(t)'
      BY <2>1, <2>2, <2>3, <2>6 DEF RequestAt
    <3> QED
      BY <3>1, <3>2
  <2>7. CASE t # s
    <3>1. EndAt(t)'
      BY <2>2, <2>5, <2>7 DEF EndAt
    <3>2. RequestAt(t)'
      BY <2>2, <2>5, <2>7 DEF RequestAt, s
    <3> QED
      BY <3>1, <3>2
  <2> QED
    BY <2>6, <2>7
<1> QED
  BY <1>1, <1>2, <1>3

\* A fault, a kill and a lost lease are mishaps; nothing else touches the end.
LEMMA StepEnd == TypeInv /\ EndInv /\ [Next]_vars => EndInv'
<1> SUFFICES ASSUME TypeInv, EndInv, [Next]_vars PROVE EndInv'
  OBVIOUS
<1>1. ASSUME Mishap PROVE EndInv'
  BY <1>1 DEF Mishap, EndInv, TypeInv, TypeOK
<1>2. ASSUME NEW s \in Start, PromotionFails(s) \/ Fault(s) \/ KillStart(s) PROVE EndInv'
  BY <1>1, <1>2 DEF PromotionFails, Fault, KillStart
<1>3. ASSUME NEW s \in Start, RunnerStep(s) \/ \E k \in Key, p \in Policy : Submit(s, k, p)
      PROVE  EndInv'
  BY <1>3, StatusEnd, RunnerEnd DEF RunnerStep
<1>4. ASSUME NEW s \in Start, Heartbeat(s) PROVE EndInv'
  <2>1. /\ runner' = [runner EXCEPT ![s] = [@ EXCEPT !.at = "beating", !.beaten = TRUE]]
        /\ runner[s].at = "poll" /\ UNCHANGED <<row, snapshot, canceller, mishaps>>
    BY <1>4 DEF Heartbeat
  <2>2. runner'[s].at = "beating" /\ \A t \in Start \ {s} : runner'[t] = runner[t]
    <3>1. runner \in [Start -> Runner]
      BY DEF TypeInv, TypeOK, Runner, Point
    <3> QED
      BY <2>1, <3>1 DEF Runner
  <2>3. mishaps = 0 => EndAt(s)'
    BY <2>1, <2>2 DEF EndInv, EndAt, Judged
  <2> QED
    BY <2>1, <2>2, <2>3, MoveEnd
<1>5. ASSUME NEW s \in Start, HermesWorks(s) \/ Exit(s) PROVE EndInv'
  BY <1>5 DEF HermesWorks, Exit, EndInv, EndAt, RequestAt
<1>6. CASE Expire \/ ReconcileLocks \/ UNCHANGED vars
  BY <1>6 DEF Expire, ReconcileLocks, vars, EndInv, EndAt, RequestAt
<1>7. CASE Lapse \/ KillCancel
  BY <1>1, <1>7 DEF Lapse, KillCancel
<1> QED
  BY <1>2, <1>3, <1>4, <1>5, <1>6, <1>7, CancelEnd DEF Next

\* When the commands have returned and nothing failed, every invocation has a
\* terminal status, in spite of cancellations that overtake its own writes
\* (update_status, _diag_cancel).
THEOREM EndedIsAlwaysTerminal == Spec => []EndedIsTerminal
<1>1. Init => TypeInv /\ EndInv
  <2>1. Out("idle").at = "idle"
    BY DEF Out
  <2>2. Init => \A s \in Start :
            runner[s].at = "idle" /\ row[s] = None /\ snapshot[s].at = "none"
    <3>1. ASSUME Init, NEW s \in Start
          PROVE  runner[s] = Out("idle") /\ row[s] = None /\ snapshot[s] = [at |-> "none", base |-> {}]
      BY <3>1 DEF Init
    <3>2. [at |-> "none", base |-> {}].at = "none"
      OBVIOUS
    <3> QED
      BY <2>1, <3>1, <3>2
  <2>3. Init => EndInv
    BY <2>2 DEF EndInv, EndAt, RequestAt, Judged
  <2> QED
    BY <2>3, InitTypeInv
<1>2. TypeInv /\ EndInv /\ [Next]_vars => (TypeInv /\ EndInv)'
  BY StepTypeInv, StepEnd
<1>3. TypeInv /\ EndInv => EndedIsTerminal
  BY DEF TypeInv, EndInv, EndAt, RequestAt, Settled, EndedIsTerminal
<1> QED
  BY <1>1, <1>2, <1>3, PTL DEF Spec

=============================================================================
