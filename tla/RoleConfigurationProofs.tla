---------------------- MODULE RoleConfigurationProofs ----------------------
(***************************************************************************)
(* Proofs about RoleConfiguration, for any roles, profiles, runs, edits    *)
(* and skill matrices and any number of commands and mishaps.              *)
(*                                                                         *)
(* TypeOK is inductive together with WorkInv, which says what a            *)
(* provisioning has in hand at each of its points.  KeepInv strengthens    *)
(* NothingIsLost: what is to be kept is in the profile, but while the      *)
(* rollback has it set aside, and in the backup as long as there is one.   *)
(* DoneInv says how far the profile is from what the answer will claim.    *)
(***************************************************************************)
EXTENDS RoleConfiguration, TLAPS

USE DEF At

\* The points at which there is a backup.
Backed == {"file", "copy", "write", "skill", "remove", "install", "prune", "cleanup", "aside",
           "back"}

WorkInv ==
    /\ ~At("idle") => work.of \in Profile /\ work.role \in Role /\ work.before \in Content
    /\ ~At("idle") /\ ~At("back") => Here \in Content
    /\ work.at \in Backed => work.backup \in Content
    /\ At("back") => work.trash \in Content
    /\ At("copy") => Here.file # None
    /\ At("write") => Here.file = None

TypeInv == TypeOK /\ WorkInv

\* The steps that touch neither profiles nor backups.
MappingStep ==
    \/ OpenPage
    \/ \E r \in Role, p \in Profile, from \in {page, Token} : SaveProfile(r, p, from)
    \/ \E m \in Matrix : EditMatrix(m)
    \/ \E r \in Run : StartRun(r) \/ Prepare(r)
    \/ \E r \in Run, status \in {"failed", "correcting", "ended"} : EndRun(r, status)

LEMMA NextCases ==
    ASSUME Next
    PROVE  \/ MappingStep \/ ProvisioningStep
           \/ \E r \in Run, p \in Profile : AgentWorks(r, p)
           \/ \E r \in Role : InstallSkill(r)
           \/ \E r \in Role : \E force, skip, skills, replace \in BOOLEAN :
                 ProvisionRole(r, force, skip, skills, replace)
           \/ \E p \in Profile, e \in Edit : Customize(p, e)
           \/ \E p \in Profile, r \in Role : AddLocalSkill(p, r)
           \/ \E r \in Role, p \in Profile : Restart([settings EXCEPT ![r] = p])
BY DEF Next, MappingStep, ProvisioningStep

LEMMA MappingFrame ==
    ASSUME MappingStep
    PROVE  UNCHANGED <<home, left, work, history>>
BY DEF MappingStep, OpenPage, SaveProfile, EditMatrix, StartRun, Prepare, EndRun

-----------------------------------------------------------------------------
(* The type invariant.                                                     *)

\* The effective mapping assigns a profile to every role.
LEMMA EffectiveType ==
    ASSUME TypeOK
    PROVE  Effective \in [Role -> Profile] /\ Revisions \in [Role -> Nat]
<1>1. ASSUME NEW r \in Role
      PROVE  /\ (IF rows[r] = None THEN settings[r] ELSE rows[r].profile) \in Profile
             /\ (IF rows[r] = None THEN 0 ELSE rows[r].revision) \in Nat
  <2>1. settings[r] \in Profile /\ rows[r] \in Assignment \cup {None}
    BY DEF TypeOK
  <2> QED
    BY <2>1 DEF Assignment
<1> QED
  BY <1>1 DEF Effective, Revisions

\* What a run may have reviewed is a basis.
LEMMA ResourcesType ==
    ASSUME TypeOK, NEW m \in Matrix
    PROVE  Resources(m) \in Basis
BY EffectiveType DEF Resources, Basis

\* A run that gets another status, or what was reviewed or frozen, is a run.
LEMMA RunTypes ==
    ASSUME TypeOK, NEW r \in Run, NEW status \in Status, NEW b \in Basis,
           \/ run' = [run EXCEPT ![r].status = status]
           \/ run' = [run EXCEPT ![r].status = status, ![r].reviewed = b]
           \/ run' = [run EXCEPT ![r].status = status, ![r].frozen = b]
    PROVE  run' \in [Run -> RunRecord]
BY DEF TypeOK, RunRecord

\* A mapping step keeps the types.
LEMMA MappingTypes ==
    ASSUME TypeInv, MappingStep
    PROVE  TypeOK'
<1> USE DEF TypeInv, TypeOK, mapping, history, bounds, Command
<1>1. CASE OpenPage
  BY <1>1, EffectiveType DEF OpenPage, Token
<1>2. ASSUME NEW r \in Role, NEW p \in Profile, NEW from \in {page, Token},
             SaveProfile(r, p, from)
      PROVE  TypeOK'
  <2>1. rows' = [rows EXCEPT ![r] = [profile |-> p, revision |-> Revisions[r] + 1]]
    BY <1>2 DEF SaveProfile, Assign
  <2>2. [profile |-> p, revision |-> Revisions[r] + 1] \in Assignment
    BY EffectiveType DEF Assignment
  <2>3. rows' \in [Role -> Assignment \cup {None}]
    BY <2>1, <2>2
  <2> QED
    BY <1>2, <2>3, BoundAssumption DEF SaveProfile
<1>3. ASSUME NEW m \in Matrix, EditMatrix(m) PROVE TypeOK'
  BY <1>3, BoundAssumption DEF EditMatrix
<1>4. ASSUME NEW r \in Run, StartRun(r) PROVE TypeOK'
  <2>1. Resources(matrix) \in Basis
    BY ResourcesType
  <2>2. run' \in [Run -> RunRecord]
    BY <1>4, <2>1, RunTypes DEF StartRun, Status
  <2> QED
    BY <1>4, <2>2 DEF StartRun
<1>5. ASSUME NEW r \in Run, Prepare(r) PROVE TypeOK'
  <2>1. Resources(loaded) \in Basis
    BY ResourcesType
  <2>2. run' \in [Run -> RunRecord]
    BY <1>5, <2>1, RunTypes DEF Prepare, Status
  <2> QED
    BY <1>5, <2>2 DEF Prepare
<1>6. ASSUME NEW r \in Run, NEW status \in {"failed", "correcting", "ended"}, EndRun(r, status)
      PROVE  TypeOK'
  <2>1. run' \in [Run -> RunRecord]
    BY <1>6, ResourcesType, RunTypes DEF EndRun, Status
  <2> QED
    BY <1>6, <2>1 DEF EndRun
<1> QED
  BY <1>1, <1>2, <1>3, <1>4, <1>5, <1>6 DEF MappingStep

\* Putting something into a profile.
LEMMA SetFacts ==
    ASSUME TypeOK, NEW p \in Profile, NEW c \in Content \cup {None},
           home' = [home EXCEPT ![p] = c]
    PROVE  /\ home' \in [Profile -> Content \cup {None}]
           /\ home'[p] = c
           /\ \A q \in Profile \ {p} : home'[q] = home[q]
BY DEF TypeOK

\* Going on with a provisioning.
LEMMA GotoFacts ==
    ASSUME TypeOK, NEW point \in Points, Goto(point)
    PROVE  /\ work' \in Work
           /\ work'.at = point /\ work'.of = work.of /\ work'.role = work.role
           /\ work'.before = work.before /\ work'.backup = work.backup
           /\ work'.trash = work.trash /\ work'.skip = work.skip /\ work'.skills = work.skills
BY DEF TypeOK, Work, Goto

\* What is abandoned is added to what was.
LEMMA AbandonFacts ==
    ASSUME TypeOK, work.of \in Profile, NEW D \in SUBSET (Content \cup {None}), Abandon(D)
    PROVE  /\ left' \in [Profile -> SUBSET Content]
           /\ left'[work.of] = left[work.of] \cup (D \ {None})
           /\ \A q \in Profile : left[q] \subseteq left'[q]
BY DEF TypeOK, Abandon

LEMMA IdleFacts == Idle \in Work /\ Idle.at = "idle"
BY DEF Idle, Work, Points

\* A provisioning keeps the types and what it has in hand.
LEMMA ProvisioningTypes ==
    ASSUME TypeInv, ProvisioningStep
    PROVE  TypeInv'
<1> USE DEF TypeInv, mapping, history, bounds
<1>1. CASE TakeBackup
  <2>1. work' \in Work /\ work'.at = "file" /\ work'.of = work.of /\ work'.role = work.role
        /\ work'.before = work.before /\ work'.backup = Here
    BY <1>1 DEF TakeBackup, TypeOK, WorkInv, Work, Points
  <2> QED
    BY <1>1, <2>1 DEF TakeBackup, TypeOK, WorkInv, Here, Backed
<1>2. CASE CompareFile \/ CompareSkill
  <2>1. PICK point \in {"skill", "write", "copy", "aside", "cleanup", "install", "prune", "remove"} :
            /\ Goto(point) /\ ~At("idle") /\ ~At("back") /\ work.at \in Backed
            /\ point = "copy" => Here.file # None
            /\ point = "write" => Here.file = None
    BY <1>2 DEF CompareFile, CompareSkill, Backed
  <2>2. UNCHANGED <<mapping, run, home, left, history, bounds>>
    BY <1>2 DEF CompareFile, CompareSkill
  <2>3. work' \in Work /\ work'.at = point /\ work'.of = work.of /\ work'.role = work.role
        /\ work'.before = work.before /\ work'.backup = work.backup
    BY <2>1, GotoFacts DEF Points
  <2> QED
    BY <2>1, <2>2, <2>3 DEF TypeOK, WorkInv, Here, Backed
<1>3. CASE KeepCopy \/ WriteFile \/ RemoveSkill \/ Install \/ Prune
  <2>1. PICK point \in {"write", "skill", "install", "prune", "cleanup"}, c \in Content :
            /\ Goto(point) /\ Set(c) /\ ~At("idle") /\ ~At("back") /\ work.at \in Backed
            /\ point = "write" => c.file = None
    <3>1. Here \in Content /\ work.role \in Role
      BY <1>3 DEF KeepCopy, WriteFile, RemoveSkill, Install, Prune, WorkInv
    <3>2. CASE KeepCopy
      <4>1. Here.file \in Role \cup Edit /\ Here.copies \in SUBSET (Role \cup Edit)
        BY <3>1, <3>2 DEF KeepCopy, WorkInv, Content
      <4>2. [Here EXCEPT !.file = None, !.copies = Here.copies \cup {Here.file}] \in Content
        BY <3>1, <4>1 DEF Content
      <4> QED
        BY <3>1, <3>2, <4>2 DEF KeepCopy, Content, Backed
    <3>3. CASE WriteFile
      BY <3>1, <3>3 DEF WriteFile, Content, Backed
    <3>4. CASE RemoveSkill
      BY <3>1, <3>4 DEF RemoveSkill, Content, Backed
    <3>5. CASE Install
      BY <3>1, <3>5 DEF Install, Content, Backed
    <3>6. CASE Prune
      BY <3>1, <3>6 DEF Prune, Content, Backed
    <3> QED
      BY <1>3, <3>2, <3>3, <3>4, <3>5, <3>6
  <2>2. UNCHANGED <<mapping, run, left, history, bounds>>
    BY <1>3 DEF KeepCopy, WriteFile, RemoveSkill, Install, Prune
  <2>3. work' \in Work /\ work'.at = point /\ work'.of = work.of /\ work'.role = work.role
        /\ work'.before = work.before /\ work'.backup = work.backup
    BY <2>1, GotoFacts DEF Points
  <2>4. work.of \in Profile
    BY <2>1 DEF WorkInv
  <2>5. home' \in [Profile -> Content \cup {None}] /\ home'[work.of] = c
    BY <2>1, <2>4, SetFacts DEF Set
  <2> QED
    BY <2>1, <2>2, <2>3, <2>4, <2>5 DEF TypeOK, WorkInv, Here, Backed
<1>4. CASE Cleanup \/ Discard
  BY <1>4, IdleFacts DEF Cleanup, Discard, TypeOK, WorkInv, Backed
<1>5. CASE ProvisionFault
  <2>1. work' \in Work /\ work'.at = "aside" /\ work'.of = work.of /\ work'.role = work.role
        /\ work'.before = work.before /\ work'.backup = work.backup
    BY <1>5, GotoFacts DEF ProvisionFault, Points
  <2> QED
    BY <1>5, <2>1, BoundAssumption DEF ProvisionFault, Mishap, TypeOK, WorkInv, Here, Backed
<1>6. CASE SetAside
  <2>1. work' \in Work /\ work'.at = "back" /\ work'.of = work.of /\ work'.role = work.role
        /\ work'.before = work.before /\ work'.backup = work.backup /\ work'.trash = Here
    BY <1>6 DEF SetAside, TypeOK, WorkInv, Work, Points
  <2>2. home' \in [Profile -> Content \cup {None}]
    BY <1>6, SetFacts DEF SetAside, Set, WorkInv
  <2> QED
    BY <1>6, <2>1, <2>2 DEF SetAside, TypeOK, WorkInv, Backed
<1>7. CASE PutBack
  <2>1. work' \in Work /\ work'.at = "discard" /\ work'.of = work.of /\ work'.role = work.role
        /\ work'.before = work.before
    BY <1>7 DEF PutBack, TypeOK, Work, Points
  <2>2. work.of \in Profile /\ work.backup \in Content
    BY <1>7 DEF PutBack, WorkInv, Backed
  <2>3. home' \in [Profile -> Content \cup {None}] /\ home'[work.of] = work.backup
    BY <1>7, <2>2, SetFacts DEF PutBack, Set
  <2> QED
    BY <1>7, <2>1, <2>2, <2>3 DEF PutBack, TypeOK, WorkInv, Here, Backed
<1>8. CASE RestoreFault
  <2>1. work.of \in Profile /\ ~At("idle")
    BY <1>8 DEF RestoreFault, WorkInv
  <2>2. work.backup \in Content \cup {None} /\ work.trash \in Content \cup {None}
    BY DEF TypeOK, Work
  <2>3. home' \in [Profile -> Content \cup {None}]
    <3>1. home' = home \/ Set(work.trash)
      BY <1>8 DEF RestoreFault
    <3> QED
      BY <2>1, <2>2, <3>1, SetFacts DEF Set, TypeOK
  <2>4. left' \in [Profile -> SUBSET Content]
    <3>1. \E D \in SUBSET (Content \cup {None}) : Abandon(D)
      BY <1>8, <2>2 DEF RestoreFault
    <3> QED
      BY <2>1, <3>1, AbandonFacts
  <2>5. work' = Idle /\ UNCHANGED <<mapping, run, history>> /\ Mishap
    BY <1>8 DEF RestoreFault
  <2> QED
    BY <2>3, <2>4, <2>5, IdleFacts, BoundAssumption DEF Mishap, TypeOK, WorkInv, Backed
<1> QED
  BY <1>1, <1>2, <1>3, <1>4, <1>5, <1>6, <1>7, <1>8 DEF ProvisioningStep

\* The other steps keep the types and what is in hand.
LEMMA OtherTypes ==
    ASSUME TypeInv
    PROVE  /\ \A r \in Run, p \in Profile : AgentWorks(r, p) => TypeInv'
           /\ \A r \in Role : InstallSkill(r) => TypeInv'
           /\ \A r \in Role : \A force, skip, skills, replace \in BOOLEAN :
                 ProvisionRole(r, force, skip, skills, replace) => TypeInv'
           /\ \A p \in Profile, e \in Edit : Customize(p, e) => TypeInv'
           /\ \A p \in Profile, r \in Role : AddLocalSkill(p, r) => TypeInv'
           /\ \A r \in Role, p \in Profile : Restart([settings EXCEPT ![r] = p]) => TypeInv'
<1> USE DEF TypeInv, mapping, history, bounds
<1>1. ASSUME NEW r \in Run, NEW p \in Profile, AgentWorks(r, p) PROVE TypeInv'
  <2> DEFINE c == [home[p] EXCEPT !.memory = @ \cup {r}]
  <2>1. home[p] \in Content
    BY <1>1 DEF AgentWorks, TypeOK
  <2>2. c \in Content /\ c.file = home[p].file
    BY <2>1 DEF Content
  <2>3. home' = [home EXCEPT ![p] = c]
    BY <1>1 DEF AgentWorks
  <2>4. /\ home' \in [Profile -> Content \cup {None}] /\ home'[p] = c
        /\ \A q \in Profile \ {p} : home'[q] = home[q]
    BY <2>2, <2>3, SetFacts
  <2>5. worked' \subseteq Run \X Profile /\ raced' \subseteq worked'
    BY <1>1 DEF AgentWorks, TypeOK
  <2> HIDE DEF c
  <2>6. WorkInv'
    BY <1>1, <2>1, <2>2, <2>4, NoneAssumption DEF AgentWorks, WorkInv, Here, Backed
  <2> QED
    BY <1>1, <2>4, <2>5, <2>6 DEF AgentWorks, TypeOK
<1>2. ASSUME NEW p \in Profile, NEW c \in Content, home' = [home EXCEPT ![p] = c],
             Command, UNCHANGED <<mapping, run, left, work>>, worked' = worked, raced' = raced,
             valued' \in [Profile -> SUBSET Edit]
      PROVE  TypeInv'
  <2>1. home' \in [Profile -> Content \cup {None}]
    BY <1>2, SetFacts
  <2>2. commands' \in 0 .. MaxCommands /\ mishaps' = mishaps
    BY <1>2, BoundAssumption DEF Command, TypeOK
  <2> QED
    BY <1>2, <2>1, <2>2, IdleFacts DEF Command, TypeOK, WorkInv, Backed
<1>3. ASSUME NEW r \in Role, InstallSkill(r) PROVE TypeInv'
  <2>1. Effective[r] \in Profile /\ home[Effective[r]] \in Content
    BY <1>3, EffectiveType DEF InstallSkill, TypeOK
  <2>2. [home[Effective[r]] EXCEPT !.skills[r] = "pinned"] \in Content
    BY <2>1 DEF Content
  <2>3. home' = [home EXCEPT ![Effective[r]] = [home[Effective[r]] EXCEPT !.skills[r] = "pinned"]]
    BY <1>3 DEF InstallSkill
  <2> QED
    BY <1>2, <1>3, <2>1, <2>2, <2>3 DEF InstallSkill, TypeOK
<1>4. ASSUME NEW r \in Role, NEW force \in BOOLEAN, NEW skip \in BOOLEAN, NEW skills \in BOOLEAN,
             NEW replace \in BOOLEAN, ProvisionRole(r, force, skip, skills, replace)
      PROVE  TypeInv'
  <2>1. settings[r] \in Profile /\ home[settings[r]] \in Content
    BY <1>4 DEF ProvisionRole, TypeOK
  <2>2. /\ work' \in Work /\ work'.at = "backup" /\ work'.of = settings[r] /\ work'.role = r
        /\ work'.before = home[settings[r]]
    <3>1. work' = [at |-> "backup", role |-> r, of |-> settings[r], before |-> home[settings[r]],
                   force |-> force, skip |-> skip, skills |-> skills, replace |-> replace,
                   backup |-> None, trash |-> None]
      BY <1>4 DEF ProvisionRole, Idle
    <3> QED
      BY <2>1, <3>1 DEF Work, Points
  <2>3. commands' \in 0 .. MaxCommands /\ mishaps' = mishaps
    BY <1>4, BoundAssumption DEF ProvisionRole, Command, TypeOK
  <2> QED
    BY <1>4, <2>1, <2>2, <2>3 DEF ProvisionRole, TypeOK, WorkInv, Here, Backed
<1>5. ASSUME NEW p \in Profile, NEW e \in Edit, Customize(p, e) PROVE TypeInv'
  <2>1. home[p] \in Content
    BY <1>5 DEF Customize, TypeOK
  <2>2. [home[p] EXCEPT !.file = e] \in Content
    BY <2>1 DEF Content
  <2>3. home' = [home EXCEPT ![p] = [home[p] EXCEPT !.file = e]]
    BY <1>5 DEF Customize
  <2>4. valued' \in [Profile -> SUBSET Edit]
    BY <1>5 DEF Customize, TypeOK
  <2> QED
    BY <1>2, <1>5, <2>2, <2>3, <2>4 DEF Customize
<1>6. ASSUME NEW p \in Profile, NEW r \in Role, AddLocalSkill(p, r) PROVE TypeInv'
  <2>1. home[p] \in Content
    BY <1>6 DEF AddLocalSkill, TypeOK
  <2>2. [home[p] EXCEPT !.skills[r] = "local"] \in Content
    BY <2>1 DEF Content
  <2>3. home' = [home EXCEPT ![p] = [home[p] EXCEPT !.skills[r] = "local"]]
    BY <1>6 DEF AddLocalSkill
  <2> QED
    BY <1>2, <1>6, <2>2, <2>3 DEF AddLocalSkill, TypeOK
<1>7. ASSUME NEW r \in Role, NEW p \in Profile, Restart([settings EXCEPT ![r] = p]) PROVE TypeInv'
  <2>1. settings' \in [Role -> Profile] /\ mishaps' \in 0 .. MaxMishaps /\ commands' = commands
    BY <1>7, BoundAssumption DEF Restart, Mishap, TypeOK
  <2>2. left' \in [Profile -> SUBSET Content]
    <3>1. CASE work = Idle
      BY <1>7, <3>1 DEF Restart, TypeOK
    <3>2. CASE work # Idle
      <4>1. Abandon({work.backup, work.trash})
        BY <1>7, <3>2 DEF Restart
      <4> QED
        BY <4>1 DEF Abandon, TypeOK, Work
    <3> QED
      BY <3>1, <3>2
  <2> QED
    BY <1>7, <2>1, <2>2, IdleFacts DEF Restart, TypeOK, WorkInv, Backed
<1> QED
  BY <1>1, <1>3, <1>4, <1>5, <1>6, <1>7

\* Every step keeps the types and what a provisioning has in hand.
LEMMA TypeStep == TypeInv /\ [Next]_vars => TypeInv'
<1> SUFFICES ASSUME TypeInv, [Next]_vars PROVE TypeInv'
  OBVIOUS
<1>1. CASE UNCHANGED vars
  BY <1>1 DEF vars, mapping, history, bounds, TypeInv, TypeOK, WorkInv, Here
<1>2. CASE MappingStep
  <2>1. TypeOK'
    BY <1>2, MappingTypes
  <2>2. WorkInv'
    BY <1>2, MappingFrame DEF TypeInv, WorkInv, Here
  <2> QED
    BY <2>1, <2>2 DEF TypeInv
<1>3. CASE ProvisioningStep
  BY <1>3, ProvisioningTypes
<1> QED
  BY <1>1, <1>2, <1>3, NextCases, OtherTypes

LEMMA TypeInit == Init => TypeInv
<1> SUFFICES ASSUME Init PROVE TypeInv
  OBVIOUS
<1>1. settings \in [Role -> Profile] /\ rows \in [Role -> Assignment \cup {None}]
      /\ rows = [r \in Role |-> None]
  BY DEF Init
<1>2. page \in [profiles : [Role -> Profile], revisions : [Role -> Nat]]
  BY <1>1 DEF Init, Token, Effective, Revisions
<1>3. run \in [Run -> RunRecord]
  BY DEF Init, RunRecord, Status
<1>4. home \in [Profile -> Content \cup {None}]
  BY DEF Init, Content
<1>5. left \in [Profile -> SUBSET Content] /\ valued \in [Profile -> SUBSET Edit]
  BY DEF Init
<1>6. matrix \in Matrix /\ loaded \in Matrix /\ worked = {} /\ raced = {} /\ work = Idle
      /\ commands = 0 /\ mishaps = 0
  BY DEF Init
<1>7. TypeOK
  BY <1>1, <1>2, <1>3, <1>4, <1>5, <1>6, IdleFacts, BoundAssumption DEF TypeOK
<1> QED
  BY <1>6, <1>7, IdleFacts DEF TypeInv, WorkInv, Backed

LEMMA TypesHold == Spec => []TypeInv
BY TypeInit, TypeStep, PTL DEF Spec

\* Every variable has its type, in every reachable state.
THEOREM TypeCorrect == Spec => []TypeOK
<1>1. TypeInv => TypeOK
  BY DEF TypeInv
<1> QED
  BY <1>1, TypesHold, PTL

-----------------------------------------------------------------------------
(* Reviews and assignments.                                                *)

\* A run freezes its resources when it is prepared, and never before.
ReviewInv ==
    /\ \A r \in Run : run[r].status \in {"absent", "created"} => run[r].frozen = None
    /\ PreparedAsReviewed

LEMMA ReviewStep == TypeInv /\ ReviewInv /\ [Next]_vars => ReviewInv'
<1> SUFFICES ASSUME TypeInv, ReviewInv, [Next]_vars PROVE ReviewInv'
  OBVIOUS
<1> USE DEF ReviewInv, PreparedAsReviewed
<1>0. run \in [Run -> RunRecord]
  BY DEF TypeInv, TypeOK
<1>1. CASE UNCHANGED run
  BY <1>1 DEF Isolated
<1>2. ASSUME NEW r \in Run, StartRun(r) PROVE ReviewInv'
  BY <1>0, <1>2 DEF StartRun, RunRecord, Isolated
<1>3. ASSUME NEW r \in Run, Prepare(r) PROVE ReviewInv'
  <2>1. CASE ~Isolated(Effective)
    BY <1>0, <1>3, <2>1 DEF Prepare, RunRecord, Isolated
  <2>2. CASE Isolated(Effective) /\ Resources(loaded) # run[r].reviewed
    BY <1>0, <1>3, <2>2 DEF Prepare, RunRecord, Isolated
  <2>3. CASE Isolated(Effective) /\ Resources(loaded) = run[r].reviewed
    <3>1. /\ run' = [run EXCEPT ![r].status = "running", ![r].frozen = Resources(loaded)]
          /\ Isolated(Resources(loaded).profiles)
      BY <1>3, <2>3 DEF Prepare, Resources
    <3> QED
      BY <1>0, <2>3, <3>1 DEF RunRecord, Isolated
  <2> QED
    BY <2>1, <2>2, <2>3
<1>4. ASSUME NEW r \in Run, NEW status \in {"failed", "correcting", "ended"}, EndRun(r, status)
      PROVE  ReviewInv'
  BY <1>0, <1>4 DEF EndRun, RunRecord, Isolated
<1>5. CASE ProvisioningStep
  BY <1>1, <1>5 DEF ProvisioningStep, TakeBackup, CompareFile, KeepCopy, WriteFile, CompareSkill,
                    RemoveSkill, Install, Prune, Cleanup, ProvisionFault, SetAside, PutBack,
                    Discard, RestoreFault
<1>6. CASE UNCHANGED vars
  BY <1>1, <1>6 DEF vars
<1> QED
  BY <1>1, <1>2, <1>3, <1>4, <1>5, <1>6, NextCases
     DEF MappingStep, OpenPage, SaveProfile, EditMatrix, AgentWorks, InstallSkill, ProvisionRole,
         Customize, AddLocalSkill, Restart

\* A run works with what its researcher reviewed, and the reviewer shares no
\* profile in it.
THEOREM RunsArePreparedAsReviewed == Spec => []PreparedAsReviewed
<1>1. Init => ReviewInv
  BY DEF Init, ReviewInv, PreparedAsReviewed
<1>2. ReviewInv => PreparedAsReviewed
  BY DEF ReviewInv
<1> QED
  BY <1>1, <1>2, ReviewStep, TypesHold, PTL DEF Spec

\* An assignment changes the mapping that its page displayed and keeps the
\* reviewer isolated.
THEOREM AssignmentsAreAsShown == Spec => SavesAsShown
<1> DEFINE Shown == \A r \in Role, p \in Profile : SaveProfile(r, p, page) =>
                        /\ Effective' = [page.profiles EXCEPT ![r] = p]
                        /\ Isolated(Effective')
<1>1. ASSUME TypeInv, NEW r \in Role, NEW p \in Profile, SaveProfile(r, p, page)
      PROVE  Effective' = [page.profiles EXCEPT ![r] = p] /\ Isolated(Effective')
  <2> DEFINE row == [profile |-> p, revision |-> Revisions[r] + 1]
  <2>1. page.profiles = Effective /\ settings' = settings /\ rows' = [rows EXCEPT ![r] = row]
    BY <1>1 DEF SaveProfile, Token, Assign
  <2>2. row \in Assignment
    BY <1>1, EffectiveType DEF TypeInv, Assignment
  <2>3. row # None /\ row.profile = p
    BY <2>2, NoneAssumption
  <2>4. rows \in [Role -> Assignment \cup {None}]
    BY <1>1 DEF TypeInv, TypeOK
  <2> HIDE DEF row
  <2>5. Effective' = [Effective EXCEPT ![r] = p]
    BY <2>1, <2>3, <2>4 DEF Effective
  <2>6. Isolated([Effective EXCEPT ![r] = p])
    BY <1>1 DEF SaveProfile, Acceptable
  <2> QED
    BY <2>1, <2>5, <2>6
<1>2. TypeInv /\ [Next]_vars => [Shown]_vars
  BY <1>1
<1> QED
  BY <1>2, TypesHold, PTL DEF Spec, SavesAsShown

-----------------------------------------------------------------------------
(* What users wrote and agents remember.                                   *)

HasEdit(c, e) == c # None /\ (c.file = e \/ e \in c.copies)
HasMemory(c, r) == c # None /\ r \in c.memory

\* In the profile unless it is set aside, in the backup if there is one, or in a
\* directory left behind.
EditKept(p, e) ==
    \/ \E c \in left[p] : HasEdit(c, e)
    \/ /\ (At("back") /\ work.of = p) \/ HasEdit(home[p], e)
       /\ (work.at \in Backed /\ work.of = p) => HasEdit(work.backup, e)

MemoryKept(p, r) ==
    \/ \E c \in left[p] : HasMemory(c, r)
    \/ /\ (At("back") /\ work.of = p) \/ HasMemory(home[p], r)
       /\ (work.at \in Backed /\ work.of = p) => HasMemory(work.backup, r)

KeepInv ==
    /\ \A p \in Profile : \A e \in valued[p] : EditKept(p, e)
    /\ \A p \in Profile, r \in Run : <<r, p>> \in worked \ raced => MemoryKept(p, r)

\* What the steps of a provisioning do to what is kept.
Conserves(p) ==
    /\ \A e \in Edit : EditKept(p, e) => EditKept(p, e)'
    /\ \A r \in Run : MemoryKept(p, r) => MemoryKept(p, r)'

\* A step that changes the profile under provisioning and loses nothing of it.
LEMMA ChangeConserves ==
    ASSUME TypeInv, left' = left, NEW p \in Profile,
           work.at \in Backed \ {"back"}, work'.at \in (Backed \ {"back"}) \cup {"discard", "idle"},
           work'.of = work.of \/ work'.at = "idle",
           work'.at \in Backed => work'.backup = work.backup,
           \A q \in Profile \ {work.of} : home'[q] = home[q],
           \A e \in Edit : HasEdit(Here, e) => HasEdit(home'[work.of], e),
           \A r \in Run : HasMemory(Here, r) => HasMemory(home'[work.of], r)
    PROVE  Conserves(p)
BY DEF Conserves, EditKept, MemoryKept, Here, Backed

\* Every step of a provisioning conserves what every profile is to keep.
LEMMA ProvisioningConserves ==
    ASSUME TypeInv, ProvisioningStep, NEW p \in Profile
    PROVE  Conserves(p)
<1>1. work.of \in Profile /\ ~At("idle")
  BY DEF ProvisioningStep, TakeBackup, CompareFile, KeepCopy, WriteFile, CompareSkill,
         RemoveSkill, Install, Prune, Cleanup, ProvisionFault, SetAside, PutBack, Discard,
         RestoreFault, TypeInv, WorkInv
<1>2. CASE TakeBackup
  <2>1. /\ work'.at = "file" /\ work'.of = work.of /\ work'.backup = Here
        /\ work.at = "backup" /\ left' = left /\ home' = home
    BY <1>2 DEF TakeBackup, TypeInv, TypeOK, Work
  <2> QED
    BY <2>1 DEF Conserves, EditKept, MemoryKept, Here, Backed
<1>3. CASE CompareFile \/ CompareSkill \/ ProvisionFault
  <2>1. PICK point \in Backed \ {"back"} : Goto(point) /\ work.at \in Backed \ {"back"}
    BY <1>3 DEF CompareFile, CompareSkill, ProvisionFault, Backed
  <2>2. work'.at = point /\ work'.of = work.of /\ work'.backup = work.backup
    BY <2>1, GotoFacts DEF TypeInv, Points, Backed
  <2>3. left' = left /\ home' = home
    BY <1>3 DEF CompareFile, CompareSkill, ProvisionFault
  <2> QED
    BY <1>1, <2>1, <2>2, <2>3, ChangeConserves DEF Here
<1>4. CASE KeepCopy \/ WriteFile \/ RemoveSkill \/ Install \/ Prune
  <2>1. PICK point \in Backed \ {"back"}, c \in Content :
            /\ Goto(point) /\ Set(c) /\ work.at \in Backed \ {"back"}
            /\ \A e \in Edit : HasEdit(Here, e) => HasEdit(c, e)
            /\ \A r \in Run : HasMemory(Here, r) => HasMemory(c, r)
    <3>1. Here \in Content /\ work.role \in Role
      BY <1>4 DEF KeepCopy, WriteFile, RemoveSkill, Install, Prune, TypeInv, WorkInv
    <3>2. CASE KeepCopy
      <4> DEFINE c == [Here EXCEPT !.file = None, !.copies = Here.copies \cup {Here.file}]
      <4>1. Here.file \in Role \cup Edit /\ Here.copies \in SUBSET (Role \cup Edit)
        BY <3>1, <3>2 DEF KeepCopy, TypeInv, WorkInv, Content
      <4>2. /\ c \in Content /\ c.copies = Here.copies \cup {Here.file}
            /\ c.memory = Here.memory
        BY <3>1, <4>1 DEF Content
      <4>3. Goto("write") /\ Set(c) /\ At("copy")
        BY <3>2 DEF KeepCopy
      <4> HIDE DEF c
      <4> QED
        BY <4>2, <4>3, NoneAssumption DEF HasEdit, HasMemory, Backed
    <3>3. CASE WriteFile
      <4> DEFINE c == [Here EXCEPT !.file = work.role]
      <4>1. c \in Content /\ c.copies = Here.copies /\ c.memory = Here.memory
        BY <3>1 DEF Content
      <4>2. Goto("skill") /\ Set(c) /\ At("write") /\ Here.file = None
        BY <3>3 DEF WriteFile, TypeInv, WorkInv
      <4> HIDE DEF c
      <4> QED
        BY <4>1, <4>2, NoneAssumption DEF HasEdit, HasMemory, Backed
    <3>4. CASE RemoveSkill \/ Install \/ Prune
      <4>1. PICK s \in [Role -> {"none", "pinned", "local"}], point \in {"install", "prune", "cleanup"} :
                /\ Goto(point) /\ Set([Here EXCEPT !.skills = s])
                /\ work.at \in {"remove", "install", "prune"}
        <5>1. Here.skills \in [Role -> {"none", "pinned", "local"}]
          BY <3>1 DEF Content
        <5>2. CASE RemoveSkill
          <6>1. [Here EXCEPT !.skills[work.role] = "none"]
                    = [Here EXCEPT !.skills = [Here.skills EXCEPT ![work.role] = "none"]]
            BY <3>1 DEF Content
          <6> QED
            BY <5>1, <5>2, <6>1 DEF RemoveSkill
        <5>3. CASE Install
          <6>1. [Here EXCEPT !.skills[work.role] = "pinned"]
                    = [Here EXCEPT !.skills = [Here.skills EXCEPT ![work.role] = "pinned"]]
            BY <3>1 DEF Content
          <6> QED
            BY <5>1, <5>3, <6>1 DEF Install
        <5>4. CASE Prune
          BY <5>1, <5>4 DEF Prune
        <5> QED
          BY <3>4, <5>2, <5>3, <5>4
      <4> DEFINE c == [Here EXCEPT !.skills = s]
      <4>2. /\ c \in Content /\ c.copies = Here.copies /\ c.file = Here.file
            /\ c.memory = Here.memory
        BY <3>1 DEF Content
      <4>3. Goto(point) /\ Set(c) /\ work.at \in Backed \ {"back"}
        BY <4>1 DEF Backed
      <4> HIDE DEF c
      <4> QED
        BY <4>1, <4>2, <4>3, NoneAssumption DEF HasEdit, HasMemory, Backed
    <3> QED
      BY <1>4, <3>2, <3>3, <3>4
  <2>2. work'.at = point /\ work'.of = work.of /\ work'.backup = work.backup
    BY <2>1, GotoFacts DEF TypeInv, Points, Backed
  <2>3. left' = left
    BY <1>4 DEF KeepCopy, WriteFile, RemoveSkill, Install, Prune
  <2>4. home'[work.of] = c /\ \A q \in Profile \ {work.of} : home'[q] = home[q]
    BY <1>1, <2>1, SetFacts DEF Set, TypeInv
  <2> QED
    BY <1>1, <2>1, <2>2, <2>3, <2>4, ChangeConserves
<1>5. CASE Cleanup \/ Discard
  <2>1. work'.at = "idle" /\ ~At("back") /\ left' = left /\ home' = home
    BY <1>5, IdleFacts DEF Cleanup, Discard
  <2> QED
    BY <2>1 DEF Conserves, EditKept, MemoryKept, Backed
<1>6. CASE SetAside
  <2>1. /\ work'.at = "back" /\ work'.of = work.of /\ work'.backup = work.backup
        /\ At("aside") /\ left' = left
    BY <1>6 DEF SetAside, TypeInv, TypeOK, Work
  <2>2. \A q \in Profile \ {work.of} : home'[q] = home[q]
    BY <1>1, <1>6, SetFacts DEF SetAside, Set, TypeInv
  <2> QED
    BY <2>1, <2>2 DEF Conserves, EditKept, MemoryKept, Backed
<1>7. CASE PutBack
  <2>1. work'.at = "discard" /\ work'.of = work.of /\ At("back") /\ left' = left
    BY <1>7 DEF PutBack, TypeInv, TypeOK, Work
  <2>2. home'[work.of] = work.backup /\ \A q \in Profile \ {work.of} : home'[q] = home[q]
    BY <1>1, <1>7, SetFacts DEF PutBack, Set, TypeInv, TypeOK, Work
  <2> QED
    BY <2>1, <2>2 DEF Conserves, EditKept, MemoryKept, Backed
<1>8. CASE RestoreFault
  <2>1. work'.at = "idle"
    BY <1>8, IdleFacts DEF RestoreFault
  <2>2. work.backup \in Content \cup {None} /\ work.trash \in Content \cup {None}
    BY DEF TypeInv, TypeOK, Work
  <2>3. CASE At("discard")
    <3>1. home' = home /\ left[p] \subseteq left'[p]
      BY <1>1, <1>8, <2>2, <2>3, AbandonFacts DEF RestoreFault, TypeInv
    <3> QED
      BY <2>1, <2>3, <3>1 DEF Conserves, EditKept, MemoryKept, Backed
  <2>4. CASE At("aside") \/ At("back")
    <3>1. PICK D \in {{work.backup}, {work.backup, work.trash}} : Abandon(D)
      BY <1>8, <2>4 DEF RestoreFault
    <3>2. left'[work.of] = left[work.of] \cup (D \ {None}) /\ left[p] \subseteq left'[p]
      BY <1>1, <2>2, <3>1, AbandonFacts DEF TypeInv
    <3>3. work.backup # None => work.backup \in left'[work.of]
      BY <3>1, <3>2
    <3>4. p # work.of => home'[p] = home[p]
      BY <1>1, <1>8, <2>2, SetFacts DEF RestoreFault, Set, TypeInv
    <3> QED
      BY <2>1, <2>4, <3>2, <3>3, <3>4
         DEF Conserves, EditKept, MemoryKept, HasEdit, HasMemory, Backed
  <2> QED
    BY <1>8, <2>3, <2>4 DEF RestoreFault
<1> QED
  BY <1>2, <1>3, <1>4, <1>5, <1>6, <1>7, <1>8 DEF ProvisioningStep

\* A step that changes profiles and loses nothing of them.
LEMMA GrowthConserves ==
    ASSUME left' = left, work' = work, NEW p \in Profile,
           \A e \in Edit : HasEdit(home[p], e) => HasEdit(home'[p], e),
           \A r \in Run : HasMemory(home[p], r) => HasMemory(home'[p], r)
    PROVE  Conserves(p)
BY DEF Conserves, EditKept, MemoryKept

\* What is conserved and was to be kept is kept.
LEMMA ConservingStep ==
    ASSUME TypeInv, KeepInv, UNCHANGED history, \A p \in Profile : Conserves(p)
    PROVE  KeepInv'
<1>1. ASSUME NEW p \in Profile, NEW e \in valued[p] PROVE e \in Edit
  BY DEF TypeInv, TypeOK
<1> QED
  BY <1>1 DEF KeepInv, Conserves, history

\* Skills may change in a profile.
LEMMA SkillsConserve ==
    ASSUME TypeInv, KeepInv, left' = left, work' = work, UNCHANGED history,
           NEW q \in Profile, home[q] # None,
           NEW s \in [Role -> {"none", "pinned", "local"}],
           home' = [home EXCEPT ![q].skills = s]
    PROVE  KeepInv'
<1> DEFINE c == [home[q] EXCEPT !.skills = s]
<1>1. home[q] \in Content
  BY DEF TypeInv, TypeOK
<1>2. /\ c \in Content /\ c.file = home[q].file /\ c.copies = home[q].copies
      /\ c.memory = home[q].memory
  BY <1>1 DEF Content
<1>3. home'[q] = c /\ \A p \in Profile \ {q} : home'[p] = home[p]
  BY <1>2, SetFacts DEF TypeInv
<1> HIDE DEF c
<1>4. ASSUME NEW p \in Profile PROVE Conserves(p)
  <2>1. CASE p = q
    BY <1>2, <1>3, <2>1, GrowthConserves, NoneAssumption DEF HasEdit, HasMemory
  <2>2. CASE p # q
    BY <1>3, <2>2, GrowthConserves
  <2> QED
    BY <2>1, <2>2
<1> QED
  BY <1>4, ConservingStep

\* An agent that works in a profile forgets nothing of it.
LEMMA WorkKeeps ==
    ASSUME TypeInv, KeepInv, NEW r \in Run, NEW p \in Profile, AgentWorks(r, p)
    PROVE  KeepInv'
<1> DEFINE c == [home[p] EXCEPT !.memory = home[p].memory \cup {r}]
<1>1. home[p] \in Content
  BY DEF AgentWorks, TypeInv, TypeOK
<1>2. /\ c \in Content /\ c.file = home[p].file /\ c.copies = home[p].copies
      /\ c.memory = home[p].memory \cup {r}
  BY <1>1 DEF Content
<1>3. home'[p] = c /\ \A q \in Profile \ {p} : home'[q] = home[q]
  BY <1>2, SetFacts DEF AgentWorks, TypeInv
<1>4. left' = left /\ work' = work /\ valued' = valued /\ worked' = worked \cup {<<r, p>>}
      /\ raced' = IF work.of = p /\ <<r, p>> \notin worked THEN raced \cup {<<r, p>>} ELSE raced
  BY DEF AgentWorks
<1> HIDE DEF c
<1>5. ASSUME NEW q \in Profile PROVE Conserves(q)
  <2>1. CASE q = p
    BY <1>2, <1>3, <1>4, <2>1, GrowthConserves, NoneAssumption DEF HasEdit, HasMemory
  <2>2. CASE q # p
    BY <1>3, <1>4, <2>2, GrowthConserves
  <2> QED
    BY <2>1, <2>2
<1>6. ASSUME NEW q \in Profile, NEW e \in valued'[q] PROVE EditKept(q, e)'
  <2>1. e \in valued[q] /\ e \in Edit
    BY <1>4 DEF TypeInv, TypeOK
  <2> QED
    BY <1>5, <2>1 DEF KeepInv, Conserves
<1>7. ASSUME NEW q \in Profile, NEW s \in Run, <<s, q>> \in worked' \ raced'
      PROVE  MemoryKept(q, s)'
  <2>1. CASE <<s, q>> \in worked
    <3>1. <<s, q>> \notin raced
      BY <1>4, <1>7
    <3> QED
      BY <1>5, <2>1, <3>1 DEF KeepInv, Conserves
  <2>2. CASE <<s, q>> \notin worked
    <3>1. s = r /\ q = p /\ work.of # p
      BY <1>4, <1>7, <2>2
    <3> QED
      BY <1>2, <1>3, <1>4, <3>1, NoneAssumption DEF MemoryKept, HasMemory
  <2> QED
    BY <2>1, <2>2
<1> QED
  BY <1>6, <1>7 DEF KeepInv

\* A user who replaces a version does not miss it.
LEMMA CustomizeKeeps ==
    ASSUME TypeInv, KeepInv, NEW p \in Profile, NEW e \in Edit, Customize(p, e)
    PROVE  KeepInv'
<1> DEFINE c == [home[p] EXCEPT !.file = e]
<1>1. home[p] \in Content /\ work = Idle
  BY DEF Customize, Command, TypeInv, TypeOK
<1>2. /\ c \in Content /\ c.file = e /\ c.copies = home[p].copies
      /\ c.memory = home[p].memory
  BY <1>1 DEF Content
<1>3. home'[p] = c /\ \A q \in Profile \ {p} : home'[q] = home[q]
  BY <1>2, SetFacts DEF Customize, TypeInv
<1>4. /\ left' = left /\ work' = work /\ worked' = worked /\ raced' = raced
      /\ valued'[p] = (valued[p] \ {home[p].file}) \cup {e}
      /\ \A q \in Profile \ {p} : valued'[q] = valued[q]
  BY DEF Customize, TypeInv, TypeOK
<1>5. ~At("back") /\ work.at \notin Backed
  BY <1>1, IdleFacts DEF Backed
<1> HIDE DEF c
<1>6. ASSUME NEW q \in Profile, NEW x \in valued'[q] PROVE EditKept(q, x)'
  <2>1. CASE q # p
    BY <1>3, <1>4, <2>1 DEF KeepInv, EditKept
  <2>2. CASE q = p /\ x = e
    BY <1>2, <1>3, <1>4, <1>5, <2>2, NoneAssumption DEF EditKept, HasEdit
  <2>3. CASE q = p /\ x # e
    <3>1. x \in valued[p] /\ x # home[p].file
      BY <1>4, <2>3
    <3>2. EditKept(p, x)
      BY <3>1 DEF KeepInv
    <3>3. HasEdit(home[p], x) => HasEdit(home'[p], x)
      BY <1>2, <1>3, <3>1, NoneAssumption DEF HasEdit
    <3> QED
      BY <1>4, <1>5, <2>3, <3>2, <3>3 DEF EditKept
  <2> QED
    BY <2>1, <2>2, <2>3
<1>7. ASSUME NEW q \in Profile, NEW s \in Run, <<s, q>> \in worked' \ raced'
      PROVE  MemoryKept(q, s)'
  <2>1. MemoryKept(q, s)
    BY <1>4, <1>7 DEF KeepInv
  <2>2. HasMemory(home[q], s) => HasMemory(home'[q], s)
    BY <1>2, <1>3, NoneAssumption DEF HasMemory
  <2> QED
    BY <1>4, <2>1, <2>2 DEF MemoryKept
<1> QED
  BY <1>6, <1>7 DEF KeepInv

\* A killed provisioning leaves its backup, and what it set aside, behind.
LEMMA RestartConserves ==
    ASSUME TypeInv, NEW new, Restart(new), NEW p \in Profile
    PROVE  Conserves(p)
<1>1. home' = home /\ work' = Idle
  BY DEF Restart
<1>2. CASE work = Idle
  BY <1>1, <1>2 DEF Restart, Conserves, EditKept, MemoryKept
<1>3. CASE work # Idle
  <2>1. Abandon({work.backup, work.trash})
    BY <1>3 DEF Restart
  <2>2. left' = [left EXCEPT ![work.of] = left[work.of] \cup ({work.backup, work.trash} \ {None})]
    BY <2>1 DEF Abandon
  <2>3. left \in [Profile -> SUBSET Content]
    BY DEF TypeInv, TypeOK
  <2>4. left[p] \subseteq left'[p]
    BY <2>2, <2>3
  <2>5. work.at \in Backed /\ work.of = p => work.backup \in left'[p]
    BY <2>2, <2>3, NoneAssumption DEF TypeInv, WorkInv
  <2> QED
    BY <1>1, <2>4, <2>5, IdleFacts DEF Conserves, EditKept, MemoryKept, Backed
<1> QED
  BY <1>2, <1>3

LEMMA KeepStep == TypeInv /\ KeepInv /\ [Next]_vars => KeepInv'
<1> SUFFICES ASSUME TypeInv, KeepInv, [Next]_vars PROVE KeepInv'
  OBVIOUS
<1>1. CASE UNCHANGED <<home, left, work, history>>
  <2>1. \A p \in Profile : Conserves(p)
    BY <1>1 DEF Conserves, EditKept, MemoryKept
  <2> QED
    BY <1>1, <2>1, ConservingStep
<1>2. CASE ProvisioningStep
  <2>1. UNCHANGED history
    BY <1>2 DEF ProvisioningStep, TakeBackup, CompareFile, KeepCopy, WriteFile, CompareSkill,
                RemoveSkill, Install, Prune, Cleanup, ProvisionFault, SetAside, PutBack,
                Discard, RestoreFault
  <2> QED
    BY <1>2, <2>1, ProvisioningConserves, ConservingStep
<1>3. ASSUME NEW r \in Role, InstallSkill(r) PROVE KeepInv'
  <2>1. Effective[r] \in Profile /\ home[Effective[r]] # None /\ left' = left /\ work' = work
        /\ UNCHANGED history
    BY <1>3, EffectiveType DEF InstallSkill, TypeInv
  <2>2. home[Effective[r]].skills \in [Role -> {"none", "pinned", "local"}]
    BY <2>1 DEF TypeInv, TypeOK, Content
  <2> DEFINE s == [home[Effective[r]].skills EXCEPT ![r] = "pinned"]
  <2>3. s \in [Role -> {"none", "pinned", "local"}]
    BY <2>2
  <2>4. home' = [home EXCEPT ![Effective[r]].skills = s]
    BY <1>3 DEF InstallSkill
  <2> QED
    BY <2>1, <2>3, <2>4, SkillsConserve
<1>4. ASSUME NEW r \in Role, NEW force \in BOOLEAN, NEW skip \in BOOLEAN, NEW skills \in BOOLEAN,
             NEW replace \in BOOLEAN, ProvisionRole(r, force, skip, skills, replace)
      PROVE  KeepInv'
  <2>1. work = Idle /\ work'.at = "backup" /\ UNCHANGED <<home, left, history>>
    BY <1>4 DEF ProvisionRole, Command, Idle
  <2>2. \A p \in Profile : Conserves(p)
    BY <2>1, IdleFacts DEF Conserves, EditKept, MemoryKept, Backed
  <2> QED
    BY <2>1, <2>2, ConservingStep
<1>5. ASSUME NEW p \in Profile, NEW r \in Role, AddLocalSkill(p, r) PROVE KeepInv'
  <2>1. home[p] # None /\ left' = left /\ work' = work /\ UNCHANGED history
    BY <1>5 DEF AddLocalSkill
  <2>2. home[p].skills \in [Role -> {"none", "pinned", "local"}]
    BY <2>1 DEF TypeInv, TypeOK, Content
  <2> DEFINE s == [home[p].skills EXCEPT ![r] = "local"]
  <2>3. s \in [Role -> {"none", "pinned", "local"}]
    BY <2>2
  <2>4. home' = [home EXCEPT ![p].skills = s]
    BY <1>5 DEF AddLocalSkill
  <2> QED
    BY <2>1, <2>3, <2>4, SkillsConserve
<1>6. ASSUME NEW r \in Role, NEW p \in Profile, Restart([settings EXCEPT ![r] = p])
      PROVE  KeepInv'
  <2>1. UNCHANGED history
    BY <1>6 DEF Restart
  <2> QED
    BY <1>6, <2>1, RestartConserves, ConservingStep
<1>7. CASE UNCHANGED vars
  BY <1>1, <1>7 DEF vars
<1> QED
  BY <1>1, <1>2, <1>3, <1>4, <1>5, <1>6, <1>7, NextCases, MappingFrame, WorkKeeps, CustomizeKeeps

\* A version that a user wrote and a memory that an agent made before the
\* provisioning can always be found.
THEOREM NothingIsEverLost == Spec => []NothingIsLost
<1>1. Init => KeepInv
  BY DEF Init, KeepInv
<1>2. TypeInv /\ KeepInv => NothingIsLost
  <2> SUFFICES ASSUME TypeInv, KeepInv PROVE NothingIsLost
    OBVIOUS
  <2>1. ASSUME NEW p \in Profile, NEW e \in valued[p]
        PROVE  \E c \in CopiesOf(p) : c.file = e \/ e \in c.copies
    <3>1. EditKept(p, e)
      BY <2>1 DEF KeepInv
    <3>2. left[p] \subseteq Content
      BY DEF TypeInv, TypeOK
    <3> QED
      BY <3>1, <3>2 DEF EditKept, HasEdit, CopiesOf, Backed
  <2>2. ASSUME NEW p \in Profile, NEW r \in Run, <<r, p>> \in worked \ raced
        PROVE  \E c \in CopiesOf(p) : r \in c.memory
    <3>1. MemoryKept(p, r)
      BY <2>2 DEF KeepInv
    <3> QED
      BY <3>1 DEF MemoryKept, HasMemory, CopiesOf, Backed
  <2> QED
    BY <2>1, <2>2 DEF NothingIsLost
<1> QED
  BY <1>1, <1>2, KeepStep, TypesHold, PTL DEF Spec

-----------------------------------------------------------------------------
(* What a provisioning answers.                                            *)

\* All but the memories, which agents add to meanwhile.
Same(c, d) == c.file = d.file /\ c.copies = d.copies /\ c.skills = d.skills

FileDone == Here.file = work.role \/ (work.skip /\ Here.file = work.before.file)

DoneInv ==
    /\ work.at \in {"backup", "file", "discard"} => Same(Here, work.before)
    /\ work.at \in Backed => Same(work.backup, work.before)
    /\ work.at \in {"skill", "remove", "install", "prune", "cleanup"} => FileDone
    /\ At("prune") => Here.skills[work.role] = "pinned"
    /\ At("cleanup") /\ work.skills =>
           Here.skills = [r \in Role |-> IF r = work.role THEN "pinned" ELSE "none"]
    /\ work.at \in {"remove", "install", "prune"} => work.skills

\* The steps of a provisioning keep it.
LEMMA ProvisioningDone ==
    ASSUME TypeInv, DoneInv, ProvisioningStep
    PROVE  DoneInv'
<1> USE DEF DoneInv, Backed
<1>1. CASE TakeBackup
  <2>1. /\ work'.at = "file" /\ work'.of = work.of /\ work'.before = work.before
        /\ work'.backup = Here /\ home' = home
    BY <1>1 DEF TakeBackup, TypeInv, TypeOK, Work
  <2> QED
    BY <1>1, <2>1 DEF TakeBackup, Same, Here
<1>2. CASE CompareFile
  <2>1. PICK point \in {"skill", "write", "copy", "aside"} :
            /\ Goto(point) /\ At("file")
            /\ point = "skill" => Here.file = work.role \/ work.skip
    BY <1>2 DEF CompareFile
  <2>2. /\ work'.at = point /\ work'.of = work.of /\ work'.role = work.role
        /\ work'.before = work.before /\ work'.backup = work.backup /\ work'.skip = work.skip
        /\ home' = home
    BY <1>2, <2>1, GotoFacts DEF TypeInv, Points, CompareFile
  <2> QED
    BY <2>1, <2>2 DEF Same, FileDone, Here
<1>3. CASE CompareSkill
  <2>1. PICK point \in {"cleanup", "install", "prune", "remove", "aside"} :
            /\ Goto(point) /\ At("skill")
            /\ point = "cleanup" => ~work.skills
            /\ point \in {"install", "prune", "remove"} => work.skills
            /\ point = "prune" => Here.skills[work.role] = "pinned"
    <3>1. work.skills \in BOOLEAN /\ Here.skills \in [Role -> {"none", "pinned", "local"}]
          /\ work.role \in Role
      BY <1>3 DEF CompareSkill, TypeInv, TypeOK, WorkInv, Work, Content
    <3> QED
      BY <1>3, <3>1 DEF CompareSkill
  <2>2. /\ work'.at = point /\ work'.of = work.of /\ work'.role = work.role
        /\ work'.before = work.before /\ work'.backup = work.backup /\ work'.skip = work.skip
        /\ work'.skills = work.skills /\ home' = home
    BY <1>3, <2>1, GotoFacts DEF TypeInv, Points, CompareSkill
  <2> QED
    BY <2>1, <2>2 DEF Same, FileDone, Here
<1>4. CASE KeepCopy \/ ProvisionFault
  <2>1. PICK point \in {"write", "aside"} : Goto(point) /\ work.at \in Backed
    BY <1>4 DEF KeepCopy, ProvisionFault
  <2>2. /\ work'.at = point /\ work'.before = work.before /\ work'.backup = work.backup
    BY <2>1, GotoFacts DEF TypeInv, Points
  <2> QED
    BY <2>1, <2>2
<1>5. CASE WriteFile \/ RemoveSkill \/ Install \/ Prune
  <2>1. Here \in Content /\ work.role \in Role /\ work.of \in Profile
    BY <1>5 DEF WriteFile, RemoveSkill, Install, Prune, TypeInv, WorkInv
  <2>2. PICK point \in {"skill", "install", "prune", "cleanup"}, c \in Content :
            /\ Goto(point) /\ Set(c) /\ work.at \in {"write", "remove", "install", "prune"}
            /\ c.file = work.role \/ (c.file = Here.file /\ ~At("write"))
            /\ point = "skill" <=> At("write")
            /\ point = "prune" => c.skills[work.role] = "pinned"
            /\ point = "cleanup" =>
                   c.skills = [r \in Role |-> IF r = work.role THEN "pinned" ELSE "none"]
    <3>1. CASE WriteFile
      BY <2>1, <3>1 DEF WriteFile, Content
    <3>2. CASE RemoveSkill
      BY <2>1, <3>2 DEF RemoveSkill, Content
    <3>3. CASE Install
      BY <2>1, <3>3 DEF Install, Content
    <3>4. CASE Prune
      <4> DEFINE c == [Here EXCEPT !.skills =
                          [r \in Role |-> IF r = work.role THEN @[r] ELSE "none"]]
      <4>1. /\ c \in Content /\ c.file = Here.file
            /\ c.skills = [r \in Role |-> IF r = work.role THEN Here.skills[r] ELSE "none"]
        BY <2>1 DEF Content
      <4>2. At("prune") /\ Goto("cleanup") /\ Set(c)
        BY <3>4 DEF Prune
      <4>3. c.skills = [r \in Role |-> IF r = work.role THEN "pinned" ELSE "none"]
        BY <4>1, <4>2
      <4> HIDE DEF c
      <4> QED
        BY <4>1, <4>2, <4>3
    <3> QED
      BY <1>5, <3>1, <3>2, <3>3, <3>4
  <2>3. /\ work'.at = point /\ work'.of = work.of /\ work'.role = work.role
        /\ work'.before = work.before /\ work'.backup = work.backup /\ work'.skip = work.skip
        /\ work'.skills = work.skills
    BY <2>2, GotoFacts DEF TypeInv, Points
  <2>4. home'[work.of] = c
    BY <2>1, <2>2, SetFacts DEF Set, TypeInv
  <2> QED
    BY <2>2, <2>3, <2>4 DEF FileDone, Here
<1>6. CASE Cleanup \/ Discard \/ RestoreFault
  <2>1. work'.at = "idle"
    BY <1>6, IdleFacts DEF Cleanup, Discard, RestoreFault
  <2> QED
    BY <2>1
<1>7. CASE SetAside
  <2>1. work'.at = "back" /\ work'.before = work.before /\ work'.backup = work.backup
    BY <1>7 DEF SetAside, TypeInv, TypeOK, Work
  <2> QED
    BY <1>7, <2>1 DEF SetAside
<1>8. CASE PutBack
  <2>1. work'.at = "discard" /\ work'.of = work.of /\ work'.before = work.before
    BY <1>8 DEF PutBack, TypeInv, TypeOK, Work
  <2>2. work.of \in Profile /\ work.backup \in Content
    BY <1>8 DEF PutBack, TypeInv, WorkInv
  <2>3. home'[work.of] = work.backup
    BY <1>8, <2>2, SetFacts DEF PutBack, Set, TypeInv
  <2> QED
    BY <1>8, <2>1, <2>3 DEF PutBack, Same, Here
<1> QED
  BY <1>1, <1>2, <1>3, <1>4, <1>5, <1>6, <1>7, <1>8 DEF ProvisioningStep

LEMMA DoneStep == TypeInv /\ DoneInv /\ [Next]_vars => DoneInv'
<1> SUFFICES ASSUME TypeInv, DoneInv, [Next]_vars PROVE DoneInv'
  OBVIOUS
<1>1. CASE work'.at = "idle"
  BY <1>1 DEF DoneInv, Backed
<1>2. CASE UNCHANGED <<home, work>>
  BY <1>2 DEF DoneInv, Same, FileDone, Here
<1>3. CASE work = Idle /\ work' = work
  BY <1>1, <1>3, IdleFacts
<1>4. ASSUME NEW r \in Run, NEW p \in Profile, AgentWorks(r, p) PROVE DoneInv'
  <2> DEFINE c == [home[p] EXCEPT !.memory = home[p].memory \cup {r}]
  <2>1. home[p] \in Content /\ work' = work /\ home' = [home EXCEPT ![p] = c]
    BY <1>4 DEF AgentWorks, TypeInv, TypeOK
  <2>2. c \in Content /\ Same(c, home[p])
    BY <2>1 DEF Content, Same
  <2>3. home'[p] = c /\ \A q \in Profile \ {p} : home'[q] = home[q]
    BY <2>1, <2>2, SetFacts DEF TypeInv
  <2> HIDE DEF c
  <2>4. CASE At("idle")
    BY <1>1, <2>1, <2>4
  <2>5. CASE ~At("idle")
    <3>1. work.of \in Profile
      BY <2>5 DEF TypeInv, WorkInv
    <3>2. Here' = Here \/ (Here' = c /\ Here = home[p])
      BY <2>1, <2>3, <3>1 DEF Here
    <3> QED
      BY <2>1, <2>2, <3>2 DEF DoneInv, Same, FileDone
  <2> QED
    BY <2>4, <2>5
<1>5. ASSUME NEW r \in Role, NEW force \in BOOLEAN, NEW skip \in BOOLEAN, NEW skills \in BOOLEAN,
             NEW replace \in BOOLEAN, ProvisionRole(r, force, skip, skills, replace)
      PROVE  DoneInv'
  <2>1. /\ work'.at = "backup" /\ work'.of = settings[r] /\ work'.before = home[settings[r]]
        /\ home' = home
    BY <1>5 DEF ProvisionRole, Idle
  <2> QED
    BY <2>1 DEF DoneInv, Same, Here, Backed
<1>6. CASE MappingStep
  BY <1>2, <1>6, MappingFrame
<1>7. CASE UNCHANGED vars
  BY <1>2, <1>7 DEF vars
<1> QED
  BY <1>1, <1>2, <1>3, <1>4, <1>5, <1>6, <1>7, NextCases, ProvisioningDone, IdleFacts
     DEF InstallSkill, Customize, AddLocalSkill, Restart, Command

\* What a provisioning answers is so, however it ends.
THEOREM ProvisioningAnswersTruly == Spec => []AnswersAreTrue
<1>1. Init => DoneInv
  BY IdleFacts DEF Init, DoneInv, Backed
<1>2. TypeInv /\ DoneInv => AnswersAreTrue
  BY DEF DoneInv, FileDone, Same, AnswersAreTrue
<1> QED
  BY <1>1, <1>2, DoneStep, TypesHold, PTL DEF Spec

=============================================================================
