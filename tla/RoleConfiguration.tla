------------------------- MODULE RoleConfiguration -------------------------
(***************************************************************************)
(* The configuration of the roles of one project: which Hermes profile a   *)
(* role uses (profile_mappings over the settings), which skills it takes   *)
(* into a run (the assignment matrix), what is installed in the profile    *)
(* directories (role_provisioner, skill_installer), and the runs that      *)
(* freeze all of it.  Request handlers hold the event loop until they      *)
(* answer; agents work in the profiles meanwhile, and the server may be    *)
(* killed between any two operations on the file system.                   *)
(***************************************************************************)
EXTENDS Naturals

CONSTANTS
    Author,       \* AUTHOR_PROFILE_ROLES
    Reviewer,     \* REVIEWER_PROFILE_ROLE
    Profile,      \* profiles under the Hermes root, but its reserved one
    Run,
    Edit,         \* versions of a role file that a user writes
    Matrix,       \* contents of skill-assignments.json
    None,
    MaxCommands,  \* bound: configuration commands and edits by hand
    MaxMishaps    \* bound: killed servers and failed file operations

Role == Author \cup {Reviewer}

ASSUME RoleAssumption == Reviewer \notin Author
ASSUME BoundAssumption == MaxCommands \in Nat /\ MaxMishaps \in Nat

VARIABLES
    \* What the service reads.
    settings,    \* the default profile of each role; read at start
    rows,        \* profile_mappings: profile and revision, or None
    matrix,      \* the skill matrix: the file, and the service's copy
    loaded,      \* the run coordinator's copy, loaded at start
    page,        \* a configuration page that a researcher left open
    run,
    \* The profiles root.
    home,        \* the profile directories, or None
    left,        \* backups and directories set aside that nobody will remove
    \* The server.
    work,        \* the provisioning under way
    \* What is to be kept, and bounds.
    valued,      \* versions a user wrote and did not replace
    worked,      \* <<run, profile>>: an agent of the run has memories there
    raced,       \* those of them made under a provisioning
    commands, mishaps

mapping == <<settings, rows, matrix, loaded, page>>
history == <<valued, worked, raced>>
bounds == <<commands, mishaps>>
vars == <<mapping, run, home, left, work, history, bounds>>

\* One role file stands for SOUL.md, the base configuration and the guidance:
\* the reference of a role, a user's version, or none.
Content == [file : Role \cup Edit \cup {None},
            copies : SUBSET (Role \cup Edit),    \* .mf-custom recovery copies
            skills : [Role -> {"none", "pinned", "local"}],
            memory : SUBSET Run]

\* The resources of the roles, as a researcher reviews them and a run freezes them.
Basis == [profiles : [Role -> Profile], skills : Matrix]

Status == {"absent", "created", "running", "failed", "correcting", "conflicted", "ended"}
RunRecord == [status : Status, reviewed : Basis \cup {None}, frozen : Basis \cup {None}]

Assignment == [profile : Profile, revision : Nat \ {0}]

\* None is a value of its own.
ASSUME NoneAssumption ==
    /\ None \notin Edit \cup Role
    /\ None \notin Content
    /\ None \notin Assignment
    /\ None \notin Basis

Points == {"idle", "backup", "file", "copy", "write", "skill", "remove", "install", "prune",
           "cleanup", "aside", "back", "discard"}

Work == [at : Points, role : Role \cup {None}, of : Profile \cup {None},
         force : BOOLEAN, skip : BOOLEAN, skills : BOOLEAN, replace : BOOLEAN,
         before : Content \cup {None}, backup : Content \cup {None},
         trash : Content \cup {None}]
Idle == [at |-> "idle", role |-> None, of |-> None, before |-> None,
         force |-> FALSE, skip |-> FALSE, skills |-> FALSE, replace |-> FALSE,
         backup |-> None, trash |-> None]

\* _effective_profile_state: a row overrides the setting.
Effective == [r \in Role |-> IF rows[r] = None THEN settings[r] ELSE rows[r].profile]
Revisions == [r \in Role |-> IF rows[r] = None THEN 0 ELSE rows[r].revision]

\* What the action descriptors of a configuration page are bound to.
Token == [profiles |-> Effective, revisions |-> Revisions]

\* ProfileMapping.
Isolated(profiles) == \A a \in Author : profiles[a] # profiles[Reviewer]

\* assignment_conflict
Conflict(r, p, profiles) ==
    IF r = Reviewer THEN \E a \in Author : p = profiles[a] ELSE p = profiles[Reviewer]

\* ACTIVE_RUN_STATES, without the correction statuses.
AnyActiveRun == \E r \in Run : run[r].status \in {"created", "running"}

TypeOK ==
    /\ settings \in [Role -> Profile]
    /\ rows \in [Role -> Assignment \cup {None}]
    /\ matrix \in Matrix /\ loaded \in Matrix
    /\ page \in [profiles : [Role -> Profile], revisions : [Role -> Nat]]
    /\ run \in [Run -> RunRecord]
    /\ home \in [Profile -> Content \cup {None}]
    /\ left \in [Profile -> SUBSET Content]
    /\ work \in Work
    /\ valued \in [Profile -> SUBSET Edit]
    /\ worked \subseteq Run \X Profile /\ raced \subseteq worked
    /\ commands \in 0 .. MaxCommands /\ mishaps \in 0 .. MaxMishaps

Init ==
    /\ settings \in [Role -> Profile]
    /\ rows = [r \in Role |-> None]
    /\ matrix \in Matrix /\ loaded = matrix
    /\ page = Token
    /\ run = [r \in Run |-> [status |-> "absent", reviewed |-> None, frozen |-> None]]
    /\ home = [p \in Profile |-> [file |-> None, copies |-> {}, memory |-> {},
                                  skills |-> [r \in Role |-> "none"]]]
    /\ left = [p \in Profile |-> {}]
    /\ work = Idle
    /\ valued = [p \in Profile |-> {}]
    /\ worked = {} /\ raced = {}
    /\ commands = 0 /\ mishaps = 0

Command ==
    /\ work = Idle
    /\ commands < MaxCommands /\ commands' = commands + 1 /\ UNCHANGED mishaps
Mishap == mishaps < MaxMishaps /\ mishaps' = mishaps + 1 /\ UNCHANGED commands

-----------------------------------------------------------------------------
\* Assignments.

OpenPage ==
    /\ work = Idle /\ page' = Token
    /\ UNCHANGED <<settings, rows, matrix, loaded, run, home, left, work, history, bounds>>

\* Is the profile offered for the role, and would the command be accepted?
Offered(r, p) == home[p] # None /\ p # Effective[r] /\ ~Conflict(r, p, Effective)
Acceptable(r, p) == Offered(r, p) /\ Isolated([Effective EXCEPT ![r] = p])

\* Defect: the revision is not counted up.
AssignUncounted(r, p) ==
    rows' = [rows EXCEPT ![r] = [profile |-> p, revision |-> Revisions[r]]]

\* compare_and_set_profile_mapping, in the turn in which the mapping was read.
Assign(r, p) ==
    rows' = [rows EXCEPT ![r] = [profile |-> p, revision |-> Revisions[r] + 1]]

\* The request names a descriptor of the page it was made on.
SaveProfile(r, p, from) ==
    /\ Command /\ from = Token /\ Acceptable(r, p)
    /\ Assign(r, p)
    /\ UNCHANGED <<settings, matrix, loaded, page, run, home, left, work, history>>

\* update_role_skill_assignments: the file, the service's copy and the
\* assembler of the supervised lane.
EditMatrix(m) ==
    /\ Command /\ m # matrix
    /\ matrix' = m
    /\ UNCHANGED <<settings, rows, loaded, page, run, home, left, work, history>>

-----------------------------------------------------------------------------
\* Runs.

\* compute_role_resources over a copy of the matrix.
Resources(skills) == [profiles |-> Effective, skills |-> skills]

\* A start carries the descriptor of what is displayed now, and a mapping that
\* cannot be resolved leaves the reviewed basis incomplete.
StartRun(r) ==
    /\ work = Idle /\ run[r].status = "absent" /\ Isolated(Effective)
    /\ run' = [run EXCEPT ![r].status = "created", ![r].reviewed = Resources(matrix)]
    /\ UNCHANGED <<mapping, home, left, work, history, bounds>>

\* Defect: what was reviewed is not compared with what is frozen.
PrepareUnreviewed(r) ==
    /\ work = Idle /\ run[r].status = "created"
    /\ run' = IF ~Isolated(Effective) THEN [run EXCEPT ![r].status = "failed"]
              ELSE [run EXCEPT ![r].status = "running", ![r].frozen = Resources(loaded)]
    /\ UNCHANGED <<mapping, home, left, work, history, bounds>>

\* _freeze_role_resources, then _verify_sealed_basis.
Prepare(r) ==
    /\ work = Idle /\ run[r].status = "created"
    /\ run' = IF ~Isolated(Effective) THEN [run EXCEPT ![r].status = "failed"]
              ELSE IF Resources(loaded) # run[r].reviewed
              THEN [run EXCEPT ![r].status = "conflicted"]
              ELSE [run EXCEPT ![r].status = "running", ![r].frozen = Resources(loaded)]
    /\ UNCHANGED <<mapping, home, left, work, history, bounds>>

\* The agent of a role keeps memories in the profile that the run has frozen.
AgentWorks(r, p) ==
    /\ run[r].status \in {"running", "correcting"}
    /\ \E role \in Role : run[r].frozen.profiles[role] = p
    /\ home[p] # None
    /\ home' = [home EXCEPT ![p].memory = @ \cup {r}]
    /\ worked' = worked \cup {<<r, p>>}
    /\ raced' = IF work.of = p /\ <<r, p>> \notin worked THEN raced \cup {<<r, p>>} ELSE raced
    /\ UNCHANGED <<mapping, run, left, work, valued, bounds>>

\* A failed run may be corrected, by agents in the same profiles.
EndRun(r, status) ==
    /\ work = Idle
    /\ \/ run[r].status = "running" /\ status \in {"failed", "ended"}
       \/ run[r].status = "failed" /\ run[r].frozen # None /\ status = "correcting"
       \/ run[r].status = "correcting" /\ status = "ended"
    /\ run' = [run EXCEPT ![r].status = status]
    /\ UNCHANGED <<mapping, home, left, work, history, bounds>>

-----------------------------------------------------------------------------
\* Skills and role files.

\* install_skill, install_bundled_skill: the staged bundle is renamed into its
\* place when everything else has succeeded.
InstallSkill(r) ==
    LET p == Effective[r] IN
    /\ Command /\ ~AnyActiveRun /\ ~Conflict(r, p, Effective)
    /\ home[p] # None /\ home[p].skills[r] = "none"
    /\ home' = [home EXCEPT ![p].skills[r] = "pinned"]
    /\ UNCHANGED <<mapping, run, left, work, history>>

\* provision_role takes the profile of the settings, whatever the project's
\* mapping says, and does not ask for active runs.
ProvisionRole(r, force, skip, skills, replace) ==
    LET p == settings[r] IN
    /\ Command /\ home[p] # None
    /\ work' = [Idle EXCEPT !.at = "backup", !.role = r, !.of = p, !.before = home[p],
                            !.force = force, !.skip = skip, !.skills = skills,
                            !.replace = replace]
    /\ UNCHANGED <<mapping, run, home, left, history>>

At(point) == work.at = point
Here == home[work.of]
Goto(point) == work' = [work EXCEPT !.at = point]
Set(content) == home' = [home EXCEPT ![work.of] = content]

TakeBackup ==
    /\ At("backup")
    /\ work' = [work EXCEPT !.at = "file", !.backup = Here]
    /\ UNCHANGED <<mapping, run, home, left, history, bounds>>

\* _provision_asset: keep, conflict, or overwrite with a recovery copy.
CompareFile ==
    /\ At("file")
    /\ Goto(IF Here.file = work.role \/ (work.skip /\ Here.file # None) THEN "skill"
            ELSE IF Here.file = None THEN "write"
            ELSE IF work.force THEN "copy" ELSE "aside")
    /\ UNCHANGED <<mapping, run, home, left, history, bounds>>

\* Defect: a file is overwritten without a recovery copy.
KeepCopyNot ==
    /\ At("copy")
    /\ Set([Here EXCEPT !.file = None])
    /\ Goto("write")
    /\ UNCHANGED <<mapping, run, left, history, bounds>>

KeepCopy ==
    /\ At("copy")
    /\ Set([Here EXCEPT !.file = None, !.copies = @ \cup {Here.file}])
    /\ Goto("write")
    /\ UNCHANGED <<mapping, run, left, history, bounds>>

WriteFile ==
    /\ At("write")
    /\ Set([Here EXCEPT !.file = work.role])
    /\ Goto("skill")
    /\ UNCHANGED <<mapping, run, left, history, bounds>>

\* Defect: a different local copy is taken for the pinned one.
CompareSkillByName ==
    /\ At("skill")
    /\ Goto(IF ~work.skills THEN "cleanup"
            ELSE IF Here.skills[work.role] = "none" THEN "install" ELSE "prune")
    /\ UNCHANGED <<mapping, run, home, left, history, bounds>>

\* install_bundled_skill refuses a different local copy.
CompareSkill ==
    /\ At("skill")
    /\ Goto(IF ~work.skills THEN "cleanup"
            ELSE IF Here.skills[work.role] = "none" THEN "install"
            ELSE IF Here.skills[work.role] = "pinned" THEN "prune"
            ELSE IF work.replace THEN "remove" ELSE "aside")
    /\ UNCHANGED <<mapping, run, home, left, history, bounds>>

RemoveSkill ==
    /\ At("remove")
    /\ Set([Here EXCEPT !.skills[work.role] = "none"])
    /\ Goto("install")
    /\ UNCHANGED <<mapping, run, left, history, bounds>>

Install ==
    /\ At("install")
    /\ Set([Here EXCEPT !.skills[work.role] = "pinned"])
    /\ Goto("prune")
    /\ UNCHANGED <<mapping, run, left, history, bounds>>

\* Only the skills of this role stay, also in a profile that roles share.
Prune ==
    /\ At("prune")
    /\ Set([Here EXCEPT !.skills = [r \in Role |-> IF r = work.role THEN @[r] ELSE "none"]])
    /\ Goto("cleanup")
    /\ UNCHANGED <<mapping, run, left, history, bounds>>

Cleanup ==
    /\ At("cleanup")
    /\ work' = Idle
    /\ UNCHANGED <<mapping, run, home, left, history, bounds>>

\* An exception in any of the above restores the backup.
ProvisionFault ==
    /\ work.at \in {"file", "copy", "write", "skill", "remove", "install", "prune"}
    /\ Mishap
    /\ Goto("aside")
    /\ UNCHANGED <<mapping, run, home, left, history>>

Abandon(directories) ==
    left' = [left EXCEPT ![work.of] = @ \cup (directories \ {None})]

\* _restore_backup
SetAside ==
    /\ At("aside")
    /\ work' = [work EXCEPT !.at = "back", !.trash = Here]
    /\ Set(None)
    /\ UNCHANGED <<mapping, run, left, history, bounds>>

PutBack ==
    /\ At("back")
    /\ Set(work.backup)
    /\ work' = [work EXCEPT !.at = "discard", !.backup = None]
    /\ UNCHANGED <<mapping, run, left, history, bounds>>

Discard ==
    /\ At("discard")
    /\ work' = Idle
    /\ UNCHANGED <<mapping, run, home, left, history, bounds>>

\* A step of the rollback fails: what was set aside is put back if it can be,
\* and the rest stays where it is.
RestoreFault ==
    /\ Mishap
    /\ \/ At("aside") /\ home' = home /\ Abandon({work.backup})
       \/ At("back") /\ Set(work.trash) /\ Abandon({work.backup})
       \/ At("back") /\ home' = home /\ Abandon({work.backup, work.trash})
       \/ At("discard") /\ home' = home /\ Abandon({work.trash})
    /\ work' = Idle
    /\ UNCHANGED <<mapping, run, history>>

-----------------------------------------------------------------------------
\* The researcher at the profiles, and the server.

\* A user writes a role file by hand, not in the second in which the profile is
\* provisioned.
Customize(p, e) ==
    /\ Command /\ home[p] # None
    /\ \A q \in Profile : e \notin valued[q]
    /\ \A q \in Profile : home[q] # None => home[q].file # e /\ e \notin home[q].copies
    /\ home' = [home EXCEPT ![p].file = e]
    /\ valued' = [valued EXCEPT ![p] = (@ \ {home[p].file}) \cup {e}]
    /\ UNCHANGED <<mapping, run, left, work, worked, raced>>

\* A skill of that name from elsewhere: the default bundle of a new profile.
AddLocalSkill(p, r) ==
    /\ Command /\ home[p] # None /\ home[p].skills[r] = "none"
    /\ home' = [home EXCEPT ![p].skills[r] = "local"]
    /\ UNCHANGED <<mapping, run, left, work, history>>

\* The server is killed and started again, perhaps with other settings; nothing
\* looks for the traces of a provisioning.
Restart(new) ==
    /\ Mishap
    /\ new = settings \/ work = Idle
    /\ settings' = new
    /\ loaded' = matrix
    /\ IF work = Idle THEN left' = left ELSE Abandon({work.backup, work.trash})
    /\ work' = Idle
    /\ UNCHANGED <<rows, matrix, page, run, home, history>>

\* provision_role_definition, in the order of the points it goes through.
ProvisioningStep ==
    \/ TakeBackup \/ CompareFile \/ KeepCopy \/ WriteFile
    \/ CompareSkill \/ RemoveSkill \/ Install \/ Prune \/ Cleanup
    \/ ProvisionFault \/ SetAside \/ PutBack \/ Discard \/ RestoreFault

Next ==
    \/ OpenPage
    \/ \E r \in Role, p \in Profile, from \in {page, Token} : SaveProfile(r, p, from)
    \/ \E m \in Matrix : EditMatrix(m)
    \/ \E r \in Run : StartRun(r) \/ Prepare(r)
    \/ \E r \in Run, p \in Profile : AgentWorks(r, p)
    \/ \E r \in Run, status \in {"failed", "correcting", "ended"} : EndRun(r, status)
    \/ \E r \in Role : InstallSkill(r)
    \/ \E r \in Role : \E force, skip, skills, replace \in BOOLEAN :
            ProvisionRole(r, force, skip, skills, replace)
    \/ ProvisioningStep
    \/ \E p \in Profile, e \in Edit : Customize(p, e)
    \/ \E p \in Profile, r \in Role : AddLocalSkill(p, r)
    \/ \E r \in Role, p \in Profile : Restart([settings EXCEPT ![r] = p])

Spec == Init /\ [][Next]_vars

-----------------------------------------------------------------------------
(***************************************************************************)
(* Properties.                                                             *)
(***************************************************************************)

\* A run works with what its researcher reviewed: with the profiles, of which
\* the reviewer shares none, and the skills, whatever is assigned, edited or
\* restarted between the review and the preparation.
PreparedAsReviewed ==
    \A r \in Run : run[r].frozen # None =>
        /\ run[r].frozen = run[r].reviewed
        /\ Isolated(run[r].frozen.profiles)

\* An assignment changes the mapping that its page displayed, in that role and
\* nothing else, and leaves the reviewer a profile of its own: nobody's other
\* change is built upon unseen, however long the page was open.
SavesAsShown ==
    [][\A r \in Role, p \in Profile : SaveProfile(r, p, page) =>
        /\ Effective' = [page.profiles EXCEPT ![r] = p]
        /\ Isolated(Effective')]_vars

\* Every copy of a profile that is somewhere on disk.
CopiesOf(p) == ({home[p]} \cup left[p] \cup
                IF work.of = p THEN {work.backup, work.trash} ELSE {}) \ {None}

\* Whatever is provisioned, rolled back or killed half-way, a version that a
\* user wrote and a memory that an agent made before the provisioning can still
\* be found: in the profile, in a recovery copy, or in a directory left behind.
NothingIsLost ==
    \A p \in Profile :
        /\ \A e \in valued[p] : \E c \in CopiesOf(p) : c.file = e \/ e \in c.copies
        /\ \A r \in Run : <<r, p>> \in worked \ raced =>
               \E c \in CopiesOf(p) : r \in c.memory

\* What a provisioning answers is so: done means the file of the role, or one
\* that the user asked to keep, and of the skills exactly those of the role; "all
\* partial changes were rolled back" means the files and skills of before.
AnswersAreTrue ==
    /\ At("cleanup") =>
        /\ Here.file = work.role \/ (work.skip /\ Here.file = work.before.file)
        /\ work.skills =>
               Here.skills = [r \in Role |-> IF r = work.role THEN "pinned" ELSE "none"]
    /\ At("discard") =>
        /\ Here.file = work.before.file /\ Here.copies = work.before.copies
        /\ Here.skills = work.before.skills

\* The code does not hold the following; section 7 of the README names them.

\* A start is refused as overtaken only if what was reviewed has changed since.
StaleMeansChanged ==
    [][\A r \in Run : run[r].status = "created" /\ run'[r].status = "conflicted" =>
            run[r].reviewed # Resources(matrix)]_vars

\* Shared profile resources are frozen while a research run is active.
FrozenWhileInUse == work # Idle => ~AnyActiveRun

\* No skill of a role is installed while its profile collides across the
\* reviewer's boundary.
CollisionInstallsNothing ==
    At("install") => ~Conflict(work.role, Effective[work.role], Effective)

\* What a configuration page offers can be saved.
OptionsAreSavable == \A r \in Role, p \in Profile : Offered(r, p) => Acceptable(r, p)
=============================================================================
