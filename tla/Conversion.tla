----------------------------- MODULE Conversion -----------------------------
(***************************************************************************)
(* The offline conversion of an archive from schema v2 to v3               *)
(* (src/archivex/migrate.py), beside the services that write the same      *)
(* database and the same directory whenever no command is at work.  What a *)
(* service commits are the transactions of TaskCenter, which decide        *)
(* whether the queue is idle, and others that leave its rows alone.  The   *)
(* conversion of the rows (_migrate_tasks) copies the columns of           *)
(* TaskCenter as they are and changes only targets and contexts, which are *)
(* not modelled.                                                           *)
(*                                                                         *)
(* One output directory is followed: the snapshot of the database and of   *)
(* the files (the manifest), the candidate built from it, and report.json. *)
(* Contents are told apart only by comparison with it, as by the SHA-256   *)
(* sums of the code.  migrate --apply is BackupDatabase, BackupFiles,      *)
(* Build and Resume in one process.                                        *)
(*                                                                         *)
(* Old and New are disjoint: v2 keeps its files below accounts/, v3 below  *)
(* posts/, reposts/ and preserved/.  As the documentation demands, the     *)
(* services are stopped while a command changes the archive; a rehearsal   *)
(* may run beside them.                                                    *)
(***************************************************************************)
EXTENDS TaskCenter

CONSTANTS
  Old,        \* the files of the v2 archive
  New,        \* the files of the candidate
  MaxFaults   \* killed commands and failed copies

ASSUME ConversionAssumption ==
  Old \cap New = {} /\ MaxFaults \in Nat

VARIABLES
  db,         \* the live database, compared with the snapshot and the candidate
  files,      \* the live file of each name, compared with the manifest
  extra,      \* the archive holds a file that is in no list
  staged,     \* candidate files of which a temporary copy lies in the archive
  candidate,  \* what _validate_candidate finds out about the candidate
  report,     \* status in report.json
  services,   \* the services are running
  command,    \* what the running command does next
  todo,       \* the files its loop still has to visit
  faults

archiveVars == <<db, files, extra, staged>>
commandVars == <<candidate, report, command, todo>>
vars == <<task, attempt, archiveVars, commandVars, services, faults>>

\* written2 and written3: a service committed since the database was equal to
\* the snapshot (v2) or to the candidate (v3).
Schema2 == {"source", "written2"}
Schema3 == {"candidate", "written3"}
Contents == {"absent", "torn", "whole", "changed"}
Commands == {"none", "copy", "build", "install", "switch", "validate",
             "clean", "restore", "remove"}
Resumable == {"ready", "installing_files", "installing_database", "applied",
              "applied_and_cleaned", "rolled_back"}
Reports == {"none", "building", "unresolved"} \cup Resumable

Rehearsal == {"copy", "build"}
Served == IF db \in Schema2 THEN Old ELSE New
Intact(f) == files[f] \in {"whole", "changed"}

\* Mutant: a task that waits for its retry counts as done.
IdleWhileRetrying == \A t \in TaskIds : task[t].status \notin {"queued", "in_progress"}

IdleQueue ==
  \A t \in TaskIds :
    task[t].status \notin {"queued", "in_progress", "retry_scheduled"}

Init ==
  /\ TCInit
  /\ db = "written2"
  /\ files = [f \in Old \cup New |-> IF f \in Old THEN "changed" ELSE "absent"]
  /\ extra = FALSE
  /\ staged = {}
  /\ candidate = [valid |-> FALSE, drained |-> FALSE]
  /\ report = "none"
  /\ services = TRUE
  /\ command = "none"
  /\ todo = {}
  /\ faults = 0

-----------------------------------------------------------------------------
(* The services.  initialize_storage lets this version start on schema v3   *)
(* only; on v2 it is the version before it that runs.                       *)
StartServices ==
  /\ ~services
  /\ command \in {"none"} \cup Rehearsal
  /\ services' = TRUE
  /\ UNCHANGED <<tcVars, archiveVars, commandVars, faults>>

StopServices ==
  /\ services
  /\ services' = FALSE
  /\ UNCHANGED <<tcVars, archiveVars, commandVars, faults>>

ServiceCommits ==
  /\ services
  /\ TCNext \/ UNCHANGED tcVars
  /\ db' = IF db \in Schema2 THEN "written2" ELSE "written3"
  /\ UNCHANGED <<files, extra, staged, commandVars, services, faults>>

\* A raw file is replaced before the transaction that refers to it commits.
ServiceRewrites(f) ==
  /\ services
  /\ f \in Served /\ Intact(f)
  /\ files' = [files EXCEPT ![f] = "changed"]
  /\ UNCHANGED <<tcVars, db, extra, staged, commandVars, services, faults>>

ServiceAdds ==
  /\ services
  /\ extra' = TRUE
  /\ UNCHANGED <<tcVars, db, files, staged, commandVars, services, faults>>

-----------------------------------------------------------------------------
(* migrate_archive: snapshots, and the candidate that is built from them.   *)

\* A new output directory takes the place of one that left nothing behind.
BackupDatabase ==
  /\ command = "none"
  /\ db \in Schema2
  /\ staged = {} /\ \A f \in New : files[f] = "absent"
  /\ db' = "source"
  /\ candidate' = [valid |-> FALSE, drained |-> IdleQueue]
  /\ report' = "none"
  /\ command' = "copy"
  /\ UNCHANGED <<tcVars, files, extra, staged, services, todo, faults>>

BackupFiles ==
  /\ command = "copy"
  /\ files' = [f \in Old \cup New |-> IF files[f] = "changed" THEN "whole" ELSE files[f]]
  /\ extra' = FALSE
  /\ command' = "build"
  /\ UNCHANGED <<tcVars, db, staged, candidate, report, services, todo, faults>>

\* What cannot be read or does not match its checksum is an issue.
Build ==
  /\ command = "build"
  /\ \E valid \in {FALSE} \cup {\A f \in Old : Intact(f)} :
       /\ candidate' = [candidate EXCEPT !.valid = valid]
       /\ report' = IF valid THEN "ready" ELSE "unresolved"
  /\ command' = "none"
  /\ UNCHANGED <<tcVars, archiveVars, services, todo, faults>>

\* The archive changed under the copy, or the build raised.
RehearsalFails ==
  /\ command \in Rehearsal
  /\ report' = IF command = "build" THEN "building" ELSE report
  /\ command' = "none"
  /\ UNCHANGED <<tcVars, archiveVars, candidate, services, todo, faults>>

-----------------------------------------------------------------------------
(* resume_migration, _apply_candidate and _install_file.                    *)

Usable == candidate.valid /\ candidate.drained /\ report \in Resumable

ResumeChecks ==
  /\ Usable
  /\ \/ db \in Schema3
     \/ /\ db = "source"
        /\ \A f \in Old : files[f] = "whole"
        /\ \A f \in New : files[f] \in {"absent", "whole"}
        /\ ~extra
        /\ IdleQueue

Resume ==
  /\ command = "none" /\ ~services
  /\ ResumeChecks
  /\ db = "source"
  /\ staged' = {}
  /\ report' = "installing_files"
  /\ command' = "install"
  /\ todo' = New
  /\ UNCHANGED <<tcVars, db, files, extra, candidate, services, faults>>

\* Mutant: the copy is made at its final place.
StageInPlace(f) ==
  /\ command = "install"
  /\ f \in todo \ staged /\ files[f] = "absent"
  /\ staged' = staged \cup {f}
  /\ files' = [files EXCEPT ![f] = "torn"]
  /\ UNCHANGED <<tcVars, db, extra, commandVars, services, faults>>

StageFile(f) ==
  /\ command = "install"
  /\ f \in todo \ staged /\ files[f] = "absent"
  /\ staged' = staged \cup {f}
  /\ UNCHANGED <<tcVars, db, files, extra, commandVars, services, faults>>

PublishFile(f) ==
  /\ command = "install"
  /\ f \in todo \cap staged
  /\ files' = [files EXCEPT ![f] = "whole"]
  /\ staged' = staged \ {f}
  /\ todo' = todo \ {f}
  /\ UNCHANGED <<tcVars, db, extra, candidate, report, command, services, faults>>

\* The file was installed before an interruption.
SkipFile(f) ==
  /\ command = "install"
  /\ f \in todo /\ files[f] = "whole"
  /\ todo' = todo \ {f}
  /\ UNCHANGED <<tcVars, archiveVars, candidate, report, command, services, faults>>

CopyFails(f) ==
  /\ command = "install" /\ faults < MaxFaults
  /\ f \in todo \cap staged
  /\ staged' = staged \ {f}
  /\ command' = "none" /\ todo' = {}
  /\ faults' = faults + 1
  /\ UNCHANGED <<tcVars, db, files, extra, candidate, report, services>>

FilesInstalled ==
  /\ command = "install" /\ todo = {}
  /\ report' = "installing_database"
  /\ command' = "switch"
  /\ UNCHANGED <<tcVars, archiveVars, candidate, services, todo, faults>>

SwitchDatabase ==
  /\ command = "switch"
  /\ db' = "candidate"
  /\ command' = "validate"
  /\ UNCHANGED <<tcVars, files, extra, staged, candidate, report, services, todo, faults>>

\* The archive is valid; --keep-legacy-files puts the cleanup off.
Applied ==
  /\ command = "validate"
  /\ \A f \in New : Intact(f)
  /\ report' = "applied"
  /\ \/ command' = "clean" /\ todo' = Old
     \/ command' = "none" /\ UNCHANGED todo
  /\ UNCHANGED <<tcVars, archiveVars, candidate, services, faults>>

-----------------------------------------------------------------------------
(* cleanup_legacy_files, called by resume_migration on a v3 database or by  *)
(* --cleanup-from.                                                          *)

\* Mutant: the loop visits every file of the archive.
StartCleanupOfAll ==
  /\ command = "none" /\ ~services
  /\ db \in Schema3 /\ report # "none"
  /\ \A f \in New : Intact(f)
  /\ command' = "clean" /\ todo' = Old \cup New
  /\ UNCHANGED <<tcVars, archiveVars, candidate, report, services, faults>>

StartCleanup ==
  /\ command = "none" /\ ~services
  /\ db \in Schema3 /\ report # "none"
  /\ \A f \in New : Intact(f)
  /\ command' = "clean" /\ todo' = Old
  /\ UNCHANGED <<tcVars, archiveVars, candidate, report, services, faults>>

RemoveLegacy(f) ==
  /\ command = "clean"
  /\ f \in todo /\ files[f] \in {"absent", "whole"}
  /\ files' = [files EXCEPT ![f] = "absent"]
  /\ todo' = todo \ {f}
  /\ UNCHANGED <<tcVars, db, extra, staged, candidate, report, command, services, faults>>

RemovalRefused(f) ==
  /\ command = "clean"
  /\ f \in todo /\ files[f] \in {"torn", "changed"}
  /\ command' = "none" /\ todo' = {}
  /\ UNCHANGED <<tcVars, archiveVars, candidate, report, services, faults>>

\* --cleanup-from leaves the report as it is.
CleanupEnds ==
  /\ command = "clean" /\ todo = {}
  /\ report' \in {report, "applied_and_cleaned"}
  /\ command' = "none"
  /\ UNCHANGED <<tcVars, archiveVars, candidate, services, todo, faults>>

\* resume_migration on a v3 database with --keep-legacy-files.
ResumeConverted ==
  /\ command = "none" /\ ~services
  /\ ResumeChecks /\ db \in Schema3
  /\ report' = "applied"
  /\ UNCHANGED <<tcVars, archiveVars, candidate, services, command, todo, faults>>

-----------------------------------------------------------------------------
(* rollback_migration.                                                      *)

\* Mutant: the database is not compared.
RollbackChecksFilesOnly ==
  /\ report # "none"
  /\ \A f \in Old \cup New : files[f] \in {"absent", "whole"}
  /\ ~extra

RollbackChecks ==
  /\ report # "none"
  /\ db \in {"source", "candidate"}
  /\ \A f \in Old \cup New : files[f] \in {"absent", "whole"}
  /\ ~extra

\* Mutant: only the database is put back.
RollbackDatabaseOnly ==
  /\ command = "none" /\ ~services
  /\ RollbackChecks
  /\ staged' = {}
  /\ command' = "restore" /\ todo' = {}
  /\ UNCHANGED <<tcVars, db, files, extra, candidate, report, services, faults>>

Rollback ==
  /\ command = "none" /\ ~services
  /\ RollbackChecks
  /\ staged' = {}
  /\ command' = "restore" /\ todo' = Old
  /\ UNCHANGED <<tcVars, db, files, extra, candidate, report, services, faults>>

RestoreFile(f) ==
  /\ command = "restore"
  /\ f \in todo
  /\ files' = [files EXCEPT ![f] = "whole"]
  /\ todo' = todo \ {f}
  /\ UNCHANGED <<tcVars, db, extra, staged, candidate, report, command, services, faults>>

\* The originals are copied straight to their names, whether they are there
\* or not: a kill, or a full disk, leaves half a file.
KilledRestoring(f) ==
  /\ faults < MaxFaults
  /\ command = "restore"
  /\ f \in todo
  /\ files' = [files EXCEPT ![f] = "torn"]
  /\ command' = "none" /\ todo' = {}
  /\ faults' = faults + 1
  /\ UNCHANGED <<tcVars, db, extra, staged, candidate, report, services>>

RestoreDatabase ==
  /\ command = "restore" /\ todo = {}
  /\ db' = "source"
  /\ command' = "remove" /\ todo' = New
  /\ UNCHANGED <<tcVars, files, extra, staged, candidate, report, services, faults>>

RemoveNew(f) ==
  /\ command = "remove"
  /\ f \in todo
  /\ files' = [files EXCEPT ![f] = "absent"]
  /\ todo' = todo \ {f}
  /\ UNCHANGED <<tcVars, db, extra, staged, candidate, report, command, services, faults>>

RollbackEnds ==
  /\ command = "remove" /\ todo = {}
  /\ report' = "rolled_back"
  /\ command' = "none"
  /\ UNCHANGED <<tcVars, archiveVars, candidate, services, todo, faults>>

-----------------------------------------------------------------------------
\* A command is killed between two of its steps; no finally block runs.
Killed ==
  /\ command # "none" /\ faults < MaxFaults
  /\ command' = "none" /\ todo' = {}
  /\ faults' = faults + 1
  /\ UNCHANGED <<tcVars, archiveVars, candidate, report, services>>

ServiceStep ==
  \/ StartServices \/ StopServices \/ ServiceCommits \/ ServiceAdds
  \/ \E f \in Old \cup New : ServiceRewrites(f)

CommandStep ==
  \/ BackupDatabase \/ BackupFiles \/ Build \/ RehearsalFails
  \/ Resume \/ FilesInstalled \/ SwitchDatabase \/ Applied
  \/ ResumeConverted \/ StartCleanup \/ CleanupEnds
  \/ Rollback \/ RestoreDatabase \/ RollbackEnds
  \/ \E f \in Old \cup New :
       \/ StageFile(f) \/ PublishFile(f) \/ SkipFile(f) \/ CopyFails(f)
       \/ RemoveLegacy(f) \/ RemovalRefused(f)
       \/ RestoreFile(f) \/ KilledRestoring(f) \/ RemoveNew(f)
  \/ Killed

Next == ServiceStep \/ CommandStep

Spec == Init /\ [][Next]_vars

-----------------------------------------------------------------------------
\* The files the loop of the running command is about.
Visited == IF command \in {"install", "remove"} THEN New
           ELSE IF command \in {"clean", "restore"} THEN Old ELSE {}

\* The variables have their types; a loop visits files of its own side only,
\* and temporary copies exist beside a v2 database only.
ConversionTypeOK ==
  /\ TCTypeOK
  /\ db \in Schema2 \cup Schema3
  /\ files \in [Old \cup New -> Contents]
  /\ extra \in BOOLEAN /\ services \in BOOLEAN
  /\ staged \subseteq New /\ (staged # {} => db \in Schema2)
  /\ candidate \in [valid : BOOLEAN, drained : BOOLEAN]
  /\ report \in Reports
  /\ command \in Commands
  /\ todo \subseteq Visited
  /\ faults \in 0 .. MaxFaults

\* Wherever a command is killed, the database that is in place finds every
\* file of its own schema: files are installed before the database refers to
\* them, restored before it is put back, and removed only after the switch
\* (_apply_candidate, cleanup_legacy_files, rollback_migration).  The one
\* exception is the original a rollback was copying when it was killed.
ServedFilesIntact ==
  \A f \in Served : files[f] # "absent" /\ (f \in New => files[f] # "torn")

\* No service wrote, and no rollback died in the middle of a copy.
Undisturbed ==
  /\ db \in {"source", "candidate"} /\ ~extra
  /\ \A f \in Old : files[f] \in {"absent", "whole"}
  /\ \A f \in New : files[f] # "changed"

\* An interrupted conversion is not a dead end: unless something else was
\* written since, an applicable candidate can be resumed and rolled back from
\* wherever the last command stopped (the checks of resume_migration and of
\* rollback_migration against what the steps of either leave behind).  Both
\* refuse the archive when a rollback was killed in the middle of a copy.
RecoveryIsAccepted ==
  command = "none" /\ candidate.valid /\ candidate.drained /\ Undisturbed
    => ResumeChecks /\ RollbackChecks

\* A task whose deliveries were made for the v2 archive never becomes active
\* in the database of the candidate, also when the rehearsal was made under a
\* full queue that was drained before the resume (_require_idle_queue).
AdoptedTasksHaveEnded ==
  db = "candidate" =>
    \A t \in TaskIds : task[t].status \in Terminal \cup {"none"}

\* No command replaces a database, or a file, that a service wrote after the
\* snapshot or after the conversion; only a new snapshot makes such a state
\* the source (resume_migration, cleanup_legacy_files, rollback_migration).
WritesSurvive ==
  command' \notin Rehearsal =>
    /\ db \in {"written2", "written3"} => db' = db
    /\ extra => extra'
    /\ \A f \in Old \cup New : files[f] = "changed" => files'[f] = "changed"

NewWritesSurvive == [][WritesSurvive]_vars

=============================================================================
