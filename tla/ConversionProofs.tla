-------------------------- MODULE ConversionProofs --------------------------
(***************************************************************************)
(* The conversion keeps its promises for every set of files on either      *)
(* side, every number of tasks, attempts and faults.  The queue's part is  *)
(* the invariant of TaskCenterProofs: a step of Next is a transaction of   *)
(* the tables or leaves them alone.  The conversion's part is Phases: what *)
(* each phase of a command may rely on, so that the next one may be        *)
(* entered, or the command killed.                                         *)
(***************************************************************************)
EXTENDS Conversion, TaskCenterProofs

OwnTypes ==
  /\ db \in Schema2 \cup Schema3
  /\ files \in [Old \cup New -> Contents]
  /\ extra \in BOOLEAN /\ services \in BOOLEAN
  /\ staged \subseteq New /\ (staged # {} => db \in Schema2)
  /\ candidate \in [valid : BOOLEAN, drained : BOOLEAN]
  /\ report \in Reports
  /\ command \in Commands
  /\ todo \subseteq Visited
  /\ faults \in 0 .. MaxFaults

\* What holds while a command is at work.
Phases ==
  /\ command \notin {"none"} \cup Rehearsal => ~services
  /\ command \in Rehearsal => db \in Schema2 /\ ~candidate.valid
  /\ command = "install" =>
       /\ db = "source" /\ candidate.drained
       /\ \A f \in New : files[f] \in {"absent", "whole"}
       /\ \A f \in New \ todo : files[f] = "whole"
       /\ staged \subseteq todo
       /\ \A f \in staged : files[f] = "absent"
  /\ command \in {"switch", "validate"} =>
       /\ staged = {} /\ candidate.drained
       /\ \A f \in New : files[f] = "whole"
  /\ command = "switch" => db = "source"
  /\ command = "validate" => db = "candidate"
  /\ command = "clean" => db \in Schema3
  /\ command = "restore" =>
       /\ db \in {"source", "candidate"} /\ report # "none"
       /\ \A f \in Old \cup New : files[f] \in {"absent", "whole"}
       /\ \A f \in Old \ todo : files[f] = "whole"
  /\ command = "remove" =>
       /\ db = "source" /\ report # "none"
       /\ \A f \in Old : files[f] = "whole"
       /\ \A f \in New : files[f] \in {"absent", "whole"}

\* What holds between commands as well.
Between ==
  /\ ServedFilesIntact
  /\ \A f \in New : files[f] # "torn"
  /\ candidate.valid => report \in Resumable
  /\ db = "candidate" => candidate.drained

CInv == OwnTypes /\ Phases /\ Between

\* Before the first command.
LEMMA InitCInv == Init => CInv
<1> SUFFICES ASSUME Init PROVE CInv
  OBVIOUS
<1> USE ConversionAssumption
    DEF Init, Schema2, Schema3, Contents, Commands, Reports, Resumable, Rehearsal
<1>1. OwnTypes
  <2>1. files \in [Old \cup New -> Contents]
    OBVIOUS
  <2>2. candidate \in [valid : BOOLEAN, drained : BOOLEAN]
    OBVIOUS
  <2>3. faults \in 0 .. MaxFaults
    <3>1. 0 \in 0 .. MaxFaults
      OBVIOUS
    <3>2. QED
      BY <3>1
  <2>4. extra \in BOOLEAN /\ services \in BOOLEAN
    OBVIOUS
  <2>5. /\ db \in Schema2 /\ report \in Reports /\ command \in Commands
        /\ staged = {} /\ todo = {}
    OBVIOUS
  <2> HIDE DEF Init
  <2>6. QED
    BY <2>1, <2>2, <2>3, <2>4, <2>5 DEF OwnTypes
<1>2. Phases
  BY DEF Phases
<1>3. Between
  BY DEF Between, ServedFilesIntact, Served
<1>4. QED
  BY <1>1, <1>2, <1>3 DEF CInv

\* A service writes only while no command forbids it.
LEMMA ServiceStepCInv == CInv /\ ServiceStep => CInv'
<1> SUFFICES ASSUME CInv, ServiceStep PROVE CInv'
  OBVIOUS
<1> USE ConversionAssumption
    DEF CInv, OwnTypes, Phases, Between, ServedFilesIntact, Served, Visited,
        Schema2, Schema3, Contents, Commands, Reports, Resumable, Rehearsal,
        archiveVars, commandVars, Intact
<1>1. CASE StartServices
  BY <1>1 DEF StartServices
<1>2. CASE StopServices
  BY <1>2 DEF StopServices
<1>3. CASE ServiceCommits
  BY <1>3 DEF ServiceCommits
<1>4. CASE ServiceAdds
  BY <1>4 DEF ServiceAdds
<1>5. CASE \E f \in Old \cup New : ServiceRewrites(f)
  BY <1>5 DEF ServiceRewrites
<1>6. QED
  BY <1>1, <1>2, <1>3, <1>4, <1>5 DEF ServiceStep

\* The rehearsal changes nothing that is live.
LEMMA RehearsalCInv ==
  ASSUME CInv, BackupDatabase \/ BackupFiles \/ Build \/ RehearsalFails
  PROVE  CInv'
<1> USE ConversionAssumption
    DEF CInv, OwnTypes, Phases, Between, ServedFilesIntact, Served, Visited,
        Schema2, Schema3, Contents, Commands, Reports, Resumable, Rehearsal,
        archiveVars, commandVars, Intact
<1>1. CASE BackupDatabase
  <2>1. IdleQueue \in BOOLEAN
    BY DEF IdleQueue
  <2>2. QED
    BY <1>1, <2>1 DEF BackupDatabase
<1>2. CASE BackupFiles
  BY <1>2 DEF BackupFiles
<1>3. CASE Build
  BY <1>3 DEF Build
<1>4. CASE RehearsalFails
  BY <1>4 DEF RehearsalFails
<1>5. QED
  BY <1>1, <1>2, <1>3, <1>4

\* The installation, file by file.
LEMMA InstallCInv ==
  ASSUME CInv,
         \/ Resume \/ FilesInstalled \/ SwitchDatabase \/ Applied \/ ResumeConverted
         \/ \E f \in Old \cup New :
              StageFile(f) \/ PublishFile(f) \/ SkipFile(f) \/ CopyFails(f)
  PROVE  CInv'
<1> USE ConversionAssumption
    DEF CInv, OwnTypes, Phases, Between, ServedFilesIntact, Served, Visited,
        Schema2, Schema3, Contents, Commands, Reports, Resumable, Rehearsal,
        archiveVars, commandVars, Intact
<1>1. CASE Resume
  BY <1>1 DEF Resume, ResumeChecks, Usable
<1>2. CASE FilesInstalled
  BY <1>2 DEF FilesInstalled
<1>3. CASE SwitchDatabase
  BY <1>3 DEF SwitchDatabase
<1>4. CASE Applied
  BY <1>4 DEF Applied
<1>5. CASE ResumeConverted
  BY <1>5 DEF ResumeConverted
<1>6. ASSUME NEW f \in Old \cup New, StageFile(f) PROVE CInv'
  BY <1>6 DEF StageFile
<1>7. ASSUME NEW f \in Old \cup New, PublishFile(f) PROVE CInv'
  BY <1>7 DEF PublishFile
<1>8. ASSUME NEW f \in Old \cup New, SkipFile(f) PROVE CInv'
  BY <1>8 DEF SkipFile
<1>9. ASSUME NEW f \in Old \cup New, CopyFails(f) PROVE CInv'
  BY <1>9 DEF CopyFails
<1>10. QED
  BY <1>1, <1>2, <1>3, <1>4, <1>5, <1>6, <1>7, <1>8, <1>9

\* The removal of legacy files.
LEMMA CleanupCInv ==
  ASSUME CInv,
         \/ StartCleanup \/ CleanupEnds \/ Killed
         \/ \E f \in Old \cup New : RemoveLegacy(f) \/ RemovalRefused(f)
  PROVE  CInv'
<1> USE ConversionAssumption
    DEF CInv, OwnTypes, Phases, Between, ServedFilesIntact, Served, Visited,
        Schema2, Schema3, Contents, Commands, Reports, Resumable, Rehearsal,
        archiveVars, commandVars, Intact
<1>1. CASE StartCleanup
  BY <1>1 DEF StartCleanup
<1>2. CASE CleanupEnds
  BY <1>2 DEF CleanupEnds
<1>3. CASE Killed
  BY <1>3 DEF Killed
<1>4. ASSUME NEW f \in Old \cup New, RemoveLegacy(f) PROVE CInv'
  BY <1>4 DEF RemoveLegacy
<1>5. ASSUME NEW f \in Old \cup New, RemovalRefused(f) PROVE CInv'
  BY <1>5 DEF RemovalRefused
<1>6. QED
  BY <1>1, <1>2, <1>3, <1>4, <1>5

\* The rollback, file by file.
LEMMA RollbackCInv ==
  ASSUME CInv,
         \/ Rollback \/ RestoreDatabase \/ RollbackEnds
         \/ \E f \in Old \cup New :
              RestoreFile(f) \/ KilledRestoring(f) \/ RemoveNew(f)
  PROVE  CInv'
<1> USE ConversionAssumption
    DEF CInv, OwnTypes, Phases, Between, ServedFilesIntact, Served, Visited,
        Schema2, Schema3, Contents, Commands, Reports, Resumable, Rehearsal,
        archiveVars, commandVars, Intact
<1>1. CASE Rollback
  BY <1>1 DEF Rollback, RollbackChecks
<1>2. CASE RestoreDatabase
  BY <1>2 DEF RestoreDatabase
<1>3. CASE RollbackEnds
  BY <1>3 DEF RollbackEnds
<1>4. ASSUME NEW f \in Old \cup New, RestoreFile(f) PROVE CInv'
  BY <1>4 DEF RestoreFile
<1>5. ASSUME NEW f \in Old \cup New, KilledRestoring(f) PROVE CInv'
  BY <1>5 DEF KilledRestoring
<1>6. ASSUME NEW f \in Old \cup New, RemoveNew(f) PROVE CInv'
  BY <1>6 DEF RemoveNew
<1>7. QED
  BY <1>1, <1>2, <1>3, <1>4, <1>5, <1>6

\* The invariant of the conversion.
LEMMA CInvariant == Spec => []CInv
<1>1. CInv /\ [Next]_vars => CInv'
  <2> SUFFICES ASSUME CInv, [Next]_vars PROVE CInv'
    OBVIOUS
  <2>1. CASE ServiceStep
    BY <2>1, ServiceStepCInv
  <2>2. CASE CommandStep
    BY <2>2, RehearsalCInv, InstallCInv, CleanupCInv, RollbackCInv DEF CommandStep
  <2>3. CASE UNCHANGED vars
    BY <2>3 DEF CInv, OwnTypes, Phases, Between, ServedFilesIntact, Served, Visited,
                vars, archiveVars, commandVars
  <2>4. QED
    BY <2>1, <2>2, <2>3 DEF Next
<1>2. QED
  BY InitCInv, <1>1, PTL DEF Spec

-----------------------------------------------------------------------------
\* A step of the conversion or of a service is a transaction of the lifecycle
\* tables, or leaves them alone.
LEMMA StepOfTables == [Next]_vars => [TCNext]_tcVars
  BY DEF Next, vars, tcVars, ServiceStep, CommandStep, StartServices, StopServices,
         ServiceCommits, ServiceRewrites, ServiceAdds, BackupDatabase, BackupFiles,
         Build, RehearsalFails, Resume, StageFile, PublishFile, SkipFile, CopyFails,
         FilesInstalled, SwitchDatabase, Applied, ResumeConverted, StartCleanup,
         RemoveLegacy, RemovalRefused, CleanupEnds, Rollback, RestoreFile,
         KilledRestoring, RestoreDatabase, RemoveNew, RollbackEnds, Killed

\* So what TaskCenterProofs shows of the columns modelled there holds between the
\* commands as well.
LEMMA TablesKept == Spec => TCSpec
  BY StepOfTables, PTL DEF Spec, Init, TCSpec

\* The conversion keeps its types, for every set of files.
THEOREM ConversionTyping == Spec => []ConversionTypeOK
<1>1. CInv /\ TCTypeOK => ConversionTypeOK
  BY DEF CInv, OwnTypes, ConversionTypeOK
<1>2. QED
  BY <1>1, CInvariant, TablesKept, TCTyping, PTL

\* Wherever a command is killed, the database in place finds its files.
THEOREM ConversionServesFiles == Spec => []ServedFilesIntact
  BY CInvariant, PTL DEF CInv, Between

\* What services wrote survives every command.
THEOREM ConversionKeepsWrites == Spec => NewWritesSurvive
<1>1. CInv /\ [Next]_vars => [WritesSurvive]_vars
  <2> SUFFICES ASSUME CInv, Next PROVE WritesSurvive
    BY DEF vars
  <2> USE ConversionAssumption
      DEF WritesSurvive, Rehearsal, Schema2, Schema3, archiveVars, commandVars
  <2>1. CASE ServiceStep
    BY <2>1 DEF CInv, OwnTypes, ServiceStep, StartServices, StopServices,
                ServiceCommits, ServiceRewrites, ServiceAdds
  <2>2. CASE BackupDatabase \/ BackupFiles \/ Build \/ RehearsalFails
    BY <2>2 DEF BackupDatabase, BackupFiles, Build, RehearsalFails
  <2>3. CASE Resume \/ FilesInstalled \/ Applied \/ ResumeConverted
    BY <2>3 DEF Resume, FilesInstalled, Applied, ResumeConverted
  <2>4. CASE SwitchDatabase
    BY <2>4 DEF SwitchDatabase, CInv, Phases
  <2>5. ASSUME NEW f \in Old \cup New,
               StageFile(f) \/ PublishFile(f) \/ SkipFile(f) \/ CopyFails(f)
        PROVE  WritesSurvive
    BY <2>5 DEF StageFile, PublishFile, SkipFile, CopyFails, CInv, OwnTypes, Phases
  <2>6. CASE StartCleanup \/ CleanupEnds \/ Killed
    BY <2>6 DEF StartCleanup, CleanupEnds, Killed
  <2>7. ASSUME NEW f \in Old \cup New, RemoveLegacy(f) \/ RemovalRefused(f)
        PROVE  WritesSurvive
    BY <2>7 DEF RemoveLegacy, RemovalRefused, CInv, OwnTypes
  <2>8. CASE Rollback \/ RestoreDatabase \/ RollbackEnds
    BY <2>8 DEF Rollback, RestoreDatabase, RollbackEnds, CInv, Phases
  <2>9. ASSUME NEW f \in Old \cup New,
               RestoreFile(f) \/ KilledRestoring(f) \/ RemoveNew(f)
        PROVE  WritesSurvive
    BY <2>9 DEF RestoreFile, KilledRestoring, RemoveNew, CInv, OwnTypes, Phases, Visited
  <2>10. QED
    BY <2>1, <2>2, <2>3, <2>4, <2>5, <2>6, <2>7, <2>8, <2>9 DEF Next, CommandStep
<1>2. QED
  BY <1>1, CInvariant, PTL DEF Spec, NewWritesSurvive

-----------------------------------------------------------------------------
\* While the database is the one of the snapshot, or the candidate made from
\* it, its queue is as idle as it was when the snapshot was taken.
QueueKept ==
  candidate.drained /\ db \in {"source", "candidate"} => IdleQueue

\* An unchanged database keeps the queue of its snapshot.
LEMMA QueueKeptInvariant == Spec => []QueueKept
<1>1. Init => QueueKept
  BY DEF Init, QueueKept
<1>2. CInv /\ QueueKept /\ [Next]_vars => QueueKept'
  <2> SUFFICES ASSUME CInv, QueueKept, [Next]_vars PROVE QueueKept'
    OBVIOUS
  <2>1. CASE BackupDatabase
    <3>1. IdleQueue' <=> IdleQueue
      BY <2>1 DEF BackupDatabase, tcVars, IdleQueue
    <3>2. QED
      BY <2>1, <3>1 DEF BackupDatabase, QueueKept
  <2>2. CASE ServiceCommits
    BY <2>2 DEF ServiceCommits, QueueKept, Schema2
  <2>3. ASSUME UNCHANGED tcVars, candidate'.drained = candidate.drained,
               db' \in {"source", "candidate"} => db \in {"source", "candidate"}
        PROVE  QueueKept'
    BY <2>3 DEF QueueKept, IdleQueue, tcVars
  <2>4. CASE StartServices \/ StopServices \/ ServiceAdds
             \/ (\E f \in Old \cup New : ServiceRewrites(f))
    BY <2>3, <2>4 DEF StartServices, StopServices, ServiceAdds, ServiceRewrites,
                      archiveVars, commandVars
  <2>5. CASE BackupFiles \/ Build \/ RehearsalFails
    BY <2>3, <2>5 DEF BackupFiles, Build, RehearsalFails, archiveVars, CInv, OwnTypes
  <2>6. CASE SwitchDatabase \/ RestoreDatabase
    BY <2>3, <2>6 DEF SwitchDatabase, RestoreDatabase, CInv, Phases
  <2>7. CASE \/ Resume \/ FilesInstalled \/ Applied \/ ResumeConverted
             \/ StartCleanup \/ CleanupEnds \/ Rollback \/ RollbackEnds \/ Killed
    BY <2>3, <2>7 DEF Resume, FilesInstalled, Applied, ResumeConverted, StartCleanup,
                      CleanupEnds, Rollback, RollbackEnds, Killed, archiveVars
  <2>8. ASSUME NEW f \in Old \cup New,
               \/ StageFile(f) \/ PublishFile(f) \/ SkipFile(f) \/ CopyFails(f)
               \/ RemoveLegacy(f) \/ RemovalRefused(f)
               \/ RestoreFile(f) \/ KilledRestoring(f) \/ RemoveNew(f)
        PROVE  QueueKept'
    BY <2>3, <2>8 DEF StageFile, PublishFile, SkipFile, CopyFails, RemoveLegacy,
                      RemovalRefused, RestoreFile, KilledRestoring, RemoveNew,
                      archiveVars, commandVars
  <2>9. CASE UNCHANGED vars
    BY <2>3, <2>9 DEF vars, tcVars, archiveVars, commandVars
  <2>10. QED
    BY <2>1, <2>2, <2>4, <2>5, <2>6, <2>7, <2>8, <2>9 DEF Next, ServiceStep, CommandStep
<1>3. QED
  BY <1>1, <1>2, CInvariant, PTL DEF Spec

\* The candidate's database starts its life without an active task.
THEOREM ConversionAdoptsEnded == Spec => []AdoptedTasksHaveEnded
<1>1. CInv /\ QueueKept /\ TCTypeOK => AdoptedTasksHaveEnded
  BY DEF CInv, Between, QueueKept, IdleQueue, AdoptedTasksHaveEnded, TCTypeOK, Row, Statuses
<1>2. QED
  BY <1>1, CInvariant, QueueKeptInvariant, TablesKept, TCTyping, PTL

\* Whatever an interrupted command left, the checks of a resume and of a
\* rollback accept it.
THEOREM ConversionRecovers == Spec => []RecoveryIsAccepted
<1>1. CInv /\ QueueKept => RecoveryIsAccepted
  BY DEF CInv, OwnTypes, Between, ServedFilesIntact, Served, Undisturbed, QueueKept,
         RecoveryIsAccepted, ResumeChecks, RollbackChecks, Usable,
         Schema2, Schema3, Contents, Resumable
<1>2. QED
  BY <1>1, CInvariant, QueueKeptInvariant, PTL
=============================================================================
