---------------------------- MODULE CrawlWorker -----------------------------
(***************************************************************************)
(* Crawl workers: the account synchronisations they execute, the session   *)
(* lease with which a worker recovers account locks its predecessor left   *)
(* behind (src/archivex/source.py), and the sync_runs rows                 *)
(* (src/archivex/storage.py, sync.py).                                     *)
(*                                                                         *)
(* The supported topology is one worker process with one task at a time;   *)
(* two processes exist while one container replaces another, and the one   *)
(* that is replaced may die at any point.  The pool holds one account and  *)
(* the queue is UserTweetsAndReplies, the only one that is recovered.  The *)
(* pool belongs to twscrape: a lock has a time as its stamp and no owner.  *)
(* No two locks carry the same stamp (stamps are seconds, and a request    *)
(* takes longer), and no request lasts as long as its lock (15 minutes).   *)
(* A marker is written as a whole, and the write does not fail.            *)
(***************************************************************************)
EXTENDS Naturals

CONSTANTS
  Processes,
  Stamps,      \* times at which locks end; one is used again when it is forgotten
  MaxFaults,   \* processes that end and recoveries that fail
  None

ASSUME CrawlAssumption ==
  Stamps \subseteq Nat /\ MaxFaults \in Nat /\ None \notin Processes \cup Nat

VARIABLES
  lock,        \* the pool: None, or the lock of the account
  marker,      \* stamps in the lease file
  flock,       \* the process that holds the lease file, or None
  proc,        \* module globals of a process, or None while it does not run
  task,        \* the task of a process, or None
  run,         \* the status of the last sync_runs row each process inserted
  older,       \* a row before the last of its process is still running
  faults

vars == <<lock, marker, flock, proc, task, run, older, faults>>

Lock == [stamp : Stamps, limited : BOOLEAN]
Memory == [targets : SUBSET Stamps,    \* what the marker held when the lease was acquired
           consumed : BOOLEAN,         \* _session_recovery_consumed
           active : SUBSET Stamps,     \* _session_active_contexts
           failed : SUBSET Stamps]     \* _session_failed_contexts
Task == [pc : {"interrupt", "insert", "ready", "book", "scan", "opened", "request", "closing", "finish"},
         targets : SUBSET Stamps,      \* _recovery_targets of the source
         ctx : Stamps \cup {None},     \* the lock of the open request
         tracked : BOOLEAN,            \* ... and whether the process keeps it in mind
         recover : BOOLEAN,            \* ... which could not be released
         outcome : {"ended", "interrupted"}]
Promised == [stamp : Stamps, kind : {"held", "limited", "lost"}]   \* what CrawlLock knows of a lock
ASSUME RecordAssumption == None \notin Lock \cup Memory \cup Task \cup Promised

\* success, partial and error are "ended".
Status == {"none", "running", "ended", "interrupted"}

StampsOf(x) == IF x = None THEN {} ELSE {x}
Used == marker \cup (IF lock = None THEN {} ELSE {lock.stamp})
        \cup (UNION {proc[p].targets \cup proc[p].active \cup proc[p].failed :
                       p \in {x \in Processes : proc[x] # None}})
        \cup (UNION {task[p].targets \cup StampsOf(task[p].ctx) :
                       p \in {x \in Processes : task[x] # None}})
Least(S) == CHOOSE x \in S : \A y \in S : x <= y

\* The request that took the lock still runs in its process.
Live(s) == \E p \in Processes : task[p] # None /\ task[p].ctx = s

Init ==
  /\ lock = None /\ marker = {} /\ flock = None
  /\ proc = [p \in Processes |-> None]
  /\ task = [p \in Processes |-> None]
  /\ run = [p \in Processes |-> "none"] /\ older = FALSE
  /\ faults = 0

At(p, pc) == task[p] # None /\ task[p].pc = pc

Fault == faults < MaxFaults /\ faults' = faults + 1

-----------------------------------------------------------------------------
(***************************************************************************)
(* Processes.                                                              *)
(***************************************************************************)

\* A child begins with nothing, whatever its parent held
\* (_drop_inherited_session_leases).
Start(p) ==
  /\ proc[p] = None
  /\ proc' = [proc EXCEPT ![p] = [targets |-> {}, consumed |-> FALSE, active |-> {}, failed |-> {}]]
  /\ UNCHANGED <<lock, marker, flock, task, run, older, faults>>

\* _session_marker_targets
MarkerTargets(m) == m.active \cup (IF m.consumed THEN {} ELSE m.targets)

\* The marker is written by the holder of the lease.
WriteMarker(p, m) == marker' = IF flock = p THEN MarkerTargets(m) ELSE marker

\* Mutant: a process that ends leaves a clean marker.
ExitClean(p) ==
  /\ proc[p] # None /\ task[p] = None
  /\ Fault
  /\ marker' = IF flock = p THEN {} ELSE marker
  /\ flock' = IF flock = p THEN None ELSE flock
  /\ proc' = [proc EXCEPT ![p] = None]
  /\ UNCHANGED <<lock, task, run, older>>

\* The process ends between two tasks: _mark_session_leases_clean and then
\* _release_session_leases.
Exit(p) ==
  /\ proc[p] # None /\ task[p] = None
  /\ Fault
  /\ WriteMarker(p, proc[p])
  /\ flock' = IF flock = p THEN None ELSE flock
  /\ proc' = [proc EXCEPT ![p] = None]
  /\ UNCHANGED <<lock, task, run, older>>

\* Mutant: the lease outlives its process.
CrashHoldingLease(p) ==
  /\ proc[p] # None
  /\ Fault
  /\ proc' = [proc EXCEPT ![p] = None]
  /\ task' = [task EXCEPT ![p] = None]
  /\ UNCHANGED <<lock, marker, flock, run, older>>

\* The process dies; the marker and the lock of its request stay.
Crash(p) ==
  /\ proc[p] # None
  /\ Fault
  /\ flock' = IF flock = p THEN None ELSE flock
  /\ proc' = [proc EXCEPT ![p] = None]
  /\ task' = [task EXCEPT ![p] = None]
  /\ UNCHANGED <<lock, marker, run, older>>

(***************************************************************************)
(* A task.  It builds its own source.                                      *)
(***************************************************************************)
NewTask(targets) ==
  [pc |-> "interrupt", targets |-> targets, ctx |-> None, tracked |-> FALSE, recover |-> FALSE,
   outcome |-> "ended"]

\* Mutant: what this process could not release is not looked at.
NewSourceWithoutFailed(p) ==
  /\ proc[p] # None /\ task[p] = None
  /\ LET m == proc[p] IN
     \/ /\ flock = p
        /\ task' = [task EXCEPT ![p] = NewTask(IF m.consumed THEN {} ELSE m.targets)]
        /\ UNCHANGED <<flock, proc>>
     \/ /\ flock = None
        /\ flock' = p
        /\ proc' = [proc EXCEPT ![p].targets = marker]
        /\ task' = [task EXCEPT ![p] = NewTask(marker)]
     \/ /\ flock \notin {p, None}
        /\ task' = [task EXCEPT ![p] = NewTask({})]
        /\ UNCHANGED <<flock, proc>>
  /\ UNCHANGED <<lock, marker, run, older, faults>>

\* TwscrapePostSource.__init__ with _acquire_session_lease: the lease is held
\* already, or it is free and the marker says what to recover, or another
\* process holds it.
NewSource(p) ==
  /\ proc[p] # None /\ task[p] = None
  /\ LET m == proc[p] IN
     \/ /\ flock = p
        /\ task' = [task EXCEPT ![p] =
                      NewTask((IF m.consumed THEN {} ELSE m.targets) \cup m.failed)]
        /\ UNCHANGED <<flock, proc>>
     \/ /\ flock = None
        /\ flock' = p
        /\ proc' = [proc EXCEPT ![p].targets = marker]
        /\ task' = [task EXCEPT ![p] = NewTask(marker \cup m.failed)]
     \/ /\ flock \notin {p, None}
        /\ task' = [task EXCEPT ![p] = NewTask(m.failed)]
        /\ UNCHANGED <<flock, proc>>
  /\ UNCHANGED <<lock, marker, run, older, faults>>

\* Mutant: a task does not look for what others left.
InterruptNothing(p) ==
  /\ At(p, "interrupt")
  /\ task' = [task EXCEPT ![p].pc = "insert"]
  /\ UNCHANGED <<lock, marker, flock, proc, run, older, faults>>

\* Mutant: the condition on the status is missing.
InterruptAll(p) ==
  /\ At(p, "interrupt")
  /\ run' = [r \in Processes |-> IF run[r] = "none" THEN "none" ELSE "interrupted"]
  /\ older' = FALSE
  /\ task' = [task EXCEPT ![p].pc = "insert"]
  /\ UNCHANGED <<lock, marker, flock, proc, faults>>

\* interrupt_running_sync_runs
Interrupt(p) ==
  /\ At(p, "interrupt")
  /\ run' = [r \in Processes |-> IF run[r] = "running" THEN "interrupted" ELSE run[r]]
  /\ older' = FALSE
  /\ task' = [task EXCEPT ![p].pc = "insert"]
  /\ UNCHANGED <<lock, marker, flock, proc, faults>>

\* An exception ends the scan with an error.
Raise(p) == task' = [task EXCEPT ![p].pc = "finish", ![p].targets = {}]

\* The source is checked and does not look at its targets again.
Scan(p) == task' = [task EXCEPT ![p].pc = "scan", ![p].targets = {}]

\* start_sync_run, and _ensure_ready if there is nothing to recover.
StartRun(p) ==
  /\ At(p, "insert")
  /\ older' = (older \/ run[p] = "running")
  /\ run' = [run EXCEPT ![p] = "running"]
  /\ IF task[p].targets = {} \/ proc[p].consumed
     THEN Scan(p)
     ELSE task' = [task EXCEPT ![p].pc = "ready"]
  /\ UNCHANGED <<lock, marker, flock, proc, faults>>

\* Mutant: the stamp is not compared.
ClearedAny(targets) == IF targets # {} THEN None ELSE lock

\* The UPDATE of _reset_crawl_queue_locks for every target.
Cleared(targets) == IF lock # None /\ lock.stamp \in targets THEN None ELSE lock

Reset(p) ==
  /\ At(p, "ready")
  /\ lock' = Cleared(task[p].targets)
  /\ task' = [task EXCEPT ![p].pc = "book"]
  /\ UNCHANGED <<marker, flock, proc, run, older, faults>>

\* It raises, before or after the targets that matter.
ResetFails(p) ==
  /\ At(p, "ready")
  /\ Fault
  /\ lock' \in {lock, Cleared(task[p].targets)}
  /\ Raise(p)
  /\ UNCHANGED <<marker, flock, proc, run, older>>

\* The rest of _ensure_ready.
Book(p) ==
  /\ At(p, "book")
  /\ LET m == [proc[p] EXCEPT !.active = @ \ task[p].targets, !.failed = @ \ task[p].targets,
                              !.consumed = TRUE]
     IN
     /\ proc' = [proc EXCEPT ![p] = m]
     /\ WriteMarker(p, m)
     /\ Scan(p)
  /\ UNCHANGED <<lock, flock, run, older, faults>>

(***************************************************************************)
(* A request of the scan.                                                  *)
(***************************************************************************)

\* get_for_queue_or_wait
Open(p) ==
  /\ At(p, "scan")
  /\ lock = None
  /\ Stamps \ Used # {}
  /\ lock' = [stamp |-> Least(Stamps \ Used), limited |-> FALSE]
  /\ task' = [task EXCEPT ![p].pc = "opened", ![p].ctx = Least(Stamps \ Used)]
  /\ UNCHANGED <<marker, flock, proc, run, older, faults>>

\* NoAccountError, which becomes AccountPoolUnavailableError.
Unavailable(p) ==
  /\ At(p, "scan")
  /\ lock # None
  /\ Raise(p)
  /\ UNCHANGED <<lock, marker, flock, proc, run, older, faults>>

\* _session_context_opened: without the lease nothing is kept in mind.
Note(p) ==
  /\ At(p, "opened")
  /\ LET m == [proc[p] EXCEPT !.active = @ \cup {task[p].ctx}] IN
     /\ proc' = IF flock = p THEN [proc EXCEPT ![p] = m] ELSE proc
     /\ WriteMarker(p, m)
     /\ task' = [task EXCEPT ![p].pc = "request", ![p].tracked = (flock = p)]
  /\ UNCHANGED <<lock, flock, run, older, faults>>

Closing(p, recover) == task' = [task EXCEPT ![p].pc = "closing", ![p].recover = recover]

\* _close_ctx, and _get_ctx when no client can be built: unlock ...
Unlock(p) ==
  /\ At(p, "request")
  /\ lock' = None
  /\ Closing(p, FALSE)
  /\ UNCHANGED <<marker, flock, proc, run, older, faults>>

\* ... the unlock fails too ...
UnlockFails(p) ==
  /\ At(p, "request")
  /\ Closing(p, TRUE)
  /\ UNCHANGED <<lock, marker, flock, proc, run, older, faults>>

\* ... the response was a rate limit, which replaces the lock ...
RateLimit(p) ==
  /\ At(p, "request")
  /\ Stamps \ Used # {}
  /\ lock' = [stamp |-> Least(Stamps \ Used), limited |-> TRUE]
  /\ Closing(p, FALSE)
  /\ UNCHANGED <<marker, flock, proc, run, older, faults>>

\* ... or the rate limit cannot be written; it is not taken for a lost lock.
RateLimitFails(p) ==
  /\ At(p, "request")
  /\ Closing(p, FALSE)
  /\ UNCHANGED <<lock, marker, flock, proc, run, older, faults>>

\* What _session_context_closed leaves in memory.
Forgotten(m, s, recover) ==
  IF recover THEN [m EXCEPT !.failed = @ \cup {s}, !.consumed = FALSE]
             ELSE [m EXCEPT !.active = @ \ {s}, !.failed = @ \ {s}]

\* _session_context_closed.  A lock that could not be released raises; after
\* any other end of a request the scan goes on or raises.
Closed(p) ==
  /\ At(p, "closing")
  /\ LET t == task[p]
         m == Forgotten(proc[p], t.ctx, t.recover)
         done == [t EXCEPT !.ctx = None, !.tracked = FALSE, !.recover = FALSE]
     IN
     /\ IF t.tracked /\ flock = p THEN proc' = [proc EXCEPT ![p] = m] /\ WriteMarker(p, m)
                                  ELSE UNCHANGED <<proc, marker>>
     /\ \/ ~t.recover /\ task' = [task EXCEPT ![p] = [done EXCEPT !.pc = "scan"]]
        \/ task' = [task EXCEPT ![p] = [done EXCEPT !.pc = "finish"]]
  /\ UNCHANGED <<lock, flock, run, older, faults>>

\* The timeline is exhausted, the scan faults early, or no type is archived and
\* there is none.
EndScan(p) ==
  /\ At(p, "scan") \/ At(p, "ready")
  /\ task' = [task EXCEPT ![p].pc = "finish", ![p].targets = {}]
  /\ UNCHANGED <<lock, marker, flock, proc, run, older, faults>>

\* The task is cancelled.
Cancel(p) ==
  /\ At(p, "scan")
  /\ task' = [task EXCEPT ![p].pc = "finish", ![p].outcome = "interrupted"]
  /\ UNCHANGED <<lock, marker, flock, proc, run, older, faults>>

\* finish_sync_run updates the row by its id, whatever its status.
Finish(p) ==
  /\ At(p, "finish")
  /\ run' = [run EXCEPT ![p] = task[p].outcome]
  /\ task' = [task EXCEPT ![p] = None]
  /\ UNCHANGED <<lock, marker, flock, proc, older, faults>>

\* A lock runs out; the lock of a request lasts longer than the request.
Expire ==
  /\ lock # None
  /\ ~Live(lock.stamp)
  /\ lock' = None
  /\ UNCHANGED <<marker, flock, proc, task, run, older, faults>>

-----------------------------------------------------------------------------
Step(p) ==
  \/ Interrupt(p) \/ StartRun(p) \/ Reset(p) \/ Book(p)
  \/ Open(p) \/ Unavailable(p) \/ Note(p)
  \/ Unlock(p) \/ UnlockFails(p) \/ RateLimit(p) \/ RateLimitFails(p) \/ Closed(p)
  \/ EndScan(p) \/ Cancel(p) \/ Finish(p)

Next ==
  \/ \E p \in Processes : Start(p) \/ Exit(p) \/ Crash(p) \/ NewSource(p) \/ Step(p) \/ ResetFails(p)
  \/ Expire

Spec == Init /\ [][Next]_vars

(***************************************************************************)
(* Containers are restarted, a running worker gets a task sooner or later  *)
(* and executes it, a timeline has an end, and not every synchronisation   *)
(* is one of an account whose types are all closed.  Locks need not run    *)
(* out in time.                                                            *)
(***************************************************************************)
Fairness ==
  \A p \in Processes :
    /\ WF_vars(Start(p)) /\ WF_vars(NewSource(p)) /\ WF_vars(Step(p))
    /\ SF_vars(EndScan(p)) /\ SF_vars(Reset(p))

FairSpec == Spec /\ Fairness

(***************************************************************************)
(* Properties.                                                             *)
(***************************************************************************)

Typed ==
  /\ lock \in Lock \cup {None}
  /\ marker \in SUBSET Stamps
  /\ flock \in Processes \cup {None}
  /\ proc \in [Processes -> Memory \cup {None}]
  /\ task \in [Processes -> Task \cup {None}]
  /\ run \in [Processes -> Status] /\ older \in BOOLEAN
  /\ faults \in 0 .. MaxFaults
  /\ \A p \in Processes : (task[p] # None \/ flock = p) => proc[p] # None

\* Every variable is of its type, a task runs in a process, and there is
\* always a stamp to use.
WorkerTypeOK == Typed /\ Stamps \ Used # {}

\* Between them the workers drive the lock of the account as CrawlLock allows:
\* a recovery never removes a rate limit nor the lock of a request that runs,
\* in its own process or in another.
Account ==
  IF lock = None THEN None
  ELSE [stamp |-> lock.stamp,
        kind |-> IF lock.limited THEN "limited" ELSE IF Live(lock.stamp) THEN "held" ELSE "lost"]

Promise == INSTANCE CrawlLock WITH account <- Account
LockSpec == Promise!Spec

\* A lock that is lost and recorded stays recorded for as long as it is there,
\* through exits, crashes and recoveries that fail.
Recorded == lock # None /\ Account.kind = "lost" /\ lock.stamp \in marker
RecordedIsKept == [][Recorded /\ lock' = lock => Recorded']_vars

\* A lock that is lost and recorded is removed by a worker, without waiting for
\* it to run out.
RecordedIsCleared == Recorded ~> ~Recorded

\* A run that came to its own end keeps its outcome, although the run of a
\* successor marks everything it finds running as interrupted.
OutcomeIsFinal ==
  [][\A p \in Processes : run[p] = "ended" => run'[p] \in {"ended", "running"}]_vars

\* A run does not stay running: its process ends it, or a later one does.
RunEnds ==
  /\ \A p \in Processes : run[p] = "running" ~> run[p] # "running"
  /\ older ~> ~older
=============================================================================
