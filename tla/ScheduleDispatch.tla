-------------------------- MODULE ScheduleDispatch --------------------------
(***************************************************************************)
(* schedule_enabled_accounts_task of src/archivex/tasks.py: the interval   *)
(* task that queues a synchronisation of every enabled account.  The       *)
(* scheduler fires it at any time (after each restart at once), several    *)
(* executions may run concurrently, and two Redis keys decide whether one  *)
(* of them dispatches: a lease with an owner and a time to live, and the   *)
(* time of the last successful dispatch.                                   *)
(*                                                                         *)
(* A step is one Redis command (or script), so an execution can stall, or  *)
(* its process can exit, between any two of them.  Time is discrete; the   *)
(* lease ends by itself when its time is over.                             *)
(***************************************************************************)
EXTENDS Integers, FiniteSets

CONSTANTS
  Runs,            \* executions of the task
  NoRun,           \* the lease key does not exist
  Accounts,        \* how many enabled accounts there are
  Interval,        \* archive_sync_interval_seconds
  Tolerance,       \* _SCHEDULE_DUE_TOLERANCE_SECONDS
  LeaseTime,       \* _SCHEDULE_DISPATCH_LEASE_SECONDS
  RunImmediately,  \* the values archive_schedule_run_immediately_on_start has
  Timely,          \* no execution stalls for as long as its lease lasts (300 s)
  MaxTime,         \* bound of the clock
  MaxRestarts      \* bound of retries and redeliveries of one execution

ASSUME DispatchAssumption ==
  /\ NoRun \notin Runs
  /\ {Accounts, Interval, Tolerance, MaxTime, MaxRestarts} \subseteq Nat
  /\ LeaseTime \in Nat \ {0}
  /\ RunImmediately \subseteq BOOLEAN
  /\ Timely \in BOOLEAN

VARIABLES
  now,     \* the clock, shared by the executions
  lease,   \* owner of the lease key
  expires, \* when the lease ends
  last,    \* time of the last dispatch, Never if the key does not exist
  run      \* [Runs -> what the execution is doing]

vars == <<now, lease, expires, last, run>>

Never == -1

PC == {"new", "begin", "check", "first", "renew", "enqueue", "commit", "release", "abort", "done"}

\* start: dispatch_started_at; left: accounts to queue; restarts: retries and
\* redeliveries so far.
Run == [pc : PC, start : 0 .. MaxTime, left : 0 .. Accounts, restarts : 0 .. MaxRestarts]

Init ==
  /\ now = 0
  /\ lease = NoRun
  /\ expires = 0
  /\ last = Never
  /\ run = [r \in Runs |-> [pc |-> "new", start |-> 0, left |-> 0, restarts |-> 0]]

At(r, pc) == run[r].pc = pc
Goto(r, pc) == run' = [run EXCEPT ![r].pc = pc]

\* Executions that believe they own the lease.
Holding(r) == run[r].pc \in {"check", "first", "renew", "enqueue", "commit"}

Tick ==
  /\ now < MaxTime
  /\ Timely => \A r \in Runs : Holding(r) => now + 1 < expires
  /\ now' = now + 1
  /\ lease' = IF now' < expires THEN lease ELSE NoRun
  /\ UNCHANGED <<expires, last, run>>

\* The clock is read before the lease is asked for.
Start(r) ==
  /\ At(r, "new")
  /\ run' = [run EXCEPT ![r].pc = "begin", ![r].start = now]
  /\ UNCHANGED <<now, lease, expires, last>>

Acquire(r) ==
  /\ lease' = r
  /\ expires' = now + LeaseTime

\* An execution that raises is retried, up to a bound; so is one whose process
\* exits before the message is acknowledged.
Again(r) ==
  run' = [run EXCEPT ![r] =
           IF @.restarts < MaxRestarts
             THEN [pc |-> "new", start |-> 0, left |-> 0, restarts |-> @.restarts + 1]
             ELSE [@ EXCEPT !.pc = "done"]]

\* Mutant: the lease is taken whoever holds it.
BeginAlways(r) ==
  /\ At(r, "begin")
  /\ Acquire(r) /\ Goto(r, "check")
  /\ UNCHANGED <<now, last>>

\* SET NX EX; "busy" raises, for the owner of an earlier delivery as well.
Begin(r) ==
  /\ At(r, "begin")
  /\ \/ lease = NoRun /\ Acquire(r) /\ Goto(r, "check")
     \/ lease # NoRun /\ Again(r) /\ UNCHANGED <<lease, expires>>
  /\ UNCHANGED <<now, last>>

Due(r) == run[r].start - last + Tolerance >= Interval

Dispatching(r) == run' = [run EXCEPT ![r].pc = "renew", ![r].left = Accounts]

\* A Redis command raises: the lease is given up and the exception goes on.
Raise(r) == Goto(r, "abort")

\* Mutant: a restarted scheduler dispatches whatever the last time is.
CheckNothing(r) ==
  /\ At(r, "check")
  /\ Dispatching(r)
  /\ UNCHANGED <<now, lease, expires, last>>

\* GET of the last dispatch.
Check(r) ==
  /\ At(r, "check")
  /\ \/ last = Never /\ TRUE \in RunImmediately /\ Dispatching(r)
     \/ last = Never /\ FALSE \in RunImmediately /\ Goto(r, "first")
     \/ last # Never /\ Due(r) /\ Dispatching(r)
     \/ last # Never /\ ~Due(r) /\ Goto(r, "release")
     \/ Raise(r)
  /\ UNCHANGED <<now, lease, expires, last>>

\* The first execution of all only starts the interval.
First(r) ==
  /\ At(r, "first")
  /\ \/ last' = run[r].start /\ Goto(r, "release")
     \/ UNCHANGED last /\ Raise(r)
  /\ UNCHANGED <<now, lease, expires>>

\* _renew_schedule_dispatch before every account, which extends the lease if it
\* is still owned; a lost lease raises, and so may the command.
Renew(r) ==
  /\ At(r, "renew") /\ run[r].left > 0
  /\ \/ lease = r /\ expires' = now + LeaseTime /\ Goto(r, "enqueue")
     \/ UNCHANGED expires /\ Raise(r)
  /\ UNCHANGED <<now, lease, last>>

\* Mutant: an account is queued and not counted off.
EnqueueAgain(r) ==
  /\ At(r, "enqueue")
  /\ run' = [run EXCEPT ![r].pc = "renew", ![r].left = @ + 1]
  /\ UNCHANGED <<now, lease, expires, last>>

\* enqueue_account_sync, which may raise.
Enqueue(r) ==
  /\ At(r, "enqueue")
  /\ \/ run' = [run EXCEPT ![r].pc = "renew", ![r].left = @ - 1]
     \/ Raise(r)
  /\ UNCHANGED <<now, lease, expires, last>>

\* _finish_schedule_dispatch(completed=True): the time is written whoever
\* owns the lease by then.
Commit(r) ==
  /\ At(r, "renew") /\ run[r].left = 0
  /\ \/ last' = run[r].start /\ Goto(r, "release")
     \/ UNCHANGED last /\ Raise(r)
  /\ UNCHANGED <<now, lease, expires>>

\* Mutant: the lease is deleted whoever owns it.
ReleaseAny(r) ==
  /\ \/ At(r, "release") /\ Goto(r, "done")
     \/ At(r, "abort") /\ Again(r)
  /\ lease' = NoRun
  /\ UNCHANGED <<now, expires, last>>

\* DEL if owned, at the end of an execution or before its exception goes on;
\* a DEL that fails is logged and leaves the lease to its time to live.
Release(r) ==
  /\ \/ At(r, "release") /\ Goto(r, "done")
     \/ At(r, "abort") /\ Again(r)
  /\ \/ UNCHANGED lease
     \/ lease = r /\ lease' = NoRun
  /\ UNCHANGED <<now, expires, last>>

\* The process exits before the message is acknowledged.
Crash(r) ==
  /\ run[r].pc \notin {"new", "done"}
  /\ Again(r)
  /\ UNCHANGED <<now, lease, expires, last>>

RunNext(r) ==
  \/ Start(r) \/ Begin(r) \/ Check(r) \/ First(r) \/ Renew(r) \/ Enqueue(r)
  \/ Commit(r) \/ Release(r)

Next ==
  \/ Tick
  \/ \E r \in Runs : RunNext(r) \/ Crash(r)

Spec == Init /\ [][Next]_vars

-----------------------------------------------------------------------------
\* The variables have their types.
TypeOK ==
  /\ now \in 0 .. MaxTime
  /\ lease \in Runs \cup {NoRun}
  /\ expires \in 0 .. MaxTime + LeaseTime
  /\ last \in {Never} \cup 0 .. MaxTime
  /\ run \in [Runs -> Run]

\* At most one execution queues synchronisations at a time
\* (QUEUE_SYSTEM_FIXES.md Q-04: the owner lease serialises scheduler calls),
\* while executions crash, are redelivered and give up leases.
OneDispatcher ==
  \A r, s \in Runs :
    run[r].pc \in {"renew", "enqueue"} /\ run[s].pc \in {"renew", "enqueue"} => r = s

\* Two successful dispatches are an interval apart, less the tolerance:
\* restarts of the scheduler and executions that were delayed between reading
\* the clock, the lease and the last time never shorten it.
SpacedStep == last # Never /\ last' # last => last' - last + Tolerance >= Interval
DispatchesAreSpaced == [][SpacedStep]_vars

\* An execution whose lease ran out, or that was delivered again, never takes
\* the lease away from its present owner: only the owner's own end or the
\* clock removes it.
LeaseStep ==
  lease \in Runs /\ lease' # lease =>
    \/ now' # now /\ lease' = NoRun
    \/ run[lease].pc \in {"release", "abort"} /\ run'[lease] # run[lease]
LeaseIsOwned == [][LeaseStep]_vars
=============================================================================
