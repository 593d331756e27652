----------------------------- MODULE TaskQueue ------------------------------
(***************************************************************************)
(* One queue of ArchiveX and the tasks that compete for one target (an     *)
(* account to synchronise, a media file to download, a post to recover):   *)
(*                                                                         *)
(*   producers  enqueue_account_sync / enqueue_media_download /            *)
(*              enqueue_post_fetch of src/archivex/tasks.py;               *)
(*   lock       the Redis dedupe key of the target, holding a task id;     *)
(*   stream     the Redis Stream with its pending entries list;            *)
(*   slots      task slots of the workers: pre_execute, the task body,     *)
(*              on_error, post_execute, acknowledgement;                   *)
(*   schedule   the retry schedules, and the scheduler that fires them;    *)
(*   task, attempt   the lifecycle tables of TaskCenter.                   *)
(*                                                                         *)
(* Every action is one step between two points where another process can   *)
(* act: one Redis command or script, or one SQLite transaction.  Failures  *)
(* are explicit actions that draw on a budget of MaxFaults and are enabled *)
(* by kind in FaultKinds, so that a run says under which failures it holds.*)
(***************************************************************************)
EXTENDS TaskCenter

CONSTANTS
  Slots,       \* concurrent task slots of the workers of this queue
  Kind,        \* the task function: "sync", "media" or "post"
  FaultKinds,  \* the failures of a run
  MaxFaults,   \* how many failures a behaviour may contain
  NoOwner      \* the dedupe key does not exist

ASSUME QueueAssumption ==
  /\ Kind \in {"sync", "media", "post"}
  /\ MaxFaults \in Nat
  /\ NoOwner \notin TaskIds

VARIABLES
  lock,       \* owner of the dedupe key
  stream,     \* entries not delivered to any consumer
  pending,    \* entries delivered and not acknowledged
  schedule,   \* <<t, a>>: attempt a of t waits in the retry schedule source
  scheduler,  \* what the scheduler process is doing
  producer,   \* [TaskIds -> progress of the call that enqueues the task]
  slot,       \* [Slots -> what the slot is executing]
  faults      \* failures so far

queueVars == <<lock, stream, pending, schedule, scheduler, producer, slot, faults>>
vars == <<tcVars, queueVars>>

Copies == 0 .. MaxFaults
Entry == [id : TaskIds, a : Attempts, copy : Copies]
Retry == TaskIds \X Attempts

SlotPC == {"started", "claim", "body", "error", "giveup", "schedule", "finish", "ack"}
Idle == [pc |-> "idle"]
Busy == [pc : SlotPC, entry : Entry, outcome : Settled \cup {"none"}]

SchedulerIdle == <<"idle">>
ProducerPC == {"new", "reserved", "sent", "refused", "rollback", "marking", "done", "failed"}
\* The call has met a failure it will report.
Refused == {"refused", "rollback", "marking"}
Returned == {"done", "failed"}

\* A failure of the given kind happens in this step.
Fault(kind) ==
  /\ kind \in FaultKinds
  /\ faults < MaxFaults
  /\ faults' = faults + 1

NoFault == UNCHANGED faults

\* A best-effort lifecycle write is done, or it fails once and is skipped
\* (_record_lifecycle_event with required=False).
BestEffort(write) ==
  \/ write /\ NoFault
  \/ Fault("lost_record") /\ UNCHANGED tcVars

\* DEL if the caller owns the key (_DELETE_OWNED_LOCK).
ReleaseLock(t) == lock' = IF lock = t THEN NoOwner ELSE lock

\* The command raises: it failed, or only its reply was lost.
ReleaseRaises(t, kind) ==
  /\ Fault(kind)
  /\ ReleaseLock(t) \/ UNCHANGED lock

Executes(s, e) == slot[s] # Idle /\ slot[s].entry = e

\* XADD of a message.  Every entry has an id of its own; here the first copy
\* number that no entry of this attempt uses.  The number of failures bounds
\* how often one attempt is published.
InUse == stream \cup pending \cup {slot[s].entry : s \in {r \in Slots : slot[r] # Idle}}

AddEntry(t, a) ==
  \E c \in Copies :
    /\ [id |-> t, a |-> a, copy |-> c] \notin InUse
    /\ \A d \in 0 .. c - 1 : [id |-> t, a |-> a, copy |-> d] \in InUse
    /\ stream' = stream \cup {[id |-> t, a |-> a, copy |-> c]}

-----------------------------------------------------------------------------
Init ==
  /\ TCInit
  /\ lock = NoOwner
  /\ stream = {}
  /\ pending = {}
  /\ schedule = {}
  /\ scheduler = SchedulerIdle
  /\ producer = [t \in TaskIds |-> "new"]
  /\ slot = [s \in Slots |-> Idle]
  /\ faults = 0

(***************************************************************************)
(* Producers.                                                              *)
(***************************************************************************)
SetProducer(t, from, to) ==
  /\ producer[t] = from
  /\ producer' = [producer EXCEPT ![t] = to]

\* SET NX: the call returns the other task's id when the key exists.  If only
\* the reply of the command is lost, the call raises and the key stays.
Reserve(t) ==
  /\ \/ lock = NoOwner /\ SetProducer(t, "new", "reserved") /\ lock' = t /\ NoFault
     \/ lock # NoOwner /\ SetProducer(t, "new", "done") /\ UNCHANGED lock /\ NoFault
     \/ /\ lock = NoOwner /\ SetProducer(t, "new", "failed") /\ lock' = t
        /\ Fault("reserve_reply_lost")
  /\ UNCHANGED <<tcVars, stream, pending, schedule, scheduler, slot>>

\* XADD.  The call may fail without effect, or its reply may be lost after
\* the entry was added; the caller cannot tell these apart.
Publish(t) ==
  /\ \/ /\ SetProducer(t, "reserved", "sent")
        /\ AddEntry(t, FirstAttempt)
        /\ NoFault
     \/ /\ SetProducer(t, "reserved", "refused")
        /\ Fault("publish_fails") /\ UNCHANGED stream
     \/ /\ SetProducer(t, "reserved", "refused")
        /\ Fault("publish_reply_lost")
        /\ AddEntry(t, FirstAttempt)
  /\ UNCHANGED <<tcVars, lock, pending, schedule, scheduler, slot>>

\* post_send, after the entry is visible to the workers.
RecordSent(t) ==
  /\ SetProducer(t, "sent", "done")
  /\ BestEffort(RecordQueued(t, FirstAttempt))
  /\ UNCHANGED <<lock, stream, pending, schedule, scheduler, slot>>

\* _rollback_failed_publish: the lock, then the two transactions of
\* record_publish_failed; a failure of either is only logged, and a key that
\* was not released stays until its TTL.
RollbackLock(t) ==
  /\ SetProducer(t, "refused", "rollback")
  /\ \/ ReleaseLock(t) /\ NoFault
     \/ ReleaseRaises(t, "release_logged")
  /\ UNCHANGED <<tcVars, stream, pending, schedule, scheduler, slot>>

RollbackRecord(t) ==
  /\ \/ /\ SetProducer(t, "rollback", "marking")
        /\ RecordQueued(t, FirstAttempt) /\ NoFault
     \/ /\ SetProducer(t, "rollback", "failed")
        /\ Fault("rollback_write_fails") /\ UNCHANGED tcVars
  /\ UNCHANGED <<lock, stream, pending, schedule, scheduler, slot>>

RollbackMark(t) ==
  /\ SetProducer(t, "marking", "failed")
  /\ \/ MarkPublishFailed(t, FirstAttempt) /\ NoFault
     \/ Fault("rollback_write_fails") /\ UNCHANGED tcVars
  /\ UNCHANGED <<lock, stream, pending, schedule, scheduler, slot>>

\* The process of the caller dies between two of its steps.
ProducerCrash(t) ==
  /\ producer[t] \notin {"new"} \cup Returned
  /\ Fault("producer_crash")
  /\ producer' = [producer EXCEPT ![t] = IF @ \in Refused THEN "failed" ELSE "done"]
  /\ UNCHANGED <<tcVars, lock, stream, pending, schedule, scheduler, slot>>

(***************************************************************************)
(* The scheduler: a due retry is sent, recorded as queued, then deleted.   *)
(***************************************************************************)
FireRetry(t, a) ==
  /\ scheduler = SchedulerIdle
  /\ <<t, a>> \in schedule
  /\ AddEntry(t, a)
  /\ scheduler' = <<"sent", t, a>>
  /\ NoFault
  /\ UNCHANGED <<tcVars, lock, pending, schedule, producer, slot>>

RecordFired ==
  /\ scheduler[1] = "sent"
  /\ BestEffort(RecordQueued(scheduler[2], scheduler[3]))
  /\ scheduler' = <<"recorded", scheduler[2], scheduler[3]>>
  /\ UNCHANGED <<lock, stream, pending, schedule, producer, slot>>

DeleteFired ==
  /\ scheduler[1] = "recorded"
  /\ schedule' = schedule \ {<<scheduler[2], scheduler[3]>>}
  /\ scheduler' = SchedulerIdle
  /\ NoFault
  /\ UNCHANGED <<tcVars, lock, stream, pending, producer, slot>>

SchedulerCrash ==
  /\ scheduler # SchedulerIdle
  /\ Fault("scheduler_crash")
  /\ scheduler' = SchedulerIdle
  /\ UNCHANGED <<tcVars, lock, stream, pending, schedule, producer, slot>>

(***************************************************************************)
(* The workers.                                                            *)
(***************************************************************************)
Take(s, e) == slot' = [slot EXCEPT ![s] =
                         [pc |-> "started", entry |-> e, outcome |-> "none"]]

\* Mutant: acknowledged on delivery (ack-type when_received).
DeliverAcknowledged(s, e) ==
  /\ slot[s] = Idle /\ e \in stream
  /\ stream' = stream \ {e}
  /\ Take(s, e)
  /\ NoFault
  /\ UNCHANGED <<tcVars, lock, pending, schedule, scheduler, producer>>

Deliver(s, e) ==
  /\ slot[s] = Idle /\ e \in stream
  /\ stream' = stream \ {e}
  /\ pending' = pending \cup {e}
  /\ Take(s, e)
  /\ NoFault
  /\ UNCHANGED <<tcVars, lock, schedule, scheduler, producer>>

\* XAUTOCLAIM of an entry idle for longer than the hard timeout.  Idle time
\* counts from delivery, which precedes execution when the consumer has
\* prefetched, so the entry may still be executing.
Reclaim(s, e) ==
  /\ slot[s] = Idle /\ e \in pending
  /\ IF \E r \in Slots : Executes(r, e) THEN Fault("redelivery") ELSE NoFault
  /\ Take(s, e)
  /\ UNCHANGED <<tcVars, lock, stream, pending, schedule, scheduler, producer>>

\* The slot moves from one point of the task to the next.
Move(s, from, to, outcome) ==
  /\ slot[s].pc = from
  /\ slot' = [slot EXCEPT ![s] =
                [pc |-> to, entry |-> slot[s].entry, outcome |-> outcome]]

\* The slot is given up and the entry stays pending.
Leave(s) == slot' = [slot EXCEPT ![s] = Idle]

Id(s) == slot[s].entry.id
Att(s) == slot[s].entry.a
IsFinal(s) == Att(s) = MaxAttempt

\* pre_execute.
RecordStart(s) ==
  /\ Move(s, "started", "claim", "none")
  /\ BestEffort(RecordStarted(Id(s), Att(s)))
  /\ UNCHANGED <<lock, stream, pending, schedule, scheduler, producer>>

\* Mutant: the claim does not look at the owner.
ClaimUnchecked(s) ==
  /\ Move(s, "claim", "body", "none")
  /\ lock' = Id(s)
  /\ NoFault
  /\ UNCHANGED <<tcVars, stream, pending, schedule, scheduler, producer>>

\* _claim_execution: the owner's own executions share the key.  A refused
\* execution ends as a successful "skipped" result.  A claim that raises is an
\* error of the task, whether it took effect or not.
Claim(s) ==
  /\ \/ /\ Move(s, "claim", "body", "none")
        /\ lock \in {NoOwner, Id(s)} /\ lock' = Id(s) /\ NoFault
     \/ /\ Move(s, "claim", "finish", "completed")
        /\ lock \notin {NoOwner, Id(s)} /\ UNCHANGED lock /\ NoFault
     \/ /\ Move(s, "claim", "error", "none")
        /\ UNCHANGED lock \/ (lock = NoOwner /\ lock' = Id(s))
        /\ Fault("call_raises")
  /\ UNCHANGED <<tcVars, stream, pending, schedule, scheduler, producer>>

\* The body returns; a synchronisation extends the key before it dispatches
\* follow-up tasks and fails when another task owns it by then.  A release
\* that raises is an error of the task.
Succeed(s) ==
  /\ slot[s].pc = "body" /\ (Kind = "sync" => lock = Id(s))
  /\ \/ /\ Move(s, "body", "finish", "completed")
        /\ ReleaseLock(Id(s)) /\ NoFault
     \/ /\ Move(s, "body", "error", "none")
        /\ ReleaseRaises(Id(s), "call_raises")
  /\ UNCHANGED <<tcVars, stream, pending, schedule, scheduler, producer>>

\* The body raises; the final attempt releases the key itself, and if that
\* raises too, its error takes the place of the first.
Fail(s) ==
  /\ \/ /\ \/ Move(s, "body", "error", "none")
           \/ Kind = "media" /\ Move(s, "body", "giveup", "none")
        /\ IF IsFinal(s) THEN ReleaseLock(Id(s)) ELSE UNCHANGED lock
        /\ NoFault
     \/ /\ Move(s, "body", "error", "none") /\ IsFinal(s)
        /\ ReleaseRaises(Id(s), "call_raises")
  /\ UNCHANGED <<tcVars, stream, pending, schedule, scheduler, producer>>

\* Mutant: a task that gives up keeps the lock.
ReleaseFailedRetryNever(s) == Id(s) \in TaskIds /\ UNCHANGED lock /\ NoFault

\* _release_failed_retry_lock knows the keys of two of the task functions, and
\* a failure is only logged.
ReleaseFailedRetry(s) ==
  \/ Kind = "post" /\ UNCHANGED lock /\ NoFault
  \/ Kind # "post" /\ ReleaseLock(Id(s)) /\ NoFault
  \/ Kind # "post" /\ ReleaseRaises(Id(s), "release_logged")

\* on_error without a further retry: the failure is permanent, the attempt the
\* last, or the next one could not be scheduled.
GiveUp(s) ==
  /\ \/ Move(s, "error", "finish", "failure") /\ IsFinal(s)
     \/ Move(s, "giveup", "finish", "failure")
  /\ ReleaseFailedRetry(s)
  /\ UNCHANGED <<tcVars, stream, pending, schedule, scheduler, producer>>

\* Mutant: the record of the retry is best effort.
RecordRetryBestEffort(s) ==
  /\ slot[s].pc = "error" /\ ~IsFinal(s)
  /\ \/ /\ RecordRetryScheduled(Id(s), Att(s))
        /\ Move(s, "error", "schedule", "none") /\ NoFault
     \/ /\ Superseded(Id(s), Att(s)) /\ UNCHANGED tcVars
        /\ Move(s, "error", "ack", "none") /\ NoFault
     \/ /\ Fault("required_write_fails") /\ UNCHANGED tcVars
        /\ Move(s, "error", "schedule", "none")
  /\ UNCHANGED <<lock, stream, pending, schedule, scheduler, producer>>

\* Mutant: one retry more than max_retries.
RecordRetryUnlimited(s) ==
  /\ slot[s].pc = "error"
  /\ \/ /\ RecordRetryScheduled(Id(s), Att(s))
        /\ Move(s, "error", "schedule", "none") /\ NoFault
     \/ /\ Superseded(Id(s), Att(s)) /\ UNCHANGED tcVars
        /\ Move(s, "error", "ack", "none") /\ NoFault
  /\ UNCHANGED <<lock, stream, pending, schedule, scheduler, producer>>

\* on_error with a retry left.  record_retry_scheduled comes before the
\* schedule; refused, the message is acknowledged as if a retry were
\* scheduled; failing three times, it raises and the message stays pending.
RecordRetry(s) ==
  /\ slot[s].pc = "error" /\ ~IsFinal(s)
  /\ \/ /\ RecordRetryScheduled(Id(s), Att(s))
        /\ Move(s, "error", "schedule", "none") /\ NoFault
     \/ /\ Superseded(Id(s), Att(s)) /\ UNCHANGED tcVars
        /\ Move(s, "error", "ack", "none") /\ NoFault
     \/ Fault("required_write_fails") /\ Leave(s) /\ UNCHANGED tcVars
  /\ UNCHANGED <<lock, stream, pending, schedule, scheduler, producer>>

\* The schedule is added (also when only the reply is lost, which
\* contains_schedule then finds out) ...
AddSchedule(s) ==
  /\ Move(s, "schedule", "ack", "none")
  /\ schedule' = schedule \cup {<<Id(s), Att(s) + 1>>}
  /\ NoFault
  /\ UNCHANGED <<tcVars, lock, stream, pending, scheduler, producer>>

\* ... or it is known not to be there and the attempt gives up ...
AddScheduleFails(s) ==
  /\ Move(s, "schedule", "giveup", "none")
  /\ Fault("schedule_fails")
  /\ <<Id(s), Att(s) + 1>> \notin schedule
  /\ UNCHANGED <<tcVars, lock, stream, pending, schedule, scheduler, producer>>

\* ... or neither is known, on_error raises and the message stays pending.
AddScheduleUnknown(s) ==
  /\ slot[s].pc = "schedule"
  /\ Fault("schedule_unknown")
  /\ schedule' \in {schedule, schedule \cup {<<Id(s), Att(s) + 1>>}}
  /\ Leave(s)
  /\ UNCHANGED <<tcVars, lock, stream, pending, scheduler, producer>>

\* Mutant: the record of the outcome is best effort.
FinishBestEffort(s) ==
  /\ Move(s, "finish", "ack", "none")
  /\ \/ RecordFinished(Id(s), Att(s), slot[s].outcome) /\ NoFault
     \/ Superseded(Id(s), Att(s)) /\ UNCHANGED tcVars /\ NoFault
     \/ Fault("required_write_fails") /\ UNCHANGED tcVars
  /\ UNCHANGED <<lock, stream, pending, schedule, scheduler, producer>>

\* Mutant: the outcome reaches only one of the two tables.
FinishTaskOnly(s) ==
  /\ Move(s, "finish", "ack", "none") /\ NoFault
  /\ SetTask(Id(s), NewRow(slot[s].outcome, Att(s)))
  /\ UNCHANGED <<attempt, lock, stream, pending, schedule, scheduler, producer>>

\* post_execute: record_finished is required, a refusal by it is ignored.
Finish(s) ==
  /\ slot[s].pc = "finish"
  /\ \/ /\ RecordFinished(Id(s), Att(s), slot[s].outcome)
        /\ Move(s, "finish", "ack", "none") /\ NoFault
     \/ /\ Superseded(Id(s), Att(s)) /\ UNCHANGED tcVars
        /\ Move(s, "finish", "ack", "none") /\ NoFault
     \/ Fault("required_write_fails") /\ Leave(s) /\ UNCHANGED tcVars
  /\ UNCHANGED <<lock, stream, pending, schedule, scheduler, producer>>

\* XACK, after the result is saved (ack-type when_saved).
Ack(s) ==
  /\ slot[s].pc = "ack"
  /\ pending' = pending \ {slot[s].entry}
  /\ Leave(s)
  /\ NoFault
  /\ UNCHANGED <<tcVars, lock, stream, schedule, scheduler, producer>>

WorkerCrash(s) ==
  /\ slot[s] # Idle
  /\ Fault("worker_crash")
  /\ Leave(s)
  /\ UNCHANGED <<tcVars, lock, stream, pending, schedule, scheduler, producer>>

\* The TTL of the key runs out.  Settings requires it to exceed the hard
\* timeout of an execution, and every claim renews it, so it does not expire
\* under its owner's execution.
LockExpires ==
  /\ lock # NoOwner
  /\ \A s \in Slots : slot[s].pc = "body" => Id(s) # lock
  /\ Fault("lock_expires")
  /\ lock' = NoOwner
  /\ UNCHANGED <<tcVars, stream, pending, schedule, scheduler, producer, slot>>

-----------------------------------------------------------------------------
ProducerNext(t) ==
  \/ Reserve(t) \/ Publish(t) \/ RecordSent(t)
  \/ RollbackLock(t) \/ RollbackRecord(t) \/ RollbackMark(t)

SchedulerNext ==
  \/ \E t \in TaskIds, a \in Attempts : FireRetry(t, a)
  \/ RecordFired \/ DeleteFired

SlotNext(s) ==
  \/ \E e \in stream : Deliver(s, e)
  \/ \E e \in pending : Reclaim(s, e)
  \/ RecordStart(s) \/ Claim(s) \/ Succeed(s) \/ Fail(s) \/ GiveUp(s)
  \/ RecordRetry(s) \/ AddSchedule(s) \/ AddScheduleFails(s) \/ AddScheduleUnknown(s)
  \/ Finish(s) \/ Ack(s)

Next ==
  \/ \E t \in TaskIds : ProducerNext(t) \/ ProducerCrash(t)
  \/ SchedulerNext
  \/ SchedulerCrash
  \/ \E s \in Slots : SlotNext(s) \/ WorkerCrash(s)
  \/ LockExpires

Spec == Init /\ [][Next]_vars

\* A call that has begun is finished by its event loop, each slot consumes
\* and executes (listen reclaims before every read), the scheduler polls.
\* A producer need not call; nothing obliges a failure.
Fairness ==
  /\ \A t \in TaskIds : WF_vars(producer[t] # "new" /\ ProducerNext(t))
  /\ \A s \in Slots : WF_vars(SlotNext(s))
  /\ WF_vars(SchedulerNext)

FairSpec == Spec /\ Fairness

-----------------------------------------------------------------------------
\* Every variable has its type, and a slot that schedules a retry has one left.
TypeOK ==
  /\ lock \in TaskIds \cup {NoOwner}
  /\ stream \subseteq Entry /\ pending \subseteq Entry
  /\ schedule \subseteq Retry
  /\ scheduler \in {SchedulerIdle} \cup ({"sent", "recorded"} \X TaskIds \X Attempts)
  /\ producer \in [TaskIds -> ProducerPC]
  /\ slot \in [Slots -> {Idle} \cup Busy]
  /\ faults \in 0 .. MaxFaults
  /\ \A s \in Slots : slot[s].pc = "schedule" => ~IsFinal(s)

\* Something will still act for the task: the call that enqueues it, an entry
\* of the stream, an execution, a retry that waits or is being fired.
InFlight(t) ==
  \/ producer[t] \notin {"new"} \cup Returned
  \/ \E e \in stream \cup pending : e.id = t
  \/ \E s \in Slots : slot[s] # Idle /\ Id(s) = t
  \/ \E a \in Attempts : <<t, a>> \in schedule
  \/ scheduler # SchedulerIdle /\ scheduler[2] = t

Active == {"queued", "in_progress", "retry_scheduled"}

\* A task shown as queued, in progress or waiting for a retry is backed by
\* something that will move it on (QUEUE_SYSTEM_FIXES.md Q-03: no pseudo
\* queued rows): acknowledging, giving up and refusing late events never
\* leave an active row behind.
ActiveRowsAreBacked ==
  \A t \in TaskIds : task[t].status \in Active => InFlight(t)

\* The key of the target is held only for a task that is still in flight, so
\* a target never refuses new tasks because of one that has ended
\* (QUEUE_SYSTEM_REVIEW.md, Q-01: every terminal outcome releases the lock).
\* It fails under the kinds of failure the run queue_lock leaves out: a key
\* that a lost reservation or a release that is only logged leaves behind
\* stays to its TTL.
LockIsBacked == lock # NoOwner => InFlight(lock)

\* At most one execution of the target at a time.
OneExecutor ==
  \A r, s \in Slots :
    slot[r].pc = "body" /\ slot[s].pc = "body" => r = s

\* A retry is only ever scheduled after its predecessor was recorded as
\* ended, so the tables never show an attempt whose cause they do not know
\* (tasks.py: commit the observable retry state before the schedule).
RetryIsRecordedFirst ==
  \A r \in schedule \cup {<<e.id, e.a>> : e \in stream \cup pending} :
    r[2] > FirstAttempt => attempt[r[1]][r[2] - 1] \in Terminal

\* A completed or failed task is only ever replaced by a higher attempt.
SettledIsFinal == [][\A t \in TaskIds : KeepsSettled(t)]_vars

\* Every task that is enqueued comes to an end: nothing of it is in flight
\* any more and, if it has a row at all, the row is terminal, unless the call
\* that enqueued it failed (its rollback may fail as well).
Ended(t) ==
  /\ ~InFlight(t)
  /\ task[t].status \in Terminal \cup {"none"} \/ producer[t] = "failed"

EveryTaskEnds == \A t \in TaskIds : InFlight(t) ~> Ended(t)
=============================================================================
