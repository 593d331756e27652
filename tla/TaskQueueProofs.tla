-------------------------- MODULE TaskQueueProofs ---------------------------
(***************************************************************************)
(* TaskQueue implements TaskCenter: with any number of tasks, slots and    *)
(* attempts, whatever fails and however often, every step of a producer,   *)
(* of the scheduler or of a worker is one event of the lifecycle tables or *)
(* leaves them alone.  What is proved of TCSpec then holds of the queue.   *)
(* The second half is about the tasks themselves: who knows of a task,     *)
(* what backs its row, who holds the key of its target.  Each theorem      *)
(* names the failures it excludes, and no others.                          *)
(***************************************************************************)
EXTENDS TaskQueue, TaskCenterProofs

\* TypeOK in two parts: the slots, and the variables a slot does not change.
SlotOK ==
  /\ slot \in [Slots -> {Idle} \cup Busy]
  /\ \A s \in Slots : slot[s].pc = "schedule" => ~IsFinal(s)
  /\ \A s \in Slots : slot[s].pc = "finish" => slot[s].outcome \in Settled

SharedOK ==
  /\ lock \in TaskIds \cup {NoOwner}
  /\ stream \subseteq Entry /\ pending \subseteq Entry
  /\ schedule \subseteq Retry
  /\ scheduler \in {SchedulerIdle} \cup ({"sent", "recorded"} \X TaskIds \X Attempts)
  /\ producer \in [TaskIds -> ProducerPC]
  /\ faults \in 0 .. MaxFaults

\* The inductive invariant: TypeOK, and a slot that records an outcome has one.
QInv == SharedOK /\ SlotOK

-----------------------------------------------------------------------------
\* Helpers: what the operators shared by the actions preserve.

\* The attempt a producer publishes.
LEMMA FirstIsAttempt == FirstAttempt \in Attempts
BY MaxAttemptAssumption DEF FirstAttempt, Attempts

\* The failure counter stays within its bound.
LEMMA FaultOK ==
  ASSUME faults \in 0 .. MaxFaults, NEW kind, Fault(kind) \/ NoFault
  PROVE  faults' \in 0 .. MaxFaults
BY QueueAssumption DEF Fault, NoFault

\* XADD adds an entry.
LEMMA AddEntryOK ==
  ASSUME stream \subseteq Entry, NEW t \in TaskIds, NEW a \in Attempts, AddEntry(t, a)
  PROVE  stream' \subseteq Entry
BY DEF AddEntry, Entry

\* Replacing what one slot does keeps SlotOK if the new content is right.
LEMMA SlotSet ==
  ASSUME SlotOK, NEW s \in Slots, NEW b \in {Idle} \cup Busy,
         slot' = [slot EXCEPT ![s] = b],
         b.pc = "schedule" => b.entry.a # MaxAttempt,
         b.pc = "finish" => b.outcome \in Settled
  PROVE  SlotOK'
<1>1. slot' \in [Slots -> {Idle} \cup Busy]
  BY DEF SlotOK
<1>2. \A r \in Slots : slot'[r] = IF r = s THEN b ELSE slot[r]
  BY DEF SlotOK
<1>3. QED
  BY <1>1, <1>2 DEF SlotOK, IsFinal, Att

\* Giving a slot up keeps SlotOK.
LEMMA LeaveOK ==
  ASSUME SlotOK, NEW s \in Slots, Leave(s)
  PROVE  SlotOK'
<1>1. Idle.pc # "schedule" /\ Idle.pc # "finish"
  BY DEF Idle
<1>2. QED
  BY <1>1, SlotSet DEF Leave

\* So does taking an entry, ...
LEMMA TakeOK ==
  ASSUME SlotOK, NEW s \in Slots, NEW e \in Entry, Take(s, e)
  PROVE  SlotOK'
<1> DEFINE b == [pc |-> "started", entry |-> e, outcome |-> "none"]
<1>1. b \in Busy
  BY DEF Busy, SlotPC
<1>2. b.pc # "schedule" /\ b.pc # "finish"
  OBVIOUS
<1>3. slot' = [slot EXCEPT ![s] = b]
  BY DEF Take
<1> HIDE DEF b
<1>4. QED
  BY <1>1, <1>2, <1>3, SlotSet

\* A busy slot executes an entry.
LEMMA BusySlot ==
  ASSUME SlotOK, NEW s \in Slots, slot[s].pc # "idle"
  PROVE  /\ slot[s] \in Busy /\ slot[s].entry \in Entry
         /\ Id(s) \in TaskIds /\ Att(s) \in Attempts
<1>1. slot[s] \in Busy
  BY DEF SlotOK, Idle
<1>2. slot[s].entry \in Entry
  BY <1>1 DEF Busy
<1>3. QED
  BY <1>1, <1>2 DEF Id, Att, Entry

\* ... and moving on, to "schedule" only with a retry left, to "finish" only
\* with an outcome.
LEMMA MoveOK ==
  ASSUME SlotOK, NEW s \in Slots, NEW from \in SlotPC, NEW to \in SlotPC,
         NEW outcome \in Settled \cup {"none"}, Move(s, from, to, outcome),
         to = "schedule" => ~IsFinal(s),
         to = "finish" => outcome \in Settled
  PROVE  SlotOK'
<1> DEFINE b == [pc |-> to, entry |-> slot[s].entry, outcome |-> outcome]
<1>1. slot[s].entry \in Entry
  BY BusySlot DEF Move, SlotPC
<1>2. b \in Busy
  BY <1>1 DEF Busy
<1>3. b.pc = to /\ b.entry = slot[s].entry /\ b.outcome = outcome
  OBVIOUS
<1>4. slot' = [slot EXCEPT ![s] = b]
  BY DEF Move
<1>5. b.pc = "schedule" => b.entry.a # MaxAttempt
  BY <1>3 DEF IsFinal, Att
<1> HIDE DEF b
<1>6. QED
  BY <1>2, <1>3, <1>4, <1>5, SlotSet

\* Releasing the key, whoever owns it, leaves it free or owned by a task.
LEMMA ReleaseOK ==
  ASSUME lock \in TaskIds \cup {NoOwner}, NEW t, ReleaseLock(t) \/ UNCHANGED lock
  PROVE  lock' \in TaskIds \cup {NoOwner}
BY DEF ReleaseLock

\* So does a release that raises, and it is a failure.
LEMMA RaisesOK ==
  ASSUME SharedOK, NEW t, NEW kind, ReleaseRaises(t, kind)
  PROVE  lock' \in TaskIds \cup {NoOwner} /\ faults' \in 0 .. MaxFaults
BY FaultOK, ReleaseOK DEF ReleaseRaises, SharedOK

-----------------------------------------------------------------------------
\* The producers keep the invariant, and each step of theirs is one event of
\* the tables or none.
LEMMA ProducerStep ==
  ASSUME QInv, NEW t \in TaskIds, ProducerNext(t) \/ ProducerCrash(t)
  PROVE  QInv' /\ [TCNext]_tcVars
<1> USE DEF QInv
<1>s. UNCHANGED slot => SlotOK'
  BY DEF SlotOK, IsFinal, Att
<1>p. \A to \in ProducerPC : producer' = [producer EXCEPT ![t] = to]
                              => producer' \in [TaskIds -> ProducerPC]
  BY DEF SharedOK
<1>1. CASE Reserve(t)
  <2>1. SharedOK'
    BY <1>1, <1>p, FaultOK DEF Reserve, SetProducer, SharedOK, ProducerPC
  <2>2. QED
    BY <1>1, <1>s, <2>1 DEF Reserve
<1>2. CASE Publish(t)
  <2>1. stream' \subseteq Entry
    BY <1>2, FirstIsAttempt, AddEntryOK DEF Publish, SharedOK
  <2>2. producer' \in [TaskIds -> ProducerPC]
    BY <1>2, <1>p DEF Publish, SetProducer, ProducerPC
  <2>3. faults' \in 0 .. MaxFaults
    BY <1>2, FaultOK DEF Publish, SharedOK
  <2>4. SharedOK'
    BY <1>2, <2>1, <2>2, <2>3 DEF Publish, SharedOK
  <2>5. QED
    BY <1>2, <1>s, <2>4 DEF Publish
<1>3. CASE RecordSent(t)
  <2>1. SharedOK'
    BY <1>3, <1>p, FaultOK DEF RecordSent, BestEffort, SetProducer, SharedOK, ProducerPC
  <2>2. [TCNext]_tcVars
    BY <1>3, FirstIsAttempt DEF RecordSent, BestEffort, TCNext
  <2>3. QED
    BY <1>3, <1>s, <2>1, <2>2 DEF RecordSent
<1>4. CASE RollbackLock(t)
  <2>1. SharedOK'
    BY <1>4, <1>p, FaultOK, ReleaseOK, RaisesOK DEF RollbackLock, SetProducer, SharedOK, ProducerPC
  <2>2. QED
    BY <1>4, <1>s, <2>1 DEF RollbackLock
<1>5. CASE RollbackRecord(t)
  <2>1. SharedOK'
    BY <1>5, <1>p, FaultOK DEF RollbackRecord, SetProducer, SharedOK, ProducerPC
  <2>2. [TCNext]_tcVars
    BY <1>5, FirstIsAttempt DEF RollbackRecord, TCNext
  <2>3. QED
    BY <1>5, <1>s, <2>1, <2>2 DEF RollbackRecord
<1>6. CASE RollbackMark(t)
  <2>1. SharedOK'
    BY <1>6, <1>p, FaultOK DEF RollbackMark, SetProducer, SharedOK, ProducerPC
  <2>2. [TCNext]_tcVars
    BY <1>6 DEF RollbackMark, TCNext
  <2>3. QED
    BY <1>6, <1>s, <2>1, <2>2 DEF RollbackMark
<1>7. CASE ProducerCrash(t)
  <2>1. SharedOK'
    BY <1>7, <1>p, FaultOK DEF ProducerCrash, SharedOK, ProducerPC
  <2>2. QED
    BY <1>7, <1>s, <2>1 DEF ProducerCrash
<1>8. QED
  BY <1>1, <1>2, <1>3, <1>4, <1>5, <1>6, <1>7 DEF ProducerNext

\* What the scheduler is doing names a task and an attempt.
LEMMA SchedulerWork ==
  ASSUME SharedOK, scheduler[1] \in {"sent", "recorded"}
  PROVE  scheduler[2] \in TaskIds /\ scheduler[3] \in Attempts
BY DEF SharedOK, SchedulerIdle

\* The scheduler and the expiry of the key.
LEMMA SchedulerStep ==
  ASSUME QInv, SchedulerNext \/ SchedulerCrash \/ LockExpires
  PROVE  QInv' /\ [TCNext]_tcVars
<1> USE DEF QInv
<1>s. UNCHANGED slot => SlotOK'
  BY DEF SlotOK, IsFinal, Att
<1>1. ASSUME NEW t \in TaskIds, NEW a \in Attempts, FireRetry(t, a)
      PROVE  QInv' /\ [TCNext]_tcVars
  <2>1. stream' \subseteq Entry
    BY <1>1, AddEntryOK DEF FireRetry, SharedOK
  <2>2. SharedOK'
    BY <1>1, <2>1, FaultOK DEF FireRetry, SharedOK
  <2>3. QED
    BY <1>1, <1>s, <2>2 DEF FireRetry
<1>2. CASE RecordFired
  <2>1. scheduler[2] \in TaskIds /\ scheduler[3] \in Attempts
    BY <1>2, SchedulerWork DEF RecordFired
  <2>2. SharedOK'
    BY <1>2, <2>1, FaultOK DEF RecordFired, BestEffort, SharedOK
  <2>3. [TCNext]_tcVars
    BY <1>2, <2>1 DEF RecordFired, BestEffort, TCNext
  <2>4. QED
    BY <1>2, <1>s, <2>2, <2>3 DEF RecordFired
<1>3. CASE DeleteFired
  <2>1. SharedOK'
    BY <1>3, FaultOK DEF DeleteFired, SharedOK
  <2>2. QED
    BY <1>3, <1>s, <2>1 DEF DeleteFired
<1>4. CASE SchedulerCrash
  <2>1. SharedOK'
    BY <1>4, FaultOK DEF SchedulerCrash, SharedOK
  <2>2. QED
    BY <1>4, <1>s, <2>1 DEF SchedulerCrash
<1>5. CASE LockExpires
  <2>1. SharedOK'
    BY <1>5, FaultOK DEF LockExpires, SharedOK
  <2>2. QED
    BY <1>5, <1>s, <2>1 DEF LockExpires
<1>6. QED
  BY <1>1, <1>2, <1>3, <1>4, <1>5 DEF SchedulerNext

-----------------------------------------------------------------------------
\* The workers: an entry is taken ...
LEMMA TakeStep ==
  ASSUME QInv, NEW s \in Slots, NEW e \in Entry, Deliver(s, e) \/ Reclaim(s, e)
  PROVE  QInv' /\ UNCHANGED tcVars
<1> USE DEF QInv
<1>1. SlotOK'
  BY TakeOK DEF Deliver, Reclaim
<1>2. faults' \in 0 .. MaxFaults
  BY FaultOK DEF Deliver, Reclaim, SharedOK
<1>3. SharedOK'
  BY <1>2 DEF Deliver, Reclaim, SharedOK
<1>4. QED
  BY <1>1, <1>3 DEF Deliver, Reclaim

\* ... executed, ...
LEMMA ExecuteStep ==
  ASSUME QInv, NEW s \in Slots,
         RecordStart(s) \/ Claim(s) \/ Succeed(s) \/ Fail(s) \/ GiveUp(s)
  PROVE  QInv' /\ [TCNext]_tcVars
<1> USE DEF QInv
<1>0. /\ {"started", "claim", "body", "error", "giveup", "finish"} \subseteq SlotPC
      /\ {"completed", "failure"} \subseteq Settled
      /\ "none" \in Settled \cup {"none"}
  BY DEF SlotPC, Settled
<1>1. CASE RecordStart(s)
  <2>1. Id(s) \in TaskIds /\ Att(s) \in Attempts
    BY <1>1, BusySlot DEF RecordStart, Move
  <2>2. SlotOK'
    BY <1>1, <1>0, MoveOK DEF RecordStart
  <2>3. SharedOK'
    BY <1>1, FaultOK DEF RecordStart, BestEffort, SharedOK
  <2>4. [TCNext]_tcVars
    BY <1>1, <2>1 DEF RecordStart, BestEffort, TCNext
  <2>5. QED
    BY <2>2, <2>3, <2>4
<1>2. CASE Claim(s)
  <2>1. Id(s) \in TaskIds
    BY <1>2, BusySlot DEF Claim, Move
  <2>2. SlotOK'
    BY <1>2, <1>0, MoveOK DEF Claim
  <2>3. SharedOK'
    BY <1>2, <2>1, FaultOK DEF Claim, SharedOK
  <2>4. QED
    BY <1>2, <2>2, <2>3 DEF Claim
<1>3. CASE Succeed(s)
  <2>1. SlotOK'
    BY <1>3, <1>0, MoveOK DEF Succeed
  <2>2. SharedOK'
    BY <1>3, FaultOK, ReleaseOK, RaisesOK DEF Succeed, SharedOK
  <2>3. QED
    BY <1>3, <2>1, <2>2 DEF Succeed
<1>4. CASE Fail(s)
  <2>1. SlotOK'
    BY <1>4, <1>0, MoveOK DEF Fail
  <2>2. SharedOK'
    BY <1>4, FaultOK, ReleaseOK, RaisesOK DEF Fail, SharedOK
  <2>3. QED
    BY <1>4, <2>1, <2>2 DEF Fail
<1>5. CASE GiveUp(s)
  <2>1. SlotOK'
    BY <1>5, <1>0, MoveOK DEF GiveUp
  <2>2. SharedOK'
    BY <1>5, FaultOK, ReleaseOK, RaisesOK DEF GiveUp, ReleaseFailedRetry, SharedOK
  <2>3. QED
    BY <1>5, <2>1, <2>2 DEF GiveUp
<1>6. QED
  BY <1>1, <1>2, <1>3, <1>4, <1>5

\* ... retried, recorded, acknowledged or lost.
LEMMA SettleStep ==
  ASSUME QInv, NEW s \in Slots,
         \/ RecordRetry(s) \/ AddSchedule(s) \/ AddScheduleFails(s)
         \/ AddScheduleUnknown(s) \/ Finish(s) \/ Ack(s) \/ WorkerCrash(s)
  PROVE  QInv' /\ [TCNext]_tcVars
<1> USE DEF QInv
<1>0. /\ {"error", "schedule", "giveup", "finish", "ack"} \subseteq SlotPC
      /\ "none" \in Settled \cup {"none"}
  BY DEF SlotPC, Settled
<1>r. slot[s].pc = "schedule" => <<Id(s), Att(s) + 1>> \in Retry
  <2>1. SUFFICES ASSUME slot[s].pc = "schedule" PROVE <<Id(s), Att(s) + 1>> \in Retry
    OBVIOUS
  <2>2. Id(s) \in TaskIds /\ Att(s) \in Attempts /\ Att(s) # MaxAttempt
    BY <2>1, BusySlot DEF SlotOK, IsFinal
  <2>3. QED
    BY <2>2, MaxAttemptAssumption DEF Retry, Attempts
<1>1. CASE RecordRetry(s)
  <2>1. Id(s) \in TaskIds /\ Att(s) \in Attempts
    BY <1>1, BusySlot DEF RecordRetry
  <2>2. SlotOK'
    BY <1>1, <1>0, MoveOK, LeaveOK DEF RecordRetry
  <2>3. SharedOK'
    BY <1>1, FaultOK DEF RecordRetry, SharedOK
  <2>4. [TCNext]_tcVars
    BY <1>1, <2>1 DEF RecordRetry, TCNext
  <2>5. QED
    BY <2>2, <2>3, <2>4
<1>2. CASE AddSchedule(s)
  <2>1. SlotOK'
    BY <1>2, <1>0, MoveOK DEF AddSchedule
  <2>2. SharedOK'
    BY <1>2, <1>r, FaultOK DEF AddSchedule, Move, SharedOK
  <2>3. QED
    BY <1>2, <2>1, <2>2 DEF AddSchedule
<1>3. CASE AddScheduleFails(s)
  <2>1. SlotOK'
    BY <1>3, <1>0, MoveOK DEF AddScheduleFails
  <2>2. SharedOK'
    BY <1>3, FaultOK DEF AddScheduleFails, SharedOK
  <2>3. QED
    BY <1>3, <2>1, <2>2 DEF AddScheduleFails
<1>4. CASE AddScheduleUnknown(s)
  <2>1. SlotOK'
    BY <1>4, LeaveOK DEF AddScheduleUnknown
  <2>2. SharedOK'
    BY <1>4, <1>r, FaultOK DEF AddScheduleUnknown, SharedOK
  <2>3. QED
    BY <1>4, <2>1, <2>2 DEF AddScheduleUnknown
<1>5. CASE Finish(s)
  <2>1. Id(s) \in TaskIds /\ Att(s) \in Attempts /\ slot[s].outcome \in Settled
    BY <1>5, BusySlot DEF Finish, SlotOK
  <2>2. SlotOK'
    BY <1>5, <1>0, MoveOK, LeaveOK DEF Finish
  <2>3. SharedOK'
    BY <1>5, FaultOK DEF Finish, SharedOK
  <2>4. [TCNext]_tcVars
    BY <1>5, <2>1 DEF Finish, TCNext
  <2>5. QED
    BY <2>2, <2>3, <2>4
<1>6. CASE Ack(s)
  <2>1. SlotOK'
    BY <1>6, LeaveOK DEF Ack
  <2>2. SharedOK'
    BY <1>6, FaultOK DEF Ack, SharedOK
  <2>3. QED
    BY <1>6, <2>1, <2>2 DEF Ack
<1>7. CASE WorkerCrash(s)
  <2>1. SlotOK'
    BY <1>7, LeaveOK DEF WorkerCrash
  <2>2. SharedOK'
    BY <1>7, FaultOK DEF WorkerCrash, SharedOK
  <2>3. QED
    BY <1>7, <2>1, <2>2 DEF WorkerCrash
<1>8. QED
  BY <1>1, <1>2, <1>3, <1>4, <1>5, <1>6, <1>7

-----------------------------------------------------------------------------
\* The initial states satisfy the invariant.
LEMMA InitQInv == Init => QInv
<1> SUFFICES ASSUME Init PROVE QInv
  OBVIOUS
<1>1. SharedOK
  BY QueueAssumption DEF Init, SharedOK, ProducerPC
<1>2. SlotOK
  BY DEF Init, SlotOK, Idle
<1>3. QED
  BY <1>1, <1>2 DEF QInv

\* Every step keeps the invariant and is an event of the tables or none.
LEMMA NextQInv == QInv /\ [Next]_vars => QInv' /\ [TCNext]_tcVars
<1> SUFFICES ASSUME QInv, [Next]_vars PROVE QInv' /\ [TCNext]_tcVars
  OBVIOUS
<1>1. CASE \E t \in TaskIds : ProducerNext(t) \/ ProducerCrash(t)
  BY <1>1, ProducerStep
<1>2. CASE SchedulerNext \/ SchedulerCrash \/ LockExpires
  BY <1>2, SchedulerStep
<1>3. ASSUME NEW s \in Slots, SlotNext(s) \/ WorkerCrash(s)
      PROVE  QInv' /\ [TCNext]_tcVars
  <2>1. stream \subseteq Entry /\ pending \subseteq Entry
    BY DEF QInv, SharedOK
  <2>2. CASE \/ \E e \in stream : Deliver(s, e)
             \/ \E e \in pending : Reclaim(s, e)
    BY <2>1, <2>2, TakeStep
  <2>3. CASE RecordStart(s) \/ Claim(s) \/ Succeed(s) \/ Fail(s) \/ GiveUp(s)
    BY <2>3, ExecuteStep
  <2>4. CASE \/ RecordRetry(s) \/ AddSchedule(s) \/ AddScheduleFails(s)
             \/ AddScheduleUnknown(s) \/ Finish(s) \/ Ack(s) \/ WorkerCrash(s)
    BY <2>4, SettleStep
  <2>5. QED
    BY <1>3, <2>2, <2>3, <2>4 DEF SlotNext
<1>4. CASE UNCHANGED vars
  BY <1>4 DEF vars, queueVars, tcVars, QInv, SharedOK, SlotOK, IsFinal, Att
<1>5. QED
  BY <1>1, <1>2, <1>3, <1>4 DEF Next

\* The invariant contains the type invariant that the runs check.
LEMMA QInvTypeOK == QInv => TypeOK
BY DEF QInv, SharedOK, SlotOK, TypeOK

\* Type correctness of the queue, and: no retry is scheduled after the last
\* attempt (max_retries), whatever crashes and is redelivered.
THEOREM QueueTyping == Spec => []TypeOK
BY InitQInv, NextQInv, QInvTypeOK, PTL DEF Spec

\* The queue implements the lifecycle tables: every step of any process is
\* one transaction of task_center.py on one task or leaves the tables alone.
THEOREM QueueRefinesTables == Spec => TCSpec
<1>1. Init => TCInit
  BY DEF Init
<1>2. QED
  BY <1>1, InitQInv, NextQInv, PTL DEF Spec, TCSpec

\* Hence, in every run of the queue, a settled row changes only by a higher
\* attempt or by the mark of a failed publication, and attempts go forward.
THEOREM QueueSettled == Spec => SettledOnlyAdvances /\ AttemptNeverDecreases
BY QueueRefinesTables, TCSettled, TCMonotone, PTL

\* Hence the two tables agree in every state of the queue.
THEOREM QueueTablesAgree ==
  Spec => [](CurrentIsNewest /\ RowMatchesAttempt /\ RetryHasDeadline)
BY QueueRefinesTables, TCSafety, PTL

-----------------------------------------------------------------------------
(***************************************************************************)
(* What the queue promises of a task depends on the failures that may      *)
(* happen.  Under NoReplyLost a call that publishes knows whether the      *)
(* entry was added: what it takes back never reached a worker.             *)
(***************************************************************************)
NoReplyLost == "publish_reply_lost" \notin FaultKinds

Entries == stream \cup pending

\* No part of the queue knows of the task.
Quiet(t) ==
  /\ \A e \in Entries : e.id # t
  /\ \A s \in Slots : slot[s] # Idle => Id(s) # t
  /\ \A r \in schedule : r[1] # t
  /\ scheduler # SchedulerIdle => scheduler[2] # t

\* A call that has not published, or takes its publication back, is alone with
\* its task, whose row tells only what the call itself has written.
Alone(t) ==
  /\ producer[t] \notin {"sent", "done"} => Quiet(t) /\ task[t].status \notin Settled
  /\ producer[t] \in {"new", "reserved", "refused", "rollback"} => task[t] = NoTask
  /\ task[t].status = "abandoned" => producer[t] = "failed"

QuietInv == \A t \in TaskIds : Alone(t)

\* What a step does to the slots.
LEMMA SlotView ==
  ASSUME SlotOK, NEW s \in Slots
  PROVE  /\ slot[s] # Idle <=> slot[s].pc # "idle"
         /\ \A from, to, outcome : Move(s, from, to, outcome) =>
              /\ slot[s].pc = from /\ slot'[s].pc = to /\ slot'[s].entry = slot[s].entry
              /\ slot'[s].outcome = outcome
              /\ \A r \in Slots : r # s => slot'[r] = slot[r]
         /\ Leave(s) => slot'[s] = Idle /\ \A r \in Slots : r # s => slot'[r] = slot[r]
         /\ \A e : Take(s, e) =>
              /\ slot'[s].pc = "started" /\ slot'[s].entry = e
              /\ \A r \in Slots : r # s => slot'[r] = slot[r]
<1>1. slot[s] # Idle <=> slot[s].pc # "idle"
  BY DEF SlotOK, Idle, Busy, SlotPC
<1>2. ASSUME NEW from, NEW to, NEW outcome, Move(s, from, to, outcome)
      PROVE  /\ slot[s].pc = from /\ slot'[s].pc = to /\ slot'[s].entry = slot[s].entry
             /\ slot'[s].outcome = outcome
             /\ \A r \in Slots : r # s => slot'[r] = slot[r]
  BY <1>2 DEF Move, SlotOK
<1>3. Leave(s) => slot'[s] = Idle /\ \A r \in Slots : r # s => slot'[r] = slot[r]
  BY DEF Leave, SlotOK
<1>4. ASSUME NEW e, Take(s, e)
      PROVE  /\ slot'[s].pc = "started" /\ slot'[s].entry = e
             /\ \A r \in Slots : r # s => slot'[r] = slot[r]
  BY <1>4 DEF Take, SlotOK
<1>5. QED
  BY <1>1, <1>2, <1>3, <1>4

-----------------------------------------------------------------------------
\* The queue's own invariant together with the one of the tables.
QTInv == QInv /\ TCInv

\* Both hold initially, ...
LEMMA InitQTInv == Init => QTInv
BY InitQInv, InitTCInv DEF Init, QTInv

\* ... and every step keeps them.
LEMMA NextQTInv == QTInv /\ [Next]_vars => QTInv' /\ [TCNext]_tcVars
BY NextQInv, NextTCInv DEF QTInv

\* The tables do not know an attempt as late as a.
NewAttempt(t, a) == ~Exists(t) \/ task[t].cur < a

\* An event of one attempt leaves the other tasks alone, and the outcomes
\* already recorded.
LEMMA EventTouchesOne ==
  ASSUME TCInv, NEW t \in TaskIds, NEW a \in Attempts,
         \/ RecordQueued(t, a) \/ RecordStarted(t, a) \/ RecordRetryScheduled(t, a)
         \/ \E o \in Settled : RecordFinished(t, a, o)
  PROVE  /\ \A u \in TaskIds : u # t => task'[u] = task[u] /\ attempt'[u] = attempt[u]
         /\ \A b \in Attempts : attempt[t][b] \in Settled => attempt'[t][b] \in Settled
<1> USE DEF TCInv, TCTypeOK
<1>1. ASSUME NEW row, SetTask(t, row)
      PROVE  \A u \in TaskIds : u # t => task'[u] = task[u]
  BY <1>1 DEF SetTask
<1>2. ASSUME NEW status, SetAttempt(t, a, status), attempt[t][a] \in Settled => status \in Settled
      PROVE  /\ \A u \in TaskIds : u # t => attempt'[u] = attempt[u]
             /\ \A b \in Attempts : attempt[t][b] \in Settled => attempt'[t][b] \in Settled
  BY <1>2 DEF SetAttempt
<1>3. CASE RecordQueued(t, a)
  BY <1>1, <1>2, <1>3 DEF RecordQueued, Settled
<1>4. CASE RecordStarted(t, a)
  BY <1>1, <1>2, <1>4 DEF RecordStarted
<1>5. CASE RecordRetryScheduled(t, a)
  BY <1>1, <1>2, <1>5 DEF RecordRetryScheduled, Settled
<1>6. CASE \E o \in Settled : RecordFinished(t, a, o)
  BY <1>1, <1>2, <1>6 DEF RecordFinished
<1>7. QED
  BY <1>3, <1>4, <1>5, <1>6

\* A row with a current attempt exists.
LEMMA RowExists ==
  ASSUME NEW t \in TaskIds, task'[t].cur \in Attempts
  PROVE  Exists(t)'
<1>1. NoTask.cur = 0 /\ 0 \notin Attempts
  BY MaxAttemptAssumption DEF NoTask, Attempts
<1>2. QED
  BY <1>1 DEF Exists

\* The row of a task after record_queued, ...
LEMMA QueuedRowAfter ==
  ASSUME TCInv, NEW t \in TaskIds, NEW a \in Attempts, RecordQueued(t, a)
  PROVE  /\ Exists(t)'
         /\ NewAttempt(t, a) => task'[t].status = "queued" /\ task'[t].cur = a
         /\ ~NewAttempt(t, a) =>
              /\ task'[t].cur = task[t].cur
              /\ \/ task'[t].status = task[t].status
                 \/ /\ task[t].status \in {"queued", "retry_scheduled", "abandoned"}
                    /\ task'[t].status = "queued"
<1>1. task'[t] = QueuedRow(Ensured(t, a), a)
  BY DEF RecordQueued, SetTask, TCInv, TCTypeOK
<1>2. TCInv'
  BY RecordQueuedInv
<1>3. Exists(t) => task[t].cur \in Attempts /\ task[t] \in Row
  BY DEF TCInv, TCTypeOK, CurrentIsNewest
<1>4. CASE ~Exists(t)
  <2>1. task'[t] = QueuedRow(NewRow("queued", a), a)
    BY <1>1, <1>4, EnsuredRow
  <2>2. task'[t].cur = a /\ task'[t].status = "queued"
    BY <2>1, MaxAttemptAssumption DEF QueuedRow, NewRow, Attempts, Settled
  <2>3. QED
    BY <1>4, <2>2, RowExists DEF NewAttempt
<1>5. CASE Exists(t) /\ task[t].cur < a
  BY <1>1, <1>3, <1>5, MaxAttemptAssumption DEF QueuedRow, Ensured, NewRow, NewAttempt, Exists, NoTask, Attempts
<1>6. CASE Exists(t) /\ task[t].cur > a
  BY <1>1, <1>3, <1>6, MaxAttemptAssumption DEF QueuedRow, Ensured, NewRow, NewAttempt, Exists, Attempts
<1>7. CASE Exists(t) /\ task[t].cur = a
  <2>1. task'[t] = QueuedRow(task[t], a)
    BY <1>1, <1>7 DEF Ensured
  <2>2. task'[t].cur = a
    BY <1>3, <1>7, <2>1, MaxAttemptAssumption DEF QueuedRow, NewRow, Attempts, Row
  <2>3. \/ task'[t].status = task[t].status
        \/ /\ task[t].status \in {"queued", "retry_scheduled", "abandoned"}
           /\ task'[t].status = "queued"
    BY <1>3, <1>7, <2>1, MaxAttemptAssumption DEF QueuedRow, NewRow, Attempts, Row
  <2>4. ~NewAttempt(t, a)
    BY <1>7, MaxAttemptAssumption DEF NewAttempt, Attempts
  <2>5. QED
    BY <1>7, <2>2, <2>3, <2>4, RowExists
<1>8. QED
  BY <1>3, <1>4, <1>5, <1>6, <1>7, MaxAttemptAssumption DEF Attempts

\* ... after record_started, ...
LEMMA StartedRowAfter ==
  ASSUME TCInv, NEW t \in TaskIds, NEW a \in Attempts, RecordStarted(t, a)
  PROVE  /\ Exists(t)'
         /\ NewAttempt(t, a) => task'[t].status = "in_progress" /\ task'[t].cur = a
         /\ ~NewAttempt(t, a) =>
              /\ task'[t].cur = task[t].cur
              /\ \/ task'[t].status = task[t].status
                 \/ task[t].status \notin Settled /\ task'[t].status = "in_progress"
<1>1. task'[t] = StartedRow(Ensured(t, a), a)
  BY DEF RecordStarted, SetTask, TCInv, TCTypeOK
<1>3. Exists(t) => task[t].cur \in Attempts /\ task[t] \in Row
  BY DEF TCInv, TCTypeOK, CurrentIsNewest
<1>4. CASE ~Exists(t)
  <2>1. task'[t] = StartedRow(NewRow("queued", a), a)
    BY <1>1, <1>4, EnsuredRow
  <2>2. task'[t].cur = a /\ task'[t].status = "in_progress"
    BY <2>1, MaxAttemptAssumption DEF StartedRow, NewRow, Attempts, Settled
  <2>3. QED
    BY <1>4, <2>2, RowExists DEF NewAttempt
<1>5. CASE Exists(t) /\ task[t].cur < a
  BY <1>1, <1>3, <1>5, MaxAttemptAssumption DEF StartedRow, Ensured, NewRow, NewAttempt, Exists, NoTask, Attempts
<1>6. CASE Exists(t) /\ task[t].cur > a
  BY <1>1, <1>3, <1>6, MaxAttemptAssumption DEF StartedRow, Ensured, NewRow, NewAttempt, Exists, Attempts
<1>7. CASE Exists(t) /\ task[t].cur = a
  <2>1. task'[t] = StartedRow(task[t], a)
    BY <1>1, <1>7 DEF Ensured
  <2>2. task'[t].cur = a
    BY <1>3, <1>7, <2>1, MaxAttemptAssumption DEF StartedRow, NewRow, Attempts, Row
  <2>3. \/ task'[t].status = task[t].status
        \/ task[t].status \notin Settled /\ task'[t].status = "in_progress"
    BY <1>3, <1>7, <2>1, MaxAttemptAssumption DEF StartedRow, NewRow, Attempts, Row
  <2>4. ~NewAttempt(t, a)
    BY <1>7, MaxAttemptAssumption DEF NewAttempt, Attempts
  <2>5. QED
    BY <1>7, <2>2, <2>3, <2>4, RowExists
<1>8. QED
  BY <1>3, <1>4, <1>5, <1>6, <1>7, MaxAttemptAssumption DEF Attempts

\* ... and after the two events that end an attempt.
LEMMA EndedRowAfter ==
  ASSUME TCInv, NEW t \in TaskIds, NEW a \in Attempts, NEW o \in Settled,
         RecordRetryScheduled(t, a) \/ RecordFinished(t, a, o)
  PROVE  /\ ~Superseded(t, a)
         /\ Exists(t)' /\ task'[t].cur = a
         /\ RecordRetryScheduled(t, a) => task'[t].status = "retry_scheduled" /\ attempt'[t][a] \in Settled
         /\ RecordFinished(t, a, o) => task'[t].status = o
<1> USE DEF TCInv, TCTypeOK
<1>1. CASE RecordRetryScheduled(t, a)
  BY <1>1, MaxAttemptAssumption DEF RecordRetryScheduled, SetTask, SetAttempt, Exists, NoTask, Attempts, Settled, RecordFinished
<1>2. CASE RecordFinished(t, a, o)
  BY <1>2, MaxAttemptAssumption DEF RecordFinished, SetTask, Exists, NoTask, Attempts, Settled, RecordRetryScheduled
<1>3. QED
  BY <1>1, <1>2

-----------------------------------------------------------------------------
\* A call touches no other task.
LEMMA ProducerOthers ==
  ASSUME QTInv, NEW t \in TaskIds, ProducerNext(t) \/ ProducerCrash(t), NEW u \in TaskIds, u # t
  PROVE  /\ producer'[u] = producer[u] /\ task'[u] = task[u]
         /\ \A e \in Entries' : e \in Entries \/ e.id = t
         /\ Entries \subseteq Entries' /\ pending' = pending
         /\ UNCHANGED <<slot, schedule, scheduler>>
<1> USE DEF QTInv, QInv, SharedOK
<1>1. producer'[u] = producer[u]
  BY DEF ProducerNext, Reserve, Publish, RecordSent, RollbackLock, RollbackRecord, RollbackMark,
         ProducerCrash, SetProducer
<1>2. task'[u] = task[u]
  <2>1. RecordQueued(t, FirstAttempt) => task'[u] = task[u]
    BY FirstIsAttempt, EventTouchesOne
  <2>2. MarkPublishFailed(t, FirstAttempt) => task'[u] = task[u]
    BY DEF MarkPublishFailed, TCInv, TCTypeOK
  <2>3. QED
    BY <2>1, <2>2 DEF ProducerNext, Reserve, Publish, RecordSent, RollbackLock, RollbackRecord, RollbackMark,
         ProducerCrash, SetProducer, BestEffort, tcVars
<1>3. AddEntry(t, FirstAttempt) => stream \subseteq stream' /\ \A e \in stream' : e \in stream \/ e.id = t
  BY DEF AddEntry
<1>4. /\ \A e \in Entries' : e \in Entries \/ e.id = t
      /\ Entries \subseteq Entries' /\ pending' = pending
  BY <1>3 DEF ProducerNext, Reserve, Publish, RecordSent, RollbackLock, RollbackRecord, RollbackMark,
         ProducerCrash, Entries
<1>5. UNCHANGED <<slot, schedule, scheduler>>
  BY DEF ProducerNext, Reserve, Publish, RecordSent, RollbackLock, RollbackRecord, RollbackMark,
         ProducerCrash
<1>6. QED
  BY <1>1, <1>2, <1>4, <1>5

\* The calls keep the invariant.
LEMMA ProducerQuiet ==
  ASSUME NoReplyLost, QTInv, QuietInv, NEW t \in TaskIds, ProducerNext(t) \/ ProducerCrash(t),
         NEW u \in TaskIds
  PROVE  Alone(u)'
<1> USE DEF QTInv, QInv, SharedOK
<1>a. Alone(u)
  BY DEF QuietInv, Alone
<1>1. CASE u # t
  <2>1. UNCHANGED <<slot, schedule, scheduler>> /\ producer'[u] = producer[u] /\ task'[u] = task[u]
    BY <1>1, ProducerOthers
  <2>2. Quiet(u) => Quiet(u)'
    BY <1>1, <2>1, ProducerOthers DEF Quiet, Id
  <2>3. QED
    BY <1>a, <2>1, <2>2 DEF Alone
<1>2. CASE u = t
  <2>s. ASSUME NEW to \in ProducerPC, producer' = [producer EXCEPT ![u] = to]
        PROVE  producer'[u] = to
    BY <2>s
  <2>k. UNCHANGED <<stream, pending, slot, schedule, scheduler>> /\ Quiet(u) => Quiet(u)'
    BY DEF Quiet, Entries, Id
  <2>1. CASE Reserve(u)
    BY <2>1, <2>s, <2>k, <1>a DEF Reserve, SetProducer, Alone, ProducerPC, tcVars, NoTask, Settled
  <2>2. CASE Publish(u)
    <3>1. producer[u] = "reserved" /\ task[u] = NoTask /\ task' = task
      BY <2>2, <1>a DEF Publish, SetProducer, Alone, tcVars
    <3>2. \/ producer'[u] = "sent"
          \/ producer'[u] = "refused" /\ UNCHANGED <<stream, pending, slot, schedule, scheduler>>
      BY <2>2, <2>s DEF Publish, SetProducer, ProducerPC, Fault, NoReplyLost
    <3>3. task[u].status = "none"
      BY <3>1 DEF NoTask
    <3>4. QED
      BY <1>a, <2>k, <3>1, <3>2, <3>3 DEF Alone
  <2>3. CASE RecordSent(u)
    <3>1. producer[u] = "sent" /\ producer'[u] = "done"
      BY <2>3, <2>s DEF RecordSent, SetProducer, ProducerPC
    <3>2. task[u].status # "abandoned"
      BY <1>a, <3>1 DEF Alone
    <3>3. task'[u].status # "abandoned"
      BY <2>3, <3>2, FirstIsAttempt, QueuedRowAfter DEF RecordSent, BestEffort, tcVars, NewAttempt
    <3>4. QED
      BY <3>1, <3>3 DEF Alone
  <2>4. CASE RollbackLock(u)
    BY <2>4, <2>s, <2>k, <1>a DEF RollbackLock, SetProducer, Alone, ProducerPC, tcVars
  <2>5. CASE RollbackRecord(u)
    <3>1. producer[u] = "rollback" /\ producer'[u] \in {"marking", "failed"}
      BY <2>5, <2>s DEF RollbackRecord, SetProducer, ProducerPC
    <3>2. task[u] = NoTask /\ Quiet(u)'
      BY <2>5, <2>k, <1>a, <3>1 DEF RollbackRecord, Alone
    <3>3. task'[u] = NoTask \/ task'[u].status = "queued"
      BY <2>5, <3>2, FirstIsAttempt, QueuedRowAfter
         DEF RollbackRecord, tcVars, NewAttempt, Exists
    <3>4. QED
      BY <3>1, <3>2, <3>3 DEF Alone, Settled, NoTask
  <2>6. CASE RollbackMark(u)
    <3>1. producer[u] = "marking" /\ producer'[u] = "failed"
      BY <2>6, <2>s DEF RollbackMark, SetProducer, ProducerPC
    <3>2. Quiet(u)' /\ task[u].status \notin Settled
      BY <2>6, <2>k, <1>a, <3>1 DEF RollbackMark, Alone
    <3>3. task'[u].status \notin Settled
      BY <2>6, <3>2 DEF RollbackMark, MarkPublishFailed, TCInv, TCTypeOK, Settled, tcVars, Row
    <3>4. QED
      BY <3>1, <3>2, <3>3 DEF Alone
  <2>7. CASE ProducerCrash(u)
    <3>1. producer'[u] = IF producer[u] \in {"refused", "rollback", "marking"} THEN "failed" ELSE "done"
      BY <2>7 DEF ProducerCrash, Refused
    <3>2. producer[u] \in {"reserved", "sent", "refused", "rollback", "marking"}
      BY <2>7 DEF ProducerCrash, ProducerPC, Returned
    <3>3. task' = task /\ (Quiet(u) => Quiet(u)')
      BY <2>7, <2>k DEF ProducerCrash, tcVars
    <3>4. QED
      BY <1>a, <3>1, <3>2, <3>3 DEF Alone
  <2>8. QED
    BY <1>2, <2>1, <2>2, <2>3, <2>4, <2>5, <2>6, <2>7 DEF ProducerNext
<1>3. QED
  BY <1>1, <1>2

-----------------------------------------------------------------------------
\* An event that a worker or the scheduler records of one attempt.
Event(t, a) ==
  \/ RecordQueued(t, a) \/ RecordStarted(t, a) \/ RecordRetryScheduled(t, a)
  \/ \E o \in Settled : RecordFinished(t, a, o)

\* No event abandons a task.
LEMMA EventKeepsOpen ==
  ASSUME TCInv, NEW t \in TaskIds, NEW a \in Attempts, Event(t, a), task[t].status # "abandoned"
  PROVE  task'[t].status # "abandoned"
<1>1. CASE RecordQueued(t, a)
  BY <1>1, QueuedRowAfter
<1>2. CASE RecordStarted(t, a)
  BY <1>2, StartedRowAfter
<1>3. CASE RecordRetryScheduled(t, a)
  BY <1>3, EndedRowAfter DEF Settled
<1>4. CASE \E o \in Settled : RecordFinished(t, a, o)
  BY <1>4, EndedRowAfter DEF Settled
<1>5. QED
  BY <1>1, <1>2, <1>3, <1>4 DEF Event

\* Taking an entry.
TakesEntry(s) ==
  \/ \E e \in stream : Deliver(s, e)
  \/ \E e \in pending : Reclaim(s, e)

\* Every other step of a worker.
Executing(s) ==
  \/ RecordStart(s) \/ Claim(s) \/ Succeed(s) \/ Fail(s) \/ GiveUp(s)
  \/ RecordRetry(s) \/ AddSchedule(s) \/ AddScheduleFails(s) \/ AddScheduleUnknown(s)
  \/ Finish(s) \/ Ack(s) \/ WorkerCrash(s)

\* These are all.
LEMMA WorkerCases ==
  ASSUME NEW s \in Slots, SlotNext(s) \/ WorkerCrash(s)
  PROVE  TakesEntry(s) \/ Executing(s)
BY DEF SlotNext, TakesEntry, Executing

\* A slot that takes an entry moves it to the pending entries and does nothing
\* else.
LEMMA TakeEffect ==
  ASSUME QTInv, NEW s \in Slots, TakesEntry(s)
  PROVE  /\ UNCHANGED <<producer, scheduler, schedule, lock, task, attempt>>
         /\ slot[s] = Idle /\ slot'[s] # Idle /\ slot'[s].pc = "started"
         /\ slot'[s].entry \in Entries /\ slot'[s].entry \in pending'
         /\ Entries' = Entries /\ stream' \subseteq stream /\ pending \subseteq pending'
         /\ \A r \in Slots : r # s => slot'[r] = slot[r]
<1> USE DEF QTInv, QInv, SharedOK
<1>1. PICK e \in Entries : Deliver(s, e) \/ Reclaim(s, e)
  BY DEF TakesEntry, Entries
<1>2. Take(s, e)
  BY <1>1 DEF Deliver, Reclaim
<1>3. /\ slot'[s].pc = "started" /\ slot'[s].entry = e
      /\ \A r \in Slots : r # s => slot'[r] = slot[r]
  BY <1>2, SlotView
<1>4. slot'[s] # Idle
  BY <1>3 DEF Idle
<1>5. UNCHANGED <<producer, scheduler, schedule, lock, task, attempt>> /\ slot[s] = Idle
  BY <1>1 DEF Deliver, Reclaim, tcVars
<1>6. Entries' = Entries /\ stream' \subseteq stream /\ e \in pending' /\ pending \subseteq pending'
  BY <1>1 DEF Deliver, Reclaim, Entries
<1>7. QED
  BY <1>3, <1>4, <1>5, <1>6

\* A slot that executes keeps its entry or gives it up, records events of its
\* own attempt only and schedules only the next attempt of its task.
LEMMA ExecuteEffect ==
  ASSUME QTInv, NEW s \in Slots, Executing(s)
  PROVE  /\ UNCHANGED <<producer, scheduler, stream>>
         /\ slot[s] # Idle /\ Id(s) \in TaskIds /\ Att(s) \in Attempts
         /\ UNCHANGED <<task, attempt>> \/ Event(Id(s), Att(s))
         /\ \A r \in Slots : r # s => slot'[r] = slot[r]
         /\ slot'[s] = Idle \/ (slot'[s] # Idle /\ slot'[s].entry = slot[s].entry)
         /\ pending' = pending \/ (slot[s].pc = "ack" /\ slot'[s] = Idle /\ pending' = pending \ {slot[s].entry})
         /\ \/ schedule' = schedule
            \/ slot[s].pc = "schedule" /\ schedule' = schedule \cup {<<Id(s), Att(s) + 1>>}
<1> USE DEF QTInv, QInv, SharedOK
<1>1. UNCHANGED <<producer, scheduler, stream>>
  BY DEF Executing, RecordStart, Claim, Succeed, Fail, GiveUp, RecordRetry, AddSchedule, AddScheduleFails,
         AddScheduleUnknown, Finish, Ack, WorkerCrash
<1>2. slot[s].pc # "idle"
  BY SlotView DEF Executing, RecordStart, Claim, Succeed, Fail, GiveUp, RecordRetry, AddSchedule, AddScheduleFails,
         AddScheduleUnknown, Finish, Ack, WorkerCrash, Move
<1>3. slot[s] # Idle /\ Id(s) \in TaskIds /\ Att(s) \in Attempts
  BY <1>2, BusySlot, SlotView
<1>4. UNCHANGED <<task, attempt>> \/ Event(Id(s), Att(s))
  <2>1. slot[s].pc = "finish" => slot[s].outcome \in Settled
    BY DEF SlotOK
  <2>2. QED
    BY <2>1 DEF Executing, RecordStart, Claim, Succeed, Fail, GiveUp, RecordRetry, AddSchedule, AddScheduleFails,
         AddScheduleUnknown, Finish, Ack, WorkerCrash, BestEffort, tcVars, Event
<1>5. Leave(s) \/ \E from, to, outcome : to # "idle" /\ Move(s, from, to, outcome)
  BY DEF Executing, RecordStart, Claim, Succeed, Fail, GiveUp, RecordRetry, AddSchedule, AddScheduleFails,
         AddScheduleUnknown, Finish, Ack, WorkerCrash
<1>6. \A r \in Slots : r # s => slot'[r] = slot[r]
  BY <1>5, SlotView
<1>7. slot'[s] = Idle \/ (slot'[s] # Idle /\ slot'[s].entry = slot[s].entry)
  BY <1>5, SlotView DEF Idle
<1>8. pending' = pending \/ (slot[s].pc = "ack" /\ slot'[s] = Idle /\ pending' = pending \ {slot[s].entry})
  BY SlotView DEF Executing, RecordStart, Claim, Succeed, Fail, GiveUp, RecordRetry, AddSchedule, AddScheduleFails,
         AddScheduleUnknown, Finish, Ack, WorkerCrash
<1>9. \/ schedule' = schedule
      \/ slot[s].pc = "schedule" /\ schedule' = schedule \cup {<<Id(s), Att(s) + 1>>}
  BY DEF Executing, RecordStart, Claim, Succeed, Fail, GiveUp, RecordRetry, AddSchedule, AddScheduleFails,
         AddScheduleUnknown, Finish, Ack, WorkerCrash, Move
<1>10. QED
  BY <1>1, <1>3, <1>4, <1>6, <1>7, <1>8, <1>9

\* The workers keep a task quiet that is not theirs.
LEMMA WorkerQuiet ==
  ASSUME QTInv, QuietInv, NEW s \in Slots, SlotNext(s) \/ WorkerCrash(s), NEW u \in TaskIds
  PROVE  Alone(u)'
<1>a. Alone(u)
  BY DEF QuietInv, Alone
<1>1. CASE TakesEntry(s)
  <2>1. Quiet(u) => Quiet(u)'
    BY <1>1, TakeEffect DEF Quiet, Id
  <2>2. producer'[u] = producer[u] /\ task'[u] = task[u]
    BY <1>1, TakeEffect
  <2>3. QED
    BY <1>a, <2>1, <2>2 DEF Alone
<1>2. CASE Executing(s)
  <2>1. producer'[u] = producer[u]
    BY <1>2, ExecuteEffect
  <2>2. CASE Id(s) = u
    <3>1. ~Quiet(u)
      BY <1>2, <2>2, ExecuteEffect DEF Quiet
    <3>2. producer[u] \in {"sent", "done"}
      BY <1>a, <3>1 DEF Alone
    <3>3. task[u].status # "abandoned"
      BY <1>a, <3>2 DEF Alone
    <3>4. task'[u].status # "abandoned"
      BY <1>2, <2>2, <3>3, ExecuteEffect, EventKeepsOpen DEF QTInv
    <3>5. QED
      BY <2>1, <3>2, <3>4 DEF Alone
  <2>3. CASE Id(s) # u
    <3>1. task'[u] = task[u]
      BY <1>2, <2>3, ExecuteEffect, EventTouchesOne DEF QTInv, Event
    <3>2. Entries' \subseteq Entries /\ scheduler' = scheduler /\ (\A r \in schedule' : r \in schedule \/ r[1] = Id(s))
      BY <1>2, ExecuteEffect DEF Entries
    <3>3. \A r \in Slots : slot'[r] # Idle => slot[r] # Idle /\ slot'[r].entry = slot[r].entry
      BY <1>2, ExecuteEffect
    <3>4. Quiet(u) => Quiet(u)'
      BY <2>3, <3>2, <3>3 DEF Quiet, Id
    <3>5. QED
      BY <1>a, <2>1, <3>1, <3>4 DEF Alone
  <2>4. QED
    BY <2>2, <2>3
<1>3. QED
  BY <1>1, <1>2, WorkerCases

\* The scheduler.
LEMMA SchedulerQuiet ==
  ASSUME QTInv, QuietInv, SchedulerNext \/ SchedulerCrash \/ LockExpires, NEW u \in TaskIds
  PROVE  Alone(u)'
<1> USE DEF QTInv, QInv
<1>a. Alone(u) /\ producer' = producer /\ slot' = slot
  BY DEF QuietInv, Alone, SchedulerNext, FireRetry, RecordFired, DeleteFired, SchedulerCrash, LockExpires
<1>1. ASSUME NEW t \in TaskIds, NEW a \in Attempts, FireRetry(t, a) PROVE Alone(u)'
  <2>1. task' = task /\ schedule' = schedule /\ <<t, a>> \in schedule
        /\ (scheduler'[2] = t) /\ \A e \in Entries' : e \in Entries \/ e.id = t
    BY <1>1 DEF FireRetry, AddEntry, Entries, tcVars
  <2>2. Quiet(u) => u # t
    BY <2>1 DEF Quiet
  <2>3. Quiet(u) => Quiet(u)'
    BY <1>a, <2>1, <2>2 DEF Quiet, Id
  <2>4. QED
    BY <1>a, <2>1, <2>3 DEF Alone
<1>2. CASE RecordFired
  <2>1. scheduler[2] \in TaskIds /\ scheduler[3] \in Attempts
    BY <1>2, SchedulerWork DEF RecordFired
  <2>2. /\ scheduler # SchedulerIdle /\ scheduler' # SchedulerIdle /\ scheduler'[2] = scheduler[2]
        /\ UNCHANGED <<stream, pending, schedule>>
    BY <1>2 DEF RecordFired, SchedulerIdle
  <2>3. task' = task \/ RecordQueued(scheduler[2], scheduler[3])
    BY <1>2 DEF RecordFired, BestEffort, tcVars
  <2>4. Quiet(u) => Quiet(u)' /\ u # scheduler[2]
    BY <1>a, <2>2 DEF Quiet, Id, Entries
  <2>5. u # scheduler[2] => task'[u] = task[u]
    BY <2>1, <2>3, EventTouchesOne
  <2>6. task[u].status # "abandoned" => task'[u].status # "abandoned"
    BY <2>1, <2>3, <2>5, EventKeepsOpen DEF Event
  <2>7. QED
    BY <1>a, <2>4, <2>5, <2>6 DEF Alone
<1>3. CASE DeleteFired \/ SchedulerCrash \/ LockExpires
  <2>1. /\ task' = task /\ UNCHANGED <<stream, pending>> /\ schedule' \subseteq schedule
        /\ scheduler' = SchedulerIdle \/ scheduler' = scheduler
    BY <1>3 DEF DeleteFired, SchedulerCrash, LockExpires, tcVars
  <2>2. Quiet(u) => Quiet(u)'
    BY <1>a, <2>1 DEF Quiet, Id, Entries
  <2>3. QED
    BY <1>a, <2>1, <2>2 DEF Alone
<1>4. QED
  BY <1>1, <1>2, <1>3 DEF SchedulerNext

\* Initially every task is quiet, ...
LEMMA InitQuietInv == Init => QuietInv
BY DEF Init, TCInit, QuietInv, Alone, Quiet, Entries, NoTask, Settled, Idle

\* ... and every step keeps the invariant.
LEMMA NextQuietInv ==
  ASSUME NoReplyLost, QTInv, QuietInv, [Next]_vars
  PROVE  QuietInv'
<1>1. ASSUME NEW u \in TaskIds PROVE Alone(u)'
  <2>1. CASE \E t \in TaskIds : ProducerNext(t) \/ ProducerCrash(t)
    BY <2>1, ProducerQuiet
  <2>2. CASE SchedulerNext \/ SchedulerCrash \/ LockExpires
    BY <2>2, SchedulerQuiet
  <2>3. CASE \E s \in Slots : SlotNext(s) \/ WorkerCrash(s)
    BY <2>3, WorkerQuiet
  <2>4. CASE UNCHANGED vars
    BY <2>4 DEF vars, queueVars, tcVars, QuietInv, Alone, Quiet, Entries, Id
  <2>5. QED
    BY <2>1, <2>2, <2>3, <2>4 DEF Next
<1>2. QED
  BY <1>1 DEF Alone, QuietInv

-----------------------------------------------------------------------------
\* What a step of the queue is for the tables: nothing, an event of one
\* attempt, or the mark of a publication that is taken back.
LEMMA TableStep ==
  ASSUME QTInv, [Next]_vars
  PROVE  \/ UNCHANGED <<task, attempt>>
         \/ \E t \in TaskIds, a \in Attempts : Event(t, a)
         \/ \E t \in TaskIds : producer[t] = "marking" /\ MarkPublishFailed(t, FirstAttempt)
<1> USE DEF QTInv, QInv
<1>1. ASSUME NEW t \in TaskIds, ProducerNext(t) \/ ProducerCrash(t)
      PROVE  \/ UNCHANGED <<task, attempt>>
             \/ RecordQueued(t, FirstAttempt)
             \/ producer[t] = "marking" /\ MarkPublishFailed(t, FirstAttempt)
  BY <1>1 DEF ProducerNext, Reserve, Publish, RecordSent, RollbackLock, RollbackRecord, RollbackMark,
              ProducerCrash, SetProducer, BestEffort, tcVars
<1>2. CASE SchedulerNext \/ SchedulerCrash \/ LockExpires
  <2>1. \/ UNCHANGED <<task, attempt>>
        \/ scheduler[1] = "sent" /\ RecordQueued(scheduler[2], scheduler[3])
    BY <1>2 DEF SchedulerNext, FireRetry, RecordFired, DeleteFired, SchedulerCrash, LockExpires, BestEffort, tcVars
  <2>2. QED
    BY <2>1, SchedulerWork DEF Event
<1>3. ASSUME NEW s \in Slots, SlotNext(s) \/ WorkerCrash(s)
      PROVE  \/ UNCHANGED <<task, attempt>>
             \/ \E t \in TaskIds, a \in Attempts : Event(t, a)
  BY <1>3, WorkerCases, TakeEffect, ExecuteEffect
<1>4. CASE UNCHANGED vars
  BY <1>4 DEF vars, tcVars
<1>5. CASE \E t \in TaskIds : ProducerNext(t) \/ ProducerCrash(t)
  BY <1>1, <1>5, FirstIsAttempt DEF Event
<1>6. QED
  BY <1>2, <1>3, <1>4, <1>5 DEF Next

\* Hence a settled task is only replaced by a higher attempt: the mark hits
\* only a task that no worker has ever seen.
LEMMA SettledStays ==
  ASSUME QTInv, QuietInv, [Next]_vars, NEW u \in TaskIds
  PROVE  KeepsSettled(u)
<1> USE DEF QTInv
<1>0. SUFFICES ASSUME task[u].status \in Settled PROVE KeepsSettled(u)
  BY DEF KeepsSettled
<1>1. Exists(u)
  BY <1>0 DEF Exists, NoTask, Settled
<1>2. CASE UNCHANGED <<task, attempt>>
  BY <1>2 DEF KeepsSettled
<1>3. ASSUME NEW t \in TaskIds, NEW a \in Attempts, Event(t, a) PROVE KeepsSettled(u)
  BY <1>1, <1>3, EventSteps DEF Event
<1>4. ASSUME NEW t \in TaskIds, producer[t] = "marking", MarkPublishFailed(t, FirstAttempt)
      PROVE  KeepsSettled(u)
  <2>1. t # u
    BY <1>0, <1>4 DEF QuietInv, Alone
  <2>2. task'[u] = task[u]
    BY <1>4, <2>1 DEF MarkPublishFailed, TCInv, TCTypeOK
  <2>3. QED
    BY <2>2 DEF KeepsSettled
<1>5. QED
  BY <1>2, <1>3, <1>4, TableStep

\* The attempts recorded as ended of a task in flight stay so.
LEMMA EndedStays ==
  ASSUME QTInv, QuietInv, [Next]_vars, NEW u \in TaskIds, ~Quiet(u),
         NEW b \in Attempts, attempt[u][b] \in Settled
  PROVE  attempt'[u][b] \in Settled
<1> USE DEF QTInv
<1>1. ASSUME NEW t \in TaskIds, NEW a \in Attempts, Event(t, a) PROVE attempt'[u][b] \in Settled
  BY <1>1, EventTouchesOne DEF Event
<1>2. ASSUME NEW t \in TaskIds, producer[t] = "marking", MarkPublishFailed(t, FirstAttempt)
      PROVE  attempt'[u][b] \in Settled
  <2>1. t # u
    BY <1>2 DEF QuietInv, Alone
  <2>2. attempt'[u] = attempt[u]
    BY <1>2, <2>1 DEF MarkPublishFailed, TCInv, TCTypeOK
  <2>3. QED
    BY <2>2
<1>3. QED
  BY <1>1, <1>2, TableStep

\* An attempt beyond the first has a predecessor that is recorded as ended.
Caused(t, a) == a > FirstAttempt => attempt[t][a - 1] \in Settled

CauseInv ==
  /\ \A e \in Entries : Caused(e.id, e.a)
  /\ \A r \in schedule : Caused(r[1], r[2])
  /\ \A s \in Slots : slot[s].pc = "schedule" => attempt[Id(s)][Att(s)] \in Settled

\* Initially nothing is published or scheduled.
LEMMA InitCauseInv == Init => CauseInv
BY DEF Init, CauseInv, Entries, Idle

\* What is caused stays caused while its task is in flight.
LEMMA CausedStays ==
  ASSUME QTInv, QuietInv, [Next]_vars, NEW t \in TaskIds, NEW a \in Attempts, ~Quiet(t), Caused(t, a)
  PROVE  Caused(t, a)'
<1>1. SUFFICES ASSUME a > FirstAttempt PROVE attempt'[t][a - 1] \in Settled
  BY DEF Caused
<1>2. a - 1 \in Attempts
  BY <1>1, MaxAttemptAssumption DEF FirstAttempt, Attempts
<1>3. QED
  BY <1>1, <1>2, EndedStays DEF Caused

\* A retry is scheduled only by a slot that has recorded the end of its attempt,
\* and published only from the schedule.
LEMMA NextCauseInv ==
  ASSUME QTInv, QuietInv, CauseInv, [Next]_vars
  PROVE  CauseInv'
<1> USE DEF QTInv, QInv, SharedOK
<1>e. \A e \in Entries : e.id \in TaskIds /\ e.a \in Attempts /\ ~Quiet(e.id) /\ Caused(e.id, e.a)'
  BY CausedStays DEF CauseInv, Entries, Entry, Quiet
<1>r. \A r \in schedule : r[1] \in TaskIds /\ r[2] \in Attempts /\ ~Quiet(r[1]) /\ Caused(r[1], r[2])'
  BY CausedStays DEF CauseInv, Retry, Quiet
<1>s. \A s \in Slots : slot[s].pc = "schedule" => attempt'[Id(s)][Att(s)] \in Settled
  <2>1. SUFFICES ASSUME NEW s \in Slots, slot[s].pc = "schedule" PROVE attempt'[Id(s)][Att(s)] \in Settled
    OBVIOUS
  <2>2. Id(s) \in TaskIds /\ Att(s) \in Attempts /\ slot[s] # Idle
    BY <2>1, BusySlot, SlotView
  <2>3. ~Quiet(Id(s))
    BY <2>2 DEF Quiet
  <2>4. QED
    BY <2>1, <2>2, <2>3, EndedStays DEF CauseInv
<1>1. ASSUME NEW t \in TaskIds, ProducerNext(t) \/ ProducerCrash(t) PROVE CauseInv'
  <2>1. UNCHANGED <<slot, schedule>>
    BY <1>1 DEF ProducerNext, Reserve, Publish, RecordSent, RollbackLock, RollbackRecord, RollbackMark, ProducerCrash
  <2>2. AddEntry(t, FirstAttempt) => \A e \in stream' : e \in stream \/ e.a = FirstAttempt
    BY DEF AddEntry
  <2>3. \A e \in Entries' : e \in Entries \/ e.a = FirstAttempt
    BY <1>1, <2>2 DEF ProducerNext, Reserve, Publish, RecordSent, RollbackLock, RollbackRecord, RollbackMark,
         ProducerCrash, Entries
  <2>4. \A e \in Entries' : Caused(e.id, e.a)'
    BY <1>e, <2>3 DEF Caused, FirstAttempt
  <2>5. QED
    BY <1>r, <1>s, <2>1, <2>4 DEF CauseInv, Id, Att
<1>2. CASE SchedulerNext \/ SchedulerCrash \/ LockExpires
  <2>1. slot' = slot /\ schedule' \subseteq schedule
    BY <1>2 DEF SchedulerNext, FireRetry, RecordFired, DeleteFired, SchedulerCrash, LockExpires
  <2>2. \A e \in Entries' : e \in Entries \/ <<e.id, e.a>> \in schedule
    <3>1. \A t \in TaskIds, a \in Attempts : FireRetry(t, a) =>
             <<t, a>> \in schedule /\ \A e \in stream' : e \in stream \/ (e.id = t /\ e.a = a)
      BY DEF FireRetry, AddEntry
    <3>2. pending' = pending /\ \A e \in stream' : e \in stream \/ <<e.id, e.a>> \in schedule
      BY <1>2, <3>1 DEF SchedulerNext, FireRetry, RecordFired, DeleteFired, SchedulerCrash, LockExpires
    <3>3. QED
      BY <3>2 DEF Entries
  <2>3. \A e \in Entries' : Caused(e.id, e.a)'
    BY <1>e, <1>r, <2>2
  <2>4. QED
    BY <1>r, <1>s, <2>1, <2>3 DEF CauseInv, Id, Att
<1>3. ASSUME NEW s \in Slots, TakesEntry(s) PROVE CauseInv'
  <2>1. \A r \in Slots : slot'[r].pc = "schedule" => slot[r].pc = "schedule" /\ slot'[r] = slot[r]
    BY <1>3, TakeEffect
  <2>2. Entries' = Entries /\ schedule' = schedule
    BY <1>3, TakeEffect
  <2>3. QED
    BY <1>e, <1>r, <1>s, <2>1, <2>2 DEF CauseInv, Id, Att
<1>4. ASSUME NEW s \in Slots, Executing(s) PROVE CauseInv'
  <2>1. slot'[s].pc = "schedule" => RecordRetryScheduled(Id(s), Att(s)) /\ slot'[s].entry = slot[s].entry
    BY <1>4, SlotView DEF Executing, RecordStart, Claim, Succeed, Fail, GiveUp, RecordRetry, AddSchedule,
         AddScheduleFails, AddScheduleUnknown, Finish, Ack, WorkerCrash, Idle
  <2>2. Id(s) \in TaskIds /\ Att(s) \in Attempts
    BY <1>4, ExecuteEffect
  <2>3. slot'[s].pc = "schedule" => attempt'[Id(s)'][Att(s)'] \in Settled
    BY <2>1, <2>2, EndedRowAfter DEF Id, Att, Settled
  <2>4. \A r \in Slots : slot'[r].pc = "schedule" => attempt'[Id(r)'][Att(r)'] \in Settled
    BY <1>4, <1>s, <2>3, ExecuteEffect DEF Id, Att
  <2>5. Entries' \subseteq Entries
    BY <1>4, ExecuteEffect DEF Entries
  <2>6. \A r \in schedule' : Caused(r[1], r[2])'
    <3>1. CASE schedule' = schedule
      BY <1>r, <3>1
    <3>2. CASE slot[s].pc = "schedule" /\ schedule' = schedule \cup {<<Id(s), Att(s) + 1>>}
      <4>1. PICK t \in TaskIds, a \in Attempts : t = Id(s) /\ a = Att(s)
        BY <2>2
      <4>2. (a + 1) - 1 = a /\ attempt'[t][a] \in Settled
        BY <1>s, <3>2, <4>1, MaxAttemptAssumption DEF Attempts
      <4>3. Caused(t, a + 1)'
        BY <4>2 DEF Caused
      <4>4. schedule' = schedule \cup {<<t, a + 1>>}
        BY <3>2, <4>1
      <4>5. QED
        BY <1>r, <4>3, <4>4
    <3>3. QED
      BY <1>4, <3>1, <3>2, ExecuteEffect
  <2>7. QED
    BY <1>e, <2>4, <2>5, <2>6 DEF CauseInv
<1>5. CASE UNCHANGED vars
  BY <1>5 DEF vars, queueVars, tcVars, CauseInv, Caused, Entries, Id, Att
<1>6. QED
  BY <1>1, <1>2, <1>3, <1>4, <1>5, WorkerCases DEF Next

\* The invariant contains the property the runs check.
LEMMA CauseRecorded == QTInv /\ CauseInv => RetryIsRecordedFirst
<1> SUFFICES ASSUME QTInv, CauseInv,
                    NEW r \in schedule \cup {<<e.id, e.a>> : e \in Entries}, r[2] > FirstAttempt
             PROVE  attempt[r[1]][r[2] - 1] \in Terminal
  BY DEF RetryIsRecordedFirst, Entries
<1>1. Caused(r[1], r[2])
  BY DEF CauseInv
<1>2. QED
  BY <1>1 DEF Caused, Settled, Terminal

\* A retry is only scheduled, published or executed after its predecessor was
\* recorded as ended, whatever crashes and however often an entry is delivered,
\* if a call that publishes learns whether it has.
THEOREM QueueRetryRecorded ==
  ASSUME NoReplyLost
  PROVE  Spec => []RetryIsRecordedFirst
<1> DEFINE I == QTInv /\ QuietInv /\ CauseInv
<1>1. Init => I
  BY InitQTInv, InitQuietInv, InitCauseInv
<1>2. I /\ [Next]_vars => I'
  BY NextQTInv, NextQuietInv, NextCauseInv
<1>3. I => RetryIsRecordedFirst
  BY CauseRecorded
<1>4. QED
  BY <1>1, <1>2, <1>3, PTL DEF Spec

\* Under the same assumption a completed or failed row is only ever replaced by
\* a higher attempt: the mark of a failed publication finds no settled row.
THEOREM QueueSettledIsFinal ==
  ASSUME NoReplyLost
  PROVE  Spec => SettledIsFinal
<1> DEFINE I == QTInv /\ QuietInv
<1>1. Init => I
  BY InitQTInv, InitQuietInv
<1>2. I /\ [Next]_vars => I'
  BY NextQTInv, NextQuietInv
<1>3. I /\ [Next]_vars => [\A t \in TaskIds : KeepsSettled(t)]_vars
  BY SettledStays
<1>4. QED
  BY <1>1, <1>2, <1>3, PTL DEF Spec, SettledIsFinal

-----------------------------------------------------------------------------
\* The publications of an attempt that the broker still holds.
EntryFor(t, a) == \E e \in Entries : e.id = t /\ e.a = a
Item(t, a) == EntryFor(t, a) \/ <<t, a>> \in schedule

\* Something of attempt a or of a later one will still happen.
Ahead(t, a) == \E b \in Attempts : b >= a /\ Item(t, b)

\* Attempt a has had its effect on the row, ...
Passed(t, a) ==
  /\ Exists(t) /\ task[t].cur >= a
  /\ task[t].cur = a => task[t].status \in Settled \/ Ahead(t, a + 1)

\* ... or will have it.
Sent(t, a) == EntryFor(t, a) \/ Passed(t, a)

\* The row of the task shows no end, ...
Open(t) == Exists(t) /\ task[t].status \notin Terminal

\* ... so that something is ahead of it, ...
RowBacked(t) == Open(t) /\ producer[t] # "marking" => Ahead(t, task[t].cur)

\* ... a slot executes what is pending or has passed, ...
SlotBacked(s) ==
  /\ slot[s] # Idle => slot[s].entry \in pending \/ Passed(Id(s), Att(s))
  /\ slot[s].pc = "ack" => Passed(Id(s), Att(s))
  /\ slot[s].pc = "schedule" => Exists(Id(s)) /\ task[Id(s)].cur >= Att(s)

\* ... and the scheduler works on a retry it has sent.
SchedulerBacked ==
  scheduler # SchedulerIdle =>
    <<scheduler[2], scheduler[3]>> \in schedule /\ Sent(scheduler[2], scheduler[3])

BackInv ==
  /\ \A t \in TaskIds : RowBacked(t)
  /\ \A t \in TaskIds : producer[t] = "sent" => Sent(t, FirstAttempt)
  /\ \A s \in Slots : SlotBacked(s)
  /\ SchedulerBacked

\* Initially there are no rows.
LEMMA InitBackInv == Init => BackInv
BY DEF Init, TCInit, BackInv, RowBacked, SlotBacked, SchedulerBacked, Open, Exists, Idle

\* No row disappears or goes back, and a settled one stays settled.
LEMMA RowsGrow ==
  ASSUME QTInv, QuietInv, [Next]_vars, NEW u \in TaskIds, Exists(u)
  PROVE  /\ Exists(u)' /\ task'[u].cur >= task[u].cur
         /\ task[u].status \in Settled /\ task'[u].cur = task[u].cur => task'[u].status \in Settled
<1> USE DEF QTInv
<1>0. task[u].cur \in Attempts
  BY DEF TCInv, CurrentIsNewest
<1>1. TCInv'
  BY NextQTInv
<1>2. KeepsSettled(u)
  BY SettledStays
<1>3. task'[u].cur >= task[u].cur
  <2>1. ASSUME NEW t \in TaskIds, NEW a \in Attempts, Event(t, a) PROVE task'[u].cur >= task[u].cur
    BY <2>1, EventSteps DEF Event
  <2>2. ASSUME NEW t \in TaskIds, MarkPublishFailed(t, FirstAttempt) PROVE task'[u].cur >= task[u].cur
    BY <1>0, <2>2, MaxAttemptAssumption DEF MarkPublishFailed, TCInv, TCTypeOK, Row, Attempts
  <2>3. UNCHANGED <<task, attempt>> => task'[u].cur >= task[u].cur
    BY <1>0, MaxAttemptAssumption DEF Attempts
  <2>4. QED
    BY <2>1, <2>2, <2>3, TableStep
<1>4. task'[u] # NoTask
  BY <1>0, <1>3, MaxAttemptAssumption DEF NoTask, Attempts
<1>5. task'[u].cur \in Nat
  BY <1>1 DEF TCInv, TCTypeOK, Row
<1>6. QED
  BY <1>0, <1>2, <1>3, <1>4, <1>5, MaxAttemptAssumption DEF Exists, KeepsSettled, Attempts

\* A step that does not take the items of an attempt away.
Kept(u, a) == (EntryFor(u, a) => EntryFor(u, a)') /\ (Item(u, a) => Item(u, a)')

\* What a step does to the items: none disappears, or one does that has passed
\* or, leaving the schedule, has an entry.
LEMMA ItemsStay ==
  ASSUME QTInv, BackInv, [Next]_vars
  PROVE  \/ \A u \in TaskIds, a \in Attempts : Kept(u, a)
         \/ /\ UNCHANGED <<task, attempt>>
            /\ \E t \in TaskIds, b \in Attempts :
                 /\ \A u \in TaskIds, a \in Attempts : u # t \/ a # b => Kept(u, a)
                 /\ EntryFor(t, b) => EntryFor(t, b)' \/ Passed(t, b)
                 /\ EntryFor(t, b)' \/ Passed(t, b)
<1> USE DEF QTInv, QInv, SharedOK
<1>m. Entries \subseteq Entries' /\ schedule \subseteq schedule'
        => \A u \in TaskIds, a \in Attempts : Kept(u, a)
  BY DEF Kept, Item, EntryFor
<1>1. ASSUME NEW t \in TaskIds, ProducerNext(t) \/ ProducerCrash(t)
      PROVE  Entries \subseteq Entries' /\ schedule \subseteq schedule'
  BY <1>1 DEF ProducerNext, Reserve, Publish, RecordSent, RollbackLock, RollbackRecord, RollbackMark,
              ProducerCrash, AddEntry, Entries
<1>2. ASSUME NEW t \in TaskIds, NEW a \in Attempts, FireRetry(t, a)
      PROVE  Entries \subseteq Entries' /\ schedule \subseteq schedule'
  BY <1>2 DEF FireRetry, AddEntry, Entries
<1>3. CASE RecordFired \/ SchedulerCrash \/ LockExpires
  BY <1>3, <1>m DEF RecordFired, SchedulerCrash, LockExpires, Entries
<1>4. CASE DeleteFired
  <2>1. scheduler[2] \in TaskIds /\ scheduler[3] \in Attempts
    BY <1>4, SchedulerWork DEF DeleteFired
  <2>2. PICK t \in TaskIds, b \in Attempts : t = scheduler[2] /\ b = scheduler[3]
    BY <2>1
  <2>3. Entries' = Entries /\ schedule' = schedule \ {<<t, b>>} /\ UNCHANGED <<task, attempt>>
    BY <1>4, <2>2 DEF DeleteFired, Entries, tcVars
  <2>4. Sent(t, b)
    BY <1>4, <2>2 DEF DeleteFired, BackInv, SchedulerBacked, SchedulerIdle
  <2>5. \A u \in TaskIds, a \in Attempts : u # t \/ a # b => Kept(u, a)
    BY <2>3 DEF Kept, Item, EntryFor
  <2>6. EntryFor(t, b) => EntryFor(t, b)'
    BY <2>3 DEF EntryFor
  <2>7. QED
    BY <2>3, <2>4, <2>5, <2>6 DEF Sent
<1>5. ASSUME NEW s \in Slots, TakesEntry(s)
      PROVE  Entries \subseteq Entries' /\ schedule \subseteq schedule'
  BY <1>5, TakeEffect
<1>6. ASSUME NEW s \in Slots, Executing(s), pending' = pending
      PROVE  Entries \subseteq Entries' /\ schedule \subseteq schedule'
  BY <1>6, ExecuteEffect DEF Entries
<1>7. ASSUME NEW s \in Slots, Executing(s), pending' # pending
      PROVE  /\ UNCHANGED <<task, attempt>>
             /\ \E t \in TaskIds, b \in Attempts :
                  /\ \A u \in TaskIds, a \in Attempts : u # t \/ a # b => Kept(u, a)
                  /\ Passed(t, b)
  <2>0. Ack(s)
    BY <1>7 DEF Executing, RecordStart, Claim, Succeed, Fail, GiveUp, RecordRetry, AddSchedule,
         AddScheduleFails, AddScheduleUnknown, Finish, WorkerCrash
  <2>1. PICK t \in TaskIds, b \in Attempts : t = Id(s) /\ b = Att(s)
    BY <1>7, ExecuteEffect
  <2>2. Passed(t, b)
    BY <2>0, <2>1 DEF BackInv, SlotBacked, Ack
  <2>3. /\ Entries \ {slot[s].entry} \subseteq Entries' /\ schedule' = schedule
        /\ slot[s].entry.id = t /\ slot[s].entry.a = b
    BY <2>0, <2>1 DEF Ack, Entries, Id, Att
  <2>4. \A u \in TaskIds, a \in Attempts : u # t \/ a # b => Kept(u, a)
    BY <2>3 DEF Kept, Item, EntryFor
  <2>5. UNCHANGED <<task, attempt>>
    BY <2>0 DEF Ack, tcVars
  <2>6. QED
    BY <2>2, <2>4, <2>5
<1>8. CASE UNCHANGED vars
  BY <1>8, <1>m DEF vars, queueVars, Entries
<1>9. CASE \E t \in TaskIds : ProducerNext(t) \/ ProducerCrash(t)
  BY <1>9, <1>1, <1>m
<1>10. CASE SchedulerNext \/ SchedulerCrash \/ LockExpires
  BY <1>10, <1>2, <1>3, <1>4, <1>m DEF SchedulerNext
<1>11. ASSUME NEW s \in Slots, SlotNext(s) \/ WorkerCrash(s)
       PROVE  \/ Entries \subseteq Entries' /\ schedule \subseteq schedule'
              \/ Executing(s) /\ pending' # pending
  BY <1>5, <1>6, <1>11, WorkerCases
<1>12. QED
  BY <1>m, <1>7, <1>8, <1>9, <1>10, <1>11 DEF Next

\* What has passed stays so, and so does what is sent.
LEMMA PassedStays ==
  ASSUME QTInv, QuietInv, BackInv, [Next]_vars, NEW u \in TaskIds, NEW a \in Attempts
  PROVE  (Passed(u, a) => Passed(u, a)') /\ (Sent(u, a) => Sent(u, a)')
<1> USE MaxAttemptAssumption DEF Attempts
<1>0. /\ Exists(u) => task[u].cur \in Attempts /\ task'[u].cur \in Nat
  <2>1. TCInv'
    BY NextQTInv DEF QTInv
  <2>2. QED
    BY <2>1 DEF QTInv, TCInv, TCTypeOK, Row, CurrentIsNewest
<1>1. CASE \A v \in TaskIds, b \in Attempts : Kept(v, b)
  <2>1. Ahead(u, a + 1) => Ahead(u, a + 1)'
    BY <1>1 DEF Ahead, Kept
  <2>2. Passed(u, a) => Passed(u, a)'
    BY <1>0, <2>1, RowsGrow DEF Passed
  <2>3. QED
    BY <1>1, <2>2 DEF Sent, Kept
<1>2. ASSUME UNCHANGED <<task, attempt>>,
             NEW t \in TaskIds, NEW b \in Attempts,
             \A v \in TaskIds, c \in Attempts : v # t \/ c # b => Kept(v, c),
             EntryFor(t, b) => EntryFor(t, b)' \/ Passed(t, b),
             EntryFor(t, b)' \/ Passed(t, b)
      PROVE  (Passed(u, a) => Passed(u, a)') /\ (Sent(u, a) => Sent(u, a)')
  <2>1. ASSUME Passed(u, a) PROVE Passed(u, a)'
    <3>1. CASE task[u].cur = a /\ task[u].status \notin Settled
      <4>1. PICK c \in Attempts : c >= a + 1 /\ Item(u, c)
        BY <2>1, <3>1 DEF Passed, Ahead
      <4>2. Item(u, c)'
        <5>1. CASE u = t /\ c = b
          <6>1. ~Passed(t, b)
            BY <3>1, <4>1, <5>1 DEF Passed
          <6>2. QED
            BY <1>2, <5>1, <6>1 DEF Item
        <5>2. CASE u # t \/ c # b
          BY <1>2, <4>1, <5>2 DEF Kept
        <5>3. QED
          BY <5>1, <5>2
      <4>3. Ahead(u, a + 1)'
        BY <4>1, <4>2 DEF Ahead
      <4>4. QED
        BY <1>2, <2>1, <4>3 DEF Passed, Exists
    <3>2. CASE task[u].cur # a \/ task[u].status \in Settled
      BY <1>2, <2>1, <3>2 DEF Passed, Exists
    <3>3. QED
      BY <3>1, <3>2
  <2>2. ASSUME EntryFor(u, a) PROVE EntryFor(u, a)' \/ Passed(u, a)
    BY <1>2, <2>2 DEF Kept
  <2>3. QED
    BY <2>1, <2>2 DEF Sent
<1>3. QED
  BY <1>1, <1>2, ItemsStay

\* A row that a step leaves alone stays backed.
LEMMA BackedStays ==
  ASSUME QTInv, BackInv, [Next]_vars, NEW u \in TaskIds,
         task'[u] = task[u], Open(u), Ahead(u, task[u].cur)
  PROVE  Ahead(u, task[u].cur)'
<1> USE MaxAttemptAssumption DEF Attempts
<1>0. task[u].cur \in Nat
  BY DEF QTInv, TCInv, TCTypeOK, Row
<1>1. CASE \A v \in TaskIds, b \in Attempts : Kept(v, b)
  BY <1>1 DEF Ahead, Kept
<1>2. ASSUME NEW t \in TaskIds, NEW b \in Attempts,
             \A v \in TaskIds, c \in Attempts : v # t \/ c # b => Kept(v, c),
             EntryFor(t, b)' \/ Passed(t, b)
      PROVE  Ahead(u, task[u].cur)'
  <2>1. PICK c \in Attempts : c >= task[u].cur /\ Item(u, c)
    BY DEF Ahead
  <2>2. CASE u # t \/ c # b
    BY <1>2, <2>1, <2>2 DEF Kept, Ahead
  <2>3. CASE u = t /\ c = b /\ EntryFor(t, b)'
    BY <2>1, <2>3 DEF Ahead, Item
  <2>4. CASE u = t /\ c = b /\ Passed(t, b)
    <3>1. task[u].cur = b /\ Ahead(u, b + 1)
      BY <1>0, <2>1, <2>4 DEF Passed, Open, Terminal, Settled
    <3>2. PICK d \in Attempts : d >= b + 1 /\ Item(u, d)
      BY <3>1 DEF Ahead
    <3>3. Item(u, d)' /\ d >= task[u].cur
      BY <1>2, <3>1, <3>2 DEF Kept
    <3>4. QED
      BY <3>3 DEF Ahead
  <2>5. QED
    BY <1>2, <2>2, <2>3, <2>4
<1>3. QED
  BY <1>1, <1>2, ItemsStay

-----------------------------------------------------------------------------
\* An event of an attempt that is in the broker, or has passed, leaves the row
\* of its task backed.
LEMMA EventBacks ==
  ASSUME QTInv, QuietInv, BackInv, [Next]_vars, NEW t \in TaskIds, NEW a \in Attempts,
         Event(t, a), Sent(t, a), task[t].status # "abandoned", Open(t) => Ahead(t, task[t].cur)
  PROVE  Open(t)' => Ahead(t, task[t].cur)'
<1> USE MaxAttemptAssumption DEF Attempts
<1>0. /\ task[t].cur \in Nat /\ task'[t].cur \in Nat
      /\ Exists(t) => task[t].cur \in Attempts
  <2>1. TCInv'
    BY NextQTInv DEF QTInv
  <2>2. QED
    BY <2>1 DEF QTInv, TCInv, TCTypeOK, Row, CurrentIsNewest
<1>1. CASE task'[t] = task[t]
  BY <1>1, BackedStays DEF Open, Exists
<1>2. CASE \A v \in TaskIds, b \in Attempts : Kept(v, b)
  <2>1. \A b \in Attempts : Ahead(t, b) => \A c \in Nat : c <= b => Ahead(t, c)'
    BY <1>2 DEF Ahead, Kept
  <2>2. EntryFor(t, a) => Ahead(t, a)'
    BY <1>2 DEF Ahead, Kept, Item
  <2>3. ~NewAttempt(t, a) /\ task[t].status \notin Settled => Open(t)
    BY DEF NewAttempt, Open, Terminal, Settled
  <2>4. Passed(t, a) => ~NewAttempt(t, a)
    BY <1>0 DEF Passed, NewAttempt
  <2>5. Open(t) => Exists(t) /\ task[t].cur \in Attempts
    BY <1>0 DEF Open
  <2>6. CASE RecordQueued(t, a)
    <3>1. CASE NewAttempt(t, a)
      BY <2>2, <2>4, <2>6, <3>1, QueuedRowAfter DEF QTInv, Sent, Ahead
    <3>2. CASE ~NewAttempt(t, a)
      <4>1. task'[t].cur = task[t].cur
            /\ (task'[t].status = task[t].status \/ task[t].status \in {"queued", "retry_scheduled"})
        BY <2>6, <3>2, QueuedRowAfter DEF QTInv
      <4>2. Open(t)' => Open(t)
        BY <3>2, <4>1 DEF Open, NewAttempt, Terminal
      <4>3. QED
        BY <2>1, <2>5, <4>1, <4>2 DEF Ahead
    <3>3. QED
      BY <3>1, <3>2
  <2>7. CASE RecordStarted(t, a)
    <3>1. CASE NewAttempt(t, a)
      BY <2>2, <2>4, <2>7, <3>1, StartedRowAfter DEF QTInv, Sent, Ahead
    <3>2. CASE ~NewAttempt(t, a)
      <4>1. task'[t].cur = task[t].cur
            /\ (task'[t].status = task[t].status \/ task[t].status \notin Settled)
        BY <2>7, <3>2, StartedRowAfter DEF QTInv
      <4>2. Open(t)' => Open(t)
        BY <3>2, <4>1, <2>3 DEF Open, NewAttempt, Terminal, Settled
      <4>3. QED
        BY <2>1, <2>5, <4>1, <4>2 DEF Ahead
    <3>3. QED
      BY <3>1, <3>2
  <2>8. CASE RecordRetryScheduled(t, a)
    <3>1. task'[t].cur = a /\ ~Superseded(t, a)
      BY <2>8, EndedRowAfter DEF QTInv, Settled
    <3>2. Passed(t, a) => Open(t) /\ task[t].cur = a
      BY <1>0, <3>1 DEF Superseded, Passed, Open
    <3>3. Ahead(t, a)'
      BY <2>1, <2>2, <3>2 DEF Sent
    <3>4. QED
      BY <3>1, <3>3 DEF Ahead
  <2>9. CASE \E o \in Settled : RecordFinished(t, a, o)
    BY <2>9, EndedRowAfter DEF QTInv, Open, Settled, Terminal
  <2>10. QED
    BY <2>6, <2>7, <2>8, <2>9 DEF Event
<1>3. QED
  BY <1>1, <1>2, ItemsStay

\* A slot executes an attempt that is in the broker or has passed, of a task
\* that is not abandoned.
LEMMA SlotSent ==
  ASSUME QTInv, QuietInv, BackInv, NEW s \in Slots, slot[s] # Idle
  PROVE  /\ Id(s) \in TaskIds /\ Att(s) \in Attempts
         /\ Sent(Id(s), Att(s)) /\ producer[Id(s)] \in {"sent", "done"}
         /\ task[Id(s)].status # "abandoned"
<1>1. Id(s) \in TaskIds /\ Att(s) \in Attempts
  BY BusySlot, SlotView DEF QTInv, QInv
<1>2. Sent(Id(s), Att(s))
  BY DEF BackInv, SlotBacked, Sent, EntryFor, Entries, Id, Att
<1>3. ~Quiet(Id(s))
  BY DEF Quiet
<1>4. QED
  BY <1>1, <1>2, <1>3 DEF QuietInv, Alone

\* The failures under which an active row may be left behind.
RowsAreSafe ==
  NoReplyLost /\ {"rollback_write_fails", "producer_crash"} \cap FaultKinds = {}

\* Every step leaves every open row backed.
LEMMA NextRowsBacked ==
  ASSUME RowsAreSafe, QTInv, QuietInv, BackInv, [Next]_vars, NEW u \in TaskIds
  PROVE  RowBacked(u)'
<1> USE DEF QTInv, QInv, SharedOK
<1>0. ASSUME task'[u] = task[u], producer'[u] = producer[u] \/ producer[u] # "marking"
      PROVE  RowBacked(u)'
  <2>1. SUFFICES ASSUME Open(u)', producer'[u] # "marking" PROVE Ahead(u, task[u].cur)'
    BY DEF RowBacked
  <2>2. Open(u)
    BY <1>0, <2>1 DEF Open, Exists
  <2>3. QED
    BY <1>0, <2>1, <2>2, BackedStays DEF BackInv, RowBacked
<1>1. ASSUME NEW t \in TaskIds, ProducerNext(t) \/ ProducerCrash(t) PROVE RowBacked(u)'
  <2>1. CASE u # t
    BY <1>0, <1>1, <2>1, ProducerOthers
  <2>2. CASE u = t /\ (Reserve(t) \/ Publish(t) \/ RollbackLock(t))
    BY <1>0, <2>2 DEF Reserve, Publish, RollbackLock, SetProducer, tcVars
  <2>3. CASE u = t /\ RecordSent(t)
    <3>1. producer[t] = "sent"
      BY <2>3 DEF RecordSent, SetProducer
    <3>2. Sent(t, FirstAttempt) /\ task[t].status # "abandoned" /\ (Open(t) => Ahead(t, task[t].cur))
      BY <3>1 DEF BackInv, QuietInv, Alone, RowBacked
    <3>3. CASE RecordQueued(t, FirstAttempt)
      BY <2>3, <3>2, <3>3, FirstIsAttempt, EventBacks DEF Event, RowBacked
    <3>4. CASE UNCHANGED tcVars
      BY <1>0, <2>3, <3>1, <3>4 DEF tcVars
    <3>5. QED
      BY <2>3, <3>3, <3>4 DEF RecordSent, BestEffort
  <2>4. CASE u = t /\ RollbackRecord(t)
    <3>1. producer' = [producer EXCEPT ![t] = "marking"]
      BY <2>4 DEF RollbackRecord, SetProducer, Fault, RowsAreSafe
    <3>2. QED
      BY <2>4, <3>1 DEF RowBacked
  <2>5. CASE u = t /\ RollbackMark(t)
    <3>1. MarkPublishFailed(t, FirstAttempt)
      BY <2>5 DEF RollbackMark, Fault, RowsAreSafe
    <3>2. task'[t].status = "abandoned"
      BY <3>1 DEF MarkPublishFailed, TCInv, TCTypeOK, Row
    <3>3. QED
      BY <2>5, <3>2 DEF RowBacked, Open, Terminal
  <2>6. ~ProducerCrash(t)
    BY DEF ProducerCrash, Fault, RowsAreSafe
  <2>7. QED
    BY <1>1, <2>1, <2>2, <2>3, <2>4, <2>5, <2>6 DEF ProducerNext
<1>2. CASE SchedulerNext \/ SchedulerCrash \/ LockExpires
  <2>1. producer' = producer
    BY <1>2 DEF SchedulerNext, FireRetry, RecordFired, DeleteFired, SchedulerCrash, LockExpires
  <2>2. CASE task' = task
    BY <1>0, <2>1, <2>2
  <2>3. CASE RecordFired /\ RecordQueued(scheduler[2], scheduler[3])
    <3>1. PICK t \in TaskIds, a \in Attempts : t = scheduler[2] /\ a = scheduler[3]
      BY <2>3, SchedulerWork DEF RecordFired
    <3>2. RecordQueued(t, a) /\ scheduler # SchedulerIdle
      BY <2>3, <3>1 DEF RecordFired, SchedulerIdle
    <3>3. Sent(t, a)
      BY <3>1, <3>2 DEF BackInv, SchedulerBacked
    <3>4. producer[t] \in {"sent", "done"} /\ task[t].status # "abandoned"
      BY <3>1, <3>2 DEF QuietInv, Alone, Quiet
    <3>5. Open(t) => Ahead(t, task[t].cur)
      BY <3>4 DEF BackInv, RowBacked
    <3>6. CASE u = t
      BY <3>2, <3>3, <3>4, <3>5, <3>6, EventBacks DEF Event, RowBacked
    <3>7. CASE u # t
      BY <1>0, <2>1, <3>2, <3>7, EventTouchesOne
    <3>8. QED
      BY <3>6, <3>7
  <2>4. QED
    BY <1>2, <2>2, <2>3 DEF SchedulerNext, FireRetry, RecordFired, DeleteFired, SchedulerCrash, LockExpires,
         BestEffort, tcVars
<1>3. ASSUME NEW s \in Slots, TakesEntry(s) PROVE RowBacked(u)'
  BY <1>0, <1>3, TakeEffect
<1>4. ASSUME NEW s \in Slots, Executing(s) PROVE RowBacked(u)'
  <2>1. producer' = producer /\ slot[s] # Idle
    BY <1>4, ExecuteEffect
  <2>2. CASE task' = task
    BY <1>0, <2>1, <2>2
  <2>3. CASE Event(Id(s), Att(s))
    <3>1. PICK t \in TaskIds, a \in Attempts : t = Id(s) /\ a = Att(s)
      BY <2>1, SlotSent
    <3>2. Event(t, a)
      BY <2>3, <3>1
    <3>3. Sent(t, a) /\ producer[t] \in {"sent", "done"} /\ task[t].status # "abandoned"
      BY <2>1, <3>1, SlotSent
    <3>4. Open(t) => Ahead(t, task[t].cur)
      BY <3>3 DEF BackInv, RowBacked
    <3>5. CASE u = t
      BY <3>2, <3>3, <3>4, <3>5, EventBacks DEF RowBacked
    <3>6. CASE u # t
      BY <1>0, <2>1, <3>2, <3>6, EventTouchesOne DEF Event
    <3>7. QED
      BY <3>5, <3>6
  <2>4. QED
    BY <1>4, <2>2, <2>3, ExecuteEffect
<1>5. CASE UNCHANGED vars
  BY <1>0, <1>5 DEF vars, tcVars, queueVars
<1>6. QED
  BY <1>1, <1>2, <1>3, <1>4, <1>5, WorkerCases DEF Next

-----------------------------------------------------------------------------
\* An attempt that cannot be recorded any more has passed.
LEMMA SupersededPassed ==
  ASSUME QTInv, NEW t \in TaskIds, NEW a \in Attempts, Superseded(t, a), task[t].status # "abandoned"
  PROVE  Passed(t, a)
<1>1. task[t].cur \in Attempts
  BY DEF QTInv, TCInv, CurrentIsNewest, Superseded
<1>2. QED
  BY <1>1, MaxAttemptAssumption DEF Superseded, Passed, Terminal, Settled, Attempts

\* The workers: what a slot has claimed or recorded stays true of its attempt.
LEMMA NextSlotBacked ==
  ASSUME QTInv, QuietInv, BackInv, [Next]_vars, NEW s \in Slots, Executing(s)
  PROVE  SlotBacked(s)'
<1> USE DEF QTInv, QInv, SharedOK
<1>1. slot[s] # Idle
  BY ExecuteEffect
<1>2. PICK t \in TaskIds, a \in Attempts : t = Id(s) /\ a = Att(s)
  BY <1>1, SlotSent
<1>3. /\ t = slot[s].entry.id /\ a = slot[s].entry.a
      /\ task[t].status # "abandoned"
  BY <1>1, <1>2, SlotSent DEF Id, Att
<1>4. SUFFICES ASSUME slot'[s] # Idle
               PROVE  /\ slot'[s].entry \in pending' \/ Passed(t, a)'
                      /\ slot'[s].pc = "ack" => Passed(t, a)'
                      /\ slot'[s].pc = "schedule" => Exists(t)' /\ task'[t].cur >= a
  <2>1. slot'[s] # Idle => slot'[s].entry = slot[s].entry
    BY ExecuteEffect
  <2>2. slot'[s] # Idle => Id(s)' = t /\ Att(s)' = a
    BY <1>3, <2>1 DEF Id, Att
  <2>3. slot'[s] = Idle => SlotBacked(s)'
    BY DEF SlotBacked, Idle
  <2>4. QED
    BY <1>4, <2>2, <2>3 DEF SlotBacked
<1>5. slot'[s].entry = slot[s].entry /\ pending' = pending
  BY <1>4, ExecuteEffect
<1>6. slot[s].entry \in pending \/ Passed(t, a)
  BY <1>1, <1>2 DEF BackInv, SlotBacked
<1>7. slot'[s].entry \in pending' \/ Passed(t, a)'
  BY <1>5, <1>6, PassedStays
<1>8. ASSUME slot'[s].pc = "ack" PROVE Passed(t, a)'
  <2>1. \/ Superseded(t, a)
        \/ \E o \in Settled : RecordFinished(t, a, o)
        \/ AddSchedule(s)
    BY <1>2, <1>8, SlotView DEF Executing, RecordStart, Claim, Succeed, Fail, GiveUp, RecordRetry, AddSchedule,
         AddScheduleFails, AddScheduleUnknown, Finish, Ack, WorkerCrash, Idle, SlotOK
  <2>2. CASE Superseded(t, a)
    BY <1>3, <2>2, SupersededPassed, PassedStays
  <2>3. CASE \E o \in Settled : RecordFinished(t, a, o)
    BY <2>3, EndedRowAfter, MaxAttemptAssumption DEF Passed, Attempts
  <2>4. CASE AddSchedule(s)
    <3>1. slot[s].pc = "schedule"
      BY <2>4, SlotView DEF AddSchedule
    <3>2. Exists(t) /\ task[t].cur >= a /\ a # MaxAttempt
      BY <1>2, <3>1 DEF BackInv, SlotBacked, SlotOK, IsFinal
    <3>3. a + 1 \in Attempts
      BY <3>2, MaxAttemptAssumption DEF Attempts
    <3>4. schedule' = schedule \cup {<<t, a + 1>>} /\ task' = task
      BY <1>2, <2>4 DEF AddSchedule, tcVars
    <3>5. Ahead(t, a + 1)'
      BY <3>3, <3>4, MaxAttemptAssumption DEF Ahead, Item, Attempts
    <3>6. QED
      BY <3>2, <3>4, <3>5 DEF Passed, Exists
  <2>5. QED
    BY <2>1, <2>2, <2>3, <2>4
<1>9. ASSUME slot'[s].pc = "schedule" PROVE Exists(t)' /\ task'[t].cur >= a
  <2>1. RecordRetryScheduled(t, a)
    BY <1>2, <1>9, SlotView DEF Executing, RecordStart, Claim, Succeed, Fail, GiveUp, RecordRetry, AddSchedule,
         AddScheduleFails, AddScheduleUnknown, Finish, Ack, WorkerCrash, Idle
  <2>2. QED
    BY <2>1, EndedRowAfter, MaxAttemptAssumption DEF Settled, Attempts
<1>10. QED
  BY <1>7, <1>8, <1>9

\* A slot that does not move.
LEMMA OtherSlotBacked ==
  ASSUME QTInv, QuietInv, BackInv, [Next]_vars, NEW r \in Slots, slot'[r] = slot[r]
  PROVE  SlotBacked(r)'
<1> USE DEF QTInv, QInv, SharedOK
<1>1. CASE slot[r] = Idle
  BY <1>1 DEF SlotBacked, Idle
<1>2. CASE slot[r] # Idle
  <2>1. PICK t \in TaskIds, a \in Attempts : t = Id(r) /\ a = Att(r)
    BY <1>2, SlotSent
  <2>2. Id(r)' = t /\ Att(r)' = a /\ slot[r].entry.id = t /\ slot[r].entry.a = a
    BY <2>1 DEF Id, Att
  <2>3. slot[r].entry \in pending \/ Passed(t, a)
    BY <1>2, <2>1 DEF BackInv, SlotBacked
  <2>4. \A e \in pending : e \in pending' \/ Passed(e.id, e.a)
    <3>1. ASSUME NEW t2 \in TaskIds, ProducerNext(t2) \/ ProducerCrash(t2) PROVE pending' = pending
      BY <3>1 DEF ProducerNext, Reserve, Publish, RecordSent, RollbackLock, RollbackRecord, RollbackMark, ProducerCrash
    <3>2. SchedulerNext \/ SchedulerCrash \/ LockExpires => pending' = pending
      BY DEF SchedulerNext, FireRetry, RecordFired, DeleteFired, SchedulerCrash, LockExpires
    <3>3. ASSUME NEW s \in Slots, TakesEntry(s) PROVE pending \subseteq pending'
      BY <3>3, TakeEffect
    <3>4. ASSUME NEW s \in Slots, Executing(s) PROVE \A e \in pending : e \in pending' \/ Passed(e.id, e.a)
      <4>1. pending' = pending \/ (slot[s].pc = "ack" /\ pending' = pending \ {slot[s].entry})
        BY <3>4, ExecuteEffect
      <4>2. slot[s].pc = "ack" => Passed(slot[s].entry.id, slot[s].entry.a)
        BY DEF BackInv, SlotBacked, Id, Att
      <4>3. QED
        BY <4>1, <4>2
    <3>5. UNCHANGED vars => pending' = pending
      BY DEF vars, queueVars
    <3>6. QED
      BY <3>1, <3>2, <3>3, <3>4, <3>5, WorkerCases DEF Next
  <2>5. slot[r].entry \in pending' \/ Passed(t, a)'
    BY <2>2, <2>3, <2>4, PassedStays
  <2>6. slot[r].pc = "ack" => Passed(t, a)'
    BY <2>1, PassedStays DEF BackInv, SlotBacked
  <2>7. slot[r].pc = "schedule" => Exists(t)' /\ task'[t].cur >= a
    <3>1. slot[r].pc = "schedule" => Exists(t) /\ task[t].cur >= a
      BY <2>1 DEF BackInv, SlotBacked
    <3>2. Exists(t) => Exists(t)' /\ task'[t].cur >= task[t].cur
      BY RowsGrow
    <3>3. Exists(t) => task[t].cur \in Nat /\ task'[t].cur \in Nat
      <4>1. TCInv'
        BY NextQTInv
      <4>2. QED
        BY <4>1 DEF TCInv, TCTypeOK, Row
    <3>4. QED
      BY <3>1, <3>2, <3>3, MaxAttemptAssumption DEF Attempts
  <2>8. QED
    BY <1>2, <2>2, <2>5, <2>6, <2>7 DEF SlotBacked
<1>3. QED
  BY <1>1, <1>2

\* A call that has published.
LEMMA NextSent ==
  ASSUME QTInv, QuietInv, BackInv, NoReplyLost, [Next]_vars, NEW u \in TaskIds, producer'[u] = "sent"
  PROVE  Sent(u, FirstAttempt)'
<1> USE DEF QTInv, QInv, SharedOK
<1>1. CASE producer[u] = "sent"
  BY <1>1, FirstIsAttempt, PassedStays DEF BackInv
<1>2. CASE producer[u] # "sent"
  <2>1. ASSUME NEW t \in TaskIds, ProducerNext(t) \/ ProducerCrash(t) PROVE Sent(u, FirstAttempt)'
    <3>1. u = t
      BY <1>2, <2>1, ProducerOthers
    <3>2. Publish(u) /\ AddEntry(u, FirstAttempt) /\ pending' = pending
      BY <1>2, <2>1, <3>1 DEF ProducerNext, Reserve, Publish, RecordSent, RollbackLock, RollbackRecord, RollbackMark,
         ProducerCrash, SetProducer, Returned, Refused
    <3>3. PICK e \in stream' : e.id = u /\ e.a = FirstAttempt
      BY <3>2 DEF AddEntry
    <3>4. QED
      BY <3>3 DEF Sent, EntryFor, Entries
  <2>2. (SchedulerNext \/ SchedulerCrash \/ LockExpires) => producer' = producer
    BY DEF SchedulerNext, FireRetry, RecordFired, DeleteFired, SchedulerCrash, LockExpires
  <2>3. \A s \in Slots : SlotNext(s) \/ WorkerCrash(s) => producer' = producer
    BY WorkerCases, TakeEffect, ExecuteEffect
  <2>4. UNCHANGED vars => producer' = producer
    BY DEF vars, queueVars
  <2>5. QED
    BY <1>2, <2>1, <2>2, <2>3, <2>4 DEF Next
<1>3. QED
  BY <1>1, <1>2

\* The scheduler's retry stays in the schedule until it deletes it, and is sent.
LEMMA NextSchedulerBacked ==
  ASSUME QTInv, QuietInv, BackInv, [Next]_vars
  PROVE  SchedulerBacked'
<1> USE DEF QTInv, QInv, SharedOK
<1>0. ASSUME scheduler # SchedulerIdle, scheduler'[2] = scheduler[2], scheduler'[3] = scheduler[3],
             schedule \subseteq schedule'
      PROVE  SchedulerBacked'
  <2>1. PICK t \in TaskIds, a \in Attempts : t = scheduler[2] /\ a = scheduler[3]
    BY <1>0
  <2>2. <<t, a>> \in schedule /\ Sent(t, a)
    BY <1>0, <2>1 DEF BackInv, SchedulerBacked
  <2>3. Sent(t, a)' /\ <<t, a>> \in schedule'
    BY <1>0, <2>2, PassedStays
  <2>4. scheduler'[2] = t /\ scheduler'[3] = a
    BY <1>0, <2>1
  <2>5. QED
    BY <2>3, <2>4 DEF SchedulerBacked
<1>1. ASSUME scheduler' = scheduler, schedule \subseteq schedule' PROVE SchedulerBacked'
  BY <1>0, <1>1 DEF SchedulerBacked
<1>2. ASSUME NEW t \in TaskIds, ProducerNext(t) \/ ProducerCrash(t) PROVE SchedulerBacked'
  BY <1>1, <1>2 DEF ProducerNext, Reserve, Publish, RecordSent, RollbackLock, RollbackRecord, RollbackMark, ProducerCrash
<1>3. ASSUME NEW t \in TaskIds, NEW a \in Attempts, FireRetry(t, a) PROVE SchedulerBacked'
  <2>1. scheduler' = <<"sent", t, a>> /\ <<t, a>> \in schedule' /\ pending' = pending
    BY <1>3 DEF FireRetry
  <2>2. PICK e \in stream' : e.id = t /\ e.a = a
    BY <1>3 DEF FireRetry, AddEntry
  <2>3. Sent(t, a)'
    BY <2>2 DEF Sent, EntryFor, Entries
  <2>4. QED
    BY <2>1, <2>3 DEF SchedulerBacked
<1>4. CASE RecordFired
  BY <1>0, <1>4 DEF RecordFired, SchedulerIdle
<1>5. CASE DeleteFired \/ SchedulerCrash
  BY <1>5 DEF DeleteFired, SchedulerCrash, SchedulerBacked
<1>6. CASE LockExpires
  BY <1>1, <1>6 DEF LockExpires
<1>7. ASSUME NEW s \in Slots, SlotNext(s) \/ WorkerCrash(s) PROVE SchedulerBacked'
  BY <1>1, <1>7, WorkerCases, TakeEffect, ExecuteEffect
<1>8. CASE UNCHANGED vars
  BY <1>1, <1>8 DEF vars, queueVars
<1>9. QED
  BY <1>2, <1>3, <1>4, <1>5, <1>6, <1>7, <1>8 DEF Next, SchedulerNext

\* Every step keeps the invariant.
LEMMA NextBackInv ==
  ASSUME RowsAreSafe, QTInv, QuietInv, BackInv, [Next]_vars
  PROVE  BackInv'
<1>1. ASSUME NEW s \in Slots PROVE SlotBacked(s)'
  <2>1. CASE slot'[s] = slot[s]
    BY <2>1, OtherSlotBacked
  <2>2. CASE slot'[s] # slot[s]
    <3>1. TakesEntry(s) \/ Executing(s)
      <4>1. \A t \in TaskIds : ~(ProducerNext(t) \/ ProducerCrash(t))
        BY <2>2 DEF ProducerNext, Reserve, Publish, RecordSent, RollbackLock, RollbackRecord, RollbackMark, ProducerCrash
      <4>2. ~(SchedulerNext \/ SchedulerCrash \/ LockExpires)
        BY <2>2 DEF SchedulerNext, FireRetry, RecordFired, DeleteFired, SchedulerCrash, LockExpires
      <4>3. ~UNCHANGED vars
        BY <2>2 DEF vars, queueVars
      <4>4. \A r \in Slots : SlotNext(r) \/ WorkerCrash(r) => r = s
        BY <2>2, WorkerCases, TakeEffect, ExecuteEffect
      <4>5. QED
        BY <4>1, <4>2, <4>3, <4>4, WorkerCases DEF Next
    <3>2. CASE TakesEntry(s)
      BY <3>2, TakeEffect DEF SlotBacked
    <3>3. QED
      BY <3>1, <3>2, NextSlotBacked
  <2>3. QED
    BY <2>1, <2>2
<1>2. \A t \in TaskIds : RowBacked(t)'
  BY NextRowsBacked
<1>3. \A t \in TaskIds : producer'[t] = "sent" => Sent(t, FirstAttempt)'
  BY NextSent DEF RowsAreSafe
<1>4. QED
  BY <1>1, <1>2, <1>3, NextSchedulerBacked DEF BackInv

\* The invariant contains the property the runs check.
LEMMA BackedRows == QTInv /\ BackInv => ActiveRowsAreBacked
<1> SUFFICES ASSUME QTInv, BackInv, NEW t \in TaskIds, task[t].status \in Active
             PROVE  InFlight(t)
  BY DEF ActiveRowsAreBacked
<1>1. CASE producer[t] = "marking"
  BY <1>1 DEF InFlight, Returned
<1>2. CASE producer[t] # "marking"
  <2>1. Open(t)
    BY DEF Open, Exists, NoTask, Active, Terminal
  <2>2. PICK b \in Attempts : Item(t, b)
    BY <1>2, <2>1 DEF BackInv, RowBacked, Ahead
  <2>3. QED
    BY <2>2 DEF Item, EntryFor, Entries, InFlight
<1>3. QED
  BY <1>1, <1>2

\* A row shown as queued, in progress or waiting for a retry is backed by
\* something that moves it on, through every crash of a worker or of the
\* scheduler, redelivery and lost record, as long as the call that enqueues the
\* task lives, learns whether it has published, and can take it back.
THEOREM QueueRowsBacked ==
  ASSUME RowsAreSafe
  PROVE  Spec => []ActiveRowsAreBacked
<1> DEFINE I == QTInv /\ QuietInv /\ BackInv
<1>1. Init => I
  BY InitQTInv, InitQuietInv, InitBackInv
<1>2. I /\ [Next]_vars => I'
  BY NextQTInv, NextQuietInv, NextBackInv DEF RowsAreSafe
<1>3. I => ActiveRowsAreBacked
  BY BackedRows
<1>4. QED
  BY <1>1, <1>2, <1>3, PTL DEF Spec

-----------------------------------------------------------------------------
\* The failures under which one attempt may be executed twice, or a retry
\* sent twice.
OneDelivery ==
  {"publish_reply_lost", "redelivery", "worker_crash", "schedule_unknown", "scheduler_crash"}
    \cap FaultKinds = {}

\* An entry is live until a slot has only its acknowledgement left.
Acking(e) == \E s \in Slots : slot[s].pc = "ack" /\ slot[s].entry = e
Live == {e \in Entries : ~Acking(e)}

\* A retry waits until the scheduler has sent it.
Fired(r) == scheduler # SchedulerIdle /\ <<scheduler[2], scheduler[3]>> = r
Waiting == {r \in schedule : ~Fired(r)}

\* At most one live entry or waiting retry of a task, and none behind the
\* retry that the scheduler is working on.
OneEach ==
  /\ \A e, f \in Live : e.id = f.id => e = f
  /\ \A r, q \in Waiting : r[1] = q[1] => r = q
  /\ \A e \in Live, r \in Waiting : e.id # r[1]
  /\ scheduler # SchedulerIdle =>
       /\ \A e \in Live : e.id = scheduler[2] => e.a >= scheduler[3]
       /\ \A r \in Waiting : r[1] = scheduler[2] => r[2] > scheduler[3]

\* An entry is executed by one slot, and only while it is pending.
Held ==
  /\ stream \cap pending = {}
  /\ \A s \in Slots : slot[s] # Idle => slot[s].entry \in pending
  /\ \A r, s \in Slots : slot[r] # Idle /\ slot[s] # Idle /\ slot[r].entry = slot[s].entry => r = s

SingleInv == OneEach /\ Held

\* Initially nothing is published.
LEMMA InitSingleInv == Init => SingleInv
BY DEF Init, SingleInv, OneEach, Held, Live, Waiting, Entries, Idle

\* A slot that is not acknowledging holds a live entry.
LEMMA HeldIsLive ==
  ASSUME QTInv, Held, NEW s \in Slots, slot[s] # Idle, slot[s].pc # "ack"
  PROVE  slot[s].entry \in Live
<1> USE DEF QTInv, QInv
<1>1. slot[s].entry \in Entries
  BY DEF Held, Entries
<1>2. \A r \in Slots : slot[r].pc = "ack" => slot[r] # Idle
  BY DEF Idle
<1>3. ~Acking(slot[s].entry)
  BY <1>2 DEF Acking, Held
<1>4. QED
  BY <1>1, <1>3 DEF Live

\* Fewer live entries and waiting retries.
LEMMA OneEachShrinks ==
  ASSUME OneEach, Live' \subseteq Live, Waiting' \subseteq Waiting,
         \/ scheduler' = SchedulerIdle
         \/ /\ scheduler # SchedulerIdle
            /\ scheduler'[2] = scheduler[2] /\ scheduler'[3] = scheduler[3]
  PROVE  OneEach'
BY DEF OneEach

\* A step that leaves the slots alone.
LEMMA HeldStays ==
  ASSUME Held, slot' = slot, pending' = pending, stream' \cap pending = {}
  PROVE  Held'
BY DEF Held

\* A new entry of a task of which nothing is live or waiting.
LEMMA AddEntrySingle ==
  ASSUME SingleInv, NEW t \in TaskIds, NEW a \in Attempts, AddEntry(t, a),
         slot' = slot, pending' = pending
  PROVE  /\ Held'
         /\ \E e \in Entry : /\ e.id = t /\ e.a = a /\ Live' = Live \cup {e}
                             /\ e \notin Entries
                             /\ \A s \in Slots : slot[s] # Idle => slot[s].entry # e
<1>1. PICK c \in Copies : /\ [id |-> t, a |-> a, copy |-> c] \notin InUse
                          /\ stream' = stream \cup {[id |-> t, a |-> a, copy |-> c]}
  BY DEF AddEntry
<1>2. PICK e \in Entry : /\ e.id = t /\ e.a = a /\ e \notin InUse
                         /\ stream' = stream \cup {e}
  BY <1>1 DEF Entry
<1>3. e \notin Entries /\ \A s \in Slots : slot[s] # Idle => slot[s].entry # e
  BY <1>2 DEF InUse, Entries
<1>4. Held'
  BY <1>2, <1>3, HeldStays DEF SingleInv, Held, Entries
<1>5. Live' = Live \cup {e}
  <2>1. \A f : Acking(f)' <=> Acking(f)
    BY DEF Acking
  <2>2. ~Acking(e)
    BY <1>3 DEF Acking, Idle
  <2>3. Entries' = Entries \cup {e}
    BY <1>2 DEF Entries
  <2>4. QED
    BY <2>1, <2>2, <2>3 DEF Live
<1>6. QED
  BY <1>2, <1>3, <1>4, <1>5

\* The producers: the first entry of a task is the only thing of it.
LEMMA ProducerSingle ==
  ASSUME OneDelivery, QTInv, QuietInv, SingleInv, NEW t \in TaskIds, ProducerNext(t) \/ ProducerCrash(t)
  PROVE  SingleInv'
<1> USE DEF QTInv, QInv, SharedOK
<1>0. UNCHANGED <<slot, pending, scheduler, schedule>>
  BY DEF ProducerNext, Reserve, Publish, RecordSent, RollbackLock, RollbackRecord, RollbackMark, ProducerCrash
<1>1. CASE stream' = stream
  BY <1>0, <1>1 DEF SingleInv, OneEach, Held, Live, Acking, Waiting, Fired, Entries
<1>2. CASE stream' # stream
  <2>1. AddEntry(t, FirstAttempt) /\ producer[t] = "reserved"
    BY <1>2 DEF ProducerNext, Reserve, Publish, RecordSent, RollbackLock, RollbackRecord, RollbackMark,
                ProducerCrash, SetProducer
  <2>2. Quiet(t)
    BY <2>1 DEF QuietInv, Alone
  <2>3. PICK e \in Entry : e.id = t /\ e.a = FirstAttempt /\ Live' = Live \cup {e}
    BY <1>0, <2>1, FirstIsAttempt, AddEntrySingle
  <2>4. Waiting' = Waiting
    BY <1>0 DEF Waiting, Fired
  <2>5. /\ \A f \in Live : f.id # t
        /\ \A r \in Waiting : r[1] # t
        /\ scheduler # SchedulerIdle => scheduler[2] # t
    BY <2>2 DEF Quiet, Live, Waiting
  <2>6. OneEach'
    BY <1>0, <2>3, <2>4, <2>5 DEF OneEach, SingleInv
  <2>7. QED
    BY <1>0, <2>1, <2>6, FirstIsAttempt, AddEntrySingle DEF SingleInv
<1>3. QED
  BY <1>1, <1>2

\* The scheduler: a waiting retry becomes the live entry of its task.
LEMMA SchedulerSingle ==
  ASSUME OneDelivery, QTInv, SingleInv, SchedulerNext \/ SchedulerCrash \/ LockExpires
  PROVE  SingleInv'
<1> USE DEF QTInv, QInv, SharedOK
<1>0. UNCHANGED <<slot, pending>>
  BY DEF SchedulerNext, FireRetry, RecordFired, DeleteFired, SchedulerCrash, LockExpires
<1>1. ASSUME NEW t \in TaskIds, NEW a \in Attempts, FireRetry(t, a) PROVE SingleInv'
  <2>1. AddEntry(t, a) /\ scheduler = SchedulerIdle /\ scheduler' = <<"sent", t, a>>
        /\ <<t, a>> \in schedule /\ schedule' = schedule
    BY <1>1 DEF FireRetry
  <2>2. PICK e \in Entry : e.id = t /\ e.a = a /\ Live' = Live \cup {e}
    BY <1>0, <2>1, AddEntrySingle
  <2>3. Waiting = schedule /\ Waiting' = Waiting \ {<<t, a>>}
    BY <2>1 DEF Waiting, Fired, SchedulerIdle
  <2>4. /\ \A f \in Live : f.id # t
        /\ \A r \in Waiting' : r[1] # t
    BY <2>1, <2>3 DEF SingleInv, OneEach
  <2>5. OneEach'
    BY <2>1, <2>2, <2>3, <2>4, MaxAttemptAssumption DEF OneEach, SingleInv, Attempts
  <2>6. QED
    BY <1>0, <2>1, <2>5, AddEntrySingle DEF SingleInv
<1>2. CASE RecordFired \/ DeleteFired \/ LockExpires
  <2>1. stream' = stream
    BY <1>2 DEF RecordFired, DeleteFired, LockExpires
  <2>2. Live' = Live
    BY <1>0, <2>1 DEF Live, Acking, Entries
  <2>3. Waiting' \subseteq Waiting
    BY <1>2 DEF Waiting, Fired, RecordFired, DeleteFired, LockExpires, SchedulerIdle
  <2>4. \/ scheduler' = SchedulerIdle
        \/ scheduler # SchedulerIdle /\ scheduler'[2] = scheduler[2] /\ scheduler'[3] = scheduler[3]
    BY <1>2 DEF RecordFired, DeleteFired, LockExpires, SchedulerIdle
  <2>5. OneEach' /\ Held'
    BY <1>0, <2>1, <2>2, <2>3, <2>4, OneEachShrinks DEF SingleInv, Held
  <2>6. QED
    BY <2>5 DEF SingleInv
<1>3. ~SchedulerCrash
  BY DEF SchedulerCrash, Fault, OneDelivery
<1>4. QED
  BY <1>1, <1>2, <1>3 DEF SchedulerNext

\* The workers: an entry is taken by one slot, ...
LEMMA TakeSingle ==
  ASSUME OneDelivery, QTInv, SingleInv, NEW s \in Slots, TakesEntry(s)
  PROVE  SingleInv' /\ Live' = Live
<1> USE DEF QTInv, QInv, SharedOK
<1>1. PICK e \in Entries : Deliver(s, e) \/ Reclaim(s, e)
  BY DEF TakesEntry, Entries
<1>2. \A r \in Slots : slot[r] # Idle => slot[r].entry # e
  <2>1. CASE Deliver(s, e)
    BY <2>1 DEF Deliver, SingleInv, Held
  <2>2. CASE Reclaim(s, e)
    BY <2>2 DEF Reclaim, Executes, Fault, OneDelivery
  <2>3. QED
    BY <1>1, <2>1, <2>2
<1>3. slot'[s].entry = e /\ slot'[s].pc = "started"
  BY <1>1, SlotView DEF Deliver, Reclaim
<1>4. /\ \A r \in Slots : r # s => slot'[r] = slot[r]
      /\ slot[s] = Idle /\ slot'[s] # Idle
      /\ UNCHANGED <<schedule, scheduler>> /\ Entries' = Entries
  BY TakeEffect
<1>5. Held'
  <2>1. stream' \cap pending' = {} /\ e \in pending' /\ pending \subseteq pending'
    BY <1>1 DEF Deliver, Reclaim, SingleInv, Held
  <2>2. \A r \in Slots : slot'[r] # Idle => slot'[r].entry \in pending'
    BY <1>3, <1>4, <2>1 DEF SingleInv, Held
  <2>3. \A q, r \in Slots : slot'[q] # Idle /\ slot'[r] # Idle /\ slot'[q].entry = slot'[r].entry => q = r
    BY <1>2, <1>3, <1>4 DEF SingleInv, Held
  <2>4. QED
    BY <2>1, <2>2, <2>3 DEF Held
<1>6. \A f : Acking(f)' <=> Acking(f)
  BY <1>3, <1>4 DEF Acking, Idle
<1>7. Live' = Live /\ Waiting' = Waiting
  BY <1>4, <1>6 DEF Live, Waiting, Fired
<1>8. OneEach'
  BY <1>4, <1>7 DEF OneEach, SingleInv
<1>9. QED
  BY <1>5, <1>7, <1>8 DEF SingleInv

\* ... stays live until it is acknowledged ...
LEMMA ExecuteLive ==
  ASSUME OneDelivery, QTInv, SingleInv, NEW s \in Slots, Executing(s)
  PROVE  /\ Held'
         /\ slot[s].pc = "ack" => Live' = Live
         /\ slot[s].pc # "ack" /\ slot'[s].pc # "ack" => Live' = Live
         /\ slot[s].pc # "ack" /\ slot'[s].pc = "ack" => Live' = Live \ {slot[s].entry}
<1> USE DEF QTInv, QInv, SharedOK
<1>1. /\ \A r \in Slots : r # s => slot'[r] = slot[r]
      /\ slot[s] # Idle /\ stream' = stream
      /\ slot'[s] = Idle \/ (slot'[s] # Idle /\ slot'[s].entry = slot[s].entry)
      /\ pending' = pending \/ (slot[s].pc = "ack" /\ slot'[s] = Idle /\ pending' = pending \ {slot[s].entry})
  BY ExecuteEffect
<1>2. slot[s].pc = "ack" => slot'[s] = Idle /\ pending' = pending \ {slot[s].entry}
  <2>1. slot[s].pc = "ack" => Ack(s) \/ WorkerCrash(s)
    BY SlotView DEF Executing, RecordStart, Claim, Succeed, Fail, GiveUp, RecordRetry, AddSchedule,
       AddScheduleFails, AddScheduleUnknown, Finish
  <2>2. ~WorkerCrash(s)
    BY DEF WorkerCrash, Fault, OneDelivery
  <2>3. QED
    BY <2>1, <2>2, SlotView DEF Ack
<1>3. Held'
  <2>1. stream' \cap pending' = {}
    BY <1>1 DEF SingleInv, Held
  <2>2. \A r \in Slots : slot'[r] # Idle => slot'[r].entry \in pending'
    BY <1>1, <1>2 DEF SingleInv, Held
  <2>3. \A q, r \in Slots : slot'[q] # Idle /\ slot'[r] # Idle /\ slot'[q].entry = slot'[r].entry => q = r
    BY <1>1 DEF SingleInv, Held
  <2>4. QED
    BY <2>1, <2>2, <2>3 DEF Held
<1>4. CASE slot[s].pc = "ack"
  <2>1. \A f : f # slot[s].entry => (Acking(f)' <=> Acking(f))
    BY <1>1, <1>2, <1>4 DEF Acking, Idle
  <2>2. Acking(slot[s].entry) /\ slot[s].entry \notin Entries'
    BY <1>1, <1>2, <1>4 DEF Acking, Entries, SingleInv, Held
  <2>3. Entries' = Entries \ {slot[s].entry}
    BY <1>1, <1>2, <1>4, <2>2 DEF Entries
  <2>4. QED
    BY <1>3, <1>4, <2>1, <2>2, <2>3 DEF Live
<1>5. CASE slot[s].pc # "ack" /\ slot'[s].pc # "ack"
  <2>1. \A f : Acking(f)' <=> Acking(f)
    BY <1>1, <1>5 DEF Acking
  <2>2. Entries' = Entries
    BY <1>1, <1>5 DEF Entries
  <2>3. QED
    BY <1>3, <1>5, <2>1, <2>2 DEF Live
<1>6. CASE slot[s].pc # "ack" /\ slot'[s].pc = "ack"
  <2>1. slot'[s].entry = slot[s].entry
    BY <1>1, <1>6 DEF Idle
  <2>2. \A f : Acking(f)' <=> Acking(f) \/ f = slot[s].entry
    BY <1>1, <1>6, <2>1 DEF Acking
  <2>3. Entries' = Entries
    BY <1>1, <1>6 DEF Entries
  <2>4. QED
    BY <1>3, <1>6, <2>2, <2>3 DEF Live
<1>7. QED
  BY <1>4, <1>5, <1>6

\* ... and is replaced by its retry.
LEMMA ExecuteSingle ==
  ASSUME OneDelivery, QTInv, SingleInv, NEW s \in Slots, Executing(s)
  PROVE  SingleInv'
<1> USE DEF QTInv, QInv, SharedOK
<1>1. scheduler' = scheduler /\ slot[s] # Idle /\ Id(s) \in TaskIds /\ Att(s) \in Attempts
  BY ExecuteEffect
<1>2. Live' \subseteq Live
  BY ExecuteLive
<1>3. CASE schedule' = schedule
  <2>1. Waiting' = Waiting
    BY <1>1, <1>3 DEF Waiting, Fired
  <2>2. OneEach'
    BY <1>1, <1>2, <2>1 DEF OneEach, SingleInv
  <2>3. QED
    BY <2>2, ExecuteLive DEF SingleInv
<1>4. CASE schedule' # schedule
  <2>1. AddSchedule(s)
    <3>1. ~AddScheduleUnknown(s)
      BY DEF AddScheduleUnknown, Fault, OneDelivery
    <3>2. QED
      BY <1>4, <3>1 DEF Executing, RecordStart, Claim, Succeed, Fail, GiveUp, RecordRetry,
         AddScheduleFails, Finish, Ack, WorkerCrash
  <2>2. PICK t \in TaskIds, a \in Attempts : t = Id(s) /\ a = Att(s)
    BY <1>1
  <2>3. /\ schedule' = schedule \cup {<<t, a + 1>>}
        /\ slot[s].pc # "ack" /\ slot'[s].pc = "ack"
    BY <2>1, <2>2, SlotView DEF AddSchedule
  <2>4. /\ slot[s].entry \in Live /\ slot[s].entry.id = t /\ slot[s].entry.a = a
        /\ Live' = Live \ {slot[s].entry}
    BY <1>1, <2>2, <2>3, HeldIsLive, ExecuteLive DEF SingleInv, Id, Att
  <2>5. \A e \in Live' : e.id # t
    BY <2>4 DEF SingleInv, OneEach
  <2>6. \A r \in Waiting : r[1] # t
    BY <2>4 DEF SingleInv, OneEach
  <2>7. scheduler # SchedulerIdle /\ scheduler[2] = t => scheduler[3] \in Attempts /\ a >= scheduler[3]
    BY <2>4 DEF SingleInv, OneEach, SchedulerIdle
  <2>8. Waiting' = Waiting \cup {<<t, a + 1>>}
    <3>1. ~Fired(<<t, a + 1>>)
      BY <2>7, MaxAttemptAssumption DEF Fired, Attempts
    <3>2. QED
      BY <1>1, <2>3, <3>1 DEF Waiting, Fired
  <2>9. OneEach'
    <3>1. \A e, f \in Live' : e.id = f.id => e = f
      BY <1>2 DEF SingleInv, OneEach
    <3>2. \A r, q \in Waiting' : r[1] = q[1] => r = q
      BY <2>6, <2>8 DEF SingleInv, OneEach
    <3>3. \A e \in Live', r \in Waiting' : e.id # r[1]
      BY <1>2, <2>5, <2>8 DEF SingleInv, OneEach
    <3>4. scheduler # SchedulerIdle =>
           /\ \A e \in Live' : e.id = scheduler[2] => e.a >= scheduler[3]
           /\ \A r \in Waiting' : r[1] = scheduler[2] => r[2] > scheduler[3]
      <4>1. a + 1 > a
        BY MaxAttemptAssumption DEF Attempts
      <4>2. scheduler # SchedulerIdle /\ scheduler[2] = t => a + 1 > scheduler[3]
        BY <2>7, MaxAttemptAssumption DEF Attempts
      <4>3. QED
        BY <1>2, <2>8, <4>2 DEF SingleInv, OneEach
    <3>5. QED
      BY <1>1, <3>1, <3>2, <3>3, <3>4 DEF OneEach
  <2>10. QED
    BY <2>9, ExecuteLive DEF SingleInv
<1>5. QED
  BY <1>3, <1>4

\* Every step keeps the invariant.
LEMMA NextSingleInv ==
  ASSUME OneDelivery, QTInv, QuietInv, SingleInv, [Next]_vars
  PROVE  SingleInv'
<1>1. CASE UNCHANGED vars
  BY <1>1 DEF vars, queueVars, SingleInv, OneEach, Held, Live, Acking, Waiting, Fired, Entries
<1>2. QED
  BY <1>1, ProducerSingle, SchedulerSingle, TakeSingle, ExecuteSingle, WorkerCases DEF Next

-----------------------------------------------------------------------------
\* Whoever executes the body owns the key.
OwnInv == \A s \in Slots : slot[s].pc = "body" => lock = Id(s)

\* Initially no slot executes.
LEMMA InitOwnInv == Init => OwnInv
BY DEF Init, OwnInv, Idle

\* Two slots that have not ended their execution are on different targets'
\* tasks.
LEMMA OneSlotEach ==
  ASSUME QTInv, SingleInv, NEW r \in Slots, NEW s \in Slots,
         slot[r] # Idle, slot[r].pc # "ack", slot[s] # Idle, slot[s].pc # "ack", Id(r) = Id(s)
  PROVE  r = s
<1>1. slot[r].entry \in Live /\ slot[s].entry \in Live
  BY HeldIsLive DEF SingleInv
<1>2. QED
  BY <1>1 DEF SingleInv, OneEach, Held, Id

\* The key changes hands only when no other slot is in the body of its owner.
LEMMA NextOwnInv ==
  ASSUME QTInv, QuietInv, SingleInv, OwnInv, [Next]_vars
  PROVE  OwnInv'
<1> USE DEF QTInv, QInv, SharedOK
<1>b. \A s \in Slots : slot[s].pc = "body" =>
        slot[s] # Idle /\ Id(s) \in TaskIds /\ Id(s) # NoOwner /\ lock = Id(s)
  BY BusySlot, SlotView, QueueAssumption DEF OwnInv
<1>1. ASSUME NEW t \in TaskIds, ProducerNext(t) \/ ProducerCrash(t) PROVE OwnInv'
  <2>1. slot' = slot
    BY <1>1 DEF ProducerNext, Reserve, Publish, RecordSent, RollbackLock, RollbackRecord, RollbackMark, ProducerCrash
  <2>2. \/ lock' = lock
        \/ lock = NoOwner
        \/ lock = t /\ producer[t] = "refused"
    BY <1>1 DEF ProducerNext, Reserve, Publish, RecordSent, RollbackLock, RollbackRecord, RollbackMark,
                ProducerCrash, SetProducer, ReleaseLock, ReleaseRaises
  <2>3. producer[t] = "refused" => \A s \in Slots : slot[s] # Idle => Id(s) # t
    BY DEF QuietInv, Alone, Quiet
  <2>4. QED
    BY <1>b, <2>1, <2>2, <2>3 DEF OwnInv, Id
<1>2. CASE SchedulerNext \/ SchedulerCrash \/ LockExpires
  <2>1. slot' = slot
    BY <1>2 DEF SchedulerNext, FireRetry, RecordFired, DeleteFired, SchedulerCrash, LockExpires
  <2>2. lock' = lock \/ LockExpires
    BY <1>2 DEF SchedulerNext, FireRetry, RecordFired, DeleteFired, SchedulerCrash
  <2>3. QED
    BY <1>b, <2>1, <2>2 DEF OwnInv, Id, LockExpires
<1>3. ASSUME NEW s \in Slots, TakesEntry(s) PROVE OwnInv'
  <2>1. \A r \in Slots : slot'[r].pc = "body" => slot'[r] = slot[r]
    BY <1>3, TakeEffect
  <2>2. QED
    BY <1>3, <1>b, <2>1, TakeEffect DEF OwnInv, Id
<1>4. ASSUME NEW s \in Slots, Executing(s) PROVE OwnInv'
  <2>1. slot[s] # Idle /\ Id(s) \in TaskIds /\ \A r \in Slots : r # s => slot'[r] = slot[r]
    BY <1>4, ExecuteEffect
  <2>2. slot'[s].pc = "body" => lock' = Id(s) /\ slot'[s].entry = slot[s].entry
    BY <1>4, SlotView DEF Executing, RecordStart, Claim, Succeed, Fail, GiveUp, RecordRetry, AddSchedule,
         AddScheduleFails, AddScheduleUnknown, Finish, Ack, WorkerCrash, Idle
  <2>3. \/ lock' = lock
        \/ lock \in {NoOwner, Id(s)} /\ lock' = Id(s)
        \/ lock = Id(s) /\ slot[s].pc # "ack"
    BY <1>4, SlotView DEF Executing, RecordStart, Claim, Succeed, Fail, GiveUp, RecordRetry, AddSchedule,
         AddScheduleFails, AddScheduleUnknown, Finish, Ack, WorkerCrash, ReleaseLock, ReleaseRaises,
         ReleaseFailedRetry, Move
  <2>4. ASSUME NEW r \in Slots, r # s, slot[r].pc = "body" PROVE lock' = Id(r)
    <3>1. slot[r] # Idle /\ lock = Id(r) /\ Id(r) # NoOwner
      BY <1>b, <2>4
    <3>2. lock = Id(s) => slot[s].pc = "ack"
      BY <2>1, <2>4, <3>1, OneSlotEach
    <3>3. QED
      BY <2>3, <3>1, <3>2
  <2>5. QED
    BY <2>1, <2>2, <2>4 DEF OwnInv, Id
<1>5. CASE UNCHANGED vars
  BY <1>5 DEF vars, queueVars, OwnInv, Id
<1>6. QED
  BY <1>1, <1>2, <1>3, <1>4, <1>5, WorkerCases DEF Next

\* The invariant contains the property the runs check.
LEMMA OwnedBodies == QTInv /\ SingleInv /\ OwnInv => OneExecutor
<1> SUFFICES ASSUME QTInv, SingleInv, OwnInv, NEW r \in Slots, NEW s \in Slots,
                    slot[r].pc = "body", slot[s].pc = "body"
             PROVE  r = s
  BY DEF OneExecutor
<1>1. slot[r] # Idle /\ slot[s] # Idle
  BY DEF Idle
<1>2. QED
  BY <1>1, OneSlotEach DEF OwnInv

\* At most one execution of the target at a time, as long as no attempt is
\* delivered or scheduled twice; the key may expire and its owner may die.
THEOREM QueueOneExecutor ==
  ASSUME OneDelivery
  PROVE  Spec => []OneExecutor
<1> DEFINE I == QTInv /\ QuietInv /\ SingleInv /\ OwnInv
<1>1. Init => I
  BY InitQTInv, InitQuietInv, InitSingleInv, InitOwnInv
<1>2. I /\ [Next]_vars => I'
  BY NextQTInv, NextQuietInv, NextSingleInv, NextOwnInv DEF OneDelivery, NoReplyLost
<1>3. I => OneExecutor
  BY OwnedBodies
<1>4. QED
  BY <1>1, <1>2, <1>3, PTL DEF Spec

-----------------------------------------------------------------------------
\* What is live or waiting can still be recorded, and an attempt whose retry is
\* about to be scheduled is the current one of its row.
FreshInv ==
  /\ \A e \in Live : ~Superseded(e.id, e.a)
  /\ \A r \in Waiting : ~Superseded(r[1], r[2])
  /\ \A s \in Slots : slot[s].pc = "schedule" => Exists(Id(s)) /\ task[Id(s)].cur = Att(s)

\* Initially nothing is published.
LEMMA InitFreshInv == Init => FreshInv
BY DEF Init, FreshInv, Live, Waiting, Entries, Idle

\* An event of an attempt that is not newer than b leaves b open, ...
LEMMA EventKeepsFresh ==
  ASSUME TCInv, NEW t \in TaskIds, NEW a \in Attempts, NEW b \in Attempts, a <= b,
         ~Superseded(t, b), RecordQueued(t, a) \/ RecordStarted(t, a) \/ RecordRetryScheduled(t, a)
  PROVE  ~Superseded(t, b)'
<1> USE MaxAttemptAssumption DEF Attempts
<1>0. task[t].cur \in Nat /\ task[t].status \in Statuses \cup {"none"}
  BY DEF TCInv, TCTypeOK, Row
<1>1. CASE RecordQueued(t, a)
  BY <1>0, <1>1, QueuedRowAfter DEF Superseded, NewAttempt, Terminal
<1>2. CASE RecordStarted(t, a)
  BY <1>0, <1>2, StartedRowAfter DEF Superseded, NewAttempt, Terminal
<1>3. CASE RecordRetryScheduled(t, a)
  BY <1>0, <1>3, EndedRowAfter DEF Superseded, Terminal, Settled
<1>4. QED
  BY <1>1, <1>2, <1>3

\* ... and the current attempt current.
LEMMA EventKeepsCurrent ==
  ASSUME TCInv, NEW t \in TaskIds, NEW a \in Attempts, Exists(t), a <= task[t].cur, RecordQueued(t, a)
  PROVE  Exists(t)' /\ task'[t].cur = task[t].cur
BY QueuedRowAfter, MaxAttemptAssumption DEF NewAttempt, TCInv, TCTypeOK, Row, Attempts

\* Recording that an attempt is queued, by its call or by the scheduler.
LEMMA QueuedFresh ==
  ASSUME QTInv, FreshInv, NEW t \in TaskIds, NEW a \in Attempts,
         RecordQueued(t, a) \/ UNCHANGED <<task, attempt>>,
         \A e \in Live : e.id = t => a <= e.a,
         \A r \in Waiting : r[1] = t => a <= r[2],
         \A s \in Slots : slot[s].pc = "schedule" /\ Id(s) = t => a <= Att(s),
         Live' = Live, Waiting' \subseteq Waiting, slot' = slot
  PROVE  FreshInv'
<1> USE DEF QTInv, QInv, SharedOK
<1>1. CASE UNCHANGED <<task, attempt>>
  BY <1>1 DEF FreshInv, Superseded, Exists, Id, Att
<1>2. CASE RecordQueued(t, a)
  <2>1. \A u \in TaskIds : u # t => task'[u] = task[u]
    BY <1>2, EventTouchesOne
  <2>2. \A u \in TaskIds, b \in Attempts : u # t /\ ~Superseded(u, b) => ~Superseded(u, b)'
    BY <2>1 DEF Superseded, Exists
  <2>3. \A b \in Attempts : a <= b /\ ~Superseded(t, b) => ~Superseded(t, b)'
    BY <1>2, EventKeepsFresh
  <2>4. \A e \in Live' : ~Superseded(e.id, e.a)'
    <3>1. \A e \in Live : e.id \in TaskIds /\ e.a \in Attempts
      BY DEF Live, Entries, Entry
    <3>2. QED
      BY <2>2, <2>3, <3>1 DEF FreshInv
  <2>5. \A r \in Waiting' : ~Superseded(r[1], r[2])'
    <3>1. \A r \in Waiting : r[1] \in TaskIds /\ r[2] \in Attempts
      BY DEF Waiting, Retry
    <3>2. QED
      BY <2>2, <2>3, <3>1 DEF FreshInv
  <2>6. ASSUME NEW s \in Slots, slot[s].pc = "schedule" PROVE Exists(Id(s))' /\ task'[Id(s)].cur = Att(s)
    <3>1. PICK u \in TaskIds, b \in Attempts : u = Id(s) /\ b = Att(s)
      BY <2>6, BusySlot, SlotView
    <3>2. Exists(u) /\ task[u].cur = b
      BY <2>6, <3>1 DEF FreshInv
    <3>3. CASE u = t
      <4>1. a <= b
        BY <2>6, <3>1, <3>3
      <4>2. Exists(t)' /\ task'[t].cur = task[t].cur
        BY <1>2, <3>2, <3>3, <4>1, EventKeepsCurrent
      <4>3. Id(s)' = t
        BY <3>1, <3>3 DEF Id
      <4>4. QED
        BY <3>1, <3>2, <3>3, <4>2, <4>3
    <3>4. CASE u # t
      BY <2>1, <3>1, <3>2, <3>4 DEF Exists, Id
    <3>5. QED
      BY <3>3, <3>4
  <2>7. QED
    BY <2>4, <2>5, <2>6 DEF FreshInv, Id, Att
<1>3. QED
  BY <1>1, <1>2

\* The producers.
LEMMA ProducerFresh ==
  ASSUME QTInv, QuietInv, SingleInv, FreshInv, NEW t \in TaskIds, ProducerNext(t) \/ ProducerCrash(t)
  PROVE  FreshInv'
<1> USE DEF QTInv, QInv, SharedOK
<1>0. UNCHANGED <<slot, pending, scheduler, schedule>>
  BY DEF ProducerNext, Reserve, Publish, RecordSent, RollbackLock, RollbackRecord, RollbackMark, ProducerCrash
<1>w. Waiting' = Waiting
  BY <1>0 DEF Waiting, Fired
<1>1. CASE stream' # stream
  <2>1. AddEntry(t, FirstAttempt) /\ producer[t] = "reserved" /\ UNCHANGED <<task, attempt>>
    BY <1>1 DEF ProducerNext, Reserve, Publish, RecordSent, RollbackLock, RollbackRecord, RollbackMark,
                ProducerCrash, SetProducer, tcVars
  <2>2. PICK e \in Entry : e.id = t /\ e.a = FirstAttempt /\ Live' = Live \cup {e}
    BY <1>0, <2>1, FirstIsAttempt, AddEntrySingle
  <2>3. ~Exists(t)
    BY <2>1 DEF QuietInv, Alone, Exists
  <2>4. QED
    BY <1>0, <1>w, <2>1, <2>2, <2>3 DEF FreshInv, Superseded, Exists, Id, Att
<1>2. CASE stream' = stream
  <2>1. Live' = Live
    BY <1>0, <1>2 DEF Live, Acking, Entries
  <2>2. CASE UNCHANGED <<task, attempt>> \/ RecordQueued(t, FirstAttempt)
    <3>1. /\ \A e \in Live : FirstAttempt <= e.a
          /\ \A r \in Waiting : FirstAttempt <= r[2]
      BY MaxAttemptAssumption DEF Live, Entries, Entry, Waiting, Retry, FirstAttempt, Attempts
    <3>2. \A s \in Slots : slot[s].pc = "schedule" => FirstAttempt <= Att(s)
      <4>1. \A s \in Slots : slot[s].pc = "schedule" => Att(s) \in Attempts
        BY BusySlot
      <4>2. QED
        BY <4>1, MaxAttemptAssumption DEF FirstAttempt, Attempts
    <3>3. QED
      BY <1>0, <1>w, <2>1, <2>2, <3>1, <3>2, FirstIsAttempt, QueuedFresh
  <2>3. CASE RollbackMark(t) /\ MarkPublishFailed(t, FirstAttempt)
    <3>1. Quiet(t)
      BY <2>3 DEF RollbackMark, SetProducer, QuietInv, Alone
    <3>2. \A u \in TaskIds : u # t => task'[u] = task[u]
      BY <2>3 DEF MarkPublishFailed, TCInv, TCTypeOK
    <3>3. /\ \A e \in Live : e.id \in TaskIds /\ e.id # t
          /\ \A r \in Waiting : r[1] \in TaskIds /\ r[1] # t
      BY <3>1 DEF Quiet, Live, Waiting, Entries, Entry, Retry
    <3>4. \A s \in Slots : slot[s].pc = "schedule" => Id(s) \in TaskIds /\ Id(s) # t
      BY <3>1, BusySlot, SlotView DEF Quiet
    <3>5. \A u \in TaskIds : u # t => /\ Exists(u)' <=> Exists(u)
                                      /\ \A b : Superseded(u, b)' <=> Superseded(u, b)
      BY <3>2 DEF Exists, Superseded
    <3>6. \A s \in Slots : slot[s].pc = "schedule" => Exists(Id(s))' /\ task'[Id(s)].cur = Att(s)
      <4>1. \A s \in Slots : Id(s)' = Id(s)
        BY <1>0 DEF Id
      <4>2. QED
        BY <3>2, <3>4, <4>1 DEF FreshInv, Exists
    <3>7. QED
      BY <1>0, <1>w, <2>1, <3>3, <3>5, <3>6 DEF FreshInv, Id, Att
  <2>4. QED
    BY <2>2, <2>3 DEF ProducerNext, Reserve, Publish, RecordSent, RollbackLock, RollbackRecord, RollbackMark,
           ProducerCrash, BestEffort, tcVars
<1>3. QED
  BY <1>1, <1>2

\* The scheduler, whose retry is behind whatever is live or waiting.
LEMMA SchedulerFresh ==
  ASSUME OneDelivery, QTInv, SingleInv, FreshInv, SchedulerNext \/ SchedulerCrash \/ LockExpires
  PROVE  FreshInv'
<1> USE DEF QTInv, QInv, SharedOK
<1>0. UNCHANGED <<slot, pending>>
  BY DEF SchedulerNext, FireRetry, RecordFired, DeleteFired, SchedulerCrash, LockExpires
<1>1. ASSUME NEW t \in TaskIds, NEW a \in Attempts, FireRetry(t, a) PROVE FreshInv'
  <2>1. AddEntry(t, a) /\ scheduler = SchedulerIdle /\ <<t, a>> \in schedule /\ schedule' = schedule
        /\ UNCHANGED <<task, attempt>>
    BY <1>1 DEF FireRetry, tcVars
  <2>2. PICK e \in Entry : e.id = t /\ e.a = a /\ Live' = Live \cup {e}
    BY <1>0, <2>1, AddEntrySingle
  <2>3. Waiting = schedule /\ Waiting' \subseteq Waiting
    BY <2>1 DEF Waiting, Fired, SchedulerIdle
  <2>4. ~Superseded(t, a)
    BY <2>1, <2>3 DEF FreshInv
  <2>5. QED
    BY <1>0, <2>1, <2>2, <2>3, <2>4 DEF FreshInv, Superseded, Exists, Id, Att
<1>2. CASE RecordFired
  <2>1. PICK t \in TaskIds, a \in Attempts : t = scheduler[2] /\ a = scheduler[3]
    BY <1>2, SchedulerWork DEF RecordFired
  <2>2. /\ scheduler # SchedulerIdle /\ stream' = stream /\ schedule' = schedule
        /\ scheduler' = <<"recorded", t, a>>
        /\ RecordQueued(t, a) \/ UNCHANGED <<task, attempt>>
    BY <1>2, <2>1 DEF RecordFired, BestEffort, tcVars, SchedulerIdle
  <2>3. Live' = Live
    BY <1>0, <2>2 DEF Live, Acking, Entries
  <2>4. Waiting' \subseteq Waiting
    BY <2>1, <2>2 DEF Waiting, Fired, SchedulerIdle
  <2>5. \A e \in Live : e.id = t => a <= e.a
    BY <2>1, <2>2, MaxAttemptAssumption DEF SingleInv, OneEach, Live, Entries, Entry, Attempts
  <2>6. \A r \in Waiting : r[1] = t => a <= r[2]
    BY <2>1, <2>2, MaxAttemptAssumption DEF SingleInv, OneEach, Waiting, Retry, Attempts
  <2>7. \A s \in Slots : slot[s].pc = "schedule" /\ Id(s) = t => a <= Att(s)
    BY <2>5, HeldIsLive DEF SingleInv, Id, Att, Idle
  <2>8. QED
    BY <1>0, <2>2, <2>3, <2>4, <2>5, <2>6, <2>7, QueuedFresh
<1>3. CASE DeleteFired \/ LockExpires
  <2>1. stream' = stream /\ UNCHANGED <<task, attempt>>
    BY <1>3 DEF DeleteFired, LockExpires, tcVars
  <2>2. Live' = Live
    BY <1>0, <2>1 DEF Live, Acking, Entries
  <2>3. Waiting' \subseteq Waiting
    BY <1>3 DEF Waiting, Fired, DeleteFired, LockExpires, SchedulerIdle
  <2>4. QED
    BY <1>0, <2>1, <2>2, <2>3 DEF FreshInv, Superseded, Exists, Id, Att
<1>4. ~SchedulerCrash
  BY DEF SchedulerCrash, Fault, OneDelivery
<1>5. QED
  BY <1>1, <1>2, <1>3, <1>4 DEF SchedulerNext

-----------------------------------------------------------------------------
\* A slot that takes an entry.
LEMMA TakeFresh ==
  ASSUME OneDelivery, QTInv, SingleInv, FreshInv, NEW s \in Slots, TakesEntry(s)
  PROVE  FreshInv'
<1>1. /\ UNCHANGED <<scheduler, schedule, task, attempt>> /\ slot'[s].pc = "started"
      /\ \A r \in Slots : r # s => slot'[r] = slot[r]
  BY TakeEffect
<1>2. Live' = Live /\ Waiting' = Waiting
  BY <1>1, TakeSingle DEF Waiting, Fired
<1>3. QED
  BY <1>1, <1>2 DEF FreshInv, Superseded, Exists, Id, Att

\* A slot that executes is the only one that knows its task.
LEMMA ExecuteFresh ==
  ASSUME OneDelivery, QTInv, SingleInv, FreshInv, NEW s \in Slots, Executing(s)
  PROVE  FreshInv'
<1> USE DEF QTInv, QInv, SharedOK
<1>1. /\ slot[s] # Idle /\ \A r \in Slots : r # s => slot'[r] = slot[r]
      /\ scheduler' = scheduler
      /\ slot'[s] = Idle \/ (slot'[s] # Idle /\ slot'[s].entry = slot[s].entry)
  BY ExecuteEffect
<1>2. PICK t \in TaskIds, a \in Attempts : t = Id(s) /\ a = Att(s)
  BY ExecuteEffect
<1>3. slot[s].entry.id = t /\ slot[s].entry.a = a
  BY <1>2 DEF Id, Att
<1>4. \/ UNCHANGED <<task, attempt>>
      \/ slot[s].pc # "ack" /\ (RecordStarted(t, a) \/ RecordRetryScheduled(t, a))
      \/ slot[s].pc # "ack" /\ slot'[s].pc = "ack" /\ \E o \in Settled : RecordFinished(t, a, o)
  BY <1>2, SlotView DEF Executing, RecordStart, Claim, Succeed, Fail, GiveUp, RecordRetry, AddSchedule,
         AddScheduleFails, AddScheduleUnknown, Finish, Ack, WorkerCrash, BestEffort, tcVars, SlotOK
<1>5. slot'[s].pc = "schedule" => RecordRetryScheduled(t, a) /\ slot'[s] # Idle
  BY <1>2, SlotView DEF Executing, RecordStart, Claim, Succeed, Fail, GiveUp, RecordRetry, AddSchedule,
         AddScheduleFails, AddScheduleUnknown, Finish, Ack, WorkerCrash, Idle
<1>6. \/ schedule' = schedule
      \/ slot[s].pc = "schedule" /\ schedule' = schedule \cup {<<t, a + 1>>} /\ UNCHANGED <<task, attempt>>
  BY <1>2, SlotView DEF Executing, RecordStart, Claim, Succeed, Fail, GiveUp, RecordRetry, AddSchedule,
         AddScheduleFails, AddScheduleUnknown, Finish, Ack, WorkerCrash, tcVars
<1>7. Live' \subseteq Live /\ (slot[s].pc # "ack" /\ slot'[s].pc = "ack" => slot[s].entry \notin Live')
  BY ExecuteLive
<1>8. slot[s].pc # "ack" =>
        /\ \A e \in Live : e.id = t => e = slot[s].entry
        /\ \A r \in Waiting : r[1] # t
        /\ \A r \in Slots : r # s /\ slot[r].pc = "schedule" => Id(r) # t
  <2>1. SUFFICES ASSUME slot[s].pc # "ack"
                 PROVE  /\ \A e \in Live : e.id = t => e = slot[s].entry
                        /\ \A r \in Waiting : r[1] # t
                        /\ \A r \in Slots : r # s /\ slot[r].pc = "schedule" => Id(r) # t
    OBVIOUS
  <2>2. slot[s].entry \in Live
    BY <1>1, <2>1, HeldIsLive DEF SingleInv
  <2>3. \A r \in Slots : r # s /\ slot[r].pc = "schedule" => Id(r) # t
    BY <1>1, <1>2, <2>1, OneSlotEach DEF Idle
  <2>4. QED
    BY <1>3, <2>2, <2>3 DEF SingleInv, OneEach
<1>9. \A u \in TaskIds : u # t => /\ Exists(u)' <=> Exists(u)
                                  /\ task'[u] = task[u]
                                  /\ \A b : Superseded(u, b)' <=> Superseded(u, b)
  <2>1. \A u \in TaskIds : u # t => task'[u] = task[u]
    BY <1>4, EventTouchesOne
  <2>2. QED
    BY <2>1 DEF Exists, Superseded
<1>10. \A e \in Live' : ~Superseded(e.id, e.a)'
  <2>1. CASE UNCHANGED <<task, attempt>>
    BY <1>7, <2>1 DEF FreshInv, Superseded, Exists
  <2>2. CASE slot[s].pc # "ack" /\ (RecordStarted(t, a) \/ RecordRetryScheduled(t, a))
    <3>1. slot[s].entry \in Live
      BY <1>1, <2>2, HeldIsLive DEF SingleInv
    <3>2. ~Superseded(t, a)
      BY <1>3, <3>1 DEF FreshInv
    <3>3. ~Superseded(t, a)'
      BY <2>2, <3>2, EventKeepsFresh, MaxAttemptAssumption DEF Attempts
    <3>4. \A e \in Live : e.id \in TaskIds
      BY DEF Live, Entries, Entry
    <3>5. QED
      BY <1>3, <1>7, <1>8, <1>9, <2>2, <3>3, <3>4 DEF FreshInv
  <2>3. CASE slot[s].pc # "ack" /\ slot'[s].pc = "ack" /\ \E o \in Settled : RecordFinished(t, a, o)
    <3>1. \A e \in Live' : e.id \in TaskIds /\ e.id # t
      BY <1>7, <1>8, <2>3 DEF Live, Entries, Entry
    <3>2. QED
      BY <1>7, <1>9, <3>1 DEF FreshInv
  <2>4. QED
    BY <1>4, <2>1, <2>2, <2>3
<1>11. \A r \in Waiting' : ~Superseded(r[1], r[2])'
  <2>1. CASE schedule' = schedule
    <3>1. Waiting' = Waiting /\ \A r \in Waiting : r[1] \in TaskIds
      BY <1>1, <2>1 DEF Waiting, Fired, Retry
    <3>2. CASE UNCHANGED <<task, attempt>>
      BY <3>1, <3>2 DEF FreshInv, Superseded, Exists
    <3>3. CASE slot[s].pc # "ack"
      BY <1>8, <1>9, <3>1, <3>3 DEF FreshInv
    <3>4. QED
      BY <1>4, <3>2, <3>3
  <2>2. CASE slot[s].pc = "schedule" /\ schedule' = schedule \cup {<<t, a + 1>>} /\ UNCHANGED <<task, attempt>>
    <3>1. Waiting' \subseteq Waiting \cup {<<t, a + 1>>}
      BY <1>1, <2>2 DEF Waiting, Fired
    <3>2. task[t].cur = a
      BY <1>2, <2>2 DEF FreshInv
    <3>3. ~Superseded(t, a + 1)
      BY <3>2, MaxAttemptAssumption DEF Superseded, Attempts
    <3>4. QED
      BY <2>2, <3>1, <3>3 DEF FreshInv, Superseded, Exists
  <2>3. QED
    BY <1>6, <2>1, <2>2
<1>12. \A r \in Slots : slot'[r].pc = "schedule" => Exists(Id(r))' /\ task'[Id(r)'].cur = Att(r)'
  <2>1. slot'[s].pc = "schedule" => Exists(Id(s))' /\ task'[Id(s)'].cur = Att(s)'
    <3>1. SUFFICES ASSUME slot'[s].pc = "schedule" PROVE Exists(Id(s))' /\ task'[Id(s)'].cur = Att(s)'
      OBVIOUS
    <3>2. Id(s)' = t /\ Att(s)' = a
      BY <1>1, <1>3, <1>5, <3>1 DEF Id, Att
    <3>3. Exists(t)' /\ task'[t].cur = a
      BY <1>5, <3>1, EndedRowAfter DEF Settled
    <3>4. QED
      BY <3>2, <3>3
  <2>2. ASSUME NEW r \in Slots, r # s, slot[r].pc = "schedule"
        PROVE  Exists(Id(r))' /\ task'[Id(r)'].cur = Att(r)'
    <3>1. PICK u \in TaskIds, b \in Attempts : u = Id(r) /\ b = Att(r)
      BY <2>2, BusySlot
    <3>2. Id(r)' = u /\ Att(r)' = b
      BY <1>1, <2>2, <3>1 DEF Id, Att
    <3>3. Exists(u) /\ task[u].cur = b
      BY <2>2, <3>1 DEF FreshInv
    <3>4. Exists(u)' /\ task'[u] = task[u]
      BY <1>4, <1>8, <1>9, <2>2, <3>1, <3>3 DEF Exists
    <3>5. QED
      BY <3>2, <3>3, <3>4
  <2>3. QED
    BY <1>1, <2>1, <2>2
<1>13. QED
  BY <1>10, <1>11, <1>12 DEF FreshInv

\* Every step keeps the invariant.
LEMMA NextFreshInv ==
  ASSUME OneDelivery, QTInv, QuietInv, SingleInv, FreshInv, [Next]_vars
  PROVE  FreshInv'
<1>1. CASE UNCHANGED vars
  BY <1>1 DEF vars, queueVars, tcVars, FreshInv, Superseded, Exists, Live, Acking, Waiting, Fired, Entries, Id, Att
<1>2. QED
  BY <1>1, ProducerFresh, SchedulerFresh, TakeFresh, ExecuteFresh, WorkerCases DEF Next

\* Who will release the key of task t.
Keeps(t) ==
  \/ producer[t] \in {"reserved", "refused"}
  \/ \E r \in Waiting : r[1] = t
  \/ \E e \in Live : e.id = t /\ \A s \in Slots : slot[s] # Idle /\ slot[s].entry = e => slot[s].pc # "finish"

KeptInv ==
  /\ lock # NoOwner => Keeps(lock)
  /\ Kind = "post" => \A s \in Slots :
       /\ slot[s].pc = "error" /\ IsFinal(s) => lock # Id(s)
       /\ slot[s].pc # "giveup"

\* The failures under which a key may be left behind: those under which an
\* attempt runs twice, the death of the caller, a reservation whose reply is
\* lost, a release whose failure is only logged, and, for the recovery of posts
\* (whose key _release_failed_retry_lock does not know), a retry that cannot be
\* scheduled and a claim or release that raises in the task.
LocksAreSafe ==
  /\ OneDelivery
  /\ FaultKinds \cap {"producer_crash", "reserve_reply_lost", "release_logged"} = {}
  /\ Kind = "post" => FaultKinds \cap {"schedule_fails", "call_raises"} = {}

\* A release that raises is one in a task body, and not of a post recovery.
LEMMA RaisesSafe ==
  ASSUME LocksAreSafe, NEW t
  PROVE  /\ ~ReleaseRaises(t, "release_logged")
         /\ Kind = "post" => ~ReleaseRaises(t, "call_raises") /\ ~Fault("call_raises")
BY DEF LocksAreSafe, ReleaseRaises, Fault

\* Initially the key is free.
LEMMA InitKeptInv == Init => KeptInv
BY DEF Init, KeptInv, Idle

\* The calls: the owner is on its way to publish, or has.
LEMMA ProducerKept ==
  ASSUME LocksAreSafe, QTInv, QuietInv, SingleInv, KeptInv, NEW t \in TaskIds, ProducerNext(t) \/ ProducerCrash(t)
  PROVE  KeptInv'
<1> USE DEF QTInv, QInv, SharedOK
<1>0. UNCHANGED <<slot, pending, scheduler, schedule>>
  BY DEF ProducerNext, Reserve, Publish, RecordSent, RollbackLock, RollbackRecord, RollbackMark, ProducerCrash
<1>w. Waiting' = Waiting
  BY <1>0 DEF Waiting, Fired
<1>s. stream' = stream \/ AddEntry(t, FirstAttempt)
  BY DEF ProducerNext, Reserve, Publish, RecordSent, RollbackLock, RollbackRecord, RollbackMark, ProducerCrash
<1>l. Live \subseteq Live'
  <2>1. CASE stream' = stream
    BY <1>0, <2>1 DEF Live, Acking, Entries
  <2>2. CASE AddEntry(t, FirstAttempt)
    BY <1>0, <2>2, FirstIsAttempt, AddEntrySingle
  <2>3. QED
    BY <1>s, <2>1, <2>2
<1>k. \A u \in TaskIds : Keeps(u) /\ producer'[u] = producer[u] => Keeps(u)'
  BY <1>0, <1>w, <1>l DEF Keeps
<1>p. \A u \in TaskIds : u # t => producer'[u] = producer[u]
  BY ProducerOthers
<1>1. lock' # NoOwner => Keeps(lock)'
  <2>1. CASE Reserve(t)
    <3>1. producer[t] = "new" /\ \A u \in TaskIds : Keeps(u) => Keeps(u)'
      BY <1>0, <1>w, <1>l, <1>p, <2>1 DEF Reserve, SetProducer, Keeps
    <3>2. CASE lock' = lock
      BY <3>1, <3>2 DEF KeptInv
    <3>3. CASE lock' = t /\ producer' = [producer EXCEPT ![t] = "reserved"]
      BY <3>3 DEF Keeps
    <3>4. ~Fault("reserve_reply_lost")
      BY DEF Fault, LocksAreSafe
    <3>5. QED
      BY <2>1, <3>2, <3>3, <3>4 DEF Reserve, SetProducer
  <2>2. CASE Publish(t)
    <3>1. producer[t] = "reserved" /\ lock' = lock
      BY <2>2 DEF Publish, SetProducer
    <3>2. CASE producer'[t] = "refused"
      BY <1>k, <1>p, <3>1, <3>2 DEF Keeps, KeptInv
    <3>3. CASE producer'[t] # "refused"
      <4>1. AddEntry(t, FirstAttempt)
        BY <2>2, <3>3 DEF Publish, SetProducer
      <4>2. PICK e \in Entry : e.id = t /\ Live' = Live \cup {e}
                               /\ \A s \in Slots : slot[s] # Idle => slot[s].entry # e
        BY <1>0, <4>1, FirstIsAttempt, AddEntrySingle
      <4>3. Keeps(t)'
        BY <1>0, <4>2 DEF Keeps
      <4>4. QED
        BY <1>k, <1>p, <3>1, <4>3 DEF KeptInv
    <3>4. QED
      BY <3>2, <3>3
  <2>3. CASE RollbackLock(t)
    BY <1>k, <1>p, <2>3, RaisesSafe DEF RollbackLock, SetProducer, ReleaseLock, KeptInv
  <2>4. CASE RecordSent(t) \/ RollbackRecord(t) \/ RollbackMark(t)
    <3>1. producer[t] \notin {"reserved", "refused"} /\ lock' = lock
      BY <2>4 DEF RecordSent, RollbackRecord, RollbackMark, SetProducer
    <3>2. Keeps(t) => Keeps(t)'
      BY <1>0, <1>w, <1>l, <3>1 DEF Keeps
    <3>3. QED
      BY <1>k, <1>p, <3>1, <3>2 DEF KeptInv
  <2>5. ~ProducerCrash(t)
    BY DEF ProducerCrash, Fault, LocksAreSafe
  <2>6. QED
    BY <2>1, <2>2, <2>3, <2>4, <2>5 DEF ProducerNext
<1>2. ASSUME Kind = "post", NEW s \in Slots, slot[s].pc = "error", IsFinal(s) PROVE lock' # Id(s)
  <2>1. lock' \in {lock, NoOwner} \/ (lock' = t /\ producer[t] = "new")
    BY DEF ProducerNext, Reserve, Publish, RecordSent, RollbackLock, RollbackRecord, RollbackMark,
           ProducerCrash, SetProducer, ReleaseLock, ReleaseRaises
  <2>2. slot[s] # Idle /\ Id(s) \in TaskIds /\ Id(s) # NoOwner
    BY <1>2, BusySlot, SlotView, QueueAssumption
  <2>3. producer[t] = "new" => Id(s) # t
    BY <2>2 DEF QuietInv, Alone, Quiet
  <2>4. QED
    BY <1>2, <2>1, <2>2, <2>3 DEF KeptInv
<1>3. QED
  BY <1>0, <1>1, <1>2 DEF KeptInv, Id, IsFinal, Att

\* The scheduler turns the waiting retry of the owner into an entry.
LEMMA SchedulerKept ==
  ASSUME LocksAreSafe, QTInv, SingleInv, KeptInv, SchedulerNext \/ SchedulerCrash \/ LockExpires
  PROVE  KeptInv'
<1> USE DEF QTInv, QInv, SharedOK
<1>0. UNCHANGED <<slot, pending, producer>> /\ (lock' = lock \/ lock' = NoOwner)
  BY DEF SchedulerNext, FireRetry, RecordFired, DeleteFired, SchedulerCrash, LockExpires
<1>1. ASSUME Kind = "post", NEW s \in Slots, slot[s].pc = "error", IsFinal(s) PROVE lock' # Id(s)
  BY <1>0, <1>1, BusySlot, QueueAssumption DEF KeptInv
<1>2. ASSUME NEW u \in TaskIds, Keeps(u) PROVE Keeps(u)'
  <2>1. ASSUME NEW t \in TaskIds, NEW a \in Attempts, FireRetry(t, a) PROVE Keeps(u)'
    <3>1. AddEntry(t, a) /\ scheduler = SchedulerIdle /\ scheduler' = <<"sent", t, a>> /\ schedule' = schedule
      BY <2>1 DEF FireRetry
    <3>2. PICK e \in Entry : e.id = t /\ Live' = Live \cup {e}
                             /\ \A s \in Slots : slot[s] # Idle => slot[s].entry # e
      BY <1>0, <3>1, AddEntrySingle
    <3>3. Keeps(t)'
      BY <1>0, <3>2 DEF Keeps
    <3>4. \A r \in Waiting : r[1] # t => r \in Waiting'
      BY <3>1 DEF Waiting, Fired, SchedulerIdle
    <3>5. u # t => Keeps(u)'
      BY <1>0, <1>2, <3>2, <3>4 DEF Keeps
    <3>6. QED
      BY <3>3, <3>5
  <2>2. CASE RecordFired \/ DeleteFired \/ LockExpires
    <3>1. Live' = Live
      BY <1>0, <2>2 DEF RecordFired, DeleteFired, LockExpires, Live, Acking, Entries
    <3>2. Waiting \subseteq Waiting'
      BY <2>2 DEF RecordFired, DeleteFired, LockExpires, Waiting, Fired, SchedulerIdle
    <3>3. QED
      BY <1>0, <1>2, <3>1, <3>2 DEF Keeps
  <2>3. ~SchedulerCrash
    BY DEF SchedulerCrash, Fault, LocksAreSafe, OneDelivery
  <2>4. QED
    BY <2>1, <2>2, <2>3 DEF SchedulerNext
<1>3. QED
  BY <1>0, <1>1, <1>2 DEF KeptInv, Id, IsFinal, Att

-----------------------------------------------------------------------------
\* The workers: taking an entry changes no key, ...
LEMMA TakeKept ==
  ASSUME LocksAreSafe, QTInv, SingleInv, KeptInv, NEW s \in Slots, TakesEntry(s)
  PROVE  KeptInv'
<1>1. /\ UNCHANGED <<producer, scheduler, schedule, lock>> /\ slot'[s].pc = "started"
      /\ slot[s] = Idle /\ \A r \in Slots : r # s => slot'[r] = slot[r]
  BY TakeEffect
<1>2. Live' = Live /\ Waiting' = Waiting
  BY <1>1, TakeSingle DEF LocksAreSafe, Waiting, Fired
<1>3. \A u : Keeps(u) => Keeps(u)'
  BY <1>1, <1>2 DEF Keeps
<1>4. QED
  BY <1>1, <1>3 DEF KeptInv, Id, IsFinal, Att

\* What a slot does to the key.
LEMMA ExecuteLock ==
  ASSUME LocksAreSafe, QTInv, SingleInv, FreshInv, KeptInv, NEW s \in Slots, Executing(s)
  PROVE  /\ \/ lock' \in {lock, NoOwner}
            \/ /\ lock \in {NoOwner, Id(s)} /\ lock' = Id(s)
               /\ slot[s].pc = "claim" /\ slot'[s].pc \in {"body", "error"}
         /\ Kind = "post" => /\ slot'[s].pc = "error" /\ IsFinal(s) => lock' # Id(s)
                            /\ slot'[s].pc # "giveup"
         /\ slot'[s].pc = "finish" => lock' # Id(s)
         /\ slot[s].pc = "finish" => lock' = lock
         /\ slot[s].pc # "ack" /\ slot'[s].pc = "ack" => slot[s].pc = "finish" \/ AddSchedule(s)
<1> USE DEF QTInv, QInv, SharedOK
<1>0. slot[s] # Idle /\ Id(s) \in TaskIds /\ Id(s) # NoOwner
  BY ExecuteEffect, QueueAssumption
<1>1. \/ lock' \in {lock, NoOwner}
      \/ /\ lock \in {NoOwner, Id(s)} /\ lock' = Id(s)
         /\ slot[s].pc = "claim" /\ slot'[s].pc \in {"body", "error"}
  BY SlotView DEF Executing, RecordStart, Claim, Succeed, Fail, GiveUp, RecordRetry, AddSchedule,
         AddScheduleFails, AddScheduleUnknown, Finish, Ack, WorkerCrash, ReleaseLock, ReleaseRaises,
         ReleaseFailedRetry
<1>2. slot'[s].pc \in {"error", "giveup"} => Claim(s) \/ Succeed(s) \/ Fail(s) \/ AddScheduleFails(s)
  BY SlotView DEF Executing, RecordStart, GiveUp, RecordRetry, AddSchedule,
         AddScheduleUnknown, Finish, Ack, WorkerCrash, Idle
<1>3. ASSUME Kind = "post"
      PROVE  /\ slot'[s].pc = "error" /\ IsFinal(s) => lock' # Id(s)
             /\ slot'[s].pc # "giveup"
  <2>1. slot'[s].pc \in {"error", "giveup"} => Fail(s)
    <3>1. ~Fault("schedule_fails")
      BY <1>3 DEF LocksAreSafe, Fault
    <3>2. QED
      BY <1>2, <1>3, <3>1, SlotView, RaisesSafe DEF Claim, Succeed, AddScheduleFails
  <2>2. QED
    BY <1>0, <1>3, <2>1, SlotView, RaisesSafe DEF Fail, ReleaseLock
<1>5. ASSUME slot'[s].pc = "finish" PROVE lock' # Id(s)
  <2>1. Claim(s) \/ Succeed(s) \/ GiveUp(s)
    BY <1>5, SlotView DEF Executing, RecordStart, Fail, RecordRetry, AddSchedule, AddScheduleFails,
         AddScheduleUnknown, Finish, Ack, WorkerCrash, Idle
  <2>2. CASE Claim(s) \/ Succeed(s)
    BY <1>0, <1>5, <2>2, SlotView DEF Claim, Succeed, ReleaseLock
  <2>3. CASE GiveUp(s)
    <3>1. Kind = "post" => lock # Id(s)
      BY <2>3, SlotView DEF GiveUp, KeptInv
    <3>2. QED
      BY <1>0, <2>3, <3>1, RaisesSafe DEF GiveUp, ReleaseFailedRetry, ReleaseLock
  <2>4. QED
    BY <2>1, <2>2, <2>3
<1>6. slot[s].pc = "finish" => lock' = lock
  BY SlotView DEF Executing, RecordStart, Claim, Succeed, Fail, GiveUp, RecordRetry, AddSchedule,
         AddScheduleFails, AddScheduleUnknown, Finish, Ack, WorkerCrash
<1>7. ASSUME slot[s].pc # "ack", slot'[s].pc = "ack" PROVE slot[s].pc = "finish" \/ AddSchedule(s)
  <2>1. ~Superseded(Id(s), Att(s))
    BY <1>0, <1>7, HeldIsLive DEF SingleInv, FreshInv, Id, Att
  <2>2. QED
    BY <1>7, <2>1, SlotView DEF Executing, RecordStart, Claim, Succeed, Fail, GiveUp, RecordRetry,
         AddScheduleFails, AddScheduleUnknown, Finish, Ack, WorkerCrash, Idle
<1>8. QED
  BY <1>1, <1>3, <1>5, <1>6, <1>7

\* ... and whoever stops executing for the owner leaves its entry, its retry or
\* a key that is released.
LEMMA ExecuteKept ==
  ASSUME LocksAreSafe, QTInv, SingleInv, FreshInv, KeptInv, NEW s \in Slots, Executing(s)
  PROVE  KeptInv'
<1> USE DEF QTInv, QInv, SharedOK
<1>1. /\ UNCHANGED <<producer, scheduler>> /\ slot[s] # Idle
      /\ \A r \in Slots : r # s => slot'[r] = slot[r]
      /\ slot'[s] = Idle \/ (slot'[s] # Idle /\ slot'[s].entry = slot[s].entry)
      /\ schedule \subseteq schedule'
  BY ExecuteEffect
<1>2. PICK t \in TaskIds, a \in Attempts : t = Id(s) /\ a = Att(s)
  BY ExecuteEffect
<1>3. slot[s].entry.id = t /\ slot[s].entry.a = a /\ t # NoOwner
  BY <1>2, QueueAssumption DEF Id, Att
<1>4. Waiting \subseteq Waiting'
  BY <1>1 DEF Waiting, Fired
<1>l. /\ slot[s].pc = "ack" => Live' = Live
      /\ slot[s].pc # "ack" /\ slot'[s].pc # "ack" => Live' = Live
      /\ slot[s].pc # "ack" /\ slot'[s].pc = "ack" => Live' = Live \ {slot[s].entry}
  BY ExecuteLive DEF LocksAreSafe
<1>h. slot[s].pc # "ack" => slot[s].entry \in Live
  BY <1>1, HeldIsLive DEF SingleInv
<1>u. Live \ {slot[s].entry} \subseteq Live'
  BY <1>l
\* The key of another task is kept as before.
<1>5. ASSUME NEW u, u # t, Keeps(u) PROVE Keeps(u)'
  <2>1. \A e \in Live : e.id = u => e \in Live'
    BY <1>3, <1>5, <1>u
  <2>2. \A e \in Live : e.id = u => \A r \in Slots : slot'[r] # Idle /\ slot'[r].entry = e => slot'[r] = slot[r]
    BY <1>1, <1>3, <1>5
  <2>3. QED
    BY <1>1, <1>4, <1>5, <2>1, <2>2 DEF Keeps
\* The key of the slot's own task is kept by its entry, or by the retry.
<1>6. ASSUME lock' = t PROVE Keeps(t)'
  <2>1. CASE slot[s].pc = "ack"
    <3>1. Live' = Live /\ lock = t
      BY <1>l, <1>2, <1>3, <1>6, <2>1, ExecuteLock
    <3>2. slot'[s] = Idle
      <4>1. Ack(s)
        <5>1. ~WorkerCrash(s)
          BY DEF WorkerCrash, Fault, LocksAreSafe, OneDelivery
        <5>2. QED
          BY <2>1, <5>1, SlotView DEF Executing, RecordStart, Claim, Succeed, Fail, GiveUp, RecordRetry, AddSchedule,
             AddScheduleFails, AddScheduleUnknown, Finish
      <4>2. QED
        BY <4>1, SlotView DEF Ack
    <3>3. Keeps(t)
      BY <1>3, <3>1 DEF KeptInv
    <3>4. QED
      BY <1>1, <1>4, <3>1, <3>2, <3>3 DEF Keeps
  <2>2. CASE slot[s].pc # "ack" /\ slot'[s].pc # "ack"
    <3>1. slot'[s].pc # "finish"
      BY <1>2, <1>6, ExecuteLock
    <3>2. \A r \in Slots : slot'[r] # Idle /\ slot'[r].entry = slot[s].entry => r = s
      BY <1>1 DEF SingleInv, Held
    <3>3. slot[s].entry \in Live'
      BY <1>l, <1>h, <2>2
    <3>4. QED
      BY <1>3, <3>1, <3>2, <3>3 DEF Keeps
  <2>3. CASE AddSchedule(s) /\ slot[s].pc # "ack"
    <3>1. schedule' = schedule \cup {<<t, a + 1>>}
      BY <1>2, <2>3 DEF AddSchedule
    <3>2. scheduler # SchedulerIdle /\ scheduler[2] = t => scheduler[3] \in Attempts /\ a >= scheduler[3]
      BY <1>3, <1>h, <2>3 DEF SingleInv, OneEach, SchedulerIdle
    <3>3. ~Fired(<<t, a + 1>>)
      BY <3>2, MaxAttemptAssumption DEF Fired, Attempts
    <3>4. <<t, a + 1>> \in Waiting'
      BY <1>1, <3>1, <3>3 DEF Waiting, Fired
    <3>5. QED
      BY <3>4 DEF Keeps
  <2>4. CASE slot[s].pc = "finish" /\ slot'[s].pc = "ack"
    <3>1. lock = t
      BY <1>6, <2>4, ExecuteLock
    <3>2. Keeps(t)
      BY <1>3, <3>1 DEF KeptInv
    <3>3. \A e \in Live : e.id = t => e = slot[s].entry
      BY <1>3, <1>h, <2>4 DEF SingleInv, OneEach
    <3>4. ~\E e \in Live : e.id = t /\ \A r \in Slots : slot[r] # Idle /\ slot[r].entry = e => slot[r].pc # "finish"
      BY <1>1, <2>4, <3>3
    <3>5. QED
      BY <1>1, <1>4, <3>2, <3>4 DEF Keeps
  <2>5. QED
    BY <2>1, <2>2, <2>3, <2>4, ExecuteLock
<1>7. lock' # NoOwner => Keeps(lock)'
  <2>1. lock' \in {lock, NoOwner, t}
    BY <1>2, ExecuteLock
  <2>2. QED
    BY <1>5, <1>6, <2>1 DEF KeptInv
<1>8. ASSUME Kind = "post", NEW r \in Slots, slot'[r].pc = "error", IsFinal(r)' PROVE lock' # Id(r)'
  <2>1. CASE r = s
    <3>1. slot'[s].entry = slot[s].entry
      BY <1>1, <1>8, <2>1 DEF Idle
    <3>2. IsFinal(s) /\ Id(s)' = Id(s)
      BY <1>8, <2>1, <3>1 DEF IsFinal, Att, Id
    <3>3. QED
      BY <1>8, <2>1, <3>2, ExecuteLock
  <2>2. CASE r # s
    <3>1. slot'[r] = slot[r] /\ Id(r)' = Id(r) /\ IsFinal(r)
      BY <1>1, <1>8, <2>2 DEF Id, IsFinal, Att
    <3>2. lock # Id(r) /\ slot[r] # Idle /\ Id(r) # NoOwner
      BY <1>8, <3>1, BusySlot, SlotView, QueueAssumption DEF KeptInv
    <3>3. slot[s].pc = "claim" => Id(r) # t
      BY <1>1, <1>2, <1>8, <2>2, <3>1, <3>2, OneSlotEach
    <3>4. QED
      BY <1>2, <3>1, <3>2, <3>3, ExecuteLock
  <2>3. QED
    BY <2>1, <2>2
<1>9. Kind = "post" => \A r \in Slots : slot'[r].pc # "giveup"
  BY <1>1, ExecuteLock DEF KeptInv
<1>10. QED
  BY <1>7, <1>8, <1>9 DEF KeptInv

\* Every step keeps the invariant.
LEMMA NextKeptInv ==
  ASSUME LocksAreSafe, QTInv, QuietInv, SingleInv, FreshInv, KeptInv, [Next]_vars
  PROVE  KeptInv'
<1>1. CASE UNCHANGED vars
  BY <1>1 DEF vars, queueVars, KeptInv, Keeps, Live, Acking, Waiting, Fired, Entries, Id, Att, IsFinal
<1>2. QED
  BY <1>1, ProducerKept, SchedulerKept, TakeKept, ExecuteKept, WorkerCases DEF Next

\* The invariant contains the property the runs check.
LEMMA KeptLocks == QTInv /\ KeptInv => LockIsBacked
<1> SUFFICES ASSUME QTInv, KeptInv, lock # NoOwner PROVE InFlight(lock)
  BY DEF LockIsBacked
<1>1. Keeps(lock)
  BY DEF KeptInv
<1>2. \A r \in Waiting : r[2] \in Attempts /\ r = <<r[1], r[2]>> /\ r \in schedule
  BY DEF Waiting, QTInv, QInv, SharedOK, Retry
<1>3. QED
  BY <1>1, <1>2 DEF Keeps, InFlight, Live, Entries, Returned

\* The key of the target is held only for a task in flight, under every failure
\* but those LocksAreSafe names: with any of them the code does leave a key
\* behind until its TTL.
THEOREM QueueLockBacked ==
  ASSUME LocksAreSafe
  PROVE  Spec => []LockIsBacked
<1> DEFINE I == QTInv /\ QuietInv /\ SingleInv /\ FreshInv /\ KeptInv
<1>1. Init => I
  BY InitQTInv, InitQuietInv, InitSingleInv, InitFreshInv, InitKeptInv
<1>2. I /\ [Next]_vars => I'
  BY NextQTInv, NextQuietInv, NextSingleInv, NextFreshInv, NextKeptInv DEF LocksAreSafe, OneDelivery, NoReplyLost
<1>3. I => LockIsBacked
  BY KeptLocks
<1>4. QED
  BY <1>1, <1>2, <1>3, PTL DEF Spec

=============================================================================
