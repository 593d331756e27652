----------------------------- MODULE TaskCenter -----------------------------
(***************************************************************************)
(* The lifecycle tables of src/archivex/task_center.py: one row of         *)
(* queue_tasks per logical task and one row of queue_attempts per          *)
(* execution attempt of it.                                                *)
(*                                                                         *)
(* Every record_* method is one SQLite transaction (the _write context     *)
(* manager), hence one action; record_publish_failed is two transactions,  *)
(* record_queued and then a separate update, hence two actions.  The       *)
(* callers are several processes (API, scheduler, workers) whose calls are *)
(* best effort, repeated after a redelivery and not ordered between them,  *)
(* so TCNext lets any event arrive at any time.  TaskQueue composes the    *)
(* same actions with the broker, the lock and the workers that emit them.  *)
(***************************************************************************)
EXTENDS Naturals, FiniteSets

CONSTANTS
  TaskIds,     \* ids of logical tasks
  MaxAttempt   \* the max_retries label: attempts are numbered 1..MaxAttempt

ASSUME MaxAttemptAssumption == MaxAttempt \in Nat \ {0}

VARIABLES
  task,     \* [TaskIds -> row of queue_tasks]
  attempt   \* [TaskIds -> [Attempts -> status of the queue_attempts row]]

tcVars == <<task, attempt>>

Attempts == 1 .. MaxAttempt
FirstAttempt == 1

Terminal == {"completed", "failure", "abandoned"}
Statuses == {"queued", "in_progress", "retry_scheduled"} \cup Terminal

\* An attempt that finished with an outcome; "abandoned" is not one.
Settled == {"completed", "failure"}

\* The columns the state machine decides on or shows: status,
\* current_attempt, whether next_retry_at is set, whether error is set.
Row == [status : Statuses \cup {"none"}, cur : 0 .. MaxAttempt,
        next : BOOLEAN, error : BOOLEAN]

NoTask == [status |-> "none", cur |-> 0, next |-> FALSE, error |-> FALSE]

NewRow(status, a) == [status |-> status, cur |-> a, next |-> FALSE, error |-> FALSE]

Exists(t) == task[t] # NoTask

\* INSERT OR IGNORE of the logical row.
Ensured(t, a) == IF Exists(t) THEN task[t] ELSE NewRow("queued", a)

-----------------------------------------------------------------------------
TCInit ==
  /\ task = [t \in TaskIds |-> NoTask]
  /\ attempt = [t \in TaskIds |-> [a \in Attempts |-> "none"]]

SetTask(t, row) == task' = [task EXCEPT ![t] = row]
SetAttempt(t, a, status) == attempt' = [attempt EXCEPT ![t][a] = status]

\* Mutant: the retry time survives a new publication.
QueuedRowKeepsNext(row, a) ==
  IF row.cur < a THEN NewRow("queued", a)
  ELSE IF row.cur > a THEN row
  ELSE [row EXCEPT
          !.status = IF @ \in {"queued", "retry_scheduled", "abandoned"}
                       THEN "queued" ELSE @]

\* Mutant: a late publication record reopens whatever the row shows.
QueuedRowReopens(row, a) ==
  IF row.cur < a THEN NewRow("queued", a)
  ELSE IF row.cur > a THEN row
  ELSE [row EXCEPT !.next = FALSE, !.status = "queued"]

\* The row after record_queued: a newer attempt starts the row afresh, the
\* same attempt only moves a row that has not started or finished.
QueuedRow(row, a) ==
  IF row.cur < a THEN NewRow("queued", a)
  ELSE IF row.cur > a THEN row
  ELSE [row EXCEPT
          !.next = FALSE,
          !.status = IF @ \in {"queued", "retry_scheduled", "abandoned"}
                       THEN "queued" ELSE @]

RecordQueued(t, a) ==
  /\ SetTask(t, QueuedRow(Ensured(t, a), a))
  /\ SetAttempt(t, a, IF attempt[t][a] = "none" THEN "queued" ELSE attempt[t][a])

\* Mutant: a newer attempt does not advance current_attempt.
StartedRowKeepsCurrent(row, a) ==
  IF row.cur > a THEN row
  ELSE [row EXCEPT
          !.next = FALSE,
          !.status = IF @ \in Settled THEN @ ELSE "in_progress"]

StartedRow(row, a) ==
  IF row.cur < a THEN NewRow("in_progress", a)
  ELSE IF row.cur > a THEN row
  ELSE [row EXCEPT
          !.next = FALSE,
          !.status = IF @ \in Settled THEN @ ELSE "in_progress"]

\* Mutant: the attempt row is overwritten although it has ended.
RecordStartedOverwrites(t, a) ==
  /\ SetTask(t, StartedRow(Ensured(t, a), a))
  /\ SetAttempt(t, a, "in_progress")

RecordStarted(t, a) ==
  /\ SetTask(t, StartedRow(Ensured(t, a), a))
  /\ SetAttempt(t, a,
       IF attempt[t][a] \in Settled THEN attempt[t][a] ELSE "in_progress")

\* Mutant: the comparison with a newer attempt is dropped.
SupersededByStatus(t, a) ==
  Exists(t) /\ task[t].cur = a /\ task[t].status \in Terminal

\* The test with which record_finished and record_retry_scheduled return
\* False: a newer attempt is known, or this one already ended.
Superseded(t, a) ==
  /\ Exists(t)
  /\ \/ task[t].cur > a
     \/ task[t].cur = a /\ task[t].status \in Terminal

RecordFinished(t, a, outcome) ==
  /\ ~Superseded(t, a)
  /\ SetTask(t, [status |-> outcome, cur |-> a,
                 next |-> FALSE, error |-> (outcome = "failure")])
  /\ SetAttempt(t, a, outcome)

RecordRetryScheduled(t, a) ==
  /\ ~Superseded(t, a)
  /\ SetTask(t, [status |-> "retry_scheduled", cur |-> a,
                 next |-> TRUE, error |-> TRUE])
  /\ SetAttempt(t, a, "failure")

\* The second transaction of record_publish_failed.  It compares neither the
\* attempt nor the status, and does nothing when the rows are gone.
MarkPublishFailed(t, a) ==
  /\ Exists(t)
  /\ task' = [task EXCEPT ![t].status = "abandoned", ![t].error = TRUE]
  /\ attempt' = [attempt EXCEPT
       ![t][a] = IF @ = "none" THEN "none" ELSE "abandoned"]

\* abandon_queued_task leaves the attempt row and next_retry_at as they are.
AbandonQueued(t) ==
  /\ task[t].status \in {"queued", "retry_scheduled"}
  /\ task' = [task EXCEPT ![t].status = "abandoned", ![t].error = TRUE]
  /\ UNCHANGED attempt

\* delete_task_history(None) takes every terminal row, delete_task_history(s)
\* those of one terminal status; the foreign key cascades to the attempts.
DeleteHistory(statuses) ==
  LET gone == {t \in TaskIds : task[t].status \in statuses}
  IN  /\ statuses \in {Terminal} \cup {{s} : s \in Terminal}
      /\ gone # {}
      /\ task' = [t \in TaskIds |-> IF t \in gone THEN NoTask ELSE task[t]]
      /\ attempt' = [t \in TaskIds |->
            IF t \in gone THEN [a \in Attempts |-> "none"] ELSE attempt[t]]

\* Only the first publication of a task goes through record_publish_failed:
\* the labels of enqueue_* carry no _retries.
TCNext ==
  \/ \E t \in TaskIds, a \in Attempts : RecordQueued(t, a)
  \/ \E t \in TaskIds, a \in Attempts : RecordStarted(t, a)
  \/ \E t \in TaskIds, a \in Attempts, o \in Settled : RecordFinished(t, a, o)
  \/ \E t \in TaskIds, a \in Attempts : RecordRetryScheduled(t, a)
  \/ \E t \in TaskIds : MarkPublishFailed(t, FirstAttempt)
  \/ \E t \in TaskIds : AbandonQueued(t)
  \/ \E statuses \in SUBSET Terminal : DeleteHistory(statuses)

TCSpec == TCInit /\ [][TCNext]_tcVars

-----------------------------------------------------------------------------
\* The rows have their types.
TCTypeOK ==
  /\ task \in [TaskIds -> Row]
  /\ attempt \in [TaskIds -> [Attempts -> Statuses \cup {"none"}]]

\* current_attempt names the newest attempt that has a row, that row exists,
\* and no attempt row outlives its task: lost, late and repeated events of
\* several attempts never separate the two tables
\* (record_* of task_center.py, ON DELETE CASCADE).
CurrentIsNewest ==
  \A t \in TaskIds :
    /\ Exists(t) => task[t].cur \in Attempts /\ attempt[t][task[t].cur] # "none"
    /\ \A a \in Attempts : attempt[t][a] # "none" => Exists(t) /\ a <= task[t].cur

\* A task shown as completed or failed shows the outcome recorded for its
\* current attempt, and one waiting for a retry has that attempt recorded as
\* failed, although record_started, record_queued and record_finished update
\* the two tables by different rules.
RowMatchesAttempt ==
  \A t \in TaskIds :
    /\ task[t].status \in Settled => attempt[t][task[t].cur] = task[t].status
    /\ task[t].status = "retry_scheduled" => attempt[t][task[t].cur] = "failure"

\* A task waits for a retry exactly while it has a retry time and an error to
\* show; the readiness probe counts overdue retries by these columns.  Only an
\* abandoned row may keep a stale retry time.
RetryHasDeadline ==
  \A t \in TaskIds :
    /\ task[t].status = "retry_scheduled" => task[t].next /\ task[t].error
    /\ task[t].next => task[t].status \in {"retry_scheduled", "abandoned"}

\* QUEUE_SYSTEM_FIXES.md: an event of the same attempt cannot downgrade
\* completed or failure, only a higher attempt advances the logical task.
\* This is what every transaction but MarkPublishFailed preserves.
KeepsSettled(t) ==
  task[t].status \in Settled =>
    \/ task'[t] = NoTask
    \/ task'[t].status = task[t].status /\ task'[t].cur = task[t].cur
    \/ task'[t].cur > task[t].cur

\* No event downgrades a settled task, except the one write that does not
\* look at the row, the mark of a failed publication.
SettledStep ==
  \A t \in TaskIds : ~MarkPublishFailed(t, FirstAttempt) => KeepsSettled(t)

SettledOnlyAdvances == [][SettledStep]_tcVars

\* current_attempt of a row never decreases while the row lives, and a row
\* disappears only from a terminal status.
AttemptStep ==
  \A t \in TaskIds : Exists(t) =>
    \/ task'[t].cur >= task[t].cur
    \/ task'[t] = NoTask /\ task[t].status \in Terminal

AttemptNeverDecreases == [][AttemptStep]_tcVars
=============================================================================
