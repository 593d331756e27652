-------------------------- MODULE TaskCenterProofs --------------------------
(***************************************************************************)
(* The lifecycle tables keep their invariants for every set of tasks and   *)
(* every number of attempts, whatever events arrive in whatever order.     *)
(***************************************************************************)
EXTENDS TaskCenter, TLAPS

\* The conjunction that is inductive: RowMatchesAttempt alone is not, since a
\* row may only be compared with the attempt its current_attempt names.
TCInv ==
  /\ TCTypeOK
  /\ CurrentIsNewest
  /\ RowMatchesAttempt
  /\ RetryHasDeadline

\* The tables start empty.
LEMMA InitTCInv == TCInit => TCInv
  BY MaxAttemptAssumption
     DEF Attempts, TCInit, TCInv, TCTypeOK, CurrentIsNewest, RowMatchesAttempt,
         RetryHasDeadline, NoTask, Row, Exists, Statuses, Terminal, Settled

\* One transaction on task t and attempt a: it is enough that the new row and
\* the new attempt status agree with each other.  The other tasks, and the
\* other attempts of t, are those of before.
LEMMA WriteOne ==
  ASSUME TCInv, NEW t \in TaskIds, NEW a \in Attempts, NEW row \in Row,
         NEW status \in Statuses,
         SetTask(t, row), SetAttempt(t, a, status),
         row.cur \in Attempts, a <= row.cur,
         Exists(t) => row.cur >= task[t].cur,
         row.cur # a => Exists(t) /\ row.cur = task[t].cur,
         row.status \in Settled =>
           IF row.cur = a THEN status = row.status
                          ELSE attempt[t][row.cur] = row.status,
         row.status = "retry_scheduled" =>
           IF row.cur = a THEN status = "failure"
                          ELSE attempt[t][row.cur] = "failure",
         row.status = "retry_scheduled" => row.next /\ row.error,
         row.next => row.status \in {"retry_scheduled", "abandoned"}
  PROVE  TCInv'
<1> USE MaxAttemptAssumption DEF Attempts
<1>1. TCTypeOK'
  BY DEF TCInv, TCTypeOK, SetTask, SetAttempt
<1>2. /\ task'[t] = row
      /\ \A u \in TaskIds : u # t => task'[u] = task[u] /\ attempt'[u] = attempt[u]
      /\ attempt'[t][a] = status
      /\ \A b \in Attempts : b # a => attempt'[t][b] = attempt[t][b]
  BY DEF TCInv, TCTypeOK, SetTask, SetAttempt
<1>3. row # NoTask
  BY DEF NoTask
<1>4. CurrentIsNewest'
  <2>1. ASSUME NEW u \in TaskIds, u # t
        PROVE  /\ Exists(u)' => task'[u].cur \in Attempts /\ attempt'[u][task'[u].cur] # "none"
               /\ \A b \in Attempts : attempt'[u][b] # "none" => Exists(u)' /\ b <= task'[u].cur
    BY <1>2, <2>1 DEF TCInv, CurrentIsNewest, Exists
  <2>2. attempt'[t][row.cur] # "none"
    <3>1. CASE row.cur = a
      BY <1>2, <3>1 DEF Statuses, Terminal
    <3>2. CASE row.cur # a
      BY <1>2, <3>2 DEF TCInv, CurrentIsNewest
    <3>3. QED BY <3>1, <3>2
  <2>3. ASSUME NEW b \in Attempts, attempt'[t][b] # "none"
        PROVE  b <= row.cur
    <3>1. CASE b = a
      BY <3>1
    <3>2. CASE b # a
      <4>1. attempt[t][b] # "none"
        BY <1>2, <2>3, <3>2
      <4>2. Exists(t) /\ b <= task[t].cur
        BY <4>1 DEF TCInv, CurrentIsNewest
      <4>3. task[t].cur \in Nat /\ row.cur \in Nat
        BY DEF TCInv, TCTypeOK, Row
      <4>4. QED BY <4>2, <4>3
    <3>3. QED BY <3>1, <3>2
  <2>4. QED
    BY <1>2, <1>3, <2>1, <2>2, <2>3 DEF CurrentIsNewest, Exists, NoTask
<1>5. RowMatchesAttempt'
  <2>1. ASSUME NEW u \in TaskIds, u # t
        PROVE  /\ task'[u].status \in Settled => attempt'[u][task'[u].cur] = task'[u].status
               /\ task'[u].status = "retry_scheduled" => attempt'[u][task'[u].cur] = "failure"
    BY <1>2, <2>1 DEF TCInv, RowMatchesAttempt
  <2>2. /\ row.status \in Settled => attempt'[t][row.cur] = row.status
        /\ row.status = "retry_scheduled" => attempt'[t][row.cur] = "failure"
    BY <1>2
  <2>3. QED
    BY <1>2, <2>1, <2>2 DEF RowMatchesAttempt
<1>6. RetryHasDeadline'
  BY <1>2 DEF TCInv, RetryHasDeadline
<1>7. QED
  BY <1>1, <1>4, <1>5, <1>6 DEF TCInv

\* The row an event starts from is a row, at the event's attempt if it is new.
LEMMA EnsuredRow ==
  ASSUME TCInv, NEW t \in TaskIds, NEW a \in Attempts
  PROVE  /\ Ensured(t, a) \in Row
         /\ Ensured(t, a).cur \in Attempts
         /\ ~Exists(t) => Ensured(t, a) = NewRow("queued", a)
         /\ Exists(t) => Ensured(t, a) = task[t]
         /\ attempt[t][a] \in Statuses \cup {"none"}
  BY MaxAttemptAssumption
     DEF TCInv, TCTypeOK, CurrentIsNewest, Ensured, NewRow, Row, Statuses, Attempts

\* What an event makes of a row is a row.
LEMMA EventRows ==
  ASSUME NEW row \in Row, NEW a \in Attempts
  PROVE  QueuedRow(row, a) \in Row /\ StartedRow(row, a) \in Row
<1> USE MaxAttemptAssumption DEF Row, Attempts
<1>1. \A s \in Statuses : NewRow(s, a) \in Row
  BY DEF NewRow
<1>2. "queued" \in Statuses /\ "in_progress" \in Statuses
  BY DEF Statuses
<1>3. ASSUME NEW s \in Statuses \cup {"none"}
      PROVE  [row EXCEPT !.next = FALSE, !.status = s] \in Row
  OBVIOUS
<1>4. row.status \in Statuses \cup {"none"} /\ row.cur \in Nat /\ a \in Nat
  OBVIOUS
<1>5. QED
  BY <1>1, <1>2, <1>3, <1>4 DEF QueuedRow, StartedRow

\* record_queued preserves the invariant.
LEMMA RecordQueuedInv ==
  ASSUME TCInv, NEW t \in TaskIds, NEW a \in Attempts, RecordQueued(t, a)
  PROVE  TCInv'
<1> DEFINE old == Ensured(t, a)
           row == QueuedRow(old, a)
           status == IF attempt[t][a] = "none" THEN "queued" ELSE attempt[t][a]
<1>0. /\ old \in Row /\ old.cur \in Attempts
      /\ ~Exists(t) => old = NewRow("queued", a)
      /\ Exists(t) => old = task[t]
      /\ attempt[t][a] \in Statuses \cup {"none"}
  BY EnsuredRow
<1>1. row \in Row /\ status \in Statuses
  <2> HIDE DEF old
  <2>1. status \in Statuses
    BY <1>0 DEF Statuses
  <2>2. row \in Row
    BY <1>0, EventRows
  <2>3. QED BY <2>1, <2>2
<1>2. SetTask(t, row) /\ SetAttempt(t, a, status)
  BY DEF RecordQueued
<1>3. row.cur \in Attempts /\ a <= row.cur /\ (Exists(t) => row.cur >= task[t].cur)
  BY <1>0, MaxAttemptAssumption DEF QueuedRow, NewRow, Row, Attempts
<1>4. row.cur # a => Exists(t) /\ row.cur = task[t].cur /\ row = task[t]
  BY <1>0, MaxAttemptAssumption DEF QueuedRow, NewRow, Row, Attempts
<1>5. row.cur = a /\ row.status \in Settled \cup {"retry_scheduled"}
        => Exists(t) /\ task[t].cur = a /\ row.status = task[t].status
           /\ row.status \in Settled
  BY <1>0, MaxAttemptAssumption DEF QueuedRow, NewRow, Row, Attempts, Settled
<1>6. row.next => row = task[t] /\ Exists(t)
  BY <1>0, MaxAttemptAssumption DEF QueuedRow, NewRow, Row, Attempts
<1>7. /\ row.status \in Settled =>
           IF row.cur = a THEN status = row.status ELSE attempt[t][row.cur] = row.status
      /\ row.status = "retry_scheduled" =>
           IF row.cur = a THEN status = "failure" ELSE attempt[t][row.cur] = "failure"
  BY <1>4, <1>5 DEF TCInv, RowMatchesAttempt, Settled
<1>8. /\ row.status = "retry_scheduled" => row.next /\ row.error
      /\ row.next => row.status \in {"retry_scheduled", "abandoned"}
  BY <1>4, <1>5, <1>6 DEF TCInv, RetryHasDeadline, Settled
<1> HIDE DEF row, status
<1>9. QED
  BY <1>1, <1>2, <1>3, <1>4, <1>7, <1>8, WriteOne

\* record_started preserves the invariant.
LEMMA RecordStartedInv ==
  ASSUME TCInv, NEW t \in TaskIds, NEW a \in Attempts, RecordStarted(t, a)
  PROVE  TCInv'
<1> DEFINE old == Ensured(t, a)
           row == StartedRow(old, a)
           status == IF attempt[t][a] \in Settled THEN attempt[t][a] ELSE "in_progress"
<1>0. /\ old \in Row /\ old.cur \in Attempts
      /\ ~Exists(t) => old = NewRow("queued", a)
      /\ Exists(t) => old = task[t]
      /\ attempt[t][a] \in Statuses \cup {"none"}
  BY EnsuredRow
<1>1. row \in Row /\ status \in Statuses
  <2> HIDE DEF old
  <2>1. status \in Statuses
    BY <1>0 DEF Statuses, Settled, Terminal
  <2>2. row \in Row
    BY <1>0, EventRows
  <2>3. QED BY <2>1, <2>2
<1>2. SetTask(t, row) /\ SetAttempt(t, a, status)
  BY DEF RecordStarted
<1>3. row.cur \in Attempts /\ a <= row.cur /\ (Exists(t) => row.cur >= task[t].cur)
  BY <1>0, MaxAttemptAssumption DEF StartedRow, NewRow, Row, Attempts
<1>4. row.cur # a => Exists(t) /\ row.cur = task[t].cur /\ row = task[t]
  BY <1>0, MaxAttemptAssumption DEF StartedRow, NewRow, Row, Attempts
<1>5. row.cur = a /\ row.status \in Settled \cup {"retry_scheduled"}
        => Exists(t) /\ task[t].cur = a /\ row.status = task[t].status
           /\ row.status \in Settled
  BY <1>0, MaxAttemptAssumption DEF StartedRow, NewRow, Row, Attempts, Settled
<1>6. row.next => row = task[t] /\ Exists(t)
  BY <1>0, MaxAttemptAssumption DEF StartedRow, NewRow, Row, Attempts
<1>7. /\ row.status \in Settled =>
           IF row.cur = a THEN status = row.status ELSE attempt[t][row.cur] = row.status
      /\ row.status = "retry_scheduled" =>
           IF row.cur = a THEN status = "failure" ELSE attempt[t][row.cur] = "failure"
  BY <1>4, <1>5 DEF TCInv, RowMatchesAttempt, Settled
<1>8. /\ row.status = "retry_scheduled" => row.next /\ row.error
      /\ row.next => row.status \in {"retry_scheduled", "abandoned"}
  BY <1>4, <1>5, <1>6 DEF TCInv, RetryHasDeadline, Settled
<1> HIDE DEF row, status
<1>9. QED
  BY <1>1, <1>2, <1>3, <1>4, <1>7, <1>8, WriteOne

\* An event that is not superseded belongs to the newest attempt.
LEMMA NotSuperseded ==
  ASSUME TCInv, NEW t \in TaskIds, NEW a \in Attempts, ~Superseded(t, a), Exists(t)
  PROVE  task[t].cur <= a /\ (task[t].status \in Settled => task[t].cur < a)
  BY MaxAttemptAssumption
     DEF TCInv, TCTypeOK, Row, Superseded, Terminal, Settled, Attempts

\* record_finished preserves the invariant.
LEMMA RecordFinishedInv ==
  ASSUME TCInv, NEW t \in TaskIds, NEW a \in Attempts, NEW outcome \in Settled,
         RecordFinished(t, a, outcome)
  PROVE  TCInv'
<1> DEFINE row == [status |-> outcome, cur |-> a,
                   next |-> FALSE, error |-> (outcome = "failure")]
<1>1. row \in Row /\ outcome \in Statuses
  <2> DEFINE error == (outcome = "failure")
  <2>1. error \in BOOLEAN
    OBVIOUS
  <2> HIDE DEF error
  <2>2. [status |-> outcome, cur |-> a, next |-> FALSE, error |-> error] \in Row
    BY <2>1, MaxAttemptAssumption DEF Row, Statuses, Terminal, Settled, Attempts
  <2>3. outcome \in Statuses
    BY DEF Statuses, Terminal, Settled
  <2>4. QED
    BY <2>2, <2>3 DEF error
<1>2. SetTask(t, row) /\ SetAttempt(t, a, outcome)
  BY DEF RecordFinished
<1>3. row.cur = a /\ a <= row.cur /\ (Exists(t) => row.cur >= task[t].cur)
  BY NotSuperseded, MaxAttemptAssumption
     DEF RecordFinished, TCInv, TCTypeOK, Row, Attempts
<1>4. row.status = outcome /\ row.next = FALSE /\ outcome # "retry_scheduled"
  BY DEF Settled
<1> HIDE DEF row
<1>5. QED
  BY <1>1, <1>2, <1>3, <1>4, WriteOne

\* record_retry_scheduled preserves the invariant.
LEMMA RecordRetryScheduledInv ==
  ASSUME TCInv, NEW t \in TaskIds, NEW a \in Attempts, RecordRetryScheduled(t, a)
  PROVE  TCInv'
<1> DEFINE row == [status |-> "retry_scheduled", cur |-> a, next |-> TRUE, error |-> TRUE]
<1>1. row \in Row /\ "failure" \in Statuses
  BY MaxAttemptAssumption DEF Row, Statuses, Terminal, Attempts
<1>2. SetTask(t, row) /\ SetAttempt(t, a, "failure")
  BY DEF RecordRetryScheduled
<1>3. row.cur = a /\ a <= row.cur /\ (Exists(t) => row.cur >= task[t].cur)
  BY NotSuperseded, MaxAttemptAssumption
     DEF RecordRetryScheduled, TCInv, TCTypeOK, Row, Attempts
<1>4. row.status = "retry_scheduled" /\ row.next /\ row.error /\ row.status \notin Settled
  BY DEF Settled
<1> HIDE DEF row
<1>5. QED
  BY <1>1, <1>2, <1>3, <1>4, WriteOne

\* The mark of a failed publication preserves the invariant: it leaves no
\* settled and no waiting row, and it creates no attempt.
LEMMA MarkPublishFailedInv ==
  ASSUME TCInv, NEW t \in TaskIds, NEW a \in Attempts, MarkPublishFailed(t, a)
  PROVE  TCInv'
<1>1. TCTypeOK'
  BY DEF TCInv, TCTypeOK, MarkPublishFailed, Row, Statuses, Terminal
<1>2. /\ \A u \in TaskIds : /\ task'[u].cur = task[u].cur
                            /\ task'[u].next = task[u].next
                            /\ u # t => task'[u] = task[u] /\ attempt'[u] = attempt[u]
                            /\ \A b \in Attempts :
                                 attempt'[u][b] = "none" <=> attempt[u][b] = "none"
      /\ task'[t].status = "abandoned"
  BY DEF TCInv, TCTypeOK, MarkPublishFailed, Row
<1>3. \A u \in TaskIds : Exists(u)' <=> Exists(u)
  <2>1. Exists(t)
    BY DEF Exists, NoTask, MarkPublishFailed
  <2>2. task'[t] # NoTask
    BY <1>2 DEF NoTask
  <2>3. QED
    BY <1>2, <2>1, <2>2 DEF Exists
<1>4. CurrentIsNewest'
  BY <1>2, <1>3 DEF TCInv, CurrentIsNewest
<1>5. RowMatchesAttempt' /\ RetryHasDeadline'
  BY <1>2 DEF TCInv, RowMatchesAttempt, RetryHasDeadline, Settled
<1>6. QED
  BY <1>1, <1>4, <1>5 DEF TCInv

\* abandon_queued_task preserves the invariant.
LEMMA AbandonQueuedInv ==
  ASSUME TCInv, NEW t \in TaskIds, AbandonQueued(t)
  PROVE  TCInv'
<1>1. TCTypeOK'
  BY DEF TCInv, TCTypeOK, AbandonQueued, Row, Statuses, Terminal
<1>2. /\ \A u \in TaskIds : /\ task'[u].cur = task[u].cur
                            /\ task'[u].next = task[u].next
                            /\ u # t => task'[u] = task[u]
      /\ task'[t].status = "abandoned" /\ attempt' = attempt
  BY DEF TCInv, TCTypeOK, AbandonQueued, Row
<1>3. \A u \in TaskIds : Exists(u)' <=> Exists(u)
  <2>1. Exists(t)
    BY DEF Exists, NoTask, AbandonQueued
  <2>2. task'[t] # NoTask
    BY <1>2 DEF NoTask
  <2>3. QED
    BY <1>2, <2>1, <2>2 DEF Exists
<1>4. CurrentIsNewest'
  BY <1>2, <1>3 DEF TCInv, CurrentIsNewest
<1>5. RowMatchesAttempt' /\ RetryHasDeadline'
  BY <1>2 DEF TCInv, RowMatchesAttempt, RetryHasDeadline, Settled
<1>6. QED
  BY <1>1, <1>4, <1>5 DEF TCInv

\* delete_task_history preserves the invariant: the attempts go with the row.
LEMMA DeleteHistoryInv ==
  ASSUME TCInv, NEW statuses \in SUBSET Terminal, DeleteHistory(statuses)
  PROVE  TCInv'
<1>1. \A u \in TaskIds :
        \/ task'[u] = NoTask /\ attempt'[u] = [a \in Attempts |-> "none"]
        \/ task'[u] = task[u] /\ attempt'[u] = attempt[u]
  BY DEF DeleteHistory
<1>2. NoTask \in Row
  BY MaxAttemptAssumption DEF NoTask, Row
<1>3. TCTypeOK'
  BY <1>1, <1>2 DEF TCInv, TCTypeOK, DeleteHistory
<1>4. CurrentIsNewest'
  BY <1>1 DEF TCInv, CurrentIsNewest, Exists
<1>5. RowMatchesAttempt' /\ RetryHasDeadline'
  BY <1>1 DEF TCInv, RowMatchesAttempt, RetryHasDeadline, Settled, NoTask
<1>6. QED
  BY <1>3, <1>4, <1>5 DEF TCInv

\* Every event preserves the invariant.
LEMMA NextTCInv == TCInv /\ [TCNext]_tcVars => TCInv'
<1> SUFFICES ASSUME TCInv, [TCNext]_tcVars PROVE TCInv'
  OBVIOUS
<1>0. FirstAttempt \in Attempts
  BY MaxAttemptAssumption DEF FirstAttempt, Attempts
<1>1. ASSUME NEW t \in TaskIds, NEW a \in Attempts, RecordQueued(t, a) PROVE TCInv'
  BY <1>1, RecordQueuedInv
<1>2. ASSUME NEW t \in TaskIds, NEW a \in Attempts, RecordStarted(t, a) PROVE TCInv'
  BY <1>2, RecordStartedInv
<1>3. ASSUME NEW t \in TaskIds, NEW a \in Attempts, NEW o \in Settled,
             RecordFinished(t, a, o) PROVE TCInv'
  BY <1>3, RecordFinishedInv
<1>4. ASSUME NEW t \in TaskIds, NEW a \in Attempts, RecordRetryScheduled(t, a) PROVE TCInv'
  BY <1>4, RecordRetryScheduledInv
<1>5. ASSUME NEW t \in TaskIds, MarkPublishFailed(t, FirstAttempt) PROVE TCInv'
  BY <1>0, <1>5, MarkPublishFailedInv
<1>6. ASSUME NEW t \in TaskIds, AbandonQueued(t) PROVE TCInv'
  BY <1>6, AbandonQueuedInv
<1>7. ASSUME NEW statuses \in SUBSET Terminal, DeleteHistory(statuses) PROVE TCInv'
  BY <1>7, DeleteHistoryInv
<1>8. CASE UNCHANGED tcVars
  BY <1>8 DEF tcVars, TCInv, TCTypeOK, CurrentIsNewest, RowMatchesAttempt,
              RetryHasDeadline, Exists
<1>9. QED
  BY <1>1, <1>2, <1>3, <1>4, <1>5, <1>6, <1>7, <1>8 DEF TCNext

\* The rows always have their types.
THEOREM TCTyping == TCSpec => []TCTypeOK
  BY InitTCInv, NextTCInv, PTL DEF TCSpec, TCInv

\* Whatever lifecycle events are lost, repeated or late, current_attempt is the
\* newest recorded attempt, a settled row shows that attempt's outcome, and a
\* row has a retry time exactly while its retry is announced.
THEOREM TCSafety == TCSpec => [](CurrentIsNewest /\ RowMatchesAttempt /\ RetryHasDeadline)
  BY InitTCInv, NextTCInv, PTL DEF TCSpec, TCInv

\* current_attempt names the newest attempt, whatever is lost, repeated or late.
THEOREM TCNewest == TCSpec => []CurrentIsNewest
  BY TCSafety, PTL

\* A task waits for a retry exactly while it shows a time for it.
THEOREM TCDeadline == TCSpec => []RetryHasDeadline
  BY TCSafety, PTL

\* A row that exists after an event and before it: what the event may do to
\* the status and to current_attempt.
LEMMA EventSteps ==
  ASSUME TCInv, NEW t \in TaskIds, NEW a \in Attempts,
         \/ RecordQueued(t, a)
         \/ RecordStarted(t, a)
         \/ \E o \in Settled : RecordFinished(t, a, o)
         \/ RecordRetryScheduled(t, a),
         NEW u \in TaskIds, Exists(u)
  PROVE  KeepsSettled(u) /\ task'[u].cur >= task[u].cur
<1> USE MaxAttemptAssumption
<1>0. /\ task[u] \in Row /\ task[u].cur \in Nat /\ a \in Nat
      /\ task \in [TaskIds -> Row]
  BY DEF TCInv, TCTypeOK, Row, Attempts
<1>1. CASE u # t
  <2>1. task'[u] = task[u]
    BY <1>1, <1>0 DEF RecordQueued, RecordStarted, RecordFinished, RecordRetryScheduled, SetTask
  <2>2. QED
    BY <2>1, <1>0 DEF KeepsSettled
<1>2. CASE u = t
  <2>1. CASE RecordQueued(t, a)
    <3>1. task'[t] = QueuedRow(task[t], a)
      BY <1>0, <1>2, <2>1 DEF RecordQueued, SetTask, Ensured
    <3>2. CASE task[t].cur < a
      BY <1>0, <1>2, <3>1, <3>2 DEF QueuedRow, NewRow, KeepsSettled
    <3>3. CASE task[t].cur > a
      BY <1>0, <1>2, <3>1, <3>3 DEF QueuedRow, KeepsSettled
    <3>4. CASE task[t].cur = a
      BY <1>0, <1>2, <3>1, <3>4 DEF QueuedRow, KeepsSettled, Settled, Row
    <3>5. QED BY <1>0, <1>2, <3>2, <3>3, <3>4
  <2>2. CASE RecordStarted(t, a)
    <3>1. task'[t] = StartedRow(task[t], a)
      BY <1>0, <1>2, <2>2 DEF RecordStarted, SetTask, Ensured
    <3>2. CASE task[t].cur < a
      BY <1>0, <1>2, <3>1, <3>2 DEF StartedRow, NewRow, KeepsSettled
    <3>3. CASE task[t].cur > a
      BY <1>0, <1>2, <3>1, <3>3 DEF StartedRow, KeepsSettled
    <3>4. CASE task[t].cur = a
      BY <1>0, <1>2, <3>1, <3>4 DEF StartedRow, KeepsSettled, Settled, Row
    <3>5. QED BY <1>0, <1>2, <3>2, <3>3, <3>4
  <2>3. ASSUME \/ \E o \in Settled : RecordFinished(t, a, o)
               \/ RecordRetryScheduled(t, a)
        PROVE  KeepsSettled(u) /\ task'[u].cur >= task[u].cur
    <3>1. ~Superseded(t, a) /\ task'[t].cur = a
      BY <1>0, <2>3 DEF RecordFinished, RecordRetryScheduled, SetTask
    <3>2. task[t].cur <= a /\ (task[t].status \in Settled => task[t].cur < a)
      BY <1>2, <3>1, NotSuperseded
    <3>3. QED
      BY <1>0, <1>2, <3>1, <3>2 DEF KeepsSettled
  <2>4. QED BY <2>1, <2>2, <2>3
<1>3. QED BY <1>1, <1>2

\* What the three other transactions may do to a row that exists.
LEMMA RowSteps ==
  ASSUME TCInv, NEW u \in TaskIds, Exists(u),
         \/ \E t \in TaskIds : AbandonQueued(t)
         \/ \E t \in TaskIds : MarkPublishFailed(t, FirstAttempt)
         \/ \E statuses \in SUBSET Terminal : DeleteHistory(statuses)
  PROVE  /\ ~MarkPublishFailed(u, FirstAttempt) => KeepsSettled(u)
         /\ \/ task'[u].cur >= task[u].cur
            \/ task'[u] = NoTask /\ task[u].status \in Terminal
<1>0. task[u].cur \in Nat /\ task \in [TaskIds -> Row]
  BY MaxAttemptAssumption DEF TCInv, TCTypeOK, Row
<1>1. ASSUME NEW t \in TaskIds, AbandonQueued(t)
      PROVE  KeepsSettled(u) /\ task'[u].cur >= task[u].cur
  BY <1>0, <1>1 DEF AbandonQueued, KeepsSettled, Settled, Row
<1>2. ASSUME NEW t \in TaskIds, MarkPublishFailed(t, FirstAttempt)
      PROVE  /\ ~MarkPublishFailed(u, FirstAttempt) => KeepsSettled(u)
             /\ task'[u].cur >= task[u].cur
  <2>1. task'[u].cur = task[u].cur /\ (u # t => task'[u] = task[u])
    BY <1>0, <1>2 DEF MarkPublishFailed, Row
  <2>2. QED
    BY <1>0, <1>2, <2>1 DEF KeepsSettled
<1>3. ASSUME NEW statuses \in SUBSET Terminal, DeleteHistory(statuses)
      PROVE  /\ KeepsSettled(u)
             /\ \/ task'[u].cur >= task[u].cur
                \/ task'[u] = NoTask /\ task[u].status \in Terminal
  <2>1. \/ task'[u] = NoTask /\ task[u].status \in Terminal
        \/ task'[u] = task[u]
    BY <1>3 DEF DeleteHistory
  <2>2. QED
    BY <1>0, <2>1 DEF KeepsSettled
<1>4. QED
  BY <1>1, <1>2, <1>3

\* Only the mark of a failed publication can downgrade a completed or failed
\* task; every other event leaves it, or starts a higher attempt.
THEOREM TCSettled == TCSpec => SettledOnlyAdvances
<1>1. ASSUME TCInv, TCNext, NEW u \in TaskIds, ~MarkPublishFailed(u, FirstAttempt)
      PROVE  KeepsSettled(u)
  <2>1. CASE Exists(u)
    BY <1>1, <2>1, EventSteps, RowSteps DEF TCNext
  <2>2. CASE ~Exists(u)
    BY <2>2 DEF Exists, NoTask, KeepsSettled, Settled
  <2>3. QED BY <2>1, <2>2
<1>2. TCInv /\ [TCNext]_tcVars => [SettledStep]_tcVars
  BY <1>1 DEF SettledStep
<1>3. QED
  BY <1>2, InitTCInv, NextTCInv, PTL DEF TCSpec, SettledOnlyAdvances

\* current_attempt of a row never decreases, and rows in use are never deleted.
THEOREM TCMonotone == TCSpec => AttemptNeverDecreases
<1>1. ASSUME TCInv, TCNext, NEW u \in TaskIds, Exists(u)
      PROVE  \/ task'[u].cur >= task[u].cur
             \/ task'[u] = NoTask /\ task[u].status \in Terminal
  BY <1>1, EventSteps, RowSteps DEF TCNext
<1>2. TCInv /\ [TCNext]_tcVars => [AttemptStep]_tcVars
  BY <1>1 DEF AttemptStep
<1>3. QED
  BY <1>2, InitTCInv, NextTCInv, PTL DEF TCSpec, AttemptNeverDecreases
=============================================================================
