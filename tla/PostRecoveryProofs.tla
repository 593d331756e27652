------------------------- MODULE PostRecoveryProofs -------------------------
(***************************************************************************)
(* Proofs about PostRecovery, for every timeline and every bound: the      *)
(* variables keep their types, a row is exhausted only while pending, and  *)
(* a completed row stands for an archived post.                            *)
(***************************************************************************)
EXTENDS PostRecovery, TLAPS

\* A page is only worked on while there is one.
PageExists ==
  worker.pc \in {"register", "detail", "asking", "yield"} => worker.page \in 1 .. Len(Pages)

\* What concerns the rows and the archive ...
RowsOK ==
  /\ row \in [Posts -> Row]
  /\ observed \subseteq Posts /\ cached \subseteq Posts
  /\ ExhaustedIsPending
  /\ CompletedIsArchived

\* ... and what concerns the parties that work on them.
PartiesOK ==
  /\ policy \in [Switches -> BOOLEAN]
  /\ task \in [Posts -> 0 .. MaxAttempt] /\ ended \subseteq Posts
  /\ worker \in Worker
  /\ worker.pc \in Recovering \cup {"asking"} => worker.post \in Posts
  /\ retry \in [left : SUBSET Posts, reset : SUBSET Posts]
  /\ events \in 0 .. MaxEvents
  /\ PageExists

IInv == RowsOK /\ PartiesOK

Sound(r) == r \in Row /\ (r.exhausted => r.status = "pending")

-----------------------------------------------------------------------------
\* The writes to a row keep it sound, and only Finished(_, "completed")
\* completes it.
LEMMA RowWrites ==
  ASSUME NEW r, Sound(r),
         NEW status \in {"pending", "completed", "unavailable", "ignored"}
  PROVE  /\ Sound(Registered(r)) /\ (Registered(r).status # "completed")
         /\ Sound(Attempted(r)) /\ Attempted(r).status = r.status
         /\ Sound(Finished(r, status))
         /\ Finished(r, status).status = "completed" => status = "completed"
         /\ Sound(Exhausted(r)) /\ Exhausted(r).status = r.status
         /\ Sound(Reset(r)) /\ Reset(r).status # "completed"
         /\ Sound(Reopened(r)) /\ (Reopened(r).status = "completed" => r.status = "completed")
  BY DEF Sound, Row, Registered, Attempted, Finished, Exhausted, Reset, Reopened, Fresh

\* The rows of a state that satisfies the invariant are sound.
LEMMA RowsSound ==
  ASSUME RowsOK, NEW p \in Posts
  PROVE  Sound(row[p]) /\ (row[p].status = "completed" => p \in observed)
  BY DEF RowsOK, ExhaustedIsPending, CompletedIsArchived, Sound

\* Writing one sound row keeps the rows sound.
LEMMA WriteRow ==
  ASSUME RowsOK, NEW p \in Posts, NEW r, Sound(r), SetRow(p, r),
         observed \subseteq observed', observed' \subseteq Posts, cached' \subseteq Posts,
         r.status = "completed" => p \in observed'
  PROVE  RowsOK'
  BY DEF RowsOK, ExhaustedIsPending, CompletedIsArchived, Sound, SetRow

\* Steps that leave the rows and the archive alone.
LEMMA KeepRows ==
  ASSUME RowsOK, UNCHANGED <<row, observed, cached>>
  PROVE  RowsOK'
  BY DEF RowsOK, ExhaustedIsPending, CompletedIsArchived

\* An element of a sequence.
LEMMA ElementOf ==
  ASSUME NEW S, NEW s \in Seq(S), NEW i \in 1 .. Len(s)
  PROVE  s[i] \in S
  OBVIOUS

\* The page that is worked on, and what it lacks.
LEMMA PageFacts ==
  ASSUME PartiesOK, worker.page <= Len(Pages)
  PROVE  /\ Len(Pages) \in Nat /\ worker.page \in 1 .. Len(Pages)
         /\ Pages[worker.page].visible \subseteq Posts /\ Missing \subseteq Posts
<1>1. Len(Pages) \in Nat
  BY RecoveryAssumption
<1>2. \A i \in 1 .. Len(Pages) : Pages[i] \in [visible : SUBSET Posts, collapsed : SUBSET Posts]
  BY RecoveryAssumption, ElementOf
<1>3. worker.page \in 1 .. Len(Pages) + 1
  BY DEF PartiesOK, Worker
<1>4. worker.page \in 1 .. Len(Pages)
  BY <1>1, <1>3
<1>. QED
  BY <1>1, <1>2, <1>4 DEF Missing

\* The worker's states from which the others are made.
LEMMA Workers ==
  ASSUME PartiesOK
  PROVE  /\ Idle \in Worker /\ Idle.pc = "idle"
         /\ Dispatching \in Worker /\ Dispatching.pc = "dispatch"
<1>1. Len(Pages) \in Nat
  BY RecoveryAssumption
<1>2. Idle \in Worker
  BY <1>1 DEF Idle, Worker
<1>3. {p \in Posts : Eligible(p)} \in SUBSET Posts
  OBVIOUS
<1>4. Dispatching \in Worker /\ Dispatching.pc = "dispatch"
  BY <1>2, <1>3 DEF Dispatching, Worker, SyncPC, Idle
<1>. QED
  BY <1>2, <1>4 DEF Idle

\* A recovery in progress.
LEMMA RecoveryWorker ==
  ASSUME PartiesOK, NEW p \in Posts, NEW pc \in Recovering
  PROVE  /\ [Idle EXCEPT !.pc = pc, !.post = p] \in Worker
         /\ [Idle EXCEPT !.pc = pc, !.post = p].pc = pc
         /\ [Idle EXCEPT !.pc = pc, !.post = p].post = p
<1>1. Idle \in Worker
  BY Workers
<1>. QED
  BY <1>1 DEF Worker

\* More posts are found.
LEMMA FoundWorker ==
  ASSUME NEW w \in Worker, NEW S \in SUBSET Posts
  PROVE  /\ [w EXCEPT !.got = S] \in Worker
         /\ [w EXCEPT !.got = S].pc = w.pc /\ [w EXCEPT !.got = S].page = w.page
  BY DEF Worker

\* The rest of the details is deferred.
LEMMA DeferredWorker ==
  ASSUME NEW w \in Worker
  PROVE  /\ [w EXCEPT !.deferred = TRUE] \in Worker
         /\ [w EXCEPT !.deferred = TRUE].pc = w.pc /\ [w EXCEPT !.deferred = TRUE].page = w.page
  BY DEF Worker

\* Progress of a recovery changes nothing but where it is.
LEMMA RecoveredWorker ==
  ASSUME PartiesOK, NEW pc \in Recovering, Recovered(pc)
  PROVE  worker' \in Worker /\ worker'.pc = pc /\ worker'.post = worker.post
  BY DEF PartiesOK, Worker, Recovered

\* The initial states satisfy the invariant.
LEMMA InitOK == Init => IInv
  BY RecoveryAssumption DEF Init, IInv, RowsOK, PartiesOK, PageExists, Worker, Idle,
     NoRow, Row, NoRetry, Recovering, SyncPC, ExhaustedIsPending, CompletedIsArchived

\* Steps of a synchronisation that write no row.
LEMMA SyncControl ==
  ASSUME IInv,
  StartSync \/ ReadPage \/ RegisterDone \/ DetailDone \/ NextPage \/ EndSync \/ DispatchDone
  PROVE  IInv'
<1>0. RowsOK /\ PartiesOK
  BY DEF IInv
<1>1. CASE StartSync
  <2>1. RowsOK'
    BY <1>0, <1>1, KeepRows DEF StartSync
  <2>2. PartiesOK'
    BY <1>0, <1>1, RecoveryAssumption DEF StartSync, PartiesOK, PageExists, Worker, Idle,
       Recovering, SyncPC, NoEvent, Event, Dispatching
  <2>. QED
    BY <2>1, <2>2 DEF IInv
<1>2. CASE ReadPage
  <2>1. RowsOK'
    BY <1>0, <1>2, KeepRows DEF ReadPage
  <2>2. PartiesOK'
    <3>1. Missing \subseteq Posts /\ worker.page \in 1 .. Len(Pages)
      BY <1>0, <1>2, PageFacts DEF ReadPage
    <3>2. worker' \in Worker /\ worker'.pc = "register" /\ worker'.page = worker.page
      BY <1>0, <1>2, <3>1 DEF ReadPage, PartiesOK, Worker, SyncPC
    <3>. QED
      BY <1>0, <1>2, <3>1, <3>2 DEF ReadPage, PartiesOK, PageExists, NoEvent, Recovering
  <2>. QED
    BY <2>1, <2>2 DEF IInv
<1>3. CASE RegisterDone
  <2>1. RowsOK'
    BY <1>0, <1>3, KeepRows DEF RegisterDone
  <2>2. PartiesOK'
    <3>1. Missing \subseteq Posts
      BY <1>0, <1>3, PageFacts DEF RegisterDone, PartiesOK, PageExists
    <3>2. worker' \in Worker /\ worker'.pc = "detail" /\ worker'.page = worker.page
      BY <1>0, <1>3, <3>1 DEF RegisterDone, PartiesOK, Worker, SyncPC
    <3>. QED
      BY <1>0, <1>3, <3>2 DEF RegisterDone, PartiesOK, PageExists, NoEvent, Recovering
  <2>. QED
    BY <2>1, <2>2 DEF IInv
<1>4. CASE DetailDone
  <2>1. RowsOK'
    BY <1>0, <1>4, KeepRows DEF DetailDone
  <2>2. PartiesOK'
    <3>1. Pages[worker.page].visible \subseteq Posts
      BY <1>0, <1>4, PageFacts DEF DetailDone, PartiesOK, PageExists
    <3>2. worker' \in Worker /\ worker'.pc = "yield" /\ worker'.page = worker.page
      BY <1>0, <1>4, <3>1 DEF DetailDone, PartiesOK, Worker, SyncPC
    <3>. QED
      BY <1>0, <1>4, <3>2 DEF DetailDone, PartiesOK, PageExists, NoEvent, Recovering
  <2>. QED
    BY <2>1, <2>2 DEF IInv
<1>5. CASE NextPage
  <2>1. RowsOK'
    BY <1>0, <1>5, KeepRows DEF NextPage
  <2>2. PartiesOK'
    <3>1. Len(Pages) \in Nat /\ worker.page \in 1 .. Len(Pages)
      BY <1>0, <1>5, RecoveryAssumption DEF NextPage, PartiesOK, PageExists
    <3>2. worker.page + 1 \in 1 .. Len(Pages) + 1
      BY <3>1
    <3>3. worker' \in Worker /\ worker'.pc = "page"
      BY <1>0, <1>5, <3>2 DEF NextPage, PartiesOK, Worker, SyncPC
    <3>. QED
      BY <1>0, <1>5, <3>3 DEF NextPage, PartiesOK, PageExists, NoEvent, Recovering
  <2>. QED
    BY <2>1, <2>2 DEF IInv
<1>6. CASE EndSync
  <2>1. RowsOK'
    BY <1>0, <1>6, KeepRows DEF EndSync
  <2>2. PartiesOK'
    BY <1>0, <1>6, Workers DEF EndSync, PartiesOK, PageExists, NoEvent, Recovering
  <2>. QED
    BY <2>1, <2>2 DEF IInv
<1>7. CASE DispatchDone
  <2>1. RowsOK'
    BY <1>0, <1>7, KeepRows DEF DispatchDone
  <2>2. PartiesOK'
    BY <1>0, <1>7, RecoveryAssumption DEF DispatchDone, PartiesOK, PageExists, Worker, Idle,
       Recovering, SyncPC, NoEvent, Event
  <2>. QED
    BY <2>1, <2>2 DEF IInv
<1>. QED
  BY <1>1, <1>2, <1>3, <1>4, <1>5, <1>6, <1>7

\* Steps of a synchronisation concerned with one post.
LEMMA SyncPost ==
  ASSUME IInv, NEW p \in Posts,
  Register(p) \/ SkipDetail(p) \/ AskDetail(p) \/ Yield(p) \/ Dispatch(p)
  PROVE  IInv'
<1>0. RowsOK /\ PartiesOK
  BY DEF IInv
<1>1. CASE Register(p)
  <2>. p \in Posts
    BY <1>0, <1>1 DEF Register, PartiesOK, Worker, Recovering
  <2>0. /\ Sound(row[p])
        /\ row[p].status = "completed" => p \in observed
    BY <1>0, RowsSound
  <2>1. RowsOK'
    BY <1>0, <1>1, <2>0, KeepRows, WriteRow, RowWrites DEF Register, RowsOK
  <2>2. PartiesOK'
    BY <1>0, <1>1, RecoveryAssumption DEF Register, PartiesOK, PageExists, Worker, Idle,
       Recovering, SyncPC, NoEvent, Event
  <2>. QED
    BY <2>1, <2>2 DEF IInv
<1>2. CASE SkipDetail(p)
  <2>1. RowsOK'
    BY <1>0, <1>2, KeepRows DEF SkipDetail
  <2>2. PartiesOK'
    BY <1>0, <1>2, RecoveryAssumption DEF SkipDetail, PartiesOK, PageExists, Worker, Idle,
       Recovering, SyncPC, NoEvent, Event
  <2>. QED
    BY <2>1, <2>2 DEF IInv
<1>3. CASE AskDetail(p)
  <2>. p \in Posts
    BY <1>0, <1>3 DEF AskDetail, PartiesOK, Worker, Recovering
  <2>0. /\ Sound(row[p])
        /\ row[p].status = "completed" => p \in observed
    BY <1>0, RowsSound
  <2>1. RowsOK'
    BY <1>0, <1>3, <2>0, KeepRows, WriteRow, RowWrites DEF AskDetail, RowsOK
  <2>2. PartiesOK'
    BY <1>0, <1>3, RecoveryAssumption DEF AskDetail, PartiesOK, PageExists, Worker, Idle,
       Recovering, SyncPC, NoEvent, Event
  <2>. QED
    BY <2>1, <2>2 DEF IInv
<1>4. CASE Yield(p)
  <2>. p \in Posts
    BY <1>0, <1>4 DEF Yield, PartiesOK, Worker, Recovering
  <2>0. /\ Sound(row[p])
        /\ row[p].status = "completed" => p \in observed
    BY <1>0, RowsSound
  <2>1. RowsOK'
    BY <1>0, <1>4, <2>0, KeepRows, WriteRow, RowWrites DEF Yield, RowsOK, Ingest
  <2>2. PartiesOK'
    BY <1>0, <1>4, RecoveryAssumption DEF Yield, PartiesOK, PageExists, Worker, Idle,
       Recovering, SyncPC, NoEvent, Event
  <2>. QED
    BY <2>1, <2>2 DEF IInv
<1>5. CASE Dispatch(p)
  <2>1. RowsOK'
    BY <1>0, <1>5, KeepRows DEF Dispatch
  <2>2. PartiesOK'
    <3>1. task' \in [Posts -> 0 .. MaxAttempt]
      BY <1>0, <1>5, RecoveryAssumption DEF Dispatch, Enqueue, PartiesOK
    <3>2. worker' \in Worker /\ worker'.pc = "dispatch"
      BY <1>0, <1>5 DEF Dispatch, PartiesOK, Worker
    <3>. QED
      BY <1>0, <1>5, <3>1, <3>2 DEF Dispatch, PartiesOK, PageExists, NoEvent, Recovering
  <2>. QED
    BY <2>1, <2>2 DEF IInv
<1>. QED
  BY <1>1, <1>2, <1>3, <1>4, <1>5

\* Steps of a recovery task, and an answer to a synchronisation.
LEMMA RecoveryStep ==
  ASSUME IInv, DetailAnswer \/ RecoveryNext
  PROVE  IInv'
<1>0. RowsOK /\ PartiesOK
  BY DEF IInv
<1>1. CASE DetailAnswer
  <2>. worker.post \in Posts
    BY <1>0, <1>1 DEF DetailAnswer, PartiesOK, Worker, Recovering
  <2>0. /\ Sound(row[worker.post])
        /\ row[worker.post].status = "completed" => worker.post \in observed
    BY <1>0, RowsSound
  <2>1. RowsOK'
    BY <1>0, <1>1, <2>0, KeepRows, WriteRow, RowWrites DEF DetailAnswer, RowsOK
  <2>2. PartiesOK'
    <3> DEFINE back == [worker EXCEPT !.pc = "detail", !.post = NoPost]
    <3>1. back \in Worker /\ back.pc = "detail" /\ back.page = worker.page
      BY <1>0 DEF PartiesOK, Worker, SyncPC
    <3>2. worker' \in {back, [back EXCEPT !.got = back.got \cup {worker.post}],
                       [back EXCEPT !.deferred = TRUE], Idle}
      BY <1>1 DEF DetailAnswer
    <3>. HIDE DEF back
    <3>3. /\ worker' \in Worker
          /\ (worker' # Idle => worker'.pc = "detail" /\ worker'.page = worker.page)
      <4>1. Idle \in Worker
        BY <1>0, Workers
      <4>2. CASE worker' \in {back, Idle}
        BY <4>1, <4>2, <3>1
      <4>3. CASE worker' = [back EXCEPT !.got = back.got \cup {worker.post}]
        <5>1. back.got \cup {worker.post} \in SUBSET Posts
          BY <3>1 DEF Worker
        <5>. QED
          BY <1>0, <4>1, <4>3, <5>1, <3>1, FoundWorker
      <4>4. CASE worker' = [back EXCEPT !.deferred = TRUE]
        BY <1>0, <4>1, <4>4, <3>1, DeferredWorker
      <4>. QED
        BY <3>2, <4>2, <4>3, <4>4
    <3>4. events' \in 0 .. MaxEvents
      BY <1>0, <1>1, RecoveryAssumption DEF DetailAnswer, PartiesOK, NoEvent, Event
    <3>. QED
      BY <1>0, <1>1, <3>3, <3>4, Workers DEF DetailAnswer, PartiesOK, PageExists, Recovering
  <2>. QED
    BY <2>1, <2>2 DEF IInv
<1>2. CASE RecoveryAnswer
  <2>. worker.post \in Posts
    BY <1>0, <1>2 DEF RecoveryAnswer, PartiesOK, Worker, Recovering
  <2>0. /\ Sound(row[worker.post])
        /\ row[worker.post].status = "completed" => worker.post \in observed
    BY <1>0, RowsSound
  <2>1. RowsOK'
    BY <1>0, <1>2, <2>0, KeepRows, WriteRow, RowWrites DEF RecoveryAnswer, RowsOK, Recovered
  <2>2. PartiesOK'
    <3>1. worker' \in Worker /\ worker'.pc \in Recovering /\ worker'.post = worker.post
      BY <1>0, <1>2, RecoveredWorker DEF RecoveryAnswer, Recovering
    <3>. QED
      BY <1>0, <1>2, <3>1, RecoveryAssumption DEF RecoveryAnswer, PartiesOK, PageExists,
         Recovering, NoEvent, Event
  <2>. QED
    BY <2>1, <2>2 DEF IInv
<1>3. CASE ReadPolicy
  <2>1. RowsOK'
    BY <1>0, <1>3, KeepRows DEF ReadPolicy
  <2>2. PartiesOK'
    <3>1. worker' \in Worker /\ worker'.pc \in Recovering /\ worker'.post = worker.post
      BY <1>0, <1>3, RecoveredWorker DEF ReadPolicy, Recovering
    <3>. QED
      BY <1>0, <1>3, <3>1, RecoveryAssumption DEF ReadPolicy, PartiesOK, PageExists,
         Recovering, NoEvent, Event
  <2>. QED
    BY <2>1, <2>2 DEF IInv
<1>4. CASE IgnorePost
  <2>. worker.post \in Posts
    BY <1>0, <1>4 DEF IgnorePost, PartiesOK, Worker, Recovering
  <2>0. /\ Sound(row[worker.post])
        /\ row[worker.post].status = "completed" => worker.post \in observed
    BY <1>0, RowsSound
  <2>1. RowsOK'
    BY <1>0, <1>4, <2>0, KeepRows, WriteRow, RowWrites DEF IgnorePost, RowsOK, Recovered
  <2>2. PartiesOK'
    <3>1. worker' \in Worker /\ worker'.pc \in Recovering /\ worker'.post = worker.post
      BY <1>0, <1>4, RecoveredWorker DEF IgnorePost, Recovering
    <3>. QED
      BY <1>0, <1>4, <3>1, RecoveryAssumption DEF IgnorePost, PartiesOK, PageExists,
         Recovering, NoEvent, Event
  <2>. QED
    BY <2>1, <2>2 DEF IInv
<1>5. CASE IngestPost
  <2>. worker.post \in Posts
    BY <1>0, <1>5 DEF IngestPost, PartiesOK, Worker, Recovering
  <2>0. /\ Sound(row[worker.post])
        /\ row[worker.post].status = "completed" => worker.post \in observed
    BY <1>0, RowsSound
  <2>1. RowsOK'
    BY <1>0, <1>5, <2>0, KeepRows, WriteRow, RowWrites DEF IngestPost, RowsOK, Ingest, Recovered
  <2>2. PartiesOK'
    <3>1. worker' \in Worker /\ worker'.pc \in Recovering /\ worker'.post = worker.post
      BY <1>0, <1>5, RecoveredWorker DEF IngestPost, Recovering
    <3>. QED
      BY <1>0, <1>5, <3>1, RecoveryAssumption DEF IngestPost, PartiesOK, PageExists,
         Recovering, NoEvent, Event
  <2>. QED
    BY <2>1, <2>2 DEF IInv
<1>6. CASE RetryLater
  <2>1. RowsOK'
    BY <1>0, <1>6, KeepRows DEF RetryLater
  <2>2. PartiesOK'
    BY <1>0, <1>6, RecoveryAssumption DEF RetryLater, PartiesOK, PageExists, Worker, Idle,
       Recovering, SyncPC, NoEvent, Event
  <2>. QED
    BY <2>1, <2>2 DEF IInv
<1>7. CASE Exhaust
  <2>. worker.post \in Posts
    BY <1>0, <1>7 DEF Exhaust, PartiesOK, Worker, Recovering
  <2>0. /\ Sound(row[worker.post])
        /\ row[worker.post].status = "completed" => worker.post \in observed
    BY <1>0, RowsSound
  <2>1. RowsOK'
    BY <1>0, <1>7, <2>0, KeepRows, WriteRow, RowWrites DEF Exhaust, RowsOK, Recovered
  <2>2. PartiesOK'
    <3>1. worker' \in Worker /\ worker'.pc \in Recovering /\ worker'.post = worker.post
      BY <1>0, <1>7, RecoveredWorker DEF Exhaust, Recovering
    <3>. QED
      BY <1>0, <1>7, <3>1, RecoveryAssumption DEF Exhaust, PartiesOK, PageExists, Recovering,
         NoEvent, Event
  <2>. QED
    BY <2>1, <2>2 DEF IInv
<1>8. CASE EndTask
  <2>1. RowsOK'
    BY <1>0, <1>8, KeepRows DEF EndTask
  <2>2. PartiesOK'
    BY <1>0, <1>8, RecoveryAssumption DEF EndTask, PartiesOK, PageExists, Worker, Idle,
       Recovering, SyncPC, NoEvent, Event
  <2>. QED
    BY <2>1, <2>2 DEF IInv
<1>. QED
  BY <1>1, <1>2, <1>3, <1>4, <1>5, <1>6, <1>7, <1>8 DEF RecoveryNext

\* The start of a recovery task, and the operator's calls for one post.
LEMMA RecoveryStart ==
  ASSUME IInv, NEW p \in Posts, StartRecovery(p) \/ RetryReset(p) \/ Rerun(p) \/ RetryEnqueue(p)
  PROVE  IInv'
<1>0. RowsOK /\ PartiesOK
  BY DEF IInv
<1>1. CASE StartRecovery(p)
  <2>. p \in Posts
    BY <1>0, <1>1 DEF StartRecovery, PartiesOK, Worker, Recovering
  <2>0. /\ Sound(row[p])
        /\ row[p].status = "completed" => p \in observed
    BY <1>0, RowsSound
  <2>1. RowsOK'
    BY <1>0, <1>1, <2>0, KeepRows, WriteRow, RowWrites DEF StartRecovery, RowsOK
  <2>2. PartiesOK'
    <3>1. PICK pc \in {"done", "recover"} : worker' = [Idle EXCEPT !.pc = pc, !.post = p]
      BY <1>1 DEF StartRecovery
    <3>2. pc \in Recovering
      BY DEF Recovering
    <3>3. Idle \in Worker
      BY <1>0, Workers
    <3>4. worker' \in Worker /\ worker'.pc = pc /\ worker'.post = p
      BY <1>0, <3>1, <3>2, <3>3, RecoveryWorker
    <3>. QED
      BY <1>0, <1>1, <3>4 DEF StartRecovery, PartiesOK, PageExists, NoEvent
  <2>. QED
    BY <2>1, <2>2 DEF IInv
<1>2. CASE RetryReset(p)
  <2>. p \in Posts
    BY <1>0, <1>2 DEF RetryReset, PartiesOK, Worker, Recovering
  <2>0. /\ Sound(row[p])
        /\ row[p].status = "completed" => p \in observed
    BY <1>0, RowsSound
  <2>1. RowsOK'
    BY <1>0, <1>2, <2>0, KeepRows, WriteRow, RowWrites DEF RetryReset, RowsOK
  <2>2. PartiesOK'
    BY <1>0, <1>2, RecoveryAssumption DEF RetryReset, PartiesOK, PageExists, Worker, Idle,
       Recovering, SyncPC, NoEvent, Event
  <2>. QED
    BY <2>1, <2>2 DEF IInv
<1>3. CASE Rerun(p)
  <2>. p \in Posts
    BY <1>0, <1>3 DEF Rerun, PartiesOK, Worker, Recovering
  <2>0. /\ Sound(row[p])
        /\ row[p].status = "completed" => p \in observed
    BY <1>0, RowsSound
  <2>1. RowsOK'
    BY <1>0, <1>3, <2>0, KeepRows, WriteRow, RowWrites DEF Rerun, RowsOK
  <2>2. PartiesOK'
    BY <1>0, <1>3, RecoveryAssumption DEF Rerun, PartiesOK, PageExists, Worker, Idle,
       Recovering, SyncPC, NoEvent, Event
  <2>. QED
    BY <2>1, <2>2 DEF IInv
<1>4. CASE RetryEnqueue(p)
  <2>1. RowsOK'
    BY <1>0, <1>4, KeepRows DEF RetryEnqueue
  <2>2. PartiesOK'
    <3>1. task' \in [Posts -> 0 .. MaxAttempt] /\ events' \in 0 .. MaxEvents
      BY <1>0, <1>4, RecoveryAssumption DEF RetryEnqueue, Enqueue, PartiesOK, Event, NoEvent
    <3>2. retry' \in [left : SUBSET Posts, reset : SUBSET Posts]
      BY <1>0, <1>4 DEF RetryEnqueue, PartiesOK
    <3>. QED
      BY <1>0, <1>4, <3>1, <3>2 DEF RetryEnqueue, PartiesOK, PageExists
  <2>. QED
    BY <2>1, <2>2 DEF IInv
<1>. QED
  BY <1>1, <1>2, <1>3, <1>4

\* An exit of the worker, and the operator's remaining calls.
LEMMA OtherStep ==
  ASSUME IInv, Crash \/ RetryBegin \/ (\E s \in Switches : SetPolicy(s))
  PROVE  IInv'
<1>0. RowsOK /\ PartiesOK
  BY DEF IInv
<1>1. CASE Crash
  <2>1. RowsOK'
    BY <1>0, <1>1, KeepRows DEF Crash
  <2>2. PartiesOK'
    BY <1>0, <1>1, RecoveryAssumption DEF Crash, PartiesOK, PageExists, Worker, Idle,
       Recovering, SyncPC, NoEvent, Event
  <2>. QED
    BY <2>1, <2>2 DEF IInv
<1>2. CASE RetryBegin
  <2>1. RowsOK'
    BY <1>0, <1>2, KeepRows DEF RetryBegin
  <2>2. PartiesOK'
    <3>1. {q \in Posts : row[q].status \in {"pending", "unavailable"}} \in SUBSET Posts
      OBVIOUS
    <3>2. retry' \in [left : SUBSET Posts, reset : SUBSET Posts]
      BY <1>0, <1>2, <3>1 DEF RetryBegin, PartiesOK
    <3>. QED
      BY <1>0, <1>2, <3>2, RecoveryAssumption DEF RetryBegin, PartiesOK, PageExists, Event
  <2>. QED
    BY <2>1, <2>2 DEF IInv
<1>3. CASE \E s \in Switches : SetPolicy(s)
  <2>0. \A q \in Posts : row'[q] \in {row[q], Reopened(row[q])}
    BY <1>0, <1>3 DEF SetPolicy
  <2>1. RowsOK'
    BY <1>0, <1>3, <2>0, RowsSound, RowWrites DEF SetPolicy, RowsOK, ExhaustedIsPending,
       CompletedIsArchived, Sound
  <2>2. PartiesOK'
    BY <1>0, <1>3, RecoveryAssumption DEF SetPolicy, PartiesOK, PageExists, Worker, Idle,
       Recovering, SyncPC, NoEvent, Event
  <2>. QED
    BY <2>1, <2>2 DEF IInv
<1>. QED
  BY <1>1, <1>2, <1>3

\* Every step preserves the invariant.
LEMMA StepOK ==
  ASSUME IInv, [Next]_vars
  PROVE  IInv'
<1>1. CASE SyncNext
  BY <1>1, SyncControl, SyncPost, RecoveryStep DEF SyncNext
<1>2. CASE \E p \in Posts : StartRecovery(p)
  BY <1>2, RecoveryStart
<1>3. CASE RecoveryNext
  BY <1>3, RecoveryStep
<1>4. CASE Crash
  BY <1>4, OtherStep
<1>5. CASE OperatorNext
  BY <1>5, RecoveryStart, OtherStep DEF OperatorNext
<1>6. CASE UNCHANGED vars
  BY <1>6 DEF vars, IInv, RowsOK, PartiesOK, PageExists, ExhaustedIsPending, CompletedIsArchived
<1>. QED
  BY <1>1, <1>2, <1>3, <1>4, <1>5, <1>6 DEF Next

\* The invariant holds of every behaviour.
LEMMA Invariance == Spec => []IInv
<1>1. IInv /\ [Next]_vars => IInv'
  BY StepOK
<1>. QED
  BY InitOK, <1>1, PTL DEF Spec

-----------------------------------------------------------------------------
\* Every variable keeps its type, for every timeline: no step of the worker
\* leaves the pages or the posts there are, and no attempt exceeds MaxAttempt.
THEOREM RecoveryTyping == Spec => []TypeOK
<1>1. IInv => TypeOK
  BY DEF IInv, RowsOK, PartiesOK, TypeOK
<1>. QED
  BY Invariance, <1>1, PTL

\* Answers, resets, reopenings and failures, in any order, never exhaust a row
\* that is not pending, nor complete one without its observation
\* (finish_post_fetch, exhaust_post_fetch, reset_post_fetch, ingest_item).
THEOREM RecoverySafety == Spec => [](ExhaustedIsPending /\ CompletedIsArchived)
<1>1. IInv => ExhaustedIsPending /\ CompletedIsArchived
  BY DEF IInv, RowsOK
<1>. QED
  BY Invariance, <1>1, PTL

\* A completed row stands for an archived post.
THEOREM RecoveryCompleted == Spec => []CompletedIsArchived
  BY RecoverySafety, PTL
=============================================================================
