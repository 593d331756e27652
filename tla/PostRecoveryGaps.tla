-------------------------- MODULE PostRecoveryGaps --------------------------
(***************************************************************************)
(* Proof that no gap of a scanned page is forgotten, for every timeline,   *)
(* also one on which posts recur or are named before they are shown.       *)
(***************************************************************************)
EXTENDS PostRecoveryProofs

PageNos == 1 .. Len(Pages)
Shows == UNION {Pages[i].visible : i \in PageNos}
Gaps(i) == Pages[i].collapsed \ Shows

\* The gaps of page i are known.
PageKnown(i) == \A m \in Gaps(i) : Known(m)

Scanning == {"page", "register", "detail", "asking", "yield"}

\* A post that anything but the timeline knows of: the scan came upon it.
Touched(p) ==
  \/ row[p].status # "none"
  \/ p \in observed
  \/ task[p] > 0
  \/ p \in ended
  \/ p \in retry.left \cup retry.reset
  \/ worker.pc = "dispatch" /\ p \in worker.todo
  \/ worker.pc \in Recovering /\ p = worker.post

TouchedIsScanned ==
  \A p \in Posts : Touched(p) => \A i \in PagesUpTo(p) : PageKnown(i)

\* The pages the scan has dealt with: those before the current one, and the
\* current one once its gaps are recorded.
Behind(i) ==
  \/ i < worker.page
  \/ i = worker.page /\ worker.pc \in {"detail", "asking", "yield"}

\* The scan leaves no page behind whose gaps are not known.
ScanIsComplete ==
  worker.pc \in Scanning =>
    /\ \A i \in PageNos : Behind(i) => PageKnown(i)
    /\ \A p \in worker.given \ Shows : Known(p)
    /\ \A i \in PageNos : worker.pc = "register" /\ i = worker.page =>
         \A m \in Gaps(i) : m \in worker.todo \/ Known(m)

\* What the worker looks at is named or shown by its page.
WorkIsOnPage ==
  /\ worker.pc \in {"register", "detail", "asking"} =>
       worker.todo \subseteq Pages[worker.page].collapsed \ Pages[worker.page].visible
  /\ worker.pc \in {"register", "detail", "asking", "yield"} =>
       worker.got \subseteq Pages[worker.page].collapsed
  /\ worker.pc = "asking" => worker.post \in Pages[worker.page].collapsed
  /\ worker.pc = "yield" =>
       worker.todo \subseteq Pages[worker.page].collapsed \cup Pages[worker.page].visible

GInv == TouchedIsScanned /\ ScanIsComplete /\ WorkIsOnPage

-----------------------------------------------------------------------------
\* A row that exists is never lost.
LEMMA RowStays ==
  ASSUME NEW r \in Row, r.status # "none",
         NEW status \in {"pending", "completed", "unavailable", "ignored"}
  PROVE  /\ Registered(r).status # "none"
         /\ Attempted(r).status # "none"
         /\ Finished(r, status).status # "none"
         /\ Exhausted(r).status # "none"
         /\ Reset(r).status # "none"
         /\ Reopened(r).status # "none"
  BY DEF Row, Registered, Attempted, Finished, Exhausted, Reset, Reopened, Fresh

\* Only a registration makes a row.
LEMMA RowMade ==
  ASSUME NEW r \in Row, r.status = "none",
         NEW status \in {"pending", "completed", "unavailable", "ignored"}
  PROVE  /\ Attempted(r).status = "none"
         /\ Finished(r, status).status = "none"
         /\ Exhausted(r).status = "none"
         /\ Reset(r).status = "none"
         /\ Reopened(r).status = "none"
  BY DEF Row, Attempted, Finished, Exhausted, Reset, Reopened

\* What is known stays known.
Grows ==
  /\ observed \subseteq observed' /\ cached \subseteq cached'
  /\ \A p \in Posts : row[p].status # "none" => row'[p].status # "none"

\* Steps that write neither a row nor the archive.
LEMMA QuietGrows ==
  ASSUME StartSync \/ ReadPage \/ RegisterDone \/ DetailDone \/ NextPage \/ EndSync
         \/ DispatchDone \/ ReadPolicy \/ RetryLater \/ EndTask \/ Crash \/ RetryBegin
  PROVE  UNCHANGED <<row, observed, cached>>
  BY DEF StartSync, ReadPage, RegisterDone, DetailDone, NextPage,
     EndSync, DispatchDone, ReadPolicy, RetryLater, EndTask, Crash, RetryBegin

\* Steps concerned with one post.
LEMMA PostGrows ==
  ASSUME IInv, NEW p \in Posts,
         \/ SkipDetail(p) \/ Dispatch(p) \/ RetryEnqueue(p)
         \/ Register(p) \/ AskDetail(p) \/ Yield(p)
         \/ StartRecovery(p) \/ RetryReset(p) \/ Rerun(p)
  PROVE  Grows
<1>0. row \in [Posts -> Row]
  BY DEF IInv, RowsOK
<1>1. CASE SkipDetail(p) \/ Dispatch(p) \/ RetryEnqueue(p)
  BY <1>1 DEF SkipDetail, Dispatch, RetryEnqueue, Grows
<1>2. CASE Register(p)
  BY <1>0, <1>2, RowStays DEF Register, SetRow, Grows
<1>3. CASE AskDetail(p)
  BY <1>0, <1>3, RowStays DEF AskDetail, SetRow, Grows
<1>4. CASE Yield(p)
  BY <1>0, <1>4, RowStays DEF Yield, SetRow, Grows, Ingest
<1>5. CASE StartRecovery(p)
  <2>1. Registered(row[p]) \in Row
    BY <1>0 DEF Registered, Row, Fresh
  <2>. QED
    BY <1>0, <1>5, <2>1, RowStays DEF StartRecovery, SetRow, Grows
<1>6. CASE RetryReset(p)
  BY <1>0, <1>6, RowStays DEF RetryReset, SetRow, Grows
<1>7. CASE Rerun(p)
  <2>1. Registered(row[p]) \in Row
    BY <1>0 DEF Registered, Row, Fresh
  <2>. QED
    BY <1>0, <1>7, <2>1, RowStays DEF Rerun, SetRow, Grows
<1>. QED
  BY <1>1, <1>2, <1>3, <1>4, <1>5, <1>6, <1>7

\* Answers and their consequences.
LEMMA AnswerGrows ==
  ASSUME IInv,
         DetailAnswer \/ RecoveryAnswer \/ IgnorePost \/ IngestPost \/ Exhaust
  PROVE  Grows
<1>0. row \in [Posts -> Row]
  BY DEF IInv, RowsOK
<1>1. CASE DetailAnswer
  BY <1>0, <1>1, RowStays DEF DetailAnswer, SetRow, Grows
<1>2. CASE RecoveryAnswer
  BY <1>0, <1>2, RowStays DEF RecoveryAnswer, SetRow, Grows
<1>3. CASE IgnorePost
  BY <1>0, <1>3, RowStays DEF IgnorePost, SetRow, Grows
<1>4. CASE IngestPost
  BY <1>0, <1>4, RowStays DEF IngestPost, SetRow, Grows, Ingest
<1>5. CASE Exhaust
  BY <1>0, <1>5, RowStays DEF Exhaust, SetRow, Grows
<1>. QED
  BY <1>1, <1>2, <1>3, <1>4, <1>5

\* Every step.
LEMMA StepGrows ==
  ASSUME IInv, [Next]_vars
  PROVE  Grows
<1>1. CASE SyncNext
  BY <1>1, QuietGrows, PostGrows, AnswerGrows DEF SyncNext, Grows
<1>2. CASE \E p \in Posts : StartRecovery(p)
  BY <1>2, PostGrows
<1>3. CASE RecoveryNext
  BY <1>3, QuietGrows, AnswerGrows DEF RecoveryNext, Grows
<1>4. CASE Crash \/ RetryBegin
  BY <1>4, QuietGrows DEF Grows
<1>5. CASE \E s \in Switches : SetPolicy(s)
  <2>1. row \in [Posts -> Row]
    BY DEF IInv, RowsOK
  <2>. QED
    BY <1>5, <2>1, RowStays DEF SetPolicy, Grows
<1>6. CASE \E p \in Posts : RetryReset(p) \/ Rerun(p) \/ RetryEnqueue(p)
  BY <1>6, PostGrows
<1>7. CASE UNCHANGED vars
  BY <1>7 DEF vars, Grows
<1>. QED
  BY <1>1, <1>2, <1>3, <1>4, <1>5, <1>6, <1>7 DEF Next, OperatorNext

\* The gaps of a page are posts.
LEMMA GapsArePosts ==
  ASSUME NEW i \in PageNos
  PROVE  /\ Pages[i].visible \subseteq Posts /\ Pages[i].collapsed \subseteq Posts
         /\ Gaps(i) \subseteq Posts
<1>1. Pages[i] \in [visible : SUBSET Posts, collapsed : SUBSET Posts]
  BY RecoveryAssumption, ElementOf DEF PageNos
<1>. QED
  BY <1>1 DEF Gaps

\* So does a page whose gaps are known.
LEMMA KnownStays ==
  ASSUME Grows
  PROVE  /\ \A p \in Posts : Known(p) => Known(p)'
         /\ \A i \in PageNos : PageKnown(i) => PageKnown(i)'
<1>1. \A p \in Posts : Known(p) => Known(p)'
  BY DEF Grows, Known
<1>. QED
  BY <1>1, GapsArePosts DEF PageKnown

-----------------------------------------------------------------------------
\* The scan is about to record or to hand on a post.
Read(p) == worker.pc \in {"register", "yield"} /\ p \in worker.todo

\* After an answer the synchronisation returns to the page, or it has failed.
LEMMA AnswerWorker ==
  ASSUME PartiesOK, DetailAnswer
  PROVE  /\ worker.pc = "asking"
         /\ \/ worker'.pc = "idle"
            \/ /\ worker'.pc = "detail"
               /\ worker'.page = worker.page /\ worker'.given = worker.given
               /\ worker'.todo = worker.todo
               /\ worker'.got \subseteq worker.got \cup {worker.post}
<1> DEFINE back == [worker EXCEPT !.pc = "detail", !.post = NoPost]
<1>1. /\ back \in Worker /\ back.pc = "detail"
      /\ back.page = worker.page /\ back.given = worker.given
      /\ back.todo = worker.todo /\ back.got = worker.got
  BY DEF PartiesOK, Worker, SyncPC
<1>2. worker.pc = "asking"
  BY DEF DetailAnswer
<1>3. worker' \in {back, [back EXCEPT !.got = back.got \cup {worker.post}],
                   [back EXCEPT !.deferred = TRUE], Idle}
  BY DEF DetailAnswer
<1>. HIDE DEF back
<1>4. CASE worker' = Idle
  BY <1>2, <1>4, Workers
<1>5. CASE worker' = back
  BY <1>1, <1>2, <1>5
<1>6. CASE worker' = [back EXCEPT !.got = back.got \cup {worker.post}]
  BY <1>1, <1>2, <1>6 DEF Worker
<1>7. CASE worker' = [back EXCEPT !.deferred = TRUE]
  BY <1>1, <1>2, <1>7 DEF Worker
<1>. QED
  BY <1>3, <1>4, <1>5, <1>6, <1>7

\* Of a synchronisation's steps, only those that read a post touch a new one.
LEMMA SyncTouches ==
  ASSUME IInv, SyncNext, NEW p \in Posts, Touched(p)'
  PROVE  Touched(p) \/ Read(p)
<1>0. row \in [Posts -> Row] /\ worker \in Worker
  BY DEF IInv, RowsOK, PartiesOK
<1>1. CASE StartSync
  BY <1>0, <1>1, RowMade DEF StartSync, Touched, Worker, Recovering, Idle, Dispatching, Eligible
<1>2. CASE ReadPage
  BY <1>0, <1>2, RowMade DEF ReadPage, Touched, Worker, Recovering
<1>3. CASE RegisterDone
  BY <1>0, <1>3, RowMade DEF RegisterDone, Touched, Worker, Recovering
<1>4. CASE DetailAnswer
  <2>1. worker.post \in Posts
    BY <1>4 DEF DetailAnswer, IInv, PartiesOK
  <2>2. \A q \in Posts : row[q].status = "none" => row'[q].status = "none"
    BY <1>0, <1>4, <2>1, RowMade DEF DetailAnswer, SetRow
  <2>3. worker'.pc \in {"detail", "idle"}
    BY <1>4, AnswerWorker DEF IInv
  <2>. QED
    BY <1>4, <2>2, <2>3 DEF DetailAnswer, Touched, Recovering
<1>5. CASE DetailDone
  BY <1>0, <1>5, RowMade DEF DetailDone, Touched, Worker, Recovering
<1>6. CASE NextPage
  BY <1>0, <1>6, RowMade DEF NextPage, Touched, Worker, Recovering
<1>7. CASE EndSync
  BY <1>0, <1>7, RowMade DEF EndSync, Touched, Worker, Recovering, Dispatching, Eligible, Idle
<1>8. CASE DispatchDone
  BY <1>0, <1>8, RowMade DEF DispatchDone, Touched, Worker, Recovering, Idle
<1>9. ASSUME NEW q \in Posts, Register(q)
     PROVE  Touched(p) \/ Read(p)
  BY <1>0, <1>9, RowMade DEF Register, Touched, Worker, Recovering, Read, SetRow
<1>10. ASSUME NEW q \in Posts, SkipDetail(q)
     PROVE  Touched(p) \/ Read(p)
  BY <1>0, <1>10, RowMade DEF SkipDetail, Touched, Worker, Recovering
<1>11. ASSUME NEW q \in Posts, AskDetail(q)
     PROVE  Touched(p) \/ Read(p)
  BY <1>0, <1>11, RowMade DEF AskDetail, Touched, Worker, Recovering, SetRow
<1>12. ASSUME NEW q \in Posts, Yield(q)
     PROVE  Touched(p) \/ Read(p)
  BY <1>0, <1>12, RowMade DEF Yield, Touched, Worker, Recovering, Read, SetRow, Ingest, First
<1>13. ASSUME NEW q \in Posts, Dispatch(q)
     PROVE  Touched(p) \/ Read(p)
  BY <1>0, <1>13, RowMade DEF Dispatch, Touched, Worker, Recovering, Enqueue
<1>. QED
  BY <1>1, <1>2, <1>3, <1>4, <1>5, <1>6, <1>7, <1>8, <1>9, <1>10, <1>11, <1>12, <1>13 DEF
     SyncNext

\* The other parties touch no new post.
LEMMA OthersTouch ==
  ASSUME IInv, NEW p \in Posts, Touched(p)',
         RecoveryNext \/ Crash \/ OperatorNext \/ (\E q \in Posts : StartRecovery(q))
  PROVE  Touched(p)
<1>0. row \in [Posts -> Row] /\ worker \in Worker /\ task \in [Posts -> 0 .. MaxAttempt]
  BY DEF IInv, RowsOK, PartiesOK
<1>a. worker.pc \in Recovering => worker.post \in Posts
  BY DEF IInv, PartiesOK
<1>1. CASE RecoveryAnswer
  BY <1>0, <1>a, <1>1, RowMade DEF RecoveryAnswer, Touched, Worker, Recovering, SetRow,
     Recovered
<1>2. CASE ReadPolicy
  BY <1>0, <1>a, <1>2, RowMade DEF ReadPolicy, Touched, Worker, Recovering, Recovered
<1>3. CASE IgnorePost
  BY <1>0, <1>a, <1>3, RowMade DEF IgnorePost, Touched, Worker, Recovering, SetRow, Recovered
<1>4. CASE IngestPost
  BY <1>0, <1>a, <1>4, RowMade DEF IngestPost, Touched, Worker, Recovering, SetRow, Ingest,
     Recovered
<1>5. CASE RetryLater
  BY <1>0, <1>a, <1>5, RowMade DEF RetryLater, Touched, Worker, Recovering, Idle
<1>6. CASE Exhaust
  BY <1>0, <1>a, <1>6, RowMade DEF Exhaust, Touched, Worker, Recovering, SetRow, Recovered
<1>7. CASE EndTask
  BY <1>0, <1>a, <1>7, RowMade DEF EndTask, Touched, Worker, Recovering, Idle
<1>8. CASE Crash
  BY <1>0, <1>a, <1>8, RowMade DEF Crash, Touched, Worker, Recovering, Idle
<1>9. CASE RetryBegin
  BY <1>0, <1>a, <1>9, RowMade DEF RetryBegin, Touched, Worker, Recovering
<1>10. ASSUME NEW q \in Posts, StartRecovery(q)
     PROVE  Touched(p)
  <2>1. PICK pc \in {"done", "recover"} : worker' = [Idle EXCEPT !.pc = pc, !.post = q]
    BY <1>10 DEF StartRecovery
  <2>2. worker'.pc \in Recovering /\ worker'.post = q
    <3>1. PartiesOK /\ pc \in Recovering
      BY DEF IInv, Recovering
    <3>. QED
      BY <2>1, <3>1, RecoveryWorker
  <2>3. p # q => row'[p] = row[p]
    BY <1>0, <1>10 DEF StartRecovery, SetRow
  <2>. QED
    BY <1>10, <2>2, <2>3 DEF StartRecovery, Touched, Recovering
<1>11. ASSUME NEW q \in Posts, RetryReset(q)
     PROVE  Touched(p)
  BY <1>0, <1>11, RowMade DEF RetryReset, Touched, Worker, Recovering, SetRow
<1>12. ASSUME NEW q \in Posts, Rerun(q)
     PROVE  Touched(p)
  BY <1>0, <1>12, RowMade DEF Rerun, Touched, Worker, Recovering, NoRetry, SetRow
<1>13. ASSUME NEW q \in Posts, RetryEnqueue(q)
     PROVE  Touched(p)
  BY <1>0, <1>13, RowMade DEF RetryEnqueue, Touched, Worker, Recovering, Enqueue
<1>14. CASE \E s \in Switches : SetPolicy(s)
  BY <1>0, <1>14, RowMade DEF SetPolicy, Touched
<1>. QED
  BY <1>1, <1>2, <1>3, <1>4, <1>5, <1>6, <1>7, <1>8, <1>9, <1>10, <1>11, <1>12, <1>13, <1>14 DEF
     RecoveryNext, OperatorNext

\* When a post is read, the pages up to it are dealt with.
LEMMA ReadIsBehind ==
  ASSUME IInv, GInv, NEW p \in Posts, Read(p), NEW i \in PagesUpTo(p)
  PROVE  PageKnown(i)
<1>1. worker.page \in PageNos /\ i \in PageNos
  BY DEF IInv, PartiesOK, PageExists, Read, PageNos, PagesUpTo
<1>2. i \in Nat /\ worker.page \in Nat /\ (worker.page < i => worker.page \in 1 .. i - 1)
  BY <1>1, RecoveryAssumption DEF PageNos
<1>3. Behind(i) => PageKnown(i)
  BY <1>1 DEF GInv, ScanIsComplete, Read, Scanning
<1>4. p \in Pages[worker.page].collapsed \cup Pages[worker.page].visible
  BY DEF GInv, WorkIsOnPage, Read
<1>5. ~(worker.page < i)
  BY <1>2, <1>4 DEF PagesUpTo
<1>6. CASE i < worker.page
  BY <1>3, <1>6 DEF Behind
<1>7. CASE i = worker.page
  <2>1. worker.pc = "yield"
    BY <1>7 DEF GInv, WorkIsOnPage, Read, PagesUpTo
  <2>. QED
    BY <1>3, <1>7, <2>1 DEF Behind
<1>. QED
  BY <1>2, <1>5, <1>6, <1>7

\* So the pages up to every post anyone touches lie behind the scan.
LEMMA TouchedStep ==
  ASSUME IInv, GInv, [Next]_vars
  PROVE  TouchedIsScanned'
<1>1. SUFFICES ASSUME NEW p \in Posts, Touched(p)', NEW i \in PagesUpTo(p)
               PROVE  PageKnown(i)'
  BY DEF TouchedIsScanned, PagesUpTo
<1>2. Touched(p) \/ Read(p)
  <2>1. CASE UNCHANGED vars
    BY <1>1, <2>1 DEF vars, Touched
  <2>. QED
    BY <1>1, <2>1, SyncTouches, OthersTouch DEF Next
<1>3. PageKnown(i)
  BY <1>1, <1>2, ReadIsBehind DEF GInv, TouchedIsScanned
<1>4. i \in PageNos
  BY DEF PagesUpTo, PageNos
<1>. QED
  BY <1>3, <1>4, StepGrows, KnownStays

-----------------------------------------------------------------------------
\* A step within a page keeps what the scan has dealt with.
LEMMA SamePage ==
  ASSUME ScanIsComplete, Grows, worker.pc \in Scanning,
         worker'.page = worker.page, worker'.given = worker.given,
         worker'.pc \in {"detail", "asking", "yield"},
         \/ worker.pc \in {"detail", "asking", "yield"}
         \/ (\A i \in PageNos : i = worker.page => PageKnown(i)),
         worker.given \subseteq Posts
  PROVE  ScanIsComplete'
<1>1. \A i \in PageNos : Behind(i)' => PageKnown(i)
  BY DEF ScanIsComplete, Behind
<1>2. \A p \in worker.given \ Shows : Known(p)
  BY DEF ScanIsComplete
<1>. QED
  BY <1>1, <1>2, KnownStays DEF ScanIsComplete

\* A worker that scans nothing, or does not move, leaves the scan complete.
LEMMA NoScan ==
  ASSUME IInv, GInv, Grows, worker'.pc \notin Scanning \/ worker' = worker
  PROVE  ScanIsComplete' /\ WorkIsOnPage'
<1>1. CASE worker'.pc \notin Scanning
  BY <1>1 DEF ScanIsComplete, WorkIsOnPage, Scanning
<1>2. CASE worker' = worker /\ worker'.pc \in Scanning
  <2>1. worker.given \subseteq Posts
    BY DEF IInv, PartiesOK, Worker
  <2>2. ScanIsComplete'
    BY <1>2, <2>1, KnownStays, GapsArePosts DEF GInv, ScanIsComplete, Behind
  <2>3. WorkIsOnPage'
    BY <1>2 DEF GInv, WorkIsOnPage
  <2>. QED
    BY <2>2, <2>3
<1>. QED
  BY <1>1, <1>2

\* The steps between the posts of a page.
LEMMA ScanControl ==
  ASSUME IInv, GInv, Grows,
         StartSync \/ ReadPage \/ RegisterDone \/ DetailDone \/ NextPage
  PROVE  ScanIsComplete' /\ WorkIsOnPage'
<1>0. worker \in Worker /\ worker.given \subseteq Posts
  BY DEF IInv, PartiesOK, Worker
<1>a. worker.page \in Nat /\ Len(Pages) \in Nat
  BY <1>0, RecoveryAssumption DEF Worker
<1>1. CASE StartSync
  <2>1. worker'.pc \in {"page", "dispatch"} /\ worker'.page = 1 /\ worker'.given = {}
    BY <1>1 DEF StartSync, Dispatching, Idle
  <2>2. \A i \in PageNos : ~Behind(i)'
    BY <1>a, <2>1 DEF PageNos, Behind
  <2>. QED
    BY <2>1, <2>2 DEF ScanIsComplete, WorkIsOnPage
<1>2. CASE ReadPage
  <2>1. /\ worker'.pc = "register" /\ worker'.page = worker.page /\ worker'.given = worker.given
        /\ worker'.todo = Missing /\ worker'.got = {}
    BY <1>0, <1>2 DEF ReadPage, Worker
  <2>2. \A i \in PageNos : Behind(i)' => PageKnown(i)
    BY <1>2, <2>1 DEF ReadPage, GInv, ScanIsComplete, Behind, Scanning
  <2>3. \A p \in worker.given \ Shows : Known(p)
    BY <1>2 DEF ReadPage, GInv, ScanIsComplete, Scanning
  <2>4. ASSUME NEW i \in PageNos, i = worker.page, NEW m \in Gaps(i)
        PROVE  m \in Missing \/ Known(m)
    <3>1. m \in Pages[i].collapsed /\ m \notin Shows /\ m \notin Pages[i].visible
      BY <2>4 DEF Gaps, Shows
    <3>. QED
      BY <2>3, <2>4, <3>1 DEF Missing
  <2>5. ScanIsComplete'
    BY <1>0, <2>1, <2>2, <2>3, <2>4, KnownStays, GapsArePosts DEF ScanIsComplete
  <2>6. WorkIsOnPage'
    BY <2>1 DEF WorkIsOnPage, Missing
  <2>. QED
    BY <2>5, <2>6
<1>3. CASE RegisterDone
  <2>1. /\ worker'.pc = "detail" /\ worker'.page = worker.page /\ worker'.given = worker.given
        /\ worker'.todo = Missing \ worker.got /\ worker'.got = worker.got
    BY <1>0, <1>3 DEF RegisterDone, Worker
  <2>2. \A i \in PageNos : i = worker.page => PageKnown(i)
    BY <1>3 DEF RegisterDone, GInv, ScanIsComplete, Scanning, PageKnown
  <2>3. ScanIsComplete'
    BY <1>0, <1>3, <2>1, <2>2, SamePage DEF RegisterDone, GInv, Scanning
  <2>4. WorkIsOnPage'
    BY <1>3, <2>1 DEF RegisterDone, GInv, WorkIsOnPage, Missing
  <2>. QED
    BY <2>3, <2>4
<1>4. CASE DetailDone
  <2>1. /\ worker'.pc = "yield" /\ worker'.page = worker.page /\ worker'.given = worker.given
        /\ worker'.todo = (worker.got \cup Pages[worker.page].visible) \ worker.given
        /\ worker'.got = worker.got
    BY <1>0, <1>4 DEF DetailDone, Worker
  <2>2. ScanIsComplete'
    BY <1>0, <1>4, <2>1, SamePage DEF DetailDone, GInv, Scanning
  <2>3. WorkIsOnPage'
    BY <1>4, <2>1 DEF DetailDone, GInv, WorkIsOnPage
  <2>. QED
    BY <2>2, <2>3
<1>5. CASE NextPage
  <2>1. /\ worker'.pc = "page" /\ worker'.page = worker.page + 1
        /\ worker'.given = worker.given
    BY <1>0, <1>5 DEF NextPage, Worker
  <2>2. \A i \in PageNos : Behind(i)' => i < worker.page \/ i = worker.page
    BY <1>a, <2>1 DEF Behind, PageNos
  <2>3. \A i \in PageNos : Behind(i)' => PageKnown(i)
    BY <1>5, <2>2 DEF NextPage, GInv, ScanIsComplete, Behind, Scanning
  <2>4. \A p \in worker.given \ Shows : Known(p)
    BY <1>5 DEF NextPage, GInv, ScanIsComplete, Scanning
  <2>5. ScanIsComplete'
    BY <1>0, <2>1, <2>3, <2>4, KnownStays DEF ScanIsComplete
  <2>6. WorkIsOnPage'
    BY <2>1 DEF WorkIsOnPage
  <2>. QED
    BY <2>5, <2>6
<1>. QED
  BY <1>1, <1>2, <1>3, <1>4, <1>5

\* Recording a named post makes it known.
LEMMA ScanRegister ==
  ASSUME IInv, GInv, Grows, NEW q \in Posts, Register(q)
  PROVE  ScanIsComplete' /\ WorkIsOnPage'
<1>0. worker \in Worker /\ worker.given \subseteq Posts /\ row \in [Posts -> Row]
  BY DEF IInv, RowsOK, PartiesOK, Worker
<1>1. /\ worker'.pc = "register" /\ worker.pc = "register" /\ worker'.page = worker.page
      /\ worker'.given = worker.given /\ worker'.todo = worker.todo \ {q}
      /\ worker'.got = worker.got \cup ({q} \cap cached) /\ q \in worker.todo
  BY <1>0 DEF Register, Worker
<1>2. Known(q)'
  <2>1. CASE q \notin cached \/ (Own(q) /\ q \notin observed)
    <3>1. row'[q] = Registered(row[q])
      BY <1>0, <2>1 DEF Register, SetRow
    <3>. QED
      BY <3>1 DEF Known, Registered, Fresh
  <2>2. CASE q \in cached /\ (~Own(q) \/ q \in observed)
    BY <2>2 DEF Register, Known
  <2>. QED
    BY <2>1, <2>2
<1>3. \A i \in PageNos : Behind(i)' => PageKnown(i)
  BY <1>1 DEF GInv, ScanIsComplete, Behind, Scanning
<1>4. /\ \A p \in worker.given \ Shows : Known(p)
      /\ \A i \in PageNos : i = worker.page => \A m \in Gaps(i) : m \in worker.todo \/ Known(m)
  BY <1>1 DEF GInv, ScanIsComplete, Scanning
<1>5. \A i \in PageNos : i = worker.page => \A m \in Gaps(i) : m \in worker'.todo \/ Known(m)'
  BY <1>1, <1>2, <1>4, KnownStays, GapsArePosts
<1>6. ScanIsComplete'
  BY <1>0, <1>1, <1>3, <1>4, <1>5, KnownStays DEF ScanIsComplete
<1>7. WorkIsOnPage'
  BY <1>1 DEF GInv, WorkIsOnPage
<1>. QED
  BY <1>6, <1>7

\* Requesting a post or not, and the answer.
LEMMA ScanDetail ==
  ASSUME IInv, GInv, Grows,
         (\E q \in Posts : SkipDetail(q) \/ AskDetail(q)) \/ DetailAnswer
  PROVE  ScanIsComplete' /\ WorkIsOnPage'
<1>0. worker \in Worker /\ worker.given \subseteq Posts
  BY DEF IInv, PartiesOK, Worker
<1>1. ASSUME NEW q \in Posts, SkipDetail(q) \/ AskDetail(q)
      PROVE  ScanIsComplete' /\ WorkIsOnPage'
  <2>1. /\ worker'.pc \in {"detail", "asking"} /\ worker.pc = "detail" /\ q \in worker.todo
        /\ worker'.page = worker.page /\ worker'.given = worker.given
        /\ worker'.todo = worker.todo \ {q} /\ worker'.got = worker.got
        /\ worker'.pc = "asking" => worker'.post = q
    BY <1>0, <1>1 DEF SkipDetail, AskDetail, Worker
  <2>2. ScanIsComplete'
    BY <1>0, <2>1, SamePage DEF GInv, Scanning
  <2>3. WorkIsOnPage'
    BY <2>1 DEF GInv, WorkIsOnPage
  <2>. QED
    BY <2>2, <2>3
<1>2. CASE DetailAnswer /\ worker'.pc = "detail"
  <2>1. /\ worker.pc = "asking"
        /\ worker'.page = worker.page /\ worker'.given = worker.given
        /\ worker'.todo = worker.todo /\ worker'.got \subseteq worker.got \cup {worker.post}
    BY <1>2, AnswerWorker DEF IInv
  <2>2. ScanIsComplete'
    BY <1>0, <1>2, <2>1, SamePage DEF GInv, Scanning
  <2>3. WorkIsOnPage'
    BY <1>2, <2>1 DEF GInv, WorkIsOnPage
  <2>. QED
    BY <2>2, <2>3
<1>3. CASE DetailAnswer /\ worker'.pc # "detail"
  <2>1. worker'.pc = "idle"
    BY <1>3, AnswerWorker DEF IInv
  <2>. QED
    BY <2>1, NoScan DEF Scanning
<1>. QED
  BY <1>1, <1>2, <1>3

\* A post that is handed on is shown by a page or known.
LEMMA ScanYield ==
  ASSUME IInv, GInv, Grows, NEW q \in Posts, Yield(q)
  PROVE  ScanIsComplete' /\ WorkIsOnPage'
<1>0. worker \in Worker /\ worker.given \subseteq Posts
  BY DEF IInv, PartiesOK, Worker
<1>1. /\ worker'.pc = "yield" /\ worker.pc = "yield" /\ worker'.page = worker.page
      /\ worker'.given = worker.given \cup {q} /\ worker'.todo = worker.todo \ {q}
      /\ worker'.got = worker.got /\ q \in worker.todo
  BY <1>0 DEF Yield, Worker, First
<1>2. worker.page \in PageNos
  BY <1>1 DEF IInv, PartiesOK, PageExists, PageNos
<1>3. /\ \A i \in PageNos : Behind(i) => PageKnown(i)
      /\ \A p \in worker.given \ Shows : Known(p)
  BY <1>1 DEF GInv, ScanIsComplete, Scanning
<1>4. PageKnown(worker.page)
  BY <1>1, <1>2, <1>3 DEF Behind
<1>5. q \notin Shows => Known(q)
  <2>1. q \in Pages[worker.page].collapsed \cup Pages[worker.page].visible
    BY <1>1 DEF GInv, WorkIsOnPage
  <2>2. q \notin Shows => q \in Gaps(worker.page)
    BY <1>2, <2>1 DEF Gaps, Shows
  <2>. QED
    BY <1>4, <2>2 DEF PageKnown
<1>6. \A i \in PageNos : Behind(i)' => PageKnown(i)
  BY <1>1, <1>3 DEF Behind
<1>7. ScanIsComplete'
  BY <1>0, <1>1, <1>3, <1>5, <1>6, KnownStays DEF ScanIsComplete
<1>8. WorkIsOnPage'
  BY <1>1 DEF GInv, WorkIsOnPage
<1>. QED
  BY <1>7, <1>8

\* The steps that end the scan or are not the worker's.
LEMMA OtherScan ==
  ASSUME IInv, EndSync \/ DispatchDone \/ (\E q \in Posts : Dispatch(q) \/ StartRecovery(q))
               \/ RecoveryNext \/ Crash \/ OperatorNext
  PROVE  worker'.pc \notin Scanning \/ worker' = worker
<1>0. worker \in Worker
  BY DEF IInv, PartiesOK
<1>1. CASE EndSync \/ DispatchDone \/ Crash
  BY <1>1, Workers DEF EndSync, DispatchDone, Crash, Scanning, IInv
<1>2. ASSUME NEW q \in Posts, Dispatch(q)
      PROVE  worker'.pc \notin Scanning
  BY <1>0, <1>2 DEF Dispatch, Worker, Scanning
<1>3. ASSUME NEW q \in Posts, StartRecovery(q)
      PROVE  worker'.pc \notin Scanning
  <2>1. PICK pc \in {"done", "recover"} : worker' = [Idle EXCEPT !.pc = pc, !.post = q]
    BY <1>3 DEF StartRecovery
  <2>. QED
    BY <2>1, RecoveryWorker DEF Recovering, IInv, Scanning
<1>4. CASE RecoveryNext
  BY <1>0, <1>4 DEF RecoveryNext, RecoveryAnswer, ReadPolicy, IgnorePost, IngestPost, RetryLater,
     Exhaust, EndTask, Recovered, Idle, Worker, Scanning
<1>5. CASE OperatorNext
  BY <1>5 DEF OperatorNext, SetPolicy, RetryBegin, RetryReset, Rerun, RetryEnqueue
<1>. QED
  BY <1>1, <1>2, <1>3, <1>4, <1>5

\* Every step preserves the invariant.
LEMMA GapStep ==
  ASSUME IInv, GInv, [Next]_vars
  PROVE  GInv'
<1>1. Grows
  BY StepGrows
<1>2. TouchedIsScanned'
  BY TouchedStep
<1>3. CASE UNCHANGED vars
  BY <1>1, <1>2, <1>3, NoScan DEF vars, GInv
<1>4. CASE SyncNext
  BY <1>1, <1>2, <1>4, ScanControl, ScanRegister, ScanDetail, ScanYield, OtherScan, NoScan
     DEF SyncNext, GInv
<1>5. CASE RecoveryNext \/ Crash \/ OperatorNext \/ (\E q \in Posts : StartRecovery(q))
  BY <1>1, <1>2, <1>5, OtherScan, NoScan DEF GInv
<1>. QED
  BY <1>3, <1>4, <1>5 DEF Next

\* At the start nothing is touched and nothing is scanned.
LEMMA GapInit == Init => GInv
  BY DEF Init, GInv, TouchedIsScanned, Touched, ScanIsComplete, WorkIsOnPage, NoRow, NoRetry, Idle,
     Scanning, Recovering

-----------------------------------------------------------------------------
\* For every timeline, and every number of posts, operator calls, crashes and
\* failures: once a post is archived, every post the pages up to it only name is
\* known (fetch_timeline and _sync_account record all missing ids of a page
\* before they request or hand on any).
THEOREM RecoveryGaps == Spec => []GapsPersist
<1>1. IInv /\ GInv /\ [Next]_vars => GInv'
  BY GapStep
<1>2. IInv /\ GInv => GapsPersist
  <2>1. SUFFICES ASSUME IInv, GInv, NEW p \in observed, NEW i \in PagesUpTo(p)
                 PROVE  \A m \in Gaps(i) : Known(m)
    BY DEF GapsPersist, Gaps, Shows, PageNos
  <2>2. p \in Posts
    BY <2>1 DEF IInv, RowsOK
  <2>. QED
    BY <2>1, <2>2 DEF GInv, TouchedIsScanned, Touched, PageKnown
<1>. QED
  BY Invariance, GapInit, <1>1, <1>2, PTL DEF Spec
=============================================================================
