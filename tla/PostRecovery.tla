---------------------------- MODULE PostRecovery ----------------------------
(***************************************************************************)
(* Gaps in one account's timeline and how they are closed.  A page of the  *)
(* timeline shows some posts and only names others (collapsed replies).    *)
(* The named ones are recorded in archive_post_fetches and requested one   *)
(* by one, by the synchronisation that found them or by a recovery task of *)
(* their own.  Three parties work on the rows:                             *)
(*                                                                         *)
(*   the crawl worker, one slot (max-async-tasks 1), which runs either     *)
(*     sync_account_task (fetch_timeline of source.py, _sync_account of    *)
(*     sync.py) or fetch_post_detail_task (recover_post of sync.py);       *)
(*   the operator's API calls: the three archive switches, retry, rerun;   *)
(*   the queue, reduced to what TaskQueue shows of it: one task per post,  *)
(*     up to MaxAttempt attempts, redelivered after a crash.               *)
(*                                                                         *)
(* A step is one SQLite transaction with the reads before it, or one       *)
(* answer of X.  Reads whose answer another party can change before it is  *)
(* used (the archive switches) are steps of their own.                     *)
(***************************************************************************)
EXTENDS Naturals, Sequences, FiniteSets

CONSTANTS
  Posts,
  Switches,    \* archive switches of an account: originals, replies, reposts
  TypeOf,      \* [Posts -> a switch, or "foreign" for another author's post]
  Pages,       \* the timeline: <<[visible, collapsed : SUBSET Posts], ...>>
  MaxAttempt,  \* attempts of one recovery task
  MaxEvents,   \* operator calls, crashes and failing services in a behaviour
  NoPost       \* the worker is not concerned with one post

ASSUME RecoveryAssumption ==
  /\ "foreign" \notin Switches
  /\ TypeOf \in [Posts -> Switches \cup {"foreign"}]
  /\ Pages \in Seq([visible : SUBSET Posts, collapsed : SUBSET Posts])
  /\ MaxAttempt \in Nat \ {0}
  /\ MaxEvents \in Nat
  /\ NoPost \notin Posts

VARIABLES
  row,       \* [Posts -> row of archive_post_fetches]
  observed,  \* posts archived as the account's own (observation stored)
  cached,    \* posts with a complete snapshot in the archive
  policy,    \* [Switches -> BOOLEAN] of observed_accounts
  task,      \* [Posts -> attempt of the recovery task, 0 when there is none]
  ended,     \* posts with an ended recovery task in the task history
  worker,    \* what the crawl worker is doing
  retry,     \* what the operator's retry call has left to do
  events

vars == <<row, observed, cached, policy, task, ended, worker, retry, events>>

\* status, retry_exhausted, and whether last_attempt_at is set.
Row == [status : {"none", "pending", "completed", "unavailable", "ignored"},
        exhausted : BOOLEAN, attempted : BOOLEAN]

NoRow == [status |-> "none", exhausted |-> FALSE, attempted |-> FALSE]
Fresh == [status |-> "pending", exhausted |-> FALSE, attempted |-> FALSE]

-----------------------------------------------------------------------------
(* The writes of ArchiveRepository to a row; an UPDATE of none does nothing. *)

Registered(r) == IF r.status \in {"none", "completed"} THEN Fresh ELSE r

Attempted(r) == [r EXCEPT !.attempted = r.status # "none"]

\* Mutant: an exhausted row stays exhausted whatever the outcome.
FinishedKeepsExhausted(r, status) ==
  IF r.status = "none" THEN r ELSE [r EXCEPT !.status = status]

\* finish_post_fetch.
Finished(r, status) ==
  IF r.status = "none" THEN r
  ELSE [r EXCEPT !.status = status, !.exhausted = status = "pending" /\ @]

\* Mutant: the final failure does not take the row out of the queue.
ExhaustedNever(r) == r

\* exhaust_post_fetch.
Exhausted(r) == [r EXCEPT !.exhausted = @ \/ r.status = "pending"]

\* reset_post_fetch.
Reset(r) ==
  IF r.status = "none" THEN r
  ELSE [r EXCEPT !.status = "pending", !.exhausted = FALSE]

\* _reopen_ignored_fetches.
Reopened(r) == IF r.status = "ignored" THEN Fresh ELSE r

\* post_fetches: what a synchronisation dispatches a recovery task for.
Eligible(p) == row[p].status = "pending" /\ ~row[p].exhausted

Own(p) == TypeOf[p] # "foreign"
Archives(switches, p) == Own(p) /\ switches[TypeOf[p]]

SetRow(p, r) == row' = [row EXCEPT ![p] = r]

\* Mutant: the row is completed although no observation is stored.
IngestUnobserved(p) ==
  /\ cached' = cached \cup {p}
  /\ SetRow(p, Finished(row[p], "completed"))
  /\ UNCHANGED observed

\* ingest_item: content, observation and row in one transaction.
Ingest(p) ==
  /\ observed' = observed \cup {p}
  /\ cached' = cached \cup {p}
  /\ SetRow(p, Finished(row[p], "completed"))

\* SET NX of the post's key, then publication.
Enqueue(p) == task' = [task EXCEPT ![p] = IF @ = 0 THEN 1 ELSE @]

Event == events < MaxEvents /\ events' = events + 1
NoEvent == UNCHANGED events

-----------------------------------------------------------------------------

\* worker.policy: the switches as a synchronisation read them at its start;
\* given: the posts it was handed so far; got: the named posts of the page
\* that were found; todo: what is left of the current loop; deferred: the
\* detail endpoint is locked; post: the post being requested.
Idle == [pc |-> "idle", policy |-> [s \in Switches |-> FALSE], page |-> 1, given |-> {},
         got |-> {}, todo |-> {}, deferred |-> FALSE, post |-> NoPost]

Recovering == {"recover", "decide", "ingest", "ignore", "failed", "done"}
SyncPC == {"page", "register", "detail", "asking", "yield", "dispatch"}
Worker == [pc : {"idle"} \cup SyncPC \cup Recovering, policy : [Switches -> BOOLEAN],
           page : 1 .. Len(Pages) + 1, given : SUBSET Posts, got : SUBSET Posts,
           todo : SUBSET Posts, deferred : BOOLEAN, post : Posts \cup {NoPost}]

\* retry.left: rows the call has yet to reset; retry.reset: reset, to be queued.
NoRetry == [left |-> {}, reset |-> {}]

\* References of other accounts' posts may already have left snapshots.
Init ==
  /\ row = [p \in Posts |-> NoRow]
  /\ observed = {}
  /\ cached \in SUBSET Posts
  /\ policy \in [Switches -> BOOLEAN]
  /\ task = [p \in Posts |-> 0]
  /\ ended = {}
  /\ worker = Idle
  /\ retry = NoRetry
  /\ events = 0

(***************************************************************************)
(* sync_account_task.                                                      *)
(***************************************************************************)
Dispatching == [Idle EXCEPT !.pc = "dispatch", !.todo = {p \in Posts : Eligible(p)}]

\* With all switches off there is no timeline scan.
StartSync ==
  /\ worker = Idle
  /\ worker' = IF \E s \in Switches : policy[s]
                 THEN [Idle EXCEPT !.pc = "page", !.policy = policy] ELSE Dispatching
  /\ NoEvent
  /\ UNCHANGED <<row, observed, cached, policy, ended, task, retry>>

\* The posts the page names without showing them.
Missing == (Pages[worker.page].collapsed \ Pages[worker.page].visible) \ worker.given

ReadPage ==
  /\ worker.pc = "page" /\ worker.page <= Len(Pages)
  /\ worker' = [worker EXCEPT !.pc = "register", !.todo = Missing, !.got = {}]
  /\ NoEvent
  /\ UNCHANGED <<row, observed, cached, policy, ended, task, retry>>

\* Mutant: an uncached gap is not recorded before it is requested.
RegisterCachedOnly(m) ==
  /\ worker.pc = "register" /\ m \in worker.todo
  /\ worker' = [worker EXCEPT !.todo = @ \ {m}, !.got = @ \cup ({m} \cap cached)]
  /\ IF m \in cached /\ Own(m) /\ m \notin observed
       THEN SetRow(m, Registered(row[m])) ELSE UNCHANGED row
  /\ NoEvent
  /\ UNCHANGED <<observed, cached, policy, ended, task, retry>>

\* Every gap of the page is recorded before any of them is requested.
Register(m) ==
  /\ worker.pc = "register" /\ m \in worker.todo
  /\ worker' = [worker EXCEPT !.todo = @ \ {m}, !.got = @ \cup ({m} \cap cached)]
  /\ IF m \notin cached \/ (Own(m) /\ m \notin observed)
       THEN SetRow(m, Registered(row[m])) ELSE UNCHANGED row
  /\ NoEvent
  /\ UNCHANGED <<observed, cached, policy, ended, task, retry>>

RegisterDone ==
  /\ worker.pc = "register" /\ worker.todo = {}
  /\ worker' = [worker EXCEPT !.pc = "detail", !.todo = Missing \ worker.got]
  /\ NoEvent
  /\ UNCHANGED <<row, observed, cached, policy, ended, task, retry>>

\* A gap that was requested before belongs to its recovery task.
SkipsDetail(m) ==
  \/ worker.deferred
  \/ row[m].status \in {"unavailable", "ignored"}
  \/ row[m].exhausted
  \/ row[m].attempted

SkipDetail(m) ==
  /\ worker.pc = "detail" /\ m \in worker.todo /\ SkipsDetail(m)
  /\ worker' = [worker EXCEPT !.todo = @ \ {m}]
  /\ NoEvent
  /\ UNCHANGED <<row, observed, cached, policy, ended, task, retry>>

AskDetail(m) ==
  /\ worker.pc = "detail" /\ m \in worker.todo /\ ~SkipsDetail(m)
  /\ worker' = [worker EXCEPT !.pc = "asking", !.todo = @ \ {m}, !.post = m]
  /\ SetRow(m, Attempted(row[m]))
  /\ NoEvent
  /\ UNCHANGED <<observed, cached, policy, ended, task, retry>>

\* The post is found, unavailable, not readable (pending), or the endpoint is
\* locked, which defers the rest; or GraphQL features changed: the task fails.
DetailAnswer ==
  /\ worker.pc = "asking"
  /\ LET m == worker.post
         back == [worker EXCEPT !.pc = "detail", !.post = NoPost]
     IN  \/ /\ worker' = [back EXCEPT !.got = @ \cup {m}]
            /\ UNCHANGED row /\ NoEvent
         \/ /\ \E status \in {"pending", "unavailable"} : SetRow(m, Finished(row[m], status))
            /\ worker' = back /\ NoEvent
         \/ /\ SetRow(m, Finished(row[m], "pending"))
            /\ worker' = [back EXCEPT !.deferred = TRUE] /\ NoEvent
         \/ /\ SetRow(m, Finished(row[m], "pending"))
            /\ worker' = Idle /\ Event
  /\ UNCHANGED <<observed, cached, policy, ended, task, retry>>

DetailDone ==
  /\ worker.pc = "detail" /\ worker.todo = {}
  /\ worker' = [worker EXCEPT !.pc = "yield",
                  !.todo = (worker.got \cup Pages[worker.page].visible) \ worker.given]
  /\ NoEvent
  /\ UNCHANGED <<row, observed, cached, policy, ended, task, retry>>

\* Found posts that are not observed come first, then the found, the visible.
First(posts) ==
  LET found == posts \cap worker.got
      new == found \ observed
  IN  IF new # {} THEN new ELSE IF found # {} THEN found ELSE posts

Yield(p) ==
  /\ worker.pc = "yield" /\ p \in First(worker.todo)
  /\ worker' = [worker EXCEPT !.todo = @ \ {p}, !.given = @ \cup {p}]
  /\ IF Archives(worker.policy, p) THEN Ingest(p)
     ELSE SetRow(p, Finished(row[p], "ignored")) /\ UNCHANGED <<observed, cached>>
  /\ NoEvent
  /\ UNCHANGED <<policy, ended, task, retry>>

NextPage ==
  /\ worker.pc = "yield" /\ worker.todo = {}
  /\ worker' = [worker EXCEPT !.pc = "page", !.page = @ + 1, !.got = {}]
  /\ NoEvent
  /\ UNCHANGED <<row, observed, cached, policy, ended, task, retry>>

\* The timeline ends; or the scan stops at a limit, or on an unexpected error at
\* any point: the pending rows are read and dispatched in each case.
EndSync ==
  /\ worker.pc \in {"page", "register", "detail", "yield"}
  /\ worker' = Dispatching
  /\ NoEvent
  /\ UNCHANGED <<row, observed, cached, policy, ended, task, retry>>

Dispatch(p) ==
  /\ worker.pc = "dispatch" /\ p \in worker.todo
  /\ Enqueue(p)
  /\ worker' = [worker EXCEPT !.todo = @ \ {p}]
  /\ NoEvent
  /\ UNCHANGED <<row, observed, cached, policy, ended, retry>>

DispatchDone ==
  /\ worker.pc = "dispatch" /\ worker.todo = {}
  /\ worker' = Idle
  /\ NoEvent
  /\ UNCHANGED <<row, observed, cached, policy, ended, task, retry>>

(***************************************************************************)
(* fetch_post_detail_task.                                                 *)
(***************************************************************************)
Recovered(pc) == worker' = [worker EXCEPT !.pc = pc]

\* A row whose retries are exhausted ends the task without a request.
StartRecovery(p) ==
  /\ worker = Idle /\ task[p] > 0
  /\ LET r == Registered(row[p])
     IN  IF r.exhausted
           THEN SetRow(p, r) /\ worker' = [Idle EXCEPT !.pc = "done", !.post = p]
           ELSE /\ SetRow(p, IF p \in cached THEN r ELSE Attempted(r))
                /\ worker' = [Idle EXCEPT !.pc = "recover", !.post = p]
  /\ NoEvent
  /\ UNCHANGED <<observed, cached, policy, ended, task, retry>>

\* The snapshot or X's answer; a cancelled request leaves the row as it is.
RecoveryAnswer ==
  /\ worker.pc = "recover"
  /\ \/ Recovered("decide") /\ UNCHANGED row
     \/ /\ worker.post \notin cached
        /\ SetRow(worker.post, Finished(row[worker.post], "unavailable"))
        /\ Recovered("done")
     \/ /\ SetRow(worker.post, Finished(row[worker.post], "pending"))
        /\ Recovered("failed")
     \/ Recovered("failed") /\ UNCHANGED row
  /\ NoEvent
  /\ UNCHANGED <<observed, cached, policy, ended, task, retry>>

\* get_account, after the post is known ...
ReadPolicy ==
  /\ worker.pc = "decide"
  /\ Recovered(IF Archives(policy, worker.post) THEN "ingest" ELSE "ignore")
  /\ NoEvent
  /\ UNCHANGED <<row, observed, cached, policy, ended, task, retry>>

\* ... and the write it decides.
IgnorePost ==
  /\ worker.pc = "ignore"
  /\ SetRow(worker.post, Finished(row[worker.post], "ignored"))
  /\ Recovered("done")
  /\ NoEvent
  /\ UNCHANGED <<observed, cached, policy, ended, task, retry>>

\* The archive may refuse the post; queueing its media may fail afterwards.
IngestPost ==
  /\ worker.pc = "ingest"
  /\ \/ /\ Ingest(worker.post)
        /\ \E pc \in {"done", "failed"} : Recovered(pc)
     \/ /\ SetRow(worker.post, Finished(row[worker.post], "pending"))
        /\ Recovered("failed")
        /\ UNCHANGED <<observed, cached>>
  /\ NoEvent
  /\ UNCHANGED <<policy, ended, task, retry>>

\* Mutant: a failed attempt is always retried.
RetryForever ==
  /\ worker.pc = "failed"
  /\ task' = [task EXCEPT ![worker.post] = @ + 1]
  /\ worker' = Idle
  /\ NoEvent
  /\ UNCHANGED <<row, observed, cached, policy, ended, retry>>

RetryLater ==
  /\ worker.pc = "failed" /\ task[worker.post] < MaxAttempt
  /\ task' = [task EXCEPT ![worker.post] = @ + 1]
  /\ worker' = Idle
  /\ NoEvent
  /\ UNCHANGED <<row, observed, cached, policy, ended, retry>>

\* The final attempt takes the row out of the automatic retries, if it can.
Exhaust ==
  /\ worker.pc = "failed" /\ task[worker.post] >= MaxAttempt
  /\ \/ SetRow(worker.post, Exhausted(row[worker.post])) /\ NoEvent
     \/ UNCHANGED row /\ Event
  /\ Recovered("done")
  /\ UNCHANGED <<observed, cached, policy, ended, task, retry>>

\* The key of the post is released: the task has ended.
EndTask ==
  /\ worker.pc = "done"
  /\ task' = [task EXCEPT ![worker.post] = 0]
  /\ ended' = ended \cup {worker.post}
  /\ worker' = Idle
  /\ NoEvent
  /\ UNCHANGED <<row, observed, cached, policy, retry>>

\* The process exits or the task is cancelled; a synchronisation also fails
\* here when the queue refuses a dispatch or the account pool is unavailable.
Crash ==
  /\ worker # Idle
  /\ worker' = Idle
  /\ Event
  /\ UNCHANGED <<row, observed, cached, policy, ended, task, retry>>

(***************************************************************************)
(* The operator.                                                           *)
(***************************************************************************)
\* update_account_settings (and upsert_account), one transaction.
SetPolicy(s) ==
  /\ policy' = [policy EXCEPT ![s] = ~@]
  /\ row' = IF policy[s] THEN row ELSE [p \in Posts |-> Reopened(row[p])]
  /\ Event
  /\ UNCHANGED <<observed, cached, ended, task, worker, retry>>

\* POST post-fetches/retry reads its list, then resets and queues row by row;
\* retry_failed_tasks does the same for the rows of failed tasks.
RetryBegin ==
  /\ retry = NoRetry
  /\ retry' = [retry EXCEPT !.left =
                 {p \in Posts : row[p].status \in {"pending", "unavailable"}}]
  /\ Event
  /\ UNCHANGED <<row, observed, cached, policy, ended, task, worker>>

RetryReset(p) ==
  /\ p \in retry.left /\ retry.reset = {}
  /\ SetRow(p, Reset(row[p]))
  /\ retry' = [left |-> retry.left \ {p}, reset |-> {p}]
  /\ NoEvent
  /\ UNCHANGED <<observed, cached, policy, ended, task, worker>>

\* rerun_task of an ended task, perhaps while a newer one of the same post is
\* active: register, reset, then queue.
Rerun(p) ==
  /\ retry = NoRetry /\ p \in ended
  /\ SetRow(p, Reset(Registered(row[p])))
  /\ retry' = [left |-> {}, reset |-> {p}]
  /\ Event
  /\ UNCHANGED <<observed, cached, policy, ended, task, worker>>

\* A publication that fails is counted and skipped.
RetryEnqueue(p) ==
  /\ p \in retry.reset
  /\ \/ Enqueue(p) /\ NoEvent
     \/ UNCHANGED task /\ Event
  /\ retry' = [retry EXCEPT !.reset = {}]
  /\ UNCHANGED <<row, observed, cached, policy, ended, worker>>

-----------------------------------------------------------------------------
SyncNext ==
  \/ StartSync \/ ReadPage \/ RegisterDone \/ DetailAnswer \/ DetailDone
  \/ NextPage \/ EndSync \/ DispatchDone
  \/ \E p \in Posts : Register(p) \/ SkipDetail(p) \/ AskDetail(p) \/ Yield(p) \/ Dispatch(p)

RecoveryNext ==
  \/ RecoveryAnswer \/ ReadPolicy \/ IgnorePost \/ IngestPost
  \/ RetryLater \/ Exhaust \/ EndTask

OperatorNext ==
  \/ \E s \in Switches : SetPolicy(s)
  \/ RetryBegin
  \/ \E p \in Posts : RetryReset(p) \/ Rerun(p) \/ RetryEnqueue(p)

Next ==
  \/ SyncNext
  \/ \E p \in Posts : StartRecovery(p)
  \/ RecoveryNext
  \/ Crash
  \/ OperatorNext

Spec == Init /\ [][Next]_vars

\* The worker carries on with what it has begun, and the queue is a FIFO of
\* one slot: a recovery task and the periodic synchronisation each get their
\* turn although the other may be taken first any number of times.
Fairness ==
  /\ WF_vars(worker # Idle /\ (SyncNext \/ RecoveryNext))
  /\ SF_vars(StartSync)
  /\ \A p \in Posts : SF_vars(StartRecovery(p))

FairSpec == Spec /\ Fairness

-----------------------------------------------------------------------------
\* The variables have their types.
TypeOK ==
  /\ row \in [Posts -> Row]
  /\ observed \subseteq Posts /\ cached \subseteq Posts
  /\ policy \in [Switches -> BOOLEAN]
  /\ task \in [Posts -> 0 .. MaxAttempt] /\ ended \subseteq Posts
  /\ worker \in Worker
  /\ worker.pc \in Recovering \cup {"asking"} => worker.post \in Posts
  /\ retry \in [left : SUBSET Posts, reset : SUBSET Posts]
  /\ events \in 0 .. MaxEvents

\* A post the timeline named is known: it has a row, it is archived, or it is
\* another author's post of which a snapshot exists.
Known(p) ==
  \/ row[p].status # "none"
  \/ p \in observed
  \/ p \in cached /\ ~Own(p)

\* The pages a scan is done with by the time it comes upon p, which may recur
\* on later ones: those before the first page that shows or names p, and this
\* page as well if it shows p.
PagesUpTo(p) ==
  {i \in 1 .. Len(Pages) :
     /\ \A j \in 1 .. i - 1 : p \notin Pages[j].visible \cup Pages[j].collapsed
     /\ p \in Pages[i].collapsed => p \in Pages[i].visible}

\* Once a post is archived, later incremental scans may stop there; by then every
\* post the pages up to it only name is known, however the scan ended
\* (POST_RECOVERY_IMPLEMENTATION.md: record all missing ids of the page before
\* the detail requests).
GapsPersist ==
  \A p \in observed : \A i \in PagesUpTo(p) :
    \A m \in Pages[i].collapsed \ UNION {Pages[j].visible : j \in 1 .. Len(Pages)} : Known(m)

\* A row is exhausted only while it is pending, so that no answer, reset or
\* reopening leaves a row out of the automatic recovery for ever.
ExhaustedIsPending ==
  \A p \in Posts : row[p].exhausted => row[p].status = "pending"

\* A completed row stands for an archived post with its observation.
CompletedIsArchived ==
  \A p \in Posts : row[p].status = "completed" => p \in observed

\* Once no run with older switches is in progress, only posts that the switches
\* exclude and other authors' posts are ignored (ACCOUNT_ARCHIVE_POLICY.md: a
\* change affects the runs after it; recovery that resolves to a closed type
\* marks the id ignored, opening the type makes it pending for later runs).
IgnoredIsExcluded ==
  worker = Idle =>
    \A p \in Posts : row[p].status = "ignored" => ~Archives(policy, p)

\* A pending row is settled or exhausted in the end, whatever was interrupted.
GapsSettle == \A p \in Posts : Eligible(p) ~> ~Eligible(p)
=============================================================================
