------------------------- MODULE CrawlWorkerProofs --------------------------
(***************************************************************************)
(* CrawlWorker for any processes, stamps and number of faults.  The        *)
(* invariants follow the stamp of a request through the process that made  *)
(* it, the marker and what others recover: nobody is after the lock of a   *)
(* request that still runs, so CrawlWorker implements CrawlLock; and the   *)
(* holder of the lease writes down all it has in mind, so nothing that is  *)
(* recorded gets lost.                                                     *)
(***************************************************************************)
EXTENDS CrawlWorker, FiniteSetTheorems, WellFoundedInduction, TLAPS

\* The stamps a process knows of, by what it knows of them.
Ctx(p) == IF task[p] = None THEN None ELSE task[p].ctx
Goals(p) == IF task[p] = None THEN {} ELSE task[p].targets
Old(p) == IF proc[p] = None THEN {} ELSE proc[p].targets
Active(p) == IF proc[p] = None THEN {} ELSE proc[p].active
Failed(p) == IF proc[p] = None THEN {} ELSE proc[p].failed

WithoutRequest == {"interrupt", "insert", "ready", "book", "scan", "finish"}
Requesting == {"opened", "request", "closing"}

\* A request runs at the steps that say so, and until its end it has the lock.
RequestOK ==
  \A p \in Processes : task[p] # None =>
    /\ task[p].pc \in WithoutRequest => task[p].ctx = None
    /\ task[p].pc \in Requesting => task[p].ctx # None

TypeInv == Typed /\ RequestOK

\* Requests have stamps of their own, which are nobody's target: only its own
\* process keeps one in mind, and in the marker it is only for the holder.
Untargeted ==
  \A p \in Processes : Ctx(p) # None =>
    /\ \A q \in Processes :
         /\ Ctx(q) = Ctx(p) => q = p
         /\ Ctx(p) \notin Goals(q) \cup Old(q) \cup Failed(q)
         /\ Ctx(p) \in Active(q) => q = p
    /\ Ctx(p) \in marker => flock = p

\* A rate limit has a stamp nobody has written down.
LimitUnknown ==
  lock # None /\ lock.limited =>
    /\ lock.stamp \notin marker
    /\ \A q \in Processes :
         /\ lock.stamp \notin Goals(q) \cup Old(q) \cup Active(q) \cup Failed(q)
         /\ lock.stamp # Ctx(q)

\* An open request has the lock.
HasLock ==
  \A p \in Processes : At(p, "opened") \/ At(p, "request") =>
    lock # None /\ ~lock.limited /\ lock.stamp = task[p].ctx

\* The inductive invariant of the refinement.
StampInv == TypeInv /\ Untargeted /\ LimitUnknown /\ HasLock

Looking == {"interrupt", "insert", "ready", "book"}

\* The holder wrote what it has in mind, and nobody else has anything in mind.
\* A task of the holder looks for all that the marker held, and what it has
\* reset is gone when it is crossed out.
MarkOK(p) ==
  /\ flock = p => marker = MarkerTargets(proc[p])
  /\ flock # p => Goals(p) \cup Active(p) \cup Failed(p) = {} /\ (proc[p] # None => ~proc[p].consumed)
  /\ At(p, "ready") \/ At(p, "book") => Goals(p) # {}
  /\ At(p, "book") /\ lock # None => lock.stamp \notin Goals(p)
  /\ flock = p /\ ~proc[p].consumed /\ task[p] # None /\ task[p].pc \in Looking =>
       Old(p) \subseteq Goals(p)

MarkInv == StampInv /\ \A p \in Processes : MarkOK(p)

\* A task that has its row has not ended it.
RunInv ==
  /\ TypeInv
  /\ \A p \in Processes : task[p] # None /\ task[p].pc \notin {"interrupt", "insert"} =>
       run[p] \in {"running", "interrupted"}

FiniteInv ==
  /\ TypeInv
  /\ IsFiniteSet(marker)
  /\ \A p \in Processes : /\ IsFiniteSet(Goals(p)) /\ IsFiniteSet(Old(p))
                          /\ IsFiniteSet(Active(p)) /\ IsFiniteSet(Failed(p))

-----------------------------------------------------------------------------
(***************************************************************************)
(* Typing.                                                                 *)
(***************************************************************************)
Steps == WithoutRequest \cup Requesting

\* A record is not None.
LEMMA RecordsAreRecords ==
  /\ \A x \in Lock : x # None
  /\ \A x \in Memory : x # None
  /\ \A x \in Task : x # None
  /\ \A s \in Stamps : s # None
BY RecordAssumption, CrawlAssumption

\* The task of p is at pc, after these stamps and with this request.
Put(p, pc, T, x) ==
  /\ task' \in [Processes -> Task \cup {None}]
  /\ \A q \in Processes \ {p} : task'[q] = task[q]
  /\ task'[p] # None /\ task'[p].pc = pc /\ task'[p].targets = T /\ task'[p].ctx = x

\* A task is replaced by something of its type.
LEMMA PutTask ==
  ASSUME Typed, NEW p \in Processes, NEW w \in Task, task' = [task EXCEPT ![p] = w]
  PROVE  Put(p, w.pc, w.targets, w.ctx)
BY RecordsAreRecords DEF Put, Typed

\* The parts of a task have their types, and it runs in a process.
LEMMA TaskFacts ==
  ASSUME Typed, NEW p \in Processes, task[p] # None
  PROVE  /\ task[p] \in Task /\ task[p].targets \in SUBSET Stamps
         /\ task[p].ctx \in Stamps \cup {None} /\ task[p].pc \in Steps
         /\ proc[p] # None /\ proc[p] \in Memory
BY DEF Typed, Task, Steps, WithoutRequest, Requesting

\* The task goes to another step.
LEMMA Moved ==
  ASSUME Typed, NEW p \in Processes, task[p] # None, NEW pc \in Steps,
         task' = [task EXCEPT ![p].pc = pc]
  PROVE  Put(p, pc, task[p].targets, task[p].ctx)
<1> DEFINE w == [task[p] EXCEPT !.pc = pc]
<1>1. /\ w \in Task /\ w.pc = pc /\ w.targets = task[p].targets /\ w.ctx = task[p].ctx
  BY TaskFacts DEF Task, Steps, WithoutRequest, Requesting
<1>2. task' = [task EXCEPT ![p] = w]
  OBVIOUS
<1> HIDE DEF w
<1>3. QED
  BY <1>1, <1>2, PutTask

\* It gives up what it was after.
LEMMA Dropped ==
  ASSUME Typed, NEW p \in Processes, task[p] # None, NEW pc \in Steps,
         task' = [task EXCEPT ![p].pc = pc, ![p].targets = {}]
  PROVE  Put(p, pc, {}, task[p].ctx)
<1> DEFINE w == [task[p] EXCEPT !.pc = pc, !.targets = {}]
<1>1. /\ w \in Task /\ w.pc = pc /\ w.targets = {} /\ w.ctx = task[p].ctx
  BY TaskFacts DEF Task, Steps, WithoutRequest, Requesting
<1>2. task' = [task EXCEPT ![p] = w]
  OBVIOUS
<1> HIDE DEF w
<1>3. QED
  BY <1>1, <1>2, PutTask

\* Its request ends.
LEMMA Ending ==
  ASSUME Typed, NEW p \in Processes, task[p] # None, NEW recover \in BOOLEAN, Closing(p, recover)
  PROVE  Put(p, "closing", task[p].targets, task[p].ctx)
<1> DEFINE w == [task[p] EXCEPT !.pc = "closing", !.recover = recover]
<1>1. /\ w \in Task /\ w.pc = "closing" /\ w.targets = task[p].targets /\ w.ctx = task[p].ctx
  BY TaskFacts DEF Task
<1>2. task' = [task EXCEPT ![p] = w]
  BY DEF Closing
<1> HIDE DEF w
<1>3. QED
  BY <1>1, <1>2, PutTask

\* A new task is after these stamps.
LEMMA Created ==
  ASSUME Typed, NEW p \in Processes, NEW T \in SUBSET Stamps,
         task' = [task EXCEPT ![p] = NewTask(T)]
  PROVE  Put(p, "interrupt", T, None)
<1> DEFINE w == NewTask(T)
<1>1. w \in Task /\ w.pc = "interrupt" /\ w.targets = T /\ w.ctx = None
  BY DEF NewTask, Task
<1>2. task' = [task EXCEPT ![p] = w]
  OBVIOUS
<1> HIDE DEF w
<1>3. QED
  BY <1>1, <1>2, PutTask

\* A stamp that can be used is not in use.
LEMMA LeastNat ==
  ASSUME NEW K, K \subseteq Nat, K # {}
  PROVE  Least(K) \in K
<1>1. PICK k \in K : \A j \in K : <<j, k>> \notin OpToRel(<, Nat)
  BY WFMin, NatLessThanWellFounded, Zenon
<1>2. \A j \in K : ~(j < k)
  BY <1>1, Zenon DEF OpToRel
<1>3. k \in Nat /\ \A j \in K : j \in Nat
  BY <1>1
<1>4. \A j \in K : k <= j
  BY <1>2, <1>3
<1>5. QED
  BY <1>1, <1>4 DEF Least

\* A stamp that is not in use is known to nobody.
Unused(s) ==
  /\ s \in Stamps /\ s # None /\ s \notin marker
  /\ lock # None => lock.stamp # s
  /\ \A q \in Processes :
       s \notin Goals(q) \cup Old(q) \cup Active(q) \cup Failed(q) /\ s # Ctx(q)

\* The stamp of a new lock.
LEMMA FreshStamp ==
  ASSUME Typed, Stamps \ Used # {}
  PROVE  Unused(Least(Stamps \ Used))
<1> DEFINE s == Least(Stamps \ Used)
<1>1. s \in Stamps \ Used
  BY LeastNat, CrawlAssumption
<1> HIDE DEF s
<1>2. s # None
  BY <1>1, RecordsAreRecords
<1>3. s \notin marker /\ (lock # None => lock.stamp # s)
  BY <1>1 DEF Used
<1>4. ASSUME NEW q \in Processes
      PROVE  s \notin Old(q) \cup Active(q) \cup Failed(q)
  BY <1>1 DEF Used, Old, Active, Failed
<1>5. ASSUME NEW q \in Processes
      PROVE  s \notin Goals(q) /\ s # Ctx(q)
  <2>1. CASE task[q] = None
    BY <1>2, <2>1 DEF Goals, Ctx
  <2>2. CASE task[q] # None
    <3> DEFINE known == {task[x].targets \cup StampsOf(task[x].ctx) :
                           x \in {y \in Processes : task[y] # None}}
    <3>1. task[q].targets \cup StampsOf(task[q].ctx) \in known /\ UNION known \subseteq Used
      BY <2>2 DEF Used
    <3> HIDE DEF known
    <3>2. s \notin task[q].targets /\ s \notin StampsOf(task[q].ctx)
      BY <1>1, <3>1
    <3>3. QED
      BY <1>2, <2>2, <3>2 DEF Goals, Ctx, StampsOf
  <2>3. QED
    BY <2>1, <2>2
<1>6. QED
  BY <1>1, <1>2, <1>3, <1>4, <1>5 DEF Unused, s

\* What a process keeps in mind is replaced by something of its type.
LEMMA MemorySet ==
  ASSUME Typed, NEW p \in Processes, NEW m \in Memory, proc' = [proc EXCEPT ![p] = m]
  PROVE  /\ proc' \in [Processes -> Memory \cup {None}] /\ proc'[p] = m /\ proc'[p] # None
         /\ \A q \in Processes \ {p} : proc'[q] = proc[q]
BY RecordsAreRecords DEF Typed

\* The marker holds stamps.
LEMMA MarkerType ==
  ASSUME Typed, NEW p \in Processes, NEW m \in Memory, WriteMarker(p, m)
  PROVE  marker' \in SUBSET Stamps
BY DEF Typed, WriteMarker, MarkerTargets, Memory

\* The step of a task is of its kind and its request is what the step says.
LEMMA PutTyped ==
  ASSUME TypeInv, NEW p \in Processes, NEW pc, NEW T, NEW x, Put(p, pc, T, x),
         pc \in WithoutRequest => x = None,
         pc \in Requesting => x # None,
         \A q \in Processes : proc[q] # None => proc'[q] # None,
         proc'[p] # None, flock' \in {flock, None, p}
  PROVE  /\ RequestOK'
         /\ \A q \in Processes : (task'[q] # None \/ flock' = q) => proc'[q] # None
BY RecordsAreRecords, CrawlAssumption DEF TypeInv, Typed, RequestOK, Put

\* What each step of a scan does to the task.
LEMMA TaskEffects ==
  ASSUME TypeInv, NEW p \in Processes
  PROVE  /\ Interrupt(p) => Put(p, "insert", task[p].targets, None)
         /\ StartRun(p) => \/ Put(p, "scan", {}, None)
                           \/ Put(p, "ready", task[p].targets, None) /\ ~proc[p].consumed
         /\ Reset(p) => Put(p, "book", task[p].targets, None)
         /\ ResetFails(p) => Put(p, "finish", {}, None)
         /\ Book(p) => Put(p, "scan", {}, None)
         /\ Unavailable(p) => Put(p, "finish", {}, None)
         /\ EndScan(p) => Put(p, "finish", {}, None)
         /\ Cancel(p) => Put(p, "finish", task[p].targets, None)
         /\ (Unlock(p) \/ UnlockFails(p) \/ RateLimit(p) \/ RateLimitFails(p)) =>
              Put(p, "closing", task[p].targets, task[p].ctx)
<1> USE DEF TypeInv, At
<1>0. /\ {"insert", "scan", "ready", "book", "finish"} \subseteq Steps
      /\ \A pc \in {"interrupt", "insert", "ready", "book", "scan", "finish"} :
           At(p, pc) => task[p].ctx = None
  BY DEF Steps, WithoutRequest, RequestOK
<1>1. Interrupt(p) => Put(p, "insert", task[p].targets, None)
  BY <1>0, Moved DEF Interrupt
<1>2. StartRun(p) => \/ Put(p, "scan", {}, None)
                     \/ Put(p, "ready", task[p].targets, None) /\ ~proc[p].consumed
  BY <1>0, Moved, Dropped DEF StartRun, Scan
<1>3. Reset(p) => Put(p, "book", task[p].targets, None)
  BY <1>0, Moved DEF Reset
<1>4. ResetFails(p) => Put(p, "finish", {}, None)
  BY <1>0, Dropped DEF ResetFails, Raise
<1>5. Book(p) => Put(p, "scan", {}, None)
  BY <1>0, Dropped DEF Book, Scan
<1>6. Unavailable(p) => Put(p, "finish", {}, None)
  BY <1>0, Dropped DEF Unavailable, Raise
<1>7. EndScan(p) => Put(p, "finish", {}, None)
  BY <1>0, Dropped DEF EndScan
<1>8. Cancel(p) => Put(p, "finish", task[p].targets, None)
  <2> SUFFICES ASSUME Cancel(p) PROVE Put(p, "finish", task[p].targets, None)
    OBVIOUS
  <2> DEFINE w == [task[p] EXCEPT !.pc = "finish", !.outcome = "interrupted"]
  <2>1. /\ w \in Task /\ w.pc = "finish" /\ w.targets = task[p].targets /\ w.ctx = task[p].ctx
    BY TaskFacts DEF Task, Cancel
  <2>2. task' = [task EXCEPT ![p] = w] /\ task[p].ctx = None
    BY <1>0 DEF Cancel
  <2> HIDE DEF w
  <2>3. QED
    BY <2>1, <2>2, PutTask
<1>9. (Unlock(p) \/ UnlockFails(p) \/ RateLimit(p) \/ RateLimitFails(p)) =>
        Put(p, "closing", task[p].targets, task[p].ctx)
  BY Ending DEF Unlock, UnlockFails, RateLimit, RateLimitFails
<1>10. QED
  BY <1>1, <1>2, <1>3, <1>4, <1>5, <1>6, <1>7, <1>8, <1>9

\* A new request has a stamp nobody knows.
LEMMA OpenEffect ==
  ASSUME TypeInv, NEW p \in Processes, Open(p)
  PROVE  \E s \in Stamps :
           /\ Unused(s) /\ lock' = [stamp |-> s, limited |-> FALSE] /\ lock' \in Lock
           /\ Put(p, "opened", task[p].targets, s)
<1> DEFINE s == Least(Stamps \ Used)
           w == [task[p] EXCEPT !.pc = "opened", !.ctx = s]
<1>1. Unused(s) /\ s \in Stamps
  BY FreshStamp DEF Open, TypeInv, Unused
<1>2. lock' = [stamp |-> s, limited |-> FALSE] /\ task' = [task EXCEPT ![p] = w] /\ task[p] # None
  BY DEF Open, At
<1> HIDE DEF s
<1>3. w \in Task /\ w.pc = "opened" /\ w.targets = task[p].targets /\ w.ctx = s
  BY <1>1, <1>2, TaskFacts DEF Task, TypeInv
<1> HIDE DEF w
<1>4. Put(p, "opened", task[p].targets, s)
  BY <1>2, <1>3, PutTask DEF TypeInv
<1>5. lock' \in Lock
  BY <1>1, <1>2 DEF Lock
<1>6. QED
  BY <1>1, <1>2, <1>4, <1>5

\* So has a rate limit.
LEMMA LimitEffect ==
  ASSUME TypeInv, NEW p \in Processes, RateLimit(p)
  PROVE  \E s \in Stamps :
           Unused(s) /\ lock' = [stamp |-> s, limited |-> TRUE] /\ lock' \in Lock
<1> DEFINE s == Least(Stamps \ Used)
<1>1. Unused(s) /\ s \in Stamps
  BY FreshStamp DEF RateLimit, TypeInv, Unused
<1>2. lock' = [stamp |-> s, limited |-> TRUE]
  BY DEF RateLimit
<1> HIDE DEF s
<1>3. QED
  BY <1>1, <1>2 DEF Lock

\* A request that is noted is active, and in the marker of the holder.
LEMMA NoteEffect ==
  ASSUME TypeInv, NEW p \in Processes, Note(p)
  PROVE  LET m == [proc[p] EXCEPT !.active = @ \cup {task[p].ctx}] IN
         /\ m \in Memory /\ m.targets = proc[p].targets /\ m.failed = proc[p].failed
         /\ m.consumed = proc[p].consumed /\ m.active = proc[p].active \cup {task[p].ctx}
         /\ proc' = (IF flock = p THEN [proc EXCEPT ![p] = m] ELSE proc)
         /\ WriteMarker(p, m)
         /\ task[p].ctx \in Stamps /\ task[p].ctx # None
         /\ Put(p, "request", task[p].targets, task[p].ctx)
<1> DEFINE m == [proc[p] EXCEPT !.active = @ \cup {task[p].ctx}]
           w == [task[p] EXCEPT !.pc = "request", !.tracked = (flock = p)]
<1>1. /\ task[p] # None /\ task[p].ctx \in Stamps /\ task[p].ctx # None
      /\ task[p] \in Task /\ proc[p] \in Memory
  BY TaskFacts DEF Note, At, TypeInv, RequestOK, Requesting
<1>2. /\ m \in Memory /\ m.targets = proc[p].targets /\ m.failed = proc[p].failed
      /\ m.consumed = proc[p].consumed /\ m.active = proc[p].active \cup {task[p].ctx}
  BY <1>1 DEF Memory
<1>3. w \in Task /\ w.pc = "request" /\ w.targets = task[p].targets /\ w.ctx = task[p].ctx
  BY <1>1 DEF Task
<1>4. /\ proc' = (IF flock = p THEN [proc EXCEPT ![p] = m] ELSE proc)
      /\ WriteMarker(p, m) /\ task' = [task EXCEPT ![p] = w]
  BY DEF Note
<1> HIDE DEF m, w
<1>5. Put(p, "request", task[p].targets, task[p].ctx)
  BY <1>3, <1>4, PutTask DEF TypeInv
<1> USE DEF m
<1>6. QED
  BY <1>1, <1>2, <1>4, <1>5

\* A recovery that is booked crosses out its targets.
LEMMA BookEffect ==
  ASSUME TypeInv, NEW p \in Processes, Book(p)
  PROVE  \E m \in Memory :
         /\ m.targets = proc[p].targets /\ m.consumed
         /\ m.active = proc[p].active \ task[p].targets
         /\ m.failed = proc[p].failed \ task[p].targets
         /\ proc' = [proc EXCEPT ![p] = m] /\ WriteMarker(p, m)
<1> DEFINE m == [proc[p] EXCEPT !.active = @ \ task[p].targets, !.failed = @ \ task[p].targets,
                                !.consumed = TRUE]
<1>1. proc[p] \in Memory
  BY TaskFacts DEF Book, At, TypeInv
<1>2. /\ m \in Memory /\ m.targets = proc[p].targets /\ m.consumed
      /\ m.active = proc[p].active \ task[p].targets
      /\ m.failed = proc[p].failed \ task[p].targets
  BY <1>1 DEF Memory
<1>3. proc' = [proc EXCEPT ![p] = m] /\ WriteMarker(p, m)
  BY DEF Book
<1> HIDE DEF m
<1>4. QED
  BY <1>2, <1>3

\* A request that is closed is forgotten, or kept in mind as failed.
LEMMA ClosedEffect ==
  ASSUME TypeInv, NEW p \in Processes, Closed(p)
  PROVE  /\ task[p] # None /\ task[p].ctx \in Stamps /\ task[p].ctx # None
         /\ \E pc \in {"scan", "finish"} : Put(p, pc, task[p].targets, None)
         /\ \/ UNCHANGED <<proc, marker>>
            \/ /\ flock = p
               /\ \E m \in Memory :
                    /\ m.targets = proc[p].targets
                    /\ \/ /\ m.active = proc[p].active /\ ~m.consumed
                          /\ m.failed = proc[p].failed \cup {task[p].ctx}
                       \/ /\ m.active = proc[p].active \ {task[p].ctx}
                          /\ m.failed = proc[p].failed \ {task[p].ctx}
                          /\ m.consumed = proc[p].consumed
                    /\ proc' = [proc EXCEPT ![p] = m] /\ WriteMarker(p, m)
<1> DEFINE t == task[p]
           m == Forgotten(proc[p], t.ctx, t.recover)
           done == [t EXCEPT !.ctx = None, !.tracked = FALSE, !.recover = FALSE]
           w(pc) == [done EXCEPT !.pc = pc]
<1>1. /\ t # None /\ t.ctx \in Stamps /\ t.ctx # None /\ t \in Task /\ proc[p] \in Memory
  BY TaskFacts DEF Closed, At, TypeInv, RequestOK, Requesting
<1>2. \A pc \in {"scan", "finish"} :
        w(pc) \in Task /\ w(pc).pc = pc /\ w(pc).targets = t.targets /\ w(pc).ctx = None
  BY <1>1 DEF Task
<1>3. \E pc \in {"scan", "finish"} : task' = [task EXCEPT ![p] = w(pc)]
  BY DEF Closed
<1>4. /\ m \in Memory /\ m.targets = proc[p].targets
      /\ \/ /\ m.active = proc[p].active /\ ~m.consumed
            /\ m.failed = proc[p].failed \cup {t.ctx}
         \/ /\ m.active = proc[p].active \ {t.ctx} /\ m.failed = proc[p].failed \ {t.ctx}
            /\ m.consumed = proc[p].consumed
  BY <1>1 DEF Forgotten, Memory
<1>5. \/ UNCHANGED <<proc, marker>>
      \/ flock = p /\ proc' = [proc EXCEPT ![p] = m] /\ WriteMarker(p, m)
  BY DEF Closed
<1> HIDE DEF m, w
<1>6. \E pc \in {"scan", "finish"} : Put(p, pc, t.targets, None)
  <2>1. PICK pc \in {"scan", "finish"} : task' = [task EXCEPT ![p] = w(pc)]
    BY <1>3
  <2>2. Put(p, w(pc).pc, w(pc).targets, w(pc).ctx)
    BY <1>2, <2>1, PutTask DEF TypeInv
  <2>3. QED
    BY <1>2, <2>2
<1>7. QED
  BY <1>1, <1>4, <1>5, <1>6

\* A new source has the lease already, or gets it, or goes without it.
LEMMA SourceEffect ==
  ASSUME TypeInv, NEW p \in Processes, NewSource(p)
  PROVE  /\ proc[p] \in Memory /\ proc[p] # None /\ task[p] = None
         /\ \/ /\ flock = p /\ UNCHANGED <<flock, proc>>
               /\ Put(p, "interrupt",
                      (IF proc[p].consumed THEN {} ELSE proc[p].targets) \cup proc[p].failed, None)
            \/ /\ flock = None /\ flock' = p
               /\ \E m \in Memory :
                    /\ m.targets = marker /\ m.consumed = proc[p].consumed
                    /\ m.active = proc[p].active /\ m.failed = proc[p].failed
                    /\ proc' = [proc EXCEPT ![p] = m]
               /\ Put(p, "interrupt", marker \cup proc[p].failed, None)
            \/ /\ flock \notin {p, None} /\ UNCHANGED <<flock, proc>>
               /\ Put(p, "interrupt", proc[p].failed, None)
<1>1. /\ proc[p] \in Memory /\ proc[p] # None /\ task[p] = None /\ marker \in SUBSET Stamps
      /\ Typed
  BY DEF NewSource, TypeInv, Typed
<1>2. proc[p].targets \in SUBSET Stamps /\ proc[p].failed \in SUBSET Stamps
  BY <1>1 DEF Memory
<1>3. CASE /\ flock = p
           /\ task' = [task EXCEPT ![p] =
                         NewTask((IF proc[p].consumed THEN {} ELSE proc[p].targets) \cup proc[p].failed)]
           /\ UNCHANGED <<flock, proc>>
  <2>1. (IF proc[p].consumed THEN {} ELSE proc[p].targets) \cup proc[p].failed \in SUBSET Stamps
    BY <1>2
  <2>2. QED
    BY <1>1, <1>3, <2>1, Created
<1>4. CASE /\ flock = None /\ flock' = p
           /\ proc' = [proc EXCEPT ![p].targets = marker]
           /\ task' = [task EXCEPT ![p] = NewTask(marker \cup proc[p].failed)]
  <2> DEFINE m == [proc[p] EXCEPT !.targets = marker]
  <2>1. /\ m \in Memory /\ m.targets = marker /\ m.consumed = proc[p].consumed
        /\ m.active = proc[p].active /\ m.failed = proc[p].failed
    BY <1>1 DEF Memory
  <2>2. proc' = [proc EXCEPT ![p] = m]
    BY <1>4
  <2> HIDE DEF m
  <2>3. marker \cup proc[p].failed \in SUBSET Stamps
    BY <1>1, <1>2
  <2>4. Put(p, "interrupt", marker \cup proc[p].failed, None)
    BY <1>1, <1>4, <2>3, Created
  <2>5. QED
    BY <1>1, <1>4, <2>1, <2>2, <2>4
<1>5. CASE /\ flock \notin {p, None}
           /\ task' = [task EXCEPT ![p] = NewTask(proc[p].failed)]
           /\ UNCHANGED <<flock, proc>>
  BY <1>1, <1>2, <1>5, Created
<1>6. QED
  BY <1>3, <1>4, <1>5 DEF NewSource

\* A process begins with nothing in mind.
LEMMA StartEffect ==
  ASSUME TypeInv, NEW p \in Processes, Start(p)
  PROVE  \E m \in Memory :
           /\ m.targets = {} /\ m.active = {} /\ m.failed = {} /\ ~m.consumed
           /\ proc' = [proc EXCEPT ![p] = m] /\ task[p] = None /\ flock # p
<1> DEFINE m == [targets |-> {}, consumed |-> FALSE, active |-> {}, failed |-> {}]
<1>1. m \in Memory
  BY DEF Memory
<1>2. proc' = [proc EXCEPT ![p] = m] /\ task[p] = None /\ flock # p
  BY DEF Start, TypeInv, Typed
<1>3. m.targets = {} /\ m.active = {} /\ m.failed = {} /\ ~m.consumed
  OBVIOUS
<1> HIDE DEF m
<1>4. QED
  BY <1>1, <1>2, <1>3

\* Every step keeps the types.
LEMMA NextTypeInv == TypeInv /\ [Next]_vars => TypeInv'
<1> SUFFICES ASSUME TypeInv, [Next]_vars PROVE TypeInv'
  OBVIOUS
<1>0. Typed /\ RequestOK
  BY DEF TypeInv
<1>a. WithoutRequest \cap Requesting = {}
  BY DEF WithoutRequest, Requesting
<1>1. ASSUME NEW p \in Processes, NEW pc, NEW T, NEW x, Put(p, pc, T, x),
             pc \in WithoutRequest => x = None, pc \in Requesting => x # None,
             proc' \in [Processes -> Memory \cup {None}],
             \A q \in Processes : proc[q] # None => proc'[q] # None,
             proc'[p] # None, flock' \in {flock, None, p}
      PROVE  /\ RequestOK' /\ task' \in [Processes -> Task \cup {None}]
             /\ flock' \in Processes \cup {None}
             /\ \A q \in Processes : (task'[q] # None \/ flock' = q) => proc'[q] # None
  BY <1>0, <1>1, PutTyped DEF Put, Typed
<1>2. ASSUME NEW p \in Processes, Step(p) \/ ResetFails(p)
      PROVE  /\ RequestOK' /\ task' \in [Processes -> Task \cup {None}]
             /\ flock' = flock /\ proc' \in [Processes -> Memory \cup {None}]
             /\ \A q \in Processes : (task'[q] # None \/ flock' = q) => proc'[q] # None
             /\ marker' \in SUBSET Stamps /\ lock' \in Lock \cup {None}
  <2>0. /\ flock' = flock /\ task[p] # None /\ proc[p] # None
        /\ proc \in [Processes -> Memory \cup {None}]
        /\ marker \in SUBSET Stamps /\ lock \in Lock \cup {None}
        /\ task[p].pc \in Requesting => task[p].ctx # None
    BY <1>0, <1>2, TaskFacts DEF Step, Interrupt, StartRun, Reset, Book, Open, Unavailable, Note, Unlock,
      UnlockFails, RateLimit, RateLimitFails, Closed, EndScan, Cancel, Finish, ResetFails, At, Typed,
      RequestOK
  <2>1. CASE Interrupt(p) \/ StartRun(p) \/ Unavailable(p) \/ EndScan(p) \/ Cancel(p)
    <3>1. UNCHANGED <<lock, marker, proc>>
      BY <2>1 DEF Interrupt, StartRun, Unavailable, EndScan, Cancel
    <3>2. \E pc \in WithoutRequest : \E T : Put(p, pc, T, None)
      BY <2>1, TaskEffects DEF WithoutRequest
    <3>3. QED
      BY <1>1, <1>a, <2>0, <3>1, <3>2
  <2>2. CASE Reset(p) \/ ResetFails(p)
    <3>1. UNCHANGED <<marker, proc>> /\ lock' \in {lock, None}
      BY <2>2 DEF Reset, ResetFails, Cleared
    <3>2. \E pc \in WithoutRequest : \E T : Put(p, pc, T, None)
      BY <2>2, TaskEffects DEF WithoutRequest
    <3>3. QED
      BY <1>1, <1>a, <2>0, <3>1, <3>2
  <2>3. CASE Book(p)
    <3>1. PICK m \in Memory : proc' = [proc EXCEPT ![p] = m] /\ WriteMarker(p, m)
      BY <2>3, BookEffect
    <3>2. /\ proc' \in [Processes -> Memory \cup {None}] /\ proc'[p] # None
          /\ \A q \in Processes : proc[q] # None => proc'[q] # None
      BY <1>0, <3>1, MemorySet
    <3>3. marker' \in SUBSET Stamps /\ lock' = lock
      BY <1>0, <2>3, <3>1, MarkerType DEF Book
    <3>4. Put(p, "scan", {}, None)
      BY <2>3, TaskEffects
    <3>5. QED
      BY <1>1, <2>0, <3>2, <3>3, <3>4 DEF WithoutRequest, Requesting
  <2>4. CASE Open(p)
    <3>1. PICK s \in Stamps : lock' \in Lock /\ Put(p, "opened", task[p].targets, s)
      BY <2>4, OpenEffect
    <3>2. UNCHANGED <<marker, proc>> /\ s # None
      BY <2>4, RecordsAreRecords DEF Open
    <3>3. QED
      BY <1>1, <2>0, <3>1, <3>2 DEF WithoutRequest, Requesting
  <2>5. CASE Note(p)
    <3> DEFINE m == [proc[p] EXCEPT !.active = @ \cup {task[p].ctx}]
    <3>1. /\ m \in Memory /\ proc' = (IF flock = p THEN [proc EXCEPT ![p] = m] ELSE proc)
          /\ WriteMarker(p, m) /\ task[p].ctx # None /\ lock' = lock
          /\ Put(p, "request", task[p].targets, task[p].ctx)
      BY <2>5, NoteEffect DEF Note
    <3> HIDE DEF m
    <3>2. /\ proc' \in [Processes -> Memory \cup {None}] /\ proc'[p] # None
          /\ \A q \in Processes : proc[q] # None => proc'[q] # None
      BY <1>0, <2>0, <3>1, MemorySet
    <3>3. marker' \in SUBSET Stamps
      BY <1>0, <3>1, MarkerType
    <3>4. QED
      BY <1>1, <2>0, <3>1, <3>2, <3>3 DEF WithoutRequest, Requesting
  <2>6. CASE Unlock(p) \/ UnlockFails(p) \/ RateLimit(p) \/ RateLimitFails(p)
    <3>1. UNCHANGED <<marker, proc>> /\ task[p].ctx # None
      BY <2>0, <2>6 DEF Unlock, UnlockFails, RateLimit, RateLimitFails, At, Requesting
    <3>2. lock' \in Lock \cup {None}
      BY <2>0, <2>6, LimitEffect DEF Unlock, UnlockFails, RateLimitFails
    <3>3. Put(p, "closing", task[p].targets, task[p].ctx)
      BY <2>6, TaskEffects
    <3>4. QED
      BY <1>1, <2>0, <3>1, <3>2, <3>3 DEF WithoutRequest, Requesting
  <2>7. CASE Closed(p)
    <3>1. lock' = lock /\ \E pc \in {"scan", "finish"} : Put(p, pc, task[p].targets, None)
      BY <2>7, ClosedEffect DEF Closed
    <3>2. /\ proc' \in [Processes -> Memory \cup {None}] /\ proc'[p] # None
          /\ \A q \in Processes : proc[q] # None => proc'[q] # None
          /\ marker' \in SUBSET Stamps
      BY <1>0, <2>0, <2>7, ClosedEffect, MemorySet, MarkerType
    <3>3. QED
      BY <1>1, <2>0, <3>1, <3>2 DEF WithoutRequest, Requesting
  <2>8. CASE Finish(p)
    BY <1>0, <2>0, <2>8 DEF Finish, RequestOK, Typed
  <2>9. QED
    BY <1>2, <2>1, <2>2, <2>3, <2>4, <2>5, <2>6, <2>7, <2>8 DEF Step
<1>3. ASSUME NEW p \in Processes, Step(p) \/ ResetFails(p)
      PROVE  /\ run' \in [Processes -> Status] /\ older' \in BOOLEAN
             /\ faults' \in 0 .. MaxFaults
  <2>1. CASE Interrupt(p)
    BY <1>0, <2>1 DEF Interrupt, Typed, Status
  <2>2. CASE StartRun(p)
    BY <1>0, <2>2 DEF StartRun, Typed, Status
  <2>3. CASE Finish(p)
    <3>1. task[p].outcome \in Status
      BY <1>0, <2>3, TaskFacts DEF Finish, At, Task, Status
    <3>2. QED
      BY <1>0, <2>3, <3>1 DEF Finish, Typed
  <2>4. CASE ResetFails(p)
    BY <1>0, <2>4, CrawlAssumption DEF ResetFails, Fault, Typed
  <2>5. CASE \/ Reset(p) \/ Book(p) \/ Open(p) \/ Unavailable(p) \/ Note(p) \/ Unlock(p)
             \/ UnlockFails(p) \/ RateLimit(p) \/ RateLimitFails(p) \/ Closed(p) \/ EndScan(p)
             \/ Cancel(p)
    BY <1>0, <2>5 DEF Reset, Book, Open, Unavailable, Note, Unlock, UnlockFails, RateLimit,
      RateLimitFails, Closed, EndScan, Cancel, Typed
  <2>6. QED
    BY <1>3, <2>1, <2>2, <2>3, <2>4, <2>5 DEF Step
<1>4. ASSUME NEW p \in Processes, Start(p)
      PROVE  TypeInv'
  <2>1. PICK m \in Memory : proc' = [proc EXCEPT ![p] = m]
    BY <1>4, StartEffect
  <2>2. QED
    BY <1>0, <1>4, <2>1, MemorySet DEF Start, TypeInv, Typed, RequestOK
<1>5. ASSUME NEW p \in Processes, NewSource(p)
      PROVE  TypeInv'
  <2>1. \E T : Put(p, "interrupt", T, None)
    BY <1>5, SourceEffect
  <2>2. /\ proc' \in [Processes -> Memory \cup {None}] /\ proc'[p] # None
        /\ \A q \in Processes : proc[q] # None => proc'[q] # None
        /\ flock' \in {flock, p}
    <3>1. CASE UNCHANGED <<flock, proc>>
      BY <1>0, <1>5, <3>1, SourceEffect DEF Typed
    <3>2. CASE flock' = p /\ \E m \in Memory : proc' = [proc EXCEPT ![p] = m]
      BY <1>0, <3>2, MemorySet
    <3>3. QED
      BY <1>5, <3>1, <3>2, SourceEffect
  <2>3. /\ RequestOK' /\ task' \in [Processes -> Task \cup {None}]
        /\ flock' \in Processes \cup {None}
        /\ \A q \in Processes : (task'[q] # None \/ flock' = q) => proc'[q] # None
    BY <1>1, <2>1, <2>2 DEF Requesting
  <2>4. QED
    BY <1>0, <1>5, <2>2, <2>3 DEF NewSource, TypeInv, Typed
<1>6. ASSUME NEW p \in Processes, Exit(p) \/ Crash(p)
      PROVE  TypeInv'
  <2>1. /\ proc' = [proc EXCEPT ![p] = None] /\ flock' = (IF flock = p THEN None ELSE flock)
        /\ task' = [task EXCEPT ![p] = None]
        /\ UNCHANGED <<lock, run, older>> /\ Fault
    BY <1>0, <1>6 DEF Exit, Crash, Typed
  <2>2. marker' \in SUBSET Stamps
    <3>1. CASE Crash(p)
      BY <1>0, <3>1 DEF Crash, Typed
    <3>2. CASE Exit(p)
      <4>1. proc[p] \in Memory /\ WriteMarker(p, proc[p])
        BY <1>0, <3>2 DEF Exit, Typed
      <4>2. QED
        BY <1>0, <4>1, MarkerType
    <3>3. QED
      BY <1>6, <3>1, <3>2
  <2>3. faults' \in 0 .. MaxFaults
    BY <1>0, <2>1, CrawlAssumption DEF Fault, Typed
  <2>4. /\ proc' \in [Processes -> Memory \cup {None}] /\ task' \in [Processes -> Task \cup {None}]
        /\ flock' \in Processes \cup {None}
        /\ \A q \in Processes : (task'[q] # None \/ flock' = q) => proc'[q] # None
    BY <1>0, <2>1, CrawlAssumption DEF Typed
  <2>5. RequestOK'
    BY <1>0, <2>1 DEF RequestOK, Typed
  <2>6. QED
    BY <1>0, <2>1, <2>2, <2>3, <2>4, <2>5 DEF TypeInv, Typed
<1>7. CASE Expire
  BY <1>0, <1>7 DEF Expire, TypeInv, Typed, RequestOK
<1>8. CASE UNCHANGED vars
  BY <1>0, <1>8 DEF vars, TypeInv, Typed, RequestOK
<1>9. QED
  BY <1>2, <1>3, <1>4, <1>5, <1>6, <1>7, <1>8 DEF Next, TypeInv, Typed

\* Initially nothing runs.
LEMMA InitTypeInv == Init => TypeInv
<1> SUFFICES ASSUME Init PROVE TypeInv
  OBVIOUS
<1>1. /\ lock = None /\ marker = {} /\ flock = None /\ older = FALSE /\ faults = 0
      /\ proc = [p \in Processes |-> None] /\ task = [p \in Processes |-> None]
      /\ run = [p \in Processes |-> "none"]
  BY DEF Init
<1>2. faults \in 0 .. MaxFaults /\ None \notin Processes
  BY <1>1, CrawlAssumption
<1>3. Typed
  BY <1>1, <1>2 DEF Typed, Status
<1>4. RequestOK
  BY <1>1 DEF RequestOK
<1>5. QED
  BY <1>3, <1>4 DEF TypeInv

-----------------------------------------------------------------------------
(***************************************************************************)
(* The stamps.                                                             *)
(***************************************************************************)
LEMMA PutStamps ==
  ASSUME NEW p \in Processes, NEW pc, NEW T, NEW x, Put(p, pc, T, x)
  PROVE  /\ Ctx(p)' = x /\ Goals(p)' = T
         /\ \A q \in Processes \ {p} : Ctx(q)' = Ctx(q) /\ Goals(q)' = Goals(q)
BY DEF Put, Ctx, Goals

\* What a change of one memory does to the stamps in mind.
LEMMA MemoryStamps ==
  ASSUME Typed, NEW p \in Processes, NEW m \in Memory, proc' = [proc EXCEPT ![p] = m]
  PROVE  /\ Old(p)' = m.targets /\ Active(p)' = m.active /\ Failed(p)' = m.failed
         /\ \A q \in Processes \ {p} :
              Old(q)' = Old(q) /\ Active(q)' = Active(q) /\ Failed(q)' = Failed(q)
BY MemorySet DEF Old, Active, Failed

\* Memories that stay keep their stamps.
LEMMA SameMemory ==
  ASSUME proc' = proc
  PROVE  \A q \in Processes : Old(q)' = Old(q) /\ Active(q)' = Active(q) /\ Failed(q)' = Failed(q)
BY DEF Old, Active, Failed

\* Tasks that stay keep theirs.
LEMMA SameTask ==
  ASSUME task' = task
  PROVE  \A q \in Processes : Ctx(q)' = Ctx(q) /\ Goals(q)' = Goals(q)
BY DEF Ctx, Goals

\* The stamps that may be handed on: without a holder, those of the marker.
Free == IF flock = None THEN marker ELSE {}
Noted == IF flock = None THEN {} ELSE Active(flock) \cup Old(flock)

\* No request begins or gets into somebody's mind, and nobody learns stamps
\* from anywhere but the marker or the own memory.
Calm ==
  /\ lock' \in {lock, None}
  /\ \A q \in Processes :
       /\ Ctx(q)' \in {Ctx(q), None}
       /\ Goals(q)' \subseteq Goals(q) \cup Old(q) \cup Failed(q) \cup Free
       /\ Old(q)' \subseteq Old(q) \cup Free
       /\ Active(q)' \subseteq Active(q)
       /\ \A s \in Failed(q)' : s \in Failed(q) \/ (s = Ctx(q) /\ Ctx(q)' = None)
  /\ marker' \subseteq marker \cup Noted
  /\ \/ flock' = flock
     \/ flock = None
     \/ flock' = None /\ \A q \in Processes : flock = q => Ctx(q)' = None

\* A calm step keeps requests out of the minds of others.
LEMMA CalmKeeps ==
  ASSUME TypeInv, Untargeted, LimitUnknown, Calm
  PROVE  Untargeted' /\ LimitUnknown'
<1>0. flock \in Processes \cup {None} /\ None \notin Processes
  BY CrawlAssumption DEF TypeInv, Typed
<1>1. ASSUME NEW p \in Processes, Ctx(p)' # None
      PROVE  /\ \A q \in Processes :
                  /\ Ctx(q)' = Ctx(p)' => q = p
                  /\ Ctx(p)' \notin Goals(q)' \cup Old(q)' \cup Failed(q)'
                  /\ Ctx(p)' \in Active(q)' => q = p
             /\ Ctx(p)' \in marker' => flock' = p
  <2>1. Ctx(p)' = Ctx(p) /\ Ctx(p) # None
    BY <1>1 DEF Calm
  <2>2. Ctx(p) \notin Free
    BY <1>0, <2>1 DEF Free, Untargeted
  <2>3. ASSUME NEW q \in Processes
        PROVE  /\ Ctx(q)' = Ctx(p) => q = p
               /\ Ctx(p) \notin Goals(q)' \cup Old(q)' \cup Failed(q)'
               /\ Ctx(p) \in Active(q)' => q = p
    <3>1. /\ Ctx(q) = Ctx(p) => q = p
          /\ Ctx(p) \notin Goals(q) \cup Old(q) \cup Failed(q)
          /\ Ctx(p) \in Active(q) => q = p
      BY <2>1 DEF Untargeted
    <3>2. Ctx(p) \notin Failed(q)'
      BY <1>1, <2>1, <3>1 DEF Calm
    <3>3. QED
      BY <1>1, <2>1, <2>2, <3>1, <3>2 DEF Calm
  <2>4. ASSUME Ctx(p) \in marker'
        PROVE  flock' = p
    <3>1. flock = p
      BY <1>0, <2>1, <2>4 DEF Calm, Noted, Untargeted
    <3>2. QED
      BY <1>0, <1>1, <3>1 DEF Calm
  <2>5. QED
    BY <2>1, <2>3, <2>4
<1>2. ASSUME lock' # None, lock'.limited
      PROVE  /\ lock'.stamp \notin marker'
             /\ \A q \in Processes :
                  /\ lock'.stamp \notin Goals(q)' \cup Old(q)' \cup Active(q)' \cup Failed(q)'
                  /\ lock'.stamp # Ctx(q)'
  <2>1. lock' = lock /\ lock # None /\ lock.stamp # None
    BY <1>2, RecordsAreRecords DEF Calm, TypeInv, Typed, Lock
  <2>2. /\ lock.stamp \notin marker
        /\ \A q \in Processes :
             /\ lock.stamp \notin Goals(q) \cup Old(q) \cup Active(q) \cup Failed(q)
             /\ lock.stamp # Ctx(q)
    BY <1>2, <2>1 DEF LimitUnknown
  <2>3. lock.stamp \notin Free /\ lock.stamp \notin Noted
    BY <1>0, <2>2 DEF Free, Noted
  <2>4. QED
    BY <2>1, <2>2, <2>3 DEF Calm
<1>3. QED
  BY <1>1, <1>2 DEF Untargeted, LimitUnknown

\* Every step but the beginning of a request, its note and a rate limit is calm.
LEMMA CalmSteps ==
  ASSUME TypeInv, NEW p \in Processes,
         \/ Start(p) \/ Exit(p) \/ Crash(p) \/ NewSource(p) \/ ResetFails(p)
         \/ Interrupt(p) \/ StartRun(p) \/ Reset(p) \/ Book(p) \/ Unavailable(p)
         \/ Unlock(p) \/ UnlockFails(p) \/ RateLimitFails(p) \/ Closed(p)
         \/ EndScan(p) \/ Cancel(p) \/ Finish(p)
  PROVE  Calm
<1>0. Typed /\ RequestOK /\ None \notin Processes
  BY CrawlAssumption DEF TypeInv
<1>1. CASE Interrupt(p) \/ StartRun(p) \/ Unavailable(p) \/ EndScan(p) \/ Cancel(p)
  <2>1. UNCHANGED <<lock, marker, flock, proc>> /\ task[p] # None
    BY <1>1 DEF Interrupt, StartRun, Unavailable, EndScan, Cancel, At
  <2>2. PICK T \in {Goals(p), {}} : \E pc : Put(p, pc, T, None)
    <3>1. Goals(p) = task[p].targets
      BY <2>1 DEF Goals
    <3>2. QED
      BY <1>1, <3>1, TaskEffects
  <2>3. \A q \in Processes : Ctx(q)' \in {Ctx(q), None} /\ Goals(q)' \subseteq Goals(q)
    BY <2>2, PutStamps
  <2>4. QED
    BY <2>1, <2>3, SameMemory DEF Calm
<1>2. CASE Reset(p) \/ ResetFails(p)
  <2>1. UNCHANGED <<marker, flock, proc>> /\ lock' \in {lock, None} /\ task[p] # None
    BY <1>2 DEF Reset, ResetFails, Cleared, At
  <2>2. PICK T \in {Goals(p), {}} : \E pc : Put(p, pc, T, None)
    <3>1. Goals(p) = task[p].targets
      BY <2>1 DEF Goals
    <3>2. QED
      BY <1>2, <3>1, TaskEffects
  <2>3. \A q \in Processes : Ctx(q)' \in {Ctx(q), None} /\ Goals(q)' \subseteq Goals(q)
    BY <2>2, PutStamps
  <2>4. QED
    BY <2>1, <2>3, SameMemory DEF Calm
<1>3. CASE Unlock(p) \/ UnlockFails(p) \/ RateLimitFails(p)
  <2>1. UNCHANGED <<marker, flock, proc>> /\ lock' \in {lock, None} /\ task[p] # None
    BY <1>3 DEF Unlock, UnlockFails, RateLimitFails, At
  <2>2. Put(p, "closing", Goals(p), Ctx(p))
    BY <1>3, <2>1, TaskEffects DEF Goals, Ctx
  <2>3. \A q \in Processes : Ctx(q)' = Ctx(q) /\ Goals(q)' = Goals(q)
    BY <2>2, PutStamps
  <2>4. QED
    BY <2>1, <2>3, SameMemory DEF Calm
<1>4. ASSUME NEW m \in Memory, proc' = [proc EXCEPT ![p] = m], WriteMarker(p, m),
             m.targets \subseteq Old(p), m.active \subseteq Active(p)
      PROVE  marker' \subseteq marker \cup Noted
  BY <1>0, <1>4 DEF WriteMarker, MarkerTargets, Noted
<1>5. CASE Book(p)
  <2>1. UNCHANGED <<lock, flock>> /\ task[p] # None /\ proc[p] # None
    BY <1>0, <1>5, TaskFacts DEF Book, At
  <2>2. PICK m \in Memory :
          /\ m.targets = proc[p].targets /\ m.active \subseteq proc[p].active
          /\ m.failed \subseteq proc[p].failed
          /\ proc' = [proc EXCEPT ![p] = m] /\ WriteMarker(p, m)
    BY <1>5, BookEffect
  <2>3. m.targets = Old(p) /\ m.active \subseteq Active(p) /\ m.failed \subseteq Failed(p)
    BY <2>1, <2>2 DEF Old, Active, Failed
  <2>4. marker' \subseteq marker \cup Noted
    BY <1>4, <2>2, <2>3
  <2>5. \A q \in Processes : Ctx(q)' \in {Ctx(q), None} /\ Goals(q)' \subseteq Goals(q)
    <3>1. Put(p, "scan", {}, None)
      BY <1>5, TaskEffects
    <3>2. QED
      BY <3>1, PutStamps
  <2>6. \A q \in Processes : Old(q)' \subseteq Old(q) /\ Active(q)' \subseteq Active(q) /\ Failed(q)' \subseteq Failed(q)
    BY <1>0, <2>2, <2>3, MemoryStamps
  <2>7. QED
    BY <2>1, <2>4, <2>5, <2>6 DEF Calm
<1>6. CASE Closed(p)
  <2>1. UNCHANGED <<lock, flock>> /\ task[p] # None /\ proc[p] # None
    BY <1>0, <1>6, TaskFacts DEF Closed, At
  <2>2. /\ Ctx(p)' = None /\ Goals(p)' = Goals(p)
        /\ \A q \in Processes \ {p} : Ctx(q)' = Ctx(q) /\ Goals(q)' = Goals(q)
    <3>1. \E pc : Put(p, pc, Goals(p), None)
      BY <1>6, <2>1, ClosedEffect DEF Goals
    <3>2. QED
      BY <3>1, PutStamps
  <2>3. CASE UNCHANGED <<proc, marker>>
    BY <2>1, <2>2, <2>3, SameMemory DEF Calm
  <2>4. CASE \E m \in Memory :
               /\ m.targets = proc[p].targets /\ m.active \subseteq proc[p].active
               /\ m.failed \subseteq proc[p].failed \cup {task[p].ctx}
               /\ proc' = [proc EXCEPT ![p] = m] /\ WriteMarker(p, m)
    <3>1. PICK m \in Memory :
            /\ m.targets = Old(p) /\ m.active \subseteq Active(p)
            /\ m.failed \subseteq Failed(p) \cup {Ctx(p)}
            /\ proc' = [proc EXCEPT ![p] = m] /\ WriteMarker(p, m)
      BY <2>1, <2>4 DEF Old, Active, Failed, Ctx
    <3>2. marker' \subseteq marker \cup Noted
      BY <1>4, <3>1
    <3>3. /\ Old(p)' = Old(p) /\ Active(p)' \subseteq Active(p)
          /\ Failed(p)' \subseteq Failed(p) \cup {Ctx(p)}
          /\ \A q \in Processes \ {p} :
               Old(q)' = Old(q) /\ Active(q)' = Active(q) /\ Failed(q)' = Failed(q)
      BY <1>0, <3>1, MemoryStamps
    <3>4. QED
      BY <2>1, <2>2, <3>2, <3>3 DEF Calm
  <2>5. QED
    BY <1>6, <2>3, <2>4, ClosedEffect
<1>7. CASE Finish(p)
  <2>1. UNCHANGED <<lock, marker, flock, proc>> /\ task' = [task EXCEPT ![p] = None]
    BY <1>7 DEF Finish
  <2>2. \A q \in Processes : Ctx(q)' \in {Ctx(q), None} /\ Goals(q)' \subseteq Goals(q)
    BY <1>0, <2>1 DEF Ctx, Goals, Typed
  <2>3. QED
    BY <2>1, <2>2, SameMemory DEF Calm
<1>8. CASE Exit(p) \/ Crash(p)
  <2>1. /\ lock' = lock /\ proc' = [proc EXCEPT ![p] = None]
        /\ flock' = (IF flock = p THEN None ELSE flock)
        /\ task' = [task EXCEPT ![p] = None] /\ proc[p] # None
    BY <1>0, <1>8 DEF Exit, Crash, Typed
  <2>2. /\ Ctx(p)' = None
        /\ \A q \in Processes : Ctx(q)' \in {Ctx(q), None} /\ Goals(q)' \subseteq Goals(q)
    BY <1>0, <2>1 DEF Ctx, Goals, Typed
  <2>3. \A q \in Processes : Old(q)' \subseteq Old(q) /\ Active(q)' \subseteq Active(q) /\ Failed(q)' \subseteq Failed(q)
    BY <1>0, <2>1 DEF Old, Active, Failed, Typed
  <2>4. marker' \subseteq marker \cup Noted
    BY <1>0, <1>8, <2>1 DEF Exit, Crash, WriteMarker, MarkerTargets, Noted, Old, Active
  <2>5. flock' = flock \/ (flock' = None /\ \A q \in Processes : flock = q => Ctx(q)' = None)
    BY <2>1, <2>2
  <2>6. QED
    BY <2>1, <2>2, <2>3, <2>4, <2>5 DEF Calm
<1>9. CASE Start(p)
  <2>1. UNCHANGED <<lock, marker, flock, task>> /\ proc[p] = None
    BY <1>9 DEF Start
  <2>2. PICK m \in Memory : /\ m.targets = {} /\ m.active = {} /\ m.failed = {}
                            /\ proc' = [proc EXCEPT ![p] = m]
    BY <1>9, StartEffect
  <2>3. \A q \in Processes : Old(q)' \subseteq Old(q) /\ Active(q)' \subseteq Active(q) /\ Failed(q)' \subseteq Failed(q)
    BY <1>0, <2>2, MemoryStamps
  <2>4. QED
    BY <2>1, <2>3, SameTask DEF Calm
<1>10. CASE NewSource(p)
  <2>1. UNCHANGED <<lock, marker>> /\ proc[p] # None /\ task[p] = None
    BY <1>10, SourceEffect DEF NewSource
  <2>2. ASSUME NEW T, Put(p, "interrupt", T, None), T \subseteq Old(p) \cup Failed(p) \cup Free
        PROVE  \A q \in Processes :
                 /\ Ctx(q)' \in {Ctx(q), None}
                 /\ Goals(q)' \subseteq Goals(q) \cup Old(q) \cup Failed(q) \cup Free
    BY <2>2, PutStamps
  <2>3. CASE /\ UNCHANGED <<flock, proc>>
             /\ \E T : Put(p, "interrupt", T, None) /\ T \subseteq proc[p].targets \cup proc[p].failed
    <3>1. PICK T : Put(p, "interrupt", T, None) /\ T \subseteq Old(p) \cup Failed(p)
      BY <2>1, <2>3 DEF Old, Failed
    <3>2. QED
      BY <2>1, <2>2, <2>3, <3>1, SameMemory DEF Calm
  <2>4. CASE /\ flock = None /\ flock' = p
             /\ \E m \in Memory :
                  /\ m.targets = marker /\ m.consumed = proc[p].consumed
                  /\ m.active = proc[p].active /\ m.failed = proc[p].failed
                  /\ proc' = [proc EXCEPT ![p] = m]
             /\ Put(p, "interrupt", marker \cup proc[p].failed, None)
    <3>1. PICK m \in Memory :
            /\ m.targets = Free /\ m.active = Active(p) /\ m.failed = Failed(p)
            /\ proc' = [proc EXCEPT ![p] = m]
      BY <2>1, <2>4 DEF Free, Active, Failed
    <3>2. \A q \in Processes : /\ Old(q)' \subseteq Old(q) \cup Free
                               /\ Active(q)' = Active(q) /\ Failed(q)' = Failed(q)
      BY <1>0, <3>1, MemoryStamps
    <3>3. Put(p, "interrupt", Free \cup Failed(p), None)
      BY <2>1, <2>4 DEF Free, Failed
    <3>4. QED
      BY <2>1, <2>2, <2>4, <3>2, <3>3 DEF Calm
  <2>5. QED
    BY <1>10, <2>3, <2>4, SourceEffect
<1>11. QED
  BY <1>1, <1>2, <1>3, <1>5, <1>6, <1>7, <1>8, <1>9, <1>10

\* A request begins with a stamp of its own.
LEMMA OpenStamps ==
  ASSUME StampInv, NEW p \in Processes, Open(p)
  PROVE  Untargeted' /\ LimitUnknown' /\ HasLock'
<1> PICK s \in Stamps : /\ Unused(s) /\ lock' = [stamp |-> s, limited |-> FALSE]
                        /\ Put(p, "opened", task[p].targets, s)
  BY OpenEffect DEF StampInv
<1>0. task[p] # None /\ task[p].targets = Goals(p) /\ lock = None
  BY DEF Open, At, Goals
<1>1. /\ Ctx(p)' = s /\ s # None
      /\ \A q \in Processes : q # p => Ctx(q)' = Ctx(q)
      /\ \A q \in Processes : Goals(q)' = Goals(q)
  BY <1>0, PutStamps DEF Unused
<1>2. /\ marker' = marker /\ flock' = flock
      /\ \A q \in Processes : Old(q)' = Old(q) /\ Active(q)' = Active(q) /\ Failed(q)' = Failed(q)
  BY SameMemory DEF Open
<1>3. /\ s \notin marker
      /\ \A q \in Processes :
           s \notin Goals(q) \cup Old(q) \cup Active(q) \cup Failed(q) /\ s # Ctx(q)
  BY DEF Unused
<1>4. ASSUME NEW q \in Processes, q # p, Ctx(q) # None
      PROVE  /\ \A r \in Processes :
                  /\ Ctx(r)' = Ctx(q) => r = q
                  /\ Ctx(q) \notin Goals(r)' \cup Old(r)' \cup Failed(r)'
                  /\ Ctx(q) \in Active(r)' => r = q
             /\ Ctx(q) \in marker' => flock' = q
  BY <1>1, <1>2, <1>3, <1>4 DEF StampInv, Untargeted
<1>5. /\ \A r \in Processes :
           /\ Ctx(r)' = s => r = p
           /\ s \notin Goals(r)' \cup Old(r)' \cup Failed(r)' \cup Active(r)'
      /\ s \notin marker'
  BY <1>1, <1>2, <1>3
<1>6. Untargeted'
  <2>1. ASSUME NEW q \in Processes, Ctx(q)' # None
        PROVE  /\ \A r \in Processes :
                    /\ Ctx(r)' = Ctx(q)' => r = q
                    /\ Ctx(q)' \notin Goals(r)' \cup Old(r)' \cup Failed(r)'
                    /\ Ctx(q)' \in Active(r)' => r = q
               /\ Ctx(q)' \in marker' => flock' = q
    <3>1. CASE q = p
      BY <1>1, <1>5, <3>1
    <3>2. CASE q # p
      BY <1>1, <1>4, <2>1, <3>2
    <3>3. QED
      BY <3>1, <3>2
  <2>2. QED
    BY <2>1 DEF Untargeted
<1>7. LimitUnknown' /\ HasLock'
  <2>1. lock' # None /\ ~lock'.limited /\ lock'.stamp = s
    BY RecordsAreRecords DEF Lock
  <2>2. task'[p].ctx = s /\ \A q \in Processes : q # p => task'[q] = task[q]
    BY DEF Put
  <2>3. \A q \in Processes : ~At(q, "opened") /\ ~At(q, "request")
    BY <1>0 DEF StampInv, HasLock
  <2>4. QED
    BY <2>1, <2>2, <2>3 DEF LimitUnknown, HasLock, At
<1>8. QED
  BY <1>6, <1>7

\* Only the process of a request notes it, and in the marker if it holds that.
LEMMA NoteStamps ==
  ASSUME StampInv, NEW p \in Processes, Note(p)
  PROVE  Untargeted' /\ LimitUnknown' /\ HasLock'
<1> DEFINE m == [proc[p] EXCEPT !.active = @ \cup {task[p].ctx}]
<1>0. Typed /\ task[p] # None /\ proc[p] # None /\ At(p, "opened") /\ flock \in Processes \cup {None}
  BY TaskFacts DEF StampInv, TypeInv, Note, At, Typed
<1>1. /\ m \in Memory /\ m.targets = proc[p].targets /\ m.failed = proc[p].failed
      /\ m.active = proc[p].active \cup {task[p].ctx}
      /\ proc' = (IF flock = p THEN [proc EXCEPT ![p] = m] ELSE proc)
      /\ WriteMarker(p, m) /\ task[p].ctx # None
      /\ Put(p, "request", task[p].targets, task[p].ctx)
      /\ UNCHANGED <<lock, flock>>
  BY NoteEffect DEF Note, StampInv
<1> HIDE DEF m
<1>2. \A q \in Processes : Ctx(q)' = Ctx(q) /\ Goals(q)' = Goals(q)
  <2>1. task[p].ctx = Ctx(p) /\ task[p].targets = Goals(p)
    BY <1>0 DEF Ctx, Goals
  <2>2. QED
    BY <1>1, <2>1, PutStamps
<1>3. /\ m.targets = Old(p) /\ m.failed = Failed(p) /\ m.active = Active(p) \cup {Ctx(p)}
  BY <1>0, <1>1 DEF Old, Failed, Active, Ctx
<1>4. /\ \A q \in Processes :
           /\ Old(q)' = Old(q) /\ Failed(q)' = Failed(q)
           /\ q # p => Active(q)' = Active(q)
      /\ Active(p)' \subseteq Active(p) \cup {Ctx(p)}
  <2>1. CASE flock = p
    BY <1>0, <1>1, <1>3, <2>1, MemoryStamps
  <2>2. CASE flock # p
    BY <1>1, <2>2, SameMemory
  <2>3. QED
    BY <2>1, <2>2
<1>5. \/ marker' = marker
      \/ flock = p /\ marker' \subseteq Active(p) \cup Old(p) \cup {Ctx(p)}
  BY <1>1, <1>3 DEF WriteMarker, MarkerTargets
<1>6. ASSUME NEW q \in Processes, Ctx(q) # None
      PROVE  /\ \A r \in Processes :
                  /\ Ctx(r) = Ctx(q) => r = q
                  /\ Ctx(q) \notin Goals(r) \cup Old(r) \cup Failed(r)
                  /\ Ctx(q) \in Active(r) => r = q
             /\ Ctx(q) \in marker => flock = q
  BY <1>6 DEF StampInv, Untargeted
<1>7. Untargeted'
  <2>1. ASSUME NEW q \in Processes, Ctx(q) # None
        PROVE  /\ \A r \in Processes :
                    /\ Ctx(r) = Ctx(q) => r = q
                    /\ Ctx(q) \notin Goals(r) \cup Old(r)' \cup Failed(r)'
                    /\ Ctx(q) \in Active(r)' => r = q
               /\ Ctx(q) \in marker' => flock = q
    <3>1. Ctx(q) = Ctx(p) => q = p
      BY <1>6, <2>1
    <3>2. \A r \in Processes : Ctx(q) \in Active(r)' => r = q
      BY <1>4, <1>6, <2>1, <3>1
    <3>3. Ctx(q) \in marker' => flock = q
      BY <1>5, <1>6, <2>1, <3>1
    <3>4. QED
      BY <1>4, <1>6, <2>1, <3>2, <3>3
  <2>2. QED
    BY <1>1, <1>2, <2>1 DEF Untargeted
<1>8. lock # None /\ ~lock.limited /\ lock.stamp = task[p].ctx
  BY <1>0 DEF StampInv, HasLock
<1>9. LimitUnknown' /\ HasLock'
  <2>1. task'[p].ctx = task[p].ctx /\ \A q \in Processes : q # p => task'[q] = task[q]
    BY <1>1 DEF Put
  <2>2. QED
    BY <1>1, <1>8, <2>1 DEF LimitUnknown, HasLock, At, StampInv
<1>10. QED
  BY <1>7, <1>9

\* A rate limit has a stamp that nobody ever learns.
LEMMA LimitStamps ==
  ASSUME StampInv, NEW p \in Processes, RateLimit(p)
  PROVE  Untargeted' /\ LimitUnknown' /\ HasLock'
<1> PICK s \in Stamps : Unused(s) /\ lock' = [stamp |-> s, limited |-> TRUE] /\ lock' \in Lock
  BY LimitEffect DEF StampInv
<1>0. task[p] # None /\ At(p, "request")
  BY DEF RateLimit, At
<1>1. Put(p, "closing", Goals(p), Ctx(p))
  <2>1. task[p].ctx = Ctx(p) /\ task[p].targets = Goals(p)
    BY <1>0 DEF Ctx, Goals
  <2>2. QED
    BY <2>1, TaskEffects DEF StampInv
<1>2. \A q \in Processes : Ctx(q)' = Ctx(q) /\ Goals(q)' = Goals(q)
  BY <1>1, PutStamps
<1>3. /\ marker' = marker /\ flock' = flock
      /\ \A q \in Processes : Old(q)' = Old(q) /\ Active(q)' = Active(q) /\ Failed(q)' = Failed(q)
  BY SameMemory DEF RateLimit
<1>4. Untargeted'
  BY <1>2, <1>3 DEF Untargeted, StampInv
<1>5. LimitUnknown'
  <2>1. lock'.stamp = s
    OBVIOUS
  <2>2. QED
    BY <1>2, <1>3, <2>1 DEF LimitUnknown, Unused
<1>6. HasLock'
  <2> SUFFICES ASSUME NEW q \in Processes, At(q, "opened")' \/ At(q, "request")'
               PROVE  FALSE
    BY DEF HasLock
  <2>1. q # p /\ task'[q] = task[q]
    BY <1>1 DEF Put, At
  <2>2. (At(q, "opened") \/ At(q, "request")) /\ task[q] # None
    BY <2>1 DEF At
  <2>3. task[q].ctx = task[p].ctx
    BY <1>0, <2>2 DEF StampInv, HasLock
  <2>4. task[p].ctx # None
    BY <1>0 DEF StampInv, TypeInv, RequestOK, Requesting, At
  <2>5. Ctx(q) = Ctx(p) /\ Ctx(p) # None
    BY <1>0, <2>2, <2>3, <2>4 DEF Ctx
  <2>6. QED
    BY <2>1, <2>5 DEF StampInv, Untargeted
<1>7. QED
  BY <1>4, <1>5, <1>6

\* What those steps leave of the tasks and the lock.
LEMMA CalmTasks ==
  ASSUME TypeInv, NEW p \in Processes,
         \/ Start(p) \/ Exit(p) \/ Crash(p) \/ NewSource(p) \/ ResetFails(p)
         \/ Interrupt(p) \/ StartRun(p) \/ Reset(p) \/ Book(p) \/ Unavailable(p)
         \/ Unlock(p) \/ UnlockFails(p) \/ RateLimitFails(p) \/ Closed(p)
         \/ EndScan(p) \/ Cancel(p) \/ Finish(p)
  PROVE  /\ \A q \in Processes \ {p} : task'[q] = task[q]
         /\ ~At(p, "opened")' /\ ~At(p, "request")'
         /\ \/ lock' = lock
            \/ lock' = None /\ lock # None /\ lock.stamp \in Goals(p)
            \/ lock' = None /\ At(p, "request")
<1>0. Typed /\ RequestOK
  BY DEF TypeInv
<1>1. CASE \/ Interrupt(p) \/ StartRun(p) \/ Unavailable(p) \/ EndScan(p) \/ Cancel(p) \/ Book(p)
           \/ UnlockFails(p) \/ RateLimitFails(p)
  <2>1. \E pc \in {"insert", "scan", "ready", "finish", "closing"} : \E T, x : Put(p, pc, T, x)
    BY <1>1, TaskEffects
  <2>2. lock' = lock
    BY <1>1 DEF Interrupt, StartRun, Unavailable, EndScan, Cancel, Book, UnlockFails, RateLimitFails
  <2>3. QED
    BY <2>1, <2>2 DEF Put, At
<1>2. CASE Reset(p) \/ ResetFails(p)
  <2>1. \E pc \in {"book", "finish"} : \E T : Put(p, pc, T, None)
    BY <1>2, TaskEffects
  <2>2. lock' = lock \/ (lock' = None /\ lock # None /\ lock.stamp \in Goals(p))
    BY <1>2 DEF Reset, ResetFails, Cleared, Goals, At
  <2>3. QED
    BY <2>1, <2>2 DEF Put, At
<1>3. CASE Unlock(p)
  <2>1. Put(p, "closing", task[p].targets, task[p].ctx)
    BY <1>3, TaskEffects
  <2>2. lock' = None /\ At(p, "request")
    BY <1>3 DEF Unlock
  <2>3. QED
    BY <2>1, <2>2 DEF Put, At
<1>4. CASE Closed(p)
  <2>1. \E pc \in {"scan", "finish"} : Put(p, pc, task[p].targets, None)
    BY <1>4, ClosedEffect
  <2>2. lock' = lock
    BY <1>4 DEF Closed
  <2>3. QED
    BY <2>1, <2>2 DEF Put, At
<1>5. CASE Finish(p) \/ Exit(p) \/ Crash(p)
  <2>1. lock' = lock /\ task' = [task EXCEPT ![p] = None]
    BY <1>0, <1>5 DEF Finish, Exit, Crash, Typed
  <2>2. QED
    BY <1>0, <2>1 DEF At, Typed
<1>6. CASE Start(p)
  <2>1. lock' = lock /\ task' = task /\ task[p] = None
    BY <1>6, StartEffect DEF Start
  <2>2. QED
    BY <2>1 DEF At
<1>7. CASE NewSource(p)
  <2>1. lock' = lock /\ \E T : Put(p, "interrupt", T, None)
    BY <1>7, SourceEffect DEF NewSource
  <2>2. QED
    BY <2>1 DEF Put, At
<1>8. QED
  BY <1>1, <1>2, <1>3, <1>4, <1>5, <1>6, <1>7

\* So whoever still has a request has the lock.
LEMMA CalmLock ==
  ASSUME StampInv, NEW p \in Processes,
         \A q \in Processes \ {p} : task'[q] = task[q],
         ~At(p, "opened")', ~At(p, "request")',
         \/ lock' = lock
         \/ lock' = None /\ lock # None /\ lock.stamp \in Goals(p)
         \/ lock' = None /\ At(p, "request")
  PROVE  HasLock'
<1> SUFFICES ASSUME NEW q \in Processes, At(q, "opened")' \/ At(q, "request")'
             PROVE  lock' # None /\ ~lock'.limited /\ lock'.stamp = task'[q].ctx
  BY DEF HasLock
<1>1. q # p /\ task'[q] = task[q] /\ task[q] # None
  BY DEF At
<1>2. At(q, "opened") \/ At(q, "request")
  BY <1>1 DEF At
<1>3. /\ lock # None /\ ~lock.limited /\ lock.stamp = task[q].ctx
      /\ task[q].ctx = Ctx(q) /\ Ctx(q) # None
  BY <1>1, <1>2 DEF StampInv, HasLock, Ctx, TypeInv, RequestOK, Requesting, At
<1>4. lock.stamp \notin Goals(p)
  BY <1>3 DEF StampInv, Untargeted
<1>5. ~At(p, "request")
  <2>1. At(p, "request") => lock.stamp = Ctx(p)
    BY DEF StampInv, HasLock, At, Ctx
  <2>2. QED
    BY <1>1, <1>3, <2>1 DEF StampInv, Untargeted
<1>6. QED
  BY <1>1, <1>3, <1>4, <1>5

\* A lock runs out only when its request has ended.
LEMMA ExpireStamps ==
  ASSUME StampInv, Expire
  PROVE  Untargeted' /\ LimitUnknown' /\ HasLock'
<1>1. /\ UNCHANGED <<marker, flock, proc, task>> /\ lock' = None /\ lock # None
      /\ ~Live(lock.stamp)
  BY DEF Expire
<1>2. \A q \in Processes : ~At(q, "opened") /\ ~At(q, "request")
  BY <1>1 DEF Live, StampInv, HasLock, At
<1>3. QED
  BY <1>1, <1>2, SameTask, SameMemory DEF Untargeted, LimitUnknown, HasLock, StampInv, At

\* Every step keeps the stamps of requests to themselves.
LEMMA NextStampInv == StampInv /\ [Next]_vars => StampInv'
<1> SUFFICES ASSUME StampInv, [Next]_vars PROVE StampInv'
  OBVIOUS
<1>0. TypeInv /\ TypeInv' /\ Untargeted /\ LimitUnknown
  BY NextTypeInv DEF StampInv
<1>1. ASSUME NEW p \in Processes,
             \/ Start(p) \/ Exit(p) \/ Crash(p) \/ NewSource(p) \/ ResetFails(p)
             \/ Interrupt(p) \/ StartRun(p) \/ Reset(p) \/ Book(p) \/ Unavailable(p)
             \/ Unlock(p) \/ UnlockFails(p) \/ RateLimitFails(p) \/ Closed(p)
             \/ EndScan(p) \/ Cancel(p) \/ Finish(p)
      PROVE  StampInv'
  BY <1>0, <1>1, CalmSteps, CalmKeeps, CalmTasks, CalmLock DEF StampInv
<1>2. ASSUME NEW p \in Processes, Open(p) \/ Note(p) \/ RateLimit(p)
      PROVE  StampInv'
  BY <1>0, <1>2, OpenStamps, NoteStamps, LimitStamps DEF StampInv
<1>3. CASE Expire
  BY <1>0, <1>3, ExpireStamps DEF StampInv
<1>4. CASE UNCHANGED vars
  <2>1. UNCHANGED <<lock, marker, flock, proc, task>>
    BY <1>4 DEF vars
  <2>2. QED
    BY <1>0, <2>1, SameTask, SameMemory DEF StampInv, Untargeted, LimitUnknown, HasLock, At
<1>5. QED
  BY <1>1, <1>2, <1>3, <1>4 DEF Next, Step

\* Initially there is no request.
LEMMA InitStampInv == Init => StampInv
<1> SUFFICES ASSUME Init PROVE StampInv
  OBVIOUS
<1>1. lock = None /\ \A p \in Processes : task[p] = None
  BY DEF Init
<1>2. QED
  BY <1>1, InitTypeInv DEF StampInv, Untargeted, LimitUnknown, HasLock, Ctx, At

\* Every variable is of its type, and a task or a lease has a process, however
\* many stamps there are.
THEOREM WorkerTypes == Spec => []Typed
<1>1. TypeInv => Typed
  BY DEF TypeInv
<1>2. QED
  BY <1>1, InitTypeInv, NextTypeInv, PTL DEF Spec

-----------------------------------------------------------------------------
(***************************************************************************)
(* The refinement.                                                         *)
(***************************************************************************)
LEMMA LiveCtx ==
  ASSUME NEW s, s # None
  PROVE  /\ Live(s) <=> \E p \in Processes : Ctx(p) = s
         /\ Live(s)' <=> \E p \in Processes : Ctx(p)' = s
BY DEF Live, Ctx

\* What the lock stands for, before a step and after it.
LEMMA Kind ==
  ASSUME TypeInv, lock # None
  PROVE  /\ Account # None /\ lock.stamp # None
         /\ Account = [stamp |-> lock.stamp, kind |-> Account.kind]
         /\ Account.kind =
              (IF lock.limited THEN "limited" ELSE IF Live(lock.stamp) THEN "held" ELSE "lost")
<1> DEFINE kind == IF lock.limited THEN "limited" ELSE IF Live(lock.stamp) THEN "held" ELSE "lost"
           a == [stamp |-> lock.stamp, kind |-> kind]
<1>1. lock.stamp \in Stamps /\ kind \in {"held", "limited", "lost"}
  BY DEF TypeInv, Typed, Lock
<1>2. Account = a
  BY DEF Account
<1> HIDE DEF kind
<1>3. a \in Promised
  BY <1>1 DEF Promised
<1>4. a # None /\ a.stamp = lock.stamp /\ a.kind = kind /\ lock.stamp # None
  BY <1>1, <1>3, RecordAssumption, RecordsAreRecords
<1>5. QED
  BY <1>2, <1>4 DEF kind, a

LEMMA KindNext ==
  ASSUME TypeInv', lock' # None
  PROVE  /\ lock'.stamp # None
         /\ Account' = [stamp |-> lock'.stamp,
                        kind |-> IF lock'.limited THEN "limited"
                                 ELSE IF Live(lock.stamp)' THEN "held" ELSE "lost"]
<1>1. lock'.stamp # None
  BY RecordsAreRecords DEF TypeInv, Typed, Lock
<1>2. QED
  BY <1>1 DEF Account, Live

\* A request ends, or not; a lock that was lost is not held again.
LEMMA Fades ==
  ASSUME TypeInv, TypeInv', lock' = lock, \A q \in Processes : Ctx(q)' \in {Ctx(q), None}
  PROVE  Promise!Lose \/ Account' = Account
<1>1. CASE lock = None
  BY <1>1 DEF Account
<1>2. CASE lock # None
  <2>1. lock.stamp # None /\ Account # None
    BY <1>2, Kind
  <2>2. Live(lock.stamp)' => Live(lock.stamp)
    BY <2>1 DEF Live, Ctx
  <2>3. CASE lock.limited \/ (Live(lock.stamp) <=> Live(lock.stamp)')
    BY <1>2, <2>3, Kind, KindNext
  <2>4. CASE ~lock.limited /\ Live(lock.stamp) /\ ~Live(lock.stamp)'
    <3>1. Account.kind = "held" /\ Account = [stamp |-> lock.stamp, kind |-> "held"]
      BY <1>2, <2>4, Kind
    <3>2. Account' = [stamp |-> lock.stamp, kind |-> "lost"]
      BY <1>2, <2>4, KindNext
    <3>3. QED
      BY <2>1, <3>1, <3>2 DEF Promise!Lose, Promise!Is
  <2>5. QED
    BY <2>2, <2>3, <2>4
<1>3. QED
  BY <1>1, <1>2

\* The request of a process is the one whose lock it has.
LEMMA HeldByRequest ==
  ASSUME StampInv, NEW p \in Processes, At(p, "opened") \/ At(p, "request")
  PROVE  /\ lock # None /\ ~lock.limited /\ lock.stamp = Ctx(p) /\ Promise!Is("held")
<1>1. lock # None /\ ~lock.limited /\ lock.stamp = Ctx(p)
  BY DEF StampInv, HasLock, At, Ctx
<1>2. Account # None /\ Account.kind = "held"
  <2>1. lock.stamp # None
    BY <1>1, Kind DEF StampInv
  <2>2. Live(lock.stamp)
    BY <1>1, <2>1, LiveCtx
  <2>3. QED
    BY <1>1, <2>2, Kind DEF StampInv
<1>3. QED
  BY <1>1, <1>2 DEF Promise!Is

\* Every step is one of the promise, or changes nothing of the lock.
LEMMA NextPromise ==
  ASSUME StampInv, StampInv', [Next]_vars
  PROVE  [Promise!Next]_Account
<1>0. TypeInv /\ TypeInv'
  BY DEF StampInv
<1>1. ASSUME NEW p \in Processes,
             \/ Start(p) \/ Exit(p) \/ Crash(p) \/ NewSource(p) \/ ResetFails(p)
             \/ Interrupt(p) \/ StartRun(p) \/ Reset(p) \/ Book(p) \/ Unavailable(p)
             \/ Unlock(p) \/ UnlockFails(p) \/ RateLimitFails(p) \/ Closed(p)
             \/ EndScan(p) \/ Cancel(p) \/ Finish(p)
      PROVE  [Promise!Next]_Account
  <2>1. Calm
    BY <1>0, <1>1, CalmSteps
  <2>2. \A q \in Processes : Ctx(q)' \in {Ctx(q), None}
    BY <2>1 DEF Calm
  <2>3. \/ lock' = lock
        \/ lock' = None /\ lock # None /\ lock.stamp \in Goals(p)
        \/ lock' = None /\ At(p, "request")
    BY <1>0, <1>1, CalmTasks
  <2>4. CASE lock' = lock
    BY <1>0, <2>2, <2>4, Fades DEF Promise!Next
  <2>5. CASE lock' = None /\ lock # None /\ lock.stamp \in Goals(p)
    <3>1. ~lock.limited
      BY <2>5 DEF StampInv, LimitUnknown
    <3>2. lock.stamp # None
      BY <1>0, <2>5, Kind
    <3>3. ~Live(lock.stamp)
      BY <2>5, <3>2, LiveCtx DEF StampInv, Untargeted
    <3>4. Account # None /\ Account.kind = "lost"
      BY <1>0, <2>5, <3>1, <3>3, Kind
    <3>5. Account' = None
      BY <2>5 DEF Account
    <3>6. Promise!Recover
      BY <3>4, <3>5 DEF Promise!Recover, Promise!Is
    <3>7. QED
      BY <3>6 DEF Promise!Next
  <2>6. CASE lock' = None /\ At(p, "request")
    <3>1. Account' = None
      BY <2>6 DEF Account
    <3>2. Promise!Release
      BY <2>6, <3>1, HeldByRequest DEF Promise!Release
    <3>3. QED
      BY <3>2 DEF Promise!Next
  <2>7. QED
    BY <2>3, <2>4, <2>5, <2>6
<1>2. ASSUME NEW p \in Processes, Open(p)
      PROVE  Promise!Next
  <2>1. PICK s \in Stamps : /\ lock' = [stamp |-> s, limited |-> FALSE] /\ lock' \in Lock
                            /\ Put(p, "opened", task[p].targets, s)
    BY <1>0, <1>2, OpenEffect
  <2>2. lock' # None /\ lock'.stamp = s /\ ~lock'.limited /\ Ctx(p)' = s
    BY <2>1, RecordsAreRecords, PutStamps
  <2>3. Live(lock.stamp)'
    <3>1. task'[p] # None /\ task'[p].ctx = lock'.stamp
      BY <2>1, <2>2 DEF Put
    <3>2. QED
      BY <3>1 DEF Live
  <2>4. Account' = [stamp |-> s, kind |-> "held"]
    BY <1>0, <2>2, <2>3, KindNext
  <2>5. Account = None
    BY <1>2 DEF Open, Account
  <2>6. Promise!Acquire(s)
    BY <2>4, <2>5 DEF Promise!Acquire
  <2>7. QED
    BY <2>6 DEF Promise!Next
<1>3. ASSUME NEW p \in Processes, Note(p)
      PROVE  [Promise!Next]_Account
  <2>1. Put(p, "request", task[p].targets, task[p].ctx) /\ task[p] # None /\ lock' = lock
    BY <1>0, <1>3, NoteEffect DEF Note, At
  <2>2. \A q \in Processes : Ctx(q)' = Ctx(q)
    BY <2>1, PutStamps DEF Ctx
  <2>3. QED
    BY <1>0, <2>1, <2>2, Fades DEF Promise!Next
<1>4. ASSUME NEW p \in Processes, RateLimit(p)
      PROVE  Promise!Next
  <2>1. PICK s \in Stamps : lock' = [stamp |-> s, limited |-> TRUE] /\ lock' \in Lock
    BY <1>0, <1>4, LimitEffect
  <2>2. lock' # None /\ lock'.stamp = s /\ lock'.limited
    BY <2>1, RecordsAreRecords
  <2>3. Account' = [stamp |-> s, kind |-> "limited"]
    BY <1>0, <2>2, KindNext
  <2>4. Promise!Is("held")
    BY <1>4, HeldByRequest DEF RateLimit
  <2>5. Promise!Limit(s)
    BY <2>3, <2>4 DEF Promise!Limit
  <2>6. QED
    BY <2>5 DEF Promise!Next
<1>5. CASE Expire
  <2>1. lock # None /\ lock' = None /\ ~Live(lock.stamp)
    BY <1>5 DEF Expire
  <2>2. Account # None /\ Account.kind \in {"limited", "lost"}
    BY <1>0, <2>1, Kind
  <2>3. Account' = None
    BY <2>1 DEF Account
  <2>4. Promise!Expire
    BY <2>2, <2>3 DEF Promise!Expire, Promise!Is
  <2>5. QED
    BY <2>4 DEF Promise!Next
<1>6. CASE UNCHANGED vars
  <2>1. lock' = lock /\ task' = task
    BY <1>6 DEF vars
  <2>2. Account' = Account
    BY <2>1 DEF Account, Live
  <2>3. QED
    BY <2>2
<1>7. QED
  BY <1>1, <1>2, <1>3, <1>4, <1>5, <1>6 DEF Next, Step

\* The workers drive the lock as CrawlLock allows: nobody releases or recovers
\* the lock of another's request, and only its time ends a rate limit
\* (_reset_crawl_queue_locks, _session_context_closed, source.py).
THEOREM WorkerLock == Spec => LockSpec
<1>1. Init => StampInv
  BY InitStampInv
<1>2. StampInv /\ [Next]_vars => StampInv'
  BY NextStampInv
<1>3. Init => Promise!Init
  BY DEF Init, Promise!Init, Account
<1>4. StampInv /\ StampInv' /\ [Next]_vars => [Promise!Next]_Account
  BY NextPromise
<1>5. QED
  BY <1>1, <1>2, <1>3, <1>4, PTL DEF Spec, LockSpec, Promise!Spec

-----------------------------------------------------------------------------
(***************************************************************************)
(* The rows.                                                               *)
(***************************************************************************)

\* A task that runs has begun; only StartRun begins its row.
LEMMA Begun ==
  ASSUME TypeInv, NEW p \in Processes,
         Start(p) \/ Exit(p) \/ Crash(p) \/ NewSource(p) \/ ResetFails(p) \/ Step(p)
  PROVE  /\ \A q \in Processes \ {p} : task'[q] = task[q]
         /\ \/ task'[p] = None
            \/ task'[p].pc \in {"interrupt", "insert"}
            \/ StartRun(p)
            \/ task[p] # None /\ task[p].pc \notin {"interrupt", "insert"}
<1>0. Typed
  BY DEF TypeInv
<1>1. CASE \/ Reset(p) \/ ResetFails(p) \/ Book(p) \/ Unavailable(p) \/ Unlock(p) \/ UnlockFails(p)
           \/ RateLimit(p) \/ RateLimitFails(p) \/ EndScan(p) \/ Cancel(p)
  <2>1. \E pc, T, x : Put(p, pc, T, x)
    BY <1>1, TaskEffects
  <2>2. task[p] # None /\ task[p].pc \notin {"interrupt", "insert"}
    BY <1>1 DEF Reset, ResetFails, Book, Unavailable, Unlock, UnlockFails, RateLimit, RateLimitFails,
      EndScan, Cancel, At
  <2>3. QED
    BY <2>1, <2>2 DEF Put
<1>2. CASE Interrupt(p)
  <2>1. Put(p, "insert", task[p].targets, None)
    BY <1>2, TaskEffects
  <2>2. QED
    BY <2>1 DEF Put
<1>3. CASE StartRun(p)
  <2>1. \E pc, T, x : Put(p, pc, T, x)
    BY <1>3, TaskEffects
  <2>2. QED
    BY <1>3, <2>1 DEF Put
<1>4. CASE Open(p) \/ Note(p) \/ Closed(p)
  <2>1. \E pc, T, x : Put(p, pc, T, x)
    BY <1>4, OpenEffect, NoteEffect, ClosedEffect
  <2>2. task[p] # None /\ task[p].pc \notin {"interrupt", "insert"}
    BY <1>4 DEF Open, Note, Closed, At
  <2>3. QED
    BY <2>1, <2>2 DEF Put
<1>5. CASE Finish(p) \/ Exit(p) \/ Crash(p)
  <2>1. task' = [task EXCEPT ![p] = None]
    BY <1>0, <1>5 DEF Finish, Exit, Crash, Typed
  <2>2. QED
    BY <1>0, <2>1 DEF Typed
<1>6. CASE Start(p)
  <2>1. task' = task /\ task[p] = None
    BY <1>6, StartEffect DEF Start
  <2>2. QED
    BY <2>1
<1>7. CASE NewSource(p)
  <2>1. \E T : Put(p, "interrupt", T, None)
    BY <1>7, SourceEffect
  <2>2. QED
    BY <2>1 DEF Put
<1>8. QED
  BY <1>1, <1>2, <1>3, <1>4, <1>5, <1>6, <1>7 DEF Step

\* Who writes a row: a task that begins marks what runs as interrupted and
\* inserts its own, and at its end it writes its outcome.
LEMMA RowWrites ==
  ASSUME TypeInv, NEW p \in Processes,
         Start(p) \/ Exit(p) \/ Crash(p) \/ NewSource(p) \/ ResetFails(p) \/ Step(p)
  PROVE  \/ run' = run /\ ~StartRun(p)
         \/ /\ Interrupt(p)
            /\ \A q \in Processes :
                 run'[q] = run[q] \/ (run[q] = "running" /\ run'[q] = "interrupted")
         \/ /\ StartRun(p) /\ run'[p] = "running"
            /\ \A q \in Processes \ {p} : run'[q] = run[q]
         \/ /\ Finish(p) /\ task'[p] = None
            /\ \A q \in Processes \ {p} : run'[q] = run[q]
<1>0. run \in [Processes -> Status] /\ task \in [Processes -> Task \cup {None}]
  BY DEF TypeInv, Typed
<1>1. CASE Interrupt(p)
  BY <1>0, <1>1 DEF Interrupt
<1>2. CASE StartRun(p)
  BY <1>0, <1>2 DEF StartRun
<1>3. CASE Finish(p)
  BY <1>0, <1>3 DEF Finish
<1>4. CASE \/ Start(p) \/ Exit(p) \/ Crash(p) \/ NewSource(p) \/ ResetFails(p)
           \/ Reset(p) \/ Book(p) \/ Open(p) \/ Unavailable(p) \/ Note(p) \/ Unlock(p)
           \/ UnlockFails(p) \/ RateLimit(p) \/ RateLimitFails(p) \/ Closed(p) \/ EndScan(p)
           \/ Cancel(p)
  <2>1. run' = run
    BY <1>4 DEF Start, Exit, Crash, NewSource, ResetFails, Reset, Book, Open, Unavailable, Note, Unlock,
      UnlockFails, RateLimit, RateLimitFails, Closed, EndScan, Cancel
  <2>2. CASE StartRun(p)
    BY <1>2, <2>2, <1>0 DEF StartRun
  <2>3. QED
    BY <2>1, <2>2
<1>5. QED
  BY <1>1, <1>2, <1>3, <1>4 DEF Step

\* Every step keeps the rows of tasks that have begun open.
LEMMA NextRunInv == RunInv /\ [Next]_vars => RunInv'
<1> SUFFICES ASSUME RunInv, [Next]_vars PROVE RunInv'
  OBVIOUS
<1>0. TypeInv /\ TypeInv'
  BY NextTypeInv DEF RunInv
<1>1. ASSUME NEW p \in Processes,
             Start(p) \/ Exit(p) \/ Crash(p) \/ NewSource(p) \/ ResetFails(p) \/ Step(p),
             NEW q \in Processes, task'[q] # None, task'[q].pc \notin {"interrupt", "insert"}
      PROVE  run'[q] \in {"running", "interrupted"}
  <2>1. /\ \A r \in Processes \ {p} : task'[r] = task[r]
        /\ \/ task'[p] = None
           \/ task'[p].pc \in {"interrupt", "insert"}
           \/ StartRun(p)
           \/ task[p] # None /\ task[p].pc \notin {"interrupt", "insert"}
    BY <1>0, <1>1, Begun
  <2>2. CASE StartRun(p) /\ q = p
    BY <1>0, <2>2, RowWrites DEF Step, StartRun, TypeInv, Typed
  <2>3. CASE ~(StartRun(p) /\ q = p)
    <3>1. run[q] \in {"running", "interrupted"}
      BY <1>1, <2>1, <2>3 DEF RunInv
    <3>2. QED
      BY <1>0, <1>1, <2>3, <3>1, RowWrites
  <2>4. QED
    BY <2>2, <2>3
<1>2. CASE Expire \/ UNCHANGED vars
  <2>1. run' = run /\ task' = task
    BY <1>2 DEF Expire, vars
  <2>2. QED
    BY <1>0, <2>1 DEF RunInv
<1>3. QED
  BY <1>0, <1>1, <1>2 DEF Next, RunInv

\* A run that came to its own end keeps its outcome: what a successor marks as
\* interrupted is still running, and a run ends once
\* (interrupt_running_sync_runs, finish_sync_run, storage.py).
THEOREM WorkerOutcome == Spec => OutcomeIsFinal
<1>1. Init => RunInv
  <2> SUFFICES ASSUME Init PROVE RunInv
    OBVIOUS
  <2>1. \A p \in Processes : task[p] = None
    BY DEF Init
  <2>2. QED
    BY <2>1, InitTypeInv DEF RunInv
<1>2. RunInv /\ [Next]_vars => RunInv'
  BY NextRunInv
<1>3. RunInv /\ [Next]_vars =>
        [\A p \in Processes : run[p] = "ended" => run'[p] \in {"ended", "running"}]_vars
  <2> SUFFICES ASSUME RunInv, Next, NEW q \in Processes, run[q] = "ended"
               PROVE  run'[q] \in {"ended", "running"}
    OBVIOUS
  <2>1. TypeInv
    BY DEF RunInv
  <2>2. ASSUME NEW p \in Processes,
               Start(p) \/ Exit(p) \/ Crash(p) \/ NewSource(p) \/ ResetFails(p) \/ Step(p)
        PROVE  run'[q] \in {"ended", "running"}
    <3>1. Finish(p) => run[p] # "ended"
      BY DEF Finish, At, RunInv
    <3>2. QED
      BY <2>1, <2>2, <3>1, RowWrites
  <2>3. CASE Expire
    BY <2>3 DEF Expire
  <2>4. QED
    BY <2>2, <2>3 DEF Next
<1>4. QED
  BY <1>1, <1>2, <1>3, PTL DEF Spec, OutcomeIsFinal

-----------------------------------------------------------------------------
(***************************************************************************)
(* Stamps in use are finitely many, so there is always another.            *)
(***************************************************************************)
LEMMA FiniteParts ==
  ASSUME NEW A, NEW B, IsFiniteSet(A), IsFiniteSet(B), NEW K \in SUBSET (A \cup B)
  PROVE  IsFiniteSet(K)
<1>1. IsFiniteSet(A \cup B)
  BY FS_Union, Zenon
<1>2. QED
  BY <1>1, FS_Subset, Zenon

\* A finite family of finite sets has a finite union.
LEMMA FiniteFamily ==
  ASSUME NEW I, IsFiniteSet(I), NEW T, NEW f \in [I -> T], \A i \in I : IsFiniteSet(f[i])
  PROVE  IsFiniteSet(UNION {f[i] : i \in I})
<1> DEFINE R == {f[i] : i \in I}
<1>1. f \in [I -> R] /\ \A t \in R : \E i \in I : f[i] = t
  OBVIOUS
<1>2. f \in Surjection(I, R)
  BY <1>1 DEF Surjection
<1>3. IsFiniteSet(R)
  BY <1>2, FS_Surjection, Zenon
<1>4. \A t \in R : IsFiniteSet(t)
  OBVIOUS
<1> HIDE DEF R
<1>5. IsFiniteSet(UNION R)
  BY <1>3, <1>4, FS_UNION, Zenon
<1>6. QED
  BY <1>5 DEF R

\* What is in use is finite.
LEMMA FiniteUsed ==
  ASSUME IsFiniteSet(Processes), FiniteInv
  PROVE  IsFiniteSet(Used)
<1> DEFINE f == [p \in Processes |-> Old(p) \cup Active(p) \cup Failed(p) \cup Goals(p) \cup {Ctx(p)}]
           held == IF lock = None THEN {} ELSE {lock.stamp}
           all == UNION {f[p] : p \in Processes}
<1>1. \A p \in Processes : IsFiniteSet(f[p])
  <2>1. ASSUME NEW p \in Processes
        PROVE  IsFiniteSet(Old(p) \cup Active(p) \cup Failed(p) \cup Goals(p) \cup {Ctx(p)})
    <3>1. /\ IsFiniteSet(Old(p)) /\ IsFiniteSet(Active(p)) /\ IsFiniteSet(Failed(p))
          /\ IsFiniteSet(Goals(p)) /\ IsFiniteSet({Ctx(p)})
      BY FS_Singleton DEF FiniteInv
    <3>2. IsFiniteSet(Old(p) \cup Active(p))
      BY <3>1, FS_Union, Zenon
    <3>3. IsFiniteSet(Old(p) \cup Active(p) \cup Failed(p))
      BY <3>1, <3>2, FS_Union, Zenon
    <3>4. IsFiniteSet(Old(p) \cup Active(p) \cup Failed(p) \cup Goals(p))
      BY <3>1, <3>3, FS_Union, Zenon
    <3>5. QED
      BY <3>1, <3>4, FS_Union, Zenon
  <2>2. QED
    BY <2>1
<1>2. IsFiniteSet(all)
  <2> DEFINE T == {f[p] : p \in Processes}
  <2>1. f \in [Processes -> T]
    OBVIOUS
  <2> HIDE DEF f, T
  <2>2. QED
    BY <1>1, <2>1, FiniteFamily
<1>3. IsFiniteSet(marker) /\ IsFiniteSet(held)
  BY FS_EmptySet, FS_Singleton DEF FiniteInv
<1>4. IsFiniteSet(marker \cup held)
  BY <1>3, FS_Union, Zenon
<1>5. Used \subseteq (marker \cup held) \cup all
  <2> SUFFICES ASSUME NEW s \in Used, s \notin marker, s \notin held
               PROVE  s \in all
    OBVIOUS
  <2>1. CASE \E p \in Processes :
               proc[p] # None /\ s \in proc[p].targets \cup proc[p].active \cup proc[p].failed
    <3>1. PICK p \in Processes : s \in Old(p) \cup Active(p) \cup Failed(p)
      BY <2>1 DEF Old, Active, Failed
    <3>2. s \in f[p]
      BY <3>1
    <3>3. QED
      BY <3>2
  <2>2. CASE \E p \in Processes : task[p] # None /\ s \in task[p].targets \cup StampsOf(task[p].ctx)
    <3>1. PICK p \in Processes : s \in Goals(p) \cup {Ctx(p)}
      BY <2>2 DEF Goals, Ctx, StampsOf
    <3>2. s \in f[p]
      BY <3>1
    <3>3. QED
      BY <3>2
  <2>3. QED
    BY <2>1, <2>2 DEF Used
<1> HIDE DEF all, held
<1>6. QED
  BY <1>2, <1>4, <1>5, FiniteParts, Zenon

\* Every step keeps what each part remembers finite.
LEMMA NextFiniteInv == FiniteInv /\ [Next]_vars => FiniteInv'
<1> SUFFICES ASSUME FiniteInv, [Next]_vars PROVE FiniteInv'
  OBVIOUS
<1>0. /\ TypeInv /\ TypeInv' /\ IsFiniteSet(marker) /\ flock \in Processes \cup {None}
      /\ \A p \in Processes : /\ IsFiniteSet(Goals(p)) /\ IsFiniteSet(Old(p))
                              /\ IsFiniteSet(Active(p)) /\ IsFiniteSet(Failed(p))
                              /\ IsFiniteSet({Ctx(p)})
  BY NextTypeInv, FS_Singleton DEF FiniteInv, TypeInv, Typed
<1>1. ASSUME Calm
      PROVE  FiniteInv'
  <2>1. IsFiniteSet(Free) /\ IsFiniteSet(Noted)
    <3>1. IsFiniteSet(Free)
      BY <1>0, FS_EmptySet DEF Free
    <3>2. CASE flock = None
      BY <1>0, <3>1, <3>2, FS_EmptySet DEF Noted
    <3>3. CASE flock # None
      <4>1. IsFiniteSet(Active(flock) \cup Old(flock))
        BY <1>0, <3>3, FS_Union, Zenon
      <4>2. QED
        BY <3>1, <3>3, <4>1 DEF Noted
    <3>4. QED
      BY <3>2, <3>3
  <2>2. IsFiniteSet(marker')
    <3>1. marker' \in SUBSET (marker \cup Noted)
      BY <1>1 DEF Calm
    <3>2. QED
      BY <1>0, <2>1, <3>1, FiniteParts, Zenon
  <2>3. ASSUME NEW q \in Processes
        PROVE  /\ IsFiniteSet(Goals(q)') /\ IsFiniteSet(Old(q)')
               /\ IsFiniteSet(Active(q)') /\ IsFiniteSet(Failed(q)')
    <3>1. /\ Goals(q)' \in SUBSET ((Goals(q) \cup Old(q)) \cup (Failed(q) \cup Free))
          /\ Old(q)' \in SUBSET (Old(q) \cup Free)
          /\ Active(q)' \in SUBSET (Active(q) \cup Active(q))
          /\ Failed(q)' \in SUBSET (Failed(q) \cup {Ctx(q)})
      BY <1>1 DEF Calm
    <3>2. IsFiniteSet(Goals(q) \cup Old(q)) /\ IsFiniteSet(Failed(q) \cup Free)
      BY <1>0, <2>1, FS_Union, Zenon
    <3>3. IsFiniteSet(Goals(q)')
      BY <3>1, <3>2, FiniteParts, Zenon
    <3>4. IsFiniteSet(Old(q)')
      BY <1>0, <2>1, <3>1, FiniteParts, Zenon
    <3>5. IsFiniteSet(Active(q)')
      BY <1>0, <3>1, FiniteParts, Zenon
    <3>6. IsFiniteSet(Failed(q)')
      BY <1>0, <3>1, FiniteParts, Zenon
    <3>7. QED
      BY <3>3, <3>4, <3>5, <3>6
  <2>4. QED
    BY <1>0, <2>2, <2>3 DEF FiniteInv
<1>2. ASSUME NEW p \in Processes, Open(p) \/ RateLimit(p)
      PROVE  FiniteInv'
  <2>1. UNCHANGED <<marker, proc>> /\ task[p] # None
    BY <1>2 DEF Open, RateLimit, At
  <2>2. \E pc, x : Put(p, pc, Goals(p), x)
    BY <1>0, <1>2, <2>1, OpenEffect, TaskEffects DEF Goals
  <2>3. \A q \in Processes : Goals(q)' = Goals(q)
    BY <2>2, PutStamps
  <2>4. \A q \in Processes : Old(q)' = Old(q) /\ Active(q)' = Active(q) /\ Failed(q)' = Failed(q)
    BY <2>1, SameMemory
  <2>5. QED
    BY <1>0, <2>1, <2>3, <2>4 DEF FiniteInv
<1>3. ASSUME NEW p \in Processes, Note(p)
      PROVE  FiniteInv'
  <2> DEFINE m == [proc[p] EXCEPT !.active = @ \cup {task[p].ctx}]
  <2>0. Typed /\ task[p] # None /\ proc[p] # None
    BY <1>0, <1>3, TaskFacts DEF TypeInv, Note, At
  <2>1. /\ m \in Memory /\ m.targets = Old(p) /\ m.failed = Failed(p)
        /\ m.active = Active(p) \cup {Ctx(p)}
        /\ proc' = (IF flock = p THEN [proc EXCEPT ![p] = m] ELSE proc)
        /\ WriteMarker(p, m) /\ Put(p, "request", Goals(p), Ctx(p))
    BY <1>0, <1>3, <2>0, NoteEffect DEF Old, Failed, Active, Ctx, Goals
  <2> HIDE DEF m
  <2>2. \A q \in Processes : Goals(q)' = Goals(q)
    BY <2>1, PutStamps
  <2>3. \A q \in Processes : /\ Old(q)' = Old(q) /\ Failed(q)' = Failed(q)
                             /\ Active(q)' \in SUBSET (Active(q) \cup {Ctx(q)})
    <3>1. CASE flock = p
      BY <2>0, <2>1, <3>1, MemoryStamps
    <3>2. CASE flock # p
      BY <2>1, <3>2, SameMemory
    <3>3. QED
      BY <3>1, <3>2
  <2>4. marker' \in SUBSET (marker \cup ((Active(p) \cup {Ctx(p)}) \cup Old(p)))
    BY <2>1 DEF WriteMarker, MarkerTargets
  <2>5. IsFiniteSet((Active(p) \cup {Ctx(p)}) \cup Old(p))
    <3>1. IsFiniteSet(Active(p) \cup {Ctx(p)})
      BY <1>0, FS_Union, Zenon
    <3>2. QED
      BY <1>0, <3>1, FS_Union, Zenon
  <2>6. IsFiniteSet(marker')
    BY <1>0, <2>4, <2>5, FiniteParts, Zenon
  <2>7. \A q \in Processes : IsFiniteSet(Active(q)')
    BY <1>0, <2>3, FiniteParts, Zenon
  <2>8. QED
    BY <1>0, <2>2, <2>3, <2>6, <2>7 DEF FiniteInv
<1>4. CASE Expire \/ UNCHANGED vars
  <2>1. UNCHANGED <<marker, proc, task>>
    BY <1>4 DEF Expire, vars
  <2>2. QED
    BY <1>0, <2>1, SameTask, SameMemory DEF FiniteInv
<1>5. QED
  BY <1>0, <1>1, <1>2, <1>3, <1>4, CalmSteps DEF Next, Step

\* Every variable is of its type, a task runs in a process, and a lock always
\* finds a stamp that nobody remembers: times do not run out, and a process, a
\* task and the marker keep finitely many in mind.
THEOREM WorkerTyping ==
  ASSUME IsFiniteSet(Processes), ~IsFiniteSet(Stamps)
  PROVE  Spec => []WorkerTypeOK
<1>1. Init => FiniteInv
  <2> SUFFICES ASSUME Init PROVE FiniteInv
    OBVIOUS
  <2>1. marker = {} /\ \A p \in Processes : task[p] = None /\ proc[p] = None
    BY DEF Init
  <2>2. QED
    BY <2>1, InitTypeInv, FS_EmptySet DEF FiniteInv, Goals, Old, Active, Failed
<1>2. FiniteInv /\ [Next]_vars => FiniteInv'
  BY NextFiniteInv
<1>3. FiniteInv => WorkerTypeOK
  <2> SUFFICES ASSUME FiniteInv PROVE WorkerTypeOK
    OBVIOUS
  <2>1. IsFiniteSet(Used)
    BY FiniteUsed
  <2>2. Stamps \ Used # {}
    <3>1. Stamps \ Used = {} => Stamps \in SUBSET Used
      OBVIOUS
    <3>2. QED
      BY <2>1, <3>1, FS_Subset, Zenon
  <2>3. QED
    BY <2>2 DEF WorkerTypeOK, FiniteInv, TypeInv
<1>4. QED
  BY <1>1, <1>2, <1>3, PTL DEF Spec

-----------------------------------------------------------------------------
(***************************************************************************)
(* The marker.                                                             *)
(***************************************************************************)

\* A step of p leaves the others what they have, and no new lock has a stamp
\* that somebody is after.
LEMMA Alone ==
  ASSUME TypeInv, NEW p \in Processes, NEW q \in Processes, q # p,
         Start(p) \/ Exit(p) \/ Crash(p) \/ NewSource(p) \/ ResetFails(p) \/ Step(p)
  PROVE  /\ task'[q] = task[q] /\ proc'[q] = proc[q]
         /\ flock' = q <=> flock = q
         /\ flock = q => marker' = marker
         /\ lock' # None => lock' = lock \/ lock'.stamp \notin Goals(q)
<1>0. Typed /\ None \notin Processes
  BY CrawlAssumption DEF TypeInv
<1>1. task'[q] = task[q]
  BY Begun
<1>2. proc'[q] = proc[q]
  BY <1>0 DEF Typed, Start, Exit, Crash, NewSource, ResetFails, Step, Interrupt, StartRun, Reset, Book,
    Open, Unavailable, Note, Unlock, UnlockFails, RateLimit, RateLimitFails, Closed, EndScan, Cancel, Finish
<1>3. flock' = q <=> flock = q
  <2>1. CASE Exit(p) \/ Crash(p)
    <3>1. flock' = IF flock = p THEN None ELSE flock
      BY <2>1 DEF Exit, Crash
    <3>2. QED
      BY <1>0, <3>1
  <2>2. CASE NewSource(p)
    <3>1. flock' = flock \/ (flock = None /\ flock' = p)
      BY <2>2 DEF NewSource
    <3>2. QED
      BY <1>0, <3>1
  <2>3. CASE Start(p) \/ ResetFails(p) \/ Step(p)
    BY <2>3 DEF Start, ResetFails, Step, Interrupt, StartRun, Reset, Book, Open, Unavailable, Note, Unlock,
      UnlockFails, RateLimit, RateLimitFails, Closed, EndScan, Cancel, Finish
  <2>4. QED
    BY <2>1, <2>2, <2>3
<1>4. flock = q => marker' = marker
  BY DEF WriteMarker, Start, Exit, Crash, NewSource, ResetFails, Step, Interrupt, StartRun, Reset, Book,
    Open, Unavailable, Note, Unlock, UnlockFails, RateLimit, RateLimitFails, Closed, EndScan, Cancel, Finish
<1>5. ASSUME lock' # None
      PROVE  lock' = lock \/ lock'.stamp \notin Goals(q)
  <2>1. CASE Open(p) \/ RateLimit(p)
    <3>1. PICK s \in Stamps : Unused(s) /\ \E limited : lock' = [stamp |-> s, limited |-> limited]
      BY <2>1, OpenEffect, LimitEffect
    <3>2. QED
      BY <3>1 DEF Unused
  <2>2. CASE Note(p)
    BY <2>2 DEF Note
  <2>3. CASE ~(Open(p) \/ Note(p) \/ RateLimit(p))
    <3>1. Calm
      BY <2>3, CalmSteps DEF Step
    <3>2. QED
      BY <1>5, <3>1 DEF Calm
  <2>4. QED
    BY <2>1, <2>2, <2>3
<1>6. QED
  BY <1>1, <1>2, <1>3, <1>4, <1>5

\* So their part of the marker is kept.
LEMMA OthersKeep ==
  ASSUME NEW q \in Processes, MarkOK(q), task'[q] = task[q], proc'[q] = proc[q],
         flock' = q <=> flock = q, flock = q => marker' = marker,
         lock' # None => lock' = lock \/ lock'.stamp \notin Goals(q)
  PROVE  MarkOK(q)'
<1>1. /\ Goals(q)' = Goals(q) /\ Active(q)' = Active(q) /\ Failed(q)' = Failed(q) /\ Old(q)' = Old(q)
  BY DEF Goals, Active, Failed, Old
<1>2. flock' = q => marker' = MarkerTargets(proc'[q])
  BY DEF MarkOK
<1>3. QED
  BY <1>1, <1>2 DEF MarkOK, At

\* A step of the task alone.
LEMMA TaskKeeps ==
  ASSUME NEW p \in Processes, MarkOK(p), NEW pc, NEW T, NEW x, Put(p, pc, T, x),
         UNCHANGED <<marker, flock, proc>>, task[p] # None, T \subseteq Goals(p),
         pc \in {"ready", "book"} => T # {},
         pc = "book" /\ lock' # None => lock'.stamp \notin T,
         pc \in Looking => T = Goals(p) /\ task[p].pc \in Looking
  PROVE  MarkOK(p)'
<1>1. task'[p] # None /\ task'[p].pc = pc /\ Goals(p)' = T
  BY DEF Put, Goals
<1>2. /\ Active(p)' = Active(p) /\ Failed(p)' = Failed(p) /\ Old(p)' = Old(p) /\ proc' = proc
      /\ flock' = flock /\ marker' = marker
  BY SameMemory
<1>3. flock' = p => marker' = MarkerTargets(proc'[p])
  BY <1>2 DEF MarkOK
<1>4. QED
  BY <1>1, <1>2, <1>3 DEF MarkOK, At, Looking

\* A step that goes on from where the holder is not looking any more.
LEMMA HolderKeeps ==
  ASSUME Typed, NEW p \in Processes, flock = p, flock' = flock, NEW m \in Memory,
         proc' = [proc EXCEPT ![p] = m], WriteMarker(p, m),
         NEW pc, NEW T, NEW x, Put(p, pc, T, x), pc \notin Looking
  PROVE  MarkOK(p)'
<1>1. task'[p].pc = pc
  BY DEF Put
<1>2. flock' = p /\ marker' = MarkerTargets(m) /\ proc'[p] = m
  BY MemorySet DEF WriteMarker
<1>3. marker' = MarkerTargets(proc'[p])
  BY <1>2
<1>4. QED
  BY <1>1, <1>2, <1>3 DEF MarkOK, At, Looking

\* The process that steps keeps its own part.
LEMMA NextMarkOK ==
  ASSUME TypeInv, NEW p \in Processes, MarkOK(p),
         Start(p) \/ Exit(p) \/ Crash(p) \/ NewSource(p) \/ ResetFails(p) \/ Step(p)
  PROVE  MarkOK(p)'
<1>0. /\ Typed /\ None \notin Processes /\ task \in [Processes -> Task \cup {None}]
      /\ proc \in [Processes -> Memory \cup {None}]
      /\ task[p] # None => task[p].targets = Goals(p)
  BY CrawlAssumption DEF TypeInv, Typed, Goals
<1>1. CASE Start(p)
  <2>1. /\ task' = task /\ task[p] = None /\ flock' = flock /\ flock # p
        /\ \E m \in Memory : /\ m.active = {} /\ m.failed = {} /\ ~m.consumed
                             /\ proc' = [proc EXCEPT ![p] = m]
    BY <1>1, StartEffect DEF Start
  <2>2. PICK m \in Memory : /\ m.active = {} /\ m.failed = {} /\ ~m.consumed
                            /\ proc' = [proc EXCEPT ![p] = m]
    BY <2>1
  <2>3. Active(p)' = {} /\ Failed(p)' = {} /\ ~proc'[p].consumed
    BY <1>0, <2>2, MemoryStamps, MemorySet
  <2>4. Goals(p)' = {}
    BY <2>1 DEF Goals
  <2>5. QED
    BY <2>1, <2>3, <2>4 DEF MarkOK, At
<1>2. CASE Exit(p) \/ Crash(p) \/ Finish(p)
  <2>1. task'[p] = None
    BY <1>0, <1>2 DEF Exit, Crash, Finish
  <2>2. CASE Exit(p) \/ Crash(p)
    <3>1. proc'[p] = None /\ flock' # p
      BY <1>0, <2>2 DEF Exit, Crash
    <3>2. QED
      BY <2>1, <3>1 DEF MarkOK, At, Goals, Active, Failed
  <2>3. CASE Finish(p)
    <3>1. UNCHANGED <<flock, marker, proc>>
      BY <2>3 DEF Finish
    <3>2. flock' = p => marker' = MarkerTargets(proc'[p])
      BY <3>1 DEF MarkOK
    <3>3. QED
      BY <2>1, <3>1, <3>2, SameMemory DEF MarkOK, At, Goals
  <2>4. QED
    BY <1>2, <2>2, <2>3
<1>3. CASE NewSource(p)
  <2>1. UNCHANGED <<lock, marker>> /\ proc[p] # None /\ task[p] = None /\ proc[p] \in Memory
    BY <1>3, SourceEffect DEF NewSource
  <2>2. CASE /\ flock = p /\ UNCHANGED <<flock, proc>>
             /\ Put(p, "interrupt",
                    (IF proc[p].consumed THEN {} ELSE proc[p].targets) \cup proc[p].failed, None)
    <3> DEFINE T == (IF proc[p].consumed THEN {} ELSE proc[p].targets) \cup proc[p].failed
    <3>1. task'[p].pc = "interrupt" /\ task'[p] # None /\ Goals(p)' = T
      BY <2>2 DEF Put, Goals
    <3>2. Old(p)' = proc[p].targets /\ proc'[p].consumed = proc[p].consumed /\ flock' = p
      BY <2>1, <2>2 DEF Old
    <3>3. marker' = MarkerTargets(proc'[p])
      BY <2>1, <2>2 DEF MarkOK
    <3>4. ~proc[p].consumed => Old(p)' \subseteq T
      BY <3>2
    <3> HIDE DEF T
    <3>5. QED
      BY <3>1, <3>2, <3>3, <3>4 DEF MarkOK, At
  <2>3. CASE /\ flock = None /\ flock' = p
             /\ \E m \in Memory :
                  /\ m.targets = marker /\ m.consumed = proc[p].consumed
                  /\ m.active = proc[p].active /\ m.failed = proc[p].failed
                  /\ proc' = [proc EXCEPT ![p] = m]
             /\ Put(p, "interrupt", marker \cup proc[p].failed, None)
    <3>1. PICK m \in Memory :
            /\ m.targets = marker /\ m.consumed = proc[p].consumed
            /\ m.active = proc[p].active /\ proc' = [proc EXCEPT ![p] = m]
      BY <2>3
    <3>2. proc[p].active = {} /\ ~proc[p].consumed
      BY <1>0, <2>1, <2>3 DEF MarkOK, Active
    <3>3. proc'[p] = m /\ Old(p)' = marker
      BY <1>0, <3>1, MemorySet, MemoryStamps
    <3>4. marker' = MarkerTargets(proc'[p])
      BY <2>1, <3>1, <3>2, <3>3 DEF MarkerTargets
    <3>5. task'[p].pc = "interrupt" /\ Goals(p)' = marker \cup proc[p].failed
      BY <2>3 DEF Put, Goals
    <3>6. QED
      BY <2>3, <3>3, <3>4, <3>5 DEF MarkOK, At
  <2>4. CASE /\ flock \notin {p, None} /\ UNCHANGED <<flock, proc>>
             /\ Put(p, "interrupt", proc[p].failed, None)
    <3>1. proc[p].failed = {} /\ Active(p) = {} /\ Failed(p) = {} /\ ~proc[p].consumed
      BY <2>1, <2>4 DEF MarkOK, Active, Failed
    <3>2. task'[p].pc = "interrupt" /\ Goals(p)' = {}
      BY <2>4, <3>1 DEF Put, Goals
    <3>3. Active(p)' = {} /\ Failed(p)' = {}
      BY <2>4, <3>1, SameMemory
    <3>4. QED
      BY <2>4, <3>1, <3>2, <3>3 DEF MarkOK, At
  <2>5. QED
    BY <1>3, <2>2, <2>3, <2>4, SourceEffect
<1>4. CASE Interrupt(p) \/ StartRun(p) \/ Reset(p)
  <2>1. /\ task[p] # None /\ task[p].pc \in Looking /\ UNCHANGED <<marker, flock, proc>>
    BY <1>4 DEF Interrupt, StartRun, Reset, At, Looking
  <2>2. CASE Interrupt(p)
    <3>1. Put(p, "insert", Goals(p), None)
      BY <1>0, <2>1, <2>2, TaskEffects
    <3>2. QED
      BY <2>1, <3>1, TaskKeeps
  <2>3. CASE StartRun(p)
    <3>1. CASE Put(p, "scan", {}, None)
      BY <2>1, <3>1, TaskKeeps DEF Looking
    <3>2. CASE Put(p, "ready", task[p].targets, None)
      <4>1. task[p].targets # {}
        <5>1. Scan(p) => Put(p, "scan", {}, task[p].ctx)
          BY <1>0, <2>1, Dropped DEF Scan, Steps, WithoutRequest
        <5>2. ~Scan(p)
          BY <3>2, <5>1 DEF Put
        <5>3. QED
          BY <2>3, <5>2 DEF StartRun
      <4>2. QED
        BY <1>0, <2>1, <3>2, <4>1, TaskKeeps
    <3>3. QED
      BY <2>3, <3>1, <3>2, TaskEffects
  <2>4. CASE Reset(p)
    <3>1. Put(p, "book", Goals(p), None) /\ lock' = Cleared(Goals(p))
      BY <1>0, <2>1, <2>4, TaskEffects DEF Reset
    <3>2. lock' # None => lock'.stamp \notin Goals(p)
      BY <3>1 DEF Cleared
    <3>3. Goals(p) # {}
      BY <2>4 DEF Reset, MarkOK
    <3>4. QED
      BY <2>1, <3>1, <3>2, <3>3, TaskKeeps
  <2>5. QED
    BY <1>4, <2>2, <2>3, <2>4
<1>5. CASE \/ ResetFails(p) \/ Unavailable(p) \/ EndScan(p) \/ Cancel(p) \/ Open(p) \/ Unlock(p)
           \/ UnlockFails(p) \/ RateLimit(p) \/ RateLimitFails(p)
  <2>1. task[p] # None /\ UNCHANGED <<marker, flock, proc>>
    BY <1>5 DEF ResetFails, Unavailable, EndScan, Cancel, Open, Unlock, UnlockFails, RateLimit,
      RateLimitFails, At
  <2>2. \E pc \in {"finish", "opened", "closing"}, T \in {Goals(p), {}} : \E x : Put(p, pc, T, x)
    BY <1>0, <1>5, <2>1, TaskEffects, OpenEffect
  <2>3. QED
    BY <2>1, <2>2, TaskKeeps DEF Looking
<1>6. CASE Book(p)
  <2>1. Put(p, "scan", {}, None) /\ flock' = flock
    BY <1>6, TaskEffects DEF Book
  <2>2. flock = p
    BY <1>6 DEF Book, MarkOK
  <2>3. PICK m \in Memory : proc' = [proc EXCEPT ![p] = m] /\ WriteMarker(p, m)
    BY <1>6, BookEffect
  <2>4. QED
    BY <1>0, <2>1, <2>2, <2>3, HolderKeeps DEF Looking
<1>7. CASE Note(p)
  <2> DEFINE m == [proc[p] EXCEPT !.active = @ \cup {task[p].ctx}]
  <2>1. /\ m \in Memory /\ proc' = (IF flock = p THEN [proc EXCEPT ![p] = m] ELSE proc)
        /\ WriteMarker(p, m) /\ Put(p, "request", Goals(p), task[p].ctx)
        /\ flock' = flock /\ task[p] # None
    BY <1>0, <1>7, NoteEffect DEF Note, At
  <2> HIDE DEF m
  <2>2. CASE flock = p
    <3>1. proc' = [proc EXCEPT ![p] = m] /\ "request" \notin Looking
      BY <2>1, <2>2 DEF Looking
    <3>2. QED
      BY <1>0, <2>1, <2>2, <3>1, HolderKeeps
  <2>3. CASE flock # p
    <3>1. UNCHANGED <<marker, flock, proc>>
      BY <2>1, <2>3 DEF WriteMarker
    <3>2. QED
      BY <2>1, <3>1, TaskKeeps DEF Looking
  <2>4. QED
    BY <2>2, <2>3
<1>8. CASE Closed(p)
  <2>1. flock' = flock /\ task[p] # None
    BY <1>8, ClosedEffect DEF Closed
  <2>2. PICK pc \in {"scan", "finish"} : Put(p, pc, Goals(p), None)
    BY <1>0, <1>8, <2>1, ClosedEffect
  <2>3. CASE UNCHANGED <<proc, marker>>
    BY <2>1, <2>2, <2>3, TaskKeeps DEF Looking
  <2>4. CASE flock = p /\ \E m \in Memory : proc' = [proc EXCEPT ![p] = m] /\ WriteMarker(p, m)
    <3>1. PICK m \in Memory : proc' = [proc EXCEPT ![p] = m] /\ WriteMarker(p, m)
      BY <2>4
    <3>2. QED
      BY <1>0, <2>1, <2>2, <2>4, <3>1, HolderKeeps DEF Looking
  <2>5. QED
    BY <1>8, <2>3, <2>4, ClosedEffect
<1>9. QED
  BY <1>1, <1>2, <1>3, <1>4, <1>5, <1>6, <1>7, <1>8 DEF Step

\* Every step keeps the marker in agreement with its holder.
LEMMA NextMarkInv == MarkInv /\ [Next]_vars => MarkInv'
<1> SUFFICES ASSUME MarkInv, [Next]_vars PROVE MarkInv'
  OBVIOUS
<1>0. StampInv /\ StampInv' /\ TypeInv
  BY NextStampInv DEF MarkInv, StampInv
<1>1. ASSUME NEW p \in Processes,
             Start(p) \/ Exit(p) \/ Crash(p) \/ NewSource(p) \/ ResetFails(p) \/ Step(p),
             NEW q \in Processes
      PROVE  MarkOK(q)'
  <2>1. CASE q = p
    BY <1>0, <1>1, <2>1, NextMarkOK DEF MarkInv
  <2>2. CASE q # p
    <3>1. /\ task'[q] = task[q] /\ proc'[q] = proc[q]
          /\ flock' = q <=> flock = q
          /\ flock = q => marker' = marker
          /\ lock' # None => lock' = lock \/ lock'.stamp \notin Goals(q)
      BY <1>0, <1>1, <2>2, Alone
    <3>2. QED
      BY <3>1, OthersKeep DEF MarkInv
  <2>3. QED
    BY <2>1, <2>2
<1>2. ASSUME Expire \/ UNCHANGED vars, NEW q \in Processes
      PROVE  MarkOK(q)'
  <2>1. /\ UNCHANGED <<marker, flock, proc, task>> /\ (lock' # None => lock' = lock)
    BY <1>2 DEF Expire, vars
  <2>2. QED
    BY <2>1, OthersKeep DEF MarkInv
<1>3. QED
  BY <1>0, <1>1, <1>2 DEF Next, MarkInv

\* A lost lock that is in the marker stays there: the holder crosses out a
\* stamp only after it has reset it or ended its own request.
LEMMA MarkerKeeps ==
  ASSUME MarkInv, NEW p \in Processes,
         Start(p) \/ Exit(p) \/ Crash(p) \/ NewSource(p) \/ ResetFails(p) \/ Step(p),
         lock # None, lock' = lock, lock.stamp \in marker, \A q \in Processes : Ctx(q) # lock.stamp
  PROVE  lock.stamp \in marker'
<1>0. TypeInv /\ Typed /\ proc \in [Processes -> Memory \cup {None}] /\ MarkOK(p)
  BY DEF MarkInv, StampInv, TypeInv, Typed
<1>1. flock = p => lock.stamp \in MarkerTargets(proc[p])
  BY <1>0 DEF MarkOK
<1>2. CASE Exit(p)
  BY <1>1, <1>2 DEF Exit, WriteMarker
<1>3. CASE Book(p)
  <2>1. PICK m \in Memory :
          m.active = proc[p].active \ task[p].targets /\ WriteMarker(p, m)
    BY <1>0, <1>3, BookEffect
  <2>2. task[p] # None /\ Goals(p) = task[p].targets /\ proc[p] # None
    BY <1>0, <1>3, TaskFacts DEF Book, At, Goals
  <2>3. lock.stamp \notin task[p].targets
    BY <1>0, <1>3, <2>2 DEF MarkOK, Book
  <2>4. CASE flock = p
    <3>1. lock.stamp \in proc[p].active \/ (~proc[p].consumed /\ lock.stamp \in proc[p].targets)
      BY <1>1, <2>4 DEF MarkerTargets
    <3>2. ~proc[p].consumed => proc[p].targets \subseteq task[p].targets
      BY <1>0, <1>3, <2>2, <2>4 DEF MarkOK, Book, At, Looking, Old
    <3>3. lock.stamp \in m.active
      BY <2>1, <2>3, <3>1, <3>2
    <3>4. QED
      BY <2>1, <2>4, <3>3 DEF WriteMarker, MarkerTargets
  <2>5. CASE flock # p
    BY <2>1, <2>5 DEF WriteMarker
  <2>6. QED
    BY <2>4, <2>5
<1>4. CASE Note(p)
  <2> DEFINE m == [proc[p] EXCEPT !.active = @ \cup {task[p].ctx}]
  <2>1. /\ m.targets = proc[p].targets /\ m.consumed = proc[p].consumed
        /\ m.active = proc[p].active \cup {task[p].ctx} /\ WriteMarker(p, m)
    BY <1>0, <1>4, NoteEffect
  <2> HIDE DEF m
  <2>2. QED
    BY <1>1, <2>1 DEF WriteMarker, MarkerTargets
<1>5. CASE Closed(p)
  <2>1. task[p].ctx # lock.stamp
    BY <1>0, <1>5, ClosedEffect DEF Ctx
  <2>2. CASE UNCHANGED <<proc, marker>>
    BY <2>2
  <2>3. CASE /\ flock = p
             /\ \E m \in Memory :
                  /\ m.targets = proc[p].targets
                  /\ \/ /\ m.active = proc[p].active /\ ~m.consumed
                     \/ /\ m.active = proc[p].active \ {task[p].ctx}
                        /\ m.consumed = proc[p].consumed
                  /\ WriteMarker(p, m)
    <3>1. PICK m \in Memory :
            /\ m.targets = proc[p].targets
            /\ \/ m.active = proc[p].active /\ ~m.consumed
               \/ m.active = proc[p].active \ {task[p].ctx} /\ m.consumed = proc[p].consumed
            /\ WriteMarker(p, m)
      BY <2>3
    <3>2. lock.stamp \in MarkerTargets(m)
      BY <1>1, <2>1, <2>3, <3>1 DEF MarkerTargets
    <3>3. QED
      BY <2>3, <3>1, <3>2 DEF WriteMarker
  <2>4. QED
    BY <1>0, <1>5, <2>2, <2>3, ClosedEffect
<1>6. CASE \/ Start(p) \/ Crash(p) \/ NewSource(p) \/ ResetFails(p) \/ Interrupt(p) \/ StartRun(p)
           \/ Reset(p) \/ Open(p) \/ Unavailable(p) \/ Unlock(p) \/ UnlockFails(p) \/ RateLimit(p)
           \/ RateLimitFails(p) \/ EndScan(p) \/ Cancel(p) \/ Finish(p)
  BY <1>6 DEF Start, Crash, NewSource, ResetFails, Interrupt, StartRun, Reset, Open, Unavailable, Unlock,
    UnlockFails, RateLimit, RateLimitFails, EndScan, Cancel, Finish
<1>7. QED
  BY <1>2, <1>3, <1>4, <1>5, <1>6 DEF Step

\* Every step keeps the record of a lock that is lost.
LEMMA RecordedStays ==
  ASSUME MarkInv, MarkInv', Next, Recorded, lock' = lock
  PROVE  Recorded'
<1>0. StampInv /\ TypeInv /\ TypeInv' /\ lock # None /\ lock.stamp \in marker
  BY DEF MarkInv, StampInv, Recorded
<1>1. lock.stamp # None /\ ~lock.limited /\ ~Live(lock.stamp)
  BY <1>0, Kind DEF Recorded
<1>2. \A q \in Processes : Ctx(q) # lock.stamp
  BY <1>1, LiveCtx
<1>3. ASSUME NEW p \in Processes,
             Start(p) \/ Exit(p) \/ Crash(p) \/ NewSource(p) \/ ResetFails(p) \/ Step(p)
      PROVE  Recorded'
  <2>1. lock.stamp \in marker'
    BY <1>0, <1>2, <1>3, MarkerKeeps
  <2>2. ~Open(p)
    BY <1>0 DEF Open
  <2>3. ~RateLimit(p)
    BY <1>0, LimitEffect DEF Unused
  <2>4. \A q \in Processes : Ctx(q)' \in {Ctx(q), None}
    <3>1. CASE Note(p)
      <4>1. Put(p, "request", task[p].targets, task[p].ctx) /\ task[p] # None
        BY <1>0, <3>1, NoteEffect DEF Note, At
      <4>2. QED
        BY <4>1, PutStamps DEF Ctx
    <3>2. CASE ~Note(p)
      <4>1. Calm
        BY <1>0, <1>3, <2>2, <2>3, <3>2, CalmSteps DEF Step
      <4>2. QED
        BY <4>1 DEF Calm
    <3>3. QED
      BY <3>1, <3>2
  <2>5. ~Live(lock.stamp)'
    BY <1>1, <1>2, <2>4 DEF Live, Ctx
  <2>6. Account' = [stamp |-> lock.stamp, kind |-> "lost"]
    BY <1>0, <1>1, <2>5, KindNext
  <2>7. QED
    BY <1>0, <2>1, <2>6 DEF Recorded
<1>4. CASE Expire
  BY <1>0, <1>4 DEF Expire
<1>5. QED
  BY <1>3, <1>4 DEF Next

\* A lost lock that the marker names stays named for as long as it is there:
\* until somebody has reset it, every exit, every successor and every recovery
\* that fails hands it on (_session_marker_targets, _ensure_ready, source.py).
THEOREM WorkerRecord == Spec => RecordedIsKept
<1>1. Init => MarkInv
  <2> SUFFICES ASSUME Init PROVE MarkInv
    OBVIOUS
  <2>1. flock = None /\ None \notin Processes /\ \A p \in Processes : task[p] = None /\ proc[p] = None
    BY CrawlAssumption DEF Init
  <2>2. QED
    BY <2>1, InitStampInv DEF MarkInv, MarkOK, At, Goals, Active, Failed
<1>2. MarkInv /\ [Next]_vars => MarkInv'
  BY NextMarkInv
<1>3. MarkInv /\ MarkInv' /\ [Next]_vars => [Recorded /\ lock' = lock => Recorded']_vars
  BY RecordedStays
<1>4. QED
  BY <1>1, <1>2, <1>3, PTL DEF Spec, RecordedIsKept
=============================================================================
