----------------------- MODULE ScheduleDispatchProofs -----------------------
(***************************************************************************)
(* ScheduleDispatch for any number of executions, accounts and restarts    *)
(* and any interval, lease and clock.  What needs a lease that lasts, that *)
(* is one dispatcher and the spacing, is proved under Timely: without it   *)
(* the code does not promise them (the time of a dispatch is written       *)
(* whoever owns the lease by then).                                        *)
(***************************************************************************)
EXTENDS ScheduleDispatch, TLAPS

\* Only an execution that has an account left queues one.
CountOK == \A r \in Runs : At(r, "enqueue") => run[r].left > 0

DInv == TypeOK /\ CountOK

\* Who believes to own the lease does, and it has not run out.
HoldersOwn == \A r \in Runs : Holding(r) => lease = r /\ now < expires

\* What an execution found out about the last dispatch is still true.
CheckedIsTrue ==
  \A r \in Runs :
    /\ At(r, "first") => last = Never
    /\ run[r].pc \in {"renew", "enqueue"} => last = Never \/ Due(r)

\* The inductive invariant of OneDispatcher and of the spacing.
OwnInv == DInv /\ HoldersOwn /\ CheckedIsTrue

-----------------------------------------------------------------------------
\* The constants are numbers.
LEMMA Numbers ==
  /\ Accounts \in Nat /\ Interval \in Nat /\ Tolerance \in Nat
  /\ MaxTime \in Nat /\ MaxRestarts \in Nat /\ LeaseTime \in Nat /\ LeaseTime > 0
BY DispatchAssumption

\* Replacing what one execution does keeps the types if the new content is
\* right.
LEMMA RunSet ==
  ASSUME run \in [Runs -> Run], CountOK, NEW r \in Runs, NEW b \in Run,
         b.pc = "enqueue" => b.left > 0, run' = [run EXCEPT ![r] = b]
  PROVE  run' \in [Runs -> Run] /\ CountOK'
BY DEF CountOK, At

\* Moving on does.
LEMMA GotoOK ==
  ASSUME run \in [Runs -> Run], CountOK, NEW r \in Runs, NEW pc \in PC, Goto(r, pc),
         pc = "enqueue" => run[r].left > 0
  PROVE  run' \in [Runs -> Run] /\ CountOK'
<1> DEFINE b == [run[r] EXCEPT !.pc = pc]
<1>1. b \in Run /\ b.pc = pc /\ b.left = run[r].left
  BY DEF Run
<1>2. run' = [run EXCEPT ![r] = b]
  BY DEF Goto
<1> HIDE DEF b
<1>3. QED
  BY <1>1, <1>2, RunSet

\* So does giving up or starting again.
LEMMA AgainOK ==
  ASSUME run \in [Runs -> Run], CountOK, NEW r \in Runs, Again(r)
  PROVE  run' \in [Runs -> Run] /\ CountOK'
<1> DEFINE fresh == [pc |-> "new", start |-> 0, left |-> 0, restarts |-> run[r].restarts + 1]
           over == [run[r] EXCEPT !.pc = "done"]
<1>1. over \in Run /\ over.pc = "done"
  BY DEF Run, PC
<1>2. run[r].restarts < MaxRestarts => fresh \in Run
  BY Numbers DEF Run, PC
<1>3. fresh.pc = "new"
  OBVIOUS
<1>4. run' = [run EXCEPT ![r] = IF run[r].restarts < MaxRestarts THEN fresh ELSE over]
  BY DEF Again
<1> HIDE DEF fresh, over
<1>5. QED
  BY <1>1, <1>2, <1>3, <1>4, RunSet

\* Every step keeps the types and the count of accounts.
LEMMA NextDInv == DInv /\ [Next]_vars => DInv'
<1> SUFFICES ASSUME DInv, [Next]_vars PROVE DInv'
  OBVIOUS
<1> USE Numbers DEF DInv, TypeOK
<1>0. {"new", "begin", "check", "first", "renew", "enqueue", "commit", "release",
       "abort", "done"} = PC
  BY DEF PC
<1>1. CASE Tick
  BY <1>1 DEF Tick, CountOK, At
<1>2. ASSUME NEW r \in Runs, RunNext(r) \/ Crash(r)
      PROVE  DInv'
  <2>1. CASE Start(r)
    <3> DEFINE b == [run[r] EXCEPT !.pc = "begin", !.start = now]
    <3>1. b \in Run /\ b.pc = "begin"
      BY DEF Run, PC
    <3>2. run' = [run EXCEPT ![r] = b]
      BY <2>1 DEF Start
    <3> HIDE DEF b
    <3>3. QED
      BY <2>1, <3>1, <3>2, RunSet DEF Start
  <2>2. CASE Begin(r)
    BY <2>2, <1>0, GotoOK, AgainOK DEF Begin, Acquire
  <2>3. ASSUME Dispatching(r)
        PROVE  run' \in [Runs -> Run] /\ CountOK'
    <3> DEFINE b == [run[r] EXCEPT !.pc = "renew", !.left = Accounts]
    <3>0. Accounts \in 0 .. Accounts /\ "renew" \in PC
      BY DEF PC
    <3>1. b \in Run /\ b.pc = "renew"
      BY <3>0 DEF Run
    <3>2. run' = [run EXCEPT ![r] = b]
      BY <2>3 DEF Dispatching
    <3> HIDE DEF b
    <3>3. QED
      BY <3>1, <3>2, RunSet
  <2>4. CASE Check(r)
    <3>1. \/ Dispatching(r)
          \/ \E pc \in {"first", "release", "abort"} : Goto(r, pc)
      BY <2>4 DEF Check, Raise
    <3>2. run' \in [Runs -> Run] /\ CountOK'
      BY <3>1, <2>3, <1>0, GotoOK
    <3>3. QED
      BY <2>4, <3>2 DEF Check
  <2>5. CASE First(r)
    <3>1. run[r].start \in 0 .. MaxTime
      BY DEF Run
    <3>2. QED
      BY <2>5, <3>1, <1>0, GotoOK DEF First, Raise
  <2>6. CASE Renew(r)
    BY <2>6, <1>0, GotoOK DEF Renew, Raise
  <2>7. CASE Enqueue(r)
    <3>1. CASE run' = [run EXCEPT ![r].pc = "renew", ![r].left = @ - 1]
      <4> DEFINE b == [run[r] EXCEPT !.pc = "renew", !.left = @ - 1]
      <4>0. run[r].left \in 0 .. Accounts /\ "renew" \in PC
        BY DEF Run, PC
      <4>1. run[r].left - 1 \in 0 .. Accounts
        BY <2>7, <4>0 DEF Enqueue, CountOK
      <4>2. b \in Run /\ b.pc = "renew"
        BY <4>0, <4>1 DEF Run
      <4>3. run' = [run EXCEPT ![r] = b]
        BY <3>1
      <4> HIDE DEF b
      <4>4. QED
        BY <2>7, <4>2, <4>3, RunSet DEF Enqueue
    <3>2. QED
      BY <2>7, <3>1, <1>0, GotoOK DEF Enqueue, Raise
  <2>8. CASE Commit(r)
    <3>1. run[r].start \in 0 .. MaxTime
      BY DEF Run
    <3>2. QED
      BY <2>8, <3>1, <1>0, GotoOK DEF Commit, Raise
  <2>9. CASE Release(r)
    <3>1. run' \in [Runs -> Run] /\ CountOK'
      BY <2>9, <1>0, GotoOK, AgainOK DEF Release
    <3>2. QED
      BY <2>9, <3>1 DEF Release
  <2>10. CASE Crash(r)
    BY <2>10, AgainOK DEF Crash
  <2>11. QED
    BY <1>2, <2>1, <2>2, <2>4, <2>5, <2>6, <2>7, <2>8, <2>9, <2>10 DEF RunNext
<1>3. CASE UNCHANGED vars
  BY <1>3 DEF vars, CountOK, At
<1>4. QED
  BY <1>1, <1>2, <1>3 DEF Next

\* The initial state is of the types.
LEMMA InitDInv == Init => DInv
BY Numbers DEF Init, DInv, TypeOK, Run, PC, CountOK, At

\* Type correctness, for every number of executions and restarts.
THEOREM DispatchTyping == Spec => []TypeOK
<1>1. DInv => TypeOK
  BY DEF DInv
<1>2. QED
  BY <1>1, InitDInv, NextDInv, PTL DEF Spec

-----------------------------------------------------------------------------
\* What the steps of an execution do to the execution itself and to others.
LEMMA Step ==
  ASSUME DInv, NEW r \in Runs
  PROVE  /\ \A s \in Runs : run[s] \in Run
         /\ RunNext(r) \/ Crash(r) => \A s \in Runs : s # r => run'[s] = run[s]
         /\ \A pc : Goto(r, pc) => run'[r].pc = pc /\ run'[r].start = run[r].start
         /\ Again(r) => run'[r].pc \in {"new", "done"}
<1> USE DEF DInv, TypeOK
<1>1. \A s \in Runs : run[s] \in Run
  OBVIOUS
<1>2. \A pc : Goto(r, pc) => run'[r].pc = pc /\ run'[r].start = run[r].start
  BY DEF Goto, Run
<1>3. Again(r) => run'[r].pc \in {"new", "done"}
  BY DEF Again, Run
<1>4. RunNext(r) \/ Crash(r) => \A s \in Runs : s # r => run'[s] = run[s]
  BY DEF RunNext, Crash, Start, Begin, Check, First, Renew, Enqueue, Commit, Release,
         Goto, Again, Raise, Dispatching
<1>5. QED
  BY <1>1, <1>2, <1>3, <1>4

\* An execution that moves to a point where it holds nothing, while the lease,
\* its end and the last time stay or only the execution's own lease is given
\* up, leaves the others right.
LEMMA LetGo ==
  ASSUME OwnInv, NEW r \in Runs, RunNext(r) \/ Crash(r),
         run'[r].pc \in {"new", "begin", "release", "abort", "done"},
         now' = now, expires' = expires, last' = last,
         lease' = lease \/ (lease = r /\ ~Holding(r))
  PROVE  HoldersOwn' /\ CheckedIsTrue'
<1>1. \A s \in Runs : s # r => run'[s] = run[s]
  BY Step DEF OwnInv
<1>2. ~Holding(r)'
  BY DEF Holding
<1>3. HoldersOwn'
  BY <1>1, <1>2 DEF OwnInv, HoldersOwn, Holding
<1>4. CheckedIsTrue'
  BY <1>1 DEF OwnInv, CheckedIsTrue, At, Due
<1>5. QED
  BY <1>3, <1>4

\* Nobody but its owner acts under a lease.
LEMMA OnlyHolder ==
  ASSUME OwnInv, NEW r \in Runs, lease = r \/ Holding(r)
  PROVE  \A s \in Runs : s # r => ~Holding(s)
BY DEF OwnInv, HoldersOwn

\* What an execution does under its lease leaves everything right if it is
\* right about itself: nobody else relies on the last time.
LEMMA OwnerStep ==
  ASSUME OwnInv, NEW r \in Runs, RunNext(r), Holding(r),
         UNCHANGED <<now, lease>>, now < expires',
         At(r, "first")' => last' = Never,
         run'[r].pc \in {"renew", "enqueue"} => last' = Never \/ Due(r)'
  PROVE  HoldersOwn' /\ CheckedIsTrue'
<1>1. \A s \in Runs : s # r => run'[s] = run[s] /\ ~Holding(s)
  BY Step, OnlyHolder DEF OwnInv
<1>2. lease = r
  BY DEF OwnInv, HoldersOwn
<1>3. HoldersOwn'
  BY <1>1, <1>2 DEF HoldersOwn, Holding
<1>4. CheckedIsTrue'
  BY <1>1 DEF CheckedIsTrue, Holding, At
<1>5. QED
  BY <1>3, <1>4

\* Every step of an execution keeps the invariant.
LEMMA RunOwnInv ==
  ASSUME OwnInv, NEW r \in Runs, RunNext(r) \/ Crash(r)
  PROVE  HoldersOwn' /\ CheckedIsTrue'
<1>t. DInv /\ run[r] \in Run /\ now \in Nat /\ expires \in Nat
  BY Numbers DEF OwnInv, DInv, TypeOK
<1>o. Holding(r) => lease = r /\ now < expires
  BY DEF OwnInv, HoldersOwn
<1>1. CASE Start(r)
  <2>1. run'[r].pc = "begin"
    BY <1>1, <1>t DEF Start, DInv, TypeOK, Run
  <2>2. now' = now /\ expires' = expires /\ last' = last /\ lease' = lease
    BY <1>1 DEF Start
  <2>3. QED
    BY <2>1, <2>2, LetGo
<1>2. CASE Begin(r)
  <2>1. CASE lease = NoRun
    <3>1. \A s \in Runs : ~Holding(s)
      BY <2>1, DispatchAssumption DEF OwnInv, HoldersOwn
    <3>2. run'[r].pc = "check" /\ lease' = r /\ expires' = now + LeaseTime /\ UNCHANGED <<now, last>>
      BY <1>2, <1>t, <2>1, Step DEF Begin, Acquire
    <3>3. \A s \in Runs : s # r => run'[s] = run[s]
      BY <1>t, Step
    <3>4. now < expires'
      BY <3>2, <1>t, Numbers
    <3>5. QED
      BY <3>1, <3>2, <3>3, <3>4 DEF HoldersOwn, CheckedIsTrue, Holding, At
  <2>2. CASE lease # NoRun
    <3>1. run'[r].pc \in {"new", "done"}
      BY <1>2, <1>t, <2>2, Step DEF Begin
    <3>2. now' = now /\ expires' = expires /\ last' = last /\ lease' = lease
      BY <1>2, <2>2 DEF Begin
    <3>3. QED
      BY <3>1, <3>2, LetGo
  <2>3. QED
    BY <2>1, <2>2
<1>3. CASE Check(r)
  <2>1. Holding(r)
    BY <1>3 DEF Check, At, Holding
  <2>2. Dispatching(r) => run'[r].pc = "renew" /\ run'[r].start = run[r].start
    BY <1>t DEF Dispatching, DInv, TypeOK, Run
  <2>3. \/ Dispatching(r) /\ (last = Never \/ Due(r))
        \/ Goto(r, "first") /\ last = Never
        \/ Goto(r, "release") \/ Goto(r, "abort")
    BY <1>3 DEF Check, Raise
  <2>4. UNCHANGED <<now, lease, expires, last>>
    BY <1>3 DEF Check
  <2>5. At(r, "first")' => last' = Never
    BY <1>t, <2>2, <2>3, <2>4, Step DEF At
  <2>6. run'[r].pc \in {"renew", "enqueue"} => last' = Never \/ Due(r)'
    BY <1>t, <2>2, <2>3, <2>4, Step DEF Due
  <2>7. QED
    BY <1>3, <1>o, <2>1, <2>4, <2>5, <2>6, OwnerStep DEF RunNext
<1>4. CASE First(r)
  <2>1. Holding(r)
    BY <1>4 DEF First, At, Holding
  <2>2. run'[r].pc \in {"release", "abort"}
    BY <1>4, <1>t, Step DEF First, Raise
  <2>3. QED
    BY <1>4, <1>o, <2>1, <2>2, OwnerStep DEF First, RunNext, At
<1>5. CASE Renew(r)
  <2>1. Holding(r) /\ (last = Never \/ Due(r))
    BY <1>5 DEF Renew, At, Holding, OwnInv, CheckedIsTrue
  <2>2. run'[r].pc \in {"enqueue", "abort"} /\ run'[r].start = run[r].start
    BY <1>5, <1>t, Step DEF Renew, Raise
  <2>3. now < expires'
    BY <1>5, <1>o, <1>t, <2>1, Numbers DEF Renew
  <2>4. QED
    BY <1>5, <1>o, <2>1, <2>2, <2>3, OwnerStep DEF Renew, RunNext, At, Due
<1>6. CASE Enqueue(r)
  <2>1. Holding(r) /\ (last = Never \/ Due(r))
    BY <1>6 DEF Enqueue, At, Holding, OwnInv, CheckedIsTrue
  <2>2. run'[r].pc \in {"renew", "abort"} /\ run'[r].start = run[r].start
    BY <1>6, <1>t, Step DEF Enqueue, Raise, DInv, TypeOK, Run
  <2>3. QED
    BY <1>6, <1>o, <2>1, <2>2, OwnerStep DEF Enqueue, RunNext, At, Due
<1>7. CASE Commit(r)
  <2>1. Holding(r)
    BY <1>7 DEF Commit, At, Holding
  <2>2. run'[r].pc \in {"release", "abort"}
    BY <1>7, <1>t, Step DEF Commit, Raise
  <2>3. QED
    BY <1>7, <1>o, <2>1, <2>2, OwnerStep DEF Commit, RunNext, At
<1>8. CASE Release(r)
  <2>1. run'[r].pc \in {"new", "done"} /\ ~Holding(r)
    BY <1>8, <1>t, Step DEF Release, At, Holding
  <2>2. QED
    BY <1>8, <2>1, LetGo DEF Release
<1>9. CASE Crash(r)
  <2>1. run'[r].pc \in {"new", "done"}
    BY <1>9, <1>t, Step DEF Crash
  <2>2. now' = now /\ expires' = expires /\ last' = last /\ lease' = lease
    BY <1>9 DEF Crash
  <2>3. QED
    BY <2>1, <2>2, LetGo
<1>10. QED
  BY <1>1, <1>2, <1>3, <1>4, <1>5, <1>6, <1>7, <1>8, <1>9 DEF RunNext

\* So does the clock, which stops for no holder.
LEMMA NextOwnInv == Timely /\ OwnInv /\ [Next]_vars => OwnInv'
<1> SUFFICES ASSUME Timely, OwnInv, [Next]_vars PROVE OwnInv'
  OBVIOUS
<1>1. DInv'
  BY NextDInv DEF OwnInv
<1>2. CASE Tick
  <2>1. now' = now + 1 /\ now \in Nat /\ expires \in Nat
    BY <1>2, Numbers DEF Tick, OwnInv, DInv, TypeOK
  <2>2. HoldersOwn'
    BY <1>2, <2>1 DEF Tick, OwnInv, HoldersOwn, Holding
  <2>3. CheckedIsTrue'
    BY <1>2 DEF Tick, OwnInv, CheckedIsTrue, At, Due
  <2>4. QED
    BY <1>1, <2>2, <2>3 DEF OwnInv
<1>3. CASE UNCHANGED vars
  BY <1>1, <1>3 DEF vars, OwnInv, HoldersOwn, CheckedIsTrue, Holding, At, Due
<1>4. QED
  BY <1>1, <1>2, <1>3, RunOwnInv DEF Next, OwnInv

\* Initially nobody holds the lease.
LEMMA InitOwnInv == Init => OwnInv
BY InitDInv DEF Init, OwnInv, HoldersOwn, CheckedIsTrue, Holding, At

\* At most one execution queues synchronisations at a time, however many there
\* are and however often they crash and are delivered again.
THEOREM DispatchIsSerialised ==
  ASSUME Timely
  PROVE  Spec => []OneDispatcher
<1>1. OwnInv => OneDispatcher
  BY DEF OwnInv, HoldersOwn, OneDispatcher, Holding
<1>2. QED
  BY <1>1, InitOwnInv, NextOwnInv, PTL DEF Spec

\* A dispatch is written only by an execution that found the interval over,
\* and nobody else wrote one in between.
LEMMA StepSpaced == OwnInv /\ [Next]_vars => SpacedStep \/ UNCHANGED vars
<1> SUFFICES ASSUME OwnInv, [Next]_vars PROVE SpacedStep \/ UNCHANGED vars
  OBVIOUS
<1>1. ASSUME NEW r \in Runs, Commit(r)
      PROVE  SpacedStep
  BY <1>1 DEF Commit, At, OwnInv, CheckedIsTrue, Due, SpacedStep
<1>2. ASSUME NEW r \in Runs, First(r)
      PROVE  SpacedStep
  BY <1>2 DEF First, OwnInv, CheckedIsTrue, SpacedStep
<1>3. ASSUME NEW r \in Runs,
             \/ Start(r) \/ Begin(r) \/ Check(r) \/ Renew(r) \/ Enqueue(r)
             \/ Release(r) \/ Crash(r)
      PROVE  UNCHANGED last
  BY <1>3 DEF Start, Begin, Check, Renew, Enqueue, Release, Crash
<1>4. Tick => UNCHANGED last
  BY DEF Tick
<1>5. QED
  BY <1>1, <1>2, <1>3, <1>4 DEF Next, RunNext, SpacedStep

\* Two dispatches are an interval apart, whatever restarts in between.
THEOREM DispatchSpacing ==
  ASSUME Timely
  PROVE  Spec => DispatchesAreSpaced
<1>1. OwnInv /\ [Next]_vars => [SpacedStep]_vars
  BY StepSpaced
<1>2. QED
  BY <1>1, InitOwnInv, NextOwnInv, PTL DEF Spec, DispatchesAreSpaced

\* Only the end of the owner or the clock removes a lease, stalled executions
\* included: this needs no assumption on how long they stall.
LEMMA StepOwned == DInv /\ [Next]_vars => LeaseStep
<1> SUFFICES ASSUME DInv, [Next]_vars, lease \in Runs, lease' # lease
             PROVE  \/ now' # now /\ lease' = NoRun
                    \/ run[lease].pc \in {"release", "abort"} /\ run'[lease] # run[lease]
  BY DEF LeaseStep
<1>1. CASE Tick
  BY <1>1, Numbers DEF Tick, DInv, TypeOK
<1>2. ASSUME NEW r \in Runs, Release(r)
      PROVE  run[lease].pc \in {"release", "abort"} /\ run'[lease] # run[lease]
  <2>1. lease = r /\ run[r].pc \in {"release", "abort"}
    BY <1>2 DEF Release, At
  <2>2. run'[r].pc \in {"new", "done"}
    BY <1>2, Step DEF Release
  <2>3. QED
    BY <2>1, <2>2
<1>3. ASSUME NEW r \in Runs,
             \/ Start(r) \/ Begin(r) \/ Check(r) \/ First(r) \/ Renew(r) \/ Enqueue(r)
             \/ Commit(r) \/ Crash(r)
      PROVE  FALSE
  BY <1>3, DispatchAssumption
     DEF Start, Begin, Check, First, Renew, Enqueue, Commit, Crash
<1>4. QED
  BY <1>1, <1>2, <1>3 DEF Next, RunNext, vars

\* An execution that gives up the lease takes it from nobody else: what ends the
\* lease is its time or its owner (the scripts of schedule_enabled_accounts_task).
THEOREM DispatchLease == Spec => LeaseIsOwned
<1>1. DInv /\ [Next]_vars => [LeaseStep]_vars
  BY StepOwned
<1>2. QED
  BY <1>1, InitDInv, NextDInv, PTL DEF Spec, LeaseIsOwned
=============================================================================
