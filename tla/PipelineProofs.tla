--------------------------- MODULE PipelineProofs ---------------------------
(***************************************************************************)
(* Theorems about the pipeline, for every set of runs, every definition    *)
(* (through Walk), every number of overlapping ticks and workers and every *)
(* bound: types, row locks, runs that are over, one delivery per send,     *)
(* stored dispositions, the refinement of RunLifecycle and inline writes.  *)
(*                                                                         *)
(* LockProtectsRun carries the rest: what a transaction read under its     *)
(* run's lock still holds when it commits.                                 *)
(***************************************************************************)
EXTENDS Pipeline, FiniteSetTheorems, TLAPS

-----------------------------------------------------------------------------
(* Facts about the store.                                                  *)

LEMMA JobIdsFinite == IsFiniteSet(JobIds)
<1>1. IsFiniteSet(External)
  BY StoreAssumption, FS_Subset DEF External
<1>2. IsFiniteSet(1..MaxGen)
  BY StoreAssumption, FS_Interval
<1>3. IsFiniteSet(Runs \X External)
  BY <1>1, StoreAssumption, FS_Product
<1>4. IsFiniteSet((Runs \X External) \X (1..MaxGen))
  BY <1>2, <1>3, FS_Product
<1> DEFINE flat == [p \in (Runs \X External) \X (1..MaxGen) |-> <<p[1][1], p[1][2], p[2]>>]
<1>5. ASSUME NEW j \in JobIds
      PROVE  \E p \in (Runs \X External) \X (1..MaxGen) : flat[p] = j
  <2>1. <<<<j[1], j[2]>>, j[3]>> \in (Runs \X External) \X (1..MaxGen)
    BY DEF JobIds
  <2>2. flat[<<<<j[1], j[2]>>, j[3]>>] = j
    BY <2>1 DEF JobIds
  <2> QED BY <2>1, <2>2
<1>6. flat \in Surjection((Runs \X External) \X (1..MaxGen), JobIds)
  BY <1>5 DEF Surjection, JobIds
<1> QED BY <1>4, <1>6, FS_Surjection

LEMMA CountIsNat == ASSUME NEW S \in SUBSET JobIds PROVE Cardinality(S) \in Nat
BY JobIdsFinite, FS_Subset, FS_CardinalityType

LEMMA JobIdParts ==
  ASSUME NEW j \in JobIds
  PROVE  /\ RunOf(j) \in Runs
         /\ ActionOf(j) \in External
         /\ j = <<j[1], j[2], j[3]>>
BY DEF JobIds, RunOf, ActionOf

LEMMA FailedTryType == ASSUME NEW job \in Job PROVE FailedTry(job) \in Job
BY DEF FailedTry, Job

LEMMA InsertedType ==
  ASSUME NEW r, NEW actions PROVE Inserted(r, actions) \subseteq JobIds
BY DEF Inserted

LEMMA FailedRow == ASSUME NEW row \in Row PROVE [row EXCEPT !.status = "failed"] \in Row
BY DEF Row

LEMMA UpdateType ==
  ASSUME NEW S, NEW T, NEW f \in [S -> T], NEW x, NEW v, x \in S => v \in T
  PROVE  [f EXCEPT ![x] = v] \in [S -> T]
OBVIOUS

-----------------------------------------------------------------------------
(* Types.                                                                  *)

LEMMA InitTypeOK == Init => TypeOK
BY StoreAssumption, WalkAssumption
   DEF Init, StoreInit, SchedulerInit, HandlersInit, TypeOK, StoreTypeOK,
       SchedulerTypeOK, HandlersTypeOK, Row, AbsentRow, Job, FreeJob, Tick,
       IdleTick, Worker, IdleWorker

LEMMA AdvancedType ==
  ASSUME NEW row \in Row, NEW w \in WalkResult, w.status # "throws",
         NEW new \in SUBSET JobIds
  PROVE  Advanced(row, w, new) \in Row
<1>1. OfKind(new, "place_call") \in Nat /\ OfKind(new, "send_wa") \in Nat
  BY CountIsNat DEF OfKind
<1>2. row.voice + OfKind(new, "place_call") \in Nat
  BY <1>1 DEF Row
<1>3. row.whatsapp + OfKind(new, "send_wa") \in Nat
  BY <1>1 DEF Row
<1> QED BY <1>2, <1>3 DEF Advanced, Row, WalkResult

LEMMA ChargedType == ASSUME NEW row \in Row PROVE Charged(row) \in Row
<1>1. row.errs + 1 \in Nat
  BY DEF Row
<1>2. CASE row.errs + 1 >= MaxApplyFailures
  BY <1>1, <1>2 DEF Charged, Row
<1>3. CASE ~(row.errs + 1 >= MaxApplyFailures)
  BY <1>1, <1>3 DEF Charged, Row
<1> QED BY <1>2, <1>3

LEMMA NextRunType ==
  ASSUME ticks \in [Ticks -> Tick], NEW t, NextRun(t)
  PROVE  ticks' \in [Ticks -> Tick]
BY DEF NextRun, Tick

LEMMA ReleaseType ==
  ASSUME StoreTypeOK, NEW r, Release(r)
  PROVE  lock' \in [Runs -> Agents \cup {NoAgent}]
BY DEF StoreTypeOK, Release

\* What one step of the scheduler leaves of the types, one conjunct per variable.
LEMMA SchedulerStepTypes ==
  ASSUME runs' \in [Runs -> Row],
         lock' \in [Runs -> Agents \cup {NoAgent}],
         jobs' \in [JobIds -> Job],
         faults' \in Nat,
         ticks' \in [Ticks -> Tick],
         written' \in [Runs \X Inline -> Nat],
         HandlersTypeOK, UNCHANGED handlerVars
  PROVE  TypeOK'
BY DEF TypeOK, StoreTypeOK, SchedulerTypeOK, HandlersTypeOK, handlerVars

LEMMA FaultType == ASSUME StoreTypeOK, Fault PROVE faults' \in Nat
BY DEF StoreTypeOK, Fault

LEMMA RollBackType ==
  ASSUME TypeOK, NEW t \in Ticks, RollBack(t), faults' \in Nat,
         UNCHANGED handlerVars
  PROVE  TypeOK'
<1> USE DEF RollBack, TypeOK, StoreTypeOK, SchedulerTypeOK
<1>1. ticks' \in [Ticks -> Tick] BY DEF Tick
<1>2. lock' \in [Runs -> Agents \cup {NoAgent}] BY ReleaseType
<1> QED BY <1>1, <1>2, SchedulerStepTypes

LEMMA TickApplyType ==
  ASSUME TypeOK, NEW t \in Ticks, TickApply(t), UNCHANGED handlerVars
  PROVE  TypeOK'
<1> USE DEF TypeOK, StoreTypeOK, SchedulerTypeOK
<1> DEFINE r == ticks[t].run
           w == Walk[<<runs[r].step, runs[r].disp>>]
           new == Inserted(r, w.actions)
<1>1. runs' \in [Runs -> Row]
  <2>1. CASE r \in Runs
    <3>1. w \in WalkResult /\ w.status # "throws"
      <4>1. runs[r].step \in Steps /\ runs[r].disp \in Disps \cup {NoDisp}
        BY <2>1 DEF Row
      <4>2. w \in WalkResult
        BY <4>1, WalkAssumption
      <4> QED BY <4>2 DEF TickApply
    <3>2. Advanced(runs[r], w, new) \in Row
      BY <2>1, <3>1, InsertedType, AdvancedType
    <3>3. runs' = [runs EXCEPT ![r] = Advanced(runs[r], w, new)]
      BY DEF TickApply
    <3> HIDE DEF w, new
    <3> QED BY <2>1, <3>2, <3>3
  <2>2. CASE r \notin Runs
    BY <2>2 DEF TickApply
  <2> QED BY <2>1, <2>2
<1>2. jobs' \in [JobIds -> Job]
  BY DEF TickApply, NewJob, FreeJob, Job
<1>3. ticks' \in [Ticks -> Tick]
  BY NextRunType DEF TickApply
<1>4. lock' \in [Runs -> Agents \cup {NoAgent}]
  BY ReleaseType DEF TickApply
<1>5. written' \in [Runs \X Inline -> Nat]
  <2> DEFINE f(x) == IF x[1] = r /\ x[2] \in w.actions THEN written[x] + 1 ELSE written[x]
  <2>1. \A x \in Runs \X Inline : f(x) \in Nat
    <3> HIDE DEF w, r
    <3> QED OBVIOUS
  <2>2. written' = [x \in Runs \X Inline |-> f(x)]
    BY DEF TickApply
  <2> HIDE DEF f
  <2> QED BY <2>1, <2>2
<1>6. faults' \in Nat
  BY DEF TickApply
<1> QED BY <1>1, <1>2, <1>3, <1>4, <1>5, <1>6, SchedulerStepTypes

\* Every step of the scheduler keeps the types.
LEMMA SchedulerTypes ==
  ASSUME TypeOK, SchedulerNext, UNCHANGED handlerVars PROVE TypeOK'
<1> USE DEF TypeOK, StoreTypeOK, SchedulerTypeOK
<1>1. ASSUME NEW r \in Runs, StartRun(r) PROVE TypeOK'
  <2> DEFINE row == [runs[r] EXCEPT !.status = "pending", !.wake = "due"]
  <2>1. row \in Row BY DEF Row
  <2>2. runs' = [runs EXCEPT ![r] = row] BY <1>1, Zenon DEF StartRun
  <2> HIDE DEF row
  <2>3. runs' \in [Runs -> Row] BY <2>1, <2>2, UpdateType
  <2> QED BY <1>1, <2>3, SchedulerStepTypes DEF StartRun, schedulerVars
<1>2. ASSUME NEW r \in Runs, Elapse(r) PROVE TypeOK'
  <2>1. [runs[r] EXCEPT !.wake = "due"] \in Row BY DEF Row
  <2>2. runs' = [runs EXCEPT ![r] = [runs[r] EXCEPT !.wake = "due"]] BY <1>2 DEF Elapse
  <2>3. runs' \in [Runs -> Row] BY <2>1, <2>2, UpdateType
  <2> QED BY <1>2, <2>3, SchedulerStepTypes DEF Elapse, schedulerVars
<1>3. ASSUME NEW t \in Ticks, TickStart(t) PROVE TypeOK'
  <2>1. ticks' \in [Ticks -> Tick] BY <1>3 DEF TickStart, Tick
  <2> QED BY <1>3, <2>1, SchedulerStepTypes DEF TickStart
<1>4. ASSUME NEW t \in Ticks, NEW r \in Runs, TickLock(t, r) PROVE TypeOK'
  <2>1. ticks' \in [Ticks -> Tick] BY <1>4 DEF TickLock, Tick
  <2>2. lock' \in [Runs -> Agents \cup {NoAgent}] BY <1>4 DEF TickLock, Agents
  <2> QED BY <1>4, <2>1, <2>2, SchedulerStepTypes DEF TickLock
<1>5. ASSUME NEW t \in Ticks, NEW r \in Runs, TickSkip(t, r) PROVE TypeOK'
  <2>1. ticks' \in [Ticks -> Tick] BY <1>5 DEF TickSkip, Tick
  <2> QED BY <1>5, <2>1, SchedulerStepTypes DEF TickSkip
<1>6. ASSUME NEW t \in Ticks, TickDeadLetter(t) PROVE TypeOK'
  <2>1. runs' \in [Runs -> Row]
    <3> DEFINE r == ticks[t].run
               row == [runs[r] EXCEPT !.status = "failed"]
    <3>1. runs' = [runs EXCEPT ![r] = row]
      BY <1>6, Zenon DEF TickDeadLetter
    <3>2. r \in Runs => row \in Row
      <4> HIDE DEF r
      <4>1. r \in Runs => runs[r] \in Row OBVIOUS
      <4> QED BY <4>1, FailedRow
    <3> HIDE DEF r, row
    <3> QED BY <3>1, <3>2, UpdateType
  <2>2. ticks' \in [Ticks -> Tick] BY <1>6, NextRunType DEF TickDeadLetter
  <2>3. lock' \in [Runs -> Agents \cup {NoAgent}]
    BY <1>6, ReleaseType DEF TickDeadLetter
  <2> QED BY <1>6, <2>1, <2>2, <2>3, SchedulerStepTypes DEF TickDeadLetter
<1>7. ASSUME NEW t \in Ticks, TickApply(t) PROVE TypeOK'
  BY <1>7, TickApplyType
<1>8. ASSUME NEW t \in Ticks, TickAbort(t) \/ TickPoisoned(t) PROVE TypeOK'
  <2>1. RollBack(t) /\ faults' \in Nat
    BY <1>8, FaultType DEF TickAbort, TickPoisoned
  <2> QED BY <2>1, RollBackType
<1>9. ASSUME NEW t \in Ticks, TickRecord(t) PROVE TypeOK'
  <2>1. runs' \in [Runs -> Row] BY <1>9, ChargedType DEF TickRecord
  <2>2. ticks' \in [Ticks -> Tick] BY <1>9, NextRunType DEF TickRecord
  <2> QED BY <1>9, <2>1, <2>2, SchedulerStepTypes DEF TickRecord
<1>10. ASSUME NEW t \in Ticks, TickRecordSkip(t) PROVE TypeOK'
  <2>1. ticks' \in [Ticks -> Tick] BY <1>10, NextRunType DEF TickRecordSkip
  <2> QED BY <1>10, <2>1, SchedulerStepTypes DEF TickRecordSkip
<1>11. ASSUME NEW t \in Ticks, TickRecordFails(t) PROVE TypeOK'
  <2>1. ticks' \in [Ticks -> Tick] BY <1>11, NextRunType DEF TickRecordFails
  <2>2. faults' \in Nat BY <1>11, FaultType DEF TickRecordFails
  <2> QED BY <1>11, <2>1, <2>2, SchedulerStepTypes DEF TickRecordFails
<1>12. ASSUME NEW t \in Ticks, TickCrash(t) PROVE TypeOK'
  <2>1. ticks' \in [Ticks -> Tick] BY <1>12 DEF TickCrash, Tick, IdleTick
  <2>2. faults' \in Nat BY <1>12, FaultType DEF TickCrash
  <2>3. lock' \in [Runs -> Agents \cup {NoAgent}] BY <1>12 DEF TickCrash
  <2> QED BY <1>12, <2>1, <2>2, <2>3, SchedulerStepTypes DEF TickCrash
<1> QED
  BY <1>1, <1>2, <1>3, <1>4, <1>5, <1>6, <1>7, <1>8, <1>9, <1>10, <1>11, <1>12
     DEF SchedulerNext, TickStep, TickFault

\* What a step of a handler or of pg-boss leaves of the types.
LEMMA HandlerStepTypes ==
  ASSUME runs' \in [Runs -> Row],
         lock' \in [Runs -> Agents \cup {NoAgent}],
         jobs' \in [JobIds -> Job],
         faults' \in Nat,
         workers' \in [Workers -> Worker],
         markers' \subseteq Runs \X External,
         reviews' \subseteq Runs,
         SchedulerTypeOK, UNCHANGED schedulerVars
  PROVE  TypeOK'
BY DEF TypeOK, StoreTypeOK, SchedulerTypeOK, HandlersTypeOK, schedulerVars

LEMMA GotoType ==
  ASSUME workers \in [Workers -> Worker], NEW w \in Workers, workers[w].pc # "idle",
         NEW pc \in {"sent", "done"}, Goto(w, pc)
  PROVE  workers' \in [Workers -> Worker]
BY DEF Goto, Worker, IdleWorker

LEMMA FailJobType ==
  ASSUME StoreTypeOK, reviews \subseteq Runs, NEW j \in JobIds, FailJob(j)
  PROVE  jobs' \in [JobIds -> Job] /\ reviews' \subseteq Runs
<1>1. RunOf(j) \in Runs
  BY JobIdParts
<1>2. FailedTry(jobs[j]) \in Job
  BY FailedTryType DEF StoreTypeOK
<1> QED BY <1>1, <1>2 DEF FailJob, StoreTypeOK

LEMMA BusyWorker ==
  ASSUME HandlersTypeOK, NEW w \in Workers, workers[w].pc # "idle"
  PROVE  workers[w].job \in JobIds
BY DEF HandlersTypeOK, Worker, IdleWorker

LEMMA FreeLocksType ==
  ASSUME StoreTypeOK, NEW a,
         lock' = [r \in Runs |-> IF lock[r] = a THEN NoAgent ELSE lock[r]]
  PROVE  lock' \in [Runs -> Agents \cup {NoAgent}]
BY DEF StoreTypeOK

LEMMA RowsType ==
  ASSUME jobs \in [JobIds -> Job], NEW j \in JobIds
  PROVE  [jobs EXCEPT ![j].rows = @ + 1] \in [JobIds -> Job]
<1>1. jobs[j].rows + 1 \in Nat
  BY DEF Job
<1> QED BY <1>1 DEF Job

LEMMA FetchedType == ASSUME NEW job \in Job PROVE Fetched(job) \in Job
<1> DEFINE n == job.tries + 1
<1>1. n \in Nat
  BY DEF Job
<1> HIDE DEF n
<1>2. [job EXCEPT !.state = "active", !.tries = n] \in Job
  BY <1>1 DEF Job
<1> QED BY <1>2 DEF Fetched, n

\* Every step of a handler or of pg-boss keeps the types.
LEMMA HandlerTypes ==
  ASSUME TypeOK, HandlersNext, UNCHANGED schedulerVars PROVE TypeOK'
<1> USE DEF TypeOK, StoreTypeOK, HandlersTypeOK
<1>1. ASSUME NEW w \in Workers, NEW j \in JobIds, Fetch(w, j) PROVE TypeOK'
  <2>1. jobs[j].tries + 1 \in Nat BY DEF Job
  <2>2. jobs' \in [JobIds -> Job] BY <1>1, FetchedType DEF Fetch
  <2>3. workers' \in [Workers -> Worker] BY <1>1, <2>1 DEF Fetch, Worker
  <2> QED BY <1>1, <2>2, <2>3, HandlerStepTypes DEF Fetch
<1>2. ASSUME NEW w \in Workers, PlaceCallReturn(w) \/ SendWaReturn(w) PROVE TypeOK'
  <2>1. workers' \in [Workers -> Worker]
    BY <1>2, GotoType DEF PlaceCallReturn, SendWaReturn
  <2> QED BY <1>2, <2>1, HandlerStepTypes DEF PlaceCallReturn, SendWaReturn
<1>3. ASSUME NEW w \in Workers, PlaceCallDial(w) \/ SendWaSend(w) PROVE TypeOK'
  <2>1. workers' \in [Workers -> Worker]
    BY <1>3, GotoType DEF PlaceCallDial, SendWaSend
  <2>2. lock' \in [Runs -> Agents \cup {NoAgent}]
    BY <1>3 DEF PlaceCallDial, SendWaSend, Agents
  <2>3. jobs' \in [JobIds -> Job]
    BY <1>3 DEF PlaceCallDial, SendWaSend, Job
  <2> QED BY <1>3, <2>1, <2>2, <2>3, HandlerStepTypes DEF PlaceCallDial, SendWaSend
<1>4. ASSUME NEW w \in Workers, NEW d \in Disps, PlaceCallFold(w, d) PROVE TypeOK'
  <2>1. workers' \in [Workers -> Worker]
    BY <1>4, GotoType DEF PlaceCallFold
  <2>2. lock' \in [Runs -> Agents \cup {NoAgent}]
    BY <1>4 DEF PlaceCallFold
  <2>3. jobs' \in [JobIds -> Job]
    BY <1>4, BusyWorker, RowsType DEF PlaceCallFold
  <2>4. runs' \in [Runs -> Row]
    <3> DEFINE r == RunAt(w)
               row == [runs[r] EXCEPT !.disp = d, !.status = "waiting", !.wake = "due"]
    <3>1. runs' = [runs EXCEPT ![r] = row] BY <1>4 DEF PlaceCallFold
    <3>2. r \in Runs => row \in Row BY DEF Row
    <3> HIDE DEF r, row
    <3> QED BY <3>1, <3>2, UpdateType
  <2> QED BY <1>4, <2>1, <2>2, <2>3, <2>4, HandlerStepTypes DEF PlaceCallFold
<1>5. ASSUME NEW w \in Workers, SendWaCommit(w) PROVE TypeOK'
  <2>1. workers' \in [Workers -> Worker]
    BY <1>5, GotoType DEF SendWaCommit
  <2>2. lock' \in [Runs -> Agents \cup {NoAgent}]
    BY <1>5 DEF SendWaCommit
  <2>3. jobs' \in [JobIds -> Job]
    BY <1>5, BusyWorker, RowsType DEF SendWaCommit
  <2>4. markers' \subseteq Runs \X External
    <3>1. workers[w].job \in JobIds BY <1>5, BusyWorker DEF SendWaCommit
    <3>2. Key(workers[w].job) \in Runs \X External BY <3>1 DEF Key, JobIds
    <3> QED BY <1>5, <3>2 DEF SendWaCommit
  <2> QED BY <1>5, <2>1, <2>2, <2>3, <2>4, HandlerStepTypes DEF SendWaCommit
<1>6. ASSUME NEW w \in Workers, Finish(w) PROVE TypeOK'
  <2>1. workers' \in [Workers -> Worker] BY <1>6 DEF Finish, Worker
  <2>2. jobs' \in [JobIds -> Job] BY <1>6 DEF Finish, Job
  <2> QED BY <1>6, <2>1, <2>2, HandlerStepTypes DEF Finish
<1>7. ASSUME NEW w \in Workers, Throw(w) PROVE TypeOK'
  <2>1. workers' \in [Workers -> Worker] BY <1>7 DEF Throw, Worker
  <2>2. lock' \in [Runs -> Agents \cup {NoAgent}] BY <1>7, FreeLocksType DEF Throw
  <2>3. faults' \in Nat BY <1>7, FaultType DEF Throw
  <2>4. workers[w].job \in JobIds BY <1>7, BusyWorker DEF Throw
  <2>5. jobs' \in [JobIds -> Job] /\ reviews' \subseteq Runs
    <3>1. CASE Current(w) BY <1>7, <2>4, <3>1, FailJobType DEF Throw
    <3>2. CASE ~Current(w) BY <1>7, <3>2 DEF Throw
    <3> QED BY <3>1, <3>2
  <2> QED BY <1>7, <2>1, <2>2, <2>3, <2>5, HandlerStepTypes DEF Throw
<1>8. ASSUME NEW w \in Workers, WorkerCrash(w) PROVE TypeOK'
  <2>1. workers' \in [Workers -> Worker] BY <1>8 DEF WorkerCrash, Worker
  <2>2. lock' \in [Runs -> Agents \cup {NoAgent}]
    BY <1>8, FreeLocksType DEF WorkerCrash
  <2>3. faults' \in Nat BY <1>8, FaultType DEF WorkerCrash
  <2> QED BY <1>8, <2>1, <2>2, <2>3, HandlerStepTypes DEF WorkerCrash
<1>9. ASSUME NEW j \in JobIds, Expire(j) \/ ExpireSlow(j) PROVE TypeOK'
  <2>1. FailJob(j) /\ faults' \in Nat BY <1>9, FaultType DEF Expire, ExpireSlow
  <2>2. jobs' \in [JobIds -> Job] /\ reviews' \subseteq Runs BY <2>1, FailJobType
  <2> QED BY <1>9, <2>1, <2>2, HandlerStepTypes DEF Expire, ExpireSlow
<1> QED
  BY <1>1, <1>2, <1>3, <1>4, <1>5, <1>6, <1>7, <1>8, <1>9
     DEF HandlersNext, WorkerStep

LEMMA StutterTypes == ASSUME TypeOK, UNCHANGED vars PROVE TypeOK'
BY DEF vars, schedulerVars, handlerVars, TypeOK, StoreTypeOK, SchedulerTypeOK,
       HandlersTypeOK

LEMMA NextTypes == ASSUME TypeOK, [Next]_vars PROVE TypeOK'
BY SchedulerTypes, HandlerTypes, StutterTypes DEF Next

\* Whatever ticks, handlers and faults do, every row, job, tick and worker keeps
\* its shape; in particular no run gets a status or a disposition the code's
\* enums lack.
THEOREM TypeCorrect == Spec => []TypeOK
<1>1. Init => TypeOK BY InitTypeOK
<1>2. TypeOK /\ [Next]_vars => TypeOK' BY NextTypes
<1> QED BY <1>1, <1>2, PTL DEF Spec

-----------------------------------------------------------------------------
(* Row locks.  LockProtectsRun is inductive once the types are known: a    *)
(* transaction that writes a row either holds it, or takes one nobody      *)
(* holds, and no two holders have the same row.                            *)

LEMMA HolderIsAgent ==
  ASSUME NEW t \in Ticks, NEW w \in Workers
  PROVE  t # NoAgent /\ w # NoAgent /\ t # w
BY StoreAssumption DEF Agents

\* The run of a busy tick or worker is a run.
LEMMA HeldRuns ==
  ASSUME TypeOK
  PROVE  /\ \A t \in Ticks : ticks[t].pc = "locked" => ticks[t].run \in Runs
         /\ \A w \in Workers : workers[w].pc # "idle" => RunAt(w) \in Runs
<1>1. ASSUME NEW t \in Ticks, ticks[t].pc = "locked" PROVE ticks[t].run \in Runs
  BY <1>1 DEF TypeOK, SchedulerTypeOK, Tick
<1>2. ASSUME NEW w \in Workers, workers[w].pc # "idle" PROVE RunAt(w) \in Runs
  BY <1>2, BusyWorker, JobIdParts DEF TypeOK, RunAt
<1> QED BY <1>1, <1>2

\* A tick that leaves alone the rows others hold, and holds none itself when it
\* is done, breaks nobody's hold.
LEMMA TickLeaves ==
  ASSUME TypeOK, LockProtectsRun, UNCHANGED handlerVars, NEW t \in Ticks,
         ticks'[t].pc # "locked",
         \A u \in Ticks : u # t => ticks'[u] = ticks[u],
         \A q \in Runs : lock[q] # t /\ lock[q] # NoAgent =>
                            runs'[q] = runs[q] /\ lock'[q] = lock[q]
  PROVE  LockProtectsRun'
<1>1. ASSUME NEW u \in Ticks PROVE TickHolds(u)'
  <2>1. SUFFICES ASSUME u # t, ticks[u].pc = "locked" PROVE TickHolds(u)'
    BY DEF TickHolds
  <2>2. ticks[u].run \in Runs /\ lock[ticks[u].run] = u /\ u # NoAgent
    BY <2>1, HeldRuns, StoreAssumption DEF LockProtectsRun, TickHolds, Agents
  <2> QED BY <2>1, <2>2 DEF LockProtectsRun, TickHolds, IsDue
<1>2. ASSUME NEW w \in Workers PROVE WorkerHolds(w)'
  <2>1. SUFFICES ASSUME workers[w].pc = "sent" PROVE WorkerHolds(w)'
    BY DEF WorkerHolds, handlerVars
  <2>2. RunAt(w) \in Runs /\ lock[RunAt(w)] = w /\ w # NoAgent /\ w # t
    BY <2>1, HeldRuns, HolderIsAgent DEF LockProtectsRun, WorkerHolds
  <2> QED
    BY <2>1, <2>2 DEF LockProtectsRun, WorkerHolds, StaleCall, RunAt, Handling, handlerVars
<1> QED BY <1>1, <1>2 DEF LockProtectsRun

\* The same for a worker; the markers it writes are of a run it holds.
LEMMA WorkerLeaves ==
  ASSUME TypeOK, LockProtectsRun, UNCHANGED schedulerVars, NEW w \in Workers,
         workers'[w].pc # "sent",
         \A u \in Workers : u # w => workers'[u] = workers[u],
         \A q \in Runs : lock[q] # w /\ lock[q] # NoAgent =>
                            runs'[q] = runs[q] /\ lock'[q] = lock[q],
         \A k \in markers' : k \in markers \/ lock[k[1]] = w
  PROVE  LockProtectsRun'
<1>1. ASSUME NEW t \in Ticks PROVE TickHolds(t)'
  <2>1. SUFFICES ASSUME ticks[t].pc = "locked" PROVE TickHolds(t)'
    BY DEF TickHolds, schedulerVars
  <2>2. ticks[t].run \in Runs /\ lock[ticks[t].run] = t /\ t # NoAgent /\ t # w
    BY <2>1, HeldRuns, HolderIsAgent DEF LockProtectsRun, TickHolds
  <2> QED BY <2>1, <2>2 DEF LockProtectsRun, TickHolds, IsDue, schedulerVars
<1>2. ASSUME NEW u \in Workers PROVE WorkerHolds(u)'
  <2>1. SUFFICES ASSUME u # w, workers[u].pc = "sent" PROVE WorkerHolds(u)'
    BY DEF WorkerHolds
  <2>2. RunAt(u) \in Runs /\ lock[RunAt(u)] = u /\ u # NoAgent
    BY <2>1, HeldRuns, StoreAssumption DEF LockProtectsRun, WorkerHolds, Agents
  <2>3. workers'[u] = workers[u] /\ runs'[RunAt(u)] = runs[RunAt(u)]
        /\ lock'[RunAt(u)] = u
    BY <2>1, <2>2
  <2>4. Handling(u, "send_wa") => Key(workers[u].job) \notin markers'
    BY <2>1, <2>2 DEF LockProtectsRun, WorkerHolds, Key, RunAt, RunOf
  <2> QED
    BY <2>1, <2>2, <2>3, <2>4 DEF LockProtectsRun, WorkerHolds, StaleCall, RunAt, Handling
<1> QED BY <1>1, <1>2 DEF LockProtectsRun

\* A tick at the end of its transaction writes only the row it holds.
LEMMA TickReleases ==
  ASSUME TypeOK, LockProtectsRun, UNCHANGED handlerVars, NEW t \in Ticks,
         ticks[t].pc = "locked",
         ticks'[t].pc # "locked",
         \A u \in Ticks : u # t => ticks'[u] = ticks[u],
         \A q \in Runs : q # ticks[t].run =>
                            runs'[q] = runs[q] /\ lock'[q] = lock[q]
  PROVE  LockProtectsRun'
<1>1. lock[ticks[t].run] = t
  BY DEF LockProtectsRun, TickHolds
<1>2. \A q \in Runs : lock[q] # t /\ lock[q] # NoAgent =>
                         runs'[q] = runs[q] /\ lock'[q] = lock[q]
  BY <1>1
<1> QED BY <1>2, TickLeaves

LEMMA NextRunMoves ==
  ASSUME ticks \in [Ticks -> Tick], NEW t \in Ticks, NextRun(t)
  PROVE  /\ ticks'[t].pc = "scan"
         /\ \A u \in Ticks : u # t => ticks'[u] = ticks[u]
BY DEF NextRun, Tick

LEMMA SchedulerLocks ==
  ASSUME TypeOK, LockProtectsRun, SchedulerNext, UNCHANGED handlerVars
  PROVE  LockProtectsRun'
<1> USE DEF TypeOK, StoreTypeOK, SchedulerTypeOK
<1>1. ASSUME NEW r \in Runs, StartRun(r) \/ Elapse(r) PROVE LockProtectsRun'
  <2>1. CASE StartRun(r)
    BY <2>1 DEF StartRun, schedulerVars, Live, LockProtectsRun, TickHolds,
                WorkerHolds, IsDue, StaleCall, Handling, RunAt, handlerVars
  <2>2. CASE Elapse(r)
    BY <2>2 DEF Elapse, schedulerVars, LockProtectsRun, TickHolds, WorkerHolds,
                IsDue, StaleCall, Handling, RunAt, handlerVars
  <2> QED BY <1>1, <2>1, <2>2
<1>2. ASSUME NEW t \in Ticks, TickStart(t) PROVE LockProtectsRun'
  BY <1>2, TickLeaves DEF TickStart, IdleTick
<1>3. ASSUME NEW t \in Ticks, NEW r \in Runs, TickLock(t, r) PROVE LockProtectsRun'
  BY <1>3, StoreAssumption
     DEF TickLock, Unlocked, LockProtectsRun, TickHolds, WorkerHolds, IsDue,
         StaleCall, Handling, RunAt, handlerVars, Agents
<1>4. ASSUME NEW t \in Ticks, NEW r \in Runs, TickSkip(t, r) PROVE LockProtectsRun'
  BY <1>4, TickLeaves DEF TickSkip
<1>6. ASSUME NEW t \in Ticks, TickDeadLetter(t) PROVE LockProtectsRun'
  BY <1>6, TickReleases, NextRunMoves DEF TickDeadLetter, Release
<1>7. ASSUME NEW t \in Ticks, TickApply(t) PROVE LockProtectsRun'
  <2>1. \A q \in Runs : q # ticks[t].run => runs'[q] = runs[q] /\ lock'[q] = lock[q]
    BY <1>7 DEF TickApply, Release
  <2>2. ticks[t].pc = "locked" /\ NextRun(t)
    BY <1>7 DEF TickApply
  <2> QED BY <2>1, <2>2, TickReleases, NextRunMoves
<1>8. ASSUME NEW t \in Ticks, TickAbort(t) \/ TickPoisoned(t) PROVE LockProtectsRun'
  <2>1. RollBack(t)
    BY <1>8 DEF TickAbort, TickPoisoned
  <2>2. \A q \in Runs : q # ticks[t].run => runs'[q] = runs[q] /\ lock'[q] = lock[q]
    BY <2>1 DEF RollBack, Release
  <2>3. /\ ticks[t].pc = "locked"
        /\ ticks'[t].pc = "rolledback"
        /\ \A u \in Ticks : u # t => ticks'[u] = ticks[u]
    BY <2>1 DEF RollBack, Tick
  <2> QED BY <2>2, <2>3, TickReleases
<1>9. ASSUME NEW t \in Ticks, TickRecord(t) PROVE LockProtectsRun'
  BY <1>9, TickLeaves DEF TickRecord, Unlocked, NextRun
<1>10. ASSUME NEW t \in Ticks, TickRecordSkip(t) \/ TickRecordFails(t)
       PROVE LockProtectsRun'
  BY <1>10, TickLeaves, NextRunMoves DEF TickRecordSkip, TickRecordFails
<1>11. ASSUME NEW t \in Ticks, TickCrash(t) PROVE LockProtectsRun'
  BY <1>11, TickLeaves DEF TickCrash, IdleTick
<1> QED
  BY <1>1, <1>2, <1>3, <1>4, <1>6, <1>7, <1>8, <1>9, <1>10, <1>11
     DEF SchedulerNext, TickStep, TickFault

LEMMA HandlerLocks ==
  ASSUME TypeOK, LockProtectsRun, HandlersNext, UNCHANGED schedulerVars
  PROVE  LockProtectsRun'
<1> USE DEF TypeOK, StoreTypeOK, HandlersTypeOK
<1>1. ASSUME NEW w \in Workers, NEW j \in JobIds, Fetch(w, j) PROVE LockProtectsRun'
  BY <1>1, WorkerLeaves DEF Fetch
<1>2. ASSUME NEW w \in Workers, PlaceCallReturn(w) \/ SendWaReturn(w)
      PROVE  LockProtectsRun'
  <2>1. Goto(w, "done") /\ UNCHANGED <<runs, lock, markers>>
    BY <1>2 DEF PlaceCallReturn, SendWaReturn
  <2>2. /\ workers'[w].pc = "done"
        /\ \A u \in Workers : u # w => workers'[u] = workers[u]
    BY <2>1 DEF Goto, Worker, IdleWorker
  <2> QED BY <2>1, <2>2, WorkerLeaves
<1>3. ASSUME NEW w \in Workers, PlaceCallDial(w) \/ SendWaSend(w)
      PROVE  LockProtectsRun'
  <2>1. /\ workers[w].pc = "fetched" /\ lock[RunAt(w)] = NoAgent
        /\ Goto(w, "sent") /\ lock' = [lock EXCEPT ![RunAt(w)] = w]
        /\ UNCHANGED <<runs, markers>>
    BY <1>3 DEF PlaceCallDial, SendWaSend, Unlocked
  <2>2. /\ workers'[w].pc = "sent" /\ workers'[w].job = workers[w].job
        /\ \A u \in Workers : u # w => workers'[u] = workers[u]
    BY <2>1 DEF Goto, Worker, IdleWorker
  <2>3. RunAt(w) \in Runs
    BY <2>1, HeldRuns
  <2>4. /\ Handling(w, "place_call") => ~StaleCall(RunAt(w))
        /\ Handling(w, "send_wa") => Key(workers[w].job) \notin markers
    BY <1>3 DEF PlaceCallDial, SendWaSend, Handling, Delivered
  <2>5. ASSUME NEW u \in Workers PROVE WorkerHolds(u)'
    <3>1. CASE u = w
      BY <2>1, <2>2, <2>3, <2>4, <3>1 DEF WorkerHolds, StaleCall, RunAt, Handling
    <3>2. CASE u # w
      <4>1. workers[u].pc = "sent" => RunAt(u) # RunAt(w)
        BY <2>1, StoreAssumption DEF LockProtectsRun, WorkerHolds, Agents
      <4> QED
        BY <2>1, <2>2, <3>2, <4>1
           DEF LockProtectsRun, WorkerHolds, StaleCall, RunAt, Handling
    <3> QED BY <3>1, <3>2
  <2>6. ASSUME NEW t \in Ticks PROVE TickHolds(t)'
    <3>1. ticks[t].pc = "locked" => ticks[t].run # RunAt(w)
      BY <2>1, StoreAssumption DEF LockProtectsRun, TickHolds, Agents
    <3> QED BY <2>1, <3>1 DEF LockProtectsRun, TickHolds, IsDue, schedulerVars
  <2> QED BY <2>5, <2>6 DEF LockProtectsRun
<1>4. ASSUME NEW w \in Workers, NEW d \in Disps, PlaceCallFold(w, d)
      PROVE  LockProtectsRun'
  <2>1. lock[RunAt(w)] = w
    BY <1>4 DEF PlaceCallFold, LockProtectsRun, WorkerHolds
  <2> QED BY <1>4, <2>1, WorkerLeaves DEF PlaceCallFold, Goto
<1>5. ASSUME NEW w \in Workers, SendWaCommit(w) PROVE LockProtectsRun'
  <2>1. lock[RunAt(w)] = w
    BY <1>5 DEF SendWaCommit, LockProtectsRun, WorkerHolds
  <2>2. \A k \in markers' : k \in markers \/ lock[k[1]] = w
    BY <1>5, <2>1 DEF SendWaCommit, Key, RunAt, RunOf
  <2> QED BY <1>5, <2>1, <2>2, WorkerLeaves DEF SendWaCommit, Goto
<1>6. ASSUME NEW w \in Workers, Finish(w) PROVE LockProtectsRun'
  BY <1>6, WorkerLeaves DEF Finish, IdleWorker
<1>7. ASSUME NEW w \in Workers, Throw(w) \/ WorkerCrash(w) PROVE LockProtectsRun'
  BY <1>7, WorkerLeaves DEF Throw, WorkerCrash, IdleWorker
<1>8. ASSUME NEW j \in JobIds, Expire(j) \/ ExpireSlow(j) PROVE LockProtectsRun'
  BY <1>8 DEF Expire, ExpireSlow, LockProtectsRun, TickHolds, WorkerHolds, IsDue,
              StaleCall, Handling, RunAt, schedulerVars
<1> QED
  BY <1>1, <1>2, <1>3, <1>4, <1>5, <1>6, <1>7, <1>8 DEF HandlersNext, WorkerStep

LEMMA StutterLocks == ASSUME LockProtectsRun, UNCHANGED vars PROVE LockProtectsRun'
BY DEF vars, schedulerVars, handlerVars, LockProtectsRun, TickHolds, WorkerHolds,
       IsDue, StaleCall, Handling, RunAt

LEMMA NextLocks ==
  ASSUME TypeOK, LockProtectsRun, [Next]_vars PROVE LockProtectsRun'
BY SchedulerLocks, HandlerLocks, StutterLocks DEF Next

LEMMA InitLocks == Init => LockProtectsRun
BY DEF Init, SchedulerInit, HandlersInit, IdleTick, IdleWorker, LockProtectsRun,
       TickHolds, WorkerHolds

\* No step of another tick, handler, crash or clock takes from a transaction what
\* it saw when it locked its run.
THEOREM LockCorrect == Spec => []LockProtectsRun
<1>1. Init => TypeOK /\ LockProtectsRun
  BY InitTypeOK, InitLocks
<1>2. TypeOK /\ LockProtectsRun /\ [Next]_vars => (TypeOK /\ LockProtectsRun)'
  BY NextTypes, NextLocks
<1> QED BY <1>1, <1>2, PTL DEF Spec

-----------------------------------------------------------------------------
(* A run that is over.                                                     *)

\* The steps that write a row: enrolment, the clock, a tick, a call's fold.
LEMMA OverIsFinal ==
  ASSUME TypeOK, LockProtectsRun, [Next]_vars,
         NEW r \in Runs, runs[r].status \in {"completed", "failed"}
  PROVE  runs'[r] = runs[r]
<1> USE DEF TypeOK, StoreTypeOK
<1>1. CASE UNCHANGED runs
  BY <1>1
<1>2. ASSUME NEW q \in Runs, StartRun(q) \/ Elapse(q) PROVE runs'[r] = runs[r]
  BY <1>2 DEF StartRun, Elapse, Live
<1>3. ASSUME NEW t \in Ticks, TickDeadLetter(t) \/ TickApply(t)
      PROVE  runs'[r] = runs[r]
  <2>1. ticks[t].pc = "locked"
    BY <1>3 DEF TickDeadLetter, TickApply
  <2>2. r # ticks[t].run
    BY <2>1 DEF LockProtectsRun, TickHolds, IsDue, Live
  <2> QED BY <1>3, <2>2 DEF TickDeadLetter, TickApply
<1>4. ASSUME NEW t \in Ticks, TickRecord(t) PROVE runs'[r] = runs[r]
  BY <1>4 DEF TickRecord, Live
<1>5. ASSUME NEW w \in Workers, NEW d \in Disps, PlaceCallFold(w, d)
      PROVE  runs'[r] = runs[r]
  <2>1. r # RunAt(w)
    BY <1>5 DEF PlaceCallFold, LockProtectsRun, WorkerHolds, StaleCall
  <2> QED BY <1>5, <2>1 DEF PlaceCallFold
<1>6. ASSUME SchedulerNext PROVE runs'[r] = runs[r]
  BY <1>1, <1>2, <1>3, <1>4, <1>6
     DEF SchedulerNext, TickStep, TickFault, TickStart, TickLock, TickSkip, TickAbort,
         TickPoisoned, RollBack, TickRecordSkip, TickRecordFails, TickCrash
<1>7. ASSUME HandlersNext PROVE runs'[r] = runs[r]
  BY <1>1, <1>5, <1>7
     DEF HandlersNext, WorkerStep, Fetch, PlaceCallReturn, PlaceCallDial, SendWaReturn,
         SendWaSend, SendWaCommit, Finish, Throw, WorkerCrash, Expire, ExpireSlow
<1> QED BY <1>1, <1>6, <1>7 DEF Next, vars

\* A completed or dead-lettered run is never written again, by a late call, a
\* retried job or a tick that enumerated it earlier.
THEOREM FinalCorrect == Spec => TerminalIsFinal
<1>1. Init => TypeOK /\ LockProtectsRun
  BY InitTypeOK, InitLocks
<1>2. TypeOK /\ LockProtectsRun /\ [Next]_vars => (TypeOK /\ LockProtectsRun)'
  BY NextTypes, NextLocks
<1> DEFINE Kept == \A r \in Runs : runs[r].status \in {"completed", "failed"} =>
                     runs'[r] = runs[r]
<1>3. TypeOK /\ LockProtectsRun /\ [Next]_vars => [Kept]_vars
  BY OverIsFinal
<1> QED BY <1>1, <1>2, <1>3, PTL DEF Spec, TerminalIsFinal

-----------------------------------------------------------------------------
(* One delivery per send.  The marker of a send is written with its first  *)
(* delivery and looked up under the row lock, so LockProtectsRun gives the *)
(* fact a commit needs: nobody has delivered this send since the lock.     *)

IsSend(j) == ActionOf(j).kind = "send_wa"

\* A step that delivers nothing keeps what is known of deliveries.
LEMMA NoNewDelivery ==
  ASSUME OneDeliveryPerSend, markers' = markers,
         \A j \in JobIds : IsSend(j) => jobs'[j].rows \in {0, jobs[j].rows}
  PROVE  OneDeliveryPerSend'
<1>1. SUFFICES ASSUME NEW j \in JobIds, IsSend(j), jobs'[j].rows > 0
               PROVE  /\ jobs'[j].rows = 1
                      /\ Key(j) \in markers'
                      /\ \A k \in JobIds : Key(k) = Key(j) /\ jobs'[k].rows > 0 => k = j
  BY DEF OneDeliveryPerSend, IsSend
<1>2. jobs'[j].rows = jobs[j].rows
  BY <1>1
<1>3. ASSUME NEW k \in JobIds, Key(k) = Key(j), jobs'[k].rows > 0 PROVE k = j
  <2>1. IsSend(k)
    BY <1>1, <1>3 DEF IsSend, Key, ActionOf
  <2>2. jobs[k].rows > 0
    BY <1>3, <2>1
  <2> QED BY <1>1, <1>2, <1>3, <2>2 DEF OneDeliveryPerSend, IsSend
<1> QED BY <1>1, <1>2, <1>3 DEF OneDeliveryPerSend, IsSend

LEMMA CommitDelivers ==
  ASSUME TypeOK, LockProtectsRun, OneDeliveryPerSend, NEW w \in Workers, SendWaCommit(w)
  PROVE  OneDeliveryPerSend'
<1> DEFINE j == workers[w].job
<1>1. j \in JobIds /\ IsSend(j) /\ Key(j) \notin markers
  BY BusyWorker DEF SendWaCommit, TypeOK, LockProtectsRun, WorkerHolds, Handling, IsSend
<1>2. \A k \in JobIds : Key(k) = Key(j) => ~(jobs[k].rows > 0)
  BY <1>1 DEF OneDeliveryPerSend, IsSend, Key, ActionOf
<1>3. jobs[j].rows = 0
  BY <1>1, <1>2 DEF TypeOK, StoreTypeOK, Job
<1>4. /\ jobs'[j].rows = 1
      /\ \A k \in JobIds : k # j => jobs'[k] = jobs[k]
      /\ markers' = markers \cup {Key(j)}
  BY <1>1, <1>3 DEF SendWaCommit, TypeOK, StoreTypeOK, Job
<1> HIDE DEF j
<1>5. SUFFICES ASSUME NEW i \in JobIds, IsSend(i), jobs'[i].rows > 0
               PROVE  /\ jobs'[i].rows = 1
                      /\ Key(i) \in markers'
                      /\ \A k \in JobIds : Key(k) = Key(i) /\ jobs'[k].rows > 0 => k = i
  BY DEF OneDeliveryPerSend, IsSend
<1>6. CASE i = j
  BY <1>2, <1>4, <1>6
<1>7. CASE i # j
  <2>1. jobs[i].rows > 0
    BY <1>4, <1>5, <1>7
  <2>2. Key(i) # Key(j)
    BY <1>2, <2>1
  <2> QED BY <1>4, <1>5, <1>7, <2>1, <2>2 DEF OneDeliveryPerSend, IsSend
<1> QED BY <1>6, <1>7

LEMMA NextDelivers ==
  ASSUME TypeOK, LockProtectsRun, OneDeliveryPerSend, [Next]_vars
  PROVE  OneDeliveryPerSend'
<1> USE DEF TypeOK, StoreTypeOK, HandlersTypeOK
<1>1. CASE UNCHANGED <<jobs, markers>>
  BY <1>1, NoNewDelivery
<1>2. ASSUME NEW t \in Ticks, TickApply(t), UNCHANGED handlerVars
      PROVE  OneDeliveryPerSend'
  <2>1. \A j \in JobIds : jobs'[j] \in {NewJob, jobs[j]}
    BY <1>2 DEF TickApply
  <2>2. \A j \in JobIds : jobs'[j].rows \in {0, jobs[j].rows}
    BY <2>1 DEF NewJob, FreeJob
  <2> QED BY <1>2, <2>2, NoNewDelivery DEF handlerVars
<1>3. ASSUME NEW j \in JobIds, FailJob(j), markers' = markers
      PROVE  OneDeliveryPerSend'
  <2>1. \A i \in JobIds : jobs'[i].rows = jobs[i].rows
    BY <1>3 DEF FailJob, FailedTry, Job
  <2> QED BY <1>3, <2>1, NoNewDelivery
<1>4. ASSUME NEW w \in Workers, NEW j \in JobIds, Fetch(w, j)
      PROVE  OneDeliveryPerSend'
  <2>1. \A i \in JobIds : jobs'[i].rows = jobs[i].rows
    BY <1>4 DEF Fetch, Fetched, Job
  <2> QED BY <1>4, <2>1, NoNewDelivery DEF Fetch
<1>5. ASSUME NEW w \in Workers, PlaceCallDial(w) \/ SendWaSend(w) \/ Finish(w)
      PROVE  OneDeliveryPerSend'
  <2>1. \A i \in JobIds : jobs'[i].rows = jobs[i].rows
    BY <1>5 DEF PlaceCallDial, SendWaSend, Finish, Job
  <2>2. markers' = markers
    BY <1>5 DEF PlaceCallDial, SendWaSend, Finish
  <2> QED BY <2>1, <2>2, NoNewDelivery
<1>6. ASSUME NEW w \in Workers, NEW d \in Disps, PlaceCallFold(w, d)
      PROVE  OneDeliveryPerSend'
  <2>1. \A i \in JobIds : i # workers[w].job => jobs'[i] = jobs[i]
    BY <1>6 DEF PlaceCallFold
  <2>2. ~IsSend(workers[w].job)
    BY <1>6 DEF PlaceCallFold, Handling, IsSend
  <2> QED BY <1>6, <2>1, <2>2, NoNewDelivery DEF PlaceCallFold
<1>7. ASSUME NEW w \in Workers, Throw(w) PROVE OneDeliveryPerSend'
  <2>1. workers[w].job \in JobIds
    BY <1>7, BusyWorker DEF Throw
  <2> QED BY <1>1, <1>3, <1>7, <2>1 DEF Throw
<1>8. ASSUME SchedulerNext, UNCHANGED handlerVars PROVE OneDeliveryPerSend'
  BY <1>1, <1>2, <1>8
     DEF SchedulerNext, TickStep, TickFault, StartRun, Elapse, TickStart, TickLock,
         TickSkip, TickDeadLetter, TickAbort, TickPoisoned, RollBack, TickRecord,
         TickRecordSkip, TickRecordFails, TickCrash, handlerVars
<1>9. ASSUME HandlersNext PROVE OneDeliveryPerSend'
  <2>1. ASSUME NEW j \in JobIds, Expire(j) \/ ExpireSlow(j) PROVE OneDeliveryPerSend'
    BY <1>3, <2>1 DEF Expire, ExpireSlow
  <2>2. ASSUME NEW w \in Workers,
               PlaceCallReturn(w) \/ SendWaReturn(w) \/ WorkerCrash(w)
        PROVE  OneDeliveryPerSend'
    BY <1>1, <2>2 DEF PlaceCallReturn, SendWaReturn, WorkerCrash
  <2> QED
    BY <1>4, <1>5, <1>6, <1>7, <1>9, <2>1, <2>2, CommitDelivers
       DEF HandlersNext, WorkerStep
<1> QED BY <1>1, <1>8, <1>9 DEF Next, vars, handlerVars

LEMMA InitDelivers == Init => OneDeliveryPerSend
BY DEF Init, StoreInit, FreeJob, OneDeliveryPerSend

\* However often jobs are inserted, retried, expired or run twice, a run's send
\* is committed by one job, once, and its marker says so.
THEOREM DeliveryCorrect == Spec => []OneDeliveryPerSend
<1> DEFINE IInv == TypeOK /\ LockProtectsRun /\ OneDeliveryPerSend
<1>1. Init => IInv
  BY InitTypeOK, InitLocks, InitDelivers
<1>2. IInv /\ [Next]_vars => IInv'
  BY NextTypes, NextLocks, NextDelivers
<1> QED BY <1>1, <1>2, PTL DEF Spec
-----------------------------------------------------------------------------
(* Which steps write a row.                                                *)

LEMMA RunWriters ==
  ASSUME [Next]_vars
  PROVE  \/ UNCHANGED runs
         \/ \E r \in Runs : StartRun(r) \/ Elapse(r)
         \/ \E t \in Ticks : TickDeadLetter(t) \/ TickApply(t) \/ TickRecord(t)
         \/ \E w \in Workers, d \in Disps : PlaceCallFold(w, d)
<1>1. CASE SchedulerNext
  BY <1>1
     DEF SchedulerNext, TickStep, TickFault, TickStart, TickLock, TickSkip, TickAbort,
         TickPoisoned, RollBack, TickRecordSkip, TickRecordFails, TickCrash
<1>2. CASE HandlersNext
  BY <1>2
     DEF HandlersNext, WorkerStep, Fetch, PlaceCallReturn, PlaceCallDial, SendWaReturn,
         SendWaSend, SendWaCommit, Finish, Throw, WorkerCrash, Expire, ExpireSlow
<1> QED BY <1>1, <1>2 DEF Next, vars

\* The walk a tick that holds its run applies, and the row it leaves.
LEMMA AppliedWalk ==
  ASSUME TypeOK, LockProtectsRun, NEW t \in Ticks, TickApply(t)
  PROVE  LET r == ticks[t].run
             w == Walk[<<runs[r].step, runs[r].disp>>]
         IN  /\ r \in Runs
             /\ IsDue(r)
             /\ w \in WalkResult
             /\ w.status \in {"waiting", "completed"}
             /\ runs' = [runs EXCEPT ![r] = Advanced(runs[r], w, Inserted(r, w.actions))]
<1> DEFINE r == ticks[t].run
           w == Walk[<<runs[r].step, runs[r].disp>>]
<1>1. r \in Runs
  BY HeldRuns DEF TickApply
<1>2. IsDue(r)
  BY DEF LockProtectsRun, TickHolds, TickApply
<1>3. runs[r].step \in Steps /\ runs[r].disp \in Disps \cup {NoDisp}
  BY <1>1 DEF TypeOK, StoreTypeOK, Row
<1>4. w \in WalkResult
  BY <1>3, WalkAssumption
<1>5. w.status # "throws" /\ runs' = [runs EXCEPT ![r] = Advanced(runs[r], w, Inserted(r, w.actions))]
  BY DEF TickApply
<1>6. w.status \in {"waiting", "completed"}
  BY <1>4, <1>5 DEF WalkResult
<1> HIDE DEF w, r
<1> QED BY <1>1, <1>2, <1>4, <1>5, <1>6 DEF w, r

-----------------------------------------------------------------------------
(* Dispositions.  DispositionAtCall is not inductive alone: enrolment makes *)
(* a row live, so an absent row must hold none, and the clock must not      *)
(* reach a pending one.                                                     *)

RowsSettled ==
    \A r \in Runs :
      /\ runs[r].status \in {"absent", "pending"} => runs[r].disp = NoDisp
      /\ runs[r].status = "pending" => runs[r].wake = "due"

Settled == DispositionAtCall /\ RowsSettled

\* What the two say of one row.
SettledRow(row) ==
    /\ row.disp # NoDisp => /\ row.step \in CallSteps
                            /\ row.wake = "due"
                            /\ row.status \in {"waiting", "failed"}
    /\ row.status \in {"absent", "pending"} => row.disp = NoDisp
    /\ row.status = "pending" => row.wake = "due"

LEMMA SettledRows == Settled <=> \A r \in Runs : SettledRow(runs[r])
BY DEF Settled, DispositionAtCall, RowsSettled, SettledRow

LEMMA InitSettled == Init => Settled
BY DEF Init, StoreInit, AbsentRow, Settled, DispositionAtCall, RowsSettled

\* A walk from a settled row consumes the disposition.
LEMMA AdvancedSettles ==
  ASSUME TypeOK, LockProtectsRun, Settled, NEW t \in Ticks, TickApply(t)
  PROVE  LET r == ticks[t].run
             w == Walk[<<runs[r].step, runs[r].disp>>]
         IN  /\ w.disp = NoDisp
             /\ w.status = "waiting" /\ w.wake = "none" =>
                  w.step \in CallSteps /\ \E a \in w.actions : a.kind = "place_call"
<1> DEFINE r == ticks[t].run
           s == runs[r].step
           d == runs[r].disp
           w == Walk[<<s, d>>]
<1>1. r \in Runs /\ w.status # "throws"
  BY AppliedWalk DEF TickApply
<1>2. s \in Steps /\ d \in Disps \cup {NoDisp}
  BY <1>1 DEF TypeOK, StoreTypeOK, Row
<1>3. d = NoDisp \/ s \in CallSteps
  BY <1>1 DEF Settled, DispositionAtCall
<1> HIDE DEF s, d
<1>4. /\ w.disp = NoDisp
      /\ w.status = "waiting" /\ w.wake = "none" =>
           w.step \in CallSteps /\ \E a \in w.actions : a.kind = "place_call"
  BY <1>1, <1>2, <1>3, WalkSettles
<1> QED BY <1>4 DEF s, d

LEMMA NextSettled ==
  ASSUME TypeOK, LockProtectsRun, Settled, [Next]_vars PROVE Settled'
<1> USE DEF TypeOK, StoreTypeOK
<1>1. SUFFICES ASSUME NEW q \in Runs PROVE SettledRow(runs'[q])
  BY SettledRows DEF Settled, DispositionAtCall, RowsSettled, SettledRow
<1>2. SettledRow(runs[q])
  BY SettledRows
<1>3. runs[q] \in Row
  OBVIOUS
<1>4. CASE UNCHANGED runs
  BY <1>2, <1>4
<1>5. ASSUME NEW r \in Runs, StartRun(r) \/ Elapse(r) PROVE SettledRow(runs'[q])
  <2>1. CASE q = r /\ StartRun(r)
    BY <2>1, <1>2, <1>3 DEF StartRun, SettledRow, Row
  <2>2. CASE q = r /\ Elapse(r)
    BY <2>2, <1>2, <1>3 DEF Elapse, SettledRow, Live, Row
  <2>3. CASE q # r
    BY <2>3, <1>2, <1>5 DEF StartRun, Elapse
  <2> QED BY <1>5, <2>1, <2>2, <2>3
<1>6. ASSUME NEW t \in Ticks, TickApply(t) PROVE SettledRow(runs'[q])
  <2>1. CASE q = ticks[t].run
    <3> DEFINE w == Walk[<<runs[q].step, runs[q].disp>>]
    <3>1. runs'[q] = Advanced(runs[q], w, Inserted(q, w.actions))
      BY <2>1, <1>6, AppliedWalk
    <3>2. w.disp = NoDisp /\ w.status \in {"waiting", "completed"}
      BY <2>1, <1>6, AppliedWalk, AdvancedSettles
    <3> HIDE DEF w
    <3> QED BY <3>1, <3>2 DEF Advanced, SettledRow
  <2>2. CASE q # ticks[t].run
    BY <2>2, <1>2, <1>6 DEF TickApply
  <2> QED BY <2>1, <2>2
<1>7. ASSUME NEW t \in Ticks, TickDeadLetter(t) PROVE SettledRow(runs'[q])
  <2>1. CASE q = ticks[t].run
    <3>1. runs[q].status \in Live
      BY <2>1, <1>7 DEF TickDeadLetter, LockProtectsRun, TickHolds, IsDue
    <3> QED BY <2>1, <3>1, <1>2, <1>3, <1>7 DEF TickDeadLetter, SettledRow, Row, Live
  <2>2. CASE q # ticks[t].run
    BY <2>2, <1>2, <1>7 DEF TickDeadLetter
  <2> QED BY <2>1, <2>2
<1>8. ASSUME NEW t \in Ticks, TickRecord(t) PROVE SettledRow(runs'[q])
  BY <1>2, <1>3, <1>8 DEF TickRecord, Charged, SettledRow, Row, Live
<1>9. ASSUME NEW w \in Workers, NEW d \in Disps, PlaceCallFold(w, d)
      PROVE  SettledRow(runs'[q])
  <2>1. ~StaleCall(RunAt(w))
    BY <1>9 DEF PlaceCallFold, LockProtectsRun, WorkerHolds
  <2> QED BY <2>1, <1>2, <1>3, <1>9 DEF PlaceCallFold, StaleCall, SettledRow, Row
<1> QED BY <1>4, <1>5, <1>6, <1>7, <1>8, <1>9, RunWriters

\* A disposition is only ever stored on a run that rests, due, at the call it
\* answers: no overlap of ticks and late calls leaves one behind to route a
\* later call.
THEOREM DispositionCorrect == Spec => []DispositionAtCall
<1>1. Init => TypeOK /\ LockProtectsRun /\ Settled
  BY InitTypeOK, InitLocks, InitSettled
<1>2. TypeOK /\ LockProtectsRun /\ Settled /\ [Next]_vars
        => (TypeOK /\ LockProtectsRun /\ Settled)'
  BY NextTypes, NextLocks, NextSettled
<1>3. Settled => DispositionAtCall
  BY DEF Settled
<1> QED BY <1>1, <1>2, <1>3, PTL DEF Spec

-----------------------------------------------------------------------------
(* Jobs in use.  A slot of the job table is taken by a tick and never given *)
(* back, and a handler is only ever busy with a slot that is taken.         *)

InUse(j) == jobs[j].state # "free"

BusyInUse == \A w \in Workers : workers[w].pc # "idle" => InUse(workers[w].job)

\* The jobs a tick about to commit inserts.
NewJobs(t) ==
    Inserted(ticks[t].run,
             Walk[<<runs[ticks[t].run].step, runs[ticks[t].run].disp>>].actions)

\* What the commit of a tick leaves alone.
LEMMA ApplyWrites ==
  ASSUME NEW t, TickApply(t)
  PROVE  /\ jobs' = [j \in JobIds |-> IF j \in NewJobs(t) THEN NewJob ELSE jobs[j]]
         /\ \A q \in DOMAIN runs : q # ticks[t].run => runs'[q] = runs[q]
<1> DEFINE r == ticks[t].run
           w == Walk[<<runs[r].step, runs[r].disp>>]
           row == Advanced(runs[r], w, Inserted(r, w.actions))
<1>1. runs' = [runs EXCEPT ![r] = row]
  BY DEF TickApply
<1>2. jobs' = [j \in JobIds |-> IF j \in NewJobs(t) THEN NewJob ELSE jobs[j]]
  BY DEF TickApply, NewJobs
<1> HIDE DEF row
<1> QED BY <1>1, <1>2

LEMMA NewJobsAreFree ==
  ASSUME NEW r, NEW actions, NEW j \in Inserted(r, actions)
  PROVE  j \in JobIds /\ j[1] = r /\ j[2] \in actions /\ ~InUse(j)
<1>1. j \in JobIds /\ j[1] = r /\ j[2] \in actions /\ j[3] \in NextGen(r, j[2])
  BY DEF Inserted
<1>2. jobs[<<r, j[2], j[3]>>].state = "free"
  BY <1>1 DEF NextGen
<1>3. j = <<r, j[2], j[3]>>
  BY <1>1, JobIdParts
<1> QED BY <1>1, <1>2, <1>3 DEF InUse

LEMMA NewJobsFree ==
  ASSUME NEW t, NEW j \in NewJobs(t)
  PROVE  j \in JobIds /\ RunOf(j) = ticks[t].run /\ ~InUse(j)
BY NewJobsAreFree DEF NewJobs, RunOf

LEMMA ApplyUses ==
  ASSUME NEW t \in Ticks, TickApply(t), NEW j \in JobIds
  PROVE  InUse(j)' <=> InUse(j) \/ j \in NewJobs(t)
<1>1. jobs'[j] = IF j \in NewJobs(t) THEN NewJob ELSE jobs[j]
  BY DEF TickApply, NewJobs
<1> QED BY <1>1 DEF InUse, NewJob, FreeJob

LEMMA FailJobUses ==
  ASSUME TypeOK, NEW i \in JobIds, InUse(i), FailJob(i), NEW j \in JobIds
  PROVE  InUse(j)' <=> InUse(j)
BY DEF TypeOK, StoreTypeOK, FailJob, FailedTry, InUse, Job

\* No handler takes a slot or gives one back...
LEMMA HandlersKeepUses ==
  ASSUME TypeOK, BusyInUse, HandlersNext
  PROVE  \A j \in JobIds : InUse(j)' <=> InUse(j)
<1> USE DEF TypeOK, StoreTypeOK, HandlersTypeOK
<1>1. CASE UNCHANGED jobs
  BY <1>1 DEF InUse
<1>2. ASSUME NEW w \in Workers, NEW j \in JobIds, Fetch(w, j)
      PROVE  \A i \in JobIds : InUse(i)' <=> InUse(i)
  BY <1>2 DEF Fetch, Fetched, InUse, Job
<1>3. ASSUME NEW w \in Workers,
             \/ PlaceCallDial(w) \/ SendWaSend(w) \/ SendWaCommit(w) \/ Finish(w)
             \/ \E d \in Disps : PlaceCallFold(w, d)
      PROVE  \A i \in JobIds : InUse(i)' <=> InUse(i)
  <2>1. CASE PlaceCallDial(w) \/ SendWaSend(w)
    BY <2>1 DEF PlaceCallDial, SendWaSend, InUse, Job
  <2>2. CASE SendWaCommit(w) \/ \E d \in Disps : PlaceCallFold(w, d)
    <3>1. jobs' = [jobs EXCEPT ![workers[w].job].rows = @ + 1]
      BY <2>2 DEF SendWaCommit, PlaceCallFold
    <3> QED BY <3>1 DEF InUse, Job
  <2>3. CASE Finish(w)
    BY <2>3 DEF Finish, Current, InUse, Job
  <2> QED BY <1>3, <2>1, <2>2, <2>3
<1>4. ASSUME NEW w \in Workers, Throw(w)
      PROVE  \A i \in JobIds : InUse(i)' <=> InUse(i)
  <2>1. workers[w].job \in JobIds /\ InUse(workers[w].job)
    BY <1>4, BusyWorker DEF Throw, BusyInUse
  <2>2. \/ UNCHANGED jobs
        \/ jobs' = [jobs EXCEPT ![workers[w].job] = FailedTry(@)]
    BY <1>4 DEF Throw, FailJob
  <2> QED BY <1>1, <2>1, <2>2 DEF FailedTry, InUse, Job
<1>5. ASSUME NEW j \in JobIds, Expire(j) \/ ExpireSlow(j)
      PROVE  \A i \in JobIds : InUse(i)' <=> InUse(i)
  <2>1. InUse(j) /\ FailJob(j)
    BY <1>5 DEF Expire, ExpireSlow, Abandoned, InUse
  <2> QED BY <2>1, FailJobUses
<1> QED
  BY <1>1, <1>2, <1>3, <1>4, <1>5
     DEF HandlersNext, WorkerStep, PlaceCallReturn, SendWaReturn, WorkerCrash

\* ...and of the steps of a tick only its commit does.
LEMMA UsesKept ==
  ASSUME TypeOK, BusyInUse, [Next]_vars
  PROVE  \/ \E t \in Ticks : TickApply(t)
         \/ \A j \in JobIds : InUse(j)' <=> InUse(j)
<1>1. CASE UNCHANGED jobs
  BY <1>1 DEF InUse
<1>2. CASE SchedulerNext
  BY <1>1, <1>2
     DEF SchedulerNext, TickStep, TickFault, StartRun, Elapse, TickStart, TickLock,
         TickSkip, TickDeadLetter, TickAbort, TickPoisoned, RollBack, TickRecord,
         TickRecordSkip, TickRecordFails, TickCrash
<1> QED BY <1>1, <1>2, HandlersKeepUses DEF Next, vars

LEMMA InitBusyInUse == Init => BusyInUse
BY DEF Init, HandlersInit, IdleWorker, BusyInUse

LEMMA NextBusyInUse == ASSUME TypeOK, BusyInUse, [Next]_vars PROVE BusyInUse'
<1> USE DEF TypeOK, StoreTypeOK, HandlersTypeOK
<1>1. \A j \in JobIds : InUse(j) => InUse(j)'
  BY UsesKept, ApplyUses
<1>2. ASSUME NEW w \in Workers, workers'[w].pc # "idle"
      PROVE  /\ workers'[w].job \in JobIds
             /\ InUse(workers'[w].job)
  <2>1. CASE UNCHANGED workers
    BY <1>2, <2>1, BusyWorker DEF BusyInUse
  <2>2. ASSUME NEW u \in Workers, NEW j \in JobIds, Fetch(u, j)
        PROVE  workers'[w].job \in JobIds /\ InUse(workers'[w].job)
    <3>1. CASE w = u
      BY <2>2, <3>1 DEF Fetch, InUse
    <3>2. CASE w # u
      BY <1>2, <2>2, <3>2, BusyWorker DEF Fetch, BusyInUse
    <3> QED BY <3>1, <3>2
  <2>3. ASSUME NEW u \in Workers, workers[u].pc # "idle",
               Goto(u, "sent") \/ Goto(u, "done")
        PROVE  workers'[w].job \in JobIds /\ InUse(workers'[w].job)
    <3>1. workers'[w].job = workers[w].job /\ workers[w].pc # "idle"
      BY <1>2, <2>3 DEF Goto, Worker, IdleWorker
    <3> QED BY <3>1, BusyWorker DEF BusyInUse
  <2>4. ASSUME NEW u \in Workers, workers' = [workers EXCEPT ![u] = IdleWorker]
        PROVE  workers'[w].job \in JobIds /\ InUse(workers'[w].job)
    <3>1. workers'[w] = workers[w]
      BY <1>2, <2>4 DEF IdleWorker
    <3> QED BY <1>2, <3>1, BusyWorker DEF BusyInUse
  <2>5. CASE HandlersNext
    BY <2>1, <2>2, <2>3, <2>4, <2>5
       DEF HandlersNext, WorkerStep, PlaceCallReturn, PlaceCallDial, PlaceCallFold,
           SendWaReturn, SendWaSend, SendWaCommit, Finish, Throw, WorkerCrash, Expire,
           ExpireSlow
  <2> QED BY <2>1, <2>5 DEF Next, vars, handlerVars
<1>3. ASSUME NEW w \in Workers, workers'[w].pc # "idle"
      PROVE  jobs'[workers'[w].job].state # "free"
  BY <1>1, <1>2, <1>3 DEF InUse
<1> QED BY <1>3 DEF BusyInUse, InUse

-----------------------------------------------------------------------------
(* The refinement, step by step.                                           *)

AnswerOf(row) == IF PhaseOf(row) = "answered" THEN row.disp ELSE NoDisp

PhaseBar == [r \in Runs |-> PhaseOf(runs[r])]
AnswerBar == [r \in Runs |-> AnswerOf(runs[r])]

\* The phase of a settled row, and the answer it holds.
LEMMA PhaseIs ==
  ASSUME NEW row \in Row, SettledRow(row)
  PROVE  /\ row.status = "absent" => PhaseOf(row) = "absent" /\ AnswerOf(row) = NoDisp
         /\ row.status = "pending" => PhaseOf(row) = "enrolled" /\ AnswerOf(row) = NoDisp
         /\ row.status = "completed" => PhaseOf(row) = "completed" /\ AnswerOf(row) = NoDisp
         /\ row.status = "failed" => PhaseOf(row) = "failed" /\ AnswerOf(row) = NoDisp
         /\ row.status = "waiting" /\ row.disp # NoDisp =>
              PhaseOf(row) = "answered" /\ AnswerOf(row) = row.disp
         /\ row.status = "waiting" /\ row.disp = NoDisp =>
              /\ AnswerOf(row) = NoDisp
              /\ row.wake = "later" => PhaseOf(row) = "asleep"
              /\ row.wake = "due" => PhaseOf(row) = "ready"
              /\ row.wake = "none" => PhaseOf(row) = "calling"
BY DEF PhaseOf, AnswerOf, Row, SettledRow

\* A step that writes one row moves one phase and one answer.
LEMMA BarsMove ==
  ASSUME NEW r \in Runs, \A q \in Runs : q # r => runs'[q] = runs[q]
  PROVE  /\ PhaseBar' = [PhaseBar EXCEPT ![r] = PhaseOf(runs'[r])]
         /\ AnswerBar' = [AnswerBar EXCEPT ![r] = AnswerOf(runs'[r])]
         /\ PhaseBar[r] = PhaseOf(runs[r]) /\ AnswerBar[r] = AnswerOf(runs[r])
<1>1. PhaseBar' = [q \in Runs |-> PhaseOf(runs'[q])]
  BY DEF PhaseBar, PhaseOf
<1>2. AnswerBar' = [q \in Runs |-> AnswerOf(runs'[q])]
  BY DEF AnswerBar, AnswerOf, PhaseOf
<1>3. PhaseBar' = [PhaseBar EXCEPT ![r] = PhaseOf(runs'[r])]
  BY <1>1 DEF PhaseBar
<1>4. AnswerBar' = [AnswerBar EXCEPT ![r] = AnswerOf(runs'[r])]
  BY <1>2 DEF AnswerBar
<1> QED BY <1>3, <1>4 DEF PhaseBar, AnswerBar

LEMMA BarsKept ==
  ASSUME UNCHANGED runs PROVE PhaseBar' = PhaseBar /\ AnswerBar' = AnswerBar
BY DEF PhaseBar, AnswerBar, PhaseOf, AnswerOf

\* An answer that was and is none, or is the same, is unchanged.
LEMMA AnswerKept ==
  ASSUME NEW r \in Runs, \A q \in Runs : q # r => runs'[q] = runs[q],
         AnswerOf(runs'[r]) = AnswerOf(runs[r])
  PROVE  AnswerBar' = AnswerBar
<1>1. AnswerBar' = [AnswerBar EXCEPT ![r] = AnswerOf(runs'[r])]
  BY BarsMove
<1>2. AnswerBar \in [Runs -> {AnswerBar[q] : q \in Runs}] /\ AnswerBar[r] = AnswerOf(runs[r])
  BY DEF AnswerBar
<1> QED BY <1>1, <1>2

LEMMA AskedKept ==
  ASSUME \A j \in JobIds : InUse(j)' <=> InUse(j) PROVE AskedSends' = AskedSends
BY DEF AskedSends, InUse, Key, ActionOf

LEMMA MarkersWriters ==
  ASSUME [Next]_vars PROVE UNCHANGED markers \/ \E w \in Workers : SendWaCommit(w)
BY DEF Next, vars, handlerVars, HandlersNext, WorkerStep, Fetch, PlaceCallReturn,
       PlaceCallDial, PlaceCallFold, SendWaReturn, SendWaSend, Finish, Throw, WorkerCrash,
       Expire, ExpireSlow

\* The mapped variables, and a step of the pipeline that shows in none of them.
AbstractStep == [Lifecycle!Next]_(Lifecycle!vars)

LEMMA BarsAreLifecycle ==
  Lifecycle!vars = <<PhaseBar, AnswerBar, AskedSends, markers>>
BY DEF Lifecycle!vars, PhaseBar, AnswerBar, AnswerOf

LEMMA EnrolMaps ==
  ASSUME TypeOK, Settled, NEW r \in Runs, StartRun(r), UNCHANGED handlerVars
  PROVE  Lifecycle!Enrol(r)
<1>1. runs[r] \in Row /\ SettledRow(runs[r]) /\ runs[r].status = "absent"
  BY SettledRows DEF TypeOK, StoreTypeOK, StartRun
<1>2. /\ runs' = [runs EXCEPT ![r] = [runs[r] EXCEPT !.status = "pending", !.wake = "due"]]
      /\ jobs' = jobs
  BY DEF StartRun
<1>3. runs'[r] \in Row /\ SettledRow(runs'[r]) /\ runs'[r].status = "pending"
  BY <1>1, <1>2 DEF TypeOK, StoreTypeOK, Row, SettledRow
<1>4. /\ PhaseOf(runs[r]) = "absent" /\ PhaseOf(runs'[r]) = "enrolled"
      /\ AnswerOf(runs'[r]) = AnswerOf(runs[r])
  BY <1>1, <1>3, PhaseIs
<1>5. \A q \in Runs : q # r => runs'[q] = runs[q]
  BY <1>2
<1>6. PhaseBar[r] = "absent" /\ PhaseBar' = [PhaseBar EXCEPT ![r] = "enrolled"]
  BY <1>4, <1>5, BarsMove
<1>7. AnswerBar' = AnswerBar
  BY <1>4, <1>5, AnswerKept
<1>8. AskedSends' = AskedSends /\ markers' = markers
  BY <1>2, AskedKept DEF InUse, handlerVars
<1> QED BY <1>6, <1>7, <1>8 DEF Lifecycle!Enrol, PhaseBar, AnswerBar, AnswerOf

LEMMA ElapseMaps ==
  ASSUME TypeOK, Settled, NEW r \in Runs, Elapse(r), UNCHANGED handlerVars
  PROVE  Lifecycle!Elapse(r)
<1>1. runs[r] \in Row /\ SettledRow(runs[r])
  BY SettledRows DEF TypeOK, StoreTypeOK
<1>2. /\ runs' = [runs EXCEPT ![r].wake = "due"]
      /\ jobs' = jobs
      /\ runs[r].status = "waiting" /\ runs[r].disp = NoDisp /\ runs[r].wake = "later"
  BY <1>1 DEF Elapse, Live, SettledRow
<1>3. /\ runs'[r] \in Row /\ SettledRow(runs'[r])
      /\ runs'[r].status = "waiting" /\ runs'[r].disp = NoDisp /\ runs'[r].wake = "due"
  BY <1>1, <1>2 DEF TypeOK, StoreTypeOK, Row, SettledRow
<1>4. /\ PhaseOf(runs[r]) = "asleep" /\ PhaseOf(runs'[r]) = "ready"
      /\ AnswerOf(runs'[r]) = AnswerOf(runs[r])
  BY <1>1, <1>2, <1>3, PhaseIs
<1>5. \A q \in Runs : q # r => runs'[q] = runs[q]
  BY <1>2
<1>6. PhaseBar[r] = "asleep" /\ PhaseBar' = [PhaseBar EXCEPT ![r] = "ready"]
  BY <1>4, <1>5, BarsMove
<1>7. AnswerBar' = AnswerBar
  BY <1>4, <1>5, AnswerKept
<1>8. AskedSends' = AskedSends /\ markers' = markers
  BY <1>2, AskedKept DEF InUse, handlerVars
<1> QED BY <1>6, <1>7, <1>8 DEF Lifecycle!Elapse, PhaseBar, AnswerBar, AnswerOf

\* The sends among the jobs a tick inserts.
LEMMA AskedGrows ==
  ASSUME NEW t \in Ticks, TickApply(t)
  PROVE  \E new \in SUBSET External :
           AskedSends' = AskedSends \cup {<<ticks[t].run, s>> : s \in new}
<1> DEFINE r == ticks[t].run
           new == {a \in External : a.kind = "send_wa" /\ \E j \in NewJobs(t) : j[2] = a}
<1>1. \A j \in NewJobs(t) : j \in JobIds /\ j[1] = r
  BY NewJobsAreFree DEF NewJobs
<1>2. \A j \in JobIds : InUse(j)' <=> InUse(j) \/ j \in NewJobs(t)
  BY ApplyUses
<1>3. AskedSends' = {Key(j) : j \in {k \in JobIds : ActionOf(k).kind = "send_wa" /\ InUse(k)'}}
  BY DEF AskedSends, InUse, Key, ActionOf
<1>4. AskedSends = {Key(j) : j \in {k \in JobIds : ActionOf(k).kind = "send_wa" /\ InUse(k)}}
  BY DEF AskedSends, InUse
<1>5. ASSUME NEW m \in AskedSends' PROVE m \in AskedSends \cup {<<r, s>> : s \in new}
  <2>1. PICK j \in JobIds : ActionOf(j).kind = "send_wa" /\ InUse(j)' /\ m = Key(j)
    BY <1>3, <1>5
  <2>2. CASE InUse(j)
    BY <1>4, <2>1, <2>2
  <2>3. CASE j \in NewJobs(t)
    <3>1. j[2] \in new /\ m = <<r, j[2]>>
      BY <1>1, <2>1, <2>3 DEF Key, ActionOf, JobIds
    <3> QED BY <3>1
  <2> QED BY <1>2, <2>1, <2>2, <2>3
<1>6. ASSUME NEW m \in AskedSends PROVE m \in AskedSends'
  BY <1>2, <1>3, <1>4
<1>7. ASSUME NEW s \in new PROVE <<r, s>> \in AskedSends'
  <2>1. PICK j \in NewJobs(t) : j[2] = s
    OBVIOUS
  <2>2. j \in JobIds /\ Key(j) = <<r, s>> /\ ActionOf(j).kind = "send_wa" /\ InUse(j)'
    BY <1>1, <1>2, <2>1 DEF Key, ActionOf
  <2> QED BY <1>3, <2>2
<1>8. AskedSends' = AskedSends \cup {<<r, s>> : s \in new}
  BY <1>5, <1>6, <1>7
<1> QED BY <1>8

LEMMA AdvanceMaps ==
  ASSUME TypeOK, LockProtectsRun, Settled, TypeOK', Settled',
         NEW t \in Ticks, TickApply(t), UNCHANGED handlerVars
  PROVE  \E r \in Runs : Lifecycle!Advance(r)
<1>1. PICK r \in Runs : r = ticks[t].run
  BY AppliedWalk
<1>2. runs[r] \in Row /\ SettledRow(runs[r]) /\ IsDue(r)
  BY <1>1, SettledRows, AppliedWalk DEF TypeOK, StoreTypeOK
<1>3. runs'[r] \in Row /\ SettledRow(runs'[r])
  BY SettledRows DEF TypeOK, StoreTypeOK, Settled, DispositionAtCall, RowsSettled, SettledRow
<1>4. PICK w \in WalkResult :
        /\ w.status \in {"waiting", "completed"} /\ w.disp = NoDisp
        /\ runs' = [runs EXCEPT ![r] = Advanced(runs[r], w, Inserted(r, w.actions))]
  BY <1>1, AppliedWalk, AdvancedSettles
<1>5. /\ runs'[r].status \in {"waiting", "completed"} /\ runs'[r].disp = NoDisp
      /\ runs'[r].wake \in {"none", "later"}
  <2>1. runs'[r] = Advanced(runs[r], w, Inserted(r, w.actions))
    BY <1>4 DEF TypeOK, StoreTypeOK
  <2> QED BY <1>4, <2>1 DEF Advanced, WalkResult
<1>6. /\ PhaseOf(runs[r]) \in {"enrolled", "ready", "answered"}
      /\ PhaseOf(runs'[r]) \in {"asleep", "calling", "completed"}
      /\ AnswerOf(runs'[r]) = NoDisp
  <2>1. PhaseOf(runs[r]) \in {"enrolled", "ready", "answered"}
    BY <1>2, PhaseIs DEF IsDue, Live
  <2>2. PhaseOf(runs'[r]) \in {"asleep", "calling", "completed"} /\ AnswerOf(runs'[r]) = NoDisp
    BY <1>3, <1>5, PhaseIs
  <2> QED BY <2>1, <2>2
<1>7. \A q \in Runs : q # r => runs'[q] = runs[q]
  BY <1>4
<1>8. /\ PhaseBar[r] \in {"enrolled", "ready", "answered"}
      /\ \E p \in {"asleep", "calling", "completed"} : PhaseBar' = [PhaseBar EXCEPT ![r] = p]
      /\ AnswerBar' = [AnswerBar EXCEPT ![r] = NoDisp]
  BY <1>6, <1>7, BarsMove
<1>9. \E new \in SUBSET External : AskedSends' = AskedSends \cup {<<r, s>> : s \in new}
  BY <1>1, AskedGrows
<1>10. markers' = markers
  BY DEF handlerVars
<1>11. Lifecycle!Advance(r)
  BY <1>8, <1>9, <1>10 DEF Lifecycle!Advance, PhaseBar, AnswerBar, AnswerOf
<1> QED BY <1>11

\* A run is dead-lettered by a tick that cannot interpret it, or at the ceiling
\* of failed applies; below the ceiling nothing shows.
LEMMA GiveUpMaps ==
  ASSUME TypeOK, LockProtectsRun, Settled, TypeOK', Settled',
         NEW t \in Ticks, TickDeadLetter(t) \/ TickRecord(t), UNCHANGED handlerVars
  PROVE  AbstractStep
<1>1. ticks[t].run \in Runs /\ jobs' = jobs
  BY DEF TickDeadLetter, TickRecord, TypeOK, SchedulerTypeOK, Tick
<1>2. PICK r \in Runs : r = ticks[t].run
  BY <1>1
<1>3. /\ runs[r] \in Row /\ SettledRow(runs[r]) /\ runs[r].status \in Live
      /\ runs'[r] \in Row /\ SettledRow(runs'[r])
  <2>1. runs[r].status \in Live
    BY <1>2 DEF TickDeadLetter, TickRecord, LockProtectsRun, TickHolds, IsDue
  <2>2. runs[r] \in Row /\ SettledRow(runs[r])
    BY SettledRows DEF TypeOK, StoreTypeOK
  <2>3. runs'[r] \in Row /\ SettledRow(runs'[r])
    BY SettledRows DEF TypeOK, StoreTypeOK, Settled, DispositionAtCall, RowsSettled, SettledRow
  <2> QED BY <2>1, <2>2, <2>3
<1>4. /\ \A q \in Runs : q # r => runs'[q] = runs[q]
      /\ \/ runs'[r] = [runs[r] EXCEPT !.status = "failed"]
         \/ runs'[r] = Charged(runs[r])
  <2>1. CASE TickDeadLetter(t)
    BY <1>2, <2>1 DEF TickDeadLetter, TypeOK, StoreTypeOK
  <2>2. CASE TickRecord(t)
    BY <1>2, <2>2 DEF TickRecord, TypeOK, StoreTypeOK
  <2> QED BY <2>1, <2>2
<1>5. AskedSends' = AskedSends /\ markers' = markers
  BY <1>1, AskedKept DEF InUse, handlerVars
<1>6. CASE runs'[r].status = "failed"
  <2>1. /\ PhaseOf(runs[r]) \notin {"completed", "failed", "absent"}
        /\ PhaseOf(runs'[r]) = "failed" /\ AnswerOf(runs'[r]) = NoDisp
    BY <1>3, <1>6, PhaseIs DEF Live, Row
  <2>2. /\ PhaseBar[r] \notin {"completed", "failed", "absent"}
        /\ PhaseBar' = [PhaseBar EXCEPT ![r] = "failed"]
        /\ AnswerBar' = [AnswerBar EXCEPT ![r] = NoDisp]
    BY <1>4, <2>1, BarsMove
  <2>3. Lifecycle!GiveUp(r)
    BY <1>5, <2>2 DEF Lifecycle!GiveUp, Lifecycle!Over, PhaseBar, AnswerBar, AnswerOf
  <2> QED BY <2>3 DEF AbstractStep, Lifecycle!Next
<1>7. CASE runs'[r].status # "failed"
  <2>1. /\ runs'[r].status = runs[r].status /\ runs'[r].disp = runs[r].disp
        /\ runs'[r].wake = runs[r].wake
    BY <1>3, <1>4, <1>7 DEF Charged, Row
  <2>2. PhaseOf(runs'[r]) = PhaseOf(runs[r]) /\ AnswerOf(runs'[r]) = AnswerOf(runs[r])
    BY <2>1 DEF PhaseOf, AnswerOf
  <2>3. AnswerBar' = AnswerBar
    BY <1>4, <2>2, AnswerKept
  <2>4. PhaseBar' = PhaseBar
    <3>1. PhaseBar' = [PhaseBar EXCEPT ![r] = PhaseBar[r]]
      BY <1>4, <2>2, BarsMove
    <3> QED BY <3>1 DEF PhaseBar
  <2>5. UNCHANGED Lifecycle!vars
    BY <1>5, <2>3, <2>4 DEF Lifecycle!vars, PhaseBar, AnswerBar, AnswerOf
  <2> QED BY <2>5 DEF AbstractStep
<1> QED BY <1>6, <1>7

\* An outcome is folded only into the row the handler locked, which awaited one.
LEMMA AnswerMaps ==
  ASSUME TypeOK, LockProtectsRun, Settled, TypeOK', Settled', BusyInUse,
         NEW w \in Workers, NEW d \in Disps, PlaceCallFold(w, d)
  PROVE  \E r \in Runs : Lifecycle!Answer(r)
<1>1. PICK r \in Runs : r = RunAt(w)
  BY HeldRuns DEF PlaceCallFold
<1>2. /\ runs[r] \in Row /\ SettledRow(runs[r])
      /\ runs[r].status = "waiting" /\ runs[r].disp = NoDisp
  BY <1>1, SettledRows
     DEF TypeOK, StoreTypeOK, PlaceCallFold, LockProtectsRun, WorkerHolds, StaleCall
<1>3. runs'[r] \in Row /\ SettledRow(runs'[r])
  BY SettledRows DEF TypeOK, StoreTypeOK, Settled, DispositionAtCall, RowsSettled, SettledRow
<1>4. /\ \A q \in Runs : q # r => runs'[q] = runs[q]
      /\ runs'[r].status = "waiting" /\ runs'[r].disp = d
  BY <1>1, <1>2 DEF PlaceCallFold, TypeOK, StoreTypeOK, Row
<1>5. d # NoDisp
  BY StoreAssumption
<1>6. PhaseOf(runs[r]) \in {"calling", "asleep", "ready"}
  BY <1>2, PhaseIs DEF Row
<1>7. PhaseOf(runs'[r]) = "answered" /\ AnswerOf(runs'[r]) = d
  BY <1>3, <1>4, <1>5, PhaseIs
<1>8. /\ PhaseBar[r] \in {"calling", "asleep", "ready"}
      /\ PhaseBar' = [PhaseBar EXCEPT ![r] = "answered"]
      /\ AnswerBar' = [AnswerBar EXCEPT ![r] = d]
  BY <1>4, <1>6, <1>7, BarsMove
<1>9. AskedSends' = AskedSends
  <2>1. \A j \in JobIds : InUse(j)' <=> InUse(j)
    <3>1. jobs' = [jobs EXCEPT ![workers[w].job].rows = @ + 1]
      BY DEF PlaceCallFold
    <3> QED BY <3>1 DEF InUse, TypeOK, StoreTypeOK, Job
  <2> QED BY <2>1, AskedKept
<1>10. Lifecycle!Answer(r)
  BY <1>8, <1>9 DEF PlaceCallFold, Lifecycle!Answer, PhaseBar, AnswerBar, AnswerOf
<1> QED BY <1>10

\* A delivery is of a send some job was inserted for, and under the row lock no
\* other has delivered it.
LEMMA DeliverMaps ==
  ASSUME TypeOK, LockProtectsRun, BusyInUse, NEW w \in Workers, SendWaCommit(w)
  PROVE  \E m \in Runs \X External : Lifecycle!Deliver(m)
<1> DEFINE j == workers[w].job
<1>1. j \in JobIds /\ InUse(j) /\ ActionOf(j).kind = "send_wa" /\ Key(j) \notin markers
  BY BusyWorker
     DEF SendWaCommit, TypeOK, BusyInUse, LockProtectsRun, WorkerHolds, Handling
<1>2. markers' = markers \cup {Key(j)} /\ runs' = runs
  BY DEF SendWaCommit
<1>3. AskedSends' = AskedSends
  <2>1. jobs' = [jobs EXCEPT ![j].rows = @ + 1]
    BY DEF SendWaCommit
  <2>2. \A i \in JobIds : InUse(i)' <=> InUse(i)
    BY <2>1 DEF InUse, TypeOK, StoreTypeOK, Job
  <2> QED BY <2>2, AskedKept
<1>4. Key(j) \in AskedSends /\ Key(j) \in Runs \X External
  BY <1>1 DEF AskedSends, InUse, Key, JobIds
<1>5. PhaseBar' = PhaseBar /\ AnswerBar' = AnswerBar
  BY <1>2, BarsKept
<1>6. Lifecycle!Deliver(Key(j))
  BY <1>1, <1>2, <1>3, <1>4, <1>5 DEF Lifecycle!Deliver, PhaseBar, AnswerBar, AnswerOf
<1> QED BY <1>4, <1>6

LEMMA StutterMaps ==
  ASSUME UNCHANGED <<runs, markers>>, \A j \in JobIds : InUse(j)' <=> InUse(j)
  PROVE  AbstractStep
<1>1. PhaseBar' = PhaseBar /\ AnswerBar' = AnswerBar /\ AskedSends' = AskedSends
  BY BarsKept, AskedKept
<1>2. UNCHANGED Lifecycle!vars
  BY <1>1 DEF Lifecycle!vars, PhaseBar, AnswerBar, AnswerOf
<1> QED BY <1>2 DEF AbstractStep

LEMMA SchedulerMaps ==
  ASSUME TypeOK, LockProtectsRun, Settled, TypeOK', Settled',
         SchedulerNext, UNCHANGED handlerVars
  PROVE  AbstractStep
<1>1. ASSUME NEW r \in Runs, StartRun(r) \/ Elapse(r) PROVE AbstractStep
  BY <1>1, EnrolMaps, ElapseMaps DEF AbstractStep, Lifecycle!Next
<1>2. ASSUME NEW t \in Ticks, TickApply(t) PROVE AbstractStep
  BY <1>2, AdvanceMaps DEF AbstractStep, Lifecycle!Next
<1>3. ASSUME NEW t \in Ticks, TickDeadLetter(t) \/ TickRecord(t) PROVE AbstractStep
  BY <1>3, GiveUpMaps
<1>4. CASE UNCHANGED <<runs, jobs>>
  BY <1>4, StutterMaps DEF InUse, handlerVars
<1> QED
  BY <1>1, <1>2, <1>3, <1>4
     DEF SchedulerNext, TickStep, TickFault, TickStart, TickLock, TickSkip, TickAbort,
         TickPoisoned, RollBack, TickRecordSkip, TickRecordFails, TickCrash

LEMMA HandlersMap ==
  ASSUME TypeOK, LockProtectsRun, Settled, BusyInUse, TypeOK', Settled', HandlersNext
  PROVE  AbstractStep
<1>1. ASSUME NEW w \in Workers, NEW d \in Disps, PlaceCallFold(w, d) PROVE AbstractStep
  BY <1>1, AnswerMaps DEF AbstractStep, Lifecycle!Next
<1>2. ASSUME NEW w \in Workers, SendWaCommit(w) PROVE AbstractStep
  BY <1>2, DeliverMaps DEF AbstractStep, Lifecycle!Next
<1>3. CASE UNCHANGED <<runs, markers>>
  BY <1>3, HandlersKeepUses, StutterMaps
<1> QED
  BY <1>1, <1>2, <1>3
     DEF HandlersNext, WorkerStep, Fetch, PlaceCallReturn, PlaceCallDial, SendWaReturn,
         SendWaSend, Finish, Throw, WorkerCrash, Expire, ExpireSlow

LEMMA NextMaps ==
  ASSUME TypeOK, LockProtectsRun, Settled, BusyInUse, TypeOK', Settled', [Next]_vars
  PROVE  AbstractStep
<1>1. CASE UNCHANGED vars
  BY <1>1, StutterMaps DEF vars, handlerVars, InUse
<1> QED BY <1>1, SchedulerMaps, HandlersMap DEF Next

LEMMA InitMaps == Init => Lifecycle!Init
BY DEF Init, StoreInit, HandlersInit, AbsentRow, FreeJob, Lifecycle!Init, PhaseOf,
       AskedSends

\* However ticks overlap, jobs are retried and processes die, a run sleeps, calls
\* and takes one answer at a time, each message is delivered once and never
\* undone, and a run that is over stays over.
THEOREM LifecycleRefined == Spec => RefinesLifecycle
<1> DEFINE IInv == TypeOK /\ LockProtectsRun /\ Settled /\ BusyInUse
<1>1. Init => IInv
  BY InitTypeOK, InitLocks, InitSettled, InitBusyInUse
<1>2. IInv /\ [Next]_vars => IInv'
  BY NextTypes, NextLocks, NextSettled, NextBusyInUse
<1>3. IInv /\ IInv' /\ [Next]_vars => [Lifecycle!Next]_(Lifecycle!vars)
  BY NextMaps DEF AbstractStep
<1>4. Init => Lifecycle!Init
  BY InitMaps
<1> HIDE DEF IInv
<1> QED BY <1>1, <1>2, <1>3, <1>4, PTL DEF Spec, RefinesLifecycle, Lifecycle!Spec
-----------------------------------------------------------------------------
(* Inline writes.  Once written, an action's step lies behind its run.      *)

WrittenBehind(rank) ==
    \A r \in Runs, a \in Inline :
      /\ written[<<r, a>>] <= 1
      /\ written[<<r, a>>] = 1 =>
           \/ runs[r].status \in {"completed", "failed"}
           \/ a.step \in Steps /\ rank[a.step] < rank[runs[r].step]

\* Only the commit of a tick moves a run, and only there are rows written.
LEMMA MovedByApply ==
  ASSUME TypeOK, [Next]_vars, ~\E t \in Ticks : TickApply(t), NEW r \in Runs
  PROVE  runs'[r].step = runs[r].step /\ written' = written
<1> USE DEF TypeOK, StoreTypeOK
<1>1. written' = written
  <2>1. CASE SchedulerNext
    BY <2>1
       DEF SchedulerNext, TickStep, TickFault, StartRun, Elapse, TickStart, TickLock,
           TickSkip, TickDeadLetter, TickAbort, TickPoisoned, RollBack, TickRecord,
           TickRecordSkip, TickRecordFails, TickCrash, schedulerVars
  <2> QED BY <2>1 DEF Next, vars, schedulerVars
<1>2. CASE UNCHANGED runs
  BY <1>1, <1>2
<1>3. ASSUME NEW q \in Runs, StartRun(q) \/ Elapse(q) PROVE runs'[r].step = runs[r].step
  <2>1. CASE StartRun(q)
    BY <2>1 DEF StartRun, Row
  <2>2. CASE Elapse(q)
    BY <2>2 DEF Elapse, Row
  <2> QED BY <1>3, <2>1, <2>2
<1>4. ASSUME NEW t \in Ticks, TickDeadLetter(t) \/ TickRecord(t)
      PROVE  runs'[r].step = runs[r].step
  <2>1. CASE TickDeadLetter(t)
    BY <2>1 DEF TickDeadLetter, Row
  <2>2. CASE TickRecord(t)
    BY <2>2 DEF TickRecord, Charged, Row
  <2> QED BY <1>4, <2>1, <2>2
<1>5. ASSUME NEW w \in Workers, NEW d \in Disps, PlaceCallFold(w, d)
      PROVE  runs'[r].step = runs[r].step
  BY <1>5 DEF PlaceCallFold, Row
<1> QED BY <1>1, <1>2, <1>3, <1>4, <1>5, RunWriters

LEMMA NextWritten ==
  ASSUME NEW rank \in [Steps -> Nat], Onward(rank),
         TypeOK, LockProtectsRun, Settled, WrittenBehind(rank), [Next]_vars
  PROVE  WrittenBehind(rank)'
<1> USE DEF TypeOK, StoreTypeOK, SchedulerTypeOK
<1>1. SUFFICES ASSUME NEW r \in Runs, NEW a \in Inline
               PROVE  /\ written'[<<r, a>>] <= 1
                      /\ written'[<<r, a>>] = 1 =>
                           \/ runs'[r].status \in {"completed", "failed"}
                           \/ a.step \in Steps /\ rank[a.step] < rank[runs'[r].step]
  BY DEF WrittenBehind
<1>2. /\ written[<<r, a>>] \in Nat /\ written[<<r, a>>] <= 1
      /\ written[<<r, a>>] = 1 => \/ runs[r].status \in {"completed", "failed"}
                                  \/ a.step \in Steps /\ rank[a.step] < rank[runs[r].step]
  BY DEF WrittenBehind
<1>3. CASE ~\E t \in Ticks : TickApply(t)
  BY <1>2, <1>3, MovedByApply, OverIsFinal
<1>4. ASSUME NEW t \in Ticks, TickApply(t), r # ticks[t].run
      PROVE  runs'[r] = runs[r] /\ written'[<<r, a>>] = written[<<r, a>>]
  BY <1>4 DEF TickApply
<1>5. ASSUME NEW t \in Ticks, TickApply(t), r = ticks[t].run
      PROVE  /\ written'[<<r, a>>] <= 1
             /\ written'[<<r, a>>] = 1 =>
                  \/ runs'[r].status \in {"completed", "failed"}
                  \/ a.step \in Steps /\ rank[a.step] < rank[runs'[r].step]
  <2>1. PICK s \in Steps, d \in Disps \cup {NoDisp} : s = runs[r].step /\ d = runs[r].disp
    BY DEF Row
  <2>2. PICK w \in WalkResult : w = Walk[<<s, d>>]
    BY <2>1, WalkAssumption
  <2>3. /\ runs[r].status \in Live
        /\ w.status \in {"waiting", "completed"}
        /\ runs' = [runs EXCEPT ![r] = Advanced(runs[r], w, Inserted(r, w.actions))]
    BY <1>5, <2>1, <2>2, AppliedWalk DEF IsDue
  <2>4. runs'[r].status = w.status /\ runs'[r].step = w.step
    BY <2>3 DEF Advanced
  <2>5. written'[<<r, a>>] = IF a \in w.actions THEN written[<<r, a>>] + 1 ELSE written[<<r, a>>]
    BY <1>5, <2>1, <2>2 DEF TickApply
  <2>6. d = NoDisp \/ s \in CallSteps
    BY <2>1 DEF Settled, DispositionAtCall
  <2>7. /\ w.status = "waiting" => rank[s] <= rank[w.step]
        /\ a \in w.actions => /\ a.step \in Steps /\ rank[s] <= rank[a.step]
                              /\ w.status = "waiting" => rank[a.step] < rank[w.step]
    BY <2>2, <2>3, <2>6 DEF Onward
  <2>8. w.step \in Steps /\ rank[w.step] \in Nat /\ rank[s] \in Nat
        /\ (a.step \in Steps => rank[a.step] \in Nat)
    BY DEF WalkResult
  <2>9. written[<<r, a>>] = 1 => a.step \in Steps /\ rank[a.step] < rank[s]
    BY <1>2, <2>1, <2>3 DEF Live
  <2>10. a \in w.actions => written[<<r, a>>] = 0
    BY <1>2, <2>7, <2>8, <2>9
  <2> QED BY <1>2, <2>3, <2>4, <2>5, <2>7, <2>8, <2>9, <2>10
<1> QED BY <1>2, <1>3, <1>4, <1>5

LEMMA InitWritten == ASSUME NEW rank PROVE Init => WrittenBehind(rank)
BY DEF Init, SchedulerInit, WrittenBehind

\* A sequence that never returns to a step writes each outcome or task at most
\* once, however its ticks overlap, are rolled back or die: the row and the
\* advance past its step commit together.
THEOREM InlineCorrect == NeverReturns => (Spec => []InlineWrittenOnce)
<1>1. SUFFICES ASSUME NEW rank \in [Steps -> Nat], Onward(rank)
               PROVE  Spec => []InlineWrittenOnce
  BY DEF NeverReturns
<1> DEFINE IInv == TypeOK /\ LockProtectsRun /\ Settled /\ WrittenBehind(rank)
<1>2. Init => IInv
  BY InitTypeOK, InitLocks, InitSettled, InitWritten
<1>3. IInv /\ [Next]_vars => IInv'
  BY <1>1, NextTypes, NextLocks, NextSettled, NextWritten
<1>4. IInv => InlineWrittenOnce
  BY DEF WrittenBehind, InlineWrittenOnce
<1> QED BY <1>2, <1>3, <1>4, PTL DEF Spec

=============================================================================
