---------------------------- MODULE EffectsProofs ----------------------------
(***************************************************************************)
(* What the job table promises, for every definition, bound and overlap:   *)
(* the attempt logs count its jobs, a parked run keeps one that may answer *)
(* it, and an effect is repeated only where something failed.              *)
(***************************************************************************)
EXTENDS PipelineProofs

-----------------------------------------------------------------------------
(* The attempt logs.                                                       *)

\* Only the commit of a tick writes the logs.
LEMMA LogsKept ==
  ASSUME TypeOK, [Next]_vars, NEW r \in Runs
  PROVE  \/ \E t \in Ticks : TickApply(t)
         \/ runs'[r].voice = runs[r].voice /\ runs'[r].whatsapp = runs[r].whatsapp
<1> USE DEF TypeOK, StoreTypeOK
<1>1. CASE UNCHANGED runs
  BY <1>1
<1>2. ASSUME NEW q \in Runs, StartRun(q) \/ Elapse(q)
      PROVE  runs'[r].voice = runs[r].voice /\ runs'[r].whatsapp = runs[r].whatsapp
  <2>1. CASE StartRun(q)
    BY <2>1 DEF StartRun, Row
  <2>2. CASE Elapse(q)
    BY <2>2 DEF Elapse, Row
  <2> QED BY <1>2, <2>1, <2>2
<1>3. ASSUME NEW t \in Ticks, TickDeadLetter(t) \/ TickRecord(t)
      PROVE  runs'[r].voice = runs[r].voice /\ runs'[r].whatsapp = runs[r].whatsapp
  <2>1. CASE TickDeadLetter(t)
    BY <2>1 DEF TickDeadLetter, Row
  <2>2. CASE TickRecord(t)
    BY <2>2 DEF TickRecord, Charged, Row
  <2> QED BY <1>3, <2>1, <2>2
<1>4. ASSUME NEW w \in Workers, NEW d \in Disps, PlaceCallFold(w, d)
      PROVE  runs'[r].voice = runs[r].voice /\ runs'[r].whatsapp = runs[r].whatsapp
  BY <1>4 DEF PlaceCallFold, Row
<1> QED BY <1>1, <1>2, <1>3, <1>4, RunWriters

Made(r, kind) == {j \in JobIds : RunOf(j) = r /\ ActionOf(j).kind = kind /\ InUse(j)}

LogsCountMade ==
    \A r \in Runs : /\ runs[r].voice = Cardinality(Made(r, "place_call"))
                    /\ runs[r].whatsapp = Cardinality(Made(r, "send_wa"))

LEMMA AttemptsAreMade == LogsCountMade => AttemptsCountJobs
<1>1. ASSUME NEW r, NEW kind
      PROVE  OfKind({j \in JobIds : RunOf(j) = r /\ jobs[j].state # "free"}, kind)
               = Cardinality(Made(r, kind))
  <2>1. {j \in {i \in JobIds : RunOf(i) = r /\ jobs[i].state # "free"} : ActionOf(j).kind = kind}
          = Made(r, kind)
    BY DEF Made, InUse
  <2> QED BY <2>1 DEF OfKind
<1> QED BY <1>1 DEF AttemptsCountJobs, LogsCountMade

\* Sets of jobs that share none.
LEMMA CountOfBoth ==
  ASSUME NEW S \in SUBSET JobIds, NEW T \in SUBSET JobIds, S \cap T = {}
  PROVE  Cardinality(S \cup T) = Cardinality(S) + Cardinality(T)
<1>1. IsFiniteSet(S) /\ IsFiniteSet(T)
  BY JobIdsFinite, FS_Subset
<1>2. Cardinality({}) = 0
  BY FS_EmptySet
<1>3. Cardinality(S) \in Nat /\ Cardinality(T) \in Nat
  BY CountIsNat
<1>4. Cardinality(S \cup T) = Cardinality(S) + Cardinality(T) - Cardinality(S \cap T)
  BY <1>1, FS_Union
<1>5. Cardinality(S \cap T) = 0
  <2>1. S \cap T = {}
    OBVIOUS
  <2> QED BY <1>2, <2>1, Zenon
<1> QED BY <1>3, <1>4, <1>5

LEMMA MadeByApply ==
  ASSUME TypeOK, LockProtectsRun, NEW t \in Ticks, TickApply(t), NEW kind,
         NEW r \in Runs
  PROVE  Cardinality(Made(r, kind)') =
           Cardinality(Made(r, kind))
             + (IF r = ticks[t].run THEN OfKind(NewJobs(t), kind) ELSE 0)
<1>1. \A j \in JobIds : InUse(j)' <=> InUse(j) \/ j \in NewJobs(t)
  BY ApplyUses
<1>2. \A j \in NewJobs(t) : j \in JobIds /\ RunOf(j) = ticks[t].run /\ ~InUse(j)
  BY NewJobsAreFree DEF NewJobs, RunOf
<1>3. Made(r, kind)' = {j \in JobIds : RunOf(j) = r /\ ActionOf(j).kind = kind /\ InUse(j)'}
  BY DEF Made, RunOf, ActionOf
<1>4. CASE r = ticks[t].run
  <2> DEFINE new == {j \in NewJobs(t) : ActionOf(j).kind = kind}
  <2>1. Made(r, kind)' = Made(r, kind) \cup new
    BY <1>1, <1>2, <1>3, <1>4 DEF Made
  <2>2. Made(r, kind) \cap new = {} /\ Made(r, kind) \subseteq JobIds /\ new \subseteq JobIds
    BY <1>2 DEF Made
  <2>3. Cardinality(Made(r, kind) \cup new) = Cardinality(Made(r, kind)) + Cardinality(new)
    BY <2>2, CountOfBoth
  <2> QED BY <1>4, <2>1, <2>3 DEF OfKind
<1>5. CASE r # ticks[t].run
  <2>1. Made(r, kind)' = Made(r, kind)
    BY <1>1, <1>2, <1>3, <1>5 DEF Made
  <2>2. Cardinality(Made(r, kind)) \in Nat
    BY CountIsNat DEF Made
  <2> QED BY <1>5, <2>1, <2>2
<1> QED BY <1>4, <1>5

LEMMA NextAttempts ==
  ASSUME TypeOK, LockProtectsRun, BusyInUse, LogsCountMade, [Next]_vars
  PROVE  LogsCountMade'
<1>1. SUFFICES ASSUME NEW r \in Runs
               PROVE  /\ runs'[r].voice = Cardinality(Made(r, "place_call")')
                      /\ runs'[r].whatsapp = Cardinality(Made(r, "send_wa")')
  BY DEF LogsCountMade
<1>2. /\ runs[r].voice = Cardinality(Made(r, "place_call"))
      /\ runs[r].whatsapp = Cardinality(Made(r, "send_wa"))
  BY DEF LogsCountMade
<1>3. ASSUME NEW t \in Ticks, TickApply(t)
      PROVE  /\ runs'[r].voice = Cardinality(Made(r, "place_call")')
             /\ runs'[r].whatsapp = Cardinality(Made(r, "send_wa")')
  <2>1. CASE r = ticks[t].run
    <3> DEFINE w == Walk[<<runs[r].step, runs[r].disp>>]
    <3>1. runs'[r] = Advanced(runs[r], w, NewJobs(t))
      BY <1>3, <2>1, AppliedWalk DEF NewJobs, TypeOK, StoreTypeOK
    <3>2. /\ runs'[r].voice = runs[r].voice + OfKind(NewJobs(t), "place_call")
          /\ runs'[r].whatsapp = runs[r].whatsapp + OfKind(NewJobs(t), "send_wa")
      BY <3>1 DEF Advanced
    <3> QED BY <1>2, <1>3, <2>1, <3>2, MadeByApply
  <2>2. CASE r # ticks[t].run
    <3>1. runs'[r] = runs[r]
      BY <1>3, <2>2, ApplyWrites DEF TypeOK, StoreTypeOK
    <3>2. Cardinality(Made(r, "place_call")) \in Nat /\ Cardinality(Made(r, "send_wa")) \in Nat
      BY CountIsNat DEF Made
    <3> QED BY <1>2, <1>3, <2>2, <3>1, <3>2, MadeByApply
  <2> QED BY <2>1, <2>2
<1>4. ASSUME ~\E t \in Ticks : TickApply(t)
      PROVE  /\ runs'[r].voice = Cardinality(Made(r, "place_call")')
             /\ runs'[r].whatsapp = Cardinality(Made(r, "send_wa")')
  <2>1. \A j \in JobIds : InUse(j)' <=> InUse(j)
    BY <1>4, UsesKept
  <2>2. \A kind \in {"place_call", "send_wa"} : Made(r, kind)' = Made(r, kind)
    BY <2>1 DEF Made, RunOf, ActionOf
  <2> QED BY <1>2, <1>4, <2>2, LogsKept
<1> QED BY <1>3, <1>4

LEMMA InitAttempts == Init => LogsCountMade
<1>1. SUFFICES ASSUME Init, NEW r \in Runs, NEW kind PROVE Cardinality(Made(r, kind)) = 0
  BY DEF LogsCountMade, Init, StoreInit, AbsentRow
<1>2. Made(r, kind) = {}
  BY <1>1 DEF Init, StoreInit, FreeJob, Made, InUse
<1> QED BY <1>2, FS_EmptySet

\* A run's log of attempts, which the guardrails read, counts the jobs inserted
\* for it: no rollback, crash or singleton conflict makes them differ.
THEOREM AttemptsCorrect == Spec => []AttemptsCountJobs
<1> DEFINE IInv == TypeOK /\ LockProtectsRun /\ BusyInUse /\ LogsCountMade
<1>1. Init => IInv
  BY InitTypeOK, InitLocks, InitBusyInUse, InitAttempts
<1>2. IInv /\ [Next]_vars => IInv'
  BY NextTypes, NextLocks, NextBusyInUse, NextAttempts
<1> QED BY <1>1, <1>2, AttemptsAreMade, PTL DEF Spec

-----------------------------------------------------------------------------
(* Jobs and their tries.  A slot not fetched yet has no try, no effect and  *)
(* no row; a busy worker's try is one its job counts, and its own alone.    *)

Waits == {"free", "created"}

SlotsClean ==
    \A j \in JobIds : jobs[j].state \in Waits =>
      jobs[j].tries = 0 /\ jobs[j].sent = 0 /\ jobs[j].rows = 0

TriesCounted ==
    \A w \in Workers : workers[w].pc # "idle" =>
      /\ jobs[workers[w].job].state \notin Waits
      /\ 1 <= workers[w].try /\ workers[w].try <= jobs[workers[w].job].tries

TriesApart ==
    \A u, w \in Workers :
      /\ workers[u].pc # "idle" /\ workers[w].pc # "idle"
      /\ workers[u].job = workers[w].job /\ workers[u].try = workers[w].try
      => u = w

JobsInv == SlotsClean /\ TriesCounted /\ TriesApart

\* What a step other than a fetch does to a job, and to a worker.
JobMoves(j) ==
    \/ jobs'[j] = jobs[j]
    \/ /\ jobs[j].state \notin Waits /\ jobs'[j].state \notin Waits
       /\ jobs'[j].tries = jobs[j].tries
    \/ jobs[j].state = "free" /\ jobs'[j] = NewJob

WorkerMoves(w) ==
    \/ workers'[w] = IdleWorker
    \/ /\ workers[w].pc # "idle" /\ workers'[w].pc # "idle"
       /\ workers'[w].job = workers[w].job /\ workers'[w].try = workers[w].try

LEMMA GotoMoves ==
  ASSUME TypeOK, NEW w \in Workers, workers[w].pc # "idle",
         Goto(w, "sent") \/ Goto(w, "done"), NEW u \in Workers
  PROVE  WorkerMoves(u)
BY DEF TypeOK, HandlersTypeOK, Goto, Worker, IdleWorker, WorkerMoves

LEMMA IdleMoves ==
  ASSUME TypeOK, NEW w \in Workers, workers' = [workers EXCEPT ![w] = IdleWorker],
         NEW u \in Workers
  PROVE  WorkerMoves(u)
BY DEF TypeOK, HandlersTypeOK, Worker, IdleWorker, WorkerMoves

LEMMA KeptMoves ==
  ASSUME TypeOK
  PROVE  /\ UNCHANGED jobs => \A j \in JobIds : JobMoves(j)
         /\ UNCHANGED workers => \A w \in Workers : WorkerMoves(w)
BY DEF TypeOK, HandlersTypeOK, Worker, IdleWorker, WorkerMoves, JobMoves

LEMMA BusyJob ==
  ASSUME TypeOK, JobsInv, NEW w \in Workers, workers[w].pc # "idle"
  PROVE  workers[w].job \in JobIds /\ jobs[workers[w].job].state \notin Waits
BY BusyWorker DEF TypeOK, JobsInv, TriesCounted

\* An effect or a row is added to the job of a busy worker.
LEMMA CountMoves ==
  ASSUME TypeOK, JobsInv, NEW w \in Workers, workers[w].pc # "idle",
         \/ jobs' = [jobs EXCEPT ![workers[w].job].sent = @ + 1]
         \/ jobs' = [jobs EXCEPT ![workers[w].job].rows = @ + 1],
         NEW j \in JobIds
  PROVE  JobMoves(j)
<1>1. workers[w].job \in JobIds /\ jobs[workers[w].job].state \notin Waits
  BY BusyJob
<1> QED BY <1>1 DEF TypeOK, StoreTypeOK, Job, JobMoves

LEMMA SettleMoves ==
  ASSUME TypeOK, NEW k, k \in JobIds, jobs[k].state \notin Waits,
         \/ jobs' = [jobs EXCEPT ![k] = FailedTry(@)]
         \/ jobs' = [jobs EXCEPT ![k].state = "completed"],
         NEW j \in JobIds
  PROVE  JobMoves(j)
BY DEF TypeOK, StoreTypeOK, FailedTry, Job, JobMoves, Waits

LEMMA NextMoves ==
  ASSUME TypeOK, JobsInv, [Next]_vars
  PROVE  \/ \E w \in Workers, j \in JobIds : Fetch(w, j)
         \/ (\A j \in JobIds : JobMoves(j)) /\ (\A w \in Workers : WorkerMoves(w))
<1> DEFINE Moves == (\A j \in JobIds : JobMoves(j)) /\ (\A w \in Workers : WorkerMoves(w))
<1>1. CASE UNCHANGED <<jobs, workers>>
  BY <1>1, KeptMoves
<1>2. ASSUME NEW t \in Ticks, TickApply(t), UNCHANGED handlerVars PROVE Moves
  <2>1. ASSUME NEW j \in JobIds PROVE JobMoves(j)
    <3>1. jobs'[j] = IF j \in NewJobs(t) THEN NewJob ELSE jobs[j]
      BY <1>2 DEF TickApply, NewJobs
    <3>2. j \in NewJobs(t) => jobs[j].state = "free"
      BY NewJobsAreFree DEF NewJobs, InUse
    <3> QED BY <3>1, <3>2 DEF JobMoves
  <2> QED BY <1>2, <2>1, KeptMoves DEF handlerVars
<1>3. ASSUME NEW w \in Workers, PlaceCallReturn(w) \/ SendWaReturn(w) PROVE Moves
  BY <1>3, KeptMoves, GotoMoves DEF PlaceCallReturn, SendWaReturn
<1>4. ASSUME NEW w \in Workers,
             \/ PlaceCallDial(w) \/ SendWaSend(w) \/ SendWaCommit(w)
             \/ \E d \in Disps : PlaceCallFold(w, d)
      PROVE  Moves
  <2>1. /\ workers[w].pc # "idle"
        /\ \/ jobs' = [jobs EXCEPT ![workers[w].job].sent = @ + 1]
           \/ jobs' = [jobs EXCEPT ![workers[w].job].rows = @ + 1]
        /\ Goto(w, "sent") \/ Goto(w, "done")
    BY <1>4 DEF PlaceCallDial, SendWaSend, SendWaCommit, PlaceCallFold
  <2> QED BY <2>1, CountMoves, GotoMoves
<1>5. ASSUME NEW w \in Workers, Finish(w) \/ Throw(w) PROVE Moves
  <2>1. workers[w].job \in JobIds /\ jobs[workers[w].job].state \notin Waits
    BY <1>5, BusyJob DEF Finish, Throw
  <2>2. /\ \/ UNCHANGED jobs
           \/ jobs' = [jobs EXCEPT ![workers[w].job] = FailedTry(@)]
           \/ jobs' = [jobs EXCEPT ![workers[w].job].state = "completed"]
        /\ workers' = [workers EXCEPT ![w] = IdleWorker]
    BY <1>5 DEF Finish, Throw, FailJob
  <2> QED BY <2>1, <2>2, KeptMoves, SettleMoves, IdleMoves
<1>6. ASSUME NEW w \in Workers, WorkerCrash(w) PROVE Moves
  BY <1>6, KeptMoves, IdleMoves DEF WorkerCrash
<1>7. ASSUME NEW j \in JobIds, Expire(j) \/ ExpireSlow(j) PROVE Moves
  BY <1>7, KeptMoves, SettleMoves DEF Expire, ExpireSlow, Abandoned, FailJob, Waits
<1>8. CASE SchedulerNext /\ UNCHANGED handlerVars
  BY <1>1, <1>2, <1>8
     DEF SchedulerNext, TickStep, TickFault, StartRun, Elapse, TickStart, TickLock,
         TickSkip, TickDeadLetter, TickAbort, TickPoisoned, RollBack, TickRecord,
         TickRecordSkip, TickRecordFails, TickCrash, handlerVars
<1>9. CASE HandlersNext
  BY <1>3, <1>4, <1>5, <1>6, <1>7, <1>9 DEF HandlersNext, WorkerStep
<1> QED BY <1>1, <1>8, <1>9 DEF Next, vars, handlerVars

LEMMA MovesKeepJobs ==
  ASSUME TypeOK, JobsInv,
         \A j \in JobIds : JobMoves(j), \A w \in Workers : WorkerMoves(w)
  PROVE  JobsInv'
<1>1. SlotsClean'
  BY DEF JobsInv, SlotsClean, JobMoves, NewJob, FreeJob, Waits
<1>2. ASSUME NEW w \in Workers, workers'[w].pc # "idle"
      PROVE  /\ workers[w].pc # "idle" /\ workers[w].job \in JobIds
             /\ workers'[w].job = workers[w].job /\ workers'[w].try = workers[w].try
  BY <1>2, BusyWorker DEF TypeOK, WorkerMoves, IdleWorker
<1>3. TriesCounted'
  <2>1. SUFFICES ASSUME NEW w \in Workers, workers'[w].pc # "idle"
                 PROVE  /\ jobs'[workers'[w].job].state \notin Waits
                        /\ 1 <= workers'[w].try
                        /\ workers'[w].try <= jobs'[workers'[w].job].tries
    BY DEF TriesCounted, Waits
  <2>2. JobMoves(workers[w].job)
    BY <1>2, <2>1
  <2> QED BY <1>2, <2>1, <2>2 DEF JobsInv, TriesCounted, JobMoves, Waits
<1>4. TriesApart'
  BY <1>2 DEF JobsInv, TriesApart
<1> QED BY <1>1, <1>3, <1>4 DEF JobsInv

LEMMA FetchKeepsJobs ==
  ASSUME TypeOK, JobsInv, NEW w \in Workers, NEW k \in JobIds, Fetch(w, k)
  PROVE  JobsInv'
<1> USE DEF TypeOK, StoreTypeOK, HandlersTypeOK
<1>1. /\ workers[w].pc = "idle"
      /\ jobs'[k].state = "active" /\ jobs'[k].tries = jobs[k].tries + 1
      /\ \A j \in JobIds : j # k => jobs'[j] = jobs[j]
      /\ workers'[w] = [pc |-> "fetched", job |-> k, try |-> jobs[k].tries + 1]
      /\ \A u \in Workers : u # w => workers'[u] = workers[u]
      /\ jobs[k].tries \in Nat
  BY DEF Fetch, Fetched, Job
<1>2. SlotsClean'
  BY <1>1 DEF JobsInv, SlotsClean, Waits
<1>3. TriesCounted'
  <2>1. SUFFICES ASSUME NEW u \in Workers, workers'[u].pc # "idle"
                 PROVE  /\ jobs'[workers'[u].job].state \notin Waits
                        /\ 1 <= workers'[u].try
                        /\ workers'[u].try <= jobs'[workers'[u].job].tries
    BY DEF TriesCounted, Waits
  <2>2. CASE u = w
    BY <1>1, <2>2 DEF Waits
  <2>3. CASE u # w
    <3>1. /\ workers[u].job \in JobIds /\ jobs[workers[u].job].state \notin Waits
          /\ 1 <= workers[u].try /\ workers[u].try <= jobs[workers[u].job].tries
          /\ workers[u].try \in Nat
      BY <1>1, <2>1, <2>3, BusyWorker DEF JobsInv, TriesCounted, Worker, IdleWorker
    <3> QED BY <1>1, <2>1, <2>3, <3>1 DEF Waits
  <2> QED BY <2>2, <2>3
<1>4. TriesApart'
  <2>1. \A u \in Workers : u # w /\ workers[u].pc # "idle" /\ workers[u].job = k =>
          workers[u].try # jobs[k].tries + 1
    BY <1>1 DEF JobsInv, TriesCounted, Worker, IdleWorker
  <2> QED BY <1>1, <2>1 DEF JobsInv, TriesApart
<1> QED BY <1>2, <1>3, <1>4 DEF JobsInv

LEMMA NextJobs == ASSUME TypeOK, JobsInv, [Next]_vars PROVE JobsInv'
BY NextMoves, MovesKeepJobs, FetchKeepsJobs

LEMMA InitJobs == Init => JobsInv
BY DEF Init, StoreInit, HandlersInit, FreeJob, IdleWorker, JobsInv, SlotsClean,
       TriesCounted, TriesApart

-----------------------------------------------------------------------------
(* A parked run has a job that may answer it.  The job that does so has     *)
(* committed nothing yet, and is not given up by a handler that found the   *)
(* run parked at a call: only the guard may refuse such a call.             *)

MayAnswer(r, j) ==
    /\ RunOf(j) = r /\ ActionOf(j).kind = "place_call"
    /\ InUse(j) /\ jobs[j].rows = 0
    /\ Serving(j) \/ jobs[j].state = "failed" \/ GuardMayBlock

Awaited ==
    \A r \in Runs : Parked(r) =>
      runs[r].step \in CallSteps /\ \E j \in JobIds : MayAnswer(r, j)

LEMMA AwaitedServes == Awaited => ParkedIsServed
BY DEF Awaited, ParkedIsServed, MayAnswer, InUse

LEMMA InitAwaited == Init => Awaited
BY DEF Init, StoreInit, AbsentRow, Awaited, Parked

\* Only the commit of a tick parks a run.
LEMMA ParkedBefore ==
  ASSUME TypeOK, [Next]_vars, NEW r \in Runs, Parked(r)',
         ~\E t \in Ticks : TickApply(t)
  PROVE  /\ Parked(r) /\ runs'[r].step = runs[r].step
         /\ \A w \in Workers, d \in Disps : PlaceCallFold(w, d) => RunAt(w) # r
<1> USE DEF TypeOK, StoreTypeOK
<1>1. runs'[r].status = "waiting" /\ runs'[r].wake = "none" /\ runs'[r].disp = NoDisp
  BY DEF Parked
<1>2. ASSUME NEW w \in Workers, NEW d \in Disps, PlaceCallFold(w, d)
      PROVE  RunAt(w) # r /\ runs'[r] = runs[r]
  <2>1. d # NoDisp
    BY StoreAssumption
  <2>2. CASE RunAt(w) = r
    BY <1>1, <1>2, <2>1, <2>2 DEF PlaceCallFold, Row
  <2>3. CASE RunAt(w) # r
    BY <1>2, <2>3 DEF PlaceCallFold
  <2> QED BY <2>2, <2>3
<1>3. ASSUME NEW q \in Runs, StartRun(q) \/ Elapse(q) PROVE runs'[r] = runs[r]
  <2>1. CASE StartRun(q)
    BY <1>1, <2>1 DEF StartRun, Row
  <2>2. CASE Elapse(q)
    BY <1>1, <2>2 DEF Elapse, Row
  <2> QED BY <1>3, <2>1, <2>2
<1>4. ASSUME NEW t \in Ticks, TickDeadLetter(t) PROVE runs'[r] = runs[r]
  BY <1>1, <1>4 DEF TickDeadLetter, Row
<1>5. ASSUME NEW t \in Ticks, TickRecord(t)
      PROVE  Parked(r) /\ runs'[r].step = runs[r].step
  BY <1>1, <1>5 DEF TickRecord, Charged, Row, Parked
<1>6. runs'[r] = runs[r] => Parked(r) /\ runs'[r].step = runs[r].step
  BY <1>1 DEF Parked
<1> QED BY <1>2, <1>3, <1>4, <1>5, <1>6, RunWriters

\* A step that leaves the job's row alone, and lets no worker be done with it.
LEMMA MayAnswerKept ==
  ASSUME NEW r \in Runs, NEW j \in JobIds, MayAnswer(r, j),
         jobs'[j].state = jobs[j].state, jobs'[j].tries = jobs[j].tries,
         jobs'[j].rows = jobs[j].rows,
         \A u \in Workers : workers'[u].job = j /\ workers'[u].pc = "done" =>
                               workers'[u] = workers[u]
  PROVE  MayAnswer(r, j)'
BY DEF MayAnswer, Serving, Current, InUse, RunOf, ActionOf

\* A failed try puts the job back into the queue, or fails it for good.
LEMMA MayAnswerFails ==
  ASSUME TypeOK, NEW r \in Runs, NEW j \in JobIds, MayAnswer(r, j),
         jobs' = [jobs EXCEPT ![j] = FailedTry(@)]
  PROVE  MayAnswer(r, j)'
<1>1. jobs'[j].state \in {"retry", "failed"} /\ jobs'[j].rows = jobs[j].rows
  BY DEF FailedTry, TypeOK, StoreTypeOK, Job
<1> QED BY <1>1 DEF MayAnswer, Serving, InUse, RunOf, ActionOf

LEMMA MayAnswerFetched ==
  ASSUME TypeOK, JobsInv, NEW r \in Runs, NEW j \in JobIds, MayAnswer(r, j),
         NEW w \in Workers, NEW k \in JobIds, Fetch(w, k)
  PROVE  MayAnswer(r, j)'
<1> USE DEF TypeOK, StoreTypeOK, HandlersTypeOK
<1>1. /\ workers[w].pc = "idle"
      /\ jobs'[k].state = "active" /\ jobs'[k].tries = jobs[k].tries + 1
      /\ jobs'[k].rows = jobs[k].rows
      /\ \A i \in JobIds : i # k => jobs'[i] = jobs[i]
      /\ workers'[w] = [pc |-> "fetched", job |-> k, try |-> jobs[k].tries + 1]
      /\ \A u \in Workers : u # w => workers'[u] = workers[u]
      /\ jobs[k].tries \in Nat
  BY DEF Fetch, Fetched, Job
<1>2. CASE j = k
  <2>1. ASSUME NEW u \in Workers, workers'[u].job = j, workers'[u].pc = "done"
        PROVE  workers'[u].try # jobs'[j].tries
    BY <1>1, <1>2, <2>1 DEF JobsInv, TriesCounted, Worker, IdleWorker
  <2> QED BY <1>1, <1>2, <2>1 DEF MayAnswer, Serving, Current, InUse, RunOf, ActionOf
<1>3. CASE j # k
  BY <1>1, <1>3, MayAnswerKept
<1> QED BY <1>2, <1>3

\* What a worker does to the job of another leaves the run's answer open.
LEMMA MayAnswerWorker ==
  ASSUME TypeOK, JobsInv, NEW r \in Runs, NEW j \in JobIds, MayAnswer(r, j),
         Parked(r), runs[r].step \in CallSteps, NEW w \in Workers,
         WorkerStep(w) \/ Throw(w) \/ WorkerCrash(w),
         \A d \in Disps : PlaceCallFold(w, d) => RunAt(w) # r
  PROVE  MayAnswer(r, j)'
<1> USE DEF TypeOK, StoreTypeOK, HandlersTypeOK
<1>1. ASSUME NEW pc, Goto(w, pc)
      PROVE  \A u \in Workers : u # w => workers'[u] = workers[u]
  BY <1>1 DEF Goto
<1>2. ASSUME workers' = [workers EXCEPT ![w] = IdleWorker]
      PROVE  \A u \in Workers : workers'[u].pc = "done" => workers'[u] = workers[u]
  BY <1>2 DEF IdleWorker
<1>3. CASE PlaceCallReturn(w)
  <2>1. CASE workers[w].job = j
    <3>1. ~StaleCall(r)
      BY DEF Parked, StaleCall
    <3>2. GuardMayBlock
      BY <1>3, <2>1, <3>1 DEF PlaceCallReturn, RunAt, MayAnswer
    <3> QED BY <1>3, <3>2 DEF PlaceCallReturn, MayAnswer, InUse, RunOf, ActionOf
  <2>2. CASE workers[w].job # j
    <3>1. workers'[w].job = workers[w].job
      BY <1>3 DEF PlaceCallReturn, Goto, Worker, IdleWorker
    <3> QED BY <1>1, <1>3, <2>2, <3>1, MayAnswerKept DEF PlaceCallReturn
  <2> QED BY <2>1, <2>2
<1>4. CASE SendWaReturn(w)
  <2>1. workers[w].job # j
    BY <1>4 DEF SendWaReturn, Handling, MayAnswer
  <2>2. workers'[w].job = workers[w].job
    BY <1>4 DEF SendWaReturn, Goto, Worker, IdleWorker
  <2> QED BY <1>1, <1>4, <2>1, <2>2, MayAnswerKept DEF SendWaReturn
<1>5. CASE PlaceCallDial(w) \/ SendWaSend(w)
  <2>1. /\ jobs' = [jobs EXCEPT ![workers[w].job].sent = @ + 1]
        /\ Goto(w, "sent")
    BY <1>5 DEF PlaceCallDial, SendWaSend
  <2>2. jobs'[j].state = jobs[j].state /\ jobs'[j].tries = jobs[j].tries
        /\ jobs'[j].rows = jobs[j].rows
    BY <2>1 DEF Job
  <2>3. workers'[w].pc = "sent"
    BY <1>5, <2>1 DEF Goto, Worker, IdleWorker, PlaceCallDial, SendWaSend
  <2> QED BY <1>1, <2>1, <2>2, <2>3, MayAnswerKept
<1>6. CASE SendWaCommit(w) \/ \E d \in Disps : PlaceCallFold(w, d)
  <2>1. workers[w].job # j
    BY <1>6 DEF SendWaCommit, Handling, MayAnswer, RunAt
  <2>2. /\ jobs' = [jobs EXCEPT ![workers[w].job].rows = @ + 1]
        /\ Goto(w, "done")
    BY <1>6 DEF PlaceCallFold, SendWaCommit
  <2>3. workers'[w].job = workers[w].job
    <3>1. workers[w].pc = "sent"
      BY <1>6 DEF PlaceCallFold, SendWaCommit
    <3> QED BY <2>2, <3>1 DEF Goto, Worker, IdleWorker
  <2> QED BY <1>1, <2>1, <2>2, <2>3, MayAnswerKept
<1>7. CASE Finish(w)
  <2>1. CASE workers[w].job = j /\ Current(w)
    <3>1. ~Serving(j)
      BY <1>7, <2>1 DEF Finish, Serving, Current
    <3>2. jobs'[j].rows = jobs[j].rows /\ jobs'[j].state = "completed" /\ jobs[j].state = "active"
      BY <1>7, <2>1 DEF Finish, Current, Job
    <3> QED BY <3>1, <3>2 DEF MayAnswer, InUse, RunOf, ActionOf
  <2>2. CASE ~(workers[w].job = j /\ Current(w))
    <3>1. jobs'[j] = jobs[j]
      BY <1>7, <2>2 DEF Finish
    <3> QED BY <1>2, <1>7, <3>1, MayAnswerKept DEF Finish
  <2> QED BY <2>1, <2>2
<1>8. CASE Throw(w)
  <2>1. CASE workers[w].job = j /\ Current(w)
    BY <1>8, <2>1, MayAnswerFails DEF Throw, FailJob
  <2>2. CASE ~(workers[w].job = j /\ Current(w))
    <3>1. jobs'[j] = jobs[j]
      BY <1>8, <2>2 DEF Throw, FailJob
    <3> QED BY <1>2, <1>8, <3>1, MayAnswerKept DEF Throw
  <2> QED BY <2>1, <2>2
<1>9. CASE WorkerCrash(w)
  BY <1>2, <1>9, MayAnswerKept DEF WorkerCrash
<1> QED BY <1>3, <1>4, <1>5, <1>6, <1>7, <1>8, <1>9 DEF WorkerStep

\* The job that answers a run a tick has just parked.
LEMMA ParkedByApply ==
  ASSUME TypeOK, LockProtectsRun, Settled, JobsInv, NEW t \in Ticks, TickApply(t),
         UNCHANGED handlerVars, NEW r \in Runs, r = ticks[t].run, Parked(r)'
  PROVE  runs'[r].step \in CallSteps /\ \E j \in JobIds : MayAnswer(r, j)'
<1> DEFINE w == Walk[<<runs[r].step, runs[r].disp>>]
<1>1. w \in WalkResult /\ HasRoom(r, w.actions)
  BY AppliedWalk DEF TickApply
<1>2. runs'[r] = Advanced(runs[r], w, Inserted(r, w.actions))
  BY AppliedWalk DEF TypeOK, StoreTypeOK
<1>3. w.status = "waiting" /\ w.wake = "none" /\ runs'[r].step = w.step
  BY <1>2 DEF Advanced, Parked
<1>4. w.step \in CallSteps /\ \E a \in w.actions : a.kind = "place_call"
  BY <1>3, AdvancedSettles
<1>5. PICK a \in w.actions : a.kind = "place_call"
  BY <1>4
<1>6. a \in External
  BY <1>1, <1>5 DEF WalkResult, External, ActionQueues
<1>7. Queued(r, a) \/ NextGen(r, a) # {}
  BY <1>1, <1>5, <1>6 DEF HasRoom
<1>8. \A j \in JobIds : jobs'[j] = IF j \in NewJobs(t) THEN NewJob ELSE jobs[j]
  BY DEF TickApply, NewJobs
<1>9. \E g \in 1..MaxGen : jobs'[<<r, a, g>>].state = "created" /\ jobs'[<<r, a, g>>].rows = 0
  <2>1. CASE Queued(r, a)
    <3>1. PICK g \in 1..MaxGen : jobs[<<r, a, g>>].state = "created"
      BY <2>1 DEF Queued
    <3>2. <<r, a, g>> \in JobIds /\ <<r, a, g>> \notin NewJobs(t)
      BY <1>6, <3>1, NewJobsAreFree DEF JobIds, NewJobs, InUse
    <3> QED BY <1>8, <3>1, <3>2 DEF JobsInv, SlotsClean, Waits
  <2>2. CASE ~Queued(r, a)
    <3>1. PICK g \in 1..MaxGen : g \in NextGen(r, a)
      BY <1>7, <2>2 DEF NextGen
    <3>2. <<r, a, g>> \in NewJobs(t) /\ <<r, a, g>> \in JobIds
      BY <1>5, <1>6, <2>2, <3>1 DEF NewJobs, Inserted, JobIds
    <3> QED BY <1>8, <3>2 DEF NewJob, FreeJob
  <2> QED BY <2>1, <2>2
<1>10. PICK g \in 1..MaxGen : jobs'[<<r, a, g>>].state = "created" /\ jobs'[<<r, a, g>>].rows = 0
  BY <1>9
<1>11. <<r, a, g>> \in JobIds /\ RunOf(<<r, a, g>>) = r /\ ActionOf(<<r, a, g>>) = a
  BY <1>6 DEF JobIds, RunOf, ActionOf
<1>12. MayAnswer(r, <<r, a, g>>)'
  BY <1>5, <1>10, <1>11 DEF MayAnswer, Serving, InUse, RunOf, ActionOf
<1> QED BY <1>3, <1>4, <1>11, <1>12

\* Nothing else happens in the step in which a tick commits.
LEMMA ApplyAlone ==
  ASSUME TypeOK, [Next]_vars, NEW t \in Ticks, TickApply(t) PROVE UNCHANGED handlerVars
<1>1. ticks[t].pc = "locked" /\ ticks'[t].pc = "scan"
  BY NextRunMoves DEF TickApply, TypeOK, SchedulerTypeOK
<1> QED BY <1>1 DEF Next, vars, schedulerVars

LEMMA NextAwaited ==
  ASSUME TypeOK, LockProtectsRun, Settled, JobsInv, Awaited, [Next]_vars
  PROVE  Awaited'
<1>1. SUFFICES ASSUME NEW r \in Runs, Parked(r)'
               PROVE  runs'[r].step \in CallSteps /\ \E j \in JobIds : MayAnswer(r, j)'
  BY DEF Awaited
<1>2. ASSUME NEW t \in Ticks, TickApply(t), UNCHANGED handlerVars
      PROVE  runs'[r].step \in CallSteps /\ \E j \in JobIds : MayAnswer(r, j)'
  <2>1. CASE r = ticks[t].run
    BY <1>1, <1>2, <2>1, ParkedByApply
  <2>2. CASE r # ticks[t].run
    <3>1. runs'[r] = runs[r] /\ Parked(r)
      BY <1>1, <1>2, <2>2, ApplyWrites DEF TypeOK, StoreTypeOK, Parked
    <3>2. PICK j \in JobIds : MayAnswer(r, j)
      BY <3>1 DEF Awaited
    <3>3. jobs'[j] = jobs[j]
      <4>1. j \notin NewJobs(t)
        BY <3>2, NewJobsFree DEF MayAnswer
      <4> QED BY <1>2, <4>1, ApplyWrites
    <3>4. MayAnswer(r, j)'
      BY <1>2, <3>2, <3>3, MayAnswerKept DEF handlerVars
    <3> QED BY <3>1, <3>4 DEF Awaited
  <2> QED BY <2>1, <2>2
<1>3. \A t \in Ticks : TickApply(t) => UNCHANGED handlerVars
  BY ApplyAlone
<1>4. ASSUME ~\E t \in Ticks : TickApply(t)
      PROVE  runs'[r].step \in CallSteps /\ \E j \in JobIds : MayAnswer(r, j)'
  <2>1. /\ Parked(r) /\ runs'[r].step = runs[r].step
        /\ \A w \in Workers, d \in Disps : PlaceCallFold(w, d) => RunAt(w) # r
    BY <1>1, <1>4, ParkedBefore
  <2>2. runs[r].step \in CallSteps
    BY <2>1 DEF Awaited
  <2>3. PICK j \in JobIds : MayAnswer(r, j)
    BY <2>1 DEF Awaited
  <2>0. SUFFICES MayAnswer(r, j)'
    BY <2>1, <2>2
  <2>4. CASE UNCHANGED <<jobs, workers>>
    BY <2>3, <2>4, MayAnswerKept
  <2>5. ASSUME NEW w \in Workers, WorkerStep(w) \/ Throw(w) \/ WorkerCrash(w)
        PROVE  MayAnswer(r, j)'
    BY <2>1, <2>2, <2>3, <2>5, MayAnswerWorker
  <2>6. ASSUME NEW w \in Workers, NEW k \in JobIds, Fetch(w, k) PROVE MayAnswer(r, j)'
    BY <2>3, <2>6, MayAnswerFetched
  <2>7. ASSUME NEW k \in JobIds, Expire(k) \/ ExpireSlow(k) PROVE MayAnswer(r, j)'
    <3>1. jobs' = [jobs EXCEPT ![k] = FailedTry(@)] /\ UNCHANGED workers
      BY <2>7 DEF Expire, ExpireSlow, FailJob
    <3>2. CASE k = j
      BY <2>3, <3>1, <3>2, MayAnswerFails
    <3>3. CASE k # j
      BY <2>3, <3>1, <3>3, MayAnswerKept
    <3> QED BY <3>2, <3>3
  <2>8. CASE SchedulerNext /\ UNCHANGED handlerVars
    BY <1>4, <2>4, <2>8
       DEF SchedulerNext, TickStep, TickFault, StartRun, Elapse, TickStart, TickLock,
           TickSkip, TickDeadLetter, TickAbort, TickPoisoned, RollBack, TickRecord,
           TickRecordSkip, TickRecordFails, TickCrash, handlerVars
  <2>9. CASE HandlersNext
    BY <2>5, <2>6, <2>7, <2>9 DEF HandlersNext
  <2> QED BY <2>4, <2>8, <2>9 DEF Next, vars, handlerVars
<1> QED BY <1>2, <1>3, <1>4

\* Enqueue and advance commit together, so a run parked at a call always has a
\* job that can still answer it, unless the guard refused that job or it used up
\* its retries: no crash between the two, and no stale or duplicate job, orphans
\* a run.
THEOREM ServedCorrect == Spec => []ParkedIsServed
<1> DEFINE IInv == TypeOK /\ LockProtectsRun /\ Settled /\ JobsInv /\ Awaited
<1>1. Init => IInv
  BY InitTypeOK, InitLocks, InitSettled, InitJobs, InitAwaited
<1>2. IInv /\ [Next]_vars => IInv'
  BY NextTypes, NextLocks, NextSettled, NextJobs, NextAwaited
<1> QED BY <1>1, <1>2, AwaitedServes, PTL DEF Spec

-----------------------------------------------------------------------------
(* Failed tries.  A try has failed when its job was taken back for another  *)
(* or given up, or nobody works on it any more.  Each such try cost a fault *)
(* of its own, so there are no more of them than faults.                    *)

Lost(j) == jobs[j].state \in {"retry", "failed"} \/ Abandoned(j)

Tries == {x \in JobIds \X Nat : 1 <= x[2] /\ x[2] <= jobs[x[1]].tries}

FailedTries == {x \in Tries : x[2] < jobs[x[1]].tries \/ Lost(x[1])}

\* A worker settles its try only by finishing it.
TriesOpen ==
    \A w \in Workers :
      workers[w].pc # "idle" /\ workers[w].try = jobs[workers[w].job].tries =>
        jobs[workers[w].job].state # "completed"

LEMMA NextTriesOpen ==
  ASSUME TypeOK, JobsInv, TriesOpen, [Next]_vars PROVE TriesOpen'
<1> USE DEF TypeOK, StoreTypeOK, HandlersTypeOK
<1>1. ASSUME NEW w \in Workers, NEW k \in JobIds, Fetch(w, k) PROVE TriesOpen'
  <2>1. /\ jobs'[k].state = "active"
        /\ \A j \in JobIds : j # k => jobs'[j] = jobs[j]
        /\ workers'[w].job = k
        /\ \A u \in Workers : u # w => workers'[u] = workers[u]
    BY <1>1 DEF Fetch, Fetched, Job
  <2>2. \A u \in Workers : workers[u].pc # "idle" => workers[u].job \in JobIds
    BY BusyWorker
  <2> QED BY <2>1, <2>2 DEF TriesOpen
<1>2. ASSUME \A w \in Workers : WorkerMoves(w),
             \A j \in JobIds : JobMoves(j) /\ (jobs'[j].state = "completed" =>
                                               jobs[j].state = "completed")
      PROVE  TriesOpen'
  <2>1. SUFFICES ASSUME NEW u \in Workers, workers'[u].pc # "idle",
                        workers'[u].try = jobs'[workers'[u].job].tries
                 PROVE  jobs'[workers'[u].job].state # "completed"
    BY DEF TriesOpen
  <2>2. /\ workers[u].pc # "idle" /\ workers[u].job \in JobIds
        /\ workers'[u].job = workers[u].job /\ workers'[u].try = workers[u].try
    BY <1>2, <2>1, BusyWorker DEF WorkerMoves, IdleWorker
  <2>3. JobMoves(workers[u].job) /\ jobs[workers[u].job].state \notin Waits
    BY <1>2, <2>2 DEF JobsInv, TriesCounted
  <2>4. jobs'[workers[u].job].tries = jobs[workers[u].job].tries
    BY <2>3 DEF JobMoves, Waits
  <2> QED BY <1>2, <2>1, <2>2, <2>4 DEF TriesOpen
<1>3. ASSUME NEW w \in Workers, Finish(w) PROVE TriesOpen'
  <2>1. /\ workers'[w].pc = "idle"
        /\ \A u \in Workers : u # w => workers'[u] = workers[u]
        /\ workers[w].pc # "idle" /\ workers[w].job \in JobIds
    BY <1>3, BusyWorker DEF Finish, IdleWorker
  <2>2. SUFFICES ASSUME NEW u \in Workers, u # w, workers[u].pc # "idle",
                        workers[u].try = jobs'[workers[u].job].tries
                 PROVE  jobs'[workers[u].job].state # "completed"
    BY <2>1 DEF TriesOpen
  <2>3. workers[u].job \in JobIds
    BY <2>2, BusyWorker
  <2>4. jobs'[workers[u].job].tries = jobs[workers[u].job].tries
    BY <1>3, <2>3 DEF Finish, Job
  <2>5. CASE Current(w) /\ workers[u].job = workers[w].job
    BY <2>1, <2>2, <2>4, <2>5 DEF JobsInv, TriesApart, Current
  <2>6. CASE ~(Current(w) /\ workers[u].job = workers[w].job)
    <3>1. jobs'[workers[u].job] = jobs[workers[u].job]
      BY <1>3, <2>3, <2>6 DEF Finish
    <3> QED BY <2>2, <3>1 DEF TriesOpen
  <2> QED BY <2>5, <2>6
<1>4. \/ \E w \in Workers : Finish(w)
      \/ \E w \in Workers, k \in JobIds : Fetch(w, k)
      \/ \A j \in JobIds : jobs'[j].state = "completed" => jobs[j].state = "completed"
  <2>1. CASE UNCHANGED jobs
    BY <2>1
  <2>2. ASSUME NEW t \in Ticks, TickApply(t)
        PROVE  \A j \in JobIds : jobs'[j].state = "completed" => jobs[j].state = "completed"
    BY <2>2 DEF TickApply, NewJob, FreeJob
  <2>3. ASSUME NEW k \in JobIds, jobs' = [jobs EXCEPT ![k] = FailedTry(@)]
        PROVE  \A j \in JobIds : jobs'[j].state = "completed" => jobs[j].state = "completed"
    BY <2>3 DEF FailedTry, Job
  <2>4. ASSUME NEW w \in Workers,
               \/ jobs' = [jobs EXCEPT ![workers[w].job].sent = @ + 1]
               \/ jobs' = [jobs EXCEPT ![workers[w].job].rows = @ + 1]
        PROVE  \A j \in JobIds : jobs'[j].state = "completed" => jobs[j].state = "completed"
    BY <2>4 DEF Job
  <2>5. ASSUME NEW w \in Workers, Throw(w)
        PROVE  \A j \in JobIds : jobs'[j].state = "completed" => jobs[j].state = "completed"
    BY <2>1, <2>3, <2>5, BusyWorker DEF Throw, FailJob
  <2>6. CASE SchedulerNext
    BY <2>1, <2>2, <2>6
       DEF SchedulerNext, TickStep, TickFault, StartRun, Elapse, TickStart, TickLock,
           TickSkip, TickDeadLetter, TickAbort, TickPoisoned, RollBack, TickRecord,
           TickRecordSkip, TickRecordFails, TickCrash
  <2>7. CASE HandlersNext
    BY <2>1, <2>3, <2>4, <2>5, <2>7
       DEF HandlersNext, WorkerStep, PlaceCallReturn, PlaceCallDial, PlaceCallFold,
           SendWaReturn, SendWaSend, SendWaCommit, WorkerCrash, Expire, ExpireSlow, FailJob
  <2> QED BY <2>1, <2>6, <2>7 DEF Next, vars
<1> QED BY <1>1, <1>2, <1>3, <1>4, NextMoves

LEMMA InitTriesOpen == Init => TriesOpen
BY DEF Init, HandlersInit, IdleWorker, TriesOpen

-----------------------------------------------------------------------------
(* Effects.  A try makes at most one effect, on its way from "fetched" to  *)
(* "sent"; the tries past that point are spent.  A call's effects are at   *)
(* most its spent tries.  A message's are at most its failed ones, and one *)
(* more when it is delivered or its handler, under the row lock, still may *)
(* deliver it.                                                             *)

Pending(j, n) ==
    \E w \in Workers : workers[w].pc = "fetched" /\ workers[w].job = j /\ workers[w].try = n

Spent(S) == {x \in Tries : x[1] \in S /\ ~Pending(x[1], x[2])}

Sent(S) == {x \in JobIds \X Nat : x[1] \in S /\ 1 <= x[2] /\ x[2] <= jobs[x[1]].sent}

CallsOf(r) == {j \in JobIds : RunOf(j) = r /\ ActionOf(j).kind = "place_call"}

SendsOf(k) == {j \in JobIds : Key(j) = k}

SpentFailed(S) == Spent(S) \cap FailedTries

FailuresCostFaults == IsFiniteSet(FailedTries) /\ Cardinality(FailedTries) <= faults

CallsPaid ==
    \A r \in Runs : Cardinality(Sent(CallsOf(r))) <= Cardinality(Spent(CallsOf(r)))

MayDeliver(k) ==
    \/ k \in markers
    \/ \E w \in Workers : workers[w].pc = "sent" /\ Key(workers[w].job) = k /\ Current(w)

SendPaid(k) ==
    LET sent == Cardinality(Sent(SendsOf(k)))
        failed == Cardinality(SpentFailed(SendsOf(k)))
    IN  sent <= failed \/ (MayDeliver(k) /\ sent <= failed + 1)

SendsPaid == \A k \in Runs \X External : k[2].kind = "send_wa" => SendPaid(k)

LEMMA PairsFinite ==
  ASSUME NEW f \in [JobIds -> Nat]
  PROVE  IsFiniteSet({x \in JobIds \X Nat : 1 <= x[2] /\ x[2] <= f[x[1]]})
<1> DEFINE row == [j \in JobIds |-> {j} \X (1..f[j])]
           SS == {row[j] : j \in JobIds}
<1>1. row \in Surjection(JobIds, SS)
  BY DEF Surjection
<1>2. IsFiniteSet(SS)
  BY <1>1, JobIdsFinite, FS_Surjection
<1>3. ASSUME NEW T \in SS PROVE IsFiniteSet(T)
  <2>1. PICK j \in JobIds : T = {j} \X (1..f[j])
    OBVIOUS
  <2>2. IsFiniteSet({j}) /\ IsFiniteSet(1..f[j])
    <3>1. 1 \in Int /\ f[j] \in Int
      OBVIOUS
    <3> QED BY <3>1, FS_Singleton, FS_Interval
  <2>3. IsFiniteSet({j} \X (1..f[j]))
    BY <2>2, FS_Product
  <2> QED BY <2>1, <2>3
<1>4. IsFiniteSet(UNION SS)
  BY <1>2, <1>3, FS_UNION
<1>5. ASSUME NEW x \in JobIds \X Nat, 1 <= x[2], x[2] <= f[x[1]] PROVE x \in UNION SS
  <2>1. x[1] \in JobIds /\ x[2] \in 1..f[x[1]] /\ x = <<x[1], x[2]>>
    BY <1>5
  <2>2. x \in row[x[1]] /\ row[x[1]] \in SS
    BY <2>1
  <2> QED BY <2>2
<1> QED BY <1>4, <1>5, FS_Subset

LEMMA TriesFinite == ASSUME TypeOK PROVE IsFiniteSet(Tries)
<1> DEFINE f == [j \in JobIds |-> jobs[j].tries]
<1>1. f \in [JobIds -> Nat]
  BY DEF TypeOK, StoreTypeOK, Job
<1>2. IsFiniteSet({x \in JobIds \X Nat : 1 <= x[2] /\ x[2] <= f[x[1]]})
  BY <1>1, PairsFinite
<1>3. Tries = {x \in JobIds \X Nat : 1 <= x[2] /\ x[2] <= f[x[1]]}
  BY DEF Tries
<1> QED BY <1>2, <1>3

LEMMA SentFinite == ASSUME TypeOK, NEW S PROVE IsFiniteSet(Sent(S))
<1> DEFINE f == [j \in JobIds |-> jobs[j].sent]
           all == {x \in JobIds \X Nat : 1 <= x[2] /\ x[2] <= f[x[1]]}
<1>1. f \in [JobIds -> Nat]
  BY DEF TypeOK, StoreTypeOK, Job
<1>2. IsFiniteSet(all)
  BY <1>1, PairsFinite
<1>3. Sent(S) \subseteq all
  BY DEF Sent
<1> QED BY <1>2, <1>3, FS_Subset

-----------------------------------------------------------------------------
(* How the failed tries grow.                                              *)

\* Nothing about the try a job is at has changed.
SameTry(j) == jobs'[j].tries = jobs[j].tries /\ (Lost(j)' <=> Lost(j))

LEMMA TryKept ==
  ASSUME NEW j \in JobIds,
         jobs'[j].state = jobs[j].state, jobs'[j].tries = jobs[j].tries,
         \A w \in Workers :
           (workers'[w].job = j /\ workers'[w].try = jobs[j].tries) <=>
             (workers[w].job = j /\ workers[w].try = jobs[j].tries)
  PROVE  SameTry(j)
BY DEF SameTry, Lost, Abandoned, Current

LEMMA FailedTriesPairs ==
  /\ \A x \in FailedTries : x[1] \in JobIds /\ x[2] \in Nat /\ x = <<x[1], x[2]>>
  /\ \A x \in FailedTries' : x[1] \in JobIds /\ x[2] \in Nat /\ x = <<x[1], x[2]>>
BY DEF FailedTries, Tries

LEMMA FailedAt ==
  ASSUME NEW j \in JobIds, NEW n \in Nat
  PROVE  /\ <<j, n>> \in FailedTries <=>
              1 <= n /\ n <= jobs[j].tries /\ (n < jobs[j].tries \/ Lost(j))
         /\ (<<j, n>> \in FailedTries)' <=>
              1 <= n /\ n <= jobs'[j].tries /\ (n < jobs'[j].tries \/ Lost(j)')
BY DEF FailedTries, Tries

LEMMA SameTryFails ==
  ASSUME NEW j \in JobIds, NEW n \in Nat, SameTry(j)
  PROVE  (<<j, n>> \in FailedTries)' <=> <<j, n>> \in FailedTries
BY FailedAt DEF SameTry

LEMMA NoneFails == ASSUME \A j \in JobIds : SameTry(j) PROVE FailedTries' = FailedTries
<1>1. \A j \in JobIds, n \in Nat : (<<j, n>> \in FailedTries)' <=> <<j, n>> \in FailedTries
  BY SameTryFails
<1> QED BY <1>1, FailedTriesPairs

\* A step in which one job fails its try.
OneFails(k) ==
    /\ \A j \in JobIds : j # k => SameTry(j)
    /\ jobs'[k].tries = jobs[k].tries
    /\ Lost(k) => Lost(k)'

LEMMA FailsAtMost ==
  ASSUME TypeOK, NEW k \in JobIds, OneFails(k)
  PROVE  /\ FailedTries \subseteq FailedTries'
         /\ FailedTries' \subseteq FailedTries \cup {<<k, jobs[k].tries>>}
<1>0. jobs[k].tries \in Nat
  BY DEF TypeOK, StoreTypeOK, Job
<1>1. ASSUME NEW j \in JobIds, NEW n \in Nat
      PROVE  /\ <<j, n>> \in FailedTries => (<<j, n>> \in FailedTries)'
             /\ (<<j, n>> \in FailedTries)' =>
                  <<j, n>> \in FailedTries \/ (j = k /\ n = jobs[k].tries)
  <2>1. CASE j = k
    BY <1>0, <2>1, FailedAt DEF OneFails
  <2>2. CASE j # k
    BY <2>2, SameTryFails DEF OneFails
  <2> QED BY <2>1, <2>2
<1> QED BY <1>1, FailedTriesPairs

\* The worker that leaves worked on one job only.
LEMMA LeaverKeeps ==
  ASSUME TypeOK, NEW w \in Workers, workers' = [workers EXCEPT ![w] = IdleWorker],
         NEW j \in JobIds, jobs'[j] = jobs[j], ~(workers[w].job = j /\ Current(w))
  PROVE  SameTry(j)
<1>1. workers'[w].job # j /\ \A u \in Workers : u # w => workers'[u] = workers[u]
  BY StoreAssumption DEF TypeOK, HandlersTypeOK, IdleWorker
<1> QED BY <1>1 DEF SameTry, Lost, Abandoned, Current

LEMMA FailJobFails ==
  ASSUME TypeOK, NEW k \in JobIds, jobs' = [jobs EXCEPT ![k] = FailedTry(@)]
  PROVE  /\ jobs'[k].tries = jobs[k].tries /\ Lost(k)'
         /\ \A j \in JobIds : j # k => jobs'[j] = jobs[j]
BY DEF TypeOK, StoreTypeOK, Job, FailedTry, Lost

\* A fetch gives up the try before it, which had failed.
LEMMA FetchFails ==
  ASSUME TypeOK, JobsInv, NEW w \in Workers, NEW k \in JobIds, Fetch(w, k)
  PROVE  FailedTries' = FailedTries
<1> USE DEF TypeOK, StoreTypeOK, HandlersTypeOK
<1>1. /\ workers[w].pc = "idle" /\ workers[w].job \notin JobIds
      /\ jobs'[k].state = "active" /\ jobs'[k].tries = jobs[k].tries + 1
      /\ \A j \in JobIds : j # k => jobs'[j] = jobs[j]
      /\ workers'[w] = [pc |-> "fetched", job |-> k, try |-> jobs[k].tries + 1]
      /\ \A u \in Workers : u # w => workers'[u] = workers[u]
      /\ jobs[k].tries \in Nat
  BY StoreAssumption DEF Fetch, Fetched, Job, Worker, IdleWorker
<1>2. ~Lost(k)'
  BY <1>1 DEF Lost, Abandoned, Current
<1>3. jobs[k].tries = 0 \/ Lost(k)
  BY DEF Fetch, Lost, JobsInv, SlotsClean, Waits
<1>4. ASSUME NEW n \in Nat PROVE (<<k, n>> \in FailedTries)' <=> <<k, n>> \in FailedTries
  BY <1>1, <1>2, <1>3, FailedAt
<1>5. ASSUME NEW j \in JobIds, j # k, NEW n \in Nat
      PROVE  (<<j, n>> \in FailedTries)' <=> <<j, n>> \in FailedTries
  <2>1. SameTry(j)
    BY <1>1, <1>5 DEF SameTry, Lost, Abandoned, Current
  <2> QED BY <2>1, SameTryFails
<1>6. \A j \in JobIds, n \in Nat : (<<j, n>> \in FailedTries)' <=> <<j, n>> \in FailedTries
  <2>1. SUFFICES ASSUME NEW j \in JobIds, NEW n \in Nat
                 PROVE  (<<j, n>> \in FailedTries)' <=> <<j, n>> \in FailedTries
    OBVIOUS
  <2>2. CASE j = k
    BY <1>4, <2>2
  <2>3. CASE j # k
    BY <1>5, <2>3
  <2> QED BY <2>2, <2>3
<1> QED BY <1>6, FailedTriesPairs

LEMMA ApplyFails ==
  ASSUME TypeOK, LockProtectsRun, JobsInv, NEW t \in Ticks, TickApply(t), UNCHANGED handlerVars
  PROVE  FailedTries' = FailedTries
<1>1. ASSUME NEW j \in JobIds PROVE SameTry(j)
  <2>1. CASE j \in NewJobs(t)
    <3>1. jobs'[j] = NewJob /\ jobs[j].state = "free"
      BY <2>1, ApplyWrites, NewJobsFree DEF InUse
    <3>2. jobs[j].tries = 0 /\ jobs'[j].tries = 0
      BY <3>1 DEF JobsInv, SlotsClean, Waits, NewJob, FreeJob
    <3>3. ~Lost(j) /\ ~Lost(j)'
      BY <3>1 DEF Lost, Abandoned, NewJob, FreeJob
    <3> QED BY <3>2, <3>3 DEF SameTry
  <2>2. CASE j \notin NewJobs(t)
    <3>1. jobs'[j] = jobs[j]
      BY <2>2 DEF TickApply, NewJobs
    <3> QED BY <3>1, TryKept DEF handlerVars
  <2> QED BY <2>1, <2>2
<1> QED BY <1>1, NoneFails

\* What a step of a busy worker costs: the try of a worker that throws or dies.
LEMMA WorkerFails ==
  ASSUME TypeOK, JobsInv, NEW w \in Workers, WorkerStep(w) \/ Throw(w) \/ WorkerCrash(w)
  PROVE  \/ \A j \in JobIds : SameTry(j)
         \/ Fault /\ \E k \in JobIds : OneFails(k)
<1> USE DEF TypeOK, StoreTypeOK, HandlersTypeOK
<1>1. ASSUME Goto(w, "sent") \/ Goto(w, "done"), workers[w].pc # "idle",
             \A j \in JobIds : jobs'[j].state = jobs[j].state /\ jobs'[j].tries = jobs[j].tries
      PROVE  \A j \in JobIds : SameTry(j)
  <2>1. \A u \in Workers : workers'[u].job = workers[u].job /\ workers'[u].try = workers[u].try
    BY <1>1 DEF Goto, Worker, IdleWorker
  <2> QED BY <1>1, <2>1, TryKept
<1>2. ASSUME NEW k \in JobIds,
             \/ jobs' = [jobs EXCEPT ![k].sent = @ + 1]
             \/ jobs' = [jobs EXCEPT ![k].rows = @ + 1]
      PROVE  \A j \in JobIds : jobs'[j].state = jobs[j].state /\ jobs'[j].tries = jobs[j].tries
  BY <1>2 DEF Job
<1>3. CASE PlaceCallReturn(w) \/ SendWaReturn(w)
  BY <1>1, <1>3 DEF PlaceCallReturn, SendWaReturn
<1>4. CASE PlaceCallDial(w) \/ SendWaSend(w)
  BY <1>1, <1>2, <1>4, BusyWorker DEF PlaceCallDial, SendWaSend
<1>5. CASE SendWaCommit(w) \/ \E d \in Disps : PlaceCallFold(w, d)
  BY <1>1, <1>2, <1>5, BusyWorker DEF SendWaCommit, PlaceCallFold
<1>6. CASE Finish(w)
  <2>1. ASSUME NEW j \in JobIds PROVE SameTry(j)
    <3>1. CASE workers[w].job = j /\ Current(w)
      <4>1. jobs'[j].state = "completed" /\ jobs'[j].tries = jobs[j].tries
        BY <1>6, <3>1 DEF Finish, Job
      <4> QED BY <3>1, <4>1 DEF SameTry, Lost, Abandoned, Current
    <3>2. CASE ~(workers[w].job = j /\ Current(w))
      <4>1. jobs'[j] = jobs[j]
        BY <1>6, <3>2 DEF Finish
      <4> QED BY <1>6, <3>2, <4>1, LeaverKeeps DEF Finish
    <3> QED BY <3>1, <3>2
  <2> QED BY <2>1
<1>7. CASE Throw(w)
  <2>0. PICK k \in JobIds : k = workers[w].job
    BY <1>7, BusyWorker DEF Throw
  <2>1. Fault
    BY <1>7 DEF Throw
  <2>2. ASSUME NEW j \in JobIds, ~(k = j /\ Current(w)) PROVE SameTry(j)
    <3>1. jobs'[j] = jobs[j]
      BY <1>7, <2>0, <2>2 DEF Throw, FailJob
    <3> QED BY <1>7, <2>0, <2>2, <3>1, LeaverKeeps DEF Throw
  <2>3. CASE Current(w)
    <3>1. jobs'[k].tries = jobs[k].tries /\ Lost(k)'
      BY <1>7, <2>0, <2>3, FailJobFails DEF Throw, FailJob
    <3> QED BY <2>0, <2>1, <2>2, <3>1 DEF OneFails
  <2>4. CASE ~Current(w)
    BY <2>2, <2>4
  <2> QED BY <2>3, <2>4
<1>8. CASE WorkerCrash(w)
  <2>0. PICK k \in JobIds : k = workers[w].job
    BY <1>8, BusyWorker DEF WorkerCrash
  <2>1. Fault /\ jobs' = jobs
    BY <1>8 DEF WorkerCrash
  <2>2. ASSUME NEW j \in JobIds, ~(k = j /\ Current(w)) PROVE SameTry(j)
    BY <1>8, <2>0, <2>1, <2>2, LeaverKeeps DEF WorkerCrash
  <2>3. Lost(k) => Lost(k)'
    <3>1. workers'[w].job # k /\ \A u \in Workers : u # w => workers'[u] = workers[u]
      BY <1>8, StoreAssumption DEF WorkerCrash, IdleWorker
    <3> QED BY <2>1, <3>1 DEF Lost, Abandoned, Current
  <2> QED BY <2>0, <2>1, <2>2, <2>3 DEF OneFails
<1> QED BY <1>3, <1>4, <1>5, <1>6, <1>7, <1>8 DEF WorkerStep

LEMMA ExpiryFails ==
  ASSUME TypeOK, NEW k \in JobIds, Expire(k) \/ ExpireSlow(k)
  PROVE  (\A j \in JobIds : SameTry(j)) \/ (Fault /\ OneFails(k))
<1>1. jobs' = [jobs EXCEPT ![k] = FailedTry(@)] /\ UNCHANGED workers
  BY DEF Expire, ExpireSlow, FailJob
<1>2. \A j \in JobIds : j # k => SameTry(j)
  BY <1>1, FailJobFails, TryKept
<1>3. jobs'[k].tries = jobs[k].tries /\ Lost(k)'
  BY <1>1, FailJobFails
<1>4. CASE Expire(k)
  <2>1. Lost(k)
    BY <1>4 DEF Expire, Lost
  <2>2. SameTry(k)
    BY <1>3, <2>1 DEF SameTry
  <2> QED BY <1>2, <2>2
<1>5. CASE ExpireSlow(k)
  BY <1>2, <1>3, <1>5 DEF ExpireSlow, OneFails
<1> QED BY <1>4, <1>5

\* No step fails a try for nothing, or more than one, or takes a failure back.
LEMMA NextFails ==
  ASSUME TypeOK, LockProtectsRun, JobsInv, [Next]_vars
  PROVE  \/ FailedTries' = FailedTries
         \/ Fault /\ \E k \in JobIds : OneFails(k)
<1>1. CASE UNCHANGED <<jobs, workers>>
  BY <1>1, TryKept, NoneFails
<1>2. CASE SchedulerNext /\ UNCHANGED handlerVars
  BY <1>1, <1>2, ApplyFails
     DEF SchedulerNext, TickStep, TickFault, StartRun, Elapse, TickStart, TickLock,
         TickSkip, TickDeadLetter, TickAbort, TickPoisoned, RollBack, TickRecord,
         TickRecordSkip, TickRecordFails, TickCrash, handlerVars
<1>3. CASE HandlersNext
  BY <1>3, WorkerFails, ExpiryFails, FetchFails, NoneFails DEF HandlersNext
<1> QED BY <1>1, <1>2, <1>3 DEF Next, vars, handlerVars

LEMMA FaultsGrow == ASSUME TypeOK, [Next]_vars PROVE faults' \in Nat /\ faults <= faults'
<1>1. faults \in Nat
  BY DEF TypeOK, StoreTypeOK
<1>2. UNCHANGED faults \/ Fault
  <2>1. CASE SchedulerNext
    BY <2>1
       DEF SchedulerNext, TickStep, TickFault, StartRun, Elapse, TickStart, TickLock,
           TickSkip, TickDeadLetter, TickApply, TickAbort, TickPoisoned, TickRecord,
           TickRecordSkip, TickRecordFails, TickCrash
  <2>2. CASE HandlersNext
    BY <2>2
       DEF HandlersNext, WorkerStep, PlaceCallReturn, PlaceCallDial, PlaceCallFold,
           SendWaReturn, SendWaSend, SendWaCommit, Finish, Throw, WorkerCrash, Fetch,
           Expire, ExpireSlow
  <2> QED BY <2>1, <2>2 DEF Next, vars
<1> QED BY <1>1, <1>2 DEF Fault

LEMMA NextFailures ==
  ASSUME TypeOK, LockProtectsRun, JobsInv, FailuresCostFaults, [Next]_vars
  PROVE  FailuresCostFaults'
<1>1. IsFiniteSet(FailedTries) /\ Cardinality(FailedTries) <= faults
      /\ Cardinality(FailedTries) \in Nat /\ faults \in Nat
  BY FS_CardinalityType DEF FailuresCostFaults, TypeOK, StoreTypeOK
<1>2. CASE FailedTries' = FailedTries
  BY <1>1, <1>2, FaultsGrow DEF FailuresCostFaults
<1>3. ASSUME Fault, NEW k \in JobIds, OneFails(k) PROVE FailuresCostFaults'
  <2> DEFINE bound == FailedTries \cup {<<k, jobs[k].tries>>}
  <2>1. IsFiniteSet(bound) /\ Cardinality(bound) <= Cardinality(FailedTries) + 1
    BY <1>1, FS_AddElement
  <2>2. FailedTries' \in SUBSET bound
    BY <1>3, FailsAtMost
  <2>3. IsFiniteSet(FailedTries') /\ Cardinality(FailedTries') <= Cardinality(bound)
    BY <2>1, <2>2, FS_Subset
  <2>4. Cardinality(bound) \in Nat /\ Cardinality(FailedTries') \in Nat
    BY <2>1, <2>3, FS_CardinalityType
  <2>5. Cardinality(FailedTries') <= faults'
    BY <1>1, <1>3, <2>1, <2>3, <2>4 DEF Fault
  <2> QED BY <2>3, <2>5 DEF FailuresCostFaults
<1> QED BY <1>2, <1>3, NextFails

LEMMA InitFailures == Init => FailuresCostFaults
<1>1. SUFFICES ASSUME Init PROVE FailedTries = {} /\ faults = 0
  BY FS_EmptySet DEF FailuresCostFaults
<1> QED BY <1>1 DEF Init, StoreInit, FreeJob, FailedTries, Tries

-----------------------------------------------------------------------------
(* How effects and spent tries grow.                                       *)

\* A worker is about to start its handler only right after its fetch.
LEMMA FetchedBefore ==
  ASSUME TypeOK, [Next]_vars, NEW w \in Workers, workers'[w].pc = "fetched"
  PROVE  workers'[w] = workers[w] \/ \E k \in JobIds : Fetch(w, k)
<1> USE DEF TypeOK, HandlersTypeOK
<1>1. CASE UNCHANGED workers
  BY <1>1
<1>2. ASSUME NEW u \in Workers, Goto(u, "sent") \/ Goto(u, "done") PROVE workers'[w] = workers[w]
  BY <1>2 DEF Goto, Worker, IdleWorker
<1>3. ASSUME NEW u \in Workers, workers' = [workers EXCEPT ![u] = IdleWorker]
      PROVE  workers'[w] = workers[w]
  BY <1>3 DEF IdleWorker
<1>4. ASSUME NEW u \in Workers, NEW k \in JobIds, Fetch(u, k)
      PROVE  workers'[w] = workers[w] \/ Fetch(w, k)
  BY <1>4 DEF Fetch
<1>5. ASSUME NEW u \in Workers, WorkerStep(u) \/ Throw(u) \/ WorkerCrash(u)
      PROVE  workers'[w] = workers[w]
  BY <1>1, <1>2, <1>3, <1>5
     DEF WorkerStep, PlaceCallReturn, PlaceCallDial, PlaceCallFold, SendWaReturn,
         SendWaSend, SendWaCommit, Finish, Throw, WorkerCrash
<1>6. CASE HandlersNext
  BY <1>1, <1>4, <1>5, <1>6 DEF HandlersNext, Expire, ExpireSlow
<1> QED BY <1>1, <1>6 DEF Next, vars, handlerVars

LEMMA SpentPairs ==
  ASSUME NEW S
  PROVE  /\ \A x \in Spent(S) : x[1] \in JobIds /\ x[2] \in Nat /\ x = <<x[1], x[2]>>
         /\ \A x \in Spent(S)' : x[1] \in JobIds /\ x[2] \in Nat /\ x = <<x[1], x[2]>>
BY DEF Spent, Tries

LEMMA SpentAt ==
  ASSUME NEW S, NEW j \in JobIds, NEW n \in Nat
  PROVE  /\ <<j, n>> \in Spent(S) <=>
              j \in S /\ 1 <= n /\ n <= jobs[j].tries /\ ~Pending(j, n)
         /\ (<<j, n>> \in Spent(S))' <=>
              j \in S /\ 1 <= n /\ n <= jobs'[j].tries /\ ~Pending(j, n)'
BY DEF Spent, Tries

LEMMA TriesGrow ==
  ASSUME TypeOK, JobsInv, [Next]_vars, NEW j \in JobIds
  PROVE  jobs[j].tries \in Nat /\ jobs'[j].tries \in Nat /\ jobs[j].tries <= jobs'[j].tries
<1>1. jobs[j].tries \in Nat
  BY DEF TypeOK, StoreTypeOK, Job
<1>2. ASSUME NEW w \in Workers, NEW k \in JobIds, Fetch(w, k)
      PROVE  jobs'[j].tries \in {jobs[j].tries, jobs[j].tries + 1}
  BY <1>2 DEF TypeOK, StoreTypeOK, Fetch, Fetched, Job
<1>3. ASSUME JobMoves(j) PROVE jobs'[j].tries = jobs[j].tries
  BY <1>3 DEF JobMoves, JobsInv, SlotsClean, Waits, NewJob, FreeJob
<1> QED BY <1>1, <1>2, <1>3, NextMoves

\* A try once spent stays spent: no handler runs twice for one try.
LEMMA SpentGrows ==
  ASSUME TypeOK, JobsInv, [Next]_vars, NEW S PROVE Spent(S) \subseteq Spent(S)'
<1>1. ASSUME NEW j \in JobIds, NEW n \in Nat, <<j, n>> \in Spent(S)
      PROVE  (<<j, n>> \in Spent(S))'
  <2>1. j \in S /\ 1 <= n /\ n <= jobs[j].tries /\ ~Pending(j, n)
    BY <1>1, SpentAt
  <2>2. n <= jobs'[j].tries
    BY <2>1, TriesGrow
  <2>3. ASSUME Pending(j, n)' PROVE FALSE
    <3>1. PICK w \in Workers : workers'[w].pc = "fetched" /\ workers'[w].job = j
                               /\ workers'[w].try = n
      BY <2>3 DEF Pending
    <3>2. CASE workers'[w] = workers[w]
      BY <2>1, <3>1, <3>2 DEF Pending
    <3>3. ASSUME NEW k \in JobIds, Fetch(w, k) PROVE FALSE
      <4>1. workers'[w].job = k /\ workers'[w].try = jobs[k].tries + 1
        BY <3>3 DEF Fetch, TypeOK, HandlersTypeOK
      <4>2. jobs[j].tries \in Nat
        BY TriesGrow
      <4> QED BY <2>1, <3>1, <4>1, <4>2
    <3> QED BY <3>1, <3>2, <3>3, FetchedBefore
  <2> QED BY <2>1, <2>2, <2>3, SpentAt
<1> QED BY <1>1, SpentPairs

LEMMA SpentFailedGrows ==
  ASSUME TypeOK, LockProtectsRun, JobsInv, [Next]_vars, NEW S
  PROVE  SpentFailed(S) \subseteq SpentFailed(S)'
<1>1. FailedTries \subseteq FailedTries'
  BY NextFails, FailsAtMost
<1> QED BY <1>1, SpentGrows DEF SpentFailed

CountsFinite ==
    \A S : /\ IsFiniteSet(Spent(S)) /\ Cardinality(Spent(S)) \in Nat
           /\ IsFiniteSet(SpentFailed(S)) /\ Cardinality(SpentFailed(S)) \in Nat
           /\ Cardinality(Sent(S)) \in Nat

LEMMA SpentFinite == TypeOK => CountsFinite
<1> SUFFICES ASSUME TypeOK, NEW S
             PROVE  /\ IsFiniteSet(Spent(S)) /\ Cardinality(Spent(S)) \in Nat
                    /\ IsFiniteSet(SpentFailed(S)) /\ Cardinality(SpentFailed(S)) \in Nat
                    /\ Cardinality(Sent(S)) \in Nat
  BY DEF CountsFinite
<1>1. Spent(S) \in SUBSET Tries /\ SpentFailed(S) \in SUBSET Tries
  BY DEF Spent, SpentFailed
<1>2. IsFiniteSet(Spent(S)) /\ IsFiniteSet(SpentFailed(S)) /\ IsFiniteSet(Sent(S))
  BY <1>1, TriesFinite, SentFinite, FS_Subset
<1> QED BY <1>2, FS_CardinalityType

LEMMA SpentFiniteNext == TypeOK' => CountsFinite'
BY SpentFinite, PTL

\* An effect is made only where a handler dials or sends.
Effect(w) ==
    /\ workers[w].pc = "fetched"
    /\ jobs' = [jobs EXCEPT ![workers[w].job].sent = @ + 1]
    /\ Goto(w, "sent")

LEMMA EffectsMade ==
  ASSUME TypeOK, LockProtectsRun, JobsInv, [Next]_vars
  PROVE  \/ \A j \in JobIds : jobs'[j].sent = jobs[j].sent
         \/ \E w \in Workers : Effect(w) /\ (PlaceCallDial(w) \/ SendWaSend(w))
<1> DEFINE Same == \A j \in JobIds : jobs'[j].sent = jobs[j].sent
<1> USE DEF TypeOK, StoreTypeOK
<1>1. CASE UNCHANGED jobs
  BY <1>1
<1>2. ASSUME NEW t \in Ticks, TickApply(t) PROVE Same
  <2>1. SUFFICES ASSUME NEW j \in JobIds PROVE jobs'[j].sent = jobs[j].sent
    OBVIOUS
  <2>2. jobs'[j] = IF j \in NewJobs(t) THEN NewJob ELSE jobs[j]
    BY <1>2 DEF TickApply, NewJobs
  <2>3. j \in NewJobs(t) => jobs[j].state = "free"
    BY NewJobsAreFree DEF NewJobs, InUse
  <2> QED BY <2>2, <2>3 DEF JobsInv, SlotsClean, Waits, NewJob, FreeJob
<1>3. ASSUME NEW k \in JobIds,
             \/ jobs' = [jobs EXCEPT ![k] = FailedTry(@)]
             \/ jobs' = [jobs EXCEPT ![k].state = "completed"]
             \/ jobs' = [jobs EXCEPT ![k].rows = @ + 1]
             \/ jobs' = [jobs EXCEPT ![k] = Fetched(@)]
      PROVE  Same
  <2>1. CASE jobs' = [jobs EXCEPT ![k] = FailedTry(@)]
    BY <2>1 DEF Job, FailedTry
  <2>2. CASE jobs' = [jobs EXCEPT ![k] = Fetched(@)]
    BY <2>2 DEF Job, Fetched
  <2> QED BY <1>3, <2>1, <2>2 DEF Job
<1>4. ASSUME NEW w \in Workers, Finish(w) \/ Throw(w) \/ SendWaCommit(w)
                                \/ \E d \in Disps : PlaceCallFold(w, d)
      PROVE  Same
  BY <1>1, <1>3, <1>4, BusyWorker DEF Finish, Throw, FailJob, SendWaCommit, PlaceCallFold
<1>5. ASSUME NEW w \in Workers, PlaceCallDial(w) \/ SendWaSend(w) PROVE Effect(w)
  BY <1>5 DEF PlaceCallDial, SendWaSend, Effect
<1>6. CASE SchedulerNext
  BY <1>1, <1>2, <1>6
     DEF SchedulerNext, TickStep, TickFault, StartRun, Elapse, TickStart, TickLock,
         TickSkip, TickDeadLetter, TickAbort, TickPoisoned, RollBack, TickRecord,
         TickRecordSkip, TickRecordFails, TickCrash
<1>7. CASE HandlersNext
  BY <1>1, <1>3, <1>4, <1>5, <1>7
     DEF HandlersNext, WorkerStep, PlaceCallReturn, SendWaReturn, WorkerCrash, Fetch,
         Expire, ExpireSlow, FailJob
<1> QED BY <1>1, <1>6, <1>7 DEF Next, vars

LEMMA SentKept ==
  ASSUME \A j \in JobIds : jobs'[j].sent = jobs[j].sent, NEW S PROVE Sent(S)' = Sent(S)
BY DEF Sent

LEMMA SentByEffect ==
  ASSUME TypeOK, NEW w \in Workers, Effect(w), NEW S
  PROVE  /\ workers[w].job \notin S => Sent(S)' = Sent(S)
         /\ Cardinality(Sent(S)') <= Cardinality(Sent(S)) + 1
<1>1. PICK k \in JobIds : k = workers[w].job
  BY BusyWorker DEF Effect, TypeOK
<1>2. /\ jobs[k].sent \in Nat /\ jobs'[k].sent = jobs[k].sent + 1
      /\ \A j \in JobIds : j # k => jobs'[j].sent = jobs[j].sent
  BY <1>1 DEF Effect, TypeOK, StoreTypeOK, Job
<1> DEFINE bound == Sent(S) \cup {<<k, jobs[k].sent + 1>>}
<1>3. \A j \in JobIds, n \in Nat : (<<j, n>> \in Sent(S))' =>
                                     <<j, n>> \in Sent(S) \/ (j = k /\ n = jobs[k].sent + 1)
  BY <1>2 DEF Sent
<1>4. \A x \in Sent(S)' : x[1] \in JobIds /\ x[2] \in Nat /\ x = <<x[1], x[2]>>
  BY DEF Sent
<1>5. Sent(S)' \in SUBSET bound
  BY <1>3, <1>4
<1>6. IsFiniteSet(bound) /\ Cardinality(bound) <= Cardinality(Sent(S)) + 1
      /\ Cardinality(Sent(S)) \in Nat
  <2>1. IsFiniteSet(Sent(S)) /\ Cardinality(Sent(S)) \in Nat
    BY SentFinite, FS_CardinalityType
  <2>2. IsFiniteSet(bound)
        /\ Cardinality(bound) =
             IF <<k, jobs[k].sent + 1>> \in Sent(S) THEN Cardinality(Sent(S))
                                                  ELSE Cardinality(Sent(S)) + 1
    BY <2>1, FS_AddElement
  <2> QED BY <2>1, <2>2
<1>7. Cardinality(Sent(S)') <= Cardinality(Sent(S)) + 1
  <2>1. IsFiniteSet(Sent(S)') /\ Cardinality(Sent(S)') <= Cardinality(bound)
    BY <1>5, <1>6, FS_Subset
  <2>2. Cardinality(bound) \in Nat /\ Cardinality(Sent(S)') \in Nat
    BY <1>6, <2>1, FS_CardinalityType
  <2> QED BY <1>6, <2>1, <2>2
<1>8. ASSUME k \notin S PROVE Sent(S)' = Sent(S)
  BY <1>2, <1>8 DEF Sent
<1> QED BY <1>1, <1>7, <1>8

\* The try of that handler, which was pending, is spent.
LEMMA EffectSpends ==
  ASSUME TypeOK, JobsInv, [Next]_vars, NEW w \in Workers, Effect(w), NEW S,
         workers[w].job \in S
  PROVE  \E x \in Tries : /\ x = <<workers[w].job, workers[w].try>>
                          /\ x \notin Spent(S) /\ x \in Spent(S)'
<1>1. PICK k \in JobIds : k = workers[w].job
  BY BusyWorker DEF Effect, TypeOK
<1>2. PICK n \in Nat : n = workers[w].try /\ 1 <= n /\ n <= jobs[k].tries
  BY <1>1 DEF Effect, TypeOK, HandlersTypeOK, Worker, IdleWorker, JobsInv, TriesCounted
<1>3. Pending(k, n)
  BY <1>1, <1>2 DEF Effect, Pending
<1>4. ~Pending(k, n)'
  <2>1. /\ workers'[w].pc = "sent" /\ \A u \in Workers : u # w => workers'[u] = workers[u]
    BY <1>1 DEF Effect, Goto, TypeOK, HandlersTypeOK, Worker, IdleWorker
  <2>2. \A u \in Workers : u # w /\ workers[u].pc = "fetched" =>
                             ~(workers[u].job = k /\ workers[u].try = n)
    BY <1>1, <1>2 DEF Effect, JobsInv, TriesApart
  <2> QED BY <2>1, <2>2 DEF Pending
<1>5. n <= jobs'[k].tries
  BY <1>2, TriesGrow
<1>6. <<k, n>> \notin Spent(S) /\ (<<k, n>> \in Spent(S))' /\ <<k, n>> \in Tries
  BY <1>1, <1>2, <1>3, <1>4, <1>5, SpentAt DEF Tries
<1> QED BY <1>1, <1>2, <1>6

\* Set arithmetic: a set that takes in an element has one more at least.
LEMMA OneMore ==
  ASSUME NEW S, NEW T, IsFiniteSet(T), S \subseteq T, NEW x, x \in T, x \notin S
  PROVE  Cardinality(S) + 1 <= Cardinality(T)
<1>1. IsFiniteSet(S) /\ S \cup {x} \in SUBSET T
  BY FS_Subset
<1>2. Cardinality(S \cup {x}) = Cardinality(S) + 1
  BY <1>1, FS_AddElement
<1> QED BY <1>1, <1>2, FS_Subset

LEMMA NextCalls ==
  ASSUME TypeOK, TypeOK', LockProtectsRun, JobsInv, CallsPaid, [Next]_vars
  PROVE  CallsPaid'
<1>1. SUFFICES ASSUME NEW r \in Runs
               PROVE  Cardinality(Sent(CallsOf(r))') <= Cardinality(Spent(CallsOf(r))')
  BY DEF CallsPaid
<1>2. PICK S : S = CallsOf(r)
  OBVIOUS
<1>3. CallsOf(r)' = S
  BY <1>2 DEF CallsOf, RunOf, ActionOf
<1>4. Cardinality(Sent(S)) <= Cardinality(Spent(S))
  BY <1>2 DEF CallsPaid
<1>5. /\ Cardinality(Sent(S)) \in Nat /\ Cardinality(Spent(S)) \in Nat
      /\ IsFiniteSet(Spent(S)') /\ Cardinality(Spent(S)') \in Nat
      /\ Cardinality(Sent(S)') \in Nat
  BY SpentFinite, SpentFiniteNext DEF CountsFinite
<1>6. Spent(S) \subseteq Spent(S)' /\ Cardinality(Spent(S)) <= Cardinality(Spent(S)')
  BY <1>5, SpentGrows, FS_Subset
<1>7. ASSUME Sent(S)' = Sent(S) PROVE Cardinality(Sent(S)') <= Cardinality(Spent(S)')
  BY <1>4, <1>5, <1>6, <1>7
<1>8. ASSUME NEW w \in Workers, Effect(w), workers[w].job \in S
      PROVE  Cardinality(Sent(S)') <= Cardinality(Spent(S)')
  <2>1. Cardinality(Spent(S)) + 1 <= Cardinality(Spent(S)')
    BY <1>5, <1>6, <1>8, EffectSpends, OneMore
  <2> QED BY <1>4, <1>5, <1>8, <2>1, SentByEffect
<1>9. Cardinality(Sent(S)') <= Cardinality(Spent(S)')
  BY <1>7, <1>8, EffectsMade, SentKept, SentByEffect
<1>10. Sent(CallsOf(r))' = Sent(S)' /\ Spent(CallsOf(r))' = Spent(S)'
  BY <1>3
<1> QED BY <1>9, <1>10

-----------------------------------------------------------------------------
(* Messages.                                                               *)

\* A worker whose try no longer counts has failed it.
LEMMA StaleTryFailed ==
  ASSUME TypeOK, JobsInv, TriesOpen, NEW w \in Workers, workers[w].pc # "idle", ~Current(w)
  PROVE  <<workers[w].job, workers[w].try>> \in FailedTries
<1>1. PICK k \in JobIds : k = workers[w].job
  BY BusyWorker DEF TypeOK
<1>2. PICK n \in Nat : n = workers[w].try /\ 1 <= n /\ n <= jobs[k].tries
  BY <1>1 DEF TypeOK, HandlersTypeOK, Worker, IdleWorker, JobsInv, TriesCounted
<1>3. jobs[k].tries \in Nat
  BY DEF TypeOK, StoreTypeOK, Job
<1>4. CASE n = jobs[k].tries
  <2>1. jobs[k].state \notin {"active", "completed", "free", "created"}
    BY <1>1, <1>2, <1>4 DEF Current, TriesOpen, JobsInv, TriesCounted, Waits
  <2>2. Lost(k)
    BY <2>1 DEF TypeOK, StoreTypeOK, Job, Lost
  <2> QED BY <1>1, <1>2, <2>2, FailedAt
<1> QED BY <1>1, <1>2, <1>3, <1>4, FailedAt

\* A try with its effect made and its outcome open: spent, and not failed.
LEMMA OpenTry ==
  ASSUME TypeOK, JobsInv, NEW w \in Workers, workers[w].pc = "sent", Current(w), NEW S,
         workers[w].job \in S
  PROVE  /\ <<workers[w].job, workers[w].try>> \in Spent(S)
         /\ <<workers[w].job, workers[w].try>> \notin FailedTries
<1>1. PICK k \in JobIds : k = workers[w].job
  BY BusyWorker DEF TypeOK
<1>2. PICK n \in Nat : n = workers[w].try /\ 1 <= n /\ n = jobs[k].tries
  BY <1>1 DEF TypeOK, HandlersTypeOK, Worker, IdleWorker, JobsInv, TriesCounted, Current
<1>3. ~Pending(k, n)
  BY <1>1, <1>2 DEF Pending, JobsInv, TriesApart
<1>4. ~Lost(k)
  BY <1>1 DEF Lost, Abandoned, Current
<1> QED BY <1>1, <1>2, <1>3, <1>4, SpentAt, FailedAt

\* Until its outcome is known, a step either leaves such a try open, or commits
\* its delivery, or fails it.
LEMMA OpenTryMoves ==
  ASSUME TypeOK, LockProtectsRun, JobsInv, [Next]_vars, NEW w \in Workers,
         workers[w].pc = "sent", Current(w), Handling(w, "send_wa")
  PROVE  \/ workers'[w] = workers[w] /\ Current(w)'
         \/ Key(workers[w].job) \in markers'
         \/ <<workers[w].job, workers[w].try>> \in FailedTries'
<1> USE DEF TypeOK, StoreTypeOK, HandlersTypeOK
<1>1. PICK k \in JobIds : k = workers[w].job
  BY BusyWorker
<1>2. PICK n \in Nat : n = workers[w].try /\ 1 <= n /\ n = jobs[k].tries
  BY <1>1 DEF Worker, IdleWorker, JobsInv, TriesCounted, Current
<1>3. jobs[k].state = "active" /\ jobs[k].tries = n
  BY <1>1, <1>2 DEF Current
<1> DEFINE Open == workers'[w] = workers[w] /\ jobs'[k].state = "active" /\ jobs'[k].tries = n
           Gone == jobs'[k].tries = n /\ Lost(k)'
           Done == Key(workers[w].job) \in markers'
<1>4. SUFFICES Open \/ Gone \/ Done
  <2>1. Open => workers'[w] = workers[w] /\ Current(w)'
    BY <1>1, <1>2 DEF Current
  <2>2. Gone => (<<k, n>> \in FailedTries)'
    BY <1>2, FailedAt
  <2>3. (<<k, n>> \in FailedTries)' => (<<workers[w].job, workers[w].try>> \in FailedTries')
    BY <1>1, <1>2
  <2> QED BY <2>1, <2>2, <2>3
<1>5. \A u \in Workers : u # w /\ workers[u].job = k => workers[u].try # n
  <2>1. \A u \in Workers : workers[u].job = k => workers[u].pc # "idle"
    BY StoreAssumption DEF Worker, IdleWorker
  <2> QED BY <1>1, <1>2, <2>1 DEF JobsInv, TriesApart
<1>6. CASE UNCHANGED <<jobs, workers>>
  BY <1>3, <1>6
<1>7. ASSUME NEW t \in Ticks, TickApply(t), UNCHANGED handlerVars PROVE Open
  <2>1. k \notin NewJobs(t)
    BY <1>3, <1>7, NewJobsAreFree DEF NewJobs, InUse
  <2> QED BY <1>3, <1>7, <2>1 DEF TickApply, NewJobs, handlerVars
<1>8. ASSUME NEW u \in Workers, NEW j \in JobIds, Fetch(u, j) PROVE Open
  BY <1>3, <1>8 DEF Fetch
<1>9. ASSUME NEW j \in JobIds, Expire(j) \/ ExpireSlow(j) PROVE Open \/ Gone
  <2>1. jobs' = [jobs EXCEPT ![j] = FailedTry(@)] /\ UNCHANGED workers
    BY <1>9 DEF Expire, ExpireSlow, FailJob
  <2>2. CASE j = k
    BY <1>3, <2>1, <2>2, FailJobFails
  <2>3. CASE j # k
    BY <1>3, <2>1, <2>3
  <2> QED BY <2>2, <2>3
<1>10. ASSUME NEW u \in Workers, WorkerStep(u) \/ Throw(u) \/ WorkerCrash(u), u # w
       PROVE  Open
  <2>1. workers'[w] = workers[w]
    BY <1>10
       DEF WorkerStep, PlaceCallReturn, PlaceCallDial, PlaceCallFold, SendWaReturn,
           SendWaSend, SendWaCommit, Finish, Throw, WorkerCrash, Goto
  <2>2. ~(workers[u].job = k /\ Current(u))
    BY <1>3, <1>5, <1>10 DEF Current
  <2>3. jobs'[k].state = jobs[k].state /\ jobs'[k].tries = jobs[k].tries
    <3>1. CASE Finish(u) \/ Throw(u) \/ WorkerCrash(u)
      BY <2>2, <3>1 DEF Finish, Throw, FailJob, WorkerCrash
    <3>2. CASE PlaceCallReturn(u) \/ SendWaReturn(u)
      BY <3>2 DEF PlaceCallReturn, SendWaReturn
    <3>3. CASE PlaceCallDial(u) \/ SendWaSend(u) \/ SendWaCommit(u)
               \/ \E d \in Disps : PlaceCallFold(u, d)
      <4>1. \/ jobs' = [jobs EXCEPT ![workers[u].job].sent = @ + 1]
            \/ jobs' = [jobs EXCEPT ![workers[u].job].rows = @ + 1]
        BY <3>3 DEF PlaceCallDial, SendWaSend, SendWaCommit, PlaceCallFold
      <4> QED BY <4>1 DEF Job
    <3> QED BY <1>10, <3>1, <3>2, <3>3 DEF WorkerStep
  <2> QED BY <1>3, <2>1, <2>3
<1>11. CASE WorkerStep(w) \/ Throw(w) \/ WorkerCrash(w)
  <2>1. CASE SendWaCommit(w)
    BY <2>1 DEF SendWaCommit
  <2>2. CASE Throw(w)
    <3>1. jobs' = [jobs EXCEPT ![k] = FailedTry(@)]
      BY <1>1, <2>2 DEF Throw, FailJob
    <3> QED BY <1>3, <3>1, FailJobFails
  <2>3. CASE WorkerCrash(w)
    <3>1. jobs' = jobs /\ workers'[w].job # k
          /\ \A u \in Workers : u # w => workers'[u] = workers[u]
      BY <2>3, StoreAssumption DEF WorkerCrash, IdleWorker
    <3>2. Abandoned(k)'
      BY <1>3, <1>5, <3>1 DEF Abandoned, Current
    <3> QED BY <1>3, <3>1, <3>2 DEF Lost
  <2> QED BY <1>11, <2>1, <2>2, <2>3
       DEF WorkerStep, PlaceCallReturn, PlaceCallDial, PlaceCallFold, SendWaReturn,
           SendWaSend, Finish, Handling
<1>12. CASE SchedulerNext /\ UNCHANGED handlerVars
  BY <1>6, <1>7, <1>12
     DEF SchedulerNext, TickStep, TickFault, StartRun, Elapse, TickStart, TickLock,
         TickSkip, TickDeadLetter, TickAbort, TickPoisoned, RollBack, TickRecord,
         TickRecordSkip, TickRecordFails, TickCrash, handlerVars
<1>13. CASE HandlersNext
  BY <1>8, <1>9, <1>10, <1>11, <1>13 DEF HandlersNext
<1> QED BY <1>6, <1>12, <1>13 DEF Next, vars, handlerVars

LEMMA MarkersGrow == ASSUME [Next]_vars PROVE markers \subseteq markers'
<1>1. CASE HandlersNext
  BY <1>1
     DEF HandlersNext, WorkerStep, PlaceCallReturn, PlaceCallDial, PlaceCallFold,
         SendWaReturn, SendWaSend, SendWaCommit, Finish, Throw, WorkerCrash, Fetch,
         Expire, ExpireSlow
<1> QED BY <1>1 DEF Next, vars, handlerVars

\* What a step that sends nothing of a message leaves of its account.
LEMMA NoSendPays ==
  ASSUME TypeOK, TypeOK', LockProtectsRun, JobsInv, [Next]_vars,
         NEW k \in Runs \X External, k[2].kind = "send_wa", SendPaid(k),
         Sent(SendsOf(k))' = Sent(SendsOf(k))
  PROVE  SendPaid(k)'
<1>1. PICK S : S = SendsOf(k)
  OBVIOUS
<1>2. SendsOf(k)' = S
  BY <1>1 DEF SendsOf, Key
<1>3. Sent(S)' = Sent(S)
  BY <1>1, <1>2
<1>4. /\ Cardinality(Sent(S)) \in Nat
      /\ Cardinality(SpentFailed(S)) \in Nat
      /\ IsFiniteSet(SpentFailed(S)') /\ Cardinality(SpentFailed(S)') \in Nat
  BY SpentFinite, SpentFiniteNext DEF CountsFinite
<1>5. /\ SpentFailed(S) \subseteq SpentFailed(S)'
      /\ Cardinality(SpentFailed(S)) <= Cardinality(SpentFailed(S)')
  BY <1>4, SpentFailedGrows, FS_Subset
<1>6. SUFFICES \/ Cardinality(Sent(S)') <= Cardinality(SpentFailed(S)')
               \/ /\ MayDeliver(k)'
                  /\ Cardinality(Sent(S)') <= Cardinality(SpentFailed(S)') + 1
  BY <1>2 DEF SendPaid
<1>7. CASE Cardinality(Sent(S)) <= Cardinality(SpentFailed(S))
  BY <1>3, <1>4, <1>5, <1>7
<1>8. ASSUME MayDeliver(k), Cardinality(Sent(S)) <= Cardinality(SpentFailed(S)) + 1
      PROVE  \/ Cardinality(Sent(S)') <= Cardinality(SpentFailed(S)')
             \/ /\ MayDeliver(k)'
                /\ Cardinality(Sent(S)') <= Cardinality(SpentFailed(S)') + 1
  <2>1. Cardinality(Sent(S)') <= Cardinality(SpentFailed(S)') + 1
    BY <1>3, <1>4, <1>5, <1>8
  <2>2. CASE MayDeliver(k)'
    BY <2>1, <2>2
  <2>3. ASSUME ~MayDeliver(k)'
        PROVE  Cardinality(Sent(S)') <= Cardinality(SpentFailed(S)')
    <3>1. k \notin markers'
      BY <2>3 DEF MayDeliver
    <3>2. PICK w \in Workers : workers[w].pc = "sent" /\ Key(workers[w].job) = k /\ Current(w)
      BY <1>8, <3>1, MarkersGrow DEF MayDeliver
    <3>3. Handling(w, "send_wa") /\ workers[w].job \in S
      BY <1>1, <3>2, BusyWorker, StoreAssumption
         DEF TypeOK, Handling, Key, ActionOf, SendsOf
    <3>4. ~(workers'[w] = workers[w] /\ Current(w)')
      BY <2>3, <3>2 DEF MayDeliver, Key
    <3> DEFINE x == <<workers[w].job, workers[w].try>>
    <3>5. x \in FailedTries'
      BY <3>1, <3>2, <3>3, <3>4, OpenTryMoves
    <3>6. x \in Spent(S) /\ x \notin FailedTries
      BY <3>2, <3>3, OpenTry
    <3>7. x \in SpentFailed(S)' /\ x \notin SpentFailed(S)
      BY <3>5, <3>6, SpentGrows DEF SpentFailed
    <3>8. Cardinality(SpentFailed(S)) + 1 <= Cardinality(SpentFailed(S)')
      BY <1>4, <1>5, <3>7, OneMore
    <3> QED BY <1>3, <1>4, <1>8, <3>8
  <2> QED BY <2>2, <2>3
<1>9. SendPaid(k) => \/ Cardinality(Sent(S)) <= Cardinality(SpentFailed(S))
                     \/ MayDeliver(k) /\ Cardinality(Sent(S)) <= Cardinality(SpentFailed(S)) + 1
  BY <1>1 DEF SendPaid
<1> QED BY <1>7, <1>8, <1>9

\* A send: nobody else is at it, under the row lock, and it is not yet marked.
LEMMA SendPays ==
  ASSUME TypeOK, TypeOK', LockProtectsRun, JobsInv, TriesOpen, [Next]_vars,
         NEW k \in Runs \X External, SendPaid(k),
         NEW w \in Workers, SendWaSend(w), Key(workers[w].job) = k
  PROVE  SendPaid(k)'
<1>0. Effect(w) /\ workers[w].pc = "fetched"
  BY DEF SendWaSend, Effect
<1>1. PICK S : S = SendsOf(k)
  OBVIOUS
<1>2. SendsOf(k)' = S
  BY <1>1 DEF SendsOf, Key
<1>3. workers[w].job \in S
  BY <1>0, <1>1, BusyWorker DEF TypeOK, SendsOf
<1>4. /\ Cardinality(Sent(S)) \in Nat /\ Cardinality(Sent(S)') \in Nat
      /\ Cardinality(SpentFailed(S)) \in Nat
      /\ IsFiniteSet(SpentFailed(S)') /\ Cardinality(SpentFailed(S)') \in Nat
  BY SpentFinite, SpentFiniteNext DEF CountsFinite
<1>5. /\ SpentFailed(S) \subseteq SpentFailed(S)'
      /\ Cardinality(SpentFailed(S)) <= Cardinality(SpentFailed(S)')
  BY <1>4, SpentFailedGrows, FS_Subset
<1>6. ~MayDeliver(k)
  <2>1. k \notin markers
    BY DEF SendWaSend, Delivered
  <2>2. ASSUME NEW u \in Workers, workers[u].pc = "sent", Key(workers[u].job) = k PROVE FALSE
    <3>1. RunAt(u) = RunAt(w)
      BY <2>2 DEF RunAt, RunOf, Key
    <3>2. lock[RunAt(u)] = u
      BY <2>2 DEF LockProtectsRun, WorkerHolds
    <3> QED BY <3>1, <3>2, StoreAssumption DEF SendWaSend, Unlocked, Agents
  <2> QED BY <2>1, <2>2 DEF MayDeliver
<1>7. Cardinality(Sent(S)) <= Cardinality(SpentFailed(S))
  BY <1>1, <1>6 DEF SendPaid
<1>8. Cardinality(Sent(S)') <= Cardinality(SpentFailed(S)) + 1
  <2>1. Cardinality(Sent(S)') <= Cardinality(Sent(S)) + 1
    BY <1>0, SentByEffect
  <2> QED BY <1>4, <1>7, <2>1
<1>9. CASE Current(w)
  <2>1. PICK j \in JobIds : j = workers[w].job
    BY <1>0, BusyWorker DEF TypeOK
  <2>2. jobs'[j].state = jobs[j].state /\ jobs'[j].tries = jobs[j].tries
    BY <1>0, <2>1 DEF Effect, TypeOK, StoreTypeOK, Job
  <2>3. workers'[w].pc = "sent" /\ workers'[w].job = j /\ workers'[w].try = workers[w].try
    BY <1>0, <2>1 DEF Effect, Goto, TypeOK, HandlersTypeOK, Worker, IdleWorker
  <2>4. MayDeliver(k)'
    BY <1>9, <2>1, <2>2, <2>3 DEF MayDeliver, Current, Key
  <2>5. Cardinality(Sent(S)') <= Cardinality(SpentFailed(S)') + 1
    BY <1>4, <1>5, <1>8
  <2> QED BY <1>2, <2>4, <2>5 DEF SendPaid
<1>10. CASE ~Current(w)
  <2> DEFINE x == <<workers[w].job, workers[w].try>>
  <2>1. x \in FailedTries /\ x \in FailedTries'
    BY <1>0, <1>10, StaleTryFailed, NextFails, FailsAtMost
  <2>2. x \notin Spent(S) /\ x \in Spent(S)'
    BY <1>0, <1>3, EffectSpends
  <2>3. x \notin SpentFailed(S) /\ x \in SpentFailed(S)'
    BY <2>1, <2>2 DEF SpentFailed
  <2>4. Cardinality(SpentFailed(S)) + 1 <= Cardinality(SpentFailed(S)')
    BY <1>4, <1>5, <2>3, OneMore
  <2>5. Cardinality(Sent(S)') <= Cardinality(SpentFailed(S)')
    BY <1>4, <1>8, <2>4
  <2> QED BY <1>2, <2>5 DEF SendPaid
<1> QED BY <1>9, <1>10

LEMMA NextSends ==
  ASSUME TypeOK, TypeOK', LockProtectsRun, JobsInv, TriesOpen, SendsPaid, [Next]_vars
  PROVE  SendsPaid'
<1>1. SUFFICES ASSUME NEW k \in Runs \X External, k[2].kind = "send_wa" PROVE SendPaid(k)'
  BY DEF SendsPaid
<1>2. SendPaid(k)
  BY <1>1 DEF SendsPaid
<1>3. SendsOf(k)' = SendsOf(k)
  BY DEF SendsOf, Key
<1>4. CASE \A j \in JobIds : jobs'[j].sent = jobs[j].sent
  <2>1. Sent(SendsOf(k))' = Sent(SendsOf(k))
    BY <1>3, <1>4 DEF Sent
  <2> QED BY <1>1, <1>2, <2>1, NoSendPays
<1>5. ASSUME NEW w \in Workers, Effect(w), workers[w].job \notin SendsOf(k)
      PROVE  SendPaid(k)'
  <2>1. PICK S : S = SendsOf(k)
    OBVIOUS
  <2>2. Sent(S)' = Sent(S)
    BY <1>5, <2>1, SentByEffect
  <2>3. Sent(SendsOf(k))' = Sent(SendsOf(k))
    BY <1>3, <2>1, <2>2
  <2> QED BY <1>1, <1>2, <2>3, NoSendPays
<1>6. ASSUME NEW w \in Workers, Effect(w), PlaceCallDial(w) PROVE SendPaid(k)'
  <2>1. workers[w].job \notin SendsOf(k)
    BY <1>1, <1>6 DEF PlaceCallDial, Handling, SendsOf, Key, ActionOf
  <2> QED BY <1>5, <1>6, <2>1
<1>7. ASSUME NEW w \in Workers, Effect(w), SendWaSend(w) PROVE SendPaid(k)'
  <2>1. CASE Key(workers[w].job) = k
    BY <1>2, <1>7, <2>1, SendPays
  <2>2. CASE Key(workers[w].job) # k
    <3>1. workers[w].job \notin SendsOf(k)
      BY <2>2 DEF SendsOf
    <3> QED BY <1>5, <1>7, <3>1
  <2> QED BY <2>1, <2>2
<1> QED BY <1>4, <1>6, <1>7, EffectsMade

LEMMA InitPaid == Init => CallsPaid /\ SendsPaid
<1>1. SUFFICES ASSUME Init, NEW S
               PROVE  Cardinality(Sent(S)) = 0 /\ Cardinality(Spent(S)) = 0
                      /\ Cardinality(SpentFailed(S)) = 0
  BY DEF CallsPaid, SendsPaid, SendPaid
<1>2. Sent(S) = {} /\ Spent(S) = {} /\ SpentFailed(S) = {}
  BY <1>1 DEF Init, StoreInit, FreeJob, Sent, Spent, SpentFailed, Tries
<1> QED BY <1>2, FS_EmptySet

LEMMA EffectsAreSent ==
  ASSUME TypeOK, NEW S \in SUBSET JobIds PROVE Effects(S) = Cardinality(Sent(S))
<1>1. UNION {{<<j, n>> : n \in 1..jobs[j].sent} : j \in S} = Sent(S)
  BY DEF Sent, TypeOK, StoreTypeOK, Job
<1> QED BY <1>1 DEF Effects

\* The calls of a run: its failed tries, and the last try of each job made.
LEMMA CallsBounded ==
  ASSUME TypeOK, JobsInv, LogsCountMade, FailuresCostFaults, CallsPaid, NEW r \in Runs
  PROVE  Effects(CallsOf(r)) <= runs[r].voice + faults
<1> DEFINE S == CallsOf(r)
           made == Made(r, "place_call")
           last == [j \in made |-> <<j, jobs[j].tries>>]
           lasts == {last[j] : j \in made}
<1>1. IsFiniteSet(made) /\ Cardinality(made) \in Nat
  BY JobIdsFinite, FS_Subset, FS_CardinalityType DEF Made
<1>2. last \in Surjection(made, lasts)
  BY DEF Surjection
<1>3. IsFiniteSet(lasts) /\ Cardinality(lasts) <= Cardinality(made)
  BY <1>1, <1>2, FS_Surjection
<1>4. IsFiniteSet(FailedTries) /\ Cardinality(FailedTries) <= faults
  BY DEF FailuresCostFaults
<1>5. /\ IsFiniteSet(FailedTries \cup lasts)
      /\ Cardinality(FailedTries \cup lasts) <= Cardinality(FailedTries) + Cardinality(lasts)
  <2>1. /\ IsFiniteSet(FailedTries \cup lasts)
        /\ Cardinality(FailedTries \cup lasts) =
             Cardinality(FailedTries) + Cardinality(lasts) - Cardinality(FailedTries \cap lasts)
    BY <1>3, <1>4, FS_Union
  <2>2. IsFiniteSet(FailedTries \cap lasts)
    BY <1>4, FS_Intersection
  <2>3. Cardinality(FailedTries \cap lasts) \in Nat /\ Cardinality(FailedTries) \in Nat
        /\ Cardinality(lasts) \in Nat
    BY <1>3, <1>4, <2>2, FS_CardinalityType
  <2> QED BY <2>1, <2>3
<1>6. ASSUME NEW j \in JobIds, NEW n \in Nat, <<j, n>> \in Spent(S)
      PROVE  <<j, n>> \in FailedTries \cup lasts
  <2>1. j \in S /\ 1 <= n /\ n <= jobs[j].tries /\ jobs[j].tries \in Nat
    BY <1>6, SpentAt DEF TypeOK, StoreTypeOK, Job
  <2>2. CASE n < jobs[j].tries
    BY <2>1, <2>2, FailedAt
  <2>3. CASE n = jobs[j].tries
    <3>1. jobs[j].state # "free"
      BY <2>1, <2>3 DEF JobsInv, SlotsClean, Waits
    <3>2. j \in made /\ last[j] = <<j, n>>
      BY <2>1, <2>3, <3>1 DEF Made, InUse, CallsOf
    <3> QED BY <3>2
  <2> QED BY <2>1, <2>2, <2>3
<1>7. Spent(S) \in SUBSET (FailedTries \cup lasts)
  BY <1>6, SpentPairs
<1>8. Cardinality(Spent(S)) <= Cardinality(FailedTries \cup lasts)
  BY <1>5, <1>7, FS_Subset
<1>9. Effects(S) = Cardinality(Sent(S)) /\ Cardinality(Sent(S)) <= Cardinality(Spent(S))
  BY EffectsAreSent DEF CallsPaid, CallsOf
<1>10. runs[r].voice = Cardinality(made) /\ faults \in Nat
  BY DEF LogsCountMade, TypeOK, StoreTypeOK
<1>11. /\ Cardinality(Spent(S)) \in Nat /\ Cardinality(Sent(S)) \in Nat
       /\ Cardinality(FailedTries) \in Nat /\ Cardinality(lasts) \in Nat
       /\ Cardinality(FailedTries \cup lasts) \in Nat
  BY <1>3, <1>4, <1>5, SpentFinite, FS_CardinalityType DEF CountsFinite
<1> QED BY <1>1, <1>3, <1>4, <1>5, <1>8, <1>9, <1>10, <1>11

LEMMA SendsBounded ==
  ASSUME TypeOK, FailuresCostFaults, SendsPaid, NEW k \in Runs \X External,
         k[2].kind = "send_wa"
  PROVE  Effects(SendsOf(k)) <= 1 + faults
<1>1. Effects(SendsOf(k)) = Cardinality(Sent(SendsOf(k)))
  BY EffectsAreSent DEF SendsOf
<1>2. SpentFailed(SendsOf(k)) \in SUBSET FailedTries
  BY DEF SpentFailed
<1>3. /\ Cardinality(SpentFailed(SendsOf(k))) <= Cardinality(FailedTries)
      /\ Cardinality(FailedTries) <= faults /\ Cardinality(FailedTries) \in Nat
  BY <1>2, FS_Subset, FS_CardinalityType DEF FailuresCostFaults
<1>4. /\ Cardinality(SpentFailed(SendsOf(k))) \in Nat
      /\ Cardinality(Sent(SendsOf(k))) \in Nat /\ faults \in Nat
  BY SpentFinite DEF CountsFinite, TypeOK, StoreTypeOK
<1>5. Cardinality(Sent(SendsOf(k))) <= Cardinality(SpentFailed(SendsOf(k))) + 1
  BY <1>4 DEF SendsPaid, SendPaid
<1> QED BY <1>1, <1>3, <1>4, <1>5

\* Effects cannot be rolled back, and each is repeated only for a fault of its
\* own: whatever is thrown, killed, expired or retried, a run makes no more calls
\* than its log shows attempts and there were faults, and a message leaves at
\* most once and once more per fault.
THEOREM RepeatsCorrect == Spec => []RepeatsNeedFaults
<1> DEFINE IInv == /\ TypeOK /\ LockProtectsRun /\ BusyInUse /\ LogsCountMade /\ JobsInv
                   /\ TriesOpen /\ FailuresCostFaults /\ CallsPaid /\ SendsPaid
<1>1. Init => IInv
  BY InitTypeOK, InitLocks, InitBusyInUse, InitAttempts, InitJobs, InitTriesOpen,
     InitFailures, InitPaid
<1>2. IInv /\ [Next]_vars => IInv'
  BY NextTypes, NextLocks, NextBusyInUse, NextAttempts, NextJobs, NextTriesOpen,
     NextFailures, NextCalls, NextSends
<1>3. IInv => RepeatsNeedFaults
  <2>1. SUFFICES ASSUME IInv, NEW r \in Runs
                 PROVE  /\ Effects({j \in JobIds : RunOf(j) = r /\ ActionOf(j).kind = "place_call"})
                             <= runs[r].voice + faults
                        /\ \A a \in External : a.kind = "send_wa" =>
                             Effects({j \in JobIds : Key(j) = <<r, a>>}) <= 1 + faults
    BY DEF RepeatsNeedFaults
  <2>2. Effects(CallsOf(r)) <= runs[r].voice + faults
    BY <2>1, CallsBounded
  <2>3. ASSUME NEW a \in External, a.kind = "send_wa"
        PROVE  Effects({j \in JobIds : Key(j) = <<r, a>>}) <= 1 + faults
    <3>1. <<r, a>> \in Runs \X External /\ <<r, a>>[2] = a
      OBVIOUS
    <3>2. Effects(SendsOf(<<r, a>>)) <= 1 + faults
      BY <2>1, <2>3, <3>1, SendsBounded
    <3> QED BY <3>2 DEF SendsOf
  <2> QED BY <2>2, <2>3 DEF CallsOf
<1> QED BY <1>1, <1>2, <1>3, PTL DEF Spec

=============================================================================
