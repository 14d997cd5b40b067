------------------------------ MODULE Handlers ------------------------------
(***************************************************************************)
(* The job handlers place-call.ts and send-wa.ts, the pg-boss workers that *)
(* run them (jobs.ts), and the dead-letter sink call-post.ts.              *)
(*                                                                         *)
(* A handler is one database transaction with an effect in the middle that *)
(* no rollback undoes: the call is dialled, or the message leaves, while   *)
(* the row lock is held and before anything is committed.                  *)
(***************************************************************************)
EXTENDS RunStore

CONSTANT GuardMayBlock   \* whether the guard may refuse, or no agent is active

VARIABLES
    workers,   \* the jobs being handled
    markers,   \* usage_events rows 'send_wa:<run>:<step>:<idx>'
    reviews    \* runs with a `review` task

handlerVars == <<workers, markers, reviews>>

\* pc: "fetched" before the transaction, "sent" between the effect and the
\* commit, "done" between the commit (or a no-op) and pg-boss hearing of it.
IdleWorker == [pc |-> "idle", job |-> NoJob, try |-> 0]

Worker == {IdleWorker} \cup [pc : {"fetched", "sent", "done"}, job : JobIds, try : Nat]

HandlersTypeOK ==
    /\ workers \in [Workers -> Worker]
    /\ markers \subseteq Runs \X External
    /\ reviews \subseteq Runs

HandlersInit ==
    /\ workers = [w \in Workers |-> IdleWorker]
    /\ markers = {}
    /\ reviews = {}

-----------------------------------------------------------------------------
Handling(w, kind) == /\ workers[w].job # NoJob
                     /\ ActionOf(workers[w].job).kind = kind

RunAt(w) == RunOf(workers[w].job)

Goto(w, pc) == workers' = [workers EXCEPT ![w].pc = pc]

\* The worker's try is the one pg-boss still counts as running: a job that was
\* expired, and maybe fetched again, is no longer this worker's to settle.
Current(w) == LET j == workers[w].job IN
    jobs[j].state = "active" /\ jobs[j].tries = workers[w].try

\* pg-boss hands a queued job to a worker.
Fetch(w, j) ==
    /\ workers[w].pc = "idle"
    /\ jobs[j].state \in {"created", "retry"}
    /\ jobs' = [jobs EXCEPT ![j] = Fetched(@)]
    /\ workers' = [workers EXCEPT ![w] =
                     [pc |-> "fetched", job |-> j, try |-> jobs[j].tries + 1]]
    /\ UNCHANGED <<runs, lock, faults, markers, reviews>>

\* (Faulty: one of the three tests left out.)
StaleCall_AnyStatus(r) == runs[r].disp # NoDisp \/ runs[r].step \notin CallSteps
StaleCall_AnyStep(r)   == runs[r].disp # NoDisp \/ runs[r].status # "waiting"
StaleCall_Folded(r)    == runs[r].step \notin CallSteps \/ runs[r].status # "waiting"

\* place_call's no-op tests, read under the row lock.
StaleCall(r) ==
    \/ runs[r].status # "waiting"
    \/ runs[r].disp # NoDisp
    \/ runs[r].step \notin CallSteps

PlaceCallReturn(w) ==
    /\ workers[w].pc = "fetched" /\ Handling(w, "place_call")
    /\ Unlocked(RunAt(w))
    /\ StaleCall(RunAt(w)) \/ GuardMayBlock
    /\ Goto(w, "done")
    /\ UNCHANGED <<runs, lock, jobs, faults, markers, reviews>>

\* Lock the run, pass the tests and the guard, dial.
PlaceCallDial(w) ==
    LET r == RunAt(w) IN
    /\ workers[w].pc = "fetched" /\ Handling(w, "place_call")
    /\ Unlocked(r) /\ ~StaleCall(r)
    /\ lock' = [lock EXCEPT ![r] = w]
    /\ jobs' = [jobs EXCEPT ![workers[w].job].sent = @ + 1]
    /\ Goto(w, "sent")
    /\ UNCHANGED <<runs, faults, markers, reviews>>

\* (Faulty: the run is not re-armed.)
PlaceCallFold_NoRearm(w, d) ==
    LET r == RunAt(w) IN
    /\ workers[w].pc = "sent" /\ Handling(w, "place_call")
    /\ runs' = [runs EXCEPT ![r] = [@ EXCEPT !.disp = d, !.status = "waiting"]]
    /\ lock' = [lock EXCEPT ![r] = NoAgent]
    /\ jobs' = [jobs EXCEPT ![workers[w].job].rows = @ + 1]
    /\ Goto(w, "done")
    /\ UNCHANGED <<faults, markers, reviews>>

\* Conversation, turn and outcome are recorded, the outcome is folded into the
\* run and the run re-armed; commit.
PlaceCallFold(w, d) ==
    LET r == RunAt(w) IN
    /\ workers[w].pc = "sent" /\ Handling(w, "place_call")
    /\ runs' = [runs EXCEPT ![r] =
                  [@ EXCEPT !.disp = d, !.status = "waiting", !.wake = "due"]]
    /\ lock' = [lock EXCEPT ![r] = NoAgent]
    /\ jobs' = [jobs EXCEPT ![workers[w].job].rows = @ + 1]
    /\ Goto(w, "done")
    /\ UNCHANGED <<faults, markers, reviews>>

\* send_wa's marker names the send (run, step, idx), not the job.
Key(j) == <<j[1], j[2]>>

\* (Faulty: the marker is not looked up.)
Delivered_Never(j) == FALSE

Delivered(j) == Key(j) \in markers

SendWaReturn(w) ==
    /\ workers[w].pc = "fetched" /\ Handling(w, "send_wa")
    /\ Unlocked(RunAt(w))
    /\ Delivered(workers[w].job) \/ GuardMayBlock
    /\ Goto(w, "done")
    /\ UNCHANGED <<runs, lock, jobs, faults, markers, reviews>>

SendWaSend(w) ==
    LET j == workers[w].job IN
    /\ workers[w].pc = "fetched" /\ Handling(w, "send_wa")
    /\ Unlocked(RunAt(w)) /\ ~Delivered(j)
    /\ lock' = [lock EXCEPT ![RunAt(w)] = w]
    /\ jobs' = [jobs EXCEPT ![j].sent = @ + 1]
    /\ Goto(w, "sent")
    /\ UNCHANGED <<runs, faults, markers, reviews>>

\* Conversation, message and marker; commit.
SendWaCommit(w) ==
    LET j == workers[w].job IN
    /\ workers[w].pc = "sent" /\ Handling(w, "send_wa")
    /\ markers' = markers \cup {Key(j)}
    /\ jobs' = [jobs EXCEPT ![j].rows = @ + 1]
    /\ lock' = [lock EXCEPT ![RunAt(w)] = NoAgent]
    /\ Goto(w, "done")
    /\ UNCHANGED <<runs, faults, reviews>>

\* The handler returned: pg-boss completes the job if this try still counts.
Finish(w) ==
    /\ workers[w].pc = "done"
    /\ jobs' = IF Current(w) THEN [jobs EXCEPT ![workers[w].job].state = "completed"]
                             ELSE jobs
    /\ workers' = [workers EXCEPT ![w] = IdleWorker]
    /\ UNCHANGED <<runs, lock, faults, markers, reviews>>

\* The dead_letter column of a job.  enqueueJob's raw insert names neither it
\* nor a policy's queue settings, so it keeps the column default, null.
DeadLetter(j) == "null"

\* pg-boss fails the job; an exhausted one goes to its dead-letter queue, whose
\* handler (call-post.ts) opens a review task on the run.
FailJob(j) ==
    /\ jobs' = [jobs EXCEPT ![j] = FailedTry(@)]
    /\ reviews' = IF jobs'[j].state = "failed" /\ DeadLetter(j) = "call.post"
                  THEN reviews \cup {RunOf(j)} ELSE reviews

\* The handler throws, before its effect or after it: rollback, and pg-boss
\* fails the job.
Throw(w) ==
    /\ workers[w].pc \in {"fetched", "sent"}
    /\ Fault
    /\ lock' = [r \in Runs |-> IF lock[r] = w THEN NoAgent ELSE lock[r]]
    /\ IF Current(w) THEN FailJob(workers[w].job) ELSE UNCHANGED <<jobs, reviews>>
    /\ workers' = [workers EXCEPT ![w] = IdleWorker]
    /\ UNCHANGED <<runs, markers>>

\* The worker process dies; its job stays active until pg-boss expires it.
WorkerCrash(w) ==
    /\ workers[w].pc # "idle"
    /\ Fault
    /\ lock' = [r \in Runs |-> IF lock[r] = w THEN NoAgent ELSE lock[r]]
    /\ workers' = [workers EXCEPT ![w] = IdleWorker]
    /\ UNCHANGED <<runs, jobs, markers, reviews>>

Abandoned(j) == /\ jobs[j].state = "active"
                /\ ~\E w \in Workers : workers[w].job = j /\ Current(w)

\* pg-boss expires an active job nobody works on any more...
Expire(j) ==
    /\ Abandoned(j)
    /\ FailJob(j)
    /\ UNCHANGED <<runs, lock, faults, workers, markers>>

\* ...or one whose handler is merely slow, and still running.
ExpireSlow(j) ==
    /\ jobs[j].state = "active" /\ ~Abandoned(j)
    /\ Fault
    /\ FailJob(j)
    /\ UNCHANGED <<runs, lock, workers, markers>>

WorkerStep(w) ==
    \/ PlaceCallReturn(w) \/ PlaceCallDial(w) \/ (\E d \in Disps : PlaceCallFold(w, d))
    \/ SendWaReturn(w) \/ SendWaSend(w) \/ SendWaCommit(w)
    \/ Finish(w)

HandlersNext ==
    \/ \E w \in Workers : WorkerStep(w) \/ Throw(w) \/ WorkerCrash(w)
    \/ \E w \in Workers, j \in JobIds : Fetch(w, j)
    \/ \E j \in JobIds : Expire(j) \/ ExpireSlow(j)
=============================================================================
