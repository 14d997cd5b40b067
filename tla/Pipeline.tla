------------------------------ MODULE Pipeline ------------------------------
(***************************************************************************)
(* The outbound pipeline: overlapping scheduler ticks and job handlers     *)
(* over the same runs and the same job table.                              *)
(***************************************************************************)
EXTENDS Scheduler, Handlers

vars == <<runs, lock, jobs, faults, schedulerVars, handlerVars>>

Init == StoreInit /\ SchedulerInit /\ HandlersInit

Next == \/ SchedulerNext /\ UNCHANGED handlerVars
        \/ HandlersNext  /\ UNCHANGED schedulerVars

Spec == Init /\ [][Next]_vars

\* pg-boss's cron keeps ticking, its workers keep fetching and running, its
\* maintenance expires what a dead process left, and the clock moves on.
Fairness ==
    /\ \A r \in Runs : WF_vars(Elapse(r) /\ UNCHANGED handlerVars)
    /\ \A t \in Ticks : WF_vars((TickStart(t) \/ TickStep(t)) /\ UNCHANGED handlerVars)
    /\ \A w \in Workers :
         WF_vars((WorkerStep(w) \/ \E j \in JobIds : Fetch(w, j)) /\ UNCHANGED schedulerVars)
    /\ WF_vars((\E j \in JobIds : Expire(j)) /\ UNCHANGED schedulerVars)

FairSpec == Spec /\ Fairness

TypeOK == StoreTypeOK /\ SchedulerTypeOK /\ HandlersTypeOK

-----------------------------------------------------------------------------
\* What the holder of a row may rely on from its lock to its commit.
TickHolds(t) == ticks[t].pc = "locked" =>
    lock[ticks[t].run] = t /\ IsDue(ticks[t].run)

WorkerHolds(w) == workers[w].pc = "sent" =>
    /\ lock[RunAt(w)] = w
    /\ Handling(w, "place_call") => ~StaleCall(RunAt(w))
    /\ Handling(w, "send_wa") => Key(workers[w].job) \notin markers

\* A row of workflow_runs is written only by the transaction that holds it: a
\* call being made finds its run as it locked it, and so does a tick.
LockProtectsRun ==
    /\ \A t \in Ticks : TickHolds(t)
    /\ \A w \in Workers : WorkerHolds(w)

\* "Record the channel attempt only when the job is actually enqueued": the
\* logs guardrails read count the jobs that exist, whatever was rolled back.
AttemptsCountJobs ==
    \A r \in Runs :
      LET made == {j \in JobIds : RunOf(j) = r /\ jobs[j].state # "free"}
      IN  /\ runs[r].voice = OfKind(made, "place_call")
          /\ runs[r].whatsapp = OfKind(made, "send_wa")

\* "Exactly-once" as far as the database goes: one committed delivery for each
\* send of a run, whichever and however many jobs asked for it.
OneDeliveryPerSend ==
    \A j \in JobIds : ActionOf(j).kind = "send_wa" /\ jobs[j].rows > 0 =>
      /\ jobs[j].rows = 1
      /\ Key(j) \in markers
      /\ \A k \in JobIds : Key(k) = Key(j) /\ jobs[k].rows > 0 => k = j

Effects(S) == Cardinality(UNION {{<<j, n>> : n \in 1..jobs[j].sent} : j \in S})

\* Effects cannot be rolled back, and are repeated only where something failed:
\* a run makes no more calls than its log shows attempts, and a message leaves
\* once, however often its step is visited, save one for each fault.
RepeatsNeedFaults ==
    \A r \in Runs :
      /\ Effects({j \in JobIds : RunOf(j) = r /\ ActionOf(j).kind = "place_call"})
           <= runs[r].voice + faults
      /\ \A k \in External : k.kind = "send_wa" =>
           Effects({j \in JobIds : Key(j) = <<r, k>>}) <= 1 + faults

\* A job that may still serve its run: queued, or active with a handler that
\* has not settled it (or none at all: it will expire).
Serving(j) ==
    \/ jobs[j].state \in {"created", "retry"}
    \/ /\ jobs[j].state = "active"
       /\ ~\E w \in Workers : workers[w].job = j /\ Current(w) /\ workers[w].pc = "done"

\* A run parked on a call is never orphaned: enqueue and advance commit
\* together, so some call job of the run can still answer it, unless one was
\* refused by the guard or used up its retries.
ParkedIsServed ==
    \A r \in Runs : Parked(r) =>
      \E j \in JobIds :
        /\ RunOf(j) = r /\ ActionOf(j).kind = "place_call"
        /\ jobs[j].state # "free"
        /\ Serving(j) \/ jobs[j].state = "failed" \/ (GuardMayBlock /\ jobs[j].rows = 0)

\* A definition whose walks only ever go on: an inline write belongs to a step
\* not before the one its walk began at, and before the one it waits at.
Onward(rank) ==
    \A s \in Steps, d \in Disps \cup {NoDisp} :
      LET w == Walk[<<s, d>>] IN
      (d = NoDisp \/ s \in CallSteps) /\ w.status # "throws" =>
        /\ w.status = "waiting" => rank[s] <= rank[w.step]
        /\ \A a \in w.actions \cap Inline :
             /\ a.step \in Steps /\ rank[s] <= rank[a.step]
             /\ w.status = "waiting" => rank[a.step] < rank[w.step]

NeverReturns == \E rank \in [Steps -> Nat] : Onward(rank)

\* In a sequence that never returns to a step, an inline write happens at most
\* once, however ticks overlap and retry.
InlineWrittenOnce == \A x \in Runs \X Inline : written[x] <= 1

\* A stored disposition belongs to the call step its run rests on.
DispositionAtCall ==
    \A r \in Runs : runs[r].disp # NoDisp =>
      /\ runs[r].step \in CallSteps
      /\ runs[r].wake = "due"
      /\ runs[r].status \in {"waiting", "failed"}

\* A run that completed or was dead-lettered is never touched again.
TerminalIsFinal ==
    [][\A r \in Runs : runs[r].status \in {"completed", "failed"} =>
         runs'[r] = runs[r]]_vars

\* A due run is always taken up: advanced, or dead-lettered.
DueIsTaken == \A r \in Runs : IsDue(r) ~> ~IsDue(r)

\* Every enrolled run ends, as long as fewer tries fail than a job has.
EveryRunEnds ==
    \A r \in Runs : runs[r].status = "pending" ~> runs[r].status \in {"completed", "failed"}

\* A poisoned run is dead-lettered and does not keep being retried.
PoisonedIsParked ==
    \A r \in Poisoned : runs[r].status = "pending" ~> runs[r].status = "failed"

-----------------------------------------------------------------------------
\* The phase of a run in RunLifecycle.
PhaseOf(row) ==
    CASE row.status = "absent" -> "absent"
      [] row.status = "pending" -> "enrolled"
      [] row.status \in {"completed", "failed"} -> row.status
      [] row.status = "waiting" /\ row.disp # NoDisp -> "answered"
      [] row.status = "waiting" /\ row.disp = NoDisp /\ row.wake = "later" -> "asleep"
      [] row.status = "waiting" /\ row.disp = NoDisp /\ row.wake = "due" -> "ready"
      [] row.status = "waiting" /\ row.disp = NoDisp /\ row.wake = "none" -> "calling"

AskedSends == {Key(j) : j \in {k \in JobIds : /\ ActionOf(k).kind = "send_wa"
                                            /\ jobs[k].state # "free"}}

Lifecycle == INSTANCE RunLifecycle WITH
                Sends <- External, Answers <- Disps, NoAnswer <- NoDisp,
                phase <- [r \in Runs |-> PhaseOf(runs[r])],
                answer <- [r \in Runs |-> IF PhaseOf(runs[r]) = "answered"
                                          THEN runs[r].disp ELSE NoDisp],
                asked <- AskedSends,
                delivered <- markers

\* Ticks, jobs, retries and crashes together do what RunLifecycle promises.
RefinesLifecycle == Lifecycle!Spec

-----------------------------------------------------------------------------
\* "if status/current_step no longer expects this job -> return (stale
\* duplicate = no-op)": a call is made only for the step the job was made for.
StaleJobIsNoOp ==
    [][\A j \in JobIds : ActionOf(j).kind = "place_call" /\ jobs'[j].rows > jobs[j].rows =>
         runs[RunOf(j)].step = ActionOf(j).step]_vars

=============================================================================
