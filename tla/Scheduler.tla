----------------------------- MODULE Scheduler ------------------------------
(***************************************************************************)
(* services/worker/src/scheduler.ts and runs.ts: enrolment and the tick.   *)
(* A tick enumerates the due runs, then takes them one by one, each in a   *)
(* transaction of its own: lock (FOR UPDATE SKIP LOCKED), walk, and one    *)
(* commit that inserts the jobs, writes the inline rows and advances the   *)
(* run.  A transaction that throws is rolled back and a second, separate   *)
(* transaction counts the failure.  Any number of ticks may overlap.       *)
(***************************************************************************)
EXTENDS RunStore

CONSTANTS
    Walk,             \* what drive() makes of a run resting at <<step, disp>>
    MaxApplyFailures, \* MAX_APPLY_FAILURES
    Poisoned          \* the runs whose apply throws every time

VARIABLES
    ticks,     \* the ticks in progress
    written    \* outcomes and tasks rows written inline, per run and action

schedulerVars == <<ticks, written>>

WalkResult == [status  : {"waiting", "completed", "throws"},
               step    : Steps,
               disp    : Disps \cup {NoDisp},
               wake    : {"none", "later"},
               actions : SUBSET Actions]

ASSUME WalkAssumption ==
    /\ Walk \in [Steps \X (Disps \cup {NoDisp}) -> WalkResult]
    /\ MaxApplyFailures \in Nat \ {0}
    /\ Poisoned \subseteq Runs

\* drive() consumes the disposition on the way out of the call it answers, and a
\* walk stops without a timer only at a call it has just asked for.  DriveSettles
\* of SequenceProofs proves it of Drive, for every definition.
ASSUME WalkSettles ==
    \A s \in Steps, d \in Disps \cup {NoDisp} :
      LET w == Walk[<<s, d>>] IN
      (d = NoDisp \/ s \in CallSteps) /\ w.status # "throws" =>
        /\ w.disp = NoDisp
        /\ w.status = "waiting" /\ w.wake = "none" =>
             w.step \in CallSteps /\ \E a \in w.actions : a.kind = "place_call"

\* pc: "scan" between two runs (idle when nothing is left), "locked" inside the
\* run's transaction, "rolledback" before the failure is counted.
Tick == [pc : {"scan"}, todo : SUBSET Runs, run : {NoRun}]
        \cup [pc : {"locked", "rolledback"}, todo : SUBSET Runs, run : Runs]

IdleTick == [pc |-> "scan", todo |-> {}, run |-> NoRun]

SchedulerTypeOK ==
    /\ ticks \in [Ticks -> Tick]
    /\ written \in [Runs \X Inline -> Nat]

SchedulerInit ==
    /\ ticks = [t \in Ticks |-> IdleTick]
    /\ written = [x \in Runs \X Inline |-> 0]

-----------------------------------------------------------------------------
\* startRun: pending at the entry step, due at once, attempts empty.
StartRun(r) ==
    /\ runs[r].status = "absent"
    /\ runs' = [runs EXCEPT ![r] = [@ EXCEPT !.status = "pending", !.wake = "due"]]
    /\ UNCHANGED <<lock, jobs, faults, schedulerVars>>

\* The clock passes the wake_at of a run the tick would look at.
Elapse(r) ==
    /\ runs[r].status \in Live
    /\ runs[r].wake = "later"
    /\ runs' = [runs EXCEPT ![r].wake = "due"]
    /\ UNCHANGED <<lock, jobs, faults, schedulerVars>>

\* (Faulty: pending runs are forgotten.)
TickStart_WaitingOnly(t) ==
    /\ ticks[t] = IdleTick
    /\ \E r \in Runs : IsDue(r) /\ runs[r].status = "waiting"
    /\ ticks' = [ticks EXCEPT ![t].todo =
                    {r \in Runs : IsDue(r) /\ runs[r].status = "waiting"}]
    /\ UNCHANGED <<runs, lock, jobs, faults, written>>

\* Enumerate: a plain read, nothing is locked yet.
TickStart(t) ==
    /\ ticks[t] = IdleTick
    /\ \E r \in Runs : IsDue(r)
    /\ ticks' = [ticks EXCEPT ![t].todo = {r \in Runs : IsDue(r)}]
    /\ UNCHANGED <<runs, lock, jobs, faults, written>>

\* (Faulty: the enumeration is trusted, dueness is not checked again.)
TickLock_NoRecheck(t, r) ==
    /\ ticks[t].pc = "scan" /\ r \in ticks[t].todo
    /\ Unlocked(r)
    /\ lock' = [lock EXCEPT ![r] = t]
    /\ ticks' = [ticks EXCEPT ![t] = [pc |-> "locked", todo |-> @.todo \ {r}, run |-> r]]
    /\ UNCHANGED <<runs, jobs, faults, written>>

\* The per-run transaction takes the row, re-checking that it is still due.
TickLock(t, r) ==
    /\ ticks[t].pc = "scan" /\ r \in ticks[t].todo
    /\ Unlocked(r) /\ IsDue(r)
    /\ lock' = [lock EXCEPT ![r] = t]
    /\ ticks' = [ticks EXCEPT ![t] = [pc |-> "locked", todo |-> @.todo \ {r}, run |-> r]]
    /\ UNCHANGED <<runs, jobs, faults, written>>

\* SKIP LOCKED, or no longer due.
TickSkip(t, r) ==
    /\ ticks[t].pc = "scan" /\ r \in ticks[t].todo
    /\ ~(Unlocked(r) /\ IsDue(r))
    /\ ticks' = [ticks EXCEPT ![t].todo = @ \ {r}]
    /\ UNCHANGED <<runs, lock, jobs, faults, written>>

Release(r) == lock' = [lock EXCEPT ![r] = NoAgent]

NextRun(t) == ticks' = [ticks EXCEPT ![t] = [@ EXCEPT !.pc = "scan", !.run = NoRun]]

\* Phase 1 throws (a definition that dangles): the run is dead-lettered in the
\* transaction that locked it.
TickDeadLetter(t) ==
    LET r == ticks[t].run IN
    /\ ticks[t].pc = "locked"
    /\ Walk[<<runs[r].step, runs[r].disp>>].status = "throws"
    /\ runs' = [runs EXCEPT ![r].status = "failed"]
    /\ Release(r) /\ NextRun(t)
    /\ UNCHANGED <<jobs, faults, written>>

\* (Faulty: every action is logged as an attempt, inserted or not.)
Advanced_CountsAll(row, w, new) ==
    LET wanted(kind) == Cardinality({a \in w.actions : a.kind = kind})
    IN  [status |-> w.status, step |-> w.step, disp |-> w.disp, wake |-> w.wake,
         errs |-> 0,
         voice |-> row.voice + wanted("place_call"),
         whatsapp |-> row.whatsapp + wanted("send_wa")]

\* The row a committed walk w leaves: the attempts of the jobs really inserted
\* are logged, the failures of earlier applies are spent.
Advanced(row, w, new) ==
    [status |-> w.status, step |-> w.step, disp |-> w.disp, wake |-> w.wake,
     errs |-> 0,
     voice |-> row.voice + OfKind(new, "place_call"),
     whatsapp |-> row.whatsapp + OfKind(new, "send_wa")]

\* Phase 2 commits: jobs, inline rows and the advance, all or nothing.
TickApply(t) ==
    LET r   == ticks[t].run
        w   == Walk[<<runs[r].step, runs[r].disp>>]
        new == Inserted(r, w.actions)
    IN
    /\ ticks[t].pc = "locked"
    /\ w.status # "throws"
    /\ r \notin Poisoned
    /\ HasRoom(r, w.actions)
    /\ runs' = [runs EXCEPT ![r] = Advanced(@, w, new)]
    /\ jobs' = [j \in JobIds |-> IF j \in new THEN NewJob ELSE jobs[j]]
    /\ written' = [x \in Runs \X Inline |->
                     IF x[1] = r /\ x[2] \in w.actions THEN written[x] + 1
                                                       ELSE written[x]]
    /\ Release(r) /\ NextRun(t)
    /\ UNCHANGED faults

\* (Faulty: the inline writes are not part of the transaction.)
RollBack_Leaky(t) ==
    LET r == ticks[t].run
        w == Walk[<<runs[r].step, runs[r].disp>>] IN
    /\ ticks[t].pc = "locked"
    /\ Release(r)
    /\ ticks' = [ticks EXCEPT ![t].pc = "rolledback"]
    /\ written' = [x \in Runs \X Inline |->
                     IF x[1] = r /\ x[2] \in w.actions THEN written[x] + 1
                                                       ELSE written[x]]
    /\ UNCHANGED <<runs, jobs>>

\* The transaction throws: withOrg rolls all of it back, the dead letter of
\* phase 1 included.  The apply of a poisoned run throws every time, any other
\* commit at a fault.
RollBack(t) ==
    LET r == ticks[t].run IN
    /\ ticks[t].pc = "locked"
    /\ Release(r)
    /\ ticks' = [ticks EXCEPT ![t].pc = "rolledback"]
    /\ UNCHANGED <<runs, jobs, written>>

TickAbort(t) == RollBack(t) /\ Fault

TickPoisoned(t) ==
    LET r == ticks[t].run IN
    /\ r \in Poisoned
    /\ Walk[<<runs[r].step, runs[r].disp>>].status # "throws"
    /\ RollBack(t)
    /\ UNCHANGED faults

\* (Faulty: a status the enum does not have; the failure is not counted.)
Charged_Parked(row) ==
    [row EXCEPT !.errs = @ + 1,
                !.status = IF row.errs + 1 >= MaxApplyFailures THEN "parked" ELSE @]
Charged_NotCounted(row) == row

\* recordApplyFailure on a row it can lock: one more failure, and the run is
\* dead-lettered at the ceiling.
Charged(row) ==
    [row EXCEPT !.errs = @ + 1,
                !.status = IF row.errs + 1 >= MaxApplyFailures THEN "failed" ELSE @]

TickRecord(t) ==
    LET r == ticks[t].run IN
    /\ ticks[t].pc = "rolledback"
    /\ Unlocked(r) /\ runs[r].status \in Live
    /\ runs' = [runs EXCEPT ![r] = Charged(@)]
    /\ NextRun(t)
    /\ UNCHANGED <<lock, jobs, faults, written>>

\* recordApplyFailure leaves a run alone that another transaction holds or that
\* is over.
TickRecordSkip(t) ==
    LET r == ticks[t].run IN
    /\ ticks[t].pc = "rolledback"
    /\ ~(Unlocked(r) /\ runs[r].status \in Live)
    /\ NextRun(t)
    /\ UNCHANGED <<runs, lock, jobs, faults, written>>

\* The bookkeeping itself throws: logged, and the tick goes on.
TickRecordFails(t) ==
    /\ ticks[t].pc = "rolledback"
    /\ Fault
    /\ NextRun(t)
    /\ UNCHANGED <<runs, lock, jobs, written>>

\* The process of a tick dies: the database rolls back what was open.
TickCrash(t) ==
    /\ ticks[t] # IdleTick
    /\ Fault
    /\ lock' = [r \in Runs |-> IF lock[r] = t THEN NoAgent ELSE lock[r]]
    /\ ticks' = [ticks EXCEPT ![t] = IdleTick]
    /\ UNCHANGED <<runs, jobs, written>>

TickStep(t) ==
    \/ \E r \in Runs : TickLock(t, r) \/ TickSkip(t, r)
    \/ TickDeadLetter(t) \/ TickApply(t) \/ TickPoisoned(t)
    \/ TickRecord(t) \/ TickRecordSkip(t)

TickFault(t) == TickAbort(t) \/ TickRecordFails(t) \/ TickCrash(t)

SchedulerNext ==
    \/ \E r \in Runs : StartRun(r) \/ Elapse(r)
    \/ \E t \in Ticks : TickStart(t) \/ TickStep(t) \/ TickFault(t)
=============================================================================
