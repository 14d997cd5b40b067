------------------------------ MODULE RunStore ------------------------------
(***************************************************************************)
(* The database the scheduler and the job handlers share: the rows of      *)
(* workflow_runs with their row locks, and the pg-boss job table.          *)
(*                                                                         *)
(* A transaction that takes a run FOR UPDATE holds `lock` from then to its *)
(* commit or rollback.  The clock is not a number: wake_at is null         *)
(* ("none"), in the past ("due") or in the future ("later").               *)
(*                                                                         *)
(* pg-boss is a library; its job states are modelled from what the worker  *)
(* asks of it (createQueue, work, and the raw insert of enqueueJob).       *)
(***************************************************************************)
EXTENDS Naturals, FiniteSets

CONSTANTS
    Runs,         \* workflow runs
    Steps,        \* the step names of the runs' definition
    Entry,        \* definition.entry
    CallSteps,    \* the steps whose kind is "call"
    Disps,        \* what the outcome port may answer
    NoDisp,       \* state.lastDisposition unset
    Actions,      \* the identities (step, idx, kind) of the definition's actions
    MaxGen,       \* bound on the jobs ever inserted under one singleton key
    Ticks,        \* scheduler ticks that may overlap
    Workers,      \* job handlers that may run at once
    NoAgent, NoRun, NoJob,
    RetryLimit,   \* retry_limit of a job row the worker inserts itself (2)
    MaxFaults     \* bound on crashes, throws and expiries of one behaviour

VARIABLES
    runs,    \* workflow_runs: one row per run, "absent" before it is enrolled
    lock,    \* which transaction holds the row lock of a run
    jobs,    \* pgboss.job_common, one slot per key and generation
    faults   \* faults so far

ActionQueues == {"place_call", "send_wa"}

External == {a \in Actions : a.kind \in ActionQueues}
Inline   == Actions \ External

\* Singleton keys are <<run, action>>; generation g is the g-th row of a key.
JobIds == Runs \X External \X (1..MaxGen)

Agents == Ticks \cup Workers

ASSUME StoreAssumption ==
    /\ IsFiniteSet(Runs)
    /\ IsFiniteSet(Actions)
    /\ Entry \in Steps
    /\ CallSteps \subseteq Steps
    /\ NoDisp \notin Disps
    /\ NoAgent \notin Agents
    /\ Ticks \cap Workers = {}
    /\ NoRun \notin Runs
    /\ NoJob \notin JobIds
    /\ MaxGen \in Nat \ {0}
    /\ RetryLimit \in Nat
    /\ MaxFaults \in Nat

Live == {"pending", "waiting"}

\* errs is the length of attempts.apply_errors, voice and whatsapp those of the
\* channels' attempt logs.
Row == [status   : {"absent", "pending", "waiting", "completed", "failed"},
        step     : Steps,
        disp     : Disps \cup {NoDisp},
        wake     : {"none", "due", "later"},
        errs     : Nat,
        voice    : Nat,
        whatsapp : Nat]

\* sent counts the effects a job had outside the database, rows those it
\* committed; neither is stored by the code.
Job == [state : {"free", "created", "active", "retry", "completed", "failed"},
        tries : Nat,
        sent  : Nat,
        rows  : Nat]

FreeJob == [state |-> "free", tries |-> 0, sent |-> 0, rows |-> 0]
NewJob  == [FreeJob EXCEPT !.state = "created"]

AbsentRow == [status |-> "absent", step |-> Entry, disp |-> NoDisp,
              wake |-> "none", errs |-> 0, voice |-> 0, whatsapp |-> 0]

StoreTypeOK ==
    /\ runs \in [Runs -> Row]
    /\ lock \in [Runs -> Agents \cup {NoAgent}]
    /\ jobs \in [JobIds -> Job]
    /\ faults \in Nat

StoreInit ==
    /\ runs = [r \in Runs |-> AbsentRow]
    /\ lock = [r \in Runs |-> NoAgent]
    /\ jobs = [j \in JobIds |-> FreeJob]
    /\ faults = 0

-----------------------------------------------------------------------------
RunOf(j)    == j[1]
ActionOf(j) == j[2]

Unlocked(r) == lock[r] = NoAgent

IsDue(r) == runs[r].status \in Live /\ runs[r].wake = "due"

\* Waiting for the answer to a call: no timer, no disposition folded yet.
Parked(r) ==
    /\ runs[r].status = "waiting"
    /\ runs[r].wake = "none"
    /\ runs[r].disp = NoDisp

\* (Faulty: any earlier row of the key counts, as an index without the state
\* condition would have it.)
Queued_Ever(r, a) == \E g \in 1..MaxGen : jobs[<<r, a, g>>].state # "free"

\* job_i1: at most one row of a key in state 'created'.
Queued(r, a) == \E g \in 1..MaxGen : jobs[<<r, a, g>>].state = "created"

\* The slot the next row of a key goes to.
NextGen(r, a) ==
    {g \in 1..MaxGen : /\ jobs[<<r, a, g>>].state = "free"
                       /\ \A h \in 1..MaxGen :
                            h < g => jobs[<<r, a, h>>].state # "free"}

\* The rows the inserts of `actions` add: none for a key already queued.
Inserted(r, actions) ==
    {j \in JobIds : /\ j[1] = r
                    /\ j[2] \in actions
                    /\ ~Queued(r, j[2])
                    /\ j[3] \in NextGen(r, j[2])}

\* How many of the jobs `new` are of a kind.
OfKind(new, kind) == Cardinality({j \in new : ActionOf(j).kind = kind})

\* There is a slot for each row to insert: the bound MaxGen.
HasRoom(r, actions) ==
    \A a \in actions \cap External : Queued(r, a) \/ NextGen(r, a) # {}

\* Bound on faults.
Fault == faults < MaxFaults /\ faults' = faults + 1

\* pg-boss hands a job to a worker.
Fetched(job) == [job EXCEPT !.state = "active", !.tries = @ + 1]

\* pg-boss fails a job: back to the queue while retries are left.
FailedTry(job) ==
    [job EXCEPT !.state = IF job.tries <= RetryLimit THEN "retry" ELSE "failed"]
=============================================================================
