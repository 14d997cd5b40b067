# Revenue OS: the outreach pipeline and its done gate, specified

This directory holds TLA+ models of the worker (`services/worker`), of the
harness (`packages/harness`) and of the gate that decides when a coding agent's
change is finished (`scripts/done-gate`), the TLC configurations that check them
and the TLAPS proofs about them.

## The system

A company enrols contacts in a *workflow*: a definition of named steps (call,
whatsapp, wait, branch, tool, end). A run is one row of `workflow_runs`.

| Component | State | Operations | Talks to |
|---|---|---|---|
| Workflow interpreter (`workflow/interpret.ts`) | none | `interpret(def, state, event, now)`: one transition | called by the scheduler's `drive()` |
| Scheduler (`scheduler.ts`, `runs.ts`) | `workflow_runs` rows, their row locks, the attempt logs | `startRun`, `tick`, `processRun`, `applyTransitions`, `recordApplyFailure` | inserts jobs, writes `outcomes` and `tasks` |
| Job runner (`jobs.ts`, pg-boss) | `pgboss.job` | fetch, complete, fail, retry, expire | runs the handlers, fires the tick |
| Handlers (`place-call.ts`, `send-wa.ts`, `call-post.ts`) | `conversations`, `messages`, `usage_events`, `tasks` | one transaction per job, an effect in the middle | guard, channels, the run's row |
| Turn loop (`loop.ts`, `agent-turn.ts`) | `messages`, `usage_events`, `audit_log`, `tasks` | rounds of model call and tools | guard, tools |
| Guard (`policies.ts`, `quiet-hours.ts`) | none; reads policies, consent, attempts | four hooks in order | before every send |
| Vapi webhook (`vapi/receive.ts`, `vapi/process.ts`) | `webhook_events`, `conversations`, `messages`, `contact_memories` | receive, nudge, drain | job runner |
| Contacts, companies, settings (`packages/db`) | their tables | imports, single statements | HTTP routes |
| HTTP API, console, website | none of a run | | the queries above |
| Done gate, sessions and stops (`checkouts.ts`, `interrupted.ts`, `session-start.ts`, `verifier.ts`, `checkpoint.ts`, `stop.ts`, `verdict.ts`) | the record in `.git/done-gate`: notes, what was accepted, who touched last, passed trees, rulings, holds | one hook per session start, tool call, verifier and stop | the worktrees, the checks, the local stack |
| Done gate, lock on the local stack (`shared-stack.ts`) | the lock file and the claims beside it | `withSharedStack`: try, poll, take over, release | the processes of every worktree's gate |

A run is "due" while it is `pending` or `waiting` with `wake_at` in the past.
Every minute a tick takes the due runs one by one; each is interpreted until it
parks (on a timer, or on a call that has to be answered) or ends. Calls and
messages are not made by the tick: they are job rows it inserts in the same
transaction. A handler makes the call, folds its outcome into
`state.lastDisposition` and re-arms the run, which the next tick routes.
What the telephony provider reports about a call comes back through the webhook
and is filed into conversations, messages and the lead's memory. A line of the
contact may be answered by a turn of the AI: a job that asks the model, runs
the tools it asks for, and writes what was said.

The done gate is a program of its own. Several sessions of coding agents share
one repository, each in one or more worktrees. A hook runs when a session
starts, before each of its tool calls, and when it wants to stop; the stop judges
the change the session made in each worktree (checks, a verifier's ruling, a
checkpoint) and lets it go or sends it back. All of them read and write one
record, and the worktrees change under them.

### What is hard about it

- Two ticks may overlap, and a tick overlaps any number of handlers. They meet
  on the run's row: `FOR UPDATE SKIP LOCKED` in the tick, `FOR UPDATE` in the
  handlers, dueness and status read again under the lock.
- A handler's effect (a call, a message) cannot be rolled back, and comes
  before the commit that records it.
- pg-boss delivers at least once: it retries what failed, hands out again what
  outlived its expiry while the first try may still run, and dedupes a
  singleton key only while the earlier row is still `created`.
- A transaction that throws is rolled back, and its failure is counted in
  another transaction that can itself be skipped, fail, or race a commit.
- Events of a call arrive repeated, out of order, together with a nudge that may
  get lost, and possibly before the transaction that placed the call commits.
- A turn of the AI talks to the model and sends messages inside one transaction.
  Lines are filed and the job is delivered again while it does, and whether a
  line is answered is read off the order of the messages.
- A session's change is told from another's by notes taken at tool calls, and a
  worktree may be visited by others, moved to main, removed and added again, or
  edited between two readings of one stop. A session may die anywhere.
- The lock on the local stack is a file. Its holder may be killed, two waiters
  may both find it dead, and process ids and inode numbers come back.

`PROJECT.json` lists each of these at its line, under "hazards".

## The modules

```
Workflow ---- Sequence ---- MCSequence          interpret(), drive() and one run of them
   |              \------- SequenceProofs
   |
   +--------------------------------+
RunStore -- Scheduler --+           |
        \-- Handlers ---+- Pipeline + MCPipeline    ticks and jobs over one store
RunLifecycle <- refined by - Pipeline
                             Pipeline --- PipelineProofs --- EffectsProofs
VapiInbox ---- MCVapiInbox, VapiInboxProofs      receiver, nudges, drains, placed calls
Guard --- MCGuard, GuardProofs                   the hooks before a send
AgentTurn --- AgentTurnProofs                    the turns of one conversation
DoneGate --- MCDoneGate, DoneGateProofs          sessions, verifiers and stops
SharedStack --- SharedStackProofs                the lock on the local stack
```

**Workflow** translates `interpret()` (`interpret.ts` 96-223) and `drive()`
(`scheduler.ts` 238-268) as operators on a definition, with a recursive function
for the walk. A definition maps step names to records that keep what routing
reads (`on`, `arms`, `then`, `tool`) and replace content by `valid`: FALSE where
interpreting the step throws on its content. The timer is "none" or "later".
`Drive` also settles what `applyTransitions` makes of the walk: the step the row
is left on, the disposition it keeps, the actions labelled by (step, idx).
Indices start at 1 here and at 0 in the code.

**Sequence** is one run of any definition: `Wake` (a tick), `Answer` (the
handler's fold), `Elapse` (the clock). Its initial states are all the
definitions over given step names.

**RunStore** holds what the others share: `runs` (one row of `workflow_runs`
per run, "absent" before `startRun`), `lock` (who holds its row), `jobs` (the
slots of `pgboss.job`, one per run, action and generation), `faults`. The clock
is not a number: `wake_at` is null ("none"), past ("due") or future ("later"),
and the passage of time is the action `Elapse`. Arithmetic on dates
(`Nd`, `until`) is therefore not modelled. `sent` and `rows` of a job are ghosts:
effects made outside the database and those committed.

**Scheduler** has one action per transaction boundary of a tick: `TickStart`
(the unlocked enumeration), `TickLock`/`TickSkip` (`FOR UPDATE SKIP LOCKED` and the
second look at dueness), `TickApply` (everything phase 2 commits, in one step,
since none of it is visible before), `TickDeadLetter` (a definition that
throws), `TickAbort` (any commit fails, the dead letter's too, and is charged as a
failed apply) and `TickPoisoned` (rollback), `TickRecord`, `TickRecordSkip`,
`TickRecordFails` (the bookkeeping of a failed apply) and `TickCrash`. `Walk` is a constant
function from (step, disposition) to what `drive()` returns, so that the proofs
hold for whatever definitions there are; `MCPipeline` computes it with
`Workflow!Drive`. A run in `Poisoned` throws in every apply.

**Handlers** splits a job at its effect: `PlaceCallDial` locks the row, passes
the tests and dials; `PlaceCallFold` records, folds, re-arms and commits. In
between the lock is held and a crash, an exception or an expiry may come.
`PlaceCallReturn` is the stale job, the missing agent and the refusing guard
(`GuardMayBlock`: any call may be refused; nothing is known of why). `SendWa*`
is the same for messages, with the `usage_events` marker. `Throw`, `WorkerCrash`,
`Expire` and `ExpireSlow` (a handler that is slow and still runs) are pg-boss's
and the process's failures; `Finish` settles a job only if this try still
counts.

**Pipeline** composes the two, states the properties, the fairness and the
refinement of **RunLifecycle**, the promise in terms of a run alone: it is
enrolled, sleeps or calls, takes one answer at a time and acts on it before
another, asks for messages, has each delivered at most once, and stays over
once it is over.

**VapiInbox** is the webhook of one company. `Receive` inserts the event under
its dedupe key; `Nudge` and `LoseNudge` are the send that follows the commit. A
drain is one transaction: `Read` (the snapshot), `Lock` (waits for rows another
drain holds, re-reads them and drops what is no longer `received`), `File` (one
event under its savepoint, in timestamp order), `Commit`. What it writes stays
in `draft`, `own`, `buried` until the commit. Drains lock in one order, so the
claim is one step and they cannot deadlock there. A conversation's row or
key is held by the transaction that inserts or updates it (`convLock`). `Dial`,
`InsertCall`, `CommitCall`, `LoseCall` are the part of `place_call` that
meets the inbox. Secrets, parsing and text are left out.

**Guard** is the hook pipeline (`policies.ts`, `quiet-hours.ts`) as the calls of
one contact meet it. `Enqueue` is the part of `applyTransitions` the cap
depends on: it logs the attempt when the job is inserted. `Handle`, `DncHook`,
`QuietHook`, `CapHook`, `Place` and `Fold` are one handler, a step per query, so
that the clock (`Elapse`), the contact's no (`SayNo`), another run's handler or
a retry (`Redo`) may come between any two. `Query` is a query inside `withOrg`'s
transaction: one that fails makes every later one of that transaction fail
(there is no savepoint), whatever the hook that asked made of it. Hours stand
for minutes and a day has `Day` of them; a zone is an offset, and a zone that is
not in `Offset` is one `Intl` throws on. `autonomyHook` is absent: a call is
always "auto". Guard stands alone: Pipeline knows of it only `GuardMayBlock`.

**AgentTurn** is one conversation. `FileLine` is the drain's upsert, which waits
for the conversation's row; `Enqueue`, `Fetch`, `Finish`, `Expire`, `ExpireSlow`
are pg-boss's. A turn is `Open` (the row lock, the pending check, the agent's
load), then an answer of the model at a time: `AnswerTools` and one `Call` per
tool call, `AnswerText` or `AnswerNothing`; then `Commit`. What it writes is in
`draft` until then, what its tools send is out at once (`sent`). A tool call has
one of four fates (`refused`, `gated`, `ran`, `sent`) that decide its rows. A
message's `seq` is its index. The prompt's text, its length (`TRANSCRIPT_TAIL`)
and the usage rows are left out. Nothing in `src/` enqueues this job yet, so
`Enqueue` is anybody with a line to answer.

**SharedStack** is `takeLock` call by call: `WriteMine`, `LinkMine`, `OpenLock`,
`JudgeHolder`, `ClaimStale`, `CheckClaim`, `ReplaceLock`, `RemoveClaim`, then
`Release`. A file is an inode number that may come back once no name, claim or
open descriptor is on it; a process may be killed at every call and its id be
given out again. A lock removed by hand and the fallback of `stateDir` are left
out.

**DoneGate** keeps the record's files as variables and has an action per hook. A
tree is (how far main had got in it, the content of its own change); what the
rules and checks make of it is the sets `Lawful`, `Clean`, `Green` and `Product`. A
difference from HEAD names both the contents it is between, as the
`diff-tree` that `extra` hashes does (`checkouts.ts:82-83`). `SessionStart`,
`Call` and `VerifierRuns` note the worktree (`Touched`, `Touch`: `touch` and
`atWorkNow`); `Change` is what git and an editor do to it meanwhile. A stop is
`StopsSilently`, `StopsToAsk`, or `StopBegins` followed by a `Judge` per
worktree, `ChecksEnd` where the checks ran, and `StopPasses` or `StopFails`: a
step for each moment the code reads the live worktree again, so other sessions
come between any two. `Interrupt` is a session killed anywhere, `Quiet` its 15
minutes without a call. Left out: Codex and machines without Docker (which wait
for nothing), the main checkout, what is only told to the user (`warned`,
`baseline`), `bun run gate check`, tool calls that touch several worktrees at
once, visits to main with edits and a HEAD detached elsewhere, and a worktree that
cannot be read, which a stop reports and does not judge (`stop.ts:68-72`).
`Refused` is the rules, asked before the record on every judgement
(`verdict.ts:33-41`), and a hold off its branch; broken rules and failed checks
both send the session back.

Definitions named `X_Y`, marked "(Faulty: ...)", are deliberate errors in
definition `X`, one for each property; substituted for `X` they make TLC
violate that property under the same configuration.

## The runs

| Run | Configuration | What it shows |
|---|---|---|
| sequence | every definition of two free steps, an end, dangling references | a parked run has exactly one thing to wake it; it routes the answered call and the branches behind it and nothing else |
| pipeline | the seeded sequence (`supabase/seeds/real_estate.sql`), 1 run, 2 ticks, 2 workers, 3 faults | row locks protect what was read under them; one committed delivery per send; a stored disposition is at its call; inline rows written once; terminal states final; refinement of RunLifecycle |
| cadence | a definition with a cycle, up to 3 jobs per key, 1 tick, 2 workers, 2 faults | attempt logs count exactly the jobs that exist; no run parked on a call is orphaned except by a guard's refusal or exhausted retries; a call or a message is repeated only at the price of a fault |
| run_ends | 2 runs, one poisoned, 2 faults, fairness | due runs are taken up, the poisoned one is dead-lettered, every run ends |
| inbox | 3 events of 2 outbound calls, 2 drains, 3 nudges, 1 fault, 1 lost nudge | lines filed once; one live summary; every received event has a drain to come; conversations only grow |
| drained | 3 events, one that cannot be filed, one not understood, 2 drains, 2 faults, fairness | a failed event leaves nothing behind; every stored event settles |
| guard | 2 runs of one contact, a window over midnight in the contact's zone, 2 calls in 2 hours, 1 fault | no call passes the hook in a quiet hour; the newest run keeps its cap in every window; one call at most per run after a no |
| turn | 2 jobs, 2 executions, 2 rounds of 1 call, 2 lines, 1 fault, fairness | no line is passed over and none answered twice; a completed job's lines are answered; a send is on record or cost a fault; audit rows and tasks match the tool messages; every job settles |
| stack | 3 processes, 3 inode numbers, 2 kills, fairness | one process holds the stack; a dead holder's lock is replaced while anybody wants it, save where a taker-over was killed too |
| done_gate | 2 sessions, 1 worktree, 5 events; four contents: main's own, one green, one green off the database only, one that breaks a rule | a session let go in silence changed nothing it did not answer for; code newly accepted by a passing stop went green, and product code was seen by a verifier |

Each of the following checks one sentence of the repository and finds it false
of the code; "findings" in `PROJECT.json` quotes the sentence.

| Run | The code does |
|---|---|
| stale_job | a late call job dials for whichever call step its run has reached |
| early_event | an event filed before `place_call` inserts its conversation makes that insert fail, and the call is dialled again |

Things seen while modelling that no run states, because no sentence of the
repository is contradicted or there is only a remark: a
walk that completes on a whatsapp step leaves `current_step` there, although
`scheduler.ts:305` speaks of the walked step; a failure between an effect and its
commit repeats the effect, which RepeatsNeedFaults allows for
(`place-call.ts:4` calls it "exactly-once", and `docs/fix-when-touched.md` lists it);
a transcript line that arrives after a later one was drained takes the later
place (`process.ts:138`); the cap counts the newest run alone
(`docs/fix-when-touched.md`); a message step visited a
second time is enqueued and counted but sends nothing, as the marker names the
step and not the visit (`send-wa.ts:76`); a failed apply can be charged to the
run after another tick's success cleared the log, or to nothing when
another transaction holds the row (`scheduler.ts:198`), so ticks that
time and again lock the run between each other's rollback and record would keep
a poisoned run from reaching three: the cron starts them a minute apart, and
run_ends, whose fairness knows no minutes, has one tick;
two events of one call and type without id and timestamp share a dedupe key
(`receive.ts:46`); the lost nudge of a company's last event leaves it undrained until
another event comes (`jobs.ts:195-197`). A job the scheduler inserted has no
dead letter, so nobody reviews it when its retries are used up
(`scheduler.ts:290-303`). A cap of three refuses the third call, since its own
attempt was logged when its job was inserted, where the test of the
hook alone (`packages/harness/test/policies.test.ts:161`) lets it pass. A hook
that lets a call through because its query failed leaves the transaction aborted, and the next hook's query refuses. After
`MAX_TOOL_ROUNDS` no closing message is saved, though `loop.ts:2-3` says so, and
the trigger counts as answered; a silent reply leaves it pending, so a
redelivery asks the model again (`agent-turn.ts:6` says once); conversations the
drain opens have no agent and get no turn.

And in the done gate:

- `extra` is noted when a worktree is touched and not refreshed when code is
  accepted (`checkouts.ts:99-108`, `:157-159`): in front of a commit of main,
  edits like those first noted are accepted without judgement, which
  `only-main.ts:1-4` does not mean. SilentStopChangedNothing names the exception.
- A stop reads a worktree once to list it, once to judge it, runs the checks on
  what is there by then, and records the second and accepts the first
  (`stop.ts:34`, `:101`, `:127`, `verdict.ts:51-58`). `misread` are the trees so
  recorded, and PassIsProven excludes them.
- Another session's mere call in a worktree takes it off the first one's stop,
  and its own next call there makes the edits it finds its starting point
  (`checkouts.ts:150-168`, `stop.ts:37`). So does a worktree removed and added
  again while off its branch, or on one the session accepted nothing on: that is
  why `answers` is a set.
- A session killed with its verifier leaves the note that one runs
  (`verifier.ts:122`, `:145`; `stale`), and its later stops in the background
  always wait. The note goes before the verifier is sent back (`:145`, `:176`), so
  a stop in between does not wait for it.
- A report handed back and refused still counts as handed back, so the verifier's
  last message is neither taken nor sent back (`subagent-run.ts:35-41`,
  `verifier.ts:176`). Its first command in a worktree with a checkpoint is noted
  before `showOnArrival` holds it back (`hook.ts:119-120`): `ruledOn` says a
  command was noted, not that it ran.
- A checkpoint's hold falls to whoever touched the worktree last
  (`checkpoint.ts:225-226`).
- A waiter killed between its claim and the claim's removal leaves the claim;
  every later takeover of that lock meets it, and the waiters give up after half an hour
  naming the file (`shared-stack.ts:79-91`). A dead holder whose process id runs
  again looks alive.

## Bounds

| Bound | Value | Why it is enough |
|---|---|---|
| `MaxSteps` | 64, as in the code | the walks of the free definitions cycle, so the limit is met |
| `MaxWakes` (sequence) | 5 | a definition of three steps is walked from each of them, with and without an answer |
| `Ticks`, `Workers` | 2 | one pair of contenders for a row; the proofs cover any number |
| `MaxFaults` | 1 to 3 | an expiry, its retry and a rollback together; three are needed for a late job to meet a dead-lettered run |
| `MaxApplyFailures` | 2 in pipeline, 3 (the code's) elsewhere | the ceiling is reached within the faults |
| `RetryLimit` | 2 for jobs inserted by the scheduler, 3 for drains; 1 in inbox and turn | with one fault a smaller limit is never reached in inbox; 3 is used in drained |
| `MaxGen` | 1 where the definition has no cycle, 3 in cadence | one row per key, or one per visit; a guard of `TickApply` (`HasRoom`) |
| `Day`, `Horizon` | 4, 3 | every hour of a day that a window wraps, each side of midnight |
| `MaxAttempts` (guard) | 3 | one more than the cap |
| `Jobs`, `Workers` (turn) | 2 | a turn of another job, and another try of the same, while one runs |
| `MaxRounds`, `MaxCalls`, `MaxLines` | 2, 1, 2 | a round that is not the last and one that is; a line before a turn and one during it. The code has 5 rounds; the proofs cover any numbers |
| `MaxKilled` (stack) | 2 | the holder, and the one that takes over from it |
| `Procs`, `Inodes` (stack) | 3 | a dead holder and two waiters; an inode number that is lost to a killed try leaves two that come back |
| `MaxEvents` | 5, a verifier counting as two | start, edit and verifier, with an event left for another session; the properties were also checked, in reduced instances, with one session and 9 events and with two and 7, and the proofs cover any number |
| `MaxBlocks` | 1, the code's is 5 | sent back and let go within the events |
| `Nudges`, `MaxLost` | 2-3, 0-1 | one per delivery of an event; a delivery needs a free slot |

Ticks, workers, drains and nudges are interchangeable and are symmetry sets in
the runs without liveness properties; so are the sessions of done_gate. `CHECK_DEADLOCK FALSE` is set because
runs end and events settle: when all are over there is nothing to do.

## Fairness

`FairSpec` of Pipeline: the clock moves on (`Elapse`); pg-boss's cron fires the
tick and a tick that runs takes its steps; workers poll, fetch and run;
pg-boss's maintenance expires jobs of dead processes. All are weak fairness, of
what the process does as long as it is up. Faults are never fair, and finitely
many: fewer than a job has tries, which the retry limit presupposes. Lock waits
need no strong fairness: a tick skips a held row, and a worker that waits is
alone among the contenders once the tick has skipped. `StartRun` is not fair;
nobody has to enrol. EveryRunEnds assumes the guard lets calls through: with
one that refuses, the run stays parked on its call (`place-call.ts:122`).
`FairSpec` of VapiInbox is the same for receivers, nudges, drains and expiries.
`FairSpec` of AgentTurn: a worker's handler goes on (the model answers or the
call throws), pg-boss hands out its jobs and expires those of dead processes.
Weak fairness is enough at the conversation's lock, because the lines and tries of
others run out. `FairSpec` of SharedStack: a process that runs goes on with its
try and polls again after its nap, and its work ends. Nobody is bound to want
the stack, to give up, to be killed or to get a dead process's id. DoneGate has
no liveness property: a session stops when its user or its model pleases.

## What is proved

Every safety invariant, every action property and the refinement that a passing run
checks is also a theorem, for every value of the constants. No proof bounds
the number of runs, jobs, ticks, workers, lines, sessions or processes.

| Module | Theorem | States |
|---|---|---|
| SequenceProofs | `DriveSettles` | what the pipeline assumes of `Walk`, for any well-formed definition |
| | `SequenceTypes`, `OneWaker` | Spec => []TypeOK, []ParkedHasOneWaker |
| | `DispositionStops` | Spec => DispositionStopsAtBranch |
| PipelineProofs | `TypeCorrect`, `LockCorrect` | Spec => []TypeOK, []LockProtectsRun |
| | `FinalCorrect`, `DeliveryCorrect` | Spec => TerminalIsFinal, []OneDeliveryPerSend |
| | `DispositionCorrect` | Spec => []DispositionAtCall |
| | `LifecycleRefined` | Spec => RefinesLifecycle |
| | `InlineCorrect` | NeverReturns => (Spec => []InlineWrittenOnce) |
| EffectsProofs | `AttemptsCorrect`, `ServedCorrect`, `RepeatsCorrect` | Spec => []AttemptsCountJobs, []ParkedIsServed, []RepeatsNeedFaults |
| VapiInboxProofs | `InboxTypes`, `LinesCorrect`, `FailedCorrect` | Spec => []TypeOK, []LinesMatchStatus, []FailedLeavesNothing |
| | `SummaryCorrect`, `DrainCorrect`, `KeptCorrect` | Spec => []OneLiveSummary, []ReceivedHasDrain, ConversationKept |
| GuardProofs | `WithinIsQuietHours` | the comparison of `quiet-hours.ts` is true of exactly the hours counted off from start to end round the clock |
| | `GuardTypes`, `QuietHoursKept` | Spec => []TypeOK, QuietKept |
| | `NoMeansNo`, `CapCorrect` | Spec => []OneCallAfterNo, []CapHolds |
| AgentTurnProofs | `TurnTypes`, `LinesAreRead`, `LinesAnsweredOnce` | Spec => []TypeOK, []NoLinePassedOver, []TurnsAnswerLines |
| | `CompletedCorrect`, `SendsCorrect`, `RowsCorrect` | Spec => []CompletedIsAnswered, []SendsAreOnRecord, []RowsMatch |
| SharedStackProofs | `StackTypes`, `StackHeldByOne` | Spec => []TypeOK, []OneHolder |
| | `ReleasesItsOwn` | a release, which removes whatever file is at the lock's path unread, removes the releaser's own |
| DoneGateProofs | `GateTypes`, `PassesAreProven`, `SilentStopsChangeNothing` | Spec => []TypeOK, PassIsProven, SilentStopChangedNothing |

### From which assumptions

- `StoreAssumption`, `WalkAssumption`: finitely many runs and actions, disjoint
  ticks and workers, a `Walk` whose results have the declared type.
- `WalkSettles`: a walk that begins without a disposition, or at a call, ends
  without one, and stops without a timer only on a call it has asked for. The
  handlers and the store know nothing else of definitions. It is not an article
  of faith: `DriveSettles` proves it of `drive()` for every definition
  `WorkflowDefinitionSchema` passes, and TLC evaluates it on the definitions of
  every run of the pipeline.
- `NeverReturns`, a hypothesis of `InlineCorrect` alone: the steps can be ranked so that
  walks only go on. InlineWrittenOnce is false in a definition with a cycle,
  where a step may be due twice. `SeedNeverReturns` gives the ranking for the
  seeded sequence and TLC evaluates it.
- `SequenceAssumption`: the bounds are numbers, and every definition is
  `WellFormed`: a finite set of steps, each of one of the schema's kinds with
  strings for its references, which need not name a step. `startRun` and
  `processRun` parse the definition with that schema (`runs.ts:39`,
  `scheduler.ts:163`). `Null` stands for null, so no step has its name.
- `InboxAssumption`, `TurnAssumption`, `GuardAssumption`, `GateAssumption`,
  `NoFileAssumption`: numbers are numbers, names that must differ do, events and
  settings have their declared types, green code is clean, unchanged code is green.

### The arguments

*Walks.* `interpret()` and `drive()` recurse over data, and no induction theorem of
the library can be used here (they take an operator as parameter). Both are written as
functions of their fuel, and `SequenceProofs` reasons by least
counterexample instead: `Least` (a non-empty set of numbers has a least member, from
well-foundedness of <) gives `UpTo`, and `InterpretUnfolds`, `DriveUnfolds`
show that the recursive functions satisfy their equations, which TLAPS does not
know of by itself. `SoundStep` then goes up the fuel of `interpret()`: a
transition asks for a call exactly where it parks on one, and a call or branch with a
disposition to route by does not stop. `SoundWalk` goes up the turns of
`drive()`: a walk that waits has a timer and no call, or the one call it rests on,
and what it was given to route by is spent. SeqInv says the same of the stored row
and the last walk. `DispositionStops` compares two walks with different turns
left: one that ends is the same with more turns (`MoreTurns`), and without a
disposition it is that of a run that never had one (`FreshWalk`).

*Pipeline.* TypeOK is inductive. LockProtectsRun is inductive with it and
is what the others rest on: while a tick is "locked" or a handler has "sent", it holds
its run's lock and what it read under the lock is still so, since every action
that writes a row needs the lock free or its own. So `TickApply` starts from a
due row, `PlaceCallFold` from a waiting one, and neither writes a terminal row:
that is `FinalCorrect`, together with `Charged`, which tests for a live row.
For `DeliveryCorrect` a handler that has sent holds its run with the key not
among the markers (part of LockProtectsRun), and the property itself says that a
committed row has its marker: so the commit adds the first row of its key.
DispositionAtCall needs `RowsSettled` beside it: an absent row holds no
disposition, since enrolment makes it live, and a pending one is due, since the
clock must not reach it. For `InlineCorrect` what was written once
lies behind its run: its step has a smaller rank (`WrittenBehind`).

*Refinement.* The mapping reads the abstract phase and answer off the row, and the
abstract messages off the jobs. Each action of Pipeline maps to a step of RunLifecycle
or to a stutter (`NextMaps`, one lemma per kind of step): `StartRun` is Enrol,
`TickApply` Advance, `Elapse` Elapse, `PlaceCallFold` Answer, `SendWaCommit` Deliver,
dead-lettering GiveUp, and everything else, faults included, a stutter. It uses
LockProtectsRun (a commit starts from the row that was locked), Settled (an
answer is there only for a run that calls) and `BusyInUse`.

*Effects.* The logs are equal to the cardinalities of the jobs made of a run
(`LogsCountMade`): a commit adds free slots and logs as many. A busy worker has a
try its job counts, and its own (`TriesCounted`, `TriesApart`). A parked run
rests on a call step and has a job in use that committed no row and may still
be served, failed, or can be refused (`Awaited`). For RepeatsNeedFaults every failed try cost a fault of
its own (`FailuresCostFaults`); a run's calls are no more than the tries that have come to
their effect (`CallsPaid`), of which each job has one at most that has not failed; and the
sends of a message are no more than its failed tries, but for one that has the
marker or is about to write it (`SendsPaid`).

*VapiInbox.* Two drains that hold their rows share none, and of two reads one contains what
is left of the other (`RowsHeld`, `ReadsNested`), so at most one drain has
anything to file. What it holds of a conversation is the committed one, kept,
with one more occurrence of each line it has marked processed, and it holds it
only for an event so marked (`DraftsHold`): that is LinesMatchStatus,
FailedLeavesNothing and ConversationKept at the commit. A placing transaction's
conversation has no row yet (`PlacesHold`). OneLiveSummary follows from what the filing drain has
buried (`OneMemory`), ReceivedHasDrain from the tries of nudges, each handed out
once (`TriesCounted`, `TriesApart`).

*Guard.* QuietKept follows from the type invariant and `WithinIsQuietHours`, since a
step into the cap's hook with no query failed is the calling-hours hook finding
the hour outside. OneCallAfterNo is not inductive: it says nothing of a run that
has called since the no and is past the consent check again. `AfterNo` adds that there is no
such run; a retry puts a run back before the check, and the check lets
nobody through any more. CapHolds compares two counts, calls made
and attempts stamped at enqueue, in one window that moves with the clock.
`CallsStamped` says it of every window that is open to the right: a run's calls
since any hour exceed its stamps since then by the faults at most, and by one
while it is between two calls, when the stamp of the last may have left the
window. `ClearedBelowCap` says that the count the hook saw is still below the cap
when a cleared run calls.

*AgentTurn.* The lock is the key: at most one turn is between `Open` and
`Commit` and no line is filed meanwhile, so the context a turn last assembled
had every line before what it writes, and it opened only with a line after every
message of the turns before (`OneHolds`, `AllSound`, `TurnsWriteNoLines`). A
worker about to complete its job has the job's line answered (`DoneAnswered`),
and no job's line is ahead of the last one filed (`UptoBehind`). Tries belong to one
worker, so a send belongs to one turn: while it is open the send is in
its draft (`SentHeld`), and a turn that loses its draft costs a fault. `DraftRows`
keeps the open turn's tasks and audit rows equal to what its draft counts.

*SharedStack.* OneHolder alone is far from inductive. A file written and not yet
linked has no other name (`MineIsFresh`); the lock names its holder (`HolderOwns`);
no two processes take over from one dead file (`OneClaim`); a file judged dead,
while it is the lock, is held by nobody (`JudgedDead`); and a claim found to
link the file that was judged means it still is the lock (`ClaimHolds`). The open
descriptor is what keeps the judged file's number from coming back.

*DoneGate.* PassIsProven needs that what the record says was so: checked trees
are green or misread (`CheckedIsGreen`), delivered rulings and the running
verifier's are on trees a command was noted on (`RulingsSaw`, `Readings`), and
a tree judged in the present stop was covered by both (`JudgedIsProven`).
SilentStopChangedNothing needs that whatever is accepted for a branch or a
worktree, and whatever a stop may yet accept, has a content in `answers`
(`AcceptedAnswers`), and that a worktree off its branch, or a branch that is not
ahead of main, has nothing of its own (`Plain`).

### Only model-checked

- The liveness properties: DueIsTaken, PoisonedIsParked, EveryRunEnds (run_ends),
  EveryEventSettles (drained), JobsSettle (turn), StaleIsReplaced (stack). The prover has
  no rule for fairness over ENABLED here.
- The two violations, StaleJobIsNoOp and CallIsRecorded: their counterexamples
  are TLC's.
- That `Interpret`'s fuel, one unit per step of the definition, runs out only where
  whatsapp steps cycle. The theorems hold of what `Interpret` returns; the argument
  (a longer chain visits a step twice) is the pigeonhole one and is not formalised.

## Not modelled

The models cover the decisions of the worker, the harness and the done gate,
which are a small share of the repository's lines. The largest part is user
interface (`apps/www`, `apps/console`), static check scripts
(`scripts/guards`, `scripts/proof`, `scripts/eval-runner.ts`) and tests, which
keep no state across steps that a property could be about.

Of the done gate, the rules, coverage, `shell-words.ts` and the merge gate are
text analysis of one change at a time; what they decide is data here (`Lawful`, `Clean`,
`Green`, `Product`), and which worktree a command runs in is chosen freely. The
merge gate reads git and GitHub once (`merge-gate.ts:240-263`) and can be
overtaken by a push between its look and the merge; it keeps nothing. Contact
imports are planned.
Companies, settings, agents, conversations, tasks and metrics are single
statements with nothing to interleave. The HTTP layer, sign-in, console and
website hold no state of a run; the LLM adapter and tools are formatting around
one call; row-level security and migrations are declarative. The date arithmetic
of timers is not modelled.

## Plan

In order:

1. Done: Workflow, Sequence, RunStore, Scheduler, Handlers, Pipeline,
   RunLifecycle, VapiInbox, Guard, AgentTurn, SharedStack and DoneGate.
2. Done: all their safety properties and the refinement as theorems.
3. Proofs: that a conversation's lines and the drains' marks refine an inbox that files
   each event once; that Guard implements `GuardMayBlock`; that `Interpret`'s fuel
   suffices where whatsapp steps do not cycle; that runs are independent of each
   other, so one run's properties need no second run.
4. **Contacts** (`contacts.ts`): two imports of overlapping lists against the
   identity key. Guard in the place of `GuardMayBlock` in a run of the pipeline.
