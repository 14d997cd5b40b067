------------------------------ MODULE AgentTurn ------------------------------
(***************************************************************************)
(* The turns the AI takes in one conversation: the run_agent_turn job      *)
(* (handlers/agent-turn.ts), the turn loop it drives (harness loop.ts),    *)
(* and the transcript lines the webhook's drain files beside it            *)
(* (vapi/process.ts).                                                      *)
(*                                                                         *)
(* A turn is one transaction under the conversation's row lock, and takes  *)
(* it to the model and back several times.  What it writes is its own      *)
(* until it commits (`draft`); what its tools send is out at once.  The    *)
(* drain's upsert takes the same lock, so max(seq) + 1 is the next place   *)
(* in the conversation and a message's seq is its index here.              *)
(***************************************************************************)
EXTENDS Naturals, Sequences, FiniteSets

CONSTANTS
    Jobs,          \* slots for run_agent_turn jobs
    Workers,       \* processes that may run the job at once
    MaxRounds,     \* MAX_TOOL_ROUNDS (5)
    MaxCalls,      \* bound on the tool calls of one answer of the model
    MaxLines,      \* bound on the lines the drain files
    RetryLimit,    \* of the job queue
    MaxFaults,     \* bound on throws, crashes and slow expiries
    NoTx, NoJob

VARIABLES
    agent,     \* whether the conversation has an agent the job can load
    msgs,      \* the committed messages, by seq
    lock,      \* the worker whose transaction holds the conversation's row
    rows,      \* committed audit_log and tasks rows of the conversation
    jobs,      \* pgboss.job rows of run_agent_turn
    workers,   \* the executions of the handler
    sent,      \* the turns whose send_confirmation went out: [turn, saw]
    silent,    \* the last line a turn has read and said nothing to
    faults

vars == <<agent, msgs, lock, rows, jobs, workers, sent, silent, faults>>

ASSUME TurnAssumption ==
    /\ MaxRounds \in Nat \ {0} /\ MaxCalls \in Nat /\ MaxLines \in Nat
    /\ RetryLimit \in Nat /\ MaxFaults \in Nat
    /\ NoTx \notin Workers /\ NoJob \notin Jobs

\* What becomes of a tool call.  It is turned down: an unknown name or one the
\* agent is not allowed, arguments that do not parse, a guard's refusal.  It
\* waits for approval.  It runs, on the transaction alone.  It sends.
Fates == {"refused", "gated", "ran", "sent"}

\* A turn is a try of a job.  saw is the last line of the contact in the
\* context the turn had assembled when it wrote the message.
Turns   == Jobs \X Nat
Message == [role : {"contact", "agent", "tool"}, fate : Fates \cup {"none"},
            turn : Turns \cup {NoTx}, saw : Nat]

\* (Faulty: the provider's words for the speakers, not ROLE_MAP's.)
Line_Unmapped(role) ==
    [role |-> IF role = "contact" THEN "user" ELSE "assistant", fate |-> "none",
     turn |-> NoTx, saw |-> 0]

\* A line the drain files; no turn wrote it.
Line(role) == [role |-> role, fate |-> "none", turn |-> NoTx, saw |-> 0]

Rows == [audits : Nat, tasks : Nat]

Job == [state : {"free", "created", "active", "retry", "completed", "failed"},
        tries : Nat, upto : Nat]

\* pc: "fetched" before the lock, "asking" while the model answers, "calling"
\* while `calls` of its tool calls are to run, "closing" before the commit,
\* "done" after it.
Worker == [pc    : {"idle", "fetched", "asking", "calling", "closing", "done"},
           job   : Jobs \cup {NoJob}, try : Nat,
           round : Nat, calls : Nat, saw : Nat,
           draft : Seq(Message), rows : Rows]

NoRows     == [audits |-> 0, tasks |-> 0]
IdleWorker == [pc |-> "idle", job |-> NoJob, try |-> 0, round |-> 0, calls |-> 0,
               saw |-> 0, draft |-> <<>>, rows |-> NoRows]

TypeOK ==
    /\ agent \in BOOLEAN
    /\ msgs \in Seq(Message)
    /\ lock \in Workers \cup {NoTx}
    /\ rows \in Rows
    /\ jobs \in [Jobs -> Job]
    /\ workers \in [Workers -> Worker]
    /\ sent \in SUBSET [turn : Turns, saw : Nat]
    /\ silent \in Nat /\ faults \in Nat

Init ==
    /\ agent \in BOOLEAN
    /\ msgs = <<>> /\ lock = NoTx /\ rows = NoRows
    /\ jobs = [j \in Jobs |-> [state |-> "free", tries |-> 0, upto |-> 0]]
    /\ workers = [w \in Workers |-> IdleWorker]
    /\ sent = {} /\ silent = 0 /\ faults = 0
-----------------------------------------------------------------------------
\* The places of a sequence of messages that hold one of the roles.
Places(s, roles) == {i \in DOMAIN s : s[i].role \in roles}

Later(i, s) == \A k \in s : k <= i

\* The highest of a set of places, 0 for none: coalesce(max(seq), 0).
Last(s) == IF s = {} THEN 0 ELSE CHOOSE i \in s : Later(i, s)

LastLine(s) == Last(Places(s, {"contact"}))

\* (Faulty: an answer is what the agent says, and no tool message.)
Pending_Unspoken(s) == LastLine(s) > Last(Places(s, {"agent"}))

\* A line of the contact after every message of the agent and its tools.
Pending(s) == LastLine(s) > Last(Places(s, {"agent", "tool"}))

\* Bound on the lines filed.
HasRoom == Cardinality({i \in DOMAIN msgs : msgs[i].turn = NoTx}) < MaxLines

\* (Faulty: the upsert does nothing on conflict and takes no lock.)
FileLine_Unlocked(role) ==
    /\ HasRoom
    /\ msgs' = Append(msgs, Line(role))
    /\ UNCHANGED <<agent, lock, rows, jobs, workers, sent, silent, faults>>

\* The drain files a line of the contact, or of the voice assistant: its upsert
\* waits for the conversation's row.
FileLine(role) ==
    /\ HasRoom /\ lock = NoTx
    /\ msgs' = Append(msgs, Line(role))
    /\ UNCHANGED <<agent, lock, rows, jobs, workers, sent, silent, faults>>

\* Whoever answers the contact's lines queues the job.
Enqueue(j) ==
    /\ jobs[j].state = "free" /\ LastLine(msgs) > 0
    /\ jobs' = [jobs EXCEPT ![j] = [state |-> "created", tries |-> 0, upto |-> LastLine(msgs)]]
    /\ UNCHANGED <<agent, msgs, lock, rows, workers, sent, silent, faults>>

Fetch(w, j) ==
    /\ workers[w].pc = "idle" /\ jobs[j].state \in {"created", "retry"}
    /\ jobs' = [jobs EXCEPT ![j].state = "active", ![j].tries = @ + 1]
    /\ workers' = [workers EXCEPT ![w] =
         [IdleWorker EXCEPT !.pc = "fetched", !.job = j, !.try = jobs[j].tries + 1]]
    /\ UNCHANGED <<agent, msgs, lock, rows, sent, silent, faults>>
-----------------------------------------------------------------------------
\* assembleContext: what the transaction sees of the conversation.
Asking(worker, round) ==
    [worker EXCEPT !.pc = "asking", !.round = round, !.saw = LastLine(msgs \o worker.draft)]

\* (Faulty: FOR UPDATE SKIP LOCKED.)
Open_SkipLocked(w) ==
    /\ workers[w].pc = "fetched"
    /\ IF lock = NoTx /\ Pending(msgs) /\ agent
       THEN /\ lock' = w
            /\ workers' = [workers EXCEPT ![w] = Asking(@, 1)]
       ELSE /\ workers' = [workers EXCEPT ![w].pc = "done"]
            /\ UNCHANGED lock
    /\ UNCHANGED <<agent, msgs, rows, jobs, sent, silent, faults>>

\* The lock, then the pending check: a turn another execution has answered, or
\* one with nothing to answer, is returned from; so is a conversation without
\* an agent, as those the drain opens are.
Open(w) ==
    /\ workers[w].pc = "fetched" /\ lock = NoTx
    /\ IF Pending(msgs) /\ agent
       THEN /\ lock' = w
            /\ workers' = [workers EXCEPT ![w] = Asking(@, 1)]
       ELSE /\ workers' = [workers EXCEPT ![w].pc = "done"]
            /\ UNCHANGED lock
    /\ UNCHANGED <<agent, msgs, rows, jobs, sent, silent, faults>>

TurnOf(worker) == <<worker.job, worker.try>>

Written(worker, role, fate) ==
    [role |-> role, fate |-> fate, turn |-> TurnOf(worker), saw |-> worker.saw]

\* The model's answer asks for tools.
AnswerTools(w, n) ==
    /\ workers[w].pc = "asking" /\ n > 0
    /\ workers' = [workers EXCEPT ![w].pc = "calling", ![w].calls = n]
    /\ UNCHANGED <<agent, msgs, lock, rows, jobs, sent, silent, faults>>

\* The model's answer asks for none: its text is appended, and the turn is over.
AnswerText(w) ==
    /\ workers[w].pc = "asking"
    /\ workers' = [workers EXCEPT ![w].pc = "closing",
                                  ![w].draft = Append(@, Written(workers[w], "agent", "none"))]
    /\ UNCHANGED <<agent, msgs, lock, rows, jobs, sent, silent, faults>>

AnswerNothing(w) ==
    /\ workers[w].pc = "asking"
    /\ workers' = [workers EXCEPT ![w].pc = "closing"]
    /\ UNCHANGED <<agent, msgs, lock, rows, jobs, sent, silent, faults>>

\* (Faulty: the audit row is written when the guard lets the call through, and
\* again for the approval it asks for.)
RowsAfter_Twice(r, fate) ==
    [audits |-> r.audits + (IF fate \in {"ran", "sent", "gated"} THEN 1 ELSE 0),
     tasks  |-> r.tasks + (IF fate = "gated" THEN 1 ELSE 0)]

\* A tool that runs is audited; one that waits for approval opens a task.
RowsAfter(r, fate) ==
    [audits |-> r.audits + (IF fate \in {"ran", "sent"} THEN 1 ELSE 0),
     tasks  |-> r.tasks + (IF fate = "gated" THEN 1 ELSE 0)]

\* The next round, unless the rounds are used up: then nothing more is said.
NextRound(worker) == IF worker.round < MaxRounds THEN Asking(worker, worker.round + 1)
                      ELSE [worker EXCEPT !.pc = "closing"]

\* (Faulty: a send is left to the provider's receipt, and writes no message.)
Call_SendUnrecorded(w, fate) ==
    LET worker == workers[w]
        called == [worker EXCEPT !.calls = @ - 1, !.rows = RowsAfter(@, fate),
                     !.draft = IF fate = "sent" THEN @ ELSE Append(@, Written(worker, "tool", fate))]
    IN  /\ worker.pc = "calling"
        /\ sent' = IF fate = "sent" THEN sent \cup {[turn |-> TurnOf(worker), saw |-> worker.saw]}
                                    ELSE sent
        /\ workers' = [workers EXCEPT ![w] = IF called.calls > 0 THEN called
                                                                ELSE NextRound(called)]
        /\ UNCHANGED <<agent, msgs, lock, rows, jobs, silent, faults>>

\* One tool call: its effect, its rows, and its message.
Call(w, fate) ==
    LET worker == workers[w]
        called == [worker EXCEPT !.calls = @ - 1, !.rows = RowsAfter(@, fate),
                                 !.draft = Append(@, Written(worker, "tool", fate))]
    IN  /\ worker.pc = "calling"
        /\ sent' = IF fate = "sent" THEN sent \cup {[turn |-> TurnOf(worker), saw |-> worker.saw]}
                                    ELSE sent
        /\ workers' = [workers EXCEPT ![w] = IF called.calls > 0 THEN called
                                                                ELSE NextRound(called)]
        /\ UNCHANGED <<agent, msgs, lock, rows, jobs, silent, faults>>

Commit(w) ==
    LET worker == workers[w] IN
    /\ worker.pc = "closing"
    /\ msgs' = msgs \o worker.draft
    /\ rows' = [audits |-> rows.audits + worker.rows.audits,
                tasks  |-> rows.tasks + worker.rows.tasks]
    /\ silent' = IF worker.draft = <<>> THEN worker.saw ELSE silent
    /\ lock' = NoTx
    /\ workers' = [workers EXCEPT ![w] = [IdleWorker EXCEPT !.pc = "done", !.job = worker.job,
                                                            !.try = worker.try]]
    /\ UNCHANGED <<agent, jobs, sent, faults>>
-----------------------------------------------------------------------------
\* pg-boss settles a try that still counts.
Current(w) == LET j == workers[w].job IN
    workers[w].pc # "idle" /\ jobs[j].state = "active" /\ jobs[j].tries = workers[w].try

FailedTry(job) == [job EXCEPT !.state = IF job.tries <= RetryLimit THEN "retry" ELSE "failed"]

Finish(w) ==
    /\ workers[w].pc = "done"
    /\ jobs' = IF Current(w) THEN [jobs EXCEPT ![workers[w].job].state = "completed"] ELSE jobs
    /\ workers' = [workers EXCEPT ![w] = IdleWorker]
    /\ UNCHANGED <<agent, msgs, lock, rows, sent, silent, faults>>

Fault == faults < MaxFaults /\ faults' = faults + 1

\* (Faulty: what a dead transaction holds stays held.)
Freed_Kept(w) == lock

Freed(w) == IF lock = w THEN NoTx ELSE lock

\* The model's provider, a tool or a query throws: everything the turn wrote is
\* rolled back, and pg-boss fails the try.
Throw(w) ==
    /\ workers[w].pc \in {"fetched", "asking", "calling", "closing"} /\ Fault
    /\ lock' = Freed(w)
    /\ jobs' = IF Current(w) THEN [jobs EXCEPT ![workers[w].job] = FailedTry(@)] ELSE jobs
    /\ workers' = [workers EXCEPT ![w] = IdleWorker]
    /\ UNCHANGED <<agent, msgs, rows, sent, silent>>

\* The process dies, before the commit or after it.
Crash(w) ==
    /\ workers[w].pc # "idle" /\ Fault
    /\ lock' = Freed(w)
    /\ workers' = [workers EXCEPT ![w] = IdleWorker]
    /\ UNCHANGED <<agent, msgs, rows, jobs, sent, silent>>

Abandoned(j) == /\ jobs[j].state = "active"
                /\ ~\E w \in Workers : workers[w].job = j /\ Current(w)

Expire(j) ==
    /\ Abandoned(j)
    /\ jobs' = [jobs EXCEPT ![j] = FailedTry(@)]
    /\ UNCHANGED <<agent, msgs, lock, rows, workers, sent, silent, faults>>

\* A turn past its expiry, still running.
ExpireSlow(j) ==
    /\ jobs[j].state = "active" /\ ~Abandoned(j) /\ Fault
    /\ jobs' = [jobs EXCEPT ![j] = FailedTry(@)]
    /\ UNCHANGED <<agent, msgs, lock, rows, workers, sent, silent>>
-----------------------------------------------------------------------------
WorkerStep(w) ==
    \/ Open(w)
    \/ \E n \in 1..MaxCalls : AnswerTools(w, n)
    \/ AnswerText(w) \/ AnswerNothing(w)
    \/ \E fate \in Fates : Call(w, fate)
    \/ Commit(w) \/ Finish(w)

Next ==
    \/ \E role \in {"contact", "agent"} : FileLine(role)
    \/ \E j \in Jobs : Enqueue(j) \/ Expire(j) \/ ExpireSlow(j)
    \/ \E w \in Workers, j \in Jobs : Fetch(w, j)
    \/ \E w \in Workers : WorkerStep(w) \/ Throw(w) \/ Crash(w)

Spec == Init /\ [][Next]_vars

\* Processes run, the model answers or throws, pg-boss hands out its jobs and
\* expires them.  A worker may wait at the lock while others take it, but not
\* for ever: the bound on lines and tries ends the others.
Fairness ==
    /\ \A w \in Workers : WF_vars(WorkerStep(w))
    /\ \A j \in Jobs : WF_vars(Expire(j)) /\ WF_vars(\E w \in Workers : Fetch(w, j))

FairSpec == Spec /\ Fairness
-----------------------------------------------------------------------------
\* No line of the contact is passed over: whatever a turn writes after a line,
\* it had the line before it when it asked the model.  Otherwise the pending
\* check of agent-turn.ts:50-60 would take the line for answered.
NoLinePassedOver ==
    \A i \in DOMAIN msgs : msgs[i].turn # NoTx =>
        \A k \in 1..(i - 1) : msgs[k].role = "contact" => k <= msgs[i].saw

\* Two turns that write have a line of the contact between them, however the
\* job is delivered again or run twice at once (agent-turn.ts:3-6, 40-60).
TurnsAnswerLines ==
    \A i, k \in DOMAIN msgs :
        /\ i < k /\ msgs[i].turn # NoTx /\ msgs[k].turn # NoTx
        /\ msgs[i].turn # msgs[k].turn
        => \E n \in i..k : msgs[n].role = "contact"

\* A job that completed left none of the lines it was queued for without an
\* answer, but those to which the model said nothing: an execution that finds
\* another at work waits for what becomes of it (agent-turn.ts:40-60).
CompletedIsAnswered ==
    \A j \in Jobs : agent /\ jobs[j].state = "completed" =>
        jobs[j].upto <= silent \/ jobs[j].upto <= Last(Places(msgs, {"agent", "tool"}))

\* The turns that hold the conversation now.
OpenTurns == {TurnOf(workers[w]) : w \in {x \in Workers : lock = x}}

OnRecord(turn) == \E i \in DOMAIN msgs : msgs[i].turn = turn /\ msgs[i].fate = "sent"

\* A confirmation that went out is on record with the turn that sent it, or the
\* turn is still open, or it cost a fault: so one line is answered with a
\* confirmation by two turns only where something failed (loop.ts:166-200).
SendsAreOnRecord ==
    Cardinality({s.turn : s \in {x \in sent : ~OnRecord(x.turn) /\ x.turn \notin OpenTurns}})
        <= faults

\* The audit rows and tasks are those of the tool messages that stand in the
\* conversation: none is left by a turn that was rolled back, no call that waits
\* for approval is audited as run (loop.ts:166-200).
RowsMatch ==
    LET Of(fates) == Cardinality({i \in DOMAIN msgs : msgs[i].fate \in fates})
    IN  rows = [audits |-> Of({"ran", "sent"}), tasks |-> Of({"gated"})]

\* A queued turn ends, answered or out of retries, whatever the model asks for:
\* the rounds are bounded and a dead turn frees the conversation.
JobsSettle == \A j \in Jobs : jobs[j].state = "created" ~> jobs[j].state \in {"completed", "failed"}
=============================================================================
