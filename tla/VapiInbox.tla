------------------------------ MODULE VapiInbox ------------------------------
(***************************************************************************)
(* The Vapi webhook of one company: the receiver (vapi/receive.ts), the    *)
(* nudges it queues (jobs.ts) and the drains that file what it stored      *)
(* (vapi/process.ts), beside the place_call transactions that insert the   *)
(* conversations of the calls this system places.                          *)
(*                                                                         *)
(* A drain is one transaction.  It reads the received events without       *)
(* SKIP LOCKED, waits for the rows another drain holds and re-checks them, *)
(* files each event under a savepoint, and commits.  What it writes is its *)
(* own until then: `draft`, `own` and `buried` below.                      *)
(***************************************************************************)
EXTENDS Naturals, Sequences, FiniteSets

CONSTANTS
    Events,       \* the provider's events
    Event,        \* what each carries: [key, call, kind, ts, good]
    Calls,        \* provider call ids
    Outbound,     \* those this system dials, all for one lead
    Drains,       \* processes that may run the drain job at once
    Nudges,       \* slots for webhook.process.vapi jobs
    RetryLimit,   \* of the drain queue (3)
    MaxFaults,    \* bound on crashes, database errors and expiries
    MaxLost,      \* bound on nudges lost between the insert and the queue
    NoTx, NoConv, NoSummary, NoNudge

VARIABLES
    status,    \* webhook_events.status, "absent" before the insert
    arrived,   \* webhook_events.id: the order of the inserts
    owed,      \* receivers that have stored their event and not nudged yet
    nudges,    \* pgboss.job rows of webhook.process.vapi
    drains,    \* the transactions of the drains
    convs,     \* committed conversations
    convLock,  \* which transaction holds a conversation's row or key
    live,      \* the lead's summaries not superseded, by their event
    placing,   \* how far place_call is with a call
    faults, lost

vars == <<status, arrived, owed, nudges, drains, convs, convLock, live, placing,
          faults, lost>>

Kinds == {"line", "report", "status", "other"}

ASSUME InboxAssumption ==
    /\ IsFiniteSet(Events) /\ IsFiniteSet(Nudges)
    /\ \A e \in Events : /\ Event[e].call \in Calls
                         /\ Event[e].kind \in Kinds
                         /\ Event[e].ts \in Nat
                         /\ Event[e].good \in BOOLEAN
    /\ Outbound \subseteq Calls
    /\ NoTx \notin Drains \cup Outbound
    /\ Drains \cap Outbound = {}
    /\ NoNudge \notin Nudges
    /\ NoSummary \notin Events
    /\ RetryLimit \in Nat /\ MaxFaults \in Nat /\ MaxLost \in Nat

Conversation == [lead    : BOOLEAN,
                 status  : {"active", "completed"},
                 lines   : Seq(Events),
                 summary : Events \cup {NoSummary}]

ASSUME NoConvAssumption == NoConv \notin Conversation

Opened(lead) == [lead |-> lead, status |-> "active", lines |-> <<>>,
                 summary |-> NoSummary]

\* pc: "queued" before the read, "read" between the read and the locks,
\* "filing" under the locks, "done" after the commit.  todo are the events
\* still to file, marks what the filed ones will be set to.
Filed == {"processed", "skipped", "failed"}

Drain == [pc     : {"idle", "queued", "read", "filing", "done"},
          nudge  : Nudges \cup {NoNudge},
          try    : Nat,
          todo   : SUBSET Events,
          marks  : [Events -> Filed \cup {"none"}],
          draft  : [Calls -> Conversation \cup {NoConv}],
          own    : SUBSET Events,
          buried : SUBSET Events]

IdleDrain == [pc |-> "idle", nudge |-> NoNudge, try |-> 0, todo |-> {},
              marks |-> [e \in Events |-> "none"], draft |-> [c \in Calls |-> NoConv],
              own |-> {}, buried |-> {}]

NudgeRow == [state : {"free", "created", "active", "retry", "completed", "failed"},
             tries : Nat]

TypeOK ==
    /\ status \in [Events -> Filed \cup {"absent", "received"}]
    /\ arrived \in [Events -> Nat]
    /\ owed \in Nat
    /\ nudges \in [Nudges -> NudgeRow]
    /\ drains \in [Drains -> Drain]
    /\ convs \in [Calls -> Conversation \cup {NoConv}]
    /\ convLock \in [Calls -> Drains \cup Outbound \cup {NoTx}]
    /\ live \in SUBSET Events
    /\ placing \in [Outbound -> {"queued", "dialled", "inserted", "placed", "refused",
                                 "lost"}]
    /\ faults \in Nat /\ lost \in Nat

Init ==
    /\ status = [e \in Events |-> "absent"]
    /\ arrived = [e \in Events |-> 0]
    /\ owed = 0
    /\ nudges = [n \in Nudges |-> [state |-> "free", tries |-> 0]]
    /\ drains = [p \in Drains |-> IdleDrain]
    /\ convs = [c \in Calls |-> NoConv]
    /\ convLock = [c \in Calls |-> NoTx]
    /\ live = {}
    /\ placing = [c \in Outbound |-> "queued"]
    /\ faults = 0 /\ lost = 0

-----------------------------------------------------------------------------
\* The receiver.

Stored == {e \in Events : status[e] # "absent"}

\* The provider speaks of a call it has been asked to place, or has received.
Heard(e) == Event[e].call \in Outbound => placing[Event[e].call] # "queued"

\* Bound: as many deliveries as there are slots for their nudges.
FreeNudges == {n \in Nudges : nudges[n].state = "free"}
HasRoom == owed < Cardinality(FreeNudges)

\* Insert the event, on conflict do nothing: an event delivered again, and one
\* whose key another event took.
Receive(e) ==
    /\ Heard(e) /\ HasRoom
    /\ IF \E f \in Stored : Event[f].key = Event[e].key
       THEN UNCHANGED <<status, arrived>>
       ELSE /\ status' = [status EXCEPT ![e] = "received"]
            /\ arrived' = [arrived EXCEPT ![e] = Cardinality(Stored) + 1]
    /\ owed' = owed + 1
    /\ UNCHANGED <<nudges, drains, convs, convLock, live, placing, faults, lost>>

\* (Faulty: a nudge is taken for superfluous while a drain is running.)
Nudge_UnlessActive(n) ==
    /\ owed > 0 /\ nudges[n].state = "free"
    /\ owed' = owed - 1
    /\ nudges' = IF \E m \in Nudges : nudges[m].state \in {"created", "active"}
                 THEN nudges ELSE [nudges EXCEPT ![n].state = "created"]
    /\ UNCHANGED <<status, arrived, drains, convs, convLock, live, placing, faults, lost>>

\* enqueueVapiProcess, after the insert has committed.
Nudge(n) ==
    /\ owed > 0 /\ nudges[n].state = "free"
    /\ owed' = owed - 1
    /\ nudges' = [nudges EXCEPT ![n].state = "created"]
    /\ UNCHANGED <<status, arrived, drains, convs, convLock, live, placing, faults, lost>>

\* The send fails, which is logged and nothing more, or the process dies.
LoseNudge ==
    /\ owed > 0 /\ lost < MaxLost
    /\ owed' = owed - 1 /\ lost' = lost + 1
    /\ UNCHANGED <<status, arrived, nudges, drains, convs, convLock, live, placing, faults>>
-----------------------------------------------------------------------------
\* place_call of a call this system makes: dial, insert the conversation under
\* the provider's call id, run the turn, commit.

Dial(c) ==
    /\ placing[c] = "queued"
    /\ placing' = [placing EXCEPT ![c] = "dialled"]
    /\ UNCHANGED <<status, arrived, owed, nudges, drains, convs, convLock, live, faults, lost>>

\* A plain insert: it waits for a transaction that is inserting the same call
\* id, and fails on one that has.
InsertCall(c) ==
    /\ placing[c] = "dialled" /\ convLock[c] = NoTx
    /\ IF convs[c] = NoConv
       THEN /\ placing' = [placing EXCEPT ![c] = "inserted"]
            /\ convLock' = [convLock EXCEPT ![c] = c]
       ELSE /\ placing' = [placing EXCEPT ![c] = "refused"]
            /\ UNCHANGED convLock
    /\ UNCHANGED <<status, arrived, owed, nudges, drains, convs, live, faults, lost>>

CommitCall(c) ==
    /\ placing[c] = "inserted"
    /\ placing' = [placing EXCEPT ![c] = "placed"]
    /\ convs' = [convs EXCEPT ![c] = Opened(TRUE)]
    /\ convLock' = [convLock EXCEPT ![c] = NoTx]
    /\ UNCHANGED <<status, arrived, owed, nudges, drains, live, faults, lost>>

\* The turn throws, or the process dies.
LoseCall(c) ==
    /\ placing[c] \in {"dialled", "inserted"} /\ faults < MaxFaults
    /\ faults' = faults + 1
    /\ placing' = [placing EXCEPT ![c] = "lost"]
    /\ convLock' = [convLock EXCEPT ![c] = IF @ = c THEN NoTx ELSE @]
    /\ UNCHANGED <<status, arrived, owed, nudges, drains, convs, live, lost>>
-----------------------------------------------------------------------------
\* The drain.

Fetch(p, n) ==
    /\ drains[p].pc = "idle" /\ nudges[n].state \in {"created", "retry"}
    /\ nudges' = [nudges EXCEPT ![n] = [state |-> "active", tries |-> @.tries + 1]]
    /\ drains' = [drains EXCEPT ![p] = [@ EXCEPT !.pc = "queued", !.nudge = n,
                                                 !.try = nudges[n].tries + 1]]
    /\ UNCHANGED <<status, arrived, owed, convs, convLock, live, placing, faults, lost>>

\* The events a drain has locked.
Locked(p) == IF drains[p].pc = "filing"
             THEN drains[p].todo \cup {e \in Events : drains[p].marks[e] # "none"}
             ELSE {}

\* The snapshot of the select.
Read(p) ==
    /\ drains[p].pc = "queued"
    /\ drains' = [drains EXCEPT ![p].pc = "read",
                                ![p].todo = {e \in Events : status[e] = "received"}]
    /\ UNCHANGED <<status, arrived, owed, nudges, convs, convLock, live, placing, faults, lost>>

\* The events of a read another drain holds.
Held(p, events) == {e \in events : \E q \in Drains \ {p} : e \in Locked(q)}

StillReceived(events) == {e \in events : status[e] = "received"}

\* (Faulty: FOR UPDATE SKIP LOCKED, as the scheduler locks its runs.)
Claims_SkipLocked(p, events) == {StillReceived(events \ Held(p, events))}

\* (Faulty: no FOR UPDATE.)
Claims_Unlocked(p, events) == {events}

\* FOR UPDATE: nothing to claim while another drain holds one of the rows;
\* then the rows it has filed are dropped.  The drains lock in one order, so
\* they cannot wait for each other and the claim may be taken in one step.
Claims(p, events) ==
    IF Held(p, events) = {} THEN {StillReceived(events)} ELSE {}

Lock(p) ==
    /\ drains[p].pc = "read"
    /\ \E claim \in Claims(p, drains[p].todo) :
         drains' = [drains EXCEPT ![p].pc = "filing", ![p].todo = claim]
    /\ UNCHANGED <<status, arrived, owed, nudges, convs, convLock, live, placing, faults, lost>>

\* order by timestamp, nulls last, id.
Before(e, f) ==
    \/ Event[e].ts < Event[f].ts
    \/ Event[e].ts = Event[f].ts /\ arrived[e] <= arrived[f]

FirstOf(e, events) == e \in events /\ \A f \in events : Before(e, f)

\* The conversation a transaction sees, and may write: not while another
\* transaction holds it.
View(p, c)  == IF convLock[c] = p THEN drains[p].draft[c] ELSE convs[c]
MayTouch(p, c) == convLock[c] \in {NoTx, p}

\* (Faulty: the upsert re-opens the conversation.)
Ensured_Reopened(conv) == IF conv = NoConv THEN Opened(FALSE)
                          ELSE [conv EXCEPT !.status = "active"]

\* ensureConversation: insert on conflict touch; an existing row is kept.
Ensured(conv) == IF conv = NoConv THEN Opened(FALSE) ELSE conv

\* (Faulty: a status the column does not have.)
Amended_Ended(conv, e) ==
    IF Event[e].kind = "report" THEN [Ensured(conv) EXCEPT !.status = "ended"]
                                ELSE Ensured(conv)

\* fileTranscript, fileEndOfCall and the status update, on the conversation.
Amended(conv, e) ==
    CASE Event[e].kind = "line"   -> [Ensured(conv) EXCEPT !.lines = Append(@, e)]
      [] Event[e].kind = "report" -> [Ensured(conv) EXCEPT !.status = "completed",
                                                           !.summary = e]
      [] Event[e].kind = "status" -> Ensured(conv)

\* A report of the lead's call becomes the lead's memory and buries the live
\* ones the statement sees.
Remembers(p, e) == Event[e].kind = "report" /\ View(p, Event[e].call) # NoConv
                                            /\ View(p, Event[e].call).lead

\* A drain's event is filed, skipped or marked failed.
Marked(drain, e, mark) == [drain EXCEPT !.todo = @ \ {e}, !.marks[e] = mark]

\* What the transaction holds once it has filed e.
WithFiled(p, e) ==
    LET c == Event[e].call
        d == drains[p]
    IN  [Marked(d, e, "processed") EXCEPT
           !.draft[c] = Amended(View(p, c), e),
           !.own      = IF Remembers(p, e) THEN {e} ELSE d.own,
           !.buried   = IF Remembers(p, e) THEN d.buried \cup live ELSE d.buried]

FileEvent(p, e) ==
    LET c == Event[e].call IN
    /\ Event[e].good /\ Event[e].kind # "other" /\ MayTouch(p, c)
    /\ convLock' = [convLock EXCEPT ![c] = p]
    /\ drains' = [drains EXCEPT ![p] = WithFiled(p, e)]
    /\ UNCHANGED <<nudges, faults>>

\* Not understood: stored and skipped.
SkipEvent(p, e) ==
    /\ Event[e].kind = "other"
    /\ drains' = [drains EXCEPT ![p] = Marked(@, e, "skipped")]
    /\ UNCHANGED <<nudges, convLock, faults>>
-----------------------------------------------------------------------------
\* (Faulty: no error is laid to the event.)
EventsFault_Never(err) == FALSE

\* Only the database's own trouble is not the event's.
EventsFault(err) == err = "event"

\* The drain's transaction rolls back; pg-boss retries the job while it may.
Current(p) == LET n == drains[p].nudge IN
    drains[p].pc # "idle" /\ nudges[n].state = "active" /\ nudges[n].tries = drains[p].try

FailNudge(n) ==
    nudges' = [nudges EXCEPT ![n].state =
                 IF nudges[n].tries <= RetryLimit THEN "retry" ELSE "failed"]

FreedBy(p) == [c \in Calls |-> IF convLock[c] = p THEN NoTx ELSE convLock[c]]

AbortDrain(p) ==
    /\ drains' = [drains EXCEPT ![p] = IdleDrain]
    /\ convLock' = FreedBy(p)
    /\ IF Current(p) THEN FailNudge(drains[p].nudge) ELSE UNCHANGED nudges

\* (Faulty: the savepoint is released and not rolled back to.)
Catch_Released(p, e, err) ==
    IF EventsFault(err)
    THEN LET c == Event[e].call IN
         /\ drains' = [drains EXCEPT ![p] = [Marked(@, e, "failed") EXCEPT
                                                !.draft[c] = Ensured(View(p, c))]]
         /\ convLock' = [convLock EXCEPT ![c] = p]
         /\ UNCHANGED nudges
    ELSE AbortDrain(p)

\* Back to the savepoint, where only the mark remains of the event; or the
\* whole job fails.
Catch(p, e, err) ==
    IF EventsFault(err)
    THEN /\ drains' = [drains EXCEPT ![p] = Marked(@, e, "failed")]
         /\ UNCHANGED <<nudges, convLock>>
    ELSE AbortDrain(p)

\* An event that fails on its own: its timestamp names no time, its call id is
\* too long, its report breaks a key.
FileBadEvent(p, e) ==
    /\ ~Event[e].good /\ Event[e].kind # "other" /\ MayTouch(p, Event[e].call)
    /\ Catch(p, e, "event")
    /\ UNCHANGED faults

\* A lost connection, a deadlock, a cancelled statement.
Trouble(p, e) ==
    /\ Event[e].kind # "other" /\ faults < MaxFaults
    /\ faults' = faults + 1
    /\ Catch(p, e, "database")

File(p, e) ==
    /\ drains[p].pc = "filing" /\ FirstOf(e, drains[p].todo)
    /\ FileEvent(p, e) \/ SkipEvent(p, e) \/ FileBadEvent(p, e) \/ Trouble(p, e)
    /\ UNCHANGED <<status, arrived, owed, convs, live, placing, lost>>

Commit(p) ==
    LET d == drains[p] IN
    /\ d.pc = "filing" /\ d.todo = {}
    /\ status' = [e \in Events |-> IF d.marks[e] # "none" THEN d.marks[e] ELSE status[e]]
    /\ convs' = [c \in Calls |-> IF convLock[c] = p THEN d.draft[c] ELSE convs[c]]
    /\ convLock' = FreedBy(p)
    /\ live' = (live \ d.buried) \cup d.own
    /\ drains' = [drains EXCEPT ![p] = [IdleDrain EXCEPT !.pc = "done", !.nudge = d.nudge,
                                                         !.try = d.try]]
    /\ UNCHANGED <<arrived, owed, nudges, placing, faults, lost>>

\* The job returned: pg-boss completes it if this try still counts.
Finish(p) ==
    /\ drains[p].pc = "done"
    /\ nudges' = IF Current(p) THEN [nudges EXCEPT ![drains[p].nudge].state = "completed"]
                              ELSE nudges
    /\ drains' = [drains EXCEPT ![p] = IdleDrain]
    /\ UNCHANGED <<status, arrived, owed, convs, convLock, live, placing, faults, lost>>

\* The process dies; its job stays active until it expires.
DrainDies(p) ==
    /\ drains[p].pc # "idle" /\ faults < MaxFaults
    /\ faults' = faults + 1
    /\ drains' = [drains EXCEPT ![p] = IdleDrain]
    /\ convLock' = FreedBy(p)
    /\ UNCHANGED <<status, arrived, owed, nudges, convs, live, placing, lost>>

Abandoned(n) == /\ nudges[n].state = "active"
                /\ ~\E p \in Drains : drains[p].nudge = n /\ Current(p)

Expire(n) ==
    /\ Abandoned(n)
    /\ FailNudge(n)
    /\ UNCHANGED <<status, arrived, owed, drains, convs, convLock, live, placing, faults, lost>>

\* A drain past its fifteen minutes, still running.
ExpireSlow(n) ==
    /\ nudges[n].state = "active" /\ ~Abandoned(n) /\ faults < MaxFaults
    /\ faults' = faults + 1
    /\ FailNudge(n)
    /\ UNCHANGED <<status, arrived, owed, drains, convs, convLock, live, placing, lost>>
-----------------------------------------------------------------------------
DrainStep(p) == Read(p) \/ Lock(p) \/ (\E e \in Events : File(p, e)) \/ Commit(p) \/ Finish(p)

Next ==
    \/ \E e \in Events : Receive(e)
    \/ \E n \in Nudges : Nudge(n) \/ Expire(n) \/ ExpireSlow(n)
    \/ LoseNudge
    \/ \E c \in Outbound : Dial(c) \/ InsertCall(c) \/ CommitCall(c) \/ LoseCall(c)
    \/ \E p \in Drains, n \in Nudges : Fetch(p, n)
    \/ \E p \in Drains : DrainStep(p) \/ DrainDies(p)

Spec == Init /\ [][Next]_vars

\* Every process gets to run; pg-boss hands out and expires jobs.
Fairness ==
    /\ WF_vars(\E n \in Nudges : Nudge(n))
    /\ \A n \in Nudges : WF_vars(Expire(n))
    /\ WF_vars(\E p \in Drains, n \in Nudges : Fetch(p, n))
    /\ \A p \in Drains : WF_vars(DrainStep(p))
    /\ \A c \in Outbound : WF_vars(InsertCall(c) \/ CommitCall(c))

FairSpec == Spec /\ Fairness
-----------------------------------------------------------------------------
LinesOf(c) == IF convs[c] = NoConv THEN <<>> ELSE convs[c].lines

Times(e, s) == Cardinality({i \in DOMAIN s : s[i] = e})

\* A transcript line stands in its call's conversation once if its event is
\* marked processed and not at all otherwise: not twice after a retry or under
\* two drains, and not lost to "on conflict do nothing" (process.ts:51-55).
LinesMatchStatus ==
    \A e \in Events : Event[e].kind = "line" =>
        Times(e, LinesOf(Event[e].call)) = IF status[e] = "processed" THEN 1 ELSE 0

\* An event marked failed leaves nothing behind: a conversation is there only
\* because place_call made it or an event of its call was processed
\* (the savepoint of process.ts:145-160).
FailedLeavesNothing ==
    \A c \in Calls : convs[c] # NoConv =>
        \/ c \in Outbound /\ placing[c] = "placed"
        \/ \E e \in Events : Event[e].call = c /\ status[e] = "processed"

\* However the drains of two calls' reports overlap, the lead has one live
\* summary at most (process.ts:73-89).
OneLiveSummary == Cardinality(live) <= 1

\* A received event has a drain to come: a receiver that has yet to nudge, a
\* job that will run, or one that has read the event.  Only a lost nudge or a
\* job out of retries leaves it without (receive.ts:57-59, jobs.ts:198-206).
ReceivedHasDrain ==
    \A e \in Events : status[e] = "received" =>
        \/ owed > 0 \/ lost > 0
        \/ \E n \in Nudges : \/ nudges[n].state \in {"created", "retry", "failed"}
                             \/ Abandoned(n)
        \/ \E p \in Drains : /\ Current(p)
                             /\ \/ drains[p].pc = "queued"
                                \/ e \in drains[p].todo \/ drains[p].marks[e] # "none"

\* A committed conversation keeps what it has: its lead, its lines in their
\* places, and its end (the upsert of process.ts:23-31 touches nothing).
ConversationKept ==
    [][\A c \in Calls : convs[c] # NoConv =>
         /\ convs'[c] # NoConv
         /\ convs'[c].lead = convs[c].lead
         /\ convs[c].status = "completed" => convs'[c].status = "completed"
         /\ \A i \in DOMAIN convs[c].lines :
              i \in DOMAIN convs'[c].lines /\ convs'[c].lines[i] = convs[c].lines[i]]_vars

\* Every stored event is filed, skipped or marked failed in the end, whatever
\* its neighbours hold (process.ts:118-123, 129).
EveryEventSettles ==
    \A e \in Events : status[e] = "received" ~> status[e] \in Filed

\* "Provider events reconcile by conversations.provider_ref upsert"
\* (docs/tech-stack.md:217): that the provider spoke first does not make the
\* record of a placed call fail.
CallIsRecorded == \A c \in Outbound : placing[c] # "refused"
=============================================================================
