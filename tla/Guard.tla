------------------------------- MODULE Guard --------------------------------
(***************************************************************************)
(* The guard before a send (packages/harness/src/policies.ts) at work: the *)
(* calls of one contact's runs, each logged as an attempt when its job is  *)
(* inserted and guarded when its handler runs, against the contact's       *)
(* consent, the company's calling hours and its attempt cap.               *)
(*                                                                         *)
(* The hooks run one after another inside the handler's transaction.  A    *)
(* query that fails aborts the transaction, and every later query of it    *)
(* fails too.  Time is counted in hours, a day has Day of them.            *)
(***************************************************************************)
EXTENDS Naturals, Sequences, FiniteSets

CONSTANTS
    Runs,          \* the contact's runs
    Day,           \* hours in a day
    Horizon,       \* bound on the clock
    Offset,        \* hours each known time zone is ahead
    DefaultZone,   \* DEFAULT_TZ
    Contacts,      \* what is stored of the contact: [known, dnc, zone]
    QuietPolicies, \* calling-hours settings: [set, valid, start, end, tz]
    CapPolicies,   \* attempt caps: [set, max, hours]
    MaxAttempts,   \* bound on the attempts of a run
    MaxFaults,     \* bound on queries that fail and handlers that are retried
    NoZone, NoRun

Zones == DOMAIN Offset

ContactRows == [known : BOOLEAN, dnc : BOOLEAN, zone : {c.zone : c \in Contacts}]

ASSUME GuardAssumption ==
    /\ IsFiniteSet(Runs) /\ NoRun \notin Runs
    /\ Day \in Nat \ {0} /\ Horizon \in Nat /\ MaxAttempts \in Nat /\ MaxFaults \in Nat
    /\ Offset \in [Zones -> 0..(Day - 1)]
    /\ DefaultZone \in Zones
    /\ Contacts \subseteq ContactRows
    /\ \A q \in QuietPolicies : /\ q.set \in BOOLEAN /\ q.valid \in BOOLEAN
                                /\ q.start \in 0..(Day - 1) /\ q.end \in 0..(Day - 1)
    /\ \A c \in CapPolicies : c.set \in BOOLEAN /\ c.max \in Nat /\ c.hours \in Nat

VARIABLES
    now,
    contact,   \* contacts: does the row exist, consent.dnc, timezone
    quiet,     \* guardrail_policies 'quiet_hours'
    cap,       \* guardrail_policies 'attempt_caps', the entry of the channel
    newest,    \* the contact's newest run
    log,       \* workflow_runs.attempts: when each run's jobs were inserted
    phase,     \* how far each run is with its call
    aborted,   \* the hook whose query aborted the handler's transaction
    refused,   \* why the guard refused the run's call
    calls,     \* the calls made
    said,      \* how many calls had been made when the contact said no
    faults

settings == <<quiet, cap>>
vars == <<now, contact, settings, newest, log, phase, aborted, refused, calls, said, faults>>

Hooks == {"dnc", "quiet_hours", "attempt_cap"}

\* "ready": a tick may take it to its next call; a hook's name: the guard is
\* about to run it; "cleared": the guard has passed; "placed": dialled, not
\* committed; "refused": parked on a call nobody will make.
Phases == {"absent", "ready", "queued", "cleared", "placed", "refused"} \cup Hooks

TypeOK ==
    /\ now \in 0..Horizon
    /\ contact \in ContactRows
    /\ quiet \in QuietPolicies /\ cap \in CapPolicies
    /\ newest \in Runs \cup {NoRun}
    /\ log \in [Runs -> Seq(Nat)]
    /\ phase \in [Runs -> Phases]
    /\ aborted \in [Runs -> Hooks \cup {"none"}]
    /\ refused \in [Runs -> Hooks \cup {"none"}]
    /\ calls \in Seq([run : Runs, at : Nat])
    /\ said \in Nat
    /\ faults \in Nat
    /\ \A r \in Runs : phase[r] = "refused" <=> refused[r] # "none"

Init ==
    /\ now = 0
    /\ contact \in Contacts /\ ~contact.dnc
    /\ quiet \in QuietPolicies /\ cap \in CapPolicies
    /\ newest = NoRun
    /\ log = [r \in Runs |-> <<>>]
    /\ phase = [r \in Runs |-> "absent"]
    /\ aborted = [r \in Runs |-> "none"]
    /\ refused = [r \in Runs |-> "none"]
    /\ calls = <<>>
    /\ said = 0
    /\ faults = 0

-----------------------------------------------------------------------------
\* isWithinQuietHours on the local hour: start inclusive, end exclusive, and
\* the window may wrap past midnight.
\* (Faulty: no window wraps.)
Within_NoWrap(cur, start, end) == cur >= start /\ cur < end

Within(cur, start, end) ==
    IF start <= end THEN cur >= start /\ cur < end
                    ELSE cur >= start \/ cur < end

\* The zone the policy's hours are read in: the contact's, or the default when
\* it has none; or the one the policy names.
ZoneOf == IF quiet.tz = "contact"
          THEN IF contact.zone = NoZone THEN DefaultZone ELSE contact.zone
          ELSE quiet.tz

\* The hook can tell the hour: there is a well-formed policy, a contact where
\* it needs one, and a zone that exists.  Otherwise it lets the send through.
HourKnown ==
    /\ quiet.set /\ quiet.valid
    /\ quiet.tz = "contact" => contact.known
    /\ ZoneOf \in Zones

LocalHour == (now + Offset[ZoneOf]) % Day

IsQuiet == HourKnown /\ Within(LocalHour, quiet.start, quiet.end)

\* (Faulty: the consent flag is not looked at.)
DncBlocks_KnownOnly == ~contact.known

\* No row, no knowable consent.
DncBlocks == ~contact.known \/ contact.dnc

\* The stamps of the contact's newest run inside the window.
Stamps == IF newest = NoRun THEN <<>> ELSE log[newest]
Counted == Cardinality({i \in DOMAIN Stamps : Stamps[i] + cap.hours >= now})

\* (Faulty: one more than the cap.)
CapReached_OneMore == cap.set /\ Counted > cap.max

CapReached == cap.set /\ Counted >= cap.max
-----------------------------------------------------------------------------
\* startRun: the contact is enrolled, once more perhaps.
Enrol(r) ==
    /\ phase[r] = "absent"
    /\ phase' = [phase EXCEPT ![r] = "ready"]
    /\ newest' = r
    /\ UNCHANGED <<now, contact, settings, log, aborted, refused, calls, said, faults>>

\* A tick walks the run to its next call: job and attempt in one commit.
Enqueue(r) ==
    /\ phase[r] = "ready"
    /\ Len(log[r]) < MaxAttempts
    /\ phase' = [phase EXCEPT ![r] = "queued"]
    /\ log' = [log EXCEPT ![r] = Append(@, now)]
    /\ UNCHANGED <<now, contact, settings, newest, aborted, refused, calls, said, faults>>

\* The handler has its job and passed its no-op tests; autonomyHook lets an
\* "auto" action pass.
Handle(r) ==
    /\ phase[r] = "queued"
    /\ phase' = [phase EXCEPT ![r] = "dnc"]
    /\ aborted' = [aborted EXCEPT ![r] = "none"]
    /\ UNCHANGED <<now, contact, settings, newest, log, refused, calls, said, faults>>

\* A query of the hook that runs now: it works in a transaction that is not
\* aborted, unless the database has trouble.
Query(r, works) ==
    IF works THEN aborted[r] = "none" /\ UNCHANGED <<aborted, faults>>
    ELSE \/ aborted[r] # "none" /\ UNCHANGED <<aborted, faults>>
         \/ /\ aborted[r] = "none" /\ faults < MaxFaults
            /\ faults' = faults + 1
            /\ aborted' = [aborted EXCEPT ![r] = phase[r]]

\* (Faulty: the reason of a refusal is not kept.)
Verdict_Unnamed(r, blocks, next) ==
    /\ phase' = [phase EXCEPT ![r] = IF blocks THEN "refused" ELSE next]
    /\ UNCHANGED refused

\* The first refusal ends the guard and the handler; else the next hook.
Verdict(r, blocks, next) ==
    /\ phase' = [phase EXCEPT ![r] = IF blocks THEN "refused" ELSE next]
    /\ refused' = IF blocks THEN [refused EXCEPT ![r] = phase[r]] ELSE refused

\* A query that fails is a refusal...
DncHook(r) ==
    /\ phase[r] = "dnc"
    /\ \E works \in BOOLEAN : /\ Query(r, works)
                              /\ Verdict(r, ~works \/ DncBlocks, "quiet_hours")
    /\ UNCHANGED <<now, contact, settings, newest, log, calls, said>>

\* ...except in the courtesy gate.
QuietHook(r) ==
    /\ phase[r] = "quiet_hours"
    /\ \E works \in BOOLEAN : /\ Query(r, works)
                              /\ Verdict(r, works /\ IsQuiet, "attempt_cap")
    /\ UNCHANGED <<now, contact, settings, newest, log, calls, said>>

CapHook(r) ==
    /\ phase[r] = "attempt_cap"
    /\ \E works \in BOOLEAN : /\ Query(r, works)
                              /\ Verdict(r, ~works \/ CapReached, "cleared")
    /\ UNCHANGED <<now, contact, settings, newest, log, calls, said>>

\* The doorway sends only after the guard.
Place(r) ==
    /\ phase[r] = "cleared"
    /\ phase' = [phase EXCEPT ![r] = "placed"]
    /\ calls' = Append(calls, [run |-> r, at |-> now])
    /\ UNCHANGED <<now, contact, settings, newest, log, aborted, refused, said, faults>>

\* The outcome is folded; the next tick takes the run on.
Fold(r) ==
    /\ phase[r] = "placed"
    /\ phase' = [phase EXCEPT ![r] = "ready"]
    /\ UNCHANGED <<now, contact, settings, newest, log, aborted, refused, calls, said, faults>>

\* The handler dies or throws, and pg-boss hands its job out again.
Redo(r) ==
    /\ phase[r] \in Hooks \cup {"cleared", "placed"} /\ faults < MaxFaults
    /\ faults' = faults + 1
    /\ phase' = [phase EXCEPT ![r] = "queued"]
    /\ UNCHANGED <<now, contact, settings, newest, log, aborted, refused, calls, said>>

\* Somebody records that the contact does not want to be called.
SayNo ==
    /\ contact.known /\ ~contact.dnc
    /\ contact' = [contact EXCEPT !.dnc = TRUE]
    /\ said' = Len(calls)
    /\ UNCHANGED <<now, settings, newest, log, phase, aborted, refused, calls, faults>>

Elapse ==
    /\ now < Horizon
    /\ now' = now + 1
    /\ UNCHANGED <<contact, settings, newest, log, phase, aborted, refused, calls, said, faults>>

Next ==
    \/ \E r \in Runs : \/ Enrol(r) \/ Enqueue(r) \/ Handle(r)
                       \/ DncHook(r) \/ QuietHook(r) \/ CapHook(r)
                       \/ Place(r) \/ Fold(r) \/ Redo(r)
    \/ SayNo \/ Elapse

Spec == Init /\ [][Next]_vars

-----------------------------------------------------------------------------
\* The quiet hours by counting them off: from the start on, one after another
\* round the clock, until the end.
HoursFrom(start, end) == IF start <= end THEN end - start ELSE (Day - start) + end

HourAfter(start, k) == IF start + k < Day THEN start + k ELSE (start + k) - Day

QuietHours(start, end) == {HourAfter(start, k) : k \in 0..(HoursFrom(start, end) - 1)}

\* No call passes the calling-hours hook in a quiet hour, wherever the window
\* lies round midnight, when the hook's queries worked and the hour was known
\* (quiet-hours.ts:19-38, policies.ts:30-90).
QuietKept ==
    [][\A r \in Runs :
         phase[r] = "quiet_hours" /\ phase'[r] = "attempt_cap" /\ aborted'[r] = "none"
           /\ HourKnown => LocalHour \notin QuietHours(quiet.start, quiet.end)]_vars

CallsWithin(r, t) ==
    Cardinality({i \in DOMAIN calls : /\ calls[i].run = r
                                      /\ calls[i].at + cap.hours >= t /\ calls[i].at <= t})

\* The cap counts attempts when they are queued and the calls are made later;
\* still the newest run never makes more than the cap's calls in a window,
\* whenever it ends, save one for each failure (policies.ts:129-169).
CapHolds ==
    newest # NoRun /\ cap.set =>
      \A i \in DOMAIN calls :
        calls[i].run = newest => CallsWithin(newest, calls[i].at) <= cap.max + faults

\* Once the contact has said no, a run makes the call its guard had passed and
\* none after it, whatever fails and is tried again (policies.ts:102-118).
OneCallAfterNo ==
    contact.dnc => \A i, j \in DOMAIN calls :
      i > said /\ j > said /\ calls[i].run = calls[j].run => i = j

=============================================================================
