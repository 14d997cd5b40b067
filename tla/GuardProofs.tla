---------------------------- MODULE GuardProofs -----------------------------
(***************************************************************************)
(* Proofs about Guard, for every day length, window, zone, cap and number  *)
(* of runs: its types, the calling-hours arithmetic, that nobody is called *)
(* again who has said no, and that the attempt cap holds for calls though  *)
(* it counts stamps.                                                       *)
(***************************************************************************)
EXTENDS Guard, SequenceTheorems, FiniteSetTheorems, TLAPS

-----------------------------------------------------------------------------
(* The calling-hours window.                                               *)

\* The comparison quiet-hours.ts makes is true of exactly the hours counted
\* off from the window's start to its end.
THEOREM WithinIsQuietHours ==
  ASSUME NEW start \in 0..(Day - 1), NEW end \in 0..(Day - 1), NEW cur \in 0..(Day - 1)
  PROVE  Within(cur, start, end) <=> cur \in QuietHours(start, end)
<1>1. Day \in Nat \ {0}
  BY GuardAssumption
<1>2. ASSUME Within(cur, start, end) PROVE cur \in QuietHours(start, end)
  <2> DEFINE k == IF start <= cur THEN cur - start ELSE (Day - start) + cur
  <2>1. k \in 0..(HoursFrom(start, end) - 1)
    BY <1>1, <1>2 DEF Within, HoursFrom
  <2>2. cur = HourAfter(start, k)
    BY <1>1 DEF HourAfter
  <2> QED BY <2>1, <2>2 DEF QuietHours
<1>3. ASSUME cur \in QuietHours(start, end) PROVE Within(cur, start, end)
  <2>1. PICK k \in 0..(HoursFrom(start, end) - 1) : cur = HourAfter(start, k)
    BY <1>3 DEF QuietHours
  <2> QED BY <1>1, <2>1 DEF HourAfter, HoursFrom, Within
<1> QED BY <1>2, <1>3

-----------------------------------------------------------------------------
(* Types.                                                                  *)

LEMMA InitTypes == Init => TypeOK
BY GuardAssumption DEF Init, TypeOK, Phases, Hooks

\* A hook's query aborts the transaction under the name of the hook.
LEMMA QueryType ==
  ASSUME TypeOK, NEW r \in Runs, phase[r] \in Hooks, NEW works \in BOOLEAN, Query(r, works)
  PROVE  aborted' \in [Runs -> Hooks \cup {"none"}] /\ faults' \in Nat
<1>1. CASE UNCHANGED <<aborted, faults>>
  BY <1>1 DEF TypeOK
<1>2. CASE faults' = faults + 1 /\ aborted' = [aborted EXCEPT ![r] = phase[r]]
  <2>1. aborted' \in [Runs -> Hooks \cup {"none"}]
    BY <1>2 DEF TypeOK
  <2> QED BY <1>2, <2>1 DEF TypeOK
<1> QED BY <1>1, <1>2 DEF Query

LEMMA VerdictType ==
  ASSUME TypeOK, NEW r \in Runs, phase[r] \in Hooks, NEW blocks \in BOOLEAN,
         NEW next \in Phases \ {"refused"}, Verdict(r, blocks, next)
  PROVE  /\ phase' \in [Runs -> Phases]
         /\ refused' \in [Runs -> Hooks \cup {"none"}]
         /\ \A q \in Runs : phase'[q] = "refused" <=> refused'[q] # "none"
<1>1. phase' = [phase EXCEPT ![r] = IF blocks THEN "refused" ELSE next]
  BY DEF Verdict
<1>2. refused[r] = "none"
  BY DEF TypeOK, Hooks
<1>3. phase' \in [Runs -> Phases]
  BY <1>1 DEF TypeOK, Phases
<1>4. CASE blocks
  BY <1>1, <1>3, <1>4 DEF Verdict, TypeOK, Hooks
<1>5. CASE ~blocks
  BY <1>1, <1>2, <1>3, <1>5 DEF Verdict, TypeOK
<1> QED BY <1>4, <1>5

\* A hook's step keeps the types.
LEMMA HookType ==
  ASSUME TypeOK, NEW r \in Runs, DncHook(r) \/ QuietHook(r) \/ CapHook(r)
  PROVE  TypeOK'
<1>1. PICK works \in BOOLEAN, blocks \in BOOLEAN, next \in Phases \ {"refused"} :
        /\ phase[r] \in Hooks
        /\ Query(r, works) /\ Verdict(r, blocks, next)
        /\ UNCHANGED <<now, contact, settings, newest, log, calls, said>>
  <2>1. CASE DncHook(r)
    <3>1. PICK works \in BOOLEAN : /\ Query(r, works)
                                   /\ Verdict(r, ~works \/ DncBlocks, "quiet_hours")
      BY <2>1 DEF DncHook
    <3>2. (~works \/ DncBlocks) \in BOOLEAN
      BY DEF DncBlocks
    <3> QED BY <2>1, <3>1, <3>2 DEF DncHook, Hooks, Phases
  <2>2. CASE QuietHook(r)
    <3>1. PICK works \in BOOLEAN : /\ Query(r, works)
                                   /\ Verdict(r, works /\ IsQuiet, "attempt_cap")
      BY <2>2 DEF QuietHook
    <3>2. (works /\ IsQuiet) \in BOOLEAN
      BY DEF IsQuiet
    <3> QED BY <2>2, <3>1, <3>2 DEF QuietHook, Hooks, Phases
  <2>3. CASE CapHook(r)
    <3>1. PICK works \in BOOLEAN : /\ Query(r, works)
                                   /\ Verdict(r, ~works \/ CapReached, "cleared")
      BY <2>3 DEF CapHook
    <3>2. (~works \/ CapReached) \in BOOLEAN
      BY DEF CapReached
    <3> QED BY <2>3, <3>1, <3>2 DEF CapHook, Hooks, Phases
  <2> QED BY <2>1, <2>2, <2>3
<1>2. aborted' \in [Runs -> Hooks \cup {"none"}] /\ faults' \in Nat
  BY <1>1, QueryType
<1>3. /\ phase' \in [Runs -> Phases]
      /\ refused' \in [Runs -> Hooks \cup {"none"}]
      /\ \A q \in Runs : phase'[q] = "refused" <=> refused'[q] # "none"
  BY <1>1, VerdictType
<1> QED BY <1>1, <1>2, <1>3 DEF TypeOK, settings

LEMMA NextTypes == ASSUME TypeOK, [Next]_vars PROVE TypeOK'
<1> USE DEF TypeOK, settings
<1>1. ASSUME NEW r \in Runs, Enrol(r) PROVE TypeOK'
  BY <1>1 DEF Enrol, Phases, Hooks
<1>2. ASSUME NEW r \in Runs, Enqueue(r) PROVE TypeOK'
  <2>1. now \in Nat
    BY GuardAssumption
  <2>2. log' \in [Runs -> Seq(Nat)]
    BY <1>2, <2>1 DEF Enqueue
  <2> QED BY <1>2, <2>2 DEF Enqueue, Phases, Hooks
<1>3. ASSUME NEW r \in Runs, Handle(r) PROVE TypeOK'
  BY <1>3 DEF Handle, Phases, Hooks
<1>4. ASSUME NEW r \in Runs, DncHook(r) \/ QuietHook(r) \/ CapHook(r) PROVE TypeOK'
  BY <1>4, HookType
<1>5. ASSUME NEW r \in Runs, Place(r) PROVE TypeOK'
  <2>1. [run |-> r, at |-> now] \in [run : Runs, at : Nat]
    BY GuardAssumption
  <2>2. calls' \in Seq([run : Runs, at : Nat])
    BY <1>5, <2>1 DEF Place
  <2> QED BY <1>5, <2>2 DEF Place, Phases, Hooks
<1>6. ASSUME NEW r \in Runs, Fold(r) PROVE TypeOK'
  BY <1>6 DEF Fold, Phases, Hooks
<1>7. ASSUME NEW r \in Runs, Redo(r) PROVE TypeOK'
  BY <1>7 DEF Redo, Phases, Hooks
<1>8. CASE SayNo
  <2>1. contact' \in ContactRows
    BY <1>8 DEF SayNo, ContactRows
  <2>2. said' \in Nat
    BY <1>8 DEF SayNo
  <2> QED BY <1>8, <2>1, <2>2 DEF SayNo
<1>9. CASE Elapse
  BY <1>9, GuardAssumption DEF Elapse
<1>10. CASE UNCHANGED vars
  BY <1>10 DEF vars
<1> QED BY <1>1, <1>2, <1>3, <1>4, <1>5, <1>6, <1>7, <1>8, <1>9, <1>10 DEF Next

\* Every variable keeps its type, a run that is refused has a reason and no
\* other has one.
THEOREM GuardTypes == Spec => []TypeOK
BY InitTypes, NextTypes, PTL DEF Spec

-----------------------------------------------------------------------------
(* Calling hours.                                                          *)

\* A hook whose query worked lets a call through only outside the window.
LEMMA QuietStep ==
  ASSUME TypeOK, [Next]_vars, NEW r \in Runs,
         phase[r] = "quiet_hours", phase'[r] = "attempt_cap", aborted'[r] = "none", HourKnown
  PROVE  LocalHour \notin QuietHours(quiet.start, quiet.end)
<1>1. QuietHook(r)
  <2>1. ASSUME NEW q \in Runs,
               Enrol(q) \/ Enqueue(q) \/ Handle(q) \/ Place(q) \/ Fold(q) \/ Redo(q)
        PROVE  FALSE
    BY <2>1 DEF TypeOK, Enrol, Enqueue, Handle, Place, Fold, Redo
  <2>2. ASSUME NEW q \in Runs, DncHook(q) \/ CapHook(q) PROVE FALSE
    BY <2>2 DEF TypeOK, DncHook, CapHook, Verdict
  <2>3. ASSUME NEW q \in Runs, QuietHook(q), q # r PROVE FALSE
    BY <2>3 DEF TypeOK, QuietHook, Verdict
  <2>4. ASSUME SayNo \/ Elapse \/ UNCHANGED vars PROVE FALSE
    BY <2>4 DEF SayNo, Elapse, vars
  <2> QED BY <2>1, <2>2, <2>3, <2>4 DEF Next
<1>2. PICK works \in BOOLEAN : Query(r, works) /\ Verdict(r, works /\ IsQuiet, "attempt_cap")
  BY <1>1 DEF QuietHook
<1>3. works
  BY <1>2 DEF Query, TypeOK
<1>4. ~IsQuiet
  BY <1>2, <1>3 DEF Verdict, TypeOK
<1>5. LocalHour \in 0..(Day - 1)
  <2>1. Offset[ZoneOf] \in Nat /\ now \in Nat /\ Day \in Nat \ {0}
    BY GuardAssumption DEF HourKnown, TypeOK
  <2> QED BY <2>1 DEF LocalHour
<1>6. quiet.start \in 0..(Day - 1) /\ quiet.end \in 0..(Day - 1)
  BY GuardAssumption DEF TypeOK
<1> QED BY <1>4, <1>5, <1>6, WithinIsQuietHours DEF IsQuiet

\* No call passes the calling-hours hook inside the window.
THEOREM QuietHoursKept == Spec => QuietKept
<1>1. TypeOK /\ [Next]_vars =>
        [\A r \in Runs :
           phase[r] = "quiet_hours" /\ phase'[r] = "attempt_cap" /\ aborted'[r] = "none"
             /\ HourKnown => LocalHour \notin QuietHours(quiet.start, quiet.end)]_vars
  BY QuietStep
<1> QED BY <1>1, GuardTypes, PTL DEF Spec, QuietKept

-----------------------------------------------------------------------------
(* Do not call.                                                            *)

PastNo == {"quiet_hours", "attempt_cap", "cleared"}

Cleared(r) == phase[r] \in PastNo

\* A run that has called since the contact said no is not past the consent
\* check any more.
AfterNo ==
    /\ said <= Len(calls)
    /\ contact.dnc => \A i \in DOMAIN calls : i > said => ~Cleared(calls[i].run)

NoInv == TypeOK /\ AfterNo /\ OneCallAfterNo

LEMMA CallRuns == TypeOK => \A i \in DOMAIN calls : calls[i].run \in Runs
<1> SUFFICES ASSUME TypeOK, NEW i \in DOMAIN calls PROVE calls[i].run \in Runs
  OBVIOUS
<1>1. calls \in Seq([run : Runs, at : Nat]) /\ i \in 1..Len(calls)
  BY DEF TypeOK
<1>2. calls[i] \in [run : Runs, at : Nat]
  BY <1>1, ElementOfSeq
<1> QED BY <1>2

LEMMA InitNo == Init => AfterNo /\ OneCallAfterNo
BY DEF Init, AfterNo, OneCallAfterNo

\* A step that makes no call, leaves the contact and lets nobody past the
\* consent check who was not, keeps the invariant.
LEMMA NoCallStep ==
  ASSUME NoInv, UNCHANGED <<contact, calls, said>>,
         contact.dnc => \A r \in Runs : Cleared(r)' => Cleared(r)
  PROVE  AfterNo' /\ OneCallAfterNo'
<1>1. \A i \in DOMAIN calls : calls[i].run \in Runs
  BY CallRuns DEF NoInv
<1> QED BY <1>1 DEF NoInv, AfterNo, OneCallAfterNo, Cleared, PastNo

LEMMA PlaceNo ==
  ASSUME NoInv, NEW r \in Runs, Place(r) PROVE AfterNo' /\ OneCallAfterNo'
<1> DEFINE n == Len(calls)
<1>1. /\ n \in Nat /\ DOMAIN calls = 1..n /\ said \in Nat
      /\ \A i \in DOMAIN calls : calls[i].run \in Runs
  BY CallRuns DEF NoInv, TypeOK
<1>2. /\ Len(calls') = n + 1 /\ DOMAIN calls' = 1..(n + 1)
      /\ calls'[n + 1].run = r
      /\ \A i \in 1..n : calls'[i] = calls[i]
  BY <1>1 DEF Place, NoInv, TypeOK
<1>3. UNCHANGED <<contact, said>> /\ Cleared(r) /\ ~Cleared(r)'
  BY DEF Place, Cleared, PastNo, NoInv, TypeOK
<1>4. \A q \in Runs : Cleared(q)' => Cleared(q)
  BY DEF Place, Cleared, PastNo, NoInv, TypeOK
<1>5. contact.dnc => \A i \in 1..n : i > said => calls[i].run # r
  BY <1>1, <1>3 DEF NoInv, AfterNo
<1>6. AfterNo'
  <2>1. said' <= Len(calls')
    BY <1>1, <1>2, <1>3 DEF NoInv, AfterNo
  <2>2. ASSUME contact'.dnc, NEW i \in DOMAIN calls', i > said' 
        PROVE  phase'[calls'[i].run] \notin PastNo
    <3>1. CASE i = n + 1
      BY <1>2, <1>3, <3>1 DEF Cleared, PastNo
    <3>2. CASE i \in 1..n
      <4>1. calls'[i].run = calls[i].run /\ calls[i].run \in Runs /\ ~Cleared(calls[i].run)
        BY <1>1, <1>2, <1>3, <2>2, <3>2 DEF NoInv, AfterNo
      <4> QED BY <1>4, <4>1 DEF Cleared
    <3> QED BY <1>1, <1>2, <2>2, <3>1, <3>2
  <2> QED BY <2>1, <2>2 DEF AfterNo, Cleared
<1>7. OneCallAfterNo'
  <2> SUFFICES ASSUME contact'.dnc, NEW i \in DOMAIN calls', NEW j \in DOMAIN calls',
                      i > said', j > said', calls'[i].run = calls'[j].run
               PROVE  i = j
    BY DEF OneCallAfterNo
  <2>1. CASE i \in 1..n /\ j \in 1..n
    BY <1>1, <1>2, <1>3, <2>1 DEF NoInv, OneCallAfterNo
  <2>2. CASE i = n + 1 \/ j = n + 1
    BY <1>1, <1>2, <1>3, <1>5, <2>2
  <2> QED BY <1>1, <1>2, <2>1, <2>2
<1> QED BY <1>6, <1>7

LEMMA NextNo == ASSUME NoInv, [Next]_vars PROVE AfterNo' /\ OneCallAfterNo'
<1> USE DEF NoInv, TypeOK
<1>1. ASSUME NEW r \in Runs, Enrol(r) \/ Enqueue(r) \/ Handle(r) \/ Fold(r) \/ Redo(r)
      PROVE  AfterNo' /\ OneCallAfterNo'
  <2>1. UNCHANGED <<contact, calls, said>>
    BY <1>1 DEF Enrol, Enqueue, Handle, Fold, Redo
  <2>2. \A q \in Runs : Cleared(q)' => Cleared(q)
    BY <1>1 DEF Enrol, Enqueue, Handle, Fold, Redo, Cleared, PastNo
  <2> QED BY <2>1, <2>2, NoCallStep
<1>2. ASSUME NEW r \in Runs, DncHook(r) PROVE AfterNo' /\ OneCallAfterNo'
  <2>1. contact.dnc => phase' = [phase EXCEPT ![r] = "refused"]
    BY <1>2 DEF DncHook, Verdict, DncBlocks
  <2>2. contact.dnc => \A q \in Runs : Cleared(q)' => Cleared(q)
    BY <2>1 DEF Cleared, PastNo
  <2> QED BY <1>2, <2>2, NoCallStep DEF DncHook
<1>3. ASSUME NEW r \in Runs, QuietHook(r) \/ CapHook(r) PROVE AfterNo' /\ OneCallAfterNo'
  <2>1. Cleared(r)
    BY <1>3 DEF QuietHook, CapHook, Cleared, PastNo
  <2>2. \A q \in Runs : q # r => phase'[q] = phase[q]
    BY <1>3 DEF QuietHook, CapHook, Verdict
  <2>3. \A q \in Runs : Cleared(q)' => Cleared(q)
    BY <2>1, <2>2 DEF Cleared, PastNo
  <2> QED BY <1>3, <2>3, NoCallStep DEF QuietHook, CapHook
<1>4. ASSUME NEW r \in Runs, Place(r) PROVE AfterNo' /\ OneCallAfterNo'
  BY <1>4, PlaceNo
<1>5. CASE SayNo
  BY <1>5 DEF SayNo, AfterNo, OneCallAfterNo
<1>6. CASE Elapse \/ UNCHANGED vars
  BY <1>6, NoCallStep DEF Elapse, vars, Cleared, PastNo
<1> QED BY <1>1, <1>2, <1>3, <1>4, <1>5, <1>6 DEF Next

\* After the contact has said no, each run makes at most the call that had
\* passed the consent check before.
THEOREM NoMeansNo == Spec => []OneCallAfterNo
<1>1. Init => NoInv
  BY InitTypes, InitNo DEF NoInv
<1>2. NoInv /\ [Next]_vars => NoInv'
  BY NextTypes, NextNo DEF NoInv
<1>3. NoInv => OneCallAfterNo
  BY DEF NoInv
<1> QED BY <1>1, <1>2, <1>3, PTL DEF Spec

-----------------------------------------------------------------------------
(* The attempt cap.                                                        *)

\* The calls and the stamps of a run that a window reaching to t still holds.
CallsFrom(r, t)  == {i \in DOMAIN calls : calls[i].run = r /\ calls[i].at + cap.hours >= t}
StampsFrom(r, t) == {i \in DOMAIN log[r] : log[r][i] + cap.hours >= t}

\* A run between two calls may have made one whose stamp has left the window.
Slack(r) == IF phase[r] \in {"ready", "placed"} THEN 1 ELSE 0

\* Each call has a stamp of its own or a failure to answer for it: the stamps
\* after the first call of a window lie inside it.
CallsStamped ==
    \A r \in Runs, t \in Nat :
      Cardinality(CallsFrom(r, t)) <= Cardinality(StampsFrom(r, t)) + faults + Slack(r)

\* A cleared run was below the cap when its hook looked, and no stamp of it is
\* added before the call.
ClearedBelowCap ==
    newest # NoRun /\ cap.set /\ phase[newest] = "cleared" =>
      Cardinality(StampsFrom(newest, now)) < cap.max

CallsMade ==
    \A i \in DOMAIN calls : calls[i].at <= now /\ phase[calls[i].run] # "absent"

CapInv == TypeOK /\ CallsMade /\ CallsStamped /\ ClearedBelowCap /\ CapHolds

\* A finite set grows by one at most.
LEMMA OneMore ==
  ASSUME NEW S, IsFiniteSet(S), NEW x
  PROVE  /\ IsFiniteSet(S \cup {x})
         /\ Cardinality(S \cup {x}) <= Cardinality(S) + 1
         /\ Cardinality(S \cup {x}) \in Nat
<1>1. Cardinality(S) \in Nat
  BY FS_CardinalityType
<1>2. IsFiniteSet(S \cup {x})
  BY FS_AddElement
<1>3. Cardinality(S \cup {x}) = IF x \in S THEN Cardinality(S) ELSE Cardinality(S) + 1
  BY FS_AddElement
<1>4. CASE x \in S
  BY <1>1, <1>2, <1>3, <1>4
<1>5. CASE x \notin S
  BY <1>1, <1>2, <1>3, <1>5
<1> QED BY <1>4, <1>5

\* What the types say of a run's calls and stamps.
LEMMA CapTypes ==
  ASSUME TypeOK
  PROVE  /\ now \in Nat /\ cap.max \in Nat /\ cap.hours \in Nat /\ faults \in Nat
         /\ calls \in Seq([run : Runs, at : Nat])
         /\ \A i \in DOMAIN calls : calls[i].run \in Runs /\ calls[i].at \in Nat
         /\ \A r \in Runs : log[r] \in Seq(Nat) /\ \A i \in DOMAIN log[r] : log[r][i] \in Nat
<1>1. now \in Nat /\ cap.max \in Nat /\ cap.hours \in Nat /\ faults \in Nat
  BY GuardAssumption DEF TypeOK
<1>2. calls \in Seq([run : Runs, at : Nat])
  BY DEF TypeOK
<1>3. ASSUME NEW i \in DOMAIN calls PROVE calls[i].run \in Runs /\ calls[i].at \in Nat
  <2>1. i \in 1..Len(calls)
    BY <1>2
  <2>2. calls[i] \in [run : Runs, at : Nat]
    BY <1>2, <2>1, ElementOfSeq
  <2> QED BY <2>2
<1>4. ASSUME NEW r \in Runs
      PROVE  log[r] \in Seq(Nat) /\ \A i \in DOMAIN log[r] : log[r][i] \in Nat
  <2>1. log[r] \in Seq(Nat)
    BY DEF TypeOK
  <2> QED BY <2>1, ElementOfSeq
<1> QED BY <1>1, <1>2, <1>3, <1>4

\* Part of a sequence's domain is a finite set.
LEMMA PartFinite ==
  ASSUME NEW S, NEW s \in Seq(S), NEW part \in SUBSET DOMAIN s
  PROVE  IsFiniteSet(part) /\ Cardinality(part) \in Nat
<1>1. DOMAIN s = 1..Len(s) /\ Len(s) \in Nat
  OBVIOUS
<1>2. IsFiniteSet(DOMAIN s)
  BY <1>1, FS_Interval
<1>3. IsFiniteSet(part)
  BY <1>2, FS_Subset
<1> QED BY <1>3, FS_CardinalityType

LEMMA FromFinite ==
  ASSUME TypeOK, NEW r \in Runs, NEW t \in Nat
  PROVE  /\ IsFiniteSet(CallsFrom(r, t)) /\ Cardinality(CallsFrom(r, t)) \in Nat
         /\ IsFiniteSet(StampsFrom(r, t)) /\ Cardinality(StampsFrom(r, t)) \in Nat
<1>1. CallsFrom(r, t) \in SUBSET DOMAIN calls /\ StampsFrom(r, t) \in SUBSET DOMAIN log[r]
  BY DEF CallsFrom, StampsFrom
<1> QED BY <1>1, CapTypes, PartFinite

\* The cap hook counts the stamps of the newest run.
LEMMA CountedIs == newest # NoRun => Counted = Cardinality(StampsFrom(newest, now))
BY DEF Counted, Stamps, StampsFrom

LEMMA InitCap == Init => CallsMade /\ CallsStamped /\ ClearedBelowCap /\ CapHolds
<1> SUFFICES ASSUME Init PROVE CallsMade /\ CallsStamped /\ ClearedBelowCap /\ CapHolds
  OBVIOUS
<1>1. TypeOK
  BY InitTypes
<1>2. \A r \in Runs, t \in Nat : CallsFrom(r, t) = {}
  BY DEF Init, CallsFrom
<1>3. CallsStamped
  <2> SUFFICES ASSUME NEW r \in Runs, NEW t \in Nat
               PROVE  Cardinality(CallsFrom(r, t))
                        <= Cardinality(StampsFrom(r, t)) + faults + Slack(r)
    BY DEF CallsStamped
  <2>1. Cardinality(CallsFrom(r, t)) = 0
    BY <1>2, FS_EmptySet
  <2>2. Cardinality(StampsFrom(r, t)) \in Nat /\ faults \in Nat /\ Slack(r) \in Nat
    BY <1>1, FromFinite, CapTypes DEF Slack
  <2> QED BY <2>1, <2>2
<1> QED BY <1>3 DEF Init, CallsMade, ClearedBelowCap, CapHolds

\* A step that makes no call and stamps nothing: whoever gains the right to a
\* call more pays with a failure, and whoever it clears is below the cap.
LEMMA QuietCapStep ==
  ASSUME CapInv, UNCHANGED <<settings, log, calls>>,
         now' \in Nat, now <= now', faults' \in Nat, faults <= faults',
         \A r \in Runs : phase[r] # "absent" => phase'[r] # "absent",
         \A r \in Runs : faults + Slack(r) <= faults' + Slack(r)',
         newest' # newest => newest' \in Runs /\ phase[newest'] = "absent"
                               /\ phase'[newest'] # "cleared",
         newest # NoRun /\ cap.set /\ phase[newest] # "cleared" /\ phase'[newest] = "cleared" =>
           Cardinality(StampsFrom(newest, now)) < cap.max
  PROVE  CallsMade' /\ CallsStamped' /\ ClearedBelowCap' /\ CapHolds'
<1>0. UNCHANGED <<cap, log, calls>>
  BY DEF settings
<1> USE DEF CapInv
<1>1. CallsMade'
  BY <1>0, CapTypes DEF CallsMade
<1>2. CallsStamped'
  <2> SUFFICES ASSUME NEW r \in Runs, NEW t \in Nat
               PROVE  Cardinality(CallsFrom(r, t)')
                        <= Cardinality(StampsFrom(r, t)') + faults' + Slack(r)'
    BY DEF CallsStamped
  <2>1. CallsFrom(r, t)' = CallsFrom(r, t) /\ StampsFrom(r, t)' = StampsFrom(r, t)
    BY <1>0 DEF CallsFrom, StampsFrom
  <2>2. Cardinality(CallsFrom(r, t)) <= Cardinality(StampsFrom(r, t)) + faults + Slack(r)
    BY DEF CallsStamped
  <2>3. faults + Slack(r) <= faults' + Slack(r)' /\ Slack(r) \in Nat /\ Slack(r)' \in Nat
    BY DEF Slack
  <2>4. /\ Cardinality(CallsFrom(r, t)) \in Nat /\ Cardinality(StampsFrom(r, t)) \in Nat
        /\ faults \in Nat
    BY FromFinite, CapTypes
  <2> QED BY <2>1, <2>2, <2>3, <2>4
<1>3. ClearedBelowCap'
  <2> SUFFICES ASSUME newest' # NoRun, cap'.set, phase'[newest'] = "cleared"
               PROVE  Cardinality(StampsFrom(newest, now)') < cap'.max
    BY DEF ClearedBelowCap
  <2>1. newest' = newest /\ newest \in Runs
    BY DEF TypeOK
  <2>2. Cardinality(StampsFrom(newest, now)) < cap.max
    BY <1>0, <2>1 DEF ClearedBelowCap
  <2>3. StampsFrom(newest, now)' \in SUBSET StampsFrom(newest, now)
    <3>1. /\ now \in Nat /\ cap.hours \in Nat
          /\ \A i \in DOMAIN log[newest] : log[newest][i] \in Nat
      BY <2>1, CapTypes
    <3> QED BY <1>0, <2>1, <3>1 DEF StampsFrom
  <2>4. IsFiniteSet(StampsFrom(newest, now)) /\ Cardinality(StampsFrom(newest, now)) \in Nat
    BY <2>1, FromFinite, CapTypes
  <2>5. /\ Cardinality(StampsFrom(newest, now)') <= Cardinality(StampsFrom(newest, now))
        /\ Cardinality(StampsFrom(newest, now)') \in Nat
    BY <2>3, <2>4, FS_Subset, FS_CardinalityType
  <2>6. cap.max \in Nat
    BY CapTypes
  <2> QED BY <1>0, <2>2, <2>4, <2>5, <2>6
<1>4. CapHolds'
  <2> SUFFICES ASSUME newest' # NoRun, cap.set, NEW i \in DOMAIN calls, calls[i].run = newest'
               PROVE  Cardinality({j \in DOMAIN calls :
                                     /\ calls[j].run = newest'
                                     /\ calls[j].at + cap.hours >= calls[i].at
                                     /\ calls[j].at <= calls[i].at}) <= cap.max + faults'
    BY <1>0 DEF CapHolds, CallsWithin
  <2> DEFINE in == {j \in DOMAIN calls : /\ calls[j].run = newest
                                         /\ calls[j].at + cap.hours >= calls[i].at
                                         /\ calls[j].at <= calls[i].at}
  <2>1. newest' = newest
    BY <1>0, CapTypes DEF CallsMade
  <2>2. Cardinality(in) <= cap.max + faults
    BY <1>0, <2>1 DEF CapHolds, CallsWithin
  <2>3. Cardinality(in) \in Nat
    <3>1. in \in SUBSET DOMAIN calls
      OBVIOUS
    <3> QED BY <3>1, CapTypes, PartFinite
  <2>4. cap.max \in Nat /\ faults \in Nat
    BY CapTypes
  <2> QED BY <2>1, <2>2, <2>3, <2>4
<1> QED BY <1>1, <1>2, <1>3, <1>4

\* A run's next job: its stamp takes the place of the slack in every window
\* that reaches it, and no window that does not holds a call.
LEMMA EnqueueCap ==
  ASSUME CapInv, NEW r \in Runs, Enqueue(r)
  PROVE  CallsMade' /\ CallsStamped' /\ ClearedBelowCap' /\ CapHolds'
<1> USE DEF CapInv
<1>0. /\ UNCHANGED <<now, cap, newest, calls, faults>>
      /\ phase[r] = "ready" /\ phase' = [phase EXCEPT ![r] = "queued"]
      /\ log' = [log EXCEPT ![r] = Append(@, now)]
      /\ phase \in [Runs -> Phases] /\ log \in [Runs -> Seq(Nat)]
  BY DEF Enqueue, settings, TypeOK
<1>1. CallsMade'
  BY <1>0, CapTypes DEF CallsMade
<1>2. CallsStamped'
  <2> SUFFICES ASSUME NEW q \in Runs, NEW t \in Nat
               PROVE  Cardinality(CallsFrom(q, t)')
                        <= Cardinality(StampsFrom(q, t)') + faults' + Slack(q)'
    BY DEF CallsStamped
  <2>1. CallsFrom(q, t)' = CallsFrom(q, t)
    BY <1>0 DEF CallsFrom
  <2>2. Cardinality(CallsFrom(q, t)) <= Cardinality(StampsFrom(q, t)) + faults + Slack(q)
    BY DEF CallsStamped
  <2>3. CASE q # r
    <3>1. StampsFrom(q, t)' = StampsFrom(q, t) /\ Slack(q)' = Slack(q)
      BY <1>0, <2>3 DEF StampsFrom, Slack
    <3> QED BY <1>0, <2>1, <2>2, <3>1
  <2>4. CASE q = r
    <3> DEFINE n == Len(log[r]) + 1
    <3>1. /\ log'[r] = Append(log[r], now) /\ log[r] \in Seq(Nat) /\ now \in Nat
          /\ Slack(r) = 1 /\ Slack(r)' = 0
      BY <1>0, CapTypes DEF Slack
    <3>2. /\ DOMAIN log'[r] = DOMAIN log[r] \cup {n} /\ n \notin DOMAIN log[r]
          /\ log'[r][n] = now /\ \A i \in DOMAIN log[r] : log'[r][i] = log[r][i]
      BY <3>1
    <3>3. CASE now + cap.hours >= t
      <4>1. StampsFrom(r, t)' = StampsFrom(r, t) \cup {n} /\ n \notin StampsFrom(r, t)
        BY <1>0, <3>2, <3>3 DEF StampsFrom
      <4>2. Cardinality(StampsFrom(r, t)') = Cardinality(StampsFrom(r, t)) + 1
        BY <4>1, FromFinite, FS_AddElement
      <4>3. faults' = faults /\ faults \in Nat /\ Cardinality(StampsFrom(r, t)) \in Nat
        BY <1>0, FromFinite, CapTypes
      <4>4. Cardinality(StampsFrom(r, t)) + faults + Slack(r)
              = Cardinality(StampsFrom(r, t)') + faults' + Slack(r)'
        BY <3>1, <4>2, <4>3
      <4> QED BY <2>1, <2>2, <2>4, <4>4
    <3>4. CASE ~(now + cap.hours >= t)
      <4>1. CallsFrom(r, t) = {}
        BY <3>4, CapTypes DEF CallsFrom, CallsMade
      <4>2. StampsFrom(r, t)' = StampsFrom(r, t)
        BY <1>0, <3>2, <3>4 DEF StampsFrom
      <4> QED BY <1>0, <2>1, <2>4, <3>1, <4>1, <4>2, FS_EmptySet, FromFinite, CapTypes
    <3> QED BY <3>3, <3>4
  <2> QED BY <2>3, <2>4
<1>3. ClearedBelowCap'
  <2> SUFFICES ASSUME newest # NoRun, cap.set, phase'[newest] = "cleared"
               PROVE  Cardinality(StampsFrom(newest, now)') < cap.max
    BY <1>0 DEF ClearedBelowCap, StampsFrom
  <2>1. newest # r /\ newest \in Runs
    BY <1>0 DEF TypeOK
  <2>2. StampsFrom(newest, now)' = StampsFrom(newest, now)
    BY <1>0, <2>1 DEF StampsFrom
  <2> QED BY <1>0, <2>1, <2>2 DEF ClearedBelowCap
<1>4. CapHolds'
  BY <1>0 DEF CapHolds, CallsWithin
<1> QED BY <1>1, <1>2, <1>3, <1>4

\* A call: below the cap when it was cleared, so within it with this one.
LEMMA PlaceCap ==
  ASSUME CapInv, NEW r \in Runs, Place(r)
  PROVE  CallsMade' /\ CallsStamped' /\ ClearedBelowCap' /\ CapHolds'
<1> USE DEF CapInv
<1> DEFINE n == Len(calls) + 1
<1>0. /\ UNCHANGED <<now, cap, newest, log, faults>>
      /\ phase[r] = "cleared" /\ phase' = [phase EXCEPT ![r] = "placed"]
      /\ calls' = Append(calls, [run |-> r, at |-> now])
      /\ phase \in [Runs -> Phases] /\ newest \in Runs \cup {NoRun} /\ NoRun \notin Runs
  BY GuardAssumption DEF Place, settings, TypeOK
<1>1. /\ DOMAIN calls' = DOMAIN calls \cup {n} /\ n \notin DOMAIN calls
      /\ calls'[n].run = r /\ calls'[n].at = now
      /\ \A i \in DOMAIN calls : calls'[i] = calls[i]
  BY <1>0, CapTypes
<1>2. CallsMade'
  BY <1>0, <1>1, CapTypes DEF CallsMade
<1>3. CallsStamped'
  <2> SUFFICES ASSUME NEW q \in Runs, NEW t \in Nat
               PROVE  Cardinality(CallsFrom(q, t)')
                        <= Cardinality(StampsFrom(q, t)') + faults' + Slack(q)'
    BY DEF CallsStamped
  <2>1. StampsFrom(q, t)' = StampsFrom(q, t)
    BY <1>0 DEF StampsFrom
  <2>2. Cardinality(CallsFrom(q, t)) <= Cardinality(StampsFrom(q, t)) + faults + Slack(q)
    BY DEF CallsStamped
  <2>3. CASE q # r
    <3>1. CallsFrom(q, t)' = CallsFrom(q, t) /\ Slack(q)' = Slack(q)
      BY <1>0, <1>1, <2>3 DEF CallsFrom, Slack
    <3> QED BY <1>0, <2>1, <2>2, <3>1
  <2>4. CASE q = r
    <3>1. Slack(r) = 0 /\ Slack(r)' = 1
      BY <1>0 DEF Slack
    <3>2. CallsFrom(r, t)' \in SUBSET (CallsFrom(r, t) \cup {n})
      BY <1>0, <1>1 DEF CallsFrom
    <3>3. /\ IsFiniteSet(CallsFrom(r, t) \cup {n})
          /\ Cardinality(CallsFrom(r, t) \cup {n}) <= Cardinality(CallsFrom(r, t)) + 1
          /\ Cardinality(CallsFrom(r, t) \cup {n}) \in Nat
      <4>1. IsFiniteSet(CallsFrom(r, t)) /\ Cardinality(CallsFrom(r, t)) \in Nat
        BY FromFinite
      <4> QED BY <4>1, OneMore
    <3>4. /\ Cardinality(CallsFrom(r, t)') <= Cardinality(CallsFrom(r, t) \cup {n})
          /\ Cardinality(CallsFrom(r, t)') \in Nat
      BY <3>2, <3>3, FS_Subset, FS_CardinalityType
    <3>5. /\ Cardinality(CallsFrom(r, t)) \in Nat /\ Cardinality(StampsFrom(r, t)) \in Nat
          /\ faults \in Nat
      BY FromFinite, CapTypes
    <3> QED BY <1>0, <2>1, <2>2, <2>4, <3>1, <3>3, <3>4, <3>5
  <2> QED BY <2>3, <2>4
<1>4. ClearedBelowCap'
  BY <1>0 DEF ClearedBelowCap, StampsFrom
<1>5. CapHolds'
  <2> SUFFICES ASSUME newest # NoRun, cap.set, NEW i \in DOMAIN calls', calls'[i].run = newest
               PROVE  Cardinality({j \in DOMAIN calls' :
                                     /\ calls'[j].run = newest
                                     /\ calls'[j].at + cap.hours >= calls'[i].at
                                     /\ calls'[j].at <= calls'[i].at}) <= cap.max + faults
    BY <1>0 DEF CapHolds, CallsWithin
  <2> DEFINE in(t)  == {j \in DOMAIN calls : /\ calls[j].run = newest
                                             /\ calls[j].at + cap.hours >= t
                                             /\ calls[j].at <= t}
             in1(t) == {j \in DOMAIN calls' : /\ calls'[j].run = newest
                                              /\ calls'[j].at + cap.hours >= t
                                              /\ calls'[j].at <= t}
  <2>1. CASE newest # r \/ calls'[i].at # now
    <3>1. i \in DOMAIN calls
      BY <1>1, <2>1
    <3>2. calls'[i].at = calls[i].at /\ calls[i].run = newest
          /\ (newest # r \/ calls[i].at < now)
      BY <1>1, <2>1, <3>1, CapTypes DEF CallsMade
    <3>3. in1(calls'[i].at) = in(calls[i].at)
      BY <1>1, <3>2, CapTypes
    <3>4. Cardinality(in(calls[i].at)) <= cap.max + faults
      BY <3>1, <3>2 DEF CapHolds, CallsWithin
    <3> QED BY <3>3, <3>4
  <2>2. CASE newest = r /\ calls'[i].at = now
    <3>1. in1(now) \in SUBSET (CallsFrom(r, now) \cup {n})
      BY <1>1, <2>2 DEF CallsFrom
    <3>2. /\ IsFiniteSet(CallsFrom(r, now) \cup {n})
          /\ Cardinality(CallsFrom(r, now) \cup {n}) <= Cardinality(CallsFrom(r, now)) + 1
          /\ Cardinality(CallsFrom(r, now) \cup {n}) \in Nat
      <4>1. IsFiniteSet(CallsFrom(r, now)) /\ Cardinality(CallsFrom(r, now)) \in Nat
        BY CapTypes, FromFinite
      <4> QED BY <4>1, OneMore
    <3>3. /\ Cardinality(in1(now)) <= Cardinality(CallsFrom(r, now) \cup {n})
          /\ Cardinality(in1(now)) \in Nat
      BY <3>1, <3>2, FS_Subset, FS_CardinalityType
    <3>4. Cardinality(CallsFrom(r, now)) <= Cardinality(StampsFrom(r, now)) + faults
      <4>1. Slack(r) = 0
        BY <1>0 DEF Slack
      <4>2. Cardinality(CallsFrom(r, now))
              <= Cardinality(StampsFrom(r, now)) + faults + Slack(r)
        BY CapTypes DEF CallsStamped
      <4> QED BY <4>1, <4>2, CapTypes, FromFinite
    <3>5. Cardinality(StampsFrom(r, now)) < cap.max
      BY <1>0, <2>2 DEF ClearedBelowCap
    <3>6. Cardinality(in1(now)) <= cap.max + faults
      <4>1. /\ Cardinality(CallsFrom(r, now)) \in Nat /\ Cardinality(StampsFrom(r, now)) \in Nat
            /\ faults \in Nat /\ cap.max \in Nat
        BY FromFinite, CapTypes
      <4> QED BY <3>2, <3>3, <3>4, <3>5, <4>1
    <3> QED BY <2>2, <3>6
  <2> QED BY <2>1, <2>2
<1> QED BY <1>2, <1>3, <1>4, <1>5

\* A hook: only the cap hook clears, when the count it made is below the cap.
LEMMA HookCap ==
  ASSUME CapInv, NEW r \in Runs, DncHook(r) \/ QuietHook(r) \/ CapHook(r)
  PROVE  CallsMade' /\ CallsStamped' /\ ClearedBelowCap' /\ CapHolds'
<1> USE DEF CapInv
<1>1. PICK works \in BOOLEAN, blocks \in BOOLEAN, next \in {"quiet_hours", "attempt_cap", "cleared"} :
        /\ phase[r] \in Hooks
        /\ Query(r, works) /\ Verdict(r, blocks, next)
        /\ UNCHANGED <<now, contact, settings, newest, log, calls, said>>
        /\ next = "cleared" /\ ~blocks => ~CapReached
  <2>1. CASE DncHook(r)
    <3>1. PICK works \in BOOLEAN : /\ Query(r, works)
                                   /\ Verdict(r, ~works \/ DncBlocks, "quiet_hours")
      BY <2>1 DEF DncHook
    <3>2. (~works \/ DncBlocks) \in BOOLEAN
      BY DEF DncBlocks
    <3> QED BY <2>1, <3>1, <3>2 DEF DncHook, Hooks
  <2>2. CASE QuietHook(r)
    <3>1. PICK works \in BOOLEAN : /\ Query(r, works)
                                   /\ Verdict(r, works /\ IsQuiet, "attempt_cap")
      BY <2>2 DEF QuietHook
    <3>2. (works /\ IsQuiet) \in BOOLEAN
      BY DEF IsQuiet
    <3> QED BY <2>2, <3>1, <3>2 DEF QuietHook, Hooks
  <2>3. CASE CapHook(r)
    <3>1. PICK works \in BOOLEAN : /\ Query(r, works)
                                   /\ Verdict(r, ~works \/ CapReached, "cleared")
      BY <2>3 DEF CapHook
    <3>2. (~works \/ CapReached) \in BOOLEAN /\ (~(~works \/ CapReached) => ~CapReached)
      BY DEF CapReached
    <3> QED BY <2>3, <3>1, <3>2 DEF CapHook, Hooks
  <2> QED BY <2>1, <2>2, <2>3
<1>2. /\ phase' = [phase EXCEPT ![r] = IF blocks THEN "refused" ELSE next]
      /\ phase \in [Runs -> Phases]
  BY <1>1 DEF Verdict, TypeOK
<1>3. faults' \in Nat /\ faults <= faults'
  BY <1>1, CapTypes DEF Query
<1>4. \A q \in Runs : phase[q] # "absent" => phase'[q] # "absent"
  BY <1>2
<1>5. \A q \in Runs : faults + Slack(q) <= faults' + Slack(q)'
  <2> TAKE q \in Runs
  <2>1. Slack(q)' = Slack(q) /\ Slack(q) \in Nat
    BY <1>1, <1>2 DEF Slack, Hooks
  <2> QED BY <1>3, <2>1, CapTypes
<1>6. newest # NoRun /\ cap.set /\ phase[newest] # "cleared" /\ phase'[newest] = "cleared" =>
        Cardinality(StampsFrom(newest, now)) < cap.max
  <2> SUFFICES ASSUME newest # NoRun, cap.set, phase[newest] # "cleared",
                      phase'[newest] = "cleared"
               PROVE  Cardinality(StampsFrom(newest, now)) < cap.max
    OBVIOUS
  <2>1. newest \in Runs
    BY DEF TypeOK
  <2>2. newest = r /\ ~CapReached
    BY <1>1, <1>2, <2>1
  <2>3. ~(Counted >= cap.max)
    BY <2>2 DEF CapReached
  <2> QED BY <2>1, <2>3, CountedIs, FromFinite, CapTypes
<1>7. newest' = newest /\ now' = now /\ now \in Nat /\ now <= now
  BY <1>1, CapTypes
<1> QED BY <1>1, <1>3, <1>4, <1>5, <1>6, <1>7, QuietCapStep

LEMMA NextCap ==
  ASSUME CapInv, [Next]_vars PROVE CallsMade' /\ CallsStamped' /\ ClearedBelowCap' /\ CapHolds'
<1> DEFINE Goal == CallsMade' /\ CallsStamped' /\ ClearedBelowCap' /\ CapHolds'
<1>0. /\ now \in Nat /\ faults \in Nat /\ phase \in [Runs -> Phases] /\ TypeOK
      /\ newest \in Runs \cup {NoRun} /\ NoRun \notin Runs
  BY CapTypes, GuardAssumption DEF CapInv, TypeOK
<1>1. ASSUME NEW r \in Runs, Enrol(r) \/ Handle(r) \/ Fold(r) PROVE Goal
  <2>1. /\ UNCHANGED <<settings, log, calls, now, faults>>
        /\ \A q \in Runs : phase[q] # "absent" => phase'[q] # "absent"
        /\ newest' # newest => newest' \in Runs /\ phase[newest'] = "absent"
                                 /\ phase'[newest'] # "cleared"
        /\ \A q \in Runs : phase'[q] = "cleared" => phase[q] = "cleared"
    BY <1>0, <1>1 DEF Enrol, Handle, Fold
  <2>2. \A q \in Runs : faults + Slack(q) <= faults' + Slack(q)'
    BY <1>0, <1>1, <2>1 DEF Enrol, Handle, Fold, Slack
  <2> QED BY <1>0, <2>1, <2>2, QuietCapStep
<1>2. ASSUME NEW r \in Runs, Redo(r) PROVE Goal
  <2>1. /\ UNCHANGED <<settings, log, calls, now, newest>> /\ faults' = faults + 1
        /\ \A q \in Runs : phase[q] # "absent" => phase'[q] # "absent"
        /\ \A q \in Runs : phase'[q] = "cleared" => phase[q] = "cleared"
    BY <1>0, <1>2 DEF Redo
  <2>2. \A q \in Runs : faults + Slack(q) <= faults' + Slack(q)'
    BY <1>0, <2>1 DEF Slack
  <2> QED BY <1>0, <2>1, <2>2, QuietCapStep
<1>3. CASE SayNo \/ Elapse \/ UNCHANGED vars
  <2>1. /\ UNCHANGED <<settings, log, calls, newest, phase, faults>>
        /\ now' \in Nat /\ now <= now'
    BY <1>0, <1>3 DEF SayNo, Elapse, vars
  <2>2. \A q \in Runs : faults + Slack(q) <= faults' + Slack(q)'
    BY <1>0, <2>1 DEF Slack
  <2> QED BY <1>0, <2>1, <2>2, QuietCapStep
<1>4. ASSUME NEW r \in Runs, Enqueue(r) PROVE Goal
  BY <1>4, EnqueueCap
<1>5. ASSUME NEW r \in Runs, Place(r) PROVE Goal
  BY <1>5, PlaceCap
<1>6. ASSUME NEW r \in Runs, DncHook(r) \/ QuietHook(r) \/ CapHook(r) PROVE Goal
  BY <1>6, HookCap
<1> QED BY <1>1, <1>2, <1>3, <1>4, <1>5, <1>6 DEF Next

\* In no window does the newest run make more calls than the cap and the
\* failures allow, though stamps and calls lie any time apart.
THEOREM CapCorrect == Spec => []CapHolds
<1>1. Init => CapInv
  BY InitTypes, InitCap DEF CapInv
<1>2. CapInv /\ [Next]_vars => CapInv'
  BY NextTypes, NextCap DEF CapInv
<1>3. CapInv => CapHolds
  BY DEF CapInv
<1> QED BY <1>1, <1>2, <1>3, PTL DEF Spec
=============================================================================
