---------------------------- MODULE RunLifecycle ----------------------------
(***************************************************************************)
(* What the pipeline promises about a run, without ticks, jobs, locks or   *)
(* retries: a lead's sequence sleeps until its timer, or calls and takes   *)
(* one answer at a time; each message it asks for is delivered at most     *)
(* once and never undone; once it is over it stays over.                   *)
(***************************************************************************)
EXTENDS Naturals

CONSTANTS Runs, Sends, Answers, NoAnswer

VARIABLES
    phase,      \* where the run stands
    answer,     \* the answer it has not acted on yet
    asked,      \* the messages its steps have asked for
    delivered   \* the messages recorded as delivered

vars == <<phase, answer, asked, delivered>>

Phases == {"absent", "enrolled", "asleep", "calling", "ready", "answered",
           "completed", "failed"}

Over == {"completed", "failed"}

Init ==
    /\ phase = [r \in Runs |-> "absent"]
    /\ answer = [r \in Runs |-> NoAnswer]
    /\ asked = {}
    /\ delivered = {}

Enrol(r) ==
    /\ phase[r] = "absent"
    /\ phase' = [phase EXCEPT ![r] = "enrolled"]
    /\ UNCHANGED <<answer, asked, delivered>>

\* A tick takes the run on: it spends the answer, asks for
\* messages, and sleeps, calls or ends.
Advance(r) ==
    /\ phase[r] \in {"enrolled", "ready", "answered"}
    /\ \E p \in {"asleep", "calling", "completed"}, new \in SUBSET Sends :
         /\ phase' = [phase EXCEPT ![r] = p]
         /\ asked' = asked \cup {<<r, s>> : s \in new}
    /\ answer' = [answer EXCEPT ![r] = NoAnswer]
    /\ UNCHANGED delivered

Elapse(r) ==
    /\ phase[r] = "asleep"
    /\ phase' = [phase EXCEPT ![r] = "ready"]
    /\ UNCHANGED <<answer, asked, delivered>>

\* An answer is normally to the call the run waits for; a late duplicate job
\* may also answer a run that sleeps, or has slept, ahead of its next call.
\* Nothing answers a run whose answer has not been acted on.
Answer(r) ==
    /\ phase[r] \in {"calling", "asleep", "ready"}
    /\ phase' = [phase EXCEPT ![r] = "answered"]
    /\ \E a \in Answers : answer' = [answer EXCEPT ![r] = a]
    /\ UNCHANGED <<asked, delivered>>

\* The run is dead-lettered.
GiveUp(r) ==
    /\ phase[r] \notin Over \cup {"absent"}
    /\ phase' = [phase EXCEPT ![r] = "failed"]
    /\ answer' = [answer EXCEPT ![r] = NoAnswer]
    /\ UNCHANGED <<asked, delivered>>

Deliver(m) ==
    /\ m \in asked \ delivered
    /\ delivered' = delivered \cup {m}
    /\ UNCHANGED <<phase, answer, asked>>

Next == \/ \E r \in Runs : Enrol(r) \/ Advance(r) \/ Elapse(r) \/ Answer(r) \/ GiveUp(r)
        \/ \E m \in Runs \X Sends : Deliver(m)

Spec == Init /\ [][Next]_vars
=============================================================================
