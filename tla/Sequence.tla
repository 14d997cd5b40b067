------------------------------ MODULE Sequence ------------------------------
(***************************************************************************)
(* The life of one run when nothing fails: enrolled at the entry of a      *)
(* definition (runs.ts), driven by ticks one after the other               *)
(* (scheduler.ts), its calls answered by the call handler                  *)
(* (place-call.ts).  The definition is drawn from a set, so a check covers *)
(* every definition of the set.                                            *)
(***************************************************************************)
EXTENDS Workflow

CONSTANTS
    Definitions,   \* the definitions a run may follow, each with its entry
    Disps,         \* what the outcome port may answer
    MaxWakes       \* bound on the ticks of one behaviour

\* startRun takes definitions the schema has passed.
ASSUME SequenceAssumption ==
    /\ MaxSteps \in Nat /\ MaxWakes \in Nat
    /\ \A wf \in Definitions : WellFormed(wf.steps) /\ wf.entry \in STRING

VARIABLES
    def,     \* the run's definition
    row,     \* status, current_step, lastDisposition and wake_at of the run
    walk,    \* what the last tick made of the run
    wakes    \* ticks taken so far

vars == <<def, row, walk, wakes>>

NoWalk == [status |-> "none", step |-> Null, disp |-> Null,
           wake |-> "none", actions |-> {}]

\* startRun: the run is pending at the entry and due at once.
Init ==
    /\ \E wf \in Definitions :
         /\ def = wf.steps
         /\ row = [status |-> "pending", step |-> wf.entry,
                   disp |-> Null, wake |-> "due"]
    /\ walk = NoWalk
    /\ wakes = 0

\* A tick takes the due run, drives it and settles the row.
Wake ==
    /\ row.status \in {"pending", "waiting"}
    /\ row.wake = "due"
    /\ wakes < MaxWakes
    /\ wakes' = wakes + 1
    /\ walk' = Drive(def, row.step, row.disp)
    /\ row' = IF walk'.status = "throws"
              THEN [row EXCEPT !.status = "failed"]
              ELSE [status |-> walk'.status, step |-> walk'.step,
                    disp |-> walk'.disp, wake |-> walk'.wake]
    /\ UNCHANGED def

\* The call handler folds the outcome of the parked call and re-arms the run.
Answer(d) ==
    /\ row.status = "waiting"
    /\ row.disp = Null
    /\ row.wake = "none"
    /\ KindOf(def, row.step) = "call"
    /\ row' = [row EXCEPT !.disp = d, !.wake = "due"]
    /\ UNCHANGED <<def, walk, wakes>>

\* The clock passes wake_at.
Elapse ==
    /\ row.status = "waiting"
    /\ row.wake = "later"
    /\ row' = [row EXCEPT !.wake = "due"]
    /\ UNCHANGED <<def, walk, wakes>>

Next == Wake \/ (\E d \in Disps : Answer(d)) \/ Elapse

Spec == Init /\ [][Next]_vars

-----------------------------------------------------------------------------
Kinds == {a.kind : a \in walk.actions}

\* The row, the walk and the counters have the shapes the code gives them.
TypeOK ==
    /\ row.status \in {"pending", "waiting", "completed", "failed"}
    /\ row.disp \in Disps \cup {Null}
    /\ row.wake \in {"none", "due", "later"}
    /\ wakes \in 0..MaxWakes
    /\ Kinds \subseteq {"place_call", "send_wa", "write_outcome", "create_task"}

\* A parked run has exactly one thing that will move it again: the timer it
\* waits for, or the one call its last tick asked for, which it rests on; and no
\* disposition is left over for a step it was not given to.
ParkedHasOneWaker ==
    row.status = "waiting" /\ row = [status |-> walk.status, step |-> walk.step,
                                     disp |-> walk.disp, wake |-> walk.wake] =>
      LET calls == {a \in walk.actions : a.kind = "place_call"}
      IN  /\ row.disp = Null
          /\ \/ row.wake = "later" /\ calls = {}
             \/ row.wake = "none" /\ Cardinality(calls) = 1
                /\ KindOf(def, row.step) = "call"

\* A disposition routes only the call that was answered and the branches that
\* hang off it: from the first other step on, the walk is the one a run with no
\* disposition would make from that step.
DispositionStopsAtBranch ==
    [][Wake /\ row.disp # Null /\ KindOf(def, row.step) = "call" =>
        LET hop == CallRoute(def[row.step].on, row.disp)
            first == IF KindOf(def, hop) = "branch"
                     THEN BranchRoute(def[hop].arms, row.disp) ELSE hop
        IN  first # Null /\ KindOf(def, first) # "branch"
              /\ walk'.status # "throws" =>
                LET fresh == Drive(def, first, Null)
                IN  /\ walk'.status = fresh.status
                    /\ walk'.step = fresh.step
                    /\ walk'.actions = fresh.actions]_vars
=============================================================================
