------------------------------ MODULE Workflow ------------------------------
(***************************************************************************)
(* The pure half of a sales sequence: interpret(), which turns one step of *)
(* a workflow definition into a transition, and drive(), which chains      *)
(* transitions in memory until the run parks or ends                       *)
(* (packages/harness/src/workflow, services/worker/src/scheduler.ts).      *)
(*                                                                         *)
(* A definition is a function from step names to step records, the fields  *)
(* that only carry content (template, agent, vars, args) left out; `valid` *)
(* is FALSE where interpreting the step throws on its content: a duration  *)
(* that does not parse, an unknown timezone, create_task arguments the     *)
(* schema rejects.  Neither operator does I/O or keeps state.              *)
(***************************************************************************)
EXTENDS Naturals, FiniteSets, Sequences

CONSTANT MaxSteps   \* the in-tick walk limit, 64 in the code

\* No step to go to, no disposition folded.
Null == "null"

\* What a `call` step's on-map names directly; every other disposition is a
\* business one, carried by a completed call.
CallOutcomes == {"completed", "no_answer", "busy", "failed"}

StepKinds == {"call", "wait", "branch", "tool", "end", "whatsapp"}

\* WorkflowDefinitionSchema: every step has a kind of the closed set and the
\* fields of its kind.  A reference is any string, the name of a step or not.
WellFormed(def) ==
    /\ IsFiniteSet(DOMAIN def) /\ DOMAIN def \subseteq STRING \ {Null}
    /\ \A s \in DOMAIN def :
         LET step == def[s] IN
         /\ step.kind \in StepKinds
         /\ step.kind = "call"   => \A o \in DOMAIN step.on : step.on[o] \in STRING
         /\ step.kind = "branch" => \A o \in DOMAIN step.arms : step.arms[o] \in STRING
         /\ step.kind \in {"wait", "whatsapp", "tool"} => step.then \in STRING

\* map[key] ?? null
Lookup(map, key) == IF key \in DOMAIN map THEN map[key] ELSE Null

CallRoute(on, d) ==
    IF d \in DOMAIN on \/ d \in CallOutcomes THEN Lookup(on, d)
                                             ELSE Lookup(on, "completed")

BranchRoute(arms, d) ==
    IF d \in DOMAIN arms THEN arms[d] ELSE Lookup(arms, "*")

\* A transition: the kinds of its actions in order, the next step, the timer
\* and the run status ("running" = keep interpreting in this tick).
Transition(actions, next, wake, status) ==
    [actions |-> actions, next |-> next, wake |-> wake, status |-> status]

Throws == Transition(<<>>, Null, "none", "throws")

\* (Faulty: an outcome the map does not name parks the run.)
InterpretCall_Unrouted(id, step, d) ==
    IF d # Null
    THEN LET to == CallRoute(step.on, d)
         IN  Transition(<<>>, to, "none", IF to = Null THEN "waiting" ELSE "running")
    ELSE Transition(<<"place_call">>, id, "none", "waiting")

InterpretCall(id, step, d) ==
    IF d # Null
    THEN Transition(<<>>, CallRoute(step.on, d), "none", "running")
    ELSE Transition(<<"place_call">>, id, "none", "waiting")

InterpretWait(step) ==
    IF step.valid THEN Transition(<<>>, step.then, "later", "waiting") ELSE Throws

InterpretTool(step) ==
    LET kind == IF step.tool = "book_appointment" THEN "write_outcome"
                                                  ELSE "create_task"
    IN  IF kind = "create_task" /\ ~step.valid THEN Throws
        ELSE Transition(<<kind>>, step.then, "none",
                        IF step.then = "end" THEN "completed" ELSE "running")

\* The transition of step s of `def`, given the transitions of the steps one
\* call of interpret() deeper: a whatsapp step is the transition of the step
\* after it with the send put in front.
InterpretStep(def, s, d, deeper) ==
    LET step == def[s] IN
    CASE step.kind = "call"     -> InterpretCall(s, step, d)
      [] step.kind = "wait"     -> InterpretWait(step)
      [] step.kind = "branch"   ->
           Transition(<<>>, BranchRoute(step.arms, d), "none", "running")
      [] step.kind = "tool"     -> InterpretTool(step)
      [] step.kind = "end"      -> Transition(<<>>, Null, "none", "completed")
      [] step.kind = "whatsapp" ->
           IF step.then \notin DOMAIN def \/ deeper[step.then].status = "throws" THEN Throws
           ELSE [deeper[step.then] EXCEPT !.actions = <<"send_wa">> \o @]

\* interpret(): the step `id` of `def` under disposition `d`.  The fuel n stands
\* for the call stack, which only a cycle of whatsapp steps exhausts.
Interpret(def, id, d) ==
    LET Depth == Cardinality(DOMAIN def)
        run[n \in 0..Depth] ==
          [s \in DOMAIN def \cup {id} |->
             IF n = 0 \/ s \notin DOMAIN def THEN Throws
                                          ELSE InterpretStep(def, s, d, run[n - 1])]
    IN  run[Depth][id]

KindOf(def, s) == IF s \in DOMAIN def THEN def[s].kind ELSE "unknown"

\* (Faulty: consumed on the hop to a branch too.)
Consume_Always(def, s, next, d) ==
    IF KindOf(def, s) \in {"call", "branch"} THEN Null ELSE d

\* The disposition after a step that kept running: consumed on the way out of
\* a call or a branch, except that a branch still sees it.
Consume(def, s, next, d) ==
    IF KindOf(def, s) \in {"call", "branch"} /\ KindOf(def, next) # "branch"
    THEN Null ELSE d

\* The actions of one transition with the identity the scheduler gives them.
Labelled(s, actions) ==
    {[step |-> s, idx |-> i, kind |-> actions[i]] : i \in DOMAIN actions}

Resting(t, s) == IF t.next # Null THEN t.next ELSE s

\* The walk that stops after transition t of step s.
Stopped(t, s, d) == [status |-> t.status, step |-> Resting(t, s), disp |-> d,
                     wake |-> t.wake, actions |-> Labelled(s, t.actions)]

\* A walk with the actions of a step before it.
Preceded(walk, actions) ==
    IF walk.status = "throws" THEN walk ELSE [walk EXCEPT !.actions = @ \cup actions]

\* (Faulty: one step a tick, the transient status stored.)
Drive_OneStep(def, step, disp) == Stopped(Interpret(def, step, disp), step, disp)

\* One turn of drive()'s loop, given the walks with a turn less.
DriveTurn(def, s, d, rest) ==
    LET t    == Interpret(def, s, d)
        next == Resting(t, s)
    IN  IF t.status # "running" THEN Stopped(t, s, d)
        ELSE Preceded(rest[<<next, Consume(def, s, next, d)>>], Labelled(s, t.actions))

\* The loop has run out of turns.
OutOfTurns(s, d) == [status |-> "throws", step |-> s, disp |-> d,
                     wake |-> "none", actions |-> {}]

\* drive() followed by the part of applyTransitions that settles the row: what
\* a tick makes of a run that rests at `step` with disposition `disp`.
Drive(def, step, disp) ==
    LET walk[i \in 0..MaxSteps] ==
          [x \in STRING \X {disp, Null} |->
             IF i = 0 THEN OutOfTurns(x[1], x[2])
                      ELSE DriveTurn(def, x[1], x[2], walk[i - 1])]
    IN  walk[MaxSteps][<<step, disp>>]
=============================================================================
