----------------------------- MODULE MCPipeline -----------------------------
(***************************************************************************)
(* The pipeline over concrete definitions, whose walks Workflow computes:  *)
(* the seeded qualification sequence (supabase/seeds/real_estate.sql) and  *)
(* two smaller ones.                                                       *)
(***************************************************************************)
EXTENDS Pipeline, Workflow, TLC

CONSTANT Definition

SeedDefinition ==
    [s \in {"qualify_call", "retry_wait", "whatsapp_followup", "recall_wait", "recall",
            "route", "book", "handoff_task", "end"} |->
       CASE s = "qualify_call" ->
              [kind |-> "call", on |-> [completed |-> "route", no_answer |-> "retry_wait",
                                        busy |-> "retry_wait", failed |-> "end"]]
         [] s = "retry_wait" ->
              [kind |-> "wait", then |-> "whatsapp_followup", valid |-> TRUE]
         [] s = "whatsapp_followup" -> [kind |-> "whatsapp", then |-> "recall_wait"]
         [] s = "recall_wait" -> [kind |-> "wait", then |-> "recall", valid |-> TRUE]
         [] s = "recall" ->
              [kind |-> "call", on |-> [completed |-> "route", no_answer |-> "end",
                                        busy |-> "end", failed |-> "end"]]
         [] s = "route" ->
              [kind |-> "branch", arms |-> [x \in {"site_visit_agreed", "interested", "*"} |->
                 CASE x = "site_visit_agreed" -> "book"
                   [] x = "interested" -> "handoff_task"
                   [] x = "*" -> "end"]]
         [] s = "book" ->
              [kind |-> "tool", tool |-> "book_appointment", then |-> "end", valid |-> TRUE]
         [] s = "handoff_task" ->
              [kind |-> "tool", tool |-> "create_task", then |-> "end", valid |-> TRUE]
         [] s = "end" -> [kind |-> "end"]]

\* A reminder cadence that calls until it is answered, and so returns to its
\* steps.
CadenceDefinition ==
    [s \in {"reach", "remind", "pause", "book", "end"} |->
       CASE s = "reach" -> [kind |-> "call", on |-> [completed |-> "book",
                                                     no_answer |-> "remind"]]
         [] s = "remind" -> [kind |-> "whatsapp", then |-> "pause"]
         [] s = "pause" -> [kind |-> "wait", then |-> "reach", valid |-> TRUE]
         [] s = "book" -> [kind |-> "tool", tool |-> "book_appointment", then |-> "end",
                           valid |-> TRUE]
         [] s = "end" -> [kind |-> "end"]]

\* One call, a wait when it is not answered, and a task; a failed call leads to
\* a step nobody wrote.
ShortDefinition ==
    [s \in {"reach", "pause", "note", "end"} |->
       CASE s = "reach" -> [kind |-> "call", on |-> [completed |-> "note",
                                                     no_answer |-> "pause",
                                                     failed |-> "escalate"]]
         [] s = "pause" -> [kind |-> "wait", then |-> "note", valid |-> TRUE]
         [] s = "note" -> [kind |-> "tool", tool |-> "create_task", then |-> "end",
                           valid |-> TRUE]
         [] s = "end" -> [kind |-> "end"]]

\* What a sequence may ask for: each of its calls, messages and writes.
ActionsOf(definition) ==
    LET Kind(step) == CASE step.kind = "call" -> "place_call"
                        [] step.kind = "whatsapp" -> "send_wa"
                        [] step.kind = "tool" ->
                             IF step.tool = "book_appointment" THEN "write_outcome"
                                                               ELSE "create_task"
    IN  {[step |-> s, idx |-> 1, kind |-> Kind(definition[s])] :
           s \in {x \in DOMAIN definition :
                   definition[x].kind \in {"call", "whatsapp", "tool"}}}

MCSteps     == DOMAIN Definition
MCCallSteps == {s \in MCSteps : Definition[s].kind = "call"}
MCActions   == ActionsOf(Definition)

\* A walk that throws leaves the run where it was.
WalkFrom(step, disp) ==
    LET Kept(walk) == IF walk.status = "throws" THEN [walk EXCEPT !.step = step] ELSE walk
    IN  Kept(Drive(Definition, step, disp))

\* TLC evaluates a definition a .cfg substitutes anew at every use, but keeps
\* the value of one that definition names.
WalkTable == [x \in MCSteps \X (Disps \cup {NoDisp}) |-> WalkFrom(x[1], x[2])] @@ <<>>
MCWalk    == WalkTable

\* The seeded sequence never returns to a step.
SeedRank ==
    [s \in MCSteps |->
       CASE s = "qualify_call" -> 0 [] s = "retry_wait" -> 1
         [] s = "whatsapp_followup" -> 2 [] s = "recall_wait" -> 3
         [] s = "recall" -> 4 [] s = "route" -> 5
         [] s \in {"book", "handoff_task"} -> 6 [] OTHER -> 7]

ASSUME SeedNeverReturns == MCSteps = DOMAIN SeedDefinition => Onward(SeedRank)

Symmetry == Permutations(Ticks) \cup Permutations(Workers)
=============================================================================
