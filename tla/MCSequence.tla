----------------------------- MODULE MCSequence -----------------------------
(***************************************************************************)
(* Every definition of two free steps "a" and "b", an "end" and references *)
(* that may dangle ("gone"), for model checking Sequence.                  *)
(***************************************************************************)
EXTENDS Sequence

MCDisps == {"completed", "busy", "interested"}

Targets == {"a", "b", "end", "gone"}

\* Partial maps over the keys, as the on-map and the arms of a branch are.
PartialMaps(keys, targets) == UNION {[ks -> targets] : ks \in SUBSET keys}

MCSteps ==
         [kind : {"call"}, on : PartialMaps({"completed", "busy"}, {"a", "b", "end"})]
    \cup [kind : {"wait"}, then : Targets, valid : BOOLEAN]
    \cup [kind : {"whatsapp"}, then : Targets]
    \cup [kind : {"branch"}, arms : PartialMaps({"interested", "*"}, {"a", "b", "end"})]
    \cup [kind : {"tool"}, tool : {"book_appointment"}, then : {"a", "b", "end"},
          valid : {TRUE}]
    \cup [kind : {"tool"}, tool : {"create_task"}, then : {"a", "end"}, valid : BOOLEAN]

MCDefinitions ==
    {[entry |-> "a",
      steps |-> [s \in {"a", "b", "end"} |->
                   CASE s = "a" -> x [] s = "b" -> y [] s = "end" -> [kind |-> "end"]]]
        : x \in MCSteps, y \in MCSteps}
=============================================================================
