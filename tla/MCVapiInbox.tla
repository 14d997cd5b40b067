----------------------------- MODULE MCVapiInbox -----------------------------
(***************************************************************************)
(* The events the runs deliver to the webhook.                             *)
(***************************************************************************)
EXTENDS VapiInbox, TLC

CONSTANT EventNames

All ==
    [line1  |-> [key |-> 1, call |-> "ours", kind |-> "line", ts |-> 1, good |-> TRUE],
     line2  |-> [key |-> 2, call |-> "ours", kind |-> "line", ts |-> 2, good |-> TRUE],
     end1   |-> [key |-> 3, call |-> "ours", kind |-> "report", ts |-> 3, good |-> TRUE],
     end2   |-> [key |-> 4, call |-> "also", kind |-> "report", ts |-> 2, good |-> TRUE],
     broken |-> [key |-> 5, call |-> "theirs", kind |-> "report", ts |-> 1, good |-> FALSE],
     ring   |-> [key |-> 6, call |-> "ours", kind |-> "status", ts |-> 4, good |-> TRUE],
     speech |-> [key |-> 7, call |-> "theirs", kind |-> "other", ts |-> 2, good |-> TRUE]]

MCEvent == [e \in EventNames |-> All[e]]

Symmetry == Permutations(Drains) \cup Permutations(Nudges)
=============================================================================
