----------------------------- MODULE MCDoneGate -----------------------------
(***************************************************************************)
(* DoneGate with its sessions interchangeable.                             *)
(***************************************************************************)
EXTENDS DoneGate, TLC

Symmetry == Permutations(Sessions)
=============================================================================
