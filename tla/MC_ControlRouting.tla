------------------------ MODULE MC_ControlRouting ------------------------
(* Two calls, any of which may be the first. *)
EXTENDS ControlRouting, TLC

CallSymmetry == Permutations(Calls)
=============================================================================
