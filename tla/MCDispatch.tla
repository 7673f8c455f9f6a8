------------------------------- MODULE MCDispatch -------------------------------
(* Small instances of Dispatch.                                               *)
EXTENDS Dispatch, TLC

Symmetry == Permutations(Workers) \cup Permutations(Events)
=============================================================================
