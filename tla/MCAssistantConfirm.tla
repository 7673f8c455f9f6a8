-------------------------- MODULE MCAssistantConfirm --------------------------
(* A small instance of AssistantConfirm: one appointment and one customer with two columns. *)
EXTENDS AssistantConfirm, TLC

Symmetry == Permutations(Confirms) \cup Permutations(Tokens)
=============================================================================
