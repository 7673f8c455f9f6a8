--------------------------- MODULE MCVisitLifecycle ---------------------------
(* Small instances of VisitLifecycle for TLC. *)
EXTENDS VisitLifecycle, TLC

\* Rows, requests and passes are interchangeable (in runs without liveness).
Symmetry == Permutations(Appts) \cup Permutations(Requests) \cup Permutations(Passes)
=============================================================================
