--------------------------- MODULE MCManualBilling ----------------------------
(* Small instances of ManualBilling for TLC. *)
EXTENDS ManualBilling, TLC

\* Rows and requests in flight are interchangeable.
Symmetry == Permutations(Clients) \cup Permutations(Bills)
            \cup Permutations(Payments) \cup Permutations(Workers)
=============================================================================
