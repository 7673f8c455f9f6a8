--------------------------- MODULE MCBillingWebhooks ---------------------------
(* Instances of BillingWebhooks: the cheaper plan includes one verified booking, the other two,   *)
(* and a year of either costs more than a month of the other.                                     *)
EXTENDS BillingWebhooks, TLC

IncludedOf == (0 :> 0) @@ (1 :> 1) @@ (2 :> 2)
PriceOf == (1 :> [monthly |-> 1, annual |-> 3]) @@ (2 :> [monthly |-> 2, annual |-> 4])

Annual == [plan |-> 1, interval |-> "annual"]
OneMonth == [plan |-> 1, interval |-> "monthly"]
TwoMonth == [plan |-> 2, interval |-> "monthly"]
AcrossIntervals == {Annual, TwoMonth}
OneInterval == {OneMonth, TwoMonth}

SymmetryOfRows == Permutations(Subs) \cup Permutations(Workers)
Symmetry == SymmetryOfRows \cup Permutations(Orders)
=============================================================================
