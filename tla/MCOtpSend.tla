------------------------------- MODULE MCOtpSend -------------------------------
(* Small instances of OtpSend: the limits of the checks as functions.        *)
EXTENDS OtpSend, TLC

MCLimit  == [c \in CheckNames |-> IF c = "ip" THEN 2 ELSE 1]
MCWindow == [c \in CheckNames |-> IF c = "ip" THEN 1 ELSE 0]
MCSlack  == [c \in CheckNames |-> IF c = "ip" THEN 0 ELSE 2]

\* For the query that leaves rows out: only the mobile check can refuse.
LooseLimit  == [c \in CheckNames |-> IF c = "mobile" THEN 1 ELSE 3]
LooseWindow == [c \in CheckNames |-> 1]
LooseSlack  == [c \in CheckNames |-> 1]

Symmetry == Permutations(Requests)
=============================================================================
