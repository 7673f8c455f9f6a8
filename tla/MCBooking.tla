----------------------------- MODULE MCBooking ------------------------------
(* Small instances of Booking for TLC. *)
EXTENDS Booking, TLC

\* Row ids, slots and requests are interchangeable.
Symmetry == Permutations(Slots) \cup Permutations(Holds)
            \cup Permutations(Appts) \cup Permutations(Requests)
=============================================================================
