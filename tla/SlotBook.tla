------------------------------ MODULE SlotBook ------------------------------
(***************************************************************************)
(* What online booking promises about one business's calendar, with no     *)
(* holds, requests, locks or clocks: every slot has at most one live hold  *)
(* and at most one booking taken through the public (OTP) path, and each   *)
(* is only given out when nobody has it.  Booking.tla implements it.       *)
(***************************************************************************)
CONSTANTS Slots, Holds, Appts

VARIABLES reserved,  \* reserved[s]: the live holds on slot s
          booked     \* booked[s]: the OTP bookings that occupy slot s

book == <<reserved, booked>>

SlotBookInit == /\ reserved = [s \in Slots |-> {}]
                /\ booked = [s \in Slots |-> {}]

\* A free slot is reserved by one hold.
Reserve(s, h) == /\ reserved[s] = {}
                 /\ reserved' = [reserved EXCEPT ![s] = {h}]
                 /\ UNCHANGED booked

\* Reservations end, any number of them at once: the clock ends them.
Lapse == /\ \A s \in Slots : reserved'[s] \subseteq reserved[s]
         /\ reserved' = [s \in Slots |-> reserved'[s]]
         /\ UNCHANGED booked

\* A slot that no OTP booking occupies is booked, once.
Book(s, a) == /\ booked[s] = {}
              /\ booked' = [booked EXCEPT ![s] = {a}]
              /\ UNCHANGED reserved

\* The booking of a slot gives it up: it was moved, ended or cancelled.
Release(s) == /\ booked' = [booked EXCEPT ![s] = {}]
              /\ UNCHANGED reserved

SlotBookNext == \/ Lapse
                \/ \E s \in Slots : \/ \E h \in Holds : Reserve(s, h)
                                    \/ \E a \in Appts : Book(s, a)
                                    \/ Release(s)

SlotBookSpec == SlotBookInit /\ [][SlotBookNext]_book
=============================================================================
