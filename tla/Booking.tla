------------------------------- MODULE Booking -------------------------------
(***************************************************************************)
(* The calendar of one business: the booking_holds and appointments tables *)
(* and the API requests that read and write them (IntakeBookingService,    *)
(* AppointmentsService).  Every database statement or transaction of a     *)
(* handler is one action, so requests interleave between their awaits; the *)
(* advisory lock makes a locked transaction one action (README, Booking).  *)
(* Wall-clock time is the counter now, in ticks of HOLD_MINUTES / HoldTtl. *)
(***************************************************************************)
EXTENDS Naturals, FiniteSets

CONSTANTS Slots,            \* start times a customer can book
          Holds, Appts,     \* row ids of booking_holds and appointments
          Requests,         \* API requests in flight at once
          NoHold,           \* "this appointment came from no hold"
          HoldTtl,          \* HOLD_MINUTES, in ticks
          MaxOtpAttempts,   \* OTP_MAX_ATTEMPTS
          MaxPinFailures,   \* PIN_MAX_ATTEMPTS
          MaxTime           \* bound: the clock stops here

ASSUME BookingAssumption == /\ NoHold \notin Holds
                            /\ IsFiniteSet(Requests) /\ Requests # {}
                            /\ HoldTtl \in Nat
                            /\ MaxOtpAttempts \in Nat
                            /\ MaxPinFailures \in Nat
                            /\ MaxTime \in Nat

VARIABLES now,          \* the clock
          hold,         \* booking_holds
          appt,         \* appointments
          pinFailures,  \* failed rows of booking_pin_attempt_logs in the lockout window
          req           \* the in-flight requests: where each is and what it has read

vars == <<now, hold, appt, pinFailures, req>>
-----------------------------------------------------------------------------
NoRow == [status |-> "none"]

HoldRow == [status : {"held", "confirmed", "expired"}, slot : Slots,
            expiresAt : Nat, otpAttempts : Nat]

\* status: "off" stands for every status that leaves the slot free (checked_in,
\* needs_review, completed, missed, cancelled).  hold and locked are history: the
\* hold the row was made from, and whether it occupies its slot through the check
\* that verifyAndConfirm makes under the advisory lock.
ApptRow == [status : {"scheduled", "off"}, slot : Slots, hold : Holds \cup {NoHold},
            locked : BOOLEAN]

Idle == [step |-> "idle"]

\* A request between two of its database statements, with the values it read.
Request == {Idle}
    \cup [step : {"createHold"}, slot : Slots, at : Nat]
    \cup [step : {"verify"}, hold : Holds, otpAttempts : Nat]
    \cup [step : {"expireHold", "pin", "pinCheckSlot", "pinInsert", "pinConfirm"},
          hold : Holds]

\* The rows that createHold, verifyAndConfirm and confirmWithPinOverride take as conflicts.
ScheduledAt(s) == {a \in Appts : appt[a].status = "scheduled" /\ appt[a].slot = s}

\* Mutant: a hold stops blocking at its expiry instant, not after it.
BlockingHolds_Strict(s, t) == {h \in Holds : /\ hold[h].status \in {"held", "confirmed"}
                                             /\ hold[h].slot = s
                                             /\ hold[h].expiresAt > t}

BlockingHolds(s, t) == {h \in Holds : /\ hold[h].status \in {"held", "confirmed"}
                                      /\ hold[h].slot = s
                                      /\ hold[h].expiresAt >= t}

Goto(r, state) == req' = [req EXCEPT ![r] = state]

Insert(a, s, h, locked) ==
    /\ appt[a] = NoRow
    /\ appt' = [appt EXCEPT ![a] = [status |-> "scheduled", slot |-> s, hold |-> h,
                                    locked |-> locked]]

Rewrite(a, status, s, locked) ==
    appt' = [appt EXCEPT ![a] = [status |-> status, slot |-> s, hold |-> appt[a].hold,
                                 locked |-> locked]]

Init == /\ now = 0
        /\ hold = [h \in Holds |-> NoRow]
        /\ appt = [a \in Appts |-> NoRow]
        /\ pinFailures = 0
        /\ req = [r \in Requests |-> Idle]
-----------------------------------------------------------------------------
(* createHold *)

\* The clock is read, and the expiry fixed, before the transaction starts.
CreateHoldBegin(r, s) ==
    /\ req[r] = Idle
    /\ Goto(r, [step |-> "createHold", slot |-> s, at |-> now])
    /\ UNCHANGED <<now, hold, appt, pinFailures>>

SlotFree(s, t) == ScheduledAt(s) = {} /\ BlockingHolds(s, t) = {}

\* The transaction under the slot's advisory lock: check, then insert the hold.
CreateHoldTx(r, h) ==
    /\ req[r].step = "createHold"
    /\ SlotFree(req[r].slot, req[r].at)
    /\ hold[h] = NoRow
    /\ hold' = [hold EXCEPT ![h] = [status |-> "held", slot |-> req[r].slot,
                                    expiresAt |-> req[r].at + HoldTtl, otpAttempts |-> 0]]
    /\ Goto(r, Idle)
    /\ UNCHANGED <<now, appt, pinFailures>>

CreateHoldConflict(r) ==
    /\ req[r].step = "createHold"
    /\ ~SlotFree(req[r].slot, req[r].at)
    /\ Goto(r, Idle)
    /\ UNCHANGED <<now, hold, appt, pinFailures>>
-----------------------------------------------------------------------------
(* verifyAndConfirm *)

\* Mutant: one attempt too many.
MayVerify_OffByOne(h) == /\ hold[h].status = "held"
                         /\ hold[h].expiresAt >= now
                         /\ hold[h].otpAttempts <= MaxOtpAttempts

MayVerify(h) == /\ hold[h].status = "held"
                /\ hold[h].expiresAt >= now
                /\ hold[h].otpAttempts < MaxOtpAttempts

\* The hold is read and checked; the provider is then asked about the code.
VerifyBegin(r, h) ==
    /\ req[r] = Idle
    /\ MayVerify(h)
    /\ Goto(r, [step |-> "verify", hold |-> h, otpAttempts |-> hold[h].otpAttempts])
    /\ UNCHANGED <<now, hold, appt, pinFailures>>

\* A held row past its expiry is found; it is written off by a second statement.
VerifyFindsExpired(r, h) ==
    /\ req[r] = Idle
    /\ hold[h].status = "held"
    /\ hold[h].expiresAt < now
    /\ Goto(r, [step |-> "expireHold", hold |-> h])
    /\ UNCHANGED <<now, hold, appt, pinFailures>>

\* The update names the row by id only, whatever its status is by then.
ExpireHold(r) ==
    /\ req[r].step = "expireHold"
    /\ hold' = [hold EXCEPT ![req[r].hold].status = "expired"]
    /\ Goto(r, Idle)
    /\ UNCHANGED <<now, appt, pinFailures>>

\* Wrong code: the count that was read, plus one, is written back.
VerifyInvalid(r) ==
    /\ req[r].step = "verify"
    /\ hold' = [hold EXCEPT ![req[r].hold].otpAttempts = req[r].otpAttempts + 1]
    /\ Goto(r, Idle)
    /\ UNCHANGED <<now, appt, pinFailures>>

NoConflict(s) == ScheduledAt(s) = {}

\* Mutant: the slot is not checked again before the insert.
ConfirmTx_NoRecheck(r, a) ==
    LET h == req[r].hold IN
    /\ req[r].step = "verify"
    /\ Insert(a, hold[h].slot, h, TRUE)
    /\ hold' = [hold EXCEPT ![h].status = "confirmed"]
    /\ Goto(r, Idle)
    /\ UNCHANGED <<now, pinFailures>>

\* Right code: under the advisory lock the slot is checked again, the appointment
\* inserted and the hold confirmed.  The hold's status and expiry are not read again.
ConfirmTx(r, a) ==
    LET h == req[r].hold IN
    /\ req[r].step = "verify"
    /\ NoConflict(hold[h].slot)
    /\ Insert(a, hold[h].slot, h, TRUE)
    /\ hold' = [hold EXCEPT ![h].status = "confirmed"]
    /\ Goto(r, Idle)
    /\ UNCHANGED <<now, pinFailures>>

ConfirmConflict(r) ==
    /\ req[r].step = "verify"
    /\ ~NoConflict(hold[req[r].hold].slot)
    /\ Goto(r, Idle)
    /\ UNCHANGED <<now, hold, appt, pinFailures>>
-----------------------------------------------------------------------------
(* confirmWithPinOverride: no transaction and no lock around its statements *)

\* Mutant: the lockout is not looked at.
PinBegin_NoLockout(r, h) ==
    /\ req[r] = Idle
    /\ hold[h] # NoRow
    /\ Goto(r, [step |-> "pin", hold |-> h])
    /\ UNCHANGED <<now, hold, appt, pinFailures>>

\* The failures of the window are counted first.
PinBegin(r, h) ==
    /\ req[r] = Idle
    /\ hold[h] # NoRow
    /\ pinFailures < MaxPinFailures
    /\ Goto(r, [step |-> "pin", hold |-> h])
    /\ UNCHANGED <<now, hold, appt, pinFailures>>

\* Wrong PIN: a failed attempt is logged.
PinRejected(r) ==
    /\ req[r].step = "pin"
    /\ pinFailures' = pinFailures + 1
    /\ Goto(r, Idle)
    /\ UNCHANGED <<now, hold, appt>>

PinHoldUsable(h) == /\ hold[h].status \in {"held", "confirmed"}
                    /\ hold[h].expiresAt >= now

\* Right PIN: the success is logged and the hold read.
PinReadsHold(r) ==
    /\ req[r].step = "pin"
    /\ Goto(r, IF PinHoldUsable(req[r].hold)
               THEN [step |-> "pinCheckSlot", hold |-> req[r].hold] ELSE Idle)
    /\ UNCHANGED <<now, hold, appt, pinFailures>>

\* Mutant: the hold is confirmed with the check, before the appointment exists.
PinChecksSlot_ConfirmsFirst(r) ==
    /\ req[r].step = "pinCheckSlot"
    /\ NoConflict(hold[req[r].hold].slot)
    /\ hold' = [hold EXCEPT ![req[r].hold].status = "confirmed"]
    /\ Goto(r, [step |-> "pinInsert", hold |-> req[r].hold])
    /\ UNCHANGED <<now, appt, pinFailures>>

PinChecksSlot(r) ==
    /\ req[r].step = "pinCheckSlot"
    /\ Goto(r, IF NoConflict(hold[req[r].hold].slot)
               THEN [step |-> "pinInsert", hold |-> req[r].hold] ELSE Idle)
    /\ UNCHANGED <<now, hold, appt, pinFailures>>

PinInserts(r, a) ==
    /\ req[r].step = "pinInsert"
    /\ Insert(a, hold[req[r].hold].slot, req[r].hold, FALSE)
    /\ Goto(r, [step |-> "pinConfirm", hold |-> req[r].hold])
    /\ UNCHANGED <<now, hold, pinFailures>>

PinConfirmsHold(r) ==
    /\ req[r].step = "pinConfirm"
    /\ hold' = [hold EXCEPT ![req[r].hold].status = "confirmed"]
    /\ Goto(r, Idle)
    /\ UNCHANGED <<now, appt, pinFailures>>
-----------------------------------------------------------------------------
(* Staff and cron writes to the appointments table.  Only what they do to the     *)
(* slots is here; VisitLifecycle.tla has the statuses, the visit and its guards.  *)

\* create: no look at the slot's other appointments or holds, no lock.
StaffCreate(a, s) ==
    /\ Insert(a, s, NoHold, FALSE)
    /\ UNCHANGED <<now, hold, pinFailures, req>>

\* update with a new time rewrites the row by id as scheduled at that time, whatever
\* its status is; the visitRecordedAt it is refused for was read earlier, so by now
\* any row may be moved.
Reschedule(a, s) ==
    /\ appt[a] # NoRow
    /\ Rewrite(a, "scheduled", s, FALSE)
    /\ UNCHANGED <<now, hold, pinFailures, req>>

\* updateStatus: the row takes the status whatever it was.
UpdateStatus(a, status) ==
    /\ appt[a] # NoRow
    /\ Rewrite(a, status, appt[a].slot, appt[a].locked /\ status = "scheduled")
    /\ UNCHANGED <<now, hold, pinFailures, req>>

\* markArrived, completion and the lifecycle cron take a row out of scheduled.
VisitMovesOn(a) ==
    /\ appt[a].status = "scheduled"
    /\ Rewrite(a, "off", appt[a].slot, FALSE)
    /\ UNCHANGED <<now, hold, pinFailures, req>>
-----------------------------------------------------------------------------
(* Environment *)

\* Time passes; failed PIN attempts fall out of the lockout window.
Tick == /\ now < MaxTime
        /\ now' = now + 1
        /\ pinFailures' \in 0 .. pinFailures
        /\ UNCHANGED <<hold, appt, req>>

\* A request dies between two statements: the process stops, a query or the OTP
\* provider fails.  Nothing undoes what it has already written.
Abort(r) == /\ req[r] # Idle
            /\ Goto(r, Idle)
            /\ UNCHANGED <<now, hold, appt, pinFailures>>

HoldStep(r) == \/ \E s \in Slots : CreateHoldBegin(r, s)
               \/ \E h \in Holds : CreateHoldTx(r, h)
               \/ CreateHoldConflict(r)

VerifyStep(r) == \/ \E h \in Holds : VerifyBegin(r, h) \/ VerifyFindsExpired(r, h)
                 \/ ExpireHold(r)
                 \/ VerifyInvalid(r)
                 \/ \E a \in Appts : ConfirmTx(r, a)
                 \/ ConfirmConflict(r)

PinStep(r) == \/ \E h \in Holds : PinBegin(r, h)
              \/ PinRejected(r)
              \/ PinReadsHold(r)
              \/ PinChecksSlot(r)
              \/ \E a \in Appts : PinInserts(r, a)
              \/ PinConfirmsHold(r)

StaffStep(a) == \/ \E s \in Slots : StaffCreate(a, s) \/ Reschedule(a, s)
                \/ \E status \in {"scheduled", "off"} : UpdateStatus(a, status)
                \/ VisitMovesOn(a)

Next == \/ \E r \in Requests : \/ HoldStep(r)
                               \/ VerifyStep(r)
                               \/ PinStep(r)
                               \/ Abort(r)
        \/ \E a \in Appts : StaffStep(a)
        \/ Tick

Spec == Init /\ [][Next]_vars
-----------------------------------------------------------------------------
(* Properties *)

\* A row past its expiry no longer reserves its slot.
Live(h) == /\ hold[h].status \in {"held", "confirmed"}
           /\ hold[h].expiresAt >= now

LiveHolds(s) == {h \in Holds : Live(h) /\ hold[h].slot = s}

OtpBookings(s) == {a \in Appts : /\ appt[a].status = "scheduled"
                                 /\ appt[a].locked
                                 /\ appt[a].slot = s}

\* Types, and the attempt limit: overlapping verifications write back stale
\* counts, but none of them can write more than the limit.
TypeOK == /\ now \in 0 .. MaxTime
          /\ hold \in [Holds -> HoldRow \cup {NoRow}]
          /\ appt \in [Appts -> ApptRow \cup {NoRow}]
          /\ pinFailures \in Nat
          /\ req \in [Requests -> Request]
          /\ \A h \in Holds : hold[h] # NoRow => hold[h].otpAttempts <= MaxOtpAttempts

\* Two appointments that verifyAndConfirm made, neither rewritten since, never
\* occupy the same slot, whatever staff, PIN overrides and crashes do meanwhile.
OtpBookingsExclusive ==
    \A s \in Slots : \A a, b \in OtpBookings(s) : a = b

\* Two holds never reserve one slot at the same time, although createHold reads
\* the clock before it waits for the lock and verifyAndConfirm turns holds
\* confirmed without looking at their status again.
LiveHoldsExclusive ==
    \A s \in Slots : \A g, h \in LiveHolds(s) : g = h

\* A confirmed hold has an appointment made from it, at every step of both ways to
\* confirm it and after a crash in any of them; and while an OTP booking stands, its
\* hold is at the same time and cannot be confirmed by a new verification.
HoldsAndBookingsAgree ==
    /\ \A h \in Holds : hold[h].status = "confirmed" =>
          \E a \in Appts : appt[a] # NoRow /\ appt[a].hold = h
    /\ \A s \in Slots : \A a \in OtpBookings(s) :
          /\ appt[a].hold \in Holds
          /\ hold[appt[a].hold].status \in {"confirmed", "expired"}
          /\ hold[appt[a].hold].slot = s

\* The PIN lockout counts first and logs later, so requests that overlap can pass it
\* together: it is exceeded by fewer attempts than there are requests in flight.
PinLockoutBounded == pinFailures < MaxPinFailures + Cardinality(Requests)

\* The reservation and booking of slots is the one of SlotBook.
Calendar == INSTANCE SlotBook WITH reserved <- [s \in Slots |-> LiveHolds(s)],
                                   booked <- [s \in Slots |-> OtpBookings(s)]

ImplementsSlotBook == Calendar!SlotBookSpec

\* "temporary slot reservation pending OTP verification" (the schema's comment on
\* booking_holds): while a hold waits for its code, no other customer's OTP booking
\* comes to stand on its slot.
HeldSlotReserved ==
    \A h \in Holds : (hold[h].status = "held" /\ Live(h)) =>
        \A a \in OtpBookings(hold[h].slot) : appt[a].hold = h
=============================================================================
