---------------------------- MODULE BookingProofs ----------------------------
(***************************************************************************)
(* Proofs about Booking, for any number of slots, holds, appointments and  *)
(* requests and any limits.                                                *)
(***************************************************************************)
EXTENDS Booking, FiniteSetTheorems, TLAPS

USE DEF NoRow, Idle

\* What a request has read of the database stays true of it: the hold it is about
\* exists, and it will write back a count of attempts that it read below the limit.
RequestsSound ==
    \A r \in Requests :
        /\ req[r].step \notin {"idle", "createHold"} => hold[req[r].hold] \in HoldRow
        /\ req[r].step = "createHold" => req[r].at <= now
        /\ req[r].step = "verify" => req[r].otpAttempts < MaxOtpAttempts

TypeInv == TypeOK /\ RequestsSound

LEMMA TypeInvInit == Init => TypeInv
  BY BookingAssumption DEF Init, TypeInv, TypeOK, RequestsSound, Request

\* Every action preserves TypeInv.
LEMMA TypeInvNext == TypeInv /\ [Next]_vars => TypeInv'
  <1> SUFFICES ASSUME TypeInv, [Next]_vars PROVE TypeInv'
      OBVIOUS
  <1> USE BookingAssumption
      DEF TypeInv, TypeOK, RequestsSound, Request, HoldRow, ApptRow, Goto
  <1>1. ASSUME NEW r \in Requests, HoldStep(r) PROVE TypeInv'
    <2>1. ASSUME NEW s \in Slots, CreateHoldBegin(r, s) PROVE TypeInv'
          BY <2>1 DEF CreateHoldBegin
    <2>2. ASSUME NEW h \in Holds, CreateHoldTx(r, h) PROVE TypeInv'
          BY <2>2 DEF CreateHoldTx
    <2>3. CASE CreateHoldConflict(r)
          BY <2>3 DEF CreateHoldConflict
    <2>4. QED
          BY <1>1, <2>1, <2>2, <2>3 DEF HoldStep
  <1>2. ASSUME NEW r \in Requests, VerifyStep(r) PROVE TypeInv'
    <2>1. ASSUME NEW h \in Holds, VerifyBegin(r, h) PROVE TypeInv'
          BY <2>1 DEF VerifyBegin, MayVerify
    <2>2. ASSUME NEW h \in Holds, VerifyFindsExpired(r, h) PROVE TypeInv'
          BY <2>2 DEF VerifyFindsExpired
    <2>3. CASE ExpireHold(r)
          BY <2>3 DEF ExpireHold
    <2>4. CASE VerifyInvalid(r)
          BY <2>4 DEF VerifyInvalid
    <2>5. ASSUME NEW a \in Appts, ConfirmTx(r, a) PROVE TypeInv'
          BY <2>5 DEF ConfirmTx, Insert
    <2>6. CASE ConfirmConflict(r)
          BY <2>6 DEF ConfirmConflict
    <2>7. QED
          BY <1>2, <2>1, <2>2, <2>3, <2>4, <2>5, <2>6 DEF VerifyStep
  <1>3. ASSUME NEW r \in Requests, PinStep(r) PROVE TypeInv'
    <2>1. ASSUME NEW h \in Holds, PinBegin(r, h) PROVE TypeInv'
          BY <2>1 DEF PinBegin
    <2>2. CASE PinRejected(r)
          BY <2>2 DEF PinRejected
    <2>3. CASE PinReadsHold(r)
          BY <2>3 DEF PinReadsHold
    <2>4. CASE PinChecksSlot(r)
          BY <2>4 DEF PinChecksSlot
    <2>5. ASSUME NEW a \in Appts, PinInserts(r, a) PROVE TypeInv'
          BY <2>5 DEF PinInserts, Insert
    <2>6. CASE PinConfirmsHold(r)
          BY <2>6 DEF PinConfirmsHold
    <2>7. QED
          BY <1>3, <2>1, <2>2, <2>3, <2>4, <2>5, <2>6 DEF PinStep
  <1>4. ASSUME NEW r \in Requests, Abort(r) PROVE TypeInv'
        BY <1>4 DEF Abort
  <1>5. ASSUME NEW a \in Appts, StaffStep(a) PROVE TypeInv'
    <2>1. ASSUME NEW s \in Slots, StaffCreate(a, s) PROVE TypeInv'
          BY <2>1 DEF StaffCreate, Insert
    <2>2. ASSUME NEW s \in Slots, Reschedule(a, s) PROVE TypeInv'
          BY <2>2 DEF Reschedule, Rewrite
    <2>3. ASSUME NEW status \in {"scheduled", "off"}, UpdateStatus(a, status)
          PROVE  TypeInv'
      <3>1. appt[a] \in ApptRow /\ (appt[a].locked /\ status = "scheduled") \in BOOLEAN
            BY <2>3 DEF UpdateStatus
      <3>2. QED
            BY <2>3, <3>1 DEF UpdateStatus, Rewrite
    <2>4. CASE VisitMovesOn(a)
          BY <2>4 DEF VisitMovesOn, Rewrite
    <2>5. QED
          BY <1>5, <2>1, <2>2, <2>3, <2>4 DEF StaffStep
  <1>6. CASE Tick
        BY <1>6 DEF Tick
  <1>7. CASE UNCHANGED vars
        BY <1>7 DEF vars
  <1>8. QED
        BY <1>1, <1>2, <1>3, <1>4, <1>5, <1>6, <1>7 DEF Next

\* The tables, the requests and the counters keep their types, and no hold is ever
\* charged more than MaxOtpAttempts attempts.
THEOREM TypeCorrect == Spec => []TypeOK
  <1>1. TypeInv => TypeOK
        BY DEF TypeInv
  <1>2. QED
        BY <1>1, TypeInvInit, TypeInvNext, PTL DEF Spec
-----------------------------------------------------------------------------
(* Holds: only one at a time reserves a slot *)

\* Whatever has been, or is about to be, written off as expired has expired.
ExpiryInv ==
    /\ \A h \in Holds : hold[h].status = "expired" => hold[h].expiresAt < now
    /\ \A r \in Requests : req[r].step = "expireHold" =>
          hold[req[r].hold].expiresAt < now

HoldInv == TypeInv /\ ExpiryInv /\ LiveHoldsExclusive

LEMMA HoldInvInit == Init => HoldInv
  BY TypeInvInit DEF HoldInv, Init, ExpiryInv, LiveHoldsExclusive, LiveHolds, Live

\* The steps that leave the clock and the holds alone: only a request that has just
\* found an expired hold is new to ExpiryInv.
LEMMA HoldInvFrame ==
    ASSUME HoldInv, UNCHANGED <<now, hold>>,
           \A r \in Requests : req'[r].step = "expireHold" =>
               req'[r] = req[r] \/ hold[req'[r].hold].expiresAt < now
    PROVE  ExpiryInv' /\ LiveHoldsExclusive'
  <1>1. ExpiryInv'
        BY DEF HoldInv, ExpiryInv
  <1>2. LiveHoldsExclusive'
        BY DEF HoldInv, LiveHoldsExclusive, LiveHolds, Live
  <1>3. QED
        BY <1>1, <1>2

\* A write that changes neither slot nor expiry of one hold, and revives none: a row
\* that was not live before may only become confirmed after its expiry.
LEMMA HoldInvRowWrite ==
    ASSUME HoldInv, NEW h \in Holds, hold[h] \in HoldRow,
           NEW row \in HoldRow, hold' = [hold EXCEPT ![h] = row], now' = now,
           row.slot = hold[h].slot, row.expiresAt = hold[h].expiresAt,
           row.status = "expired" => hold[h].expiresAt < now,
           \A r \in Requests : req'[r].step = "expireHold" => req'[r] = req[r]
    PROVE  ExpiryInv' /\ LiveHoldsExclusive' /\ \A s \in Slots : LiveHolds(s)' = LiveHolds(s)
  <1> USE DEF HoldInv, TypeInv, TypeOK, HoldRow
  <1>1. ExpiryInv'
    <2>1. \A g \in Holds : hold'[g].expiresAt = hold[g].expiresAt
          OBVIOUS
    <2>2. \A g \in Holds : hold'[g].status = "expired" => hold'[g].expiresAt < now'
          BY DEF ExpiryInv
    <2>3. \A r \in Requests : req'[r].step = "expireHold" => req'[r].hold \in Holds
          BY DEF Request
    <2>4. QED
          BY <2>1, <2>2, <2>3 DEF ExpiryInv
  <1>2. ASSUME NEW g \in Holds PROVE Live(g)' = Live(g) /\ hold'[g].slot = hold[g].slot
    <2>1. CASE g = h
          BY <2>1, BookingAssumption DEF Live, ExpiryInv
    <2>2. CASE g # h
          BY <2>2 DEF Live
    <2>3. QED
          BY <2>1, <2>2
  <1>3. \A s \in Slots : LiveHolds(s)' = LiveHolds(s)
        BY <1>2 DEF LiveHolds
  <1>4. LiveHoldsExclusive'
        BY <1>3 DEF LiveHoldsExclusive
  <1>5. QED
        BY <1>1, <1>3, <1>4

LEMMA HoldInvNext == HoldInv /\ [Next]_vars => HoldInv'
  <1> SUFFICES ASSUME HoldInv, [Next]_vars PROVE ExpiryInv' /\ LiveHoldsExclusive'
      BY TypeInvNext DEF HoldInv
  <1> USE DEF Goto
  <1>0. TypeInv /\ TypeInv'
        BY TypeInvNext DEF HoldInv
  <1>1. ASSUME NEW r \in Requests, NEW h \in Holds, CreateHoldTx(r, h)
        PROVE  ExpiryInv' /\ LiveHoldsExclusive'
    <2> DEFINE s == req[r].slot
    <2>1. /\ req[r].at <= now /\ now' = now
          /\ hold[h] = NoRow
          /\ hold'[h].status = "held" /\ hold'[h].slot = s
          /\ \A g \in Holds \ {h} : hold'[g] = hold[g]
          /\ \A q \in Requests : req'[q].step = "expireHold" =>
                req'[q] = req[q] /\ req[q].hold # h
          BY <1>0, <1>1 DEF CreateHoldTx, TypeInv, TypeOK, RequestsSound, HoldRow
    <2>2. ExpiryInv'
      <3>1. \A g \in Holds : hold'[g].status = "expired" => hold'[g].expiresAt < now'
            BY <2>1 DEF HoldInv, ExpiryInv
      <3>2. ASSUME NEW q \in Requests, req'[q].step = "expireHold"
            PROVE  hold'[req'[q].hold].expiresAt < now'
        <4>1. req'[q].hold \in Holds
              BY <1>0, <3>2 DEF TypeInv, TypeOK, Request
        <4>2. QED
              BY <2>1, <3>2, <4>1 DEF HoldInv, ExpiryInv
      <3>3. QED
            BY <3>1, <3>2 DEF ExpiryInv
    <2>3. ASSUME NEW g \in Holds, g # h, Live(g)', hold'[g].slot = s PROVE FALSE
      <3>1. Live(g) /\ hold[g].slot = s /\ hold[g].expiresAt \in Nat /\ now \in Nat
            BY <1>0, <2>1, <2>3, BookingAssumption DEF Live, TypeInv, TypeOK, HoldRow
      <3>2. g \in BlockingHolds(s, req[r].at)
            BY <1>0, <1>1, <2>1, <3>1
            DEF BlockingHolds, Live, CreateHoldTx, TypeInv, TypeOK, Request
      <3>3. QED
            BY <1>1, <3>2 DEF CreateHoldTx, SlotFree
    <2>4. ASSUME NEW g \in Holds, g # h, Live(g)'
          PROVE  Live(g) /\ hold'[g].slot = hold[g].slot
          BY <2>1, <2>4 DEF Live
    <2>5. LiveHoldsExclusive'
          BY <2>1, <2>3, <2>4 DEF HoldInv, LiveHoldsExclusive, LiveHolds
    <2>6. QED
          BY <2>2, <2>5
  <1>2. ASSUME NEW r \in Requests, ExpireHold(r)
        PROVE  ExpiryInv' /\ LiveHoldsExclusive'
    <2> DEFINE h == req[r].hold
               row == [hold[h] EXCEPT !.status = "expired"]
    <2>1. /\ h \in Holds /\ hold[h] \in HoldRow /\ row \in HoldRow
          /\ hold' = [hold EXCEPT ![h] = row] /\ now' = now
          /\ row.slot = hold[h].slot /\ row.expiresAt = hold[h].expiresAt
          /\ hold[h].expiresAt < now
          BY <1>0, <1>2
          DEF ExpireHold, HoldInv, ExpiryInv, TypeInv, TypeOK, RequestsSound, Request, HoldRow
    <2>2. \A q \in Requests : req'[q].step = "expireHold" => req'[q] = req[q]
          BY <1>0, <1>2 DEF ExpireHold, TypeInv, TypeOK
    <2>3. QED
          BY <2>1, <2>2, HoldInvRowWrite
  <1>3. ASSUME NEW r \in Requests, VerifyInvalid(r)
        PROVE  ExpiryInv' /\ LiveHoldsExclusive'
    <2> DEFINE h == req[r].hold
               row == [hold[h] EXCEPT !.otpAttempts = req[r].otpAttempts + 1]
    <2>1. /\ h \in Holds /\ hold[h] \in HoldRow /\ row \in HoldRow
          /\ hold' = [hold EXCEPT ![h] = row] /\ now' = now
          /\ row.slot = hold[h].slot /\ row.expiresAt = hold[h].expiresAt
          /\ row.status = hold[h].status
          BY <1>0, <1>3
          DEF VerifyInvalid, TypeInv, TypeOK, RequestsSound, Request, HoldRow
    <2>2. \A q \in Requests : req'[q].step = "expireHold" => req'[q] = req[q]
          BY <1>0, <1>3 DEF VerifyInvalid, TypeInv, TypeOK
    <2>3. row.status = "expired" => hold[h].expiresAt < now
          BY <2>1 DEF HoldInv, ExpiryInv
    <2>4. QED
          BY <2>1, <2>2, <2>3, HoldInvRowWrite
  <1>4. ASSUME NEW r \in Requests, PinConfirmsHold(r)
        PROVE  ExpiryInv' /\ LiveHoldsExclusive'
    <2> DEFINE h == req[r].hold
               row == [hold[h] EXCEPT !.status = "confirmed"]
    <2>1. /\ h \in Holds /\ hold[h] \in HoldRow /\ row \in HoldRow
          /\ hold' = [hold EXCEPT ![h] = row] /\ now' = now
          /\ row.slot = hold[h].slot /\ row.expiresAt = hold[h].expiresAt
          /\ row.status = "confirmed"
          BY <1>0, <1>4
          DEF PinConfirmsHold, TypeInv, TypeOK, RequestsSound, Request, HoldRow
    <2>2. \A q \in Requests : req'[q].step = "expireHold" => req'[q] = req[q]
          BY <1>0, <1>4 DEF PinConfirmsHold, TypeInv, TypeOK
    <2>3. QED
          BY <2>1, <2>2, HoldInvRowWrite
  <1>5. ASSUME NEW r \in Requests, NEW a \in Appts, ConfirmTx(r, a)
        PROVE  ExpiryInv' /\ LiveHoldsExclusive'
    <2> DEFINE h == req[r].hold
               row == [hold[h] EXCEPT !.status = "confirmed"]
    <2>1. /\ h \in Holds /\ hold[h] \in HoldRow /\ row \in HoldRow
          /\ hold' = [hold EXCEPT ![h] = row] /\ now' = now
          /\ row.slot = hold[h].slot /\ row.expiresAt = hold[h].expiresAt
          /\ row.status = "confirmed"
          BY <1>0, <1>5 DEF ConfirmTx, TypeInv, TypeOK, RequestsSound, Request, HoldRow
    <2>2. \A q \in Requests : req'[q].step = "expireHold" => req'[q] = req[q]
          BY <1>0, <1>5 DEF ConfirmTx, TypeInv, TypeOK
    <2>3. QED
          BY <2>1, <2>2, HoldInvRowWrite
  <1>6. CASE Tick
    <2>1. now' = now + 1 /\ hold' = hold /\ req' = req /\ now \in Nat
          BY <1>0, <1>6, BookingAssumption DEF Tick, TypeInv, TypeOK
    <2>2. \A h \in Holds : hold[h] # NoRow => hold[h].expiresAt \in Nat
          BY <1>0 DEF TypeInv, TypeOK, HoldRow
    <2>3. ExpiryInv'
          BY <1>0, <2>1, <2>2 DEF HoldInv, ExpiryInv, TypeInv, TypeOK, RequestsSound,
             Request, HoldRow
    <2>4. LiveHoldsExclusive'
          BY <2>1, <2>2 DEF HoldInv, LiveHoldsExclusive, LiveHolds, Live
    <2>5. QED
          BY <2>3, <2>4
  <1>7. ASSUME NEW r \in Requests, NEW h \in Holds, VerifyFindsExpired(r, h)
        PROVE  ExpiryInv' /\ LiveHoldsExclusive'
        BY <1>0, <1>7, HoldInvFrame DEF VerifyFindsExpired, TypeInv, TypeOK
  <1>8. ASSUME NEW r \in Requests,
               \/ \E s \in Slots : CreateHoldBegin(r, s)
               \/ CreateHoldConflict(r)
               \/ \E h \in Holds : VerifyBegin(r, h) \/ PinBegin(r, h)
               \/ ConfirmConflict(r)
               \/ PinRejected(r) \/ PinReadsHold(r) \/ PinChecksSlot(r)
               \/ \E a \in Appts : PinInserts(r, a)
               \/ Abort(r)
        PROVE  ExpiryInv' /\ LiveHoldsExclusive'
    <2> USE DEF TypeInv, TypeOK
    <2>1. ASSUME NEW s \in Slots, CreateHoldBegin(r, s)
          PROVE  ExpiryInv' /\ LiveHoldsExclusive'
          BY <1>0, <2>1, HoldInvFrame DEF CreateHoldBegin
    <2>2. ASSUME NEW h \in Holds, VerifyBegin(r, h) \/ PinBegin(r, h)
          PROVE  ExpiryInv' /\ LiveHoldsExclusive'
          BY <1>0, <2>2, HoldInvFrame DEF VerifyBegin, PinBegin
    <2>3. CASE CreateHoldConflict(r) \/ ConfirmConflict(r) \/ PinRejected(r) \/ Abort(r)
          BY <1>0, <2>3, HoldInvFrame
          DEF CreateHoldConflict, ConfirmConflict, PinRejected, Abort
    <2>4. CASE PinReadsHold(r)
          BY <1>0, <2>4, HoldInvFrame DEF PinReadsHold
    <2>5. CASE PinChecksSlot(r)
          BY <1>0, <2>5, HoldInvFrame DEF PinChecksSlot
    <2>6. ASSUME NEW a \in Appts, PinInserts(r, a)
          PROVE  ExpiryInv' /\ LiveHoldsExclusive'
          BY <1>0, <2>6, HoldInvFrame DEF PinInserts
    <2>7. QED
          BY <1>8, <2>1, <2>2, <2>3, <2>4, <2>5, <2>6
  <1>9. ASSUME NEW a \in Appts, StaffStep(a) PROVE ExpiryInv' /\ LiveHoldsExclusive'
        BY <1>9, HoldInvFrame DEF StaffStep, StaffCreate, Reschedule, UpdateStatus,
           VisitMovesOn
  <1>10. CASE UNCHANGED vars
        BY <1>10, HoldInvFrame DEF vars
  <1>11. QED
        BY <1>1, <1>2, <1>3, <1>4, <1>5, <1>6, <1>7, <1>8, <1>9, <1>10
        DEF Next, HoldStep, VerifyStep, PinStep

\* No two holds ever reserve the same slot at the same time.
THEOREM HoldsExclusive == Spec => []LiveHoldsExclusive
  <1>1. HoldInv => LiveHoldsExclusive
        BY DEF HoldInv
  <1>2. QED
        BY <1>1, HoldInvInit, HoldInvNext, PTL DEF Spec
-----------------------------------------------------------------------------
(* OTP bookings: only one at a time occupies a slot *)

LockedScheduled ==
    \A a \in Appts : appt[a] # NoRow /\ appt[a].locked => appt[a].status = "scheduled"

BookingInv == TypeInv /\ LockedScheduled /\ OtpBookingsExclusive

\* A write that makes no OTP booking of the row takes it out of the OTP bookings.
LEMMA UnlockedWrite ==
    ASSUME BookingInv, NEW a \in Appts, NEW row \in ApptRow,
           appt' = [appt EXCEPT ![a] = row], row.locked = FALSE
    PROVE  /\ LockedScheduled' /\ OtpBookingsExclusive'
           /\ \A s \in Slots : OtpBookings(s)' = OtpBookings(s) \ {a}
  <1>1. /\ appt'[a] = row
        /\ \A b \in Appts \ {a} : appt'[b] = appt[b]
        BY DEF BookingInv, TypeInv, TypeOK
  <1>2. LockedScheduled'
        BY <1>1 DEF BookingInv, LockedScheduled, ApptRow
  <1>3. \A s \in Slots : OtpBookings(s)' = OtpBookings(s) \ {a}
        BY <1>1 DEF OtpBookings
  <1>4. OtpBookingsExclusive'
        BY <1>3 DEF BookingInv, OtpBookingsExclusive
  <1>5. QED
        BY <1>2, <1>3, <1>4

\* A new OTP booking on a slot without scheduled rows is the only one there.
LEMMA LockedInsert ==
    ASSUME BookingInv, NEW a \in Appts, NEW s \in Slots, NEW h \in Holds,
           Insert(a, s, h, TRUE), NoConflict(s)
    PROVE  /\ LockedScheduled' /\ OtpBookingsExclusive'
           /\ OtpBookings(s) = {} /\ OtpBookings(s)' = {a}
           /\ \A t \in Slots \ {s} : OtpBookings(t)' = OtpBookings(t)
  <1>1. /\ appt[a] = NoRow
        /\ appt'[a] = [status |-> "scheduled", slot |-> s, hold |-> h, locked |-> TRUE]
        /\ \A b \in Appts \ {a} : appt'[b] = appt[b]
        BY DEF Insert, BookingInv, TypeInv, TypeOK
  <1>2. LockedScheduled'
        BY <1>1 DEF BookingInv, LockedScheduled
  <1>3. OtpBookings(s) = {}
        BY DEF OtpBookings, NoConflict, ScheduledAt
  <1>4. OtpBookings(s)' = {a}
    <2>1. a \in OtpBookings(s)'
          BY <1>1 DEF OtpBookings
    <2>2. ASSUME NEW b \in Appts, b # a PROVE b \notin OtpBookings(s)'
          BY <1>1, <1>3, <2>2 DEF OtpBookings
    <2>3. QED
          BY <2>1, <2>2 DEF OtpBookings
  <1>5. ASSUME NEW t \in Slots, t # s PROVE OtpBookings(t)' = OtpBookings(t)
        BY <1>1, <1>5 DEF OtpBookings
  <1>6. OtpBookingsExclusive'
        BY <1>4, <1>5 DEF BookingInv, OtpBookingsExclusive
  <1>7. QED
        BY <1>2, <1>3, <1>4, <1>5, <1>6

\* What staff and the visit's progress do to a row: it stays as it is, or it is
\* written by UnlockedWrite.
LEMMA StaffWrites ==
    ASSUME BookingInv, NEW a \in Appts, StaffStep(a)
    PROVE  \/ appt' = appt
           \/ \E row \in ApptRow : row.locked = FALSE /\ appt' = [appt EXCEPT ![a] = row]
  <1> USE DEF ApptRow
  <1>0. appt \in [Appts -> ApptRow \cup {NoRow}]
        BY DEF BookingInv, TypeInv, TypeOK
  <1>1. ASSUME NEW s \in Slots, StaffCreate(a, s)
        PROVE  \E row \in ApptRow : row.locked = FALSE /\ appt' = [appt EXCEPT ![a] = row]
        BY <1>1 DEF StaffCreate, Insert
  <1>2. ASSUME NEW s \in Slots, Reschedule(a, s)
        PROVE  \E row \in ApptRow : row.locked = FALSE /\ appt' = [appt EXCEPT ![a] = row]
        BY <1>0, <1>2 DEF Reschedule, Rewrite
  <1>3. ASSUME VisitMovesOn(a)
        PROVE  \E row \in ApptRow : row.locked = FALSE /\ appt' = [appt EXCEPT ![a] = row]
    <2> DEFINE row == [status |-> "off", slot |-> appt[a].slot, hold |-> appt[a].hold,
                       locked |-> FALSE]
    <2>1. appt[a] \in ApptRow
          BY <1>0, <1>3 DEF VisitMovesOn
    <2>2. row \in ApptRow /\ row.locked = FALSE
          BY <2>1
    <2>3. appt' = [appt EXCEPT ![a] = row]
          BY <1>3 DEF VisitMovesOn, Rewrite
    <2>4. QED
          BY <2>2, <2>3
  <1>4. ASSUME NEW status \in {"scheduled", "off"}, UpdateStatus(a, status)
        PROVE  \/ appt' = appt
               \/ \E row \in ApptRow : row.locked = FALSE /\ appt' = [appt EXCEPT ![a] = row]
    <2>1. appt[a] \in ApptRow
          BY <1>0, <1>4 DEF UpdateStatus
    <2>2. CASE appt[a].locked /\ status = "scheduled"
      <3>1. appt[a].status = "scheduled" /\ appt[a].locked = TRUE
            BY <2>1, <2>2 DEF BookingInv, LockedScheduled
      <3>2. appt' = [appt EXCEPT ![a] = [status |-> "scheduled", slot |-> appt[a].slot,
                                         hold |-> appt[a].hold, locked |-> TRUE]]
            BY <1>4, <2>2 DEF UpdateStatus, Rewrite
      <3>3. QED
            BY <1>0, <2>1, <3>1, <3>2
    <2>3. CASE ~(appt[a].locked /\ status = "scheduled")
      <3>1. appt' = [appt EXCEPT ![a] = [status |-> status, slot |-> appt[a].slot,
                                         hold |-> appt[a].hold, locked |-> FALSE]]
            BY <1>4, <2>3 DEF UpdateStatus, Rewrite
      <3>2. QED
            BY <2>1, <3>1
    <2>4. QED
          BY <2>2, <2>3
  <1>5. QED
        BY <1>1, <1>2, <1>3, <1>4 DEF StaffStep

LEMMA BookingInvInit == Init => BookingInv
  BY TypeInvInit DEF Init, BookingInv, LockedScheduled, OtpBookingsExclusive, OtpBookings

LEMMA BookingInvNext == BookingInv /\ [Next]_vars => BookingInv'
  <1> SUFFICES ASSUME BookingInv, [Next]_vars
               PROVE  LockedScheduled' /\ OtpBookingsExclusive'
      BY TypeInvNext DEF BookingInv
  <1>1. ASSUME appt' = appt PROVE LockedScheduled' /\ OtpBookingsExclusive'
        BY <1>1 DEF BookingInv, LockedScheduled, OtpBookingsExclusive, OtpBookings
  <1>2. ASSUME NEW r \in Requests, NEW a \in Appts, ConfirmTx(r, a)
        PROVE  LockedScheduled' /\ OtpBookingsExclusive'
    <2>1. req[r].hold \in Holds /\ hold[req[r].hold].slot \in Slots
          BY <1>2 DEF ConfirmTx, BookingInv, TypeInv, TypeOK, RequestsSound, Request, HoldRow
    <2>2. QED
          BY <1>2, <2>1, LockedInsert DEF ConfirmTx
  <1>3. ASSUME NEW r \in Requests, NEW a \in Appts, PinInserts(r, a)
        PROVE  LockedScheduled' /\ OtpBookingsExclusive'
    <2> DEFINE row == [status |-> "scheduled", slot |-> hold[req[r].hold].slot,
                       hold |-> req[r].hold, locked |-> FALSE]
    <2>1. row \in ApptRow
          BY <1>3 DEF PinInserts, BookingInv, TypeInv, TypeOK, RequestsSound, Request,
             HoldRow, ApptRow
    <2>2. appt' = [appt EXCEPT ![a] = row] /\ row.locked = FALSE
          BY <1>3 DEF PinInserts, Insert
    <2>3. QED
          BY <2>1, <2>2, UnlockedWrite
  <1>4. ASSUME NEW a \in Appts, StaffStep(a)
        PROVE  LockedScheduled' /\ OtpBookingsExclusive'
        BY <1>1, <1>4, StaffWrites, UnlockedWrite
  <1>5. ASSUME NEW r \in Requests, HoldStep(r) PROVE appt' = appt
        BY <1>5 DEF HoldStep, CreateHoldBegin, CreateHoldTx, CreateHoldConflict
  <1>6. ASSUME NEW r \in Requests, VerifyStep(r), \A a \in Appts : ~ConfirmTx(r, a)
        PROVE  appt' = appt
        BY <1>6 DEF VerifyStep, VerifyBegin, VerifyFindsExpired, ExpireHold, VerifyInvalid,
           ConfirmConflict
  <1>7. ASSUME NEW r \in Requests, PinStep(r), \A a \in Appts : ~PinInserts(r, a)
        PROVE  appt' = appt
        BY <1>7 DEF PinStep, PinBegin, PinRejected, PinReadsHold, PinChecksSlot,
           PinConfirmsHold
  <1>8. ASSUME \/ \E r \in Requests : Abort(r)
               \/ Tick
               \/ UNCHANGED vars
        PROVE  appt' = appt
        BY <1>8 DEF Abort, Tick, vars
  <1>9. QED
        BY <1>1, <1>2, <1>3, <1>4, <1>5, <1>6, <1>7, <1>8 DEF Next

\* Two appointments made by verifyAndConfirm and not rewritten since never occupy the
\* same slot.
THEOREM BookingsExclusive == Spec => []OtpBookingsExclusive
  <1>1. BookingInv => OtpBookingsExclusive
        BY DEF BookingInv
  <1>2. QED
        BY <1>1, BookingInvInit, BookingInvNext, PTL DEF Spec
-----------------------------------------------------------------------------
(* Holds and the appointments made from them *)

BookingsOf(h) == {a \in Appts : appt[a] # NoRow /\ appt[a].hold = h}

\* A hold that is confirmed, or that a PIN request is about to confirm.
Confirming(h) == \/ hold[h].status = "confirmed"
                 \/ \E r \in Requests : req[r].step = "pinConfirm" /\ req[r].hold = h

\* An appointment exists before its hold is confirmed.
ConfirmedBooked == \A h \in Holds : Confirming(h) => BookingsOf(h) # {}

\* No hold is taken back to held or moved to another slot under an OTP booking.
LockedAgree == \A a \in Appts : appt[a] # NoRow /\ appt[a].locked =>
                  /\ appt[a].hold \in Holds
                  /\ hold[appt[a].hold].status \in {"confirmed", "expired"}
                  /\ hold[appt[a].hold].slot = appt[a].slot

AgreeInv == ConfirmedBooked /\ LockedAgree

LEMMA AgreeSuffices == TypeInv /\ AgreeInv => HoldsAndBookingsAgree
  BY DEF TypeInv, TypeOK, AgreeInv, ConfirmedBooked, LockedAgree, Confirming,
         HoldsAndBookingsAgree, BookingsOf, OtpBookings

LEMMA AgreeInvInit == Init => AgreeInv
  BY DEF Init, AgreeInv, ConfirmedBooked, LockedAgree, Confirming

\* No write unlinks an appointment from its hold.
LEMMA BookingsOfGrow ==
    ASSUME TypeInv, [Next]_vars, NEW h PROVE BookingsOf(h) \subseteq BookingsOf(h)'
  <1> SUFFICES ASSUME NEW a \in Appts, appt[a] # NoRow
               PROVE  appt'[a] # NoRow /\ appt'[a].hold = appt[a].hold
      BY DEF BookingsOf
  <1> USE DEF TypeInv, TypeOK
  <1>1. ASSUME NEW b \in Appts, NEW s \in Slots, NEW g, NEW locked, Insert(b, s, g, locked)
        PROVE  appt'[a] = appt[a]
        BY <1>1 DEF Insert
  <1>2. ASSUME NEW b \in Appts, NEW s, NEW status \in {"scheduled", "off"}, NEW locked,
               Rewrite(b, status, s, locked)
        PROVE  appt'[a] # NoRow /\ appt'[a].hold = appt[a].hold
        BY <1>2 DEF Rewrite
  <1>3. ASSUME NEW b \in Appts, StaffStep(b)
        PROVE  appt'[a] # NoRow /\ appt'[a].hold = appt[a].hold
        BY <1>1, <1>2, <1>3 DEF StaffStep, StaffCreate, Reschedule, UpdateStatus, VisitMovesOn
  <1>4. ASSUME NEW r \in Requests, HoldStep(r) PROVE appt' = appt
        BY <1>4 DEF HoldStep, CreateHoldBegin, CreateHoldTx, CreateHoldConflict
  <1>5. ASSUME NEW r \in Requests, VerifyStep(r) PROVE appt'[a] = appt[a]
        BY <1>5 DEF VerifyStep, VerifyBegin, VerifyFindsExpired, ExpireHold, VerifyInvalid,
           ConfirmTx, Insert, ConfirmConflict
  <1>6. ASSUME NEW r \in Requests, PinStep(r) PROVE appt'[a] = appt[a]
        BY <1>6 DEF PinStep, PinBegin, PinRejected, PinReadsHold, PinChecksSlot,
           PinInserts, Insert, PinConfirmsHold
  <1>7. ASSUME (\E r \in Requests : Abort(r)) \/ Tick \/ UNCHANGED vars
        PROVE  appt' = appt
        BY <1>7 DEF Abort, Tick, vars
  <1>8. QED
        BY <1>3, <1>4, <1>5, <1>6, <1>7 DEF Next

\* A hold that comes to be confirmed, or about to be, has its appointment already.
LEMMA ConfirmedBookedNext ==
    ASSUME TypeInv, ConfirmedBooked, [Next]_vars,
           \A h \in Holds : Confirming(h)' => Confirming(h) \/ BookingsOf(h)' # {}
    PROVE  ConfirmedBooked'
  BY BookingsOfGrow DEF ConfirmedBooked

\* Steps that make no OTP booking and leave every hold's slot as it was, and its status
\* too or at a final one.
LEMMA LockedAgreeNext ==
    ASSUME LockedAgree,
           \A h \in Holds : hold[h].status \in {"confirmed", "expired"} =>
              /\ hold'[h].slot = hold[h].slot
              /\ hold'[h].status \in {"confirmed", "expired"},
           \A a \in Appts : appt'[a] # NoRow /\ appt'[a].locked => appt'[a] = appt[a]
    PROVE  LockedAgree'
  <1>1. ASSUME NEW a \in Appts, appt'[a] # NoRow, appt'[a].locked
        PROVE  /\ appt'[a].hold \in Holds
               /\ hold'[appt'[a].hold].status \in {"confirmed", "expired"}
               /\ hold'[appt'[a].hold].slot = appt'[a].slot
        BY <1>1 DEF LockedAgree
  <1>2. QED
        BY <1>1 DEF LockedAgree

LEMMA AgreeInvNext == BookingInv /\ AgreeInv /\ [Next]_vars => AgreeInv'
  <1> SUFFICES ASSUME BookingInv, ConfirmedBooked, LockedAgree, [Next]_vars
               PROVE  ConfirmedBooked' /\ LockedAgree'
      BY DEF AgreeInv
  <1>0. TypeInv /\ TypeInv'
        BY TypeInvNext DEF BookingInv
  <1> USE DEF Goto
  <1>1. ASSUME hold' = hold,
               \A r \in Requests : req'[r].step = "pinConfirm" => req'[r] = req[r]
        PROVE  ConfirmedBooked'
        BY <1>0, <1>1, ConfirmedBookedNext DEF Confirming
  <1>2. ASSUME hold' = hold, appt' = appt
        PROVE  LockedAgree'
        BY <1>2, LockedAgreeNext
  <1>3. ASSUME NEW r \in Requests, NEW h \in Holds, CreateHoldTx(r, h)
        PROVE  ConfirmedBooked' /\ LockedAgree'
    <2>1. /\ hold[h] = NoRow /\ hold'[h].status = "held" /\ appt' = appt
          /\ \A g \in Holds \ {h} : hold'[g] = hold[g]
          /\ \A q \in Requests : req'[q].step = "pinConfirm" => req'[q] = req[q]
          BY <1>0, <1>3 DEF CreateHoldTx, TypeInv, TypeOK
    <2>2. ConfirmedBooked'
          BY <1>0, <2>1, ConfirmedBookedNext DEF Confirming
    <2>3. LockedAgree'
          BY <2>1, LockedAgreeNext
    <2>4. QED
          BY <2>2, <2>3
  <1>4. ASSUME NEW r \in Requests, ExpireHold(r)
        PROVE  ConfirmedBooked' /\ LockedAgree'
    <2>1. /\ appt' = appt
          /\ \A g \in Holds : /\ hold'[g].status \in {hold[g].status, "expired"}
                              /\ hold[g] # NoRow => hold'[g].slot = hold[g].slot
          /\ \A q \in Requests : req'[q].step = "pinConfirm" => req'[q] = req[q]
          BY <1>0, <1>4 DEF ExpireHold, TypeInv, TypeOK, HoldRow
    <2>2. ConfirmedBooked'
          BY <1>0, <2>1, ConfirmedBookedNext DEF Confirming
    <2>3. LockedAgree'
          BY <2>1, LockedAgreeNext
    <2>4. QED
          BY <2>2, <2>3
  <1>5. ASSUME NEW r \in Requests, VerifyInvalid(r)
        PROVE  ConfirmedBooked' /\ LockedAgree'
    <2>1. /\ appt' = appt
          /\ \A g \in Holds : /\ hold'[g].status = hold[g].status
                              /\ hold[g] # NoRow => hold'[g].slot = hold[g].slot
          /\ \A q \in Requests : req'[q].step = "pinConfirm" => req'[q] = req[q]
          BY <1>0, <1>5
          DEF VerifyInvalid, TypeInv, TypeOK, RequestsSound, Request, HoldRow
    <2>2. ConfirmedBooked'
          BY <1>0, <2>1, ConfirmedBookedNext DEF Confirming
    <2>3. LockedAgree'
          BY <2>1, LockedAgreeNext
    <2>4. QED
          BY <2>2, <2>3
  <1>6. ASSUME NEW r \in Requests, NEW a \in Appts, ConfirmTx(r, a)
        PROVE  ConfirmedBooked' /\ LockedAgree'
    <2> DEFINE h == req[r].hold
    <2>1. /\ h \in Holds /\ hold[h] \in HoldRow
          /\ hold'[h].status = "confirmed" /\ hold'[h].slot = hold[h].slot
          /\ \A g \in Holds \ {h} : hold'[g] = hold[g]
          /\ appt'[a] # NoRow /\ appt'[a].hold = h /\ appt'[a].slot = hold[h].slot
          /\ \A b \in Appts \ {a} : appt'[b] = appt[b]
          /\ \A q \in Requests : req'[q].step = "pinConfirm" => req'[q] = req[q]
          BY <1>0, <1>6
          DEF ConfirmTx, Insert, TypeInv, TypeOK, RequestsSound, Request, HoldRow
    <2>2. \A g \in Holds : Confirming(g)' => Confirming(g) \/ BookingsOf(g)' # {}
          BY <2>1 DEF Confirming, BookingsOf
    <2>3. ConfirmedBooked'
          BY <1>0, <2>2, ConfirmedBookedNext
    <2>4. ASSUME NEW b \in Appts, appt'[b] # NoRow, appt'[b].locked
          PROVE  /\ appt'[b].hold \in Holds
                 /\ hold'[appt'[b].hold].status \in {"confirmed", "expired"}
                 /\ hold'[appt'[b].hold].slot = appt'[b].slot
      <3>1. CASE b = a
            BY <2>1, <3>1
      <3>2. CASE b # a
            BY <2>1, <2>4, <3>2 DEF LockedAgree
      <3>3. QED
            BY <3>1, <3>2
    <2>5. LockedAgree'
          BY <2>4 DEF LockedAgree
    <2>6. QED
          BY <2>3, <2>5
  <1>7. ASSUME NEW r \in Requests, NEW a \in Appts, PinInserts(r, a)
        PROVE  ConfirmedBooked' /\ LockedAgree'
    <2>1. /\ hold' = hold
          /\ appt'[a] # NoRow /\ appt'[a].hold = req[r].hold /\ appt'[a].locked = FALSE
          /\ \A b \in Appts \ {a} : appt'[b] = appt[b]
          /\ req'[r].hold = req[r].hold
          /\ \A q \in Requests \ {r} : req'[q] = req[q]
          BY <1>0, <1>7 DEF PinInserts, Insert, TypeInv, TypeOK
    <2>2. \A g \in Holds : Confirming(g)' => Confirming(g) \/ BookingsOf(g)' # {}
          BY <2>1 DEF Confirming, BookingsOf
    <2>3. ConfirmedBooked'
          BY <1>0, <2>2, ConfirmedBookedNext
    <2>4. LockedAgree'
          BY <2>1, LockedAgreeNext
    <2>5. QED
          BY <2>3, <2>4
  <1>8. ASSUME NEW r \in Requests, PinConfirmsHold(r)
        PROVE  ConfirmedBooked' /\ LockedAgree'
    <2> DEFINE h == req[r].hold
    <2>1. /\ h \in Holds /\ Confirming(h) /\ appt' = appt
          /\ hold'[h].status = "confirmed" /\ hold'[h].slot = hold[h].slot
          /\ \A g \in Holds \ {h} : hold'[g] = hold[g]
          /\ \A q \in Requests : req'[q].step = "pinConfirm" => req'[q] = req[q]
          BY <1>0, <1>8
          DEF PinConfirmsHold, Confirming, TypeInv, TypeOK, RequestsSound, Request, HoldRow
    <2>2. \A g \in Holds : Confirming(g)' => Confirming(g)
          BY <2>1 DEF Confirming
    <2>3. ConfirmedBooked'
          BY <1>0, <2>2, ConfirmedBookedNext
    <2>4. LockedAgree'
          BY <2>1, LockedAgreeNext
    <2>5. QED
          BY <2>3, <2>4
  <1>9. ASSUME NEW a \in Appts, StaffStep(a)
        PROVE  ConfirmedBooked' /\ LockedAgree'
    <2>1. hold' = hold /\ req' = req
          BY <1>9 DEF StaffStep, StaffCreate, Reschedule, UpdateStatus, VisitMovesOn
    <2>2. \A b \in Appts : appt'[b] # NoRow /\ appt'[b].locked => appt'[b] = appt[b]
      <3>1. CASE appt' = appt
            BY <3>1
      <3>2. CASE \E row \in ApptRow : row.locked = FALSE /\ appt' = [appt EXCEPT ![a] = row]
            BY <1>0, <3>2 DEF TypeInv, TypeOK
      <3>3. QED
            BY <1>9, <3>1, <3>2, StaffWrites
    <2>3. LockedAgree'
          BY <2>1, <2>2, LockedAgreeNext
    <2>4. QED
          BY <1>1, <2>1, <2>3
  <1>10. ASSUME NEW r \in Requests,
                \/ \E s \in Slots : CreateHoldBegin(r, s)
                \/ CreateHoldConflict(r)
                \/ \E h \in Holds : \/ VerifyBegin(r, h)
                                    \/ VerifyFindsExpired(r, h)
                                    \/ PinBegin(r, h)
                \/ ConfirmConflict(r) \/ PinRejected(r) \/ Abort(r)
         PROVE  ConfirmedBooked' /\ LockedAgree'
    <2>1. hold' = hold /\ appt' = appt
          BY <1>10 DEF CreateHoldBegin, CreateHoldConflict, VerifyBegin, VerifyFindsExpired,
             PinBegin, ConfirmConflict, PinRejected, Abort
    <2>2. \A q \in Requests : req'[q].step = "pinConfirm" => req'[q] = req[q]
          BY <1>0, <1>10 DEF CreateHoldBegin, CreateHoldConflict, VerifyBegin,
             VerifyFindsExpired, PinBegin, ConfirmConflict, PinRejected, Abort,
             TypeInv, TypeOK
    <2>3. QED
          BY <1>1, <1>2, <2>1, <2>2
  <1>11. ASSUME NEW r \in Requests, PinReadsHold(r) \/ PinChecksSlot(r)
         PROVE  ConfirmedBooked' /\ LockedAgree'
    <2>1. hold' = hold /\ appt' = appt
          BY <1>11 DEF PinReadsHold, PinChecksSlot
    <2>2. CASE PinReadsHold(r)
          BY <1>0, <1>1, <1>2, <2>1, <2>2 DEF PinReadsHold, TypeInv, TypeOK
    <2>3. CASE PinChecksSlot(r)
          BY <1>0, <1>1, <1>2, <2>1, <2>3 DEF PinChecksSlot, TypeInv, TypeOK
    <2>4. QED
          BY <1>11, <2>2, <2>3
  <1>12. CASE Tick \/ UNCHANGED vars
         BY <1>1, <1>2, <1>12 DEF Tick, vars
  <1>13. QED
         BY <1>3, <1>4, <1>5, <1>6, <1>7, <1>8, <1>9, <1>10, <1>11, <1>12
         DEF Next, HoldStep, VerifyStep, PinStep

\* A confirmed hold has an appointment; an OTP booking stands on the slot of its own
\* hold, which is at a final status.
THEOREM HoldsBooked == Spec => []HoldsAndBookingsAgree
  <1> DEFINE Inv == BookingInv /\ AgreeInv
  <1>1. Init => Inv
        BY BookingInvInit, AgreeInvInit
  <1>2. Inv /\ [Next]_vars => Inv'
        BY BookingInvNext, AgreeInvNext
  <1>3. Inv => HoldsAndBookingsAgree
        BY AgreeSuffices DEF BookingInv
  <1>4. QED
        BY <1>1, <1>2, <1>3, PTL DEF Spec
-----------------------------------------------------------------------------
(* Booking implements SlotBook *)

FullInv == HoldInv /\ BookingInv

SameHolds == \A s \in Slots : LiveHolds(s)' = LiveHolds(s)
SameBookings == \A s \in Slots : OtpBookings(s)' = OtpBookings(s)

LEMMA Stutters == ASSUME SameHolds, SameBookings PROVE UNCHANGED Calendar!book
  BY DEF SameHolds, SameBookings, Calendar!book

\* A new hold reserves a slot nobody has, or comes too late to reserve anything.
LEMMA CreateReserves ==
    ASSUME FullInv, NEW r \in Requests, NEW h \in Holds, CreateHoldTx(r, h)
    PROVE  [Calendar!SlotBookNext]_(Calendar!book)
  <1> USE DEF FullInv, HoldInv, TypeInv, TypeOK
  <1>0. PICK s \in Slots : s = req[r].slot
        BY DEF CreateHoldTx, Request
  <1>1. /\ req[r].at \in Nat /\ req[r].at <= now /\ now' = now
        /\ appt' = appt
        /\ hold[h] = NoRow
        /\ hold'[h].status = "held" /\ hold'[h].slot = s
        /\ \A g \in Holds \ {h} : hold'[g] = hold[g]
        BY <1>0 DEF CreateHoldTx, RequestsSound, Request
  <1>2. SameBookings
        BY <1>1 DEF SameBookings, OtpBookings
  <1>3. LiveHolds(s) = {}
    <2>1. ASSUME NEW g \in Holds, Live(g), hold[g].slot = s PROVE FALSE
      <3>1. hold[g].expiresAt \in Nat /\ now \in Nat
            BY <2>1, BookingAssumption DEF Live, HoldRow
      <3>2. g \in BlockingHolds(s, req[r].at)
            BY <1>1, <2>1, <3>1 DEF BlockingHolds, Live
      <3>3. QED
            BY <1>0, <3>2 DEF CreateHoldTx, SlotFree
    <2>2. QED
          BY <2>1 DEF LiveHolds
  <1>4. h \notin UNION {LiveHolds(t) : t \in Slots}
        BY <1>1 DEF LiveHolds, Live
  <1>5. \A g \in Holds \ {h} : Live(g)' = Live(g) /\ hold'[g].slot = hold[g].slot
        BY <1>1 DEF Live
  <1>6. CASE Live(h)'
    <2>1. LiveHolds(s)' = {h}
      <3>1. h \in LiveHolds(s)'
            BY <1>1, <1>6 DEF LiveHolds
      <3>2. \A g \in Holds \ {h} : g \notin LiveHolds(s)'
            BY <1>3, <1>5 DEF LiveHolds
      <3>3. QED
            BY <3>1, <3>2 DEF LiveHolds
    <2>2. \A t \in Slots \ {s} : LiveHolds(t)' = LiveHolds(t)
          BY <1>1, <1>4, <1>5 DEF LiveHolds
    <2>3. Calendar!Reserve(s, h)
          BY <1>1, <1>2, <1>3, <2>1, <2>2 DEF Calendar!Reserve, SameBookings
    <2>4. QED
          BY <1>1, <2>3 DEF Calendar!SlotBookNext
  <1>7. CASE ~Live(h)'
    <2>1. SameHolds
          BY <1>4, <1>5, <1>7 DEF SameHolds, LiveHolds
    <2>2. QED
          BY <1>2, <2>1, Stutters
  <1>8. QED
        BY <1>6, <1>7

\* A confirmed verification books a slot that no OTP booking had.
LEMMA ConfirmBooks ==
    ASSUME FullInv, [Next]_vars, NEW r \in Requests, NEW a \in Appts, ConfirmTx(r, a),
           SameHolds
    PROVE  [Calendar!SlotBookNext]_(Calendar!book)
  <1>1. req[r].hold \in Holds /\ hold[req[r].hold].slot \in Slots
        BY DEF ConfirmTx, FullInv, HoldInv, TypeInv, TypeOK, RequestsSound, Request, HoldRow
  <1>2. PICK s \in Slots : s = hold[req[r].hold].slot
        BY <1>1
  <1>3. Insert(a, s, req[r].hold, TRUE) /\ NoConflict(s) /\ BookingInv
        BY <1>2 DEF ConfirmTx, FullInv
  <1>4. /\ OtpBookings(s) = {} /\ OtpBookings(s)' = {a}
        /\ \A t \in Slots \ {s} : OtpBookings(t)' = OtpBookings(t)
        BY <1>1, <1>3, LockedInsert
  <1>5. Calendar!Book(s, a)
        BY <1>4 DEF Calendar!Book, SameHolds
  <1>6. QED
        BY <1>5 DEF Calendar!SlotBookNext

\* A row that stops being an OTP booking, or never was one, gives up at most one slot.
LEMMA WriteReleases ==
    ASSUME FullInv, NEW a \in Appts, SameHolds,
           \A s \in Slots : OtpBookings(s)' = OtpBookings(s) \ {a}
    PROVE  [Calendar!SlotBookNext]_(Calendar!book)
  <1>1. CASE \A s \in Slots : a \notin OtpBookings(s)
        BY <1>1, Stutters DEF SameBookings
  <1>2. CASE \E s \in Slots : a \in OtpBookings(s)
    <2>1. PICK s \in Slots : a \in OtpBookings(s)
          BY <1>2
    <2>2. OtpBookings(s)' = {}
          BY <2>1 DEF FullInv, BookingInv, OtpBookingsExclusive
    <2>3. \A t \in Slots \ {s} : OtpBookings(t)' = OtpBookings(t)
          BY <2>1 DEF OtpBookings
    <2>4. Calendar!Release(s)
          BY <2>2, <2>3 DEF Calendar!Release, SameHolds
    <2>5. QED
          BY <2>4 DEF Calendar!SlotBookNext
  <1>3. QED
        BY <1>1, <1>2

\* A request's writes to one hold, none of which makes or ends a reservation.
LEMMA HoldWritesKeepReservations ==
    ASSUME FullInv, NEW r \in Requests,
           \/ ExpireHold(r) \/ VerifyInvalid(r) \/ PinConfirmsHold(r)
           \/ \E a \in Appts : ConfirmTx(r, a)
    PROVE  SameHolds
  <1> USE DEF FullInv, HoldInv, TypeInv, TypeOK, RequestsSound, Request, Goto
  <1>0. /\ req[r].step \in {"expireHold", "verify", "pinConfirm"}
        /\ req' = [req EXCEPT ![r] = Idle] /\ now' = now
    <2>1. ASSUME NEW a \in Appts, ConfirmTx(r, a)
          PROVE  req[r].step = "verify" /\ req' = [req EXCEPT ![r] = Idle] /\ now' = now
          BY <2>1 DEF ConfirmTx
    <2>2. QED
          BY <2>1 DEF ExpireHold, VerifyInvalid, PinConfirmsHold
  <1>1. PICK h \in Holds : h = req[r].hold
        BY <1>0
  <1>2. hold[h] \in HoldRow
        BY <1>0, <1>1
  <1>3. \A q \in Requests : req'[q].step = "expireHold" => req'[q] = req[q]
        BY <1>0
  <1>4. now' = now
        BY <1>0
  <1>5. CASE ExpireHold(r)
    <2> DEFINE row == [hold[h] EXCEPT !.status = "expired"]
    <2>1. /\ row \in HoldRow /\ row.slot = hold[h].slot
          /\ row.expiresAt = hold[h].expiresAt /\ row.expiresAt < now
          BY <1>1, <1>2, <1>5 DEF ExpireHold, HoldRow, ExpiryInv
    <2>2. hold' = [hold EXCEPT ![h] = row]
          BY <1>1, <1>5 DEF ExpireHold
    <2>3. QED
          BY <1>2, <1>3, <1>4, <2>1, <2>2, HoldInvRowWrite DEF SameHolds
  <1>6. CASE VerifyInvalid(r)
    <2> DEFINE row == [hold[h] EXCEPT !.otpAttempts = req[r].otpAttempts + 1]
    <2>1. /\ row \in HoldRow /\ row.slot = hold[h].slot
          /\ row.expiresAt = hold[h].expiresAt /\ row.status = hold[h].status
          BY <1>2, <1>6 DEF VerifyInvalid, HoldRow
    <2>2. hold' = [hold EXCEPT ![h] = row]
          BY <1>1, <1>6 DEF VerifyInvalid
    <2>3. row.status = "expired" => hold[h].expiresAt < now
          BY <2>1 DEF ExpiryInv
    <2>4. QED
          BY <1>2, <1>3, <1>4, <2>1, <2>2, <2>3, HoldInvRowWrite DEF SameHolds
  <1>7. CASE PinConfirmsHold(r) \/ \E a \in Appts : ConfirmTx(r, a)
    <2> DEFINE row == [hold[h] EXCEPT !.status = "confirmed"]
    <2>1. /\ row \in HoldRow /\ row.slot = hold[h].slot
          /\ row.expiresAt = hold[h].expiresAt /\ row.status = "confirmed"
          BY <1>2 DEF HoldRow
    <2>2. hold' = [hold EXCEPT ![h] = row]
      <3>1. CASE PinConfirmsHold(r)
            BY <1>1, <3>1 DEF PinConfirmsHold
      <3>2. ASSUME NEW a \in Appts, ConfirmTx(r, a) PROVE hold' = [hold EXCEPT ![h] = row]
            BY <1>1, <3>2 DEF ConfirmTx
      <3>3. QED
            BY <1>7, <3>1, <3>2
    <2>3. QED
          BY <1>2, <1>3, <1>4, <2>1, <2>2, HoldInvRowWrite DEF SameHolds
  <1>8. QED
        BY <1>5, <1>6, <1>7

LEMMA StepsRefine == FullInv /\ [Next]_vars => [Calendar!SlotBookNext]_(Calendar!book)
  <1> SUFFICES ASSUME FullInv, [Next]_vars
               PROVE  [Calendar!SlotBookNext]_(Calendar!book)
      OBVIOUS
  <1>1. ASSUME UNCHANGED <<now, hold>> PROVE SameHolds
        BY <1>1 DEF SameHolds, LiveHolds, Live
  <1>2. ASSUME UNCHANGED appt PROVE SameBookings
        BY <1>2 DEF SameBookings, OtpBookings
  <1>3. ASSUME NEW r \in Requests, NEW h \in Holds, CreateHoldTx(r, h)
        PROVE  [Calendar!SlotBookNext]_(Calendar!book)
        BY <1>3, CreateReserves
  <1>4. ASSUME NEW r \in Requests, NEW a \in Appts, ConfirmTx(r, a)
        PROVE  [Calendar!SlotBookNext]_(Calendar!book)
        BY <1>4, HoldWritesKeepReservations, ConfirmBooks
  <1>5. ASSUME NEW r \in Requests,
               ExpireHold(r) \/ VerifyInvalid(r) \/ PinConfirmsHold(r)
        PROVE  [Calendar!SlotBookNext]_(Calendar!book)
    <2>1. UNCHANGED appt
          BY <1>5 DEF ExpireHold, VerifyInvalid, PinConfirmsHold
    <2>2. QED
          BY <1>2, <1>5, <2>1, HoldWritesKeepReservations, Stutters
  <1>6. ASSUME NEW r \in Requests, NEW a \in Appts, PinInserts(r, a)
        PROVE  [Calendar!SlotBookNext]_(Calendar!book)
    <2> DEFINE row == [status |-> "scheduled", slot |-> hold[req[r].hold].slot,
                       hold |-> req[r].hold, locked |-> FALSE]
    <2>1. row \in ApptRow
          BY <1>6 DEF PinInserts, FullInv, HoldInv, TypeInv, TypeOK, RequestsSound, Request,
             HoldRow, ApptRow
    <2>2. appt' = [appt EXCEPT ![a] = row] /\ row.locked = FALSE
          BY <1>6 DEF PinInserts, Insert
    <2>3. SameHolds
          BY <1>1, <1>6 DEF PinInserts
    <2>4. QED
          BY <2>1, <2>2, <2>3, UnlockedWrite, WriteReleases DEF FullInv
  <1>7. ASSUME NEW a \in Appts, StaffStep(a)
        PROVE  [Calendar!SlotBookNext]_(Calendar!book)
    <2>1. SameHolds
          BY <1>1, <1>7 DEF StaffStep, StaffCreate, Reschedule, UpdateStatus, VisitMovesOn
    <2>2. CASE appt' = appt
          BY <1>2, <2>1, <2>2, Stutters
    <2>3. ASSUME NEW row \in ApptRow, row.locked = FALSE, appt' = [appt EXCEPT ![a] = row]
          PROVE  [Calendar!SlotBookNext]_(Calendar!book)
          BY <2>1, <2>3, UnlockedWrite, WriteReleases DEF FullInv
    <2>4. QED
          BY <1>7, <2>2, <2>3, StaffWrites DEF FullInv
  <1>8. CASE Tick
    <2>1. ASSUME NEW s \in Slots PROVE LiveHolds(s)' \subseteq LiveHolds(s)
      <3>1. ASSUME NEW h \in Holds, Live(h)' PROVE Live(h) /\ hold'[h].slot = hold[h].slot
        <4>1. hold[h].expiresAt \in Nat /\ now \in Nat /\ now' = now + 1 /\ hold' = hold
              BY <1>8, <3>1, BookingAssumption
              DEF Live, Tick, FullInv, HoldInv, TypeInv, TypeOK, HoldRow
        <4>2. QED
              BY <3>1, <4>1 DEF Live
      <3>2. QED
            BY <3>1 DEF LiveHolds
    <2>2. SameBookings
          BY <1>2, <1>8 DEF Tick
    <2>3. Calendar!Lapse
          BY <2>1, <2>2 DEF Calendar!Lapse, SameBookings
    <2>4. QED
          BY <2>3 DEF Calendar!SlotBookNext
  <1>9. ASSUME UNCHANGED <<now, hold, appt>>
        PROVE  [Calendar!SlotBookNext]_(Calendar!book)
        BY <1>1, <1>2, <1>9, Stutters
  <1>10. ASSUME NEW r \in Requests,
                \/ \E s \in Slots : CreateHoldBegin(r, s)
                \/ CreateHoldConflict(r)
                \/ \E h \in Holds : \/ VerifyBegin(r, h)
                                    \/ VerifyFindsExpired(r, h)
                                    \/ PinBegin(r, h)
                \/ ConfirmConflict(r) \/ PinRejected(r) \/ PinReadsHold(r)
                \/ PinChecksSlot(r) \/ Abort(r)
         PROVE  UNCHANGED <<now, hold, appt>>
         BY <1>10 DEF CreateHoldBegin, CreateHoldConflict, VerifyBegin, VerifyFindsExpired,
            PinBegin, ConfirmConflict, PinRejected, PinReadsHold, PinChecksSlot, Abort
  <1>11. CASE UNCHANGED vars
         BY <1>9, <1>11 DEF vars
  <1>12. QED
         BY <1>3, <1>4, <1>5, <1>6, <1>7, <1>8, <1>9, <1>10, <1>11
         DEF Next, HoldStep, VerifyStep, PinStep

\* The requests, locks, clocks and rows of Booking implement the slot book: a slot is
\* reserved and booked only when it is free.
THEOREM BookingImplementsSlotBook == Spec => ImplementsSlotBook
  <1>1. Init => FullInv
        BY HoldInvInit, BookingInvInit DEF FullInv
  <1>2. FullInv /\ [Next]_vars => FullInv'
        BY HoldInvNext, BookingInvNext DEF FullInv
  <1>3. Init => Calendar!SlotBookInit
        BY DEF Init, Calendar!SlotBookInit, LiveHolds, Live, OtpBookings
  <1>4. QED
        BY <1>1, <1>2, <1>3, StepsRefine, PTL
        DEF Spec, ImplementsSlotBook, Calendar!SlotBookSpec
-----------------------------------------------------------------------------
(* The PIN lockout *)

\* The requests that have passed the lockout and not yet logged their attempt.
PastLockout == {r \in Requests : req[r].step = "pin"}

\* Every one of them may still add a failure.
LockoutInv == TypeOK /\ pinFailures + Cardinality(PastLockout)
                          < MaxPinFailures + Cardinality(Requests)

LEMMA PastLockoutFinite ==
    IsFiniteSet(PastLockout) /\ Cardinality(PastLockout) <= Cardinality(Requests)
    /\ Cardinality(PastLockout) \in Nat /\ Cardinality(Requests) \in Nat
  BY BookingAssumption, FS_Subset, FS_CardinalityType DEF PastLockout

LEMMA LockoutInit == Init => LockoutInv
  <1> SUFFICES ASSUME Init PROVE LockoutInv
      OBVIOUS
  <1>1. TypeOK
        BY TypeInvInit DEF TypeInv
  <1>2. PastLockout = {}
        BY DEF Init, PastLockout
  <1>3. Cardinality(PastLockout) = 0
        BY <1>2, FS_EmptySet
  <1>4. Cardinality(Requests) \in Nat /\ Cardinality(Requests) # 0
        BY BookingAssumption, FS_EmptySet, FS_CardinalityType
  <1>5. QED
        BY <1>1, <1>3, <1>4, BookingAssumption DEF Init, LockoutInv

\* A step that lets no request past the lockout and logs no failure.
LEMMA LockoutFrame ==
    ASSUME LockoutInv, TypeOK', pinFailures' <= pinFailures,
           \A r \in Requests : req'[r].step = "pin" => req[r].step = "pin"
    PROVE  LockoutInv'
  <1>1. PastLockout' \subseteq PastLockout
        BY DEF PastLockout
  <1>2. IsFiniteSet(PastLockout) /\ Cardinality(PastLockout) \in Nat
        /\ Cardinality(Requests) \in Nat
        BY PastLockoutFinite
  <1>3. Cardinality(PastLockout') <= Cardinality(PastLockout)
        /\ Cardinality(PastLockout') \in Nat
        BY <1>1, <1>2, FS_Subset, FS_CardinalityType
  <1>4. QED
        BY <1>2, <1>3, BookingAssumption DEF LockoutInv, TypeOK

LEMMA LockoutNext == LockoutInv /\ TypeInv /\ [Next]_vars => LockoutInv'
  <1> SUFFICES ASSUME LockoutInv, TypeInv, [Next]_vars PROVE LockoutInv'
      OBVIOUS
  <1> USE DEF TypeOK, Goto
  <1>0. TypeOK /\ TypeOK'
        BY TypeInvNext DEF TypeInv
  <1>1. ASSUME NEW r \in Requests, NEW h \in Holds, PinBegin(r, h) PROVE LockoutInv'
    <2>1. pinFailures' < MaxPinFailures /\ pinFailures' \in Nat
          BY <1>0, <1>1 DEF PinBegin
    <2>2. PastLockout' \subseteq Requests
          BY DEF PastLockout
    <2>3. /\ Cardinality(PastLockout') <= Cardinality(Requests)
          /\ Cardinality(PastLockout') \in Nat /\ Cardinality(Requests) \in Nat
          BY <2>2, BookingAssumption, FS_Subset, FS_CardinalityType
    <2>4. QED
          BY <1>0, <2>1, <2>3, BookingAssumption DEF LockoutInv
  <1>2. ASSUME NEW r \in Requests, PinRejected(r) PROVE LockoutInv'
    <2>1. /\ r \in PastLockout /\ PastLockout' = PastLockout \ {r}
          /\ pinFailures' = pinFailures + 1
          BY <1>0, <1>2 DEF PinRejected, PastLockout
    <2>2. IsFiniteSet(PastLockout) /\ Cardinality(PastLockout) \in Nat
          /\ Cardinality(Requests) \in Nat
          BY PastLockoutFinite
    <2>3. Cardinality(PastLockout') = Cardinality(PastLockout) - 1
          BY <2>1, <2>2, FS_RemoveElement
    <2>4. QED
          BY <1>0, <2>1, <2>2, <2>3, BookingAssumption DEF LockoutInv
  <1>3. ASSUME NEW r \in Requests, HoldStep(r) PROVE LockoutInv'
        BY <1>0, <1>3, LockoutFrame
        DEF HoldStep, CreateHoldBegin, CreateHoldTx, CreateHoldConflict
  <1>4. ASSUME NEW r \in Requests, VerifyStep(r) PROVE LockoutInv'
    <2>1. ASSUME NEW a \in Appts, ConfirmTx(r, a) PROVE LockoutInv'
          BY <1>0, <2>1, LockoutFrame DEF ConfirmTx
    <2>2. ASSUME NEW h \in Holds, VerifyBegin(r, h) \/ VerifyFindsExpired(r, h)
          PROVE  LockoutInv'
          BY <1>0, <2>2, LockoutFrame DEF VerifyBegin, VerifyFindsExpired
    <2>3. CASE ExpireHold(r) \/ VerifyInvalid(r) \/ ConfirmConflict(r)
          BY <1>0, <2>3, LockoutFrame DEF ExpireHold, VerifyInvalid, ConfirmConflict
    <2>4. QED
          BY <1>4, <2>1, <2>2, <2>3 DEF VerifyStep
  <1>5. ASSUME NEW r \in Requests, PinReadsHold(r) \/ PinChecksSlot(r) PROVE LockoutInv'
    <2>1. pinFailures' = pinFailures /\ req' = [req EXCEPT ![r] = req'[r]]
          /\ req'[r].step # "pin"
          BY <1>0, <1>5 DEF PinReadsHold, PinChecksSlot
    <2>2. QED
          BY <1>0, <2>1, LockoutFrame
  <1>6. ASSUME NEW r \in Requests,
               (\E a \in Appts : PinInserts(r, a)) \/ PinConfirmsHold(r) \/ Abort(r)
        PROVE  LockoutInv'
    <2>1. ASSUME NEW a \in Appts, PinInserts(r, a) PROVE LockoutInv'
          BY <1>0, <2>1, LockoutFrame DEF PinInserts
    <2>2. CASE PinConfirmsHold(r) \/ Abort(r)
          BY <1>0, <2>2, LockoutFrame DEF PinConfirmsHold, Abort
    <2>3. QED
          BY <1>6, <2>1, <2>2
  <1>7. ASSUME NEW a \in Appts, StaffStep(a) PROVE LockoutInv'
    <2>1. UNCHANGED <<pinFailures, req>>
          BY <1>7 DEF StaffStep, StaffCreate, Reschedule, UpdateStatus, VisitMovesOn
    <2>2. QED
          BY <1>0, <2>1, LockoutFrame
  <1>8. CASE Tick \/ UNCHANGED vars
        BY <1>0, <1>8, LockoutFrame DEF Tick, vars
  <1>9. QED
        BY <1>1, <1>2, <1>3, <1>4, <1>5, <1>6, <1>7, <1>8 DEF Next, PinStep

\* Failed PIN attempts exceed the lockout by fewer than there are requests in flight.
THEOREM LockoutBounded == Spec => []PinLockoutBounded
  <1>1. LockoutInv => PinLockoutBounded
    <2> SUFFICES ASSUME LockoutInv PROVE PinLockoutBounded
        OBVIOUS
    <2>1. Cardinality(PastLockout) \in Nat /\ Cardinality(Requests) \in Nat
          BY PastLockoutFinite
    <2>2. QED
          BY <2>1, BookingAssumption DEF LockoutInv, TypeOK, PinLockoutBounded
  <1>2. Init => LockoutInv /\ TypeInv
        BY LockoutInit, TypeInvInit
  <1>3. LockoutInv /\ TypeInv /\ [Next]_vars => (LockoutInv /\ TypeInv)'
        BY LockoutNext, TypeInvNext
  <1>4. QED
        BY <1>1, <1>2, <1>3, PTL DEF Spec
=============================================================================
