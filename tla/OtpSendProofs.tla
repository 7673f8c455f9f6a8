----------------------------- MODULE OtpSendProofs -----------------------------
(***************************************************************************)
(* Proofs about OtpSend, for any number of holds and requests, any limits  *)
(* and windows, and any plan.                                              *)
(***************************************************************************)
EXTENDS OtpSend, FiniteSetTheorems, TLAPS

USE DEF Idle, Block, NoLedger

\* A request that will send has read a count of sends below the limit, has read the
\* clock in the past, and from its rate checks on the month's row is there to charge.
RequestsSound ==
    \A r \in Requests :
        /\ req[r].step \in {"ensureCredits", "openLedger", "limits", "send", "accepted"}
              => req[r].sent < MaxSends
        /\ req[r].step = "limits" => req[r].at <= now
        /\ req[r].step \in {"limits", "send", "accepted", "charge"} => ledger # NoLedger

TypeInv == TypeOK /\ RequestsSound

LEMMA TypeInvInit == Init => TypeInv
  BY OtpAssumption DEF Init, TypeInv, TypeOK, RequestsSound, Request, HoldRow, Ledger

\* What a request carries at each step.
LEMMA RequestShape ==
    ASSUME TypeOK, NEW r \in Requests
    PROVE  /\ req[r].step \in {"ensureCredits", "openLedger", "limits", "send", "accepted",
                             "charge", "log"} => req[r].hold \in Holds
           /\ req[r].step \in {"ensureCredits", "openLedger", "limits", "send", "accepted"}
                 => req[r].sent \in Nat
           /\ req[r].step \in {"limits", "send", "accepted", "charge"} => req[r].used \in Nat
           /\ req[r].step \in {"limits", "accepted"} => req[r].at \in Nat
           /\ req[r].step = "limits" => req[r].check \in 1 .. 3
           /\ req[r].step = "grant" => req[r].read \in Ledger \cup {NoLedger}
           /\ req[r].step \in {"idle", "block", "ensureCredits", "openLedger", "limits",
                              "send", "accepted", "charge", "log", "grant"}
  BY DEF TypeOK, Request

\* A request that moves to a well-formed step keeps the requests sound.
LEMMA RequestMoves ==
    ASSUME TypeInv, NEW r \in Requests, NEW state \in Request, Goto(r, state),
           now' \in Nat, now <= now',
           state.step \in {"ensureCredits", "openLedger", "limits", "send", "accepted"}
              => state.sent < MaxSends,
           state.step = "limits" => state.at <= now,
           state.step \in {"limits", "send", "accepted", "charge"} => ledger' # NoLedger,
           ledger # NoLedger => ledger' # NoLedger
    PROVE  req' \in [Requests -> Request] /\ RequestsSound'
  <1>1. req \in [Requests -> Request] /\ req' = [req EXCEPT ![r] = state]
        BY DEF TypeInv, TypeOK, Goto
  <1>2. req' \in [Requests -> Request]
        BY <1>1
  <1>3. ASSUME NEW q \in Requests
        PROVE  /\ req'[q].step \in {"ensureCredits", "openLedger", "limits", "send", "accepted"}
                     => req'[q].sent < MaxSends
               /\ req'[q].step = "limits" => req'[q].at <= now'
               /\ req'[q].step \in {"limits", "send", "accepted", "charge"}
                     => ledger' # NoLedger
    <2>1. CASE q = r
      <3>1. req'[q] = state
            BY <1>1, <2>1
      <3>2. state.step = "limits" => state.at \in Nat
            BY DEF Request
      <3>3. QED
            BY <3>1, <3>2 DEF TypeInv, TypeOK
    <2>2. CASE q # r
      <3>1. req'[q] = req[q]
            BY <1>1, <2>2
      <3>2. req[q].step = "limits" => req[q].at \in Nat
            BY RequestShape DEF TypeInv
      <3>3. QED
            BY <3>1, <3>2 DEF TypeInv, TypeOK, RequestsSound
    <2>3. QED
          BY <2>1, <2>2
  <1>4. QED
        BY <1>2, <1>3 DEF RequestsSound

LEMMA WithLedgerMoves ==
    ASSUME TypeInv, NEW r \in Requests, NEW row \in Ledger, WithLedger(r, row), now' = now,
           ledger' # NoLedger, req[r].step \in {"ensureCredits", "openLedger"}
    PROVE  req' \in [Requests -> Request] /\ RequestsSound'
  <1> DEFINE limits == [step |-> "limits", hold |-> req[r].hold, sent |-> req[r].sent,
                        used |-> row.used, check |-> 1, at |-> now]
  <1>1. now \in Nat /\ row.used \in Nat /\ Block \in Request
        BY DEF TypeInv, TypeOK, Ledger, Request
  <1>2. req[r].hold \in Holds /\ req[r].sent \in Nat /\ req[r].sent < MaxSends
        BY RequestShape DEF TypeInv, RequestsSound
  <1>3. limits \in Request
        BY <1>1, <1>2 DEF Request
  <1>4. CASE Goto(r, Block)
        BY <1>1, <1>4, RequestMoves
  <1>5. CASE Goto(r, limits)
    <2>1. limits.step = "limits" /\ limits.sent < MaxSends /\ limits.at <= now
          BY <1>1, <1>2
    <2> HIDE DEF limits
    <2>2. QED
          BY <1>1, <1>3, <1>5, <2>1, RequestMoves
  <1>6. QED
        BY <1>4, <1>5 DEF WithLedger

\* The part of TypeOK that the steps of a request leave alone, or change alone.
TablesTyped == /\ now \in Nat /\ dayStart \in 0 .. now
               /\ hold \in [Holds -> HoldRow]
               /\ \A h \in Holds : hold[h].sent <= MaxSends
               /\ ledger \in Ledger \cup {NoLedger}
               /\ log \in Seq([sent : BOOLEAN, at : Nat])
               /\ delivered \in Seq([hold : Holds, at : Nat])
               /\ clean \in [Holds -> BOOLEAN]

LEMMA TypeInvParts ==
    TypeInv <=> TablesTyped /\ req \in [Requests -> Request] /\ RequestsSound
  BY DEF TypeInv, TypeOK, TablesTyped

LEMMA SendTypeInv ==
    ASSUME TypeInv, NEW r \in Requests, SendStep(r)
    PROVE  TablesTyped' /\ req' \in [Requests -> Request] /\ RequestsSound'
  <1> USE OtpAssumption
  <1>1. TablesTyped /\ req \in [Requests -> Request] /\ RequestsSound
        BY TypeInvParts
  <1>2. Idle \in Request /\ Block \in Request
        BY DEF Request
  <1>3. ASSUME NEW h \in Holds, SendBegin(r, h)
        PROVE  TablesTyped' /\ req' \in [Requests -> Request] /\ RequestsSound'
    <2> DEFINE next == [step |-> "ensureCredits", hold |-> h, sent |-> hold[h].sent]
    <2>1. hold[h].sent \in Nat
          BY <1>1 DEF TablesTyped, HoldRow
    <2>2. (clean[h] /\ \A q \in Requests : ~Sending(q, h)) \in BOOLEAN
          OBVIOUS
    <2>3. clean' \in [Holds -> BOOLEAN]
          BY <1>1, <1>3, <2>2 DEF SendBegin, TablesTyped
    <2>4. TablesTyped'
          BY <1>1, <1>3, <2>3 DEF SendBegin, TablesTyped
    <2>5. now' = now /\ now \in Nat /\ ledger' = ledger
          BY <1>1, <1>3 DEF SendBegin, TablesTyped
    <2>6. CASE Goto(r, Block)
          BY <1>2, <2>4, <2>5, <2>6, RequestMoves
    <2>7. CASE ~Refused(h) /\ Goto(r, next)
      <3>1. next \in Request
            BY <2>1 DEF Request
      <3>2. next.step = "ensureCredits" /\ next.sent < MaxSends
            BY <2>1, <2>7 DEF Refused
      <3> HIDE DEF next
      <3>3. QED
            BY <2>4, <2>5, <2>7, <3>1, <3>2, RequestMoves
    <2>8. QED
          BY <1>3, <2>6, <2>7 DEF SendBegin
  <1>4. CASE EnsureCredits(r)
    <2> DEFINE next == [step |-> "openLedger", hold |-> req[r].hold, sent |-> req[r].sent]
    <2>1. req[r].hold \in Holds /\ req[r].sent \in Nat /\ req[r].sent < MaxSends
          BY <1>4, RequestShape DEF EnsureCredits, TypeInv, RequestsSound
    <2>2. TablesTyped' /\ now' = now /\ now \in Nat /\ ledger' = ledger
          BY <1>1, <1>4 DEF EnsureCredits, TablesTyped
    <2>3. CASE ledger # NoLedger
      <3>1. ledger \in Ledger /\ WithLedger(r, ledger) /\ req[r].step = "ensureCredits"
            BY <1>1, <1>4, <2>3 DEF EnsureCredits, TablesTyped
      <3>2. QED
            BY <2>2, <2>3, <3>1, WithLedgerMoves
    <2>4. CASE Goto(r, next)
      <3>1. next \in Request /\ next.step = "openLedger" /\ next.sent < MaxSends
            BY <2>1 DEF Request
      <3> HIDE DEF next
      <3>2. QED
            BY <2>2, <2>4, <3>1, RequestMoves
    <2>5. QED
          BY <1>4, <2>3, <2>4 DEF EnsureCredits
  <1>5. CASE OpenLedger(r)
    <2> DEFINE row == [used |-> 0, granted |-> Included]
    <2>1. row \in Ledger /\ row # NoLedger
          BY DEF Ledger
    <2>2. now' = now /\ now \in Nat /\ req[r].step = "openLedger"
          BY <1>1, <1>5 DEF OpenLedger, TablesTyped
    <2>3. CASE ledger' = row /\ WithLedger(r, row)
      <3>1. TablesTyped'
            BY <1>1, <1>5, <2>1, <2>3 DEF OpenLedger, TablesTyped
      <3> HIDE DEF row
      <3>2. QED
            BY <2>1, <2>2, <2>3, <3>1, WithLedgerMoves
    <2>4. CASE Goto(r, Idle) /\ UNCHANGED ledger
      <3>1. TablesTyped'
            BY <1>1, <1>5, <2>4 DEF OpenLedger, TablesTyped
      <3>2. QED
            BY <1>2, <2>2, <2>4, <3>1, RequestMoves
    <2>5. QED
          BY <1>5, <2>3, <2>4 DEF OpenLedger
  <1>6. CASE CheckLimit(r)
    <2> DEFINE onward == [step |-> "limits", hold |-> req[r].hold, sent |-> req[r].sent,
                          used |-> req[r].used, check |-> req[r].check + 1, at |-> req[r].at]
               send == [step |-> "send", hold |-> req[r].hold, sent |-> req[r].sent,
                        used |-> req[r].used]
    <2>1. /\ req[r].hold \in Holds /\ req[r].sent \in Nat /\ req[r].sent < MaxSends
          /\ req[r].used \in Nat /\ req[r].at \in Nat /\ req[r].at <= now
          /\ req[r].check \in 1 .. 3 /\ ledger # NoLedger
          BY <1>6, RequestShape DEF CheckLimit, TypeInv, RequestsSound
    <2>2. TablesTyped' /\ now' = now /\ now \in Nat /\ ledger' = ledger
          BY <1>1, <1>6 DEF CheckLimit, TablesTyped
    <2>3. CASE Goto(r, Block)
          BY <1>2, <2>2, <2>3, RequestMoves
    <2>4. CASE req[r].check < 3 /\ Goto(r, onward)
      <3>1. onward \in Request
            BY <2>1, <2>4 DEF Request
      <3>2. onward.step = "limits" /\ onward.sent < MaxSends /\ onward.at <= now
            BY <2>1
      <3> HIDE DEF onward
      <3>3. QED
            BY <2>1, <2>2, <2>4, <3>1, <3>2, RequestMoves
    <2>5. CASE Goto(r, send)
      <3>1. send \in Request /\ send.step = "send" /\ send.sent < MaxSends
            BY <2>1 DEF Request
      <3> HIDE DEF send
      <3>2. QED
            BY <2>1, <2>2, <2>5, <3>1, RequestMoves
    <2>6. QED
          BY <1>6, <2>3, <2>4, <2>5 DEF CheckLimit
  <1>7. CASE ProviderAccepts(r)
    <2> DEFINE next == [step |-> "accepted", hold |-> req[r].hold, sent |-> req[r].sent,
                        used |-> req[r].used, at |-> now]
    <2>1. /\ req[r].hold \in Holds /\ req[r].sent \in Nat /\ req[r].sent < MaxSends
          /\ req[r].used \in Nat /\ now \in Nat /\ now' = now
          /\ ledger # NoLedger /\ ledger' = ledger
          BY <1>1, <1>7, RequestShape DEF ProviderAccepts, TypeInv, RequestsSound, TablesTyped
    <2>2. [hold |-> req[r].hold, at |-> now] \in [hold : Holds, at : Nat]
          BY <2>1
    <2>3. TablesTyped'
          BY <1>1, <1>7, <2>2 DEF ProviderAccepts, Deliver, TablesTyped
    <2>4. next \in Request /\ next.step = "accepted" /\ next.sent < MaxSends
          BY <2>1 DEF Request
    <2>5. Goto(r, next)
          BY <1>7 DEF ProviderAccepts
    <2> HIDE DEF next
    <2>6. QED
          BY <2>1, <2>3, <2>4, <2>5, RequestMoves
  <1>8. CASE ProviderRejects(r)
    <2>1. TablesTyped' /\ now' = now /\ now \in Nat /\ ledger' = ledger /\ Goto(r, Block)
          BY <1>1, <1>8 DEF ProviderRejects, TablesTyped
    <2>2. QED
          BY <1>2, <2>1, RequestMoves
  <1>9. CASE ProviderUnknown(r)
    <2>1. req[r].hold \in Holds /\ now \in Nat /\ now' = now /\ ledger' = ledger
          BY <1>1, <1>9, RequestShape DEF ProviderUnknown, TypeInv, TablesTyped
    <2>2. [hold |-> req[r].hold, at |-> now] \in [hold : Holds, at : Nat]
          BY <2>1
    <2>3. TablesTyped' /\ Goto(r, Block)
          BY <1>1, <1>9, <2>2 DEF ProviderUnknown, Deliver, TablesTyped
    <2>4. QED
          BY <1>2, <2>1, <2>3, RequestMoves
  <1>10. CASE RecordOnHold(r)
    <2> DEFINE next == [step |-> "charge", hold |-> req[r].hold, used |-> req[r].used]
    <2>1. /\ req[r].hold \in Holds /\ req[r].sent \in Nat /\ req[r].sent < MaxSends
          /\ req[r].used \in Nat /\ req[r].at \in Nat /\ now \in Nat /\ now' = now
          /\ ledger # NoLedger /\ ledger' = ledger
          BY <1>1, <1>10, RequestShape DEF RecordOnHold, TypeInv, RequestsSound, TablesTyped
    <2> DEFINE row == [held |-> hold[req[r].hold].held, challenge |-> TRUE,
                       sent |-> req[r].sent + 1, cooldownEnds |-> req[r].at + Cooldown,
                       updatedAt |-> req[r].at]
    <2>a. hold[req[r].hold].held \in BOOLEAN /\ Cooldown \in Nat
          BY <1>1, <2>1 DEF TablesTyped, HoldRow
    <2>b. row \in HoldRow /\ row.sent <= MaxSends
          BY <2>1, <2>a DEF HoldRow
    <2>c. hold' = [hold EXCEPT ![req[r].hold] = row]
          BY <1>10 DEF RecordOnHold
    <2>d. UNCHANGED <<dayStart, log, delivered, clean>>
          BY <1>10 DEF RecordOnHold
    <2> HIDE DEF row
    <2>2. TablesTyped'
          BY <1>1, <2>1, <2>b, <2>c, <2>d DEF TablesTyped
    <2>3. next \in Request /\ next.step = "charge"
          BY <2>1 DEF Request
    <2>4. Goto(r, next)
          BY <1>10 DEF RecordOnHold
    <2> HIDE DEF next
    <2>5. QED
          BY <2>1, <2>2, <2>3, <2>4, RequestMoves
  <1>11. CASE Charge(r)
    <2> DEFINE next == [step |-> "log", hold |-> req[r].hold]
    <2>1. /\ req[r].hold \in Holds /\ req[r].used \in Nat /\ now \in Nat /\ now' = now
          /\ ledger # NoLedger
          BY <1>1, <1>11, RequestShape DEF Charge, TypeInv, RequestsSound, TablesTyped
    <2>a. ledger \in Ledger
          BY <1>1, <2>1 DEF TablesTyped
    <2>b. ledger' \in Ledger /\ ledger' # NoLedger
          BY <1>11, <2>1, <2>a DEF Charge, Ledger
    <2>2. TablesTyped'
          BY <1>1, <1>11, <2>b DEF Charge, TablesTyped
    <2>3. next \in Request /\ next.step = "log"
          BY <2>1 DEF Request
    <2>4. Goto(r, next)
          BY <1>11 DEF Charge
    <2> HIDE DEF next
    <2>5. QED
          BY <2>1, <2>2, <2>3, <2>4, <2>b, RequestMoves
  <1>12. ASSUME NEW sent \in BOOLEAN, LogRow(r, sent)
         PROVE  TablesTyped' /\ req' \in [Requests -> Request] /\ RequestsSound'
    <2>1. now \in Nat /\ now' = now /\ ledger' = ledger /\ [sent |-> sent, at |-> now] \in [sent : BOOLEAN, at : Nat]
          BY <1>1, <1>12 DEF LogRow, TablesTyped
    <2>2. TablesTyped' /\ Goto(r, Idle)
          BY <1>1, <1>12, <2>1 DEF LogRow, TablesTyped
    <2>3. QED
          BY <1>2, <2>1, <2>2, RequestMoves
  <1>13. QED
         BY <1>3, <1>4, <1>5, <1>6, <1>7, <1>8, <1>9, <1>10, <1>11, <1>12
            DEF SendStep, LogSent, LogBlocked

\* Every action preserves TypeInv.
LEMMA TypeInvNext == TypeInv /\ [Next]_vars => TypeInv'
  <1> SUFFICES ASSUME TypeInv, [Next]_vars
               PROVE  TablesTyped' /\ req' \in [Requests -> Request] /\ RequestsSound'
      BY TypeInvParts DEF TypeInv, TypeOK, TablesTyped
  <1> USE OtpAssumption
  <1>1. TablesTyped /\ req \in [Requests -> Request] /\ RequestsSound
        BY TypeInvParts
  <1>2. Idle \in Request /\ now \in Nat
        BY <1>1 DEF Request, TablesTyped
  <1>3. ASSUME NEW r \in Requests, SendStep(r)
        PROVE  TablesTyped' /\ req' \in [Requests -> Request] /\ RequestsSound'
        BY <1>3, SendTypeInv
  <1>4. ASSUME NEW r \in Requests, GrantBegin(r)
        PROVE  TablesTyped' /\ req' \in [Requests -> Request] /\ RequestsSound'
    <2> DEFINE next == [step |-> "grant", read |-> ledger]
    <2>1. next \in Request /\ next.step = "grant"
          BY <1>1 DEF Request, TablesTyped
    <2>2. TablesTyped' /\ now' = now /\ ledger' = ledger /\ Goto(r, next)
          BY <1>1, <1>4 DEF GrantBegin, TablesTyped
    <2> HIDE DEF next
    <2>3. QED
          BY <1>2, <2>1, <2>2, RequestMoves
  <1>5. ASSUME NEW r \in Requests, GrantWrite(r)
        PROVE  TablesTyped' /\ req' \in [Requests -> Request] /\ RequestsSound'
    <2>1. req[r].read \in Ledger \cup {NoLedger}
          BY <1>5, RequestShape DEF GrantWrite, TypeInv
    <2>a. ASSUME req[r].read # NoLedger PROVE ledger' \in Ledger
      <3>1. req[r].read \in Ledger
            BY <2>1, <2>a
      <3>2. ledger' = [used |-> req[r].read.used, granted |-> req[r].read.granted + AddonUnits]
            BY <1>5, <2>a DEF GrantWrite
      <3>3. AddonUnits \in Nat
            OBVIOUS
      <3>4. QED
            BY <3>1, <3>2, <3>3 DEF Ledger
    <2>b. ASSUME req[r].read = NoLedger PROVE ledger' \in Ledger
      <3>1. ASSUME ledger = NoLedger PROVE ledger' \in Ledger
        <4>1. ledger' = [used |-> 0, granted |-> AddonUnits]
              BY <1>5, <2>b, <3>1 DEF GrantWrite
        <4>2. AddonUnits \in Nat
              OBVIOUS
        <4>3. QED
              BY <4>1, <4>2 DEF Ledger
      <3>2. ASSUME ledger # NoLedger PROVE ledger' \in Ledger
            BY <1>1, <1>5, <2>b, <3>2 DEF GrantWrite, TablesTyped
      <3>3. QED
            BY <3>1, <3>2
    <2>2. ledger' \in Ledger
          BY <2>a, <2>b
    <2>c. ledger' # NoLedger
          BY <2>2 DEF Ledger
    <2>3. TablesTyped' /\ now' = now /\ Goto(r, Idle)
          BY <1>1, <1>5, <2>2 DEF GrantWrite, TablesTyped
    <2>4. QED
          BY <1>2, <2>3, <2>c, RequestMoves
  <1>6. ASSUME NEW r \in Requests, Abort(r)
        PROVE  TablesTyped' /\ req' \in [Requests -> Request] /\ RequestsSound'
    <2>1. TablesTyped' /\ now' = now /\ ledger' = ledger /\ Goto(r, Idle)
          BY <1>1, <1>6 DEF Abort, TablesTyped
    <2>2. QED
          BY <1>2, <2>1, RequestMoves
  <1>7. ASSUME NEW h \in Holds, VerifyInvalid(h) \/ HoldEnds(h)
        PROVE  TablesTyped' /\ req' \in [Requests -> Request] /\ RequestsSound'
    <2>a. hold[h] \in HoldRow /\ now \in Nat /\ hold[h].sent <= MaxSends
          BY <1>1 DEF TablesTyped
    <2>b. \/ hold' = [hold EXCEPT ![h].updatedAt = now]
          \/ hold' = [hold EXCEPT ![h].held = FALSE]
          BY <1>7 DEF VerifyInvalid, HoldEnds
    <2>c. PICK row \in HoldRow : /\ hold' = [hold EXCEPT ![h] = row]
                                /\ row.sent <= MaxSends
      <3>1. CASE hold' = [hold EXCEPT ![h].updatedAt = now]
        <4>1. [hold[h] EXCEPT !.updatedAt = now] \in HoldRow
              BY <2>a DEF HoldRow
        <4>2. [hold[h] EXCEPT !.updatedAt = now].sent <= MaxSends
              BY <2>a DEF HoldRow
        <4>3. QED
              BY <3>1, <4>1, <4>2
      <3>2. CASE hold' = [hold EXCEPT ![h].held = FALSE]
        <4>1. [hold[h] EXCEPT !.held = FALSE] \in HoldRow
              BY <2>a DEF HoldRow
        <4>2. [hold[h] EXCEPT !.held = FALSE].sent <= MaxSends
              BY <2>a DEF HoldRow
        <4>3. QED
              BY <3>2, <4>1, <4>2
      <3>3. QED
            BY <2>b, <3>1, <3>2
    <2>2. req' = req /\ now' = now /\ UNCHANGED <<dayStart, ledger, log, delivered, clean>>
          BY <1>7 DEF VerifyInvalid, HoldEnds
    <2>1. TablesTyped'
          BY <1>1, <2>c, <2>2 DEF TablesTyped
    <2>3. QED
          BY <1>1, <2>1, <2>2 DEF RequestsSound
  <1>8. CASE Tick
    <2>1. TablesTyped' /\ req' = req /\ now' = now + 1 /\ ledger' = ledger
          BY <1>1, <1>8 DEF Tick, TablesTyped
    <2>2. ASSUME NEW q \in Requests, req[q].step = "limits" PROVE req[q].at <= now'
          BY <1>1, <1>2, <2>1, <2>2, RequestShape DEF TypeInv, RequestsSound
    <2>3. QED
          BY <1>1, <2>1, <2>2 DEF RequestsSound
  <1>9. CASE UNCHANGED vars
        BY <1>1, <1>9 DEF vars, TablesTyped, RequestsSound
  <1>10. QED
         BY <1>3, <1>4, <1>5, <1>6, <1>7, <1>8, <1>9 DEF Next

\* Types, and the limit of a hold: whatever overlaps, no request writes a count of
\* sends beyond OTP_MAX_SENDS_PER_HOLD.
THEOREM TypeCorrect == Spec => []TypeOK
  <1>1. Spec => []TypeInv
        BY TypeInvInit, TypeInvNext, PTL DEF Spec
  <1>2. QED
        BY <1>1, PTL DEF TypeInv

LEMMA TypeInvariant == Spec => []TypeInv
  BY TypeInvInit, TypeInvNext, PTL DEF Spec
-----------------------------------------------------------------------------
(* No credit is charged for a code the provider did not take. *)

\* Every use of credits that is stored, or that a request will write back, is covered
\* by codes delivered so far.
Covered(used) == used <= Len(delivered)

ChargeInv ==
    /\ Covered(ledger.used)
    /\ \A r \in Requests :
          /\ req[r].step \in {"limits", "send"} => Covered(req[r].used)
          /\ req[r].step \in {"accepted", "charge"} => Covered(req[r].used + 1)
          /\ req[r].step = "grant" => Covered(req[r].read.used)

LEMMA UsedIsInteger ==
    ASSUME TypeInv
    PROVE  /\ ledger.used \in Int /\ Len(delivered) \in Nat
           /\ \A r \in Requests :
                 /\ req[r].step \in {"limits", "send", "accepted", "charge"} => req[r].used \in Int
                 /\ req[r].step = "grant" => req[r].read.used \in Int
  <1>1. ledger.used \in Int
        BY DEF TypeInv, TypeOK, Ledger
  <1>2. Len(delivered) \in Nat
        BY DEF TypeInv, TypeOK
  <1>3. ASSUME NEW r \in Requests, req[r].step = "grant" PROVE req[r].read.used \in Int
    <2>1. req[r].read \in Ledger \cup {NoLedger}
          BY <1>3, RequestShape DEF TypeInv
    <2>2. QED
          BY <2>1 DEF Ledger
  <1>4. ASSUME NEW r \in Requests, req[r].step \in {"limits", "send", "accepted", "charge"}
        PROVE  req[r].used \in Int
        BY <1>4, RequestShape DEF TypeInv
  <1>5. QED
        BY <1>1, <1>2, <1>3, <1>4

\* One request moves; no code is taken back; what it and the ledger now hold is covered.
LEMMA ChargeMoves ==
    ASSUME TypeInv, ChargeInv, NEW r \in Requests, NEW state, Goto(r, state),
           Len(delivered') \in Nat, Len(delivered) <= Len(delivered'), Covered(ledger.used)',
           state.step \in {"limits", "send"} => state.used <= Len(delivered'),
           state.step \in {"accepted", "charge"} => state.used + 1 <= Len(delivered'),
           state.step = "grant" => state.read.used <= Len(delivered')
    PROVE  ChargeInv'
  <1>1. \A q \in Requests : req'[q] = IF q = r THEN state ELSE req[q]
        BY DEF TypeInv, TypeOK, Goto
  <1>2. ASSUME NEW q \in Requests, q # r
        PROVE  /\ req[q].step \in {"limits", "send"} => req[q].used <= Len(delivered')
               /\ req[q].step \in {"accepted", "charge"} => req[q].used + 1 <= Len(delivered')
               /\ req[q].step = "grant" => req[q].read.used <= Len(delivered')
        BY <1>2, UsedIsInteger DEF ChargeInv, Covered
  <1>3. QED
        BY <1>1, <1>2 DEF ChargeInv, Covered

LEMMA ChargeInvInit == Init => ChargeInv
  BY DEF Init, ChargeInv, Covered

LEMMA ChargeInvNext == TypeInv /\ TypeInv' /\ ChargeInv /\ [Next]_vars => ChargeInv'
  <1> SUFFICES ASSUME TypeInv, TypeInv', ChargeInv, [Next]_vars PROVE ChargeInv'
      OBVIOUS
  <1>1. /\ ledger.used \in Int /\ Len(delivered) \in Nat /\ Len(delivered') \in Nat
        /\ ledger.used <= Len(delivered)
        /\ delivered \in Seq([hold : Holds, at : Nat])
        BY UsedIsInteger DEF ChargeInv, Covered, TypeInv, TypeOK
  <1>2. ASSUME NEW r \in Requests, NEW row, row.used <= Len(delivered), WithLedger(r, row),
               UNCHANGED delivered, Covered(ledger.used)'
        PROVE  ChargeInv'
    <2>1. CASE Goto(r, Block)
          BY <1>1, <1>2, <2>1, ChargeMoves
    <2>2. CASE Goto(r, [step |-> "limits", hold |-> req[r].hold, sent |-> req[r].sent,
                        used |-> row.used, check |-> 1, at |-> now])
          BY <1>1, <1>2, <2>2, ChargeMoves
    <2>3. QED
          BY <1>2, <2>1, <2>2 DEF WithLedger
  <1>3. ASSUME NEW r \in Requests, SendStep(r) PROVE ChargeInv'
    <2>1. ASSUME NEW h \in Holds, SendBegin(r, h) PROVE ChargeInv'
      <3>1. UNCHANGED <<ledger, delivered>>
            BY <2>1 DEF SendBegin
      <3>2. CASE Goto(r, Block)
            BY <1>1, <3>1, <3>2, ChargeMoves DEF Covered
      <3>3. CASE Goto(r, [step |-> "ensureCredits", hold |-> h, sent |-> hold[h].sent])
            BY <1>1, <3>1, <3>3, ChargeMoves DEF Covered
      <3>4. QED
            BY <2>1, <3>2, <3>3 DEF SendBegin
    <2>2. CASE EnsureCredits(r)
      <3>1. UNCHANGED <<ledger, delivered>>
            BY <2>2 DEF EnsureCredits
      <3>2. CASE WithLedger(r, ledger)
            BY <1>1, <1>2, <3>1, <3>2 DEF Covered
      <3>3. CASE Goto(r, [step |-> "openLedger", hold |-> req[r].hold, sent |-> req[r].sent])
            BY <1>1, <3>1, <3>3, ChargeMoves DEF Covered
      <3>4. QED
            BY <2>2, <3>2, <3>3 DEF EnsureCredits
    <2>3. CASE OpenLedger(r)
      <3> DEFINE row == [used |-> 0, granted |-> Included]
      <3>1. delivered' = delivered
            BY <2>3 DEF OpenLedger
      <3>2. CASE ledger' = row /\ WithLedger(r, row)
        <4>1. row.used = 0
              OBVIOUS
        <4> HIDE DEF row
        <4>2. QED
              BY <1>1, <1>2, <3>1, <3>2, <4>1 DEF Covered
      <3>3. CASE Goto(r, Idle) /\ UNCHANGED ledger
            BY <1>1, <3>1, <3>3, ChargeMoves DEF Covered
      <3>4. QED
            BY <2>3, <3>2, <3>3 DEF OpenLedger
    <2>4. CASE CheckLimit(r)
      <3>1. UNCHANGED <<ledger, delivered>> /\ req[r].used <= Len(delivered)
            BY <2>4 DEF CheckLimit, ChargeInv, Covered
      <3>2. CASE Goto(r, Block)
            BY <1>1, <3>1, <3>2, ChargeMoves DEF Covered
      <3>3. CASE Goto(r, [step |-> "limits", hold |-> req[r].hold, sent |-> req[r].sent,
                          used |-> req[r].used, check |-> req[r].check + 1,
                          at |-> req[r].at])
            BY <1>1, <3>1, <3>3, ChargeMoves DEF Covered
      <3>4. CASE Goto(r, [step |-> "send", hold |-> req[r].hold, sent |-> req[r].sent,
                          used |-> req[r].used])
            BY <1>1, <3>1, <3>4, ChargeMoves DEF Covered
      <3>5. QED
            BY <2>4, <3>2, <3>3, <3>4 DEF CheckLimit
    <2>5. CASE ProviderAccepts(r)
      <3>1. /\ ledger' = ledger /\ Len(delivered') = Len(delivered) + 1
            /\ req[r].used \in Int /\ req[r].used <= Len(delivered)
            /\ Goto(r, [step |-> "accepted", hold |-> req[r].hold, sent |-> req[r].sent,
                        used |-> req[r].used, at |-> now])
            BY <1>1, <2>5, UsedIsInteger DEF ProviderAccepts, Deliver, ChargeInv, Covered
      <3> DEFINE state == [step |-> "accepted", hold |-> req[r].hold, sent |-> req[r].sent,
                           used |-> req[r].used, at |-> now]
      <3>2. /\ state.step = "accepted" /\ state.used = req[r].used
            /\ Goto(r, state)
            BY <3>1
      <3>3. /\ Len(delivered') \in Nat /\ Len(delivered) <= Len(delivered')
            /\ Covered(ledger.used)'
            /\ req[r].used + 1 <= Len(delivered')
            BY <1>1, <3>1 DEF Covered
      <3> HIDE DEF state
      <3>4. QED
            BY <3>2, <3>3, ChargeMoves
    <2>6. CASE ProviderRejects(r)
      <3>1. UNCHANGED <<ledger, delivered>> /\ Goto(r, Block)
            BY <2>6 DEF ProviderRejects
      <3>2. QED
            BY <1>1, <3>1, ChargeMoves DEF Covered
    <2>7. CASE ProviderUnknown(r)
      <3>1. /\ ledger' = ledger /\ Len(delivered') = Len(delivered) + 1
            /\ Goto(r, Block)
            BY <1>1, <2>7 DEF ProviderUnknown, Deliver
      <3>2. QED
            BY <1>1, <3>1, ChargeMoves DEF Covered
    <2>8. CASE RecordOnHold(r)
      <3>1. /\ UNCHANGED <<ledger, delivered>>
            /\ req[r].used + 1 <= Len(delivered)
            /\ Goto(r, [step |-> "charge", hold |-> req[r].hold, used |-> req[r].used])
            BY <2>8 DEF RecordOnHold, ChargeInv, Covered
      <3>2. QED
            BY <1>1, <3>1, ChargeMoves DEF Covered
    <2>9. CASE Charge(r)
      <3>1. /\ delivered' = delivered /\ req[r].used + 1 <= Len(delivered)
            /\ ledger' = [ledger EXCEPT !.used = req[r].used + 1]
            /\ Goto(r, [step |-> "log", hold |-> req[r].hold])
            BY <2>9 DEF Charge, ChargeInv, Covered
      <3>2. ledger'.used = req[r].used + 1
            BY <3>1 DEF TypeInv, TypeOK, Ledger
      <3>3. QED
            BY <1>1, <3>1, <3>2, ChargeMoves DEF Covered
    <2>10. CASE LogSent(r) \/ LogBlocked(r)
      <3>1. UNCHANGED <<ledger, delivered>> /\ Goto(r, Idle)
            BY <2>10 DEF LogSent, LogBlocked, LogRow
      <3>2. QED
            BY <1>1, <3>1, ChargeMoves DEF Covered
    <2>11. QED
          BY <1>3, <2>1, <2>2, <2>3, <2>4, <2>5, <2>6, <2>7, <2>8, <2>9, <2>10 DEF SendStep
  <1>4. ASSUME NEW r \in Requests, GrantBegin(r) PROVE ChargeInv'
    <2>1. UNCHANGED <<ledger, delivered>> /\ Goto(r, [step |-> "grant", read |-> ledger])
          BY <1>4 DEF GrantBegin
    <2>2. QED
          BY <1>1, <2>1, ChargeMoves DEF Covered
  <1>5. ASSUME NEW r \in Requests, GrantWrite(r) PROVE ChargeInv'
    <2>1. delivered' = delivered /\ Goto(r, Idle) /\ req[r].read.used <= Len(delivered)
          BY <1>5 DEF GrantWrite, ChargeInv, Covered
    <2>2. ledger'.used \in {req[r].read.used, 0, ledger.used}
          BY <1>5 DEF GrantWrite
    <2>3. QED
          BY <1>1, <2>1, <2>2, ChargeMoves DEF Covered
  <1>6. ASSUME NEW r \in Requests, Abort(r) PROVE ChargeInv'
    <2>1. UNCHANGED <<ledger, delivered>> /\ Goto(r, Idle)
          BY <1>6 DEF Abort
    <2>2. QED
          BY <1>1, <2>1, ChargeMoves DEF Covered
  <1>7. ASSUME UNCHANGED <<ledger, req, delivered>> PROVE ChargeInv'
        BY <1>7 DEF ChargeInv, Covered
  <1>8. QED
        BY <1>3, <1>4, <1>5, <1>6, <1>7 DEF Next, VerifyInvalid, HoldEnds, Tick, vars

\* The customer is never charged for a code the provider did not take, whatever stale
\* use of credits a send or an add-on grant writes back.
THEOREM ChargesCovered == Spec => []NeverOvercharged
  <1>1. ChargeInv => NeverOvercharged
        BY DEF ChargeInv, Covered, NeverOvercharged
  <1>2. QED
        BY <1>1, TypeInvariant, ChargeInvInit, ChargeInvNext, PTL DEF Spec
-----------------------------------------------------------------------------
(* The rate checks: sends of the window, and requests that have passed the check and *)
(* may still log one, are together bounded while the query reads every row.          *)

Index(c) == IF c = "mobile" THEN 1 ELSE IF c = "ip" THEN 2 ELSE 3

PastCheck(c, r) == \/ req[r].step = "limits" /\ req[r].check > Index(c)
                   \/ req[r].step \in {"send", "accepted", "charge", "log"}

Past(c) == {r \in Requests : PastCheck(c, r)}

InWindow(c) == SentSince(WindowStart(c, now))

Rolling(c) == Unread(c) = 0 =>
    Cardinality(InWindow(c)) + Cardinality(Past(c)) < Limit[c] + Cardinality(Requests)

RollingInv == \A c \in CheckNames : Rolling(c)

LEMMA IndexOfCheck ==
    /\ \A c \in CheckNames : Index(c) \in 1 .. 3 /\ Checks[Index(c)] = c
    /\ \A i \in 1 .. 3 : Checks[i] \in CheckNames /\ Index(Checks[i]) = i
  <1>1. Checks[1] = "mobile" /\ Checks[2] = "ip" /\ Checks[3] = "business"
        BY DEF Checks
  <1>2. Index("mobile") = 1 /\ Index("ip") = 2 /\ Index("business") = 3
        BY <1>1 DEF Index
  <1>3. QED
        BY <1>1, <1>2 DEF CheckNames

LEMMA LimitsTyped ==
    \A c \in CheckNames : Limit[c] \in Nat /\ Window[c] \in Nat /\ Slack[c] \in Nat
  <1>1. /\ Limit \in [CheckNames -> Nat]
        /\ Window \in [CheckNames -> Nat]
        /\ Slack \in [CheckNames -> Nat]
        BY OtpAssumption
  <1>2. QED
        BY <1>1

LEMMA LogTyped ==
    ASSUME TypeInv
    PROVE  /\ Len(log) \in Nat /\ DOMAIN log = 1 .. Len(log)
           /\ \A i \in DOMAIN log : log[i].at \in Nat
           /\ now \in Nat /\ dayStart \in Nat
  <1>1. /\ log \in Seq([sent : BOOLEAN, at : Nat])
        /\ now \in Nat /\ dayStart \in 0 .. now
        BY DEF TypeInv, TypeOK
  <1> DEFINE Row == [sent : BOOLEAN, at : Nat]
  <1>2. log \in Seq(Row)
        BY <1>1
  <1>3. \A row \in Row : row.at \in Nat
        OBVIOUS
  <1> HIDE DEF Row
  <1>4. Len(log) \in Nat /\ DOMAIN log = 1 .. Len(log)
        BY <1>2
  <1>5. \A i \in 1 .. Len(log) : log[i] \in Row
        BY <1>2
  <1>6. QED
        BY <1>1, <1>3, <1>4, <1>5

\* The sets that are counted are finite.
LEMMA RollingFinite ==
    ASSUME TypeInv, NEW c \in CheckNames
    PROVE  /\ Limit[c] \in Nat /\ Cardinality(Requests) \in Nat
           /\ Cardinality(Requests) # 0
           /\ \A t : /\ IsFiniteSet(SentSince(t))
                    /\ Cardinality(SentSince(t)) \in Nat
           /\ IsFiniteSet(Past(c)) /\ Cardinality(Past(c)) \in Nat
           /\ Cardinality(Past(c)) <= Cardinality(Requests)
  <1>1. Limit[c] \in Nat
        BY OtpAssumption
  <1>2. Cardinality(Requests) \in Nat /\ Cardinality(Requests) # 0
        BY OtpAssumption, FS_EmptySet, FS_CardinalityType
  <1>3. ASSUME NEW t PROVE IsFiniteSet(SentSince(t)) /\ Cardinality(SentSince(t)) \in Nat
    <2>1. DOMAIN log = 1 .. Len(log) /\ Len(log) \in Nat
          BY DEF TypeInv, TypeOK
    <2>2. IsFiniteSet(1 .. Len(log))
          BY <2>1, FS_Interval
    <2>3. SentSince(t) \subseteq 1 .. Len(log)
          BY <2>1 DEF SentSince
    <2>4. QED
          BY <2>2, <2>3, FS_Subset, FS_CardinalityType
  <1>4. Past(c) \subseteq Requests
        BY DEF Past
  <1>5. QED
        BY <1>1, <1>2, <1>3, <1>4, OtpAssumption, FS_Subset, FS_CardinalityType

\* No send is added, no request passes the check: the bound stays.
LEMMA RollingKept ==
    ASSUME TypeInv, TypeInv', NEW c \in CheckNames, Rolling(c), Len(log) <= Len(log'),
           InWindow(c)' \subseteq InWindow(c), Past(c)' \subseteq Past(c)
    PROVE  Rolling(c)'
  <1>1. Unread(c)' = 0 => Unread(c) = 0
    <2>1. Limit[c] \in Nat /\ Slack[c] \in Nat /\ Len(log) \in Nat /\ Len(log') \in Nat
      <3>1. Len(log') \in Nat
            BY DEF TypeInv, TypeOK
      <3>2. QED
            BY <3>1, LimitsTyped, LogTyped
    <2>2. QED
          BY <2>1 DEF Unread
  <1>2. /\ Cardinality(InWindow(c)') <= Cardinality(InWindow(c))
        /\ Cardinality(Past(c)') <= Cardinality(Past(c))
        /\ Cardinality(InWindow(c)') \in Nat /\ Cardinality(Past(c)') \in Nat
        BY RollingFinite, FS_Subset, FS_CardinalityType DEF InWindow
  <1>3. QED
        BY <1>1, <1>2, RollingFinite DEF Rolling, InWindow

\* The clock only shortens the windows.
LEMMA WindowMoves ==
    ASSUME TypeInv, TypeInv', NEW c \in CheckNames, log' = log, now <= now',
           dayStart <= dayStart'
    PROVE  InWindow(c)' \subseteq InWindow(c)
  <1>1. /\ now \in Nat /\ now' \in Nat /\ dayStart \in Nat /\ dayStart' \in Nat
        /\ Window[c] \in Nat /\ \A i \in DOMAIN log : log[i].at \in Nat
    <2>1. now' \in Nat /\ dayStart' \in Nat
          BY DEF TypeInv, TypeOK
    <2>2. QED
          BY <2>1, LimitsTyped, LogTyped
  <1>2. /\ WindowStart(c, now) \in Int /\ WindowStart(c, now)' \in Int
        /\ WindowStart(c, now) <= WindowStart(c, now)'
        BY <1>1 DEF WindowStart
  <1>3. QED
        BY <1>1, <1>2 DEF InWindow, SentSince

\* One request moves on with the log as it was: every check but the one that it has
\* just passed, if any, keeps its bound.
LEMMA RollingMoves ==
    ASSUME TypeInv, TypeInv', RollingInv, NEW r \in Requests, NEW state, Goto(r, state),
           UNCHANGED <<log, now, dayStart>>, NEW c \in CheckNames,
           \/ state.step \in {"idle", "block", "ensureCredits", "openLedger", "grant"}
           \/ state.step = "limits" /\ state.check = 1
           \/ PastCheck(c, r)
    PROVE  Rolling(c)'
  <1>1. \A q \in Requests : req'[q] = IF q = r THEN state ELSE req[q]
        BY DEF TypeInv, TypeOK, Goto
  <1>2. Past(c)' \subseteq Past(c)
        BY <1>1, IndexOfCheck DEF Past, PastCheck
  <1>3. InWindow(c)' \subseteq InWindow(c) /\ Len(log) <= Len(log')
    <2>1. now \in Nat /\ dayStart \in Nat /\ Len(log) \in Nat
          BY DEF TypeInv, TypeOK
    <2>2. QED
          BY <2>1, WindowMoves
  <1>4. QED
        BY <1>2, <1>3, RollingKept DEF RollingInv

\* Passing a check that read every row: there was room for one more, and no more
\* requests than there are can be past it.
LEMMA RollingPasses ==
    ASSUME TypeInv, TypeInv', NEW r \in Requests, NEW c \in CheckNames,
           UNCHANGED <<log, now, dayStart>>, req[r].step = "limits",
           NEW seen \in Seen(c, req[r].at), seen < Limit[c]
    PROVE  Rolling(c)'
  <1> SUFFICES ASSUME Unread(c) = 0
               PROVE  Cardinality(InWindow(c)') + Cardinality(Past(c)')
                         < Limit[c] + Cardinality(Requests)
      BY DEF Rolling, Unread
  <1> DEFINE start == WindowStart(c, req[r].at)
  <1>1. /\ now \in Nat /\ dayStart \in Nat /\ req[r].at \in Nat /\ req[r].at <= now
        /\ Window[c] \in Nat /\ \A i \in DOMAIN log : log[i].at \in Nat
    <2>1. req[r].at \in Nat /\ req[r].at <= now
          BY RequestShape DEF TypeInv, RequestsSound
    <2>2. QED
          BY <2>1, LimitsTyped, LogTyped
  <1>2. start \in Int /\ WindowStart(c, now) \in Int /\ start <= WindowStart(c, now)
        BY <1>1 DEF WindowStart
  <1>3. InWindow(c)' \subseteq SentSince(start)
    <2>1. InWindow(c)' = InWindow(c)
          BY DEF InWindow, SentSince, WindowStart
    <2>2. QED
          BY <1>1, <1>2, <2>1 DEF InWindow, SentSince
  <1>4. IsFiniteSet(SentSince(start)) /\ Cardinality(SentSince(start)) \in Nat
        BY RollingFinite
  <1>5. /\ Cardinality(InWindow(c)') <= Cardinality(SentSince(start))
        /\ Cardinality(InWindow(c)') \in Nat
        BY <1>3, <1>4, FS_Subset, FS_CardinalityType
  <1>6. Cardinality(SentSince(start)) < Limit[c]
    <2>1. seen \in Nat /\ Cardinality(SentSince(start)) - seen <= Unread(c)
          BY <1>4 DEF Seen
    <2>2. Limit[c] \in Nat
          BY RollingFinite
    <2>3. QED
          BY <1>4, <2>1, <2>2
  <1>7. /\ Cardinality(Past(c)') \in Nat
        /\ Cardinality(Past(c)') <= Cardinality(Requests)
    <2>1. Past(c)' \subseteq Requests
          BY DEF Past
    <2>2. QED
          BY <2>1, OtpAssumption, FS_Subset, FS_CardinalityType
  <1> HIDE DEF start
  <1>8. QED
        BY <1>4, <1>5, <1>6, <1>7, RollingFinite

\* A send is logged by a request that is past every check.
LEMMA RollingLogs ==
    ASSUME TypeInv, TypeInv', RollingInv, NEW r \in Requests, NEW c \in CheckNames,
           LogSent(r)
    PROVE  Rolling(c)'
  <1>1. /\ req[r].step = "log" /\ log' = Append(log, [sent |-> TRUE, at |-> now])
        /\ UNCHANGED <<now, dayStart>> /\ req' = [req EXCEPT ![r] = Idle]
        BY DEF LogSent, LogRow, Goto
  <1>2. Past(c)' = Past(c) \ {r} /\ r \in Past(c)
    <2>1. \A q \in Requests : req'[q] = IF q = r THEN Idle ELSE req[q]
          BY <1>1 DEF TypeInv, TypeOK
    <2>2. QED
          BY <1>1, <2>1 DEF Past, PastCheck
  <1>3. Cardinality(Past(c)') = Cardinality(Past(c)) - 1
        BY <1>2, RollingFinite, FS_RemoveElement
  <1>4. InWindow(c)' \subseteq InWindow(c) \cup {Len(log) + 1}
    <2>1. /\ DOMAIN log' = DOMAIN log \cup {Len(log) + 1}
          /\ \A i \in DOMAIN log : log'[i] = log[i]
          BY <1>1 DEF TypeInv, TypeOK
    <2>2. WindowStart(c, now)' = WindowStart(c, now)
          BY <1>1 DEF WindowStart
    <2>3. QED
          BY <2>1, <2>2 DEF InWindow, SentSince
  <1>5. IsFiniteSet(InWindow(c)) /\ Cardinality(InWindow(c)) \in Nat
        BY RollingFinite DEF InWindow
  <1>6. /\ IsFiniteSet(InWindow(c) \cup {Len(log) + 1})
        /\ Cardinality(InWindow(c) \cup {Len(log) + 1}) \in Nat
        /\ Cardinality(InWindow(c) \cup {Len(log) + 1}) <= Cardinality(InWindow(c)) + 1
    <2>1. \/ Cardinality(InWindow(c) \cup {Len(log) + 1}) = Cardinality(InWindow(c))
          \/ Cardinality(InWindow(c) \cup {Len(log) + 1}) = Cardinality(InWindow(c)) + 1
          BY <1>5, FS_AddElement
    <2>2. IsFiniteSet(InWindow(c) \cup {Len(log) + 1})
          BY <1>5, FS_AddElement
    <2>3. QED
          BY <1>5, <2>1, <2>2
  <1>7. /\ Cardinality(InWindow(c)') <= Cardinality(InWindow(c)) + 1
        /\ Cardinality(InWindow(c)') \in Nat
    <2>1. /\ Cardinality(InWindow(c)') <= Cardinality(InWindow(c) \cup {Len(log) + 1})
          /\ Cardinality(InWindow(c)') \in Nat
          BY <1>4, <1>6, FS_Subset, FS_CardinalityType
    <2>2. QED
          BY <1>5, <1>6, <2>1
  <1>8. Unread(c)' = 0 => Unread(c) = 0
    <2>1. /\ Limit[c] \in Nat /\ Slack[c] \in Nat /\ Len(log) \in Nat
          /\ Len(log') = Len(log) + 1
          BY <1>1, OtpAssumption DEF TypeInv, TypeOK
    <2>2. QED
          BY <2>1 DEF Unread
  <1>9. QED
        BY <1>3, <1>5, <1>7, <1>8, RollingFinite DEF Rolling, RollingInv

LEMMA RollingInit == Init => RollingInv
  <1> SUFFICES ASSUME Init, NEW c \in CheckNames PROVE Rolling(c)
      BY DEF RollingInv
  <1>1. InWindow(c) = {} /\ Past(c) = {}
        BY DEF Init, InWindow, SentSince, Past, PastCheck
  <1>2. Cardinality(InWindow(c)) = 0 /\ Cardinality(Past(c)) = 0
        BY <1>1, FS_EmptySet
  <1>3. Limit[c] \in Nat /\ Cardinality(Requests) \in Nat /\ Cardinality(Requests) # 0
        BY TypeInvInit, RollingFinite
  <1>4. QED
        BY <1>2, <1>3 DEF Rolling

LEMMA RollingNext == TypeInv /\ TypeInv' /\ RollingInv /\ [Next]_vars => RollingInv'
  <1> SUFFICES ASSUME TypeInv, TypeInv', RollingInv, [Next]_vars, NEW c \in CheckNames
               PROVE  Rolling(c)'
      BY DEF RollingInv
  <1>1. ASSUME NEW r \in Requests, SendStep(r) PROVE Rolling(c)'
    <2>1. ASSUME NEW h \in Holds, SendBegin(r, h) PROVE Rolling(c)'
      <3>1. UNCHANGED <<log, now, dayStart>>
            BY <2>1 DEF SendBegin
      <3>2. CASE Goto(r, Block)
            BY <3>1, <3>2, RollingMoves
      <3>3. CASE Goto(r, [step |-> "ensureCredits", hold |-> h, sent |-> hold[h].sent])
            BY <3>1, <3>3, RollingMoves
      <3>4. QED
            BY <2>1, <3>2, <3>3 DEF SendBegin
    <2>2. ASSUME NEW row, WithLedger(r, row), UNCHANGED <<log, now, dayStart>> PROVE Rolling(c)'
      <3>1. CASE Goto(r, Block)
            BY <2>2, <3>1, RollingMoves
      <3>2. CASE Goto(r, [step |-> "limits", hold |-> req[r].hold, sent |-> req[r].sent,
                          used |-> row.used, check |-> 1, at |-> now])
            BY <2>2, <3>2, RollingMoves
      <3>3. QED
            BY <2>2, <3>1, <3>2 DEF WithLedger
    <2>3. CASE EnsureCredits(r)
      <3>1. UNCHANGED <<log, now, dayStart>>
            BY <2>3 DEF EnsureCredits
      <3>2. CASE Goto(r, [step |-> "openLedger", hold |-> req[r].hold, sent |-> req[r].sent])
            BY <3>1, <3>2, RollingMoves
      <3>3. QED
            BY <2>2, <2>3, <3>1, <3>2 DEF EnsureCredits
    <2>4. CASE OpenLedger(r)
      <3>1. UNCHANGED <<log, now, dayStart>>
            BY <2>4 DEF OpenLedger
      <3>2. CASE Goto(r, Idle)
            BY <3>1, <3>2, RollingMoves
      <3>3. QED
            BY <2>2, <2>4, <3>1, <3>2 DEF OpenLedger
    <2>5. CASE CheckLimit(r)
      <3> DEFINE onward == [step |-> "limits", hold |-> req[r].hold, sent |-> req[r].sent,
                            used |-> req[r].used, check |-> req[r].check + 1,
                            at |-> req[r].at]
                 send == [step |-> "send", hold |-> req[r].hold, sent |-> req[r].sent,
                          used |-> req[r].used]
                 d == Checks[req[r].check]
      <3>1. UNCHANGED <<log, now, dayStart>> /\ req[r].step = "limits"
            BY <2>5 DEF CheckLimit
      <3>2. req[r].check \in 1 .. 3 /\ d \in CheckNames /\ Index(d) = req[r].check
            BY <3>1, RequestShape, IndexOfCheck DEF TypeInv
      <3>3. CASE Goto(r, Block)
            BY <3>1, <3>3, RollingMoves
      <3>4. ASSUME NEW seen \in Seen(d, req[r].at), seen < Limit[d],
                   \/ req[r].check < 3 /\ Goto(r, onward)
                   \/ req[r].check = 3 /\ Goto(r, send)
            PROVE  Rolling(c)'
        <4>1. CASE c = d
              BY <3>1, <3>4, <4>1, RollingPasses
        <4>2. CASE c # d
          <5>1. /\ \A q \in Requests : q # r => req'[q] = req[q]
                /\ \/ req[r].check < 3 /\ req'[r] = onward
                   \/ req[r].check = 3 /\ req'[r] = send
                BY <3>4 DEF Goto, TypeInv, TypeOK
          <5>2. Index(c) \in 1 .. 3 /\ Index(c) # req[r].check
                BY <3>2, <4>2, IndexOfCheck
          <5>3. PastCheck(c, r)' => PastCheck(c, r)
                BY <3>1, <3>2, <5>1, <5>2 DEF PastCheck
          <5>4. Past(c)' \subseteq Past(c)
                BY <5>1, <5>3 DEF Past, PastCheck
          <5>5. InWindow(c)' \subseteq InWindow(c) /\ Len(log) <= Len(log')
            <6>1. now \in Nat /\ dayStart \in Nat /\ Len(log) \in Nat
                  BY DEF TypeInv, TypeOK
            <6>2. QED
                  BY <3>1, <6>1, WindowMoves
          <5>6. QED
                BY <5>4, <5>5, RollingKept DEF RollingInv
        <4>3. QED
              BY <4>1, <4>2
      <3>5. QED
            BY <2>5, <3>3, <3>4 DEF CheckLimit
    <2>6. CASE ProviderAccepts(r)
      <3>1. /\ UNCHANGED <<log, now, dayStart>> /\ PastCheck(c, r)
            /\ Goto(r, [step |-> "accepted", hold |-> req[r].hold, sent |-> req[r].sent,
                        used |-> req[r].used, at |-> now])
            BY <2>6 DEF ProviderAccepts, PastCheck
      <3>2. QED
            BY <3>1, RollingMoves
    <2>7. CASE ProviderRejects(r) \/ ProviderUnknown(r)
      <3>1. UNCHANGED <<log, now, dayStart>> /\ Goto(r, Block)
            BY <2>7 DEF ProviderRejects, ProviderUnknown
      <3>2. QED
            BY <3>1, RollingMoves
    <2>8. CASE RecordOnHold(r)
      <3>1. /\ UNCHANGED <<log, now, dayStart>> /\ PastCheck(c, r)
            /\ Goto(r, [step |-> "charge", hold |-> req[r].hold, used |-> req[r].used])
            BY <2>8 DEF RecordOnHold, PastCheck
      <3>2. QED
            BY <3>1, RollingMoves
    <2>9. CASE Charge(r)
      <3>1. /\ UNCHANGED <<log, now, dayStart>> /\ PastCheck(c, r)
            /\ Goto(r, [step |-> "log", hold |-> req[r].hold])
            BY <2>9 DEF Charge, PastCheck
      <3>2. QED
            BY <3>1, RollingMoves
    <2>10. CASE LogSent(r)
           BY <2>10, RollingLogs
    <2>11. CASE LogBlocked(r)
      <3>1. /\ log' = Append(log, [sent |-> FALSE, at |-> now]) /\ UNCHANGED <<now, dayStart>>
            /\ req' = [req EXCEPT ![r] = Idle]
            BY <2>11 DEF LogBlocked, LogRow, Goto
      <3>2. Past(c)' \subseteq Past(c)
        <4>1. \A q \in Requests : req'[q] = IF q = r THEN Idle ELSE req[q]
              BY <3>1 DEF TypeInv, TypeOK
        <4>2. QED
              BY <4>1 DEF Past, PastCheck
      <3>3. /\ Len(log') = Len(log) + 1 /\ Len(log) \in Nat
            /\ DOMAIN log' = DOMAIN log \cup {Len(log) + 1}
            /\ \A i \in DOMAIN log : log'[i] = log[i]
            /\ ~log'[Len(log) + 1].sent
            BY <3>1 DEF TypeInv, TypeOK
      <3>4. InWindow(c)' \subseteq InWindow(c)
        <4>1. WindowStart(c, now)' = WindowStart(c, now)
              BY <3>1 DEF WindowStart
        <4>2. QED
              BY <3>3, <4>1 DEF InWindow, SentSince
      <3>5. QED
            BY <3>2, <3>3, <3>4, RollingKept DEF RollingInv
    <2>12. QED
           BY <1>1, <2>1, <2>3, <2>4, <2>5, <2>6, <2>7, <2>8, <2>9, <2>10, <2>11
              DEF SendStep
  <1>2. ASSUME NEW r \in Requests, GrantBegin(r) \/ GrantWrite(r) \/ Abort(r) PROVE Rolling(c)'
    <2>1. /\ UNCHANGED <<log, now, dayStart>>
          /\ Goto(r, [step |-> "grant", read |-> ledger]) \/ Goto(r, Idle)
          BY <1>2 DEF GrantBegin, GrantWrite, Abort
    <2>2. QED
          BY <2>1, RollingMoves
  <1>3. ASSUME UNCHANGED <<log, req>>, now <= now', dayStart <= dayStart' PROVE Rolling(c)'
    <2>1. Past(c)' = Past(c) /\ Len(log) <= Len(log')
      <3>1. Len(log) \in Nat
            BY DEF TypeInv, TypeOK
      <3>2. QED
            BY <1>3, <3>1 DEF Past, PastCheck
    <2>2. QED
          BY <1>3, <2>1, WindowMoves, RollingKept DEF RollingInv
  <1>4. CASE \/ \E h \in Holds : VerifyInvalid(h) \/ HoldEnds(h)
             \/ Tick
             \/ UNCHANGED vars
    <2>1. now \in Nat /\ dayStart \in 0 .. now
          BY DEF TypeInv, TypeOK
    <2>2. UNCHANGED <<log, req>> /\ now <= now' /\ dayStart <= dayStart'
          BY <1>4, <2>1 DEF VerifyInvalid, HoldEnds, Tick, vars
    <2>3. QED
          BY <1>3, <2>2
  <1>5. QED
        BY <1>1, <1>2, <1>4 DEF Next

\* The limits per mobile, per address and per business and day: while the queries that
\* enforce them still read every row, overlapping requests exceed each by fewer sends
\* than there are requests in flight.
THEOREM RollingLimits == Spec => []RollingLimitBounded
  <1>1. TypeInv /\ RollingInv => RollingLimitBounded
    <2> SUFFICES ASSUME TypeInv, RollingInv, NEW c \in CheckNames, Unread(c) = 0
                 PROVE  Cardinality(SentSince(WindowStart(c, now)))
                           < Limit[c] + Cardinality(Requests)
        BY DEF RollingLimitBounded
    <2>1. QED
          BY RollingFinite DEF RollingInv, Rolling, InWindow
  <1>2. QED
        BY <1>1, TypeInvariant, RollingInit, RollingNext, PTL DEF Spec
-----------------------------------------------------------------------------
(* While the sends of a hold come one after another, the count and the cooldown *)
(* that its next send reads are those of the codes that really went out.        *)

\* The request has read hold h and has not asked the provider yet.
WillSend(r, h) == /\ req[r].step \in {"ensureCredits", "openLedger", "limits", "send"}
                  /\ req[r].hold = h

\* The code has gone out and is not on the hold yet.
JustSent(r, h) == req[r].step = "accepted" /\ req[r].hold = h

Spaced(h) == \A i, j \in SendsOf(h) :
                i < j => delivered[j].at - delivered[i].at >= Cooldown

OneAfterAnother(h) ==
    /\ \A p, q \in Requests : Sending(p, h) /\ Sending(q, h) => p = q
    /\ \A r \in Requests : WillSend(r, h) => /\ req[r].sent = hold[h].sent
                                            /\ hold[h].cooldownEnds <= now
    /\ \A r \in Requests : JustSent(r, h) =>
          /\ req[r].sent = hold[h].sent
          /\ Cardinality(SendsOf(h)) = hold[h].sent + 1
          /\ \A i \in SendsOf(h) : delivered[i].at <= req[r].at
    /\ (\A r \in Requests : ~JustSent(r, h)) =>
          /\ Cardinality(SendsOf(h)) = hold[h].sent
          /\ \A i \in SendsOf(h) : delivered[i].at + Cooldown <= hold[h].cooldownEnds
    /\ Spaced(h)

SequenceInv == \A h \in Holds : clean[h] => OneAfterAnother(h)

LEMMA DeliveredTyped ==
    ASSUME TypeInv, NEW h \in Holds
    PROVE  /\ Len(delivered) \in Nat /\ DOMAIN delivered = 1 .. Len(delivered)
           /\ \A i \in DOMAIN delivered : delivered[i].at \in Nat
           /\ hold[h].sent \in Nat /\ hold[h].cooldownEnds \in Nat
           /\ hold[h].sent <= MaxSends /\ now \in Nat /\ Cooldown \in Nat
           /\ IsFiniteSet(SendsOf(h))
  <1> DEFINE Row == [hold : Holds, at : Nat]
  <1>1. delivered \in Seq(Row)
        BY DEF TypeInv, TypeOK
  <1>2. \A row \in Row : row.at \in Nat
        OBVIOUS
  <1>3. /\ hold[h].sent \in Nat /\ hold[h].cooldownEnds \in Nat
        /\ hold[h].sent <= MaxSends /\ now \in Nat
        BY DEF TypeInv, TypeOK, HoldRow
  <1>4. Cooldown \in Nat
        BY OtpAssumption
  <1> HIDE DEF Row
  <1>5. Len(delivered) \in Nat /\ DOMAIN delivered = 1 .. Len(delivered)
        BY <1>1
  <1>6. \A i \in 1 .. Len(delivered) : delivered[i] \in Row
        BY <1>1
  <1>7. IsFiniteSet(SendsOf(h))
    <2>1. SendsOf(h) \subseteq 1 .. Len(delivered)
          BY <1>5 DEF SendsOf
    <2>2. IsFiniteSet(1 .. Len(delivered))
          BY <1>5, FS_Interval
    <2>3. QED
          BY <2>1, <2>2, FS_Subset
  <1>8. QED
        BY <1>2, <1>3, <1>4, <1>5, <1>6, <1>7

\* Nothing is sent on hold h, and no request comes to work on it: the sequence stays.
LEMMA SequenceKept ==
    ASSUME TypeInv, NEW h \in Holds, clean[h] => OneAfterAnother(h), clean'[h] => clean[h],
           now' \in Nat, now <= now',
           hold'[h].sent = hold[h].sent, hold'[h].cooldownEnds = hold[h].cooldownEnds,
           SendsOf(h)' = SendsOf(h), \A i \in SendsOf(h) : delivered'[i] = delivered[i],
           \A q \in Requests :
              /\ Sending(q, h)' => Sending(q, h)
              /\ WillSend(q, h)' => WillSend(q, h) /\ req'[q].sent = req[q].sent
              /\ JustSent(q, h)' => req'[q] = req[q]
              /\ JustSent(q, h) /\ clean'[h] => JustSent(q, h)'
    PROVE  clean'[h] => OneAfterAnother(h)'
  <1> SUFFICES ASSUME clean'[h] PROVE OneAfterAnother(h)'
      OBVIOUS
  <1>1. OneAfterAnother(h)
        OBVIOUS
  <1>2. \A p, q \in Requests : Sending(p, h)' /\ Sending(q, h)' => p = q
        BY <1>1 DEF OneAfterAnother
  <1>3. \A r \in Requests : WillSend(r, h)' => /\ req'[r].sent = hold'[h].sent
                                              /\ hold'[h].cooldownEnds <= now'
        BY <1>1, DeliveredTyped DEF OneAfterAnother
  <1>4. \A r \in Requests : JustSent(r, h)' => JustSent(r, h) /\ req'[r] = req[r]
        BY DEF JustSent
  <1>5. \A r \in Requests : JustSent(r, h)' =>
           /\ req'[r].sent = hold'[h].sent
           /\ Cardinality(SendsOf(h)') = hold'[h].sent + 1
           /\ \A i \in SendsOf(h)' : delivered'[i].at <= req'[r].at
        BY <1>1, <1>4 DEF OneAfterAnother
  <1>6. (\A r \in Requests : ~JustSent(r, h)') =>
           /\ Cardinality(SendsOf(h)') = hold'[h].sent
           /\ \A i \in SendsOf(h)' : delivered'[i].at + Cooldown <= hold'[h].cooldownEnds
        BY <1>1 DEF OneAfterAnother
  <1>7. Spaced(h)'
        BY <1>1 DEF OneAfterAnother, Spaced
  <1>8. QED
        BY <1>2, <1>3, <1>5, <1>6, <1>7 DEF OneAfterAnother

\* One request moves on, not to a send: at most it stops working on its hold.
LEMMA SequenceMoves ==
    ASSUME TypeInv, SequenceInv, NEW r \in Requests, NEW state, Goto(r, state),
           UNCHANGED <<now, hold, delivered>>, NEW h \in Holds,
           clean'[h] => clean[h],
           \/ state.step \in {"idle", "block", "grant"} /\ ~(JustSent(r, h) /\ clean'[h])
           \/ /\ state.step \in {"openLedger", "limits", "send"}
              /\ req[r].step \in {"ensureCredits", "openLedger", "limits"}
              /\ state.hold = req[r].hold /\ state.sent = req[r].sent
           \/ state.step = "log" /\ req[r].step = "charge" /\ state.hold = req[r].hold
    PROVE  clean'[h] => OneAfterAnother(h)'
  <1>1. \A q \in Requests : req'[q] = IF q = r THEN state ELSE req[q]
        BY DEF TypeInv, TypeOK, Goto
  <1>2. SendsOf(h)' = SendsOf(h) /\ \A i \in SendsOf(h) : delivered'[i] = delivered[i]
        BY DEF SendsOf
  <1>3. ASSUME NEW q \in Requests
        PROVE  /\ Sending(q, h)' => Sending(q, h)
               /\ WillSend(q, h)' => WillSend(q, h) /\ req'[q].sent = req[q].sent
               /\ JustSent(q, h)' => req'[q] = req[q]
               /\ JustSent(q, h) /\ clean'[h] => JustSent(q, h)'
        BY <1>1 DEF Sending, WillSend, JustSent
  <1>4. now \in Nat
        BY DeliveredTyped
  <1>5. QED
        BY <1>2, <1>3, <1>4, SequenceKept DEF SequenceInv

LEMMA Appended ==
    ASSUME NEW S, NEW s \in Seq(S), NEW e \in S
    PROVE  /\ DOMAIN Append(s, e) = DOMAIN s \cup {Len(s) + 1}
           /\ Append(s, e)[Len(s) + 1] = e
           /\ Len(s) + 1 \notin DOMAIN s
           /\ \A i \in DOMAIN s : Append(s, e)[i] = s[i] /\ i < Len(s) + 1
  OBVIOUS

\* The provider takes the code of a request, or may have taken it: other holds are not
\* concerned.
LEMMA DeliverElsewhere ==
    ASSUME TypeInv, SequenceInv, NEW r \in Requests, NEW state, Goto(r, state),
           req[r].step = "send", Deliver(req[r].hold), UNCHANGED <<now, hold>>,
           NEW h \in Holds, h # req[r].hold, clean'[h] = clean[h],
           state = Block \/ (state.step = "accepted" /\ state.hold = req[r].hold)
    PROVE  clean'[h] => OneAfterAnother(h)'
  <1>1. \A q \in Requests : req'[q] = IF q = r THEN state ELSE req[q]
        BY DEF TypeInv, TypeOK, Goto
  <1>2. /\ delivered' = Append(delivered, [hold |-> req[r].hold, at |-> now])
        /\ delivered \in Seq([hold : Holds, at : Nat])
        /\ [hold |-> req[r].hold, at |-> now] \in [hold : Holds, at : Nat]
    <2>1. req[r].hold \in Holds /\ now \in Nat
          BY RequestShape, DeliveredTyped DEF TypeInv
    <2>2. QED
          BY <2>1 DEF Deliver, TypeInv, TypeOK
  <1>3. /\ DOMAIN delivered' = DOMAIN delivered \cup {Len(delivered) + 1}
        /\ delivered'[Len(delivered) + 1].hold = req[r].hold
        /\ \A i \in DOMAIN delivered : delivered'[i] = delivered[i]
        BY <1>2, Appended
  <1>4. SendsOf(h)' = SendsOf(h) /\ \A i \in SendsOf(h) : delivered'[i] = delivered[i]
        BY <1>3 DEF SendsOf
  <1>5. ASSUME NEW q \in Requests
        PROVE  /\ Sending(q, h)' => Sending(q, h)
               /\ WillSend(q, h)' => WillSend(q, h) /\ req'[q].sent = req[q].sent
               /\ JustSent(q, h)' => req'[q] = req[q]
               /\ JustSent(q, h) /\ clean'[h] => JustSent(q, h)'
        BY <1>1 DEF Sending, WillSend, JustSent
  <1>6. now \in Nat
        BY DeliveredTyped
  <1>7. clean[h] => OneAfterAnother(h)
        BY DEF SequenceInv
  <1>8. /\ now' \in Nat /\ now <= now' /\ hold'[h].sent = hold[h].sent
        /\ hold'[h].cooldownEnds = hold[h].cooldownEnds /\ (clean'[h] => clean[h])
        BY <1>6
  <1>9. QED
        BY <1>4, <1>5, <1>7, <1>8, SequenceKept

\* The provider takes the code of the only request that works on the hold.
LEMMA DeliverHere ==
    ASSUME TypeInv, SequenceInv, NEW r \in Requests, ProviderAccepts(r),
           NEW h \in Holds, h = req[r].hold, clean[h]
    PROVE  OneAfterAnother(h)'
  <1> DEFINE new == Len(delivered) + 1
  <1>1. /\ req[r].step = "send" /\ UNCHANGED <<now, hold>>
        /\ req' = [req EXCEPT ![r] = [step |-> "accepted", hold |-> h, sent |-> req[r].sent,
                                      used |-> req[r].used, at |-> now]]
        /\ delivered' = Append(delivered, [hold |-> h, at |-> now])
        BY DEF ProviderAccepts, Deliver, Goto
  <1>2. /\ \A q \in Requests : q # r => req'[q] = req[q]
        /\ req'[r].step = "accepted" /\ req'[r].hold = h /\ req'[r].sent = req[r].sent
        /\ req'[r].at = now
        BY <1>1 DEF TypeInv, TypeOK
  <1>3. OneAfterAnother(h) /\ WillSend(r, h) /\ Sending(r, h)
        BY <1>1 DEF SequenceInv, WillSend, Sending
  <1>4. \A q \in Requests : Sending(q, h) => q = r
        BY <1>3 DEF OneAfterAnother
  <1>5. \A q \in Requests : ~JustSent(q, h)
    <2>1. \A q \in Requests : JustSent(q, h) => Sending(q, h)
          BY DEF JustSent, Sending
    <2>2. ~JustSent(r, h)
          BY <1>1 DEF JustSent
    <2>3. QED
          BY <1>4, <2>1, <2>2
  <1>6. /\ Cardinality(SendsOf(h)) = hold[h].sent /\ req[r].sent = hold[h].sent
        /\ hold[h].cooldownEnds <= now
        /\ \A i \in SendsOf(h) : delivered[i].at + Cooldown <= hold[h].cooldownEnds
        /\ Spaced(h)
        BY <1>3, <1>5 DEF OneAfterAnother
  <1>7. /\ DOMAIN delivered' = DOMAIN delivered \cup {new}
        /\ new \notin DOMAIN delivered /\ \A i \in DOMAIN delivered : i < new
        /\ delivered'[new].hold = h /\ delivered'[new].at = now
        /\ \A i \in DOMAIN delivered : delivered'[i] = delivered[i]
    <2>1. delivered \in Seq([hold : Holds, at : Nat]) /\ now \in Nat
          BY DEF TypeInv, TypeOK
    <2>2. [hold |-> h, at |-> now] \in [hold : Holds, at : Nat]
          BY <2>1
    <2>3. QED
          BY <1>1, <2>1, <2>2, Appended
  <1> HIDE DEF new
  <1>8. SendsOf(h)' = SendsOf(h) \cup {new} /\ new \notin SendsOf(h)
        BY <1>7 DEF SendsOf
  <1>9. Cardinality(SendsOf(h)') = hold[h].sent + 1
    <2>1. IsFiniteSet(SendsOf(h))
          BY DeliveredTyped
    <2>2. Cardinality(SendsOf(h) \cup {new}) = Cardinality(SendsOf(h)) + 1
          BY <1>8, <2>1, FS_AddElement
    <2>3. QED
          BY <1>6, <1>8, <2>2
  <1>10. \A i \in SendsOf(h) : /\ i \in DOMAIN delivered /\ i < new
                              /\ delivered'[i] = delivered[i]
                              /\ delivered[i].at \in Nat
                              /\ delivered[i].at + Cooldown <= now
    <2>1. \A i \in SendsOf(h) : i \in DOMAIN delivered
          BY DEF SendsOf
    <2>2. QED
          BY <1>6, <1>7, <2>1, DeliveredTyped
  <1>11. \A i \in SendsOf(h)' : delivered'[i].at <= now
         BY <1>7, <1>8, <1>10, DeliveredTyped
  <1>12. Spaced(h)'
    <2> SUFFICES ASSUME NEW i \in SendsOf(h)', NEW j \in SendsOf(h)', i < j
                 PROVE  delivered'[j].at - delivered'[i].at >= Cooldown
        BY DEF Spaced
    <2>1. CASE j \in SendsOf(h)
      <3>1. i \in SendsOf(h)
        <4>1. new \in Nat /\ j \in Nat /\ j < new
              BY <1>10, <2>1, DeliveredTyped DEF new
        <4>2. QED
              BY <1>8, <4>1
      <3>2. QED
            BY <1>6, <1>10, <2>1, <3>1 DEF Spaced
    <2>2. CASE j = new
      <3>1. i \in SendsOf(h)
        <4>1. new \in Nat
              BY DeliveredTyped DEF new
        <4>2. QED
              BY <1>8, <2>2, <4>1
      <3>2. QED
            BY <1>7, <1>10, <2>2, <3>1, DeliveredTyped
    <2>3. QED
          BY <1>8, <2>1, <2>2
  <1>13. \A q \in Requests : Sending(q, h)' => q = r
         BY <1>2, <1>4 DEF Sending
  <1>14. \A q \in Requests : ~WillSend(q, h)'
    <2>1. \A q \in Requests : WillSend(q, h)' => Sending(q, h)'
          BY DEF WillSend, Sending
    <2>2. ~WillSend(r, h)'
          BY <1>2 DEF WillSend
    <2>3. QED
          BY <1>13, <2>1, <2>2
  <1>15. JustSent(r, h)'
         BY <1>2 DEF JustSent
  <1>16. \A q \in Requests : JustSent(q, h)' => q = r
    <2>1. \A q \in Requests : JustSent(q, h)' => Sending(q, h)'
          BY DEF JustSent, Sending
    <2>2. QED
          BY <1>13, <2>1
  <1>17. hold' = hold
         BY <1>1
  <1>18. QED
         BY <1>2, <1>6, <1>9, <1>11, <1>12, <1>13, <1>14, <1>15, <1>16, <1>17
            DEF OneAfterAnother

\* The hold takes the code of the only request that works on it.
LEMMA RecordHere ==
    ASSUME TypeInv, SequenceInv, NEW r \in Requests, RecordOnHold(r),
           NEW h \in Holds, h = req[r].hold, clean[h]
    PROVE  OneAfterAnother(h)'
  <1>1. /\ req[r].step = "accepted" /\ UNCHANGED <<now, delivered>>
        /\ req' = [req EXCEPT ![r] = [step |-> "charge", hold |-> h, used |-> req[r].used]]
        /\ hold'[h].sent = req[r].sent + 1 /\ hold'[h].cooldownEnds = req[r].at + Cooldown
        /\ req[r].at \in Nat
        BY RequestShape DEF RecordOnHold, Goto, TypeInv, TypeOK
  <1>2. /\ \A q \in Requests : q # r => req'[q] = req[q]
        /\ req'[r].step = "charge" /\ req'[r].hold = h
        BY <1>1 DEF TypeInv, TypeOK
  <1>3. OneAfterAnother(h) /\ JustSent(r, h) /\ Sending(r, h)
        BY <1>1 DEF SequenceInv, JustSent, Sending
  <1>4. /\ \A q \in Requests : Sending(q, h) => q = r
        /\ req[r].sent = hold[h].sent /\ Cardinality(SendsOf(h)) = hold[h].sent + 1
        /\ \A i \in SendsOf(h) : delivered[i].at <= req[r].at
        /\ Spaced(h)
        BY <1>3 DEF OneAfterAnother
  <1>5. /\ \A q \in Requests : Sending(q, h)' => q = r
        /\ \A q \in Requests : ~WillSend(q, h)'
        /\ \A q \in Requests : ~JustSent(q, h)'
    <2>1. \A q \in Requests : q # r => ~Sending(q, h)'
          BY <1>2, <1>4 DEF Sending
    <2>2. ~WillSend(r, h)' /\ ~JustSent(r, h)'
          BY <1>2 DEF WillSend, JustSent
    <2>3. \A q \in Requests : WillSend(q, h)' \/ JustSent(q, h)' => Sending(q, h)'
          BY DEF WillSend, JustSent, Sending
    <2>4. QED
          BY <2>1, <2>2, <2>3
  <1>6. /\ SendsOf(h)' = SendsOf(h) /\ Spaced(h)'
        /\ \A i \in SendsOf(h) : delivered[i].at \in Nat
        BY <1>1, <1>4, DeliveredTyped DEF SendsOf, Spaced
  <1>7. \A i \in SendsOf(h)' : delivered'[i].at + Cooldown <= hold'[h].cooldownEnds
        BY <1>1, <1>4, <1>6, DeliveredTyped
  <1>8. Cardinality(SendsOf(h)') = hold'[h].sent
        BY <1>1, <1>4, <1>6
  <1>9. QED
        BY <1>5, <1>6, <1>7, <1>8 DEF OneAfterAnother

\* A request starts on the hold: it is alone, or the hold's sends are no longer one
\* after another.
LEMMA BeginHere ==
    ASSUME TypeInv, SequenceInv, NEW r \in Requests, NEW h \in Holds, SendBegin(r, h),
           clean'[h], ~Refused(h),
           Goto(r, [step |-> "ensureCredits", hold |-> h, sent |-> hold[h].sent])
    PROVE  OneAfterAnother(h)'
  <1>1. UNCHANGED <<now, hold, delivered>> /\ hold[h].cooldownEnds <= now
    <2>1. UNCHANGED <<now, hold, delivered>>
          BY DEF SendBegin
    <2>2. QED
          BY <2>1, DeliveredTyped DEF Refused
  <1>2. clean[h] /\ \A q \in Requests : ~Sending(q, h)
    <2>1. clean'[h] = (clean[h] /\ \A q \in Requests : ~Sending(q, h))
          BY DEF SendBegin, TypeInv, TypeOK
    <2>2. QED
          BY <2>1
  <1>3. /\ \A q \in Requests : q # r => req'[q] = req[q]
        /\ req'[r].step = "ensureCredits" /\ req'[r].hold = h
        /\ req'[r].sent = hold[h].sent
        BY DEF TypeInv, TypeOK, Goto
  <1>4. /\ \A q \in Requests : Sending(q, h)' => q = r
        /\ \A q \in Requests : WillSend(q, h)' => q = r
        /\ \A q \in Requests : ~JustSent(q, h)'
    <2>1. \A q \in Requests : q # r => ~Sending(q, h)'
          BY <1>2, <1>3 DEF Sending
    <2>2. ~JustSent(r, h)'
          BY <1>3 DEF JustSent
    <2>3. \A q \in Requests : WillSend(q, h)' \/ JustSent(q, h)' => Sending(q, h)'
          BY DEF WillSend, JustSent, Sending
    <2>4. QED
          BY <2>1, <2>2, <2>3
  <1>5. \A q \in Requests : ~JustSent(q, h)
        BY <1>2 DEF JustSent, Sending
  <1>6. /\ Cardinality(SendsOf(h)) = hold[h].sent
        /\ \A i \in SendsOf(h) : delivered[i].at + Cooldown <= hold[h].cooldownEnds
        /\ Spaced(h)
        BY <1>2, <1>5 DEF SequenceInv, OneAfterAnother
  <1>7. SendsOf(h)' = SendsOf(h) /\ Spaced(h)'
        BY <1>1, <1>6 DEF SendsOf, Spaced
  <1>8. QED
        BY <1>1, <1>3, <1>4, <1>6, <1>7 DEF OneAfterAnother

\* A step that leaves hold h and its requests alone.
LEMMA SequenceStays ==
    ASSUME TypeInv, SequenceInv, NEW h \in Holds, clean'[h] => clean[h],
           now' \in Nat, now <= now', delivered' = delivered,
           hold'[h].sent = hold[h].sent, hold'[h].cooldownEnds = hold[h].cooldownEnds,
           \A q \in Requests : Sending(q, h)' => req'[q] = req[q],
           \A q \in Requests : JustSent(q, h) => req'[q] = req[q]
    PROVE  clean'[h] => OneAfterAnother(h)'
  <1>1. SendsOf(h)' = SendsOf(h) /\ \A i \in SendsOf(h) : delivered'[i] = delivered[i]
        BY DEF SendsOf
  <1>2. ASSUME NEW q \in Requests
        PROVE  /\ Sending(q, h)' => Sending(q, h)
               /\ WillSend(q, h)' => WillSend(q, h) /\ req'[q].sent = req[q].sent
               /\ JustSent(q, h)' => req'[q] = req[q]
               /\ JustSent(q, h) /\ clean'[h] => JustSent(q, h)'
        BY DEF Sending, WillSend, JustSent
  <1>3. QED
        BY <1>1, <1>2, SequenceKept DEF SequenceInv

LEMMA SequenceInit == Init => SequenceInv
  <1> SUFFICES ASSUME Init, NEW h \in Holds PROVE OneAfterAnother(h)
      BY DEF SequenceInv
  <1>1. SendsOf(h) = {} /\ Cardinality(SendsOf(h)) = 0
    <2>1. SendsOf(h) = {}
          BY DEF Init, SendsOf
    <2>2. QED
          BY <2>1, FS_EmptySet
  <1>2. \A q \in Requests : ~Sending(q, h) /\ ~WillSend(q, h) /\ ~JustSent(q, h)
        BY DEF Init, Sending, WillSend, JustSent
  <1>3. hold[h].sent = 0
        BY DEF Init
  <1>4. QED
        BY <1>1, <1>2, <1>3 DEF OneAfterAnother, Spaced

LEMMA SequenceNext == TypeInv /\ TypeInv' /\ SequenceInv /\ [Next]_vars => SequenceInv'
  <1> SUFFICES ASSUME TypeInv, TypeInv', SequenceInv, [Next]_vars, NEW h \in Holds
               PROVE  clean'[h] => OneAfterAnother(h)'
      BY DEF SequenceInv
  <1>1. now \in Nat /\ now' \in Nat
        BY DEF TypeInv, TypeOK
  <1>2. ASSUME NEW r \in Requests, SendStep(r) PROVE clean'[h] => OneAfterAnother(h)'
    <2>1. ASSUME NEW g \in Holds, SendBegin(r, g) PROVE clean'[h] => OneAfterAnother(h)'
      <3>1. /\ UNCHANGED <<now, hold, delivered>> /\ req[r] = Idle
            /\ clean' = [clean EXCEPT ![g] = @ /\ \A q \in Requests : ~Sending(q, g)]
            BY <2>1 DEF SendBegin
      <3>2. clean'[h] => clean[h]
            BY <3>1 DEF TypeInv, TypeOK
      <3>3. CASE Goto(r, Block)
        <4>1. ~JustSent(r, h)
              BY <3>1 DEF JustSent
        <4>2. QED
              BY <3>1, <3>2, <3>3, <4>1, SequenceMoves
      <3>4. CASE /\ ~Refused(g)
                 /\ Goto(r, [step |-> "ensureCredits", hold |-> g, sent |-> hold[g].sent])
        <4>1. CASE g = h
              BY <2>1, <3>4, <4>1, BeginHere
        <4>2. CASE g # h
          <5>1. \A q \in Requests : Sending(q, h)' => req'[q] = req[q]
                BY <3>4, <4>2 DEF Goto, Sending, TypeInv, TypeOK
          <5>2. \A q \in Requests : JustSent(q, h) => req'[q] = req[q]
                BY <3>1, <3>4 DEF Goto, JustSent, TypeInv, TypeOK
          <5>3. QED
                BY <1>1, <3>1, <3>2, <5>1, <5>2, SequenceStays
        <4>3. QED
              BY <4>1, <4>2
      <3>5. QED
            BY <2>1, <3>3, <3>4 DEF SendBegin
    <2>2. ASSUME NEW row, WithLedger(r, row), UNCHANGED <<now, hold, delivered, clean>>,
                 req[r].step \in {"ensureCredits", "openLedger"}
          PROVE  clean'[h] => OneAfterAnother(h)'
      <3>1. CASE Goto(r, Block)
            BY <2>2, <3>1, SequenceMoves DEF JustSent
      <3>2. CASE Goto(r, [step |-> "limits", hold |-> req[r].hold, sent |-> req[r].sent,
                          used |-> row.used, check |-> 1, at |-> now])
            BY <2>2, <3>2, SequenceMoves
      <3>3. QED
            BY <2>2, <3>1, <3>2 DEF WithLedger
    <2>3. CASE EnsureCredits(r)
      <3>1. UNCHANGED <<now, hold, delivered, clean>> /\ req[r].step = "ensureCredits"
            BY <2>3 DEF EnsureCredits
      <3>2. CASE Goto(r, [step |-> "openLedger", hold |-> req[r].hold, sent |-> req[r].sent])
            BY <3>1, <3>2, SequenceMoves
      <3>3. QED
            BY <2>2, <2>3, <3>1, <3>2 DEF EnsureCredits
    <2>4. CASE OpenLedger(r)
      <3>1. UNCHANGED <<now, hold, delivered, clean>> /\ req[r].step = "openLedger"
            BY <2>4 DEF OpenLedger
      <3>2. CASE Goto(r, Idle)
            BY <3>1, <3>2, SequenceMoves DEF JustSent
      <3>3. QED
            BY <2>2, <2>4, <3>1, <3>2 DEF OpenLedger
    <2>5. CASE CheckLimit(r)
      <3>1. UNCHANGED <<now, hold, delivered, clean>> /\ req[r].step = "limits"
            BY <2>5 DEF CheckLimit
      <3>2. CASE Goto(r, Block)
            BY <3>1, <3>2, SequenceMoves DEF JustSent
      <3>3. CASE Goto(r, [step |-> "limits", hold |-> req[r].hold, sent |-> req[r].sent,
                          used |-> req[r].used, check |-> req[r].check + 1,
                          at |-> req[r].at])
            BY <3>1, <3>3, SequenceMoves
      <3>4. CASE Goto(r, [step |-> "send", hold |-> req[r].hold, sent |-> req[r].sent,
                          used |-> req[r].used])
            BY <3>1, <3>4, SequenceMoves
      <3>5. QED
            BY <2>5, <3>2, <3>3, <3>4 DEF CheckLimit
    <2>6. CASE ProviderAccepts(r)
      <3>1. /\ UNCHANGED <<now, hold, clean>> /\ req[r].step = "send" /\ Deliver(req[r].hold)
            /\ Goto(r, [step |-> "accepted", hold |-> req[r].hold, sent |-> req[r].sent,
                        used |-> req[r].used, at |-> now])
            BY <2>6 DEF ProviderAccepts
      <3>2. CASE h = req[r].hold
            BY <2>6, <3>1, <3>2, DeliverHere
      <3>3. CASE h # req[r].hold
            BY <3>1, <3>3, DeliverElsewhere
      <3>4. QED
            BY <3>2, <3>3
    <2>7. CASE ProviderRejects(r)
      <3>1. UNCHANGED <<now, hold, delivered, clean>> /\ req[r].step = "send" /\ Goto(r, Block)
            BY <2>7 DEF ProviderRejects
      <3>2. QED
            BY <3>1, SequenceMoves DEF JustSent
    <2>8. CASE ProviderUnknown(r)
      <3>1. /\ UNCHANGED <<now, hold>> /\ req[r].step = "send" /\ Deliver(req[r].hold)
            /\ Goto(r, Block) /\ clean' = [clean EXCEPT ![req[r].hold] = FALSE]
            BY <2>8 DEF ProviderUnknown
      <3>2. CASE h = req[r].hold
            BY <3>1, <3>2 DEF TypeInv, TypeOK
      <3>3. CASE h # req[r].hold
        <4>1. clean'[h] = clean[h]
              BY <3>1, <3>3 DEF TypeInv, TypeOK
        <4>2. QED
              BY <3>1, <3>3, <4>1, DeliverElsewhere
      <3>4. QED
            BY <3>2, <3>3
    <2>9. CASE RecordOnHold(r)
      <3>1. CASE h = req[r].hold
            BY <2>9, <3>1, RecordHere DEF RecordOnHold
      <3>2. CASE h # req[r].hold
        <4>1. /\ UNCHANGED <<now, delivered, clean>> /\ hold'[h] = hold[h]
              /\ req[r].step = "accepted"
              /\ req' = [req EXCEPT ![r] = [step |-> "charge", hold |-> req[r].hold,
                                            used |-> req[r].used]]
              BY <2>9, <3>2 DEF RecordOnHold, Goto, TypeInv, TypeOK
        <4>2. /\ \A q \in Requests : Sending(q, h)' => req'[q] = req[q]
              /\ \A q \in Requests : JustSent(q, h) => req'[q] = req[q]
              BY <3>2, <4>1 DEF Sending, JustSent, TypeInv, TypeOK
        <4>3. QED
              BY <1>1, <4>1, <4>2, SequenceStays
      <3>3. QED
            BY <3>1, <3>2
    <2>10. CASE Charge(r)
      <3>1. /\ UNCHANGED <<now, hold, delivered, clean>> /\ req[r].step = "charge"
            /\ Goto(r, [step |-> "log", hold |-> req[r].hold])
            BY <2>10 DEF Charge
      <3>2. QED
            BY <3>1, SequenceMoves
    <2>11. CASE LogSent(r) \/ LogBlocked(r)
      <3>1. /\ UNCHANGED <<now, hold, delivered, clean>> /\ req[r].step \in {"log", "block"}
            /\ Goto(r, Idle)
            BY <2>11 DEF LogSent, LogBlocked, LogRow
      <3>2. QED
            BY <3>1, SequenceMoves DEF JustSent
    <2>12. QED
           BY <1>2, <2>1, <2>3, <2>4, <2>5, <2>6, <2>7, <2>8, <2>9, <2>10, <2>11
              DEF SendStep
  <1>3. ASSUME NEW r \in Requests, GrantBegin(r) PROVE clean'[h] => OneAfterAnother(h)'
    <2>1. /\ UNCHANGED <<now, hold, delivered, clean>> /\ req[r].step = "idle"
          /\ Goto(r, [step |-> "grant", read |-> ledger])
          BY <1>3 DEF GrantBegin
    <2>2. QED
          BY <2>1, SequenceMoves DEF JustSent
  <1>4. ASSUME NEW r \in Requests, GrantWrite(r) PROVE clean'[h] => OneAfterAnother(h)'
    <2>1. /\ UNCHANGED <<now, hold, delivered, clean>> /\ req[r].step = "grant"
          /\ Goto(r, Idle)
          BY <1>4 DEF GrantWrite
    <2>2. QED
          BY <2>1, SequenceMoves DEF JustSent
  <1>5. ASSUME NEW r \in Requests, Abort(r) PROVE clean'[h] => OneAfterAnother(h)'
    <2>1. /\ UNCHANGED <<now, hold, delivered>> /\ Goto(r, Idle)
          /\ clean'[h] = (clean[h] /\ ~Sending(r, h))
          BY <1>5 DEF Abort
    <2>2. ~(JustSent(r, h) /\ clean'[h])
          BY <2>1 DEF JustSent, Sending
    <2>3. clean'[h] => clean[h]
          BY <2>1
    <2>4. Idle.step = "idle"
          OBVIOUS
    <2> HIDE DEF Idle
    <2>5. QED
          BY <2>1, <2>2, <2>3, <2>4, SequenceMoves
  <1>6. ASSUME UNCHANGED <<req, delivered, clean>>, now <= now',
               hold'[h].sent = hold[h].sent, hold'[h].cooldownEnds = hold[h].cooldownEnds
        PROVE  clean'[h] => OneAfterAnother(h)'
        BY <1>1, <1>6, SequenceStays
  <1>7. ASSUME NEW g \in Holds, VerifyInvalid(g) \/ HoldEnds(g)
        PROVE  clean'[h] => OneAfterAnother(h)'
    <2>1. UNCHANGED <<req, delivered, clean, now>>
          BY <1>7 DEF VerifyInvalid, HoldEnds
    <2>2. hold'[h].sent = hold[h].sent /\ hold'[h].cooldownEnds = hold[h].cooldownEnds
      <3>1. \/ hold' = [hold EXCEPT ![g].updatedAt = now]
            \/ hold' = [hold EXCEPT ![g].held = FALSE]
            BY <1>7 DEF VerifyInvalid, HoldEnds
      <3>2. hold \in [Holds -> HoldRow] /\ hold[g] \in HoldRow
            BY DEF TypeInv, TypeOK
      <3>3. CASE g # h
            BY <3>1, <3>2, <3>3
      <3>4. CASE g = h
        <4>1. \/ hold'[h] = [hold[h] EXCEPT !.updatedAt = now]
              \/ hold'[h] = [hold[h] EXCEPT !.held = FALSE]
              BY <3>1, <3>2, <3>4
        <4>2. QED
              BY <3>2, <3>4, <4>1 DEF HoldRow
      <3>5. QED
            BY <3>3, <3>4
    <2>3. QED
          BY <1>1, <1>6, <2>1, <2>2
  <1>8. CASE Tick \/ UNCHANGED vars
    <2>1. UNCHANGED <<req, delivered, clean, hold>> /\ now <= now'
          BY <1>1, <1>8 DEF Tick, vars
    <2>2. QED
          BY <1>6, <2>1
  <1>9. QED
        BY <1>2, <1>3, <1>4, <1>5, <1>7, <1>8 DEF Next

\* A hold's own limits, which its stored count and cooldown stand for, hold for the
\* codes that really went out as long as its sends come one after another.
THEOREM SequentialSends == Spec => []SequentialSendsLimited
  <1>1. TypeInv /\ SequenceInv => SequentialSendsLimited
    <2> SUFFICES ASSUME TypeInv, SequenceInv, NEW h \in Holds, clean[h]
                 PROVE  Cardinality(SendsOf(h)) <= MaxSends /\ Spaced(h)
        BY DEF SequentialSendsLimited, Spaced
    <2>1. OneAfterAnother(h)
          BY DEF SequenceInv
    <2>2. CASE \E r \in Requests : JustSent(r, h)
      <3>1. PICK r \in Requests : JustSent(r, h)
            BY <2>2
      <3>2. req[r].sent < MaxSends /\ req[r].sent \in Nat /\ MaxSends \in Nat
            BY <3>1, OtpAssumption, RequestShape DEF JustSent, TypeInv, RequestsSound
      <3>3. Cardinality(SendsOf(h)) = req[r].sent + 1 /\ Spaced(h)
            BY <2>1, <3>1 DEF OneAfterAnother
      <3>4. QED
            BY <3>2, <3>3
    <2>3. CASE \A r \in Requests : ~JustSent(r, h)
          BY <2>1, <2>3, DeliveredTyped DEF OneAfterAnother
    <2>4. QED
          BY <2>2, <2>3
  <1>2. QED
        BY <1>1, TypeInvariant, SequenceInit, SequenceNext, PTL DEF Spec
=============================================================================
