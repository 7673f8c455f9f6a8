-------------------------------- MODULE OtpSend --------------------------------
(***************************************************************************)
(* IntakeBookingService.sendOtp: the one-time codes of one customer, who   *)
(* has several holds with one business and asks from one address, and the  *)
(* month's ledger of verified-booking credits that the codes are charged   *)
(* to.  There is no lock and no transaction around sendOtp: every database *)
(* statement and the provider call is an action, and overlapping requests  *)
(* write back what they read before.                                       *)
(***************************************************************************)
EXTENDS Integers, Sequences, FiniteSets

CONSTANTS Holds,        \* booking_holds of the customer
          Requests,     \* API requests in flight at once
          Cooldown,     \* OTP_RESEND_COOLDOWN_SECONDS, in ticks
          ReuseWindow,  \* OTP_RESEND_WINDOW_MS
          MaxSends,     \* OTP_MAX_SENDS_PER_HOLD
          Limit,        \* sends allowed by each check of assertOtpSendAllowed
          Window,       \* the sliding window of the mobile and the ip check
          Slack,        \* rows a check reads beyond its limit: limit(Limit + Slack)
          Included,     \* verifiedOnlineBookingsPerMonth of the plan
          AddonUnits,   \* credits of one add-on
          MaxGranted,   \* bound: no add-on is granted beyond this
          MaxRows,      \* bound: no request starts that could log more rows
          MaxSent,      \* bound: nor one that could deliver more codes
          MaxTime       \* bound: the clock stops here

\* The rate checks, in the order of the code.
Checks == <<"mobile", "ip", "business">>
CheckNames == {"mobile", "ip", "business"}

ASSUME OtpAssumption == /\ IsFiniteSet(Requests) /\ Requests # {}
                        /\ {Cooldown, ReuseWindow, Included, AddonUnits, MaxGranted,
                            MaxRows, MaxSent, MaxTime} \subseteq Nat
                        /\ MaxSends \in Nat \ {0}
                        /\ {Limit, Window, Slack} \subseteq [CheckNames -> Nat]

VARIABLES now,       \* the clock
          dayStart,  \* the last UTC midnight
          hold,      \* booking_holds: what sendOtp reads and writes
          ledger,    \* the month's row of verified_online_booking_credits
          log,       \* public_otp_send_events, oldest first
          req,       \* the in-flight requests: where each is and what it has read
          delivered, \* history: the codes the provider accepted, oldest first
          clean      \* history: the sends of the hold came one after another, and none died

vars == <<now, dayStart, hold, ledger, log, req, delivered, clean>>
-----------------------------------------------------------------------------
NoLedger == [used |-> -1, granted |-> -1]
Idle == [step |-> "idle"]
Block == [step |-> "block"]

\* challenge: a code can be reused (otpSid, otpProviderMessageId or otpCodeHash is set);
\* cooldownEnds 0 stands for null too: neither is after the clock.
HoldRow == [held : BOOLEAN, challenge : BOOLEAN, sent : Nat, cooldownEnds : Nat,
            updatedAt : Nat]

Ledger == [used : Nat, granted : Nat]

Request == {Idle, Block}
    \cup [step : {"ensureCredits", "openLedger"}, hold : Holds, sent : Nat]
    \cup [step : {"limits"}, hold : Holds, sent : Nat, used : Nat, check : 1 .. 3, at : Nat]
    \cup [step : {"send"}, hold : Holds, sent : Nat, used : Nat]
    \cup [step : {"accepted"}, hold : Holds, sent : Nat, used : Nat, at : Nat]
    \cup [step : {"charge"}, hold : Holds, used : Nat]
    \cup [step : {"log"}, hold : Holds]
    \cup [step : {"grant"}, read : Ledger \cup {NoLedger}]

Goto(r, state) == req' = [req EXCEPT ![r] = state]

\* Requests that work on hold h: they have read it and are not done with it.
Sending(r, h) == req[r].step \notin {"idle", "block", "grant"} /\ req[r].hold = h

\* The request is on its way to log a send or a refusal.
MayLog(r) == req[r].step \notin {"idle", "grant"}

Init == /\ now = 0
        /\ dayStart = 0
        /\ hold = [h \in Holds |-> [held |-> TRUE, challenge |-> FALSE, sent |-> 0,
                                    cooldownEnds |-> 0, updatedAt |-> 0]]
        /\ ledger = NoLedger
        /\ log = <<>>
        /\ req = [r \in Requests |-> Idle]
        /\ delivered = <<>>
        /\ clean = [h \in Holds |-> TRUE]
-----------------------------------------------------------------------------
(* sendOtp *)

\* Mutant: the resend cooldown is not looked at.
Refused_NoCooldown(h) == hold[h].sent >= MaxSends

\* The hold's own limits: both are recorded as a refused send.
Refused(h) == hold[h].cooldownEnds > now \/ hold[h].sent >= MaxSends

\* A fresh challenge is reused: nothing is sent, written or charged.
Reusable(h) == hold[h].challenge /\ now - hold[h].updatedAt < ReuseWindow

\* The hold is read and its limits checked; then the organisation's billing state is
\* read, which may refuse the request as well.
SendBegin(r, h) ==
    /\ req[r] = Idle
    /\ Len(log) + Cardinality({q \in Requests : MayLog(q)}) < MaxRows
    /\ Len(delivered) + Cardinality({q \in Requests : MayLog(q)}) < MaxSent
    /\ hold[h].held
    /\ clean' = [clean EXCEPT ![h] = @ /\ \A q \in Requests : ~Sending(q, h)]
    /\ \/ Refused(h) /\ Goto(r, Block)
       \/ ~Refused(h) /\ ~Reusable(h)
          /\ \/ Goto(r, Block)
             \/ Goto(r, [step |-> "ensureCredits", hold |-> h, sent |-> hold[h].sent])
    /\ UNCHANGED <<now, dayStart, hold, ledger, log, delivered>>

\* With the ledger row in hand: out of credits, or on to the rate checks.
WithLedger(r, row) ==
    IF row.used >= row.granted THEN Goto(r, Block)
    ELSE Goto(r, [step |-> "limits", hold |-> req[r].hold, sent |-> req[r].sent,
                  used |-> row.used, check |-> 1, at |-> now])

EnsureCredits(r) ==
    /\ req[r].step = "ensureCredits"
    /\ IF ledger # NoLedger THEN WithLedger(r, ledger)
       ELSE Goto(r, [step |-> "openLedger", hold |-> req[r].hold, sent |-> req[r].sent])
    /\ UNCHANGED <<now, dayStart, hold, ledger, log, delivered, clean>>

\* The month's first send inserts the row; a second insert breaks the unique
\* constraint, and its request fails.
OpenLedger(r) ==
    /\ req[r].step = "openLedger"
    /\ LET row == [used |-> 0, granted |-> Included] IN
       IF ledger = NoLedger THEN ledger' = row /\ WithLedger(r, row)
                            ELSE Goto(r, Idle) /\ UNCHANGED ledger
    /\ UNCHANGED <<now, dayStart, hold, log, delivered, clean>>

WindowStart(c, at) == IF c = "business" THEN dayStart ELSE at - Window[c]

SentSince(t) == {i \in DOMAIN log : log[i].sent /\ log[i].at >= t}

\* Rows beyond limit(Limit + Slack), which the query leaves out.  It has no order: the
\* rows left out may be any.
Unread(c) == IF Len(log) > Limit[c] + Slack[c] THEN Len(log) - Limit[c] - Slack[c] ELSE 0

\* Mutant: the window starts at the clock.
Seen_EmptyWindow(c, at) == {Cardinality(SentSince(at + 1))}

\* What a check may count: the sends of its window among the rows it reads.
Seen(c, at) ==
    LET sent == Cardinality(SentSince(WindowStart(c, at)))
    IN {n \in 0 .. sent : /\ n <= Limit[c] + Slack[c]
                          /\ sent - n <= Unread(c)}

\* One rate check: one query, after which other requests may run.
CheckLimit(r) ==
    /\ req[r].step = "limits"
    /\ LET c == Checks[req[r].check] IN
       \E seen \in Seen(c, req[r].at) :
          \/ seen >= Limit[c] /\ Goto(r, Block)
          \/ seen < Limit[c] /\ req[r].check < 3
             /\ Goto(r, [step |-> "limits", hold |-> req[r].hold, sent |-> req[r].sent,
                         used |-> req[r].used, check |-> req[r].check + 1, at |-> req[r].at])
          \/ seen < Limit[c] /\ req[r].check = 3
             /\ Goto(r, [step |-> "send", hold |-> req[r].hold, sent |-> req[r].sent,
                         used |-> req[r].used])
    /\ UNCHANGED <<now, dayStart, hold, ledger, log, delivered, clean>>

Deliver(h) == delivered' = Append(delivered, [hold |-> h, at |-> now])

ProviderAccepts(r) ==
    /\ req[r].step = "send"
    /\ Deliver(req[r].hold)
    /\ Goto(r, [step |-> "accepted", hold |-> req[r].hold, sent |-> req[r].sent,
                used |-> req[r].used, at |-> now])
    /\ UNCHANGED <<now, dayStart, hold, ledger, log, clean>>

ProviderRejects(r) ==
    /\ req[r].step = "send"
    /\ Goto(r, Block)
    /\ UNCHANGED <<now, dayStart, hold, ledger, log, delivered, clean>>

\* No answer: handled as a refusal, although the code may be on its way.
ProviderUnknown(r) ==
    /\ req[r].step = "send"
    /\ Deliver(req[r].hold)
    /\ Goto(r, Block)
    /\ clean' = [clean EXCEPT ![req[r].hold] = FALSE]
    /\ UNCHANGED <<now, dayStart, hold, ledger, log>>

\* The hold takes the challenge, and the count of sends that was read, plus one.
RecordOnHold(r) ==
    /\ req[r].step = "accepted"
    /\ hold' = [hold EXCEPT ![req[r].hold] =
                  [held |-> @.held, challenge |-> TRUE, sent |-> req[r].sent + 1,
                   cooldownEnds |-> req[r].at + Cooldown, updatedAt |-> req[r].at]]
    /\ Goto(r, [step |-> "charge", hold |-> req[r].hold, used |-> req[r].used])
    /\ UNCHANGED <<now, dayStart, ledger, log, delivered, clean>>

\* Mutant: a send costs two credits.
Charge_Double(r) ==
    /\ req[r].step = "charge"
    /\ ledger' = [ledger EXCEPT !.used = req[r].used + 2]
    /\ Goto(r, [step |-> "log", hold |-> req[r].hold])
    /\ UNCHANGED <<now, dayStart, hold, log, delivered, clean>>

\* One credit: the use that was read, plus one.  The usage event that follows is only
\* read by reports.
Charge(r) ==
    /\ req[r].step = "charge"
    /\ ledger' = [ledger EXCEPT !.used = req[r].used + 1]
    /\ Goto(r, [step |-> "log", hold |-> req[r].hold])
    /\ UNCHANGED <<now, dayStart, hold, log, delivered, clean>>

\* recordOtpSendEvent and recordBlockedOtpSendEvent.
LogRow(r, sent) ==
    /\ log' = Append(log, [sent |-> sent, at |-> now])
    /\ Goto(r, Idle)
    /\ UNCHANGED <<now, dayStart, hold, ledger, delivered, clean>>

LogSent(r) == req[r].step = "log" /\ LogRow(r, TRUE)

LogBlocked(r) == req[r] = Block /\ LogRow(r, FALSE)
-----------------------------------------------------------------------------
(* Other writers of the same rows *)

\* verifyAndConfirm with a wrong code touches updatedAt, which the reuse window is
\* measured from.  Without a challenge it does too, but then nothing reads it.
VerifyInvalid(h) ==
    /\ hold[h].held /\ hold[h].challenge
    /\ hold[h].updatedAt # now
    /\ hold' = [hold EXCEPT ![h].updatedAt = now]
    /\ UNCHANGED <<now, dayStart, ledger, log, req, delivered, clean>>

\* The hold expires, or its code is verified.
HoldEnds(h) ==
    /\ hold[h].held
    /\ hold' = [hold EXCEPT ![h].held = FALSE]
    /\ UNCHANGED <<now, dayStart, ledger, log, req, delivered, clean>>

\* VerifiedBookingAddonGrantService.grant reads the ledger ...
GrantBegin(r) ==
    /\ req[r] = Idle
    /\ ledger.granted + AddonUnits <= MaxGranted
    /\ Goto(r, [step |-> "grant", read |-> ledger])
    /\ UNCHANGED <<now, dayStart, hold, ledger, log, delivered, clean>>

\* Mutant: a missing row is taken for an empty one.
GrantWrite_NoRow(r) ==
    /\ req[r].step = "grant"
    /\ ledger' = [used |-> req[r].read.used, granted |-> req[r].read.granted + AddonUnits]
    /\ Goto(r, Idle)
    /\ UNCHANGED <<now, dayStart, hold, log, delivered, clean>>

\* ... and writes it, used included.  Without a row it inserts one, which has none of
\* the plan's own credits; if another request has inserted it by now, it fails.
GrantWrite(r) ==
    /\ req[r].step = "grant"
    /\ LET read == req[r].read IN
       ledger' = IF read # NoLedger
                 THEN [used |-> read.used, granted |-> read.granted + AddonUnits]
                 ELSE IF ledger = NoLedger
                 THEN [used |-> 0, granted |-> AddonUnits]
                 ELSE ledger
    /\ Goto(r, Idle)
    /\ UNCHANGED <<now, dayStart, hold, log, delivered, clean>>
-----------------------------------------------------------------------------
(* Environment *)

\* Time passes; midnight may fall on any tick.
Tick == /\ now < MaxTime
        /\ now' = now + 1
        /\ dayStart' \in {dayStart, now + 1}
        /\ UNCHANGED <<hold, ledger, log, req, delivered, clean>>

\* A request dies between two statements; nothing undoes what it has written.
Abort(r) == /\ req[r] # Idle
            /\ Goto(r, Idle)
            /\ clean' = [h \in Holds |-> clean[h] /\ ~Sending(r, h)]
            /\ UNCHANGED <<now, dayStart, hold, ledger, log, delivered>>

SendStep(r) == \/ \E h \in Holds : SendBegin(r, h)
               \/ EnsureCredits(r)
               \/ OpenLedger(r)
               \/ CheckLimit(r)
               \/ ProviderAccepts(r)
               \/ ProviderRejects(r)
               \/ ProviderUnknown(r)
               \/ RecordOnHold(r)
               \/ Charge(r)
               \/ LogSent(r)
               \/ LogBlocked(r)

Next == \/ \E r \in Requests : SendStep(r) \/ GrantBegin(r) \/ GrantWrite(r) \/ Abort(r)
        \/ \E h \in Holds : VerifyInvalid(h) \/ HoldEnds(h)
        \/ Tick

Spec == Init /\ [][Next]_vars
-----------------------------------------------------------------------------
(* Properties *)

SendsOf(h) == {i \in DOMAIN delivered : delivered[i].hold = h}

\* Types, and the limit of a hold: whatever overlaps, no request writes more than it.
TypeOK == /\ now \in Nat /\ dayStart \in 0 .. now
          /\ hold \in [Holds -> HoldRow]
          /\ ledger \in Ledger \cup {NoLedger}
          /\ log \in Seq([sent : BOOLEAN, at : Nat])
          /\ req \in [Requests -> Request]
          /\ delivered \in Seq([hold : Holds, at : Nat])
          /\ clean \in [Holds -> BOOLEAN]
          /\ \A h \in Holds : hold[h].sent <= MaxSends

\* Each rate check counts first and its send is logged at the end, so overlapping
\* requests pass it together: as long as the query still reads every row, the window
\* holds fewer sends too many than there are requests in flight.
RollingLimitBounded ==
    \A c \in CheckNames : Unread(c) = 0 =>
        Cardinality(SentSince(WindowStart(c, now))) < Limit[c] + Cardinality(Requests)

\* The customer is never charged for a code the provider did not take: sends and add-on
\* grants that write back a stale use can only forget credits, not invent them.
NeverOvercharged == ledger.used <= Len(delivered)

\* While the sends of a hold come one after another and none dies, the hold's limits
\* hold for the codes that really went out: at most MaxSends, a cooldown apart.
SequentialSendsLimited ==
    \A h \in Holds : clean[h] =>
        /\ Cardinality(SendsOf(h)) <= MaxSends
        /\ \A i, j \in SendsOf(h) : i < j => delivered[j].at - delivered[i].at >= Cooldown
=============================================================================
