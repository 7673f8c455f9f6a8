---------------------------- MODULE ManualBilling -----------------------------
(***************************************************************************)
(* SMS top-ups paid outside the system: a client asks for one, a platform  *)
(* admin makes a billing request of it, records and confirms or rejects    *)
(* payments, and a confirmed payment adds credits to the organization's    *)
(* SMS ledger, which outgoing messages use up meanwhile.  No handler locks *)
(* the rows it reads: a transaction is one action for the checks it begins *)
(* with, one for the ledger it reads if it grants credits, and one for its *)
(* writes, which become visible together at its commit.                    *)
(***************************************************************************)
EXTENDS Integers, FiniteSets

CONSTANTS Clients,     \* row ids of client_billing_requests
          Bills,       \* row ids of manual_billing_requests, one item each
          Payments,    \* row ids of manual_payments
          Workers,     \* API requests and message dispatches in flight
          NoBill, NoPayment,
          Units,       \* credits of a top-up
          Included,    \* credits of the plan
          MaxAdjust,   \* bound: adjustments by admins
          MaxSends     \* bound: messages sent

ASSUME BillingAssumption == /\ NoBill \notin Bills /\ NoPayment \notin Payments
                            /\ IsFiniteSet(Bills)
                            /\ Units \in Nat \ {0} /\ Included \in Nat
                            /\ MaxAdjust \in Nat /\ MaxSends \in Nat

VARIABLES client,     \* client_billing_requests
          bill,       \* manual_billing_requests
          payment,    \* manual_payments
          fulfilled,  \* manual_billing_fulfillments: the payment that a bill's item was fulfilled by
          sms,        \* sms_credits of the current month
          worker,     \* where each request in flight is and what it has read
          granted,    \* history: credits that adjustments have added
          adjusts, sends

rows == <<client, bill, payment, fulfilled>>
budget == <<adjusts, sends>>
vars == <<rows, sms, worker, granted, budget>>
-----------------------------------------------------------------------------
NoRow == [status |-> "none"]
Idle == [step |-> "idle"]

OpenStatuses == {"submitted", "under_review"}

ClientRow == [status : OpenStatuses \cup {"approved", "declined", "cancelled"},
              linked : Bills \cup {NoBill}]

\* No code creates a draft.
BillStatuses == {"awaiting_payment", "payment_reported", "rejected", "void", "paid_and_fulfilled"}

\* exact: the amount is the request's total.
PaymentRow == [status : {"pending", "verified", "rejected"}, bill : Bills, exact : BOOLEAN]

Ledger == [status : {"open"}, included : Nat, addon : Int, used : Nat]

\* The grants an admin's request may be making: for a payment, or an adjustment.
Grant == [payment : Payments, units : {Units}] \cup [payment : {NoPayment}, units : {1, -1}]

Request == {Idle} \cup [step : {"clientCreate", "send"}]
                  \cup [step : {"approve"}, client : Clients]
                  \cup [step : {"link"}, client : Clients, bill : Bills]
                  \cup [step : {"record"}, bill : Bills, exact : BOOLEAN]
                  \cup [step : {"void"}, bill : Bills]
                  \cup [step : {"reject"}, payment : Payments]
                  \cup [step : {"grant"}, grant : Grant]
                  \cup [step : {"commit"}, grant : Grant, ledger : Ledger \cup {NoRow}]

Goto(w, state) == worker' = [worker EXCEPT ![w] = state]

Remaining == IF sms = NoRow \/ sms.included + sms.addon < sms.used
             THEN 0 ELSE sms.included + sms.addon - sms.used

Init == /\ client = [c \in Clients |-> NoRow]
        /\ bill = [b \in Bills |-> "none"]
        /\ payment = [p \in Payments |-> NoRow]
        /\ fulfilled = [b \in Bills |-> NoPayment]
        /\ sms = NoRow
        /\ worker = [w \in Workers |-> Idle]
        /\ granted = 0 /\ adjusts = 0 /\ sends = 0
-----------------------------------------------------------------------------
(* Client billing requests *)

\* create: another open request is looked for ...
ClientCreateBegin(w) ==
    /\ worker[w] = Idle
    /\ \A c \in Clients : client[c].status \notin OpenStatuses
    /\ Goto(w, [step |-> "clientCreate"])
    /\ UNCHANGED <<rows, sms, granted, budget>>

\* ... and the new one inserted.
ClientCreate(w, c) ==
    /\ worker[w].step = "clientCreate"
    /\ client[c] = NoRow
    /\ client' = [client EXCEPT ![c] = [status |-> "submitted", linked |-> NoBill]]
    /\ Goto(w, Idle)
    /\ UNCHANGED <<bill, payment, fulfilled, sms, granted, budget>>

\* cancel, markUnderReview and markDeclined: the update names the statuses it accepts.
ClientDecide(c, from, to) ==
    /\ client[c].status \in from
    /\ client' = [client EXCEPT ![c].status = to]
    /\ UNCHANGED <<bill, payment, fulfilled, sms, worker, granted, budget>>

ClientStep(c) == \/ ClientDecide(c, OpenStatuses, "cancelled")
                 \/ ClientDecide(c, {"submitted"}, "under_review")
                 \/ ClientDecide(c, OpenStatuses, "declined")

\* approveClientBillingRequest: the request is read, a billing request created by a
\* transaction of its own, and the two linked by a third statement.
ApproveBegin(w, c) ==
    /\ worker[w] = Idle
    /\ client[c].status \in OpenStatuses
    /\ Goto(w, [step |-> "approve", client |-> c])
    /\ UNCHANGED <<rows, sms, granted, budget>>

\* Mutant: the column's default, which no other handler knows.
CreateBill_Draft(b) == bill[b] = "none" /\ bill' = [bill EXCEPT ![b] = "draft"]

CreateBill(b) == bill[b] = "none" /\ bill' = [bill EXCEPT ![b] = "awaiting_payment"]

\* Mutant: the error of the creation is swallowed.
ApproveCreates_Swallowed(w, b) ==
    /\ worker[w].step = "approve"
    /\ Goto(w, [step |-> "link", client |-> worker[w].client, bill |-> b])
    /\ UNCHANGED <<rows, sms, granted, budget>>

ApproveCreates(w, b) ==
    /\ worker[w].step = "approve"
    /\ CreateBill(b)
    /\ Goto(w, [step |-> "link", client |-> worker[w].client, bill |-> b])
    /\ UNCHANGED <<client, payment, fulfilled, sms, granted, budget>>

\* A request that is no longer open is left alone, and the bill stays without one.
ApproveLinks(w) ==
    LET c == worker[w].client IN
    /\ worker[w].step = "link"
    /\ client' = IF client[c].status \in OpenStatuses
                 THEN [client EXCEPT ![c] = [status |-> "approved", linked |-> worker[w].bill]]
                 ELSE client
    /\ Goto(w, Idle)
    /\ UNCHANGED <<bill, payment, fulfilled, sms, granted, budget>>
-----------------------------------------------------------------------------
(* Billing requests and payments *)

AdminCreatesBill(b) ==
    /\ CreateBill(b)
    /\ UNCHANGED <<client, payment, fulfilled, sms, worker, granted, budget>>

Payable(b) == bill[b] \in {"awaiting_payment", "payment_reported"}

RecordBegin(w, b, exact) ==
    /\ worker[w] = Idle
    /\ Payable(b)
    /\ Goto(w, [step |-> "record", bill |-> b, exact |-> exact])
    /\ UNCHANGED <<rows, sms, granted, budget>>

RecordCommit(w, p) ==
    LET b == worker[w].bill IN
    /\ worker[w].step = "record"
    /\ payment[p] = NoRow
    /\ payment' = [payment EXCEPT ![p] = [status |-> "pending", bill |-> b,
                                          exact |-> worker[w].exact]]
    /\ bill' = [bill EXCEPT ![b] = "payment_reported"]
    /\ Goto(w, Idle)
    /\ UNCHANGED <<client, fulfilled, sms, granted, budget>>

RejectBegin(w, p) ==
    /\ worker[w] = Idle
    /\ payment[p].status = "pending"
    /\ Goto(w, [step |-> "reject", payment |-> p])
    /\ UNCHANGED <<rows, sms, granted, budget>>

\* The request is rejected with the payment, whatever its status is.
RejectCommit(w) ==
    LET p == worker[w].payment IN
    /\ worker[w].step = "reject"
    /\ payment' = [payment EXCEPT ![p].status = "rejected"]
    /\ bill' = [bill EXCEPT ![payment[p].bill] = "rejected"]
    /\ Goto(w, Idle)
    /\ UNCHANGED <<client, fulfilled, sms, granted, budget>>

VoidBegin(w, b) ==
    /\ worker[w] = Idle
    /\ bill[b] \notin {"none", "paid_and_fulfilled"}
    /\ Goto(w, [step |-> "void", bill |-> b])
    /\ UNCHANGED <<rows, sms, granted, budget>>

VoidCommit(w) ==
    /\ worker[w].step = "void"
    /\ bill' = [bill EXCEPT ![worker[w].bill] = "void"]
    /\ Goto(w, Idle)
    /\ UNCHANGED <<client, payment, fulfilled, sms, granted, budget>>
-----------------------------------------------------------------------------
(* Grants of credits *)

\* Mutant: the amount is not compared.
Confirmable_AnyAmount(p) == /\ payment[p].status = "pending"
                            /\ Payable(payment[p].bill)
                            /\ fulfilled[payment[p].bill] = NoPayment

Confirmable(p) == /\ payment[p].status = "pending"
                  /\ payment[p].exact
                  /\ Payable(payment[p].bill)
                  /\ fulfilled[payment[p].bill] = NoPayment

\* confirmAndFulfillManualPayment: what it checks before it grants.
ConfirmBegin(w, p) ==
    /\ worker[w] = Idle
    /\ Confirmable(p)
    /\ Goto(w, [step |-> "grant", grant |-> [payment |-> p, units |-> Units]])
    /\ UNCHANGED <<rows, sms, granted, budget>>

\* adjustSmsCredits: a correction may not take more than what remains.
AdjustBegin(w, units) ==
    /\ worker[w] = Idle
    /\ adjusts < MaxAdjust
    /\ Remaining + units >= 0
    /\ adjusts' = adjusts + 1
    /\ Goto(w, [step |-> "grant", grant |-> [payment |-> NoPayment, units |-> units]])
    /\ UNCHANGED <<rows, sms, granted, sends>>

\* grant reads the ledger; a missing one is inserted by the same transaction.
GrantReads(w) ==
    /\ worker[w].step = "grant"
    /\ Goto(w, [step |-> "commit", grant |-> worker[w].grant, ledger |-> sms])
    /\ UNCHANGED <<rows, sms, granted, budget>>

\* Mutant: the update adds to the row a value that the read row already has.
Granted_Twice(ledger, units) ==
    IF ledger = NoRow
    THEN [status |-> "open", included |-> 0, addon |-> units, used |-> 0]
    ELSE [sms EXCEPT !.addon = @ + ledger.addon + units, !.used = ledger.used]

\* The ledger that the transaction writes: addon and used are values, not increments.
Granted(ledger, units) ==
    IF ledger = NoRow
    THEN [status |-> "open", included |-> 0, addon |-> units, used |-> 0]
    ELSE [sms EXCEPT !.addon = ledger.addon + units, !.used = ledger.used]

\* The unique key of the ledger (organization, month).
LedgerInsertable(ledger) == ledger = NoRow => sms = NoRow

\* Mutant: the item's fulfilment is not unique.
ConfirmCommit_NotUnique(w) ==
    LET p == worker[w].grant.payment
        b == payment[p].bill IN
    /\ worker[w].step = "commit" /\ p # NoPayment
    /\ LedgerInsertable(worker[w].ledger)
    /\ sms' = Granted(worker[w].ledger, Units)
    /\ fulfilled' = [fulfilled EXCEPT ![b] = p]
    /\ payment' = [payment EXCEPT ![p].status = "verified"]
    /\ bill' = [bill EXCEPT ![b] = "paid_and_fulfilled"]
    /\ Goto(w, Idle)
    /\ UNCHANGED <<client, granted, budget>>

\* The credits, the fulfilment of the item (unique), the payment and the request.
ConfirmCommit(w) ==
    LET p == worker[w].grant.payment
        b == payment[p].bill IN
    /\ worker[w].step = "commit" /\ p # NoPayment
    /\ LedgerInsertable(worker[w].ledger)
    /\ fulfilled[b] = NoPayment
    /\ sms' = Granted(worker[w].ledger, Units)
    /\ fulfilled' = [fulfilled EXCEPT ![b] = p]
    /\ payment' = [payment EXCEPT ![p].status = "verified"]
    /\ bill' = [bill EXCEPT ![b] = "paid_and_fulfilled"]
    /\ Goto(w, Idle)
    /\ UNCHANGED <<client, granted, budget>>

AdjustCommit(w) ==
    LET units == worker[w].grant.units IN
    /\ worker[w].step = "commit" /\ worker[w].grant.payment = NoPayment
    /\ LedgerInsertable(worker[w].ledger)
    /\ sms' = Granted(worker[w].ledger, units)
    /\ granted' = granted + (IF units > 0 THEN units ELSE 0)
    /\ Goto(w, Idle)
    /\ UNCHANGED <<rows, budget>>
-----------------------------------------------------------------------------
(* Outgoing messages *)

\* getOrCreateCredits makes the month's row.
MeterCreates ==
    /\ sms = NoRow
    /\ sms' = [status |-> "open", included |-> Included, addon |-> 0, used |-> 0]
    /\ UNCHANGED <<rows, worker, granted, budget>>

\* canConsume looks at the credits, ...
SendBegin(w) ==
    /\ worker[w] = Idle
    /\ sends < MaxSends /\ sends' = sends + 1
    /\ Remaining >= 1
    /\ Goto(w, [step |-> "send"])
    /\ UNCHANGED <<rows, sms, granted, adjusts>>

\* ... and the provider's acceptance is metered by an increment.
SendConsumes(w) ==
    /\ worker[w].step = "send"
    /\ sms' = [sms EXCEPT !.used = @ + 1]
    /\ Goto(w, Idle)
    /\ UNCHANGED <<rows, granted, budget>>
-----------------------------------------------------------------------------
\* A request ends without (further) writes: the process stops, a query fails, or a
\* unique key refuses the transaction, which is rolled back.
Abort(w) == /\ worker[w] # Idle
            /\ Goto(w, Idle)
            /\ UNCHANGED <<rows, sms, granted, budget>>

RequestStep(w) == \/ ClientCreateBegin(w)
                  \/ \E c \in Clients : ClientCreate(w, c) \/ ApproveBegin(w, c)
                  \/ \E b \in Bills : ApproveCreates(w, b) \/ VoidBegin(w, b)
                  \/ ApproveLinks(w)
                  \/ VoidCommit(w)
                  \/ Abort(w)

PaymentStep(w) == \/ \E b \in Bills, exact \in BOOLEAN : RecordBegin(w, b, exact)
                  \/ \E p \in Payments : \/ RecordCommit(w, p) \/ RejectBegin(w, p)
                                         \/ ConfirmBegin(w, p)
                  \/ RejectCommit(w)
                  \/ ConfirmCommit(w)

CreditStep(w) == \/ \E units \in {1, -1} : AdjustBegin(w, units)
                 \/ GrantReads(w)
                 \/ AdjustCommit(w)
                 \/ SendBegin(w)
                 \/ SendConsumes(w)

Next == \/ \E w \in Workers : RequestStep(w) \/ PaymentStep(w) \/ CreditStep(w)
        \/ \E c \in Clients : ClientStep(c)
        \/ \E b \in Bills : AdminCreatesBill(b)
        \/ MeterCreates

Spec == Init /\ [][Next]_vars
-----------------------------------------------------------------------------
(* Properties *)

TypeOK == /\ client \in [Clients -> ClientRow \cup {NoRow}]
          /\ bill \in [Bills -> BillStatuses \cup {"none"}]
          /\ payment \in [Payments -> PaymentRow \cup {NoRow}]
          /\ fulfilled \in [Bills -> Payments \cup {NoPayment}]
          /\ sms \in Ledger \cup {NoRow}
          /\ worker \in [Workers -> Request]
          /\ granted \in Nat /\ adjusts \in 0 .. MaxAdjust /\ sends \in 0 .. MaxSends

\* Overlapping confirmations, rejections and voids never fulfil a request by two
\* payments or by one of the wrong amount: a verified payment is the one that
\* fulfilled its request.
VerifiedFulfils ==
    /\ \A p \in Payments : payment[p].status = "verified" =>
          fulfilled[payment[p].bill] = p
    /\ \A b \in Bills : fulfilled[b] # NoPayment =>
          /\ payment[fulfilled[b]] # NoRow
          /\ payment[fulfilled[b]].bill = b /\ payment[fulfilled[b]].exact

\* No credits are made up: however grants and adjustments overlap and write back what
\* they read, the ledger has no more add-on credits than were granted.
CreditsBacked ==
    sms # NoRow =>
        sms.addon <= granted + Units * Cardinality({b \in Bills : fulfilled[b] # NoPayment})

\* An approved client request is linked to a billing request that exists, and to one
\* of its own.
ApprovedHasBill ==
    \A c \in Clients : client[c].status = "approved" =>
        /\ client[c].linked \in Bills /\ bill[client[c].linked] # "none"
        /\ \A d \in Clients \ {c} : client[d].status = "approved" =>
              client[d].linked # client[c].linked

\* What the client or an admin has decided about a client request stays, though an
\* approval that began before the decision is still creating its billing request.
DecisionsStay ==
    [][\A c \in Clients : client[c].status \in {"approved", "declined", "cancelled"} =>
           client'[c] = client[c]]_vars
=============================================================================
