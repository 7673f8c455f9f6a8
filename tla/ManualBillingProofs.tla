------------------------- MODULE ManualBillingProofs --------------------------
(***************************************************************************)
(* Proofs about ManualBilling, for any numbers of client requests, billing *)
(* requests, payments and overlapping API requests.                        *)
(***************************************************************************)
EXTENDS ManualBilling, FiniteSetTheorems, TLAPS

\* A request that is about to write for a payment has read a row of the right amount.
GrantsExact ==
    \A w \in Workers :
        (worker[w].step \in {"grant", "commit"} /\ worker[w].grant.payment # NoPayment) =>
            /\ payment[worker[w].grant.payment] # NoRow
            /\ payment[worker[w].grant.payment].exact

RejectsRow == \A w \in Workers : worker[w].step = "reject" => payment[worker[w].payment] # NoRow

\* The credits that were ever added to the ledger.
Backing == granted + Units * Cardinality({b \in Bills : fulfilled[b] # NoPayment})

\* The ledger that a grant in flight has read has no more than that.
ReadsBacked ==
    \A w \in Workers : (worker[w].step = "commit" /\ worker[w].ledger # NoRow) =>
        worker[w].ledger.addon <= Backing

\* A bill that waits to be linked exists, and is nobody else's.
LinksFresh ==
    \A w \in Workers : worker[w].step = "link" =>
        /\ bill[worker[w].bill] # "none"
        /\ \A c \in Clients : client[c].status = "approved" => client[c].linked # worker[w].bill
        /\ \A v \in Workers \ {w} : worker[v].step = "link" => worker[v].bill # worker[w].bill

USE BillingAssumption DEF NoRow, Idle
-----------------------------------------------------------------------------
(* Types *)

LEMMA TypeInit == Init => TypeOK
  <1> SUFFICES ASSUME Init PROVE TypeOK
      OBVIOUS
  <1>1. worker \in [Workers -> Request]
        BY DEF Init, Request
  <1>2. QED
        BY <1>1 DEF Init, TypeOK, BillStatuses

\* The fields that a request in flight has at its step.
LEMMA RequestFields ==
    ASSUME TypeOK, NEW w \in Workers
    PROVE  /\ worker[w].step = "approve" => worker[w].client \in Clients
           /\ worker[w].step = "link" => worker[w].client \in Clients /\ worker[w].bill \in Bills
           /\ worker[w].step = "record" => worker[w].bill \in Bills /\ worker[w].exact \in BOOLEAN
           /\ worker[w].step = "void" => worker[w].bill \in Bills
           /\ worker[w].step = "reject" => worker[w].payment \in Payments
           /\ worker[w].step = "grant" => worker[w].grant \in Grant
           /\ worker[w].step = "commit" => /\ worker[w].grant \in Grant
                                           /\ worker[w].ledger \in Ledger \cup {NoRow}
  <1>1. worker[w] \in Request
        BY DEF TypeOK
  <1>2. QED
        BY <1>1 DEF Request

LEMMA GrantFields ==
    ASSUME NEW g \in Grant
    PROVE  /\ g.payment \in Payments \cup {NoPayment}
           /\ g.payment # NoPayment => g.units = Units
           /\ g.units \in Int
  BY DEF Grant

\* The step a request goes to is a request.
LEMMA GotoType ==
    ASSUME TypeOK, NEW w \in Workers, NEW state \in Request, Goto(w, state)
    PROVE  worker' \in [Workers -> Request]
  BY DEF Goto, TypeOK

LEMMA IdleRequest == Idle \in Request
  BY DEF Request

LEMMA LedgerUpdate ==
    ASSUME NEW s \in Ledger, NEW addon \in Int, NEW used \in Nat
    PROVE  /\ [s EXCEPT !.addon = addon, !.used = used] \in Ledger
           /\ [s EXCEPT !.addon = addon, !.used = used].addon = addon
  BY DEF Ledger

LEMMA LedgerGranted ==
    ASSUME sms \in Ledger \cup {NoRow}, NEW ledger \in Ledger \cup {NoRow}, NEW units \in Int,
           sms = NoRow => ledger = NoRow
    PROVE  /\ Granted(ledger, units) \in Ledger
           /\ Granted(ledger, units).addon =
                (IF ledger = NoRow THEN 0 ELSE ledger.addon) + units
  <1>1. CASE ledger = NoRow
        BY <1>1 DEF Granted, Ledger
  <1>2. CASE ledger # NoRow
    <2>1. sms \in Ledger /\ ledger \in Ledger
          BY <1>2
    <2>2. Granted(ledger, units) = [sms EXCEPT !.addon = ledger.addon + units, !.used = ledger.used]
          BY <1>2, Zenon DEF Granted
    <2> DEFINE L == [sms EXCEPT !.addon = ledger.addon + units, !.used = ledger.used]
    <2>3. L \in Ledger /\ L.addon = ledger.addon + units
      <3>1. ledger.used \in Nat /\ ledger.addon + units \in Int
            BY <2>1 DEF Ledger
      <3>2. QED
            BY <2>1, <3>1, LedgerUpdate
    <2>4. Granted(ledger, units) = L
          BY <2>2
    <2> HIDE DEF L
    <2>5. Granted(ledger, units) \in Ledger
          BY <2>3, <2>4, Zenon
    <2>6. (IF ledger = NoRow THEN 0 ELSE ledger.addon) = ledger.addon
          BY <1>2
    <2>7. QED
          BY <2>3, <2>4, <2>5, <2>6, Zenon
  <1>3. QED
        BY <1>1, <1>2
-----------------------------------------------------------------------------
\* A ledger that a request has read is still there: rows of sms_credits are not deleted.
LedgerStays ==
    \A w \in Workers :
        (worker[w].step = "send" \/ (worker[w].step = "commit" /\ worker[w].ledger # NoRow)) =>
            sms # NoRow

InFlight == GrantsExact /\ RejectsRow /\ LedgerStays

\* Every step of a request writes well-typed rows and leaves the others their place.
LEMMA TypeStep == TypeOK /\ InFlight /\ [Next]_vars => TypeOK' /\ LedgerStays'
  <1> SUFFICES ASSUME TypeOK, GrantsExact, RejectsRow, LedgerStays, [Next]_vars
               PROVE  TypeOK' /\ LedgerStays'
      BY DEF InFlight
  <1> USE DEF TypeOK, rows, budget
  <1>w. \A w \in Workers : worker[w] \in Request
        OBVIOUS
  <1>i. Idle \in Request
        BY IdleRequest
  <1>1. ASSUME NEW w \in Workers, RequestStep(w) PROVE TypeOK' /\ LedgerStays'
    <2>1. CASE ClientCreateBegin(w)
      <3>1. [step |-> "clientCreate"] \in Request
            BY DEF Request
      <3>2. worker' \in [Workers -> Request]
            BY <2>1, <3>1, GotoType DEF ClientCreateBegin
      <3>3. QED
            BY <2>1, <3>2 DEF ClientCreateBegin, LedgerStays, Goto
    <2>2. ASSUME NEW c \in Clients, ClientCreate(w, c) PROVE TypeOK' /\ LedgerStays'
      <3>1. worker' \in [Workers -> Request]
            BY <2>2, <1>i, GotoType DEF ClientCreate
      <3>2. client' \in [Clients -> ClientRow \cup {NoRow}]
            BY <2>2 DEF ClientCreate, ClientRow, OpenStatuses
      <3>3. QED
            BY <2>2, <3>1, <3>2 DEF ClientCreate, LedgerStays, Goto
    <2>3. ASSUME NEW c \in Clients, ApproveBegin(w, c) PROVE TypeOK' /\ LedgerStays'
      <3>1. [step |-> "approve", client |-> c] \in Request
            BY DEF Request
      <3>2. worker' \in [Workers -> Request]
            BY <2>3, <3>1, GotoType DEF ApproveBegin
      <3>3. QED
            BY <2>3, <3>2 DEF ApproveBegin, LedgerStays, Goto
    <2>4. ASSUME NEW b \in Bills, ApproveCreates(w, b) PROVE TypeOK' /\ LedgerStays'
      <3>1. [step |-> "link", client |-> worker[w].client, bill |-> b] \in Request
            BY <2>4, RequestFields DEF Request, ApproveCreates
      <3>2. worker' \in [Workers -> Request]
            BY <2>4, <3>1, GotoType DEF ApproveCreates
      <3>3. bill' \in [Bills -> BillStatuses \cup {"none"}]
            BY <2>4 DEF ApproveCreates, CreateBill, BillStatuses
      <3>4. QED
            BY <2>4, <3>2, <3>3 DEF ApproveCreates, LedgerStays, Goto
    <2>5. ASSUME NEW b \in Bills, VoidBegin(w, b) PROVE TypeOK' /\ LedgerStays'
      <3>1. [step |-> "void", bill |-> b] \in Request
            BY DEF Request
      <3>2. worker' \in [Workers -> Request]
            BY <2>5, <3>1, GotoType DEF VoidBegin
      <3>3. QED
            BY <2>5, <3>2 DEF VoidBegin, LedgerStays, Goto
    <2>6. CASE ApproveLinks(w)
      <3>1. worker' \in [Workers -> Request]
            BY <2>6, <1>i, GotoType DEF ApproveLinks
      <3>2. worker[w].client \in Clients /\ worker[w].bill \in Bills
            BY <2>6, RequestFields DEF ApproveLinks
      <3>3. client' \in [Clients -> ClientRow \cup {NoRow}]
            BY <2>6, <3>2 DEF ApproveLinks, ClientRow, OpenStatuses
      <3>4. QED
            BY <2>6, <3>1, <3>3 DEF ApproveLinks, LedgerStays, Goto
    <2>7. CASE VoidCommit(w)
      <3>1. worker' \in [Workers -> Request]
            BY <2>7, <1>i, GotoType DEF VoidCommit
      <3>2. bill' \in [Bills -> BillStatuses \cup {"none"}]
            BY <2>7 DEF VoidCommit, BillStatuses
      <3>3. QED
            BY <2>7, <3>1, <3>2 DEF VoidCommit, LedgerStays, Goto
    <2>8. CASE Abort(w)
      <3>1. worker' \in [Workers -> Request]
            BY <2>8, <1>i, GotoType DEF Abort
      <3>2. QED
            BY <2>8, <3>1 DEF Abort, LedgerStays, Goto
    <2>9. QED
          BY <1>1, <2>1, <2>2, <2>3, <2>4, <2>5, <2>6, <2>7, <2>8 DEF RequestStep
  <1>2. ASSUME NEW w \in Workers, PaymentStep(w) PROVE TypeOK' /\ LedgerStays'
    <2>1. ASSUME NEW b \in Bills, NEW exact \in BOOLEAN, RecordBegin(w, b, exact)
          PROVE TypeOK' /\ LedgerStays'
      <3>1. [step |-> "record", bill |-> b, exact |-> exact] \in Request
            BY DEF Request
      <3>2. worker' \in [Workers -> Request]
            BY <2>1, <3>1, GotoType DEF RecordBegin
      <3>3. QED
            BY <2>1, <3>2 DEF RecordBegin, LedgerStays, Goto
    <2>2. ASSUME NEW p \in Payments, RecordCommit(w, p) PROVE TypeOK' /\ LedgerStays'
      <3>1. worker' \in [Workers -> Request]
            BY <2>2, <1>i, GotoType DEF RecordCommit
      <3>2. worker[w].bill \in Bills /\ worker[w].exact \in BOOLEAN
            BY <2>2, RequestFields DEF RecordCommit
      <3>3. payment' \in [Payments -> PaymentRow \cup {NoRow}]
            BY <2>2, <3>2 DEF RecordCommit, PaymentRow
      <3>4. bill' \in [Bills -> BillStatuses \cup {"none"}]
            BY <2>2 DEF RecordCommit, BillStatuses
      <3>5. QED
            BY <2>2, <3>1, <3>3, <3>4 DEF RecordCommit, LedgerStays, Goto
    <2>3. ASSUME NEW p \in Payments, RejectBegin(w, p) PROVE TypeOK' /\ LedgerStays'
      <3>1. [step |-> "reject", payment |-> p] \in Request
            BY DEF Request
      <3>2. worker' \in [Workers -> Request]
            BY <2>3, <3>1, GotoType DEF RejectBegin
      <3>3. QED
            BY <2>3, <3>2 DEF RejectBegin, LedgerStays, Goto
    <2>4. ASSUME NEW p \in Payments, ConfirmBegin(w, p) PROVE TypeOK' /\ LedgerStays'
      <3>1. [step |-> "grant", grant |-> [payment |-> p, units |-> Units]] \in Request
            BY DEF Request, Grant
      <3>2. worker' \in [Workers -> Request]
            BY <2>4, <3>1, GotoType DEF ConfirmBegin
      <3>3. QED
            BY <2>4, <3>2 DEF ConfirmBegin, LedgerStays, Goto
    <2>5. CASE RejectCommit(w)
      <3>1. worker' \in [Workers -> Request]
            BY <2>5, <1>i, GotoType DEF RejectCommit
      <3>2. worker[w].payment \in Payments
            BY <2>5, RequestFields DEF RejectCommit
      <3>3. payment[worker[w].payment] \in PaymentRow
            BY <2>5, <3>2 DEF RejectCommit, RejectsRow
      <3>4. payment' \in [Payments -> PaymentRow \cup {NoRow}]
            BY <2>5, <3>2, <3>3 DEF RejectCommit, PaymentRow
      <3>5. bill' \in [Bills -> BillStatuses \cup {"none"}]
            BY <2>5 DEF RejectCommit, BillStatuses
      <3>6. QED
            BY <2>5, <3>1, <3>4, <3>5 DEF RejectCommit, LedgerStays, Goto
    <2>6. CASE ConfirmCommit(w)
      <3>1. worker' \in [Workers -> Request]
            BY <2>6, <1>i, GotoType DEF ConfirmCommit
      <3>2. worker[w].grant \in Grant /\ worker[w].ledger \in Ledger \cup {NoRow}
            BY <2>6, RequestFields DEF ConfirmCommit
      <3>3. worker[w].grant.payment \in Payments
            BY <2>6, <3>2, GrantFields DEF ConfirmCommit
      <3>4. payment[worker[w].grant.payment] \in PaymentRow
            BY <2>6, <3>3 DEF ConfirmCommit, GrantsExact
      <3>5. payment' \in [Payments -> PaymentRow \cup {NoRow}]
            BY <2>6, <3>3, <3>4 DEF ConfirmCommit, PaymentRow
      <3>6. bill' \in [Bills -> BillStatuses \cup {"none"}]
            BY <2>6 DEF ConfirmCommit, BillStatuses
      <3>7. fulfilled' \in [Bills -> Payments \cup {NoPayment}]
            BY <2>6, <3>3 DEF ConfirmCommit
      <3>8. sms = NoRow => worker[w].ledger = NoRow
            BY <2>6 DEF ConfirmCommit, LedgerStays
      <3>9. Granted(worker[w].ledger, Units) \in Ledger
            BY <3>2, <3>8, LedgerGranted
      <3>10. sms' \in Ledger
            BY <2>6, <3>9, Zenon DEF ConfirmCommit
      <3>11. UNCHANGED <<client, granted, budget>>
            BY <2>6 DEF ConfirmCommit
      <3>12. TypeOK'
            BY <3>1, <3>5, <3>6, <3>7, <3>10, <3>11
      <3>13. sms' # NoRow
            BY <3>10 DEF Ledger, NoRow
      <3>14. QED
            BY <3>12, <3>13 DEF LedgerStays
    <2>7. QED
          BY <1>2, <2>1, <2>2, <2>3, <2>4, <2>5, <2>6 DEF PaymentStep
  <1>3. ASSUME NEW w \in Workers, CreditStep(w) PROVE TypeOK' /\ LedgerStays'
    <2>1. ASSUME NEW units \in {1, -1}, AdjustBegin(w, units) PROVE TypeOK' /\ LedgerStays'
      <3>1. [step |-> "grant", grant |-> [payment |-> NoPayment, units |-> units]] \in Request
            BY DEF Request, Grant
      <3>2. worker' \in [Workers -> Request]
            BY <2>1, <3>1, GotoType DEF AdjustBegin
      <3>3. QED
            BY <2>1, <3>2 DEF AdjustBegin, LedgerStays, Goto
    <2>2. CASE GrantReads(w)
      <3>1. [step |-> "commit", grant |-> worker[w].grant, ledger |-> sms] \in Request
            BY <2>2, RequestFields DEF Request, GrantReads
      <3>2. worker' \in [Workers -> Request]
            BY <2>2, <3>1, GotoType DEF GrantReads
      <3>3. QED
            BY <2>2, <3>2 DEF GrantReads, LedgerStays, Goto
    <2>3. CASE AdjustCommit(w)
      <3>1. worker' \in [Workers -> Request]
            BY <2>3, <1>i, GotoType DEF AdjustCommit
      <3>2. worker[w].grant \in Grant /\ worker[w].ledger \in Ledger \cup {NoRow}
            BY <2>3, RequestFields DEF AdjustCommit
      <3>3. worker[w].grant.units \in Int
            BY <3>2, GrantFields
      <3>4. sms = NoRow => worker[w].ledger = NoRow
            BY <2>3 DEF AdjustCommit, LedgerStays
      <3>5. sms' \in Ledger
            BY <2>3, <3>2, <3>3, <3>4, LedgerGranted DEF AdjustCommit
      <3>6. granted' \in Nat
            BY <2>3, <3>3 DEF AdjustCommit
      <3>7. QED
            BY <2>3, <3>1, <3>5, <3>6 DEF AdjustCommit, LedgerStays, Goto, Ledger
    <2>4. CASE SendBegin(w)
      <3>1. [step |-> "send"] \in Request
            BY DEF Request
      <3>2. worker' \in [Workers -> Request]
            BY <2>4, <3>1, GotoType DEF SendBegin
      <3>3. sms # NoRow /\ sends' \in 0 .. MaxSends
            BY <2>4 DEF SendBegin, Remaining
      <3>4. QED
            BY <2>4, <3>2, <3>3 DEF SendBegin, LedgerStays, Goto
    <2>5. CASE SendConsumes(w)
      <3>1. worker' \in [Workers -> Request]
            BY <2>5, <1>i, GotoType DEF SendConsumes
      <3>2. sms \in Ledger
            BY <2>5 DEF SendConsumes, LedgerStays
      <3>3. sms' \in Ledger
            BY <2>5, <3>2 DEF SendConsumes, Ledger
      <3>4. QED
            BY <2>5, <3>1, <3>3 DEF SendConsumes, LedgerStays, Goto, Ledger
    <2>6. QED
          BY <1>3, <2>1, <2>2, <2>3, <2>4, <2>5 DEF CreditStep
  <1>4. ASSUME NEW c \in Clients, ClientStep(c) PROVE TypeOK' /\ LedgerStays'
    <2>1. PICK from \in SUBSET OpenStatuses, to \in {"cancelled", "under_review", "declined"} :
            ClientDecide(c, from, to)
          BY <1>4 DEF ClientStep, OpenStatuses
    <2>2. client[c] \in ClientRow
          BY <2>1 DEF ClientDecide, OpenStatuses
    <2>3. client' \in [Clients -> ClientRow \cup {NoRow}]
          BY <2>1, <2>2 DEF ClientDecide, ClientRow, OpenStatuses
    <2>4. QED
          BY <2>1, <2>3 DEF ClientDecide, LedgerStays
  <1>5. ASSUME NEW b \in Bills, AdminCreatesBill(b) PROVE TypeOK' /\ LedgerStays'
    <2>1. bill' \in [Bills -> BillStatuses \cup {"none"}]
          BY <1>5 DEF AdminCreatesBill, CreateBill, BillStatuses
    <2>2. QED
          BY <1>5, <2>1 DEF AdminCreatesBill, LedgerStays
  <1>6. CASE MeterCreates
    <2>1. sms' \in Ledger
          BY <1>6 DEF MeterCreates, Ledger
    <2>2. QED
          BY <1>6, <2>1 DEF MeterCreates, LedgerStays, Ledger
  <1>7. CASE UNCHANGED vars
        BY <1>7 DEF vars, LedgerStays
  <1>8. QED
        BY <1>1, <1>2, <1>3, <1>4, <1>5, <1>6, <1>7 DEF Next
-----------------------------------------------------------------------------
(* What a step can change *)

\* The steps after which a request knows something of the rows.
Learns(w) == \/ \E b \in Bills : ApproveCreates(w, b)
             \/ \E p \in Payments : RejectBegin(w, p) \/ ConfirmBegin(w, p)
             \/ \E units \in {1, -1} : AdjustBegin(w, units)
             \/ GrantReads(w)

LEMMA WorkerMoves ==
    ASSUME TypeOK, [Next]_vars, NEW w \in Workers
    PROVE  \/ worker'[w] = worker[w]
           \/ worker'[w].step \in {"idle", "clientCreate", "approve", "record", "void", "send"}
           \/ Learns(w)
  <1> USE DEF TypeOK, Goto, rows, budget
  <1>1. ASSUME NEW v \in Workers, RequestStep(v) PROVE worker'[w] = worker[w] \/
               worker'[w].step \in {"idle", "clientCreate", "approve", "record", "void", "send"} \/
               Learns(w)
        BY <1>1 DEF RequestStep, ClientCreateBegin, ClientCreate, ApproveBegin, ApproveCreates,
                    VoidBegin, ApproveLinks, VoidCommit, Abort, Learns
  <1>2. ASSUME NEW v \in Workers, PaymentStep(v) PROVE worker'[w] = worker[w] \/
               worker'[w].step \in {"idle", "clientCreate", "approve", "record", "void", "send"} \/
               Learns(w)
    <2>1. ASSUME NEW state, Goto(v, state), state.step \in {"idle", "record"}
          PROVE  worker'[w] = worker[w] \/ worker'[w].step \in {"idle", "record"}
          BY <2>1
    <2>2. ASSUME NEW b \in Bills, NEW exact \in BOOLEAN, RecordBegin(v, b, exact)
          PROVE  worker'[w] = worker[w] \/ worker'[w].step \in {"idle", "record"}
          BY <2>2, <2>1 DEF RecordBegin
    <2>3. CASE (\E p \in Payments : RecordCommit(v, p)) \/ RejectCommit(v) \/ ConfirmCommit(v)
      <3>1. Goto(v, Idle)
            BY <2>3 DEF RecordCommit, RejectCommit, ConfirmCommit
      <3> QED BY <2>1, <3>1 DEF Idle
    <2>4. ASSUME NEW p \in Payments, RejectBegin(v, p) \/ ConfirmBegin(v, p)
          PROVE  worker'[w] = worker[w] \/ v = w
          BY <2>4 DEF RejectBegin, ConfirmBegin
    <2> QED BY <1>2, <2>2, <2>3, <2>4 DEF PaymentStep, Learns
  <1>3. ASSUME NEW v \in Workers, CreditStep(v) PROVE worker'[w] = worker[w] \/
               worker'[w].step \in {"idle", "clientCreate", "approve", "record", "void", "send"} \/
               Learns(w)
        BY <1>3 DEF CreditStep, AdjustBegin, GrantReads, AdjustCommit, SendBegin, SendConsumes,
                    Learns
  <1>4. QED
        BY <1>1, <1>2, <1>3 DEF Next, vars, ClientStep, ClientDecide, AdminCreatesBill, MeterCreates

LEMMA PaymentMoves ==
    ASSUME [Next]_vars
    PROVE  \/ payment' = payment /\ fulfilled' = fulfilled
           \/ \E w \in Workers : \/ \E p \in Payments : RecordCommit(w, p)
                                 \/ RejectCommit(w)
                                 \/ ConfirmCommit(w)
  <1> USE DEF rows, budget
  <1>1. ASSUME NEW w \in Workers, RequestStep(w) PROVE payment' = payment /\ fulfilled' = fulfilled
        BY <1>1 DEF RequestStep, ClientCreateBegin, ClientCreate, ApproveBegin, ApproveCreates,
                    VoidBegin, ApproveLinks, VoidCommit, Abort
  <1>2. ASSUME NEW w \in Workers, CreditStep(w) PROVE payment' = payment /\ fulfilled' = fulfilled
        BY <1>2 DEF CreditStep, AdjustBegin, GrantReads, AdjustCommit, SendBegin, SendConsumes
  <1>3. ASSUME NEW w \in Workers, PaymentStep(w)
        PROVE  \/ payment' = payment /\ fulfilled' = fulfilled
               \/ \E p \in Payments : RecordCommit(w, p)
               \/ RejectCommit(w)
               \/ ConfirmCommit(w)
        BY <1>3 DEF PaymentStep, RecordBegin, RejectBegin, ConfirmBegin
  <1>4. QED
        BY <1>1, <1>2, <1>3 DEF Next, vars, ClientStep, ClientDecide, AdminCreatesBill, MeterCreates

\* Rows of manual_payments stay, and so do the request and the amount of each.
LEMMA PaymentsStay ==
    ASSUME TypeOK, InFlight, [Next]_vars, NEW p \in Payments, payment[p] # NoRow
    PROVE  /\ payment'[p] # NoRow
           /\ payment'[p].bill = payment[p].bill /\ payment'[p].exact = payment[p].exact
  <1> USE DEF TypeOK
  <1>1. payment[p] \in PaymentRow
        OBVIOUS
  <1>2. ASSUME NEW w \in Workers, NEW q \in Payments, RecordCommit(w, q)
        PROVE  payment'[p] = payment[p]
        BY <1>2 DEF RecordCommit
  <1>3. ASSUME NEW w \in Workers, RejectCommit(w)
        PROVE  payment'[p] = payment[p] \/ payment'[p] = [payment[p] EXCEPT !.status = "rejected"]
        BY <1>3 DEF RejectCommit
  <1>4. ASSUME NEW w \in Workers, ConfirmCommit(w)
        PROVE  payment'[p] = payment[p] \/ payment'[p] = [payment[p] EXCEPT !.status = "verified"]
        BY <1>4 DEF ConfirmCommit
  <1>5. \/ payment'[p] = payment[p]
        \/ payment'[p] = [payment[p] EXCEPT !.status = "rejected"]
        \/ payment'[p] = [payment[p] EXCEPT !.status = "verified"]
        BY <1>2, <1>3, <1>4, PaymentMoves
  <1>6. QED
        BY <1>1, <1>5 DEF PaymentRow
-----------------------------------------------------------------------------
(* The type invariant, with what a request in flight knows *)

LEMMA InFlightStep == TypeOK /\ InFlight /\ [Next]_vars => InFlight'
  <1> SUFFICES ASSUME TypeOK, InFlight, [Next]_vars PROVE GrantsExact' /\ RejectsRow'
      BY TypeStep DEF InFlight
  <1>1. ASSUME NEW w \in Workers, worker'[w].step \in {"grant", "commit"},
               worker'[w].grant.payment # NoPayment
        PROVE  /\ payment'[worker'[w].grant.payment] # NoRow
               /\ payment'[worker'[w].grant.payment].exact
    <2>1. CASE worker'[w] = worker[w]
      <3>1. worker[w].grant.payment \in Payments
            BY <1>1, <2>1, RequestFields, GrantFields
      <3>2. QED
            BY <1>1, <2>1, <3>1, PaymentsStay DEF InFlight, GrantsExact
    <2>2. CASE Learns(w)
      <3>1. ASSUME NEW p \in Payments, ConfirmBegin(w, p)
            PROVE  payment'[worker'[w].grant.payment] # NoRow
                   /\ payment'[worker'[w].grant.payment].exact
            BY <3>1 DEF ConfirmBegin, Confirmable, Goto, rows, TypeOK
      <3>2. ASSUME NEW b \in Bills, ApproveCreates(w, b) PROVE FALSE
            BY <1>1, <3>2 DEF ApproveCreates, Goto, TypeOK
      <3>3. ASSUME NEW p \in Payments, RejectBegin(w, p) PROVE FALSE
            BY <1>1, <3>3 DEF RejectBegin, Goto, TypeOK
      <3>4. ASSUME NEW units \in {1, -1}, AdjustBegin(w, units) PROVE FALSE
            BY <1>1, <3>4 DEF AdjustBegin, Goto, TypeOK
      <3>5. CASE GrantReads(w)
        <4>1. worker'[w].grant = worker[w].grant /\ worker[w].step = "grant" /\ payment' = payment
              BY <3>5 DEF GrantReads, Goto, rows, TypeOK
        <4>2. QED
              BY <1>1, <4>1 DEF InFlight, GrantsExact
      <3>6. QED
            BY <2>2, <3>1, <3>2, <3>3, <3>4, <3>5 DEF Learns
    <2>3. QED
          BY <1>1, <2>1, <2>2, WorkerMoves
  <1>2. ASSUME NEW w \in Workers, worker'[w].step = "reject"
        PROVE  payment'[worker'[w].payment] # NoRow
    <2>1. CASE worker'[w] = worker[w]
          BY <1>2, <2>1, RequestFields, PaymentsStay DEF InFlight, RejectsRow
    <2>2. CASE Learns(w)
      <3>1. ASSUME NEW p \in Payments, RejectBegin(w, p) PROVE payment'[worker'[w].payment] # NoRow
            BY <3>1 DEF RejectBegin, Goto, rows, TypeOK
      <3>2. ASSUME NEW b \in Bills, ApproveCreates(w, b) PROVE FALSE
            BY <1>2, <3>2 DEF ApproveCreates, Goto, TypeOK
      <3>3. ASSUME NEW p \in Payments, ConfirmBegin(w, p) PROVE FALSE
            BY <1>2, <3>3 DEF ConfirmBegin, Goto, TypeOK
      <3>4. ASSUME NEW units \in {1, -1}, AdjustBegin(w, units) PROVE FALSE
            BY <1>2, <3>4 DEF AdjustBegin, Goto, TypeOK
      <3>5. ASSUME GrantReads(w) PROVE FALSE
            BY <1>2, <3>5 DEF GrantReads, Goto, TypeOK
      <3>6. QED
            BY <2>2, <3>1, <3>2, <3>3, <3>4, <3>5 DEF Learns
    <2>3. QED
          BY <1>2, <2>1, <2>2, WorkerMoves
  <1>3. QED
        BY <1>1, <1>2 DEF GrantsExact, RejectsRow

\* Every row keeps the form the handlers expect, whatever requests overlap: a payment that
\* a request is about to settle and a ledger it is about to update are still there.
THEOREM TypeCorrect == Spec => [](TypeOK /\ InFlight)
  <1>1. Init => TypeOK /\ InFlight
        BY TypeInit DEF Init, InFlight, GrantsExact, RejectsRow, LedgerStays
  <1>2. TypeOK /\ InFlight /\ [Next]_vars => TypeOK' /\ InFlight'
        BY TypeStep, InFlightStep
  <1>3. QED
        BY <1>1, <1>2, PTL DEF Spec
-----------------------------------------------------------------------------
(* A payment is verified only as the one that fulfilled its request *)

LEMMA FulfilStep ==
    TypeOK /\ InFlight /\ VerifiedFulfils /\ [Next]_vars => VerifiedFulfils'
  <1> SUFFICES ASSUME TypeOK, InFlight, VerifiedFulfils, [Next]_vars PROVE VerifiedFulfils'
      OBVIOUS
  <1>t. \A b \in Bills : fulfilled[b] # NoPayment => fulfilled[b] \in Payments
        BY DEF TypeOK
  <1>1. CASE payment' = payment /\ fulfilled' = fulfilled
        BY <1>1 DEF VerifiedFulfils
  <1>2. ASSUME NEW w \in Workers, NEW p \in Payments, RecordCommit(w, p) PROVE VerifiedFulfils'
    <2>1. fulfilled' = fulfilled /\ payment'[p].status = "pending"
          BY <1>2 DEF RecordCommit, TypeOK
    <2>2. \A q \in Payments \ {p} : payment'[q] = payment[q]
          BY <1>2 DEF RecordCommit, TypeOK
    <2>3. \A b \in Bills : fulfilled[b] # NoPayment => fulfilled[b] # p
          BY <1>2 DEF RecordCommit, VerifiedFulfils
    <2>4. QED
          BY <1>t, <2>1, <2>2, <2>3 DEF VerifiedFulfils
  <1>3. ASSUME NEW w \in Workers, RejectCommit(w) PROVE VerifiedFulfils'
    <2>1. fulfilled' = fulfilled
          BY <1>3 DEF RejectCommit
    <2>2. \A p \in Payments : payment'[p].status = "verified" => payment'[p] = payment[p]
          BY <1>3 DEF RejectCommit, TypeOK, PaymentRow
    <2>3. QED
          BY <1>t, <2>1, <2>2, PaymentsStay DEF VerifiedFulfils
  <1>4. ASSUME NEW w \in Workers, ConfirmCommit(w) PROVE VerifiedFulfils'
    <2> DEFINE p == worker[w].grant.payment
               b == payment[p].bill
    <2>1. p \in Payments /\ payment[p] # NoRow /\ payment[p].exact
          BY <1>4, RequestFields, GrantFields DEF ConfirmCommit, InFlight, GrantsExact
    <2>2. payment[p] \in PaymentRow /\ b \in Bills
          BY <2>1 DEF TypeOK, PaymentRow
    <2>3. /\ fulfilled[b] = NoPayment /\ fulfilled' = [fulfilled EXCEPT ![b] = p]
          /\ payment' = [payment EXCEPT ![p].status = "verified"]
          BY <1>4 DEF ConfirmCommit
    <2> HIDE DEF p, b
    <2>4. payment'[p].bill = b /\ payment'[p].exact /\ payment'[p] # NoRow
          BY <2>1, PaymentsStay DEF b
    <2>5. \A q \in Payments \ {p} : payment'[q] = payment[q]
          BY <2>3 DEF TypeOK
    <2>6. fulfilled'[b] = p /\ \A a \in Bills \ {b} : fulfilled'[a] = fulfilled[a]
          BY <2>2, <2>3 DEF TypeOK
    <2>7. ASSUME NEW q \in Payments, payment'[q].status = "verified"
          PROVE  fulfilled'[payment'[q].bill] = q
      <3>1. CASE q = p
            BY <3>1, <2>4, <2>6
      <3>2. CASE q # p
        <4>1. payment[q].status = "verified" /\ payment'[q].bill = payment[q].bill
              BY <3>2, <2>5, <2>7
        <4>2. fulfilled[payment[q].bill] = q /\ payment[q].bill \in Bills
              BY <4>1 DEF VerifiedFulfils, TypeOK, PaymentRow
        <4>3. payment[q].bill # b
              BY <4>2, <2>3 
        <4>4. QED
              BY <4>1, <4>2, <4>3, <2>6
      <3>3. QED
            BY <3>1, <3>2
    <2>8. ASSUME NEW a \in Bills, fulfilled'[a] # NoPayment
          PROVE  /\ payment'[fulfilled'[a]] # NoRow
                 /\ payment'[fulfilled'[a]].bill = a /\ payment'[fulfilled'[a]].exact
          BY <1>t, <2>4, <2>6, <2>8, PaymentsStay DEF VerifiedFulfils
    <2>9. QED
          BY <2>7, <2>8 DEF VerifiedFulfils
  <1>5. QED
        BY <1>1, <1>2, <1>3, <1>4, PaymentMoves

\* The unique fulfilment of a request's item is enough: for any number of payments of a
\* request, confirmed, rejected and voided at once, one at most is verified, and it is of
\* the right amount.
THEOREM VerifiedPaymentsFulfil == Spec => []VerifiedFulfils
  <1>1. Init => VerifiedFulfils
        BY DEF Init, VerifiedFulfils
  <1>2. TypeOK /\ InFlight /\ VerifiedFulfils /\ [Next]_vars => VerifiedFulfils'
        BY FulfilStep
  <1>3. QED
        BY <1>1, <1>2, TypeCorrect, PTL DEF Spec
-----------------------------------------------------------------------------
(* The add-on credits are backed by fulfilments and adjustments *)

Fulfilled == {b \in Bills : fulfilled[b] # NoPayment}

LEMMA SumGrows == \A i, j, n \in Nat : i <= j => i + n <= j + n
  OBVIOUS

LEMMA BackingNat == TypeOK => Backing \in Nat
  <1>1. IsFiniteSet(Fulfilled)
        BY FS_Subset DEF Fulfilled
  <1>2. Cardinality(Fulfilled) \in Nat
        BY <1>1, FS_CardinalityType
  <1>3. ASSUME NEW n \in Nat, granted \in Nat PROVE granted + Units * n \in Nat
        BY <1>3
  <1>4. QED
        BY <1>2, <1>3 DEF Backing, Fulfilled, TypeOK

LEMMA BackingNatNext == (TypeOK => Backing \in Nat)'
  BY BackingNat, PTL

\* A confirmation adds its units to the backing.
LEMMA ConfirmBacks ==
    ASSUME TypeOK, InFlight, NEW w \in Workers, ConfirmCommit(w)
    PROVE  Backing' = Backing + Units
  <1> DEFINE b == payment[worker[w].grant.payment].bill
  <1>1. b \in Bills
    <2>1. worker[w].grant.payment \in Payments
          BY RequestFields, GrantFields DEF ConfirmCommit
    <2>2. QED
          BY <2>1 DEF ConfirmCommit, InFlight, GrantsExact, TypeOK, PaymentRow
  <1>2. fulfilled[b] = NoPayment /\ fulfilled' = [fulfilled EXCEPT ![b] = worker[w].grant.payment]
        /\ worker[w].grant.payment # NoPayment /\ granted' = granted
        BY DEF ConfirmCommit
  <1> HIDE DEF b
  <1>3. Fulfilled' = Fulfilled \cup {b} /\ b \notin Fulfilled
        BY <1>1, <1>2 DEF Fulfilled, TypeOK
  <1>4. IsFiniteSet(Fulfilled)
        BY FS_Subset DEF Fulfilled
  <1>5. Cardinality(Fulfilled') = Cardinality(Fulfilled) + 1
        BY <1>3, <1>4, FS_AddElement
  <1>6. Cardinality(Fulfilled) \in Nat
        BY <1>4, FS_CardinalityType
  <1>7. ASSUME NEW n \in Nat PROVE granted + Units * (n + 1) = granted + Units * n + Units
        BY DEF TypeOK
  <1>8. Backing = granted + Units * Cardinality(Fulfilled)
        /\ Backing' = granted' + Units * Cardinality(Fulfilled')
        BY DEF Backing, Fulfilled
  <1>9. QED
        BY <1>2, <1>5, <1>6, <1>7, <1>8

LEMMA BackingGrows ==
    ASSUME TypeOK, InFlight, [Next]_vars PROVE Backing <= Backing'
  <1>1. ASSUME NEW w \in Workers, ConfirmCommit(w) PROVE Backing <= Backing'
        BY <1>1, ConfirmBacks, BackingNat
  <1>2. ASSUME fulfilled' = fulfilled PROVE Backing <= Backing'
    <2>1. granted <= granted'
      <3>1. ASSUME NEW w \in Workers, RequestStep(w) \/ PaymentStep(w) PROVE granted' = granted
            BY <3>1 DEF RequestStep, ClientCreateBegin, ClientCreate, ApproveBegin,
                        ApproveCreates, VoidBegin, ApproveLinks, VoidCommit, Abort, PaymentStep,
                        RecordBegin, RecordCommit, RejectBegin, ConfirmBegin, RejectCommit,
                        ConfirmCommit
      <3>2. ASSUME NEW w \in Workers, CreditStep(w), ~AdjustCommit(w) PROVE granted' = granted
            BY <3>2 DEF CreditStep, AdjustBegin, GrantReads, SendBegin, SendConsumes
      <3>3. ASSUME NEW w \in Workers, AdjustCommit(w) PROVE granted <= granted'
        <4>1. worker[w].grant.units \in Int
              BY <3>3, RequestFields, GrantFields DEF AdjustCommit
        <4>2. QED
              BY <3>3, <4>1 DEF AdjustCommit, TypeOK
      <3>4. QED
            BY <3>1, <3>2, <3>3 DEF Next, vars, ClientStep, ClientDecide, AdminCreatesBill,
                                    MeterCreates, TypeOK
    <2>2. granted \in Nat /\ granted' \in Nat
          BY TypeStep DEF TypeOK
    <2>3. Cardinality(Fulfilled) \in Nat /\ Fulfilled' = Fulfilled
          BY <1>2, FS_Subset, FS_CardinalityType DEF Fulfilled
    <2>4. Units * Cardinality(Fulfilled) \in Nat
      <3>1. ASSUME NEW n \in Nat PROVE Units * n \in Nat
            BY <3>1
      <3>2. QED
            BY <2>3, <3>1
    <2> DEFINE units == Units * Cardinality(Fulfilled)
    <2>5. Backing = granted + Units * Cardinality(Fulfilled)
          BY DEF Backing, Fulfilled
    <2>6. Backing' = granted' + units
          BY <2>3 DEF Backing, Fulfilled
    <2> HIDE DEF units
    <2>8. units \in Nat
          BY <2>4 DEF units
    <2>9. Backing = granted + units
          BY <2>5 DEF units
    <2>10. QED
          BY <2>1, <2>2, <2>6, <2>8, <2>9, SumGrows, Zenon
  <1>3. ASSUME NEW w \in Workers, (\E p \in Payments : RecordCommit(w, p)) \/ RejectCommit(w)
        PROVE  fulfilled' = fulfilled
        BY <1>3 DEF RecordCommit, RejectCommit
  <1>4. QED
        BY <1>1, <1>2, <1>3, PaymentMoves

\* No grant in flight has read more than was ever added, and none writes more.
LEMMA CreditStepBacked ==
    TypeOK /\ InFlight /\ CreditsBacked /\ ReadsBacked /\ [Next]_vars
        => CreditsBacked' /\ ReadsBacked'
  <1> SUFFICES ASSUME TypeOK, InFlight, CreditsBacked, ReadsBacked, [Next]_vars
               PROVE  CreditsBacked' /\ ReadsBacked'
      OBVIOUS
  <1>n. Backing \in Nat /\ Backing' \in Nat /\ Backing <= Backing'
        BY BackingNat, BackingNatNext, BackingGrows, TypeStep
  <1>c. (CreditsBacked <=> (sms # NoRow => sms.addon <= Backing))
        /\ (CreditsBacked' <=> (sms' # NoRow => sms'.addon <= Backing'))
        BY DEF CreditsBacked, Backing
  <1>1. ASSUME NEW w \in Workers, worker'[w].step = "commit", worker'[w].ledger # NoRow
        PROVE  worker'[w].ledger.addon <= Backing'
    <2>1. CASE worker'[w] = worker[w]
      <3>1. worker[w].ledger \in Ledger /\ worker[w].ledger.addon <= Backing
            BY <1>1, <2>1, RequestFields DEF ReadsBacked
      <3>2. QED
            BY <1>n, <2>1, <3>1 DEF Ledger
    <2>2. CASE Learns(w)
      <3>1. ASSUME NEW p \in Payments, RejectBegin(w, p) \/ ConfirmBegin(w, p) PROVE FALSE
            BY <1>1, <3>1 DEF RejectBegin, ConfirmBegin, Goto, TypeOK
      <3>2. ASSUME NEW b \in Bills, ApproveCreates(w, b) PROVE FALSE
            BY <1>1, <3>2 DEF ApproveCreates, Goto, TypeOK
      <3>3. ASSUME NEW units \in {1, -1}, AdjustBegin(w, units) PROVE FALSE
            BY <1>1, <3>3 DEF AdjustBegin, Goto, TypeOK
      <3>4. CASE GrantReads(w)
        <4>1. worker'[w].ledger = sms
              BY <3>4 DEF GrantReads, Goto, TypeOK
        <4>2. sms \in Ledger /\ sms.addon <= Backing
              BY <1>1, <1>c, <4>1 DEF TypeOK
        <4>3. QED
              BY <1>n, <4>1, <4>2 DEF Ledger
      <3>5. QED
            BY <2>2, <3>1, <3>2, <3>3, <3>4 DEF Learns
    <2>3. QED
          BY <1>1, <2>1, <2>2, WorkerMoves
  <1>2. CreditsBacked'
    <2>1. CASE UNCHANGED sms
          BY <1>n, <1>c, <2>1 DEF TypeOK, Ledger
    <2>2. ASSUME NEW w \in Workers, ConfirmCommit(w) PROVE CreditsBacked'
      <3> DEFINE ledger == worker[w].ledger
                 read == IF ledger = NoRow THEN 0 ELSE ledger.addon
      <3>1. ledger \in Ledger \cup {NoRow} /\ (sms = NoRow => ledger = NoRow)
            BY <2>2, RequestFields DEF ConfirmCommit, InFlight, LedgerStays
      <3>2. read \in Int /\ read <= Backing
            BY <1>n, <2>2, <3>1 DEF ConfirmCommit, ReadsBacked, Ledger
      <3>3. Granted(ledger, Units).addon = read + Units
            BY <3>1, LedgerGranted DEF TypeOK
      <3>4. sms' = Granted(ledger, Units)
            BY <2>2 DEF ConfirmCommit
      <3>5. Backing' = Backing + Units
            BY <2>2, ConfirmBacks
      <3> HIDE DEF read, ledger
      <3>6. read + Units <= Backing'
            BY <1>n, <3>2, <3>5
      <3>7. sms'.addon <= Backing'
            BY <3>3, <3>4, <3>6
      <3>8. QED
            BY <1>c, <3>7
    <2>3. ASSUME NEW w \in Workers, AdjustCommit(w) PROVE CreditsBacked'
      <3> DEFINE ledger == worker[w].ledger
                 units == worker[w].grant.units
                 read == IF ledger = NoRow THEN 0 ELSE ledger.addon
      <3>1. ledger \in Ledger \cup {NoRow} /\ (sms = NoRow => ledger = NoRow)
            BY <2>3, RequestFields DEF AdjustCommit, InFlight, LedgerStays
      <3>2. read \in Int /\ read <= Backing
            BY <1>n, <2>3, <3>1 DEF AdjustCommit, ReadsBacked, Ledger
      <3>u. units \in Int
            BY <2>3, RequestFields, GrantFields DEF AdjustCommit
      <3>3. Granted(ledger, units).addon = read + units
            BY <3>1, <3>u, LedgerGranted DEF TypeOK
      <3>4. sms' = Granted(ledger, units) /\ granted' = granted + (IF units > 0 THEN units ELSE 0)
            /\ fulfilled' = fulfilled
            BY <2>3 DEF AdjustCommit, rows
      <3> DEFINE bought == Units * Cardinality(Fulfilled)
      <3>5. Backing = granted + bought /\ Backing' = granted' + bought
        <4>1. Fulfilled' = Fulfilled
              BY <3>4 DEF Fulfilled
        <4>2. QED
              BY <4>1 DEF Backing, Fulfilled
      <3>6. bought \in Nat
        <4>1. Cardinality(Fulfilled) \in Nat
              BY FS_Subset, FS_CardinalityType DEF Fulfilled
        <4>2. ASSUME NEW n \in Nat PROVE Units * n \in Nat
              BY <4>2
        <4>3. QED
              BY <4>1, <4>2
      <3> HIDE DEF read, ledger, units, bought
      <3>7. read + units <= Backing'
            BY <1>n, <3>2, <3>u, <3>4, <3>5, <3>6 DEF TypeOK
      <3>8. sms'.addon <= Backing'
            BY <3>3, <3>4, <3>7
      <3>9. QED
            BY <1>c, <3>8
    <2>4. ASSUME NEW w \in Workers, SendConsumes(w) PROVE CreditsBacked'
      <3>1. sms \in Ledger /\ sms' = [sms EXCEPT !.used = @ + 1]
            BY <2>4 DEF SendConsumes, InFlight, LedgerStays, TypeOK
      <3>2. sms'.addon = sms.addon /\ sms.addon \in Int /\ sms # NoRow
            BY <3>1 DEF Ledger
      <3>3. QED
            BY <1>n, <1>c, <3>2
    <2>5. CASE MeterCreates
      <3>1. sms'.addon = 0
            BY <2>5 DEF MeterCreates
      <3>2. QED
            BY <1>n, <1>c, <3>1
    <2>6. ASSUME NEW w \in Workers, RequestStep(w) PROVE UNCHANGED sms
          BY <2>6 DEF RequestStep, ClientCreateBegin, ClientCreate, ApproveBegin,
                      ApproveCreates, VoidBegin, ApproveLinks, VoidCommit, Abort
    <2>7. ASSUME NEW w \in Workers, PaymentStep(w) PROVE UNCHANGED sms \/ ConfirmCommit(w)
          BY <2>7 DEF PaymentStep, RecordBegin, RecordCommit, RejectBegin, ConfirmBegin,
                      RejectCommit
    <2>8. ASSUME NEW w \in Workers, CreditStep(w)
          PROVE  UNCHANGED sms \/ AdjustCommit(w) \/ SendConsumes(w)
          BY <2>8 DEF CreditStep, AdjustBegin, GrantReads, SendBegin
    <2>9. QED
          BY <2>1, <2>2, <2>3, <2>4, <2>5, <2>6, <2>7, <2>8
          DEF Next, vars, ClientStep, ClientDecide, AdminCreatesBill
  <1>3. QED
        BY <1>1, <1>2 DEF ReadsBacked

\* However many grants and adjustments read the same ledger and write over each other, it
\* never has more add-on credits than fulfilments and adjustments have added.
THEOREM CreditsAreBacked == Spec => []CreditsBacked
  <1>1. Init => CreditsBacked /\ ReadsBacked
        BY DEF Init, CreditsBacked, ReadsBacked
  <1>2. TypeOK /\ InFlight /\ (CreditsBacked /\ ReadsBacked) /\ [Next]_vars
            => CreditsBacked' /\ ReadsBacked'
        BY CreditStepBacked
  <1>3. QED
        BY <1>1, <1>2, TypeCorrect, PTL DEF Spec
-----------------------------------------------------------------------------
(* Client requests *)

ClientMoves(c) == \/ client'[c] = client[c]
                  \/ /\ client[c] = NoRow \/ client[c].status \in OpenStatuses
                     /\ client'[c].status \in OpenStatuses \cup {"declined", "cancelled"}

\* A client request moves only from an open status, and to "approved" only when linked.
LEMMA ClientChanges ==
    ASSUME TypeOK, [Next]_vars
    PROVE  \/ \A c \in Clients : ClientMoves(c)
           \/ \E w \in Workers : ApproveLinks(w)
  <1> USE DEF TypeOK, rows, ClientMoves
  <1>1. ASSUME NEW w \in Workers, NEW c \in Clients, ClientCreate(w, c)
        PROVE  \A d \in Clients : ClientMoves(d)
        BY <1>1 DEF ClientCreate, OpenStatuses
  <1>2. ASSUME NEW w \in Workers, RequestStep(w)
        PROVE  client' = client \/ ApproveLinks(w) \/ \E c \in Clients : ClientCreate(w, c)
        BY <1>2 DEF RequestStep, ClientCreateBegin, ApproveBegin, ApproveCreates, VoidBegin,
                    VoidCommit, Abort
  <1>3. ASSUME NEW w \in Workers, PaymentStep(w) PROVE client' = client
        BY <1>3 DEF PaymentStep, RecordBegin, RecordCommit, RejectBegin, ConfirmBegin,
                    RejectCommit, ConfirmCommit
  <1>4. ASSUME NEW w \in Workers, CreditStep(w) PROVE client' = client
        BY <1>4 DEF CreditStep, AdjustBegin, GrantReads, AdjustCommit, SendBegin, SendConsumes
  <1>5. ASSUME NEW c \in Clients, ClientStep(c) PROVE \A d \in Clients : ClientMoves(d)
    <2>1. PICK from \in SUBSET OpenStatuses, to \in {"cancelled", "under_review", "declined"} :
            ClientDecide(c, from, to)
          BY <1>5 DEF ClientStep, OpenStatuses
    <2>2. client[c] \in ClientRow
          BY <2>1 DEF ClientDecide, OpenStatuses
    <2>3. client'[c].status = to
          BY <2>1, <2>2 DEF ClientDecide, ClientRow
    <2>4. QED
          BY <2>1, <2>3 DEF ClientDecide, OpenStatuses
  <1>6. QED
        BY <1>1, <1>2, <1>3, <1>4, <1>5 DEF Next, vars, AdminCreatesBill, MeterCreates

\* A decision about a client request is final: an approval that began before it, and has
\* created its billing request since, does not undo it.
THEOREM DecisionsAreKept == Spec => DecisionsStay
  <1>1. TypeOK /\ [Next]_vars =>
            [\A c \in Clients : client[c].status \in {"approved", "declined", "cancelled"} =>
                client'[c] = client[c]]_vars
    <2> SUFFICES ASSUME TypeOK, [Next]_vars, NEW c \in Clients,
                        client[c].status \in {"approved", "declined", "cancelled"}
                 PROVE  client'[c] = client[c]
        OBVIOUS
    <2>1. CASE \A d \in Clients : ClientMoves(d)
          BY <2>1 DEF ClientMoves, OpenStatuses
    <2>2. ASSUME NEW w \in Workers, ApproveLinks(w) PROVE client'[c] = client[c]
          BY <2>2 DEF ApproveLinks, OpenStatuses, TypeOK
    <2>3. QED
          BY <2>1, <2>2, ClientChanges
  <1>2. QED
        BY <1>1, TypeCorrect, PTL DEF Spec, DecisionsStay

LEMMA BillsStay == ASSUME TypeOK, [Next]_vars, NEW b \in Bills, bill[b] # "none"
                   PROVE  bill'[b] # "none"
  <1> USE DEF TypeOK, rows
  <1>1. ASSUME NEW w \in Workers, RequestStep(w) PROVE bill'[b] # "none"
        BY <1>1 DEF RequestStep, ClientCreateBegin, ClientCreate, ApproveBegin, ApproveCreates,
                    CreateBill, VoidBegin, ApproveLinks, VoidCommit, Abort
  <1>2. ASSUME NEW w \in Workers, PaymentStep(w) PROVE bill'[b] # "none"
        BY <1>2 DEF PaymentStep, RecordBegin, RecordCommit, RejectBegin, ConfirmBegin,
                    RejectCommit, ConfirmCommit
  <1>3. ASSUME NEW w \in Workers, CreditStep(w) PROVE bill'[b] # "none"
        BY <1>3 DEF CreditStep, AdjustBegin, GrantReads, AdjustCommit, SendBegin, SendConsumes
  <1>4. QED
        BY <1>1, <1>2, <1>3
        DEF Next, vars, ClientStep, ClientDecide, AdminCreatesBill, CreateBill, MeterCreates

\* A request that waits to link its bill has created it, or waited before the step.
LEMMA LinkMoves ==
    ASSUME TypeOK, [Next]_vars, NEW w \in Workers, worker'[w].step = "link"
    PROVE  worker'[w] = worker[w] \/ ApproveCreates(w, worker'[w].bill)
  <1>1. CASE Learns(w)
    <2>1. ASSUME NEW p \in Payments, RejectBegin(w, p) \/ ConfirmBegin(w, p) PROVE FALSE
          BY <2>1 DEF RejectBegin, ConfirmBegin, Goto, TypeOK
    <2>2. ASSUME NEW units \in {1, -1}, AdjustBegin(w, units) PROVE FALSE
          BY <2>2 DEF AdjustBegin, Goto, TypeOK
    <2>3. ASSUME GrantReads(w) PROVE FALSE
          BY <2>3 DEF GrantReads, Goto, TypeOK
    <2>4. ASSUME NEW b \in Bills, ApproveCreates(w, b) PROVE worker'[w].bill = b
          BY <2>4 DEF ApproveCreates, Goto, TypeOK
    <2>5. QED
          BY <1>1, <2>1, <2>2, <2>3, <2>4 DEF Learns
  <1>2. QED
        BY <1>1, WorkerMoves

LEMMA LinksStep ==
    ASSUME TypeOK, ApprovedHasBill, LinksFresh, [Next]_vars
    PROVE  ApprovedHasBill' /\ LinksFresh'
  <1>k. \A w \in Workers : worker[w].step = "link" => worker[w].bill \in Bills
        BY RequestFields
  <1>1. CASE \E w \in Workers, b \in Bills : ApproveCreates(w, b)
    <2>1. PICK w \in Workers, b \in Bills : ApproveCreates(w, b)
          BY <1>1
    <2>2. /\ client' = client /\ bill[b] = "none" /\ bill'[b] # "none"
          /\ worker'[w].step = "link" /\ worker'[w].bill = b
          /\ \A v \in Workers \ {w} : worker'[v] = worker[v]
          BY <2>1 DEF ApproveCreates, CreateBill, Goto, TypeOK
    <2>3. ApprovedHasBill'
          BY <2>2, BillsStay DEF ApprovedHasBill
    <2>4. \A c \in Clients : client[c].status = "approved" => client[c].linked # b
          BY <2>2 DEF ApprovedHasBill
    <2>5. \A v \in Workers \ {w} : worker[v].step = "link" => worker[v].bill # b
          BY <2>2 DEF LinksFresh
    <2>6. QED
          BY <1>k, <2>2, <2>3, <2>4, <2>5, BillsStay DEF LinksFresh
  <1>2. CASE ~ \E w \in Workers, b \in Bills : ApproveCreates(w, b)
    <2>1. \A w \in Workers : worker'[w].step = "link" => worker'[w] = worker[w]
      <3>1. ASSUME NEW w \in Workers, worker'[w].step = "link", worker'[w] # worker[w]
            PROVE  FALSE
        <4>1. worker'[w].bill \in Bills
          <5>1. Learns(w)
                BY <3>1, WorkerMoves
          <5>2. ASSUME NEW p \in Payments, RejectBegin(w, p) \/ ConfirmBegin(w, p) PROVE FALSE
                BY <3>1, <5>2 DEF RejectBegin, ConfirmBegin, Goto, TypeOK
          <5>3. ASSUME NEW units \in {1, -1}, AdjustBegin(w, units) PROVE FALSE
                BY <3>1, <5>3 DEF AdjustBegin, Goto, TypeOK
          <5>4. ASSUME GrantReads(w) PROVE FALSE
                BY <3>1, <5>4 DEF GrantReads, Goto, TypeOK
          <5>5. QED
                BY <1>2, <5>1, <5>2, <5>3, <5>4 DEF Learns
        <4>2. QED
              BY <1>2, <3>1, <4>1, LinkMoves
      <3>2. QED
            BY <3>1
    <2>2. CASE \A c \in Clients : ClientMoves(c)
      <3>1. \A c \in Clients : client'[c].status = "approved" => client'[c] = client[c]
            BY <2>2 DEF ClientMoves, OpenStatuses
      <3>2. ApprovedHasBill'
            BY <3>1, BillsStay DEF ApprovedHasBill
      <3>3. LinksFresh'
            BY <1>k, <2>1, <3>1, BillsStay DEF LinksFresh
      <3>4. QED
            BY <3>2, <3>3
    <2>3. ASSUME NEW w \in Workers, ApproveLinks(w) PROVE ApprovedHasBill' /\ LinksFresh'
      <3> DEFINE c == worker[w].client
                 b == worker[w].bill
      <3>1. c \in Clients /\ b \in Bills /\ worker[w].step = "link" /\ bill' = bill
            BY <2>3, RequestFields DEF ApproveLinks
      <3>2. /\ client' = client \/ client' = [client EXCEPT ![c] = [status |-> "approved", linked |-> b]]
            /\ worker'[w].step = "idle" /\ \A v \in Workers \ {w} : worker'[v] = worker[v]
            BY <2>3 DEF ApproveLinks, Goto, TypeOK
      <3>3. /\ bill[b] # "none"
            /\ \A d \in Clients : client[d].status = "approved" => client[d].linked # b
            /\ \A v \in Workers \ {w} : worker[v].step = "link" => worker[v].bill # b
            BY <3>1 DEF LinksFresh
      <3> HIDE DEF c, b
      <3>4. /\ \A d \in Clients \ {c} : client'[d] = client[d]
            /\ client'[c] = client[c] \/ client'[c] = [status |-> "approved", linked |-> b]
            BY <3>1, <3>2 DEF TypeOK
      <3>5. ApprovedHasBill'
            BY <3>1, <3>3, <3>4 DEF ApprovedHasBill
      <3>6. LinksFresh'
            BY <3>1, <3>2, <3>3, <3>4 DEF LinksFresh
      <3>7. QED
            BY <3>5, <3>6
    <2>4. QED
          BY <2>2, <2>3, ClientChanges
  <1>3. QED
        BY <1>1, <1>2

\* Approvals that overlap, of one client request or of several, never leave one approved
\* without a billing request of its own.
THEOREM ApprovalsLinked == Spec => []ApprovedHasBill
  <1>1. Init => ApprovedHasBill /\ LinksFresh
        BY DEF Init, ApprovedHasBill, LinksFresh
  <1>2. TypeOK /\ (ApprovedHasBill /\ LinksFresh) /\ [Next]_vars => ApprovedHasBill' /\ LinksFresh'
        BY LinksStep
  <1>3. QED
        BY <1>1, <1>2, TypeCorrect, PTL DEF Spec
=============================================================================
