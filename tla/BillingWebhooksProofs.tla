-------------------------- MODULE BillingWebhooksProofs --------------------------
(***************************************************************************)
(* Proofs about BillingWebhooks, for any subscriptions, orders, handlers,  *)
(* requests, plans, events, months and faults.  The inductive invariant    *)
(* says what a transaction under way may rely on (Working), that nobody    *)
(* else works on its delivery (OneEach) or writes (OneWriter), and what a  *)
(* request of the owner has found (Asking).                                *)
(***************************************************************************)
EXTENDS BillingWebhooks, FiniteSetTheorems, TLAPS

SubEvent == [kind : {"subscription"}, terms : Terms, month : Months \cup {NoMonth}]
OrderEvent == [kind : {"order", "refund"}, order : Orders]

Marking == [step : {"read", "mark"}, d : Deliveries]
Locking == [step : {"lock"}, d : Deliveries, seen : Subs \cup {NoSub}, old : SubRow \cup {NoRow}]
Writing == [step : {"write"}, d : Deliveries, seen : Subs \cup {NoSub}, new : SubRow,
            org : OrgRow, book : Ledger \cup {NoRow}]
Granting == [step : {"grant"}, d : Deliveries, month : Months, had : BOOLEAN,
             book : Ledger \cup {NoRow}]
Refunding == [step : {"refund"}, d : Deliveries, month : Months, book : Ledger \cup {NoRow},
              addon : Orders \cup {NoOrder}, refunded : Nat]

Busy(w) == worker[w].step # "idle"

\* The delivery was sent and claimed, and has no effect until the transaction commits; the rows
\* that were read are still there, and only the writer's ledger includes what it read.
WorkingOn(t) ==
    /\ t.d <= emitted /\ claim[t.d] # "none"
    /\ t.step # "mark" => effects[t.d] = 0
    /\ t.step = "mark" => effects[t.d] = 1
    /\ t.step \in {"lock", "write"} => /\ event[t.d].kind = "subscription"
                                       /\ t.seen # NoSub => row[t.seen] # NoRow
    /\ t.step = "write" =>
          /\ t.new.status = event[t.d].terms.status /\ ~t.new.pending
          /\ t.book # NoRow => /\ ledger[t.new.month] # NoRow
                               /\ ledger[t.new.month].included = t.book.included
    /\ t.step = "grant" => event[t.d].kind = "order"
    /\ t.step = "refund" => event[t.d].kind = "refund"
    /\ t.step \in {"grant", "refund"} => (t.book # NoRow => ledger[t.month] # NoRow)
    /\ t.step = "refund" /\ t.addon # NoOrder => addon[t.addon] # NoRow

Working == \A w \in Workers : Busy(w) => WorkingOn(worker[w])

OneEach == \A v, w \in Workers : Busy(v) /\ Busy(w) /\ worker[v].d = worker[w].d => v = w
OneWriter == \A v, w \in Workers : worker[v].step = "write" /\ worker[w].step = "write" => v = w

\* What is claimed was sent; what is not has no effect; what is marked has.
Claimed == \A d \in Deliveries : /\ claim[d] # "none" => d <= emitted
                                 /\ claim[d] = "none" => effects[d] = 0
                                 /\ claim[d] \in {"processed", "ignored"} => effects[d] = 1

Sent == \A d \in Deliveries : d <= emitted => event[d] \in Event

Asking == \A r \in Requests : request[r] # Idle =>
             /\ row[request[r].sub] # NoRow
             /\ request[r].step = "schedule" => request[r].wish.kind = "plan"

TxnInv == TypeOK /\ Working /\ OneEach /\ OneWriter /\ Claimed /\ Sent /\ Asking

BoughtIn(n) == {o \in Granted : addon[o].month = n}
AddonOf(book) == IF book = NoRow THEN 0 ELSE book.addon

\* What is in a ledger, and what a transaction has read there, was bought.
Backed ==
    /\ \A n \in Months : AddonOf(ledger[n]) <= Units * Cardinality(BoughtIn(n))
    /\ \A w \in Workers : worker[w].step \in {"grant", "refund"} =>
          AddonOf(worker[w].book) <= Units * Cardinality(BoughtIn(worker[w].month))

\* As long as events come one after another, only the last one claimed is being worked on.
Sole == orderly =>
    /\ \A c, d \in Deliveries : c < d /\ claim[d] # "none" => claim[c] \in {"processed", "ignored"}
    /\ \A w \in Workers : Busy(w) => claim[worker[w].d] = "processing"

AllBacked == orderly =>
    /\ \A n \in Months : AddonOf(ledger[n]) + refunds[n] = Units * Cardinality(BoughtIn(n))
    /\ \A w \in Workers : worker[w].step \in {"grant", "refund"} /\ worker[w].book # NoRow =>
          AddonOf(ledger[worker[w].month]) = AddonOf(worker[w].book)

CreditInv == Backed /\ Sole /\ AllBacked

\* There is one subscription, with what the events that had an effect left.
Applied == {d \in 1..emitted : event[d].kind = "subscription" /\ effects[d] # 0}

OfEvents(s, d) == /\ Existing = {s}
                  /\ row[s].status = event[d].terms.status
                  /\ AsTold(row[s], Applied)
                  /\ Follows(org, row[s], event[d].terms)

LastApplied == orderly =>
    \/ Applied = {} /\ Existing = {}
    \/ \E d \in Applied, s \in Subs : IsLast(d, Applied) /\ OfEvents(s, d)

\* A transaction has read that row, or none as there is none, and writes what its event adds.
Agree(r, q) == r.status = q.status /\ r.plan = q.plan /\ r.interval = q.interval
HasRead(t) == IF t.seen = NoSub THEN t.old = NoRow ELSE t.old # NoRow /\ Agree(t.old, row[t.seen])
SeenBy(t) == /\ Existing = IF t.seen = NoSub THEN {} ELSE {t.seen}
             /\ t.step = "lock" => HasRead(t)
             /\ t.step = "write" => /\ AsTold(t.new, Applied \cup {t.d})
                                    /\ Follows(t.org, t.new, event[t.d].terms)
SeenRows == orderly =>
    \A w \in Workers : worker[w].step \in {"lock", "write"} => SeenBy(worker[w])

\* An event that is to come, or was not yet applied, for each change that the owner is told of.
Unapplied == \E d \in 1..emitted : event[d].kind = "subscription" /\ effects[d] = 0
Waits ==
    /\ IsFiniteSet(Existing)
    /\ \A r \in Requests : request[r].step \in {"schedule", "pending"} => overtaken \/ Unapplied
    /\ \A s \in Existing : row[s].pending =>
          overtaken \/ Unapplied \/ (\E t \in Existing : t # s)
-----------------------------------------------------------------------------
(* Types *)

LEMMA TaskIs ==
    ASSUME TypeOK, NEW w \in Workers, Busy(w)
    PROVE  /\ worker[w] \in Task /\ worker[w] # Idle /\ worker[w].d \in Deliveries
           /\ worker[w].step \in {"read", "mark"} => worker[w] \in Marking
           /\ worker[w].step = "lock" => worker[w] \in Locking
           /\ worker[w].step = "write" => worker[w] \in Writing
           /\ worker[w].step = "grant" => worker[w] \in Granting
           /\ worker[w].step = "refund" => worker[w] \in Refunding
  <1>1. worker[w] \in Task /\ worker[w] # Idle
        BY DEF TypeOK, Busy, Idle
  <1>2. worker[w] \in Marking \cup Locking \cup Writing \cup Granting \cup Refunding
        BY <1>1 DEF Task, Marking, Locking, Writing, Granting, Refunding
  <1> QED BY <1>1, <1>2 DEF Marking, Locking, Writing, Granting, Refunding

LEMMA TasksAre ==
    /\ \A d \in Deliveries : [step |-> "read", d |-> d] \in Task /\ [step |-> "mark", d |-> d] \in Task
    /\ Locking \subseteq Task /\ Writing \subseteq Task /\ Granting \subseteq Task
    /\ Refunding \subseteq Task
    /\ \A t \in Task : t.step # "idle" /\ t # Idle /\ t.d \in Deliveries
  <1>1. Task = Marking \cup Locking \cup Writing \cup Granting \cup Refunding
        BY DEF Task, Marking, Locking, Writing, Granting, Refunding
  <1>2. \A d \in Deliveries : [step |-> "read", d |-> d] \in Marking
                              /\ [step |-> "mark", d |-> d] \in Marking
        BY DEF Marking
  <1>3. \A t \in Marking \cup Locking \cup Writing \cup Granting \cup Refunding :
           t.step # "idle" /\ t.d \in Deliveries
        BY DEF Marking, Locking, Writing, Granting, Refunding
  <1> QED BY <1>1, <1>2, <1>3 DEF Idle

LEMMA EventIs ==
    ASSUME TypeOK, NEW d \in Deliveries
    PROVE  /\ event[d].kind = "subscription" => event[d] \in SubEvent
           /\ event[d].kind \in {"order", "refund"} => event[d] \in OrderEvent
  <1>1. event[d] \in SubEvent \cup OrderEvent \cup [kind : {"other", "stray"}] \cup {NoEvent}
        BY DEF TypeOK, Event, SubEvent, OrderEvent
  <1> QED BY <1>1 DEF SubEvent, OrderEvent, NoEvent

LEMMA Goes ==
    ASSUME TypeOK, NEW w \in Workers, NEW state \in Task \cup {Idle}, Goto(w, state)
    PROVE  /\ worker' \in [Workers -> Task \cup {Idle}]
           /\ worker'[w] = state
           /\ \A v \in Workers \ {w} : worker'[v] = worker[v]
  BY DEF TypeOK, Goto

LEMMA Turns ==
    ASSUME TypeOK, NEW r \in Requests, NEW state \in Command \cup {Idle}, Turn(r, state)
    PROVE  /\ request' \in [Requests -> Command \cup {Idle}]
           /\ request'[r] = state
           /\ \A q \in Requests \ {r} : request'[q] = request[q]
  BY DEF TypeOK, Turn

LEMMA CommandIs ==
    ASSUME TypeOK, NEW r \in Requests, request[r].step # "idle"
    PROVE  /\ request[r] \in Command /\ request[r] # Idle /\ request[r].sub \in Subs
           /\ request[r].wish \in Wish /\ request[r].down \in BOOLEAN
           /\ request[r].wish.kind = "plan" => request[r].wish.offer \in Offers
  <1>1. request[r] \in Command /\ request[r] # Idle
        BY DEF TypeOK, Idle
  <1>2. request[r].wish \in [kind : {"plan"}, offer : Offers] \cup [kind : {"cancel", "resume"}]
        BY <1>1 DEF Command, Wish
  <1> QED BY <1>1, <1>2 DEF Command, Wish
-----------------------------------------------------------------------------
(* What a step of somebody else leaves a transaction *)

\* Rows stay, and nobody but a writer changes what a month includes.
RowsStay == /\ \A s \in Subs : row[s] # NoRow => row'[s] # NoRow
            /\ \A o \in Orders : addon[o] # NoRow => addon'[o] # NoRow
            /\ \A n \in Months : ledger[n] # NoRow => ledger'[n] # NoRow

IncludedStays == \A n \in Months : ledger[n] # NoRow => ledger'[n].included = ledger[n].included

LEMMA OnStays ==
    ASSUME TypeOK, NEW v \in Workers, Busy(v), NEW t, t = worker[v], WorkingOn(t),
           emitted' >= emitted, emitted' \in Nat, \A d \in Deliveries : d <= emitted => event'[d] = event[d],
           claim[t.d] # "none" => claim'[t.d] # "none", effects'[t.d] = effects[t.d],
           RowsStay, t.step # "write" \/ IncludedStays
    PROVE  WorkingOn(t)'
  <1>1. t \in Task /\ t.d \in Deliveries /\ t.d \in Nat /\ emitted \in Nat
        BY TaskIs DEF TypeOK, Deliveries
  <1>2. /\ t.d <= emitted' /\ event'[t.d] = event[t.d] /\ claim'[t.d] # "none"
        BY <1>1 DEF WorkingOn
  <1>3. t.step \in {"lock", "write"} => t.seen \in Subs \cup {NoSub}
        BY TaskIs DEF Locking, Writing
  <1>4. t.step = "write" => t.new.month \in Months
        BY TaskIs DEF Writing, SubRow
  <1>5. t.step \in {"grant", "refund"} => t.month \in Months
        BY TaskIs DEF Granting, Refunding
  <1>6. t.step = "refund" => t.addon \in Orders \cup {NoOrder}
        BY TaskIs DEF Refunding
  <1>7. t.step \in {"lock", "write"} => (t.seen # NoSub => row'[t.seen] # NoRow)
        BY <1>3 DEF WorkingOn, RowsStay
  <1>8. t.step = "write" =>
          (t.book # NoRow => /\ ledger'[t.new.month] # NoRow
                             /\ ledger'[t.new.month].included = t.book.included)
        BY <1>4 DEF WorkingOn, RowsStay, IncludedStays
  <1>9. t.step \in {"grant", "refund"} => (t.book # NoRow => ledger'[t.month] # NoRow)
        BY <1>5 DEF WorkingOn, RowsStay
  <1>10. t.step = "refund" /\ t.addon # NoOrder => addon'[t.addon] # NoRow
        BY <1>6 DEF WorkingOn, RowsStay
  <1> QED BY <1>2, <1>7, <1>8, <1>9, <1>10 DEF WorkingOn

\* A step of the world or of the owner.
LEMMA WorkersStay ==
    ASSUME TxnInv, worker' = worker, claim' = claim, effects' = effects,
           emitted' >= emitted, emitted' \in Nat, \A d \in Deliveries : d <= emitted => event'[d] = event[d],
           RowsStay, IncludedStays
    PROVE  Working' /\ OneEach' /\ OneWriter'
  <1>1. OneEach' /\ OneWriter'
        BY DEF TxnInv, OneEach, OneWriter, Busy
  <1>2. ASSUME NEW v \in Workers, Busy(v)' PROVE WorkingOn(worker[v])'
    <2>1. Busy(v)
          BY <1>2 DEF Busy
    <2>2. PICK t : t = worker[v]
          OBVIOUS
    <2>3. WorkingOn(t)'
          BY <2>1, <2>2, OnStays DEF TxnInv, Working
    <2> QED BY <2>2, <2>3
  <1> QED BY <1>1, <1>2 DEF Working

\* A step of a transaction, on the delivery d.
LEMMA WorkerMoves ==
    ASSUME TxnInv, NEW w \in Workers, NEW new \in Task \cup {Idle}, NEW d \in Deliveries,
           Goto(w, new), new # Idle => new.d = d /\ WorkingOn(new)',
           Busy(w) => worker[w].d = d, ~Busy(w) => claim[d] = "none",
           UNCHANGED <<emitted, event>>,
           \A c \in Deliveries : claim[c] # "none" => claim'[c] # "none",
           \A c \in Deliveries \ {d} : effects'[c] = effects[c],
           RowsStay, worker[w].step = "write" \/ IncludedStays, new.step = "write" => NobodyWrites
    PROVE  Working' /\ OneEach' /\ OneWriter'
  <1>1. /\ worker'[w] = new /\ \A v \in Workers \ {w} : worker'[v] = worker[v]
        BY Goes DEF TxnInv
  <1>2. ASSUME NEW v \in Workers \ {w}, Busy(v) PROVE worker[v].d # d /\ worker[v].d \in Deliveries
    <2>1. worker[v].d \in Deliveries /\ claim[worker[v].d] # "none"
          BY <1>2, TaskIs DEF TxnInv, Working, WorkingOn
    <2> QED BY <1>2, <2>1 DEF TxnInv, OneEach
  <1>3. Working'
    <2> SUFFICES ASSUME NEW v \in Workers, Busy(v)' PROVE WorkingOn(worker[v])'
        BY DEF Working
    <2>1. CASE v = w
      <3>1. new # Idle
            BY <1>1, <2>1 DEF Busy, Idle
      <3> QED BY <1>1, <2>1, <3>1
    <2>2. CASE v # w
      <3>1. Busy(v) /\ worker'[v] = worker[v]
            BY <1>1, <2>2 DEF Busy
      <3>2. PICK t : t = worker[v]
            OBVIOUS
      <3>3. t.step # "write" \/ IncludedStays
            BY <2>2, <3>2 DEF TxnInv, OneWriter
      <3>4. WorkingOn(t)'
        <4>1. emitted' >= emitted /\ emitted' \in Nat /\ \A c \in Deliveries : event'[c] = event[c]
              BY DEF TxnInv, TypeOK
        <4>2. effects'[t.d] = effects[t.d] /\ (claim[t.d] # "none" => claim'[t.d] # "none")
              BY <1>2, <2>2, <3>1, <3>2
        <4>3. WorkingOn(t)
              BY <3>1, <3>2 DEF TxnInv, Working
        <4> QED BY <3>1, <3>2, <3>3, <4>1, <4>2, <4>3, OnStays DEF TxnInv
      <3> QED BY <3>1, <3>2, <3>4
    <2> QED BY <2>1, <2>2
  <1>4. OneEach'
    <2> SUFFICES ASSUME NEW u \in Workers, NEW v \in Workers, Busy(u)', Busy(v)',
                        worker'[u].d = worker'[v].d
                 PROVE  u = v
        BY DEF OneEach
    <2>1. worker'[w] # Idle => worker'[w].d = d
          BY <1>1
    <2>2. \A q \in Workers : Busy(q)' => worker'[q] # Idle
          BY DEF Busy, Idle
    <2>3. \A q \in Workers \ {w} : Busy(q)' => worker'[q].d # d
          BY <1>1, <1>2 DEF Busy
    <2>4. CASE u # w /\ v # w
          BY <1>1, <2>4 DEF TxnInv, OneEach, Busy
    <2> QED BY <2>1, <2>2, <2>3, <2>4
  <1>5. OneWriter'
        BY <1>1 DEF TxnInv, OneWriter, NobodyWrites
  <1> QED BY <1>3, <1>4, <1>5
-----------------------------------------------------------------------------
(* The world *)

LEMMA EmitKeeps ==
    ASSUME TypeOK, Sent, NEW e \in Event, Emit(e)
    PROVE  /\ event' \in [Deliveries -> Event \cup {NoEvent}] /\ emitted' \in 0..MaxEvents
           /\ emitted' = emitted + 1 /\ emitted' \in Deliveries /\ emitted' >= emitted
           /\ emitted' \in Nat /\ event'[emitted'] = e
           /\ \A d \in Deliveries : d <= emitted => event'[d] = event[d]
           /\ Sent'
  <1>1. emitted \in Nat /\ emitted' = emitted + 1 /\ emitted + 1 \in Deliveries
        BY WebhookAssumption DEF TypeOK, Emit, Deliveries
  <1>2. /\ event' \in [Deliveries -> Event \cup {NoEvent}] /\ event'[emitted + 1] = e
        /\ \A d \in Deliveries : d <= emitted => event'[d] = event[d]
        BY <1>1 DEF TypeOK, Emit, Deliveries
  <1>3. Sent'
        BY <1>1, <1>2 DEF Sent, Deliveries
  <1> QED BY <1>1, <1>2, <1>3, WebhookAssumption DEF Deliveries

\* A change of what is paid: its event is one of a subscription.
LEMMA PaidEvent ==
    ASSUME TypeOK, NEW p \in Terms, PaidBecomes(p)
    PROVE  /\ paid' = p
           /\ \E e \in Event : e.kind = "subscription" /\ Emit(e)
  <1>1. PICK starts \in Or(month, NoMonth, "period") :
              Emit([kind |-> "subscription", terms |-> p, month |-> starts])
        BY DEF PaidBecomes
  <1>2. starts \in Months \cup {NoMonth}
        BY <1>1 DEF Or, TypeOK
  <1>3. [kind |-> "subscription", terms |-> p, month |-> starts] \in Event
        BY <1>2 DEF Event
  <1> QED BY <1>1, <1>3 DEF PaidBecomes

LEMMA OtherEvents ==
    /\ \A kind \in {"other", "stray"} : [kind |-> kind] \in Event
    /\ \A o \in Orders : [kind |-> "order", order |-> o] \in Event
                         /\ [kind |-> "refund", order |-> o] \in Event
  BY DEF Event

\* An event is sent, and what is paid may change; nothing here has heard of it yet.
LEMMA EmitStep ==
    ASSUME TxnInv, NEW e \in Event, Emit(e),
           paid' \in Terms,
           UNCHANGED <<tables, worker, month, faults, history>>,
           request' \in [Requests -> Command \cup {Idle}], Asking'
    PROVE  TxnInv'
  <1>1. /\ event' \in [Deliveries -> Event \cup {NoEvent}] /\ emitted' \in 0..MaxEvents
        /\ emitted' >= emitted /\ emitted' \in Nat /\ Sent'
        /\ \A d \in Deliveries : d <= emitted => event'[d] = event[d]
        BY EmitKeeps DEF TxnInv
  <1>2. TypeOK'
        BY <1>1 DEF TxnInv, TypeOK, tables, history
  <1>3. RowsStay /\ IncludedStays /\ claim' = claim /\ effects' = effects
        BY DEF RowsStay, IncludedStays, tables, history
  <1>4. Working' /\ OneEach' /\ OneWriter'
        BY <1>1, <1>3, WorkersStay
  <1>5. Claimed'
    <2>1. \A d \in Deliveries : d \in Nat
          BY DEF Deliveries
    <2> QED BY <1>1, <1>3, <2>1 DEF TxnInv, TypeOK, Claimed
  <1> QED BY <1>1, <1>2, <1>4, <1>5 DEF TxnInv

LEMMA OfferTyped == NoDeal \in Offers \cup {NoDeal} /\ Offers \subseteq Deal
  BY WebhookAssumption DEF Paid, Plans, Deal

\* What the customer does leaves terms that the provider can report.
LEMMA PaysTyped ==
    ASSUME TypeOK, Subscribes \/ StatusChanges
    PROVE  \E p \in Terms : PaidBecomes(p)
  <1>1. MaxMonth \in Nat /\ month \in Nat /\ month <= MaxMonth /\ Reported \subseteq Statuses
        BY WebhookAssumption DEF TypeOK, Months
  <1>2. CASE Subscribes
    <2>1. PICK o \in Offers, status \in Reported \cap {"active", "trialing"} :
             \E variant \in Or(o, NoDeal, "variant") : \E said \in {variant, NoDeal} :
                PaidBecomes([said |-> said, variant |-> variant, status |-> status, ends |-> 0])
          BY <1>2 DEF Subscribes
    <2>2. PICK variant \in Or(o, NoDeal, "variant") : \E said \in {variant, NoDeal} :
                PaidBecomes([said |-> said, variant |-> variant, status |-> status, ends |-> 0])
          BY <2>1
    <2>3. variant \in Offers \cup {NoDeal}
          BY <2>2 DEF Or
    <2>4. PICK said \in {variant, NoDeal} :
                PaidBecomes([said |-> said, variant |-> variant, status |-> status, ends |-> 0])
          BY <2>2
    <2>5. said \in Offers \cup {NoDeal}
          BY <2>3, <2>4
    <2>6. [said |-> said, variant |-> variant, status |-> status, ends |-> 0] \in Terms
          BY <1>1, <2>1, <2>3, <2>5 DEF Terms
    <2> QED BY <2>4, <2>6
  <1>3. CASE StatusChanges
    <2>1. PICK status \in Reported, variant \in Or(paid.variant, NoDeal, "variant") :
             \E ends \in EndsOf(status) :
                PaidBecomes([said |-> paid.said, variant |-> variant, status |-> status,
                             ends |-> ends])
          BY <1>3 DEF StatusChanges
    <2>2. PICK ends \in EndsOf(status) :
                PaidBecomes([said |-> paid.said, variant |-> variant, status |-> status,
                             ends |-> ends])
          BY <2>1
    <2>3. paid \in Terms
          BY DEF TypeOK
    <2>4. paid.variant \in Offers \cup {NoDeal}
          BY <2>3 DEF Terms
    <2>5. variant \in Offers \cup {NoDeal}
          BY <2>1, <2>4 DEF Or
    <2>6. ends \in {month + 1, 0}
          BY <2>2 DEF EndsOf, Or
    <2>7. ends \in 0..(MaxMonth + 1)
          BY <1>1, <2>6
    <2>8. [said |-> paid.said, variant |-> variant, status |-> status, ends |-> ends] \in Terms
          BY <1>1, <2>1, <2>3, <2>5, <2>7 DEF Terms
    <2> QED BY <2>2, <2>8
  <1> QED BY <1>2, <1>3

LEMMA WorldPays ==
    ASSUME TxnInv, Subscribes \/ StatusChanges
    PROVE  TxnInv'
  <1>1. PICK p \in Terms : PaidBecomes(p)
        BY PaysTyped DEF TxnInv
  <1>2. Elsewhere
        BY DEF Subscribes, StatusChanges
  <1>3. request' \in [Requests -> Command \cup {Idle}] /\ Asking'
        BY <1>2 DEF Elsewhere, TxnInv, TypeOK, Asking, tables
  <1>4. PICK e \in Event : Emit(e)
        BY <1>1, PaidEvent DEF TxnInv
  <1>5. paid' \in Terms
        BY <1>1, PaidEvent DEF TxnInv
  <1> QED BY <1>2, <1>3, <1>4, <1>5, EmitStep DEF Elsewhere

LEMMA WorldOther ==
    ASSUME TxnInv, OtherEvent
    PROVE  TxnInv'
  <1>1. PICK e \in Event : Emit(e)
        BY OtherEvents DEF OtherEvent
  <1>2. request' \in [Requests -> Command \cup {Idle}] /\ Asking' /\ paid' = paid
        BY DEF OtherEvent, Elsewhere, TxnInv, TypeOK, Asking, tables
  <1>3. paid' \in Terms
        BY <1>2 DEF TxnInv, TypeOK
  <1> QED BY <1>1, <1>2, <1>3, EmitStep DEF OtherEvent, Elsewhere

LEMMA WorldMonth ==
    ASSUME TxnInv, NextMonth
    PROVE  TxnInv'
  <1>1. UNCHANGED <<provider, tables, worker, request, faults, history>> /\ month' \in Months
        BY WebhookAssumption DEF NextMonth, TxnInv, TypeOK, Months
  <1>2. TypeOK'
        BY <1>1 DEF TxnInv, TypeOK, provider, tables, history
  <1>3. RowsStay /\ IncludedStays /\ claim' = claim /\ effects' = effects /\ emitted' = emitted
        /\ event' = event
        BY <1>1 DEF RowsStay, IncludedStays, provider, tables, history
  <1>4. Working' /\ OneEach' /\ OneWriter'
    <2>1. emitted \in Nat
          BY DEF TxnInv, TypeOK
    <2> QED BY <1>1, <1>3, <2>1, WorkersStay
  <1>5. Claimed' /\ Sent' /\ Asking'
        BY <1>1, <1>3 DEF TxnInv, Claimed, Sent, Asking, tables
  <1> QED BY <1>2, <1>4, <1>5 DEF TxnInv

LEMMA OpenedTyped ==
    ASSUME NEW n \in Nat, NEW p \in Plans
    PROVE  Opened(n, p) \in Ledger
  BY DEF Opened, Ledger

\* A step on a month's ledger that leaves it there, and what it includes.
LEMMA LedgerStep ==
    ASSUME TxnInv, NEW n \in Months, NEW book \in Ledger, ledger' = [ledger EXCEPT ![n] = book],
           ledger[n] # NoRow => book.included = ledger[n].included,
           UNCHANGED <<provider, claim, row, org, addon, worker, request, month, faults, history>>
    PROVE  TxnInv'
  <1>1. ledger' \in [Months -> Ledger \cup {NoRow}] /\ ledger'[n] = book
        /\ \A m \in Months \ {n} : ledger'[m] = ledger[m]
        BY DEF TxnInv, TypeOK
  <1>2. TypeOK'
        BY <1>1 DEF TxnInv, TypeOK, provider, history
  <1>3. book # NoRow
        BY DEF Ledger, NoRow
  <1>4. RowsStay /\ IncludedStays
        BY <1>1, <1>3 DEF RowsStay, IncludedStays
  <1>5. Working' /\ OneEach' /\ OneWriter'
    <2>1. emitted \in Nat /\ emitted' = emitted /\ event' = event /\ effects' = effects
          BY DEF TxnInv, TypeOK, provider, history
    <2> QED BY <1>4, <2>1, WorkersStay
  <1>6. Claimed' /\ Sent' /\ Asking'
        BY DEF TxnInv, Claimed, Sent, Asking, provider, history
  <1> QED BY <1>2, <1>5, <1>6 DEF TxnInv

LEMMA WorldLedger ==
    ASSUME TxnInv, OpenMonth \/ UseCredit
    PROVE  /\ TxnInv'
           /\ \E book \in Ledger : /\ ledger' = [ledger EXCEPT ![month] = book]
                                   /\ book.addon = AddonOf(ledger[month])
                                   /\ ledger[month] # NoRow => book.included = ledger[month].included
  <1>1. PICK book \in Ledger : /\ ledger' = [ledger EXCEPT ![month] = book]
                               /\ book.addon = AddonOf(ledger[month])
                               /\ ledger[month] # NoRow => book.included = ledger[month].included
    <2>1. CASE OpenMonth
      <3>1. Included[org.plan] \in Nat /\ org.plan \in Plans
            BY WebhookAssumption DEF TxnInv, TypeOK, OrgRow
      <3>2. Opened(Included[org.plan], org.plan) \in Ledger
            BY <3>1, OpenedTyped
      <3> QED BY <2>1, <3>2 DEF OpenMonth, Opened, AddonOf
    <2>2. CASE UseCredit
      <3> DEFINE old == ledger[month]
                 new == [old EXCEPT !.used = old.used + 1]
      <3>1. old \in Ledger
            BY <2>2 DEF UseCredit, TxnInv, TypeOK
      <3>2. new \in Ledger /\ new.included = old.included /\ new.addon = old.addon
            BY <3>1 DEF Ledger
      <3>3. ledger' = [ledger EXCEPT ![month] = new] /\ old # NoRow
            BY <2>2 DEF UseCredit
      <3> QED BY <3>2, <3>3 DEF AddonOf
    <2> QED BY <2>1, <2>2
  <1>2. month \in Months
        BY DEF TxnInv, TypeOK
  <1>3. UNCHANGED <<provider, claim, row, org, addon, worker, request, month, faults, history>>
        BY DEF OpenMonth, UseCredit
  <1>4. TxnInv'
        BY <1>1, <1>2, <1>3, LedgerStep
  <1> QED BY <1>1, <1>4
-----------------------------------------------------------------------------
(* Transactions: the reads *)

LEMMA StepClaim ==
    ASSUME TxnInv, NEW w \in Workers, NEW d \in Deliveries, Claim(w, d)
    PROVE  TxnInv'
  <1> DEFINE new == [step |-> "read", d |-> d]
  <1>1. new \in Task /\ new.step = "read" /\ new.d = d /\ new # Idle
        BY TasksAre DEF Idle
  <1>2. /\ UNCHANGED <<provider, row, org, ledger, addon, request, month, faults>>
        /\ UNCHANGED <<effects, refunds, overtaken, promised>> /\ orderly' \in BOOLEAN
        /\ Goto(w, new) /\ d <= emitted /\ claim[d] = "none" /\ ~Busy(w)
        /\ claim' = [claim EXCEPT ![d] = "processing"]
        BY DEF Claim, Busy, Idle
  <1> HIDE DEF new
  <1>3. /\ claim' \in [Deliveries -> Claims] /\ claim'[d] = "processing"
        /\ \A c \in Deliveries \ {d} : claim'[c] = claim[c]
        BY <1>2 DEF TxnInv, TypeOK, Claims
  <1>4. worker' \in [Workers -> Task \cup {Idle}]
        BY <1>1, <1>2, Goes DEF TxnInv
  <1>5. TypeOK'
        BY <1>2, <1>3, <1>4 DEF TxnInv, TypeOK, provider
  <1>6. WorkingOn(new)'
        BY <1>1, <1>2, <1>3 DEF TxnInv, Claimed, WorkingOn, provider
  <1>7. Working' /\ OneEach' /\ OneWriter'
    <2>1. RowsStay /\ IncludedStays
          BY <1>2 DEF RowsStay, IncludedStays
    <2>2. UNCHANGED <<emitted, event>>
          BY <1>2 DEF provider
    <2> QED BY <1>1, <1>2, <1>3, <1>6, <2>1, <2>2, WorkerMoves
  <1>8. Claimed' /\ Sent' /\ Asking'
        BY <1>2, <1>3 DEF TxnInv, Claimed, Sent, Asking, provider
  <1> QED BY <1>5, <1>7, <1>8 DEF TxnInv

\* A transaction reads, and writes nothing.
LEMMA ReadStep ==
    ASSUME TxnInv, NEW w \in Workers, Busy(w), NEW new \in Task, Goto(w, new),
           new.d = worker[w].d, WorkingOn(new), new.step = "write" => NobodyWrites,
           UNCHANGED <<provider, tables, request, month, faults, history>>
    PROVE  TxnInv'
  <1>1. worker' \in [Workers -> Task \cup {Idle}]
        BY Goes DEF TxnInv
  <1>2. TypeOK'
        BY <1>1 DEF TxnInv, TypeOK, provider, tables, history
  <1>3. WorkingOn(new)'
        BY DEF WorkingOn, provider, tables, history
  <1>4. Working' /\ OneEach' /\ OneWriter'
    <2>1. RowsStay /\ IncludedStays
          BY DEF RowsStay, IncludedStays, tables
    <2>2. UNCHANGED <<emitted, event, claim, effects>>
          BY DEF provider, tables, history
    <2>3. worker[w].d \in Deliveries
          BY TaskIs DEF TxnInv
    <2> QED BY <1>3, <2>1, <2>2, <2>3, WorkerMoves
  <1>5. Claimed' /\ Sent' /\ Asking'
        BY DEF TxnInv, Claimed, Sent, Asking, provider, tables, history
  <1> QED BY <1>2, <1>4, <1>5 DEF TxnInv

LEMMA StepReadSubscription ==
    ASSUME TxnInv, NEW w \in Workers, ReadSubscription(w)
    PROVE  TxnInv'
  <1> DEFINE d == worker[w].d
  <1>1. PICK s \in Latest : Goto(w, [step |-> "lock", d |-> d, seen |-> s,
                                     old |-> IF s = NoSub THEN NoRow ELSE row[s]])
        BY DEF ReadSubscription
  <1>2. Busy(w) /\ d \in Deliveries /\ WorkingOn(worker[w]) /\ worker[w].step = "read"
        BY TaskIs DEF ReadSubscription, Busy, TxnInv, Working
  <1>3. s = NoSub \/ (s \in Subs /\ row[s] # NoRow)
        BY DEF Latest, Existing
  <1>4. (IF s = NoSub THEN NoRow ELSE row[s]) \in SubRow \cup {NoRow}
        BY <1>3 DEF TxnInv, TypeOK
  <1> DEFINE new == [step |-> "lock", d |-> d, seen |-> s,
                     old |-> IF s = NoSub THEN NoRow ELSE row[s]]
  <1>5. new \in Locking /\ new.step = "lock" /\ new.d = d /\ new.seen = s
        BY <1>2, <1>3, <1>4 DEF Locking
  <1>6. Goto(w, new)
        BY <1>1
  <1>7. event[d].kind = "subscription"
        BY DEF ReadSubscription
  <1> HIDE DEF new, d
  <1>8. WorkingOn(new)
        BY <1>2, <1>3, <1>5, <1>7 DEF WorkingOn, d
  <1> QED BY <1>2, <1>5, <1>6, <1>8, TasksAre, ReadStep DEF ReadSubscription, d

LEMMA NamedTyped ==
    ASSUME NEW e \in SubEvent, NEW old \in SubRow \cup {NoRow}
    PROVE  Named(old, e) \in Deal
  <1>1. e.terms.said \in Offers \cup {NoDeal} /\ e.terms.variant \in Offers \cup {NoDeal}
        BY DEF SubEvent, Terms
  <1>2. [plan |-> 0, interval |-> "none"] \in Deal
        BY WebhookAssumption DEF Deal, Plans
  <1>3. old # NoRow => [plan |-> old.plan, interval |-> old.interval] \in Deal
        BY DEF SubRow, Deal
  <1> QED BY <1>1, <1>2, <1>3, OfferTyped DEF Named

LEMMA NextRowTyped ==
    ASSUME NEW e \in SubEvent, NEW old \in SubRow \cup {NoRow}, month \in Months
    PROVE  /\ NextRow(old, e) \in SubRow
           /\ NextRow(old, e).status = e.terms.status /\ ~NextRow(old, e).pending
  <1>1. PICK named \in Deal : named = Named(old, e)
        BY NamedTyped
  <1>2. named.plan \in Plans /\ named.interval \in Intervals \cup {"none"}
        BY DEF Deal
  <1>3. e.terms.status \in Statuses /\ e.month \in Months \cup {NoMonth}
        BY DEF SubEvent, Terms
  <1>4. PeriodOf(old, e) \in Months
        BY <1>3 DEF PeriodOf, SubRow
  <1>5. IsScheduledDowngrade(old, e) => old \in SubRow /\ old.plan \in Plans
        BY DEF IsScheduledDowngrade, SubRow
  <1> QED BY <1>1, <1>2, <1>3, <1>4, <1>5 DEF NextRow, SubRow

LEMMA OrgTyped ==
    ASSUME NEW r \in SubRow, NEW e \in SubEvent
    PROVE  OrgOf(r, e) \in OrgRow
  <1>1. e.terms.status \in Statuses
        BY DEF SubEvent, Terms
  <1>2. MapOrgBillingStatus(e.terms) \in OrgStatuses
        BY <1>1 DEF MapOrgBillingStatus, Statuses, OrgStatuses
  <1>3. (IF r.status = "expired" THEN 0 ELSE r.plan) \in Plans
        BY WebhookAssumption DEF SubRow, Plans
  <1> QED BY <1>2, <1>3 DEF OrgOf, OrgRow

\* The row is computed from what was read under no lock, the ledger is read under one.
LEMMA WriteSubscriptionIs ==
    ASSUME TxnInv, NEW w \in Workers, WriteSubscription(w), NEW t, t = worker[w],
           NEW e, e = event[t.d]
    PROVE  \E new \in Writing :
              /\ Goto(w, new) /\ new.step = "write" /\ new.d = t.d /\ new.seen = t.seen
              /\ new.new = NextRow(t.old, e) /\ new.org = OrgOf(new.new, e)
              /\ new.book = ledger[new.new.month]
              /\ t \in Locking /\ t.step = "lock" /\ WorkingOn(t) /\ e \in SubEvent
              /\ new.new.status = e.terms.status /\ ~new.new.pending
  <1>1. t.step = "lock" /\ Busy(w)
        BY DEF WriteSubscription, Busy
  <1>2. t \in Locking /\ t.d \in Deliveries /\ WorkingOn(t)
        BY <1>1, TaskIs DEF TxnInv, Working
  <1>3. e \in SubEvent
        BY <1>1, <1>2, EventIs DEF TxnInv, WorkingOn
  <1>4. PICK row2 \in SubRow : /\ row2 = NextRow(t.old, e)
                               /\ row2.status = e.terms.status /\ ~row2.pending
        BY <1>2, <1>3, NextRowTyped DEF Locking, TxnInv, TypeOK
  <1>5. PICK org2 \in OrgRow : org2 = OrgOf(row2, e)
        BY <1>3, OrgTyped
  <1>6. PICK book \in Ledger \cup {NoRow} : book = ledger[row2.month]
        BY DEF TxnInv, TypeOK, SubRow
  <1> DEFINE new == [step |-> "write", d |-> t.d, seen |-> t.seen, new |-> row2, org |-> org2,
                     book |-> book]
  <1>7. Goto(w, new)
        BY <1>4, <1>5, <1>6 DEF WriteSubscription
  <1>8. /\ new \in Writing /\ new.step = "write" /\ new.d = t.d /\ new.seen = t.seen
        /\ new.new = row2 /\ new.org = org2 /\ new.book = book
        BY <1>2 DEF Locking, Writing
  <1> HIDE DEF new
  <1> QED BY <1>1, <1>2, <1>3, <1>4, <1>5, <1>6, <1>7, <1>8

LEMMA StepWriteSubscription ==
    ASSUME TxnInv, NEW w \in Workers, WriteSubscription(w)
    PROVE  TxnInv'
  <1>1. PICK t : t = worker[w]
        OBVIOUS
  <1>2. PICK e : e = event[t.d]
        OBVIOUS
  <1>3. PICK new \in Writing :
              /\ Goto(w, new) /\ new.step = "write" /\ new.d = t.d /\ new.seen = t.seen
              /\ new.book = ledger[new.new.month]
              /\ t \in Locking /\ t.step = "lock" /\ WorkingOn(t) /\ e \in SubEvent
              /\ new.new.status = e.terms.status /\ ~new.new.pending
        BY <1>1, <1>2, WriteSubscriptionIs
  <1>4. WorkingOn(new)
        BY <1>2, <1>3 DEF WorkingOn
  <1>5. Busy(w) /\ NobodyWrites /\ UNCHANGED <<provider, tables, request, month, faults, history>>
        BY DEF WriteSubscription, Busy
  <1> QED BY <1>1, <1>3, <1>4, <1>5, TasksAre, ReadStep

LEMMA StepReadGrant ==
    ASSUME TxnInv, NEW w \in Workers, ReadGrant(w)
    PROVE  TxnInv'
  <1> DEFINE d == worker[w].d
             had == addon[event[d].order] # NoRow
             new == [step |-> "grant", d |-> d, month |-> month, had |-> had,
                     book |-> ledger[month]]
  <1>1. Goto(w, new) /\ Busy(w) /\ event[d].kind = "order" /\ worker[w].step = "read"
        BY DEF ReadGrant, Busy
  <1>2. d \in Deliveries /\ WorkingOn(worker[w])
        BY <1>1, TaskIs DEF TxnInv, Working
  <1>3. month \in Months /\ ledger[month] \in Ledger \cup {NoRow} /\ had \in BOOLEAN
        BY DEF TxnInv, TypeOK
  <1> HIDE DEF had
  <1>4. new \in Granting /\ new.step = "grant" /\ new.d = d /\ new.book = ledger[month]
        /\ new.month = month
        BY <1>2, <1>3 DEF Granting
  <1> HIDE DEF new
  <1>5. WorkingOn(new)
        BY <1>1, <1>2, <1>4 DEF WorkingOn
  <1> QED BY <1>1, <1>4, <1>5, TasksAre, ReadStep DEF ReadGrant

LEMMA StepReadRefund ==
    ASSUME TxnInv, NEW w \in Workers, ReadRefund(w)
    PROVE  TxnInv'
  <1> DEFINE d == worker[w].d
  <1>1. PICK o \in IF Granted = {} THEN {NoOrder} ELSE Granted :
          Goto(w, [step |-> "refund", d |-> d, month |-> month, book |-> ledger[month],
                   addon |-> o, refunded |-> IF o = NoOrder THEN 0 ELSE addon[o].refunded])
        BY DEF ReadRefund
  <1> DEFINE back == IF o = NoOrder THEN 0 ELSE addon[o].refunded
             new == [step |-> "refund", d |-> d, month |-> month, book |-> ledger[month],
                     addon |-> o, refunded |-> back]
  <1>2. Goto(w, new) /\ Busy(w) /\ worker[w].step = "read" /\ event[d].kind = "refund"
        BY <1>1 DEF ReadRefund, Busy
  <1>3. d \in Deliveries /\ WorkingOn(worker[w])
        BY <1>2, TaskIs DEF TxnInv, Working
  <1>4. month \in Months /\ ledger[month] \in Ledger \cup {NoRow}
        BY DEF TxnInv, TypeOK
  <1>5. o = NoOrder \/ (o \in Orders /\ addon[o] # NoRow /\ addon[o] \in AddonRow)
        BY DEF Granted, TxnInv, TypeOK
  <1>6. back \in Nat
        BY <1>5 DEF AddonRow
  <1> HIDE DEF back
  <1>7. new \in Refunding /\ new.step = "refund" /\ new.d = d /\ new.book = ledger[month]
        /\ new.month = month /\ new.addon = o
        BY <1>3, <1>4, <1>5, <1>6 DEF Refunding
  <1> HIDE DEF new
  <1>8. WorkingOn(new)
        BY <1>2, <1>3, <1>5, <1>7 DEF WorkingOn
  <1> QED BY <1>2, <1>7, <1>8, TasksAre, ReadStep DEF ReadRefund
-----------------------------------------------------------------------------
(* Transactions: the commits *)

\* What every commit does to the delivery and the handler.
LEMMA CommitKeeps ==
    ASSUME TxnInv, NEW w \in Workers, Busy(w), worker[w].step # "mark", NEW d, d = worker[w].d,
           Committed(d), Goto(w, [step |-> "mark", d |-> d]),
           UNCHANGED <<provider, claim, request>>,
           RowsStay, worker[w].step = "write" \/ IncludedStays
    PROVE  /\ d \in Deliveries /\ effects[d] = 0
           /\ effects' \in [Deliveries -> Nat] /\ effects'[d] = 1
           /\ \A c \in Deliveries \ {d} : effects'[c] = effects[c]
           /\ worker' \in [Workers -> Task \cup {Idle}] /\ worker'[w].step = "mark"
           /\ worker'[w].d = d
           /\ \A v \in Workers \ {w} : worker'[v] = worker[v]
           /\ Working' /\ OneEach' /\ OneWriter' /\ Claimed' /\ Sent' /\ Asking'
  <1> DEFINE new == [step |-> "mark", d |-> d]
  <1>1. d \in Deliveries /\ WorkingOn(worker[w])
        BY TaskIs DEF TxnInv, Working
  <1>2. effects[d] = 0 /\ claim[d] # "none" /\ d <= emitted
        BY <1>1 DEF WorkingOn
  <1>3. /\ effects' \in [Deliveries -> Nat] /\ effects'[d] = 1
        /\ \A c \in Deliveries \ {d} : effects'[c] = effects[c]
        BY <1>1, <1>2 DEF Committed, TxnInv, TypeOK
  <1>4. new \in Task /\ new.step = "mark" /\ new.d = d /\ new # Idle
        BY <1>1, TasksAre DEF Idle
  <1>5. Goto(w, new)
        OBVIOUS
  <1> HIDE DEF new
  <1>6. /\ worker' \in [Workers -> Task \cup {Idle}] /\ worker'[w] = new
        /\ \A v \in Workers \ {w} : worker'[v] = worker[v]
        BY <1>4, <1>5, Goes DEF TxnInv
  <1>7. WorkingOn(new)'
        BY <1>2, <1>3, <1>4 DEF WorkingOn, provider
  <1>8. Working' /\ OneEach' /\ OneWriter'
    <2>1. UNCHANGED <<emitted, event>>
          BY DEF provider
    <2> QED BY <1>1, <1>3, <1>4, <1>5, <1>7, <2>1, WorkerMoves
  <1>9. Claimed' /\ Sent'
        BY <1>2, <1>3 DEF TxnInv, Claimed, Sent, provider
  <1>10. Asking'
    <2>1. ASSUME NEW r \in Requests, request[r] # Idle PROVE request[r].sub \in Subs
          BY <2>1 DEF TxnInv, TypeOK, Command
    <2> QED BY <2>1 DEF TxnInv, Asking, RowsStay
  <1> QED BY <1>1, <1>2, <1>3, <1>4, <1>6, <1>8, <1>9, <1>10

\* A month's ledger after an upgrade keeps its add-ons and includes at least what it did.
LEMMA UpgradedIs ==
    ASSUME NEW now \in Ledger \cup {NoRow}, NEW book \in Ledger \cup {NoRow}, NEW p \in Plans,
           book = NoRow => now = NoRow, book # NoRow => now # NoRow /\ now.included = book.included
    PROVE  /\ Upgraded(now, book, p) \in Ledger
           /\ Upgraded(now, book, p).addon = AddonOf(now)
           /\ now # NoRow => Upgraded(now, book, p).included >= now.included
  <1>1. Included[p] \in Nat
        BY WebhookAssumption
  <1>2. CASE book = NoRow
    <2>1. Upgraded(now, book, p) = Opened(Included[p], p) /\ now = NoRow
          BY <1>2 DEF Upgraded
    <2> QED BY <1>1, <2>1, OpenedTyped DEF Opened, AddonOf
  <1>3. CASE book # NoRow
    <2>1. now \in Ledger /\ book \in Ledger /\ now # NoRow
          BY <1>3
    <2>2. now.included \in Nat /\ book.used \in Nat
          BY <2>1 DEF Ledger
    <2> DEFINE most == Larger(book.included, Included[p])
               new == [now EXCEPT !.included = most, !.used = book.used, !.plan = p]
    <2>3. most \in Nat /\ most >= now.included
          BY <1>1, <1>3, <2>1, <2>2 DEF Larger, Ledger
    <2> HIDE DEF most
    <2>4. new \in Ledger /\ new.included = most /\ new.addon = now.addon
          BY <2>1, <2>2, <2>3 DEF Ledger
    <2>5. Upgraded(now, book, p) = now \/ Upgraded(now, book, p) = new
          BY <1>3 DEF Upgraded, most
    <2> HIDE DEF new
    <2> QED BY <2>1, <2>2, <2>3, <2>4, <2>5 DEF AddonOf
  <1> QED BY <1>2, <1>3

\* One row is written with what the event says; no month loses add-ons or included bookings.
LEMMA CommitSubscriptionIs ==
    ASSUME TxnInv, NEW w \in Workers, CommitSubscription(w), NEW t, t = worker[w]
    PROVE  /\ t \in Writing /\ t.step = "write"
           /\ row' \in [Subs -> SubRow \cup {NoRow}]
           /\ \E s \in Subs : /\ t.seen # NoSub => s = t.seen
                              /\ t.seen = NoSub => row[s] = NoRow
                              /\ row'[s] = t.new /\ row'[s] # NoRow
                              /\ \A u \in Subs \ {s} : row'[u] = row[u]
           /\ ledger' \in [Months -> Ledger \cup {NoRow}]
           /\ \A n \in Months : /\ AddonOf(ledger'[n]) = AddonOf(ledger[n])
                                /\ ledger[n] # NoRow => /\ ledger'[n] # NoRow
                                                        /\ ledger'[n].included >= ledger[n].included
  <1>1. t.step = "write" /\ Busy(w)
        BY DEF CommitSubscription, Busy
  <1>2. t \in Writing /\ WorkingOn(t)
        BY <1>1, TaskIs DEF TxnInv, Working
  <1>3. /\ t.seen \in Subs \cup {NoSub} /\ t.new \in SubRow /\ t.new # NoRow
        /\ t.book \in Ledger \cup {NoRow}
        BY <1>2 DEF Writing, SubRow, NoRow, Statuses
  <1>4. PICK s \in IF t.seen = NoSub THEN {u \in Subs : row[u] = NoRow} ELSE {t.seen} :
               row' = [row EXCEPT ![s] = t.new]
        BY DEF CommitSubscription
  <1>5. s \in Subs /\ (t.seen # NoSub => s = t.seen) /\ (t.seen = NoSub => row[s] = NoRow)
        BY <1>3, <1>4
  <1>6. /\ row' \in [Subs -> SubRow \cup {NoRow}] /\ row'[s] = t.new
        /\ \A u \in Subs \ {s} : row'[u] = row[u]
        BY <1>3, <1>4, <1>5 DEF TxnInv, TypeOK
  <1>7. ledger \in [Months -> Ledger \cup {NoRow}] /\ \A n \in Months : ledger[n] \in Ledger \cup {NoRow}
        BY DEF TxnInv, TypeOK
  <1>8. ASSUME NEW n \in Months, ledger[n] # NoRow
        PROVE  ledger[n].included >= ledger[n].included
        BY <1>7, <1>8 DEF Ledger
  <1>9. CASE Reconciles(t.new)
    <2> DEFINE m == t.new.month
               new == Upgraded(ledger[m], t.book, t.new.plan)
    <2>1. ledger' = [ledger EXCEPT ![m] = new] /\ LedgerInsertable(m, t.book)
          BY <1>9 DEF CommitSubscription
    <2>2. m \in Months /\ t.new.plan \in Plans
          BY <1>3 DEF SubRow
    <2>3. /\ t.book = NoRow => ledger[m] = NoRow
          /\ t.book # NoRow => ledger[m] # NoRow /\ ledger[m].included = t.book.included
          BY <1>1, <1>2, <2>1 DEF LedgerInsertable, WorkingOn
    <2>4. /\ new \in Ledger /\ new.addon = AddonOf(ledger[m])
          /\ ledger[m] # NoRow => new.included >= ledger[m].included
          BY <1>3, <1>7, <2>2, <2>3, UpgradedIs
    <2>5. new # NoRow
          BY <2>4 DEF Ledger, NoRow
    <2> HIDE DEF new
    <2>6. /\ ledger' \in [Months -> Ledger \cup {NoRow}] /\ ledger'[m] = new
          /\ \A n \in Months \ {m} : ledger'[n] = ledger[n]
          BY <1>7, <2>1, <2>2, <2>4
    <2> HIDE DEF m
    <2>7. \A n \in Months : AddonOf(ledger'[n]) = AddonOf(ledger[n])
          BY <2>4, <2>5, <2>6 DEF AddonOf
    <2>8. \A n \in Months : ledger[n] # NoRow => /\ ledger'[n] # NoRow
                                                 /\ ledger'[n].included >= ledger[n].included
          BY <1>8, <2>4, <2>5, <2>6
    <2> QED BY <1>1, <1>2, <1>3, <1>5, <1>6, <2>6, <2>7, <2>8
  <1>10. CASE ~Reconciles(t.new)
    <2>1. ledger' = ledger
          BY <1>10 DEF CommitSubscription
    <2> QED BY <1>1, <1>2, <1>3, <1>5, <1>6, <1>7, <1>8, <2>1
  <1> QED BY <1>9, <1>10

LEMMA StepCommitSubscription ==
    ASSUME TxnInv, NEW w \in Workers, CommitSubscription(w)
    PROVE  TxnInv'
  <1>1. PICK t : t = worker[w]
        OBVIOUS
  <1>2. /\ t \in Writing /\ t.step = "write"
        /\ row' \in [Subs -> SubRow \cup {NoRow}]
        /\ \A s \in Subs : row[s] # NoRow => row'[s] # NoRow
        /\ ledger' \in [Months -> Ledger \cup {NoRow}]
        /\ \A n \in Months : ledger[n] # NoRow => ledger'[n] # NoRow
        BY <1>1, CommitSubscriptionIs
  <1>3. /\ Committed(t.d) /\ Goto(w, [step |-> "mark", d |-> t.d]) /\ org' = t.org
        /\ overtaken' \in BOOLEAN
        /\ UNCHANGED <<provider, claim, addon, request, month, faults, refunds, orderly, promised>>
        BY <1>1 DEF CommitSubscription, TxnInv, TypeOK
  <1>4. RowsStay
        BY <1>2, <1>3 DEF RowsStay
  <1>5. Busy(w)
        BY <1>1, <1>2 DEF Busy
  <1>6. /\ effects' \in [Deliveries -> Nat] /\ worker' \in [Workers -> Task \cup {Idle}]
        /\ Working' /\ OneEach' /\ OneWriter' /\ Claimed' /\ Sent' /\ Asking'
    <2>1. PICK d : d = t.d
          OBVIOUS
    <2> QED BY <1>1, <1>2, <1>3, <1>4, <1>5, <2>1, CommitKeeps
  <1>7. org' \in OrgRow
        BY <1>2, <1>3 DEF Writing
  <1>8. TypeOK'
        BY <1>2, <1>3, <1>6, <1>7 DEF TxnInv, TypeOK, provider
  <1> QED BY <1>6, <1>8 DEF TxnInv

LEMMA OrCreatedIs ==
    ASSUME NEW book \in Ledger \cup {NoRow}
    PROVE  /\ OrCreated(book) \in Ledger /\ OrCreated(book).addon = AddonOf(book)
           /\ book # NoRow => OrCreated(book) = book
           /\ AddonOf(book) \in Nat
  <1>1. CASE book = NoRow
    <2>1. OrCreated(book) = Opened(0, 0) /\ AddonOf(book) = 0
          BY <1>1 DEF OrCreated, AddonOf
    <2> QED BY <1>1, <2>1, OpenedTyped, WebhookAssumption DEF Opened, Plans
  <1>2. CASE book # NoRow
        BY <1>2 DEF OrCreated, AddonOf, Ledger
  <1> QED BY <1>1, <1>2

\* A month's ledger gets other add-ons and the use that was read; what it includes stays.
LEMMA LedgerWritten ==
    ASSUME TxnInv, NEW m \in Months, NEW a \in Nat, NEW u \in Nat,
           ledger' = [ledger EXCEPT ![m] = [OrCreated(ledger[m]) EXCEPT !.addon = a, !.used = u]]
    PROVE  /\ ledger' \in [Months -> Ledger \cup {NoRow}]
           /\ AddonOf(ledger'[m]) = a
           /\ \A n \in Months \ {m} : ledger'[n] = ledger[n]
           /\ \A n \in Months : ledger[n] # NoRow => ledger'[n] # NoRow
           /\ IncludedStays
  <1> DEFINE old == OrCreated(ledger[m])
             new == [old EXCEPT !.addon = a, !.used = u]
  <1>1. ledger \in [Months -> Ledger \cup {NoRow}] /\ ledger[m] \in Ledger \cup {NoRow}
        BY DEF TxnInv, TypeOK
  <1>2. old \in Ledger /\ (ledger[m] # NoRow => old = ledger[m])
        BY <1>1, OrCreatedIs
  <1> HIDE DEF old
  <1>3. new \in Ledger /\ new.addon = a /\ new.included = old.included
        BY <1>2 DEF Ledger
  <1>4. new # NoRow
        BY <1>3 DEF Ledger, NoRow
  <1>5. ledger' = [ledger EXCEPT ![m] = new]
        BY DEF old
  <1> HIDE DEF new
  <1>6. /\ ledger' \in [Months -> Ledger \cup {NoRow}] /\ ledger'[m] = new
        /\ \A n \in Months \ {m} : ledger'[n] = ledger[n]
        BY <1>1, <1>3, <1>5
  <1> QED BY <1>2, <1>3, <1>4, <1>6 DEF AddonOf, IncludedStays

\* A month's ledger is there afterwards, as it was or new.
LEMMA LedgerOpened ==
    ASSUME TxnInv, NEW m \in Months, ledger' = [ledger EXCEPT ![m] = OrCreated(ledger[m])]
    PROVE  /\ ledger' \in [Months -> Ledger \cup {NoRow}]
           /\ \A n \in Months : AddonOf(ledger'[n]) = AddonOf(ledger[n])
           /\ \A n \in Months : ledger[n] # NoRow => ledger'[n] # NoRow
           /\ IncludedStays
  <1>1. ledger \in [Months -> Ledger \cup {NoRow}] /\ ledger[m] \in Ledger \cup {NoRow}
        BY DEF TxnInv, TypeOK
  <1>2. /\ OrCreated(ledger[m]) \in Ledger /\ OrCreated(ledger[m]).addon = AddonOf(ledger[m])
        /\ (ledger[m] # NoRow => OrCreated(ledger[m]) = ledger[m])
        BY <1>1, OrCreatedIs
  <1>3. OrCreated(ledger[m]) # NoRow
        BY <1>2 DEF Ledger, NoRow
  <1>4. /\ ledger' \in [Months -> Ledger \cup {NoRow}] /\ ledger'[m] = OrCreated(ledger[m])
        /\ \A n \in Months \ {m} : ledger'[n] = ledger[n]
        BY <1>1, <1>2
  <1> QED BY <1>2, <1>3, <1>4 DEF AddonOf, IncludedStays

\* The order's row was there, and nothing is granted; or it is new, with the units added to what
\* was read.
LEMMA CommitGrantIs ==
    ASSUME TxnInv, NEW w \in Workers, CommitGrant(w), NEW t, t = worker[w],
           NEW o, o = event[t.d].order
    PROVE  /\ t \in Granting /\ t.step = "grant" /\ t.month \in Months /\ o \in Orders
           /\ t.book \in Ledger \cup {NoRow}
           /\ ledger' \in [Months -> Ledger \cup {NoRow}]
           /\ addon' \in [Orders -> AddonRow \cup {NoRow}]
           /\ \A n \in Months : ledger[n] # NoRow => ledger'[n] # NoRow
           /\ IncludedStays
           /\ t.book = NoRow => ledger[t.month] = NoRow
           /\ \/ addon' = addon /\ \A n \in Months : AddonOf(ledger'[n]) = AddonOf(ledger[n])
              \/ /\ addon[o] = NoRow /\ addon'[o] # NoRow /\ addon'[o].month = t.month
                 /\ \A p \in Orders \ {o} : addon'[p] = addon[p]
                 /\ AddonOf(ledger'[t.month]) = AddonOf(t.book) + Units
                 /\ \A n \in Months \ {t.month} : AddonOf(ledger'[n]) = AddonOf(ledger[n])
  <1>1. t.step = "grant" /\ Busy(w)
        BY DEF CommitGrant, Busy
  <1>2. t \in Granting /\ WorkingOn(t) /\ t.d \in Deliveries
        BY <1>1, TaskIs DEF TxnInv, Working
  <1>3. t.month \in Months /\ t.book \in Ledger \cup {NoRow}
        BY <1>2 DEF Granting
  <1>4. o \in Orders
    <2>1. event[t.d] \in OrderEvent
          BY <1>1, <1>2, EventIs DEF TxnInv, WorkingOn
    <2> QED BY <2>1 DEF OrderEvent
  <1>5. t.book = NoRow => ledger[t.month] = NoRow
        BY DEF CommitGrant, LedgerInsertable
  <1>6. CASE t.had
    <2>1. ledger' = [ledger EXCEPT ![t.month] = OrCreated(ledger[t.month])] /\ addon' = addon
          BY <1>6 DEF CommitGrant
    <2>2. addon' \in [Orders -> AddonRow \cup {NoRow}]
          BY <2>1 DEF TxnInv, TypeOK
    <2> QED BY <1>1, <1>2, <1>3, <1>4, <1>5, <2>1, <2>2, LedgerOpened
  <1>7. CASE ~t.had
    <2> DEFINE got == [status |-> "granted", month |-> t.month, refunded |-> 0]
               a == OrCreated(t.book).addon + Units
               u == OrCreated(t.book).used
    <2>1. /\ addon[o] = NoRow /\ addon' = [addon EXCEPT ![o] = got]
          /\ ledger' = [ledger EXCEPT ![t.month] =
                           [OrCreated(ledger[t.month]) EXCEPT !.addon = a, !.used = u]]
          BY <1>7 DEF CommitGrant
    <2>2. a \in Nat /\ u \in Nat /\ a = AddonOf(t.book) + Units
      <3>1. OrCreated(t.book) \in Ledger /\ OrCreated(t.book).addon = AddonOf(t.book)
            BY <1>3, OrCreatedIs
      <3> QED BY <3>1, WebhookAssumption DEF Ledger
    <2>3. got \in AddonRow /\ got # NoRow /\ got.month = t.month
          BY <1>3 DEF AddonRow, NoRow
    <2> HIDE DEF got, a, u
    <2>4. /\ ledger' \in [Months -> Ledger \cup {NoRow}] /\ AddonOf(ledger'[t.month]) = a
          /\ \A n \in Months \ {t.month} : ledger'[n] = ledger[n]
          /\ \A n \in Months : ledger[n] # NoRow => ledger'[n] # NoRow
          /\ IncludedStays
          BY <1>3, <2>1, <2>2, LedgerWritten
    <2>5. /\ addon' \in [Orders -> AddonRow \cup {NoRow}] /\ addon'[o] = got
          /\ \A p \in Orders \ {o} : addon'[p] = addon[p]
          BY <1>4, <2>1, <2>3 DEF TxnInv, TypeOK
    <2> QED BY <1>1, <1>2, <1>3, <1>4, <1>5, <2>1, <2>2, <2>3, <2>4, <2>5
  <1> QED BY <1>6, <1>7

\* Nothing is taken back; or the units are, from what was read.
LEMMA CommitRefundIs ==
    ASSUME TxnInv, NEW w \in Workers, CommitRefund(w), NEW t, t = worker[w]
    PROVE  /\ t \in Refunding /\ t.step = "refund" /\ t.month \in Months
           /\ t.book \in Ledger \cup {NoRow}
           /\ ledger' \in [Months -> Ledger \cup {NoRow}]
           /\ addon' \in [Orders -> AddonRow \cup {NoRow}] /\ refunds' \in [Months -> Nat]
           /\ \A n \in Months : ledger[n] # NoRow => ledger'[n] # NoRow
           /\ IncludedStays
           /\ t.book = NoRow => ledger[t.month] = NoRow
           /\ \A p \in Orders : /\ addon[p] = NoRow <=> addon'[p] = NoRow
                                /\ addon[p] # NoRow => addon'[p].month = addon[p].month
           /\ \/ refunds' = refunds /\ \A n \in Months : AddonOf(ledger'[n]) = AddonOf(ledger[n])
              \/ /\ t.book # NoRow
                 /\ AddonOf(ledger'[t.month]) = AddonOf(t.book) - Units
                 /\ refunds'[t.month] = refunds[t.month] + Units
                 /\ \A n \in Months \ {t.month} : /\ AddonOf(ledger'[n]) = AddonOf(ledger[n])
                                                  /\ refunds'[n] = refunds[n]
  <1>1. t.step = "refund" /\ Busy(w)
        BY DEF CommitRefund, Busy
  <1>2. t \in Refunding /\ WorkingOn(t)
        BY <1>1, TaskIs DEF TxnInv, Working
  <1>3. /\ t.month \in Months /\ t.book \in Ledger \cup {NoRow}
        /\ t.addon \in Orders \cup {NoOrder} /\ t.refunded \in Nat
        BY <1>2 DEF Refunding
  <1>4. t.book = NoRow => ledger[t.month] = NoRow
        BY DEF CommitRefund, LedgerInsertable
  <1> DEFINE book == OrCreated(t.book)
  <1>5. book \in Ledger /\ book.addon = AddonOf(t.book) /\ (t.book # NoRow => book = t.book)
        BY <1>3, OrCreatedIs
  <1>6. Units \in Nat /\ Units > 0
        BY WebhookAssumption
  <1>7. CASE Unused(book) < Units
    <2>1. /\ ledger' = [ledger EXCEPT ![t.month] = OrCreated(ledger[t.month])]
          /\ addon' = addon /\ refunds' = refunds
          BY <1>7 DEF CommitRefund
    <2>2. addon' \in [Orders -> AddonRow \cup {NoRow}] /\ refunds' \in [Months -> Nat]
          BY <2>1 DEF TxnInv, TypeOK
    <2> QED BY <1>1, <1>2, <1>3, <1>4, <2>1, <2>2, LedgerOpened
  <1>8. CASE ~(Unused(book) < Units)
    <2> DEFINE a == book.addon - Units
               u == book.used
               back == t.refunded + Units
    <2>1. /\ ledger' = [ledger EXCEPT ![t.month] = [ledger[t.month] EXCEPT !.addon = a, !.used = u]]
          /\ addon' = IF t.addon = NoOrder THEN addon
                      ELSE [addon EXCEPT ![t.addon] = [addon[t.addon] EXCEPT !.refunded = back]]
          /\ refunds' = [refunds EXCEPT ![t.month] = refunds[t.month] + Units]
          BY <1>8 DEF CommitRefund
    <2>2. book.addon \in Nat /\ book.used \in Nat /\ book.included \in Nat
          BY <1>5 DEF Ledger
    <2>3. a \in Nat /\ u \in Nat /\ book.addon >= Units /\ back \in Nat
          BY <1>3, <1>6, <1>8, <2>2 DEF Unused, Larger
    <2>4. t.book # NoRow
          BY <1>5, <1>6, <2>3 DEF AddonOf
    <2>5. ledger[t.month] # NoRow
          BY <1>1, <1>2, <2>4 DEF WorkingOn
    <2>6. OrCreated(ledger[t.month]) = ledger[t.month]
          BY <2>5 DEF OrCreated
    <2>7. a = AddonOf(t.book) - Units
          BY <1>5
    <2> HIDE DEF a, u, back, book
    <2>8. /\ ledger' \in [Months -> Ledger \cup {NoRow}] /\ AddonOf(ledger'[t.month]) = a
          /\ \A n \in Months \ {t.month} : ledger'[n] = ledger[n]
          /\ \A n \in Months : ledger[n] # NoRow => ledger'[n] # NoRow
          /\ IncludedStays
      <3>1. ledger' = [ledger EXCEPT ![t.month] =
                          [OrCreated(ledger[t.month]) EXCEPT !.addon = a, !.used = u]]
            BY <2>1, <2>6
      <3> QED BY <1>3, <2>3, <3>1, LedgerWritten
    <2>9. /\ refunds' \in [Months -> Nat] /\ refunds'[t.month] = refunds[t.month] + Units
          /\ \A n \in Months \ {t.month} : refunds'[n] = refunds[n]
          BY <1>3, <1>6, <2>1 DEF TxnInv, TypeOK
    <2>10. /\ addon' \in [Orders -> AddonRow \cup {NoRow}]
           /\ \A p \in Orders : /\ addon[p] = NoRow <=> addon'[p] = NoRow
                                /\ addon[p] # NoRow => addon'[p].month = addon[p].month
      <3>1. CASE t.addon = NoOrder
            BY <2>1, <3>1 DEF TxnInv, TypeOK
      <3>2. CASE t.addon # NoOrder
        <4> DEFINE old == addon[t.addon]
                   new == [old EXCEPT !.refunded = back]
        <4>1. t.addon \in Orders /\ old # NoRow
              BY <1>1, <1>2, <1>3, <3>2 DEF WorkingOn
        <4>2. old \in AddonRow
              BY <4>1 DEF TxnInv, TypeOK
        <4> HIDE DEF old
        <4>3. new \in AddonRow /\ new.month = old.month
              BY <2>3, <4>2 DEF AddonRow
        <4>4. new # NoRow
              BY <4>3 DEF AddonRow, NoRow
        <4>5. addon' = [addon EXCEPT ![t.addon] = new]
              BY <2>1, <3>2 DEF old
        <4> HIDE DEF new
        <4> QED BY <4>1, <4>3, <4>4, <4>5 DEF TxnInv, TypeOK, old
      <3> QED BY <3>1, <3>2
    <2> QED BY <1>1, <1>2, <1>3, <1>4, <2>4, <2>7, <2>8, <2>9, <2>10
  <1> QED BY <1>7, <1>8

LEMMA StepCommitAddon ==
    ASSUME TxnInv, NEW w \in Workers, CommitGrant(w) \/ CommitRefund(w)
    PROVE  TxnInv'
  <1>1. PICK t : t = worker[w]
        OBVIOUS
  <1>2. /\ t.step \in {"grant", "refund"}
        /\ ledger' \in [Months -> Ledger \cup {NoRow}]
        /\ addon' \in [Orders -> AddonRow \cup {NoRow}] /\ refunds' \in [Months -> Nat]
        /\ \A n \in Months : ledger[n] # NoRow => ledger'[n] # NoRow
        /\ \A o \in Orders : addon[o] # NoRow => addon'[o] # NoRow
        /\ IncludedStays
    <2>1. CASE CommitGrant(w)
      <3>1. PICK o : o = event[t.d].order
            OBVIOUS
      <3>2. refunds' \in [Months -> Nat]
            BY <2>1 DEF CommitGrant, TxnInv, TypeOK
      <3>3. \A p \in Orders : addon[p] # NoRow => addon'[p] # NoRow
            BY <1>1, <2>1, <3>1, CommitGrantIs
      <3> QED BY <1>1, <2>1, <3>1, <3>2, <3>3, CommitGrantIs
    <2>2. CASE CommitRefund(w)
          BY <1>1, <2>2, CommitRefundIs
    <2> QED BY <2>1, <2>2
  <1>3. /\ Committed(t.d) /\ Goto(w, [step |-> "mark", d |-> t.d])
        /\ UNCHANGED <<provider, claim, row, org, request, month, faults, orderly, overtaken,
                       promised>>
        BY <1>1 DEF CommitGrant, CommitRefund
  <1>4. RowsStay
        BY <1>2, <1>3 DEF RowsStay
  <1>5. /\ effects' \in [Deliveries -> Nat] /\ worker' \in [Workers -> Task \cup {Idle}]
        /\ Working' /\ OneEach' /\ OneWriter' /\ Claimed' /\ Sent' /\ Asking'
    <2>1. PICK d : d = t.d
          OBVIOUS
    <2>2. Busy(w)
          BY <1>1, <1>2 DEF Busy
    <2> QED BY <1>1, <1>2, <1>3, <1>4, <2>1, <2>2, CommitKeeps
  <1>6. TypeOK'
        BY <1>2, <1>3, <1>5 DEF TxnInv, TypeOK, provider
  <1> QED BY <1>5, <1>6 DEF TxnInv

LEMMA StepCommitNothing ==
    ASSUME TxnInv, NEW w \in Workers, CommitNothing(w)
    PROVE  TxnInv'
  <1>1. PICK d : d = worker[w].d
        OBVIOUS
  <1>2. /\ Committed(d) /\ Goto(w, [step |-> "mark", d |-> d]) /\ Busy(w) /\ worker[w].step = "read"
        /\ UNCHANGED <<provider, tables, request, month, faults, refunds, orderly, overtaken,
                       promised>>
        BY <1>1 DEF CommitNothing, Busy
  <1>3. RowsStay /\ IncludedStays
        BY <1>2 DEF RowsStay, IncludedStays, tables
  <1>4. /\ effects' \in [Deliveries -> Nat] /\ worker' \in [Workers -> Task \cup {Idle}]
        /\ Working' /\ OneEach' /\ OneWriter' /\ Claimed' /\ Sent' /\ Asking'
    <2>1. UNCHANGED <<provider, claim, request>>
          BY <1>2 DEF tables
    <2> QED BY <1>1, <1>2, <1>3, <2>1, CommitKeeps
  <1>5. TypeOK'
        BY <1>2, <1>4 DEF TxnInv, TypeOK, provider, tables
  <1> QED BY <1>4, <1>5 DEF TxnInv

\* The handler leaves its delivery, with the claim marked; a commit that was made is known.
LEMMA LeaveStep ==
    ASSUME TxnInv, NEW w \in Workers, Busy(w), NEW d, d = worker[w].d, NEW status \in Claims \ {"none"},
           claim' = [claim EXCEPT ![d] = status], Goto(w, Idle),
           status \in {"processed", "ignored"} => effects[d] = 1,
           UNCHANGED <<provider, row, org, ledger, addon, request, month, history>>,
           faults' \in 0..MaxFaults
    PROVE  TxnInv'
  <1>1. d \in Deliveries /\ d <= emitted /\ claim[d] # "none"
        BY TaskIs DEF TxnInv, Working, WorkingOn
  <1>2. /\ claim' \in [Deliveries -> Claims] /\ claim'[d] = status
        /\ \A c \in Deliveries \ {d} : claim'[c] = claim[c]
        BY <1>1 DEF TxnInv, TypeOK
  <1>3. worker' \in [Workers -> Task \cup {Idle}]
        BY Goes DEF TxnInv
  <1>4. TypeOK'
        BY <1>2, <1>3 DEF TxnInv, TypeOK, provider, history
  <1>5. Working' /\ OneEach' /\ OneWriter'
    <2>1. RowsStay /\ IncludedStays
          BY DEF RowsStay, IncludedStays
    <2>2. UNCHANGED <<emitted, event, effects>> /\ Idle.step # "write"
          BY DEF provider, history, Idle
    <2> QED BY <1>1, <1>2, <2>1, <2>2, WorkerMoves
  <1>6. Claimed' /\ Sent' /\ Asking'
        BY <1>1, <1>2 DEF TxnInv, Claimed, Sent, Asking, provider, history
  <1> QED BY <1>4, <1>5, <1>6 DEF TxnInv

LEMMA StepLeaves ==
    ASSUME TxnInv, NEW w \in Workers, MarkClaim(w) \/ Fail(w)
    PROVE  TxnInv'
  <1>1. PICK d : d = worker[w].d
        OBVIOUS
  <1>2. CASE MarkClaim(w)
    <2>1. Busy(w) /\ effects[d] = 1
          BY <1>1, <1>2 DEF MarkClaim, Busy, TxnInv, Working, WorkingOn
    <2>2. PICK status \in {"processed", "ignored"} : claim' = [claim EXCEPT ![d] = status]
          BY <1>1, <1>2 DEF MarkClaim
    <2>3. faults' \in 0..MaxFaults
          BY <1>2 DEF MarkClaim, TxnInv, TypeOK
    <2>4. status \in Claims \ {"none"}
          BY <2>2 DEF Claims
    <2>5. Goto(w, Idle) /\ UNCHANGED <<provider, row, org, ledger, addon, request, month, history>>
          BY <1>2 DEF MarkClaim
    <2> QED BY <1>1, <2>1, <2>2, <2>3, <2>4, <2>5, LeaveStep
  <1>3. CASE Fail(w)
    <2>1. PICK status \in {"failed", "processing"} : FailAs(w, status)
          BY <1>3 DEF Fail
    <2>2. faults' \in 0..MaxFaults
          BY <1>3, WebhookAssumption DEF Fail, TxnInv, TypeOK
    <2>3. Busy(w)
      <3>1. worker[w] \in Task
            BY <1>3 DEF Fail, TxnInv, TypeOK
      <3> QED BY <3>1, TasksAre DEF Busy
    <2> QED BY <1>1, <2>1, <2>2, <2>3, LeaveStep DEF FailAs, Claims
  <1> QED BY <1>2, <1>3
-----------------------------------------------------------------------------
(* The owner *)

LEMMA CommandTyped ==
    ASSUME NEW s \in Subs, NEW down \in BOOLEAN, NEW wish \in Wish,
           NEW step \in {"call", "schedule", "pending"}
    PROVE  [step |-> step, sub |-> s, wish |-> wish, down |-> down] \in Command
  BY DEF Command

\* A request goes on with its own subscription, and what it writes leaves the rows there.
LEMMA OwnerStep ==
    ASSUME TxnInv, NEW r \in Requests, NEW new \in Command \cup {Idle}, Turn(r, new),
           new # Idle => /\ row'[new.sub] # NoRow
                         /\ new.step = "schedule" => new.wish.kind = "plan",
           UNCHANGED <<provider, claim, org, ledger, addon, worker, month>>,
           row' \in [Subs -> SubRow \cup {NoRow}], \A s \in Subs : row[s] # NoRow => row'[s] # NoRow,
           UNCHANGED <<effects, refunds, orderly, overtaken>>, promised' \in 0..Undue,
           faults' \in 0..MaxFaults
    PROVE  TxnInv'
  <1>1. /\ request' \in [Requests -> Command \cup {Idle}] /\ request'[r] = new
        /\ \A q \in Requests \ {r} : request'[q] = request[q]
        BY Turns DEF TxnInv
  <1>2. TypeOK'
        BY <1>1 DEF TxnInv, TypeOK, provider
  <1>3. Working' /\ OneEach' /\ OneWriter'
    <2>1. RowsStay /\ IncludedStays
          BY DEF RowsStay, IncludedStays
    <2>2. emitted \in Nat /\ emitted' = emitted /\ event' = event
          BY DEF TxnInv, TypeOK, provider
    <2> QED BY <2>1, <2>2, WorkersStay
  <1>4. Claimed' /\ Sent'
        BY DEF TxnInv, Claimed, Sent, provider
  <1>5. Asking'
    <2> SUFFICES ASSUME NEW q \in Requests, request'[q] # Idle
                 PROVE  /\ row'[request'[q].sub] # NoRow
                        /\ request'[q].step = "schedule" => request'[q].wish.kind = "plan"
        BY DEF Asking
    <2>1. CASE q = r
          BY <1>1, <2>1
    <2>2. CASE q # r
      <3>1. request'[q] = request[q] /\ request[q] \in Command
            BY <1>1, <2>2 DEF TxnInv, TypeOK
      <3>2. request[q].sub \in Subs
            BY <3>1 DEF Command
      <3> QED BY <3>1, <3>2 DEF TxnInv, Asking
    <2> QED BY <2>1, <2>2
  <1> QED BY <1>2, <1>3, <1>4, <1>5 DEF TxnInv

\* The request that begins is one of a row that there is.
LEMMA BeginRequestIs ==
    ASSUME TxnInv, NEW r \in Requests, BeginRequest(r)
    PROVE  \E new \in Command : /\ Turn(r, new) /\ new.step = "call"
                                 /\ new.sub \in Subs /\ row[new.sub] # NoRow
  <1>1. PICK s \in Latest \ {NoSub}, wish \in Wish :
               Turn(r, [step |-> "call", sub |-> s, wish |-> wish,
                        down |-> wish.kind = "plan" /\ IsDowngrade(row[s], wish.offer)])
        BY DEF BeginRequest
  <1>2. s \in Subs /\ row[s] # NoRow
        BY DEF Latest, Existing
  <1>3. PICK down \in BOOLEAN : down = (wish.kind = "plan" /\ IsDowngrade(row[s], wish.offer))
        OBVIOUS
  <1> DEFINE new == [step |-> "call", sub |-> s, wish |-> wish, down |-> down]
  <1>4. new \in Command /\ new.step = "call" /\ new.sub = s
        BY <1>2, <1>3, CommandTyped
  <1>5. Turn(r, new)
        BY <1>1, <1>3
  <1> HIDE DEF new
  <1> QED BY <1>2, <1>4, <1>5

LEMMA OwnerBegins ==
    ASSUME TxnInv, NEW r \in Requests, BeginRequest(r)
    PROVE  TxnInv'
  <1>1. PICK new \in Command : /\ Turn(r, new) /\ new.step = "call"
                               /\ new.sub \in Subs /\ row[new.sub] # NoRow
        BY BeginRequestIs
  <1>2. /\ UNCHANGED <<provider, claim, row, org, ledger, addon, worker, month, faults>>
        /\ UNCHANGED <<effects, refunds, orderly, overtaken, promised>>
        BY DEF BeginRequest, tables, history
  <1>3. row' \in [Subs -> SubRow \cup {NoRow}] /\ promised' \in 0..Undue /\ faults' \in 0..MaxFaults
        BY <1>2 DEF TxnInv, TypeOK
  <1> QED BY <1>1, <1>2, <1>3, OwnerStep

\* The request at its next step.
LEMMA CommandGoes ==
    ASSUME NEW c \in Command, NEW step \in {"call", "schedule", "pending"}
    PROVE  /\ [c EXCEPT !.step = step] \in Command
           /\ [c EXCEPT !.step = step].step = step /\ [c EXCEPT !.step = step].sub = c.sub
           /\ [c EXCEPT !.step = step].wish = c.wish
  BY DEF Command

\* What the owner asks for leaves terms that the provider can report.
LEMMA CallTyped ==
    ASSUME TxnInv, NEW r \in Requests, CallProvider(r)
    PROVE  \E p \in Terms : PaidBecomes(p)
  <1>1. PICK wish : wish = request[r].wish
        OBVIOUS
  <1>2. wish \in Wish /\ (wish.kind = "plan" => wish.offer \in Offers)
        BY <1>1, CommandIs DEF CallProvider, TxnInv
  <1>3. wish.kind \in {"plan", "cancel", "resume"}
        BY <1>2 DEF Wish
  <1>4. paid \in Terms /\ month + 1 \in 0..(MaxMonth + 1) /\ 0 \in 0..(MaxMonth + 1)
        BY WebhookAssumption DEF TxnInv, TypeOK, Months
  <1>5. PaidBecomes(
          CASE wish.kind = "plan" -> [paid EXCEPT !.variant = wish.offer]
            [] wish.kind = "cancel" -> [paid EXCEPT !.status = "cancelled", !.ends = month + 1]
            [] wish.kind = "resume" -> [paid EXCEPT !.status = "active", !.ends = 0])
        BY <1>1 DEF CallProvider
  <1>6. CASE wish.kind = "plan"
    <2>1. [paid EXCEPT !.variant = wish.offer] \in Terms
          BY <1>2, <1>4, <1>6 DEF Terms
    <2> QED BY <1>5, <1>6, <2>1
  <1>7. CASE wish.kind = "cancel"
    <2>1. [paid EXCEPT !.status = "cancelled", !.ends = month + 1] \in Terms
          BY <1>4 DEF Terms, Statuses
    <2> QED BY <1>5, <1>7, <2>1
  <1>8. CASE wish.kind = "resume"
    <2>1. [paid EXCEPT !.status = "active", !.ends = 0] \in Terms
          BY <1>4 DEF Terms, Statuses
    <2> QED BY <1>5, <1>8, <2>1
  <1> QED BY <1>3, <1>6, <1>7, <1>8

LEMMA OwnerCalls ==
    ASSUME TxnInv, NEW r \in Requests, CallProvider(r)
    PROVE  TxnInv'
  <1> DEFINE c == request[r]
             step == IF c.wish.kind = "plan" THEN "schedule" ELSE "pending"
             new == [c EXCEPT !.step = step]
  <1>1. c \in Command /\ c.sub \in Subs /\ c # Idle
        BY CommandIs DEF CallProvider, TxnInv
  <1>2. row[c.sub] # NoRow
        BY <1>1 DEF TxnInv, Asking
  <1>3. /\ Turn(r, new) /\ UNCHANGED <<tables, worker, month, faults, history>>
        BY DEF CallProvider
  <1>4. step \in {"call", "schedule", "pending"} /\ (step = "schedule" => c.wish.kind = "plan")
        OBVIOUS
  <1>5. PICK p \in Terms : PaidBecomes(p)
        BY CallTyped
  <1> HIDE DEF step
  <1>6. new \in Command /\ new.step = step /\ new.sub = c.sub /\ new.wish = c.wish
        BY <1>1, <1>4, CommandGoes
  <1> HIDE DEF new
  <1>7. /\ request' \in [Requests -> Command \cup {Idle}] /\ request'[r] = new
        /\ \A q \in Requests \ {r} : request'[q] = request[q]
        BY <1>3, <1>6, Turns DEF TxnInv
  <1>8. Asking'
        BY <1>2, <1>3, <1>4, <1>6, <1>7 DEF TxnInv, Asking, tables
  <1>9. PICK e \in Event : Emit(e)
        BY <1>5, PaidEvent DEF TxnInv
  <1>10. paid' \in Terms
        BY <1>5, PaidEvent DEF TxnInv
  <1> QED BY <1>3, <1>7, <1>8, <1>9, <1>10, EmitStep

\* A row with another mark in it.
LEMMA RowMarked ==
    ASSUME TxnInv, NEW s \in Subs, row[s] # NoRow, NEW new \in SubRow, row' = [row EXCEPT ![s] = new]
    PROVE  /\ row' \in [Subs -> SubRow \cup {NoRow}] /\ row'[s] = new /\ new # NoRow
           /\ \A u \in Subs \ {s} : row'[u] = row[u]
           /\ \A u \in Subs : row[u] # NoRow => row'[u] # NoRow
  <1>1. new # NoRow
        BY DEF SubRow, NoRow, Statuses
  <1> QED BY <1>1 DEF TxnInv, TypeOK

\* The request finds its row, and changes only one mark in it.
LEMMA OwnerMarksIs ==
    ASSUME TxnInv, NEW r \in Requests, RecordSchedule(r) \/ MarkPending(r),
           NEW s, s = request[r].sub
    PROVE  /\ s \in Subs /\ row[s] # NoRow
           /\ \E new \in SubRow : /\ row' = [row EXCEPT ![s] = new]
                                  /\ new.status = row[s].status /\ new.plan = row[s].plan
                                  /\ new.interval = row[s].interval /\ new.month = row[s].month
                                  /\ RecordSchedule(r) => new.pending = row[s].pending
  <1> DEFINE c == request[r]
  <1>1. c \in Command /\ s \in Subs /\ row[s] # NoRow
    <2>1. c.step # "idle"
          BY DEF RecordSchedule, MarkPending
    <2> QED BY <2>1, CommandIs DEF TxnInv, Asking
  <1>2. row[s] \in SubRow
        BY <1>1 DEF TxnInv, TypeOK
  <1>3. CASE RecordSchedule(r)
    <2> DEFINE to == IF c.down THEN c.wish.offer ELSE NoDeal
               new == [row[s] EXCEPT !.scheduled = to]
    <2>1. row' = [row EXCEPT ![s] = new]
          BY <1>3 DEF RecordSchedule
    <2>2. c.wish.kind = "plan"
          BY <1>1, <1>3 DEF RecordSchedule, TxnInv, Asking, Idle
    <2>3. to \in Deal \cup {NoDeal}
      <3>1. c.wish.offer \in Offers
            BY <1>1, <1>3, <2>2, CommandIs DEF RecordSchedule, TxnInv
      <3> QED BY <3>1, OfferTyped
    <2> HIDE DEF to
    <2>4. /\ new \in SubRow /\ new.status = row[s].status /\ new.plan = row[s].plan
          /\ new.interval = row[s].interval /\ new.month = row[s].month
          /\ new.pending = row[s].pending
          BY <1>2, <2>3 DEF SubRow
    <2> QED BY <1>1, <2>1, <2>4
  <1>4. CASE MarkPending(r) /\ ~RecordSchedule(r)
    <2> DEFINE new == [row[s] EXCEPT !.pending = TRUE]
    <2>1. row' = [row EXCEPT ![s] = new]
          BY <1>4 DEF MarkPending
    <2>2. /\ new \in SubRow /\ new.status = row[s].status /\ new.plan = row[s].plan
          /\ new.interval = row[s].interval /\ new.month = row[s].month
          BY <1>2 DEF SubRow
    <2> QED BY <1>1, <1>4, <2>1, <2>2
  <1> QED BY <1>3, <1>4

LEMMA OwnerMarks ==
    ASSUME TxnInv, NEW r \in Requests, RecordSchedule(r) \/ MarkPending(r)
    PROVE  TxnInv'
  <1>1. PICK s : s = request[r].sub
        OBVIOUS
  <1>2. PICK new \in SubRow : row' = [row EXCEPT ![s] = new]
        BY <1>1, OwnerMarksIs
  <1>3. s \in Subs /\ row[s] # NoRow
        BY <1>1, OwnerMarksIs
  <1>4. /\ row' \in [Subs -> SubRow \cup {NoRow}] /\ row'[s] # NoRow
        /\ \A u \in Subs : row[u] # NoRow => row'[u] # NoRow
        BY <1>2, <1>3, RowMarked
  <1>5. CASE RecordSchedule(r)
    <2> DEFINE c == request[r]
               next == [c EXCEPT !.step = "pending"]
    <2>1. c \in Command
          BY <1>5, CommandIs DEF RecordSchedule, TxnInv
    <2>2. next \in Command /\ next.step = "pending" /\ next.sub = s
          BY <1>1, <2>1, CommandGoes
    <2>3. Turn(r, next)
          BY <1>5 DEF RecordSchedule
    <2> HIDE DEF next
    <2>4. promised' \in 0..Undue /\ faults' \in 0..MaxFaults
      <3>1. month \in Months /\ promised' \in {month + 1, Undue}
            BY <1>5 DEF RecordSchedule, TxnInv, TypeOK
      <3>2. faults' \in 0..MaxFaults
            BY <1>5 DEF RecordSchedule, TxnInv, TypeOK
      <3> QED BY <3>1, <3>2, WebhookAssumption DEF Months, Undue
    <2>5. /\ UNCHANGED <<provider, claim, org, ledger, addon, worker, month>>
          /\ UNCHANGED <<effects, refunds, orderly, overtaken>>
          BY <1>5 DEF RecordSchedule
    <2> QED BY <1>4, <2>2, <2>3, <2>4, <2>5, OwnerStep
  <1>6. CASE MarkPending(r)
    <2>1. promised' \in 0..Undue /\ faults' \in 0..MaxFaults
          BY <1>6 DEF MarkPending, TxnInv, TypeOK, history
    <2>2. /\ UNCHANGED <<provider, claim, org, ledger, addon, worker, month>>
          /\ UNCHANGED <<effects, refunds, orderly, overtaken>> /\ Turn(r, Idle)
          BY <1>6 DEF MarkPending, history
    <2> QED BY <1>4, <2>1, <2>2, OwnerStep
  <1> QED BY <1>5, <1>6

LEMMA OwnerAborts ==
    ASSUME TxnInv, NEW r \in Requests, Abort(r)
    PROVE  TxnInv'
  <1>1. row' \in [Subs -> SubRow \cup {NoRow}] /\ promised' \in 0..Undue
        BY DEF Abort, TxnInv, TypeOK, tables, history
  <1>2. faults' \in 0..MaxFaults
        BY WebhookAssumption DEF Abort, TxnInv, TypeOK
  <1>3. /\ UNCHANGED <<provider, claim, row, org, ledger, addon, worker, month>>
        /\ UNCHANGED <<effects, refunds, orderly, overtaken>> /\ Turn(r, Idle)
        BY DEF Abort, tables, history
  <1> QED BY <1>1, <1>2, <1>3, OwnerStep
-----------------------------------------------------------------------------
LEMMA TxnInit == Init => TxnInv
  <1> SUFFICES ASSUME Init PROVE TxnInv
      OBVIOUS
  <1>1. TypeOK
    <2>1. paid \in Terms
          BY WebhookAssumption DEF Init, Terms, Statuses
    <2>2. org \in OrgRow
          BY WebhookAssumption DEF Init, OrgRow, OrgStatuses, Plans
    <2>3. /\ event \in [Deliveries -> Event \cup {NoEvent}] /\ emitted \in 0..MaxEvents
          /\ claim \in [Deliveries -> Claims] /\ effects \in [Deliveries -> Nat]
          BY WebhookAssumption DEF Init, Claims
    <2>4. /\ row \in [Subs -> SubRow \cup {NoRow}] /\ ledger \in [Months -> Ledger \cup {NoRow}]
          /\ addon \in [Orders -> AddonRow \cup {NoRow}]
          /\ worker \in [Workers -> Task \cup {Idle}] /\ request \in [Requests -> Command \cup {Idle}]
          BY DEF Init
    <2>5. /\ month \in Months /\ faults \in 0..MaxFaults /\ refunds \in [Months -> Nat]
          /\ promised \in 0..Undue
          BY WebhookAssumption DEF Init, Months, Undue
    <2>6. orderly \in BOOLEAN /\ overtaken \in BOOLEAN
          BY DEF Init
    <2> QED BY <2>1, <2>2, <2>3, <2>4, <2>5, <2>6 DEF TypeOK
  <1>2. Working /\ OneEach /\ OneWriter /\ Asking
        BY DEF Init, Working, OneEach, OneWriter, Asking, Busy, Idle
  <1>3. Claimed /\ Sent
        BY DEF Init, Claimed, Sent, Deliveries
  <1> QED BY <1>1, <1>2, <1>3 DEF TxnInv

LEMMA TxnStep == TxnInv /\ [Next]_vars => TxnInv'
  <1> SUFFICES ASSUME TxnInv, [Next]_vars PROVE TxnInv'
      OBVIOUS
  <1>1. CASE World
        BY <1>1, WorldPays, WorldOther, WorldMonth, WorldLedger DEF World
  <1>2. ASSUME NEW w \in Workers, Reconcile(w) PROVE TxnInv'
        BY <1>2, StepClaim, StepReadSubscription, StepWriteSubscription, StepCommitSubscription,
           StepReadGrant, StepReadRefund, StepCommitAddon, StepCommitNothing, StepLeaves
           DEF Reconcile
  <1>3. ASSUME NEW r \in Requests, Owner(r) PROVE TxnInv'
        BY <1>3, OwnerBegins, OwnerCalls, OwnerMarks, OwnerAborts DEF Owner
  <1>4. CASE UNCHANGED vars
    <2>1. TypeOK' /\ Claimed' /\ Sent' /\ Asking'
          BY <1>4 DEF vars, provider, tables, history, TxnInv, TypeOK, Claimed, Sent, Asking
    <2>2. Working' /\ OneEach' /\ OneWriter'
      <3>1. RowsStay /\ IncludedStays
            BY <1>4 DEF vars, tables, RowsStay, IncludedStays
      <3>2. emitted \in Nat /\ emitted' = emitted /\ event' = event
            BY <1>4 DEF vars, provider, TxnInv, TypeOK
      <3> QED BY <1>4, <3>1, <3>2, WorkersStay DEF vars, tables, history
    <2> QED BY <2>1, <2>2 DEF TxnInv
  <1> QED BY <1>1, <1>2, <1>3, <1>4 DEF Next

\* Every table, claim, add-on and ledger keeps its type, whatever overlaps, fails and is repeated.
THEOREM TypeCorrect == Spec => []TypeOK
  <1>1. TxnInv => TypeOK
        BY DEF TxnInv
  <1> QED BY <1>1, TxnInit, TxnStep, PTL DEF Spec
-----------------------------------------------------------------------------
(* Each delivery takes effect at most once *)

\* A commit: the delivery was claimed, and has its effect now.
LEMMA CommitApplies ==
    ASSUME TxnInv, NEW w \in Workers, Busy(w), worker[w].step # "mark", Committed(worker[w].d),
           claim' = claim
    PROVE  \E d \in Deliveries : Inbox!Apply(d)
  <1>1. PICK d \in Deliveries : d = worker[w].d
        BY TaskIs DEF TxnInv
  <1>2. claim[d] # "none" /\ effects[d] = 0
        BY <1>1 DEF TxnInv, Working, WorkingOn
  <1>3. effects' = [effects EXCEPT ![d] = 1]
        BY <1>1, <1>2 DEF Committed, TxnInv, TypeOK
  <1> QED BY <1>2, <1>3 DEF Inbox!Apply

LEMMA InboxStays ==
    ASSUME claim' = claim, effects' = effects
    PROVE  UNCHANGED Inbox!inbox
  BY DEF Inbox!inbox

LEMMA InboxStep == TxnInv /\ [Next]_vars => [Inbox!InboxNext]_(Inbox!inbox)
  <1> SUFFICES ASSUME TxnInv, [Next]_vars
               PROVE  Inbox!InboxNext \/ UNCHANGED Inbox!inbox
      OBVIOUS
  <1>1. CASE World
        BY <1>1, InboxStays
           DEF World, Subscribes, StatusChanges, OtherEvent, NextMonth, OpenMonth, UseCredit, Elsewhere,
               tables, history
  <1>2. ASSUME NEW w \in Workers, Reconcile(w)
        PROVE  Inbox!InboxNext \/ UNCHANGED Inbox!inbox
    <2>1. ASSUME NEW d \in Deliveries, Claim(w, d) PROVE Inbox!Take(d)
      <3>1. claim' = [claim EXCEPT ![d] = "processing"] /\ claim[d] = "none" /\ effects' = effects
            BY <2>1 DEF Claim
      <3>2. {c \in Deliveries : claim'[c] # "none"} = {c \in Deliveries : claim[c] # "none"} \cup {d}
            BY <3>1 DEF TxnInv, TypeOK
      <3> QED BY <3>1, <3>2 DEF Inbox!Take
    <2>2. CASE ReadSubscription(w) \/ WriteSubscription(w) \/ ReadGrant(w) \/ ReadRefund(w)
          BY <2>2, InboxStays
             DEF ReadSubscription, WriteSubscription, ReadGrant, ReadRefund, tables, history
    <2>3. CASE CommitSubscription(w)
          BY <2>3, CommitApplies DEF CommitSubscription, Busy, Inbox!InboxNext
    <2>4. CASE CommitGrant(w) \/ CommitRefund(w)
          BY <2>4, CommitApplies DEF CommitGrant, CommitRefund, Busy, Inbox!InboxNext
    <2>5. CASE CommitNothing(w)
          BY <2>5, CommitApplies DEF CommitNothing, Busy, tables, Inbox!InboxNext
    <2>6. CASE MarkClaim(w) \/ Fail(w)
      <3>1. PICK d : d = worker[w].d
            OBVIOUS
      <3>2. Busy(w)
        <4>1. worker[w] \in Task \cup {Idle} /\ (Fail(w) => worker[w] # Idle)
              BY DEF Fail, TxnInv, TypeOK
        <4> QED BY <2>6, <4>1, TasksAre DEF MarkClaim, Busy
      <3>3. d \in Deliveries /\ claim[d] # "none"
            BY <3>1, <3>2, TaskIs DEF TxnInv, Working, WorkingOn
      <3>4. PICK status \in Claims \ {"none"} : claim' = [claim EXCEPT ![d] = status]
            BY <2>6, <3>1 DEF MarkClaim, Fail, FailAs, Claims
      <3>5. {c \in Deliveries : claim'[c] # "none"} = {c \in Deliveries : claim[c] # "none"}
            BY <3>3, <3>4 DEF TxnInv, TypeOK
      <3>6. effects' = effects
            BY <2>6 DEF MarkClaim, Fail, FailAs, history
      <3> QED BY <3>5, <3>6 DEF Inbox!inbox
    <2> QED BY <1>2, <2>1, <2>2, <2>3, <2>4, <2>5, <2>6 DEF Reconcile, Inbox!InboxNext
  <1>3. ASSUME NEW r \in Requests, Owner(r)
        PROVE  UNCHANGED Inbox!inbox
    <2>1. CASE BeginRequest(r)
          BY <2>1, InboxStays DEF BeginRequest, tables, history
    <2>2. CASE ~BeginRequest(r)
          BY <1>3, <2>2, InboxStays
             DEF Owner, CallProvider, RecordSchedule, MarkPending, Abort, tables, history
    <2> QED BY <2>1, <2>2
  <1>4. CASE UNCHANGED vars
        BY <1>4, InboxStays DEF vars, tables, history
  <1> QED BY <1>1, <1>2, <1>3, <1>4 DEF Next

LEMMA InboxStart == Init => Inbox!InboxInit
  BY DEF Init, Inbox!InboxInit

\* reconcileWebhookEvent takes each body at most once and commits its effect at most once, for any
\* number of deliveries, handlers and faults: every step is one of the inbox, or leaves it.
THEOREM DeliveriesTakenOnce == Spec => ImplementsInbox
  <1>1. TxnInv /\ [Next]_vars => [Inbox!InboxNext]_(Inbox!inbox)
        BY InboxStep
  <1> QED BY <1>1, InboxStart, TxnInit, TxnStep, PTL DEF Spec, ImplementsInbox, Inbox!InboxSpec

\* By the inbox alone: the effect of a billing webhook is committed once at most, after its claim.
THEOREM EffectsCommittedOnce == Spec => []Inbox!AppliedOnce
  <1>1. Inbox!InboxInit => Inbox!AppliedOnce
        BY DEF Inbox!InboxInit, Inbox!AppliedOnce
  <1>2. Inbox!AppliedOnce /\ [Inbox!InboxNext]_(Inbox!inbox) => Inbox!AppliedOnce'
    <2> SUFFICES ASSUME Inbox!AppliedOnce, [Inbox!InboxNext]_(Inbox!inbox)
                 PROVE  Inbox!AppliedOnce'
        OBVIOUS
    <2>1. CASE UNCHANGED Inbox!inbox
          BY <2>1 DEF Inbox!inbox, Inbox!AppliedOnce
    <2>2. ASSUME NEW d \in Deliveries, Inbox!Take(d)
          PROVE  Inbox!AppliedOnce'
          BY <2>2 DEF Inbox!Take, Inbox!AppliedOnce
    <2>3. ASSUME NEW d \in Deliveries, Inbox!Apply(d)
          PROVE  Inbox!AppliedOnce'
          BY <2>3 DEF Inbox!Apply, Inbox!AppliedOnce
    <2> QED BY <2>1, <2>2, <2>3 DEF Inbox!InboxNext
  <1> QED BY <1>1, <1>2, DeliveriesTakenOnce, PTL DEF ImplementsInbox, Inbox!InboxSpec
-----------------------------------------------------------------------------
(* What a month includes *)

Grows == \A n \in Months : ledger[n] # NoRow =>
            ledger'[n] # NoRow /\ ledger'[n].included >= ledger[n].included

LEMMA GrowsIfStays ==
    ASSUME TypeOK, \A n \in Months : ledger[n] # NoRow => ledger'[n] # NoRow, IncludedStays
    PROVE  Grows
  <1>1. \A n \in Months : ledger[n] # NoRow => ledger[n] \in Ledger
        BY DEF TypeOK
  <1>2. \A n \in Months : ledger[n] # NoRow => ledger[n].included \in Nat
        BY <1>1 DEF Ledger
  <1> QED BY <1>2 DEF IncludedStays, Grows

LEMMA GrowsStep == TxnInv /\ [Next]_vars => [Grows]_vars
  <1> SUFFICES ASSUME TxnInv, Next PROVE Grows
      OBVIOUS
  <1>1. CASE ledger' = ledger
        BY <1>1, GrowsIfStays DEF TxnInv, IncludedStays
  <1>2. CASE OpenMonth \/ UseCredit
    <2>1. PICK book \in Ledger : /\ ledger' = [ledger EXCEPT ![month] = book]
                                 /\ ledger[month] # NoRow => book.included = ledger[month].included
          BY <1>2, WorldLedger
    <2>2. book # NoRow
          BY DEF Ledger, NoRow
    <2>3. /\ \A n \in Months : ledger[n] # NoRow => ledger'[n] # NoRow
          /\ IncludedStays
          BY <2>1, <2>2 DEF TxnInv, TypeOK, IncludedStays
    <2> QED BY <2>3, GrowsIfStays DEF TxnInv
  <1>3. ASSUME NEW w \in Workers, CommitSubscription(w) PROVE Grows
    <2>1. PICK t : t = worker[w]
          OBVIOUS
    <2> QED BY <1>3, <2>1, CommitSubscriptionIs DEF Grows
  <1>4. ASSUME NEW w \in Workers, CommitGrant(w) \/ CommitRefund(w) PROVE Grows
    <2>1. PICK t : t = worker[w]
          OBVIOUS
    <2>2. PICK o : o = event[t.d].order
          OBVIOUS
    <2>3. (\A n \in Months : ledger[n] # NoRow => ledger'[n] # NoRow) /\ IncludedStays
      <3>1. CASE CommitGrant(w)
            BY <2>1, <2>2, <3>1, CommitGrantIs
      <3>2. CASE CommitRefund(w)
            BY <2>1, <3>2, CommitRefundIs
      <3> QED BY <1>4, <3>1, <3>2
    <2> QED BY <2>3, GrowsIfStays DEF TxnInv
  <1>5. World => OpenMonth \/ UseCredit \/ ledger' = ledger
        BY DEF World, Subscribes, StatusChanges, OtherEvent, NextMonth, Elsewhere, tables
  <1>6. ASSUME NEW w \in Workers, Reconcile(w)
        PROVE  CommitSubscription(w) \/ CommitGrant(w) \/ CommitRefund(w) \/ ledger' = ledger
        BY <1>6 DEF Reconcile, Claim, ReadSubscription, WriteSubscription, ReadGrant, ReadRefund,
                    CommitNothing, MarkClaim, Fail, FailAs, tables
  <1>7. ASSUME NEW r \in Requests, Owner(r) PROVE ledger' = ledger
        BY <1>7 DEF Owner, BeginRequest, CallProvider, RecordSchedule, MarkPending, Abort,
                    tables
  <1> QED BY <1>1, <1>2, <1>3, <1>4, <1>5, <1>6, <1>7 DEF Next

\* Reconciling never lowers what a month includes, nor loses the month, although it writes what it
\* computed from an earlier read, for any plans, months and handlers.
THEOREM IncludedGrows == Spec => IncludedNeverFalls
  <1>1. TxnInv /\ [Next]_vars => [Grows]_vars
        BY GrowsStep
  <1>2. Spec => [][Grows]_vars
        BY <1>1, TxnInit, TxnStep, PTL DEF Spec
  <1> QED BY <1>2 DEF Grows, IncludedNeverFalls
-----------------------------------------------------------------------------
(* Events that come one after another *)

\* Where they do, one transaction is under way at most, on the delivery claimed last.
LEMMA OnlyOne ==
    ASSUME TxnInv, Sole, orderly, NEW w \in Workers, Busy(w)
    PROVE  /\ \A v \in Workers : Busy(v) => v = w
           /\ \A d \in Deliveries : effects[d] # 0 => d <= worker[w].d
           /\ \A d \in Deliveries : claim[d] # "none" => d <= worker[w].d
  <1>1. ASSUME NEW v \in Workers, Busy(v)
        PROVE  worker[v].d \in Deliveries /\ worker[v].d \in Nat /\ claim[worker[v].d] = "processing"
        BY <1>1, TaskIs DEF TxnInv, Sole, Deliveries
  <1>2. ASSUME NEW d \in Deliveries, claim[d] # "none" PROVE d <= worker[w].d
    <2>1. d \in Nat
          BY DEF Deliveries
    <2>2. ~(worker[w].d < d)
          BY <1>1, <1>2 DEF Sole
    <2> QED BY <1>1, <2>1, <2>2
  <1>3. \A v \in Workers : Busy(v) => v = w
    <2> SUFFICES ASSUME NEW v \in Workers, Busy(v) PROVE v = w
        OBVIOUS
    <2>1. ~(worker[w].d < worker[v].d) /\ ~(worker[v].d < worker[w].d)
          BY <1>1 DEF Sole
    <2>2. worker[v].d = worker[w].d
          BY <1>1, <2>1
    <2> QED BY <2>2 DEF TxnInv, OneEach
  <1> QED BY <1>2, <1>3 DEF TxnInv, Claimed

\* A step that claims nothing and marks nothing, of a handler that keeps its delivery.
LEMMA SoleStays ==
    ASSUME Sole, claim' = claim, orderly' = orderly,
           \A v \in Workers : Busy(v)' => Busy(v) /\ worker'[v].d = worker[v].d
    PROVE  Sole'
  BY DEF Sole

\* A transaction that reads keeps its delivery.
LEMMA ReadsKeep ==
    ASSUME NEW w \in Workers,
           ReadSubscription(w) \/ WriteSubscription(w) \/ ReadGrant(w) \/ ReadRefund(w)
    PROVE  \E new : Goto(w, new) /\ new.d = worker[w].d
  <1>1. CASE ReadSubscription(w)
    <2>1. PICK s : Goto(w, [step |-> "lock", d |-> worker[w].d, seen |-> s,
                            old |-> IF s = NoSub THEN NoRow ELSE row[s]])
          BY <1>1 DEF ReadSubscription
    <2>2. PICK old : old = IF s = NoSub THEN NoRow ELSE row[s]
          OBVIOUS
    <2>3. Goto(w, [step |-> "lock", d |-> worker[w].d, seen |-> s, old |-> old])
          BY <2>1, <2>2
    <2> QED BY <2>3
  <1>2. CASE WriteSubscription(w)
    <2>1. PICK new, to, book : Goto(w, [step |-> "write", d |-> worker[w].d,
                                        seen |-> worker[w].seen, new |-> new, org |-> to,
                                        book |-> book])
          BY <1>2 DEF WriteSubscription
    <2> QED BY <2>1
  <1>3. CASE ReadGrant(w)
    <2>1. PICK had, book : Goto(w, [step |-> "grant", d |-> worker[w].d, month |-> month,
                                    had |-> had, book |-> book])
          BY <1>3 DEF ReadGrant
    <2> QED BY <2>1
  <1>4. CASE ReadRefund(w)
    <2>1. PICK o, back, book : Goto(w, [step |-> "refund", d |-> worker[w].d, month |-> month,
                                        book |-> book, addon |-> o, refunded |-> back])
          BY <1>4 DEF ReadRefund
    <2> QED BY <2>1
  <1> QED BY <1>1, <1>2, <1>3, <1>4

LEMMA SoleStep == TxnInv /\ Sole /\ [Next]_vars => Sole'
  <1> SUFFICES ASSUME TxnInv, Sole, [Next]_vars PROVE Sole'
      OBVIOUS
  <1>1. CASE World \/ UNCHANGED vars
    <2>1. claim' = claim /\ orderly' = orderly /\ worker' = worker
          BY <1>1 DEF World, Subscribes, StatusChanges, OtherEvent, NextMonth, OpenMonth, UseCredit,
                      Elsewhere, tables, history, vars
    <2> QED BY <2>1, SoleStays DEF Busy
  <1>2. ASSUME NEW r \in Requests, Owner(r) PROVE Sole'
    <2>1. claim' = claim /\ orderly' = orderly /\ worker' = worker
          BY <1>2 DEF Owner, BeginRequest, CallProvider, RecordSchedule, MarkPending, Abort,
                      tables, history
    <2> QED BY <2>1, SoleStays DEF Busy
  <1>3. ASSUME NEW w \in Workers, NEW d \in Deliveries, Claim(w, d) PROVE Sole'
    <2>1. /\ claim[d] = "none" /\ claim' = [claim EXCEPT ![d] = "processing"]
          /\ orderly' = (orderly /\ \A c \in 1..(d - 1) : claim[c] \in {"processed", "ignored"})
          /\ Goto(w, [step |-> "read", d |-> d])
          BY <1>3 DEF Claim
    <2>2. claim'[d] = "processing" /\ \A c \in Deliveries \ {d} : claim'[c] = claim[c]
          BY <2>1 DEF TxnInv, TypeOK
    <2>3. /\ worker'[w].d = d /\ \A v \in Workers \ {w} : worker'[v] = worker[v]
          BY <2>1 DEF Goto, TxnInv, TypeOK
    <2> SUFFICES ASSUME orderly'
                 PROVE  /\ \A b, c \in Deliveries : b < c /\ claim'[c] # "none"
                                                      => claim'[b] \in {"processed", "ignored"}
                        /\ \A v \in Workers : Busy(v)' => claim'[worker'[v].d] = "processing"
        BY DEF Sole
    <2>4. orderly /\ \A c \in Deliveries : c < d => claim[c] \in {"processed", "ignored"}
      <3>1. \A c \in Deliveries : c < d => c \in 1..(d - 1)
            BY DEF Deliveries
      <3> QED BY <2>1, <3>1
    <2>5. ASSUME NEW b \in Deliveries, NEW c \in Deliveries, b < c, claim'[c] # "none"
          PROVE  claim'[b] \in {"processed", "ignored"}
      <3>1. CASE c = d
            BY <2>2, <2>4, <2>5, <3>1 DEF Deliveries
      <3>2. CASE c # d
            BY <2>1, <2>2, <2>4, <2>5, <3>2 DEF Sole
      <3> QED BY <3>1, <3>2
    <2>6. ASSUME NEW v \in Workers, Busy(v)' PROVE claim'[worker'[v].d] = "processing"
      <3>1. CASE v = w
            BY <2>2, <2>3, <3>1
      <3>2. CASE v # w
        <4>1. Busy(v) /\ worker'[v] = worker[v]
              BY <2>3, <2>6, <3>2 DEF Busy
        <4>2. worker[v].d \in Deliveries /\ claim[worker[v].d] = "processing"
              BY <2>4, <4>1, TaskIs DEF TxnInv, Sole
        <4> QED BY <2>1, <2>2, <4>1, <4>2
      <3> QED BY <3>1, <3>2
    <2> QED BY <2>5, <2>6
  <1>4. ASSUME NEW w \in Workers, MarkClaim(w) \/ Fail(w) PROVE Sole'
    <2>1. PICK d : d = worker[w].d
          OBVIOUS
    <2>2. Busy(w)
      <3>1. worker[w] \in Task \cup {Idle} /\ (Fail(w) => worker[w] # Idle)
            BY DEF Fail, TxnInv, TypeOK
      <3> QED BY <1>4, <3>1, TasksAre DEF MarkClaim, Busy
    <2>3. d \in Deliveries
          BY <2>1, <2>2, TaskIs DEF TxnInv
    <2>4. PICK status : /\ claim' = [claim EXCEPT ![d] = status]
                        /\ MarkClaim(w) => status \in {"processed", "ignored"}
          BY <1>4, <2>1 DEF MarkClaim, Fail, FailAs
    <2>5. Goto(w, Idle) /\ orderly' = orderly
          BY <1>4 DEF MarkClaim, Fail, FailAs, history
    <2>6. claim'[d] = status /\ \A c \in Deliveries \ {d} : claim'[c] = claim[c]
          BY <2>3, <2>4 DEF TxnInv, TypeOK
    <2>7. \A v \in Workers : Busy(v)' => Busy(v) /\ v # w /\ worker'[v] = worker[v]
          BY <2>5, Goes DEF TxnInv, Busy, Idle
    <2> SUFFICES ASSUME orderly'
                 PROVE  /\ \A b, c \in Deliveries : b < c /\ claim'[c] # "none"
                                                      => claim'[b] \in {"processed", "ignored"}
                        /\ \A v \in Workers : Busy(v)' => claim'[worker'[v].d] = "processing"
        BY DEF Sole
    <2>8. \A v \in Workers : ~Busy(v)'
          BY <2>2, <2>5, <2>7, OnlyOne
    <2>9. ASSUME NEW b \in Deliveries, NEW c \in Deliveries, b < c, claim'[c] # "none"
          PROVE  claim'[b] \in {"processed", "ignored"}
      <3>1. claim[c] # "none"
            BY <2>1, <2>2, <2>3, <2>6, <2>9 DEF TxnInv, Working, WorkingOn
      <3>2. claim[b] \in {"processed", "ignored"}
            BY <2>5, <2>9, <3>1 DEF Sole
      <3>3. claim[d] = "processing"
            BY <2>1, <2>2, <2>5 DEF Sole
      <3> QED BY <2>6, <3>2, <3>3
    <2> QED BY <2>8, <2>9
  <1>5. ASSUME NEW w \in Workers, Reconcile(w) PROVE Sole'
    <2>1. CASE ReadSubscription(w) \/ WriteSubscription(w) \/ ReadGrant(w) \/ ReadRefund(w)
      <3>1. Busy(w) /\ worker[w].d \in Deliveries
            BY <2>1, TaskIs DEF ReadSubscription, WriteSubscription, ReadGrant, ReadRefund, Busy, TxnInv
      <3>2. PICK new : Goto(w, new) /\ new.d = worker[w].d
            BY <2>1, ReadsKeep
      <3>3. claim' = claim /\ orderly' = orderly
            BY <2>1 DEF ReadSubscription, WriteSubscription, ReadGrant, ReadRefund, tables, history
      <3>4. \A v \in Workers : Busy(v)' => Busy(v) /\ worker'[v].d = worker[v].d
            BY <3>1, <3>2 DEF Goto, Busy, TxnInv, TypeOK
      <3> QED BY <3>3, <3>4, SoleStays
    <2>2. CASE CommitSubscription(w) \/ CommitGrant(w) \/ CommitRefund(w) \/ CommitNothing(w)
      <3>1. Busy(w) /\ worker[w].d \in Deliveries
            BY <2>2, TaskIs DEF CommitSubscription, CommitGrant, CommitRefund, CommitNothing, Busy, TxnInv
      <3>2. Goto(w, [step |-> "mark", d |-> worker[w].d])
            BY <2>2 DEF CommitSubscription, CommitGrant, CommitRefund, CommitNothing
      <3>3. claim' = claim /\ orderly' = orderly
            BY <2>2 DEF CommitSubscription, CommitGrant, CommitRefund, CommitNothing, tables
      <3>4. \A v \in Workers : Busy(v)' => Busy(v) /\ worker'[v].d = worker[v].d
            BY <3>1, <3>2 DEF Goto, Busy, TxnInv, TypeOK
      <3> QED BY <3>3, <3>4, SoleStays
    <2> QED BY <1>3, <1>4, <1>5, <2>1, <2>2 DEF Reconcile
  <1> QED BY <1>1, <1>2, <1>5 DEF Next
-----------------------------------------------------------------------------
(* What backs the credits *)

LEMMA BackedNext ==
    ASSUME \A n \in Months : AddonOf(ledger'[n]) <= Units * Cardinality(BoughtIn(n)'),
           \A v \in Workers : worker'[v].step \in {"grant", "refund"} => worker'[v].month \in Months,
           \A v \in Workers, m \in Months :
              worker'[v].month = m /\ worker'[v].step \in {"grant", "refund"} =>
                 AddonOf(worker'[v].book) <= Units * Cardinality(BoughtIn(m)')
    PROVE  Backed'
  <1>1. \A n \in Months : AddonOf(ledger[n])' <= Units * Cardinality(BoughtIn(n)')
        BY DEF AddonOf
  <1>2. ASSUME NEW v \in Workers, worker'[v].step \in {"grant", "refund"}
        PROVE  (AddonOf(worker[v].book) <= Units * Cardinality(BoughtIn(worker[v].month)))'
    <2>1. PICK m \in Months : worker'[v].month = m
          BY <1>2
    <2>2. AddonOf(worker[v].book)' <= Units * Cardinality(BoughtIn(m)')
          BY <1>2, <2>1 DEF AddonOf
    <2>3. BoughtIn(worker[v].month)' = BoughtIn(m)'
          BY <2>1 DEF BoughtIn, Granted
    <2> QED BY <2>2, <2>3
  <1> QED BY <1>1, <1>2 DEF Backed

\* A step that changes no credits; a transaction that reads a ledger finds what is there.
LEMMA CreditStays ==
    ASSUME TypeOK, Backed, AllBacked, orderly' => orderly, addon' = addon, refunds' = refunds,
           \A n \in Months : AddonOf(ledger'[n]) = AddonOf(ledger[n]),
           \A v \in Workers : worker'[v].step \in {"grant", "refund"} =>
              \/ worker'[v] = worker[v]
              \/ worker'[v].month \in Months /\ worker'[v].book = ledger[worker'[v].month]
    PROVE  Backed' /\ AllBacked'
  <1>1. \A n \in Months : BoughtIn(n)' = BoughtIn(n)
        BY DEF BoughtIn, Granted
  <1>2. \A v \in Workers : worker'[v].step \in {"grant", "refund"} =>
           worker'[v].month \in Months
    <2> SUFFICES ASSUME NEW v \in Workers, worker'[v].step \in {"grant", "refund"},
                        worker'[v] = worker[v]
                 PROVE  worker'[v].month \in Months
        OBVIOUS
    <2>1. Busy(v) /\ worker[v].step \in {"grant", "refund"}
          BY DEF Busy
    <2>2. worker[v] \in Granting \cup Refunding
          BY <2>1, TaskIs
    <2> QED BY <2>2 DEF Granting, Refunding
  <1>3. Backed'
    <2>1. \A n \in Months : AddonOf(ledger'[n]) <= Units * Cardinality(BoughtIn(n)')
          BY <1>1 DEF Backed
    <2>2. ASSUME NEW v \in Workers, NEW m \in Months, worker'[v].month = m,
                 worker'[v].step \in {"grant", "refund"}
          PROVE  AddonOf(worker'[v].book) <= Units * Cardinality(BoughtIn(m)')
      <3>1. AddonOf(worker'[v].book) <= Units * Cardinality(BoughtIn(m))
        <4>1. CASE worker'[v] = worker[v]
              BY <2>2, <4>1 DEF Backed
        <4>2. CASE worker'[v] # worker[v]
              BY <2>2, <4>2 DEF Backed
        <4> QED BY <4>1, <4>2
      <3> QED BY <1>1, <3>1
    <2> QED BY <1>2, <2>1, <2>2, BackedNext
  <1>4. AllBacked'
    <2> SUFFICES ASSUME orderly'
                 PROVE  /\ \A n \in Months : AddonOf(ledger'[n]) + refunds'[n]
                                               = Units * Cardinality(BoughtIn(n)')
                        /\ \A v \in Workers :
                              worker'[v].step \in {"grant", "refund"} /\ worker'[v].book # NoRow =>
                                AddonOf(ledger'[worker'[v].month]) = AddonOf(worker'[v].book)
        BY DEF AllBacked, AddonOf, BoughtIn, Granted
    <2>1. \A n \in Months : AddonOf(ledger'[n]) + refunds'[n] = Units * Cardinality(BoughtIn(n)')
          BY <1>1 DEF AllBacked
    <2>2. ASSUME NEW v \in Workers, worker'[v].step \in {"grant", "refund"}, worker'[v].book # NoRow
          PROVE  AddonOf(ledger'[worker'[v].month]) = AddonOf(worker'[v].book)
      <3>1. worker'[v].month \in Months
            BY <1>2, <2>2
      <3>2. CASE worker'[v] = worker[v]
        <4>1. AddonOf(ledger[worker[v].month]) = AddonOf(worker[v].book)
              BY <2>2, <3>2 DEF AllBacked
        <4> QED BY <3>1, <3>2, <4>1
      <3>3. CASE worker'[v] # worker[v]
            BY <2>2, <3>1, <3>3
      <3> QED BY <3>2, <3>3
    <2> QED BY <2>1, <2>2
  <1> QED BY <1>3, <1>4

LEMMA CreditTypes ==
    ASSUME TypeOK
    PROVE  /\ \A n \in Months : AddonOf(ledger[n]) \in Nat /\ refunds[n] \in Nat
           /\ \A n \in Months : IsFiniteSet(BoughtIn(n)) /\ Cardinality(BoughtIn(n)) \in Nat
           /\ Units \in Nat /\ Units > 0
  <1>1. \A book \in Ledger \cup {NoRow} : AddonOf(book) \in Nat
        BY DEF AddonOf, Ledger
  <1>2. \A n \in Months : ledger[n] \in Ledger \cup {NoRow} /\ refunds[n] \in Nat
        BY DEF TypeOK
  <1>3. ASSUME NEW n \in Months PROVE IsFiniteSet(BoughtIn(n)) /\ Cardinality(BoughtIn(n)) \in Nat
    <2>1. BoughtIn(n) \subseteq Orders /\ IsFiniteSet(Orders)
          BY WebhookAssumption DEF BoughtIn, Granted
    <2>2. IsFiniteSet(BoughtIn(n))
          BY <2>1, FS_Subset
    <2> QED BY <2>2, FS_CardinalityType
  <1> QED BY <1>1, <1>2, <1>3, WebhookAssumption

\* A transaction that commits and moves on to the marking of the claim.
LEMMA OthersCredits ==
    ASSUME TxnInv, NEW w \in Workers, NEW d, Goto(w, [step |-> "mark", d |-> d])
    PROVE  \A v \in Workers : worker'[v].step \in {"grant", "refund"} =>
              v # w /\ worker'[v] = worker[v] /\ Busy(v) /\ worker[v].month \in Months
                    /\ worker[v].book \in Ledger \cup {NoRow}
  <1>1. worker'[w].step = "mark" /\ \A v \in Workers \ {w} : worker'[v] = worker[v]
        BY DEF Goto, TxnInv, TypeOK
  <1>2. ASSUME NEW v \in Workers, worker'[v].step \in {"grant", "refund"}
        PROVE  /\ v # w /\ worker'[v] = worker[v] /\ Busy(v) /\ worker[v].month \in Months
               /\ worker[v].book \in Ledger \cup {NoRow}
    <2>1. v # w /\ worker'[v] = worker[v] /\ Busy(v) /\ worker[v].step \in {"grant", "refund"}
          BY <1>1, <1>2 DEF Busy
    <2>2. worker[v] \in Granting \cup Refunding
          BY <2>1, TaskIs DEF TxnInv
    <2> QED BY <2>1, <2>2 DEF Granting, Refunding
  <1> QED BY <1>2

LEMMA CreditGrant ==
    ASSUME TxnInv, CreditInv, NEW w \in Workers, CommitGrant(w)
    PROVE  Backed' /\ AllBacked'
  <1>1. PICK t : t = worker[w]
        OBVIOUS
  <1>2. PICK o : o = event[t.d].order
        OBVIOUS
  <1>3. /\ t.step = "grant" /\ t.month \in Months /\ o \in Orders /\ t.book \in Ledger \cup {NoRow}
        /\ t.book = NoRow => ledger[t.month] = NoRow
        /\ \/ addon' = addon /\ \A n \in Months : AddonOf(ledger'[n]) = AddonOf(ledger[n])
           \/ /\ addon[o] = NoRow /\ addon'[o] # NoRow /\ addon'[o].month = t.month
              /\ \A p \in Orders \ {o} : addon'[p] = addon[p]
              /\ AddonOf(ledger'[t.month]) = AddonOf(t.book) + Units
              /\ \A n \in Months \ {t.month} : AddonOf(ledger'[n]) = AddonOf(ledger[n])
        BY <1>1, <1>2, CommitGrantIs
  <1>4. Goto(w, [step |-> "mark", d |-> t.d]) /\ refunds' = refunds /\ orderly' = orderly
        BY <1>1 DEF CommitGrant
  <1>5. \A v \in Workers : worker'[v].step \in {"grant", "refund"} =>
           /\ v # w /\ worker'[v] = worker[v] /\ Busy(v) /\ worker[v].month \in Months
           /\ worker[v].book \in Ledger \cup {NoRow}
        BY <1>4, OthersCredits
  <1>6. CASE addon' = addon /\ \A n \in Months : AddonOf(ledger'[n]) = AddonOf(ledger[n])
        BY <1>4, <1>5, <1>6, CreditStays DEF TxnInv, CreditInv
  <1>7. CASE ~(addon' = addon /\ \A n \in Months : AddonOf(ledger'[n]) = AddonOf(ledger[n]))
    <2>1. /\ addon[o] = NoRow /\ addon'[o] # NoRow /\ addon'[o].month = t.month
          /\ \A p \in Orders \ {o} : addon'[p] = addon[p]
          /\ AddonOf(ledger'[t.month]) = AddonOf(t.book) + Units
          /\ \A n \in Months \ {t.month} : AddonOf(ledger'[n]) = AddonOf(ledger[n])
          BY <1>3, <1>7
    <2>2. BoughtIn(t.month)' = BoughtIn(t.month) \cup {o} /\ o \notin BoughtIn(t.month)
          BY <1>3, <2>1 DEF BoughtIn, Granted
    <2>3. \A n \in Months \ {t.month} : BoughtIn(n)' = BoughtIn(n)
          BY <1>3, <2>1 DEF BoughtIn, Granted
    <2>4. Cardinality(BoughtIn(t.month)') = Cardinality(BoughtIn(t.month)) + 1
      <3>1. PICK B : B = BoughtIn(t.month)
            OBVIOUS
      <3>2. IsFiniteSet(B)
            BY <1>3, <3>1, CreditTypes DEF TxnInv
      <3>3. Cardinality(B \cup {o}) = Cardinality(B) + 1
            BY <2>2, <3>1, <3>2, FS_AddElement
      <3> QED BY <2>2, <3>1, <3>3
    <2>5. PICK k : k = Cardinality(BoughtIn(t.month))
          OBVIOUS
    <2>6. k \in Nat /\ Units \in Nat /\ Units > 0 /\ Units * (k + 1) = Units * k + Units
          BY <1>3, <2>5, CreditTypes DEF TxnInv
    <2>7. Units * Cardinality(BoughtIn(t.month)') = Units * k + Units
          BY <2>4, <2>5, <2>6
    <2>8. \A book \in Ledger \cup {NoRow} : AddonOf(book) \in Nat
          BY DEF AddonOf, Ledger
    <2>9. Units * k \in Nat
          BY <2>6
    <2>10. AddonOf(t.book) <= Units * k
          BY <1>1, <1>3, <2>5 DEF CreditInv, Backed
    <2>11. Backed'
      <3>1. ASSUME NEW n \in Months
            PROVE  AddonOf(ledger'[n]) <= Units * Cardinality(BoughtIn(n)')
        <4>1. CASE n = t.month
          <5>1. AddonOf(t.book) + Units <= Units * k + Units
                BY <1>3, <2>6, <2>8, <2>9, <2>10
          <5> QED BY <2>1, <2>7, <4>1, <5>1
        <4>2. CASE n # t.month
              BY <2>1, <2>3, <4>2 DEF CreditInv, Backed
        <4> QED BY <4>1, <4>2
      <3>2. ASSUME NEW v \in Workers, NEW m \in Months, worker'[v].month = m,
                   worker'[v].step \in {"grant", "refund"}
            PROVE  AddonOf(worker'[v].book) <= Units * Cardinality(BoughtIn(m)')
        <4>1. PICK u : u = worker[v]
              OBVIOUS
        <4>2. /\ worker'[v] = u /\ u.month = m /\ u.book \in Ledger \cup {NoRow}
              /\ u.step \in {"grant", "refund"}
              BY <1>5, <3>2, <4>1
        <4>3. AddonOf(u.book) <= Units * Cardinality(BoughtIn(m))
              BY <4>1, <4>2 DEF CreditInv, Backed
        <4>4. CASE m = t.month
          <5>1. AddonOf(u.book) <= Units * k /\ AddonOf(u.book) \in Nat
                BY <2>5, <2>8, <4>2, <4>3, <4>4
          <5>2. AddonOf(u.book) <= Units * k + Units
                BY <2>6, <2>9, <5>1
          <5> QED BY <2>7, <4>2, <4>4, <5>2
        <4>5. CASE m # t.month
              BY <2>3, <4>2, <4>3, <4>5
        <4> QED BY <4>4, <4>5
      <3>3. \A v \in Workers : worker'[v].step \in {"grant", "refund"} => worker'[v].month \in Months
            BY <1>5
      <3> QED BY <3>1, <3>2, <3>3, BackedNext
    <2>12. AllBacked'
      <3> SUFFICES ASSUME orderly'
                   PROVE  /\ \A n \in Months : AddonOf(ledger'[n]) + refunds'[n]
                                                 = Units * Cardinality(BoughtIn(n)')
                          /\ \A v \in Workers : ~(worker'[v].step \in {"grant", "refund"})
          BY DEF AllBacked, AddonOf, BoughtIn, Granted
      <3>1. orderly /\ Busy(w)
            BY <1>1, <1>3, <1>4 DEF Busy
      <3>2. \A v \in Workers : ~(worker'[v].step \in {"grant", "refund"})
            BY <1>5, <3>1, OnlyOne DEF CreditInv
      <3>3. ASSUME NEW n \in Months
            PROVE  AddonOf(ledger'[n]) + refunds'[n] = Units * Cardinality(BoughtIn(n)')
        <4>1. CASE n = t.month
          <5>1. AddonOf(t.book) = AddonOf(ledger[t.month])
            <6>1. CASE t.book = NoRow
                  BY <1>3, <6>1
            <6>2. CASE t.book # NoRow
                  BY <1>1, <1>3, <3>1, <6>2 DEF CreditInv, AllBacked
            <6> QED BY <6>1, <6>2
          <5>2. AddonOf(ledger[t.month]) + refunds[t.month] = Units * k
                BY <1>3, <2>5, <3>1 DEF CreditInv, AllBacked
          <5>3. AddonOf(ledger[t.month]) \in Nat /\ refunds[t.month] \in Nat
                BY <1>3, CreditTypes DEF TxnInv
          <5>4. AddonOf(ledger'[t.month]) = AddonOf(ledger[t.month]) + Units
                BY <2>1, <5>1
          <5>5. (AddonOf(ledger[t.month]) + Units) + refunds[t.month] = Units * k + Units
                BY <2>6, <2>9, <5>2, <5>3
          <5> QED BY <1>4, <2>7, <4>1, <5>4, <5>5
        <4>2. CASE n # t.month
              BY <1>4, <2>1, <2>3, <3>1, <4>2 DEF CreditInv, AllBacked
        <4> QED BY <4>1, <4>2
      <3> QED BY <3>2, <3>3
    <2> QED BY <2>11, <2>12
  <1> QED BY <1>6, <1>7

LEMMA CreditRefund ==
    ASSUME TxnInv, CreditInv, NEW w \in Workers, CommitRefund(w)
    PROVE  Backed' /\ AllBacked'
  <1>1. PICK t : t = worker[w]
        OBVIOUS
  <1>2. /\ t.step = "refund" /\ t.month \in Months /\ t.book \in Ledger \cup {NoRow}
        /\ \A p \in Orders : /\ addon[p] = NoRow <=> addon'[p] = NoRow
                             /\ addon[p] # NoRow => addon'[p].month = addon[p].month
        /\ \/ refunds' = refunds /\ \A n \in Months : AddonOf(ledger'[n]) = AddonOf(ledger[n])
           \/ /\ t.book # NoRow
              /\ AddonOf(ledger'[t.month]) = AddonOf(t.book) - Units
              /\ refunds'[t.month] = refunds[t.month] + Units
              /\ \A n \in Months \ {t.month} : /\ AddonOf(ledger'[n]) = AddonOf(ledger[n])
                                               /\ refunds'[n] = refunds[n]
        BY <1>1, CommitRefundIs
  <1>3. Goto(w, [step |-> "mark", d |-> t.d]) /\ orderly' = orderly
        BY <1>1 DEF CommitRefund
  <1>4. \A v \in Workers : worker'[v].step \in {"grant", "refund"} =>
           /\ v # w /\ worker'[v] = worker[v] /\ Busy(v) /\ worker[v].month \in Months
           /\ worker[v].book \in Ledger \cup {NoRow}
        BY <1>3, OthersCredits
  <1>5. \A n \in Months : BoughtIn(n)' = BoughtIn(n)
        BY <1>2 DEF BoughtIn, Granted
  <1>6. /\ \A n \in Months : AddonOf(ledger[n]) \in Nat /\ refunds[n] \in Nat
        /\ Units \in Nat /\ Units > 0
        BY CreditTypes DEF TxnInv
  <1>7. \A book \in Ledger \cup {NoRow} : AddonOf(book) \in Nat
        BY DEF AddonOf, Ledger
  <1>8. \A n \in Months : Cardinality(BoughtIn(n)) \in Nat
        BY CreditTypes DEF TxnInv
  <1>9. Backed'
    <2>1. ASSUME NEW n \in Months PROVE AddonOf(ledger'[n]) <= Units * Cardinality(BoughtIn(n)')
      <3>1. PICK k : k = Units * Cardinality(BoughtIn(n))
            OBVIOUS
      <3>2. AddonOf(ledger[n]) <= k /\ k \in Nat
            BY <1>6, <1>8, <3>1 DEF CreditInv, Backed
      <3>3. n = t.month => AddonOf(t.book) <= k
            BY <1>1, <1>2, <3>1 DEF CreditInv, Backed
      <3>4. AddonOf(ledger'[n]) <= k
        <4>1. CASE AddonOf(ledger'[n]) = AddonOf(ledger[n])
              BY <3>2, <4>1
        <4>2. CASE n = t.month /\ AddonOf(ledger'[n]) = AddonOf(t.book) - Units
              BY <1>2, <1>6, <1>7, <3>2, <3>3, <4>2
        <4> QED BY <1>2, <4>1, <4>2
      <3> QED BY <1>5, <3>1, <3>4
    <2>2. ASSUME NEW v \in Workers, NEW m \in Months, worker'[v].month = m,
                 worker'[v].step \in {"grant", "refund"}
          PROVE  AddonOf(worker'[v].book) <= Units * Cardinality(BoughtIn(m)')
          BY <1>4, <1>5, <2>2 DEF CreditInv, Backed
    <2>3. \A v \in Workers : worker'[v].step \in {"grant", "refund"} => worker'[v].month \in Months
          BY <1>4
    <2> QED BY <2>1, <2>2, <2>3, BackedNext
  <1>10. AllBacked'
    <2> SUFFICES ASSUME orderly'
                 PROVE  /\ \A n \in Months : AddonOf(ledger'[n]) + refunds'[n]
                                               = Units * Cardinality(BoughtIn(n)')
                        /\ \A v \in Workers : ~(worker'[v].step \in {"grant", "refund"})
        BY DEF AllBacked, AddonOf, BoughtIn, Granted
    <2>1. orderly /\ Busy(w)
          BY <1>1, <1>2, <1>3 DEF Busy
    <2>2. \A v \in Workers : ~(worker'[v].step \in {"grant", "refund"})
          BY <1>4, <2>1, OnlyOne DEF CreditInv
    <2>3. ASSUME NEW n \in Months
          PROVE  AddonOf(ledger'[n]) + refunds'[n] = Units * Cardinality(BoughtIn(n)')
      <3>1. AddonOf(ledger[n]) + refunds[n] = Units * Cardinality(BoughtIn(n)')
            BY <1>5, <2>1 DEF CreditInv, AllBacked
      <3>2. CASE AddonOf(ledger'[n]) = AddonOf(ledger[n]) /\ refunds'[n] = refunds[n]
            BY <3>1, <3>2
      <3>3. CASE /\ n = t.month /\ t.book # NoRow /\ AddonOf(ledger'[n]) = AddonOf(t.book) - Units
                 /\ refunds'[n] = refunds[n] + Units
        <4>1. AddonOf(ledger[n]) = AddonOf(t.book)
              BY <1>1, <1>2, <2>1, <3>3 DEF CreditInv, AllBacked
        <4>2. AddonOf(ledger[n]) \in Nat /\ refunds[n] \in Nat
              BY <1>6
        <4>3. (AddonOf(ledger[n]) - Units) + (refunds[n] + Units) = AddonOf(ledger[n]) + refunds[n]
              BY <1>6, <4>2
        <4> QED BY <3>1, <3>3, <4>1, <4>3
      <3> QED BY <1>2, <3>2, <3>3
    <2> QED BY <2>2, <2>3
  <1> QED BY <1>9, <1>10

\* A transaction that reads takes the ledger as it is.
LEMMA ReadsLedger ==
    ASSUME TypeOK, NEW w \in Workers,
           ReadSubscription(w) \/ WriteSubscription(w) \/ ReadGrant(w) \/ ReadRefund(w)
    PROVE  \A v \in Workers : worker'[v].step \in {"grant", "refund"} =>
              \/ worker'[v] = worker[v]
              \/ worker'[v].month \in Months /\ worker'[v].book = ledger[worker'[v].month]
  <1>1. CASE ReadSubscription(w)
    <2>1. PICK s, old : Goto(w, [step |-> "lock", d |-> worker[w].d, seen |-> s, old |-> old])
      <3>1. PICK s : Goto(w, [step |-> "lock", d |-> worker[w].d, seen |-> s,
                              old |-> IF s = NoSub THEN NoRow ELSE row[s]])
            BY <1>1 DEF ReadSubscription
      <3>2. PICK old : old = IF s = NoSub THEN NoRow ELSE row[s]
            OBVIOUS
      <3>3. Goto(w, [step |-> "lock", d |-> worker[w].d, seen |-> s, old |-> old])
            BY <3>1, <3>2
      <3> QED BY <3>3
    <2> QED BY <2>1 DEF Goto, TypeOK
  <1>2. CASE WriteSubscription(w)
    <2>1. PICK new, to, book : Goto(w, [step |-> "write", d |-> worker[w].d,
                                        seen |-> worker[w].seen, new |-> new, org |-> to,
                                        book |-> book])
          BY <1>2 DEF WriteSubscription
    <2> QED BY <2>1 DEF Goto, TypeOK
  <1>3. CASE ReadGrant(w)
    <2>1. PICK had : Goto(w, [step |-> "grant", d |-> worker[w].d, month |-> month,
                              had |-> had, book |-> ledger[month]])
          BY <1>3 DEF ReadGrant
    <2> QED BY <2>1 DEF Goto, TypeOK
  <1>4. CASE ReadRefund(w)
    <2>1. PICK o, back : Goto(w, [step |-> "refund", d |-> worker[w].d, month |-> month,
                                  book |-> ledger[month], addon |-> o, refunded |-> back])
          BY <1>4 DEF ReadRefund
    <2> QED BY <2>1 DEF Goto, TypeOK
  <1> QED BY <1>1, <1>2, <1>3, <1>4

\* A transaction that ends, or has not read a ledger, leaves the others as they were.
LEMMA OthersKeepLedgers ==
    ASSUME TypeOK, NEW w \in Workers, NEW new, Goto(w, new), new.step \notin {"grant", "refund"}
    PROVE  \A v \in Workers : worker'[v].step \in {"grant", "refund"} => worker'[v] = worker[v]
  BY DEF Goto, TypeOK

LEMMA CreditStep == TxnInv /\ CreditInv /\ [Next]_vars => CreditInv'
  <1> SUFFICES ASSUME TxnInv, CreditInv, [Next]_vars PROVE Backed' /\ AllBacked'
      BY SoleStep DEF CreditInv
  <1> USE DEF CreditInv
  <1>1. CASE OpenMonth \/ UseCredit
    <2>1. PICK book \in Ledger : /\ ledger' = [ledger EXCEPT ![month] = book]
                                 /\ book.addon = AddonOf(ledger[month])
          BY <1>1, WorldLedger
    <2>2. book # NoRow
          BY DEF Ledger, NoRow
    <2>3. \A n \in Months : AddonOf(ledger'[n]) = AddonOf(ledger[n])
          BY <2>1, <2>2 DEF TxnInv, TypeOK, AddonOf
    <2>4. UNCHANGED <<addon, refunds, orderly, worker>>
          BY <1>1 DEF OpenMonth, UseCredit, history
    <2> QED BY <2>3, <2>4, CreditStays DEF TxnInv
  <1>2. CASE Subscribes \/ StatusChanges \/ OtherEvent \/ NextMonth \/ UNCHANGED vars
    <2>1. UNCHANGED <<ledger, addon, refunds, orderly, worker>>
          BY <1>2 DEF Subscribes, StatusChanges, OtherEvent, NextMonth, Elsewhere, tables, history, vars
    <2> QED BY <2>1, CreditStays DEF TxnInv, AddonOf
  <1>3. ASSUME NEW r \in Requests, Owner(r) PROVE Backed' /\ AllBacked'
    <2>1. UNCHANGED <<ledger, addon, refunds, orderly, worker>>
          BY <1>3 DEF Owner, BeginRequest, CallProvider, RecordSchedule, MarkPending, Abort,
                      tables, history
    <2> QED BY <2>1, CreditStays DEF TxnInv, AddonOf
  <1>4. ASSUME NEW w \in Workers, Reconcile(w) PROVE Backed' /\ AllBacked'
    <2>1. CASE \E d \in Deliveries : Claim(w, d)
      <3>1. PICK d : Claim(w, d)
            BY <2>1
      <3>2. Goto(w, [step |-> "read", d |-> d]) /\ UNCHANGED <<ledger, addon, refunds>>
            /\ (orderly' => orderly)
            BY <3>1 DEF Claim
      <3>3. \A v \in Workers : worker'[v].step \in {"grant", "refund"} => worker'[v] = worker[v]
            BY <3>2, OthersKeepLedgers DEF TxnInv
      <3> QED BY <3>2, <3>3, CreditStays DEF TxnInv, AddonOf
    <2>2. CASE ReadSubscription(w) \/ WriteSubscription(w) \/ ReadGrant(w) \/ ReadRefund(w)
      <3>1. UNCHANGED <<ledger, addon, refunds, orderly>>
            BY <2>2 DEF ReadSubscription, WriteSubscription, ReadGrant, ReadRefund, tables, history
      <3> QED BY <2>2, <3>1, ReadsLedger, CreditStays DEF TxnInv, AddonOf
    <2>3. CASE CommitSubscription(w)
      <3>1. PICK t : t = worker[w]
            OBVIOUS
      <3>2. \A n \in Months : AddonOf(ledger'[n]) = AddonOf(ledger[n])
            BY <2>3, <3>1, CommitSubscriptionIs
      <3>3. Goto(w, [step |-> "mark", d |-> t.d]) /\ UNCHANGED <<addon, refunds, orderly>>
            BY <2>3, <3>1 DEF CommitSubscription
      <3>4. \A v \in Workers : worker'[v].step \in {"grant", "refund"} => worker'[v] = worker[v]
            BY <3>3, OthersCredits
      <3> QED BY <3>2, <3>3, <3>4, CreditStays DEF TxnInv
    <2>4. CASE CommitNothing(w)
      <3>1. PICK d : d = worker[w].d
            OBVIOUS
      <3>2. Goto(w, [step |-> "mark", d |-> d]) /\ UNCHANGED <<ledger, addon, refunds, orderly>>
            BY <2>4, <3>1 DEF CommitNothing, tables
      <3>3. \A v \in Workers : worker'[v].step \in {"grant", "refund"} => worker'[v] = worker[v]
            BY <3>2, OthersCredits
      <3> QED BY <3>2, <3>3, CreditStays DEF TxnInv, AddonOf
    <2>5. CASE MarkClaim(w) \/ Fail(w)
      <3>1. Goto(w, Idle) /\ UNCHANGED <<ledger, addon, refunds, orderly>>
            BY <2>5 DEF MarkClaim, Fail, FailAs, history
      <3>2. \A v \in Workers : worker'[v].step \in {"grant", "refund"} => worker'[v] = worker[v]
            BY <3>1, OthersKeepLedgers DEF TxnInv, Idle
      <3> QED BY <3>1, <3>2, CreditStays DEF TxnInv, AddonOf
    <2> QED BY <1>4, <2>1, <2>2, <2>3, <2>4, <2>5, CreditGrant, CreditRefund DEF Reconcile
  <1> QED BY <1>1, <1>2, <1>3, <1>4 DEF Next, World

LEMMA CreditInit == Init => CreditInv
  <1> SUFFICES ASSUME Init PROVE CreditInv
      OBVIOUS
  <1>1. \A n \in Months : AddonOf(ledger[n]) = 0 /\ refunds[n] = 0 /\ BoughtIn(n) = {}
        BY DEF Init, AddonOf, BoughtIn, Granted
  <1>2. Cardinality({}) = 0 /\ Units * 0 = 0
        BY FS_EmptySet, WebhookAssumption
  <1>3. \A n \in Months : Units * Cardinality(BoughtIn(n)) = 0
        BY <1>1, <1>2
  <1>4. \A w \in Workers : ~Busy(w) /\ worker[w].step \notin {"grant", "refund"}
        BY DEF Init, Idle, Busy
  <1>5. \A d \in Deliveries : claim[d] = "none"
        BY DEF Init
  <1> QED BY <1>1, <1>3, <1>4, <1>5 DEF CreditInv, Backed, AllBacked, Sole

\* The add-on credits of a month are never more than its orders paid for, whatever overlaps, fails
\* or is repeated; and, with events one after another, they are all there, but for the refunds.
THEOREM CreditsAreBacked == Spec => []AddonBacked
  <1>1. TxnInv /\ CreditInv => AddonBacked
        BY DEF TxnInv, CreditInv, Backed, AllBacked, AddonBacked, BoughtIn, AddonOf
  <1> QED BY <1>1, TxnInit, TxnStep, CreditInit, CreditStep, PTL DEF Spec
-----------------------------------------------------------------------------
(* One subscription, as the last event says *)

FaithInv == LastApplied /\ SeenRows

\* A row's plan and interval, and the events up to here, are all that matters of what was told.
LEMMA ToldStays ==
    ASSUME NEW r, NEW q, NEW ds, AsTold(r, ds), q.plan = r.plan, q.interval = r.interval,
           \A d \in ds : event'[d] = event[d]
    PROVE  AsTold(q, ds)'
  <1>1. Telling(ds)' = Telling(ds)
        BY DEF Telling, Says
  <1>2. \A d \in Telling(ds) : Says(d)' = Says(d) /\ IsActive(d)' = IsActive(d)
        BY DEF Telling, Says, IsActive
  <1>3. PICK ts : ts = Telling(ds)
        OBVIOUS
  <1>4. CASE ts = {} /\ r.plan = 0 /\ r.interval = "none"
        BY <1>1, <1>3, <1>4 DEF AsTold
  <1>5. CASE ~(ts = {} /\ r.plan = 0 /\ r.interval = "none")
    <2>1. PICK c \in ts, last \in ts :
             /\ IsLast(last, ts)
             /\ r.plan = Says(c).plan /\ r.interval = Says(last).interval
             /\ \A d \in ts : d > c => IsActive(d)
             /\ c # last => \E d \in ts \ {last} :
                   /\ IsLast(d, ts \ {last})
                   /\ PriceForPlan(r.plan, Says(d).interval)
                         > PriceForPlan(Says(last).plan, Says(last).interval)
          BY <1>3, <1>5 DEF AsTold
    <2>2. /\ Says(c)' = Says(c) /\ Says(last)' = Says(last)
          /\ \A d \in ts : d > c => IsActive(d)'
          BY <1>2, <1>3, <2>1
    <2>3. c # last => \E d \in ts \ {last} :
                   /\ IsLast(d, ts \ {last})
                   /\ PriceForPlan(q.plan, Says(d)'.interval)
                         > PriceForPlan(Says(last)'.plan, Says(last)'.interval)
          BY <1>2, <1>3, <2>1, <2>2
    <2> QED BY <1>1, <1>3, <2>1, <2>2, <2>3 DEF AsTold
  <1> QED BY <1>4, <1>5

\* Time only confirms that an organization follows its subscription.
LEMMA FollowsStays ==
    ASSUME NEW o, NEW r, NEW q, NEW terms \in Terms, Follows(o, r, terms), q.plan = r.plan,
           month \in Int, month' \in Int, month' >= month
    PROVE  Follows(o, q, terms)'
  <1>1. terms.ends \in Int
        BY WebhookAssumption DEF Terms
  <1> QED BY <1>1 DEF Follows

LEMMA TermsOf ==
    ASSUME TypeOK, NEW d \in Deliveries, event[d].kind = "subscription"
    PROVE  event[d] \in SubEvent /\ event[d].terms \in Terms
  BY EventIs DEF SubEvent

LEMMA EmittedDelivers ==
    ASSUME TypeOK
    PROVE  1..emitted \subseteq Deliveries /\ Applied \subseteq 1..emitted
  BY WebhookAssumption DEF TypeOK, Deliveries, Applied

\* A step that applies no event of a subscription and leaves what was read.
Frame == /\ orderly' => orderly
         /\ Applied' = Applied /\ org' = org /\ Existing' = Existing
         /\ month' \in Int /\ month' >= month
         /\ \A d \in 1..emitted : event'[d] = event[d]
         /\ \A s \in Existing : Agree(row'[s], row[s])

LEMMA ExistingStays == row' = row => Existing' = Existing
  BY DEF Existing

\* Steps that leave the subscription and the organization, and the events that had an effect.
LEMMA Frames ==
    ASSUME TxnInv, orderly' => orderly, Applied' = Applied, UNCHANGED <<row, org>>,
           month' = month \/ month' = month + 1, \A d \in 1..emitted : event'[d] = event[d]
    PROVE  Frame
  <1>1. month \in Int /\ month' \in Int /\ month' >= month
        BY DEF TxnInv, TypeOK, Months
  <1> QED BY <1>1, ExistingStays DEF Frame, Agree

LEMMA SeenStays ==
    ASSUME TxnInv, Frame, NEW t, t.step \in {"lock", "write"}, t.d \in 1..emitted,
           event[t.d].kind = "subscription", SeenBy(t)
    PROVE  SeenBy(t)'
  <1>1. Existing' = IF t.seen = NoSub THEN {} ELSE {t.seen}
        BY DEF SeenBy, Frame
  <1>2. t.step = "lock" => HasRead(t)'
    <2> SUFFICES ASSUME t.step = "lock" PROVE HasRead(t)'
        OBVIOUS
    <2>1. HasRead(t)
          BY DEF SeenBy
    <2>2. CASE t.seen = NoSub
          BY <2>1, <2>2 DEF HasRead
    <2>3. CASE t.seen # NoSub
      <3>1. t.seen \in Existing
            BY <2>3 DEF SeenBy
      <3>2. Agree(row'[t.seen], row[t.seen])
            BY <3>1 DEF Frame
      <3> QED BY <2>1, <2>3, <3>2 DEF HasRead, Agree
    <2> QED BY <2>2, <2>3
  <1>3. t.step = "write" => /\ AsTold(t.new, Applied \cup {t.d})'
                            /\ Follows(t.org, t.new, event[t.d].terms)'
    <2> SUFFICES ASSUME t.step = "write"
                 PROVE  /\ AsTold(t.new, Applied \cup {t.d})'
                        /\ Follows(t.org, t.new, event[t.d].terms)'
        OBVIOUS
    <2>1. PICK ds : ds = Applied \cup {t.d}
          OBVIOUS
    <2>2. ds = (Applied \cup {t.d})'
          BY <2>1 DEF Frame
    <2>3. \A d \in ds : event'[d] = event[d]
          BY <2>1, EmittedDelivers DEF Frame, TxnInv
    <2>4. AsTold(t.new, ds)
          BY <2>1 DEF SeenBy
    <2>5. AsTold(t.new, ds)'
          BY <2>3, <2>4, ToldStays
    <2>6. PICK terms : terms = event[t.d].terms
          OBVIOUS
    <2>7. terms \in Terms /\ terms = event'[t.d].terms
          BY <2>6, TermsOf, EmittedDelivers DEF Frame, TxnInv
    <2>8. Follows(t.org, t.new, terms)
          BY <2>6 DEF SeenBy
    <2>9. Follows(t.org, t.new, terms)'
      <3>1. month \in Int
            BY DEF TxnInv, TypeOK, Months
      <3> QED BY <2>7, <2>8, <3>1, FollowsStays DEF Frame
    <2> QED BY <2>2, <2>5, <2>7, <2>9
  <1> QED BY <1>1, <1>2, <1>3 DEF SeenBy

LEMMA OfEventsStays ==
    ASSUME TxnInv, Frame, NEW s \in Subs, NEW d \in Applied, OfEvents(s, d)
    PROVE  OfEvents(s, d)'
  <1>1. s \in Existing /\ Existing' = {s}
        BY DEF OfEvents, Frame
  <1>2. Agree(row'[s], row[s]) /\ event'[d] = event[d] /\ d \in 1..emitted /\ d \in Deliveries
        BY <1>1, EmittedDelivers DEF Frame, TxnInv
  <1>3. PICK r : r = row[s]
        OBVIOUS
  <1>4. PICK q : q = row'[s]
        OBVIOUS
  <1>5. PICK ds : ds = Applied
        OBVIOUS
  <1>6. q.plan = r.plan /\ q.interval = r.interval /\ q.status = r.status
        BY <1>2, <1>3, <1>4 DEF Agree
  <1>7. AsTold(q, ds)'
    <2>1. \A c \in ds : event'[c] = event[c]
          BY <1>5, EmittedDelivers DEF Frame, TxnInv
    <2>2. AsTold(r, ds)
          BY <1>3, <1>5 DEF OfEvents
    <2> QED BY <1>6, <2>1, <2>2, ToldStays
  <1>8. PICK terms : terms = event[d].terms
        OBVIOUS
  <1>9. PICK o : o = org
        OBVIOUS
  <1>10. Follows(o, q, terms)'
    <2>1. terms \in Terms
          BY <1>2, <1>8, TermsOf DEF Applied, TxnInv
    <2>2. month \in Int
          BY DEF TxnInv, TypeOK, Months
    <2>3. Follows(o, r, terms)
          BY <1>3, <1>8, <1>9 DEF OfEvents
    <2> QED BY <1>6, <2>1, <2>2, <2>3, FollowsStays DEF Frame
  <1>11. AsTold(row[s], Applied)'
        BY <1>4, <1>5, <1>7 DEF Frame
  <1>12. Follows(org, row[s], event[d].terms)'
        BY <1>2, <1>4, <1>8, <1>9, <1>10 DEF Frame
  <1>13. row'[s].status = event'[d].terms.status
        BY <1>2, <1>3, <1>4, <1>6 DEF OfEvents
  <1> QED BY <1>1, <1>11, <1>12, <1>13 DEF OfEvents

LEMMA FaithStays ==
    ASSUME TxnInv, FaithInv, Frame,
           \A v \in Workers : worker'[v].step \in {"lock", "write"} =>
              worker'[v] = worker[v] \/ (orderly => SeenBy(worker[v])')
    PROVE  FaithInv'
  <1>1. LastApplied'
    <2> SUFFICES ASSUME orderly'
                 PROVE  \/ Applied' = {} /\ Existing' = {}
                        \/ \E d \in Applied', s \in Subs : IsLast(d, Applied') /\ OfEvents(s, d)'
        BY DEF LastApplied, IsLast
    <2>1. CASE Applied = {} /\ Existing = {}
          BY <2>1 DEF Frame
    <2>2. CASE ~(Applied = {} /\ Existing = {})
      <3>1. PICK d \in Applied, s \in Subs : IsLast(d, Applied) /\ OfEvents(s, d)
            BY <2>2 DEF Frame, FaithInv, LastApplied
      <3>2. OfEvents(s, d)' /\ d \in Applied' /\ IsLast(d, Applied')
            BY <3>1, OfEventsStays DEF Frame
      <3> QED BY <3>2
    <2> QED BY <2>1, <2>2
  <1>2. SeenRows'
    <2> SUFFICES ASSUME orderly', NEW v \in Workers, worker'[v].step \in {"lock", "write"}
                 PROVE  SeenBy(worker[v])'
        BY DEF SeenRows
    <2>1. CASE worker'[v] = worker[v]
      <3>1. PICK t : t = worker[v]
            OBVIOUS
      <3>2. t.step \in {"lock", "write"} /\ Busy(v)
            BY <2>1, <3>1 DEF Busy
      <3>3. SeenBy(t)
            BY <3>1, <3>2 DEF FaithInv, SeenRows, Frame
      <3>4. t.d \in 1..emitted /\ event[t.d].kind = "subscription"
        <4>1. t.d \in Deliveries /\ WorkingOn(t)
              BY <3>1, <3>2, TaskIs DEF TxnInv, Working
        <4> QED BY <3>2, <4>1 DEF WorkingOn, Deliveries, TxnInv, TypeOK
      <3>5. SeenBy(t)'
            BY <3>2, <3>3, <3>4, SeenStays
      <3> QED BY <2>1, <3>1, <3>5
    <2>2. CASE worker'[v] # worker[v]
          BY <2>2 DEF Frame
    <2> QED BY <2>1, <2>2
  <1> QED BY <1>1, <1>2 DEF FaithInv

LEMMA AppliedEmit ==
    ASSUME TxnInv, NEW e \in Event, Emit(e), effects' = effects
    PROVE  Applied' = Applied /\ \A d \in 1..emitted : event'[d] = event[d]
  <1>1. /\ emitted' = emitted + 1 /\ emitted' \in Deliveries
        /\ \A d \in Deliveries : d <= emitted => event'[d] = event[d]
        BY EmitKeeps DEF TxnInv
  <1>2. emitted \in Nat
        BY WebhookAssumption DEF TxnInv, TypeOK
  <1>3. effects[emitted'] = 0
        BY <1>1, <1>2 DEF TxnInv, Claimed
  <1>4. 1..emitted \subseteq Deliveries /\ 1..(emitted + 1) = (1..emitted) \cup {emitted + 1}
        BY <1>2, WebhookAssumption DEF Deliveries, TxnInv, TypeOK
  <1>5. \A d \in 1..emitted : event'[d] = event[d]
        BY <1>1, <1>2, <1>4
  <1>6. Applied' = {d \in 1..(emitted + 1) : event'[d].kind = "subscription" /\ effects[d] # 0}
        BY <1>1 DEF Applied
  <1>7. Applied' = Applied
        BY <1>1, <1>3, <1>4, <1>5, <1>6 DEF Applied
  <1> QED BY <1>5, <1>7

\* The transactions of other events.
LEMMA AppliedOther ==
    ASSUME TxnInv, NEW d \in Deliveries, event[d].kind # "subscription", Committed(d),
           UNCHANGED <<event, emitted>>
    PROVE  Applied' = Applied
  <1>1. \A c \in Deliveries \ {d} : effects'[c] = effects[c]
        BY DEF Committed, TxnInv, TypeOK
  <1>2. 1..emitted \subseteq Deliveries
        BY WebhookAssumption DEF Deliveries, TxnInv, TypeOK
  <1> QED BY <1>1, <1>2 DEF Applied

LEMMA PriceTyped ==
    ASSUME NEW d \in Deal
    PROVE  PriceForPlan(d.plan, d.interval) \in Nat
  <1>1. d.plan \in Nat /\ (d.plan # 0 => d.plan \in Paid)
        BY WebhookAssumption DEF Deal, Plans, Paid
  <1>2. (IF d.interval = "none" THEN "monthly" ELSE d.interval) \in Intervals
        BY DEF Deal, Intervals
  <1> QED BY <1>1, <1>2, WebhookAssumption DEF PriceForPlan

\* An event of a delivery later than the others adds to what was told, and so does the row.
LEMMA TellsNext ==
    ASSUME NEW ds, ds \subseteq Deliveries, NEW d \in Deliveries, \A c \in ds : c < d,
           NEW old \in SubRow \cup {NoRow}, NEW e \in SubEvent, e = event[d],
           old # NoRow => AsTold(old, ds), old = NoRow => ds = {},
           NEW new, new = NextRow(old, e)
    PROVE  AsTold(new, ds \cup {d})
  <1>1. PICK says : says = Says(d)
        OBVIOUS
  <1>2. says \in Offers \cup {NoDeal} /\ says = IF e.terms.said # NoDeal THEN e.terms.said ELSE e.terms.variant
        BY <1>1 DEF Says, SubEvent, Terms
  <1>3. PICK named \in Deal : named = Named(old, e)
        BY NamedTyped
  <1>4. says # NoDeal => named = says
        BY <1>2, <1>3 DEF Named
  <1>5. /\ new.plan = IF IsScheduledDowngrade(old, e) THEN old.plan ELSE named.plan
        /\ new.interval = named.interval
        BY <1>3 DEF NextRow
  <1>6. d \in Int /\ d \notin ds /\ \A c \in ds : c \in Int /\ ~(c > d) /\ c <= d /\ c # d
        BY DEF Deliveries
  <1>7. CASE says = NoDeal
    <2>1. Telling(ds \cup {d}) = Telling(ds)
          BY <1>1, <1>7 DEF Telling
    <2>2. CASE old = NoRow
      <3>1. Telling(ds) = {}
            BY <2>2 DEF Telling
      <3>2. named = [plan |-> 0, interval |-> "none"] /\ ~IsScheduledDowngrade(old, e)
            BY <1>2, <1>3, <1>7, <2>2 DEF Named, IsScheduledDowngrade
      <3> QED BY <1>5, <2>1, <3>1, <3>2 DEF AsTold
    <2>3. CASE old # NoRow
      <3>1. named.plan = old.plan /\ named.interval = old.interval
            BY <1>2, <1>3, <1>7, <2>3 DEF Named
      <3>2. new.plan = old.plan /\ new.interval = old.interval
            BY <1>5, <3>1
      <3> QED BY <2>1, <2>3, <3>2 DEF AsTold
    <2> QED BY <2>2, <2>3
  <1>8. CASE says # NoDeal
    <2>1. Telling(ds \cup {d}) = Telling(ds) \cup {d} /\ Telling(ds) \subseteq ds
          BY <1>1, <1>8 DEF Telling
    <2>2. PICK ts : ts = Telling(ds)
          OBVIOUS
    <2>3. IsLast(d, ts \cup {d}) /\ ts \subseteq ds /\ (ts \cup {d}) \ {d} = ts
      <3>1. ts \subseteq ds /\ d \notin ts
            BY <1>6, <2>1, <2>2
      <3>2. d <= d /\ \A c \in ts : c <= d
            BY <1>6, <3>1
      <3>3. (ts \cup {d}) \ {d} = ts
            BY <3>1
      <3> QED BY <3>1, <3>2, <3>3 DEF IsLast
    <2>4. CASE ~IsScheduledDowngrade(old, e)
      <3>1. new.plan = Says(d).plan /\ new.interval = Says(d).interval
            BY <1>1, <1>4, <1>5, <1>8, <2>4
      <3>2. \A c \in ts \cup {d} : ~(c > d)
            BY <1>6, <2>3
      <3> QED BY <2>1, <2>2, <2>3, <3>1, <3>2 DEF AsTold
    <2>5. CASE IsScheduledDowngrade(old, e)
      <3>1. /\ old # NoRow /\ old \in SubRow /\ e.terms.status = "active"
            /\ PriceForPlan(old.plan, old.interval) > PriceForPlan(says.plan, says.interval)
            BY <1>3, <1>4, <1>8, <2>5 DEF IsScheduledDowngrade
      <3>2. PriceForPlan(says.plan, says.interval) \in Nat
            BY <1>3, <1>4, <1>8, PriceTyped
      <3>3. ts # {}
        <4>1. ~(0 > PriceForPlan(says.plan, says.interval))
              BY <3>2
        <4>2. old.plan # 0
              BY <3>1, <4>1 DEF PriceForPlan
        <4> QED BY <2>2, <3>1, <4>2 DEF AsTold
      <3>4. PICK c \in ts, last \in ts :
                   /\ IsLast(last, ts)
                   /\ old.plan = Says(c).plan /\ old.interval = Says(last).interval
                   /\ \A x \in ts : x > c => IsActive(x)
            BY <2>2, <3>1, <3>3 DEF AsTold
      <3>5. new.plan = Says(c).plan /\ new.interval = Says(d).interval
            BY <1>1, <1>4, <1>5, <1>8, <2>5, <3>4
      <3>6. \A x \in ts \cup {d} : x > c => IsActive(x)
            BY <3>1, <3>4 DEF IsActive
      <3>7. PriceForPlan(new.plan, Says(last).interval) > PriceForPlan(Says(d).plan, Says(d).interval)
            BY <1>1, <3>1, <3>4, <3>5
      <3> DEFINE all == ts \cup {d}
      <3>8. c \in all /\ d \in all /\ last \in all \ {d} /\ IsLast(last, all \ {d})
            BY <2>3, <3>4
      <3>9. Telling(ds \cup {d}) = all /\ IsLast(d, all)
            BY <2>1, <2>2, <2>3
      <3> HIDE DEF all
      <3> QED BY <3>5, <3>6, <3>7, <3>8, <3>9 DEF AsTold, all
    <2> QED BY <2>4, <2>5
  <1> QED BY <1>7, <1>8

\* The organization is written by the row and the same event.
LEMMA OrgFollows ==
    ASSUME TypeOK, NEW r, NEW e \in SubEvent, r.status = e.terms.status
    PROVE  Follows(OrgOf(r, e), r, e.terms)
  <1>1. e.terms.status \in Statuses /\ e.terms.ends \in Int /\ month \in Int
        BY WebhookAssumption DEF SubEvent, Terms, TypeOK, Months
  <1>2. PICK status : status = MapOrgBillingStatus(e.terms)
        OBVIOUS
  <1>3. /\ status = "subscription_expired" =>
              \/ e.terms.status = "expired"
              \/ e.terms.status = "cancelled" /\ e.terms.ends <= month
        /\ status = "subscription_active" <=> e.terms.status \in {"active", "trialing"}
        BY <1>1, <1>2 DEF MapOrgBillingStatus, Statuses
  <1> QED BY <1>2, <1>3 DEF OrgOf, Follows

LEMMA FaithSubscription ==
    ASSUME TxnInv, Sole, FaithInv, NEW w \in Workers, CommitSubscription(w)
    PROVE  FaithInv'
  <1>1. PICK t : t = worker[w]
        OBVIOUS
  <1>2. /\ t.step = "write" /\ t \in Writing
        /\ row' \in [Subs -> SubRow \cup {NoRow}]
        BY <1>1, CommitSubscriptionIs
  <1>3. PICK s \in Subs : /\ t.seen # NoSub => s = t.seen
                          /\ t.seen = NoSub => row[s] = NoRow
                          /\ row'[s] = t.new /\ row'[s] # NoRow
                          /\ \A u \in Subs \ {s} : row'[u] = row[u]
        BY <1>1, CommitSubscriptionIs
  <1>4. /\ org' = t.org /\ orderly' = orderly /\ event' = event /\ emitted' = emitted
        /\ month' = month
        /\ effects' = [effects EXCEPT ![t.d] = @ + 1] /\ Goto(w, [step |-> "mark", d |-> t.d])
        BY <1>1 DEF CommitSubscription, Committed, provider
  <1>5. Busy(w) /\ WorkingOn(t) /\ t.d \in Deliveries
        BY <1>1, <1>2, TaskIs DEF Busy, TxnInv, Working
  <1>6. /\ t.d \in 1..emitted /\ event[t.d].kind = "subscription" /\ effects[t.d] = 0
        /\ t.new.status = event[t.d].terms.status
        BY <1>2, <1>5 DEF WorkingOn, Deliveries, TxnInv, TypeOK
  <1> SUFFICES ASSUME orderly'
               PROVE  /\ \E d \in Applied', u \in Subs : IsLast(d, Applied') /\ OfEvents(u, d)'
                      /\ \A v \in Workers : worker'[v].step \notin {"lock", "write"}
      BY DEF FaithInv, LastApplied, SeenRows, IsLast
  <1>7. SeenBy(t)
        BY <1>1, <1>2, <1>4 DEF FaithInv, SeenRows
  <1>8. Existing' = {s}
    <2>1. Existing = IF t.seen = NoSub THEN {} ELSE {t.seen}
          BY <1>7 DEF SeenBy
    <2> QED BY <1>3, <2>1 DEF Existing
  <1>9. Applied' = Applied \cup {t.d} /\ IsLast(t.d, Applied')
    <2>1. effects'[t.d] = 1 /\ \A c \in Deliveries \ {t.d} : effects'[c] = effects[c]
          BY <1>4, <1>5, <1>6 DEF TxnInv, TypeOK
    <2>2. Applied' = {c \in 1..emitted : event[c].kind = "subscription" /\ effects'[c] # 0}
          BY <1>4 DEF Applied
    <2>3. \A c \in Deliveries : effects[c] # 0 => c <= t.d
          BY <1>1, <1>4, <1>5, OnlyOne
    <2>4. 1..emitted \subseteq Deliveries /\ t.d \in Int
          BY <1>6, EmittedDelivers DEF TxnInv
    <2>5. Applied' = Applied \cup {t.d}
          BY <1>6, <2>1, <2>2, <2>4 DEF Applied
    <2>6. ASSUME NEW c \in Applied' PROVE c <= t.d
          BY <2>1, <2>2, <2>3, <2>4, <2>6
    <2> QED BY <2>5, <2>6 DEF IsLast
  <1>10. OfEvents(s, t.d)'
    <2>1. PICK d : d = t.d
          OBVIOUS
    <2>2. PICK ds : ds = Applied \cup {t.d}
          OBVIOUS
    <2>3. PICK q : q = t.new
          OBVIOUS
    <2>4. PICK o : o = t.org
          OBVIOUS
    <2>5. PICK terms : terms = event[d].terms
          OBVIOUS
    <2>6. AsTold(q, ds)'
      <3>1. AsTold(q, ds)
            BY <1>2, <1>7, <2>2, <2>3 DEF SeenBy
      <3> QED BY <1>4, <3>1, ToldStays
    <2>7. Follows(o, q, terms)'
      <3>1. Follows(o, q, terms)
            BY <1>2, <1>7, <2>1, <2>3, <2>4, <2>5 DEF SeenBy
      <3>2. terms \in Terms
            BY <1>5, <1>6, <2>1, <2>5, TermsOf DEF TxnInv
      <3>3. month \in Int /\ month' \in Int /\ month' >= month
            BY <1>4 DEF TxnInv, TypeOK, Months
      <3> QED BY <3>1, <3>2, <3>3, FollowsStays
    <2>8. AsTold(row[s], Applied)'
          BY <1>3, <1>9, <2>2, <2>3, <2>6
    <2>9. Follows(org, row[s], event[d].terms)'
          BY <1>3, <1>4, <2>3, <2>4, <2>5, <2>7
    <2>10. row'[s].status = event'[d].terms.status
          BY <1>3, <1>4, <1>6, <2>1
    <2>11. OfEvents(s, d)'
          BY <1>8, <2>8, <2>9, <2>10 DEF OfEvents
    <2> QED BY <2>1, <2>11
  <1>11. \A v \in Workers : worker'[v].step \notin {"lock", "write"}
    <2>1. worker'[w].step = "mark" /\ \A v \in Workers \ {w} : worker'[v] = worker[v]
          BY <1>4 DEF Goto, TxnInv, TypeOK
    <2>2. \A v \in Workers \ {w} : worker[v].step = "idle"
          BY <1>4, <1>5, OnlyOne DEF Busy
    <2> QED BY <2>1, <2>2
  <1> QED BY <1>9, <1>10, <1>11

\* What a transaction has read of the subscription, and is about to write.
LEMMA ReadSeen ==
    ASSUME TxnInv, FaithInv, NEW w \in Workers, ReadSubscription(w), orderly
    PROVE  \E new : /\ Goto(w, new) /\ new.step = "lock" /\ SeenBy(new)
                    /\ new.d \in 1..emitted /\ event[new.d].kind = "subscription"
  <1>1. PICK s \in Latest : Goto(w, [step |-> "lock", d |-> worker[w].d, seen |-> s,
                                     old |-> IF s = NoSub THEN NoRow ELSE row[s]])
        BY DEF ReadSubscription
  <1>2. Existing = IF s = NoSub THEN {} ELSE {s}
    <2>1. Existing \subseteq Subs /\ NoSub \notin Subs
          BY WebhookAssumption DEF Existing
    <2>2. Existing = {} \/ \E u \in Subs : Existing = {u}
          BY DEF FaithInv, LastApplied, OfEvents
    <2>3. IF Existing = {} THEN s = NoSub ELSE s \in Existing
          BY DEF Latest
    <2> QED BY <2>1, <2>2, <2>3
  <1>3. PICK old : old = IF s = NoSub THEN NoRow ELSE row[s]
        OBVIOUS
  <1> DEFINE new == [step |-> "lock", d |-> worker[w].d, seen |-> s, old |-> old]
  <1>4. Goto(w, new) /\ new.step = "lock" /\ new.seen = s /\ new.old = old /\ new.d = worker[w].d
        BY <1>1, <1>3
  <1> HIDE DEF new
  <1>5. s # NoSub => row[s] # NoRow
        BY <1>2 DEF Existing
  <1>6. HasRead(new)
        BY <1>3, <1>4, <1>5 DEF HasRead, Agree
  <1>7. new.d \in 1..emitted /\ event[new.d].kind = "subscription"
    <2>1. Busy(w) /\ event[worker[w].d].kind = "subscription"
          BY DEF ReadSubscription, Busy
    <2>2. worker[w].d \in Deliveries /\ worker[w].d <= emitted
          BY <2>1, TaskIs DEF TxnInv, Working, WorkingOn
    <2> QED BY <1>4, <2>1, <2>2 DEF Deliveries, TxnInv, TypeOK
  <1> QED BY <1>2, <1>4, <1>6, <1>7 DEF SeenBy

LEMMA WriteSeen ==
    ASSUME TxnInv, Sole, FaithInv, NEW w \in Workers, WriteSubscription(w), orderly
    PROVE  \E new : /\ Goto(w, new) /\ new.step = "write" /\ SeenBy(new)
                    /\ new.d \in 1..emitted /\ event[new.d].kind = "subscription"
  <1>1. PICK t : t = worker[w]
        OBVIOUS
  <1>2. PICK e : e = event[t.d]
        OBVIOUS
  <1>3. PICK new \in Writing :
              /\ Goto(w, new) /\ new.step = "write" /\ new.d = t.d /\ new.seen = t.seen
              /\ new.new = NextRow(t.old, e) /\ new.org = OrgOf(new.new, e)
              /\ t \in Locking /\ t.step = "lock" /\ WorkingOn(t) /\ e \in SubEvent
              /\ new.new.status = e.terms.status
        BY <1>1, <1>2, WriteSubscriptionIs
  <1>4. SeenBy(t) /\ HasRead(t)
        BY <1>1, <1>3 DEF FaithInv, SeenRows, SeenBy
  <1>5. Existing = IF new.seen = NoSub THEN {} ELSE {new.seen}
        BY <1>3, <1>4 DEF SeenBy
  <1>6. Follows(new.org, new.new, event[new.d].terms)
        BY <1>2, <1>3, OrgFollows DEF TxnInv
  <1>7. AsTold(new.new, Applied \cup {new.d})
    <2>1. t.old \in SubRow \cup {NoRow} /\ t.d \in Deliveries
          BY <1>3 DEF Locking
    <2>2. Applied \subseteq Deliveries /\ \A c \in Applied : c < t.d
      <3>1. Busy(w) /\ effects[t.d] = 0
            BY <1>1, <1>3 DEF Busy, WorkingOn
      <3>2. \A c \in Deliveries : effects[c] # 0 => c <= t.d
            BY <1>1, <3>1, OnlyOne
      <3>3. Applied \subseteq Deliveries /\ \A c \in Applied : effects[c] # 0
            BY EmittedDelivers DEF TxnInv, Applied
      <3> QED BY <2>1, <3>1, <3>2, <3>3 DEF Deliveries
    <2>3. t.old # NoRow => AsTold(t.old, Applied)
      <3> SUFFICES ASSUME t.old # NoRow PROVE AsTold(t.old, Applied)
          OBVIOUS
      <3>1. t.seen # NoSub /\ Existing = {t.seen} /\ Agree(t.old, row[t.seen])
            BY <1>4 DEF SeenBy, HasRead
      <3>2. AsTold(row[t.seen], Applied)
            BY <3>1 DEF FaithInv, LastApplied, OfEvents
      <3> QED BY <3>1, <3>2 DEF AsTold, Agree
    <2>4. t.old = NoRow => Applied = {}
      <3> SUFFICES ASSUME t.old = NoRow PROVE Applied = {}
          OBVIOUS
      <3>1. Existing = {}
            BY <1>4 DEF SeenBy, HasRead
      <3> QED BY <3>1 DEF FaithInv, LastApplied, OfEvents
    <2>5. PICK ds : ds = Applied
          OBVIOUS
    <2>6. PICK d : d = t.d
          OBVIOUS
    <2>7. AsTold(new.new, ds \cup {d})
          BY <1>2, <1>3, <2>1, <2>2, <2>3, <2>4, <2>5, <2>6, TellsNext
    <2> QED BY <1>3, <2>5, <2>6, <2>7
  <1>8. new.d \in 1..emitted /\ event[new.d].kind = "subscription"
        BY <1>3 DEF WorkingOn, Locking, Deliveries, TxnInv, TypeOK
  <1> QED BY <1>3, <1>5, <1>6, <1>7, <1>8 DEF SeenBy

\* A transaction that only reads leaves what the next step of it needs, and the others as they were.
LEMMA ReadsRow ==
    ASSUME TxnInv, Sole, FaithInv, NEW w \in Workers,
           ReadSubscription(w) \/ WriteSubscription(w) \/ ReadGrant(w) \/ ReadRefund(w)
    PROVE  \A v \in Workers : worker'[v].step \in {"lock", "write"} =>
              worker'[v] = worker[v] \/ (orderly => SeenBy(worker[v])')
  <1>1. CASE (ReadSubscription(w) \/ WriteSubscription(w)) /\ orderly
    <2>1. PICK new : /\ Goto(w, new) /\ new.step \in {"lock", "write"} /\ SeenBy(new)
                     /\ new.d \in 1..emitted /\ event[new.d].kind = "subscription"
          BY <1>1, ReadSeen, WriteSeen
    <2>2. worker'[w] = new /\ \A v \in Workers \ {w} : worker'[v] = worker[v]
          BY <2>1 DEF Goto, TxnInv, TypeOK
    <2>3. UNCHANGED <<event, emitted, effects, row, month>>
          BY <1>1 DEF ReadSubscription, WriteSubscription, provider, tables, history
    <2>4. UNCHANGED <<Existing, Applied>>
          BY <2>3 DEF Existing, Applied
    <2>5. Frame
      <3>1. orderly' = orderly /\ org' = org
            BY <1>1 DEF ReadSubscription, WriteSubscription, tables, history
      <3> QED BY <2>3, <2>4, <3>1, Frames
    <2>6. SeenBy(new)'
          BY <2>1, <2>5, SeenStays
    <2> QED BY <2>2, <2>6
  <1>2. CASE (ReadSubscription(w) \/ WriteSubscription(w)) /\ ~orderly
    <2>1. PICK new : Goto(w, new)
          BY <1>2, ReadsKeep
    <2> QED BY <1>2
  <1>3. CASE ReadGrant(w)
    <2>1. PICK had, book : Goto(w, [step |-> "grant", d |-> worker[w].d, month |-> month,
                                    had |-> had, book |-> book])
          BY <1>3 DEF ReadGrant
    <2> QED BY <2>1 DEF Goto, TxnInv, TypeOK
  <1>4. CASE ReadRefund(w)
    <2>1. PICK o, back, book : Goto(w, [step |-> "refund", d |-> worker[w].d, month |-> month,
                                        book |-> book, addon |-> o, refunded |-> back])
          BY <1>4 DEF ReadRefund
    <2> QED BY <2>1 DEF Goto, TxnInv, TypeOK
  <1> QED BY <1>1, <1>2, <1>3, <1>4

\* A transaction that ends, or has read no subscription, leaves the others as they were.
LEMMA OthersKeepRows ==
    ASSUME TypeOK, NEW w \in Workers, NEW new, Goto(w, new), new.step \notin {"lock", "write"}
    PROVE  \A v \in Workers : worker'[v].step \in {"lock", "write"} => worker'[v] = worker[v]
  BY DEF Goto, TypeOK

LEMMA OwnerEmits ==
    ASSUME TxnInv, NEW r \in Requests, CallProvider(r)
    PROVE  \E e \in Event : e.kind = "subscription" /\ Emit(e)
  BY CallTyped, PaidEvent DEF TxnInv

LEMMA CommitsOther ==
    ASSUME TxnInv, NEW w \in Workers, CommitGrant(w) \/ CommitRefund(w) \/ CommitNothing(w)
    PROVE  worker[w].d \in Deliveries /\ event[worker[w].d].kind # "subscription"
  <1>1. Busy(w)
        BY DEF CommitGrant, CommitRefund, CommitNothing, Busy
  <1>2. worker[w].d \in Deliveries /\ WorkingOn(worker[w])
        BY <1>1, TaskIs DEF TxnInv, Working
  <1> QED BY <1>2 DEF WorkingOn, CommitGrant, CommitRefund, CommitNothing

LEMMA WorldEmits ==
    ASSUME TxnInv, Subscribes \/ StatusChanges \/ OtherEvent
    PROVE  \E e \in Event : Emit(e)
  <1>1. CASE Subscribes \/ StatusChanges
        BY <1>1, PaysTyped, PaidEvent DEF TxnInv
  <1>2. CASE OtherEvent
        BY <1>2, OtherEvents DEF OtherEvent
  <1> QED BY <1>1, <1>2

\* A handler that takes a delivery up or leaves it.
LEMMA HandlerTurns ==
    ASSUME NEW w \in Workers, (\E d \in Deliveries : Claim(w, d)) \/ MarkClaim(w) \/ Fail(w)
    PROVE  /\ UNCHANGED <<row, org, event, emitted, effects, request, overtaken>>
           /\ (orderly' => orderly) /\ month' = month
           /\ \E new : Goto(w, new) /\ new.step \notin {"lock", "write"}
  <1>1. CASE \E d \in Deliveries : Claim(w, d)
    <2>1. PICK d : Claim(w, d)
          BY <1>1
    <2>2. Goto(w, [step |-> "read", d |-> d])
          BY <2>1 DEF Claim
    <2>3. \E new : Goto(w, new) /\ new.step \notin {"lock", "write"}
          BY <2>2
    <2>4. /\ UNCHANGED <<row, org, event, emitted, effects, request, overtaken>>
          /\ (orderly' => orderly) /\ month' = month
          BY <2>1 DEF Claim, provider
    <2> QED BY <2>3, <2>4
  <1>2. CASE MarkClaim(w) \/ Fail(w)
    <2>1. Goto(w, Idle)
          BY <1>2 DEF MarkClaim, Fail, FailAs
    <2>2. \E new : Goto(w, new) /\ new.step \notin {"lock", "write"}
          BY <2>1 DEF Idle
    <2>3. /\ UNCHANGED <<row, org, event, emitted, effects, request, overtaken>>
          /\ (orderly' => orderly) /\ month' = month
          BY <1>2 DEF MarkClaim, Fail, FailAs, provider, history
    <2> QED BY <2>2, <2>3
  <1> QED BY <1>1, <1>2

LEMMA FaithStep == TxnInv /\ Sole /\ FaithInv /\ [Next]_vars => FaithInv'
  <1> SUFFICES ASSUME TxnInv, Sole, FaithInv, [Next]_vars PROVE FaithInv'
      OBVIOUS
  <1>1. CASE World \/ UNCHANGED vars
    <2>1. UNCHANGED <<row, org, orderly, worker, effects>> /\ (month' = month \/ month' = month + 1)
          BY <1>1 DEF World, Subscribes, StatusChanges, OtherEvent, NextMonth, OpenMonth, UseCredit,
                      Elsewhere, tables, history, vars
    <2>2. Applied' = Applied /\ \A d \in 1..emitted : event'[d] = event[d]
      <3>1. CASE Subscribes \/ StatusChanges \/ OtherEvent
        <4>1. PICK e \in Event : Emit(e)
              BY <3>1, WorldEmits
        <4> QED BY <2>1, <4>1, AppliedEmit
      <3>2. CASE ~(Subscribes \/ StatusChanges \/ OtherEvent)
        <4>1. UNCHANGED <<event, emitted, effects>>
              BY <1>1, <3>2 DEF World, NextMonth, OpenMonth, UseCredit, provider, history, vars
        <4> QED BY <4>1 DEF Applied
      <3> QED BY <3>1, <3>2
    <2>3. Frame
          BY <2>1, <2>2, Frames
    <2> QED BY <2>1, <2>3, FaithStays
  <1>2. ASSUME NEW r \in Requests, Owner(r) PROVE FaithInv'
    <2>1. UNCHANGED <<org, orderly, worker, effects, month>>
          BY <1>2 DEF Owner, BeginRequest, CallProvider, RecordSchedule, MarkPending, Abort,
                      tables, history
    <2>2. CASE CallProvider(r)
      <3>1. PICK e \in Event : Emit(e)
            BY <2>2, OwnerEmits
      <3>2. row' = row
            BY <2>2 DEF CallProvider, tables
      <3>3. Frame
            BY <2>1, <3>1, <3>2, AppliedEmit, Frames
      <3> QED BY <2>1, <3>3, FaithStays
    <2>3. CASE BeginRequest(r) \/ Abort(r)
      <3>1. UNCHANGED <<row, event, emitted>>
            BY <2>3 DEF BeginRequest, Abort, provider, tables
      <3>2. Applied' = Applied
            BY <2>1, <3>1 DEF Applied
      <3>3. Frame
            BY <2>1, <3>1, <3>2, Frames
      <3> QED BY <2>1, <3>3, FaithStays
    <2>4. CASE RecordSchedule(r) \/ MarkPending(r)
      <3>1. PICK s : s = request[r].sub
            OBVIOUS
      <3>2. /\ s \in Subs /\ row[s] # NoRow
            /\ \E new \in SubRow : /\ row' = [row EXCEPT ![s] = new]
                                   /\ new.status = row[s].status /\ new.plan = row[s].plan
                                   /\ new.interval = row[s].interval
            BY <2>4, <3>1, OwnerMarksIs
      <3>3. PICK new \in SubRow : row' = [row EXCEPT ![s] = new] /\ Agree(new, row[s])
            BY <3>2 DEF Agree
      <3>4. new # NoRow
            BY DEF SubRow, NoRow
      <3>5. Existing' = Existing /\ \A u \in Existing : Agree(row'[u], row[u])
            BY <3>2, <3>3, <3>4 DEF Existing, Agree, TxnInv, TypeOK
      <3>6. UNCHANGED <<event, emitted>>
            BY <2>4 DEF RecordSchedule, MarkPending, provider
      <3>7. Applied' = Applied
            BY <2>1, <3>6 DEF Applied
      <3>8. month' \in Int /\ month' >= month
            BY <2>1 DEF TxnInv, TypeOK, Months
      <3>9. Frame
            BY <2>1, <3>5, <3>6, <3>7, <3>8 DEF Frame
      <3> QED BY <2>1, <3>9, FaithStays
    <2> QED BY <1>2, <2>2, <2>3, <2>4 DEF Owner
  <1>3. ASSUME NEW w \in Workers, Reconcile(w) PROVE FaithInv'
    <2>1. CASE \/ \E d \in Deliveries : Claim(w, d)
               \/ MarkClaim(w) \/ Fail(w)
      <3>1. UNCHANGED <<row, org, event, emitted, effects, month>> /\ (orderly' => orderly)
            BY <2>1, HandlerTurns
      <3>2. PICK new : Goto(w, new) /\ new.step \notin {"lock", "write"}
            BY <2>1, HandlerTurns
      <3>3. Applied' = Applied
            BY <3>1 DEF Applied
      <3>4. Frame
            BY <3>1, <3>3, Frames
      <3>5. \A v \in Workers : worker'[v].step \in {"lock", "write"} => worker'[v] = worker[v]
            BY <3>2, OthersKeepRows DEF TxnInv
      <3> QED BY <3>4, <3>5, FaithStays
    <2>2. CASE ReadSubscription(w) \/ WriteSubscription(w) \/ ReadGrant(w) \/ ReadRefund(w)
      <3>1. UNCHANGED <<row, org, event, emitted, effects, orderly, month>>
            BY <2>2 DEF ReadSubscription, WriteSubscription, ReadGrant, ReadRefund, provider, tables,
                        history
      <3>2. Applied' = Applied
            BY <3>1 DEF Applied
      <3>3. Frame
            BY <3>1, <3>2, Frames
      <3>4. \A v \in Workers : worker'[v].step \in {"lock", "write"} =>
              worker'[v] = worker[v] \/ (orderly => SeenBy(worker[v])')
            BY <2>2, ReadsRow
      <3> QED BY <3>3, <3>4, FaithStays
    <2>3. CASE CommitGrant(w) \/ CommitRefund(w) \/ CommitNothing(w)
      <3>1. PICK d : d = worker[w].d
            OBVIOUS
      <3>2. Committed(d) /\ Goto(w, [step |-> "mark", d |-> d])
            /\ UNCHANGED <<row, org, event, emitted, orderly, month>>
            BY <2>3, <3>1 DEF CommitGrant, CommitRefund, CommitNothing, provider, tables
      <3>3. d \in Deliveries /\ event[d].kind # "subscription"
            BY <2>3, <3>1, CommitsOther
      <3>4. Applied' = Applied
            BY <3>2, <3>3, AppliedOther
      <3>5. Frame
            BY <3>2, <3>4, Frames
      <3>6. \A v \in Workers : worker'[v].step \in {"lock", "write"} => worker'[v] = worker[v]
            BY <3>2, OthersKeepRows DEF TxnInv
      <3> QED BY <3>5, <3>6, FaithStays
    <2> QED BY <1>3, <2>1, <2>2, <2>3, FaithSubscription DEF Reconcile
  <1> QED BY <1>1, <1>2, <1>3 DEF Next

LEMMA FaithInit == Init => FaithInv
  <1> SUFFICES ASSUME Init PROVE FaithInv
      OBVIOUS
  <1>1. Applied = {} /\ Existing = {}
        BY DEF Init, Applied, Existing
  <1>2. \A w \in Workers : worker[w].step = "idle"
        BY DEF Init, Idle
  <1> QED BY <1>1, <1>2 DEF FaithInv, LastApplied, SeenRows

LEMMA FaithImplies == TxnInv /\ FaithInv => OrderlyIsFaithful
  <1> SUFFICES ASSUME TxnInv, FaithInv, orderly, Quiet, SubscriptionEvents # {}
               PROVE  \E s \in Subs, d \in SubscriptionEvents :
                         /\ Existing = {s} /\ IsLast(d, SubscriptionEvents)
                         /\ row[s].status = event[d].terms.status
                         /\ AsTold(row[s], SubscriptionEvents)
                         /\ Follows(org, row[s], event[d].terms)
      BY DEF OrderlyIsFaithful
  <1>1. 1..emitted \subseteq Deliveries
        BY EmittedDelivers DEF TxnInv
  <1>2. \A d \in 1..emitted : effects[d] = 1
        BY <1>1 DEF Quiet, TxnInv, Claimed
  <1>3. Applied = SubscriptionEvents
        BY <1>2 DEF Applied, SubscriptionEvents
  <1>4. PICK d \in Applied, s \in Subs : IsLast(d, Applied) /\ OfEvents(s, d)
        BY <1>3 DEF FaithInv, LastApplied
  <1> QED BY <1>3, <1>4 DEF OfEvents

\* Events that are processed in order leave one subscription, with the status of the last, a plan
\* and an interval that were told, of which nothing but a downgrade of an active subscription waits,
\* and an organization that follows it; for any offers, prices and number of events, whatever each of
\* them leaves out and whatever else runs.
THEOREM InOrderIsFaithful == Spec => []OrderlyIsFaithful
  <1>1. TxnInv /\ CreditInv /\ FaithInv /\ [Next]_vars => FaithInv'
        BY FaithStep DEF CreditInv
  <1> QED BY <1>1, TxnInit, TxnStep, CreditInit, CreditStep, FaithInit, FaithImplies, PTL DEF Spec
-----------------------------------------------------------------------------
(* A change that is shown as pending waits for an event *)

LEMMA WaitsStay ==
    ASSUME Waits, Existing' = Existing, overtaken => overtaken', Unapplied => Unapplied',
           \A s \in Existing : row'[s].pending => row[s].pending,
           \A r \in Requests : request'[r].step \in {"schedule", "pending"} =>
              request[r].step \in {"schedule", "pending"}
    PROVE  Waits'
  BY DEF Waits

LEMMA WaitsHold ==
    ASSUME IsFiniteSet(Existing'), overtaken' \/ Unapplied'
    PROVE  Waits'
  BY DEF Waits

LEMMA UnappliedEmit ==
    ASSUME TxnInv, NEW e \in Event, Emit(e), effects' = effects
    PROVE  /\ Unapplied => Unapplied'
           /\ e.kind = "subscription" => Unapplied'
  <1>1. /\ emitted' = emitted + 1 /\ emitted' \in Deliveries /\ event'[emitted'] = e
        /\ \A d \in Deliveries : d <= emitted => event'[d] = event[d]
        BY EmitKeeps DEF TxnInv
  <1>2. emitted \in Nat /\ emitted <= MaxEvents /\ MaxEvents \in Nat
        BY WebhookAssumption DEF TxnInv, TypeOK
  <1>3. effects'[emitted'] = 0
        BY <1>1, <1>2 DEF TxnInv, Claimed
  <1>4. 1..emitted \subseteq Deliveries /\ 1..emitted \subseteq 1..(emitted + 1)
        /\ emitted + 1 \in 1..(emitted + 1)
        BY <1>2 DEF Deliveries
  <1>5. \A d \in 1..emitted : event'[d] = event[d]
        BY <1>1, <1>2, <1>4
  <1>6. Unapplied' <=> \E d \in 1..(emitted + 1) : event'[d].kind = "subscription" /\ effects[d] = 0
        BY <1>1 DEF Unapplied
  <1> QED BY <1>1, <1>3, <1>4, <1>5, <1>6 DEF Unapplied

LEMMA UnappliedOther ==
    ASSUME TxnInv, NEW d \in Deliveries, event[d].kind # "subscription", Committed(d),
           UNCHANGED <<event, emitted>>
    PROVE  Unapplied => Unapplied'
  <1>1. \A c \in Deliveries \ {d} : effects'[c] = effects[c]
        BY DEF Committed, TxnInv, TypeOK
  <1>2. 1..emitted \subseteq Deliveries
        BY WebhookAssumption DEF Deliveries, TxnInv, TypeOK
  <1> QED BY <1>1, <1>2 DEF Unapplied

LEMMA WaitsSubscription ==
    ASSUME TxnInv, Waits, NEW w \in Workers, CommitSubscription(w)
    PROVE  Waits'
  <1>1. PICK t : t = worker[w]
        OBVIOUS
  <1>2. PICK s \in Subs : /\ row'[s] = t.new /\ row'[s] # NoRow
                          /\ \A u \in Subs \ {s} : row'[u] = row[u]
        BY <1>1, CommitSubscriptionIs
  <1>3. ~t.new.pending
    <2>1. Busy(w) /\ t.step = "write"
          BY <1>1 DEF CommitSubscription, Busy
    <2> QED BY <1>1, <2>1 DEF TxnInv, Working, WorkingOn
  <1>4. Existing' = Existing \cup {s}
        BY <1>2 DEF Existing
  <1>5. IsFiniteSet(Existing')
        BY <1>4, FS_AddElement DEF Waits
  <1>6. request' = request
        /\ overtaken' = (overtaken \/ \E r \in Requests : request[r].step \in {"schedule", "pending"})
        BY DEF CommitSubscription
  <1>7. \A r \in Requests : request'[r].step \in {"schedule", "pending"} => overtaken'
        BY <1>6
  <1>8. \A u \in Existing' : row'[u].pending => u # s /\ s \in Existing'
        BY <1>2, <1>3, <1>4
  <1> QED BY <1>5, <1>7, <1>8 DEF Waits

LEMMA WaitsStep == TxnInv /\ Waits /\ [Next]_vars => Waits'
  <1> SUFFICES ASSUME TxnInv, Waits, [Next]_vars PROVE Waits'
      OBVIOUS
  <1>1. CASE World \/ UNCHANGED vars
    <2>1. UNCHANGED <<row, effects, overtaken, request>>
          BY <1>1 DEF World, Subscribes, StatusChanges, OtherEvent, NextMonth, OpenMonth, UseCredit,
                      Elsewhere, tables, history, vars
    <2>2. Unapplied => Unapplied'
      <3>1. CASE Subscribes \/ StatusChanges \/ OtherEvent
            BY <2>1, <3>1, WorldEmits, UnappliedEmit
      <3>2. CASE ~(Subscribes \/ StatusChanges \/ OtherEvent)
        <4>1. UNCHANGED <<event, emitted, effects>>
              BY <1>1, <3>2 DEF World, NextMonth, OpenMonth, UseCredit, provider, history, vars
        <4> QED BY <4>1 DEF Unapplied
      <3> QED BY <3>1, <3>2
    <2> QED BY <2>1, <2>2, ExistingStays, WaitsStay
  <1>2. ASSUME NEW r \in Requests, Owner(r) PROVE Waits'
    <2>1. CASE CallProvider(r)
      <3>1. PICK e \in Event : e.kind = "subscription" /\ Emit(e)
            BY <2>1, OwnerEmits
      <3>2. UNCHANGED <<row, effects>>
            BY <2>1 DEF CallProvider, tables, history
      <3>3. Unapplied'
            BY <3>1, <3>2, UnappliedEmit
      <3>4. IsFiniteSet(Existing')
            BY <3>2, ExistingStays DEF Waits
      <3> QED BY <3>3, <3>4, WaitsHold
    <2>2. CASE BeginRequest(r) \/ Abort(r)
      <3>1. UNCHANGED <<row, event, emitted, effects, overtaken>>
            BY <2>2 DEF BeginRequest, Abort, provider, tables, history
      <3>2. PICK new : Turn(r, new) /\ new.step \notin {"schedule", "pending"}
        <4>1. CASE BeginRequest(r)
              BY <4>1, BeginRequestIs
        <4>2. CASE Abort(r)
              BY <4>2 DEF Abort, Idle
        <4> QED BY <2>2, <4>1, <4>2
      <3>3. \A q \in Requests : request'[q].step \in {"schedule", "pending"} =>
               request[q].step \in {"schedule", "pending"}
            BY <3>2 DEF Turn, TxnInv, TypeOK
      <3>4. Unapplied => Unapplied'
            BY <3>1 DEF Unapplied
      <3> QED BY <3>1, <3>3, <3>4, ExistingStays, WaitsStay
    <2>3. CASE RecordSchedule(r) \/ MarkPending(r)
      <3>1. overtaken \/ Unapplied
            BY <2>3 DEF RecordSchedule, MarkPending, Waits
      <3>2. UNCHANGED <<event, emitted, effects, overtaken>>
            BY <2>3 DEF RecordSchedule, MarkPending, provider, history
      <3>3. PICK s : s = request[r].sub
            OBVIOUS
      <3>4. /\ s \in Subs /\ row[s] # NoRow
            /\ \E new \in SubRow : row' = [row EXCEPT ![s] = new]
            BY <2>3, <3>3, OwnerMarksIs
      <3>5. \A new \in SubRow : new # NoRow
            BY DEF SubRow, NoRow
      <3>6. Existing' = Existing
            BY <3>4, <3>5 DEF Existing, TxnInv, TypeOK
      <3>7. IsFiniteSet(Existing')
            BY <3>6 DEF Waits
      <3>8. overtaken' \/ Unapplied'
            BY <3>1, <3>2 DEF Unapplied
      <3> QED BY <3>7, <3>8, WaitsHold
    <2> QED BY <1>2, <2>1, <2>2, <2>3 DEF Owner
  <1>3. ASSUME NEW w \in Workers, Reconcile(w) PROVE Waits'
    <2>1. CASE (\E d \in Deliveries : Claim(w, d)) \/ MarkClaim(w) \/ Fail(w)
      <3>1. UNCHANGED <<row, event, emitted, effects, request, overtaken>>
            BY <2>1, HandlerTurns
      <3>2. Unapplied => Unapplied'
            BY <3>1 DEF Unapplied
      <3> QED BY <3>1, <3>2, ExistingStays, WaitsStay
    <2>2. CASE ReadSubscription(w) \/ WriteSubscription(w) \/ ReadGrant(w) \/ ReadRefund(w)
      <3>1. UNCHANGED <<row, event, emitted, effects, request, overtaken>>
            BY <2>2 DEF ReadSubscription, WriteSubscription, ReadGrant, ReadRefund, provider, tables,
                        history
      <3>2. Unapplied => Unapplied'
            BY <3>1 DEF Unapplied
      <3> QED BY <3>1, <3>2, ExistingStays, WaitsStay
    <2>3. CASE CommitGrant(w) \/ CommitRefund(w) \/ CommitNothing(w)
      <3>1. PICK d : d = worker[w].d
            OBVIOUS
      <3>2. Committed(d) /\ UNCHANGED <<row, event, emitted, request, overtaken>>
            BY <2>3, <3>1 DEF CommitGrant, CommitRefund, CommitNothing, provider, tables
      <3>3. d \in Deliveries /\ event[d].kind # "subscription"
            BY <2>3, <3>1, CommitsOther
      <3>4. Unapplied => Unapplied'
            BY <3>2, <3>3, UnappliedOther
      <3> QED BY <3>2, <3>4, ExistingStays, WaitsStay
    <2> QED BY <1>3, <2>1, <2>2, <2>3, WaitsSubscription DEF Reconcile
  <1> QED BY <1>1, <1>2, <1>3 DEF Next

LEMMA WaitsInit == Init => Waits
  <1> SUFFICES ASSUME Init PROVE Waits
      OBVIOUS
  <1>1. Existing = {}
        BY DEF Init, Existing
  <1>2. IsFiniteSet({})
        BY FS_EmptySet
  <1>3. \A r \in Requests : request[r].step = "idle"
        BY DEF Init, Idle
  <1> QED BY <1>1, <1>2, <1>3 DEF Waits

LEMMA WaitsImplies == Waits => PendingWaits
  <1> SUFFICES ASSUME Waits, NEW s \in Existing, row[s].pending, ~overtaken, ~Unapplied
               PROVE  Cardinality(Existing) > 1
      BY DEF PendingWaits, Unapplied, SubscriptionEvents
  <1>1. PICK t \in Existing : t # s
        BY DEF Waits
  <1>2. {s} \cup {t} \subseteq Existing /\ IsFiniteSet(Existing)
        BY DEF Waits
  <1>3. IsFiniteSet({s}) /\ Cardinality({s}) = 1
        BY FS_Singleton
  <1>4. IsFiniteSet({s} \cup {t}) /\ Cardinality({s} \cup {t}) = 2
    <2> DEFINE one == {s}
    <2>1. t \notin one /\ IsFiniteSet(one) /\ Cardinality(one) = 1
          BY <1>1, <1>3
    <2> HIDE DEF one
    <2>2. IsFiniteSet(one \cup {t})
          BY <2>1, FS_AddElement
    <2>3. Cardinality(one \cup {t}) = Cardinality(one) + 1
          BY <2>1, FS_AddElement
    <2> QED BY <2>1, <2>2, <2>3 DEF one
  <1>5. Cardinality({s} \cup {t}) <= Cardinality(Existing)
        BY <1>2, FS_Subset
  <1>6. Cardinality(Existing) \in Nat
        BY <1>2, FS_CardinalityType
  <1> QED BY <1>4, <1>5, <1>6

\* A change that the owner is told is pending still waits for an event, unless that one came before
\* the marker was set, for any number of requests, events and handlers.
THEOREM PendingIsAwaited == Spec => []PendingWaits
  BY TxnInit, TxnStep, WaitsInit, WaitsStep, WaitsImplies, PTL DEF Spec
=============================================================================
