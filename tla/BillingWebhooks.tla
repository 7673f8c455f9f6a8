---------------------------- MODULE BillingWebhooks ----------------------------
(***************************************************************************)
(* Subscriptions sold through Lemon Squeezy.  The provider keeps what the  *)
(* customer pays for and delivers an event of every change, repeatedly and *)
(* in any order; reconcileWebhookEvent claims a delivery, works on the     *)
(* subscription, the organization, the ledger of verified-booking credits  *)
(* and the add-ons in one transaction, and marks the claim; the owner      *)
(* changes, cancels or resumes the plan meanwhile.  A transaction is one   *)
(* action for each read that others can make stale and one for its writes, *)
(* which become visible together at its commit.                            *)
(***************************************************************************)
EXTENDS Integers, FiniteSets

CONSTANTS Subs,       \* row ids of subscriptions, of one organization
          Orders,     \* orders of add-ons at the provider
          Workers,    \* deliveries being processed
          Requests,   \* the owner's requests in flight
          NoSub, NoOrder,
          MaxPlan,    \* the paid plans are 1..MaxPlan, and 0 is the free one
          Price,      \* Price[p][i]: of plan p at interval i
          Offers,     \* the plans with intervals that are on sale
          Reported,   \* bound: statuses that the provider reports
          LeftOut,    \* bound: what its events may leave out
          Included,   \* Included[p]: verified bookings a month of plan p
          Units,      \* credits of an add-on
          MaxEvents,  \* bound: events the provider sends
          MaxMonth,   \* bound: months
          MaxFaults,  \* bound: failures and crashes
          MaxUsed     \* bound: credits used

Paid == 1..MaxPlan
Plans == 0..MaxPlan
Intervals == {"monthly", "annual"}
Statuses == {"active", "trialing", "past_due", "unpaid", "paused", "cancelled", "expired"}

ASSUME WebhookAssumption ==
    /\ NoSub \notin Subs /\ NoOrder \notin Orders /\ IsFiniteSet(Orders)
    /\ MaxPlan \in Nat \ {0} /\ Included \in [Plans -> Nat] /\ Units \in Nat \ {0}
    /\ Price \in [Paid -> [Intervals -> Nat]]
    /\ Offers \subseteq [plan : Paid, interval : Intervals]
    /\ Reported \subseteq Statuses /\ LeftOut \subseteq {"variant", "ends", "period"}
    /\ MaxEvents \in Nat /\ MaxMonth \in Nat /\ MaxFaults \in Nat /\ MaxUsed \in Nat

VARIABLES paid,       \* at the provider: what the customer pays for, and how that stands
          event,      \* at the provider: the events, in the order they happened
          emitted,    \* how many there are
          claim,      \* processed_webhook_events
          row,        \* subscriptions
          org,        \* organizations: currentPlan and billingStatus
          ledger,     \* verified_online_booking_credits, a row a month
          addon,      \* verified_online_booking_addons, a row an order
          worker,     \* where each delivery in process is and what it has read
          request,    \* where each request of the owner is and what it has read
          month, faults,
          effects,    \* history: how often the transaction of a delivery was committed
          refunds,    \* history: units taken back from a month's ledger
          orderly,    \* history: every delivery was claimed after all before it were processed
          overtaken,  \* history: an event was applied between a provider call and its marker
          promised    \* history: the month in which a scheduled downgrade falls due

provider == <<paid, event, emitted>>
tables == <<claim, row, org, ledger, addon>>
history == <<effects, refunds, orderly, overtaken, promised>>
vars == <<provider, tables, worker, request, month, faults, history>>
-----------------------------------------------------------------------------
Deliveries == 1..MaxEvents
Months == 0..MaxMonth
NoRow == [status |-> "none"]
NoEvent == [kind |-> "none"]
Idle == [step |-> "idle"]
Undue == MaxMonth + 2    \* later than anything falls due

OrgStatuses == {"trial_active", "subscription_active", "subscription_past_due",
                "subscription_paused", "subscription_cancelled", "subscription_expired"}

\* A plan at an interval as a row may have it: free, or without an interval.
Deal == [plan : Plans, interval : Intervals \cup {"none"}]
NoDeal == [plan |-> -1, interval |-> "none"]
NoMonth == -1

\* said: what the checkout put into custom_data; variant: what the environment knows the variant
\* as; ends: the month of ends_at, or 0.
Terms == [said : Offers \cup {NoDeal}, variant : Offers \cup {NoDeal}, status : Statuses,
          ends : 0..(MaxMonth + 1)]

\* month: that of current_period_start.  A stray event names no organization.
Event == [kind : {"subscription"}, terms : Terms, month : Months \cup {NoMonth}]
         \cup [kind : {"order", "refund"}, order : Orders]
         \cup [kind : {"other", "stray"}]

\* scheduled: a downgrade that waits for the next period.
SubRow == [status : Statuses, plan : Plans, interval : Intervals \cup {"none"},
           scheduled : Deal \cup {NoDeal}, month : Months, pending : BOOLEAN]

OrgRow == [plan : Plans, status : OrgStatuses]

Ledger == [status : {"open"}, included : Nat, addon : Nat, used : Nat, plan : Plans]

AddonRow == [status : {"granted"}, month : Months, refunded : Nat]

Claims == {"none", "processing", "processed", "ignored", "failed"}

\* A transaction under way: what it has read, or what it is about to commit.
Task == [step : {"read", "mark"}, d : Deliveries]
        \cup [step : {"lock"}, d : Deliveries, seen : Subs \cup {NoSub}, old : SubRow \cup {NoRow}]
        \cup [step : {"write"}, d : Deliveries, seen : Subs \cup {NoSub}, new : SubRow,
              org : OrgRow, book : Ledger \cup {NoRow}]
        \cup [step : {"grant"}, d : Deliveries, month : Months, had : BOOLEAN,
              book : Ledger \cup {NoRow}]
        \cup [step : {"refund"}, d : Deliveries, month : Months, book : Ledger \cup {NoRow},
              addon : Orders \cup {NoOrder}, refunded : Nat]

\* A request: its subscription, what it asks for, and whether that is a downgrade of what it read.
Wish == [kind : {"plan"}, offer : Offers] \cup [kind : {"cancel", "resume"}]
Command == [step : {"call", "schedule", "pending"}, sub : Subs, wish : Wish, down : BOOLEAN]

Larger(a, b) == IF a > b THEN a ELSE b

Goto(w, state) == worker' = [worker EXCEPT ![w] = state]
Turn(r, state) == request' = [request EXCEPT ![r] = state]

Existing == {s \in Subs : row[s] # NoRow}

\* The row with the latest period end; which of equals is not said.
Latest == IF Existing = {} THEN {NoSub}
          ELSE {s \in Existing : \A t \in Existing : row[t].month <= row[s].month}

Init == /\ paid = [said |-> NoDeal, variant |-> NoDeal, status |-> "expired", ends |-> 0]
        /\ row = [s \in Subs |-> NoRow]
        /\ org = [plan |-> 0, status |-> "trial_active"]
        /\ event = [d \in Deliveries |-> NoEvent] /\ emitted = 0
        /\ claim = [d \in Deliveries |-> "none"]
        /\ ledger = [n \in Months |-> NoRow]
        /\ addon = [o \in Orders |-> NoRow]
        /\ worker = [w \in Workers |-> Idle]
        /\ request = [r \in Requests |-> Idle]
        /\ month = 0 /\ faults = 0
        /\ effects = [d \in Deliveries |-> 0]
        /\ refunds = [n \in Months |-> 0]
        /\ orderly = TRUE /\ overtaken = FALSE /\ promised = Undue
-----------------------------------------------------------------------------
(* The provider and the rest of the world *)

\* What an event says of a matter: the value, or perhaps nothing.
Or(value, nothing, matter) == {value} \cup (IF matter \in LeftOut THEN {nothing} ELSE {})

Emit(e) == /\ emitted < MaxEvents
           /\ emitted' = emitted + 1
           /\ event' = [event EXCEPT ![emitted + 1] = e]

\* A change of what is paid is followed by its event.
PaidBecomes(terms) ==
    /\ paid' = terms
    /\ \E starts \in Or(month, NoMonth, "period") :
          Emit([kind |-> "subscription", terms |-> terms, month |-> starts])

Elsewhere == UNCHANGED <<tables, worker, request, month, faults, history>>

\* A checkout of the application says the offer twice; one made elsewhere need not say it at all.
Subscribes ==
    /\ paid.status = "expired"
    /\ \E o \in Offers, status \in Reported \cap {"active", "trialing"} :
       \E variant \in Or(o, NoDeal, "variant") : \E said \in {variant, NoDeal} :
          PaidBecomes([said |-> said, variant |-> variant, status |-> status, ends |-> 0])
    /\ Elsewhere

\* What is cancelled ends with the period, and is said to or not.
EndsOf(status) == IF status = "cancelled" THEN Or(month + 1, 0, "ends") ELSE {0}

\* The customer is charged for another period, misses a payment, cancels, expires or recovers; or
\* moves to a variant that the environment does not know.
StatusChanges ==
    /\ paid.status # "expired"
    /\ \E status \in Reported, variant \in Or(paid.variant, NoDeal, "variant") :
       \E ends \in EndsOf(status) :
          PaidBecomes([said |-> paid.said, variant |-> variant, status |-> status, ends |-> ends])
    /\ Elsewhere

Bought(o) == \E d \in 1..emitted : event[d] = [kind |-> "order", order |-> o]

\* An add-on is bought, or refunded; or it is nothing this code has a use for.
OtherEvent == /\ \/ \E o \in Orders : Emit([kind |-> "order", order |-> o])
                 \/ \E o \in Orders : Bought(o) /\ Emit([kind |-> "refund", order |-> o])
                 \/ \E kind \in {"other", "stray"} : Emit([kind |-> kind])
              /\ UNCHANGED paid /\ Elsewhere

NextMonth == /\ month < MaxMonth
             /\ month' = month + 1
             /\ UNCHANGED <<provider, tables, worker, request, faults, history>>

Opened(included, plan) ==
    [status |-> "open", included |-> included, addon |-> 0, used |-> 0, plan |-> plan]

\* ensureVerifiedBookingCredits of the intake opens the month with the plan's bookings.
OpenMonth == /\ ledger[month] = NoRow
             /\ ledger' = [ledger EXCEPT ![month] = Opened(Included[org.plan], org.plan)]
             /\ UNCHANGED <<provider, claim, row, org, addon, worker, request, month, faults,
                            history>>

\* A code is sent and charged.
UseCredit == /\ ledger[month] # NoRow
             /\ ledger[month].used < ledger[month].included + ledger[month].addon
             /\ ledger[month].used < MaxUsed
             /\ ledger' = [ledger EXCEPT ![month].used = @ + 1]
             /\ UNCHANGED <<provider, claim, row, org, addon, worker, request, month, faults,
                            history>>
-----------------------------------------------------------------------------
(* reconcileWebhookEvent *)

\* Mutant: the claim is an insert with no unique key on the event's id.
Claim_NotUnique(w, d) ==
    /\ worker[w] = Idle
    /\ d <= emitted /\ claim[d] # "failed"
    /\ claim' = [claim EXCEPT ![d] = "processing"]
    /\ Goto(w, [step |-> "read", d |-> d])
    /\ UNCHANGED <<provider, row, org, ledger, addon, request, month, faults, history>>

\* The claim is inserted, once for each body; another delivery of it is answered "duplicate",
\* whatever became of the claim.
Claim(w, d) ==
    /\ worker[w] = Idle
    /\ d <= emitted /\ claim[d] = "none"
    /\ claim' = [claim EXCEPT ![d] = "processing"]
    /\ Goto(w, [step |-> "read", d |-> d])
    /\ orderly' = (orderly /\ \A c \in 1..(d - 1) : claim[c] \in {"processed", "ignored"})
    /\ UNCHANGED <<provider, row, org, ledger, addon, request, month, faults, effects,
                   refunds, overtaken, promised>>

\* reconcileSubscriptionEvent reads the organization's latest row.
ReadSubscription(w) ==
    LET d == worker[w].d IN
    /\ worker[w].step = "read" /\ event[d].kind = "subscription"
    /\ \E s \in Latest : Goto(w, [step |-> "lock", d |-> d, seen |-> s,
                                  old |-> IF s = NoSub THEN NoRow ELSE row[s]])
    /\ UNCHANGED <<provider, tables, request, month, faults, history>>

\* Mutant: nothing is assumed of an event that names no plan.
Named_NoFallback(old, e) ==
    IF e.terms.said # NoDeal THEN e.terms.said ELSE e.terms.variant

\* What an event stands for: custom_data comes before the variant, and both before what there is.
Named(old, e) ==
    IF e.terms.said # NoDeal THEN e.terms.said
    ELSE IF e.terms.variant # NoDeal THEN e.terms.variant
    ELSE IF old # NoRow THEN [plan |-> old.plan, interval |-> old.interval]
    ELSE [plan |-> 0, interval |-> "none"]

PriceForPlan(plan, interval) ==
    IF plan = 0 THEN 0
    ELSE Price[plan][IF interval = "none" THEN "monthly" ELSE interval]

\* An active subscription does not go down before its period ends.
IsScheduledDowngrade(old, e) ==
    LET named == Named(old, e) IN
    /\ old # NoRow
    /\ e.terms.status = "active" /\ old.status = "active"
    /\ named.plan # 0
    /\ PriceForPlan(old.plan, old.interval) > PriceForPlan(named.plan, named.interval)

PeriodOf(old, e) == IF e.month # NoMonth THEN e.month
                    ELSE IF old # NoRow THEN old.month
                    ELSE month

\* Mutant: the row is written without clearPendingSync.
NextRow_KeepsPending(old, e) ==
    [status |-> e.terms.status,
     plan |-> IF IsScheduledDowngrade(old, e) THEN old.plan ELSE Named(old, e).plan,
     interval |-> Named(old, e).interval,
     scheduled |-> IF IsScheduledDowngrade(old, e) THEN Named(old, e) ELSE NoDeal,
     month |-> PeriodOf(old, e),
     pending |-> old # NoRow /\ old.pending]

\* Mutant: whatever changes the plan of an active subscription waits for the next period.
NextRow_AnyChangeWaits(old, e) ==
    LET waits == old # NoRow /\ old.status = "active" /\ e.terms.status = "active" IN
    [status |-> e.terms.status,
     plan |-> IF waits THEN old.plan ELSE Named(old, e).plan,
     interval |-> Named(old, e).interval,
     scheduled |-> IF waits THEN Named(old, e) ELSE NoDeal,
     month |-> PeriodOf(old, e),
     pending |-> FALSE]

\* Only the plan waits: the interval is that of the event at once.
NextRow(old, e) ==
    [status |-> e.terms.status,
     plan |-> IF IsScheduledDowngrade(old, e) THEN old.plan ELSE Named(old, e).plan,
     interval |-> Named(old, e).interval,
     scheduled |-> IF IsScheduledDowngrade(old, e) THEN Named(old, e) ELSE NoDeal,
     month |-> PeriodOf(old, e),
     pending |-> FALSE]

\* mapOrgBillingStatus: ends_at is compared with the clock.
MapOrgBillingStatus(terms) ==
    CASE terms.status \in {"active", "trialing"} -> "subscription_active"
      [] terms.status \in {"past_due", "unpaid"} -> "subscription_past_due"
      [] terms.status = "paused" -> "subscription_paused"
      [] terms.status = "cancelled" ->
            IF terms.ends > month THEN "subscription_cancelled" ELSE "subscription_expired"
      [] terms.status = "expired" -> "subscription_expired"

\* What a row and its event mean for the organization.
OrgOf(r, e) == [plan |-> IF r.status = "expired" THEN 0 ELSE r.plan,
                status |-> MapOrgBillingStatus(e.terms)]

\* Every such transaction updates the organization's row: one at a time holds its lock.
NobodyWrites == \A v \in Workers : worker[v].step # "write"

\* The rows are written, and reconcileIncludedBookingCredits reads the ledger, under the lock.
WriteSubscription(w) ==
    LET e == event[worker[w].d]
        new == NextRow(worker[w].old, e) IN
    /\ worker[w].step = "lock"
    /\ NobodyWrites
    /\ Goto(w, [step |-> "write", d |-> worker[w].d, seen |-> worker[w].seen, new |-> new,
                org |-> OrgOf(new, e), book |-> ledger[new.month]])
    /\ UNCHANGED <<provider, tables, request, month, faults, history>>

\* Credits follow a paid plan unless the subscription is over or waits for a downgrade.
Reconciles(r) == r.scheduled = NoDeal /\ r.plan # 0 /\ r.status # "expired"

\* applyMonthlyIncludedUpgrade: what was included stays; used is written as it was read.
Upgraded(now, book, p) ==
    IF book = NoRow THEN Opened(Included[p], p)
    ELSE IF Included[p] <= book.included /\ book.plan = p THEN now
    ELSE [now EXCEPT !.included = Larger(book.included, Included[p]), !.used = book.used,
                     !.plan = p]

\* A row that was not there when it was read is inserted; the key is (organization, month).
LedgerInsertable(n, book) == book = NoRow => ledger[n] = NoRow

Committed(d) == effects' = [effects EXCEPT ![d] = @ + 1]

CommitSubscription(w) ==
    LET t == worker[w] IN
    /\ t.step = "write"
    /\ \E s \in IF t.seen = NoSub THEN {u \in Subs : row[u] = NoRow} ELSE {t.seen} :
          row' = [row EXCEPT ![s] = t.new]
    /\ org' = t.org
    /\ IF Reconciles(t.new)
       THEN /\ LedgerInsertable(t.new.month, t.book)
            /\ ledger' = [ledger EXCEPT ![t.new.month] = Upgraded(@, t.book, t.new.plan)]
       ELSE UNCHANGED ledger
    /\ Committed(t.d)
    /\ Goto(w, [step |-> "mark", d |-> t.d])
    /\ overtaken' = (overtaken \/ \E r \in Requests : request[r].step \in {"schedule", "pending"})
    /\ UNCHANGED <<provider, claim, addon, request, month, faults, refunds, orderly, promised>>

\* order_created: grant looks for the order's row and for the month's ledger.
ReadGrant(w) ==
    LET d == worker[w].d IN
    /\ worker[w].step = "read" /\ event[d].kind = "order"
    /\ Goto(w, [step |-> "grant", d |-> d, month |-> month,
                had |-> addon[event[d].order] # NoRow, book |-> ledger[month]])
    /\ UNCHANGED <<provider, tables, request, month, faults, history>>

\* getOrCreateLedger: a month that nobody opened starts without included bookings.
OrCreated(book) == IF book = NoRow THEN Opened(0, 0) ELSE book

\* Mutant: a second event of the order adds its units again.
CommitGrant_Again(w) ==
    LET t == worker[w]
        o == event[t.d].order IN
    /\ t.step = "grant"
    /\ LedgerInsertable(t.month, t.book)
    /\ addon' = [addon EXCEPT ![o] = [status |-> "granted", month |-> t.month, refunded |-> 0]]
    /\ ledger' = [ledger EXCEPT ![t.month] =
                     [OrCreated(@) EXCEPT !.addon = OrCreated(t.book).addon + Units]]
    /\ Committed(t.d)
    /\ Goto(w, [step |-> "mark", d |-> t.d])
    /\ UNCHANGED <<provider, claim, row, org, request, month, faults, refunds, orderly,
                   overtaken, promised>>

\* Mutant: the whole ledger is written back as it was read.
CommitGrant_WholeRow(w) ==
    LET t == worker[w]
        o == event[t.d].order IN
    /\ t.step = "grant"
    /\ LedgerInsertable(t.month, t.book)
    /\ \/ /\ t.had
          /\ ledger' = [ledger EXCEPT ![t.month] = OrCreated(@)]
          /\ UNCHANGED addon
       \/ /\ ~t.had /\ addon[o] = NoRow
          /\ addon' = [addon EXCEPT ![o] = [status |-> "granted", month |-> t.month,
                                            refunded |-> 0]]
          /\ ledger' = [ledger EXCEPT ![t.month] = [OrCreated(t.book) EXCEPT !.addon = @ + Units]]
    /\ Committed(t.d)
    /\ Goto(w, [step |-> "mark", d |-> t.d])
    /\ UNCHANGED <<provider, claim, row, org, request, month, faults, refunds, orderly,
                   overtaken, promised>>

\* The units are added to what was read, and the order's row is inserted: its key is unique.
CommitGrant(w) ==
    LET t == worker[w]
        o == event[t.d].order IN
    /\ t.step = "grant"
    /\ LedgerInsertable(t.month, t.book)
    /\ \/ /\ t.had
          /\ ledger' = [ledger EXCEPT ![t.month] = OrCreated(@)]
          /\ UNCHANGED addon
       \/ /\ ~t.had /\ addon[o] = NoRow
          /\ addon' = [addon EXCEPT ![o] = [status |-> "granted", month |-> t.month,
                                            refunded |-> 0]]
          /\ ledger' = [ledger EXCEPT ![t.month] =
                           [OrCreated(@) EXCEPT !.addon = OrCreated(t.book).addon + Units,
                                                !.used = OrCreated(t.book).used]]
    /\ Committed(t.d)
    /\ Goto(w, [step |-> "mark", d |-> t.d])
    /\ UNCHANGED <<provider, claim, row, org, request, month, faults, refunds, orderly,
                   overtaken, promised>>

Granted == {o \in Orders : addon[o] # NoRow}

\* order_refunded: the ledger, and any add-on of the same kind, are read.
ReadRefund(w) ==
    LET d == worker[w].d IN
    /\ worker[w].step = "read" /\ event[d].kind = "refund"
    /\ \E o \in IF Granted = {} THEN {NoOrder} ELSE Granted :
          Goto(w, [step |-> "refund", d |-> d, month |-> month, book |-> ledger[month],
                   addon |-> o, refunded |-> IF o = NoOrder THEN 0 ELSE addon[o].refunded])
    /\ UNCHANGED <<provider, tables, request, month, faults, history>>

\* Units of a ledger's add-ons that nothing was used of.
Unused(book) == Larger(0, book.addon - Larger(0, book.used - book.included))

\* Enough unused units are taken back; otherwise the refund is left for a review.
CommitRefund(w) ==
    LET t == worker[w]
        book == OrCreated(t.book)
        o == t.addon IN
    /\ t.step = "refund"
    /\ LedgerInsertable(t.month, t.book)
    /\ IF Unused(book) < Units
       THEN /\ ledger' = [ledger EXCEPT ![t.month] = OrCreated(@)]
            /\ UNCHANGED <<addon, refunds>>
       ELSE /\ ledger' = [ledger EXCEPT ![t.month] = [@ EXCEPT !.addon = book.addon - Units,
                                                              !.used = book.used]]
            /\ addon' = IF o = NoOrder THEN addon
                        ELSE [addon EXCEPT ![o].refunded = t.refunded + Units]
            /\ refunds' = [refunds EXCEPT ![t.month] = @ + Units]
    /\ Committed(t.d)
    /\ Goto(w, [step |-> "mark", d |-> t.d])
    /\ UNCHANGED <<provider, claim, row, org, request, month, faults, orderly, overtaken,
                   promised>>

\* Nothing to do for an event of another kind, or of no organization.
CommitNothing(w) ==
    LET d == worker[w].d IN
    /\ worker[w].step = "read" /\ event[d].kind \in {"other", "stray"}
    /\ Committed(d)
    /\ Goto(w, [step |-> "mark", d |-> d])
    /\ UNCHANGED <<provider, tables, request, month, faults, refunds, orderly, overtaken,
                   promised>>

MarkClaim(w) ==
    LET d == worker[w].d IN
    /\ worker[w].step = "mark"
    /\ claim' = [claim EXCEPT ![d] = IF event[d].kind = "other" THEN "ignored" ELSE "processed"]
    /\ Goto(w, Idle)
    /\ UNCHANGED <<provider, row, org, ledger, addon, request, month, faults, history>>

\* A unique key that the transaction runs into: the month's ledger or the order's add-on.
Conflicts(t) ==
    \/ t.step = "write" /\ Reconciles(t.new) /\ ~LedgerInsertable(t.new.month, t.book)
    \/ t.step \in {"grant", "refund"} /\ ~LedgerInsertable(t.month, t.book)
    \/ t.step = "grant" /\ ~t.had /\ addon[event[t.d].order] # NoRow

FailAs(w, status) == /\ claim' = [claim EXCEPT ![worker[w].d] = status]
                     /\ Goto(w, Idle)
                     /\ UNCHANGED <<provider, row, org, ledger, addon, request, month, history>>

\* A statement fails: the transaction is rolled back and the claim marked; or the process stops.
Fail(w) == /\ worker[w] # Idle
           /\ \/ Conflicts(worker[w]) /\ FailAs(w, "failed") /\ UNCHANGED faults
              \/ /\ faults < MaxFaults /\ faults' = faults + 1
                 /\ \E status \in {"failed", "processing"} : FailAs(w, status)
-----------------------------------------------------------------------------
(* The owner *)

\* It is a downgrade if it is cheaper; a row without an interval is taken to have that of the wish.
IsDowngrade(r, offer) ==
    PriceForPlan(r.plan, IF r.interval = "none" THEN offer.interval ELSE r.interval)
       > PriceForPlan(offer.plan, offer.interval)

\* changePlan, cancel and resume read the subscription.
BeginRequest(r) ==
    /\ request[r] = Idle
    /\ \E s \in Latest \ {NoSub}, wish \in Wish :
          Turn(r, [step |-> "call", sub |-> s, wish |-> wish,
                   down |-> wish.kind = "plan" /\ IsDowngrade(row[s], wish.offer)])
    /\ UNCHANGED <<provider, tables, worker, month, faults, history>>

\* The provider is asked, does it, and says so in an event; the plan's marker comes next.
CallProvider(r) ==
    LET wish == request[r].wish IN
    /\ request[r].step = "call" /\ paid.status # "expired"
    /\ PaidBecomes(
          CASE wish.kind = "plan" -> [paid EXCEPT !.variant = wish.offer]
            [] wish.kind = "cancel" -> [paid EXCEPT !.status = "cancelled", !.ends = month + 1]
            [] wish.kind = "resume" -> [paid EXCEPT !.status = "active", !.ends = 0])
    /\ Turn(r, [request[r] EXCEPT !.step = IF wish.kind = "plan" THEN "schedule" ELSE "pending"])
    /\ UNCHANGED <<tables, worker, month, faults, history>>

\* An update of the row waits for the transaction that wrote it.
Unlocked(s) == \A w \in Workers : worker[w].step = "write" => worker[w].seen # s

\* changePlan notes a downgrade for the period's end, or clears one.
RecordSchedule(r) ==
    LET c == request[r] IN
    /\ c.step = "schedule" /\ Unlocked(c.sub)
    /\ row' = [row EXCEPT ![c.sub].scheduled = IF c.down THEN c.wish.offer ELSE NoDeal]
    /\ promised' = IF c.down THEN month + 1 ELSE Undue
    /\ Turn(r, [c EXCEPT !.step = "pending"])
    /\ UNCHANGED <<provider, claim, org, ledger, addon, worker, month, faults, effects,
                   refunds, orderly, overtaken>>

MarkPending(r) ==
    /\ request[r].step = "pending" /\ Unlocked(request[r].sub)
    /\ row' = [row EXCEPT ![request[r].sub].pending = TRUE]
    /\ Turn(r, Idle)
    /\ UNCHANGED <<provider, claim, org, ledger, addon, worker, month, faults, history>>

\* The call is refused or the process stops.
Abort(r) == /\ request[r] # Idle
            /\ \/ request[r].step = "call" /\ UNCHANGED faults
               \/ faults < MaxFaults /\ faults' = faults + 1
            /\ Turn(r, Idle)
            /\ UNCHANGED <<provider, tables, worker, month, history>>
-----------------------------------------------------------------------------
World == Subscribes \/ StatusChanges \/ OtherEvent \/ NextMonth \/ OpenMonth \/ UseCredit

Reconcile(w) == \/ \E d \in Deliveries : Claim(w, d)
                \/ ReadSubscription(w) \/ WriteSubscription(w) \/ CommitSubscription(w)
                \/ ReadGrant(w) \/ CommitGrant(w)
                \/ ReadRefund(w) \/ CommitRefund(w)
                \/ CommitNothing(w) \/ MarkClaim(w) \/ Fail(w)

Owner(r) == BeginRequest(r) \/ CallProvider(r) \/ RecordSchedule(r) \/ MarkPending(r) \/ Abort(r)

Next == \/ World
        \/ \E w \in Workers : Reconcile(w)
        \/ \E r \in Requests : Owner(r)

Spec == Init /\ [][Next]_vars
-----------------------------------------------------------------------------
(* Properties *)

\* The rows, claims, add-ons and ledgers stay what their columns allow: an event that names no
\* plan leaves the plan there is, or the free one, and an event without a period that of the row.
TypeOK ==
    /\ paid \in Terms
    /\ event \in [Deliveries -> Event \cup {NoEvent}] /\ emitted \in 0..MaxEvents
    /\ claim \in [Deliveries -> Claims]
    /\ row \in [Subs -> SubRow \cup {NoRow}]
    /\ org \in OrgRow
    /\ ledger \in [Months -> Ledger \cup {NoRow}]
    /\ addon \in [Orders -> AddonRow \cup {NoRow}]
    /\ worker \in [Workers -> Task \cup {Idle}]
    /\ request \in [Requests -> Command \cup {Idle}]
    /\ month \in Months /\ faults \in 0..MaxFaults
    /\ effects \in [Deliveries -> Nat] /\ refunds \in [Months -> Nat]
    /\ orderly \in BOOLEAN /\ overtaken \in BOOLEAN /\ promised \in 0..Undue

\* The provider delivers a body as often as it likes, to any number of processes that fail and
\* stop anywhere: reconcileWebhookEvent commits its effect at most once.
Inbox == INSTANCE WebhookInbox WITH taken <- {d \in Deliveries : claim[d] # "none"}
ImplementsInbox == Inbox!InboxSpec

\* The add-on credits of a month were all paid for by orders granted in that month, whatever
\* overlaps, fails or is repeated; when events come one after another, none is missing either.
AddonBacked ==
    \A n \in Months :
       LET bought == Units * Cardinality({o \in Granted : addon[o].month = n})
           has == IF ledger[n] = NoRow THEN 0 ELSE ledger[n].addon IN
       has <= bought /\ (orderly => has + refunds[n] = bought)

\* reconcileIncludedBookingCredits only ever raises what a month includes, although it writes a
\* value it computed from an earlier read: the organization's row serializes its callers.
IncludedNeverFalls ==
    [][\A n \in Months : ledger[n] # NoRow =>
          ledger'[n] # NoRow /\ ledger'[n].included >= ledger[n].included]_vars

Quiet == /\ \A d \in 1..emitted : claim[d] \in {"processed", "ignored"}
         /\ \A r \in Requests : request[r].step \notin {"schedule", "pending"}

SubscriptionEvents == {d \in 1..emitted : event[d].kind = "subscription"}

IsLast(d, ds) == d \in ds /\ \A c \in ds : c <= d

\* What an event says itself, by the checkout or by the variant.
Says(d) == IF event[d].terms.said # NoDeal THEN event[d].terms.said ELSE event[d].terms.variant
Telling(ds) == {d \in ds : Says(d) # NoDeal}
IsActive(d) == event[d].terms.status = "active"

\* A row's plan was told by one of the events ds: the last one that tells any, or one after which
\* all that tell are active and of which the last is cheaper, at the interval told before it, than
\* the plan kept.  The interval is the last one told, so the pair of the two may be on nobody's bill.
AsTold(r, ds) ==
    \/ Telling(ds) = {} /\ r.plan = 0 /\ r.interval = "none"
    \/ \E c, last \in Telling(ds) :
          /\ IsLast(last, Telling(ds))
          /\ r.plan = Says(c).plan /\ r.interval = Says(last).interval
          /\ \A d \in Telling(ds) : d > c => IsActive(d)
          /\ c # last => \E d \in Telling(ds) \ {last} :
                /\ IsLast(d, Telling(ds) \ {last})
                /\ PriceForPlan(r.plan, Says(d).interval)
                      > PriceForPlan(Says(last).plan, Says(last).interval)

\* An organization has its subscription's plan until that expires; it reads "expired" only when
\* the subscription is, or was cancelled and has come to its end, and "active" only while it is.
Follows(o, r, terms) ==
    /\ o.plan = IF terms.status = "expired" THEN 0 ELSE r.plan
    /\ o.status = "subscription_expired" =>
          \/ terms.status = "expired"
          \/ terms.status = "cancelled" /\ terms.ends <= month
    /\ o.status = "subscription_active" <=> terms.status \in {"active", "trialing"}

\* Events that are delivered in order and without failures leave one subscription, with the
\* status of the last, a plan and an interval that were told, of which nothing but a downgrade of
\* an active subscription waits, and an organization that follows it.
OrderlyIsFaithful ==
    orderly /\ Quiet /\ SubscriptionEvents # {} =>
       \E s \in Subs, d \in SubscriptionEvents :
          /\ Existing = {s} /\ IsLast(d, SubscriptionEvents)
          /\ row[s].status = event[d].terms.status
          /\ AsTold(row[s], SubscriptionEvents)
          /\ Follows(org, row[s], event[d].terms)

\* A subscription that shows a change as pending waits for an event: one that was sent is not
\* applied yet, or was applied before the request that caused it came to set the marker.
PendingWaits ==
    \A s \in Existing : row[s].pending =>
       \/ overtaken \/ Cardinality(Existing) > 1
       \/ \E d \in SubscriptionEvents : effects[d] = 0

\* "Your plan is scheduled to move to ... on ..." (billing-status-banner.tsx:58): when the period
\* of the scheduled change has begun, and all its events are in, the plan is the one paid for; of a
\* subscription whose custom_data does not go on naming the old one.
DowngradeTakesEffect ==
    orderly /\ Quiet /\ SubscriptionEvents # {}
       /\ paid.status = "active" /\ paid.said = NoDeal /\ paid.variant # NoDeal =>
       \A s \in Existing : row[s].month >= promised => row[s].plan = paid.variant.plan
=============================================================================
