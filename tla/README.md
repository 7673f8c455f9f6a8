# Suki: TLA+ models and proofs

Suki (`src/`) is a NestJS API with a PostgreSQL database, a Next.js web application and a
set of scheduled jobs for small appointment businesses: customers book a time from a public
page and confirm it with a code sent to their phone, staff run the calendar, the system
sends reminders and follow-ups, and the business pays for a plan and for message credits.

The API keeps no state of its own between requests: all state is in the database, and every
`await` between two statements of a handler is a place where another request, a scheduled job
or a provider's callback can run. There are few transactions, fewer locks, and a handful of
unique keys. What can go wrong is therefore almost always of one kind - a decision taken on a
row that has changed by the time the decision is written - and this project models the
handlers statement by statement to find out where the code's own guards are enough, where
they are not, and to prove the former for any number of rows and requests.

## Inventory

| Component | State it keeps | Operations | Interacts with | What makes it hard | What makes it correct |
|---|---|---|---|---|---|
| Public booking (`intake/intake-booking.service.ts`, PIN override in `appointments.service.ts`) | `booking_holds`, `appointments`, `booking_pin_attempt_logs` | createHold, sendOtp, verifyAndConfirm, confirmWithPinOverride | OTP provider, dispatch (confirmation), verified-booking credits | overlapping requests around a provider call, expiry, an advisory lock on some paths only | one OTP booking per slot, one live hold per slot, confirmed holds have their appointment, bounded attempts |
| Appointment lifecycle (`appointments.service.ts`, `customers.service.ts`, lifecycle scheduler) | `appointments.status`, `visitRecordedAt`, `customers.visitCount` | update, updateStatus, markArrived, completion, stampVisit, the five-minute pass | automations (reviews), promos (loyalty) | a pass works on rows it read before; staff edit them meanwhile; absolute writes of the count | a visit counts once, cancelled visits never, due rows settle |
| Manual billing (`platform-admin-billing.service.ts`, `client-billing-request.service.ts`, `sms-addon-grant.service.ts`) | `client_billing_requests`, `manual_billing_requests`, `manual_payments`, `manual_billing_fulfillments`, `sms_credits` | request, approve, record, confirm, reject, void, adjust | credit ledgers, metering, e-mail | several admins, no row locks, stale values written back to the ledger | one fulfilment per request, credits backed, decisions final |
| OTP sending and verified-booking credits (`intake-booking.service.ts` sendOtp, `intake/otp`) | send counters of a hold, `verified_booking_credits`, send events | sendOtp, provider calls | public booking, credit grants | check, provider call, then counters: overlapping sends share one reading | at most N sends per hold, a credit per booking |
| Message dispatch and metering (`messaging/message-dispatch.service.ts`, `sms-metering`, `email-metering`) | `message_events`, `sms_credits`, `sms_usage_events`, caps | dispatch with one retry, consume | providers, automations, follow-ups | caps are checked before the provider call and charged after; a stop leaves "queued" | a charge for each message taken at most, every failure followed up |
| Automations (`automation/*`, `operations/automation-job-run.service.ts`) | markers on appointments and customers, job runs | scheduled passes: reminders, birthdays, lapsed customers, reviews | dispatch | check-then-send-then-mark with overlapping passes | a mark only for a message that was taken, one message while sends do not overlap |
| Provider callbacks and reconciliation (`messaging-webhook`, `inbound-sms.controller.ts`, `semaphore-message-reconciliation`) | `message_events` status and delivery, `processed_webhook_events`, opt-outs, consent log | delivery reports of Twilio and Resend, polling of accepted messages, repair of false rejections, STOP | dispatch, credits, follow-ups, markers | answers out of date when they are written; reports early, repeated and overlapping; a repair and a failure of the same message | a final status stays, a repaired message is charged once, an answered STOP reaches everyone it found |
| Manual follow-ups (`messaging/manual-follow-ups/*`) | `manual_follow_up_tasks` | raise, retry, resolve, dismiss, digest | dispatch, reconciliation | raised after the failure commits; dismissed by another job | no failure without a follow-up that staff see |
| Subscription billing (`billing/billing.service.ts`) | `processed_webhook_events`, `subscriptions`, `organizations`, the ledger and the add-ons of verified bookings | reconcileWebhookEvent, changePlan, cancel, resume | Lemon Squeezy, credit ledger, plans | duplicated, late, overlapping and failed events; the owner's request between provider and row | each event applied once at most, in order the row and the organization are what the events told, add-on credits paid for, included credits not taken back |
| Credit ledger and add-on grants (`billing/*-addon-grant.service.ts`, `credit-reconciliation.ts`) | `sms_credits`, `verified_booking_credits`, add-on rows | grant, refund, monthly upgrade | metering, OTP sending, billing | read, compute, write back | no credit lost or made up |
| AI guardrails (`ai/*`) | in memory: claimed keys, rate windows, slots; in the database: `ai_usage_events` | checkAndExecute, executeWithGuardrails, executeResponsesToolLoopWithGuardrails, recordUsage | the model's provider, assistant | checks and claims in memory around awaits, a restart forgets them, usage is recorded after the call | a window admits what the plan says, no slot is lost, the month's overrun is bounded, every request ends |
| Assistant and its mutations (`help/*`) | none: a proposal is a token, signed, good for five minutes | propose a change, confirm it | AI guardrails, appointments, customers | a token confirmed twice or late; staff change the row between proposal, check and write | what it does staff could do; what a confirmation compares it changes once, and one that is checked after the change writes nothing |
| Authentication, workspaces, licensing | accounts, e-mail codes, passwords, sessions, seats, challenges | sign-up, sign-in, reset, activate | - | stale counters of attempts, seats checked before they are taken | bounded attempts, seat limit |
| Operations alerts, imports, CRM, plans and guards, promos and insights, web application, shared packages, tooling | see `PROJECT.json` | | | mostly single-row reads and writes, user interface, or no running code | |

`PROJECT.json` lists each of them with its sources, its status and the hazards at their lines.

## Modules

| Module | Role |
|---|---|
| `SlotBook` | Abstract: what public booking promises about a calendar, with no holds' clocks, requests or locks. |
| `Booking` | `booking_holds` and `appointments` of one business and the requests that write them. Implements `SlotBook`. |
| `VisitLifecycle` | Appointments from booking to recorded visit, the customer's visit count, and the cron passes. |
| `ManualBilling` | Client requests, billing requests, payments, grants and the SMS ledger that metering uses up. |
| `OtpSend` | The sending of one-time codes: a hold's limits, the rate limits over the log of sends, the ledger of verified-booking credits. |
| `MessageLife` | Abstract: the stages of a message, what the provider took and what it cost, whoever writes them. |
| `Dispatch` | Automated SMS: automations and their markers, `message_events`, the Semaphore call, metering, reconciliation and manual follow-ups. Implements `MessageLife`. |
| `WebhookInbox` | Abstract: what the table of processed webhook events promises, to whoever delivers. |
| `BillingWebhooks` | The provider's subscriptions, orders and refunds, the deliveries of their events, and the owner's requests, on the subscription, the organization and the verified-booking ledger. Implements `WebhookInbox`. |
| `AiGuardrails` | What a request to the model passes: idempotency, rate windows, slots, budget; the calls themselves, with and without tools; the usage. |
| `DeliveryCallbacks` | The reports of Twilio and Resend on a message, and the customers' STOP. Implements `WebhookInbox`. |
| `AssistantConfirm` | The assistant's proposals and their confirmation. Extends `VisitLifecycle`, whose variables and actions it shares and whose specification it implements. |
| `BookingProofs`, `VisitLifecycleProofs`, `ManualBillingProofs`, `OtpSendProofs`, `DispatchProofs`, `BillingWebhooksProofs`, `AiGuardrailsProofs`, `DeliveryCallbacksProofs` | Theorems about the concrete modules, for all values of their constants; `VisitLifecycleProofs` has those about `AssistantConfirm` too. |
| `MCBooking`, `MCVisitLifecycle`, `MCManualBilling`, `MCOtpSend`, `MCDispatch`, `MCBillingWebhooks`, `MCAiGuardrails`, `MCDeliveryCallbacks`, `MCAssistantConfirm` | Instances for TLC (symmetry sets, limits); the `.cfg` files beside them are the runs. |

### How code becomes actions

- A database statement, or a transaction that holds the lock on everything it decides by, is
  one action. A handler with several statements is several actions joined by a record in `req`
  or `worker` that holds the step it is at and exactly the values it has read (the local
  variables of the TypeScript code). Between two of them any other action may happen.
- The transactions of `createHold` and `verifyAndConfirm` take `pg_advisory_xact_lock` on the
  slot first and PostgreSQL runs them at READ COMMITTED: each statement after the lock sees
  all that was committed by earlier holders. Of the rows they decide by, the other lock
  holders write nothing meanwhile, so the transaction is one action, `CreateHoldTx` or
  `ConfirmTx`. Staff writes and the PIN override take no lock; they can commit between the
  check and the insert of a locked transaction. Seen from the calendar this is the same as
  committing just after it: they insert or move a row without looking at the slot, and the
  properties are stated for bookings made under the lock.
- `completeAppointmentAndRecordVisit` reads its row `FOR UPDATE`, so it is one action too.
- In `ManualBilling` no row is locked. The checks a transaction begins with are one action,
  its read of the ledger another, and its writes a third: they become visible together, and
  the unique keys of the schema (`manual_billing_fulfillments` per item, `sms_credits` per
  month) are guards of the commit, because a violated key rolls the transaction back.
- `Abort(r)` ends a request between two statements: the process stops, a query fails, the
  provider throws. What was written stays written.
- Rows and values are model values; `NoRow` is a row that does not exist. Variables whose
  comment says *history* record what happened for the properties and are never read by an
  action.

### Booking

`hold[h]` is a row of `booking_holds`: its status, slot, expiry and count of wrong codes.
`appt[a]` is a row of `appointments`, with every status that leaves the slot free collapsed to
"off". `createHold` is `CreateHoldBegin` (the clock is read and the expiry fixed) and
`CreateHoldTx` or `CreateHoldConflict` (under the lock). `verifyAndConfirm` is `VerifyBegin`
(the hold is read and checked), then the provider's verdict: `VerifyInvalid` writes the count it
read plus one, `ConfirmTx` or `ConfirmConflict` is the locked transaction; `VerifyFindsExpired`
and `ExpireHold` are the path of an expired hold. `confirmWithPinOverride` is the five `Pin...`
actions, one per statement. Staff and cron writes are reduced to what they do to slots.
Sending the code changes other columns of the hold, which `OtpSend` has.

`SlotBook` says the same calendar with two sets per slot. The mapping takes `reserved[s]` to the
live holds of `s` and `booked[s]` to the OTP bookings that stand on it; time passing is `Lapse`,
rewriting an appointment is `Release`, and every other step is `Reserve`, `Book` or a stutter.

### VisitLifecycle

`update` is `RescheduleBegin` and `RescheduleWrite`; `updateStatus` is `UpdateStatus` or, to
completed, `StaffCompletes`; `stampVisit` reads and writes in two steps. A cron pass reads a batch
(`PassReads`), then treats one row at a time (`PassCompletes`, `PassSendsToReview`); a row's
failure is caught and logged, a stopped process loses the rest of the batch (`PassFails`). Two
passes may overlap, because two API processes each run the scheduler.

### ManualBilling

`client`, `bill`, `payment`, `fulfilled` and `sms` are tables; `worker[w]` is a request of an
admin or a client, or a dispatch that is being metered. Approving a client request is three
actions: the request is read, a billing request made by its own transaction, the two linked by
an update that names the statuses it accepts. Confirming is `ConfirmBegin` (payment, request,
amount and fulfilment are checked), `GrantReads` (the ledger) and `ConfirmCommit`. Adjustments
share `GrantReads`. Metering is an atomic increment, as in the code. Amounts are abstracted to
"is the request's total or is not". One kind of item is modelled, the SMS top-up.

### OtpSend

`sendOtp` runs without a transaction, so each of its statements is an action: `SendBegin` reads
the hold and applies its cooldown and limit, `EnsureCredits` and `OpenLedger` read or insert the
month's ledger, `CheckLimit` is one of the three rate queries, `ProviderAccepts`,
`ProviderRejects` and `ProviderUnknown` are the outcomes of the provider call, and
`RecordOnHold`, `Charge` and `LogSent` write the hold, the ledger and the log with the values read
before the call. A refused request writes a log row of its own (`LogBlocked`). The add-on grants
that write the same ledger, wrong codes and the end of a hold are the other writers.

The holds are those of one customer with one business, asking from one address, so every row of
`log` counts for every check. A rate query reads at most `Limit + Slack` rows in no order:
`Seen(c, at)` is the set of counts it may come to. `delivered` records the codes that went out
and `clean[h]` whether the sends of a hold have come one after another; both are history.

### Dispatch

A reminder is one automation key of one appointment, with its marker
(`appointments.reminder24hSentAt` and its like). A worker is a job, a request or a row of a
reconciliation batch. `sendAppointment...` and `dispatch` are `SendBegin` (or `RetryBegin`, for a
follow-up), `CheckCap`, `QueueEvent`, an outcome of the provider call, then `RecordSent`, `Consume`,
`InsertUsage` and `MarkSent` (or `AttachRetry`), or `RecordFailed` and the follow-up's
`FollowUpReads` and `InsertTask`. `Abort` stops a worker between any two of them. The outcomes are
those `SemaphoreSmsProvider` tells apart: taken, rejected, rejected although the message was taken
(an error status whose body has the message's id, or an answer without one), busy with one
retry, and unknown. Busy is believed to mean not taken, as the code believes it.

The reconciliation job is `PassReads`, `Poll` and one of `UpdateDelivery`, `Repair` and
`ConfirmFailure`. Its batch is read at once and treated row by row; rows of a batch are separate
workers here, which only adds orders. `repairFalseRejection` is one statement and one more in a
transaction, under a lock on the row: one action. `fate` is what the provider would
answer: it moves on from queued to sent or failed at any time, so an answer is out of date as
soon as it has been read. Follow-ups that the job dismisses itself have a status of their own,
"repaired", which in the code is "dismissed" with the reason `false_provider_rejection_repaired`.

`MessageLife` says of this what the records promise. A message's stage is its row's status, or
"dead" once a failure was confirmed; `taken` are those the provider has accepted, and `charges` the usage
rows. The outcomes of the provider call are its `Take`, the updates after it `Send` and `Fail`,
`InsertUsage` its `Charge`; the reconciliation's `Repair` and `ConfirmFailure` are named alike, and
everything about workers, markers, caps and follow-ups is a stutter.

Every message costs one credit of one month; the plan, consent and daily caps that refuse a
message are one choice of `CheckCap`. E-mail and Twilio are left out; their reports are in
`DeliveryCallbacks`.

### BillingWebhooks

The provider is three actions. `Subscribes` and `StatusChanges` change what the customer pays for
and `OtherEvent` stands for orders, refunds and what the code ignores; each adds to `event`, in
the order things happened. A worker may take any of them at any time and more than once: `Claim`
inserts the row of `processed_webhook_events`, which the unique key allows once, and everything
after it is `reconcileWebhookEvent`. For a subscription that is `ReadSubscription`,
`WriteSubscription` and `CommitSubscription`: the row is upserted before the ledger is read, so from
then on the transaction holds its lock, and `NobodyWrites` is that lock. A paid order is
`ReadGrant` and `CommitGrant`, a refund `ReadRefund` and `CommitRefund`, which write back the
ledger as it was read. `CommitNothing` is an event without effect, `MarkClaim` the last update of
the claim, and `Fail` a failure or a stop between any two: the transaction is rolled back and the
claim stays. `UseCredit` is a booking, `NextMonth` the calendar.

The owner's `changePlan`, `cancel` and `resume` are `BeginRequest` (the row is read), `CallProvider`
(the provider changes, and emits its event), and `RecordSchedule` or `MarkPending`, which write
what the page shows until the event is there; `Abort` stops one in between.

A subscription row has its plan, its interval and the scheduled pair of both in columns of their
own. `Price[p][i]` is the catalog, `Offers` are the plans with intervals on sale, `Included` is what a
month of a plan contains. What an event stands for is `Named`: the plan of `custom_data`, else that of
the variant, else the row's, else free; `LeftOut` is what the events may omit (the variant, the end of
a cancelled subscription, the period) and `Reported` which of the seven statuses occur. `custom_data`
names plan and interval together or neither, as `createSubscriptionCheckout` writes it. `NextRow` is
the row that is written: on a scheduled downgrade the *plan* waits, while the interval is the
event's at once (`billing.service.ts:656,667`). `MapOrgBillingStatus` is the function of that name,
clock included. A *stray* event has no `organization_id` and is processed without effect.

`WebhookInbox` needs two variables of this: `taken` is the set of deliveries with a claim and
`effects` counts the commits.

### AiGuardrails

The caches, the windows and the slots are maps in one process's memory, and JavaScript runs
each stretch between two awaits alone: those stretches are the actions. `CheckKey` is the
idempotency check with its claim, `Allow` the rate limiter (both windows), `Acquire` the slot,
`CheckBudget` the month's count from the database, at whose end the slot is given back: the
code frees it before the model is called. `AsksTools`, `RunTools` and `Answer` are the model's call,
once or in the loop of `executeResponsesToolLoopWithGuardrails` with its limits, `Record` the insert
of the usage.
`Throw` is an exception at any await, with what the `finally` does; `Restart` loses the memory and
all requests, and keeps the database. `claims` and `admitted` are history: what passed the first
two checks within the last window.

### DeliveryCallbacks

`Reports` is something happening to a message, in no order. `Receive` is the delivery of a
report, as often as it is not answered and before the row knows the provider's id too
(`RecordSent` is the dispatch storing it); for Resend it inserts the claim, and a second delivery
is answered and dropped. `ReadMessage` looks the row up by that id and `WriteStatus` writes it if
what was *read* allowed it: two statements, between which another report may write. `Fail` marks a
claim failed or leaves it as it is.

STOP is `Match`, which finds the rows with the number, then `OptOut` and `LogConsent` for each,
one after the other, then `AnswerStop`; after `FailStop` the provider sends it again, and rows that
are opted out already are then passed over. Customers are added and anonymized meanwhile.
`raced`, `missed`, `first`, `unlogged`, `covered` and `written` are history.

Resend's reports are claimed in the same table as the billing webhooks, so both modules implement
`WebhookInbox`: here `taken` is the set of reports with a claim, and `effects` counts how often a
report of a claimed kind was written to its row.

### AssistantConfirm

`executeTool` makes a proposal: `ProposeUpdate` and `ProposeReschedule` read the row, compare the
change with it, and `Issue` a token with what was read, what is to be written and an expiry.
Nothing is stored, so a token can be confirmed as often as it lives. `Confirm` is the signature,
the expiry and `MayChange`, the comparison of the row with the token. A customer is then
written by `UpdateCustomer`. An appointment goes through
the services of the staff: `UpdateReads` and `UpdateWrites` *are* `RescheduleBegin` and `RescheduleWrite`
of `VisitLifecycle`, with the notes beside them, and `UpdateRefuses` its refusals; `Drop` is a
failure. `EditCustomer` and `EditNotes` are staff at the same rows, and `VisitsGoOn` is every step
of `VisitLifecycle` that is not a confirmation's. So a confirmation adds no way to write an
appointment that staff do not have, and that `AssistantConfirm` implements `VisitLifecycle` is
what `ActsAsStaff` says. `inEffect` is history: the tokens that took effect while their row is as
they left it. `ConfirmedOnly` says that a confirmation of one of these leaves what it compares as it
is, also when two were checked before either wrote, and that one checked after the change writes
nothing. The first of these is weaker for a reason: of two that were checked together, the second
writes the status back to scheduled, which the code does not compare.

## Runs

| Run | Instance | Shows |
|---|---|---|
| `booking` | 1 slot, 2 holds, 2 appointments, 2 requests, hold life 1 tick, clock to 2 (215,180 states) | no double OTP booking, holds and bookings agree, the lockout's overrun, refinement of `SlotBook` (and so no two live holds of a slot) |
| `booking_reserved` | the same | *violated*: a held slot is not reserved against a verification that outlived its own hold |
| `visits` | 2 appointments, 1 staff request, 2 passes, 3 edits, 1 fault, clock to 2 (263,005 states) | visits accounted, counts not inflated, cancelled visits never counted, due rows settle |
| `manual` | 1 client request, 2 billing requests, 2 payments, 2 workers, 1 adjustment, 1 message | one payment per fulfilment, credits backed, approvals linked |
| `otp` | 1 hold, 2 requests, 3 log rows, 3 codes, add-on of 2 credits, clock to 2 (1,068,828 states) | the overrun of the rate limits, no charge without a code, limits of a hold under sends in sequence |
| `dispatch` | 1 reminder, 2 messages, 2 workers, 2 credits, daily limit 2 (767,658 states) | charges backed, every failure followed up, one message while sends do not overlap, refinement of `MessageLife` |
| `dispatch_hidden` | 1 message, 1 worker | *violated*: the follow-up of a confirmed failure stays dismissed |
| `webhooks` | 2 subscription rows, 2 orders, 2 deliveries in process, 1 request of the owner, 2 events, 2 offers of different intervals, 4 statuses, 2 months, 1 fault (1,091,600 states) | `WebhookInbox` implemented, add-on credits backed, included credits never fall, pending markers wait for an event not overtaken, and in order the row and the organization are what the events told |
| `webhooks_downgrade` | 1 row, 1 delivery at a time, 3 events, 2 monthly offers, no faults | *violated*: a scheduled downgrade takes effect when its month comes |
| `ai` | 2 requests, 2 users and keys, window of 2 ticks, every quota 1, 3 starts, clock to 2 | windows admit what the plan says, no slot is lost, the month's overrun, every request ends |
| `callbacks` | 2 messages (one of each provider), 2 customers, 2 report handlers, 2 STOPs, 2 reports, 1 fault (52,147 states) | final statuses hold, refinement of `WebhookInbox`, an answered STOP opts out and logs everyone it found |
| `assistant` | 1 appointment, 1 customer of 2 columns, 1 token, 2 confirmations, 1 staff request, 1 pass (444,906 states) | the refinement of `VisitLifecycle`, what a confirmation compares changes once, and a confirmation that is checked after the change writes nothing |

Why the bounds are enough: a conflict needs two rows of a kind and two requests, and every race
above is between two actors; a third hold or request adds interleavings of pairs. The contested
slot is the interesting one: a second slot only adds the reschedule between slots, and the
theorems cover any number. The clock needs three values so that a hold is alive, at its expiry
instant and past it; `VisitLength` 1 does the same for deadlines. Three edits are what the
longest known bad sequence needs (complete, set back, check in); a fault budget of one lets a
pass fail and the next one recover. Top-ups are of two units so that a correction of minus one
does not cancel one. Every safety property, action property and refinement of the passing runs is
also a theorem, without bounds on rows and requests; only the two liveness properties are not.

In `otp`, mobile and business have a limit of one and a slack that covers the whole log, so that
two requests can overrun them by one; the address has no slack, so that its query leaves rows
out. Three codes are one more than `MaxSends`. In `dispatch` the second message is what an
overlapping send, a retry or the next job makes of the same reminder; a third one adds nothing to
a pair of workers.

In `webhooks` two events are the least that can come out of order, be processed at once, or race
the owner's request, and an add-on bought and refunded are two; a third event is in
`webhooks_downgrade`, where the first two make the subscription and schedule its downgrade. The two
offers of `webhooks` are the cheaper plan a year and the dearer one a month, and a year of the first
costs more: so moving up in plan is a scheduled downgrade, and plan and interval part. Its events may
leave out variant and end; in `webhooks_downgrade` they may leave out the period. Trialing, unpaid and
paused, which no decision tells from the statuses there, are in the theorems only; so are events
that leave all three out. Three events and three offers with one delivery at a time (1.4 million
states) hold too. In `ai` quotas of one are met at once, so that the organization's limit shadows
the user's, and a window of two ticks has an inside and an edge. `manual` has one client request:
that two approvals never share a bill, the last part of `ApprovedHasBill`, is the theorem's. `callbacks` has
the constraint `OneOfTheTwo`: reports and STOPs touch different tables and share only the bound
on faults, so a behaviour has one or the other (three reports, 2.7 million states, hold too). In
`assistant` a token lives for less than a tick, so that any tick makes it late; two tokens, 3.9
million states, hold too. `VisitLength` is 0 there so that one tick makes an appointment due.

Fairness is assumed twice. `FairSpec` of `VisitLifecycle` has weak fairness of each pass:
`@Cron` starts one every five minutes and a pass goes through its list. It says nothing of staff,
of the clock or of failures, which are bounded. `BatchLimit` equals the number of rows in that
run; in the code it is 500 of an unordered query, and with more stuck rows than that others
could starve. `FairSpec` of `AiGuardrails` has weak fairness of each request's next step: an
await is answered, by a result or an exception, and the loop with tools has its limits.

Deadlock is checked in the runs of `Booking`, `VisitLifecycle` and `ManualBilling`, where staff can
always act and no model may stop. In the others the bounds on rows, events, codes and time end
every behaviour.

Several properties leave out, by a history variable or by what they bound, the half of a hazard that
the code does not prevent. They say what can be relied on, and would not notice if that half got
worse:

| Property | What it leaves out |
|---|---|
| `SequentialSendsLimited` | `clean`: sends of a hold that overlapped, or whose request stopped or lost the provider's answer |
| `RollingLimitBounded` | limits whose query does not read the whole log |
| `NeverOvercharged`, `CreditsBacked` | upper bounds: charges, grants and uses that overlapping writes forget |
| `SentOnceInSequence` | `clean`: sends of a reminder that overlapped or whose worker stopped |
| `FailuresFollowedUp` | `killed`: follow-ups lost with a stopped worker |
| `VisitsAccounted` | `unrecorded`: a completion whose record a reschedule in flight clears, and which counts again |
| `HoldsAndBookingsAgree` | holds written off as expired after they were booked |
| `VerifiedFulfils`, `ApprovedHasBill` | the status that a late reject or void writes over a fulfilled request; bills whose approval stopped before the link |
| `OrderlyIsFaithful` | `orderly`: events claimed before the ones before them were processed |
| `PendingWaits` | `overtaken`: a marker set after its event was applied; organizations with two rows |
| `FinalStatusHolds` | `raced`: reports between read and write at once; `missed`: reports claimed and lost |
| `ConfirmedOnly` | what confirmations checked at once do to the status, which the code does not compare |

## Proofs

All theorems hold for arbitrary sets of rows, requests and slots and arbitrary limits; the
assumptions are the `...Assumption` of each module (the constants are numbers, the null values
are not rows, requests or bills are finite where something is counted).

- `BookingProofs`. `TypeInv` adds to the types that every request in flight names rows that
  exist and has read a count below the limit. From it: `LiveHoldsExclusive`, whose
  strengthening says that whatever was, or is about to be, written off as expired has expired
  (`ExpiryInv`), so that no write brings a hold back to life; `OtpBookingsExclusive`, because a locked
  insert is the only step that adds a booking and it sees the slot empty; `HoldsAndBookingsAgree`,
  which needs what the PIN path has inserted before it confirms; `PinLockoutBounded`, by counting
  requests past the lockout check; and, from these, that every step refines `SlotBook`.
- `VisitLifecycleProofs`. `VisitsAccounted` and `CountNotInflated` are inductive together with the
  fact that a stamp in flight has read no more than the visits there were; `NoVisitForCancelled` is
  proved for each step from the types. With the assistant, every step is shown to be a step of
  `VisitLifecycle` or to leave its variables alone (`ActsAsStaff`), and so these three hold there
  too, as corollaries. `ConfirmedOnly` is not inductive: `AssistantInv` adds that a token in effect
  *shows* in its row (`InEffectShown`), so that a confirmation of an appointment that comes later is
  refused, and whatever is written again, of a customer or by two confirmations that were checked
  together, is what is there (`WrittenAgain`);
  that a confirmation in flight is of its token's kind, and after its read has in hand the
  request of staff that the token asks for (`ConfirmsMatch`); and that no token empties a required
  column (`NamesKept`), which is what keeps the customer's types.
- `ManualBillingProofs`. Types need `InFlight`: the payment that a request is about to settle
  exists and is of the right amount, and the ledger it read is still there. `VerifiedFulfils` is
  inductive with it. `CreditsBacked` needs that no ledger *read* by a grant in flight has more
  than has been added so far (`ReadsBacked`), and that this backing only grows. `ApprovedHasBill`
  needs that a bill waiting to be linked exists and is nobody else's (`LinksFresh`).
  `DecisionsStay` follows from the types and the guards of the updates.
- `OtpSendProofs`. `TypeInv` adds that a request in flight has read a count below `MaxSends` and
  a ledger row that exists, so whatever overlaps, no hold records more than the limit.
  `NeverOvercharged` needs the same of every use that a request has read and will write back,
  one less before its code is delivered (`ChargeInv`). `RollingLimitBounded` counts, for each check, the sends in its
  window together with the requests that have passed the check and not yet logged their send
  (`RollingInv`); the window only moves on, and what a request counted cannot shrink below it
  while every row is read. `SequentialSendsLimited` needs that a hold whose sends came one after
  another has at most one request in flight, which has read the current count and cooldown
  (`SequenceInv`).
- `DispatchProofs`. `TypeInv` adds that what a worker or a follow-up points at exists.
  `RowsSound` is what rows and the workers that have them in hand know of each other: only the one
  worker that dispatches a message finds it queued, a message with an id was taken by the
  provider, a confirmed failure has an id and so is out of a repair's reach. From it:
  `ConfirmedFailuresStay`, `MarkersMeanTaken` and `FailuresAreFollowedUp`. `ChargesAreBacked`
  compares the credits taken with the messages that no worker is going to charge any more
  (`Settled`): each charge, by a dispatch or by a repair, adds one to them, and none leaves. The
  refinement of `MessageLife` is proved action by action, from these and from `IdSound`: a row that
  has the provider's id is of a message that was sent, or is dead, so that no stale answer moves
  it back (`LifeInv`). That a failed message was never charged (`FailedIsFree`) is then proved of
  `MessageLife` alone and carried over.
  `RemindersAreSentOnce` needs that a reminder in order is sent by one worker at most, before
  whose message none was taken, and that a message taken is in its hands or marked (`Once`).
- `BillingWebhooksProofs`. `TxnInv` says of each transaction in progress that its delivery is
  claimed and has no effect yet, that the rows it has read are still there, and that the one that
  holds the lock has read what its month includes now. From it follow `IncludedNeverFalls`, each
  write being a maximum of what is there, and the implementation of `WebhookInbox`. `AddonBacked`
  needs that no ledger read by a grant or a refund in progress has more than has been bought by
  now, and that while events come one after another it is the current one (`CreditInv`).
  `OrderlyIsFaithful` says of a row what the events told (`AsTold`): its interval is the last one
  told, and its plan the last one told or an earlier, dearer one, after which every event that told a
  plan was active. It needs that the row is so for the events applied until now (`LastApplied`), that
  the worker has read that row, and that the row it is about to write is so for those events and its
  own (`SeenRows`; both in `FaithInv`). It is not claimed that the plan is the one paid for:
  `webhooks_downgrade` refutes that.
  `PendingWaits` needs that requests that have called the provider and not yet written their
  marker wait for an event as well (`Waits`). `EffectsCommittedOnce` carries `AppliedOnce` over from
  `WebhookInbox`.
- `AiGuardrailsProofs`. `SlotsMatch` counts the requests between `Acquire` and the release.
  `BudgetOverrun` counts the rows there are together with those to come from requests past the
  budget's check (`RowsToCome`). `AdmissionsBounded` maps every admission of the last minute to a
  ticket of its own in the window of its user and in that of the organization, whose sizes the
  limiter compares with the quotas (`AdmissionInv`). `ToolLoopIsBounded` says that no request
  passes either limit of the loop with tools; from it, `RequestsRunOut` bounds the steps left to
  a request (`StepsLeft`, two for every round) and shows that each step it makes leaves fewer.
  That is what `RequestsEnd` rests on besides the fairness.
- `DeliveryCallbacksProofs`. `FinalStatusHolds` needs that, where reports have not overlapped, a
  message has one writer and its status is not final yet (`OneWriter`, `NotFinalYet`), and that a
  claimed report is answered, in a handler's hands or taken away. The refinement of `WebhookInbox`
  needs that whoever has a claimed report has it alone and has not written it, and that nothing is
  written before it is claimed (`ClaimInv`). `OptOutHolds` needs that the rows
  a STOP has passed are opted out or anonymized, and that whatever is opted out is logged or in
  the hands of a handler that will.

Some theorems are of properties that no run repeats: `HoldsExclusive` (`Booking`), which
`SlotBook` includes; `DecisionsAreKept` (`ManualBilling`); `ConfirmedFailuresStay`, which
`MessageLife` includes, and `MarkersMeanTaken` (`Dispatch`); `AssistantTypeCorrect`; the two about
the loop of tools; and the corollaries that an implementation inherits from its abstraction
(`FailedMessagesAreFree`, `ReportsWrittenOnce`, `EffectsCommittedOnce`, `AssistantVisitsAccounted` and
its like).

Not proved, only checked: liveness (`DueRowsSettle`, `RequestsEnd`), since neither fairness nor
ENABLED is within the prover's reach.

## Findings

Each violated run quotes the promise it refutes and `PROJECT.json` has the lines.

- `booking_reserved`: a verification that outlives its hold takes the slot of the customer who
  holds it by then.
- `dispatch_hidden`: a message whose rejection was repaired and which then fails has no follow-up
  that anybody sees.
- `webhooks_downgrade`: a downgrade scheduled for the end of the period is scheduled again by the
  event that should bring it about, so the old plan stays.

The following came up while modelling. They are part of what the modules describe, and no
property claims the contrary:

- *Booking.* `confirmWithPinOverride` and the staff's create look for a conflict without the lock, or
  not at all, and so can double-book.
- *Visits.* A pass writes needs_review by the status alone, though the time it judged by may have
  changed. A visit set back from completed and checked in again is never completed: its record
  stays. The batch is 500 rows in no order. A reschedule that races a completion clears the
  record, and the visit counts twice.
- *Codes.* A rate query reads a limited number of rows in no order, so a long log hides sends.
- *Credits.* Of two overlapping SMS grants one is lost. A grant before the month's first message
  makes a ledger without the plan's credits, of SMS and of verified bookings.
- *Dispatch.* Caps are checked before the call and charged after it, so overlapping sends overrun
  them. Two retries of one follow-up both send.
- *Manual billing.* A client can have two open requests; the next reference number is taken from
  the row created last, whose time is that of its transaction's start; and the months that a request for a plan covers are
  computed when it is made, so two made before either is paid cover the same ones.
- *Subscriptions.* A claim whose processing failed or stopped is never retried. A plan in
  `custom_data` is preferred to the variant's, so that an upgrade by changePlan may never show. A
  scheduled downgrade keeps the plan and takes the new interval (`billing.service.ts:656,667`): from
  growth a year to pro a month the row says growth a month, which is on nobody's bill and cheaper
  than pro, so the next event counts as an upgrade and applies at once. An event that names no
  plan, for an organization without a row, makes an active subscription of the free plan. An organization
  whose subscription is cancelled without a date in the future reads `subscription_expired` and
  keeps the plan, until an event says expired.
- *AI.* The slot is given back before the model is called, so that it limits the checks and not the
  calls: `checkAndExecute` releases it in its `finally` (`ai.service.ts:54-62`). The comment of
  `executeWithGuardrails` (`ai-execution.service.ts:57`) lists concurrency before the model call and
  does not say how long a slot is held.
- *Callbacks.* Two overlapping reports overwrite each other's final status, a complaint after
  delivered is ignored, and a customer who gets the number after its STOP is not opted out.
- *Assistant.* A confirmation does not compare the status: a cancelled appointment is rescheduled,
  and of two confirmations checked at once the second sets a customer who has arrived in between
  back to scheduled.
  Edits between its check and its write are overwritten in the proposed columns. A change that
  clears a column is reported as out of date when it is sent again. A confirmed time may be up
  to five minutes past.

## Not modelled

Formatting, templates, e-mails and audit rows; phone and name matching; queries that only read;
the web application, which is most of the code by size and keeps no state that others share. Of
the modelled components, `PROJECT.json` names what is left out of each: items of manual billing
other than SMS top-ups, the token sums and daily caps of the AI budget, the e-mail branch of the
dispatch, the choice of rows that automations are due for.

Sign-up, sessions, licensing, alerts, imports, the CRM, promos and loyalty are single-row reads
and writes: each is one or two statements under a unique key, or a check followed by a write of the
shape that `Booking`, `OtpSend` and `ManualBilling` have, and no other component decides by them.
