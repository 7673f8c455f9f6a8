---------------------------- MODULE DeliveryCallbacks ----------------------------
(***************************************************************************)
(* What the providers tell the application about its messages.  Twilio and *)
(* Resend report what became of a message, in any order, possibly before   *)
(* the row of the message knows the provider's id, and again until they    *)
(* are answered; Resend's reports are claimed in processed_webhook_events  *)
(* first.  Twilio also delivers the customers' STOP, which opts out every  *)
(* row with the number, one after the other.  Each statement is an action; *)
(* handlers overlap, fail and stop anywhere.                               *)
(***************************************************************************)
EXTENDS Integers, FiniteSets

CONSTANTS Messages,    \* rows of message_events that a provider accepted
          Claimed,     \* those sent through Resend, whose reports are claimed
          Customers,   \* rows of customers that have, or may get, the number
          Workers, Stops,   \* handlers of reports, and of STOP
          MaxReports,  \* bound: reports of the providers
          MaxFaults    \* bound: failures and crashes

ASSUME CallbackAssumption == /\ Claimed \subseteq Messages
                             /\ MaxReports \in Nat /\ MaxFaults \in Nat

VARIABLES report,     \* at the providers: what was reported
          reported,   \* how many reports there are
          answered,   \* reports that the provider need not deliver again
          claim,      \* processed_webhook_events
          known,      \* rows that have their provider's id
          delivery,   \* message_events.delivery_status
          worker,     \* where each report in process is, and what it read
          customer,   \* customers: whether the row has the number, is opted out, is anonymized
          log,        \* consent_audit_logs: entries of a customer
          stop,       \* where each STOP is, and the rows it has still to do
          faults,
          raced,      \* history: messages two of whose reports were past their reads at once
          missed,     \* history: reports that a fault or an unknown id took away
          first,      \* history: the first final status written
          unlogged,   \* history: customers whose handler stopped between update and log
          covered,    \* history: customers that an answered STOP found
          written     \* history: how many times a report was written to its row

reports == <<report, reported, answered, claim, known, delivery, worker>>
consent == <<customer, log, stop>>
history == <<raced, missed, first, unlogged, covered, written>>
vars == <<reports, consent, faults, history>>
-----------------------------------------------------------------------------
\* failed: failed, bounced and rejected; unmapped: what mapToDeliveryStatus has no word for.
Final == {"delivered", "failed"}
Mapped == {"queued", "sent"} \cup Final
Statuses == Mapped \cup {"unmapped"}
Ids == 1..MaxReports
NoReport == [message |-> "none"]
Idle == [step |-> "idle"]

Task == [step : {"read", "write"}, id : Ids]
StopTask == [step : {"match", "update", "log"}, todo : SUBSET Customers, found : SUBSET Customers,
             doing : SUBSET Customers]

Goto(w, state) == worker' = [worker EXCEPT ![w] = state]
At(w, step) == worker[w].step = step
Report(w) == report[worker[w].id]

Init == /\ report = [i \in Ids |-> NoReport] /\ reported = 0 /\ answered = {}
        /\ claim = [i \in Ids |-> "none"]
        /\ known = {} /\ delivery = [m \in Messages |-> "none"]
        /\ worker = [w \in Workers |-> Idle]
        /\ customer \in [Customers -> {"absent", "in", "out"}]
        /\ log = [c \in Customers |-> IF customer[c] = "out" THEN 1 ELSE 0]
        /\ stop = [s \in Stops |-> Idle]
        /\ faults = 0
        /\ raced = {} /\ missed = {} /\ first = [m \in Messages |-> "none"]
        /\ unlogged = {} /\ covered = {} /\ written = [i \in Ids |-> 0]
-----------------------------------------------------------------------------
(* Dispatch and the providers *)

\* dispatch stores the id that the provider gave the message.
RecordSent(m) == /\ m \notin known
                 /\ known' = known \cup {m}
                 /\ delivery' = [delivery EXCEPT ![m] = "sent"]
                 /\ UNCHANGED <<report, reported, answered, claim, worker, consent, faults, history>>

\* Something happens to a message; no order is promised.
Reports(m) == /\ reported < MaxReports
              /\ reported' = reported + 1
              /\ \E status \in Statuses :
                    report' = [report EXCEPT ![reported + 1] = [message |-> m, status |-> status]]
              /\ UNCHANGED <<answered, claim, known, delivery, worker, consent, faults, history>>
-----------------------------------------------------------------------------
(* handleTwilioStatus and handleResendEvent *)

\* Mutant: a claim that is there does not keep a repeated report out.
Receive_Again(w, i) ==
    /\ worker[w] = Idle /\ i <= reported /\ i \notin answered
    /\ claim' = IF report[i].message \in Claimed THEN [claim EXCEPT ![i] = "processed"] ELSE claim
    /\ worker' = [worker EXCEPT ![w] = [step |-> "read", id |-> i]]
    /\ UNCHANGED <<report, reported, answered, known, delivery, consent, faults, history>>

\* A report is delivered; a Resend report whose id is there already is answered and dropped.
Receive(w, i) ==
    /\ worker[w] = Idle /\ i <= reported /\ i \notin answered
    /\ \/ /\ report[i].message \in Claimed /\ claim[i] # "none"
          /\ answered' = answered \cup {i}
          /\ UNCHANGED <<claim, worker>>
       \/ /\ report[i].message \in Claimed => claim[i] = "none"
          /\ claim' = IF report[i].message \in Claimed THEN [claim EXCEPT ![i] = "processed"]
                      ELSE claim
          /\ Goto(w, [step |-> "read", id |-> i])
          /\ UNCHANGED answered
    /\ UNCHANGED <<report, reported, known, delivery, consent, faults, history>>

Answer(w) == /\ answered' = answered \cup {worker[w].id}
             /\ Goto(w, Idle)

\* Mutant: a final status does not keep another one out.
Relevant_Always(r) == delivery[r.message] # "none" /\ r.status \in Mapped

\* Mutant: a word that mapToDeliveryStatus does not know is written as it came.
Relevant_Unmapped(r) == delivery[r.message] \notin Final

\* A final status stays, and a word without a meaning says nothing.
Relevant(r) == delivery[r.message] \notin Final /\ r.status \in Mapped

\* updateMessageByProviderId looks for the row, and at its status.
ReadMessage(w) ==
    LET r == Report(w) IN
    /\ At(w, "read")
    /\ \/ /\ r.message \notin known
          /\ Answer(w)
          /\ missed' = missed \cup {worker[w].id}
          /\ UNCHANGED raced
       \/ /\ r.message \in known /\ ~Relevant(r)
          /\ Answer(w)
          /\ UNCHANGED <<missed, raced>>
       \/ /\ r.message \in known /\ Relevant(r)
          /\ Goto(w, [step |-> "write", id |-> worker[w].id])
          /\ raced' = IF \E v \in Workers : At(v, "write") /\ Report(v).message = r.message
                      THEN raced \cup {r.message} ELSE raced
          /\ UNCHANGED <<answered, missed>>
    /\ UNCHANGED <<report, reported, claim, known, delivery, consent, faults, first, unlogged,
                   covered, written>>

\* The row is written by its id, whatever its status is by now.
WriteStatus(w) ==
    LET r == Report(w) IN
    /\ At(w, "write")
    /\ delivery' = [delivery EXCEPT ![r.message] = r.status]
    /\ first' = IF r.status \in Final /\ first[r.message] = "none"
                THEN [first EXCEPT ![r.message] = r.status] ELSE first
    /\ written' = [written EXCEPT ![worker[w].id] = @ + 1]
    /\ Answer(w)
    /\ UNCHANGED <<report, reported, claim, known, consent, faults, raced, missed, unlogged,
                   covered>>

\* A statement fails, and a claim is marked so; or the process stops.
Fail(w) ==
    /\ worker[w] # Idle
    /\ faults < MaxFaults /\ faults' = faults + 1
    /\ claim' \in {claim} \cup IF Report(w).message \in Claimed
                               THEN {[claim EXCEPT ![worker[w].id] = "failed"]} ELSE {}
    /\ missed' = IF Report(w).message \in Claimed THEN missed \cup {worker[w].id} ELSE missed
    /\ Goto(w, Idle)
    /\ UNCHANGED <<report, reported, answered, known, delivery, consent, raced, first, unlogged,
                   covered, written>>
-----------------------------------------------------------------------------
(* handleInboundSms *)

Become(s, state) == stop' = [stop EXCEPT ![s] = state]

WithNumber == {c \in Customers : customer[c] \in {"in", "out"}}

\* STOP: the rows with the number are read, with what they say of an earlier STOP.
Match(s) ==
    /\ stop[s] = Idle
    /\ Become(s, [step |-> "update", todo |-> {c \in WithNumber : customer[c] = "in"},
                  found |-> WithNumber, doing |-> {}])
    /\ UNCHANGED <<reports, customer, log, faults, history>>

\* The next row is opted out ...
OptOut(s, c) ==
    /\ stop[s].step = "update" /\ c \in stop[s].todo
    /\ customer' = [customer EXCEPT ![c] = IF @ = "gone" THEN "gone" ELSE "out"]
    /\ Become(s, [stop[s] EXCEPT !.step = "log", !.todo = @ \ {c}, !.doing = {c}])
    /\ UNCHANGED <<reports, log, faults, history>>

\* Mutant: the loop ends at the first row it has to opt out.
Left_None(t) == {}

Left(t) == t.todo

\* ... and that is logged.
LogConsent(s) ==
    /\ stop[s].step = "log"
    /\ log' = [c \in Customers |-> IF c \in stop[s].doing THEN log[c] + 1 ELSE log[c]]
    /\ Become(s, [stop[s] EXCEPT !.step = "update", !.todo = Left(stop[s]), !.doing = {}])
    /\ UNCHANGED <<reports, customer, faults, history>>

\* All are done: the provider is answered.
AnswerStop(s) ==
    /\ stop[s].step = "update" /\ stop[s].todo = {}
    /\ covered' = covered \cup (stop[s].found \cap WithNumber)
    /\ Become(s, Idle)
    /\ UNCHANGED <<reports, customer, log, faults, raced, missed, first, unlogged, written>>

FailStop(s) ==
    /\ stop[s] # Idle
    /\ faults < MaxFaults /\ faults' = faults + 1
    /\ unlogged' = unlogged \cup stop[s].doing
    /\ Become(s, Idle)
    /\ UNCHANGED <<reports, customer, log, raced, missed, first, covered, written>>

\* A customer with the number is added or imported; one is anonymized.
AddCustomer(c) == /\ customer[c] = "absent"
                  /\ customer' = [customer EXCEPT ![c] = "in"]
                  /\ UNCHANGED <<reports, log, stop, faults, history>>

Anonymize(c) == /\ c \in WithNumber
                /\ customer' = [customer EXCEPT ![c] = "gone"]
                /\ covered' = covered \ {c}
                /\ UNCHANGED <<reports, log, stop, faults, raced, missed, first, unlogged,
                                  written>>
-----------------------------------------------------------------------------
CallbackStep(w) == \/ \E i \in Ids : Receive(w, i)
                   \/ ReadMessage(w) \/ WriteStatus(w) \/ Fail(w)

StopStep(s) == \/ Match(s) \/ LogConsent(s) \/ AnswerStop(s) \/ FailStop(s)
               \/ \E c \in Customers : OptOut(s, c)

Next == \/ \E m \in Messages : RecordSent(m) \/ Reports(m)
        \/ \E w \in Workers : CallbackStep(w)
        \/ \E s \in Stops : StopStep(s)
        \/ \E c \in Customers : AddCustomer(c) \/ Anonymize(c)

Spec == Init /\ [][Next]_vars
-----------------------------------------------------------------------------
(* Properties *)

\* Reports, claims and rows stay what their columns allow, and only a row that has its
\* provider's id has a delivery status.
TypeOK ==
    /\ report \in [Ids -> [message : Messages, status : Statuses] \cup {NoReport}]
    /\ reported \in 0..MaxReports /\ answered \in SUBSET Ids
    /\ claim \in [Ids -> {"none", "processed", "failed"}]
    /\ known \in SUBSET Messages
    /\ delivery \in [Messages -> Mapped \cup {"none"}]
    /\ \A m \in Messages : m \in known <=> delivery[m] # "none"
    /\ worker \in [Workers -> Task \cup {Idle}]
    /\ customer \in [Customers -> {"absent", "in", "out", "gone"}]
    /\ log \in [Customers -> Nat]
    /\ stop \in [Stops -> StopTask \cup {Idle}]
    /\ faults \in 0..MaxFaults
    /\ raced \in SUBSET Messages /\ missed \in SUBSET Ids
    /\ first \in [Messages -> Final \cup {"none"}]
    /\ unlogged \in SUBSET Customers /\ covered \in SUBSET Customers
    /\ written \in [Ids -> Nat]

\* Reports that were answered, that no handler is at, and that nothing took away.
Settled == {i \in answered \ missed : \A w \in Workers : worker[w] # Idle => worker[w].id # i}

\* Of a message whose reports do not overlap, the first final status stays, in whatever order
\* the rest comes and however often; and an answered final report has made the status final,
\* unless it came before the row had its id or a fault took it away.
FinalStatusHolds ==
    \A m \in Messages \ raced :
       /\ first[m] # "none" => delivery[m] = first[m]
       /\ (\E i \in Settled : report[i].message = m /\ report[i].status \in Final)
             => first[m] # "none"

\* When STOP has been answered, every row with the number that it found is opted out, and that
\* is logged, unless a handler stopped, or is, between the two: whatever overlapping and
\* repeated STOPs have done.
OptOutHolds ==
    \A c \in covered :
       /\ customer[c] = "out"
       /\ log[c] > 0 \/ c \in unlogged \/ \E s \in Stops : stop[s] # Idle /\ c \in stop[s].doing

\* Of the reports that are claimed, each is taken by one handler at most, and written by it at most
\* once, however often it is delivered, whoever fails, and whether or not the provider was answered.
Inbox == INSTANCE WebhookInbox WITH
            Deliveries <- Ids, taken <- {i \in Ids : claim[i] # "none"},
            effects <- [i \in Ids |-> IF report[i].message \in Claimed THEN written[i] ELSE 0]
ImplementsInbox == Inbox!InboxSpec
=============================================================================
