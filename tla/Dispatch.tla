-------------------------------- MODULE Dispatch --------------------------------
(***************************************************************************)
(* Automated SMS of appointments, from the automation that finds a message *)
(* not sent yet, through MessageDispatchService, the Semaphore provider    *)
(* and the metering of credits, to the marker on the appointment; the      *)
(* reconciliation job that asks the provider what became of a message; and *)
(* the manual follow-ups of failed messages.  Every statement and provider *)
(* call is an action; jobs overlap, and any of them may stop half-way.     *)
(***************************************************************************)
EXTENDS Naturals, FiniteSets

CONSTANTS Reminders,  \* messages to send: one automation key of one appointment each
          Events,     \* rows of message_events
          Workers,    \* jobs and requests at work at once
          NoRow,      \* an event or a follow-up that does not exist
          Automation, \* the origin of a dispatch that is not a retry of an event
          Credits,    \* included and add-on SMS credits of the month
          DailyLimit  \* FOLLOWUP_DAILY_ORG_LIMIT; 0 is no limit

ASSUME DispatchAssumption == /\ IsFiniteSet(Events)
                             /\ Automation \notin Events
                             /\ Credits \in Nat /\ DailyLimit \in Nat

VARIABLES marker,    \* appointments.confirmation_sent_at and its like: is it set?
          event,     \* message_events
          task,      \* manual_follow_up_tasks, unique per original event
          used,      \* sms_credits.used
          usage,     \* sms_usage_events: the number of an event's rows
          fate,      \* provider: what it would answer about the event's message
          accepted,  \* history: how often it took the event's message
          worker,    \* jobs and requests at work: where each is and what it has read
          killed,    \* history: failed events whose follow-up was lost with its worker
          clean      \* history: sends of the reminder came one after another, with plain answers

vars == <<marker, event, task, used, usage, fate, accepted, worker, killed, clean>>
-----------------------------------------------------------------------------
Idle == [step |-> "idle"]

Reasons == {"provider_rejected", "provider_outcome_unknown", "provider_transient_retryable",
            "semaphore_failed"}

\* id: provider_message_id is set; metaId: provider_metadata has a message_id.
Row == [of : Reminders, status : {"queued", "sent", "failed"}, id : BOOLEAN, metaId : BOOLEAN,
        delivery : {"none", "queued", "sent", "failed"}, reason : Reasons \cup {"none"}]

\* repaired: dismissed by the reconciliation job.
Task == [status : {"open", "contacted", "dismissed", "repaired"}, reason : Reasons]

ASSUME NoRowAssumption == NoRow \notin Row /\ NoRow \notin Task

Worker == {Idle}
    \cup [step : {"cap", "queue"}, of : Reminders, origin : Events \cup {Automation}]
    \cup [step : {"send"}, of : Reminders, origin : Events \cup {Automation}, event : Events,
          retries : 0 .. 1]
    \cup [step : {"sent", "consume", "usage", "finish"}, of : Reminders,
          origin : Events \cup {Automation}, event : Events]
    \cup [step : {"failed"}, of : Reminders, origin : Events \cup {Automation}, event : Events,
          reason : Reasons, metaId : BOOLEAN]
    \cup [step : {"followUp", "insertTask"}, event : Events, reason : Reasons]
    \cup [step : {"poll"}, event : Events, id : BOOLEAN]
    \cup [step : {"repair", "deliver"}, event : Events, status : {"queued", "sent"}]
    \cup [step : {"confirm"}, event : Events]

Goto(w, state) == worker' = [worker EXCEPT ![w] = state]

\* On to the next statement with what the worker has read.
Proceed(w, step) == Goto(w, [step |-> step, of |-> worker[w].of, origin |-> worker[w].origin,
                             event |-> worker[w].event])

DispatchSteps == {"cap", "queue", "send", "sent", "consume", "usage", "finish", "failed"}

Sending(w, r) == worker[w].step \in DispatchSteps /\ worker[w].of = r

SentEvents == {e \in Events : event[e] # NoRow /\ event[e].status = "sent"}

Init == /\ marker = [r \in Reminders |-> FALSE]
        /\ event = [e \in Events |-> NoRow]
        /\ task = [e \in Events |-> NoRow]
        /\ used = 0
        /\ usage = [e \in Events |-> 0]
        /\ fate = [e \in Events |-> "none"]
        /\ accepted = [e \in Events |-> 0]
        /\ worker = [w \in Workers |-> Idle]
        /\ killed = {}
        /\ clean = [r \in Reminders |-> TRUE]
-----------------------------------------------------------------------------
(* sendAppointmentConfirmation and its like, and dispatch *)

Begin(w, r, origin) ==
    /\ Goto(w, [step |-> "cap", of |-> r, origin |-> origin])
    /\ clean' = [clean EXCEPT ![r] = /\ @ /\ origin = Automation
                                     /\ \A v \in Workers : ~Sending(v, r)]

\* Mutant: the automation does not look at the marker.
SendBegin_NoMarker(w, r) ==
    /\ worker[w] = Idle
    /\ Begin(w, r, Automation)
    /\ UNCHANGED <<marker, event, task, used, usage, fate, accepted, killed>>

\* The automation reads a row without a marker.
SendBegin(w, r) ==
    /\ worker[w] = Idle /\ ~marker[r]
    /\ Begin(w, r, Automation)
    /\ UNCHANGED <<marker, event, task, used, usage, fate, accepted, killed>>

\* Staff retry an open follow-up, unless its message may have arrived.
RetryBegin(w, e) ==
    /\ worker[w] = Idle
    /\ task[e] # NoRow /\ task[e].status = "open"
    /\ task[e].reason # "provider_outcome_unknown"
    /\ Begin(w, event[e].of, e)
    /\ UNCHANGED <<marker, event, task, used, usage, fate, accepted, killed>>

\* The plan, the customer's consent and the daily caps; a refusal is only recorded.
CheckCap(w) ==
    /\ worker[w].step = "cap"
    /\ \/ Goto(w, Idle)
       \/ (DailyLimit = 0 \/ Cardinality(SentEvents) < DailyLimit)
          /\ Goto(w, [worker[w] EXCEPT !.step = "queue"])
    /\ UNCHANGED <<marker, event, task, used, usage, fate, accepted, killed, clean>>

\* Mutant: the credit is taken with the check, and again when the message is sent.
QueueEvent_Charges(w) ==
    /\ worker[w].step = "queue"
    /\ \/ used >= Credits /\ Goto(w, Idle) /\ UNCHANGED <<event, used>>
       \/ /\ used < Credits /\ used' = used + 1
          /\ \E e \in Events :
                /\ event[e] = NoRow
                /\ event' = [event EXCEPT ![e] =
                      [of |-> worker[w].of, status |-> "queued", id |-> FALSE,
                       metaId |-> FALSE, delivery |-> "none", reason |-> "none"]]
                /\ Goto(w, [step |-> "send", of |-> worker[w].of, origin |-> worker[w].origin,
                            event |-> e, retries |-> 0])
    /\ UNCHANGED <<marker, task, usage, fate, accepted, killed, clean>>

\* canConsume, and the row of a message about to be sent.
QueueEvent(w) ==
    /\ worker[w].step = "queue"
    /\ \/ used >= Credits /\ Goto(w, Idle) /\ UNCHANGED event
       \/ /\ used < Credits
          /\ \E e \in Events :
                /\ event[e] = NoRow
                /\ event' = [event EXCEPT ![e] =
                      [of |-> worker[w].of, status |-> "queued", id |-> FALSE,
                       metaId |-> FALSE, delivery |-> "none", reason |-> "none"]]
                /\ Goto(w, [step |-> "send", of |-> worker[w].of, origin |-> worker[w].origin,
                            event |-> e, retries |-> 0])
    /\ UNCHANGED <<marker, task, used, usage, fate, accepted, killed, clean>>

\* The provider takes the message of e.
Take(e) == /\ accepted' = [accepted EXCEPT ![e] = @ + 1]
           /\ fate' = [fate EXCEPT ![e] = "queued"]

ProviderAccepts(w) ==
    /\ worker[w].step = "send"
    /\ Take(worker[w].event)
    /\ Proceed(w, "sent")
    /\ UNCHANGED <<marker, event, task, used, usage, killed, clean>>

Fails(w, reason, metaId) ==
    Goto(w, [step |-> "failed", of |-> worker[w].of, origin |-> worker[w].origin,
             event |-> worker[w].event, reason |-> reason, metaId |-> metaId])

ProviderRejects(w) ==
    /\ worker[w].step = "send"
    /\ Fails(w, "provider_rejected", FALSE)
    /\ UNCHANGED <<marker, event, task, used, usage, fate, accepted, killed, clean>>

\* The provider takes a message but its answer does not say so plainly.
TakesAnyway(w) ==
    /\ Take(worker[w].event)
    /\ clean' = [clean EXCEPT ![worker[w].of] = FALSE]

\* An error status with the message's id in its body, or an answer without one.
ProviderRejectsFalsely(w) ==
    /\ worker[w].step = "send"
    /\ TakesAnyway(w)
    /\ \E metaId \in BOOLEAN : Fails(w, "provider_rejected", metaId)
    /\ UNCHANGED <<marker, event, task, used, usage, killed>>

\* 429 or 5xx: the code takes the message for not accepted, and so does the model.
ProviderBusy(w) ==
    /\ worker[w].step = "send"
    /\ \/ worker[w].retries = 0 /\ Goto(w, [worker[w] EXCEPT !.retries = 1])
       \/ worker[w].retries = 1 /\ Fails(w, "provider_transient_retryable", FALSE)
    /\ UNCHANGED <<marker, event, task, used, usage, fate, accepted, killed, clean>>

\* The connection breaks, before or after the provider took the message.
ProviderUnknown(w) ==
    /\ worker[w].step = "send"
    /\ TakesAnyway(w) \/ UNCHANGED <<fate, accepted, clean>>
    /\ Fails(w, "provider_outcome_unknown", FALSE)
    /\ UNCHANGED <<marker, event, task, used, usage, killed>>

RecordSent(w) ==
    /\ worker[w].step = "sent"
    /\ event' = [event EXCEPT ![worker[w].event].status = "sent",
                              ![worker[w].event].delivery = "sent",
                              ![worker[w].event].id = TRUE]
    /\ Proceed(w, "consume")
    /\ UNCHANGED <<marker, task, used, usage, fate, accepted, killed, clean>>

Consume(w) ==
    /\ worker[w].step = "consume"
    /\ used' = used + 1
    /\ Proceed(w, "usage")
    /\ UNCHANGED <<marker, event, task, usage, fate, accepted, killed, clean>>

InsertUsage(w) ==
    /\ worker[w].step = "usage"
    /\ usage' = [usage EXCEPT ![worker[w].event] = @ + 1]
    /\ Proceed(w, "finish")
    /\ UNCHANGED <<marker, event, task, used, fate, accepted, killed, clean>>

\* Back in the caller: the automation sets the marker; the retry closes the follow-up,
\* or fails if somebody else has.
MarkSent(w) ==
    /\ worker[w].step = "finish" /\ worker[w].origin = Automation
    /\ marker' = [marker EXCEPT ![worker[w].of] = TRUE]
    /\ Goto(w, Idle)
    /\ UNCHANGED <<event, task, used, usage, fate, accepted, killed, clean>>

AttachRetry(w) ==
    /\ worker[w].step = "finish" /\ worker[w].origin # Automation
    /\ LET e == worker[w].origin IN
       task' = IF task[e].status = "open" THEN [task EXCEPT ![e].status = "contacted"]
                                          ELSE task
    /\ Goto(w, Idle)
    /\ UNCHANGED <<marker, event, used, usage, fate, accepted, killed, clean>>

\* Mutant: the failure is recorded and the caller told, but no follow-up raised.
RecordFailed_NoFollowUp(w) ==
    /\ worker[w].step = "failed"
    /\ event' = [event EXCEPT ![worker[w].event].status = "failed",
                              ![worker[w].event].reason = worker[w].reason,
                              ![worker[w].event].metaId = worker[w].metaId]
    /\ Goto(w, Idle)
    /\ UNCHANGED <<marker, task, used, usage, fate, accepted, killed, clean>>

RecordFailed(w) ==
    /\ worker[w].step = "failed"
    /\ event' = [event EXCEPT ![worker[w].event].status = "failed",
                              ![worker[w].event].reason = worker[w].reason,
                              ![worker[w].event].metaId = worker[w].metaId]
    /\ Goto(w, [step |-> "followUp", event |-> worker[w].event, reason |-> worker[w].reason])
    /\ UNCHANGED <<marker, task, used, usage, fate, accepted, killed, clean>>
-----------------------------------------------------------------------------
(* Manual follow-ups *)

\* Mutant: no reason but the row's.
FollowUpReads_NoFallback(w) ==
    /\ worker[w].step = "followUp"
    /\ Goto(w, [step |-> "insertTask", event |-> worker[w].event,
                reason |-> event[worker[w].event].reason])
    /\ UNCHANGED <<marker, event, task, used, usage, fate, accepted, killed, clean>>

\* createFromMessageEvent reads the row, and then leaves an existing follow-up as it is.
FollowUpReads(w) ==
    /\ worker[w].step = "followUp"
    /\ LET row == event[worker[w].event] IN
       Goto(w, [step |-> "insertTask", event |-> worker[w].event,
                reason |-> IF row.reason = "none" THEN worker[w].reason ELSE row.reason])
    /\ UNCHANGED <<marker, event, task, used, usage, fate, accepted, killed, clean>>

InsertTask(w) ==
    /\ worker[w].step = "insertTask"
    /\ LET e == worker[w].event IN
       task' = IF task[e] # NoRow THEN task
               ELSE [task EXCEPT ![e] = [status |-> "open", reason |-> worker[w].reason]]
    /\ Goto(w, Idle)
    /\ UNCHANGED <<marker, event, used, usage, fate, accepted, killed, clean>>

\* Staff close a follow-up.
Resolve(e) ==
    /\ task[e] # NoRow /\ task[e].status = "open"
    /\ \E status \in {"contacted", "dismissed"} : task' = [task EXCEPT ![e].status = status]
    /\ UNCHANGED <<marker, event, used, usage, fate, accepted, worker, killed, clean>>
-----------------------------------------------------------------------------
(* reconcileRecentMessages: a row of its batch is a worker *)

FalselyRejected(row) == /\ row.status = "failed" /\ row.reason = "provider_rejected"
                        /\ ~row.id

Candidate(row) == \/ row.id /\ row.delivery # "failed"
                  \/ FalselyRejected(row) /\ row.metaId

PassReads(w, e) ==
    /\ worker[w] = Idle
    /\ event[e] # NoRow /\ Candidate(event[e])
    /\ Goto(w, [step |-> "poll", event |-> e, id |-> event[e].id])
    /\ UNCHANGED <<marker, event, task, used, usage, fate, accepted, killed, clean>>

\* The provider's answer, which by the time it is written may be out of date.
Poll(w) ==
    /\ worker[w].step = "poll"
    /\ LET e == worker[w].event IN
       \/ Goto(w, Idle)  \* no answer, or one that says nothing
       \/ fate[e] = "failed" /\ Goto(w, [step |-> "confirm", event |-> e])
       \/ fate[e] \in {"queued", "sent"}
          /\ Goto(w, [step |-> IF worker[w].id THEN "deliver" ELSE "repair", event |-> e,
                      status |-> fate[e]])
    /\ UNCHANGED <<marker, event, task, used, usage, fate, accepted, killed, clean>>

UpdateDelivery(w) ==
    /\ worker[w].step = "deliver"
    /\ LET e == worker[w].event IN
       event' = IF event[e].delivery = "failed" THEN event
                ELSE [event EXCEPT ![e].delivery = worker[w].status]
    /\ Goto(w, Idle)
    /\ UNCHANGED <<marker, task, used, usage, fate, accepted, killed, clean>>

\* What repairFalseRejection writes: the message, its credit, its follow-up and its marker.
RepairRow(e, status) ==
    /\ event' = [event EXCEPT ![e] = [@ EXCEPT !.status = "sent", !.delivery = status,
                                               !.id = TRUE, !.reason = "none"]]
    /\ IF usage[e] = 0 THEN usage' = [usage EXCEPT ![e] = 1] /\ used' = used + 1
                       ELSE UNCHANGED <<usage, used>>
    /\ task' = IF task[e] # NoRow /\ task[e].status = "open"
               THEN [task EXCEPT ![e] = [status |-> "repaired", reason |-> @.reason]]
               ELSE task
    /\ marker' = [marker EXCEPT ![event[e].of] = TRUE]

\* Mutant: the row is not looked at again under its lock.
Repair_NotAgain(w) ==
    /\ worker[w].step = "repair"
    /\ RepairRow(worker[w].event, worker[w].status)
    /\ Goto(w, Idle)
    /\ UNCHANGED <<fate, accepted, killed, clean>>

\* One statement under a lock: it looks at the row again.
Repair(w) ==
    /\ worker[w].step = "repair"
    /\ IF FalselyRejected(event[worker[w].event])
       THEN RepairRow(worker[w].event, worker[w].status)
       ELSE UNCHANGED <<marker, event, task, used, usage>>
    /\ Goto(w, Idle)
    /\ UNCHANGED <<fate, accepted, killed, clean>>

\* markConfirmedFailure: its transaction, after which the follow-up is raised.
ConfirmFailure(w) ==
    /\ worker[w].step = "confirm"
    /\ LET e == worker[w].event IN
       /\ event' = [event EXCEPT ![e] = [@ EXCEPT !.status = "failed", !.delivery = "failed",
                                                  !.id = TRUE, !.reason = "semaphore_failed"]]
       /\ task' = IF task[e] = NoRow THEN task
                  ELSE [task EXCEPT ![e].reason = "semaphore_failed"]
       /\ Goto(w, [step |-> "followUp", event |-> e, reason |-> "semaphore_failed"])
    /\ UNCHANGED <<marker, used, usage, fate, accepted, killed, clean>>
-----------------------------------------------------------------------------
(* Environment *)

\* At the provider a message is sent, or fails, also after it was reported sent.
Progress(e) ==
    /\ \/ fate[e] = "queued" /\ fate' = [fate EXCEPT ![e] = "sent"]
       \/ fate[e] \in {"queued", "sent"} /\ fate' = [fate EXCEPT ![e] = "failed"]
    /\ UNCHANGED <<marker, event, task, used, usage, accepted, worker, killed, clean>>

\* A worker stops between two statements; nothing undoes what it has written.
Abort(w) ==
    /\ worker[w] # Idle
    /\ Goto(w, Idle)
    /\ killed' = IF worker[w].step \in {"followUp", "insertTask"}
                 THEN killed \cup {worker[w].event} ELSE killed
    /\ clean' = [r \in Reminders |-> clean[r] /\ ~Sending(w, r)]
    /\ UNCHANGED <<marker, event, task, used, usage, fate, accepted>>

DispatchStep(w) == \/ \E r \in Reminders : SendBegin(w, r)
                   \/ \E e \in Events : RetryBegin(w, e)
                   \/ CheckCap(w) \/ QueueEvent(w)
                   \/ ProviderAccepts(w) \/ ProviderRejects(w) \/ ProviderRejectsFalsely(w)
                   \/ ProviderBusy(w) \/ ProviderUnknown(w)
                   \/ RecordSent(w) \/ Consume(w) \/ InsertUsage(w)
                   \/ MarkSent(w) \/ AttachRetry(w) \/ RecordFailed(w)

ReconcileStep(w) == \/ \E e \in Events : PassReads(w, e)
                    \/ Poll(w) \/ UpdateDelivery(w) \/ Repair(w) \/ ConfirmFailure(w)

Next == \/ \E w \in Workers :
              DispatchStep(w) \/ FollowUpReads(w) \/ InsertTask(w) \/ ReconcileStep(w) \/ Abort(w)
        \/ \E e \in Events : Resolve(e) \/ Progress(e)

Spec == Init /\ [][Next]_vars
-----------------------------------------------------------------------------
(* Properties *)

TypeOK == /\ marker \in [Reminders -> BOOLEAN]
          /\ event \in [Events -> Row \cup {NoRow}]
          /\ task \in [Events -> Task \cup {NoRow}]
          /\ used \in Nat
          /\ usage \in [Events -> Nat]
          /\ fate \in [Events -> {"none", "queued", "sent", "failed"}]
          /\ accepted \in [Events -> Nat]
          /\ worker \in [Workers -> Worker]
          /\ killed \subseteq Events
          /\ clean \in [Reminders -> BOOLEAN]

Taken == {e \in Events : accepted[e] > 0}

\* A message costs one credit at most, and only if the provider took it, whether it is
\* charged when it is sent or when its rejection turns out to be false.
ChargesBacked == /\ used <= Cardinality(Taken)
                 /\ \A e \in Events : usage[e] <= 1 /\ (usage[e] = 1 => e \in Taken)

\* What stage of its life a row shows a message to be in.
Stage(row) == IF row = NoRow THEN "none"
              ELSE IF row.delivery = "failed" THEN "dead"
              ELSE row.status

Lives == INSTANCE MessageLife WITH
             Messages <- Events,
             life <- [e \in Events |-> Stage(event[e])],
             taken <- Taken,
             charges <- usage

\* Dispatches, retries, reconciliation and their stops implement MessageLife: no answer that
\* comes late, twice or half-way takes a message back, sends one that nobody took, or charges
\* it again.
ImplementsMessageLife == Lives!LifeSpec

\* A failure confirmed by the provider is final: no answer read before it, and no repair,
\* brings the message back.
ConfirmedFailureStays ==
    [][\A e \in Events :
          event[e] # NoRow /\ event[e].delivery = "failed" =>
             event'[e].delivery = "failed" /\ event'[e].status = "failed"]_vars

\* A reminder is marked as sent, and so never tried again, only when the provider has
\* taken a message of it.
MarkerMeansTaken ==
    \A r \in Reminders : marker[r] => \E e \in Taken : event[e] # NoRow /\ event[e].of = r

\* Every failed message has a follow-up, unless one is being raised or was lost with the
\* process that was raising it.
FailuresFollowedUp ==
    \A e \in Events :
        event[e] # NoRow /\ event[e].status = "failed" =>
            \/ task[e] # NoRow
            \/ e \in killed
            \/ \E w \in Workers : /\ worker[w].step \in {"followUp", "insertTask"}
                                 /\ worker[w].event = e

\* While the sends of a reminder come one after another, none dies, and the provider's
\* answers are what happened, the customer gets it once.
SentOnceInSequence ==
    \A r \in Reminders : clean[r] =>
        \A e, f \in Taken : /\ event[e].of = r /\ event[f].of = r => e = f
                            /\ event[e].of = r => accepted[e] = 1

\* "Those failures, plus immediate unconfirmed send failures, create owner-visible manual
\* follow-up tasks" (README.md): the follow-up of a confirmed failure is not one that the
\* job has dismissed itself.
ConfirmedFailuresVisible ==
    \A e \in Events :
        event[e] # NoRow /\ event[e].delivery = "failed" =>
            task[e] = NoRow \/ task[e].status # "repaired"
=============================================================================
