----------------------------- MODULE DispatchProofs -----------------------------
(***************************************************************************)
(* Proofs about Dispatch, for any number of reminders, messages and        *)
(* workers, any credits and any limit.                                     *)
(***************************************************************************)
EXTENDS Dispatch, FiniteSetTheorems, TLAPS

USE DEF Idle

\* The steps of a worker that has an event in hand, and of those the ones of dispatch.
CarrySteps == {"send", "sent", "consume", "usage", "finish", "failed"}

EventSteps == CarrySteps \cup {"followUp", "insertTask", "poll", "repair", "deliver", "confirm"}

\* What workers and follow-ups point at exists.
Refs == /\ \A w \in Workers :
              /\ worker[w].step \in EventSteps => event[worker[w].event] # NoRow
              /\ worker[w].step \in DispatchSteps /\ worker[w].origin # Automation
                    => task[worker[w].origin] # NoRow
        /\ \A e \in Events : task[e] # NoRow => event[e] # NoRow

TypeInv == TypeOK /\ Refs

LEMMA TypeInvInit == Init => TypeInv
  BY DEF Init, TypeInv, TypeOK, Refs, Worker, EventSteps, CarrySteps, DispatchSteps

\* What a worker carries at each step.
LEMMA WorkerShape ==
    ASSUME TypeOK, NEW w \in Workers
    PROVE  /\ worker[w] \in Worker
           /\ worker[w].step \in DispatchSteps
                 => worker[w].of \in Reminders /\ worker[w].origin \in Events \cup {Automation}
           /\ worker[w].step \in EventSteps => worker[w].event \in Events
           /\ worker[w].step = "send" => worker[w].retries \in 0 .. 1
           /\ worker[w].step = "failed" => worker[w].metaId \in BOOLEAN
           /\ worker[w].step \in {"failed", "followUp", "insertTask"} => worker[w].reason \in Reasons
           /\ worker[w].step = "poll" => worker[w].id \in BOOLEAN
           /\ worker[w].step \in {"repair", "deliver"} => worker[w].status \in {"queued", "sent"}
  BY DEF TypeOK, Worker, EventSteps, CarrySteps, DispatchSteps

\* What a worker that moves must bring for the references to stay good.
LEMMA WorkerMoves ==
    ASSUME TypeInv, NEW w \in Workers, NEW state \in Worker, Goto(w, state),
           \A e \in Events : event[e] # NoRow => event'[e] # NoRow,
           \A e \in Events : task[e] # NoRow => task'[e] # NoRow,
           state.step \in EventSteps => event'[state.event] # NoRow,
           state.step \in DispatchSteps /\ state.origin # Automation => task'[state.origin] # NoRow
    PROVE  /\ worker' \in [Workers -> Worker]
           /\ \A v \in Workers :
                 /\ worker'[v].step \in EventSteps => event'[worker'[v].event] # NoRow
                 /\ worker'[v].step \in DispatchSteps /\ worker'[v].origin # Automation
                       => task'[worker'[v].origin] # NoRow
  <1>1. worker \in [Workers -> Worker] /\ worker' = [worker EXCEPT ![w] = state]
        BY DEF TypeInv, TypeOK, Goto
  <1>2. worker' \in [Workers -> Worker]
        BY <1>1
  <1>3. ASSUME NEW v \in Workers
        PROVE  /\ worker'[v].step \in EventSteps => event'[worker'[v].event] # NoRow
               /\ worker'[v].step \in DispatchSteps /\ worker'[v].origin # Automation
                     => task'[worker'[v].origin] # NoRow
    <2>1. CASE v = w
          BY <1>1, <2>1
    <2>2. CASE v # w
      <3>1. worker'[v] = worker[v]
            BY <1>1, <2>2
      <3>2. worker[v].step \in EventSteps => worker[v].event \in Events
            BY WorkerShape DEF TypeInv
      <3>3. worker[v].step \in DispatchSteps /\ worker[v].origin # Automation
               => worker[v].origin \in Events
            BY WorkerShape DEF TypeInv
      <3>4. QED
            BY <3>1, <3>2, <3>3 DEF TypeInv, Refs
    <2>3. QED
          BY <2>1, <2>2
  <1>4. QED
        BY <1>2, <1>3

\* The states that the actions build.
LEMMA WorkerStates ==
    /\ Idle \in Worker
    /\ \A r \in Reminders, o \in Events \cup {Automation} :
          /\ \A s \in {"cap", "queue"} : [step |-> s, of |-> r, origin |-> o] \in Worker
          /\ \A e \in Events :
                /\ \A n \in 0 .. 1 : [step |-> "send", of |-> r, origin |-> o, event |-> e,
                                      retries |-> n] \in Worker
                /\ \A s \in {"sent", "consume", "usage", "finish"} :
                      [step |-> s, of |-> r, origin |-> o, event |-> e] \in Worker
                /\ \A x \in Reasons, b \in BOOLEAN :
                      [step |-> "failed", of |-> r, origin |-> o, event |-> e, reason |-> x,
                       metaId |-> b] \in Worker
    /\ \A e \in Events :
          /\ \A s \in {"followUp", "insertTask"}, x \in Reasons :
                [step |-> s, event |-> e, reason |-> x] \in Worker
          /\ \A b \in BOOLEAN : [step |-> "poll", event |-> e, id |-> b] \in Worker
          /\ \A s \in {"repair", "deliver"}, x \in {"queued", "sent"} :
                [step |-> s, event |-> e, status |-> x] \in Worker
          /\ [step |-> "confirm", event |-> e] \in Worker
  BY DEF Worker

\* TypeOK without the workers.
TablesTyped == /\ marker \in [Reminders -> BOOLEAN]
               /\ event \in [Events -> Row \cup {NoRow}]
               /\ task \in [Events -> Task \cup {NoRow}]
               /\ used \in Nat
               /\ usage \in [Events -> Nat]
               /\ fate \in [Events -> {"none", "queued", "sent", "failed"}]
               /\ accepted \in [Events -> Nat]
               /\ killed \subseteq Events
               /\ clean \in [Reminders -> BOOLEAN]

\* No row goes away, and a follow-up is one of a message.
RowsKept == /\ \A e \in Events : event[e] # NoRow => event'[e] # NoRow
            /\ \A e \in Events : task[e] # NoRow => task'[e] # NoRow
            /\ \A e \in Events : task'[e] # NoRow => event'[e] # NoRow

LEMMA TypeInvMoves ==
    ASSUME TypeInv, TablesTyped', RowsKept, NEW w \in Workers, NEW state \in Worker,
           Goto(w, state),
           state.step \in EventSteps => event'[state.event] # NoRow,
           state.step \in DispatchSteps /\ state.origin # Automation => task'[state.origin] # NoRow
    PROVE  TypeInv'
  <1>1. worker' \in [Workers -> Worker]
        /\ \A v \in Workers :
              /\ worker'[v].step \in EventSteps => event'[worker'[v].event] # NoRow
              /\ worker'[v].step \in DispatchSteps /\ worker'[v].origin # Automation
                    => task'[worker'[v].origin] # NoRow
        BY WorkerMoves DEF RowsKept
  <1>2. QED
        BY <1>1 DEF TypeInv, TypeOK, Refs, TablesTyped, RowsKept

LEMMA TablesUnchanged ==
    ASSUME TypeInv, UNCHANGED <<event, task>> PROVE RowsKept
  BY DEF TypeInv, Refs, RowsKept

LEMMA BeginTypeInv ==
    ASSUME TypeInv, NEW w \in Workers, NEW r \in Reminders,
           NEW origin \in Events \cup {Automation}, origin # Automation => task[origin] # NoRow,
           Begin(w, r, origin),
           UNCHANGED <<marker, event, task, used, usage, fate, accepted, killed>>
    PROVE  TypeInv'
  <1> DEFINE state == [step |-> "cap", of |-> r, origin |-> origin]
  <1>1. state \in Worker
        BY WorkerStates
  <1>2. clean' \in [Reminders -> BOOLEAN]
    <2>1. (clean[r] /\ origin = Automation /\ \A v \in Workers : ~Sending(v, r)) \in BOOLEAN
          OBVIOUS
    <2>2. QED
          BY <2>1 DEF Begin, TypeInv, TypeOK
  <1>3. TablesTyped'
        BY <1>2 DEF TypeInv, TypeOK, TablesTyped
  <1>4. RowsKept
        BY TablesUnchanged
  <1>5. state.step = "cap" /\ state.origin = origin /\ Goto(w, state)
        BY DEF Begin
  <1> HIDE DEF state
  <1>6. QED
        BY <1>1, <1>3, <1>4, <1>5, TypeInvMoves DEF EventSteps, CarrySteps

\* A step of a worker that changes neither messages nor follow-ups.
LEMMA QuietTypeInv ==
    ASSUME TypeInv, TablesTyped', UNCHANGED <<event, task>>,
           NEW w \in Workers, NEW state \in Worker, Goto(w, state),
           state.step \in EventSteps => worker[w].step \in EventSteps
                                        /\ state.event = worker[w].event,
           state.step \in DispatchSteps => worker[w].step \in DispatchSteps
                                           /\ state.origin = worker[w].origin
    PROVE  TypeInv'
  <1>1. RowsKept
        BY TablesUnchanged
  <1>2. state.step \in EventSteps => event'[state.event] # NoRow
        BY DEF TypeInv, Refs
  <1>3. state.step \in DispatchSteps /\ state.origin # Automation => task'[state.origin] # NoRow
        BY DEF TypeInv, Refs
  <1>4. QED
        BY <1>1, <1>2, <1>3, TypeInvMoves

LEMMA StopTypeInv ==
    ASSUME TypeInv, TablesTyped', RowsKept, NEW w \in Workers, Goto(w, Idle)
    PROVE  TypeInv'
  <1>1. Idle \in Worker /\ Idle.step \notin EventSteps \cup DispatchSteps
        BY WorkerStates DEF EventSteps, CarrySteps, DispatchSteps
  <1>2. QED
        BY <1>1, TypeInvMoves

LEMMA ProceedTypeInv ==
    ASSUME TypeInv, TablesTyped', UNCHANGED <<event, task>>, NEW w \in Workers,
           worker[w].step \in CarrySteps, NEW s \in {"sent", "consume", "usage", "finish"},
           Proceed(w, s)
    PROVE  TypeInv'
  <1> DEFINE state == [step |-> s, of |-> worker[w].of, origin |-> worker[w].origin,
                       event |-> worker[w].event]
  <1>1. worker[w].step \in DispatchSteps /\ worker[w].step \in EventSteps
        BY DEF CarrySteps, EventSteps, DispatchSteps
  <1>2. state \in Worker
        BY <1>1, WorkerStates, WorkerShape DEF TypeInv
  <1>3. Goto(w, state) /\ state.event = worker[w].event /\ state.origin = worker[w].origin
        BY DEF Proceed
  <1> HIDE DEF state
  <1>4. QED
        BY <1>1, <1>2, <1>3, QuietTypeInv

LEMMA FailsTypeInv ==
    ASSUME TypeInv, TablesTyped', UNCHANGED <<event, task>>, NEW w \in Workers,
           worker[w].step \in CarrySteps, NEW x \in Reasons, NEW b \in BOOLEAN, Fails(w, x, b)
    PROVE  TypeInv'
  <1> DEFINE state == [step |-> "failed", of |-> worker[w].of, origin |-> worker[w].origin,
                       event |-> worker[w].event, reason |-> x, metaId |-> b]
  <1>1. worker[w].step \in DispatchSteps /\ worker[w].step \in EventSteps
        BY DEF CarrySteps, EventSteps, DispatchSteps
  <1>2. state \in Worker
        BY <1>1, WorkerStates, WorkerShape DEF TypeInv
  <1>3. Goto(w, state) /\ state.event = worker[w].event /\ state.origin = worker[w].origin
        BY DEF Fails
  <1> HIDE DEF state
  <1>4. QED
        BY <1>1, <1>2, <1>3, QuietTypeInv

\* The provider takes a message, and what a false answer does to the history.
LEMMA TakeTyped ==
    ASSUME TypeInv, NEW w \in Workers, worker[w].step \in CarrySteps
    PROVE  /\ Take(worker[w].event)
                 => /\ accepted' \in [Events -> Nat]
                    /\ fate' \in [Events -> {"none", "queued", "sent", "failed"}]
           /\ TakesAnyway(w) => clean' \in [Reminders -> BOOLEAN] /\ Take(worker[w].event)
  <1>1. worker[w].event \in Events /\ worker[w].of \in Reminders
        BY WorkerShape DEF TypeInv, CarrySteps, EventSteps, DispatchSteps
  <1>2. accepted \in [Events -> Nat] /\ accepted[worker[w].event] + 1 \in Nat
        /\ fate \in [Events -> {"none", "queued", "sent", "failed"}]
        /\ clean \in [Reminders -> BOOLEAN]
        BY <1>1 DEF TypeInv, TypeOK
  <1>3. Take(worker[w].event)
           => /\ accepted' \in [Events -> Nat]
              /\ fate' \in [Events -> {"none", "queued", "sent", "failed"}]
        BY <1>1, <1>2 DEF Take
  <1>4. TakesAnyway(w) => clean' \in [Reminders -> BOOLEAN] /\ Take(worker[w].event)
        BY <1>1, <1>2 DEF TakesAnyway
  <1>5. QED
        BY <1>3, <1>4

LEMMA ProviderTypeInv ==
    ASSUME TypeInv, NEW w \in Workers,
           \/ ProviderAccepts(w) \/ ProviderRejects(w) \/ ProviderRejectsFalsely(w)
           \/ ProviderBusy(w) \/ ProviderUnknown(w)
    PROVE  TypeInv'
  <1>1. worker[w].step = "send" /\ worker[w].step \in CarrySteps
        BY DEF ProviderAccepts, ProviderRejects, ProviderRejectsFalsely, ProviderBusy,
               ProviderUnknown, CarrySteps
  <1>2. /\ accepted' \in [Events -> Nat]
        /\ fate' \in [Events -> {"none", "queued", "sent", "failed"}]
        /\ clean' \in [Reminders -> BOOLEAN]
        BY <1>1, TakeTyped DEF ProviderAccepts, ProviderRejects, ProviderRejectsFalsely,
               ProviderBusy, ProviderUnknown, TypeInv, TypeOK
  <1>3. TablesTyped' /\ UNCHANGED <<event, task>>
        BY <1>2 DEF ProviderAccepts, ProviderRejects, ProviderRejectsFalsely, ProviderBusy,
               ProviderUnknown, TypeInv, TypeOK, TablesTyped
  <1>4. CASE ProviderAccepts(w)
        BY <1>1, <1>3, <1>4, ProceedTypeInv DEF ProviderAccepts
  <1>5. CASE ProviderRejects(w)
        BY <1>1, <1>3, <1>5, FailsTypeInv DEF ProviderRejects, Reasons
  <1>6. CASE ProviderRejectsFalsely(w)
        BY <1>1, <1>3, <1>6, FailsTypeInv DEF ProviderRejectsFalsely, Reasons
  <1>7. CASE ProviderUnknown(w)
        BY <1>1, <1>3, <1>7, FailsTypeInv DEF ProviderUnknown, Reasons
  <1>8. CASE ProviderBusy(w)
    <2> DEFINE state == [worker[w] EXCEPT !.retries = 1]
    <2>1. CASE Goto(w, state)
      <3>1. state \in Worker /\ state.step = "send" /\ state.event = worker[w].event
            /\ state.origin = worker[w].origin
            BY <1>1, WorkerShape DEF TypeInv, Worker
      <3> HIDE DEF state
      <3>2. worker[w].step \in EventSteps /\ worker[w].step \in DispatchSteps
            BY <1>1 DEF EventSteps, DispatchSteps, CarrySteps
      <3>3. QED
            BY <1>3, <2>1, <3>1, <3>2, QuietTypeInv
    <2>2. CASE Fails(w, "provider_transient_retryable", FALSE)
          BY <1>1, <1>3, <2>2, FailsTypeInv DEF Reasons
    <2>3. QED
          BY <1>8, <2>1, <2>2 DEF ProviderBusy
  <1>9. QED
        BY <1>4, <1>5, <1>6, <1>7, <1>8

\* A row that is written keeps its table in shape.
LEMMA RowWritten ==
    ASSUME TypeInv, NEW e \in Events, NEW row \in Row, event' = [event EXCEPT ![e] = row]
    PROVE  /\ event' \in [Events -> Row \cup {NoRow}]
           /\ \A f \in Events : event[f] # NoRow => event'[f] # NoRow
           /\ event'[e] # NoRow
  BY NoRowAssumption DEF TypeInv, TypeOK

LEMMA TaskWritten ==
    ASSUME TypeInv, NEW e \in Events, NEW row \in Task, task' = [task EXCEPT ![e] = row]
    PROVE  /\ task' \in [Events -> Task \cup {NoRow}]
           /\ \A f \in Events : task[f] # NoRow => task'[f] # NoRow
           /\ \A f \in Events : task'[f] # NoRow => task[f] # NoRow \/ f = e
  BY NoRowAssumption DEF TypeInv, TypeOK

LEMMA RowExists ==
    ASSUME TypeInv, NEW e \in Events
    PROVE  /\ event[e] # NoRow => event[e] \in Row
           /\ task[e] # NoRow => task[e] \in Task /\ event[e] \in Row
  BY DEF TypeInv, TypeOK, Refs

\* The row of the event that a worker has in hand.
LEMMA HeldRow ==
    ASSUME TypeInv, NEW w \in Workers, worker[w].step \in EventSteps
    PROVE  worker[w].event \in Events /\ event[worker[w].event] \in Row
           /\ event[worker[w].event] # NoRow
  BY WorkerShape, RowExists DEF TypeInv, Refs

LEMMA SendTypeInv ==
    ASSUME TypeInv, NEW w \in Workers, DispatchStep(w)
    PROVE  TypeInv'
  <1>1. ASSUME NEW r \in Reminders, SendBegin(w, r) PROVE TypeInv'
        BY <1>1, BeginTypeInv DEF SendBegin
  <1>2. ASSUME NEW e \in Events, RetryBegin(w, e) PROVE TypeInv'
    <2>1. event[e].of \in Reminders
          BY <1>2, RowExists DEF RetryBegin, Row
    <2>2. QED
          BY <1>2, <2>1, BeginTypeInv DEF RetryBegin
  <1>3. CASE CheckCap(w)
    <2>1. TablesTyped' /\ UNCHANGED <<event, task>> /\ RowsKept
          BY <1>3, TablesUnchanged DEF CheckCap, TypeInv, TypeOK, TablesTyped
    <2>2. CASE Goto(w, Idle)
          BY <2>1, <2>2, StopTypeInv
    <2> DEFINE state == [worker[w] EXCEPT !.step = "queue"]
    <2>3. CASE Goto(w, state)
      <3>1. worker[w].step = "cap" /\ worker[w].step \in DispatchSteps
            BY <1>3 DEF CheckCap, DispatchSteps
      <3>2. state \in Worker /\ state.step = "queue" /\ state.origin = worker[w].origin
            BY <3>1, WorkerShape DEF TypeInv, Worker
      <3> HIDE DEF state
      <3>3. QED
            BY <2>1, <2>3, <3>1, <3>2, QuietTypeInv DEF EventSteps, CarrySteps
    <2>4. QED
          BY <1>3, <2>2, <2>3 DEF CheckCap
  <1>4. CASE QueueEvent(w)
    <2>1. worker[w].step = "queue" /\ worker[w].step \in DispatchSteps
          BY <1>4 DEF QueueEvent, DispatchSteps
    <2>2. worker[w].of \in Reminders /\ worker[w].origin \in Events \cup {Automation}
          BY <2>1, WorkerShape DEF TypeInv
    <2>3. CASE Goto(w, Idle) /\ UNCHANGED event
      <3>1. TablesTyped' /\ RowsKept
            BY <1>4, <2>3, TablesUnchanged DEF QueueEvent, TypeInv, TypeOK, TablesTyped
      <3>2. QED
            BY <2>3, <3>1, StopTypeInv
    <2>4. CASE used < Credits
      <3> DEFINE row == [of |-> worker[w].of, status |-> "queued", id |-> FALSE,
                         metaId |-> FALSE, delivery |-> "none", reason |-> "none"]
                 state(e) == [step |-> "send", of |-> worker[w].of, origin |-> worker[w].origin,
                              event |-> e, retries |-> 0]
      <3>1. ~(used >= Credits)
            BY <2>4, DispatchAssumption DEF TypeInv, TypeOK
      <3>2. PICK e \in Events : event' = [event EXCEPT ![e] = row] /\ Goto(w, state(e))
            BY <1>4, <3>1 DEF QueueEvent
      <3>3. row \in Row
            BY <2>2 DEF Row
      <3>4. state(e) \in Worker /\ state(e).step = "send" /\ state(e).event = e
            /\ state(e).origin = worker[w].origin
        <4>1. 0 \in 0 .. 1
              OBVIOUS
        <4>2. state(e) \in Worker
              BY <2>2, <4>1, WorkerStates
        <4>3. QED
              BY <4>2
      <3> HIDE DEF row, state
      <3>5. event' \in [Events -> Row \cup {NoRow}] /\ event'[e] # NoRow
            /\ \A f \in Events : event[f] # NoRow => event'[f] # NoRow
            BY <3>2, <3>3, RowWritten
      <3>6. TablesTyped' /\ RowsKept /\ task' = task
            BY <1>4, <3>5 DEF QueueEvent, TypeInv, TypeOK, TablesTyped, RowsKept, Refs
      <3>7. worker[w].origin # Automation => task[worker[w].origin] # NoRow
            BY <2>1 DEF TypeInv, Refs
      <3>8. QED
            BY <3>2, <3>4, <3>5, <3>6, <3>7, TypeInvMoves
    <2>5. QED
          BY <1>4, <2>3, <2>4 DEF QueueEvent
  <1>5. CASE ProviderAccepts(w) \/ ProviderRejects(w) \/ ProviderRejectsFalsely(w)
             \/ ProviderBusy(w) \/ ProviderUnknown(w)
        BY <1>5, ProviderTypeInv
  <1>6. CASE RecordSent(w)
    <2> DEFINE e == worker[w].event
               row == [event[e] EXCEPT !.status = "sent", !.delivery = "sent", !.id = TRUE]
               state == [step |-> "consume", of |-> worker[w].of, origin |-> worker[w].origin,
                         event |-> e]
    <2>1. worker[w].step = "sent" /\ worker[w].step \in DispatchSteps
          /\ worker[w].step \in EventSteps
          BY <1>6 DEF RecordSent, DispatchSteps, EventSteps, CarrySteps
    <2>2. e \in Events /\ event[e] \in Row
          BY <2>1, HeldRow
    <2>3. row \in Row
          BY <2>2 DEF Row
    <2>4. event' = [event EXCEPT ![e] = row] /\ Goto(w, state)
          BY <1>6, <2>2 DEF RecordSent, Proceed, TypeInv, TypeOK
    <2>5. state \in Worker /\ state.step = "consume" /\ state.event = e
          /\ state.origin = worker[w].origin
          BY <2>1, <2>2, WorkerStates, WorkerShape DEF TypeInv
    <2> HIDE DEF row, state, e
    <2>6. event' \in [Events -> Row \cup {NoRow}] /\ event'[e] # NoRow
          /\ \A f \in Events : event[f] # NoRow => event'[f] # NoRow
          BY <2>2, <2>3, <2>4, RowWritten
    <2>7. TablesTyped' /\ RowsKept /\ task' = task
          BY <1>6, <2>6 DEF RecordSent, TypeInv, TypeOK, TablesTyped, RowsKept, Refs
    <2>8. worker[w].origin # Automation => task[worker[w].origin] # NoRow
          BY <2>1 DEF TypeInv, Refs
    <2>9. QED
          BY <2>4, <2>5, <2>6, <2>7, <2>8, TypeInvMoves
  <1>7. CASE Consume(w)
    <2>1. TablesTyped' /\ UNCHANGED <<event, task>> /\ worker[w].step \in CarrySteps
          BY <1>7 DEF Consume, TypeInv, TypeOK, TablesTyped, CarrySteps
    <2>2. QED
          BY <1>7, <2>1, ProceedTypeInv DEF Consume
  <1>8. CASE InsertUsage(w)
    <2>1. UNCHANGED <<event, task>> /\ worker[w].step \in CarrySteps
          /\ worker[w].step \in EventSteps
          BY <1>8 DEF InsertUsage, CarrySteps, EventSteps
    <2>2. usage[worker[w].event] + 1 \in Nat
          BY <2>1, HeldRow DEF TypeInv, TypeOK
    <2>3. TablesTyped'
          BY <1>8, <2>2 DEF InsertUsage, TypeInv, TypeOK, TablesTyped
    <2>4. QED
          BY <1>8, <2>1, <2>3, ProceedTypeInv DEF InsertUsage
  <1>9. CASE MarkSent(w)
    <2>1. TablesTyped' /\ RowsKept
          BY <1>9, TablesUnchanged DEF MarkSent, TypeInv, TypeOK, TablesTyped
    <2>2. QED
          BY <1>9, <2>1, StopTypeInv DEF MarkSent
  <1>10. CASE AttachRetry(w)
    <2> DEFINE e == worker[w].origin
    <2>1. worker[w].step = "finish" /\ worker[w].step \in DispatchSteps /\ e # Automation
          BY <1>10 DEF AttachRetry, DispatchSteps
    <2>2. e \in Events /\ task[e] # NoRow /\ task[e] \in Task
          BY <2>1, WorkerShape, RowExists DEF TypeInv, Refs
    <2>3. [task[e] EXCEPT !.status = "contacted"] \in Task
          BY <2>2 DEF Task
    <2>4. task' = task \/ task' = [task EXCEPT ![e] = [task[e] EXCEPT !.status = "contacted"]]
          BY <1>10, <2>2 DEF AttachRetry, TypeInv, TypeOK
    <2>5. task' \in [Events -> Task \cup {NoRow}]
          /\ \A f \in Events : (task[f] # NoRow) = (task'[f] # NoRow)
          BY <2>2, <2>3, <2>4, TaskWritten DEF TypeInv, TypeOK
    <2>6. TablesTyped' /\ RowsKept
          BY <1>10, <2>5 DEF AttachRetry, TypeInv, TypeOK, TablesTyped, RowsKept, Refs
    <2>7. QED
          BY <1>10, <2>6, StopTypeInv DEF AttachRetry
  <1>11. CASE RecordFailed(w)
    <2> DEFINE e == worker[w].event
               row == [event[e] EXCEPT !.status = "failed", !.reason = worker[w].reason,
                                       !.metaId = worker[w].metaId]
               state == [step |-> "followUp", event |-> e, reason |-> worker[w].reason]
    <2>1. worker[w].step = "failed" /\ worker[w].step \in EventSteps
          BY <1>11 DEF RecordFailed, EventSteps, CarrySteps
    <2>2. e \in Events /\ event[e] \in Row
          /\ worker[w].reason \in Reasons /\ worker[w].metaId \in BOOLEAN
          BY <2>1, HeldRow, WorkerShape DEF TypeInv
    <2>3. row \in Row
          BY <2>2 DEF Row
    <2>4. event' = [event EXCEPT ![e] = row] /\ Goto(w, state)
          BY <1>11, <2>2 DEF RecordFailed, TypeInv, TypeOK
    <2>5. state \in Worker /\ state.step = "followUp" /\ state.event = e
          BY <2>2, WorkerStates
    <2> HIDE DEF row, state, e
    <2>6. event' \in [Events -> Row \cup {NoRow}] /\ event'[e] # NoRow
          /\ \A f \in Events : event[f] # NoRow => event'[f] # NoRow
          BY <2>2, <2>3, <2>4, RowWritten
    <2>7. TablesTyped' /\ RowsKept
          BY <1>11, <2>6 DEF RecordFailed, TypeInv, TypeOK, TablesTyped, RowsKept, Refs
    <2>8. QED
          BY <2>4, <2>5, <2>6, <2>7, TypeInvMoves DEF DispatchSteps
  <1>12. QED
         BY <1>1, <1>2, <1>3, <1>4, <1>5, <1>6, <1>7, <1>8, <1>9, <1>10, <1>11 DEF DispatchStep

LEMMA FollowUpTypeInv ==
    ASSUME TypeInv, NEW w \in Workers, FollowUpReads(w) \/ InsertTask(w)
    PROVE  TypeInv'
  <1>1. worker[w].step \in {"followUp", "insertTask"} /\ worker[w].step \in EventSteps
        BY DEF FollowUpReads, InsertTask, EventSteps
  <1>2. worker[w].event \in Events /\ event[worker[w].event] \in Row
        /\ event[worker[w].event] # NoRow /\ worker[w].reason \in Reasons
        BY <1>1, HeldRow, WorkerShape DEF TypeInv
  <1>3. CASE FollowUpReads(w)
    <2> DEFINE reason == IF event[worker[w].event].reason = "none" THEN worker[w].reason
                         ELSE event[worker[w].event].reason
               state == [step |-> "insertTask", event |-> worker[w].event, reason |-> reason]
    <2>1. reason \in Reasons
          BY <1>2 DEF Row
    <2>2. Goto(w, state)
          BY <1>3 DEF FollowUpReads
    <2> HIDE DEF reason
    <2>3. state \in Worker /\ state.step = "insertTask" /\ state.event = worker[w].event
          BY <1>2, <2>1, WorkerStates
    <2> HIDE DEF state
    <2>4. TablesTyped' /\ UNCHANGED <<event, task>>
          BY <1>3 DEF FollowUpReads, TypeInv, TypeOK, TablesTyped
    <2>5. QED
          BY <1>1, <2>2, <2>3, <2>4, QuietTypeInv DEF DispatchSteps
  <1>4. CASE InsertTask(w)
    <2> DEFINE row == [status |-> "open", reason |-> worker[w].reason]
    <2>1. row \in Task
          BY <1>2 DEF Task
    <2>2. task' = task \/ task' = [task EXCEPT ![worker[w].event] = row]
          BY <1>4 DEF InsertTask
    <2> HIDE DEF row
    <2>3. /\ task' \in [Events -> Task \cup {NoRow}]
          /\ \A f \in Events : task[f] # NoRow => task'[f] # NoRow
          /\ \A f \in Events : task'[f] # NoRow => task[f] # NoRow \/ f = worker[w].event
          BY <1>2, <2>1, <2>2, TaskWritten DEF TypeInv, TypeOK
    <2>4. TablesTyped' /\ RowsKept
          BY <1>2, <1>4, <2>3 DEF InsertTask, TypeInv, TypeOK, TablesTyped, RowsKept, Refs
    <2>5. QED
          BY <1>4, <2>4, StopTypeInv DEF InsertTask
  <1>5. QED
        BY <1>3, <1>4

\* The rows after a repair.
LEMMA RepairTyped ==
    ASSUME TypeInv, NEW e \in Events, event[e] # NoRow, NEW status \in {"queued", "sent"},
           RepairRow(e, status)
    PROVE  /\ event' = [event EXCEPT ![e] = [event[e] EXCEPT !.status = "sent",
                            !.delivery = status, !.id = TRUE, !.reason = "none"]]
           /\ event' \in [Events -> Row \cup {NoRow}]
           /\ task' \in [Events -> Task \cup {NoRow}]
           /\ \A f \in Events : (task'[f] # NoRow) = (task[f] # NoRow)
           /\ usage' \in [Events -> Nat] /\ used' \in Nat
           /\ marker' \in [Reminders -> BOOLEAN]
           /\ RowsKept
  <1> DEFINE row == [event[e] EXCEPT !.status = "sent", !.delivery = status, !.id = TRUE,
                                     !.reason = "none"]
             closed == [status |-> "repaired", reason |-> task[e].reason]
  <1>1. event[e] \in Row
        BY RowExists
  <1>2. row \in Row
        BY <1>1 DEF Row
  <1>3. event' = [event EXCEPT ![e] = row]
        BY DEF RepairRow, TypeInv, TypeOK
  <1>4. event' \in [Events -> Row \cup {NoRow}]
        /\ \A f \in Events : event[f] # NoRow => event'[f] # NoRow
        BY <1>2, <1>3, RowWritten
  <1>5. task' = task \/ (task[e] # NoRow /\ task' = [task EXCEPT ![e] = closed])
    <2>1. CASE task[e] # NoRow /\ task[e].status = "open"
      <3>1. task' = [task EXCEPT ![e] = [status |-> "repaired", reason |-> @.reason]]
            BY <2>1 DEF RepairRow
      <3>2. QED
            BY <2>1, <3>1
    <2>2. CASE ~(task[e] # NoRow /\ task[e].status = "open")
          BY <2>2 DEF RepairRow
    <2>3. QED
          BY <2>1, <2>2
  <1>6. task[e] # NoRow => closed \in Task
        BY RowExists DEF Task
  <1>7. task' \in [Events -> Task \cup {NoRow}]
        /\ \A f \in Events : (task'[f] # NoRow) = (task[f] # NoRow)
        BY <1>5, <1>6, TaskWritten DEF TypeInv, TypeOK
  <1>8. usage' \in [Events -> Nat] /\ used' \in Nat
        BY DEF RepairRow, TypeInv, TypeOK
  <1>9. marker' \in [Reminders -> BOOLEAN]
        BY DEF RepairRow, TypeInv, TypeOK
  <1>10. RowsKept
         BY <1>4, <1>7 DEF RowsKept, TypeInv, Refs
  <1>11. QED
         BY <1>3, <1>4, <1>7, <1>8, <1>9, <1>10

LEMMA ReconcileTypeInv ==
    ASSUME TypeInv, NEW w \in Workers, ReconcileStep(w)
    PROVE  TypeInv'
  <1>1. ASSUME NEW e \in Events, PassReads(w, e) PROVE TypeInv'
    <2> DEFINE state == [step |-> "poll", event |-> e, id |-> event[e].id]
    <2>1. event[e] # NoRow /\ event[e] \in Row
          BY <1>1, RowExists DEF PassReads
    <2>2. state \in Worker /\ state.step = "poll" /\ state.event = e
          BY <2>1, WorkerStates DEF Row
    <2>3. Goto(w, state)
          BY <1>1 DEF PassReads
    <2> HIDE DEF state
    <2>4. TablesTyped' /\ UNCHANGED <<event, task>> /\ RowsKept
          BY <1>1, TablesUnchanged DEF PassReads, TypeInv, TypeOK, TablesTyped
    <2>5. QED
          BY <2>1, <2>2, <2>3, <2>4, TypeInvMoves DEF DispatchSteps
  <1>2. CASE Poll(w)
    <2> DEFINE e == worker[w].event
               confirm == [step |-> "confirm", event |-> e]
               write(s) == [step |-> s, event |-> e, status |-> fate[e]]
    <2>1. worker[w].step = "poll" /\ worker[w].step \in EventSteps
          BY <1>2 DEF Poll, EventSteps
    <2>2. e \in Events
          BY <2>1, HeldRow
    <2>3. TablesTyped' /\ UNCHANGED <<event, task>> /\ RowsKept
          BY <1>2, TablesUnchanged DEF Poll, TypeInv, TypeOK, TablesTyped
    <2>4. CASE Goto(w, Idle)
          BY <2>3, <2>4, StopTypeInv
    <2>5. CASE Goto(w, confirm)
      <3>1. confirm \in Worker /\ confirm.step = "confirm" /\ confirm.event = worker[w].event
            BY <2>2, WorkerStates
      <3> HIDE DEF confirm
      <3>2. QED
            BY <2>1, <2>3, <2>5, <3>1, QuietTypeInv DEF DispatchSteps
    <2>6. ASSUME NEW s \in {"deliver", "repair"}, Goto(w, write(s)), fate[e] \in {"queued", "sent"}
          PROVE  TypeInv'
      <3>1. write(s) \in Worker /\ write(s).step = s /\ write(s).event = worker[w].event
            BY <2>2, <2>6, WorkerStates
      <3> HIDE DEF write
      <3>2. QED
            BY <2>1, <2>3, <2>6, <3>1, QuietTypeInv DEF DispatchSteps
    <2>7. QED
          BY <1>2, <2>4, <2>5, <2>6 DEF Poll
  <1>3. CASE UpdateDelivery(w)
    <2> DEFINE e == worker[w].event
               row == [event[e] EXCEPT !.delivery = worker[w].status]
    <2>1. worker[w].step = "deliver" /\ worker[w].step \in EventSteps
          BY <1>3 DEF UpdateDelivery, EventSteps
    <2>2. e \in Events /\ event[e] \in Row /\ worker[w].status \in {"queued", "sent"}
          BY <2>1, HeldRow, WorkerShape DEF TypeInv
    <2>3. row \in Row
          BY <2>2 DEF Row
    <2>4. event' = event \/ event' = [event EXCEPT ![e] = row]
          BY <1>3, <2>2 DEF UpdateDelivery, TypeInv, TypeOK
    <2>5. event' \in [Events -> Row \cup {NoRow}]
          /\ \A f \in Events : event[f] # NoRow => event'[f] # NoRow
          BY <2>2, <2>3, <2>4, RowWritten DEF TypeInv, TypeOK
    <2>6. TablesTyped' /\ RowsKept
          BY <1>3, <2>5 DEF UpdateDelivery, TypeInv, TypeOK, TablesTyped, RowsKept, Refs
    <2>7. QED
          BY <1>3, <2>6, StopTypeInv DEF UpdateDelivery
  <1>4. CASE Repair(w)
    <2>1. worker[w].step = "repair" /\ worker[w].step \in EventSteps
          BY <1>4 DEF Repair, EventSteps
    <2>2. worker[w].event \in Events /\ event[worker[w].event] # NoRow
          /\ worker[w].status \in {"queued", "sent"}
          BY <2>1, HeldRow, WorkerShape DEF TypeInv
    <2>3. CASE RepairRow(worker[w].event, worker[w].status)
      <3>1. TablesTyped' /\ RowsKept
            BY <1>4, <2>2, <2>3, RepairTyped DEF Repair, TypeInv, TypeOK, TablesTyped
      <3>2. QED
            BY <1>4, <3>1, StopTypeInv DEF Repair
    <2>4. CASE UNCHANGED <<marker, event, task, used, usage>>
      <3>1. TablesTyped' /\ RowsKept
            BY <1>4, <2>4, TablesUnchanged DEF Repair, TypeInv, TypeOK, TablesTyped
      <3>2. QED
            BY <1>4, <3>1, StopTypeInv DEF Repair
    <2>5. QED
          BY <1>4, <2>3, <2>4 DEF Repair
  <1>5. CASE ConfirmFailure(w)
    <2> DEFINE e == worker[w].event
               row == [event[e] EXCEPT !.status = "failed", !.delivery = "failed", !.id = TRUE,
                                       !.reason = "semaphore_failed"]
               told == [task[e] EXCEPT !.reason = "semaphore_failed"]
               state == [step |-> "followUp", event |-> e, reason |-> "semaphore_failed"]
    <2>1. worker[w].step = "confirm" /\ worker[w].step \in EventSteps
          BY <1>5 DEF ConfirmFailure, EventSteps
    <2>2. e \in Events /\ event[e] \in Row /\ "semaphore_failed" \in Reasons
          BY <2>1, HeldRow DEF Reasons
    <2>3. row \in Row /\ (task[e] # NoRow => told \in Task)
          BY <2>2, RowExists DEF Row, Task
    <2>4. event' = [event EXCEPT ![e] = row] /\ Goto(w, state)
          BY <1>5, <2>2 DEF ConfirmFailure, TypeInv, TypeOK
    <2>5. task' = task \/ (task[e] # NoRow /\ task' = [task EXCEPT ![e] = told])
      <3>1. CASE task[e] = NoRow
            BY <1>5, <3>1 DEF ConfirmFailure
      <3>2. CASE task[e] # NoRow
        <4>1. task' = [task EXCEPT ![e].reason = "semaphore_failed"]
              BY <1>5, <3>2 DEF ConfirmFailure
        <4>2. QED
              BY <3>2, <4>1
      <3>3. QED
            BY <3>1, <3>2
    <2>6. state \in Worker /\ state.step = "followUp" /\ state.event = e
          BY <2>2, WorkerStates
    <2> HIDE DEF row, told, state, e
    <2>7. event' \in [Events -> Row \cup {NoRow}] /\ event'[e] # NoRow
          /\ \A f \in Events : event[f] # NoRow => event'[f] # NoRow
          BY <2>2, <2>3, <2>4, RowWritten
    <2>8. task' \in [Events -> Task \cup {NoRow}]
          /\ \A f \in Events : (task'[f] # NoRow) = (task[f] # NoRow)
          BY <2>2, <2>3, <2>5, TaskWritten DEF TypeInv, TypeOK
    <2>9. TablesTyped' /\ RowsKept
          BY <1>5, <2>7, <2>8 DEF ConfirmFailure, TypeInv, TypeOK, TablesTyped, RowsKept, Refs
    <2>10. QED
           BY <2>4, <2>6, <2>7, <2>9, TypeInvMoves DEF DispatchSteps
  <1>6. QED
        BY <1>1, <1>2, <1>3, <1>4, <1>5 DEF ReconcileStep

LEMMA OtherTypeInv ==
    ASSUME TypeInv,
           \/ \E w \in Workers : Abort(w)
           \/ \E e \in Events : Resolve(e) \/ Progress(e)
           \/ UNCHANGED vars
    PROVE  TypeInv'
  <1>1. ASSUME NEW w \in Workers, Abort(w) PROVE TypeInv'
    <2>1. killed' \subseteq Events
          BY <1>1, WorkerShape DEF Abort, TypeInv, TypeOK, EventSteps
    <2>2. clean' \in [Reminders -> BOOLEAN]
      <3>1. \A r \in Reminders : (clean[r] /\ ~Sending(w, r)) \in BOOLEAN
            BY DEF TypeInv, TypeOK, Sending
      <3>2. QED
            BY <1>1, <3>1 DEF Abort
    <2>3. TablesTyped' /\ RowsKept
          BY <1>1, <2>1, <2>2, TablesUnchanged DEF Abort, TypeInv, TypeOK, TablesTyped
    <2>4. QED
          BY <1>1, <2>3, StopTypeInv DEF Abort
  <1>2. ASSUME NEW e \in Events, Resolve(e) PROVE TypeInv'
    <2>1. PICK status \in {"contacted", "dismissed"} : task' = [task EXCEPT ![e].status = status]
          BY <1>2 DEF Resolve
    <2> DEFINE row == [task[e] EXCEPT !.status = status]
    <2>2. task[e] # NoRow /\ row \in Task
          BY <1>2, RowExists DEF Resolve, Task
    <2>3. task' = [task EXCEPT ![e] = row]
          BY <2>1 DEF TypeInv, TypeOK
    <2> HIDE DEF row
    <2>4. task' \in [Events -> Task \cup {NoRow}]
          /\ \A f \in Events : (task'[f] # NoRow) = (task[f] # NoRow)
          BY <2>2, <2>3, TaskWritten
    <2>5. QED
          BY <1>2, <2>4 DEF Resolve, TypeInv, TypeOK, Refs
  <1>3. ASSUME NEW e \in Events, Progress(e) PROVE TypeInv'
        BY <1>3 DEF Progress, TypeInv, TypeOK, Refs
  <1>4. ASSUME UNCHANGED vars PROVE TypeInv'
        BY <1>4 DEF vars, TypeInv, TypeOK, Refs
  <1>5. QED
        BY <1>1, <1>2, <1>3, <1>4

LEMMA TypeInvStep == TypeInv /\ [Next]_vars => TypeInv'
  <1> SUFFICES ASSUME TypeInv, [Next]_vars PROVE TypeInv'
      OBVIOUS
  <1>1. ASSUME NEW w \in Workers, DispatchStep(w) PROVE TypeInv'
        BY <1>1, SendTypeInv
  <1>2. ASSUME NEW w \in Workers, FollowUpReads(w) \/ InsertTask(w) PROVE TypeInv'
        BY <1>2, FollowUpTypeInv
  <1>3. ASSUME NEW w \in Workers, ReconcileStep(w) PROVE TypeInv'
        BY <1>3, ReconcileTypeInv
  <1>4. QED
        BY <1>1, <1>2, <1>3, OtherTypeInv DEF Next

\* The tables keep their shape, for any reminders, messages and workers.
THEOREM TypeCorrect == Spec => []TypeOK
  <1>1. TypeInv => TypeOK
        BY DEF TypeInv
  <1>2. QED
        BY <1>1, TypeInvInit, TypeInvStep, PTL DEF Spec
-----------------------------------------------------------------------------
(* What messages and the workers that have them in hand know of each other *)

PaidSteps == {"consume", "usage", "finish"}

ReconcileSteps == {"poll", "repair", "deliver", "confirm"}

\* A message in line is untouched; one that failed for good, or has an id, was taken or
\* refused accordingly.
RowSound(e) ==
    /\ event[e] # NoRow /\ event[e].status = "queued"
          => ~event[e].id /\ ~event[e].metaId /\ event[e].delivery = "none"
    /\ event[e] # NoRow /\ event[e].delivery = "failed"
          => event[e].status = "failed" /\ event[e].id
    /\ event[e] # NoRow /\ (event[e].id \/ event[e].metaId) => accepted[e] > 0
    /\ accepted[e] > 0 => event[e] # NoRow

\* What a worker's event is like at each step.
HandSound(state, rows, taken) ==
    /\ state.step \in {"send", "sent", "failed"} => rows[state.event].status = "queued"
    /\ state.step \in EventSteps \ {"send", "sent", "failed"} => rows[state.event].status # "queued"
    /\ state.step \in CarrySteps => rows[state.event].of = state.of
    /\ state.step \in {"sent"} \cup PaidSteps \cup ReconcileSteps => taken[state.event] > 0
    /\ state.step \in PaidSteps => rows[state.event].id
    /\ state.step = "failed" /\ state.metaId => taken[state.event] > 0

\* A message is dispatched by one worker.
Sole == \A v, w \in Workers :
           worker[v].step \in CarrySteps /\ worker[w].step \in CarrySteps
           /\ worker[v].event = worker[w].event => v = w

RowsSound == /\ \A e \in Events : RowSound(e)
             /\ \A w \in Workers : HandSound(worker[w], event, accepted)
             /\ Sole
LEMMA RowsSoundInit == Init => RowsSound
  BY DEF Init, RowsSound, RowSound, HandSound, Sole, EventSteps, CarrySteps, PaidSteps,
         ReconcileSteps

\* What a step does to messages: they stay of their reminder, keep their id, and only the
\* worker that dispatches a message takes it out of the line.
RowsMoveOn(w) ==
    \A e \in Events :
        /\ accepted[e] > 0 => accepted'[e] > 0
        /\ event[e] # NoRow =>
              /\ event'[e].of = event[e].of
              /\ event[e].id => event'[e].id
              /\ event[e].status # "queued" => event'[e].status # "queued"
              /\ \/ event[e].status # "queued"
                 \/ event'[e].status = "queued"
                 \/ worker[w].step \in CarrySteps /\ worker[w].event = e

LEMMA RowsSoundMoves ==
    ASSUME TypeInv, RowsSound, NEW w \in Workers, NEW state \in Worker, Goto(w, state),
           \A e \in Events : RowSound(e)',
           RowsMoveOn(w),
           HandSound(state, event', accepted'),
           state.step \in CarrySteps => \/ /\ worker[w].step \in CarrySteps
                                          /\ state.event = worker[w].event
                                       \/ event[state.event] = NoRow
    PROVE  RowsSound'
  <1>1. worker \in [Workers -> Worker] /\ worker' = [worker EXCEPT ![w] = state]
        BY DEF TypeInv, TypeOK, Goto
  <1>2. worker'[w] = state /\ \A v \in Workers : v # w => worker'[v] = worker[v]
        BY <1>1
  <1>3. ASSUME NEW v \in Workers, v # w
        PROVE  HandSound(worker[v], event', accepted')
    <2>1. HandSound(worker[v], event, accepted)
          BY DEF RowsSound
    <2>2. worker[v].step \in EventSteps
             => worker[v].event \in Events /\ event[worker[v].event] # NoRow
          BY HeldRow
    <2>3. worker[v].step \in CarrySteps /\ worker[w].step \in CarrySteps
             => worker[v].event # worker[w].event
          BY <1>3 DEF RowsSound, Sole
    <2>4. QED
          BY <2>1, <2>2, <2>3
             DEF RowsMoveOn, HandSound, EventSteps, CarrySteps, PaidSteps, ReconcileSteps
  <1>4. ASSUME NEW v \in Workers PROVE HandSound(worker'[v], event', accepted')
        BY <1>2, <1>3
  <1>5. ASSUME NEW u \in Workers, NEW v \in Workers, u # v,
               worker'[u].step \in CarrySteps, worker'[v].step \in CarrySteps,
               worker'[u].event = worker'[v].event
        PROVE  FALSE
    <2>1. \A x \in Workers : worker[x].step \in CarrySteps => event[worker[x].event] # NoRow
          BY DEF TypeInv, Refs, EventSteps
    <2>2. QED
          BY <1>2, <1>5, <2>1 DEF RowsSound, Sole
  <1>6. Sole'
        BY <1>5 DEF Sole
  <1>7. QED
        BY <1>4, <1>6 DEF RowsSound

\* A step that changes no message.
LEMMA RowsSoundQuiet ==
    ASSUME TypeInv, RowsSound, NEW w \in Workers, NEW state \in Worker, Goto(w, state),
           UNCHANGED <<event, accepted>>,
           HandSound(state, event, accepted),
           state.step \in CarrySteps => worker[w].step \in CarrySteps
                                        /\ state.event = worker[w].event
    PROVE  RowsSound'
  <1>1. \A e \in Events : RowSound(e)'
        BY DEF RowsSound, RowSound
  <1>2. RowsMoveOn(w)
        BY DEF RowsMoveOn
  <1>3. QED
        BY <1>1, <1>2, RowsSoundMoves

LEMMA RowsSoundStops ==
    ASSUME TypeInv, RowsSound, NEW w \in Workers, Goto(w, Idle),
           \A e \in Events : RowSound(e)', RowsMoveOn(w)
    PROVE  RowsSound'
  <1>1. Idle \in Worker /\ Idle.step \notin EventSteps /\ Idle.step # "failed"
        BY WorkerStates DEF EventSteps, CarrySteps
  <1>2. HandSound(Idle, event', accepted') /\ Idle.step \notin CarrySteps
        BY <1>1 DEF HandSound, EventSteps, CarrySteps, PaidSteps, ReconcileSteps
  <1>3. QED
        BY <1>1, <1>2, RowsSoundMoves

\* The provider takes the message of a worker that sends it.
LEMMA TakeMoves ==
    ASSUME TypeInv, RowsSound, NEW w \in Workers, worker[w].step = "send",
           Take(worker[w].event) \/ UNCHANGED accepted, UNCHANGED event
    PROVE  /\ \A e \in Events : RowSound(e)'
           /\ RowsMoveOn(w)
           /\ Take(worker[w].event) => accepted'[worker[w].event] > 0
           /\ event[worker[w].event].status = "queued"
           /\ event[worker[w].event].of = worker[w].of
  <1>1. worker[w].event \in Events /\ event[worker[w].event] # NoRow
        BY HeldRow DEF EventSteps, CarrySteps
  <1>2. accepted \in [Events -> Nat]
        BY DEF TypeInv, TypeOK
  <1>3. \A e \in Events : /\ accepted[e] > 0 => accepted'[e] > 0
                          /\ accepted'[e] > 0 => accepted[e] > 0 \/ e = worker[w].event
        BY <1>1, <1>2 DEF Take
  <1>4. Take(worker[w].event) => accepted'[worker[w].event] > 0
        BY <1>1, <1>2 DEF Take
  <1>5. HandSound(worker[w], event, accepted)
        BY DEF RowsSound
  <1>6. event[worker[w].event].status = "queued" /\ event[worker[w].event].of = worker[w].of
        BY <1>5 DEF HandSound, CarrySteps
  <1>7. \A e \in Events : RowSound(e)'
        BY <1>1, <1>3 DEF RowsSound, RowSound
  <1>8. RowsMoveOn(w)
        BY <1>3 DEF RowsMoveOn
  <1>9. QED
        BY <1>4, <1>6, <1>7, <1>8

LEMMA ProviderRowsSound ==
    ASSUME TypeInv, RowsSound, NEW w \in Workers,
           \/ ProviderAccepts(w) \/ ProviderRejects(w) \/ ProviderRejectsFalsely(w)
           \/ ProviderBusy(w) \/ ProviderUnknown(w)
    PROVE  RowsSound'
  <1> DEFINE e == worker[w].event
             sent == [step |-> "sent", of |-> worker[w].of, origin |-> worker[w].origin,
                      event |-> e]
             failed(x, b) == [step |-> "failed", of |-> worker[w].of,
                              origin |-> worker[w].origin, event |-> e, reason |-> x, metaId |-> b]
             again == [worker[w] EXCEPT !.retries = 1]
  <1>1. worker[w].step = "send" /\ worker[w].step \in CarrySteps
        /\ worker[w].step \in EventSteps /\ worker[w].step \in DispatchSteps
        BY DEF ProviderAccepts, ProviderRejects, ProviderRejectsFalsely, ProviderBusy,
               ProviderUnknown, CarrySteps, EventSteps, DispatchSteps
  <1>2. UNCHANGED event /\ (Take(e) \/ UNCHANGED accepted)
        BY DEF ProviderAccepts, ProviderRejects, ProviderRejectsFalsely, ProviderBusy,
               ProviderUnknown, TakesAnyway
  <1>3. /\ \A f \in Events : RowSound(f)'
        /\ RowsMoveOn(w)
        /\ Take(e) => accepted'[e] > 0
        /\ event[e].status = "queued" /\ event[e].of = worker[w].of
        BY <1>1, <1>2, TakeMoves
  <1>4. e \in Events /\ worker[w].of \in Reminders /\ worker[w].origin \in Events \cup {Automation}
        /\ worker[w].retries \in 0 .. 1 /\ worker[w] \in Worker
        BY <1>1, WorkerShape DEF TypeInv
  <1>5. CASE Take(e) /\ Goto(w, sent)
    <2>1. sent \in Worker /\ sent.step = "sent" /\ sent.event = e /\ sent.of = worker[w].of
          BY <1>4, WorkerStates
    <2> HIDE DEF sent, e
    <2>2. HandSound(sent, event', accepted')
          BY <1>2, <1>3, <1>5, <2>1 DEF HandSound, EventSteps, CarrySteps, PaidSteps, ReconcileSteps
    <2>3. QED
          BY <1>1, <1>3, <1>5, <2>1, <2>2, RowsSoundMoves DEF e
  <1>6. ASSUME NEW x \in Reasons, NEW b \in BOOLEAN, Fails(w, x, b), b => Take(e)
        PROVE  RowsSound'
    <2>1. failed(x, b) \in Worker /\ failed(x, b).step = "failed" /\ failed(x, b).event = e
          /\ failed(x, b).of = worker[w].of /\ failed(x, b).metaId = b
          BY <1>4, WorkerStates
    <2>2. Goto(w, failed(x, b))
          BY <1>6 DEF Fails
    <2> HIDE DEF failed, e
    <2>3. HandSound(failed(x, b), event', accepted')
          BY <1>2, <1>3, <1>6, <2>1 DEF HandSound, EventSteps, CarrySteps, PaidSteps, ReconcileSteps
    <2>4. QED
          BY <1>1, <1>3, <2>1, <2>2, <2>3, RowsSoundMoves DEF e
  <1>7. CASE Goto(w, again)
    <2>1. again \in Worker /\ again.step = "send" /\ again.event = e /\ again.of = worker[w].of
          BY <1>1, <1>4 DEF Worker
    <2> HIDE DEF again, e
    <2>2. HandSound(again, event', accepted')
          BY <1>2, <1>3, <2>1 DEF HandSound, EventSteps, CarrySteps, PaidSteps, ReconcileSteps
    <2>3. QED
          BY <1>1, <1>3, <1>7, <2>1, <2>2, RowsSoundMoves DEF e
  <1>8. CASE ProviderAccepts(w)
        BY <1>5, <1>8 DEF ProviderAccepts, Proceed
  <1>9. CASE ProviderRejects(w)
        BY <1>6, <1>9 DEF ProviderRejects, Reasons
  <1>10. CASE ProviderRejectsFalsely(w)
         BY <1>6, <1>10 DEF ProviderRejectsFalsely, TakesAnyway, Reasons
  <1>11. CASE ProviderBusy(w)
         BY <1>6, <1>7, <1>11 DEF ProviderBusy, Reasons
  <1>12. CASE ProviderUnknown(w)
         BY <1>6, <1>12 DEF ProviderUnknown, Reasons
  <1>13. QED
         BY <1>8, <1>9, <1>10, <1>11, <1>12

\* A worker writes the row of its event.
LEMMA RowSoundWritten ==
    ASSUME TypeInv, RowsSound, NEW e \in Events, NEW row \in Row,
           event' = [event EXCEPT ![e] = row], UNCHANGED accepted,
           row.status = "queued" => ~row.id /\ ~row.metaId /\ row.delivery = "none",
           row.delivery = "failed" => row.status = "failed" /\ row.id,
           row.id \/ row.metaId => accepted[e] > 0
    PROVE  \A f \in Events : RowSound(f)'
  <1>1. event'[e] = row /\ row # NoRow /\ \A f \in Events : f # e => event'[f] = event[f]
        BY NoRowAssumption DEF TypeInv, TypeOK
  <1>2. \A f \in Events : RowSound(f)
        BY DEF RowsSound
  <1>3. QED
        BY <1>1, <1>2 DEF RowSound

LEMMA RowsMoveOnWritten ==
    ASSUME TypeInv, NEW w \in Workers, NEW e \in Events, NEW row,
           event' = [event EXCEPT ![e] = row], UNCHANGED accepted,
           event[e] # NoRow =>
              /\ row.of = event[e].of
              /\ event[e].id => row.id
              /\ row.status # "queued"
              /\ event[e].status # "queued"
                 \/ (worker[w].step \in CarrySteps /\ worker[w].event = e)
    PROVE  RowsMoveOn(w)
  <1>1. event'[e] = row /\ \A f \in Events : f # e => event'[f] = event[f]
        BY DEF TypeInv, TypeOK
  <1>2. QED
        BY <1>1 DEF RowsMoveOn

LEMMA SendRowsSound ==
    ASSUME TypeInv, RowsSound, NEW w \in Workers, DispatchStep(w)
    PROVE  RowsSound'
  <1>1. ASSUME NEW r \in Reminders, NEW o \in Events \cup {Automation}, Begin(w, r, o),
               UNCHANGED <<event, accepted>>
        PROVE  RowsSound'
    <2> DEFINE state == [step |-> "cap", of |-> r, origin |-> o]
    <2>1. state \in Worker /\ state.step = "cap" /\ Goto(w, state)
          BY <1>1, WorkerStates DEF Begin
    <2> HIDE DEF state
    <2>2. HandSound(state, event, accepted) /\ state.step \notin CarrySteps
          BY <2>1 DEF HandSound, EventSteps, CarrySteps, PaidSteps, ReconcileSteps
    <2>3. QED
          BY <1>1, <2>1, <2>2, RowsSoundQuiet
  <1>2. ASSUME NEW r \in Reminders, SendBegin(w, r) PROVE RowsSound'
        BY <1>1, <1>2 DEF SendBegin
  <1>3. ASSUME NEW e \in Events, RetryBegin(w, e) PROVE RowsSound'
    <2>1. event[e].of \in Reminders
          BY <1>3, RowExists DEF RetryBegin, Row
    <2>2. QED
          BY <1>1, <1>3, <2>1 DEF RetryBegin
  <1>4. (\A f \in Events : RowSound(f)) /\ HandSound(worker[w], event, accepted)
        BY DEF RowsSound
  <1>5. ASSUME UNCHANGED <<event, accepted>>, Goto(w, Idle) PROVE RowsSound'
        BY <1>4, <1>5, RowsSoundStops DEF RowSound, RowsMoveOn
  <1>6. CASE CheckCap(w)
    <2> DEFINE state == [worker[w] EXCEPT !.step = "queue"]
    <2>1. CASE Goto(w, state)
      <3>1. worker[w].step = "cap" /\ UNCHANGED <<event, accepted>> /\ worker[w] \in Worker
            BY <1>6, WorkerShape DEF CheckCap, TypeInv
      <3>2. state \in Worker /\ state.step = "queue"
            BY <3>1 DEF Worker
      <3> HIDE DEF state
      <3>3. HandSound(state, event, accepted) /\ state.step \notin CarrySteps
            BY <3>2 DEF HandSound, EventSteps, CarrySteps, PaidSteps, ReconcileSteps
      <3>4. QED
            BY <2>1, <3>1, <3>2, <3>3, RowsSoundQuiet
    <2>2. QED
          BY <1>5, <1>6, <2>1 DEF CheckCap
  <1>7. CASE QueueEvent(w)
    <2>1. CASE Goto(w, Idle) /\ UNCHANGED event
          BY <1>5, <1>7, <2>1 DEF QueueEvent
    <2> DEFINE row == [of |-> worker[w].of, status |-> "queued", id |-> FALSE,
                       metaId |-> FALSE, delivery |-> "none", reason |-> "none"]
               state(e) == [step |-> "send", of |-> worker[w].of, origin |-> worker[w].origin,
                            event |-> e, retries |-> 0]
    <2>2. ASSUME NEW e \in Events, event[e] = NoRow, event' = [event EXCEPT ![e] = row],
                 Goto(w, state(e))
          PROVE  RowsSound'
      <3>1. worker[w].of \in Reminders /\ worker[w].origin \in Events \cup {Automation}
            /\ accepted' = accepted
            BY <1>7, WorkerShape DEF QueueEvent, DispatchSteps, TypeInv
      <3>2. row \in Row /\ row.status = "queued" /\ ~row.id /\ ~row.metaId
            /\ row.delivery = "none" /\ row.of = worker[w].of
            BY <3>1 DEF Row
      <3>3. state(e).step = "send" /\ state(e).event = e /\ state(e).of = worker[w].of
            OBVIOUS
      <3>4. state(e) \in Worker
        <4>1. 0 \in 0 .. 1
              OBVIOUS
        <4>2. QED
              BY <3>1, <4>1, WorkerStates
      <3> HIDE DEF row, state
      <3>5. \A f \in Events : RowSound(f)'
            BY <2>2, <3>1, <3>2, RowSoundWritten
      <3>6. RowsMoveOn(w)
            BY <2>2, <3>1, RowsMoveOnWritten
      <3>7. event'[e] = row
            BY <2>2 DEF TypeInv, TypeOK
      <3>8. HandSound(state(e), event', accepted')
            BY <3>2, <3>3, <3>7 DEF HandSound, EventSteps, CarrySteps, PaidSteps, ReconcileSteps
      <3>9. QED
            BY <2>2, <3>3, <3>4, <3>5, <3>6, <3>8, RowsSoundMoves
    <2>3. QED
          BY <1>7, <2>1, <2>2 DEF QueueEvent
  <1>8. CASE ProviderAccepts(w) \/ ProviderRejects(w) \/ ProviderRejectsFalsely(w)
             \/ ProviderBusy(w) \/ ProviderUnknown(w)
        BY <1>8, ProviderRowsSound
  <1>9. CASE RecordSent(w)
    <2> DEFINE e == worker[w].event
               row == [event[e] EXCEPT !.status = "sent", !.delivery = "sent", !.id = TRUE]
               state == [step |-> "consume", of |-> worker[w].of, origin |-> worker[w].origin,
                         event |-> e]
    <2>1. worker[w].step = "sent" /\ worker[w].step \in DispatchSteps
          /\ worker[w].step \in EventSteps /\ worker[w].step \in CarrySteps
          /\ accepted' = accepted
          BY <1>9 DEF RecordSent, DispatchSteps, EventSteps, CarrySteps
    <2>2. e \in Events /\ event[e] \in Row
          BY <2>1, HeldRow
    <2>3. row \in Row /\ row.status = "sent" /\ row.delivery = "sent" /\ row.id
          /\ row.of = event[e].of
          BY <2>2 DEF Row
    <2>4. event' = [event EXCEPT ![e] = row] /\ Goto(w, state)
          BY <1>9, <2>2 DEF RecordSent, Proceed, TypeInv, TypeOK
    <2>5. state \in Worker /\ state.step = "consume" /\ state.event = e
          /\ state.of = worker[w].of
          BY <2>1, <2>2, WorkerStates, WorkerShape DEF TypeInv
    <2>6. accepted[e] > 0 /\ event[e].of = worker[w].of
          BY <1>4, <2>1 DEF HandSound
    <2> HIDE DEF row, state
    <2>7. \A f \in Events : RowSound(f)'
          BY <2>1, <2>2, <2>3, <2>4, <2>6, RowSoundWritten
    <2>8. RowsMoveOn(w)
          BY <2>1, <2>2, <2>3, <2>4, RowsMoveOnWritten
    <2>9. event'[e] = row
          BY <2>2, <2>4 DEF TypeInv, TypeOK
    <2>10. HandSound(state, event', accepted')
           BY <2>1, <2>3, <2>5, <2>6, <2>9
              DEF HandSound, EventSteps, CarrySteps, PaidSteps, ReconcileSteps
    <2>11. QED
           BY <2>1, <2>4, <2>5, <2>7, <2>8, <2>10, RowsSoundMoves
  <1>10. ASSUME NEW s \in {"usage", "finish"}, worker[w].step \in {"consume", "usage"},
                Proceed(w, s), UNCHANGED <<event, accepted>>
         PROVE  RowsSound'
    <2> DEFINE state == [step |-> s, of |-> worker[w].of, origin |-> worker[w].origin,
                         event |-> worker[w].event]
    <2>1. worker[w].step \in DispatchSteps /\ worker[w].step \in EventSteps
          /\ worker[w].step \in CarrySteps
          BY <1>10 DEF DispatchSteps, EventSteps, CarrySteps
    <2>2. state \in Worker /\ state.step = s /\ state.event = worker[w].event
          /\ state.of = worker[w].of /\ Goto(w, state)
          BY <1>10, <2>1, WorkerStates, WorkerShape DEF TypeInv, Proceed
    <2> HIDE DEF state
    <2>3. HandSound(state, event, accepted)
          BY <1>4, <1>10, <2>2
             DEF HandSound, EventSteps, CarrySteps, PaidSteps, ReconcileSteps
    <2>4. QED
          BY <1>10, <2>1, <2>2, <2>3, RowsSoundQuiet
  <1>11. CASE Consume(w) \/ InsertUsage(w)
         BY <1>10, <1>11 DEF Consume, InsertUsage
  <1>12. CASE MarkSent(w) \/ AttachRetry(w)
         BY <1>5, <1>12 DEF MarkSent, AttachRetry
  <1>13. CASE RecordFailed(w)
    <2> DEFINE e == worker[w].event
               row == [event[e] EXCEPT !.status = "failed", !.reason = worker[w].reason,
                                       !.metaId = worker[w].metaId]
               state == [step |-> "followUp", event |-> e, reason |-> worker[w].reason]
    <2>1. worker[w].step = "failed" /\ worker[w].step \in EventSteps
          /\ worker[w].step \in CarrySteps /\ accepted' = accepted
          BY <1>13 DEF RecordFailed, EventSteps, CarrySteps
    <2>2. e \in Events /\ event[e] \in Row /\ event[e] # NoRow
          /\ worker[w].reason \in Reasons /\ worker[w].metaId \in BOOLEAN
          BY <2>1, HeldRow, WorkerShape DEF TypeInv
    <2>3. event[e].status = "queued" /\ (worker[w].metaId => accepted[e] > 0)
          BY <1>4, <2>1 DEF HandSound
    <2>4. ~event[e].id /\ event[e].delivery = "none"
          BY <1>4, <2>2, <2>3 DEF RowSound
    <2>5. row \in Row /\ row.status = "failed" /\ row.delivery = "none" /\ ~row.id
          /\ row.of = event[e].of /\ row.metaId = worker[w].metaId
          BY <2>2, <2>4 DEF Row
    <2>6. event' = [event EXCEPT ![e] = row] /\ Goto(w, state)
          BY <1>13, <2>2 DEF RecordFailed, TypeInv, TypeOK
    <2>7. state \in Worker /\ state.step = "followUp" /\ state.event = e
          BY <2>2, WorkerStates
    <2> HIDE DEF row, state
    <2>8. \A f \in Events : RowSound(f)'
          BY <2>1, <2>2, <2>3, <2>5, <2>6, RowSoundWritten
    <2>9. RowsMoveOn(w)
          BY <2>1, <2>2, <2>4, <2>5, <2>6, RowsMoveOnWritten
    <2>10. event'[e] = row
           BY <2>2, <2>6 DEF TypeInv, TypeOK
    <2>11. HandSound(state, event', accepted') /\ state.step \notin CarrySteps
           BY <2>5, <2>7, <2>10
              DEF HandSound, EventSteps, CarrySteps, PaidSteps, ReconcileSteps
    <2>12. QED
           BY <2>6, <2>7, <2>8, <2>9, <2>11, RowsSoundMoves
  <1>14. QED
         BY <1>2, <1>3, <1>6, <1>7, <1>8, <1>9, <1>11, <1>12, <1>13 DEF DispatchStep

LEMMA FollowUpRowsSound ==
    ASSUME TypeInv, RowsSound, NEW w \in Workers, FollowUpReads(w) \/ InsertTask(w)
    PROVE  RowsSound'
  <1>1. HandSound(worker[w], event, accepted) /\ \A f \in Events : RowSound(f)
        BY DEF RowsSound
  <1>2. CASE FollowUpReads(w)
    <2> DEFINE reason == IF event[worker[w].event].reason = "none" THEN worker[w].reason
                         ELSE event[worker[w].event].reason
               state == [step |-> "insertTask", event |-> worker[w].event, reason |-> reason]
    <2>1. worker[w].step = "followUp" /\ worker[w].step \in EventSteps
          /\ UNCHANGED <<event, accepted>>
          BY <1>2 DEF FollowUpReads, EventSteps
    <2>2. worker[w].event \in Events /\ event[worker[w].event] \in Row
          /\ worker[w].reason \in Reasons
          BY <2>1, HeldRow, WorkerShape DEF TypeInv
    <2>3. reason \in Reasons /\ Goto(w, state)
          BY <1>2, <2>2 DEF FollowUpReads, Row
    <2> HIDE DEF reason
    <2>4. state \in Worker /\ state.step = "insertTask" /\ state.event = worker[w].event
          BY <2>2, <2>3, WorkerStates
    <2> HIDE DEF state
    <2>5. HandSound(state, event, accepted) /\ state.step \notin CarrySteps
          BY <1>1, <2>1, <2>4 DEF HandSound, EventSteps, CarrySteps, PaidSteps, ReconcileSteps
    <2>6. QED
          BY <2>1, <2>3, <2>4, <2>5, RowsSoundQuiet
  <1>3. CASE InsertTask(w)
        BY <1>1, <1>3, RowsSoundStops DEF InsertTask, RowSound, RowsMoveOn
  <1>4. QED
        BY <1>2, <1>3

LEMMA ReconcileRowsSound ==
    ASSUME TypeInv, RowsSound, NEW w \in Workers, ReconcileStep(w)
    PROVE  RowsSound'
  <1>1. HandSound(worker[w], event, accepted) /\ \A f \in Events : RowSound(f)
        BY DEF RowsSound
  <1>2. ASSUME UNCHANGED <<event, accepted>>, Goto(w, Idle) PROVE RowsSound'
        BY <1>1, <1>2, RowsSoundStops DEF RowSound, RowsMoveOn
  <1>3. ASSUME NEW e \in Events, PassReads(w, e) PROVE RowsSound'
    <2> DEFINE state == [step |-> "poll", event |-> e, id |-> event[e].id]
    <2>1. event[e] # NoRow /\ event[e] \in Row /\ Candidate(event[e])
          /\ UNCHANGED <<event, accepted>>
          BY <1>3, RowExists DEF PassReads
    <2>2. accepted[e] > 0 /\ event[e].status # "queued"
          BY <1>1, <2>1 DEF RowSound, Candidate, FalselyRejected
    <2>3. state \in Worker /\ state.step = "poll" /\ state.event = e /\ Goto(w, state)
          BY <1>3, <2>1, WorkerStates DEF Row, PassReads
    <2> HIDE DEF state
    <2>4. HandSound(state, event, accepted) /\ state.step \notin CarrySteps
          BY <2>2, <2>3 DEF HandSound, EventSteps, CarrySteps, PaidSteps, ReconcileSteps
    <2>5. QED
          BY <2>1, <2>3, <2>4, RowsSoundQuiet
  <1>4. CASE Poll(w)
    <2> DEFINE e == worker[w].event
               confirm == [step |-> "confirm", event |-> e]
               write(s) == [step |-> s, event |-> e, status |-> fate[e]]
    <2>1. worker[w].step = "poll" /\ worker[w].step \in EventSteps
          /\ UNCHANGED <<event, accepted>>
          BY <1>4 DEF Poll, EventSteps
    <2>2. e \in Events /\ accepted[e] > 0 /\ event[e].status # "queued"
          BY <1>1, <2>1, HeldRow DEF HandSound, EventSteps, CarrySteps, ReconcileSteps
    <2>3. ASSUME NEW state \in Worker, state.step \in {"confirm", "deliver", "repair"},
                 state.event = e, Goto(w, state)
          PROVE  RowsSound'
      <3>1. HandSound(state, event, accepted) /\ state.step \notin CarrySteps
            BY <2>2, <2>3 DEF HandSound, EventSteps, CarrySteps, PaidSteps, ReconcileSteps
      <3>2. QED
            BY <2>1, <2>3, <3>1, RowsSoundQuiet
    <2>4. CASE Goto(w, confirm)
      <3>1. confirm \in Worker /\ confirm.step = "confirm" /\ confirm.event = e
            BY <2>2, WorkerStates
      <3> HIDE DEF confirm, e
      <3>2. QED
            BY <2>3, <2>4, <3>1
    <2>5. ASSUME NEW s \in {"deliver", "repair"}, Goto(w, write(s)), fate[e] \in {"queued", "sent"}
          PROVE  RowsSound'
      <3>1. write(s) \in Worker /\ write(s).step = s /\ write(s).event = e
            BY <2>2, <2>5, WorkerStates
      <3> HIDE DEF write, e
      <3>2. QED
            BY <2>3, <2>5, <3>1
    <2>6. QED
          BY <1>2, <1>4, <2>1, <2>4, <2>5 DEF Poll
  <1>5. ASSUME NEW row \in Row, worker[w].step \in ReconcileSteps, UNCHANGED accepted,
               event' = [event EXCEPT ![worker[w].event] = row],
               row.of = event[worker[w].event].of,
               event[worker[w].event].id => row.id,
               row.status # "queued",
               row.delivery = "failed" => row.status = "failed" /\ row.id
        PROVE  (\A f \in Events : RowSound(f)') /\ RowsMoveOn(w)
    <2> DEFINE e == worker[w].event
    <2>1. worker[w].step \in EventSteps
          BY <1>5 DEF ReconcileSteps, EventSteps
    <2>2. e \in Events /\ accepted[e] > 0 /\ event[e].status # "queued"
          BY <1>1, <1>5, <2>1, HeldRow DEF HandSound, EventSteps, CarrySteps, ReconcileSteps
    <2>3. QED
          BY <1>5, <2>2, RowSoundWritten, RowsMoveOnWritten
  <1>6. CASE UpdateDelivery(w)
    <2> DEFINE e == worker[w].event
               row == [event[e] EXCEPT !.delivery = worker[w].status]
    <2>1. worker[w].step \in ReconcileSteps /\ worker[w].step = "deliver"
          /\ worker[w].step \in EventSteps /\ accepted' = accepted /\ Goto(w, Idle)
          BY <1>6 DEF UpdateDelivery, EventSteps, ReconcileSteps
    <2>2. e \in Events /\ event[e] \in Row /\ worker[w].status \in {"queued", "sent"}
          BY <2>1, HeldRow, WorkerShape DEF TypeInv
    <2>3. row \in Row /\ row.of = event[e].of /\ row.id = event[e].id
          /\ row.status = event[e].status /\ row.delivery # "failed"
          BY <2>2 DEF Row
    <2>4. event' = event \/ event' = [event EXCEPT ![e] = row]
          BY <1>6, <2>2 DEF UpdateDelivery, TypeInv, TypeOK
    <2>5. event[e].status # "queued"
          BY <1>1, <2>1 DEF HandSound, EventSteps, CarrySteps, ReconcileSteps
    <2> HIDE DEF row
    <2>6. CASE event' = [event EXCEPT ![e] = row]
      <3>1. (\A f \in Events : RowSound(f)') /\ RowsMoveOn(w)
            BY <1>5, <2>1, <2>2, <2>3, <2>5, <2>6
      <3>2. QED
            BY <2>1, <3>1, RowsSoundStops
    <2>7. QED
          BY <1>2, <2>1, <2>4, <2>6
  <1>7. CASE Repair(w)
    <2> DEFINE e == worker[w].event
               row == [event[e] EXCEPT !.status = "sent", !.delivery = worker[w].status,
                                       !.id = TRUE, !.reason = "none"]
    <2>1. worker[w].step \in ReconcileSteps /\ worker[w].step = "repair"
          /\ worker[w].step \in EventSteps /\ accepted' = accepted /\ Goto(w, Idle)
          BY <1>7 DEF Repair, EventSteps, ReconcileSteps
    <2>2. e \in Events /\ event[e] \in Row /\ event[e] # NoRow
          /\ worker[w].status \in {"queued", "sent"}
          BY <2>1, HeldRow, WorkerShape DEF TypeInv
    <2>3. row \in Row /\ row.of = event[e].of /\ row.id
          /\ row.status = "sent" /\ row.delivery # "failed"
          BY <2>2 DEF Row
    <2>4. event' = event \/ event' = [event EXCEPT ![e] = row]
          BY <1>7, <2>2, RepairTyped DEF Repair
    <2> HIDE DEF row
    <2>5. CASE event' = [event EXCEPT ![e] = row]
      <3>1. (\A f \in Events : RowSound(f)') /\ RowsMoveOn(w)
            BY <1>5, <2>1, <2>2, <2>3, <2>5
      <3>2. QED
            BY <2>1, <3>1, RowsSoundStops
    <2>6. QED
          BY <1>2, <2>1, <2>4, <2>5
  <1>8. CASE ConfirmFailure(w)
    <2> DEFINE e == worker[w].event
               row == [event[e] EXCEPT !.status = "failed", !.delivery = "failed", !.id = TRUE,
                                       !.reason = "semaphore_failed"]
               state == [step |-> "followUp", event |-> e, reason |-> "semaphore_failed"]
    <2>1. worker[w].step \in ReconcileSteps /\ worker[w].step \in EventSteps
          /\ accepted' = accepted
          BY <1>8 DEF ConfirmFailure, EventSteps, ReconcileSteps
    <2>2. e \in Events /\ event[e] \in Row /\ "semaphore_failed" \in Reasons
          BY <2>1, HeldRow DEF Reasons
    <2>3. row \in Row /\ row.of = event[e].of /\ row.id
          /\ row.status = "failed" /\ row.delivery = "failed"
          BY <2>2 DEF Row
    <2>4. event' = [event EXCEPT ![e] = row] /\ Goto(w, state)
          BY <1>8, <2>2 DEF ConfirmFailure, TypeInv, TypeOK
    <2>5. state \in Worker /\ state.step = "followUp" /\ state.event = e
          BY <2>2, WorkerStates
    <2> HIDE DEF row, state
    <2>6. (\A f \in Events : RowSound(f)') /\ RowsMoveOn(w)
          BY <1>5, <2>1, <2>2, <2>3, <2>4
    <2>7. event'[e] = row
          BY <2>2, <2>4 DEF TypeInv, TypeOK
    <2>8. HandSound(state, event', accepted') /\ state.step \notin CarrySteps
          BY <2>3, <2>5, <2>7 DEF HandSound, EventSteps, CarrySteps, PaidSteps, ReconcileSteps
    <2>9. QED
          BY <2>4, <2>5, <2>6, <2>8, RowsSoundMoves
  <1>9. QED
        BY <1>3, <1>4, <1>6, <1>7, <1>8 DEF ReconcileStep

LEMMA RowsSoundStep == TypeInv /\ RowsSound /\ [Next]_vars => RowsSound'
  <1> SUFFICES ASSUME TypeInv, RowsSound, [Next]_vars PROVE RowsSound'
      OBVIOUS
  <1>1. \A f \in Events : RowSound(f)
        BY DEF RowsSound
  <1>2. ASSUME NEW w \in Workers, DispatchStep(w) PROVE RowsSound'
        BY <1>2, SendRowsSound
  <1>3. ASSUME NEW w \in Workers, FollowUpReads(w) \/ InsertTask(w) PROVE RowsSound'
        BY <1>3, FollowUpRowsSound
  <1>4. ASSUME NEW w \in Workers, ReconcileStep(w) PROVE RowsSound'
        BY <1>4, ReconcileRowsSound
  <1>5. ASSUME NEW w \in Workers, Abort(w) PROVE RowsSound'
        BY <1>1, <1>5, RowsSoundStops DEF Abort, RowSound, RowsMoveOn
  <1>6. CASE UNCHANGED <<event, accepted, worker>>
        BY <1>6 DEF RowsSound, RowSound, HandSound, Sole
  <1>7. (\E e \in Events : Resolve(e) \/ Progress(e)) \/ UNCHANGED vars
           => UNCHANGED <<event, accepted, worker>>
        BY DEF Resolve, Progress, vars
  <1>8. QED
        BY <1>2, <1>3, <1>4, <1>5, <1>6, <1>7 DEF Next

\* A failure that the provider has confirmed stays confirmed and failed, whatever answers
\* are still on their way (reconcileRecentMessages, repairFalseRejection).
THEOREM ConfirmedFailuresStay == Spec => ConfirmedFailureStays
  <1> DEFINE A == \A e \in Events :
                     event[e] # NoRow /\ event[e].delivery = "failed" =>
                         event'[e].delivery = "failed" /\ event'[e].status = "failed"
  <1>1. TypeInv /\ RowsSound /\ [Next]_vars => [A]_vars
    <2> SUFFICES ASSUME TypeInv, RowsSound, Next,
                        NEW e \in Events, event[e] # NoRow, event[e].delivery = "failed"
                 PROVE  event'[e].delivery = "failed" /\ event'[e].status = "failed"
        OBVIOUS
    <2>1. event[e] \in Row /\ event[e].status = "failed" /\ event[e].id
          BY RowExists DEF RowsSound, RowSound
    <2>2. ASSUME NEW w \in Workers, DispatchStep(w) PROVE event'[e] = event[e]
      <3>1. worker[w].step \in {"sent", "failed"} => worker[w].event # e
            BY <2>1 DEF RowsSound, HandSound
      <3>2. CASE RecordSent(w) \/ RecordFailed(w)
            BY <3>1, <3>2 DEF RecordSent, RecordFailed, TypeInv, TypeOK
      <3>3. CASE QueueEvent(w)
            BY <3>3 DEF QueueEvent, TypeInv, TypeOK
      <3>4. CASE UNCHANGED event
            BY <3>4
      <3>5. QED
            BY <2>2, <3>2, <3>3, <3>4
               DEF DispatchStep, SendBegin, RetryBegin, CheckCap, ProviderAccepts,
                   ProviderRejects, ProviderRejectsFalsely, ProviderBusy, ProviderUnknown,
                   Consume, InsertUsage, MarkSent, AttachRetry
    <2>3. ASSUME NEW w \in Workers, ReconcileStep(w)
          PROVE  event'[e].delivery = "failed" /\ event'[e].status = "failed"
      <3>1. CASE UpdateDelivery(w)
            BY <2>1, <3>1 DEF UpdateDelivery, TypeInv, TypeOK
      <3>2. CASE Repair(w)
        <4>1. worker[w].event \in Events /\ event[worker[w].event] # NoRow
              /\ worker[w].status \in {"queued", "sent"}
              BY <3>2, HeldRow, WorkerShape DEF Repair, EventSteps, TypeInv
        <4>2. FalselyRejected(event[worker[w].event]) => worker[w].event # e
              BY <2>1 DEF FalselyRejected
        <4>3. CASE RepairRow(worker[w].event, worker[w].status)
                   /\ FalselyRejected(event[worker[w].event])
              BY <2>1, <4>1, <4>2, <4>3, RepairTyped DEF TypeInv, TypeOK
        <4>4. QED
              BY <2>1, <3>2, <4>3 DEF Repair
      <3>3. CASE ConfirmFailure(w)
        <4>1. worker[w].event \in Events /\ event[worker[w].event] \in Row
              BY <3>3, HeldRow DEF ConfirmFailure, EventSteps
        <4>2. QED
              BY <2>1, <3>3, <4>1 DEF ConfirmFailure, TypeInv, TypeOK, Row
      <3>4. CASE UNCHANGED event
            BY <2>1, <3>4
      <3>5. QED
            BY <2>3, <3>1, <3>2, <3>3, <3>4 DEF ReconcileStep, PassReads, Poll
    <2>4. ASSUME \/ \E w \in Workers : FollowUpReads(w) \/ InsertTask(w) \/ Abort(w)
                 \/ \E f \in Events : Resolve(f) \/ Progress(f)
          PROVE  event' = event
          BY <2>4 DEF FollowUpReads, InsertTask, Abort, Resolve, Progress
    <2>5. QED
          BY <2>1, <2>2, <2>3, <2>4 DEF Next
  <1>2. QED
        BY <1>1, TypeInvInit, TypeInvStep, RowsSoundInit, RowsSoundStep, PTL
           DEF Spec, ConfirmedFailureStays
-----------------------------------------------------------------------------
(* Markers and follow-ups *)

\* A message once taken stays taken, and stays a message of its reminder.
LEMMA TakenKept ==
    ASSUME TypeInv, RowsSound, [Next]_vars, NEW e \in Events, accepted[e] > 0
    PROVE  accepted'[e] > 0 /\ event'[e].of = event[e].of
  <1>1. event[e] # NoRow /\ event[e] \in Row /\ accepted[e] \in Nat
        BY RowExists DEF RowsSound, RowSound, TypeInv, TypeOK
  <1>2. accepted'[e] > 0
    <2>1. (\E f \in Events : Take(f)) \/ UNCHANGED accepted
      <3>1. ASSUME NEW w \in Workers, DispatchStep(w)
            PROVE  (Take(worker[w].event) /\ worker[w].event \in Events) \/ UNCHANGED accepted
        <4>1. worker[w].step = "send" => worker[w].event \in Events
              BY HeldRow DEF EventSteps, CarrySteps
        <4>2. QED
              BY <3>1, <4>1
                 DEF DispatchStep, SendBegin, RetryBegin, CheckCap, QueueEvent, ProviderAccepts,
                     ProviderRejects, ProviderRejectsFalsely, ProviderBusy, ProviderUnknown,
                     TakesAnyway, RecordSent, Consume, InsertUsage, MarkSent, AttachRetry,
                     RecordFailed
      <3>2. ASSUME NEW w \in Workers,
                   ReconcileStep(w) \/ FollowUpReads(w) \/ InsertTask(w) \/ Abort(w)
            PROVE  UNCHANGED accepted
            BY <3>2 DEF ReconcileStep, PassReads, Poll, UpdateDelivery, Repair, ConfirmFailure,
                        FollowUpReads, InsertTask, Abort
      <3>3. ASSUME (\E f \in Events : Resolve(f) \/ Progress(f)) \/ UNCHANGED vars
            PROVE  UNCHANGED accepted
            BY <3>3 DEF Resolve, Progress, vars
      <3>4. QED
            BY <3>1, <3>2, <3>3 DEF Next
    <2>2. QED
          BY <1>1, <2>1 DEF Take, TypeInv, TypeOK
  <1>3. event'[e].of = event[e].of
    <2>1. ASSUME NEW w \in Workers, DispatchStep(w) PROVE event'[e].of = event[e].of
      <3>1. CASE RecordSent(w) \/ RecordFailed(w)
        <4>1. worker[w].event \in Events /\ event[worker[w].event] \in Row
              BY <3>1, HeldRow DEF RecordSent, RecordFailed, EventSteps, CarrySteps
        <4>2. QED
              BY <1>1, <3>1, <4>1 DEF RecordSent, RecordFailed, TypeInv, TypeOK, Row
      <3>2. CASE QueueEvent(w)
            BY <1>1, <3>2 DEF QueueEvent, TypeInv, TypeOK
      <3>3. CASE UNCHANGED event
            BY <3>3
      <3>4. QED
            BY <2>1, <3>1, <3>2, <3>3
               DEF DispatchStep, SendBegin, RetryBegin, CheckCap, ProviderAccepts,
                   ProviderRejects, ProviderRejectsFalsely, ProviderBusy, ProviderUnknown,
                   Consume, InsertUsage, MarkSent, AttachRetry
    <2>2. ASSUME NEW w \in Workers, ReconcileStep(w) PROVE event'[e].of = event[e].of
      <3>1. worker[w].step \in {"repair", "deliver", "confirm"}
               => worker[w].event \in Events /\ event[worker[w].event] \in Row
                  /\ event[worker[w].event] # NoRow
            BY HeldRow DEF EventSteps
      <3>2. CASE UpdateDelivery(w) \/ ConfirmFailure(w)
        <4> DEFINE f == worker[w].event
                   new == [event[f] EXCEPT !.delivery = worker[w].status]
                   lost == [event[f] EXCEPT !.status = "failed", !.delivery = "failed",
                                            !.id = TRUE, !.reason = "semaphore_failed"]
        <4>1. f \in Events /\ event[f] \in Row
              BY <3>1, <3>2 DEF UpdateDelivery, ConfirmFailure
        <4>2. new.of = event[f].of /\ lost.of = event[f].of
              BY <4>1 DEF Row
        <4>3. \/ event' = event
              \/ event' = [event EXCEPT ![f] = new]
              \/ event' = [event EXCEPT ![f] = lost]
              BY <3>2, <4>1 DEF UpdateDelivery, ConfirmFailure, TypeInv, TypeOK
        <4> HIDE DEF f, new, lost
        <4>4. QED
              BY <4>1, <4>2, <4>3 DEF TypeInv, TypeOK
      <3>3. CASE Repair(w)
        <4>1. worker[w].status \in {"queued", "sent"} /\ worker[w].event \in Events
              /\ event[worker[w].event] \in Row /\ event[worker[w].event] # NoRow
              BY <3>1, <3>3, WorkerShape DEF Repair, TypeInv
        <4>2. CASE RepairRow(worker[w].event, worker[w].status)
          <5> DEFINE f == worker[w].event
                     row == [event[f] EXCEPT !.status = "sent", !.delivery = worker[w].status,
                                             !.id = TRUE, !.reason = "none"]
          <5>1. event' = [event EXCEPT ![f] = row]
                BY <4>1, <4>2, RepairTyped
          <5>2. row.of = event[f].of
                BY <4>1 DEF Row
          <5> HIDE DEF row
          <5>3. QED
                BY <4>1, <5>1, <5>2 DEF TypeInv, TypeOK
        <4>3. QED
              BY <3>3, <4>2 DEF Repair
      <3>4. CASE UNCHANGED event
            BY <3>4
      <3>5. QED
            BY <2>2, <3>2, <3>3, <3>4 DEF ReconcileStep, PassReads, Poll
    <2>3. ASSUME \/ \E w \in Workers : FollowUpReads(w) \/ InsertTask(w) \/ Abort(w)
                 \/ \E f \in Events : Resolve(f) \/ Progress(f)
                 \/ UNCHANGED vars
          PROVE  event' = event
          BY <2>3 DEF FollowUpReads, InsertTask, Abort, Resolve, Progress, vars
    <2>4. QED
          BY <2>1, <2>2, <2>3 DEF Next
  <1>4. QED
        BY <1>2, <1>3

\* Who sets markers.
LEMMA MarkerChanges ==
    ASSUME TypeInv, RowsSound, [Next]_vars, NEW r \in Reminders, ~marker[r], marker'[r]
    PROVE  \E e \in Events : accepted[e] > 0 /\ event[e].of = r
  <1>1. ASSUME NEW w \in Workers, MarkSent(w) PROVE \E e \in Events : accepted[e] > 0 /\ event[e].of = r
    <2>1. HandSound(worker[w], event, accepted) /\ worker[w].step = "finish"
          /\ worker[w].step \in EventSteps
          BY <1>1 DEF RowsSound, MarkSent, EventSteps, CarrySteps
    <2>2. worker[w].event \in Events /\ accepted[worker[w].event] > 0
          /\ event[worker[w].event].of = worker[w].of
          BY <2>1, HeldRow DEF HandSound, CarrySteps, PaidSteps
    <2>3. worker[w].of = r
          BY <1>1 DEF MarkSent, TypeInv, TypeOK
    <2>4. QED
          BY <2>2, <2>3
  <1>2. ASSUME NEW w \in Workers, Repair(w) PROVE \E e \in Events : accepted[e] > 0 /\ event[e].of = r
    <2>1. HandSound(worker[w], event, accepted) /\ worker[w].step = "repair"
          /\ worker[w].step \in EventSteps
          BY <1>2 DEF RowsSound, Repair, EventSteps
    <2>2. worker[w].event \in Events /\ accepted[worker[w].event] > 0
          BY <2>1, HeldRow DEF HandSound, ReconcileSteps
    <2>3. event[worker[w].event].of = r
          BY <1>2 DEF Repair, RepairRow, TypeInv, TypeOK
    <2>4. QED
          BY <2>2, <2>3
  <1>3. (\E w \in Workers : MarkSent(w) \/ Repair(w)) \/ UNCHANGED marker
    <2>1. ASSUME NEW w \in Workers, DispatchStep(w) PROVE MarkSent(w) \/ UNCHANGED marker
          BY <2>1
             DEF DispatchStep, SendBegin, RetryBegin, CheckCap, QueueEvent, ProviderAccepts,
                 ProviderRejects, ProviderRejectsFalsely, ProviderBusy, ProviderUnknown,
                 TakesAnyway, RecordSent, Consume, InsertUsage, AttachRetry, RecordFailed
    <2>2. ASSUME NEW w \in Workers,
                 ReconcileStep(w) \/ FollowUpReads(w) \/ InsertTask(w) \/ Abort(w)
          PROVE  Repair(w) \/ UNCHANGED marker
          BY <2>2 DEF ReconcileStep, PassReads, Poll, UpdateDelivery, ConfirmFailure,
                      FollowUpReads, InsertTask, Abort
    <2>3. ASSUME (\E f \in Events : Resolve(f) \/ Progress(f)) \/ UNCHANGED vars
          PROVE  UNCHANGED marker
          BY <2>3 DEF Resolve, Progress, vars
    <2>4. QED
          BY <2>1, <2>2, <2>3 DEF Next
  <1>4. QED
        BY <1>1, <1>2, <1>3

\* No reminder is marked as sent for which the provider has not taken a message.
THEOREM MarkersMeanTaken == Spec => []MarkerMeansTaken
  <1>1. Init => MarkerMeansTaken
        BY DEF Init, MarkerMeansTaken
  <1>2. TypeInv /\ RowsSound /\ MarkerMeansTaken /\ [Next]_vars => MarkerMeansTaken'
    <2> SUFFICES ASSUME TypeInv, RowsSound, MarkerMeansTaken, [Next]_vars,
                        NEW r \in Reminders, marker'[r]
                 PROVE  \E e \in Taken' : event'[e] # NoRow /\ event'[e].of = r
        BY DEF MarkerMeansTaken
    <2>1. PICK e \in Events : accepted[e] > 0 /\ event[e].of = r
      <3>1. CASE marker[r]
            BY <3>1 DEF MarkerMeansTaken, Taken
      <3>2. CASE ~marker[r]
            BY <3>2, MarkerChanges
      <3>3. QED
            BY <3>1, <3>2
    <2>2. accepted'[e] > 0 /\ event'[e].of = r
          BY <2>1, TakenKept
    <2>3. RowsSound'
          BY RowsSoundStep
    <2>4. event'[e] # NoRow
          BY <2>2, <2>3 DEF RowsSound, RowSound
    <2>5. QED
          BY <2>2, <2>4 DEF Taken
  <1>3. QED
        BY <1>1, <1>2, TypeInvInit, TypeInvStep, RowsSoundInit, RowsSoundStep, PTL DEF Spec

\* No follow-up is deleted.
LEMMA TasksKept ==
    ASSUME TypeInv, [Next]_vars, NEW e \in Events, task[e] # NoRow
    PROVE  task'[e] # NoRow
  <1>1. task[e] \in Task
        BY RowExists
  <1>2. \A status : [task[e] EXCEPT !.status = status] # NoRow
               => \A f : task' = [task EXCEPT ![f].status = status] => task'[e] # NoRow
        BY <1>1 DEF TypeInv, TypeOK
  <1>3. \A status \in {"contacted", "dismissed"} : [task[e] EXCEPT !.status = status] \in Task
        BY <1>1 DEF Task
  <1>4. ASSUME NEW w \in Workers, AttachRetry(w) PROVE task'[e] # NoRow
        BY <1>2, <1>3, <1>4, NoRowAssumption DEF AttachRetry
  <1>5. ASSUME NEW f \in Events, Resolve(f) PROVE task'[e] # NoRow
        BY <1>2, <1>3, <1>5, NoRowAssumption DEF Resolve
  <1>6. ASSUME NEW w \in Workers, InsertTask(w) PROVE task'[e] # NoRow
    <2>1. CASE worker[w].event = e
          BY <1>6, <2>1 DEF InsertTask
    <2>2. CASE worker[w].event # e
          BY <1>6, <2>2 DEF InsertTask, TypeInv, TypeOK
    <2>3. QED
          BY <2>1, <2>2
  <1>7. ASSUME NEW w \in Workers, Repair(w) PROVE task'[e] # NoRow
    <2>1. worker[w].event \in Events /\ event[worker[w].event] # NoRow
          /\ worker[w].status \in {"queued", "sent"}
          BY <1>7, HeldRow, WorkerShape DEF Repair, EventSteps, TypeInv
    <2>2. CASE RepairRow(worker[w].event, worker[w].status)
          BY <2>1, <2>2, RepairTyped
    <2>3. QED
          BY <1>7, <2>2 DEF Repair
  <1>8. ASSUME NEW w \in Workers, ConfirmFailure(w) PROVE task'[e] # NoRow
    <2> DEFINE told == [task[e] EXCEPT !.reason = "semaphore_failed"]
    <2>1. told \in Task
          BY <1>1 DEF Task, Reasons
    <2>2. CASE worker[w].event = e
      <3>1. task' = [task EXCEPT ![e].reason = "semaphore_failed"]
            BY <1>8, <2>2 DEF ConfirmFailure
      <3>2. task'[e] = told
            BY <3>1 DEF TypeInv, TypeOK
      <3>3. QED
            BY <2>1, <3>2, NoRowAssumption
    <2>3. CASE worker[w].event # e
          BY <1>8, <2>3 DEF ConfirmFailure, TypeInv, TypeOK
    <2>4. QED
          BY <2>2, <2>3
  <1>9. CASE UNCHANGED task
        BY <1>9
  <1>10. \/ \E w \in Workers : AttachRetry(w) \/ InsertTask(w) \/ Repair(w) \/ ConfirmFailure(w)
         \/ \E f \in Events : Resolve(f)
         \/ UNCHANGED task
    <2>1. ASSUME NEW w \in Workers, DispatchStep(w) PROVE AttachRetry(w) \/ UNCHANGED task
          BY <2>1
             DEF DispatchStep, SendBegin, RetryBegin, CheckCap, QueueEvent, ProviderAccepts,
                 ProviderRejects, ProviderRejectsFalsely, ProviderBusy, ProviderUnknown,
                 TakesAnyway, RecordSent, Consume, InsertUsage, MarkSent, RecordFailed
    <2>2. ASSUME NEW w \in Workers, ReconcileStep(w) \/ FollowUpReads(w) \/ Abort(w)
          PROVE  Repair(w) \/ ConfirmFailure(w) \/ UNCHANGED task
          BY <2>2 DEF ReconcileStep, PassReads, Poll, UpdateDelivery, FollowUpReads, Abort
    <2>3. ASSUME (\E f \in Events : Progress(f)) \/ UNCHANGED vars
          PROVE  UNCHANGED task
          BY <2>3 DEF Progress, vars
    <2>4. QED
          BY <2>1, <2>2, <2>3 DEF Next
  <1>11. QED
         BY <1>4, <1>5, <1>6, <1>7, <1>8, <1>9, <1>10

FollowUpSteps == {"followUp", "insertTask"}

FollowedUp(e) == \/ task[e] # NoRow
                 \/ e \in killed
                 \/ \E w \in Workers : worker[w].step \in FollowUpSteps /\ worker[w].event = e

\* Where a worker is when it takes a step.
LEMMA StepsFrom ==
    ASSUME NEW w \in Workers
    PROVE  /\ DispatchStep(w) => worker[w].step \in DispatchSteps \cup {"idle"}
           /\ ReconcileStep(w) => worker[w].step \in ReconcileSteps \cup {"idle"}
  <1>1. worker[w] = Idle => worker[w].step = "idle"
        OBVIOUS
  <1>2. DispatchStep(w) => \/ worker[w] = Idle
                           \/ worker[w].step \in DispatchSteps
    <2>1. (\E r \in Reminders : SendBegin(w, r)) \/ (\E e \in Events : RetryBegin(w, e))
             => worker[w] = Idle
          BY DEF SendBegin, RetryBegin
    <2>2. ASSUME \/ CheckCap(w) \/ QueueEvent(w) \/ ProviderAccepts(w) \/ ProviderRejects(w)
                 \/ ProviderRejectsFalsely(w) \/ ProviderBusy(w) \/ ProviderUnknown(w)
                 \/ RecordSent(w) \/ Consume(w) \/ InsertUsage(w) \/ MarkSent(w)
                 \/ AttachRetry(w) \/ RecordFailed(w)
          PROVE  worker[w].step \in DispatchSteps
          BY <2>2
             DEF CheckCap, QueueEvent, ProviderAccepts, ProviderRejects,
                 ProviderRejectsFalsely, ProviderBusy, ProviderUnknown, RecordSent, Consume,
                 InsertUsage, MarkSent, AttachRetry, RecordFailed, DispatchSteps
    <2>3. QED
          BY <2>1, <2>2 DEF DispatchStep
  <1>3. ReconcileStep(w) => \/ worker[w] = Idle
                            \/ worker[w].step \in ReconcileSteps
    <2>1. (\E e \in Events : PassReads(w, e)) => worker[w] = Idle
          BY DEF PassReads
    <2>2. Poll(w) \/ UpdateDelivery(w) \/ Repair(w) \/ ConfirmFailure(w)
             => worker[w].step \in ReconcileSteps
          BY DEF Poll, UpdateDelivery, Repair, ConfirmFailure, ReconcileSteps
    <2>3. QED
          BY <2>1, <2>2 DEF ReconcileStep
  <1>4. QED
        BY <1>1, <1>2, <1>3

\* A follow-up that is being raised is raised or lost with its worker.
LEMMA FollowedUpKept ==
    ASSUME TypeInv, [Next]_vars, NEW e \in Events, FollowedUp(e)
    PROVE  FollowedUp(e)'
  <1>1. CASE task[e] # NoRow
        BY <1>1, TasksKept DEF FollowedUp
  <1>2. killed \subseteq killed'
    <2>1. ASSUME NEW w \in Workers, DispatchStep(w) PROVE killed' = killed
          BY <2>1
             DEF DispatchStep, SendBegin, RetryBegin, CheckCap, QueueEvent, ProviderAccepts,
                 ProviderRejects, ProviderRejectsFalsely, ProviderBusy, ProviderUnknown,
                 TakesAnyway, RecordSent, Consume, InsertUsage, MarkSent, AttachRetry,
                 RecordFailed
    <2>2. ASSUME NEW w \in Workers,
                 ReconcileStep(w) \/ FollowUpReads(w) \/ InsertTask(w) \/ Abort(w)
          PROVE  killed \subseteq killed'
          BY <2>2 DEF ReconcileStep, PassReads, Poll, UpdateDelivery, Repair, ConfirmFailure,
                      FollowUpReads, InsertTask, Abort
    <2>3. ASSUME (\E f \in Events : Resolve(f) \/ Progress(f)) \/ UNCHANGED vars
          PROVE  killed' = killed
          BY <2>3 DEF Resolve, Progress, vars
    <2>4. QED
          BY <2>1, <2>2, <2>3 DEF Next
  <1>3. CASE e \in killed
        BY <1>2, <1>3 DEF FollowedUp
  <1>4. ASSUME NEW v \in Workers, worker[v].step \in FollowUpSteps, worker[v].event = e
        PROVE  FollowedUp(e)'
    <2>1. worker \in [Workers -> Worker]
          BY DEF TypeInv, TypeOK
    <2>2. CASE FollowUpReads(v)
      <3>1. worker'[v].step = "insertTask" /\ worker'[v].event = e
            BY <1>4, <2>1, <2>2 DEF FollowUpReads, Goto
      <3>2. QED
            BY <3>1 DEF FollowedUp, FollowUpSteps
    <2>3. CASE InsertTask(v)
      <3>1. task'[e] # NoRow
        <4>1. CASE task[e] # NoRow
              BY <4>1, TasksKept
        <4>2. CASE task[e] = NoRow
          <5> DEFINE row == [status |-> "open", reason |-> worker[v].reason]
          <5>1. row \in Task
                BY <1>4, WorkerShape DEF FollowUpSteps, Task, TypeInv
          <5>2. task'[e] = row
                BY <1>4, <2>3, <4>2 DEF InsertTask, TypeInv, TypeOK
          <5>3. QED
                BY <5>1, <5>2, NoRowAssumption
        <4>3. QED
              BY <4>1, <4>2
      <3>2. QED
            BY <3>1 DEF FollowedUp
    <2>4. CASE Abort(v)
          BY <1>4, <2>4 DEF Abort, FollowedUp, FollowUpSteps
    <2>5. CASE worker'[v] = worker[v]
          BY <1>4, <2>5 DEF FollowedUp
    <2>6. worker'[v] = worker[v] \/ FollowUpReads(v) \/ InsertTask(v) \/ Abort(v)
      <3>1. ASSUME NEW w \in Workers, w # v, NEW state, Goto(w, state)
            PROVE  worker'[v] = worker[v]
            BY <2>1, <3>1 DEF Goto
      <3>2. ASSUME NEW w \in Workers, DispatchStep(w) PROVE worker'[v] = worker[v]
        <4>1. w # v
              BY <1>4, <3>2, StepsFrom DEF FollowUpSteps, DispatchSteps
        <4>2. QED
              BY <3>1, <3>2, <4>1
                 DEF DispatchStep, SendBegin, RetryBegin, Begin, CheckCap, QueueEvent,
                     ProviderAccepts, ProviderRejects, ProviderRejectsFalsely, ProviderBusy,
                     ProviderUnknown, RecordSent, Consume, InsertUsage, MarkSent, AttachRetry,
                     RecordFailed, Proceed, Fails
      <3>3. ASSUME NEW w \in Workers, ReconcileStep(w) PROVE worker'[v] = worker[v]
        <4>1. w # v
              BY <1>4, <3>3, StepsFrom DEF FollowUpSteps, ReconcileSteps
        <4>2. QED
              BY <3>1, <3>3, <4>1 DEF ReconcileStep, PassReads, Poll, UpdateDelivery, Repair,
                                      ConfirmFailure
      <3>4. ASSUME NEW w \in Workers, w # v, FollowUpReads(w) \/ InsertTask(w) \/ Abort(w)
            PROVE  worker'[v] = worker[v]
            BY <3>1, <3>4 DEF FollowUpReads, InsertTask, Abort
      <3>5. ASSUME (\E f \in Events : Resolve(f) \/ Progress(f)) \/ UNCHANGED vars
            PROVE  worker'[v] = worker[v]
            BY <3>5 DEF Resolve, Progress, vars
      <3>6. QED
            BY <3>2, <3>3, <3>4, <3>5 DEF Next
    <2>7. QED
          BY <2>2, <2>3, <2>4, <2>5, <2>6
  <1>5. QED
        BY <1>1, <1>3, <1>4 DEF FollowedUp

\* A message fails in the hands of a worker that goes on to raise its follow-up.
LEMMA FailsFollowed ==
    ASSUME TypeInv, [Next]_vars, NEW e \in Events, event'[e] # NoRow,
           event'[e].status = "failed"
    PROVE  \/ event[e] # NoRow /\ event[e].status = "failed"
           \/ FollowedUp(e)'
  <1> DEFINE Before == event[e] # NoRow /\ event[e].status = "failed"
  <1>1. worker \in [Workers -> Worker] /\ event \in [Events -> Row \cup {NoRow}]
        BY DEF TypeInv, TypeOK
  <1>2. ASSUME NEW w \in Workers, NEW state, Goto(w, state), state.step = "followUp",
               state.event = e
        PROVE  FollowedUp(e)'
    <2>1. worker'[w] = state
          BY <1>1, <1>2 DEF Goto
    <2>2. QED
          BY <1>2, <2>1 DEF FollowedUp, FollowUpSteps
  <1>3. ASSUME NEW w \in Workers, RecordFailed(w) PROVE Before \/ FollowedUp(e)'
    <2>1. CASE worker[w].event = e
      <3> DEFINE state == [step |-> "followUp", event |-> worker[w].event,
                           reason |-> worker[w].reason]
      <3>1. state.step = "followUp" /\ state.event = e /\ Goto(w, state)
            BY <1>3, <2>1 DEF RecordFailed
      <3> HIDE DEF state
      <3>2. QED
            BY <1>2, <3>1
    <2>2. CASE worker[w].event # e
          BY <1>1, <1>3, <2>2 DEF RecordFailed
    <2>3. QED
          BY <2>1, <2>2
  <1>4. ASSUME NEW w \in Workers, ConfirmFailure(w) PROVE Before \/ FollowedUp(e)'
    <2>1. CASE worker[w].event = e
      <3> DEFINE state == [step |-> "followUp", event |-> worker[w].event,
                           reason |-> "semaphore_failed"]
      <3>1. state.step = "followUp" /\ state.event = e /\ Goto(w, state)
            BY <1>4, <2>1 DEF ConfirmFailure
      <3> HIDE DEF state
      <3>2. QED
            BY <1>2, <3>1
    <2>2. CASE worker[w].event # e
          BY <1>1, <1>4, <2>2 DEF ConfirmFailure
    <2>3. QED
          BY <2>1, <2>2
  <1>5. ASSUME NEW w \in Workers, DispatchStep(w), ~RecordFailed(w) PROVE Before
    <2>1. CASE RecordSent(w)
      <3>1. worker[w].event \in Events /\ event[worker[w].event] \in Row
            BY <2>1, HeldRow DEF RecordSent, EventSteps, CarrySteps
      <3>2. worker[w].event # e
            BY <1>1, <2>1, <3>1 DEF RecordSent, Row
      <3>3. QED
            BY <1>1, <2>1, <3>2 DEF RecordSent
    <2>2. CASE QueueEvent(w)
      <3> DEFINE row == [of |-> worker[w].of, status |-> "queued", id |-> FALSE,
                         metaId |-> FALSE, delivery |-> "none", reason |-> "none"]
      <3>1. row.status = "queued"
            OBVIOUS
      <3>2. event' = event \/ \E f \in Events : event' = [event EXCEPT ![f] = row]
            BY <2>2 DEF QueueEvent
      <3> HIDE DEF row
      <3>3. QED
            BY <1>1, <3>1, <3>2
    <2>3. CASE UNCHANGED event
          BY <2>3
    <2>4. QED
          BY <1>5, <2>1, <2>2, <2>3
             DEF DispatchStep, SendBegin, RetryBegin, CheckCap, ProviderAccepts,
                 ProviderRejects, ProviderRejectsFalsely, ProviderBusy, ProviderUnknown,
                 Consume, InsertUsage, MarkSent, AttachRetry
  <1>6. ASSUME NEW w \in Workers, UpdateDelivery(w) PROVE Before
    <2> DEFINE f == worker[w].event
               row == [event[f] EXCEPT !.delivery = worker[w].status]
    <2>1. f \in Events /\ event[f] \in Row /\ event[f] # NoRow
          BY <1>6, HeldRow DEF UpdateDelivery, EventSteps
    <2>2. row.status = event[f].status
          BY <2>1 DEF Row
    <2>3. event' = event \/ event' = [event EXCEPT ![f] = row]
          BY <1>1, <1>6, <2>1 DEF UpdateDelivery
    <2> HIDE DEF row, f
    <2>4. QED
          BY <1>1, <2>1, <2>2, <2>3
  <1>7. ASSUME NEW w \in Workers, Repair(w) PROVE Before
    <2> DEFINE f == worker[w].event
               row == [event[f] EXCEPT !.status = "sent", !.delivery = worker[w].status,
                                       !.id = TRUE, !.reason = "none"]
    <2>1. f \in Events /\ event[f] \in Row /\ event[f] # NoRow
          /\ worker[w].status \in {"queued", "sent"}
          BY <1>7, HeldRow, WorkerShape DEF Repair, EventSteps, TypeInv
    <2>2. row.status = "sent"
          BY <2>1 DEF Row
    <2>3. event' = event \/ event' = [event EXCEPT ![f] = row]
          BY <1>7, <2>1, RepairTyped DEF Repair
    <2> HIDE DEF row, f
    <2>4. QED
          BY <1>1, <2>1, <2>2, <2>3
  <1>8. CASE UNCHANGED event
        BY <1>8
  <1>9. \/ \E w \in Workers : \/ DispatchStep(w) \/ UpdateDelivery(w) \/ Repair(w)
                              \/ ConfirmFailure(w)
        \/ UNCHANGED event
    <2>1. ASSUME NEW w \in Workers,
                 ReconcileStep(w) \/ FollowUpReads(w) \/ InsertTask(w) \/ Abort(w)
          PROVE  UpdateDelivery(w) \/ Repair(w) \/ ConfirmFailure(w) \/ UNCHANGED event
          BY <2>1 DEF ReconcileStep, PassReads, Poll, FollowUpReads, InsertTask, Abort
    <2>2. ASSUME (\E f \in Events : Resolve(f) \/ Progress(f)) \/ UNCHANGED vars
          PROVE  UNCHANGED event
          BY <2>2 DEF Resolve, Progress, vars
    <2>3. QED
          BY <2>1, <2>2 DEF Next
  <1>10. QED
         BY <1>3, <1>4, <1>5, <1>6, <1>7, <1>8, <1>9

\* Whatever fails is followed up, unless the worker that was about to do so has stopped.
THEOREM FailuresAreFollowedUp == Spec => []FailuresFollowedUp
  <1> DEFINE Inv == \A e \in Events :
                       event[e] # NoRow /\ event[e].status = "failed" => FollowedUp(e)
  <1>1. Inv <=> FailuresFollowedUp
        BY DEF FailuresFollowedUp, FollowedUp, FollowUpSteps
  <1>2. Init => Inv
        BY DEF Init
  <1>3. TypeInv /\ Inv /\ [Next]_vars => Inv'
    <2> SUFFICES ASSUME TypeInv, Inv, [Next]_vars, NEW e \in Events, event'[e] # NoRow,
                        event'[e].status = "failed"
                 PROVE  FollowedUp(e)'
        OBVIOUS
    <2>1. CASE event[e] # NoRow /\ event[e].status = "failed"
          BY <2>1, FollowedUpKept
    <2>2. CASE FollowedUp(e)'
          BY <2>2
    <2>3. QED
          BY <2>1, <2>2, FailsFollowed
  <1> HIDE DEF Inv
  <1>4. QED
        BY <1>1, <1>2, <1>3, TypeInvInit, TypeInvStep, PTL DEF Spec
-----------------------------------------------------------------------------
(* Charges *)

Charging(e) == \E w \in Workers : worker[w].step = "consume" /\ worker[w].event = e

\* The messages that no worker is going to charge any more.
Settled == {e \in Taken : /\ event[e] # NoRow /\ event[e].status # "queued"
                          /\ ~FalselyRejected(event[e])
                          /\ ~Charging(e)}

ChargeInv ==
    /\ used <= Cardinality(Settled)
    /\ \A e \in Events : /\ usage[e] <= 1
                         /\ usage[e] > 0 => /\ accepted[e] > 0 /\ event[e] # NoRow
                                            /\ event[e].status # "queued"
    /\ \A w \in Workers : worker[w].step \in {"consume", "usage"} => usage[worker[w].event] = 0

\* A message that has left the line does not come back, and none becomes falsely rejected
\* but in the hands of the worker that dispatches it.
LEMMA RowKept ==
    ASSUME TypeInv, RowsSound, [Next]_vars, NEW e \in Events, event[e] # NoRow,
           event[e].status # "queued"
    PROVE  /\ event'[e] # NoRow /\ event'[e].status # "queued"
           /\ FalselyRejected(event'[e]) => FalselyRejected(event[e])
  <1>1. event[e] \in Row /\ event \in [Events -> Row \cup {NoRow}]
        BY RowExists DEF TypeInv, TypeOK
  <1>2. ASSUME NEW w \in Workers, DispatchStep(w) PROVE event'[e] = event[e]
    <2>1. worker[w].step \in {"sent", "failed"} => worker[w].event # e
          BY DEF RowsSound, HandSound
    <2>2. CASE RecordSent(w) \/ RecordFailed(w)
          BY <1>1, <2>1, <2>2 DEF RecordSent, RecordFailed
    <2>3. CASE QueueEvent(w)
          BY <1>1, <2>3 DEF QueueEvent
    <2>4. CASE UNCHANGED event
          BY <2>4
    <2>5. QED
          BY <1>2, <2>2, <2>3, <2>4
             DEF DispatchStep, SendBegin, RetryBegin, CheckCap, ProviderAccepts,
                 ProviderRejects, ProviderRejectsFalsely, ProviderBusy, ProviderUnknown,
                 Consume, InsertUsage, MarkSent, AttachRetry
  <1>3. ASSUME NEW f \in Events, NEW row \in Row, event' = [event EXCEPT ![f] = row],
               f = e => /\ row.status # "queued"
                        /\ FalselyRejected(row) => FalselyRejected(event[e])
        PROVE  /\ event'[e] # NoRow /\ event'[e].status # "queued"
               /\ FalselyRejected(event'[e]) => FalselyRejected(event[e])
    <2>1. CASE f = e
      <3>1. event'[e] = row /\ row # NoRow
            BY <1>1, <1>3, <2>1, NoRowAssumption
      <3>2. QED
            BY <1>3, <2>1, <3>1
    <2>2. CASE f # e
      <3>1. event'[e] = event[e]
            BY <1>1, <1>3, <2>2
      <3>2. QED
            BY <3>1
    <2>3. QED
          BY <2>1, <2>2
  <1>4. ASSUME NEW w \in Workers, UpdateDelivery(w), event' # event
        PROVE  /\ event'[e] # NoRow /\ event'[e].status # "queued"
               /\ FalselyRejected(event'[e]) => FalselyRejected(event[e])
    <2> DEFINE f == worker[w].event
               row == [event[f] EXCEPT !.delivery = worker[w].status]
    <2>1. f \in Events /\ event[f] \in Row /\ worker[w].status \in {"queued", "sent"}
          BY <1>4, HeldRow, WorkerShape DEF UpdateDelivery, EventSteps, TypeInv
    <2>2. row \in Row /\ row.status = event[f].status /\ row.reason = event[f].reason
          /\ row.id = event[f].id
          BY <2>1 DEF Row
    <2>3. event' = [event EXCEPT ![f] = row]
          BY <1>1, <1>4, <2>1 DEF UpdateDelivery
    <2> HIDE DEF row
    <2>4. QED
          BY <1>3, <2>1, <2>2, <2>3 DEF FalselyRejected
  <1>5. ASSUME NEW w \in Workers, Repair(w), event' # event
        PROVE  /\ event'[e] # NoRow /\ event'[e].status # "queued"
               /\ FalselyRejected(event'[e]) => FalselyRejected(event[e])
    <2> DEFINE f == worker[w].event
               row == [event[f] EXCEPT !.status = "sent", !.delivery = worker[w].status,
                                       !.id = TRUE, !.reason = "none"]
    <2>1. f \in Events /\ event[f] \in Row /\ event[f] # NoRow
          /\ worker[w].status \in {"queued", "sent"}
          BY <1>5, HeldRow, WorkerShape DEF Repair, EventSteps, TypeInv
    <2>2. row \in Row /\ row.status = "sent" /\ row.id
          BY <2>1 DEF Row
    <2>3. event' = [event EXCEPT ![f] = row]
          BY <1>5, <2>1, RepairTyped DEF Repair
    <2> HIDE DEF row
    <2>4. QED
          BY <1>3, <2>1, <2>2, <2>3 DEF FalselyRejected
  <1>6. ASSUME NEW w \in Workers, ConfirmFailure(w)
        PROVE  /\ event'[e] # NoRow /\ event'[e].status # "queued"
               /\ FalselyRejected(event'[e]) => FalselyRejected(event[e])
    <2> DEFINE f == worker[w].event
               row == [event[f] EXCEPT !.status = "failed", !.delivery = "failed", !.id = TRUE,
                                       !.reason = "semaphore_failed"]
    <2>1. f \in Events /\ event[f] \in Row
          BY <1>6, HeldRow DEF ConfirmFailure, EventSteps
    <2>2. row \in Row /\ row.status = "failed" /\ row.id
          BY <2>1 DEF Row, Reasons
    <2>3. event' = [event EXCEPT ![f] = row]
          BY <1>1, <1>6, <2>1 DEF ConfirmFailure
    <2> HIDE DEF row
    <2>4. QED
          BY <1>3, <2>1, <2>2, <2>3 DEF FalselyRejected
  <1>7. \/ \E w \in Workers : \/ DispatchStep(w) \/ UpdateDelivery(w) \/ Repair(w)
                              \/ ConfirmFailure(w)
        \/ UNCHANGED event
    <2>1. ASSUME NEW w \in Workers,
                 ReconcileStep(w) \/ FollowUpReads(w) \/ InsertTask(w) \/ Abort(w)
          PROVE  UpdateDelivery(w) \/ Repair(w) \/ ConfirmFailure(w) \/ UNCHANGED event
          BY <2>1 DEF ReconcileStep, PassReads, Poll, FollowUpReads, InsertTask, Abort
    <2>2. ASSUME (\E f \in Events : Resolve(f) \/ Progress(f)) \/ UNCHANGED vars
          PROVE  UNCHANGED event
          BY <2>2 DEF Resolve, Progress, vars
    <2>3. QED
          BY <2>1, <2>2 DEF Next
  <1>8. QED
        BY <1>2, <1>4, <1>5, <1>6, <1>7

\* Where a worker that is charging comes from.
LEMMA ChargingFrom ==
    ASSUME TypeInv, [Next]_vars, NEW v \in Workers, worker'[v].step \in {"consume", "usage"}
    PROVE  \/ worker'[v] = worker[v]
           \/ /\ RecordSent(v) /\ worker'[v].step = "consume"
              /\ worker'[v].event = worker[v].event
           \/ /\ Consume(v) /\ worker'[v].step = "usage"
              /\ worker'[v].event = worker[v].event
  <1>1. worker \in [Workers -> Worker]
        BY DEF TypeInv, TypeOK
  <1>2. ASSUME NEW w \in Workers, NEW state, Goto(w, state),
               state.step \notin {"consume", "usage"}
        PROVE  worker'[v] = worker[v]
        BY <1>1, <1>2 DEF Goto
  <1>3. ASSUME NEW w \in Workers, Goto(w, Idle) PROVE worker'[v] = worker[v]
        BY <1>2, <1>3
  <1>4. ASSUME NEW w \in Workers, NEW s \in {"sent", "finish"}, Proceed(w, s)
        PROVE  worker'[v] = worker[v]
        BY <1>2, <1>4 DEF Proceed
  <1>5. ASSUME NEW w \in Workers, NEW x, NEW b, Fails(w, x, b) PROVE worker'[v] = worker[v]
        BY <1>2, <1>5 DEF Fails
  <1>6. ASSUME NEW w \in Workers, NEW r, NEW o, Begin(w, r, o) PROVE worker'[v] = worker[v]
        BY <1>2, <1>6 DEF Begin
  <1>7. ASSUME NEW w \in Workers, CheckCap(w) PROVE worker'[v] = worker[v]
    <2> DEFINE state == [worker[w] EXCEPT !.step = "queue"]
    <2>1. state.step = "queue"
          BY <1>7, WorkerShape DEF CheckCap, TypeInv, Worker
    <2>2. Goto(w, Idle) \/ Goto(w, state)
          BY <1>7 DEF CheckCap
    <2> HIDE DEF state
    <2>3. QED
          BY <1>2, <1>3, <2>1, <2>2
  <1>8. ASSUME NEW w \in Workers, ProviderBusy(w) PROVE worker'[v] = worker[v]
    <2> DEFINE state == [worker[w] EXCEPT !.retries = 1]
    <2>1. state.step = "send"
          BY <1>8, WorkerShape DEF ProviderBusy, TypeInv, Worker
    <2>2. Fails(w, "provider_transient_retryable", FALSE) \/ Goto(w, state)
          BY <1>8 DEF ProviderBusy
    <2> HIDE DEF state
    <2>3. QED
          BY <1>2, <1>5, <2>1, <2>2
  <1>9. ASSUME NEW w \in Workers, QueueEvent(w) PROVE worker'[v] = worker[v]
        BY <1>2, <1>3, <1>9 DEF QueueEvent
  <1>10. ASSUME NEW w \in Workers, RecordSent(w) \/ Consume(w)
         PROVE  \/ worker'[v] = worker[v]
                \/ /\ RecordSent(v) /\ worker'[v].step = "consume"
                   /\ worker'[v].event = worker[v].event
                \/ /\ Consume(v) /\ worker'[v].step = "usage"
                   /\ worker'[v].event = worker[v].event
    <2>1. CASE w = v
          BY <1>1, <1>10, <2>1 DEF RecordSent, Consume, Proceed, Goto
    <2>2. CASE w # v
          BY <1>1, <1>10, <2>2 DEF RecordSent, Consume, Proceed, Goto
    <2>3. QED
          BY <2>1, <2>2
  <1>11. ASSUME NEW w \in Workers, DispatchStep(w), ~RecordSent(w), ~Consume(w)
         PROVE  worker'[v] = worker[v]
    <2>1. ASSUME (\E r \in Reminders : SendBegin(w, r)) \/ (\E e \in Events : RetryBegin(w, e))
          PROVE  worker'[v] = worker[v]
          BY <1>6, <2>1 DEF SendBegin, RetryBegin
    <2>2. ASSUME ProviderAccepts(w) \/ ProviderRejects(w) \/ ProviderRejectsFalsely(w)
                 \/ ProviderUnknown(w)
          PROVE  worker'[v] = worker[v]
          BY <1>4, <1>5, <2>2 DEF ProviderAccepts, ProviderRejects, ProviderRejectsFalsely,
                                  ProviderUnknown
    <2>3. ASSUME InsertUsage(w) \/ MarkSent(w) \/ AttachRetry(w) PROVE worker'[v] = worker[v]
          BY <1>3, <1>4, <2>3 DEF InsertUsage, MarkSent, AttachRetry
    <2>4. ASSUME RecordFailed(w) PROVE worker'[v] = worker[v]
          BY <1>2, <2>4 DEF RecordFailed
    <2>5. QED
          BY <1>7, <1>8, <1>9, <1>11, <2>1, <2>2, <2>3, <2>4 DEF DispatchStep
  <1>12. ASSUME NEW w \in Workers, ReconcileStep(w) PROVE worker'[v] = worker[v]
    <2>1. ASSUME NEW e \in Events, PassReads(w, e) PROVE worker'[v] = worker[v]
          BY <1>2, <2>1 DEF PassReads
    <2>2. ASSUME Poll(w) PROVE worker'[v] = worker[v]
      <3>1. CASE Goto(w, Idle)
            BY <1>3, <3>1
      <3>2. CASE Goto(w, [step |-> "confirm", event |-> worker[w].event])
            BY <1>2, <3>2
      <3>3. CASE Goto(w, [step |-> "deliver", event |-> worker[w].event,
                          status |-> fate[worker[w].event]])
            BY <1>2, <3>3
      <3>4. CASE Goto(w, [step |-> "repair", event |-> worker[w].event,
                          status |-> fate[worker[w].event]])
            BY <1>2, <3>4
      <3>5. QED
            BY <2>2, <3>1, <3>2, <3>3, <3>4 DEF Poll
    <2>3. ASSUME UpdateDelivery(w) \/ Repair(w) PROVE worker'[v] = worker[v]
          BY <1>3, <2>3 DEF UpdateDelivery, Repair
    <2>4. ASSUME ConfirmFailure(w) PROVE worker'[v] = worker[v]
          BY <1>2, <2>4 DEF ConfirmFailure
    <2>5. QED
          BY <1>12, <2>1, <2>2, <2>3, <2>4 DEF ReconcileStep
  <1>13. ASSUME NEW w \in Workers, FollowUpReads(w) \/ InsertTask(w) \/ Abort(w)
         PROVE  worker'[v] = worker[v]
         BY <1>2, <1>3, <1>13 DEF FollowUpReads, InsertTask, Abort
  <1>14. ASSUME (\E e \in Events : Resolve(e) \/ Progress(e)) \/ UNCHANGED vars
         PROVE  worker'[v] = worker[v]
         BY <1>14 DEF Resolve, Progress, vars
  <1>15. QED
         BY <1>10, <1>11, <1>12, <1>13, <1>14 DEF Next

\* Who takes credits and who records them.
LEMMA ChargesFrom ==
    ASSUME TypeInv, RowsSound, [Next]_vars
    PROVE  \/ UNCHANGED <<used, usage>>
           \/ \E w \in Workers : Consume(w) /\ UNCHANGED usage
           \/ \E w \in Workers : InsertUsage(w) /\ UNCHANGED used
           \/ \E w \in Workers :
                 /\ Repair(w) /\ FalselyRejected(event[worker[w].event])
                 /\ usage[worker[w].event] = 0 /\ used' = used + 1
                 /\ usage' = [usage EXCEPT ![worker[w].event] = 1]
  <1>1. ASSUME NEW w \in Workers, DispatchStep(w)
        PROVE  \/ UNCHANGED <<used, usage>>
               \/ Consume(w) /\ UNCHANGED usage
               \/ InsertUsage(w) /\ UNCHANGED used
    <2>1. CASE Consume(w)
          BY <2>1 DEF Consume
    <2>2. CASE InsertUsage(w)
          BY <2>2 DEF InsertUsage
    <2>3. QED
          BY <1>1, <2>1, <2>2
             DEF DispatchStep, SendBegin, RetryBegin, CheckCap, QueueEvent, ProviderAccepts,
                 ProviderRejects, ProviderRejectsFalsely, ProviderBusy, ProviderUnknown,
                 RecordSent, MarkSent, AttachRetry, RecordFailed
  <1>2. ASSUME NEW w \in Workers, Repair(w)
        PROVE  \/ UNCHANGED <<used, usage>>
               \/ /\ Repair(w) /\ FalselyRejected(event[worker[w].event])
                  /\ usage[worker[w].event] = 0 /\ used' = used + 1
                  /\ usage' = [usage EXCEPT ![worker[w].event] = 1]
    <2>1. CASE FalselyRejected(event[worker[w].event])
      <3>1. RepairRow(worker[w].event, worker[w].status)
            BY <1>2, <2>1 DEF Repair
      <3>2. CASE usage[worker[w].event] = 0
            BY <1>2, <2>1, <3>1, <3>2 DEF RepairRow
      <3>3. CASE usage[worker[w].event] # 0
            BY <3>1, <3>3 DEF RepairRow
      <3>4. QED
            BY <3>2, <3>3
    <2>2. CASE ~FalselyRejected(event[worker[w].event])
          BY <1>2, <2>2 DEF Repair
    <2>3. QED
          BY <2>1, <2>2
  <1>3. ASSUME NEW w \in Workers,
               ReconcileStep(w) \/ FollowUpReads(w) \/ InsertTask(w) \/ Abort(w)
        PROVE  Repair(w) \/ UNCHANGED <<used, usage>>
        BY <1>3 DEF ReconcileStep, PassReads, Poll, UpdateDelivery, ConfirmFailure,
                    FollowUpReads, InsertTask, Abort
  <1>4. ASSUME (\E e \in Events : Resolve(e) \/ Progress(e)) \/ UNCHANGED vars
        PROVE  UNCHANGED <<used, usage>>
        BY <1>4 DEF Resolve, Progress, vars
  <1>5. QED
        BY <1>1, <1>2, <1>3, <1>4 DEF Next

LEMMA SettledKept ==
    ASSUME TypeInv, RowsSound, [Next]_vars, NEW e \in Settled
    PROVE  e \in Settled'
  <1>1. /\ e \in Events /\ accepted[e] > 0 /\ event[e] # NoRow /\ event[e].status # "queued"
        /\ ~FalselyRejected(event[e]) /\ ~Charging(e)
        BY DEF Settled, Taken
  <1>2. accepted'[e] > 0
        BY <1>1, TakenKept
  <1>3. event'[e] # NoRow /\ event'[e].status # "queued" /\ ~FalselyRejected(event'[e])
        BY <1>1, RowKept
  <1>4. ASSUME NEW v \in Workers, worker'[v].step = "consume", worker'[v].event = e PROVE FALSE
    <2>1. CASE worker'[v] = worker[v]
          BY <1>1, <1>4, <2>1 DEF Charging
    <2>2. CASE RecordSent(v) /\ worker'[v].event = worker[v].event
          BY <1>1, <1>4, <2>2 DEF RecordSent, RowsSound, HandSound
    <2>3. QED
          BY <1>4, <2>1, <2>2, ChargingFrom
  <1>5. QED
        BY <1>1, <1>2, <1>3, <1>4 DEF Settled, Taken, Charging

\* A credit is taken for a message that no credit was taken for before.
LEMMA ConsumeSettles ==
    ASSUME TypeInv, RowsSound, NEW w \in Workers, Consume(w)
    PROVE  worker[w].event \in Settled' \ Settled
  <1> DEFINE e == worker[w].event
  <1>1. worker[w].step = "consume" /\ worker[w].step \in EventSteps
        /\ HandSound(worker[w], event, accepted)
        BY DEF Consume, EventSteps, CarrySteps, RowsSound
  <1>2. e \in Events /\ event[e] # NoRow /\ accepted[e] > 0 /\ event[e].id
        /\ event[e].status # "queued"
        BY <1>1, HeldRow DEF HandSound, EventSteps, CarrySteps, PaidSteps
  <1>3. e \notin Settled
        BY <1>1 DEF Settled, Charging
  <1>4. ASSUME NEW v \in Workers, worker'[v].step = "consume", worker'[v].event = e PROVE FALSE
    <2>1. CASE v = w
          BY <1>4, <2>1 DEF Consume, Proceed, Goto, TypeInv, TypeOK
    <2>2. CASE v # w
      <3>1. worker'[v] = worker[v]
            BY <2>2 DEF Consume, Proceed, Goto, TypeInv, TypeOK
      <3>2. QED
            BY <1>1, <1>4, <2>2, <3>1 DEF RowsSound, Sole, CarrySteps
    <2>3. QED
          BY <2>1, <2>2
  <1>5. UNCHANGED <<event, accepted>>
        BY DEF Consume
  <1>6. e \in Settled'
        BY <1>2, <1>4, <1>5 DEF Settled, Taken, Charging, FalselyRejected
  <1>7. QED
        BY <1>3, <1>6

LEMMA RepairSettles ==
    ASSUME TypeInv, RowsSound, [Next]_vars, NEW w \in Workers, Repair(w),
           FalselyRejected(event[worker[w].event])
    PROVE  worker[w].event \in Settled' \ Settled
  <1> DEFINE e == worker[w].event
  <1>1. worker[w].step = "repair" /\ worker[w].step \in EventSteps
        /\ HandSound(worker[w], event, accepted) /\ worker[w].status \in {"queued", "sent"}
        BY WorkerShape DEF Repair, EventSteps, RowsSound, TypeInv
  <1>2. e \in Events /\ event[e] # NoRow /\ event[e] \in Row /\ accepted[e] > 0
        BY <1>1, HeldRow DEF HandSound, ReconcileSteps
  <1>3. e \notin Settled
        BY DEF Settled
  <1>4. accepted'[e] > 0
        BY <1>2, TakenKept
  <1>5. event'[e] # NoRow /\ event'[e].status = "sent"
    <2> DEFINE row == [event[e] EXCEPT !.status = "sent", !.delivery = worker[w].status,
                                       !.id = TRUE, !.reason = "none"]
    <2>1. RepairRow(e, worker[w].status)
          BY DEF Repair
    <2>2. event' = [event EXCEPT ![e] = row]
          BY <1>1, <1>2, <2>1, RepairTyped
    <2>3. row \in Row /\ row.status = "sent"
          BY <1>1, <1>2 DEF Row
    <2> HIDE DEF row
    <2>4. event'[e] = row
          BY <1>2, <2>2 DEF TypeInv, TypeOK
    <2>5. QED
          BY <2>3, <2>4, NoRowAssumption
  <1>6. ASSUME NEW v \in Workers, worker'[v].step = "consume", worker'[v].event = e PROVE FALSE
    <2>1. CASE worker'[v] = worker[v]
      <3>1. event[e].id
            BY <1>6, <2>1 DEF RowsSound, HandSound, PaidSteps
      <3>2. QED
            BY <3>1 DEF FalselyRejected
    <2>2. CASE RecordSent(v) /\ worker'[v].event = worker[v].event
      <3>1. event[e].status = "queued"
            BY <1>6, <2>2 DEF RecordSent, RowsSound, HandSound
      <3>2. QED
            BY <3>1 DEF FalselyRejected
    <2>3. QED
          BY <1>6, <2>1, <2>2, ChargingFrom
  <1>7. e \in Settled'
        BY <1>2, <1>4, <1>5, <1>6 DEF Settled, Taken, Charging, FalselyRejected
  <1>8. QED
        BY <1>3, <1>7

\* A row of the usage table is written for a message that has none and that was taken.
LEMMA UsageChanges ==
    ASSUME TypeInv, RowsSound, ChargeInv, [Next]_vars, NEW e \in Events, usage'[e] # usage[e]
    PROVE  /\ usage[e] = 0 /\ usage'[e] = 1
           /\ accepted[e] > 0 /\ event[e] # NoRow /\ event[e].status # "queued"
           /\ \/ \E w \in Workers : InsertUsage(w) /\ worker[w].event = e
              \/ FalselyRejected(event[e])
  <1>1. usage \in [Events -> Nat]
        BY DEF TypeInv, TypeOK
  <1>2. ASSUME NEW w \in Workers, InsertUsage(w)
        PROVE  /\ worker[w].event = e /\ usage[e] = 0 /\ usage'[e] = 1
               /\ accepted[e] > 0 /\ event[e] # NoRow /\ event[e].status # "queued"
    <2>1. worker[w].step = "usage" /\ worker[w].step \in EventSteps
          /\ HandSound(worker[w], event, accepted)
          BY <1>2 DEF InsertUsage, EventSteps, CarrySteps, RowsSound
    <2>2. worker[w].event = e
          BY <1>1, <1>2, <2>1, HeldRow DEF InsertUsage
    <2>3. usage[e] = 0
          BY <2>1, <2>2 DEF ChargeInv
    <2>4. usage'[e] = 1
          BY <1>1, <1>2, <2>2, <2>3 DEF InsertUsage
    <2>5. accepted[e] > 0 /\ event[e] # NoRow /\ event[e].status # "queued"
          BY <2>1, <2>2, HeldRow DEF HandSound, EventSteps, CarrySteps, PaidSteps
    <2>6. QED
          BY <2>2, <2>3, <2>4, <2>5
  <1>3. ASSUME NEW w \in Workers, Repair(w), FalselyRejected(event[worker[w].event]),
               usage[worker[w].event] = 0, usage' = [usage EXCEPT ![worker[w].event] = 1]
        PROVE  /\ worker[w].event = e /\ usage[e] = 0 /\ usage'[e] = 1
               /\ accepted[e] > 0 /\ event[e] # NoRow /\ event[e].status # "queued"
    <2>1. worker[w].step = "repair" /\ worker[w].step \in EventSteps
          /\ HandSound(worker[w], event, accepted)
          BY <1>3 DEF Repair, EventSteps, RowsSound
    <2>2. worker[w].event = e
          BY <1>1, <1>3
    <2>3. usage'[e] = 1
          BY <1>1, <1>3, <2>2
    <2>4. accepted[e] > 0 /\ event[e] # NoRow /\ event[e].status # "queued"
          BY <1>3, <2>1, <2>2, HeldRow DEF HandSound, ReconcileSteps, FalselyRejected
    <2>5. QED
          BY <1>3, <2>2, <2>3, <2>4
  <1>4. QED
        BY <1>2, <1>3, ChargesFrom

LEMMA ChargeInvStep ==
    ASSUME TypeInv, TypeInv', RowsSound, ChargeInv, [Next]_vars
    PROVE  ChargeInv'
  <1>1. used' <= Cardinality(Settled')
    <2>1. /\ IsFiniteSet(Settled) /\ IsFiniteSet(Settled') /\ Settled \subseteq Settled'
          /\ Cardinality(Settled) \in Nat /\ Cardinality(Settled') \in Nat
      <3>1. Settled \subseteq Events /\ Settled' \subseteq Events
            BY DEF Settled, Taken
      <3>2. QED
            BY <3>1, SettledKept, DispatchAssumption, FS_Subset, FS_CardinalityType
    <2>2. used \in Nat /\ used' \in Nat /\ used <= Cardinality(Settled)
          BY DEF ChargeInv, TypeInv, TypeOK
    <2>3. CASE UNCHANGED used
      <3>1. Cardinality(Settled) <= Cardinality(Settled')
            BY <2>1, FS_Subset
      <3>2. QED
            BY <2>1, <2>2, <2>3, <3>1
    <2>4. ASSUME used' = used + 1, NEW e \in Settled' \ Settled
          PROVE  used' <= Cardinality(Settled')
      <3>1. IsFiniteSet(Settled \cup {e})
            /\ Cardinality(Settled \cup {e}) = Cardinality(Settled) + 1
            BY <2>1, FS_AddElement
      <3>2. Settled \cup {e} \subseteq Settled'
            BY <2>1
      <3>3. Cardinality(Settled \cup {e}) <= Cardinality(Settled')
            BY <2>1, <3>2, FS_Subset
      <3>4. QED
            BY <2>1, <2>2, <2>4, <3>1, <3>3
    <2>5. UNCHANGED used \/ (used' = used + 1 /\ \E e : e \in Settled' \ Settled)
      <3>1. ASSUME NEW w \in Workers, Consume(w)
            PROVE  used' = used + 1 /\ worker[w].event \in Settled' \ Settled
            BY <3>1, ConsumeSettles DEF Consume
      <3>2. QED
            BY <3>1, ChargesFrom, RepairSettles
    <2>6. QED
          BY <2>3, <2>4, <2>5
  <1>2. ASSUME NEW e \in Events
        PROVE  /\ usage'[e] <= 1
               /\ usage'[e] > 0 => /\ accepted'[e] > 0 /\ event'[e] # NoRow
                                   /\ event'[e].status # "queued"
    <2>1. ASSUME usage'[e] > 0
          PROVE  accepted[e] > 0 /\ event[e] # NoRow /\ event[e].status # "queued"
          BY <2>1, UsageChanges DEF ChargeInv
    <2>2. ASSUME accepted[e] > 0, event[e] # NoRow, event[e].status # "queued"
          PROVE  accepted'[e] > 0 /\ event'[e] # NoRow /\ event'[e].status # "queued"
          BY <2>2, TakenKept, RowKept
    <2>3. usage'[e] <= 1
          BY UsageChanges DEF ChargeInv
    <2>4. QED
          BY <2>1, <2>2, <2>3
  <1>3. ASSUME NEW v \in Workers, worker'[v].step \in {"consume", "usage"}
        PROVE  usage'[worker'[v].event] = 0
    <2> DEFINE e == worker'[v].event
    <2>1. e \in Events
          BY <1>3, WorkerShape DEF TypeInv, TypeOK, Worker
    <2>2. CASE worker'[v] = worker[v]
      <3>1. worker[v].event = e /\ worker[v].step \in {"consume", "usage"} /\ usage[e] = 0
            BY <1>3, <2>2 DEF ChargeInv
      <3>2. event[e].id
            BY <3>1 DEF RowsSound, HandSound, PaidSteps
      <3>3. ASSUME NEW w \in Workers, InsertUsage(w), worker[w].event = e PROVE FALSE
        <4>1. w = v
              BY <3>1, <3>3 DEF RowsSound, Sole, CarrySteps, InsertUsage
        <4>2. worker'[v].step = "finish"
              BY <3>3, <4>1 DEF InsertUsage, Proceed, Goto, TypeInv, TypeOK
        <4>3. QED
              BY <1>3, <4>2
      <3>4. usage'[e] = usage[e]
            BY <2>1, <3>2, <3>3, UsageChanges DEF FalselyRejected
      <3>5. QED
            BY <3>1, <3>4
    <2>3. CASE RecordSent(v) /\ worker'[v].event = worker[v].event
      <3>1. event[e].status = "queued"
            BY <2>3 DEF RecordSent, RowsSound, HandSound
      <3>2. usage[e] = 0
            BY <2>1, <3>1 DEF ChargeInv, TypeInv, TypeOK
      <3>3. QED
            BY <2>3, <3>2 DEF RecordSent
    <2>4. CASE Consume(v) /\ worker'[v].event = worker[v].event
          BY <2>4 DEF Consume, ChargeInv
    <2>5. QED
          BY <1>3, <2>2, <2>3, <2>4, ChargingFrom
  <1>4. QED
        BY <1>1, <1>2, <1>3 DEF ChargeInv

LEMMA ChargeInvInit == Init => ChargeInv
  <1> SUFFICES ASSUME Init PROVE ChargeInv
      OBVIOUS
  <1>1. Settled = {}
        BY DEF Init, Settled, Taken
  <1>2. QED
        BY <1>1, FS_EmptySet DEF Init, ChargeInv

\* A message costs one credit at most, and only when the provider has taken it.
THEOREM ChargesAreBacked == Spec => []ChargesBacked
  <1>1. Init => ChargeInv
        BY ChargeInvInit
  <1>2. TypeInv /\ ChargeInv => ChargesBacked
    <2> SUFFICES ASSUME TypeInv, ChargeInv PROVE ChargesBacked
        OBVIOUS
    <2>1. Settled \subseteq Taken /\ Taken \subseteq Events
          BY DEF Settled, Taken
    <2>2. IsFiniteSet(Taken) /\ IsFiniteSet(Settled)
          BY <2>1, DispatchAssumption, FS_Subset
    <2>3. Cardinality(Settled) <= Cardinality(Taken) /\ Cardinality(Settled) \in Nat
          /\ Cardinality(Taken) \in Nat
          BY <2>1, <2>2, FS_Subset, FS_CardinalityType
    <2>4. used <= Cardinality(Taken)
          BY <2>3 DEF ChargeInv, TypeInv, TypeOK
    <2>5. ASSUME NEW e \in Events PROVE usage[e] <= 1 /\ (usage[e] = 1 => e \in Taken)
          BY <2>5 DEF ChargeInv, Taken
    <2>6. QED
          BY <2>4, <2>5 DEF ChargesBacked
  <1>3. TypeInv /\ RowsSound /\ ChargeInv /\ [Next]_vars => ChargeInv'
        BY ChargeInvStep, TypeInvStep
  <1>4. QED
        BY <1>1, <1>2, <1>3, TypeInvInit, TypeInvStep, RowsSoundInit, RowsSoundStep, PTL
           DEF Spec
-----------------------------------------------------------------------------
(* Dispatch implements MessageLife *)

\* A message with an id was sent, or its failure is confirmed.
IdSound == \A e \in Events : event[e] # NoRow /\ event[e].id => Stage(event[e]) \in {"sent", "dead"}

LifeInv == TypeInv /\ RowsSound /\ ChargeInv /\ IdSound

LEMMA StageOfRow ==
    ASSUME NEW row \in Row
    PROVE  Stage(row) = IF row.delivery = "failed" THEN "dead" ELSE row.status
  BY NoRowAssumption DEF Stage

\* One row is written: its message goes from one stage to another, and its id is accounted for.
LEMMA RowTurns ==
    ASSUME TypeInv, IdSound, NEW f \in Events, NEW row \in Row,
           event' = [event EXCEPT ![f] = row],
           row.id => Stage(row) \in {"sent", "dead"},
           NEW from, Stage(event[f]) \in from
    PROVE  /\ Lives!Becomes(f, from, Stage(row)) /\ IdSound'
           /\ Stage(row) = Stage(event[f]) => UNCHANGED [e \in Events |-> Stage(event[e])]
  <1>1. event \in [Events -> Row \cup {NoRow}] /\ row # NoRow
        BY NoRowAssumption DEF TypeInv, TypeOK
  <1>2. event'[f] = row /\ \A e \in Events \ {f} : event'[e] = event[e]
        BY <1>1
  <1>3. Lives!Becomes(f, from, Stage(row))
    <2> DEFINE life == [e \in Events |-> Stage(event[e])]
    <2>1. \A e \in Events : Stage(event'[e]) = IF e = f THEN Stage(row) ELSE Stage(event[e])
          BY <1>2
    <2>2. [e \in Events |-> Stage(event'[e])] = [life EXCEPT ![f] = Stage(row)]
          BY <2>1
    <2>3. life[f] \in from
          OBVIOUS
    <2>4. QED
          BY <2>2, <2>3 DEF Lives!Becomes
  <1>4. IdSound'
        BY <1>2 DEF IdSound
  <1>5. ASSUME Stage(row) = Stage(event[f]) PROVE \A e \in Events : Stage(event'[e]) = Stage(event[e])
        BY <1>2, <1>5
  <1>6. QED
        BY <1>3, <1>4, <1>5

\* No step but these concerns what MessageLife sees.
LEMMA LifeUntouched ==
    ASSUME IdSound, UNCHANGED <<event, accepted, usage>>
    PROVE  UNCHANGED Lives!lives /\ IdSound'
  BY DEF Lives!lives, IdSound, Taken

LEMMA LifeTaken ==
    ASSUME LifeInv, NEW w \in Workers, worker[w].step = "send", Take(worker[w].event),
           UNCHANGED <<event, usage>>
    PROVE  Lives!LifeNext /\ IdSound'
  <1> DEFINE e == worker[w].event
  <1>1. e \in Events /\ event[e] \in Row /\ event[e].status = "queued"
        /\ event[e].delivery = "none"
        BY HeldRow DEF LifeInv, RowsSound, RowSound, HandSound, EventSteps, CarrySteps
  <1>2. Stage(event[e]) = "queued"
        BY <1>1, StageOfRow
  <1>3. accepted \in [Events -> Nat] /\ accepted' = [accepted EXCEPT ![e] = @ + 1]
        BY DEF Take, LifeInv, TypeInv, TypeOK
  <1>4. Taken' = Taken \cup {e}
        BY <1>1, <1>3 DEF Taken
  <1>5. Lives!Take(e)
        BY <1>1, <1>2, <1>4 DEF Lives!Take
  <1>6. QED
        BY <1>1, <1>5 DEF Lives!LifeNext, IdSound, LifeInv

LEMMA LifeOfSends ==
    ASSUME LifeInv, NEW w \in Workers, QueueEvent(w) \/ RecordSent(w) \/ RecordFailed(w)
    PROVE  (Lives!LifeNext \/ UNCHANGED Lives!lives) /\ IdSound'
  <1> USE DEF LifeInv
  <1>1. event \in [Events -> Row \cup {NoRow}]
        BY DEF TypeInv, TypeOK
  <1>2. CASE QueueEvent(w)
    <2>1. CASE UNCHANGED event
          BY <1>2, <2>1, LifeUntouched DEF QueueEvent
    <2>2. ASSUME NEW e \in Events, event[e] = NoRow,
                 event' = [event EXCEPT ![e] =
                      [of |-> worker[w].of, status |-> "queued", id |-> FALSE,
                       metaId |-> FALSE, delivery |-> "none", reason |-> "none"]]
          PROVE  Lives!LifeNext /\ IdSound'
      <3> DEFINE row == [of |-> worker[w].of, status |-> "queued", id |-> FALSE,
                         metaId |-> FALSE, delivery |-> "none", reason |-> "none"]
      <3>1. row \in Row /\ ~row.id /\ row.status = "queued" /\ row.delivery = "none"
            BY <1>2, WorkerShape DEF QueueEvent, TypeInv, DispatchSteps, Row
      <3>2. event' = [event EXCEPT ![e] = row]
            BY <2>2
      <3> HIDE DEF row
      <3>3. Stage(event[e]) \in {"none"} /\ Stage(row) = "queued"
            BY <2>2, <3>1, StageOfRow DEF Stage
      <3>4. Lives!Becomes(e, {"none"}, "queued") /\ IdSound'
            BY <3>1, <3>2, <3>3, RowTurns
      <3>5. Lives!Queue(e)
            BY <1>2, <3>4 DEF Lives!Queue, QueueEvent, Taken
      <3>6. QED
            BY <3>4, <3>5 DEF Lives!LifeNext
    <2>3. QED
          BY <1>2, <2>1, <2>2 DEF QueueEvent
  <1>3. ASSUME worker[w].step \in {"sent", "failed"}
        PROVE  LET e == worker[w].event IN
               /\ e \in Events /\ event[e] \in Row /\ Stage(event[e]) \in {"queued"}
               /\ event[e].delivery = "none" /\ ~event[e].id
    <2>1. worker[w].event \in Events /\ event[worker[w].event] \in Row
          /\ event[worker[w].event] # NoRow /\ event[worker[w].event].status = "queued"
          BY <1>3, HeldRow DEF RowsSound, HandSound, EventSteps, CarrySteps
    <2>2. QED
          BY <2>1, StageOfRow DEF RowsSound, RowSound
  <1>4. CASE RecordSent(w)
    <2> DEFINE e == worker[w].event
               row == [event[e] EXCEPT !.status = "sent", !.delivery = "sent", !.id = TRUE]
    <2>1. e \in Events /\ event[e] \in Row /\ Stage(event[e]) \in {"queued"} /\ accepted[e] > 0
          BY <1>3, <1>4 DEF RecordSent, RowsSound, HandSound
    <2>2. row \in Row /\ row.status = "sent" /\ row.delivery = "sent"
          BY <2>1 DEF Row
    <2>3. event' = [event EXCEPT ![e] = row]
          BY <1>1, <1>4, <2>1 DEF RecordSent, Row
    <2> HIDE DEF row
    <2>4. Stage(row) = "sent"
          BY <2>2, StageOfRow
    <2>5. Lives!Becomes(e, {"queued"}, "sent") /\ IdSound'
          BY <2>1, <2>2, <2>3, <2>4, RowTurns
    <2>6. Lives!Send(e)
          BY <1>4, <2>1, <2>5 DEF Lives!Send, RecordSent, Taken
    <2>7. QED
          BY <2>1, <2>5, <2>6 DEF Lives!LifeNext
  <1>5. CASE RecordFailed(w)
    <2> DEFINE e == worker[w].event
               row == [event[e] EXCEPT !.status = "failed", !.reason = worker[w].reason,
                                       !.metaId = worker[w].metaId]
    <2>1. e \in Events /\ event[e] \in Row /\ Stage(event[e]) \in {"queued"}
          /\ event[e].delivery = "none" /\ ~event[e].id
          /\ worker[w].reason \in Reasons /\ worker[w].metaId \in BOOLEAN
          BY <1>3, <1>5, WorkerShape DEF RecordFailed, TypeInv
    <2>2. row \in Row /\ row.status = "failed" /\ row.delivery = "none" /\ ~row.id
          BY <2>1 DEF Row
    <2>3. event' = [event EXCEPT ![e] = row]
          BY <1>1, <1>5, <2>1 DEF RecordFailed, Row
    <2> HIDE DEF row
    <2>4. Stage(row) = "failed"
          BY <2>2, StageOfRow
    <2>5. Lives!Becomes(e, {"queued"}, "failed") /\ IdSound'
          BY <2>1, <2>2, <2>3, <2>4, RowTurns
    <2>6. Lives!Fail(e)
          BY <1>5, <2>5 DEF Lives!Fail, RecordFailed, Taken
    <2>7. QED
          BY <2>1, <2>5, <2>6 DEF Lives!LifeNext
  <1>6. QED
        BY <1>2, <1>4, <1>5

LEMMA LifeCharged ==
    ASSUME LifeInv, NEW w \in Workers, InsertUsage(w)
    PROVE  Lives!LifeNext /\ IdSound'
  <1> USE DEF LifeInv
  <1> DEFINE e == worker[w].event
  <1>1. worker[w].step = "usage" /\ HandSound(worker[w], event, accepted)
        BY DEF InsertUsage, RowsSound
  <1>2. e \in Events /\ event[e] # NoRow /\ accepted[e] > 0 /\ event[e].id /\ usage[e] = 0
        BY <1>1, HeldRow DEF HandSound, EventSteps, CarrySteps, PaidSteps, ChargeInv
  <1>3. Stage(event[e]) \in {"sent", "dead"}
        BY <1>2 DEF IdSound
  <1>4. usage' = [usage EXCEPT ![e] = 1] /\ UNCHANGED <<event, accepted>>
        BY <1>2 DEF InsertUsage, TypeInv, TypeOK
  <1>5. Lives!Charge(e)
        BY <1>2, <1>3, <1>4 DEF Lives!Charge, Taken
  <1>6. QED
        BY <1>2, <1>4, <1>5 DEF Lives!LifeNext, IdSound

\* An answer that is late changes no stage.
LEMMA LifeOfDelivery ==
    ASSUME LifeInv, NEW w \in Workers, UpdateDelivery(w)
    PROVE  UNCHANGED Lives!lives /\ IdSound'
  <1> USE DEF LifeInv
  <1> DEFINE e == worker[w].event
             row == [event[e] EXCEPT !.delivery = worker[w].status]
  <1>1. e \in Events /\ event[e] \in Row /\ event[e] # NoRow
        /\ worker[w].status \in {"queued", "sent"}
        BY HeldRow, WorkerShape DEF UpdateDelivery, EventSteps, TypeInv
  <1>2. CASE event[e].delivery = "failed"
        BY <1>2, LifeUntouched DEF UpdateDelivery
  <1>3. CASE event[e].delivery # "failed"
    <2>1. row \in Row /\ row.status = event[e].status /\ row.id = event[e].id
          /\ row.delivery # "failed"
          BY <1>1 DEF Row
    <2>2. event' = [event EXCEPT ![e] = row]
          BY <1>1, <1>3 DEF UpdateDelivery, TypeInv, TypeOK
    <2> HIDE DEF row
    <2>3. Stage(row) = Stage(event[e])
          BY <1>1, <1>3, <2>1, StageOfRow
    <2>4. row.id => Stage(row) \in {"sent", "dead"}
          BY <1>1, <2>1, <2>3 DEF IdSound
    <2>5. Stage(event[e]) \in {Stage(event[e])}
          OBVIOUS
    <2>6. UNCHANGED [f \in Events |-> Stage(event[f])] /\ IdSound'
          BY <1>1, <2>1, <2>2, <2>3, <2>4, <2>5, RowTurns
    <2>7. QED
          BY <2>6 DEF Lives!lives, UpdateDelivery, Taken
  <1>4. QED
        BY <1>2, <1>3

LEMMA LifeOfRepair ==
    ASSUME LifeInv, NEW w \in Workers, Repair(w)
    PROVE  (Lives!LifeNext \/ UNCHANGED Lives!lives) /\ IdSound'
  <1> USE DEF LifeInv
  <1> DEFINE e == worker[w].event
             row == [event[e] EXCEPT !.status = "sent", !.delivery = worker[w].status,
                                     !.id = TRUE, !.reason = "none"]
  <1>1. worker[w].step = "repair" /\ worker[w].step \in EventSteps
        /\ HandSound(worker[w], event, accepted) /\ worker[w].status \in {"queued", "sent"}
        BY WorkerShape DEF Repair, EventSteps, RowsSound, TypeInv
  <1>2. e \in Events /\ event[e] # NoRow /\ event[e] \in Row /\ accepted[e] > 0
        BY <1>1, HeldRow DEF HandSound, ReconcileSteps
  <1>3. CASE ~FalselyRejected(event[e])
        BY <1>3, LifeUntouched DEF Repair
  <1>4. CASE FalselyRejected(event[e])
    <2>1. RepairRow(e, worker[w].status)
          BY <1>4 DEF Repair
    <2>2. event' = [event EXCEPT ![e] = row]
      <3>1. event \in [Events -> Row \cup {NoRow}]
            BY DEF TypeInv, TypeOK
      <3>2. QED
            BY <1>2, <2>1, <3>1 DEF RepairRow
    <2>3. row \in Row /\ row.status = "sent" /\ row.delivery # "failed"
          BY <1>1, <1>2 DEF Row
    <2> HIDE DEF row
    <2>4. Stage(row) = "sent"
          BY <2>3, StageOfRow
    <2>5. Stage(event[e]) \in {"failed"}
          BY <1>2, <1>4, StageOfRow DEF FalselyRejected, RowsSound, RowSound
    <2>6. Lives!Becomes(e, {"failed"}, "sent") /\ IdSound'
          BY <1>2, <2>2, <2>3, <2>4, <2>5, RowTurns
    <2>7. usage' = [usage EXCEPT ![e] = 1]
      <3>1. usage \in [Events -> Nat] /\ usage[e] \in Nat /\ usage[e] <= 1
            BY <1>2 DEF TypeInv, TypeOK, ChargeInv
      <3>2. CASE usage[e] = 0
            BY <2>1, <3>2 DEF RepairRow
      <3>3. CASE usage[e] # 0
        <4>1. usage' = usage /\ usage[e] = 1
              BY <2>1, <3>1, <3>3 DEF RepairRow
        <4>2. QED
              BY <3>1, <4>1
      <3>4. QED
            BY <3>2, <3>3
    <2>8. Lives!Repair(e)
          BY <1>2, <2>6, <2>7 DEF Lives!Repair, Repair, Taken
    <2>9. QED
          BY <1>2, <2>6, <2>8 DEF Lives!LifeNext
  <1>5. QED
        BY <1>3, <1>4

LEMMA LifeOfConfirm ==
    ASSUME LifeInv, NEW w \in Workers, ConfirmFailure(w)
    PROVE  (Lives!LifeNext \/ UNCHANGED Lives!lives) /\ IdSound'
  <1> USE DEF LifeInv
  <1> DEFINE e == worker[w].event
             row == [event[e] EXCEPT !.status = "failed", !.delivery = "failed", !.id = TRUE,
                                     !.reason = "semaphore_failed"]
  <1>1. worker[w].step = "confirm" /\ worker[w].step \in EventSteps
        /\ HandSound(worker[w], event, accepted)
        BY DEF ConfirmFailure, EventSteps, RowsSound
  <1>2. e \in Events /\ event[e] # NoRow /\ event[e] \in Row /\ accepted[e] > 0
        /\ event[e].status \in {"sent", "failed"}
        BY <1>1, HeldRow DEF HandSound, ReconcileSteps, EventSteps, Row
  <1>3. row \in Row /\ row.delivery = "failed"
        BY <1>2 DEF Row, Reasons
  <1>4. event' = [event EXCEPT ![e] = row] /\ UNCHANGED <<usage, accepted>>
        BY <1>2 DEF ConfirmFailure, TypeInv, TypeOK
  <1> HIDE DEF row
  <1>5. Stage(row) = "dead" /\ Stage(event[e]) \in {"sent", "failed", "dead"}
        BY <1>2, <1>3, StageOfRow
  <1>6. CASE Stage(event[e]) = "dead"
    <2>1. Stage(event[e]) \in {"dead"} /\ Stage(row) = Stage(event[e])
          BY <1>5, <1>6
    <2>2. UNCHANGED [f \in Events |-> Stage(event[f])] /\ IdSound'
          BY <1>2, <1>3, <1>4, <1>5, <2>1, RowTurns
    <2>3. QED
          BY <1>4, <2>2 DEF Lives!lives, Taken
  <1>7. CASE Stage(event[e]) \in {"sent", "failed"}
    <2>1. Lives!Becomes(e, {"sent", "failed"}, "dead") /\ IdSound'
          BY <1>2, <1>3, <1>4, <1>5, <1>7, RowTurns
    <2>2. Lives!ConfirmFailure(e)
          BY <1>2, <1>4, <2>1 DEF Lives!ConfirmFailure, Taken
    <2>3. QED
          BY <1>2, <2>1, <2>2 DEF Lives!LifeNext
  <1>8. QED
        BY <1>5, <1>6, <1>7

\* Every step is one of MessageLife, or none that it sees.
LEMMA LifeStep ==
    ASSUME LifeInv, [Next]_vars
    PROVE  (Lives!LifeNext \/ UNCHANGED Lives!lives) /\ IdSound'
  <1>1. ASSUME NEW w \in Workers, DispatchStep(w)
        PROVE  (Lives!LifeNext \/ UNCHANGED Lives!lives) /\ IdSound'
    <2>1. CASE QueueEvent(w) \/ RecordSent(w) \/ RecordFailed(w)
          BY <2>1, LifeOfSends
    <2>2. CASE InsertUsage(w)
          BY <2>2, LifeCharged
    <2>3. CASE ProviderAccepts(w) \/ ProviderRejectsFalsely(w) \/ ProviderUnknown(w)
      <3>1. worker[w].step = "send" /\ UNCHANGED <<event, usage>>
            /\ (Take(worker[w].event) \/ UNCHANGED accepted)
            BY <2>3 DEF ProviderAccepts, ProviderRejectsFalsely, ProviderUnknown, TakesAnyway
      <3>2. QED
            BY <3>1, LifeTaken, LifeUntouched DEF LifeInv
    <2>4. CASE UNCHANGED <<event, accepted, usage>>
          BY <2>4, LifeUntouched DEF LifeInv
    <2>5. QED
          BY <1>1, <2>1, <2>2, <2>3, <2>4
             DEF DispatchStep, SendBegin, RetryBegin, CheckCap, ProviderRejects, ProviderBusy,
                 Consume, MarkSent, AttachRetry
  <1>2. ASSUME NEW w \in Workers, ReconcileStep(w)
        PROVE  (Lives!LifeNext \/ UNCHANGED Lives!lives) /\ IdSound'
    <2>1. CASE UNCHANGED <<event, accepted, usage>>
          BY <2>1, LifeUntouched DEF LifeInv
    <2>2. QED
          BY <1>2, <2>1, LifeOfDelivery, LifeOfRepair, LifeOfConfirm
             DEF ReconcileStep, PassReads, Poll
  <1>3. ASSUME \/ \E w \in Workers : FollowUpReads(w) \/ InsertTask(w) \/ Abort(w)
               \/ \E f \in Events : Resolve(f) \/ Progress(f)
               \/ UNCHANGED vars
        PROVE  UNCHANGED <<event, accepted, usage>>
        BY <1>3 DEF FollowUpReads, InsertTask, Abort, Resolve, Progress, vars
  <1>4. QED
        BY <1>1, <1>2, <1>3, LifeUntouched DEF Next, LifeInv

LEMMA LifeInvHolds == Spec => []LifeInv
  <1>1. Init => LifeInv
        BY TypeInvInit, RowsSoundInit, ChargeInvInit DEF Init, LifeInv, IdSound
  <1>2. LifeInv /\ [Next]_vars => LifeInv'
        BY TypeInvStep, RowsSoundStep, ChargeInvStep, LifeStep DEF LifeInv
  <1>3. QED
        BY <1>1, <1>2, PTL DEF Spec

\* Whatever answers come late, twice or never, messages live as MessageLife says: a failure
\* confirmed is final, and nothing is sent, repaired or charged that the provider did not take.
THEOREM DispatchImplementsMessageLife == Spec => ImplementsMessageLife
  <1>1. Init => Lives!LifeInit
        BY DEF Init, Lives!LifeInit, Stage, Taken
  <1>2. LifeInv /\ [Next]_vars => [Lives!LifeNext]_(Lives!lives)
        BY LifeStep
  <1>3. QED
        BY <1>1, <1>2, LifeInvHolds, PTL DEF Spec, ImplementsMessageLife, Lives!LifeSpec

\* By MessageLife alone, a message that waits or failed, and was not repaired, is not charged.
THEOREM FailedMessagesAreFree == Spec => []Lives!FailedIsFree
  <1>1. Lives!LifeInit => Lives!FailedIsFree
        BY DEF Lives!LifeInit, Lives!FailedIsFree
  <1>2. TypeInv /\ TypeInv' /\ Lives!FailedIsFree /\ [Lives!LifeNext]_(Lives!lives)
            => Lives!FailedIsFree'
    <2> SUFFICES ASSUME TypeInv, TypeInv', Lives!FailedIsFree, [Lives!LifeNext]_(Lives!lives),
                        NEW m \in Events
                 PROVE  /\ usage'[m] <= 1
                        /\ usage'[m] > 0 => m \in Taken' /\ Stage(event'[m]) \in {"sent", "dead"}
        BY DEF Lives!FailedIsFree
    <2>1. usage \in [Events -> Nat]
          BY DEF TypeInv, TypeOK
    <2>2. /\ usage[m] <= 1
          /\ usage[m] > 0 => m \in Taken /\ Stage(event[m]) \in {"sent", "dead"}
          BY DEF Lives!FailedIsFree
    <2>3. CASE UNCHANGED Lives!lives
      <3>1. usage' = usage /\ Taken' = Taken /\ Stage(event'[m]) = Stage(event[m])
            BY <2>3 DEF Lives!lives
      <3>2. QED
            BY <2>2, <3>1
    <2>4. ASSUME NEW e \in Events,
                 \/ Lives!Queue(e) \/ Lives!Take(e) \/ Lives!Send(e) \/ Lives!Fail(e)
                 \/ Lives!Repair(e) \/ Lives!Charge(e) \/ Lives!ConfirmFailure(e)
          PROVE  /\ usage'[m] <= 1
                 /\ usage'[m] > 0 => m \in Taken' /\ Stage(event'[m]) \in {"sent", "dead"}
      <3> DEFINE life == [f \in Events |-> Stage(event[f])]
      <3>1. life'[m] = Stage(event'[m]) /\ life[m] = Stage(event[m])
            OBVIOUS
      <3>2. ASSUME NEW from, NEW to, Lives!Becomes(e, from, to)
            PROVE  life[e] \in from /\ life' = [life EXCEPT ![e] = to]
            BY <3>2 DEF Lives!Becomes
      <3> HIDE DEF life
      <3>3. CASE Lives!Take(e)
        <4>1. Taken' = Taken \cup {e} /\ usage' = usage /\ life' = life
              BY <3>3 DEF Lives!Take, life
        <4>2. QED
              BY <2>2, <3>1, <4>1
      <3>4. CASE Lives!Charge(e)
        <4>1. /\ life[e] \in {"sent", "dead"} /\ e \in Taken /\ life' = life
              /\ Taken' = Taken /\ usage' = [usage EXCEPT ![e] = 1]
              BY <3>4 DEF Lives!Charge, life
        <4>2. QED
              BY <2>1, <2>2, <3>1, <4>1
      <3>5. CASE Lives!Repair(e)
        <4>1. /\ e \in Taken /\ life' = [life EXCEPT ![e] = "sent"]
              /\ Taken' = Taken /\ usage' = [usage EXCEPT ![e] = 1]
              BY <3>2, <3>5 DEF Lives!Repair
        <4>2. m \in DOMAIN life
              BY DEF life
        <4>3. QED
              BY <2>1, <2>2, <3>1, <4>1, <4>2
      <3>6. CASE Lives!Queue(e) \/ Lives!Send(e) \/ Lives!Fail(e) \/ Lives!ConfirmFailure(e)
        <4>1. PICK to \in {"queued", "sent", "failed", "dead"} :
                  /\ life' = [life EXCEPT ![e] = to] /\ usage' = usage /\ Taken' = Taken
                  /\ to = "dead" \/ life[e] \in {"none", "queued"}
              BY <3>2, <3>6 DEF Lives!Queue, Lives!Send, Lives!Fail, Lives!ConfirmFailure
        <4>2. m \in DOMAIN life
              BY DEF life
        <4>3. QED
              BY <2>2, <3>1, <4>1, <4>2
      <3>7. QED
            BY <2>4, <3>3, <3>4, <3>5, <3>6
    <2>5. QED
          BY <2>3, <2>4 DEF Lives!LifeNext
  <1>3. QED
        BY <1>1, <1>2, DispatchImplementsMessageLife, TypeInvInit, TypeInvStep, PTL
           DEF Spec, ImplementsMessageLife, Lives!LifeSpec
-----------------------------------------------------------------------------
(* A reminder whose sends were in order *)

AcceptedSteps == {"sent", "consume", "usage", "finish"}

TakenOf(r) == {e \in Taken : event[e].of = r}

\* One worker at most is sending it, no message was taken before its own, and a taken one
\* has its marker set or is in the hands of that worker.
Once(r) ==
    /\ \A v, w \in Workers : Sending(v, r) /\ Sending(w, r) => v = w
    /\ \A w \in Workers : Sending(w, r) =>
          /\ worker[w].origin = Automation
          /\ \A e \in TakenOf(r) : worker[w].step \in AcceptedSteps /\ e = worker[w].event
    /\ TakenOf(r) # {} => marker[r] \/ \E w \in Workers : Sending(w, r)
    /\ \A e, f \in TakenOf(r) : e = f /\ accepted[e] = 1

SendsReminder(state, r) == state.step \in DispatchSteps /\ state.of = r

\* A step of one worker that neither has the message taken nor begins to send it.
LEMMA OnceMoves ==
    ASSUME TypeInv, NEW r \in Reminders, Once(r), NEW w \in Workers, NEW state, Goto(w, state),
           TakenOf(r)' = TakenOf(r),
           \A e \in TakenOf(r) : accepted'[e] = accepted[e],
           marker[r] => marker'[r],
           SendsReminder(state, r) =>
              /\ Sending(w, r) /\ state.origin = worker[w].origin
              /\ worker[w].step \in AcceptedSteps
                    => state.step \in AcceptedSteps /\ state.event = worker[w].event,
           Sending(w, r) /\ ~SendsReminder(state, r)
              => worker[w].step \notin AcceptedSteps \/ marker'[r]
    PROVE  Once(r)'
  <1>1. worker'[w] = state /\ \A v \in Workers : v # w => worker'[v] = worker[v]
        BY DEF Goto, TypeInv, TypeOK
  <1>2. \A v \in Workers : Sending(v, r)' => Sending(v, r)
        BY <1>1 DEF Sending, SendsReminder
  <1>3. ASSUME NEW v \in Workers, Sending(v, r)', NEW e \in TakenOf(r)
        PROVE  worker'[v].step \in AcceptedSteps /\ e = worker'[v].event
    <2>1. worker[v].step \in AcceptedSteps /\ e = worker[v].event
          BY <1>2, <1>3 DEF Once
    <2>2. CASE v = w
          BY <1>1, <1>3, <2>1, <2>2 DEF Sending, SendsReminder
    <2>3. CASE v # w
          BY <1>1, <2>1, <2>3
    <2>4. QED
          BY <2>2, <2>3
  <1>4. ASSUME NEW v \in Workers, Sending(v, r)' PROVE worker'[v].origin = Automation
    <2>1. worker[v].origin = Automation
          BY <1>2, <1>4 DEF Once
    <2>2. QED
          BY <1>1, <1>4, <2>1 DEF Sending, SendsReminder
  <1>5. ASSUME TakenOf(r) # {}, ~marker'[r] PROVE \E v \in Workers : Sending(v, r)'
    <2>1. PICK v \in Workers : Sending(v, r)
          BY <1>5 DEF Once
    <2>2. worker[v].step \in AcceptedSteps
          BY <1>5, <2>1 DEF Once
    <2>3. SendsReminder(worker'[v], r)
          BY <1>1, <1>5, <2>1, <2>2 DEF Sending, SendsReminder
    <2>4. QED
          BY <2>3 DEF Sending, SendsReminder
  <1>6. \A e, f \in TakenOf(r)' : e = f /\ accepted'[e] = 1
        BY DEF Once
  <1>7. \A u, v \in Workers : Sending(u, r)' /\ Sending(v, r)' => u = v
        BY <1>2 DEF Once
  <1>8. QED
        BY <1>3, <1>4, <1>5, <1>6, <1>7 DEF Once

\* The messages taken of a reminder whose sends are in order change only with a plain answer.
LEMMA TakenOfKept ==
    ASSUME TypeInv, RowsSound, [Next]_vars, NEW r \in Reminders, clean[r], clean'[r]
    PROVE  \/ \E w \in Workers : ProviderAccepts(w) /\ worker[w].of = r
           \/ /\ TakenOf(r)' = TakenOf(r)
              /\ \A e \in TakenOf(r) : accepted'[e] = accepted[e]
  <1>1. accepted \in [Events -> Nat] /\ clean \in [Reminders -> BOOLEAN]
        BY DEF TypeInv, TypeOK
  <1>2. \A e \in Taken : event'[e].of = event[e].of
        BY TakenKept DEF Taken
  <1>3. ASSUME UNCHANGED accepted
        PROVE  TakenOf(r)' = TakenOf(r) /\ \A e \in TakenOf(r) : accepted'[e] = accepted[e]
    <2>1. Taken' = Taken
          BY <1>3 DEF Taken
    <2>2. \A e : e \in TakenOf(r)' <=> e \in TakenOf(r)
          BY <1>2, <2>1 DEF TakenOf
    <2>3. QED
          BY <1>3, <2>2
  <1>4. ASSUME NEW w \in Workers, worker[w].step = "send", Take(worker[w].event),
               worker[w].of # r, UNCHANGED event
        PROVE  TakenOf(r)' = TakenOf(r) /\ \A e \in TakenOf(r) : accepted'[e] = accepted[e]
    <2>1. worker[w].step \in EventSteps /\ worker[w].step \in CarrySteps
          /\ HandSound(worker[w], event, accepted)
          BY <1>4 DEF EventSteps, CarrySteps, RowsSound
    <2>2. worker[w].event \in Events /\ event[worker[w].event].of # r
          BY <1>4, <2>1, HeldRow DEF HandSound
    <2>3. \A e \in Events : event[e].of = r => accepted'[e] = accepted[e]
          BY <1>1, <1>4, <2>2 DEF Take
    <2>4. \A e : e \in TakenOf(r)' <=> e \in TakenOf(r)
          BY <1>4, <2>3 DEF TakenOf, Taken
    <2>5. QED
          BY <2>3, <2>4 DEF TakenOf, Taken
  <1>5. ASSUME NEW w \in Workers, ProviderRejectsFalsely(w) \/ ProviderUnknown(w)
        PROVE  \/ UNCHANGED accepted
               \/ /\ worker[w].step = "send" /\ Take(worker[w].event) /\ worker[w].of # r
                  /\ UNCHANGED event
    <2>1. TakesAnyway(w) => Take(worker[w].event) /\ worker[w].of # r
          BY <1>1 DEF TakesAnyway
    <2>2. QED
          BY <1>5, <2>1 DEF ProviderRejectsFalsely, ProviderUnknown
  <1>6. ASSUME NEW w \in Workers, DispatchStep(w)
        PROVE  ProviderAccepts(w) \/ ProviderRejectsFalsely(w) \/ ProviderUnknown(w)
               \/ UNCHANGED accepted
        BY <1>6 DEF DispatchStep, SendBegin, RetryBegin, CheckCap, QueueEvent,
                    ProviderRejects, ProviderBusy, RecordSent, Consume, InsertUsage, MarkSent,
                    AttachRetry, RecordFailed
  <1>7. ASSUME NEW w \in Workers,
               ReconcileStep(w) \/ FollowUpReads(w) \/ InsertTask(w) \/ Abort(w)
        PROVE  UNCHANGED accepted
        BY <1>7 DEF ReconcileStep, PassReads, Poll, UpdateDelivery, Repair, ConfirmFailure,
                    FollowUpReads, InsertTask, Abort
  <1>8. ASSUME (\E e \in Events : Resolve(e) \/ Progress(e)) \/ UNCHANGED vars
        PROVE  UNCHANGED accepted
        BY <1>8 DEF Resolve, Progress, vars
  <1>9. ASSUME NEW w \in Workers, ProviderAccepts(w), worker[w].of # r
        PROVE  TakenOf(r)' = TakenOf(r) /\ \A e \in TakenOf(r) : accepted'[e] = accepted[e]
        BY <1>4, <1>9 DEF ProviderAccepts
  <1>10. QED
         BY <1>3, <1>4, <1>5, <1>6, <1>7, <1>8, <1>9 DEF Next

\* A marker is not taken off, and an order once lost stays lost.
LEMMA MarkerKept ==
    ASSUME TypeInv, [Next]_vars, NEW r \in Reminders
    PROVE  (marker[r] => marker'[r]) /\ (clean'[r] => clean[r])
  <1>1. marker \in [Reminders -> BOOLEAN] /\ clean \in [Reminders -> BOOLEAN]
        BY DEF TypeInv, TypeOK
  <1>2. marker[r] => marker'[r]
    <2>1. ASSUME NEW w \in Workers, DispatchStep(w)
          PROVE  UNCHANGED marker \/ \E q : marker' = [marker EXCEPT ![q] = TRUE]
          BY <2>1 DEF DispatchStep, SendBegin, RetryBegin, CheckCap, QueueEvent,
                      ProviderAccepts, ProviderRejects, ProviderRejectsFalsely, ProviderBusy,
                      ProviderUnknown, RecordSent, Consume, InsertUsage, MarkSent,
                      AttachRetry, RecordFailed
    <2>2. ASSUME NEW w \in Workers, Repair(w)
          PROVE  UNCHANGED marker \/ \E q : marker' = [marker EXCEPT ![q] = TRUE]
          BY <2>2 DEF Repair, RepairRow
    <2>3. ASSUME NEW w \in Workers,
                 ReconcileStep(w) \/ FollowUpReads(w) \/ InsertTask(w) \/ Abort(w)
          PROVE  Repair(w) \/ UNCHANGED marker
          BY <2>3 DEF ReconcileStep, PassReads, Poll, UpdateDelivery, ConfirmFailure,
                      FollowUpReads, InsertTask, Abort
    <2>4. ASSUME (\E e \in Events : Resolve(e) \/ Progress(e)) \/ UNCHANGED vars
          PROVE  UNCHANGED marker
          BY <2>4 DEF Resolve, Progress, vars
    <2>5. QED
          BY <1>1, <2>1, <2>2, <2>3, <2>4 DEF Next
  <1>3. clean'[r] => clean[r]
    <2>1. ASSUME NEW w \in Workers, NEW q, NEW o, Begin(w, q, o) PROVE clean'[r] => clean[r]
          BY <1>1, <2>1 DEF Begin
    <2>2. ASSUME NEW w \in Workers, DispatchStep(w)
          PROVE  UNCHANGED clean \/ TakesAnyway(w) \/ \E q, o : Begin(w, q, o)
          BY <2>2 DEF DispatchStep, SendBegin, RetryBegin, CheckCap, QueueEvent,
                      ProviderAccepts, ProviderRejects, ProviderRejectsFalsely, ProviderBusy,
                      ProviderUnknown, RecordSent, Consume, InsertUsage, MarkSent,
                      AttachRetry, RecordFailed
    <2>3. ASSUME NEW w \in Workers, TakesAnyway(w) PROVE clean'[r] => clean[r]
          BY <1>1, <2>3 DEF TakesAnyway
    <2>4. ASSUME NEW w \in Workers,
                 ReconcileStep(w) \/ FollowUpReads(w) \/ InsertTask(w) \/ Abort(w)
          PROVE  clean'[r] => clean[r]
          BY <1>1, <2>4 DEF ReconcileStep, PassReads, Poll, UpdateDelivery, Repair,
                      ConfirmFailure, FollowUpReads, InsertTask, Abort
    <2>5. ASSUME (\E e \in Events : Resolve(e) \/ Progress(e)) \/ UNCHANGED vars
          PROVE  UNCHANGED clean
          BY <2>5 DEF Resolve, Progress, vars
    <2>6. QED
          BY <2>1, <2>2, <2>3, <2>4, <2>5 DEF Next
  <1>4. QED
        BY <1>2, <1>3

\* The facts about the messages and the marker that a step of a reminder in order keeps.
OnceKept(r) == /\ TakenOf(r)' = TakenOf(r)
               /\ \A e \in TakenOf(r) : accepted'[e] = accepted[e]
               /\ marker[r] => marker'[r]

LEMMA OnceAside ==
    ASSUME TypeInv, NEW r \in Reminders, Once(r), OnceKept(r), NEW w \in Workers, NEW state,
           Goto(w, state), state.step \notin DispatchSteps, worker[w].step \notin DispatchSteps
    PROVE  Once(r)'
  BY OnceMoves DEF OnceKept, SendsReminder, Sending

\* A worker that stops before its message is taken, or once its marker is set, or of
\* another reminder.
LEMMA OnceLeaves ==
    ASSUME TypeInv, NEW r \in Reminders, Once(r), OnceKept(r), NEW w \in Workers, NEW state,
           Goto(w, state), state.step \notin DispatchSteps,
           \/ worker[w].of # r
           \/ worker[w].step \notin AcceptedSteps
           \/ marker'[r]
    PROVE  Once(r)'
  BY OnceMoves DEF OnceKept, SendsReminder, Sending

\* A worker that goes on with its message.
LEMMA OnceGoesOn ==
    ASSUME TypeInv, NEW r \in Reminders, Once(r), OnceKept(r), NEW w \in Workers, NEW state,
           Goto(w, state), worker[w].step \in DispatchSteps, state.step \in DispatchSteps,
           state.of = worker[w].of, state.origin = worker[w].origin,
           worker[w].step \in AcceptedSteps
              => state.step \in AcceptedSteps /\ state.event = worker[w].event
    PROVE  Once(r)'
  BY OnceMoves DEF OnceKept, SendsReminder, Sending

LEMMA OnceBegins ==
    ASSUME TypeInv, RowsSound, NEW r \in Reminders, Once(r), OnceKept(r), clean'[r],
           NEW w \in Workers,
           \/ \E q \in Reminders : SendBegin(w, q)
           \/ \E e \in Events : RetryBegin(w, e)
    PROVE  Once(r)'
  <1>1. clean \in [Reminders -> BOOLEAN] /\ worker \in [Workers -> Worker]
        BY DEF TypeInv, TypeOK
  <1>2. worker[w].step \notin DispatchSteps
        BY DEF SendBegin, RetryBegin, DispatchSteps
  <1>3. PICK q, o : /\ Begin(w, q, o)
                    /\ o = Automation => ~marker[q]
        BY DispatchAssumption DEF SendBegin, RetryBegin
  <1> DEFINE state == [step |-> "cap", of |-> q, origin |-> o]
  <1>4. Goto(w, state) /\ state.step = "cap" /\ state.of = q /\ state.origin = o
        BY <1>3 DEF Begin
  <1> HIDE DEF state
  <1>5. CASE q # r
        BY <1>2, <1>4, <1>5, OnceMoves DEF OnceKept, SendsReminder, Sending
  <1>6. CASE q = r
    <2>1. o = Automation /\ ~marker[r] /\ \A v \in Workers : ~Sending(v, r)
          BY <1>1, <1>3, <1>6 DEF Begin
    <2>2. TakenOf(r) = {} /\ TakenOf(r)' = {}
          BY <2>1 DEF Once, OnceKept
    <2>3. worker'[w] = state /\ \A v \in Workers : v # w => worker'[v] = worker[v]
          BY <1>1, <1>4 DEF Goto
    <2>4. \A v \in Workers : Sending(v, r)' => v = w
          BY <2>1, <2>3 DEF Sending
    <2>5. QED
          BY <1>4, <2>1, <2>2, <2>3, <2>4 DEF Once
  <1>7. QED
        BY <1>5, <1>6

\* The one message of a reminder in order is taken.
LEMMA OnceTaken ==
    ASSUME TypeInv, RowsSound, NEW r \in Reminders, Once(r), NEW w \in Workers,
           ProviderAccepts(w), worker[w].of = r
    PROVE  Once(r)'
  <1> DEFINE e == worker[w].event
             state == [step |-> "sent", of |-> worker[w].of, origin |-> worker[w].origin,
                       event |-> worker[w].event]
  <1>1. worker[w].step = "send" /\ Sending(w, r) /\ worker[w].step \in EventSteps
        /\ HandSound(worker[w], event, accepted)
        BY DEF ProviderAccepts, Sending, DispatchSteps, EventSteps, CarrySteps, RowsSound
  <1>2. e \in Events /\ event[e].of = r
        BY <1>1, HeldRow DEF HandSound, CarrySteps
  <1>3. TakenOf(r) = {} /\ worker[w].origin = Automation
        BY <1>1 DEF Once, AcceptedSteps
  <1>4. accepted \in [Events -> Nat] /\ accepted[e] = 0
        BY <1>2, <1>3 DEF TakenOf, Taken, TypeInv, TypeOK
  <1>5. TakenOf(r)' = {e} /\ accepted'[e] = 1
    <2>1. accepted' = [accepted EXCEPT ![e] = @ + 1] /\ event' = event
          BY DEF ProviderAccepts, Take
    <2>2. accepted'[e] = 1
          BY <1>2, <1>4, <2>1
    <2>3. \A f \in Events : f # e => accepted'[f] = accepted[f]
          BY <1>4, <2>1
    <2>4. \A f : f \in TakenOf(r)' <=> f = e
          BY <1>2, <1>3, <2>1, <2>2, <2>3 DEF TakenOf, Taken
    <2>5. QED
          BY <2>2, <2>4
  <1>6. state.step = "sent" /\ state.of = r /\ state.origin = Automation /\ state.event = e
        BY <1>3
  <1>7. worker'[w] = state /\ \A v \in Workers : v # w => worker'[v] = worker[v]
        BY DEF ProviderAccepts, Proceed, Goto, TypeInv, TypeOK
  <1> HIDE DEF state, e
  <1>8. \A v \in Workers : Sending(v, r)' => v = w
        BY <1>1, <1>7 DEF Sending, Once
  <1>9. Sending(w, r)'
        BY <1>6, <1>7 DEF Sending, DispatchSteps
  <1>10. QED
         BY <1>5, <1>6, <1>7, <1>8, <1>9 DEF Once, AcceptedSteps

LEMMA OnceSends ==
    ASSUME TypeInv, RowsSound, NEW r \in Reminders, Once(r), OnceKept(r), clean'[r],
           NEW w \in Workers, DispatchStep(w)
    PROVE  Once(r)'
  <1> USE DEF DispatchSteps, AcceptedSteps
  <1>1. ASSUME NEW s \in {"sent", "consume", "usage", "finish"}, Proceed(w, s),
               worker[w].step \in DispatchSteps
        PROVE  Once(r)'
    <2> DEFINE state == [step |-> s, of |-> worker[w].of, origin |-> worker[w].origin,
                         event |-> worker[w].event]
    <2>1. Goto(w, state) /\ state.step = s /\ state.of = worker[w].of
          /\ state.origin = worker[w].origin /\ state.event = worker[w].event
          BY <1>1 DEF Proceed
    <2> HIDE DEF state
    <2>2. QED
          BY <1>1, <2>1, OnceGoesOn
  <1>2. ASSUME NEW x, NEW b, Fails(w, x, b), worker[w].step = "send"
        PROVE  Once(r)'
    <2> DEFINE state == [step |-> "failed", of |-> worker[w].of, origin |-> worker[w].origin,
                         event |-> worker[w].event, reason |-> x, metaId |-> b]
    <2>1. Goto(w, state) /\ state.step = "failed" /\ state.of = worker[w].of
          /\ state.origin = worker[w].origin
          BY <1>2 DEF Fails
    <2> HIDE DEF state
    <2>2. QED
          BY <1>2, <2>1, OnceGoesOn
  <1>3. ASSUME (\E q \in Reminders : SendBegin(w, q)) \/ (\E e \in Events : RetryBegin(w, e))
        PROVE  Once(r)'
        BY <1>3, OnceBegins
  <1>4. ASSUME CheckCap(w) PROVE Once(r)'
    <2> DEFINE state == [worker[w] EXCEPT !.step = "queue"]
    <2>1. CASE Goto(w, Idle)
          BY <1>4, <2>1, OnceLeaves DEF CheckCap
    <2>2. CASE Goto(w, state)
      <3>1. worker[w].step = "cap" /\ state.step = "queue" /\ state.of = worker[w].of
            /\ state.origin = worker[w].origin
            BY <1>4, WorkerShape DEF CheckCap, TypeInv, Worker
      <3> HIDE DEF state
      <3>2. QED
            BY <2>2, <3>1, OnceGoesOn
    <2>3. QED
          BY <1>4, <2>1, <2>2 DEF CheckCap
  <1>5. ASSUME QueueEvent(w) PROVE Once(r)'
    <2>1. CASE Goto(w, Idle)
          BY <1>5, <2>1, OnceLeaves DEF QueueEvent
    <2>2. ASSUME NEW e \in Events,
                 Goto(w, [step |-> "send", of |-> worker[w].of, origin |-> worker[w].origin,
                          event |-> e, retries |-> 0])
          PROVE  Once(r)'
          BY <1>5, <2>2, OnceGoesOn DEF QueueEvent
    <2>3. QED
          BY <1>5, <2>1, <2>2 DEF QueueEvent
  <1>6. ASSUME ProviderBusy(w) PROVE Once(r)'
    <2> DEFINE state == [worker[w] EXCEPT !.retries = 1]
    <2>1. CASE Goto(w, state)
      <3>1. worker[w].step = "send" /\ state.step = "send" /\ state.of = worker[w].of
            /\ state.origin = worker[w].origin
            BY <1>6, WorkerShape DEF ProviderBusy, TypeInv, Worker
      <3> HIDE DEF state
      <3>2. QED
            BY <2>1, <3>1, OnceGoesOn
    <2>2. CASE Fails(w, "provider_transient_retryable", FALSE)
          BY <1>2, <1>6, <2>2 DEF ProviderBusy
    <2>3. QED
          BY <1>6, <2>1, <2>2 DEF ProviderBusy
  <1>7. ASSUME ProviderAccepts(w) \/ RecordSent(w) \/ Consume(w) \/ InsertUsage(w)
        PROVE  Once(r)'
        BY <1>1, <1>7 DEF ProviderAccepts, RecordSent, Consume, InsertUsage
  <1>8. ASSUME ProviderRejects(w) \/ ProviderRejectsFalsely(w) \/ ProviderUnknown(w)
        PROVE  Once(r)'
        BY <1>2, <1>8 DEF ProviderRejects, ProviderRejectsFalsely, ProviderUnknown
  <1>9. ASSUME MarkSent(w) PROVE Once(r)'
    <2>1. Goto(w, Idle) /\ (worker[w].of # r \/ marker'[r])
          BY <1>9 DEF MarkSent, TypeInv, TypeOK
    <2>2. QED
          BY <2>1, OnceLeaves
  <1>10. ASSUME AttachRetry(w) PROVE Once(r)'
    <2>1. Goto(w, Idle) /\ worker[w].of # r
          BY <1>10 DEF AttachRetry, Once, Sending
    <2>2. QED
          BY <2>1, OnceLeaves
  <1>11. ASSUME RecordFailed(w) PROVE Once(r)'
    <2> DEFINE state == [step |-> "followUp", event |-> worker[w].event,
                         reason |-> worker[w].reason]
    <2>1. Goto(w, state) /\ state.step = "followUp" /\ worker[w].step = "failed"
          BY <1>11 DEF RecordFailed
    <2> HIDE DEF state
    <2>2. QED
          BY <2>1, OnceLeaves
  <1>12. QED
         BY <1>3, <1>4, <1>5, <1>6, <1>7, <1>8, <1>9, <1>10, <1>11 DEF DispatchStep

LEMMA OnceReconciles ==
    ASSUME TypeInv, NEW r \in Reminders, Once(r), OnceKept(r), NEW w \in Workers,
           ReconcileStep(w) \/ FollowUpReads(w) \/ InsertTask(w)
    PROVE  Once(r)'
  <1>1. worker[w].step \notin DispatchSteps
    <2>1. ASSUME NEW e \in Events, PassReads(w, e) PROVE worker[w].step = "idle"
          BY <2>1 DEF PassReads
    <2>2. ASSUME Poll(w) \/ UpdateDelivery(w) \/ Repair(w) \/ ConfirmFailure(w)
                 \/ FollowUpReads(w) \/ InsertTask(w)
          PROVE  worker[w].step \in {"poll", "deliver", "repair", "confirm", "followUp",
                                    "insertTask"}
          BY <2>2 DEF Poll, UpdateDelivery, Repair, ConfirmFailure, FollowUpReads, InsertTask
    <2>3. QED
          BY <2>1, <2>2 DEF ReconcileStep, DispatchSteps
  <1>2. ASSUME NEW state, Goto(w, state), state.step \notin DispatchSteps PROVE Once(r)'
        BY <1>1, <1>2, OnceAside
  <1>3. ASSUME Goto(w, Idle) PROVE Once(r)'
        BY <1>2, <1>3 DEF DispatchSteps
  <1>4. ASSUME NEW e \in Events, PassReads(w, e) PROVE Once(r)'
        BY <1>2, <1>4 DEF PassReads, DispatchSteps
  <1>5. ASSUME Poll(w) PROVE Once(r)'
    <2>1. CASE Goto(w, [step |-> "confirm", event |-> worker[w].event])
          BY <1>2, <2>1 DEF DispatchSteps
    <2>2. CASE Goto(w, [step |-> "deliver", event |-> worker[w].event,
                        status |-> fate[worker[w].event]])
          BY <1>2, <2>2 DEF DispatchSteps
    <2>3. CASE Goto(w, [step |-> "repair", event |-> worker[w].event,
                        status |-> fate[worker[w].event]])
          BY <1>2, <2>3 DEF DispatchSteps
    <2>4. QED
          BY <1>3, <1>5, <2>1, <2>2, <2>3 DEF Poll
  <1>6. ASSUME UpdateDelivery(w) \/ Repair(w) \/ InsertTask(w) PROVE Once(r)'
        BY <1>3, <1>6 DEF UpdateDelivery, Repair, InsertTask
  <1>7. ASSUME ConfirmFailure(w) PROVE Once(r)'
        BY <1>2, <1>7 DEF ConfirmFailure, DispatchSteps
  <1>8. ASSUME FollowUpReads(w) PROVE Once(r)'
        BY <1>2, <1>8 DEF FollowUpReads, DispatchSteps
  <1>9. QED
        BY <1>4, <1>5, <1>6, <1>7, <1>8 DEF ReconcileStep

LEMMA OnceStep ==
    ASSUME TypeInv, RowsSound, [Next]_vars, NEW r \in Reminders, clean[r] => Once(r), clean'[r]
    PROVE  Once(r)'
  <1>1. clean[r] /\ Once(r)
        BY MarkerKept
  <1>2. ASSUME NEW w \in Workers, ProviderAccepts(w), worker[w].of = r PROVE Once(r)'
        BY <1>1, <1>2, OnceTaken
  <1>3. ASSUME OnceKept(r) PROVE Once(r)'
    <2>1. ASSUME NEW w \in Workers, DispatchStep(w) PROVE Once(r)'
          BY <1>1, <1>3, <2>1, OnceSends
    <2>2. ASSUME NEW w \in Workers, ReconcileStep(w) \/ FollowUpReads(w) \/ InsertTask(w)
          PROVE  Once(r)'
          BY <1>1, <1>3, <2>2, OnceReconciles
    <2>3. ASSUME NEW w \in Workers, Abort(w) PROVE Once(r)'
      <3>1. Goto(w, Idle) /\ ~Sending(w, r)
            BY <2>3 DEF Abort
      <3>2. QED
            BY <1>1, <1>3, <3>1, OnceMoves DEF OnceKept, SendsReminder, DispatchSteps
    <2>4. ASSUME (\E e \in Events : Resolve(e) \/ Progress(e)) \/ UNCHANGED vars
          PROVE  Once(r)'
      <3>1. UNCHANGED <<worker, marker>>
            BY <2>4 DEF Resolve, Progress, vars
      <3>2. QED
            BY <1>1, <1>3, <3>1 DEF Once, OnceKept, Sending
    <2>5. QED
          BY <2>1, <2>2, <2>3, <2>4 DEF Next
  <1>4. QED
        BY <1>1, <1>2, <1>3, TakenOfKept, MarkerKept DEF OnceKept

\* While the sends of a reminder come one after another, none dies, and the provider's
\* answers are what happened, the customer gets it once.
THEOREM RemindersAreSentOnce == Spec => []SentOnceInSequence
  <1> DEFINE Inv == \A r \in Reminders : clean[r] => Once(r)
  <1>1. Init => Inv
        BY DEF Init, Once, TakenOf, Taken, Sending, DispatchSteps
  <1>2. TypeInv /\ RowsSound /\ Inv /\ [Next]_vars => Inv'
        BY OnceStep
  <1>3. Inv => SentOnceInSequence
        BY DEF Once, TakenOf, SentOnceInSequence
  <1> HIDE DEF Inv
  <1>4. QED
        BY <1>1, <1>2, <1>3, TypeInvInit, TypeInvStep, RowsSoundInit, RowsSoundStep, PTL
           DEF Spec
=============================================================================
