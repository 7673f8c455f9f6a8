--------------------------- MODULE AiGuardrailsProofs ---------------------------
(***************************************************************************)
(* Proofs about AiGuardrails, for any requests, users, keys, quotas and    *)
(* windows.                                                                *)
(***************************************************************************)
EXTENDS AiGuardrails, FiniteSetTheorems, TLAPS

LEMMA TypeInit == Init => TypeOK
  BY QuotaAssumption DEF Init, TypeOK, Times, Never, Idle

\* A request that is not idle is a job.
LEMMA JobOf ==
    ASSUME TypeOK, NEW r \in Requests, request[r].step # "idle"
    PROVE  request[r] \in Job
  BY DEF TypeOK, Idle

\* A job that goes to another step, or ends, stays a job or becomes idle.
LEMMA MovesTyped ==
    ASSUME TypeOK, NEW r \in Requests, request[r].step # "idle", NEW s \in Stepping,
           Goto(r, s) \/ End(r)
    PROVE  request' \in [Requests -> Job \cup {Idle}]
  <1>1. request[r] \in Job /\ request \in [Requests -> Job \cup {Idle}]
        BY JobOf DEF TypeOK
  <1>2. CASE Goto(r, s)
    <2> DEFINE job == [request[r] EXCEPT !.step = s]
    <2>1. job \in Job
          BY <1>1 DEF Job
    <2>2. request' = [request EXCEPT ![r] = job]
          BY <1>2 DEF Goto
    <2> QED BY <1>1, <2>1, <2>2
  <1>3. CASE End(r)
        BY <1>1, <1>3 DEF End
  <1> QED BY <1>2, <1>3

\* The ticket of a job that is running now.
LEMMA TicketTyped ==
    ASSUME TypeOK, NEW r \in Requests, request[r].step # "idle"
    PROVE  Ticket(r) \in Tickets
  BY JobOf DEF TypeOK, Ticket, Tickets, Job

LEMMA TypeBegin ==
    ASSUME TypeOK, NEW r \in Requests, Begin(r)
    PROVE  TypeOK'
  <1>1. started' \in 0 .. MaxStarts /\ started + 1 \in 1 .. MaxStarts
        BY QuotaAssumption DEF TypeOK, Begin
  <1>2. PICK k \in Keys : request' = [request EXCEPT ![r] =
            [step |-> "idem", n |-> started + 1, key |-> k, rounds |-> 0, calls |-> 0]]
        BY DEF Begin
  <1>3. [step |-> "idem", n |-> started + 1, key |-> k, rounds |-> 0, calls |-> 0] \in Job
        BY <1>1 DEF Job, Stepping
  <1>4. request' \in [Requests -> Job \cup {Idle}]
        BY <1>2, <1>3 DEF TypeOK
  <1> QED BY <1>1, <1>4 DEF TypeOK, Begin, memory, history

LEMMA TypeCheckKey ==
    ASSUME TypeOK, NEW r \in Requests, CheckKey(r)
    PROVE  TypeOK'
  <1>1. request[r].step # "idle" /\ request[r] \in Job
        BY JobOf DEF CheckKey, At
  <1>2. request' \in [Requests -> Job \cup {Idle}]
        BY <1>1, MovesTyped DEF CheckKey, Stepping
  <1>3. cache' \in [Keys -> Times \cup {Never}]
        BY <1>1 DEF TypeOK, CheckKey, Pruned, Job
  <1>4. claims' \in SUBSET [n : 1..MaxStarts, key : Keys, at : Times]
        BY <1>1 DEF TypeOK, CheckKey, Job
  <1> QED BY <1>2, <1>3, <1>4 DEF TypeOK, CheckKey

LEMMA TypeAllow ==
    ASSUME TypeOK, NEW r \in Requests, Allow(r)
    PROVE  TypeOK'
  <1>1. request[r].step # "idle" /\ request[r] \in Job
        BY JobOf DEF Allow, At
  <1>2. request' \in [Requests -> Job \cup {Idle}]
        BY <1>1, MovesTyped DEF Allow, Stepping
  <1>3. Ticket(r) \in Tickets
        BY <1>1, TicketTyped
  <1>4. UserOf[request[r].key] \in Users
        BY <1>1, QuotaAssumption DEF Job
  <1>5. userWindow' \in [Users -> SUBSET Tickets] /\ orgWindow' \in SUBSET Tickets
        BY <1>3, <1>4 DEF TypeOK, Allow, Push, Recent
  <1>6. admitted' \in SUBSET [n : 1..MaxStarts, user : Users, at : Times]
        BY <1>1, <1>4 DEF TypeOK, Allow, Job
  <1> QED BY <1>2, <1>5, <1>6 DEF TypeOK, Allow

-----------------------------------------------------------------------------
(* Slots *)

Holders == {r \in Requests : HoldsSlot(r)}

LEMMA HoldersFinite == IsFiniteSet(Holders) /\ Cardinality(Holders) \in Nat
  BY QuotaAssumption, FS_Subset, FS_CardinalityType DEF Holders

\* Where a request has a slot, one is counted.
LEMMA HolderCounts ==
    ASSUME SlotsMatch, TypeOK, NEW r \in Requests, HoldsSlot(r)
    PROVE  active - 1 \in Nat
  <1>1. Holders # {}
        BY DEF Holders
  <1>2. active = Cardinality(Holders)
        BY DEF SlotsMatch, Holders
  <1>3. Cardinality(Holders) # 0
        BY <1>1, HoldersFinite, FS_EmptySet
  <1> QED BY <1>2, <1>3, HoldersFinite

\* A step that no holder takes, and that makes none, keeps the count.
LEMMA SlotsUnmoved ==
    ASSUME SlotsMatch, active' = active, NEW r \in Requests,
           \A q \in Requests \ {r} : request'[q] = request[q],
           HoldsSlot(r)' <=> HoldsSlot(r)
    PROVE  SlotsMatch'
  <1>1. {q \in Requests : HoldsSlot(q)}' = {q \in Requests : HoldsSlot(q)}
        BY DEF HoldsSlot, At
  <1> QED BY <1>1 DEF SlotsMatch

\* A slot is given back with the holder's step.
LEMMA SlotGivenBack ==
    ASSUME SlotsMatch, TypeOK, NEW r \in Requests, HoldsSlot(r), ~HoldsSlot(r)',
           \A q \in Requests \ {r} : request'[q] = request[q], active' = active - 1
    PROVE  SlotsMatch'
  <1>1. {q \in Requests : HoldsSlot(q)}' = Holders \ {r}
        BY DEF HoldsSlot, At, Holders
  <1>2. Cardinality(Holders \ {r}) = Cardinality(Holders) - 1
        BY HoldersFinite, FS_RemoveElement DEF Holders
  <1> QED BY <1>1, <1>2 DEF SlotsMatch, Holders

LEMMA SlotTaken ==
    ASSUME SlotsMatch, TypeOK, NEW r \in Requests, ~HoldsSlot(r), HoldsSlot(r)',
           \A q \in Requests \ {r} : request'[q] = request[q], active' = active + 1
    PROVE  SlotsMatch'
  <1>1. {q \in Requests : HoldsSlot(q)}' = Holders \cup {r}
        BY DEF HoldsSlot, At, Holders
  <1>2. Cardinality(Holders \cup {r}) = Cardinality(Holders) + 1
        BY HoldersFinite, FS_AddElement DEF Holders
  <1> QED BY <1>1, <1>2 DEF SlotsMatch, Holders

\* Types and slots of the steps that handle a slot.
LEMMA AcquireSlots ==
    ASSUME TypeOK, SlotsMatch, NEW r \in Requests, Acquire(r)
    PROVE  TypeOK' /\ SlotsMatch'
  <1>1. request[r].step = "slot" /\ request[r].step # "idle"
        BY DEF Acquire, At
  <1>2. request' \in [Requests -> Job \cup {Idle}]
        BY <1>1, MovesTyped DEF Acquire, Stepping
  <1>3. active' \in Nat
        BY DEF TypeOK, Acquire
  <1>4. TypeOK'
        BY <1>2, <1>3 DEF TypeOK, Acquire, history
  <1>5. \A q \in Requests \ {r} : request'[q] = request[q]
        BY DEF Acquire, Goto, End, TypeOK
  <1>6. request'[r].step \in {"idle", "budget"}
        BY <1>1, JobOf DEF Acquire, Goto, End, TypeOK, Idle, Job
  <1>7. ~HoldsSlot(r)
        BY <1>1 DEF HoldsSlot, At
  <1>8. CASE active' = active
    <2>1. ~HoldsSlot(r)'
          BY <1>1, <1>8, QuotaAssumption, JobOf DEF Acquire, HoldsSlot, At, TypeOK, End, Goto, Idle, Job
    <2> QED BY <1>4, <1>5, <1>7, <1>8, <2>1, SlotsUnmoved
  <1>9. CASE active' # active
    <2>1. active' = active + 1 /\ MaxJobs # 0 /\ Goto(r, "budget")
          BY <1>9 DEF Acquire
    <2>2. request'[r].step = "budget"
          BY <2>1, <1>1, JobOf DEF Goto, TypeOK, Job
    <2>3. HoldsSlot(r)'
          BY <2>1, <2>2, QuotaAssumption DEF HoldsSlot, At
    <2> QED BY <1>4, <1>5, <1>7, <2>1, <2>3, SlotTaken
  <1> QED BY <1>8, <1>9

LEMMA CheckBudgetSlots ==
    ASSUME TypeOK, SlotsMatch, NEW r \in Requests, CheckBudget(r)
    PROVE  TypeOK' /\ SlotsMatch'
  <1>1. request[r].step = "budget" /\ request[r].step # "idle"
        BY DEF CheckBudget, At
  <1>2. request' \in [Requests -> Job \cup {Idle}]
        BY <1>1, MovesTyped DEF CheckBudget, Stepping
  <1>3. active' \in Nat
        BY HolderCounts DEF TypeOK, CheckBudget
  <1>4. TypeOK'
        BY <1>2, <1>3 DEF TypeOK, CheckBudget, history
  <1>5. \A q \in Requests \ {r} : request'[q] = request[q]
        BY DEF CheckBudget, Goto, End, TypeOK
  <1>6. request'[r].step \in {"idle", "model"}
        BY <1>1, JobOf DEF CheckBudget, Goto, End, TypeOK, Idle, Job
  <1>7. ~HoldsSlot(r)'
        BY <1>6 DEF HoldsSlot, At
  <1>8. CASE HoldsSlot(r)
        BY <1>4, <1>5, <1>7, <1>8, SlotGivenBack DEF CheckBudget
  <1>9. CASE ~HoldsSlot(r)
        BY <1>4, <1>5, <1>7, <1>9, SlotsUnmoved DEF CheckBudget
  <1> QED BY <1>8, <1>9

LEMMA ThrowSlots ==
    ASSUME TypeOK, SlotsMatch, NEW r \in Requests, Throw(r)
    PROVE  TypeOK' /\ SlotsMatch'
  <1>1. End(r) /\ request' = [request EXCEPT ![r] = Idle]
        BY DEF Throw, End
  <1>2. request' \in [Requests -> Job \cup {Idle}] /\ request'[r] = Idle
        BY <1>1 DEF TypeOK
  <1>3. active' \in Nat
        BY HolderCounts DEF TypeOK, Throw, Freed
  <1>4. TypeOK'
        BY <1>2, <1>3 DEF TypeOK, Throw, history
  <1>5. \A q \in Requests \ {r} : request'[q] = request[q]
        BY <1>1 DEF TypeOK
  <1>6. ~HoldsSlot(r)'
        BY <1>2 DEF HoldsSlot, At, Idle
  <1>7. CASE HoldsSlot(r)
        BY <1>4, <1>5, <1>6, <1>7, SlotGivenBack DEF Throw, Freed
  <1>8. CASE ~HoldsSlot(r)
        BY <1>4, <1>5, <1>6, <1>8, SlotsUnmoved DEF Throw, Freed
  <1> QED BY <1>7, <1>8
-----------------------------------------------------------------------------
(* The other steps *)

LEMMA TypeModel ==
    ASSUME TypeOK, NEW r \in Requests,
           AsksTools(r) \/ RunTools(r) \/ Answer(r) \/ Record(r)
    PROVE  TypeOK'
  <1>1. request[r].step # "idle" /\ request[r] \in Job
        BY JobOf DEF AsksTools, RunTools, Answer, Record, At
  <1>2. CASE AsksTools(r)
    <2>1. PICK n \in 1..(MaxToolCalls + 1) :
             IF Exceeds(request[r], n) THEN End(r)
             ELSE request' = [request EXCEPT ![r] = Counted(@, n)]
          BY <1>2 DEF AsksTools
    <2>2. n \in Nat
          BY QuotaAssumption
    <2> DEFINE job == request[r]
    <2>3. job \in [step : Stepping, n : 1..MaxStarts, key : Keys, rounds : Nat, calls : Nat]
          BY <1>1 DEF Job
    <2>4. job.rounds + 1 \in Nat /\ job.calls + n \in Nat /\ "tools" \in Stepping
          BY <2>2, <2>3 DEF Stepping
    <2>5. Counted(job, n) \in Job
      <3> HIDE DEF job
      <3> QED BY <2>3, <2>4 DEF Counted, Job
    <2>6. request' \in [Requests -> Job \cup {Idle}]
          BY <2>1, <2>5 DEF TypeOK, End
    <2> QED BY <1>2, <2>6 DEF TypeOK, AsksTools, memory, history
  <1>3. CASE RunTools(r)
    <2>1. request' \in [Requests -> Job \cup {Idle}]
          BY <1>1, <1>3, MovesTyped DEF RunTools, Stepping
    <2> QED BY <1>3, <2>1 DEF TypeOK, RunTools, memory, history
  <1>4. CASE Answer(r)
    <2>1. request' \in [Requests -> Job \cup {Idle}]
          BY <1>1, <1>4, MovesTyped DEF Answer, Stepping
    <2> QED BY <1>4, <2>1 DEF TypeOK, Answer, memory, history
  <1>5. CASE Record(r)
    <2>1. request' \in [Requests -> Job \cup {Idle}]
          BY <1>1, <1>5, MovesTyped DEF Record, Stepping
    <2> QED BY <1>5, <2>1 DEF TypeOK, Record, memory, history
  <1> QED BY <1>2, <1>3, <1>4, <1>5

LEMMA TypeTick == TypeOK /\ Tick => TypeOK'
  BY QuotaAssumption DEF TypeOK, Tick, Times, memory

LEMMA TypeRestart == TypeOK /\ Restart => TypeOK'
  BY DEF TypeOK, Restart, Never, Idle

\* The steps that touch no slot: the request goes from one step to another, none of them "budget".
LEMMA SlotsOfOthers ==
    ASSUME TypeOK, SlotsMatch, NEW r \in Requests,
           Begin(r) \/ CheckKey(r) \/ Allow(r) \/ AsksTools(r) \/ RunTools(r) \/ Answer(r)
              \/ Record(r)
    PROVE  SlotsMatch'
  <1>1. active' = active
        BY DEF Begin, CheckKey, Allow, AsksTools, RunTools, Answer, Record, memory
  <1>2. request[r].step # "budget"
        BY DEF Begin, CheckKey, Allow, AsksTools, RunTools, Answer, Record, At, Idle
  <1>3. \A q \in Requests \ {r} : request'[q] = request[q]
        BY DEF Begin, CheckKey, Allow, AsksTools, RunTools, Answer, Record, Goto, End, TypeOK
  <1>4. request'[r].step # "budget"
    <2>1. request \in [Requests -> Job \cup {Idle}]
          BY DEF TypeOK
    <2>2. CASE Begin(r)
          BY <2>1, <2>2 DEF Begin
    <2>3. CASE ~Begin(r)
      <3>1. request[r] \in Job
            BY <2>3, JobOf DEF CheckKey, Allow, AsksTools, RunTools, Answer, Record, At
      <3>2. \/ request'[r] = Idle
            \/ \E s \in {"rate", "slot", "tools", "model", "record"} : Goto(r, s)
            \/ \E n \in 1..(MaxToolCalls + 1) :
                  request' = [request EXCEPT ![r] = Counted(@, n)]
            BY <2>1, <2>3 DEF CheckKey, Allow, AsksTools, RunTools, Answer, Record, End
      <3>3. CASE request'[r] = Idle
            BY <3>3 DEF Idle
      <3>4. ASSUME NEW s \in {"rate", "slot", "tools", "model", "record"}, Goto(r, s)
            PROVE  request'[r].step # "budget"
            BY <2>1, <3>1, <3>4 DEF Goto, Job
      <3>5. ASSUME NEW n \in 1..(MaxToolCalls + 1),
                   request' = [request EXCEPT ![r] = Counted(@, n)]
            PROVE  request'[r].step # "budget"
            BY <2>1, <3>1, <3>5 DEF Counted, Job
      <3> QED BY <3>2, <3>3, <3>4, <3>5
    <2> QED BY <2>2, <2>3
  <1> QED BY <1>1, <1>2, <1>3, <1>4, SlotsUnmoved DEF HoldsSlot, At

LEMMA SlotsRestart == Restart => SlotsMatch'
  <1> SUFFICES ASSUME Restart PROVE SlotsMatch'
      OBVIOUS
  <1>1. {r \in Requests : HoldsSlot(r)}' = {}
        BY DEF Restart, HoldsSlot, At, Idle
  <1> QED BY <1>1, FS_EmptySet DEF SlotsMatch, Restart

\* Types and slots are kept by every step.
LEMMA TypesAndSlotsStep == TypeOK /\ SlotsMatch /\ [Next]_vars => TypeOK' /\ SlotsMatch'
  <1> SUFFICES ASSUME TypeOK, SlotsMatch, [Next]_vars PROVE TypeOK' /\ SlotsMatch'
      OBVIOUS
  <1>1. CASE Tick
    <2>1. SlotsMatch'
          BY <1>1 DEF Tick, SlotsMatch, HoldsSlot, At, memory
    <2> QED BY <1>1, <2>1, TypeTick
  <1>2. CASE Restart
        BY <1>2, TypeRestart, SlotsRestart
  <1>3. CASE UNCHANGED vars
        BY <1>3 DEF vars, memory, history, TypeOK, SlotsMatch, HoldsSlot, At
  <1>4. ASSUME NEW r \in Requests, Begin(r) \/ Step(r)
        PROVE  TypeOK' /\ SlotsMatch'
    <2>1. CASE Begin(r)
          BY <2>1, TypeBegin, SlotsOfOthers
    <2>2. CASE CheckKey(r)
          BY <2>2, TypeCheckKey, SlotsOfOthers
    <2>3. CASE Allow(r)
          BY <2>3, TypeAllow, SlotsOfOthers
    <2>4. CASE Acquire(r)
          BY <2>4, AcquireSlots
    <2>5. CASE CheckBudget(r)
          BY <2>5, CheckBudgetSlots
    <2>6. CASE AsksTools(r) \/ RunTools(r) \/ Answer(r) \/ Record(r)
          BY <2>6, TypeModel, SlotsOfOthers
    <2>7. CASE Throw(r)
          BY <2>7, ThrowSlots
    <2> QED BY <1>4, <2>1, <2>2, <2>3, <2>4, <2>5, <2>6, <2>7 DEF Step
  <1> QED BY <1>1, <1>2, <1>3, <1>4 DEF Next

LEMMA SlotsInit == Init => SlotsMatch
  <1> SUFFICES ASSUME Init PROVE SlotsMatch
      OBVIOUS
  <1>1. {r \in Requests : HoldsSlot(r)} = {}
        BY DEF Init, HoldsSlot, At, Idle
  <1> QED BY <1>1, FS_EmptySet DEF SlotsMatch, Init

\* The windows, the cache, the slots and the usage keep their types, and no counter goes below
\* zero, for any number of requests.
THEOREM TypeCorrect == Spec => []TypeOK
  <1>1. Init => TypeOK /\ SlotsMatch
        BY TypeInit, SlotsInit
  <1> QED BY <1>1, TypesAndSlotsStep, PTL DEF Spec

\* The slots taken are those of the requests whose budget is being looked at, however requests
\* overlap, are refused, throw and are lost with the process.
THEOREM SlotsAreMatched == Spec => []SlotsMatch
  <1>1. Init => TypeOK /\ SlotsMatch
        BY TypeInit, SlotsInit
  <1> QED BY <1>1, TypesAndSlotsStep, PTL DEF Spec
-----------------------------------------------------------------------------
(* The month's quota.  Every request past the budget will record a row unless it throws, so the *)
(* rows to come count as if they were there. *)

Spending(r) == request[r].step \in {"model", "tools", "record"}
Spenders == {r \in Requests : Spending(r)}

RowsToCome ==
    MonthRequests > 0 => usage + Cardinality(Spenders) <= MonthRequests - 1 + Cardinality(Requests)

LEMMA SpendersFinite ==
    ASSUME NEW S, S = Spenders \/ S = Spenders'
    PROVE  IsFiniteSet(S) /\ Cardinality(S) \in Nat /\ Cardinality(S) <= Cardinality(Requests)
           /\ Cardinality(Requests) \in Nat
  <1>1. S \subseteq Requests
        BY DEF Spenders
  <1> QED BY <1>1, QuotaAssumption, FS_Subset, FS_CardinalityType

\* As long as nobody joins those past the budget, the bound is kept.
LEMMA NobodyJoins ==
    ASSUME TypeOK, RowsToCome, usage' = usage,
           \A q \in Requests : Spending(q)' => Spending(q)
    PROVE  RowsToCome'
  <1>1. Spenders' \subseteq Spenders
        BY DEF Spenders, Spending
  <1>2. Cardinality(Spenders') <= Cardinality(Spenders)
        BY <1>1, SpendersFinite, FS_Subset
  <1> QED BY <1>2, SpendersFinite, QuotaAssumption DEF RowsToCome, TypeOK

LEMMA RowsCheckBudget ==
    ASSUME TypeOK, RowsToCome, NEW r \in Requests, CheckBudget(r)
    PROVE  RowsToCome'
  <1>1. CASE WithinBudget
    <2>1. Cardinality(Spenders') \in Nat /\ Cardinality(Spenders') <= Cardinality(Requests)
          BY SpendersFinite
    <2> QED BY <1>1, <2>1, SpendersFinite, QuotaAssumption
            DEF WithinBudget, RowsToCome, CheckBudget, TypeOK
  <1>2. CASE ~WithinBudget
    <2>1. usage' = usage /\ End(r)
          BY <1>2 DEF CheckBudget
    <2>2. \A q \in Requests : Spending(q)' => Spending(q)
          BY <2>1 DEF Spending, End, TypeOK, Idle
    <2> QED BY <2>1, <2>2, NobodyJoins
  <1> QED BY <1>1, <1>2

LEMMA RowsRecord ==
    ASSUME TypeOK, RowsToCome, NEW r \in Requests, Record(r)
    PROVE  RowsToCome'
  <1>1. r \in Spenders /\ Spenders' = Spenders \ {r}
        BY DEF Spenders, Spending, Record, At, End, TypeOK, Idle
  <1>2. Cardinality(Spenders') = Cardinality(Spenders) - 1
        BY <1>1, SpendersFinite, FS_RemoveElement
  <1> QED BY <1>2, SpendersFinite, QuotaAssumption DEF RowsToCome, Record, TypeOK

\* The steps before the budget, of the tool loop, and those that give up.
LEMMA RowsOthers ==
    ASSUME TypeOK, RowsToCome, NEW r \in Requests,
           Begin(r) \/ CheckKey(r) \/ Allow(r) \/ Acquire(r) \/ AsksTools(r) \/ RunTools(r)
              \/ Answer(r) \/ Throw(r)
    PROVE  RowsToCome'
  <1>1. usage' = usage
        BY DEF Begin, CheckKey, Allow, Acquire, AsksTools, RunTools, Answer, Throw
  <1>2. \A q \in Requests \ {r} : request'[q] = request[q]
        BY DEF Begin, CheckKey, Allow, Acquire, AsksTools, RunTools, Answer, Throw, Goto, End, TypeOK
  <1>3. Spending(r)' => Spending(r)
    <2>1. request \in [Requests -> Job \cup {Idle}]
          BY DEF TypeOK
    <2>2. CASE Begin(r)
          BY <2>1, <2>2 DEF Begin, Spending
    <2>3. CASE AsksTools(r) \/ RunTools(r) \/ Answer(r)
          BY <2>3 DEF AsksTools, RunTools, Answer, At, Spending
    <2>4. CASE Throw(r)
          BY <2>1, <2>4 DEF Throw, End, Spending, Idle
    <2>5. CASE CheckKey(r) \/ Allow(r) \/ Acquire(r)
      <3>1. request[r] \in Job
            BY <2>5, JobOf DEF CheckKey, Allow, Acquire, At
      <3>2. request'[r] = Idle \/ \E s \in {"rate", "slot", "budget"} : Goto(r, s)
            BY <2>1, <2>5 DEF CheckKey, Allow, Acquire, End
      <3>3. request'[r].step \in {"idle", "rate", "slot", "budget"}
        <4>1. CASE request'[r] = Idle
              BY <4>1 DEF Idle
        <4>2. ASSUME NEW s \in {"rate", "slot", "budget"}, Goto(r, s)
              PROVE  request'[r].step \in {"idle", "rate", "slot", "budget"}
              BY <2>1, <3>1, <4>2 DEF Goto, Job
        <4> QED BY <3>2, <4>1, <4>2
      <3> QED BY <3>3 DEF Spending
    <2> QED BY <2>2, <2>3, <2>4, <2>5
  <1>4. \A q \in Requests : Spending(q)' => Spending(q)
        BY <1>2, <1>3 DEF Spending
  <1> QED BY <1>1, <1>4, NobodyJoins

LEMMA RowsInit == Init => RowsToCome
  <1> SUFFICES ASSUME Init PROVE RowsToCome
      OBVIOUS
  <1>1. Spenders = {}
        BY DEF Init, Spenders, Spending, Idle
  <1>2. Cardinality(Requests) \in Nat
        BY SpendersFinite
  <1> QED BY <1>1, <1>2, FS_EmptySet, QuotaAssumption DEF RowsToCome, Init

LEMMA RowsStep == TypeOK /\ RowsToCome /\ [Next]_vars => RowsToCome'
  <1> SUFFICES ASSUME TypeOK, RowsToCome, [Next]_vars PROVE RowsToCome'
      OBVIOUS
  <1>1. CASE Tick \/ UNCHANGED vars
        BY <1>1, NobodyJoins DEF Tick, vars, Spending
  <1>2. CASE Restart
        BY <1>2, NobodyJoins DEF Restart, Spending, Idle
  <1>3. ASSUME NEW r \in Requests, Begin(r) \/ Step(r)
        PROVE  RowsToCome'
    <2>1. CASE CheckBudget(r)
          BY <2>1, RowsCheckBudget
    <2>2. CASE Record(r)
          BY <2>2, RowsRecord
    <2>3. CASE ~CheckBudget(r) /\ ~Record(r)
          BY <1>3, <2>3, RowsOthers DEF Step
    <2> QED BY <2>1, <2>2, <2>3
  <1> QED BY <1>1, <1>2, <1>3 DEF Next

\* The month's quota is passed by less than the requests that can be in flight, whatever overlaps
\* and however often the process is replaced.
THEOREM BudgetHolds == Spec => []BudgetOverrun
  <1>1. Init => TypeOK /\ SlotsMatch /\ RowsToCome
        BY TypeInit, SlotsInit, RowsInit
  <1>2. TypeOK /\ SlotsMatch /\ RowsToCome /\ [Next]_vars => (TypeOK /\ SlotsMatch /\ RowsToCome)'
        BY TypesAndSlotsStep, RowsStep
  <1>3. TypeOK /\ RowsToCome => BudgetOverrun
        BY SpendersFinite, QuotaAssumption DEF TypeOK, RowsToCome, BudgetOverrun
  <1> QED BY <1>1, <1>2, <1>3, PTL DEF Spec
-----------------------------------------------------------------------------
(* The admissions of a minute.  What was admitted has its ticket in the windows, which hold no   *)
(* more tickets than the quota; distinct admissions have distinct tickets.                       *)

InFlight(r) == request[r].step # "idle"

\* A request has a number of its own, which nothing admitted has before it is.
Numbered ==
    /\ \A r \in Requests : InFlight(r) => request[r].n <= started
    /\ \A q, r \in Requests : InFlight(q) /\ InFlight(r) /\ request[q].n = request[r].n => q = r
    /\ \A a \in admitted : a.n <= started
    /\ \A a \in admitted, r \in Requests :
          request[r].step \in {"idem", "rate"} => request[r].n # a.n
    /\ \A a, b \in admitted : a.n = b.n => a = b

TicketOf(a) == [n |-> a.n, at |-> a.at]

Ticketed ==
    \A a \in admitted : /\ a.at > now - Window
                        /\ PerUser > 0 => TicketOf(a) \in userWindow[a.user]
                        /\ PerOrg > 0 => TicketOf(a) \in orgWindow

Bounded(tickets, quota) ==
    quota > 0 => IsFiniteSet(Recent(tickets)) /\ Cardinality(Recent(tickets)) <= quota

WindowsBounded == Bounded(orgWindow, PerOrg) /\ \A u \in Users : Bounded(userWindow[u], PerUser)

\* What the cache let pass is still in it, and it let nothing else of that key pass.
ClaimsMatch ==
    /\ \A c \in claims : c.at > now - Window /\ cache[c.key] = c.at
    /\ \A c \in claims, d \in claims : c.key = d.key => c = d

AdmissionInv == Numbered /\ Ticketed /\ WindowsBounded /\ ClaimsMatch

\* A request keeps its number as long as it is in flight, and never goes back before the windows.
LEMMA JobsKeep ==
    ASSUME TypeOK, NEW r \in Requests, Step(r)
    PROVE  /\ \A q \in Requests \ {r} : request'[q] = request[q]
           /\ InFlight(r)
           /\ InFlight(r)' => request'[r].n = request[r].n
           /\ request'[r].step = "idem" => FALSE
           /\ request'[r].step = "rate" => request[r].step = "idem"
  <1>1. request \in [Requests -> Job \cup {Idle}]
        BY DEF TypeOK
  <1>2. InFlight(r)
        BY <1>1 DEF Step, CheckKey, Allow, Acquire, CheckBudget, AsksTools, RunTools, Answer, Record,
                    Throw, At, InFlight, Job, Stepping, Idle
  <1>3. request[r] \in Job
        BY <1>2, JobOf DEF InFlight
  <1>4. \/ End(r)
        \/ At(r, "idem") /\ Goto(r, "rate")
        \/ \E s \in {"slot", "budget", "model", "record"} : Goto(r, s)
        \/ \E n \in 1..(MaxToolCalls + 1) : request' = [request EXCEPT ![r] = Counted(@, n)]
        BY DEF Step, CheckKey, Allow, Acquire, CheckBudget, AsksTools, RunTools, Answer, Record, Throw
  <1>5. CASE End(r)
        BY <1>1, <1>2, <1>5 DEF End, Idle, InFlight
  <1>6. CASE At(r, "idem") /\ Goto(r, "rate")
        BY <1>1, <1>2, <1>3, <1>6 DEF At, Goto, Job
  <1>7. ASSUME NEW s \in {"slot", "budget", "model", "record"}, Goto(r, s)
        PROVE  /\ \A q \in Requests \ {r} : request'[q] = request[q]
               /\ request'[r].n = request[r].n /\ request'[r].step = s
        BY <1>1, <1>3, <1>7 DEF Goto, Job
  <1>8. ASSUME NEW n \in 1..(MaxToolCalls + 1), request' = [request EXCEPT ![r] = Counted(@, n)]
        PROVE  /\ \A q \in Requests \ {r} : request'[q] = request[q]
               /\ request'[r].n = request[r].n /\ request'[r].step = "tools"
        BY <1>1, <1>3, <1>8 DEF Counted, Job
  <1> QED BY <1>2, <1>4, <1>5, <1>6, <1>7, <1>8

LEMMA NumberedStays ==
    ASSUME Numbered, started' = started, admitted' \subseteq admitted,
           \A q \in Requests : /\ InFlight(q)' => InFlight(q) /\ request'[q].n = request[q].n
                               /\ request'[q].step \in {"idem", "rate"} =>
                                     request[q].step \in {"idem", "rate"}
    PROVE  Numbered'
  <1>1. \A r \in Requests : InFlight(r)' => request'[r].n <= started'
        BY DEF Numbered
  <1>2. \A q, r \in Requests :
           InFlight(q)' /\ InFlight(r)' /\ request'[q].n = request'[r].n => q = r
        BY DEF Numbered
  <1>3. \A a \in admitted', r \in Requests :
           request'[r].step \in {"idem", "rate"} => request'[r].n # a.n
    <2> SUFFICES ASSUME NEW a \in admitted', NEW r \in Requests, request'[r].step \in {"idem", "rate"}
                 PROVE  request'[r].n # a.n
        OBVIOUS
    <2>1. InFlight(r)'
          BY DEF InFlight
    <2> QED BY <2>1 DEF Numbered
  <1> QED BY <1>1, <1>2, <1>3 DEF Numbered

LEMMA NumberedBegin ==
    ASSUME TypeOK, Numbered, NEW r \in Requests, Begin(r)
    PROVE  Numbered'
  <1>1. /\ started' = started + 1 /\ started \in Nat /\ admitted' = admitted
        /\ ~InFlight(r)
        BY DEF Begin, TypeOK, history, InFlight, Idle
  <1>2. /\ request'[r].n = started + 1 /\ \A q \in Requests \ {r} : request'[q] = request[q]
        BY DEF Begin, TypeOK
  <1>3. \A q \in Requests : InFlight(q) => request[q].n \in Nat /\ request[q].n <= started
    <2>1. \A q \in Requests : InFlight(q) => request[q] \in Job
          BY JobOf DEF InFlight
    <2> QED BY <2>1 DEF Job, Numbered
  <1>4. \A a \in admitted : a.n \in Nat /\ a.n <= started
        BY DEF TypeOK, Numbered
  <1>5. \A q \in Requests \ {r} : InFlight(q)' => InFlight(q)
        BY <1>2 DEF InFlight
  <1>6. \A q \in Requests : InFlight(q)' => request'[q].n <= started'
        BY <1>1, <1>2, <1>3, <1>5
  <1>7. ASSUME NEW p \in Requests, NEW q \in Requests, InFlight(p)', InFlight(q)',
               request'[p].n = request'[q].n
        PROVE  p = q
    <2>1. CASE p # r /\ q # r
          BY <1>2, <1>5, <1>7, <2>1 DEF Numbered
    <2>2. CASE p = r /\ q # r
          BY <1>1, <1>2, <1>3, <1>5, <1>7, <2>2
    <2>3. CASE p # r /\ q = r
          BY <1>1, <1>2, <1>3, <1>5, <1>7, <2>3
    <2> QED BY <2>1, <2>2, <2>3
  <1>8. ASSUME NEW a \in admitted, NEW q \in Requests, request'[q].step \in {"idem", "rate"}
        PROVE  request'[q].n # a.n
    <2>1. CASE q = r
          BY <1>1, <1>2, <1>4, <2>1
    <2>2. CASE q # r
          BY <1>2, <1>8, <2>2 DEF Numbered
    <2> QED BY <2>1, <2>2
  <1>9. \A a \in admitted : a.n <= started'
        BY <1>1, <1>4
  <1> QED BY <1>1, <1>6, <1>7, <1>8, <1>9 DEF Numbered

LEMMA NumberedAllow ==
    ASSUME TypeOK, Numbered, NEW r \in Requests, Allow(r)
    PROVE  Numbered'
  <1>1. Step(r) /\ request[r].step = "rate" /\ started' = started
        BY DEF Step, Allow, At
  <1>2. /\ \A q \in Requests \ {r} : request'[q] = request[q]
        /\ InFlight(r) /\ (InFlight(r)' => request'[r].n = request[r].n)
        /\ request'[r].step # "idem" /\ request'[r].step # "rate"
        BY <1>1, JobsKeep
  <1>3. \A q \in Requests : /\ InFlight(q)' => InFlight(q) /\ request'[q].n = request[q].n
                            /\ request'[q].step \in {"idem", "rate"} =>
                                  request[q].step \in {"idem", "rate"} /\ q # r
        BY <1>2 DEF InFlight
  <1>4. CASE admitted' = admitted
        BY <1>1, <1>3, <1>4, NumberedStays
  <1>5. CASE admitted' # admitted
    <2>1. PICK b : b.n = request[r].n /\ admitted' = admitted \cup {b}
          BY <1>5 DEF Allow
    <2>2. \A a \in admitted : a.n # b.n
          BY <1>1, <2>1 DEF Numbered
    <2>3. \A a, c \in admitted' : a.n = c.n => a = c
          BY <2>1, <2>2 DEF Numbered
    <2>4. \A a \in admitted' : a.n <= started'
          BY <1>1, <1>2, <2>1 DEF Numbered
    <2>5. ASSUME NEW a \in admitted', NEW q \in Requests, request'[q].step \in {"idem", "rate"}
          PROVE  request'[q].n # a.n
      <3>1. InFlight(q)' /\ InFlight(q) /\ q # r /\ request'[q].n = request[q].n
            BY <1>2, <1>3, <2>5 DEF InFlight
      <3>2. CASE a \in admitted
            BY <1>3, <2>5, <3>1, <3>2 DEF Numbered
      <3>3. CASE a = b
            BY <1>2, <2>1, <3>1, <3>3 DEF Numbered
      <3> QED BY <2>1, <3>2, <3>3
    <2>6. \A q \in Requests : InFlight(q)' => request'[q].n <= started'
          BY <1>1, <1>3 DEF Numbered
    <2>7. \A p, q \in Requests :
             InFlight(p)' /\ InFlight(q)' /\ request'[p].n = request'[q].n => p = q
          BY <1>3 DEF Numbered
    <2> QED BY <2>3, <2>4, <2>5, <2>6, <2>7 DEF Numbered
  <1> QED BY <1>4, <1>5
-----------------------------------------------------------------------------
(* Windows *)

\* Pushing a ticket where there is room keeps the window within its quota, and keeps the tickets
\* that still count.
LEMMA PushBounded ==
    ASSUME TypeOK, NEW r \in Requests, NEW T, NEW quota \in Nat, Bounded(T, quota), Fits(T, quota),
           now' = now
    PROVE  /\ Bounded(Push(T, quota, r), quota)
           /\ quota > 0 => Ticket(r) \in Push(T, quota, r)
           /\ \A t \in T : t.at > now - Window => t \in Push(T, quota, r)
  <1>1. Ticket(r).at = now /\ now \in Int /\ Window \in Nat /\ Window > 0 /\ now > now - Window
        BY QuotaAssumption DEF Ticket, TypeOK, Times
  <1>2. CASE quota = 0
        BY <1>2 DEF Push, Bounded
  <1>3. CASE quota # 0
    <2>1. PICK S : S = Recent(T)
          OBVIOUS
    <2>2. Push(T, quota, r) = S \cup {Ticket(r)}
          BY <1>3, <2>1 DEF Push
    <2>3. Recent(S \cup {Ticket(r)}) = S \cup {Ticket(r)}
          BY <1>1, <2>1 DEF Recent
    <2>4. IsFiniteSet(S) /\ Cardinality(S) < quota
          BY <1>3, <2>1 DEF Bounded, Fits
    <2>5. /\ IsFiniteSet(S \cup {Ticket(r)}) /\ Cardinality(S) \in Nat
          /\ Cardinality(S \cup {Ticket(r)}) <= Cardinality(S) + 1
          BY <2>4, FS_AddElement, FS_CardinalityType
    <2>6. Cardinality(S \cup {Ticket(r)}) <= quota
      <3>1. PICK c \in Nat : c = Cardinality(S \cup {Ticket(r)})
            BY <2>5, FS_CardinalityType
      <3> QED BY <2>4, <2>5, <3>1
    <2>7. Bounded(Push(T, quota, r), quota)
      <3>1. PICK W : W = Push(T, quota, r)
            OBVIOUS
      <3>2. Recent(W) = W /\ W = S \cup {Ticket(r)}
            BY <2>2, <2>3, <3>1
      <3>3. IsFiniteSet(Recent(W)) /\ Cardinality(Recent(W)) <= quota
            BY <2>5, <2>6, <3>2
      <3> QED BY <3>1, <3>3 DEF Bounded
    <2> QED BY <2>1, <2>2, <2>7 DEF Recent
  <1> QED BY <1>2, <1>3

\* A window from which nothing recent is gained keeps its bound.
LEMMA BoundedShrinks ==
    ASSUME NEW T, NEW quota \in Nat, Bounded(T, quota), now \in Int, now' \in Int, now <= now',
           Window \in Nat, \A t \in T : t.at \in Int
    PROVE  Bounded(T, quota)'
  <1>1. SUFFICES ASSUME quota > 0
                 PROVE  /\ IsFiniteSet({t \in T : t.at > now' - Window})
                        /\ Cardinality({t \in T : t.at > now' - Window}) <= quota
        BY DEF Bounded, Recent
  <1>2. {t \in T : t.at > now' - Window} \subseteq Recent(T)
        BY DEF Recent
  <1>3. IsFiniteSet(Recent(T)) /\ Cardinality(Recent(T)) <= quota
        BY <1>1 DEF Bounded
  <1>4. PICK S : S = {t \in T : t.at > now' - Window}
        OBVIOUS
  <1>5. IsFiniteSet(S) /\ Cardinality(S) <= Cardinality(Recent(T))
        BY <1>2, <1>3, <1>4, FS_Subset
  <1>6. Cardinality(S) \in Nat /\ Cardinality(Recent(T)) \in Nat
        BY <1>3, <1>5, FS_CardinalityType
  <1> QED BY <1>3, <1>4, <1>5, <1>6

LEMMA BoundedEmpty ==
    ASSUME NEW quota \in Nat
    PROVE  Bounded({}, quota)
  <1>1. Recent({}) = {}
        BY DEF Recent
  <1> QED BY <1>1, FS_EmptySet DEF Bounded

\* What happens to the windows when the rate limiter is asked.
LEMMA WindowsAllow ==
    ASSUME TypeOK, Numbered, Ticketed, WindowsBounded, NEW r \in Requests, Allow(r)
    PROVE  Ticketed' /\ WindowsBounded'
  <1>1. /\ request[r].step = "rate" /\ request[r].step # "idle" /\ now' = now
        /\ PerUser \in Nat /\ PerOrg \in Nat
        BY QuotaAssumption DEF Allow, At
  <1>2. request[r] \in Job
        BY <1>1, JobOf
  <1>3. PICK u \in Users : u = UserOf[request[r].key]
        BY <1>2, QuotaAssumption DEF Job
  <1>4. userWindow \in [Users -> SUBSET Tickets]
        BY DEF TypeOK
  <1>5. CASE userWindow' = userWindow /\ orgWindow' = orgWindow /\ admitted' = admitted
        BY <1>1, <1>5 DEF Ticketed, WindowsBounded, Bounded, Recent, TicketOf
  <1>6. ASSUME Fits(userWindow[u], PerUser),
               userWindow' = [userWindow EXCEPT ![u] = Push(@, PerUser, r)]
        PROVE  /\ \A v \in Users : Bounded(userWindow[v], PerUser)'
               /\ \A v \in Users : \A t \in userWindow[v] :
                     t.at > now - Window => t \in userWindow'[v]
               /\ PerUser > 0 => Ticket(r) \in userWindow'[u]
    <2>1. PICK T : T = userWindow[u]
          OBVIOUS
    <2>2. Bounded(T, PerUser) /\ Fits(T, PerUser)
          BY <1>6, <2>1 DEF WindowsBounded
    <2>3. PICK P : P = Push(T, PerUser, r)
          OBVIOUS
    <2>4. /\ userWindow'[u] = P
          /\ \A v \in Users \ {u} : userWindow'[v] = userWindow[v]
          BY <1>4, <1>6, <2>1, <2>3
    <2>5. /\ Bounded(P, PerUser)
          /\ PerUser > 0 => Ticket(r) \in P
          /\ \A t \in T : t.at > now - Window => t \in P
          BY <1>1, <2>2, <2>3, PushBounded
    <2>6. Bounded(userWindow[u], PerUser)'
          BY <1>1, <2>4, <2>5 DEF Bounded, Recent
    <2>7. ASSUME NEW v \in Users, v # u
          PROVE  Bounded(userWindow[v], PerUser)'
      <3>1. PICK W : W = userWindow[v]
            OBVIOUS
      <3>2. userWindow'[v] = W /\ Bounded(W, PerUser)
            BY <2>4, <2>7, <3>1 DEF WindowsBounded
      <3> QED BY <1>1, <3>2 DEF Bounded, Recent
    <2> QED BY <2>1, <2>4, <2>5, <2>6, <2>7
  <1>7. CASE /\ Fits(userWindow[u], PerUser)
             /\ userWindow' = [userWindow EXCEPT ![u] = Push(@, PerUser, r)]
             /\ UNCHANGED <<orgWindow, admitted>>
    <2>1. Bounded(orgWindow, PerOrg)'
          BY <1>1, <1>7 DEF WindowsBounded, Bounded, Recent
    <2>2. WindowsBounded'
          BY <1>6, <1>7, <2>1 DEF WindowsBounded
    <2>3. ASSUME NEW a \in admitted'
          PROVE  /\ a.at > now' - Window
                 /\ PerUser > 0 => TicketOf(a) \in userWindow'[a.user]
                 /\ PerOrg > 0 => TicketOf(a) \in orgWindow'
      <3>1. /\ a.at > now - Window /\ a.user \in Users /\ TicketOf(a).at = a.at
            /\ PerUser > 0 => TicketOf(a) \in userWindow[a.user]
            /\ PerOrg > 0 => TicketOf(a) \in orgWindow
            BY <1>7 DEF Ticketed, TypeOK, TicketOf
      <3> QED BY <1>1, <1>6, <1>7, <3>1
    <2> QED BY <2>2, <2>3 DEF Ticketed, TicketOf
  <1>8. CASE /\ Fits(userWindow[u], PerUser)
             /\ userWindow' = [userWindow EXCEPT ![u] = Push(@, PerUser, r)]
             /\ Fits(orgWindow, PerOrg)
             /\ orgWindow' = Push(orgWindow, PerOrg, r)
             /\ admitted' = admitted \cup {[n |-> request[r].n, user |-> u, at |-> now]}
    <2>1. Bounded(orgWindow, PerOrg)
          BY DEF WindowsBounded
    <2>2. PICK T : T = orgWindow
          OBVIOUS
    <2>3. /\ Bounded(Push(T, PerOrg, r), PerOrg)
          /\ PerOrg > 0 => Ticket(r) \in Push(T, PerOrg, r)
          /\ \A t \in T : t.at > now - Window => t \in Push(T, PerOrg, r)
          BY <1>1, <1>8, <2>1, <2>2, PushBounded
    <2>4. PICK P : P = Push(T, PerOrg, r)
          OBVIOUS
    <2>5. Bounded(orgWindow, PerOrg)'
          BY <1>1, <1>8, <2>2, <2>3, <2>4 DEF Bounded, Recent
    <2>6. WindowsBounded'
      <3>1. \A v \in Users : Bounded(userWindow[v], PerUser)'
            BY <1>6, <1>8
      <3> QED BY <2>5, <3>1 DEF WindowsBounded
    <2>7. PICK b : b = [n |-> request[r].n, user |-> u, at |-> now]
          OBVIOUS
    <2>8. /\ b.at = now /\ b.user = u /\ TicketOf(b) = Ticket(r)
          BY <2>7 DEF TicketOf, Ticket
    <2>9. now \in Int /\ Window \in Nat /\ Window > 0 /\ now > now - Window
          BY QuotaAssumption DEF TypeOK, Times
    <2>10. ASSUME NEW a \in admitted'
           PROVE  /\ a.at > now' - Window
                  /\ PerUser > 0 => TicketOf(a) \in userWindow'[a.user]
                  /\ PerOrg > 0 => TicketOf(a) \in orgWindow'
      <3>1. CASE a = b
            BY <1>1, <1>6, <1>8, <2>2, <2>3, <2>8, <2>9, <3>1
      <3>2. CASE a \in admitted
        <4>1. /\ a.at > now - Window /\ a.user \in Users /\ TicketOf(a).at = a.at
              /\ PerUser > 0 => TicketOf(a) \in userWindow[a.user]
              /\ PerOrg > 0 => TicketOf(a) \in orgWindow
              BY <3>2 DEF Ticketed, TypeOK, TicketOf
        <4> QED BY <1>1, <1>6, <1>8, <2>2, <2>3, <4>1
      <3> QED BY <1>8, <2>7, <3>1, <3>2
    <2> QED BY <2>6, <2>10 DEF Ticketed, TicketOf
  <1> QED BY <1>3, <1>5, <1>7, <1>8 DEF Allow

LEMMA WindowsTick ==
    ASSUME TypeOK, Ticketed, WindowsBounded, Tick
    PROVE  Ticketed' /\ WindowsBounded'
  <1>1. /\ now \in Int /\ now' \in Int /\ now <= now' /\ Window \in Nat
        /\ PerUser \in Nat /\ PerOrg \in Nat
        BY QuotaAssumption DEF TypeOK, Times, Tick
  <1>2. userWindow' = userWindow /\ orgWindow' = orgWindow
        BY DEF Tick, memory
  <1>3. admitted' = {a \in admitted : a.at > now' - Window}
        BY DEF Tick
  <1>4. Ticketed'
    <2>1. ASSUME NEW a \in admitted'
          PROVE  /\ a.at > now' - Window
                 /\ PerUser > 0 => TicketOf(a) \in userWindow'[a.user]
                 /\ PerOrg > 0 => TicketOf(a) \in orgWindow'
      <3>1. a \in admitted /\ a.at > now' - Window
            BY <1>3
      <3> QED BY <1>2, <3>1 DEF Ticketed
    <2>2. \A a \in admitted' : /\ a.at > now' - Window
                               /\ PerUser > 0 => TicketOf(a) \in userWindow'[a.user]
                               /\ PerOrg > 0 => TicketOf(a) \in orgWindow'
          BY <2>1
    <2> QED BY <2>2, Zenon DEF Ticketed, TicketOf
  <1>5. /\ \A t \in orgWindow : t.at \in Int
        /\ \A u \in Users : \A t \in userWindow[u] : t.at \in Int
        BY DEF TypeOK, Tickets, Times
  <1>6. Bounded(orgWindow, PerOrg)'
    <2>1. PICK T : T = orgWindow
          OBVIOUS
    <2>2. Bounded(T, PerOrg)'
          BY <1>1, <1>5, <2>1, BoundedShrinks DEF WindowsBounded
    <2> QED BY <1>2, <2>1, <2>2 DEF Bounded, Recent
  <1>7. ASSUME NEW u \in Users
        PROVE  Bounded(userWindow[u], PerUser)'
    <2>1. PICK T : T = userWindow[u]
          OBVIOUS
    <2>2. Bounded(T, PerUser)'
          BY <1>1, <1>5, <2>1, BoundedShrinks DEF WindowsBounded
    <2> QED BY <1>2, <2>1, <2>2 DEF Bounded, Recent
  <1> QED BY <1>4, <1>6, <1>7 DEF WindowsBounded

\* The cache: a key is claimed again only a window after its last claim.
LEMMA ClaimsCheck ==
    ASSUME TypeOK, ClaimsMatch, NEW r \in Requests, CheckKey(r)
    PROVE  ClaimsMatch'
  <1>1. now' = now /\ now \in Int /\ Window \in Nat /\ Window > 0 /\ now > now - Window
        BY QuotaAssumption DEF TypeOK, Times, CheckKey
  <1>2. CASE cache' = cache /\ claims' = claims
        BY <1>1, <1>2 DEF ClaimsMatch
  <1>3. PICK k : k = request[r].key
        OBVIOUS
  <1>4. k \in Keys /\ cache \in [Keys -> Times \cup {Never}]
    <2>1. request[r].step # "idle"
          BY DEF CheckKey, At
    <2> QED BY <1>3, <2>1, JobOf DEF Job, TypeOK
  <1>5. CASE /\ now - cache[k] >= Window
             /\ cache' = Pruned([cache EXCEPT ![k] = now])
             /\ claims' = claims \cup {[n |-> request[r].n, key |-> k, at |-> now]}
    <2>1. PICK new : new = [n |-> request[r].n, key |-> k, at |-> now]
          OBVIOUS
    <2>2. new.key = k /\ new.at = now /\ claims' = claims \cup {new}
          BY <1>5, <2>1
    <2>3. ASSUME NEW c \in claims
          PROVE  /\ c.at > now - Window /\ cache[c.key] = c.at /\ c.at \in Int
                 /\ c.key \in Keys /\ c.key # k
      <3>1. /\ c.at > now - Window /\ cache[c.key] = c.at /\ c.at \in Int /\ c.key \in Keys
            BY DEF ClaimsMatch, TypeOK, Times
      <3> QED BY <1>1, <1>5, <3>1
    <2>4. \A h \in Keys : cache'[h] = IF h = k THEN now ELSE
                                       IF cache[h] < now - Window THEN Never ELSE cache[h]
      <3>1. ASSUME NEW h \in Keys PROVE  cache'[h] = IF [cache EXCEPT ![k] = now][h] < now - Window
                                                     THEN Never ELSE [cache EXCEPT ![k] = now][h]
            BY <1>5, <3>1 DEF Pruned
      <3>2. ASSUME NEW h \in Keys, h = k
            PROVE  cache'[h] = now
            BY <1>1, <1>4, <3>1, <3>2
      <3>3. ASSUME NEW h \in Keys, h # k
            PROVE  cache'[h] = IF cache[h] < now - Window THEN Never ELSE cache[h]
            BY <1>4, <3>1, <3>3
      <3> QED BY <3>2, <3>3
    <2>5. \A c \in claims : cache'[c.key] = c.at
          BY <1>1, <2>3, <2>4
    <2>6. cache'[k] = now
          BY <1>4, <2>4
    <2>7. \A c \in claims' : c.at > now' - Window /\ cache'[c.key] = c.at
          BY <1>1, <2>2, <2>3, <2>5, <2>6
    <2>8. \A c, d \in claims' : c.key = d.key => c = d
          BY <2>2, <2>3 DEF ClaimsMatch
    <2> QED BY <2>7, <2>8 DEF ClaimsMatch
  <1> QED BY <1>2, <1>3, <1>5 DEF CheckKey

LEMMA ClaimsTick ==
    ASSUME ClaimsMatch, Tick
    PROVE  ClaimsMatch'
  <1>1. cache' = cache /\ claims' = {c \in claims : c.at > now' - Window}
        BY DEF Tick, memory
  <1> QED BY <1>1 DEF ClaimsMatch

\* What leaves the windows, the cache and the histories alone.
LEMMA HistoriesKept ==
    ASSUME Ticketed, WindowsBounded, now' = now, userWindow' = userWindow, orgWindow' = orgWindow,
           admitted' = admitted
    PROVE  Ticketed' /\ WindowsBounded'
  BY DEF Ticketed, WindowsBounded, Bounded, Recent, TicketOf

LEMMA ClaimsKept ==
    ASSUME ClaimsMatch, now' = now, cache' = cache, claims' = claims
    PROVE  ClaimsMatch'
  BY DEF ClaimsMatch

LEMMA AdmissionInit == Init => AdmissionInv
  <1> SUFFICES ASSUME Init PROVE AdmissionInv
      OBVIOUS
  <1>1. PerUser \in Nat /\ PerOrg \in Nat
        BY QuotaAssumption
  <1>2. WindowsBounded
        BY <1>1, BoundedEmpty DEF Init, WindowsBounded
  <1>3. Numbered
        BY DEF Init, Numbered, InFlight, Idle
  <1> QED BY <1>2, <1>3 DEF Init, AdmissionInv, Ticketed, ClaimsMatch

LEMMA AdmissionStep ==
    ASSUME TypeOK, AdmissionInv, [Next]_vars
    PROVE  AdmissionInv'
  <1> USE DEF AdmissionInv
  <1>1. CASE Tick
    <2>1. /\ request' = request /\ started' = started /\ admitted' \subseteq admitted
          BY <1>1 DEF Tick
    <2>2. Numbered'
          BY <2>1, NumberedStays DEF InFlight
    <2> QED BY <1>1, <2>2, WindowsTick, ClaimsTick
  <1>2. CASE Restart
    <2>1. Numbered'
          BY <1>2, NumberedStays DEF Restart, InFlight, Idle
    <2>2. Ticketed' /\ ClaimsMatch'
          BY <1>2 DEF Restart, Ticketed, ClaimsMatch
    <2>3. PerUser \in Nat /\ PerOrg \in Nat
          BY QuotaAssumption
    <2>4. orgWindow' = {} /\ \A u \in Users : userWindow'[u] = {}
          BY <1>2 DEF Restart
    <2>5. \A quota \in Nat : Bounded({}, quota)'
      <3>1. Recent({})' = {}
            BY DEF Recent
      <3> QED BY <3>1, FS_EmptySet DEF Bounded
    <2>6. WindowsBounded'
          BY <2>3, <2>4, <2>5 DEF WindowsBounded, Bounded, Recent
    <2> QED BY <2>1, <2>2, <2>6
  <1>3. ASSUME NEW r \in Requests, Begin(r)
        PROVE  AdmissionInv'
    <2>1. Numbered'
          BY <1>3, NumberedBegin
    <2>2. /\ now' = now /\ userWindow' = userWindow /\ orgWindow' = orgWindow /\ cache' = cache
          /\ claims' = claims /\ admitted' = admitted
          BY <1>3 DEF Begin, memory, history
    <2> QED BY <2>1, <2>2, HistoriesKept, ClaimsKept
  <1>4. ASSUME NEW r \in Requests, Allow(r)
        PROVE  AdmissionInv'
    <2>1. now' = now /\ cache' = cache /\ claims' = claims
          BY <1>4 DEF Allow
    <2> QED BY <1>4, <2>1, NumberedAllow, WindowsAllow, ClaimsKept
  <1>5. ASSUME NEW r \in Requests, Step(r), ~Allow(r)
        PROVE  AdmissionInv'
    <2>1. /\ now' = now /\ userWindow' = userWindow /\ orgWindow' = orgWindow
          /\ admitted' = admitted /\ started' = started
          BY <1>5 DEF Step, CheckKey, Acquire, CheckBudget, AsksTools, RunTools, Answer, Record,
                      Throw, memory, history
    <2>2. CheckKey(r) \/ (cache' = cache /\ claims' = claims)
          BY <1>5 DEF Step, CheckKey, Acquire, CheckBudget, AsksTools, RunTools, Answer, Record,
                      Throw, memory, history
    <2>3. ClaimsMatch'
          BY <2>1, <2>2, ClaimsCheck, ClaimsKept
    <2>4. /\ \A q \in Requests \ {r} : request'[q] = request[q]
          /\ InFlight(r) /\ (InFlight(r)' => request'[r].n = request[r].n)
          /\ request'[r].step # "idem"
          /\ request'[r].step = "rate" => request[r].step = "idem"
          BY <1>5, JobsKeep
    <2>5. Numbered'
      <3>1. \A q \in Requests : /\ InFlight(q)' => InFlight(q) /\ request'[q].n = request[q].n
                                /\ request'[q].step \in {"idem", "rate"} =>
                                      request[q].step \in {"idem", "rate"}
            BY <2>4 DEF InFlight
      <3> QED BY <2>1, <3>1, NumberedStays
    <2> QED BY <2>1, <2>3, <2>5, HistoriesKept
  <1>6. CASE UNCHANGED vars
    <2>1. /\ now' = now /\ userWindow' = userWindow /\ orgWindow' = orgWindow /\ cache' = cache
          /\ claims' = claims /\ admitted' = admitted /\ started' = started /\ request' = request
          BY <1>6 DEF vars, memory, history
    <2>2. Numbered'
          BY <2>1, NumberedStays DEF InFlight
    <2> QED BY <2>1, <2>2, HistoriesKept, ClaimsKept
  <1> QED BY <1>1, <1>2, <1>3, <1>4, <1>5, <1>6 DEF Next

\* Admissions with different numbers have different tickets, so there are no more of them than
\* tickets.
LEMMA AdmissionsFit ==
    ASSUME AdmissionInv, NEW A, A \subseteq admitted, NEW T, NEW quota \in Nat, quota > 0,
           Bounded(T, quota), \A a \in A : TicketOf(a) \in T
    PROVE  Cardinality(A) <= quota
  <1>1. \A a \in A : TicketOf(a) \in Recent(T)
    <2> SUFFICES ASSUME NEW a \in A
                 PROVE  TicketOf(a) \in T /\ TicketOf(a).at > now - Window
        BY DEF Recent
    <2>1. a \in admitted /\ TicketOf(a).at = a.at
          BY DEF TicketOf
    <2> QED BY <2>1 DEF AdmissionInv, Ticketed
  <1>2. PICK f : f = [a \in A |-> TicketOf(a)]
        OBVIOUS
  <1>3. PICK R : R = Recent(T)
        OBVIOUS
  <1>4. f \in [A -> R]
        BY <1>1, <1>2, <1>3
  <1>5. \A a, b \in A : f[a] = f[b] => a = b
        BY <1>2 DEF AdmissionInv, Numbered, TicketOf
  <1>6. f \in Injection(A, R)
        BY <1>4, <1>5 DEF Injection, IsInjective
  <1>7. IsFiniteSet(R) /\ Cardinality(R) <= quota
        BY <1>3 DEF Bounded
  <1>8. IsFiniteSet(A) /\ Cardinality(A) <= Cardinality(R)
        BY <1>6, <1>7, FS_Injection
  <1>9. Cardinality(A) \in Nat /\ Cardinality(R) \in Nat
        BY <1>7, <1>8, FS_CardinalityType
  <1> QED BY <1>7, <1>8, <1>9

LEMMA AdmissionBounds ==
    ASSUME TypeOK, AdmissionInv
    PROVE  AdmissionsBounded
  <1>1. PerUser \in Nat /\ PerOrg \in Nat
        BY QuotaAssumption
  <1>2. ASSUME PerUser > 0, NEW u \in Users
        PROVE  Cardinality({a \in admitted : a.user = u}) <= PerUser
    <2>1. PICK A : A = {a \in admitted : a.user = u}
          OBVIOUS
    <2>2. PICK T : T = userWindow[u]
          OBVIOUS
    <2>3. A \subseteq admitted /\ (\A a \in A : TicketOf(a) \in T) /\ Bounded(T, PerUser)
          BY <1>2, <2>1, <2>2 DEF AdmissionInv, Ticketed, WindowsBounded
    <2> QED BY <1>1, <1>2, <2>1, <2>3, AdmissionsFit
  <1>3. ASSUME PerOrg > 0
        PROVE  Cardinality(admitted) <= PerOrg
    <2>1. PICK T : T = orgWindow
          OBVIOUS
    <2>2. (\A a \in admitted : TicketOf(a) \in T) /\ Bounded(T, PerOrg)
          BY <1>3, <2>1 DEF AdmissionInv, Ticketed, WindowsBounded
    <2>3. PICK A : A = admitted
          OBVIOUS
    <2> QED BY <1>1, <1>3, <2>2, <2>3, AdmissionsFit
  <1> QED BY <1>2, <1>3 DEF AdmissionsBounded, AdmissionInv, ClaimsMatch

\* In a minute the cache lets a key pass once and the rate limiter no more than the quotas, for
\* any requests, quotas and windows: the windows hold a ticket of their own for each admission.
THEOREM AdmissionsAreBounded == Spec => []AdmissionsBounded
  <1>1. Init => TypeOK /\ SlotsMatch /\ AdmissionInv
        BY TypeInit, SlotsInit, AdmissionInit
  <1>2. TypeOK /\ AdmissionInv /\ [Next]_vars => AdmissionInv'
        BY AdmissionStep
  <1>3. TypeOK /\ AdmissionInv => AdmissionsBounded
        BY AdmissionBounds
  <1> QED BY <1>1, <1>2, <1>3, TypesAndSlotsStep, PTL DEF Spec
-----------------------------------------------------------------------------
(* The loop of tools *)

\* The counters are looked at before they are raised, so a request is never past either limit.
LoopBounded == \A r \in Requests : request[r] # Idle => /\ request[r].rounds <= MaxToolRounds
                                                        /\ request[r].calls <= MaxToolCalls

Place == [record |-> 1, model |-> 2, tools |-> 3, budget |-> 3, slot |-> 4, rate |-> 5, idem |-> 6]

\* The steps that are left to a request: each round of tools takes two of them.
StepsLeft(r) == IF request[r] = Idle THEN 0
                ELSE Place[request[r].step] + 2 * (MaxToolRounds - request[r].rounds)

\* A request that moves has fewer steps left than before, and no other request, restart or tick
\* gives it more: what RequestsEnd rests on, besides the fairness.
StepsRunOut ==
    [][\A r \in Requests : request[r] # Idle /\ request'[r] # request[r]
          => StepsLeft(r)' < StepsLeft(r)]_vars

StepsBounded == \A r \in Requests : StepsLeft(r) \in 0 .. 6 + 2 * MaxToolRounds

Typed == TypeOK /\ LoopBounded

LEMMA StepsAreNat ==
    ASSUME Typed, NEW r \in Requests
    PROVE  /\ StepsLeft(r) \in 0 .. 6 + 2 * MaxToolRounds
           /\ request[r] # Idle => StepsLeft(r) > 0
  <1>1. CASE request[r] = Idle
        BY <1>1, QuotaAssumption DEF StepsLeft
  <1>2. CASE request[r] # Idle
    <2>1. request[r] \in Job /\ request[r].rounds <= MaxToolRounds
          BY <1>2 DEF Typed, TypeOK, LoopBounded
    <2>2. request[r].rounds \in Nat /\ Place[request[r].step] \in 1 .. 6
          BY <2>1 DEF Job, Stepping, Place
    <2>3. StepsLeft(r) = Place[request[r].step] + 2 * (MaxToolRounds - request[r].rounds)
          BY <1>2 DEF StepsLeft
    <2> HIDE DEF Place
    <2> QED BY <2>1, <2>2, <2>3, QuotaAssumption
  <1> QED BY <1>1, <1>2

\* What a step makes of a request: nothing, a job one place further, or one round more.
Advances(old, new) ==
    \/ new = Idle
    \/ /\ new \in Job /\ Place[new.step] < Place[old.step]
       /\ new.rounds = old.rounds /\ new.calls = old.calls
    \/ /\ new \in Job /\ new.step = "tools" /\ old.step = "model"
       /\ new.rounds = old.rounds + 1 /\ new.rounds <= MaxToolRounds /\ new.calls <= MaxToolCalls

LEMMA GoesTo ==
    ASSUME TypeOK, NEW r \in Requests, NEW s \in Stepping, request[r].step # "idle", Goto(r, s),
           Place[s] < Place[request[r].step]
    PROVE  /\ Advances(request[r], request'[r])
           /\ \A q \in Requests \ {r} : request'[q] = request[q]
  <1>1. request[r] \in Job
        BY JobOf
  <1> DEFINE job == [request[r] EXCEPT !.step = s]
  <1>2. job \in Job /\ job.step = s /\ job.rounds = request[r].rounds
        /\ job.calls = request[r].calls
        BY <1>1 DEF Job
  <1>3. request' = [request EXCEPT ![r] = job]
        BY DEF Goto
  <1> HIDE DEF job
  <1> QED BY <1>2, <1>3 DEF Advances, TypeOK

LEMMA Finishes ==
    ASSUME TypeOK, NEW r \in Requests, End(r)
    PROVE  /\ Advances(request[r], request'[r])
           /\ \A q \in Requests \ {r} : request'[q] = request[q]
  BY DEF End, Advances, TypeOK

LEMMA StepAdvances ==
    ASSUME TypeOK, NEW r \in Requests, Step(r)
    PROVE  /\ Advances(request[r], request'[r])
           /\ \A q \in Requests \ {r} : request'[q] = request[q]
  <1>1. request[r].step # "idle" => request[r] \in Job
        BY JobOf
  <1>2. CASE CheckKey(r)
        BY <1>2, Finishes, GoesTo DEF CheckKey, At, Stepping, Place
  <1>3. CASE Allow(r)
        BY <1>3, Finishes, GoesTo DEF Allow, At, Stepping, Place
  <1>4. CASE Acquire(r)
        BY <1>4, Finishes, GoesTo DEF Acquire, At, Stepping, Place
  <1>5. CASE CheckBudget(r)
        BY <1>5, Finishes, GoesTo DEF CheckBudget, At, Stepping, Place
  <1>6. CASE AsksTools(r)
    <2>1. PICK n \in 1 .. (MaxToolCalls + 1) :
             IF Exceeds(request[r], n) THEN End(r)
             ELSE request' = [request EXCEPT ![r] = Counted(request[r], n)]
          BY <1>6 DEF AsksTools
    <2>2. CASE Exceeds(request[r], n)
          BY <2>1, <2>2, Finishes
    <2>3. CASE ~Exceeds(request[r], n)
      <3> DEFINE new == Counted(request[r], n)
      <3>1. request[r] \in Job /\ request[r].step = "model"
            BY <1>1, <1>6 DEF AsksTools, At
      <3>2. /\ new \in Job /\ new.step = "tools"
            /\ new.rounds = request[r].rounds + 1 /\ new.calls = request[r].calls + n
        <4> DEFINE job == request[r]
        <4>1. job \in [step : Stepping, n : 1..MaxStarts, key : Keys, rounds : Nat, calls : Nat]
              BY <3>1 DEF Job
        <4>2. job.rounds + 1 \in Nat /\ job.calls + n \in Nat /\ "tools" \in Stepping
              BY <4>1, QuotaAssumption DEF Stepping
        <4> HIDE DEF job
        <4>3. Counted(job, n) \in Job /\ Counted(job, n).step = "tools"
              /\ Counted(job, n).rounds = job.rounds + 1 /\ Counted(job, n).calls = job.calls + n
              BY <4>1, <4>2 DEF Counted, Job
        <4> QED BY <4>3 DEF job
      <3>3. new.rounds <= MaxToolRounds /\ new.calls <= MaxToolCalls
        <4>1. request[r].rounds \in Nat /\ request[r].calls \in Nat
              BY <3>1 DEF Job
        <4> HIDE DEF new
        <4> QED BY <2>3, <3>2, <4>1, QuotaAssumption DEF Exceeds
      <3>4. request' = [request EXCEPT ![r] = new]
            BY <2>1, <2>3
      <3> HIDE DEF new
      <3> QED BY <3>1, <3>2, <3>3, <3>4 DEF Advances, TypeOK
    <2> QED BY <2>2, <2>3
  <1>7. CASE RunTools(r)
        BY <1>7, GoesTo DEF RunTools, At, Stepping, Place
  <1>8. CASE Answer(r)
        BY <1>8, GoesTo DEF Answer, At, Stepping, Place
  <1>9. CASE Record(r) \/ Throw(r)
        BY <1>9, Finishes DEF Record, Throw
  <1> QED BY <1>2, <1>3, <1>4, <1>5, <1>6, <1>7, <1>8, <1>9 DEF Step

LEMMA LoopStep ==
    ASSUME TypeOK, LoopBounded, [Next]_vars
    PROVE  /\ LoopBounded'
           /\ \A r \in Requests : request[r] # Idle /\ request'[r] # request[r]
                 => StepsLeft(r)' < StepsLeft(r)
  <1>1. CASE Tick \/ UNCHANGED vars
        BY <1>1 DEF Tick, vars, LoopBounded
  <1>2. CASE Restart
    <2>1. \A r \in Requests : request'[r] = Idle
          BY <1>2 DEF Restart
    <2>2. \A r \in Requests : request[r] # Idle => StepsLeft(r) > 0
          BY StepsAreNat DEF Typed
    <2> QED BY <2>1, <2>2 DEF LoopBounded, StepsLeft
  <1>3. ASSUME NEW r \in Requests, Begin(r)
        PROVE  /\ LoopBounded'
               /\ \A q \in Requests : request[q] # Idle => request'[q] = request[q]
    <2>1. /\ request[r] = Idle /\ request'[r].rounds = 0 /\ request'[r].calls = 0
          /\ \A q \in Requests \ {r} : request'[q] = request[q]
          BY <1>3 DEF Begin, TypeOK
    <2> QED BY <2>1, QuotaAssumption DEF LoopBounded
  <1>4. ASSUME NEW r \in Requests, Step(r)
        PROVE  /\ LoopBounded'
               /\ \A q \in Requests : request[q] # Idle /\ request'[q] # request[q]
                     => StepsLeft(q)' < StepsLeft(q)
    <2>1. /\ Advances(request[r], request'[r])
          /\ \A q \in Requests \ {r} : request'[q] = request[q]
          BY <1>4, StepAdvances
    <2>2. request[r] # Idle
          BY <1>4 DEF Step, CheckKey, Allow, Acquire, CheckBudget, AsksTools, RunTools, Answer, Record,
                      Throw, At, Idle
    <2>3. /\ request[r] \in Job /\ request[r].rounds <= MaxToolRounds
          /\ request[r].calls <= MaxToolCalls
          BY <2>2 DEF TypeOK, LoopBounded
    <2>4. LoopBounded'
          BY <2>1, <2>3 DEF Advances, LoopBounded
    <2>5. StepsLeft(r)' < StepsLeft(r)
      <3>1. StepsLeft(r) > 0 /\ StepsLeft(r) = Place[request[r].step]
                                              + 2 * (MaxToolRounds - request[r].rounds)
            BY <2>2, StepsAreNat DEF Typed, StepsLeft
      <3>2. CASE request'[r] = Idle
            BY <3>1, <3>2 DEF StepsLeft
      <3>3. CASE request'[r] # Idle
        <4>1. request'[r] \in Job
              BY <2>1, <3>3 DEF Advances
        <4>2. StepsLeft(r)' = Place[request'[r].step] + 2 * (MaxToolRounds - request'[r].rounds)
              BY <3>3 DEF StepsLeft
        <4>3. /\ request[r].rounds \in Nat /\ request'[r].rounds \in Nat
              /\ Place[request[r].step] \in Nat /\ Place[request'[r].step] \in Nat
              BY <2>3, <4>1 DEF Job, Stepping, Place
        <4>4. \/ /\ Place[request'[r].step] < Place[request[r].step]
                 /\ request'[r].rounds = request[r].rounds
              \/ /\ Place[request'[r].step] = 3 /\ Place[request[r].step] = 2
                 /\ request'[r].rounds = request[r].rounds + 1
              BY <2>1, <3>3 DEF Advances, Place
        <4> HIDE DEF Place
        <4> QED BY <3>1, <4>2, <4>3, <4>4, QuotaAssumption
      <3> QED BY <3>2, <3>3
    <2> QED BY <2>1, <2>4, <2>5
  <1> QED BY <1>1, <1>2, <1>3, <1>4 DEF Next

LEMMA LoopInit == Init => LoopBounded
  BY DEF Init, LoopBounded

\* However often the model asks for tools, a request is at most MaxToolRounds times called again
\* with their answers, and runs at most MaxToolCalls of them, for any limits.
THEOREM ToolLoopIsBounded == Spec => []LoopBounded
  <1>1. TypeOK /\ LoopBounded /\ [Next]_vars => LoopBounded'
        BY LoopStep
  <1> QED BY <1>1, LoopInit, TypeCorrect, PTL DEF Spec

\* The steps of executeWithGuardrails and of the loop that are left to a request are bounded, and
\* every step it makes leaves fewer, for any limits: no request goes on for ever.
THEOREM RequestsRunOut == Spec => []StepsBounded /\ StepsRunOut
  <1>1. TypeOK /\ LoopBounded /\ [Next]_vars =>
           [\A r \in Requests : request[r] # Idle /\ request'[r] # request[r]
              => StepsLeft(r)' < StepsLeft(r)]_vars
        BY LoopStep
  <1>2. TypeOK /\ LoopBounded => StepsBounded
        BY StepsAreNat DEF Typed, StepsBounded
  <1> QED BY <1>1, <1>2, ToolLoopIsBounded, TypeCorrect, PTL DEF Spec, StepsRunOut
=============================================================================
