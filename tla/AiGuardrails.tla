------------------------------ MODULE AiGuardrails ------------------------------
(***************************************************************************)
(* What stands between a user and the model: checkAndExecute claims the    *)
(* request in the idempotency cache, counts it in the rate windows, takes  *)
(* a slot and looks at the budget; then the model is called, once or in a  *)
(* loop with tools, and the usage is recorded.  The caches, windows and    *)
(* slots are in the memory of the process, each used by one stretch of     *)
(* code between two awaits, which is one action here; the recorded usage   *)
(* is in the database.  One organization; its plan's quotas are constants, *)
(* of which 0 means unlimited.                                             *)
(***************************************************************************)
EXTENDS Integers, FiniteSets

CONSTANTS Requests,       \* requests in flight
          Users,
          Keys, UserOf,   \* hashes of a user and what is asked, and whose each is
          Window,         \* ticks of a minute, the length of all windows
          PerUser, PerOrg, MaxJobs, MonthRequests,   \* the plan's quotas
          MaxToolRounds, MaxToolCalls,
          MaxTime, MaxStarts   \* bounds: ticks, requests begun

ASSUME QuotaAssumption ==
    /\ IsFiniteSet(Requests) /\ Requests # {}
    /\ UserOf \in [Keys -> Users]
    /\ Window \in Nat \ {0}
    /\ PerUser \in Nat /\ PerOrg \in Nat /\ MaxJobs \in Nat
    /\ MonthRequests \in Nat
    /\ MaxToolRounds \in Nat /\ MaxToolCalls \in Nat
    /\ MaxTime \in Nat /\ MaxStarts \in Nat

VARIABLES now,         \* minutes, in ticks
          cache,       \* AiIdempotencyService: when each key was claimed
          userWindow,  \* AiRateLimiterService: tickets of each user and their times
          orgWindow,   \*   and of the organization
          active,      \* AiConcurrencyService: slots taken
          request,     \* where each request is
          usage,       \* ai_usage_events: how many rows this month has
          started,     \* requests begun so far
          claims,      \* history: what the cache let pass in the last minute
          admitted     \* history: what the rate limiter let pass

memory == <<cache, userWindow, orgWindow, active>>
history == <<claims, admitted>>
vars == <<now, memory, request, usage, started, history>>
-----------------------------------------------------------------------------
Never == -Window          \* a time so long ago that it does not matter
Times == 0..MaxTime
Tickets == [n : 1..MaxStarts, at : Times]

Idle == [step |-> "idle"]

Stepping == {"idem", "rate", "slot", "budget", "model", "tools", "record"}
Job == [step : Stepping, n : 1..MaxStarts, key : Keys, rounds : Nat, calls : Nat]

At(r, step) == request[r].step = step
Goto(r, step) == request' = [request EXCEPT ![r].step = step]
End(r) == request' = [request EXCEPT ![r] = Idle]

Ticket(r) == [n |-> request[r].n, at |-> now]
Recent(tickets) == {t \in tickets : t.at > now - Window}

Init == /\ now = 0
        /\ cache = [k \in Keys |-> Never]
        /\ userWindow = [u \in Users |-> {}] /\ orgWindow = {}
        /\ active = 0
        /\ request = [r \in Requests |-> Idle]
        /\ usage = 0
        /\ started = 0
        /\ claims = {} /\ admitted = {}
-----------------------------------------------------------------------------
Tick == /\ now < MaxTime
        /\ now' = now + 1
        /\ claims' = {c \in claims : c.at > now' - Window}
        /\ admitted' = {a \in admitted : a.at > now' - Window}
        /\ UNCHANGED <<memory, request, usage, started>>

\* The process is replaced: its memory is empty, and what was in flight is gone.
Restart == /\ cache' = [k \in Keys |-> Never]
           /\ userWindow' = [u \in Users |-> {}] /\ orgWindow' = {} /\ active' = 0
           /\ request' = [r \in Requests |-> Idle]
           /\ claims' = {} /\ admitted' = {}
           /\ UNCHANGED <<now, usage, started>>
-----------------------------------------------------------------------------
(* checkAndExecute *)

Begin(r) == /\ request[r] = Idle
            /\ started < MaxStarts /\ started' = started + 1
            /\ \E k \in Keys :
                  request' = [request EXCEPT ![r] = [step |-> "idem", n |-> started + 1, key |-> k,
                                                     rounds |-> 0, calls |-> 0]]
            /\ UNCHANGED <<now, memory, usage, history>>

\* Mutant: prune(now) instead of prune(now - windowMs).
Pruned_TooFar(c) == [k \in Keys |-> IF c[k] < now THEN Never ELSE c[k]]

Pruned(c) == [k \in Keys |-> IF c[k] < now - Window THEN Never ELSE c[k]]

\* AiIdempotencyService.check: the key is claimed, whatever becomes of the request.
CheckKey(r) ==
    LET k == request[r].key IN
    /\ At(r, "idem")
    /\ \/ /\ now - cache[k] < Window
          /\ End(r)
          /\ UNCHANGED <<cache, claims>>
       \/ /\ now - cache[k] >= Window
          /\ cache' = Pruned([cache EXCEPT ![k] = now])
          /\ claims' = claims \cup {[n |-> request[r].n, key |-> k, at |-> now]}
          /\ Goto(r, "rate")
    /\ UNCHANGED <<now, userWindow, orgWindow, active, usage, started, admitted>>

Fits(tickets, quota) == quota = 0 \/ Cardinality(Recent(tickets)) < quota
Push(tickets, quota, r) == IF quota = 0 THEN tickets ELSE Recent(tickets) \cup {Ticket(r)}

\* AiRateLimiterService.allow: the user's window counts a request that the organization's
\* window then refuses.
Allow(r) ==
    LET u == UserOf[request[r].key] IN
    /\ At(r, "rate")
    /\ \/ /\ ~Fits(userWindow[u], PerUser)
          /\ End(r)
          /\ UNCHANGED <<userWindow, orgWindow, admitted>>
       \/ /\ Fits(userWindow[u], PerUser)
          /\ userWindow' = [userWindow EXCEPT ![u] = Push(@, PerUser, r)]
          /\ \/ /\ ~Fits(orgWindow, PerOrg)
                /\ End(r)
                /\ UNCHANGED <<orgWindow, admitted>>
             \/ /\ Fits(orgWindow, PerOrg)
                /\ orgWindow' = Push(orgWindow, PerOrg, r)
                /\ admitted' = admitted \cup {[n |-> request[r].n, user |-> u, at |-> now]}
                /\ Goto(r, "slot")
    /\ UNCHANGED <<now, cache, active, usage, started, claims>>

\* AiConcurrencyService.acquire.
Acquire(r) ==
    /\ At(r, "slot")
    /\ \/ /\ MaxJobs > 0 /\ active >= MaxJobs
          /\ End(r)
          /\ UNCHANGED active
       \/ /\ MaxJobs = 0 \/ active < MaxJobs
          /\ active' = IF MaxJobs = 0 THEN active ELSE active + 1
          /\ Goto(r, "budget")
    /\ UNCHANGED <<now, cache, userWindow, orgWindow, usage, started, history>>

HoldsSlot(r) == At(r, "budget") /\ MaxJobs > 0

\* Mutant: "finally" is put around the whole request, whether it has a slot or not.
Freed_Always(r) == active - 1

\* Mutant: the slot is given back where the budget is fine, and not in "finally".
Freed_NotOnError(r) == active

Freed(r) == IF HoldsSlot(r) THEN active - 1 ELSE active

\* Mutant: the request itself is not counted.
WithinBudget_WithoutIt == MonthRequests = 0 \/ usage <= MonthRequests

WithinBudget == MonthRequests = 0 \/ usage + 1 <= MonthRequests

\* checkBudget reads what is recorded and whether AI is switched on, and "finally" gives the slot
\* back; the request goes on to the model, unless it came to the endpoint that only asks.
CheckBudget(r) ==
    /\ At(r, "budget")
    /\ active' = IF HoldsSlot(r) THEN active - 1 ELSE active
    /\ End(r) \/ (WithinBudget /\ Goto(r, "model"))
    /\ UNCHANGED <<now, cache, userWindow, orgWindow, usage, started, history>>
-----------------------------------------------------------------------------
(* The model *)

\* Mutant: the counters are declared inside the loop.
Counted_Afresh(job, n) == [job EXCEPT !.step = IF n > 0 THEN "tools" ELSE @]

Counted(job, n) == [job EXCEPT !.step = "tools", !.rounds = @ + 1, !.calls = @ + n]

Exceeds(job, n) == job.rounds >= MaxToolRounds \/ job.calls + n > MaxToolCalls

\* In the loop, the model asks for n tools ...
AsksTools(r) ==
    /\ At(r, "model")
    /\ \E n \in 1..(MaxToolCalls + 1) :
          IF Exceeds(request[r], n) THEN End(r)
          ELSE request' = [request EXCEPT ![r] = Counted(@, n)]
    /\ UNCHANGED <<now, memory, usage, started, history>>

\* ... which are run, and it is called again with what they answered.
RunTools(r) == /\ At(r, "tools")
               /\ Goto(r, "model")
               /\ UNCHANGED <<now, memory, usage, started, history>>

Answer(r) == /\ At(r, "model")
             /\ Goto(r, "record")
             /\ UNCHANGED <<now, memory, usage, started, history>>

\* recordUsage: one row for a request, however often it called the model.
Record(r) == /\ At(r, "record")
             /\ usage' = usage + 1
             /\ End(r)
             /\ UNCHANGED <<now, memory, started, history>>

\* A query or the model throws: the slot is given back, and nothing is recorded.
Throw(r) == /\ request[r] # Idle
            /\ active' = Freed(r)
            /\ End(r)
            /\ UNCHANGED <<now, cache, userWindow, orgWindow, usage, started, history>>
-----------------------------------------------------------------------------
Step(r) == \/ CheckKey(r) \/ Allow(r) \/ Acquire(r) \/ CheckBudget(r)
           \/ AsksTools(r) \/ RunTools(r) \/ Answer(r) \/ Record(r) \/ Throw(r)

Next == Tick \/ Restart \/ \E r \in Requests : Begin(r) \/ Step(r)

Spec == Init /\ [][Next]_vars

\* Awaits are answered, and the process runs what they wake.
FairSpec == Spec /\ \A r \in Requests : WF_vars(Step(r))
-----------------------------------------------------------------------------
(* Properties *)

\* The maps hold times and tickets of requests that were begun, and the counters do not go
\* below zero.
TypeOK ==
    /\ now \in Times
    /\ cache \in [Keys -> Times \cup {Never}]
    /\ userWindow \in [Users -> SUBSET Tickets] /\ orgWindow \in SUBSET Tickets
    /\ active \in Nat
    /\ request \in [Requests -> Job \cup {Idle}]
    /\ usage \in Nat
    /\ started \in 0..MaxStarts
    /\ claims \in SUBSET [n : 1..MaxStarts, key : Keys, at : Times]
    /\ admitted \in SUBSET [n : 1..MaxStarts, user : Users, at : Times]

\* In the minute up to now, one process lets each key pass once, and no more requests of a user
\* or of the organization than the plan allows, whatever overlaps and is pruned meanwhile.
AdmissionsBounded ==
    /\ PerUser > 0 => \A u \in Users : Cardinality({a \in admitted : a.user = u}) <= PerUser
    /\ PerOrg > 0 => Cardinality(admitted) <= PerOrg
    /\ \A c \in claims, d \in claims : c.key = d.key => c = d

\* The slots taken are those of the requests whose budget is being looked at: none is lost
\* when a request is refused or throws, and none is given back twice.
SlotsMatch == active = Cardinality({r \in Requests : HoldsSlot(r)})

\* Overlapping requests all see the usage before any of them is recorded: the month's quota is
\* passed by less than the requests in flight.
BudgetOverrun ==
    MonthRequests > 0 => usage <= MonthRequests - 1 + Cardinality(Requests)

\* A request comes to an end, whatever the model keeps asking for.
RequestsEnd == \A r \in Requests : request[r] # Idle ~> request[r] = Idle
=============================================================================
