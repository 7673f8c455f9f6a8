---------------------------- MODULE VisitLifecycle ----------------------------
(***************************************************************************)
(* The appointments of one customer from booking to recorded visit, and    *)
(* the customer's visit count: the staff requests of AppointmentsService   *)
(* and CustomersService and the cron pass reconcileVisitLifecycle, which   *)
(* works from a list of rows that it read before.  A statement is one      *)
(* action; the completion transaction holds the row's lock, so it is one.  *)
(***************************************************************************)
EXTENDS Naturals, FiniteSets

CONSTANTS Appts,
          Requests,    \* staff requests in flight at once
          Passes,      \* passes of the cron job that may overlap
          Times,       \* the start times staff book
          VisitLength, \* duration and grace, in ticks: an appointment is due after it
          BatchLimit,  \* rows a pass reads
          MaxEdits,    \* bound: staff requests made
          MaxFaults,   \* bound: cron rows or passes that fail
          MaxTime      \* bound: the clock stops here

ASSUME VisitAssumption == /\ Times \subseteq Nat
                          /\ VisitLength \in Nat /\ BatchLimit \in Nat \ {0}
                          /\ MaxEdits \in Nat /\ MaxFaults \in Nat /\ MaxTime \in Nat

VARIABLES now,
          appt,        \* appointments
          visitCount,  \* customers.visitCount
          req,         \* the in-flight requests and what they have read
          pass,        \* rows that each cron pass has read and still has to treat
          counted,     \* history: how often each appointment raised visitCount
          unrecorded,  \* history: how often a reschedule cleared its visitRecordedAt
          visits,      \* history: visits recorded and visits stamped by hand
          edits, faults

history == <<counted, unrecorded, visits>>
budget == <<edits, faults>>
vars == <<now, appt, visitCount, req, pass, history, budget>>
-----------------------------------------------------------------------------
Statuses == {"scheduled", "checked_in", "needs_review", "completed", "missed", "cancelled"}

\* recorded: visitRecordedAt is set.
ApptRow == [status : Statuses, scheduledAt : Times, recorded : BOOLEAN]

Idle == [step |-> "idle"]

Request == {Idle} \cup [step : {"reschedule"}, appt : Appts, to : Times]
                  \cup [step : {"stampVisit"}, visitCount : Nat]

\* What a pass has read of a row.
Candidate == [appt : Appts, status : {"scheduled", "checked_in"}]

IsDue(a) == appt[a].scheduledAt + VisitLength <= now

Init == /\ now = 0
        /\ appt \in [Appts -> [status : {"scheduled"}, scheduledAt : Times, recorded : {FALSE}]]
        /\ visitCount = 0
        /\ req = [r \in Requests |-> Idle]
        /\ pass = [p \in Passes |-> {}]
        /\ counted = [a \in Appts |-> 0]
        /\ unrecorded = [a \in Appts |-> 0]
        /\ visits = 0
        /\ edits = 0 /\ faults = 0
-----------------------------------------------------------------------------
(* completeAppointmentAndRecordVisit *)

\* Mutant: the customer is updated before the early return for a recorded visit.
CompleteVisit_CountsFirst(a) ==
    /\ visitCount' = visitCount + 1
    /\ IF appt[a].status = "completed" \/ appt[a].recorded
       THEN UNCHANGED <<appt, counted, visits>>
       ELSE /\ appt' = [appt EXCEPT ![a].status = "completed", ![a].recorded = TRUE]
            /\ counted' = [counted EXCEPT ![a] = @ + 1] /\ visits' = visits + 1

\* Mutant: only the status tells whether the visit is recorded.
CompleteVisit_ByStatus(a) ==
    IF appt[a].status = "completed"
    THEN UNCHANGED <<appt, visitCount, counted, visits>>
    ELSE /\ appt' = [appt EXCEPT ![a].status = "completed", ![a].recorded = TRUE]
         /\ visitCount' = visitCount + 1
         /\ counted' = [counted EXCEPT ![a] = @ + 1] /\ visits' = visits + 1

\* A visit that is already recorded is left as it is, whatever its status is now.
CompleteVisit(a) ==
    IF appt[a].status = "completed" \/ appt[a].recorded
    THEN UNCHANGED <<appt, visitCount, counted, visits>>
    ELSE /\ appt' = [appt EXCEPT ![a].status = "completed", ![a].recorded = TRUE]
         /\ visitCount' = visitCount + 1
         /\ counted' = [counted EXCEPT ![a] = @ + 1] /\ visits' = visits + 1
-----------------------------------------------------------------------------
(* Staff *)

Edit == edits < MaxEdits /\ edits' = edits + 1

\* update with a new time: the row is read, and refused when the visit is recorded ...
RescheduleBegin(r, a, t) ==
    /\ Edit
    /\ req[r] = Idle
    /\ ~appt[a].recorded
    /\ req' = [req EXCEPT ![r] = [step |-> "reschedule", appt |-> a, to |-> t]]
    /\ UNCHANGED <<now, appt, visitCount, pass, history, faults>>

\* ... and then written by id: scheduled again, its visit forgotten.
RescheduleWrite(r) ==
    /\ req[r].step = "reschedule"
    /\ LET a == req[r].appt IN
         /\ appt' = [appt EXCEPT ![a] = [status |-> "scheduled", scheduledAt |-> req[r].to,
                                         recorded |-> FALSE]]
         /\ unrecorded' = [unrecorded EXCEPT ![a] = IF appt[a].recorded THEN @ + 1 ELSE @]
    /\ req' = [req EXCEPT ![r] = Idle]
    /\ UNCHANGED <<now, visitCount, pass, counted, visits, budget>>

\* updateStatus to anything but completed: whatever the status was.
UpdateStatus(a, status) ==
    /\ Edit
    /\ appt' = [appt EXCEPT ![a].status = status]
    /\ UNCHANGED <<now, visitCount, req, pass, history, faults>>

\* Mutant: a cancelled or missed appointment can be completed.
StaffCompletes_Any(a) ==
    /\ Edit
    /\ CompleteVisit(a)
    /\ UNCHANGED <<now, req, pass, unrecorded, faults>>

\* updateStatus to completed.
StaffCompletes(a) ==
    /\ Edit
    /\ appt[a].status \notin {"cancelled", "missed"}
    /\ CompleteVisit(a)
    /\ UNCHANGED <<now, req, pass, unrecorded, faults>>

\* The condition is part of the update.
MarkArrived(a) ==
    /\ Edit
    /\ appt[a].status \in {"scheduled", "needs_review"}
    /\ appt' = [appt EXCEPT ![a].status = "checked_in"]
    /\ UNCHANGED <<now, visitCount, req, pass, history, faults>>

\* stampVisit, a visit without appointment: the count is read ...
StampBegin(r) ==
    /\ Edit
    /\ req[r] = Idle
    /\ req' = [req EXCEPT ![r] = [step |-> "stampVisit", visitCount |-> visitCount]]
    /\ UNCHANGED <<now, appt, visitCount, pass, history, faults>>

\* ... and one more than it was is written.
StampWrite(r) ==
    /\ req[r].step = "stampVisit"
    /\ visitCount' = req[r].visitCount + 1
    /\ visits' = visits + 1
    /\ req' = [req EXCEPT ![r] = Idle]
    /\ UNCHANGED <<now, appt, pass, counted, unrecorded, budget>>
-----------------------------------------------------------------------------
(* reconcileVisitLifecycle *)

\* Mutant: checked-in rows are not read.
Candidates_ScheduledOnly == {a \in Appts : /\ appt[a].status = "scheduled"
                                           /\ appt[a].scheduledAt <= now}

\* Mutant: rows are read by their time only.
Candidates_AnyStatus == {a \in Appts : appt[a].scheduledAt <= now}

Candidates == {a \in Appts : /\ appt[a].status \in {"scheduled", "checked_in"}
                             /\ appt[a].scheduledAt <= now}

\* A pass reads a batch of rows and keeps those whose deadline has passed by its clock.
PassReads(p) ==
    /\ pass[p] = {}
    /\ \E batch \in SUBSET Candidates :
         /\ Cardinality(batch) <= BatchLimit
         /\ Cardinality(batch) = BatchLimit \/ batch = Candidates
         /\ pass' = [pass EXCEPT ![p] = {[appt |-> a, status |-> appt[a].status] :
                                           a \in {b \in batch : IsDue(b)}}]
    /\ UNCHANGED <<now, appt, visitCount, req, history, budget>>

\* A row read as checked in is completed if it still is.
PassCompletes(p, c) ==
    /\ c \in pass[p] /\ c.status = "checked_in"
    /\ IF appt[c.appt].status = "checked_in"
       THEN CompleteVisit(c.appt)
       ELSE UNCHANGED <<appt, visitCount, counted, visits>>
    /\ pass' = [pass EXCEPT ![p] = @ \ {c}]
    /\ UNCHANGED <<now, req, unrecorded, budget>>

\* A row read as scheduled goes to review if it still is; its time is not read again.
PassSendsToReview(p, c) ==
    /\ c \in pass[p] /\ c.status = "scheduled"
    /\ appt' = IF appt[c.appt].status = "scheduled"
               THEN [appt EXCEPT ![c.appt].status = "needs_review"]
               ELSE appt
    /\ pass' = [pass EXCEPT ![p] = @ \ {c}]
    /\ UNCHANGED <<now, visitCount, req, history, budget>>

PassStep(p) == \/ PassReads(p)
               \/ \E c \in pass[p] : PassCompletes(p, c) \/ PassSendsToReview(p, c)

\* A row's statement fails, which is logged; or the process stops and with it the pass.
PassFails(p) ==
    /\ faults < MaxFaults
    /\ faults' = faults + 1
    /\ \E rest \in {{}} \cup {pass[p] \ {c} : c \in pass[p]} :
         /\ rest # pass[p]
         /\ pass' = [pass EXCEPT ![p] = rest]
    /\ UNCHANGED <<now, appt, visitCount, req, history, edits>>
-----------------------------------------------------------------------------
Abort(r) == /\ req[r] # Idle
            /\ req' = [req EXCEPT ![r] = Idle]
            /\ UNCHANGED <<now, appt, visitCount, pass, history, budget>>

Tick == /\ now < MaxTime
        /\ now' = now + 1
        /\ UNCHANGED <<appt, visitCount, req, pass, history, budget>>

StaffStep(a) == \/ \E status \in {"scheduled", "missed", "cancelled"} : UpdateStatus(a, status)
                \/ StaffCompletes(a)
                \/ MarkArrived(a)

RequestStep(r) == \/ \E a \in Appts, t \in Times : RescheduleBegin(r, a, t)
                  \/ RescheduleWrite(r)
                  \/ StampBegin(r)
                  \/ StampWrite(r)
                  \/ Abort(r)

Next == \/ \E a \in Appts : StaffStep(a)
        \/ \E r \in Requests : RequestStep(r)
        \/ \E p \in Passes : PassStep(p) \/ PassFails(p)
        \/ Tick

Spec == Init /\ [][Next]_vars

\* The scheduler starts a pass every five minutes and a pass goes through its rows.
\* Nothing makes staff, the clock or a failure act.
FairSpec == Spec /\ \A p \in Passes : WF_vars(PassStep(p))
-----------------------------------------------------------------------------
(* Properties *)

TypeOK == /\ now \in 0 .. MaxTime
          /\ appt \in [Appts -> ApptRow]
          /\ visitCount \in Nat
          /\ req \in [Requests -> Request]
          /\ pass \in [Passes -> SUBSET Candidate]
          /\ counted \in [Appts -> Nat] /\ unrecorded \in [Appts -> Nat] /\ visits \in Nat
          /\ edits \in 0 .. MaxEdits /\ faults \in 0 .. MaxFaults

\* A visit is counted when it is recorded and at no other time, so an appointment
\* counts once for as long as nothing clears visitRecordedAt: not twice when staff,
\* two cron passes and status changes back and forth complete it together.
VisitsAccounted ==
    \A a \in Appts : counted[a] = unrecorded[a] + (IF appt[a].recorded THEN 1 ELSE 0)

\* The customer's count never exceeds the visits there were: overlapping stamps and
\* completions lose counts, but none is made up.
CountNotInflated == visitCount <= visits

\* No appointment that staff cancelled or marked missed raises the count, though a
\* cron pass may still have it on its list as checked in.
NoVisitForCancelled ==
    [][\A a \in Appts : counted'[a] > counted[a] =>
           appt[a].status \notin {"cancelled", "missed"}]_vars

Open(a) == appt[a].status \in {"scheduled", "checked_in"}

\* An appointment past its deadline whose visit is not recorded is completed, sent to
\* review or moved in the end, in spite of failing passes and changes under their feet.
DueRowsSettle ==
    \A a \in Appts : (IsDue(a) /\ Open(a) /\ ~appt[a].recorded) ~> ~(IsDue(a) /\ Open(a))
=============================================================================
