------------------------- MODULE VisitLifecycleProofs -------------------------
(***************************************************************************)
(* Proofs about VisitLifecycle, for any appointments, requests, overlapping *)
(* cron passes and times; and about AssistantConfirm, which extends it, for *)
(* any tokens and confirmations: that the assistant takes only steps of    *)
(* staff, so that what holds of their appointments still holds with it.    *)
(***************************************************************************)
EXTENDS AssistantConfirm, TLAPS

USE DEF Idle

\* What a stamp in flight has read does not exceed the visits there have been.
StampsBehind == \A r \in Requests : req[r].step = "stampVisit" => req[r].visitCount <= visits

Inv == TypeOK /\ VisitsAccounted /\ CountNotInflated /\ StampsBehind

LEMMA InvInit == Init => Inv
  <1> SUFFICES ASSUME Init PROVE Inv
      OBVIOUS
  <1>1. appt \in [Appts -> ApptRow] /\ \A a \in Appts : appt[a].recorded = FALSE
        BY DEF Init, ApptRow, Statuses
  <1>2. req \in [Requests -> Request] /\ pass \in [Passes -> SUBSET Candidate]
        BY DEF Init, Request
  <1>3. TypeOK
        BY <1>1, <1>2, VisitAssumption DEF Init, TypeOK
  <1>4. VisitsAccounted
        BY <1>1 DEF Init, VisitsAccounted
  <1>5. CountNotInflated /\ StampsBehind
        BY DEF Init, CountNotInflated, StampsBehind
  <1>6. QED
        BY <1>3, <1>4, <1>5 DEF Inv

\* What a completion, by staff or by a pass, does to the counts.
LEMMA CompleteVisitCounts ==
    ASSUME Inv, NEW a \in Appts, CompleteVisit(a)
    PROVE  /\ appt' \in [Appts -> ApptRow] /\ visitCount' \in Nat
           /\ counted' \in [Appts -> Nat] /\ visits' \in Nat
           /\ visitCount' <= visits' /\ visits <= visits'
           /\ \A b \in Appts \ {a} : appt'[b] = appt[b] /\ counted'[b] = counted[b]
           /\ counted'[a] - counted[a] = (IF appt'[a].recorded THEN 1 ELSE 0)
                                           - (IF appt[a].recorded THEN 1 ELSE 0)
  <1> USE DEF Inv, TypeOK, CountNotInflated, ApptRow
  <1>1. CASE appt[a].status = "completed" \/ appt[a].recorded
        BY <1>1 DEF CompleteVisit
  <1>2. CASE ~(appt[a].status = "completed" \/ appt[a].recorded)
    <2>1. /\ appt' = [appt EXCEPT ![a].status = "completed", ![a].recorded = TRUE]
          /\ visitCount' = visitCount + 1 /\ visits' = visits + 1
          /\ counted' = [counted EXCEPT ![a] = @ + 1]
          BY <1>2 DEF CompleteVisit
    <2>2. appt[a].recorded = FALSE
          BY <1>2
    <2>3. appt' \in [Appts -> ApptRow] /\ appt'[a].recorded = TRUE
          BY <2>1 DEF Statuses
    <2>4. QED
          BY <2>1, <2>2, <2>3
  <1>3. QED
        BY <1>1, <1>2

\* The steps that do not touch the counts.
LEMMA Uncounted ==
    ASSUME Inv, TypeOK', UNCHANGED <<visitCount, history>>,
           \A a \in Appts : appt'[a].recorded = appt[a].recorded,
           \A r \in Requests : req'[r].step = "stampVisit" =>
               req'[r] = req[r] \/ req'[r].visitCount = visitCount
    PROVE  Inv'
  <1>1. VisitsAccounted'
        BY DEF Inv, VisitsAccounted, history
  <1>2. CountNotInflated' /\ StampsBehind'
        BY DEF Inv, CountNotInflated, StampsBehind, history
  <1>3. QED
        BY <1>1, <1>2 DEF Inv

\* The steps that complete an appointment.
LEMMA CompletionCounted ==
    ASSUME Inv, TypeOK', NEW a \in Appts, CompleteVisit(a), UNCHANGED <<req, unrecorded>>
    PROVE  Inv'
  <1>1. ASSUME NEW b \in Appts
        PROVE  counted'[b] = unrecorded'[b] + (IF appt'[b].recorded THEN 1 ELSE 0)
        BY CompleteVisitCounts DEF Inv, TypeOK, VisitsAccounted
  <1>2. CountNotInflated'
        BY CompleteVisitCounts DEF CountNotInflated
  <1>3. ASSUME NEW r \in Requests, req[r].step = "stampVisit"
        PROVE  req[r].visitCount <= visits'
    <2>1. req[r].visitCount \in Nat /\ req[r].visitCount <= visits
          BY <1>3 DEF Inv, TypeOK, StampsBehind, Request
    <2>2. visits \in Nat /\ visits' \in Nat /\ visits <= visits'
          BY CompleteVisitCounts DEF Inv, TypeOK
    <2>3. QED
          BY <2>1, <2>2
  <1>4. QED
        BY <1>1, <1>2, <1>3 DEF Inv, VisitsAccounted, StampsBehind

LEMMA TypeNext == Inv /\ [Next]_vars => TypeOK'
  <1> SUFFICES ASSUME Inv, [Next]_vars PROVE TypeOK'
      OBVIOUS
  <1> USE VisitAssumption DEF TypeOK, ApptRow, Statuses, Request, Candidate, Edit,
      history, budget
  <1>0. TypeOK
        BY DEF Inv
  <1>1. ASSUME NEW a \in Appts, StaffStep(a) PROVE TypeOK'
    <2>1. ASSUME NEW status \in {"scheduled", "missed", "cancelled"}, UpdateStatus(a, status)
          PROVE  TypeOK'
          BY <1>0, <2>1 DEF UpdateStatus
    <2>2. CASE StaffCompletes(a)
          BY <1>0, <2>2, CompleteVisitCounts DEF StaffCompletes
    <2>3. CASE MarkArrived(a)
          BY <1>0, <2>3 DEF MarkArrived
    <2>4. QED
          BY <1>1, <2>1, <2>2, <2>3 DEF StaffStep
  <1>2. ASSUME NEW r \in Requests, RequestStep(r) PROVE TypeOK'
    <2>1. ASSUME NEW a \in Appts, NEW t \in Times, RescheduleBegin(r, a, t) PROVE TypeOK'
          BY <1>0, <2>1 DEF RescheduleBegin
    <2>2. CASE RescheduleWrite(r)
      <3>1. req[r].appt \in Appts /\ req[r].to \in Times
            BY <1>0, <2>2 DEF RescheduleWrite
      <3>2. appt' \in [Appts -> ApptRow]
            BY <1>0, <2>2, <3>1 DEF RescheduleWrite
      <3>3. unrecorded' \in [Appts -> Nat]
            BY <1>0, <2>2, <3>1 DEF RescheduleWrite
      <3>4. QED
            BY <1>0, <2>2, <3>2, <3>3 DEF RescheduleWrite
    <2>3. CASE StampBegin(r)
          BY <1>0, <2>3 DEF StampBegin
    <2>4. CASE StampWrite(r)
          BY <1>0, <2>4 DEF StampWrite
    <2>5. CASE Abort(r)
          BY <1>0, <2>5 DEF Abort
    <2>6. QED
          BY <1>2, <2>1, <2>2, <2>3, <2>4, <2>5 DEF RequestStep
  <1>3. ASSUME NEW p \in Passes, PassStep(p) PROVE TypeOK'
    <2>1. CASE PassReads(p)
      <3>1. PICK batch \in SUBSET Candidates :
                pass' = [pass EXCEPT ![p] = {[appt |-> a, status |-> appt[a].status] :
                                               a \in {b \in batch : IsDue(b)}}]
            BY <2>1 DEF PassReads
      <3>2. \A a \in batch : a \in Appts /\ appt[a].status \in {"scheduled", "checked_in"}
            BY DEF Candidates
      <3>3. {[appt |-> a, status |-> appt[a].status] : a \in {b \in batch : IsDue(b)}}
              \in SUBSET Candidate
            BY <3>2
      <3>4. QED
            BY <1>0, <2>1, <3>1, <3>3 DEF PassReads
    <2>2. ASSUME NEW c \in pass[p], PassCompletes(p, c) PROVE TypeOK'
      <3>1. c.appt \in Appts /\ pass' \in [Passes -> SUBSET Candidate]
            BY <1>0, <2>2 DEF PassCompletes
      <3>2. CASE appt[c.appt].status = "checked_in"
            BY <1>0, <2>2, <3>1, <3>2, CompleteVisitCounts DEF PassCompletes
      <3>3. CASE appt[c.appt].status # "checked_in"
            BY <1>0, <2>2, <3>1, <3>3 DEF PassCompletes
      <3>4. QED
            BY <3>2, <3>3
    <2>3. ASSUME NEW c \in pass[p], PassSendsToReview(p, c) PROVE TypeOK'
          BY <1>0, <2>3 DEF PassSendsToReview
    <2>4. QED
          BY <1>3, <2>1, <2>2, <2>3 DEF PassStep
  <1>4. ASSUME NEW p \in Passes, PassFails(p) PROVE TypeOK'
    <2>1. pass' \in [Passes -> SUBSET Candidate]
          BY <1>0, <1>4 DEF PassFails
    <2>2. QED
          BY <1>0, <1>4, <2>1 DEF PassFails
  <1>5. CASE Tick
        BY <1>0, <1>5 DEF Tick
  <1>6. CASE UNCHANGED vars
        BY <1>0, <1>6 DEF vars
  <1>7. QED
        BY <1>1, <1>2, <1>3, <1>4, <1>5, <1>6 DEF Next

LEMMA InvNext == Inv /\ [Next]_vars => Inv'
  <1> SUFFICES ASSUME Inv, [Next]_vars PROVE Inv'
      OBVIOUS
  <1> USE DEF Edit
  <1>0. TypeOK /\ TypeOK'
        BY TypeNext DEF Inv
  <1>1. ASSUME NEW a \in Appts, StaffStep(a) PROVE Inv'
    <2>1. ASSUME NEW status \in {"scheduled", "missed", "cancelled"}, UpdateStatus(a, status)
          PROVE  Inv'
          BY <1>0, <2>1, Uncounted DEF UpdateStatus, TypeOK, ApptRow
    <2>2. CASE StaffCompletes(a)
          BY <1>0, <2>2, CompletionCounted DEF StaffCompletes
    <2>3. CASE MarkArrived(a)
          BY <1>0, <2>3, Uncounted DEF MarkArrived, TypeOK, ApptRow
    <2>4. QED
          BY <1>1, <2>1, <2>2, <2>3 DEF StaffStep
  <1>2. ASSUME NEW r \in Requests, RequestStep(r) PROVE Inv'
    <2>1. ASSUME NEW a \in Appts, NEW t \in Times, RescheduleBegin(r, a, t) PROVE Inv'
          BY <1>0, <2>1, Uncounted DEF RescheduleBegin, TypeOK
    <2>2. CASE RescheduleWrite(r)
      <3>1. req[r].appt \in Appts
            BY <1>0, <2>2 DEF RescheduleWrite, TypeOK, Request
      <3>2. ASSUME NEW b \in Appts
            PROVE  counted'[b] = unrecorded'[b] + (IF appt'[b].recorded THEN 1 ELSE 0)
        <4>1. counted'[b] = counted[b] /\ counted[b] \in Nat /\ unrecorded[b] \in Nat
              BY <1>0, <2>2 DEF RescheduleWrite, TypeOK
        <4>2. CASE b = req[r].appt
              BY <1>0, <2>2, <4>1, <4>2
              DEF RescheduleWrite, Inv, VisitsAccounted, TypeOK
        <4>3. CASE b # req[r].appt
              BY <1>0, <2>2, <3>1, <4>1, <4>3
              DEF RescheduleWrite, Inv, VisitsAccounted, TypeOK
        <4>4. QED
              BY <4>2, <4>3
      <3>3. CountNotInflated' /\ StampsBehind'
            BY <1>0, <2>2 DEF RescheduleWrite, Inv, CountNotInflated, StampsBehind, TypeOK
      <3>4. QED
            BY <1>0, <3>2, <3>3 DEF Inv, VisitsAccounted
    <2>3. CASE StampBegin(r)
          BY <1>0, <2>3, Uncounted DEF StampBegin, TypeOK
    <2>4. CASE StampWrite(r)
      <3>1. req[r].visitCount \in Nat /\ req[r].visitCount <= visits /\ visits \in Nat
            BY <1>0, <2>4 DEF StampWrite, Inv, StampsBehind, TypeOK, Request
      <3>2. CountNotInflated'
            BY <2>4, <3>1 DEF StampWrite, CountNotInflated
      <3>3. ASSUME NEW q \in Requests, req'[q].step = "stampVisit"
            PROVE  req'[q].visitCount <= visits'
        <4>1. req'[q] = req[q] /\ req[q].visitCount \in Nat /\ req[q].visitCount <= visits
              BY <1>0, <2>4, <3>3 DEF StampWrite, Inv, StampsBehind, TypeOK, Request
        <4>2. QED
              BY <2>4, <3>1, <4>1 DEF StampWrite
      <3>4. VisitsAccounted'
            BY <2>4 DEF StampWrite, Inv, VisitsAccounted
      <3>5. QED
            BY <1>0, <3>2, <3>3, <3>4 DEF Inv, StampsBehind
    <2>5. CASE Abort(r)
          BY <1>0, <2>5, Uncounted DEF Abort, TypeOK
    <2>6. QED
          BY <1>2, <2>1, <2>2, <2>3, <2>4, <2>5 DEF RequestStep
  <1>3. ASSUME NEW p \in Passes, PassStep(p) PROVE Inv'
    <2>1. CASE PassReads(p)
          BY <1>0, <2>1, Uncounted DEF PassReads, TypeOK
    <2>2. ASSUME NEW c \in pass[p], PassCompletes(p, c) PROVE Inv'
      <3>1. c.appt \in Appts
            BY <1>0, <2>2 DEF TypeOK, Candidate
      <3>2. CASE appt[c.appt].status = "checked_in"
            BY <1>0, <2>2, <3>1, <3>2, CompletionCounted DEF PassCompletes
      <3>3. CASE appt[c.appt].status # "checked_in"
            BY <1>0, <2>2, <3>3, Uncounted DEF PassCompletes, TypeOK, history
      <3>4. QED
            BY <3>2, <3>3
    <2>3. ASSUME NEW c \in pass[p], PassSendsToReview(p, c) PROVE Inv'
          BY <1>0, <2>3, Uncounted DEF PassSendsToReview, TypeOK, ApptRow
    <2>4. QED
          BY <1>3, <2>1, <2>2, <2>3 DEF PassStep
  <1>4. ASSUME NEW p \in Passes, PassFails(p) PROVE Inv'
        BY <1>0, <1>4, Uncounted DEF PassFails
  <1>5. CASE Tick \/ UNCHANGED vars
        BY <1>0, <1>5, Uncounted DEF Tick, vars
  <1>6. QED
        BY <1>1, <1>2, <1>3, <1>4, <1>5 DEF Next

\* The tables, the requests and the passes keep their types.
THEOREM TypeCorrect == Spec => []TypeOK
  <1>1. Inv => TypeOK
        BY DEF Inv
  <1>2. QED
        BY <1>1, InvInit, InvNext, PTL DEF Spec

\* However completions overlap, an appointment has raised the visit count once for every
\* time its visit was recorded.
THEOREM VisitsAreAccounted == Spec => []VisitsAccounted
  <1>1. Inv => VisitsAccounted
        BY DEF Inv
  <1>2. QED
        BY <1>1, InvInit, InvNext, PTL DEF Spec

\* The visit count never exceeds the visits there were.
THEOREM CountsNotInflated == Spec => []CountNotInflated
  <1>1. Inv => CountNotInflated
        BY DEF Inv
  <1>2. QED
        BY <1>1, InvInit, InvNext, PTL DEF Spec

\* No step counts a visit of an appointment that is cancelled or missed.
LEMMA NoCountStep ==
    ASSUME Inv, [Next]_vars, NEW a \in Appts, appt[a].status \in {"cancelled", "missed"}
    PROVE  counted'[a] = counted[a]
  <1> USE DEF Inv, TypeOK, history
  <1>1. ASSUME NEW b \in Appts, b # a, CompleteVisit(b) PROVE counted'[a] = counted[a]
        BY <1>1, CompleteVisitCounts
  <1>2. ASSUME NEW b \in Appts, StaffStep(b) PROVE counted'[a] = counted[a]
        BY <1>1, <1>2 DEF StaffStep, UpdateStatus, StaffCompletes, MarkArrived
  <1>3. ASSUME NEW r \in Requests, RequestStep(r) PROVE counted'[a] = counted[a]
        BY <1>3 DEF RequestStep, RescheduleBegin, RescheduleWrite, StampBegin, StampWrite,
           Abort
  <1>4. ASSUME NEW p \in Passes, NEW c \in pass[p], PassCompletes(p, c)
        PROVE  counted'[a] = counted[a]
        BY <1>1, <1>4 DEF PassCompletes, Candidate
  <1>5. ASSUME NEW p \in Passes, PassStep(p) PROVE counted'[a] = counted[a]
        BY <1>4, <1>5 DEF PassStep, PassReads, PassSendsToReview
  <1>6. ASSUME \/ \E p \in Passes : PassFails(p)
               \/ Tick
               \/ UNCHANGED vars
        PROVE  counted'[a] = counted[a]
        BY <1>6 DEF PassFails, Tick, vars
  <1>7. QED
        BY <1>2, <1>3, <1>5, <1>6 DEF Next

\* An appointment that is cancelled or missed does not raise the count, not even through
\* a cron pass that read it as checked in.
THEOREM CancelledNotCounted == Spec => NoVisitForCancelled
  <1>1. Inv /\ [Next]_vars => [\A a \in Appts : counted'[a] > counted[a] =>
                                  appt[a].status \notin {"cancelled", "missed"}]_vars
    <2> SUFFICES ASSUME Inv, [Next]_vars, NEW a \in Appts, counted'[a] > counted[a]
                 PROVE  appt[a].status \notin {"cancelled", "missed"}
        OBVIOUS
    <2>1. counted[a] \in Nat
          BY DEF Inv, TypeOK
    <2>2. QED
          BY <2>1, NoCountStep
  <1>2. QED
        BY <1>1, InvInit, InvNext, PTL DEF Spec, NoVisitForCancelled
-----------------------------------------------------------------------------
(* AssistantConfirm *)

\* The change of p is found in what a confirmation compares, an empty text as it is stored:
\* writing it again would leave that as it is.
Shown(p, seen) ==
    IF p.action = "update_customer"
    THEN \A k \in DOMAIN p.changes : seen[k] = Stored(k, p.changes[k])
    ELSE seen.scheduledAt = p.to /\ p.notes \in {Unsaid, seen.notes} /\ ~seen.recorded

\* No token empties a column that is never empty.
NamesKept ==
    \A t \in Tokens : token[t].action = "update_customer" =>
        \A k \in Required \cap DOMAIN token[t].changes : token[t].changes[k] # Blank

\* A confirmation is of its token's kind, and one that has read the appointment holds a
\* request of staff for the appointment and the time of its token.
ConfirmsMatch ==
    \A q \in Confirms : confirm[q] # Idle =>
        LET p == token[confirm[q].token] IN
        /\ confirm[q].step = "update_customer" <=> p.action = "update_customer"
        /\ confirm[q].step = "write" =>
              req[q] = [step |-> "reschedule", appt |-> p.appt, to |-> p.to]
        /\ confirm[q].again => confirm[q].step = "update_customer"

\* A token in effect shows.  So a confirmation of an appointment would be found changed in place.
InEffectShown == \A t \in inEffect : Shown(token[t], Current(token[t]))

AssistantInv ==
    /\ AssistantTypeOK
    /\ token \in [Tokens -> {NoToken} \cup ApptToken \cup CustomerToken]
    /\ NamesKept /\ ConfirmsMatch /\ InEffectShown

\* What a confirmation in flight is about.
LEMMA ConfirmHolds ==
    ASSUME AssistantInv, NEW q \in Confirms, confirm[q] # Idle
    PROVE  LET t == confirm[q].token IN
           /\ t \in Tokens /\ q \in Requests
           /\ confirm[q].step \in {"update_customer", "reschedule_appointment", "write"}
           /\ IF confirm[q].step = "update_customer"
              THEN token[t] \in CustomerToken
              ELSE token[t] \in ApptToken
  <1> DEFINE p == token[confirm[q].token]
  <1>1. /\ confirm[q].token \in Tokens /\ q \in Requests
        /\ confirm[q].step \in {"update_customer", "reschedule_appointment", "write"}
        /\ p # NoToken
        BY AssistantAssumption DEF AssistantInv, AssistantTypeOK
  <1>2. p \in ApptToken \cup CustomerToken
        BY <1>1 DEF AssistantInv
  <1>3. confirm[q].step = "update_customer" <=> p.action = "update_customer"
        BY DEF AssistantInv, ConfirmsMatch
  <1>4. QED
        BY <1>1, <1>2, <1>3 DEF ApptToken, CustomerToken

\* To the appointments, every step with the assistant is one of staff, cron or clock, or none.
LEMMA StepOfStaff == AssistantInv /\ [AssistantNext]_assistantVars => [Next]_vars
  <1> SUFFICES ASSUME AssistantInv, [AssistantNext]_assistantVars PROVE [Next]_vars
      OBVIOUS
  <1>1. ASSUME NEW t \in Tokens, ProposeUpdate(t) \/ ProposeReschedule(t)
        PROVE  UNCHANGED vars
        BY <1>1 DEF ProposeUpdate, ProposeReschedule, Issue
  <1>2. ASSUME NEW q \in Confirms, ConfirmStep(q) PROVE [Next]_vars
    <2>1. q \in Requests
          BY AssistantAssumption
    <2>2. ASSUME NEW t \in Tokens, Confirm(q, t) \/ UpdateCustomer(q, t)
          PROVE  UNCHANGED vars
          BY <2>2 DEF Confirm, UpdateCustomer
    <2>3. ASSUME NEW t \in Tokens, UpdateWrites(q, t) PROVE Next
      <3>1. RescheduleWrite(q)
            BY <2>3 DEF UpdateWrites
      <3>2. QED
            BY <2>1, <3>1 DEF RequestStep, Next
    <2>4. CASE UpdateReads(q)
      <3> DEFINE p == token[confirm[q].token]
      <3>1. p \in ApptToken
            BY <2>4, ConfirmHolds DEF UpdateReads
      <3>2. p.appt \in Appts /\ p.to \in Times /\ RescheduleBegin(q, p.appt, p.to)
            BY <2>4, <3>1 DEF UpdateReads, ApptToken
      <3>3. RequestStep(q)
            BY <3>2 DEF RequestStep
      <3>4. QED
            BY <2>1, <3>3 DEF Next
    <2>5. CASE UpdateRefuses(q)
          BY <2>5 DEF UpdateRefuses
    <2>6. CASE Drop(q)
      <3>1. Abort(q) \/ UNCHANGED vars
            BY <2>6 DEF Drop
      <3>2. QED
            BY <2>1, <3>1 DEF RequestStep, Next
    <2>7. QED
          BY <1>2, <2>2, <2>3, <2>4, <2>5, <2>6 DEF ConfirmStep
  <1>3. CASE EditCustomer
        BY <1>3 DEF EditCustomer
  <1>4. CASE EditNotes
    <2>1. UNCHANGED vars \/ \E r \in Requests : RescheduleWrite(r)
          BY <1>4 DEF EditNotes
    <2>2. QED
          BY <2>1 DEF RequestStep, Next
  <1>5. CASE VisitsGoOn
        BY <1>5 DEF VisitsGoOn, VisitStep, Next
  <1>6. CASE UNCHANGED assistantVars
        BY <1>6 DEF assistantVars
  <1>7. QED
        BY <1>1, <1>2, <1>3, <1>4, <1>5, <1>6 DEF AssistantNext

LEMMA AssistantInvInit == AssistantInit => AssistantInv
  <1> SUFFICES ASSUME AssistantInit PROVE AssistantInv
      OBVIOUS
  <1>1. TypeOK
        BY InvInit DEF AssistantInit, Inv
  <1>2. AssistantTypeOK
        BY <1>1, AssistantAssumption DEF AssistantInit, AssistantTypeOK, Notes
  <1>3. token \in [Tokens -> {NoToken} \cup ApptToken \cup CustomerToken]
        BY DEF AssistantInit
  <1>4. NamesKept /\ ConfirmsMatch /\ InEffectShown
        BY DEF AssistantInit, NamesKept, ConfirmsMatch, InEffectShown, NoToken
  <1>5. QED
        BY <1>2, <1>3, <1>4 DEF AssistantInv

\* A token that stays in effect shows as before.
LEMMA StillShown ==
    ASSUME AssistantInv, UNCHANGED token, NEW t \in StillInEffect
    PROVE  t \in inEffect /\ Shown(token'[t], Current(token[t])')
  BY DEF StillInEffect, AssistantInv, InEffectShown, Shown

\* The steps that are no confirmation's.
LEMMA OthersStep ==
    ASSUME AssistantInv, TypeOK', UNCHANGED <<token, confirm>>,
           notes' \in [Appts -> Notes],
           customer' \in Profile, \A k \in Required : customer'[k] # Null,
           profileEdits' \in 0 .. MaxProfileEdits,
           inEffect' = StillInEffect,
           \A q \in Confirms : req'[q] = req[q]
    PROVE  AssistantInv'
  <1>1. AssistantTypeOK'
        BY DEF AssistantInv, AssistantTypeOK, StillInEffect
  <1>2. NamesKept' /\ ConfirmsMatch'
        BY DEF AssistantInv, NamesKept, ConfirmsMatch
  <1>3. InEffectShown'
        BY StillShown DEF InEffectShown
  <1>4. QED
        BY <1>1, <1>2, <1>3 DEF AssistantInv

\* A proposal: a new token is in nobody's hands.
LEMMA IssueStep ==
    ASSUME AssistantInv, TypeOK', NEW t \in Tokens, NEW p, Issue(t, p),
           p \in ApptToken \cup CustomerToken,
           p.action = "update_customer" =>
               \A k \in Required \cap DOMAIN p.changes : p.changes[k] # Blank
    PROVE  AssistantInv'
  <1> USE DEF Issue, vars
  <1>1. /\ token[t] = NoToken /\ token' = [token EXCEPT ![t] = p]
        /\ token \in [Tokens -> {NoToken} \cup ApptToken \cup CustomerToken]
        BY DEF AssistantInv
  <1>2. /\ token' \in [Tokens -> {NoToken} \cup ApptToken \cup CustomerToken]
        /\ token'[t] = p /\ \A u \in Tokens \ {t} : token'[u] = token[u]
        BY <1>1
  <1>3. p # NoToken
        BY DEF NoToken, ApptToken, CustomerToken
  <1>4. \A u \in inEffect : u \in Tokens /\ u # t
        BY <1>1 DEF AssistantInv, AssistantTypeOK
  <1>5. \A q \in Confirms : confirm[q] # Idle =>
            confirm[q].token \in Tokens /\ confirm[q].token # t
        BY <1>1, ConfirmHolds DEF AssistantInv, AssistantTypeOK
  <1>6. AssistantTypeOK'
    <2>1. \A u \in Tokens : token'[u] \in {NoToken} \cup ApptToken \/ token'[u] \in CustomerToken
          BY <1>2
    <2>2. \A q \in Confirms : confirm'[q] # Idle => token'[confirm'[q].token] # NoToken
          BY <1>2, <1>5 DEF AssistantInv, AssistantTypeOK
    <2>3. inEffect' \subseteq {u \in Tokens : token'[u] # NoToken}
          BY <1>2, <1>4 DEF AssistantInv, AssistantTypeOK
    <2>4. QED
          BY <2>1, <2>2, <2>3 DEF AssistantInv, AssistantTypeOK
  <1>7. NamesKept'
        BY <1>2 DEF AssistantInv, NamesKept
  <1>8. ConfirmsMatch'
        BY <1>2, <1>5 DEF AssistantInv, ConfirmsMatch
  <1>9. InEffectShown'
    <2> SUFFICES ASSUME NEW u \in inEffect PROVE Shown(token'[u], Current(token[u])')
        BY DEF InEffectShown
    <2>1. token'[u] = token[u] /\ Shown(token[u], Current(token[u]))
          BY <1>2, <1>4 DEF AssistantInv, InEffectShown
    <2>2. Current(token[u])' = Current(token[u])
          BY <2>1 DEF Current
    <2>3. QED
          BY <2>1, <2>2
  <1>10. QED
        BY <1>2, <1>6, <1>7, <1>8, <1>9 DEF AssistantInv

LEMMA ProposalStep ==
    ASSUME AssistantInv, TypeOK', NEW t \in Tokens, ProposeUpdate(t) \/ ProposeReschedule(t)
    PROVE  AssistantInv'
  <1>1. now + Life \in Nat /\ customer \in Profile /\ notes \in [Appts -> Notes]
        /\ appt \in [Appts -> ApptRow]
        BY AssistantAssumption DEF AssistantInv, AssistantTypeOK, TypeOK
  <1>2. CASE ProposeUpdate(t)
    <2>1. PICK changes \in Changes :
              /\ \A k \in Required \cap DOMAIN changes : changes[k] # Blank
              /\ Issue(t, [action |-> "update_customer", expected |-> customer,
                           changes |-> changes, expiresAt |-> now + Life])
          BY <1>2 DEF ProposeUpdate
    <2> DEFINE p == [action |-> "update_customer", expected |-> customer,
                     changes |-> changes, expiresAt |-> now + Life]
    <2>2. p \in CustomerToken
          BY <1>1 DEF CustomerToken
    <2>3. \A k \in Required \cap DOMAIN p.changes : p.changes[k] # Blank
          BY <2>1
    <2> HIDE DEF p
    <2>4. QED
          BY <2>1, <2>2, <2>3, IssueStep DEF p
  <1>3. CASE ProposeReschedule(t)
    <2>1. PICK a \in Appts, to \in Times, said \in Texts \cup {Blank, Unsaid} :
              Issue(t, [action |-> "reschedule_appointment", appt |-> a,
                        expected |-> [scheduledAt |-> appt[a].scheduledAt, notes |-> notes[a],
                                      recorded |-> FALSE],
                        to |-> to, notes |-> said, expiresAt |-> now + Life])
          BY <1>3 DEF ProposeReschedule
    <2> DEFINE p == [action |-> "reschedule_appointment", appt |-> a,
                     expected |-> [scheduledAt |-> appt[a].scheduledAt, notes |-> notes[a],
                                   recorded |-> FALSE],
                     to |-> to, notes |-> said, expiresAt |-> now + Life]
    <2>2. p \in ApptToken /\ p.action # "update_customer"
          BY <1>1 DEF ApptToken, Snapshot, ApptRow
    <2> HIDE DEF p
    <2>3. QED
          BY <2>1, <2>2, IssueStep DEF p
  <1>4. QED
        BY <1>2, <1>3

\* The steps of a confirmation that write nothing: one that starts, reads, or ends.
LEMMA ConfirmMoves ==
    ASSUME AssistantInv, TypeOK', NEW q \in Confirms, NEW c,
           confirm' = [confirm EXCEPT ![q] = c],
           UNCHANGED <<appt, notes, customer, token, profileEdits, inEffect>>,
           \A r \in Confirms \ {q} : req'[r] = req[r],
           c # Idle =>
             /\ c \in [step : {"update_customer", "reschedule_appointment", "write"},
                       token : Tokens, again : BOOLEAN]
             /\ token[c.token] # NoToken
             /\ c.step = "update_customer" <=> token[c.token].action = "update_customer"
             /\ c.step = "write" =>
                  req'[q] = [step |-> "reschedule", appt |-> token[c.token].appt,
                             to |-> token[c.token].to]
             /\ c.again => c.step = "update_customer"
    PROVE  AssistantInv'
  <1>1. /\ confirm'[q] = c /\ \A r \in Confirms \ {q} : confirm'[r] = confirm[r]
        /\ confirm' \in [Confirms -> {Idle} \cup
                           [step : {"update_customer", "reschedule_appointment", "write"},
                            token : Tokens, again : BOOLEAN]]
        BY DEF AssistantInv, AssistantTypeOK
  <1>2. AssistantTypeOK'
        BY <1>1 DEF AssistantInv, AssistantTypeOK
  <1>3. NamesKept'
        BY DEF AssistantInv, NamesKept
  <1>4. ConfirmsMatch'
    <2> SUFFICES ASSUME NEW r \in Confirms, confirm'[r] # Idle
                 PROVE  LET p == token[confirm'[r].token] IN
                        /\ confirm'[r].step = "update_customer" <=> p.action = "update_customer"
                        /\ confirm'[r].step = "write" =>
                              req'[r] = [step |-> "reschedule", appt |-> p.appt, to |-> p.to]
                        /\ confirm'[r].again => confirm'[r].step = "update_customer"
        BY DEF ConfirmsMatch
    <2>1. CASE r = q
          BY <1>1, <2>1
    <2>2. CASE r # q
          BY <1>1, <2>2 DEF AssistantInv, ConfirmsMatch
    <2>3. QED
          BY <2>1, <2>2
  <1>5. InEffectShown'
        BY DEF AssistantInv, InEffectShown, Shown, Current
  <1>6. QED
        BY <1>2, <1>3, <1>4, <1>5 DEF AssistantInv

\* A new time that took effect and still shows is "already applied": it does not start again.
LEMMA ConfirmStarts ==
    ASSUME AssistantInv, TypeOK', NEW q \in Confirms, NEW t \in Tokens, Confirm(q, t)
    PROVE  AssistantInv'
  <1> DEFINE c == [step |-> token[t].action, token |-> t, again |-> t \in inEffect]
  <1>1. token[t] \in ApptToken \cup CustomerToken
        BY DEF Confirm, AssistantInv
  <1>2. c.step \in {"update_customer", "reschedule_appointment"}
        BY <1>1 DEF ApptToken, CustomerToken
  <1>3. ASSUME c.again, c.step # "update_customer" PROVE FALSE
    <2>1. Shown(token[t], Current(token[t])) /\ token[t].action # "update_customer"
          BY <1>3 DEF AssistantInv, InEffectShown
    <2>2. InPlace(token[t])
          BY <2>1 DEF Shown, Current, InPlace
    <2>3. QED
          BY <2>2 DEF Confirm, MayChange
  <1>4. /\ confirm' = [confirm EXCEPT ![q] = c] /\ token[t] # NoToken
        /\ UNCHANGED <<appt, req, notes, customer, token, profileEdits, inEffect>>
        BY DEF Confirm, vars
  <1>5. /\ c.token = t /\ c.step = token[t].action /\ c.step # "write"
        /\ c \in [step : {"update_customer", "reschedule_appointment", "write"},
                 token : Tokens, again : BOOLEAN]
        BY <1>2
  <1> HIDE DEF c
  <1>6. QED
        BY <1>3, <1>4, <1>5, ConfirmMoves

\* Writing the customer: the columns that are never empty keep a text, and the change shows.
LEMMA CustomerWritten ==
    ASSUME AssistantInv, NEW q \in Confirms, NEW t \in Tokens, UpdateCustomer(q, t)
    PROVE  /\ token[t] \in CustomerToken
           /\ customer' \in Profile /\ \A k \in Required : customer'[k] # Null
           /\ \A k \in DOMAIN token[t].changes :
                 customer'[k] = Stored(k, token[t].changes[k])
           /\ \A k \in Columns \ DOMAIN token[t].changes : customer'[k] = customer[k]
  <1> DEFINE changes == token[t].changes
  <1>1. token[t] \in CustomerToken
        BY ConfirmHolds DEF UpdateCustomer
  <1>2. PICK named \in SUBSET Columns : changes \in [named -> Texts \cup {Blank}]
        BY <1>1 DEF CustomerToken, Changes
  <1>3. customer' = [k \in Columns |-> IF k \in DOMAIN changes THEN Stored(k, changes[k])
                                                               ELSE customer[k]]
        BY DEF UpdateCustomer
  <1>4. customer \in Profile /\ \A k \in Required : k \in Columns /\ customer[k] # Null
        BY AssistantAssumption DEF AssistantInv, AssistantTypeOK
  <1>5. ASSUME NEW k \in DOMAIN changes
        PROVE  /\ k \in Columns /\ Stored(k, changes[k]) \in Texts \cup {Null}
               /\ k \in Required => Stored(k, changes[k]) # Null
    <2>1. k \in Columns /\ changes[k] \in Texts \cup {Blank}
          BY <1>2
    <2>2. k \in Required => changes[k] # Blank
          BY <1>1, <1>5 DEF AssistantInv, NamesKept, CustomerToken
    <2>3. QED
          BY <2>1, <2>2, AssistantAssumption DEF Stored
  <1>6. QED
        BY <1>1, <1>3, <1>4, <1>5 DEF Profile

\* A confirmation that writes: it ends, and its token is in effect with those that still are.
LEMMA ConfirmWrites ==
    ASSUME AssistantInv, TypeOK', NEW q \in Confirms, NEW t \in Tokens, confirm[q].token = t,
           confirm[q] # Idle, Done(q), UNCHANGED <<token, profileEdits>>,
           inEffect' = TakesEffect(t),
           notes' \in [Appts -> Notes],
           customer' \in Profile, \A k \in Required : customer'[k] # Null,
           \A r \in Confirms \ {q} : req'[r] = req[r],
           Shown(token[t], Current(token[t])')
    PROVE  AssistantInv'
  <1>1. /\ confirm' = [confirm EXCEPT ![q] = Idle]
        /\ confirm'[q] = Idle /\ \A r \in Confirms \ {q} : confirm'[r] = confirm[r]
        BY DEF Done, AssistantInv, AssistantTypeOK
  <1>2. token[t] # NoToken
        BY DEF AssistantInv, AssistantTypeOK
  <1>3. AssistantTypeOK'
    <2>1. inEffect' \subseteq inEffect \cup {t}
          BY DEF TakesEffect, StillInEffect
    <2>2. QED
          BY <1>1, <1>2, <2>1 DEF AssistantInv, AssistantTypeOK
  <1>4. NamesKept'
        BY DEF AssistantInv, NamesKept
  <1>5. ConfirmsMatch'
    <2> SUFFICES ASSUME NEW r \in Confirms, confirm'[r] # Idle
                 PROVE  LET p == token[confirm'[r].token] IN
                        /\ confirm'[r].step = "update_customer" <=> p.action = "update_customer"
                        /\ confirm'[r].step = "write" =>
                              req'[r] = [step |-> "reschedule", appt |-> p.appt, to |-> p.to]
                        /\ confirm'[r].again => confirm'[r].step = "update_customer"
        BY DEF ConfirmsMatch
    <2>1. r # q
          BY <1>1
    <2>2. QED
          BY <1>1, <2>1 DEF AssistantInv, ConfirmsMatch
  <1>6. InEffectShown'
    <2>1. ASSUME NEW u \in StillInEffect PROVE Shown(token'[u], Current(token[u])')
          BY <2>1, StillShown
    <2>2. QED
          BY <2>1 DEF InEffectShown, TakesEffect
  <1>7. QED
        BY <1>3, <1>4, <1>5, <1>6 DEF AssistantInv

LEMMA UpdateCustomerStep ==
    ASSUME AssistantInv, TypeOK', NEW q \in Confirms, NEW t \in Tokens, UpdateCustomer(q, t)
    PROVE  AssistantInv'
  <1>1. /\ confirm[q].token = t /\ confirm[q] # Idle /\ Done(q) /\ inEffect' = TakesEffect(t)
        /\ UNCHANGED <<notes, token, profileEdits>> /\ req' = req
        BY DEF UpdateCustomer, vars
  <1>2. Shown(token[t], Current(token[t])')
        BY <1>1, CustomerWritten DEF Shown, Current, CustomerToken
  <1>3. notes' \in [Appts -> Notes]
        BY <1>1 DEF AssistantInv, AssistantTypeOK
  <1>4. QED
        BY <1>1, <1>2, <1>3, CustomerWritten, ConfirmWrites

LEMMA UpdateWritesStep ==
    ASSUME AssistantInv, TypeOK', NEW q \in Confirms, NEW t \in Tokens, UpdateWrites(q, t)
    PROVE  AssistantInv'
  <1> DEFINE p == token[t]
  <1>1. /\ confirm[q].token = t /\ confirm[q] # Idle /\ confirm[q].step = "write" /\ Done(q)
        /\ RescheduleWrite(q) /\ inEffect' = TakesEffect(t)
        /\ notes' = IF p.notes = Unsaid THEN notes ELSE [notes EXCEPT ![p.appt] = p.notes]
        /\ UNCHANGED <<customer, token, profileEdits>>
        BY DEF UpdateWrites
  <1>2. p \in ApptToken
        BY <1>1, ConfirmHolds
  <1>3. p.action # "update_customer" /\ p.appt \in Appts
        /\ p.notes \in Texts \cup {Blank, Unsaid}
        BY <1>2 DEF ApptToken
  <1>4. notes \in [Appts -> Notes] /\ appt \in [Appts -> ApptRow] /\ req \in [Requests -> Request]
        BY DEF AssistantInv, AssistantTypeOK, TypeOK
  <1>5. notes' \in [Appts -> Notes] /\ p.notes \in {Unsaid, notes'[p.appt]}
        BY <1>1, <1>3, <1>4 DEF Notes
  <1>6. req[q].appt = p.appt /\ req[q].to = p.to
    <2>1. req[q] = [step |-> "reschedule", appt |-> token[confirm[q].token].appt,
                    to |-> token[confirm[q].token].to]
          BY <1>1 DEF AssistantInv, ConfirmsMatch
    <2>2. QED
          BY <1>1, <2>1
  <1>7. appt'[p.appt].scheduledAt = p.to /\ ~appt'[p.appt].recorded
        BY <1>1, <1>3, <1>4, <1>6 DEF RescheduleWrite
  <1>8. Shown(p, Current(p)')
        BY <1>1, <1>3, <1>5, <1>7 DEF Shown, Current
  <1>9. \A r \in Confirms \ {q} : req'[r] = req[r]
        BY <1>1, <1>4, AssistantAssumption DEF RescheduleWrite
  <1>10. customer' \in Profile /\ \A k \in Required : customer'[k] # Null
        BY <1>1 DEF AssistantInv, AssistantTypeOK
  <1>11. QED
        BY <1>1, <1>5, <1>8, <1>9, <1>10, ConfirmWrites

\* Reading the appointment again, being refused, and being cut off.
LEMMA ConfirmGoesOn ==
    ASSUME AssistantInv, TypeOK', NEW q \in Confirms,
           UpdateReads(q) \/ UpdateRefuses(q) \/ Drop(q)
    PROVE  AssistantInv'
  <1>1. req \in [Requests -> Request] /\ Confirms \subseteq Requests
        BY AssistantAssumption DEF AssistantInv, AssistantTypeOK, TypeOK
  <1>2. CASE UpdateReads(q)
    <2> DEFINE t == confirm[q].token
               c == [confirm[q] EXCEPT !.step = "write"]
    <2>1. t \in Tokens /\ confirm[q] # Idle /\ token[t] \in ApptToken /\ token[t] # NoToken
          BY <1>2, ConfirmHolds DEF UpdateReads, AssistantInv, AssistantTypeOK
    <2>2. /\ confirm[q] \in [step : {"update_customer", "reschedule_appointment", "write"},
                             token : Tokens, again : BOOLEAN]
          /\ confirm[q].step = "reschedule_appointment"
          /\ confirm[q].again => FALSE
          BY <1>2, <2>1 DEF UpdateReads, AssistantInv, AssistantTypeOK, ConfirmsMatch
    <2>3. /\ c \in [step : {"update_customer", "reschedule_appointment", "write"},
                    token : Tokens, again : BOOLEAN]
          /\ c.step = "write" /\ c.token = t /\ (c.again => FALSE)
          BY <2>2
    <2>4. token[t].action # "update_customer"
          BY <2>1 DEF ApptToken
    <2>5. /\ confirm' = [confirm EXCEPT ![q] = c]
          /\ UNCHANGED <<appt, notes, customer, token, profileEdits, inEffect>>
          BY <1>2 DEF UpdateReads, RescheduleBegin, AssistantInv, AssistantTypeOK
    <2>6. /\ req'[q] = [step |-> "reschedule", appt |-> token[t].appt, to |-> token[t].to]
          /\ \A r \in Confirms \ {q} : req'[r] = req[r]
          BY <1>1, <1>2 DEF UpdateReads, RescheduleBegin
    <2> HIDE DEF c, t
    <2>7. QED
          BY <2>1, <2>3, <2>4, <2>5, <2>6, ConfirmMoves
  <1>3. CASE UpdateRefuses(q)
        BY <1>3, ConfirmMoves DEF UpdateRefuses, Done, vars
  <1>4. CASE Drop(q)
    <2>1. appt' = appt /\ \A r \in Confirms \ {q} : req'[r] = req[r]
          BY <1>1, <1>4 DEF Drop, Abort, vars
    <2>2. QED
          BY <1>4, <2>1, ConfirmMoves DEF Drop, Done
  <1>5. QED
        BY <1>2, <1>3, <1>4

\* The staff's own requests are not the confirmations'.
LEMMA VisitsGoOnStep ==
    ASSUME AssistantInv, TypeOK', VisitsGoOn
    PROVE  AssistantInv'
  <1>1. req \in [Requests -> Request]
        BY DEF AssistantInv, AssistantTypeOK, TypeOK
  <1>2. ASSUME NEW q \in Confirms PROVE req'[q] = req[q]
    <2>1. ASSUME NEW r \in Requests \ Confirms, RequestStep(r) PROVE req'[q] = req[q]
          BY <1>1, <2>1, AssistantAssumption DEF RequestStep, RescheduleBegin,
             RescheduleWrite, StampBegin, StampWrite, Abort
    <2>2. ASSUME NEW a \in Appts, StaffStep(a) PROVE req' = req
          BY <2>2 DEF StaffStep, UpdateStatus, StaffCompletes, MarkArrived
    <2>3. ASSUME NEW p \in Passes, PassStep(p) \/ PassFails(p) PROVE req' = req
          BY <2>3 DEF PassStep, PassReads, PassCompletes, PassSendsToReview, PassFails
    <2>4. CASE Tick
          BY <2>4 DEF Tick
    <2>5. QED
          BY <2>1, <2>2, <2>3, <2>4 DEF VisitsGoOn, VisitStep
  <1>3. /\ UNCHANGED <<notes, customer, token, confirm, profileEdits>>
        /\ inEffect' = StillInEffect
        BY DEF VisitsGoOn
  <1>4. QED
        BY <1>2, <1>3, OthersStep DEF AssistantInv, AssistantTypeOK

LEMMA StaffEditsStep ==
    ASSUME AssistantInv, TypeOK', EditCustomer \/ EditNotes
    PROVE  AssistantInv'
  <1>1. profileEdits' \in 0 .. MaxProfileEdits
        BY AssistantAssumption DEF EditCustomer, EditNotes, AssistantInv, AssistantTypeOK
  <1>2. req \in [Requests -> Request] /\ notes \in [Appts -> Notes]
        BY DEF AssistantInv, AssistantTypeOK, TypeOK
  <1>3. CASE EditCustomer
        BY <1>1, <1>3, OthersStep DEF EditCustomer, vars, AssistantInv, AssistantTypeOK
  <1>4. CASE EditNotes
    <2>1. \A q \in Confirms : req'[q] = req[q]
          BY <1>2, <1>4, AssistantAssumption DEF EditNotes, RescheduleWrite, vars
    <2>2. notes' \in [Appts -> Notes]
          BY <1>2, <1>4 DEF EditNotes, Notes
    <2>3. QED
          BY <1>1, <1>4, <2>1, <2>2, OthersStep DEF EditNotes, AssistantInv, AssistantTypeOK
  <1>5. QED
        BY <1>3, <1>4

LEMMA AssistantInvNext ==
    (Inv /\ AssistantInv) /\ [AssistantNext]_assistantVars => (Inv /\ AssistantInv)'
  <1> SUFFICES ASSUME Inv, AssistantInv, [AssistantNext]_assistantVars
               PROVE  Inv' /\ AssistantInv'
      OBVIOUS
  <1>1. Inv' /\ TypeOK'
        BY StepOfStaff, InvNext DEF Inv
  <1>2. ASSUME NEW t \in Tokens, ProposeUpdate(t) \/ ProposeReschedule(t) PROVE AssistantInv'
        BY <1>1, <1>2, ProposalStep
  <1>3. ASSUME NEW q \in Confirms, ConfirmStep(q) PROVE AssistantInv'
    <2>1. ASSUME NEW t \in Tokens, Confirm(q, t) \/ UpdateCustomer(q, t) \/ UpdateWrites(q, t)
          PROVE  AssistantInv'
          BY <1>1, <2>1, ConfirmStarts, UpdateCustomerStep, UpdateWritesStep
    <2>2. CASE UpdateReads(q) \/ UpdateRefuses(q) \/ Drop(q)
          BY <1>1, <2>2, ConfirmGoesOn
    <2>3. QED
          BY <1>3, <2>1, <2>2 DEF ConfirmStep
  <1>4. CASE EditCustomer \/ EditNotes
        BY <1>1, <1>4, StaffEditsStep
  <1>5. CASE VisitsGoOn
        BY <1>1, <1>5, VisitsGoOnStep
  <1>6. CASE UNCHANGED assistantVars
    <2> USE <1>6 DEF assistantVars, vars
    <2>1. AssistantTypeOK'
          BY <1>1 DEF AssistantInv, AssistantTypeOK
    <2>2. InEffectShown'
          BY DEF AssistantInv, InEffectShown, Shown, Current
    <2>3. NamesKept' /\ ConfirmsMatch'
          BY DEF AssistantInv, NamesKept, ConfirmsMatch
    <2>4. token' \in [Tokens -> {NoToken} \cup ApptToken \cup CustomerToken]
          BY DEF AssistantInv
    <2>5. QED
          BY <1>1, <2>1, <2>2, <2>3, <2>4 DEF AssistantInv
  <1>7. QED
        BY <1>1, <1>2, <1>3, <1>4, <1>5, <1>6 DEF AssistantNext

LEMMA AssistantHolds == AssistantSpec => [](Inv /\ AssistantInv)
  <1>1. AssistantInit => Inv /\ AssistantInv
        BY InvInit, AssistantInvInit DEF AssistantInit
  <1>2. QED
        BY <1>1, AssistantInvNext, PTL DEF AssistantSpec

\* Proposals, confirmations, customer and notes keep their types: no text the model proposes
\* empties a column that must not be empty, and no confirmation is in flight without its token.
THEOREM AssistantTypeCorrect == AssistantSpec => []AssistantTypeOK
  <1>1. AssistantInv => AssistantTypeOK
        BY DEF AssistantInv
  <1>2. QED
        BY <1>1, AssistantHolds, PTL

\* The assistant implements staff: what it proposes and the owner confirms is, to the
\* appointments, a behaviour of the visit lifecycle.
THEOREM AssistantActsAsStaff == AssistantSpec => ActsAsStaff
  <1>1. AssistantInit => Init
        BY DEF AssistantInit
  <1>2. QED
        BY <1>1, StepOfStaff, AssistantHolds, PTL DEF AssistantSpec, ActsAsStaff, Spec

\* With an assistant too, a visit is counted once for every time it was recorded.
THEOREM AssistantVisitsAccounted == AssistantSpec => []VisitsAccounted
  BY AssistantActsAsStaff, VisitsAreAccounted, PTL DEF ActsAsStaff

\* With an assistant too, the visit count never exceeds the visits there were.
THEOREM AssistantCountsNotInflated == AssistantSpec => []CountNotInflated
  BY AssistantActsAsStaff, CountsNotInflated, PTL DEF ActsAsStaff

\* With an assistant too, no visit is counted for an appointment cancelled or missed.
THEOREM AssistantCancelledNotCounted == AssistantSpec => NoVisitForCancelled
  BY AssistantActsAsStaff, CancelledNotCounted, PTL DEF ActsAsStaff

\* The time and the notes of a token in effect are written as they are.
LEMMA WrittenAgain ==
    ASSUME AssistantInv, NEW q \in Confirms, NEW t \in inEffect, UpdateWrites(q, t)
    PROVE  Current(token[t])' = Current(token[t])
  <1> DEFINE p == token[t]
  <1>1. /\ confirm[q].token = t /\ confirm[q] # Idle /\ confirm[q].step = "write"
        /\ RescheduleWrite(q) /\ UNCHANGED token
        /\ notes' = IF p.notes = Unsaid THEN notes ELSE [notes EXCEPT ![p.appt] = p.notes]
        BY DEF UpdateWrites
  <1>2. p \in ApptToken
        BY <1>1, ConfirmHolds
  <1>3. p.action # "update_customer" /\ p.appt \in Appts
        BY <1>2 DEF ApptToken
  <1>4. /\ notes \in [Appts -> Notes] /\ appt \in [Appts -> ApptRow]
        /\ req \in [Requests -> Request]
        BY DEF AssistantInv, AssistantTypeOK, TypeOK
  <1>5. req[q].appt = p.appt /\ req[q].to = p.to
    <2>1. req[q] = [step |-> "reschedule", appt |-> token[confirm[q].token].appt,
                    to |-> token[confirm[q].token].to]
          BY <1>1 DEF AssistantInv, ConfirmsMatch
    <2>2. QED
          BY <1>1, <2>1
  <1>6. appt'[p.appt].scheduledAt = p.to /\ appt'[p.appt].recorded = FALSE
        BY <1>1, <1>3, <1>4, <1>5 DEF RescheduleWrite
  <1>7. /\ appt[p.appt].scheduledAt = p.to /\ p.notes \in {Unsaid, notes[p.appt]}
        /\ appt[p.appt].recorded = FALSE
    <2>1. Shown(p, Current(p)) /\ appt[p.appt].recorded \in BOOLEAN
          BY <1>3, <1>4 DEF AssistantInv, InEffectShown, ApptRow
    <2>2. QED
          BY <1>3, <2>1 DEF Shown, Current
  <1>8. notes'[p.appt] = notes[p.appt]
        BY <1>1, <1>3, <1>4, <1>7
  <1>9. QED
        BY <1>1, <1>3, <1>6, <1>7, <1>8 DEF Current

\* A confirmation's step leaves the columns alone that its token does not name, what it compares
\* when its token is in effect, and all rows when its token was so before it started as well.
LEMMA ConfirmedStep ==
    ASSUME AssistantInv, [AssistantNext]_assistantVars,
           NEW q \in Confirms, NEW t \in Tokens,
           confirm[q] # Idle, confirm[q].token = t, confirm'[q] # confirm[q]
    PROVE  /\ confirm[q].step = "update_customer" =>
                \A k \in Columns \ DOMAIN token[t].changes : customer'[k] = customer[k]
           /\ t \in inEffect => Current(token[t])' = Current(token[t])
           /\ t \in inEffect /\ confirm[q].again => UNCHANGED rows
  <1> USE DEF rows, Done, vars
  <1>1. confirm \in [Confirms -> {Idle} \cup
                       [step : {"update_customer", "reschedule_appointment", "write"},
                        token : Tokens, again : BOOLEAN]]
        BY DEF AssistantInv, AssistantTypeOK
  <1>2. confirm[q].again => confirm[q].step = "update_customer"
        BY DEF AssistantInv, ConfirmsMatch
  <1>3. PICK r \in Confirms : ConfirmStep(r)
        BY DEF AssistantNext, ProposeUpdate, ProposeReschedule, Issue, EditCustomer,
           EditNotes, VisitsGoOn, assistantVars
  <1>4. r = q
        BY <1>1, <1>3 DEF ConfirmStep, Confirm, UpdateCustomer, UpdateReads, UpdateRefuses,
           UpdateWrites, Drop
  <1>5. CASE UpdateCustomer(q, t)
    <2>1. /\ token[t] \in CustomerToken /\ customer' \in Profile
          /\ \A k \in DOMAIN token[t].changes :
                customer'[k] = Stored(k, token[t].changes[k])
          /\ \A k \in Columns \ DOMAIN token[t].changes : customer'[k] = customer[k]
          BY <1>5, ConfirmHolds, CustomerWritten
    <2>2. ASSUME t \in inEffect PROVE customer' = customer
      <3>1. \A k \in DOMAIN token[t].changes : customer[k] = Stored(k, token[t].changes[k])
            BY <2>1, <2>2 DEF AssistantInv, InEffectShown, Shown, Current, CustomerToken
      <3>2. customer \in Profile /\ \A k \in Columns : customer'[k] = customer[k]
            BY <2>1, <3>1 DEF AssistantInv, AssistantTypeOK
      <3>3. QED
            BY <2>1, <3>2 DEF Profile
    <2>3. UNCHANGED <<appt, notes>>
          BY <1>5 DEF UpdateCustomer
    <2>4. t \in inEffect => Current(token[t])' = Current(token[t])
          BY <1>5, <2>2, <2>3 DEF UpdateCustomer, Current
    <2>5. QED
          BY <2>1, <2>2, <2>3, <2>4
  <1>6. CASE UpdateReads(q) \/ UpdateRefuses(q) \/ Drop(q)
    <2>1. UNCHANGED <<appt, notes, customer, token>>
          BY <1>6 DEF UpdateReads, RescheduleBegin, UpdateRefuses, Drop, Abort
    <2>2. Current(token[t])' = Current(token[t])
          BY <2>1 DEF Current
    <2>3. QED
          BY <2>1, <2>2
  <1>7. CASE UpdateWrites(q, t)
    <2>1. ~confirm[q].again /\ confirm[q].step = "write"
          BY <1>2, <1>7 DEF UpdateWrites
    <2>2. t \in inEffect => Current(token[t])' = Current(token[t])
          BY <1>7, <2>1, WrittenAgain
    <2>3. QED
          BY <2>1, <2>2
  <1>8. QED
        BY <1>3, <1>4, <1>5, <1>6, <1>7 DEF ConfirmStep, Confirm, UpdateCustomer, UpdateWrites

\* Confirming changes the columns that were proposed, and what a confirmation compares only once,
\* however many confirm at once: while the change is in effect, another confirmation leaves that
\* as it is, and one that was checked after the change writes nothing at all.
THEOREM ConfirmedChangesOnly == AssistantSpec => ConfirmedOnly
  <1> DEFINE Only == \A q \in Confirms, t \in Tokens :
                 confirm[q] # Idle /\ confirm[q].token = t /\ confirm'[q] # confirm[q] =>
                 /\ confirm[q].step = "update_customer" =>
                       \A k \in Columns \ DOMAIN token[t].changes : customer'[k] = customer[k]
                 /\ t \in inEffect => Current(token[t])' = Current(token[t])
                 /\ t \in inEffect /\ confirm[q].again => UNCHANGED rows
  <1>1. (Inv /\ AssistantInv) /\ [AssistantNext]_assistantVars => [Only]_assistantVars
        BY ConfirmedStep
  <1>2. QED
        BY <1>1, AssistantHolds, PTL DEF AssistantSpec, ConfirmedOnly
=============================================================================
