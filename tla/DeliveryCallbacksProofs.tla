------------------------- MODULE DeliveryCallbacksProofs -------------------------
(***************************************************************************)
(* Proofs about DeliveryCallbacks, for any messages, customers, handlers,  *)
(* reports and faults.  Reports and consent share no state, so there are   *)
(* two inductive invariants, and the steps of each side leave the other's  *)
(* alone.                                                                  *)
(***************************************************************************)
EXTENDS DeliveryCallbacks, TLAPS

Records == [message : Messages, status : Statuses]

ReportTypes ==
    /\ report \in [Ids -> Records \cup {NoReport}]
    /\ reported \in 0..MaxReports /\ answered \in SUBSET Ids
    /\ claim \in [Ids -> {"none", "processed", "failed"}]
    /\ known \in SUBSET Messages
    /\ delivery \in [Messages -> Mapped \cup {"none"}]
    /\ \A m \in Messages : m \in known <=> delivery[m] # "none"
    /\ worker \in [Workers -> Task \cup {Idle}]
    /\ raced \in SUBSET Messages /\ missed \in SUBSET Ids
    /\ first \in [Messages -> Final \cup {"none"}]

ConsentTypes ==
    /\ customer \in [Customers -> {"absent", "in", "out", "gone"}]
    /\ log \in [Customers -> Nat]
    /\ stop \in [Stops -> StopTask \cup {Idle}]
    /\ unlogged \in SUBSET Customers /\ covered \in SUBSET Customers

\* What was answered, is claimed or is in a handler's hands was reported.
Placed == /\ \A i \in Ids : i <= reported => report[i] \in Records
          /\ answered \subseteq 1..reported
          /\ \A i \in Ids : claim[i] # "none" => i <= reported /\ report[i].message \in Claimed
          /\ \A w \in Workers : worker[w] # Idle => worker[w].id <= reported

Writing(w, m) == At(w, "write") /\ Report(w).message = m

\* A handler writes a word that has a meaning, to a row that it has found.
WritersKnow == \A w \in Workers : At(w, "write") => /\ Report(w).message \in known
                                                    /\ Report(w).status \in Mapped

\* Where reports do not overlap there is one writer, and it finds the row as it has read it.
OneWriter ==
    \A m \in Messages \ raced : \A v, w \in Workers : Writing(v, m) /\ Writing(w, m) => v = w
NotFinalYet ==
    \A m \in Messages \ raced : \A w \in Workers : Writing(w, m) => delivery[m] \notin Final

\* The first final status is the one there is.
FirstStays ==
    \A m \in Messages \ raced :
       /\ first[m] # "none" => delivery[m] = first[m]
       /\ delivery[m] \in Final => first[m] # "none"

InHand(i) == \E w \in Workers : worker[w] # Idle /\ worker[w].id = i

\* A claimed report is answered, in a handler's hands, or was taken away.
ClaimsKept == \A i \in Ids : claim[i] # "none" => i \in answered \/ i \in missed \/ InHand(i)

\* An answered final report has done its work; a claimed one may be answered before.
AnsweredDone ==
    \A i \in answered \ missed :
       report[i].status \in Final /\ report[i].message \notin raced
          => \/ first[report[i].message] # "none"
             \/ report[i].message \in Claimed /\ InHand(i)

ReportInv == ReportTypes /\ Placed /\ WritersKnow /\ OneWriter /\ NotFinalYet /\ FirstStays
             /\ ClaimsKept /\ AnsweredDone

InHandStop(s, c) == stop[s] # Idle /\ c \in stop[s].doing
Logged(c) == log[c] > 0 \/ c \in unlogged \/ \E s \in Stops : InHandStop(s, c)

\* A row is in a handler's hands only between its update and its log; those it has done are
\* opted out, or anonymized since; a row that is opted out is logged; an answer covers such rows.
DoingOne == \A s \in Stops : stop[s] # Idle /\ stop[s].step = "update" => stop[s].doing = {}
DoneAreOut == \A s \in Stops : stop[s] # Idle =>
                 \A c \in stop[s].found \ stop[s].todo : customer[c] \in {"out", "gone"}
OutLogged == \A c \in Customers : customer[c] = "out" => Logged(c)
CoveredOut == \A c \in covered : customer[c] = "out"

ConsentInv == ConsentTypes /\ DoingOne /\ DoneAreOut /\ OutLogged /\ CoveredOut
-----------------------------------------------------------------------------
(* STOP *)

LEMMA StopTaskOf ==
    ASSUME ConsentTypes, NEW s \in Stops, stop[s] # Idle
    PROVE  stop[s] \in StopTask
  BY DEF ConsentTypes

LEMMA Becomes ==
    ASSUME ConsentTypes, NEW s \in Stops, NEW state \in StopTask \cup {Idle}, Become(s, state)
    PROVE  /\ stop' \in [Stops -> StopTask \cup {Idle}]
           /\ stop'[s] = state
           /\ \A q \in Stops \ {s} : stop'[q] = stop[q]
  BY DEF ConsentTypes, Become

\* A handler whose rows nobody else changes, while nothing but its own state is written.
LEMMA HandlerMoves ==
    ASSUME ConsentInv, NEW s \in Stops, NEW state \in StopTask \cup {Idle}, Become(s, state),
           customer' = customer,
           state # Idle => /\ state.step = "update" => state.doing = {}
                           /\ \A c \in state.found \ state.todo : customer[c] \in {"out", "gone"}
    PROVE  DoingOne' /\ DoneAreOut'
  <1>1. stop'[s] = state /\ \A q \in Stops \ {s} : stop'[q] = stop[q]
        BY Becomes DEF ConsentInv
  <1>2. DoingOne'
        BY <1>1 DEF ConsentInv, DoingOne
  <1>3. DoneAreOut'
        BY <1>1 DEF ConsentInv, DoneAreOut
  <1> QED BY <1>2, <1>3

LEMMA ConsentMatch ==
    ASSUME ConsentInv, NEW s \in Stops, Match(s)
    PROVE  ConsentInv'
  <1> DEFINE new == [step |-> "update", todo |-> {c \in WithNumber : customer[c] = "in"},
                     found |-> WithNumber, doing |-> {}]
  <1>1. new \in StopTask /\ new.step = "update" /\ new.doing = {}
        BY DEF StopTask, WithNumber
  <1>2. \A c \in new.found \ new.todo : customer[c] \in {"out", "gone"}
        BY DEF WithNumber
  <1>3. Become(s, new) /\ customer' = customer /\ log' = log /\ unlogged' = unlogged
        /\ covered' = covered /\ stop[s] = Idle
        BY DEF Match, history
  <1> HIDE DEF new
  <1>4. stop' \in [Stops -> StopTask \cup {Idle}] /\ stop'[s] = new
        /\ \A q \in Stops \ {s} : stop'[q] = stop[q]
        BY <1>1, <1>3, Becomes DEF ConsentInv
  <1>5. DoingOne' /\ DoneAreOut'
        BY <1>1, <1>2, <1>3, HandlerMoves
  <1>6. OutLogged'
        BY <1>3, <1>4 DEF ConsentInv, OutLogged, Logged, InHandStop
  <1> QED BY <1>3, <1>4, <1>5, <1>6 DEF ConsentInv, ConsentTypes, CoveredOut

LEMMA ConsentOptOut ==
    ASSUME ConsentInv, NEW s \in Stops, NEW c \in Customers, OptOut(s, c)
    PROVE  ConsentInv'
  <1> DEFINE t == stop[s]
             new == [t EXCEPT !.step = "log", !.todo = t.todo \ {c}, !.doing = {c}]
  <1>1. t.step = "update" /\ t # Idle
        BY DEF OptOut, Idle
  <1>2. t \in StopTask /\ t.doing = {}
        BY <1>1, StopTaskOf DEF ConsentInv, DoingOne
  <1>3. new \in StopTask /\ new # Idle /\ new.step = "log" /\ new.todo = t.todo \ {c}
        /\ new.found = t.found /\ new.doing = {c}
        BY <1>2 DEF StopTask, Idle
  <1>4. Become(s, new) /\ log' = log /\ unlogged' = unlogged /\ covered' = covered
        /\ customer' = [customer EXCEPT ![c] = IF customer[c] = "gone" THEN "gone" ELSE "out"]
        BY DEF OptOut, history
  <1>5. \A d \in t.found \ t.todo : customer[d] \in {"out", "gone"}
        BY <1>1 DEF ConsentInv, DoneAreOut
  <1> HIDE DEF new
  <1>6. stop' \in [Stops -> StopTask \cup {Idle}] /\ stop'[s] = new
        /\ \A q \in Stops \ {s} : stop'[q] = stop[q]
        BY <1>3, <1>4, Becomes DEF ConsentInv
  <1> HIDE DEF t
  <1>7. customer' \in [Customers -> {"absent", "in", "out", "gone"}]
        /\ customer'[c] \in {"out", "gone"} /\ \A d \in Customers \ {c} : customer'[d] = customer[d]
        BY <1>4 DEF ConsentInv, ConsentTypes
  <1>8. t.found \subseteq Customers
        BY <1>2 DEF StopTask
  <1>9. DoingOne'
        BY <1>3, <1>6 DEF ConsentInv, DoingOne
  <1>10. DoneAreOut'
    <2> SUFFICES ASSUME NEW q \in Stops, stop'[q] # Idle,
                        NEW d \in stop'[q].found \ stop'[q].todo
                 PROVE  customer'[d] \in {"out", "gone"}
        BY DEF DoneAreOut
    <2>1. CASE q = s
          BY <2>1, <1>3, <1>5, <1>6, <1>7, <1>8
    <2>2. CASE q # s
      <3>1. stop'[q] = stop[q] /\ stop[q] \in StopTask
            BY <2>2, <1>6, StopTaskOf DEF ConsentInv
      <3>2. d \in Customers /\ customer[d] \in {"out", "gone"}
            BY <3>1 DEF ConsentInv, DoneAreOut, StopTask
      <3> QED BY <3>2, <1>7
    <2> QED BY <2>1, <2>2
  <1>11. OutLogged'
    <2>1. InHandStop(s, c)'
          BY <1>3, <1>6 DEF InHandStop
    <2>2. \A q \in Stops, d \in Customers : InHandStop(q, d) => InHandStop(q, d)'
          BY <1>2, <1>6 DEF InHandStop, t
    <2> QED BY <2>1, <2>2, <1>4, <1>7 DEF ConsentInv, OutLogged, Logged
  <1>12. CoveredOut'
    <2>1. \A d \in covered : customer'[d] = "out"
          BY <1>4, <1>7 DEF ConsentInv, ConsentTypes, CoveredOut
    <2> QED BY <2>1, <1>4 DEF CoveredOut
  <1> QED BY <1>4, <1>6, <1>7, <1>9, <1>10, <1>11, <1>12 DEF ConsentInv, ConsentTypes

LEMMA ConsentLog ==
    ASSUME ConsentInv, NEW s \in Stops, LogConsent(s)
    PROVE  ConsentInv'
  <1> DEFINE t == stop[s]
             new == [t EXCEPT !.step = "update", !.todo = Left(t), !.doing = {}]
  <1>1. t.step = "log" /\ t # Idle
        BY DEF LogConsent, Idle
  <1>2. t \in StopTask
        BY <1>1, StopTaskOf DEF ConsentInv
  <1>3. new \in StopTask /\ new # Idle /\ new.step = "update" /\ new.todo = t.todo
        /\ new.found = t.found /\ new.doing = {}
        BY <1>2 DEF StopTask, Idle, Left
  <1>4. Become(s, new) /\ customer' = customer /\ unlogged' = unlogged /\ covered' = covered
        /\ log' = [c \in Customers |-> IF c \in t.doing THEN log[c] + 1 ELSE log[c]]
        BY DEF LogConsent, history
  <1>5. \A c \in t.found \ t.todo : customer[c] \in {"out", "gone"}
        BY <1>1 DEF ConsentInv, DoneAreOut
  <1> HIDE DEF new
  <1>6. stop' \in [Stops -> StopTask \cup {Idle}] /\ stop'[s] = new
        /\ \A q \in Stops \ {s} : stop'[q] = stop[q]
        BY <1>3, <1>4, Becomes DEF ConsentInv
  <1>7. DoingOne' /\ DoneAreOut'
        BY <1>3, <1>4, <1>5, HandlerMoves
  <1>8. log' \in [Customers -> Nat] /\ (\A c \in Customers : log[c] > 0 => log'[c] > 0)
        /\ \A c \in Customers : c \in t.doing => log'[c] > 0
        BY <1>4 DEF ConsentInv, ConsentTypes
  <1>9. OutLogged'
    <2> SUFFICES ASSUME NEW c \in Customers, customer[c] = "out" PROVE Logged(c)'
        BY <1>4 DEF OutLogged
    <2>1. CASE log[c] > 0 \/ c \in unlogged \/ InHandStop(s, c)
          BY <2>1, <1>4, <1>8 DEF Logged, InHandStop
    <2>2. ASSUME NEW q \in Stops \ {s}, InHandStop(q, c) PROVE Logged(c)'
          BY <2>2, <1>6 DEF Logged, InHandStop
    <2> QED BY <2>1, <2>2 DEF ConsentInv, OutLogged, Logged
  <1> QED BY <1>4, <1>6, <1>7, <1>8, <1>9 DEF ConsentInv, ConsentTypes, CoveredOut

\* A handler is done, or stops; what it was doing is then counted as not logged.
LEMMA ConsentEnds ==
    ASSUME ConsentInv, NEW s \in Stops, AnswerStop(s) \/ FailStop(s)
    PROVE  ConsentInv'
  <1>1. Become(s, Idle) /\ stop[s] # Idle /\ customer' = customer /\ log' = log
        /\ unlogged \subseteq unlogged'
        BY DEF AnswerStop, FailStop, Idle
  <1>2. stop[s] \in StopTask
        BY <1>1, StopTaskOf DEF ConsentInv
  <1>3. stop' \in [Stops -> StopTask \cup {Idle}] /\ stop'[s] = Idle
        /\ \A q \in Stops \ {s} : stop'[q] = stop[q]
        BY <1>1, Becomes DEF ConsentInv
  <1>4. DoingOne' /\ DoneAreOut'
        BY <1>1, HandlerMoves
  <1>5. stop[s].doing \subseteq unlogged'
        BY <1>1 DEF AnswerStop, FailStop, ConsentInv, DoingOne
  <1>6. OutLogged'
    <2> SUFFICES ASSUME NEW c \in Customers, customer[c] = "out" PROVE Logged(c)'
        BY <1>1 DEF OutLogged
    <2>1. CASE log[c] > 0 \/ c \in unlogged \/ InHandStop(s, c)
          BY <2>1, <1>1, <1>5 DEF Logged, InHandStop
    <2>2. ASSUME NEW q \in Stops \ {s}, InHandStop(q, c) PROVE Logged(c)'
          BY <2>2, <1>3 DEF Logged, InHandStop
    <2> QED BY <2>1, <2>2 DEF ConsentInv, OutLogged, Logged
  <1>7. unlogged' \in SUBSET Customers
        BY <1>2 DEF ConsentInv, ConsentTypes, AnswerStop, FailStop, StopTask
  <1>8. covered' \in SUBSET Customers /\ CoveredOut'
    <2>1. CASE FailStop(s)
          BY <2>1, <1>1 DEF FailStop, ConsentInv, ConsentTypes, CoveredOut
    <2>2. CASE AnswerStop(s)
      <3>1. covered' = covered \cup (stop[s].found \cap WithNumber) /\ stop[s].todo = {}
            BY <2>2 DEF AnswerStop
      <3>2. \A c \in stop[s].found \cap WithNumber : customer[c] = "out"
            BY <3>1, <1>1 DEF ConsentInv, DoneAreOut, WithNumber
      <3> QED BY <3>1, <3>2, <1>1 DEF ConsentInv, ConsentTypes, CoveredOut, WithNumber
    <2> QED BY <2>1, <2>2
  <1> QED BY <1>1, <1>3, <1>4, <1>6, <1>7, <1>8 DEF ConsentInv, ConsentTypes

LEMMA ConsentCustomers ==
    ASSUME ConsentInv, NEW c \in Customers, AddCustomer(c) \/ Anonymize(c)
    PROVE  ConsentInv'
  <1>1. stop' = stop /\ log' = log /\ unlogged' = unlogged /\ covered' \subseteq covered
        BY DEF AddCustomer, Anonymize, history
  <1>2. customer' \in [Customers -> {"absent", "in", "out", "gone"}] /\ customer'[c] # "out"
        /\ \A d \in Customers \ {c} : customer'[d] = customer[d]
        BY DEF AddCustomer, Anonymize, ConsentInv, ConsentTypes
  <1>3. customer[c] \in {"out", "gone"} => customer'[c] = "gone"
        BY DEF AddCustomer, Anonymize, ConsentInv, ConsentTypes
  <1>4. c \notin covered'
        BY DEF AddCustomer, Anonymize, history, ConsentInv, CoveredOut
  <1>5. DoingOne'
        BY <1>1 DEF ConsentInv, DoingOne
  <1>6. DoneAreOut'
    <2> SUFFICES ASSUME NEW s \in Stops, stop[s] # Idle, NEW d \in stop[s].found \ stop[s].todo
                 PROVE  customer'[d] \in {"out", "gone"}
        BY <1>1 DEF DoneAreOut
    <2>1. d \in Customers /\ customer[d] \in {"out", "gone"}
          BY StopTaskOf DEF ConsentInv, DoneAreOut, StopTask
    <2> QED BY <2>1, <1>2, <1>3
  <1>7. OutLogged'
        BY <1>1, <1>2 DEF ConsentInv, OutLogged, Logged, InHandStop
  <1>8. CoveredOut'
        BY <1>1, <1>2, <1>4 DEF ConsentInv, ConsentTypes, CoveredOut
  <1> QED BY <1>1, <1>2, <1>5, <1>6, <1>7, <1>8 DEF ConsentInv, ConsentTypes

LEMMA ConsentInit == Init => ConsentInv
  BY DEF Init, ConsentInv, ConsentTypes, DoingOne, DoneAreOut, OutLogged, Logged, CoveredOut, Idle

\* The steps of dispatch, the providers and the handlers of reports.
LEMMA ConsentAlone ==
    ASSUME ConsentInv, consent' = consent, unlogged' = unlogged, covered' = covered
    PROVE  ConsentInv'
  BY DEF consent, ConsentInv, ConsentTypes, DoingOne, DoneAreOut, OutLogged, Logged, InHandStop,
         CoveredOut

LEMMA ConsentStep == ConsentInv /\ [Next]_vars => ConsentInv'
  <1> SUFFICES ASSUME ConsentInv, [Next]_vars PROVE ConsentInv'
      OBVIOUS
  <1>1. CASE UNCHANGED vars
        BY <1>1, ConsentAlone DEF vars, history
  <1>2. ASSUME NEW m \in Messages, RecordSent(m) \/ Reports(m) PROVE ConsentInv'
        BY <1>2, ConsentAlone DEF RecordSent, Reports, history
  <1>3. ASSUME NEW w \in Workers, CallbackStep(w) PROVE ConsentInv'
    <2>1. ASSUME NEW i \in Ids, Receive(w, i) PROVE ConsentInv'
          BY <2>1, ConsentAlone DEF Receive, history
    <2>2. CASE ReadMessage(w) \/ WriteStatus(w) \/ Fail(w)
          BY <2>2, ConsentAlone DEF ReadMessage, WriteStatus, Fail
    <2> QED BY <1>3, <2>1, <2>2 DEF CallbackStep
  <1>4. ASSUME NEW s \in Stops, StopStep(s) PROVE ConsentInv'
        BY <1>4, ConsentMatch, ConsentOptOut, ConsentLog, ConsentEnds DEF StopStep
  <1>5. ASSUME NEW c \in Customers, AddCustomer(c) \/ Anonymize(c) PROVE ConsentInv'
        BY <1>5, ConsentCustomers
  <1> QED BY <1>1, <1>2, <1>3, <1>4, <1>5 DEF Next

\* When STOP has been answered, every row it found is opted out and that is logged, unless a
\* handler stopped between the two, for any number of STOPs and customers.
THEOREM OptOutIsKept == Spec => []OptOutHolds
  <1>1. ConsentInv => OptOutHolds
        BY DEF ConsentInv, ConsentTypes, CoveredOut, OutLogged, Logged, InHandStop, OptOutHolds
  <1> QED BY <1>1, ConsentInit, ConsentStep, PTL DEF Spec
-----------------------------------------------------------------------------
(* Reports *)

LEMMA TaskOf ==
    ASSUME ReportTypes, NEW w \in Workers, worker[w] # Idle
    PROVE  worker[w] \in Task /\ worker[w].id \in Ids /\ worker[w].id \in Nat
  BY DEF ReportTypes, Task, Ids

\* What a handler is at is a report.
LEMMA ReportOf ==
    ASSUME ReportTypes, Placed, NEW w \in Workers, worker[w] # Idle
    PROVE  Report(w) \in Records /\ Report(w).message \in Messages /\ Report(w).status \in Statuses
  <1>1. Report(w) \in Records
        BY TaskOf DEF Placed, Report
  <1> QED BY <1>1 DEF Records

LEMMA Moves ==
    ASSUME ReportTypes, NEW w \in Workers, NEW state \in Task \cup {Idle}, Goto(w, state)
    PROVE  /\ worker' \in [Workers -> Task \cup {Idle}]
           /\ worker'[w] = state
           /\ \A v \in Workers \ {w} : worker'[v] = worker[v]
  BY DEF ReportTypes, Goto

\* A message is accepted: its row was not known, so nobody writes it, and it is not final.
LEMMA ReportRecordSent ==
    ASSUME ReportInv, NEW m \in Messages, RecordSent(m)
    PROVE  ReportInv'
  <1>1. /\ UNCHANGED <<report, reported, answered, claim, worker, raced, missed, first>>
        /\ known' = known \cup {m} /\ m \notin known /\ delivery' = [delivery EXCEPT ![m] = "sent"]
        BY DEF RecordSent, history
  <1>2. ReportTypes'
        BY <1>1 DEF ReportInv, ReportTypes, Mapped
  <1>3. Placed' /\ ClaimsKept' /\ AnsweredDone'
        BY <1>1 DEF ReportInv, Placed, ClaimsKept, AnsweredDone, InHand
  <1>4. WritersKnow' /\ OneWriter'
        BY <1>1 DEF ReportInv, WritersKnow, OneWriter, Writing, At, Report
  <1>5. delivery'[m] = "sent" /\ delivery[m] = "none"
        /\ \A n \in Messages \ {m} : delivery'[n] = delivery[n]
        BY <1>1 DEF ReportInv, ReportTypes
  <1>6. NotFinalYet'
        BY <1>1, <1>5 DEF ReportInv, NotFinalYet, Writing, At, Report, Final
  <1>7. FirstStays'
        BY <1>1, <1>5 DEF ReportInv, ReportTypes, FirstStays, Final
  <1> QED BY <1>2, <1>3, <1>4, <1>6, <1>7 DEF ReportInv

LEMMA ReportReports ==
    ASSUME ReportInv, NEW m \in Messages, Reports(m)
    PROVE  ReportInv'
  <1>1. PICK status \in Statuses :
            report' = [report EXCEPT ![reported + 1] = [message |-> m, status |-> status]]
        BY DEF Reports
  <1>2. /\ UNCHANGED <<answered, claim, known, delivery, worker, raced, missed, first>>
        /\ reported' = reported + 1 /\ reported + 1 \in Ids
        BY CallbackAssumption DEF Reports, history, ReportInv, ReportTypes, Ids
  <1>3. [message |-> m, status |-> status] \in Records
        BY DEF Records
  <1>4. /\ report' \in [Ids -> Records \cup {NoReport}] /\ report'[reported + 1] \in Records
        /\ \A i \in Ids : i <= reported => report'[i] = report[i]
        BY <1>1, <1>2, <1>3 DEF ReportInv, ReportTypes, Ids
  <1>5. ReportTypes'
        BY <1>2, <1>4 DEF ReportInv, ReportTypes, Ids
  <1>6. \A w \in Workers : worker[w] # Idle => Report(w)' = Report(w)
        BY <1>2, <1>4, TaskOf DEF ReportInv, Placed, Report
  <1>7. \A w \in Workers : At(w, "write") => worker[w] # Idle
        BY DEF At, Idle
  <1>8. Placed'
    <2>1. \A i \in Ids : i <= reported' => report'[i] \in Records
          BY <1>2, <1>4 DEF ReportInv, ReportTypes, Placed, Ids
    <2>2. answered' \subseteq 1..reported'
          BY <1>2 DEF ReportInv, ReportTypes, Placed
    <2>3. \A i \in Ids : claim'[i] # "none" => i <= reported' /\ report'[i].message \in Claimed
          BY <1>2, <1>4 DEF ReportInv, ReportTypes, Placed, Ids
    <2>4. \A w \in Workers : worker'[w] # Idle => worker'[w].id <= reported'
          BY <1>2, TaskOf DEF ReportInv, ReportTypes, Placed
    <2> QED BY <2>1, <2>2, <2>3, <2>4 DEF Placed
  <1>9. WritersKnow' /\ OneWriter' /\ NotFinalYet'
        BY <1>2, <1>6, <1>7 DEF ReportInv, WritersKnow, OneWriter, NotFinalYet, Writing, At
  <1>10. FirstStays' /\ ClaimsKept'
        BY <1>2 DEF ReportInv, FirstStays, ClaimsKept, InHand
  <1>11. AnsweredDone'
    <2>1. \A i \in answered : report'[i] = report[i]
          BY <1>4 DEF ReportInv, ReportTypes, Placed, Ids
    <2> QED BY <1>2, <2>1 DEF ReportInv, AnsweredDone, InHand
  <1> QED BY <1>5, <1>8, <1>9, <1>10, <1>11 DEF ReportInv

\* A handler takes a report, or drops one whose claim is there.
LEMMA ReportReceive ==
    ASSUME ReportInv, NEW w \in Workers, NEW i \in Ids, Receive(w, i)
    PROVE  ReportInv'
  <1>1. /\ UNCHANGED <<report, reported, known, delivery, raced, missed, first>>
        /\ worker[w] = Idle /\ i <= reported /\ i \notin answered
        BY DEF Receive, history
  <1>2. i \in 1..reported
        BY <1>1 DEF ReportInv, ReportTypes, Ids
  <1>3. CASE report[i].message \in Claimed /\ claim[i] # "none"
    <2>1. answered' = answered \cup {i} /\ UNCHANGED <<claim, worker>>
          BY <1>3 DEF Receive
    <2>2. ReportTypes' /\ Placed'
          BY <1>1, <1>2, <2>1 DEF ReportInv, ReportTypes, Placed
    <2>3. WritersKnow' /\ OneWriter' /\ NotFinalYet' /\ FirstStays' /\ ClaimsKept'
          BY <1>1, <2>1 DEF ReportInv, WritersKnow, OneWriter, NotFinalYet, FirstStays, ClaimsKept,
                            Writing, At, Report, InHand
    <2>4. i \notin missed => InHand(i)
          BY <1>1, <1>3 DEF ReportInv, ClaimsKept
    <2>5. AnsweredDone'
          BY <1>1, <1>3, <2>1, <2>4 DEF ReportInv, AnsweredDone, InHand
    <2> QED BY <2>2, <2>3, <2>5 DEF ReportInv
  <1>4. CASE ~(report[i].message \in Claimed /\ claim[i] # "none")
    <2> DEFINE new == [step |-> "read", id |-> i]
    <2>1. new \in Task /\ new.step = "read" /\ new.id = i /\ new # Idle
          BY DEF Task, Idle
    <2>2. /\ Goto(w, new) /\ answered' = answered
          /\ claim' = IF report[i].message \in Claimed THEN [claim EXCEPT ![i] = "processed"]
                      ELSE claim
          BY <1>4 DEF Receive
    <2> HIDE DEF new
    <2>3. /\ worker' \in [Workers -> Task \cup {Idle}] /\ worker'[w] = new
          /\ \A v \in Workers \ {w} : worker'[v] = worker[v]
          BY <2>1, <2>2, Moves DEF ReportInv
    <2>4. /\ claim' \in [Ids -> {"none", "processed", "failed"}]
          /\ \A j \in Ids : claim'[j] = claim[j] \/ (j = i /\ report[i].message \in Claimed)
          BY <2>2 DEF ReportInv, ReportTypes
    <2>5. ReportTypes'
          BY <1>1, <2>2, <2>3, <2>4 DEF ReportInv, ReportTypes
    <2>6. Placed'
          BY <1>1, <2>1, <2>2, <2>3, <2>4 DEF ReportInv, Placed
    <2>7. /\ \A v \in Workers : At(v, "write")' => v # w /\ At(v, "write") /\ Report(v)' = Report(v)
          BY <1>1, <2>1, <2>3 DEF At, Report
    <2>8. WritersKnow' /\ OneWriter' /\ NotFinalYet'
          BY <1>1, <2>7 DEF ReportInv, WritersKnow, OneWriter, NotFinalYet, Writing
    <2>9. InHand(i)' /\ \A j \in Ids : InHand(j) => InHand(j)'
          BY <1>1, <2>1, <2>3 DEF InHand
    <2>10. FirstStays' /\ ClaimsKept'
          BY <1>1, <2>2, <2>4, <2>9 DEF ReportInv, FirstStays, ClaimsKept
    <2>11. AnsweredDone'
          BY <1>1, <2>2, <2>9 DEF ReportInv, ReportTypes, AnsweredDone
    <2> QED BY <2>5, <2>6, <2>8, <2>10, <2>11 DEF ReportInv
  <1> QED BY <1>3, <1>4

\* A handler leaves its report: it is answered and its work is done, or it was taken away if it
\* was claimed, and will be delivered again if it was not.
LEMMA Leaves ==
    ASSUME ReportInv, NEW w \in Workers, worker[w] # Idle, NEW i \in Ids, i = worker[w].id, Goto(w, Idle),
           UNCHANGED <<report, reported, raced>>,
           missed \subseteq missed',
           \A m \in Messages \ raced : first[m] # "none" => first'[m] # "none",
           claim' = claim \/ (claim' = [claim EXCEPT ![i] = "failed"] /\ report[i].message \in Claimed),
           \/ /\ answered' = answered \cup {i}
              /\ \/ i \in missed' \/ report[i].status \notin Final
                 \/ report[i].message \in raced \/ first'[report[i].message] # "none"
           \/ /\ answered' = answered
              /\ report[i].message \in Claimed => i \in missed'
    PROVE  /\ worker' \in [Workers -> Task \cup {Idle}] /\ answered' \in SUBSET Ids
           /\ claim' \in [Ids -> {"none", "processed", "failed"}]
           /\ Placed' /\ ClaimsKept' /\ AnsweredDone'
           /\ \A v \in Workers : At(v, "write")' => v # w /\ At(v, "write") /\ Report(v)' = Report(v)
  <1>1. i \in Ids /\ i \in Nat /\ i <= reported /\ reported \in Nat
        BY TaskOf DEF ReportInv, ReportTypes, Placed
  <1>2. /\ worker' \in [Workers -> Task \cup {Idle}] /\ worker'[w] = Idle
        /\ \A v \in Workers \ {w} : worker'[v] = worker[v]
        BY Moves DEF ReportInv
  <1>3. /\ claim' \in [Ids -> {"none", "processed", "failed"}]
        /\ \A j \in Ids : claim'[j] = claim[j] \/ (j = i /\ report[i].message \in Claimed)
        BY <1>1 DEF ReportInv, ReportTypes
  <1>4. answered' \subseteq answered \cup {i}
        OBVIOUS
  <1>5. answered' \in SUBSET Ids /\ Placed'
    <2>1. answered' \in SUBSET Ids
          BY <1>4 DEF ReportInv, ReportTypes
    <2>2. answered' \subseteq 1..reported'
          BY <1>1, <1>4 DEF ReportInv, Placed, Ids
    <2>3. \A j \in Ids : claim'[j] # "none" => j <= reported /\ report[j].message \in Claimed
          BY <1>1, <1>3 DEF ReportInv, Placed
    <2>4. \A v \in Workers : worker'[v] # Idle => worker'[v].id <= reported
          BY <1>2 DEF ReportInv, Placed
    <2> QED BY <2>1, <2>2, <2>3, <2>4 DEF ReportInv, Placed
  <1>6. \A j \in Ids : InHand(j) => j = i \/ InHand(j)'
        BY <1>2 DEF InHand
  <1>7. ClaimsKept'
        BY <1>1, <1>3, <1>6 DEF ReportInv, Placed, ClaimsKept
  <1>8. AnsweredDone'
    <2> SUFFICES ASSUME NEW j \in answered' \ missed', report[j].status \in Final,
                        report[j].message \notin raced, first'[report[j].message] = "none"
                 PROVE  report[j].message \in Claimed /\ InHand(j)'
        BY DEF AnsweredDone
    <2>1. CASE j = i /\ j \notin answered
          BY <2>1
    <2>2. CASE j \in answered
      <3>1. j \in Ids /\ report[j].message \in Messages
            BY <1>1, <2>2 DEF ReportInv, ReportTypes, Placed, Records
      <3>2. report[j].message \in Claimed /\ InHand(j)
            BY <2>2, <3>1 DEF ReportInv, AnsweredDone
      <3> QED BY <1>6, <3>1, <3>2
    <2> QED BY <2>1, <2>2
  <1>9. \A v \in Workers : At(v, "write")' => v # w /\ At(v, "write") /\ Report(v)' = Report(v)
        BY <1>2 DEF At, Report, Idle
  <1> QED BY <1>2, <1>3, <1>5, <1>7, <1>8, <1>9

LEMMA ReportFail ==
    ASSUME ReportInv, NEW w \in Workers, Fail(w)
    PROVE  ReportInv'
  <1>1. PICK i \in Ids : i = worker[w].id
        BY TaskOf DEF Fail, ReportInv
  <1>2. /\ worker[w] # Idle /\ Goto(w, Idle)
        /\ UNCHANGED <<report, reported, answered, known, delivery, raced, first>>
        /\ missed' = IF report[i].message \in Claimed THEN missed \cup {i} ELSE missed
        /\ claim' = claim \/ (claim' = [claim EXCEPT ![i] = "failed"] /\ report[i].message \in Claimed)
        BY <1>1 DEF Fail, Report
  <1>3. /\ worker' \in [Workers -> Task \cup {Idle}]
        /\ claim' \in [Ids -> {"none", "processed", "failed"}]
        /\ Placed' /\ ClaimsKept' /\ AnsweredDone'
        /\ \A v \in Workers : At(v, "write")' => v # w /\ At(v, "write") /\ Report(v)' = Report(v)
        BY <1>1, <1>2, Leaves
  <1>4. ReportTypes'
        BY <1>2, <1>3 DEF ReportInv, ReportTypes
  <1>5. WritersKnow' /\ OneWriter' /\ NotFinalYet' /\ FirstStays'
        BY <1>2, <1>3 DEF ReportInv, WritersKnow, OneWriter, NotFinalYet, FirstStays, Writing
  <1> QED BY <1>3, <1>4, <1>5 DEF ReportInv

LEMMA ReportRead ==
    ASSUME ReportInv, NEW w \in Workers, ReadMessage(w)
    PROVE  ReportInv'
  <1>0. PICK i \in Ids : i = worker[w].id
        BY TaskOf DEF ReadMessage, At, Idle, ReportInv
  <1> DEFINE r == report[i]
  <1>1. /\ worker[w] # Idle /\ worker[w].step = "read"
        /\ UNCHANGED <<report, reported, claim, known, delivery, first>>
        BY DEF ReadMessage, At, Idle
  <1>2. r \in Records /\ r.message \in Messages /\ Report(w) = r
        BY <1>0, <1>1, ReportOf DEF ReportInv, Report
  <1>3. CASE Answer(w)
    <2>1. answered' = answered \cup {i} /\ Goto(w, Idle)
          BY <1>0, <1>3 DEF Answer
    <2>2. worker'[w] = Idle
          BY <2>1, Moves DEF ReportInv
    <2>3. \/ r.message \notin known /\ missed' = missed \cup {i} /\ raced' = raced
          \/ r.message \in known /\ ~Relevant(r) /\ missed' = missed /\ raced' = raced
          BY <1>0, <1>2, <2>2 DEF ReadMessage, Goto, ReportInv, ReportTypes, Idle
    <2>4. i \in missed' \/ r.status \notin Final \/ r.message \in raced \/ first[r.message] # "none"
          BY <1>2, <2>3 DEF Relevant, Mapped, ReportInv, FirstStays
    <2> HIDE DEF r
    <2>5. /\ worker' \in [Workers -> Task \cup {Idle}] /\ answered' \in SUBSET Ids
          /\ Placed' /\ ClaimsKept' /\ AnsweredDone'
          /\ \A v \in Workers : At(v, "write")' => v # w /\ At(v, "write") /\ Report(v)' = Report(v)
          BY <1>0, <1>1, <2>1, <2>3, <2>4, Leaves DEF r
    <2>6. ReportTypes'
          BY <1>1, <1>2, <2>3, <2>5 DEF ReportInv, ReportTypes
    <2>7. WritersKnow' /\ OneWriter' /\ NotFinalYet' /\ FirstStays'
          BY <1>1, <2>3, <2>5 DEF ReportInv, WritersKnow, OneWriter, NotFinalYet, FirstStays, Writing
    <2> QED BY <2>5, <2>6, <2>7 DEF ReportInv
  <1>4. CASE ~Answer(w)
    <2> DEFINE new == [step |-> "write", id |-> i]
    <2>1. new \in Task /\ new.step = "write" /\ new.id = i /\ new # Idle
          BY DEF Task, Idle
    <2>2. /\ r.message \in known /\ Relevant(r) /\ Goto(w, new)
          /\ UNCHANGED <<answered, missed>>
          /\ raced' = IF \E v \in Workers : Writing(v, r.message) THEN raced \cup {r.message}
                      ELSE raced
          BY <1>0, <1>2, <1>4 DEF ReadMessage, Writing
    <2> HIDE DEF new
    <2>3. /\ worker' \in [Workers -> Task \cup {Idle}] /\ worker'[w] = new
          /\ \A v \in Workers \ {w} : worker'[v] = worker[v]
          BY <2>1, <2>2, Moves DEF ReportInv
    <2>4. \A j : InHand(j)' <=> InHand(j)
          BY <1>0, <1>1, <2>1, <2>3 DEF InHand
    <2>5. Writing(w, r.message)' /\ Report(w)' = r
          BY <1>1, <2>1, <2>3 DEF Writing, At, Report
    <2>6. \A v \in Workers \ {w} : /\ At(v, "write")' <=> At(v, "write")
                                   /\ Report(v)' = Report(v)
          BY <1>1, <2>3 DEF At, Report
    <2> HIDE DEF r
    <2>7. ReportTypes'
          BY <1>1, <1>2, <2>2, <2>3 DEF ReportInv, ReportTypes
    <2>8. Placed'
          BY <1>0, <1>1, <2>1, <2>2, <2>3 DEF ReportInv, Placed
    <2>9. WritersKnow'
          BY <1>1, <2>2, <2>5, <2>6 DEF ReportInv, WritersKnow, Relevant
    <2>10. raced \subseteq raced'
          BY <2>2
    <2>11. ASSUME NEW m \in Messages \ raced', NEW u \in Workers, NEW v \in Workers,
                  Writing(u, m)', Writing(v, m)'
           PROVE  u = v
      <3>1. CASE m # r.message
            BY <2>5, <2>6, <2>10, <2>11, <3>1 DEF ReportInv, OneWriter, Writing
      <3>2. CASE m = r.message
        <4>1. \A q \in Workers : ~Writing(q, m)
              BY <2>2, <2>11, <3>2
        <4>2. u = w /\ v = w
              BY <2>6, <2>11, <4>1 DEF Writing
        <4> QED BY <4>2
      <3> QED BY <3>1, <3>2
    <2>12. ASSUME NEW m \in Messages \ raced', NEW v \in Workers, Writing(v, m)'
           PROVE  delivery[m] \notin Final
      <3>1. CASE v = w
            BY <2>2, <2>5, <2>12, <3>1 DEF Relevant, Writing
      <3>2. CASE v # w
            BY <2>6, <2>10, <2>12, <3>2 DEF ReportInv, NotFinalYet, Writing
      <3> QED BY <3>1, <3>2
    <2>13. OneWriter' /\ NotFinalYet'
          BY <1>1, <2>11, <2>12 DEF OneWriter, NotFinalYet
    <2>14. FirstStays' /\ ClaimsKept'
          BY <1>1, <2>2, <2>4, <2>10 DEF ReportInv, FirstStays, ClaimsKept
    <2>15. AnsweredDone'
          BY <1>1, <2>2, <2>4, <2>10 DEF ReportInv, AnsweredDone
    <2> QED BY <2>7, <2>8, <2>9, <2>13, <2>14, <2>15 DEF ReportInv
  <1> QED BY <1>3, <1>4

\* The only writer of the message, if its reports did not overlap, finds it as it has read it.
LEMMA ReportWrite ==
    ASSUME ReportInv, NEW w \in Workers, WriteStatus(w)
    PROVE  ReportInv'
  <1>1. PICK i \in Ids : i = worker[w].id
        BY TaskOf DEF WriteStatus, At, Idle, ReportInv
  <1> DEFINE r == report[i]
  <1>2. /\ worker[w] # Idle /\ At(w, "write") /\ Report(w) = r
        /\ UNCHANGED <<report, reported, claim, known, raced, missed>>
        /\ Goto(w, Idle) /\ answered' = answered \cup {i}
        /\ delivery' = [delivery EXCEPT ![r.message] = r.status]
        /\ first' = IF r.status \in Final /\ first[r.message] = "none"
                    THEN [first EXCEPT ![r.message] = r.status] ELSE first
        BY <1>1 DEF WriteStatus, Answer, Report, At, Idle
  <1>3. /\ r \in Records /\ r.message \in Messages /\ r.message \in known /\ r.status \in Mapped
        /\ Writing(w, r.message)
        BY <1>2, ReportOf DEF ReportInv, WritersKnow, Writing
  <1> HIDE DEF r
  <1>4. /\ delivery' \in [Messages -> Mapped \cup {"none"}] /\ delivery'[r.message] = r.status
        /\ \A m \in Messages \ {r.message} : delivery'[m] = delivery[m]
        BY <1>2, <1>3 DEF ReportInv, ReportTypes
  <1>5. /\ first' \in [Messages -> Final \cup {"none"}]
        /\ \A m \in Messages \ {r.message} : first'[m] = first[m]
        /\ \A m \in Messages : first[m] # "none" => first'[m] = first[m]
        /\ r.status \in Final => first'[r.message] # "none"
        /\ first[r.message] = "none" /\ r.status \in Final => first'[r.message] = r.status
        /\ r.status \notin Final => first' = first
    <2>1. CASE r.status \in Final /\ first[r.message] = "none"
          BY <1>2, <1>3, <2>1 DEF ReportInv, ReportTypes, Final
    <2>2. CASE ~(r.status \in Final /\ first[r.message] = "none")
          BY <1>2, <1>3, <2>2 DEF ReportInv, ReportTypes
    <2> QED BY <2>1, <2>2
  <1>6. /\ worker' \in [Workers -> Task \cup {Idle}] /\ answered' \in SUBSET Ids
        /\ Placed' /\ ClaimsKept' /\ AnsweredDone'
        /\ \A v \in Workers : At(v, "write")' => v # w /\ At(v, "write") /\ Report(v)' = Report(v)
        BY <1>1, <1>2, <1>5, Leaves DEF r
  <1>7. ReportTypes'
    <2>1. \A m \in Messages : m \in known <=> delivery'[m] # "none"
          BY <1>3, <1>4 DEF ReportInv, ReportTypes, Mapped, Final
    <2> QED BY <1>2, <1>4, <1>5, <1>6, <2>1 DEF ReportInv, ReportTypes
  <1>8. WritersKnow' /\ OneWriter'
        BY <1>2, <1>6 DEF ReportInv, WritersKnow, OneWriter, Writing
  <1>9. ASSUME NEW m \in Messages \ raced, NEW v \in Workers, Writing(v, m)'
        PROVE  delivery'[m] \notin Final
    <2>1. v # w /\ Writing(v, m)
          BY <1>6, <1>9 DEF Writing
    <2>2. m # r.message
          BY <1>3, <2>1 DEF ReportInv, OneWriter
    <2> QED BY <1>4, <2>1, <2>2 DEF ReportInv, NotFinalYet
  <1>10. ASSUME NEW m \in Messages \ raced
         PROVE  /\ first'[m] # "none" => delivery'[m] = first'[m]
                /\ delivery'[m] \in Final => first'[m] # "none"
    <2>1. CASE m # r.message
          BY <1>4, <1>5, <2>1 DEF ReportInv, FirstStays
    <2>2. CASE m = r.message
      <3>1. first[m] = "none"
        <4>1. delivery[m] \notin Final
              BY <1>3, <2>2 DEF ReportInv, NotFinalYet
        <4> QED BY <4>1 DEF ReportInv, ReportTypes, FirstStays, Final
      <3> QED BY <1>4, <1>5, <2>2, <3>1
    <2> QED BY <2>1, <2>2
  <1>11. NotFinalYet' /\ FirstStays'
         BY <1>2, <1>9, <1>10 DEF NotFinalYet, FirstStays
  <1> QED BY <1>6, <1>7, <1>8, <1>11 DEF ReportInv

LEMMA ReportInit == Init => ReportInv
  BY CallbackAssumption DEF Init, ReportInv, ReportTypes, Placed, WritersKnow, OneWriter, NotFinalYet,
     FirstStays, ClaimsKept, AnsweredDone, Writing, At, Ids, Idle, Final

\* The steps of STOP and of the customers.
LEMMA ReportAlone ==
    ASSUME ReportInv, reports' = reports, raced' = raced, missed' = missed, first' = first
    PROVE  ReportInv'
  BY DEF reports, ReportInv, ReportTypes, Placed, WritersKnow, OneWriter, NotFinalYet, FirstStays,
         ClaimsKept, AnsweredDone, Writing, At, Report, InHand

LEMMA ReportStep == ReportInv /\ [Next]_vars => ReportInv'
  <1> SUFFICES ASSUME ReportInv, [Next]_vars PROVE ReportInv'
      OBVIOUS
  <1>1. CASE UNCHANGED vars
        BY <1>1, ReportAlone DEF vars, history
  <1>2. ASSUME NEW m \in Messages, RecordSent(m) \/ Reports(m) PROVE ReportInv'
        BY <1>2, ReportRecordSent, ReportReports
  <1>3. ASSUME NEW w \in Workers, CallbackStep(w) PROVE ReportInv'
        BY <1>3, ReportReceive, ReportRead, ReportWrite, ReportFail DEF CallbackStep
  <1>4. ASSUME NEW s \in Stops, StopStep(s) PROVE ReportInv'
    <2>1. ASSUME NEW c \in Customers, OptOut(s, c) PROVE ReportInv'
          BY <2>1, ReportAlone DEF OptOut, history
    <2>2. CASE Match(s) \/ LogConsent(s) \/ AnswerStop(s) \/ FailStop(s)
          BY <2>2, ReportAlone DEF Match, LogConsent, AnswerStop, FailStop, history
    <2> QED BY <1>4, <2>1, <2>2 DEF StopStep
  <1>5. ASSUME NEW c \in Customers, AddCustomer(c) \/ Anonymize(c) PROVE ReportInv'
        BY <1>5, ReportAlone DEF AddCustomer, Anonymize, history
  <1> QED BY <1>1, <1>2, <1>3, <1>4, <1>5 DEF Next

\* Of a message whose reports do not overlap the first final status stays, and an answered final
\* report has made it final, for any number of messages, reports, handlers and faults.
THEOREM FinalStatusIsKept == Spec => []FinalStatusHolds
  <1>1. ReportInv => FinalStatusHolds
    <2> SUFFICES ASSUME ReportInv, NEW m \in Messages \ raced
                 PROVE  /\ first[m] # "none" => delivery[m] = first[m]
                        /\ (\E i \in Settled : report[i].message = m /\ report[i].status \in Final)
                              => first[m] # "none"
        BY DEF FinalStatusHolds
    <2>1. ASSUME NEW i \in Settled, report[i].message = m, report[i].status \in Final
          PROVE  first[m] # "none"
          BY <2>1 DEF ReportInv, AnsweredDone, Settled, InHand
    <2> QED BY <2>1 DEF ReportInv, FirstStays
  <1> QED BY <1>1, ReportInit, ReportStep, PTL DEF Spec
-----------------------------------------------------------------------------
(* Claims *)

\* A report was written only after it was reported, and after it was claimed, if it is claimed.
WrittenAfter == \A i \in Ids : written[i] > 0 =>
                   /\ i <= reported
                   /\ report[i].message \in Claimed => claim[i] # "none"

\* A handler has the claim of its report; it alone, and has not written it.
HasClaim == \A w \in Workers : worker[w] # Idle =>
               (Report(w).message \in Claimed <=> claim[worker[w].id] # "none")
HasAlone == \A v, w \in Workers :
               worker[v] # Idle /\ worker[w] # Idle /\ worker[v].id = worker[w].id
               /\ claim[worker[w].id] # "none" => v = w
NotWritten == \A w \in Workers : worker[w] # Idle /\ claim[worker[w].id] # "none" =>
                 written[worker[w].id] = 0

ClaimInv == /\ written \in [Ids -> Nat]
            /\ WrittenAfter /\ HasClaim /\ HasAlone /\ NotWritten

LEMMA ClaimInit == Init => ClaimInv /\ Inbox!InboxInit
  <1> SUFFICES ASSUME Init PROVE ClaimInv /\ Inbox!InboxInit
      OBVIOUS
  <1>1. written = [i \in Ids |-> 0] /\ claim = [i \in Ids |-> "none"]
        /\ \A w \in Workers : worker[w] = Idle
        BY DEF Init
  <1>2. ClaimInv
        BY <1>1 DEF ClaimInv, WrittenAfter, HasClaim, HasAlone, NotWritten
  <1>3. Inbox!InboxInit
        BY <1>1 DEF Inbox!InboxInit
  <1> QED BY <1>2, <1>3

\* A step that takes no report and writes none.
LEMMA ClaimsStay ==
    ASSUME ReportInv, ClaimInv, written' = written, reported' \in {reported, reported + 1},
           \A i \in Ids : claim'[i] # "none" <=> claim[i] # "none",
           \A i \in Ids : i <= reported => report'[i] = report[i],
           \A v \in Workers : worker'[v] # Idle => worker[v] # Idle /\ worker'[v].id = worker[v].id
    PROVE  ClaimInv' /\ UNCHANGED Inbox!inbox
  <1>1. reported \in Nat /\ \A i \in Ids : i \in Nat
        BY DEF ReportInv, ReportTypes, Ids
  <1>2. \A v \in Workers : worker[v] # Idle => /\ worker[v].id \in Ids
                                               /\ report'[worker[v].id] = report[worker[v].id]
        BY TaskOf DEF ReportInv, Placed
  <1>3. WrittenAfter'
        BY <1>1 DEF ClaimInv, WrittenAfter
  <1>4. HasClaim'
        BY <1>2 DEF ClaimInv, HasClaim, Report
  <1>5. HasAlone'
        BY <1>2 DEF ClaimInv, HasAlone
  <1>6. NotWritten'
        BY <1>2 DEF ClaimInv, NotWritten
  <1>7. \A i \in Ids : (IF report'[i].message \in Claimed THEN written[i] ELSE 0)
                       = (IF report[i].message \in Claimed THEN written[i] ELSE 0)
    <2> SUFFICES ASSUME NEW i \in Ids, report'[i] # report[i] PROVE written[i] = 0
        OBVIOUS
    <2>1. ~(i <= reported)
          OBVIOUS
    <2> QED BY <2>1 DEF ClaimInv, WrittenAfter
  <1>8. {i \in Ids : claim'[i] # "none"} = {i \in Ids : claim[i] # "none"}
        OBVIOUS
  <1> QED BY <1>3, <1>4, <1>5, <1>6, <1>7, <1>8 DEF ClaimInv, Inbox!inbox

\* A report that is claimed is taken by one handler: it had not been, and so not been written.
LEMMA ClaimReceive ==
    ASSUME ReportInv, ClaimInv, NEW w \in Workers, NEW i \in Ids, Receive(w, i)
    PROVE  ClaimInv' /\ [Inbox!InboxNext]_(Inbox!inbox)
  <1>1. UNCHANGED <<report, reported, written>> /\ worker[w] = Idle /\ i <= reported
        BY DEF Receive, history
  <1>2. CASE report[i].message \in Claimed /\ claim[i] # "none"
        BY <1>1, <1>2, ClaimsStay DEF Receive
  <1>3. CASE ~(report[i].message \in Claimed /\ claim[i] # "none")
    <2> DEFINE new == [step |-> "read", id |-> i]
    <2>1. new \in Task /\ new.id = i /\ new # Idle
          BY DEF Task, Idle
    <2>2. /\ Goto(w, new)
          /\ claim' = IF report[i].message \in Claimed THEN [claim EXCEPT ![i] = "processed"]
                      ELSE claim
          /\ report[i].message \in Claimed => claim[i] = "none"
          BY <1>3 DEF Receive
    <2> HIDE DEF new
    <2>3. worker'[w] = new /\ \A v \in Workers \ {w} : worker'[v] = worker[v]
          BY <2>1, <2>2, Moves DEF ReportInv
    <2>4. /\ claim[i] = "none"
          /\ claim'[i] # "none" <=> report[i].message \in Claimed
          /\ \A j \in Ids \ {i} : claim'[j] = claim[j]
          BY <2>2 DEF ReportInv, ReportTypes, Placed
    <2>5. \A v \in Workers \ {w} : worker[v] # Idle /\ worker[v].id = i =>
             report[i].message \notin Claimed
          BY <2>4 DEF ClaimInv, HasClaim, Report
    <2>6. report[i].message \in Claimed => written[i] = 0
          BY <2>4 DEF ClaimInv, WrittenAfter
    <2>7. WrittenAfter'
          BY <1>1, <2>4 DEF ClaimInv, WrittenAfter
    <2>8. \A v \in Workers : worker[v] # Idle => worker[v].id \in Ids
          BY TaskOf DEF ReportInv
    <2>9. HasClaim'
      <3>1. ASSUME NEW v \in Workers \ {w}, worker[v] # Idle
            PROVE  report[worker[v].id].message \in Claimed <=> claim'[worker[v].id] # "none"
            BY <2>4, <2>8, <3>1 DEF ClaimInv, HasClaim, Report
      <3> QED BY <1>1, <2>1, <2>3, <2>4, <3>1 DEF HasClaim, Report
    <2>10. HasAlone'
           BY <2>1, <2>3, <2>4, <2>5, <2>8 DEF ClaimInv, HasAlone
    <2>11. NotWritten'
           BY <1>1, <2>1, <2>3, <2>4, <2>5, <2>6, <2>8 DEF ClaimInv, NotWritten
    <2>12. [Inbox!InboxNext]_(Inbox!inbox)
      <3>1. CASE report[i].message \in Claimed
        <4>1. {j \in Ids : claim'[j] # "none"} = {j \in Ids : claim[j] # "none"} \cup {i}
              BY <2>4, <3>1
        <4>2. Inbox!Take(i)
              BY <1>1, <2>4, <4>1 DEF Inbox!Take
        <4> QED BY <4>2 DEF Inbox!InboxNext
      <3>2. CASE report[i].message \notin Claimed
            BY <1>1, <2>2, <3>2 DEF Inbox!inbox
      <3> QED BY <3>1, <3>2
    <2> QED BY <1>1, <2>7, <2>9, <2>10, <2>11, <2>12 DEF ClaimInv
  <1> QED BY <1>2, <1>3

\* A report is written by its handler, which then leaves it; nobody else has it, if it is claimed.
LEMMA ClaimWrite ==
    ASSUME ReportInv, ClaimInv, NEW w \in Workers, WriteStatus(w)
    PROVE  ClaimInv' /\ [Inbox!InboxNext]_(Inbox!inbox)
  <1>1. PICK i \in Ids : i = worker[w].id
        BY TaskOf DEF WriteStatus, At, Idle, ReportInv
  <1>2. /\ worker[w] # Idle /\ Goto(w, Idle) /\ UNCHANGED <<report, reported, claim>>
        /\ written' = [written EXCEPT ![i] = written[i] + 1]
        BY <1>1 DEF WriteStatus, Answer, At, Idle
  <1>3. worker'[w] = Idle /\ \A v \in Workers \ {w} : worker'[v] = worker[v]
        BY <1>2, Moves DEF ReportInv
  <1>4. /\ written' \in [Ids -> Nat] /\ written'[i] = written[i] + 1
        /\ \A j \in Ids \ {i} : written'[j] = written[j]
        BY <1>2 DEF ClaimInv
  <1>5. /\ report[i].message \in Claimed <=> claim[i] # "none"
        /\ claim[i] # "none" => written[i] = 0
        BY <1>1, <1>2 DEF ClaimInv, HasClaim, NotWritten, Report
  <1>6. \A v \in Workers \ {w} : worker[v] # Idle =>
           worker[v].id \in Ids /\ (claim[worker[v].id] # "none" => worker[v].id # i)
        BY <1>1, <1>2, TaskOf DEF ReportInv, ClaimInv, HasAlone
  <1>7. i <= reported
        BY <1>1, <1>2 DEF ReportInv, Placed
  <1>8. WrittenAfter'
        BY <1>2, <1>4, <1>5, <1>7 DEF ClaimInv, WrittenAfter
  <1>9. HasClaim' /\ HasAlone'
        BY <1>2, <1>3 DEF ClaimInv, HasClaim, HasAlone, Report
  <1>10. NotWritten'
         BY <1>2, <1>3, <1>4, <1>6 DEF ClaimInv, NotWritten
  <1>11. [Inbox!InboxNext]_(Inbox!inbox)
    <2> DEFINE eff == [j \in Ids |-> IF report[j].message \in Claimed THEN written[j] ELSE 0]
               new == [j \in Ids |-> IF report[j].message \in Claimed THEN written'[j] ELSE 0]
    <2>1. CASE report[i].message \in Claimed
      <3>1. i \in {j \in Ids : claim[j] # "none"} /\ eff[i] = 0 /\ new[i] = 1
            BY <1>4, <1>5, <2>1
      <3>2. new = [eff EXCEPT ![i] = 1]
            BY <1>4, <3>1
      <3>3. Inbox!Apply(i)
            BY <1>2, <3>1, <3>2 DEF Inbox!Apply
      <3> QED BY <3>3 DEF Inbox!InboxNext
    <2>2. CASE report[i].message \notin Claimed
      <3>1. new = eff
            BY <1>4, <2>2
      <3> QED BY <1>2, <3>1 DEF Inbox!inbox
    <2> QED BY <2>1, <2>2
  <1> QED BY <1>4, <1>8, <1>9, <1>10, <1>11 DEF ClaimInv

LEMMA ClaimStep ==
    ASSUME ReportInv, ClaimInv, [Next]_vars
    PROVE  ClaimInv' /\ [Inbox!InboxNext]_(Inbox!inbox)
  <1>1. CASE UNCHANGED vars
        BY <1>1, ClaimsStay DEF vars, reports, history
  <1>2. ASSUME NEW m \in Messages, RecordSent(m)
        PROVE  ClaimInv' /\ UNCHANGED Inbox!inbox
        BY <1>2, ClaimsStay DEF RecordSent, history
  <1>3. ASSUME NEW m \in Messages, Reports(m)
        PROVE  ClaimInv' /\ UNCHANGED Inbox!inbox
    <2>1. UNCHANGED <<claim, worker, written>> /\ reported' = reported + 1
          BY <1>3 DEF Reports, history
    <2>2. \A i \in Ids : i <= reported => report'[i] = report[i]
          BY <1>3 DEF Reports, ReportInv, ReportTypes, Ids
    <2> QED BY <2>1, <2>2, ClaimsStay
  <1>4. ASSUME NEW w \in Workers, ReadMessage(w)
        PROVE  ClaimInv' /\ UNCHANGED Inbox!inbox
    <2>1. UNCHANGED <<report, reported, claim, written>> /\ worker[w] # Idle
          BY <1>4 DEF ReadMessage, At, Idle
    <2>2. PICK state \in {Idle, [step |-> "write", id |-> worker[w].id]} : Goto(w, state)
          BY <1>4 DEF ReadMessage, Answer
    <2>3. \A v \in Workers : worker'[v] # Idle => worker[v] # Idle /\ worker'[v].id = worker[v].id
          BY <2>1, <2>2 DEF Goto, ReportInv, ReportTypes
    <2> QED BY <2>1, <2>3, ClaimsStay
  <1>5. ASSUME NEW w \in Workers, Fail(w)
        PROVE  ClaimInv' /\ UNCHANGED Inbox!inbox
    <2>1. PICK i \in Ids : i = worker[w].id
          BY <1>5, TaskOf DEF Fail, ReportInv
    <2>2. /\ UNCHANGED <<report, reported, written>> /\ worker[w] # Idle /\ Goto(w, Idle)
          /\ claim' = claim \/ (claim' = [claim EXCEPT ![i] = "failed"] /\ Report(w).message \in Claimed)
          BY <1>5, <2>1 DEF Fail
    <2>3. \A j \in Ids : claim'[j] # "none" <=> claim[j] # "none"
          BY <2>1, <2>2 DEF ReportInv, ReportTypes, ClaimInv, HasClaim
    <2>4. \A v \in Workers : worker'[v] # Idle => worker[v] # Idle /\ worker'[v].id = worker[v].id
          BY <2>2, Moves DEF ReportInv
    <2> QED BY <2>2, <2>3, <2>4, ClaimsStay
  <1>6. ASSUME NEW s \in Stops, StopStep(s)
        PROVE  ClaimInv' /\ UNCHANGED Inbox!inbox
    <2>1. UNCHANGED reports /\ written' = written
      <3>1. ASSUME NEW c \in Customers, OptOut(s, c) PROVE UNCHANGED reports /\ written' = written
            BY <3>1 DEF OptOut, history
      <3> QED BY <1>6, <3>1 DEF StopStep, Match, LogConsent, AnswerStop, FailStop, history
    <2> QED BY <2>1, ClaimsStay DEF reports
  <1>7. ASSUME NEW c \in Customers, AddCustomer(c) \/ Anonymize(c)
        PROVE  ClaimInv' /\ UNCHANGED Inbox!inbox
        BY <1>7, ClaimsStay DEF AddCustomer, Anonymize, reports, history
  <1> QED BY <1>1, <1>2, <1>3, <1>4, <1>5, <1>6, <1>7, ClaimReceive, ClaimWrite DEF Next, CallbackStep

\* handleResendEvent has each report taken by one handler at most and written once at most, for any
\* number of reports, handlers and faults: every step is one of the inbox, or leaves it.
THEOREM ReportsTakenOnce == Spec => ImplementsInbox
  <1>1. ReportInv /\ ClaimInv /\ [Next]_vars => ClaimInv' /\ [Inbox!InboxNext]_(Inbox!inbox)
        BY ClaimStep
  <1> QED BY <1>1, ClaimInit, ReportInit, ReportStep, PTL DEF Spec, ImplementsInbox, Inbox!InboxSpec

\* By the inbox alone: a claimed report is written once at most, and only after its claim.
THEOREM ReportsWrittenOnce == Spec => []Inbox!AppliedOnce
  <1>1. Inbox!InboxInit => Inbox!AppliedOnce
        BY DEF Inbox!InboxInit, Inbox!AppliedOnce
  <1>2. Inbox!AppliedOnce /\ [Inbox!InboxNext]_(Inbox!inbox) => Inbox!AppliedOnce'
    <2> SUFFICES ASSUME Inbox!AppliedOnce, [Inbox!InboxNext]_(Inbox!inbox)
                 PROVE  Inbox!AppliedOnce'
        OBVIOUS
    <2>1. CASE UNCHANGED Inbox!inbox
          BY <2>1 DEF Inbox!inbox, Inbox!AppliedOnce
    <2>2. ASSUME NEW d \in Ids, Inbox!Take(d)
          PROVE  Inbox!AppliedOnce'
          BY <2>2 DEF Inbox!Take, Inbox!AppliedOnce
    <2>3. ASSUME NEW d \in Ids, Inbox!Apply(d)
          PROVE  Inbox!AppliedOnce'
      <3> DEFINE taken == {i \in Ids : claim[i] # "none"}
                 eff == [i \in Ids |-> IF report[i].message \in Claimed THEN written[i] ELSE 0]
      <3>1. d \in taken /\ taken' = taken /\ eff' = [eff EXCEPT ![d] = 1]
            BY <2>3 DEF Inbox!Apply
      <3>2. eff \in [Ids -> 0 .. 1] /\ \A i \in Ids : eff[i] = 1 => i \in taken
            BY DEF Inbox!AppliedOnce
      <3>3. eff' \in [Ids -> 0 .. 1] /\ \A i \in Ids : eff'[i] = 1 => i \in taken'
        <4> HIDE DEF taken, eff
        <4> QED BY <3>1, <3>2
      <3> QED BY <3>3 DEF Inbox!AppliedOnce
    <2> QED BY <2>1, <2>2, <2>3 DEF Inbox!InboxNext
  <1> QED BY <1>1, <1>2, ReportsTakenOnce, PTL DEF ImplementsInbox, Inbox!InboxSpec
-----------------------------------------------------------------------------
FaultsBounded == faults \in 0..MaxFaults

\* Only the two kinds of failures change the count of faults.
LEMMA FaultsStep == FaultsBounded /\ [Next]_vars => FaultsBounded'
  <1> SUFFICES ASSUME FaultsBounded, [Next]_vars PROVE FaultsBounded'
      OBVIOUS
  <1>1. faults' = faults \/ (faults < MaxFaults /\ faults' = faults + 1)
    <2>1. CASE UNCHANGED vars
          BY <2>1 DEF vars
    <2>2. ASSUME NEW m \in Messages, RecordSent(m) \/ Reports(m) PROVE faults' = faults
          BY <2>2 DEF RecordSent, Reports
    <2>3. ASSUME NEW w \in Workers, CallbackStep(w), ~Fail(w) PROVE faults' = faults
      <3>1. ASSUME NEW i \in Ids, Receive(w, i) PROVE faults' = faults
            BY <3>1 DEF Receive
      <3>2. CASE ReadMessage(w) \/ WriteStatus(w)
            BY <3>2 DEF ReadMessage, WriteStatus
      <3> QED BY <2>3, <3>1, <3>2 DEF CallbackStep
    <2>4. ASSUME NEW s \in Stops, StopStep(s), ~FailStop(s) PROVE faults' = faults
      <3>1. ASSUME NEW c \in Customers, OptOut(s, c) PROVE faults' = faults
            BY <3>1 DEF OptOut
      <3>2. CASE Match(s) \/ LogConsent(s) \/ AnswerStop(s)
            BY <3>2 DEF Match, LogConsent, AnswerStop
      <3> QED BY <2>4, <3>1, <3>2 DEF StopStep
    <2>5. ASSUME NEW c \in Customers, AddCustomer(c) \/ Anonymize(c) PROVE faults' = faults
          BY <2>5 DEF AddCustomer, Anonymize
    <2>6. ASSUME NEW w \in Workers, Fail(w) PROVE faults < MaxFaults /\ faults' = faults + 1
          BY <2>6 DEF Fail
    <2>7. ASSUME NEW s \in Stops, FailStop(s) PROVE faults < MaxFaults /\ faults' = faults + 1
          BY <2>7 DEF FailStop
    <2> QED BY <2>1, <2>2, <2>3, <2>4, <2>5, <2>6, <2>7 DEF Next
  <1> QED BY <1>1, CallbackAssumption DEF FaultsBounded

\* Reports, rows, customers and handlers keep their types, for any numbers of them.
THEOREM TypeCorrect == Spec => []TypeOK
  <1>1. Init => FaultsBounded
        BY CallbackAssumption DEF Init, FaultsBounded
  <1>2. ReportInv /\ ConsentInv /\ ClaimInv /\ FaultsBounded => TypeOK
    <2>1. ReportInv => ReportTypes /\ Records = [message : Messages, status : Statuses]
          BY DEF ReportInv, Records
    <2>2. ConsentInv => ConsentTypes
          BY DEF ConsentInv
    <2>3. ClaimInv => written \in [Ids -> Nat]
          BY DEF ClaimInv
    <2> QED BY <2>1, <2>2, <2>3 DEF ReportTypes, ConsentTypes, FaultsBounded, TypeOK
  <1>3. ReportInv /\ ClaimInv /\ [Next]_vars => ClaimInv'
        BY ClaimStep
  <1> QED BY <1>1, <1>2, <1>3, FaultsStep, ReportInit, ReportStep, ClaimInit, ConsentInit, ConsentStep,
             PTL DEF Spec
=============================================================================
