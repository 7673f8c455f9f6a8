--------------------------- MODULE AssistantConfirm ---------------------------
(***************************************************************************)
(* What the assistant may change: it proposes an update of a customer or a *)
(* new time for an appointment, and the owner confirms.  Nothing is stored *)
(* in between: the proposal is a signed token that says what was there     *)
(* when it was made, and may be confirmed for some minutes, again and      *)
(* twice at once.  Confirming reads the row, compares it and hands the     *)
(* change to the services of the staff.  So this module extends            *)
(* VisitLifecycle: the appointments, the staff and the cron job are its.   *)
(***************************************************************************)
EXTENDS VisitLifecycle

CONSTANTS Confirms,      \* the requests that confirm a token
          Tokens,        \* tokens that can be issued
          Life,          \* ticks for which one can be confirmed
          Columns,       \* of a customer
          Required,      \* and those that are never empty, as the name
          Texts,         \* what is written there
          Null, Blank,   \* nothing, and the empty text
          Unsaid,        \* no notes in the proposal
          MaxProfileEdits   \* bound: changes of the customer by staff

ASSUME AssistantAssumption ==
    /\ Confirms \subseteq Requests
    /\ Required \subseteq Columns
    /\ Life \in Nat /\ MaxProfileEdits \in Nat
    /\ Null \notin Texts /\ Blank \notin Texts \cup {Null}
    /\ Unsaid \notin Texts \cup {Null, Blank}

VARIABLES notes,         \* appointments.notes
          customer,      \* the customer's columns
          token,         \* the tokens that were issued
          confirm,       \* the confirmations in flight, between the check and the write
          profileEdits,
          inEffect       \* history: tokens that took effect, while their row is as they left it

rows == <<appt, notes, customer>>
assistantVars == <<vars, notes, customer, token, confirm, profileEdits, inEffect>>
-----------------------------------------------------------------------------
NoToken == [action |-> "none"]

Profile == [Columns -> Texts \cup {Null}]
Changes == UNION {[named -> Texts \cup {Blank}] : named \in SUBSET Columns \ {{}}}
Notes == Texts \cup {Null, Blank}
Snapshot == [scheduledAt : Times, notes : Notes, recorded : BOOLEAN]

CustomerToken == [action : {"update_customer"}, expected : Profile, changes : Changes,
                  expiresAt : Nat]
ApptToken == [action : {"reschedule_appointment"}, appt : Appts, expected : Snapshot,
              to : Times, notes : Texts \cup {Blank, Unsaid}, expiresAt : Nat]

\* What a confirmation compares, and so all that it notices.
Current(p) ==
    IF p.action = "update_customer" THEN customer
    ELSE [scheduledAt |-> appt[p.appt].scheduledAt, notes |-> notes[p.appt],
          recorded |-> appt[p.appt].recorded]

AssistantInit ==
    /\ Init
    /\ notes \in [Appts -> {Null}]
    /\ customer \in {c \in Profile : \A k \in Required : c[k] # Null}
    /\ token = [t \in Tokens |-> NoToken]
    /\ confirm = [q \in Confirms |-> Idle]
    /\ profileEdits = 0
    /\ inEffect = {}

\* A token is in effect until its row looks different.
StillInEffect == {t \in inEffect : Current(token[t])' = Current(token[t])}
TakesEffect(t) == StillInEffect \cup {u \in {t} : Current(token[u])' # Current(token[u])}
-----------------------------------------------------------------------------
(* executeTool: proposals *)

Issue(t, p) == /\ token[t] = NoToken
               /\ token' = [token EXCEPT ![t] = p]
               /\ UNCHANGED <<vars, notes, customer, confirm, profileEdits, inEffect>>

\* An empty text clears a column; an empty name is not taken for a change.
ProposeUpdate(t) ==
    \E changes \in Changes :
       /\ \A k \in Required \cap DOMAIN changes : changes[k] # Blank
       /\ Issue(t, [action |-> "update_customer", expected |-> customer, changes |-> changes,
                    expiresAt |-> now + Life])

ProposeReschedule(t) ==
    \E a \in Appts, to \in Times, said \in Texts \cup {Blank, Unsaid} :
       /\ to > now
       /\ ~appt[a].recorded
       /\ Issue(t, [action |-> "reschedule_appointment", appt |-> a,
                    expected |-> [scheduledAt |-> appt[a].scheduledAt, notes |-> notes[a],
                                  recorded |-> FALSE],
                    to |-> to, notes |-> said, expiresAt |-> now + Life])
-----------------------------------------------------------------------------
(* confirm *)

\* The change is found in place: a text that cleared a column never is, for null is stored.
InPlace(p) ==
    IF p.action = "update_customer"
    THEN \A k \in DOMAIN p.changes : customer[k] = p.changes[k]
    ELSE appt[p.appt].scheduledAt = p.to /\ p.notes \in {Unsaid, notes[p.appt]}

\* Mutant: the token is all that counts.
MayChange_ByToken(p) == now <= p.expiresAt

\* Otherwise it is answered "already applied", or refused as expired or stale, with no change.
MayChange(p) == now <= p.expiresAt /\ ~InPlace(p) /\ Current(p) = p.expected

Confirm(q, t) ==
    /\ confirm[q] = Idle /\ token[t] # NoToken
    /\ MayChange(token[t])
    /\ confirm' = [confirm EXCEPT ![q] = [step |-> token[t].action, token |-> t,
                                          again |-> t \in inEffect]]
    /\ UNCHANGED <<vars, notes, customer, token, profileEdits, inEffect>>

Done(q) == confirm' = [confirm EXCEPT ![q] = Idle]

\* An empty text is stored as null, except in the name, which is stored as it is.
Stored(k, text) == IF text = Blank /\ k \notin Required THEN Null ELSE text

\* CustomersService.update writes the columns it is given.
UpdateCustomer(q, t) ==
    LET changes == token[t].changes IN
    /\ confirm[q].step = "update_customer" /\ confirm[q].token = t
    /\ customer' = [k \in Columns |->
                       IF k \in DOMAIN changes THEN Stored(k, changes[k]) ELSE customer[k]]
    /\ Done(q)
    /\ UNCHANGED <<vars, notes, token, profileEdits>>
    /\ inEffect' = TakesEffect(t)

\* Mutant: the appointment is written with what confirm has read of it.
UpdateReads_NotAgain(q) ==
    LET p == token[confirm[q].token] IN
    /\ confirm[q].step = "reschedule_appointment"
    /\ edits < MaxEdits /\ edits' = edits + 1
    /\ req' = [req EXCEPT ![q] = [step |-> "reschedule", appt |-> p.appt, to |-> p.to]]
    /\ confirm' = [confirm EXCEPT ![q].step = "write"]
    /\ UNCHANGED <<now, appt, visitCount, pass, counted, unrecorded, visits, faults, notes,
                   customer, token, profileEdits, inEffect>>

\* AppointmentsService.update reads the appointment again, as it does for staff ...
UpdateReads(q) ==
    LET p == token[confirm[q].token] IN
    /\ confirm[q].step = "reschedule_appointment"
    /\ RescheduleBegin(q, p.appt, p.to)
    /\ confirm' = [confirm EXCEPT ![q].step = "write"]
    /\ UNCHANGED <<notes, customer, token, profileEdits, inEffect>>

\* ... and refuses one that was completed since ...
UpdateRefuses(q) ==
    /\ confirm[q].step = "reschedule_appointment"
    /\ appt[token[confirm[q].token].appt].recorded
    /\ Done(q)
    /\ UNCHANGED <<vars, notes, customer, token, profileEdits, inEffect>>

\* ... or writes it: scheduled, whatever its status is, with the notes if there are any.
UpdateWrites(q, t) ==
    LET p == token[t] IN
    /\ confirm[q].step = "write" /\ confirm[q].token = t
    /\ RescheduleWrite(q)
    /\ notes' = IF p.notes = Unsaid THEN notes ELSE [notes EXCEPT ![p.appt] = p.notes]
    /\ Done(q)
    /\ UNCHANGED <<customer, token, profileEdits>>
    /\ inEffect' = TakesEffect(t)

\* The process stops, or a query fails.
Drop(q) ==
    /\ confirm[q] # Idle
    /\ Done(q)
    /\ IF confirm[q].step = "write" THEN Abort(q) ELSE UNCHANGED vars
    /\ UNCHANGED <<notes, customer, token, profileEdits, inEffect>>
-----------------------------------------------------------------------------
(* Staff, the cron job and the clock *)

EditCustomer ==
    /\ profileEdits < MaxProfileEdits /\ profileEdits' = profileEdits + 1
    /\ customer' \in {c \in Profile : \A k \in Required : c[k] # Null}
    /\ UNCHANGED <<vars, notes, token, confirm>>
    /\ inEffect' = StillInEffect

\* Notes are changed alone or along with the time.
EditNotes ==
    /\ profileEdits < MaxProfileEdits /\ profileEdits' = profileEdits + 1
    /\ \/ /\ \E a \in Appts, text \in Texts : notes' = [notes EXCEPT ![a] = text]
          /\ UNCHANGED vars
       \/ \E r \in Requests \ Confirms, text \in Texts :
             /\ RescheduleWrite(r)
             /\ notes' = [notes EXCEPT ![req[r].appt] = text]
    /\ UNCHANGED <<customer, token, confirm>>
    /\ inEffect' = StillInEffect

VisitStep == \/ \E a \in Appts : StaffStep(a)
             \/ \E r \in Requests \ Confirms : RequestStep(r)
             \/ \E p \in Passes : PassStep(p) \/ PassFails(p)
             \/ Tick

VisitsGoOn == /\ VisitStep
              /\ UNCHANGED <<notes, customer, token, confirm, profileEdits>>
              /\ inEffect' = StillInEffect
-----------------------------------------------------------------------------
ConfirmStep(q) == \/ \E t \in Tokens : Confirm(q, t) \/ UpdateCustomer(q, t) \/ UpdateWrites(q, t)
                  \/ UpdateReads(q) \/ UpdateRefuses(q)
                  \/ Drop(q)

AssistantNext ==
    \/ \E t \in Tokens : ProposeUpdate(t) \/ ProposeReschedule(t)
    \/ \E q \in Confirms : ConfirmStep(q)
    \/ EditCustomer \/ EditNotes
    \/ VisitsGoOn

AssistantSpec == AssistantInit /\ [][AssistantNext]_assistantVars
-----------------------------------------------------------------------------
(* Properties *)

\* Proposals, confirmations, the customer and the notes keep their types beside the appointments:
\* no proposal empties a column that must not be empty, and a confirmation has a token that was
\* issued.
AssistantTypeOK ==
    /\ TypeOK
    /\ notes \in [Appts -> Notes]
    /\ customer \in Profile /\ \A k \in Required : customer[k] # Null
    /\ \A t \in Tokens : token[t] \in {NoToken} \cup ApptToken \/ token[t] \in CustomerToken
    /\ confirm \in [Confirms -> {Idle} \cup
                       [step : {"update_customer", "reschedule_appointment", "write"},
                        token : Tokens, again : BOOLEAN]]
    /\ \A q \in Confirms : confirm[q] # Idle => token[confirm[q].token] # NoToken
    /\ profileEdits \in 0..MaxProfileEdits
    /\ inEffect \subseteq {t \in Tokens : token[t] # NoToken}

\* To the appointments, the assistant is one more member of the staff: whatever it proposes and
\* the owner confirms, twice or late, they go through nothing that staff could not do.
ActsAsStaff == Spec

\* Confirming changes the columns that were proposed, and what a confirmation compares only once:
\* as long as nobody else changes it after the token took effect, every other confirmation of the
\* token, also one that was checked at the same time, leaves it as it is.  One that is checked
\* after that writes nothing at all; so it does not put back to scheduled the appointment of a
\* customer who has arrived.  (The second of two that were checked together does: confirm does
\* not compare the status.)
ConfirmedOnly ==
    [][\A q \in Confirms, t \in Tokens :
          confirm[q] # Idle /\ confirm[q].token = t /\ confirm'[q] # confirm[q] =>
          /\ confirm[q].step = "update_customer" =>
                \A k \in Columns \ DOMAIN token[t].changes : customer'[k] = customer[k]
          /\ t \in inEffect => Current(token[t])' = Current(token[t])
          /\ t \in inEffect /\ confirm[q].again => UNCHANGED rows]_assistantVars
=============================================================================
