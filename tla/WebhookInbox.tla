----------------------------- MODULE WebhookInbox -----------------------------
(***************************************************************************)
(* What the table processed_webhook_events is for, whoever delivers: each  *)
(* delivery of a provider is taken at most once, and its effect committed  *)
(* at most once, and only after it was taken.  A delivery that was taken   *)
(* may never take effect: whoever took it can stop.                        *)
(***************************************************************************)
EXTENDS Integers

CONSTANT Deliveries

VARIABLES taken,    \* deliveries that somebody has claimed
          effects   \* effects[d]: how many times the effect of d was committed

inbox == <<taken, effects>>

InboxInit == /\ taken = {}
             /\ effects = [d \in Deliveries |-> 0]

Take(d) == /\ d \in Deliveries \ taken
           /\ taken' = taken \cup {d}
           /\ UNCHANGED effects

Apply(d) == /\ d \in taken /\ effects[d] = 0
            /\ effects' = [effects EXCEPT ![d] = 1]
            /\ UNCHANGED taken

InboxNext == \E d \in Deliveries : Take(d) \/ Apply(d)

InboxSpec == InboxInit /\ [][InboxNext]_inbox

\* No delivery takes effect twice, or before it was taken.
AppliedOnce == /\ effects \in [Deliveries -> 0 .. 1]
               /\ \A d \in Deliveries : effects[d] = 1 => d \in taken
=============================================================================
