--------------------------- MODULE MCDeliveryCallbacks ---------------------------
(* Instances of DeliveryCallbacks: one message through Resend, one through Twilio. *)
EXTENDS DeliveryCallbacks, TLC

\* Reports and STOPs share no state but the count of faults, and no property relates them: a
\* state in which both have begun is not followed.
OneOfTheTwo == \/ reported = 0 /\ known = {}
               \/ /\ \A c \in Customers : customer[c] = "absent"
                  /\ \A s \in Stops : stop[s] = Idle

Symmetry == Permutations(Workers) \cup Permutations(Stops) \cup Permutations(Customers)
=============================================================================
