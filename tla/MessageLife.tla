------------------------------ MODULE MessageLife ------------------------------
(***************************************************************************)
(* What the records of messages promise, whoever writes them and in what   *)
(* order: a message is put in line once, and then is sent or has failed.   *)
(* Only one that the provider took is sent, is repaired after it failed,   *)
(* or is charged, at most once.  A failure that the provider confirmed is  *)
(* the end.  Dispatch.tla implements it.                                   *)
(***************************************************************************)
EXTENDS Naturals

CONSTANT Messages

VARIABLES life,     \* none, queued, sent, failed, or dead: failed for good
          taken,    \* messages that the provider took
          charges   \* charges[m]: the credits recorded for m

lives == <<life, taken, charges>>

LifeInit == /\ life = [m \in Messages |-> "none"]
            /\ taken = {}
            /\ charges = [m \in Messages |-> 0]

\* From one stage of its life to the next.
Becomes(m, from, to) == /\ life[m] \in from
                        /\ life' = [life EXCEPT ![m] = to]

Queue(m) == Becomes(m, {"none"}, "queued") /\ UNCHANGED <<taken, charges>>

Take(m) == /\ life[m] = "queued"
           /\ taken' = taken \cup {m}
           /\ UNCHANGED <<life, charges>>

Send(m) == m \in taken /\ Becomes(m, {"queued"}, "sent") /\ UNCHANGED <<taken, charges>>

Fail(m) == Becomes(m, {"queued"}, "failed") /\ UNCHANGED <<taken, charges>>

\* It had not failed after all; now it is charged.
Repair(m) == /\ m \in taken /\ Becomes(m, {"failed"}, "sent")
             /\ charges' = [charges EXCEPT ![m] = 1]
             /\ UNCHANGED taken

Charge(m) == /\ m \in taken /\ life[m] \in {"sent", "dead"} /\ charges[m] = 0
             /\ charges' = [charges EXCEPT ![m] = 1]
             /\ UNCHANGED <<life, taken>>

ConfirmFailure(m) == /\ m \in taken /\ Becomes(m, {"sent", "failed"}, "dead")
                     /\ UNCHANGED <<taken, charges>>

LifeNext == \E m \in Messages : \/ Queue(m) \/ Take(m) \/ Send(m) \/ Fail(m)
                                \/ Repair(m) \/ Charge(m) \/ ConfirmFailure(m)

LifeSpec == LifeInit /\ [][LifeNext]_lives

\* A message costs one credit at most, only if the provider took it, and nothing while it is
\* in line or counts as failed.
FailedIsFree ==
    \A m \in Messages : /\ charges[m] <= 1
                        /\ charges[m] > 0 => m \in taken /\ life[m] \in {"sent", "dead"}
=============================================================================
