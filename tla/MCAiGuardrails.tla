---------------------------- MODULE MCAiGuardrails ----------------------------
(* Instances of AiGuardrails: two users ask one thing each, again and again; every quota is reached. *)
EXTENDS AiGuardrails, TLC

CONSTANTS k1, k2, u1, u2

UserOfKey == (k1 :> u1) @@ (k2 :> u2)
=============================================================================
