----------------------------- MODULE MCQuarantine -----------------------------
(* Two calls confirm the same authorization; one operator recovers.        *)
EXTENDS Quarantine, TLC

CONSTANTS e1, e2, a1, r1

MCAuthOf == e1 :> a1 @@ e2 :> a1
=============================================================================
