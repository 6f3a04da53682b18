------------------------- MODULE MCCandidateHashing -------------------------
(* Files that are copies at first, and other bytes with another fingerprint. *)
EXTENDS CandidateHashing

CONSTANTS h1, h2, x, z

MCBytesOf == [f \in Files |-> x]
MCQuickOf == [b \in Bytes |-> IF b = z THEN 2 ELSE 1]
=============================================================================
