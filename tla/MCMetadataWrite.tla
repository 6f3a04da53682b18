---------------------------- MODULE MCMetadataWrite ----------------------------
(* Two calls of execute() for one authorization, one operator recovers.    *)
EXTENDS MetadataWrite

CONSTANTS x1, x2, r1
=============================================================================
