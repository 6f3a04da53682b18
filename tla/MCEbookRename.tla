---------------------------- MODULE MCEbookRename ----------------------------
EXTENDS EbookRename, TLC

CONSTANTS p1, p2

Callers == Permutations({p1, p2})
=============================================================================
