--------------------------- MODULE MCCollectionRuns ---------------------------
(* An e-book run of two items and an archive run of one or two; a cfg takes *)
(* those it needs.                                                          *)
EXTENDS CollectionRuns

CONSTANTS e, a, e1, e2, a1, a2, p, q

MCKindOf == [r \in Run |-> IF r = e THEN "EBOOK" ELSE "ARCHIVE"]
MCPlanOf == [i \in Item |-> IF i \in {e1, e2} THEN e ELSE a]
=============================================================================
