--------------------------- MODULE MCScanRootLease ---------------------------
(* Three attempts on one root.  a and b belong to the same run and even     *)
(* draw the same token (the ABA case of ADR-0027); c is a preparation,     *)
(* whose kind no workflow takes over.                                      *)
EXTENDS ScanRootLease, TLC

CONSTANTS a, b, c, rename, prep, r1, r2, tok1, tok2

MCRunOf == a :> r1 @@ b :> r1 @@ c :> r2
MCKindOf == a :> rename @@ b :> rename @@ c :> prep
MCTokenOf == a :> tok1 @@ b :> tok1 @@ c :> tok2
=============================================================================
