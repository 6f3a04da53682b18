---------------------------- MODULE MCSurfaceJobs ----------------------------
(* Two fixity requests with one key, an execute request and its retry with  *)
(* the same key, and a recover request; a cfg takes those it needs.         *)
EXTENDS SurfaceJobs

CONSTANTS f1, f2, x1, x2, v1, wa, wo, wp, key, in

MCKindOf ==
    [r \in Request |-> CASE r \in {f1, f2} -> "FIXITY"
                         [] r \in {x1, x2} -> "EXECUTE"
                         [] r = v1 -> "RECOVER"]
MCSent == {{f1, f2}, {x1, v1}, {x1, x2}}
MCKeyOf == [r \in Request |-> key]
MCInputOf == [r \in Request |-> in]
MCRoleOf == [w \in Worker |-> IF w = wa THEN "ANALYSIS" ELSE "OPERATOR"]
=============================================================================
