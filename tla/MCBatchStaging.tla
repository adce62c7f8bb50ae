--------------------------- MODULE MCBatchStaging ---------------------------
(* Three repositories: two remote ones of one application whose names end    *)
(* alike, and a local one of another application.                            *)
EXTENDS BatchStaging

CONSTANTS a1, a2, svc, lib, org1_svc, org2_svc, r1, r2, l1

MCNameOf == (r1 :> org1_svc) @@ (r2 :> org2_svc) @@ (l1 :> lib)
MCTailOf == (r1 :> svc) @@ (r2 :> svc) @@ (l1 :> lib)
MCAppOf == (r1 :> a1) @@ (r2 :> a1) @@ (l1 :> a2)
MCLists == {<<r2>>, <<r1, r2>>, <<l1, r1>>}
=============================================================================
