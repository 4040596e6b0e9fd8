----------------------------- MODULE MCZoneSpec -----------------------------
(* A zone of 3 bitmap qwords of 2 chunks each, a 3-entry free slot cache,  *)
(* one canary draw and retirement after 6 allocations (6 chunks x 1).      *)
EXTENDS ZoneSpec
=============================================================================
