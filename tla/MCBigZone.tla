------------------------------ MODULE MCBigZone ------------------------------
(* BigZone for TLC: three metadata records, requests of one or two pages  *)
(* and one above BIG_SZ_MAX, at a scaled-down page size.  Entries are     *)
(* interchangeable, and so are threads; mappings are placed by CHOOSE     *)
(* (Pages), so they need no symmetry.                                    *)
EXTENDS BigZone, TLC

EntrySymmetry == Permutations(Entries) \cup Permutations(Threads)
=============================================================================
