------------------------------ MODULE MCIsoRoot ------------------------------
(* IsoRoot for TLC: sizes scaled so that a zone holds one to four chunks. *)
EXTENDS IsoRoot

MCDefaultZones == <<2, 4>>

(* last is written by every step and read by none, so states that differ *)
(* only in it have the same futures.  An abort ends the process, and the *)
(* zones it leaves are those of the state it was taken from, which was   *)
(* checked: all aborts for one reason are one state.  Zone cache entries *)
(* at or past zone_cache_count are never read (the probes stop at the     *)
(* count, and populate_zone_cache reads the entry below it), so only the  *)
(* entries below the count tell states apart.  A zone with no slot left   *)
(* by its counts is refused by is_zone_usable whether or not is_full is   *)
(* set, and is set by the refusal: its is_full is left out as well.       *)
ViewZone(z) ==
  [chunk_size |-> z.chunk_size, internal |-> z.internal, next_sz_index |-> z.next_sz_index,
   af_count |-> z.af_count, alloc_count |-> z.alloc_count,
   is_full |-> z.is_full \/ (z.chunk_size # 0 /\ ~HasFreeSlot(z))]

(* zones = zones always holds: comparing zones as a whole puts its value *)
(* in TLC's normal form, without which TLC fails with an                 *)
(* ArrayIndexOutOfBoundsException on a view that only applies it.       *)
RootView ==
  IF aborted # NONE \/ zones # zones THEN aborted
  ELSE <<[i \in ZoneIdx |-> ViewZone(zones[i])],
         zones_used, zone_lookup_table,
         [k \in DOMAIN zone_cache |-> IF k < zone_cache_count THEN zone_cache[k] ELSE NONE], zone_cache_count>>
=============================================================================
