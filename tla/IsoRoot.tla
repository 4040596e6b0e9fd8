------------------------------ MODULE IsoRoot ------------------------------
(***************************************************************************)
(* The root's zone table (iso_alloc.c): _root->zones[0 .. zones_used-1],   *)
(* zone_lookup_table (chunk size -> first zone of that size, 0 for none)   *)
(* and the next_sz_index chains linking zones of one size, with the thread *)
(* zone cache in front of them.  Every step below runs under the root lock *)
(* except the zone cache, which is thread-local, so each call is one step: *)
(*   Alloc       _iso_alloc(NULL, size) for a small size: cache probe,     *)
(*               iso_find_zone_fit, else _iso_new_zone;                    *)
(*   NewPrivate  iso_new_zone(size, false);                                *)
(*   PrivAlloc   _iso_alloc(zone, size) on a private zone;                 *)
(*   Free        _iso_free_internal_unlocked on a chunk of a zone: the     *)
(*               iso_find_zone_range lookup, the free and the              *)
(*               retire-and-replace path;                                  *)
(*   FreeSize    _iso_free_size on a small chunk;                          *)
(*   ChunkSize   the small-zone path of _iso_chunk_size;                   *)
(*   Destroy     _iso_alloc_destroy_zone on a private zone;                *)
(*   VerifyZones verify_all_zones: the structural checks of _verify_zone.  *)
(* A zone's bitmap is abstracted to af_count against its chunk count (the  *)
(* bitmap itself is IsoZone's); alloc_count saturates one past the         *)
(* retirement threshold, the only comparison it takes part in.            *)
(***************************************************************************)
EXTENDS Integers, Sequences

CONSTANTS
  MAX_ZONES,
  SMALLEST_CHUNK_SZ,
  SMALL_SZ_MAX,
  ZONE_128,
  ZONE_1024,
  MAX_DEFAULT_ZONE_SZ,
  ZONE_USER_SIZE,
  ZONE_ALLOC_RETIRE,
  WASTED_SZ_MULTIPLIER_SHIFT,
  ALIGNMENT,
  ZONE_CACHE_SZ,
  SIZE_T_BITS,
  DEFAULT_ZONES,   \* default_zones[], created by iso_alloc_initialize_global_root
  REQS             \* the small request sizes callers pass

LOCAL P == INSTANCE Pages WITH PAGE_SIZE <- 1, Regions <- {}, MAX_MAP_PAGES <- 1

ZoneIdx == 0 .. MAX_ZONES - 1
NONE == "none"

(* GET_CHUNK_COUNT.                                                        *)
ChunkCount(cs) == ZONE_USER_SIZE \div cs

(* The value alloc_count is capped at: one past the retirement threshold. *)
AllocCap(cs) == ChunkCount(cs) * ZONE_ALLOC_RETIRE + 1


ALIGN_SZ_UP(n) == ((n + ALIGNMENT - 1) \div ALIGNMENT) * ALIGNMENT

EmptyZone == [chunk_size |-> 0, internal |-> FALSE, is_full |-> FALSE,
              next_sz_index |-> 0, af_count |-> 0, alloc_count |-> 0]

VARIABLES
  zones,               \* _root->zones
  zones_used,          \* _root->zones_used
  zone_lookup_table,   \* chunk size -> zone index
  zone_cache,          \* zone_cache[]: [zone, chunk_size] entries
  zone_cache_count,
  last,                \* the operation just taken and its request
  aborted

vars == <<zones, zones_used, zone_lookup_table, zone_cache, zone_cache_count, last, aborted>>

(* Mutant: the splice walk is not bounded by zones_used.                  *)
RECURSIVE SpliceWalkUnbounded(_, _, _, _, _)
SpliceWalkUnbounded(zs, i, used, size, fuel) ==
  CASE fuel = 0                 -> [kind |-> "hang"]
    [] zs[i].chunk_size # size  -> [kind |-> "abort"]
    [] zs[i].next_sz_index # 0  -> SpliceWalkUnbounded(zs, zs[i].next_sz_index, used, size, fuel - 1)
    [] OTHER                    -> [kind |-> "tail", at |-> i]

(* The next_sz_index walk of _iso_new_zone from index i, bounded by       *)
(* zones_used: the tail of the chain, or how the loop ended.  fuel bounds *)
(* the recursion; running out of it is the loop never ending.             *)
RECURSIVE SpliceWalk(_, _, _, _, _)
SpliceWalk(zs, i, used, size, fuel) ==
  CASE i >= used                -> [kind |-> "exit"]
    [] fuel = 0                 -> [kind |-> "hang"]
    [] zs[i].chunk_size # size  -> [kind |-> "abort"]
    [] zs[i].next_sz_index # 0  -> SpliceWalk(zs, zs[i].next_sz_index, used, size, fuel - 1)
    [] OTHER                    -> [kind |-> "tail", at |-> i]

(* _iso_new_zone(size, internal) with zones_used = used: the new zone goes *)
(* at index used; an internal one is recorded in zone_lookup_table or     *)
(* spliced after the tail of its size's chain.  The caller increments     *)
(* zones_used.  kind is "ok", "null" (size past SMALL_SZ_MAX) or an abort. *)
NewZone(zs, table, used, size, internal) ==
  LET rounded == IF P!IsPow2(size) THEN size ELSE P!next_pow2(size)
      cs == IF rounded < SMALLEST_CHUNK_SZ THEN SMALLEST_CHUNK_SZ ELSE rounded
      zs1 == [zs EXCEPT ![used] = [EmptyZone EXCEPT !.chunk_size = cs, !.internal = internal]]
      w == SpliceWalk(zs1, table[cs], used, cs, MAX_ZONES)
  IN CASE used >= MAX_ZONES      -> [kind |-> "max_zones"]
       [] rounded > SMALL_SZ_MAX -> [kind |-> "null"]
       [] ~internal              -> [kind |-> "ok", zones |-> zs1, table |-> table]
       [] table[cs] = 0          -> [kind |-> "ok", zones |-> zs1, table |-> [table EXCEPT ![cs] = used]]
       [] w.kind = "tail"        -> [kind |-> "ok", zones |-> [zs1 EXCEPT ![w.at].next_sz_index = used],
                                     table |-> table]
       [] w.kind = "exit"        -> [kind |-> "ok", zones |-> zs1, table |-> table]
       [] w.kind = "abort"       -> [kind |-> "lookup_inconsistent"]
       [] OTHER                  -> [kind |-> "hang"]

(* iso_alloc_initialize_global_root: _iso_new_zone(default_zones[i], true) *)
(* for each default zone in order.                                          *)
RECURSIVE DefaultZones(_, _, _, _)
DefaultZones(zs, table, used, k) ==
  IF k > Len(DEFAULT_ZONES) THEN [zones |-> zs, table |-> table, used |-> used]
  ELSE LET n == NewZone(zs, table, used, DEFAULT_ZONES[k], TRUE)
       IN DefaultZones(n.zones, n.table, used + 1, k + 1)

Root == DefaultZones([i \in ZoneIdx |-> EmptyZone], [s \in 0 .. SMALL_SZ_MAX |-> 0], 0, 1)

Init ==
  /\ zones = Root.zones
  /\ zones_used = Root.used
  /\ zone_lookup_table = Root.table
  /\ zone_cache = [k \in 0 .. ZONE_CACHE_SZ - 1 |-> [zone |-> 0, chunk_size |-> 0]]
  /\ zone_cache_count = 0
  /\ last = [kind |-> "init", size |-> 0, zone |-> 0]
  /\ aborted = NONE

AbortEvent == [kind |-> "abort", size |-> 0, zone |-> 0]

Abort(why) ==
  /\ aborted' = why
  /\ last' = AbortEvent
  /\ UNCHANGED <<zones, zones_used, zone_lookup_table, zone_cache, zone_cache_count>>

(* Mutant: iso_does_zone_fit does not refuse private zones.               *)
ZoneFitChecksAnyZone(z, size) ==
  /\ ~(z.chunk_size >= ZONE_1024 /\ size <= ZONE_128)
  /\ z.chunk_size >= size
  /\ ~z.is_full

(* The checks of iso_does_zone_fit before it calls is_zone_usable.         *)
ZoneFitChecks(z, size) ==
  /\ ~(z.chunk_size >= ZONE_1024 /\ size <= ZONE_128)
  /\ z.chunk_size >= size
  /\ z.internal
  /\ ~z.is_full

(* is_zone_usable's refusal of an internal zone whose chunks are far      *)
(* larger than the request.                                                *)
Wasteful(z, size) ==
  z.internal /\ size > ZONE_1024 /\ z.chunk_size >= size * 2^WASTED_SZ_MULTIPLIER_SHIFT

(* A zone whose bitmap may still hold a free slot: af_count counts the    *)
(* chunks in use, and canaries and permanently freed chunks fill slots as *)
(* well, so a zone below its chunk count can still have none.              *)
HasFreeSlot(z) == z.af_count < ChunkCount(z.chunk_size)

(* The zones whose bit slot cache, fast scan and slow scan of             *)
(* is_zone_usable may all come back with BAD_BIT_SLOT in one call for a   *)
(* request of size: the zones in use that reach is_zone_usable with a slot *)
(* that may be free and a chunk in use.  Whether they do depends on the    *)
(* bitmap, which IsoZone models (MCZoneFull.cfg shows they can miss a free *)
(* chunk); here the outcome is a nondeterministic choice.  The slow scan   *)
(* skips only a qword that is not below ALLOCATED_BITSLOTS as a signed     *)
(* value, one whose last slot is in use, so a zone with no chunk in use is *)
(* always found.  Any other zone in miss would change nothing.            *)
Missable(size) ==
  { i \in 0 .. zones_used - 1 :
      /\ HasFreeSlot(zones[i]) /\ zones[i].af_count > 0
      /\ ZoneFitChecks(zones[i], ALIGN_SZ_UP(size))
      /\ ~Wasteful(zones[i], ALIGN_SZ_UP(size)) }

(* The miss sets worth trying: the probes hand out the first zone they  *)
(* reach outside miss, after marking every one they reached before it, so *)
(* any subset of ms gives the step of ms itself or of ms without the zone *)
(* that is handed out.                                                     *)
MissChoices(ms) == {ms} \cup { ms \ {j} : j \in ms }

(* is_zone_usable: a full or wasteful zone is refused; otherwise the zone *)
(* is usable if a slot is found, and is marked full if every search of it *)
(* (those in miss) comes back empty.                                       *)
IsZoneUsable(zs, i, size, miss) ==
  CASE zs[i].is_full \/ Wasteful(zs[i], size)   -> [fit |-> FALSE, zones |-> zs]
    [] HasFreeSlot(zs[i]) /\ i \notin miss     -> [fit |-> TRUE, zones |-> zs]
    [] OTHER -> [fit |-> FALSE, zones |-> [zs EXCEPT ![i].is_full = TRUE]]

(* iso_does_zone_fit, with the is_full mark is_zone_usable may leave.      *)
DoesZoneFit(zs, i, size, miss) ==
  IF ZoneFitChecks(zs[i], size) THEN IsZoneUsable(zs, i, size, miss)
  ELSE [fit |-> FALSE, zones |-> zs]

(* The zone cache probe of _iso_alloc from entry k on: the first entry    *)
(* whose cached chunk_size is large enough and whose zone fits.           *)
RECURSIVE CacheProbe(_, _, _, _)
CacheProbe(zs, k, size, miss) ==
  IF k >= zone_cache_count THEN [kind |-> "none", zones |-> zs]
  ELSE IF zone_cache[k].chunk_size < size THEN CacheProbe(zs, k + 1, size, miss)
  ELSE LET t == DoesZoneFit(zs, zone_cache[k].zone, size, miss)
       IN IF t.fit THEN [kind |-> "found", at |-> zone_cache[k].zone, zones |-> t.zones]
          ELSE CacheProbe(t.zones, k + 1, size, miss)

(* The zone_lookup_table fast path of iso_find_zone_fit from zone i.       *)
RECURSIVE ChainProbe(_, _, _, _, _)
ChainProbe(zs, i, size, fuel, miss) ==
  CASE i >= zones_used                -> [kind |-> "none", zones |-> zs]
    [] fuel = 0                       -> [kind |-> "hang"]
    [] zs[i].chunk_size # size        -> [kind |-> "lookup_size_mismatch"]
    [] ~zs[i].internal                -> [kind |-> "lookup_private_zone"]
    [] OTHER ->
         LET t == DoesZoneFit(zs, i, size, miss)
         IN CASE t.fit                    -> [kind |-> "found", at |-> i, zones |-> t.zones]
              [] zs[i].next_sz_index # 0  -> ChainProbe(t.zones, zs[i].next_sz_index, size, fuel - 1, miss)
              [] OTHER                    -> [kind |-> "none", zones |-> t.zones]

(* The linear scan of iso_find_zone_fit over zones i .. zones_used - 1.   *)
RECURSIVE ScanProbe(_, _, _, _)
ScanProbe(zs, i, size, miss) ==
  IF i >= zones_used THEN [kind |-> "none", zones |-> zs]
  ELSE LET t == DoesZoneFit(zs, i, size, miss)
       IN IF t.fit THEN [kind |-> "found", at |-> i, zones |-> t.zones]
          ELSE ScanProbe(t.zones, i + 1, size, miss)

(* Mutant: iso_find_zone_fit gives up when the size chain has no fit.    *)
FindZoneFitChainOnly(zs, size, miss) ==
  LET asz == ALIGN_SZ_UP(size)
  IN IF zone_lookup_table[asz] # 0
     THEN ChainProbe(zs, zone_lookup_table[asz], asz, MAX_ZONES, miss)
     ELSE [kind |-> "none", zones |-> zs]

(* iso_find_zone_fit: align the size, walk its size chain, then scan all  *)
(* zones from index 0.                                                     *)
FindZoneFit(zs, size, miss) ==
  LET asz == ALIGN_SZ_UP(size)
      c == IF zone_lookup_table[asz] # 0
           THEN ChainProbe(zs, zone_lookup_table[asz], asz, MAX_ZONES, miss)
           ELSE [kind |-> "none", zones |-> zs]
  IN IF c.kind = "none" THEN ScanProbe(c.zones, 0, asz, miss) ELSE c

(* _iso_alloc_bitslot_from_zone: one more chunk in use.                    *)
Serve(zs, i) ==
  [zs EXCEPT ![i].af_count = @ + 1,
             ![i].alloc_count = IF @ < AllocCap(zs[i].chunk_size) THEN @ + 1 ELSE @]

(* The zone cache probe of _iso_alloc, then iso_find_zone_fit, with the  *)
(* searches of the zones in miss coming back empty: the zone found and the *)
(* zones as is_zone_usable left them, an abort of the size chain walk, or *)
(* none.                                                                   *)
ZoneSearch(size, miss) ==
  LET c == CacheProbe(zones, 0, size, miss)
  IN IF c.kind = "found" THEN c ELSE FindZoneFit(c.zones, size, miss)

(* _iso_alloc(NULL, size) for size <= SMALL_SZ_MAX: the zone the searches *)
(* find, else a new internal zone at index zones_used; a chunk of it is   *)
(* handed out.  The zone cache is only populated here for a private zone, *)
(* which never reaches this path.                                         *)
Alloc(size) ==
  /\ aborted = NONE
  /\ \E f \in { ZoneSearch(size, miss) : miss \in MissChoices(Missable(size)) } :
       CASE f.kind = "found" ->
              /\ zones' = Serve(f.zones, f.at)
              /\ last' = [kind |-> "alloc", size |-> size, zone |-> f.at]
              /\ UNCHANGED <<zones_used, zone_lookup_table, aborted>>
         [] f.kind # "none" -> Abort(f.kind)
         [] OTHER ->
              LET n == NewZone(f.zones, zone_lookup_table, zones_used, size, TRUE)
              IN CASE n.kind = "ok" ->
                        /\ zones' = Serve(n.zones, zones_used)
                        /\ zone_lookup_table' = n.table
                        /\ zones_used' = zones_used + 1
                        /\ last' = [kind |-> "new_zone", size |-> size, zone |-> zones_used]
                        /\ UNCHANGED aborted
                   [] n.kind = "null" -> Abort("zone_create_failed")
                   [] OTHER -> Abort(n.kind)
  /\ UNCHANGED <<zone_cache, zone_cache_count>>

(* iso_new_zone(size, false): a private zone at index zones_used, outside *)
(* the lookup tables.                                                      *)
NewPrivate(size) ==
  LET n == NewZone(zones, zone_lookup_table, zones_used, size, FALSE)
  IN /\ aborted = NONE
     /\ IF n.kind = "ok"
        THEN /\ zones' = n.zones
             /\ zones_used' = zones_used + 1
             /\ last' = [kind |-> "new_private", size |-> size, zone |-> zones_used]
             /\ UNCHANGED <<zone_lookup_table, zone_cache, zone_cache_count, aborted>>
        ELSE Abort(n.kind)

(* _iso_alloc(zone, size) on a private zone: a size above its chunk size   *)
(* aborts; otherwise is_zone_usable decides between a chunk and NULL.     *)
PrivAlloc(i, size, miss) ==
  LET u == IsZoneUsable(zones, i, size, miss)
  IN /\ aborted = NONE
     /\ i < zones_used
     /\ ~zones[i].internal
     /\ IF size > zones[i].chunk_size THEN Abort("private_zone_size")
        ELSE /\ zones' = IF u.fit THEN Serve(u.zones, i) ELSE u.zones
             /\ last' = [kind |-> IF u.fit THEN "priv_alloc" ELSE "priv_null", size |-> size, zone |-> i]
             /\ UNCHANGED <<zones_used, zone_lookup_table, zone_cache,
                            zone_cache_count, aborted>>

(* Mutant: populate_zone_cache without the capacity check.                *)
PopulateZoneCacheNoWrap(i, z) ==
  CASE ~z.internal -> [cache |-> zone_cache, count |-> zone_cache_count]
    [] zone_cache_count # 0 /\ zone_cache[zone_cache_count - 1].zone = i ->
         [cache |-> zone_cache, count |-> zone_cache_count]
    [] OTHER ->
         [cache |-> [zone_cache EXCEPT ![zone_cache_count] = [zone |-> i, chunk_size |-> z.chunk_size]],
          count |-> zone_cache_count + 1]

(* populate_zone_cache: private zones and the zone cached last are        *)
(* skipped; a full cache starts over at entry 0.                           *)
PopulateZoneCache(i, z) ==
  CASE ~z.internal -> [cache |-> zone_cache, count |-> zone_cache_count]
    [] zone_cache_count # 0 /\ zone_cache[zone_cache_count - 1].zone = i ->
         [cache |-> zone_cache, count |-> zone_cache_count]
    [] zone_cache_count < ZONE_CACHE_SZ ->
         [cache |-> [zone_cache EXCEPT ![zone_cache_count] = [zone |-> i, chunk_size |-> z.chunk_size]],
          count |-> zone_cache_count + 1]
    [] OTHER ->
         [cache |-> [zone_cache EXCEPT ![0] = [zone |-> i, chunk_size |-> z.chunk_size]],
          count |-> 0]

(* _is_zone_retired.                                                       *)
IsZoneRetired(z) ==
  /\ z.af_count = 0
  /\ z.alloc_count > ChunkCount(z.chunk_size) * ZONE_ALLOC_RETIRE
  /\ z.internal
  /\ z.chunk_size < MAX_DEFAULT_ZONE_SZ * 2

(* The replace branch of _iso_alloc_destroy_zone_unlocked: zones_used is   *)
(* set to the zone's index for _iso_new_zone(chunk_size, true), then       *)
(* restored; _unmap_zone releases the pages and clears the zone's          *)
(* chunk_lookup_table entry, which the model does not keep.                *)
ReplaceZone(zs, i) == NewZone(zs, zone_lookup_table, i, zs[i].chunk_size, TRUE)

(* What chunk_lookup_table can hold for the bucket of a chunk of zone i:  *)
(* _iso_new_zone writes the index of the internal zone it creates and     *)
(* _unmap_zone writes 0, so the entry is i, another zone of the same       *)
(* bucket that overwrote it, or 0 (never written, or cleared by a          *)
(* replacement).  The model does not keep the table: the lookup only      *)
(* tells k = i from k # i, so 0 stands for every other entry.             *)
TableEntries(i) == {0, i}

(* Mutant: iso_find_zone_range returns the zone the table names without    *)
(* checking that its user pages hold the pointer.                         *)
FindZoneRangeTrustsTable(i, k) ==
  CASE k > zones_used                                    -> [kind |-> "chunk_table_corrupted"]
    [] OTHER                                             -> [kind |-> "found", at |-> k]

(* iso_find_zone_range(p) for a chunk p of zone i, with k the table entry  *)
(* of p's bucket: zone k if its user pages hold p (an entry past           *)
(* zones_used is fatal), else the first cached zone that holds p, else the *)
(* first zone in use that does.  The user pages of two zones never         *)
(* overlap, so "zone j holds p" is j = i.                                  *)
FindZoneRange(i, k) ==
  CASE k > zones_used                                    -> [kind |-> "chunk_table_corrupted"]
    [] k = i                                             -> [kind |-> "found", at |-> k]
    [] \E j \in 0 .. zone_cache_count - 1 : zone_cache[j].zone = i -> [kind |-> "found", at |-> i]
    [] i < zones_used                                    -> [kind |-> "found", at |-> i]
    [] OTHER                                             -> [kind |-> "none"]

(* The answers iso_find_zone_range can give for a chunk of zone i, one  *)
(* per entry chunk_lookup_table may hold for its bucket.                  *)
Lookups(i) == { FindZoneRange(i, k) : k \in TableEntries(i) }

(* The aborts of a free or size query whose lookup went wrong: no small    *)
(* zone found sends the pointer to iso_find_big_zone, which cannot find a  *)
(* small chunk either; a zone that does not hold the chunk fails           *)
(* iso_free_chunk_from_zone's bitmap bound.                                *)
LookupAbort(f) ==
  CASE f.kind = "none" -> "zone_not_found"
    [] f.kind # "found" -> f.kind
    [] OTHER            -> "chunk_outside_zone"

(* _iso_free_internal_unlocked from iso_free_chunk_from_zone on, for a    *)
(* chunk of zone k: the chunk is freed, is_full cleared and the zone      *)
(* cached, then a retired zone is replaced at its index.                  *)
FreeFromZone(k) ==
  LET z1 == [zones EXCEPT ![k].af_count = @ - 1, ![k].is_full = FALSE]
      pc == PopulateZoneCache(k, z1[k])
      r == ReplaceZone(z1, k)
  IN /\ zone_cache' = pc.cache
     /\ zone_cache_count' = pc.count
     /\ UNCHANGED zones_used
     /\ IF ~IsZoneRetired(z1[k])
        THEN /\ zones' = z1
             /\ last' = [kind |-> "free", size |-> z1[k].chunk_size, zone |-> k]
             /\ UNCHANGED <<zone_lookup_table, aborted>>
        ELSE IF r.kind = "ok"
        THEN /\ zones' = r.zones
             /\ zone_lookup_table' = r.table
             /\ last' = [kind |-> "replace", size |-> z1[k].chunk_size, zone |-> k]
             /\ UNCHANGED aborted
        ELSE /\ aborted' = r.kind
             /\ last' = AbortEvent
             /\ UNCHANGED <<zones, zone_lookup_table>>

(* _iso_free_internal(p, false) on a chunk the application holds in zone  *)
(* i: under the root lock the zone is looked up by address, then freed.   *)
Free(i) ==
  /\ aborted = NONE
  /\ i < zones_used
  /\ zones[i].af_count > 0
  /\ \E f \in Lookups(i) :
       IF f.kind = "found" /\ f.at = i THEN FreeFromZone(i) ELSE Abort(LookupAbort(f))

(* _iso_free_size(p, size) on a chunk of zone i with a small size: the    *)
(* zone is looked up under the root lock and a size above its chunk size *)
(* aborts.  A caller may pass any size; the check is what catches a      *)
(* wrong one.                                                              *)
FreeSize(i, size) ==
  /\ aborted = NONE
  /\ i < zones_used
  /\ zones[i].af_count > 0
  /\ \E f \in Lookups(i) :
       CASE f.kind # "found" \/ f.at # i   -> Abort(LookupAbort(f))
       [] zones[f.at].chunk_size < size -> Abort("free_size_invalid")
       [] OTHER                         -> FreeFromZone(i)

(* _iso_chunk_size(p) on a chunk of zone i: the chunk_size of the zone     *)
(* found under the root lock.  Nothing but the answer changes.            *)
ChunkSize(i) ==
  /\ aborted = NONE
  /\ i < zones_used
  /\ zones[i].af_count > 0
  /\ \E f \in Lookups(i) :
       IF f.kind = "found"
          THEN /\ last' = [kind |-> "chunk_size", size |-> zones[f.at].chunk_size, zone |-> f.at]
               /\ UNCHANGED <<zones, zones_used, zone_lookup_table, zone_cache, zone_cache_count, aborted>>
          ELSE Abort(LookupAbort(f))

(* _iso_alloc_destroy_zone on a private zone the caller no longer uses:    *)
(* the thread's zone cache is cleared, the zone is wiped and handed to    *)
(* the default allocator as an internal zone (the non-NEVER_REUSE_ZONES   *)
(* build).  The quarantine flush that comes first is a run of             *)
(* _iso_free_internal_unlocked calls; this model does not track which     *)
(* chunks are quarantined, so those frees are Free steps taken before it. *)
Destroy(i) ==
  /\ aborted = NONE
  /\ i < zones_used
  /\ ~zones[i].internal
  /\ zones[i].af_count = 0
  /\ zones' = [zones EXCEPT ![i].internal = TRUE, ![i].is_full = FALSE]
  /\ zone_cache' = [k \in 0 .. ZONE_CACHE_SZ - 1 |-> [zone |-> 0, chunk_size |-> 0]]
  /\ zone_cache_count' = 0
  /\ last' = [kind |-> "destroy", size |-> 0, zone |-> i]
  /\ UNCHANGED <<zones_used, zone_lookup_table, aborted>>

(* The structural checks of _verify_zone: next_sz_index is not past       *)
(* zones_used, and a linked zone has the same chunk size.  The canary    *)
(* checks of free and canary chunks read data this model leaves out.     *)
VerifyZone(i) ==
  CASE zones[i].next_sz_index > zones_used -> "verify_next_sz_index"
    [] zones[i].next_sz_index # 0 /\ zones[zones[i].next_sz_index].chunk_size # zones[i].chunk_size
                                  -> "verify_chunk_sizes"
    [] OTHER -> NONE

(* verify_all_zones: _verify_zone on every zone in use under the root      *)
(* lock; it aborts at the first failed check and otherwise changes        *)
(* nothing.                                                                *)
VerifyZones ==
  /\ aborted = NONE
  /\ IF \E i \in 0 .. zones_used - 1 : VerifyZone(i) # NONE
     THEN Abort(VerifyZone(CHOOSE i \in 0 .. zones_used - 1 :
                             VerifyZone(i) # NONE /\ \A j \in 0 .. i - 1 : VerifyZone(j) = NONE))
     ELSE UNCHANGED vars

Next ==
  \/ \E s \in REQS : Alloc(s)
  \/ \E s \in REQS : NewPrivate(s)
  \/ \E i \in ZoneIdx, s \in REQS : PrivAlloc(i, s, {})
  \/ \E i \in ZoneIdx : Free(i)
  \/ \E i \in ZoneIdx, s \in REQS : FreeSize(i, s)
  \/ \E i \in ZoneIdx : ChunkSize(i)
  \/ \E i \in ZoneIdx : Destroy(i)
  \/ VerifyZones

(* A search of a private zone is taken to find its free slot (miss is    *)
(* {}).  A miss would only make that PrivAlloc return NULL and set the    *)
(* zone's is_full until a free clears it; every later step is then one of *)
(* the state without the miss, and no property reads a private zone's     *)
(* is_full or a NULL result.                                              *)
Spec == Init /\ [][Next]_vars
-----------------------------------------------------------------------------
Kinds == {"init", "alloc", "new_zone", "new_private", "priv_alloc", "priv_null",
          "free", "replace", "destroy", "chunk_size", "abort"}

TypeOK ==
  /\ zones \in [ZoneIdx -> [chunk_size : {0} \cup {2^k : k \in 0 .. SIZE_T_BITS - 1},
                            internal : BOOLEAN, is_full : BOOLEAN,
                            next_sz_index : ZoneIdx,
                            af_count : 0 .. ZONE_USER_SIZE,
                            alloc_count : 0 .. ZONE_USER_SIZE * ZONE_ALLOC_RETIRE + 1]]
  /\ zones_used \in 0 .. MAX_ZONES
  /\ zone_lookup_table \in [0 .. SMALL_SZ_MAX -> ZoneIdx]
  /\ zone_cache \in [0 .. ZONE_CACHE_SZ - 1 -> [zone : ZoneIdx, chunk_size : 0 .. SMALL_SZ_MAX]]
  /\ zone_cache_count \in 0 .. ZONE_CACHE_SZ
  /\ last \in [kind : Kinds, size : 0 .. SMALL_SZ_MAX, zone : ZoneIdx]

(* Spec 292, and what the lookup loops of _iso_new_zone and                *)
(* iso_find_zone_fit rely on to neither abort nor loop: a size's table    *)
(* entry names an internal zone in use of that chunk size, and every       *)
(* next_sz_index link goes up to an internal zone in use of the same       *)
(* chunk size.  Zone replacement rewrites a zone in the middle of a chain  *)
(* with zones_used temporarily lowered to its index.                       *)
SizeChainsWellFormed ==
  /\ \A s \in DOMAIN zone_lookup_table :
       LET h == zone_lookup_table[s]
       IN h # 0 => h < zones_used /\ zones[h].chunk_size = s /\ zones[h].internal
  /\ \A i \in 0 .. zones_used - 1 :
       LET j == zones[i].next_sz_index
       IN j # 0 => /\ i < j /\ j < zones_used
                   /\ zones[j].chunk_size = zones[i].chunk_size /\ zones[j].internal

(* Spec 4.10: the owning zone of a pointer is found whatever              *)
(* chunk_lookup_table holds for its bucket (the zone itself, another zone  *)
(* that overwrote the entry, or 0 after a replacement cleared it), and     *)
(* whether or not the zone is cached: no free, sized free or size query    *)
(* of a live chunk aborts for want of its zone or frees it in another one. *)
PointerLookupSound ==
  aborted \notin {"chunk_table_corrupted", "zone_not_found", "chunk_outside_zone"}

(* A zone that could serve a request by its counts: internal, large      *)
(* enough but not one of the big-chunk zones refused to small requests,   *)
(* not wasteful, and with fewer chunks in use than it has.                *)
Fits(z, size) ==
  LET a == ALIGN_SZ_UP(size)
  IN /\ z.internal
     /\ z.chunk_size >= a
     /\ ~(z.chunk_size >= ZONE_1024 /\ a <= ZONE_128)
     /\ ~Wasteful(z, a)
     /\ HasFreeSlot(z)

(* Spec 34, 4.6: _iso_alloc maps a new zone (spending one of MAX_ZONES)   *)
(* only after every zone in use that could serve the request has been     *)
(* asked and refused it.  The zone cache, the size chain and the linear   *)
(* scan must between them reach every such zone, which is_zone_usable     *)
(* then marks is_full, or which was already marked.  Whether the searches *)
(* of a zone wrongly come back empty is IsoZone's question                 *)
(* (IsFullMeansNoFreeSlot); this one is about the routes of iso_alloc.c   *)
(* 1486-1563 and iso_find_zone_fit.                                        *)
NewZoneOnlyWhenFitsRefused ==
  [][last'.kind = "new_zone" =>
       \A i \in 0 .. zones_used - 1 : Fits(zones[i], last'.size) => zones'[i].is_full]_vars

(* _iso_alloc(NULL, size) hands out a chunk of an internal zone whose     *)
(* chunks hold the request, whichever of the zone cache, the size chain,  *)
(* the scan or a new zone it came from: a private zone's chunks are never *)
(* given to the default allocator.                                         *)
AllocFromFittingZone ==
  [][last'.kind \in {"alloc", "new_zone"} =>
       /\ zones'[last'.zone].internal
       /\ zones'[last'.zone].chunk_size >= last'.size]_vars
=============================================================================
