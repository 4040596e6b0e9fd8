# TLA+ models of IsoAlloc

This directory holds TLA+ models of the IsoAlloc hardened allocator
(`src/unnamed/part_000`: the configuration header, `iso_alloc.c` and `iso_alloc.cpp`;
`src/src/iso_alloc_util.c`). `PROJECT.json` lists these things:

- the components;
- the TLC runs and a mutant for each property of a passing run;
- the map from every definition to the source lines it translates;
- the findings;
- the hazards.

Line numbers below refer to `src/unnamed/part_000`.

## 1. The system

| Part | State | Operations |
|---|---|---|
| Zone (`iso_alloc_zone_t`) | Bitmap of 2 bits per chunk, low bit first: `00` never used, `10` in use, `01` freed, `11` canary or permanently freed. Free bit slot cache `free_bit_slot_cache[BIT_SLOT_CACHE_SZ]`, with a write cursor (`_index`) and a read cursor (`_usable`). The pre-dequeued `next_free_bit_slot`. `is_full`, `af_count` (live chunks), `alloc_count` (lifetime allocs), `internal`, `chunk_size`. | `create_canary_chunks` 196. `fill_free_bit_slot_cache` 350: random start qword, no wrap-around, shuffle only on one exit path. `insert_free_bit_slot` 408. `get_next_free_bit_slot` 438. `iso_scan_zone_free_slot` 974 and its `_slow` variant 995. `is_zone_usable` 1014. `_iso_alloc_bitslot_from_zone` 1304. `iso_free_chunk_from_zone` 1852. `_is_zone_retired` 2083. |
| Root (`_root`), guarded by the root lock | `zones[]`, `zones_used`, `zone_lookup_table` (size → first zone), `next_sz_index` chains, `chunk_lookup_table` (address bits → zone) | `_iso_new_zone` 787. `iso_find_zone_fit` 1107. `iso_find_zone_range` 1662. `_iso_alloc_destroy_zone_unlocked` 609: the replace path re-creates a retired zone at its index. |
| Thread caches (TLS, no lock) | `zone_cache[ZONE_CACHE_SZ]`, `chunk_quarantine[CHUNK_QUARANTINE_SZ]` | `populate_zone_cache` 1360. The `_iso_free` append and drain 2007-2019. `flush_caches` 566. |
| Big zones, guarded by the big-zone lock | Singly linked list with masked `next`; `free` flag and `size` per entry | `_iso_big_alloc` 1193. `iso_find_big_zone` 1579. `iso_free_big_zone` 1793: a permanent free unlinks the entry. |
| Entry points | none | `_iso_alloc` 1419. `_iso_calloc` 1178. `_iso_free` 1979. `_iso_free_size` 2023. `_iso_free_internal_unlocked` 2113. `_iso_chunk_size` 2183. |
| Page utilities (`iso_alloc_util.c`) | The process's mappings and their protections | `create_guard_page` 6, `mmap_pages` 22, `mprotect_pages` 61, `name_mapping` 69, `next_pow2` 85 (line numbers of `iso_alloc_util.c`). |
| Not modelled | none | See section 5. |

How the parts interact: an allocation takes the root lock, probes the thread zone
cache, then scans for a zone that fits, and creates a zone if none does. It then
takes `next_free_bit_slot`. A free goes to the thread quarantine without a lock. When
the quarantine is full, `_iso_free` drains it. Each entry of the drain calls
`_iso_free_internal`, which takes the root lock for that entry alone. Each entry is
then freed in its zone, which may retire that zone and replace it in place. Big
allocations take only the big-zone lock.

The hard behaviours are these:

- threads interleave at every root-lock acquisition, including between two entries
  of one drain;
- a cache refill starts at a random point and the shuffle is random;
- the double-free test looks only at the low bit;
- retirement destroys a zone that the bookkeeping says is empty;
- the big-zone list is updated in place with masked pointers;
- calloc does its overflow arithmetic in 32 bits.

## 2. Modules

| Module | Models | State ↔ code |
|---|---|---|
| `IsoZone` | Operator library for one zone. Each zone function is a pure operator on a zone record. A random choice (refill start, shuffle, canary draws) returns the **set** of possible results. | Record fields ↔ `iso_alloc_zone_t` fields. Chunk `c` is bit slot `2c`, and qword `c \div SLOTS_PER_WORD`. |
| `ZoneSpec` (+ `MCZoneSpec`) | One internal zone driven by one thread. `Alloc` is `_iso_alloc` on the zone. `Free(c, permanent)` is `_iso_free_internal`: free, then retire and replace. `StaleFree` is a second free by the application, as far as `MISUSE` allows. | `zone`. The history variables `owned`, `released` and `permFreed`. `aborted` for `LOG_AND_ABORT`. |
| `BigZone` (+ `MCBigZone`) | The big-zone list. `BigAlloc(sz)` is `_iso_big_alloc`: walk for a free entry of at least `sz`, reuse it, or map an unused entry and link it after the last entry visited (and make it the head if the list is empty). A free of a big allocation by thread `t` is two steps, because `iso_find_big_zone` releases the big-zone lock before `iso_free_big_zone` takes it again (2161-2167, and 2047-2053 without the root lock). `FindBig(t, e, permanent)` is the lookup. `BigFree(t)` is `iso_free_big_zone` on the entry found: it marks the entry free or, for a permanent free, unlinks it (`Unlink`) and wipes it. Other threads' allocs and frees can run between the two steps. `FindSize(t, e)` and `ReadSize(t)` are the big path of `_iso_chunk_size`: `iso_find_big_zone`, then the read of `big_zone->size` after the unlock (2214-2220). The history variable `req[e]` is the size the holder of `e` asked for. | `freeing[t]` ↔ the `big_zone` local of `t`'s free between its two steps. `head` ↔ `big_zone_head`, `next[e]` ↔ `e->next`, `state[e]` ↔ mapped/`free`/wiped, `size[e]`, history `held[e]`. A stored pointer is a word: `ZERO` (NULL), `MASKWORD` (the mask, i.e. masked NULL), `Addr(e)` (raw address), `Xor(Addr(e))` (masked address), `GARBAGE` (poisoned). `Xor` is both `MASK_` and `UNMASK_BIG_ZONE_NEXT`. Dereferencing any word but the raw address of a mapped entry is a fault (`check_big_canary` or a segfault). `MapBigZone` is the mapping part of `_iso_big_alloc` over `Pages`: user pages with a guard page on each side, the metadata pages with guards, and the record at a random offset inside its page. `Seal` is the `mprotect` of a permanent free. `mem`, `userAt[e]` and `metaAt[e]` hold the address space and each entry's addresses. |
| `Pages` | `iso_alloc_util.c` as operators on an address space `mem : Regions -> [PageIdx -> {UNMAPPED, PROT_NONE, PROT_RW}]`. An address is `<<region, byte offset>>`. `mmap` never overlaps a mapping, so where it lands is a free region. Nothing unmaps a region, so all free regions are untouched and interchangeable, and `MmapPages` picks one with `CHOOSE`. That single choice stands for every placement the kernel could make. `mprotect` fails on NULL, an unaligned address or an unmapped page. `next_pow2` is the bit-smearing code over a `SIZE_T_BITS`-wide word, with its six shifts as the recursion `SmearFrom`. | Each failing operator returns `ok = FALSE` where the code calls `LOG_AND_ABORT`. |
| `IsoRoot` (+ `MCIsoRoot`) | The root's zone table with the thread zone cache in front of it. `Alloc(size)` is `_iso_alloc(NULL, size)` on the small path: the cache probe, `iso_find_zone_fit` (size chain, then linear scan, both through `iso_does_zone_fit`/`is_zone_usable`), else `_iso_new_zone(size, true)`. `NewPrivate` is `iso_new_zone(size, false)`. `PrivAlloc` is `_iso_alloc(zone, size)`. `Free(i)` is `_iso_free_internal` on a chunk of zone `i`. It first looks the zone up by address with `FindZoneRange` (`iso_find_zone_range`: the `chunk_lookup_table` probe with its range check, the zone cache, then the linear scan). `FreeFromZone` then runs `iso_free_chunk_from_zone` (clear `is_full`, `populate_zone_cache`) and retire-and-replace. `FreeSize(i, size)` is the small path of `_iso_free_size`: the same lookup, then an abort if `size` is above the zone's chunk size. `ChunkSize(i)` is the small path of `_iso_chunk_size`. `Destroy(i)` is `_iso_alloc_destroy_zone` on a private zone. The quarantine flush it begins with is a run of frees, so it is modelled as `Free` steps taken before it. `VerifyZones` is `verify_all_zones` over the zones in use: the first zone that fails the structural checks of `_verify_zone` aborts the process. | `zones[i]` ↔ `chunk_size`, `internal`, `is_full`, `next_sz_index`, `af_count`, `alloc_count` of `_root->zones[i]`. The bitmap is abstracted to `af_count` against the chunk count (`IsoZone` models it). Whether the searches of `is_zone_usable` find a slot in a zone below its chunk count is a nondeterministic choice (`Missable`, `MissChoices`). `IsoZone` shows they can miss a free chunk. The signed slow scan skips only a qword whose last slot is in use, so a zone with no chunk in use is always found. For a private zone the search is taken to succeed: a miss would only make that `PrivAlloc` return NULL, and no property reads that. `zone_lookup_table`, `zones_used`, `zone_cache`, `zone_cache_count`. `last` is a history variable naming the step just taken. `chunk_lookup_table` is not a variable: a probe reads either the chunk's own zone or 0 (`TableEntries`), because the lookup only tells those two cases apart. |
| `Allocator` | The abstract allocator: `holder[c]` is the thread holding chunk `c`, or nobody. `Allocate(t, c)` needs `c` unheld, and `Release(t, c)` needs `t` to hold `c`. `stopped` never becomes true: used correctly, the allocator does not abort. | Written from spec §5, not from code. `IsoHeap` maps onto it: `Holder` (the thread whose `owned` set has `c`), `stopped` ↔ `aborted # NONE`. |
| `Calloc` | `_iso_calloc` as one action `IsoCalloc` over every pair of arguments, with scaled widths: a 6-bit `size_t` and a 3-bit `unsigned int`. `ToUInt` is the implicit conversion to `unsigned int`, `UMulOverflow` is `__builtin_umul_overflow`. | `nmemb`, `size`, `outcome` (abort or return), `request` (the `sz` passed to `_iso_alloc` and `memset`). |
| `IsoHeap` (+ `MCIsoHeap`) | Threads sharing a zone, each with its quarantine. `Alloc`. `Free`: append, or start a drain. `DrainStep`: one locked `_iso_free_internal` of the drain loop. `DrainDone`: `clear_chunk_quarantine`, then the append. `FreePermanent`. `Flush`: `flush_caches`, a batch under one lock. | `quarantine[t]`, `drainPos[t]` (the loop index `i`), `pending[t]` (the `p` being freed). History variables `owned[t]`, `freedBy` and `gap`. |

An action is a whole call, or the part of a call between two acquisitions of the
root lock. Each acquisition is one atomic step, since the lock serialises these
parts.

When a zone cannot serve an allocation, `_iso_alloc` moves on to another zone or
creates one. Both modules keep the zone's side effects (a refill, `is_full`) and
leave out the other zone. The multi-zone module will add them.

## 3. Runs

| Run | Expect | What it shows |
|---|---|---|
| `zone_correct` (MCZoneSpec.cfg) | pass | Over allocs, normal and permanent frees, detected double frees, refills, scans and retirement: held chunks stay in use (`OwnedAreInUse`); `af_count` equals the number of in-use chunks (`AfCountMatchesBitmap`); the `next_free_bit_slot` that `_iso_alloc` takes is never live (`AllocNeverHitsLiveSlot`). |
| `zone_full_flag` (MCZoneFull.cfg) | violation | `is_full` is set while a chunk is free: the slow scan skips qwords that are ≥ `ALLOCATED_BITSLOTS` as signed `bitmap_index_t` values (a freed chunk under an in-use one), and the refill does not wrap around. |
| `zone_perm_double_free` (MCZonePermDoubleFree.cfg) | violation | A second free of a permanently freed chunk passes the low-bit test. `af_count` drops twice, and retirement replaces the zone under a live chunk. |
| `heap_accounting` (MCIsoHeap.cfg) | pass | With two threads, the in-use chunks are exactly those held by one thread or parked in one quarantine (`InUseAccounted`). This holds across per-entry drains, flushes, permanent frees and retirement. The run also checks `AllocatorRefined`: `IsoHeap` implements `Allocator` under the mapping `Holder`, so no chunk is handed out while a thread holds it, and without a double free nothing aborts. |
| `heap_drain_race` (MCHeapDrainRace.cfg) | violation | The same misuse with two threads: the per-entry lock lets the other thread reallocate the chunk between the two queued frees. The second free then frees that thread's live chunk. |
| `heap_requeued_double_free` (MCHeapRequeue.cfg) | violation | With one thread: when the second `free(p)` triggers the drain, `p` is drained and then queued again. `p` is later reallocated, and the stale entry frees it. |
| `heap_quarantine_delay` (MCHeapDelay.cfg) | violation | A chunk in the last quarantine slot can be reused after one intervening free, against the spec's `CHUNK_QUARANTINE_SZ` (spec §8). |
| `big_list` (MCBigZone.cfg) | pass | With two threads, over big allocs, reuse, normal and permanent frees, each split at the unlock after `iso_find_big_zone`, a mapped big zone is marked free exactly when the application holds none of its pages (`ExclusiveBig`), so reuse never hands out pages still held. The user data and the record each lie between two `PROT_NONE` pages, and the random record offset keeps the record inside its page (`BigRegionsGuarded`). A permanently freed entry's pages and record page are `PROT_NONE` (`WipedSealed`). `_iso_chunk_size` reads its size after the unlock from an entry that is still mapped, and that size covers the request (`ChunkSizeCoversRequest`). |
| `root_zones` (MCIsoRoot.cfg) | pass | Over default allocations, new and replaced zones, and private zones created, used and destroyed, the lookup table and `next_sz_index` chains stay consistent and ascending (`SizeChainsWellFormed`, spec §8). A zone is created only after every zone in use that could serve the request was asked and refused it (`NewZoneOnlyWhenFitsRefused`). A search of a zone may come back empty although the zone has a free chunk, as `zone_full_flag` shows; here that is a nondeterministic choice, and the property checks that the cache probe, the size chain and the scan reach every such zone before a zone is created. A default allocation always comes from an internal zone large enough (`AllocFromFittingZone`). A free, a sized free or a size query always finds the chunk's own zone, whatever `chunk_lookup_table` says for its bucket and whether or not the zone is cached (`PointerLookupSound`, spec §4.10). |
| `big_head_unlink` (MCBigHead.cfg) | violation | Two big allocs, then a permanent free of the first: `big_zone_head` becomes NULL (1819) and the second zone is no longer on the list (`BigListReachesAll`). Freeing it later aborts with "Could not find any zone". |
| `big_mid_unlink` (MCBigMid.cfg) | violation | Three big allocs, then a permanent free of the middle one: the first entry's `next` is set to the unmasked address of the third (1826), and the next walk dereferences that address masked again (`BigListWalkSafe`). |
| `calloc_wrap` (MCCalloc.cfg) | violation | `calloc(2, 32)` at the scaled widths, i.e. `calloc(2, 2^63)`: the truncated operands give `2 * 0`, the test passes, and `sz` wraps to 0 (`CallocNoShortBuffer`). |

### Bounds

- **Zone in MCZoneSpec:** 3 qwords of 2 chunks, a 3-entry cache and one canary draw.
  With `ZONE_ALLOC_RETIRE = 1`, retirement comes after more than 6 allocs, and
  `MAX_ALLOCS = 8` leaves room for it. Two chunks per qword give in-use/free mixes
  inside a qword, so the `ALLOCATED_BITSLOTS` comparison is exercised. The random
  refill start can fall past a free chunk. A 3-entry cache can both fill and
  overflow.
- **Heap in MCIsoHeap:** 2 qwords of 2 chunks, a 2-entry cache, 2 threads and a
  2-entry quarantine, with at most 7 allocations. With these, a drain, a refill,
  a full quarantine and a retirement can all occur inside one behaviour. Both
  threads can drain their quarantine, or one thread can drain it twice. There is
  no symmetry; the run is small without it.

- **Big zones:** three entries, sizes 1 and 2 pages, and two threads (one in the two violation runs, which need none). Entries and threads are symmetric; mappings are placed by `CHOOSE`. Three
  entries give a head, a middle and a tail, and two sizes make reuse depend on
  size as well as on the free flag.

- **Big-zone pages:** 4-byte pages, a 1-page shift for the user pages, and 3 bits
  of randomness for the record offset. Every offset `MetaOffsets` can produce is
  checked, including the largest one, which leaves the record against the page end.
- **Root in MCIsoRoot:** default zones of chunk sizes 2 and 4, room for two more
  zones (`MAX_ZONES = 4`), 4-byte zones (2 or 1 chunks), and requests of 1 and 3
  bytes. Sizes are scaled: `ZONE_128` and `ZONE_1024` are 2 and 4, so the
  big-chunk refusal and the `SMALLEST_CHUNK_SZ` clamp both happen. With these,
  zones fill, chains get a second member, a private zone is destroyed into the
  default pool, and a retired zone is replaced, which cuts a chain. A 1-entry zone
  cache can fill and wrap. `VIEW RootView` leaves out four things, so merging
  states loses no behaviour:
  - `last`, which is written but never read by an action (the action properties
    read only `last'`);
  - zone cache entries at or past `zone_cache_count`, which are never read;
  - `is_full` of a zone with no slot left by its counts: `is_zone_usable`
    refuses such a zone whether or not the flag is set, and sets it when it
    refuses;
  - everything but the reason in an aborted state, which no step leaves and
    whose zones are those of the checked state it came from. Deadlock checking is
  off: `_iso_new_zone` aborts once `MAX_ZONES` zones exist.
- **Calloc:** every pair of 6-bit arguments. Halving the width for `unsigned int`
  keeps the structure of 64/32: truncation of either operand, products that fit
  in 32 bits, in 64 bits, or in neither.

Deadlock checking is off in these cases:

- in runs where a detected double free can abort the process, since
  `LOG_AND_ABORT` stops everything;
- in `heap_accounting`, where the application may stop calling the allocator.

**Fairness and liveness.** No fairness is assumed and no liveness property is
checked. The application's calls get no fairness, since a thread may stop
calling the allocator. The quarantine is best-effort (spec §5): a chunk waits
until its thread frees again or flushes, and nothing forces either. Inside the
library, every loop is bounded: the drain of `_iso_free` (2012-2018) runs once
per quarantine entry, and the zone walks are bounded by `zones_used`. The
models check that bound as a safety property (a walk that runs out of fuel is a
`"hang"` abort). Whether a thread waiting for the root lock ever gets it depends
on the pthread mutex (or spin lock), which promises no fairness. Assuming weak
fairness of the drain steps would only restate that a bounded loop ends.

## 4. What the root model found

TLC found three divergences while `IsoRoot` was written. Each was confirmed by a
property violated on a side run. None has a run of its own, because none affects
correctness: the linear scan of `iso_find_zone_fit` (1163-1173) still reaches every
zone before a new one is created, which `NewZoneOnlyWhenFitsRefused` checks. They are listed as hazards in
`PROJECT.json`.

- **Chain cut by replacement (679-683).** `_iso_new_zone` is called with
  `zones_used` lowered to the zone's index. Its splice walk stops there, so the
  zones after the replaced one drop out of the size chain.
- **Zone cache wrap (1374-1378).** When the cache is full, `populate_zone_cache`
  writes entry 0 but resets `zone_cache_count` to 0. The zone just cached is then
  invisible to the probe.
- **Destroyed private zones (646-658).** A destroyed private zone becomes internal
  without entering `zone_lookup_table` or a chain.

## 5. Not modelled

- **The contents of `chunk_lookup_table`:** a model that kept a bucket for
  every zone, with the table, grew `root_zones` past 8 million states. The
  lookup checks the entry against the zone's user pages, so it only tells "the
  chunk's own zone" from "anything else". `TableEntries` offers one of each.
  `iso_find_zone_bitmap_range` is the same routine over bitmap ranges and is
  used only by metadata tooling.
- **The page layout of small zones:** `_iso_new_zone`'s mappings, guard pages and
  bitmap placement are not modelled. `BigZone` does this for big zones, and the
  small-zone layout follows the same pattern.
- **Root construction and teardown:** only the default-zone loop of
  `iso_alloc_initialize_global_root` is modelled, as `IsoRoot`'s `Init`. These run
  once, single-threaded, and any mapping failure aborts.
- **Canary values:** `_verify_zone`'s canary checks and `check_big_canary` compare
  the XOR of an address with a secret. No modelled step overwrites memory, so
  the models leave these values out. `IsoRoot`'s `VerifyZones` models the
  structural checks of `_verify_zone`: the `next_sz_index` bound and the equal
  chunk sizes along a link. It aborts exactly when `SizeChainsWellFormed` fails,
  and that never happens in `root_zones`.
- **Build variants:** memory tagging, the profiler, sampling, `SMALL_MEM_STARTUP`
  and `NEVER_REUSE_ZONES`.
- **The C++ operators:** they only forward to the C entry points.
- **The public wrappers of private zones:** they are not under `src/`.
- **A free of a pointer racing a query of the same pointer:** this is a
  use-after-free by the application, so `FindBig` and `FindSize` never pick an
  entry that another thread is freeing or sizing.

## 6. Plan

1. **Done:** `IsoZone` and `ZoneSpec` (the zone state machine); `IsoHeap` (threads,
   root lock, quarantine).
2. **Done:** `BigZone`, the big-zone list under its lock. Both unlink cases
   (1819, 1826) are wrong. Frees are split at the unlock between
   `iso_find_big_zone` and `iso_free_big_zone`, with two threads.
3. **Done:** `IsoRoot`, over several zones, with the size chains, the zone cache
   and private zones. Left for later: a refinement of `Allocator` with chunks
   named by (zone, slot).
5. **Done:** `Pages`, and the page layout and sealing of big zones over it.
4. **Done:** `Calloc`. A product that wraps `size_t` passes the test (1182).
