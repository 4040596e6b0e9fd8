------------------------------ MODULE IsoZone ------------------------------
(***************************************************************************)
(* One IsoAlloc zone (iso_alloc.c): the 2-bit-per-chunk bitmap, the free   *)
(* bit slot cache with its read/write cursors, the pre-dequeued            *)
(* next_free_bit_slot, is_full, af_count and alloc_count, canary chunks    *)
(* and retirement.  The zone operators are pure functions on a zone record *)
(* so that the specifications of one zone (ZoneSpec) and of the whole     *)
(* heap can apply them to any number of zones.                             *)
(*                                                                         *)
(* Geometry is scaled: a chunk is named by its chunk number c, its bit     *)
(* slot is c * BITS_PER_CHUNK, its bitmap word WordOf(c).  The constants   *)
(* below stand for the C macros of the same names.                         *)
(***************************************************************************)
EXTENDS Integers, Sequences, FiniteSets, FiniteSetsExt, Functions

CONSTANTS
  WORDS,                  \* GET_MAX_BITMASK_INDEX(zone): bitmap qwords
  SLOTS_PER_WORD,         \* BITS_PER_QWORD / BITS_PER_CHUNK (32 in C)
  BIT_SLOT_CACHE_SZ,      \* 255 in C
  ALIGNMENT,              \* ALIGNMENT, applied to qword indexes
  CANARY_DRAWS,           \* GET_CHUNK_COUNT(zone) / CANARY_COUNT_DIV
  ZONE_ALLOC_RETIRE,
  MAX_DEFAULT_ZONE_SZ,
  WASTED_SZ_MULTIPLIER_SHIFT,
  SHUFFLE_BIT_SLOT_CACHE  \* build flag

ASSUME /\ WORDS \in Nat /\ WORDS >= 2
       /\ SLOTS_PER_WORD \in Nat \ {0}
       /\ BIT_SLOT_CACHE_SZ \in Nat \ {0}
       /\ ALIGNMENT \in Nat \ {0}
       /\ CANARY_DRAWS \in Nat
       /\ ZONE_ALLOC_RETIRE \in Nat \ {0}
       /\ SHUFFLE_BIT_SLOT_CACHE \in BOOLEAN

(* The four 2-bit chunk states, low bit first (low + 2 * high).            *)
NEVER_USED == 0
IN_USE     == 1
FREED      == 2
CANARY     == 3
States     == {NEVER_USED, IN_USE, FREED, CANARY}
LowBit(s)  == s % 2

BAD_BIT_SLOT == -1
NCHUNKS      == WORDS * SLOTS_PER_WORD
Chunks       == 0 .. NCHUNKS - 1
WordOf(c)    == c \div SLOTS_PER_WORD
CachePos     == 0 .. BIT_SLOT_CACHE_SZ - 1

(* The value of bitmap qword w, slot k holding bits 2k and 2k+1.           *)
WordValue(bm, w) ==
  MapThenSumSet(LAMBDA k : bm[w * SLOTS_PER_WORD + k] * 4^k, 0 .. SLOTS_PER_WORD - 1)

(* A qword in which every chunk is in use (pattern 01 in every slot).      *)
ALLOCATED_BITSLOTS == MapThenSumSet(LAMBDA k : 4^k, 0 .. SLOTS_PER_WORD - 1)

IsFreeSlot(bm, c) == LowBit(bm[c]) = 0

ZoneType ==
  [bitmap : [Chunks -> States], cache : [CachePos -> Chunks \cup {BAD_BIT_SLOT}],
   cacheIndex : 0 .. BIT_SLOT_CACHE_SZ, cacheUsable : 0 .. BIT_SLOT_CACHE_SZ + 1,
   nextFree : Chunks \cup {BAD_BIT_SLOT}, isFull : BOOLEAN,
   afCount : Int, allocCount : Nat, internal : BOOLEAN, chunkSize : Nat]

-----------------------------------------------------------------------------
(* create_canary_chunks: rand % (max_bitmap_idx - 1) aligned down picks a  *)
(* qword; its first chunk becomes a canary unless already chosen.  The     *)
(* draws are random, so any set of at most CANARY_DRAWS qwords can result. *)
CanaryWords == { w - (w % ALIGNMENT) : w \in 0 .. WORDS - 2 }

CanaryChoices ==
  IF CANARY_DRAWS = 0 THEN {{}}
  ELSE { W \in SUBSET CanaryWords : Cardinality(W) \in 1 .. CANARY_DRAWS }

CreateCanaryChunks(z, W) ==
  IF z.chunkSize > MAX_DEFAULT_ZONE_SZ THEN z
  ELSE [z EXCEPT !.bitmap = [c \in Chunks |->
          IF c % SLOTS_PER_WORD = 0 /\ WordOf(c) \in W THEN CANARY ELSE @[c]]]

(* fill_free_bit_slot_cache: from a random qword to the end of the bitmap  *)
(* (no wrap-around) collect free slots until the cache is full.  The       *)
(* Fisher-Yates shuffle is only reached when the loop leaves through its   *)
(* own condition, i.e. when the last entry taken was the last slot of its  *)
(* qword; every other exit returns before it.                              *)
CacheStarts == IF WORDS > ALIGNMENT THEN 0 .. WORDS - 2 ELSE {0}

FillFreeBitSlotCache(z, start) ==
  LET scan     == [i \in 1 .. NCHUNKS - start * SLOTS_PER_WORD |-> start * SLOTS_PER_WORD + i - 1]
      free     == SelectSeq(scan, LAMBDA c : IsFreeSlot(z.bitmap, c))
      got      == IF Len(free) > BIT_SLOT_CACHE_SZ THEN SubSeq(free, 1, BIT_SLOT_CACHE_SZ) ELSE free
      shuffled == /\ SHUFFLE_BIT_SLOT_CACHE
                  /\ Len(got) = BIT_SLOT_CACHE_SZ
                  /\ got[BIT_SLOT_CACHE_SZ] % SLOTS_PER_WORD = SLOTS_PER_WORD - 1
      orders   == IF shuffled
                  THEN { [i \in 1 .. Len(got) |-> got[p[i]]] : p \in Bijection(1 .. Len(got), 1 .. Len(got)) }
                  ELSE {got}
  IN { [z EXCEPT !.cache = [i \in CachePos |-> IF i < Len(o) THEN o[i + 1] ELSE BAD_BIT_SLOT],
                 !.cacheUsable = 0,
                 !.cacheIndex = Len(o)] : o \in orders }

FillChoices(z) == UNION { FillFreeBitSlotCache(z, s) : s \in CacheStarts }

(* get_next_free_bit_slot: the slot it returns, and the zone after it.     *)
CacheUnderflow(z) ==
  z.cacheUsable >= BIT_SLOT_CACHE_SZ \/ z.cacheUsable > z.cacheIndex

GotSlot(z) == IF CacheUnderflow(z) THEN BAD_BIT_SLOT ELSE z.cache[z.cacheUsable]

GetNextFreeBitSlot(z) ==
  IF CacheUnderflow(z) THEN z
  ELSE [z EXCEPT !.nextFree = z.cache[z.cacheUsable],
                 !.cache[z.cacheUsable] = BAD_BIT_SLOT,
                 !.cacheUsable = @ + 1]

(* Mutant: the append ignores a full cache.                              *)
InsertFreeBitSlotUnbounded(z, c) ==
  [z EXCEPT !.cache[z.cacheIndex] = c, !.cacheIndex = @ + 1]

(* insert_free_bit_slot: append at the write cursor, drop when full.       *)
InsertFreeBitSlot(z, c) ==
  IF z.cacheIndex >= BIT_SLOT_CACHE_SZ THEN z
  ELSE [z EXCEPT !.cache[z.cacheIndex] = c, !.cacheIndex = @ + 1]

(* iso_scan_zone_free_slot: first chunk of the first all-zero qword.       *)
ScanFast(bm) ==
  LET ws == { w \in 0 .. WORDS - 1 : WordValue(bm, w) = 0 }
  IN IF ws = {} THEN BAD_BIT_SLOT ELSE Min(ws) * SLOTS_PER_WORD

(* The slow scan reads the bitmap as bitmap_index_t, a signed 64-bit       *)
(* integer (create_canary_chunks tests 0 > bm_idx): a qword whose top bit *)
(* is set, a freed or canary chunk in its last slot, reads as negative.   *)
SignedWord(v) ==
  IF v >= 2^(2 * SLOTS_PER_WORD - 1) THEN v - 2^(2 * SLOTS_PER_WORD) ELSE v

(* Mutant: the slow scan returns the first slot of a qword below          *)
(* ALLOCATED_BITSLOTS without testing its low bit.                        *)
ScanSlowNoBitTest(bm) ==
  LET ws == { w \in 0 .. WORDS - 1 : SignedWord(WordValue(bm, w)) < ALLOCATED_BITSLOTS }
  IN IF ws = {} THEN BAD_BIT_SLOT ELSE Min(ws) * SLOTS_PER_WORD

(* iso_scan_zone_free_slot_slow: only qwords below ALLOCATED_BITSLOTS, as  *)
(* signed values, are searched bit by bit.                                 *)
ScanSlow(bm) ==
  LET cs == { c \in Chunks : SignedWord(WordValue(bm, WordOf(c))) < ALLOCATED_BITSLOTS /\ IsFreeSlot(bm, c) }
  IN IF cs = {} THEN BAD_BIT_SLOT ELSE Min(cs)

(* The waste rule of is_zone_usable.                                      *)
WastesSpace(z, size) ==
  z.internal /\ size > 1024 /\ z.chunkSize >= size * 2^WASTED_SZ_MULTIPLIER_SHIFT

(* is_zone_usable: the set of possible [zone, ok] outcomes (the refill     *)
(* start is random).                                                       *)
AfterCacheProbe(r) ==
  LET g == GetNextFreeBitSlot(r)
  IN IF GotSlot(r) # BAD_BIT_SLOT THEN [zone |-> g, ok |-> TRUE]
     ELSE IF ScanFast(g.bitmap) # BAD_BIT_SLOT
          THEN [zone |-> [g EXCEPT !.nextFree = ScanFast(g.bitmap)], ok |-> TRUE]
     ELSE IF ScanSlow(g.bitmap) # BAD_BIT_SLOT
          THEN [zone |-> [g EXCEPT !.nextFree = ScanSlow(g.bitmap)], ok |-> TRUE]
     ELSE [zone |-> [g EXCEPT !.isFull = TRUE], ok |-> FALSE]

IsZoneUsable(z, size) ==
  IF z.isFull \/ WastesSpace(z, size) THEN {[zone |-> z, ok |-> FALSE]}
  ELSE IF z.nextFree # BAD_BIT_SLOT THEN {[zone |-> z, ok |-> TRUE]}
  ELSE { AfterCacheProbe(r) :
           r \in IF z.cacheUsable >= z.cacheIndex THEN FillChoices(z) ELSE {z} }

(* _iso_alloc_bitslot_from_zone, after _iso_alloc cleared next_free_bit_slot. *)
AllocAborts(z, c) == LowBit(z.bitmap[c]) = 1

AllocBitslot(z, c) ==
  [z EXCEPT !.bitmap[c] = IN_USE, !.afCount = @ + 1, !.allocCount = @ + 1]

(* The small path of _iso_alloc on zone z once it has been chosen: the    *)
(* usability test, then the slot taken from next_free_bit_slot.  Each     *)
(* outcome is the zone after the call, the slot (BAD_BIT_SLOT when z      *)
(* cannot serve the request and another zone must) and whether the        *)
(* "cannot return allocated chunk" abort fired.                            *)
AllocOutcomes(z, size) ==
  { LET slot    == r.zone.nextFree
        cleared == [r.zone EXCEPT !.nextFree = BAD_BIT_SLOT]
    IN CASE ~r.ok                      -> [zone |-> r.zone, slot |-> BAD_BIT_SLOT, abort |-> FALSE]
         [] AllocAborts(cleared, slot) -> [zone |-> z, slot |-> slot, abort |-> TRUE]
         [] OTHER                      -> [zone |-> AllocBitslot(cleared, slot), slot |-> slot,
                                           abort |-> FALSE]
    : r \in IsZoneUsable(z, size) }

(* Mutant: a permanent free leaves af_count alone.                         *)
FreeChunkPermanentKeepsCount(z, c, permanent) ==
  IF permanent THEN [z EXCEPT !.bitmap[c] = CANARY]
  ELSE [InsertFreeBitSlot(z, c) EXCEPT !.bitmap[c] = FREED, !.isFull = FALSE,
                                       !.afCount = @ - 1]

(* iso_free_chunk_from_zone: only the low bit is checked for double free.  *)
FreeAborts(z, c) == LowBit(z.bitmap[c]) = 0

FreeChunk(z, c, permanent) ==
  IF permanent THEN [z EXCEPT !.bitmap[c] = CANARY, !.afCount = @ - 1]
  ELSE [InsertFreeBitSlot(z, c) EXCEPT !.bitmap[c] = FREED, !.isFull = FALSE,
                                       !.afCount = @ - 1]

(* Mutant: retirement does not wait for the zone to be empty.            *)
IsZoneRetiredWhileLive(z) ==
  /\ z.allocCount > NCHUNKS * ZONE_ALLOC_RETIRE
  /\ z.internal
  /\ z.chunkSize < MAX_DEFAULT_ZONE_SZ * 2

(* _is_zone_retired                                                        *)
IsZoneRetired(z) ==
  /\ z.afCount = 0
  /\ z.allocCount > NCHUNKS * ZONE_ALLOC_RETIRE
  /\ z.internal
  /\ z.chunkSize < MAX_DEFAULT_ZONE_SZ * 2

(* _iso_new_zone, zone part: the record is zeroed, canaries are placed,    *)
(* the cache is filled and one slot is pre-dequeued.                       *)
NewZones(internal, size) ==
  LET base == [bitmap |-> [c \in Chunks |-> NEVER_USED],
               cache |-> [i \in CachePos |-> 0], cacheIndex |-> 0, cacheUsable |-> 0,
               nextFree |-> 0, isFull |-> FALSE, afCount |-> 0, allocCount |-> 0,
               internal |-> internal, chunkSize |-> size]
  IN { GetNextFreeBitSlot(f) :
         f \in UNION { FillChoices(CreateCanaryChunks(base, W)) : W \in CanaryChoices } }

(* _iso_free_internal_unlocked, small-zone path: free the chunk, then      *)
(* destroy and replace the zone in place if it is now retired.            *)
FreeInternal(z, c, permanent) ==
  LET f == FreeChunk(z, c, permanent)
  IN IF IsZoneRetired(f) THEN NewZones(TRUE, f.chunkSize) ELSE {f}
=============================================================================
