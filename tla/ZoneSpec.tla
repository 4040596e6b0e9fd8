------------------------------ MODULE ZoneSpec ------------------------------
(***************************************************************************)
(* One internal zone of one size class, driven by one application thread. *)
(* Every call runs under the root lock, so each is one atomic step:       *)
(*   Alloc      _iso_alloc on a zone that fits: is_zone_usable, then       *)
(*              _iso_alloc_bitslot_from_zone on next_free_bit_slot;        *)
(*   Free       _iso_free_internal_unlocked on a chunk the thread owns:    *)
(*              iso_free_chunk_from_zone, then retirement and replacement; *)
(*   StaleFree  the same call on a chunk the thread already freed, i.e. a  *)
(*              double free by the application, as far as MISUSE allows:   *)
(*              "none", "double_free" (of a chunk freed normally) or       *)
(*              "double_free_permanent" (also of one freed permanently).   *)
(* The thread quarantine and the choice among zones are IsoHeap's; here a *)
(* free reaches the zone directly, as a flush of the quarantine does.      *)
(***************************************************************************)
EXTENDS IsoZone

CONSTANTS
  CHUNK_SIZE,   \* chunk_size of the zone, also the request size
  MAX_ALLOCS,   \* bound on alloc_count
  MISUSE        \* which chunks the application may free a second time

ASSUME MAX_ALLOCS \in Nat /\ MISUSE \in {"none", "double_free", "double_free_permanent"}

NONE == "none"

VARIABLES
  zone,       \* the iso_alloc_zone_t record
  owned,      \* chunks the application holds (returned by alloc, not freed)
  released,   \* chunks the application has freed since the zone was made
  permFreed,  \* chunks the application freed permanently since then
  aborted     \* NONE, or the LOG_AND_ABORT that stopped the process

vars == <<zone, owned, released, permFreed, aborted>>

Init ==
  /\ zone \in NewZones(TRUE, CHUNK_SIZE)
  /\ owned = {} /\ released = {} /\ permFreed = {}
  /\ aborted = NONE

(* _iso_alloc, small path, on this zone (part_000:1486-1556).             *)
Alloc ==
  /\ aborted = NONE
  /\ zone.allocCount < MAX_ALLOCS
  /\ \E o \in AllocOutcomes(zone, CHUNK_SIZE) :
       \/ /\ o.abort
          /\ aborted' = "alloc_in_use"
          /\ UNCHANGED <<zone, owned, released, permFreed>>
       \/ /\ ~o.abort
          /\ zone' = o.zone
          /\ owned' = owned \cup ({o.slot} \ {BAD_BIT_SLOT})
          /\ released' = released \ {o.slot}
          /\ UNCHANGED <<permFreed, aborted>>

(* iso_free_chunk_from_zone followed by the retirement test of            *)
(* _iso_free_internal_unlocked; a retired zone is replaced in place by a  *)
(* fresh one, whose chunks are new memory.                                *)
FreeAndRetire(c, permanent) ==
  LET z == FreeChunk(zone, c, permanent)
  IN IF IsZoneRetired(z)
     THEN /\ zone' \in NewZones(TRUE, CHUNK_SIZE)
          /\ released' = {}
          /\ permFreed' = {}
     ELSE /\ zone' = z
          /\ released' = released \cup {c}
          /\ permFreed' = IF permanent THEN permFreed \cup {c} ELSE permFreed

Free(c, permanent) ==
  /\ aborted = NONE
  /\ c \in owned
  /\ FreeAndRetire(c, permanent)
  /\ owned' = owned \ {c}
  /\ UNCHANGED aborted

StaleFree(c) ==
  /\ aborted = NONE
  /\ c \in CASE MISUSE = "double_free"           -> released \ permFreed
            [] MISUSE = "double_free_permanent" -> released
            [] OTHER                            -> {}
  /\ \/ /\ FreeAborts(zone, c)
        /\ aborted' = "double_free"
        /\ UNCHANGED <<zone, owned, released, permFreed>>
     \/ /\ ~FreeAborts(zone, c)
        /\ FreeAndRetire(c, FALSE)
        /\ UNCHANGED <<owned, aborted>>

Next ==
  \/ Alloc
  \/ \E c \in Chunks, p \in BOOLEAN : Free(c, p)
  \/ \E c \in Chunks : StaleFree(c)

Spec == Init /\ [][Next]_vars

-----------------------------------------------------------------------------
TypeOK ==
  /\ zone \in ZoneType
  /\ owned \subseteq Chunks /\ released \subseteq Chunks /\ permFreed \subseteq released
  /\ aborted \in {NONE, "alloc_in_use", "double_free"}

(* Exclusive ownership (spec 5): every chunk the application holds is in  *)
(* use in the bitmap, so no later alloc, refill, scan or retirement can    *)
(* hand it out again.                                                      *)
OwnedAreInUse == \A c \in owned : zone.bitmap[c] = IN_USE

(* af_count equals the number of chunks whose bitmap pattern is in-use    *)
(* (spec 3), across allocs, normal and permanent frees and retirement.    *)
AfCountMatchesBitmap ==
  zone.afCount = Cardinality({ c \in Chunks : zone.bitmap[c] = IN_USE })

(* The slot _iso_alloc takes from next_free_bit_slot, whether it came     *)
(* from the free slot cache or from a scan, is never in use or a canary:  *)
(* the "cannot return allocated chunk" abort never fires.                  *)
AllocNeverHitsLiveSlot == aborted # "alloc_in_use"

(* is_full is the cached "no free slot" flag (spec 3): when it is set the *)
(* zone has no chunk whose bitmap low bit is clear.                        *)
IsFullMeansNoFreeSlot ==
  zone.isFull => \A c \in Chunks : ~IsFreeSlot(zone.bitmap, c)
=============================================================================
