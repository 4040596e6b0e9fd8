------------------------------ MODULE IsoHeap ------------------------------
(***************************************************************************)
(* Application threads sharing one internal zone through the root lock,   *)
(* each with its thread-local chunk quarantine (iso_alloc.c, THREAD_SUPPORT *)
(* build).  A call that takes the root lock once is one atomic step:       *)
(*   Alloc       _iso_alloc served by the zone (or by another zone, which  *)
(*               this module leaves out, when the zone cannot serve it);   *)
(*   Free        _iso_free, non-permanent: append to the quarantine, or,   *)
(*               when it is full, start draining it;                       *)
(*   DrainStep   one iteration of _iso_free's drain loop, which calls      *)
(*               _iso_free_internal and so takes the root lock once per    *)
(*               entry: other threads run between two entries;             *)
(*   DrainDone   the end of that drain: clear, then append the new chunk;  *)
(*   FreePermanent  _iso_free(p, true): straight to _iso_free_internal;    *)
(*   Flush       flush_caches: the whole quarantine under one root lock.   *)
(* DOUBLE_FREE says when the application may pass to free() a chunk it    *)
(* already freed and that still waits in its own quarantine: "none";      *)
(* "queued", only when that second call is appended to a quarantine that  *)
(* is not full; "any".                                                     *)
(***************************************************************************)
EXTENDS IsoZone

CONSTANTS
  Threads,
  CHUNK_QUARANTINE_SZ,
  CHUNK_SIZE,
  MAX_ALLOCS,    \* bound on the zone's alloc_count
  DOUBLE_FREE   \* "none", "queued" or "any"

ASSUME /\ CHUNK_QUARANTINE_SZ \in Nat \ {0} /\ MAX_ALLOCS \in Nat
       /\ DOUBLE_FREE \in {"none", "queued", "any"}

NONE == "none"
NoThread == NONE

VARIABLES
  zone,        \* the shared zone, guarded by the root lock
  owned,       \* owned[t]: chunks thread t holds
  quarantine,  \* quarantine[t]: chunk_quarantine[0 .. chunk_quarantine_count-1]
  drainPos,    \* drainPos[t]: 0, or the 1-based loop index of a drain under way
  pending,     \* pending[t]: the chunk whose free started the drain
  freedBy,     \* history: freedBy[c], the thread whose free() last took c
  gap,         \* history: frees by that thread since, saturated at CHUNK_QUARANTINE_SZ
  aborted      \* NONE, or the LOG_AND_ABORT that stopped the process

vars == <<zone, owned, quarantine, drainPos, pending, freedBy, gap, aborted>>

(* Entries of t's quarantine not yet handed to the zone.                    *)
Undrained(t) ==
  { quarantine[t][i] : i \in IF drainPos[t] = 0 THEN 1 .. Len(quarantine[t])
                                              ELSE drainPos[t] .. Len(quarantine[t]) }

Idle(t) == aborted = NONE /\ drainPos[t] = 0

(* Chunks t may free a second time, as DOUBLE_FREE allows.                 *)
Refreeable(t) ==
  CASE DOUBLE_FREE = "any"    -> Undrained(t)
    [] DOUBLE_FREE = "queued" -> IF Len(quarantine[t]) < CHUNK_QUARANTINE_SZ
                                 THEN Undrained(t) ELSE {}
    [] OTHER                  -> {}

Init ==
  /\ zone \in NewZones(TRUE, CHUNK_SIZE)
  /\ owned = [t \in Threads |-> {}]
  /\ quarantine = [t \in Threads |-> <<>>]
  /\ drainPos = [t \in Threads |-> 0]
  /\ pending = [t \in Threads |-> BAD_BIT_SLOT]
  /\ freedBy = [c \in Chunks |-> NoThread]
  /\ gap = [c \in Chunks |-> 0]
  /\ aborted = NONE

(* A free() call by t of chunk c: c's history restarts, the gap of every  *)
(* chunk t freed before grows.                                             *)
RecordFree(t, c) ==
  /\ freedBy' = [freedBy EXCEPT ![c] = t]
  /\ gap' = [d \in Chunks |-> IF d = c THEN 0
                              ELSE IF freedBy[d] = t /\ gap[d] < CHUNK_QUARANTINE_SZ THEN gap[d] + 1
                              ELSE gap[d]]

(* _iso_free_internal_unlocked on c under the root lock: abort on a double *)
(* free, otherwise free it and possibly retire the zone.                   *)
FreeToZone(c, permanent) ==
  \/ /\ FreeAborts(zone, c)
     /\ aborted' = "double_free"
     /\ UNCHANGED zone
  \/ /\ ~FreeAborts(zone, c)
     /\ zone' \in FreeInternal(zone, c, permanent)
     /\ UNCHANGED aborted

(* _iso_alloc, small path, under the root lock (part_000:1486-1563).       *)
Alloc(t) ==
  /\ Idle(t)
  /\ zone.allocCount < MAX_ALLOCS
  /\ \E o \in AllocOutcomes(zone, CHUNK_SIZE) :
       \/ /\ o.abort
          /\ aborted' = "alloc_in_use"
          /\ UNCHANGED <<zone, owned>>
       \/ /\ ~o.abort
          /\ zone' = o.zone
          /\ owned' = [owned EXCEPT ![t] = @ \cup ({o.slot} \ {BAD_BIT_SLOT})]
          /\ UNCHANGED aborted
  /\ UNCHANGED <<quarantine, drainPos, pending, freedBy, gap>>

(* Mutant: the quarantine takes one entry more than it holds.             *)
FreeQuarantineOverrun(t, c) ==
  /\ Idle(t)
  /\ c \in owned[t] \cup Refreeable(t)
  /\ owned' = [owned EXCEPT ![t] = @ \ {c}]
  /\ RecordFree(t, c)
  /\ IF Len(quarantine[t]) <= CHUNK_QUARANTINE_SZ
     THEN /\ quarantine' = [quarantine EXCEPT ![t] = Append(@, c)]
          /\ UNCHANGED <<drainPos, pending>>
     ELSE /\ drainPos' = [drainPos EXCEPT ![t] = 1]
          /\ pending' = [pending EXCEPT ![t] = c]
          /\ UNCHANGED quarantine
  /\ UNCHANGED <<zone, aborted>>

(* _iso_free(p, false): the quarantine is thread-local, no lock is taken. *)
Free(t, c) ==
  /\ Idle(t)
  /\ c \in owned[t] \cup Refreeable(t)
  /\ owned' = [owned EXCEPT ![t] = @ \ {c}]
  /\ RecordFree(t, c)
  /\ IF Len(quarantine[t]) < CHUNK_QUARANTINE_SZ
     THEN /\ quarantine' = [quarantine EXCEPT ![t] = Append(@, c)]
          /\ UNCHANGED <<drainPos, pending>>
     ELSE /\ drainPos' = [drainPos EXCEPT ![t] = 1]
          /\ pending' = [pending EXCEPT ![t] = c]
          /\ UNCHANGED quarantine
  /\ UNCHANGED <<zone, aborted>>

(* One _iso_free_internal(chunk_quarantine[i], false) of the drain loop.   *)
DrainStep(t) ==
  /\ aborted = NONE
  /\ drainPos[t] \in 1 .. Len(quarantine[t])
  /\ FreeToZone(quarantine[t][drainPos[t]], FALSE)
  /\ drainPos' = [drainPos EXCEPT ![t] = @ + 1]
  /\ UNCHANGED <<owned, quarantine, pending, freedBy, gap>>

(* Mutant: the quarantine is cleared after the new chunk was appended.    *)
DrainDoneClearLast(t) ==
  /\ aborted = NONE
  /\ drainPos[t] = Len(quarantine[t]) + 1
  /\ quarantine' = [quarantine EXCEPT ![t] = <<>>]
  /\ drainPos' = [drainPos EXCEPT ![t] = 0]
  /\ pending' = [pending EXCEPT ![t] = BAD_BIT_SLOT]
  /\ UNCHANGED <<zone, owned, freedBy, gap, aborted>>

(* clear_chunk_quarantine, then the append of the chunk being freed.       *)
DrainDone(t) ==
  /\ aborted = NONE
  /\ drainPos[t] = Len(quarantine[t]) + 1
  /\ quarantine' = [quarantine EXCEPT ![t] = <<pending[t]>>]
  /\ drainPos' = [drainPos EXCEPT ![t] = 0]
  /\ pending' = [pending EXCEPT ![t] = BAD_BIT_SLOT]
  /\ UNCHANGED <<zone, owned, freedBy, gap, aborted>>

(* _iso_free(p, true) -> _iso_free_internal under the root lock.           *)
FreePermanent(t, c) ==
  /\ Idle(t)
  /\ c \in owned[t]
  /\ FreeToZone(c, TRUE)
  /\ owned' = [owned EXCEPT ![t] = @ \ {c}]
  /\ UNCHANGED <<quarantine, drainPos, pending, freedBy, gap>>

(* flush_caches -> _flush_chunk_quarantine: every entry is freed under one *)
(* hold of the root lock, stopping at the first abort.                     *)
RECURSIVE FlushFrom(_, _)
FlushFrom(z, q) ==
  IF q = <<>> THEN {[zone |-> z, abort |-> FALSE]}
  ELSE IF FreeAborts(z, Head(q)) THEN {[zone |-> z, abort |-> TRUE]}
  ELSE UNION { FlushFrom(f, Tail(q)) : f \in FreeInternal(z, Head(q), FALSE) }

Flush(t) ==
  /\ Idle(t)
  /\ quarantine[t] # <<>>
  /\ \E r \in FlushFrom(zone, quarantine[t]) :
       /\ zone' = r.zone
       /\ aborted' = IF r.abort THEN "double_free" ELSE NONE
  /\ quarantine' = [quarantine EXCEPT ![t] = <<>>]
  /\ gap' = [c \in Chunks |-> IF c \in Undrained(t) THEN CHUNK_QUARANTINE_SZ ELSE gap[c]]
  /\ UNCHANGED <<owned, drainPos, pending, freedBy>>

Next ==
  \E t \in Threads :
    \/ Alloc(t)
    \/ \E c \in Chunks : Free(t, c) \/ FreePermanent(t, c)
    \/ DrainStep(t)
    \/ DrainDone(t)
    \/ Flush(t)

Spec == Init /\ [][Next]_vars

-----------------------------------------------------------------------------
TypeOK ==
  /\ zone \in ZoneType
  /\ owned \in [Threads -> SUBSET Chunks]
  /\ quarantine \in [Threads -> Seq(Chunks)]
  /\ \A t \in Threads : Len(quarantine[t]) <= CHUNK_QUARANTINE_SZ
  /\ drainPos \in [Threads -> 0 .. CHUNK_QUARANTINE_SZ + 1]
  /\ pending \in [Threads -> Chunks \cup {BAD_BIT_SLOT}]
  /\ aborted \in {NONE, "alloc_in_use", "double_free"}

(* Exclusive ownership (spec 5): a chunk a thread holds is in use in the   *)
(* bitmap, whatever other threads' frees and drains did since its alloc.   *)
OwnedAreInUse == \A t \in Threads : \A c \in owned[t] : zone.bitmap[c] = IN_USE

(* Chunk accounting across threads: the chunks in use in the bitmap are    *)
(* exactly those some thread holds or that wait, not yet drained, in some  *)
(* quarantine (the one whose free started a drain included); none is both. *)
Parked(t) == Undrained(t) \cup ({pending[t]} \ {BAD_BIT_SLOT})

InUseAccounted ==
  /\ { c \in Chunks : zone.bitmap[c] = IN_USE } =
       UNION { owned[t] \cup Parked(t) : t \in Threads }
  /\ \A t, u \in Threads : owned[t] \cap Parked(u) = {}

(* Quarantine delay (spec 8): a chunk a thread freed comes back to that    *)
(* same thread only after CHUNK_QUARANTINE_SZ further frees by it, or a   *)
(* flush.                                                                  *)
QuarantineDelay ==
  [][\A t \in Threads : \A c \in owned'[t] \ owned[t] :
        freedBy[c] = t => gap[c] >= CHUNK_QUARANTINE_SZ]_vars

(* Refinement mapping: a chunk's holder is the thread that owns it; the   *)
(* process is stopped once an abort fired.                                 *)
Holder == [c \in Chunks |-> IF \E t \in Threads : c \in owned[t]
                            THEN CHOOSE t \in Threads : c \in owned[t] ELSE NONE]

Abstract == INSTANCE Allocator WITH holder <- Holder, stopped <- (aborted # NONE), NOBODY <- NONE

(* The threads, quarantines, drains, flushes and zone retirement together *)
(* implement the Allocator spec: _iso_alloc never returns a chunk that    *)
(* some thread holds (or that is parked in a quarantine and then drained  *)
(* into a thread's hands twice), and without a double free the process   *)
(* never aborts.                                                          *)
AllocatorRefined == Abstract!Spec

=============================================================================
