------------------------------ MODULE BigZone ------------------------------
(***************************************************************************)
(* The big-zone list (iso_alloc.c): allocations above SMALL_SZ_MAX live in *)
(* entries of a singly linked list whose head (_root->big_zone_head) and   *)
(* links (big->next) are stored XOR-masked.  Every call below runs under   *)
(* the big-zone lock, so each is one atomic step:                          *)
(*   BigAlloc  _iso_big_alloc: reuse the first free entry that is large    *)
(*             enough, or map a new one and link it after the last entry;  *)
(*   FindBig   the first half of a free of a big allocation by thread t:  *)
(*             iso_find_big_zone, which releases the lock when it returns; *)
(*   BigFree   the second half: iso_free_big_zone on the entry found,     *)
(*             which for a permanent free unlinks the entry and wipes its  *)
(*             metadata.  Other calls can run between the two halves.      *)
(*   FindSize  the big path of _iso_chunk_size: iso_find_big_zone;         *)
(*   ReadSize  its read of big_zone->size after the lock is released.     *)
(* A stored word is one of: ZERO; MASKWORD, the mask itself; Addr(e), the  *)
(* raw address of entry e; Xor(Addr(e)), that address masked; GARBAGE.     *)
(* MASK_BIG_ZONE_NEXT and UNMASK_BIG_ZONE_NEXT are both Xor.               *)
(* The pages behind each entry are mapped and protected through Pages     *)
(* (iso_alloc_util.c): a user region of guard, data, guard and a metadata *)
(* region of guard, record page, guard.                                   *)
(***************************************************************************)
EXTENDS Pages, FiniteSets, Sequences

CONSTANTS
  Entries,     \* the big-zone metadata records that can be mapped
  SIZES,       \* request sizes in bytes
  BIG_SZ_MAX,
  BIG_ZONE_USER_PAGE_COUNT_SHIFT,
  BIG_ZONE_META_DATA_PAGE_COUNT,
  BIG_ZONE_META_SZ,   \* sizeof(iso_alloc_big_zone_t)
  ALIGNMENT,
  RAND_BITS,          \* width of the uint32_t random_offset
  Threads             \* the threads that free big allocations

ASSUME SIZES \subseteq Nat \ {0}

NONE     == "none"
ZERO     == <<"zero", NONE>>
MASKWORD == <<"mask", NONE>>
GARBAGE  == <<"garbage", NONE>>
Addr(e)  == <<"raw", e>>
Words    == {ZERO, MASKWORD, GARBAGE} \cup { <<k, e>> : k \in {"raw", "masked"}, e \in Entries }

(* XOR with the big-zone next mask.                                        *)
Xor(w) ==
  CASE w = ZERO        -> MASKWORD
    [] w = MASKWORD    -> ZERO
    [] w = GARBAGE     -> GARBAGE
    [] w[1] = "raw"    -> <<"masked", w[2]>>
    [] OTHER           -> <<"raw", w[2]>>

VARIABLES
  head,      \* _root->big_zone_head
  next,      \* next[e]: e->next
  state,     \* "unmapped", "live", "free", or "wiped" (permanently freed)
  size,      \* size[e]: e->size
  held,      \* held[e]: how many times the application holds e's pages
  mem,       \* the address space (Pages)
  userAt,    \* userAt[e]: e->user_pages_start
  metaAt,    \* metaAt[e]: the address of e's metadata record
  aborted,   \* NONE, or the LOG_AND_ABORT / fault that stopped the process
  freeing,   \* freeing[t]: the entry and permanent flag of t's free between
             \* iso_find_big_zone and iso_free_big_zone, or IDLE
  sizing,    \* sizing[t]: the entry t's _iso_chunk_size found, or NONE
  req        \* req[e]: the size the holder of e asked for (history)

vars == <<head, next, state, size, held, mem, userAt, metaAt, aborted, freeing, sizing, req>>

(* freeing[t] of a thread not inside a big free.                           *)
IDLE == [e |-> NONE, permanent |-> FALSE]

Mapped == { e \in Entries : state[e] \in {"live", "free"} }

(* Dereferencing a word: only the raw address of intact metadata reads     *)
(* back; anything else faults or fails check_big_canary.                   *)
Valid(w) == \E e \in Mapped : w = Addr(e)
EntryAt(w) == w[2]

(* Mutant: reuse does not compare the entry's size with the request.      *)
ReusableIgnoresSize(e, sz) == state[e] = "free"

(* Mutant: reuse does not test the free flag.                            *)
ReusableAnyState(e, sz) == size[e] >= sz

(* The list walk shared by _iso_big_alloc, iso_find_big_zone and the       *)
(* unlink loop of iso_free_big_zone: start from UNMASK(head), check each  *)
(* entry's canaries, stop at the first entry the goal picks, else follow  *)
(* UNMASK(e->next) until a NULL next.  The goal says which loop walks:    *)
(* "fit" (a free entry of at least arg bytes), "ptr" (the entry arg),     *)
(* "pred" (the entry whose unmasked next is arg), "all" (no stop).  The   *)
(* result says how it ended and the entry it stopped at (at) or the last  *)
(* one visited (last).                                                     *)
Reusable(e, sz) == state[e] = "free" /\ size[e] >= sz

StopAt(x, goal) ==
  CASE goal.mode = "fit"  -> Reusable(x, goal.arg)
    [] goal.mode = "ptr"  -> x = goal.arg
    [] goal.mode = "pred" -> Xor(next[x]) = Addr(goal.arg)
    [] OTHER              -> FALSE

RECURSIVE WalkFrom(_, _, _, _)
WalkFrom(w, last, goal, n) ==
  IF w = ZERO THEN [kind |-> "end", at |-> NONE, last |-> last]
  ELSE IF n = 0 \/ ~Valid(w) THEN [kind |-> "fault", at |-> NONE, last |-> last]
  ELSE IF StopAt(EntryAt(w), goal) THEN [kind |-> "found", at |-> EntryAt(w), last |-> last]
  ELSE IF next[EntryAt(w)] = ZERO THEN [kind |-> "end", at |-> NONE, last |-> EntryAt(w)]
  ELSE WalkFrom(Xor(next[EntryAt(w)]), EntryAt(w), goal, n - 1)

Start == IF head = ZERO THEN ZERO ELSE Xor(head)

Walk(mode, arg) == WalkFrom(Start, NONE, [mode |-> mode, arg |-> arg], Cardinality(Entries) + 1)

Init ==
  /\ head = ZERO
  /\ next = [e \in Entries |-> ZERO]
  /\ state = [e \in Entries |-> "unmapped"]
  /\ size = [e \in Entries |-> 0]
  /\ held = [e \in Entries |-> 0]
  /\ mem = EmptyMemory
  /\ userAt = [e \in Entries |-> NULL]
  /\ metaAt = [e \in Entries |-> NULL]
  /\ aborted = NONE
  /\ freeing = [t \in Threads |-> IDLE]
  /\ sizing = [t \in Threads |-> NONE]
  /\ req = [e \in Entries |-> 0]

Fault(why) ==
  /\ aborted' = why
  /\ UNCHANGED <<head, next, state, size, held, mem, userAt, metaAt, freeing, sizing, req>>

(* The offsets the metadata record can take in its page: random_offset is *)
(* ALIGN_SZ_DOWN(rand_uint64()) cut to uint32_t, scaled into s bytes.      *)
MetaOffsets ==
  LET s == PAGE_SIZE - (BIG_ZONE_META_SZ - 1)
  IN { (r * s) \div 2^RAND_BITS : r \in { x \in 0 .. 2^RAND_BITS - 1 : x % ALIGNMENT = 0 } }

(* Mutant: last_gp taken before user_pages is advanced past its guard.   *)
MapBigZoneLastGpShort(sz) ==
  UNION { IF ~u.ok THEN {[ok |-> FALSE, mem |-> mem, user |-> NULL, meta |-> NULL]}
          ELSE UNION { IF ~m.ok THEN {[ok |-> FALSE, mem |-> mem, user |-> NULL, meta |-> NULL]}
                       ELSE { [ok |-> g.ok, mem |-> g.mem,
                               user |-> <<u.p[1], PAGE_SIZE>>,
                               meta |-> <<m.p[1], PAGE_SIZE + off>>]
                              : g \in GuardPages(m.mem, << m.p, <<m.p[1], 2 * PAGE_SIZE>>,
                                                           u.p, <<u.p[1], sz>> >>),
                                off \in MetaOffsets }
                       : m \in MmapPages(u.mem, PAGE_SIZE * BIG_ZONE_META_DATA_PAGE_COUNT, PROT_RW) }
          : u \in MmapPages(mem, PAGE_SIZE * 2^BIG_ZONE_USER_PAGE_COUNT_SHIFT + sz, PROT_RW) }

(* The mapping part of _iso_big_alloc's new-entry path: user pages, then  *)
(* metadata pages, the record at a random offset in the second page, and  *)
(* guard pages below and above both.  Each result is [ok, mem, user, meta].*)
MapBigZone(sz) ==
  UNION { IF ~u.ok THEN {[ok |-> FALSE, mem |-> mem, user |-> NULL, meta |-> NULL]}
          ELSE UNION { IF ~m.ok THEN {[ok |-> FALSE, mem |-> mem, user |-> NULL, meta |-> NULL]}
                       ELSE { [ok |-> g.ok, mem |-> g.mem,
                               user |-> <<u.p[1], PAGE_SIZE>>,
                               meta |-> <<m.p[1], PAGE_SIZE + off>>]
                              : g \in GuardPages(m.mem, << m.p, <<m.p[1], 2 * PAGE_SIZE>>,
                                                           u.p, <<u.p[1], PAGE_SIZE + sz>> >>),
                                off \in MetaOffsets }
                       : m \in MmapPages(u.mem, PAGE_SIZE * BIG_ZONE_META_DATA_PAGE_COUNT, PROT_RW) }
          : u \in MmapPages(mem, PAGE_SIZE * 2^BIG_ZONE_USER_PAGE_COUNT_SHIFT + sz, PROT_RW) }

(* _iso_big_alloc: walk for a free entry of at least sz bytes; reuse it,  *)
(* or map a new entry, append it after the last one visited and, if the   *)
(* list is empty, make it the head.  No unmapped entry left stands for    *)
(* mmap failing, where the call returns NULL.                              *)
BigAlloc(request) ==
  LET sz == ROUND_UP_PAGE(request) % 2^SIZE_T_BITS
  IN /\ aborted = NONE
     /\ UNCHANGED <<freeing, sizing>>
     /\ IF sz < request \/ sz > BIG_SZ_MAX THEN Fault("big_too_large")
        ELSE LET r == Walk("fit", sz)
             IN CASE r.kind = "fault" -> Fault("big_list_fault")
                  [] r.kind = "found" ->
                       /\ state' = [state EXCEPT ![r.at] = "live"]
                       /\ held' = [held EXCEPT ![r.at] = @ + 1]
                       /\ req' = [req EXCEPT ![r.at] = request]
                       /\ UNCHANGED <<head, next, size, mem, userAt, metaAt, aborted>>
                  [] OTHER ->
                       \E n \in Entries, g \in MapBigZone(sz) :
                         /\ state[n] = "unmapped"
                         /\ IF ~g.ok THEN Fault("mmap_failed")
                            ELSE /\ state' = [state EXCEPT ![n] = "live"]
                                 /\ size' = [size EXCEPT ![n] = sz]
                                 /\ next' = IF r.last = NONE THEN [next EXCEPT ![n] = ZERO]
                                            ELSE [next EXCEPT ![n] = ZERO, ![r.last] = Xor(Addr(n))]
                                 /\ head' = IF head = ZERO THEN Xor(Addr(n)) ELSE head
                                 /\ held' = [held EXCEPT ![n] = @ + 1]
                                 /\ req' = [req EXCEPT ![n] = request]
                                 /\ mem' = g.mem
                                 /\ userAt' = [userAt EXCEPT ![n] = g.user]
                                 /\ metaAt' = [metaAt EXCEPT ![n] = g.meta]
                                 /\ UNCHANGED aborted

(* The unlink of a permanent iso_free_big_zone: a head entry clears       *)
(* big_zone_head; otherwise the predecessor's next becomes                 *)
(* UNMASK(big_zone->next); not finding a predecessor aborts.  The memset  *)
(* that follows poisons the entry's own next.                              *)
Unlink(e) ==
  IF Start = Addr(e)
  THEN [ok |-> TRUE, head |-> ZERO, next |-> [next EXCEPT ![e] = GARBAGE]]
  ELSE LET u == Walk("pred", e)
       IN IF u.kind = "found"
          THEN [ok |-> TRUE, head |-> head,
                next |-> [next EXCEPT ![u.at] = Xor(next[e]), ![e] = GARBAGE]]
          ELSE [ok |-> FALSE, head |-> head, next |-> next]

(* Mutant: the permanent free seals the user pages only.                  *)
SealUserOnly(e) == MprotectPages(mem, userAt[e], size[e], PROT_NONE)

(* The end of a permanent iso_free_big_zone: the user pages and the page  *)
(* holding the metadata record become PROT_NONE.                           *)
Seal(e) ==
  LET a == MprotectPages(mem, userAt[e], size[e], PROT_NONE)
      b == MprotectPages(a.mem, <<metaAt[e][1], ROUND_DOWN_PAGE(metaAt[e][2])>>, PAGE_SIZE, PROT_NONE)
  IN [ok |-> a.ok /\ b.ok, mem |-> IF a.ok THEN b.mem ELSE mem]

(* Mutant: a normal free poisons the pages but leaves the free flag.      *)
ReleaseKeepsFlag(e) ==
  /\ held' = [held EXCEPT ![e] = @ - 1]
  /\ req' = [req EXCEPT ![e] = 0]
  /\ UNCHANGED <<state, head, next, size, mem, userAt, metaAt, aborted, sizing>>

(* The non-permanent branch of iso_free_big_zone: the entry is marked     *)
(* free and its pages can be reused.                                       *)
Release(e) ==
  /\ state' = [state EXCEPT ![e] = "free"]
  /\ held' = [held EXCEPT ![e] = @ - 1]
  /\ req' = [req EXCEPT ![e] = 0]
  /\ UNCHANGED <<head, next, size, mem, userAt, metaAt, aborted, sizing>>

(* The entries some thread is between iso_find_big_zone and               *)
(* iso_free_big_zone for.                                                   *)
BeingFreed == { freeing[t].e : t \in { u \in Threads : freeing[u] # IDLE } }

(* The entries some thread's _iso_chunk_size has found and not yet read.   *)
BeingSized == { sizing[t] : t \in Threads } \ {NONE}

(* _iso_free_internal_unlocked (or _iso_free_size) on a big allocation the *)
(* application holds and is not already freeing: iso_find_big_zone walks  *)
(* the list for it under the lock and returns it after the unlock.        *)
FindBig(t, e, permanent) ==
  /\ aborted = NONE
  /\ freeing[t] = IDLE
  /\ held[e] > 0
  /\ e \notin BeingFreed \cup BeingSized
  /\ LET f == Walk("ptr", e)
     IN CASE f.kind = "fault" -> Fault("big_list_fault")
          [] f.kind = "end"   -> Fault("no_zone_found")
          [] OTHER ->
               /\ freeing' = [freeing EXCEPT ![t] = [e |-> e, permanent |-> permanent]]
               /\ UNCHANGED <<head, next, state, size, held, mem, userAt, metaAt, aborted, sizing, req>>

(* iso_free_big_zone(big_zone, permanent) on the entry thread t found.     *)
BigFree(t) ==
  LET e == freeing[t].e
      permanent == freeing[t].permanent
  IN /\ aborted = NONE
     /\ freeing[t] # IDLE
     /\ CASE state[e] = "free" -> Fault("big_double_free")
          [] ~permanent -> Release(e) /\ freeing' = [freeing EXCEPT ![t] = IDLE]
          [] ~Unlink(e).ok -> Fault("big_list_corrupted")
          [] OTHER ->
               /\ head' = Unlink(e).head
               /\ next' = Unlink(e).next
               /\ state' = [state EXCEPT ![e] = "wiped"]
               /\ held' = [held EXCEPT ![e] = @ - 1]
               /\ req' = [req EXCEPT ![e] = 0]
               /\ mem' = Seal(e).mem
               /\ aborted' = IF Seal(e).ok THEN NONE ELSE "mprotect_failed"
               /\ freeing' = [freeing EXCEPT ![t] = IDLE]
               /\ UNCHANGED <<size, userAt, metaAt, sizing>>

(* _iso_chunk_size(p) on a big allocation the application holds: the root *)
(* lookup misses, then iso_find_big_zone walks the big list under its lock.*)
FindSize(t, e) ==
  /\ aborted = NONE
  /\ freeing[t] = IDLE /\ sizing[t] = NONE
  /\ held[e] > 0
  /\ e \notin BeingFreed
  /\ LET f == Walk("ptr", e)
     IN CASE f.kind = "fault" -> Fault("big_list_fault")
          [] f.kind = "end"   -> Fault("no_zone_found")
          [] OTHER ->
               /\ sizing' = [sizing EXCEPT ![t] = e]
               /\ UNCHANGED <<head, next, state, size, held, mem, userAt, metaAt, aborted, freeing, req>>

(* return big_zone->size, read after iso_find_big_zone unlocked.           *)
ReadSize(t) ==
  /\ aborted = NONE
  /\ sizing[t] # NONE
  /\ sizing' = [sizing EXCEPT ![t] = NONE]
  /\ UNCHANGED <<head, next, state, size, held, mem, userAt, metaAt, aborted, freeing, req>>

Next ==
  \/ \E sz \in SIZES : BigAlloc(sz)
  \/ \E t \in Threads, e \in Entries, p \in BOOLEAN : FindBig(t, e, p)
  \/ \E t \in Threads : BigFree(t)
  \/ \E t \in Threads, e \in Entries : FindSize(t, e)
  \/ \E t \in Threads : ReadSize(t)

Spec == Init /\ [][Next]_vars
-----------------------------------------------------------------------------
TypeOK ==
  /\ head \in Words
  /\ next \in [Entries -> Words]
  /\ state \in [Entries -> {"unmapped", "live", "free", "wiped"}]
  /\ size \in [Entries -> { ROUND_UP_PAGE(s) : s \in SIZES } \cup {0}]
  /\ held \in [Entries -> 0 .. 1]
  /\ mem \in [Regions -> [PageIdx -> {UNMAPPED, PROT_NONE, PROT_RW}]]
  /\ aborted \in {NONE, "big_list_fault", "big_list_corrupted", "no_zone_found", "big_double_free",
                   "big_too_large", "mmap_failed", "mprotect_failed"}
  /\ freeing \in [Threads -> {IDLE} \cup [e : Entries, permanent : BOOLEAN]]
  /\ sizing \in [Threads -> Entries \cup {NONE}]
  /\ req \in [Entries -> SIZES \cup {0}]

(* The free flag of a mapped entry is set exactly when the application    *)
(* holds none of its pages, so _iso_big_alloc reuses only released pages. *)
ExclusiveBig == \A e \in Mapped : (state[e] = "free") <=> (held[e] = 0)

(* The entries reachable from big_zone_head through unmasked next links.  *)
RECURSIVE ReachFrom(_, _)
ReachFrom(w, n) ==
  IF w = ZERO \/ n = 0 \/ ~Valid(w) THEN {}
  ELSE {EntryAt(w)} \cup (IF next[EntryAt(w)] = ZERO THEN {}
                          ELSE ReachFrom(Xor(next[EntryAt(w)]), n - 1))

(* Every mapped big zone, held or free, stays on the list, so a later     *)
(* free finds it and a later alloc can reuse it.                           *)
BigListReachesAll == Mapped \subseteq ReachFrom(Start, Cardinality(Entries) + 1)

(* Walking the whole list from big_zone_head, as every big alloc and free *)
(* does, only dereferences intact metadata and ends at a NULL next.        *)
BigListWalkSafe == Walk("all", NONE).kind = "end"

(* The protection of page i of mapping r, UNMAPPED off its end.            *)
Prot(r, i) == IF i \in PageIdx THEN mem[r][i] ELSE UNMAPPED

(* The pages a big zone's user data spans, from user_pages_start.         *)
UserPages(e) == PageOf(userAt[e]) .. PageOf(userAt[e]) + size[e] \div PAGE_SIZE - 1

(* Spec 84, 220, 294: every mapped big zone's user bytes                   *)
(* user_pages_start .. +size are read-write and lie between two PROT_NONE *)
(* pages, and its metadata record lies wholly inside one read-write page  *)
(* with PROT_NONE pages on both sides, whatever the random offset, so a   *)
(* linear overflow from either side faults.  _iso_big_alloc places four   *)
(* guards by pointer arithmetic on two mappings.                          *)
BigRegionsGuarded ==
  \A e \in Mapped :
    LET u == userAt[e]
        m == metaAt[e]
    IN /\ Prot(u[1], PageOf(u) - 1) = PROT_NONE
       /\ \A i \in UserPages(e) : Prot(u[1], i) = PROT_RW
       /\ Prot(u[1], PageOf(u) + size[e] \div PAGE_SIZE) = PROT_NONE
       /\ Prot(m[1], PageOf(m) - 1) = PROT_NONE
       /\ Prot(m[1], PageOf(m)) = PROT_RW
       /\ Prot(m[1], PageOf(m) + 1) = PROT_NONE
       /\ m[2] + BIG_ZONE_META_SZ <= (PageOf(m) + 1) * PAGE_SIZE

(* A permanently freed big zone can never be touched again: its user      *)
(* pages and the page of its (poisoned) metadata record are PROT_NONE, so *)
(* a dangling pointer into either faults (iso_free_big_zone, permanent).  *)
WipedSealed ==
  aborted = NONE =>
    \A e \in Entries : state[e] = "wiped" =>
      /\ \A i \in UserPages(e) : Prot(userAt[e][1], i) = PROT_NONE
      /\ Prot(metaAt[e][1], PageOf(metaAt[e])) = PROT_NONE

(* _iso_chunk_size (2214-2220) on a big allocation reads big_zone->size   *)
(* after iso_find_big_zone has released the lock: the entry it read is    *)
(* still mapped, and the size it returns covers what the caller asked     *)
(* _iso_big_alloc for, whichever entry (new or reused) served the request *)
(* and whatever other threads' allocs and frees ran in between.           *)
ChunkSizeCoversRequest ==
  \A t \in Threads : sizing[t] # NONE =>
    /\ sizing[t] \in Mapped
    /\ size[sizing[t]] >= req[sizing[t]]
=============================================================================
