------------------------------- MODULE Pages -------------------------------
(***************************************************************************)
(* The page-mapping utilities of iso_alloc_util.c, as operators on an      *)
(* address space.  mmap without MAP_FIXED never overlaps an existing       *)
(* mapping, so the random hint of mmap_pages only decides where a mapping  *)
(* lands, which no property here depends on: the address space is a set   *)
(* of mappings (Regions), each a row of pages with a protection, and an   *)
(* address is <<region, byte offset>>.  An operator that can fail returns *)
(* a record whose ok field is FALSE where the code calls LOG_AND_ABORT.   *)
(***************************************************************************)
EXTENDS Integers, Sequences
LOCAL INSTANCE Bitwise

CONSTANTS
  PAGE_SIZE,      \* g_page_size (system_page_size), scaled down
  Regions,        \* the mappings the address space can hold
  MAX_MAP_PAGES,  \* pages of the largest mapping
  SIZE_T_BITS     \* width of size_t

ASSUME PAGE_SIZE \in Nat \ {0} /\ MAX_MAP_PAGES \in Nat \ {0} /\ SIZE_T_BITS \in Nat \ {0}

UNMAPPED  == "unmapped"
PROT_NONE == "none"
PROT_RW   == "rw"
NULL      == <<"null", 0>>

PageIdx == 0 .. MAX_MAP_PAGES - 1

EmptyMemory == [r \in Regions |-> [i \in PageIdx |-> UNMAPPED]]

ROUND_UP_PAGE(n)   == ((n + PAGE_SIZE - 1) \div PAGE_SIZE) * PAGE_SIZE
ROUND_DOWN_PAGE(n) == (n \div PAGE_SIZE) * PAGE_SIZE

(* The page of mapping p[1] that byte offset p[2] falls in.                *)
PageOf(p) == p[2] \div PAGE_SIZE

FreeRegions(mem) == { r \in Regions : \A i \in PageIdx : mem[r][i] = UNMAPPED }

(* name_mapping and name_zone: prctl(PR_SET_VMA) on Android builds, return *)
(* 0 otherwise; either way only the name of the mapping changes.           *)
NameMapping(mem, p, sz) == mem

(* mmap_pages (and mmap_rw_pages with prot PROT_RW): round size up to a   *)
(* page, map it where the address space has room; MAP_FAILED aborts.      *)
(* Nothing here unmaps a region, so every free region is an untouched one *)
(* and all of them are interchangeable: the region is CHOSEN rather than  *)
(* enumerated, which stands for every placement the kernel can pick.      *)
MmapPages(mem, size, prot) ==
  LET n == ROUND_UP_PAGE(size) \div PAGE_SIZE
      r == CHOOSE x \in FreeRegions(mem) : TRUE
  IN IF n > MAX_MAP_PAGES \/ FreeRegions(mem) = {}
     THEN {[ok |-> FALSE, mem |-> mem, p |-> NULL]}
     ELSE {[ok |-> TRUE, p |-> <<r, 0>>,
            mem |-> NameMapping([mem EXCEPT ![r] = [i \in PageIdx |-> IF i < n THEN prot ELSE UNMAPPED]],
                                <<r, 0>>, n * PAGE_SIZE)]}

(* mprotect_pages: round size up to a page; mprotect fails (EINVAL) on an  *)
(* unaligned address and (ENOMEM) on a range not wholly mapped, and the   *)
(* failure aborts.                                                         *)
MprotectPages(mem, p, size, prot) ==
  LET pages == PageOf(p) .. PageOf(p) + ROUND_UP_PAGE(size) \div PAGE_SIZE - 1
  IN IF \/ p = NULL
        \/ p[2] % PAGE_SIZE # 0
        \/ ~(pages \subseteq PageIdx)
        \/ \E i \in pages : mem[p[1]][i] = UNMAPPED
     THEN [ok |-> FALSE, mem |-> mem]
     ELSE [ok |-> TRUE,
           mem |-> [mem EXCEPT ![p[1]] = [i \in PageIdx |-> IF i \in pages THEN prot ELSE @[i]]]]

(* create_guard_page: map a page first if p is NULL, then make the page   *)
(* PROT_NONE (the madvise(MADV_DONTNEED) after it only drops contents).   *)
CreateGuardPage(mem, p) ==
  LET base == IF p = NULL THEN MmapPages(mem, PAGE_SIZE, PROT_RW)
              ELSE {[ok |-> TRUE, mem |-> mem, p |-> p]}
  IN { LET g == MprotectPages(b.mem, b.p, PAGE_SIZE, PROT_NONE)
       IN [ok |-> b.ok /\ g.ok, mem |-> IF b.ok THEN g.mem ELSE mem, p |-> b.p]
       : b \in base }

(* create_guard_page on each address of ps in turn, stopping at the      *)
(* first abort.                                                            *)
RECURSIVE GuardPages(_, _)
GuardPages(mem, ps) ==
  IF ps = <<>> THEN {[ok |-> TRUE, mem |-> mem]}
  ELSE UNION { IF g.ok THEN GuardPages(g.mem, Tail(ps)) ELSE {[ok |-> FALSE, mem |-> g.mem]}
               : g \in CreateGuardPage(mem, Head(ps)) }

(* The shifts of next_pow2 from shift k on: sz |= sz >> k, then 2k, up   *)
(* to 32.                                                                   *)
RECURSIVE SmearFrom(_, _)
SmearFrom(sz, k) == IF k > 32 THEN sz ELSE SmearFrom(sz | shiftR(sz, k), 2 * k)

(* next_pow2: smear the highest set bit into every lower bit, then add    *)
(* one; the sum wraps in size_t.                                           *)
next_pow2(sz) == (SmearFrom(sz, 1) + 1) % 2^SIZE_T_BITS

(* is_pow2: sz is a power of two (zero is not).                            *)
IsPow2(sz) == \E k \in 0 .. SIZE_T_BITS - 1 : sz = 2^k
=============================================================================
