\* Two threads, no application double free: every chunk stays accounted for.
\* A zone of 2 qwords of 2 chunks, a 2-entry quarantine, retirement after 4 allocs.
\* Seven allocs let both threads drain their quarantine, or one drain it twice.
CONSTANTS
  WORDS = 2
  SLOTS_PER_WORD = 2
  BIT_SLOT_CACHE_SZ = 2
  ALIGNMENT = 1
  CANARY_DRAWS = 1
  ZONE_ALLOC_RETIRE = 1
  MAX_DEFAULT_ZONE_SZ = 8192
  WASTED_SZ_MULTIPLIER_SHIFT = 3
  SHUFFLE_BIT_SLOT_CACHE = TRUE
  Threads = {t1, t2}
  CHUNK_QUARANTINE_SZ = 2
  CHUNK_SIZE = 64
  MAX_ALLOCS = 7
  DOUBLE_FREE = "none"
\* Threads are not declared symmetric; the run is small without it.
SPECIFICATION Spec
INVARIANTS
  TypeOK
  InUseAccounted
PROPERTY
  AllocatorRefined
\* The application may stop calling the allocator at any point.
CHECK_DEADLOCK FALSE
