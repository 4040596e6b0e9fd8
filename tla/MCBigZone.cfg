\* Big allocations freed normally or permanently.
CONSTANTS
  Entries = {b1, b2, b3}
  SIZES = {3, 5, 9}
  Regions = {r1, r2, r3, r4, r5, r6}
  PAGE_SIZE = 4
  MAX_MAP_PAGES = 4
  SIZE_T_BITS = 8
  BIG_SZ_MAX = 8
  BIG_ZONE_USER_PAGE_COUNT_SHIFT = 1
  BIG_ZONE_META_DATA_PAGE_COUNT = 3
  BIG_ZONE_META_SZ = 3
  ALIGNMENT = 2
  RAND_BITS = 3
  Threads = {t1, t2}
SPECIFICATION Spec
SYMMETRY EntrySymmetry
INVARIANTS
  TypeOK
  ExclusiveBig
  BigRegionsGuarded
  WipedSealed
  ChunkSizeCoversRequest
\* LOG_AND_ABORT on a corrupted list stops the process.
CHECK_DEADLOCK FALSE
