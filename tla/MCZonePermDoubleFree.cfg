CONSTANTS
  WORDS = 3
  SLOTS_PER_WORD = 2
  BIT_SLOT_CACHE_SZ = 3
  ALIGNMENT = 1
  CANARY_DRAWS = 1
  ZONE_ALLOC_RETIRE = 1
  MAX_DEFAULT_ZONE_SZ = 8192
  WASTED_SZ_MULTIPLIER_SHIFT = 3
  SHUFFLE_BIT_SLOT_CACHE = TRUE
  CHUNK_SIZE = 64
  MAX_ALLOCS = 8
  MISUSE = "double_free_permanent"
SPECIFICATION Spec
INVARIANT OwnedAreInUse
\* LOG_AND_ABORT on a detected double free stops the process.
CHECK_DEADLOCK FALSE
