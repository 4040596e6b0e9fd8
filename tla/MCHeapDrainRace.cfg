\* Two threads; a thread may free again a chunk waiting in its own quarantine,
\* the second copy being appended to it.
CONSTANTS
  WORDS = 2
  SLOTS_PER_WORD = 2
  BIT_SLOT_CACHE_SZ = 2
  ALIGNMENT = 1
  CANARY_DRAWS = 1
  ZONE_ALLOC_RETIRE = 1
  MAX_DEFAULT_ZONE_SZ = 8192
  WASTED_SZ_MULTIPLIER_SHIFT = 3
  SHUFFLE_BIT_SLOT_CACHE = TRUE
  CHUNK_QUARANTINE_SZ = 2
  CHUNK_SIZE = 64
  MAX_ALLOCS = 5
  Threads = {t1, t2}
  DOUBLE_FREE = "queued"
SPECIFICATION Spec
SYMMETRY ThreadSymmetry
INVARIANT OwnedAreInUse
\* LOG_AND_ABORT on a detected double free stops the process.
CHECK_DEADLOCK FALSE
