\* Two default zones (chunk sizes 2 and 4) and room for two more; requests
\* of 1 and 3 bytes exercise the SMALLEST_CHUNK_SZ clamp and a size that is
\* not a power of two, rounded up to the 4-byte chain.
CONSTANTS
  MAX_ZONES = 4
  SMALLEST_CHUNK_SZ = 2
  SMALL_SZ_MAX = 4
  ZONE_128 = 2
  ZONE_1024 = 4
  MAX_DEFAULT_ZONE_SZ = 4
  ZONE_USER_SIZE = 4
  ZONE_ALLOC_RETIRE = 1
  WASTED_SZ_MULTIPLIER_SHIFT = 1
  ALIGNMENT = 2
  ZONE_CACHE_SZ = 1
  SIZE_T_BITS = 4
  DEFAULT_ZONES <- MCDefaultZones
  REQS = {1, 3}
SPECIFICATION Spec
VIEW RootView
INVARIANTS
  TypeOK
  SizeChainsWellFormed
  PointerLookupSound
PROPERTIES
  NewZoneOnlyWhenFitsRefused
  AllocFromFittingZone
\* _iso_new_zone aborts once MAX_ZONES zones exist.
CHECK_DEADLOCK FALSE
