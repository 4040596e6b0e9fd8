\* size_t of 6 bits and unsigned int of 3 bits: the 64/32 ratio of the LP64 build.
CONSTANTS
  SIZE_T_BITS = 6
  UINT_BITS = 3
SPECIFICATION Spec
INVARIANT CallocNoShortBuffer
\* Every call ends in an abort or a returned buffer.
CHECK_DEADLOCK FALSE
