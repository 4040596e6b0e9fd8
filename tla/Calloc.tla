------------------------------ MODULE Calloc ------------------------------
(***************************************************************************)
(* _iso_calloc (iso_alloc.c): the product nmemb * size is computed in      *)
(* size_t, and the overflow test is __builtin_umul_overflow, whose operands *)
(* and result are unsigned int: both arguments are converted (truncated)   *)
(* to unsigned int before the test.  Widths are scaled down: SIZE_T_BITS   *)
(* stands for 64 and UINT_BITS for 32, keeping the ratio between them.      *)
(***************************************************************************)
EXTENDS Naturals

CONSTANTS
  SIZE_T_BITS,   \* width of size_t
  UINT_BITS      \* width of unsigned int

ASSUME UINT_BITS \in Nat \ {0} /\ SIZE_T_BITS \in Nat /\ UINT_BITS < SIZE_T_BITS

SizeT == 0 .. 2^SIZE_T_BITS - 1

(* Conversion of a size_t value to unsigned int keeps the low bits.        *)
ToUInt(x) == x % 2^UINT_BITS

(* __builtin_umul_overflow(a, b, &res) on unsigned int operands: the exact *)
(* product of the converted operands does not fit in unsigned int.         *)
UMulOverflow(a, b) == ToUInt(a) * ToUInt(b) >= 2^UINT_BITS

VARIABLES
  nmemb, size,  \* the arguments
  outcome,      \* "called", "aborted" or "allocated"
  request       \* the sz passed to _iso_alloc and memset

vars == <<nmemb, size, outcome, request>>

Init ==
  /\ nmemb \in SizeT /\ size \in SizeT
  /\ outcome = "called"
  /\ request = 0

(* The whole call: sz = nmemb * size in size_t, the overflow test, then     *)
(* _iso_alloc(NULL, sz) and memset(p, 0, sz).                              *)
IsoCalloc ==
  /\ outcome = "called"
  /\ IF UMulOverflow(nmemb, size)
     THEN /\ outcome' = "aborted"
          /\ UNCHANGED request
     ELSE /\ outcome' = "allocated"
          /\ request' = (nmemb * size) % 2^SIZE_T_BITS
  /\ UNCHANGED <<nmemb, size>>

Next == IsoCalloc

Spec == Init /\ [][Next]_vars
-----------------------------------------------------------------------------
TypeOK ==
  /\ nmemb \in SizeT /\ size \in SizeT /\ request \in SizeT
  /\ outcome \in {"called", "aborted", "allocated"}

(* The spec's calloc contract (spec 6, 9): a multiplicative overflow is  *)
(* fatal, so when _iso_calloc returns, the zeroed buffer it allocated has  *)
(* room for all nmemb * size bytes the caller will use.                    *)
CallocNoShortBuffer == outcome = "allocated" => request = nmemb * size
=============================================================================
