----------------------------- MODULE Allocator -----------------------------
(***************************************************************************)
(* What an allocator promises its callers, with no zones, caches or        *)
(* quarantines: every chunk has at most one holder.  A chunk is handed     *)
(* out only while nobody holds it, and only its holder gives it back.      *)
(* A call that returns NULL or goes to memory this model does not track   *)
(* changes nothing and is a stuttering step.  Used correctly (no double   *)
(* or foreign free), the allocator never stops the process.                *)
(***************************************************************************)
CONSTANTS
  Threads,   \* the callers
  Chunks,    \* the chunks that can be handed out
  NOBODY     \* the holder of a chunk nobody holds

VARIABLES
  holder,    \* holder[c]: the thread holding c, or NOBODY
  stopped    \* the process was stopped by an abort

Init == holder = [c \in Chunks |-> NOBODY] /\ stopped = FALSE

(* malloc returning c to t.                                                *)
Allocate(t, c) ==
  /\ holder[c] = NOBODY
  /\ holder' = [holder EXCEPT ![c] = t]
  /\ UNCHANGED stopped

(* free(c) by its holder, normal or permanent.                             *)
Release(t, c) ==
  /\ holder[c] = t
  /\ holder' = [holder EXCEPT ![c] = NOBODY]
  /\ UNCHANGED stopped

Next == \E t \in Threads, c \in Chunks : Allocate(t, c) \/ Release(t, c)

Spec == Init /\ [][Next]_<<holder, stopped>>
=============================================================================
