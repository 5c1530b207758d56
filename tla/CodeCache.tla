----------------------------- MODULE CodeCache -----------------------------
(***************************************************************************)
(* What buxn_jit promises the code that calls it (buxn_jit_execute and the *)
(* trampoline, which jump to the result at once): a growing set of blocks  *)
(* that may be run.  A caller names a block and, if it is not one of them, *)
(* waits until it is.                                                      *)
(***************************************************************************)
CONSTANTS
    Addr,   \* the addresses blocks can start at
    None    \* nobody waits

VARIABLES
    ready,   \* the blocks that may be run, with all they jump to
    waiting  \* the block a caller waits for

cacheVars == <<ready, waiting>>

CacheInit == ready = {} /\ waiting = None

(* A caller needs a block that cannot be run yet.                          *)
Ask(pc) ==
    /\ waiting = None
    /\ pc \notin ready
    /\ waiting' = pc
    /\ UNCHANGED ready

(* Blocks are only added, and only while a caller waits: code that runs    *)
(* never finds a block gone.                                               *)
Grow ==
    /\ waiting # None
    /\ ready \subseteq ready'
    /\ UNCHANGED waiting

Answer ==
    /\ waiting \in ready
    /\ waiting' = None
    /\ UNCHANGED ready

CacheNext == (\E pc \in Addr : Ask(pc)) \/ Grow \/ Answer

CacheSpec == CacheInit /\ [][CacheNext]_cacheVars
=============================================================================
