------------------------------ MODULE BlockMap ------------------------------
(***************************************************************************)
(* The driver with the map that it finds its blocks in.  CompileQueue      *)
(* takes jit->blocks as a set; here it is the hash tree of hamt.h, where a *)
(* key sits in the first free slot on the path its hash spells, and the    *)
(* list that buxn_jit_cleanup walks.  Nothing is ever removed.             *)
(*                                                                         *)
(* A slot is named by the child indices that lead to it from the root; the *)
(* tree is the function from the slots in use to their keys.               *)
(***************************************************************************)
EXTENDS CompileQueue

CONSTANTS
    Hash,     \* buxn_jit_prospector32, as a function
    NumBits   \* BHAMT_NUM_BITS

ASSUME HashAssumption == Hash \in [Addr -> Nat]
ASSUME NumBitsAssumption == NumBits \in Nat \ {0}

VARIABLES
    root,    \* jit->blocks.root, slot by slot
    first    \* the list at jit->blocks.first

mapVars == <<vars, root, first>>

(* Every level uses up NumBits bits of the hash; past its end they are 0.  *)
Child(hash, depth) == (hash \div 2 ^ (NumBits * depth)) % (2 ^ NumBits)

Slot(pc, depth) == [i \in 1..depth |-> Child(Hash[pc], i - 1)]

(* The loop of BHAMT_SEARCH goes on past depth d.                          *)
Passes(pc, d) == Slot(pc, d) \in DOMAIN root /\ root[Slot(pc, d)] # pc

(* Where BHAMT_SEARCH ends: the slot of the key, or a free one.            *)
IsEnd(pc, depth) == ~Passes(pc, depth) /\ \A d \in 0..(depth - 1) : Passes(pc, d)

SearchEnd(pc) == Slot(pc, CHOOSE depth \in 0..Cardinality(DOMAIN root) : IsEnd(pc, depth))

Found(pc) == SearchEnd(pc) \in DOMAIN root

(* The key goes to the child of the last node that the search compared     *)
(* with, whatever is there.                                                *)
InsertSlot_mut(pc) == Slot(pc, IF root = <<>> THEN 0 ELSE 1)

InsertSlot(pc) == SearchEnd(pc)

(* The part of buxn_jit_queue_block for a key that was not found.          *)
Insert(pc) ==
    /\ root' = [slot \in DOMAIN root \cup {InsertSlot(pc)} |->
                  IF slot = InsertSlot(pc) THEN pc ELSE root[slot]]
    /\ first' = <<pc>> \o first

MapInit == Init /\ root = <<>> /\ first = <<>>

(* queue_block adds at most one block in a step of the driver.             *)
MapNext ==
    /\ Next
    /\ \/ blocks' = blocks /\ UNCHANGED <<root, first>>
       \/ \E pc \in blocks' \ blocks : Insert(pc)

MapSpec == MapInit /\ [][MapNext]_mapVars

-----------------------------------------------------------------------------
(* The blocks that may be run: they have code, all their jumps and calls   *)
(* are patched, and those lead to such blocks again.                       *)
Closed(S) == \A j \in links : j.from \in S => j \in patched /\ j.to \in S

Runnable == UNION { S \in SUBSET compiled : Closed(S) }

Cache == INSTANCE CodeCache WITH
            ready <- Runnable, waiting <- IF busy THEN request ELSE None

(* The tree and the list hold what CompileQueue takes for a set, whatever  *)
(* the hashes are: BHAMT_SEARCH finds a block exactly if queue_block has   *)
(* made one for its address (else it would be compiled twice, or a jump    *)
(* would go to another block), and buxn_jit_cleanup meets each of them     *)
(* once (else its code would leak or be freed twice).                      *)
MapFinds ==
    /\ \A pc \in Addr : Found(pc) <=> pc \in blocks
    /\ Elems(first) = blocks /\ Injective(first)

(* buxn_jit implements CodeCache: while it compiles, links and frees,      *)
(* blocks only become runnable, none stops being so, and it returns when   *)
(* the one it was asked for is.  Runnable is stronger than having an       *)
(* address: no path from the block meets a jump that is not patched.       *)
Serves == Cache!CacheSpec
=============================================================================
