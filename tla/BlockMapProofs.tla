--------------------------- MODULE BlockMapProofs ---------------------------
(***************************************************************************)
(* The block map and the promise of buxn_jit, for every set of addresses,  *)
(* every hash function and every number of links.                          *)
(*                                                                         *)
(* A search in the tree ends because each of its steps goes one level      *)
(* deeper, and there cannot be more levels in use than keys.  Where it     *)
(* ends depends only on the slots on its way, none of which is ever        *)
(* changed.  That buxn_jit implements CodeCache follows from the invariant *)
(* of CompileQueueProofs: jumps are emitted only from blocks that have no  *)
(* code yet, so a block that can be run stays so.                          *)
(***************************************************************************)
EXTENDS BlockMap, CompileQueueProofs, ListFacts

(* Every step of the driver with its map is one of the driver.             *)
LEMMA MapStep == [MapNext]_mapVars => [Next]_vars
BY DEF MapNext, mapVars

(* The invariant of the driver holds with the map as well.                 *)
LEMMA MapInvariance == MapSpec => []IInv
<1>1. MapInit => IInv
  BY InitIInv DEF MapInit
<1>2. IInv /\ [MapNext]_mapVars => IInv'
  BY NextIInv, MapStep
<1> QED
  BY <1>1, <1>2, PTL DEF MapSpec

-----------------------------------------------------------------------------
(* The tree.                                                               *)

(* Slots of different depths are different.                                *)
LEMMA SlotDepth ==
    ASSUME NEW pc, NEW d \in Nat, NEW e \in Nat, Slot(pc, d) = Slot(pc, e)
    PROVE  d = e
<1>1. 1..d = 1..e
  <2>1. DOMAIN Slot(pc, d) = 1..d /\ DOMAIN Slot(pc, e) = 1..e
    BY DEF Slot
  <2> QED
    BY <2>1
<1>2. CASE d = 0 \/ e = 0
  BY <1>1, <1>2
<1>3. CASE d # 0 /\ e # 0
  <2>1. d \in 1..e /\ e \in 1..d
    BY <1>1, <1>3
  <2> QED
    BY <2>1
<1> QED
  BY <1>2, <1>3

(* BHAMT_SEARCH ends, within as many levels as there are keys.             *)
LEMMA SearchEnds ==
    ASSUME NEW pc, IsFiniteSet(DOMAIN root)
    PROVE  \E depth \in 0..Cardinality(DOMAIN root) : IsEnd(pc, depth)
<1> DEFINE n == Cardinality(DOMAIN root)
           T == { d \in 0..n : ~Passes(pc, d) }
<1>1. n \in Nat
  BY FS_CardinalityType
<1>2. T # {}
  <2> SUFFICES ASSUME \A d \in 0..n : Slot(pc, d) \in DOMAIN root PROVE FALSE
    BY DEF Passes
  <2> DEFINE f == [d \in 0..n |-> Slot(pc, d)]
  <2>1. f \in [0..n -> DOMAIN root]
    OBVIOUS
  <2>2. IsFiniteSet(0..n) /\ Cardinality(0..n) = n + 1
    BY <1>1, FS_Interval
  <2>3. n < Cardinality(0..n)
    BY <1>1, <2>2
  <2>4. \E d, e \in 0..n : d # e /\ f[d] = f[e]
    <3> HIDE DEF f
    <3> QED
      BY <2>1, <2>2, <2>3, FS_PigeonHole
  <2> QED
    BY <1>1, <2>4, SlotDepth
<1>3. PICK m \in T : \A k \in T : m <= k
  <2>1. T \subseteq Nat
    BY <1>1
  <2> HIDE DEF T
  <2> QED
    BY <1>2, <2>1, LeastNumber
<1>4. m \in 0..n /\ ~Passes(pc, m)
  OBVIOUS
<1>5. ASSUME NEW d \in 0..(m - 1) PROVE Passes(pc, d)
  <2>1. d \in 0..n /\ ~(m <= d)
    BY <1>1, <1>4
  <2> QED
    BY <1>3, <2>1
<1> QED
  BY <1>4, <1>5 DEF IsEnd

(* It ends in one place.                                                   *)
LEMMA OneEnd ==
    ASSUME NEW pc, NEW d \in Nat, NEW e \in Nat, IsEnd(pc, d), IsEnd(pc, e)
    PROVE  d = e
<1>1. ~(d < e) /\ ~(e < d)
  BY DEF IsEnd
<1> QED
  BY <1>1

(* Where it ends.                                                          *)
LEMMA SearchEndIs ==
    ASSUME NEW pc, IsFiniteSet(DOMAIN root)
    PROVE  /\ \E d \in Nat : IsEnd(pc, d) /\ SearchEnd(pc) = Slot(pc, d)
           /\ \A d \in Nat : IsEnd(pc, d) => SearchEnd(pc) = Slot(pc, d)
<1> DEFINE D == 0..Cardinality(DOMAIN root)
           m == CHOOSE depth \in D : IsEnd(pc, depth)
<1>1. \E depth \in D : IsEnd(pc, depth)
  BY SearchEnds
<1>2. D \subseteq Nat
  BY FS_CardinalityType
<1> HIDE DEF D
<1>3. m \in Nat /\ IsEnd(pc, m)
  BY <1>1, <1>2
<1>4. SearchEnd(pc) = Slot(pc, m)
  BY DEF SearchEnd, D
<1> HIDE DEF m
<1> QED
  BY <1>3, <1>4, OneEnd

(* The search for each block ends at its own slot, and there are no other  *)
(* keys.                                                                   *)
Tree ==
    /\ IsFiniteSet(DOMAIN root)
    /\ \A slot \in DOMAIN root : root[slot] \in blocks
    /\ \A pc \in blocks : \E d \in Nat : IsEnd(pc, d) /\ Slot(pc, d) \in DOMAIN root

List == first \in Seq(Addr) /\ Elems(first) = blocks /\ Injective(first)

MapInv == Tree /\ List

(* queue_block adds one block at most.                                     *)
LEMMA OneBlock ==
    ASSUME Next, NEW pc \in blocks' \ blocks
    PROVE  pc \in Addr /\ blocks' = blocks \cup {pc}
<1>1. CASE \E p \in Addr : buxn_jit(p)
  BY <1>1 DEF buxn_jit, queue_block
<1>2. CASE \E link_type \in LinkType, to \in Addr : jump_abs(link_type, to)
  BY <1>2 DEF jump_abs, queue_block
<1>3. CASE compile_begin \/ compile_end \/ link \/ cleanup \/ return
  BY <1>3 DEF compile_begin, compile_end, link, cleanup, return
<1> QED
  BY <1>1, <1>2, <1>3 DEF Next, Progress

(* The new key takes a free slot, at which its own search ends; no other   *)
(* search sees a difference.                                               *)
LEMMA InsertTree ==
    ASSUME Tree, NEW pc, pc \notin blocks, Insert(pc), blocks' = blocks \cup {pc}
    PROVE  Tree'
<1>1. PICK d \in Nat : IsEnd(pc, d) /\ SearchEnd(pc) = Slot(pc, d)
  BY SearchEndIs DEF Tree
<1> DEFINE s == Slot(pc, d)
<1>2. s \notin DOMAIN root
  BY <1>1 DEF IsEnd, Passes, Tree
<1>3. /\ DOMAIN root' = DOMAIN root \cup {s}
      /\ root'[s] = pc
      /\ \A t \in DOMAIN root : root'[t] = root[t]
  BY <1>1, <1>2 DEF Insert, InsertSlot
<1> HIDE DEF s
<1>4. IsFiniteSet(DOMAIN root')
  BY <1>3, FS_AddElement DEF Tree
<1>5. \A t \in DOMAIN root' : root'[t] \in blocks'
  BY <1>3 DEF Tree
<1>6. \A p, e : Passes(p, e) => Passes(p, e)'
  <2> SUFFICES ASSUME NEW p, NEW e, Passes(p, e) PROVE Passes(p, e)'
    OBVIOUS
  <2>1. Slot(p, e)' = Slot(p, e)
    BY DEF Slot, Child
  <2> QED
    BY <1>3, <2>1 DEF Passes
<1>7. ASSUME NEW p \in blocks'
      PROVE  \E e \in Nat : IsEnd(p, e)' /\ Slot(p, e)' \in DOMAIN root'
  <2>1. \A e : Slot(p, e)' = Slot(p, e)
    BY DEF Slot, Child
  <2>2. CASE p = pc
    BY <1>1, <1>3, <1>6, <2>1, <2>2 DEF IsEnd, Passes, s
  <2>3. CASE p # pc
    <3>1. PICK e \in Nat : IsEnd(p, e) /\ Slot(p, e) \in DOMAIN root
      BY <2>3 DEF Tree
    <3>2. ~Passes(p, e)'
      BY <1>3, <2>1, <3>1 DEF IsEnd, Passes
    <3> QED
      BY <1>3, <1>6, <2>1, <3>1, <3>2 DEF IsEnd
  <2> QED
    BY <2>2, <2>3
<1> QED
  BY <1>4, <1>5, <1>7 DEF Tree

(* Every step keeps the tree, the list and the set of blocks in agreement. *)
LEMMA MapNextInv == MapInv /\ [MapNext]_mapVars => MapInv'
<1> SUFFICES ASSUME MapInv, [MapNext]_mapVars PROVE MapInv'
  OBVIOUS
<1>1. CASE UNCHANGED <<blocks, root, first>>
  <2>1. \A p, e : IsEnd(p, e)' = IsEnd(p, e) /\ Slot(p, e)' = Slot(p, e)
    BY <1>1 DEF IsEnd, Passes, Slot, Child
  <2> QED
    BY <1>1, <2>1 DEF MapInv, Tree, List
<1>2. ASSUME Next, NEW pc \in blocks' \ blocks, Insert(pc) PROVE MapInv'
  <2>1. pc \in Addr /\ blocks' = blocks \cup {pc} /\ pc \notin blocks
    BY <1>2, OneBlock
  <2>2. Tree'
    BY <1>2, <2>1, InsertTree DEF MapInv
  <2>3. first' = <<pc>> \o first
    BY <1>2 DEF Insert
  <2>4. List'
    BY <2>1, <2>3, ConsElems DEF MapInv, List
  <2> QED
    BY <2>2, <2>4 DEF MapInv
<1> QED
  BY <1>1, <1>2 DEF MapNext, mapVars, vars

(* The tree and the list of blocks hold exactly the blocks that were       *)
(* queued, however their hashes collide: BHAMT_SEARCH in queue_block finds *)
(* each of them and no other, and buxn_jit_cleanup meets each once.        *)
THEOREM MapIsSet == MapSpec => []MapFinds
<1>1. MapInit => MapInv
  <2> SUFFICES ASSUME MapInit PROVE MapInv
    OBVIOUS
  <2>1. blocks = {} /\ DOMAIN root = {} /\ first = <<>>
    BY DEF MapInit, Init
  <2>2. first \in Seq(Addr) /\ Elems(first) = {} /\ Injective(first)
    BY <2>1, EmptyElems DEF Injective
  <2> QED
    BY <2>1, <2>2, FS_EmptySet DEF MapInv, Tree, List
<1>2. MapInv /\ [MapNext]_mapVars => MapInv'
  BY MapNextInv
<1>3. MapInv => MapFinds
  <2> SUFFICES ASSUME MapInv PROVE MapFinds
    OBVIOUS
  <2>1. ASSUME NEW pc \in Addr PROVE Found(pc) <=> pc \in blocks
    <3>1. /\ \E d \in Nat : IsEnd(pc, d) /\ SearchEnd(pc) = Slot(pc, d)
          /\ \A d \in Nat : IsEnd(pc, d) => SearchEnd(pc) = Slot(pc, d)
      BY SearchEndIs DEF MapInv, Tree
    <3> QED
      BY <3>1 DEF Found, IsEnd, Passes, MapInv, Tree
  <2> QED
    BY <2>1 DEF MapFinds, MapInv, List
<1> QED
  BY <1>1, <1>2, <1>3, PTL DEF MapSpec

-----------------------------------------------------------------------------
(* The promise.                                                            *)

(* What can be run is closed: it is the largest such set.                  *)
LEMMA RunnableFacts ==
    /\ Runnable \subseteq compiled
    /\ Closed(Runnable)
    /\ \A S \in SUBSET compiled : Closed(S) => S \subseteq Runnable
BY DEF Runnable, Closed

(* A step that adds code, patches jumps, or emits jumps from blocks that   *)
(* have no code leaves what can be run as it is or adds to it.             *)
LEMMA RunnableGrows ==
    ASSUME compiled \subseteq compiled', patched \subseteq patched',
           \A j \in links' \ links : j.from \notin compiled
    PROVE  Runnable \subseteq Runnable'
<1>1. Runnable \subseteq compiled' /\ Closed(Runnable) /\ Runnable \subseteq compiled
  BY RunnableFacts
<1>2. \A j \in links' : j.from \in Runnable => j \in patched' /\ j.to \in Runnable
  BY <1>1 DEF Closed
<1> QED
  BY <1>1, <1>2 DEF Runnable, Closed

(* While buxn_jit runs, what it was asked for is in the map.               *)
Asked == busy => request \in blocks

(* While buxn_jit runs, the block it was asked for is a known one.         *)
LEMMA NextAsked == IInv /\ Asked /\ [Next]_vars => Asked'
<1> SUFFICES ASSUME IInv, Asked, [Next]_vars PROVE Asked'
  OBVIOUS
<1>1. CASE \E p \in Addr : buxn_jit(p)
  BY <1>1 DEF buxn_jit, queue_block, Asked
<1>2. CASE \E link_type \in LinkType, to \in Addr : jump_abs(link_type, to)
  BY <1>2 DEF jump_abs, queue_block, Asked
<1>3. CASE compile_begin \/ compile_end \/ link \/ cleanup \/ return
  <2>1. blocks' = blocks /\ request' = request
    BY <1>3 DEF compile_begin, compile_end, link, cleanup, return
  <2>2. busy' = busy \/ ~busy'
    BY <1>3 DEF compile_begin, compile_end, link, cleanup, return
  <2> QED
    BY <2>1, <2>2 DEF Asked
<1>4. CASE UNCHANGED vars
  BY <1>4 DEF vars, Asked
<1> QED
  BY <1>1, <1>2, <1>3, <1>4 DEF Next, Progress

(* Each step of the driver is one of the code cache, or none.              *)
LEMMA StepServes ==
    ASSUME IInv, IInv', Asked, [Next]_vars
    PROVE  [Cache!CacheNext]_(Cache!cacheVars)
<1> SUFFICES (Cache!CacheNext) \/ (UNCHANGED Cache!cacheVars)
  OBVIOUS
<1>b. blocks \subseteq Addr /\ None \notin Addr
  BY AddrAssumption DEF IInv, Waiting, Records, BlockRecords
<1>1. ASSUME NEW pc \in Addr, buxn_jit(pc)
      PROVE  (Cache!CacheNext) \/ (UNCHANGED Cache!cacheVars)
  <2>1. Runnable' = Runnable /\ Runnable \subseteq compiled
    BY <1>1, RunnableFacts DEF buxn_jit, Runnable, Closed
  <2>2. CASE pc \in compiled
    BY <1>1, <2>1, <2>2 DEF buxn_jit, Cache!cacheVars
  <2>3. CASE pc \notin compiled
    <3>1. Cache!Ask(pc)
      BY <1>1, <2>1, <2>3 DEF buxn_jit, Cache!Ask
    <3> QED
      BY <3>1 DEF Cache!CacheNext
  <2> QED
    BY <2>2, <2>3
<1>2. CASE compile_begin \/ cleanup
  <2>1. Runnable' = Runnable
    BY <1>2 DEF compile_begin, cleanup, Runnable, Closed
  <2> QED
    BY <1>2, <2>1 DEF compile_begin, cleanup, Cache!cacheVars
<1>3. ASSUME busy, busy' = busy, request' = request, Runnable \subseteq Runnable'
      PROVE  Cache!CacheNext
  BY <1>3, <1>b DEF Cache!CacheNext, Cache!Grow, Asked
<1>4. ASSUME NEW link_type \in LinkType, NEW to \in Addr, jump_abs(link_type, to)
      PROVE  Cache!CacheNext
  <2>1. /\ current # 0 /\ compiled' = compiled /\ patched' = patched
        /\ busy' = busy /\ request' = request
        /\ \A j \in links' \ links : j.from = heap.entry[current].compiler
    BY <1>4 DEF jump_abs
  <2>2. busy
    BY <2>1 DEF IInv, Idle
  <2>3. heap.entry[current].compiler \notin compiled
    BY <2>1 DEF IInv, Held, Waiting, Records, CompileRecords
  <2>4. Runnable \subseteq Runnable'
    BY <2>1, <2>3, RunnableGrows
  <2> QED
    BY <1>3, <2>1, <2>2, <2>4
<1>5. CASE compile_end \/ link
  <2>1. /\ compiled \subseteq compiled' /\ patched \subseteq patched' /\ links' = links
        /\ busy' = busy /\ request' = request
    BY <1>5 DEF compile_end, link
  <2>2. busy
    BY <1>5 DEF compile_end, link, IInv, Idle
  <2>3. Runnable \subseteq Runnable'
    BY <2>1, RunnableGrows
  <2> QED
    BY <1>3, <2>1, <2>2, <2>3
<1>6. CASE return
  <2>1. /\ busy /\ ~busy' /\ request' = request
        /\ UNCHANGED <<blocks, compiled, links, patched>>
    BY <1>6 DEF return
  <2>2. Runnable' = Runnable
    BY <2>1 DEF Runnable, Closed
  <2>3. Linked'
    <3>1. (IInv => Linked)'
      BY IInvLinked, PTL
    <3> QED
      BY <3>1
  <2>4. compiled = blocks /\ Closed(compiled)
    BY <2>1, <2>3 DEF Linked, Closed
  <2>5. request \in Runnable
    BY <2>1, <2>4, RunnableFacts DEF Asked
  <2>6. Cache!Answer
    BY <2>1, <2>2, <2>5 DEF Cache!Answer
  <2> QED
    BY <2>6 DEF Cache!CacheNext
<1>7. CASE UNCHANGED vars
  BY <1>7 DEF vars, Cache!cacheVars, Runnable, Closed
<1> QED
  BY <1>1, <1>2, <1>4, <1>5, <1>6, <1>7 DEF Next, Progress

(* buxn_jit keeps its promise to buxn_jit_execute and the trampoline,      *)
(* which jump to its result at once: when it returns, no path from that    *)
(* block meets a jump that is not patched, and no block ever stops being   *)
(* one that can be run.                                                    *)
THEOREM KeepsPromise == MapSpec => Serves
<1>1. MapInit => Cache!CacheInit /\ Asked
  BY DEF MapInit, Init, Cache!CacheInit, Runnable, Asked
<1>2. IInv /\ Asked /\ [MapNext]_mapVars => Asked'
  BY NextAsked, MapStep
<1>3. IInv /\ IInv' /\ Asked /\ [MapNext]_mapVars => [Cache!CacheNext]_(Cache!cacheVars)
  BY StepServes, MapStep
<1> QED
  BY <1>1, <1>2, <1>3, MapInvariance, PTL DEF MapSpec, Serves, Cache!CacheSpec
=============================================================================
