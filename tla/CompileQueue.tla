---------------------------- MODULE CompileQueue ----------------------------
(***************************************************************************)
(* The driver of jit.c: buxn_jit compiles the block at an address and      *)
(* every block it can reach through static jumps and calls, then patches   *)
(* those jumps, then frees the compilers.  The work is kept in three       *)
(* queues of entries that are recycled through a fourth list, entry_pool.  *)
(*                                                                         *)
(* A block, its sljit compiler and its code are named by the address of    *)
(* the block.  What a block links to is read from memory when it is        *)
(* compiled, so any target is possible.                                    *)
(*                                                                         *)
(* A definition whose name ends in _mut is a slip that could be made in    *)
(* the one below it; it is there to see that a property would notice.      *)
(***************************************************************************)
EXTENDS Naturals, Sequences, FiniteSets

CONSTANTS
    Addr,      \* the addresses blocks can start at
    None,      \* no block: a field that was never written
    MaxLinks   \* bound: static jumps and calls in one block

ASSUME AddrAssumption == None \notin Addr
ASSUME MaxLinksAssumption == MaxLinks \in Nat

VARIABLES
    blocks,      \* the addresses in the block map (jit->blocks)
    num_blocks,  \* jit->stats.num_blocks
    compiler,    \* the sljit compiler of a block: none, live or freed
    compiled,    \* the blocks whose fn, head_addr and body_addr are set
    heap,        \* the entries ever allocated, and the four lists of them
    current,     \* the entry that buxn_jit_compile works on, 0 outside it
    links,       \* rewritable jumps emitted so far
    patched,     \* those whose address was set by the linker
    busy,        \* whether buxn_jit is in its loops
    request      \* the address it was last called with

vars == <<blocks, num_blocks, compiler, compiled, heap, current, links,
          patched, busy, request>>

Queues == {"compile", "link", "cleanup", "pool"}

LinkType == {"head", "body"}

(* A rewritable jump, the n-th of the block at from.                       *)
Jump == [from : Addr, n : Nat, link_type : LinkType, to : Addr]

(* buxn_jit_entry_t.  The union of pc and jump is told apart by kind; an   *)
(* entry that comes from the pool keeps what its last user wrote.          *)
Entry == [link_type : LinkType,
          block     : Addr \cup {None},
          compiler  : Addr \cup {None},
          kind      : {"none", "pc", "jump"},
          at        : Addr \cup {None},
          n         : Nat]

Blank == [link_type |-> "head", block |-> None, compiler |-> None,
          kind |-> "none", at |-> None, n |-> 0]

Heap == [entry : Seq(Entry), queue : [Queues -> Seq(Nat)]]

(***************************************************************************)
(* The lists.                                                              *)
(***************************************************************************)
dequeue(h, q) == [h EXCEPT !.queue[q] = Tail(@)]

enqueue(h, q, e) == [h EXCEPT !.queue[q] = <<e>> \o @]

(* alloc_entry: the entry it returns, and the heap it leaves.              *)
AllocId(h) == IF h.queue["pool"] # <<>> THEN Head(h.queue["pool"]) ELSE Len(h.entry) + 1

(* The entry is looked up in the pool but not removed.                     *)
alloc_entry_mut(h) ==
    IF h.queue["pool"] # <<>> THEN h ELSE [h EXCEPT !.entry = Append(@, Blank)]

alloc_entry(h) ==
    IF h.queue["pool"] # <<>>
    THEN dequeue(h, "pool")
    ELSE [h EXCEPT !.entry = Append(@, Blank)]

Fill(h, e, rec) == [h EXCEPT !.entry[e] = rec]

(* block is not set.                                                       *)
CompileEntry_mut(old, pc) == [old EXCEPT !.compiler = pc, !.kind = "pc", !.at = pc]

CompileEntry(old, pc) ==
    [old EXCEPT !.block = pc, !.compiler = pc, !.kind = "pc", !.at = pc]

CleanupEntry(old, pc) == [old EXCEPT !.compiler = pc]

LinkEntry(jump) ==
    [link_type |-> jump.link_type, block |-> jump.to, compiler |-> jump.from,
     kind |-> "jump", at |-> jump.from, n |-> jump.n]

(* Allocate an entry, write it and put it in a queue.                      *)
AddCompile(h, pc) ==
    LET e == AllocId(h)
        g == alloc_entry(h)
    IN  enqueue(Fill(g, e, CompileEntry(g.entry[e], pc)), "compile", e)

AddCleanup(h, pc) ==
    LET e == AllocId(h)
        g == alloc_entry(h)
    IN  enqueue(Fill(g, e, CleanupEntry(g.entry[e], pc)), "cleanup", e)

(* A block counts as known only once it has code.                          *)
QueueBlockHeap_mut(h, pc) ==
    IF pc \in compiled THEN h ELSE AddCleanup(AddCompile(h, pc), pc)

(* The two entries that queue_block makes for a block it did not know.     *)
QueueBlockHeap(h, pc) == IF pc \in blocks THEN h ELSE AddCleanup(AddCompile(h, pc), pc)

(* Every lookup counts.                                                    *)
queue_block_mut(pc) ==
    /\ blocks' = blocks \cup {pc}
    /\ num_blocks' = num_blocks + 1
    /\ compiler' = IF pc \in blocks THEN compiler ELSE [compiler EXCEPT ![pc] = "live"]

queue_block(pc) ==
    /\ blocks' = blocks \cup {pc}
    /\ num_blocks' = IF pc \in blocks THEN num_blocks ELSE num_blocks + 1
    /\ compiler' = IF pc \in blocks THEN compiler ELSE [compiler EXCEPT ![pc] = "live"]

(***************************************************************************)
(* buxn_jit and its loops.                                                 *)
(***************************************************************************)
Init ==
    /\ blocks = {}
    /\ num_blocks = 0
    /\ compiler = [pc \in Addr |-> "none"]
    /\ compiled = {}
    /\ heap = [entry |-> <<>>, queue |-> [q \in Queues |-> <<>>]]
    /\ current = 0
    /\ links = {}
    /\ patched = {}
    /\ busy = FALSE
    /\ request = None

(* The call, from buxn_jit_execute or from the trampoline of running code. *)
(* A block that has code is returned at once.                              *)
buxn_jit(pc) ==
    /\ ~busy
    /\ queue_block(pc)
    /\ heap' = QueueBlockHeap(heap, pc)
    /\ busy' = (pc \notin compiled)
    /\ request' = pc
    /\ UNCHANGED <<compiled, current, links, patched>>

(* The next block to compile: up to the first opcode.                      *)
compile_begin ==
    /\ busy
    /\ current = 0
    /\ heap.queue["compile"] # <<>>
    /\ current' = Head(heap.queue["compile"])
    /\ heap' = dequeue(heap, "compile")
    /\ UNCHANGED <<blocks, num_blocks, compiler, compiled, links, patched, busy, request>>

JumpCount(from) == Cardinality({ j \in links : j.from = from })

(* jump_abs with a constant target: emit a rewritable jump to the body of  *)
(* the target, or a call of its head, and queue it for linking.            *)
jump_abs(link_type, to) ==
    LET from == heap.entry[current].compiler
        jump == [from |-> from, n |-> JumpCount(from) + 1, link_type |-> link_type, to |-> to]
        e    == AllocId(heap)
    IN  /\ current # 0
        /\ JumpCount(from) < MaxLinks
        /\ queue_block(to)
        /\ heap' = enqueue(Fill(QueueBlockHeap(alloc_entry(heap), to), e, LinkEntry(jump)),
                           "link", e)
        /\ links' = links \cup {jump}
        /\ UNCHANGED <<compiled, current, patched, busy, request>>

(* The entry goes back to the queue it came from.                          *)
compile_end_mut ==
    /\ current # 0
    /\ compiled' = compiled \cup {heap.entry[current].block}
    /\ heap' = enqueue(heap, "compile", current)
    /\ current' = 0
    /\ UNCHANGED <<blocks, num_blocks, compiler, links, patched, busy, request>>

(* sljit_generate_code, then the entry goes back to the pool.              *)
compile_end ==
    /\ current # 0
    /\ compiled' = compiled \cup {heap.entry[current].block}
    /\ heap' = enqueue(heap, "pool", current)
    /\ current' = 0
    /\ UNCHANGED <<blocks, num_blocks, compiler, links, patched, busy, request>>

(* Jumps are linked as soon as they were emitted.                          *)
link_mut ==
    LET e   == Head(heap.queue["link"])
        rec == heap.entry[e]
    IN  /\ busy
        /\ current = 0
        /\ heap.queue["link"] # <<>>
        /\ patched' = IF rec.block \in compiled
                      THEN patched \cup {[from |-> rec.at, n |-> rec.n,
                                          link_type |-> rec.link_type, to |-> rec.block]}
                      ELSE patched
        /\ heap' = enqueue(dequeue(heap, "link"), "pool", e)
        /\ UNCHANGED <<blocks, num_blocks, compiler, compiled, current, links, busy, request>>

(* The link loop: only a block with code has an address to jump to.        *)
link ==
    LET e   == Head(heap.queue["link"])
        rec == heap.entry[e]
    IN  /\ busy
        /\ current = 0
        /\ heap.queue["compile"] = <<>>
        /\ heap.queue["link"] # <<>>
        /\ patched' = IF rec.block \in compiled
                      THEN patched \cup {[from |-> rec.at, n |-> rec.n,
                                          link_type |-> rec.link_type, to |-> rec.block]}
                      ELSE patched
        /\ heap' = enqueue(dequeue(heap, "link"), "pool", e)
        /\ UNCHANGED <<blocks, num_blocks, compiler, compiled, current, links, busy, request>>

(* Compilers are freed before the link loop.                               *)
cleanup_mut ==
    LET e == Head(heap.queue["cleanup"])
    IN  /\ busy
        /\ current = 0
        /\ heap.queue["compile"] = <<>>
        /\ heap.queue["cleanup"] # <<>>
        /\ compiler' = [compiler EXCEPT ![heap.entry[e].compiler] = "freed"]
        /\ heap' = enqueue(dequeue(heap, "cleanup"), "pool", e)
        /\ UNCHANGED <<blocks, num_blocks, compiled, current, links, patched, busy, request>>

(* The cleanup loop: free one compiler.                                    *)
cleanup ==
    LET e == Head(heap.queue["cleanup"])
    IN  /\ busy
        /\ current = 0
        /\ heap.queue["compile"] = <<>>
        /\ heap.queue["link"] = <<>>
        /\ heap.queue["cleanup"] # <<>>
        /\ compiler' = [compiler EXCEPT ![heap.entry[e].compiler] = "freed"]
        /\ heap' = enqueue(dequeue(heap, "cleanup"), "pool", e)
        /\ UNCHANGED <<blocks, num_blocks, compiled, current, links, patched, busy, request>>

(* All three loops have ended.                                             *)
return ==
    /\ busy
    /\ current = 0
    /\ \A q \in Queues \ {"pool"} : heap.queue[q] = <<>>
    /\ busy' = FALSE
    /\ UNCHANGED <<blocks, num_blocks, compiler, compiled, heap, current, links,
                   patched, request>>

Progress ==
    \/ compile_begin
    \/ \E link_type \in LinkType, to \in Addr : jump_abs(link_type, to)
    \/ compile_end
    \/ link
    \/ cleanup
    \/ return

Next == (\E pc \in Addr : buxn_jit(pc)) \/ Progress

Spec == Init /\ [][Next]_vars

(* buxn_jit runs to its end in the thread that called it.                  *)
FairSpec == Spec /\ WF_vars(Progress)

-----------------------------------------------------------------------------
Elems(s) == { s[i] : i \in 1..Len(s) }

Injective(s) == \A i, j \in 1..Len(s) : s[i] = s[j] => i = j

TypeOK ==
    /\ blocks \subseteq Addr
    /\ num_blocks \in Nat
    /\ compiler \in [Addr -> {"none", "live", "freed"}]
    /\ compiled \subseteq Addr
    /\ heap \in Heap
    /\ current \in Nat
    /\ links \subseteq Jump
    /\ patched \subseteq Jump
    /\ busy \in BOOLEAN
    /\ request \in Addr \cup {None}

(* An entry is on one list at a time.  The lists are threaded through one  *)
(* next field and entries are reused while others are in use (alloc_entry  *)
(* in jump_abs while compile still holds its own): an entry on two lists,  *)
(* or held and pooled, would cut one of them short.  No entry is lost      *)
(* either: all that were allocated are on a list or held by compile.       *)
Ownership ==
    /\ \A q \in Queues : Injective(heap.queue[q])
    /\ \A q, r \in Queues : q # r => Elems(heap.queue[q]) \cap Elems(heap.queue[r]) = {}
    /\ \A q \in Queues : Elems(heap.queue[q]) \subseteq 1..Len(heap.entry) \ {current}
    /\ \A e \in 1..Len(heap.entry) :
          e = current \/ \E q \in Queues : e \in Elems(heap.queue[q])

(* Whatever a loop is about to take from an entry is still there: compile  *)
(* and link work with a compiler that was not freed, link finds a jump and *)
(* not a pc in the union, and no compiler is freed twice.                  *)
NoUseAfterFree ==
    /\ \A e \in Elems(heap.queue["compile"]) \cup ({current} \ {0}) :
          heap.entry[e].kind = "pc" /\ compiler[heap.entry[e].compiler] = "live"
    /\ \A e \in Elems(heap.queue["link"]) :
          heap.entry[e].kind = "jump" /\ compiler[heap.entry[e].at] = "live"
    /\ \A e \in Elems(heap.queue["cleanup"]) : compiler[heap.entry[e].compiler] = "live"

(* When buxn_jit returns, running code cannot meet a block that is not     *)
(* there: every block it knows has code, every jump and call that was      *)
(* emitted is patched, and no compiler is left behind.                     *)
Linked ==
    ~busy => /\ compiled = blocks
             /\ patched = links
             /\ \A j \in links : j.to \in compiled
             /\ \A pc \in Addr : compiler[pc] # "live"

(* stats.num_blocks counts the blocks of the map.                          *)
BlocksCounted == num_blocks = Cardinality(blocks)

(* No block is compiled twice: its address is what other blocks were       *)
(* linked to, and its first code would leak.                               *)
CompiledOnce == [][current' = 0 /\ current # 0 => heap.entry[current].block \notin compiled]_vars

(* buxn_jit returns, however the blocks jump to each other.                *)
Returns == busy ~> ~busy
=============================================================================
