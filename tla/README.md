# A TLA+ model of buxn-jit

buxn-jit translates programs for the uxn stack machine to native code while
they run. Its README says that "`buxn_jit_execute` is a drop-in replacement for
`buxn_vm_execute`", the interpreter of the buxn library. This project states
what that means for the translator, checks it with TLC on small instances and
proves, with TLAPS, what is said of its driver, its block map, its register
allocator, its control flow and its hooks for instances of every size.

Paths below are relative to the repository; `jit.c` is `src/jit.c`.

## Inventory

| Component | State | Operations | Talks to |
|---|---|---|---|
| Driver: compile, link and cleanup queues (`jit.c` 289-352, 2352-2532) | block map, `num_blocks`, three queues and a pool of entries threaded through one `next` field, the sljit compilers | `buxn_jit`, `queue_block`, `compile`, `jump_abs` (queues links), the link loop, the cleanup loop | called by `buxn_jit_execute` and by the trampoline of running code; calls the translator |
| Register allocator and stack caches (408-922) | reference counts of six registers, two caches of four cells, `mem_base` | retain, release, alloc (spills), push, pop (splits and joins), discard, spill, flush, clear, retain | used by every opcode; emits the code that writes the stacks |
| Opcode translation (928-2342, 2534-2636) | `pc`, tracked semantics of both stacks (constant, boolean), shadow pointers of keep mode | 36 opcode handlers, jumps, conditional jumps, `next_opcode` (re-entered by a jump to a comparison result) | allocator, caches, driver |
| Trampoline and native calls (234-251, 1213-1321, 2346-2440) | native stack, return value (target, or 0x10000 for BRK) | prologue, trampoline loop, native call with a return address check, fallback to the interpreter for the zero page | driver (recursively, from running code), interpreter |
| Block map (`src/hamt.h`) | hash tree keyed by address | search, insert | driver |
| Hook API, composite hook | label of the current opcode | begin block, opcode, end block | gdb and perf hooks |
| Address mappings (`src/addr_mapping.h`) | chunk list and pool, index hint | append, recycle, find symbol | gdb and perf hooks |
| gdb hook (`src/gdb/hook.c`) | global descriptor list under a mutex | register a block, unregister all | gdb |
| gdb reader (`src/gdb/reader.c`) | list of blocks | read, unwind, frame id | runs inside gdb |
| perf hook (`src/perf.c`), label map, CLI (`src/cli.c`) | files, tables | records, lookups, vectors | perf, the user |

What is hard here is hardly concurrency (one thread translates and runs; only
the gdb hooks of several VMs share state, under a mutex) but **deferred work**: a push is only written to
memory when a register is needed, the cache is full, or control leaves the
block. Every allocation may therefore write memory, move cells and change
R_MEM_BASE in the middle of another operation. The other source of trouble is
what the translator *believes* (`mem_base`, the semantics of the stack, the
reference counts) and where paths with different truths join. In the driver it
is the reuse of entries while others are held, and the order compile, link,
free. The list of hazards, each at its line, is in `PROJECT.json`.

What makes each component correct:

* driver: no entry on two lists or lost; nothing freed is used; on return all
  is linked; no block is compiled twice; the loops end;
* allocator and caches: no assertion fires; cells are written once, in order;
* opcodes: the stacks, as a program sees them, and every effect on memory,
  devices and control flow are the interpreter's;
* trampoline: the same across blocks and native calls, with bounded native stack,
  also when code rewrites its literals and its return addresses;
* block map: a search finds what was inserted, whatever the hashes;
* hooks: the descriptor list is well formed after any interleaving of
  registrations and clean-ups; chunks are neither shared nor lost; gdb and perf
  are told the right file, line and name for every piece of code.

## Modules

| Module | Models |
|---|---|
| `Opcodes` | the instruction set: modes, operand widths, inputs; shared by both machines |
| `UxnStack` | one opcode of the interpreter (external: stated from how `jit.c` stands in for it) |
| `StackCache` | the translator: allocator, caches, keep mode, opcodes, what it believes after a call |
| `LockStep` | both machines running the same program; `DropIn` |
| `MCStackCache`, `MCLockStep` | opcode sets for TLC |
| `StackCacheProofs` | the theorems about the translator: types, order of flushed cells, enough registers |
| `CodeCache` | abstract: what `buxn_jit` promises its callers |
| `CompileQueue` | the driver |
| `BlockMap` | the driver with its hash tree, shown to implement `CodeCache` |
| `MCCompileQueue` | its instance for TLC |
| `CompileQueueProofs` | the theorems about the driver |
| `BlockMapProofs` | the hash tree is a set; the driver implements `CodeCache` |
| `UxnControl` | abstract: program counter and return stack of the interpreter (external) |
| `NativeCalls` | `buxn_jit_execute`: trampoline, native calls, zero page; shown to implement `UxnControl` |
| `MCNativeCalls` | a set of small programs for it |
| `NativeCallsProofs` | bounded native stack; `buxn_jit_execute` implements `UxnControl` |
| `AddrMapping` | chunks of mappings and the search for a symbol (`addr_mapping.h`) |
| `LabelMap` | the label of an address (`label_map.h`) |
| `GdbReader` | what the gdb plugin makes of a block (`gdb/reader.c`) |
| `Hooks` | the composite, gdb and perf hooks of several VMs, built on the three above |
| `MCHooks` | its instance for TLC |
| `ListFacts` | lemmas about numbers, lists and folds |
| `AddrMappingProofs` | lemmas about chunks of mappings |
| `HooksProofs` | the theorems about chunks, the mutex, the list of entries and gdb |
| `DebugInfoProofs` | the theorems about names, lines, tables and dump files, built on `HooksProofs` |

A definition whose name ends in `_mut` is a plausible slip in the definition
below it (a dropped guard, a missing reset, a swapped order). No specification
uses one. `PROJECT.json` says which property notices which slip.

### StackCache

The translator and the code it emits run together: emitting an instruction
performs it at once. One step, `next_opcode(o, in)`, is one call of
`buxn_jit_next_opcode` and the run of what it emitted; `in` is what the opcode
reads from outside (a literal, a jump offset already added to `pc`, a loaded
value, a device's answer).

| Variable | In the code |
|---|---|
| `program` | the kind of program that runs, one of `Programs`: its opcodes and how deep its stacks get |
| `cache` | `wst_cache`, `rst_cache` (indexed by `flag_r`); cells with register, width, `need_flush` |
| `mem` | the bytes of `ws` and `rs` below the stack pointers |
| `val` | contents of the operand registers |
| `base`, `mem_base` | what R_MEM_BASE points to, and what `ctx->mem_base` says |
| `sem` | which bytes of `ctx->wst`, `ctx->rst` carry `BUXN_JIT_SEM_BOOLEAN` |
| `inline` | the next opcode is translated in place of a jump to a comparison result, and is run or skipped |
| `frames` | the native calls in progress, each with what the translator assumed when it went on compiling after the call |
| `asserts` | the `BUXN_JIT_ASSERT`s that failed |

Operators with the name of a C function take and return a context record. A jump
leaves the block: the caches have been cleared and the target starts in a new
`buxn_jit_ctx_t`. A step has several outcomes (`Arrivals`), since whether a
target was known when the block was compiled is not tracked: the address is
handed over (`HandOver`) to the frame that waits for it or, past all frames, to
the trampoline, or the jump goes on to native code (`Enter`), a call with one
more frame. A return to where a frame waits goes on with what `AfterCall`
recorded: no `mem_base`, but the semantics as they were before the call.

Between opcodes, registers are renumbered in the order of the cells, and the
ones no cell names are forgotten: `next_opcode` rebuilds the reference counts
from the cells, so no later behaviour depends on them.

Abstractions: bytes have `Base` values and shorts `Base * Base`, registers four
times a byte's width; constants are not tracked (`NativeCalls` follows the ones a
static jump depends on); blocks are entered at any point. Stack pointers do not
wrap around: programs do not pop more than they pushed, nor push more than the
`wst` and `rst` bytes of their kind. In the zero page nothing is translated, so
it does not appear. `MaxFrames` bounds the calls in progress, and `Trusting` says
whether a native call may be made while the result of a comparison is on a stack.

### CompileQueue

| Variable | In the code |
|---|---|
| `blocks`, `num_blocks` | the block map and `stats.num_blocks` |
| `compiler` | the life of each block's `sljit_compiler` |
| `compiled` | blocks with `fn`, `head_addr`, `body_addr` |
| `heap` | all entries ever allocated, and the four lists of them |
| `current` | the entry that `buxn_jit_compile` was called with |
| `links`, `patched` | rewritable jumps emitted, and set by the linker |
| `busy`, `request` | whether `buxn_jit` runs, and for which address |

Actions: `buxn_jit` (the call, with its early return), `compile_begin`,
`jump_abs` (for any link type and target: what a block links to is in the
program's memory), `compile_end`, `link`, `cleanup`, `return`. A pooled entry
keeps the fields its last user wrote, as in the code.

### BlockMap and CodeCache

`BlockMap` adds to the driver the variables `root` (the tree of `hamt.h`, as the
function from slots to keys; a slot is the sequence of child indices that leads
to it) and `first` (the list that `buxn_jit_cleanup` walks). Every step that adds
an address to `blocks` inserts it where `BHAMT_SEARCH` ends. `Hash` is a constant,
any function: nothing is assumed of `buxn_jit_prospector32`.

`CodeCache` has a set `ready` and one caller who may be `waiting`: it asks for a
block that is not ready, the set grows, and it is answered once the block is in
it. The refinement maps `ready` to the blocks that have code and from which no
path of jumps meets one that is not patched, which is what a caller needs that
jumps to the result at once.

### UxnControl and NativeCalls

`UxnControl` is the interpreter with all but the program counter, the return
stack and the jump targets taken away. An address holds a whole opcode; JMP,
JCN and JSR stand for the opcode with the LIT2 before it.

| Variable | In the code |
|---|---|
| `op`, `to` | the program's memory: opcodes, and the targets of its jumps |
| `pc`, `rst` | the uxn address (in R0 while native code returns), the return stack |
| `code` | blocks with an `fn`, each with the targets that were in memory when it was compiled |
| `mode`, `block` | host, native code (in which block), a return from it, or the interpreter |
| `frames` | native frames of `buxn_jit_jump_abs`: the block and the return address it compares R0 with |
| `drops` | history: return addresses popped without returning, since the trampoline last ran |

`jump_abs` and `call_abs` are the two halves of `buxn_jit_jump_abs`: the recheck
of a constant (not for immediate targets) and the return address, where 0 means
none. `Resume` and `PassOn` are the comparison after a native call;
`Finish`, `Bounce` and `translate_jump_addr` what the trampoline and
`buxn_jit_execute` do with an address that got there. `buxn_jit` is one step, which
is what `Serves` justifies. The refinement is the identity on `op`, `to`, `pc`, `rst`:
steps of the trampoline and of returning frames stutter.

Stores only rewrite literals, as the comment at `jit.c:1538` asks of programs, and
opcodes stay as they are: the code has no way to notice when they do not.

### AddrMapping, LabelMap, GdbReader and Hooks

| Variable of `Hooks` | In the code |
|---|---|
| `symtab`, `label_map` | the configuration of the hooks |
| `vm[v].at` | which callback VM `v` is in |
| `vm[v].gdb`, `vm[v].perf` | `addr_mappings` and `addr_mapping_chunk_pool` of each hook |
| `vm[v].blocks`, `todo` | the hook's list of `gdb_info_block`s, and what its cleanup has left |
| `entries`, `first_entry`, `action_flag`, `relevant_entry` | the list and `__jit_debug_descriptor` |
| `mtx` | `buxn_jit_gdb_hook_mtx` |
| `gdb` | what gdb knows, by its breakpoint in `__jit_debug_register_code` (external) |
| `in_order` | history: so far, nobody was cleaned up whose entry is `first_entry` |
| `stray` | a link was followed and written into an arena that was given back |
| `dump` | the records of the perf dump file |

The actions follow `buxn_jit_compile`: `begin_block`, `jit_opcode` (both hooks),
`gdb_end_block` up to the lock, `Register` and `Notify` inside it,
`perf_end_block`; then `Lock`, `Unregister` and `Unlock` of
`buxn_jit_cleanup_gdb_hook`, and `barena_reset` of the host (`cli.c:262`), after which
the VM's entries are `Freed`: a debugger that attaches can follow no link from there
(`Chain`), and when `gdb_end_block` or a cleanup would write to one (`hook.c` 219, 272,
275), `Stray` happens instead and nothing more is said.

That does happen: `buxn_jit_cleanup_gdb_hook` never moves `first_entry`. After the
cleanup of the VM that registered last, the descriptor names freed memory; a debugger
that attaches reads it, and the next block of another VM writes to it. No document
of the repository says in which order VMs are to be cleaned up, and its only host has
one, which ends right after. So `Attached` is about the other orders, whatever they
are, and says of them that no freed entry is met at all: neither by a debugger nor by
a write, also when entries are unlinked from the middle and the end of the list.

A native address is an offset into a block's code, with one byte for the prologue and
two for an opcode (`resolve_addr`), so that a range that ends one byte too late, or
between two lines, can be told from one that does not. `gdb_read` is a function of one entry, and `Shown`
applies it to every entry that gdb knows, with and without a failed read of the mappings,
and for every set of file names that can be read. `reader.c` ends a table right
before the next one (`mapping->pc - 1`, line 149), as if the end were a part of the
range, and the last one behind the code (line 190), as if it were not. `Shown` holds
under either reading, because a call is never in the last byte before the next
mapping: the code that compares the return address follows it.

## Runs

Twelve runs: six pass, six show where the code departs from what is said of it.

`registers` asks about the allocator alone, with one-valued bytes (`Base = 1`),
since which values are on the stack does not matter to it. It checks `TypeOK`,
`NoAssert` and `FlushedPrefix` of two kinds of programs. The first has the
working-stack opcodes in all modes on 8 + 4 bytes: both caches can be full of shorts
and bytes while keep mode holds two more registers, and some cell can still be
spilled. The second has LIT, POP and ROT2k on 12 bytes, enough for ROT2k to keep its
operands: it holds five registers when it asks for a sixth. With `NumRegs = 5` TLC
finds `NoAssert` violated there, so that the six registers of the code, which the
theorem `SixRegistersSuffice` shows to be enough, are also needed.

The lock-step runs check `DropIn`. Two-valued bytes (`Base = 2`) tell a byte from
its neighbour and a high from a low half; depth 3 to 6 is enough to fill the
cache (past its four cells with 6 bytes) and to leave operands half in memory.

| Run | Programs |
|---|---|
| `lockstep_widths` | four kinds: bytes on both stacks, with shared registers (3 + 2 bytes); bytes and shorts on one stack (6 bytes); bytes and shorts on both stacks, STH (3 + 3 bytes); one stack with keep mode and comparisons (4 bytes: with a fifth, `stale_split` happens). Also `NoAssert`, with cells that share registers |
| `lockstep_branches` | comparisons and jumps to their results, around an opcode that leaves the translator's knowledge alone, and a native call that returns (`Base = 4`, so that -1 is not 1) |

The programs on both stacks leave out opcodes whose handlers have the shape of ADD or
of LDZ and STZ; the 6-byte ones go through all of them.
A failed assertion also stops these runs: no opcode is translated after it, which
TLC reports as a deadlock.

### Where DropIn does not hold

Five combinations that the passing runs leave out violate `DropIn`. Each has a run
with just the opcodes needed, and is described under `findings` in `PROJECT.json`:

| Run | What the counterexample shows |
|---|---|
| `shared_register` | `LIT DUP INC` changes both copies of a shared register (DUP and OVR with INC, LDR, STR, and with the splitting and joining of cells) |
| `wrong_stack` | a pop from memory reads the other stack after its allocation spilled |
| `stale_base` | R_MEM_BASE is not what `mem_base` says after a skipped opcode |
| `stale_split` | a spill during a split moves the cells, and the one that was split stays a short: `#01 #02 #03 #0405 STZ2k` |
| `stale_call` | after a native call that left a number on the stack, JMP takes it for the comparison result that was there before (`Trusting`) |

The same modules show five relatives of these, which have no run of their own.
Give `MCLockStep` a `Programs` of these opcodes and depths to see them:

| Line of `jit.c` | Constants | What the counterexample shows |
|---|---|---|
| 1356 | as `stale_base`, with `Inlined` BRK and LIT | a jump by one byte skips a whole LIT |
| 2597 | LIT2, LITr, INCk, BRK; 4 + 3 bytes | keep mode pops below its operand after a spill that its copied pointer does not follow |
| 1375 | LIT, JMP; `Base = 4`, `Pc = 15`, 2 bytes | a relative jump across the end of memory is not cut to 16 bits and is taken for BRK |
| 1366 | as `stale_base`, with `Inlined` BRK and POP | the tracked semantics are one byte off after a skipped POP, and a number is taken for a comparison result |
| 1415 | LIT, EQU, JCN, BRK with `Inlined` BRK; `Base = 4`, 3 bytes | JCN to a comparison result skips an opcode when its condition is false |

### The driver

`compile_queue` has three blocks with up to two static jumps or calls each and
three in all (`MaxLinks`, `MaxJumps`), and any number of calls of `buxn_jit`. Three
blocks are enough for a cycle that does not go through the block being compiled,
and two jumps for an entry to be recycled while another is held. Two of the
hashes are equal and the third shares their first level, so that a search goes
past a full slot and off the end of the hash; the addresses are therefore not
symmetric. It checks the ownership and lifetime of entries and compilers, that
nothing is compiled twice, `MapFinds` (the tree is the set that the proofs take
it for), `Returns` and `Serves` (it implements `CodeCache`).

### Control flow

`native_calls` runs 720 programs of four addresses, the first of them the zero
page: a call at 1, then a store into a literal, a change or a drop of a return
address, a branch or a return at 2, and a jump, branch, call, return or BRK in the
last byte. So a call in the last byte (whose return address is 0), a block that
runs into the zero page, recursion, a return to an unexpected place through
several frames and a literal that is rewritten in a compiled block all happen. Bounds: three return addresses
(`MaxRst`), one dropped between two visits of the trampoline (`MaxDrops`).
`Interpreter` says that control goes where `UxnControl` takes it, `NativeDepth`
that native frames are bounded by the program's own return stack, and `Unwinds`
that BRK and the zero page are reached from any depth. The code does leave a
frame behind for every dropped return address, until the trampoline runs
(`drops` in `NativeDepth`): a program that drops its return addresses in a loop
of native calls grows the native stack without bound.

### Hooks

`hooks` has two VMs, one of them with a perf hook, three blocks in all of up to
three opcodes, and chunks of two mappings, so that a block needs a second chunk
and a later one takes both from the pool. The debug file has a macro of another
file in the middle, a label among the opcodes and a gap, or is missing. Both
orders of cleanup occur, before and between registrations of the other VM, and the
arena of a VM is taken back at any time after its cleanup. The reader may fail to read
the mappings, or the name of either file or of both.

`closed_table` asks what `gdb/jit-reader.h` says of `symtab_close`: no more blocks are
opened on that table. The reader closes a table before it reads the name of the next
file; when it cannot, it goes on with the table it has closed (`reader.c:161`), gives it
a second range that overlaps the first and closes it again. One block with one opcode
shows it. `Shown` says what is left: no gap, nothing else overlaps, and every call
before that file has its line.

### Fairness and deadlock

* `Returns`: weak fairness of the driver's own steps. `buxn_jit` is a plain
  function that runs to its end in the thread of its caller. That a single block
  ends is the bound on its jumps; in the code a block ends at the latest when
  `pc` wraps around to the zero page (line 2536).
* `Unwinds`: weak fairness of returning and of the trampoline, which wait for
  nothing. Nothing is assumed of the program.
* `Announced`: weak fairness of each VM's steps into and inside the critical
  section. A mutex that is free infinitely often need not be given to a thread
  that waits, but here the others stop wanting it: each compiles finitely many
  blocks, at most one per address (`MaxBlocks`), and cleans up once.

`native_calls`, `hooks` and `closed_table` turn deadlock checking off: a program that pops from an
empty return stack or exceeds a bound stops, and so does a process whose VMs have
all been cleaned up. In the other runs a program can always go on with a literal
or BRK, and `buxn_jit` can always be called again.

## Proofs

Every safety property that a run checks, except `DropIn`, is also a theorem, for every
value of the constants:

| Module | Theorem | States |
|---|---|---|
| `CompileQueueProofs` | `TypeCorrect`, `EntriesOwned`, `NoStaleCompiler`, `AllLinked`, `BlockCount`, `NeverRecompiled` | `TypeOK`, `Ownership`, `NoUseAfterFree`, `Linked`, `BlocksCounted`, `CompiledOnce` |
| `BlockMapProofs` | `MapIsSet`, `KeepsPromise` | `MapFinds`, `Serves` |
| `StackCacheProofs` | `TranslatorTypes`, `FlushedBelow`, `SixRegistersSuffice` | `TypeOK`, `FlushedPrefix`, `NoAssert` |
| `NativeCallsProofs` | `TypeCorrect`, `BoundedNativeStack`, `DropInControl` | `TypeOK`, `NativeDepth`, `Interpreter` |
| `HooksProofs` | `TypeCorrect`, `NoChunkLost`, `OnlyOwnMappings`, `ToldOfAll`, `NoneCutOff` | `TypeOK`, `ChunksOwned`, `OwnMappings`, `GdbKnows`, `Attached` |
| `DebugInfoProofs` | `RightName`, `RightSymbol`, `AllDumped`, `RightBacktrace` | `Named`, `Lookup`, `Dumped`, `Shown` |

### The driver

For every set `Addr` and every `MaxLinks`. The assumptions are `AddrAssumption`
(the null block is no address) and `MaxLinksAssumption`.

None of these is inductive alone. `Ownership` needs nothing else and is
proved through a per-entry formulation: removing the head of a list, putting an
entry that is on no list at the front of one, and allocating a fresh entry each
preserve it. `NoUseAfterFree` and `Linked` need to know what the
entries say: the strengthening adds that every entry on the compile queue is
for a block that is known and not compiled, with no two for the same block; that
every block that is known but not compiled is on that queue or being compiled;
that a compiler is live exactly while one cleanup entry names it; that every
emitted jump is patched or on the link queue, whose entries name a known target;
and that outside `busy` all three queues are empty. `Linked` is then immediate
when `return` fires, and `CompiledOnce` follows since the entry being compiled
names a block that is not compiled. `num_blocks` needs the finiteness of `blocks`
for its cardinality.

### The block map and the promise of `buxn_jit`

For every hash function into the numbers (`HashAssumption`) and every positive
`NumBits`, so also when all hashes are equal.

* `MapIsSet`: a search goes one level deeper with every slot it passes, and all
  those slots are in use. There are fewer slots in use than it would need to go
  on (`SearchEnds`, by cardinality), so it ends, and it ends at the least depth at
  which it does not pass. The invariant says of every known block that the search
  for it ends in its own slot. An insertion only adds a slot: searches that pass
  it now did not end there before.
* `KeepsPromise` (`MapSpec => Serves`): jumps are emitted only from the block that
  is compiled, which has no code yet, and a patched jump stays patched. So a block
  from which every path is patched stays one, and `ready` only grows. When
  `buxn_jit` returns, the driver's invariant says that all known jumps are patched
  and all known blocks compiled, and the block asked for is known (`Asked`).

### The translator

For all sets of opcodes and all depths of the stacks, every `Base`, `Nibble` and `Pc`,
every `CacheSize` and `MaxFrames`, whether or not `Trusting`, and any `Inlined` opcodes
(`BaseAssumption`, `PcAssumption`, `ProgramsAssumption`, `SizeAssumption`). Types and
`FlushedPrefix` hold for any number of registers; `NoAssert` needs `NumRegs >= 6`, which
are `BUXN_JIT_R_OP_0` to `BUXN_JIT_R_OP_5`. The programs include those for which
`DropIn` does not hold: the flaws that its five violated runs show confuse values, never
the reference counts.

The invariant `IInv` is `TypeOK`, well-typed frames, `FlushedPrefix` and, with six
registers, `NoAssert`; it is inductive over whole opcodes, since the counts are rebuilt
from the cells before each one. All the work is inside an opcode, where a register may
be named by several cells, by operands the handler has popped and by the shadow pointers
of keep mode, and where every allocation may spill cells of either cache.

* `Counted(c, H)`: the count of each register is the number of cells that name it plus
  what `H` says is held otherwise, and no assertion has failed. `H` is the ledger that
  the code does not keep.
* Each function of `jit.c` is shown, for every `H`, to do one of four things: leave `H`
  alone while cells move (`Moved`, `Shifted`: spill, flush, push, discard), hold one
  register more (`Takes`: allocation and every pop), hold one less (`Drops`), or touch
  no count (`Alike`: loads, stores and arithmetic).
* Allocation: the spill loop ends with a free register or with both caches empty. In the
  latter case the count of a register is what `H` holds of
  it, and if `H` holds at most five in all, one of six registers is free. The halves of
  a short that comes from two cells or from memory take a second register for a moment,
  so a pop needs at most four held before it.
* `Good(c, n, k)` says of a handler's state that it holds `n` registers and has `k`
  operands. Keep mode starts with two shadow pointers, and the worst handler is ROT2k: two
  pointers and two operands when the third is popped.
* `Commit` renumbers the registers that cells name; the new number is the rank among
  them, a bijection onto 1 to their number, so that no two registers become one.

`FlushedPrefix` comes along with these: a flush goes from the bottom up through the whole
cache, a spill takes the bottom cell, a push puts one that needs a flush on top, a split
changes only a width, and the pass between opcodes drops the flushed cells, which are
at the bottom.

### Control flow

For every memory size, every position of the zero page, all programs and all
bounds on the return stack and on dropped addresses (`TopAssumption`,
`ProgramsAssumption`, `MaxRstAssumption`, `MaxDropsAssumption`).

`Spec => Interpreter` needs to know where native code is. The invariant adds to
`TypeOK` and `NativeDepth`: a block knows the targets of its immediate jumps, which
no store changes, and every static target in a block has code (`Blocks`, from the
closure that `buxn_jit` compiles); native code is inside its block or has run into
the zero page, and a frame waits inside its block (`Places`). A jump then either
goes to the address that memory names, where there is code, or finds its constant
stale and leaves through the trampoline. `NativeDepth` is
inductive with the others: a native call pushes a return address and a frame, and
a return takes both or leaves a frame behind for a dropped address.

### Hooks

For every set of VMs, every `ChunkSize`, any number of blocks and of opcodes.
The invariant of `HooksProofs` has five parts:

* `Vms`: each hook owns its chunks (`ChunkOwned`) and holds the mappings of the
  block that is compiled; blocks of different VMs are different entries;
* `Records`: every link leads to an entry;
* `Descriptor`: who is in a critical section holds the mutex, and only then do
  `action_flag` and `relevant_entry` say what gdb will read;
* `ToldOf`: which entries gdb knows, for every place that a VM can be at;
* `List`: every entry that is registered is reached from `first_entry` over links in
  whatever memory (`Reach`), and its predecessor, if it has one, points to it; one that
  is not yet registered has no link from or to it.

The last part is what unregistering needs. `first_entry` may be an entry that was
unlinked long ago, since cleanup never moves it, so "the list is doubly linked" is
not an invariant; "nothing live is cut off" is.

`Attached` needs more: that the links stay out of freed memory. `Clean` says that while
`in_order` holds, `first_entry` is of a VM that was not cleaned up, has nothing before
it, and entries in the list point only to each other, in both directions. Registering
puts a new entry before the first, which is not freed; a cleanup takes out entries that
are not the first, from the ends or the middle, and both of their neighbours are in the
list, so that nothing points to them when the arena goes. `Chain` is then `Reach`, which
has the live entries and no others.

`DebugInfoProofs` adds one invariant for each question about data: `Searched` (the
name in an entry is what `buxn_pc_to_label` returned), `Profiles` (opcodes of the
current block have symbols, the perf hook's mappings and `code_index` are those of
the block, and the dump file has the records of the finished blocks, in order) and
`Mapped` (the lines in an entry are in increasing order, more than a byte apart, inside
the code, and are those of the calls). What the loops of `label_map.h`, `addr_mapping.h`
and `gdb/reader.c` compute is proved turn by turn: the tables that the reader has
closed leave no gap, and every line read so far is in a closed table or in the open
one (`Going`), until a name cannot be read: then the lines before it are in closed
tables, and the table that gets the last range is the one closed last (`GivenUp`).

Assumptions: `None` is no VM; at most one VM has a perf hook (`PerfVMAssumption`: its
files are named after the process, `perf.c:282`); entries are numbers; the
zero page is not empty (`ZeroPageAssumption`: label 0 stands for none in
`buxn_pc_to_label`); labels are well typed; and `SymtabsAssumption`: the opcodes in a
debug file are in order and do not overlap. The last is what `buxn_dbg_find_symbol`
takes for granted when it stops at the first opcode beyond the address (and when it
starts from the hint of the opcode before): on a file in another order it would
miss symbols.

### How recursive definitions are reasoned about

`FlattenSeq`, `FoldLeft` and the least depth of a search are recursive functions or
minima. Induction is done by well-foundedness of the numbers: take the least
counterexample (`LeastNumber`, `UpTo` in `ListFacts`). That the function behind a
fold exists (TLA+ only says `CHOOSE`) is `FoldsExists`: extend it from the sets of positions
below k to those below k + 1.

### Only model-checked

* `Returns`, `Unwinds` and `Announced`: liveness under fairness, out of the
  prover's reach.
* `DropIn` of `LockStep`. It holds for the programs of the passing runs and not for
  all (five runs show where it does not), so there is no theorem for all programs to
  state.

## Not modelled

* The command line emulator (`src/cli.c`): it loads files and feeds bytes to the
  console device of the buxn library, which is not in the repository. `Hooks`
  follows the order in which it sets up, cleans up and gives memory back.
* In the gdb reader, unwinding and frame ids: they read the native stack of
  another process.
* In the perf hook, record sizes, time stamps and the map file; two perf hooks in one
  process, which share their files.
* Constant arithmetic (`const_value` in the opcode handlers): a constant is compared with
  the register before it is used, so a wrong one costs a detour.
* What happens after a write to freed memory: it is undefined, and `Hooks` stops there.
* An opcode without a symbol: both hooks follow the NULL that the search returns.
* Failures of sljit and of memory allocation, for which the code has no path; the stub
  that a native call has before it is linked, which `Linked` shows is never run.
* The contents of emitted machine code are sljit's business, timing nobody's.

## Plan

The modules that the repository's core logic calls for are written, and every safety
property of them but `DropIn` is proved. `DropIn` can become a theorem once the code no
longer has the flaws that its violated runs show; its proof would add to `Counted` that
the cells and the memory below them spell the interpreter's stacks.
