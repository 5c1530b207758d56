----------------------------- MODULE StackCache -----------------------------
(***************************************************************************)
(* How jit.c translates one opcode after another: the register allocator,  *)
(* the two stack caches that defer pushes, the keep-mode shadow pointers   *)
(* and the opcodes built on them.                                          *)
(*                                                                         *)
(* The translator and the code it emits are run together: emitting an      *)
(* instruction performs it, on val (the operand registers) and mem (the    *)
(* stacks in buxn_vm_t).  So a step is one call of buxn_jit_next_opcode    *)
(* followed by the run of what it emitted.                                 *)
(*                                                                         *)
(* Operators that have the name of a C function take and return the        *)
(* context c (buxn_jit_ctx_t plus the machine state).  A register that the *)
(* function returns is c.reg; an operand that it returns is added to       *)
(* c.args, the local operands of the opcode's handler in the order of      *)
(* their definition, and named by its position there.  bool marks one that *)
(* is known to be the result of a comparison (BUXN_JIT_SEM_BOOLEAN).       *)
(*                                                                         *)
(* A relative jump to such an operand is compiled as a branch around the   *)
(* next opcode, which is translated in place: inline says whether the      *)
(* opcode to be translated next is one of these, and whether it is run.    *)
(* Constants are not tracked: a jump to a constant and one through the     *)
(* trampoline arrive at the same address.  They differ in the native calls *)
(* in progress, frames, each with what the translator goes by when it      *)
(* continues after the call: both kinds of jump are possible outcomes.     *)
(*                                                                         *)
(* A definition whose name ends in _mut is a slip that could be made in    *)
(* the one below it; it is there to see that a property would notice.      *)
(***************************************************************************)
EXTENDS Opcodes

CONSTANTS
    Programs,   \* kinds of programs: the opcodes they are made of (ops) and
                \* the bytes they may have on the two stacks (wst, rst)
    Inlined,    \* those that they put after a jump to a comparison's result
    CacheSize,  \* BUXN_JIT_CACHE_SIZE
    NumRegs,    \* BUXN_JIT_R_OP_MAX - BUXN_JIT_R_OP_MIN + 1
    MaxFrames,  \* bound: native calls in progress
    Trusting    \* native calls are made while a stack is known to hold the
                \* result of a comparison

Kinds == DOMAIN Programs

ASSUME ProgramsAssumption ==
    \A k \in Kinds : /\ Inlined \subseteq Programs[k].ops /\ Programs[k].ops \subseteq AllOpcodes
                     /\ Programs[k].wst \in Nat /\ Programs[k].rst \in Nat

(* Programs without such jumps have no comparisons, or no relative jumps.  *)
ASSUME InlinedAssumption ==
    \/ Inlined # {}
    \/ \A k \in Kinds :
          \/ { o \in Programs[k].ops : o.name \in {"EQU", "NEQ", "GTH", "LTH"} } = {}
          \/ { o \in Programs[k].ops : o.name \in {"JMP", "JCN", "JSR"} /\ ~o.two } = {}

ASSUME SizeAssumption ==
    /\ CacheSize \in Nat \ {0} /\ NumRegs \in Nat \ {0}
    /\ MaxFrames \in Nat /\ Trusting \in BOOLEAN

VARIABLES
    program,  \* the kind of program that is run
    cache,    \* wst_cache and rst_cache, indexed by flag_r
    mem,      \* the part of ws and rs below S_WSP and S_RSP
    val,      \* the operand registers of the machine
    base,     \* what R_MEM_BASE points to, and
    mem_base, \* what ctx->mem_base says it points to
    sem,      \* which bytes of ctx->wst and ctx->rst are comparison results
    inline,   \* the next opcode is: not skippable, run or skipped
    frames,   \* the native calls in progress
    asserts   \* the BUXN_JIT_ASSERTs that failed

vars == <<program, cache, mem, val, base, mem_base, sem, inline, frames, asserts>>

Regs == 1..NumRegs

Cell == [reg : Regs, is_short : BOOLEAN, need_flush : BOOLEAN]

StackOf(flag_r) == IF flag_r THEN "rs" ELSE "ws"

(***************************************************************************)
(* Utils: reference counted registers.                                     *)
(***************************************************************************)
find_free_reg(c) == { i \in Regs : c.ref[i] = 0 }

Assert_(c, p, msg) == IF p THEN c ELSE [c EXCEPT !.asserts = @ \cup {msg}]

retain_reg(c, reg) == [c EXCEPT !.ref[reg] = @ + 1]

release_reg(c, reg) ==
    IF c.ref[reg] > 0
    THEN [c EXCEPT !.ref[reg] = @ - 1]
    ELSE Assert_(c, FALSE, "Releasing unused register")

(* The register is only written when it is thought to differ.              *)
set_mem_base(c, to) ==
    IF c.mem_base = to THEN c ELSE [c EXCEPT !.mem_base = to, !.base = to]

(* Write bytes at a stack pointer.  When R_MEM_BASE is not what mem_base   *)
(* says, they go elsewhere.                                                *)
PushBytes(c, bytes, flag_r) ==
    LET ptr == Len(c.mem[flag_r])
    IN  IF c.base = StackOf(flag_r)
        THEN [c EXCEPT !.mem[flag_r] = @ \o bytes]
        ELSE [c EXCEPT !.mem[flag_r] = @ \o [i \in DOMAIN bytes |-> 0],
                       !.mem[~flag_r] = [i \in DOMAIN @ |->
                           IF c.base = StackOf(~flag_r) /\ i - ptr \in DOMAIN bytes
                           THEN bytes[i - ptr] ELSE @[i]]]

(* do_push and flush_cell: write a value to the stack in memory.           *)
do_push(c, cell, flag_r) ==
    PushBytes(set_mem_base(c, StackOf(flag_r)), Bytes(c.val[cell.reg], cell.is_short), flag_r)

(* The cell is dropped without being written.                              *)
stack_cache_spill_mut(c, flag_r) ==
    IF c.cache[flag_r] = <<>> THEN c
    ELSE [release_reg(c, Head(c.cache[flag_r]).reg) EXCEPT !.cache[flag_r] = Tail(@)]

(* Move the oldest cell of a cache to memory.                              *)
stack_cache_spill(c, flag_r) ==
    IF c.cache[flag_r] = <<>> THEN c
    ELSE LET cell == Head(c.cache[flag_r])
             d    == IF cell.need_flush THEN do_push(c, cell, flag_r) ELSE c
         IN  [release_reg(d, cell.reg) EXCEPT !.cache[flag_r] = Tail(@)]

(* The lowest register that is free.                                       *)
TakeReg(c) ==
    LET free == find_free_reg(c)
    IN  IF free = {} THEN Assert_(c, FALSE, "Out of registers")
        ELSE [retain_reg(c, Min(free)) EXCEPT !.reg = Min(free)]

(* Only the cache of the current opcode is spilled.                        *)
alloc_reg_mut(c) ==
    TakeReg(FoldLeft(LAMBDA d, cell : IF find_free_reg(d) # {} THEN d
                                      ELSE stack_cache_spill(d, c.op.ret),
                     c, c.cache[c.op.ret]))

(* The loop runs at most once for every cached cell, the current cache     *)
(* first.                                                                  *)
alloc_reg(c) ==
    LET r == c.op.ret
        Iteration(d, cell) ==
            IF find_free_reg(d) # {} THEN d
            ELSE stack_cache_spill(d, IF d.cache[r] # <<>> THEN r ELSE ~r)
    IN  TakeReg(FoldLeft(Iteration, c, c.cache[r] \o c.cache[~r]))

(* Registers are machine words: they hold more than the widest operand.    *)
Word == Base * Base * Base * Base

Write(c, reg, v) == [c EXCEPT !.val[reg] = v % Word]

(* No room is made in a full cache.                                        *)
stack_cache_push_mut(c, x, flag_r) ==
    LET cell == [reg |-> x.reg, is_short |-> x.is_short, need_flush |-> TRUE]
    IN  retain_reg([c EXCEPT !.cache[flag_r] = Append(@, cell)], x.reg)

(***************************************************************************)
(* Stack cache.                                                            *)
(***************************************************************************)
stack_cache_push(c, x, flag_r) ==
    LET d == IF Len(c.cache[flag_r]) >= CacheSize THEN stack_cache_spill(c, flag_r) ELSE c
        cell == [reg |-> x.reg, is_short |-> x.is_short, need_flush |-> TRUE]
    IN  retain_reg([d EXCEPT !.cache[flag_r] = Append(@, cell)], x.reg)

stack_cache_clear(c, flag_r) ==
    FoldLeft(LAMBDA d, cell : stack_cache_spill(d, flag_r), c, c.cache[flag_r])

(* The return stack is forgotten.                                          *)
clear_stack_caches_mut(c) == stack_cache_clear(c, FALSE)

clear_stack_caches(c) == stack_cache_clear(stack_cache_clear(c, FALSE), TRUE)

(* The loop starts at the second cell.                                     *)
stack_cache_flush_mut(c, flag_r) ==
    LET n == Len(c.cache[flag_r])
        d == FoldLeft(LAMBDA e, cell : IF cell.need_flush THEN do_push(e, cell, flag_r) ELSE e,
                      c, SubSeq(c.cache[flag_r], 2, n))
    IN  [d EXCEPT !.cache[flag_r] =
                    [i \in DOMAIN @ |-> IF i = 1 THEN @[i] ELSE [@[i] EXCEPT !.need_flush = FALSE]]]

(* Write the cells out but leave them in the cache.                        *)
stack_cache_flush(c, flag_r) ==
    LET d == FoldLeft(LAMBDA e, cell : IF cell.need_flush THEN do_push(e, cell, flag_r) ELSE e,
                      c, c.cache[flag_r])
    IN  [d EXCEPT !.cache[flag_r] =
                    [i \in DOMAIN @ |-> [@[i] EXCEPT !.need_flush = FALSE]]]

(* Between two opcodes: drop as many cells from the bottom as there are    *)
(* flushed ones.  Reference counts are then those of the cells that stay.  *)
stack_cache_retain(cells) ==
    LET num_flushed == Cardinality({ i \in DOMAIN cells : ~cells[i].need_flush })
    IN  SubSeq(cells, num_flushed + 1, Len(cells))

(* A register is counted once, however many cells name it.                 *)
RefCounts_mut(cells) ==
    [i \in Regs |-> IF \E j \in DOMAIN cells : cells[j].reg = i THEN 1 ELSE 0]

RefCounts(cells) ==
    [i \in Regs |-> Cardinality({ j \in DOMAIN cells : cells[j].reg = i })]

(* The stack pointer that pops use: S_WSP and S_RSP, or their shadow.      *)
StackPtr(c, flag_r) == IF c.op.keep THEN c.shadow[flag_r] ELSE Len(c.mem[flag_r])

MovePtr(c, flag_r, ptr) ==
    IF c.op.keep THEN [c EXCEPT !.shadow[flag_r] = ptr]
                 ELSE [c EXCEPT !.mem[flag_r] = SubSeq(@, 1, ptr)]

(* A byte of what R_MEM_BASE points to.  Above the top of a stack, and     *)
(* outside the stacks, there is the zero of the reset: only wrong code     *)
(* reads there.                                                            *)
Peek(c, i) ==
    LET region == IF c.base \in {"ws", "rs"} THEN c.mem[c.base = "rs"] ELSE <<>>
    IN  IF i \in DOMAIN region THEN region[i] ELSE 0

PopBytes(c, n, flag_r) ==
    LET ptr == StackPtr(c, flag_r)
        v   == IF n = 2 THEN Peek(c, ptr - 1) * Base + Peek(c, ptr) ELSE Peek(c, ptr)
    IN  MovePtr(Write(c, c.reg, v), flag_r, Max({0, ptr - n}))

(* R_MEM_BASE is set before the register is allocated, so a spill of the   *)
(* other cache leaves it pointing to the other stack.                      *)
pop_from_mem(c, flag_2, flag_r) ==
    PopBytes(alloc_reg(set_mem_base(c, StackOf(flag_r))), IF flag_2 THEN 2 ELSE 1, flag_r)

(* The cell that is split stays a short.                                   *)
Split_mut(c, flag_r, len, top) ==
    IF c.cache[flag_r] = <<>>
    THEN pop_from_mem(release_reg(c, c.reg), FALSE, flag_r)
    ELSE Write(Write(c, c.reg, c.val[top.reg] % Base), top.reg, c.val[top.reg] \div Base)

(* The low byte of a short, in the register just allocated.  top is the    *)
(* cell at position len before the allocation: when that has spilled a     *)
(* cell of this cache, is_short is cleared in a slot past the end and the  *)
(* cell that moved down stays a short.                                     *)
Split(c, flag_r, len, top) ==
    IF c.cache[flag_r] = <<>>
    THEN pop_from_mem(release_reg(c, c.reg), FALSE, flag_r)
    ELSE [Write(Write(c, c.reg, c.val[top.reg] % Base), top.reg, c.val[top.reg] \div Base)
            EXCEPT !.cache[flag_r] = [i \in DOMAIN @ |->
                IF i = len THEN [@[i] EXCEPT !.is_short = FALSE] ELSE @[i]]]

(* Pop from memory, or the top cell, or the low byte of the top cell.      *)
PopCell(c, flag_2, flag_r) ==
    LET len == Len(c.cache[flag_r])
        top == c.cache[flag_r][len]
    IN  IF len = 0 THEN pop_from_mem(c, flag_2, flag_r)
        ELSE IF top.is_short = flag_2
             THEN [c EXCEPT !.cache[flag_r] = Front(@), !.reg = top.reg]
        ELSE Split(alloc_reg(c), flag_r, len, top)

(* The high byte is in c.reg, where it is shifted and joined with the low. *)
OrReg(c, lo) ==
    release_reg(Write(c, c.reg, Bitwise2(BitOr, c.val[c.reg], c.val[lo])), lo)

JoinBytes(c, lo) == OrReg(Write(c, c.reg, c.val[c.reg] * Base), lo)

stack_cache_pop(c, flag_2, flag_r) ==
    IF flag_2 /\ c.cache[flag_r] # <<>> /\ ~Last(c.cache[flag_r]).is_short
    THEN JoinBytes(PopCell([c EXCEPT !.cache[flag_r] = Front(@)], FALSE, flag_r),
                   Last(c.cache[flag_r]).reg)
    ELSE PopCell(c, flag_2, flag_r)

discard_from_mem(c, flag_2, flag_r) ==
    MovePtr(c, flag_r, Max({0, StackPtr(c, flag_r) - (IF flag_2 THEN 2 ELSE 1)}))

DiscardByte(c, flag_r) ==
    LET len == Len(c.cache[flag_r])
        top == c.cache[flag_r][len]
    IN  IF len = 0 THEN discard_from_mem(c, FALSE, flag_r)
        ELSE IF top.is_short
             THEN [Write(c, top.reg, c.val[top.reg] \div Base)
                     EXCEPT !.cache[flag_r][len].is_short = FALSE]
        ELSE release_reg([c EXCEPT !.cache[flag_r] = Front(@)], top.reg)

stack_cache_discard(c, flag_2, flag_r) ==
    LET top == Last(c.cache[flag_r])
        d   == release_reg([c EXCEPT !.cache[flag_r] = Front(@)], top.reg)
    IN  IF ~flag_2 THEN DiscardByte(c, flag_r)
        ELSE IF c.cache[flag_r] = <<>> THEN discard_from_mem(c, TRUE, flag_r)
        ELSE IF top.is_short THEN d
        ELSE DiscardByte(d, flag_r)

(***************************************************************************)
(* Micro ops.                                                              *)
(***************************************************************************)
(* The operand in the register that was just popped or allocated.          *)
AddOperand(c, is_short, bool) ==
    [c EXCEPT !.args = Append(@, [reg |-> c.reg, is_short |-> is_short, bool |-> bool])]

(* What the i-th operand's register holds, and a new value for it.         *)
Arg(c, i) == c.val[c.args[i].reg]

SetArg(c, i, v) == Write(c, c.args[i].reg, v)

push_ex(c, i, flag_r) ==
    LET x == c.args[i]
    IN  [stack_cache_push(Assert_(c, c.ref[x.reg] > 0, "Pushing operand with unused register"),
                          x, flag_r)
            EXCEPT !.sem[flag_r] = @ \o (IF x.is_short THEN <<FALSE, FALSE>> ELSE <<x.bool>>)]

push(c, i) == push_ex(c, i, c.op.ret)

(* Forget the semantics of n bytes.  Pops in keep mode go through copies   *)
(* of ctx->wsp and ctx->rsp; nothing is known of what lies below.          *)
SemPtr(c, flag_r) == IF c.op.keep THEN c.esp[flag_r] ELSE Len(c.sem[flag_r])

PopSem(c, flag_r, n) ==
    LET to == Max({0, SemPtr(c, flag_r) - n})
    IN  IF c.op.keep THEN [c EXCEPT !.esp[flag_r] = to]
                     ELSE [c EXCEPT !.sem[flag_r] = SubSeq(@, 1, to)]

(* Only a byte is known to be the result of a comparison.                  *)
pop_ex(c, flag_2, flag_r) ==
    LET i == SemPtr(c, flag_r)
    IN  AddOperand(stack_cache_pop(PopSem(c, flag_r, IF flag_2 THEN 2 ELSE 1), flag_2, flag_r),
                   flag_2, ~flag_2 /\ i > 0 /\ c.sem[flag_r][i])

pop(c) == pop_ex(c, c.op.two, c.op.ret)

pop_byte(c) == pop_ex(c, FALSE, c.op.ret)

pop_short(c) == pop_ex(c, TRUE, c.op.ret)

wrap_around(c, v) == v % (IF c.op.two THEN Base * Base ELSE Base)

(* An access to memory through R_MEM_BASE, at the address of operand i.    *)
Access(c, kind, i) ==
    <<IF c.base = "memory" THEN kind ELSE "stray", Arg(c, i) % (Base * Base),
      IF c.args[i].is_short THEN Base * Base ELSE Base>>

(* Read into a fresh register.                                             *)
Fetch(c, i) == [AddOperand(Write(c, c.reg, c.in), c.op.two, FALSE) EXCEPT !.io = Access(c, "load", i)]

load(c, addr) == Fetch(set_mem_base(alloc_reg(c), "memory"), addr)

store(c, addr, value) ==
    LET d == set_mem_base(c, "memory")
    IN  [d EXCEPT !.io = Append(Access(d, "store", addr), Bytes(Arg(d, value), d.args[value].is_short))]

(* LDR and STR turn the offset into an address in its own register.        *)
Relocate(c, i) == [SetArg(c, i, Signed(Arg(c, i)) + Pc) EXCEPT !.args[i].is_short = TRUE]

(* Leave the block for target: where it starts, caches are empty and       *)
(* nothing is known.                                                       *)
Leave(c, target) ==
    [clear_stack_caches(c) EXCEPT !.io = <<"jump", target>>, !.left = TRUE]

(* Branch around the next opcode.                                          *)
Skip(c, skipped) ==
    [c EXCEPT !.io = <<"jump", IF skipped THEN (Pc + 1) % (Base * Base) ELSE Pc>>,
              !.inline = IF skipped THEN "skip" ELSE "run"]

(* A relative target is computed in a machine word and not cut to 16 bits. *)
jump(c, target) ==
    LET x == c.args[target]
        v == Arg(c, target)
    IN  IF x.is_short THEN Leave(c, v)
        ELSE IF x.bool THEN Skip(clear_stack_caches(c), v # 0)
        ELSE Leave(c, (Signed(v) + Pc) % Word)

(* taken is the jump itself, from the same context: it clears the caches   *)
(* once more, with nothing left to write.  When it is a branch around the  *)
(* next opcode, the label for a false condition comes after that opcode.   *)
conditional_jump(c, condition, taken) ==
    IF Arg(c, condition) % Base # 0 THEN taken
    ELSE IF taken.inline # "no" THEN Skip(taken, TRUE)
    ELSE clear_stack_caches(c)

(* A call to a device helper, which sees both stacks: the stack pointers   *)
(* are saved for it, and it may change every scratch register.             *)
Call(c, io) == [c EXCEPT !.base = "none", !.mem_base = "none", !.io = Append(io, c.mem)]

DeviceCall(c, io) == Call(clear_stack_caches(c), io)

ReadRom(c) == AddOperand(Write(c, c.reg, IF c.base = "memory" THEN c.in ELSE 0), c.op.two, FALSE)

immediate(c) == ReadRom(set_mem_base(alloc_reg(c), "memory"))

(***************************************************************************)
(* Opcodes.                                                                *)
(***************************************************************************)
BRK(c) == [clear_stack_caches(c) EXCEPT !.io = <<"halt">>, !.left = TRUE]

(* The operand is still thought to be the result of a comparison.          *)
INC_mut(c) ==
    LET d == pop(c)
    IN  push(SetArg(d, 1, wrap_around(c, Arg(d, 1) + 1)), 1)

INC(c) ==
    LET d == pop(c)
    IN  push([SetArg(d, 1, wrap_around(c, Arg(d, 1) + 1)) EXCEPT !.args[1].bool = FALSE], 1)

POP(c) ==
    IF c.op.keep THEN c
    ELSE stack_cache_discard(PopSem(c, c.op.ret, IF c.op.two THEN 2 ELSE 1), c.op.two, c.op.ret)

NIP(c) == push(POP(pop(c)), 1)

SWP(c) == push(push(pop(pop(c)), 1), 2)

ROT(c) == push(push(push(pop(pop(pop(c))), 2), 1), 3)

DUP(c) == push(push(pop(c), 1), 1)

OVR(c) == push(push(push(pop(pop(c)), 2), 1), 2)

(* A result in a register of its own.                                      *)
Result(c, v, is_short, bool) ==
    LET d == alloc_reg(c) IN AddOperand(Write(d, d.reg, v), is_short, bool)

(* A comparison of the two operands.                                       *)
Compare(c, f(_, _)) == push(Result(c, Flag(f(Arg(c, 2), Arg(c, 1))), FALSE, TRUE), 3)

EQU(c) == Compare(pop(pop(c)), LAMBDA x, y : x = y)
NEQ(c) == Compare(pop(pop(c)), LAMBDA x, y : x # y)
GTH(c) == Compare(pop(pop(c)), LAMBDA x, y : x > y)
LTH(c) == Compare(pop(pop(c)), LAMBDA x, y : x < y)

Arith(c, f(_, _)) == push(Result(c, f(Arg(c, 2), Arg(c, 1)), c.op.two, FALSE), 3)

ADD(c) == Arith(pop(pop(c)), LAMBDA x, y : wrap_around(c, x + y))
SUB(c) == Arith(pop(pop(c)), LAMBDA x, y : wrap_around(c, x - y))
MUL(c) == Arith(pop(pop(c)), LAMBDA x, y : wrap_around(c, x * y))
DIV(c) == Arith(pop(pop(c)), LAMBDA x, y : IF y = 0 THEN 0 ELSE x \div y)
AND(c) == Arith(pop(pop(c)), LAMBDA x, y : Bitwise2(BitAnd, x, y))
ORA(c) == Arith(pop(pop(c)), LAMBDA x, y : Bitwise2(BitOr, x, y))
EOR(c) == Arith(pop(pop(c)), LAMBDA x, y : Bitwise2(BitXor, x, y))

SFT(c) ==
    Arith(pop(pop_byte(c)), LAMBDA x, y :
        wrap_around(c, (x \div 2 ^ (y % Nibble)) * 2 ^ (y \div Nibble)))

JMP(c) == jump(pop(c), 1)

JCN(c) == LET d == pop_byte(pop(c)) IN conditional_jump(d, 2, jump(d, 1))

(* Push the return address.                                                *)
PushPc(c, flag_r) == push_ex(Result(c, Pc, TRUE, FALSE), Len(c.args) + 1, flag_r)

(* A jump that leaves the block with a return address.                     *)
Calling(c) == [c EXCEPT !.call = c.left]

JSR(c) == Calling(jump(PushPc(pop(c), ~c.op.ret), 1))

STH(c) == push_ex(pop(c), 1, ~c.op.ret)

LDZ(c) == push(load(pop_byte(c), 1), 2)

STZ(c) == store(pop(pop_byte(c)), 1, 2)

LDR(c) == push(load(Relocate(pop_byte(c), 1), 1), 2)

STR(c) == store(Relocate(pop(pop_byte(c)), 1), 1, 2)

LDA(c) == push(load(pop_short(c), 1), 2)

STA(c) == store(pop(pop_short(c)), 1, 2)

(* The answer goes to the register that was allocated for it before.       *)
CallDei(c) == SetArg(DeviceCall(c, <<"dei", Arg(c, 1) % Base>>), 2, c.in)

DEI(c) == push(CallDei(AddOperand(alloc_reg(pop_byte(c)), c.op.two, FALSE)), 2)

(* The device page is written before the helper is called.                 *)
CallDeo(c) ==
    DeviceCall(c, <<IF c.base = "device" THEN "deo" ELSE "stray", Arg(c, 1) % Base,
                    Bytes(Arg(c, 2), c.args[2].is_short)>>)

DEO(c) == CallDeo(set_mem_base(pop(pop_byte(c)), "device"))

JCI(c) == LET d == pop_byte(c) IN conditional_jump(d, 1, Leave(d, c.in))

JMI(c) == Leave(c, c.in)

JSI(c) == Calling(Leave(PushPc(c, TRUE), c.in))

LIT(c) == push(immediate(c), 1)

(* BUXN_OPCODE_DISPATCH.                                                   *)
dispatch(c) ==
    LET n == c.op.name IN
    CASE n = "BRK" -> BRK(c) [] n = "INC" -> INC(c) [] n = "POP" -> POP(c)
      [] n = "NIP" -> NIP(c) [] n = "SWP" -> SWP(c) [] n = "ROT" -> ROT(c)
      [] n = "DUP" -> DUP(c) [] n = "OVR" -> OVR(c) [] n = "EQU" -> EQU(c)
      [] n = "NEQ" -> NEQ(c) [] n = "GTH" -> GTH(c) [] n = "LTH" -> LTH(c)
      [] n = "JMP" -> JMP(c) [] n = "JCN" -> JCN(c) [] n = "JSR" -> JSR(c)
      [] n = "STH" -> STH(c) [] n = "LDZ" -> LDZ(c) [] n = "STZ" -> STZ(c)
      [] n = "LDR" -> LDR(c) [] n = "STR" -> STR(c) [] n = "LDA" -> LDA(c)
      [] n = "STA" -> STA(c) [] n = "DEI" -> DEI(c) [] n = "DEO" -> DEO(c)
      [] n = "ADD" -> ADD(c) [] n = "SUB" -> SUB(c) [] n = "MUL" -> MUL(c)
      [] n = "DIV" -> DIV(c) [] n = "AND" -> AND(c) [] n = "ORA" -> ORA(c)
      [] n = "EOR" -> EOR(c) [] n = "SFT" -> SFT(c) [] n = "JCI" -> JCI(c)
      [] n = "JMI" -> JMI(c) [] n = "JSI" -> JSI(c) [] n = "LIT" -> LIT(c)

(***************************************************************************)
(* The translation of one opcode.                                          *)
(***************************************************************************)
(* What a program finds on a stack: the bytes in memory, then the pushes   *)
(* that are still deferred.                                                *)
Content(flag_r) ==
    mem[flag_r] \o
    FlattenSeq([i \in DOMAIN cache[flag_r] |->
        IF cache[flag_r][i].need_flush
        THEN Bytes(val[cache[flag_r][i].reg], cache[flag_r][i].is_short)
        ELSE <<>>])

Context(o, in) ==
    LET cells == [r \in BOOLEAN |-> stack_cache_retain(cache[r])]
        zero  == [r \in BOOLEAN |-> 0]
    IN  [op |-> o, in |-> in, io |-> <<"next">>, reg |-> 1, args |-> <<>>, cache |-> cells,
         ref |-> RefCounts(cells[FALSE] \o cells[TRUE]), mem |-> mem, val |-> val,
         base |-> base, mem_base |-> mem_base, sem |-> sem, shadow |-> zero, esp |-> zero,
         inline |-> "no", left |-> FALSE, call |-> FALSE, frames |-> frames,
         asserts |-> asserts]

CopyPointers(c) ==
    [c EXCEPT !.shadow = [r \in BOOLEAN |-> Len(c.mem[r])],
              !.esp = [r \in BOOLEAN |-> Len(c.sem[r])]]

(* The pointers are copied after the cache was written out.                *)
Shadow_mut(c) ==
    IF c.op.keep
    THEN CopyPointers(stack_cache_flush(alloc_reg(alloc_reg(c)), c.op.ret))
    ELSE c

(* Keep mode pops through copies of the stack pointers, taken before the   *)
(* current cache is written out.                                           *)
Shadow(c) ==
    IF c.op.keep
    THEN stack_cache_flush(CopyPointers(alloc_reg(alloc_reg(c))), c.op.ret)
    ELSE c

(* The end of the opcode.  One that was translated in place of a branch    *)
(* ends with empty caches whether or not it was run; if it was skipped,    *)
(* only what the translator knows has changed.                             *)
Join(c) ==
    IF inline = "skip"
    THEN [clear_stack_caches(c) EXCEPT
             !.mem = mem, !.val = val, !.base = base, !.io = <<"next">>, !.left = FALSE,
             !.inline = IF @ = "no" THEN "no" ELSE "skip"]
    ELSE IF inline = "run" THEN clear_stack_caches(c)
    ELSE c

(* What is known of a stack, from the first comparison result on.          *)
Known(s) ==
    LET i == SelectInSeq(s, LAMBDA x : x)
    IN  IF i = 0 THEN <<>> ELSE SubSeq(s, i, Len(s))

KnownOf(c) == [r \in BOOLEAN |-> Known(c.sem[r])]

Nothing == [r \in BOOLEAN |-> <<>>]

(* R_MEM_BASE is thought to be what it was before the call.                *)
AfterCall_mut(c) == [sem |-> KnownOf(c), mem_base |-> c.mem_base]

(* The code after a native call is translated with what was known of the   *)
(* stacks before it; only R_MEM_BASE is thought to be lost.                *)
AfterCall(c) == [sem |-> KnownOf(c), mem_base |-> "none"]

(* A new block is translated in a new buxn_jit_ctx_t.                      *)
Enter(c, calls) ==
    [c EXCEPT !.base = "none", !.mem_base = "none", !.sem = Nothing, !.frames = calls]

Resume(c) ==
    [c EXCEPT !.sem = Last(c.frames).sem, !.mem_base = Last(c.frames).mem_base,
              !.frames = Front(@)]

(* The caller compares the address that the block hands over with its      *)
(* return address; if they differ the caller hands it over in turn.        *)
HandOver(c) ==
    IF c.frames # <<>> /\ c.io = <<"jump", Pc>> THEN Resume(c) ELSE Enter(c, <<>>)

(* A call or a jump to a block whose address was known stays in native     *)
(* code.                                                                   *)
Onward(c) ==
    IF ~c.call THEN {Enter(c, c.frames)}
    ELSE IF Len(c.frames) < MaxFrames /\ (Trusting \/ KnownOf(c) = Nothing)
         THEN {Enter(c, Append(c.frames, AfterCall(c)))}
    ELSE {}

(* Where the run continues once the block is left.                         *)
Arrivals(c) ==
    IF ~c.left THEN {c}
    ELSE {HandOver(c)} \cup (IF c.io = <<"halt">> THEN {} ELSE Onward(c))

Translate(o, in) == Arrivals(Join(dispatch(Shadow(Context(o, in)))))

Init ==
    /\ program \in Kinds
    /\ cache = [r \in BOOLEAN |-> <<>>]
    /\ mem = [r \in BOOLEAN |-> <<>>]
    /\ val = [i \in Regs |-> 0]
    /\ base = "none"
    /\ mem_base = "none"
    /\ sem = [r \in BOOLEAN |-> <<>>]
    /\ inline = "no"
    /\ frames = <<>>
    /\ asserts = {}

(* Between two opcodes only the registers named by a cell matter, and      *)
(* which number each of them has does not: they are renumbered in the      *)
(* order of the cells, and the others are forgotten.  So are the bytes     *)
(* below the last one that something is known of.  When no opcode is ever  *)
(* branched around, mem_base is right and what else is known is not used:  *)
(* they are forgotten too.                                                 *)
Rank(cells, reg) ==
    LET s == [i \in DOMAIN cells |-> cells[i].reg]
    IN  Cardinality(ToSet(SubSeq(s, 1, SelectInSeq(s, LAMBDA x : x = reg))))

Commit(c) ==
    LET Limits == Programs[program]
        cells == c.cache[FALSE] \o c.cache[TRUE]
        live  == { cells[i].reg : i \in DOMAIN cells }
    IN  /\ cache' = [r \in BOOLEAN |-> [i \in DOMAIN c.cache[r] |->
                        [c.cache[r][i] EXCEPT !.reg = Rank(cells, @)]]]
        /\ val' = [i \in Regs |->
                     IF i \in 1..Cardinality(live)
                     THEN c.val[CHOOSE reg \in live : Rank(cells, reg) = i]
                     ELSE 0]
        /\ mem' = c.mem
        /\ base' = IF Inlined = {} THEN "none" ELSE c.base
        /\ mem_base' = IF Inlined = {} THEN "none" ELSE c.mem_base
        /\ sem' = IF Inlined = {} THEN Nothing ELSE KnownOf(c)
        /\ inline' = c.inline
        /\ frames' = c.frames
        /\ asserts' = c.asserts
        /\ Len(Content(FALSE))' <= Limits.wst /\ Len(Content(TRUE))' <= Limits.rst
        /\ Len(sem'[FALSE]) <= Limits.wst /\ Len(sem'[TRUE]) <= Limits.rst
        /\ UNCHANGED program

(* Programs do not pop more than they pushed, and a failed assertion is    *)
(* the end of the process.                                                 *)
Ready(o) ==
    /\ asserts = {}
    /\ inline = "skip" \/ Len(Content(o.ret)) >= Depth(o)
    /\ inline # "no" => o \in Inlined

next_opcode(o, in) == Ready(o) /\ \E c \in Translate(o, in) : Commit(c)

Next == \E o \in Programs[program].ops : \E in \in Inputs(o) : next_opcode(o, in)

Spec == Init /\ [][Next]_vars

-----------------------------------------------------------------------------
(* Types: at most CacheSize cells per cache, over operand registers.       *)
TypeOK ==
    /\ program \in Kinds
    /\ cache \in [BOOLEAN -> Seq(Cell)]
    /\ \A r \in BOOLEAN : Len(cache[r]) <= CacheSize
    /\ mem \in [BOOLEAN -> Seq(Byte)]
    /\ val \in [Regs -> 0..(Word - 1)]
    /\ {base, mem_base} \subseteq {"none", "ws", "rs", "memory", "device"}
    /\ sem \in [BOOLEAN -> Seq(BOOLEAN)]
    /\ inline \in {"no", "run", "skip"}
    /\ Len(frames) <= MaxFrames
    /\ asserts \subseteq {"Out of registers", "Releasing unused register",
                          "Pushing operand with unused register"}

(* No BUXN_JIT_ASSERT of the allocator fires: six operand registers are    *)
(* enough for the worst opcode (keep mode shadows, three operands and two  *)
(* halves of a split) whatever the caches hold, and reference counts match *)
(* the cells and operands that use a register.                             *)
NoAssert == asserts = {}

(* Cells that were written to memory lie below the ones that were not:     *)
(* stack_cache_retain drops from the bottom as many cells as are flushed,  *)
(* and would drop a pending push (and keep a stale one) if a flushed cell  *)
(* were above it.                                                          *)
FlushedPrefix ==
    \A r \in BOOLEAN : \A i, j \in DOMAIN cache[r] :
        i < j /\ cache[r][i].need_flush => cache[r][j].need_flush

=============================================================================
