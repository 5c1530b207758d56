----------------------------- MODULE NativeCalls -----------------------------
(***************************************************************************)
(* buxn_jit_execute: compiled blocks that jump to and call each other, the *)
(* trampoline under them, and the interpreter for the zero page.           *)
(*                                                                         *)
(* A call whose target was known when its block was compiled is a call of  *)
(* native code, and leaves a native frame that waits for its return        *)
(* address.  All other transfers of control leave the native code with the *)
(* uxn address in R0: a frame that waits for this address takes it up, any *)
(* other passes it on, down to the trampoline.                             *)
(*                                                                         *)
(* The variable pc is the uxn address that native code is at, the content  *)
(* of R0 while frames return, or the interpreter's own.  buxn_jit is one   *)
(* step here: CompileQueue shows that on return a block can be run with    *)
(* everything it jumps to.                                                 *)
(***************************************************************************)
EXTENDS UxnControl

CONSTANT MaxDrops   \* bound: return addresses dropped before native code is left

ASSUME MaxDropsAssumption == MaxDrops \in Nat

VARIABLES
    code,    \* the blocks with code, each with the memory it was compiled from
    mode,    \* what runs: the host, native code, a return from it, or the interpreter
    block,   \* the block that native code is in
    frames,  \* the native frames above the trampoline: who waits for which address
    drops    \* history: return addresses that native code dropped above the trampoline

vars == <<op, to, pc, rst, code, mode, block, frames, drops>>

Frame == [block : Addr, ret : Addr]

(* The addresses compiled into a block: up to the opcode that finalizes it *)
(* or the end of memory, where pc wraps around to the zero page.           *)
Final == Jumps \cup {"BRK", "JMP2r"}

Extent(b) == { a \in b..Top : b >= Zero /\ \A x \in b..(a - 1) : op[x] \notin Final }

(* The blocks it jumps to or calls.                                        *)
Targets(b) == { to[a] : a \in { x \in Extent(b) : op[x] \in Immediate \cup Rechecked } }

Complete(S) == \A b \in S \ DOMAIN code : Targets(b) \subseteq S

(* Only the block itself.                                                  *)
Closure_mut(b) == {b}

Closure(b) == { a \in Addr : \A S \in SUBSET Addr : b \in S /\ Complete(S) => a \in S }

(* buxn_jit: the block and all it reaches, unless they have code.          *)
buxn_jit(b) ==
    code' = [a \in DOMAIN code \cup Closure(b) |-> IF a \in DOMAIN code THEN code[a] ELSE to]

Init ==
    /\ VmInit
    /\ code = <<>>
    /\ mode = "idle"
    /\ block = 0
    /\ frames = <<>>
    /\ drops = 0

-----------------------------------------------------------------------------
(* The jump target as the block knows it.                                  *)
const_value == code[block][pc]

(* Whether the static jump is taken.  A literal is compared with what is   *)
(* in memory now, an immediate target is not.                              *)
Assumed_mut == TRUE

Assumed == op[pc] \in Immediate \/ to[pc] = const_value

Native(b, a) == mode' = "native" /\ block' = b /\ pc' = a

(* sljit_emit_return.                                                      *)
Leave(a) == mode' = "return" /\ pc' = a /\ UNCHANGED block

(* A jump enters the target by its head, which makes a frame.              *)
jump_abs_mut ==
    IF Assumed
    THEN Native(const_value, const_value) /\ frames' = Append(frames, [block |-> block, ret |-> 0])
    ELSE Leave(to[pc]) /\ UNCHANGED frames

(* jump_abs without a return address.                                      *)
jump_abs ==
    /\ IF Assumed THEN Native(const_value, const_value) ELSE Leave(to[pc])
    /\ UNCHANGED frames

(* jump_abs with one, for which 0 stands for none.                         *)
call_abs(return_addr) ==
    IF return_addr # 0 /\ Assumed
    THEN /\ Native(const_value, const_value)
         /\ frames' = Append(frames, [block |-> block, ret |-> return_addr])
    ELSE jump_abs

(* Opcodes in native code.                                                 *)
InNative(names) == mode = "native" /\ pc >= Zero /\ op[pc] \in names

BRK == InNative({"BRK"}) /\ Leave(Brk) /\ UNCHANGED <<op, to, rst, code, frames, drops>>

Jump == InNative(Jumps) /\ jump_abs /\ UNCHANGED <<op, to, rst, code, drops>>

Branch ==
    /\ InNative(Branches)
    /\ jump_abs \/ (Native(block, After(pc)) /\ UNCHANGED frames)
    /\ UNCHANGED <<op, to, rst, code, drops>>

Call ==
    /\ InNative(Calls)
    /\ Len(rst) < MaxRst
    /\ rst' = Append(rst, After(pc))
    /\ call_abs(After(pc))
    /\ UNCHANGED <<op, to, code, drops>>

Return ==
    /\ InNative({"JMP2r"})
    /\ rst # <<>>
    /\ rst' = Front(rst)
    /\ Leave(rst[Len(rst)])
    /\ UNCHANGED <<op, to, code, frames, drops>>

Drop ==
    /\ InNative({"POP2r"})
    /\ rst # <<>>
    /\ drops < MaxDrops
    /\ drops' = drops + 1
    /\ rst' = Front(rst)
    /\ Native(block, After(pc))
    /\ UNCHANGED <<op, to, code, frames>>

Adjust ==
    /\ InNative({"INC2r"})
    /\ rst # <<>>
    /\ rst' = [rst EXCEPT ![Len(rst)] = After(@)]
    /\ Native(block, After(pc))
    /\ UNCHANGED <<op, to, code, frames, drops>>

Store ==
    /\ InNative({"STA"})
    /\ \E a \in Addr, t \in Addr :
          op[a] \in Rechecked /\ to' = [to EXCEPT ![a] = t]
    /\ Native(block, After(pc))
    /\ UNCHANGED <<op, rst, code, frames, drops>>

(* next_opcode in the zero page.                                           *)
ZeroPage ==
    /\ mode = "native"
    /\ pc < Zero
    /\ Leave(pc)
    /\ UNCHANGED <<op, to, rst, code, frames, drops>>

(* The caller goes on where it expected to.                                *)
Resume ==
    /\ mode = "return"
    /\ frames # <<>>
    /\ pc = frames[Len(frames)].ret
    /\ Native(frames[Len(frames)].block, pc)
    /\ frames' = Front(frames)
    /\ UNCHANGED <<op, to, rst, code, drops>>

(* Each frame returns to itself.                                           *)
PassOn_mut ==
    /\ mode = "return"
    /\ frames # <<>>
    /\ pc # frames[Len(frames)].ret
    /\ UNCHANGED vars

(* "If the return address is not as expected, trampoline" (jit.c:1281).    *)
PassOn ==
    /\ mode = "return"
    /\ frames # <<>>
    /\ pc # frames[Len(frames)].ret
    /\ frames' = Front(frames)
    /\ UNCHANGED <<op, to, pc, rst, code, mode, block, drops>>

(* The trampoline, and buxn_jit_execute after it.                          *)
AtTrampoline == mode = "return" /\ frames = <<>>

Finish ==
    /\ AtTrampoline
    /\ drops' = 0
    /\ pc = Brk
    /\ mode' = "idle"
    /\ UNCHANGED <<op, to, pc, rst, code, block, frames>>

Bounce ==
    /\ AtTrampoline
    /\ drops' = 0
    /\ pc < Zero
    /\ mode' = "interpret"
    /\ UNCHANGED <<op, to, pc, rst, code, block, frames>>

translate_jump_addr ==
    /\ AtTrampoline
    /\ drops' = 0
    /\ pc \in Zero..Top
    /\ buxn_jit(pc)
    /\ Native(pc, pc)
    /\ UNCHANGED <<op, to, rst, frames>>

(* buxn_vm_execute runs on, in the zero page or not, until a BRK.          *)
Interpret ==
    /\ mode = "interpret"
    /\ VmStep
    /\ mode' = IF pc' = Brk THEN "idle" ELSE "interpret"
    /\ UNCHANGED <<code, block, frames, drops>>

execute(a) ==
    /\ mode = "idle"
    /\ buxn_jit(a)
    /\ Native(a, a)
    /\ UNCHANGED <<op, to, rst, frames, drops>>

Unwind == Resume \/ PassOn \/ Finish \/ Bounce \/ translate_jump_addr

Next ==
    \/ \E a \in Addr : execute(a)
    \/ BRK \/ Jump \/ Branch \/ Call \/ Return \/ Drop \/ Adjust \/ Store \/ ZeroPage
    \/ Unwind
    \/ Interpret

Spec == Init /\ [][Next]_vars

(* Returning from native code is not waiting for anything.                 *)
FairSpec == Spec /\ WF_vars(Unwind)

-----------------------------------------------------------------------------
(* Types.  Native code is only ever in a block that has code, and frames   *)
(* wait in one: no jump or call of a block leads to one that was not       *)
(* compiled with it.                                                       *)
TypeOK ==
    /\ op \in [Addr -> Opcode]
    /\ to \in [Addr -> Addr]
    /\ pc \in Addr \cup {Brk}
    /\ rst \in Seq(Addr)
    /\ DOMAIN code \subseteq Addr /\ \A b \in DOMAIN code : code[b] \in [Addr -> Addr]
    /\ mode \in {"idle", "native", "return", "interpret"}
    /\ mode = "native" => block \in DOMAIN code /\ pc # Brk
    /\ block \in Addr
    /\ frames \in Seq(Frame)
    /\ \A i \in DOMAIN frames : frames[i].block \in DOMAIN code
    /\ drops \in 0..MaxDrops

(* The native stack is no deeper than the return stack of the program,     *)
(* apart from one frame for every return address that was dropped instead  *)
(* of returned to: tail jumps, computed jumps and returns to unexpected    *)
(* places leave no frame behind.                                           *)
NativeDepth ==
    /\ mode = "native" => Len(frames) <= Len(rst) + drops
    /\ mode = "return" => Len(frames) <= Len(rst) + drops + 1
    /\ mode \in {"idle", "interpret"} => frames = <<>>

(* "buxn_jit_execute is a drop-in replacement for buxn_vm_execute"         *)
(* (README.md:18): control goes where the interpreter would take it,       *)
(* through literals rewritten after they were compiled in, return          *)
(* addresses that were changed, calls at the very end of memory and        *)
(* detours through the zero page.                                          *)
Interpreter == VmSpec

(* From any depth of native calls, a BRK gets back to the host and a jump  *)
(* to the zero page to the interpreter.                                    *)
Unwinds ==
    /\ pc = Brk ~> mode = "idle"
    /\ (mode = "return" /\ pc < Zero) ~> mode = "interpret"
=============================================================================
