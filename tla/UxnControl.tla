----------------------------- MODULE UxnControl -----------------------------
(***************************************************************************)
(* What buxn_vm_execute does to the program counter and the return stack,  *)
(* one opcode at a time.  The interpreter is another repository's; this is *)
(* what buxn_jit_execute has to reproduce.                                 *)
(*                                                                         *)
(* Every opcode takes one address, and a jump carries its target.  JMI,    *)
(* JCI and JSI have it as an immediate; JMP, JCN and JSR stand for the     *)
(* opcode with the LIT2 before it, whose literal the program may rewrite.  *)
(* The other opcodes are JMP2r, POP2r, INC2r (a routine that skips data    *)
(* after its call) and STA (a store into a literal).                       *)
(***************************************************************************)
EXTENDS Naturals, Sequences

CONSTANTS
    Top,       \* the last address, 0xffff
    Zero,      \* BUXN_RESET_VECTOR: the addresses below are the zero page
    Programs,  \* the contents of memory to start with
    MaxRst     \* bound: addresses on the return stack

ASSUME TopAssumption == Top \in Nat /\ Zero \in 1..Top
ASSUME MaxRstAssumption == MaxRst \in Nat

Addr == 0..Top

(* The program counter of a machine that does not run.                     *)
Brk == Top + 1

Immediate == {"JMI", "JCI", "JSI"}
Rechecked == {"JMP", "JCN", "JSR"}
Jumps     == {"JMI", "JMP"}
Branches  == {"JCI", "JCN"}
Calls     == {"JSI", "JSR"}
Opcode    == Immediate \cup Rechecked \cup {"BRK", "JMP2r", "POP2r", "INC2r", "STA"}

ASSUME ProgramsAssumption == Programs \subseteq [op : [Addr -> Opcode], to : [Addr -> Addr]]

VARIABLES
    op,   \* the opcodes in memory
    to,   \* the jump targets in memory
    pc,   \* the program counter
    rst   \* the addresses on the return stack

vmVars == <<op, to, pc, rst>>

After(a) == (a + 1) % (Top + 1)

Front(s) == SubSeq(s, 1, Len(s) - 1)

VmInit ==
    /\ \E p \in Programs : op = p.op /\ to = p.to
    /\ pc = Brk
    /\ rst = <<>>

(* The host starts a vector.                                               *)
VmStart == pc = Brk /\ pc' \in Addr /\ UNCHANGED <<op, to, rst>>

VmBreak == op[pc] = "BRK" /\ pc' = Brk /\ UNCHANGED <<op, to, rst>>

VmJump == op[pc] \in Jumps /\ pc' = to[pc] /\ UNCHANGED <<op, to, rst>>

VmBranch == op[pc] \in Branches /\ pc' \in {to[pc], After(pc)} /\ UNCHANGED <<op, to, rst>>

VmCall ==
    /\ op[pc] \in Calls
    /\ Len(rst) < MaxRst
    /\ pc' = to[pc]
    /\ rst' = Append(rst, After(pc))
    /\ UNCHANGED <<op, to>>

VmReturn ==
    /\ op[pc] = "JMP2r"
    /\ rst # <<>>
    /\ pc' = rst[Len(rst)]
    /\ rst' = Front(rst)
    /\ UNCHANGED <<op, to>>

VmDrop ==
    /\ op[pc] = "POP2r"
    /\ rst # <<>>
    /\ pc' = After(pc)
    /\ rst' = Front(rst)
    /\ UNCHANGED <<op, to>>

VmAdjust ==
    /\ op[pc] = "INC2r"
    /\ rst # <<>>
    /\ pc' = After(pc)
    /\ rst' = [rst EXCEPT ![Len(rst)] = After(@)]
    /\ UNCHANGED <<op, to>>

(* Only literals are rewritten: "Immediate jump target should not be       *)
(* rewritten using door" (jit.c:1538).                                     *)
VmStore ==
    /\ op[pc] = "STA"
    /\ \E a \in Addr, t \in Addr :
          op[a] \in Rechecked /\ to' = [to EXCEPT ![a] = t]
    /\ pc' = After(pc)
    /\ UNCHANGED <<op, rst>>

VmStep ==
    /\ pc # Brk
    /\ \/ VmBreak \/ VmJump \/ VmBranch \/ VmCall \/ VmReturn \/ VmDrop \/ VmAdjust \/ VmStore

VmSpec == VmInit /\ [][VmStart \/ VmStep]_vmVars
=============================================================================
