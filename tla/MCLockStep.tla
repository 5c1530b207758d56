----------------------------- MODULE MCLockStep -----------------------------
(* Opcode sets for running the translator against the interpreter.         *)
EXTENDS LockStep

(* DUP and OVR leave one register in two cells; INC, LDR and STR write to  *)
(* the register they popped, as splitting a short or joining two bytes     *)
(* does.  A program with both is the subject of shared_register, so the    *)
(* passing runs have one or the other.                                     *)
Sharing == {"DUP", "OVR"}
InPlace == {"INC", "LDR", "STR"}
Calls   == {"JSR", "JSI"}
Shorts  == {"LDA", "STA"}

(* Handlers of the same shape as ADD, which lockstep_widths goes through.  *)
LikeAdd == {"SUB", "MUL", "DIV", "AND", "ORA", "EOR"}

Compares == {"EQU", "NEQ", "GTH", "LTH"}

(* A relative jump, which goes around the next opcode after a comparison.  *)
Relative(o) == ~o.two /\ o.name \in {"JMP", "JCN", "JSR"}

(* Byte opcodes on both stacks.                                            *)
ByteOps ==
    { o \in AllOpcodes :
        ~o.two /\ ~o.keep /\ o.name \notin InPlace \cup Shorts \cup Compares \cup LikeAdd }

(* Bytes and shorts mixed on the working stack.                            *)
WorkingOps ==
    { o \in AllOpcodes :
        ~o.ret /\ ~o.keep /\ o.name \notin Sharing \cup Calls \cup {"STH"} \cup Compares }

(* The same, with keep mode.                                               *)
KeepOps ==
    { o \in AllOpcodes :
        ~o.ret /\ ~Relative(o) /\ o.name \notin Sharing \cup Calls \cup {"STH"} }

(* Bytes and shorts on both stacks, moved between them.                    *)
BothStacksOps ==
    { o \in AllOpcodes :
        ~o.keep /\ o.name \notin Sharing \cup Calls \cup Shorts \cup Compares \cup LikeAdd
                              \cup {"SFT", "LDR", "STR"} }

ByteOp(n) == Op(n, FALSE, FALSE, FALSE)

(* #01 DUP INC                                                             *)
SharedRegisterOps == { ByteOp(n) : n \in {"LIT", "DUP", "INC", "BRK"} }

(* #01 #02 #03 #0405 STZ2k                                                 *)
StaleSplitOps ==
    { ByteOp("LIT"), Op("LIT", TRUE, FALSE, FALSE), Op("STZ", TRUE, TRUE, FALSE), ByteOp("BRK") }

(* Operands in memory while the other stack is cached.                     *)
WrongStackOps ==
    { ByteOp("LIT"), Op("LIT", FALSE, FALSE, TRUE), ByteOp("JMI"), ByteOp("ROT") }

(* A routine that consumes a comparison's result and leaves a number.      *)
StaleCallOps ==
    { ByteOp(n) : n \in {"LIT", "EQU", "JSI", "POP", "JMP", "BRK"} }
        \cup { Op("JMP", TRUE, FALSE, TRUE) }

(* Comparisons and jumps to their results.                                 *)
BranchOps ==
    { ByteOp(n) : n \in {"LIT", "EQU", "LTH", "JMP", "JSR", "JMI", "BRK", "POP", "SWP", "INC"} }
        \cup { Op("JMP", TRUE, FALSE, FALSE), Op("JMP", TRUE, FALSE, TRUE),
               Op("POP", FALSE, TRUE, FALSE) }

(* Opcodes that leave what the translator knows as it was.                 *)
NeutralOps == { ByteOp("BRK"), Op("POP", FALSE, TRUE, FALSE) }

(* A program that stops unless the comparison held.                        *)
BrkOps == { ByteOp("BRK") }

(* "Return unless": the jump goes around a JMP2r.                          *)
ReturnOps == { ByteOp("BRK"), Op("JMP", TRUE, FALSE, TRUE) }

(* The programs of each run.                                               *)
Widths ==
    [bytes   |-> [ops |-> ByteOps, wst |-> 3, rst |-> 2],
     working |-> [ops |-> WorkingOps, wst |-> 6, rst |-> 0],
     both    |-> [ops |-> BothStacksOps, wst |-> 3, rst |-> 3],
     keep    |-> [ops |-> KeepOps, wst |-> 4, rst |-> 0]]

Branches       == [branches |-> [ops |-> BranchOps, wst |-> 3, rst |-> 2]]
SharedRegister == [shared |-> [ops |-> SharedRegisterOps, wst |-> 3, rst |-> 0]]
StaleSplit     == [split |-> [ops |-> StaleSplitOps, wst |-> 5, rst |-> 0]]
WrongStack     == [wrong |-> [ops |-> WrongStackOps, wst |-> 4, rst |-> 4]]
StaleCall      == [call |-> [ops |-> StaleCallOps, wst |-> 3, rst |-> 2]]
=============================================================================
