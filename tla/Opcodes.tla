------------------------------- MODULE Opcodes -------------------------------
(***************************************************************************)
(* The uxn instruction set, as far as the stacks are concerned: what an    *)
(* opcode is, how many bytes it takes and what it reads from outside.      *)
(* Shared by the model of the interpreter (UxnStack) and the model of the  *)
(* translator (StackCache).                                                *)
(*                                                                         *)
(* Bytes have Base values (256 in the code) and shorts Base * Base, so     *)
(* that small instances keep the relation between the two widths.          *)
(***************************************************************************)
EXTENDS Integers, SequencesExt, FiniteSetsExt

CONSTANTS
    Base,    \* number of values of a byte
    Nibble,  \* number of values of the low nibble, SFT's right shift
    Pc       \* the value of ctx->pc after the opcode was fetched

ASSUME BaseAssumption == Base \in Nat \ {0} /\ Nibble \in 1..Base
ASSUME PcAssumption == Pc \in 0..(Base * Base - 1)

Byte  == 0..(Base - 1)
Short == 0..(Base * Base - 1)

(* An opcode byte: its name and its mode flags.  LIT is BRK with the keep   *)
(* bit and JCI, JMI, JSI are BRK with the others, so op_flag_2/k/r mask     *)
(* these bits out: the records below carry the masked flags.                *)
Op(n, two, keep, ret) == [name |-> n, two |-> two, keep |-> keep, ret |-> ret]

ModalNames == {"INC", "POP", "NIP", "SWP", "ROT", "DUP", "OVR",
               "EQU", "NEQ", "GTH", "LTH", "JMP", "JCN", "JSR", "STH",
               "LDZ", "STZ", "LDR", "STR", "LDA", "STA", "DEI", "DEO",
               "ADD", "SUB", "MUL", "DIV", "AND", "ORA", "EOR", "SFT"}

AllOpcodes ==
    [name : ModalNames, two : BOOLEAN, keep : BOOLEAN, ret : BOOLEAN]
    \cup [name : {"LIT"}, two : BOOLEAN, keep : {FALSE}, ret : BOOLEAN]
    \cup [name : {"BRK", "JCI", "JMI", "JSI"}, two : {FALSE}, keep : {FALSE}, ret : {FALSE}]

(* Width in bytes of an operand that follows the short flag.               *)
Width(o) == IF o.two THEN 2 ELSE 1

(* The widths of the operands an opcode pops, topmost first.               *)
Pops(o) ==
    LET w == Width(o) IN
    CASE o.name \in {"INC", "POP", "DUP", "JMP", "JSR", "STH"} -> <<w>>
      [] o.name \in {"NIP", "SWP", "OVR", "EQU", "NEQ", "GTH", "LTH", "ADD",
                     "SUB", "MUL", "DIV", "AND", "ORA", "EOR"} -> <<w, w>>
      [] o.name = "ROT" -> <<w, w, w>>
      [] o.name = "JCN" -> <<w, 1>>
      [] o.name \in {"LDZ", "LDR", "DEI", "JCI"} -> <<1>>
      [] o.name \in {"STZ", "STR", "DEO", "SFT"} -> <<1, w>>
      [] o.name = "LDA" -> <<2>>
      [] o.name = "STA" -> <<2, w>>
      [] OTHER -> <<>>

Total(ws) == FoldSeq(LAMBDA w, n : w + n, 0, ws)

(* Bytes an opcode needs on its stack.                                     *)
Depth(o) == Total(Pops(o))

(* What an opcode may read from outside the stacks: the literal or the     *)
(* jump target after it, the loaded value or the device's answer.          *)
Inputs(o) ==
    CASE o.name \in {"JCI", "JMI", "JSI"} -> Short
      [] o.name \in {"LIT", "LDZ", "LDR", "LDA", "DEI"} ->
            IF o.two THEN Short ELSE Byte
      [] OTHER -> {0}

(* Bytes of the literal or of the jump target that follows the opcode.     *)
Immediate(o) ==
    CASE o.name \in {"JCI", "JMI", "JSI"} -> 2
      [] o.name = "LIT" -> Width(o)
      [] OTHER -> 0

Bytes(v, short) ==
    IF short THEN << (v \div Base) % Base, v % Base >> ELSE << v % Base >>

Number(bytes) == FoldLeft(LAMBDA n, b : n * Base + b, 0, bytes)

(* The two's complement reading of a byte (MOV_S8).                        *)
Signed(b) == IF 2 * (b % Base) >= Base THEN (b % Base) - Base ELSE b % Base

(* The outcome of a comparison.                                           *)
Flag(p) == IF p THEN 1 % Base ELSE 0

Bit(v, i) == (v \div 2 ^ i) % 2

(* Operations on one bit.                                                  *)
BitAnd == [i \in 0..1 |-> [j \in 0..1 |-> i * j]]
BitOr  == [i \in 0..1 |-> [j \in 0..1 |-> i + j - i * j]]
BitXor == [i \in 0..1 |-> [j \in 0..1 |-> (i + j) % 2]]

(* The bits of a machine word.                                             *)
WordBits == Cardinality({ i \in 0..(4 * Base) : 2 ^ i < Base * Base * Base * Base })

(* A bitwise operation on words, from the operation on one bit.            *)
Bitwise2(f, a, b) ==
    FoldLeft(LAMBDA n, i : n + f[Bit(a, i - 1)][Bit(b, i - 1)] * 2 ^ (i - 1),
             0, [i \in 1..WordBits |-> i])
=============================================================================
