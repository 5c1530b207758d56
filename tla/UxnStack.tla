------------------------------- MODULE UxnStack -------------------------------
(***************************************************************************)
(* The uxn stack machine as the interpreter runs it: buxn_vm_execute, the  *)
(* function that buxn_jit_execute says it replaces.  The interpreter is a  *)
(* dependency of the repository; what it does to the two stacks and to the *)
(* outside is stated here from how the translator uses it.  One step is    *)
(* one opcode; a program never pops more than it has pushed.               *)
(***************************************************************************)
EXTENDS Opcodes

VARIABLE stack    \* stack[FALSE] is the working stack, stack[TRUE] the return stack

(* The i-th operand from the top.                                          *)
Arg(o, i) ==
    LET hi == Len(stack[o.ret]) - Total(SubSeq(Pops(o), 1, i - 1))
    IN  Number(SubSeq(stack[o.ret], hi - Pops(o)[i] + 1, hi))

Limit(o) == IF o.two THEN Base * Base ELSE Base

Relative(b) == (Signed(b) + Pc) % (Base * Base)

(* What the opcode leaves on its own stack in place of its operands; in is *)
(* the literal, the loaded value or the device's answer.                   *)
Result(o, in) ==
    LET x == Arg(o, 1)
        y == Arg(o, 2)
        z == Arg(o, 3)
        V(v) == Bytes(v % Limit(o), o.two)
    IN  CASE o.name = "INC" -> V(x + 1)
          [] o.name = "NIP" -> V(x)
          [] o.name = "SWP" -> V(x) \o V(y)
          [] o.name = "ROT" -> V(y) \o V(x) \o V(z)
          [] o.name = "DUP" -> V(x) \o V(x)
          [] o.name = "OVR" -> V(y) \o V(x) \o V(y)
          [] o.name = "EQU" -> Bytes(Flag(y = x), FALSE)
          [] o.name = "NEQ" -> Bytes(Flag(y # x), FALSE)
          [] o.name = "GTH" -> Bytes(Flag(y > x), FALSE)
          [] o.name = "LTH" -> Bytes(Flag(y < x), FALSE)
          [] o.name = "ADD" -> V(y + x)
          [] o.name = "SUB" -> V(y - x)
          [] o.name = "MUL" -> V(y * x)
          [] o.name = "DIV" -> IF x = 0 THEN V(0) ELSE V(y \div x)
          [] o.name = "AND" -> V(Bitwise2(BitAnd, y, x))
          [] o.name = "ORA" -> V(Bitwise2(BitOr, y, x))
          [] o.name = "EOR" -> V(Bitwise2(BitXor, y, x))
          [] o.name = "SFT" -> V((y \div 2 ^ (x % Nibble)) * 2 ^ (x \div Nibble))
          [] o.name \in {"LIT", "LDZ", "LDR", "LDA", "DEI"} -> V(in)
          [] OTHER -> <<>>

(* What the opcode pushes on the other stack.                              *)
Moved(o) ==
    CASE o.name = "STH" -> Bytes(Arg(o, 1), o.two)
      [] o.name \in {"JSR", "JSI"} -> Bytes(Pc, TRUE)
      [] OTHER -> <<>>

Kept(o) ==
    IF o.keep THEN stack[o.ret]
              ELSE SubSeq(stack[o.ret], 1, Len(stack[o.ret]) - Depth(o))

Target(o) == IF o.two THEN Arg(o, 1) ELSE Relative(Arg(o, 1))

(* What the opcode does outside the stacks.  Addresses come with the size  *)
(* of the space they wrap around in; a device sees both stacks as they are *)
(* once the operands are gone.                                             *)
Effect(o, in) ==
    LET visible == [stack EXCEPT ![o.ret] = Kept(o)]
        taken   == Arg(o, IF o.name = "JCN" THEN 2 ELSE 1) # 0
    IN  CASE o.name \in {"JMP", "JSR"} -> <<"jump", Target(o)>>
          [] o.name = "JCN" -> IF taken THEN <<"jump", Target(o)>> ELSE <<"next">>
          [] o.name = "JCI" -> IF taken THEN <<"jump", in>> ELSE <<"next">>
          [] o.name \in {"JMI", "JSI"} -> <<"jump", in>>
          [] o.name = "BRK" -> <<"halt">>
          [] o.name = "LDZ" -> <<"load", Arg(o, 1), Base>>
          [] o.name = "LDR" -> <<"load", Relative(Arg(o, 1)), Base * Base>>
          [] o.name = "LDA" -> <<"load", Arg(o, 1), Base * Base>>
          [] o.name = "STZ" -> <<"store", Arg(o, 1), Base, Bytes(Arg(o, 2), o.two)>>
          [] o.name = "STR" ->
                <<"store", Relative(Arg(o, 1)), Base * Base, Bytes(Arg(o, 2), o.two)>>
          [] o.name = "STA" ->
                <<"store", Arg(o, 1), Base * Base, Bytes(Arg(o, 2), o.two)>>
          [] o.name = "DEI" -> <<"dei", Arg(o, 1), visible>>
          [] o.name = "DEO" -> <<"deo", Arg(o, 1), Bytes(Arg(o, 2), o.two), visible>>
          [] OTHER -> <<"next">>

Init == stack = [r \in BOOLEAN |-> <<>>]

(* One iteration of the interpreter's loop.                                *)
Step(o, in) ==
    /\ Len(stack[o.ret]) >= Depth(o)
    /\ stack' = [stack EXCEPT ![o.ret] = Kept(o) \o Result(o, in),
                              ![~o.ret] = @ \o Moved(o)]

Next == \E o \in AllOpcodes : \E in \in Inputs(o) : Step(o, in)

Spec == Init /\ [][Next]_stack
=============================================================================
