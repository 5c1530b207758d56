---------------------------- MODULE MCStackCache ----------------------------
(* Opcode sets for the runs about registers and cells.                     *)
EXTENDS StackCache

(* Every opcode on the working stack, and literals on the return stack.    *)
(* Relative jumps take their operand as the others do.                     *)
WorkingStackOps ==
    { o \in AllOpcodes :
        /\ ~o.ret \/ o.name = "LIT"
        /\ o.name \notin {"DUP", "OVR"}
        /\ o.two \/ o.name \notin {"JMP", "JCN", "JSR"} }

(* The opcode that holds the most registers, with room for its results:    *)
(* two shadow pointers, two operands and both halves of a third.           *)
RotationOps ==
    { o \in AllOpcodes :
        /\ ~o.ret
        /\ \/ o.name = "LIT"
           \/ o.name = "POP" /\ ~o.keep
           \/ o.name = "ROT" /\ o.two /\ o.keep }

WorkingStack ==
    [working  |-> [ops |-> WorkingStackOps, wst |-> 8, rst |-> 4],
     rotation |-> [ops |-> RotationOps, wst |-> 12, rst |-> 0]]
=============================================================================
