---------------------------- MODULE MCNativeCalls ----------------------------
(* Programs for the native call model: three addresses of code above a     *)
(* zero page of one.                                                       *)
EXTENDS NativeCalls

(* What may stand at each address, and where a jump there may lead.        *)
Row(names, targets) ==
    { <<n, t>> : n \in names \cap (Immediate \cup Rechecked), t \in targets }
        \cup { <<n, 0>> : n \in names \ (Immediate \cup Rechecked) }

Assemble(zero, first, second, last) ==
    { [op |-> [a \in Addr |-> p[a + 1][1]], to |-> [a \in Addr |-> p[a + 1][2]]] :
        p \in zero \X first \X second \X last }

SmallPrograms ==
    Assemble(Row({"BRK", "JMP2r"}, {}),
             Row({"JSI", "JSR"}, {0, 2, 3}),
             Row({"STA", "INC2r", "POP2r", "JCN", "JMP2r"}, {1, 3}),
             Row({"JMP2r", "JSI", "JMP", "JMI", "JCI", "BRK"}, {0, 1}))
=============================================================================
