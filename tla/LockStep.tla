------------------------------ MODULE LockStep ------------------------------
(***************************************************************************)
(* The translator and the interpreter run the same program, one opcode at  *)
(* a time, with the same literals, memory and device answers.  They agree  *)
(* when the deferred pushes and the memory of the first are the stacks of  *)
(* the second, and each opcode does the same to the outside.               *)
(***************************************************************************)
EXTENDS StackCache

VARIABLES
    stack,    \* the stacks of the interpreter
    effects   \* whether every effect on the outside was the interpreter's

Vm == INSTANCE UxnStack

bothVars == <<vars, stack, effects>>

BothInit == Init /\ Vm!Init /\ effects = TRUE

(* The same opcode in both.                                                *)
BothStep(o, in, c) ==
    /\ inline # "skip"
    /\ Vm!Step(o, in)
    /\ effects' = (effects /\ c.io = Vm!Effect(o, in))

(* An opcode that the translator branches around.  The interpreter is past *)
(* one byte: this opcode, without an immediate that follows it or another  *)
(* opcode that is translated in place after it.                            *)
SkipStep(o, c) ==
    /\ inline = "skip"
    /\ effects' = (effects /\ Immediate(o) = 0 /\ c.inline = "no")
    /\ UNCHANGED stack

(* c is what the translator makes of the opcode.                           *)
Advance(o, in, c) ==
    /\ Ready(o)
    /\ Commit(c)
    /\ BothStep(o, in, c) \/ SkipStep(o, c)

BothNext ==
    \E o \in Programs[program].ops : \E in \in Inputs(o) : \E c \in Translate(o, in) : Advance(o, in, c)

BothSpec == BothInit /\ [][BothNext]_bothVars

-----------------------------------------------------------------------------
(* "buxn_jit_execute is a drop-in replacement for buxn_vm_execute"         *)
(* (README.md:18): after every opcode both stacks, as a program would see  *)
(* them, and everything done to memory, devices and control flow are what  *)
(* the interpreter makes of the same program.                              *)
DropIn ==
    /\ \A r \in BOOLEAN : Content(r) = stack[r]
    /\ effects
=============================================================================
