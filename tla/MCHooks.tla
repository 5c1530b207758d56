------------------------------ MODULE MCHooks ------------------------------
(* Two VMs in one process, one of them profiled.                           *)
EXTENDS Hooks

CONSTANTS v1, v2

Both == {v1, v2}
One  == {v1}

Symbol_(type, min, max, file) ==
    [type |-> type, addr_min |-> min, addr_max |-> max, file |-> file]

Code(min, max, file) == Symbol_("opcode", min, max, file)

(* A macro from another file in the middle, a label, and a gap.            *)
DebugFiles ==
    { <<>>,
      << Code(1, 1, "main"), Symbol_("label", 2, 2, "main"), Code(2, 2, "lib"),
         Code(3, 4, "main"), Code(6, 6, "lib") >> }

LabelMaps ==
    { << [addr |-> 2, named |-> TRUE], [addr |-> 0, named |-> TRUE],
         [addr |-> 1, named |-> TRUE], [addr |-> 3, named |-> FALSE] >> }
=============================================================================
