------------------------------ MODULE LabelMap ------------------------------
(***************************************************************************)
(* label_map.h: the label that a block of code is named after.  A label    *)
(* has an address and may be anonymous; 0 is the NULL of the code.         *)
(***************************************************************************)
EXTENDS Naturals, SequencesExt

CONSTANT ZeroPage   \* addresses below are in the zero page

ASSUME ZeroPageAssumption == ZeroPage \in Nat \ {0}

(* The condition in the loop of buxn_pc_to_label.                          *)
Closer_mut(entry, pc, closest) ==
    /\ entry.addr >= ZeroPage
    /\ entry.named
    /\ entry.addr > (IF closest # <<>> THEN closest[1].addr ELSE 0)

Closer(entry, pc, closest) ==
    /\ entry.addr >= ZeroPage
    /\ entry.named
    /\ entry.addr <= pc
    /\ entry.addr > (IF closest # <<>> THEN closest[1].addr ELSE 0)

(* The closest entry, in a sequence of at most one.                        *)
pc_to_label(label_map, pc) ==
    FoldLeft(LAMBDA closest, entry : IF Closer(entry, pc, closest) THEN <<entry>> ELSE closest,
             <<>>, label_map)
=============================================================================
