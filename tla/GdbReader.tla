------------------------------ MODULE GdbReader ------------------------------
(***************************************************************************)
(* gdb/reader.c: what the plugin tells gdb about one block of code, as the *)
(* sequence of symbol tables it opens, each with the address ranges and    *)
(* the lines that were added to it before it was closed.                   *)
(*                                                                         *)
(* Native addresses count from the start of the block's own code.          *)
(***************************************************************************)
EXTENDS Integers, SequencesExt

(* gdb->symtab_open.                                                       *)
Opened(file, from) == [file |-> file, from |-> from, lines |-> <<>>]

(* line_mapping_add, block_open and symtab_close.                          *)
Closed(symtab, end) ==
    [file |-> symtab.file, from |-> symtab.from, end |-> end, lines |-> symtab.lines]

(* One range runs into the next.                                           *)
NextMapping_mut(acc, mapping) ==
    LET moved  == acc.symtab.file # mapping.file
        failed == moved /\ mapping.file \notin acc.names
        symtab == IF moved /\ ~failed THEN Opened(mapping.file, mapping.pc) ELSE acc.symtab
    IN  IF acc.failed THEN acc
        ELSE [closed |-> IF moved THEN Append(acc.closed, Closed(acc.symtab, mapping.pc))
                         ELSE acc.closed,
              symtab |-> [symtab EXCEPT !.lines = IF failed THEN <<>> ELSE Append(@, mapping)],
              names  |-> acc.names,
              failed |-> failed]

(* One turn of the loop over the mappings.  A mapping of another file ends *)
(* the current symbol table right before it.  When the name of that file   *)
(* cannot be read, the loop is left with the table that was just closed.   *)
NextMapping(acc, mapping) ==
    LET moved  == acc.symtab.file # mapping.file
        failed == moved /\ mapping.file \notin acc.names
        symtab == IF moved /\ ~failed THEN Opened(mapping.file, mapping.pc) ELSE acc.symtab
    IN  IF acc.failed THEN acc
        ELSE [closed |-> IF moved THEN Append(acc.closed, Closed(acc.symtab, mapping.pc - 1))
                         ELSE acc.closed,
              symtab |-> [symtab EXCEPT !.lines = IF failed THEN <<>> ELSE Append(@, mapping)],
              names  |-> acc.names,
              failed |-> failed]

(* buxn_jit_gdb_read.  ok says whether the mappings can be read from the   *)
(* target, and names has the files whose names can.  The first table is    *)
(* for the code before the first mapping: its file stands for none, as a   *)
(* previous_file of 0 does.  Whichever table the loop ends with gets the   *)
(* range up to the end of the code, and is closed.                         *)
gdb_read(info, ok, names) ==
    LET start == [closed |-> <<>>, symtab |-> Opened("uxn", 0), names |-> names, failed |-> FALSE]
        acc   == FoldLeft(NextMapping, start, IF ok THEN info.mappings ELSE <<>>)
    IN  Append(acc.closed, Closed(acc.symtab, info.size))
=============================================================================
