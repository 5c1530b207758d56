---------------------------- MODULE AddrMapping ----------------------------
(***************************************************************************)
(* addr_mapping.h, and the copies of its users in gdb/hook.c and perf.c:   *)
(* which uxn address was compiled to where.  Mappings are recorded in      *)
(* chunks that are taken from a pool and go back to it when a block ends,  *)
(* and are then looked up in the symbols of the debug file.                *)
(***************************************************************************)
EXTENDS Integers, SequencesExt, FiniteSetsExt

CONSTANT ChunkSize   \* BUXN_JIT_MAPPING_CHUNK_SIZE

ASSUME ChunkSizeAssumption == ChunkSize \in Nat \ {0}

(***************************************************************************)
(* Chunks: all that were allocated, by their number, and the numbers that  *)
(* are linked at addr_mappings.first and at addr_mapping_chunk_pool.       *)
(***************************************************************************)
NoChunks == [chunk |-> <<>>, list |-> <<>>, pool |-> <<>>]

(* A chunk from the pool keeps the mappings of its last user.              *)
AddChunk_mut(h) ==
    IF h.pool = <<>>
    THEN [h EXCEPT !.chunk = Append(@, <<>>), !.list = Append(@, Len(h.chunk) + 1)]
    ELSE [h EXCEPT !.list = Append(@, Head(h.pool)), !.pool = Tail(@)]

(* The first chunk of the pool or, when there is none, a new one becomes   *)
(* the last of the list.                                                   *)
AddChunk(h) ==
    IF h.pool = <<>>
    THEN [h EXCEPT !.chunk = Append(@, <<>>), !.list = Append(@, Len(h.chunk) + 1)]
    ELSE [h EXCEPT !.chunk[Head(h.pool)] = <<>>, !.list = Append(@, Head(h.pool)),
                   !.pool = Tail(@)]

(* The body of jit_opcode in both hooks.                                   *)
Record(h, mapping) ==
    LET full == h.list = <<>> \/ Len(h.chunk[Last(h.list)]) = ChunkSize
        g    == IF full THEN AddChunk(h) ELSE h
    IN  [g EXCEPT !.chunk[Last(g.list)] = Append(@, mapping)]

(* The mappings, in the order in which end_block goes through them.        *)
Mappings(h) == FlattenSeq([i \in DOMAIN h.list |-> h.chunk[h.list[i]]])

(* Only the first chunk is put back.                                       *)
Recycle_mut(h) ==
    [h EXCEPT !.list = <<>>, !.pool = IF h.list = <<>> THEN @ ELSE <<Head(h.list)>> \o @]

(* The loop of end_block puts one chunk after the other on the pool.       *)
Recycle(h) == [h EXCEPT !.list = <<>>, !.pool = Reverse(h.list) \o @]

(* Each chunk is in the list or in the pool, once, and none has more       *)
(* mappings than it has room for.                                          *)
ChunkOwned(h) ==
    /\ IsInjective(h.list \o h.pool)
    /\ ToSet(h.list \o h.pool) = DOMAIN h.chunk
    /\ \A c \in DOMAIN h.chunk : Len(h.chunk[c]) <= ChunkSize

(***************************************************************************)
(* Symbols: sequences of records with type, addr_min, addr_max and file,   *)
(* counted from 0 as in the code.                                          *)
(***************************************************************************)
Sym(symtab, i) == symtab[i + 1]

Covers(sym, address) == sym.addr_min <= address /\ address <= sym.addr_max

(* One of the two loops of buxn_dbg_find_symbol: it ends at an opcode that *)
(* covers the address or is beyond it.                                     *)
Stop(symtab, address, from, end) ==
    LET stops == { i \in from..(end - 1) :
                     /\ Sym(symtab, i).type = "opcode"
                     /\ \/ Covers(Sym(symtab, i), address)
                        \/ Sym(symtab, i).addr_min > address }
    IN  IF stops = {} THEN end ELSE Min(stops)

(* The symbol is NULL, -1 here, unless the loop ended at one that covers.  *)
Found(symtab, address, i, end) ==
    IF i < end /\ Covers(Sym(symtab, i), address) THEN i ELSE -1

(* The second loop is left out.                                            *)
find_symbol_mut(symtab, address, hint) ==
    LET end   == Len(symtab)
        first == Stop(symtab, address, hint, end)
    IN  [symbol |-> Found(symtab, address, first, end), hint |-> first]

(* The symbol and the hint for the next search.                            *)
find_symbol(symtab, address, hint) ==
    LET end    == Len(symtab)
        first  == Stop(symtab, address, hint, end)
        second == Stop(symtab, address, 0, hint)
    IN  IF Found(symtab, address, first, end) # -1
        THEN [symbol |-> first, hint |-> first]
        ELSE [symbol |-> Found(symtab, address, second, hint), hint |-> second]

(* The symbols of a sequence of addresses, each search starting from where *)
(* the last one ended.                                                     *)
find_symbols(symtab, addresses) ==
    FoldLeft(LAMBDA acc, address :
                LET f == find_symbol(symtab, address, acc.hint)
                IN  [hint |-> f.hint, symbols |-> Append(acc.symbols, f.symbol)],
             [hint |-> 0, symbols |-> <<>>], addresses).symbols
=============================================================================
