------------------------------- MODULE Hooks -------------------------------
(***************************************************************************)
(* The hooks that a VM calls while it compiles: the gdb hook and the perf  *)
(* hook under a composite hook, as cli.c sets them up.  Several VMs run in *)
(* threads of their own.  Their gdb hooks share the list of code entries   *)
(* and the descriptor through which gdb is told of changes, under a mutex; *)
(* all else belongs to one VM, its arena too, which the host takes back    *)
(* after it has cleaned up the hook.                                       *)
(*                                                                         *)
(* A block is the opcodes from its entry on.  The prologue is one byte of  *)
(* native code and every opcode two, of which a call is the first: what    *)
(* comes back from a call is checked by the code behind it.  A native      *)
(* address is an offset in the code of the block.                          *)
(***************************************************************************)
EXTENDS AddrMapping, GdbReader, LabelMap

CONSTANTS
    VM,          \* the VMs
    PerfVM,      \* the one with a perf hook
    None,        \* nobody
    Entries,     \* the addresses blocks start at
    CallOps,     \* the addresses with a JSI, JSR, DEI or DEO
    Symtabs,     \* the debug files to choose from
    Labels,      \* the label maps to choose from
    MaxBlocks,   \* bound: blocks of all VMs
    MaxOpcodes   \* bound: opcodes in one block

ASSUME NoneAssumption == None \notin VM
ASSUME EntriesAssumption == Entries \subseteq Nat
ASSUME LabelsAssumption == Labels \subseteq Seq([addr : Nat, named : BOOLEAN])

(* The files of a perf hook are named after the process: two of them would *)
(* write to the same file.                                                 *)
ASSUME PerfVMAssumption == PerfVM \subseteq VM /\ \A u, v \in PerfVM : u = v

(* The opcodes in a debug file are in order and do not overlap: otherwise  *)
(* buxn_dbg_find_symbol could not stop at the first one beyond an address. *)
ASSUME SymtabsAssumption ==
    \A st \in Symtabs :
        /\ st \in Seq(ToSet(st))
        /\ \A i \in DOMAIN st : /\ st[i].addr_min \in Nat /\ st[i].addr_max \in Nat
                                /\ st[i].addr_min <= st[i].addr_max
        /\ \A i, j \in DOMAIN st :
              i < j /\ st[i].type = "opcode" /\ st[j].type = "opcode"
                 => st[i].addr_max < st[j].addr_min

VARIABLES
    symtab, label_map,  \* the configuration of the hooks
    vm,                 \* each VM: where it is, its block and its hooks' data
    entries,            \* the gdb_info_blocks ever made, with their links
    first_entry, action_flag, relevant_entry,  \* __jit_debug_descriptor
    mtx,                \* who holds buxn_jit_gdb_hook_mtx
    gdb,                \* the code entries that gdb was told of
    in_order,           \* history: nobody was cleaned up who had registered last
    stray,              \* freed memory was written: undefined behaviour
    dump                \* the records in the dump file of each VM

config  == <<symtab, label_map>>
shared  == <<entries, first_entry, action_flag, relevant_entry, mtx, gdb,
             in_order, stray>>
vars    == <<config, vm, shared, dump>>

Init ==
    /\ symtab \in Symtabs
    /\ label_map \in Labels
    /\ \E dumping \in SUBSET PerfVM :
          vm = [v \in VM |-> [at |-> "idle", entry |-> 0, num |-> 0, blocks |-> <<>>,
                              gdb |-> NoChunks, perf |-> NoChunks, todo |-> <<>>,
                              dump_file |-> v \in dumping, code_index |-> 0]]
    /\ entries = <<>>
    /\ first_entry = 0
    /\ action_flag = "none"
    /\ relevant_entry = 0
    /\ mtx = None
    /\ gdb = {}
    /\ in_order = TRUE
    /\ stray = FALSE
    /\ dump = [v \in VM |-> <<>>]

(***************************************************************************)
(* Compiling a block.                                                      *)
(***************************************************************************)
(* Neither hook has a begin_block.                                         *)
begin_block(v, entry) ==
    /\ vm[v].at = "idle"
    /\ Len(entries) + Cardinality({ u \in VM : vm[u].at = "block" }) < MaxBlocks
    /\ vm' = [vm EXCEPT ![v].at = "block", ![v].entry = entry, ![v].num = 0]
    /\ UNCHANGED <<config, shared, dump>>

(* Without symbols, jit_opcode is not hooked.  The gdb hook only wants the *)
(* entry and opcodes that call.                                            *)
Wanted(v, pc) == symtab # <<>> /\ (pc = vm[v].entry \/ pc \in CallOps)

Profiled(v) == symtab # <<>> /\ v \in PerfVM

(* The composite hook calls one hook after the other; both take the label  *)
(* of the same native address as their mark.  Code that the debug file has *)
(* no symbol for is not considered: end_block would follow a NULL pointer. *)
jit_opcode(v) ==
    LET pc      == vm[v].entry + vm[v].num
        mapping == [addr |-> pc, mark |-> vm[v].num + 1]
    IN  /\ vm[v].at = "block"
        /\ vm[v].entry >= ZeroPage
        /\ vm[v].num < MaxOpcodes
        /\ symtab # <<>> => \E sym \in ToSet(symtab) : sym.type = "opcode" /\ Covers(sym, pc)
        /\ vm' = [vm EXCEPT ![v].num = @ + 1,
                            ![v].gdb = IF Wanted(v, pc) THEN Record(@, mapping) ELSE @,
                            ![v].perf = IF Profiled(v) THEN Record(@, mapping) ELSE @]
        /\ UNCHANGED <<config, shared, dump>>

(* buxn_jit_hook_resolve_addr.                                             *)
resolve_addr(mark) == 2 * mark - 1

(* What both hooks make of the mappings they recorded.                     *)
Lines(h) ==
    LET m == Mappings(h)
        s == find_symbols(symtab, [i \in DOMAIN m |-> m[i].addr])
    IN  [i \in DOMAIN m |-> [pc |-> resolve_addr(m[i].mark), line |-> s[i],
                             file |-> Sym(symtab, s[i]).file]]

(* gdb_end_block up to the lock.                                           *)
gdb_end_block(v) ==
    LET info == [addr |-> vm[v].entry, size |-> 2 * vm[v].num + 1,
                 name |-> pc_to_label(label_map, vm[v].entry), mappings |-> Lines(vm[v].gdb)]
    IN  /\ vm[v].at = "block"
        /\ vm[v].num > 0 \/ vm[v].entry < ZeroPage
        /\ entries' = Append(entries, [info |-> info, next |-> 0, prev |-> 0])
        /\ vm' = [vm EXCEPT ![v].at = "ended", ![v].gdb = Recycle(@),
                            ![v].blocks = <<Len(entries) + 1>> \o @]
        /\ UNCHANGED <<config, first_entry, action_flag, relevant_entry, mtx, gdb, in_order, stray,
                       dump>>

(* The memory that was given back.                                         *)
Freed == UNION { ToSet(vm[v].blocks) : v \in { u \in VM : vm[u].at = "freed" } }

(* The entry is linked without waiting for the mutex.                      *)
Register_mut(v) ==
    LET e == Head(vm[v].blocks)
    IN  /\ vm[v].at = "ended"
        /\ first_entry \notin Freed
        /\ mtx' = v
        /\ entries' = [i \in DOMAIN entries |->
              CASE i = e -> [entries[i] EXCEPT !.next = first_entry]
                [] i = first_entry -> [entries[i] EXCEPT !.prev = e]
                [] OTHER -> entries[i]]
        /\ first_entry' = e
        /\ action_flag' = "register"
        /\ relevant_entry' = e
        /\ vm' = [vm EXCEPT ![v].at = "registered"]
        /\ UNCHANGED <<config, gdb, in_order, stray, dump>>

(* From the lock to the call of __jit_debug_register_code.                 *)
Register(v) ==
    LET e == Head(vm[v].blocks)
    IN  /\ vm[v].at = "ended"
        /\ mtx = None
        /\ first_entry \notin Freed
        /\ mtx' = v
        /\ entries' = [i \in DOMAIN entries |->
              CASE i = e -> [entries[i] EXCEPT !.next = first_entry]
                [] i = first_entry -> [entries[i] EXCEPT !.prev = e]
                [] OTHER -> entries[i]]
        /\ first_entry' = e
        /\ action_flag' = "register"
        /\ relevant_entry' = e
        /\ vm' = [vm EXCEPT ![v].at = "registered"]
        /\ UNCHANGED <<config, gdb, in_order, stray, dump>>

(* gdb has a breakpoint in __jit_debug_register_code and looks at the      *)
(* entry that the descriptor names.                                        *)
Told(flag, e) == IF flag = "register" THEN gdb \cup {e} ELSE gdb \ {e}

(* The rest of gdb_end_block.                                              *)
Notify(v) ==
    /\ vm[v].at = "registered"
    /\ gdb' = Told(action_flag, relevant_entry)
    /\ action_flag' = "none"
    /\ mtx' = None
    /\ vm' = [vm EXCEPT ![v].at = "told"]
    /\ UNCHANGED <<config, entries, first_entry, relevant_entry, in_order, stray, dump>>

(* The code is announced before its lines.                                 *)
DumpRecords_mut(v) ==
    LET lines == Lines(vm[v].perf)
    IN  <<[id |-> "load", block |-> Head(vm[v].blocks), index |-> vm[v].code_index,
           lines |-> <<>>]>>
        \o (IF lines = <<>> THEN <<>>
            ELSE <<[id |-> "debug_info", block |-> Head(vm[v].blocks), index |-> 0,
                    lines |-> lines]>>)

(* perf_end_block for a VM that has a dump file.  The numbers of entries   *)
(* and of bytes are written before the entries are.                        *)
DumpRecords(v) ==
    LET lines == Lines(vm[v].perf)
    IN  (IF lines = <<>> THEN <<>>
         ELSE <<[id |-> "debug_info", block |-> Head(vm[v].blocks), index |-> 0, lines |-> lines]>>)
        \o <<[id |-> "load", block |-> Head(vm[v].blocks), index |-> vm[v].code_index,
              lines |-> <<>>]>>

(* The second part of the composite hook's end_block.                      *)
perf_end_block(v) ==
    LET dumps == v \in PerfVM /\ vm[v].dump_file
    IN  /\ vm[v].at = "told"
        /\ dump' = [dump EXCEPT ![v] = IF dumps THEN @ \o DumpRecords(v) ELSE @]
        /\ vm' = [vm EXCEPT ![v].at = "idle",
                            ![v].code_index = IF dumps THEN @ + 1 ELSE @,
                            ![v].perf = IF dumps THEN Recycle(@) ELSE @]
        /\ UNCHANGED <<config, shared>>

(***************************************************************************)
(* buxn_jit_cleanup_gdb_hook, after buxn_jit_cleanup.                      *)
(***************************************************************************)
Lock(v) ==
    /\ vm[v].at = "idle"
    /\ mtx = None
    /\ mtx' = v
    /\ action_flag' = "unregister"
    /\ in_order' = (in_order /\ first_entry \notin ToSet(vm[v].blocks))
    /\ vm' = [vm EXCEPT ![v].at = "cleanup", ![v].todo = vm[v].blocks]
    /\ UNCHANGED <<config, entries, first_entry, relevant_entry, gdb, stray, dump>>

(* The entry before is not linked to the one after.                        *)
Unlinked_mut(e) ==
    [i \in DOMAIN entries |->
        [entries[i] EXCEPT !.prev = IF i = entries[e].next THEN entries[e].prev ELSE @,
                           !.next = IF i = entries[e].prev THEN 0 ELSE @]]

(* One turn of its loop.                                                   *)
Unlinked(e) ==
    [i \in DOMAIN entries |->
        [entries[i] EXCEPT !.prev = IF i = entries[e].next THEN entries[e].prev ELSE @,
                           !.next = IF i = entries[e].prev THEN entries[e].next ELSE @]]

Unregister(v) ==
    LET e == Head(vm[v].todo)
    IN  /\ vm[v].at = "cleanup"
        /\ vm[v].todo # <<>>
        /\ {entries[e].next, entries[e].prev} \cap Freed = {}
        /\ entries' = Unlinked(e)
        /\ relevant_entry' = e
        /\ gdb' = Told(action_flag, e)
        /\ vm' = [vm EXCEPT ![v].todo = Tail(@)]
        /\ UNCHANGED <<config, first_entry, action_flag, mtx, in_order, stray, dump>>

(* The mutex is kept.                                                      *)
Unlock_mut(v) ==
    /\ vm[v].at = "cleanup"
    /\ vm[v].todo = <<>>
    /\ action_flag' = "none"
    /\ vm' = [vm EXCEPT ![v].at = "done"]
    /\ UNCHANGED <<config, entries, first_entry, relevant_entry, mtx, gdb, in_order, stray, dump>>

Unlock(v) ==
    /\ vm[v].at = "cleanup"
    /\ vm[v].todo = <<>>
    /\ action_flag' = "none"
    /\ mtx' = None
    /\ vm' = [vm EXCEPT ![v].at = "done"]
    /\ UNCHANGED <<config, entries, first_entry, relevant_entry, gdb, in_order, stray, dump>>

(* The host takes the arena back, with all the code entries in it.         *)
barena_reset(v) ==
    /\ vm[v].at = "done"
    /\ vm' = [vm EXCEPT ![v].at = "freed"]
    /\ UNCHANGED <<config, shared, dump>>

(* A link is followed into an arena that was taken back, and written there *)
(* by gdb_end_block or by the cleanup.  Nothing is said of what follows.   *)
Stray(v) ==
    /\ \/ /\ vm[v].at = "ended"
          /\ mtx = None
          /\ first_entry \in Freed
       \/ /\ vm[v].at = "cleanup"
          /\ vm[v].todo # <<>>
          /\ LET e == Head(vm[v].todo)
             IN  {entries[e].next, entries[e].prev} \cap Freed # {}
    /\ stray' = TRUE
    /\ UNCHANGED <<config, vm, entries, first_entry, action_flag, relevant_entry, mtx, gdb,
                   in_order, dump>>

Critical(v) ==
    ~stray /\ (Register(v) \/ Notify(v) \/ Unregister(v) \/ Unlock(v) \/ Stray(v))

Next ==
    /\ ~stray
    /\ \E v \in VM :
        \/ \E entry \in Entries : begin_block(v, entry)
        \/ jit_opcode(v)
        \/ gdb_end_block(v)
        \/ perf_end_block(v)
        \/ Critical(v)
        \/ Lock(v)
        \/ barena_reset(v)

Spec == Init /\ [][Next]_vars

(* A thread that may enter or is in a critical section goes on.            *)
FairSpec == Spec /\ \A v \in VM : WF_vars(Critical(v))

-----------------------------------------------------------------------------
(* The opcodes of a block: its k-th one, counted from 0.                   *)
Opcode(info, k) == info.addr + k

Num(info) == (info.size - 1) \div 2

(* The symbol of an address, found by looking at all of them.              *)
Symbol(a) ==
    CHOOSE i \in 0..(Len(symtab) - 1) :
        Sym(symtab, i).type = "opcode" /\ Covers(Sym(symtab, i), a)

LineOf(info, k) ==
    LET i == Symbol(Opcode(info, k))
    IN  [pc |-> 2 * k + 1, line |-> i, file |-> Sym(symtab, i).file]

(* The entries that gdb should know: all that were registered, of the VMs  *)
(* that were not cleaned up.                                               *)
Live ==
    UNION { ToSet(IF vm[v].at = "ended" THEN Tail(vm[v].blocks) ELSE vm[v].blocks) :
              v \in { u \in VM : vm[u].at \notin {"done", "freed"} } }

(* What a debugger that attaches finds by following next from first_entry. *)
(* It can read nothing of an entry in memory that was given back.          *)
Chain ==
    { e \in DOMAIN entries :
        \A S \in SUBSET DOMAIN entries :
            /\ first_entry \in S \cup {0}
            /\ \A i \in S \ Freed : entries[i].next \in S \cup {0}
            => e \in S }

(* Types, and the mutex is held by the VM that is in a critical section.   *)
TypeOK ==
    /\ mtx \in VM \cup {None}
    /\ {first_entry, relevant_entry} \subseteq DOMAIN entries \cup {0}
    /\ action_flag \in {"none", "register", "unregister"}
    /\ gdb \subseteq DOMAIN entries
    /\ \A e \in DOMAIN entries : {entries[e].next, entries[e].prev} \subseteq DOMAIN entries \cup {0}
    /\ \A v \in VM : vm[v].at \in {"idle", "block", "ended", "registered", "told",
                                   "cleanup", "done", "freed"}
    /\ {in_order, stray} \subseteq BOOLEAN
    /\ \A v \in VM : mtx = v <=> vm[v].at \in {"registered", "cleanup"}

(* Each chunk is in the list or in the pool of its hook, once, and never   *)
(* has more mappings than it has room for: none is shared by two lists,    *)
(* none is lost when a block ends, and no mapping is written behind it.    *)
ChunksOwned == \A v \in VM : ChunkOwned(vm[v].gdb) /\ ChunkOwned(vm[v].perf)

(* While a block is compiled, the hooks hold the mappings of its opcodes   *)
(* and of no other block's, in order, however the chunks were used before. *)
(* A perf hook without a dump file is the exception: it keeps them all.    *)
OwnMappings ==
    \A v \in VM :
        LET all == [k \in 1..(IF vm[v].at = "block" THEN vm[v].num ELSE 0) |->
                       [addr |-> vm[v].entry + k - 1, mark |-> k]]
            m   == Mappings(vm[v].gdb)
        IN  /\ ToSet(m) = { x \in ToSet(all) : Wanted(v, x.addr) }
            /\ \A i, j \in DOMAIN m : i < j => m[i].mark < m[j].mark
            /\ vm[v].at = "block" /\ vm[v].dump_file /\ Profiled(v)
                  => Mappings(vm[v].perf) = all

(* Between changes, gdb knows the code of exactly the VMs that were not    *)
(* cleaned up, whatever the order in which they registered it.             *)
GdbKnows == mtx = None => gdb = Live

(* buxn_jit_cleanup_gdb_hook never changes first_entry.  As long as nobody *)
(* is cleaned up who had registered last, this does no harm: a debugger    *)
(* that attaches finds exactly the live entries, none of them in memory    *)
(* that was given back, and no such memory is ever written through a link. *)
Attached == in_order => ~stray /\ (mtx = None => Chain = Live)

(* The opcodes that the gdb hook recorded, counted from 0.                 *)
Calls(info) ==
    IF symtab = <<>> THEN {}
    ELSE { k \in 0..(Num(info) - 1) : k = 0 \/ Opcode(info, k) \in CallOps }

(* The files that the reader may fail to read the name of.                 *)
Files == { sym.file : sym \in ToSet(symtab) }

(* The tables of a block cover its code without a gap or an overlap, up to *)
(* a file whose name cannot be read: there, the last range has the start   *)
(* of the one before.  A call up to there is in a range of the file that   *)
(* it is from, with its line, when the mappings can be read.               *)
RightTables(info, ok, names) ==
    LET t        == gdb_read(info, ok, names)
        named(k) == \A j \in Calls(info) : j <= k => LineOf(info, j).file \in names
    IN  /\ t[1].from = 0 /\ t[Len(t)].end = info.size
        /\ \A i \in 1..(Len(t) - 1) :
              \/ t[i + 1].from = t[i].end + 1
              \/ /\ i = Len(t) - 1 /\ t[i + 1].from = t[i].from
                 /\ \E k \in Calls(info) : ~named(k)
        /\ \A k \in Calls(info) : ok /\ named(k) =>
              \E i \in DOMAIN t :
                  /\ t[i].from <= LineOf(info, k).pc /\ LineOf(info, k).pc < t[i].end
                  /\ t[i].file = LineOf(info, k).file
                  /\ LineOf(info, k) \in ToSet(t[i].lines)

(* The backtrace is right: the tables that the reader makes of a block are *)
(* right whatever it can read of the target, and whether gdb takes the end *)
(* of a range as a part of it or not.                                      *)
Shown ==
    \A e \in gdb, ok \in BOOLEAN, names \in SUBSET Files :
        RightTables(entries[e].info, ok, names)

(* What jit-reader.h says of symtab_close: no more blocks are opened on a  *)
(* table that was closed.  Tables are opened at different addresses, so    *)
(* that two ranges from the same address are of the same table.            *)
ClosedForGood ==
    \A e \in gdb, names \in SUBSET Files :
        LET t == gdb_read(entries[e].info, TRUE, names)
        IN  \A i, j \in DOMAIN t : t[i].from = t[j].from => i = j

(* The dump file has the records of every finished block in the order in   *)
(* which they were compiled: lines before code, one per opcode, and code   *)
(* numbered without gaps.                                                  *)
Dumped ==
    \A v \in { u \in PerfVM : vm[u].dump_file } :
        LET ended == Reverse(IF vm[v].at \in {"ended", "registered", "told"}
                             THEN Tail(vm[v].blocks) ELSE vm[v].blocks)
            Records(n) ==
                LET info == entries[ended[n]].info
                IN  (IF symtab = <<>> \/ Num(info) = 0 THEN <<>>
                     ELSE <<[id |-> "debug_info", block |-> ended[n], index |-> 0,
                             lines |-> [k \in 1..Num(info) |-> LineOf(info, k - 1)]]>>)
                    \o <<[id |-> "load", block |-> ended[n], index |-> n - 1, lines |-> <<>>]>>
        IN  dump[v] = FlattenSeq([n \in DOMAIN ended |-> Records(n)])

(* buxn_dbg_find_symbol finds the symbol of an address, and finds none     *)
(* when there is none, from any hint that an earlier search has left.  The *)
(* symbols never change: it is enough to see it before the first block.    *)
Lookup ==
    (\A v \in VM : vm[v].at = "idle" /\ vm[v].blocks = <<>>) =>
    \A a \in 0..(Max(Entries) + MaxOpcodes), hint \in 0..Len(symtab) :
        LET i == find_symbol(symtab, a, hint).symbol
        IN  IF \E sym \in ToSet(symtab) : sym.type = "opcode" /\ Covers(sym, a)
            THEN i = Symbol(a)
            ELSE i = -1

(* A block is named after the last label at or before it that has a name   *)
(* and is not in the zero page.                                            *)
Named ==
    \A e \in DOMAIN entries :
        LET a      == entries[e].info.addr
            usable == { l \in ToSet(label_map) : l.named /\ l.addr \in ZeroPage..a }
            name   == entries[e].info.name
        IN  IF usable = {} THEN name = <<>>
            ELSE name # <<>> /\ name[1] \in usable /\ \A l \in usable : l.addr <= name[1].addr

(* A block that was compiled is made known to gdb, however many others     *)
(* want the mutex, unless freed memory is written first.                   *)
Announced == \A v \in VM : vm[v].at = "ended" ~> vm[v].at = "told" \/ stray
=============================================================================
