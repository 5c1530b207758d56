---------------------------- MODULE HooksProofs ----------------------------
(***************************************************************************)
(* The hooks for every set of VMs, of entries and of tables, every chunk   *)
(* size and every length of block.                                         *)
(*                                                                         *)
(* Each action changes one VM and, inside the mutex, the list of entries.  *)
(* So IInv says of one VM what its two hooks hold (Vms), of the list how   *)
(* it is linked (List), and of the mutex who may change it (Descriptor).   *)
(* List cannot speak of live entries alone: buxn_jit_cleanup_gdb_hook      *)
(* never moves first_entry, so an entry that was unlinked may still be     *)
(* where the list starts. It says that each live entry is reached by links *)
(* of whatever memory (Reach), and that its predecessor, if any, points to *)
(* it. A new entry is Fresh: nothing points to it until Register has       *)
(* linked it. ToldOf relates gdb, which is told one entry at a time, to    *)
(* the places of all VMs; outside of the mutex it says that gdb knows the  *)
(* live entries.                                                           *)
(*                                                                         *)
(* Clean is what becomes of the list while nobody is cleaned up who had    *)
(* registered last: first_entry and all links of entries in the list stay  *)
(* in the list (Linked), so none leads to memory that was given back.      *)
(***************************************************************************)
EXTENDS Hooks, AddrMappingProofs

Mapping == [addr : Nat, mark : Nat]

Vm == [at : {"idle", "block", "ended", "registered", "told", "cleanup", "done", "freed"},
       entry : Nat, num : Nat, blocks : Seq(Nat), gdb : Chunks(Mapping),
       perf : Chunks(Mapping), todo : Seq(Nat), dump_file : BOOLEAN, code_index : Nat]

(* The entries of a VM that gdb was told of.                               *)
Known(w) ==
    CASE w.at \in {"ended", "registered"} -> ToSet(Tail(w.blocks))
      [] w.at = "cleanup" -> ToSet(w.todo)
      [] w.at \in {"done", "freed"} -> {}
      [] OTHER -> ToSet(w.blocks)

(* The entries of a VM that have to be found from first_entry.             *)
InList(w) ==
    CASE w.at = "ended" -> ToSet(Tail(w.blocks))
      [] w.at = "cleanup" -> ToSet(w.todo)
      [] w.at \in {"done", "freed"} -> {}
      [] OTHER -> ToSet(w.blocks)

(* The mappings of the opcodes compiled so far.                            *)
All(w) == [k \in 1..(IF w.at = "block" THEN w.num ELSE 0) |->
              [addr |-> w.entry + k - 1, mark |-> k]]

(* One VM.                                                                 *)
VmOK(v) ==
    LET w == vm[v]
    IN  /\ ChunkOwned(w.gdb) /\ ChunkOwned(w.perf)
        /\ IsInjective(w.blocks) /\ IsInjective(w.todo)
        /\ ToSet(w.todo) \subseteq ToSet(w.blocks)
        /\ w.at \in {"ended", "registered", "told"} => w.blocks # <<>>
        /\ ToSet(w.blocks) \subseteq DOMAIN entries

Holds(v) ==
    LET w == vm[v]
        m == Mappings(w.gdb)
    IN  /\ ToSet(m) = { x \in ToSet(All(w)) : Wanted(v, x.addr) }
        /\ \A i, j \in DOMAIN m : i < j => m[i].mark < m[j].mark
        /\ w.at \in {"idle", "block"} /\ w.dump_file /\ Profiled(v)
              => Mappings(w.perf) = All(w)
        /\ w.dump_file => v \in PerfVM

Vms ==
    /\ vm \in [VM -> Vm]
    /\ \A v \in VM : VmOK(v) /\ Holds(v)
    /\ \A u, v \in VM : u # v => ToSet(vm[u].blocks) \cap ToSet(vm[v].blocks) = {}

Entry(e, D) == /\ e = [info |-> e.info, next |-> e.next, prev |-> e.prev]
               /\ {e.next, e.prev} \subseteq D \cup {0}

Records ==
    /\ entries \in Seq(ToSet(entries))
    /\ \A i \in DOMAIN entries : Entry(entries[i], DOMAIN entries)
    /\ {first_entry, relevant_entry} \subseteq DOMAIN entries \cup {0}

(* The mutex and the descriptor.                                           *)
Descriptor ==
    /\ mtx \in VM \cup {None}
    /\ action_flag \in {"none", "register", "unregister"}
    /\ \A v \in VM : mtx = v <=> vm[v].at \in {"registered", "cleanup"}
    /\ \A v \in VM : vm[v].at = "registered" =>
          action_flag = "register" /\ relevant_entry = Head(vm[v].blocks)
    /\ \A v \in VM : vm[v].at = "cleanup" => action_flag = "unregister"

ToldOf == \A e : e \in gdb <=> \E v \in VM : e \in Known(vm[v])

(* An entry that is not linked yet.                                        *)
Fresh(e, es, first) ==
    /\ e # first
    /\ es[e].next = 0 /\ es[e].prev = 0
    /\ \A i \in DOMAIN es : es[i].next # e

(* What is linked from first_entry, in memory that was given back too.     *)
Reach ==
    { e \in DOMAIN entries :
        \A S \in SUBSET DOMAIN entries :
            /\ first_entry \in S
            /\ \A i \in S : entries[i].next \in S \cup {0}
            => e \in S }

List ==
    /\ \A v \in VM : vm[v].at = "ended" => Fresh(Head(vm[v].blocks), entries, first_entry)
    /\ \A v \in VM : \A e \in InList(vm[v]) :
          /\ e \in Reach
          /\ first_entry # 0
          /\ entries[e].prev # 0 => entries[entries[e].prev].next = e

IInv == Vms /\ Records /\ Descriptor /\ ToldOf /\ List

-----------------------------------------------------------------------------
(* Entries are numbered from 1.                                            *)
LEMMA EntryIds == IInv => /\ DOMAIN entries = 1..Len(entries) /\ Len(entries) \in Nat
                          /\ \A v \in VM : ToSet(vm[v].blocks) \subseteq Nat \ {0}
<1>1. ASSUME IInv PROVE DOMAIN entries = 1..Len(entries) /\ Len(entries) \in Nat
  BY <1>1 DEF IInv, Records
<1>2. ASSUME IInv PROVE \A v \in VM : ToSet(vm[v].blocks) \subseteq Nat \ {0}
  BY <1>1, <1>2 DEF IInv, Vms, VmOK
<1> QED
  BY <1>1, <1>2

(* What one VM does leaves the others as they are.                         *)
LEMMA OtherVm ==
    ASSUME NEW u \in VM, VmOK(u), Holds(u), vm'[u] = vm[u], symtab' = symtab,
           DOMAIN entries \subseteq DOMAIN entries'
    PROVE  VmOK(u)' /\ Holds(u)'
<1>1. VmOK(u)'
  BY DEF VmOK
<1>2. Holds(u)'
  BY DEF Holds, All, Wanted, Profiled
<1> QED
  BY <1>1, <1>2

(* A step of one VM that touches nothing shared and none of its entries.   *)
LEMMA OwnStep ==
    ASSUME IInv, NEW v \in VM, UNCHANGED <<symtab, shared>>,
           vm' \in [VM -> Vm], \A u \in VM : u # v => vm'[u] = vm[u],
           vm'[v].blocks = vm[v].blocks, vm'[v].todo = vm[v].todo,
           vm[v].at \in {"idle", "block", "told"}, vm'[v].at \in {"idle", "block", "told"},
           vm'[v].at = "told" => vm[v].at = "told",
           ChunkOwned(vm'[v].gdb), ChunkOwned(vm'[v].perf), Holds(v)'
    PROVE  IInv'
<1> USE DEF shared
<1>1. VmOK(v)'
  BY DEF IInv, Vms, VmOK
<1>2. \A u \in VM : u # v => VmOK(u)' /\ Holds(u)'
  BY OtherVm DEF IInv, Vms
<1>3. /\ \A u \in VM : vm'[u].blocks = vm[u].blocks
      /\ \A u \in VM : Known(vm'[u]) = Known(vm[u]) /\ InList(vm'[u]) = InList(vm[u])
      /\ \A u \in VM : vm'[u] = vm[u] \/ (vm'[u].at \in {"idle", "block", "told"}
                                          /\ vm[u].at \in {"idle", "block", "told"})
  BY DEF Known, InList
<1>4. Vms'
  BY <1>1, <1>2, <1>3 DEF IInv, Vms
<1>5. Records'
  BY DEF IInv, Records, Entry
<1>6. Descriptor'
  BY <1>3 DEF IInv, Descriptor
<1>7. ToldOf'
  BY <1>3 DEF IInv, ToldOf
<1>8. List'
  <2>1. Reach' = Reach
    BY DEF Reach
  <2> QED
    BY <1>3, <2>1 DEF IInv, List
<1> QED
  BY <1>4, <1>5, <1>6, <1>7, <1>8 DEF IInv

-----------------------------------------------------------------------------
(* All hooks start empty.                                                  *)
LEMMA InitIInv == Init => IInv
<1> SUFFICES ASSUME Init PROVE IInv
  OBVIOUS
<1>0. NoChunks \in Chunks(Mapping) /\ ChunkOwned(NoChunks) /\ Mappings(NoChunks) = <<>>
  BY NoChunksOwned
<1>1. PICK dumping \in SUBSET PerfVM :
         vm = [v \in VM |-> [at |-> "idle", entry |-> 0, num |-> 0, blocks |-> <<>>,
                             gdb |-> NoChunks, perf |-> NoChunks, todo |-> <<>>,
                             dump_file |-> v \in dumping, code_index |-> 0]]
  BY DEF Init
<1>2. vm \in [VM -> Vm]
  <2>1. \A v \in VM : (v \in dumping) \in BOOLEAN
    OBVIOUS
  <2> QED
    BY <1>0, <1>1, <2>1 DEF Vm
<1>3. \A v \in VM : /\ vm[v].at = "idle" /\ vm[v].blocks = <<>> /\ vm[v].todo = <<>>
                    /\ vm[v].gdb = NoChunks /\ vm[v].perf = NoChunks
                    /\ vm[v].dump_file => v \in PerfVM
  BY <1>1
<1>4. IsInjective(<<>>) /\ ToSet(<<>>) = {}
  BY DEF IsInjective, ToSet
<1>5. \A v \in VM : VmOK(v)
  BY <1>0, <1>3, <1>4 DEF VmOK
<1>6. \A v \in VM : All(vm[v]) = <<>>
  BY <1>3 DEF All
<1>7. \A v \in VM : Holds(v)
  BY <1>0, <1>3, <1>4, <1>6 DEF Holds
<1>8. Vms
  BY <1>2, <1>3, <1>4, <1>5, <1>7 DEF Vms
<1>9. \A v \in VM : Known(vm[v]) = {} /\ InList(vm[v]) = {}
  BY <1>3, <1>4 DEF Known, InList
<1>10. Records
  BY <1>4 DEF Init, Records
<1>11. Descriptor /\ ToldOf /\ List
  BY <1>3, <1>9, NoneAssumption DEF Init, Descriptor, ToldOf, List
<1> QED
  BY <1>8, <1>10, <1>11 DEF IInv

(* A block begins: both hooks hold no mappings.                            *)
LEMMA BeginBlockIInv ==
    ASSUME IInv, NEW v \in VM, NEW entry \in Entries, begin_block(v, entry)
    PROVE  IInv'
<1>1. vm \in [VM -> Vm] /\ entry \in Nat /\ VmOK(v) /\ Holds(v)
  BY EntriesAssumption DEF IInv, Vms
<1>2. vm' = [vm EXCEPT ![v].at = "block", ![v].entry = entry, ![v].num = 0]
  BY DEF begin_block
<1>3. vm' \in [VM -> Vm] /\ \A u \in VM : u # v => vm'[u] = vm[u]
  <2>1. vm[v] \in Vm
    BY <1>1
  <2> DEFINE w == [vm[v] EXCEPT !.at = "block", !.entry = entry, !.num = 0]
  <2>2. vm' = [vm EXCEPT ![v] = w]
    BY <1>1, <1>2
  <2>3. w \in Vm
    BY <1>1, <2>1 DEF Vm
  <2> HIDE DEF w
  <2> QED
    BY <1>1, <2>2, <2>3
<1>4. /\ vm'[v].at = "block" /\ vm'[v].num = 0 /\ vm'[v].blocks = vm[v].blocks
      /\ vm'[v].todo = vm[v].todo /\ vm'[v].gdb = vm[v].gdb /\ vm'[v].perf = vm[v].perf
      /\ vm'[v].dump_file = vm[v].dump_file /\ vm[v].at = "idle"
      /\ UNCHANGED <<symtab, shared>>
  BY <1>1, <1>2 DEF Vm, begin_block, config
<1>5. All(vm[v]) = <<>> /\ All(vm'[v]) = <<>>
  BY <1>4 DEF All
<1>6. Holds(v)'
  <2>1. ToSet(<<>>) = {}
    BY DEF ToSet
  <2> QED
    BY <1>1, <1>4, <1>5, <2>1 DEF Holds, Profiled
<1> QED
  BY <1>1, <1>3, <1>4, <1>6, OwnStep DEF VmOK

(* The mappings of a block with one more opcode.                           *)
LEMMA AllGrows ==
    ASSUME NEW w \in Vm, w.at = "block", NEW x \in Vm, x.at = "block", x.entry = w.entry,
           x.num = w.num + 1
    PROVE  /\ All(w) \in Seq(Mapping)
           /\ All(x) = Append(All(w), [addr |-> w.entry + w.num, mark |-> w.num + 1])
           /\ \A m \in ToSet(All(w)) : m.mark <= w.num
<1> DEFINE n == w.num
           a == w.entry
<1>1. n \in Nat /\ a \in Nat
  BY DEF Vm
<1>2. All(w) = [k \in 1..n |-> [addr |-> a + k - 1, mark |-> k]]
  BY DEF All
<1>3. All(x) = [k \in 1..(n + 1) |-> [addr |-> a + k - 1, mark |-> k]]
  BY DEF All
<1> HIDE DEF n, a
<1>4. \A k \in 1..n : [addr |-> a + k - 1, mark |-> k] \in Mapping
  BY <1>1 DEF Mapping
<1>5. All(w) \in Seq(Mapping) /\ Len(All(w)) = n
  BY <1>1, <1>2, <1>4
<1>6. a + (n + 1) - 1 = a + n
  BY <1>1
<1>7. All(x) = Append(All(w), [addr |-> a + n, mark |-> n + 1])
  BY <1>1, <1>2, <1>3, <1>5, <1>6
<1>8. \A m \in ToSet(All(w)) : m.mark <= n
  BY <1>1, <1>2 DEF ToSet
<1> QED
  BY <1>5, <1>7, <1>8 DEF n, a

(* An opcode: a mapping more in the hooks that want it.                    *)
LEMMA JitOpcodeIInv ==
    ASSUME IInv, NEW v \in VM, jit_opcode(v)
    PROVE  IInv'
<1> DEFINE w  == vm[v]
           pc == w.entry + w.num
           m  == [addr |-> pc, mark |-> w.num + 1]
           g  == IF Wanted(v, pc) THEN Record(w.gdb, m) ELSE w.gdb
           p  == IF Profiled(v) THEN Record(w.perf, m) ELSE w.perf
           n  == w.num + 1
           x  == [w EXCEPT !.num = n, !.gdb = g, !.perf = p]
<1>1. vm \in [VM -> Vm] /\ w \in Vm /\ VmOK(v) /\ Holds(v)
  BY DEF IInv, Vms
<1>2. /\ w.at = "block" /\ UNCHANGED <<symtab, shared>>
      /\ vm' = [vm EXCEPT ![v].num = @ + 1, ![v].gdb = g, ![v].perf = p]
  BY DEF jit_opcode, config
<1>3. m \in Mapping
  BY <1>1 DEF Vm, Mapping
<1>4. w.gdb \in Chunks(Mapping) /\ w.perf \in Chunks(Mapping) /\ w.num \in Nat /\ w.entry \in Nat
  BY <1>1 DEF Vm
<1> HIDE DEF m
<1>5. /\ g \in Chunks(Mapping) /\ ChunkOwned(g)
      /\ Mappings(g) = IF Wanted(v, pc) THEN Append(Mappings(w.gdb), m) ELSE Mappings(w.gdb)
  BY <1>1, <1>3, <1>4, RecordFacts DEF VmOK
<1>6. /\ p \in Chunks(Mapping) /\ ChunkOwned(p)
      /\ Profiled(v) => Mappings(p) = Append(Mappings(w.perf), m)
  BY <1>1, <1>3, <1>4, RecordFacts DEF VmOK
<1>7. vm' = [vm EXCEPT ![v] = x]
  BY <1>1, <1>2
<1> HIDE DEF g, p
<1>8. x \in Vm
  <2>1. n \in Nat /\ g \in Chunks(Mapping) /\ p \in Chunks(Mapping)
    BY <1>4, <1>5, <1>6
  <2> HIDE DEF n, w
  <2> QED
    BY <1>1, <2>1 DEF Vm
<1>9. /\ x.at = "block" /\ x.entry = w.entry /\ x.num = w.num + 1 /\ x.gdb = g /\ x.perf = p
      /\ x.blocks = w.blocks /\ x.todo = w.todo /\ x.dump_file = w.dump_file
  BY <1>1, <1>2 DEF Vm
<1> HIDE DEF x
<1>10. vm' \in [VM -> Vm] /\ vm'[v] = x /\ \A u \in VM : u # v => vm'[u] = vm[u]
  BY <1>1, <1>7, <1>8
<1>11. /\ All(w) \in Seq(Mapping) /\ All(x) = Append(All(w), m)
       /\ \A y \in ToSet(All(w)) : y.mark <= w.num
  BY <1>1, <1>2, <1>8, <1>9, AllGrows DEF m
<1>12. \A a : Wanted(v, a)' <=> Wanted(v, a)
  BY <1>2, <1>9, <1>10 DEF Wanted
<1>13. Profiled(v)' <=> Profiled(v)
  BY <1>2 DEF Profiled
<1>14. Holds(v)'
  <2> DEFINE s == Mappings(w.gdb)
             t == Mappings(g)
  <2>1. /\ s \in Seq(Mapping)
        /\ ToSet(s) = { y \in ToSet(All(w)) : Wanted(v, y.addr) }
        /\ \A i, j \in DOMAIN s : i < j => s[i].mark < s[j].mark
    BY <1>1, <1>4, UsedType DEF Holds, VmOK
  <2>2. ToSet(All(x)) = ToSet(All(w)) \cup {m} /\ m.addr = pc /\ m.mark = w.num + 1
    <3>1. m.addr = pc /\ m.mark = w.num + 1
      BY DEF m
    <3>2. ToSet(Append(All(w), m)) = ToSet(All(w)) \cup {m}
      <4> DEFINE a == All(w)
      <4>1. a \in Seq(Mapping)
        BY <1>11
      <4> HIDE DEF a
      <4>2. ToSet(Append(a, m)) = ToSet(a) \cup {m}
        BY <1>3, <4>1, AppendFacts
      <4> QED
        BY <4>2 DEF a
    <3> QED
      BY <1>11, <3>1, <3>2
  <2>3. t = IF Wanted(v, pc) THEN Append(s, m) ELSE s
    BY <1>5
  <2> HIDE DEF s, t
  <2>4. ToSet(t) = { y \in ToSet(All(x)) : Wanted(v, y.addr) }
    <3>1. ToSet(Append(s, m)) = ToSet(s) \cup {m}
      BY <1>3, <2>1, AppendFacts
    <3> HIDE DEF pc
    <3> QED
      BY <2>1, <2>2, <2>3, <3>1
  <2>5. \A i, j \in DOMAIN t : i < j => t[i].mark < t[j].mark
    <3>1. CASE ~Wanted(v, pc)
      BY <2>1, <2>3, <3>1
    <3>2. CASE Wanted(v, pc)
      <4> DEFINE l == Len(s)
      <4>1. /\ l \in Nat /\ DOMAIN s = 1..l /\ DOMAIN t = 1..(l + 1)
            /\ t[l + 1] = m /\ \A i \in 1..l : t[i] = s[i]
        BY <1>3, <2>1, <2>3, <3>2
      <4> HIDE DEF l
      <4>2. \A i \in 1..l : s[i].mark <= w.num /\ s[i].mark \in Nat
        <5>1. \A i \in 1..l : s[i] \in Mapping /\ s[i] \in ToSet(All(w))
          BY <2>1, <4>1 DEF ToSet
        <5> QED
          BY <1>11, <5>1 DEF Mapping
      <4>3. \A i \in 1..l : t[i].mark < t[l + 1].mark
        BY <1>4, <2>2, <4>1, <4>2
      <4>4. \A i, j \in 1..(l + 1) : i < j => i \in 1..l /\ (j \in 1..l \/ j = l + 1)
        BY <4>1
      <4> QED
        BY <2>1, <4>1, <4>3, <4>4
    <3> QED
      BY <3>1, <3>2
  <2>6. w.dump_file /\ Profiled(v) => Mappings(p) = All(x)
    BY <1>1, <1>2, <1>6, <1>11 DEF Holds
  <2>7. w.dump_file => v \in PerfVM
    BY <1>1 DEF Holds
  <2> QED
    BY <1>9, <1>10, <1>12, <1>13, <2>4, <2>5, <2>6, <2>7 DEF Holds, t
<1> QED
  BY <1>1, <1>2, <1>5, <1>6, <1>9, <1>10, <1>14, OwnStep

(* The perf hook is done with a block and gives its chunks back.           *)
LEMMA PerfEndBlockIInv ==
    ASSUME IInv, NEW v \in VM, perf_end_block(v)
    PROVE  IInv'
<1> DEFINE w == vm[v]
           dumps == v \in PerfVM /\ w.dump_file
           p == IF dumps THEN Recycle(w.perf) ELSE w.perf
           c == IF dumps THEN w.code_index + 1 ELSE w.code_index
           x == [w EXCEPT !.at = "idle", !.code_index = c, !.perf = p]
<1>1. vm \in [VM -> Vm] /\ w \in Vm /\ VmOK(v) /\ Holds(v)
  BY DEF IInv, Vms
<1>2. w.at = "told" /\ UNCHANGED <<symtab, shared>> /\ vm' = [vm EXCEPT ![v] = x]
  BY <1>1 DEF perf_end_block, config
<1>3. w.perf \in Chunks(Mapping) /\ w.code_index \in Nat
  BY <1>1 DEF Vm
<1>4. c \in Nat
  BY <1>3
<1>5. p \in Chunks(Mapping) /\ ChunkOwned(p) /\ (dumps => Mappings(p) = <<>>)
  BY <1>1, <1>3, RecycleOwned DEF VmOK
<1> HIDE DEF p, c
<1>6. x \in Vm
  BY <1>1, <1>4, <1>5 DEF Vm
<1>7. /\ x.at = "idle" /\ x.entry = w.entry /\ x.gdb = w.gdb /\ x.perf = p
      /\ x.blocks = w.blocks /\ x.todo = w.todo /\ x.dump_file = w.dump_file
  BY <1>1 DEF Vm
<1> HIDE DEF x
<1>8. vm' \in [VM -> Vm] /\ vm'[v] = x /\ \A u \in VM : u # v => vm'[u] = vm[u]
  BY <1>1, <1>2, <1>6
<1>9. All(w) = <<>> /\ All(x) = <<>>
  BY <1>2, <1>7 DEF All
<1>10. Holds(v)'
  <2>1. ToSet(<<>>) = {}
    BY DEF ToSet
  <2> QED
    BY <1>1, <1>2, <1>5, <1>7, <1>8, <1>9, <2>1 DEF Holds, Profiled
<1> QED
  BY <1>1, <1>2, <1>5, <1>7, <1>8, <1>10, OwnStep DEF VmOK

(* A new entry cuts nothing off.                                           *)
LEMMA ChainGrows ==
    ASSUME Records, NEW x, entries' = Append(entries, x), first_entry' = first_entry,
           first_entry # 0
    PROVE  Reach \subseteq Reach'
<1>1. /\ DOMAIN entries = 1..Len(entries) /\ Len(entries) \in Nat
      /\ DOMAIN entries' = 1..(Len(entries) + 1)
      /\ \A i \in DOMAIN entries : entries'[i] = entries[i]
  BY DEF Records
<1>2. SUFFICES ASSUME NEW e \in Reach, NEW S \in SUBSET DOMAIN entries', first_entry \in S,
                      \A i \in S : entries'[i].next \in S \cup {0}
               PROVE  e \in S
  BY <1>1 DEF Reach
<1> DEFINE R == S \cap DOMAIN entries
<1>3. first_entry \in R
  BY <1>2 DEF Records
<1>4. ASSUME NEW i \in R PROVE entries[i].next \in R \cup {0}
  <2>1. entries[i].next \in S \cup {0}
    BY <1>1, <1>2
  <2>2. entries[i].next \in DOMAIN entries \cup {0}
    BY DEF Records, Entry
  <2> QED
    BY <2>1, <2>2
<1>5. R \in SUBSET DOMAIN entries
  OBVIOUS
<1> HIDE DEF R
<1>6. e \in R
  BY <1>3, <1>4, <1>5 DEF Reach
<1> QED
  BY <1>6 DEF R

(* A block ends: its entry is new and on no list.                          *)
LEMMA GdbEndBlockIInv ==
    ASSUME IInv, NEW v \in VM, gdb_end_block(v)
    PROVE  IInv'
<1> DEFINE w == vm[v]
           info == [addr |-> w.entry, size |-> 2 * w.num + 1,
                    name |-> pc_to_label(label_map, w.entry), mappings |-> Lines(w.gdb)]
           x == [info |-> info, next |-> 0, prev |-> 0]
           n == Len(entries) + 1
           b == <<n>> \o w.blocks
           g == Recycle(w.gdb)
           z == [w EXCEPT !.at = "ended", !.gdb = g, !.blocks = b]
<1> HIDE DEF info
<1>1. /\ vm \in [VM -> Vm] /\ w \in Vm /\ VmOK(v) /\ Holds(v)
      /\ w.blocks \in Seq(Nat) /\ w.gdb \in Chunks(Mapping)
  <2>1. vm \in [VM -> Vm] /\ w \in Vm /\ VmOK(v) /\ Holds(v)
    BY DEF IInv, Vms
  <2> QED
    BY <2>1 DEF Vm
<1>2. /\ w.at = "block" /\ entries' = Append(entries, x) /\ vm' = [vm EXCEPT ![v] = z]
      /\ UNCHANGED <<symtab, first_entry, action_flag, relevant_entry, mtx, gdb>>
  BY <1>1 DEF gdb_end_block, config, info
<1>3. n \in Nat /\ n \notin DOMAIN entries /\ n # 0 /\ DOMAIN entries = 1..Len(entries)
  BY EntryIds
<1>4. /\ b \in Seq(Nat) /\ b # <<>> /\ Head(b) = n /\ Tail(b) = w.blocks
      /\ ToSet(b) = {n} \cup ToSet(w.blocks) /\ IsInjective(b)
  <2>1. IsInjective(w.blocks) /\ n \notin ToSet(w.blocks)
    BY <1>1, <1>3 DEF VmOK
  <2> HIDE DEF n
  <2> QED
    BY <1>1, <1>3, <2>1, ConsFacts
<1>5. g \in Chunks(Mapping) /\ ChunkOwned(g) /\ Mappings(g) = <<>>
  BY <1>1, RecycleOwned DEF VmOK
<1>6. /\ DOMAIN entries' = DOMAIN entries \cup {n} /\ entries'[n] = x
      /\ \A i \in DOMAIN entries : entries'[i] = entries[i]
      /\ entries' \in Seq(ToSet(entries'))
  <2>1. entries \in Seq(ToSet(entries))
    BY DEF IInv, Records
  <2> DEFINE T == ToSet(entries) \cup {x}
  <2>2. entries \in Seq(T) /\ x \in T
    BY <2>1
  <2> HIDE DEF T, x
  <2>3. entries' \in Seq(T) /\ ToSet(entries') = T
    <3>1. /\ Append(entries, x) \in Seq(T)
          /\ ToSet(Append(entries, x)) = ToSet(entries) \cup {x}
      BY <2>2, AppendFacts
    <3> QED
      BY <1>2, <3>1 DEF T
  <2>4. /\ DOMAIN entries' = DOMAIN entries \cup {n} /\ entries'[n] = x
        /\ \A i \in DOMAIN entries : entries'[i] = entries[i]
    BY <1>2, <2>2
  <2> QED
    BY <2>3, <2>4
<1> HIDE DEF g, b, n
<1>7. z \in Vm
  BY <1>1, <1>4, <1>5 DEF Vm
<1>8. /\ z.at = "ended" /\ z.gdb = g /\ z.blocks = b /\ z.perf = w.perf /\ z.todo = w.todo
      /\ z.dump_file = w.dump_file
  BY <1>1 DEF Vm
<1> HIDE DEF z
<1>9. vm' \in [VM -> Vm] /\ vm'[v] = z /\ \A u \in VM : u # v => vm'[u] = vm[u]
  BY <1>1, <1>2, <1>7
<1>10. VmOK(v)'
  BY <1>1, <1>4, <1>5, <1>6, <1>8, <1>9 DEF VmOK
<1>11. Holds(v)'
  <2>1. ToSet(<<>>) = {} /\ All(z) = <<>>
    BY <1>8 DEF ToSet, All
  <2> QED
    BY <1>1, <1>5, <1>8, <1>9, <2>1 DEF Holds
<1>12. Vms'
  <2>1. \A u \in VM : u # v => VmOK(u)' /\ Holds(u)'
    BY <1>2, <1>6, <1>9, OtherVm DEF IInv, Vms
  <2>2. \A u \in VM : n \notin ToSet(vm[u].blocks)
    BY <1>3 DEF IInv, Vms, VmOK
  <2>3. \A t, u \in VM : t # u => ToSet(vm'[t].blocks) \cap ToSet(vm'[u].blocks) = {}
    BY <1>4, <1>8, <1>9, <2>2 DEF IInv, Vms
  <2> QED
    BY <1>9, <1>10, <1>11, <2>1, <2>3 DEF Vms
<1>13. Records'
  <2>1. Entry(x, DOMAIN entries')
    <3>1. x.next = 0 /\ x.prev = 0 /\ x.info = info
      OBVIOUS
    <3> QED
      BY <3>1 DEF Entry
  <2>2. \A i \in DOMAIN entries : Entry(entries[i], DOMAIN entries')
    BY <1>6 DEF IInv, Records, Entry
  <2> QED
    BY <1>2, <1>6, <2>1, <2>2 DEF IInv, Records, Entry
<1>14. Descriptor'
  BY <1>2, <1>8, <1>9 DEF IInv, Descriptor
<1>15. \A u \in VM : Known(vm'[u]) = Known(vm[u]) /\ InList(vm'[u]) = InList(vm[u])
  BY <1>2, <1>4, <1>8, <1>9 DEF Known, InList
<1>16. ToldOf'
  BY <1>2, <1>15 DEF IInv, ToldOf
<1>17. List'
  <2>1. ASSUME NEW u \in VM, vm'[u].at = "ended"
        PROVE  Fresh(Head(vm'[u].blocks), entries', first_entry')
    <3>1. CASE u = v
      <4>1. n # first_entry /\ \A i \in DOMAIN entries : entries[i].next # n
        BY <1>3 DEF IInv, Records, Entry
      <4> QED
        BY <1>2, <1>3, <1>4, <1>6, <1>8, <1>9, <3>1, <4>1 DEF Fresh
    <3>2. CASE u # v
      <4> DEFINE h == Head(vm[u].blocks)
      <4>1. h \in DOMAIN entries /\ Fresh(h, entries, first_entry) /\ h # 0
        <5>1. vm[u].blocks # <<>> /\ vm[u].blocks \in Seq(Nat)
          BY <1>1, <1>9, <2>1, <3>2 DEF IInv, Vms, VmOK, Vm
        <5>2. h \in ToSet(vm[u].blocks)
          BY <5>1, HeadIn
        <5> QED
          BY <1>9, <2>1, <3>2, <5>2, EntryIds DEF IInv, Vms, VmOK, List
      <4> HIDE DEF h
      <4>2. Fresh(h, entries', first_entry')
        BY <1>2, <1>6, <4>1 DEF Fresh
      <4> QED
        BY <1>9, <3>2, <4>2 DEF h
    <3> QED
      BY <3>1, <3>2
  <2>2. ASSUME NEW u \in VM, NEW e \in InList(vm'[u])
        PROVE  /\ e \in Reach'
               /\ first_entry' # 0
               /\ entries'[e].prev # 0 => entries'[entries'[e].prev].next = e
    <3>1. /\ e \in Reach /\ first_entry # 0
          /\ entries[e].prev # 0 => entries[entries[e].prev].next = e
      BY <1>15 DEF IInv, List
    <3>2. e \in Reach'
      BY <1>2, <3>1, ChainGrows DEF IInv
    <3>3. e \in DOMAIN entries /\ entries[e].prev \in DOMAIN entries \cup {0}
      BY <3>1 DEF Reach, IInv, Records, Entry
    <3> QED
      BY <1>2, <1>6, <3>1, <3>2, <3>3
  <2> QED
    BY <2>1, <2>2 DEF List
<1> QED
  BY <1>12, <1>13, <1>14, <1>16, <1>17 DEF IInv

-----------------------------------------------------------------------------
(* Critical sections.                                                      *)

(* They change nothing of a VM but where it is and what it has still to    *)
(* unregister.                                                             *)
LEMMA CriticalVms ==
    ASSUME IInv, NEW v \in VM, NEW x \in Vm, vm' = [vm EXCEPT ![v] = x], symtab' = symtab,
           DOMAIN entries' = DOMAIN entries,
           vm[v].at # "block", x.at \in {"registered", "told", "cleanup", "done", "freed"},
           x.at \in {"registered", "told"} => vm[v].at \in {"ended", "registered"},
           x.entry = vm[v].entry, x.blocks = vm[v].blocks, x.gdb = vm[v].gdb,
           x.perf = vm[v].perf, x.dump_file = vm[v].dump_file,
           IsInjective(x.todo), ToSet(x.todo) \subseteq ToSet(x.blocks)
    PROVE  Vms' /\ vm'[v] = x /\ \A u \in VM : u # v => vm'[u] = vm[u]
<1>1. vm \in [VM -> Vm] /\ VmOK(v) /\ Holds(v)
  BY DEF IInv, Vms
<1>2. vm' \in [VM -> Vm] /\ vm'[v] = x /\ \A u \in VM : u # v => vm'[u] = vm[u]
  BY <1>1
<1>3. VmOK(v)'
  BY <1>1, <1>2 DEF VmOK
<1>4. All(vm[v]) = <<>> /\ All(x) = <<>> /\ ToSet(<<>>) = {}
  BY DEF All, ToSet
<1>5. Holds(v)'
  BY <1>1, <1>2, <1>4 DEF Holds
<1>6. \A u \in VM : u # v => VmOK(u)' /\ Holds(u)'
  BY <1>2, OtherVm DEF IInv, Vms
<1>7. \A u \in VM : vm'[u].blocks = vm[u].blocks
  BY <1>2
<1>8. Vms'
  BY <1>2, <1>3, <1>5, <1>6, <1>7 DEF IInv, Vms
<1> QED
  BY <1>2, <1>8

(* The head of a VM's blocks.                                              *)
LEMMA HeadEntry ==
    ASSUME IInv, NEW v \in VM, vm[v].blocks # <<>>
    PROVE  /\ Head(vm[v].blocks) \in DOMAIN entries /\ Head(vm[v].blocks) # 0
           /\ Head(vm[v].blocks) \notin ToSet(Tail(vm[v].blocks))
           /\ ToSet(vm[v].blocks) = {Head(vm[v].blocks)} \cup ToSet(Tail(vm[v].blocks))
           /\ \A u \in VM : u # v => Head(vm[v].blocks) \notin ToSet(vm[u].blocks)
<1> DEFINE s == vm[v].blocks
<1>1. s \in Seq(Nat) /\ IsInjective(s) /\ ToSet(s) \subseteq DOMAIN entries
  BY DEF IInv, Vms, VmOK, Vm
<1>2. \A u \in VM : u # v => ToSet(vm[u].blocks) \cap ToSet(s) = {}
  BY DEF IInv, Vms
<1> HIDE DEF s
<1>3. s # <<>> => /\ Head(s) \in ToSet(s) /\ Head(s) \notin ToSet(Tail(s))
                  /\ ToSet(s) = {Head(s)} \cup ToSet(Tail(s))
  BY <1>1, HeadFacts, HeadIn
<1>4. 0 \notin DOMAIN entries
  BY EntryIds
<1> QED
  BY <1>1, <1>2, <1>3, <1>4 DEF s

(* An entry is put before the first.                                       *)
LEMMA PushEntry ==
    ASSUME Records, NEW e \in DOMAIN entries, e # 0, 0 \notin DOMAIN entries,
           Fresh(e, entries, first_entry),
           entries' = [i \in DOMAIN entries |->
              CASE i = e -> [entries[i] EXCEPT !.next = first_entry]
                [] i = first_entry -> [entries[i] EXCEPT !.prev = e]
                [] OTHER -> entries[i]],
           first_entry' = e
    PROVE  /\ DOMAIN entries' = DOMAIN entries
           /\ \A i \in DOMAIN entries :
                 /\ entries'[i].next = IF i = e THEN first_entry ELSE entries[i].next
                 /\ entries'[i].prev = IF i = first_entry THEN e ELSE entries[i].prev
           /\ relevant_entry' = e => Records'
           /\ e \in Reach'
           /\ first_entry # 0 => Reach \subseteq Reach'
<1>0. e # first_entry /\ first_entry \in DOMAIN entries \cup {0}
  BY DEF Fresh, Records
<1>1. DOMAIN entries' = DOMAIN entries
  OBVIOUS
<1>2. \A i \in DOMAIN entries :
         entries'[i] = IF i = e THEN [entries[i] EXCEPT !.next = first_entry]
                       ELSE IF i = first_entry THEN [entries[i] EXCEPT !.prev = e]
                       ELSE entries[i]
  BY <1>0
<1>3. ASSUME NEW i \in DOMAIN entries
      PROVE  entries'[i] = [info |-> entries[i].info,
                            next |-> IF i = e THEN first_entry ELSE entries[i].next,
                            prev |-> IF i = first_entry THEN e ELSE entries[i].prev]
  <2>1. entries[i] = [info |-> entries[i].info, next |-> entries[i].next, prev |-> entries[i].prev]
    BY DEF Records, Entry
  <2> DEFINE r == entries[i]
  <2>2. /\ r = [info |-> r.info, next |-> r.next, prev |-> r.prev]
        /\ entries'[i] = IF i = e THEN [r EXCEPT !.next = first_entry]
                         ELSE IF i = first_entry THEN [r EXCEPT !.prev = e] ELSE r
    BY <1>2, <2>1
  <2> HIDE DEF r
  <2>3. entries'[i] = [info |-> r.info,
                       next |-> IF i = e THEN first_entry ELSE r.next,
                       prev |-> IF i = first_entry THEN e ELSE r.prev]
    BY <1>0, <2>2
  <2> QED
    BY <2>3 DEF r
<1>4. \A i \in DOMAIN entries :
         /\ entries'[i].next = IF i = e THEN first_entry ELSE entries[i].next
         /\ entries'[i].prev = IF i = first_entry THEN e ELSE entries[i].prev
  <2> SUFFICES ASSUME NEW i \in DOMAIN entries
               PROVE  /\ entries'[i].next = IF i = e THEN first_entry ELSE entries[i].next
                      /\ entries'[i].prev = IF i = first_entry THEN e ELSE entries[i].prev
    OBVIOUS
  <2> DEFINE n == IF i = e THEN first_entry ELSE entries[i].next
             p == IF i = first_entry THEN e ELSE entries[i].prev
             r == entries'[i]
  <2>1. r = [info |-> entries[i].info, next |-> n, prev |-> p]
    BY <1>3
  <2> HIDE DEF n, p, r
  <2>2. r.next = n /\ r.prev = p
    BY <2>1
  <2> QED
    BY <2>2 DEF n, p, r
<1>5. ASSUME relevant_entry' = e PROVE Records'
  <2>1. entries' \in Seq(ToSet(entries'))
    <3>1. DOMAIN entries = 1..Len(entries) /\ Len(entries) \in Nat
      BY DEF Records
    <3>2. entries' \in [1..Len(entries) -> ToSet(entries')]
      BY <1>1, <3>1 DEF ToSet
    <3> QED
      BY <3>1, <3>2, FunctionIsList
  <2>2. \A i \in DOMAIN entries : Entry(entries'[i], DOMAIN entries)
    <3> SUFFICES ASSUME NEW i \in DOMAIN entries PROVE Entry(entries'[i], DOMAIN entries)
      OBVIOUS
    <3>1. {entries[i].next, entries[i].prev} \subseteq DOMAIN entries \cup {0}
      BY DEF Records, Entry
    <3>2. {entries'[i].next, entries'[i].prev} \subseteq DOMAIN entries \cup {0}
      BY <1>0, <1>4, <3>1
    <3>3. entries'[i] = [info |-> entries'[i].info, next |-> entries'[i].next,
                         prev |-> entries'[i].prev]
      BY <1>3
    <3> QED
      BY <3>2, <3>3 DEF Entry
  <2> QED
    BY <1>1, <1>5, <2>1, <2>2 DEF Records
<1>6. e \in Reach'
  BY <1>1 DEF Reach
<1>7. ASSUME first_entry # 0, NEW d \in Reach PROVE d \in Reach'
  <2>1. SUFFICES ASSUME NEW S \in SUBSET DOMAIN entries, e \in S,
                        \A i \in S : entries'[i].next \in S \cup {0}
                 PROVE  d \in S
    BY <1>1, <1>7 DEF Reach
  <2>2. first_entry \in S
    BY <1>4, <1>7, <2>1
  <2>3. \A i \in S : entries[i].next \in S \cup {0}
    BY <1>4, <2>1 DEF Fresh
  <2> QED
    BY <1>7, <2>2, <2>3 DEF Reach
<1> QED
  BY <1>1, <1>4, <1>5, <1>6, <1>7

(* The entry goes to the front of the list, under the mutex.               *)
LEMMA RegisterIInv ==
    ASSUME IInv, NEW v \in VM, Register(v)
    PROVE  IInv'
<1> DEFINE w == vm[v]
           x == [w EXCEPT !.at = "registered"]
           e == Head(w.blocks)
<1>1. /\ vm \in [VM -> Vm] /\ w \in Vm /\ w.blocks # <<>> /\ VmOK(v)
      /\ Fresh(e, entries, first_entry)
  BY DEF IInv, Vms, VmOK, List, Register
<1>2. /\ w.at = "ended" /\ mtx = None /\ mtx' = v /\ action_flag' = "register"
      /\ relevant_entry' = e /\ first_entry' = e /\ vm' = [vm EXCEPT ![v] = x]
      /\ entries' = [i \in DOMAIN entries |->
            CASE i = e -> [entries[i] EXCEPT !.next = first_entry]
              [] i = first_entry -> [entries[i] EXCEPT !.prev = e]
              [] OTHER -> entries[i]]
      /\ symtab' = symtab /\ gdb' = gdb
  BY <1>1 DEF Register, config
<1>3. x \in Vm
  BY <1>1 DEF Vm
<1>4. /\ x.at = "registered" /\ x.entry = w.entry /\ x.blocks = w.blocks /\ x.gdb = w.gdb
      /\ x.perf = w.perf /\ x.dump_file = w.dump_file /\ x.todo = w.todo
  BY <1>1 DEF Vm
<1> HIDE DEF x
<1>5. /\ e \in DOMAIN entries /\ e # 0 /\ e \notin ToSet(Tail(w.blocks))
      /\ ToSet(w.blocks) = {e} \cup ToSet(Tail(w.blocks))
      /\ \A u \in VM : u # v => e \notin ToSet(vm[u].blocks)
  BY <1>1, HeadEntry
<1>6. 0 \notin DOMAIN entries
  BY EntryIds
<1>7. PICK h \in DOMAIN entries : h = e
  BY <1>5
<1>8. /\ DOMAIN entries' = DOMAIN entries
      /\ \A i \in DOMAIN entries :
            /\ entries'[i].next = IF i = h THEN first_entry ELSE entries[i].next
            /\ entries'[i].prev = IF i = first_entry THEN h ELSE entries[i].prev
      /\ Records'
      /\ h \in Reach'
      /\ first_entry # 0 => Reach \subseteq Reach'
  <2> HIDE DEF e
  <2> QED
    BY <1>1, <1>2, <1>5, <1>6, <1>7, PushEntry DEF IInv
<1>9. Vms' /\ vm'[v] = x /\ \A u \in VM : u # v => vm'[u] = vm[u]
  BY <1>1, <1>2, <1>3, <1>4, <1>8, CriticalVms DEF VmOK
<1>10. Descriptor'
  BY <1>2, <1>4, <1>9, NoneAssumption DEF IInv, Descriptor
<1>11. \A u \in VM : Known(vm'[u]) = Known(vm[u])
  BY <1>2, <1>4, <1>9 DEF Known
<1>12. ToldOf'
  BY <1>2, <1>11 DEF IInv, ToldOf
<1>13. /\ \A u \in VM : u # v => InList(vm'[u]) = InList(vm[u])
       /\ InList(vm'[v]) = {h} \cup InList(vm[v])
  BY <1>2, <1>4, <1>5, <1>7, <1>9 DEF InList
<1>14. List'
  <2>1. ASSUME NEW u \in VM, vm'[u].at = "ended"
        PROVE  Fresh(Head(vm'[u].blocks), entries', first_entry')
    <3>1. u # v /\ vm'[u] = vm[u]
      BY <1>4, <1>9, <2>1
    <3> DEFINE f == Head(vm[u].blocks)
    <3>2. /\ f \in DOMAIN entries /\ f # 0 /\ Fresh(f, entries, first_entry)
          /\ f \notin ToSet(w.blocks)
      <4>1. vm[u].blocks # <<>>
        BY <2>1, <3>1 DEF IInv, Vms, VmOK
      <4> QED
        BY <2>1, <3>1, <4>1, HeadEntry DEF IInv, List
    <3> HIDE DEF f
    <3>3. f # h
      BY <1>5, <1>7, <3>2
    <3>4. Fresh(f, entries', first_entry')
      BY <1>2, <1>7, <1>8, <3>2, <3>3 DEF Fresh
    <3> QED
      BY <3>1, <3>4 DEF f
  <2>2. ASSUME NEW u \in VM, NEW d \in InList(vm'[u])
        PROVE  /\ d \in Reach'
               /\ first_entry' # 0
               /\ entries'[d].prev # 0 => entries'[entries'[d].prev].next = d
    <3>0. first_entry' # 0 /\ h # first_entry /\ entries[h].next = 0 /\ entries[h].prev = 0
      BY <1>1, <1>2, <1>5, <1>7 DEF Fresh
    <3>1. CASE d = h
      BY <1>8, <3>0, <3>1
    <3>2. CASE d # h
      <4>1. /\ d \in Reach /\ first_entry # 0
            /\ entries[d].prev # 0 => entries[entries[d].prev].next = d
        BY <1>13, <3>2 DEF IInv, List
      <4>2. d \in DOMAIN entries /\ entries[d].prev \in DOMAIN entries \cup {0} /\ d # 0
        BY <1>6, <4>1 DEF Reach, IInv, Records, Entry
      <4>3. d = first_entry => entries'[entries'[d].prev].next = d
        BY <1>8, <4>2
      <4>4. d # first_entry /\ entries'[d].prev # 0 => entries'[entries'[d].prev].next = d
        BY <1>8, <3>0, <4>1, <4>2
      <4> QED
        BY <1>8, <3>0, <4>1, <4>3, <4>4
    <3> QED
      BY <3>1, <3>2
  <2> QED
    BY <2>1, <2>2 DEF List
<1> QED
  BY <1>8, <1>9, <1>10, <1>12, <1>14 DEF IInv

(* The list is left alone.                                                 *)
LEMMA SameList ==
    ASSUME IInv, UNCHANGED <<entries, first_entry>>,
           \A u \in VM : /\ InList(vm'[u]) \subseteq InList(vm[u])
                         /\ vm'[u].at = "ended" => vm'[u] = vm[u]
    PROVE  List'
<1>1. Reach' = Reach
  BY DEF Reach
<1> QED
  BY <1>1 DEF IInv, List

(* gdb is told of the entry that is in front.                              *)
LEMMA NotifyIInv ==
    ASSUME IInv, NEW v \in VM, Notify(v)
    PROVE  IInv'
<1> DEFINE w == vm[v]
           x == [w EXCEPT !.at = "told"]
           e == Head(w.blocks)
<1>1. vm \in [VM -> Vm] /\ w \in Vm /\ w.blocks # <<>> /\ VmOK(v)
  BY DEF IInv, Vms, VmOK, Notify
<1>2. /\ w.at = "registered" /\ mtx' = None /\ action_flag' = "none" /\ mtx = v
      /\ vm' = [vm EXCEPT ![v] = x] /\ gdb' = gdb \cup {e}
      /\ UNCHANGED <<symtab, entries, first_entry, relevant_entry>>
  <2>1. w.at = "registered"
    BY DEF Notify
  <2>2. mtx = v /\ action_flag = "register" /\ relevant_entry = e
    BY <2>1 DEF IInv, Descriptor
  <2> QED
    BY <1>1, <2>1, <2>2 DEF Notify, Told, config
<1>3. x \in Vm
  BY <1>1 DEF Vm
<1>4. /\ x.at = "told" /\ x.entry = w.entry /\ x.blocks = w.blocks /\ x.gdb = w.gdb
      /\ x.perf = w.perf /\ x.dump_file = w.dump_file /\ x.todo = w.todo
  BY <1>1 DEF Vm
<1> HIDE DEF x
<1>5. ToSet(w.blocks) = {e} \cup ToSet(Tail(w.blocks))
  BY <1>1, HeadEntry
<1>6. Vms' /\ vm'[v] = x /\ \A u \in VM : u # v => vm'[u] = vm[u]
  BY <1>1, <1>2, <1>3, <1>4, CriticalVms DEF VmOK
<1>7. Records'
  BY <1>2 DEF IInv, Records
<1>8. Descriptor'
  BY <1>2, <1>4, <1>6, NoneAssumption DEF IInv, Descriptor
<1>9. ToldOf'
  <2>1. /\ \A u \in VM : u # v => Known(vm'[u]) = Known(vm[u])
        /\ Known(vm'[v]) = {e} \cup Known(vm[v])
    BY <1>2, <1>4, <1>5, <1>6 DEF Known
  <2> HIDE DEF e
  <2> QED
    BY <1>2, <2>1 DEF IInv, ToldOf
<1>10. List'
  <2>1. \A u \in VM : InList(vm'[u]) = InList(vm[u])
    BY <1>2, <1>4, <1>6 DEF InList
  <2> QED
    BY <1>2, <1>4, <1>6, <2>1, SameList
<1> QED
  BY <1>6, <1>7, <1>8, <1>9, <1>10 DEF IInv

(* Cleanup begins with all entries of the VM.                              *)
LEMMA LockIInv ==
    ASSUME IInv, NEW v \in VM, Lock(v)
    PROVE  IInv'
<1> DEFINE w == vm[v]
           x == [w EXCEPT !.at = "cleanup", !.todo = w.blocks]
<1>1. vm \in [VM -> Vm] /\ w \in Vm /\ VmOK(v)
  BY DEF IInv, Vms
<1>2. /\ w.at = "idle" /\ mtx' = v /\ action_flag' = "unregister" /\ mtx = None
      /\ vm' = [vm EXCEPT ![v] = x]
      /\ UNCHANGED <<symtab, entries, first_entry, relevant_entry, gdb>>
  BY <1>1 DEF Lock, config
<1>3. x \in Vm
  BY <1>1 DEF Vm
<1>4. /\ x.at = "cleanup" /\ x.entry = w.entry /\ x.blocks = w.blocks /\ x.gdb = w.gdb
      /\ x.perf = w.perf /\ x.dump_file = w.dump_file /\ x.todo = w.blocks
  BY <1>1 DEF Vm
<1> HIDE DEF x
<1>5. Vms' /\ vm'[v] = x /\ \A u \in VM : u # v => vm'[u] = vm[u]
  BY <1>1, <1>2, <1>3, <1>4, CriticalVms DEF VmOK
<1>6. Records'
  BY <1>2 DEF IInv, Records
<1>7. Descriptor'
  BY <1>2, <1>4, <1>5, NoneAssumption DEF IInv, Descriptor
<1>8. \A u \in VM : Known(vm'[u]) = Known(vm[u]) /\ InList(vm'[u]) = InList(vm[u])
  BY <1>2, <1>4, <1>5 DEF Known, InList
<1>9. ToldOf'
  BY <1>2, <1>8 DEF IInv, ToldOf
<1>10. List'
  BY <1>2, <1>4, <1>5, <1>8, SameList
<1> QED
  BY <1>5, <1>6, <1>7, <1>9, <1>10 DEF IInv

(* Cleanup ends when none is left.                                         *)
LEMMA UnlockIInv ==
    ASSUME IInv, NEW v \in VM, Unlock(v)
    PROVE  IInv'
<1> DEFINE w == vm[v]
           x == [w EXCEPT !.at = "done"]
<1>1. vm \in [VM -> Vm] /\ w \in Vm /\ VmOK(v)
  BY DEF IInv, Vms
<1>2. /\ w.at = "cleanup" /\ w.todo = <<>> /\ mtx' = None /\ action_flag' = "none"
      /\ vm' = [vm EXCEPT ![v] = x]
      /\ UNCHANGED <<symtab, entries, first_entry, relevant_entry, gdb>>
  BY <1>1 DEF Unlock, config
<1>3. x \in Vm
  BY <1>1 DEF Vm
<1>4. /\ x.at = "done" /\ x.entry = w.entry /\ x.blocks = w.blocks /\ x.gdb = w.gdb
      /\ x.perf = w.perf /\ x.dump_file = w.dump_file /\ x.todo = w.todo
  BY <1>1 DEF Vm
<1> HIDE DEF x
<1>5. Vms' /\ vm'[v] = x /\ \A u \in VM : u # v => vm'[u] = vm[u]
  BY <1>1, <1>2, <1>3, <1>4, CriticalVms DEF VmOK
<1>6. Records'
  BY <1>2 DEF IInv, Records
<1>7. Descriptor'
  <2>1. mtx = v
    BY <1>2 DEF IInv, Descriptor
  <2> QED
    BY <1>2, <1>4, <1>5, <2>1, NoneAssumption DEF IInv, Descriptor
<1>8. \A u \in VM : Known(vm'[u]) = Known(vm[u]) /\ InList(vm'[u]) = InList(vm[u])
  <2>1. ToSet(w.todo) = {}
    BY <1>2 DEF ToSet
  <2> QED
    BY <1>2, <1>4, <1>5, <2>1 DEF Known, InList
<1>9. ToldOf'
  BY <1>2, <1>8 DEF IInv, ToldOf
<1>10. List'
  BY <1>2, <1>4, <1>5, <1>8, SameList
<1> QED
  BY <1>5, <1>6, <1>7, <1>9, <1>10 DEF IInv

(* The arena is taken back; nothing of it was left in the list.            *)
LEMMA ResetIInv ==
    ASSUME IInv, NEW v \in VM, barena_reset(v)
    PROVE  IInv'
<1> DEFINE w == vm[v]
           x == [w EXCEPT !.at = "freed"]
<1>1. vm \in [VM -> Vm] /\ w \in Vm /\ VmOK(v)
  BY DEF IInv, Vms
<1>2. /\ w.at = "done" /\ vm' = [vm EXCEPT ![v] = x]
      /\ UNCHANGED <<symtab, entries, first_entry, relevant_entry, gdb, mtx, action_flag>>
  BY <1>1 DEF barena_reset, config, shared
<1>3. x \in Vm
  BY <1>1 DEF Vm
<1>4. /\ x.at = "freed" /\ x.entry = w.entry /\ x.blocks = w.blocks /\ x.gdb = w.gdb
      /\ x.perf = w.perf /\ x.dump_file = w.dump_file /\ x.todo = w.todo
  BY <1>1 DEF Vm
<1> HIDE DEF x
<1>5. Vms' /\ vm'[v] = x /\ \A u \in VM : u # v => vm'[u] = vm[u]
  BY <1>1, <1>2, <1>3, <1>4, CriticalVms DEF VmOK
<1>6. Records'
  BY <1>2 DEF IInv, Records
<1>7. Descriptor'
  BY <1>2, <1>4, <1>5 DEF IInv, Descriptor
<1>8. \A u \in VM : Known(vm'[u]) = Known(vm[u]) /\ InList(vm'[u]) = InList(vm[u])
  BY <1>2, <1>4, <1>5 DEF Known, InList
<1>9. ToldOf'
  BY <1>2, <1>8 DEF IInv, ToldOf
<1>10. List'
  BY <1>2, <1>4, <1>5, <1>8, SameList
<1> QED
  BY <1>5, <1>6, <1>7, <1>9, <1>10 DEF IInv

(* A stutter, or a step that says of nothing here how it changes.          *)
LEMMA IdleIInv ==
    ASSUME IInv, UNCHANGED <<vm, entries, first_entry, action_flag, relevant_entry, mtx, gdb,
                             symtab>>
    PROVE  IInv'
<1>1. Vms'
  BY OtherVm DEF IInv, Vms
<1>2. Records' /\ Descriptor' /\ ToldOf'
  BY DEF IInv, Records, Descriptor, ToldOf
<1>3. List'
  BY SameList
<1> QED
  BY <1>1, <1>2, <1>3 DEF IInv

(* An entry is taken out.                                                  *)
LEMMA UnlinkEntry ==
    ASSUME Records, NEW e \in DOMAIN entries, 0 \notin DOMAIN entries,
           entries[e].prev # 0 => entries[entries[e].prev].next = e,
           entries' = Unlinked(e), first_entry' = first_entry
    PROVE  /\ DOMAIN entries' = DOMAIN entries
           /\ \A i \in DOMAIN entries :
                 /\ entries'[i].next = IF i = entries[e].prev THEN entries[e].next ELSE entries[i].next
                 /\ entries'[i].prev = IF i = entries[e].next THEN entries[e].prev ELSE entries[i].prev
           /\ relevant_entry' = e => Records'
           /\ Reach \ {e} \subseteq Reach'
<1> DEFINE p == entries[e].prev
           n == entries[e].next
<1>1. DOMAIN entries' = DOMAIN entries
  BY DEF Unlinked
<1>2. \A i \in DOMAIN entries :
         entries'[i] = [entries[i] EXCEPT !.prev = IF i = n THEN p ELSE @,
                                          !.next = IF i = p THEN n ELSE @]
  BY DEF Unlinked
<1>3. p \in DOMAIN entries \cup {0} /\ n \in DOMAIN entries \cup {0}
  BY DEF Records, Entry
<1>4. ASSUME NEW i \in DOMAIN entries
      PROVE  /\ entries'[i].next = IF i = p THEN n ELSE entries[i].next
             /\ entries'[i].prev = IF i = n THEN p ELSE entries[i].prev
             /\ entries'[i] = [info |-> entries'[i].info, next |-> entries'[i].next,
                               prev |-> entries'[i].prev]
  <2> DEFINE r == entries[i]
             q == IF i = n THEN p ELSE r.prev
             m == IF i = p THEN n ELSE r.next
             t == entries'[i]
  <2>1. r = [info |-> r.info, next |-> r.next, prev |-> r.prev]
    BY DEF Records, Entry
  <2>2. t = [r EXCEPT !.prev = q, !.next = m]
    BY <1>2
  <2> HIDE DEF r, q, m, t
  <2>3. t = [info |-> r.info, next |-> m, prev |-> q]
    BY <2>1, <2>2
  <2>4. t.next = m /\ t.prev = q /\ t = [info |-> t.info, next |-> t.next, prev |-> t.prev]
    BY <2>3
  <2> QED
    BY <2>4 DEF r, q, m, t
<1> HIDE DEF p, n
<1>5. ASSUME relevant_entry' = e PROVE Records'
  <2>1. entries' \in Seq(ToSet(entries'))
    <3>1. DOMAIN entries = 1..Len(entries) /\ Len(entries) \in Nat
      BY DEF Records
    <3>2. entries' \in [1..Len(entries) -> ToSet(entries')]
      BY <3>1 DEF ToSet, Unlinked
    <3> QED
      BY <3>1, <3>2, FunctionIsList
  <2>2. \A i \in DOMAIN entries : Entry(entries'[i], DOMAIN entries)
    <3> SUFFICES ASSUME NEW i \in DOMAIN entries PROVE Entry(entries'[i], DOMAIN entries)
      OBVIOUS
    <3>1. entries[i].next \in DOMAIN entries \cup {0} /\ entries[i].prev \in DOMAIN entries \cup {0}
      BY DEF Records, Entry
    <3>2. entries'[i].next \in DOMAIN entries \cup {0} /\ entries'[i].prev \in DOMAIN entries \cup {0}
      BY <1>3, <1>4, <3>1
    <3> QED
      BY <1>4, <3>2 DEF Entry
  <2>3. {first_entry', relevant_entry'} \subseteq DOMAIN entries \cup {0}
    BY <1>5 DEF Records
  <2> QED
    BY <1>1, <2>1, <2>2, <2>3 DEF Records
<1>6. ASSUME NEW d \in Reach, d # e PROVE d \in Reach'
  <2>1. SUFFICES ASSUME NEW S \in SUBSET DOMAIN entries, first_entry \in S,
                        \A i \in S : entries'[i].next \in S \cup {0}
                 PROVE  d \in S
    BY <1>1, <1>6 DEF Reach
  <2>2. CASE p \in S
    <3> DEFINE R == S \cup {e}
    <3>1. entries[p].next = e
      BY <2>2 DEF p
    <3>2. n \in S \cup {0} /\ entries[e].next = n
      BY <1>4, <2>1, <2>2 DEF n
    <3>3. \A i \in R : entries[i].next \in R \cup {0}
      BY <1>4, <2>1, <3>1, <3>2
    <3>4. R \in SUBSET DOMAIN entries /\ first_entry \in R
      BY <2>1
    <3> HIDE DEF R
    <3>5. d \in R
      BY <1>6, <3>3, <3>4 DEF Reach
    <3> QED
      BY <1>6, <3>5 DEF R
  <2>3. CASE p \notin S
    <3>1. \A i \in S : entries[i].next \in S \cup {0}
      BY <1>4, <2>1, <2>3
    <3> QED
      BY <1>6, <2>1, <3>1 DEF Reach
  <2> QED
    BY <2>2, <2>3
<1> QED
  BY <1>1, <1>4, <1>5, <1>6 DEF p, n

(* One entry is unlinked: the others stay in the list.                     *)
LEMMA UnregisterIInv ==
    ASSUME IInv, NEW v \in VM, Unregister(v)
    PROVE  IInv'
<1> DEFINE w == vm[v]
           x == [w EXCEPT !.todo = Tail(@)]
           t == Tail(w.todo)
<1>1. /\ vm \in [VM -> Vm] /\ w \in Vm /\ VmOK(v) /\ w.todo \in Seq(Nat)
      /\ w.at = "cleanup" /\ w.todo # <<>> /\ action_flag = "unregister" /\ mtx = v
  <2>1. vm \in [VM -> Vm] /\ w \in Vm /\ VmOK(v)
    BY DEF IInv, Vms
  <2>2. w.at = "cleanup" /\ w.todo # <<>>
    BY DEF Unregister
  <2>3. action_flag = "unregister" /\ mtx = v
    BY <2>2 DEF IInv, Descriptor
  <2> QED
    BY <2>1, <2>2, <2>3 DEF Vm
<1>2. /\ t \in Seq(Nat) /\ ToSet(w.todo) = {Head(w.todo)} \cup ToSet(t)
      /\ IsInjective(t) /\ Head(w.todo) \notin ToSet(t)
  BY <1>1, HeadFacts DEF VmOK
<1>3. 0 \notin DOMAIN entries
  BY EntryIds
<1>4. PICK e \in DOMAIN entries : e = Head(w.todo)
  BY <1>1, <1>2 DEF VmOK
<1>5. /\ vm' = [vm EXCEPT ![v] = x] /\ gdb' = gdb \ {e} /\ entries' = Unlinked(e)
      /\ relevant_entry' = e /\ UNCHANGED <<symtab, first_entry, action_flag, mtx>>
  BY <1>1, <1>4 DEF Unregister, Told, config
<1>6. x \in Vm
  BY <1>1, <1>2 DEF Vm
<1>7. /\ x.at = "cleanup" /\ x.entry = w.entry /\ x.blocks = w.blocks /\ x.gdb = w.gdb
      /\ x.perf = w.perf /\ x.dump_file = w.dump_file /\ x.todo = t
  BY <1>1 DEF Vm
<1> HIDE DEF x
<1>8. /\ e \in InList(vm[v])
      /\ entries[e].prev # 0 => entries[entries[e].prev].next = e
  <2>1. e \in InList(vm[v])
    BY <1>1, <1>2, <1>4 DEF InList
  <2> QED
    BY <2>1 DEF IInv, List
<1>9. /\ DOMAIN entries' = DOMAIN entries
      /\ \A i \in DOMAIN entries :
            /\ entries'[i].next = IF i = entries[e].prev THEN entries[e].next ELSE entries[i].next
            /\ entries'[i].prev = IF i = entries[e].next THEN entries[e].prev ELSE entries[i].prev
      /\ Records'
      /\ Reach \ {e} \subseteq Reach'
  BY <1>3, <1>5, <1>8, UnlinkEntry DEF IInv
<1>10. Vms' /\ vm'[v] = x /\ \A u \in VM : u # v => vm'[u] = vm[u]
  <2>1. ToSet(t) \subseteq ToSet(w.blocks)
    BY <1>1, <1>2 DEF VmOK
  <2> QED
    BY <1>1, <1>2, <1>5, <1>6, <1>7, <1>9, <2>1, CriticalVms
<1>11. Descriptor'
  BY <1>1, <1>5, <1>7, <1>10 DEF IInv, Descriptor
<1>12. \A u \in VM : u # v => e \notin ToSet(vm[u].blocks)
  <2>1. e \in ToSet(w.blocks)
    BY <1>1, <1>2, <1>4 DEF VmOK
  <2> QED
    BY <2>1 DEF IInv, Vms
<1>13. ASSUME NEW u \in VM, u # v
       PROVE  /\ Known(vm'[u]) = Known(vm[u]) /\ InList(vm'[u]) = InList(vm[u])
              /\ e \notin Known(vm[u]) /\ e \notin InList(vm[u])
  <2> DEFINE s == vm[u]
  <2>1. /\ e \notin ToSet(s.blocks) /\ ToSet(s.todo) \subseteq ToSet(s.blocks)
        /\ s.at \in {"ended", "registered"} => s.blocks # <<>>
        /\ s.blocks \in Seq(Nat)
    BY <1>12, <1>13 DEF IInv, Vms, VmOK, Vm
  <2>2. s.at \in {"ended", "registered"} => ToSet(Tail(s.blocks)) \subseteq ToSet(s.blocks)
    <3> DEFINE b == s.blocks
    <3>1. s.at \in {"ended", "registered"} => b \in Seq(Nat) /\ b # <<>>
      BY <2>1
    <3> HIDE DEF b
    <3>2. b \in Seq(Nat) /\ b # <<>> => ToSet(b) = {Head(b)} \cup ToSet(Tail(b))
      BY HeadFacts
    <3>3. b \in Seq(Nat) /\ b # <<>> => ToSet(Tail(b)) \subseteq ToSet(b)
      BY <3>2
    <3> QED
      BY <3>1, <3>3 DEF b
  <2>3. vm'[u] = s
    BY <1>10, <1>13
  <2> HIDE DEF s
  <2>4. e \notin Known(s) /\ e \notin InList(s)
    BY <2>1, <2>2 DEF Known, InList
  <2> QED
    BY <2>3, <2>4 DEF s
<1>14. /\ Known(vm[v]) = {e} \cup ToSet(t) /\ InList(vm[v]) = {e} \cup ToSet(t)
       /\ Known(vm'[v]) = ToSet(t) /\ InList(vm'[v]) = ToSet(t) /\ e \notin ToSet(t)
  BY <1>1, <1>2, <1>4, <1>7, <1>10 DEF Known, InList
<1> HIDE DEF t
<1>15. ToldOf'
  BY <1>5, <1>13, <1>14 DEF IInv, ToldOf
<1>16. List'
  <2>1. ASSUME NEW u \in VM, vm'[u].at = "ended"
        PROVE  Fresh(Head(vm'[u].blocks), entries', first_entry')
    <3>1. u # v /\ vm'[u] = vm[u]
      BY <1>7, <1>10, <2>1
    <3> DEFINE f == Head(vm[u].blocks)
    <3>2. f \in DOMAIN entries /\ f # 0 /\ Fresh(f, entries, first_entry)
      <4>1. vm[u].blocks # <<>>
        BY <2>1, <3>1 DEF IInv, Vms, VmOK
      <4> QED
        BY <2>1, <3>1, <4>1, HeadEntry DEF IInv, List
    <3> HIDE DEF f
    <3>3. entries[e].next # f /\ (entries[e].prev = f => FALSE)
      BY <1>3, <1>8, <3>2 DEF Fresh
    <3>4. Fresh(f, entries', first_entry')
      BY <1>5, <1>9, <3>2, <3>3 DEF Fresh
    <3> QED
      BY <3>1, <3>4 DEF f
  <2>2. ASSUME NEW u \in VM, NEW d \in InList(vm'[u])
        PROVE  /\ d \in Reach'
               /\ first_entry' # 0
               /\ entries'[d].prev # 0 => entries'[entries'[d].prev].next = d
    <3>1. d \in InList(vm[u]) /\ d # e
      BY <1>13, <1>14
    <3>2. /\ d \in Reach /\ first_entry # 0
          /\ entries[d].prev # 0 => entries[entries[d].prev].next = d
      BY <3>1 DEF IInv, List
    <3>3. /\ d \in DOMAIN entries /\ d # 0 /\ entries[d].prev \in DOMAIN entries \cup {0}
          /\ entries[e].prev \in DOMAIN entries \cup {0}
      BY <1>3, <3>2 DEF Reach, IInv, Records, Entry
    <3>4. d \in Reach' /\ first_entry' # 0
      BY <1>5, <1>9, <3>1, <3>2
    <3>5. CASE d = entries[e].next
      BY <1>9, <3>3, <3>4, <3>5
    <3>6. CASE d # entries[e].next
      <4>1. entries'[d].prev = entries[d].prev
        BY <1>9, <3>3, <3>6
      <4>2. entries[d].prev # 0 => entries[d].prev # entries[e].prev
        BY <1>8, <3>1, <3>2
      <4> QED
        BY <1>9, <3>2, <3>3, <3>4, <4>1, <4>2
    <3> QED
      BY <3>5, <3>6
  <2> QED
    BY <2>1, <2>2 DEF List
<1> QED
  BY <1>9, <1>10, <1>11, <1>15, <1>16 DEF IInv

-----------------------------------------------------------------------------
(* Every step keeps the invariant.                                         *)
LEMMA NextIInv == IInv /\ [Next]_vars => IInv'
<1> SUFFICES ASSUME IInv, [Next]_vars PROVE IInv'
  OBVIOUS
<1>1. CASE UNCHANGED vars
  BY <1>1, IdleIInv DEF vars, shared, config
<1>2. ASSUME NEW v \in VM, NEW entry \in Entries, begin_block(v, entry) PROVE IInv'
  BY <1>2, BeginBlockIInv
<1>3. ASSUME NEW v \in VM, jit_opcode(v) PROVE IInv'
  BY <1>3, JitOpcodeIInv
<1>4. ASSUME NEW v \in VM, gdb_end_block(v) PROVE IInv'
  BY <1>4, GdbEndBlockIInv
<1>5. ASSUME NEW v \in VM, perf_end_block(v) PROVE IInv'
  BY <1>5, PerfEndBlockIInv
<1>6. ASSUME NEW v \in VM, Critical(v) PROVE IInv'
  <2>1. ASSUME Stray(v) PROVE IInv'
    BY <2>1, IdleIInv DEF Stray, config
  <2> QED
    BY <1>6, <2>1, RegisterIInv, NotifyIInv, UnregisterIInv, UnlockIInv DEF Critical
<1>7. ASSUME NEW v \in VM, Lock(v) PROVE IInv'
  BY <1>7, LockIInv
<1>8. ASSUME NEW v \in VM, barena_reset(v) PROVE IInv'
  BY <1>8, ResetIInv
<1> QED
  BY <1>1, <1>2, <1>3, <1>4, <1>5, <1>6, <1>7, <1>8 DEF Next

(* The invariant holds in every state that the hooks can reach.            *)
THEOREM Invariance == Spec => []IInv
BY InitIInv, NextIInv, PTL DEF Spec

(* The two flags are set and cleared, never anything else.                 *)
Flags == in_order \in BOOLEAN /\ stray \in BOOLEAN

LEMMA FlagsKept == Flags /\ [Next]_vars => Flags'
<1> SUFFICES ASSUME Flags, [Next]_vars PROVE Flags'
  OBVIOUS
<1>1. CASE UNCHANGED vars
  BY <1>1 DEF vars, shared, Flags
<1>2. ASSUME NEW v \in VM, Lock(v) PROVE Flags'
  <2>1. /\ in_order' = (in_order /\ first_entry \notin ToSet(vm[v].blocks))
        /\ stray' = stray
    BY <1>2 DEF Lock
  <2> QED
    BY <2>1 DEF Flags
<1>3. ASSUME NEW v \in VM, Stray(v) PROVE Flags'
  BY <1>3 DEF Stray, Flags
<1>4. ASSUME NEW v \in VM, UNCHANGED <<in_order, stray>> PROVE Flags'
  BY <1>4 DEF Flags
<1> QED
  BY <1>1, <1>2, <1>3, <1>4
     DEF Next, Critical, begin_block, jit_opcode, gdb_end_block, perf_end_block, Register,
         Notify, Unregister, Unlock, barena_reset, shared

(* The mutex of gdb/hook.c is held exactly in the critical sections of     *)
(* gdb_end_block and buxn_jit_cleanup_gdb_hook, and every link leads to an *)
(* entry, for any number of VMs.                                           *)
THEOREM TypeCorrect == Spec => []TypeOK
<1>1. ASSUME IInv, Flags PROVE TypeOK
  <2>1. \A e \in DOMAIN entries : {entries[e].next, entries[e].prev} \subseteq DOMAIN entries \cup {0}
    BY <1>1 DEF IInv, Records, Entry
  <2>2. \A v \in VM : vm[v].at \in {"idle", "block", "ended", "registered", "told",
                                   "cleanup", "done", "freed"}
    BY <1>1 DEF IInv, Vms, Vm
  <2>3. gdb \subseteq DOMAIN entries
    <3>1. ASSUME NEW v \in VM PROVE Known(vm[v]) \subseteq DOMAIN entries
      <4> DEFINE s == vm[v]
      <4>1. /\ ToSet(s.blocks) \subseteq DOMAIN entries /\ ToSet(s.todo) \subseteq DOMAIN entries
            /\ s.at \in {"ended", "registered"} => s.blocks # <<>>
        BY <1>1 DEF IInv, Vms, VmOK
      <4>2. s.blocks # <<>> => ToSet(Tail(s.blocks)) \subseteq ToSet(s.blocks)
        BY <1>1, HeadEntry
      <4> HIDE DEF s
      <4>3. Known(s) \subseteq DOMAIN entries
        BY <4>1, <4>2 DEF Known
      <4> QED
        BY <4>3 DEF s
    <3> QED
      BY <1>1, <3>1 DEF IInv, ToldOf
  <2>4. {in_order, stray} \subseteq BOOLEAN
    BY <1>1 DEF Flags
  <2> QED
    BY <1>1, <2>1, <2>2, <2>3, <2>4 DEF IInv, Records, Descriptor, TypeOK
<1>2. Spec => []Flags
  <2>1. Init => Flags
    BY DEF Init, Flags
  <2> QED
    BY <2>1, FlagsKept, PTL DEF Spec
<1> QED
  BY <1>1, <1>2, Invariance, PTL

(* addr_mapping.h neither loses a chunk, nor gives it to two lists, nor    *)
(* fills it beyond its end, for every chunk size and every length of block. *)
THEOREM NoChunkLost == Spec => []ChunksOwned
<1>1. IInv => ChunksOwned
  BY DEF IInv, Vms, VmOK, ChunksOwned
<1> QED
  BY <1>1, Invariance, PTL

(* Each hook holds the mappings of the block that is compiled and of no    *)
(* other, in the order of its opcodes, although the chunks they are in     *)
(* were used before.                                                       *)
THEOREM OnlyOwnMappings == Spec => []OwnMappings
<1>1. ASSUME IInv PROVE OwnMappings
  <2>1. \A v \in VM : Holds(v)
    BY <1>1 DEF IInv, Vms
  <2> QED
    BY <2>1 DEF OwnMappings, Holds, All
<1> QED
  BY <1>1, Invariance, PTL

(* Whenever nobody is in a critical section.                               *)
LEMMA LiveIs ==
    ASSUME IInv, mtx = None
    PROVE  \A e : /\ e \in Live <=> \E v \in VM : e \in Known(vm[v])
                  /\ e \in Live <=> \E v \in VM : e \in InList(vm[v])
<1> DEFINE L(v) == ToSet(IF vm[v].at = "ended" THEN Tail(vm[v].blocks) ELSE vm[v].blocks)
<1>1. Live = UNION { L(v) : v \in { u \in VM : vm[u].at \notin {"done", "freed"} } }
  BY DEF Live
<1>2. \A v \in VM : vm[v].at \notin {"registered", "cleanup"}
  BY NoneAssumption DEF IInv, Descriptor
<1>3. \A v \in VM : /\ vm[v].at \notin {"done", "freed"} => Known(vm[v]) = L(v) /\ InList(vm[v]) = L(v)
                    /\ vm[v].at \in {"done", "freed"} => Known(vm[v]) = {} /\ InList(vm[v]) = {}
  BY <1>2 DEF Known, InList
<1> HIDE DEF L
<1> QED
  BY <1>1, <1>3

(* gdb knows the code of exactly the VMs that were not cleaned up, for any *)
(* number of VMs and of blocks.                                            *)
THEOREM ToldOfAll == Spec => []GdbKnows
<1>1. ASSUME IInv, mtx = None PROVE gdb = Live
  BY <1>1, LiveIs DEF IInv, ToldOf
<1>2. IInv => GdbKnows
  BY <1>1 DEF GdbKnows
<1> QED
  BY <1>2, Invariance, PTL

-----------------------------------------------------------------------------
(***************************************************************************)
(* The list while nobody was cleaned up who had registered last. What is   *)
(* Linked leads nowhere else, in either direction, and starts the list. It *)
(* is of VMs that were not cleaned up, so none of it was given back.       *)
(***************************************************************************)
Linked == UNION { InList(vm[v]) : v \in VM }

Clean ==
    in_order =>
        /\ ~stray
        /\ first_entry \in Linked \cup {0}
        /\ first_entry # 0 => entries[first_entry].prev = 0
        /\ \A v \in VM : vm[v].at = "cleanup" => first_entry \notin ToSet(vm[v].blocks)
        /\ \A e \in Linked :
              /\ entries[e].next \in Linked \cup {0} /\ entries[e].prev \in Linked \cup {0}
              /\ entries[e].next # 0 => entries[entries[e].next].prev = e

(* What is linked is an entry of a VM that was not cleaned up.             *)
LEMMA LinkedFacts ==
    ASSUME IInv
    PROVE  /\ Linked \subseteq DOMAIN entries /\ 0 \notin Linked
           /\ Linked \cap Freed = {} /\ 0 \notin Freed
           /\ \A e \in Linked : e \in Reach /\ first_entry # 0
           /\ \A e \in Linked : entries[e].prev # 0 => entries[entries[e].prev].next = e
<1>1. ASSUME NEW v \in VM
      PROVE  /\ InList(vm[v]) \subseteq ToSet(vm[v].blocks)
             /\ vm[v].at = "freed" => InList(vm[v]) = {}
  <2> DEFINE w == vm[v]
  <2>1. ToSet(w.todo) \subseteq ToSet(w.blocks)
    BY DEF IInv, Vms, VmOK
  <2>2. w.at = "ended" => ToSet(Tail(w.blocks)) \subseteq ToSet(w.blocks)
    <3>1. w.at = "ended" => w.blocks # <<>>
      BY DEF IInv, Vms, VmOK
    <3> QED
      BY <3>1, HeadEntry
  <2> HIDE DEF w
  <2>3. InList(w) \subseteq ToSet(w.blocks) /\ (w.at = "freed" => InList(w) = {})
    BY <2>1, <2>2 DEF InList
  <2> QED
    BY <2>3 DEF w
<1>2. /\ \A v \in VM : ToSet(vm[v].blocks) \subseteq DOMAIN entries
      /\ \A u, v \in VM : u # v => ToSet(vm[u].blocks) \cap ToSet(vm[v].blocks) = {}
      /\ 0 \notin DOMAIN entries
  <2>1. 0 \notin DOMAIN entries
    BY EntryIds
  <2> QED
    BY <2>1 DEF IInv, Vms, VmOK
<1>3. Linked \subseteq DOMAIN entries /\ 0 \notin Linked /\ 0 \notin Freed
  BY <1>1, <1>2 DEF Linked, Freed
<1>4. Linked \cap Freed = {}
  BY <1>1, <1>2 DEF Linked, Freed
<1>5. /\ \A e \in Linked : e \in Reach /\ first_entry # 0
      /\ \A e \in Linked : entries[e].prev # 0 => entries[entries[e].prev].next = e
  BY DEF IInv, List, Linked
<1> QED
  BY <1>3, <1>4, <1>5

(* Nothing of the list changes.                                            *)
LEMMA CleanSame ==
    ASSUME IInv, Clean, first_entry' = first_entry, stray' = stray,
           in_order' => in_order,
           \A i \in DOMAIN entries : entries'[i] = entries[i],
           \A u \in VM : InList(vm'[u]) = InList(vm[u]),
           in_order' => \A u \in VM : vm'[u].at = "cleanup" => first_entry \notin ToSet(vm'[u].blocks)
    PROVE  Clean'
<1>1. Linked' = Linked
  BY DEF Linked
<1>2. Linked \subseteq DOMAIN entries
  BY LinkedFacts
<1> QED
  BY <1>1, <1>2 DEF Clean

(* An entry is put before the first.                                       *)
LEMMA CleanRegister ==
    ASSUME IInv, Clean, NEW v \in VM, Register(v), in_order'
    PROVE  Clean'
<1> DEFINE w == vm[v]
           x == [w EXCEPT !.at = "registered"]
<1>1. PICK e \in DOMAIN entries :
         /\ e = Head(w.blocks) /\ e # 0
         /\ ToSet(w.blocks) = {e} \cup ToSet(Tail(w.blocks))
         /\ \A u \in VM : u # v => e \notin ToSet(vm[u].blocks)
  <2>1. w.blocks # <<>>
    BY DEF IInv, Vms, VmOK, Register
  <2> QED
    BY <2>1, HeadEntry
<1>2. /\ w.at = "ended" /\ first_entry' = e /\ vm' = [vm EXCEPT ![v] = x]
      /\ entries' = [i \in DOMAIN entries |->
            CASE i = e -> [entries[i] EXCEPT !.next = first_entry]
              [] i = first_entry -> [entries[i] EXCEPT !.prev = e]
              [] OTHER -> entries[i]]
      /\ in_order' = in_order /\ stray' = stray
  BY <1>1 DEF Register, IInv, Vms
<1>3. Fresh(e, entries, first_entry)
  BY <1>1, <1>2 DEF IInv, List
<1>4. 0 \notin DOMAIN entries
  BY EntryIds
<1>5. \A i \in DOMAIN entries :
         /\ entries'[i].next = IF i = e THEN first_entry ELSE entries[i].next
         /\ entries'[i].prev = IF i = first_entry THEN e ELSE entries[i].prev
  BY <1>1, <1>2, <1>3, <1>4, PushEntry DEF IInv
<1>6. /\ vm'[v].at = "registered" /\ vm'[v].blocks = w.blocks
      /\ \A u \in VM : u # v => vm'[u] = vm[u]
  BY <1>2 DEF IInv, Vms, Vm
<1>7. Linked' = Linked \cup {e}
  <2>1. /\ \A u \in VM : u # v => InList(vm'[u]) = InList(vm[u])
        /\ InList(vm'[v]) = {e} \cup InList(vm[v])
    BY <1>1, <1>2, <1>6 DEF InList
  <2> QED
    BY <2>1 DEF Linked
<1>8. /\ ~stray /\ first_entry \in Linked \cup {0}
      /\ first_entry # 0 => entries[first_entry].prev = 0
      /\ \A u \in VM : vm[u].at = "cleanup" => first_entry \notin ToSet(vm[u].blocks)
      /\ \A d \in Linked :
            /\ entries[d].next \in Linked \cup {0} /\ entries[d].prev \in Linked \cup {0}
            /\ entries[d].next # 0 => entries[entries[d].next].prev = d
  BY <1>2 DEF Clean
<1>9. Linked \subseteq DOMAIN entries /\ 0 \notin Linked
  BY LinkedFacts
<1>10. /\ e # first_entry /\ entries[e].prev = 0 /\ \A i \in DOMAIN entries : entries[i].next # e
  BY <1>3 DEF Fresh
<1>11. entries'[e].next = first_entry /\ entries'[e].prev = 0
  BY <1>5, <1>10
<1>12. first_entry # 0 => entries'[first_entry].prev = e
  BY <1>5, <1>8, <1>9
<1>13. ASSUME NEW d \in Linked
       PROVE  /\ entries'[d].next \in Linked \cup {e, 0} /\ entries'[d].prev \in Linked \cup {e, 0}
              /\ entries'[d].next # 0 => entries'[entries'[d].next].prev = d
  <2>1. d \in DOMAIN entries /\ d # 0
    BY <1>9
  <2>2. CASE d = e
    BY <1>8, <1>11, <1>12, <2>2
  <2>3. CASE d # e
    <3>1. entries'[d].next = entries[d].next /\ entries'[d].prev \in Linked \cup {e, 0}
      BY <1>5, <1>8, <2>1, <2>3
    <3>2. entries[d].next # 0 => entries[d].next # first_entry
      BY <1>8, <2>1
    <3>3. entries[d].next # 0 => entries'[entries[d].next].prev = d
      BY <1>5, <1>8, <1>9, <3>2
    <3> QED
      BY <1>8, <3>1, <3>3
  <2> QED
    BY <2>2, <2>3
<1>14. \A d \in Linked' :
          /\ entries'[d].next \in Linked' \cup {0} /\ entries'[d].prev \in Linked' \cup {0}
          /\ entries'[d].next # 0 => entries'[entries'[d].next].prev = d
  BY <1>7, <1>8, <1>11, <1>12, <1>13
<1>15. \A u \in VM : vm'[u].at = "cleanup" => e \notin ToSet(vm'[u].blocks)
  BY <1>1, <1>6
<1> QED
  BY <1>2, <1>7, <1>8, <1>11, <1>14, <1>15 DEF Clean

(* An entry that is not the first is taken out.                            *)
LEMMA CleanUnregister ==
    ASSUME IInv, Clean, NEW v \in VM, Unregister(v), in_order'
    PROVE  Clean'
<1> DEFINE w == vm[v]
           x == [w EXCEPT !.todo = Tail(@)]
           t == Tail(w.todo)
<1>1. /\ vm \in [VM -> Vm] /\ w \in Vm /\ VmOK(v) /\ w.todo \in Seq(Nat)
      /\ w.at = "cleanup" /\ w.todo # <<>>
  BY DEF IInv, Vms, Vm, Unregister
<1>2. /\ ToSet(w.todo) = {Head(w.todo)} \cup ToSet(t) /\ Head(w.todo) \notin ToSet(t)
  BY <1>1, HeadFacts DEF VmOK
<1>3. PICK e \in DOMAIN entries : e = Head(w.todo)
  BY <1>1, <1>2 DEF VmOK
<1>4. /\ vm' = [vm EXCEPT ![v] = x] /\ entries' = Unlinked(e) /\ first_entry' = first_entry
      /\ in_order' = in_order /\ stray' = stray /\ relevant_entry' = e
  BY <1>1, <1>3 DEF Unregister
<1>5. /\ vm'[v].at = "cleanup" /\ vm'[v].blocks = w.blocks /\ vm'[v].todo = t
      /\ \A u \in VM : u # v => vm'[u] = vm[u]
  BY <1>1, <1>4 DEF Vm
<1>6. /\ e \in ToSet(w.blocks) /\ e \in InList(w)
      /\ \A u \in VM : u # v => e \notin ToSet(vm[u].blocks)
  <2>1. e \in ToSet(w.blocks) /\ e \in InList(w)
    BY <1>1, <1>2, <1>3 DEF VmOK, InList
  <2> QED
    BY <2>1 DEF IInv, Vms
<1>7. e \in Linked
  BY <1>6 DEF Linked
<1>8. /\ Linked \subseteq DOMAIN entries /\ 0 \notin Linked
      /\ \A d \in Linked : entries[d].prev # 0 => entries[entries[d].prev].next = d
  BY LinkedFacts
<1>9. \A i \in DOMAIN entries :
         /\ entries'[i].next = IF i = entries[e].prev THEN entries[e].next ELSE entries[i].next
         /\ entries'[i].prev = IF i = entries[e].next THEN entries[e].prev ELSE entries[i].prev
  <2>1. 0 \notin DOMAIN entries
    BY EntryIds
  <2> QED
    BY <1>4, <1>7, <1>8, <2>1, UnlinkEntry DEF IInv
<1>10. Linked' = Linked \ {e}
  <2>1. ASSUME NEW u \in VM, u # v PROVE InList(vm'[u]) = InList(vm[u]) /\ e \notin InList(vm[u])
    <3> DEFINE s == vm[u]
    <3>1. /\ e \notin ToSet(s.blocks) /\ ToSet(s.todo) \subseteq ToSet(s.blocks)
          /\ s.at = "ended" => s.blocks # <<>>
      BY <1>6, <2>1 DEF IInv, Vms, VmOK
    <3>2. s.at = "ended" => ToSet(Tail(s.blocks)) \subseteq ToSet(s.blocks)
      BY <3>1, HeadEntry
    <3>3. vm'[u] = s
      BY <1>5, <2>1
    <3> HIDE DEF s
    <3>4. e \notin InList(s)
      BY <3>1, <3>2 DEF InList
    <3> QED
      BY <3>3, <3>4 DEF s
  <2>2. InList(vm[v]) = {e} \cup ToSet(t) /\ InList(vm'[v]) = ToSet(t) /\ e \notin ToSet(t)
    BY <1>1, <1>2, <1>3, <1>5 DEF InList
  <2> QED
    BY <2>1, <2>2 DEF Linked
<1>11. /\ ~stray /\ first_entry \in Linked \cup {0}
       /\ first_entry # 0 => entries[first_entry].prev = 0
       /\ \A u \in VM : vm[u].at = "cleanup" => first_entry \notin ToSet(vm[u].blocks)
       /\ \A d \in Linked :
             /\ entries[d].next \in Linked \cup {0} /\ entries[d].prev \in Linked \cup {0}
             /\ entries[d].next # 0 => entries[entries[d].next].prev = d
  BY <1>4 DEF Clean
<1> HIDE DEF x, t
<1>12. first_entry # e
  BY <1>1, <1>6, <1>11
<1>13. first_entry # 0 => entries'[first_entry].prev = 0
  <2>1. first_entry # 0 => first_entry # entries[e].next
    BY <1>7, <1>8, <1>11
  <2> QED
    BY <1>8, <1>9, <1>11, <2>1
<1>14. ASSUME NEW d \in Linked, d # e
       PROVE  /\ entries'[d].next \in (Linked \ {e}) \cup {0}
              /\ entries'[d].prev \in (Linked \ {e}) \cup {0}
              /\ entries'[d].next # 0 => entries'[entries'[d].next].prev = d
  <2>1. d \in DOMAIN entries /\ d # 0 /\ e # 0
    BY <1>7, <1>8
  <2>2. CASE d = entries[e].prev
    <3>1. entries'[d].next = entries[e].next
      BY <1>9, <2>1, <2>2
    <3>2. entries[e].next # e
      BY <1>7, <1>11, <1>14, <2>1, <2>2
    <3>3. entries[e].next # 0 => entries'[entries[e].next].prev = d
      BY <1>7, <1>8, <1>9, <1>11, <2>2
    <3>4. entries'[d].prev \in (Linked \ {e}) \cup {0}
      <4>1. CASE d = entries[e].next
        BY <1>9, <1>11, <1>14, <2>1, <2>2, <4>1
      <4>2. CASE d # entries[e].next
        <5>1. entries'[d].prev = entries[d].prev
          BY <1>9, <2>1, <4>2
        <5>2. entries[d].prev # e
          BY <1>8, <1>14, <2>1, <4>2
        <5> QED
          BY <1>11, <5>1, <5>2
      <4> QED
        BY <4>1, <4>2
    <3> QED
      BY <1>7, <1>11, <3>1, <3>2, <3>3, <3>4
  <2>3. CASE d # entries[e].prev
    <3>1. entries'[d].next = entries[d].next /\ entries[d].next # e
      BY <1>9, <1>11, <2>1, <2>3
    <3>2. entries[d].next # 0 => entries[d].next # entries[e].next
      BY <1>7, <1>11, <1>14
    <3>3. entries[d].next # 0 => entries'[entries[d].next].prev = d
      BY <1>8, <1>9, <1>11, <3>2
    <3>4. entries'[d].prev \in (Linked \ {e}) \cup {0}
      <4>1. CASE d = entries[e].next
        <5>1. entries'[d].prev = entries[e].prev
          BY <1>9, <2>1, <4>1
        <5>2. entries[e].prev # e
          BY <1>7, <1>8, <1>14, <2>1, <4>1
        <5> QED
          BY <1>7, <1>11, <5>1, <5>2
      <4>2. CASE d # entries[e].next
        <5>1. entries'[d].prev = entries[d].prev
          BY <1>9, <2>1, <4>2
        <5>2. entries[d].prev # e
          BY <1>8, <1>14, <2>1, <4>2
        <5> QED
          BY <1>11, <5>1, <5>2
      <4> QED
        BY <4>1, <4>2
    <3> QED
      BY <1>11, <3>1, <3>3, <3>4
  <2> QED
    BY <2>2, <2>3
<1>15. \A u \in VM : vm'[u].at = "cleanup" => first_entry' \notin ToSet(vm'[u].blocks)
  BY <1>1, <1>4, <1>5, <1>11
<1>16. ~stray' /\ first_entry' \in Linked' \cup {0}
  BY <1>4, <1>10, <1>11, <1>12
<1>17. first_entry' # 0 => entries'[first_entry'].prev = 0
  BY <1>4, <1>13
<1>18. \A d \in Linked' :
          /\ entries'[d].next \in Linked' \cup {0} /\ entries'[d].prev \in Linked' \cup {0}
          /\ entries'[d].next # 0 => entries'[entries'[d].next].prev = d
  BY <1>10, <1>14
<1> QED
  BY <1>15, <1>16, <1>17, <1>18 DEF Clean

(* No memory that was given back is written.                               *)
LEMMA CleanStray ==
    ASSUME IInv, Clean, NEW v \in VM, Stray(v)
    PROVE  ~in_order
<1> SUFFICES ASSUME in_order PROVE FALSE
  OBVIOUS
<1>1. /\ Linked \cap Freed = {} /\ 0 \notin Freed
      /\ first_entry \in Linked \cup {0}
      /\ \A e \in Linked : entries[e].next \in Linked \cup {0} /\ entries[e].prev \in Linked \cup {0}
  BY LinkedFacts DEF Clean
<1>2. vm[v].at = "cleanup" /\ vm[v].todo # <<>> => Head(vm[v].todo) \in Linked
  <2>1. vm[v].todo \in Seq(Nat)
    BY DEF IInv, Vms, Vm
  <2>2. vm[v].todo # <<>> => Head(vm[v].todo) \in ToSet(vm[v].todo)
    BY <2>1, HeadIn
  <2> QED
    BY <2>2 DEF Linked, InList
<1>3. first_entry \notin Freed
  BY <1>1
<1>4. ASSUME vm[v].at = "cleanup", vm[v].todo # <<>>
      PROVE  {entries[Head(vm[v].todo)].next, entries[Head(vm[v].todo)].prev} \cap Freed = {}
  BY <1>1, <1>2, <1>4
<1> QED
  BY <1>3, <1>4 DEF Stray

(* Every step keeps it.                                                    *)
LEMMA NextClean == IInv /\ Clean /\ [Next]_vars => Clean'
<1> SUFFICES ASSUME IInv, Clean, [Next]_vars, in_order' PROVE Clean'
  BY DEF Clean
<1>0. vm \in [VM -> Vm]
  BY DEF IInv, Vms
<1>1. CASE UNCHANGED vars
  BY <1>1, CleanSame DEF vars, shared, Clean
<1>2. ASSUME NEW v \in VM, UNCHANGED shared, \A u \in VM : u # v => vm'[u] = vm[u],
             InList(vm'[v]) = InList(vm[v]), vm'[v].at # "cleanup"
      PROVE  Clean'
  BY <1>2, CleanSame DEF shared, Clean
<1>3. ASSUME NEW v \in VM, NEW entry \in Entries, begin_block(v, entry) PROVE Clean'
  BY <1>0, <1>2, <1>3 DEF begin_block, InList, Vm
<1>4. ASSUME NEW v \in VM, jit_opcode(v) PROVE Clean'
  <2>1. vm[v].at = "block" /\ vm'[v].at = "block" /\ vm'[v].blocks = vm[v].blocks
    BY <1>0, <1>4 DEF jit_opcode, Vm
  <2>2. UNCHANGED shared /\ \A u \in VM : u # v => vm'[u] = vm[u]
    BY <1>0, <1>4 DEF jit_opcode
  <2> QED
    BY <1>2, <2>1, <2>2 DEF InList
<1>5. ASSUME NEW v \in VM, perf_end_block(v) PROVE Clean'
  <2>1. vm[v].at = "told" /\ vm'[v].at = "idle" /\ vm'[v].blocks = vm[v].blocks
    BY <1>0, <1>5 DEF perf_end_block, Vm
  <2>2. UNCHANGED shared /\ \A u \in VM : u # v => vm'[u] = vm[u]
    BY <1>0, <1>5 DEF perf_end_block
  <2> QED
    BY <1>2, <2>1, <2>2 DEF InList
<1>6. ASSUME NEW v \in VM, barena_reset(v) PROVE Clean'
  BY <1>0, <1>2, <1>6 DEF barena_reset, InList, Vm
<1>7. ASSUME NEW v \in VM, gdb_end_block(v) PROVE Clean'
  <2>1. /\ vm[v].at = "block" /\ vm'[v].at = "ended"
        /\ vm'[v].blocks = <<Len(entries) + 1>> \o vm[v].blocks
        /\ \A u \in VM : u # v => vm'[u] = vm[u]
    BY <1>0, <1>7 DEF gdb_end_block, Vm
  <2>2. InList(vm'[v]) = InList(vm[v])
    <3>1. vm[v].blocks \in Seq(Nat) /\ Len(entries) + 1 \in Nat
      BY <1>0, EntryIds DEF Vm
    <3>2. Tail(<<Len(entries) + 1>> \o vm[v].blocks) = vm[v].blocks
      BY <3>1
    <3> QED
      BY <2>1, <3>2 DEF InList
  <2>3. UNCHANGED <<first_entry, stray, in_order>>
    BY <1>7 DEF gdb_end_block
  <2>4. \A i \in DOMAIN entries : entries'[i] = entries[i]
    BY <1>7 DEF gdb_end_block, IInv, Records
  <2>5. \A u \in VM : InList(vm'[u]) = InList(vm[u])
    BY <2>1, <2>2
  <2>6. \A u \in VM : vm'[u].at = "cleanup" => first_entry \notin ToSet(vm'[u].blocks)
    BY <2>1, <2>3 DEF Clean
  <2> QED
    BY <2>3, <2>4, <2>5, <2>6, CleanSame
<1>8. ASSUME NEW v \in VM, Notify(v) PROVE Clean'
  <2>1. /\ vm[v].at = "registered" /\ vm'[v].at = "told" /\ vm'[v].blocks = vm[v].blocks
        /\ \A u \in VM : u # v => vm'[u] = vm[u]
        /\ UNCHANGED <<first_entry, stray, in_order, entries>>
    BY <1>0, <1>8 DEF Notify, Vm
  <2>2. \A u \in VM : InList(vm'[u]) = InList(vm[u])
    BY <2>1 DEF InList
  <2>3. \A u \in VM : vm'[u].at = "cleanup" => first_entry \notin ToSet(vm'[u].blocks)
    BY <2>1 DEF Clean
  <2> QED
    BY <2>1, <2>2, <2>3, CleanSame
<1>9. ASSUME NEW v \in VM, Unlock(v) PROVE Clean'
  <2>1. /\ vm[v].at = "cleanup" /\ vm[v].todo = <<>> /\ vm'[v].at = "done"
        /\ \A u \in VM : u # v => vm'[u] = vm[u]
        /\ UNCHANGED <<first_entry, stray, in_order, entries>>
    BY <1>0, <1>9 DEF Unlock, Vm
  <2>2. \A u \in VM : InList(vm'[u]) = InList(vm[u])
    <3>1. ToSet(<<>>) = {}
      BY DEF ToSet
    <3> QED
      BY <2>1, <3>1 DEF InList
  <2>3. \A u \in VM : vm'[u].at = "cleanup" => first_entry \notin ToSet(vm'[u].blocks)
    BY <2>1 DEF Clean
  <2> QED
    BY <2>1, <2>2, <2>3, CleanSame
<1>10. ASSUME NEW v \in VM, Lock(v) PROVE Clean'
  <2>1. /\ vm[v].at = "idle" /\ vm'[v].at = "cleanup" /\ vm'[v].todo = vm[v].blocks
        /\ vm'[v].blocks = vm[v].blocks
        /\ \A u \in VM : u # v => vm'[u] = vm[u]
        /\ UNCHANGED <<first_entry, stray, entries>>
    BY <1>0, <1>10 DEF Lock, Vm
  <2>2. in_order /\ first_entry \notin ToSet(vm[v].blocks)
    BY <1>10 DEF Lock
  <2>3. \A u \in VM : InList(vm'[u]) = InList(vm[u])
    BY <2>1 DEF InList
  <2>4. \A u \in VM : vm'[u].at = "cleanup" => first_entry \notin ToSet(vm'[u].blocks)
    BY <2>1, <2>2 DEF Clean
  <2> QED
    BY <2>1, <2>2, <2>3, <2>4, CleanSame
<1>11. ASSUME NEW v \in VM, Stray(v) PROVE Clean'
  BY <1>11, CleanStray DEF Stray
<1> QED
  BY <1>1, <1>3, <1>4, <1>5, <1>6, <1>7, <1>8, <1>9, <1>10, <1>11, CleanRegister,
     CleanUnregister DEF Next, Critical

(* For any number of VMs, cleaned up in whatever order but none while its  *)
(* entry is the newest: first_entry, which buxn_jit_cleanup_gdb_hook never *)
(* changes, leads a debugger that attaches to the live entries and to      *)
(* nothing else, and neither gdb_end_block nor the cleanup writes to an    *)
(* arena that the host took back.                                          *)
THEOREM NoneCutOff == Spec => []Attached
<1>1. ASSUME IInv, Clean, in_order, mtx = None PROVE Chain = Live
  <2>1. Live = Linked
    BY <1>1, LiveIs DEF Linked
  <2>2. /\ Linked \subseteq DOMAIN entries /\ 0 \notin Linked /\ Linked \cap Freed = {}
        /\ \A e \in Linked : e \in Reach /\ first_entry # 0
    BY <1>1, LinkedFacts
  <2>3. /\ first_entry \in Linked \cup {0}
        /\ \A e \in Linked : entries[e].next \in Linked \cup {0}
    BY <1>1 DEF Clean
  <2>4. Chain \subseteq Linked
    BY <2>2, <2>3 DEF Chain
  <2>5. ASSUME NEW e \in Linked, NEW S \in SUBSET DOMAIN entries,
               first_entry \in S \cup {0},
               \A i \in S \ Freed : entries[i].next \in S \cup {0}
        PROVE  e \in S
    <3> DEFINE R == S \cap Linked
    <3>1. R \in SUBSET DOMAIN entries /\ first_entry \in R
      BY <2>2, <2>3, <2>5
    <3>2. \A i \in R : entries[i].next \in R \cup {0}
      BY <2>2, <2>3, <2>5
    <3> HIDE DEF R
    <3>3. e \in R
      BY <2>2, <3>1, <3>2 DEF Reach
    <3> QED
      BY <3>3 DEF R
  <2>6. Linked \subseteq Chain
    BY <2>2, <2>5 DEF Chain
  <2> QED
    BY <2>1, <2>4, <2>6
<1>2. IInv /\ Clean => Attached
  BY <1>1 DEF Attached, Clean
<1>3. Init => Clean
  <2> SUFFICES ASSUME Init PROVE Clean
    OBVIOUS
  <2>1. \A v \in VM : vm[v].at = "idle" /\ vm[v].blocks = <<>>
    BY DEF Init
  <2>2. Linked = {}
    BY <2>1 DEF Linked, InList, ToSet
  <2> QED
    BY <2>1, <2>2 DEF Init, Clean
<1> QED
  BY <1>2, <1>3, NextClean, Invariance, PTL DEF Spec
=============================================================================
