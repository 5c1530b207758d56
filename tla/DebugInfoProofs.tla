-------------------------- MODULE DebugInfoProofs --------------------------
(***************************************************************************)
(* What the hooks say about a block of code: its name, its lines, the      *)
(* tables of the reader and the records of the dump file.                  *)
(***************************************************************************)
EXTENDS HooksProofs

-----------------------------------------------------------------------------
(* Labels.                                                                 *)
Label == [addr : Nat, named : BOOLEAN]

MaybeLabel == {<<>>} \cup { <<l>> : l \in Label }

(* The label after one turn of the loop.                                   *)
Nearer(pc, closest, entry) == IF Closer(entry, pc, closest) THEN <<entry>> ELSE closest

(* The loop of buxn_pc_to_label, turn by turn.                             *)
LEMMA LabelLoop ==
    ASSUME NEW lm \in Seq(Label), NEW pc \in Nat
    PROVE  \E F : /\ F[0] = <<>>
                  /\ \A k \in 1..Len(lm) : F[k] = Nearer(pc, F[k - 1], lm[k])
                  /\ pc_to_label(lm, pc) = F[Len(lm)]
<1> DEFINE n == Len(lm)
           V == MaybeLabel
           g == [p \in V \X Label |-> Nearer(pc, p[1], p[2])]
           Is(f) == f = [S \in SUBSET DOMAIN lm |->
                           IF S = {} THEN <<>>
                           ELSE Nearer(pc, f[S \ {Max(S)}], lm[Max(S)])]
           c == CHOOSE f : Is(f)
           F == [k \in 0..n |-> c[1..k]]
<1>1. n \in Nat /\ DOMAIN lm = 1..n /\ \A i \in 1..n : lm[i] \in Label
  OBVIOUS
<1>2. <<>> \in V /\ g \in [V \X Label -> V]
  BY DEF MaybeLabel, Nearer
<1>3. PICK f \in [SUBSET (1..n) -> V] : Folds(f, g, <<>>, lm, n)
  BY <1>2, FoldsExists
<1>4. Is(f)
  <2>1. ASSUME NEW S \in SUBSET (1..n), S # {}
        PROVE  f[S] = Nearer(pc, f[S \ {Max(S)}], lm[Max(S)])
    <3>1. Max(S) \in 1..n
      BY <1>1, <2>1, MaxIn
    <3>2. <<f[S \ {Max(S)}], lm[Max(S)]>> \in V \X Label
      BY <1>1, <1>3, <3>1
    <3>3. f[S] = g[<<f[S \ {Max(S)}], lm[Max(S)]>>]
      BY <1>3, <2>1 DEF Folds
    <3> QED
      BY <3>2, <3>3
  <2>2. f[{}] = <<>>
    BY <1>3 DEF Folds
  <2> QED
    BY <1>1, <1>3, <2>1, <2>2
<1>5. Is(c)
  BY <1>4
<1>6. pc_to_label(lm, pc) = c[DOMAIN lm]
  BY DEF pc_to_label, FoldLeft, MapThenFoldSet, Nearer
<1> HIDE DEF c, n
<1>7. F[0] = <<>>
  <2>1. c[{}] = <<>> /\ 1..0 = {} /\ 0 \in 0..n
    BY <1>1, <1>5
  <2> QED
    BY <2>1
<1>8. ASSUME NEW k \in 1..n PROVE F[k] = Nearer(pc, F[k - 1], lm[k])
  <2>1. c[1..k] = Nearer(pc, c[(1..k) \ {k}], lm[k])
    <3> DEFINE S == 1..k
    <3>1. S \in SUBSET DOMAIN lm /\ S # {} /\ Max(S) = k
      BY <1>1, Prefix
    <3> HIDE DEF S
    <3>2. c[S] = Nearer(pc, c[S \ {Max(S)}], lm[Max(S)])
      BY <1>5, <3>1
    <3> QED
      BY <3>1, <3>2 DEF S
  <2>2. (1..k) \ {k} = 1..(k - 1) /\ k \in 0..n /\ k - 1 \in 0..n
    BY <1>1, Prefix
  <2> QED
    BY <2>1, <2>2
<1>9. pc_to_label(lm, pc) = F[n]
  BY <1>1, <1>6
<1> QED
  BY <1>7, <1>8, <1>9 DEF n

(* A block is named after the last label at or before it that has a name   *)
(* and is not in the zero page.                                            *)
GoodName(lm, pc, name) ==
    LET usable == { l \in ToSet(lm) : l.named /\ l.addr \in ZeroPage..pc }
    IN  IF usable = {} THEN name = <<>>
        ELSE name # <<>> /\ name[1] \in usable /\ \A l \in usable : l.addr <= name[1].addr

(* buxn_pc_to_label returns the last label that can be used.               *)
LEMMA LabelFound ==
    ASSUME NEW lm \in Seq(Label), NEW pc \in Nat
    PROVE  GoodName(lm, pc, pc_to_label(lm, pc))
<1> DEFINE n == Len(lm)
           Usable(k) == { l \in { lm[i] : i \in 1..k } : l.named /\ l.addr \in ZeroPage..pc }
           Best(k, name) ==
              \/ Usable(k) = {} /\ name = <<>>
              \/ \E l \in Usable(k) : name = <<l>> /\ \A m \in Usable(k) : m.addr <= l.addr
<1>1. PICK F : /\ F[0] = <<>>
               /\ \A k \in 1..n : F[k] = Nearer(pc, F[k - 1], lm[k])
               /\ pc_to_label(lm, pc) = F[n]
  BY LabelLoop
<1>2. n \in Nat /\ \A i \in 1..n : lm[i] \in Label
  OBVIOUS
<1> DEFINE P == { k \in 0..n : Best(k, F[k]) }
<1>3. 0 \in P
  <2>1. Usable(0) = {}
    OBVIOUS
  <2> QED
    BY <1>1, <1>2, <2>1
<1>4. ASSUME NEW k \in 1..n, k - 1 \in P PROVE k \in P
  <2> DEFINE e == lm[k]
             a == F[k - 1]
             b == F[k]
             U == Usable(k - 1)
             W == Usable(k)
             u == e.named /\ e.addr \in ZeroPage..pc
  <2>1. e \in Label /\ e.addr \in Nat
    BY <1>2 DEF Label
  <2>2. b = IF Closer(e, pc, a) THEN <<e>> ELSE a
    BY <1>1 DEF Nearer
  <2>3. Best(k - 1, a)
    BY <1>4
  <2>4. 1..k = (1..(k - 1)) \cup {k}
    BY <1>2
  <2>5. W = U \cup (IF u THEN {e} ELSE {})
    <3> DEFINE A == { lm[i] : i \in 1..(k - 1) }
               B == { lm[i] : i \in 1..k }
    <3>1. B = A \cup {e}
      BY <2>4
    <3> HIDE DEF A, B, e
    <3>2. { l \in B : l.named /\ l.addr \in ZeroPage..pc }
            = { l \in A : l.named /\ l.addr \in ZeroPage..pc } \cup (IF u THEN {e} ELSE {})
      BY <3>1
    <3> QED
      BY <3>2 DEF A, B
  <2>6. \A l \in U : l.addr \in Nat /\ l.addr >= ZeroPage
    <3>1. \A i \in 1..(k - 1) : lm[i] \in Label
      BY <1>2
    <3> QED
      BY <3>1, ZeroPageAssumption DEF Label
  <2> HIDE DEF U, W, e, a, b
  <2>7. CASE U = {} /\ a = <<>>
    <3>1. Closer(e, pc, a) <=> u
      BY <2>1, <2>7, ZeroPageAssumption DEF Closer
    <3>2. CASE u
      BY <2>1, <2>2, <2>5, <2>7, <3>1, <3>2 DEF W, b
    <3>3. CASE ~u
      BY <2>2, <2>5, <2>7, <3>1, <3>3 DEF W, b
    <3> QED
      BY <3>2, <3>3
  <2>8. ASSUME NEW l \in U, a = <<l>>, \A m \in U : m.addr <= l.addr PROVE k \in P
    <3>0. l.addr \in Nat /\ l.addr >= ZeroPage /\ a # <<>> /\ a[1] = l
      BY <2>6, <2>8
    <3>1. Closer(e, pc, a) <=> u /\ e.addr > l.addr
      BY <2>1, <3>0, ZeroPageAssumption DEF Closer
    <3>2. CASE u /\ e.addr > l.addr
      <4>1. b = <<e>> /\ e \in W
        BY <2>2, <2>5, <3>1, <3>2
      <4>2. \A m \in W : m.addr <= e.addr
        BY <2>1, <2>5, <2>6, <2>8, <3>0, <3>2
      <4> QED
        BY <4>1, <4>2 DEF W, b
    <3>3. CASE ~(u /\ e.addr > l.addr)
      <4>1. b = <<l>> /\ l \in W
        BY <2>2, <2>5, <2>8, <3>1, <3>3
      <4>2. \A m \in W : m.addr <= l.addr
        BY <2>1, <2>5, <2>6, <2>8, <3>0, <3>3
      <4> QED
        BY <4>1, <4>2 DEF W, b
    <3> QED
      BY <3>2, <3>3
  <2> QED
    BY <2>3, <2>7, <2>8 DEF U
<1> HIDE DEF P
<1>5. n \in P
  <2>1. \A k \in 0..n : k \in P
    BY <1>2, <1>3, <1>4, UpTo
  <2> QED
    BY <1>2, <2>1
<1>6. Best(n, pc_to_label(lm, pc))
  BY <1>1, <1>5 DEF P
<1>7. Usable(n) = { l \in ToSet(lm) : l.named /\ l.addr \in ZeroPage..pc }
  BY DEF ToSet
<1> DEFINE N == pc_to_label(lm, pc)
           V == Usable(n)
<1> HIDE DEF N, V
<1>8. IF V = {} THEN N = <<>> ELSE N # <<>> /\ N[1] \in V /\ \A l \in V : l.addr <= N[1].addr
  <2>1. \/ V = {} /\ N = <<>>
        \/ \E l \in V : N = <<l>> /\ \A m \in V : m.addr <= l.addr
    BY <1>6 DEF V, N
  <2> QED
    BY <2>1
<1> QED
  BY <1>7, <1>8 DEF GoodName, V, N

-----------------------------------------------------------------------------
(* Symbols.                                                                *)

(* What is assumed of a debug file.                                        *)
Ordered(st) ==
    /\ st \in Seq(ToSet(st))
    /\ \A i \in DOMAIN st : /\ st[i].addr_min \in Nat /\ st[i].addr_max \in Nat
                            /\ st[i].addr_min <= st[i].addr_max
    /\ \A i, j \in DOMAIN st :
          i < j /\ st[i].type = "opcode" /\ st[j].type = "opcode"
             => st[i].addr_max < st[j].addr_min

(* The i-th symbol is that of the address.                                 *)
IsSymbol(st, a, i) ==
    /\ i \in 0..(Len(st) - 1)
    /\ Sym(st, i).type = "opcode" /\ Covers(Sym(st, i), a)

(* At most one opcode of an ordered table covers an address, and none      *)
(* before it starts beyond.                                                *)
LEMMA OneSymbol ==
    ASSUME NEW st, Ordered(st), NEW a \in Nat, NEW i, IsSymbol(st, a, i)
    PROVE  /\ \A j : IsSymbol(st, a, j) => j = i
           /\ \A j \in 0..(i - 1) : Sym(st, j).type = "opcode" => ~(Sym(st, j).addr_min > a)
<1>1. Len(st) \in Nat /\ DOMAIN st = 1..Len(st) /\ i \in 0..(Len(st) - 1)
  BY DEF Ordered, IsSymbol
<1>2. \A j \in 0..(Len(st) - 1) :
         /\ j + 1 \in DOMAIN st /\ Sym(st, j) = st[j + 1]
         /\ st[j + 1].addr_min \in Nat /\ st[j + 1].addr_max \in Nat
         /\ st[j + 1].addr_min <= st[j + 1].addr_max
  BY <1>1 DEF Ordered, Sym
<1>3. \A j, k \in 0..(Len(st) - 1) :
         j < k /\ Sym(st, j).type = "opcode" /\ Sym(st, k).type = "opcode"
           => Sym(st, j).addr_max < Sym(st, k).addr_min
  <2> SUFFICES ASSUME NEW j \in 0..(Len(st) - 1), NEW k \in 0..(Len(st) - 1), j < k,
                      Sym(st, j).type = "opcode", Sym(st, k).type = "opcode"
               PROVE  Sym(st, j).addr_max < Sym(st, k).addr_min
    OBVIOUS
  <2>1. j + 1 \in DOMAIN st /\ k + 1 \in DOMAIN st /\ j + 1 < k + 1
    BY <1>1
  <2> QED
    BY <1>2, <2>1 DEF Ordered
<1>4. ASSUME NEW j, IsSymbol(st, a, j) PROVE j = i
  <2>1. j \in 0..(Len(st) - 1)
    BY <1>4 DEF IsSymbol
  <2>2. ~(j < i) /\ ~(i < j)
    BY <1>1, <1>2, <1>3, <1>4, <2>1 DEF IsSymbol, Covers
  <2> QED
    BY <1>1, <2>1, <2>2
<1>5. ASSUME NEW j \in 0..(i - 1), Sym(st, j).type = "opcode" PROVE ~(Sym(st, j).addr_min > a)
  <2>1. j \in 0..(Len(st) - 1) /\ j < i
    BY <1>1
  <2>2. Sym(st, i).type = "opcode" /\ Sym(st, i).addr_min <= a
    BY DEF IsSymbol, Covers
  <2> DEFINE p == Sym(st, j).addr_min
             q == Sym(st, j).addr_max
             r == Sym(st, i).addr_min
  <2>3. p \in Nat /\ q \in Nat /\ r \in Nat /\ p <= q
    BY <1>1, <1>2, <2>1
  <2>4. q < r
    BY <1>1, <1>3, <1>5, <2>1, <2>2
  <2> HIDE DEF p, q, r
  <2>5. ~(p > a)
    BY <2>2, <2>3, <2>4 DEF r
  <2> QED
    BY <2>5 DEF p
<1> QED
  BY <1>4, <1>5

(* One loop ends at the symbol if that is in its range, and at none else.  *)
LEMMA StopAt ==
    ASSUME NEW st, Ordered(st), NEW a \in Nat, NEW from \in 0..Len(st), NEW end \in 0..Len(st),
           from <= end
    PROVE  /\ Stop(st, a, from, end) \in from..end
           /\ \A i \in from..(end - 1) : IsSymbol(st, a, i) =>
                 Stop(st, a, from, end) = i /\ Found(st, a, Stop(st, a, from, end), end) = i
           /\ (\A i \in from..(end - 1) : ~IsSymbol(st, a, i)) =>
                 Found(st, a, Stop(st, a, from, end), end) = -1
<1> DEFINE stops == { i \in from..(end - 1) :
                        /\ Sym(st, i).type = "opcode"
                        /\ \/ Covers(Sym(st, i), a)
                           \/ Sym(st, i).addr_min > a }
           s == Stop(st, a, from, end)
<1>1. s = IF stops = {} THEN end ELSE Min(stops)
  BY DEF Stop
<1>2. Len(st) \in Nat /\ stops \in SUBSET Nat
  BY DEF Ordered
<1>3. stops # {} => Min(stops) \in stops /\ \A y \in stops : Min(stops) <= y
  <2> HIDE DEF stops
  <2> QED
    BY <1>2, MinIs
<1>4. s \in from..end
  <2>1. CASE stops = {}
    BY <1>1, <1>2, <2>1
  <2>2. CASE stops # {}
    <3>1. s \in from..(end - 1)
      BY <1>1, <1>3, <2>2
    <3> QED
      BY <1>2, <3>1
  <2> QED
    BY <2>1, <2>2
<1>5. ASSUME NEW i \in from..(end - 1), IsSymbol(st, a, i) PROVE s = i /\ Found(st, a, s, end) = i
  <2>1. i \in stops
    BY <1>5 DEF IsSymbol
  <2>2. ASSUME NEW y \in stops PROVE i <= y
    <3> SUFFICES ASSUME y < i PROVE FALSE
      BY <1>2
    <3>1. y \in 0..(i - 1) /\ y \in 0..(Len(st) - 1)
      BY <1>2
    <3>2. ~(Sym(st, y).addr_min > a)
      BY <1>5, <3>1, OneSymbol
    <3>3. IsSymbol(st, a, y)
      BY <3>1, <3>2 DEF IsSymbol
    <3>4. y = i
      BY <1>5, <3>3, OneSymbol
    <3> QED
      BY <1>2, <3>4
  <2>3. Min(stops) = i
    <3> HIDE DEF stops
    <3> QED
      BY <1>2, <2>1, <2>2, MinIs
  <2>4. s = i /\ i < end
    BY <1>1, <1>2, <2>1, <2>3
  <2> QED
    BY <1>5, <2>4 DEF Found, IsSymbol
<1>6. ASSUME \A i \in from..(end - 1) : ~IsSymbol(st, a, i) PROVE Found(st, a, s, end) = -1
  <2>1. ASSUME s < end, Covers(Sym(st, s), a) PROVE FALSE
    <3>1. s \in stops
      BY <1>1, <1>2, <1>3, <2>1
    <3>2. IsSymbol(st, a, s)
      BY <1>2, <2>1, <3>1 DEF IsSymbol
    <3> QED
      BY <1>6, <3>1, <3>2
  <2> QED
    BY <2>1 DEF Found
<1> QED
  BY <1>4, <1>5, <1>6

(* buxn_dbg_find_symbol finds the symbol from any hint.                    *)
LEMMA SymbolFound ==
    ASSUME NEW st, Ordered(st), NEW a \in Nat, NEW hint \in 0..Len(st)
    PROVE  /\ find_symbol(st, a, hint).hint \in 0..Len(st)
           /\ \A i : IsSymbol(st, a, i) => find_symbol(st, a, hint).symbol = i
           /\ (\A i : ~IsSymbol(st, a, i)) => find_symbol(st, a, hint).symbol = -1
<1> DEFINE end == Len(st)
           first == Stop(st, a, hint, end)
           second == Stop(st, a, 0, hint)
           r == find_symbol(st, a, hint)
<1>1. end \in Nat /\ hint <= end /\ 0 <= hint /\ 0 \in 0..end /\ end \in 0..end
  BY DEF Ordered
<1>2. r = IF Found(st, a, first, end) # -1 THEN [symbol |-> first, hint |-> first]
          ELSE [symbol |-> Found(st, a, second, hint), hint |-> second]
  BY DEF find_symbol
<1>3. /\ first \in hint..end
      /\ \A i \in hint..(end - 1) : IsSymbol(st, a, i) => first = i /\ Found(st, a, first, end) = i
      /\ (\A i \in hint..(end - 1) : ~IsSymbol(st, a, i)) => Found(st, a, first, end) = -1
  BY <1>1, StopAt
<1>4. /\ second \in 0..hint
      /\ \A i \in 0..(hint - 1) : IsSymbol(st, a, i) => second = i /\ Found(st, a, second, hint) = i
      /\ (\A i \in 0..(hint - 1) : ~IsSymbol(st, a, i)) => Found(st, a, second, hint) = -1
  BY <1>1, StopAt
<1> HIDE DEF first, second, r
<1>5. r.hint \in 0..end
  BY <1>1, <1>2, <1>3, <1>4
<1>6. ASSUME NEW i, IsSymbol(st, a, i) PROVE r.symbol = i
  <2>1. i \in 0..(end - 1)
    BY <1>6 DEF IsSymbol
  <2>2. CASE i \in hint..(end - 1)
    BY <1>1, <1>2, <1>3, <1>6, <2>1, <2>2
  <2>3. CASE i \in 0..(hint - 1)
    <3>1. \A j \in hint..(end - 1) : ~IsSymbol(st, a, j)
      <4> SUFFICES ASSUME NEW j \in hint..(end - 1), IsSymbol(st, a, j) PROVE FALSE
        OBVIOUS
      <4>1. j = i
        BY <1>6, OneSymbol
      <4> QED
        BY <1>1, <2>3, <4>1
    <3> QED
      BY <1>2, <1>3, <1>4, <1>6, <2>3, <3>1
  <2> QED
    BY <1>1, <2>1, <2>2, <2>3
<1>7. ASSUME \A i : ~IsSymbol(st, a, i) PROVE r.symbol = -1
  BY <1>2, <1>3, <1>4, <1>7
<1> QED
  BY <1>5, <1>6, <1>7 DEF r

-----------------------------------------------------------------------------
(* The configuration never changes, and neither does what an entry says    *)
(* about its code; a new entry is made by gdb_end_block.                   *)
Info(v) == [addr |-> vm[v].entry, size |-> 2 * vm[v].num + 1,
            name |-> pc_to_label(label_map, vm[v].entry), mappings |-> Lines(vm[v].gdb)]

(* An entry keeps what was written into it when its block ended.           *)
LEMMA InfoKept ==
    ASSUME IInv, [Next]_vars
    PROVE  /\ symtab' = symtab /\ label_map' = label_map
           /\ \/ /\ DOMAIN entries' = DOMAIN entries
                 /\ \A e \in DOMAIN entries : entries'[e].info = entries[e].info
              \/ \E v \in VM :
                    /\ vm[v].at = "block"
                    /\ entries' = Append(entries, [info |-> Info(v), next |-> 0, prev |-> 0])
<1>1. symtab' = symtab /\ label_map' = label_map
  BY DEF Next, vars, config, Critical, begin_block, jit_opcode, gdb_end_block, perf_end_block,
         Register, Notify, Unregister, Lock, Unlock, Stray, barena_reset
<1>2. \A e \in DOMAIN entries : entries[e] = [info |-> entries[e].info, next |-> entries[e].next,
                                             prev |-> entries[e].prev]
  BY DEF IInv, Records, Entry
<1>3. CASE entries' = entries
  BY <1>1, <1>3
<1>4. ASSUME NEW v \in VM, gdb_end_block(v)
      PROVE  /\ vm[v].at = "block"
             /\ entries' = Append(entries, [info |-> Info(v), next |-> 0, prev |-> 0])
  BY <1>4 DEF gdb_end_block, Info
<1>5. ASSUME NEW v \in VM, Register(v)
      PROVE  /\ DOMAIN entries' = DOMAIN entries
             /\ \A e \in DOMAIN entries : entries'[e].info = entries[e].info
  <2>1. ASSUME NEW e \in DOMAIN entries, NEW x
        PROVE  /\ [entries[e] EXCEPT !.next = x].info = entries[e].info
               /\ [entries[e] EXCEPT !.prev = x].info = entries[e].info
    BY <1>2
  <2> QED
    BY <1>5, <2>1 DEF Register
<1>6. ASSUME NEW v \in VM, Unregister(v)
      PROVE  /\ DOMAIN entries' = DOMAIN entries
             /\ \A e \in DOMAIN entries : entries'[e].info = entries[e].info
  <2>1. ASSUME NEW e \in DOMAIN entries, NEW x, NEW y
        PROVE  [entries[e] EXCEPT !.prev = x, !.next = y].info = entries[e].info
    BY <1>2
  <2>2. entries' = Unlinked(Head(vm[v].todo))
    BY <1>6 DEF Unregister
  <2> DEFINE h == Head(vm[v].todo)
             p(i) == IF i = entries[h].next THEN entries[h].prev ELSE entries[i].prev
             n(i) == IF i = entries[h].prev THEN entries[h].next ELSE entries[i].next
  <2>3. entries' = [i \in DOMAIN entries |-> [entries[i] EXCEPT !.prev = p(i), !.next = n(i)]]
    BY <2>2 DEF Unlinked
  <2> HIDE DEF p, n
  <2> QED
    BY <2>1, <2>3
<1>7. CASE Next
  <2>1. \/ entries' = entries
        \/ \E v \in VM : gdb_end_block(v) \/ Register(v) \/ Unregister(v)
    BY <1>7 DEF Next, Critical, shared, begin_block, jit_opcode, perf_end_block,
                Notify, Lock, Unlock, Stray, barena_reset
  <2> QED
    BY <1>1, <1>3, <1>4, <1>5, <1>6, <2>1
<1>8. CASE UNCHANGED vars
  BY <1>3, <1>8 DEF vars, shared
<1> QED
  BY <1>7, <1>8

(* Each entry is named by the search for its own address.                  *)
Searched ==
    /\ label_map \in Labels
    /\ \A e \in DOMAIN entries :
          /\ entries[e].info.addr \in Nat
          /\ entries[e].info.name = pc_to_label(label_map, entries[e].info.addr)

(* No step changes the name of a block.                                    *)
LEMMA SearchedStep == IInv /\ Searched /\ [Next]_vars => Searched'
<1> SUFFICES ASSUME IInv, Searched, [Next]_vars PROVE Searched'
  OBVIOUS
<1>1. label_map' = label_map
  BY InfoKept
<1>2. CASE /\ DOMAIN entries' = DOMAIN entries
           /\ \A e \in DOMAIN entries : entries'[e].info = entries[e].info
  BY <1>1, <1>2 DEF Searched
<1>3. ASSUME NEW v \in VM, vm[v].at = "block",
             entries' = Append(entries, [info |-> Info(v), next |-> 0, prev |-> 0])
      PROVE  Searched'
  <2> DEFINE r == [info |-> Info(v), next |-> 0, prev |-> 0]
  <2>1. vm[v].entry \in Nat
    BY DEF IInv, Vms, Vm
  <2>2. r.info.addr = vm[v].entry /\ r.info.name = pc_to_label(label_map, vm[v].entry)
    BY DEF Info
  <2> HIDE DEF r
  <2>3. /\ DOMAIN entries' = DOMAIN entries \cup {Len(entries) + 1}
        /\ entries'[Len(entries) + 1] = r
        /\ \A e \in DOMAIN entries : entries'[e] = entries[e]
    <3>1. entries \in Seq(ToSet(entries) \cup {r})
      BY EntryIds, FunctionIsList DEF IInv, Records
    <3> QED
      BY <1>3, <3>1, AppendFacts DEF r
  <2> QED
    BY <1>1, <2>1, <2>2, <2>3 DEF Searched
<1> QED
  BY <1>2, <1>3, InfoKept

(* The name that gdb shows for a block is that of the last usable label,   *)
(* for all label maps and all interleavings of the VMs.                    *)
THEOREM RightName == Spec => []Named
<1>1. Init => Searched
  BY DEF Init, Searched
<1>2. Searched => Named
  <2> SUFFICES ASSUME Searched, NEW e \in DOMAIN entries
               PROVE  GoodName(label_map, entries[e].info.addr, entries[e].info.name)
    BY DEF Named, GoodName
  <2>1. label_map \in Seq(Label) /\ entries[e].info.addr \in Nat
    BY LabelsAssumption DEF Searched, Label
  <2> QED
    BY <2>1, LabelFound DEF Searched
<1> QED
  BY <1>1, <1>2, Invariance, SearchedStep, PTL DEF Spec

-----------------------------------------------------------------------------
(* The tables of the configuration are ordered.                            *)
LEMMA TablesOrdered == \A st \in Symtabs : Ordered(st)
BY SymtabsAssumption DEF Ordered

(* The search by CHOOSE finds the same one.                                *)
LEMMA SymbolIs ==
    ASSUME Ordered(symtab), NEW a \in Nat, NEW i, IsSymbol(symtab, a, i)
    PROVE  Symbol(a) = i
<1>1. IsSymbol(symtab, a, Symbol(a))
  BY DEF Symbol, IsSymbol
<1> QED
  BY <1>1, OneSymbol

(* A symbol covers the address: it has an index.                           *)
LEMMA SymbolHasIndex ==
    ASSUME NEW st, Ordered(st), NEW a
    PROVE  (\E sym \in ToSet(st) : sym.type = "opcode" /\ Covers(sym, a))
              <=> \E i : IsSymbol(st, a, i)
<1>1. Len(st) \in Nat /\ DOMAIN st = 1..Len(st)
  BY DEF Ordered
<1>2. ASSUME NEW sym \in ToSet(st), sym.type = "opcode", Covers(sym, a)
      PROVE  \E i : IsSymbol(st, a, i)
  <2>1. PICK k \in DOMAIN st : st[k] = sym
    BY DEF ToSet
  <2>2. k - 1 \in 0..(Len(st) - 1) /\ (k - 1) + 1 = k
    BY <1>1
  <2>3. IsSymbol(st, a, k - 1)
    BY <1>2, <2>1, <2>2 DEF IsSymbol, Sym
  <2> QED
    BY <2>3
<1>3. ASSUME NEW i, IsSymbol(st, a, i)
      PROVE  \E sym \in ToSet(st) : sym.type = "opcode" /\ Covers(sym, a)
  <2>1. i + 1 \in DOMAIN st
    BY <1>1, <1>3 DEF IsSymbol
  <2> QED
    BY <1>3, <2>1 DEF IsSymbol, Sym, ToSet
<1> QED
  BY <1>2, <1>3

(* buxn_dbg_find_symbol is right from any hint, for all debug files whose  *)
(* opcodes are in order.                                                   *)
THEOREM RightSymbol == Spec => []Lookup
<1> DEFINE T == symtab \in Symtabs
<1>1. Init => T
  BY DEF Init
<1>2. IInv /\ T /\ [Next]_vars => T'
  BY InfoKept
<1>3. T => Lookup
  <2> SUFFICES ASSUME T, NEW a \in 0..(Max(Entries) + MaxOpcodes), NEW hint \in 0..Len(symtab)
               PROVE  IF \E sym \in ToSet(symtab) : sym.type = "opcode" /\ Covers(sym, a)
                      THEN find_symbol(symtab, a, hint).symbol = Symbol(a)
                      ELSE find_symbol(symtab, a, hint).symbol = -1
    BY DEF Lookup
  <2>1. a \in Nat
    OBVIOUS
  <2>2. Ordered(symtab)
    BY TablesOrdered
  <2>3. (\E sym \in ToSet(symtab) : sym.type = "opcode" /\ Covers(sym, a))
          <=> \E i : IsSymbol(symtab, a, i)
    BY <2>2, SymbolHasIndex
  <2>4. CASE \E i : IsSymbol(symtab, a, i)
    BY <2>1, <2>2, <2>3, <2>4, SymbolFound, SymbolIs
  <2>5. CASE \A i : ~IsSymbol(symtab, a, i)
    BY <2>1, <2>2, <2>3, <2>5, SymbolFound
  <2> QED
    BY <2>4, <2>5
<1> QED
  BY <1>1, <1>2, <1>3, Invariance, PTL DEF Spec

-----------------------------------------------------------------------------
(* The symbols of a sequence of addresses.                                 *)
Step(st, acc, address) ==
    [hint |-> find_symbol(st, address, acc.hint).hint,
     symbols |-> Append(acc.symbols, find_symbol(st, address, acc.hint).symbol)]

(* A search returns a number, -1 for none.                                 *)
LEMMA SymbolType ==
    ASSUME NEW st, Ordered(st), NEW a \in Nat, NEW hint \in 0..Len(st)
    PROVE  find_symbol(st, a, hint).symbol \in Int
<1>1. CASE \E i : IsSymbol(st, a, i)
  BY <1>1, SymbolFound DEF IsSymbol
<1>2. CASE \A i : ~IsSymbol(st, a, i)
  BY <1>2, SymbolFound
<1> QED
  BY <1>1, <1>2

(* The loop over the mappings, turn by turn.                               *)
LEMMA FindLoop ==
    ASSUME NEW st, Ordered(st), NEW pcs \in Seq(Nat)
    PROVE  \E F : /\ F[0] = [hint |-> 0, symbols |-> <<>>]
                  /\ \A k \in 1..Len(pcs) : F[k] = Step(st, F[k - 1], pcs[k])
                  /\ find_symbols(st, pcs) = F[Len(pcs)].symbols
<1> DEFINE n == Len(pcs)
           base == [hint |-> 0, symbols |-> <<>>]
           V == [hint : 0..Len(st), symbols : Seq(Int)]
           g == [p \in V \X Nat |-> Step(st, p[1], p[2])]
           Is(f) == f = [S \in SUBSET DOMAIN pcs |->
                           IF S = {} THEN base
                           ELSE Step(st, f[S \ {Max(S)}], pcs[Max(S)])]
           c == CHOOSE f : Is(f)
           F == [k \in 0..n |-> c[1..k]]
<1>1. n \in Nat /\ DOMAIN pcs = 1..n /\ \A i \in 1..n : pcs[i] \in Nat
  BY ListParts
<1>2. base \in V /\ g \in [V \X Nat -> V]
  <2>1. Len(st) \in Nat
    BY DEF Ordered
  <2>2. ASSUME NEW acc \in V, NEW a \in Nat PROVE Step(st, acc, a) \in V
    <3>1. /\ find_symbol(st, a, acc.hint).hint \in 0..Len(st)
          /\ find_symbol(st, a, acc.hint).symbol \in Int
      BY SymbolFound, SymbolType
    <3>2. Append(acc.symbols, find_symbol(st, a, acc.hint).symbol) \in Seq(Int)
      BY <3>1
    <3> QED
      BY <3>1, <3>2 DEF Step
  <2>3. 0 \in 0..Len(st) /\ <<>> \in Seq(Int)
    BY <2>1
  <2>4. base \in V
    BY <2>3
  <2> HIDE DEF V
  <2> QED
    BY <2>2, <2>4
<1> HIDE DEF base, V
<1>3. PICK f \in [SUBSET (1..n) -> V] : Folds(f, g, base, pcs, n)
  BY <1>2, FoldsExists
<1>4. Is(f)
  <2>1. ASSUME NEW S \in SUBSET (1..n), S # {}
        PROVE  f[S] = Step(st, f[S \ {Max(S)}], pcs[Max(S)])
    <3>1. Max(S) \in 1..n
      BY <1>1, <2>1, MaxIn
    <3>2. <<f[S \ {Max(S)}], pcs[Max(S)]>> \in V \X Nat
      BY <1>1, <1>3, <3>1
    <3>3. f[S] = g[<<f[S \ {Max(S)}], pcs[Max(S)]>>]
      BY <1>3, <2>1 DEF Folds
    <3> QED
      BY <3>2, <3>3
  <2>2. f[{}] = base
    BY <1>3 DEF Folds
  <2> QED
    BY <1>1, <1>3, <2>1, <2>2
<1>5. Is(c)
  BY <1>4
<1>6. find_symbols(st, pcs) = c[DOMAIN pcs].symbols
  BY DEF find_symbols, FoldLeft, MapThenFoldSet, Step, base
<1> HIDE DEF c, n
<1>7. F[0] = base
  <2>1. c[{}] = base /\ 1..0 = {} /\ 0 \in 0..n
    BY <1>1, <1>5
  <2> QED
    BY <2>1
<1>8. ASSUME NEW k \in 1..n PROVE F[k] = Step(st, F[k - 1], pcs[k])
  <2>1. c[1..k] = Step(st, c[(1..k) \ {k}], pcs[k])
    <3> DEFINE S == 1..k
    <3>1. S \in SUBSET DOMAIN pcs /\ S # {} /\ Max(S) = k
      BY <1>1, Prefix
    <3> HIDE DEF S
    <3>2. c[S] = Step(st, c[S \ {Max(S)}], pcs[Max(S)])
      BY <1>5, <3>1
    <3> QED
      BY <3>1, <3>2 DEF S
  <2>2. (1..k) \ {k} = 1..(k - 1) /\ k \in 0..n /\ k - 1 \in 0..n
    BY <1>1, Prefix
  <2> QED
    BY <2>1, <2>2
<1>9. find_symbols(st, pcs) = F[n].symbols
  BY <1>1, <1>6
<1> QED
  BY <1>7, <1>8, <1>9 DEF n, base

HaveSymbols(st, pcs) == \A k \in DOMAIN pcs : \E i : IsSymbol(st, pcs[k], i)

(* Whatever the order of the addresses, each of them gets its own symbol.  *)
LEMMA SymbolsFound ==
    ASSUME NEW st, Ordered(st), NEW pcs \in Seq(Nat), HaveSymbols(st, pcs)
    PROVE  /\ find_symbols(st, pcs) \in [DOMAIN pcs -> Nat]
           /\ \A k \in DOMAIN pcs : IsSymbol(st, pcs[k], find_symbols(st, pcs)[k])
<1> DEFINE n == Len(pcs)
<1>1. PICK G : /\ G[0] = [hint |-> 0, symbols |-> <<>>]
               /\ \A k \in 1..n : G[k] = Step(st, G[k - 1], pcs[k])
               /\ find_symbols(st, pcs) = G[n].symbols
  BY FindLoop
<1> DEFINE Good(k) == /\ G[k].hint \in 0..Len(st)
                      /\ G[k].symbols \in Seq(Nat) /\ Len(G[k].symbols) = k
                      /\ \A j \in 1..k : IsSymbol(st, pcs[j], G[k].symbols[j])
           P == { k \in 0..n : Good(k) }
<1>2. n \in Nat /\ DOMAIN pcs = 1..n /\ \A i \in 1..n : pcs[i] \in Nat
  BY ListParts
<1>3. 0 \in P
  <2>1. Len(st) \in Nat /\ 0 \in 0..Len(st)
    BY DEF Ordered
  <2>2. G[0].hint = 0 /\ G[0].symbols = <<>>
    BY <1>1
  <2>3. <<>> \in Seq(Nat) /\ Len(<<>>) = 0 /\ 1..0 = {} /\ 0 \in 0..n
    BY <1>2
  <2> QED
    BY <2>1, <2>2, <2>3
<1>4. ASSUME NEW k \in 1..n, k - 1 \in P PROVE k \in P
  <2> DEFINE a == G[k - 1]
             r == find_symbol(st, pcs[k], a.hint)
             ss == a.symbols
  <2>1. a.hint \in 0..Len(st) /\ ss \in Seq(Nat) /\ Len(ss) = k - 1
    BY <1>4
  <2>2. PICK i : IsSymbol(st, pcs[k], i)
    BY <1>2 DEF HaveSymbols
  <2>3. r.hint \in 0..Len(st) /\ r.symbol = i /\ i \in Nat
    <3>1. pcs[k] \in Nat /\ i \in Nat
      BY <1>2, <2>2 DEF IsSymbol
    <3> HIDE DEF a
    <3> QED
      BY <2>1, <2>2, <3>1, SymbolFound
  <2>4. G[k].hint = r.hint /\ G[k].symbols = Append(ss, i)
    <3>1. G[k] = [hint |-> r.hint, symbols |-> Append(ss, r.symbol)]
      BY <1>1 DEF Step
    <3> HIDE DEF r, ss
    <3> QED
      BY <2>3, <3>1
  <2>5. \A j \in 1..(k - 1) : IsSymbol(st, pcs[j], ss[j])
    BY <1>4
  <2> HIDE DEF a, r, ss
  <2> DEFINE tt == Append(ss, i)
  <2>6. tt \in Seq(Nat) /\ Len(tt) = k /\ tt[k] = i /\ \A j \in 1..(k - 1) : tt[j] = ss[j]
    BY <1>2, <2>1, <2>3
  <2> HIDE DEF tt
  <2>7. \A j \in 1..k : IsSymbol(st, pcs[j], tt[j])
    <3>1. 1..k = (1..(k - 1)) \cup {k}
      BY <1>2
    <3> QED
      BY <2>2, <2>5, <2>6, <3>1
  <2>8. G[k].symbols = tt
    BY <2>4 DEF tt
  <2>9. k \in 0..n /\ G[k].hint \in 0..Len(st)
    BY <1>2, <2>3, <2>4
  <2> HIDE DEF n
  <2> QED
    BY <2>6, <2>7, <2>8, <2>9
<1> HIDE DEF P
<1>5. n \in P
  <2>1. \A k \in 0..n : k \in P
    BY <1>2, <1>3, <1>4, UpTo
  <2>2. n \in 0..n
    BY <1>2
  <2> HIDE DEF n
  <2> QED
    BY <2>1, <2>2
<1> DEFINE t == find_symbols(st, pcs)
<1>6. Good(n)
  BY <1>5 DEF P
<1>7. t \in Seq(Nat) /\ Len(t) = n /\ \A j \in 1..n : IsSymbol(st, pcs[j], t[j])
  BY <1>1, <1>6
<1> HIDE DEF t
<1>8. DOMAIN t = 1..n /\ \A j \in 1..n : t[j] \in Nat
  BY <1>7, ListParts
<1>9. t \in [1..n -> Nat]
  BY <1>7, <1>8
<1> QED
  BY <1>2, <1>7, <1>9 DEF t

-----------------------------------------------------------------------------
(* Lines.  The definitions of Hooks with the symbols as a parameter.       *)
SymbolIn(st, a) ==
    CHOOSE i \in 0..(Len(st) - 1) : Sym(st, i).type = "opcode" /\ Covers(Sym(st, i), a)

LineAt(st, a, mark) ==
    [pc |-> resolve_addr(mark), line |-> SymbolIn(st, a), file |-> Sym(st, SymbolIn(st, a)).file]

LinesIn(st, m) == [i \in DOMAIN m |-> LineAt(st, m[i].addr, m[i].mark)]

Addresses(m) == [i \in DOMAIN m |-> m[i].addr]

(* The line that a reader should see, in terms of the table.               *)
LEMMA LineIs ==
    ASSUME NEW info, NEW k \in Int
    PROVE  LineOf(info, k) = LineAt(symtab, info.addr + k, k + 1)
<1>1. resolve_addr(k + 1) = 2 * k + 1
  BY DEF resolve_addr
<1> QED
  BY <1>1 DEF LineOf, LineAt, Symbol, SymbolIn, Opcode

(* The symbol of an address is the one that covers it.                     *)
LEMMA SymbolInIs ==
    ASSUME NEW st, Ordered(st), NEW a \in Nat, NEW i, IsSymbol(st, a, i)
    PROVE  SymbolIn(st, a) = i
<1>1. IsSymbol(st, a, SymbolIn(st, a))
  BY DEF SymbolIn, IsSymbol
<1> QED
  BY <1>1, OneSymbol

(* What the hooks make of their mappings are the lines of the opcodes.     *)
LEMMA LinesAre ==
    ASSUME Ordered(symtab), NEW h, Mappings(h) \in Seq(Mapping),
           HaveSymbols(symtab, Addresses(Mappings(h)))
    PROVE  Lines(h) = LinesIn(symtab, Mappings(h))
<1> DEFINE m == Mappings(h)
           pcs == Addresses(m)
           s == find_symbols(symtab, pcs)
<1>1. Lines(h) = [i \in DOMAIN m |-> [pc |-> resolve_addr(m[i].mark), line |-> s[i],
                                      file |-> Sym(symtab, s[i]).file]]
  BY DEF Lines, Addresses
<1> HIDE DEF m
<1>2. Len(m) \in Nat /\ DOMAIN m = 1..Len(m) /\ \A i \in 1..Len(m) : m[i] \in Mapping
  BY ListParts DEF m
<1>3. pcs \in [1..Len(m) -> Nat] /\ DOMAIN pcs = DOMAIN m /\ \A i \in DOMAIN m : pcs[i] = m[i].addr
  BY <1>2 DEF Addresses, Mapping
<1>4. pcs \in Seq(Nat)
  BY <1>2, <1>3, FunctionIsList
<1>5. \A i \in DOMAIN m : IsSymbol(symtab, pcs[i], s[i])
  <2>1. HaveSymbols(symtab, pcs)
    BY DEF m
  <2>2. DOMAIN pcs = DOMAIN m
    BY <1>3
  <2> HIDE DEF pcs
  <2>3. \A i \in DOMAIN pcs : IsSymbol(symtab, pcs[i], find_symbols(symtab, pcs)[i])
    BY <1>4, <2>1, SymbolsFound
  <2> QED
    BY <2>2, <2>3
<1>6. \A i \in DOMAIN m : s[i] = SymbolIn(symtab, m[i].addr)
  <2> SUFFICES ASSUME NEW i \in DOMAIN m PROVE s[i] = SymbolIn(symtab, m[i].addr)
    OBVIOUS
  <2>1. pcs[i] = m[i].addr /\ pcs[i] \in Nat /\ IsSymbol(symtab, pcs[i], s[i])
    BY <1>2, <1>3, <1>5
  <2> HIDE DEF s, pcs
  <2> QED
    BY <2>1, SymbolInIs
<1> HIDE DEF s
<1> QED
  BY <1>1, <1>6 DEF LinesIn, LineAt, m

-----------------------------------------------------------------------------
(* What the perf hook knows of the block of a VM, from begin_block until   *)
(* it has written its records.                                             *)
After == {"ended", "registered", "told"}
Busy  == {"block"} \cup After

Ops(w) == [k \in 1..w.num |-> [addr |-> w.entry + k - 1, mark |-> k]]

(* The blocks whose records are in the dump file, last one first.          *)
EndedBlocks(w) == IF w.at \in After THEN Tail(w.blocks) ELSE w.blocks

ProfileOf(v, w, st, es) ==
    /\ w.at \in Busy /\ st # <<>> => HaveSymbols(st, Addresses(Ops(w)))
    /\ w.at \in After => /\ es[Head(w.blocks)].info.addr = w.entry
                         /\ es[Head(w.blocks)].info.size = 2 * w.num + 1
    /\ w.dump_file =>
          /\ v \in PerfVM
          /\ Mappings(w.perf) = (IF st # <<>> /\ w.at \in Busy THEN Ops(w) ELSE <<>>)
          /\ w.code_index = Len(EndedBlocks(w))

Profile(v) == ProfileOf(v, vm[v], symtab, entries)

(* The rest of a VM may change.                                            *)
Quiet(w, x) ==
    /\ x.blocks = w.blocks /\ x.entry = w.entry /\ x.num = w.num /\ x.perf = w.perf
    /\ x.dump_file = w.dump_file /\ x.code_index = w.code_index
    /\ \/ x.at = w.at
       \/ x.at \in After /\ w.at \in After
       \/ x.at \notin Busy /\ w.at \notin Busy

(* InfoKept, for the entries that there were.                              *)
LEMMA InfoSame ==
    ASSUME IInv, [Next]_vars
    PROVE  \A e \in DOMAIN entries : e \in DOMAIN entries' /\ entries'[e].info = entries[e].info
<1>1. CASE /\ DOMAIN entries' = DOMAIN entries
           /\ \A e \in DOMAIN entries : entries'[e].info = entries[e].info
  BY <1>1
<1>2. ASSUME NEW v \in VM,
             entries' = Append(entries, [info |-> Info(v), next |-> 0, prev |-> 0])
      PROVE  \A e \in DOMAIN entries : e \in DOMAIN entries' /\ entries'[e] = entries[e]
  <2> DEFINE r == [info |-> Info(v), next |-> 0, prev |-> 0]
  <2> HIDE DEF r
  <2>1. entries \in Seq(ToSet(entries) \cup {r})
    BY EntryIds, FunctionIsList DEF IInv, Records
  <2> QED
    BY <1>2, <2>1, AppendFacts DEF r
<1> QED
  BY <1>1, <1>2, InfoKept

(* A step that leaves what the perf hook uses of a VM alone.               *)
LEMMA ProfileKept ==
    ASSUME IInv, [Next]_vars, NEW u \in VM, Profile(u), Quiet(vm[u], vm'[u])
    PROVE  Profile(u)' /\ EndedBlocks(vm'[u]) = EndedBlocks(vm[u])
<1> DEFINE w == vm[u]
           x == vm'[u]
           h == Head(w.blocks)
<1>1. symtab' = symtab
  BY InfoKept
<1>2. w.at \in After => entries'[h].info = entries[h].info
  BY HeadEntry, InfoSame DEF After, IInv, Vms, VmOK
<1>3. ProfileOf(u, w, symtab, entries) /\ Quiet(w, x)
  BY DEF Profile
<1> HIDE DEF w, x
<1>4. EndedBlocks(x) = EndedBlocks(w) /\ Ops(x) = Ops(w)
  BY <1>3 DEF EndedBlocks, Quiet, Ops, After, Busy
<1>5. ProfileOf(u, x, symtab, entries')
  <2>1. x.at \in Busy <=> w.at \in Busy
    BY <1>3 DEF Quiet, Busy
  <2>2. x.at \in After <=> w.at \in After
    BY <1>3 DEF Quiet, Busy
  <2> QED
    BY <1>2, <1>3, <1>4, <2>1, <2>2 DEF ProfileOf, Quiet
<1> QED
  BY <1>1, <1>4, <1>5 DEF Profile, w, x

(* The critical sections and the arena are nothing to the perf hook.       *)
LEMMA QuietSteps ==
    ASSUME IInv, NEW v \in VM, Critical(v) \/ Lock(v) \/ barena_reset(v)
    PROVE  /\ Quiet(vm[v], vm'[v]) /\ dump' = dump
           /\ \A u \in VM : u # v => vm'[u] = vm[u]
<1> DEFINE w == vm[v]
<1>1. vm \in [VM -> Vm] /\ w \in Vm
  BY DEF IInv, Vms
<1>0. CASE Stray(v)
  BY <1>0 DEF Stray, Quiet
<1>2. ASSUME ~Stray(v)
      PROVE  \E t \in Seq(Nat), a \in {"registered", "told", "cleanup", "done", "freed"} :
                /\ vm' = [vm EXCEPT ![v] = [w EXCEPT !.at = a, !.todo = t]]
                /\ \/ a \in After /\ w.at \in After
                   \/ a \notin Busy /\ w.at \notin Busy
                /\ dump' = dump
  <2>1. w.todo \in Seq(Nat) /\ w.blocks \in Seq(Nat)
    BY <1>1 DEF Vm
  <2>2. CASE Register(v)
    <3>1. vm' = [vm EXCEPT ![v] = [w EXCEPT !.at = "registered", !.todo = w.todo]]
      BY <1>1, <2>2 DEF Register, Vm
    <3> QED
      BY <2>1, <2>2, <3>1 DEF Register, After
  <2>3. CASE Notify(v)
    <3>1. vm' = [vm EXCEPT ![v] = [w EXCEPT !.at = "told", !.todo = w.todo]]
      BY <1>1, <2>3 DEF Notify, Vm
    <3> QED
      BY <2>1, <2>3, <3>1 DEF Notify, After
  <2>4. CASE Unregister(v)
    <3>1. vm' = [vm EXCEPT ![v] = [w EXCEPT !.at = "cleanup", !.todo = Tail(w.todo)]]
      BY <1>1, <2>4 DEF Unregister, Vm
    <3>2. Tail(w.todo) \in Seq(Nat)
      BY <2>1, <2>4, HeadFacts DEF Unregister
    <3> QED
      BY <2>4, <3>1, <3>2 DEF Unregister, After, Busy
  <2>5. CASE Unlock(v)
    <3>1. vm' = [vm EXCEPT ![v] = [w EXCEPT !.at = "done", !.todo = w.todo]]
      BY <1>1, <2>5 DEF Unlock, Vm
    <3> QED
      BY <2>1, <2>5, <3>1 DEF Unlock, After, Busy
  <2>6. CASE Lock(v)
    <3>1. vm' = [vm EXCEPT ![v] = [w EXCEPT !.at = "cleanup", !.todo = w.blocks]]
      BY <1>1, <2>6 DEF Lock, Vm
    <3> QED
      BY <2>1, <2>6, <3>1 DEF Lock, After, Busy
  <2>7. CASE barena_reset(v)
    <3>1. vm' = [vm EXCEPT ![v] = [w EXCEPT !.at = "freed", !.todo = w.todo]]
      BY <1>1, <2>7 DEF barena_reset, Vm
    <3> QED
      BY <2>1, <2>7, <3>1 DEF barena_reset, After, Busy
  <2> QED
    BY <1>2, <2>2, <2>3, <2>4, <2>5, <2>6, <2>7 DEF Critical
<1> SUFFICES ASSUME ~Stray(v) PROVE /\ Quiet(vm[v], vm'[v]) /\ dump' = dump
                                     /\ \A u \in VM : u # v => vm'[u] = vm[u]
  BY <1>0
<1>3. PICK t \in Seq(Nat), a \in {"registered", "told", "cleanup", "done", "freed"} :
         /\ vm' = [vm EXCEPT ![v] = [w EXCEPT !.at = a, !.todo = t]]
         /\ \/ a \in After /\ w.at \in After
            \/ a \notin Busy /\ w.at \notin Busy
         /\ dump' = dump
  BY <1>2
<1> DEFINE x == [w EXCEPT !.at = a, !.todo = t]
<1>4. /\ x.at = a /\ x.blocks = w.blocks /\ x.entry = w.entry /\ x.num = w.num
      /\ x.perf = w.perf /\ x.dump_file = w.dump_file /\ x.code_index = w.code_index
  BY <1>1 DEF Vm
<1> HIDE DEF x
<1>5. vm'[v] = x /\ \A u \in VM : u # v => vm'[u] = vm[u]
  BY <1>1, <1>3 DEF x
<1> QED
  BY <1>3, <1>4, <1>5 DEF Quiet

(* A block begins: no lines yet.                                           *)
LEMMA BeginBlockProfile ==
    ASSUME IInv, NEW v \in VM, NEW entry \in Entries, begin_block(v, entry), Profile(v)
    PROVE  /\ Profile(v)' /\ EndedBlocks(vm'[v]) = EndedBlocks(vm[v]) /\ dump' = dump
           /\ vm'[v].dump_file = vm[v].dump_file
           /\ \A u \in VM : u # v => vm'[u] = vm[u]
<1> DEFINE w == vm[v]
           x == [w EXCEPT !.at = "block", !.entry = entry, !.num = 0]
<1>1. vm \in [VM -> Vm] /\ w \in Vm
  BY DEF IInv, Vms
<1>2. /\ w.at = "idle" /\ vm' = [vm EXCEPT ![v] = x] /\ dump' = dump
      /\ symtab' = symtab /\ entries' = entries
  BY <1>1 DEF begin_block, config, shared
<1>3. /\ x.at = "block" /\ x.num = 0 /\ x.blocks = w.blocks /\ x.perf = w.perf
      /\ x.dump_file = w.dump_file /\ x.code_index = w.code_index
  BY <1>1 DEF Vm
<1> HIDE DEF x
<1>4. vm'[v] = x /\ \A u \in VM : u # v => vm'[u] = vm[u]
  BY <1>1, <1>2
<1>5. Ops(x) = <<>> /\ HaveSymbols(symtab, Addresses(Ops(x)))
  BY <1>3 DEF Ops, HaveSymbols, Addresses
<1>6. EndedBlocks(x) = EndedBlocks(w)
  BY <1>2, <1>3 DEF EndedBlocks, After
<1>7. ProfileOf(v, x, symtab, entries)
  <2>1. ProfileOf(v, w, symtab, entries)
    BY DEF Profile
  <2> HIDE DEF w
  <2> QED
    BY <1>2, <1>3, <1>5, <1>6, <2>1 DEF ProfileOf, Busy, After
<1> QED
  BY <1>2, <1>3, <1>4, <1>6, <1>7 DEF Profile

(* One more opcode with a symbol.                                          *)
LEMMA OpsGrow ==
    ASSUME NEW w \in Vm, NEW x \in Vm, x.entry = w.entry, x.num = w.num + 1, NEW st
    PROVE  /\ Ops(x) = Append(Ops(w), [addr |-> w.entry + w.num, mark |-> w.num + 1])
           /\ HaveSymbols(st, Addresses(Ops(w))) /\ (\E i : IsSymbol(st, w.entry + w.num, i))
                => HaveSymbols(st, Addresses(Ops(x)))
<1> DEFINE n == w.num
           a == w.entry
<1>1. n \in Nat /\ a \in Nat
  BY DEF Vm
<1>2. Ops(w) = [k \in 1..n |-> [addr |-> a + k - 1, mark |-> k]]
  BY DEF Ops
<1>3. Ops(x) = [k \in 1..(n + 1) |-> [addr |-> a + k - 1, mark |-> k]]
  BY DEF Ops
<1> HIDE DEF n, a
<1>4. \A k \in 1..n : [addr |-> a + k - 1, mark |-> k] \in Mapping
  BY <1>1 DEF Mapping
<1>5. Ops(w) \in Seq(Mapping) /\ Len(Ops(w)) = n
  BY <1>1, <1>2, <1>4
<1>6. a + (n + 1) - 1 = a + n
  BY <1>1
<1>7. Ops(x) = Append(Ops(w), [addr |-> a + n, mark |-> n + 1])
  BY <1>1, <1>2, <1>3, <1>5, <1>6
<1>8. Addresses(Ops(w)) = [k \in 1..n |-> a + k - 1]
  BY <1>2 DEF Addresses
<1>9. Addresses(Ops(x)) = [k \in 1..(n + 1) |-> a + k - 1]
  BY <1>3 DEF Addresses
<1>10. ASSUME HaveSymbols(st, Addresses(Ops(w))), \E i : IsSymbol(st, a + n, i)
       PROVE  HaveSymbols(st, Addresses(Ops(x)))
  <2>1. \A k \in 1..n : \E i : IsSymbol(st, a + k - 1, i)
    BY <1>8, <1>10 DEF HaveSymbols
  <2>2. 1..(n + 1) = (1..n) \cup {n + 1}
    BY <1>1
  <2>3. \A k \in 1..(n + 1) : \E i : IsSymbol(st, a + k - 1, i)
    BY <1>6, <1>10, <2>1, <2>2
  <2> QED
    BY <1>9, <2>3 DEF HaveSymbols
<1> QED
  BY <1>7, <1>10 DEF n, a

(* An opcode adds its line.                                                *)
LEMMA JitOpcodeProfile ==
    ASSUME IInv, NEW v \in VM, jit_opcode(v), Profile(v), Ordered(symtab)
    PROVE  /\ Profile(v)' /\ EndedBlocks(vm'[v]) = EndedBlocks(vm[v]) /\ dump' = dump
           /\ vm'[v].dump_file = vm[v].dump_file
           /\ \A u \in VM : u # v => vm'[u] = vm[u]
<1> DEFINE w  == vm[v]
           pc == w.entry + w.num
           m  == [addr |-> pc, mark |-> w.num + 1]
           g  == IF Wanted(v, pc) THEN Record(w.gdb, m) ELSE w.gdb
           p  == IF Profiled(v) THEN Record(w.perf, m) ELSE w.perf
           n  == w.num + 1
           x  == [w EXCEPT !.num = n, !.gdb = g, !.perf = p]
<1>1. vm \in [VM -> Vm] /\ w \in Vm /\ VmOK(v)
  BY DEF IInv, Vms
<1>2. /\ w.at = "block" /\ vm' = [vm EXCEPT ![v] = x] /\ dump' = dump
      /\ symtab' = symtab /\ entries' = entries
      /\ symtab # <<>> => \E sym \in ToSet(symtab) : sym.type = "opcode" /\ Covers(sym, pc)
  BY <1>1 DEF jit_opcode, config, shared
<1>3. m \in Mapping /\ w.perf \in Chunks(Mapping) /\ w.num \in Nat /\ w.entry \in Nat
  BY <1>1 DEF Vm, Mapping
<1>4. symtab # <<>> => \E i : IsSymbol(symtab, pc, i)
  BY <1>2, SymbolHasIndex
<1>5. IInv'
  BY JitOpcodeIInv
<1> HIDE DEF m, g
<1>6. Mappings(p) = IF Profiled(v) THEN Append(Mappings(w.perf), m) ELSE Mappings(w.perf)
  BY <1>1, <1>3, RecordFacts DEF VmOK
<1> HIDE DEF p
<1>7. /\ x.at = "block" /\ x.num = w.num + 1 /\ x.entry = w.entry /\ x.blocks = w.blocks
      /\ x.perf = p /\ x.dump_file = w.dump_file /\ x.code_index = w.code_index
  BY <1>1, <1>2 DEF Vm
<1> HIDE DEF x
<1>8. vm'[v] = x /\ x \in Vm /\ \A u \in VM : u # v => vm'[u] = vm[u]
  BY <1>1, <1>2, <1>5 DEF IInv, Vms
<1>9. /\ Ops(x) = Append(Ops(w), m)
      /\ HaveSymbols(symtab, Addresses(Ops(w))) /\ (\E i : IsSymbol(symtab, pc, i))
           => HaveSymbols(symtab, Addresses(Ops(x)))
  BY <1>1, <1>7, <1>8, OpsGrow DEF m
<1>10. EndedBlocks(x) = EndedBlocks(w)
  BY <1>2, <1>7 DEF EndedBlocks, After
<1>11. ProfileOf(v, x, symtab, entries)
  <2>1. ProfileOf(v, w, symtab, entries)
    BY DEF Profile
  <2>2. Profiled(v) <=> symtab # <<>> /\ v \in PerfVM
    BY DEF Profiled
  <2> HIDE DEF w, pc
  <2> QED
    BY <1>2, <1>4, <1>6, <1>7, <1>9, <1>10, <2>1, <2>2 DEF ProfileOf, Busy, After
<1> QED
  BY <1>2, <1>7, <1>8, <1>10, <1>11 DEF Profile

(* The gdb hook ends a block and leaves the lines of the perf hook alone.  *)
LEMMA GdbEndBlockProfile ==
    ASSUME IInv, NEW v \in VM, gdb_end_block(v), Profile(v)
    PROVE  /\ Profile(v)' /\ EndedBlocks(vm'[v]) = EndedBlocks(vm[v]) /\ dump' = dump
           /\ vm'[v].dump_file = vm[v].dump_file
           /\ \A u \in VM : u # v => vm'[u] = vm[u]
<1> DEFINE w == vm[v]
           n == Len(entries) + 1
           b == <<n>> \o w.blocks
           g == Recycle(w.gdb)
           x == [w EXCEPT !.at = "ended", !.gdb = g, !.blocks = b]
           r == [info |-> Info(v), next |-> 0, prev |-> 0]
<1>1. vm \in [VM -> Vm] /\ w \in Vm
  BY DEF IInv, Vms
<1>2. /\ w.at = "block" /\ vm' = [vm EXCEPT ![v] = x] /\ dump' = dump
      /\ symtab' = symtab /\ entries' = Append(entries, r)
  BY <1>1 DEF gdb_end_block, config, Info
<1>3. r.info.addr = w.entry /\ r.info.size = 2 * w.num + 1
  BY DEF Info
<1> HIDE DEF r
<1>4. n \in Nat /\ entries'[n] = r
  <2>1. entries \in Seq(ToSet(entries) \cup {r})
    BY EntryIds, FunctionIsList DEF IInv, Records
  <2> QED
    BY <1>2, <2>1
<1> HIDE DEF g, n
<1>5. Head(b) = n /\ Tail(b) = w.blocks
  BY <1>1, <1>4, ConsFacts DEF Vm
<1> HIDE DEF b
<1>6. /\ x.at = "ended" /\ x.num = w.num /\ x.entry = w.entry /\ x.blocks = b
      /\ x.perf = w.perf /\ x.dump_file = w.dump_file /\ x.code_index = w.code_index
  BY <1>1, <1>2 DEF Vm
<1> HIDE DEF x
<1>7. vm'[v] = x /\ \A u \in VM : u # v => vm'[u] = vm[u]
  BY <1>1, <1>2
<1>8. EndedBlocks(x) = EndedBlocks(w) /\ Ops(x) = Ops(w)
  BY <1>2, <1>5, <1>6 DEF EndedBlocks, After, Ops
<1>9. ProfileOf(v, x, symtab, entries')
  <2>1. ProfileOf(v, w, symtab, entries)
    BY DEF Profile
  <2> HIDE DEF w
  <2> QED
    BY <1>2, <1>3, <1>4, <1>5, <1>6, <1>8, <2>1 DEF ProfileOf, Busy, After
<1> QED
  BY <1>2, <1>6, <1>7, <1>8, <1>9 DEF Profile

(* The perf hook ends a block: it has one more code record.                *)
LEMMA PerfEndBlockProfile ==
    ASSUME IInv, NEW v \in VM, perf_end_block(v), Profile(v)
    PROVE  /\ Profile(v)' /\ EndedBlocks(vm'[v]) = vm[v].blocks
           /\ vm'[v].dump_file = vm[v].dump_file
           /\ \A u \in VM : u # v => vm'[u] = vm[u]
<1> DEFINE w == vm[v]
           dumps == v \in PerfVM /\ w.dump_file
           p == IF dumps THEN Recycle(w.perf) ELSE w.perf
           c == IF dumps THEN w.code_index + 1 ELSE w.code_index
           x == [w EXCEPT !.at = "idle", !.code_index = c, !.perf = p]
<1>1. vm \in [VM -> Vm] /\ w \in Vm /\ VmOK(v) /\ w.blocks \in Seq(Nat)
  BY DEF IInv, Vms, Vm
<1>2. /\ w.at = "told" /\ vm' = [vm EXCEPT ![v] = x]
      /\ symtab' = symtab /\ entries' = entries
  BY <1>1 DEF perf_end_block, config, shared
<1>3. w.perf \in Chunks(Mapping) /\ w.blocks # <<>>
  BY <1>1, <1>2 DEF Vm, VmOK
<1>4. dumps => Mappings(p) = <<>>
  BY <1>1, <1>3, RecycleOwned DEF VmOK
<1>5. Len(w.blocks) = Len(Tail(w.blocks)) + 1
  BY <1>1, <1>3
<1>6. dumps => c = w.code_index + 1
  OBVIOUS
<1> HIDE DEF p, c
<1>7. /\ x.at = "idle" /\ x.blocks = w.blocks /\ x.perf = p
      /\ x.dump_file = w.dump_file /\ x.code_index = c
  BY <1>1 DEF Vm
<1> HIDE DEF x
<1>8. vm'[v] = x /\ \A u \in VM : u # v => vm'[u] = vm[u]
  BY <1>1, <1>2
<1>9. EndedBlocks(x) = w.blocks /\ EndedBlocks(w) = Tail(w.blocks)
  BY <1>2, <1>7 DEF EndedBlocks, After
<1>10. ProfileOf(v, x, symtab, entries)
  <2>1. ProfileOf(v, w, symtab, entries)
    BY DEF Profile
  <2> HIDE DEF w
  <2> QED
    BY <1>2, <1>4, <1>5, <1>6, <1>7, <1>9, <2>1 DEF ProfileOf, Busy, After
<1> QED
  BY <1>2, <1>7, <1>8, <1>9, <1>10 DEF Profile

-----------------------------------------------------------------------------
(* The records of one block, the n-th of its VM, and those of a list.      *)
DumpOf(st, info, b, n) ==
    (IF st = <<>> \/ Num(info) = 0 THEN <<>>
     ELSE <<[id |-> "debug_info", block |-> b, index |-> 0,
             lines |-> [k \in 1..Num(info) |-> LineAt(st, info.addr + k - 1, k)]]>>)
    \o <<[id |-> "load", block |-> b, index |-> n - 1, lines |-> <<>>]>>

DumpList(st, es, bl) == [n \in DOMAIN bl |-> DumpOf(st, es[bl[n]].info, bl[n], n)]

(* The records of a block are a list.                                      *)
LEMMA DumpOfType ==
    ASSUME NEW st, NEW info, NEW b, NEW n
    PROVE  DumpOf(st, info, b, n) \in Seq(ToSet(DumpOf(st, info, b, n)))
<1> DEFINE x == [id |-> "debug_info", block |-> b, index |-> 0,
                 lines |-> [k \in 1..Num(info) |-> LineAt(st, info.addr + k - 1, k)]]
           y == [id |-> "load", block |-> b, index |-> n - 1, lines |-> <<>>]
           d == DumpOf(st, info, b, n)
<1>1. d = <<>> \o <<y>> \/ d = <<x>> \o <<y>>
  BY DEF DumpOf
<1> HIDE DEF x, y, d
<1>2. d \in Seq({x, y})
  <2>1. <<>> \in Seq({x, y}) /\ <<x>> \in Seq({x, y}) /\ <<y>> \in Seq({x, y})
    OBVIOUS
  <2>2. <<>> \o <<y>> \in Seq({x, y})
    BY <2>1, ConcatFacts
  <2>3. <<x>> \o <<y>> \in Seq({x, y})
    BY <2>1, ConcatFacts
  <2> QED
    BY <1>1, <2>2, <2>3
<1>3. d \in Seq(ToSet(d))
  <2>1. Len(d) \in Nat /\ d \in [1..Len(d) -> ToSet(d)]
    BY <1>2 DEF ToSet
  <2> QED
    BY <2>1, FunctionIsList
<1> QED
  BY <1>3 DEF d

(* One more block.                                                         *)
LEMMA DumpGrows ==
    ASSUME NEW st, NEW es, NEW bl \in Seq(Nat), NEW b \in Nat
    PROVE  FlattenSeq(DumpList(st, es, Append(bl, b)))
             = FlattenSeq(DumpList(st, es, bl)) \o DumpOf(st, es[b].info, b, Len(bl) + 1)
<1> DEFINE n == Len(bl)
           cl == Append(bl, b)
           s == DumpList(st, es, bl)
           t == DumpList(st, es, cl)
           x == DumpOf(st, es[b].info, b, n + 1)
           T == UNION { ToSet(t[i]) : i \in 1..(n + 1) }
<1>1. /\ n \in Nat /\ DOMAIN bl = 1..n /\ DOMAIN cl = 1..(n + 1) /\ cl[n + 1] = b
      /\ \A i \in 1..n : cl[i] = bl[i]
  OBVIOUS
<1> HIDE DEF n, cl
<1>2. /\ DOMAIN t = 1..(n + 1) /\ t[n + 1] = x
      /\ DOMAIN s = 1..n /\ \A i \in 1..n : t[i] = s[i]
  BY <1>1 DEF DumpList
<1>3. \A i \in 1..(n + 1) : t[i] \in Seq(ToSet(t[i]))
  BY <1>1, <1>2, DumpOfType DEF DumpList
<1>4. t = [i \in 1..(n + 1) |-> t[i]] /\ s = [i \in 1..n |-> s[i]]
  BY <1>1 DEF DumpList
<1> HIDE DEF s, t, x
<1>5. \A i \in 1..(n + 1) : t[i] \in Seq(T)
  <2> SUFFICES ASSUME NEW i \in 1..(n + 1) PROVE t[i] \in Seq(T)
    OBVIOUS
  <2>1. t[i] \in Seq(ToSet(t[i])) /\ ToSet(t[i]) \subseteq T
    BY <1>3
  <2> HIDE DEF T
  <2> QED
    BY <2>1
<1> HIDE DEF T
<1>6. s \in Seq(Seq(T)) /\ x \in Seq(T)
  <2>0. \A i \in 1..n : i \in 1..(n + 1)
    BY <1>1
  <2>1. s \in [1..n -> Seq(T)]
    BY <1>2, <1>4, <1>5, <2>0
  <2>2. s \in Seq(Seq(T))
    BY <1>1, <2>1, FunctionIsList
  <2>3. n + 1 \in 1..(n + 1)
    BY <1>1
  <2> QED
    BY <1>2, <1>5, <2>2, <2>3
<1>7. t = Append(s, x)
  <2>1. Len(s) = n
    BY <1>1, <1>2, <1>6
  <2> DEFINE a == Append(s, x)
  <2>2. DOMAIN a = 1..(n + 1) /\ a[n + 1] = x /\ \A i \in 1..n : a[i] = s[i]
    BY <1>1, <1>6, <2>1
  <2>3. a = [i \in 1..(n + 1) |-> a[i]]
    <3>1. a \in Seq(Seq(T)) /\ Len(a) = n + 1
      BY <1>6, <2>1
    <3> HIDE DEF a
    <3> QED
      BY <1>1, <3>1
  <2>4. 1..(n + 1) = (1..n) \cup {n + 1}
    BY <1>1
  <2> HIDE DEF a
  <2>5. \A i \in 1..(n + 1) : a[i] = t[i]
    BY <1>2, <2>2, <2>4
  <2>6. a = t
    BY <1>4, <2>3, <2>5
  <2> QED
    BY <2>6 DEF a
<1>8. FlattenSeq(t) = FlattenSeq(s) \o x
  BY <1>6, <1>7, FlattenAppend
<1> QED
  BY <1>8 DEF s, t, x, n, cl

(* perf_end_block writes the records of the block it ends.                 *)
LEMMA DumpRecordsAre ==
    ASSUME IInv, Ordered(symtab), NEW v \in VM, Profile(v), vm[v].at = "told", vm[v].dump_file
    PROVE  DumpRecords(v) = DumpOf(symtab, entries[Head(vm[v].blocks)].info,
                                   Head(vm[v].blocks), Len(Tail(vm[v].blocks)) + 1)
<1> DEFINE w == vm[v]
           b == Head(w.blocks)
           info == entries[b].info
           m == Mappings(w.perf)
           lines == Lines(w.perf)
           c == Len(Tail(w.blocks))
<1>1. /\ symtab # <<>> => HaveSymbols(symtab, Addresses(Ops(w)))
      /\ info.addr = w.entry /\ info.size = 2 * w.num + 1
      /\ m = (IF symtab # <<>> THEN Ops(w) ELSE <<>>)
      /\ w.code_index = c
  <2>1. ProfileOf(v, w, symtab, entries)
    BY DEF Profile
  <2> QED
    BY <2>1 DEF ProfileOf, After, Busy, EndedBlocks
<1>2. w.num \in Nat /\ w.entry \in Nat /\ w \in Vm
  BY DEF IInv, Vms, Vm
<1>3. w.blocks \in Seq(Nat) /\ w.blocks # <<>> /\ c \in Nat
  <2>1. w.blocks \in Seq(Nat) /\ w.blocks # <<>>
    BY DEF IInv, Vms, Vm, VmOK
  <2> QED
    BY <2>1
<1>4. m \in Seq(Mapping) /\ HaveSymbols(symtab, Addresses(m))
  <2>1. CASE symtab # <<>>
    <3>1. Ops(w) \in [1..w.num -> Mapping]
      BY <1>2 DEF Ops, Mapping
    <3>2. Ops(w) \in Seq(Mapping)
      BY <1>2, <3>1, FunctionIsList
    <3> QED
      BY <1>1, <2>1, <3>2
  <2>2. CASE symtab = <<>>
    <3>1. m = <<>>
      BY <1>1, <2>2
    <3> QED
      BY <3>1 DEF HaveSymbols, Addresses
  <2> QED
    BY <2>1, <2>2
<1>5. lines = LinesIn(symtab, m)
  BY <1>4, LinesAre
<1>6. lines = (IF symtab = <<>> THEN <<>>
               ELSE [k \in 1..w.num |-> LineAt(symtab, w.entry + k - 1, k)])
  <2>1. CASE symtab = <<>>
    BY <1>1, <1>5, <2>1 DEF LinesIn
  <2>2. CASE symtab # <<>>
    BY <1>1, <1>5, <2>2 DEF LinesIn, Ops
  <2> QED
    BY <2>1, <2>2
<1>7. Num(info) = w.num
  BY <1>1, <1>2 DEF Num
<1>8. lines = <<>> <=> symtab = <<>> \/ w.num = 0
  <2> HIDE DEF lines, w
  <2>1. CASE symtab # <<>> /\ w.num # 0
    <3>1. DOMAIN lines = 1..w.num /\ 1 \in 1..w.num /\ DOMAIN <<>> = {}
      BY <1>2, <1>6, <2>1
    <3> QED
      BY <2>1, <3>1
  <2>2. CASE symtab # <<>> /\ w.num = 0
    BY <1>6, <2>2
  <2> QED
    BY <1>6, <2>1, <2>2
<1>9. (c + 1) - 1 = c
  BY <1>3
<1>10. DumpRecords(v) =
         (IF lines = <<>> THEN <<>>
          ELSE <<[id |-> "debug_info", block |-> b, index |-> 0, lines |-> lines]>>)
         \o <<[id |-> "load", block |-> b, index |-> c, lines |-> <<>>]>>
  BY <1>1 DEF DumpRecords
<1>11. DumpOf(symtab, info, b, c + 1) =
         (IF symtab = <<>> \/ w.num = 0 THEN <<>>
          ELSE <<[id |-> "debug_info", block |-> b, index |-> 0,
                  lines |-> [k \in 1..w.num |-> LineAt(symtab, w.entry + k - 1, k)]]>>)
         \o <<[id |-> "load", block |-> b, index |-> c, lines |-> <<>>]>>
  BY <1>1, <1>7, <1>9 DEF DumpOf
<1> HIDE DEF w, b, info, m, lines, c
<1>12. DumpRecords(v) = DumpOf(symtab, info, b, c + 1)
  <2>1. CASE symtab = <<>> \/ w.num = 0
    <3>1. lines = <<>>
      BY <1>8, <2>1
    <3> QED
      BY <1>10, <1>11, <2>1, <3>1
  <2>2. CASE ~(symtab = <<>> \/ w.num = 0)
    <3> DEFINE t == [k \in 1..w.num |-> LineAt(symtab, w.entry + k - 1, k)]
    <3>1. lines # <<>> /\ lines = t
      BY <1>6, <1>8, <2>2
    <3>2. DumpOf(symtab, info, b, c + 1) =
            <<[id |-> "debug_info", block |-> b, index |-> 0, lines |-> t]>>
            \o <<[id |-> "load", block |-> b, index |-> c, lines |-> <<>>]>>
      BY <1>11, <2>2
    <3> HIDE DEF t
    <3> QED
      BY <1>10, <3>1, <3>2
  <2> QED
    BY <2>1, <2>2
<1> QED
  BY <1>12 DEF w, b, info, c

DumpOK(v) ==
    vm[v].dump_file =>
        dump[v] = FlattenSeq(DumpList(symtab, entries, Reverse(EndedBlocks(vm[v]))))

(* The finished blocks of a VM have entries.                               *)
LEMMA EndedEntries ==
    ASSUME IInv, NEW u \in VM
    PROVE  \A n \in DOMAIN Reverse(EndedBlocks(vm[u])) :
              Reverse(EndedBlocks(vm[u]))[n] \in DOMAIN entries
<1> DEFINE bl == Reverse(EndedBlocks(vm[u]))
<1>1. vm[u].blocks \in Seq(Nat) /\ ToSet(vm[u].blocks) \subseteq DOMAIN entries
  BY DEF IInv, Vms, Vm, VmOK
<1>2. EndedBlocks(vm[u]) \in Seq(Nat) /\ ToSet(EndedBlocks(vm[u])) \subseteq DOMAIN entries
  <2>1. CASE vm[u].at \in After
    <3>1. vm[u].blocks # <<>>
      BY <2>1 DEF IInv, Vms, VmOK, After
    <3> QED
      BY <1>1, <2>1, <3>1, HeadFacts DEF EndedBlocks
  <2>2. CASE vm[u].at \notin After
    BY <1>1, <2>2 DEF EndedBlocks
  <2> QED
    BY <2>1, <2>2
<1>3. ToSet(bl) \subseteq DOMAIN entries
  BY <1>2, ReverseFacts
<1> QED
  BY <1>3 DEF ToSet

(* A step that ends no block of a VM leaves its dump file right.           *)
LEMMA DumpKept ==
    ASSUME IInv, [Next]_vars, NEW u \in VM, DumpOK(u), dump'[u] = dump[u],
           vm'[u].dump_file = vm[u].dump_file, EndedBlocks(vm'[u]) = EndedBlocks(vm[u])
    PROVE  DumpOK(u)'
<1> DEFINE bl == Reverse(EndedBlocks(vm[u]))
<1>1. symtab' = symtab
  BY InfoKept
<1>2. \A n \in DOMAIN bl : bl[n] \in DOMAIN entries
  BY EndedEntries
<1>3. Reverse(EndedBlocks(vm'[u])) = bl
  OBVIOUS
<1> HIDE DEF bl
<1>4. \A n \in DOMAIN bl : entries'[bl[n]].info = entries[bl[n]].info
  BY <1>2, InfoSame
<1>5. DumpList(symtab, entries', bl) = DumpList(symtab, entries, bl)
  BY <1>4 DEF DumpList
<1> QED
  BY <1>1, <1>3, <1>5 DEF DumpOK, bl

(* The records that perf_end_block writes are those of the block that      *)
(* ended.                                                                  *)
LEMMA DumpGrown ==
    ASSUME IInv, Ordered(symtab), NEW v \in VM, perf_end_block(v), Profile(v), DumpOK(v),
           DOMAIN dump = VM
    PROVE  DumpOK(v)'
<1> SUFFICES ASSUME vm'[v].dump_file PROVE DumpOK(v)'
  BY DEF DumpOK
<1> DEFINE s == vm[v].blocks
           bl == Reverse(Tail(s))
           b == Head(s)
<1>1. /\ EndedBlocks(vm'[v]) = s /\ vm[v].dump_file
      /\ symtab' = symtab /\ entries' = entries /\ vm[v].at = "told" /\ v \in PerfVM
  <2>1. EndedBlocks(vm'[v]) = s /\ vm[v].dump_file
    BY PerfEndBlockProfile
  <2>2. v \in PerfVM
    BY <2>1 DEF Profile, ProfileOf
  <2> QED
    BY <2>1, <2>2 DEF perf_end_block, config, shared
<1>2. dump'[v] = dump[v] \o DumpRecords(v)
  BY <1>1 DEF perf_end_block
<1>3. s \in Seq(Nat) /\ s # <<>>
  BY <1>1 DEF IInv, Vms, Vm, VmOK
<1>4. dump[v] = FlattenSeq(DumpList(symtab, entries, bl))
  BY <1>1 DEF DumpOK, EndedBlocks, After
<1>5. DumpRecords(v) = DumpOf(symtab, entries[b].info, b, Len(Tail(s)) + 1)
  BY <1>1, DumpRecordsAre
<1> HIDE DEF s
<1>6. Reverse(s) = Append(bl, b) /\ Len(bl) = Len(Tail(s))
  BY <1>3, ReverseCons
<1>7. bl \in Seq(Nat) /\ b \in Nat
  BY <1>3, HeadFacts, ReverseFacts
<1> HIDE DEF bl, b
<1>8. FlattenSeq(DumpList(symtab, entries, Append(bl, b)))
        = FlattenSeq(DumpList(symtab, entries, bl))
          \o DumpOf(symtab, entries[b].info, b, Len(bl) + 1)
  BY <1>7, DumpGrows
<1> QED
  BY <1>1, <1>2, <1>4, <1>5, <1>6, <1>8 DEF DumpOK

(* The symbols, the hooks' data and the dump files.                        *)
Profiles ==
    /\ symtab \in Symtabs /\ DOMAIN dump = VM
    /\ \A v \in VM : Profile(v) /\ DumpOK(v)

(* Dump files start empty.                                                 *)
LEMMA InitProfiles == Init => Profiles
<1> SUFFICES ASSUME Init PROVE Profiles
  OBVIOUS
<1>1. PICK dumping \in SUBSET PerfVM :
         vm = [v \in VM |-> [at |-> "idle", entry |-> 0, num |-> 0, blocks |-> <<>>,
                             gdb |-> NoChunks, perf |-> NoChunks, todo |-> <<>>,
                             dump_file |-> v \in dumping, code_index |-> 0]]
  BY DEF Init
<1>2. ASSUME NEW v \in VM PROVE Profile(v) /\ DumpOK(v)
  <2>1. /\ vm[v].at = "idle" /\ vm[v].blocks = <<>> /\ vm[v].perf = NoChunks
        /\ vm[v].dump_file = (v \in dumping) /\ vm[v].code_index = 0
    BY <1>1
  <2>2. EndedBlocks(vm[v]) = <<>> /\ Len(<<>>) = 0
    BY <2>1 DEF EndedBlocks, After
  <2>3. Mappings(vm[v].perf) = <<>>
    BY <2>1, NoChunksOwned
  <2>4. Profile(v)
    BY <2>1, <2>2, <2>3 DEF Profile, ProfileOf, Busy, After
  <2>5. Reverse(<<>>) = <<>> /\ DumpList(symtab, entries, <<>>) = <<>>
    BY DEF Reverse, DumpList
  <2>6. dump[v] = <<>>
    BY DEF Init
  <2> QED
    BY <2>2, <2>4, <2>5, <2>6, FlattenEmpty DEF DumpOK
<1> QED
  BY <1>2 DEF Init, Profiles

(* Every step keeps lines and dump files right.                            *)
LEMMA StepProfiles == IInv /\ Profiles /\ [Next]_vars => Profiles'
<1> SUFFICES ASSUME IInv, Profiles, [Next]_vars PROVE Profiles'
  OBVIOUS
<1>1. symtab' = symtab /\ Ordered(symtab) /\ DOMAIN dump = VM
  BY InfoKept, TablesOrdered DEF Profiles
<1>2. ASSUME NEW u \in VM, vm'[u] = vm[u], dump'[u] = dump[u] PROVE Profile(u)' /\ DumpOK(u)'
  <2>1. Quiet(vm[u], vm'[u])
    BY <1>2 DEF Quiet
  <2>2. Profile(u)'
    BY <2>1, ProfileKept DEF Profiles
  <2>3. DumpOK(u)'
    BY <1>2, DumpKept DEF Profiles
  <2> QED
    BY <2>2, <2>3
<1>3. ASSUME NEW v \in VM, Profile(v)' /\ DumpOK(v)', DOMAIN dump' = VM,
             \A u \in VM : u # v => vm'[u] = vm[u] /\ dump'[u] = dump[u]
      PROVE  Profiles'
  BY <1>1, <1>2, <1>3 DEF Profiles
<1>4. ASSUME NEW v \in VM, Profile(v)', EndedBlocks(vm'[v]) = EndedBlocks(vm[v]), dump' = dump,
             vm'[v].dump_file = vm[v].dump_file, \A u \in VM : u # v => vm'[u] = vm[u]
      PROVE  Profiles'
  <2>1. DumpOK(v)'
    BY <1>4, DumpKept DEF Profiles
  <2> QED
    BY <1>1, <1>3, <1>4, <2>1
<1>5. CASE UNCHANGED vars
  BY <1>1, <1>2, <1>5 DEF vars, Profiles
<1>6. ASSUME NEW v \in VM, NEW entry \in Entries, begin_block(v, entry) PROVE Profiles'
  BY <1>4, <1>6, BeginBlockProfile DEF Profiles
<1>7. ASSUME NEW v \in VM, jit_opcode(v) PROVE Profiles'
  BY <1>1, <1>4, <1>7, JitOpcodeProfile DEF Profiles
<1>8. ASSUME NEW v \in VM, gdb_end_block(v) PROVE Profiles'
  BY <1>4, <1>8, GdbEndBlockProfile DEF Profiles
<1>9. ASSUME NEW v \in VM, perf_end_block(v) PROVE Profiles'
  <2>1. Profile(v)' /\ \A u \in VM : u # v => vm'[u] = vm[u]
    BY <1>9, PerfEndBlockProfile DEF Profiles
  <2>2. DumpOK(v)'
    BY <1>1, <1>9, DumpGrown DEF Profiles
  <2>3. DOMAIN dump' = VM /\ \A u \in VM : u # v => dump'[u] = dump[u]
    BY <1>1, <1>9 DEF perf_end_block
  <2> QED
    BY <1>3, <2>1, <2>2, <2>3
<1>10. ASSUME NEW v \in VM, Critical(v) \/ Lock(v) \/ barena_reset(v) PROVE Profiles'
  <2>1. /\ Quiet(vm[v], vm'[v]) /\ dump' = dump
        /\ \A u \in VM : u # v => vm'[u] = vm[u]
    BY <1>10, QuietSteps
  <2>2. Profile(v)' /\ EndedBlocks(vm'[v]) = EndedBlocks(vm[v])
    BY <2>1, ProfileKept DEF Profiles
  <2> QED
    BY <1>4, <2>1, <2>2 DEF Quiet
<1> QED
  BY <1>5, <1>6, <1>7, <1>8, <1>9, <1>10 DEF Next

(* The dump file of the VM with a perf hook has the records of its         *)
(* finished blocks in order, lines before code, whatever the other VMs do. *)
THEOREM AllDumped == Spec => []Dumped
<1>1. ASSUME IInv, Profiles, Searched PROVE Dumped
  <2> SUFFICES ASSUME NEW v \in PerfVM, vm[v].dump_file
               PROVE  LET ended == Reverse(IF vm[v].at \in {"ended", "registered", "told"}
                                           THEN Tail(vm[v].blocks) ELSE vm[v].blocks)
                          OneBlock(n) ==
                             LET info == entries[ended[n]].info
                             IN  (IF symtab = <<>> \/ Num(info) = 0 THEN <<>>
                                  ELSE <<[id |-> "debug_info", block |-> ended[n], index |-> 0,
                                          lines |-> [k \in 1..Num(info) |-> LineOf(info, k - 1)]]>>)
                                 \o <<[id |-> "load", block |-> ended[n], index |-> n - 1,
                                       lines |-> <<>>]>>
                      IN  dump[v] = FlattenSeq([n \in DOMAIN ended |-> OneBlock(n)])
    BY DEF Dumped
  <2> DEFINE ended == Reverse(EndedBlocks(vm[v]))
             Recs(n) ==
                LET info == entries[ended[n]].info
                IN  (IF symtab = <<>> \/ Num(info) = 0 THEN <<>>
                     ELSE <<[id |-> "debug_info", block |-> ended[n], index |-> 0,
                             lines |-> [k \in 1..Num(info) |-> LineOf(info, k - 1)]]>>)
                    \o <<[id |-> "load", block |-> ended[n], index |-> n - 1, lines |-> <<>>]>>
  <2>1. v \in VM /\ dump[v] = FlattenSeq(DumpList(symtab, entries, ended))
    BY <1>1, PerfVMAssumption DEF Profiles, DumpOK
  <2>2. ASSUME NEW n \in DOMAIN ended
        PROVE  Recs(n) = DumpOf(symtab, entries[ended[n]].info, ended[n], n)
    <3> DEFINE info == entries[ended[n]].info
               b == ended[n]
    <3>1. info.addr \in Nat
      BY <1>1, <2>1, EndedEntries DEF Searched
    <3> HIDE DEF info, b
    <3>2. \A k \in 1..Num(info) : LineOf(info, k - 1) = LineAt(symtab, info.addr + k - 1, k)
      <4> SUFFICES ASSUME NEW k \in 1..Num(info)
                   PROVE  LineOf(info, k - 1) = LineAt(symtab, info.addr + k - 1, k)
        OBVIOUS
      <4>1. info.addr + (k - 1) = info.addr + k - 1 /\ (k - 1) + 1 = k
        BY <3>1
      <4>2. LineOf(info, k - 1) = LineAt(symtab, info.addr + (k - 1), (k - 1) + 1)
        BY LineIs
      <4> QED
        BY <4>1, <4>2
    <3>3. [k \in 1..Num(info) |-> LineOf(info, k - 1)]
            = [k \in 1..Num(info) |-> LineAt(symtab, info.addr + k - 1, k)]
      BY <3>2
    <3>4. Recs(n) = (IF symtab = <<>> \/ Num(info) = 0 THEN <<>>
                     ELSE <<[id |-> "debug_info", block |-> b, index |-> 0,
                             lines |-> [k \in 1..Num(info) |-> LineOf(info, k - 1)]]>>)
                    \o <<[id |-> "load", block |-> b, index |-> n - 1, lines |-> <<>>]>>
      BY DEF info, b
    <3>5. Recs(n) = DumpOf(symtab, info, b, n)
      BY <3>3, <3>4 DEF DumpOf
    <3> QED
      BY <3>5 DEF info, b
  <2>3. ended = Reverse(IF vm[v].at \in {"ended", "registered", "told"}
                        THEN Tail(vm[v].blocks) ELSE vm[v].blocks)
    BY DEF EndedBlocks, After
  <2> HIDE DEF ended
  <2>4. [n \in DOMAIN ended |-> Recs(n)] = DumpList(symtab, entries, ended)
    <3> HIDE DEF Recs
    <3> QED
      BY <2>2 DEF DumpList
  <2> QED
    BY <2>1, <2>3, <2>4
<1>2. Init => Searched
  BY DEF Init, Searched
<1> QED
  BY <1>1, <1>2, Invariance, InitProfiles, StepProfiles, SearchedStep, PTL DEF Spec

-----------------------------------------------------------------------------
(* The tables of the reader, for mappings of any files.                    *)
Line(X)  == [pc : Nat, line : Nat, file : X]
Table(X) == [file : X, from : Nat, end : Int, lines : Seq(Line(X))]
Open(X)  == [file : X, from : Nat, lines : Seq(Line(X))]
Acc(X, N) ==
    [closed : Seq(Table(X)), symtab : Open(X), names : {N}, failed : BOOLEAN]

NoTables(N) ==
    [closed |-> <<>>, symtab |-> Opened("uxn", 0), names |-> N, failed |-> FALSE]

(* What one turn of the loop makes of the tables: r.                       *)
Turn(acc, m, N, r) ==
    /\ acc.failed => r = acc
    /\ ~acc.failed /\ acc.symtab.file = m.file =>
          /\ ~r.failed /\ r.closed = acc.closed
          /\ r.symtab.file = m.file /\ r.symtab.from = acc.symtab.from
          /\ ToSet(r.symtab.lines) = ToSet(acc.symtab.lines) \cup {m}
    /\ ~acc.failed /\ acc.symtab.file # m.file =>
          r.closed = Append(acc.closed, Closed(acc.symtab, m.pc - 1))
    /\ ~acc.failed /\ acc.symtab.file # m.file /\ m.file \in N =>
          /\ ~r.failed
          /\ r.symtab.file = m.file /\ r.symtab.from = m.pc
          /\ ToSet(r.symtab.lines) = {m}
    /\ ~acc.failed /\ acc.symtab.file # m.file /\ m.file \notin N =>
          /\ r.failed
          /\ r.symtab.from = acc.symtab.from

(* NextMapping does what Turn says.                                        *)
LEMMA OneTurn ==
    ASSUME NEW X, NEW N, NEW acc \in Acc(X, N), NEW m \in Line(X)
    PROVE  NextMapping(acc, m) \in Acc(X, N) /\ Turn(acc, m, N, NextMapping(acc, m))
<1> DEFINE r == NextMapping(acc, m)
           c == acc.closed
           o == acc.symtab
           d == Closed(o, m.pc - 1)
           e == Append(c, d)
<1>1. c \in Seq(Table(X)) /\ o \in Open(X) /\ m.pc \in Nat /\ m.file \in X
  BY DEF Acc, Line
<1>2. o.lines \in Seq(Line(X)) /\ o.from \in Nat /\ o.file \in X
  BY <1>1 DEF Open
<1>3. acc.names = N /\ acc.failed \in BOOLEAN
  BY DEF Acc
<1>4. /\ \A b \in Seq(Table(X)), q \in Open(X) :
            [closed |-> b, symtab |-> q, names |-> N, failed |-> FALSE] \in Acc(X, N)
      /\ \A b \in Seq(Table(X)), q \in Open(X) :
            [closed |-> b, symtab |-> q, names |-> N, failed |-> TRUE] \in Acc(X, N)
  BY DEF Acc
<1>5. e \in Seq(Table(X))
  <2>1. d \in Table(X)
    <3>1. m.pc - 1 \in Int
      BY <1>1
    <3> QED
      BY <1>2, <3>1 DEF Closed, Table
  <2> HIDE DEF d
  <2> QED
    BY <1>1, <2>1
<1>6. CASE acc.failed
  BY <1>6 DEF NextMapping, Turn
<1>7. CASE ~acc.failed /\ o.file = m.file
  <2> DEFINE l == Append(o.lines, m)
             q == [o EXCEPT !.lines = l]
  <2>1. r = [closed |-> c, symtab |-> q, names |-> N, failed |-> FALSE]
    BY <1>3, <1>7 DEF NextMapping
  <2>2. l \in Seq(Line(X)) /\ ToSet(l) = ToSet(o.lines) \cup {m}
    <3> DEFINE t == o.lines
    <3>1. t \in Seq(Line(X))
      BY <1>2
    <3> HIDE DEF t
    <3>2. Append(t, m) \in Seq(Line(X)) /\ ToSet(Append(t, m)) = ToSet(t) \cup {m}
      BY <3>1, AppendFacts
    <3> QED
      BY <3>2 DEF t
  <2> HIDE DEF l
  <2>3. q \in Open(X) /\ q.file = m.file /\ q.from = o.from /\ q.lines = l
    BY <1>1, <1>7, <2>2 DEF Open
  <2> HIDE DEF q, r
  <2>4. r \in Acc(X, N) /\ r.closed = c /\ r.symtab = q /\ r.failed = FALSE
    BY <1>1, <1>4, <2>1, <2>3
  <2> QED
    BY <1>7, <2>2, <2>3, <2>4 DEF Turn, r
<1>8. CASE ~acc.failed /\ o.file # m.file /\ m.file \in N
  <2> DEFINE q == [file |-> m.file, from |-> m.pc, lines |-> <<m>>]
  <2>1. r = [closed |-> e, symtab |-> q, names |-> N, failed |-> FALSE]
    <3>1. Append(<<>>, m) = <<m>>
      OBVIOUS
    <3>2. [Opened(m.file, m.pc) EXCEPT !.lines = Append(Opened(m.file, m.pc).lines, m)] = q
      BY <3>1 DEF Opened
    <3> QED
      BY <1>3, <1>8, <3>2 DEF NextMapping
  <2>2. <<m>> \in Seq(Line(X)) /\ ToSet(<<m>>) = {m}
    BY DEF ToSet
  <2>3. q \in Open(X) /\ q.file = m.file /\ q.from = m.pc /\ q.lines = <<m>>
    BY <1>1, <2>2 DEF Open
  <2> HIDE DEF q, e, r
  <2>4. r \in Acc(X, N) /\ r.closed = e /\ r.symtab = q /\ r.failed = FALSE
    BY <1>4, <1>5, <2>1, <2>3
  <2> QED
    BY <1>8, <2>2, <2>3, <2>4 DEF e, r, Turn
<1>9. CASE ~acc.failed /\ o.file # m.file /\ m.file \notin N
  <2> DEFINE z == <<>>
             q == [o EXCEPT !.lines = z]
  <2>1. r = [closed |-> e, symtab |-> q, names |-> N, failed |-> TRUE]
    BY <1>3, <1>9 DEF NextMapping
  <2>2. q \in Open(X) /\ q.from = o.from
    <3>1. z \in Seq(Line(X))
      OBVIOUS
    <3> HIDE DEF z
    <3> QED
      BY <1>1, <3>1 DEF Open
  <2> HIDE DEF q, e, r
  <2>3. r \in Acc(X, N) /\ r.closed = e /\ r.symtab = q /\ r.failed = TRUE
    BY <1>4, <1>5, <2>1, <2>2
  <2> QED
    BY <1>9, <2>2, <2>3 DEF e, r, Turn
<1> QED
  BY <1>6, <1>7, <1>8, <1>9

(* The loop over the mappings, turn by turn.                               *)
LEMMA TablesLoop ==
    ASSUME NEW X, NEW N, "uxn" \in X, NEW ms \in Seq(Line(X))
    PROVE  \E F : /\ F[0] = NoTables(N)
                  /\ \A k \in 1..Len(ms) : F[k] = NextMapping(F[k - 1], ms[k])
                  /\ FoldLeft(NextMapping, NoTables(N), ms) = F[Len(ms)]
<1> DEFINE n == Len(ms)
           Z == NoTables(N)
           V == Acc(X, N)
           T == Line(X)
           g == [p \in V \X T |-> NextMapping(p[1], p[2])]
           Is(f) == f = [S \in SUBSET DOMAIN ms |->
                           IF S = {} THEN Z
                           ELSE NextMapping(f[S \ {Max(S)}], ms[Max(S)])]
           c == CHOOSE f : Is(f)
           F == [k \in 0..n |-> c[1..k]]
<1>1. n \in Nat /\ DOMAIN ms = 1..n /\ \A i \in 1..n : ms[i] \in T
  BY ListParts
<1>2. Z \in V /\ g \in [V \X T -> V]
  <2>1. Z \in V
    BY DEF NoTables, Opened, Acc, Open
  <2> QED
    BY <2>1, OneTurn
<1> HIDE DEF V, T, Z
<1>3. PICK f \in [SUBSET (1..n) -> V] : Folds(f, g, Z, ms, n)
  <2>1. ms \in Seq(T)
    BY DEF T
  <2> HIDE DEF g
  <2> QED
    BY <1>2, <2>1, FoldsExists
<1>4. Is(f)
  <2>1. ASSUME NEW S \in SUBSET (1..n), S # {}
        PROVE  f[S] = NextMapping(f[S \ {Max(S)}], ms[Max(S)])
    <3>1. Max(S) \in 1..n
      BY <1>1, <2>1, MaxIn
    <3>2. <<f[S \ {Max(S)}], ms[Max(S)]>> \in V \X T
      BY <1>1, <1>3, <3>1
    <3>3. f[S] = g[<<f[S \ {Max(S)}], ms[Max(S)]>>]
      BY <1>3, <2>1 DEF Folds
    <3> QED
      BY <3>2, <3>3
  <2>2. f[{}] = Z
    BY <1>3 DEF Folds
  <2> QED
    BY <1>1, <1>3, <2>1, <2>2
<1>5. Is(c)
  BY <1>4
<1>6. FoldLeft(NextMapping, Z, ms) = c[DOMAIN ms]
  BY DEF FoldLeft, MapThenFoldSet
<1> HIDE DEF c, n
<1>7. F[0] = Z
  <2>1. c[{}] = Z /\ 1..0 = {} /\ 0 \in 0..n
    BY <1>1, <1>5
  <2> QED
    BY <2>1
<1>8. ASSUME NEW k \in 1..n PROVE F[k] = NextMapping(F[k - 1], ms[k])
  <2>1. c[1..k] = NextMapping(c[(1..k) \ {k}], ms[k])
    <3> DEFINE S == 1..k
    <3>1. S \in SUBSET DOMAIN ms /\ S # {} /\ Max(S) = k
      BY <1>1, Prefix
    <3> HIDE DEF S
    <3>2. c[S] = NextMapping(c[S \ {Max(S)}], ms[Max(S)])
      BY <1>5, <3>1
    <3> QED
      BY <3>1, <3>2 DEF S
  <2>2. (1..k) \ {k} = 1..(k - 1) /\ k \in 0..n /\ k - 1 \in 0..n
    BY <1>1, Prefix
  <2> QED
    BY <2>1, <2>2
<1>9. FoldLeft(NextMapping, Z, ms) = F[n]
  BY <1>1, <1>6
<1> QED
  BY <1>7, <1>8, <1>9 DEF n, Z

(* The closed tables leave no gap up to an address.                        *)
Fits(t, from) ==
    /\ t = <<>> => from = 0
    /\ t # <<>> => t[1].from = 0 /\ from = t[Len(t)].end + 1
    /\ \A i \in 1..(Len(t) - 1) : t[i + 1].from = t[i].end + 1

(* A table that starts where the last one ends leaves no gap.              *)
LEMMA FitsAppend ==
    ASSUME NEW X, NEW t \in Seq(Table(X)), NEW x \in Table(X), Fits(t, x.from)
    PROVE  /\ Fits(Append(t, x), x.end + 1)
           /\ Append(t, x)[1].from = 0 /\ Len(Append(t, x)) = Len(t) + 1
           /\ Append(t, x)[Len(t) + 1] = x
           /\ \A i \in 1..Len(t) : Append(t, x)[i] = t[i]
<1> DEFINE n == Len(t)
           u == Append(t, x)
<1>1. n \in Nat /\ DOMAIN t = 1..n /\ (t = <<>> <=> n = 0)
  OBVIOUS
<1>2. u \in Seq(Table(X)) /\ Len(u) = n + 1 /\ u[n + 1] = x /\ \A i \in 1..n : u[i] = t[i]
  OBVIOUS
<1> HIDE DEF u
<1>3. u[1].from = 0
  <2>1. CASE n = 0
    BY <1>1, <1>2, <2>1 DEF Fits
  <2>2. CASE n # 0
    <3>1. 1 \in 1..n
      BY <1>1, <2>2
    <3> QED
      BY <1>1, <1>2, <2>2, <3>1 DEF Fits
  <2> QED
    BY <2>1, <2>2
<1>4. ASSUME NEW i \in 1..n PROVE u[i + 1].from = u[i].end + 1
  <2>1. CASE i \in 1..(n - 1)
    <3>1. i \in 1..n /\ i + 1 \in 1..n
      BY <1>1, <2>1
    <3>2. t[i + 1].from = t[i].end + 1
      BY <2>1 DEF Fits
    <3> QED
      BY <1>2, <3>1, <3>2
  <2>2. CASE i = n
    <3>1. x.from = t[n].end + 1
      BY <1>1, <2>2 DEF Fits
    <3> QED
      BY <1>2, <2>2, <3>1
  <2>3. i \in 1..(n - 1) \/ i = n
    <3> HIDE DEF n
    <3> QED
      BY <1>1
  <2> QED
    BY <2>1, <2>2, <2>3
<1>5. u # <<>> /\ Len(u) - 1 = n /\ u[Len(u)].end = x.end
  BY <1>1, <1>2
<1>6. Fits(u, x.end + 1)
  BY <1>3, <1>4, <1>5 DEF Fits
<1> QED
  BY <1>2, <1>3, <1>6 DEF u

(* A line is in one of the tables, or in the one that is open.             *)
InTable(t, l) ==
    \E i \in DOMAIN t : /\ t[i].from <= l.pc /\ l.pc < t[i].end
                        /\ t[i].file = l.file /\ l \in ToSet(t[i].lines)

InOpen(o, l) == o.from <= l.pc /\ o.file = l.file /\ l \in ToSet(o.lines)

(* Closing a table keeps the lines.                                        *)
LEMMA InAppend ==
    ASSUME NEW X, NEW t \in Seq(Table(X)), NEW x \in Table(X), NEW l
    PROVE  /\ InTable(t, l) => InTable(Append(t, x), l)
           /\ InOpen(x, l) /\ l.pc < x.end => InTable(Append(t, x), l)
<1> DEFINE u == Append(t, x)
<1>1. /\ DOMAIN u = DOMAIN t \cup {Len(t) + 1} /\ u[Len(t) + 1] = x
      /\ \A i \in DOMAIN t : u[i] = t[i]
  OBVIOUS
<1> HIDE DEF u
<1>2. InTable(t, l) => InTable(u, l)
  BY <1>1 DEF InTable
<1>3. InOpen(x, l) /\ l.pc < x.end => InTable(u, l)
  BY <1>1 DEF InTable, InOpen
<1> QED
  BY <1>2, <1>3 DEF u

(* There is more than one byte from one line to the next.                  *)
Increasing(ms) == \A i, j \in DOMAIN ms : i < j => ms[i].pc + 1 < ms[j].pc

(* After k turns: the tables so far have no gap, and the k lines are in.   *)
Going(ms, k, acc) ==
    /\ Fits(acc.closed, acc.symtab.from)
    /\ k = 0 => acc.symtab.from = 0
    /\ k # 0 => acc.symtab.from <= ms[k].pc
    /\ \A j \in 1..k : InTable(acc.closed, ms[j]) \/ InOpen(acc.symtab, ms[j])

(* A name could not be read: the lines before it are in.                   *)
GivenUp(N, ms, k, acc) ==
    LET t == acc.closed
    IN  /\ t # <<>> /\ Fits(t, t[Len(t)].end + 1)
        /\ acc.symtab.from = t[Len(t)].from
        /\ \E f \in 1..k : ms[f].file \notin N /\ \A j \in 1..(f - 1) : InTable(t, ms[j])

Placed(X, N, ms, k, acc) ==
    /\ acc \in Acc(X, N)
    /\ ~acc.failed => Going(ms, k, acc)
    /\ acc.failed => GivenUp(N, ms, k, acc)

(* One turn places one more line.                                          *)
LEMMA PlacedStep ==
    ASSUME NEW X, NEW N, NEW ms \in Seq(Line(X)), Increasing(ms), NEW k \in 1..Len(ms),
           NEW acc, Placed(X, N, ms, k - 1, acc)
    PROVE  Placed(X, N, ms, k, NextMapping(acc, ms[k]))
<1> DEFINE m == ms[k]
           r == NextMapping(acc, m)
           o == acc.symtab
           c == acc.closed
           d == Closed(o, m.pc - 1)
<1>1. Len(ms) \in Nat /\ DOMAIN ms = 1..Len(ms) /\ \A i \in 1..Len(ms) : ms[i] \in Line(X)
  BY ListParts
<1>2. /\ m \in Line(X) /\ m.pc \in Nat
      /\ \A i \in 1..(k - 1) : ms[i].pc \in Nat /\ ms[i].pc + 1 < m.pc
  <2>1. k \in DOMAIN ms /\ \A i \in 1..(k - 1) : i \in DOMAIN ms /\ i < k
    BY <1>1
  <2>2. \A i \in DOMAIN ms : ms[i] \in Line(X)
    BY <1>1
  <2>3. \A i \in DOMAIN ms : ms[i].pc \in Nat
    BY <2>2 DEF Line
  <2> QED
    BY <2>1, <2>2, <2>3 DEF Increasing
<1>3. acc \in Acc(X, N) /\ c \in Seq(Table(X)) /\ o \in Open(X) /\ o.from \in Nat
  <2>1. acc \in Acc(X, N)
    BY DEF Placed
  <2>2. c \in Seq(Table(X)) /\ o \in Open(X)
    BY <2>1 DEF Acc
  <2> QED
    BY <2>1, <2>2 DEF Open
<1>4. r \in Acc(X, N) /\ Turn(acc, m, N, r)
  <2>1. m \in Line(X) /\ acc \in Acc(X, N)
    BY <1>2, <1>3
  <2> HIDE DEF m
  <2> QED
    BY <2>1, OneTurn
<1>5. 1..k = (1..(k - 1)) \cup {k} /\ k # 0
  BY <1>1
<1> HIDE DEF r
<1>6. CASE acc.failed
  <2>1. r = acc
    BY <1>4, <1>6 DEF Turn
  <2>2. GivenUp(N, ms, k - 1, acc)
    BY <1>6 DEF Placed
  <2>3. GivenUp(N, ms, k, acc)
    BY <1>5, <2>2 DEF GivenUp
  <2>4. Placed(X, N, ms, k, r)
    BY <1>3, <1>6, <2>1, <2>3 DEF Placed
  <2> QED
    BY <2>4 DEF r
<1>7. ASSUME ~acc.failed
      PROVE  /\ Fits(c, o.from) /\ o.from <= m.pc
             /\ \A j \in 1..(k - 1) : InTable(c, ms[j]) \/ InOpen(o, ms[j])
  <2>1. Going(ms, k - 1, acc)
    BY <1>7 DEF Placed
  <2>2. CASE k - 1 = 0
    BY <1>2, <2>1, <2>2 DEF Going
  <2>3. CASE k - 1 # 0
    <3>1. k - 1 \in 1..(k - 1) /\ o.from <= ms[k - 1].pc
      BY <1>1, <2>1, <2>3 DEF Going
    <3>2. o.from <= m.pc
      BY <1>2, <1>3, <3>1
    <3> QED
      BY <2>1, <3>2 DEF Going
  <2> QED
    BY <2>2, <2>3
<1>8. /\ d \in Table(X) /\ d.from = o.from /\ d.end = m.pc - 1 /\ d.file = o.file
      /\ d.lines = o.lines
  <2>1. m.pc - 1 \in Int
    BY <1>2
  <2> QED
    BY <1>3, <2>1 DEF Closed, Table, Open
<1> HIDE DEF o, c, m, d
<1>9. ASSUME ~acc.failed, o.file # m.file
      PROVE  /\ r.closed = Append(c, d) /\ Fits(r.closed, m.pc)
             /\ r.closed # <<>> /\ r.closed[Len(r.closed)] = d
             /\ \A j \in 1..(k - 1) : InTable(r.closed, ms[j])
  <2>1. r.closed = Append(c, d) /\ (m.pc - 1) + 1 = m.pc
    BY <1>2, <1>4, <1>9 DEF Turn, d, c, o
  <2>2. /\ Fits(Append(c, d), d.end + 1) /\ Len(Append(c, d)) = Len(c) + 1
        /\ Append(c, d)[Len(c) + 1] = d
    BY <1>3, <1>7, <1>8, <1>9, FitsAppend
  <2>3. Append(c, d) # <<>>
    BY <1>3, <1>8
  <2>4. ASSUME NEW j \in 1..(k - 1) PROVE InTable(Append(c, d), ms[j])
    <3>1. InTable(c, ms[j]) \/ InOpen(o, ms[j])
      BY <1>7, <1>9
    <3>2. ms[j].pc < d.end
      BY <1>2, <1>8
    <3>3. InOpen(o, ms[j]) => InOpen(d, ms[j])
      BY <1>8 DEF InOpen
    <3> QED
      BY <1>3, <1>8, <3>1, <3>2, <3>3, InAppend
  <2> QED
    BY <1>8, <2>1, <2>2, <2>3, <2>4
<1>10. CASE ~acc.failed /\ o.file = m.file
  <2>1. /\ ~r.failed /\ r.closed = c /\ r.symtab.file = m.file /\ r.symtab.from = o.from
        /\ ToSet(r.symtab.lines) = ToSet(o.lines) \cup {m}
    BY <1>4, <1>10 DEF Turn, o, c
  <2>2. InOpen(r.symtab, m)
    BY <1>7, <1>10, <2>1 DEF InOpen
  <2>3. \A j \in 1..(k - 1) : InTable(r.closed, ms[j]) \/ InOpen(r.symtab, ms[j])
    BY <1>7, <1>10, <2>1 DEF InOpen
  <2>4. \A j \in 1..k : InTable(r.closed, ms[j]) \/ InOpen(r.symtab, ms[j])
    BY <1>5, <2>2, <2>3 DEF m
  <2>5. Going(ms, k, r)
    BY <1>5, <1>7, <1>10, <2>1, <2>4 DEF Going, m
  <2>6. Placed(X, N, ms, k, r)
    BY <1>4, <2>1, <2>5 DEF Placed
  <2> QED
    BY <2>6 DEF r, m
<1>11. CASE ~acc.failed /\ o.file # m.file /\ m.file \in N
  <2>1. /\ ~r.failed /\ r.symtab.file = m.file /\ r.symtab.from = m.pc
        /\ ToSet(r.symtab.lines) = {m}
    BY <1>4, <1>11 DEF Turn, o
  <2>2. InOpen(r.symtab, m)
    BY <1>2, <2>1 DEF InOpen
  <2>3. \A j \in 1..k : InTable(r.closed, ms[j]) \/ InOpen(r.symtab, ms[j])
    BY <1>5, <1>9, <1>11, <2>2 DEF m
  <2>4. r.symtab.from <= m.pc
    BY <1>2, <2>1
  <2>5. Going(ms, k, r)
    BY <1>5, <1>9, <1>11, <2>1, <2>3, <2>4 DEF Going, m
  <2>6. Placed(X, N, ms, k, r)
    BY <1>4, <2>1, <2>5 DEF Placed
  <2> QED
    BY <2>6 DEF r, m
<1>12. CASE ~acc.failed /\ o.file # m.file /\ m.file \notin N
  <2>1. r.failed /\ r.symtab.from = o.from
    BY <1>4, <1>12 DEF Turn, o
  <2>2. d.end + 1 = m.pc
    BY <1>2, <1>8
  <2>3. k \in 1..k /\ ms[k].file \notin N
    BY <1>5, <1>12 DEF m
  <2>4. GivenUp(N, ms, k, r)
    BY <1>8, <1>9, <1>12, <2>1, <2>2, <2>3 DEF GivenUp
  <2>5. Placed(X, N, ms, k, r)
    BY <1>4, <2>1, <2>4 DEF Placed
  <2> QED
    BY <2>5 DEF r, m
<1> QED
  BY <1>6, <1>10, <1>11, <1>12

Below(ms, size) == \A i \in DOMAIN ms : ms[i].pc < size

(* What the reader says of a block of a size with some mappings, when it   *)
(* can read the names N.                                                   *)
TablesFit(t, ms, size, N) ==
    /\ t[1].from = 0 /\ t[Len(t)].end = size
    /\ \A i \in 1..(Len(t) - 1) :
          \/ t[i + 1].from = t[i].end + 1
          \/ /\ i = Len(t) - 1 /\ t[i + 1].from = t[i].from
             /\ \E l \in ToSet(ms) : l.file \notin N
    /\ \A j \in DOMAIN ms : (\A i \in 1..j : ms[i].file \in N) => InTable(t, ms[j])

(* The tables after the loop of the reader are right.                      *)
LEMMA TablesRead ==
    ASSUME NEW X, NEW N, "uxn" \in X, NEW ms \in Seq(Line(X)), Increasing(ms),
           NEW size \in Nat, Below(ms, size)
    PROVE  TablesFit(Append(FoldLeft(NextMapping, NoTables(N), ms).closed,
                              Closed(FoldLeft(NextMapping, NoTables(N), ms).symtab, size)),
                       ms, size, N)
<1> DEFINE n == Len(ms)
           acc == FoldLeft(NextMapping, NoTables(N), ms)
<1>1. PICK F : /\ F[0] = NoTables(N)
               /\ \A k \in 1..n : F[k] = NextMapping(F[k - 1], ms[k])
               /\ acc = F[n]
  BY TablesLoop
<1> DEFINE P == { k \in 0..n : Placed(X, N, ms, k, F[k]) }
<1>2. n \in Nat /\ DOMAIN ms = 1..n
  BY ListParts
<1> HIDE DEF n, acc
<1>3. 0 \in P
  <2>1. /\ NoTables(N).closed = <<>> /\ NoTables(N).symtab.from = 0 /\ ~NoTables(N).failed
        /\ NoTables(N) \in Acc(X, N)
    BY DEF NoTables, Opened, Acc, Open
  <2>2. Fits(<<>>, 0)
    BY DEF Fits
  <2>3. 1..0 = {} /\ 0 \in 0..n
    BY <1>2
  <2>4. Placed(X, N, ms, 0, NoTables(N))
    BY <2>1, <2>2, <2>3 DEF Placed, Going
  <2> QED
    BY <1>1, <2>3, <2>4
<1>4. ASSUME NEW k \in 1..n, k - 1 \in P PROVE k \in P
  <2>1. Placed(X, N, ms, k - 1, F[k - 1])
    BY <1>4
  <2>2. Placed(X, N, ms, k, NextMapping(F[k - 1], ms[k]))
    BY <2>1, PlacedStep DEF n
  <2>3. k \in 0..n
    BY <1>2
  <2> QED
    BY <1>1, <2>2, <2>3
<1> HIDE DEF P
<1>5. n \in P
  <2>1. \A k \in 0..n : k \in P
    BY <1>2, <1>3, <1>4, UpTo
  <2> QED
    BY <1>2, <2>1
<1>6. Placed(X, N, ms, n, acc)
  BY <1>1, <1>5 DEF P
<1> DEFINE c == acc.closed
           o == acc.symtab
           d == Closed(o, size)
           t == Append(c, d)
<1>7. c \in Seq(Table(X)) /\ o \in Open(X) /\ acc.failed \in BOOLEAN
  BY <1>6 DEF Placed, Acc
<1>8. /\ d \in Table(X) /\ d.from = o.from /\ d.end = size /\ d.file = o.file
      /\ d.lines = o.lines
  BY <1>7 DEF Closed, Table, Open
<1> HIDE DEF c, o, d
<1>9. Len(t) = Len(c) + 1 /\ t[Len(c) + 1] = d /\ \A i \in 1..Len(c) : t[i] = c[i]
  BY <1>7, <1>8
<1>10. Len(c) \in Nat /\ (c # <<>> => 1 \in 1..Len(c) /\ Len(c) \in 1..Len(c))
  BY <1>7
<1>11. CASE ~acc.failed
  <2>1. Fits(c, o.from) /\ \A j \in 1..n : InTable(c, ms[j]) \/ InOpen(o, ms[j])
    BY <1>6, <1>11 DEF Placed, Going, c, o
  <2>2. Fits(t, d.end + 1) /\ t[1].from = 0
    BY <1>7, <1>8, <2>1, FitsAppend
  <2>3. \A i \in 1..(Len(t) - 1) : t[i + 1].from = t[i].end + 1
    <3> HIDE DEF t
    <3> QED
      BY <2>2 DEF Fits
  <2>4. ASSUME NEW j \in 1..n PROVE InTable(t, ms[j])
    <3>1. ms[j].pc < d.end /\ (InOpen(o, ms[j]) => InOpen(d, ms[j]))
      BY <1>2, <1>8 DEF Below, InOpen
    <3> QED
      BY <1>7, <1>8, <2>1, <3>1, InAppend
  <2> HIDE DEF t
  <2> QED
    BY <1>2, <1>8, <1>9, <2>2, <2>3, <2>4 DEF TablesFit, t, c, d, o, acc
<1>12. CASE acc.failed
  <2>1. /\ c # <<>> /\ Fits(c, c[Len(c)].end + 1) /\ o.from = c[Len(c)].from
        /\ \E f \in 1..n : ms[f].file \notin N /\ \A j \in 1..(f - 1) : InTable(c, ms[j])
    BY <1>6, <1>12 DEF Placed, GivenUp, c, o
  <2>2. PICK f \in 1..n : ms[f].file \notin N /\ \A j \in 1..(f - 1) : InTable(c, ms[j])
    BY <2>1
  <2>3. t[1].from = 0
    BY <1>9, <1>10, <2>1 DEF Fits
  <2>4. \E l \in ToSet(ms) : l.file \notin N
    BY <1>2, <2>2 DEF ToSet
  <2>5. ASSUME NEW i \in 1..(Len(t) - 1)
        PROVE  \/ t[i + 1].from = t[i].end + 1
               \/ i = Len(t) - 1 /\ t[i + 1].from = t[i].from
    <3> HIDE DEF t
    <3>1. i \in 1..Len(c)
      BY <1>9, <1>10
    <3>2. CASE i = Len(c)
      BY <1>8, <1>9, <1>10, <2>1, <3>2
    <3>3. CASE i # Len(c)
      <4>1. i \in 1..(Len(c) - 1) /\ i + 1 \in 1..Len(c)
        BY <1>10, <3>1, <3>3
      <4>2. c[i + 1].from = c[i].end + 1
        BY <2>1, <4>1 DEF Fits
      <4> QED
        BY <1>9, <3>1, <4>1, <4>2
    <3> QED
      BY <3>2, <3>3
  <2>6. ASSUME NEW j \in 1..n, \A i \in 1..j : ms[i].file \in N PROVE InTable(t, ms[j])
    <3>1. f \notin 1..j
      BY <2>2, <2>6
    <3>2. j \in 1..(f - 1)
      BY <1>2, <3>1
    <3> QED
      BY <1>7, <1>8, <2>2, <3>2, InAppend
  <2> HIDE DEF t
  <2>7. TablesFit(t, ms, size, N)
    BY <1>2, <1>8, <1>9, <2>3, <2>4, <2>5, <2>6 DEF TablesFit
  <2> QED
    BY <2>7 DEF t, c, d, o, acc
<1> QED
  BY <1>7, <1>11, <1>12

(* The mappings of an entry.                                               *)
FilesOf(st) == {"uxn"} \cup { Sym(st, i).file : i \in 0..(Len(st) - 1) }

(* Calls, with the symbols as a parameter.                                 *)
CallsIn(st, info) ==
    IF st = <<>> THEN {}
    ELSE { k \in 0..(Num(info) - 1) : k = 0 \/ Opcode(info, k) \in CallOps }

InfoOK(st, info) ==
    /\ info.size \in Nat /\ info.addr \in Nat /\ Num(info) \in Nat
    /\ info.mappings \in Seq(Line(FilesOf(st)))
    /\ Increasing(info.mappings) /\ Below(info.mappings, info.size)
    /\ ToSet(info.mappings) = { LineAt(st, info.addr + k, k + 1) : k \in CallsIn(st, info) }

(* What gdb_end_block writes about a block is right.                       *)
LEMMA NewInfo ==
    ASSUME IInv, Profiles, NEW v \in VM, vm[v].at = "block"
    PROVE  InfoOK(symtab, Info(v))
<1> DEFINE w == vm[v]
           h == w.gdb
           m == Mappings(h)
           t == Lines(h)
           X == FilesOf(symtab)
<1>1. w \in Vm /\ VmOK(v) /\ Holds(v) /\ w.num \in Nat /\ w.entry \in Nat /\ h \in Chunks(Mapping)
  BY DEF IInv, Vms, Vm
<1>2. m \in Seq(Mapping)
  BY <1>1, UsedType DEF VmOK
<1>3. All(w) = Ops(w)
  BY DEF All, Ops
<1>4. /\ ToSet(m) = { x \in ToSet(Ops(w)) : Wanted(v, x.addr) }
      /\ \A i, j \in DOMAIN m : i < j => m[i].mark < m[j].mark
  BY <1>1, <1>3 DEF Holds
<1>5. Ordered(symtab) /\ (symtab # <<>> => HaveSymbols(symtab, Addresses(Ops(w))))
  BY TablesOrdered DEF Profiles, Profile, ProfileOf, Busy
<1>6. Info(v).addr = w.entry /\ Info(v).size = 2 * w.num + 1 /\ Info(v).mappings = t
  BY DEF Info
<1> HIDE DEF w, h
<1>7. ASSUME NEW i \in DOMAIN m
      PROVE  /\ m[i].mark \in 1..w.num /\ m[i].addr = w.entry + m[i].mark - 1
             /\ m[i].addr \in Nat /\ \E k : IsSymbol(symtab, m[i].addr, k)
  <2>1. m[i] \in ToSet(Ops(w)) /\ Wanted(v, m[i].addr)
    BY <1>4 DEF ToSet
  <2>2. PICK k \in 1..w.num : m[i] = [addr |-> w.entry + k - 1, mark |-> k]
    BY <2>1 DEF ToSet, Ops
  <2>3. m[i].mark = k /\ m[i].addr = w.entry + k - 1 /\ w.entry + k - 1 \in Nat
    BY <1>1, <2>2
  <2>4. HaveSymbols(symtab, Addresses(Ops(w)))
    BY <1>5, <2>1 DEF Wanted
  <2>5. \E j : IsSymbol(symtab, w.entry + k - 1, j)
    <3>1. k \in DOMAIN Addresses(Ops(w)) /\ Addresses(Ops(w))[k] = w.entry + k - 1
      BY DEF Addresses, Ops
    <3> QED
      BY <2>4, <3>1 DEF HaveSymbols
  <2> QED
    BY <2>3, <2>5
<1>8. HaveSymbols(symtab, Addresses(m))
  BY <1>7 DEF HaveSymbols, Addresses
<1>9. t = LinesIn(symtab, m)
  BY <1>2, <1>5, <1>8, LinesAre
<1>10. Len(m) \in Nat /\ DOMAIN m = 1..Len(m)
  BY <1>2, ListParts
<1> HIDE DEF m, t
<1>11. ASSUME NEW i \in DOMAIN m
       PROVE  /\ LineAt(symtab, m[i].addr, m[i].mark) \in Line(X)
              /\ LineAt(symtab, m[i].addr, m[i].mark).pc = 2 * m[i].mark - 1
  <2>1. PICK k : IsSymbol(symtab, m[i].addr, k)
    BY <1>7
  <2>2. SymbolIn(symtab, m[i].addr) = k
    BY <1>5, <1>7, <2>1, SymbolInIs
  <2>3. k \in Nat /\ Sym(symtab, k).file \in X
    BY <2>1 DEF IsSymbol, FilesOf
  <2>4. 2 * m[i].mark - 1 \in Nat
    BY <1>1, <1>7
  <2> QED
    BY <2>2, <2>3, <2>4 DEF LineAt, Line, resolve_addr
<1>12. /\ DOMAIN t = 1..Len(m) /\ \A i \in DOMAIN m : t[i] = LineAt(symtab, m[i].addr, m[i].mark)
       /\ t \in Seq(Line(X))
  <2>1. t = [i \in 1..Len(m) |-> LineAt(symtab, m[i].addr, m[i].mark)]
    BY <1>9, <1>10 DEF LinesIn
  <2>2. t \in [1..Len(m) -> Line(X)]
    BY <1>10, <1>11, <2>1
  <2>3. t \in Seq(Line(X))
    BY <1>10, <2>2, FunctionIsList
  <2> QED
    BY <1>10, <2>1, <2>3
<1>13. \A i \in DOMAIN t : t[i].pc = 2 * m[i].mark - 1
  BY <1>10, <1>11, <1>12
<1>14. Increasing(t) /\ Below(t, 2 * w.num + 1)
  <2>1. \A i \in DOMAIN m : m[i].mark \in Nat /\ 2 * m[i].mark - 1 < 2 * w.num + 1
    BY <1>1, <1>7
  <2>2. \A i, j \in DOMAIN m : i < j => (2 * m[i].mark - 1) + 1 < 2 * m[j].mark - 1
    BY <1>4, <2>1
  <2> QED
    BY <1>10, <1>12, <1>13, <2>1, <2>2 DEF Below, Increasing
<1>15. ASSUME symtab # <<>>, NEW k \in 0..(w.num - 1), k = 0 \/ w.entry + k \in CallOps
       PROVE  LineAt(symtab, w.entry + k, k + 1) \in ToSet(t)
  <2> DEFINE x == [addr |-> w.entry + k, mark |-> k + 1]
  <2>1. x \in ToSet(Ops(w))
    <3>1. k + 1 \in 1..w.num /\ w.entry + (k + 1) - 1 = w.entry + k
      BY <1>1
    <3>2. DOMAIN Ops(w) = 1..w.num /\ Ops(w)[k + 1] = x
      BY <3>1 DEF Ops
    <3> QED
      BY <3>1, <3>2 DEF ToSet
  <2>2. Wanted(v, x.addr)
    BY <1>1, <1>15 DEF Wanted, w
  <2> HIDE DEF x
  <2>3. PICK i \in DOMAIN m : m[i] = x
    BY <1>4, <2>1, <2>2 DEF ToSet
  <2>4. t[i] = LineAt(symtab, w.entry + k, k + 1)
    BY <1>12, <2>3 DEF x
  <2> QED
    BY <1>10, <1>12, <2>4 DEF ToSet
<1>16. Num(Info(v)) = w.num /\ 2 * w.num + 1 \in Nat
  <2>1. ((2 * w.num + 1) - 1) \div 2 = w.num
    BY <1>1
  <2> QED
    BY <1>1, <1>6, <2>1 DEF Num
<1>17. ASSUME NEW i \in DOMAIN m
       PROVE  /\ symtab # <<>> /\ m[i].mark - 1 \in 0..(w.num - 1)
              /\ m[i].mark - 1 = 0 \/ w.entry + (m[i].mark - 1) \in CallOps
              /\ t[i] = LineAt(symtab, w.entry + (m[i].mark - 1), (m[i].mark - 1) + 1)
  <2>1. m[i].mark \in 1..w.num /\ m[i].addr = w.entry + m[i].mark - 1
    BY <1>7
  <2>2. /\ m[i].mark - 1 \in 0..(w.num - 1) /\ (m[i].mark - 1) + 1 = m[i].mark
        /\ w.entry + (m[i].mark - 1) = m[i].addr
        /\ m[i].addr = w.entry => m[i].mark - 1 = 0
    BY <1>1, <2>1
  <2>3. Wanted(v, m[i].addr)
    BY <1>4 DEF ToSet
  <2>4. symtab # <<>> /\ (m[i].addr = w.entry \/ m[i].addr \in CallOps)
    BY <2>3 DEF Wanted, w
  <2> QED
    BY <1>12, <2>2, <2>4
<1> DEFINE C == CallsIn(symtab, Info(v))
<1>18. \A k : k \in C <=> /\ symtab # <<>> /\ k \in 0..(w.num - 1)
                          /\ k = 0 \/ w.entry + k \in CallOps
  BY <1>6, <1>16 DEF CallsIn, Opcode
<1> HIDE DEF C
<1>19. ToSet(t) = { LineAt(symtab, w.entry + k, k + 1) : k \in C }
  <2>1. ASSUME NEW i \in DOMAIN t
        PROVE  \E k \in C : t[i] = LineAt(symtab, w.entry + k, k + 1)
    BY <1>10, <1>12, <1>17, <1>18
  <2>2. ASSUME NEW k \in C PROVE LineAt(symtab, w.entry + k, k + 1) \in ToSet(t)
    BY <1>15, <1>18
  <2>3. \A x \in ToSet(t) : \E i \in DOMAIN t : x = t[i]
    BY DEF ToSet
  <2> QED
    BY <2>1, <2>2, <2>3
<1> QED
  BY <1>1, <1>6, <1>12, <1>14, <1>16, <1>19 DEF InfoOK, C

Mapped == \A e \in DOMAIN entries : InfoOK(symtab, entries[e].info)

(* Every step keeps what is said about blocks right.                       *)
LEMMA MappedStep == IInv /\ Profiles /\ Mapped /\ [Next]_vars => Mapped'
<1> SUFFICES ASSUME IInv, Profiles, Mapped, [Next]_vars PROVE Mapped'
  OBVIOUS
<1>1. symtab' = symtab
  BY InfoKept
<1>2. CASE /\ DOMAIN entries' = DOMAIN entries
           /\ \A e \in DOMAIN entries : entries'[e].info = entries[e].info
  BY <1>1, <1>2 DEF Mapped
<1>3. ASSUME NEW v \in VM, vm[v].at = "block",
             entries' = Append(entries, [info |-> Info(v), next |-> 0, prev |-> 0])
      PROVE  Mapped'
  <2> DEFINE r == [info |-> Info(v), next |-> 0, prev |-> 0]
  <2>1. InfoOK(symtab, r.info)
    BY <1>3, NewInfo
  <2> HIDE DEF r
  <2>2. /\ DOMAIN entries' = DOMAIN entries \cup {Len(entries) + 1}
        /\ entries'[Len(entries) + 1] = r
        /\ \A e \in DOMAIN entries : entries'[e] = entries[e]
    <3>1. entries \in Seq(ToSet(entries) \cup {r})
      BY EntryIds, FunctionIsList DEF IInv, Records
    <3> QED
      BY <1>3, <3>1, AppendFacts DEF r
  <2> QED
    BY <1>1, <2>1, <2>2 DEF Mapped
<1> QED
  BY <1>2, <1>3, InfoKept

(* The tables that the reader makes of a block that gdb knows cover its    *)
(* code without a gap, and overlap only after a file whose name cannot be  *)
(* read.  A backtrace finds the file and the line of every call before it, *)
(* whatever can be read of the target.                                     *)
THEOREM RightBacktrace == Spec => []Shown
<1>1. ASSUME TypeOK, Mapped PROVE Shown
  <2> SUFFICES ASSUME NEW e \in gdb, NEW ok \in BOOLEAN, NEW names \in SUBSET Files
               PROVE  RightTables(entries[e].info, ok, names)
    BY DEF Shown
  <2> DEFINE info == entries[e].info
             t == gdb_read(info, ok, names)
             ms == IF ok THEN info.mappings ELSE <<>>
             X == FilesOf(symtab)
             named(k) == \A j \in Calls(info) : j <= k => LineOf(info, j).file \in names
             l(k) == LineOf(info, k)
  <2>1. InfoOK(symtab, info)
    BY <1>1 DEF TypeOK, Mapped
  <2> HIDE DEF info
  <2>2. /\ info.size \in Nat /\ ms \in Seq(Line(X)) /\ Increasing(ms) /\ Below(ms, info.size)
        /\ "uxn" \in X
    <3>1. CASE ok
      BY <2>1, <3>1 DEF InfoOK, FilesOf
    <3>2. CASE ~ok
      <4>1. ms = <<>> /\ <<>> \in Seq(Line(X)) /\ Increasing(<<>>) /\ Below(<<>>, info.size)
        BY <3>2 DEF Increasing, Below
      <4> QED
        BY <2>1, <4>1 DEF InfoOK, FilesOf
    <3> QED
      BY <3>1, <3>2
  <2>3. t = Append(FoldLeft(NextMapping, NoTables(names), ms).closed,
                   Closed(FoldLeft(NextMapping, NoTables(names), ms).symtab, info.size))
    BY DEF gdb_read, NoTables
  <2>4. TablesFit(t, ms, info.size, names)
    <3> HIDE DEF ms, t, X
    <3> QED
      BY <2>2, <2>3, TablesRead
  <2>5. /\ Calls(info) = CallsIn(symtab, info)
        /\ \A k \in Calls(info) : k \in Nat
    BY <2>1 DEF Calls, CallsIn, InfoOK
  <2>6. \A k \in Calls(info) : l(k) = LineAt(symtab, info.addr + k, k + 1) /\ l(k).pc = 2 * k + 1
    BY <2>5, LineIs DEF LineOf
  <2>7. /\ \A x \in ToSet(ms) : \E k \in Calls(info) : x = l(k)
        /\ ok => \A k \in Calls(info) : l(k) \in ToSet(ms)
    <3>1. ToSet(info.mappings) = { l(k) : k \in Calls(info) }
      BY <2>1, <2>5, <2>6 DEF InfoOK
    <3>2. CASE ok
      BY <3>1, <3>2
    <3>3. CASE ~ok
      BY <3>3 DEF ToSet
    <3> QED
      BY <3>2, <3>3
  <2> HIDE DEF t, ms, l
  <2>8. ASSUME NEW x \in ToSet(ms), x.file \notin names
        PROVE  \E k \in Calls(info) : ~named(k)
    <3>1. PICK k \in Calls(info) : x = l(k)
      BY <2>7
    <3>2. k <= k /\ LineOf(info, k).file \notin names
      BY <2>5, <2>8, <3>1 DEF l
    <3> QED
      BY <3>2
  <2>9. ASSUME ok, NEW k \in Calls(info), named(k)
        PROVE  \E i \in DOMAIN t : /\ t[i].from <= l(k).pc /\ l(k).pc < t[i].end
                                   /\ t[i].file = l(k).file /\ l(k) \in ToSet(t[i].lines)
    <3>1. PICK n \in DOMAIN ms : ms[n] = l(k)
      BY <2>7, <2>9 DEF ToSet
    <3>2. DOMAIN ms = 1..Len(ms) /\ Len(ms) \in Nat
      BY <2>2, ListParts
    <3>3. ASSUME NEW i \in 1..n PROVE ms[i].file \in names
      <4>1. i \in DOMAIN ms /\ (i = n \/ i < n)
        BY <3>1, <3>2
      <4>2. PICK j \in Calls(info) : ms[i] = l(j)
        BY <2>7, <4>1 DEF ToSet
      <4>3. 2 * j + 1 <= 2 * k + 1
        <5>1. CASE i = n
          <6>1. l(j).pc = l(k).pc
            BY <3>1, <4>2, <5>1
          <6> QED
            BY <2>5, <2>6, <6>1
        <5>2. CASE i < n
          <6>1. ms[i].pc + 1 < ms[n].pc
            BY <2>2, <3>1, <4>1, <5>2 DEF Increasing
          <6> QED
            BY <2>5, <2>6, <3>1, <4>2, <6>1
        <5> QED
          BY <4>1, <5>1, <5>2
      <4>4. j <= k
        BY <2>5, <4>3
      <4> QED
        BY <2>9, <4>2, <4>4 DEF l
    <3>4. InTable(t, l(k))
      BY <2>4, <3>1, <3>3 DEF TablesFit
    <3> QED
      BY <3>4 DEF InTable
  <2>10. /\ t[1].from = 0 /\ t[Len(t)].end = info.size
         /\ \A i \in 1..(Len(t) - 1) :
               \/ t[i + 1].from = t[i].end + 1
               \/ /\ i = Len(t) - 1 /\ t[i + 1].from = t[i].from
                  /\ \E k \in Calls(info) : ~named(k)
    BY <2>4, <2>8 DEF TablesFit
  <2> HIDE DEF named
  <2> QED
    BY <2>9, <2>10 DEF RightTables, t, info, named, l
<1>2. Init => Mapped
  BY DEF Init, Mapped
<1> QED
  BY <1>1, <1>2, Invariance, TypeCorrect, InitProfiles, StepProfiles, MappedStep, PTL DEF Spec
=============================================================================
