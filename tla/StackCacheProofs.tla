-------------------------- MODULE StackCacheProofs --------------------------
(***************************************************************************)
(* What holds of the translator for every program, every width of a byte   *)
(* and every size of the caches: its types, that flushed cells lie below   *)
(* the others, and that six operand registers are enough.                  *)
(*                                                                         *)
(* The argument is about reference counts.  Within the translation of an   *)
(* opcode a register is referred to by cells of the caches, by operands of *)
(* the handler and by keep mode's shadow pointers.  Counted(c, H) says     *)
(* that the reference count of every register is the number of cells that  *)
(* name it plus what H says is held otherwise, and that no assertion has   *)
(* failed.  Each function of jit.c is then shown to do one of four things, *)
(* for every H: to leave H alone (Moved, Shifted), to hold one register    *)
(* more (Takes), to hold one less (Drops), or to touch no count (Alike).   *)
(* alloc_reg finds a register once every cell is spilled, if H holds at    *)
(* most five; the handlers (Good) hold at most that many when they call    *)
(* it.  Between two opcodes H is zero.                                     *)
(***************************************************************************)
EXTENDS StackCache, ListFacts, FiniteSetTheorems, FunctionTheorems

Bases == {"none", "ws", "rs", "memory", "device"}

Messages == {"Out of registers", "Releasing unused register",
             "Pushing operand with unused register"}

Operand == [reg : Regs, is_short : BOOLEAN, bool : BOOLEAN]

Value == 0..(Word - 1)

NativeFrame == [sem : [BOOLEAN -> Seq(BOOLEAN)], mem_base : Bases]

(* Contexts with an effect in I.                                           *)
Ctx(I) ==
    [op : AllOpcodes, in : Nat, io : I, reg : Regs, args : Seq(Operand),
     cache : [BOOLEAN -> Seq(Cell)], ref : [Regs -> Nat], mem : [BOOLEAN -> Seq(Byte)],
     val : [Regs -> Value], base : Bases, mem_base : Bases,
     sem : [BOOLEAN -> Seq(BOOLEAN)], shadow : [BOOLEAN -> Nat], esp : [BOOLEAN -> Nat],
     inline : {"no", "run", "skip"}, left : BOOLEAN, call : BOOLEAN,
     frames : Seq(NativeFrame), asserts : SUBSET Messages]

(* Flushed cells are below the others.                                     *)
Sorted(cells) ==
    \A i, j \in DOMAIN cells : i < j /\ cells[i].need_flush => cells[j].need_flush

(* The cells that name a register, and their number.                       *)
Named(cells, i) == { j \in DOMAIN cells : cells[j].reg = i }

Count(cells, i) == Cardinality(Named(cells, i))

-----------------------------------------------------------------------------
(* The mode flags of an opcode.                                            *)
LEMMA OpcodeFlags ==
    ASSUME NEW o \in AllOpcodes
    PROVE  o.ret \in BOOLEAN /\ o.keep \in BOOLEAN /\ o.two \in BOOLEAN
BY DEF AllOpcodes

(* A machine word, a short and a byte have values.                         *)
LEMMA WordIs == Word \in Nat \ {0} /\ Base * Base \in Nat \ {0} /\ Base \in Nat \ {0}
<1>1. Base \in Nat \ {0}
  BY BaseAssumption
<1>2. Base * Base \in Nat \ {0}
  BY <1>1
<1>3. Base * Base * Base \in Nat \ {0}
  BY <1>1, <1>2
<1> QED
  BY <1>1, <1>2, <1>3 DEF Word

(* Finitely many cells name a register.                                    *)
LEMMA NamedFinite ==
    ASSUME NEW s \in Seq(Cell), NEW i
    PROVE  IsFiniteSet(Named(s, i)) /\ Cardinality(Named(s, i)) \in Nat
<1>1. Named(s, i) \in SUBSET (1..Len(s)) /\ Len(s) \in Int
  BY DEF Named
<1>2. IsFiniteSet(1..Len(s))
  BY <1>1, FS_Interval
<1> QED
  BY <1>1, <1>2, FS_Subset, FS_CardinalityType

(* One more cell.                                                          *)
LEMMA CountAppend ==
    ASSUME NEW s \in Seq(Cell), NEW i, NEW cell \in Cell
    PROVE  Count(Append(s, cell), i) = Count(s, i) + (IF cell.reg = i THEN 1 ELSE 0)
<1> DEFINE n == Len(s)
           t == Append(s, cell)
<1>1. n \in Nat /\ DOMAIN s = 1..n
  OBVIOUS
<1>2. DOMAIN t = 1..(n + 1) /\ t[n + 1] = cell /\ \A j \in 1..n : t[j] = s[j]
  BY <1>1
<1>3. Named(t, i) = (IF cell.reg = i THEN Named(s, i) \cup {n + 1} ELSE Named(s, i))
  BY <1>1, <1>2 DEF Named
<1>4. n + 1 \notin Named(s, i)
  BY <1>1 DEF Named
<1>5. Cardinality(Named(s, i) \cup {n + 1}) = Cardinality(Named(s, i)) + 1
  BY <1>4, NamedFinite, FS_AddElement
<1> QED
  BY <1>3, <1>5, NamedFinite DEF Count

(* A list is what precedes its last element, and that element.             *)
LEMMA FrontIs ==
    ASSUME NEW T, NEW s \in Seq(T), s # <<>>
    PROVE  /\ Front(s) \in Seq(T) /\ Len(Front(s)) = Len(s) - 1 /\ Last(s) \in T
           /\ s = Append(Front(s), Last(s)) /\ Last(s) = s[Len(s)]
           /\ \A i \in DOMAIN Front(s) : i \in DOMAIN s /\ Front(s)[i] = s[i]
<1> DEFINE n == Len(s)
<1>1. n \in Nat /\ n # 0 /\ DOMAIN s = 1..n /\ \A j \in 1..n : s[j] \in T
  OBVIOUS
<1>2. /\ Front(s) \in Seq(T) /\ Len(Front(s)) = n - 1
      /\ \A j \in 1..(n - 1) : Front(s)[j] = s[j]
  BY <1>1 DEF Front
<1>3. Last(s) = s[n] /\ Last(s) \in T
  BY <1>1 DEF Last
<1>4. s = Append(Front(s), Last(s))
  <2> DEFINE f == Front(s)
             u == Append(f, Last(s))
  <2>1. f \in Seq(T) /\ Len(f) = n - 1 /\ \A j \in 1..(n - 1) : f[j] = s[j]
    BY <1>2
  <2> HIDE DEF f
  <2>0. Last(s) \in T /\ n - 1 \in Nat
    BY <1>1, <1>3
  <2>2. u \in Seq(T) /\ Len(u) = (n - 1) + 1 /\ u[(n - 1) + 1] = Last(s)
    BY <2>0, <2>1
  <2>3. \A j \in 1..(n - 1) : u[j] = s[j]
    BY <1>1, <1>3, <2>1
  <2> HIDE DEF u
  <2>4. Len(u) = n /\ DOMAIN u = 1..n /\ \A j \in 1..n : u[j] = s[j]
    BY <1>1, <1>3, <2>2, <2>3
  <2>5. s = u
    BY <1>1, <2>2, <2>4
  <2> QED
    BY <2>5 DEF u, f
<1>5. \A i \in DOMAIN Front(s) : i \in DOMAIN s /\ Front(s)[i] = s[i]
  BY <1>1, <1>2
<1> QED
  BY <1>2, <1>3, <1>4, <1>5

(* One cell less at the top.                                               *)
LEMMA CountFront ==
    ASSUME NEW s \in Seq(Cell), NEW i, s # <<>>
    PROVE  Count(s, i) = Count(Front(s), i) + (IF Last(s).reg = i THEN 1 ELSE 0)
<1>1. Front(s) \in Seq(Cell) /\ Last(s) \in Cell /\ s = Append(Front(s), Last(s))
  BY FrontIs
<1>2. Count(Append(Front(s), Last(s)), i) = Count(Front(s), i) + (IF Last(s).reg = i THEN 1 ELSE 0)
  BY <1>1, CountAppend
<1> QED
  BY <1>1, <1>2

(* One cell less at the bottom.                                            *)
LEMMA CountTail ==
    ASSUME NEW s \in Seq(Cell), NEW i, s # <<>>
    PROVE  Count(s, i) = Count(Tail(s), i) + (IF Head(s).reg = i THEN 1 ELSE 0)
<1> DEFINE n == Len(s)
           t == Tail(s)
           Q == Named(s, i) \ {1}
           f == [j \in Named(t, i) |-> j + 1]
<1>1. n \in Nat /\ n # 0 /\ DOMAIN s = 1..n
  OBVIOUS
<1>2. t \in Seq(Cell) /\ DOMAIN t = 1..(n - 1) /\ \A j \in 1..(n - 1) : t[j] = s[j + 1]
  BY <1>1
<1>3. f \in [Named(t, i) -> Q]
  BY <1>1, <1>2 DEF Named
<1>4. \A j, k \in Named(t, i) : f[j] = f[k] => j = k
  BY <1>1, <1>2 DEF Named
<1>5. \A k \in Q : \E j \in Named(t, i) : f[j] = k
  <2> SUFFICES ASSUME NEW k \in Q PROVE k - 1 \in Named(t, i) /\ f[k - 1] = k
    OBVIOUS
  <2>1. k \in 2..n /\ s[k].reg = i
    BY <1>1 DEF Named
  <2>2. k - 1 \in 1..(n - 1) /\ t[k - 1] = s[k]
    BY <1>1, <1>2, <2>1
  <2> QED
    BY <1>2, <2>1, <2>2 DEF Named
<1>6. 1 \in Named(s, i) <=> Head(s).reg = i
  BY <1>1 DEF Named
<1> HIDE DEF f, t
<1>7. f \in Bijection(Named(t, i), Q)
  BY <1>3, <1>4, <1>5, Fun_IsBij
<1>8. Cardinality(Q) = Cardinality(Named(t, i))
  BY <1>2, <1>7, NamedFinite, FS_Bijection DEF ExistsBijection
<1>9. Cardinality(Q) = IF 1 \in Named(s, i) THEN Cardinality(Named(s, i)) - 1
                       ELSE Cardinality(Named(s, i))
  BY NamedFinite, FS_RemoveElement
<1> QED
  BY <1>6, <1>8, <1>9, NamedFinite DEF Count, t

-----------------------------------------------------------------------------
(* The part of a context that moving cells to memory leaves alone.         *)
Kept(c, d) ==
    /\ d.op = c.op /\ d.in = c.in /\ d.io = c.io /\ d.args = c.args /\ d.val = c.val
    /\ d.sem = c.sem /\ d.shadow = c.shadow /\ d.esp = c.esp
    /\ d.inline = c.inline /\ d.left = c.left /\ d.call = c.call /\ d.frames = c.frames

(* The part that writing to memory leaves alone.                           *)
Same(c, d) ==
    /\ Kept(c, d)
    /\ d.cache = c.cache /\ d.ref = c.ref /\ d.asserts = c.asserts /\ d.reg = c.reg

(* Types of the parts of a context.                                        *)
LEMMA CtxParts ==
    ASSUME NEW I, NEW c \in Ctx(I)
    PROVE  /\ c.op \in AllOpcodes /\ c.in \in Nat /\ c.io \in I /\ c.reg \in Regs
           /\ c.args \in Seq(Operand) /\ c.cache \in [BOOLEAN -> Seq(Cell)]
           /\ c.ref \in [Regs -> Nat] /\ c.mem \in [BOOLEAN -> Seq(Byte)]
           /\ c.val \in [Regs -> Value] /\ c.base \in Bases /\ c.mem_base \in Bases
           /\ c.sem \in [BOOLEAN -> Seq(BOOLEAN)] /\ c.shadow \in [BOOLEAN -> Nat]
           /\ c.esp \in [BOOLEAN -> Nat] /\ c.inline \in {"no", "run", "skip"}
           /\ c.left \in BOOLEAN /\ c.call \in BOOLEAN /\ c.frames \in Seq(NativeFrame)
           /\ c.asserts \in SUBSET Messages
BY DEF Ctx

(* Types of the two caches.                                                *)
LEMMA CacheParts ==
    ASSUME NEW I, NEW c \in Ctx(I), NEW r \in BOOLEAN
    PROVE  c.cache[r] \in Seq(Cell) /\ c.cache[~r] \in Seq(Cell)
<1>1. c.cache \in [BOOLEAN -> Seq(Cell)]
  BY CtxParts
<1> QED
  BY <1>1

(* set_mem_base changes nothing but R_MEM_BASE.                            *)
LEMMA SetBaseFacts ==
    ASSUME NEW I, NEW c \in Ctx(I), NEW to \in Bases
    PROVE  set_mem_base(c, to) \in Ctx(I) /\ Same(c, set_mem_base(c, to))
<1>1. set_mem_base(c, to) \in Ctx(I)
  BY DEF Ctx, set_mem_base
<1>2. Same(c, set_mem_base(c, to))
  BY DEF Ctx, set_mem_base, Same, Kept
<1> QED
  BY <1>1, <1>2

(* Another content of the memory.                                          *)
LEMMA MemSet ==
    ASSUME NEW I, NEW c \in Ctx(I), NEW m \in [BOOLEAN -> Seq(Byte)]
    PROVE  [c EXCEPT !.mem = m] \in Ctx(I) /\ Same(c, [c EXCEPT !.mem = m])
<1>1. [c EXCEPT !.mem = m] \in Ctx(I)
  BY DEF Ctx
<1>2. Same(c, [c EXCEPT !.mem = m])
  BY DEF Ctx, Same, Kept
<1> QED
  BY <1>1, <1>2

(* Other reference counts.                                                 *)
LEMMA RefSet ==
    ASSUME NEW I, NEW c \in Ctx(I), NEW f \in [Regs -> Nat], NEW d, d = [c EXCEPT !.ref = f]
    PROVE  /\ d \in Ctx(I) /\ Kept(c, d) /\ d.ref = f
           /\ d.cache = c.cache /\ d.asserts = c.asserts /\ d.reg = c.reg
<1>1. d \in Ctx(I)
  BY DEF Ctx
<1>2. Kept(c, d) /\ d.ref = f /\ d.cache = c.cache /\ d.asserts = c.asserts /\ d.reg = c.reg
  BY DEF Ctx, Kept
<1> QED
  BY <1>1, <1>2

(* Other cells.                                                            *)
LEMMA CacheSet ==
    ASSUME NEW I, NEW c \in Ctx(I), NEW f \in [BOOLEAN -> Seq(Cell)], NEW d,
           d = [c EXCEPT !.cache = f]
    PROVE  /\ d \in Ctx(I) /\ Kept(c, d) /\ d.cache = f
           /\ d.ref = c.ref /\ d.asserts = c.asserts /\ d.reg = c.reg
<1>1. d \in Ctx(I)
  BY DEF Ctx
<1>2. Kept(c, d) /\ d.cache = f /\ d.ref = c.ref /\ d.asserts = c.asserts /\ d.reg = c.reg
  BY DEF Ctx, Kept
<1> QED
  BY <1>1, <1>2

(* The bytes of a value.                                                   *)
LEMMA BytesType ==
    ASSUME NEW v \in Int, NEW two \in BOOLEAN
    PROVE  Bytes(v, two) \in Seq(Byte)
<1>1. v % Base \in Byte /\ v \div Base \in Int
  BY WordIs DEF Byte
<1>2. (v \div Base) % Base \in Byte
  BY <1>1, WordIs DEF Byte
<1> QED
  BY <1>1, <1>2 DEF Bytes

(* Bytes go to memory, wherever R_MEM_BASE points.                         *)
LEMMA PushBytesFacts ==
    ASSUME NEW I, NEW c \in Ctx(I), NEW b \in Seq(Byte), NEW r \in BOOLEAN
    PROVE  PushBytes(c, b, r) \in Ctx(I) /\ Same(c, PushBytes(c, b, r))
<1> DEFINE z == [i \in DOMAIN b |-> 0]
           Over(i) == c.base = StackOf(~r) /\ i - Len(c.mem[r]) \in DOMAIN b
           w == [i \in DOMAIN c.mem[~r] |-> IF Over(i) THEN b[i - Len(c.mem[r])] ELSE c.mem[~r][i]]
           m1 == [c.mem EXCEPT ![r] = @ \o b]
           m3 == [c.mem EXCEPT ![r] = @ \o z]
           m2 == [m3 EXCEPT ![~r] = w]
<1>1. c.mem \in [BOOLEAN -> Seq(Byte)] /\ (~r) \in BOOLEAN /\ 0 \in Byte
  BY CtxParts, WordIs DEF Byte
<1>2. m1 \in [BOOLEAN -> Seq(Byte)]
  BY <1>1
<1>3. z \in Seq(Byte)
  BY <1>1
<1>4. w \in Seq(Byte)
  <2>1. c.mem[~r] \in Seq(Byte)
    BY <1>1
  <2>2. \A i \in DOMAIN c.mem[~r] : w[i] \in Byte
    <3>1. \A k \in DOMAIN b : b[k] \in Byte
      OBVIOUS
    <3>2. \A k \in DOMAIN c.mem[~r] : c.mem[~r][k] \in Byte
      BY <2>1
    <3> QED
      BY <3>1, <3>2
  <2>3. DOMAIN c.mem[~r] = 1..Len(c.mem[~r]) /\ Len(c.mem[~r]) \in Nat
    BY <2>1
  <2> HIDE DEF w
  <2>4. w \in [1..Len(c.mem[~r]) -> Byte]
    BY <2>2, <2>3 DEF w
  <2> QED
    BY <2>3, <2>4, FunctionIsList
<1> HIDE DEF w, z
<1>5. m2 \in [BOOLEAN -> Seq(Byte)]
  <2>1. m3 \in [BOOLEAN -> Seq(Byte)]
    BY <1>1, <1>3
  <2> HIDE DEF m3
  <2> QED
    BY <1>1, <1>4, <2>1
<1>6. PushBytes(c, b, r) = [c EXCEPT !.mem = m1] \/ PushBytes(c, b, r) = [c EXCEPT !.mem = m2]
  BY <1>1 DEF PushBytes, w, z, Ctx
<1> HIDE DEF m1, m2
<1>7. [c EXCEPT !.mem = m1] \in Ctx(I) /\ Same(c, [c EXCEPT !.mem = m1])
  BY <1>2, MemSet
<1>8. [c EXCEPT !.mem = m2] \in Ctx(I) /\ Same(c, [c EXCEPT !.mem = m2])
  BY <1>5, MemSet
<1> QED
  BY <1>6, <1>7, <1>8

(* A value is written to the stack in memory.                              *)
LEMMA DoPushFacts ==
    ASSUME NEW I, NEW c \in Ctx(I), NEW cell \in Cell, NEW r \in BOOLEAN
    PROVE  do_push(c, cell, r) \in Ctx(I) /\ Same(c, do_push(c, cell, r))
<1> DEFINE d == set_mem_base(c, StackOf(r))
           b == Bytes(c.val[cell.reg], cell.is_short)
<1>1. d \in Ctx(I) /\ Same(c, d)
  <2>1. StackOf(r) \in Bases
    BY DEF StackOf, Bases
  <2> QED
    BY <2>1, SetBaseFacts
<1>2. b \in Seq(Byte)
  <2>1. cell.reg \in Regs /\ cell.is_short \in BOOLEAN
    BY DEF Cell
  <2>2. c.val[cell.reg] \in Int
    BY <2>1, CtxParts, WordIs DEF Value
  <2> QED
    BY <2>1, <2>2, BytesType
<1>3. do_push(c, cell, r) = PushBytes(d, b, r)
  BY DEF do_push
<1> HIDE DEF d, b
<1>4. PushBytes(d, b, r) \in Ctx(I) /\ Same(d, PushBytes(d, b, r))
  BY <1>1, <1>2, PushBytesFacts
<1> QED
  BY <1>1, <1>3, <1>4 DEF Same, Kept

(* A failed assertion changes nothing else.                                *)
LEMMA AssertFails ==
    ASSUME NEW I, NEW c \in Ctx(I), NEW msg \in Messages, NEW d,
           d = [c EXCEPT !.asserts = @ \cup {msg}]
    PROVE  d \in Ctx(I) /\ Kept(c, d) /\ d.reg = c.reg /\ d.cache = c.cache /\ d.ref = c.ref
<1>1. d \in Ctx(I)
  BY DEF Ctx
<1>2. Kept(c, d) /\ d.reg = c.reg /\ d.cache = c.cache /\ d.ref = c.ref
  BY DEF Ctx, Kept
<1> QED
  BY <1>1, <1>2

(* One more reference to a register.                                       *)
LEMMA RetainFacts ==
    ASSUME NEW I, NEW c \in Ctx(I), NEW reg \in Regs, NEW d, d = retain_reg(c, reg)
    PROVE  /\ d \in Ctx(I) /\ Kept(c, d) /\ d.cache = c.cache /\ d.reg = c.reg
           /\ d.asserts = c.asserts /\ d.ref = [c.ref EXCEPT ![reg] = @ + 1]
<1> DEFINE f == [c.ref EXCEPT ![reg] = @ + 1]
<1>1. f \in [Regs -> Nat]
  BY CtxParts
<1>2. d = [c EXCEPT !.ref = f]
  BY DEF retain_reg
<1> HIDE DEF f
<1>3. d \in Ctx(I) /\ Kept(c, d) /\ d.ref = f /\ d.cache = c.cache /\ d.asserts = c.asserts /\ d.reg = c.reg
  BY <1>1, <1>2, RefSet
<1> QED
  BY <1>3 DEF f

(* Releasing a register, whether or not it is in use.                      *)
LEMMA ReleaseKeeps ==
    ASSUME NEW I, NEW c \in Ctx(I), NEW reg \in Regs
    PROVE  /\ release_reg(c, reg) \in Ctx(I) /\ Kept(c, release_reg(c, reg))
           /\ release_reg(c, reg).cache = c.cache /\ release_reg(c, reg).reg = c.reg
<1> DEFINE d == release_reg(c, reg)
<1>1. c.ref \in [Regs -> Nat]
  BY CtxParts
<1>2. CASE c.ref[reg] > 0
  <2> DEFINE f == [c.ref EXCEPT ![reg] = @ - 1]
  <2>1. f \in [Regs -> Nat]
    BY <1>1, <1>2
  <2>2. d = [c EXCEPT !.ref = f]
    BY <1>2 DEF release_reg
  <2> HIDE DEF f, d
  <2>3. d \in Ctx(I) /\ Kept(c, d) /\ d.ref = f /\ d.cache = c.cache /\ d.asserts = c.asserts /\ d.reg = c.reg
    BY <2>1, <2>2, RefSet
  <2> QED
    BY <2>3 DEF f, d
<1>3. CASE c.ref[reg] = 0
  <2> DEFINE msg == "Releasing unused register"
  <2>1. d = [c EXCEPT !.asserts = @ \cup {msg}]
    <3>1. ~(c.ref[reg] > 0)
      BY <1>3
    <3> QED
      BY <3>1, Zenon DEF release_reg, Assert_
  <2>2. msg \in Messages
    BY DEF Messages
  <2> HIDE DEF msg, d
  <2>3. d \in Ctx(I) /\ Kept(c, d) /\ d.reg = c.reg /\ d.cache = c.cache
    BY <2>1, <2>2, AssertFails
  <2> QED
    BY <1>3, <2>3 DEF d
<1> QED
  BY <1>1, <1>2, <1>3

(* One reference less, if there is one.                                    *)
LEMMA ReleaseFacts ==
    ASSUME NEW I, NEW c \in Ctx(I), NEW reg \in Regs, NEW d, d = release_reg(c, reg)
    PROVE  /\ d \in Ctx(I) /\ Kept(c, d) /\ d.cache = c.cache /\ d.reg = c.reg
           /\ c.ref[reg] # 0 =>
                d.asserts = c.asserts /\ d.ref = [c.ref EXCEPT ![reg] = @ - 1]
<1>1. c.ref \in [Regs -> Nat]
  BY CtxParts
<1>2. ASSUME c.ref[reg] # 0
      PROVE  d.asserts = c.asserts /\ d.ref = [c.ref EXCEPT ![reg] = @ - 1]
  <2> DEFINE f == [c.ref EXCEPT ![reg] = @ - 1]
  <2>1. f \in [Regs -> Nat] /\ c.ref[reg] > 0
    BY <1>1, <1>2
  <2>2. d = [c EXCEPT !.ref = f]
    BY <2>1 DEF release_reg
  <2> HIDE DEF f
  <2>3. d.ref = f /\ d.asserts = c.asserts
    BY <2>1, <2>2, RefSet
  <2> QED
    BY <2>3 DEF f
<1>3. d \in Ctx(I) /\ Kept(c, d) /\ d.cache = c.cache /\ d.reg = c.reg
  BY ReleaseKeeps
<1> QED
  BY <1>2, <1>3

-----------------------------------------------------------------------------
(* Registers are held by cells and, as often as H says, by the translator  *)
(* itself: the local operands of the handler and the shadow pointers.      *)
Holds == [Regs -> Nat]

Tally(c, H, r) ==
    \A i \in Regs : c.ref[i] = H[i] + Count(c.cache[r], i) + Count(c.cache[~r], i)

Counted(c, H) == c.asserts = {} /\ \A r \in BOOLEAN : Tally(c, H, r)

(* One reference more.                                                     *)
Plus(H, i) == [H EXCEPT ![i] = @ + 1]

(* At most n registers are held.                                           *)
Used(H) == { i \in Regs : H[i] # 0 }

Few(H, n) == Cardinality(Used(H)) <= n

(* The caches are within their bounds and in order.                        *)
Well(c) == \A r \in BOOLEAN : Len(c.cache[r]) <= CacheSize /\ Sorted(c.cache[r])

(* The number of cells that name a register.                               *)
LEMMA CountNat ==
    ASSUME NEW s \in Seq(Cell), NEW i
    PROVE  Count(s, i) \in Nat
BY NamedFinite DEF Count

(* It is enough to count the cells of one cache and then of the other.     *)
LEMMA CountedIf ==
    ASSUME NEW I, NEW c \in Ctx(I), NEW H \in Holds, NEW r \in BOOLEAN, c.asserts = {}, Tally(c, H, r)
    PROVE  Counted(c, H)
<1> SUFFICES ASSUME NEW q \in BOOLEAN, NEW i \in Regs
             PROVE  c.ref[i] = H[i] + Count(c.cache[q], i) + Count(c.cache[~q], i)
  BY DEF Counted, Tally
<1>1. c.cache[r] \in Seq(Cell) /\ c.cache[~r] \in Seq(Cell)
  BY CacheParts
<1>2. Count(c.cache[r], i) \in Nat /\ Count(c.cache[~r], i) \in Nat
  BY <1>1, CountNat
<1>3. H[i] \in Nat
  BY DEF Holds
<1>4. CASE q = r
  BY <1>4 DEF Tally
<1>5. CASE q = (~r)
  <2>1. (~q) = r
    BY <1>5
  <2>2. c.ref[i] = H[i] + Count(c.cache[~q], i) + Count(c.cache[q], i)
    BY <1>5, <2>1 DEF Tally
  <2> QED
    BY <1>2, <1>3, <1>5, <2>1, <2>2
<1> QED
  BY <1>4, <1>5

(* Moving cells to memory: the counts still add up.                        *)
Moved(c, d) ==
    /\ Kept(c, d) /\ d.reg = c.reg
    /\ Well(c) => Well(d)
    /\ \A H \in Holds : Counted(c, H) => Counted(d, H)

(* Moving cells twice is moving cells.                                     *)
LEMMA MovedTwice ==
    /\ \A c : Moved(c, c)
    /\ \A c, d, e : Moved(c, d) /\ Moved(d, e) => Moved(c, e)
BY DEF Moved, Kept

(* The two caches of a context.                                            *)
LEMMA WellAt ==
    ASSUME NEW c, Well(c), NEW r \in BOOLEAN
    PROVE  /\ Len(c.cache[r]) <= CacheSize /\ Sorted(c.cache[r])
           /\ Len(c.cache[~r]) <= CacheSize /\ Sorted(c.cache[~r])
<1>1. (~r) \in BOOLEAN
  OBVIOUS
<1> QED
  BY <1>1, Zenon DEF Well

(* The tail of a cache.                                                    *)
LEMMA TailFacts ==
    ASSUME NEW s \in Seq(Cell), s # <<>>
    PROVE  /\ Head(s) \in Cell /\ Tail(s) \in Seq(Cell) /\ Len(Tail(s)) = Len(s) - 1
           /\ Sorted(s) => Sorted(Tail(s))
<1> DEFINE n == Len(s)
           t == Tail(s)
<1>1. n \in Nat /\ n # 0 /\ DOMAIN s = 1..n /\ Head(s) \in Cell
  OBVIOUS
<1>2. t \in Seq(Cell) /\ Len(t) = n - 1 /\ DOMAIN t = 1..(n - 1) /\ \A j \in 1..(n - 1) : t[j] = s[j + 1]
  BY <1>1
<1> HIDE DEF t
<1>3. ASSUME Sorted(s) PROVE Sorted(t)
  <2> SUFFICES ASSUME NEW i \in DOMAIN t, NEW j \in DOMAIN t, i < j, t[i].need_flush
               PROVE  t[j].need_flush
    BY DEF Sorted
  <2>1. i + 1 \in DOMAIN s /\ j + 1 \in DOMAIN s /\ i + 1 < j + 1 /\ t[i] = s[i + 1] /\ t[j] = s[j + 1]
    BY <1>1, <1>2
  <2> QED
    BY <1>3, <2>1 DEF Sorted
<1> QED
  BY <1>1, <1>2, <1>3 DEF t

(* The oldest cell leaves a cache and gives its register back.             *)
LEMMA SpillFacts ==
    ASSUME NEW I, NEW c \in Ctx(I), NEW r \in BOOLEAN, NEW d, d = stack_cache_spill(c, r)
    PROVE  /\ d \in Ctx(I) /\ Moved(c, d)
           /\ d.cache[~r] = c.cache[~r]
           /\ Len(d.cache[r]) = IF c.cache[r] = <<>> THEN 0 ELSE Len(c.cache[r]) - 1
<1> DEFINE s == c.cache[r]
<1>1. s \in Seq(Cell) /\ c.cache[~r] \in Seq(Cell) /\ c.cache \in [BOOLEAN -> Seq(Cell)]
  BY CacheParts, CtxParts
<1>2. CASE s = <<>>
  <2>1. d = c
    BY <1>2 DEF stack_cache_spill
  <2> QED
    BY <1>2, <2>1, MovedTwice
<1>3. CASE s # <<>>
  <2> DEFINE cell == Head(s)
             e == IF cell.need_flush THEN do_push(c, cell, r) ELSE c
             f == release_reg(e, cell.reg)
             g == [f.cache EXCEPT ![r] = Tail(@)]
  <2>1. /\ cell \in Cell /\ Tail(s) \in Seq(Cell) /\ Len(Tail(s)) = Len(s) - 1
        /\ Sorted(s) => Sorted(Tail(s))
    BY <1>1, <1>3, TailFacts
  <2>2. cell.reg \in Regs
    BY <2>1 DEF Cell
  <2>3. d = [f EXCEPT !.cache = g]
    BY <1>3 DEF stack_cache_spill
  <2>4. e \in Ctx(I) /\ Same(c, e)
    <3>1. do_push(c, cell, r) \in Ctx(I) /\ Same(c, do_push(c, cell, r))
      BY <2>1, DoPushFacts
    <3>2. Same(c, c)
      BY DEF Same, Kept
    <3> QED
      BY <3>1, <3>2
  <2>a. f = release_reg(e, cell.reg)
    OBVIOUS
  <2> HIDE DEF e, f, g, cell
  <2>5. /\ f \in Ctx(I) /\ Kept(e, f) /\ f.cache = e.cache /\ f.reg = e.reg
        /\ e.ref[cell.reg] # 0 => f.asserts = e.asserts /\ f.ref = [e.ref EXCEPT ![cell.reg] = @ - 1]
    BY <2>2, <2>4, <2>a, ReleaseFacts
  <2>6. g \in [BOOLEAN -> Seq(Cell)] /\ g[r] = Tail(s) /\ g[~r] = c.cache[~r]
    <3>1. f.cache = c.cache
      BY <2>4, <2>5 DEF Same
    <3> QED
      BY <1>1, <2>1, <3>1 DEF g
  <2>7. d \in Ctx(I) /\ Kept(f, d) /\ d.cache = g /\ d.ref = f.ref /\ d.asserts = f.asserts /\ d.reg = f.reg
    BY <2>3, <2>5, <2>6, CacheSet
  <2>8. Kept(c, d) /\ d.reg = c.reg
    BY <2>4, <2>5, <2>7 DEF Same, Kept
  <2>9. ASSUME Well(c) PROVE Well(d)
    <3>1. /\ Len(s) \in Nat /\ Len(s) <= CacheSize /\ Sorted(s)
          /\ Len(c.cache[~r]) <= CacheSize /\ Sorted(c.cache[~r])
      BY <1>1, <2>9, WellAt
    <3>2. Len(Tail(s)) <= CacheSize /\ Sorted(Tail(s))
      BY <2>1, <3>1, SizeAssumption
    <3>3. \A q \in BOOLEAN : q = r \/ q = (~r)
      OBVIOUS
    <3> QED
      BY <2>6, <2>7, <3>1, <3>2, <3>3 DEF Well
  <2>10. ASSUME NEW H \in Holds, Counted(c, H) PROVE Counted(d, H)
    <3> DEFINE N(i) == IF cell.reg = i THEN 1 ELSE 0
    <3>1. \A i \in Regs : c.ref[i] = H[i] + Count(s, i) + Count(c.cache[~r], i)
      BY <2>10 DEF Counted, Tally
    <3>2. \A i \in Regs : Count(s, i) = Count(Tail(s), i) + N(i)
      BY <1>1, <1>3, CountTail DEF cell
    <3>3. \A i \in Regs : Count(Tail(s), i) \in Nat /\ Count(c.cache[~r], i) \in Nat
      BY <1>1, <2>1, CountNat
    <3>4. \A i \in Regs : H[i] \in Nat
      BY DEF Holds
    <3>5. c.ref[cell.reg] # 0
      BY <2>2, <3>1, <3>2, <3>3, <3>4
    <3>6. d.asserts = {} /\ d.ref = [c.ref EXCEPT ![cell.reg] = @ - 1]
      BY <2>4, <2>5, <2>7, <2>10, <3>5 DEF Same, Counted
    <3>7. c.ref \in [Regs -> Nat]
      BY CtxParts
    <3>8. ASSUME NEW i \in Regs PROVE d.ref[i] = H[i] + Count(Tail(s), i) + Count(c.cache[~r], i)
      <4>1. d.ref[i] = IF i = cell.reg THEN c.ref[i] - 1 ELSE c.ref[i]
        BY <3>6, <3>7
      <4>2. c.ref[i] = H[i] + (Count(Tail(s), i) + N(i)) + Count(c.cache[~r], i)
        BY <3>1, <3>2
      <4> HIDE DEF s
      <4> QED
        BY <3>3, <3>4, <4>1, <4>2
    <3>9. Tally(d, H, r)
      BY <2>6, <2>7, <3>8 DEF Tally
    <3> QED
      BY <2>7, <3>6, <3>9, CountedIf
  <2>11. Len(d.cache[r]) = Len(s) - 1 /\ d.cache[~r] = c.cache[~r]
    BY <2>1, <2>6, <2>7
  <2>12. Moved(c, d)
    BY <2>8, <2>9, <2>10 DEF Moved
  <2> QED
    BY <1>3, <2>7, <2>11, <2>12
<1> QED
  BY <1>2, <1>3

-----------------------------------------------------------------------------
(* One turn of the loop of alloc_reg.                                      *)
Turn(r, d) ==
    IF find_free_reg(d) # {} THEN d
    ELSE stack_cache_spill(d, IF d.cache[r] # <<>> THEN r ELSE ~r)

(* The cells of both caches.                                               *)
Cells(c, r) == Len(c.cache[r]) + Len(c.cache[~r])

(* The number of cached cells, as a sum of two numbers.                    *)
LEMMA CellsIs ==
    ASSUME NEW I, NEW c \in Ctx(I), NEW r \in BOOLEAN
    PROVE  \E x, y \in Nat :
              x = Len(c.cache[r]) /\ y = Len(c.cache[~r]) /\ Cells(c, r) = x + y
<1> DEFINE x == Len(c.cache[r])
           y == Len(c.cache[~r])
<1>1. c.cache[r] \in Seq(Cell) /\ c.cache[~r] \in Seq(Cell)
  BY CacheParts
<1>2. x \in Nat /\ y \in Nat
  BY <1>1
<1>3. Cells(c, r) = x + y
  BY Zenon DEF Cells
<1> QED
  BY <1>2, <1>3, Zenon

(* A turn frees a register, or makes a step towards it.                    *)
LEMMA TurnFacts ==
    ASSUME NEW I, NEW c \in Ctx(I), NEW r \in BOOLEAN
    PROVE  /\ Turn(r, c) \in Ctx(I) /\ Moved(c, Turn(r, c))
           /\ \/ find_free_reg(Turn(r, c)) # {}
              \/ Cells(Turn(r, c), r) < Cells(c, r)
              \/ Cells(Turn(r, c), r) = 0
<1> DEFINE d == Turn(r, c)
<1>1. /\ c.cache[r] \in Seq(Cell) /\ c.cache[~r] \in Seq(Cell)
  BY CacheParts
<1>2. Len(c.cache[r]) \in Nat /\ Len(c.cache[~r]) \in Nat
  BY <1>1
<1>3. CASE find_free_reg(c) # {}
  <2>1. d = c
    BY <1>3 DEF Turn
  <2> QED
    BY <1>3, <2>1, MovedTwice
<1>4. CASE find_free_reg(c) = {} /\ c.cache[r] # <<>>
  <2>1. d = stack_cache_spill(c, r)
    BY <1>4 DEF Turn
  <2> HIDE DEF d
  <2>2. /\ d \in Ctx(I) /\ Moved(c, d) /\ d.cache[~r] = c.cache[~r]
        /\ Len(d.cache[r]) = Len(c.cache[r]) - 1
    BY <1>4, <2>1, SpillFacts
  <2>a. Len(d.cache[~r]) = Len(c.cache[~r])
    BY <2>2
  <2>b. PICK x, y \in Nat : x = Len(c.cache[r]) /\ y = Len(c.cache[~r]) /\ Cells(c, r) = x + y
    BY CellsIs
  <2>c. PICK v, w \in Nat : v = Len(d.cache[r]) /\ w = Len(d.cache[~r]) /\ Cells(d, r) = v + w
    BY <2>2, CellsIs
  <2>d. v = x - 1 /\ w = y
    BY <2>2, <2>a, <2>b, <2>c
  <2>e. v + w < x + y
    BY <2>d
  <2>3. Cells(d, r) < Cells(c, r)
    BY <2>b, <2>c, <2>e, Zenon
  <2> QED
    BY <2>2, <2>3 DEF d
<1>5. CASE find_free_reg(c) = {} /\ c.cache[r] = <<>>
  <2> DEFINE q == ~r
  <2>0. q \in BOOLEAN /\ (~q) = r
    OBVIOUS
  <2>1. d = stack_cache_spill(c, q)
    BY <1>5 DEF Turn
  <2> HIDE DEF q, d
  <2>2. /\ d \in Ctx(I) /\ Moved(c, d)
        /\ d.cache[~q] = c.cache[~q]
        /\ Len(d.cache[q]) = IF c.cache[q] = <<>> THEN 0 ELSE Len(c.cache[q]) - 1
    BY <2>0, <2>1, SpillFacts
  <2>3. Len(d.cache[r]) = 0 /\ Len(c.cache[r]) = 0
    BY <1>5, <2>0, <2>2
  <2>4. Len(d.cache[~r]) = IF c.cache[~r] = <<>> THEN 0 ELSE Len(c.cache[~r]) - 1
    BY <2>2 DEF q
  <2>5. Cells(d, r) < Cells(c, r) \/ Cells(d, r) = 0
    BY <1>2, <2>3, <2>4 DEF Cells
  <2> QED
    BY <2>2, <2>5 DEF d
<1> QED
  BY <1>3, <1>4, <1>5

(* The loop of alloc_reg, turn by turn.                                    *)
AllocTurns(F, c, r, n) ==
    /\ F[0] = c
    /\ \A k \in 1..n : F[k] = Turn(r, F[k - 1])
    /\ alloc_reg(c) = TakeReg(F[n])

(* The loop of alloc_reg, turn by turn.                                    *)
LEMMA AllocLoop ==
    ASSUME NEW I, NEW c \in Ctx(I), NEW s \in Seq(Cell),
           s = c.cache[c.op.ret] \o c.cache[~c.op.ret]
    PROVE  \E F : AllocTurns(F, c, c.op.ret, Len(s))
<1> DEFINE r == c.op.ret
           n == Len(s)
           V == Ctx(I)
           g == [p \in V \X Cell |-> Turn(r, p[1])]
           Is(f) == f = [S \in SUBSET DOMAIN s |->
                           IF S = {} THEN c ELSE Turn(r, f[S \ {Max(S)}])]
           h == CHOOSE f : Is(f)
           F == [k \in 0..n |-> h[1..k]]
<1>1. n \in Nat /\ DOMAIN s = 1..n /\ \A i \in 1..n : s[i] \in Cell
  BY ListParts
<1>2. g \in [V \X Cell -> V]
  <2>1. ASSUME NEW p \in V \X Cell PROVE Turn(r, p[1]) \in V
    <3>1. r \in BOOLEAN /\ p[1] \in Ctx(I)
      BY CtxParts, OpcodeFlags
    <3> HIDE DEF r
    <3> QED
      BY <3>1, TurnFacts
  <2> QED
    BY <2>1
<1>3. PICK f \in [SUBSET (1..n) -> V] : Folds(f, g, c, s, n)
  BY <1>2, FoldsExists
<1>4. Is(f)
  <2>1. ASSUME NEW S \in SUBSET (1..n), S # {}
        PROVE  f[S] = Turn(r, f[S \ {Max(S)}])
    <3>1. Max(S) \in 1..n
      BY <1>1, <2>1, MaxIn
    <3>2. <<f[S \ {Max(S)}], s[Max(S)]>> \in V \X Cell
      BY <1>1, <1>3, <3>1
    <3>3. f[S] = g[<<f[S \ {Max(S)}], s[Max(S)]>>]
      BY <1>3, <2>1 DEF Folds
    <3> QED
      BY <3>2, <3>3
  <2>2. f[{}] = c
    BY <1>3 DEF Folds
  <2> QED
    BY <1>1, <1>3, <2>1, <2>2
<1>5. Is(h)
  BY <1>4
<1>6. alloc_reg(c) = TakeReg(h[DOMAIN s])
  BY DEF alloc_reg, FoldLeft, MapThenFoldSet, Turn
<1> HIDE DEF h, n
<1>7. F[0] = c
  <2>1. h[{}] = c /\ 1..0 = {} /\ 0 \in 0..n
    BY <1>1, <1>5
  <2> QED
    BY <2>1
<1>8. ASSUME NEW k \in 1..n PROVE F[k] = Turn(r, F[k - 1])
  <2>1. h[1..k] = Turn(r, h[(1..k) \ {k}])
    <3> DEFINE S == 1..k
    <3>1. S \in SUBSET DOMAIN s /\ S # {} /\ Max(S) = k
      BY <1>1, Prefix
    <3> HIDE DEF S
    <3>2. h[S] = Turn(r, h[S \ {Max(S)}])
      BY <1>5, <3>1
    <3> QED
      BY <3>1, <3>2 DEF S
  <2>2. (1..k) \ {k} = 1..(k - 1) /\ k \in 0..n /\ k - 1 \in 0..n
    BY <1>1, Prefix
  <2> QED
    BY <2>1, <2>2
<1>9. alloc_reg(c) = TakeReg(F[n])
  BY <1>1, <1>6
<1> QED
  BY <1>7, <1>8, <1>9, Zenon DEF n, AllocTurns

(* The registers held, one more of them.                                   *)
LEMMA PlusFacts ==
    ASSUME NEW H \in Holds, NEW i \in Regs
    PROVE  /\ Plus(H, i) \in Holds /\ Plus(H, i)[i] # 0
           /\ Used(Plus(H, i)) = Used(H) \cup {i}
           /\ \A n \in Nat : Few(H, n) => Few(Plus(H, i), n + 1)
<1>1. Plus(H, i) \in Holds
  BY DEF Plus, Holds
<1>2. \A k \in Regs : H[k] \in Nat /\ Plus(H, i)[k] = IF k = i THEN H[k] + 1 ELSE H[k]
  BY DEF Plus, Holds
<1>3. Used(Plus(H, i)) = Used(H) \cup {i}
  BY <1>2 DEF Used
<1>4. IsFiniteSet(Used(H))
  <2>1. IsFiniteSet(Regs) /\ Used(H) \subseteq Regs
    BY SizeAssumption, FS_Interval DEF Regs, Used
  <2> QED
    BY <2>1, FS_Subset
<1>5. /\ Cardinality(Used(H)) \in Nat
      /\ Cardinality(Used(H) \cup {i}) = Cardinality(Used(H)) + 1 \/ i \in Used(H)
  BY <1>4, FS_CardinalityType, FS_AddElement
<1>6. i \in Used(H) => Used(H) \cup {i} = Used(H)
  OBVIOUS
<1>7. ASSUME NEW n \in Nat, Few(H, n) PROVE Few(Plus(H, i), n + 1)
  <2>1. Cardinality(Used(H)) <= n
    BY <1>7 DEF Few
  <2>2. Cardinality(Used(H) \cup {i}) <= n + 1
    <3>1. CASE i \in Used(H)
      <4>1. Cardinality(Used(H) \cup {i}) = Cardinality(Used(H))
        BY <1>6, <3>1, Zenon
      <4> QED
        BY <1>5, <2>1, <4>1
    <3>2. CASE i \notin Used(H)
      BY <1>5, <2>1, <3>2
    <3> QED
      BY <3>1, <3>2
  <2> QED
    BY <1>3, <2>2 DEF Few
<1>8. Plus(H, i)[i] # 0
  BY <1>2
<1> QED
  BY <1>1, <1>3, <1>7, <1>8

(* Six operand registers, as in the code.                                  *)
Enough == NumRegs >= 6

(* When five registers are held and no cell is left, one is free.          *)
LEMMA OneFree ==
    ASSUME NEW I, NEW c \in Ctx(I), NEW H \in Holds, NEW r \in BOOLEAN, Counted(c, H),
           Enough, Few(H, 5), Cells(c, r) = 0
    PROVE  find_free_reg(c) # {}
<1> SUFFICES ASSUME find_free_reg(c) = {} PROVE FALSE
  OBVIOUS
<1>1. /\ c.cache[r] \in Seq(Cell) /\ c.cache[~r] \in Seq(Cell)
  BY CacheParts
<1>2. c.cache[r] = <<>> /\ c.cache[~r] = <<>>
  <2>1. PICK x, y \in Nat : x = Len(c.cache[r]) /\ y = Len(c.cache[~r]) /\ Cells(c, r) = x + y
    BY CellsIs
  <2>b. x + y = 0
    BY <2>1, Zenon
  <2>a. x = 0 /\ y = 0
    BY <2>b
  <2>2. Len(c.cache[r]) = 0 /\ Len(c.cache[~r]) = 0
    BY <2>1, <2>a
  <2> QED
    BY <1>1, <2>2
<1>3. \A i : Count(<<>>, i) = 0
  <2>1. \A i : Named(<<>>, i) = {}
    BY DEF Named
  <2> QED
    BY <2>1, FS_EmptySet DEF Count
<1>4. ASSUME NEW i \in Regs PROVE H[i] # 0
  <2>1. c.ref[i] = H[i] + Count(c.cache[r], i) + Count(c.cache[~r], i)
    BY DEF Counted, Tally
  <2>2. c.ref[i] = H[i] + 0 + 0
    BY <1>2, <1>3, <2>1
  <2>3. H[i] \in Nat
    BY DEF Holds
  <2> QED
    BY <2>2, <2>3 DEF find_free_reg
<1>5. Used(H) = 1..NumRegs
  BY <1>4 DEF Used, Regs
<1>6. Cardinality(1..NumRegs) = NumRegs
  BY SizeAssumption, FS_Interval
<1> QED
  BY <1>5, <1>6, SizeAssumption DEF Few, Enough

(* A register is taken from those that are free.                           *)
LEMMA TakeFacts ==
    ASSUME NEW I, NEW c \in Ctx(I), NEW d, d = TakeReg(c)
    PROVE  /\ d \in Ctx(I) /\ Kept(c, d) /\ d.cache = c.cache
           /\ find_free_reg(c) # {} =>
                d.asserts = c.asserts /\ d.ref = [c.ref EXCEPT ![d.reg] = @ + 1]
<1> DEFINE free == find_free_reg(c)
           m == Min(free)
           e == retain_reg(c, m)
<1>1. CASE free = {}
  <2> DEFINE msg == "Out of registers"
  <2>1. d = [c EXCEPT !.asserts = @ \cup {msg}]
    BY <1>1, Zenon DEF TakeReg, Assert_
  <2>2. msg \in Messages
    BY DEF Messages
  <2> HIDE DEF msg
  <2>3. d \in Ctx(I) /\ Kept(c, d) /\ d.reg = c.reg /\ d.cache = c.cache
    BY <2>1, <2>2, AssertFails
  <2> QED
    BY <1>1, <2>3
<1>2. CASE free # {}
  <2>1. m \in Regs
    <3>1. free \in SUBSET Nat /\ free \subseteq Regs
      BY SizeAssumption DEF find_free_reg, Regs
    <3> HIDE DEF free
    <3> QED
      BY <1>2, <3>1, MinIs
  <2>2. d = [e EXCEPT !.reg = m]
    BY <1>2, Zenon DEF TakeReg
  <2> HIDE DEF m
  <2>3. /\ e \in Ctx(I) /\ Kept(c, e) /\ e.cache = c.cache
        /\ e.asserts = c.asserts /\ e.ref = [c.ref EXCEPT ![m] = @ + 1]
    BY <2>1, RetainFacts
  <2> HIDE DEF e
  <2>4. d \in Ctx(I)
    BY <2>1, <2>2, <2>3 DEF Ctx
  <2>5. Kept(e, d) /\ d.cache = e.cache /\ d.asserts = e.asserts /\ d.ref = e.ref /\ d.reg = m
    BY <2>1, <2>2, <2>3 DEF Ctx, Kept
  <2>6. Kept(c, d)
    BY <2>3, <2>5 DEF Kept
  <2> QED
    BY <2>3, <2>4, <2>5, <2>6
<1> QED
  BY <1>1, <1>2

(* alloc_reg gives the translator one more register.                       *)
LEMMA AllocFacts ==
    ASSUME NEW I, NEW c \in Ctx(I), NEW d, d = alloc_reg(c)
    PROVE  /\ d \in Ctx(I) /\ Kept(c, d) /\ (Well(c) => Well(d))
           /\ \A H \in Holds : Enough /\ Few(H, 5) /\ Counted(c, H) => Counted(d, Plus(H, d.reg))
<1> DEFINE r == c.op.ret
           s == c.cache[r] \o c.cache[~r]
           n == Len(s)
<1>1. r \in BOOLEAN
  BY CtxParts, OpcodeFlags
<1>2. /\ c.cache[r] \in Seq(Cell) /\ c.cache[~r] \in Seq(Cell)
  BY <1>1, CacheParts
<1>0. r = c.op.ret /\ s = c.cache[r] \o c.cache[~r]
  OBVIOUS
<1> HIDE DEF r, s
<1>3. s \in Seq(Cell) /\ n \in Nat /\ n = Cells(c, r)
  <2>1. PICK x, y \in Nat : x = Len(c.cache[r]) /\ y = Len(c.cache[~r]) /\ Cells(c, r) = x + y
    BY <1>1, CellsIs
  <2>2. \A u, v \in Seq(Cell) : u \o v \in Seq(Cell) /\ Len(u \o v) = Len(u) + Len(v)
    OBVIOUS
  <2>3. s \in Seq(Cell) /\ Len(s) = Len(c.cache[r]) + Len(c.cache[~r])
    BY <1>0, <1>2, <2>2
  <2>4. n = x + y
    BY <2>1, <2>3, Zenon
  <2>5. n \in Nat
    BY <2>4
  <2> QED
    BY <2>1, <2>3, <2>4, <2>5, Zenon
<1>4. PICK F : /\ F[0] = c
               /\ \A k \in 1..n : F[k] = Turn(r, F[k - 1])
               /\ alloc_reg(c) = TakeReg(F[n])
  <2>1. PICK F : AllocTurns(F, c, c.op.ret, Len(s))
    BY <1>3, AllocLoop, Zenon DEF r, s
  <2> QED
    BY <2>1, Zenon DEF AllocTurns, r
<1> HIDE DEF n
<1> DEFINE Ok(k) == /\ F[k] \in Ctx(I) /\ Moved(c, F[k])
                    /\ find_free_reg(F[k]) # {} \/ Cells(F[k], r) <= n - k
           P == { k \in 0..n : Ok(k) }
<1>5. 0 \in P
  <2>1. Ok(0)
    BY <1>3, <1>4, MovedTwice
  <2> QED
    BY <1>3, <2>1
<1>6. ASSUME NEW k \in 1..n, k - 1 \in P PROVE k \in P
  <2> DEFINE a == F[k - 1]
             b == F[k]
  <2>1. /\ a \in Ctx(I) /\ Moved(c, a) /\ b = Turn(r, a)
        /\ find_free_reg(a) # {} \/ Cells(a, r) <= n - (k - 1)
    BY <1>4, <1>6
  <2>2. /\ b \in Ctx(I) /\ Moved(a, b)
        /\ find_free_reg(b) # {} \/ Cells(b, r) < Cells(a, r) \/ Cells(b, r) = 0
    BY <1>1, <2>1, TurnFacts
  <2>3. Cells(a, r) \in Nat /\ Cells(b, r) \in Nat
    <3>1. PICK x, y \in Nat : Cells(a, r) = x + y
      BY <1>1, <2>1, CellsIs
    <3>2. PICK x2, y2 \in Nat : Cells(b, r) = x2 + y2
      BY <1>1, <2>2, CellsIs
    <3> QED
      BY <3>1, <3>2
  <2>4. Moved(c, b)
    BY <2>1, <2>2, MovedTwice
  <2>5. CASE find_free_reg(a) # {}
    <3>1. b = a
      BY <2>1, <2>5 DEF Turn
    <3> HIDE DEF a, b
    <3>2. find_free_reg(b) # {}
      BY <2>5, <3>1
    <3> QED
      BY <2>2, <2>4, <3>2 DEF a, b
  <2>6. CASE find_free_reg(a) = {}
    <3> HIDE DEF a, b
    <3>1. find_free_reg(b) # {} \/ Cells(b, r) <= n - k
      BY <1>3, <2>1, <2>2, <2>3, <2>6
    <3> QED
      BY <2>2, <2>4, <3>1 DEF a, b
  <2> QED
    BY <2>5, <2>6
<1> HIDE DEF P
<1>7. n \in P
  <2>1. \A k \in 0..n : k \in P
    BY <1>3, <1>5, <1>6, UpTo
  <2> QED
    BY <1>3, <2>1
<1> DEFINE e == F[n]
<1>8. /\ e \in Ctx(I) /\ Moved(c, e) /\ d = TakeReg(e)
      /\ find_free_reg(e) # {} \/ Cells(e, r) <= n - n
  BY <1>4, <1>7 DEF P
<1> HIDE DEF e
<1>9. /\ d \in Ctx(I) /\ Kept(e, d) /\ d.cache = e.cache
      /\ find_free_reg(e) # {} =>
            d.asserts = e.asserts /\ d.ref = [e.ref EXCEPT ![d.reg] = @ + 1]
  BY <1>8, TakeFacts
<1>10. Kept(c, d) /\ (Well(c) => Well(d))
  BY <1>8, <1>9 DEF Moved, Kept, Well
<1>11. ASSUME NEW H \in Holds, Enough, Few(H, 5), Counted(c, H)
       PROVE  Counted(d, Plus(H, d.reg))
  <2>1. Counted(e, H)
    BY <1>8, <1>11 DEF Moved
  <2>2. find_free_reg(e) # {}
    <3>1. Cells(e, r) \in Nat
      <4>1. PICK x, y \in Nat : Cells(e, r) = x + y
        BY <1>1, <1>8, CellsIs
      <4> QED
        BY <4>1
    <3>2. find_free_reg(e) # {} \/ Cells(e, r) = 0
      BY <1>3, <1>8, <3>1
    <3> QED
      BY <1>1, <1>8, <1>11, <2>1, <3>2, OneFree
  <2>3. d.asserts = {} /\ d.ref = [e.ref EXCEPT ![d.reg] = @ + 1] /\ e.ref \in [Regs -> Nat] /\ d.reg \in Regs
    BY <1>8, <1>9, <2>1, <2>2, CtxParts DEF Counted
  <2>4. Tally(d, Plus(H, d.reg), r)
    <3> SUFFICES ASSUME NEW i \in Regs
                 PROVE  d.ref[i] = Plus(H, d.reg)[i] + Count(d.cache[r], i) + Count(d.cache[~r], i)
      BY DEF Tally
    <3>1. e.ref[i] = H[i] + Count(d.cache[r], i) + Count(d.cache[~r], i)
      BY <1>1, <1>9, <2>1 DEF Counted, Tally
    <3>2. Count(d.cache[r], i) \in Nat /\ Count(d.cache[~r], i) \in Nat
      <4>1. d.cache[r] \in Seq(Cell) /\ d.cache[~r] \in Seq(Cell)
        BY <1>1, <1>9, CacheParts
      <4> QED
        BY <4>1, CountNat
    <3>3. H[i] \in Nat /\ Plus(H, d.reg)[i] = IF i = d.reg THEN H[i] + 1 ELSE H[i]
      BY DEF Holds, Plus
    <3>4. d.ref[i] = IF i = d.reg THEN e.ref[i] + 1 ELSE e.ref[i]
      BY <2>3
    <3> QED
      BY <3>1, <3>2, <3>3, <3>4
  <2>5. Plus(H, d.reg) \in Holds
    BY <2>3, PlusFacts
  <2> QED
    BY <1>1, <1>9, <2>3, <2>4, <2>5, CountedIf
<1> QED
  BY <1>9, <1>10, <1>11

-----------------------------------------------------------------------------
(* A write to memory moves no cell.                                        *)
LEMMA SameMoved ==
    ASSUME NEW c, NEW d, Same(c, d)
    PROVE  Moved(c, d)
BY DEF Same, Moved, Well, Counted, Tally

(* The loop of stack_cache_clear writes out every cell.                    *)
LEMMA ClearFacts ==
    ASSUME NEW I, NEW c \in Ctx(I), NEW r \in BOOLEAN
    PROVE  /\ stack_cache_clear(c, r) \in Ctx(I)
           /\ Moved(c, stack_cache_clear(c, r))
<1> DEFINE s == c.cache[r]
           n == Len(s)
           V == Ctx(I)
           g == [p \in V \X Cell |-> stack_cache_spill(p[1], r)]
           Is(f) == f = [S \in SUBSET DOMAIN s |->
                           IF S = {} THEN c ELSE stack_cache_spill(f[S \ {Max(S)}], r)]
           h == CHOOSE f : Is(f)
           P == { k \in 0..n : h[1..k] \in V /\ Moved(c, h[1..k]) }
<1>1. s \in Seq(Cell)
  BY CacheParts
<1>2. n \in Nat /\ DOMAIN s = 1..n /\ \A i \in 1..n : s[i] \in Cell
  BY <1>1, ListParts
<1>3. g \in [V \X Cell -> V]
  <2>1. ASSUME NEW p \in V \X Cell PROVE stack_cache_spill(p[1], r) \in V
    <3>1. p[1] \in V /\ p[2] \in Cell
      OBVIOUS
    <3> QED
      BY <3>1, SpillFacts
  <2> QED
    BY <2>1
<1>4. PICK f \in [SUBSET (1..n) -> V] : Folds(f, g, c, s, n)
  BY <1>1, <1>3, FoldsExists
<1>5. Is(f)
  <2>1. ASSUME NEW S \in SUBSET (1..n), S # {}
        PROVE  f[S] = stack_cache_spill(f[S \ {Max(S)}], r)
    <3>1. Max(S) \in 1..n
      BY <1>2, <2>1, MaxIn
    <3>2. <<f[S \ {Max(S)}], s[Max(S)]>> \in V \X Cell
      BY <1>2, <1>4, <3>1
    <3>3. f[S] = g[<<f[S \ {Max(S)}], s[Max(S)]>>]
      BY <1>4, <2>1 DEF Folds
    <3> QED
      BY <3>2, <3>3
  <2>2. f[{}] = c
    BY <1>4 DEF Folds
  <2> QED
    BY <1>2, <1>4, <2>1, <2>2
<1>6. Is(h)
  BY <1>5
<1>7. stack_cache_clear(c, r) = h[DOMAIN s]
  BY DEF stack_cache_clear, FoldLeft, MapThenFoldSet
<1> HIDE DEF h, n, s
<1>8. 0 \in P
  <2>1. h[{}] = c /\ 1..0 = {} /\ 0 \in 0..n
    BY <1>2, <1>6
  <2> QED
    BY <2>1, MovedTwice
<1>9. ASSUME NEW k \in 1..n, k - 1 \in P PROVE k \in P
  <2> DEFINE a == h[1..(k - 1)]
             b == h[1..k]
  <2>1. b = stack_cache_spill(h[(1..k) \ {k}], r)
    <3> DEFINE S == 1..k
    <3>1. S \in SUBSET DOMAIN s /\ S # {} /\ Max(S) = k
      BY <1>2, Prefix
    <3> HIDE DEF S
    <3>2. h[S] = stack_cache_spill(h[S \ {Max(S)}], r)
      BY <1>6, <3>1
    <3> QED
      BY <3>1, <3>2 DEF S
  <2>2. (1..k) \ {k} = 1..(k - 1) /\ k \in 0..n
    BY <1>2, Prefix
  <2>3. b = stack_cache_spill(a, r) /\ s[k] \in Cell
    BY <1>2, <2>1, <2>2
  <2>4. a \in V /\ Moved(c, a)
    BY <1>9
  <2> HIDE DEF a, b
  <2>5. b \in V /\ Moved(a, b)
    BY <2>3, <2>4, SpillFacts
  <2>6. Moved(c, b)
    BY <2>4, <2>5, MovedTwice
  <2> QED
    BY <2>2, <2>5, <2>6 DEF b
<1> HIDE DEF P
<1>10. n \in P
  <2>1. \A k \in 0..n : k \in P
    BY <1>2, <1>8, <1>9, UpTo
  <2> QED
    BY <1>2, <2>1
<1> QED
  BY <1>2, <1>7, <1>10, Zenon DEF P

(* Both caches are cleared before the block is left.                       *)
LEMMA ClearCachesFacts ==
    ASSUME NEW I, NEW c \in Ctx(I)
    PROVE  clear_stack_caches(c) \in Ctx(I) /\ Moved(c, clear_stack_caches(c))
<1> DEFINE no == FALSE
           yes == TRUE
           d == stack_cache_clear(c, no)
           e == stack_cache_clear(d, yes)
<1>1. no \in BOOLEAN /\ yes \in BOOLEAN
  OBVIOUS
<1>2. clear_stack_caches(c) = e
  BY Zenon DEF clear_stack_caches
<1> HIDE DEF no, yes
<1>3. d \in Ctx(I) /\ Moved(c, d)
  BY <1>1, ClearFacts
<1> HIDE DEF d
<1>4. e \in Ctx(I) /\ Moved(d, e)
  BY <1>1, <1>3, ClearFacts
<1> HIDE DEF e
<1> QED
  BY <1>2, <1>3, <1>4, MovedTwice

(* One turn of the loop of stack_cache_flush.                              *)
Flushed(d, cell, r) == IF cell.need_flush THEN do_push(d, cell, r) ELSE d

(* One turn of the loop of stack_cache_flush.                              *)
LEMMA FlushedFacts ==
    ASSUME NEW I, NEW c \in Ctx(I), NEW cell \in Cell, NEW r \in BOOLEAN
    PROVE  Flushed(c, cell, r) \in Ctx(I) /\ Moved(c, Flushed(c, cell, r))
<1>1. do_push(c, cell, r) \in Ctx(I) /\ Moved(c, do_push(c, cell, r))
  BY DoPushFacts, SameMoved
<1> QED
  BY <1>1, MovedTwice DEF Flushed

FlushAll(c, r) ==
    FoldLeft(LAMBDA e, cell : IF cell.need_flush THEN do_push(e, cell, r) ELSE e,
             c, c.cache[r])

(* The loop of stack_cache_flush writes out every cell.                    *)
LEMMA FlushLoop ==
    ASSUME NEW I, NEW c \in Ctx(I), NEW r \in BOOLEAN
    PROVE  /\ FlushAll(c, r) \in Ctx(I)
           /\ Moved(c, FlushAll(c, r))
<1> DEFINE s == c.cache[r]
           n == Len(s)
           V == Ctx(I)
           g == [p \in V \X Cell |-> Flushed(p[1], p[2], r)]
           Is(f) == f = [S \in SUBSET DOMAIN s |->
                           IF S = {} THEN c ELSE Flushed(f[S \ {Max(S)}], s[Max(S)], r)]
           h == CHOOSE f : Is(f)
           P == { k \in 0..n : h[1..k] \in V /\ Moved(c, h[1..k]) }
<1>1. s \in Seq(Cell)
  BY CacheParts
<1>2. n \in Nat /\ DOMAIN s = 1..n /\ \A i \in 1..n : s[i] \in Cell
  BY <1>1, ListParts
<1>3. g \in [V \X Cell -> V]
  <2>1. ASSUME NEW p \in V \X Cell PROVE Flushed(p[1], p[2], r) \in V
    <3>1. p[1] \in V /\ p[2] \in Cell
      OBVIOUS
    <3> QED
      BY <3>1, FlushedFacts
  <2> QED
    BY <2>1
<1>4. PICK f \in [SUBSET (1..n) -> V] : Folds(f, g, c, s, n)
  BY <1>1, <1>3, FoldsExists
<1>5. Is(f)
  <2>1. ASSUME NEW S \in SUBSET (1..n), S # {}
        PROVE  f[S] = Flushed(f[S \ {Max(S)}], s[Max(S)], r)
    <3>1. Max(S) \in 1..n
      BY <1>2, <2>1, MaxIn
    <3>2. <<f[S \ {Max(S)}], s[Max(S)]>> \in V \X Cell
      BY <1>2, <1>4, <3>1
    <3>3. f[S] = g[<<f[S \ {Max(S)}], s[Max(S)]>>]
      BY <1>4, <2>1 DEF Folds
    <3> QED
      BY <3>2, <3>3
  <2>2. f[{}] = c
    BY <1>4 DEF Folds
  <2> QED
    BY <1>2, <1>4, <2>1, <2>2
<1>6. Is(h)
  BY <1>5
<1>7. FlushAll(c, r) = h[DOMAIN s]
  BY DEF FlushAll, FoldLeft, MapThenFoldSet, Flushed
<1> HIDE DEF h, n, s
<1>8. 0 \in P
  <2>1. h[{}] = c /\ 1..0 = {} /\ 0 \in 0..n
    BY <1>2, <1>6
  <2> QED
    BY <2>1, MovedTwice
<1>9. ASSUME NEW k \in 1..n, k - 1 \in P PROVE k \in P
  <2> DEFINE a == h[1..(k - 1)]
             b == h[1..k]
  <2>1. b = Flushed(h[(1..k) \ {k}], s[k], r)
    <3> DEFINE S == 1..k
    <3>1. S \in SUBSET DOMAIN s /\ S # {} /\ Max(S) = k
      BY <1>2, Prefix
    <3> HIDE DEF S
    <3>2. h[S] = Flushed(h[S \ {Max(S)}], s[Max(S)], r)
      BY <1>6, <3>1
    <3> QED
      BY <3>1, <3>2 DEF S
  <2>2. (1..k) \ {k} = 1..(k - 1) /\ k \in 0..n
    BY <1>2, Prefix
  <2>3. b = Flushed(a, s[k], r) /\ s[k] \in Cell
    BY <1>2, <2>1, <2>2
  <2>4. a \in V /\ Moved(c, a)
    BY <1>9
  <2> HIDE DEF a, b
  <2>5. b \in V /\ Moved(a, b)
    BY <2>3, <2>4, FlushedFacts
  <2>6. Moved(c, b)
    BY <2>4, <2>5, MovedTwice
  <2> QED
    BY <2>2, <2>5, <2>6 DEF b
<1> HIDE DEF P
<1>10. n \in P
  <2>1. \A k \in 0..n : k \in P
    BY <1>2, <1>8, <1>9, UpTo
  <2> QED
    BY <1>2, <2>1
<1> QED
  BY <1>2, <1>7, <1>10, Zenon DEF P

(* The same cells on the same registers.                                   *)
Recast(s, t) ==
    /\ t \in Seq(Cell) /\ Len(t) = Len(s)
    /\ Sorted(s) => Sorted(t)
    /\ \A i \in Regs : Count(t, i) = Count(s, i)

(* Cells that keep their registers are counted as before.                  *)
LEMMA RecastIf ==
    ASSUME NEW s \in Seq(Cell), NEW t \in Seq(Cell), Len(t) = Len(s),
           \A j \in DOMAIN s : t[j].reg = s[j].reg,
           Sorted(s) => Sorted(t)
    PROVE  Recast(s, t)
<1>1. \A i \in Regs : Named(t, i) = Named(s, i)
  BY DEF Named
<1> QED
  BY <1>1, Zenon DEF Recast, Count

(* Cells that are exchanged for others on the same registers.              *)
LEMMA RecastFacts ==
    ASSUME NEW I, NEW c \in Ctx(I), NEW r \in BOOLEAN, NEW t, Recast(c.cache[r], t), NEW d,
           d = [c EXCEPT !.cache[r] = t]
    PROVE  d \in Ctx(I) /\ Moved(c, d)
<1> DEFINE g == [c.cache EXCEPT ![r] = t]
<1>1. /\ c.cache[r] \in Seq(Cell) /\ c.cache[~r] \in Seq(Cell) /\ c.cache \in [BOOLEAN -> Seq(Cell)]
  BY CacheParts, CtxParts
<1>2. g \in [BOOLEAN -> Seq(Cell)] /\ g[r] = t /\ g[~r] = c.cache[~r]
  BY <1>1 DEF Recast
<1>3. d = [c EXCEPT !.cache = g]
  OBVIOUS
<1> HIDE DEF g
<1>4. d \in Ctx(I) /\ Kept(c, d) /\ d.cache = g /\ d.ref = c.ref /\ d.asserts = c.asserts /\ d.reg = c.reg
  <2> DEFINE e == [c EXCEPT !.cache = g]
  <2>1. e \in Ctx(I) /\ Kept(c, e) /\ e.cache = g /\ e.ref = c.ref /\ e.asserts = c.asserts /\ e.reg = c.reg
    BY <1>2, CacheSet
  <2>2. d = e
    BY <1>3
  <2> HIDE DEF e
  <2> QED
    BY <2>1, <2>2
<1>5. ASSUME Well(c) PROVE Well(d)
  <2>1. /\ Len(c.cache[r]) <= CacheSize /\ Sorted(c.cache[r])
        /\ Len(c.cache[~r]) <= CacheSize /\ Sorted(c.cache[~r])
    BY <1>5, WellAt
  <2>2. Len(t) <= CacheSize /\ Sorted(t)
    BY <2>1 DEF Recast
  <2>3. \A q \in BOOLEAN : q = r \/ q = (~r)
    OBVIOUS
  <2> QED
    BY <1>2, <1>4, <2>1, <2>2, <2>3 DEF Well
<1>6. ASSUME NEW H \in Holds, Counted(c, H) PROVE Counted(d, H)
  <2>1. Tally(c, H, r)
    BY <1>6 DEF Counted
  <2>2. Tally(d, H, r)
    BY <1>2, <1>4, <2>1 DEF Tally, Recast
  <2>3. d.asserts = {}
    BY <1>4, <1>6 DEF Counted
  <2> QED
    BY <1>4, <2>2, <2>3, CountedIf
<1> QED
  BY <1>4, <1>5, <1>6 DEF Moved

(* stack_cache_flush leaves the cells in the cache, as written.            *)
LEMMA FlushFacts ==
    ASSUME NEW I, NEW c \in Ctx(I), NEW r \in BOOLEAN
    PROVE  stack_cache_flush(c, r) \in Ctx(I) /\ Moved(c, stack_cache_flush(c, r))
<1> DEFINE d == FlushAll(c, r)
           s == d.cache[r]
           t == [i \in DOMAIN s |-> [s[i] EXCEPT !.need_flush = FALSE]]
           e == [d EXCEPT !.cache[r] = t]
<1>1. d \in Ctx(I) /\ Moved(c, d)
  BY FlushLoop
<1>2. stack_cache_flush(c, r) = e
  BY DEF stack_cache_flush, FlushAll
<1> HIDE DEF d
<1>3. s \in Seq(Cell)
  BY <1>1, CacheParts
<1> HIDE DEF s
<1>4. DOMAIN s = 1..Len(s) /\ Len(s) \in Nat /\ \A i \in 1..Len(s) : s[i] \in Cell
  BY <1>3, ListParts
<1>5. /\ t \in [1..Len(s) -> Cell] /\ DOMAIN t = 1..Len(s)
      /\ \A i \in 1..Len(s) : t[i].reg = s[i].reg /\ ~t[i].need_flush
  BY <1>4 DEF Cell
<1> HIDE DEF t
<1>6. t \in Seq(Cell) /\ Len(t) = Len(s)
  <2>1. t \in Seq(Cell)
    BY <1>4, <1>5, FunctionIsList
  <2> QED
    BY <1>4, <1>5, <2>1
<1>7. Sorted(t)
  BY <1>5 DEF Sorted
<1>8. Recast(s, t)
  BY <1>3, <1>4, <1>5, <1>6, <1>7, RecastIf
<1>9. e \in Ctx(I) /\ Moved(d, e)
  BY <1>1, <1>8, RecastFacts DEF s
<1> HIDE DEF e
<1> QED
  BY <1>1, <1>2, <1>9, MovedTwice

(* A cell is pushed; a full cache makes room first.                        *)
LEMMA PushFacts ==
    ASSUME NEW I, NEW c \in Ctx(I), NEW r \in BOOLEAN, NEW x \in Operand
    PROVE  stack_cache_push(c, x, r) \in Ctx(I) /\ (Well(c) => Moved(c, stack_cache_push(c, x, r)))
<1> DEFINE d == IF Len(c.cache[r]) >= CacheSize THEN stack_cache_spill(c, r) ELSE c
           cell == [reg |-> x.reg, is_short |-> x.is_short, need_flush |-> TRUE]
           s == d.cache[r]
           t == Append(s, cell)
           g == [d.cache EXCEPT ![r] = t]
           e == [d EXCEPT !.cache = g]
           f == retain_reg(e, x.reg)
<1>1. stack_cache_push(c, x, r) = f
  BY DEF stack_cache_push
<1>2. c.cache[r] \in Seq(Cell)
  BY CacheParts
<1>3. cell \in Cell /\ cell.need_flush /\ cell.reg = x.reg /\ x.reg \in Regs
  BY DEF Cell, Operand
<1>4. d \in Ctx(I) /\ Moved(c, d)
  BY SpillFacts, MovedTwice
<1>5. ASSUME Well(c) PROVE Len(s) < CacheSize
  <2>1. Len(c.cache[r]) \in Nat /\ Len(c.cache[r]) <= CacheSize
    BY <1>2, <1>5, WellAt
  <2>2. CASE Len(c.cache[r]) >= CacheSize
    <3>1. d = stack_cache_spill(c, r) /\ c.cache[r] # <<>>
      BY <1>2, <2>1, <2>2, SizeAssumption
    <3> HIDE DEF d
    <3>2. Len(s) = Len(c.cache[r]) - 1
      BY <3>1, SpillFacts
    <3> QED
      BY <2>1, <3>2, SizeAssumption
  <2>3. CASE ~(Len(c.cache[r]) >= CacheSize)
    <3>1. d = c
      BY <2>3
    <3> QED
      BY <2>1, <2>3, <3>1, SizeAssumption
  <2> QED
    BY <2>2, <2>3
<1> HIDE DEF d, cell
<1>6. s \in Seq(Cell) /\ d.cache[~r] \in Seq(Cell) /\ d.cache \in [BOOLEAN -> Seq(Cell)]
  BY <1>4, CacheParts, CtxParts
<1> HIDE DEF s
<1>7. /\ t \in Seq(Cell) /\ Len(t) = Len(s) + 1 /\ Len(s) \in Nat
      /\ DOMAIN s = 1..Len(s) /\ DOMAIN t = 1..(Len(s) + 1)
      /\ t[Len(s) + 1] = cell /\ \A j \in 1..Len(s) : t[j] = s[j]
  BY <1>3, <1>6
<1> HIDE DEF t
<1>8. Sorted(s) => Sorted(t)
  BY <1>3, <1>7 DEF Sorted
<1>9. g \in [BOOLEAN -> Seq(Cell)] /\ g[r] = t /\ g[~r] = d.cache[~r]
  BY <1>6, <1>7 DEF s
<1> HIDE DEF g
<1>10. e \in Ctx(I) /\ Kept(d, e) /\ e.cache = g /\ e.ref = d.ref /\ e.asserts = d.asserts /\ e.reg = d.reg
  BY <1>4, <1>9, CacheSet
<1> HIDE DEF e
<1>11. /\ f \in Ctx(I) /\ Kept(e, f) /\ f.cache = e.cache /\ f.reg = e.reg
       /\ f.asserts = e.asserts /\ f.ref = [e.ref EXCEPT ![x.reg] = @ + 1]
  BY <1>3, <1>10, RetainFacts
<1> HIDE DEF f
<1>12. f.cache[r] = t /\ f.cache[~r] = d.cache[~r]
  BY <1>9, <1>10, <1>11
<1>13. ASSUME Well(c) PROVE Well(f)
  <2>1. Well(d)
    BY <1>4, <1>13 DEF Moved
  <2>2. Sorted(s) /\ Len(d.cache[~r]) <= CacheSize /\ Sorted(d.cache[~r])
    BY <2>1, WellAt DEF s
  <2>3. Len(t) <= CacheSize
    BY <1>5, <1>7, <1>13, SizeAssumption
  <2>4. \A q \in BOOLEAN : q = r \/ q = (~r)
    OBVIOUS
  <2> QED
    BY <1>8, <1>12, <2>2, <2>3, <2>4 DEF Well
<1>14. ASSUME NEW H \in Holds, Counted(c, H) PROVE Counted(f, H)
  <2>1. Counted(d, H)
    BY <1>4, <1>14 DEF Moved
  <2>2. ASSUME NEW i \in Regs PROVE f.ref[i] = H[i] + Count(f.cache[r], i) + Count(f.cache[~r], i)
    <3>1. d.ref[i] = H[i] + Count(s, i) + Count(d.cache[~r], i)
      BY <2>1 DEF Counted, Tally, s
    <3>2. Count(t, i) = Count(s, i) + (IF x.reg = i THEN 1 ELSE 0)
      BY <1>3, <1>6, CountAppend DEF t
    <3>3. H[i] \in Nat /\ Count(s, i) \in Nat /\ Count(d.cache[~r], i) \in Nat
      BY <1>6, CountNat DEF Holds
    <3>4. d.ref \in [Regs -> Nat] /\ f.ref = [d.ref EXCEPT ![x.reg] = @ + 1]
      BY <1>4, <1>10, <1>11, CtxParts
    <3>5. f.ref[i] = IF x.reg = i THEN d.ref[i] + 1 ELSE d.ref[i]
      BY <3>4
    <3>6. f.ref[i] = H[i] + Count(t, i) + Count(d.cache[~r], i)
      BY <3>1, <3>2, <3>3, <3>5
    <3> QED
      BY <1>12, <3>6
  <2>3. Tally(f, H, r)
    BY <2>2 DEF Tally
  <2>4. f.asserts = {}
    BY <1>10, <1>11, <2>1 DEF Counted
  <2> QED
    BY <1>11, <2>3, <2>4, CountedIf
<1>15. Kept(c, f) /\ f.reg = c.reg
  BY <1>4, <1>10, <1>11 DEF Moved, Kept
<1> QED
  BY <1>1, <1>11, <1>13, <1>14, <1>15 DEF Moved

-----------------------------------------------------------------------------
(* Powers of two are positive: they count the subsets of a set.            *)
LEMMA PowerPositive ==
    ASSUME NEW n \in Nat
    PROVE  2 ^ n \in Nat \ {0}
<1> DEFINE S == 1..n
           T == SUBSET S
<1>1. IsFiniteSet(S) /\ Cardinality(S) = n
  BY FS_Interval
<1> HIDE DEF S
<1>2. IsFiniteSet(T) /\ Cardinality(T) = 2 ^ n
  BY <1>1, FS_SUBSET
<1>3. {} \in T
  OBVIOUS
<1> HIDE DEF T
<1>4. Cardinality(T) \in Nat /\ Cardinality(T) # 0
  BY <1>2, <1>3, FS_CardinalityType, FS_EmptySet
<1> QED
  BY <1>2, <1>4

(* A bit of a number.                                                      *)
LEMMA BitType ==
    ASSUME NEW v \in Int, NEW i \in Nat
    PROVE  Bit(v, i) \in 0..1
<1> DEFINE p == 2 ^ i
<1>1. p \in Nat \ {0}
  BY PowerPositive
<1>2. Bit(v, i) = (v \div p) % 2
  BY DEF Bit
<1> HIDE DEF p
<1>3. v \div p \in Int
  BY <1>1
<1> QED
  BY <1>2, <1>3

(* One turn of the loop that puts the bits together.                       *)
AddBit(f, a, b, n, i) == n + f[Bit(a, i - 1)][Bit(b, i - 1)] * 2 ^ (i - 1)

(* One more bit of a number.                                               *)
LEMMA AddBitType ==
    ASSUME NEW f \in [0..1 -> [0..1 -> Int]], NEW a \in Int, NEW b \in Int,
           NEW n \in Int, NEW i \in Nat \ {0}
    PROVE  AddBit(f, a, b, n, i) \in Int
<1> DEFINE x == Bit(a, i - 1)
           y == Bit(b, i - 1)
           p == 2 ^ (i - 1)
           z == f[x][y]
<1>1. i - 1 \in Nat
  OBVIOUS
<1>2. x \in 0..1 /\ y \in 0..1 /\ p \in Int
  BY <1>1, BitType, PowerPositive
<1>3. AddBit(f, a, b, n, i) = n + z * p
  BY DEF AddBit
<1> HIDE DEF x, y, p
<1>4. z \in Int
  BY <1>2
<1> HIDE DEF z
<1> QED
  BY <1>2, <1>3, <1>4

(* A bitwise operation yields a number.                                    *)
LEMMA BitwiseInt ==
    ASSUME NEW op \in [0..1 -> [0..1 -> Int]], NEW a \in Int, NEW b \in Int
    PROVE  Bitwise2(op, a, b) \in Int
<1> DEFINE s == [i \in 1..WordBits |-> i]
           n == Len(s)
           V == Int
           T == Nat \ {0}
           g == [p \in V \X T |-> AddBit(op, a, b, p[1], p[2])]
           Is(f) == f = [S \in SUBSET DOMAIN s |->
                           IF S = {} THEN 0 ELSE AddBit(op, a, b, f[S \ {Max(S)}], s[Max(S)])]
           h == CHOOSE f : Is(f)
           P == { k \in 0..n : h[1..k] \in V }
<1>1. s \in Seq(T)
  <2> DEFINE B == { i \in 0..(4 * Base) : 2 ^ i < Base * Base * Base * Base }
  <2>1. IsFiniteSet(0..(4 * Base))
    <3>1. \A m \in Int : IsFiniteSet(0..m)
      BY FS_Interval
    <3>2. 4 * Base \in Int
      BY BaseAssumption
    <3> QED
      BY <3>1, <3>2, Zenon
  <2>a. B \subseteq 0..(4 * Base)
    OBVIOUS
  <2> HIDE DEF B
  <2>2. Cardinality(B) \in Nat
    BY <2>1, <2>a, FS_Subset, FS_CardinalityType
  <2>3. WordBits \in Nat
    BY <2>2 DEF WordBits, B
  <2> QED
    BY <2>3
<1>2. n \in Nat /\ DOMAIN s = 1..n /\ \A i \in 1..n : s[i] \in T
  BY <1>1, ListParts
<1>3. g \in [V \X T -> V]
  <2>1. ASSUME NEW p \in V \X T PROVE AddBit(op, a, b, p[1], p[2]) \in V
    <3>1. p[1] \in V /\ p[2] \in T
      OBVIOUS
    <3> QED
      BY <3>1, AddBitType
  <2> QED
    BY <2>1
<1>7. Bitwise2(op, a, b) = h[DOMAIN s]
  BY DEF Bitwise2, FoldLeft, MapThenFoldSet, AddBit
<1> HIDE DEF s
<1>4. PICK f \in [SUBSET (1..n) -> V] : Folds(f, g, 0, s, n)
  <2>1. 0 \in V
    OBVIOUS
  <2> HIDE DEF V, T, g
  <2> QED
    BY <1>1, <1>3, <2>1, FoldsExists
<1>5. Is(f)
  <2>1. ASSUME NEW S \in SUBSET (1..n), S # {}
        PROVE  f[S] = AddBit(op, a, b, f[S \ {Max(S)}], s[Max(S)])
    <3>1. Max(S) \in 1..n
      BY <1>2, <2>1, MaxIn
    <3>2. <<f[S \ {Max(S)}], s[Max(S)]>> \in V \X T
      BY <1>2, <1>4, <3>1
    <3>3. f[S] = g[<<f[S \ {Max(S)}], s[Max(S)]>>]
      BY <1>4, <2>1 DEF Folds
    <3> QED
      BY <3>2, <3>3
  <2>2. f[{}] = 0
    BY <1>4 DEF Folds
  <2> QED
    BY <1>2, <1>4, <2>1, <2>2
<1>6. Is(h)
  BY <1>5
<1> HIDE DEF h, n
<1>8. 0 \in P
  <2>1. h[{}] = 0 /\ 1..0 = {} /\ 0 \in 0..n
    BY <1>2, <1>6
  <2> QED
    BY <2>1
<1>9. ASSUME NEW k \in 1..n, k - 1 \in P PROVE k \in P
  <2> DEFINE x == h[1..(k - 1)]
             y == h[1..k]
  <2>1. y = AddBit(op, a, b, h[(1..k) \ {k}], s[k])
    <3> DEFINE S == 1..k
    <3>1. S \in SUBSET DOMAIN s /\ S # {} /\ Max(S) = k
      BY <1>2, Prefix
    <3> HIDE DEF S
    <3>2. h[S] = AddBit(op, a, b, h[S \ {Max(S)}], s[Max(S)])
      BY <1>6, <3>1
    <3> QED
      BY <3>1, <3>2 DEF S
  <2>2. (1..k) \ {k} = 1..(k - 1) /\ k \in 0..n
    BY <1>2, Prefix
  <2>3. y = AddBit(op, a, b, x, s[k]) /\ s[k] \in T
    BY <1>2, <2>1, <2>2
  <2>4. x \in V
    BY <1>9
  <2> HIDE DEF x, y
  <2>5. y \in V
    BY <2>3, <2>4, AddBitType
  <2> QED
    BY <2>2, <2>5 DEF y
<1> HIDE DEF P
<1>10. n \in P
  <2>1. \A k \in 0..n : k \in P
    BY <1>2, <1>8, <1>9, UpTo
  <2> QED
    BY <1>2, <2>1
<1> QED
  BY <1>2, <1>7, <1>10 DEF P

(* The operations on one bit.                                              *)
LEMMA BitOpsType ==
    /\ BitAnd \in [0..1 -> [0..1 -> Int]]
    /\ BitOr \in [0..1 -> [0..1 -> Int]]
    /\ BitXor \in [0..1 -> [0..1 -> Int]]
<1>1. BitAnd \in [0..1 -> [0..1 -> Int]]
  BY DEF BitAnd
<1>2. BitOr \in [0..1 -> [0..1 -> Int]]
  BY DEF BitOr
<1>3. BitXor \in [0..1 -> [0..1 -> Int]]
  BY DEF BitXor
<1> QED
  BY <1>1, <1>2, <1>3

-----------------------------------------------------------------------------
(* The part of a context that popping an operand leaves alone.             *)
Steady(c, d) ==
    /\ d.op = c.op /\ d.in = c.in /\ d.io = c.io /\ d.args = c.args
    /\ d.sem = c.sem /\ d.esp = c.esp
    /\ d.inline = c.inline /\ d.left = c.left /\ d.call = c.call /\ d.frames = c.frames

(* No register and no cell changes hands.                                  *)
Alike(c, d) ==
    /\ Steady(c, d)
    /\ d.cache = c.cache /\ d.ref = c.ref /\ d.asserts = c.asserts /\ d.reg = c.reg

(* The register d.reg is now held, if at most n others are.                *)
Takes(c, d, n) ==
    /\ Steady(c, d)
    /\ Well(c) => Well(d)
    /\ \A H \in Holds : Enough /\ Few(H, n) /\ Counted(c, H) => Counted(d, Plus(H, d.reg))

(* Writing to memory is a special case.                                    *)
LEMMA SameAlike ==
    ASSUME NEW c, NEW d, Same(c, d)
    PROVE  Alike(c, d)
BY DEF Same, Kept, Alike, Steady

(* Two such steps are one.                                                 *)
LEMMA AlikeTwice ==
    /\ \A c : Alike(c, c)
    /\ \A c, d, e : Alike(c, d) /\ Alike(d, e) => Alike(c, e)
BY DEF Alike, Steady

(* Such a step leaves the reference counts as they are.                    *)
LEMMA AlikeCounted ==
    ASSUME NEW c, NEW d, Alike(c, d)
    PROVE  (Well(c) <=> Well(d)) /\ \A H \in Holds : Counted(c, H) <=> Counted(d, H)
BY DEF Alike, Well, Counted, Tally

(* Such a step may come before or after a register is taken.               *)
LEMMA AlikeTakes ==
    ASSUME NEW c, NEW d, NEW e, NEW n
    PROVE  /\ Alike(c, d) /\ Takes(d, e, n) => Takes(c, e, n)
           /\ Takes(c, d, n) /\ Alike(d, e) => Takes(c, e, n)
<1>1. ASSUME Alike(c, d), Takes(d, e, n) PROVE Takes(c, e, n)
  <2>1. Steady(c, e)
    BY <1>1 DEF Alike, Takes, Steady
  <2> QED
    BY <1>1, <2>1, AlikeCounted DEF Takes
<1>2. ASSUME Takes(c, d, n), Alike(d, e) PROVE Takes(c, e, n)
  <2>1. Steady(c, e) /\ e.reg = d.reg
    BY <1>2 DEF Alike, Takes, Steady
  <2>2. Well(c) => Well(e)
    BY <1>2, AlikeCounted DEF Takes
  <2>3. ASSUME NEW H \in Holds, Enough, Few(H, n), Counted(c, H) PROVE Counted(e, Plus(H, e.reg))
    <3>1. Counted(d, Plus(H, d.reg))
      BY <1>2, <2>3 DEF Takes
    <3> QED
      BY <1>2, <2>1, <3>1 DEF Alike, Counted, Tally
  <2> QED
    BY <2>1, <2>2, <2>3 DEF Takes
<1> QED
  BY <1>1, <1>2

(* alloc_reg, in these words.                                              *)
LEMMA AllocTakes ==
    ASSUME NEW I, NEW c \in Ctx(I)
    PROVE  alloc_reg(c) \in Ctx(I) /\ Takes(c, alloc_reg(c), 5)
BY AllocFacts DEF Takes, Kept, Steady

(* A register is written.                                                  *)
LEMMA WriteFacts ==
    ASSUME NEW I, NEW c \in Ctx(I), NEW reg \in Regs, NEW v \in Int
    PROVE  Write(c, reg, v) \in Ctx(I) /\ Alike(c, Write(c, reg, v))
<1> DEFINE f == [c.val EXCEPT ![reg] = v % Word]
           d == [c EXCEPT !.val = f]
<1>1. f \in [Regs -> Value]
  <2>1. v % Word \in Value
    BY WordIs DEF Value
  <2>2. c.val \in [Regs -> Value]
    BY CtxParts
  <2> QED
    BY <2>1, <2>2
<1>2. Write(c, reg, v) = d
  BY DEF Write
<1> HIDE DEF f
<1>3. d \in Ctx(I)
  BY <1>1 DEF Ctx
<1>4. Alike(c, d)
  BY <1>1 DEF Ctx, Alike, Steady
<1> QED
  BY <1>2, <1>3, <1>4

(* A stack pointer or its shadow is set.                                   *)
LEMMA MovePtrFacts ==
    ASSUME NEW I, NEW c \in Ctx(I), NEW r \in BOOLEAN, NEW ptr \in Nat,
           c.op.keep \/ ptr <= Len(c.mem[r])
    PROVE  MovePtr(c, r, ptr) \in Ctx(I) /\ Alike(c, MovePtr(c, r, ptr))
<1>1. CASE c.op.keep
  <2> DEFINE f == [c.shadow EXCEPT ![r] = ptr]
             d == [c EXCEPT !.shadow = f]
  <2>1. f \in [BOOLEAN -> Nat]
    BY CtxParts
  <2>2. MovePtr(c, r, ptr) = d
    BY <1>1 DEF MovePtr
  <2> HIDE DEF f
  <2>3. d \in Ctx(I)
    BY <2>1 DEF Ctx
  <2>4. Alike(c, d)
    BY <2>1 DEF Ctx, Alike, Steady
  <2> QED
    BY <2>2, <2>3, <2>4
<1>2. CASE ~c.op.keep
  <2> DEFINE f == [c.mem EXCEPT ![r] = SubSeq(@, 1, ptr)]
             d == [c EXCEPT !.mem = f]
  <2>1. f \in [BOOLEAN -> Seq(Byte)]
    <3>1. c.mem \in [BOOLEAN -> Seq(Byte)]
      BY CtxParts
    <3>2. c.mem[r] \in Seq(Byte) /\ ptr <= Len(c.mem[r])
      BY <1>2, <3>1
    <3>3. SubSeq(c.mem[r], 1, ptr) \in Seq(Byte)
      BY <3>2
    <3> QED
      BY <3>1, <3>3
  <2>2. MovePtr(c, r, ptr) = d
    BY <1>2 DEF MovePtr
  <2> HIDE DEF f
  <2>3. d \in Ctx(I) /\ Same(c, d)
    BY <2>1, MemSet
  <2> QED
    BY <2>2, <2>3, SameAlike
<1> QED
  BY <1>1, <1>2

(* Pointers that stop at the bottom of the stack.                          *)
LEMMA DownTo ==
    ASSUME NEW p \in Nat, NEW n \in Nat
    PROVE  Max({0, p - n}) \in Nat /\ Max({0, p - n}) <= p
<1> DEFINE S == {0, p - n}
<1>1. S \in SUBSET Int
  OBVIOUS
<1>2. CASE p - n >= 0
  <2>1. p - n \in S /\ \A y \in S : y <= p - n
    BY <1>2
  <2> HIDE DEF S
  <2>2. Max(S) = p - n
    BY <1>1, <2>1, MaxIs
  <2> QED
    BY <1>2, <2>2 DEF S
<1>3. CASE ~(p - n >= 0)
  <2>1. 0 \in S /\ \A y \in S : y <= 0
    BY <1>3
  <2> HIDE DEF S
  <2>2. Max(S) = 0
    BY <1>1, <2>1, MaxIs
  <2> QED
    BY <1>3, <2>2 DEF S
<1> QED
  BY <1>2, <1>3

(* The stack pointer that pops use.                                        *)
LEMMA StackPtrType ==
    ASSUME NEW I, NEW c \in Ctx(I), NEW r \in BOOLEAN
    PROVE  StackPtr(c, r) \in Nat /\ (c.op.keep \/ StackPtr(c, r) = Len(c.mem[r]))
<1>1. c.mem \in [BOOLEAN -> Seq(Byte)] /\ c.shadow \in [BOOLEAN -> Nat]
  BY CtxParts
<1> QED
  BY <1>1 DEF StackPtr

(* A byte of memory.                                                       *)
LEMMA PeekType ==
    ASSUME NEW I, NEW c \in Ctx(I), NEW i
    PROVE  Peek(c, i) \in Byte
<1> DEFINE b == (c.base = "rs")
           m == c.mem[b]
<1>1. c.mem \in [BOOLEAN -> Seq(Byte)] /\ b \in BOOLEAN
  BY CtxParts
<1>2. m \in Seq(Byte) /\ 0 \in Byte /\ <<>> \in Seq(Byte)
  <2>1. 0 \in Byte /\ <<>> \in Seq(Byte)
    BY WordIs DEF Byte
  <2> HIDE DEF b
  <2>2. m \in Seq(Byte)
    BY <1>1
  <2> QED
    BY <2>1, <2>2
<1>3. \A s \in Seq(Byte) : \A k \in DOMAIN s : s[k] \in Byte
  OBVIOUS
<1>4. CASE c.base \in {"ws", "rs"}
  <2>1. Peek(c, i) = IF i \in DOMAIN m THEN m[i] ELSE 0
    BY <1>4, Zenon DEF Peek
  <2> HIDE DEF m
  <2> QED
    BY <1>2, <1>3, <2>1
<1>5. CASE c.base \notin {"ws", "rs"}
  <2>1. Peek(c, i) = IF i \in DOMAIN <<>> THEN <<>>[i] ELSE 0
    BY <1>5, Zenon DEF Peek
  <2> QED
    BY <1>2, <1>3, <2>1
<1> QED
  BY <1>4, <1>5

(* An operand is popped from memory.                                       *)
LEMMA PopBytesFacts ==
    ASSUME NEW I, NEW c \in Ctx(I), NEW n \in {1, 2}, NEW r \in BOOLEAN
    PROVE  PopBytes(c, n, r) \in Ctx(I) /\ Alike(c, PopBytes(c, n, r))
<1> DEFINE ptr == StackPtr(c, r)
           v == IF n = 2 THEN Peek(c, ptr - 1) * Base + Peek(c, ptr) ELSE Peek(c, ptr)
           d == Write(c, c.reg, v)
           to == Max({0, ptr - n})
           e == MovePtr(d, r, to)
<1>1. PopBytes(c, n, r) = e
  BY Zenon DEF PopBytes
<1>2. ptr \in Nat /\ (c.op.keep \/ ptr = Len(c.mem[r]))
  BY StackPtrType
<1>3. Peek(c, ptr - 1) \in Nat /\ Peek(c, ptr) \in Nat
  BY PeekType DEF Byte
<1>4. v \in Int
  <2> DEFINE x == Peek(c, ptr - 1)
             y == Peek(c, ptr)
  <2>1. x \in Nat /\ y \in Nat /\ Base \in Nat
    BY <1>3, WordIs
  <2>2. v = IF n = 2 THEN x * Base + y ELSE y
    BY Zenon
  <2> HIDE DEF x, y
  <2>3. x * Base \in Nat
    BY <2>1
  <2> QED
    BY <2>1, <2>2, <2>3
<1> HIDE DEF v
<1>5. d \in Ctx(I) /\ Alike(c, d) /\ d.mem = c.mem
  <2>1. c.reg \in Regs
    BY CtxParts
  <2>2. d.mem = c.mem
    BY DEF Write, Ctx
  <2> QED
    BY <1>4, <2>1, <2>2, WriteFacts
<1>6. to \in Nat /\ to <= ptr
  BY <1>2, DownTo
<1> HIDE DEF d, ptr, to
<1>7. d.op.keep \/ to <= Len(d.mem[r])
  BY <1>2, <1>5, <1>6 DEF Alike, Steady
<1>8. e \in Ctx(I) /\ Alike(d, e)
  BY <1>5, <1>6, <1>7, MovePtrFacts
<1> HIDE DEF e
<1> QED
  BY <1>1, <1>5, <1>8, AlikeTwice

(* pop_from_mem: the register is allocated in between.                     *)
LEMMA PopFromMemTakes ==
    ASSUME NEW I, NEW c \in Ctx(I), NEW two \in BOOLEAN, NEW r \in BOOLEAN
    PROVE  pop_from_mem(c, two, r) \in Ctx(I) /\ Takes(c, pop_from_mem(c, two, r), 5)
<1> DEFINE n == IF two THEN 2 ELSE 1
           d == set_mem_base(c, StackOf(r))
           e == alloc_reg(d)
           f == PopBytes(e, n, r)
<1>1. pop_from_mem(c, two, r) = f
  BY DEF pop_from_mem
<1>2. n \in {1, 2}
  OBVIOUS
<1>3. StackOf(r) \in Bases
  BY DEF StackOf, Bases
<1>4. d \in Ctx(I) /\ Alike(c, d)
  BY <1>3, SetBaseFacts, SameAlike
<1> HIDE DEF n, d
<1>5. e \in Ctx(I) /\ Takes(d, e, 5)
  BY <1>4, AllocTakes
<1> HIDE DEF e
<1>6. f \in Ctx(I) /\ Alike(e, f)
  BY <1>2, <1>5, PopBytesFacts
<1> HIDE DEF f
<1> QED
  BY <1>1, <1>4, <1>5, <1>6, AlikeTakes

(* A register that was held is given back.                                 *)
LEMMA GiveBack ==
    ASSUME NEW I, NEW c \in Ctx(I), NEW H \in Holds, NEW reg \in Regs, Counted(c, Plus(H, reg))
    PROVE  Counted(release_reg(c, reg), H)
<1> DEFINE d == release_reg(c, reg)
           r == TRUE
<1>0. r \in BOOLEAN
  OBVIOUS
<1> HIDE DEF r
<1>1. \A i \in Regs : H[i] \in Nat /\ Plus(H, reg)[i] = IF i = reg THEN H[i] + 1 ELSE H[i]
  BY DEF Holds, Plus
<1>2. c.cache[r] \in Seq(Cell) /\ c.cache[~r] \in Seq(Cell) /\ c.ref \in [Regs -> Nat]
  BY <1>0, CacheParts, CtxParts
<1>3. \A i \in Regs : Count(c.cache[r], i) \in Nat /\ Count(c.cache[~r], i) \in Nat
  BY <1>2, CountNat
<1>4. \A i \in Regs : c.ref[i] = Plus(H, reg)[i] + Count(c.cache[r], i) + Count(c.cache[~r], i)
  BY <1>0 DEF Counted, Tally
<1>5. c.ref[reg] # 0
  BY <1>1, <1>3, <1>4
<1>6. /\ d \in Ctx(I) /\ d.cache = c.cache /\ d.asserts = c.asserts
      /\ d.ref = [c.ref EXCEPT ![reg] = @ - 1]
  BY <1>5, ReleaseFacts
<1> HIDE DEF d
<1>7. ASSUME NEW i \in Regs PROVE d.ref[i] = H[i] + Count(d.cache[r], i) + Count(d.cache[~r], i)
  <2>1. d.ref[i] = IF i = reg THEN c.ref[i] - 1 ELSE c.ref[i]
    BY <1>2, <1>6
  <2>2. d.ref[i] = H[i] + Count(c.cache[r], i) + Count(c.cache[~r], i)
    BY <1>1, <1>3, <1>4, <2>1
  <2> QED
    BY <1>6, <2>2
<1>8. Tally(d, H, r) /\ d.asserts = {}
  BY <1>6, <1>7 DEF Tally, Counted
<1>9. Counted(d, H)
  BY <1>0, <1>6, <1>8, CountedIf
<1> QED
  BY <1>9 DEF d

(* The top cell leaves the cache, and its register is held.                *)
LEMMA DropTop ==
    ASSUME NEW I, NEW c \in Ctx(I), NEW r \in BOOLEAN, c.cache[r] # <<>>, NEW d,
           d = [c EXCEPT !.cache[r] = Front(@)]
    PROVE  /\ d \in Ctx(I) /\ Kept(c, d) /\ d.reg = c.reg /\ (Well(c) => Well(d))
           /\ Last(c.cache[r]) \in Cell /\ Last(c.cache[r]).reg \in Regs
           /\ \A H \in Holds : Counted(c, H) => Counted(d, Plus(H, Last(c.cache[r]).reg))
<1> DEFINE s == c.cache[r]
           t == Front(s)
           top == Last(s)
           g == [c.cache EXCEPT ![r] = t]
           e == [c EXCEPT !.cache = g]
<1>1. s \in Seq(Cell) /\ c.cache[~r] \in Seq(Cell) /\ c.cache \in [BOOLEAN -> Seq(Cell)] /\ c.ref \in [Regs -> Nat]
  BY CacheParts, CtxParts
<1>2. /\ t \in Seq(Cell) /\ Len(t) = Len(s) - 1 /\ top \in Cell
      /\ \A i \in DOMAIN t : i \in DOMAIN s /\ t[i] = s[i]
  BY <1>1, FrontIs
<1>3. top.reg \in Regs
  BY <1>2 DEF Cell
<1>4. \A i \in Regs : Count(s, i) = Count(t, i) + (IF top.reg = i THEN 1 ELSE 0)
  BY <1>1, CountFront
<1>5. d = e
  OBVIOUS
<1> HIDE DEF t, top
<1>6. g \in [BOOLEAN -> Seq(Cell)] /\ g[r] = t /\ g[~r] = c.cache[~r]
  BY <1>1, <1>2
<1> HIDE DEF g
<1>7. e \in Ctx(I) /\ Kept(c, e) /\ e.cache = g /\ e.ref = c.ref /\ e.asserts = c.asserts /\ e.reg = c.reg
  BY <1>6, CacheSet
<1> HIDE DEF e
<1>8. ASSUME Well(c) PROVE Well(d)
  <2>1. /\ Len(s) \in Nat /\ Len(s) <= CacheSize /\ Sorted(s)
        /\ Len(c.cache[~r]) <= CacheSize /\ Sorted(c.cache[~r])
    BY <1>1, <1>8, WellAt
  <2>2. Len(t) <= CacheSize
    BY <1>2, <2>1, SizeAssumption
  <2>3. Sorted(t)
    BY <1>2, <2>1 DEF Sorted
  <2>4. \A q \in BOOLEAN : q = r \/ q = (~r)
    OBVIOUS
  <2> QED
    BY <1>5, <1>6, <1>7, <2>1, <2>2, <2>3, <2>4 DEF Well
<1>9. ASSUME NEW H \in Holds, Counted(c, H) PROVE Counted(d, Plus(H, top.reg))
  <2>1. ASSUME NEW i \in Regs
        PROVE  e.ref[i] = Plus(H, top.reg)[i] + Count(e.cache[r], i) + Count(e.cache[~r], i)
    <3>1. c.ref[i] = H[i] + Count(s, i) + Count(c.cache[~r], i)
      BY <1>9 DEF Counted, Tally
    <3>2. H[i] \in Nat /\ Plus(H, top.reg)[i] = IF i = top.reg THEN H[i] + 1 ELSE H[i]
      BY <1>3 DEF Holds, Plus
    <3>3. Count(t, i) \in Nat /\ Count(c.cache[~r], i) \in Nat
      BY <1>1, <1>2, CountNat
    <3>4. c.ref[i] = Plus(H, top.reg)[i] + Count(t, i) + Count(c.cache[~r], i)
      BY <1>4, <3>1, <3>2, <3>3
    <3> QED
      BY <1>6, <1>7, <3>4
  <2>2. Tally(e, Plus(H, top.reg), r) /\ e.asserts = {}
    BY <1>7, <1>9, <2>1 DEF Tally, Counted
  <2>3. Plus(H, top.reg) \in Holds
    BY <1>3, PlusFacts
  <2> QED
    BY <1>5, <1>7, <2>2, <2>3, CountedIf
<1>10. top = Last(c.cache[r])
  BY DEF top
<1> QED
  BY <1>2, <1>3, <1>5, <1>7, <1>8, <1>9, <1>10

(* The cells, with the one at position len a byte.                         *)
Narrowed(s, len) ==
    [i \in DOMAIN s |-> IF i = len THEN [s[i] EXCEPT !.is_short = FALSE] ELSE s[i]]

(* A cell of the cache becomes a byte.                                     *)
LEMMA NarrowFacts ==
    ASSUME NEW I, NEW c \in Ctx(I), NEW r \in BOOLEAN, NEW len, NEW d,
           d = [c EXCEPT !.cache[r] = Narrowed(c.cache[r], len)]
    PROVE  d \in Ctx(I) /\ Moved(c, d)
<1> DEFINE s == c.cache[r]
           t == Narrowed(s, len)
<1>1. s \in Seq(Cell)
  BY CacheParts
<1>2. d = [c EXCEPT !.cache[r] = t]
  OBVIOUS
<1> HIDE DEF s
<1>3. DOMAIN s = 1..Len(s) /\ Len(s) \in Nat /\ \A i \in 1..Len(s) : s[i] \in Cell
  BY <1>1, ListParts
<1>4. /\ t \in [1..Len(s) -> Cell] /\ DOMAIN t = 1..Len(s)
      /\ \A i \in 1..Len(s) : t[i].reg = s[i].reg /\ t[i].need_flush = s[i].need_flush
  BY <1>3 DEF Cell, Narrowed
<1> HIDE DEF t
<1>5. t \in Seq(Cell) /\ Len(t) = Len(s)
  <2>1. t \in Seq(Cell)
    BY <1>3, <1>4, FunctionIsList
  <2> QED
    BY <1>3, <1>4, <2>1
<1>6. Sorted(s) => Sorted(t)
  BY <1>3, <1>4 DEF Sorted
<1>7. Recast(s, t)
  BY <1>1, <1>3, <1>4, <1>5, <1>6, RecastIf
<1> QED
  BY <1>2, <1>7, RecastFacts DEF s

-----------------------------------------------------------------------------
(* No register changes hands.                                              *)
Shifted(c, d) ==
    /\ Steady(c, d) /\ d.reg = c.reg
    /\ Well(c) => Well(d)
    /\ \A H \in Holds : Counted(c, H) => Counted(d, H)

(* Moving cells, and writing registers, are special cases.                 *)
LEMMA ShiftedIf ==
    ASSUME NEW c, NEW d, Moved(c, d) \/ Alike(c, d)
    PROVE  Shifted(c, d)
<1>1. CASE Moved(c, d)
  BY <1>1 DEF Moved, Shifted, Kept, Steady
<1>2. CASE Alike(c, d)
  BY <1>2, AlikeCounted DEF Shifted, Alike
<1> QED
  BY <1>1, <1>2

(* Two such steps are one.                                                 *)
LEMMA ShiftedTwice ==
    /\ \A c : Shifted(c, c)
    /\ \A c, d, e : Shifted(c, d) /\ Shifted(d, e) => Shifted(c, e)
BY DEF Shifted, Steady

(* Such a step may come before or after a register is taken.               *)
LEMMA ShiftedTakes ==
    ASSUME NEW c, NEW d, NEW e, NEW n
    PROVE  /\ Shifted(c, d) /\ Takes(d, e, n) => Takes(c, e, n)
           /\ d.reg \in Regs /\ Takes(c, d, n) /\ Shifted(d, e) => Takes(c, e, n)
<1>1. ASSUME Shifted(c, d), Takes(d, e, n) PROVE Takes(c, e, n)
  <2>1. Steady(c, e)
    BY <1>1 DEF Shifted, Takes, Steady
  <2> QED
    BY <1>1, <2>1 DEF Takes, Shifted
<1>2. ASSUME d.reg \in Regs, Takes(c, d, n), Shifted(d, e) PROVE Takes(c, e, n)
  <2>1. Steady(c, e) /\ e.reg = d.reg
    BY <1>2 DEF Shifted, Takes, Steady
  <2>2. Well(c) => Well(e)
    BY <1>2 DEF Takes, Shifted
  <2>3. ASSUME NEW H \in Holds, Enough, Few(H, n), Counted(c, H) PROVE Counted(e, Plus(H, e.reg))
    <3>1. Counted(d, Plus(H, d.reg))
      BY <1>2, <2>3 DEF Takes
    <3>2. Plus(H, d.reg) \in Holds
      BY <1>2, PlusFacts
    <3> QED
      BY <1>2, <2>1, <3>1, <3>2 DEF Shifted
  <2> QED
    BY <2>1, <2>2, <2>3 DEF Takes
<1> QED
  BY <1>1, <1>2

(* The values of registers.                                                *)
LEMMA ValType ==
    ASSUME NEW I, NEW c \in Ctx(I), NEW reg \in Regs
    PROVE  /\ c.val[reg] \in Nat /\ c.val[reg] % Base \in Int /\ c.val[reg] \div Base \in Int
           /\ c.val[reg] * Base \in Int
<1> DEFINE v == c.val[reg]
<1>1. v \in Nat
  <2>1. c.val \in [Regs -> Value]
    BY CtxParts
  <2>2. v \in Value
    BY <2>1
  <2> HIDE DEF v
  <2> QED
    BY <2>2, WordIs DEF Value
<1> HIDE DEF v
<1>2. v % Base \in Int /\ v \div Base \in Int /\ v * Base \in Int
  BY <1>1, WordIs
<1> QED
  BY <1>1, <1>2 DEF v

(* The low byte of a short cell goes to the register that was allocated.   *)
LEMMA SplitTakes ==
    ASSUME NEW I, NEW b, NEW c \in Ctx(I), NEW r \in BOOLEAN, NEW len, NEW top \in Cell,
           Takes(b, c, 5)
    PROVE  Split(c, r, len, top) \in Ctx(I) /\ Takes(b, Split(c, r, len, top), 5)
<1>1. c.reg \in Regs /\ top.reg \in Regs
  BY CtxParts DEF Cell
<1>2. CASE c.cache[r] = <<>>
  <2> DEFINE no == FALSE
             x == c.reg
             d == release_reg(c, x)
             e == pop_from_mem(d, no, r)
  <2>1. Split(c, r, len, top) = e
    BY <1>2, Zenon DEF Split
  <2>2. no \in BOOLEAN /\ x \in Regs
    BY <1>1
  <2> HIDE DEF x
  <2>3. d \in Ctx(I) /\ Kept(c, d) /\ d.cache = c.cache
    BY <2>2, ReleaseKeeps
  <2> HIDE DEF no, d
  <2>4. e \in Ctx(I) /\ Takes(d, e, 5)
    BY <2>2, <2>3, PopFromMemTakes
  <2> HIDE DEF e
  <2>5. Steady(b, e)
    BY <2>3, <2>4 DEF Takes, Kept, Steady
  <2>6. Well(b) => Well(e)
    BY <2>3, <2>4 DEF Takes, Well
  <2>7. ASSUME NEW H \in Holds, Enough, Few(H, 5), Counted(b, H) PROVE Counted(e, Plus(H, e.reg))
    <3>1. Counted(c, Plus(H, c.reg))
      BY <2>7 DEF Takes
    <3>2. Counted(d, H)
      BY <1>1, <3>1, GiveBack DEF d, x
    <3> QED
      BY <2>4, <2>7, <3>2 DEF Takes
  <2>8. Takes(b, e, 5)
    BY <2>5, <2>6, <2>7 DEF Takes
  <2> QED
    BY <2>1, <2>4, <2>8
<1>3. CASE c.cache[r] # <<>>
  <2> DEFINE x == c.val[top.reg] % Base
             y == c.val[top.reg] \div Base
             d == Write(c, c.reg, x)
             e == Write(d, top.reg, y)
             f == [e EXCEPT !.cache[r] = Narrowed(e.cache[r], len)]
  <2>1. Split(c, r, len, top) = f
    BY <1>3 DEF Split, Narrowed
  <2>2. x \in Int /\ y \in Int
    BY <1>1, ValType
  <2> HIDE DEF x, y
  <2>3. d \in Ctx(I) /\ Alike(c, d)
    BY <1>1, <2>2, WriteFacts
  <2> HIDE DEF d
  <2>4. e \in Ctx(I) /\ Alike(d, e)
    BY <1>1, <2>2, <2>3, WriteFacts
  <2> HIDE DEF e
  <2>0. f = [e EXCEPT !.cache[r] = Narrowed(e.cache[r], len)]
    OBVIOUS
  <2> HIDE DEF f
  <2>5. f \in Ctx(I) /\ Moved(e, f)
    BY <2>0, <2>4, NarrowFacts
  <2>6. Shifted(c, f)
    BY <2>3, <2>4, <2>5, ShiftedIf, ShiftedTwice
  <2> QED
    BY <1>1, <2>1, <2>5, <2>6, ShiftedTakes
<1> QED
  BY <1>2, <1>3

(* PopCell, wherever the operand comes from.                               *)
LEMMA PopCellTakes ==
    ASSUME NEW I, NEW c \in Ctx(I), NEW two \in BOOLEAN, NEW r \in BOOLEAN
    PROVE  PopCell(c, two, r) \in Ctx(I) /\ Takes(c, PopCell(c, two, r), 5)
<1> DEFINE s == c.cache[r]
           len == Len(s)
           top == s[len]
<1>1. s \in Seq(Cell)
  BY CacheParts
<1>2. CASE len = 0
  <2>1. PopCell(c, two, r) = pop_from_mem(c, two, r)
    BY <1>2 DEF PopCell
  <2> QED
    BY <2>1, PopFromMemTakes
<1>3. CASE len # 0
  <2>1. s # <<>>
    BY <1>3
  <2>2. top \in Cell /\ top = Last(s)
    BY <1>1, <2>1, FrontIs
  <2>3. CASE top.is_short = two
    <3> DEFINE d == [c EXCEPT !.cache[r] = Front(@)]
               e == [d EXCEPT !.reg = top.reg]
    <3>1. PopCell(c, two, r) = e
      BY <1>3, <2>3 DEF PopCell
    <3>2. /\ d \in Ctx(I) /\ Kept(c, d) /\ (Well(c) => Well(d)) /\ top.reg \in Regs
          /\ \A H \in Holds : Counted(c, H) => Counted(d, Plus(H, top.reg))
      BY <2>1, <2>2, DropTop
    <3> HIDE DEF d, top
    <3>3. e \in Ctx(I)
      BY <3>2 DEF Ctx
    <3>4. /\ Kept(d, e) /\ e.cache = d.cache /\ e.ref = d.ref /\ e.asserts = d.asserts
          /\ e.reg = top.reg
      BY <3>2 DEF Ctx, Kept
    <3> HIDE DEF e
    <3>5. Steady(c, e)
      BY <3>2, <3>4 DEF Kept, Steady
    <3>6. Well(c) => Well(e)
      BY <3>2, <3>4 DEF Well
    <3>7. ASSUME NEW H \in Holds, Counted(c, H) PROVE Counted(e, Plus(H, e.reg))
      BY <3>2, <3>4, <3>7 DEF Counted, Tally
    <3> QED
      BY <3>1, <3>3, <3>5, <3>6, <3>7 DEF Takes
  <2>4. CASE top.is_short # two
    <3> DEFINE d == alloc_reg(c)
    <3>1. PopCell(c, two, r) = Split(d, r, len, top)
      BY <1>3, <2>4, Zenon DEF PopCell
    <3>2. d \in Ctx(I) /\ Takes(c, d, 5)
      BY AllocTakes
    <3> HIDE DEF d, len, top
    <3> QED
      BY <2>2, <3>1, <3>2, SplitTakes
  <2> QED
    BY <2>3, <2>4
<1> QED
  BY <1>2, <1>3

-----------------------------------------------------------------------------
(* From c to d, one hold on a register is given up.                        *)
Drops(c, d, reg) ==
    /\ Steady(c, d) /\ d.reg = c.reg
    /\ Well(c) => Well(d)
    /\ \A H \in Holds : Counted(c, Plus(H, reg)) => Counted(d, H)

(* release_reg gives up one hold.                                          *)
LEMMA ReleaseDrops ==
    ASSUME NEW I, NEW c \in Ctx(I), NEW reg \in Regs
    PROVE  release_reg(c, reg) \in Ctx(I) /\ Drops(c, release_reg(c, reg), reg)
<1> DEFINE d == release_reg(c, reg)
<1>1. d \in Ctx(I) /\ Kept(c, d) /\ d.cache = c.cache /\ d.reg = c.reg
  BY ReleaseKeeps
<1>2. \A H \in Holds : Counted(c, Plus(H, reg)) => Counted(d, H)
  BY GiveBack
<1> HIDE DEF d
<1>3. Well(c) => Well(d)
  BY <1>1 DEF Well
<1>4. Steady(c, d)
  BY <1>1 DEF Kept, Steady
<1>5. Drops(c, d, reg)
  BY <1>1, <1>2, <1>3, <1>4 DEF Drops
<1> QED
  BY <1>1, <1>5 DEF d

(* Nothing else changes hands before the hold is given up.                 *)
LEMMA AlikeDrops ==
    ASSUME NEW c, NEW d, NEW e, NEW reg \in Regs, Alike(c, d), Drops(d, e, reg)
    PROVE  Drops(c, e, reg)
<1>1. Steady(c, e) /\ e.reg = c.reg
  BY DEF Alike, Drops, Steady
<1>2. (Well(c) <=> Well(d)) /\ \A H \in Holds : Counted(c, H) <=> Counted(d, H)
  BY AlikeCounted
<1>3. Well(c) => Well(e)
  BY <1>2 DEF Drops
<1>4. ASSUME NEW H \in Holds, Counted(c, Plus(H, reg)) PROVE Counted(e, H)
  <2>1. Plus(H, reg) \in Holds
    BY PlusFacts
  <2>2. Counted(d, Plus(H, reg))
    BY <1>2, <1>4, <2>1
  <2> QED
    BY <2>2 DEF Drops
<1> QED
  BY <1>1, <1>3, <1>4 DEF Drops

(* Two bytes become a short, and the register of the low one is released.  *)
LEMMA JoinDrops ==
    ASSUME NEW I, NEW c \in Ctx(I), NEW lo \in Regs
    PROVE  JoinBytes(c, lo) \in Ctx(I) /\ Drops(c, JoinBytes(c, lo), lo)
<1> DEFINE reg == c.reg
           x == c.val[reg] * Base
           d == Write(c, reg, x)
           y == Bitwise2(BitOr, d.val[d.reg], d.val[lo])
           e == Write(d, reg, y)
           f == release_reg(e, lo)
<1>1. reg \in Regs
  BY CtxParts
<1>2. x \in Int
  BY <1>1, ValType
<1>a. JoinBytes(c, lo) = OrReg(d, lo)
  BY DEF JoinBytes
<1> HIDE DEF x
<1>3. d \in Ctx(I) /\ Alike(c, d)
  BY <1>1, <1>2, WriteFacts
<1> HIDE DEF d
<1>4. d.reg = reg
  BY <1>3 DEF Alike
<1>5. d.val[d.reg] \in Int /\ d.val[lo] \in Int
  BY <1>1, <1>3, <1>4, ValType
<1>6. y \in Int
  BY <1>5, BitwiseInt, BitOpsType
<1>7. JoinBytes(c, lo) = f
  BY <1>a, <1>4 DEF OrReg
<1> HIDE DEF y
<1>8. e \in Ctx(I) /\ Alike(d, e)
  BY <1>1, <1>3, <1>6, WriteFacts
<1> HIDE DEF e
<1>9. f \in Ctx(I) /\ Drops(e, f, lo)
  BY <1>8, ReleaseDrops
<1> HIDE DEF f
<1>10. Drops(c, f, lo)
  BY <1>3, <1>8, <1>9, AlikeDrops, AlikeTwice
<1> QED
  BY <1>7, <1>9, <1>10

(* The order of two holds does not matter.                                 *)
LEMMA PlusSwap ==
    ASSUME NEW H \in Holds, NEW i \in Regs, NEW j \in Regs
    PROVE  Plus(Plus(H, i), j) = Plus(Plus(H, j), i)
BY DEF Holds, Plus

(* stack_cache_pop: a register is held that was not, and while it is found *)
(* at most one more.                                                       *)
LEMMA PopTakes ==
    ASSUME NEW I, NEW c \in Ctx(I), NEW two \in BOOLEAN, NEW r \in BOOLEAN
    PROVE  stack_cache_pop(c, two, r) \in Ctx(I) /\ Takes(c, stack_cache_pop(c, two, r), 4)
<1> DEFINE top == Last(c.cache[r])
           p == two /\ c.cache[r] # <<>> /\ ~top.is_short
<1>1. CASE ~p
  <2> DEFINE d == PopCell(c, two, r)
  <2>1. stack_cache_pop(c, two, r) = d
    BY <1>1 DEF stack_cache_pop
  <2>2. d \in Ctx(I) /\ Takes(c, d, 5)
    BY PopCellTakes
  <2> HIDE DEF d
  <2>3. \A H \in Holds : Few(H, 4) => Few(H, 5)
    <3>1. ASSUME NEW H \in Holds PROVE Cardinality(Used(H)) \in Nat
      <4>1. IsFiniteSet(Regs) /\ Used(H) \subseteq Regs
        BY SizeAssumption, FS_Interval DEF Regs, Used
      <4> QED
        BY <4>1, FS_Subset, FS_CardinalityType
    <3> QED
      BY <3>1 DEF Few
  <2>4. Takes(c, d, 4)
    BY <2>2, <2>3 DEF Takes
  <2> QED
    BY <2>1, <2>2, <2>4
<1>2. CASE p
  <2> DEFINE no == FALSE
             lo == top.reg
             b == [c EXCEPT !.cache[r] = Front(@)]
             d == PopCell(b, no, r)
             e == JoinBytes(d, lo)
  <2>1. stack_cache_pop(c, two, r) = e
    BY <1>2, Zenon DEF stack_cache_pop
  <2>2. /\ b \in Ctx(I) /\ Kept(c, b) /\ (Well(c) => Well(b)) /\ lo \in Regs
        /\ \A H \in Holds : Counted(c, H) => Counted(b, Plus(H, lo))
    BY <1>2, DropTop
  <2>3. no \in BOOLEAN
    OBVIOUS
  <2> HIDE DEF b, no, lo
  <2>4. d \in Ctx(I) /\ Takes(b, d, 5)
    BY <2>2, <2>3, PopCellTakes
  <2> HIDE DEF d
  <2>5. e \in Ctx(I) /\ Drops(d, e, lo)
    BY <2>2, <2>4, JoinDrops
  <2> HIDE DEF e
  <2>6. Steady(c, e)
    BY <2>2, <2>4, <2>5 DEF Kept, Takes, Drops, Steady
  <2>7. Well(c) => Well(e)
    BY <2>2, <2>4, <2>5 DEF Takes, Drops
  <2>8. ASSUME NEW H \in Holds, Enough, Few(H, 4), Counted(c, H) PROVE Counted(e, Plus(H, e.reg))
    <3> DEFINE K == Plus(H, lo)
    <3>1. Counted(b, K)
      BY <2>2, <2>8
    <3>2. K \in Holds /\ Few(K, 4 + 1)
      BY <2>2, <2>8, PlusFacts
    <3> HIDE DEF K
    <3>3. Counted(d, Plus(K, d.reg))
      BY <2>4, <2>8, <3>1, <3>2 DEF Takes
    <3>4. d.reg \in Regs /\ e.reg = d.reg
      BY <2>4, <2>5, CtxParts DEF Drops
    <3>5. Plus(K, d.reg) = Plus(Plus(H, d.reg), lo)
      BY <2>2, <3>4, PlusSwap DEF K
    <3>6. Plus(H, d.reg) \in Holds
      BY <3>4, PlusFacts
    <3> QED
      BY <2>5, <3>3, <3>4, <3>5, <3>6 DEF Drops
  <2>9. Takes(c, e, 4)
    BY <2>6, <2>7, <2>8 DEF Takes
  <2> QED
    BY <2>1, <2>5, <2>9
<1> QED
  BY <1>1, <1>2

(* Bytes are dropped from the stack in memory.                             *)
LEMMA DiscardMemFacts ==
    ASSUME NEW I, NEW c \in Ctx(I), NEW two \in BOOLEAN, NEW r \in BOOLEAN
    PROVE  discard_from_mem(c, two, r) \in Ctx(I) /\ Shifted(c, discard_from_mem(c, two, r))
<1> DEFINE n == IF two THEN 2 ELSE 1
           p == StackPtr(c, r)
           to == Max({0, p - n})
<1>1. p \in Nat /\ (c.op.keep \/ p = Len(c.mem[r]))
  BY StackPtrType
<1>2. n \in Nat
  OBVIOUS
<1>3. discard_from_mem(c, two, r) = MovePtr(c, r, to)
  BY DEF discard_from_mem
<1> HIDE DEF p, n
<1>4. to \in Nat /\ to <= p
  BY <1>1, <1>2, DownTo
<1> HIDE DEF to
<1>5. MovePtr(c, r, to) \in Ctx(I) /\ Alike(c, MovePtr(c, r, to))
  BY <1>1, <1>4, MovePtrFacts
<1> QED
  BY <1>3, <1>5, ShiftedIf

(* The top cell is dropped.                                                *)
LEMMA DropCellFacts ==
    ASSUME NEW I, NEW c \in Ctx(I), NEW r \in BOOLEAN, c.cache[r] # <<>>, NEW d,
           d = release_reg([c EXCEPT !.cache[r] = Front(@)], Last(c.cache[r]).reg)
    PROVE  d \in Ctx(I) /\ Shifted(c, d)
<1> DEFINE b == [c EXCEPT !.cache[r] = Front(@)]
           reg == Last(c.cache[r]).reg
<1>1. /\ b \in Ctx(I) /\ Kept(c, b) /\ b.reg = c.reg /\ (Well(c) => Well(b)) /\ reg \in Regs
      /\ \A H \in Holds : Counted(c, H) => Counted(b, Plus(H, reg))
  BY DropTop
<1>2. d = release_reg(b, reg)
  OBVIOUS
<1> HIDE DEF b, reg
<1>3. d \in Ctx(I) /\ Drops(b, d, reg)
  BY <1>1, <1>2, ReleaseDrops
<1>4. Steady(c, d) /\ d.reg = c.reg /\ (Well(c) => Well(d))
  BY <1>1, <1>3 DEF Drops, Steady, Kept
<1>5. \A H \in Holds : Counted(c, H) => Counted(d, H)
  BY <1>1, <1>3 DEF Drops
<1> QED
  BY <1>3, <1>4, <1>5 DEF Shifted

(* A byte is dropped, in memory or from a cell.                            *)
LEMMA DiscardByteFacts ==
    ASSUME NEW I, NEW c \in Ctx(I), NEW r \in BOOLEAN
    PROVE  DiscardByte(c, r) \in Ctx(I) /\ Shifted(c, DiscardByte(c, r))
<1> DEFINE s == c.cache[r]
           len == Len(s)
           top == s[len]
<1>1. s \in Seq(Cell)
  BY CacheParts
<1>2. CASE len = 0
  <2> DEFINE no == FALSE
  <2>1. DiscardByte(c, r) = discard_from_mem(c, no, r)
    BY <1>2, Zenon DEF DiscardByte
  <2>2. no \in BOOLEAN
    OBVIOUS
  <2> HIDE DEF no
  <2> QED
    BY <2>1, <2>2, DiscardMemFacts
<1>3. CASE len # 0
  <2>1. s # <<>>
    BY <1>3
  <2>2. top \in Cell /\ top = Last(s)
    BY <1>1, <2>1, FrontIs
  <2>3. top.reg \in Regs /\ top.is_short \in BOOLEAN
    BY <2>2 DEF Cell
  <2>4. CASE ~top.is_short
    <3> DEFINE d == release_reg([c EXCEPT !.cache[r] = Front(@)], Last(c.cache[r]).reg)
    <3>1. DiscardByte(c, r) = d
      BY <1>3, <2>2, <2>4 DEF DiscardByte
    <3>2. d = release_reg([c EXCEPT !.cache[r] = Front(@)], Last(c.cache[r]).reg)
      OBVIOUS
    <3> HIDE DEF d
    <3> QED
      BY <2>1, <3>1, <3>2, DropCellFacts
  <2>5. CASE top.is_short
    <3> DEFINE y == c.val[top.reg] \div Base
               d == Write(c, top.reg, y)
               e == [d EXCEPT !.cache[r] = Narrowed(d.cache[r], len)]
    <3>1. y \in Int
      BY <2>3, ValType
    <3>a. DiscardByte(c, r) = [d EXCEPT !.cache[r][len].is_short = FALSE]
      BY <1>3, <2>5 DEF DiscardByte
    <3> HIDE DEF y
    <3>2. d \in Ctx(I) /\ Alike(c, d)
      BY <2>3, <3>1, WriteFacts
    <3> HIDE DEF d
    <3>3. d.cache = c.cache
      BY <3>2 DEF Alike
    <3>4. [s EXCEPT ![len].is_short = FALSE] = Narrowed(s, len)
      BY <1>1, <1>3 DEF Narrowed
    <3>5. DiscardByte(c, r) = e
      BY <3>a, <3>3, <3>4
    <3>6. e = [d EXCEPT !.cache[r] = Narrowed(d.cache[r], len)]
      OBVIOUS
    <3> HIDE DEF e, len
    <3>7. e \in Ctx(I) /\ Moved(d, e)
      BY <3>2, <3>6, NarrowFacts
    <3> QED
      BY <3>2, <3>5, <3>7, ShiftedIf, ShiftedTwice
  <2> QED
    BY <2>3, <2>4, <2>5
<1> QED
  BY <1>2, <1>3

(* stack_cache_discard: no register changes hands.                         *)
LEMMA DiscardFacts ==
    ASSUME NEW I, NEW c \in Ctx(I), NEW two \in BOOLEAN, NEW r \in BOOLEAN
    PROVE  stack_cache_discard(c, two, r) \in Ctx(I) /\ Shifted(c, stack_cache_discard(c, two, r))
<1> DEFINE d == release_reg([c EXCEPT !.cache[r] = Front(@)], Last(c.cache[r]).reg)
           yes == TRUE
<1>1. \/ stack_cache_discard(c, two, r) = DiscardByte(c, r)
      \/ stack_cache_discard(c, two, r) = discard_from_mem(c, yes, r)
      \/ c.cache[r] # <<>> /\ stack_cache_discard(c, two, r) \in {d, DiscardByte(d, r)}
  BY Zenon DEF stack_cache_discard
<1>2. yes \in BOOLEAN /\ d = release_reg([c EXCEPT !.cache[r] = Front(@)], Last(c.cache[r]).reg)
  OBVIOUS
<1> HIDE DEF d, yes
<1>3. DiscardByte(c, r) \in Ctx(I) /\ Shifted(c, DiscardByte(c, r))
  BY DiscardByteFacts
<1>4. discard_from_mem(c, yes, r) \in Ctx(I) /\ Shifted(c, discard_from_mem(c, yes, r))
  BY <1>2, DiscardMemFacts
<1>5. CASE c.cache[r] # <<>>
  <2>1. d \in Ctx(I) /\ Shifted(c, d)
    BY <1>2, <1>5, DropCellFacts
  <2>2. DiscardByte(d, r) \in Ctx(I) /\ Shifted(c, DiscardByte(d, r))
    BY <2>1, DiscardByteFacts, ShiftedTwice
  <2> QED
    BY <1>1, <1>3, <1>4, <2>1, <2>2
<1> QED
  BY <1>1, <1>3, <1>4, <1>5

-----------------------------------------------------------------------------
(* A context between the calls that a handler makes.                       *)
Fit(c) ==
    /\ c \in Ctx({c.io}) /\ Well(c) /\ Len(c.frames) <= MaxFrames
    /\ \A r \in BOOLEAN : SemPtr(c, r) <= Len(c.sem[r])

(* The references that no cell accounts for are H, to at most n registers, *)
(* those of the operands among them.                                       *)
Held(c, H, n) ==
    Few(H, n) /\ Counted(c, H) /\ \A j \in DOMAIN c.args : H[c.args[j].reg] # 0

(* A handler has found k operands and holds at most n registers.           *)
Good(c, n, k) ==
    /\ Fit(c) /\ Len(c.args) = k
    /\ Enough => \E H \in Holds : Held(c, H, n)

(* It also holds the register of the last call.                            *)
Loaded(c, n, k) ==
    /\ Fit(c) /\ Len(c.args) = k
    /\ Enough => \E H \in Holds : Held(c, H, n) /\ H[c.reg] # 0

(* What these say depends on this part of a context only.                  *)
Like(c, d) ==
    /\ d.op = c.op /\ d.args = c.args /\ d.cache = c.cache /\ d.ref = c.ref
    /\ d.asserts = c.asserts /\ d.sem = c.sem /\ d.esp = c.esp /\ d.frames = c.frames

(* A context is its own effect's.                                          *)
LEMMA Typed ==
    ASSUME NEW c, Fit(c)
    PROVE  /\ c \in Ctx({c.io})
           /\ \A d \in Ctx({c.io}) : d.io = c.io /\ d \in Ctx({d.io})
<1>1. c \in Ctx({c.io})
  BY DEF Fit
<1>2. ASSUME NEW d \in Ctx({c.io}) PROVE d.io = c.io
  BY CtxParts
<1> QED
  BY <1>1, <1>2

(* The pointer that pops of knowledge use.                                 *)
LEMMA SemPtrType ==
    ASSUME NEW I, NEW c \in Ctx(I), NEW r \in BOOLEAN
    PROVE  /\ SemPtr(c, r) \in Nat /\ (~c.op.keep => SemPtr(c, r) = Len(c.sem[r]))
           /\ c.sem[r] \in Seq(BOOLEAN) /\ c.op.keep \in BOOLEAN
<1>1. c.sem \in [BOOLEAN -> Seq(BOOLEAN)] /\ c.esp \in [BOOLEAN -> Nat] /\ c.op \in AllOpcodes
  BY CtxParts
<1>2. c.op.keep \in BOOLEAN
  BY <1>1, OpcodeFlags
<1>3. c.sem[r] \in Seq(BOOLEAN)
  BY <1>1
<1>4. Len(c.sem[r]) \in Nat /\ c.esp[r] \in Nat
  BY <1>1, <1>3
<1> QED
  BY <1>2, <1>3, <1>4 DEF SemPtr

(* The parts of a context that the handler's bookkeeping is about.         *)
LEMMA LikeGood ==
    ASSUME NEW c, NEW d, Fit(c), d \in Ctx({d.io}), Like(c, d), NEW n, NEW k
    PROVE  /\ Fit(d)
           /\ Good(c, n, k) => Good(d, n, k)
           /\ d.reg = c.reg /\ Loaded(c, n, k) => Loaded(d, n, k)
<1>1. Fit(d)
  BY DEF Fit, Like, Well, SemPtr
<1>2. \A H \in Holds : Held(c, H, n) => Held(d, H, n)
  BY DEF Like, Held, Counted, Tally
<1>3. Good(c, n, k) => Good(d, n, k)
  BY <1>1, <1>2 DEF Good, Like
<1>4. d.reg = c.reg /\ Loaded(c, n, k) => Loaded(d, n, k)
  BY <1>1, <1>2 DEF Loaded, Like
<1> QED
  BY <1>1, <1>3, <1>4

(* Cells move, and no register changes hands.                              *)
LEMMA ShiftedGood ==
    ASSUME NEW c, NEW d, Fit(c), d \in Ctx({c.io}), Shifted(c, d), NEW n, NEW k
    PROVE  /\ Fit(d)
           /\ Good(c, n, k) => Good(d, n, k)
           /\ Loaded(c, n, k) => Loaded(d, n, k)
<1>0. /\ d.op = c.op /\ d.args = c.args /\ d.reg = c.reg /\ d.sem = c.sem /\ d.esp = c.esp
      /\ d.frames = c.frames
  BY DEF Shifted, Steady
<1>1. Fit(d)
  <2>1. d \in Ctx({d.io})
    BY Typed
  <2>2. Well(d)
    BY DEF Fit, Shifted
  <2> QED
    BY <1>0, <2>1, <2>2 DEF Fit, SemPtr
<1>2. \A H \in Holds : Held(c, H, n) => Held(d, H, n)
  BY <1>0 DEF Shifted, Held
<1>3. Good(c, n, k) => Good(d, n, k)
  BY <1>0, <1>1, <1>2 DEF Good
<1>4. Loaded(c, n, k) => Loaded(d, n, k)
  BY <1>0, <1>1, <1>2 DEF Loaded
<1> QED
  BY <1>1, <1>3, <1>4

(* A smaller number of registers is held.                                  *)
LEMMA FewMore ==
    ASSUME NEW H \in Holds, NEW n \in Nat, NEW m \in Nat, n <= m, Few(H, n)
    PROVE  Few(H, m)
<1>1. IsFiniteSet(Regs) /\ Used(H) \subseteq Regs
  BY SizeAssumption, FS_Interval DEF Regs, Used
<1>2. Cardinality(Used(H)) \in Nat
  BY <1>1, FS_Subset, FS_CardinalityType
<1> QED
  BY <1>2 DEF Few

(* A register is popped or allocated: it is held from then on.             *)
LEMMA TakesLoaded ==
    ASSUME NEW c, NEW d, NEW n \in Nat, NEW m \in Nat, NEW k, n <= m,
           Good(c, n, k), d \in Ctx({c.io}), Takes(c, d, m)
    PROVE  Loaded(d, n + 1, k)
<1>0. /\ d.op = c.op /\ d.args = c.args /\ d.sem = c.sem /\ d.esp = c.esp
      /\ d.frames = c.frames
  BY DEF Takes, Steady
<1>1. Fit(d)
  <2>1. d \in Ctx({d.io})
    BY Typed DEF Good
  <2>2. Well(d)
    BY DEF Good, Fit, Takes
  <2> QED
    BY <1>0, <2>1, <2>2 DEF Good, Fit, SemPtr
<1>2. d.reg \in Regs /\ d.args \in Seq(Operand)
  BY CtxParts
<1>3. ASSUME Enough PROVE \E K \in Holds : Held(d, K, n + 1) /\ K[d.reg] # 0
  <2>1. PICK H \in Holds : Held(c, H, n)
    BY <1>3 DEF Good
  <2> DEFINE K == Plus(H, d.reg)
  <2>2. K \in Holds /\ K[d.reg] # 0 /\ Few(K, n + 1)
    BY <1>2, <2>1, PlusFacts DEF Held
  <2>3. Counted(d, K)
    <3>1. Few(H, m) /\ Counted(c, H)
      BY <2>1, FewMore DEF Held
    <3> QED
      BY <1>3, <3>1 DEF Takes
  <2>4. ASSUME NEW j \in DOMAIN d.args PROVE K[d.args[j].reg] # 0
    <3>1. H[d.args[j].reg] # 0
      BY <1>0, <2>1 DEF Held
    <3>2. d.args[j].reg \in Regs
      <4>1. d.args[j] \in Operand
        BY <1>2
      <4> QED
        BY <4>1 DEF Operand
    <3> QED
      BY <1>2, <3>1, <3>2 DEF Plus, Holds
  <2> HIDE DEF K
  <2>5. Held(d, K, n + 1)
    BY <2>2, <2>3, <2>4 DEF Held
  <2> QED
    BY <2>2, <2>5
<1> QED
  BY <1>0, <1>1, <1>3 DEF Loaded, Good

(* The register becomes an operand.                                        *)
LEMMA AddOperandGood ==
    ASSUME NEW c, NEW n, NEW k \in Nat, Loaded(c, n, k), NEW short \in BOOLEAN, NEW bool \in BOOLEAN
    PROVE  Good(AddOperand(c, short, bool), n, k + 1)
<1> DEFINE x == [reg |-> c.reg, is_short |-> short, bool |-> bool]
           t == Append(c.args, x)
           d == [c EXCEPT !.args = t]
<1>1. c \in Ctx({c.io}) /\ c.args \in Seq(Operand) /\ c.reg \in Regs /\ Len(c.args) = k
  BY Typed, CtxParts DEF Loaded
<1>2. x \in Operand /\ x.reg = c.reg
  BY <1>1 DEF Operand
<1>3. AddOperand(c, short, bool) = d
  BY DEF AddOperand
<1> HIDE DEF x
<1>4. /\ t \in Seq(Operand) /\ Len(t) = k + 1
      /\ \A j \in DOMAIN t : t[j] = x \/ (j \in DOMAIN c.args /\ t[j] = c.args[j])
  BY <1>1, <1>2
<1> HIDE DEF t
<1>5. d \in Ctx({c.io}) /\ d.args = t
  BY <1>1, <1>4 DEF Ctx
<1>6. /\ d.op = c.op /\ d.cache = c.cache /\ d.ref = c.ref /\ d.asserts = c.asserts
      /\ d.sem = c.sem /\ d.esp = c.esp /\ d.frames = c.frames /\ d.io = c.io
  BY <1>1 DEF Ctx
<1> HIDE DEF d
<1>7. Fit(d)
  BY <1>5, <1>6 DEF Loaded, Fit, Well, SemPtr
<1>8. ASSUME NEW H \in Holds, Held(c, H, n), H[c.reg] # 0 PROVE Held(d, H, n)
  <2>1. Counted(d, H)
    BY <1>6, <1>8 DEF Held, Counted, Tally
  <2>2. \A j \in DOMAIN d.args : H[d.args[j].reg] # 0
    BY <1>2, <1>4, <1>5, <1>8 DEF Held
  <2> QED
    BY <1>8, <2>1, <2>2 DEF Held
<1>9. Enough => \E H \in Holds : Held(d, H, n)
  BY <1>8 DEF Loaded
<1> QED
  BY <1>3, <1>4, <1>5, <1>7, <1>9 DEF Good

(* The start of a list.                                                    *)
LEMMA StartType ==
    ASSUME NEW S, NEW s \in Seq(S), NEW n \in 0..Len(s)
    PROVE  SubSeq(s, 1, n) \in Seq(S)
OBVIOUS

(* What is known of the bytes popped is forgotten.                         *)
LEMMA PopSemGood ==
    ASSUME NEW c, NEW n, NEW k, Good(c, n, k), NEW r \in BOOLEAN, NEW w \in {1, 2}
    PROVE  Good(PopSem(c, r, w), n, k)
<1> DEFINE p == SemPtr(c, r)
           to == Max({0, p - w})
           d == PopSem(c, r, w)
<1>1. Fit(c) /\ c \in Ctx({c.io})
  BY Typed DEF Good
<1>2. /\ c.sem \in [BOOLEAN -> Seq(BOOLEAN)] /\ c.esp \in [BOOLEAN -> Nat]
      /\ p \in Nat /\ c.op.keep \in BOOLEAN /\ c.sem[r] \in Seq(BOOLEAN) /\ p <= Len(c.sem[r])
  BY <1>1, CtxParts, SemPtrType DEF Fit
<1>3. to \in Nat /\ to <= p
  <2>1. w \in Nat
    OBVIOUS
  <2> HIDE DEF p
  <2> QED
    BY <1>2, <2>1, DownTo
<1>4. CASE c.op.keep
  <2> DEFINE f == [c.esp EXCEPT ![r] = to]
             e == [c EXCEPT !.esp = f]
  <2>1. d = e
    BY <1>4 DEF PopSem
  <2> HIDE DEF to
  <2>2. f \in [BOOLEAN -> Nat] /\ \A q \in BOOLEAN : f[q] <= Len(c.sem[q])
    <3>1. \A q \in BOOLEAN : c.esp[q] <= Len(c.sem[q]) /\ Len(c.sem[q]) \in Nat
      BY <1>1, <1>2, <1>4 DEF Fit, SemPtr
    <3>2. f \in [BOOLEAN -> Nat] /\ \A q \in BOOLEAN : f[q] = IF q = r THEN to ELSE c.esp[q]
      BY <1>2, <1>3
    <3>3. to <= Len(c.sem[r])
      BY <1>2, <1>3, <3>1
    <3> QED
      BY <3>1, <3>2, <3>3
  <2> HIDE DEF f
  <2>3. e \in Ctx({c.io})
    BY <1>1, <2>2 DEF Ctx
  <2>4. /\ e.op = c.op /\ e.args = c.args /\ e.cache = c.cache /\ e.ref = c.ref /\ e.io = c.io
        /\ e.asserts = c.asserts /\ e.sem = c.sem /\ e.esp = f /\ e.frames = c.frames
    BY <1>1 DEF Ctx
  <2> HIDE DEF e
  <2>5. Fit(e)
    BY <1>1, <1>4, <2>2, <2>3, <2>4 DEF Fit, Well, SemPtr
  <2>6. \A H \in Holds : Held(c, H, n) => Held(e, H, n)
    BY <2>4 DEF Held, Counted, Tally
  <2> QED
    BY <2>1, <2>4, <2>5, <2>6 DEF Good
<1>5. CASE ~c.op.keep
  <2> DEFINE t == SubSeq(c.sem[r], 1, to)
             f == [c.sem EXCEPT ![r] = t]
             e == [c EXCEPT !.sem = f]
  <2>1. d = e
    BY <1>5 DEF PopSem
  <2> HIDE DEF to
  <2>2. t \in Seq(BOOLEAN)
    <3> DEFINE s == c.sem[r]
    <3>1. s \in Seq(BOOLEAN) /\ to \in 0..Len(s)
      BY <1>2, <1>3
    <3> HIDE DEF s
    <3>2. SubSeq(s, 1, to) \in Seq(BOOLEAN)
      BY <3>1, StartType
    <3> QED
      BY <3>2 DEF s
  <2> HIDE DEF t
  <2>3. f \in [BOOLEAN -> Seq(BOOLEAN)]
    BY <1>2, <2>2
  <2> HIDE DEF f
  <2>4. e \in Ctx({c.io})
    BY <1>1, <2>3 DEF Ctx
  <2>5. /\ e.op = c.op /\ e.args = c.args /\ e.cache = c.cache /\ e.ref = c.ref /\ e.io = c.io
        /\ e.asserts = c.asserts /\ e.sem = f /\ e.frames = c.frames
    BY <1>1 DEF Ctx
  <2> HIDE DEF e
  <2>6. \A q \in BOOLEAN : SemPtr(e, q) <= Len(e.sem[q])
    <3>1. \A q \in BOOLEAN : Len(f[q]) \in Nat
      BY <2>3
    <3> QED
      BY <1>5, <2>5, <3>1 DEF SemPtr
  <2>7. Fit(e)
    BY <1>1, <2>4, <2>5, <2>6 DEF Fit, Well
  <2>8. \A H \in Holds : Held(c, H, n) => Held(e, H, n)
    BY <2>5 DEF Held, Counted, Tally
  <2> QED
    BY <2>1, <2>5, <2>7, <2>8 DEF Good
<1> QED
  BY <1>2, <1>4, <1>5

(* pop_ex: one more operand.                                               *)
LEMMA PopGood ==
    ASSUME NEW c, NEW n \in Nat, NEW k \in Nat, n <= 4, Good(c, n, k),
           NEW two \in BOOLEAN, NEW r \in BOOLEAN
    PROVE  Good(pop_ex(c, two, r), n + 1, k + 1)
<1> DEFINE w == IF two THEN 2 ELSE 1
           i == SemPtr(c, r)
           b == ~two /\ i > 0 /\ c.sem[r][i]
           d == PopSem(c, r, w)
           e == stack_cache_pop(d, two, r)
<1>1. pop_ex(c, two, r) = AddOperand(e, two, b)
  BY DEF pop_ex
<1>2. b \in BOOLEAN
  OBVIOUS
<1>3. w \in {1, 2}
  OBVIOUS
<1> HIDE DEF w, b
<1>4. Good(d, n, k)
  BY <1>3, PopSemGood
<1> HIDE DEF d
<1>5. d \in Ctx({d.io})
  BY <1>4, Typed DEF Good
<1>6. e \in Ctx({d.io}) /\ Takes(d, e, 4)
  BY <1>5, PopTakes
<1> HIDE DEF e
<1>7. Loaded(e, n + 1, k)
  BY <1>4, <1>6, TakesLoaded
<1> QED
  BY <1>1, <1>2, <1>7, AddOperandGood

(* The operands of a handler.                                              *)
LEMMA ArgType ==
    ASSUME NEW c, NEW n, NEW k \in Nat, Good(c, n, k), NEW i \in 1..k
    PROVE  /\ c.args[i] \in Operand /\ c.args[i].reg \in Regs /\ c.args[i].is_short \in BOOLEAN
           /\ c.args[i].bool \in BOOLEAN /\ Arg(c, i) \in Nat /\ i \in DOMAIN c.args
<1>1. c \in Ctx({c.io}) /\ c.args \in Seq(Operand) /\ Len(c.args) = k
  BY Typed, CtxParts DEF Good
<1>2. i \in DOMAIN c.args /\ c.args[i] \in Operand
  BY <1>1
<1>3. c.args[i].reg \in Regs /\ c.args[i].is_short \in BOOLEAN /\ c.args[i].bool \in BOOLEAN
  BY <1>2 DEF Operand
<1>4. Arg(c, i) \in Nat
  BY <1>1, <1>3, ValType DEF Arg
<1> QED
  BY <1>2, <1>3, <1>4

(* Tuples of one and of two elements.                                      *)
LEMMA Tuples ==
    ASSUME NEW S, NEW a \in S, NEW b \in S
    PROVE  <<a>> \in Seq(S) /\ <<a, b>> \in Seq(S)
OBVIOUS

(* What is known of pushed bytes.                                          *)
Learnt(x) == IF x.is_short THEN <<FALSE, FALSE>> ELSE <<x.bool>>

(* It is a list of Booleans.                                               *)
LEMMA LearntType ==
    ASSUME NEW x \in Operand
    PROVE  Learnt(x) \in Seq(BOOLEAN)
<1> DEFINE no == FALSE
           b == x.bool
<1>1. no \in BOOLEAN
  OBVIOUS
<1>2. b \in BOOLEAN
  BY DEF Operand
<1>3. Learnt(x) = <<no, no>> \/ Learnt(x) = <<b>>
  BY Zenon DEF Learnt
<1> HIDE DEF no, b
<1> QED
  BY <1>1, <1>2, <1>3, Tuples

(* More is known of a stack.                                               *)
LEMMA LearnGood ==
    ASSUME NEW c, NEW n, NEW k, Good(c, n, k), NEW r \in BOOLEAN, NEW t \in Seq(BOOLEAN), NEW d,
           d = [c EXCEPT !.sem[r] = @ \o t]
    PROVE  Good(d, n, k)
<1> DEFINE f == [c.sem EXCEPT ![r] = @ \o t]
<1>1. Fit(c) /\ c \in Ctx({c.io})
  BY Typed DEF Good
<1>2. c.sem \in [BOOLEAN -> Seq(BOOLEAN)] /\ c.esp \in [BOOLEAN -> Nat] /\ c.op.keep \in BOOLEAN
  BY <1>1, CtxParts, SemPtrType
<1>3. f \in [BOOLEAN -> Seq(BOOLEAN)] /\ \A q \in BOOLEAN : f[q] = IF q = r THEN c.sem[q] \o t ELSE c.sem[q]
  BY <1>2
<1>4. d = [c EXCEPT !.sem = f]
  OBVIOUS
<1>5. \A q \in BOOLEAN : Len(c.sem[q]) \in Nat /\ Len(f[q]) \in Nat /\ Len(c.sem[q]) <= Len(f[q])
  <2> HIDE DEF f
  <2> TAKE q \in BOOLEAN
  <2>1. c.sem[q] \in Seq(BOOLEAN) /\ Len(t) \in Nat
    BY <1>2
  <2>2. /\ Len(c.sem[q] \o t) = Len(c.sem[q]) + Len(t) /\ Len(c.sem[q]) \in Nat
        /\ Len(c.sem[q] \o t) \in Nat
    BY <2>1
  <2>3. CASE q = r
    <3>1. Len(f[q]) = Len(c.sem[q] \o t)
      BY <1>3, <2>3
    <3> QED
      BY <2>1, <2>2, <3>1
  <2>4. CASE q # r
    <3>1. Len(f[q]) = Len(c.sem[q])
      BY <1>3, <2>4
    <3> QED
      BY <2>1, <2>2, <3>1
  <2> QED
    BY <2>3, <2>4
<1> HIDE DEF f
<1>6. d \in Ctx({c.io})
  BY <1>1, <1>3, <1>4 DEF Ctx
<1>7. /\ d.op = c.op /\ d.args = c.args /\ d.cache = c.cache /\ d.ref = c.ref /\ d.io = c.io
      /\ d.asserts = c.asserts /\ d.sem = f /\ d.esp = c.esp /\ d.frames = c.frames
  BY <1>1, <1>4 DEF Ctx
<1>8. \A q \in BOOLEAN : SemPtr(d, q) <= Len(d.sem[q])
  <2> TAKE q \in BOOLEAN
  <2>1. CASE c.op.keep
    <3>1. c.esp[q] <= Len(c.sem[q]) /\ c.esp[q] \in Nat
      BY <1>1, <1>2, <2>1 DEF Fit, SemPtr
    <3> QED
      BY <1>5, <1>7, <2>1, <3>1 DEF SemPtr
  <2>2. CASE ~c.op.keep
    BY <1>5, <1>7, <2>2 DEF SemPtr
  <2> QED
    BY <1>2, <2>1, <2>2
<1>9. Fit(d)
  BY <1>1, <1>6, <1>7, <1>8 DEF Fit, Well
<1>10. \A H \in Holds : Held(c, H, n) => Held(d, H, n)
  BY <1>7 DEF Held, Counted, Tally
<1> QED
  BY <1>7, <1>9, <1>10 DEF Good

(* push_ex: the operand's register is in use, since the operand holds it.  *)
LEMMA PushGood ==
    ASSUME NEW c, NEW n, NEW k \in Nat, Good(c, n, k), NEW i \in 1..k, NEW r \in BOOLEAN
    PROVE  Good(push_ex(c, i, r), n, k)
<1> DEFINE x == c.args[i]
           msg == "Pushing operand with unused register"
           b == Assert_(c, c.ref[x.reg] > 0, msg)
           d == stack_cache_push(b, x, r)
           t == Learnt(x)
           e == [d EXCEPT !.sem[r] = @ \o t]
<1>1. push_ex(c, i, r) = e
  BY DEF push_ex, Learnt
<1>2. x \in Operand /\ x.reg \in Regs /\ i \in DOMAIN c.args
  BY ArgType
<1>3. Fit(c) /\ c \in Ctx({c.io}) /\ Len(c.args) = k
  BY Typed DEF Good
<1>4. c.ref \in [Regs -> Nat] /\ c.cache \in [BOOLEAN -> Seq(Cell)]
  BY <1>3, CtxParts
<1>5. ASSUME Enough PROVE c.ref[x.reg] > 0
  <2>1. PICK H \in Holds : Held(c, H, n)
    BY <1>5 DEF Good
  <2>2. H[x.reg] \in Nat /\ H[x.reg] # 0
    BY <1>2, <2>1 DEF Held, Holds
  <2> HIDE DEF x
  <2>3. c.ref[x.reg] = H[x.reg] + Count(c.cache[r], x.reg) + Count(c.cache[~r], x.reg)
    BY <1>2, <2>1 DEF Held, Counted, Tally
  <2>4. Count(c.cache[r], x.reg) \in Nat /\ Count(c.cache[~r], x.reg) \in Nat
    BY <1>3, CacheParts, CountNat
  <2> QED
    BY <2>2, <2>3, <2>4
<1>6. msg \in Messages
  BY DEF Messages
<1> HIDE DEF x, msg
<1>7. Good(b, n, k) /\ b \in Ctx({b.io})
  <2>1. CASE c.ref[x.reg] > 0
    <3>1. b = c
      BY <2>1 DEF Assert_
    <3> QED
      BY <1>3, <3>1
  <2>2. CASE ~(c.ref[x.reg] > 0)
    <3>1. b = [c EXCEPT !.asserts = @ \cup {msg}]
      BY <2>2 DEF Assert_
    <3> HIDE DEF b
    <3>2. /\ b \in Ctx({c.io}) /\ Kept(c, b) /\ b.reg = c.reg /\ b.cache = c.cache
          /\ b.ref = c.ref
      BY <1>3, <1>6, <3>1, AssertFails
    <3>3. b \in Ctx({b.io})
      BY <1>3, <3>2, Typed
    <3>4. Fit(b) /\ Len(b.args) = k
      BY <1>3, <3>2, <3>3 DEF Fit, Well, SemPtr, Kept
    <3>5. ~Enough
      BY <1>5, <2>2
    <3> QED
      BY <3>3, <3>4, <3>5 DEF Good
  <2> QED
    BY <2>1, <2>2
<1> HIDE DEF b
<1>8. d \in Ctx({b.io}) /\ Moved(b, d)
  <2>1. Well(b)
    BY <1>7 DEF Good, Fit
  <2> QED
    BY <1>2, <1>7, <2>1, PushFacts
<1> HIDE DEF d
<1>9. Good(d, n, k)
  <2>1. Fit(b) /\ Shifted(b, d)
    BY <1>7, <1>8, ShiftedIf DEF Good
  <2> QED
    BY <1>7, <1>8, <2>1, ShiftedGood
<1>10. t \in Seq(BOOLEAN)
  BY <1>2, LearntType
<1>11. e = [d EXCEPT !.sem[r] = @ \o t]
  OBVIOUS
<1> HIDE DEF e, t
<1>12. Good(e, n, k)
  BY <1>9, <1>10, <1>11, LearnGood
<1> QED
  BY <1>1, <1>12

(* The flags of the current opcode.                                        *)
LEMMA FlagsOf ==
    ASSUME NEW c, NEW n, NEW k, Good(c, n, k)
    PROVE  /\ c.op.two \in BOOLEAN /\ c.op.ret \in BOOLEAN /\ (~c.op.ret) \in BOOLEAN
           /\ c.op.keep \in BOOLEAN /\ c.in \in Nat /\ c.reg \in Regs /\ c.left \in BOOLEAN
           /\ c.base \in Bases
<1>1. /\ c.op \in AllOpcodes /\ c.in \in Nat /\ c.reg \in Regs /\ c.left \in BOOLEAN
      /\ c.base \in Bases
  BY Typed, CtxParts DEF Good
<1> QED
  BY <1>1, OpcodeFlags

(* Pushes of the current opcode.                                           *)
LEMMA PushesGood ==
    ASSUME NEW c, NEW n, NEW k \in Nat, Good(c, n, k), NEW i \in 1..k
    PROVE  Good(push(c, i), n, k)
<1> DEFINE r == c.op.ret
<1>1. r \in BOOLEAN /\ push(c, i) = push_ex(c, i, r)
  BY FlagsOf DEF push
<1> HIDE DEF r
<1> QED
  BY <1>1, PushGood

(* Pops of the current opcode.                                             *)
LEMMA PopsGood ==
    ASSUME NEW c, NEW n \in Nat, NEW k \in Nat, Good(c, n, k)
    PROVE  /\ n <= 4 => /\ Good(pop(c), n + 1, k + 1)
                        /\ Good(pop_byte(c), n + 1, k + 1)
                        /\ Good(pop_short(c), n + 1, k + 1)
<1>1. c.op.two \in BOOLEAN /\ c.op.ret \in BOOLEAN
  BY FlagsOf
<1>2. ASSUME n <= 4 PROVE \A two, r \in BOOLEAN : Good(pop_ex(c, two, r), n + 1, k + 1)
  BY <1>2, PopGood
<1>5. ASSUME n <= 4
      PROVE  Good(pop(c), n + 1, k + 1) /\ Good(pop_byte(c), n + 1, k + 1) /\ Good(pop_short(c), n + 1, k + 1)
  <2> DEFINE no == FALSE
             yes == TRUE
  <2>1. pop(c) = pop_ex(c, c.op.two, c.op.ret)
    BY DEF pop
  <2>2. pop_byte(c) = pop_ex(c, no, c.op.ret) /\ no \in BOOLEAN
    BY Zenon DEF pop_byte
  <2>3. pop_short(c) = pop_ex(c, yes, c.op.ret) /\ yes \in BOOLEAN
    BY Zenon DEF pop_short
  <2> HIDE DEF no, yes
  <2> QED
    BY <1>1, <1>2, <1>5, <2>1, <2>2, <2>3
<1> QED
  BY <1>5

(* A register is written, or R_MEM_BASE.                                   *)
LEMMA WriteGood ==
    ASSUME NEW c, NEW n, NEW k, Fit(c), NEW reg \in Regs, NEW v \in Int
    PROVE  /\ Write(c, reg, v).reg = c.reg
           /\ Good(c, n, k) => Good(Write(c, reg, v), n, k)
           /\ Loaded(c, n, k) => Loaded(Write(c, reg, v), n, k)
<1> DEFINE d == Write(c, reg, v)
<1>1. d \in Ctx({c.io}) /\ Alike(c, d)
  BY Typed, WriteFacts
<1> HIDE DEF d
<1>2. Shifted(c, d) /\ d.reg = c.reg
  BY <1>1, ShiftedIf DEF Alike
<1>3. (Good(c, n, k) => Good(d, n, k)) /\ (Loaded(c, n, k) => Loaded(d, n, k))
  BY <1>1, <1>2, ShiftedGood
<1> QED
  BY <1>2, <1>3 DEF d

(* R_MEM_BASE is set.                                                      *)
LEMMA SetBaseGood ==
    ASSUME NEW c, NEW n, NEW k, Fit(c), NEW to \in Bases
    PROVE  /\ Same(c, set_mem_base(c, to))
           /\ Good(c, n, k) => Good(set_mem_base(c, to), n, k)
           /\ Loaded(c, n, k) => Loaded(set_mem_base(c, to), n, k)
<1> DEFINE d == set_mem_base(c, to)
<1>1. d \in Ctx({c.io}) /\ Same(c, d)
  BY Typed, SetBaseFacts
<1> HIDE DEF d
<1>2. Shifted(c, d)
  BY <1>1, ShiftedIf, SameMoved
<1>3. (Good(c, n, k) => Good(d, n, k)) /\ (Loaded(c, n, k) => Loaded(d, n, k))
  BY <1>1, <1>2, ShiftedGood
<1> QED
  BY <1>1, <1>3 DEF d

(* A register is allocated.                                                *)
LEMMA AllocGood ==
    ASSUME NEW c, NEW n \in Nat, NEW k, n <= 5, Good(c, n, k)
    PROVE  Loaded(alloc_reg(c), n + 1, k)
<1> DEFINE d == alloc_reg(c)
<1>1. c \in Ctx({c.io})
  BY Typed DEF Good
<1>2. d \in Ctx({c.io}) /\ Takes(c, d, 5)
  BY <1>1, AllocTakes
<1> HIDE DEF d
<1>3. Loaded(d, n + 1, k)
  BY <1>2, TakesLoaded
<1> QED
  BY <1>3 DEF d

(* A result in a register of its own is one more operand.                  *)
LEMMA ResultGood ==
    ASSUME NEW c, NEW n \in Nat, NEW k \in Nat, n <= 5, Good(c, n, k), NEW v \in Int,
           NEW short \in BOOLEAN, NEW bool \in BOOLEAN
    PROVE  Good(Result(c, v, short, bool), n + 1, k + 1)
<1> DEFINE d == alloc_reg(c)
           e == Write(d, d.reg, v)
<1>1. Result(c, v, short, bool) = AddOperand(e, short, bool)
  BY DEF Result
<1>2. Loaded(d, n + 1, k)
  BY AllocGood
<1> HIDE DEF d
<1>3. Fit(d) /\ d.reg \in Regs
  BY <1>2, Typed, CtxParts DEF Loaded
<1>4. Loaded(e, n + 1, k)
  BY <1>2, <1>3, WriteGood
<1> HIDE DEF e
<1> QED
  BY <1>1, <1>4, AddOperandGood

(* An operand gets another value.                                          *)
LEMMA SetArgGood ==
    ASSUME NEW c, NEW n, NEW k \in Nat, Good(c, n, k), NEW i \in 1..k, NEW v \in Int
    PROVE  Good(SetArg(c, i, v), n, k)
<1> DEFINE reg == c.args[i].reg
<1>1. reg \in Regs
  BY ArgType
<1>2. SetArg(c, i, v) = Write(c, reg, v)
  BY DEF SetArg
<1> HIDE DEF reg
<1>3. Fit(c)
  BY DEF Good
<1> QED
  BY <1>1, <1>2, <1>3, WriteGood

-----------------------------------------------------------------------------
(* The two caches are written out.                                         *)
LEMMA ClearGood ==
    ASSUME NEW c, NEW n, NEW k, Good(c, n, k)
    PROVE  Good(clear_stack_caches(c), n, k)
<1> DEFINE d == clear_stack_caches(c)
<1>1. Fit(c) /\ c \in Ctx({c.io})
  BY Typed DEF Good
<1>2. d \in Ctx({c.io}) /\ Moved(c, d)
  BY <1>1, ClearCachesFacts
<1> HIDE DEF d
<1>3. Good(d, n, k)
  BY <1>1, <1>2, ShiftedIf, ShiftedGood
<1> QED
  BY <1>3 DEF d

(* The effect of an opcode.                                                *)
LEMMA IoGood ==
    ASSUME NEW c, NEW n, NEW k, Good(c, n, k), NEW x, NEW d, d = [c EXCEPT !.io = x]
    PROVE  Good(d, n, k)
<1>1. Fit(c) /\ c \in Ctx({c.io})
  BY Typed DEF Good
<1>2. d \in Ctx({d.io}) /\ Like(c, d)
  BY <1>1 DEF Ctx, Like
<1> QED
  BY <1>1, <1>2, LikeGood

(* The block is left, or not.                                              *)
LEMMA LeftGood ==
    ASSUME NEW c, NEW n, NEW k, Good(c, n, k), NEW x, NEW b \in BOOLEAN, NEW d, d = [c EXCEPT !.io = x, !.left = b]
    PROVE  Good(d, n, k)
<1>1. Fit(c) /\ c \in Ctx({c.io})
  BY Typed DEF Good
<1>2. d \in Ctx({d.io}) /\ Like(c, d)
  BY <1>1 DEF Ctx, Like
<1> QED
  BY <1>1, <1>2, LikeGood

(* The next opcode is translated in place.                                 *)
LEMMA InlineGood ==
    ASSUME NEW c, NEW n, NEW k, Good(c, n, k), NEW x, NEW i \in {"no", "run", "skip"}, NEW d, d = [c EXCEPT !.io = x, !.inline = i]
    PROVE  Good(d, n, k)
<1>1. Fit(c) /\ c \in Ctx({c.io})
  BY Typed DEF Good
<1>2. d \in Ctx({d.io}) /\ Like(c, d)
  BY <1>1 DEF Ctx, Like
<1> QED
  BY <1>1, <1>2, LikeGood

(* The jump is a call.                                                     *)
LEMMA CallingGood ==
    ASSUME NEW c, NEW n, NEW k, Good(c, n, k), NEW b \in BOOLEAN, NEW d, d = [c EXCEPT !.call = b]
    PROVE  Good(d, n, k)
<1>1. Fit(c) /\ c \in Ctx({c.io})
  BY Typed DEF Good
<1>2. d \in Ctx({d.io}) /\ Like(c, d)
  BY <1>1 DEF Ctx, Like
<1> QED
  BY <1>1, <1>2, LikeGood

(* Leave the block.                                                        *)
LEMMA LeaveGood ==
    ASSUME NEW c, NEW n, NEW k, Good(c, n, k), NEW target
    PROVE  Good(Leave(c, target), n, k)
<1> DEFINE d == clear_stack_caches(c)
           x == <<"jump", target>>
           yes == TRUE
<1>1. Leave(c, target) = [d EXCEPT !.io = x, !.left = yes]
  BY Zenon DEF Leave
<1>2. Good(d, n, k)
  BY ClearGood
<1>3. yes \in BOOLEAN
  OBVIOUS
<1> HIDE DEF d, x, yes
<1> QED
  BY <1>1, <1>2, <1>3, LeftGood

(* Branch around the next opcode.                                          *)
LEMMA SkipGood ==
    ASSUME NEW c, NEW n, NEW k, Good(c, n, k), NEW skipped
    PROVE  Good(Skip(c, skipped), n, k)
<1> DEFINE x == <<"jump", IF skipped THEN (Pc + 1) % (Base * Base) ELSE Pc>>
           i == IF skipped THEN "skip" ELSE "run"
<1>1. Skip(c, skipped) = [c EXCEPT !.io = x, !.inline = i]
  BY Zenon DEF Skip
<1>2. i \in {"no", "run", "skip"}
  OBVIOUS
<1> HIDE DEF x, i
<1> QED
  BY <1>1, <1>2, InlineGood

(* A jump, of either kind.                                                 *)
LEMMA JumpGood ==
    ASSUME NEW c, NEW n, NEW k, Good(c, n, k), NEW target
    PROVE  Good(jump(c, target), n, k)
<1> DEFINE v == Arg(c, target)
           b == v # 0
           u == (Signed(v) + Pc) % Word
           d == clear_stack_caches(c)
<1>1. jump(c, target) \in {Leave(c, v), Skip(d, b), Leave(c, u)}
  BY Zenon DEF jump
<1>2. Good(d, n, k)
  BY ClearGood
<1> HIDE DEF v, b, u, d
<1>3. Good(Leave(c, v), n, k) /\ Good(Leave(c, u), n, k)
  BY LeaveGood
<1>4. Good(Skip(d, b), n, k)
  BY <1>2, SkipGood
<1> QED
  BY <1>1, <1>3, <1>4

(* A conditional jump.                                                     *)
LEMMA ConditionalGood ==
    ASSUME NEW c, NEW n, NEW k, Good(c, n, k), NEW taken, Good(taken, n, k), NEW condition
    PROVE  Good(conditional_jump(c, condition, taken), n, k)
<1> DEFINE yes == TRUE
           d == Skip(taken, yes)
           e == clear_stack_caches(c)
<1>1. conditional_jump(c, condition, taken) \in {taken, d, e}
  BY Zenon DEF conditional_jump
<1> HIDE DEF yes
<1>2. Good(d, n, k)
  BY SkipGood
<1>3. Good(e, n, k)
  BY ClearGood
<1> QED
  BY <1>1, <1>2, <1>3

(* A call to a device helper.                                              *)
LEMMA DeviceCallGood ==
    ASSUME NEW c, NEW n, NEW k, Good(c, n, k), NEW io
    PROVE  Good(DeviceCall(c, io), n, k)
<1> DEFINE d == clear_stack_caches(c)
           x == Append(io, d.mem)
           to == "none"
           e == [d EXCEPT !.base = to, !.mem_base = to, !.io = x]
<1>1. DeviceCall(c, io) = e
  BY DEF DeviceCall, Call
<1>2. Good(d, n, k)
  BY ClearGood
<1>3. to \in Bases
  BY DEF Bases
<1> HIDE DEF d, x, to
<1>4. Fit(d) /\ d \in Ctx({d.io})
  BY <1>2, Typed DEF Good
<1>5. e \in Ctx({e.io}) /\ Like(d, e)
  BY <1>3, <1>4 DEF Ctx, Like
<1> HIDE DEF e
<1> QED
  BY <1>1, <1>2, <1>4, <1>5, LikeGood

(* Other widths of the operands, in the same registers.                    *)
LEMMA ArgsGood ==
    ASSUME NEW c, NEW n, NEW k \in Nat, Good(c, n, k), NEW t \in Seq(Operand), Len(t) = k,
           \A j \in 1..k : t[j].reg = c.args[j].reg, NEW d, d = [c EXCEPT !.args = t]
    PROVE  Good(d, n, k)
<1>1. Fit(c) /\ c \in Ctx({c.io}) /\ c.args \in Seq(Operand) /\ Len(c.args) = k
  BY Typed, CtxParts DEF Good
<1>2. d \in Ctx({c.io}) /\ d.io = c.io
  BY <1>1 DEF Ctx
<1>3. /\ d.op = c.op /\ d.args = t /\ d.cache = c.cache /\ d.ref = c.ref
      /\ d.asserts = c.asserts /\ d.sem = c.sem /\ d.esp = c.esp /\ d.frames = c.frames
  BY <1>1 DEF Ctx
<1>4. Fit(d)
  BY <1>1, <1>2, <1>3 DEF Fit, Well, SemPtr
<1>5. ASSUME NEW H \in Holds, Held(c, H, n) PROVE Held(d, H, n)
  <2>1. Counted(d, H) /\ Few(H, n)
    BY <1>3, <1>5 DEF Held, Counted, Tally
  <2>2. DOMAIN t = 1..k /\ DOMAIN c.args = 1..k
    BY <1>1
  <2> QED
    BY <1>3, <1>5, <2>1, <2>2 DEF Held
<1> QED
  BY <1>3, <1>4, <1>5 DEF Good

(* The operand's width or kind changes.                                    *)
LEMMA ArgGood ==
    ASSUME NEW c, NEW n, NEW k \in Nat, Good(c, n, k), NEW i \in 1..k, NEW b \in BOOLEAN
    PROVE  Good([c EXCEPT !.args[i].is_short = b], n, k) /\ Good([c EXCEPT !.args[i].bool = b], n, k)
<1> DEFINE s == [c.args EXCEPT ![i].is_short = b]
           t == [c.args EXCEPT ![i].bool = b]
<1>1. c.args \in Seq(Operand) /\ Len(c.args) = k
  BY Typed, CtxParts DEF Good
<1>2. c.args[i] \in Operand
  BY <1>1
<1>3. s \in Seq(Operand) /\ Len(s) = k /\ \A j \in 1..k : s[j].reg = c.args[j].reg
  <2> DEFINE x == [c.args[i] EXCEPT !.is_short = b]
  <2>1. x \in Operand /\ x.reg = c.args[i].reg
    BY <1>2 DEF Operand
  <2>2. s = [c.args EXCEPT ![i] = x]
    OBVIOUS
  <2> HIDE DEF x, s
  <2> QED
    BY <1>1, <2>1, <2>2
<1>4. t \in Seq(Operand) /\ Len(t) = k /\ \A j \in 1..k : t[j].reg = c.args[j].reg
  <2> DEFINE x == [c.args[i] EXCEPT !.bool = b]
  <2>1. x \in Operand /\ x.reg = c.args[i].reg
    BY <1>2 DEF Operand
  <2>2. t = [c.args EXCEPT ![i] = x]
    OBVIOUS
  <2> HIDE DEF x, t
  <2> QED
    BY <1>1, <2>1, <2>2
<1> DEFINE d == [c EXCEPT !.args = s]
           e == [c EXCEPT !.args = t]
<1>5. d = [c EXCEPT !.args[i].is_short = b] /\ e = [c EXCEPT !.args[i].bool = b]
  OBVIOUS
<1>6. d = [c EXCEPT !.args = s] /\ e = [c EXCEPT !.args = t]
  OBVIOUS
<1> HIDE DEF s, t, d, e
<1>7. Good(d, n, k) /\ Good(e, n, k)
  BY <1>3, <1>4, <1>6, ArgsGood
<1> QED
  BY <1>5, <1>7

(* An offset becomes an address.                                           *)
LEMMA RelocateGood ==
    ASSUME NEW c, NEW n, NEW k \in Nat, Good(c, n, k), NEW i \in 1..k
    PROVE  Good(Relocate(c, i), n, k)
<1> DEFINE v == Signed(Arg(c, i)) + Pc
           d == SetArg(c, i, v)
           yes == TRUE
<1>1. Arg(c, i) \in Nat
  BY ArgType
<1>2. v \in Int
  BY <1>1, WordIs, PcAssumption DEF Signed
<1>3. Relocate(c, i) = [d EXCEPT !.args[i].is_short = yes] /\ yes \in BOOLEAN
  BY Zenon DEF Relocate
<1> HIDE DEF v
<1>4. Good(d, n, k)
  BY <1>2, SetArgGood
<1> HIDE DEF d, yes
<1>5. Good([d EXCEPT !.args[i].is_short = yes], n, k)
  BY <1>3, <1>4, ArgGood, Zenon
<1> QED
  BY <1>3, <1>5, Zenon

(* A value is read into a fresh register.                                  *)
LEMMA LoadGood ==
    ASSUME NEW c, NEW n \in Nat, NEW k \in Nat, n <= 5, Good(c, n, k), NEW i
    PROVE  Good(load(c, i), n + 1, k + 1)
<1> DEFINE to == "memory"
           no == FALSE
           a == alloc_reg(c)
           d == set_mem_base(a, to)
           e == Write(d, d.reg, d.in)
           f == AddOperand(e, d.op.two, no)
           x == Access(d, "load", i)
           g == [f EXCEPT !.io = x]
<1>1. load(c, i) = g
  BY Zenon DEF load, Fetch
<1>2. to \in Bases /\ no \in BOOLEAN
  BY DEF Bases
<1>3. Loaded(a, n + 1, k)
  BY AllocGood
<1> HIDE DEF to, no, a, x
<1>4. Fit(a)
  BY <1>3 DEF Loaded
<1>5. Loaded(d, n + 1, k)
  BY <1>2, <1>3, <1>4, SetBaseGood
<1> HIDE DEF d
<1>6. Fit(d) /\ d.reg \in Regs /\ d.in \in Int /\ d.op.two \in BOOLEAN
  <2>1. Fit(d)
    BY <1>5 DEF Loaded
  <2>2. d.reg \in Regs /\ d.in \in Nat /\ d.op \in AllOpcodes
    BY <2>1, Typed, CtxParts
  <2> QED
    BY <2>1, <2>2, OpcodeFlags
<1>7. Loaded(e, n + 1, k)
  BY <1>5, <1>6, WriteGood
<1> HIDE DEF e
<1>8. Good(f, n + 1, k + 1)
  BY <1>2, <1>6, <1>7, AddOperandGood
<1>9. g = [f EXCEPT !.io = x]
  OBVIOUS
<1> HIDE DEF f, g
<1>10. Good(g, n + 1, k + 1)
  BY <1>8, <1>9, IoGood
<1> QED
  BY <1>1, <1>10

(* A value is written to memory.                                           *)
LEMMA StoreGood ==
    ASSUME NEW c, NEW n, NEW k, Good(c, n, k), NEW i, NEW j
    PROVE  Good(store(c, i, j), n, k)
<1> DEFINE to == "memory"
           d == set_mem_base(c, to)
           x == Append(Access(d, "store", i), Bytes(Arg(d, j), d.args[j].is_short))
           e == [d EXCEPT !.io = x]
<1>1. store(c, i, j) = e
  BY Zenon DEF store
<1>2. to \in Bases /\ Fit(c)
  BY DEF Bases, Good
<1> HIDE DEF to, x
<1>3. Good(d, n, k)
  BY <1>2, SetBaseGood
<1>4. e = [d EXCEPT !.io = x]
  OBVIOUS
<1> HIDE DEF d, e
<1> QED
  BY <1>1, <1>3, <1>4, IoGood

(* The literal after the opcode is read into a fresh register.             *)
LEMMA ImmediateGood ==
    ASSUME NEW c, NEW n \in Nat, NEW k \in Nat, n <= 5, Good(c, n, k)
    PROVE  Good(immediate(c), n + 1, k + 1)
<1> DEFINE to == "memory"
           no == FALSE
           a == alloc_reg(c)
           d == set_mem_base(a, to)
           v == IF d.base = "memory" THEN d.in ELSE 0
           e == Write(d, d.reg, v)
           f == AddOperand(e, d.op.two, no)
<1>1. immediate(c) = f
  BY Zenon DEF immediate, ReadRom
<1>2. to \in Bases /\ no \in BOOLEAN
  BY DEF Bases
<1>3. Loaded(a, n + 1, k)
  BY AllocGood
<1> HIDE DEF to, no, a
<1>4. Fit(a)
  BY <1>3 DEF Loaded
<1>5. Loaded(d, n + 1, k)
  BY <1>2, <1>3, <1>4, SetBaseGood
<1> HIDE DEF d
<1>6. Fit(d) /\ d.reg \in Regs /\ d.in \in Int /\ d.op.two \in BOOLEAN
  <2>1. Fit(d)
    BY <1>5 DEF Loaded
  <2>2. d.reg \in Regs /\ d.in \in Nat /\ d.op \in AllOpcodes
    BY <2>1, Typed, CtxParts
  <2> QED
    BY <2>1, <2>2, OpcodeFlags
<1>7. v \in Int
  BY <1>6
<1> HIDE DEF v
<1>8. Loaded(e, n + 1, k)
  BY <1>5, <1>6, <1>7, WriteGood
<1> HIDE DEF e
<1> QED
  BY <1>1, <1>2, <1>6, <1>8, AddOperandGood

-----------------------------------------------------------------------------
(* What is left of this after the handler: the reference counts are those  *)
(* of the cells and of the registers it held.                              *)
Sound(c) == Fit(c) /\ (Enough => \E H \in Holds : Counted(c, H))

(* An operand less or more does not matter then.                           *)
LEMMA GoodSound ==
    ASSUME NEW c, NEW n, NEW k, Good(c, n, k)
    PROVE  Sound(c)
BY DEF Good, Sound, Held

(* One, two and three operands: keep mode holds two registers before them. *)
LEMMA Operands ==
    ASSUME NEW c, Good(c, 2, 0)
    PROVE  /\ Good(pop(c), 3, 1) /\ Good(pop_byte(c), 3, 1) /\ Good(pop_short(c), 3, 1)
           /\ Good(pop(pop(c)), 4, 2) /\ Good(pop(pop_byte(c)), 4, 2)
           /\ Good(pop(pop_short(c)), 4, 2) /\ Good(pop_byte(pop(c)), 4, 2)
           /\ Good(pop(pop(pop(c))), 5, 3)
<1>1. Good(pop(c), 3, 1) /\ Good(pop_byte(c), 3, 1) /\ Good(pop_short(c), 3, 1)
  BY PopsGood
<1>2. /\ Good(pop(pop(c)), 4, 2) /\ Good(pop(pop_byte(c)), 4, 2)
      /\ Good(pop(pop_short(c)), 4, 2) /\ Good(pop_byte(pop(c)), 4, 2)
  BY <1>1, PopsGood
<1>3. Good(pop(pop(pop(c))), 5, 3)
  BY <1>2, PopsGood
<1> QED
  BY <1>1, <1>2, <1>3

(* A result in a register of its own is pushed.                            *)
LEMMA PushResult ==
    ASSUME NEW d, Good(d, 4, 2), NEW v \in Int, NEW short \in BOOLEAN, NEW bool \in BOOLEAN
    PROVE  Sound(push(Result(d, v, short, bool), 3))
<1> DEFINE e == Result(d, v, short, bool)
<1>1. Good(e, 5, 3)
  BY ResultGood
<1> HIDE DEF e
<1>2. Good(push(e, 3), 5, 3)
  BY <1>1, PushesGood
<1>3. Sound(push(e, 3))
  BY <1>2, GoodSound
<1> QED
  BY <1>3 DEF e

(* The outcome of a comparison is a number.                                *)
LEMMA FlagType ==
    ASSUME NEW p
    PROVE  Flag(p) \in Int
BY WordIs DEF Flag

(* So is a result cut to the width of the opcode.                          *)
LEMMA WrapType ==
    ASSUME NEW c, NEW v \in Int
    PROVE  wrap_around(c, v) \in Int
<1> DEFINE m == IF c.op.two THEN Base * Base ELSE Base
<1>1. m \in Nat \ {0}
  BY WordIs
<1>2. wrap_around(c, v) = v % m
  BY DEF wrap_around
<1> HIDE DEF m
<1> QED
  BY <1>1, <1>2

(* EQU: the result is a comparison's.                                        *)
LEMMA EQUSound ==
    ASSUME NEW c, Good(c, 2, 0)
    PROVE  Sound(EQU(c))
<1> DEFINE d == pop(pop(c))
           p == Arg(d, 2) = Arg(d, 1)
           v == Flag(p)
           no == FALSE
           yes == TRUE
<1>1. EQU(c) = push(Result(d, v, no, yes), 3)
  BY Zenon DEF EQU, Compare
<1>2. Good(d, 4, 2) /\ no \in BOOLEAN /\ yes \in BOOLEAN
  BY Operands
<1> HIDE DEF d, p, no, yes
<1>3. v \in Int
  BY FlagType
<1> HIDE DEF v
<1> QED
  BY <1>1, <1>2, <1>3, PushResult

(* NEQ: the result is a comparison's.                                        *)
LEMMA NEQSound ==
    ASSUME NEW c, Good(c, 2, 0)
    PROVE  Sound(NEQ(c))
<1> DEFINE d == pop(pop(c))
           p == Arg(d, 2) # Arg(d, 1)
           v == Flag(p)
           no == FALSE
           yes == TRUE
<1>1. NEQ(c) = push(Result(d, v, no, yes), 3)
  BY Zenon DEF NEQ, Compare
<1>2. Good(d, 4, 2) /\ no \in BOOLEAN /\ yes \in BOOLEAN
  BY Operands
<1> HIDE DEF d, p, no, yes
<1>3. v \in Int
  BY FlagType
<1> HIDE DEF v
<1> QED
  BY <1>1, <1>2, <1>3, PushResult

(* GTH: the result is a comparison's.                                        *)
LEMMA GTHSound ==
    ASSUME NEW c, Good(c, 2, 0)
    PROVE  Sound(GTH(c))
<1> DEFINE d == pop(pop(c))
           p == Arg(d, 2) > Arg(d, 1)
           v == Flag(p)
           no == FALSE
           yes == TRUE
<1>1. GTH(c) = push(Result(d, v, no, yes), 3)
  BY Zenon DEF GTH, Compare
<1>2. Good(d, 4, 2) /\ no \in BOOLEAN /\ yes \in BOOLEAN
  BY Operands
<1> HIDE DEF d, p, no, yes
<1>3. v \in Int
  BY FlagType
<1> HIDE DEF v
<1> QED
  BY <1>1, <1>2, <1>3, PushResult

(* LTH: the result is a comparison's.                                        *)
LEMMA LTHSound ==
    ASSUME NEW c, Good(c, 2, 0)
    PROVE  Sound(LTH(c))
<1> DEFINE d == pop(pop(c))
           p == Arg(d, 2) < Arg(d, 1)
           v == Flag(p)
           no == FALSE
           yes == TRUE
<1>1. LTH(c) = push(Result(d, v, no, yes), 3)
  BY Zenon DEF LTH, Compare
<1>2. Good(d, 4, 2) /\ no \in BOOLEAN /\ yes \in BOOLEAN
  BY Operands
<1> HIDE DEF d, p, no, yes
<1>3. v \in Int
  BY FlagType
<1> HIDE DEF v
<1> QED
  BY <1>1, <1>2, <1>3, PushResult

(* ADD: the result is a number of the opcode's width.                      *)
LEMMA ADDSound ==
    ASSUME NEW c, Good(c, 2, 0)
    PROVE  Sound(ADD(c))
<1> DEFINE d == pop(pop(c))
           x == Arg(d, 2)
           y == Arg(d, 1)
           v == wrap_around(c, x + y)
           two == d.op.two
           no == FALSE
<1>1. ADD(c) = push(Result(d, v, two, no), 3)
  BY Zenon DEF ADD, Arith
<1>2. Good(d, 4, 2) /\ no \in BOOLEAN
  BY Operands
<1> HIDE DEF d, no
<1>3. x \in Nat /\ y \in Nat /\ two \in BOOLEAN
  BY <1>2, ArgType, FlagsOf
<1> HIDE DEF x, y, two
<1>4. v \in Int
  <2>1. x + y \in Int
    BY <1>3
  <2> QED
    BY <2>1, WrapType
<1> HIDE DEF v
<1> QED
  BY <1>1, <1>2, <1>3, <1>4, PushResult

(* SUB: the result is a number of the opcode's width.                      *)
LEMMA SUBSound ==
    ASSUME NEW c, Good(c, 2, 0)
    PROVE  Sound(SUB(c))
<1> DEFINE d == pop(pop(c))
           x == Arg(d, 2)
           y == Arg(d, 1)
           v == wrap_around(c, x - y)
           two == d.op.two
           no == FALSE
<1>1. SUB(c) = push(Result(d, v, two, no), 3)
  BY Zenon DEF SUB, Arith
<1>2. Good(d, 4, 2) /\ no \in BOOLEAN
  BY Operands
<1> HIDE DEF d, no
<1>3. x \in Nat /\ y \in Nat /\ two \in BOOLEAN
  BY <1>2, ArgType, FlagsOf
<1> HIDE DEF x, y, two
<1>4. v \in Int
  <2>1. x - y \in Int
    BY <1>3
  <2> QED
    BY <2>1, WrapType
<1> HIDE DEF v
<1> QED
  BY <1>1, <1>2, <1>3, <1>4, PushResult

(* MUL: the result is a number of the opcode's width.                      *)
LEMMA MULSound ==
    ASSUME NEW c, Good(c, 2, 0)
    PROVE  Sound(MUL(c))
<1> DEFINE d == pop(pop(c))
           x == Arg(d, 2)
           y == Arg(d, 1)
           v == wrap_around(c, x * y)
           two == d.op.two
           no == FALSE
<1>1. MUL(c) = push(Result(d, v, two, no), 3)
  BY Zenon DEF MUL, Arith
<1>2. Good(d, 4, 2) /\ no \in BOOLEAN
  BY Operands
<1> HIDE DEF d, no
<1>3. x \in Nat /\ y \in Nat /\ two \in BOOLEAN
  BY <1>2, ArgType, FlagsOf
<1> HIDE DEF x, y, two
<1>4. v \in Int
  <2>1. x * y \in Int
    BY <1>3
  <2> QED
    BY <2>1, WrapType
<1> HIDE DEF v
<1> QED
  BY <1>1, <1>2, <1>3, <1>4, PushResult

(* DIV: the result is a number of the opcode's width.                      *)
LEMMA DIVSound ==
    ASSUME NEW c, Good(c, 2, 0)
    PROVE  Sound(DIV(c))
<1> DEFINE d == pop(pop(c))
           x == Arg(d, 2)
           y == Arg(d, 1)
           v == IF y = 0 THEN 0 ELSE x \div y
           two == d.op.two
           no == FALSE
<1>1. DIV(c) = push(Result(d, v, two, no), 3)
  BY Zenon DEF DIV, Arith
<1>2. Good(d, 4, 2) /\ no \in BOOLEAN
  BY Operands
<1> HIDE DEF d, no
<1>3. x \in Nat /\ y \in Nat /\ two \in BOOLEAN
  BY <1>2, ArgType, FlagsOf
<1> HIDE DEF x, y, two
<1>4. v \in Int
  BY <1>3
<1> HIDE DEF v
<1> QED
  BY <1>1, <1>2, <1>3, <1>4, PushResult

(* AND: the result is a number of the opcode's width.                      *)
LEMMA ANDSound ==
    ASSUME NEW c, Good(c, 2, 0)
    PROVE  Sound(AND(c))
<1> DEFINE d == pop(pop(c))
           x == Arg(d, 2)
           y == Arg(d, 1)
           v == Bitwise2(BitAnd, x, y)
           two == d.op.two
           no == FALSE
<1>1. AND(c) = push(Result(d, v, two, no), 3)
  BY Zenon DEF AND, Arith
<1>2. Good(d, 4, 2) /\ no \in BOOLEAN
  BY Operands
<1> HIDE DEF d, no
<1>3. x \in Nat /\ y \in Nat /\ two \in BOOLEAN
  BY <1>2, ArgType, FlagsOf
<1> HIDE DEF x, y, two
<1>4. v \in Int
  BY <1>3, BitwiseInt, BitOpsType
<1> HIDE DEF v
<1> QED
  BY <1>1, <1>2, <1>3, <1>4, PushResult

(* ORA: the result is a number of the opcode's width.                      *)
LEMMA ORASound ==
    ASSUME NEW c, Good(c, 2, 0)
    PROVE  Sound(ORA(c))
<1> DEFINE d == pop(pop(c))
           x == Arg(d, 2)
           y == Arg(d, 1)
           v == Bitwise2(BitOr, x, y)
           two == d.op.two
           no == FALSE
<1>1. ORA(c) = push(Result(d, v, two, no), 3)
  BY Zenon DEF ORA, Arith
<1>2. Good(d, 4, 2) /\ no \in BOOLEAN
  BY Operands
<1> HIDE DEF d, no
<1>3. x \in Nat /\ y \in Nat /\ two \in BOOLEAN
  BY <1>2, ArgType, FlagsOf
<1> HIDE DEF x, y, two
<1>4. v \in Int
  BY <1>3, BitwiseInt, BitOpsType
<1> HIDE DEF v
<1> QED
  BY <1>1, <1>2, <1>3, <1>4, PushResult

(* EOR: the result is a number of the opcode's width.                      *)
LEMMA EORSound ==
    ASSUME NEW c, Good(c, 2, 0)
    PROVE  Sound(EOR(c))
<1> DEFINE d == pop(pop(c))
           x == Arg(d, 2)
           y == Arg(d, 1)
           v == Bitwise2(BitXor, x, y)
           two == d.op.two
           no == FALSE
<1>1. EOR(c) = push(Result(d, v, two, no), 3)
  BY Zenon DEF EOR, Arith
<1>2. Good(d, 4, 2) /\ no \in BOOLEAN
  BY Operands
<1> HIDE DEF d, no
<1>3. x \in Nat /\ y \in Nat /\ two \in BOOLEAN
  BY <1>2, ArgType, FlagsOf
<1> HIDE DEF x, y, two
<1>4. v \in Int
  BY <1>3, BitwiseInt, BitOpsType
<1> HIDE DEF v
<1> QED
  BY <1>1, <1>2, <1>3, <1>4, PushResult

(* SFT: the result is a number of the opcode's width.                      *)
LEMMA SFTSound ==
    ASSUME NEW c, Good(c, 2, 0)
    PROVE  Sound(SFT(c))
<1> DEFINE d == pop(pop_byte(c))
           x == Arg(d, 2)
           y == Arg(d, 1)
           v == wrap_around(c, (x \div 2 ^ (y % Nibble)) * 2 ^ (y \div Nibble))
           two == d.op.two
           no == FALSE
<1>1. SFT(c) = push(Result(d, v, two, no), 3)
  BY Zenon DEF SFT, Arith
<1>2. Good(d, 4, 2) /\ no \in BOOLEAN
  BY Operands
<1> HIDE DEF d, no
<1>3. x \in Nat /\ y \in Nat /\ two \in BOOLEAN
  BY <1>2, ArgType, FlagsOf
<1> HIDE DEF x, y, two
<1>4. v \in Int
  <2> DEFINE a == 2 ^ (y % Nibble)
             b == 2 ^ (y \div Nibble)
  <2>1. y % Nibble \in Nat /\ y \div Nibble \in Nat
    BY <1>3, BaseAssumption
  <2>2. a \in Nat \ {0} /\ b \in Nat \ {0}
    BY <2>1, PowerPositive
  <2> HIDE DEF a, b
  <2>3. (x \div a) * b \in Int
    BY <1>3, <2>2
  <2>4. wrap_around(c, (x \div a) * b) \in Int
    BY <2>3, WrapType
  <2> QED
    BY <2>4 DEF a, b
<1> HIDE DEF v
<1> QED
  BY <1>1, <1>2, <1>3, <1>4, PushResult

(* INC: in the operand's own register.                                     *)
LEMMA INCSound ==
    ASSUME NEW c, Good(c, 2, 0)
    PROVE  Sound(INC(c))
<1> DEFINE d == pop(c)
           v == wrap_around(c, Arg(d, 1) + 1)
           e == SetArg(d, 1, v)
           no == FALSE
           f == [e EXCEPT !.args[1].bool = no]
<1>1. INC(c) = push(f, 1)
  BY Zenon DEF INC
<1>2. Good(d, 3, 1) /\ no \in BOOLEAN /\ 1 \in 1..1
  BY Operands
<1> HIDE DEF d, no
<1>3. v \in Int
  <2>1. Arg(d, 1) + 1 \in Int
    BY <1>2, ArgType
  <2> QED
    BY <2>1, WrapType
<1> HIDE DEF v
<1>4. Good(e, 3, 1)
  BY <1>2, <1>3, SetArgGood
<1> HIDE DEF e
<1>5. Good(f, 3, 1)
  BY <1>2, <1>4, ArgGood
<1> HIDE DEF f
<1>6. Good(push(f, 1), 3, 1)
  BY <1>2, <1>5, PushesGood
<1> QED
  BY <1>1, <1>6, GoodSound

(* POP gives up no register, in keep mode it does nothing at all.          *)
LEMMA POPGood ==
    ASSUME NEW c, NEW n, NEW k, Good(c, n, k)
    PROVE  Good(POP(c), n, k)
<1> DEFINE r == c.op.ret
           two == c.op.two
           w == IF two THEN 2 ELSE 1
           d == PopSem(c, r, w)
           e == stack_cache_discard(d, two, r)
<1>1. POP(c) \in {c, e}
  BY DEF POP
<1>2. r \in BOOLEAN /\ two \in BOOLEAN
  BY FlagsOf
<1>3. w \in {1, 2}
  OBVIOUS
<1> HIDE DEF r, two, w
<1>4. Good(d, n, k)
  BY <1>2, <1>3, PopSemGood
<1> HIDE DEF d
<1>5. Fit(d) /\ d \in Ctx({d.io})
  BY <1>4, Typed DEF Good
<1>6. e \in Ctx({d.io}) /\ Shifted(d, e)
  BY <1>2, <1>5, DiscardFacts
<1> HIDE DEF e
<1>7. Good(e, n, k)
  BY <1>4, <1>5, <1>6, ShiftedGood
<1> QED
  BY <1>1, <1>7

(* The opcodes that only move operands.                                    *)
LEMMA StackSound ==
    ASSUME NEW c, Good(c, 2, 0)
    PROVE  /\ Sound(POP(c)) /\ Sound(NIP(c)) /\ Sound(SWP(c)) /\ Sound(ROT(c))
           /\ Sound(DUP(c)) /\ Sound(OVR(c)) /\ Sound(STH(c))
<1> DEFINE p == pop(c)
           q == pop(p)
           s == pop(q)
<1>1. Good(p, 3, 1) /\ Good(q, 4, 2) /\ Good(s, 5, 3)
  BY Operands
<1>a. /\ NIP(c) = push(POP(p), 1) /\ SWP(c) = push(push(q, 1), 2)
      /\ ROT(c) = push(push(push(s, 2), 1), 3) /\ DUP(c) = push(push(p, 1), 1)
      /\ OVR(c) = push(push(push(q, 2), 1), 2) /\ STH(c) = push_ex(p, 1, ~c.op.ret)
  BY DEF NIP, SWP, ROT, DUP, OVR, STH
<1> HIDE DEF p, q, s
<1>2. Sound(POP(c))
  BY POPGood, GoodSound
<1>3. Good(push(POP(p), 1), 3, 1)
  <2>1. Good(POP(p), 3, 1)
    BY <1>1, POPGood
  <2> QED
    BY <2>1, PushesGood
<1>4. Good(push(push(p, 1), 1), 3, 1)
  BY <1>1, PushesGood
<1>5. Good(push(q, 1), 4, 2) /\ Good(push(q, 2), 4, 2)
  BY <1>1, PushesGood
<1>6. Good(push(push(q, 1), 2), 4, 2) /\ Good(push(push(q, 2), 1), 4, 2)
  BY <1>5, PushesGood
<1>7. Good(push(push(push(q, 2), 1), 2), 4, 2)
  BY <1>6, PushesGood
<1>8. Good(push(s, 2), 5, 3)
  BY <1>1, PushesGood
<1>9. Good(push(push(s, 2), 1), 5, 3)
  BY <1>8, PushesGood
<1>10. Good(push(push(push(s, 2), 1), 3), 5, 3)
  BY <1>9, PushesGood
<1>11. Good(push_ex(p, 1, ~c.op.ret), 3, 1)
  <2> DEFINE r == ~c.op.ret
  <2>1. r \in BOOLEAN
    BY FlagsOf
  <2> HIDE DEF r
  <2>2. Good(push_ex(p, 1, r), 3, 1)
    BY <1>1, <2>1, PushGood
  <2> QED
    BY <2>2 DEF r
<1> QED
  BY <1>a, <1>2, <1>3, <1>4, <1>6, <1>7, <1>10, <1>11, GoodSound

(* A return address is pushed.                                             *)
LEMMA PushPcGood ==
    ASSUME NEW c, NEW n \in Nat, NEW k \in Nat, n <= 5, Good(c, n, k), NEW r \in BOOLEAN
    PROVE  Good(PushPc(c, r), n + 1, k + 1)
<1> DEFINE yes == TRUE
           no == FALSE
           d == Result(c, Pc, yes, no)
           i == Len(c.args) + 1
<1>1. PushPc(c, r) = push_ex(d, i, r)
  BY Zenon DEF PushPc
<1>2. i \in 1..(k + 1)
  BY DEF Good
<1>3. yes \in BOOLEAN /\ no \in BOOLEAN /\ Pc \in Int
  BY PcAssumption
<1> HIDE DEF yes, no, i
<1>4. Good(d, n + 1, k + 1)
  BY <1>3, ResultGood
<1> HIDE DEF d
<1> QED
  BY <1>1, <1>2, <1>4, PushGood

(* The jump is a call.                                                     *)
LEMMA CallGood ==
    ASSUME NEW c, NEW n, NEW k, Good(c, n, k)
    PROVE  Good(Calling(c), n, k)
<1> DEFINE b == c.left
           d == [c EXCEPT !.call = b]
<1>1. b \in BOOLEAN /\ Calling(c) = d /\ d = [c EXCEPT !.call = b]
  BY FlagsOf DEF Calling
<1> HIDE DEF b, d
<1> QED
  BY <1>1, CallingGood

(* The opcodes that jump.                                                  *)
LEMMA JumpSound ==
    ASSUME NEW c, Good(c, 2, 0)
    PROVE  /\ Sound(JMP(c)) /\ Sound(JCN(c)) /\ Sound(JSR(c))
           /\ Sound(JCI(c)) /\ Sound(JMI(c)) /\ Sound(JSI(c))
<1>1. Sound(JMP(c))
  <2> DEFINE d == pop(c)
  <2>1. Good(d, 3, 1) /\ JMP(c) = jump(d, 1)
    BY Operands DEF JMP
  <2> HIDE DEF d
  <2>2. Good(jump(d, 1), 3, 1)
    BY <2>1, JumpGood
  <2> QED
    BY <2>1, <2>2, GoodSound
<1>2. Sound(JCN(c))
  <2> DEFINE d == pop_byte(pop(c))
             e == jump(d, 1)
             f == conditional_jump(d, 2, e)
  <2>1. Good(d, 4, 2) /\ JCN(c) = f
    BY Operands DEF JCN
  <2> HIDE DEF d
  <2>2. Good(e, 4, 2)
    BY <2>1, JumpGood
  <2> HIDE DEF e
  <2>3. Good(f, 4, 2)
    BY <2>1, <2>2, ConditionalGood
  <2> HIDE DEF f
  <2> QED
    BY <2>1, <2>3, GoodSound
<1>3. Sound(JSR(c))
  <2> DEFINE r == ~c.op.ret
             d == pop(c)
             e == PushPc(d, r)
             f == jump(e, 1)
  <2>1. Good(d, 3, 1) /\ JSR(c) = Calling(f) /\ r \in BOOLEAN
    BY Operands, FlagsOf DEF JSR
  <2> HIDE DEF d, r
  <2>2. Good(e, 4, 2)
    BY <2>1, PushPcGood
  <2> HIDE DEF e
  <2>3. Good(f, 4, 2)
    BY <2>2, JumpGood
  <2> HIDE DEF f
  <2>4. Good(Calling(f), 4, 2)
    BY <2>3, CallGood
  <2> QED
    BY <2>1, <2>4, GoodSound
<1>4. Sound(JCI(c))
  <2> DEFINE d == pop_byte(c)
             x == c.in
             e == Leave(d, x)
             f == conditional_jump(d, 1, e)
  <2>1. Good(d, 3, 1) /\ JCI(c) = f
    BY Operands DEF JCI
  <2> HIDE DEF d, x
  <2>2. Good(e, 3, 1)
    BY <2>1, LeaveGood
  <2> HIDE DEF e
  <2>3. Good(f, 3, 1)
    BY <2>1, <2>2, ConditionalGood
  <2> HIDE DEF f
  <2> QED
    BY <2>1, <2>3, GoodSound
<1>5. Sound(JMI(c))
  <2> DEFINE x == c.in
             e == Leave(c, x)
  <2>1. JMI(c) = e
    BY DEF JMI
  <2> HIDE DEF x
  <2>2. Good(e, 2, 0)
    BY LeaveGood
  <2> HIDE DEF e
  <2> QED
    BY <2>1, <2>2, GoodSound
<1>6. Sound(JSI(c))
  <2> DEFINE yes == TRUE
             x == c.in
             d == PushPc(c, yes)
             e == Leave(d, x)
  <2>1. JSI(c) = Calling(e) /\ yes \in BOOLEAN
    BY Zenon DEF JSI
  <2> HIDE DEF yes, x
  <2>2. Good(d, 3, 1)
    BY <2>1, PushPcGood
  <2> HIDE DEF d
  <2>3. Good(e, 3, 1)
    BY <2>2, LeaveGood
  <2> HIDE DEF e
  <2>4. Good(Calling(e), 3, 1)
    BY <2>3, CallGood
  <2> QED
    BY <2>1, <2>4, GoodSound
<1> QED
  BY <1>1, <1>2, <1>3, <1>4, <1>5, <1>6

(* The opcodes that read or write memory.                                  *)
LEMMA MemorySound ==
    ASSUME NEW c, Good(c, 2, 0)
    PROVE  /\ Sound(LDZ(c)) /\ Sound(LDR(c)) /\ Sound(LDA(c))
           /\ Sound(STZ(c)) /\ Sound(STR(c)) /\ Sound(STA(c))
<1>1. Sound(LDZ(c))
  <2> DEFINE d == pop_byte(c)
             a == d
             e == load(a, 1)
  <2>1. Good(d, 3, 1) /\ LDZ(c) = push(e, 2)
    BY Operands DEF LDZ
  <2>2. Good(a, 3, 1)
    BY <2>1
  <2> HIDE DEF a
  <2>3. Good(e, 4, 2)
    BY <2>2, LoadGood
  <2> HIDE DEF e
  <2>4. Good(push(e, 2), 4, 2)
    BY <2>3, PushesGood
  <2> QED
    BY <2>1, <2>4, GoodSound
<1>2. Sound(LDR(c))
  <2> DEFINE d == pop_byte(c)
             a == Relocate(d, 1)
             e == load(a, 1)
  <2>1. Good(d, 3, 1) /\ LDR(c) = push(e, 2)
    BY Operands DEF LDR
  <2> HIDE DEF d
  <2>2. Good(a, 3, 1)
    BY <2>1, RelocateGood
  <2> HIDE DEF a
  <2>3. Good(e, 4, 2)
    BY <2>2, LoadGood
  <2> HIDE DEF e
  <2>4. Good(push(e, 2), 4, 2)
    BY <2>3, PushesGood
  <2> QED
    BY <2>1, <2>4, GoodSound
<1>3. Sound(LDA(c))
  <2> DEFINE d == pop_short(c)
             a == d
             e == load(a, 1)
  <2>1. Good(d, 3, 1) /\ LDA(c) = push(e, 2)
    BY Operands DEF LDA
  <2>2. Good(a, 3, 1)
    BY <2>1
  <2> HIDE DEF a
  <2>3. Good(e, 4, 2)
    BY <2>2, LoadGood
  <2> HIDE DEF e
  <2>4. Good(push(e, 2), 4, 2)
    BY <2>3, PushesGood
  <2> QED
    BY <2>1, <2>4, GoodSound
<1>4. Sound(STZ(c))
  <2> DEFINE d == pop(pop_byte(c))
             a == d
             e == store(a, 1, 2)
  <2>1. Good(d, 4, 2) /\ STZ(c) = e
    BY Operands DEF STZ
  <2>2. Good(a, 4, 2)
    BY <2>1
  <2> HIDE DEF a
  <2>3. Good(e, 4, 2)
    BY <2>2, StoreGood
  <2> HIDE DEF e
  <2> QED
    BY <2>1, <2>3, GoodSound
<1>5. Sound(STR(c))
  <2> DEFINE d == pop(pop_byte(c))
             a == Relocate(d, 1)
             e == store(a, 1, 2)
  <2>1. Good(d, 4, 2) /\ STR(c) = e
    BY Operands DEF STR
  <2> HIDE DEF d
  <2>2. Good(a, 4, 2)
    BY <2>1, RelocateGood
  <2> HIDE DEF a
  <2>3. Good(e, 4, 2)
    BY <2>2, StoreGood
  <2> HIDE DEF e
  <2> QED
    BY <2>1, <2>3, GoodSound
<1>6. Sound(STA(c))
  <2> DEFINE d == pop(pop_short(c))
             a == d
             e == store(a, 1, 2)
  <2>1. Good(d, 4, 2) /\ STA(c) = e
    BY Operands DEF STA
  <2>2. Good(a, 4, 2)
    BY <2>1
  <2> HIDE DEF a
  <2>3. Good(e, 4, 2)
    BY <2>2, StoreGood
  <2> HIDE DEF e
  <2> QED
    BY <2>1, <2>3, GoodSound
<1> QED
  BY <1>1, <1>2, <1>3, <1>4, <1>5, <1>6

(* The opcodes that leave native code for a device, or for good, and LIT.  *)
LEMMA OtherSound ==
    ASSUME NEW c, Good(c, 2, 0)
    PROVE  Sound(DEI(c)) /\ Sound(DEO(c)) /\ Sound(LIT(c)) /\ Sound(BRK(c))
<1>1. Sound(DEI(c))
  <2> DEFINE d == pop_byte(c)
             a == alloc_reg(d)
             no == FALSE
             two == c.op.two
             e == AddOperand(a, two, no)
             x == <<"dei", Arg(e, 1) % Base>>
             f == DeviceCall(e, x)
             v == e.in
             g == SetArg(f, 2, v)
  <2>1. DEI(c) = push(g, 2)
    BY Zenon DEF DEI, CallDei
  <2>2. Good(d, 3, 1) /\ no \in BOOLEAN /\ two \in BOOLEAN
    BY Operands, FlagsOf
  <2> HIDE DEF d, no, two
  <2>3. Loaded(a, 4, 1)
    BY <2>2, AllocGood
  <2> HIDE DEF a
  <2>4. Good(e, 4, 2)
    BY <2>2, <2>3, AddOperandGood
  <2> HIDE DEF e, x
  <2>5. Good(f, 4, 2)
    BY <2>4, DeviceCallGood
  <2>6. v \in Int
    BY <2>4, FlagsOf
  <2> HIDE DEF f, v
  <2>7. Good(g, 4, 2)
    BY <2>5, <2>6, SetArgGood
  <2> HIDE DEF g
  <2>8. Good(push(g, 2), 4, 2)
    BY <2>7, PushesGood
  <2> QED
    BY <2>1, <2>8, GoodSound
<1>2. Sound(DEO(c))
  <2> DEFINE d == pop(pop_byte(c))
             to == "device"
             e == set_mem_base(d, to)
             x == <<IF e.base = "device" THEN "deo" ELSE "stray", Arg(e, 1) % Base,
                    Bytes(Arg(e, 2), e.args[2].is_short)>>
             f == DeviceCall(e, x)
  <2>1. DEO(c) = f
    BY Zenon DEF DEO, CallDeo
  <2>2. Good(d, 4, 2) /\ to \in Bases
    BY Operands DEF Bases
  <2> HIDE DEF d, to
  <2>a. Fit(d)
    BY <2>2 DEF Good
  <2>3. Good(e, 4, 2)
    BY <2>2, <2>a, SetBaseGood
  <2> HIDE DEF e, x
  <2>4. Good(f, 4, 2)
    BY <2>3, DeviceCallGood
  <2> HIDE DEF f
  <2> QED
    BY <2>1, <2>4, GoodSound
<1>3. Sound(LIT(c))
  <2> DEFINE d == immediate(c)
  <2>1. LIT(c) = push(d, 1)
    BY DEF LIT
  <2>2. Good(d, 3, 1)
    BY ImmediateGood
  <2> HIDE DEF d
  <2>3. Good(push(d, 1), 3, 1)
    BY <2>2, PushesGood
  <2> QED
    BY <2>1, <2>3, GoodSound
<1>4. Sound(BRK(c))
  <2> DEFINE d == clear_stack_caches(c)
             x == <<"halt">>
             yes == TRUE
             e == [d EXCEPT !.io = x, !.left = yes]
  <2>1. BRK(c) = e
    BY Zenon DEF BRK
  <2>2. Good(d, 2, 0) /\ yes \in BOOLEAN /\ e = [d EXCEPT !.io = x, !.left = yes]
    BY ClearGood
  <2> HIDE DEF d, x, yes, e
  <2>3. Good(e, 2, 0)
    BY <2>2, LeftGood
  <2> QED
    BY <2>1, <2>3, GoodSound
<1> QED
  BY <1>1, <1>2, <1>3, <1>4

(* The handler of whatever opcode leaves the translator's counts sound.    *)
LEMMA DispatchSound ==
    ASSUME NEW c, Good(c, 2, 0)
    PROVE  Sound(dispatch(c))
<1>1. c.op \in AllOpcodes
  BY Typed, CtxParts DEF Good
<1>2. c.op.name \in ModalNames \cup {"LIT", "BRK", "JCI", "JMI", "JSI"}
  BY <1>1 DEF AllOpcodes
<1>3. CASE c.op.name = "BRK"
  <2>1. dispatch(c) = BRK(c)
    BY <1>3 DEF dispatch
  <2> QED
    BY <2>1, OtherSound
<1>4. CASE c.op.name = "INC"
  <2>1. dispatch(c) = INC(c)
    BY <1>4 DEF dispatch
  <2> QED
    BY <2>1, INCSound
<1>5. CASE c.op.name = "POP"
  <2>1. dispatch(c) = POP(c)
    BY <1>5 DEF dispatch
  <2> QED
    BY <2>1, StackSound
<1>6. CASE c.op.name = "NIP"
  <2>1. dispatch(c) = NIP(c)
    BY <1>6 DEF dispatch
  <2> QED
    BY <2>1, StackSound
<1>7. CASE c.op.name = "SWP"
  <2>1. dispatch(c) = SWP(c)
    BY <1>7 DEF dispatch
  <2> QED
    BY <2>1, StackSound
<1>8. CASE c.op.name = "ROT"
  <2>1. dispatch(c) = ROT(c)
    BY <1>8 DEF dispatch
  <2> QED
    BY <2>1, StackSound
<1>9. CASE c.op.name = "DUP"
  <2>1. dispatch(c) = DUP(c)
    BY <1>9 DEF dispatch
  <2> QED
    BY <2>1, StackSound
<1>10. CASE c.op.name = "OVR"
  <2>1. dispatch(c) = OVR(c)
    BY <1>10 DEF dispatch
  <2> QED
    BY <2>1, StackSound
<1>11. CASE c.op.name = "EQU"
  <2>1. dispatch(c) = EQU(c)
    BY <1>11 DEF dispatch
  <2> QED
    BY <2>1, EQUSound
<1>12. CASE c.op.name = "NEQ"
  <2>1. dispatch(c) = NEQ(c)
    BY <1>12 DEF dispatch
  <2> QED
    BY <2>1, NEQSound
<1>13. CASE c.op.name = "GTH"
  <2>1. dispatch(c) = GTH(c)
    BY <1>13 DEF dispatch
  <2> QED
    BY <2>1, GTHSound
<1>14. CASE c.op.name = "LTH"
  <2>1. dispatch(c) = LTH(c)
    BY <1>14 DEF dispatch
  <2> QED
    BY <2>1, LTHSound
<1>15. CASE c.op.name = "JMP"
  <2>1. dispatch(c) = JMP(c)
    BY <1>15 DEF dispatch
  <2> QED
    BY <2>1, JumpSound
<1>16. CASE c.op.name = "JCN"
  <2>1. dispatch(c) = JCN(c)
    BY <1>16 DEF dispatch
  <2> QED
    BY <2>1, JumpSound
<1>17. CASE c.op.name = "JSR"
  <2>1. dispatch(c) = JSR(c)
    BY <1>17 DEF dispatch
  <2> QED
    BY <2>1, JumpSound
<1>18. CASE c.op.name = "STH"
  <2>1. dispatch(c) = STH(c)
    BY <1>18 DEF dispatch
  <2> QED
    BY <2>1, StackSound
<1>19. CASE c.op.name = "LDZ"
  <2>1. dispatch(c) = LDZ(c)
    BY <1>19 DEF dispatch
  <2> QED
    BY <2>1, MemorySound
<1>20. CASE c.op.name = "STZ"
  <2>1. dispatch(c) = STZ(c)
    BY <1>20 DEF dispatch
  <2> QED
    BY <2>1, MemorySound
<1>21. CASE c.op.name = "LDR"
  <2>1. dispatch(c) = LDR(c)
    BY <1>21 DEF dispatch
  <2> QED
    BY <2>1, MemorySound
<1>22. CASE c.op.name = "STR"
  <2>1. dispatch(c) = STR(c)
    BY <1>22 DEF dispatch
  <2> QED
    BY <2>1, MemorySound
<1>23. CASE c.op.name = "LDA"
  <2>1. dispatch(c) = LDA(c)
    BY <1>23 DEF dispatch
  <2> QED
    BY <2>1, MemorySound
<1>24. CASE c.op.name = "STA"
  <2>1. dispatch(c) = STA(c)
    BY <1>24 DEF dispatch
  <2> QED
    BY <2>1, MemorySound
<1>25. CASE c.op.name = "DEI"
  <2>1. dispatch(c) = DEI(c)
    BY <1>25 DEF dispatch
  <2> QED
    BY <2>1, OtherSound
<1>26. CASE c.op.name = "DEO"
  <2>1. dispatch(c) = DEO(c)
    BY <1>26 DEF dispatch
  <2> QED
    BY <2>1, OtherSound
<1>27. CASE c.op.name = "ADD"
  <2>1. dispatch(c) = ADD(c)
    BY <1>27 DEF dispatch
  <2> QED
    BY <2>1, ADDSound
<1>28. CASE c.op.name = "SUB"
  <2>1. dispatch(c) = SUB(c)
    BY <1>28 DEF dispatch
  <2> QED
    BY <2>1, SUBSound
<1>29. CASE c.op.name = "MUL"
  <2>1. dispatch(c) = MUL(c)
    BY <1>29 DEF dispatch
  <2> QED
    BY <2>1, MULSound
<1>30. CASE c.op.name = "DIV"
  <2>1. dispatch(c) = DIV(c)
    BY <1>30 DEF dispatch
  <2> QED
    BY <2>1, DIVSound
<1>31. CASE c.op.name = "AND"
  <2>1. dispatch(c) = AND(c)
    BY <1>31 DEF dispatch
  <2> QED
    BY <2>1, ANDSound
<1>32. CASE c.op.name = "ORA"
  <2>1. dispatch(c) = ORA(c)
    BY <1>32 DEF dispatch
  <2> QED
    BY <2>1, ORASound
<1>33. CASE c.op.name = "EOR"
  <2>1. dispatch(c) = EOR(c)
    BY <1>33 DEF dispatch
  <2> QED
    BY <2>1, EORSound
<1>34. CASE c.op.name = "SFT"
  <2>1. dispatch(c) = SFT(c)
    BY <1>34 DEF dispatch
  <2> QED
    BY <2>1, SFTSound
<1>35. CASE c.op.name = "JCI"
  <2>1. dispatch(c) = JCI(c)
    BY <1>35 DEF dispatch
  <2> QED
    BY <2>1, JumpSound
<1>36. CASE c.op.name = "JMI"
  <2>1. dispatch(c) = JMI(c)
    BY <1>36 DEF dispatch
  <2> QED
    BY <2>1, JumpSound
<1>37. CASE c.op.name = "JSI"
  <2>1. dispatch(c) = JSI(c)
    BY <1>37 DEF dispatch
  <2> QED
    BY <2>1, JumpSound
<1>38. CASE c.op.name = "LIT"
  <2>1. dispatch(c) = LIT(c)
    BY <1>38 DEF dispatch
  <2> QED
    BY <2>1, OtherSound
<1> QED
  BY <1>2, <1>3, <1>4, <1>5, <1>6, <1>7, <1>8, <1>9, <1>10, <1>11, <1>12, <1>13, <1>14,
     <1>15, <1>16, <1>17, <1>18, <1>19, <1>20, <1>21, <1>22, <1>23, <1>24, <1>25,
     <1>26, <1>27, <1>28, <1>29, <1>30, <1>31, <1>32, <1>33, <1>34, <1>35, <1>36,
     <1>37, <1>38 DEF ModalNames

-----------------------------------------------------------------------------
(* Keep mode holds two registers from the start.                           *)
LEMMA ShadowGood ==
    ASSUME NEW c, Good(c, 0, 0)
    PROVE  Good(Shadow(c), 2, 0)
<1>1. c.op.keep \in BOOLEAN /\ c.op.ret \in BOOLEAN
  BY FlagsOf
<1>2. CASE ~c.op.keep
  <2>1. Shadow(c) = c
    BY <1>2 DEF Shadow
  <2>2. \A H \in Holds : Few(H, 0) => Few(H, 2)
    BY FewMore
  <2> QED
    BY <2>1, <2>2 DEF Good, Held
<1>3. CASE c.op.keep
  <2> DEFINE a == alloc_reg(c)
             b == alloc_reg(a)
             p == [r \in BOOLEAN |-> Len(b.mem[r])]
             q == [r \in BOOLEAN |-> Len(b.sem[r])]
             d == [b EXCEPT !.shadow = p, !.esp = q]
             r0 == c.op.ret
             e == stack_cache_flush(d, r0)
  <2>1. Shadow(c) = e
    BY <1>3 DEF Shadow, CopyPointers
  <2>2. Loaded(a, 1, 0)
    BY AllocGood
  <2> HIDE DEF a
  <2>3. Good(a, 1, 0)
    BY <2>2 DEF Loaded, Good
  <2>4. Loaded(b, 2, 0)
    BY <2>3, AllocGood
  <2> HIDE DEF b
  <2>5. Good(b, 2, 0) /\ Fit(b) /\ b \in Ctx({b.io})
    BY <2>4, Typed DEF Loaded, Good
  <2>6. b.mem \in [BOOLEAN -> Seq(Byte)] /\ b.sem \in [BOOLEAN -> Seq(BOOLEAN)]
    BY <2>5, CtxParts
  <2>7. p \in [BOOLEAN -> Nat] /\ q \in [BOOLEAN -> Nat] /\ \A r \in BOOLEAN : q[r] = Len(b.sem[r])
    BY <2>6
  <2> HIDE DEF p, q
  <2>8. d \in Ctx({b.io})
    BY <2>5, <2>7 DEF Ctx
  <2>9. /\ d.op = b.op /\ d.args = b.args /\ d.cache = b.cache /\ d.ref = b.ref /\ d.io = b.io
        /\ d.asserts = b.asserts /\ d.sem = b.sem /\ d.esp = q /\ d.frames = b.frames
    BY <2>5 DEF Ctx
  <2> HIDE DEF d
  <2>10. \A r \in BOOLEAN : SemPtr(d, r) <= Len(d.sem[r])
    <3>1. \A r \in BOOLEAN : SemPtr(d, r) = Len(b.sem[r]) /\ d.sem[r] = b.sem[r]
      BY <2>7, <2>9 DEF SemPtr
    <3>2. \A r \in BOOLEAN : Len(b.sem[r]) \in Nat
      BY <2>6
    <3> QED
      BY <3>1, <3>2
  <2>11. Fit(d)
    BY <2>5, <2>8, <2>9, <2>10 DEF Fit, Well
  <2>12. \A H \in Holds : Held(b, H, 2) => Held(d, H, 2)
    BY <2>9 DEF Held, Counted, Tally
  <2>13. Good(d, 2, 0)
    BY <2>5, <2>9, <2>11, <2>12 DEF Good
  <2>14. d \in Ctx({d.io}) /\ r0 \in BOOLEAN
    BY <1>1, <2>11, Typed
  <2> HIDE DEF r0
  <2>15. e \in Ctx({d.io}) /\ Moved(d, e)
    BY <2>14, FlushFacts
  <2> HIDE DEF e
  <2>16. Good(e, 2, 0)
    BY <2>11, <2>13, <2>15, ShiftedIf, ShiftedGood
  <2> QED
    BY <2>1, <2>16
<1> QED
  BY <1>1, <1>2, <1>3

(* The caches are written out.                                             *)
LEMMA ClearSound ==
    ASSUME NEW c, Sound(c)
    PROVE  Sound(clear_stack_caches(c))
<1> DEFINE d == clear_stack_caches(c)
<1>1. Fit(c) /\ c \in Ctx({c.io})
  BY Typed DEF Sound
<1>2. d \in Ctx({c.io}) /\ Moved(c, d)
  BY <1>1, ClearCachesFacts
<1> HIDE DEF d
<1>3. Shifted(c, d)
  BY <1>2, ShiftedIf
<1>4. Fit(d)
  BY <1>1, <1>2, <1>3, ShiftedGood
<1>5. \A H \in Holds : Counted(c, H) => Counted(d, H)
  BY <1>3 DEF Shifted
<1>6. Sound(d)
  BY <1>4, <1>5 DEF Sound
<1> QED
  BY <1>6 DEF d

(* An opcode that was translated in place ends with empty caches, and with *)
(* the machine as it was if it was skipped.                                *)
LEMMA JoinSound ==
    ASSUME TypeOK, NEW c, Sound(c)
    PROVE  Sound(Join(c))
<1> DEFINE d == clear_stack_caches(c)
           x == <<"next">>
           no == FALSE
           i == IF d.inline = "no" THEN "no" ELSE "skip"
           e == [d EXCEPT !.mem = mem, !.val = val, !.base = base, !.io = x, !.left = no, !.inline = i]
<1>1. Join(c) \in {c, d, e}
  BY Zenon DEF Join
<1>2. Sound(d)
  BY ClearSound
<1>3. no \in BOOLEAN /\ i \in {"no", "run", "skip"}
  OBVIOUS
<1> HIDE DEF d, x, no, i
<1>4. Fit(d) /\ d \in Ctx({d.io})
  BY <1>2, Typed DEF Sound
<1>5. mem \in [BOOLEAN -> Seq(Byte)] /\ val \in [Regs -> Value] /\ base \in Bases
  BY DEF TypeOK, Value, Bases
<1>6. e \in Ctx({e.io}) /\ Like(d, e)
  BY <1>3, <1>4, <1>5 DEF Ctx, Like
<1> HIDE DEF e
<1>7. Fit(e)
  BY <1>4, <1>6, LikeGood
<1>8. \A H \in Holds : Counted(d, H) => Counted(e, H)
  BY <1>6 DEF Like, Counted, Tally
<1>9. Sound(e)
  BY <1>2, <1>7, <1>8 DEF Sound
<1> QED
  BY <1>1, <1>2, <1>9

(* What is known of a stack is the end of what was known.                  *)
LEMMA KnownType ==
    ASSUME NEW s \in Seq(BOOLEAN)
    PROVE  Known(s) \in Seq(BOOLEAN)
<1> DEFINE J == { i \in 1..Len(s) : s[i] }
           m == Min(J)
<1>1. Known(s) = IF J # {} /\ m # 0 THEN SubSeq(s, m, Len(s)) ELSE <<>>
  BY Zenon DEF Known, SelectInSeq
<1>2. Len(s) \in Nat /\ J \in SUBSET Nat
  OBVIOUS
<1>3. CASE J # {} /\ m # 0
  <2>1. m \in J
    BY <1>2, <1>3, MinIs
  <2>2. m \in 1..Len(s)
    BY <2>1
  <2> HIDE DEF m
  <2>3. SubSeq(s, m, Len(s)) \in Seq(BOOLEAN)
    BY <1>2, <2>2
  <2> QED
    BY <1>1, <1>3, <2>3
<1>4. CASE ~(J # {} /\ m # 0)
  <2>1. Known(s) = <<>>
    BY <1>1, <1>4, Zenon
  <2> QED
    BY <2>1
<1> QED
  BY <1>3, <1>4

(* What is known of both.                                                  *)
LEMMA KnownOfType ==
    ASSUME NEW I, NEW c \in Ctx(I)
    PROVE  KnownOf(c) \in [BOOLEAN -> Seq(BOOLEAN)] /\ Nothing \in [BOOLEAN -> Seq(BOOLEAN)]
<1>1. c.sem \in [BOOLEAN -> Seq(BOOLEAN)]
  BY CtxParts
<1>2. \A r \in BOOLEAN : Known(c.sem[r]) \in Seq(BOOLEAN)
  BY <1>1, KnownType
<1>3. KnownOf(c) \in [BOOLEAN -> Seq(BOOLEAN)]
  BY <1>2 DEF KnownOf
<1>4. Nothing \in [BOOLEAN -> Seq(BOOLEAN)]
  BY DEF Nothing
<1> QED
  BY <1>3, <1>4

(* A context that an opcode may end with.                                  *)
Ended(c) ==
    /\ c \in Ctx({c.io}) /\ Well(c) /\ Len(c.frames) <= MaxFrames
    /\ Enough => c.asserts = {}

(* A handler ends with such a context.                                     *)
LEMMA SoundEnded ==
    ASSUME NEW c, Sound(c)
    PROVE  Ended(c)
BY DEF Sound, Ended, Fit, Counted

(* Another block is entered.                                               *)
LEMMA EnterEnded ==
    ASSUME NEW c, Ended(c), NEW calls \in Seq(NativeFrame), Len(calls) <= MaxFrames
    PROVE  Ended(Enter(c, calls))
<1> DEFINE d == Enter(c, calls)
           to == "none"
           s == Nothing
<1>1. c \in Ctx({c.io})
  BY DEF Ended
<1>2. s \in [BOOLEAN -> Seq(BOOLEAN)] /\ to \in Bases
  BY <1>1, KnownOfType DEF Bases
<1>3. d = [c EXCEPT !.base = to, !.mem_base = to, !.sem = s, !.frames = calls]
  BY DEF Enter
<1> HIDE DEF d, to, s
<1>4. d \in Ctx({d.io})
  BY <1>1, <1>2, <1>3 DEF Ctx
<1>5. d.cache = c.cache /\ d.asserts = c.asserts /\ d.frames = calls
  BY <1>1, <1>3 DEF Ctx
<1>6. Ended(d)
  BY <1>4, <1>5 DEF Ended, Well
<1> QED
  BY <1>6 DEF d

(* The caller goes on.                                                     *)
LEMMA ResumeEnded ==
    ASSUME NEW c, Ended(c), c.frames # <<>>
    PROVE  Ended(Resume(c))
<1> DEFINE d == Resume(c)
           x == Last(c.frames)
           s == x.sem
           to == x.mem_base
           f == Front(c.frames)
<1>1. c \in Ctx({c.io}) /\ c.frames \in Seq(NativeFrame)
  BY CtxParts DEF Ended
<1>2. /\ f \in Seq(NativeFrame) /\ Len(f) = Len(c.frames) - 1 /\ x \in NativeFrame
  BY <1>1, FrontIs
<1>3. d = [c EXCEPT !.sem = s, !.mem_base = to, !.frames = f]
  BY DEF Resume
<1> HIDE DEF d, f, x
<1>4. s \in [BOOLEAN -> Seq(BOOLEAN)] /\ to \in Bases
  BY <1>2 DEF NativeFrame
<1> HIDE DEF s, to
<1>5. d \in Ctx({d.io})
  BY <1>1, <1>2, <1>3, <1>4 DEF Ctx
<1>6. d.cache = c.cache /\ d.asserts = c.asserts /\ d.frames = f
  BY <1>1, <1>3 DEF Ctx
<1>7. Len(f) <= MaxFrames
  <2>1. Len(c.frames) \in Nat /\ Len(c.frames) <= MaxFrames
    BY <1>1 DEF Ended
  <2> QED
    BY <1>2, <2>1, SizeAssumption
<1>8. Ended(d)
  BY <1>5, <1>6, <1>7 DEF Ended, Well
<1> QED
  BY <1>8 DEF d

(* Wherever the run continues.                                             *)
LEMMA ArrivalsEnded ==
    ASSUME NEW c, Ended(c), NEW d \in Arrivals(c)
    PROVE  Ended(d)
<1> DEFINE none == <<>>
           x == AfterCall(c)
           f == Append(c.frames, x)
<1>1. /\ c \in Ctx({c.io}) /\ c.frames \in Seq(NativeFrame) /\ Len(c.frames) <= MaxFrames
      /\ Len(c.frames) \in Nat
  BY CtxParts DEF Ended
<1>2. none \in Seq(NativeFrame) /\ Len(none) <= MaxFrames
  BY SizeAssumption
<1>3. \/ d = c
      \/ c.frames # <<>> /\ d = Resume(c)
      \/ d = Enter(c, none) \/ d = Enter(c, c.frames)
      \/ Len(c.frames) < MaxFrames /\ d = Enter(c, f)
  BY Zenon DEF Arrivals, HandOver, Onward
<1>4. x \in NativeFrame
  <2>1. KnownOf(c) \in [BOOLEAN -> Seq(BOOLEAN)]
    BY <1>1, KnownOfType
  <2> QED
    BY <2>1 DEF AfterCall, NativeFrame, Bases
<1> HIDE DEF none, x
<1>5. f \in Seq(NativeFrame) /\ Len(f) = Len(c.frames) + 1
  BY <1>1, <1>4
<1> HIDE DEF f
<1>6. Ended(Enter(c, none))
  BY <1>2, EnterEnded
<1>7. Ended(Enter(c, c.frames))
  BY <1>1, EnterEnded
<1>8. ASSUME Len(c.frames) < MaxFrames PROVE Ended(Enter(c, f))
  <2>1. Len(f) <= MaxFrames
    BY <1>1, <1>5, <1>8, SizeAssumption
  <2> QED
    BY <1>5, <2>1, EnterEnded
<1>9. c.frames # <<>> => Ended(Resume(c))
  BY ResumeEnded
<1> QED
  BY <1>3, <1>6, <1>7, <1>8, <1>9

(* The cells of one list after those of another.                           *)
LEMMA CountConcat ==
    ASSUME NEW s \in Seq(Cell), NEW t \in Seq(Cell), NEW i
    PROVE  Count(s \o t, i) = Count(s, i) + Count(t, i)
<1> DEFINE n == Len(s)
           m == Len(t)
           u == s \o t
           Q == Named(u, i) \ Named(s, i)
           f == [j \in Named(t, i) |-> j + n]
<1>1. n \in Nat /\ m \in Nat /\ DOMAIN s = 1..n /\ DOMAIN t = 1..m
  OBVIOUS
<1>2. /\ u \in Seq(Cell) /\ DOMAIN u = 1..(n + m)
      /\ \A j \in 1..n : u[j] = s[j]
      /\ \A j \in 1..m : u[j + n] = t[j]
  <2>1. u \in Seq(Cell) /\ Len(u) = n + m
    OBVIOUS
  <2>2. DOMAIN u = 1..(n + m)
    BY <2>1
  <2>3. \A j \in 1..n : u[j] = s[j]
    BY <1>1
  <2>4. \A j \in 1..m : u[j + n] = t[j]
    BY <1>1
  <2> QED
    BY <2>1, <2>2, <2>3, <2>4
<1> HIDE DEF u, n, m
<1>3. Named(s, i) \subseteq Named(u, i)
  BY <1>1, <1>2 DEF Named
<1>4. f \in [Named(t, i) -> Q]
  BY <1>1, <1>2 DEF Named
<1>5. \A j, k \in Named(t, i) : f[j] = f[k] => j = k
  BY <1>1 DEF Named
<1>6. \A k \in Q : \E j \in Named(t, i) : f[j] = k
  <2> SUFFICES ASSUME NEW k \in Q PROVE k - n \in Named(t, i) /\ f[k - n] = k
    OBVIOUS
  <2>1. k \in 1..(n + m) /\ u[k].reg = i /\ ~(k \in 1..n)
    BY <1>1, <1>2 DEF Named
  <2>2. k - n \in 1..m /\ u[(k - n) + n] = t[k - n] /\ (k - n) + n = k
    BY <1>1, <1>2, <2>1
  <2>3. t[k - n].reg = i
    BY <2>1, <2>2
  <2> QED
    BY <1>1, <2>2, <2>3 DEF Named
<1> HIDE DEF f
<1>7. f \in Bijection(Named(t, i), Q)
  BY <1>4, <1>5, <1>6, Fun_IsBij
<1>8. IsFiniteSet(Q) /\ Cardinality(Q) = Cardinality(Named(t, i))
  BY <1>7, NamedFinite, FS_Bijection DEF ExistsBijection
<1>9. Named(u, i) = Named(s, i) \cup Q /\ Named(s, i) \cap Q = {}
  BY <1>3
<1> HIDE DEF Q
<1>10. Cardinality(Named(s, i) \cup Q) = Cardinality(Named(s, i)) + Cardinality(Q) - Cardinality({})
  BY <1>8, <1>9, NamedFinite, FS_Union
<1>11. Cardinality(Named(u, i)) = Cardinality(Named(s, i)) + Cardinality(Q) - 0
  BY <1>9, <1>10, FS_EmptySet
<1> QED
  BY <1>8, <1>11, NamedFinite DEF Count, u

(* stack_cache_retain keeps the cells from some position on.               *)
LEMMA RetainCells ==
    ASSUME NEW s \in Seq(Cell), NEW t, t = stack_cache_retain(s)
    PROVE  t \in Seq(Cell) /\ Len(t) <= Len(s) /\ (Sorted(s) => Sorted(t))
<1> DEFINE S == { i \in DOMAIN s : ~s[i].need_flush }
           n == Cardinality(S)
           m == Len(s)
<1>1. m \in Nat /\ DOMAIN s = 1..m /\ S \in SUBSET (1..m)
  OBVIOUS
<1>2. IsFiniteSet(1..m) /\ Cardinality(1..m) = m
  BY <1>1, FS_Interval
<1>3. n \in Nat /\ n <= m
  BY <1>1, <1>2, FS_Subset, FS_CardinalityType
<1>4. t = SubSeq(s, n + 1, m)
  BY DEF stack_cache_retain
<1> HIDE DEF n
<1>5. t \in Seq(Cell) /\ Len(t) = m - n /\ \A i \in 1..(m - n) : t[i] = s[i + n]
  BY <1>1, <1>3, <1>4
<1>6. ASSUME Sorted(s) PROVE Sorted(t)
  <2> SUFFICES ASSUME NEW i \in DOMAIN t, NEW j \in DOMAIN t, i < j, t[i].need_flush
               PROVE  t[j].need_flush
    BY DEF Sorted
  <2>1. i \in 1..(m - n) /\ j \in 1..(m - n)
    BY <1>3, <1>5
  <2>2. i + n \in DOMAIN s /\ j + n \in DOMAIN s /\ i + n < j + n
    BY <1>1, <1>3, <2>1
  <2>3. t[i] = s[i + n] /\ t[j] = s[j + n]
    BY <1>5, <2>1
  <2>4. s[i + n].need_flush => s[j + n].need_flush
    BY <1>6, <2>2 DEF Sorted
  <2> QED
    BY <2>3, <2>4
<1> QED
  BY <1>3, <1>5, <1>6

(* Before any opcode is translated: no register is held, and the counts    *)
(* are those of the cells that stay.                                       *)
LEMMA ContextGood ==
    ASSUME TypeOK, FlushedPrefix, frames \in Seq(NativeFrame), asserts = {},
           NEW o \in AllOpcodes, NEW in \in Nat
    PROVE  Good(Context(o, in), 0, 0)
<1> DEFINE d == Context(o, in)
           cells == [r \in BOOLEAN |-> stack_cache_retain(cache[r])]
           no == FALSE
           yes == TRUE
           all == cells[no] \o cells[yes]
           H == [i \in Regs |-> 0]
<1>1. /\ cache \in [BOOLEAN -> Seq(Cell)] /\ \A r \in BOOLEAN : Len(cache[r]) <= CacheSize
      /\ mem \in [BOOLEAN -> Seq(Byte)] /\ val \in [Regs -> Value]
      /\ base \in Bases /\ mem_base \in Bases /\ sem \in [BOOLEAN -> Seq(BOOLEAN)]
      /\ Len(frames) <= MaxFrames
  BY DEF TypeOK, Value, Bases
<1>2. \A r \in BOOLEAN : Sorted(cache[r])
  BY DEF FlushedPrefix, Sorted
<1>3. \A r \in BOOLEAN : /\ stack_cache_retain(cache[r]) \in Seq(Cell)
                         /\ Len(stack_cache_retain(cache[r])) <= CacheSize
                         /\ Sorted(stack_cache_retain(cache[r]))
  <2> TAKE r \in BOOLEAN
  <2> DEFINE t == stack_cache_retain(cache[r])
  <2>1. cache[r] \in Seq(Cell) /\ Len(cache[r]) \in Nat /\ t = stack_cache_retain(cache[r])
    BY <1>1
  <2> HIDE DEF t
  <2>2. t \in Seq(Cell) /\ Len(t) <= Len(cache[r]) /\ Sorted(t) /\ Len(t) \in Nat
    BY <1>2, <2>1, RetainCells
  <2>3. Len(t) <= CacheSize
    BY <1>1, <2>1, <2>2, SizeAssumption
  <2> QED
    BY <2>2, <2>3 DEF t
<1>4. cells \in [BOOLEAN -> Seq(Cell)] /\ \A r \in BOOLEAN : Len(cells[r]) <= CacheSize /\ Sorted(cells[r])
  BY <1>3
<1> HIDE DEF cells
<1>5. no \in BOOLEAN /\ yes \in BOOLEAN /\ \A r \in BOOLEAN : (r = no /\ (~r) = yes) \/ (r = yes /\ (~r) = no)
  OBVIOUS
<1>a. d = [op |-> o, in |-> in, io |-> <<"next">>, reg |-> 1, args |-> <<>>, cache |-> cells,
           ref |-> RefCounts(all), mem |-> mem, val |-> val,
           base |-> base, mem_base |-> mem_base, sem |-> sem,
           shadow |-> [r \in BOOLEAN |-> 0], esp |-> [r \in BOOLEAN |-> 0],
           inline |-> "no", left |-> FALSE, call |-> FALSE, frames |-> frames,
           asserts |-> asserts]
  BY Zenon DEF Context, cells
<1> HIDE DEF no, yes
<1>6. cells[no] \in Seq(Cell) /\ cells[yes] \in Seq(Cell)
  BY <1>4, <1>5
<1>7. all \in Seq(Cell)
  BY <1>6
<1>8. \A i \in Regs : /\ Count(all, i) = Count(cells[no], i) + Count(cells[yes], i)
                      /\ Count(all, i) \in Nat
                      /\ Count(cells[no], i) \in Nat /\ Count(cells[yes], i) \in Nat
  BY <1>6, <1>7, CountConcat, CountNat
<1> HIDE DEF all
<1>9. RefCounts(all) = [i \in Regs |-> Count(all, i)]
  BY DEF RefCounts, Count, Named
<1>10. RefCounts(all) \in [Regs -> Nat] /\ \A i \in Regs : RefCounts(all)[i] = Count(all, i)
  BY <1>8, <1>9
<1> HIDE DEF d
<1>11. /\ d.op = o /\ d.in = in /\ d.reg = 1 /\ d.args = <<>> /\ d.cache = cells
       /\ d.ref = RefCounts(all) /\ d.sem = sem /\ d.frames = frames /\ d.asserts = {}
       /\ d.esp = [r \in BOOLEAN |-> 0]
  BY <1>a
<1>12. d \in Ctx({d.io})
  <2>1. 1 \in Regs
    BY SizeAssumption DEF Regs
  <2>2. <<>> \in Seq(Operand) /\ asserts \in SUBSET Messages
    OBVIOUS
  <2>3. [r \in BOOLEAN |-> 0] \in [BOOLEAN -> Nat]
    OBVIOUS
  <2> QED
    BY <1>1, <1>4, <1>10, <1>a, <2>1, <2>2, <2>3 DEF Ctx
<1>13. Well(d)
  BY <1>4, <1>11 DEF Well
<1>14. ASSUME NEW r \in BOOLEAN PROVE SemPtr(d, r) <= Len(d.sem[r])
  <2>1. Len(d.sem[r]) \in Nat
    BY <1>1, <1>11
  <2>2. SemPtr(d, r) \in {0, Len(d.sem[r])}
    BY <1>11 DEF SemPtr
  <2> QED
    BY <2>1, <2>2
<1>15. Fit(d) /\ Len(d.args) = 0
  BY <1>1, <1>11, <1>12, <1>13, <1>14 DEF Fit
<1>16. H \in Holds /\ Used(H) = {}
  BY DEF Holds, Used
<1>17. Few(H, 0)
  <2>1. Cardinality({}) = 0
    BY FS_EmptySet
  <2> HIDE DEF H
  <2> QED
    BY <1>16, <2>1 DEF Few
<1>18. Tally(d, H, no)
  <2>1. (~no) = yes
    BY DEF no, yes
  <2> SUFFICES ASSUME NEW i \in Regs
               PROVE  d.ref[i] = H[i] + Count(d.cache[no], i) + Count(d.cache[~no], i)
    BY DEF Tally
  <2>2. d.ref[i] = Count(cells[no], i) + Count(cells[yes], i)
    BY <1>8, <1>10, <1>11
  <2>3. H[i] = 0
    OBVIOUS
  <2>4. d.ref[i] = H[i] + Count(cells[no], i) + Count(cells[yes], i)
    BY <1>8, <2>2, <2>3
  <2> QED
    BY <1>11, <2>1, <2>4
<1>19. Counted(d, H)
  BY <1>5, <1>11, <1>12, <1>16, <1>18, CountedIf
<1>20. Held(d, H, 0)
  <2>1. DOMAIN d.args = {}
    BY <1>11
  <2> QED
    BY <1>17, <1>19, <2>1 DEF Held
<1> QED
  BY <1>15, <1>16, <1>20 DEF Good, d

(* Wherever one opcode leads.                                              *)
LEMMA TranslateEnded ==
    ASSUME TypeOK, FlushedPrefix, frames \in Seq(NativeFrame), asserts = {},
           NEW o \in AllOpcodes, NEW in \in Nat, NEW d \in Translate(o, in)
    PROVE  Ended(d)
<1> DEFINE a == Context(o, in)
           b == Shadow(a)
           c == dispatch(b)
           e == Join(c)
<1>1. d \in Arrivals(e)
  BY DEF Translate
<1>2. Good(a, 0, 0)
  BY ContextGood
<1> HIDE DEF a
<1>3. Good(b, 2, 0)
  BY <1>2, ShadowGood
<1> HIDE DEF b
<1>4. Sound(c)
  BY <1>3, DispatchSound
<1> HIDE DEF c
<1>5. Sound(e)
  BY <1>4, JoinSound
<1> HIDE DEF e
<1> QED
  BY <1>1, <1>5, SoundEnded, ArrivalsEnded

-----------------------------------------------------------------------------
(* The registers that cells name, in the order of the cells.               *)
RegsOf(cells) == [i \in DOMAIN cells |-> cells[i].reg]

Live(cells) == { cells[i].reg : i \in DOMAIN cells }

First(s, reg) == Min({ i \in 1..Len(s) : s[i] = reg })

(* The registers up to the first cell that names reg.                      *)
UpToFirst(s, reg) == { s[i] : i \in 1..First(s, reg) }

(* Finitely many operand registers.                                        *)
LEMMA RegsOfType ==
    ASSUME NEW cells \in Seq(Cell), NEW s, s = RegsOf(cells)
    PROVE  /\ s \in Seq(Regs) /\ Len(s) = Len(cells) /\ Len(s) \in Nat
           /\ Live(cells) = { s[i] : i \in 1..Len(s) }
           /\ Live(cells) \in SUBSET Regs /\ IsFiniteSet(Live(cells))
<1> DEFINE n == Len(cells)
<1>1. n \in Nat /\ DOMAIN cells = 1..n /\ \A i \in 1..n : cells[i] \in Cell
  BY ListParts
<1>2. s \in [1..n -> Regs] /\ \A i \in 1..n : s[i] = cells[i].reg
  BY <1>1 DEF RegsOf, Cell
<1>3. s \in Seq(Regs)
  BY <1>1, <1>2, FunctionIsList
<1>4. Len(s) = n
  BY <1>1, <1>2, <1>3
<1>5. Live(cells) = { s[i] : i \in 1..n } /\ Live(cells) \in SUBSET Regs
  BY <1>1, <1>2 DEF Live
<1>6. IsFiniteSet(Regs)
  BY SizeAssumption, FS_Interval DEF Regs
<1>7. IsFiniteSet(Live(cells))
  BY <1>5, <1>6, FS_Subset
<1> QED
  BY <1>1, <1>3, <1>4, <1>5, <1>7

(* The first cell that names a register.                                   *)
LEMMA FirstFacts ==
    ASSUME NEW s \in Seq(Regs), NEW reg, \E i \in 1..Len(s) : s[i] = reg
    PROVE  /\ First(s, reg) \in 1..Len(s) /\ s[First(s, reg)] = reg
           /\ \A i \in 1..Len(s) : s[i] = reg => First(s, reg) <= i
<1> DEFINE S == { i \in 1..Len(s) : s[i] = reg }
<1>1. S \in SUBSET Nat /\ S # {}
  OBVIOUS
<1>2. Min(S) \in S /\ \A y \in S : Min(S) <= y
  BY <1>1, MinIs
<1> QED
  BY <1>2 DEF First

(* The new number of a register is how many have been named by then.       *)
LEMMA RankIs ==
    ASSUME NEW cells \in Seq(Cell), NEW reg \in Live(cells), NEW s, s = RegsOf(cells)
    PROVE  Rank(cells, reg) = Cardinality(UpToFirst(s, reg))
<1> DEFINE n == First(s, reg)
           S == { i \in 1..Len(s) : s[i] = reg }
           t == SubSeq(s, 1, n)
<1>1. s \in Seq(Regs) /\ Len(s) \in Nat /\ \E i \in 1..Len(s) : s[i] = reg
  BY RegsOfType
<1>2. n \in 1..Len(s)
  BY <1>1, FirstFacts
<1>3. S # {} /\ n = Min(S)
  BY <1>1 DEF First
<1>4. SelectInSeq(s, LAMBDA x : x = reg) = n
  BY <1>3 DEF SelectInSeq
<1>5. Rank(cells, reg) = Cardinality(ToSet(SubSeq(s, 1, SelectInSeq(s, LAMBDA x : x = reg))))
  BY DEF Rank, RegsOf
<1> HIDE DEF n
<1>6. DOMAIN t = 1..n /\ \A i \in 1..n : t[i] = s[i]
  BY <1>1, <1>2
<1>7. ToSet(t) = UpToFirst(s, reg)
  <2>1. ToSet(t) = { t[i] : i \in 1..n }
    BY <1>6 DEF ToSet
  <2>2. { t[i] : i \in 1..n } = { s[i] : i \in 1..n }
    BY <1>6
  <2> QED
    BY <2>1, <2>2 DEF UpToFirst, n
<1> QED
  BY <1>4, <1>5, <1>7

(* Two registers get two numbers.                                          *)
LEMMA RankApart ==
    ASSUME NEW cells \in Seq(Cell), NEW a \in Live(cells), NEW b \in Live(cells),
           NEW s, s = RegsOf(cells), First(s, a) < First(s, b)
    PROVE  Cardinality(UpToFirst(s, a)) # Cardinality(UpToFirst(s, b))
<1> DEFINE A == UpToFirst(s, a)
           B == UpToFirst(s, b)
<1>1. /\ s \in Seq(Regs) /\ Len(s) \in Nat /\ IsFiniteSet(Live(cells))
      /\ Live(cells) = { s[i] : i \in 1..Len(s) }
      /\ (\E i \in 1..Len(s) : s[i] = a) /\ (\E i \in 1..Len(s) : s[i] = b)
  BY RegsOfType
<1>2. /\ First(s, a) \in 1..Len(s) /\ First(s, b) \in 1..Len(s) /\ s[First(s, b)] = b
      /\ \A i \in 1..Len(s) : s[i] = b => First(s, b) <= i
  BY <1>1, FirstFacts
<1>3. B \in SUBSET Live(cells)
  BY <1>1, <1>2 DEF UpToFirst
<1>4. IsFiniteSet(B)
  BY <1>1, <1>3, FS_Subset
<1>5. A \in SUBSET B
  BY <1>2 DEF UpToFirst
<1>6. b \in B /\ b \notin A
  BY <1>2 DEF UpToFirst
<1> HIDE DEF A, B
<1>7. A # B
  BY <1>6
<1>8. Cardinality(B) # Cardinality(A)
  BY <1>4, <1>5, <1>7, FS_Subset
<1> QED
  BY <1>8 DEF A, B

(* The registers that cells name are renumbered from one on.               *)
LEMMA RankOnto ==
    ASSUME NEW cells \in Seq(Cell)
    PROVE  /\ \A reg \in Live(cells) : Rank(cells, reg) \in Regs
           /\ \A i \in 1..Cardinality(Live(cells)) :
                 \E reg \in Live(cells) : Rank(cells, reg) = i
<1> DEFINE s == RegsOf(cells)
           L == Live(cells)
           n == Cardinality(L)
           f == [reg \in L |-> Rank(cells, reg)]
<1>0. s = RegsOf(cells)
  OBVIOUS
<1> HIDE DEF s
<1>1. /\ s \in Seq(Regs) /\ Len(s) \in Nat /\ L = { s[i] : i \in 1..Len(s) }
      /\ L \in SUBSET Regs /\ IsFiniteSet(L)
  BY <1>0, RegsOfType
<1>2. n \in Nat /\ n <= NumRegs
  <2>1. IsFiniteSet(Regs) /\ Cardinality(Regs) = NumRegs
    BY SizeAssumption, FS_Interval DEF Regs
  <2> QED
    BY <1>1, <2>1, FS_Subset, FS_CardinalityType
<1>3. ASSUME NEW reg \in L PROVE Rank(cells, reg) \in 1..n
  <2> DEFINE U == UpToFirst(s, reg)
  <2>1. First(s, reg) \in 1..Len(s) /\ s[First(s, reg)] = reg
    BY <1>1, FirstFacts
  <2>2. U \in SUBSET L /\ reg \in U
    BY <1>1, <2>1 DEF UpToFirst
  <2> HIDE DEF U, L
  <2>3. IsFiniteSet(U) /\ Cardinality(U) <= n /\ Cardinality(U) \in Nat
    BY <1>1, <2>2, FS_Subset, FS_CardinalityType
  <2>4. Cardinality(U) # 0
    BY <2>2, <2>3, FS_EmptySet
  <2>5. Rank(cells, reg) = Cardinality(U)
    BY <1>0, <1>3, RankIs DEF U, L
  <2> QED
    BY <1>2, <2>3, <2>4, <2>5
<1>4. ASSUME NEW a \in L, NEW b \in L, Rank(cells, a) = Rank(cells, b) PROVE a = b
  <2>1. /\ First(s, a) \in 1..Len(s) /\ s[First(s, a)] = a
        /\ First(s, b) \in 1..Len(s) /\ s[First(s, b)] = b
    BY <1>1, FirstFacts
  <2>2. Cardinality(UpToFirst(s, a)) = Cardinality(UpToFirst(s, b))
    BY <1>0, <1>4, RankIs
  <2>3. ~(First(s, a) < First(s, b)) /\ ~(First(s, b) < First(s, a))
    BY <1>0, <2>2, RankApart
  <2>4. First(s, a) = First(s, b)
    BY <1>1, <2>1, <2>3
  <2> QED
    BY <2>1, <2>4
<1> HIDE DEF L, n
<1>5. f \in [L -> 1..n]
  BY <1>3
<1>6. \A a, b \in L : f[a] = f[b] => a = b
  BY <1>4
<1> HIDE DEF f
<1>7. f \in Injection(L, 1..n)
  BY <1>5, <1>6 DEF Injection, IsInjective
<1>8. IsFiniteSet(1..n) /\ Cardinality(1..n) = n
  BY <1>2, FS_Interval
<1>9. f \in Surjection(L, 1..n)
  <2>1. Cardinality(L) = Cardinality(1..n)
    BY <1>8 DEF n
  <2> QED
    BY <1>7, <1>8, <2>1, FS_Injection
<1>10. \A i \in 1..n : \E reg \in L : f[reg] = i
  BY <1>9 DEF Surjection
<1>11. \A i \in 1..n : \E reg \in L : Rank(cells, reg) = i
  BY <1>10 DEF f
<1>12. \A reg \in L : Rank(cells, reg) \in Regs
  BY <1>2, <1>3, SizeAssumption DEF Regs
<1> QED
  BY <1>11, <1>12 DEF L, n

(* Cells with other registers.                                             *)
Renumbered(cells, s) == [i \in DOMAIN s |-> [s[i] EXCEPT !.reg = Rank(cells, @)]]

(* Renumbering moves no cell.                                              *)
LEMMA RenumberedFacts ==
    ASSUME NEW cells \in Seq(Cell), NEW s \in Seq(Cell),
           \A i \in DOMAIN s : s[i].reg \in Live(cells), NEW t, t = Renumbered(cells, s)
    PROVE  t \in Seq(Cell) /\ Len(t) = Len(s) /\ (Sorted(s) => Sorted(t))
<1> DEFINE n == Len(s)
<1>1. n \in Nat /\ DOMAIN s = 1..n /\ \A i \in 1..n : s[i] \in Cell
  BY ListParts
<1>2. \A i \in 1..n : Rank(cells, s[i].reg) \in Regs
  BY <1>1, RankOnto
<1>3. /\ t \in [1..n -> Cell] /\ DOMAIN t = 1..n
      /\ \A i \in 1..n : t[i].need_flush = s[i].need_flush
  BY <1>1, <1>2 DEF Renumbered, Cell
<1>4. t \in Seq(Cell)
  BY <1>1, <1>3, FunctionIsList
<1>5. Len(t) = n
  BY <1>1, <1>3, <1>4
<1>6. Sorted(s) => Sorted(t)
  BY <1>1, <1>3 DEF Sorted
<1> QED
  BY <1>4, <1>5, <1>6

(* The cells of each cache are among all of them.                          *)
LEMMA LiveConcat ==
    ASSUME NEW s \in Seq(Cell), NEW t \in Seq(Cell)
    PROVE  /\ s \o t \in Seq(Cell)
           /\ \A i \in DOMAIN s : s[i].reg \in Live(s \o t)
           /\ \A i \in DOMAIN t : t[i].reg \in Live(s \o t)
<1> DEFINE n == Len(s)
           m == Len(t)
           u == s \o t
<1>1. n \in Nat /\ m \in Nat /\ DOMAIN s = 1..n /\ DOMAIN t = 1..m
  OBVIOUS
<1>2. u \in Seq(Cell) /\ Len(u) = n + m
  OBVIOUS
<1>3. DOMAIN u = 1..(n + m)
  BY <1>2
<1>4. \A j \in 1..n : u[j] = s[j]
  BY <1>1
<1>5. \A j \in 1..m : u[j + n] = t[j]
  BY <1>1
<1> HIDE DEF u, n, m
<1>6. \A i \in DOMAIN s : i \in DOMAIN u /\ u[i] = s[i]
  BY <1>1, <1>3, <1>4
<1>7. \A i \in DOMAIN t : i + n \in DOMAIN u /\ u[i + n] = t[i]
  BY <1>1, <1>3, <1>5
<1>8. \A i \in DOMAIN s : s[i].reg \in Live(u)
  BY <1>6 DEF Live
<1>9. \A i \in DOMAIN t : t[i].reg \in Live(u)
  BY <1>7 DEF Live
<1> QED
  BY <1>2, <1>8, <1>9 DEF u

(* The inductive invariant.                                                *)
IInv ==
    /\ TypeOK /\ frames \in Seq(NativeFrame)
    /\ FlushedPrefix
    /\ Enough => NoAssert

(* The state between two opcodes.                                          *)
LEMMA CommitKeeps ==
    ASSUME TypeOK, NEW c, Ended(c), Commit(c)
    PROVE  IInv'
<1> DEFINE no == FALSE
           yes == TRUE
           cells == c.cache[no] \o c.cache[yes]
           live == Live(cells)
<1>1. /\ c \in Ctx({c.io}) /\ Well(c) /\ Len(c.frames) <= MaxFrames
      /\ Enough => c.asserts = {}
  BY DEF Ended
<1>2. /\ c.cache \in [BOOLEAN -> Seq(Cell)] /\ c.mem \in [BOOLEAN -> Seq(Byte)]
      /\ c.val \in [Regs -> Value] /\ c.base \in Bases /\ c.mem_base \in Bases
      /\ c.inline \in {"no", "run", "skip"} /\ c.frames \in Seq(NativeFrame)
      /\ c.asserts \in SUBSET Messages
  BY <1>1, CtxParts
<1>3. KnownOf(c) \in [BOOLEAN -> Seq(BOOLEAN)] /\ Nothing \in [BOOLEAN -> Seq(BOOLEAN)]
  BY <1>1, KnownOfType
<1>4. no \in BOOLEAN /\ yes \in BOOLEAN /\ \A r \in BOOLEAN : r = no \/ r = yes
  OBVIOUS
<1>5. cache' = [r \in BOOLEAN |-> Renumbered(cells, c.cache[r])]
  BY Zenon DEF Commit, Renumbered
<1>6. val' = [i \in Regs |->
                IF i \in 1..Cardinality(live)
                THEN c.val[CHOOSE reg \in live : Rank(cells, reg) = i]
                ELSE 0]
  BY Zenon DEF Commit, Live
<1>7. /\ mem' = c.mem /\ inline' = c.inline /\ frames' = c.frames /\ asserts' = c.asserts
      /\ program' = program
      /\ base' = IF Inlined = {} THEN "none" ELSE c.base
      /\ mem_base' = IF Inlined = {} THEN "none" ELSE c.mem_base
      /\ sem' = IF Inlined = {} THEN Nothing ELSE KnownOf(c)
  BY DEF Commit
<1> HIDE DEF no, yes
<1>8. /\ c.cache[no] \in Seq(Cell) /\ c.cache[yes] \in Seq(Cell)
  BY <1>2, <1>4
<1>9. /\ cells \in Seq(Cell)
      /\ \A r \in BOOLEAN : \A i \in DOMAIN c.cache[r] : c.cache[r][i].reg \in live
  <2>1. /\ cells \in Seq(Cell)
        /\ \A i \in DOMAIN c.cache[no] : c.cache[no][i].reg \in live
        /\ \A i \in DOMAIN c.cache[yes] : c.cache[yes][i].reg \in live
    BY <1>8, LiveConcat
  <2> HIDE DEF live, cells
  <2> QED
    BY <1>4, <2>1
<1> HIDE DEF cells
<1>10. ASSUME NEW r \in BOOLEAN
       PROVE  /\ cache'[r] \in Seq(Cell) /\ Len(cache'[r]) <= CacheSize /\ Sorted(cache'[r])
              /\ Renumbered(cells, c.cache[r]) \in Seq(Cell)
  <2> DEFINE s == c.cache[r]
             t == Renumbered(cells, s)
  <2>1. s \in Seq(Cell) /\ Len(s) <= CacheSize /\ Sorted(s)
    BY <1>1, <1>2 DEF Well
  <2>2. \A i \in DOMAIN s : s[i].reg \in Live(cells)
    BY <1>9
  <2>3. t = Renumbered(cells, s) /\ cache'[r] = t
    BY <1>5
  <2> HIDE DEF s, t
  <2>4. t \in Seq(Cell) /\ Len(t) = Len(s) /\ Sorted(t)
    BY <1>9, <2>1, <2>2, <2>3, RenumberedFacts
  <2> QED
    BY <2>1, <2>3, <2>4 DEF s
<1>11. cache' \in [BOOLEAN -> Seq(Cell)]
  BY <1>5, <1>10
<1>12. val' \in [Regs -> 0..(Word - 1)]
  <2>1. ASSUME NEW i \in 1..Cardinality(live)
        PROVE  c.val[CHOOSE reg \in live : Rank(cells, reg) = i] \in Value
    <3> DEFINE x == CHOOSE reg \in live : Rank(cells, reg) = i
    <3>1. \E reg \in live : Rank(cells, reg) = i
      BY <1>9, <2>1, RankOnto
    <3>2. x \in live
      BY <3>1
    <3>3. live \in SUBSET Regs
      BY <1>9, RegsOfType
    <3> HIDE DEF x
    <3>4. c.val[x] \in Value
      BY <1>2, <3>2, <3>3
    <3> QED
      BY <3>4 DEF x
  <2>2. 0 \in Value
    BY WordIs DEF Value
  <2> QED
    BY <1>6, <2>1, <2>2 DEF Value
<1>13. base' \in Bases /\ mem_base' \in Bases
  BY <1>2, <1>7 DEF Bases
<1>14. sem' \in [BOOLEAN -> Seq(BOOLEAN)]
  BY <1>3, <1>7
<1>15. TypeOK'
  <2>1. program' \in Kinds /\ Len(frames') <= MaxFrames /\ mem' \in [BOOLEAN -> Seq(Byte)]
    BY <1>1, <1>2, <1>7 DEF TypeOK
  <2>2. inline' \in {"no", "run", "skip"} /\ asserts' \in SUBSET Messages
    BY <1>2, <1>7
  <2> QED
    BY <1>10, <1>11, <1>12, <1>13, <1>14, <2>1, <2>2 DEF TypeOK, Bases, Messages
<1>16. FlushedPrefix'
  BY <1>10 DEF FlushedPrefix, Sorted
<1>17. frames' \in Seq(NativeFrame) /\ (Enough => NoAssert')
  BY <1>1, <1>2, <1>7 DEF NoAssert
<1> QED
  BY <1>15, <1>16, <1>17 DEF IInv, Enough

(* No program has run yet.                                                 *)
LEMMA InitIInv == Init => IInv
<1> SUFFICES ASSUME Init PROVE IInv
  OBVIOUS
<1>1. cache \in [BOOLEAN -> Seq(Cell)] /\ \A r \in BOOLEAN : cache[r] = <<>>
  BY DEF Init
<1>2. mem \in [BOOLEAN -> Seq(Byte)] /\ sem \in [BOOLEAN -> Seq(BOOLEAN)]
  BY DEF Init
<1>3. val \in [Regs -> 0..(Word - 1)]
  BY WordIs DEF Init
<1>4. \A r \in BOOLEAN : Len(cache[r]) <= CacheSize
  BY <1>1, SizeAssumption
<1>5. TypeOK
  BY <1>1, <1>2, <1>3, <1>4, SizeAssumption DEF Init, TypeOK
<1>6. FlushedPrefix
  BY <1>1 DEF FlushedPrefix
<1>7. frames \in Seq(NativeFrame) /\ NoAssert
  BY DEF Init, NoAssert
<1> QED
  BY <1>5, <1>6, <1>7 DEF IInv

(* What an opcode may read from outside is a number.                       *)
LEMMA InputsType ==
    ASSUME NEW o, NEW in \in Inputs(o)
    PROVE  in \in Nat
<1>1. Short \in SUBSET Nat /\ Byte \in SUBSET Nat /\ {0} \in SUBSET Nat
  BY WordIs DEF Short, Byte
<1>2. Inputs(o) \in {Short, Byte, {0}}
  BY DEF Inputs
<1> QED
  BY <1>1, <1>2

(* Every opcode keeps the invariant.                                       *)
LEMMA NextIInv == IInv /\ [Next]_vars => IInv'
<1> SUFFICES ASSUME IInv, [Next]_vars PROVE IInv'
  OBVIOUS
<1>1. CASE UNCHANGED vars
  BY <1>1 DEF IInv, vars, TypeOK, FlushedPrefix, NoAssert
<1>2. CASE Next
  <2>0. PICK o \in Programs[program].ops : \E in \in Inputs(o) : next_opcode(o, in)
    BY <1>2 DEF Next
  <2>1. PICK in \in Inputs(o) : next_opcode(o, in)
    BY <2>0
  <2>2. PICK c \in Translate(o, in) : Commit(c)
    BY <2>1 DEF next_opcode
  <2>3. asserts = {}
    BY <2>1 DEF next_opcode, Ready
  <2>4. TypeOK /\ FlushedPrefix /\ frames \in Seq(NativeFrame)
    BY DEF IInv
  <2>5. o \in AllOpcodes
    BY <2>0, <2>4, ProgramsAssumption DEF TypeOK
  <2>6. in \in Nat
    BY <2>1, InputsType
  <2>7. Ended(c)
    BY <2>2, <2>3, <2>4, <2>5, <2>6, TranslateEnded
  <2> QED
    BY <2>2, <2>4, <2>7, CommitKeeps
<1> QED
  BY <1>1, <1>2

(* The invariant holds throughout.                                         *)
LEMMA AlwaysIInv == Spec => []IInv
BY InitIInv, NextIInv, PTL DEF Spec

(* Whatever the program, the translator and the code it emits stay in      *)
(* their types: caches never outgrow CacheSize, and cells and operands     *)
(* name operand registers only.                                            *)
THEOREM TranslatorTypes == Spec => []TypeOK
<1>1. IInv => TypeOK
  BY DEF IInv
<1> QED
  BY <1>1, AlwaysIInv, PTL

(* Whatever the program, flushed cells lie below the others, which is what *)
(* stack_cache_retain relies on when it drops cells by number.             *)
THEOREM FlushedBelow == Spec => []FlushedPrefix
<1>1. IInv => FlushedPrefix
  BY DEF IInv
<1> QED
  BY <1>1, AlwaysIInv, PTL

(* With the six operand registers of the code no BUXN_JIT_ASSERT of the    *)
(* allocator fires, whatever opcodes a program is made of, for any size of *)
(* the caches and any width of a byte: at most five registers are held     *)
(* when one more is needed, and reference counts are those of the cells    *)
(* and of the registers held.                                              *)
THEOREM SixRegistersSuffice ==
    ASSUME NumRegs >= 6
    PROVE  Spec => []NoAssert
<1>1. IInv => NoAssert
  BY DEF IInv, Enough
<1> QED
  BY <1>1, AlwaysIInv, PTL

=============================================================================
