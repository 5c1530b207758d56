-------------------------- MODULE NativeCallsProofs --------------------------
(***************************************************************************)
(* buxn_jit_execute for every memory size, every program and every depth   *)
(* of the return stack.                                                    *)
(*                                                                         *)
(* A jump in native code goes where its block was told when it was         *)
(* compiled.  That this is where the interpreter goes, and that there is   *)
(* code, rests on three facts about the blocks (Blocks) and two about      *)
(* where native code and its frames can be (Places).  The opcodes never    *)
(* change, so the extent of a block does not either.                       *)
(***************************************************************************)
EXTENDS NativeCalls, TLAPS

Linkable == Immediate \cup Rechecked

(* A block knows the targets of its immediate jumps, and all its targets   *)
(* have code.                                                              *)
Blocks ==
    /\ \A b \in DOMAIN code : \A a \in Addr : op[a] \in Immediate => code[b][a] = to[a]
    /\ \A b \in DOMAIN code : \A a \in Extent(b) :
          op[a] \in Linkable => code[b][a] \in DOMAIN code

(* Native code is inside its block or has run into the zero page, and a    *)
(* frame waits inside its block.                                           *)
Places ==
    /\ mode = "native" => pc < Zero \/ pc \in Extent(block)
    /\ \A i \in DOMAIN frames : frames[i].ret \in Extent(frames[i].block)
    /\ mode = "idle" => pc = Brk

IInv == TypeOK /\ Blocks /\ Places /\ NativeDepth

-----------------------------------------------------------------------------
(* The address after an opcode, which wraps around at the end of memory.   *)
LEMMA AfterValue ==
    ASSUME NEW a \in Addr
    PROVE  /\ After(a) \in Addr
           /\ After(a) = IF a = Top THEN 0 ELSE a + 1
<1>1. Top \in Nat /\ a \in 0..Top
  BY TopAssumption DEF Addr
<1>2. CASE a = Top
  BY <1>1, <1>2 DEF After, Addr
<1>3. CASE a # Top
  BY <1>1, <1>3 DEF After, Addr
<1> QED
  BY <1>2, <1>3

(* Removing the last element of a stack.                                   *)
LEMMA FrontFacts ==
    ASSUME NEW S, NEW s \in Seq(S), s # <<>>
    PROVE  /\ Front(s) \in Seq(S)
           /\ Len(Front(s)) = Len(s) - 1
           /\ DOMAIN Front(s) \subseteq DOMAIN s
           /\ \A i \in DOMAIN Front(s) : Front(s)[i] = s[i]
           /\ Len(s) \in DOMAIN s
           /\ s[Len(s)] \in S
<1> DEFINE n == Len(s) - 1
<1>1. Len(s) \in Nat /\ Len(s) # 0 /\ DOMAIN s = 1..Len(s) /\ \A i \in 1..Len(s) : s[i] \in S
  OBVIOUS
<1>2. n \in 0..Len(s)
  BY <1>1
<1>3. /\ Front(s) \in Seq(S)
      /\ Len(Front(s)) = n
      /\ \A i \in 1..n : Front(s)[i] = s[i]
  BY <1>1, <1>2 DEF Front
<1>4. DOMAIN Front(s) = 1..n
  BY <1>3
<1> QED
  BY <1>1, <1>2, <1>3, <1>4

(* An opcode that does not end a block is followed by one of its block, or *)
(* by the zero page.                                                       *)
LEMMA NextInExtent ==
    ASSUME NEW b \in Addr, NEW a \in Extent(b), op[a] \notin Final
    PROVE  /\ a \in Addr
           /\ After(a) < Zero \/ After(a) \in Extent(b)
           /\ After(a) # 0 => After(a) \in Extent(b)
<1>1. Top \in Nat /\ Zero \in 1..Top
  BY TopAssumption
<1>2. b \in 0..Top /\ a \in b..Top /\ b >= Zero /\ \A x \in b..(a - 1) : op[x] \notin Final
  BY DEF Extent, Addr
<1>3. a \in Addr
  BY <1>1, <1>2 DEF Addr
<1>4. CASE a = Top
  BY <1>1, <1>3, <1>4, AfterValue
<1>5. CASE a # Top
  <2>1. After(a) = a + 1 /\ a + 1 \in b..Top
    BY <1>1, <1>2, <1>3, <1>5, AfterValue
  <2>2. \A x \in b..(a + 1 - 1) : op[x] \notin Final
    BY <1>1, <1>2
  <2>3. a + 1 \in Extent(b)
    BY <1>2, <2>1, <2>2 DEF Extent
  <2> QED
    BY <1>3, <2>1, <2>3
<1> QED
  BY <1>4, <1>5

(* What buxn_jit adds: the block, and with each block its targets.         *)
LEMMA ClosureFacts ==
    ASSUME NEW b \in Addr
    PROVE  /\ b \in Closure(b)
           /\ Closure(b) \subseteq Addr
           /\ \A a \in Closure(b) \ DOMAIN code : Targets(a) \cap Addr \subseteq Closure(b)
BY DEF Closure, Complete
(* A block contains its first opcode.                                      *)
LEMMA EntryInExtent ==
    ASSUME NEW b \in Addr
    PROVE  b < Zero \/ b \in Extent(b)
<1>1. Top \in Nat /\ Zero \in 1..Top /\ b \in 0..Top
  BY TopAssumption DEF Addr
<1>2. \A x \in b..(b - 1) : op[x] \notin Final
  BY <1>1
<1> QED
  BY <1>1, <1>2 DEF Extent

(* The opcodes are never changed.                                          *)
LEMMA SameExtent ==
    ASSUME UNCHANGED op
    PROVE  \A b : Extent(b)' = Extent(b)
BY DEF Extent

-----------------------------------------------------------------------------
(* Compiled code.                                                          *)
LEMMA SameBlocks ==
    ASSUME Blocks, UNCHANGED <<op, to, code>>
    PROVE  Blocks'
BY SameExtent DEF Blocks

(* A static jump that is taken leads to a block with code, the one that    *)
(* memory names.                                                           *)
LEMMA JumpTarget ==
    ASSUME IInv, mode = "native", pc >= Zero, op[pc] \in Linkable
    PROVE  /\ pc \in Addr
           /\ pc \in Extent(block)
           /\ block \in DOMAIN code
           /\ const_value \in DOMAIN code
           /\ const_value \in Addr
           /\ to[pc] \in Addr
           /\ Assumed => const_value = to[pc]
           /\ const_value < Zero \/ const_value \in Extent(const_value)
<1>1. /\ pc \in Addr /\ block \in DOMAIN code /\ code[block] \in [Addr -> Addr]
      /\ to \in [Addr -> Addr]
  BY DEF IInv, TypeOK
<1>2. pc \in Extent(block)
  BY <1>1, TopAssumption DEF IInv, Places, Addr
<1>3. const_value \in DOMAIN code /\ const_value \in Addr /\ to[pc] \in Addr
  BY <1>1, <1>2 DEF IInv, Blocks, const_value
<1>4. Assumed => const_value = to[pc]
  BY <1>1 DEF IInv, Blocks, Assumed, const_value
<1> QED
  BY <1>1, <1>2, <1>3, <1>4, EntryInExtent

(* What buxn_jit leaves: code for the block that was asked for, and no     *)
(* block whose jumps lead nowhere.                                         *)
LEMMA NewBlocks ==
    ASSUME IInv, NEW b \in Addr, buxn_jit(b), UNCHANGED <<op, to>>
    PROVE  /\ b \in DOMAIN code'
           /\ DOMAIN code \subseteq DOMAIN code'
           /\ DOMAIN code' \subseteq Addr
           /\ \A c \in DOMAIN code' : code'[c] \in [Addr -> Addr]
           /\ Blocks'
<1>1. /\ DOMAIN code' = DOMAIN code \cup Closure(b)
      /\ \A c \in DOMAIN code : code'[c] = code[c]
      /\ \A c \in Closure(b) \ DOMAIN code : code'[c] = to
  BY DEF buxn_jit
<1>2. /\ b \in Closure(b)
      /\ Closure(b) \subseteq Addr
      /\ \A a \in Closure(b) \ DOMAIN code : Targets(a) \cap Addr \subseteq Closure(b)
  BY ClosureFacts
<1>3. to \in [Addr -> Addr] /\ DOMAIN code \subseteq Addr
  BY DEF IInv, TypeOK
<1>4. \A c \in DOMAIN code' : code'[c] \in [Addr -> Addr]
  BY <1>1, <1>3 DEF IInv, TypeOK
<1>5. ASSUME NEW c \in DOMAIN code', NEW a \in Addr, op[a] \in Immediate
      PROVE  code'[c][a] = to[a]
  BY <1>1, <1>5 DEF IInv, Blocks
<1>6. ASSUME NEW c \in DOMAIN code', NEW a \in Extent(c), op[a] \in Linkable
      PROVE  code'[c][a] \in DOMAIN code'
  <2>1. CASE c \in DOMAIN code
    BY <1>1, <1>6, <2>1 DEF IInv, Blocks
  <2>2. CASE c \notin DOMAIN code
    <3>1. c \in Closure(b) \ DOMAIN code /\ c \in Addr
      BY <1>1, <1>2, <2>2
    <3>2. a \in Addr
      BY <1>6, <3>1, TopAssumption DEF Extent, Addr
    <3>3. to[a] \in Targets(c) /\ to[a] \in Addr
      BY <1>3, <1>6, <3>2 DEF Targets, Linkable
    <3> QED
      BY <1>1, <1>2, <3>1, <3>3
  <2> QED
    BY <2>1, <2>2
<1>7. Blocks'
  BY <1>5, <1>6, SameExtent DEF Blocks
<1> QED
  BY <1>1, <1>2, <1>3, <1>4, <1>7

-----------------------------------------------------------------------------
(* Native code.  Opcodes that pass control on inside the block.            *)
LEMMA StepInBlock ==
    ASSUME IInv, mode = "native", pc >= Zero, op[pc] \notin Final,
           Native(block, After(pc)), UNCHANGED <<op, code, frames>>
    PROVE  /\ pc \in Addr /\ pc' \in Addr /\ pc' # Brk
           /\ block' \in DOMAIN code'
           /\ Places'
<1>1. pc \in Addr /\ block \in DOMAIN code /\ block \in Addr
  BY DEF IInv, TypeOK
<1>2. pc \in Extent(block)
  BY <1>1, TopAssumption DEF IInv, Places, Addr
<1>3. pc' = After(pc) /\ block' = block /\ mode' = "native"
  BY DEF Native
<1>4. pc' \in Addr /\ pc' # Brk
  BY <1>1, <1>3, AfterValue, TopAssumption DEF Addr, Brk
<1>5. pc' < Zero \/ pc' \in Extent(block)
  BY <1>1, <1>2, <1>3, NextInExtent
<1>6. Places'
  BY <1>3, <1>5, SameExtent DEF IInv, Places
<1> QED
  BY <1>1, <1>3, <1>4, <1>6

(* A jump: native code goes on in another block, or is left.               *)
LEMMA JumpStep ==
    ASSUME IInv, mode = "native", pc >= Zero, op[pc] \in Linkable, jump_abs,
           UNCHANGED <<op, code>>
    PROVE  /\ mode' \in {"native", "return"}
           /\ pc' = to[pc] /\ pc' \in Addr /\ pc' # Brk
           /\ block' \in DOMAIN code'
           /\ frames' = frames
           /\ Places'
<1>1. /\ block \in DOMAIN code /\ const_value \in DOMAIN code /\ to[pc] \in Addr
      /\ Assumed => const_value = to[pc]
      /\ const_value < Zero \/ const_value \in Extent(const_value)
  BY JumpTarget
<1>2. to[pc] # Brk
  BY <1>1, TopAssumption DEF Addr, Brk
<1>3. CASE Assumed
  BY <1>1, <1>2, <1>3, SameExtent DEF jump_abs, Native, IInv, Places
<1>4. CASE ~Assumed
  BY <1>1, <1>2, <1>4, SameExtent DEF jump_abs, Leave, IInv, Places
<1> QED
  BY <1>3, <1>4

(* A call: it may leave a frame that waits in the calling block.           *)
LEMMA CallStep ==
    ASSUME IInv, mode = "native", pc >= Zero, op[pc] \in Calls, call_abs(After(pc)),
           UNCHANGED <<op, code>>
    PROVE  /\ mode' \in {"native", "return"}
           /\ pc' = to[pc] /\ pc' \in Addr /\ pc' # Brk
           /\ block' \in DOMAIN code'
           /\ frames' \in Seq(Frame)
           /\ Len(frames') \in {Len(frames), Len(frames) + 1}
           /\ \A i \in DOMAIN frames' : frames'[i].block \in DOMAIN code
           /\ Places'
<1>1. op[pc] \in Linkable /\ op[pc] \notin Final
  BY DEF Linkable, Immediate, Rechecked, Calls, Final, Jumps
<1>2. /\ pc \in Addr /\ pc \in Extent(block)
      /\ block \in DOMAIN code /\ const_value \in DOMAIN code /\ to[pc] \in Addr
      /\ Assumed => const_value = to[pc]
      /\ const_value < Zero \/ const_value \in Extent(const_value)
  BY <1>1, JumpTarget
<1>3. block \in Addr /\ frames \in Seq(Frame)
  BY DEF IInv, TypeOK
<1>4. CASE After(pc) # 0 /\ Assumed
  <2> DEFINE f == [block |-> block, ret |-> After(pc)]
  <2>1. /\ mode' = "native" /\ block' = const_value /\ pc' = const_value
        /\ frames' = Append(frames, f)
    BY <1>4 DEF call_abs, Native
  <2>2. After(pc) \in Addr /\ After(pc) \in Extent(block)
    BY <1>1, <1>2, <1>3, <1>4, AfterValue, NextInExtent
  <2>3. f \in Frame
    BY <1>3, <2>2 DEF Frame
  <2>4. /\ frames' \in Seq(Frame)
        /\ Len(frames') = Len(frames) + 1
        /\ DOMAIN frames' = DOMAIN frames \cup {Len(frames) + 1}
        /\ \A i \in DOMAIN frames : frames'[i] = frames[i]
        /\ frames'[Len(frames) + 1] = f
    BY <1>3, <2>1, <2>3
  <2> HIDE DEF f
  <2>5. ASSUME NEW i \in DOMAIN frames'
        PROVE  /\ frames'[i].block \in DOMAIN code
               /\ frames'[i].ret \in Extent(frames'[i].block)
    <3>1. CASE i \in DOMAIN frames
      BY <2>4, <3>1 DEF IInv, TypeOK, Places
    <3>2. CASE i = Len(frames) + 1
      BY <1>2, <2>2, <2>4, <3>2 DEF f
    <3> QED
      BY <2>4, <3>1, <3>2
  <2>6. Places'
    BY <1>2, <2>1, <2>5, SameExtent DEF Places
  <2>7. pc' = to[pc] /\ pc' # Brk
    BY <1>2, <1>4, <2>1, TopAssumption DEF Addr, Brk
  <2> QED
    BY <1>2, <2>1, <2>4, <2>5, <2>6, <2>7
<1>5. CASE ~(After(pc) # 0 /\ Assumed)
  <2>1. jump_abs
    BY <1>5 DEF call_abs
  <2> QED
    BY <1>1, <1>3, <2>1, JumpStep DEF IInv, TypeOK
<1> QED
  BY <1>4, <1>5

(* What a step of the interpreter keeps: it rewrites literals only.        *)
LEMMA InterpretType ==
    ASSUME op \in [Addr -> Opcode], to \in [Addr -> Addr], pc \in Addr, rst \in Seq(Addr), VmStep
    PROVE  /\ op' = op /\ to' \in [Addr -> Addr]
           /\ pc' \in Addr \cup {Brk} /\ rst' \in Seq(Addr)
           /\ \A x \in Addr : op[x] \in Immediate => to'[x] = to[x]
<1>1. After(pc) \in Addr /\ to[pc] \in Addr
  BY AfterValue
<1>2. CASE VmBreak \/ VmJump \/ VmBranch
  BY <1>1, <1>2 DEF VmBreak, VmJump, VmBranch
<1>3. CASE VmCall
  BY <1>1, <1>3 DEF VmCall
<1>4. CASE VmReturn \/ VmDrop
  BY <1>1, <1>4, FrontFacts DEF VmReturn, VmDrop
<1>5. CASE VmAdjust
  <2>1. rst[Len(rst)] \in Addr
    BY <1>5, FrontFacts DEF VmAdjust
  <2> QED
    BY <1>1, <1>5, <2>1, AfterValue DEF VmAdjust
<1>6. CASE VmStore
  <2>1. PICK a \in Addr, t \in Addr : op[a] \in Rechecked /\ to' = [to EXCEPT ![a] = t]
    BY <1>6 DEF VmStore
  <2> QED
    BY <1>1, <1>6, <2>1 DEF VmStore, Rechecked, Immediate
<1> QED
  BY <1>2, <1>3, <1>4, <1>5, <1>6 DEF VmStep

-----------------------------------------------------------------------------
(* No code, no frames.                                                     *)
LEMMA InitIInv == Init => IInv
<1> SUFFICES ASSUME Init PROVE IInv
  OBVIOUS
<1>1. PICK p \in Programs : op = p.op /\ to = p.to
  BY DEF Init, VmInit
<1>2. op \in [Addr -> Opcode] /\ to \in [Addr -> Addr]
  BY <1>1, ProgramsAssumption
<1>3. /\ pc = Brk /\ rst = <<>> /\ mode = "idle" /\ block = 0 /\ frames = <<>> /\ drops = 0
      /\ DOMAIN code = {} /\ DOMAIN frames = {}
  BY DEF Init, VmInit
<1>4. 0 \in Addr /\ 0 \in 0..MaxDrops
  BY TopAssumption, MaxDropsAssumption DEF Addr
<1>5. TypeOK
  BY <1>2, <1>3, <1>4 DEF TypeOK
<1>6. Blocks /\ Places /\ NativeDepth
  BY <1>3 DEF Blocks, Places, NativeDepth
<1> QED
  BY <1>5, <1>6 DEF IInv

(* One step per action.                                                    *)
LEMMA NextIInv == IInv /\ [Next]_vars => IInv'
<1> SUFFICES ASSUME IInv, [Next]_vars PROVE IInv'
  OBVIOUS
<1> USE TopAssumption, MaxRstAssumption, MaxDropsAssumption
<1>t. /\ op \in [Addr -> Opcode] /\ to \in [Addr -> Addr]
      /\ pc \in Addr \cup {Brk} /\ rst \in Seq(Addr)
      /\ DOMAIN code \subseteq Addr /\ \A b \in DOMAIN code : code[b] \in [Addr -> Addr]
      /\ block \in Addr /\ frames \in Seq(Frame)
      /\ \A i \in DOMAIN frames : frames[i].block \in DOMAIN code
      /\ drops \in 0..MaxDrops
      /\ Len(frames) \in Nat /\ Len(rst) \in Nat
  BY DEF IInv, TypeOK
<1>b. Blocks /\ Places /\ NativeDepth
  BY DEF IInv
<1>1. ASSUME NEW a \in Addr, execute(a) PROVE IInv'
  <2>1. /\ mode = "idle" /\ buxn_jit(a) /\ UNCHANGED <<op, to, rst, frames, drops>>
        /\ mode' = "native" /\ block' = a /\ pc' = a
    BY <1>1 DEF execute, Native
  <2>2. /\ a \in DOMAIN code' /\ DOMAIN code' \subseteq Addr
        /\ \A c \in DOMAIN code' : code'[c] \in [Addr -> Addr]
        /\ DOMAIN code \subseteq DOMAIN code' /\ Blocks'
    BY <2>1, NewBlocks
  <2>3. a # Brk
    BY DEF Addr, Brk
  <2>4. TypeOK'
    BY <1>t, <2>1, <2>2, <2>3 DEF TypeOK
  <2>5. Places'
    BY <1>b, <2>1, EntryInExtent, SameExtent DEF Places
  <2>6. NativeDepth'
    BY <1>t, <1>b, <2>1 DEF NativeDepth
  <2> QED
    BY <2>2, <2>4, <2>5, <2>6 DEF IInv
<1>2. CASE BRK
  <2>1. /\ mode = "native" /\ mode' = "return" /\ pc' = Brk
        /\ UNCHANGED <<op, to, rst, code, frames, drops, block>>
    BY <1>2 DEF BRK, InNative, Leave
  <2>2. TypeOK' /\ NativeDepth'
    BY <1>t, <1>b, <2>1 DEF TypeOK, NativeDepth
  <2>3. Blocks' /\ Places'
    BY <1>b, <2>1, SameBlocks, SameExtent DEF Places
  <2> QED
    BY <2>2, <2>3 DEF IInv
<1>3. CASE Jump
  <2>1. /\ mode = "native" /\ pc >= Zero /\ op[pc] \in Linkable /\ jump_abs
        /\ UNCHANGED <<op, to, rst, code, drops>>
    BY <1>3 DEF Jump, InNative, Jumps, Linkable, Immediate, Rechecked
  <2>2. /\ mode' \in {"native", "return"} /\ pc' \in Addr /\ pc' # Brk
        /\ block' \in DOMAIN code' /\ frames' = frames /\ Places'
    BY <2>1, JumpStep
  <2>3. TypeOK' /\ NativeDepth'
    BY <1>t, <1>b, <2>1, <2>2 DEF TypeOK, NativeDepth
  <2> QED
    BY <1>b, <2>1, <2>2, <2>3, SameBlocks DEF IInv
<1>4. CASE Branch
  <2>1. /\ mode = "native" /\ pc >= Zero /\ op[pc] \in Linkable /\ op[pc] \notin Final
        /\ UNCHANGED <<op, to, rst, code, drops>>
    BY <1>4 DEF Branch, InNative, Branches, Linkable, Immediate, Rechecked, Final, Jumps
  <2>2. /\ mode' \in {"native", "return"} /\ pc' \in Addr /\ pc' # Brk
        /\ block' \in DOMAIN code' /\ frames' = frames /\ Places'
    <3>1. CASE jump_abs
      BY <2>1, <3>1, JumpStep
    <3>2. CASE Native(block, After(pc)) /\ UNCHANGED frames
      <4>1. mode' = "native"
        BY <3>2 DEF Native
      <4> QED
        BY <2>1, <3>2, <4>1, StepInBlock
    <3> QED
      BY <1>4, <3>1, <3>2 DEF Branch
  <2>3. TypeOK' /\ NativeDepth'
    BY <1>t, <1>b, <2>1, <2>2 DEF TypeOK, NativeDepth
  <2> QED
    BY <1>b, <2>1, <2>2, <2>3, SameBlocks DEF IInv
<1>5. CASE Call
  <2>1. /\ mode = "native" /\ pc >= Zero /\ op[pc] \in Calls /\ call_abs(After(pc))
        /\ rst' = Append(rst, After(pc))
        /\ UNCHANGED <<op, to, code, drops>>
    BY <1>5 DEF Call, InNative
  <2>2. /\ mode' \in {"native", "return"} /\ pc' \in Addr /\ pc' # Brk
        /\ block' \in DOMAIN code' /\ frames' \in Seq(Frame)
        /\ Len(frames') \in {Len(frames), Len(frames) + 1}
        /\ \A i \in DOMAIN frames' : frames'[i].block \in DOMAIN code
        /\ Places'
    BY <2>1, CallStep
  <2>3. pc \in Addr
    BY <2>1 DEF IInv, TypeOK
  <2>4. rst' \in Seq(Addr) /\ Len(rst') = Len(rst) + 1
    BY <1>t, <2>1, <2>3, AfterValue
  <2>5. TypeOK'
    BY <1>t, <2>1, <2>2, <2>4 DEF TypeOK
  <2>6. NativeDepth'
    BY <1>t, <1>b, <2>1, <2>2, <2>4 DEF NativeDepth
  <2> QED
    BY <1>b, <2>1, <2>2, <2>5, <2>6, SameBlocks DEF IInv
<1>6. CASE Return
  <2>1. /\ mode = "native" /\ mode' = "return" /\ rst # <<>> /\ pc' = rst[Len(rst)]
        /\ rst' = Front(rst) /\ UNCHANGED <<op, to, code, frames, drops, block>>
    BY <1>6 DEF Return, InNative, Leave
  <2>2. rst' \in Seq(Addr) /\ Len(rst') = Len(rst) - 1 /\ pc' \in Addr
    BY <1>t, <2>1, FrontFacts
  <2>3. TypeOK' /\ NativeDepth'
    BY <1>t, <1>b, <2>1, <2>2 DEF TypeOK, NativeDepth
  <2>4. Blocks' /\ Places'
    BY <1>b, <2>1, SameBlocks, SameExtent DEF Places
  <2> QED
    BY <2>3, <2>4 DEF IInv
<1>7. CASE Drop
  <2>1. /\ mode = "native" /\ pc >= Zero /\ op[pc] \notin Final
        /\ rst # <<>> /\ drops < MaxDrops /\ drops' = drops + 1
        /\ rst' = Front(rst) /\ Native(block, After(pc))
        /\ mode' = "native" /\ block' = block /\ UNCHANGED <<op, to, code, frames>>
    BY <1>7 DEF Drop, InNative, Native, Final, Jumps
  <2>2. rst' \in Seq(Addr) /\ Len(rst') = Len(rst) - 1
    BY <1>t, <2>1, FrontFacts
  <2>3. pc' \in Addr /\ pc' # Brk /\ block' \in DOMAIN code' /\ Places'
    BY <2>1, StepInBlock
  <2>4. TypeOK' /\ NativeDepth'
    BY <1>t, <1>b, <2>1, <2>2, <2>3 DEF TypeOK, NativeDepth
  <2> QED
    BY <1>b, <2>1, <2>3, <2>4, SameBlocks DEF IInv
<1>8. CASE Adjust
  <2>1. /\ mode = "native" /\ pc >= Zero /\ op[pc] \notin Final
        /\ rst # <<>> /\ rst' = [rst EXCEPT ![Len(rst)] = After(@)]
        /\ Native(block, After(pc)) /\ mode' = "native" /\ block' = block
        /\ UNCHANGED <<op, to, code, frames, drops>>
    BY <1>8 DEF Adjust, InNative, Native, Final, Jumps
  <2>2. rst' \in Seq(Addr) /\ Len(rst') = Len(rst)
    <3>1. rst[Len(rst)] \in Addr
      BY <1>t, <2>1, FrontFacts
    <3> QED
      BY <1>t, <2>1, <3>1, AfterValue
  <2>3. pc' \in Addr /\ pc' # Brk /\ block' \in DOMAIN code' /\ Places'
    BY <2>1, StepInBlock
  <2>4. TypeOK' /\ NativeDepth'
    BY <1>t, <1>b, <2>1, <2>2, <2>3 DEF TypeOK, NativeDepth
  <2> QED
    BY <1>b, <2>1, <2>3, <2>4, SameBlocks DEF IInv
<1>9. CASE Store
  <2>1. /\ mode = "native" /\ pc >= Zero /\ op[pc] \notin Final
        /\ Native(block, After(pc)) /\ mode' = "native" /\ block' = block
        /\ UNCHANGED <<op, rst, code, frames, drops>>
    BY <1>9 DEF Store, InNative, Native, Final, Jumps
  <2>2. PICK a \in Addr, t \in Addr : op[a] \in Rechecked /\ to' = [to EXCEPT ![a] = t]
    BY <1>9 DEF Store
  <2>3. to' \in [Addr -> Addr] /\ \A x \in Addr : op[x] \in Immediate => to'[x] = to[x]
    BY <1>t, <2>2 DEF Rechecked, Immediate
  <2>4. pc' \in Addr /\ pc' # Brk /\ block' \in DOMAIN code' /\ Places'
    BY <2>1, StepInBlock
  <2>5. Blocks'
    BY <1>b, <2>1, <2>3, SameExtent DEF Blocks
  <2>6. TypeOK' /\ NativeDepth'
    BY <1>t, <1>b, <2>1, <2>3, <2>4 DEF TypeOK, NativeDepth
  <2> QED
    BY <2>4, <2>5, <2>6 DEF IInv
<1>10. CASE ZeroPage
  <2>1. /\ mode = "native" /\ mode' = "return" /\ pc' = pc
        /\ UNCHANGED <<op, to, rst, code, frames, drops, block>>
    BY <1>10 DEF ZeroPage, Leave
  <2>2. TypeOK' /\ NativeDepth'
    BY <1>t, <1>b, <2>1 DEF TypeOK, NativeDepth
  <2>3. Blocks' /\ Places'
    BY <1>b, <2>1, SameBlocks, SameExtent DEF Places
  <2> QED
    BY <2>2, <2>3 DEF IInv
<1>11. CASE Resume
  <2> DEFINE f == frames[Len(frames)]
  <2>1. /\ mode = "return" /\ frames # <<>> /\ pc = f.ret
        /\ mode' = "native" /\ block' = f.block /\ pc' = pc
        /\ frames' = Front(frames) /\ UNCHANGED <<op, to, rst, code, drops>>
    BY <1>11 DEF Resume, Native
  <2>2. /\ frames' \in Seq(Frame) /\ Len(frames') = Len(frames) - 1
        /\ DOMAIN frames' \subseteq DOMAIN frames
        /\ \A i \in DOMAIN frames' : frames'[i] = frames[i]
        /\ Len(frames) \in DOMAIN frames /\ f \in Frame
    BY <1>t, <2>1, FrontFacts
  <2>3. f.block \in DOMAIN code /\ f.ret \in Extent(f.block) /\ f.ret \in Addr
    BY <1>t, <1>b, <2>2 DEF Places, Frame
  <2> HIDE DEF f
  <2>4. pc # Brk
    BY <2>1, <2>3 DEF Addr, Brk
  <2>5. TypeOK'
    BY <1>t, <2>1, <2>2, <2>3, <2>4 DEF TypeOK
  <2>6. NativeDepth'
    BY <1>t, <1>b, <2>1, <2>2 DEF NativeDepth
  <2>7. Places'
    BY <1>b, <2>1, <2>2, <2>3, SameExtent DEF Places
  <2> QED
    BY <1>b, <2>1, <2>5, <2>6, <2>7, SameBlocks DEF IInv
<1>12. CASE PassOn
  <2>1. /\ mode = "return" /\ frames # <<>> /\ frames' = Front(frames)
        /\ UNCHANGED <<op, to, pc, rst, code, mode, block, drops>>
    BY <1>12 DEF PassOn
  <2>2. /\ frames' \in Seq(Frame) /\ Len(frames') = Len(frames) - 1
        /\ DOMAIN frames' \subseteq DOMAIN frames
        /\ \A i \in DOMAIN frames' : frames'[i] = frames[i]
    BY <1>t, <2>1, FrontFacts
  <2>3. TypeOK' /\ NativeDepth'
    BY <1>t, <1>b, <2>1, <2>2 DEF TypeOK, NativeDepth
  <2>4. Places'
    BY <1>b, <2>1, <2>2, SameExtent DEF Places
  <2> QED
    BY <1>b, <2>1, <2>3, <2>4, SameBlocks DEF IInv
<1>13. CASE Finish \/ Bounce
  <2>1. /\ frames = <<>> /\ drops' = 0 /\ mode' \in {"idle", "interpret"}
        /\ mode' = "idle" => pc = Brk
        /\ UNCHANGED <<op, to, pc, rst, code, block, frames>>
    BY <1>13 DEF Finish, Bounce, AtTrampoline
  <2>2. TypeOK' /\ NativeDepth'
    BY <1>t, <2>1 DEF TypeOK, NativeDepth
  <2>3. Places'
    BY <1>b, <2>1, SameExtent DEF Places
  <2> QED
    BY <1>b, <2>1, <2>2, <2>3, SameBlocks DEF IInv
<1>14. CASE translate_jump_addr
  <2>1. /\ frames = <<>> /\ drops' = 0 /\ pc \in Zero..Top /\ buxn_jit(pc)
        /\ mode' = "native" /\ block' = pc /\ pc' = pc
        /\ UNCHANGED <<op, to, rst, frames>>
    BY <1>14 DEF translate_jump_addr, AtTrampoline, Native
  <2>2. pc \in Addr /\ pc # Brk
    BY <2>1 DEF Addr, Brk
  <2>3. /\ pc \in DOMAIN code' /\ DOMAIN code' \subseteq Addr
        /\ \A c \in DOMAIN code' : code'[c] \in [Addr -> Addr]
        /\ DOMAIN code \subseteq DOMAIN code' /\ Blocks'
    BY <2>1, <2>2, NewBlocks
  <2>4. TypeOK'
    BY <1>t, <2>1, <2>2, <2>3 DEF TypeOK
  <2>5. Places'
    BY <1>b, <2>1, <2>2, EntryInExtent, SameExtent DEF Places
  <2>6. NativeDepth'
    BY <1>t, <2>1 DEF NativeDepth
  <2> QED
    BY <2>3, <2>4, <2>5, <2>6 DEF IInv
<1>15. CASE Interpret
  <2>1. /\ mode = "interpret" /\ VmStep
        /\ mode' = IF pc' = Brk THEN "idle" ELSE "interpret"
        /\ UNCHANGED <<code, block, frames, drops>>
    BY <1>15 DEF Interpret
  <2>2. pc \in Addr
    BY <1>t, <2>1 DEF VmStep
  <2>3. /\ op' = op /\ to' \in [Addr -> Addr]
        /\ pc' \in Addr \cup {Brk} /\ rst' \in Seq(Addr)
        /\ \A x \in Addr : op[x] \in Immediate => to'[x] = to[x]
    BY <1>t, <2>1, <2>2, InterpretType
  <2>4. TypeOK'
    BY <1>t, <2>1, <2>3 DEF TypeOK
  <2>5. Blocks'
    BY <1>b, <2>1, <2>3, SameExtent DEF Blocks
  <2>6. Places' /\ NativeDepth'
    BY <1>b, <2>1, <2>3, SameExtent DEF Places, NativeDepth
  <2> QED
    BY <2>4, <2>5, <2>6 DEF IInv
<1>16. CASE UNCHANGED vars
  <2>1. TypeOK' /\ NativeDepth'
    BY <1>16 DEF IInv, TypeOK, NativeDepth, vars
  <2>2. Blocks' /\ Places'
    BY <1>b, <1>16, SameBlocks, SameExtent DEF Places, vars
  <2> QED
    BY <2>1, <2>2 DEF IInv
<1> QED
  BY <1>1, <1>2, <1>3, <1>4, <1>5, <1>6, <1>7, <1>8, <1>9, <1>10, <1>11, <1>12, <1>13,
     <1>14, <1>15, <1>16 DEF Next, Unwind

(* The facts about blocks, places and depth hold through every action.     *)
THEOREM Invariance == Spec => []IInv
<1>1. Init => IInv
  BY InitIInv
<1>2. IInv /\ [Next]_vars => IInv'
  BY NextIInv
<1> QED
  BY <1>1, <1>2, PTL DEF Spec

(* Types; native code is always in a block that has code, and so are the   *)
(* frames: no jump or call in compiled code leads outside of it.           *)
THEOREM TypeCorrect == Spec => []TypeOK
<1>1. IInv => TypeOK
  BY DEF IInv
<1> QED
  BY <1>1, Invariance, PTL

(* The native stack grows with the program's return stack and no further,  *)
(* but for return addresses that were dropped.                             *)
THEOREM BoundedNativeStack == Spec => []NativeDepth
<1>1. IInv => NativeDepth
  BY DEF IInv
<1> QED
  BY <1>1, Invariance, PTL

-----------------------------------------------------------------------------
(* The refinement.  Steps of frames and of the trampoline are not seen by  *)
(* the interpreter; all others are its own.                                *)
LEMMA StepRefines == IInv /\ [Next]_vars => [VmStart \/ VmStep]_vmVars
<1> SUFFICES ASSUME IInv, [Next]_vars PROVE (VmStart \/ VmStep) \/ UNCHANGED vmVars
  OBVIOUS
<1>t. mode = "native" => pc # Brk
  BY DEF IInv, TypeOK
<1>1. ASSUME NEW a \in Addr, execute(a) PROVE VmStart
  BY <1>1 DEF execute, Native, VmStart, IInv, Places
<1>2. CASE BRK
  BY <1>2, <1>t DEF BRK, InNative, Leave, VmStep, VmBreak
<1>3. CASE Jump
  <2>1. /\ mode = "native" /\ pc >= Zero /\ op[pc] \in Linkable /\ op[pc] \in Jumps /\ jump_abs
        /\ UNCHANGED <<op, to, rst, code, drops>>
    BY <1>3 DEF Jump, InNative, Jumps, Linkable, Immediate, Rechecked
  <2>2. pc' = to[pc]
    BY <2>1, JumpStep
  <2> QED
    BY <2>1, <2>2, <1>t DEF VmStep, VmJump
<1>4. CASE Branch
  <2>1. /\ mode = "native" /\ pc >= Zero /\ op[pc] \in Linkable /\ op[pc] \in Branches
        /\ UNCHANGED <<op, to, rst, code, drops>>
    BY <1>4 DEF Branch, InNative, Branches, Linkable, Immediate, Rechecked
  <2>2. pc' \in {to[pc], After(pc)}
    BY <1>4, <2>1, JumpStep DEF Branch, Native
  <2> QED
    BY <2>1, <2>2, <1>t DEF VmStep, VmBranch
<1>5. CASE Call
  <2>1. /\ mode = "native" /\ pc >= Zero /\ op[pc] \in Calls /\ call_abs(After(pc))
        /\ Len(rst) < MaxRst /\ rst' = Append(rst, After(pc))
        /\ UNCHANGED <<op, to, code, drops>>
    BY <1>5 DEF Call, InNative
  <2>2. pc' = to[pc]
    BY <2>1, CallStep
  <2> QED
    BY <2>1, <2>2, <1>t DEF VmStep, VmCall
<1>6. CASE Return
  BY <1>6, <1>t DEF Return, InNative, Leave, VmStep, VmReturn
<1>7. CASE Drop
  BY <1>7, <1>t DEF Drop, InNative, Native, VmStep, VmDrop
<1>8. CASE Adjust
  BY <1>8, <1>t DEF Adjust, InNative, Native, VmStep, VmAdjust
<1>9. CASE Store
  BY <1>9, <1>t DEF Store, InNative, Native, VmStep, VmStore
<1>10. CASE ZeroPage
  BY <1>10 DEF ZeroPage, Leave, vmVars
<1>11. CASE Unwind
  BY <1>11 DEF Unwind, Resume, PassOn, Finish, Bounce, translate_jump_addr, AtTrampoline,
               Native, vmVars
<1>12. CASE Interpret
  BY <1>12 DEF Interpret
<1>13. CASE UNCHANGED vars
  BY <1>13 DEF vars, vmVars
<1> QED
  BY <1>1, <1>2, <1>3, <1>4, <1>5, <1>6, <1>7, <1>8, <1>9, <1>10, <1>11, <1>12, <1>13 DEF Next

(* buxn_jit_execute is a drop-in replacement for buxn_vm_execute as far as *)
(* control goes: it implements the interpreter's program counter and       *)
(* return stack, for every program.                                        *)
THEOREM DropInControl == Spec => Interpreter
<1>1. Init => VmInit
  BY DEF Init
<1>2. IInv /\ [Next]_vars => [VmStart \/ VmStep]_vmVars
  BY StepRefines
<1> QED
  BY <1>1, <1>2, Invariance, PTL DEF Spec, Interpreter, VmSpec
=============================================================================
