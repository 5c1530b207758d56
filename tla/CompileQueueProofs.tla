------------------------ MODULE CompileQueueProofs ------------------------
(***************************************************************************)
(* The driver for every set of addresses and every number of links.        *)
(*                                                                         *)
(* The argument has two halves.  The first is about the lists: an entry is *)
(* on one list or held by the function that works on it (Owned), shown for *)
(* allocation, enqueueing and dequeueing and then carried through every    *)
(* action.  The second is about what the entries say, and only looks at    *)
(* the sets of entries waiting to be compiled, linked and cleaned up       *)
(* (Records).                                                              *)
(***************************************************************************)
EXTENDS CompileQueue, FiniteSetTheorems, TLAPS

-----------------------------------------------------------------------------
(* Lists.                                                                  *)

(* Putting an entry in front of a list (enqueue).                          *)
LEMMA ConsElems ==
    ASSUME NEW T, NEW s \in Seq(T), NEW e \in T
    PROVE  /\ <<e>> \o s \in Seq(T)
           /\ Elems(<<e>> \o s) = Elems(s) \cup {e}
           /\ Injective(s) /\ e \notin Elems(s) => Injective(<<e>> \o s)
<1> DEFINE t == <<e>> \o s
<1>1. t \in Seq(T) /\ Len(t) = Len(s) + 1
  OBVIOUS
<1>2. t[1] = e /\ \A i \in 1..Len(s) : t[i + 1] = s[i]
  OBVIOUS
<1>3. \A i \in 1..Len(t) : i = 1 \/ (i - 1 \in 1..Len(s) /\ t[i] = s[i - 1])
  BY <1>1, <1>2
<1> HIDE DEF t
<1>4. Elems(t) = Elems(s) \cup {e}
  <2>1. ASSUME NEW x \in Elems(t) PROVE x \in Elems(s) \cup {e}
    <3>1. PICK i \in 1..Len(t) : x = t[i]
      BY <2>1 DEF Elems
    <3>2. CASE i = 1
      BY <1>2, <3>1, <3>2
    <3>3. CASE i # 1
      BY <1>3, <3>1, <3>3 DEF Elems
    <3> QED
      BY <3>2, <3>3
  <2>2. ASSUME NEW x \in Elems(s) PROVE x \in Elems(t)
    <3>1. PICK i \in 1..Len(s) : x = s[i]
      BY DEF Elems
    <3>2. i + 1 \in 1..Len(t) /\ t[i + 1] = x
      BY <1>1, <1>2, <3>1
    <3> QED
      BY <3>2 DEF Elems
  <2>3. e \in Elems(t)
    BY <1>1, <1>2 DEF Elems
  <2> QED
    BY <2>1, <2>2, <2>3
<1>5. ASSUME Injective(s), e \notin Elems(s),
             NEW i \in 1..Len(t), NEW j \in 1..Len(t), t[i] = t[j]
      PROVE  i = j
  <2>1. CASE i = 1
    BY <1>2, <1>3, <1>5, <2>1 DEF Elems
  <2>2. CASE j = 1
    BY <1>2, <1>3, <1>5, <2>2 DEF Elems
  <2>3. CASE i # 1 /\ j # 1
    <3>1. /\ i - 1 \in 1..Len(s) /\ t[i] = s[i - 1]
          /\ j - 1 \in 1..Len(s) /\ t[j] = s[j - 1]
      BY <1>3, <2>3
    <3>2. i - 1 = j - 1
      BY <1>5, <3>1 DEF Injective
    <3> QED
      BY <1>1, <3>2
  <2> QED
    BY <2>1, <2>2, <2>3
<1> QED
  BY <1>1, <1>4, <1>5 DEF t, Injective

(* Taking the first entry of a list (dequeue).                             *)
LEMMA TailElems ==
    ASSUME NEW s \in Seq(Nat), s # <<>>
    PROVE  /\ Tail(s) \in Seq(Nat)
           /\ Head(s) \in Nat
           /\ Head(s) \in Elems(s)
           /\ Injective(s) => /\ Injective(Tail(s))
                              /\ Elems(Tail(s)) = Elems(s) \ {Head(s)}
<1> DEFINE t == Tail(s)
<1>1. /\ t \in Seq(Nat) /\ Len(t) = Len(s) - 1 /\ Len(s) \in Nat /\ Len(s) > 0
      /\ \A i \in 1..Len(t) : t[i] = s[i + 1]
  OBVIOUS
<1>2. Head(s) = s[1] /\ Head(s) \in Nat /\ Head(s) \in Elems(s)
  BY <1>1 DEF Elems
<1>3. ASSUME Injective(s) PROVE Injective(t)
  BY <1>1, <1>3 DEF Injective
<1>4. ASSUME Injective(s) PROVE Elems(t) = Elems(s) \ {Head(s)}
  <2>1. ASSUME NEW x \in Elems(t) PROVE x \in Elems(s) /\ x # Head(s)
    <3>1. PICK i \in 1..Len(t) : x = t[i]
      BY <2>1 DEF Elems
    <3>2. i + 1 \in 1..Len(s) /\ x = s[i + 1] /\ 1 \in 1..Len(s) /\ i + 1 # 1
      BY <1>1, <3>1
    <3> QED
      BY <1>2, <1>4, <3>2 DEF Elems, Injective
  <2>2. ASSUME NEW x \in Elems(s), x # Head(s) PROVE x \in Elems(t)
    <3>1. PICK i \in 1..Len(s) : x = s[i]
      BY <2>2 DEF Elems
    <3>2. i # 1 /\ i - 1 \in 1..Len(t) /\ t[i - 1] = x
      BY <1>1, <1>2, <2>2, <3>1
    <3> QED
      BY <3>2 DEF Elems
  <2> QED
    BY <2>1, <2>2
<1> QED
  BY <1>1, <1>2, <1>3, <1>4

-----------------------------------------------------------------------------
(* Ownership, with the entries that are on no list because a function      *)
(* still works on them.                                                    *)
Owned(h, held) ==
    /\ h \in Heap
    /\ held \subseteq 1..Len(h.entry)
    /\ \A q \in Queues : Injective(h.queue[q])
    /\ \A q, r \in Queues : q # r => Elems(h.queue[q]) \cap Elems(h.queue[r]) = {}
    /\ \A q \in Queues : Elems(h.queue[q]) \subseteq 1..Len(h.entry) \ held
    /\ \A e \in 1..Len(h.entry) :
          e \in held \/ \E q \in Queues : e \in Elems(h.queue[q])

(* Only the entries count, so ownership is carried by the sets of entries. *)
LEMMA OwnedFacts ==
    ASSUME NEW h, NEW held, Owned(h, held)
    PROVE  /\ h.entry \in Seq(Entry)
           /\ h.queue \in [Queues -> Seq(Nat)]
           /\ \A q \in Queues : h.queue[q] \in Seq(Nat)
           /\ \A q \in Queues : Elems(h.queue[q]) \subseteq 1..Len(h.entry)
           /\ held \subseteq 1..Len(h.entry)
           /\ \A e \in 1..Len(h.entry) :
                e \in held \/ \E q \in Queues : e \in Elems(h.queue[q])
BY DEF Owned, Heap

(* What each operation on the lists leaves: g is the heap after it.        *)
Dequeued(h, held, q, e, g) ==
    /\ e \in Elems(h.queue[q])
    /\ e \notin held
    /\ e \in 1..Len(h.entry)
    /\ Owned(g, held \cup {e})
    /\ g.entry = h.entry
    /\ Elems(g.queue[q]) = Elems(h.queue[q]) \ {e}
    /\ \A r \in Queues : r # q => g.queue[r] = h.queue[r]

Enqueued(h, held, q, e, g) ==
    /\ Owned(g, held \ {e})
    /\ g.entry = h.entry
    /\ Elems(g.queue[q]) = Elems(h.queue[q]) \cup {e}
    /\ \A r \in Queues : r # q => g.queue[r] = h.queue[r]

Allocated(h, held, e, g) ==
    /\ Owned(g, held \cup {e})
    /\ e \notin held
    /\ g.entry[e] \in Entry
    /\ \A r \in Queues : r # "pool" => g.queue[r] = h.queue[r] /\ e \notin Elems(h.queue[r])
    /\ \A f \in 1..Len(h.entry) : f # e => g.entry[f] = h.entry[f]
    /\ 1..Len(h.entry) \subseteq 1..Len(g.entry)

Filled(h, held, e, rec, g) ==
    /\ Owned(g, held)
    /\ g.queue = h.queue
    /\ g.entry[e] = rec
    /\ Len(g.entry) = Len(h.entry)
    /\ \A f \in 1..Len(h.entry) : f # e => g.entry[f] = h.entry[f]

Added(h, held, q, e, rec, g) ==
    /\ Owned(g, held)
    /\ e \notin held
    /\ g.entry[e] = rec
    /\ Elems(g.queue[q]) = Elems(h.queue[q]) \cup {e}
    /\ \A r \in Queues : r # "pool" => e \notin Elems(h.queue[r])
    /\ \A r \in Queues : r # "pool" /\ r # q => g.queue[r] = h.queue[r]
    /\ \A f \in 1..Len(h.entry) : f # e => g.entry[f] = h.entry[f]
    /\ 1..Len(h.entry) \subseteq 1..Len(g.entry)

(* Taking an entry off a list: it is then held.                            *)
LEMMA DequeueOwned ==
    ASSUME NEW h, NEW held, Owned(h, held), NEW q \in Queues, h.queue[q] # <<>>
    PROVE  Dequeued(h, held, q, Head(h.queue[q]), dequeue(h, q))
<1> DEFINE e == Head(h.queue[q])
           g == dequeue(h, q)
<1>1. h \in Heap /\ h.entry \in Seq(Entry) /\ h.queue \in [Queues -> Seq(Nat)]
  BY OwnedFacts DEF Owned
<1>2. h.queue[q] \in Seq(Nat) /\ Injective(h.queue[q])
  BY <1>1 DEF Owned
<1>3. /\ Tail(h.queue[q]) \in Seq(Nat) /\ e \in Nat /\ e \in Elems(h.queue[q])
      /\ Injective(Tail(h.queue[q]))
      /\ Elems(Tail(h.queue[q])) = Elems(h.queue[q]) \ {e}
  BY <1>2, TailElems
<1>4. /\ g \in Heap /\ g.entry = h.entry
      /\ g.queue[q] = Tail(h.queue[q])
      /\ \A r \in Queues : r # q => g.queue[r] = h.queue[r]
  BY <1>1, <1>3 DEF dequeue, Heap
<1>5. e \notin held /\ e \in 1..Len(h.entry)
  BY <1>3, OwnedFacts DEF Owned
<1> HIDE DEF e, g
<1>6. Owned(g, held \cup {e})
  <2>1. \A r \in Queues : Injective(g.queue[r])
    BY <1>3, <1>4 DEF Owned
  <2>2. \A r \in Queues : Elems(g.queue[r]) \subseteq Elems(h.queue[r]) /\ e \notin Elems(g.queue[r])
    <3> TAKE r \in Queues
    <3>1. CASE r = q
      BY <1>3, <1>4, <3>1
    <3>2. CASE r # q
      BY <1>3, <1>4, <3>2 DEF Owned
    <3> QED
      BY <3>1, <3>2
  <2>3. \A r, u \in Queues : r # u => Elems(g.queue[r]) \cap Elems(g.queue[u]) = {}
    BY <2>2 DEF Owned
  <2>4. /\ held \cup {e} \subseteq 1..Len(g.entry)
        /\ \A r \in Queues : Elems(g.queue[r]) \subseteq 1..Len(g.entry) \ (held \cup {e})
    BY <1>4, <1>5, <2>2 DEF Owned
  <2>5. ASSUME NEW x \in 1..Len(g.entry), x \notin held \cup {e}
        PROVE  \E r \in Queues : x \in Elems(g.queue[r])
    <3>1. PICK r \in Queues : x \in Elems(h.queue[r])
      BY <1>4, <2>5, OwnedFacts
    <3>2. CASE r = q
      BY <1>3, <1>4, <2>5, <3>1, <3>2
    <3>3. CASE r # q
      BY <1>4, <3>1, <3>3
    <3> QED
      BY <3>2, <3>3
  <2> QED
    BY <1>3, <1>4, <2>1, <2>3, <2>4, <2>5 DEF Owned
<1> QED
  BY <1>3, <1>4, <1>5, <1>6 DEF e, g, Dequeued

(* Writing a held entry and putting it on a list.                          *)
LEMMA EnqueueOwned ==
    ASSUME NEW h, NEW held, Owned(h, held), NEW e \in held, NEW q \in Queues
    PROVE  Enqueued(h, held, q, e, enqueue(h, q, e))
<1> DEFINE g == enqueue(h, q, e)
           t == <<e>> \o h.queue[q]
<1>1. h \in Heap /\ h.entry \in Seq(Entry) /\ h.queue \in [Queues -> Seq(Nat)]
  BY OwnedFacts DEF Owned
<1>2. h.queue[q] \in Seq(Nat) /\ Injective(h.queue[q]) /\ e \in Nat /\ e \notin Elems(h.queue[q])
  BY <1>1 DEF Owned
<1>3. t \in Seq(Nat) /\ Elems(t) = Elems(h.queue[q]) \cup {e} /\ Injective(t)
  BY <1>2, ConsElems
<1> HIDE DEF t
<1>4. /\ g \in Heap /\ g.entry = h.entry /\ g.queue[q] = t
      /\ \A r \in Queues : r # q => g.queue[r] = h.queue[r]
  BY <1>1, <1>3 DEF enqueue, Heap, t
<1> HIDE DEF g
<1>5. Owned(g, held \ {e})
  <2>1. \A r \in Queues : Injective(g.queue[r])
    BY <1>3, <1>4 DEF Owned
  <2>2. \A r \in Queues : Elems(g.queue[r]) \subseteq Elems(h.queue[r]) \cup {e}
    BY <1>3, <1>4
  <2>3. \A r \in Queues : r # q => Elems(g.queue[r]) = Elems(h.queue[r]) /\ e \notin Elems(g.queue[r])
    BY <1>4 DEF Owned
  <2>4. \A r, u \in Queues : r # u => Elems(g.queue[r]) \cap Elems(g.queue[u]) = {}
    <3> SUFFICES ASSUME NEW r \in Queues, NEW u \in Queues, r # u
                 PROVE  Elems(g.queue[r]) \cap Elems(g.queue[u]) = {}
      OBVIOUS
    <3>1. Elems(h.queue[r]) \cap Elems(h.queue[u]) = {}
      BY DEF Owned
    <3>2. CASE r # q /\ u # q
      BY <2>3, <3>1, <3>2
    <3>3. CASE r = q
      BY <2>2, <2>3, <3>1, <3>3
    <3>4. CASE u = q
      BY <2>2, <2>3, <3>1, <3>4
    <3> QED
      BY <3>2, <3>3, <3>4
  <2>5. /\ held \ {e} \subseteq 1..Len(g.entry)
        /\ \A r \in Queues : Elems(g.queue[r]) \subseteq 1..Len(g.entry) \ (held \ {e})
    BY <1>4, <2>2 DEF Owned
  <2>6. ASSUME NEW x \in 1..Len(g.entry), x \notin held \ {e}
        PROVE  \E r \in Queues : x \in Elems(g.queue[r])
    BY <1>3, <1>4, <2>6, OwnedFacts
  <2> QED
    BY <1>4, <2>1, <2>4, <2>5, <2>6 DEF Owned
<1> QED
  BY <1>3, <1>4, <1>5 DEF g, Enqueued

(* alloc_entry: an entry from the pool or a new one, held from then on.    *)
LEMMA AllocOwned ==
    ASSUME NEW h, NEW held, Owned(h, held)
    PROVE  Allocated(h, held, AllocId(h), alloc_entry(h))
<1> DEFINE e == AllocId(h)
           g == alloc_entry(h)
<1>1. h \in Heap /\ h.entry \in Seq(Entry) /\ h.queue \in [Queues -> Seq(Nat)] /\ "pool" \in Queues
  BY OwnedFacts DEF Owned, Queues
<1>2. CASE h.queue["pool"] # <<>>
  <2>1. e = Head(h.queue["pool"]) /\ g = dequeue(h, "pool")
    BY <1>2 DEF AllocId, alloc_entry
  <2> HIDE DEF e, g
  <2>2. /\ e \in Elems(h.queue["pool"]) /\ e \notin held /\ e \in 1..Len(h.entry)
        /\ Owned(g, held \cup {e}) /\ g.entry = h.entry
        /\ \A r \in Queues : r # "pool" => g.queue[r] = h.queue[r]
    <3>1. Dequeued(h, held, "pool", e, g)
      BY <1>1, <1>2, <2>1, DequeueOwned
    <3> QED
      BY <3>1 DEF Dequeued
  <2>3. \A r \in Queues : r # "pool" => e \notin Elems(h.queue[r])
    BY <1>1, <2>2 DEF Owned
  <2>4. g.entry[e] \in Entry
    BY <1>1, <2>2
  <2>5. Allocated(h, held, e, g)
    BY <2>2, <2>3, <2>4 DEF Allocated
  <2> QED
    BY <2>5 DEF e, g
<1>3. CASE h.queue["pool"] = <<>>
  <2>1. e = Len(h.entry) + 1 /\ g = [h EXCEPT !.entry = Append(@, Blank)]
    BY <1>3 DEF AllocId, alloc_entry
  <2>2. Blank \in Entry
    BY DEF Blank, Entry, LinkType
  <2> HIDE DEF e, g
  <2>a. Append(h.entry, Blank) \in Seq(Entry)
    BY <1>1, <2>2
  <2>3. /\ g \in Heap /\ g.queue = h.queue /\ g.entry = Append(h.entry, Blank)
        /\ g.entry \in Seq(Entry)
    BY <1>1, <2>1, <2>a DEF Heap
  <2>4. /\ Len(h.entry) \in Nat /\ Len(g.entry) = Len(h.entry) + 1
        /\ \A f \in 1..Len(h.entry) : g.entry[f] = h.entry[f]
        /\ g.entry[e] \in Entry
    BY <1>1, <2>1, <2>2, <2>3
  <2>5. /\ e \notin 1..Len(h.entry) /\ e \in 1..Len(g.entry)
        /\ 1..Len(h.entry) \subseteq 1..Len(g.entry)
        /\ 1..Len(g.entry) = 1..Len(h.entry) \cup {e}
    BY <2>1, <2>4
  <2>6. e \notin held /\ \A r \in Queues : e \notin Elems(h.queue[r])
    BY <2>5 DEF Owned
  <2>7. Owned(g, held \cup {e})
    BY <2>3, <2>5, <2>6 DEF Owned
  <2>8. Allocated(h, held, e, g)
    BY <2>3, <2>4, <2>5, <2>6, <2>7 DEF Allocated
  <2> QED
    BY <2>8 DEF e, g
<1> QED
  BY <1>2, <1>3

(* Writing to a held entry touches no list.                                *)
LEMMA FillOwned ==
    ASSUME NEW h, NEW held, Owned(h, held), NEW e \in held, NEW rec \in Entry
    PROVE  Filled(h, held, e, rec, Fill(h, e, rec))
<1> DEFINE g == Fill(h, e, rec)
<1>1. h \in Heap /\ h.entry \in Seq(Entry) /\ e \in 1..Len(h.entry)
  BY OwnedFacts DEF Owned
<1>a. [h.entry EXCEPT ![e] = rec] \in Seq(Entry)
  BY <1>1
<1>2. /\ g.queue = h.queue /\ g.entry = [h.entry EXCEPT ![e] = rec]
      /\ g \in Heap /\ g.entry \in Seq(Entry)
  BY <1>1, <1>a DEF Fill, Heap
<1>3. /\ Len(g.entry) = Len(h.entry) /\ g.entry[e] = rec
      /\ \A f \in 1..Len(h.entry) : f # e => g.entry[f] = h.entry[f]
  BY <1>1, <1>2
<1> HIDE DEF g
<1>4. Owned(g, held)
  BY <1>2, <1>3 DEF Owned
<1> QED
  BY <1>2, <1>3, <1>4 DEF g, Filled

(* Allocate, write, enqueue: what AddCompile and AddCleanup do to the      *)
(* lists, whatever they write.                                             *)
LEMMA AddOwned ==
    ASSUME NEW h, NEW held, Owned(h, held), NEW q \in Queues, q # "pool", NEW rec \in Entry
    PROVE  Added(h, held, q, AllocId(h), rec,
                 enqueue(Fill(alloc_entry(h), AllocId(h), rec), q, AllocId(h)))
<1> DEFINE e == AllocId(h)
           a == alloc_entry(h)
           b == Fill(a, e, rec)
           g == enqueue(b, q, e)
           hold == held \cup {e}
<1>1. Allocated(h, held, e, a)
  BY AllocOwned
<1> HIDE DEF e, a
<1>2. Owned(a, hold) /\ e \in hold
  BY <1>1 DEF Allocated
<1> HIDE DEF hold
<1>3. Filled(a, hold, e, rec, b)
  BY <1>2, FillOwned
<1> HIDE DEF b
<1>4. Owned(b, hold)
  BY <1>3 DEF Filled
<1>5. Enqueued(b, hold, q, e, g)
  BY <1>2, <1>4, EnqueueOwned
<1> HIDE DEF g
<1>6. /\ Owned(g, held) /\ e \notin held
      /\ \A r \in Queues : r # "pool" => e \notin Elems(h.queue[r])
  <2>1. e \notin held /\ hold \ {e} = held
    BY <1>1 DEF Allocated, hold
  <2>2. Owned(g, hold \ {e})
    BY <1>5 DEF Enqueued
  <2> QED
    BY <1>1, <2>1, <2>2 DEF Allocated
<1>7. /\ g.entry[e] = rec
      /\ \A f \in 1..Len(h.entry) : f # e => g.entry[f] = h.entry[f]
      /\ 1..Len(h.entry) \subseteq 1..Len(g.entry)
  BY <1>1, <1>3, <1>5 DEF Allocated, Filled, Enqueued
<1>8. /\ Elems(g.queue[q]) = Elems(h.queue[q]) \cup {e}
      /\ \A r \in Queues : r # "pool" /\ r # q => g.queue[r] = h.queue[r]
  BY <1>1, <1>3, <1>5 DEF Allocated, Filled, Enqueued
<1>9. Added(h, held, q, e, rec, g)
  BY <1>6, <1>7, <1>8 DEF Added
<1> QED
  BY <1>9 DEF e, a, b, g

-----------------------------------------------------------------------------
(* What the entries say.  C, K and L are the entries waiting to be         *)
(* compiled (with the one being compiled), cleaned up and linked, ent the  *)
(* entries; the others are blocks, compiler, compiled, links and patched.  *)
JumpOf(rec) == [from |-> rec.at, n |-> rec.n, link_type |-> rec.link_type, to |-> rec.block]

(* A block waits to be compiled in one entry until it has code.            *)
CompileRecords(C, ent, bl, cp, cd) ==
    /\ \A e \in C : /\ ent[e].kind = "pc"
                    /\ ent[e].block \in bl
                    /\ ent[e].block \notin cd
                    /\ ent[e].compiler = ent[e].block
                    /\ cp[ent[e].compiler] = "live"
    /\ \A e, f \in C : ent[e].block = ent[f].block => e = f
    /\ \A pc \in bl : pc \in cd \/ \E e \in C : ent[e].block = pc

(* A live compiler waits to be freed in one entry.                         *)
CleanupRecords(K, ent, cp) ==
    /\ \A e \in K : ent[e].compiler \in Addr /\ cp[ent[e].compiler] = "live"
    /\ \A e, f \in K : ent[e].compiler = ent[f].compiler => e = f
    /\ \A pc \in Addr : cp[pc] = "live" => \E e \in K : ent[e].compiler = pc

(* A jump waits to be linked until it is patched, and its compiler lives.  *)
LinkRecords(L, ent, bl, cp, lk, pt) ==
    /\ \A e \in L : /\ ent[e].kind = "jump"
                    /\ ent[e].at \in Addr
                    /\ cp[ent[e].at] = "live"
                    /\ JumpOf(ent[e]) \in lk
    /\ \A j \in lk : j.to \in bl
    /\ \A j \in lk : j \in pt \/ \E e \in L : JumpOf(ent[e]) = j
    /\ pt \subseteq lk

(* A block of the map has had a compiler, and only it may have code.       *)
BlockRecords(bl, cp, cd) ==
    /\ bl \subseteq Addr
    /\ cd \subseteq bl
    /\ cp \in [Addr -> {"none", "live", "freed"}]
    /\ \A pc \in Addr : pc \in bl <=> cp[pc] # "none"

Records(C, K, L, ent, bl, cp, cd, lk, pt) ==
    /\ CompileRecords(C, ent, bl, cp, cd)
    /\ CleanupRecords(K, ent, cp)
    /\ LinkRecords(L, ent, bl, cp, lk, pt)
    /\ BlockRecords(bl, cp, cd)

(* queue_block of a new address.                                           *)
LEMMA NewBlockRecords ==
    ASSUME NEW C, NEW K, NEW L, NEW ent, NEW ent2, NEW bl, NEW cp, NEW cd, NEW lk, NEW pt,
           Records(C, K, L, ent, bl, cp, cd, lk, pt),
           NEW pc \in Addr, pc \notin bl,
           NEW c, c \notin C, NEW k, k \notin K,
           \A f \in C \cup K \cup L : ent2[f] = ent[f],
           ent2[c].kind = "pc", ent2[c].block = pc, ent2[c].compiler = pc,
           ent2[k].compiler = pc
    PROVE  Records(C \cup {c}, K \cup {k}, L, ent2, bl \cup {pc},
                   [cp EXCEPT ![pc] = "live"], cd, lk, pt)
<1> DEFINE cp2 == [cp EXCEPT ![pc] = "live"]
<1>1. /\ cp \in [Addr -> {"none", "live", "freed"}] /\ cp[pc] = "none" /\ pc \notin cd
      /\ bl \subseteq Addr
  BY DEF Records, BlockRecords
<1>2. /\ cp2 \in [Addr -> {"none", "live", "freed"}] /\ cp2[pc] = "live"
      /\ \A p \in Addr : p # pc => cp2[p] = cp[p]
  BY <1>1
<1>3. \A p \in Addr : cp[p] = "live" => cp2[p] = "live" /\ p # pc
  BY <1>1, <1>2
<1> HIDE DEF cp2
<1>4. CompileRecords(C \cup {c}, ent2, bl \cup {pc}, cp2, cd)
  <2>1. CompileRecords(C, ent, bl, cp, cd)
    BY DEF Records
  <2>2. \A e \in C : ent2[e] = ent[e]
    OBVIOUS
  <2>3. \A e \in C : ent[e].block \in Addr /\ ent[e].block # pc
    BY <1>1, <2>1 DEF CompileRecords
  <2>4. ASSUME NEW e \in C \cup {c}
        PROVE  /\ ent2[e].kind = "pc" /\ ent2[e].block \in bl \cup {pc}
               /\ ent2[e].block \notin cd /\ ent2[e].compiler = ent2[e].block
               /\ cp2[ent2[e].compiler] = "live"
    BY <1>1, <1>2, <1>3, <2>1, <2>2, <2>3 DEF CompileRecords
  <2>5. ASSUME NEW e \in C \cup {c}, NEW f \in C \cup {c}, ent2[e].block = ent2[f].block
        PROVE  e = f
    BY <2>1, <2>2, <2>3, <2>5 DEF CompileRecords
  <2>6. ASSUME NEW p \in bl \cup {pc}
        PROVE  p \in cd \/ \E e \in C \cup {c} : ent2[e].block = p
    BY <2>1, <2>2 DEF CompileRecords
  <2> QED
    BY <2>4, <2>5, <2>6 DEF CompileRecords
<1>5. CleanupRecords(K \cup {k}, ent2, cp2)
  <2>1. CleanupRecords(K, ent, cp)
    BY DEF Records
  <2>2. \A e \in K : ent2[e] = ent[e] /\ ent[e].compiler # pc
    BY <1>1, <2>1 DEF CleanupRecords
  <2> QED
    BY <1>2, <1>3, <2>1, <2>2 DEF CleanupRecords
<1>6. LinkRecords(L, ent2, bl \cup {pc}, cp2, lk, pt)
  BY <1>3 DEF Records, LinkRecords
<1>7. BlockRecords(bl \cup {pc}, cp2, cd)
  BY <1>1, <1>2 DEF Records, BlockRecords
<1> QED
  BY <1>4, <1>5, <1>6, <1>7 DEF Records, cp2

(* jump_abs: a jump of a block that is being compiled to a known block.    *)
LEMMA NewLinkRecords ==
    ASSUME NEW C, NEW K, NEW L, NEW ent, NEW ent2, NEW bl, NEW cp, NEW cd, NEW lk, NEW pt,
           Records(C, K, L, ent, bl, cp, cd, lk, pt),
           NEW e, \A f \in C \cup K \cup L : ent2[f] = ent[f],
           ent2[e].kind = "jump", ent2[e].at \in Addr, cp[ent2[e].at] = "live",
           ent2[e].block \in bl
    PROVE  Records(C, K, L \cup {e}, ent2, bl, cp, cd, lk \cup {JumpOf(ent2[e])}, pt)
<1>1. CompileRecords(C, ent2, bl, cp, cd)
  BY DEF Records, CompileRecords
<1>2. CleanupRecords(K, ent2, cp)
  BY DEF Records, CleanupRecords
<1>3. LinkRecords(L \cup {e}, ent2, bl, cp, lk \cup {JumpOf(ent2[e])}, pt)
  <2>1. LinkRecords(L, ent, bl, cp, lk, pt)
    BY DEF Records
  <2>2. JumpOf(ent2[e]).to \in bl
    BY DEF JumpOf
  <2>3. \A f \in L : ent2[f] = ent[f]
    OBVIOUS
  <2> QED
    BY <2>1, <2>2, <2>3 DEF LinkRecords
<1> QED
  BY <1>1, <1>2, <1>3 DEF Records

(* compile_end: the block has code.                                        *)
LEMMA CompiledRecords ==
    ASSUME NEW C, NEW K, NEW L, NEW ent, NEW bl, NEW cp, NEW cd, NEW lk, NEW pt,
           Records(C, K, L, ent, bl, cp, cd, lk, pt), NEW c \in C
    PROVE  Records(C \ {c}, K, L, ent, bl, cp, cd \cup {ent[c].block}, lk, pt)
<1>1. CompileRecords(C \ {c}, ent, bl, cp, cd \cup {ent[c].block})
  BY DEF Records, CompileRecords
<1>2. BlockRecords(bl, cp, cd \cup {ent[c].block})
  BY DEF Records, CompileRecords, BlockRecords
<1> QED
  BY <1>1, <1>2 DEF Records

(* link: the jump has its address.                                         *)
LEMMA LinkedRecords ==
    ASSUME NEW C, NEW K, NEW L, NEW ent, NEW bl, NEW cp, NEW cd, NEW lk, NEW pt,
           Records(C, K, L, ent, bl, cp, cd, lk, pt), NEW e \in L
    PROVE  Records(C, K, L \ {e}, ent, bl, cp, cd, lk, pt \cup {JumpOf(ent[e])})
<1>1. LinkRecords(L \ {e}, ent, bl, cp, lk, pt \cup {JumpOf(ent[e])})
  BY DEF Records, LinkRecords
<1> QED
  BY <1>1 DEF Records

(* cleanup: with nothing left to compile or to link.                       *)
LEMMA FreedRecords ==
    ASSUME NEW K, NEW ent, NEW bl, NEW cp, NEW cd, NEW lk, NEW pt,
           Records({}, K, {}, ent, bl, cp, cd, lk, pt), NEW e \in K
    PROVE  Records({}, K \ {e}, {}, ent, bl, [cp EXCEPT ![ent[e].compiler] = "freed"],
                   cd, lk, pt)
<1> DEFINE pc  == ent[e].compiler
           cp2 == [cp EXCEPT ![pc] = "freed"]
<1>1. pc \in Addr /\ cp[pc] = "live" /\ cp \in [Addr -> {"none", "live", "freed"}]
  BY DEF Records, CleanupRecords, BlockRecords
<1> HIDE DEF pc
<1>2. /\ cp2 \in [Addr -> {"none", "live", "freed"}] /\ cp2[pc] = "freed"
      /\ \A p \in Addr : p # pc => cp2[p] = cp[p]
  BY <1>1
<1> HIDE DEF cp2
<1>3. CompileRecords({}, ent, bl, cp2, cd)
  BY DEF Records, CompileRecords
<1>4. CleanupRecords(K \ {e}, ent, cp2)
  <2>1. CleanupRecords(K, ent, cp)
    BY DEF Records
  <2>2. \A f \in K : f # e => ent[f].compiler \in Addr /\ ent[f].compiler # pc
    BY <2>1 DEF CleanupRecords, pc
  <2>3. \A p \in Addr : cp2[p] = "live" => p # pc /\ cp[p] = "live"
    BY <1>2
  <2>4. ent[e].compiler = pc
    BY DEF pc
  <2> QED
    BY <1>2, <2>1, <2>2, <2>3, <2>4 DEF CleanupRecords
<1>5. LinkRecords({}, ent, bl, cp2, lk, pt)
  BY DEF Records, LinkRecords
<1>6. BlockRecords(bl, cp2, cd)
  BY <1>1, <1>2 DEF Records, BlockRecords
<1> QED
  BY <1>3, <1>4, <1>5, <1>6 DEF Records, cp2, pc

-----------------------------------------------------------------------------
(* Both halves together: the heap h while X is being compiled.             *)
Waiting(h, X, bl, cp, cd, lk, pt) ==
    Records(Elems(h.queue["compile"]) \cup X, Elems(h.queue["cleanup"]),
            Elems(h.queue["link"]), h.entry, bl, cp, cd, lk, pt)

(* Records looks at no entry but the ones that wait.                       *)
LEMMA SameRecords ==
    ASSUME NEW C, NEW K, NEW L, NEW ent, NEW ent2, NEW bl, NEW cp, NEW cd, NEW lk, NEW pt,
           Records(C, K, L, ent, bl, cp, cd, lk, pt),
           \A f \in C \cup K \cup L : ent2[f] = ent[f]
    PROVE  Records(C, K, L, ent2, bl, cp, cd, lk, pt)
<1>1. CompileRecords(C, ent2, bl, cp, cd)
  BY DEF Records, CompileRecords
<1>2. CleanupRecords(K, ent2, cp)
  BY DEF Records, CleanupRecords
<1>3. LinkRecords(L, ent2, bl, cp, lk, pt)
  BY DEF Records, LinkRecords
<1> QED
  BY <1>1, <1>2, <1>3 DEF Records

(* The two entries of a new block: c to compile it, k to free its compiler.*)
Queued(h, held, pc, c, k, g) ==
    /\ Owned(g, held)
    /\ c \notin held /\ k \notin held
    /\ \A r \in Queues : r # "pool" => c \notin Elems(h.queue[r]) /\ k \notin Elems(h.queue[r])
    /\ g.entry[c].kind = "pc" /\ g.entry[c].block = pc /\ g.entry[c].compiler = pc
    /\ g.entry[k].compiler = pc
    /\ Elems(g.queue["compile"]) = Elems(h.queue["compile"]) \cup {c}
    /\ Elems(g.queue["cleanup"]) = Elems(h.queue["cleanup"]) \cup {k}
    /\ g.queue["link"] = h.queue["link"]
    /\ \A f \in 1..Len(h.entry) : f # c /\ f # k => g.entry[f] = h.entry[f]

(* queue_block of a new address makes these two entries.                   *)
LEMMA QueuedOwned ==
    ASSUME NEW h, NEW held, Owned(h, held), NEW pc \in Addr
    PROVE  \E c, k : Queued(h, held, pc, c, k, AddCleanup(AddCompile(h, pc), pc))
<1> DEFINE c  == AllocId(h)
           r1 == CompileEntry(alloc_entry(h).entry[c], pc)
           m  == AddCompile(h, pc)
           k  == AllocId(m)
           r2 == CleanupEntry(alloc_entry(m).entry[k], pc)
           g  == AddCleanup(m, pc)
<1>0. "compile" \in Queues /\ "cleanup" \in Queues /\ "link" \in Queues
  BY DEF Queues
<1>1. r1 \in Entry /\ r1.kind = "pc" /\ r1.block = pc /\ r1.compiler = pc
  <2>1. alloc_entry(h).entry[c] \in Entry
    BY AllocOwned DEF Allocated
  <2> HIDE DEF c
  <2> QED
    BY <2>1 DEF CompileEntry, Entry
<1>2. Added(h, held, "compile", c, r1, m)
  <2>1. m = enqueue(Fill(alloc_entry(h), c, r1), "compile", c)
    BY DEF AddCompile
  <2> HIDE DEF r1, m
  <2> QED
    BY <1>0, <1>1, <2>1, AddOwned
<1> HIDE DEF c, r1, m
<1>3. Owned(m, held)
  BY <1>2 DEF Added
<1>4. r2 \in Entry /\ r2.compiler = pc
  <2>1. alloc_entry(m).entry[k] \in Entry
    BY <1>3, AllocOwned DEF Allocated
  <2> HIDE DEF k
  <2> QED
    BY <2>1 DEF CleanupEntry, Entry
<1>5. Added(m, held, "cleanup", k, r2, g)
  <2>1. g = enqueue(Fill(alloc_entry(m), k, r2), "cleanup", k)
    BY DEF AddCleanup
  <2> HIDE DEF r2, g
  <2> QED
    BY <1>0, <1>3, <1>4, <2>1, AddOwned
<1> HIDE DEF k, r2, g
<1>6. c \in 1..Len(m.entry) /\ k # c
  BY <1>0, <1>2, <1>3, <1>5 DEF Added, Owned
<1>7. /\ g.entry[c] = r1 /\ g.entry[k] = r2
      /\ \A f \in 1..Len(h.entry) : f # c /\ f # k => g.entry[f] = h.entry[f]
  BY <1>2, <1>5, <1>6 DEF Added
<1>8. /\ Elems(g.queue["compile"]) = Elems(h.queue["compile"]) \cup {c}
      /\ Elems(g.queue["cleanup"]) = Elems(h.queue["cleanup"]) \cup {k}
      /\ g.queue["link"] = h.queue["link"]
  BY <1>0, <1>2, <1>5 DEF Added
<1>9. \A r \in Queues : r # "pool" => c \notin Elems(h.queue[r]) /\ k \notin Elems(h.queue[r])
  <2> SUFFICES ASSUME NEW r \in Queues, r # "pool"
               PROVE  c \notin Elems(h.queue[r]) /\ k \notin Elems(h.queue[r])
    OBVIOUS
  <2>1. c \notin Elems(h.queue[r]) /\ k \notin Elems(m.queue[r])
    BY <1>2, <1>5 DEF Added
  <2>2. Elems(h.queue[r]) \subseteq Elems(m.queue[r])
    BY <1>2 DEF Added
  <2> QED
    BY <2>1, <2>2
<1>10. Queued(h, held, pc, c, k, g)
  <2>1. Owned(g, held) /\ c \notin held /\ k \notin held
    BY <1>2, <1>5 DEF Added
  <2> QED
    BY <1>1, <1>4, <1>7, <1>8, <1>9, <2>1 DEF Queued
<1> QED
  BY <1>10 DEF g, m

(* queue_block, whether or not the block is known.  X is being compiled.   *)
QueueBlockDone(h, held, X, pc, g) ==
    /\ Owned(g, held)
    /\ Waiting(g, X, blocks \cup {pc},
               IF pc \in blocks THEN compiler ELSE [compiler EXCEPT ![pc] = "live"],
               compiled, links, patched)
    /\ \A f \in held : g.entry[f] = h.entry[f]
    /\ g.queue["link"] = h.queue["link"]

(* queue_block keeps both halves of the argument.                          *)
LEMMA QueueBlockInv ==
    ASSUME NEW h, NEW held, NEW X, Owned(h, held), X \subseteq held, NEW pc \in Addr,
           Waiting(h, X, blocks, compiler, compiled, links, patched)
    PROVE  QueueBlockDone(h, held, X, pc, QueueBlockHeap(h, pc))
<1>1. CASE pc \in blocks
  <2>1. QueueBlockHeap(h, pc) = h /\ blocks \cup {pc} = blocks
    BY <1>1 DEF QueueBlockHeap
  <2> QED
    BY <1>1, <2>1 DEF QueueBlockDone
<1>2. CASE pc \notin blocks
  <2> DEFINE g == QueueBlockHeap(h, pc)
             C == Elems(h.queue["compile"]) \cup X
             K == Elems(h.queue["cleanup"])
             L == Elems(h.queue["link"])
             cp2 == [compiler EXCEPT ![pc] = "live"]
  <2>1. PICK c, k : Queued(h, held, pc, c, k, g)
    BY <1>2, QueuedOwned DEF QueueBlockHeap
  <2> HIDE DEF g
  <2>2. "compile" \in Queues /\ "cleanup" \in Queues /\ "link" \in Queues
    BY DEF Queues
  <2>3. held \subseteq 1..Len(h.entry) /\ C \cup K \cup L \subseteq 1..Len(h.entry)
    BY <2>2 DEF Owned
  <2>4. c \notin C /\ k \notin K /\ \A f \in C \cup K \cup L : f # c /\ f # k
    BY <2>1, <2>2 DEF Queued
  <2>5. \A f \in C \cup K \cup L : g.entry[f] = h.entry[f]
    BY <2>1, <2>3, <2>4 DEF Queued
  <2>6. Records(C, K, L, h.entry, blocks, compiler, compiled, links, patched)
    BY DEF Waiting
  <2>7. /\ Elems(g.queue["compile"]) \cup X = C \cup {c}
        /\ Elems(g.queue["cleanup"]) = K \cup {k}
        /\ Elems(g.queue["link"]) = L
    BY <2>1 DEF Queued
  <2> HIDE DEF C, K, L
  <2>8. Records(C \cup {c}, K \cup {k}, L, g.entry, blocks \cup {pc}, cp2,
                compiled, links, patched)
    <3>1. /\ g.entry[c].kind = "pc" /\ g.entry[c].block = pc /\ g.entry[c].compiler = pc
          /\ g.entry[k].compiler = pc
      BY <2>1 DEF Queued
    <3> QED
      BY <1>2, <2>4, <2>5, <2>6, <3>1, NewBlockRecords
  <2>9. /\ Owned(g, held) /\ g.queue["link"] = h.queue["link"]
        /\ \A f \in held : g.entry[f] = h.entry[f]
    BY <2>1, <2>3 DEF Queued
  <2>10. Waiting(g, X, blocks \cup {pc}, cp2, compiled, links, patched)
    BY <2>7, <2>8 DEF Waiting
  <2>11. QueueBlockDone(h, held, X, pc, g)
    BY <1>2, <2>9, <2>10 DEF QueueBlockDone
  <2> QED
    BY <2>11 DEF g
<1> QED
  BY <1>1, <1>2

-----------------------------------------------------------------------------
(* The inductive invariant.  Ownership and NoUseAfterFree are not          *)
(* inductive: that an entry of the link queue has a live compiler rests on *)
(* every live compiler having an entry in the cleanup queue, which is only *)
(* emptied after the others.                                               *)
Held == {current} \ {0}

Idle == /\ current = 0
        /\ \A q \in Queues : q # "pool" => heap.queue[q] = <<>>

IInv ==
    /\ current \in Nat
    /\ Owned(heap, Held)
    /\ Waiting(heap, Held, blocks, compiler, compiled, links, patched)
    /\ links \subseteq Jump /\ IsFiniteSet(links)
    /\ IsFiniteSet(blocks) /\ num_blocks = Cardinality(blocks)
    /\ busy \in BOOLEAN
    /\ request \in Addr \cup {None}
    /\ ~busy => Idle

(* An empty list has no entries.                                           *)
LEMMA EmptyElems == Elems(<<>>) = {}
BY DEF Elems

(* The counters of queue_block.                                            *)
LEMMA QueueBlockCount ==
    ASSUME NEW pc \in Addr, IsFiniteSet(blocks), num_blocks = Cardinality(blocks), queue_block(pc)
    PROVE  IsFiniteSet(blocks') /\ num_blocks' = Cardinality(blocks')
<1>1. blocks' = blocks \cup {pc}
  BY DEF queue_block
<1>2. /\ IsFiniteSet(blocks \cup {pc})
      /\ Cardinality(blocks \cup {pc}) =
           IF pc \in blocks THEN Cardinality(blocks) ELSE Cardinality(blocks) + 1
  BY FS_AddElement
<1> QED
  BY <1>1, <1>2 DEF queue_block

(* Before the first call there is nothing.                                 *)
LEMMA InitIInv == Init => IInv
<1> SUFFICES ASSUME Init PROVE IInv
  OBVIOUS
<1>1. /\ heap.entry = <<>> /\ \A q \in Queues : heap.queue[q] = <<>>
      /\ heap \in Heap
  BY DEF Init, Heap
<1>2. Held = {} /\ \A q \in Queues : Elems(heap.queue[q]) = {}
  BY <1>1, EmptyElems DEF Init, Held
<1>3. Owned(heap, Held)
  <2>1. Len(heap.entry) = 0 /\ 1..Len(heap.entry) = {} /\ Injective(<<>>)
    BY <1>1 DEF Injective
  <2> QED
    BY <1>1, <1>2, <2>1 DEF Owned
<1>4. Waiting(heap, Held, blocks, compiler, compiled, links, patched)
  <2>1. "compile" \in Queues /\ "cleanup" \in Queues /\ "link" \in Queues
    BY DEF Queues
  <2>2. Records({}, {}, {}, heap.entry, blocks, compiler, compiled, links, patched)
    BY DEF Init, Records, CompileRecords, CleanupRecords, LinkRecords, BlockRecords
  <2> QED
    BY <1>2, <2>1, <2>2 DEF Waiting
<1>5. IsFiniteSet({}) /\ Cardinality({}) = 0
  BY FS_EmptySet
<1> QED
  BY <1>1, <1>3, <1>4, <1>5 DEF Init, IInv, Idle

(* While buxn_jit is not running every block has code.                     *)
LEMMA IdleCompiled ==
    ASSUME IInv, Idle
    PROVE  compiled = blocks /\ blocks \subseteq Addr
<1>1. "compile" \in Queues /\ "compile" # "pool"
  BY DEF Queues
<1>2. Elems(heap.queue["compile"]) \cup Held = {}
  BY <1>1, EmptyElems DEF Idle, Held
<1> QED
  BY <1>2 DEF IInv, Waiting, Records, CompileRecords, BlockRecords

(* buxn_jit: a call finds nothing waiting, and leaves at once or with a    *)
(* new block waiting.                                                      *)
LEMMA CallIInv ==
    ASSUME IInv, NEW pc \in Addr, buxn_jit(pc)
    PROVE  IInv'
<1>1. Held' = Held /\ current' = current /\ compiled' = compiled /\ links' = links /\ patched' = patched
  BY DEF buxn_jit, Held
<1>2. QueueBlockDone(heap, Held, Held, pc, QueueBlockHeap(heap, pc))
  BY QueueBlockInv DEF IInv
<1>3. Owned(heap', Held')
  BY <1>1, <1>2 DEF QueueBlockDone, buxn_jit
<1>4. Waiting(heap', Held', blocks', compiler', compiled', links', patched')
  BY <1>1, <1>2 DEF QueueBlockDone, buxn_jit, queue_block
<1>5. IsFiniteSet(blocks') /\ num_blocks' = Cardinality(blocks')
  BY QueueBlockCount DEF IInv, buxn_jit
<1>6. ASSUME ~busy' PROVE Idle'
  <2>1. Idle /\ pc \in compiled
    BY <1>6 DEF IInv, buxn_jit
  <2>2. heap' = heap
    BY <2>1, IdleCompiled DEF buxn_jit, QueueBlockHeap
  <2> QED
    BY <1>1, <2>1, <2>2 DEF Idle
<1> QED
  BY <1>1, <1>3, <1>4, <1>5, <1>6 DEF IInv, buxn_jit

(* The compile loop takes an entry: it is held instead of queued.          *)
LEMMA CompileBeginIInv ==
    ASSUME IInv, compile_begin
    PROVE  IInv'
<1> DEFINE e == Head(heap.queue["compile"])
           g == dequeue(heap, "compile")
<1>0. "compile" \in Queues /\ "cleanup" \in Queues /\ "link" \in Queues
  BY DEF Queues
<1>1. Held = {} /\ current' = e /\ heap' = g
  BY DEF compile_begin, Held
<1>2. Dequeued(heap, Held, "compile", e, g)
  BY <1>0, DequeueOwned DEF IInv, compile_begin
<1> HIDE DEF e, g
<1>3. e \in Nat /\ e # 0 /\ Held' = {e}
  <2>1. e \in 1..Len(heap.entry) /\ heap.entry \in Seq(Entry)
    BY <1>2, OwnedFacts DEF Dequeued, IInv
  <2> QED
    BY <1>1, <2>1 DEF Held
<1>4. Owned(heap', Held')
  BY <1>1, <1>2, <1>3 DEF Dequeued
<1>5. Waiting(heap', Held', blocks, compiler, compiled, links, patched)
  <2>1. /\ Elems(g.queue["compile"]) \cup {e} = Elems(heap.queue["compile"]) \cup Held
        /\ g.queue["cleanup"] = heap.queue["cleanup"] /\ g.queue["link"] = heap.queue["link"]
        /\ g.entry = heap.entry
    BY <1>0, <1>1, <1>2 DEF Dequeued
  <2> QED
    BY <1>1, <1>3, <2>1 DEF IInv, Waiting
<1> QED
  BY <1>1, <1>3, <1>4, <1>5 DEF IInv, compile_begin

(* The end of buxn_jit_compile: the block has code, its entry is pooled.   *)
LEMMA CompileEndIInv ==
    ASSUME IInv, compile_end
    PROVE  IInv'
<1> DEFINE g == enqueue(heap, "pool", current)
           C == Elems(heap.queue["compile"])
<1>0. "compile" \in Queues /\ "cleanup" \in Queues /\ "link" \in Queues /\ "pool" \in Queues
  BY DEF Queues
<1>1. current # 0 /\ Held = {current} /\ Held' = {} /\ current' = 0 /\ heap' = g /\ busy
  BY DEF compile_end, Held, IInv, Idle
<1>2. Enqueued(heap, Held, "pool", current, g)
  BY <1>0, <1>1, EnqueueOwned DEF IInv
<1> HIDE DEF g
<1>3. Owned(heap', Held')
  BY <1>1, <1>2 DEF Enqueued
<1>4. Waiting(heap', Held', blocks, compiler, compiled', links, patched)
  <2>1. current \notin C
    BY <1>0, <1>1 DEF IInv, Owned
  <2>2. Records(C \cup Held, Elems(heap.queue["cleanup"]), Elems(heap.queue["link"]),
                heap.entry, blocks, compiler, compiled, links, patched)
    BY DEF IInv, Waiting
  <2>3. /\ g.queue["compile"] = heap.queue["compile"] /\ g.queue["cleanup"] = heap.queue["cleanup"]
        /\ g.queue["link"] = heap.queue["link"] /\ g.entry = heap.entry
    BY <1>0, <1>2 DEF Enqueued
  <2> HIDE DEF C
  <2>4. (C \cup Held) \ {current} = C \cup Held' /\ current \in C \cup Held
    BY <1>1, <2>1
  <2>5. Records((C \cup Held) \ {current}, Elems(heap.queue["cleanup"]), Elems(heap.queue["link"]),
                heap.entry, blocks, compiler, compiled \cup {heap.entry[current].block}, links, patched)
    BY <2>2, <2>4, CompiledRecords
  <2>6. compiled' = compiled \cup {heap.entry[current].block}
    BY DEF compile_end
  <2> QED
    BY <1>1, <2>3, <2>4, <2>5, <2>6 DEF Waiting, C
<1> QED
  BY <1>1, <1>3, <1>4 DEF IInv, compile_end

(* jump_abs takes its link entry before queue_block takes two more, while  *)
(* compile still holds its own: e must stay apart from all of them.        *)
LEMMA JumpIInv ==
    ASSUME IInv, NEW link_type \in LinkType, NEW to \in Addr, jump_abs(link_type, to)
    PROVE  IInv'
<1> DEFINE from == heap.entry[current].compiler
           jump == [from |-> from, n |-> JumpCount(from) + 1, link_type |-> link_type, to |-> to]
           e    == AllocId(heap)
           a    == alloc_entry(heap)
           hold == Held \cup {e}
           b    == QueueBlockHeap(a, to)
           rec  == LinkEntry(jump)
           d    == Fill(b, e, rec)
           g    == enqueue(d, "link", e)
           cp2  == IF to \in blocks THEN compiler ELSE [compiler EXCEPT ![to] = "live"]
<1>0. "compile" \in Queues /\ "cleanup" \in Queues /\ "link" \in Queues /\ "pool" \in Queues
  BY DEF Queues
<1>1. /\ current # 0 /\ Held = {current} /\ Held' = Held /\ current' = current /\ busy
      /\ heap' = g /\ links' = links \cup {jump} /\ queue_block(to)
      /\ compiled' = compiled /\ patched' = patched /\ busy' = busy /\ request' = request
  BY DEF jump_abs, Held, IInv, Idle
<1>2. blocks' = blocks \cup {to} /\ compiler' = cp2
  BY <1>1 DEF queue_block
<1>3. from \in Addr
  BY <1>1 DEF IInv, Waiting, Records, CompileRecords, BlockRecords
<1>4. JumpCount(from) \in Nat
  <2> DEFINE S == { j \in links : j.from = from }
  <2>1. S \subseteq links /\ IsFiniteSet(links)
    BY DEF IInv
  <2> HIDE DEF S
  <2>2. IsFiniteSet(S)
    BY <2>1, FS_Subset
  <2>3. Cardinality(S) \in Nat
    BY <2>2, FS_CardinalityType
  <2> QED
    BY <2>3 DEF JumpCount, S
<1> HIDE DEF from
<1>5. jump \in Jump
  BY <1>3, <1>4 DEF Jump
<1>6. /\ rec \in Entry /\ rec.kind = "jump" /\ rec.at = from /\ rec.block = to
      /\ JumpOf(rec) = jump
  BY <1>3, <1>4 DEF LinkEntry, Entry, JumpOf
<1> HIDE DEF jump, rec
<1>7. Allocated(heap, Held, e, a)
  BY AllocOwned DEF IInv
<1> HIDE DEF e, a
<1>8. Owned(a, hold) /\ Held \subseteq hold /\ e \in hold /\ e \notin Held
  BY <1>7 DEF Allocated
<1>9. Waiting(a, Held, blocks, compiler, compiled, links, patched)
  <2>1. /\ a.queue["compile"] = heap.queue["compile"] /\ a.queue["cleanup"] = heap.queue["cleanup"]
        /\ a.queue["link"] = heap.queue["link"]
    BY <1>0, <1>7 DEF Allocated
  <2> DEFINE C == Elems(heap.queue["compile"]) \cup Held
             K == Elems(heap.queue["cleanup"])
             L == Elems(heap.queue["link"])
  <2>2. C \cup K \cup L \subseteq 1..Len(heap.entry)
    BY <1>0 DEF IInv, Owned
  <2>3. \A f \in C \cup K \cup L : f # e
    BY <1>0, <1>7 DEF Allocated
  <2>4. \A f \in C \cup K \cup L : a.entry[f] = heap.entry[f]
    BY <1>7, <2>2, <2>3 DEF Allocated
  <2>5. Records(C, K, L, heap.entry, blocks, compiler, compiled, links, patched)
    BY DEF IInv, Waiting
  <2> HIDE DEF C, K, L
  <2>6. Records(C, K, L, a.entry, blocks, compiler, compiled, links, patched)
    BY <2>4, <2>5, SameRecords
  <2> QED
    BY <2>1, <2>6 DEF Waiting, C, K, L
<1> HIDE DEF hold
<1>10. QueueBlockDone(a, hold, Held, to, b)
  BY <1>8, <1>9, QueueBlockInv
<1> HIDE DEF b
<1>11. Owned(b, hold) /\ Waiting(b, Held, blocks', compiler', compiled, links, patched)
  BY <1>2, <1>10 DEF QueueBlockDone
<1>12. Filled(b, hold, e, rec, d)
  BY <1>6, <1>8, <1>11, FillOwned
<1> HIDE DEF d
<1>13. Enqueued(d, hold, "link", e, g)
  BY <1>0, <1>8, <1>12, EnqueueOwned DEF Filled
<1> HIDE DEF g
<1>14. Owned(heap', Held')
  <2>1. hold \ {e} = Held
    BY <1>8 DEF hold
  <2> QED
    BY <1>1, <1>13, <2>1 DEF Enqueued
<1>15. Waiting(heap', Held', blocks', compiler', compiled', links', patched')
  <2> DEFINE C == Elems(b.queue["compile"]) \cup Held
             K == Elems(b.queue["cleanup"])
             L == Elems(b.queue["link"])
  <2>1. C \cup K \cup L \subseteq 1..Len(b.entry) /\ \A f \in C \cup K \cup L : f # e
    BY <1>0, <1>8, <1>11 DEF Owned
  <2>2. \A f \in C \cup K \cup L : g.entry[f] = b.entry[f]
    BY <1>12, <1>13, <2>1 DEF Filled, Enqueued
  <2>3. g.entry[e] = rec
    BY <1>12, <1>13 DEF Filled, Enqueued
  <2>4. Records(C, K, L, b.entry, blocks', compiler', compiled, links, patched)
    BY <1>11 DEF Waiting
  <2>5. compiler'[from] = "live"
    <3>1. current \in C /\ current \in Held
      BY <1>1
    <3>2. compiler'[b.entry[current].compiler] = "live"
      BY <2>4, <3>1 DEF Records, CompileRecords
    <3>3. b.entry[current] = a.entry[current]
      BY <1>8, <1>10, <3>1 DEF QueueBlockDone
    <3>4. a.entry[current] = heap.entry[current]
      BY <1>7, <1>8, <3>1, OwnedFacts DEF Allocated, IInv
    <3> QED
      BY <3>2, <3>3, <3>4 DEF from
  <2>6. /\ Elems(g.queue["compile"]) \cup Held = C /\ Elems(g.queue["cleanup"]) = K
        /\ Elems(g.queue["link"]) = L \cup {e}
    BY <1>0, <1>12, <1>13 DEF Filled, Enqueued
  <2> HIDE DEF C, K, L
  <2>7. Records(C, K, L \cup {e}, g.entry, blocks', compiler', compiled,
                links \cup {JumpOf(g.entry[e])}, patched)
    <3>1. /\ g.entry[e].kind = "jump" /\ g.entry[e].at \in Addr
          /\ compiler'[g.entry[e].at] = "live" /\ g.entry[e].block \in blocks'
      BY <1>2, <1>3, <1>6, <2>3, <2>5
    <3> HIDE DEF cp2
    <3> QED
      BY <2>2, <2>4, <3>1, NewLinkRecords
  <2> QED
    BY <1>1, <1>6, <2>3, <2>6, <2>7 DEF Waiting
<1>16. links' \subseteq Jump /\ IsFiniteSet(links')
  BY <1>1, <1>5, FS_AddElement DEF IInv
<1>17. IsFiniteSet(blocks') /\ num_blocks' = Cardinality(blocks')
  BY <1>1, QueueBlockCount DEF IInv
<1> QED
  BY <1>1, <1>14, <1>15, <1>16, <1>17 DEF IInv

(* link and cleanup move the first entry of a list to the pool.            *)
Recycled(h, q, e, g) ==
    /\ Owned(g, {})
    /\ e \in Elems(h.queue[q])
    /\ g.entry = h.entry
    /\ Elems(g.queue[q]) = Elems(h.queue[q]) \ {e}
    /\ \A r \in Queues : r # q /\ r # "pool" => g.queue[r] = h.queue[r]

(* The entry that link or cleanup has handled is owned by the pool.        *)
LEMMA RecycleOwned ==
    ASSUME NEW h, Owned(h, {}), NEW q \in Queues, q # "pool", h.queue[q] # <<>>
    PROVE  Recycled(h, q, Head(h.queue[q]),
                    enqueue(dequeue(h, q), "pool", Head(h.queue[q])))
<1> DEFINE e == Head(h.queue[q])
           a == dequeue(h, q)
           g == enqueue(a, "pool", e)
<1>0. "pool" \in Queues
  BY DEF Queues
<1>1. Dequeued(h, {}, q, e, a)
  BY DequeueOwned
<1> HIDE DEF e, a
<1>2. Owned(a, {e})
  BY <1>1 DEF Dequeued
<1>3. Enqueued(a, {e}, "pool", e, g)
  BY <1>0, <1>2, EnqueueOwned
<1> HIDE DEF g
<1>4. Owned(g, {})
  <2>1. {e} \ {e} = {}
    OBVIOUS
  <2> QED
    BY <1>3, <2>1 DEF Enqueued
<1>5. Recycled(h, q, e, g)
  BY <1>1, <1>3, <1>4 DEF Dequeued, Enqueued, Recycled
<1> QED
  BY <1>5 DEF e, a, g

(* The link loop: with nothing left to compile its target has code, so the *)
(* jump is patched.                                                        *)
LEMMA LinkIInv ==
    ASSUME IInv, link
    PROVE  IInv'
<1> DEFINE e == Head(heap.queue["link"])
           g == enqueue(dequeue(heap, "link"), "pool", e)
           C == Elems(heap.queue["compile"]) \cup Held
           K == Elems(heap.queue["cleanup"])
           L == Elems(heap.queue["link"])
<1>0. "compile" \in Queues /\ "cleanup" \in Queues /\ "link" \in Queues
  BY DEF Queues
<1>1. Held = {} /\ Held' = {} /\ current' = 0 /\ current = 0 /\ heap' = g /\ busy /\ busy'
  BY DEF link, Held
<1>2. Recycled(heap, "link", e, g)
  BY <1>0, <1>1, RecycleOwned DEF IInv, link
<1>3. C = {}
  BY <1>1, EmptyElems DEF link
<1>4. Records(C, K, L, heap.entry, blocks, compiler, compiled, links, patched)
  BY DEF IInv, Waiting
<1>5. patched' = patched \cup {JumpOf(heap.entry[e])}
  <2>1. e \in L
    BY <1>2 DEF Recycled
  <2> HIDE DEF e, L
  <2>2. JumpOf(heap.entry[e]) \in links
    BY <1>4, <2>1 DEF Records, LinkRecords
  <2>3. JumpOf(heap.entry[e]).to = heap.entry[e].block
    BY DEF JumpOf
  <2>4. heap.entry[e].block \in blocks
    BY <1>4, <2>2, <2>3 DEF Records, LinkRecords
  <2>5. heap.entry[e].block \in compiled
    BY <1>3, <1>4, <2>4 DEF Records, CompileRecords
  <2> QED
    BY <2>5 DEF link, JumpOf, e
<1> HIDE DEF e, g
<1>6. Waiting(heap', Held', blocks, compiler, compiled, links, patched')
  <2>1. /\ g.queue["compile"] = heap.queue["compile"] /\ g.queue["cleanup"] = heap.queue["cleanup"]
        /\ Elems(g.queue["link"]) = L \ {e} /\ g.entry = heap.entry /\ e \in L
    BY <1>0, <1>2 DEF Recycled
  <2> HIDE DEF C, K, L
  <2>2. Records(C, K, L \ {e}, heap.entry, blocks, compiler, compiled, links,
                patched \cup {JumpOf(heap.entry[e])})
    BY <1>4, <2>1, LinkedRecords
  <2> QED
    BY <1>1, <1>5, <2>1, <2>2 DEF Waiting, C, K
<1> QED
  BY <1>1, <1>2, <1>6 DEF IInv, link, Recycled

(* The cleanup loop: nobody is left who would use the compiler it frees.   *)
LEMMA CleanupIInv ==
    ASSUME IInv, cleanup
    PROVE  IInv'
<1> DEFINE e == Head(heap.queue["cleanup"])
           g == enqueue(dequeue(heap, "cleanup"), "pool", e)
           K == Elems(heap.queue["cleanup"])
<1>0. "compile" \in Queues /\ "cleanup" \in Queues /\ "link" \in Queues
  BY DEF Queues
<1>1. /\ Held = {} /\ Held' = {} /\ current' = 0 /\ current = 0 /\ heap' = g /\ busy /\ busy'
      /\ compiler' = [compiler EXCEPT ![heap.entry[e].compiler] = "freed"]
  BY DEF cleanup, Held
<1>2. Recycled(heap, "cleanup", e, g)
  BY <1>0, <1>1, RecycleOwned DEF IInv, cleanup
<1>3. /\ Elems(heap.queue["compile"]) = {} /\ Elems(heap.queue["link"]) = {}
  BY EmptyElems DEF cleanup
<1> HIDE DEF e, g
<1>4. Records({}, K, {}, heap.entry, blocks, compiler, compiled, links, patched)
  <2>1. Elems(heap.queue["compile"]) \cup Held = {}
    BY <1>1, <1>3
  <2> QED
    BY <1>3, <2>1 DEF IInv, Waiting
<1>5. /\ Elems(g.queue["compile"]) = {} /\ Elems(g.queue["link"]) = {}
      /\ Elems(g.queue["cleanup"]) = K \ {e} /\ g.entry = heap.entry /\ e \in K
  BY <1>0, <1>2, <1>3 DEF Recycled
<1> HIDE DEF K
<1>6. Records({}, K \ {e}, {}, heap.entry, blocks, compiler', compiled, links, patched)
  BY <1>1, <1>4, <1>5, FreedRecords
<1>7. Waiting(heap', Held', blocks, compiler', compiled, links, patched)
  <2>1. Elems(heap'.queue["compile"]) \cup Held' = {}
    BY <1>1, <1>5
  <2> QED
    BY <1>1, <1>5, <1>6, <2>1 DEF Waiting
<1> QED
  BY <1>1, <1>2, <1>7 DEF IInv, cleanup, Recycled

(* The return of buxn_jit: nothing waits.                                  *)
LEMMA ReturnIInv ==
    ASSUME IInv, return
    PROVE  IInv'
<1>1. Held' = Held /\ current' = current /\ heap' = heap
  BY DEF return, Held
<1>2. Idle'
  BY <1>1 DEF return, Idle
<1>3. Waiting(heap', Held', blocks', compiler', compiled', links', patched')
  BY <1>1 DEF IInv, return
<1>4. Owned(heap', Held')
  BY <1>1 DEF IInv
<1> QED
  BY <1>1, <1>2, <1>3, <1>4 DEF IInv, return

(* One case per action of the driver.                                      *)
LEMMA NextIInv == IInv /\ [Next]_vars => IInv'
<1> SUFFICES ASSUME IInv, [Next]_vars PROVE IInv'
  OBVIOUS
<1>1. ASSUME NEW pc \in Addr, buxn_jit(pc) PROVE IInv'
  BY <1>1, CallIInv
<1>2. CASE compile_begin
  BY <1>2, CompileBeginIInv
<1>3. ASSUME NEW link_type \in LinkType, NEW to \in Addr, jump_abs(link_type, to) PROVE IInv'
  BY <1>3, JumpIInv
<1>4. CASE compile_end
  BY <1>4, CompileEndIInv
<1>5. CASE link
  BY <1>5, LinkIInv
<1>6. CASE cleanup
  BY <1>6, CleanupIInv
<1>7. CASE return
  BY <1>7, ReturnIInv
<1>8. CASE UNCHANGED vars
  <2>1. Held' = Held
    BY <1>8 DEF vars, Held
  <2> QED
    BY <1>8, <2>1 DEF vars, IInv, Idle, Waiting
<1> QED
  BY <1>1, <1>2, <1>3, <1>4, <1>5, <1>6, <1>7, <1>8 DEF Next, Progress

(* Lists and records of the driver stay consistent through every action.   *)
THEOREM Invariance == Spec => []IInv
<1>1. Init => IInv
  BY InitIInv
<1>2. IInv /\ [Next]_vars => IInv'
  BY NextIInv
<1> QED
  BY <1>1, <1>2, PTL DEF Spec

-----------------------------------------------------------------------------
(* Type correctness of the driver's state.                                 *)
THEOREM TypeCorrect == Spec => []TypeOK
<1>1. IInv => TypeOK
  <2> SUFFICES ASSUME IInv PROVE TypeOK
    OBVIOUS
  <2>1. heap \in Heap
    BY DEF IInv, Owned
  <2>2. /\ blocks \subseteq Addr /\ compiled \subseteq Addr
        /\ compiler \in [Addr -> {"none", "live", "freed"}] /\ patched \subseteq links
    BY DEF IInv, Waiting, Records, BlockRecords, LinkRecords
  <2>3. num_blocks \in Nat
    BY FS_CardinalityType DEF IInv
  <2> QED
    BY <2>1, <2>2, <2>3 DEF IInv, TypeOK
<1> QED
  BY <1>1, Invariance, PTL

(* The entries of jit.c's lists: each is on one list or held by compile,   *)
(* and none is lost, however alloc_entry's reuse and the loops interleave. *)
THEOREM EntriesOwned == Spec => []Ownership
<1>1. IInv => Ownership
  <2> SUFFICES ASSUME IInv PROVE Ownership
    OBVIOUS
  <2>1. Owned(heap, Held) /\ heap.entry \in Seq(Entry)
    BY OwnedFacts DEF IInv
  <2>2. \A e \in 1..Len(heap.entry) : e \in Held <=> e = current
    BY <2>1 DEF Held
  <2> QED
    BY <2>1, <2>2 DEF Owned, Ownership
<1> QED
  BY <1>1, Invariance, PTL

(* No compiler is used or freed after it was freed, and link never reads a *)
(* pc as a jump.                                                           *)
THEOREM NoStaleCompiler == Spec => []NoUseAfterFree
<1>1. IInv => NoUseAfterFree
  BY DEF IInv, Waiting, Records, CompileRecords, LinkRecords, CleanupRecords, Held, NoUseAfterFree
<1> QED
  BY <1>1, Invariance, PTL

(* What the records say once nothing waits.                                *)
LEMMA IInvLinked == IInv => Linked
<1> SUFFICES ASSUME IInv, ~busy PROVE Linked
  BY DEF Linked
<1>1. Idle
  BY DEF IInv
<1>2. compiled = blocks
  BY <1>1, IdleCompiled
<1>3. Elems(heap.queue["link"]) = {} /\ Elems(heap.queue["cleanup"]) = {}
  <2>1. "link" \in Queues /\ "cleanup" \in Queues /\ "link" # "pool" /\ "cleanup" # "pool"
    BY DEF Queues
  <2> QED
    BY <1>1, <2>1, EmptyElems DEF Idle
<1>4. patched = links /\ \A j \in links : j.to \in compiled
  BY <1>2, <1>3 DEF IInv, Waiting, Records, LinkRecords
<1>5. \A pc \in Addr : compiler[pc] # "live"
  BY <1>3 DEF IInv, Waiting, Records, CleanupRecords
<1> QED
  BY <1>2, <1>4, <1>5 DEF Linked

(* Whenever buxn_jit has returned, all the code it knows is there, linked  *)
(* and without a compiler.                                                 *)
THEOREM AllLinked == Spec => []Linked
<1>1. IInv => Linked
  BY IInvLinked
<1> QED
  BY <1>1, Invariance, PTL

(* stats.num_blocks is the size of the block map.                          *)
THEOREM BlockCount == Spec => []BlocksCounted
<1>1. IInv => BlocksCounted
  BY DEF IInv, BlocksCounted
<1> QED
  BY <1>1, Invariance, PTL

(* sljit_generate_code is called once for a block.                         *)
THEOREM NeverRecompiled == Spec => CompiledOnce
<1>1. IInv /\ [Next]_vars
        => [current' = 0 /\ current # 0 => heap.entry[current].block \notin compiled]_vars
  BY DEF IInv, Waiting, Records, CompileRecords, Held
<1> QED
  BY <1>1, Invariance, PTL DEF Spec, CompiledOnce
=============================================================================
