------------------------- MODULE AddrMappingProofs -------------------------
(***************************************************************************)
(* The chunks of addr_mapping.h, for every chunk size.                     *)
(***************************************************************************)
EXTENDS AddrMapping, ListFacts

-----------------------------------------------------------------------------
(* Chunks of mappings in Mapping.                                          *)
Chunks(Mapping) == [chunk : Seq(Seq(Mapping)), list : Seq(Nat), pool : Seq(Nat)]

(* ChunkOwned, list by list.                                               *)
LEMMA ChunkOwnedParts ==
    ASSUME NEW M, NEW h \in Chunks(M)
    PROVE  ChunkOwned(h) <=> /\ IsInjective(h.list)
                             /\ IsInjective(h.pool)
                             /\ ToSet(h.list) \cap ToSet(h.pool) = {}
                             /\ ToSet(h.list) \cup ToSet(h.pool) = DOMAIN h.chunk
                             /\ \A c \in DOMAIN h.chunk : Len(h.chunk[c]) <= ChunkSize
<1>1. h.list \in Seq(Nat) /\ h.pool \in Seq(Nat)
  BY DEF Chunks
<1> QED
  BY <1>1, ConcatFacts DEF ChunkOwned

(* A hook starts without chunks.                                           *)
LEMMA NoChunksOwned ==
    ASSUME NEW M
    PROVE  NoChunks \in Chunks(M) /\ ChunkOwned(NoChunks) /\ Mappings(NoChunks) = <<>>
<1>1. NoChunks \in Chunks(M) /\ NoChunks.list \o NoChunks.pool = <<>> /\ NoChunks.chunk = <<>>
  BY DEF NoChunks, Chunks
<1>2. ChunkOwned(NoChunks)
  BY <1>1 DEF ChunkOwned, IsInjective, ToSet
<1>3. NoChunks.list = <<>>
  BY DEF NoChunks
<1>4. Mappings(NoChunks) = <<>>
  BY <1>3, FlattenEmpty DEF Mappings
<1> QED
  BY <1>1, <1>2, <1>4

(* A new chunk is the last of the list and empty; no other changes.        *)
LEMMA AddChunkOwned ==
    ASSUME NEW M, NEW h \in Chunks(M), ChunkOwned(h)
    PROVE  \E c \in Nat :
              /\ AddChunk(h) \in Chunks(M)
              /\ ChunkOwned(AddChunk(h))
              /\ AddChunk(h).list = Append(h.list, c)
              /\ c \notin ToSet(h.list)
              /\ c \in DOMAIN AddChunk(h).chunk
              /\ AddChunk(h).chunk[c] = <<>>
              /\ DOMAIN h.chunk \subseteq DOMAIN AddChunk(h).chunk
              /\ \A d \in DOMAIN h.chunk : d # c => AddChunk(h).chunk[d] = h.chunk[d]
<1> DEFINE g == AddChunk(h)
<1>1. /\ h.chunk \in Seq(Seq(M)) /\ h.list \in Seq(Nat) /\ h.pool \in Seq(Nat)
      /\ <<>> \in Seq(M)
  BY DEF Chunks
<1>2. /\ IsInjective(h.list) /\ IsInjective(h.pool)
      /\ ToSet(h.list) \cap ToSet(h.pool) = {}
      /\ ToSet(h.list) \cup ToSet(h.pool) = DOMAIN h.chunk
      /\ \A d \in DOMAIN h.chunk : Len(h.chunk[d]) <= ChunkSize
  BY ChunkOwnedParts
<1>0. Len(<<>>) <= ChunkSize
  BY ChunkSizeAssumption
<1>3. CASE h.pool = <<>>
  <2> DEFINE c == Len(h.chunk) + 1
  <2>1. g = [h EXCEPT !.chunk = Append(@, <<>>), !.list = Append(@, c)]
    BY <1>3 DEF AddChunk
  <2>2. g = [chunk |-> Append(h.chunk, <<>>), list |-> Append(h.list, c), pool |-> h.pool]
    BY <2>1 DEF Chunks
  <2>3. c \in Nat /\ c \notin DOMAIN h.chunk
    BY <1>1
  <2>4. g \in Chunks(M)
    BY <1>1, <2>2, <2>3 DEF Chunks
  <2>5. /\ DOMAIN g.chunk = DOMAIN h.chunk \cup {c} /\ g.chunk[c] = <<>>
        /\ \A d \in DOMAIN h.chunk : g.chunk[d] = h.chunk[d]
    BY <1>1, <2>2
  <2> HIDE DEF g, c
  <2>6. /\ ToSet(g.list) = ToSet(h.list) \cup {c} /\ IsInjective(g.list)
        /\ c \notin ToSet(h.list) /\ c \notin ToSet(h.pool)
        /\ g.list = Append(h.list, c) /\ g.pool = h.pool
    BY <1>1, <1>2, <2>2, <2>3, AppendFacts
  <2>7. ChunkOwned(g)
    <3>1. \A d \in DOMAIN g.chunk : Len(g.chunk[d]) <= ChunkSize
      BY <1>0, <1>2, <2>5
    <3>2. /\ ToSet(g.list) \cap ToSet(g.pool) = {}
          /\ ToSet(g.list) \cup ToSet(g.pool) = DOMAIN g.chunk
      BY <1>2, <2>5, <2>6
    <3> QED
      BY <1>2, <2>4, <2>6, <3>1, <3>2, ChunkOwnedParts
  <2> QED
    BY <2>3, <2>4, <2>5, <2>6, <2>7 DEF g
<1>4. CASE h.pool # <<>>
  <2> DEFINE c == Head(h.pool)
  <2>1. /\ c \in Nat /\ Tail(h.pool) \in Seq(Nat)
        /\ ToSet(h.pool) = {c} \cup ToSet(Tail(h.pool))
        /\ IsInjective(Tail(h.pool)) /\ c \notin ToSet(Tail(h.pool))
    BY <1>1, <1>2, <1>4, HeadFacts
  <2>2. c \in DOMAIN h.chunk /\ c \notin ToSet(h.list)
    BY <1>2, <2>1
  <2>3. g = [chunk |-> [h.chunk EXCEPT ![c] = <<>>], list |-> Append(h.list, c),
             pool |-> Tail(h.pool)]
    BY <1>4 DEF AddChunk, Chunks
  <2>4. /\ g.chunk \in Seq(Seq(M)) /\ DOMAIN g.chunk = DOMAIN h.chunk /\ g.chunk[c] = <<>>
        /\ \A d \in DOMAIN h.chunk : d # c => g.chunk[d] = h.chunk[d]
    BY <1>1, <2>2, <2>3
  <2>5. g \in Chunks(M)
    BY <1>1, <2>1, <2>3, <2>4 DEF Chunks
  <2> HIDE DEF g, c
  <2>6. /\ ToSet(g.list) = ToSet(h.list) \cup {c} /\ IsInjective(g.list)
        /\ g.list = Append(h.list, c) /\ g.pool = Tail(h.pool)
    BY <1>1, <1>2, <2>1, <2>2, <2>3, AppendFacts
  <2>7. /\ IsInjective(g.list) /\ IsInjective(g.pool)
        /\ ToSet(g.list) \cap ToSet(g.pool) = {}
        /\ ToSet(g.list) \cup ToSet(g.pool) = DOMAIN g.chunk
    <3> DEFINE t == Tail(h.pool)
    <3> HIDE DEF t
    <3>1. /\ g.pool = t /\ IsInjective(t) /\ c \notin ToSet(t)
          /\ ToSet(h.pool) = {c} \cup ToSet(t)
      BY <2>1, <2>6 DEF t
    <3> QED
      BY <1>2, <2>2, <2>4, <2>6, <3>1
  <2>8. ChunkOwned(g)
    <3>1. \A d \in DOMAIN g.chunk : Len(g.chunk[d]) <= ChunkSize
      BY <1>0, <1>2, <2>4
    <3> QED
      BY <2>5, <2>7, <3>1, ChunkOwnedParts
  <2> QED
    BY <2>1, <2>2, <2>4, <2>5, <2>6, <2>8 DEF g
<1> QED
  BY <1>3, <1>4

(* end_block puts every chunk of the list back.                            *)
LEMMA RecycleOwned ==
    ASSUME NEW M, NEW h \in Chunks(M), ChunkOwned(h)
    PROVE  Recycle(h) \in Chunks(M) /\ ChunkOwned(Recycle(h)) /\ Mappings(Recycle(h)) = <<>>
<1> DEFINE g == Recycle(h)
           r == Reverse(h.list)
<1>1. h.list \in Seq(Nat) /\ h.pool \in Seq(Nat) /\ h.chunk \in Seq(Seq(M))
  BY DEF Chunks
<1>2. /\ IsInjective(h.list) /\ IsInjective(h.pool)
      /\ ToSet(h.list) \cap ToSet(h.pool) = {}
      /\ ToSet(h.list) \cup ToSet(h.pool) = DOMAIN h.chunk
      /\ \A c \in DOMAIN h.chunk : Len(h.chunk[c]) <= ChunkSize
  BY ChunkOwnedParts
<1>3. r \in Seq(Nat) /\ ToSet(r) = ToSet(h.list) /\ IsInjective(r)
  BY <1>1, <1>2, ReverseFacts
<1>4. g = [chunk |-> h.chunk, list |-> <<>>, pool |-> r \o h.pool]
  <2>1. g = [h EXCEPT !.list = <<>>, !.pool = r \o @]
    BY DEF Recycle
  <2> HIDE DEF r, g
  <2> QED
    BY <2>1 DEF Chunks
<1> HIDE DEF r
<1>5. /\ r \o h.pool \in Seq(Nat) /\ IsInjective(r \o h.pool)
      /\ ToSet(r \o h.pool) = ToSet(h.list) \cup ToSet(h.pool)
  BY <1>1, <1>2, <1>3, ConcatFacts
<1>6. g \in Chunks(M) /\ g.list = <<>> /\ g.pool = r \o h.pool /\ g.chunk = h.chunk
  BY <1>1, <1>4, <1>5 DEF Chunks
<1> HIDE DEF g
<1>7. IsInjective(g.list) /\ ToSet(g.list) = {}
  BY <1>6 DEF IsInjective, ToSet
<1>8. ChunkOwned(g)
  BY <1>2, <1>5, <1>6, <1>7, ChunkOwnedParts
<1>9. Mappings(g) = <<>>
  BY <1>6, FlattenEmpty DEF Mappings
<1> QED
  BY <1>6, <1>8, <1>9 DEF g

(* The chunks of the list, one after the other.                            *)
Used(h) == [i \in DOMAIN h.list |-> h.chunk[h.list[i]]]

(* The mappings that a list of chunks holds.                               *)
LEMMA UsedType ==
    ASSUME NEW M, NEW h \in Chunks(M), ChunkOwned(h)
    PROVE  /\ Used(h) \in Seq(Seq(M)) /\ Len(Used(h)) = Len(h.list)
           /\ \A i \in DOMAIN h.list : h.list[i] \in DOMAIN h.chunk
           /\ Mappings(h) = FlattenSeq(Used(h)) /\ Mappings(h) \in Seq(M)
<1>1. h.list \in Seq(Nat) /\ h.chunk \in Seq(Seq(M))
  BY DEF Chunks
<1>2. \A i \in DOMAIN h.list : h.list[i] \in DOMAIN h.chunk
  BY ChunkOwnedParts DEF ToSet
<1>3. \A c \in DOMAIN h.chunk : h.chunk[c] \in Seq(M)
  BY <1>1
<1>4. Used(h) \in Seq(Seq(M)) /\ Len(Used(h)) = Len(h.list)
  <2> DEFINE n == Len(h.list)
  <2>1. n \in Nat /\ DOMAIN h.list = 1..n
    BY <1>1
  <2> HIDE DEF n
  <2>2. Used(h) \in [1..n -> Seq(M)]
    BY <1>2, <1>3, <2>1 DEF Used
  <2>3. Used(h) \in Seq(Seq(M)) /\ Len(Used(h)) = n
    BY <2>1, <2>2
  <2> QED
    BY <2>3 DEF n
<1>5. Mappings(h) = FlattenSeq(Used(h))
  BY DEF Mappings, Used
<1> QED
  BY <1>2, <1>4, <1>5, FlattenType

(* A mapping at the end of a chunk that has room.                          *)
Put(h, m) == [h EXCEPT !.chunk[Last(h.list)] = Append(@, m)]

(* A mapping put into a chunk that is not full becomes the last one.       *)
LEMMA PutFacts ==
    ASSUME NEW M, NEW h \in Chunks(M), ChunkOwned(h), h.list # <<>>, NEW m \in M,
           Len(h.chunk[Last(h.list)]) # ChunkSize
    PROVE  /\ Put(h, m) \in Chunks(M) /\ ChunkOwned(Put(h, m))
           /\ Mappings(Put(h, m)) = Append(Mappings(h), m)
<1> DEFINE c == Last(h.list)
           n == Len(h.list)
           g == Put(h, m)
<1>1. h.list \in Seq(Nat) /\ h.chunk \in Seq(Seq(M)) /\ h.pool \in Seq(Nat)
  BY DEF Chunks
<1>2. n \in DOMAIN h.list /\ n \in Nat /\ n # 0 /\ c = h.list[n] /\ DOMAIN h.list = 1..n
  BY <1>1 DEF Last
<1>3. c \in DOMAIN h.chunk /\ h.chunk[c] \in Seq(M)
  BY <1>1, <1>2, UsedType
<1>4. g = [chunk |-> [h.chunk EXCEPT ![c] = Append(h.chunk[c], m)], list |-> h.list,
           pool |-> h.pool]
  <2> DEFINE a == Append(h.chunk[c], m)
  <2>1. g = [h EXCEPT !.chunk[c] = a]
    BY DEF Put
  <2> HIDE DEF a, c
  <2> DEFINE f == [h.chunk EXCEPT ![c] = a]
  <2>2. g = [h EXCEPT !.chunk = f]
    BY <2>1
  <2> HIDE DEF f, g
  <2>3. g = [chunk |-> f, list |-> h.list, pool |-> h.pool]
    BY <2>2 DEF Chunks
  <2> QED
    BY <2>3 DEF a, f
<1>5. /\ g.chunk \in Seq(Seq(M)) /\ DOMAIN g.chunk = DOMAIN h.chunk
      /\ g.chunk[c] = Append(h.chunk[c], m)
      /\ \A d \in DOMAIN h.chunk : d # c => g.chunk[d] = h.chunk[d]
  BY <1>1, <1>3, <1>4
<1>6. g \in Chunks(M) /\ g.list = h.list /\ g.pool = h.pool
  BY <1>1, <1>4, <1>5 DEF Chunks
<1> HIDE DEF g, c, n
<1>7. Len(g.chunk[c]) <= ChunkSize
  <2>1. Len(h.chunk[c]) <= ChunkSize /\ Len(h.chunk[c]) # ChunkSize
    BY <1>3 DEF ChunkOwned, c
  <2>2. Len(Append(h.chunk[c], m)) = Len(h.chunk[c]) + 1 /\ Len(h.chunk[c]) \in Nat
    BY <1>3
  <2> QED
    BY <1>5, <2>1, <2>2, ChunkSizeAssumption
<1>8. ChunkOwned(g)
  BY <1>5, <1>6, <1>7 DEF ChunkOwned
<1>9. Used(g) = ExtendLast(Used(h), m)
  <2>1. \A i \in 1..n : i # n => h.list[i] # c
    BY <1>2, ChunkOwnedParts DEF IsInjective
  <2>2. \A i \in 1..n : h.list[i] \in DOMAIN h.chunk
    BY <1>2, UsedType
  <2>3. Len(Used(h)) = n
    BY UsedType DEF n
  <2>4. /\ \A i \in 1..n : i # n => Used(g)[i] = Used(h)[i]
        /\ Used(g)[n] = Append(Used(h)[n], m)
        /\ DOMAIN Used(g) = 1..n /\ DOMAIN Used(h) = 1..n
    BY <1>2, <1>5, <1>6, <2>1, <2>2 DEF Used
  <2>5. ExtendLast(Used(h), m) = [i \in 1..n |-> IF i = n THEN Append(Used(h)[n], m) ELSE Used(h)[i]]
    BY <1>2, <2>3, <2>4 DEF ExtendLast
  <2>6. Used(g) = [i \in 1..n |-> Used(g)[i]]
    BY <2>4 DEF Used
  <2> QED
    BY <2>4, <2>5, <2>6
<1>10. Mappings(g) = Append(Mappings(h), m)
  <2>1. /\ Used(h) \in Seq(Seq(M)) /\ n = Len(Used(h))
        /\ Mappings(h) = FlattenSeq(Used(h)) /\ Mappings(g) = FlattenSeq(Used(g))
    BY <1>6, <1>8, UsedType DEF n
  <2>2. Used(h) # <<>>
    BY <1>2, <2>1
  <2> QED
    BY <1>9, <2>1, <2>2, FlattenExtend
<1> QED
  BY <1>6, <1>8, <1>10 DEF g

(* jit_opcode adds its mapping behind all others.                          *)
LEMMA RecordFacts ==
    ASSUME NEW M, NEW h \in Chunks(M), ChunkOwned(h), NEW m \in M
    PROVE  /\ Record(h, m) \in Chunks(M) /\ ChunkOwned(Record(h, m))
           /\ Mappings(Record(h, m)) = Append(Mappings(h), m)
<1> DEFINE full == h.list = <<>> \/ Len(h.chunk[Last(h.list)]) = ChunkSize
           g == AddChunk(h)
<1>1. CASE full
  <2>1. PICK c \in Nat : /\ g \in Chunks(M) /\ ChunkOwned(g)
                         /\ g.list = Append(h.list, c) /\ c \notin ToSet(h.list)
                         /\ c \in DOMAIN g.chunk /\ g.chunk[c] = <<>>
                         /\ \A d \in DOMAIN h.chunk : d # c => g.chunk[d] = h.chunk[d]
    BY AddChunkOwned
  <2>2. Record(h, m) = Put(g, m)
    BY <1>1 DEF Record, Put
  <2> HIDE DEF g, full
  <2>3. h.list \in Seq(Nat) /\ g.list # <<>> /\ Last(g.list) = c
    <3>1. h.list \in Seq(Nat)
      BY DEF Chunks
    <3>2. Append(h.list, c) # <<>> /\ Last(Append(h.list, c)) = c
      BY <3>1 DEF Last
    <3> QED
      BY <2>1, <3>1, <3>2
  <2>4. Len(g.chunk[c]) # ChunkSize
    BY <2>1, ChunkSizeAssumption
  <2>5. /\ Record(h, m) \in Chunks(M) /\ ChunkOwned(Record(h, m))
        /\ Mappings(Record(h, m)) = Append(Mappings(g), m)
    BY <2>1, <2>2, <2>3, <2>4, PutFacts
  <2>6. Used(g) = Append(Used(h), <<>>)
    <3> DEFINE n == Len(h.list)
    <3>1. n \in Nat /\ DOMAIN h.list = 1..n /\ DOMAIN g.list = 1..(n + 1)
          /\ g.list[n + 1] = c /\ \A i \in 1..n : g.list[i] = h.list[i]
      BY <2>1, <2>3
    <3>2. /\ Used(h) \in Seq(Seq(M)) /\ Len(Used(h)) = n
          /\ Used(g) \in Seq(Seq(M)) /\ Len(Used(g)) = n + 1
      <4>1. Len(g.list) = n + 1
        BY <2>1, <2>3
      <4> QED
        BY <2>1, <4>1, UsedType
    <3> HIDE DEF n
    <3>3. \A i \in 1..n : h.list[i] \in DOMAIN h.chunk /\ h.list[i] # c
      BY <2>1, <3>1, UsedType DEF ToSet
    <3>4. \A i \in 1..n : Used(g)[i] = Used(h)[i]
      BY <2>1, <3>1, <3>3 DEF Used
    <3>5. Used(g)[n + 1] = <<>>
      BY <2>1, <3>1 DEF Used
    <3>6. \A s \in Seq(Seq(M)), t \in Seq(Seq(M)) :
             Len(t) = Len(s) + 1 /\ t[Len(s) + 1] = <<>> /\ (\A i \in 1..Len(s) : t[i] = s[i])
             => t = Append(s, <<>>)
      OBVIOUS
    <3> QED
      BY <3>2, <3>4, <3>5, <3>6
  <2>7. Mappings(g) = Mappings(h)
    <3>1. /\ Used(h) \in Seq(Seq(M)) /\ Mappings(h) \in Seq(M)
          /\ Mappings(g) = FlattenSeq(Used(g)) /\ Mappings(h) = FlattenSeq(Used(h))
      BY <2>1, UsedType
    <3>2. <<>> \in Seq(M) /\ \A s \in Seq(M) : s \o <<>> = s
      OBVIOUS
    <3> QED
      BY <2>6, <3>1, <3>2, FlattenAppend
  <2> QED
    BY <2>5, <2>7
<1>2. CASE ~full
  <2>1. Record(h, m) = Put(h, m)
    BY <1>2 DEF Record, Put
  <2> QED
    BY <1>2, <2>1, PutFacts
<1> QED
  BY <1>1, <1>2
=============================================================================
