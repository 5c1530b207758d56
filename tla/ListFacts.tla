----------------------------- MODULE ListFacts -----------------------------
(***************************************************************************)
(* Facts about numbers and lists that the proofs of several components     *)
(* need.                                                                   *)
(***************************************************************************)
EXTENDS Integers, SequencesExt, WellFoundedInduction, TLAPS

(* The least element of a set of numbers.                                  *)
LEMMA LeastNumber ==
    ASSUME NEW T, T \subseteq Nat, T # {}
    PROVE  \E m \in T : \A k \in T : m <= k
<1> DEFINE R == OpToRel(<, Nat)
<1>1. IsWellFoundedOn(R, Nat)
  BY NatLessThanWellFounded
<1>2. R = {ss \in Nat \X Nat : ss[1] < ss[2]}
  BY Zenon DEF OpToRel
<1> HIDE DEF R
<1>3. PICK m \in T : \A k \in T : ~(<<k, m>> \in R)
  BY <1>1, WFMin
<1>4. \A k \in Nat, n \in Nat : k < n => <<k, n>> \in R
  BY <1>2
<1>5. ASSUME NEW k \in T PROVE m <= k
  <2>1. m \in Nat /\ k \in Nat /\ ~(k < m)
    BY <1>3, <1>4
  <2> QED
    BY <2>1
<1> QED
  BY <1>5

(* Induction up to n.                                                      *)
LEMMA UpTo ==
    ASSUME NEW n \in Nat, NEW P, 0 \in P, \A k \in 1..n : k - 1 \in P => k \in P
    PROVE  \A k \in 0..n : k \in P
<1> DEFINE B == { k \in 0..n : k \notin P }
<1> SUFFICES ASSUME B # {} PROVE FALSE
  OBVIOUS
<1>1. B \subseteq Nat
  OBVIOUS
<1> HIDE DEF B
<1>2. PICK m \in B : \A k \in B : m <= k
  BY <1>1, LeastNumber
<1>3. m \in 1..n /\ m \notin P
  BY DEF B
<1>4. m - 1 \in 0..n /\ ~(m <= m - 1)
  BY <1>3
<1>5. m - 1 \in P
  BY <1>2, <1>4 DEF B
<1> QED
  BY <1>3, <1>5

(* What it means to be a list.                                             *)
LEMMA ListParts ==
    ASSUME NEW T, NEW s \in Seq(T)
    PROVE  Len(s) \in Nat /\ DOMAIN s = 1..Len(s) /\ \A i \in 1..Len(s) : s[i] \in T
OBVIOUS

-----------------------------------------------------------------------------
(* A function on 1..n is a list.                                           *)
LEMMA FunctionIsList ==
    ASSUME NEW T, NEW n \in Nat, NEW f \in [1..n -> T]
    PROVE  f \in Seq(T)
OBVIOUS

(* Two lists one after the other.                                          *)
LEMMA ConcatFacts ==
    ASSUME NEW T, NEW s \in Seq(T), NEW t \in Seq(T)
    PROVE  /\ s \o t \in Seq(T)
           /\ ToSet(s \o t) = ToSet(s) \cup ToSet(t)
           /\ IsInjective(s \o t)
                <=> IsInjective(s) /\ IsInjective(t) /\ ToSet(s) \cap ToSet(t) = {}
<1> DEFINE u == s \o t
<1>1. /\ u \in Seq(T) /\ Len(u) = Len(s) + Len(t) /\ Len(s) \in Nat /\ Len(t) \in Nat
      /\ DOMAIN u = 1..Len(u) /\ DOMAIN s = 1..Len(s) /\ DOMAIN t = 1..Len(t)
  OBVIOUS
<1>2. /\ \A i \in 1..Len(s) : u[i] = s[i]
      /\ \A i \in 1..Len(t) : u[i + Len(s)] = t[i]
  OBVIOUS
<1> HIDE DEF u
<1>3. \A i \in DOMAIN u : \/ i \in DOMAIN s /\ u[i] = s[i]
                          \/ i - Len(s) \in DOMAIN t /\ u[i] = t[i - Len(s)]
  <2> SUFFICES ASSUME NEW i \in DOMAIN u, i \notin DOMAIN s
               PROVE  i - Len(s) \in DOMAIN t /\ u[i] = t[i - Len(s)]
    BY <1>1, <1>2
  <2>1. i - Len(s) \in 1..Len(t)
    BY <1>1
  <2>2. u[(i - Len(s)) + Len(s)] = t[i - Len(s)]
    BY <1>2, <2>1
  <2> QED
    BY <1>1, <2>1, <2>2
<1>4. /\ \A i \in DOMAIN s : i \in DOMAIN u /\ u[i] = s[i]
      /\ \A i \in DOMAIN t : i + Len(s) \in DOMAIN u /\ u[i + Len(s)] = t[i]
  BY <1>1, <1>2
<1>5. ToSet(u) = ToSet(s) \cup ToSet(t)
  BY <1>3, <1>4 DEF ToSet
<1>6. ASSUME IsInjective(s), IsInjective(t), ToSet(s) \cap ToSet(t) = {}
      PROVE  IsInjective(u)
  <2> SUFFICES ASSUME NEW i \in DOMAIN u, NEW j \in DOMAIN u, u[i] = u[j] PROVE i = j
    BY DEF IsInjective
  <2>1. i \in Int /\ j \in Int
    BY <1>1
  <2>2. CASE i \in DOMAIN s /\ u[i] = s[i] /\ j \in DOMAIN s /\ u[j] = s[j]
    BY <1>6, <2>2 DEF IsInjective
  <2>3. CASE i - Len(s) \in DOMAIN t /\ u[i] = t[i - Len(s)]
             /\ j - Len(s) \in DOMAIN t /\ u[j] = t[j - Len(s)]
    <3>1. i - Len(s) = j - Len(s)
      BY <1>6, <2>3 DEF IsInjective
    <3> QED
      BY <1>1, <2>1, <3>1
  <2>4. CASE \/ i \in DOMAIN s /\ u[i] = s[i] /\ j - Len(s) \in DOMAIN t /\ u[j] = t[j - Len(s)]
             \/ j \in DOMAIN s /\ u[j] = s[j] /\ i - Len(s) \in DOMAIN t /\ u[i] = t[i - Len(s)]
    BY <1>6, <2>4 DEF ToSet
  <2> QED
    BY <1>3, <2>2, <2>3, <2>4
<1>7. ASSUME IsInjective(u)
      PROVE  IsInjective(s) /\ IsInjective(t) /\ ToSet(s) \cap ToSet(t) = {}
  <2>1. IsInjective(s)
    BY <1>4, <1>7 DEF IsInjective
  <2>2. IsInjective(t)
    <3> SUFFICES ASSUME NEW i \in DOMAIN t, NEW j \in DOMAIN t, t[i] = t[j] PROVE i = j
      BY DEF IsInjective
    <3>1. i + Len(s) = j + Len(s)
      BY <1>4, <1>7 DEF IsInjective
    <3> QED
      BY <1>1, <3>1
  <2>3. \A i \in DOMAIN s, j \in DOMAIN t : s[i] # t[j]
    <3> SUFFICES ASSUME NEW i \in DOMAIN s, NEW j \in DOMAIN t, s[i] = t[j] PROVE FALSE
      OBVIOUS
    <3>1. i = j + Len(s)
      BY <1>4, <1>7 DEF IsInjective
    <3> QED
      BY <1>1, <3>1
  <2> QED
    BY <2>1, <2>2, <2>3 DEF ToSet
<1> QED
  BY <1>1, <1>5, <1>6, <1>7 DEF u

(* A list the other way round.                                             *)
LEMMA ReverseFacts ==
    ASSUME NEW T, NEW s \in Seq(T)
    PROVE  /\ Reverse(s) \in Seq(T)
           /\ ToSet(Reverse(s)) = ToSet(s)
           /\ IsInjective(s) => IsInjective(Reverse(s))
<1> DEFINE r == Reverse(s)
           n == Len(s)
<1>1. n \in Nat /\ DOMAIN s = 1..n /\ \A i \in 1..n : s[i] \in T
  OBVIOUS
<1>2. \A i \in 1..n : (n - i) + 1 \in 1..n /\ (n - ((n - i) + 1)) + 1 = i
  BY <1>1
<1>3. DOMAIN r = 1..n /\ \A i \in 1..n : r[i] = s[(n - i) + 1]
  BY DEF Reverse
<1>4. r \in Seq(T)
  BY <1>1, <1>2 DEF Reverse
<1> HIDE DEF r, n
<1>5. \A i \in DOMAIN s : s[i] = r[(n - i) + 1]
  BY <1>1, <1>2, <1>3
<1>6. ToSet(r) = ToSet(s)
  <2>1. \A x \in ToSet(r) : x \in ToSet(s)
    BY <1>1, <1>2, <1>3 DEF ToSet
  <2>2. \A x \in ToSet(s) : x \in ToSet(r)
    BY <1>1, <1>2, <1>3, <1>5 DEF ToSet
  <2> QED
    BY <2>1, <2>2
<1>7. ASSUME IsInjective(s), NEW i \in 1..n, NEW j \in 1..n, r[i] = r[j]
      PROVE  i = j
  <2>1. (n - i) + 1 = (n - j) + 1
    BY <1>1, <1>2, <1>3, <1>7 DEF IsInjective
  <2> QED
    BY <1>1, <2>1
<1> QED
  BY <1>3, <1>4, <1>6, <1>7 DEF IsInjective, r

(* One more at the end of a list.                                          *)
LEMMA AppendFacts ==
    ASSUME NEW T, NEW s \in Seq(T), NEW x \in T
    PROVE  /\ Append(s, x) \in Seq(T)
           /\ ToSet(Append(s, x)) = ToSet(s) \cup {x}
           /\ IsInjective(Append(s, x)) <=> IsInjective(s) /\ x \notin ToSet(s)
<1>1. <<x>> \in Seq(T) /\ ToSet(<<x>>) = {x} /\ IsInjective(<<x>>)
  BY DEF ToSet, IsInjective
<1>2. Append(s, x) = s \o <<x>>
  OBVIOUS
<1> DEFINE t == <<x>>
<1> HIDE DEF t
<1>3. t \in Seq(T) /\ ToSet(t) = {x} /\ IsInjective(t) /\ Append(s, x) = s \o t
  BY <1>1, <1>2 DEF t
<1>4. /\ s \o t \in Seq(T)
      /\ ToSet(s \o t) = ToSet(s) \cup {x}
      /\ IsInjective(s \o t) <=> IsInjective(s) /\ ToSet(s) \cap {x} = {}
  BY <1>3, ConcatFacts
<1>5. ToSet(s) \cap {x} = {} <=> x \notin ToSet(s)
  OBVIOUS
<1> QED
  BY <1>2, <1>3, <1>4, <1>5

(* The first of a list.                                                    *)
LEMMA HeadFacts ==
    ASSUME NEW T, NEW s \in Seq(T), s # <<>>
    PROVE  /\ Head(s) \in T /\ Tail(s) \in Seq(T)
           /\ s = <<Head(s)>> \o Tail(s)
           /\ ToSet(s) = {Head(s)} \cup ToSet(Tail(s))
           /\ IsInjective(s) <=> IsInjective(Tail(s)) /\ Head(s) \notin ToSet(Tail(s))
<1>1. Head(s) \in T /\ Tail(s) \in Seq(T) /\ s = <<Head(s)>> \o Tail(s)
  OBVIOUS
<1>2. <<Head(s)>> \in Seq(T) /\ ToSet(<<Head(s)>>) = {Head(s)} /\ IsInjective(<<Head(s)>>)
  BY <1>1 DEF ToSet, IsInjective
<1> DEFINE t == <<Head(s)>>
           x == Head(s)
           r == Tail(s)
<1> HIDE DEF t, x, r
<1>3. /\ t \in Seq(T) /\ ToSet(t) = {x} /\ IsInjective(t) /\ s = t \o r
      /\ r \in Seq(T) /\ x \in T
  BY <1>1, <1>2 DEF t, x, r
<1>4. /\ ToSet(s) = {x} \cup ToSet(r)
      /\ IsInjective(s) <=> IsInjective(r) /\ {x} \cap ToSet(r) = {}
  BY <1>3, ConcatFacts
<1>5. {x} \cap ToSet(r) = {} <=> x \notin ToSet(r)
  OBVIOUS
<1> QED
  BY <1>1, <1>4, <1>5 DEF x, r

(* The head of a list is one of its elements.                              *)
LEMMA HeadIn ==
    ASSUME NEW T, NEW s \in Seq(T), s # <<>>
    PROVE  Head(s) \in ToSet(s)
BY DEF ToSet

(* One more at the start of a list.                                        *)
LEMMA ConsFacts ==
    ASSUME NEW T, NEW s \in Seq(T), NEW x \in T
    PROVE  /\ <<x>> \o s \in Seq(T) /\ <<x>> \o s # <<>>
           /\ Head(<<x>> \o s) = x /\ Tail(<<x>> \o s) = s
           /\ ToSet(<<x>> \o s) = {x} \cup ToSet(s)
           /\ IsInjective(<<x>> \o s) <=> IsInjective(s) /\ x \notin ToSet(s)
<1> DEFINE t == <<x>> \o s
<1>1. t \in Seq(T) /\ t # <<>> /\ Head(t) = x /\ Tail(t) = s
  OBVIOUS
<1> HIDE DEF t
<1>2. /\ ToSet(t) = {x} \cup ToSet(s)
      /\ IsInjective(t) <=> IsInjective(s) /\ x \notin ToSet(s)
  BY <1>1, HeadFacts
<1> QED
  BY <1>1, <1>2 DEF t

(* The head of a list is the end of the reversed one.                      *)
LEMMA ReverseCons ==
    ASSUME NEW T, NEW s \in Seq(T), s # <<>>
    PROVE  /\ Reverse(s) = Append(Reverse(Tail(s)), Head(s))
           /\ Len(Reverse(Tail(s))) = Len(Tail(s))
<1> DEFINE n == Len(s)
           r == Reverse(s)
           q == Reverse(Tail(s))
<1>1. n \in Nat \ {0} /\ Len(Tail(s)) = n - 1 /\ \A i \in 1..(n - 1) : Tail(s)[i] = s[i + 1]
  OBVIOUS
<1>2. Reverse(s) \in Seq(T) /\ Reverse(Tail(s)) \in Seq(T) /\ Head(s) = s[1] /\ Head(s) \in T
  <2>1. Tail(s) \in Seq(T) /\ Head(s) = s[1] /\ Head(s) \in T
    OBVIOUS
  <2>2. Reverse(s) \in Seq(T)
    BY ReverseFacts
  <2>3. Reverse(Tail(s)) \in Seq(T)
    BY <2>1, ReverseFacts
  <2> QED
    BY <2>1, <2>2, <2>3
<1>3. Len(r) = n /\ \A i \in 1..n : r[i] = s[(n - i) + 1]
  BY DEF Reverse
<1>4. Len(q) = n - 1 /\ \A i \in 1..(n - 1) : q[i] = s[((n - 1) - i) + 1 + 1]
  BY <1>1 DEF Reverse
<1> HIDE DEF n, r, q
<1> DEFINE t == Append(q, Head(s))
<1>5. t \in Seq(T) /\ Len(t) = n /\ t[n] = Head(s) /\ \A i \in 1..(n - 1) : t[i] = q[i]
  BY <1>1, <1>2, <1>4 DEF q
<1>6. \A i \in 1..n : t[i] = r[i]
  <2>1. \A i \in 1..(n - 1) : ((n - 1) - i) + 1 + 1 = (n - i) + 1
    BY <1>1
  <2>2. (n - n) + 1 = 1 /\ 1..n = (1..(n - 1)) \cup {n}
    BY <1>1
  <2> QED
    BY <1>1, <1>2, <1>3, <1>4, <1>5, <2>1, <2>2
<1> HIDE DEF t
<1>7. t = r
  BY <1>1, <1>2, <1>3, <1>5, <1>6 DEF r
<1> QED
  BY <1>1, <1>4, <1>7 DEF t, r, q

-----------------------------------------------------------------------------
(* The lists before the i-th of ss one after the other, for i up to n.     *)
Flattens(f, ss, n) ==
    \A i \in 1..n : f[i] = IF i = 1 THEN ss[i] ELSE f[i - 1] \o ss[i]

(* The recursive function behind FlattenSeq exists.                        *)
LEMMA FlattensExists ==
    ASSUME NEW T, NEW ss \in Seq(Seq(T)), NEW n \in 0..Len(ss)
    PROVE  \E f \in [1..n -> Seq(T)] : Flattens(f, ss, n)
<1> DEFINE Ok(k) == \E f \in [1..k -> Seq(T)] : Flattens(f, ss, k)
<1>1. Len(ss) \in Nat /\ \A i \in 1..Len(ss) : ss[i] \in Seq(T)
  OBVIOUS
<1>2. Ok(0)
  <2> DEFINE f == [i \in 1..0 |-> <<>>]
  <2>1. f \in [1..0 -> Seq(T)] /\ Flattens(f, ss, 0)
    BY DEF Flattens
  <2> QED
    BY <2>1
<1>3. ASSUME NEW k \in 1..Len(ss), Ok(k - 1) PROVE Ok(k)
  <2>1. PICK f \in [1..(k - 1) -> Seq(T)] : Flattens(f, ss, k - 1)
    BY <1>3
  <2> DEFINE last == IF k = 1 THEN ss[k] ELSE f[k - 1] \o ss[k]
             g == [i \in 1..k |-> IF i = k THEN last ELSE f[i]]
  <2>2. last \in Seq(T)
    BY <1>1, <2>1
  <2> HIDE DEF last
  <2>3. g \in [1..k -> Seq(T)]
    BY <1>1, <2>1, <2>2
  <2>4. ASSUME NEW i \in 1..k PROVE g[i] = IF i = 1 THEN ss[i] ELSE g[i - 1] \o ss[i]
    <3>1. CASE i = k
      BY <1>1, <3>1 DEF last
    <3>2. CASE i # k
      <4>1. i \in 1..(k - 1) /\ (i # 1 => i - 1 \in 1..(k - 1))
        BY <1>1, <3>2
      <4>2. f[i] = IF i = 1 THEN ss[i] ELSE f[i - 1] \o ss[i]
        BY <2>1, <4>1 DEF Flattens
      <4>3. g[i] = f[i]
        BY <3>2
      <4>4. i # 1 => g[i - 1] = f[i - 1]
        BY <4>1
      <4> QED
        BY <4>2, <4>3, <4>4
    <3> QED
      BY <3>1, <3>2
  <2> HIDE DEF g
  <2>5. Flattens(g, ss, k)
    BY <2>4 DEF Flattens
  <2> QED
    BY <2>3, <2>5
<1> HIDE DEF Ok
<1> DEFINE P == { k \in 0..Len(ss) : Ok(k) }
<1>4. 0 \in P /\ \A k \in 1..Len(ss) : k - 1 \in P => k \in P
  BY <1>1, <1>2, <1>3
<1> HIDE DEF P
<1>5. n \in P
  BY <1>1, <1>4, UpTo
<1> QED
  BY <1>5 DEF P, Ok

Agree(f, g, n) == \A i \in 1..n : f[i] = g[i]

(* There is one way to do it.                                              *)
LEMMA FlattensUnique ==
    ASSUME NEW f, NEW g, NEW ss, NEW tt, NEW n \in Nat,
           Flattens(f, ss, n), Flattens(g, tt, n), Agree(ss, tt, n)
    PROVE  Agree(f, g, n)
<1> DEFINE P == { k \in 0..n : k # 0 => f[k] = g[k] }
<1>1. ASSUME NEW k \in 1..n, k - 1 \in P PROVE k \in P
  <2>1. CASE k = 1
    BY <2>1 DEF Flattens, Agree
  <2>2. CASE k # 1
    <3>1. f[k - 1] = g[k - 1]
      BY <1>1, <2>2
    <3> QED
      BY <2>2, <3>1 DEF Flattens, Agree
  <2> QED
    BY <2>1, <2>2
<1>2. 0 \in P
  OBVIOUS
<1> HIDE DEF P
<1>3. \A k \in 0..n : k \in P
  BY <1>1, <1>2, UpTo
<1> QED
  BY <1>3 DEF Agree, P

(* FlattenSeq does it.                                                     *)
LEMMA FlattenIs ==
    ASSUME NEW T, NEW ss \in Seq(Seq(T)), Len(ss) # 0
    PROVE  \E f \in [1..Len(ss) -> Seq(T)] :
              Flattens(f, ss, Len(ss)) /\ FlattenSeq(ss) = f[Len(ss)]
<1> DEFINE n == Len(ss)
           Is(f) == f = [i \in 1..n |-> IF i = 1 THEN ss[i] ELSE f[i - 1] \o ss[i]]
           c == CHOOSE f : Is(f)
<1>1. n \in Nat /\ n \in 0..Len(ss)
  OBVIOUS
<1>2. PICK f \in [1..n -> Seq(T)] : Flattens(f, ss, n)
  BY <1>1, FlattensExists
<1>3. Is(f)
  BY <1>2 DEF Flattens
<1>4. Is(c)
  BY <1>3
<1>5. FlattenSeq(ss) = c[n]
  BY DEF FlattenSeq
<1> HIDE DEF c
<1>6. Flattens(c, ss, n)
  BY <1>4 DEF Flattens
<1> HIDE DEF n
<1>7. Agree(c, f, n)
  <2>1. Agree(ss, ss, n)
    BY DEF Agree
  <2> QED
    BY <1>1, <1>2, <1>6, <2>1, FlattensUnique
<1>8. n \in 1..n
  BY <1>1 DEF n
<1> QED
  BY <1>2, <1>5, <1>7, <1>8 DEF n, Agree

(* Nothing to flatten.                                                     *)
LEMMA FlattenEmpty == FlattenSeq(<<>>) = <<>>
BY DEF FlattenSeq

(* A list of lists becomes a list.                                         *)
LEMMA FlattenType ==
    ASSUME NEW T, NEW ss \in Seq(Seq(T))
    PROVE  FlattenSeq(ss) \in Seq(T)
<1>1. CASE Len(ss) = 0
  <2>1. ss = <<>> /\ <<>> \in Seq(T)
    BY <1>1
  <2> QED
    BY <2>1, FlattenEmpty
<1>2. CASE Len(ss) # 0
  <2>1. Len(ss) \in 1..Len(ss)
    BY <1>2
  <2>2. PICK f \in [1..Len(ss) -> Seq(T)] : FlattenSeq(ss) = f[Len(ss)]
    BY <1>2, FlattenIs
  <2> QED
    BY <2>1, <2>2
<1> QED
  BY <1>1, <1>2

(* One more list at the end.                                               *)
LEMMA FlattenAppend ==
    ASSUME NEW T, NEW ss \in Seq(Seq(T)), NEW x \in Seq(T)
    PROVE  FlattenSeq(Append(ss, x)) = FlattenSeq(ss) \o x
<1> DEFINE tt == Append(ss, x)
           n == Len(ss)
<1>1. /\ tt \in Seq(Seq(T)) /\ n \in Nat /\ Len(tt) = n + 1 /\ Len(tt) # 0
      /\ tt[n + 1] = x /\ \A i \in 1..n : tt[i] = ss[i]
  OBVIOUS
<1> HIDE DEF tt
<1>2. PICK g \in [1..(n + 1) -> Seq(T)] :
         Flattens(g, tt, n + 1) /\ FlattenSeq(tt) = g[n + 1]
  BY <1>1, FlattenIs
<1>3. CASE n = 0
  <2>1. ss = <<>> /\ FlattenSeq(tt) = x
    BY <1>1, <1>2, <1>3 DEF Flattens
  <2> QED
    BY <2>1, FlattenEmpty DEF tt
<1>4. CASE n # 0
  <2>1. PICK f \in [1..n -> Seq(T)] : Flattens(f, ss, n) /\ FlattenSeq(ss) = f[n]
    BY <1>4, FlattenIs
  <2> HIDE DEF n
  <2>2. Flattens(g, tt, n)
    <3> SUFFICES ASSUME NEW i \in 1..n
                 PROVE  g[i] = IF i = 1 THEN tt[i] ELSE g[i - 1] \o tt[i]
      BY DEF Flattens
    <3>1. i \in 1..(n + 1)
      BY <1>1
    <3> QED
      BY <1>2, <3>1 DEF Flattens
  <2>3. n \in 1..n /\ n + 1 \in 1..(n + 1) /\ n + 1 # 1 /\ (n + 1) - 1 = n
    BY <1>1, <1>4
  <2>4. Agree(f, g, n)
    <3>1. Agree(ss, tt, n)
      BY <1>1 DEF Agree
    <3> QED
      BY <1>1, <2>1, <2>2, <3>1, FlattensUnique
  <2>5. g[n + 1] = g[n] \o x
    BY <1>1, <1>2, <2>3 DEF Flattens
  <2> QED
    BY <1>2, <2>1, <2>3, <2>4, <2>5 DEF tt, Agree
<1> QED
  BY <1>3, <1>4

(* One more at the end of the last list.                                   *)
ExtendLast(ss, x) == [ss EXCEPT ![Len(ss)] = Append(@, x)]

(* An element added to the last list is the last of all.                   *)
LEMMA FlattenExtend ==
    ASSUME NEW T, NEW ss \in Seq(Seq(T)), ss # <<>>, NEW x \in T
    PROVE  FlattenSeq(ExtendLast(ss, x)) = Append(FlattenSeq(ss), x)
<1> DEFINE n == Len(ss)
           f == [i \in 1..(n - 1) |-> ss[i]]
           a == ss[n]
<1>1. a \in Seq(T) /\ n \in 1..n /\ \A i \in 1..n : ss[i] \in Seq(T)
  OBVIOUS
<1>2. f \in Seq(Seq(T)) /\ Len(f) = n - 1
  BY <1>1
<1>3. ss = Append(f, a)
  BY <1>1, <1>2
<1>4. ExtendLast(ss, x) = Append(f, Append(a, x))
  BY <1>1, <1>2 DEF ExtendLast
<1> HIDE DEF f, a
<1>5. FlattenSeq(ss) = FlattenSeq(f) \o a
  BY <1>1, <1>2, <1>3, FlattenAppend
<1>6. FlattenSeq(ExtendLast(ss, x)) = FlattenSeq(f) \o Append(a, x)
  <2>1. Append(a, x) \in Seq(T)
    BY <1>1
  <2> QED
    BY <1>2, <1>4, <2>1, FlattenAppend
<1>7. \A b \in Seq(T) : b \o Append(a, x) = Append(b \o a, x)
  BY <1>1
<1>8. FlattenSeq(f) \in Seq(T)
  BY <1>2, FlattenType
<1> QED
  BY <1>5, <1>6, <1>7, <1>8

-----------------------------------------------------------------------------
(* An element that bounds the others is the maximum.                       *)
LEMMA MaxIs ==
    ASSUME NEW S \in SUBSET Int, NEW m \in S, \A y \in S : y <= m
    PROVE  Max(S) = m
<1>1. \A x \in S : (\A y \in S : x >= y) => x = m
  OBVIOUS
<1> QED
  BY <1>1 DEF Max

(* A set of numbers has a minimum.                                         *)
LEMMA MinIs ==
    ASSUME NEW S \in SUBSET Nat, S # {}
    PROVE  /\ Min(S) \in S /\ \A y \in S : Min(S) <= y
           /\ \A m \in S : (\A y \in S : m <= y) => Min(S) = m
<1>1. PICK m \in S : \A y \in S : m <= y
  BY LeastNumber
<1>2. Min(S) \in S /\ \A y \in S : Min(S) <= y
  BY <1>1 DEF Min
<1>3. \A i, j \in S : i <= j /\ j <= i => i = j
  OBVIOUS
<1> QED
  BY <1>2, <1>3

(* A set of positions has a maximum.                                       *)
LEMMA MaxIn ==
    ASSUME NEW n \in Nat, NEW S \in SUBSET (1..n), S # {}
    PROVE  Max(S) \in S /\ \A y \in S : y <= Max(S)
<1> DEFINE P == { i \in Nat : \A y \in S : y <= i }
<1>1. P \subseteq Nat /\ n \in P
  OBVIOUS
<1> HIDE DEF P
<1>2. PICK m \in P : \A k \in P : m <= k
  BY <1>1, LeastNumber
<1>3. m \in Nat /\ \A y \in S : y <= m
  BY DEF P
<1>4. m \in S
  <2> SUFFICES ASSUME m \notin S PROVE FALSE
    OBVIOUS
  <2>1. \A y \in S : y \in Int /\ 1 <= y /\ y <= m - 1
    BY <1>3
  <2>2. m - 1 \in P
    <3>1. PICK y \in S : TRUE
      OBVIOUS
    <3>2. m - 1 \in Nat
      BY <1>3, <2>1, <3>1
    <3> QED
      BY <2>1, <3>2 DEF P
  <2> QED
    BY <1>2, <1>3, <2>2
<1>5. S \in SUBSET Int
  OBVIOUS
<1>6. Max(S) = m
  BY <1>3, <1>4, <1>5, MaxIs
<1> QED
  BY <1>3, <1>4, <1>6

(* f folds the part of ss at any set of its positions with the function g, *)
(* the last position last.                                                 *)
Folds(f, g, base, ss, n) ==
    \A S \in SUBSET (1..n) :
        f[S] = IF S = {} THEN base ELSE g[<<f[S \ {Max(S)}], ss[Max(S)]>>]

(* The recursive function behind FoldLeft exists.                          *)
LEMMA FoldsExists ==
    ASSUME NEW V, NEW T, NEW base \in V, NEW ss \in Seq(T), NEW g \in [V \X T -> V]
    PROVE  \E f \in [SUBSET (1..Len(ss)) -> V] : Folds(f, g, base, ss, Len(ss))
<1> DEFINE Ok(k) == \E f \in [SUBSET (1..k) -> V] : Folds(f, g, base, ss, k)
<1>1. Len(ss) \in Nat /\ \A i \in 1..Len(ss) : ss[i] \in T
  OBVIOUS
<1>2. Ok(0)
  <2> DEFINE f == [S \in SUBSET (1..0) |-> base]
  <2>1. 1..0 = {}
    OBVIOUS
  <2>2. f \in [SUBSET (1..0) -> V] /\ Folds(f, g, base, ss, 0)
    BY <2>1 DEF Folds
  <2> QED
    BY <2>2
<1>3. ASSUME NEW k \in 1..Len(ss), Ok(k - 1) PROVE Ok(k)
  <2>1. PICK f \in [SUBSET (1..(k - 1)) -> V] : Folds(f, g, base, ss, k - 1)
    BY <1>3
  <2> DEFINE h == [S \in SUBSET (1..k) |->
                      IF k \in S THEN g[<<f[S \ {k}], ss[k]>>] ELSE f[S]]
  <2>2. \A S \in SUBSET (1..k) : S \ {k} \in SUBSET (1..(k - 1)) /\ (k \notin S => S \in SUBSET (1..(k - 1)))
    BY <1>1
  <2>3. h \in [SUBSET (1..k) -> V]
    <3> SUFFICES ASSUME NEW S \in SUBSET (1..k) PROVE h[S] \in V
      OBVIOUS
    <3>1. f[S \ {k}] \in V /\ (k \notin S => f[S] \in V)
      BY <2>1, <2>2
    <3>2. <<f[S \ {k}], ss[k]>> \in V \X T
      BY <1>1, <3>1
    <3> QED
      BY <3>1, <3>2
  <2>4. ASSUME NEW S \in SUBSET (1..k)
        PROVE  h[S] = IF S = {} THEN base ELSE g[<<h[S \ {Max(S)}], ss[Max(S)]>>]
    <3>1. CASE k \in S
      <4>1. Max(S) = k
        <5>1. S \in SUBSET Int /\ \A y \in S : y <= k
          BY <1>1
        <5> QED
          BY <3>1, <5>1, MaxIs
      <4>2. h[S] = g[<<f[S \ {k}], ss[k]>>]
        BY <3>1
      <4>3. h[S \ {k}] = f[S \ {k}]
        OBVIOUS
      <4> QED
        BY <3>1, <4>1, <4>2, <4>3
    <3>2. CASE k \notin S
      <4>1. h[S] = f[S] /\ h[S \ {Max(S)}] = f[S \ {Max(S)}]
        BY <3>2
      <4>2. f[S] = IF S = {} THEN base ELSE g[<<f[S \ {Max(S)}], ss[Max(S)]>>]
        BY <2>1, <2>2, <3>2 DEF Folds
      <4> QED
        BY <4>1, <4>2
    <3> QED
      BY <3>1, <3>2
  <2> HIDE DEF h
  <2>5. Folds(h, g, base, ss, k)
    BY <2>4 DEF Folds
  <2> QED
    BY <2>3, <2>5
<1> HIDE DEF Ok
<1> DEFINE P == { k \in 0..Len(ss) : Ok(k) }
<1>4. 0 \in P /\ \A k \in 1..Len(ss) : k - 1 \in P => k \in P
  BY <1>1, <1>2, <1>3
<1> HIDE DEF P
<1>5. Len(ss) \in P
  <2>1. \A k \in 0..Len(ss) : k \in P
    BY <1>1, <1>4, UpTo
  <2> QED
    BY <1>1, <2>1
<1> QED
  BY <1>5 DEF P, Ok

(* The first k positions.                                                  *)
LEMMA Prefix ==
    ASSUME NEW n \in Nat, NEW k \in 1..n
    PROVE  /\ 1..k \in SUBSET (1..n) /\ 1..k # {}
           /\ Max(1..k) = k /\ (1..k) \ {k} = 1..(k - 1)
<1> DEFINE S == 1..k
<1>1. S \in SUBSET (1..n) /\ S \in SUBSET Int /\ k \in S
  OBVIOUS
<1>2. \A y \in S : y <= k
  OBVIOUS
<1>3. S \ {k} = 1..(k - 1)
  OBVIOUS
<1> HIDE DEF S
<1>4. Max(S) = k
  BY <1>1, <1>2, MaxIs
<1> QED
  BY <1>1, <1>3, <1>4 DEF S
=============================================================================
