------------------------ MODULE AsyncAllocatorProofs ------------------------
(***************************************************************************)
(* Proofs about AsyncAllocator, for any threads, sizes, pages and places   *)
(* of the pools: the blocks stay in their pools; blocks come to overlap,   *)
(* memory is forgotten and two walks meet in one way each; and none of     *)
(* this happens as long as the allocator is used like a stack.             *)
(*                                                                         *)
(* The first part is about sequences without repetitions, the second about *)
(* what splitting and joining does to a set of blocks, the third has the   *)
(* inductive invariant and the steps.                                      *)
(***************************************************************************)
EXTENDS AsyncAllocator, FiniteSetTheorems, SequenceTheorems, WellFoundedInduction, TLAPS

(* Sequences of addresses.                                                 *)

Distinct(s) == s \in Seq(Addr) /\ IsInjective(s)

LEMMA Elements ==
    ASSUME NEW s \in Seq(Addr)
    PROVE  /\ DOMAIN s = 1..Len(s) /\ Len(s) \in Nat
           /\ Range(s) = {s[i] : i \in 1..Len(s)} /\ Range(s) \subseteq Addr
<1>1. DOMAIN s = 1..Len(s) /\ Len(s) \in Nat
    OBVIOUS
<1>2. \A i \in 1..Len(s) : s[i] \in Addr
    OBVIOUS
<1> QED
    BY <1>1, <1>2 DEF Range

LEMMA OneAlone ==
    ASSUME NEW a \in Addr
    PROVE  Distinct(<<a>>) /\ Range(<<a>>) = {a}
<1>1. <<a>> \in Seq(Addr) /\ Len(<<a>>) = 1 /\ <<a>>[1] = a /\ DOMAIN <<a>> = 1..1
    OBVIOUS
<1> QED
    BY <1>1 DEF Distinct, IsInjective, Range

LEMMA NoneAtAll == Distinct(<<>>) /\ Range(<<>>) = {}
<1>1. <<>> \in Seq(Addr) /\ DOMAIN <<>> = {}
    OBVIOUS
<1> QED
    BY <1>1 DEF Distinct, IsInjective, Range

LEMMA Joined ==
    ASSUME NEW s, NEW r, Distinct(s), Distinct(r), Range(s) \cap Range(r) = {}
    PROVE  Distinct(s \o r) /\ Range(s \o r) = Range(s) \cup Range(r)
<1>1. /\ s \in Seq(Addr) /\ r \in Seq(Addr) /\ Len(s) \in Nat /\ Len(r) \in Nat
      /\ DOMAIN s = 1..Len(s) /\ DOMAIN r = 1..Len(r)
    BY Elements DEF Distinct
<1> DEFINE c == s \o r
<1>2. /\ c \in Seq(Addr) /\ Len(c) = Len(s) + Len(r) /\ DOMAIN c = 1..Len(s) + Len(r)
      /\ \A i \in 1..Len(s) + Len(r) : c[i] = IF i <= Len(s) THEN s[i] ELSE r[i - Len(s)]
    <2>1. c \in Seq(Addr) /\ Len(c) = Len(s) + Len(r)
        BY <1>1, ConcatProperties
    <2> QED
        BY <1>1, <2>1, ConcatProperties, Elements
<1> HIDE DEF c
<1>3. \A i \in 1..Len(s) : c[i] = s[i] /\ s[i] \in Range(s) /\ i \in DOMAIN c
    BY <1>1, <1>2 DEF Range
<1>4. \A i \in 1..Len(r) : c[Len(s) + i] = r[i] /\ r[i] \in Range(r) /\ Len(s) + i \in DOMAIN c
    <2> TAKE i \in 1..Len(r)
    <2>1. Len(s) + i \in 1..Len(s) + Len(r) /\ ~(Len(s) + i <= Len(s)) /\ (Len(s) + i) - Len(s) = i
        BY <1>1
    <2> QED
        BY <1>1, <1>2, <2>1 DEF Range
<1>5. \A i \in DOMAIN c : i \in 1..Len(s) \/ \E j \in 1..Len(r) : i = Len(s) + j
    <2> TAKE i \in DOMAIN c
    <2>1. i \in 1..Len(s) + Len(r)
        BY <1>2
    <2>2. i \in 1..Len(s) \/ (i - Len(s) \in 1..Len(r) /\ i = Len(s) + (i - Len(s)))
        BY <1>1, <2>1
    <2> QED
        BY <2>2
<1>6. IsInjective(c)
    <2> SUFFICES ASSUME NEW i \in DOMAIN c, NEW j \in DOMAIN c, c[i] = c[j]
                 PROVE  i = j
        BY DEF IsInjective
    <2>1. CASE i \in 1..Len(s) /\ j \in 1..Len(s)
        BY <1>1, <1>3, <2>1 DEF Distinct, IsInjective
    <2>2. CASE \E x, y \in 1..Len(r) : i = Len(s) + x /\ j = Len(s) + y
        <3>1. PICK x \in 1..Len(r), y \in 1..Len(r) : i = Len(s) + x /\ j = Len(s) + y
            BY <2>2
        <3>2. r[x] = r[y]
            BY <1>4, <3>1
        <3> QED
            BY <1>1, <3>1, <3>2 DEF Distinct, IsInjective
    <2>3. CASE i \in 1..Len(s) /\ \E y \in 1..Len(r) : j = Len(s) + y
        BY <1>3, <1>4, <2>3
    <2>4. CASE j \in 1..Len(s) /\ \E y \in 1..Len(r) : i = Len(s) + y
        BY <1>3, <1>4, <2>4
    <2> QED
        BY <1>5, <2>1, <2>2, <2>3, <2>4
<1>7. Range(c) = Range(s) \cup Range(r)
    BY <1>1, RangeConcatenation DEF c
<1> QED
    BY <1>2, <1>6, <1>7 DEF c, Distinct

LEMMA Part ==
    ASSUME NEW s, Distinct(s), NEW i \in 1..Len(s) + 1, NEW j \in 0..Len(s)
    PROVE  /\ Distinct(SubSeq(s, i, j))
           /\ Range(SubSeq(s, i, j)) = {s[m] : m \in i..j}
           /\ Len(SubSeq(s, i, j)) = IF i <= j THEN j - i + 1 ELSE 0
           /\ \A m \in 1..j - i + 1 : SubSeq(s, i, j)[m] = s[i + m - 1]
<1>1. s \in Seq(Addr) /\ Len(s) \in Nat /\ DOMAIN s = 1..Len(s)
    BY Elements DEF Distinct
<1>2. i \in Int /\ j \in Int /\ \A m \in i..j : m \in 1..Len(s) /\ s[m] \in Addr
    BY <1>1
<1> DEFINE p == SubSeq(s, i, j)
           n == IF i <= j THEN j - i + 1 ELSE 0
<1>3. p \in Seq(Addr) /\ Len(p) = n /\ \A m \in 1..j - i + 1 : p[m] = s[m + i - 1]
    BY <1>2, SubSeqProperties
<1>4. DOMAIN p = 1..n /\ n \in Nat
    BY <1>2, <1>3, Elements
<1> HIDE DEF p
<1>5. \A m \in 1..n : p[m] = s[m + i - 1] /\ m + i - 1 \in i..j
    BY <1>2, <1>3
<1>6. \A m \in i..j : m - i + 1 \in 1..n /\ p[m - i + 1] = s[m]
    BY <1>2, <1>3
<1>7. IsInjective(p)
    <2> SUFFICES ASSUME NEW x \in 1..n, NEW y \in 1..n, p[x] = p[y]
                 PROVE  x = y
        BY <1>4 DEF IsInjective
    <2>1. \A v \in 1..n : v + i - 1 \in DOMAIN s /\ p[v] = s[v + i - 1]
        BY <1>1, <1>2, <1>5
    <2>2. x + i - 1 = y + i - 1
        BY <2>1 DEF Distinct, IsInjective
    <2> QED
        BY <1>2, <2>2
<1>8. Range(p) = {s[m] : m \in i..j}
    BY <1>4, <1>5, <1>6 DEF Range
<1>9. \A m \in 1..j - i + 1 : p[m] = s[i + m - 1]
    <2> TAKE m \in 1..j - i + 1
    <2>1. m + i - 1 = i + m - 1
        BY <1>2
    <2> QED
        BY <1>3, <2>1
<1> QED
    BY <1>3, <1>7, <1>8, <1>9 DEF p, Distinct

\* A sequence without its k-th element, as it was or turned round.
LEMMA Rest ==
    ASSUME NEW s, Distinct(s), NEW k \in 1..Len(s)
    PROVE  LET below == SubSeq(s, 1, k - 1)  above == SubSeq(s, k + 1, Len(s))
           IN  /\ Distinct(below \o above) /\ Distinct(above \o below)
               /\ Range(below \o above) = Range(s) \ {s[k]}
               /\ Range(above \o below) = Range(s) \ {s[k]}
               /\ Len(below \o above) = Len(s) - 1
               /\ \A m \in 1..k - 1 : (below \o above)[m] = s[m]
<1>1. s \in Seq(Addr) /\ Len(s) \in Nat /\ DOMAIN s = 1..Len(s)
    BY Elements DEF Distinct
<1> DEFINE below == SubSeq(s, 1, k - 1)
           above == SubSeq(s, k + 1, Len(s))
<1>2. 1 \in 1..Len(s) + 1 /\ k - 1 \in 0..Len(s) /\ k + 1 \in 1..Len(s) + 1 /\ Len(s) \in 0..Len(s)
    BY <1>1
<1>3. /\ Distinct(below) /\ Range(below) = {s[m] : m \in 1..k - 1} /\ Len(below) = k - 1
      /\ \A m \in 1..k - 1 : below[m] = s[m]
    <2>1. /\ Distinct(below) /\ Range(below) = {s[m] : m \in 1..k - 1}
          /\ Len(below) = IF 1 <= k - 1 THEN (k - 1) - 1 + 1 ELSE 0
          /\ \A m \in 1..(k - 1) - 1 + 1 : below[m] = s[1 + m - 1]
        BY <1>2, Part
    <2>2. (IF 1 <= k - 1 THEN (k - 1) - 1 + 1 ELSE 0) = k - 1 /\ (k - 1) - 1 + 1 = k - 1
        BY <1>1
    <2>3. \A m \in 1..k - 1 : 1 + m - 1 = m
        BY <1>1
    <2> HIDE DEF below
    <2> QED
        BY <2>1, <2>2, <2>3
<1>4. Distinct(above) /\ Range(above) = {s[m] : m \in k + 1..Len(s)} /\ Len(above) = Len(s) - k
    <2> DEFINE i == k + 1
               p == SubSeq(s, i, Len(s))
    <2>1. /\ i \in 1..Len(s) + 1 /\ Len(s) - i + 1 = Len(s) - k
          /\ ~(i <= Len(s)) => Len(s) - k = 0
        <3>1. \A n \in Nat : \A m \in 1..n : m + 1 \in 1..n + 1 /\ n - (m + 1) + 1 = n - m /\ (~(m + 1 <= n) => n - m = 0)
            OBVIOUS
        <3> QED
            BY <1>1, <3>1
    <2> HIDE DEF i
    <2>2. /\ Distinct(p) /\ Range(p) = {s[m] : m \in i..Len(s)}
          /\ Len(p) = IF i <= Len(s) THEN Len(s) - i + 1 ELSE 0
        BY <1>2, <2>1, Part
    <2> HIDE DEF p
    <2>3. Distinct(p) /\ Range(p) = {s[m] : m \in i..Len(s)} /\ Len(p) = Len(s) - k
        BY <2>1, <2>2
    <2> QED
        BY <2>3 DEF i, p
<1> HIDE DEF below, above
<1>5. Range(below) \cap Range(above) = {}
    <2>1. ASSUME NEW m \in 1..k - 1, NEW n \in k + 1..Len(s), s[m] = s[n]
          PROVE  FALSE
        <3>1. m \in DOMAIN s /\ n \in DOMAIN s /\ m # n
            BY <1>1
        <3> QED
            BY <2>1, <3>1 DEF Distinct, IsInjective
    <2> QED
        BY <1>3, <1>4, <2>1
<1>6. Range(below) \cup Range(above) = Range(s) \ {s[k]}
    <2>1. \A m \in 1..Len(s) : m \in 1..k - 1 \/ m = k \/ m \in k + 1..Len(s)
        BY <1>1
    <2>2. \A m \in 1..k - 1 : m \in 1..Len(s) /\ m # k
        BY <1>1
    <2>3. \A m \in k + 1..Len(s) : m \in 1..Len(s) /\ m # k
        BY <1>1
    <2>4. \A m \in 1..Len(s) : s[m] = s[k] => m = k
        BY <1>1 DEF Distinct, IsInjective
    <2>5. Range(s) = {s[m] : m \in 1..Len(s)}
        BY <1>1, Elements
    <2> QED
        BY <1>3, <1>4, <2>1, <2>2, <2>3, <2>4, <2>5
<1>7. /\ Distinct(below \o above) /\ Distinct(above \o below)
      /\ Range(below \o above) = Range(s) \ {s[k]} /\ Range(above \o below) = Range(s) \ {s[k]}
    <2>1. Distinct(below \o above) /\ Range(below \o above) = Range(below) \cup Range(above)
        BY <1>3, <1>4, <1>5, Joined
    <2>2. Distinct(above \o below) /\ Range(above \o below) = Range(above) \cup Range(below)
        BY <1>3, <1>4, <1>5, Joined
    <2> QED
        BY <1>6, <2>1, <2>2
<1>8. Len(below \o above) = Len(s) - 1 /\ \A m \in 1..k - 1 : (below \o above)[m] = s[m]
    <2>1. below \in Seq(Addr) /\ above \in Seq(Addr)
        BY <1>3, <1>4 DEF Distinct
    <2>2. /\ Len(below \o above) = Len(below) + Len(above)
          /\ \A m \in 1..Len(below) + Len(above) :
                (below \o above)[m] = IF m <= Len(below) THEN below[m] ELSE above[m - Len(below)]
        BY <2>1, ConcatProperties
    <2>3. \A m \in 1..(k - 1) + (Len(s) - k) : m <= k - 1 => (below \o above)[m] = below[m]
        BY <1>3, <1>4, <2>2
    <2>4. \A m \in 1..k - 1 : m \in 1..(k - 1) + (Len(s) - k) /\ m <= k - 1
        BY <1>1
    <2>5. (k - 1) + (Len(s) - k) = Len(s) - 1
        BY <1>1
    <2> QED
        BY <1>3, <1>4, <2>2, <2>3, <2>4, <2>5
<1> QED
    BY <1>7, <1>8 DEF below, above

LEMMA TailRest ==
    ASSUME NEW s, Distinct(s), s # <<>>
    PROVE  Distinct(Tail(s)) /\ Range(Tail(s)) = Range(s) \ {s[1]}
<1>1. s \in Seq(Addr) /\ Len(s) \in Nat /\ DOMAIN s = 1..Len(s)
    BY Elements DEF Distinct
<1>2. 1 \in 1..Len(s)
    BY <1>1, EmptySeq
<1>3. 2 \in 1..Len(s) + 1 /\ Len(s) \in 0..Len(s)
    BY <1>1, <1>2
<1>4. Tail(s) = SubSeq(s, 2, Len(s))
    BY <1>1, TailIsSubSeq
<1>5. Distinct(Tail(s)) /\ Range(Tail(s)) = {s[m] : m \in 2..Len(s)}
    BY <1>3, <1>4, Part
<1>6. \A m \in 1..Len(s) : m = 1 \/ (m \in 2..Len(s) /\ s[m] # s[1])
    BY <1>1, <1>2 DEF Distinct, IsInjective
<1>7. \A m \in 2..Len(s) : m \in 1..Len(s) /\ m # 1
    BY <1>1
<1>8. Range(s) = {s[m] : m \in 1..Len(s)}
    BY <1>1, Elements
<1> QED
    BY <1>5, <1>6, <1>7, <1>8

----------------------------------------------------------------------------
(* Sets of blocks, with the size of each.                                  *)

Maps == [Addr -> Nat]
Units(sz, S) == UNION {{b} \X (1..sz[b]) : b \in S}
Total(sz, S) == Cardinality(Units(sz, S))

\* No two of the blocks overlap; each lies in a pool.
Clear(sz, S) == \A b, c \in S : b # c => b + sz[b] <= c \/ c + sz[c] <= b
Within(sz, ps, S) == \A b \in S : sz[b] > 0 /\ \E p \in ps : p[1] <= b /\ b + sz[b] <= p[1] + p[2]

LEMMA AddressesFinite == IsFiniteSet(Addr) /\ Addr \subseteq Nat \ {0}
<1>1. Top \in Nat
    BY AllocatorAssumption
<1> QED
    BY <1>1, FS_Interval DEF Addr

LEMMA UnitsOfOne ==
    ASSUME NEW b, NEW n \in Nat
    PROVE  IsFiniteSet({b} \X (1..n)) /\ Cardinality({b} \X (1..n)) = n
<1>1. IsFiniteSet({b}) /\ Cardinality({b}) = 1
    BY FS_Singleton
<1>2. IsFiniteSet(1..n) /\ Cardinality(1..n) = n
    <2>1. IsFiniteSet(1..n) /\ Cardinality(1..n) = IF 1 > n THEN 0 ELSE n - 1 + 1
        BY FS_Interval
    <2> QED
        BY <2>1
<1>3. /\ IsFiniteSet({b} \X (1..n))
      /\ Cardinality({b} \X (1..n)) = Cardinality({b}) * Cardinality(1..n)
    BY <1>1, <1>2, FS_Product
<1> QED
    BY <1>1, <1>2, <1>3

LEMMA UnitsFinite ==
    ASSUME NEW sz \in Maps, NEW S \in SUBSET Addr
    PROVE  IsFiniteSet(Units(sz, S)) /\ Total(sz, S) \in Nat
<1> DEFINE f == [b \in S |-> {b} \X (1..sz[b])]
           T == {{b} \X (1..sz[b]) : b \in S}
<1>1. IsFiniteSet(S)
    BY AddressesFinite, FS_Subset
<1>2. f \in Surjection(S, T)
    BY DEF Surjection
<1>3. \A b \in S : IsFiniteSet({b} \X (1..sz[b]))
    BY UnitsOfOne DEF Maps
<1>4. \A u \in T : IsFiniteSet(u)
    BY <1>3
<1> HIDE DEF f
<1>5. IsFiniteSet(T)
    <2> HIDE DEF T
    <2> QED BY <1>1, <1>2, FS_Surjection
<1>6. IsFiniteSet(UNION T)
    <2> HIDE DEF T
    <2> QED BY <1>4, <1>5, FS_UNION
<1> QED
    BY <1>6, FS_CardinalityType DEF Units, Total

LEMMA TotalAdd ==
    ASSUME NEW sz \in Maps, NEW S \in SUBSET Addr, NEW b \in Addr, b \notin S
    PROVE  Total(sz, S \cup {b}) = Total(sz, S) + sz[b]
<1> DEFINE one == {b} \X (1..sz[b])
<1>1. Units(sz, S \cup {b}) = Units(sz, S) \cup one
    BY DEF Units
<1>2. Units(sz, S) \cap one = {}
    BY DEF Units
<1>3. sz[b] \in Nat
    BY DEF Maps
<1>4. IsFiniteSet(one) /\ Cardinality(one) = sz[b]
    BY <1>3, UnitsOfOne
<1>5. IsFiniteSet(Units(sz, S)) /\ Total(sz, S) \in Nat
    BY UnitsFinite
<1> HIDE DEF one
<1>6. Cardinality(Units(sz, S) \cup one) = Cardinality(Units(sz, S)) + Cardinality(one) - Cardinality(Units(sz, S) \cap one)
    BY <1>4, <1>5, FS_Union
<1>7. Cardinality(Units(sz, S) \cap one) = 0
    BY <1>2, FS_EmptySet
<1> QED
    <2>1. \A x, y, z \in Nat : z = 0 => x + y - z = x + y
        OBVIOUS
    <2>2. Cardinality(Units(sz, S) \cup one) = Cardinality(Units(sz, S)) + sz[b]
        BY <1>3, <1>4, <1>5, <1>6, <1>7, <2>1 DEF Total
    <2> QED
        BY <1>1, <2>2 DEF Total

LEMMA TotalTake ==
    ASSUME NEW sz \in Maps, NEW S \in SUBSET Addr, NEW b \in S
    PROVE  Total(sz, S) = Total(sz, S \ {b}) + sz[b]
<1>1. S \ {b} \in SUBSET Addr /\ b \in Addr /\ b \notin S \ {b} /\ (S \ {b}) \cup {b} = S
    OBVIOUS
<1>2. Total(sz, (S \ {b}) \cup {b}) = Total(sz, S \ {b}) + sz[b]
    BY <1>1, TotalAdd
<1> QED
    BY <1>1, <1>2

LEMMA TotalSame ==
    ASSUME NEW sz, NEW tz, NEW S, \A b \in S : tz[b] = sz[b]
    PROVE  Total(tz, S) = Total(sz, S)
<1>1. Units(tz, S) = Units(sz, S)
    BY DEF Units
<1> QED
    BY <1>1 DEF Total

LEMMA TotalOfBoth ==
    ASSUME NEW sz \in Maps, NEW S \in SUBSET Addr, NEW T \in SUBSET Addr, S \cap T = {}
    PROVE  Total(sz, S \cup T) = Total(sz, S) + Total(sz, T)
<1>1. Units(sz, S \cup T) = Units(sz, S) \cup Units(sz, T)
    BY DEF Units
<1>2. Units(sz, S) \cap Units(sz, T) = {}
    BY DEF Units
<1>3. /\ IsFiniteSet(Units(sz, S)) /\ IsFiniteSet(Units(sz, T))
      /\ Total(sz, S) \in Nat /\ Total(sz, T) \in Nat
    BY UnitsFinite
<1>4. Cardinality(Units(sz, S) \cup Units(sz, T))
          = Cardinality(Units(sz, S)) + Cardinality(Units(sz, T)) - Cardinality(Units(sz, S) \cap Units(sz, T))
    BY <1>3, FS_Union
<1>5. Cardinality(Units(sz, S) \cap Units(sz, T)) = 0
    BY <1>2, FS_EmptySet
<1> QED
    <2>1. \A x, y, z \in Nat : z = 0 => x + y - z = x + y
        OBVIOUS
    <2>2. Cardinality(Units(sz, S) \cup Units(sz, T)) = Cardinality(Units(sz, S)) + Cardinality(Units(sz, T))
        BY <1>3, <1>4, <1>5, <2>1 DEF Total
    <2> QED
        BY <1>1, <2>2 DEF Total

\* A block is split: the upper need units become a block of their own.
LEMMA SplitBlock ==
    ASSUME NEW sz \in Maps, NEW ps, NEW S \in SUBSET Addr, Clear(sz, S), Within(sz, ps, S),
           \A p \in ps : p[1] \in Nat /\ p[2] \in Nat /\ p[1] + p[2] <= Top,
           NEW b \in S, NEW need \in Nat, need > 0, sz[b] > need,
           NEW u, u = b + sz[b] - need,
           NEW tz \in Maps, tz[b] = sz[b] - need, tz[u] = need,
           \A c \in Addr \ {b, u} : tz[c] = sz[c]
    PROVE  /\ u \in Addr /\ u \notin S
           /\ Clear(tz, S \cup {u}) /\ Within(tz, ps, S \cup {u})
           /\ Total(tz, S \cup {u}) = Total(sz, S)
<1>1. /\ b \in Nat /\ b > 0 /\ Top \in Nat /\ sz[b] \in Nat /\ u \in Nat /\ u > b
      /\ \A c \in S : c \in Nat /\ c \in Addr /\ sz[c] \in Nat
    BY AddressesFinite, AllocatorAssumption DEF Maps
<1>2. PICK p \in ps : p[1] <= b /\ b + sz[b] <= p[1] + p[2]
    BY DEF Within
<1>3. u \in Addr
    BY <1>1, <1>2 DEF Addr
<1>4. \A c \in S : sz[c] > 0 /\ (c # b => b + sz[b] <= c \/ c + sz[c] <= b)
    BY DEF Clear, Within
<1>5. u \notin S
    <2> SUFFICES ASSUME u \in S
                 PROVE  FALSE
        OBVIOUS
    <2>1. b + sz[b] <= u \/ u + sz[u] <= b
        BY <1>1, <1>4
    <2> QED
        BY <1>1, <2>1
<1>6. \A c \in S : c # b => tz[c] = sz[c]
    BY <1>1, <1>5
<1>7. Clear(tz, S \cup {u})
    <2>1. ASSUME NEW c \in S, c # b
          PROVE  /\ b + tz[b] <= c \/ c + tz[c] <= b
                 /\ u + tz[u] <= c \/ c + tz[c] <= u
        <3>1. c \in Nat /\ sz[c] \in Nat /\ tz[c] = sz[c] /\ (b + sz[b] <= c \/ c + sz[c] <= b)
            BY <1>1, <1>4, <1>6, <2>1
        <3> QED
            BY <1>1, <3>1
    <2>2. b + tz[b] <= u
        BY <1>1
    <2>3. ASSUME NEW c \in S, NEW d \in S, c # d, c # b, d # b
          PROVE  c + tz[c] <= d \/ d + tz[d] <= c
        <3>1. c + sz[c] <= d \/ d + sz[d] <= c
            BY <2>3 DEF Clear
        <3> QED
            BY <1>6, <2>3, <3>1
    <2> QED
        BY <2>1, <2>2, <2>3 DEF Clear
<1>8. Within(tz, ps, S \cup {u})
    <2>1. ASSUME NEW c \in S, c # b
          PROVE  tz[c] > 0 /\ \E q \in ps : q[1] <= c /\ c + tz[c] <= q[1] + q[2]
        BY <1>6, <2>1 DEF Within
    <2>2. tz[b] > 0 /\ p[1] <= b /\ b + tz[b] <= p[1] + p[2]
        BY <1>1, <1>2
    <2>3. tz[u] > 0 /\ p[1] <= u /\ u + tz[u] <= p[1] + p[2]
        BY <1>1, <1>2
    <2> QED
        BY <2>1, <2>2, <2>3 DEF Within
<1>9. Total(tz, S \cup {u}) = Total(sz, S)
    <2>1. Total(tz, S \cup {u}) = Total(tz, S) + tz[u]
        BY <1>3, <1>5, TotalAdd
    <2>2. Total(tz, S) = Total(tz, S \ {b}) + tz[b] /\ Total(sz, S) = Total(sz, S \ {b}) + sz[b]
        BY TotalTake
    <2>3. Total(tz, S \ {b}) = Total(sz, S \ {b})
        BY <1>6, TotalSame
    <2>4. Total(sz, S \ {b}) \in Nat
        BY UnitsFinite
    <2> QED
        BY <1>1, <2>1, <2>2, <2>3, <2>4
<1> QED
    BY <1>3, <1>5, <1>7, <1>8, <1>9

\* A block absorbs the one that starts where it ends.
LEMMA JoinBlocks ==
    ASSUME NEW sz \in Maps, NEW ps, NEW S \in SUBSET Addr, Clear(sz, S), Within(sz, ps, S),
           \A p, q \in ps : /\ p[1] \in Nat /\ p[2] \in Nat
                            /\ p = q \/ p[1] + p[2] < q[1] \/ q[1] + q[2] < p[1],
           NEW b \in S, NEW c \in S, b + sz[b] = c,
           NEW tz \in Maps, tz[b] = sz[b] + sz[c], \A d \in S \ {b, c} : tz[d] = sz[d]
    PROVE  /\ Clear(tz, S \ {c}) /\ Within(tz, ps, S \ {c})
           /\ Total(tz, S \ {c}) = Total(sz, S)
<1>1. \A d \in S : d \in Nat /\ d \in Addr /\ sz[d] \in Nat /\ sz[d] > 0
    BY AddressesFinite DEF Maps, Within
<1>2. b # c
    BY <1>1
<1>3. Clear(tz, S \ {c})
    <2>1. ASSUME NEW d \in S, d # b, d # c
          PROVE  b + tz[b] <= d \/ d + tz[d] <= b
        <3>1. /\ b + sz[b] <= d \/ d + sz[d] <= b
              /\ c + sz[c] <= d \/ d + sz[d] <= c
              /\ tz[d] = sz[d]
            BY <2>1 DEF Clear
        <3> QED
            BY <1>1, <3>1
    <2>2. ASSUME NEW d \in S, NEW e \in S, d # e, d # b, d # c, e # b, e # c
          PROVE  d + tz[d] <= e \/ e + tz[e] <= d
        <3>1. d + sz[d] <= e \/ e + sz[e] <= d
            BY <2>2 DEF Clear
        <3> QED
            BY <2>2, <3>1
    <2> QED
        BY <2>1, <2>2 DEF Clear
<1>4. Within(tz, ps, S \ {c})
    <2>1. PICK p \in ps : p[1] <= b /\ b + sz[b] <= p[1] + p[2]
        BY DEF Within
    <2>2. PICK q \in ps : q[1] <= c /\ c + sz[c] <= q[1] + q[2]
        BY DEF Within
    <2>3. p = q
        <3>1. /\ p[1] \in Nat /\ p[2] \in Nat /\ q[1] \in Nat /\ q[2] \in Nat
              /\ p = q \/ p[1] + p[2] < q[1] \/ q[1] + q[2] < p[1]
            OBVIOUS
        <3> QED
            BY <1>1, <2>1, <2>2, <3>1
    <2>4. tz[b] > 0 /\ p[1] <= b /\ b + tz[b] <= p[1] + p[2]
        BY <1>1, <2>1, <2>2, <2>3
    <2>5. ASSUME NEW d \in S, d # b, d # c
          PROVE  tz[d] > 0 /\ \E r \in ps : r[1] <= d /\ d + tz[d] <= r[1] + r[2]
        BY <2>5 DEF Within
    <2> QED
        BY <2>4, <2>5 DEF Within
<1>5. Total(tz, S \ {c}) = Total(sz, S)
    <2> DEFINE R == (S \ {c}) \ {b}
    <2>1. Total(sz, S) = Total(sz, S \ {c}) + sz[c]
        BY TotalTake
    <2>2. Total(sz, S \ {c}) = Total(sz, R) + sz[b] /\ Total(tz, S \ {c}) = Total(tz, R) + tz[b]
        BY <1>2, TotalTake
    <2>3. Total(tz, R) = Total(sz, R)
        BY TotalSame
    <2>4. Total(sz, R) \in Nat
        BY UnitsFinite
    <2> HIDE DEF R
    <2> QED
        BY <1>1, <2>1, <2>2, <2>3, <2>4
<1> QED
    BY <1>3, <1>4, <1>5

----------------------------------------------------------------------------
(* The inductive invariant.                                                *)

Blocks == FreeBlocks \cup Owned
Handed == {freeing[t] : t \in Threads} \ {NULL}
First == <<FirstBlock, FirstBlockSize>>

\* The pools are the first one and others at the places that grow() may get.
PoolsKnown ==
    /\ \A p \in pools : p = First \/ (p[1] \in PoolBases /\ \E s \in Sizes : p[2] = PoolBlockSize(s))
    /\ \A p, q \in pools : p[1] = q[1] => p = q

BlocksWithin == Within(size, pools, Blocks)

\* Where a thread is says whether it has a block to insert and what it asked for.
Calls ==
    \A t \in Threads :
        /\ freeing[t] # NULL <=> pc[t] \in {"dealloc", "insert"}
        /\ pc[t] \in {"search", "retry", "relock", "dealloc"} => want[t] \in Sizes
        /\ pc[t] = "dealloc" => after[t] = "relock"
        /\ pc[t] = "insert" /\ after[t] = "relock" => want[t] \in Sizes

\* A block has one owner: it is allocated once, or on one thread's way back.
OneOwner ==
    /\ IsInjective(live)
    /\ \A t \in Threads : freeing[t] \notin Range(live)
    /\ \A t, u \in Threads : freeing[t] # NULL /\ freeing[t] = freeing[u] => t = u

IInv == TypeOK /\ PoolsKnown /\ BlocksWithin /\ Calls /\ OneOwner

\* All memory is accounted for.
Balance == BytesFree + Size(Owned) = expected

ControlTypes ==
    /\ locked \in BOOLEAN
    /\ pc \in [Threads -> Pcs]
    /\ want \in [Threads -> Sizes \cup {0}]
    /\ freeing \in [Threads -> Addr \cup {NULL}]
    /\ after \in [Threads -> {"idle", "relock"}]
    /\ stacked \in BOOLEAN /\ crashed \in BOOLEAN

MemoryTypes ==
    /\ Distinct(ring)
    /\ size \in Maps
    /\ pools \subseteq Addr \X Nat
    /\ expected \in Nat
    /\ live \in Seq(Addr)

LEMMA Types == TypeOK <=> ControlTypes /\ MemoryTypes
BY DEF TypeOK, ControlTypes, MemoryTypes, Distinct, Maps

LEMMA RoundsUp ==
    ASSUME NEW n \in Nat, n > 0
    PROVE  RoundPage(n) \in Nat /\ RoundPage(n) >= n /\ RoundPage(n) >= PageSize
<1>1. PageSize \in Nat /\ PageSize > 0
    BY AllocatorAssumption
<1> DEFINE m == n + PageSize - 1
           q == m \div PageSize
           r == m % PageSize
<1>2. m \in Nat /\ m >= PageSize
    BY <1>1
<1> HIDE DEF m
<1>3. q \in Nat /\ r \in 0..PageSize - 1 /\ m = PageSize * q + r
    BY <1>1, <1>2
<1> HIDE DEF q, r
<1>4. q # 0
    BY <1>1, <1>2, <1>3
<1>5. PICK x \in Nat : q = x + 1
    <2>1. q - 1 \in Nat /\ q = (q - 1) + 1
        BY <1>3, <1>4
    <2> QED
        BY <2>1
<1>6. q * PageSize = x * PageSize + PageSize /\ x * PageSize \in Nat /\ PageSize * q = q * PageSize
    BY <1>1, <1>3, <1>5
<1>7. q * PageSize \in Nat /\ q * PageSize >= n /\ q * PageSize >= PageSize
    BY <1>1, <1>2, <1>3, <1>6 DEF m
<1> QED
    BY <1>7 DEF RoundPage, m, q

LEMMA PoolSizes ==
    /\ FirstBlockSize \in Nat /\ FirstBlockSize > 0
    /\ \A s \in Sizes : PoolBlockSize(s) \in Nat /\ PoolBlockSize(s) > 0
<1>1. /\ InitialSize \in Nat /\ InitialSize > 0 /\ PageHeader \in Nat /\ PageHeader < PageSize /\ PageSize \in Nat
      /\ \A s \in Sizes : s \in Nat
    BY AllocatorAssumption
<1>2. FirstBlockSize \in Nat /\ FirstBlockSize > 0
    <2>1. InitialSize + PageHeader \in Nat /\ InitialSize + PageHeader > 0
        BY <1>1
    <2>2. RoundPage(InitialSize + PageHeader) \in Nat /\ RoundPage(InitialSize + PageHeader) >= InitialSize + PageHeader
        BY <2>1, RoundsUp
    <2> QED
        BY <1>1, <2>2 DEF FirstBlockSize
<1>3. ASSUME NEW s \in Sizes
      PROVE  PoolBlockSize(s) \in Nat /\ PoolBlockSize(s) > 0
    <2>1. InitialSize + s \in Nat /\ InitialSize + s > 0
        BY <1>1
    <2>2. RoundPage(InitialSize + s) \in Nat /\ RoundPage(InitialSize + s) >= PageSize
        BY <2>1, RoundsUp
    <2> QED
        BY <1>1, <2>2 DEF PoolBlockSize
<1> QED
    BY <1>2, <1>3

\* Guard pages keep the pools apart.
LEMMA PoolFacts ==
    PoolsKnown =>
        /\ \A p \in pools : p[1] \in Nat /\ p[2] \in Nat /\ p[1] + p[2] <= Top
        /\ \A p, q \in pools : p = q \/ p[1] + p[2] < q[1] \/ q[1] + q[2] < p[1]
<1> SUFFICES ASSUME PoolsKnown
             PROVE  /\ \A p \in pools : p[1] \in Nat /\ p[2] \in Nat /\ p[1] + p[2] <= Top
                    /\ \A p, q \in pools : p = q \/ p[1] + p[2] < q[1] \/ q[1] + q[2] < p[1]
    OBVIOUS
<1>1. /\ FirstBlock \in Nat /\ FirstBlock + FirstBlockSize <= Top /\ Top \in Nat
      /\ First[1] = FirstBlock /\ First[2] = FirstBlockSize
      /\ \A b \in PoolBases : b \in Nat /\ FirstBlock + FirstBlockSize < b
    BY AllocatorAssumption DEF First
<1>2. \A b, c \in PoolBases, s \in Sizes : b + PoolBlockSize(s) <= Top /\ (c <= b \/ b + PoolBlockSize(s) < c)
    BY AllocatorAssumption
<1>3. \A p \in pools : p[1] \in Nat /\ p[2] \in Nat /\ p[1] + p[2] <= Top
    BY <1>1, <1>2, PoolSizes DEF PoolsKnown
<1>4. ASSUME NEW p \in pools, NEW q \in pools, p[1] < q[1]
      PROVE  p[1] + p[2] < q[1]
    <2>1. CASE p = First /\ q # First
        BY <1>1, <2>1 DEF PoolsKnown
    <2>2. CASE p = First /\ q = First
        BY <1>1, <1>4, <2>2
    <2>3. CASE p # First /\ q = First
        BY <1>1, <1>3, <1>4, <2>3, PoolSizes DEF PoolsKnown
    <2>4. CASE p # First /\ q # First
        <3>1. p[1] \in PoolBases /\ q[1] \in PoolBases
            BY <2>4 DEF PoolsKnown
        <3>2. PICK s \in Sizes : p[2] = PoolBlockSize(s)
            BY <2>4 DEF PoolsKnown
        <3> QED
            BY <1>1, <1>2, <1>4, <3>1, <3>2
    <2> QED
        BY <2>1, <2>2, <2>3, <2>4
<1>5. ASSUME NEW p \in pools, NEW q \in pools
      PROVE  p = q \/ p[1] + p[2] < q[1] \/ q[1] + q[2] < p[1]
    <2>1. p[1] = q[1] \/ p[1] < q[1] \/ q[1] < p[1]
        BY <1>3
    <2> QED
        BY <1>4, <2>1 DEF PoolsKnown
<1> QED
    BY <1>3, <1>5

LEMMA BlockTypes ==
    TypeOK => /\ FreeBlocks \in SUBSET Addr /\ Owned \in SUBSET Addr /\ Blocks \in SUBSET Addr
              /\ Range(live) \in SUBSET Addr /\ Handed \in SUBSET Addr /\ Owned = Range(live) \cup Handed
<1> SUFFICES ASSUME TypeOK
             PROVE  /\ FreeBlocks \in SUBSET Addr /\ Owned \in SUBSET Addr /\ Blocks \in SUBSET Addr
                    /\ Range(live) \in SUBSET Addr /\ Handed \in SUBSET Addr /\ Owned = Range(live) \cup Handed
    OBVIOUS
<1>1. ring \in Seq(Addr) /\ live \in Seq(Addr) /\ freeing \in [Threads -> Addr \cup {NULL}]
    BY DEF TypeOK
<1>2. Range(ring) \subseteq Addr /\ Range(live) \subseteq Addr
    BY <1>1, Elements
<1> QED
    BY <1>1, <1>2 DEF FreeBlocks, Owned, Blocks, Handed

LEMMA NotCorrupt ==
    TypeOK => (~Corrupt <=> Clear(size, Blocks) /\ FreeBlocks \cap Owned = {})
<1> SUFFICES ASSUME TypeOK
             PROVE  ~Corrupt <=> Clear(size, Blocks) /\ FreeBlocks \cap Owned = {}
    OBVIOUS
<1>1. \A b \in Blocks : b \in Nat /\ size[b] \in Nat
    BY BlockTypes, AddressesFinite DEF TypeOK
<1>2. \A b, c \in Blocks : ~Overlap(b, c) <=> b + size[b] <= c \/ c + size[c] <= b
    BY <1>1 DEF Overlap, End
<1>3. Clear(size, Blocks) <=> \A b, c \in Blocks : b # c => ~Overlap(b, c)
    BY <1>2 DEF Clear
<1> QED
    BY <1>3 DEF Corrupt, Blocks

LEMMA BalanceMeans ==
    TypeOK /\ FreeBlocks \cap Owned = {} => (Balance <=> Total(size, Blocks) = expected)
<1> SUFFICES ASSUME TypeOK, FreeBlocks \cap Owned = {}
             PROVE  Balance <=> Total(size, Blocks) = expected
    OBVIOUS
<1>1. size \in Maps
    BY DEF TypeOK, Maps
<1>2. Total(size, Blocks) = Total(size, FreeBlocks) + Total(size, Owned)
    BY <1>1, BlockTypes, TotalOfBoth DEF Blocks
<1> QED
    BY <1>2 DEF Balance, BytesFree, Size, Total, Units

LEMMA NothingMoved ==
    ASSUME ~Corrupt, size' = size, FreeBlocks' = FreeBlocks, Owned' = Owned, expected' = expected
    PROVE  ~Corrupt' /\ (Balance => Balance')
<1>1. Corrupt' <=> Corrupt
    BY DEF Corrupt, Overlap, End
<1>2. Balance' <=> Balance
    BY DEF Balance, BytesFree, Size
<1> QED
    BY <1>1, <1>2

\* The account of a step that moves blocks.
LEMMA Accounts ==
    ASSUME TypeOK, TypeOK', ~Corrupt, Clear(size', Blocks'), FreeBlocks' \cap Owned' = {},
           expected' + Total(size, Blocks) = expected + Total(size', Blocks')
    PROVE  ~Corrupt' /\ (Balance => Balance')
<1>1. FreeBlocks \cap Owned = {}
    BY NotCorrupt
<1>2. Balance <=> Total(size, Blocks) = expected
    BY <1>1, BalanceMeans
<1>3. ~Corrupt'
    <2>1. (TypeOK => (~Corrupt <=> Clear(size, Blocks) /\ FreeBlocks \cap Owned = {}))'
        BY NotCorrupt, PTL
    <2> QED
        BY <2>1 DEF Clear
<1>4. Balance' <=> Total(size', Blocks') = expected'
    <2>1. (TypeOK /\ FreeBlocks \cap Owned = {} => (Balance <=> Total(size, Blocks) = expected))'
        BY BalanceMeans, PTL
    <2> QED
        BY <2>1 DEF Total, Units
<1>5. expected \in Nat /\ expected' \in Nat /\ size \in Maps /\ size' \in Maps
    BY DEF TypeOK, Maps
<1>6. Blocks' \in SUBSET Addr
    <2>1. (TypeOK => /\ FreeBlocks \in SUBSET Addr /\ Owned \in SUBSET Addr /\ Blocks \in SUBSET Addr
                     /\ Range(live) \in SUBSET Addr /\ Handed \in SUBSET Addr /\ Owned = Range(live) \cup Handed)'
        BY BlockTypes, PTL
    <2> QED
        BY <2>1
<1>7. Total(size, Blocks) \in Nat /\ Total(size', Blocks') \in Nat
    BY <1>5, <1>6, BlockTypes, UnitsFinite
<1> QED
    BY <1>2, <1>3, <1>4, <1>5, <1>7

----------------------------------------------------------------------------
(* What the steps do to a thread's place and locals.                       *)

LEMMA ControlPreserved ==
    ASSUME TypeOK, Calls, NEW t \in Threads, Step(t)
    PROVE  ControlTypes' /\ Calls'
<1> USE DEF Goto, Lock
<1>1. /\ ControlTypes /\ NULL \notin Addr /\ PoolBases \subseteq Addr
      /\ \A k \in DOMAIN live : live[k] \in Addr
    <2>1. \A k \in DOMAIN live : live[k] \in Addr
        BY DEF TypeOK
    <2> QED
        BY <2>1, Types, AddressesFinite, AllocatorAssumption DEF Addr, NULL
<1>2. CASE \E s \in Sizes : CallAlloc(t, s)
    <2>1. PICK s \in Sizes : CallAlloc(t, s)
        BY <1>2
    <2>2. /\ pc' = [pc EXCEPT ![t] = "search"] /\ want' = [want EXCEPT ![t] = s] /\ freeing[t] = NULL
          /\ UNCHANGED <<freeing, after, stacked, crashed>> /\ locked'
        BY <2>1 DEF CallAlloc, Calls
    <2>3. ControlTypes'
        BY <1>1, <2>2 DEF ControlTypes, Pcs
    <2>4. ASSUME NEW u \in Threads
          PROVE  /\ pc'[u] = IF u = t THEN "search" ELSE pc[u]
                 /\ want'[u] = IF u = t THEN s ELSE want[u]
        BY <1>1, <2>2 DEF ControlTypes
    <2>5. Calls'
        BY <2>2, <2>4 DEF Calls
    <2> QED
        BY <2>3, <2>5
<1>3. CASE \E k \in DOMAIN live : CallDealloc(t, k)
    <2>1. PICK k \in DOMAIN live : CallDealloc(t, k)
        BY <1>3
    <2>2. /\ pc' = [pc EXCEPT ![t] = "insert"] /\ freeing' = [freeing EXCEPT ![t] = live[k]]
          /\ after' = [after EXCEPT ![t] = "idle"] /\ live[k] \in Addr
          /\ UNCHANGED <<want, crashed>> /\ locked' /\ stacked' \in BOOLEAN
        BY <1>1, <2>1 DEF CallDealloc
    <2>3. ControlTypes'
        BY <1>1, <2>2 DEF ControlTypes, Pcs
    <2>4. ASSUME NEW u \in Threads
          PROVE  /\ pc'[u] = IF u = t THEN "insert" ELSE pc[u]
                 /\ freeing'[u] = IF u = t THEN live[k] ELSE freeing[u]
                 /\ after'[u] = IF u = t THEN "idle" ELSE after[u]
        BY <1>1, <2>2 DEF ControlTypes
    <2>5. Calls'
        BY <1>1, <2>2, <2>4 DEF Calls
    <2> QED
        BY <2>3, <2>5
<1>4. CASE Relock(t)
    BY <1>1, <1>4 DEF Relock, ControlTypes, Calls, Pcs
<1>5. CASE AllocDone(t) /\ Searching(t)
    BY <1>1, <1>5 DEF AllocDone, Searching, ControlTypes, Calls, Pcs
<1>6. CASE Grow(t) /\ Searching(t)
    <2>1. PICK b \in PoolBases :
              /\ pc' = [pc EXCEPT ![t] = "dealloc"] /\ freeing' = [freeing EXCEPT ![t] = b]
              /\ after' = [after EXCEPT ![t] = "relock"] /\ locked' = FALSE /\ stacked' = FALSE
              /\ UNCHANGED <<want, crashed>>
        BY <1>6 DEF Grow
    <2>2. b \in Addr /\ want[t] \in Sizes
        BY <1>1, <1>6 DEF Searching, Calls
    <2>3. ControlTypes'
        BY <1>1, <2>1, <2>2 DEF ControlTypes, Pcs
    <2>4. ASSUME NEW u \in Threads
          PROVE  /\ pc'[u] = IF u = t THEN "dealloc" ELSE pc[u]
                 /\ freeing'[u] = IF u = t THEN b ELSE freeing[u]
                 /\ after'[u] = IF u = t THEN "relock" ELSE after[u]
        BY <1>1, <2>1 DEF ControlTypes
    <2>5. Calls'
        BY <1>1, <2>1, <2>2, <2>4 DEF Calls
    <2> QED
        BY <2>3, <2>5
<1>7. CASE (GrowFails(t) \/ FollowNull(t)) /\ Searching(t)
    BY <1>1, <1>7 DEF GrowFails, FollowNull, Searching, ControlTypes, Calls, Pcs
<1>8. CASE UnlockAgain(t)
    BY <1>1, <1>8 DEF UnlockAgain, ControlTypes, Calls, Pcs
<1>9. CASE Insert(t)
    BY <1>1, <1>9 DEF Insert, ControlTypes, Calls, Pcs
<1> QED
    BY <1>2, <1>3, <1>4, <1>5, <1>6, <1>7, <1>8, <1>9 DEF Step, Search

\* What a thread's taking a block in hand and giving it on does to who owns it.
LEMMA TakenInHand ==
    ASSUME TypeOK, NEW t \in Threads, freeing[t] = NULL, NEW b \in Addr,
           freeing' = [freeing EXCEPT ![t] = b]
    PROVE  Handed' = Handed \cup {b}
<1>1. freeing \in [Threads -> Addr \cup {NULL}] /\ NULL \notin Addr
    BY AddressesFinite DEF TypeOK, NULL
<1>2. \A u \in Threads : freeing'[u] = IF u = t THEN b ELSE freeing[u]
    BY <1>1
<1> QED
    BY <1>1, <1>2 DEF Handed

LEMMA GivenOn ==
    ASSUME TypeOK, OneOwner, NEW t \in Threads, freeing[t] # NULL,
           freeing' = [freeing EXCEPT ![t] = NULL]
    PROVE  Handed' = Handed \ {freeing[t]}
<1>1. freeing \in [Threads -> Addr \cup {NULL}]
    BY DEF TypeOK
<1>2. \A u \in Threads : freeing'[u] = IF u = t THEN NULL ELSE freeing[u]
    BY <1>1
<1>3. \A u \in Threads : u # t => freeing[u] # freeing[t]
    BY DEF OneOwner
<1> QED
    BY <1>1, <1>2, <1>3 DEF Handed

----------------------------------------------------------------------------
(* What the steps do to the blocks.                                        *)

MemoryInv == MemoryTypes /\ PoolsKnown /\ BlocksWithin /\ OneOwner

KnownOverlap(t) == Insert(t) /\ Len(ring) = 1 /\ End(freeing[t]) = ring[1]
KnownLoss(t) == Searching(t) /\ HasFit(t) /\ FirstFit(t) = 1 /\ Len(ring) > 1 /\ ring' = <<>>

LEMMA NoBlockMoves ==
    ASSUME MemoryInv, ~Corrupt, UNCHANGED <<ring, size, pools, expected, freeing, live>>
    PROVE  MemoryInv' /\ ~Corrupt' /\ (Balance => Balance')
<1>1. FreeBlocks' = FreeBlocks /\ Owned' = Owned /\ Blocks' = Blocks
    BY DEF FreeBlocks, Owned, Blocks
<1>2. MemoryTypes' /\ PoolsKnown' /\ OneOwner'
    BY DEF MemoryInv, MemoryTypes, PoolsKnown, OneOwner
<1>3. BlocksWithin'
    BY <1>1 DEF MemoryInv, BlocksWithin, Within
<1> QED
    BY <1>1, <1>2, <1>3, NothingMoved DEF MemoryInv

LEMMA GivingBack ==
    ASSUME IInv, ~Corrupt, NEW t \in Threads, NEW k \in DOMAIN live, CallDealloc(t, k)
    PROVE  MemoryInv' /\ ~Corrupt' /\ (Balance => Balance')
<1>1. /\ TypeOK /\ MemoryTypes /\ Distinct(live) /\ k \in 1..Len(live) /\ live[k] \in Addr /\ live[k] \in Range(live)
      /\ freeing[t] = NULL
    <2>1. TypeOK /\ MemoryTypes /\ Distinct(live) /\ freeing[t] = NULL
        BY Types DEF IInv, OneOwner, Distinct, MemoryTypes, CallDealloc, Calls
    <2> QED
        BY <2>1, Elements DEF Distinct
<1>2. /\ UNCHANGED <<ring, size, pools, expected>>
      /\ freeing' = [freeing EXCEPT ![t] = live[k]]
      /\ live' = SubSeq(live, 1, k-1) \o SubSeq(live, k+1, Len(live))
    BY DEF CallDealloc
<1>3. Distinct(live') /\ Range(live') = Range(live) \ {live[k]}
    BY <1>1, <1>2, Rest
<1>4. Handed' = Handed \cup {live[k]}
    BY <1>1, <1>2, TakenInHand
<1>5. FreeBlocks' = FreeBlocks /\ Owned' = Owned /\ Blocks' = Blocks
    <2>1. Owned = Range(live) \cup Handed /\ Owned' = Range(live') \cup Handed'
        BY DEF Owned, Handed
    <2>2. FreeBlocks' = FreeBlocks
        BY <1>2 DEF FreeBlocks
    <2>3. Owned' = Owned
        BY <1>1, <1>3, <1>4, <2>1
    <2> QED
        BY <2>2, <2>3 DEF Blocks
<1>6. MemoryTypes' /\ PoolsKnown'
    BY <1>1, <1>2, <1>3 DEF MemoryTypes, PoolsKnown, IInv, Distinct
<1>7. BlocksWithin'
    BY <1>2, <1>5 DEF IInv, BlocksWithin, Within
<1>8. OneOwner'
    <2>1. \A u \in Threads : freeing'[u] = IF u = t THEN live[k] ELSE freeing[u]
        BY <1>1, <1>2 DEF TypeOK
    <2>2. \A u \in Threads : freeing[u] \notin Range(live)
        BY DEF IInv, OneOwner
    <2>3. \A u \in Threads : freeing'[u] \notin Range(live')
        BY <1>3, <2>1, <2>2
    <2>4. \A u, v \in Threads : freeing'[u] # NULL /\ freeing'[u] = freeing'[v] => u = v
        BY <1>1, <2>1, <2>2 DEF IInv, OneOwner
    <2> QED
        BY <1>3, <2>3, <2>4 DEF OneOwner, Distinct
<1> QED
    BY <1>2, <1>5, <1>6, <1>7, <1>8, NothingMoved DEF MemoryInv

LEMMA LeastElement ==
    ASSUME NEW S \in SUBSET Nat, S # {}
    PROVE  \E n \in S : \A m \in S : n <= m
<1> DEFINE R == StrictSubsetOrdering(Nat)
           T == {0..n : n \in S}
<1>1. IsWellFoundedOn(R, FiniteSubsetsOf(Nat))
    BY FS_StrictSubsetOrderingWellFounded
<1>2. T \subseteq FiniteSubsetsOf(Nat)
    <2>1. \A n \in S : 0..n \in SUBSET Nat /\ IsFiniteSet(0..n)
        BY FS_Interval
    <2> QED
        BY <2>1 DEF FiniteSubsetsOf
<1>3. T # {}
    OBVIOUS
<1>4. PICK X \in T : \A Y \in T : <<Y, X>> \notin R
    <2> HIDE DEF R, T
    <2> QED BY <1>1, <1>2, <1>3, WFMin
<1>5. PICK n \in S : X = 0..n
    OBVIOUS
<1>6. ASSUME NEW m \in S, m < n
      PROVE  FALSE
    <2>1. 0..m \subseteq 0..n /\ 0..m # 0..n
        <3>1. n \in 0..n /\ n \notin 0..m
            BY <1>6
        <3> QED
            BY <1>6, <3>1
    <2>2. 0..m \in SUBSET Nat /\ 0..n \in SUBSET Nat
        OBVIOUS
    <2>3. <<0..m, 0..n>> \in R
        BY <2>1, <2>2 DEF StrictSubsetOrdering
    <2> QED
        BY <1>4, <1>5, <2>3
<1> QED
    BY <1>6

LEMMA MinIsMember ==
    ASSUME NEW S \in SUBSET Nat, S # {}
    PROVE  Min(S) \in S
<1>1. \E n \in S : \A m \in S : n <= m
    BY LeastElement
<1> QED
    BY <1>1 DEF Min

\* The block that a search takes.
LEMMA Found ==
    ASSUME IInv, ~Corrupt, NEW t \in Threads, Searching(t), HasFit(t)
    PROVE  /\ FirstFit(t) \in 1..Len(ring) /\ ring[FirstFit(t)] \in FreeBlocks
           /\ want[t] \in Nat /\ want[t] > 0
           /\ size[ring[FirstFit(t)]] >= want[t] + Header
<1>1. ring \in Seq(Addr) /\ Distinct(ring)
    BY Types DEF IInv, MemoryTypes, Distinct
<1> DEFINE K == {k \in 1..Len(ring) : Fits(t, ring[k])}
<1>2. K # {}
    <2>1. PICK b \in FreeBlocks : Fits(t, b)
        BY DEF HasFit
    <2>2. PICK k \in 1..Len(ring) : ring[k] = b
        BY <1>1, Elements DEF FreeBlocks
    <2> QED
        BY <2>1, <2>2
<1>3. K \in SUBSET Nat
    OBVIOUS
<1>4. FirstFit(t) \in K
    <2>1. FirstFit(t) = Min(K)
        BY DEF FirstFit
    <2> HIDE DEF K
    <2> QED
        BY <1>2, <1>3, <2>1, MinIsMember
<1>5. ring[FirstFit(t)] \in FreeBlocks
    BY <1>1, <1>4, Elements DEF FreeBlocks
<1>6. want[t] \in Nat /\ want[t] > 0
    <2>1. want[t] \in Sizes
        BY DEF IInv, Calls, Searching
    <2>2. Sizes \subseteq Nat \ {0}
        BY AllocatorAssumption
    <2>3. want[t] \in Nat /\ want[t] # 0
        BY <2>1, <2>2
    <2> QED
        BY <2>3
<1> QED
    BY <1>4, <1>5, <1>6 DEF Fits

LEMMA StaysClear ==
    ASSUME TypeOK', Clear(size', Blocks'), FreeBlocks' \cap Owned' = {}
    PROVE  ~Corrupt'
<1>1. (TypeOK => (~Corrupt <=> Clear(size, Blocks) /\ FreeBlocks \cap Owned = {}))'
    BY NotCorrupt, PTL
<1> QED
    BY <1>1 DEF Clear

LEMMA Allocated ==
    ASSUME IInv, NEW b \in Addr, b \notin Owned, live' = Append(live, b), freeing' = freeing
    PROVE  live' \in Seq(Addr) /\ OneOwner' /\ Owned' = Owned \cup {b}
<1>1. TypeOK /\ Distinct(live) /\ Owned = Range(live) \cup Handed /\ b \notin Range(live)
    BY BlockTypes DEF IInv, TypeOK, OneOwner, Distinct
<1>2. live' = live \o <<b>>
    BY <1>1, AppendIsConcat DEF Distinct
<1>3. Distinct(live') /\ Range(live') = Range(live) \cup {b}
    <2>1. Distinct(<<b>>) /\ Range(<<b>>) = {b}
        BY OneAlone
    <2> QED
        BY <1>1, <1>2, <2>1, Joined
<1>4. Owned' = Owned \cup {b}
    <2>1. Owned' = Range(live') \cup Handed
        BY DEF Owned, Handed
    <2> QED
        BY <1>1, <1>3, <2>1
<1>5. \A u \in Threads : freeing[u] # b
    <2> SUFFICES ASSUME NEW u \in Threads, freeing[u] = b
                 PROVE  FALSE
        OBVIOUS
    <2>1. freeing[u] # NULL
        BY AddressesFinite DEF NULL
    <2> QED
        BY <1>1, <2>1 DEF Handed
<1>6. OneOwner'
    BY <1>3, <1>5 DEF OneOwner, IInv, Distinct
<1> QED
    BY <1>3, <1>4, <1>6 DEF Distinct

LEMMA Skipped ==
    ASSUME Distinct(ring), NEW k \in 2..Len(ring)
    PROVE  Distinct(Without(k)) /\ Range(Without(k)) = Range(ring) \ {ring[k]}
<1> DEFINE before == SubSeq(ring, k-1, k-1)
           above == SubSeq(ring, k+1, Len(ring))
           below == SubSeq(ring, 1, k-2)
<1>1. ring \in Seq(Addr) /\ Len(ring) \in Nat /\ DOMAIN ring = 1..Len(ring) /\ Range(ring) = {ring[m] : m \in 1..Len(ring)}
    BY Elements DEF Distinct
<1>2. /\ k - 1 \in 1..Len(ring) + 1 /\ k - 1 \in 0..Len(ring) /\ k + 1 \in 1..Len(ring) + 1
      /\ Len(ring) \in 0..Len(ring) /\ 1 \in 1..Len(ring) + 1 /\ k - 2 \in 0..Len(ring) /\ k # 1
    BY <1>1
<1>3. Distinct(before) /\ Range(before) = {ring[m] : m \in k-1..k-1}
    BY <1>2, Part
<1>4. Distinct(above) /\ Range(above) = {ring[m] : m \in k+1..Len(ring)}
    BY <1>2, Part
<1>5. Distinct(below) /\ Range(below) = {ring[m] : m \in 1..k-2}
    BY <1>2, Part
<1>6. Without(k) = (before \o above) \o below
    BY <1>2 DEF Without
<1> HIDE DEF before, above, below
<1>7. \A m, n \in 1..Len(ring) : ring[m] = ring[n] => m = n
    BY <1>1 DEF Distinct, IsInjective
<1>8. /\ \A m \in k-1..k-1 : m \in 1..Len(ring) /\ m < k /\ m > k - 2
      /\ \A m \in k+1..Len(ring) : m \in 1..Len(ring) /\ m > k
      /\ \A m \in 1..k-2 : m \in 1..Len(ring) /\ m < k - 1
      /\ \A m \in 1..Len(ring) : m = k \/ m \in k-1..k-1 \/ m \in k+1..Len(ring) \/ m \in 1..k-2
      /\ \A m \in 1..k-2, n \in k+1..Len(ring) : m # n
      /\ \A m \in k-1..k-1, n \in k+1..Len(ring) : m # n
      /\ \A m \in 1..k-2, n \in k-1..k-1 : m # n
    BY <1>1
<1>9. Range(before) \cap Range(above) = {} /\ (Range(before) \cup Range(above)) \cap Range(below) = {}
    BY <1>3, <1>4, <1>5, <1>7, <1>8
<1>10. Range(before) \cup Range(above) \cup Range(below) = Range(ring) \ {ring[k]}
    <2>1. \A m \in 1..Len(ring) : m # k => ring[m] # ring[k]
        BY <1>1, <1>7
    <2>2. /\ \A m \in k-1..k-1 : m # k
          /\ \A m \in k+1..Len(ring) : m # k
          /\ \A m \in 1..k-2 : m # k
        BY <1>1
    <2> QED
        BY <1>1, <1>3, <1>4, <1>5, <1>8, <2>1, <2>2
<1>11. Distinct(before \o above) /\ Range(before \o above) = Range(before) \cup Range(above)
    BY <1>3, <1>4, <1>9, Joined
<1>12. Distinct((before \o above) \o below) /\ Range((before \o above) \o below) = Range(before \o above) \cup Range(below)
    BY <1>5, <1>9, <1>11, Joined
<1> QED
    BY <1>6, <1>10, <1>11, <1>12

LEMMA TakenWhole ==
    ASSUME IInv, ~Corrupt, ControlTypes', NEW t \in Threads, Searching(t), HasFit(t), AllocDone(t),
           NEW b, b = ring[FirstFit(t)],
           ring' = Without(FirstFit(t)), live' = Append(live, b), size' = size
    PROVE  MemoryInv' /\ ~Corrupt' /\ (Balance /\ ~Balance' => KnownLoss(t))
<1> DEFINE k == FirstFit(t)
<1>1. k \in 1..Len(ring) /\ b = ring[k] /\ b \in FreeBlocks
    BY Found
<1>2. /\ TypeOK /\ MemoryTypes /\ Distinct(ring) /\ size \in Maps /\ FreeBlocks \cap Owned = {} /\ Clear(size, Blocks)
      /\ FreeBlocks \in SUBSET Addr /\ Blocks = FreeBlocks \cup Owned
    BY Types, NotCorrupt, BlockTypes DEF IInv, MemoryTypes, Blocks
<1>3. b \in Addr /\ b \notin Owned
    BY <1>1, <1>2
<1>4. UNCHANGED <<pools, expected, freeing>>
    BY DEF AllocDone
<1>5. live' \in Seq(Addr) /\ OneOwner' /\ Owned' = Owned \cup {b}
    BY <1>3, <1>4, Allocated
<1>6. Distinct(ring') /\ FreeBlocks' = IF k = 1 THEN {} ELSE FreeBlocks \ {b}
    <2>1. FreeBlocks' = Range(ring') /\ FreeBlocks = Range(ring)
        BY DEF FreeBlocks
    <2>2. CASE k = 1
        BY <2>1, <2>2, NoneAtAll DEF Without
    <2>3. CASE k # 1
        <3>1. k \in 2..Len(ring)
            BY <1>1, <2>3
        <3> QED
            BY <1>1, <1>2, <2>1, <2>3, <3>1, Skipped
    <2> QED
        BY <2>2, <2>3
<1> HIDE DEF k
<1>7. FreeBlocks' \cap Owned' = {} /\ Blocks' \subseteq Blocks
    BY <1>1, <1>2, <1>5, <1>6 DEF Blocks
<1>8. MemoryTypes'
    BY <1>2, <1>4, <1>5, <1>6 DEF MemoryTypes
<1>9. TypeOK'
    <2>1. (TypeOK <=> ControlTypes /\ MemoryTypes)'
        BY Types, PTL
    <2> QED
        BY <1>8, <2>1
<1>10. Clear(size', Blocks')
    BY <1>2, <1>7 DEF Clear
<1>11. ~Corrupt'
    BY <1>7, <1>9, <1>10, StaysClear
<1>12. BlocksWithin' /\ PoolsKnown'
    BY <1>4, <1>7 DEF BlocksWithin, Within, PoolsKnown, IInv
<1>13. ASSUME Balance, ~Balance'
       PROVE  KnownLoss(t)
    <2>1. Blocks' # Blocks
        BY <1>2, <1>4, <1>7, <1>9, <1>10, <1>13, Accounts
    <2>2. k = 1 /\ FreeBlocks # {b}
        BY <1>1, <1>2, <1>5, <1>6, <2>1 DEF Blocks
    <2>3. Len(ring) # 1
        <3> SUFFICES ASSUME Len(ring) = 1
                     PROVE  FreeBlocks = {b}
            BY <2>2
        <3>1. Range(ring) = {ring[i] : i \in 1..1}
            BY <1>2, Elements DEF Distinct
        <3> QED
            BY <1>1, <2>2, <3>1 DEF FreeBlocks
    <2>4. Len(ring) > 1
        <3>1. Len(ring) \in Nat
            BY <1>2, Elements DEF Distinct
        <3>2. 1 \in 1..Len(ring)
            BY <1>1, <2>2
        <3>3. \A n \in Nat : 1 \in 1..n /\ n # 1 => n > 1
            OBVIOUS
        <3> QED
            BY <2>3, <3>1, <3>2, <3>3
    <2>5. ring' = <<>>
        BY <2>2 DEF Without, k
    <2> QED
        BY <2>2, <2>4, <2>5 DEF KnownLoss, k
<1> QED
    BY <1>5, <1>8, <1>11, <1>12, <1>13 DEF MemoryInv

LEMMA TakenSplit ==
    ASSUME IInv, ~Corrupt, ControlTypes', NEW t \in Threads, Searching(t), HasFit(t), AllocDone(t),
           NEW b, b = ring[FirstFit(t)], NEW need, need = want[t] + Header,
           ~(size[b] - need < MinUseful), Split(b, need), ring' = ring
    PROVE  MemoryInv' /\ ~Corrupt' /\ (Balance => Balance')
<1> DEFINE u == End(b) - need
<1>1. b \in FreeBlocks /\ need \in Nat /\ need > 0
    BY Found DEF Header
<1>2. /\ TypeOK /\ MemoryTypes /\ Distinct(ring) /\ size \in Maps /\ FreeBlocks \cap Owned = {} /\ Clear(size, Blocks)
      /\ FreeBlocks \in SUBSET Addr /\ Blocks \in SUBSET Addr /\ Blocks = FreeBlocks \cup Owned
      /\ Within(size, pools, Blocks)
    BY Types, NotCorrupt, BlockTypes DEF IInv, MemoryTypes, Blocks, BlocksWithin
<1>3. UNCHANGED <<pools, expected, freeing>>
    BY DEF AllocDone
<1>4. b \in Addr /\ b \in Nat /\ size[b] \in Nat /\ b \in Blocks
    BY <1>1, <1>2, AddressesFinite DEF Maps
<1>5. size[b] > need /\ u = b + size[b] - need
    BY <1>1, <1>4 DEF End, MinUseful
<1>6. live' = Append(live, u) /\ size' = [size EXCEPT ![b] = @ - need, ![u] = need]
    BY DEF Split
<1> HIDE DEF u
<1>7. u \in Addr
    <2>1. PICK p \in pools : p[1] <= b /\ b + size[b] <= p[1] + p[2]
        BY <1>2, <1>4 DEF Within
    <2>2. b + size[b] <= Top /\ Top \in Nat
        BY <1>4, <2>1, PoolFacts, AllocatorAssumption DEF IInv
    <2>3. b > 0
        BY <1>4, AddressesFinite
    <2> QED
        BY <1>1, <1>4, <1>5, <2>2, <2>3 DEF Addr
<1>8. u # b
    BY <1>1, <1>4, <1>5
<1>9. /\ size' \in Maps /\ size'[b] = size[b] - need /\ size'[u] = need
      /\ \A c \in Addr \ {b, u} : size'[c] = size[c]
    <2>1. size[b] - need \in Nat
        BY <1>1, <1>4, <1>5
    <2> QED
        BY <1>1, <1>2, <1>4, <1>6, <1>7, <1>8, <2>1 DEF Maps
<1>10. \A p \in pools : p[1] \in Nat /\ p[2] \in Nat /\ p[1] + p[2] <= Top
    BY PoolFacts DEF IInv
<1>11. /\ u \notin Blocks
       /\ Clear(size', Blocks \cup {u}) /\ Within(size', pools, Blocks \cup {u})
       /\ Total(size', Blocks \cup {u}) = Total(size, Blocks)
    BY <1>1, <1>2, <1>4, <1>5, <1>9, <1>10, SplitBlock
<1>12. live' \in Seq(Addr) /\ OneOwner' /\ Owned' = Owned \cup {u}
    BY <1>2, <1>3, <1>6, <1>7, <1>11, Allocated
<1>13. FreeBlocks' = FreeBlocks /\ FreeBlocks' \cap Owned' = {} /\ Blocks' = Blocks \cup {u}
    <2>1. FreeBlocks' = FreeBlocks
        BY DEF FreeBlocks
    <2> QED
        BY <1>2, <1>11, <1>12, <2>1 DEF Blocks
<1>14. MemoryTypes' /\ PoolsKnown' /\ BlocksWithin'
    BY <1>2, <1>3, <1>9, <1>11, <1>12, <1>13 DEF MemoryTypes, PoolsKnown, BlocksWithin, Within, IInv
<1>15. TypeOK'
    <2>1. (TypeOK <=> ControlTypes /\ MemoryTypes)'
        BY Types, PTL
    <2> QED
        BY <1>14, <2>1
<1>16. expected' + Total(size, Blocks) = expected + Total(size', Blocks')
    BY <1>3, <1>11, <1>13
<1>17. ~Corrupt' /\ (Balance => Balance')
    BY <1>2, <1>11, <1>13, <1>15, <1>16, Accounts
<1> QED
    BY <1>12, <1>14, <1>17 DEF MemoryInv

\* The pool grows by a block of pages of its own.
LEMMA Grown ==
    ASSUME IInv, ~Corrupt, ControlTypes', NEW t \in Threads, Searching(t), Grow(t)
    PROVE  MemoryInv' /\ ~Corrupt' /\ (Balance => Balance')
<1> DEFINE room == PoolBlockSize(want[t])
<1>1. PICK b \in PoolBases :
          /\ \A p \in pools : p[1] # b
          /\ pools' = pools \cup {<<b, room>>} /\ size' = [size EXCEPT ![b] = room]
          /\ expected' = expected + room /\ freeing' = [freeing EXCEPT ![t] = b]
          /\ UNCHANGED <<ring, live>>
    BY DEF Grow
<1>2. /\ TypeOK /\ MemoryTypes /\ Distinct(ring) /\ size \in Maps /\ FreeBlocks \cap Owned = {} /\ Clear(size, Blocks)
      /\ Blocks \in SUBSET Addr /\ Blocks = FreeBlocks \cup Owned /\ Owned = Range(live) \cup Handed
      /\ Within(size, pools, Blocks) /\ PoolsKnown
    BY Types, NotCorrupt, BlockTypes DEF IInv, MemoryTypes, Blocks, BlocksWithin
<1>3. want[t] \in Sizes /\ freeing[t] = NULL
    BY DEF IInv, Calls, Searching
<1>4. room \in Nat /\ room > 0
    BY <1>3, PoolSizes
<1>5. b \in Addr /\ b \in Nat
    <2>1. b \in Addr
        BY AllocatorAssumption DEF Addr
    <2> QED
        BY <2>1, AddressesFinite
<1>6. PoolsKnown'
    <2>1. \A p \in pools' : p \in pools \/ (p = <<b, room>> /\ p[1] = b /\ p[2] = room)
        BY <1>1
    <2>2. \A p \in pools' : p = First \/ (p[1] \in PoolBases /\ \E s \in Sizes : p[2] = PoolBlockSize(s))
        BY <1>2, <1>3, <2>1 DEF PoolsKnown
    <2>3. \A p, q \in pools' : p[1] = q[1] => p = q
        BY <1>1, <1>2, <2>1 DEF PoolsKnown
    <2> QED
        BY <2>2, <2>3 DEF PoolsKnown
<1>7. /\ \A p \in pools' : p[1] \in Nat /\ p[2] \in Nat
      /\ \A p, q \in pools' : p = q \/ p[1] + p[2] < q[1] \/ q[1] + q[2] < p[1]
    <2>1. (PoolsKnown =>
             /\ \A p \in pools : p[1] \in Nat /\ p[2] \in Nat /\ p[1] + p[2] <= Top
             /\ \A p, q \in pools : p = q \/ p[1] + p[2] < q[1] \/ q[1] + q[2] < p[1])'
        BY PoolFacts, PTL
    <2> QED
        BY <1>6, <2>1
<1> DEFINE new == <<b, room>>
<1>8. new \in pools' /\ new[1] = b /\ new[2] = room /\ \A p \in pools : p \in pools' /\ p # new
    BY <1>1
<1> HIDE DEF room, new
\* Nothing of the old pools is where the new one is.
<1>9. ASSUME NEW c \in Blocks
      PROVE  c \in Nat /\ size[c] \in Nat /\ size[c] > 0 /\ (c + size[c] <= b \/ b + room <= c)
    <2>1. c \in Nat /\ size[c] \in Nat /\ size[c] > 0
        BY <1>2, AddressesFinite DEF Maps, Within
    <2>2. PICK p \in pools : p[1] <= c /\ c + size[c] <= p[1] + p[2]
        BY <1>2 DEF Within
    <2>3. p[1] \in Nat /\ p[2] \in Nat /\ (p[1] + p[2] < b \/ b + room < p[1])
        BY <1>7, <1>8, <2>2
    <2> QED
        BY <1>4, <1>5, <2>1, <2>2, <2>3
<1>10. b \notin Blocks
    BY <1>4, <1>5, <1>9
<1>11. size' \in Maps /\ size'[b] = room /\ \A c \in Blocks : size'[c] = size[c]
    BY <1>1, <1>2, <1>4, <1>5, <1>10 DEF Maps
<1>12. Handed' = Handed \cup {b}
    BY <1>1, <1>2, <1>3, <1>5, TakenInHand
<1>13. FreeBlocks' = FreeBlocks /\ Owned' = Owned \cup {b} /\ Blocks' = Blocks \cup {b}
    <2>1. FreeBlocks' = FreeBlocks /\ Owned' = Range(live) \cup Handed'
        BY <1>1 DEF FreeBlocks, Owned, Handed
    <2>2. Owned' = Owned \cup {b}
        BY <1>2, <1>12, <2>1
    <2> QED
        BY <1>2, <2>1, <2>2 DEF Blocks
<1>14. Clear(size', Blocks')
    <2>1. ASSUME NEW c \in Blocks, NEW d \in Blocks, c # d
          PROVE  c + size'[c] <= d \/ d + size'[d] <= c
        BY <1>2, <1>11, <2>1 DEF Clear
    <2>2. ASSUME NEW c \in Blocks
          PROVE  c + size'[c] <= b \/ b + size'[b] <= c
        BY <1>9, <1>11
    <2> QED
        BY <1>13, <2>1, <2>2 DEF Clear
<1>15. BlocksWithin'
    <2>1. ASSUME NEW c \in Blocks
          PROVE  size'[c] > 0 /\ \E p \in pools' : p[1] <= c /\ c + size'[c] <= p[1] + p[2]
        <3>1. size[c] > 0 /\ \E p \in pools : p[1] <= c /\ c + size[c] <= p[1] + p[2]
            BY <1>2 DEF Within
        <3> QED
            BY <1>8, <1>11, <3>1
    <2>2. size'[b] > 0 /\ new[1] <= b /\ b + size'[b] <= new[1] + new[2]
        BY <1>4, <1>5, <1>8, <1>11
    <2> QED
        BY <1>8, <1>13, <2>1, <2>2 DEF BlocksWithin, Within
<1>16. MemoryTypes'
    <2>1. pools' \subseteq Addr \X Nat
        BY <1>1, <1>2, <1>4, <1>5 DEF MemoryTypes, room
    <2>2. expected' \in Nat
        BY <1>1, <1>2, <1>4 DEF MemoryTypes, room
    <2> QED
        BY <1>1, <1>2, <1>11, <2>1, <2>2 DEF MemoryTypes
<1>17. OneOwner'
    <2>1. \A u \in Threads : freeing'[u] = IF u = t THEN b ELSE freeing[u]
        BY <1>1, <1>2 DEF TypeOK
    <2>2. \A u \in Threads : freeing[u] # b
        <3>1. b \notin Handed /\ b # NULL
            BY <1>2, <1>5, <1>10, AddressesFinite DEF NULL
        <3> QED
            BY <3>1 DEF Handed
    <2>3. b \notin Range(live)
        BY <1>2, <1>10
    <2> QED
        BY <1>1, <2>1, <2>2, <2>3 DEF OneOwner, IInv
<1>18. TypeOK'
    <2>1. (TypeOK <=> ControlTypes /\ MemoryTypes)'
        BY Types, PTL
    <2> QED
        BY <1>16, <2>1
<1>19. FreeBlocks' \cap Owned' = {}
    BY <1>2, <1>10, <1>13
<1>20. expected' + Total(size, Blocks) = expected + Total(size', Blocks')
    <2>1. Total(size', Blocks \cup {b}) = Total(size', Blocks) + room
        BY <1>2, <1>5, <1>10, <1>11, TotalAdd
    <2>2. Total(size', Blocks) = Total(size, Blocks) /\ Total(size, Blocks) \in Nat
        BY <1>2, <1>11, TotalSame, UnitsFinite
    <2>3. expected \in Nat
        BY <1>2 DEF MemoryTypes
    <2> QED
        BY <1>1, <1>4, <1>13, <2>1, <2>2, <2>3 DEF room
<1>21. ~Corrupt' /\ (Balance => Balance')
    BY <1>2, <1>14, <1>18, <1>19, <1>20, Accounts
<1> QED
    BY <1>6, <1>15, <1>16, <1>17, <1>21 DEF MemoryInv

LEMMA Returned ==
    ASSUME IInv, NEW t \in Threads, pc[t] = "insert",
           freeing' = [freeing EXCEPT ![t] = NULL], live' = live
    PROVE  /\ freeing[t] \in Addr /\ freeing[t] \in Owned
           /\ Owned' = Owned \ {freeing[t]} /\ OneOwner'
<1>1. /\ TypeOK /\ OneOwner /\ freeing[t] # NULL /\ NULL \notin Addr
      /\ Owned = Range(live) \cup Handed
    BY BlockTypes, AddressesFinite DEF IInv, Calls, NULL
<1>2. freeing \in [Threads -> Addr \cup {NULL}]
    BY <1>1 DEF TypeOK
<1>3. freeing[t] \in Addr /\ freeing[t] \in Handed /\ freeing[t] \notin Range(live)
    BY <1>1, <1>2 DEF Handed, OneOwner
<1>4. Handed' = Handed \ {freeing[t]}
    BY <1>1, GivenOn
<1>5. Owned' = Owned \ {freeing[t]}
    <2>1. Owned' = Range(live) \cup Handed'
        BY DEF Owned, Handed
    <2> QED
        BY <1>1, <1>3, <1>4, <2>1
<1>6. OneOwner'
    <2>1. \A u \in Threads : freeing'[u] = IF u = t THEN NULL ELSE freeing[u]
        BY <1>2
    <2>2. NULL \notin Range(live)
        BY <1>1, BlockTypes
    <2> QED
        BY <1>1, <2>1, <2>2 DEF OneOwner
<1> QED
    BY <1>1, <1>3, <1>5, <1>6

LEMMA InsertedAlone ==
    ASSUME IInv, ~Corrupt, ControlTypes', NEW t \in Threads, Insert(t), ring = <<>>
    PROVE  MemoryInv' /\ ~Corrupt' /\ (Balance => Balance')
<1> DEFINE f == freeing[t]
<1>1. /\ ring' = <<f>> /\ pc[t] = "insert" /\ freeing' = [freeing EXCEPT ![t] = NULL]
      /\ UNCHANGED <<size, pools, expected, live>>
    BY DEF Insert
<1>2. /\ TypeOK /\ MemoryTypes /\ FreeBlocks \cap Owned = {} /\ Clear(size, Blocks) /\ Blocks = FreeBlocks \cup Owned
    BY Types, NotCorrupt DEF IInv, Blocks
<1>3. f \in Addr /\ f \in Owned /\ Owned' = Owned \ {f} /\ OneOwner'
    BY <1>1, Returned
<1> HIDE DEF f
<1>4. FreeBlocks = {} /\ Distinct(ring') /\ FreeBlocks' = {f}
    BY <1>1, <1>3, NoneAtAll, OneAlone DEF FreeBlocks
<1>5. Blocks' = Blocks /\ FreeBlocks' \cap Owned' = {}
    BY <1>2, <1>3, <1>4 DEF Blocks
<1>6. MemoryTypes' /\ PoolsKnown' /\ BlocksWithin' /\ Clear(size', Blocks')
    BY <1>1, <1>2, <1>4, <1>5 DEF MemoryTypes, PoolsKnown, BlocksWithin, Within, Clear, IInv
<1>7. TypeOK'
    <2>1. (TypeOK <=> ControlTypes /\ MemoryTypes)'
        BY Types, PTL
    <2> QED
        BY <1>6, <2>1
<1>8. ~Corrupt' /\ (Balance => Balance')
    BY <1>1, <1>2, <1>5, <1>6, <1>7, Accounts
<1> QED
    BY <1>3, <1>6, <1>8 DEF MemoryInv

LEMMA ParentIsThere ==
    ASSUME Distinct(ring), ring # <<>>, NEW f
    PROVE  Parent(f) \in 1..Len(ring)
<1>1. Len(ring) \in Nat /\ Len(ring) # 0
    BY EmptySeq, Elements DEF Distinct
<1>2. CASE Len(ring) = 1
    BY <1>2 DEF Parent
<1>3. CASE Len(ring) # 1
    <2> DEFINE K == {k \in 2..Len(ring) : f < ring[k] \/ k = Len(ring)}
    <2>1. Len(ring) \in K
        BY <1>1, <1>3
    <2>2. K \in SUBSET Nat
        OBVIOUS
    <2>3. Parent(f) = Min(K)
        BY <1>3 DEF Parent
    <2>4. Min(K) \in K
        <3> HIDE DEF K
        <3> QED BY <2>1, <2>2, MinIsMember
    <2> QED
        BY <2>3, <2>4
<1> QED
    BY <1>2, <1>3

\* The neighbours of a block that is inserted.
LEMMA Neighbours ==
    ASSUME Distinct(ring), ring # <<>>, NEW k \in 1..Len(ring),
           NEW next, next = IF Behind(k) = <<>> THEN ring[k] ELSE Behind(k)[1]
    PROVE  /\ ring[k] \in FreeBlocks /\ next \in FreeBlocks
           /\ Distinct(Behind(k)) /\ Range(Behind(k)) = FreeBlocks \ {ring[k]}
           /\ next = ring[k] => Behind(k) = <<>> /\ Len(ring) = 1 /\ k = 1
           /\ next # ring[k] => Distinct(Tail(Behind(k))) /\ Range(Tail(Behind(k))) = FreeBlocks \ {ring[k], next}
<1>1. /\ ring \in Seq(Addr) /\ Len(ring) \in Nat /\ DOMAIN ring = 1..Len(ring) /\ FreeBlocks = {ring[m] : m \in 1..Len(ring)}
    BY Elements DEF Distinct, FreeBlocks
<1>2. Distinct(Behind(k)) /\ Range(Behind(k)) = FreeBlocks \ {ring[k]}
    BY Rest DEF Behind, FreeBlocks
<1>3. ring[k] \in FreeBlocks
    BY <1>1
<1>4. CASE Behind(k) = <<>>
    <2>1. FreeBlocks \ {ring[k]} = {}
        BY <1>2, <1>4, NoneAtAll
    <2>2. \A m \in 1..Len(ring) : m = k
        BY <1>1, <2>1 DEF Distinct, IsInjective
    <2>3. \A n \in Nat : (\A m \in 1..n : m = k) => n = 0 \/ (n = 1 /\ 1 = k)
        <3> SUFFICES ASSUME NEW n \in Nat, \A m \in 1..n : m = k, n # 0
                     PROVE  n = 1 /\ 1 = k
            OBVIOUS
        <3>1. 1 \in 1..n /\ n \in 1..n
            OBVIOUS
        <3> QED
            BY <3>1
    <2>4. Len(ring) # 0
        BY <1>1, EmptySeq
    <2> QED
        BY <1>1, <1>2, <1>3, <1>4, <2>2, <2>3, <2>4
<1>5. CASE Behind(k) # <<>>
    <2>1. Behind(k) \in Seq(Addr) /\ Len(Behind(k)) \in Nat /\ Len(Behind(k)) # 0
        BY <1>2, <1>5, EmptySeq DEF Distinct
    <2>2. 1 \in 1..Len(Behind(k))
        BY <2>1
    <2>3. next = Behind(k)[1] /\ next \in FreeBlocks \ {ring[k]}
        BY <1>2, <1>5, <2>1, <2>2, Elements
    <2>4. Distinct(Tail(Behind(k))) /\ Range(Tail(Behind(k))) = Range(Behind(k)) \ {next}
        BY <1>2, <1>5, <2>3, TailRest
    <2> QED
        BY <1>2, <1>3, <2>3, <2>4
<1> QED
    BY <1>4, <1>5

\* A thread's block f is to be inserted between p and next.
AtPlace(t, f, p, next) ==
    /\ f = freeing[t]
    /\ p = ring[Parent(f)]
    /\ next = IF Behind(Parent(f)) = <<>> THEN p ELSE Behind(Parent(f))[1]

\* The ring and the sizes after that, where f does not absorb a p that is alone.
Linking(f, p, next, rest, grown, left) ==
    /\ Touch(f, next) => next # p
    /\ rest = IF Touch(f, next) THEN Tail(Behind(Parent(f))) ELSE Behind(Parent(f))
    /\ grown = IF Touch(f, next) THEN size[f] + size[next] ELSE size[f]
    /\ left = IF Touch(f, next) THEN [size EXCEPT ![next] = 0] ELSE size
    /\ Touch(p, f) => /\ ring' = <<p>> \o rest
                      /\ size' = [left EXCEPT ![p] = left[p] + grown, ![f] = 0]
    /\ ~Touch(p, f) => /\ ring' = <<p, f>> \o rest
                       /\ size' = [left EXCEPT ![f] = grown]

\* What is known where a block f is to be inserted between p and next.
LEMMA BeforeLink ==
    ASSUME IInv, ~Corrupt, NEW t \in Threads, Insert(t), ring # <<>>,
           NEW f, NEW p, NEW next, AtPlace(t, f, p, next)
    PROVE  /\ TypeOK /\ MemoryTypes /\ size \in Maps /\ FreeBlocks \cap Owned = {} /\ Clear(size, Blocks)
           /\ Within(size, pools, Blocks) /\ Blocks \in SUBSET Addr /\ Blocks = FreeBlocks \cup Owned
           /\ \A q, r \in pools : /\ q[1] \in Nat /\ q[2] \in Nat
                                  /\ q = r \/ q[1] + q[2] < r[1] \/ r[1] + r[2] < q[1]
           /\ f \in Owned /\ p \in FreeBlocks /\ next \in FreeBlocks
           /\ \A b \in Blocks : b \in Addr /\ b \in Nat /\ size[b] \in Nat /\ size[b] > 0
           /\ Owned' = Owned \ {f} /\ OneOwner'
           /\ UNCHANGED <<pools, expected, live>>
<1>1. /\ TypeOK /\ MemoryTypes /\ size \in Maps /\ FreeBlocks \cap Owned = {} /\ Clear(size, Blocks)
      /\ Within(size, pools, Blocks) /\ Blocks \in SUBSET Addr /\ Blocks = FreeBlocks \cup Owned
    BY Types, NotCorrupt, BlockTypes DEF IInv, MemoryTypes, Blocks, BlocksWithin
<1>2. \A q, r \in pools : /\ q[1] \in Nat /\ q[2] \in Nat
                          /\ q = r \/ q[1] + q[2] < r[1] \/ r[1] + r[2] < q[1]
    BY PoolFacts DEF IInv
<1>3. pc[t] = "insert" /\ freeing' = [freeing EXCEPT ![t] = NULL] /\ UNCHANGED <<pools, expected, live>>
    BY DEF Insert
<1>4. f \in Owned /\ Owned' = Owned \ {f} /\ OneOwner'
    BY <1>3, Returned DEF AtPlace
<1>5. Distinct(ring)
    BY <1>1 DEF MemoryTypes
<1>6. Parent(f) \in 1..Len(ring)
    BY <1>5, ParentIsThere
<1>7. p \in FreeBlocks /\ next \in FreeBlocks
    BY <1>5, <1>6, Neighbours DEF AtPlace
<1>8. \A b \in Blocks : b \in Addr /\ b \in Nat /\ size[b] \in Nat /\ size[b] > 0
    BY <1>1, AddressesFinite DEF Maps, Within
<1> QED
    BY <1>1, <1>2, <1>3, <1>4, <1>7, <1>8

\* The fault: f absorbs the only free block, which stays in the list.
LEMMA LinkedToAloneBlock ==
    ASSUME IInv, ~Corrupt, ControlTypes', NEW t \in Threads, Insert(t), ring # <<>>,
           NEW f, NEW p, NEW next, AtPlace(t, f, p, next),
           next = p, Touch(f, p),
           ~Touch(p, f) => /\ ring' = <<p, f>>
                           /\ size' = [size EXCEPT ![f] = size[f] + size[p]]
    PROVE  MemoryInv' /\ Corrupt' /\ KnownOverlap(t)
<1>1. /\ TypeOK /\ MemoryTypes /\ size \in Maps /\ FreeBlocks \cap Owned = {} /\ Clear(size, Blocks)
      /\ Within(size, pools, Blocks) /\ Blocks \in SUBSET Addr /\ Blocks = FreeBlocks \cup Owned
      /\ \A q, r \in pools : /\ q[1] \in Nat /\ q[2] \in Nat
                             /\ q = r \/ q[1] + q[2] < r[1] \/ r[1] + r[2] < q[1]
      /\ f \in Owned /\ p \in FreeBlocks
      /\ \A b \in Blocks : b \in Addr /\ b \in Nat /\ size[b] \in Nat /\ size[b] > 0
      /\ Owned' = Owned \ {f} /\ OneOwner' /\ UNCHANGED <<pools, expected, live>>
    BY BeforeLink
<1>2. f \in Blocks /\ p \in Blocks /\ f # p /\ f + size[f] = p
    BY <1>1 DEF Touch, End
<1>3. ~Touch(p, f)
    BY <1>1, <1>2 DEF Touch, End
<1>4. Parent(f) = 1 /\ Len(ring) = 1 /\ FreeBlocks = {p}
    <2>1. Distinct(ring)
        BY <1>1 DEF MemoryTypes
    <2>2. Parent(f) \in 1..Len(ring)
        BY <2>1, ParentIsThere
    <2>3. Behind(Parent(f)) = <<>> /\ Range(Behind(Parent(f))) = FreeBlocks \ {p} /\ Len(ring) = 1 /\ Parent(f) = 1
        BY <2>1, <2>2, Neighbours DEF AtPlace
    <2> QED
        BY <1>1, <2>3, NoneAtAll
<1>5. KnownOverlap(t)
    BY <1>2, <1>4 DEF KnownOverlap, End, AtPlace
<1>6. ring' = <<p>> \o <<f>> /\ size' = [size EXCEPT ![f] = size[f] + size[p]]
    BY <1>1, <1>2, <1>3
<1>7. Distinct(ring') /\ FreeBlocks' = {p, f}
    <2>1. Distinct(<<p>>) /\ Range(<<p>>) = {p} /\ Distinct(<<f>>) /\ Range(<<f>>) = {f}
        BY <1>1, <1>2, OneAlone
    <2> QED
        BY <1>2, <1>6, <2>1, Joined DEF FreeBlocks
<1>8. size' \in Maps /\ size'[f] = size[f] + size[p] /\ \A b \in Blocks \ {f} : size'[b] = size[b]
    BY <1>1, <1>2, <1>6 DEF Maps
<1>9. Within(size', pools, Blocks \ {p})
    BY <1>1, <1>2, <1>8, JoinBlocks
<1>10. Blocks' = Blocks
    BY <1>1, <1>4, <1>7 DEF Blocks
<1>11. BlocksWithin'
    BY <1>1, <1>2, <1>8, <1>9, <1>10 DEF BlocksWithin, Within
<1>12. MemoryTypes' /\ PoolsKnown'
    BY <1>1, <1>7, <1>8 DEF MemoryTypes, PoolsKnown, IInv
<1>13. Corrupt'
    <2>1. size'[p] = size[p] /\ p # f
        BY <1>2, <1>8
    <2>2. p < f + size'[f] /\ f < p + size'[p]
        BY <1>1, <1>2, <1>8, <2>1
    <2> QED
        BY <1>7, <2>1, <2>2 DEF Corrupt, Overlap, End
<1> QED
    BY <1>1, <1>5, <1>11, <1>12, <1>13 DEF MemoryInv

\* f may absorb next, and p may absorb f.
LEMMA Linked ==
    ASSUME IInv, ~Corrupt, ControlTypes', NEW t \in Threads, Insert(t), ring # <<>>,
           NEW f, NEW p, NEW next, AtPlace(t, f, p, next),
           NEW rest, NEW grown, NEW left, Linking(f, p, next, rest, grown, left)
    PROVE  MemoryInv' /\ ~Corrupt' /\ (Balance => Balance')
<1>1. /\ TypeOK /\ MemoryTypes /\ size \in Maps /\ FreeBlocks \cap Owned = {} /\ Clear(size, Blocks)
      /\ Within(size, pools, Blocks) /\ Blocks \in SUBSET Addr /\ Blocks = FreeBlocks \cup Owned
      /\ \A q, r \in pools : /\ q[1] \in Nat /\ q[2] \in Nat
                             /\ q = r \/ q[1] + q[2] < r[1] \/ r[1] + r[2] < q[1]
      /\ f \in Owned /\ p \in FreeBlocks /\ next \in FreeBlocks
      /\ \A b \in Blocks : b \in Addr /\ b \in Nat /\ size[b] \in Nat /\ size[b] > 0
      /\ Owned' = Owned \ {f} /\ OneOwner' /\ UNCHANGED <<pools, expected, live>>
    BY BeforeLink
<1>2. f \in Blocks /\ p \in Blocks /\ next \in Blocks /\ f # p /\ f # next
    BY <1>1
<1> DEFINE S == IF Touch(f, next) THEN Blocks \ {next} ELSE Blocks
           mid == [left EXCEPT ![f] = grown]
<1>3. /\ Touch(f, next) => S = Blocks \ {next} /\ p # next
      /\ ~Touch(f, next) => S = Blocks
      /\ S \in SUBSET Blocks /\ f \in S /\ p \in S
    BY <1>2 DEF Linking
<1>4. /\ Distinct(rest) /\ Range(rest) = (FreeBlocks \cap S) \ {p} /\ f \in S /\ p \in S
    <2>1. Distinct(ring)
        BY <1>1 DEF MemoryTypes
    <2>2. Parent(f) \in 1..Len(ring)
        BY <2>1, ParentIsThere
    <2>3. /\ Distinct(Behind(Parent(f))) /\ Range(Behind(Parent(f))) = FreeBlocks \ {p}
          /\ next # p => /\ Distinct(Tail(Behind(Parent(f))))
                         /\ Range(Tail(Behind(Parent(f)))) = FreeBlocks \ {p, next}
        BY <2>1, <2>2, Neighbours DEF AtPlace
    <2>4. rest = IF Touch(f, next) THEN Tail(Behind(Parent(f))) ELSE Behind(Parent(f))
        BY DEF Linking
    <2> HIDE DEF S
    <2>5. CASE Touch(f, next)
        BY <1>1, <1>2, <1>3, <2>3, <2>4, <2>5
    <2>6. CASE ~Touch(f, next)
        BY <1>1, <1>2, <1>3, <2>3, <2>4, <2>6
    <2> QED
        BY <2>5, <2>6
<1>5. left \in Maps /\ grown \in Nat /\ \A b \in S : left[b] = size[b]
    <2>1. CASE Touch(f, next)
        <3>1. left = [size EXCEPT ![next] = 0] /\ grown = size[f] + size[next] /\ S = Blocks \ {next}
            BY <1>3, <2>1 DEF Linking
        <3> HIDE DEF S
        <3> QED
            BY <1>1, <1>2, <3>1 DEF Maps
    <2>2. CASE ~Touch(f, next)
        <3>1. left = size /\ grown = size[f]
            BY <2>2 DEF Linking
        <3> QED
            BY <1>1, <1>2, <3>1
    <2> QED
        BY <2>1, <2>2
<1>6. /\ mid \in Maps /\ mid[p] = size[p] /\ mid[f] = grown /\ grown \in Nat
      /\ \A b \in S \ {f} : mid[b] = size[b]
    <2> HIDE DEF S
    <2> QED
        BY <1>1, <1>2, <1>3, <1>5 DEF Maps
<1>7. Clear(mid, S) /\ Within(mid, pools, S) /\ Total(mid, S) = Total(size, Blocks)
    <2>1. CASE Touch(f, next)
        <3>1. f + size[f] = next /\ S = Blocks \ {next} /\ grown = size[f] + size[next]
            BY <1>3, <2>1 DEF Touch, End, Linking
        <3> HIDE DEF S, mid
        <3>2. \A d \in Blocks \ {f, next} : mid[d] = size[d]
            BY <1>6, <3>1
        <3>3. mid \in Maps /\ mid[f] = size[f] + size[next]
            BY <1>6, <3>1
        <3>4. Clear(mid, Blocks \ {next}) /\ Within(mid, pools, Blocks \ {next}) /\ Total(mid, Blocks \ {next}) = Total(size, Blocks)
            <4>1. size \in Maps /\ Blocks \in SUBSET Addr /\ f \in Blocks /\ next \in Blocks
                BY <1>1, <1>2
            <4>2. Clear(size, Blocks) /\ Within(size, pools, Blocks)
                BY <1>1
            <4>3. \A q, r \in pools : /\ q[1] \in Nat /\ q[2] \in Nat
                                      /\ q = r \/ q[1] + q[2] < r[1] \/ r[1] + r[2] < q[1]
                BY <1>1
            <4>4. f + size[f] = next
                BY <3>1
            <4> QED
                BY <3>2, <3>3, <4>1, <4>2, <4>3, <4>4, JoinBlocks
        <3> QED
            BY <3>1, <3>4
    <2>2. CASE ~Touch(f, next)
        <3>1. S = Blocks /\ grown = size[f]
            BY <1>3, <2>2 DEF Linking
        <3> HIDE DEF S, mid
        <3>2. \A d \in Blocks : mid[d] = size[d]
            BY <1>2, <1>6, <3>1
        <3>3. Total(mid, Blocks) = Total(size, Blocks)
            BY <1>1, <1>6, <3>2, TotalSame
        <3>4. Clear(mid, Blocks) /\ Within(mid, pools, Blocks)
            BY <1>1, <3>2 DEF Clear, Within
        <3> QED
            BY <3>1, <3>3, <3>4
    <2> QED
        BY <2>1, <2>2
<1>8. S \in SUBSET Addr /\ S = (FreeBlocks \cap S) \cup Owned
    BY <1>1, <1>2, <1>3
<1>9. ASSUME Touch(p, f)
      PROVE  /\ Distinct(ring') /\ FreeBlocks' = FreeBlocks \cap S /\ size' \in Maps
             /\ Clear(size', S \ {f}) /\ Within(size', pools, S \ {f}) /\ Total(size', S \ {f}) = Total(mid, S)
    <2>1. ring' = <<p>> \o rest /\ size' = [left EXCEPT ![p] = left[p] + grown, ![f] = 0]
        BY <1>9 DEF Linking
    <2>2. Distinct(<<p>>) /\ Range(<<p>>) = {p}
        BY <1>1, <1>2, OneAlone
    <2>3. Distinct(ring') /\ Range(ring') = {p} \cup Range(rest)
        BY <1>4, <2>1, <2>2, Joined
    <2>4. FreeBlocks' = FreeBlocks \cap S
        BY <1>1, <1>4, <2>3 DEF FreeBlocks
    <2>5. left \in Maps /\ left[p] = size[p] /\ \A d \in S \ {f} : left[d] = size[d]
        BY <1>3, <1>5
    <2>6. size' \in Maps /\ size'[p] = size[p] + grown /\ \A d \in S \ {p, f} : size'[d] = size[d]
        <3>1. left[p] + grown \in Nat
            BY <1>1, <1>2, <1>6, <2>5
        <3> HIDE DEF S
        <3>2. size' \in Maps /\ size'[p] = left[p] + grown /\ \A d \in Addr \ {p, f} : size'[d] = left[d]
            BY <1>1, <1>2, <2>1, <2>5, <3>1 DEF Maps
        <3> QED
            BY <1>8, <2>5, <3>2
    <2>7. p + mid[p] = f /\ size'[p] = mid[p] + mid[f] /\ \A d \in S \ {p, f} : size'[d] = mid[d]
        <3>1. p + size[p] = f
            BY <1>9 DEF Touch, End
        <3> HIDE DEF S, mid
        <3>2. mid[p] = size[p] /\ mid[f] = grown /\ \A d \in S \ {f} : mid[d] = size[d]
            BY <1>6
        <3>3. size'[p] = size[p] + grown /\ \A d \in S \ {p, f} : size'[d] = size[d]
            BY <2>6
        <3> QED
            BY <3>1, <3>2, <3>3
    <2> HIDE DEF S, mid
    <2>8. Clear(size', S \ {f}) /\ Within(size', pools, S \ {f}) /\ Total(size', S \ {f}) = Total(mid, S)
        <3>1. mid \in Maps /\ size' \in Maps /\ f \in S /\ p \in S /\ S \in SUBSET Addr
            BY <1>4, <1>6, <1>8, <2>6
        <3>2. Clear(mid, S) /\ Within(mid, pools, S)
            BY <1>7
        <3>3. \A q, r \in pools : /\ q[1] \in Nat /\ q[2] \in Nat
                                  /\ q = r \/ q[1] + q[2] < r[1] \/ r[1] + r[2] < q[1]
            BY <1>1
        <3> QED
            BY <2>7, <3>1, <3>2, <3>3, JoinBlocks
    <2> QED
        BY <2>3, <2>4, <2>6, <2>8
<1>10. ASSUME ~Touch(p, f)
      PROVE  Distinct(ring') /\ FreeBlocks' = (FreeBlocks \cap S) \cup {f} /\ size' = mid
    <2>1. ring' = (<<p>> \o <<f>>) \o rest /\ size' = mid
        <3>1. ring' = <<p, f>> \o rest /\ size' = mid
            BY <1>10 DEF Linking
        <3>2. <<p, f>> = <<p>> \o <<f>>
            BY <1>1
        <3> QED
            BY <3>1, <3>2
    <2>2. Distinct(<<p>>) /\ Range(<<p>>) = {p} /\ Distinct(<<f>>) /\ Range(<<f>>) = {f}
        BY <1>1, <1>2, OneAlone
    <2>3. Distinct(<<p>> \o <<f>>) /\ Range(<<p>> \o <<f>>) = {p, f}
        <3>1. Range(<<p>>) \cap Range(<<f>>) = {}
            BY <1>2, <2>2
        <3> QED
            BY <2>2, <3>1, Joined
    <2>4. {p, f} \cap Range(rest) = {}
        BY <1>1, <1>4
    <2>5. Distinct(ring') /\ Range(ring') = {p, f} \cup Range(rest)
        BY <1>4, <2>1, <2>3, <2>4, Joined
    <2>6. FreeBlocks' = (FreeBlocks \cap S) \cup {f}
        BY <1>1, <1>4, <2>5 DEF FreeBlocks
    <2> QED
        BY <2>1, <2>5, <2>6
<1> HIDE DEF S, mid
<1>11. /\ Distinct(ring') /\ size' \in Maps /\ FreeBlocks' \cap Owned' = {}
      /\ Clear(size', Blocks') /\ Within(size', pools, Blocks') /\ Total(size', Blocks') = Total(size, Blocks)
    <2>1. CASE Touch(p, f)
        <3>1. Blocks' = S \ {f} /\ FreeBlocks' \cap Owned' = {}
            BY <1>1, <1>8, <1>9, <2>1 DEF Blocks
        <3> QED
            BY <1>7, <1>9, <2>1, <3>1
    <2>2. CASE ~Touch(p, f)
        <3>1. Blocks' = S /\ FreeBlocks' \cap Owned' = {}
            BY <1>1, <1>8, <1>10, <2>2 DEF Blocks
        <3> QED
            BY <1>6, <1>7, <1>10, <2>2, <3>1
    <2> QED
        BY <2>1, <2>2
<1>12. MemoryTypes' /\ PoolsKnown' /\ BlocksWithin'
    BY <1>1, <1>11 DEF MemoryTypes, PoolsKnown, BlocksWithin, Within, IInv
<1>13. TypeOK'
    <2>1. (TypeOK <=> ControlTypes /\ MemoryTypes)'
        BY Types, PTL
    <2> QED
        BY <1>12, <2>1
<1>14. ~Corrupt' /\ (Balance => Balance')
    BY <1>1, <1>11, <1>13, Accounts
<1> QED
    BY <1>1, <1>12, <1>14 DEF MemoryInv

\* dealloc() under the lock: the two lemmas above are its ways through Link.
LEMMA Inserted ==
    ASSUME IInv, ~Corrupt, ControlTypes', NEW t \in Threads, Insert(t)
    PROVE  /\ MemoryInv' /\ (Corrupt' => KnownOverlap(t))
           /\ ~Corrupt' /\ Balance => Balance'
<1>1. CASE ring = <<>>
    BY <1>1, InsertedAlone
<1>2. CASE ring # <<>>
    <2> DEFINE f == freeing[t]
               p == ring[Parent(f)]
               behind == Behind(Parent(f))
               next == IF behind = <<>> THEN p ELSE behind[1]
               withNext == Touch(f, next)
               rest == IF withNext /\ next # p THEN Tail(behind) ELSE behind
               grown == IF withNext THEN size[f] + size[next] ELSE size[f]
               left == IF withNext /\ next # p THEN [size EXCEPT ![next] = 0] ELSE size
    <2>1. IF Touch(p, f) THEN /\ ring' = <<p>> \o rest
                              /\ size' = [left EXCEPT ![p] = @ + grown, ![f] = 0]
                         ELSE /\ ring' = <<p, f>> \o rest
                              /\ size' = [left EXCEPT ![f] = grown]
        BY <1>2 DEF Insert, Link
    <2>2. CASE withNext /\ next = p
        <3>1. behind = <<>>
            <4>1. Distinct(ring)
                BY Types DEF IInv, MemoryTypes
            <4>2. Parent(f) \in 1..Len(ring)
                BY <1>2, <4>1, ParentIsThere
            <4> QED
                BY <1>2, <2>2, <4>1, <4>2, Neighbours
        <3>2. rest = <<>> /\ grown = size[f] + size[p] /\ left = size
            BY <2>2, <3>1
        <3>3. ~Touch(p, f) => ring' = <<p, f>> /\ size' = [size EXCEPT ![f] = size[f] + size[p]]
            <4>1. ~Touch(p, f) => ring' = <<p, f>> \o <<>> /\ size' = [size EXCEPT ![f] = size[f] + size[p]]
                BY <2>1, <3>2
            <4>2. \A a, b : <<a, b>> \o <<>> = <<a, b>>
                OBVIOUS
            <4> QED
                BY <4>1, <4>2
        <3>4. Touch(f, p) /\ next = p
            BY <2>2
        <3>5. AtPlace(t, f, p, next)
            BY DEF AtPlace
        <3> HIDE DEF f, p, next
        <3> QED
            BY <1>2, <3>3, <3>4, <3>5, LinkedToAloneBlock
    <2>3. CASE ~(withNext /\ next = p)
        <3>1. AtPlace(t, f, p, next)
            BY DEF AtPlace
        <3> HIDE DEF f, p, next
        <3>2. Linking(f, p, next, rest, grown, left)
            BY <2>1, <2>3 DEF Linking
        <3> HIDE DEF rest, grown, left
        <3> QED
            BY <1>2, <3>1, <3>2, Linked
    <2> QED
        BY <2>2, <2>3
<1> QED
    BY <1>1, <1>2

\* Every step keeps the memory in order; what it may break is the two faults.
LEMMA StepEffect ==
    ASSUME IInv, ~Corrupt, NEW t \in Threads, Step(t)
    PROVE  /\ IInv'
           /\ Corrupt' => KnownOverlap(t)
           /\ ~Corrupt' /\ Balance /\ ~Balance' => KnownLoss(t)
<1>1. ControlTypes' /\ Calls' /\ MemoryInv
    BY ControlPreserved, Types DEF IInv, MemoryInv
<1>2. ASSUME UNCHANGED <<ring, size, pools, expected, freeing, live>>
      PROVE  MemoryInv' /\ ~Corrupt' /\ (Balance => Balance')
    BY <1>1, <1>2, NoBlockMoves
<1>3. MemoryInv' /\ (Corrupt' => KnownOverlap(t)) /\ (~Corrupt' /\ Balance /\ ~Balance' => KnownLoss(t))
    <2>1. CASE \E s \in Sizes : CallAlloc(t, s)
        BY <1>2, <2>1 DEF CallAlloc
    <2>2. CASE \E k \in DOMAIN live : CallDealloc(t, k)
        BY <2>2, GivingBack
    <2>3. CASE Relock(t)
        BY <1>2, <2>3 DEF Relock
    <2>4. CASE Search(t)
        <3>1. CASE HasFit(t) /\ AllocDone(t)
            <4> DEFINE b == ring[FirstFit(t)]
                       need == want[t] + Header
            <4>1. IF size[b] - need < MinUseful
                  THEN ring' = Without(FirstFit(t)) /\ live' = Append(live, b) /\ size' = size
                  ELSE Split(b, need) /\ ring' = ring
                BY <3>1 DEF AllocDone, Take
            <4>2. CASE size[b] - need < MinUseful
                <5> HIDE DEF b, need
                <5>1. b = ring[FirstFit(t)]
                    BY DEF b
                <5> QED
                    BY <1>1, <2>4, <3>1, <4>1, <4>2, <5>1, TakenWhole DEF Search
            <4>3. CASE ~(size[b] - need < MinUseful)
                <5>1. b = ring[FirstFit(t)] /\ need = want[t] + Header
                    OBVIOUS
                <5> HIDE DEF b, need
                <5> QED
                    BY <1>1, <2>4, <3>1, <4>1, <4>3, <5>1, TakenSplit DEF Search
            <4> QED
                BY <4>2, <4>3
        <3>2. CASE Grow(t)
            BY <1>1, <2>4, <3>2, Grown DEF Search
        <3>3. CASE GrowFails(t)
            BY <1>2, <3>3 DEF GrowFails
        <3>4. CASE FollowNull(t)
            BY <1>2, <3>4 DEF FollowNull
        <3> QED
            BY <2>4, <3>1, <3>2, <3>3, <3>4 DEF Search
    <2>5. CASE UnlockAgain(t)
        BY <1>2, <2>5 DEF UnlockAgain
    <2>6. CASE Insert(t)
        BY <1>1, <2>6, Inserted
    <2> QED
        BY <2>1, <2>2, <2>3, <2>4, <2>5, <2>6 DEF Step
<1>4. (TypeOK <=> ControlTypes /\ MemoryTypes)'
    BY Types, PTL
<1> QED
    BY <1>1, <1>3, <1>4 DEF IInv, MemoryInv

----------------------------------------------------------------------------
(* The order of a stack.                                                   *)

\* What is free lies below everything else.
Lowest(b) == IF ring = <<>> THEN b = FirstBlock ELSE End(FirstBlock) = b

\* One pool, at most one free block in it, and the blocks above that without a
\* gap from the last one allocated to the first; the block on its way back, if
\* there is one, was the last.
InStackOrder ==
    /\ pools = {First} /\ ring \in {<<>>, <<FirstBlock>>}
    /\ \A t, u \in Threads : freeing[t] # NULL /\ freeing[u] # NULL => t = u
    /\ \A k \in 2..Len(live) : End(live[k]) = live[k-1]
    /\ \A t \in Threads : freeing[t] # NULL =>
          Lowest(freeing[t]) /\ (live # <<>> => End(freeing[t]) = live[Len(live)])
    /\ (\A t \in Threads : freeing[t] = NULL) /\ live # <<>> => Lowest(live[Len(live)])

LEMMA NoneInHand ==
    IInv /\ Owned = Range(live) => \A t \in Threads : freeing[t] = NULL
BY DEF IInv, OneOwner, Owned

LEMMA LiveBlocks ==
    IInv => /\ live \in Seq(Addr) /\ Len(live) \in Nat /\ DOMAIN live = 1..Len(live)
            /\ \A k \in 1..Len(live) : live[k] \in Addr /\ live[k] \in Owned /\ live[k] \in Nat
            /\ live # <<>> <=> Len(live) > 0
<1> SUFFICES ASSUME IInv
             PROVE  /\ live \in Seq(Addr) /\ Len(live) \in Nat /\ DOMAIN live = 1..Len(live)
                    /\ \A k \in 1..Len(live) : live[k] \in Addr /\ live[k] \in Owned /\ live[k] \in Nat
                    /\ live # <<>> <=> Len(live) > 0
    OBVIOUS
<1>1. live \in Seq(Addr)
    BY DEF IInv, TypeOK
<1>2. /\ Len(live) \in Nat /\ DOMAIN live = 1..Len(live)
      /\ \A k \in 1..Len(live) : live[k] \in Addr /\ live[k] \in Owned
    BY <1>1, Elements DEF Owned
<1>3. live # <<>> <=> Len(live) > 0
    BY <1>1, <1>2, EmptySeq
<1> QED
    BY <1>1, <1>2, <1>3, AddressesFinite

LEMMA LastDropped ==
    ASSUME NEW s, Distinct(s), Len(s) > 0
    PROVE  LET r == SubSeq(s, 1, Len(s)-1) \o SubSeq(s, Len(s)+1, Len(s))
           IN  Len(r) = Len(s)-1 /\ \A k \in 1..(Len(s)-1) : r[k] = s[k]
<1> DEFINE n == Len(s)
           head == SubSeq(s, 1, n-1)
           tail == SubSeq(s, n+1, n)
<1>1. n \in Nat /\ 1 \in 1..n+1 /\ n+1 \in 1..n+1 /\ n-1 \in 0..n /\ n \in 0..n
    BY Elements DEF Distinct
<1>2. Distinct(head) /\ Len(head) = n-1 /\ \A k \in 1..n-1 : head[k] = s[k]
    <2>1. /\ Distinct(head) /\ Len(head) = IF 1 <= n-1 THEN (n-1)-1+1 ELSE 0
          /\ \A k \in 1..(n-1)-1+1 : head[k] = s[1+k-1]
        <3> HIDE DEF n
        <3>1. 1..Len(s)+1 = 1..n+1 /\ 0..Len(s) = 0..n
            BY DEF n
        <3> QED
            BY <1>1, <3>1, Part
    <2> HIDE DEF head, n
    <2>2. n > 0 /\ Len(head) = n-1
        BY <1>1, <2>1
    <2>3. ASSUME NEW k \in 1..n-1
          PROVE  head[k] = s[k]
        <3>1. k \in 1..(n-1)-1+1 /\ 1+k-1 = k
            BY <1>1
        <3> QED
            BY <2>1, <3>1
    <2> QED
        BY <2>1, <2>2, <2>3
<1>3. Distinct(tail) /\ Len(tail) = 0
    BY <1>1, Part
<1>4. head \in Seq(Addr) /\ tail \in Seq(Addr)
    BY <1>2, <1>3 DEF Distinct
<1> HIDE DEF head, tail, n
<1>5. Len(head \o tail) = n-1 /\ \A k \in 1..n-1 : (head \o tail)[k] = s[k]
    BY <1>1, <1>2, <1>3, <1>4
<1> QED
    BY <1>5 DEF head, tail, n

\* The first pool holds all blocks, so that neither fault can happen.
LEMMA NoFaultInStackOrder ==
    ASSUME IInv, InStackOrder
    PROVE  /\ \A b \in Blocks : b \in Addr /\ b \in Nat /\ size[b] \in Nat /\ size[b] > 0 /\ FirstBlock <= b
           /\ FirstBlock \in Nat /\ FirstBlock \in Addr
           /\ \A t \in Threads : ~KnownOverlap(t) /\ ~KnownLoss(t)
<1>1. FirstBlock \in Nat /\ FirstBlock \in Addr
    BY AllocatorAssumption DEF Addr
<1>2. \A b \in Blocks : b \in Addr /\ b \in Nat /\ size[b] \in Nat /\ size[b] > 0 /\ FirstBlock <= b
    <2>1. \A b \in Blocks : b \in Addr /\ b \in Nat /\ size[b] \in Nat
        BY BlockTypes, AddressesFinite DEF IInv, TypeOK
    <2>2. \A b \in Blocks : size[b] > 0 /\ First[1] <= b
        BY DEF IInv, BlocksWithin, Within, InStackOrder
    <2> QED
        BY <2>1, <2>2 DEF First
<1>3. ASSUME NEW t \in Threads
      PROVE  ~KnownOverlap(t) /\ ~KnownLoss(t)
    <2>1. Len(ring) \in {0, 1} /\ (Len(ring) = 1 => ring[1] = FirstBlock)
        <3>1. CASE ring = <<>>
            BY <3>1
        <3>2. CASE ring = <<FirstBlock>>
            BY <3>2
        <3> QED
            BY <3>1, <3>2 DEF InStackOrder
    <2>2. ASSUME Insert(t)
          PROVE  freeing[t] \in Blocks
        BY <2>2 DEF Insert, IInv, Calls, Owned, Blocks
    <2>3. ~KnownOverlap(t)
        <3>1. SUFFICES ASSUME Insert(t), Len(ring) = 1, End(freeing[t]) = ring[1]
                       PROVE  FALSE
            BY DEF KnownOverlap
        <3> QED
            BY <1>1, <1>2, <2>1, <2>2, <3>1 DEF End
    <2>4. ~KnownLoss(t)
        <3>1. ~(Len(ring) > 1)
            <4>1. ~(0 > 1) /\ ~(1 > 1)
                OBVIOUS
            <4> QED
                BY <2>1, <4>1, Zenon
        <3> QED
            BY <3>1 DEF KnownLoss
    <2> QED
        BY <2>3, <2>4
<1> QED
    BY <1>1, <1>2, <1>3

\* The last block is given back.
LEMMA StackPop ==
    ASSUME IInv, InStackOrder, NEW t \in Threads, CallDealloc(t, Len(live)), live # <<>>, Owned = Range(live)
    PROVE  InStackOrder'
<1> DEFINE n == Len(live)
<1>1. /\ n \in Nat /\ n > 0 /\ live \in Seq(Addr) /\ \A k \in 1..n : live[k] \in Addr
      /\ \A u \in Threads : freeing[u] = NULL
      /\ freeing \in [Threads -> Addr \cup {NULL}] /\ NULL \notin Addr
    BY LiveBlocks, NoneInHand, AddressesFinite DEF IInv, TypeOK, NULL
<1>2. /\ UNCHANGED <<ring, size, pools>> /\ freeing' = [freeing EXCEPT ![t] = live[n]]
      /\ live' = SubSeq(live, 1, n-1) \o SubSeq(live, n+1, n)
    BY DEF CallDealloc
<1>3. Len(live') = n-1 /\ \A k \in 1..(n-1) : live'[k] = live[k]
    <2>1. Distinct(live)
        BY <1>1 DEF IInv, OneOwner, Distinct
    <2> QED
        BY <1>1, <1>2, <2>1, LastDropped
<1>4. \A u \in Threads : freeing'[u] = IF u = t THEN live[n] ELSE NULL
    BY <1>1, <1>2
<1>5. live' # <<>> => n-1 > 0
    <2>1. live' \in Seq(Addr)
        BY <1>1, <1>2
    <2> QED
        BY <1>1, <1>3, <2>1, EmptySeq
<1>7. live[n] # NULL /\ Lowest(live[n])
    BY <1>1 DEF InStackOrder
<1> HIDE DEF n
<1>8. \A k \in 2..Len(live') : live'[k] + size[live'[k]] = live'[k-1]
    <2> SUFFICES ASSUME NEW k \in 2..Len(live')
                 PROVE  live'[k] + size[live'[k]] = live'[k-1]
        OBVIOUS
    <2>1. live'[k] = live[k] /\ live'[k-1] = live[k-1] /\ k \in 2..n
        BY <1>1, <1>3
    <2> QED
        BY <2>1 DEF InStackOrder, n, End
<1>9. live' # <<>> => live[n] + size[live[n]] = live'[Len(live')]
    <2>1. n \in 2..n => live[n] + size[live[n]] = live[n-1]
        BY DEF InStackOrder, n, End
    <2> QED
        BY <1>1, <1>3, <1>5, <2>1
<1>10. First' = First /\ pools' = pools /\ ring' = ring
    BY <1>2 DEF First
<1>11. PICK b : b = live[n]
    OBVIOUS
<1>12. Lowest(b)' /\ b # NULL /\ (live' # <<>> => End(b)' = live'[Len(live')])
    BY <1>2, <1>7, <1>9, <1>10, <1>11 DEF Lowest, End
<1>13. \A u \in Threads : freeing'[u] = IF u = t THEN b ELSE NULL
    BY <1>4, <1>11
<1>14. (pools = {First} /\ ring \in {<<>>, <<FirstBlock>>})'
    BY <1>2, <1>10 DEF InStackOrder
<1>15. (\A k \in 2..Len(live) : End(live[k]) = live[k-1])'
    BY <1>2, <1>8 DEF End
<1>16. (\A v, u \in Threads : freeing[v] # NULL /\ freeing[u] # NULL => v = u)'
    BY <1>13
<1>17. (\A v \in Threads : freeing[v] # NULL =>
            Lowest(freeing[v]) /\ (live # <<>> => End(freeing[v]) = live[Len(live)]))'
    <2> SUFFICES ASSUME NEW v \in Threads, freeing'[v] # NULL
                 PROVE  (Lowest(freeing[v]) /\ (live # <<>> => End(freeing[v]) = live[Len(live)]))'
        OBVIOUS
    <2>1. freeing'[v] = b
        BY <1>13
    <2> QED
        BY <1>12, <2>1 DEF Lowest, End
<1>18. ~(\A v \in Threads : freeing[v] = NULL)'
    BY <1>12, <1>13
<1> QED
    BY <1>14, <1>15, <1>16, <1>17, <1>18 DEF InStackOrder
\* A block is allocated below the last one.
LEMMA StackAppend ==
    ASSUME IInv, InStackOrder, \A u \in Threads : freeing[u] = NULL,
           UNCHANGED <<freeing, pools>>, ring' \in {<<>>, <<FirstBlock>>},
           NEW b \in Addr, live' = Append(live, b), Lowest(b)',
           \A k \in 1..Len(live) : size'[live[k]] = size[live[k]],
           live # <<>> => b + size'[b] = live[Len(live)]
    PROVE  InStackOrder'
<1> DEFINE n == Len(live)
<1>1. n \in Nat /\ live \in Seq(Addr) /\ (live # <<>> <=> n > 0)
    BY LiveBlocks
<1>2. Len(live') = n+1 /\ live'[n+1] = b /\ \A k \in 1..n : live'[k] = live[k]
    BY <1>1
<1>3. \A k \in 2..n : live[k] + size[live[k]] = live[k-1]
    BY DEF InStackOrder, End
<1> HIDE DEF n
<1>4. \A k \in 2..n+1 : live'[k] + size'[live'[k]] = live'[k-1]
    <2> SUFFICES ASSUME NEW k \in 2..n+1
                 PROVE  live'[k] + size'[live'[k]] = live'[k-1]
        OBVIOUS
    <2>1. CASE k = n+1
        <3>1. n > 0 /\ k-1 = n /\ n \in 1..n
            BY <1>1, <2>1
        <3> QED
            BY <1>1, <1>2, <2>1, <3>1 DEF n
    <2>2. CASE k # n+1
        <3>1. k \in 2..n /\ k \in 1..n /\ k-1 \in 1..n
            BY <1>1, <2>2
        <3> QED
            BY <1>2, <1>3, <3>1 DEF n
    <2> QED
        BY <2>1, <2>2
<1>5. (\A k \in 2..Len(live) : End(live[k]) = live[k-1])'
    BY <1>2, <1>4 DEF End
<1>6. (pools = {First} /\ ring \in {<<>>, <<FirstBlock>>})' /\ \A u \in Threads : freeing'[u] = NULL
    BY DEF InStackOrder, First
<1>7. Lowest(live[Len(live)])'
    BY <1>2 DEF Lowest, End
<1> QED
    BY <1>5, <1>6, <1>7 DEF InStackOrder

LEMMA StackTake ==
    ASSUME IInv, ~Corrupt, InStackOrder, NEW t \in Threads, Searching(t), HasFit(t), AllocDone(t),
           Owned = Range(live)
    PROVE  InStackOrder'
<1> DEFINE b == FirstBlock
           need == want[t] + Header
           n == Len(live)
<1>1. FirstFit(t) \in 1..Len(ring) /\ size[ring[FirstFit(t)]] >= need
    <2>1. FirstFit(t) \in 1..Len(ring)
        BY Found
    <2> QED
        BY <2>1, Found DEF Fits
<1>2. ring = <<b>> /\ FirstFit(t) = 1 /\ ring[1] = b
    <2>1. ring # <<>>
        BY <1>1
    <2> QED
        BY <1>1, <2>1 DEF InStackOrder
<1>3. /\ b \in FreeBlocks /\ b \in Addr /\ b \in Nat /\ size[b] \in Nat /\ need \in Nat /\ need > 0
      /\ b + size[b] \in 1..Top+1 /\ size \in Maps
    <2>1. b \in FreeBlocks /\ need \in Nat /\ need > 0
        BY <1>2, Found DEF Header
    <2>2. b \in Addr /\ b \in Nat /\ size[b] \in Nat /\ size \in Maps
        BY <2>1, NoFaultInStackOrder DEF Blocks, IInv, TypeOK, Maps
    <2>3. b + size[b] <= First[1] + First[2]
        BY <2>1 DEF IInv, BlocksWithin, Within, InStackOrder, Blocks
    <2>4. b + size[b] <= Top
        BY <2>2, <2>3, AllocatorAssumption, PoolSizes DEF First
    <2> QED
        BY <2>1, <2>2, <2>4, AllocatorAssumption
<1>4. /\ live \in Seq(Addr) /\ n \in Nat /\ (live # <<>> => b + size[b] = live[n])
      /\ \A u \in Threads : freeing[u] = NULL
    <2>1. \A u \in Threads : freeing[u] = NULL
        BY NoneInHand
    <2> QED
        BY <1>2, <2>1, LiveBlocks DEF InStackOrder, Lowest, End
<1>5. \A k \in 1..n : live[k] # b /\ (live[k] < b \/ b + size[b] <= live[k])
    <2>1. FreeBlocks \cap Owned = {} /\ Clear(size, Blocks)
        BY NotCorrupt DEF IInv
    <2> SUFFICES ASSUME NEW k \in 1..n
                 PROVE  live[k] # b /\ (live[k] < b \/ b + size[b] <= live[k])
        OBVIOUS
    <2>2. live[k] \in Owned /\ live[k] \in Nat
        BY LiveBlocks
    <2>3. live[k] # b
        BY <1>3, <2>1, <2>2
    <2>4. size[live[k]] \in Nat /\ size[live[k]] > 0
        BY <2>2, NoFaultInStackOrder DEF Blocks
    <2>5. live[k] + size[live[k]] <= b \/ b + size[b] <= live[k]
        BY <1>3, <2>1, <2>2, <2>3 DEF Clear, Blocks
    <2> HIDE DEF b
    <2> QED
        BY <1>3, <2>2, <2>3, <2>4, <2>5
<1>6. UNCHANGED <<freeing, pools>>
    BY DEF AllocDone
<1>7. IF size[b] - need < MinUseful
      THEN ring' = Without(1) /\ live' = Append(live, b) /\ size' = size
      ELSE Split(b, need) /\ ring' = ring
    BY <1>2 DEF AllocDone, Take
<1>8. CASE size[b] - need < MinUseful
    <2>1. ring' = <<>> /\ live' = Append(live, b) /\ size' = size
        BY <1>7, <1>8 DEF Without
    <2>2. Lowest(FirstBlock)'
        BY <2>1 DEF Lowest
    <2> QED
        BY <1>3, <1>4, <1>6, <2>1, <2>2, StackAppend
<1>9. CASE ~(size[b] - need < MinUseful)
    <2> DEFINE u == b + size[b] - need
    <2>1. /\ u \in Addr /\ u \in Nat /\ u > b /\ u < b + size[b] /\ b + (size[b] - need) = u
          /\ u + need = b + size[b] /\ size[b] - need \in Nat
        <3> HIDE DEF b, need
        <3> QED
            BY <1>3, <1>9, AllocatorAssumption DEF MinUseful, Addr
    <2>2. ring' = <<b>> /\ live' = Append(live, u) /\ size' = [size EXCEPT ![b] = size[b] - need, ![u] = need]
        <3>1. Split(b, need) /\ ring' = <<b>>
            BY <1>2, <1>7, <1>9
        <3> HIDE DEF b, need
        <3>2. u = End(b) - need
            BY <1>3 DEF End
        <3> HIDE DEF u
        <3>3. /\ live' = Append(live, End(b) - need)
              /\ size' = [size EXCEPT ![b] = size[b] - need, ![End(b) - need] = need]
            BY <3>1 DEF Split
        <3> QED
            BY <3>1, <3>2, <3>3
    <2> HIDE DEF u, need
    <2>3. size'[b] = size[b] - need /\ size'[u] = need /\ \A a \in Addr \ {b, u} : size'[a] = size[a]
        BY <1>3, <2>1, <2>2 DEF Maps
    <2>4. \A k \in 1..n : size'[live[k]] = size[live[k]]
        <3> SUFFICES ASSUME NEW k \in 1..n
                     PROVE  size'[live[k]] = size[live[k]]
            OBVIOUS
        <3>1. live[k] # b /\ (live[k] < b \/ b + size[b] <= live[k]) /\ live[k] \in Addr /\ live[k] \in Nat
            BY <1>5, LiveBlocks
        <3>2. live[k] # u
            BY <1>3, <2>1, <3>1
        <3> QED
            BY <2>3, <3>1, <3>2
    <2>5. PICK w \in Addr : w = u
        BY <2>1
    <2>6. Lowest(w)'
        BY <2>1, <2>2, <2>3, <2>5 DEF Lowest, End
    <2>7. live # <<>> => w + size'[w] = live[Len(live)]
        BY <1>4, <2>1, <2>3, <2>5
    <2> QED
        BY <1>4, <1>6, <2>2, <2>4, <2>5, <2>6, <2>7, StackAppend
<1> QED
    BY <1>8, <1>9

LEMMA StackInsert ==
    ASSUME IInv, ~Corrupt, InStackOrder, NEW t \in Threads, Insert(t)
    PROVE  InStackOrder'
<1> DEFINE b == FirstBlock
           f == freeing[t]
           n == Len(live)
<1>1. /\ f \in Addr /\ f \in Owned /\ f # NULL /\ b \in Addr /\ b \in Nat /\ f \in Nat /\ b <= f
      /\ size[f] \in Nat /\ size[f] > 0 /\ size \in Maps
    <2>1. /\ pc[t] = "insert" /\ freeing' = [freeing EXCEPT ![t] = NULL] /\ live' = live
        BY DEF Insert
    <2>2. f \in Addr /\ f \in Owned
        BY <2>1, Returned
    <2>3. NULL \notin Addr /\ size \in Maps
        BY AddressesFinite DEF NULL, IInv, TypeOK, Maps
    <2> QED
        BY <2>2, <2>3, NoFaultInStackOrder DEF Blocks
<1>2. /\ UNCHANGED <<pools, live>>
      /\ \A u \in Threads : freeing'[u] = NULL
    <2>1. freeing' = [freeing EXCEPT ![t] = NULL] /\ UNCHANGED <<pools, live>>
        BY DEF Insert
    <2>2. \A u \in Threads : freeing[u] # NULL => u = t
        BY <1>1 DEF InStackOrder
    <2>3. freeing \in [Threads -> Addr \cup {NULL}]
        BY DEF IInv, TypeOK
    <2> QED
        BY <2>1, <2>2, <2>3
<1>3. Lowest(f) /\ (live # <<>> => f + size[f] = live[n])
    BY <1>1 DEF InStackOrder, End
<1>4. \A k \in 1..n : live[k] \in Addr /\ live[k] # f
    BY LiveBlocks DEF IInv, OneOwner, Range
<1>5. live \in Seq(Addr) /\ n \in Nat /\ (live # <<>> => n > 0)
    BY LiveBlocks
<1>6. /\ ring' = <<b>> /\ (live # <<>> => b + size'[b] = live[n])
      /\ \A k \in 1..n : size'[live[k]] = size[live[k]]
    <2>1. CASE ring = <<>>
        <3>1. ring' = <<f>> /\ size' = size
            BY <2>1 DEF Insert
        <3>2. f = b
            BY <1>3, <2>1 DEF Lowest
        <3> QED
            BY <1>3, <3>1, <3>2
    <2>2. CASE ring # <<>>
        <3>1. ring = <<b>> /\ b + size[b] = f /\ Len(ring) = 1 /\ ring[1] = b
            BY <1>3, <2>2 DEF InStackOrder, Lowest, End
        <3>2. Parent(f) = 1
            BY <3>1 DEF Parent
        <3>3. Behind(1) = <<>>
            BY <3>1 DEF Behind
        <3>4. b \in FreeBlocks /\ size[b] \in Nat /\ size[b] > 0
            <4>1. b \in FreeBlocks
                BY <3>1, <1>1, OneAlone DEF FreeBlocks
            <4> QED
                BY <4>1, NoFaultInStackOrder DEF Blocks
        <3>5. Touch(b, f) /\ ~Touch(f, b)
            <4> HIDE DEF f
            <4> QED
                BY <1>1, <3>1, <3>4 DEF Touch, End
        <3>6. ring' = <<b>> \o <<>> /\ size' = [size EXCEPT ![b] = size[b] + size[f], ![f] = 0]
            BY <2>2, <3>1, <3>2, <3>3, <3>5 DEF Insert, Link
        <3> HIDE DEF f
        <3>7. ring' = <<b>> /\ size'[b] = size[b] + size[f] /\ \A a \in Addr \ {b, f} : size'[a] = size[a]
            <4>1. f # b
                BY <1>1, <3>1, <3>4
            <4> QED
                BY <1>1, <3>6, <4>1 DEF Maps
        <3>8. \A k \in 1..n : live[k] # b
            <4>1. \A k \in 1..n : live[k] \in Owned
                BY LiveBlocks
            <4>2. FreeBlocks \cap Owned = {}
                BY NotCorrupt DEF IInv
            <4> QED
                BY <3>4, <4>1, <4>2
        <3>9. live # <<>> => b + size'[b] = live[n]
            BY <1>1, <1>3, <3>1, <3>4, <3>7
        <3> QED
            BY <1>4, <3>7, <3>8, <3>9
    <2> QED
        BY <2>1, <2>2
<1>7. (\A k \in 2..Len(live) : End(live[k]) = live[k-1])'
    <2> SUFFICES ASSUME NEW k \in 2..n
                 PROVE  live[k] + size'[live[k]] = live[k-1]
        BY <1>2 DEF End
    <2>1. live[k] + size[live[k]] = live[k-1] /\ k \in 1..n
        BY <1>5 DEF InStackOrder, End
    <2> QED
        BY <1>6, <2>1
<1>8. (live # <<>> => Lowest(live[Len(live)]))'
    BY <1>2, <1>6 DEF Lowest, End
<1>9. (pools = {First} /\ ring \in {<<>>, <<FirstBlock>>})'
    BY <1>2, <1>6 DEF InStackOrder, First
<1> QED
    BY <1>2, <1>7, <1>8, <1>9 DEF InStackOrder

\* A step that leaves the allocator in use like a stack leaves its memory in order.
LEMMA StackStep ==
    ASSUME IInv, ~Corrupt, InStackOrder, NEW t \in Threads, Step(t), stacked'
    PROVE  InStackOrder'
<1>1. ASSUME UNCHANGED <<ring, size, pools, freeing, live>>
      PROVE  InStackOrder'
    BY <1>1 DEF InStackOrder, Lowest, End, First
<1>2. CASE \E s \in Sizes : CallAlloc(t, s)
    BY <1>1, <1>2 DEF CallAlloc
<1>3. CASE \E k \in DOMAIN live : CallDealloc(t, k)
    <2>1. PICK k \in DOMAIN live : CallDealloc(t, k)
        BY <1>3
    <2>2. k = Len(live) /\ Owned = Range(live)
        BY <2>1 DEF CallDealloc
    <2>3. Len(live) \in Nat /\ k \in 1..Len(live) /\ (live # <<>> <=> Len(live) > 0)
        BY <2>1, LiveBlocks
    <2>4. live # <<>>
        BY <2>3
    <2> QED
        BY <2>1, <2>2, <2>4, StackPop
<1>4. CASE Relock(t)
    BY <1>1, <1>4 DEF Relock
<1>5. CASE Search(t)
    <2>1. CASE HasFit(t) /\ AllocDone(t)
        <3>1. Owned = Range(live)
            BY <2>1 DEF AllocDone
        <3> QED
            BY <1>5, <2>1, <3>1, StackTake DEF Search
    <2>2. CASE Grow(t)
        BY <2>2 DEF Grow
    <2>3. CASE GrowFails(t)
        BY <1>1, <2>3 DEF GrowFails
    <2>4. CASE FollowNull(t)
        BY <1>1, <2>4 DEF FollowNull
    <2> QED
        BY <1>5, <2>1, <2>2, <2>3, <2>4 DEF Search
<1>6. CASE UnlockAgain(t)
    BY <1>1, <1>6 DEF UnlockAgain
<1>7. CASE Insert(t)
    BY <1>7, StackInsert
<1> QED
    BY <1>2, <1>3, <1>4, <1>5, <1>6, <1>7 DEF Step

----------------------------------------------------------------------------
(* The lock.                                                               *)

\* A step takes the lock when it is free and goes in, gives it up and goes out,
\* or is the second release of alloc(), which nobody needs to have waited for.
LEMMA InAndOut ==
    ASSUME TypeOK, NEW t \in Threads, Step(t)
    PROVE  \/ ~locked /\ locked' /\ Inside' = Inside \cup {t}
           \/ t \in Inside /\ Inside' = Inside \ {t}
           \/ locked' = locked /\ Inside' = Inside
           \/ UnlockAgain(t) /\ t \notin Inside /\ Inside' = Inside
<1> USE DEF Goto, Lock
<1>1. pc \in [Threads -> Pcs] /\ after \in [Threads -> {"idle", "relock"}]
    BY DEF TypeOK
<1>2. ASSUME NEW to \in {"search", "retry", "insert"}, pc' = [pc EXCEPT ![t] = to]
      PROVE  Inside' = Inside \cup {t}
    BY <1>1, <1>2 DEF Inside
<1>3. ASSUME NEW to \in Pcs \ {"search", "retry", "insert"}, pc' = [pc EXCEPT ![t] = to]
      PROVE  Inside' = Inside \ {t}
    BY <1>1, <1>3 DEF Inside
<1>4. CASE \E s \in Sizes : CallAlloc(t, s)
    BY <1>2, <1>4 DEF CallAlloc
<1>5. CASE \E k \in DOMAIN live : CallDealloc(t, k)
    BY <1>2, <1>5 DEF CallDealloc
<1>6. CASE Relock(t)
    BY <1>2, <1>6 DEF Relock
<1>7. CASE Search(t)
    <2>1. t \in Inside
        BY <1>7 DEF Search, Searching, Inside
    <2>2. CASE AllocDone(t)
        BY <1>3, <2>1, <2>2 DEF AllocDone, Pcs
    <2>3. CASE Grow(t)
        BY <1>3, <2>1, <2>3 DEF Grow, Pcs
    <2>4. CASE GrowFails(t)
        BY <1>3, <2>1, <2>4 DEF GrowFails, Pcs
    <2>5. CASE FollowNull(t)
        BY <2>5 DEF FollowNull, Inside
    <2> QED
        BY <1>7, <2>2, <2>3, <2>4, <2>5 DEF Search
<1>8. CASE UnlockAgain(t)
    <2>1. t \notin Inside
        BY <1>8 DEF UnlockAgain, Inside
    <2>2. Inside' = Inside \ {t}
        BY <1>3, <1>8 DEF UnlockAgain, Pcs
    <2> QED
        BY <1>8, <2>1, <2>2
<1>9. CASE Insert(t)
    <2>1. t \in Inside /\ after[t] \in Pcs \ {"search", "retry", "insert"}
        BY <1>1, <1>9 DEF Insert, Inside, Pcs
    <2> QED
        BY <1>3, <1>9, <2>1 DEF Insert
<1> QED
    BY <1>4, <1>5, <1>6, <1>7, <1>8, <1>9 DEF Step

\* As long as it is used as a stack, no call for pages has failed, and so no
\* thread is on its way to a second release of the lock.
LockInv == stacked => /\ Exclusive /\ Guarded
                      /\ \A t \in Threads : pc[t] # "unlock again"

LEMMA LockStep ==
    ASSUME TypeOK, LockInv, NEW t \in Threads, Step(t)
    PROVE  LockInv'
<1> SUFFICES ASSUME stacked'
             PROVE  (Exclusive /\ Guarded /\ \A u \in Threads : pc[u] # "unlock again")'
    BY DEF LockInv
<1> USE DEF Goto
<1>1. stacked
    BY DEF Step, CallAlloc, CallDealloc, Relock, Search, AllocDone, Grow, GrowFails, FollowNull, UnlockAgain, Insert
<1>2. /\ \A u, v \in Inside : u = v
      /\ Inside # {} => locked
      /\ \A u \in Threads : pc[u] # "unlock again"
    BY <1>1 DEF LockInv, Exclusive, Guarded
<1>3. ~UnlockAgain(t)
    BY <1>2 DEF UnlockAgain
<1>4. (\A u, v \in Inside' : u = v) /\ (Inside' # {} => locked')
    BY <1>2, <1>3, InAndOut
<1>5. \A u \in Threads : pc'[u] # "unlock again"
    <2>1. pc \in [Threads -> Pcs] /\ after \in [Threads -> {"idle", "relock"}]
        BY DEF TypeOK
    <2>2. pc' = pc \/ \E to \in {"idle", "search", "dealloc", "insert", "relock", "retry"} : pc' = [pc EXCEPT ![t] = to]
        BY <2>1 DEF Step, CallAlloc, CallDealloc, Relock, Search, AllocDone, Grow, GrowFails, FollowNull,
                    UnlockAgain, Insert
    <2> QED
        BY <1>2, <2>1, <2>2
<1> QED
    BY <1>4, <1>5 DEF Exclusive, Guarded

----------------------------------------------------------------------------
(* The theorems.                                                           *)

LEMMA Initially ==
    Init => IInv /\ ~Corrupt /\ Balance /\ InStackOrder
<1> SUFFICES ASSUME Init
             PROVE  IInv /\ ~Corrupt /\ Balance /\ InStackOrder
    OBVIOUS
<1>1. FirstBlock \in Addr /\ FirstBlock \in Nat /\ FirstBlockSize \in Nat /\ FirstBlockSize > 0 /\ NULL \notin Addr
    BY AllocatorAssumption, PoolSizes, AddressesFinite DEF Addr, NULL
<1>2. /\ ring = <<FirstBlock>> /\ size = [a \in Addr |-> IF a = FirstBlock THEN FirstBlockSize ELSE 0]
      /\ pools = {First} /\ expected = FirstBlockSize /\ live = <<>>
      /\ freeing = [t \in Threads |-> NULL] /\ pc = [t \in Threads |-> "idle"]
      /\ want = [t \in Threads |-> 0] /\ after = [t \in Threads |-> "idle"]
      /\ locked = FALSE /\ stacked = TRUE /\ crashed = FALSE
    BY DEF Init, First
<1>3. Distinct(ring) /\ Distinct(live) /\ FreeBlocks = {FirstBlock} /\ Range(live) = {}
    BY <1>1, <1>2, OneAlone, NoneAtAll DEF FreeBlocks
<1>4. Owned = {} /\ Blocks = {FirstBlock}
    BY <1>2, <1>3 DEF Owned, Blocks
<1>5. size \in Maps /\ size[FirstBlock] = FirstBlockSize
    BY <1>1, <1>2 DEF Maps
<1>6. TypeOK
    <2>1. ControlTypes
        BY <1>2 DEF ControlTypes, Pcs
    <2>2. MemoryTypes
        BY <1>1, <1>2, <1>3, <1>5 DEF MemoryTypes, First, Distinct
    <2> QED
        BY <2>1, <2>2, Types
<1>7. PoolsKnown /\ Calls
    BY <1>2 DEF PoolsKnown, Calls
<1>8. OneOwner
    BY <1>2, <1>3 DEF OneOwner, Distinct
<1>9. BlocksWithin
    BY <1>1, <1>2, <1>4, <1>5 DEF BlocksWithin, Within, First
<1>10. ~Corrupt
    BY <1>4, <1>6, NotCorrupt DEF Clear
<1>11. Balance
    <2>1. Units(size, Blocks) = {FirstBlock} \X (1..FirstBlockSize)
        BY <1>4, <1>5 DEF Units
    <2>2. Total(size, Blocks) = FirstBlockSize
        BY <1>1, <2>1, UnitsOfOne DEF Total
    <2> QED
        BY <1>2, <1>4, <1>6, <2>2, BalanceMeans
<1>12. InStackOrder
    <2>1. Len(live) = 0
        BY <1>2
    <2> QED
        BY <1>2, <2>1 DEF InStackOrder
<1> QED
    BY <1>6, <1>7, <1>8, <1>9, <1>10, <1>11, <1>12 DEF IInv

LEMMA Stutters ==
    ASSUME UNCHANGED vars
    PROVE  /\ (IInv <=> IInv') /\ (Corrupt <=> Corrupt') /\ (Balance <=> Balance')
           /\ (InStackOrder <=> InStackOrder') /\ stacked' = stacked
           /\ (LockInv <=> LockInv')
<1> USE DEF vars
<1>1. FreeBlocks' = FreeBlocks /\ Owned' = Owned /\ Blocks' = Blocks
    BY DEF FreeBlocks, Owned, Blocks
<1>2. (TypeOK <=> TypeOK') /\ (PoolsKnown <=> PoolsKnown') /\ (Calls <=> Calls') /\ (OneOwner <=> OneOwner')
    BY DEF TypeOK, PoolsKnown, Calls, OneOwner, First
<1>3. BlocksWithin <=> BlocksWithin'
    BY <1>1 DEF BlocksWithin, Within
<1>4. Corrupt <=> Corrupt'
    BY <1>1 DEF Corrupt, Overlap, End
<1>5. Balance <=> Balance'
    BY <1>1 DEF Balance, BytesFree, Size
<1>6. InStackOrder <=> InStackOrder'
    BY DEF InStackOrder, Lowest, End, First
<1>7. LockInv <=> LockInv'
    BY DEF LockInv, Exclusive, Guarded, Inside
<1> QED
    BY <1>2, <1>3, <1>4, <1>5, <1>6, <1>7 DEF IInv

THEOREM BlocksKnown == Spec => []IInv
<1>1. Init => IInv
    BY Initially
<1>2. IInv /\ [Next]_vars => IInv'
    <2> SUFFICES ASSUME IInv, [Next]_vars
                 PROVE  IInv'
        OBVIOUS
    <2>1. CASE Next
        BY <2>1, StepEffect DEF Next
    <2>2. CASE UNCHANGED vars
        BY <2>2, Stutters
    <2> QED
        BY <2>1, <2>2
<1> QED
    BY <1>1, <1>2, PTL DEF Spec

\* Every block, free, allocated or on its way back, lies within the pages of one
\* pool, for any threads, sizes and places of the pools, overlapping calls and
\* blocks included.
THEOREM PoolSound == Spec => []PoolIsSound
<1>1. IInv => PoolIsSound
    BY DEF IInv, BlocksWithin, Within, Blocks, PoolIsSound, BlocksStayInPools, End
<1> QED
    BY <1>1, BlocksKnown, PTL

\* While each walk is alone, every overlap of blocks comes from one that absorbs
\* the only free one, and every loss from a search that takes the head of the
\* list whole; and a walk is alone until a thread whose call for pages has failed
\* releases the lock of another.
THEOREM FaultsKnown == Spec => OnlyKnownFaults
<1>1. IInv /\ [Next]_vars =>
          [OverlapNeedsALoneBlock /\ LossNeedsAWholeHead /\ OverlapOfWalksNeedsAFailedGrow]_vars
    <2> SUFFICES ASSUME IInv, Next
                 PROVE  OverlapNeedsALoneBlock /\ LossNeedsAWholeHead /\ OverlapOfWalksNeedsAFailedGrow
        OBVIOUS
    <2>1. PICK t \in Threads : Step(t)
        BY DEF Next
    <2>2. /\ Corrupt' => KnownOverlap(t)
          /\ ~Corrupt' /\ Balance /\ ~Balance' => KnownLoss(t)
        BY <2>1, StepEffect DEF Next
    <2>3. OverlapNeedsALoneBlock
        BY <2>2 DEF OverlapNeedsALoneBlock, KnownOverlap
    <2>4. LossNeedsAWholeHead
        BY <2>2 DEF LossNeedsAWholeHead, KnownLoss, Balance
    <2>5. OverlapOfWalksNeedsAFailedGrow
        <3>1. \/ ~locked /\ locked' /\ Inside' = Inside \cup {t}
              \/ t \in Inside /\ Inside' = Inside \ {t}
              \/ locked' = locked /\ Inside' = Inside
              \/ UnlockAgain(t) /\ t \notin Inside /\ Inside' = Inside
            BY <2>1, InAndOut DEF IInv
        <3>2. \A u, v \in Inside : u = v
            BY DEF Next, Exclusive
        <3>3. (Inside # {} => locked) /\ ~(Inside' # {} => locked') => UnlockAgain(t) /\ Inside \ {t} # {}
            BY <3>1, <3>2
        <3>4. ~(\A u, v \in Inside' : u = v) => ~(Inside # {} => locked)
            BY <3>1, <3>2
        <3> QED
            BY <3>3, <3>4 DEF OverlapOfWalksNeedsAFailedGrow, Guarded, Exclusive
    <2> QED
        BY <2>3, <2>4, <2>5
<1> QED
    BY <1>1, BlocksKnown, PTL DEF Spec, OnlyKnownFaults

\* The invariant of the use as a stack: the order of the blocks is what keeps
\* either fault from happening.
StackInv == stacked => InStackOrder /\ ~Corrupt /\ Balance

\* As long as blocks are given back in the reverse order of their allocation and
\* the first pool suffices, no walks overlap, no memory is handed out twice and
\* none is forgotten.
THEOREM StackIsSafe == Spec => []StackOrderIsSafe
<1>1. Init => StackInv /\ LockInv
    <2>1. Init => LockInv
        BY DEF Init, LockInv, Exclusive, Guarded, Inside
    <2> QED
        BY <2>1, Initially DEF StackInv
<1>2. IInv /\ StackInv /\ [Next]_vars => StackInv'
    <2> SUFFICES ASSUME IInv, StackInv, [Next]_vars, stacked'
                 PROVE  (InStackOrder /\ ~Corrupt /\ Balance)'
        BY DEF StackInv
    <2>1. CASE Next
        <3>1. PICK t \in Threads : Step(t)
            BY <2>1 DEF Next
        <3>2. stacked
            BY <3>1 DEF Step, CallAlloc, CallDealloc, Relock, Search, AllocDone, Grow, GrowFails,
                        FollowNull, UnlockAgain, Insert
        <3>3. InStackOrder /\ ~Corrupt /\ Balance
            BY <3>2 DEF StackInv
        <3>4. /\ Corrupt' => KnownOverlap(t)
              /\ ~Corrupt' /\ Balance /\ ~Balance' => KnownLoss(t)
            BY <3>1, <3>3, StepEffect
        <3>5. ~KnownOverlap(t) /\ ~KnownLoss(t)
            BY <3>3, NoFaultInStackOrder
        <3>6. InStackOrder'
            BY <3>1, <3>3, StackStep
        <3> QED
            BY <3>3, <3>4, <3>5, <3>6
    <2>2. CASE UNCHANGED vars
        BY <2>2, Stutters DEF StackInv
    <2> QED
        BY <2>1, <2>2
<1>3. IInv /\ LockInv /\ [Next]_vars => LockInv'
    <2> SUFFICES ASSUME IInv, LockInv, [Next]_vars
                 PROVE  LockInv'
        OBVIOUS
    <2>1. CASE Next
        BY <2>1, LockStep DEF Next, IInv
    <2>2. CASE UNCHANGED vars
        BY <2>2, Stutters
    <2> QED
        BY <2>1, <2>2
<1>4. StackInv /\ LockInv => StackOrderIsSafe
    BY DEF StackInv, LockInv, StackOrderIsSafe, Balance
<1> QED
    BY <1>1, <1>2, <1>3, <1>4, BlocksKnown, PTL DEF Spec

=============================================================================
