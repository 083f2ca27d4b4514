---------------------------- MODULE DwarfCFAProofs ----------------------------
(***************************************************************************)
(* Proofs about the rows of call frame rules, for any registers, rules,    *)
(* pool, buckets, levels and programs: chains and free list divide the     *)
(* pool among them, the walks over the rows miss nothing, and the levels   *)
(* implement a stack of rows.                                              *)
(*                                                                         *)
(* The first part is about chains alone; the second gives the inductive    *)
(* invariant, the third its steps, the fourth the refinement.              *)
(***************************************************************************)
EXTENDS DwarfCFA, FiniteSetTheorems, WellFoundedInduction, TLAPS

OrNil == Entries \cup {Nil}
LinkMaps == [Entries -> OrNil]
ClosedIn(nx, S) == \A k \in S : nx[k] \in S \cup {Nil}
Ends(nx, i) == i = Nil \/ \E m \in Along(nx, i) : nx[m] = Nil

LEMMA NilIsNoEntry == Nil \notin Entries /\ OrNil = 0 .. Nil
BY CFAAssumption DEF Nil, Entries, OrNil

----------------------------------------------------------------------------
(* Chains.                                                                 *)

LEMMA AlongNull ==
    ASSUME NEW nx
    PROVE  Along(nx, Nil) = {} /\ Ends(nx, Nil)
<1>1. {} \in SUBSET Entries /\ Nil \in {} \cup {Nil} /\ ClosedIn(nx, {})
    BY DEF ClosedIn
<1>2. Along(nx, Nil) = {}
    BY <1>1 DEF Along
<1> QED
    BY <1>2 DEF Ends

LEMMA AlongStart ==
    ASSUME NEW nx, NEW n
    PROVE  Along(nx, n) \subseteq Entries /\ (n \in Entries => n \in Along(nx, n))
BY NilIsNoEntry DEF Along

LEMMA AlongClosed ==
    ASSUME NEW nx \in LinkMaps, NEW n
    PROVE  ClosedIn(nx, Along(nx, n))
BY DEF Along, ClosedIn, LinkMaps, OrNil

LEMMA AlongLeast ==
    ASSUME NEW nx, NEW n, NEW S \in SUBSET Entries, n \in S \cup {Nil}, ClosedIn(nx, S)
    PROVE  Along(nx, n) \subseteq S
BY DEF Along, ClosedIn

LEMMA AlongStep ==
    ASSUME NEW nx \in LinkMaps, NEW n \in Entries
    PROVE  Along(nx, n) = {n} \cup Along(nx, nx[n])
<1>1. nx[n] \in Along(nx, n) \cup {Nil} /\ n \in Along(nx, n)
    BY AlongStart, AlongClosed DEF ClosedIn
<1>2. Along(nx, nx[n]) \subseteq Along(nx, n)
    BY <1>1, AlongStart, AlongClosed, AlongLeast
<1> DEFINE S == {n} \cup Along(nx, nx[n])
<1>3. S \in SUBSET Entries
    BY AlongStart
<1>4. nx[n] \in OrNil
    BY DEF LinkMaps
<1>5. nx[n] \in Along(nx, nx[n]) \cup {Nil}
    BY <1>4, AlongStart DEF OrNil
<1>6. ClosedIn(nx, S)
    BY <1>5, AlongClosed DEF ClosedIn
<1>7. Along(nx, n) \subseteq S
    <2> HIDE DEF S
    <2>1. n \in S
        BY DEF S
    <2> QED
        BY <1>3, <1>6, <2>1, AlongLeast
<1> QED
    BY <1>1, <1>2, <1>7

LEMMA AlongTrans ==
    ASSUME NEW nx \in LinkMaps, NEW n, NEW m \in Along(nx, n) \cup {Nil}
    PROVE  Along(nx, m) \subseteq Along(nx, n)
BY AlongStart, AlongClosed, AlongLeast

\* What a chain does not meet does not change it.
LEMMA AlongSame ==
    ASSUME NEW nx \in LinkMaps, NEW ny \in LinkMaps, NEW n \in OrNil,
           \A k \in Along(nx, n) : ny[k] = nx[k]
    PROVE  Along(ny, n) = Along(nx, n) /\ (Ends(nx, n) => Ends(ny, n))
<1>1. n \in Along(nx, n) \cup {Nil} /\ n \in Along(ny, n) \cup {Nil}
    BY AlongStart DEF OrNil
<1>2. ClosedIn(ny, Along(nx, n))
    BY AlongClosed DEF ClosedIn
<1>3. Along(ny, n) \subseteq Along(nx, n)
    BY <1>1, <1>2, AlongStart, AlongLeast
<1>4. ClosedIn(nx, Along(ny, n))
    BY <1>3, AlongClosed DEF ClosedIn
<1>5. Along(nx, n) \subseteq Along(ny, n)
    BY <1>1, <1>4, AlongStart, AlongLeast
<1> QED
    BY <1>3, <1>5 DEF Ends

\* Where one entry's next changes, a chain keeps to itself and that entry's new one.
LEMMA AlongRedirected ==
    ASSUME NEW nx \in LinkMaps, NEW ny \in LinkMaps, NEW n \in OrNil, NEW b \in Entries,
           \A k \in Entries \ {b} : ny[k] = nx[k]
    PROVE  Along(ny, n) \subseteq Along(nx, n) \cup Along(ny, ny[b])
<1> DEFINE S == Along(nx, n) \cup Along(ny, ny[b])
<1>1. S \in SUBSET Entries
    BY AlongStart
<1>2. n \in S \cup {Nil}
    BY AlongStart DEF OrNil
<1>3. ny[b] \in Along(ny, ny[b]) \cup {Nil}
    BY AlongStart DEF LinkMaps, OrNil
<1>4. ClosedIn(nx, Along(nx, n)) /\ ClosedIn(ny, Along(ny, ny[b]))
    BY AlongClosed
<1>5. ClosedIn(ny, S)
    BY <1>1, <1>3, <1>4 DEF ClosedIn
<1> HIDE DEF S
<1>6. Along(ny, n) \subseteq S
    BY <1>1, <1>2, <1>5, AlongLeast
<1> QED
    BY <1>6 DEF S

LEMMA EndsStep ==
    ASSUME NEW nx \in LinkMaps, NEW n \in Entries
    PROVE  Ends(nx, n) <=> Ends(nx, nx[n])
<1>1. Along(nx, n) = {n} \cup Along(nx, nx[n])
    BY AlongStep
<1>2. n # Nil
    BY NilIsNoEntry
<1>3. nx[n] \in Entries => nx[n] # Nil
    BY NilIsNoEntry
<1> QED
    BY <1>1, <1>2, <1>3, AlongNull DEF Ends

\* A chain that ends does so from each of its entries, and comes by none twice.
LEMMA EndsEverywhere ==
    ASSUME NEW nx \in LinkMaps, NEW n \in OrNil, Ends(nx, n), NEW m \in Along(nx, n)
    PROVE  Ends(nx, m)
<1> DEFINE S == {k \in Along(nx, n) : Ends(nx, k)}
<1>1. Along(nx, n) \subseteq Entries /\ ClosedIn(nx, Along(nx, n))
    BY AlongStart, AlongClosed
<1>2. ASSUME NEW k \in Along(nx, n), Ends(nx, k)
      PROVE  nx[k] \in S \cup {Nil}
    BY <1>1, <1>2, EndsStep DEF ClosedIn
<1>3. ClosedIn(nx, S) /\ S \in SUBSET Entries
    BY <1>1, <1>2 DEF ClosedIn
<1>4. n \in Along(nx, n) \cup {Nil}
    BY AlongStart DEF OrNil
<1>5. n \in S \cup {Nil}
    BY <1>4
<1> HIDE DEF S
<1>6. m \in S
    BY <1>3, <1>5, AlongLeast
<1> QED
    BY <1>6 DEF S

LEMMA NoCycle ==
    ASSUME NEW nx \in LinkMaps, NEW n \in Entries, Ends(nx, n)
    PROVE  n \notin Along(nx, nx[n])
<1> SUFFICES ASSUME n \in Along(nx, nx[n])
             PROVE  FALSE
    OBVIOUS
<1> DEFINE S == {k \in Along(nx, n) : n \in Along(nx, k)}
<1>1. Along(nx, n) \subseteq Entries /\ ClosedIn(nx, Along(nx, n)) /\ n \in Along(nx, n)
    BY AlongStart, AlongClosed
<1>2. ASSUME NEW k \in Along(nx, n), n \in Along(nx, k)
      PROVE  nx[k] \in S
    <2>1. n \in Along(nx, nx[k])
        BY <1>1, <1>2, AlongStep
    <2>2. nx[k] # Nil
        BY <2>1, AlongNull
    <2> QED
        BY <1>1, <2>1, <2>2 DEF ClosedIn
<1>3. ClosedIn(nx, S) /\ S \in SUBSET Entries /\ n \in S
    BY <1>1, <1>2 DEF ClosedIn
<1>4. Along(nx, n) \subseteq S
    <2> HIDE DEF S
    <2> QED
        BY <1>3, AlongLeast
<1>5. \A k \in Along(nx, n) : nx[k] # Nil
    BY <1>1, <1>2, <1>4, NilIsNoEntry
<1> QED
    BY <1>5, NilIsNoEntry DEF Ends

\* A chain still ends if the one it is redirected to does.
LEMMA EndsRedirected ==
    ASSUME NEW nx \in LinkMaps, NEW ny \in LinkMaps, NEW n \in OrNil, NEW b \in Entries,
           \A k \in Entries \ {b} : ny[k] = nx[k], Ends(ny, ny[b]), Ends(nx, n)
    PROVE  Ends(ny, n)
<1> SUFFICES ASSUME ~Ends(ny, n)
             PROVE  FALSE
    OBVIOUS
<1> DEFINE S == {k \in Along(nx, n) : ~Ends(ny, k)}
<1>1. Along(nx, n) \subseteq Entries /\ ClosedIn(nx, Along(nx, n)) /\ n \in Along(nx, n) /\ n # Nil
    BY AlongStart, AlongClosed, AlongNull DEF OrNil
<1>2. ASSUME NEW k \in Along(nx, n), ~Ends(ny, k)
      PROVE  nx[k] \in S
    <2>1. ~Ends(ny, ny[k])
        BY <1>1, <1>2, EndsStep
    <2>2. ny[k] = nx[k]
        BY <1>1, <2>1
    <2>3. nx[k] # Nil
        BY <2>1, <2>2, AlongNull
    <2> QED
        BY <1>1, <2>1, <2>2, <2>3 DEF ClosedIn
<1>3. ClosedIn(nx, S) /\ S \in SUBSET Entries /\ n \in S
    BY <1>1, <1>2 DEF ClosedIn
<1>4. Along(nx, n) \subseteq S
    <2> HIDE DEF S
    <2> QED
        BY <1>3, AlongLeast
<1>5. \A k \in Along(nx, n) : nx[k] # Nil
    BY <1>1, <1>2, <1>4, NilIsNoEntry
<1> QED
    BY <1>1, <1>5 DEF Ends

\* Unlinking i behind its only predecessor b on the chain of h takes i, and
\* nothing else, from every chain of an entry there.
LEMMA Bypass ==
    ASSUME NEW nx \in LinkMaps, NEW ny \in LinkMaps, NEW h \in Entries, Ends(nx, h),
           NEW b \in Along(nx, h), NEW i \in Entries, nx[b] = i,
           \A k \in Along(nx, h) : nx[k] = i => k = b,
           \A k \in Entries : ny[k] = IF k = b THEN nx[i] ELSE nx[k],
           NEW x \in Along(nx, h), x # i
    PROVE  Along(ny, x) = Along(nx, x) \ {i}
<1>1. /\ Along(nx, h) \subseteq Entries /\ Along(nx, x) \subseteq Along(nx, h) /\ x \in Along(nx, x)
      /\ Along(ny, x) \subseteq Entries /\ x \in Along(ny, x) /\ i \in Along(nx, h)
    <2>1. Along(nx, h) \subseteq Entries /\ Along(ny, x) \subseteq Entries
        BY AlongStart
    <2>2. x \in Along(nx, x) /\ x \in Along(ny, x)
        BY <2>1, AlongStart
    <2>3. Along(nx, x) \subseteq Along(nx, h)
        BY AlongTrans
    <2>4. i \in Along(nx, h)
        BY AlongClosed, NilIsNoEntry DEF ClosedIn
    <2> QED
        BY <2>1, <2>2, <2>3, <2>4
<1>2. nx[i] # i
    <2>1. Ends(nx, i)
        BY <1>1, EndsEverywhere DEF OrNil
    <2> QED
        BY <2>1, NoCycle, AlongStart
<1>3. Along(ny, x) \subseteq Along(nx, x) \ {i}
    <2> DEFINE S == Along(nx, x) \ {i}
    <2>1. S \in SUBSET Entries /\ x \in S
        BY <1>1
    <2>2. ClosedIn(nx, Along(nx, x))
        BY AlongClosed
    <2>3. ASSUME NEW k \in S
          PROVE  ny[k] \in S \cup {Nil}
        <3>1. CASE k = b
            <4>1. i \in Along(nx, x)
                BY <2>2, <3>1, NilIsNoEntry DEF ClosedIn
            <4> QED
                BY <1>1, <1>2, <2>2, <3>1, <4>1 DEF ClosedIn
        <3>2. CASE k # b
            BY <1>1, <2>2, <3>2 DEF ClosedIn
        <3> QED
            BY <3>1, <3>2
    <2>4. ClosedIn(ny, S)
        BY <2>3 DEF ClosedIn
    <2> HIDE DEF S
    <2>5. Along(ny, x) \subseteq S
        BY <2>1, <2>4, AlongLeast
    <2> QED
        BY <2>5 DEF S
<1>4. Along(nx, x) \subseteq Along(ny, x) \cup {i}
    <2>1. ClosedIn(ny, Along(ny, x))
        BY AlongClosed
    <2>2. CASE b \in Along(ny, x)
        <3> DEFINE S == Along(ny, x) \cup {i}
        <3>1. S \in SUBSET Entries /\ x \in S
            BY <1>1
        <3>2. nx[i] \in S \cup {Nil}
            BY <1>1, <2>1, <2>2 DEF ClosedIn
        <3>3. ClosedIn(nx, S)
            BY <1>1, <2>1, <3>2 DEF ClosedIn
        <3> HIDE DEF S
        <3>4. Along(nx, x) \subseteq S
            BY <3>1, <3>3, AlongLeast
        <3> QED
            BY <3>4 DEF S
    <2>3. CASE b \notin Along(ny, x)
        <3>1. ClosedIn(nx, Along(ny, x))
            BY <1>1, <2>1, <2>3 DEF ClosedIn
        <3> QED
            BY <1>1, <3>1, AlongLeast
    <2> QED
        BY <2>2, <2>3
<1> QED
    BY <1>3, <1>4

\* A chain only grows where its last entry is given a next.
LEMMA AlongGrows ==
    ASSUME NEW nx \in LinkMaps, NEW ny \in LinkMaps, NEW n \in OrNil, NEW b \in Entries, nx[b] = Nil,
           \A k \in Entries \ {b} : ny[k] = nx[k]
    PROVE  Along(nx, n) \subseteq Along(ny, n)
<1>1. Along(ny, n) \subseteq Entries /\ ClosedIn(ny, Along(ny, n)) /\ n \in Along(ny, n) \cup {Nil}
    BY AlongStart, AlongClosed DEF OrNil
<1>2. ClosedIn(nx, Along(ny, n))
    BY <1>1 DEF ClosedIn
<1> QED
    BY <1>1, <1>2, AlongLeast

\* Of two entries of a chain one comes after the other.
LEMMA Linear ==
    ASSUME NEW nx \in LinkMaps, NEW h \in OrNil, NEW x \in Along(nx, h), NEW y \in Along(nx, h)
    PROVE  x \in Along(nx, y) \/ y \in Along(nx, x)
<1> DEFINE S == {k \in Along(nx, h) : x \in Along(nx, k) \/ k \in Along(nx, x)}
<1>1. Along(nx, h) \subseteq Entries /\ ClosedIn(nx, Along(nx, h)) /\ ClosedIn(nx, Along(nx, x))
    BY AlongStart, AlongClosed
<1>2. h \in S \cup {Nil}
    BY AlongStart DEF OrNil
<1>3. ASSUME NEW k \in S
      PROVE  nx[k] \in S \cup {Nil}
    <2>1. Along(nx, k) = {k} \cup Along(nx, nx[k])
        BY <1>1, AlongStep
    <2>2. k = x => nx[k] \in Along(nx, x) \cup {Nil}
        BY <1>1, AlongStart DEF ClosedIn
    <2> QED
        BY <1>1, <2>1, <2>2 DEF ClosedIn
<1>4. S \in SUBSET Entries /\ ClosedIn(nx, S)
    BY <1>1, <1>3 DEF ClosedIn
<1> HIDE DEF S
<1>5. Along(nx, h) \subseteq S
    BY <1>2, <1>4, AlongLeast
<1> QED
    BY <1>5 DEF S

LEMMA OnePredecessor ==
    ASSUME NEW nx \in LinkMaps, NEW h \in OrNil, Ends(nx, h),
           NEW x \in Along(nx, h), NEW y \in Along(nx, h), nx[x] = nx[y], nx[x] \in Entries
    PROVE  x = y
<1>1. ASSUME NEW u \in Along(nx, h), NEW v \in Along(nx, h), nx[u] = nx[v], u # v
      PROVE  v \notin Along(nx, u)
    <2>1. u \in Entries /\ v \in Entries
        BY AlongStart
    <2>2. Ends(nx, v)
        BY EndsEverywhere
    <2>3. v \notin Along(nx, nx[v])
        BY <2>1, <2>2, NoCycle
    <2> QED
        BY <1>1, <2>1, <2>3, AlongStep
<1> QED
    BY <1>1, Linear

----------------------------------------------------------------------------
(* What is done to chains.                                                 *)

\* The first entry is taken.
LEMMA Popped ==
    ASSUME NEW nx \in LinkMaps, NEW e \in Entries, Ends(nx, e)
    PROVE  Along(nx, nx[e]) = Along(nx, e) \ {e} /\ Ends(nx, nx[e])
BY AlongStep, NoCycle, EndsStep

\* An entry becomes the first one.
LEMMA Pushed ==
    ASSUME NEW nx \in LinkMaps, NEW f \in OrNil, Ends(nx, f),
           NEW e \in Entries, e \notin Along(nx, f),
           NEW ny \in LinkMaps, ny[e] = f, \A k \in Entries \ {e} : ny[k] = nx[k]
    PROVE  Along(ny, e) = {e} \cup Along(nx, f) /\ Ends(ny, e)
<1>1. Along(ny, f) = Along(nx, f) /\ Ends(ny, f)
    BY AlongSame, AlongStart
<1> QED
    BY <1>1, AlongStep, EndsStep

\* An entry within a chain is taken out of it.
LEMMA TakenOut ==
    ASSUME NEW nx \in LinkMaps, NEW h \in OrNil, Ends(nx, h),
           NEW b \in Along(nx, h), nx[b] \in Entries,
           NEW ny \in LinkMaps, ny[b] = nx[nx[b]], \A k \in Entries \ {b} : ny[k] = nx[k]
    PROVE  Along(ny, h) = Along(nx, h) \ {nx[b]} /\ Ends(ny, h)
<1> DEFINE i == nx[b]
<1>1. b \in Entries /\ h \in Entries /\ h \in Along(nx, h)
    BY AlongStart, AlongNull DEF OrNil
<1>2. Ends(nx, b) /\ b \notin Along(nx, i)
    BY <1>1, EndsEverywhere, NoCycle
<1>3. i # h
    BY <1>2
<1>4. \A k \in Along(nx, h) : nx[k] = i => k = b
    BY OnePredecessor
<1>5. Along(ny, h) = Along(nx, h) \ {i}
    <2>1. \A k \in Entries : ny[k] = IF k = b THEN nx[i] ELSE nx[k]
        OBVIOUS
    <2> HIDE DEF i
    <2>2. i \in Entries /\ nx[b] = i
        BY DEF i
    <2> QED
        BY <1>1, <1>3, <1>4, <2>1, <2>2, Bypass
<1>6. Ends(nx, i) /\ Ends(nx, nx[i]) /\ b \notin Along(nx, nx[i]) /\ nx[i] \in OrNil
    BY <1>1, <1>2, EndsStep, AlongStep DEF LinkMaps
<1>7. Ends(ny, nx[i])
    BY <1>6, AlongSame, AlongStart
<1>8. Ends(ny, h)
    BY <1>1, <1>7, EndsRedirected
<1> QED
    BY <1>5, <1>8

\* A new entry becomes the last one.
LEMMA Appended ==
    ASSUME NEW nx \in LinkMaps, NEW h \in OrNil, Ends(nx, h),
           NEW b \in Along(nx, h), nx[b] = Nil, NEW e \in Entries, e \notin Along(nx, h),
           NEW ny \in LinkMaps, ny[b] = e, ny[e] = Nil, \A k \in Entries \ {b, e} : ny[k] = nx[k]
    PROVE  Along(ny, h) = Along(nx, h) \cup {e} /\ Ends(ny, h)
<1> DEFINE nz == [nx EXCEPT ![e] = Nil]
<1>1. nz \in LinkMaps /\ nz[e] = Nil /\ \A k \in Entries \ {e} : nz[k] = nx[k]
    BY DEF LinkMaps, OrNil
<1>2. b \in Entries /\ b # e /\ \A k \in Entries \ {b} : ny[k] = nz[k]
    BY <1>1, AlongStart
<1> HIDE DEF nz
<1>3. Along(nz, h) = Along(nx, h) /\ Ends(nz, h)
    BY <1>1, AlongSame, AlongStart
<1>4. Along(ny, e) = {e} /\ Ends(ny, e)
    BY AlongStep, AlongNull, EndsStep
<1>5. Along(ny, h) \subseteq Along(nz, h) \cup {e}
    BY <1>1, <1>2, <1>4, AlongRedirected
<1>6. Along(nz, h) \subseteq Along(ny, h)
    <2>1. nz[b] = Nil
        BY <1>1, <1>2
    <2> QED
        BY <1>1, <1>2, <2>1, AlongGrows
<1>7. e \in Along(ny, h)
    BY <1>3, <1>6, AlongClosed, NilIsNoEntry DEF ClosedIn
<1>8. Ends(ny, h)
    BY <1>1, <1>2, <1>3, <1>4, EndsRedirected
<1> QED
    BY <1>3, <1>5, <1>6, <1>7, <1>8

----------------------------------------------------------------------------
(* The inductive invariant.                                                *)

BucketNos == 0 .. Buckets - 1

\* Chains and free list end, and no entry is in two of them.
Shape ==
    /\ Ends(next, free)
    /\ \A l \in 0 .. depth, b \in BucketNos :
        /\ Ends(next, table[l][b])
        /\ From(free) \cap From(table[l][b]) = {}
        /\ \A m \in 0 .. depth, c \in BucketNos :
              From(table[l][b]) \cap From(table[m][c]) # {} => l = m /\ b = c

\* A chain has at most one rule for a register, and only registers of its bucket.
Content ==
    \A l \in 0 .. depth, b \in BucketNos : \A i \in From(table[l][b]) :
        /\ regnum[i] \in Registers /\ rule[i] \in Rules /\ Bucket(regnum[i]) = b
        /\ \A j \in From(table[l][b]) : regnum[i] = regnum[j] => i = j

\* remove_register stands behind prev, in the chain or in the free list; an entry of the
\* register that is still in the chain lies ahead.
Removal ==
    phase = "remove" =>
        LET chain == table[depth][Bucket(remove.reg)] IN
        /\ remove.reg \in Registers \cup {0}
        /\ remove.prev = Nil => remove.entry = chain
        /\ remove.prev # Nil => /\ remove.prev \in From(chain) \cup From(free)
                                /\ next[remove.prev] = remove.entry
        /\ \A i \in From(chain) : regnum[i] = remove.reg => i \in From(remove.entry)

\* What the iterator has still to visit.
Ahead(it) ==
    LET from == IF it.entry = Nil THEN it.bucket ELSE it.bucket + 1
    IN  From(IF it.entry = Nil THEN Nil ELSE next[it.entry])
            \cup UNION {From(table[depth][b]) : b \in from .. Buckets - 1}

Placed(it) ==
    \/ it = Start
    \/ it.bucket \in BucketNos /\ it.entry \in From(table[depth][it.bucket])

\* The rules that the iterator has visited are in initial_state, and nothing else is.
Saving ==
    phase = "save" =>
        /\ Placed(iter)
        /\ initial = [r \in DOMAIN initial |-> initial[r]]
        /\ \A r \in DOMAIN initial : \E i \in Chained(depth) : regnum[i] = r /\ rule[i] = initial[r]
        /\ \A i \in Chained(depth) \ Ahead(iter) : regnum[i] \in DOMAIN initial

\* The registers of those that it has visited are in the frame.
Applying ==
    phase = "apply" =>
        /\ Placed(iter)
        /\ \A i \in Chained(depth) \ Ahead(iter) : regnum[i] \in Mapped => regnum[i] \in frame

Success == result = "success" => phase = "done" /\ FrameIsComplete

IInv == TypeOK /\ Shape /\ Content /\ Removal /\ Saving /\ Applying /\ Success

----------------------------------------------------------------------------
(* The invariant at the start, and what a change of one chain keeps.       *)

LEMMA Basics ==
    ASSUME TypeOK
    PROVE  /\ next \in LinkMaps /\ free \in OrNil /\ depth \in Levels
           /\ 0 .. depth \subseteq Levels /\ depth \in 0 .. depth
           /\ \A l \in Levels, b \in BucketNos : table[l][b] \in OrNil
<1>1. next \in LinkMaps /\ free \in OrNil /\ depth \in Levels /\ table \in [Levels -> [BucketNos -> OrNil]]
    BY NilIsNoEntry DEF TypeOK, LinkMaps, BucketNos
<1>2. 0 .. depth \subseteq Levels /\ depth \in 0 .. depth
    BY <1>1, CFAAssumption DEF Levels
<1> QED
    BY <1>1, <1>2

LEMMA BucketType ==
    ASSUME NEW r \in Registers \cup {0}
    PROVE  Bucket(r) \in BucketNos
<1>1. Buckets \in Nat /\ Buckets > 0
    BY CFAAssumption
<1>2. r \in Nat
    BY CFAAssumption
<1> QED
    BY <1>1, <1>2 DEF Bucket, BucketNos

LEMMA LeastElement ==
    ASSUME NEW S \in SUBSET Nat, S # {}
    PROVE  \E n \in S : \A m \in S : n <= m
<1> DEFINE Less == StrictSubsetOrdering(Nat)
           T == {0..n : n \in S}
<1>1. IsWellFoundedOn(Less, FiniteSubsetsOf(Nat))
    BY FS_StrictSubsetOrderingWellFounded
<1>2. T \subseteq FiniteSubsetsOf(Nat)
    <2>1. \A n \in S : 0..n \in SUBSET Nat /\ IsFiniteSet(0..n)
        BY FS_Interval
    <2> QED
        BY <2>1 DEF FiniteSubsetsOf
<1>3. T # {}
    OBVIOUS
<1>4. PICK X \in T : \A Y \in T : <<Y, X>> \notin Less
    <2> HIDE DEF Less, T
    <2> QED BY <1>1, <1>2, <1>3, WFMin
<1>5. PICK n \in S : X = 0..n
    OBVIOUS
<1>6. ASSUME NEW m \in S, m < n
      PROVE  FALSE
    <2>1. 0..m \subseteq 0..n /\ 0..m # 0..n
        <3>1. n \in 0..n /\ n \notin 0..m
            BY <1>6
        <3> QED
            BY <1>6, <3>1
    <2>2. 0..m \in SUBSET Nat /\ 0..n \in SUBSET Nat
        OBVIOUS
    <2>3. <<0..m, 0..n>> \in Less
        BY <2>1, <2>2 DEF StrictSubsetOrdering
    <2> QED
        BY <1>4, <1>5, <2>3
<1> QED
    BY <1>6

LEMMA MinFact ==
    ASSUME NEW S \in SUBSET Nat, S # {}
    PROVE  Min(S) \in S /\ \A m \in S : Min(S) <= m
<1>1. \E n \in S : \A m \in S : n <= m
    BY LeastElement
<1> QED
    BY <1>1 DEF Min

\* The constructor's free list comes to its end.
LEMMA FirstFreeList ==
    ASSUME NEW nx \in LinkMaps, \A i \in Entries : nx[i] = i + 1
    PROVE  Ends(nx, 0)
<1> DEFINE last == MaxRegisters - 1
           S == Along(nx, 0)
           X == Entries \ S
<1>1. 0 \in Entries /\ last \in Entries /\ Entries \subseteq Nat /\ nx[last] = Nil
    BY CFAAssumption DEF Entries, Nil
<1>2. 0 \in S /\ S \subseteq Entries /\ ClosedIn(nx, S)
    BY <1>1, AlongStart, AlongClosed
<1>3. ASSUME X # {}
      PROVE  FALSE
    <2>1. PICK n \in X : \A m \in X : n <= m
        <3> HIDE DEF X
        <3>1. X \in SUBSET Nat
            BY <1>1 DEF X
        <3> QED
            BY <1>3, <3>1, LeastElement
    <2>2. n \in Entries /\ n \notin S /\ n # 0
        BY <1>2
    <2>3. n - 1 \in Entries /\ nx[n - 1] = n
        BY <2>2, CFAAssumption DEF Entries
    <2>4. n - 1 \in S
        BY <2>1, <2>2, <2>3, <1>1
    <2> QED
        BY <1>2, <2>2, <2>3, <2>4, NilIsNoEntry DEF ClosedIn
<1> HIDE DEF S
<1> QED
    BY <1>1, <1>3 DEF Ends, S

LEMMA InvInit == Init => IInv
<1> SUFFICES ASSUME Init
             PROVE  IInv
    OBVIOUS
<1>1. TypeOK
    <2>1. next \in [Entries -> 0 .. Nil] /\ free \in 0 .. Nil
        BY CFAAssumption DEF Init, Entries, Nil
    <2>2. table \in [Levels -> [0 .. Buckets - 1 -> 0 .. Nil]] /\ depth \in Levels
        BY CFAAssumption DEF Init, Levels, Nil
    <2>3. iter \in [bucket : 0 .. Buckets, entry : 0 .. Nil]
        BY CFAAssumption DEF Init, Start, Nil
    <2>4. remove \in [reg : Registers \cup {0, NULL}, prev : 0 .. Nil, entry : 0 .. Nil]
        BY CFAAssumption DEF Init, Nil
    <2>5. DOMAIN initial \subseteq Registers /\ \A r \in DOMAIN initial : initial[r] \in Rules
        BY DEF Init
    <2>6. left \in 0 .. MaxOpcodes
        BY CFAAssumption DEF Init
    <2>7. count \in [Levels -> 0 .. 255] /\ address \in [Levels -> AddressRules]
        BY DEF Init, AddressRules
    <2> QED
        BY <2>1, <2>2, <2>3, <2>4, <2>5, <2>6, <2>7 DEF Init, TypeOK
<1>2. depth = 0 /\ \A l \in 0 .. depth, b \in BucketNos : table[l][b] = Nil
    BY <1>1, Basics DEF Init, BucketNos
<1>3. \A l \in 0 .. depth, b \in BucketNos : From(table[l][b]) = {} /\ Ends(next, table[l][b])
    BY <1>2, AlongNull DEF From
<1>4. Ends(next, free)
    BY <1>1, Basics, FirstFreeList DEF Init
<1>5. Shape /\ Content
    BY <1>3, <1>4 DEF Shape, Content
<1>6. Chained(depth) = {}
    BY <1>1, <1>3, Basics DEF Chained, BucketNos
<1>7. initial = [r \in DOMAIN initial |-> initial[r]] /\ DOMAIN initial = {}
    BY DEF Init
<1>8. Removal /\ Saving /\ Applying
    BY <1>6, <1>7 DEF Init, Removal, Saving, Applying, Placed
<1>9. Success
    BY CFAAssumption DEF Init, Success
<1> QED
    BY <1>1, <1>5, <1>8, <1>9 DEF IInv

\* A step that works on the chain of one bucket and on the free list.
WorksOn(b0) ==
    /\ depth' = depth
    /\ \A l \in 0 .. depth, b \in BucketNos : l # depth \/ b # b0 => table'[l][b] = table[l][b]
    /\ \A k \in Entries \ (From(table[depth][b0]) \cup From(free)) : next'[k] = next[k]

LEMMA KeptChains ==
    ASSUME TypeOK, Shape, TypeOK', NEW b0 \in BucketNos, WorksOn(b0),
           NEW l \in 0 .. depth, NEW b \in BucketNos, l # depth \/ b # b0
    PROVE  Along(next', table'[l][b]) = From(table[l][b]) /\ Ends(next', table'[l][b])
<1>1. next \in LinkMaps /\ next' \in LinkMaps /\ table[l][b] \in OrNil /\ depth \in 0 .. depth
    <2>1. next' \in LinkMaps
        BY NilIsNoEntry DEF TypeOK, LinkMaps
    <2> QED
        BY <2>1, Basics
<1>2. From(table[l][b]) \cap (From(table[depth][b0]) \cup From(free)) = {} /\ Ends(next, table[l][b])
    BY <1>1 DEF Shape
<1>3. \A k \in Along(next, table[l][b]) : next'[k] = next[k]
    BY <1>1, <1>2, AlongStart DEF WorksOn, From
<1>4. table'[l][b] = table[l][b]
    BY DEF WorksOn
<1> QED
    BY <1>1, <1>2, <1>3, <1>4, AlongSame DEF From

LEMMA NewShape ==
    ASSUME TypeOK, Shape, TypeOK', NEW b0 \in BucketNos, WorksOn(b0),
           Ends(next', free'), Ends(next', table'[depth][b0]),
           Along(next', free') \cap Along(next', table'[depth][b0]) = {},
           Along(next', free') \cup Along(next', table'[depth][b0])
              \subseteq From(free) \cup From(table[depth][b0])
    PROVE  Shape'
<1> DEFINE C(l, b) == Along(next', table'[l][b])
<1>1. depth \in 0 .. depth /\ depth' = depth
    BY Basics DEF WorksOn
<1>2. ASSUME NEW l \in 0 .. depth, NEW b \in BucketNos
      PROVE  /\ Ends(next', table'[l][b]) /\ Along(next', free') \cap C(l, b) = {}
             /\ l # depth \/ b # b0 => C(l, b) = From(table[l][b])
    <2>1. CASE l = depth /\ b = b0
        BY <2>1
    <2>2. CASE l # depth \/ b # b0
        <3>1. C(l, b) = From(table[l][b]) /\ Ends(next', table'[l][b])
            BY <2>2, KeptChains
        <3>2. From(table[l][b]) \cap (From(free) \cup From(table[depth][b0])) = {}
            BY <1>1, <2>2 DEF Shape
        <3> QED
            BY <3>1, <3>2
    <2> QED
        BY <2>1, <2>2
<1>3. ASSUME NEW l \in 0 .. depth, NEW b \in BucketNos, NEW m \in 0 .. depth, NEW c \in BucketNos,
             C(l, b) \cap C(m, c) # {}
      PROVE  l = m /\ b = c
    <2>1. \A n \in 0 .. depth, d \in BucketNos : n # depth \/ d # b0 =>
            From(table[n][d]) \cap (From(free) \cup From(table[depth][b0])) = {}
        BY <1>1 DEF Shape
    <2>2. CASE (l # depth \/ b # b0) /\ (m # depth \/ c # b0)
        BY <1>2, <1>3, <2>2 DEF Shape
    <2>3. CASE l = depth /\ b = b0
        BY <1>2, <1>3, <2>1, <2>3
    <2>4. CASE m = depth /\ c = b0
        BY <1>2, <1>3, <2>1, <2>4
    <2> QED
        BY <2>2, <2>3, <2>4
<1> HIDE DEF C
<1>4. /\ Ends(next', free')
      /\ \A l \in 0 .. depth, b \in BucketNos :
            /\ Ends(next', table'[l][b]) /\ Along(next', free') \cap C(l, b) = {}
            /\ \A m \in 0 .. depth, c \in BucketNos : C(l, b) \cap C(m, c) # {} => l = m /\ b = c
    BY <1>2, <1>3
<1> QED
    BY <1>1, <1>4, ZenonT(40) DEF Shape, From, C

LEMMA NewContent ==
    ASSUME TypeOK, Shape, Content, TypeOK', NEW b0 \in BucketNos, WorksOn(b0),
           \A l \in 0 .. depth, b \in BucketNos : l # depth \/ b # b0 =>
              \A i \in From(table[l][b]) : regnum'[i] = regnum[i] /\ rule'[i] = rule[i],
           \A i \in Along(next', table'[depth][b0]) :
              /\ regnum'[i] \in Registers /\ rule'[i] \in Rules /\ Bucket(regnum'[i]) = b0
              /\ \A j \in Along(next', table'[depth][b0]) : regnum'[i] = regnum'[j] => i = j
    PROVE  Content'
<1> DEFINE C(l, b) == Along(next', table'[l][b])
<1>1. ASSUME NEW l \in 0 .. depth, NEW b \in BucketNos, NEW i \in C(l, b)
      PROVE  /\ regnum'[i] \in Registers /\ rule'[i] \in Rules /\ Bucket(regnum'[i]) = b
             /\ \A j \in C(l, b) : regnum'[i] = regnum'[j] => i = j
    <2>1. CASE l = depth /\ b = b0
        BY <1>1, <2>1
    <2>2. CASE l # depth \/ b # b0
        <3>1. C(l, b) = From(table[l][b])
            BY <2>2, KeptChains
        <3> QED
            BY <1>1, <2>2, <3>1 DEF Content
    <2> QED
        BY <2>1, <2>2
<1>2. depth' = depth
    BY DEF WorksOn
<1> HIDE DEF C
<1>3. \A l \in 0 .. depth, b \in BucketNos : \A i \in C(l, b) :
        /\ regnum'[i] \in Registers /\ rule'[i] \in Rules /\ Bucket(regnum'[i]) = b
        /\ \A j \in C(l, b) : regnum'[i] = regnum'[j] => i = j
    BY <1>1
<1> QED
    BY <1>2, <1>3 DEF Content, From, Bucket, C

----------------------------------------------------------------------------
(* The iterator and the steps of the evaluation: types.                    *)

Iterators == [bucket : 0 .. Buckets, entry : 0 .. Nil]

\* Where the entries of the buckets from b on are.
Beyond(b) == UNION {From(table[depth][c]) : c \in b .. Buckets - 1}

LEMMA AheadIs ==
    ASSUME NEW it
    PROVE  Ahead(it) = IF it.entry = Nil THEN Beyond(it.bucket)
                                         ELSE From(next[it.entry]) \cup Beyond(it.bucket + 1)
BY AlongNull DEF Ahead, Beyond, From

\* What iterator.next returns is the first of what was ahead; it returns nothing only when
\* nothing is.
LEMMA AdvanceFacts ==
    ASSUME TypeOK, NEW it \in Iterators, Placed(it)
    PROVE  LET to == Advanced(it) IN
           /\ to \in Iterators
           /\ to.entry = Nil => Ahead(it) = {}
           /\ to.entry # Nil => /\ to.bucket \in BucketNos
                                /\ to.entry \in From(table[depth][to.bucket])
                                /\ Ahead(it) = {to.entry} \cup Ahead(to)
<1> DEFINE to == Advanced(it)
           after == IF it.entry = Nil THEN Nil ELSE next[it.entry]
           from == IF it.entry # Nil /\ after = Nil THEN it.bucket + 1 ELSE it.bucket
           used == {b \in from .. Buckets - 1 : table[depth][b] # Nil}
<1>1. /\ next \in LinkMaps /\ Buckets \in Nat /\ Buckets > 0 /\ it.bucket \in 0 .. Buckets
      /\ it.entry \in OrNil /\ \A b \in BucketNos : table[depth][b] \in OrNil
    <2>1. Buckets \in Nat /\ Buckets > 0
        BY CFAAssumption
    <2> QED
        BY <2>1, Basics, NilIsNoEntry DEF Iterators
<1>2. it.entry # Nil => it.bucket \in BucketNos /\ it.entry \in From(table[depth][it.bucket])
                        /\ it.entry \in Entries
    BY AlongStart DEF Placed, Start, From
<1>3. CASE after # Nil
    <2>1. to = [bucket |-> it.bucket, entry |-> after]
        BY <1>3 DEF Advanced
    <2>2. it.entry # Nil /\ after = next[it.entry] /\ after \in Entries
        BY <1>1, <1>2, <1>3 DEF LinkMaps, OrNil
    <2>3. after \in From(table[depth][it.bucket])
        BY <1>1, <1>2, <1>3, <2>2, AlongClosed DEF ClosedIn, From
    <2>4. From(after) = {after} \cup From(next[after])
        BY <1>1, <2>2, AlongStep DEF From
    <2>5. Ahead(it) = From(after) \cup Beyond(it.bucket + 1)
        BY <2>2, AheadIs
    <2>6. Ahead(to) = From(next[after]) \cup Beyond(it.bucket + 1)
        BY <1>3, <2>1, AheadIs
    <2>7. to \in Iterators
        BY <1>1, <2>1, <2>2, NilIsNoEntry DEF Iterators, OrNil
    <2> QED
        BY <1>2, <1>3, <2>1, <2>2, <2>3, <2>4, <2>5, <2>6, <2>7
<1>4. CASE after = Nil /\ used = {}
    <2>1. to = [bucket |-> Buckets, entry |-> Nil]
        BY <1>4 DEF Advanced
    <2>2. Ahead(it) = Beyond(from)
        BY <1>4, AheadIs, AlongNull DEF From
    <2>3. \A c \in from .. Buckets - 1 : From(table[depth][c]) = {}
        BY <1>4, AlongNull DEF From
    <2>4. Ahead(it) = {}
        BY <2>2, <2>3 DEF Beyond
    <2>5. to \in Iterators
        BY <1>1, <2>1, NilIsNoEntry DEF Iterators, OrNil
    <2> QED
        BY <2>1, <2>4, <2>5
<1>5. CASE after = Nil /\ used # {}
    <2> DEFINE m == Min(used)
               e == table[depth][m]
    <2>1. to = [bucket |-> m, entry |-> e]
        BY <1>5 DEF Advanced
    <2>2. from \in Nat /\ from .. Buckets - 1 \subseteq BucketNos
        BY <1>1, <1>2 DEF BucketNos
    <2>3. m \in used /\ \A c \in used : m <= c
        <3>1. used \in SUBSET Nat
            BY <2>2 DEF BucketNos
        <3> HIDE DEF used
        <3> QED
            BY <1>5, <3>1, MinFact
    <2>4. m \in BucketNos /\ m \in from .. Buckets - 1 /\ e # Nil /\ e \in Entries
        BY <1>1, <2>2, <2>3 DEF OrNil
    <2>5. Ahead(it) = Beyond(from)
        BY <1>5, AheadIs, AlongNull DEF From
    <2>6. From(e) = {e} \cup From(next[e])
        BY <1>1, <2>4, AlongStep DEF From
    <2>7. Ahead(to) = From(next[e]) \cup Beyond(m + 1)
        <3> HIDE DEF m, e
        <3>1. Ahead([bucket |-> m, entry |-> e]) = From(next[e]) \cup Beyond(m + 1)
            BY <2>4, AheadIs
        <3> QED
            BY <2>1, <3>1
    <2>8. Beyond(from) = From(e) \cup Beyond(m + 1)
        <3>1. \A c \in from .. Buckets - 1 : c = m \/ c \in m + 1 .. Buckets - 1 \/ From(table[depth][c]) = {}
            <4>1. ASSUME NEW c \in from .. Buckets - 1, c # m, c \notin m + 1 .. Buckets - 1
                  PROVE  From(table[depth][c]) = {}
                <5>1. c < m
                    BY <1>1, <2>2, <2>4, <4>1
                <5>2. c \notin used
                    <6> HIDE DEF used, m
                    <6> QED
                        BY <2>2, <2>3, <2>4, <5>1 DEF BucketNos
                <5>3. table[depth][c] = Nil
                    BY <5>2
                <5> QED
                    BY <5>3, AlongNull DEF From
            <4> QED
                BY <4>1
        <3>2. m + 1 .. Buckets - 1 \subseteq from .. Buckets - 1
            <4> HIDE DEF m, from
            <4> QED
                BY <1>1, <2>2, <2>4
        <3> HIDE DEF m
        <3>3. From(e) = From(table[depth][m])
            OBVIOUS
        <3> HIDE DEF e
        <3> QED
            BY <2>4, <3>1, <3>2, <3>3 DEF Beyond
    <2>9. to \in Iterators
        BY <1>1, <2>1, <2>4, NilIsNoEntry DEF Iterators, OrNil, BucketNos
    <2>10. e \in From(table[depth][m])
        BY <2>6
    <2> HIDE DEF m, e
    <2> QED
        BY <2>1, <2>4, <2>5, <2>6, <2>7, <2>8, <2>9, <2>10
<1> QED
    BY <1>3, <1>4, <1>5

----------------------------------------------------------------------------
(* What set_register and remove_register do to chains and free list.       *)

\* A new entry goes from the head of the free list to the end of its chain.
LEMMA AllocateFacts ==
    ASSUME TypeOK, Shape, NEW r \in Registers, NEW v \in Rules, Allocate(r, v), depth' = depth
    PROVE  LET b0 == Bucket(r) IN
           /\ b0 \in BucketNos /\ WorksOn(b0)
           /\ free \in Entries /\ free \in From(free) /\ free \notin From(table[depth][b0])
           /\ next' \in LinkMaps /\ free' \in OrNil /\ table' \in [Levels -> [BucketNos -> OrNil]]
           /\ Along(next', free') = From(free) \ {free} /\ Ends(next', free')
           /\ Along(next', table'[depth][b0]) = From(table[depth][b0]) \cup {free}
           /\ Ends(next', table'[depth][b0])
<1> DEFINE b0 == Bucket(r)
           h == table[depth][b0]
           f == next[free]
<1>1. /\ next \in LinkMaps /\ free \in Entries /\ depth \in Levels /\ depth \in 0 .. depth
      /\ b0 \in BucketNos /\ h \in OrNil /\ f \in OrNil /\ free # Nil
      /\ table \in [Levels -> [BucketNos -> OrNil]]
    <2>1. b0 \in BucketNos
        BY BucketType
    <2>2. free \in Entries
        BY Basics DEF Allocate, OrNil
    <2>3. table \in [Levels -> [BucketNos -> OrNil]]
        BY NilIsNoEntry DEF TypeOK, BucketNos
    <2> QED
        BY <2>1, <2>2, <2>3, Basics, NilIsNoEntry DEF LinkMaps
<1>2. Ends(next, free) /\ Ends(next, h) /\ From(free) \cap From(h) = {} /\ free \in From(free)
    BY <1>1, AlongStart DEF Shape, From
<1>3. Along(next, f) = From(free) \ {free} /\ Ends(next, f)
    BY <1>1, <1>2, Popped DEF From
<1>4. free' = f
    BY DEF Allocate
<1>5. CASE ChainEnd(r) = {}
    <2>1. h = Nil
        BY <1>2, <1>5 DEF ChainEnd, Ends, From
    <2>2. table' = [table EXCEPT ![depth][b0] = free] /\ next' = [next EXCEPT ![free] = Nil]
        BY <1>5 DEF Allocate, Link
    <2> HIDE DEF b0
    <2>3. /\ next' \in LinkMaps /\ next'[free] = Nil /\ \A k \in Entries \ {free} : next'[k] = next[k]
          /\ table' \in [Levels -> [BucketNos -> OrNil]] /\ table'[depth][b0] = free
          /\ \A l \in Levels, b \in BucketNos : l # depth \/ b # b0 => table'[l][b] = table[l][b]
        BY <1>1, <2>2 DEF LinkMaps, OrNil
    <2>4. WorksOn(b0)
        <3>1. 0 .. depth \subseteq Levels
            BY Basics
        <3> QED
            BY <1>2, <2>3, <3>1 DEF WorksOn
    <2>5. Along(next', f) = Along(next, f) /\ Ends(next', f)
        BY <1>1, <1>3, <2>3, AlongSame, AlongStart
    <2>6. Along(next', free) = {free} /\ Ends(next', free) /\ From(h) = {}
        BY <1>1, <2>1, <2>3, AlongStep, AlongNull, EndsStep DEF From
    <2> QED
        BY <1>1, <1>2, <1>3, <1>4, <2>3, <2>4, <2>5, <2>6 DEF b0
<1>6. CASE ChainEnd(r) # {}
    <2> DEFINE z == CHOOSE i \in ChainEnd(r) : TRUE
    <2>1. z \in ChainEnd(r)
        BY <1>6
    <2>2. UNCHANGED table /\ next' = [next EXCEPT ![free] = Nil, ![z] = free]
        BY <1>6 DEF Allocate, Link
    <2> HIDE DEF z
    <2>3. z \in From(h) /\ next[z] = Nil /\ z \in Entries /\ z # free
        BY <1>1, <1>2, <2>1, AlongStart DEF ChainEnd, From
    <2> HIDE DEF b0
    <2>4. /\ next' \in LinkMaps /\ next'[free] = Nil /\ next'[z] = free
          /\ \A k \in Entries \ {z, free} : next'[k] = next[k]
        BY <1>1, <2>2, <2>3 DEF LinkMaps, OrNil
    <2>5. WorksOn(b0)
        BY <1>2, <2>2, <2>3, <2>4 DEF WorksOn
    <2>6. Along(next', f) = Along(next, f) /\ Ends(next', f)
        <3>1. \A k \in Along(next, f) : next'[k] = next[k]
            BY <1>2, <1>3, <2>3, <2>4, AlongStart
        <3> QED
            BY <1>1, <1>3, <2>4, <3>1, AlongSame
    <2>7. Along(next', h) = From(h) \cup {free} /\ Ends(next', h)
        <3>1. free \notin Along(next, h) /\ z \in Along(next, h)
            BY <1>2, <2>3 DEF From
        <3> QED
            BY <1>1, <1>2, <2>3, <2>4, <3>1, Appended DEF From
    <2> QED
        BY <1>1, <1>2, <1>3, <1>4, <2>2, <2>4, <2>5, <2>6, <2>7 DEF b0
<1> QED
    BY <1>5, <1>6

\* An entry that remove_register takes goes to the head of the free list: from its chain, or from
\* further down the free list.
LEMMA RemoveFacts ==
    ASSUME TypeOK, Shape, Removal, RemoveStep, remove.entry # Nil, regnum[remove.entry] = remove.reg
    PROVE  LET b0 == Bucket(remove.reg)
               e == remove.entry
           IN
           /\ b0 \in BucketNos /\ WorksOn(b0) /\ e \in Entries
           /\ next' \in LinkMaps /\ free' = e /\ table' \in [Levels -> [BucketNos -> OrNil]]
           /\ next'[e] = free
           /\ Ends(next', free') /\ Ends(next', table'[depth][b0])
           /\ \/ /\ e \in From(table[depth][b0])
                 /\ Along(next', free') = From(free) \cup {e}
                 /\ Along(next', table'[depth][b0]) = From(table[depth][b0]) \ {e}
              \/ /\ e \in From(free)
                 /\ Along(next', free') = From(free)
                 /\ Along(next', table'[depth][b0]) = From(table[depth][b0])
<1> DEFINE e == remove.entry
           p == remove.prev
           b0 == Bucket(remove.reg)
           h == table[depth][b0]
<1>1. /\ next \in LinkMaps /\ free \in OrNil /\ depth \in Levels /\ depth \in 0 .. depth
      /\ b0 \in BucketNos /\ h \in OrNil /\ e \in Entries
      /\ table \in [Levels -> [BucketNos -> OrNil]] /\ 0 .. depth \subseteq Levels
    <2>1. b0 \in BucketNos
        BY BucketType DEF RemoveStep, Removal
    <2>2. e \in Entries
        BY NilIsNoEntry DEF TypeOK, OrNil
    <2>3. table \in [Levels -> [BucketNos -> OrNil]]
        BY NilIsNoEntry DEF TypeOK, BucketNos
    <2> QED
        BY <2>1, <2>2, <2>3, Basics
<1>2. Ends(next, free) /\ Ends(next, h) /\ From(free) \cap From(h) = {}
    BY <1>1 DEF Shape
<1>3. /\ free' = e /\ depth' = depth
      /\ p = Nil => e = h
      /\ p # Nil => p \in From(h) \cup From(free) /\ next[p] = e
    BY DEF RemoveStep, Removal
<1>4. CASE p = Nil
    <2>1. table' = [table EXCEPT ![depth][b0] = next[e]] /\ next' = [next EXCEPT ![e] = free]
        BY <1>4 DEF RemoveStep
    <2> HIDE DEF b0
    <2>2. /\ next' \in LinkMaps /\ next'[e] = free /\ \A k \in Entries \ {e} : next'[k] = next[k]
          /\ next[e] \in OrNil
        BY <1>1, <2>1 DEF LinkMaps
    <2>3. /\ table' \in [Levels -> [BucketNos -> OrNil]] /\ table'[depth][b0] = next[e]
          /\ \A l \in Levels, b \in BucketNos : l # depth \/ b # b0 => table'[l][b] = table[l][b]
        BY <1>1, <2>1, <2>2
    <2>4. e \in From(h)
        BY <1>1, <1>3, <1>4, AlongStart DEF From
    <2>5. WorksOn(b0)
        BY <1>1, <1>3, <2>2, <2>3, <2>4 DEF WorksOn
    <2>6. Along(next, next[e]) = From(h) \ {e} /\ Ends(next, next[e])
        BY <1>1, <1>2, <1>3, <1>4, Popped DEF From
    <2>7. Along(next', next[e]) = Along(next, next[e]) /\ Ends(next', next[e])
        BY <1>1, <2>2, <2>6, AlongSame, AlongStart
    <2>8. Along(next', e) = From(free) \cup {e} /\ Ends(next', e)
        <3>1. e \notin Along(next, free)
            BY <1>2, <2>4 DEF From
        <3> QED
            BY <1>1, <1>2, <2>2, <3>1, Pushed DEF From
    <2> QED
        BY <1>1, <1>3, <2>2, <2>3, <2>4, <2>5, <2>6, <2>7, <2>8 DEF b0
<1>5. CASE p # Nil
    <2> DEFINE nz == [next EXCEPT ![p] = next[e]]
    <2>1. UNCHANGED table /\ next' = [next EXCEPT ![p] = next[e], ![e] = free]
        BY <1>5 DEF RemoveStep
    <2> HIDE DEF b0
    <2>2. p \in From(h) \cup From(free) /\ next[p] = e /\ p \in Entries
        BY <1>3, <1>5, AlongStart DEF From
    <2>3. p # e
        <3>1. Ends(next, p)
            BY <1>1, <1>2, <2>2, EndsEverywhere DEF From
        <3> QED
            BY <1>1, <2>2, <3>1, NoCycle, AlongStart
    <2>4. nz \in LinkMaps /\ nz[p] = next[next[p]] /\ \A k \in Entries \ {p} : nz[k] = next[k]
        BY <1>1, <2>2 DEF LinkMaps
    <2>5. next' \in LinkMaps /\ next'[e] = free /\ \A k \in Entries \ {e} : next'[k] = nz[k]
        BY <1>1, <2>1, <2>2, <2>3 DEF LinkMaps
    <2> HIDE DEF nz
    <2>6. CASE p \in From(h)
        <3>1. e \in From(h)
            BY <1>1, <2>2, <2>6, AlongClosed, NilIsNoEntry DEF ClosedIn, From
        <3>2. WorksOn(b0)
            BY <1>3, <2>1, <2>4, <2>5, <2>6, <3>1 DEF WorksOn
        <3>3. Along(nz, h) = From(h) \ {e} /\ Ends(nz, h)
            BY <1>1, <1>2, <2>2, <2>4, <2>6, TakenOut DEF From
        <3>4. Along(next', h) = Along(nz, h) /\ Ends(next', h)
            BY <1>1, <2>4, <2>5, <3>3, AlongSame, AlongStart
        <3>5. Along(nz, free) = From(free) /\ Ends(nz, free) /\ e \notin From(free)
            <4>1. p \notin Along(next, free) /\ e \notin From(free)
                BY <1>2, <2>6, <3>1 DEF From
            <4> QED
                BY <1>1, <1>2, <2>4, <4>1, AlongSame, AlongStart DEF From
        <3>6. Along(next', e) = From(free) \cup {e} /\ Ends(next', e)
            BY <1>1, <2>4, <2>5, <3>5, Pushed
        <3> QED
            BY <1>1, <1>3, <2>1, <2>5, <3>1, <3>2, <3>3, <3>4, <3>6 DEF b0
    <2>7. CASE p \in From(free)
        <3>1. e \in From(free)
            BY <1>1, <2>2, <2>7, AlongClosed, NilIsNoEntry DEF ClosedIn, From
        <3>2. WorksOn(b0)
            BY <1>3, <2>1, <2>4, <2>5, <2>7, <3>1 DEF WorksOn
        <3>3. Along(nz, free) = From(free) \ {e} /\ Ends(nz, free)
            BY <1>1, <1>2, <2>2, <2>4, <2>7, TakenOut DEF From
        <3>4. Along(next', e) = From(free) /\ Ends(next', e)
            <4>1. e \notin Along(nz, free)
                BY <3>3
            <4>2. Along(next', e) = {e} \cup Along(nz, free) /\ Ends(next', e)
                BY <1>1, <2>4, <2>5, <3>3, <4>1, Pushed
            <4> QED
                BY <3>1, <3>3, <4>2
        <3>5. Along(next', h) = From(h) /\ Ends(next', h)
            <4>1. \A k \in Along(next, h) : next'[k] = next[k]
                BY <1>2, <2>4, <2>5, <2>7, <3>1, AlongStart DEF From
            <4> QED
                BY <1>1, <1>2, <2>5, <4>1, AlongSame DEF From
        <3> QED
            BY <1>1, <1>3, <2>1, <2>5, <3>1, <3>2, <3>4, <3>5 DEF b0
    <2> QED
        BY <2>2, <2>6, <2>7
<1> QED
    BY <1>4, <1>5

----------------------------------------------------------------------------
(* The opcodes come down to a few kinds of steps.                          *)

Fails == Opcode /\ \E err \in {"EINVAL", "ENOMEM"} : Stop(err)

Sets(r, v) ==
    /\ Opcode /\ operand' = r /\ SetRegister(r, v)
    /\ Continue /\ UNCHANGED <<address, depth, remove, phase>>

StartsRemoval(x) == Opcode /\ operand' \in Registers /\ RemoveRegister(x)

Pushes ==
    /\ Opcode /\ depth + 1 # MaxStates
    /\ depth' = depth + 1
    /\ count' = [count EXCEPT ![depth + 1] = 0]
    /\ address' = [address EXCEPT ![depth + 1] = "undefined"]
    /\ table' = [table EXCEPT ![depth + 1] = [b \in 0 .. Buckets - 1 |-> Nil]]
    /\ Continue /\ UNCHANGED <<regnum, rule, next, free, remove, operand, phase>>

Pops ==
    /\ Opcode /\ depth # 0
    /\ depth' = depth - 1
    /\ Continue /\ UNCHANGED <<entryVars, count, address, remove, operand, phase>>

LEMMA StepForms ==
    ASSUME TypeOK, [Next]_vars
    PROVE  \/ SaveInitial \/ EndOfProgram \/ Fails \/ Skip \/ UNCHANGED vars
           \/ \E a \in AddressRules : DefineAddress(a)
           \/ \E r \in Registers, v \in Rules : Sets(r, v)
           \/ \E x \in Registers \cup {0} : StartsRemoval(x)
           \/ Pushes \/ Pops \/ RemoveStep \/ ApplyRule \/ ApplyEnds
<1>1. ASSUME NEW r \in Registers, NEW v \in Rules, Define(r, v)
      PROVE  Fails \/ Sets(r, v)
    BY <1>1 DEF Define, Fails, Sets
<1>2. ASSUME NEW a \in AddressRules, ChangeAddress(a)
      PROVE  Fails \/ DefineAddress(a)
    BY <1>2 DEF ChangeAddress, Fails
<1>3. ASSUME NEW r \in Registers, NEW extended \in BOOLEAN, Restore(r, extended)
      PROVE  Fails \/ (\E v \in Rules : Sets(r, v)) \/ \E x \in Registers \cup {0} : StartsRemoval(x)
    <2>1. CASE r \in DOMAIN initial
        <3>1. initial[r] \in Rules
            BY <2>1 DEF TypeOK
        <3> QED
            BY <1>1, <1>3, <2>1, <3>1 DEF Restore
    <2>2. CASE r \notin DOMAIN initial
        BY <1>3, <2>2 DEF Restore, StartsRemoval
    <2> QED
        BY <2>1, <2>2
<1>4. ASSUME NEW r \in Registers, Undefined(r)
      PROVE  StartsRemoval(r)
    BY <1>4 DEF Undefined, StartsRemoval
<1>5. RememberState => Fails \/ Pushes
    BY DEF RememberState, Fails, Pushes
<1>6. RestoreState => Fails \/ Pops
    BY DEF RestoreState, Fails, Pops
<1>7. OpcodeFails => Fails
    BY DEF OpcodeFails, Fails
<1> HIDE DEF Fails, Sets, StartsRemoval, Pushes, Pops
<1>8. CASE UNCHANGED vars
    BY <1>8
<1>9. CASE ApplyRule \/ ApplyEnds
    BY <1>9
<1>10. CASE Evaluate
    <2>1. CASE \E r \in Registers, v \in Rules : Define(r, v)
        BY <1>1, <2>1
    <2>2. CASE \E r \in Registers : Undefined(r) \/ Restore(r, FALSE) \/ Restore(r, TRUE)
        BY <1>3, <1>4, <2>2
    <2>3. CASE \E a \in AddressRules : DefineAddress(a) \/ ChangeAddress(a)
        BY <1>2, <2>3
    <2> QED
        BY <1>5, <1>6, <1>7, <1>10, <2>1, <2>2, <2>3 DEF Evaluate
<1> QED
    BY <1>8, <1>9, <1>10 DEF Next

\* The types of the variables that are not a step's own.
LEMMA CountType ==
    ASSUME NEW c \in 0 .. 255
    PROVE  (c + 1) % 256 \in 0 .. 255 /\ (c - 1) % 256 \in 0 .. 255
OBVIOUS

LEMMA SetsKeepsTypes ==
    ASSUME TypeOK, Shape, NEW r \in Registers, NEW v \in Rules, Sets(r, v)
    PROVE  TypeOK'
<1>1. left' \in 0 .. MaxOpcodes /\ operand' \in Registers
    BY CFAAssumption DEF TypeOK, Sets, Opcode
<1>2. UNCHANGED <<initial, iter, program, frame, result, address, depth, remove, phase>>
    BY DEF Sets, Continue
<1>3. /\ regnum' \in [Entries -> Registers \cup Stale] /\ rule' \in [Entries -> Rules \cup {NULL}]
      /\ next' \in [Entries -> 0 .. Nil] /\ free' \in 0 .. Nil
      /\ table' \in [Levels -> [0 .. Buckets - 1 -> 0 .. Nil]] /\ count' \in [Levels -> 0 .. 255]
    <2>1. CASE Find(r) = {} /\ Allocate(r, v)
        <3>1. /\ next' \in LinkMaps /\ free' \in OrNil /\ table' \in [Levels -> [BucketNos -> OrNil]]
              /\ free \in Entries
            BY <1>2, <2>1, AllocateFacts
        <3>2. regnum' \in [Entries -> Registers \cup Stale] /\ rule' \in [Entries -> Rules \cup {NULL}]
            BY <2>1 DEF TypeOK, Allocate
        <3>3. count' \in [Levels -> 0 .. 255]
            BY <2>1, CountType DEF TypeOK, Allocate
        <3> QED
            BY <3>1, <3>2, <3>3, NilIsNoEntry DEF LinkMaps, BucketNos
    <2>2. CASE ~(Find(r) = {} /\ Allocate(r, v))
        <3>1. UNCHANGED <<regnum, next, free, table, count>>
            BY <2>2 DEF Sets, SetRegister
        <3>2. rule' \in [Entries -> Rules \cup {NULL}]
            BY <2>2, ZenonT(40) DEF TypeOK, Sets, SetRegister
        <3> QED
            BY <3>1, <3>2 DEF TypeOK
    <2> QED
        BY <2>1, <2>2
<1> QED
    BY <1>1, <1>2, <1>3 DEF TypeOK

LEMMA RemoveStepKeepsTypes ==
    ASSUME TypeOK, Shape, Removal, RemoveStep
    PROVE  TypeOK'
<1>1. UNCHANGED <<regnum, rule, address, depth, initial, iter, operand, program, left, frame, result>>
    BY DEF RemoveStep, entryVars
<1>2. CASE remove.entry = Nil
    BY <1>1, <1>2, SMTT(30) DEF TypeOK, RemoveStep, entryVars
<1>3. CASE remove.entry # Nil /\ regnum[remove.entry] # remove.reg
    <2>1. remove' = [remove EXCEPT !.prev = remove.entry, !.entry = next[remove.entry]]
          /\ UNCHANGED <<next, free, table, count, phase>>
        BY <1>3 DEF RemoveStep
    <2>2. remove.entry \in Entries
        BY <1>3, NilIsNoEntry DEF TypeOK, OrNil
    <2>3. next[remove.entry] \in 0 .. Nil
        BY <2>2 DEF TypeOK
    <2>4. remove' \in [reg : Registers \cup {0, NULL}, prev : 0 .. Nil, entry : 0 .. Nil]
        BY <2>1, <2>3 DEF TypeOK
    <2> QED
        BY <1>1, <2>1, <2>4 DEF TypeOK
<1>4. CASE remove.entry # Nil /\ regnum[remove.entry] = remove.reg
    <2>1. remove' = [remove EXCEPT !.prev = remove.entry, !.entry = free] /\ UNCHANGED phase
          /\ count' = [count EXCEPT ![depth] = (@ - 1) % 256]
        BY <1>4 DEF RemoveStep
    <2>2. /\ next' \in LinkMaps /\ free' = remove.entry /\ table' \in [Levels -> [BucketNos -> OrNil]]
        BY <1>4, RemoveFacts
    <2>3. remove' \in [reg : Registers \cup {0, NULL}, prev : 0 .. Nil, entry : 0 .. Nil]
          /\ free' \in 0 .. Nil
        BY <2>1, <2>2 DEF TypeOK
    <2>4. count' \in [Levels -> 0 .. 255]
        BY <2>1, CountType DEF TypeOK
    <2> QED
        BY <1>1, <2>1, <2>2, <2>3, <2>4, NilIsNoEntry DEF TypeOK, LinkMaps, BucketNos
<1> QED
    BY <1>2, <1>3, <1>4

LEMMA SaveKeepsTypes ==
    ASSUME TypeOK, Content, Saving, SaveInitial
    PROVE  TypeOK'
<1>1. UNCHANGED <<entryVars, rowVars, remove, operand, program, left, frame, result>>
      /\ iter' = Advanced(iter) /\ phase' \in {"save", "eval"}
    BY DEF SaveInitial
<1>2. iter' \in Iterators
      /\ (iter'.entry # Nil => iter'.bucket \in BucketNos /\ iter'.entry \in From(table[depth][iter'.bucket]))
    <2>1. iter \in Iterators /\ Placed(iter)
        BY DEF TypeOK, Iterators, Saving, SaveInitial
    <2> QED
        BY <1>1, <2>1, AdvanceFacts
<1>3. DOMAIN initial' \subseteq Registers /\ \A r \in DOMAIN initial' : initial'[r] \in Rules
    <2>1. CASE iter'.entry = Nil
        BY <2>1 DEF TypeOK, SaveInitial
    <2>2. CASE iter'.entry # Nil
        <3>1. regnum[iter'.entry] \in Registers /\ rule[iter'.entry] \in Rules
            BY <1>2, <2>2, Basics DEF Content
        <3> QED
            BY <2>2, <3>1 DEF TypeOK, SaveInitial
    <2> QED
        BY <2>1, <2>2
<1> QED
    BY <1>1, <1>2, <1>3 DEF TypeOK, Iterators, entryVars, rowVars

LEMMA ApplyKeepsTypes ==
    ASSUME TypeOK, Applying, ApplyRule \/ ApplyEnds
    PROVE  TypeOK'
<1>1. UNCHANGED <<entryVars, rowVars, initial, remove, operand, program, left>>
      /\ iter' = Advanced(iter) /\ phase = "apply"
      /\ phase' \in {"apply", "done"}
    BY DEF ApplyRule, ApplyEnds, Finish
<1>2. iter' \in Iterators
    <2>1. iter \in Iterators /\ Placed(iter)
        BY <1>1 DEF TypeOK, Iterators, Applying
    <2> QED
        BY <1>1, <2>1, AdvanceFacts
<1>3. frame' \subseteq Mapped \cup {IP}
    BY DEF TypeOK, ApplyRule, ApplyEnds
<1>4. result' \in {result, "success", "EINVAL", "ENOTFOUND"}
    BY DEF ApplyRule, ApplyEnds, Finish
<1> QED
    BY <1>1, <1>2, <1>3, <1>4 DEF TypeOK, Iterators, entryVars, rowVars

LEMMA LevelStepKeepsTypes ==
    ASSUME TypeOK, Pushes \/ Pops
    PROVE  TypeOK'
<1>1. left' \in 0 .. MaxOpcodes
    BY CFAAssumption DEF TypeOK, Pushes, Pops, Opcode
<1>2. UNCHANGED <<initial, iter, program, frame, result, regnum, rule, next, free, remove, operand, phase>>
    BY DEF Pushes, Pops, Continue, entryVars
<1>3. depth' \in Levels
    BY CFAAssumption, SMTT(30) DEF TypeOK, Pushes, Pops, Levels
<1>4. /\ table' \in [Levels -> [0 .. Buckets - 1 -> 0 .. Nil]]
      /\ count' \in [Levels -> 0 .. 255] /\ address' \in [Levels -> AddressRules]
    <2>1. CASE Pushes
        <3>1. [b \in 0 .. Buckets - 1 |-> Nil] \in [0 .. Buckets - 1 -> 0 .. Nil]
            BY CFAAssumption DEF Nil
        <3>2. table' \in [Levels -> [0 .. Buckets - 1 -> 0 .. Nil]]
            <4> DEFINE E == [b \in 0 .. Buckets - 1 |-> Nil]
            <4>1. table' = [table EXCEPT ![depth + 1] = E]
                BY <2>1 DEF Pushes
            <4> HIDE DEF E
            <4>2. E \in [0 .. Buckets - 1 -> 0 .. Nil]
                BY <3>1 DEF E
            <4> QED
                BY <4>1, <4>2 DEF TypeOK
        <3>3. count' \in [Levels -> 0 .. 255]
            <4>1. count \in [Levels -> 0 .. 255] /\ count' = [count EXCEPT ![depth + 1] = 0] /\ 0 \in 0 .. 255
                BY <2>1 DEF TypeOK, Pushes
            <4> QED
                BY <4>1
        <3>4. address' \in [Levels -> AddressRules]
            BY <2>1 DEF TypeOK, Pushes, AddressRules
        <3> QED
            BY <3>2, <3>3, <3>4
    <2>2. CASE Pops
        BY <2>2 DEF TypeOK, Pops, entryVars
    <2> QED
        BY <2>1, <2>2
<1> QED
    BY <1>1, <1>2, <1>3, <1>4 DEF TypeOK

LEMMA OtherStepKeepsTypes ==
    ASSUME TypeOK,
           \/ EndOfProgram \/ Fails \/ Skip \/ UNCHANGED vars
           \/ \E a \in AddressRules : DefineAddress(a)
           \/ \E x \in Registers \cup {0} : StartsRemoval(x)
    PROVE  TypeOK'
<1>1. CASE EndOfProgram
    <2>1. iter' \in [bucket : 0 .. Buckets, entry : 0 .. Nil]
        BY <1>1, CFAAssumption DEF EndOfProgram, Start, Nil
    <2>2. DOMAIN initial' \subseteq Registers /\ \A r \in DOMAIN initial' : initial'[r] \in Rules
        BY <1>1 DEF EndOfProgram, TypeOK
    <2> QED
        BY <1>1, <2>1, <2>2 DEF EndOfProgram, TypeOK, entryVars, rowVars
<1>2. CASE Fails
    <2>1. left' \in 0 .. MaxOpcodes
        BY <1>2, CFAAssumption DEF TypeOK, Fails, Opcode
    <2> QED
        BY <1>2, <2>1 DEF Fails, Stop, TypeOK, entryVars, rowVars
<1>3. CASE Skip
    <2>1. left' \in 0 .. MaxOpcodes
        BY <1>3, CFAAssumption DEF TypeOK, Skip, Opcode
    <2> QED
        BY <1>3, <2>1 DEF Skip, Continue, TypeOK, entryVars, rowVars
<1>4. CASE UNCHANGED vars
    BY <1>4 DEF vars, TypeOK, entryVars, rowVars
<1>5. ASSUME NEW a \in AddressRules, DefineAddress(a)
      PROVE  TypeOK'
    <2>1. left' \in 0 .. MaxOpcodes
        BY <1>5, CFAAssumption DEF TypeOK, DefineAddress, Opcode
    <2>2. address' \in [Levels -> AddressRules]
        BY <1>5 DEF TypeOK, DefineAddress
    <2> QED
        BY <1>5, <2>1, <2>2 DEF DefineAddress, Continue, TypeOK, entryVars
<1>6. ASSUME NEW x \in Registers \cup {0}, StartsRemoval(x)
      PROVE  TypeOK'
    <2>1. left' \in 0 .. MaxOpcodes
        BY <1>6, CFAAssumption DEF TypeOK, StartsRemoval, Opcode
    <2>2. table[depth][Bucket(x)] \in 0 .. Nil /\ Nil \in 0 .. Nil
        BY Basics, BucketType, NilIsNoEntry DEF OrNil
    <2>3. remove' \in [reg : Registers \cup {0, NULL}, prev : 0 .. Nil, entry : 0 .. Nil]
        BY <1>6, <2>2 DEF StartsRemoval, RemoveRegister
    <2> QED
        BY <1>6, <2>1, <2>3 DEF StartsRemoval, RemoveRegister, Continue, TypeOK, entryVars,
            rowVars
<1> QED
    BY <1>1, <1>2, <1>3, <1>4, <1>5, <1>6

----------------------------------------------------------------------------
(* The steps of the evaluation: chains, rules and walks.                   *)

LEMMA SameChains ==
    ASSUME Shape, UNCHANGED <<next, free, table, depth>>
    PROVE  Shape'
BY DEF Shape, From

LEMMA SameContent ==
    ASSUME Content, UNCHANGED <<next, table, depth, regnum, rule>>
    PROVE  Content'
BY DEF Content, From, Bucket

LEMMA StillEvaluating ==
    ASSUME Success, phase = "eval", phase' = "eval", result' = result
    PROVE  Removal' /\ Saving' /\ Applying' /\ Success'
BY DEF Success, Removal, Saving, Applying

LEMMA SetsKeepsInv ==
    ASSUME IInv, NEW r \in Registers, NEW v \in Rules, Sets(r, v)
    PROVE  IInv'
<1> DEFINE b0 == Bucket(r)
           h == table[depth][b0]
<1>1. TypeOK' /\ b0 \in BucketNos /\ depth \in 0 .. depth /\ depth' = depth
    BY SetsKeepsTypes, BucketType, Basics DEF IInv, Sets
<1>2. Removal' /\ Saving' /\ Applying' /\ Success'
    BY StillEvaluating DEF IInv, Sets, Opcode, Continue
<1>3. CASE Find(r) # {}
    <2> DEFINE z == CHOOSE i \in Find(r) : TRUE
    <2>1. z \in Find(r)
        BY <1>3
    <2>2. rule' = [rule EXCEPT ![z] = v] /\ UNCHANGED <<regnum, next, free, table>>
        BY <1>3 DEF Sets, SetRegister
    <2> HIDE DEF z
    <2>3. \A i \in Entries : rule'[i] = rule[i] \/ rule'[i] \in Rules
        BY <2>2 DEF IInv, TypeOK
    <2>4. Content'
        <3>1. \A l \in 0 .. depth, b \in BucketNos : From(table[l][b]) \subseteq Entries
            BY AlongStart DEF From
        <3>2. \A l \in 0 .. depth, b \in BucketNos : \A i \in From(table[l][b]) : rule'[i] \in Rules
            BY <2>3, <3>1 DEF IInv, Content
        <3> QED
            BY <1>1, <2>2, <3>2 DEF IInv, Content, From, Bucket
    <2> QED
        BY <1>1, <1>2, <2>2, <2>4, SameChains DEF IInv
<1>4. CASE Find(r) = {}
    <2>1. Allocate(r, v)
        BY <1>4 DEF Sets, SetRegister
    <2>2. /\ WorksOn(b0) /\ free \in Entries /\ free \in From(free) /\ free \notin From(h)
          /\ Along(next', free') = From(free) \ {free} /\ Ends(next', free')
          /\ Along(next', table'[depth][b0]) = From(h) \cup {free} /\ Ends(next', table'[depth][b0])
        BY <1>1, <2>1, AllocateFacts DEF IInv
    <2>3. From(free) \cap From(h) = {}
        BY <1>1 DEF IInv, Shape
    <2>4. Shape'
        BY <1>1, <2>2, <2>3, NewShape DEF IInv
    <2>5. /\ regnum' = [regnum EXCEPT ![free] = r] /\ rule' = [rule EXCEPT ![free] = v]
          /\ regnum \in [Entries -> Registers \cup Stale] /\ rule \in [Entries -> Rules \cup {NULL}]
        BY <2>1 DEF Allocate, IInv, TypeOK
    <2>6. /\ regnum'[free] = r /\ rule'[free] = v
          /\ \A i \in Entries \ {free} : regnum'[i] = regnum[i] /\ rule'[i] = rule[i]
        BY <2>2, <2>5
    <2>7. \A l \in 0 .. depth, b \in BucketNos :
             From(table[l][b]) \subseteq Entries /\ free \notin From(table[l][b])
        BY <2>2, AlongStart DEF IInv, Shape, From
    <2>8. \A i \in From(h) : /\ regnum[i] # r /\ regnum[i] \in Registers /\ rule[i] \in Rules
                             /\ Bucket(regnum[i]) = b0
                             /\ \A j \in From(h) : regnum[i] = regnum[j] => i = j
        BY <1>1, <1>4 DEF Find, IInv, Content
    <2>9. ASSUME NEW i \in From(h) \cup {free}
          PROVE  /\ regnum'[i] \in Registers /\ rule'[i] \in Rules /\ Bucket(regnum'[i]) = b0
                 /\ \A j \in From(h) \cup {free} : regnum'[i] = regnum'[j] => i = j
        <3>1. i \in From(h) => regnum'[i] = regnum[i] /\ rule'[i] = rule[i]
            BY <1>1, <2>6, <2>7
        <3>2. \A j \in From(h) : regnum'[j] = regnum[j]
            BY <1>1, <2>6, <2>7
        <3> HIDE DEF b0
        <3>3. Bucket(r) = b0
            BY DEF b0
        <3> QED
            BY <2>6, <2>8, <3>1, <3>2, <3>3
    <2>10. Content'
        <3>1. \A l \in 0 .. depth, b \in BucketNos : l # depth \/ b # b0 =>
                 \A i \in From(table[l][b]) : regnum'[i] = regnum[i] /\ rule'[i] = rule[i]
            BY <2>6, <2>7
        <3>2. \A i \in Along(next', table'[depth][b0]) :
                 /\ regnum'[i] \in Registers /\ rule'[i] \in Rules /\ Bucket(regnum'[i]) = b0
                 /\ \A j \in Along(next', table'[depth][b0]) : regnum'[i] = regnum'[j] => i = j
            BY <2>2, <2>9
        <3> HIDE DEF b0, h
        <3> QED
            BY <1>1, <2>2, <3>1, <3>2, NewContent DEF IInv
    <2> QED
        BY <1>1, <1>2, <2>4, <2>10 DEF IInv
<1> QED
    BY <1>3, <1>4

LEMMA StartsRemovalKeepsInv ==
    ASSUME IInv, NEW x \in Registers \cup {0}, StartsRemoval(x)
    PROVE  IInv'
<1>1. TypeOK'
    BY OtherStepKeepsTypes DEF IInv
<1>2. UNCHANGED <<next, free, table, depth, regnum, rule, result>> /\ phase = "eval" /\ phase' = "remove"
      /\ remove' = [reg |-> x, prev |-> Nil, entry |-> table[depth][Bucket(x)]]
    BY DEF StartsRemoval, RemoveRegister, Continue, Opcode, entryVars, rowVars
<1>3. Shape' /\ Content'
    BY <1>2, SameChains, SameContent DEF IInv
<1>4. Removal'
    BY <1>2 DEF Removal, From, Bucket
<1>5. Saving' /\ Applying' /\ Success'
    BY <1>2 DEF IInv, Success, Saving, Applying
<1> QED
    BY <1>1, <1>3, <1>4, <1>5 DEF IInv

LEMMA RemoveStepKeepsInv ==
    ASSUME IInv, RemoveStep
    PROVE  IInv'
<1> DEFINE e == remove.entry
           b0 == Bucket(remove.reg)
           h == table[depth][b0]
<1>1. TypeOK' /\ b0 \in BucketNos /\ depth \in 0 .. depth /\ depth' = depth /\ UNCHANGED <<regnum, rule, result>>
    <2>1. UNCHANGED <<regnum, rule, result, depth>>
        BY DEF RemoveStep, entryVars
    <2>2. remove.reg \in Registers \cup {0}
        BY DEF RemoveStep, IInv, Removal
    <2> QED
        BY <2>1, <2>2, RemoveStepKeepsTypes, BucketType, Basics DEF IInv
<1>2. phase = "remove" /\ result # "success" /\ Removal
    BY DEF IInv, Success, RemoveStep
<1>3. CASE e = Nil
    <2>1. phase' = "eval" /\ UNCHANGED <<next, free, table>>
        BY <1>3 DEF RemoveStep, entryVars
    <2>2. Shape' /\ Content'
        BY <1>1, <2>1, SameChains, SameContent DEF IInv
    <2>3. Removal' /\ Saving' /\ Applying' /\ Success'
        BY <1>1, <1>2, <2>1 DEF Removal, Saving, Applying, Success
    <2> QED
        BY <1>1, <2>2, <2>3 DEF IInv
<1>4. CASE e # Nil /\ regnum[e] # remove.reg
    <2>1. phase' = "remove" /\ remove' = [remove EXCEPT !.prev = e, !.entry = next[e]]
          /\ UNCHANGED <<next, free, table>>
        BY <1>2, <1>4 DEF RemoveStep
    <2>2. Shape' /\ Content'
        BY <1>1, <2>1, SameChains, SameContent DEF IInv
    <2>3. remove'.reg = remove.reg /\ remove'.prev = e /\ remove'.entry = next[e]
        BY <2>1 DEF IInv, TypeOK
    <2>4. e \in From(h) \cup From(free) /\ next \in LinkMaps /\ e \in Entries
        <3>1. next \in LinkMaps /\ e \in Entries
            BY <1>4, Basics, NilIsNoEntry DEF IInv, TypeOK, OrNil
        <3>2. CASE remove.prev = Nil
            BY <1>2, <3>1, <3>2, AlongStart DEF Removal, From
        <3>3. CASE remove.prev # Nil
            BY <1>2, <1>4, <3>1, <3>3, AlongClosed DEF Removal, From, ClosedIn
        <3> QED
            BY <3>1, <3>2, <3>3
    <2>5. ASSUME NEW i \in From(h), regnum[i] = remove.reg
          PROVE  i \in From(next[e])
        <3>1. i \in From(e)
            BY <1>2, <2>5 DEF Removal
        <3> QED
            BY <1>4, <2>4, <2>5, <3>1, AlongStep DEF From
    <2>6. Removal'
        <3>1. remove'.reg \in Registers \cup {0}
            BY <1>2, <2>3 DEF Removal
        <3> HIDE DEF e
        <3>2. /\ remove'.prev # Nil /\ next[remove'.prev] = remove'.entry
              /\ remove'.prev \in From(h) \cup From(free)
            BY <1>4, <2>3, <2>4
        <3> QED
            BY <1>1, <2>1, <2>3, <2>5, <3>1, <3>2 DEF Removal, From, Bucket
    <2>7. Saving' /\ Applying' /\ Success'
        BY <1>1, <1>2, <2>1 DEF Saving, Applying, Success
    <2> QED
        BY <1>1, <2>2, <2>6, <2>7 DEF IInv
<1>5. CASE e # Nil /\ regnum[e] = remove.reg
    <2>1. phase' = "remove" /\ remove' = [remove EXCEPT !.prev = e, !.entry = free]
        BY <1>2, <1>5 DEF RemoveStep
    <2>2. remove'.reg = remove.reg /\ remove'.prev = e /\ remove'.entry = free
        BY <2>1 DEF IInv, TypeOK
    <2>3. /\ WorksOn(b0) /\ e \in Entries /\ next' \in LinkMaps /\ free' = e /\ next'[e] = free
          /\ Ends(next', free') /\ Ends(next', table'[depth][b0])
          /\ \/ /\ e \in From(h)
                /\ Along(next', free') = From(free) \cup {e}
                /\ Along(next', table'[depth][b0]) = From(h) \ {e}
             \/ /\ e \in From(free)
                /\ Along(next', free') = From(free)
                /\ Along(next', table'[depth][b0]) = From(h)
        BY <1>5, RemoveFacts DEF IInv
    <2>4. From(free) \cap From(h) = {}
        BY <1>1 DEF IInv, Shape
    <2>5. Along(next', table'[depth][b0]) \subseteq From(h)
        BY <2>3
    <2>6. Shape'
        <3>1. Along(next', free') \cap Along(next', table'[depth][b0]) = {}
            BY <2>3, <2>4
        <3>2. Along(next', free') \cup Along(next', table'[depth][b0]) \subseteq From(free) \cup From(h)
            BY <2>3
        <3> QED
            BY <1>1, <2>3, <3>1, <3>2, NewShape DEF IInv
    <2>7. Content'
        <3>1. \A i \in From(h) : /\ regnum[i] \in Registers /\ rule[i] \in Rules /\ Bucket(regnum[i]) = b0
                                 /\ \A j \in From(h) : regnum[i] = regnum[j] => i = j
            BY <1>1 DEF IInv, Content
        <3>2. \A i \in Along(next', table'[depth][b0]) :
                 /\ regnum'[i] \in Registers /\ rule'[i] \in Rules /\ Bucket(regnum'[i]) = b0
                 /\ \A j \in Along(next', table'[depth][b0]) : regnum'[i] = regnum'[j] => i = j
            <4>1. regnum' = regnum /\ rule' = rule
                BY <1>1
            <4> HIDE DEF b0, h
            <4> QED
                BY <2>5, <3>1, <4>1
        <3>3. regnum' = regnum /\ rule' = rule
            BY <1>1
        <3> HIDE DEF b0, h
        <3> QED
            BY <1>1, <2>3, <3>2, <3>3, NewContent DEF IInv
    <2>8. ASSUME NEW i \in Along(next', table'[depth][b0]), regnum[i] = remove.reg
          PROVE  FALSE
        <3>1. i \in From(h) /\ i \in From(e)
            BY <1>2, <2>5, <2>8 DEF Removal
        <3>2. CASE e \in From(h)
            BY <1>1, <1>5, <2>3, <2>4, <2>8, <3>1, <3>2 DEF IInv, Content
        <3>3. CASE e \in From(free)
            <4>1. From(e) \subseteq From(free)
                BY <3>3, AlongTrans, Basics DEF From, IInv
            <4> QED
                BY <2>4, <3>1, <4>1
        <3> QED
            BY <2>3, <3>2, <3>3
    <2>9. Removal'
        <3>1. remove'.reg \in Registers \cup {0}
            BY <1>2, <2>2 DEF Removal
        <3>2. remove'.prev # Nil /\ remove'.prev \in Along(next', free') /\ next'[remove'.prev] = remove'.entry
            BY <1>5, <2>2, <2>3, AlongStart
        <3> QED
            BY <1>1, <2>2, <2>8, <3>1, <3>2 DEF Removal, From, Bucket
    <2>10. Saving' /\ Applying' /\ Success'
        BY <1>1, <1>2, <2>1 DEF Saving, Applying, Success
    <2> QED
        BY <1>1, <2>6, <2>7, <2>9, <2>10 DEF IInv
<1> QED
    BY <1>3, <1>4, <1>5

LEMMA PushesKeepsInv ==
    ASSUME IInv, Pushes
    PROVE  IInv'
<1>1. TypeOK' /\ TypeOK
    BY LevelStepKeepsTypes DEF IInv
<1>2. /\ depth' = depth + 1 /\ depth \in Nat /\ depth + 1 \in Levels /\ UNCHANGED <<regnum, rule, next, free>>
      /\ phase = "eval" /\ phase' = "eval" /\ result' = result
    BY <1>1 DEF Pushes, Opcode, Continue, TypeOK, Levels
<1>3. /\ \A l \in 0 .. depth, b \in BucketNos : table'[l][b] = table[l][b]
      /\ \A b \in BucketNos : table'[depth + 1][b] = Nil
    <2> DEFINE E == [b \in BucketNos |-> Nil]
    <2>1. table' = [table EXCEPT ![depth + 1] = E] /\ \A b \in BucketNos : E[b] = Nil
        BY DEF Pushes, BucketNos
    <2> HIDE DEF E
    <2>2. table'[depth + 1] = E /\ \A l \in 0 .. depth : table'[l] = table[l]
        BY <1>1, <1>2, <2>1, Basics DEF TypeOK
    <2> QED
        BY <2>1, <2>2
<1>4. \A l \in 0 .. depth + 1, b \in BucketNos :
        \/ l \in 0 .. depth /\ table'[l][b] = table[l][b]
        \/ l = depth + 1 /\ From(table'[l][b]) = {} /\ Ends(next, table'[l][b])
    BY <1>2, <1>3, AlongNull DEF From
<1> DEFINE C(l, b) == Along(next, table'[l][b])
<1>5. ASSUME NEW l \in 0 .. depth + 1, NEW b \in BucketNos
      PROVE  /\ Ends(next, table'[l][b]) /\ From(free) \cap C(l, b) = {}
             /\ \A m \in 0 .. depth + 1, c \in BucketNos : C(l, b) \cap C(m, c) # {} => l = m /\ b = c
             /\ \A i \in C(l, b) :
                   /\ regnum[i] \in Registers /\ rule[i] \in Rules /\ Bucket(regnum[i]) = b
                   /\ \A j \in C(l, b) : regnum[i] = regnum[j] => i = j
    <2>1. CASE l \in 0 .. depth /\ table'[l][b] = table[l][b]
        <3>1. /\ Ends(next, table'[l][b]) /\ From(free) \cap C(l, b) = {}
              /\ \A i \in C(l, b) :
                   /\ regnum[i] \in Registers /\ rule[i] \in Rules /\ Bucket(regnum[i]) = b
                   /\ \A j \in C(l, b) : regnum[i] = regnum[j] => i = j
            BY <2>1 DEF IInv, Shape, Content, From
        <3>2. ASSUME NEW m \in 0 .. depth + 1, NEW c \in BucketNos, C(l, b) \cap C(m, c) # {}
              PROVE  l = m /\ b = c
            <4>1. m \in 0 .. depth /\ table'[m][c] = table[m][c]
                BY <1>4, <3>2 DEF From
            <4> QED
                BY <2>1, <3>2, <4>1 DEF IInv, Shape, From
        <3> QED
            BY <3>1, <3>2
    <2>2. CASE From(table'[l][b]) = {} /\ Ends(next, table'[l][b])
        BY <2>2 DEF From
    <2> QED
        BY <1>4, <2>1, <2>2
<1> HIDE DEF C
<1>6. Ends(next, free)
    BY DEF IInv, Shape
<1>7. Shape'
    <2>1. \A l \in 0 .. depth + 1, b \in BucketNos :
            /\ Ends(next, table'[l][b]) /\ From(free) \cap C(l, b) = {}
            /\ \A m \in 0 .. depth + 1, c \in BucketNos : C(l, b) \cap C(m, c) # {} => l = m /\ b = c
        BY <1>5
    <2> QED
        BY <1>2, <1>6, <2>1, SMTT(30) DEF Shape, From, C
<1>8. Content'
    <2>1. \A l \in 0 .. depth + 1, b \in BucketNos : \A i \in C(l, b) :
            /\ regnum[i] \in Registers /\ rule[i] \in Rules /\ Bucket(regnum[i]) = b
            /\ \A j \in C(l, b) : regnum[i] = regnum[j] => i = j
        BY <1>5
    <2> QED
        BY <1>2, <2>1 DEF Content, From, Bucket, C
<1> QED
    BY <1>1, <1>2, <1>7, <1>8, StillEvaluating DEF IInv

LEMMA PopsKeepsInv ==
    ASSUME IInv, Pops
    PROVE  IInv'
<1>1. TypeOK' /\ TypeOK
    BY LevelStepKeepsTypes DEF IInv
<1>2. /\ depth' = depth - 1 /\ UNCHANGED <<regnum, rule, next, free, table>>
      /\ phase = "eval" /\ phase' = "eval" /\ result' = result
    BY DEF Pops, Opcode, Continue, entryVars
<1>3. 0 .. depth' \subseteq 0 .. depth
    BY <1>1, <1>2 DEF TypeOK, Levels
<1>4. Shape'
    BY <1>2, <1>3, SMTT(30) DEF IInv, Shape, From
<1>5. Content'
    BY <1>2, <1>3 DEF IInv, Content, From, Bucket
<1> QED
    BY <1>1, <1>2, <1>4, <1>5, StillEvaluating DEF IInv

\* The start of a walk has everything ahead.
LEMMA AllAhead == Ahead(Start) = Chained(depth)
<1>1. Ahead(Start) = Beyond(0)
    BY AheadIs DEF Start
<1> QED
    BY <1>1 DEF Beyond, Chained

LEMMA VisitedIsChained ==
    ASSUME NEW b \in BucketNos, NEW i \in From(table[depth][b])
    PROVE  i \in Chained(depth)
BY DEF Chained, BucketNos

\* Two entries of a row that are for the same register are the same.
LEMMA OneRule ==
    ASSUME Content, NEW l \in 0 .. depth, NEW i \in Chained(l)
    PROVE  /\ regnum[i] \in Registers /\ rule[i] \in Rules
           /\ \A j \in Chained(l) : regnum[i] = regnum[j] => i = j
<1>1. PICK b \in BucketNos : i \in From(table[l][b])
    BY DEF Chained, BucketNos
<1>2. ASSUME NEW j \in Chained(l), regnum[i] = regnum[j]
      PROVE  i = j
    <2>1. PICK c \in BucketNos : j \in From(table[l][c])
        BY DEF Chained, BucketNos
    <2>2. b = c
        BY <1>1, <1>2, <2>1 DEF Content
    <2> QED
        BY <1>1, <1>2, <2>1, <2>2 DEF Content
<1> QED
    BY <1>1, <1>2 DEF Content

LEMMA SaveKeepsInv ==
    ASSUME IInv, SaveInitial
    PROVE  IInv'
<1> DEFINE e == iter'.entry
<1>1. TypeOK'
    BY SaveKeepsTypes DEF IInv
<1>2. UNCHANGED <<next, free, table, depth, regnum, rule, result>> /\ phase = "save"
      /\ iter' = Advanced(iter)
    BY DEF SaveInitial, entryVars, rowVars
<1>3. Shape' /\ Content'
    BY <1>2, SameChains, SameContent DEF IInv
<1>4. Saving /\ TypeOK /\ Content /\ Placed(iter) /\ iter \in Iterators /\ result # "success"
      /\ depth \in 0 .. depth
    BY <1>2, Basics DEF IInv, Saving, Success, TypeOK, Iterators
<1>5. e # Nil => /\ iter'.bucket \in BucketNos /\ e \in From(table[depth][iter'.bucket])
                 /\ Ahead(iter) = {e} \cup Ahead(iter') /\ e \in Chained(depth)
    BY <1>2, <1>4, AdvanceFacts, VisitedIsChained
<1>6. CASE e = Nil
    <2>1. phase' = "eval"
        BY <1>6 DEF SaveInitial
    <2> QED
        BY <1>1, <1>2, <1>3, <1>4, <2>1 DEF IInv, Removal, Saving, Applying, Success
<1>7. CASE e # Nil
    <2>1. phase' = "save"
          /\ initial' = [r \in DOMAIN initial \cup {regnum[e]} |-> IF r = regnum[e] THEN rule[e] ELSE initial[r]]
        BY <1>2, <1>7 DEF SaveInitial
    <2> HIDE DEF e
    <2>2. /\ initial' = [r \in DOMAIN initial' |-> initial'[r]]
          /\ DOMAIN initial' = DOMAIN initial \cup {regnum[e]}
          /\ \A r \in DOMAIN initial' : initial'[r] = IF r = regnum[e] THEN rule[e] ELSE initial[r]
        BY <2>1
    <2>3. \A r \in DOMAIN initial' : \E i \in Chained(depth) : regnum[i] = r /\ rule[i] = initial'[r]
        BY <1>2, <1>4, <1>5, <1>7, <2>2 DEF Saving
    <2>4. \A i \in Chained(depth) \ Ahead(iter') : regnum[i] \in DOMAIN initial'
        BY <1>2, <1>4, <1>5, <1>7, <2>2 DEF Saving
    <2>5. Placed(iter')
        BY <1>5, <1>7 DEF Placed, e
    <2>6. Saving'
        BY <1>2, <2>2, <2>3, <2>4, <2>5 DEF Saving, Placed, Ahead, Chained, From
    <2>7. Removal' /\ Applying' /\ Success'
        BY <1>2, <1>4, <2>1 DEF Removal, Applying, Success
    <2> QED
        BY <1>1, <1>3, <2>6, <2>7 DEF IInv
<1> QED
    BY <1>6, <1>7

LEMMA ApplyKeepsInv ==
    ASSUME IInv, ApplyRule \/ ApplyEnds
    PROVE  IInv'
<1> DEFINE e == iter'.entry
<1>1. TypeOK'
    BY ApplyKeepsTypes DEF IInv
<1>2. UNCHANGED <<next, free, table, depth, regnum, rule>> /\ phase = "apply" /\ iter' = Advanced(iter)
    BY DEF ApplyRule, ApplyEnds, Finish, entryVars, rowVars
<1>3. Shape' /\ Content'
    BY <1>2, SameChains, SameContent DEF IInv
<1>4. Applying /\ TypeOK /\ Placed(iter) /\ iter \in Iterators /\ result # "success"
    BY <1>2 DEF IInv, Applying, Success, TypeOK, Iterators
<1>5. /\ e = Nil => Ahead(iter) = {}
      /\ e # Nil => /\ iter'.bucket \in BucketNos /\ e \in From(table[depth][iter'.bucket])
                    /\ Ahead(iter) = {e} \cup Ahead(iter')
    BY <1>2, <1>4, AdvanceFacts
<1>6. Removal' /\ Saving'
    BY <1>2 DEF ApplyRule, ApplyEnds, Finish, Removal, Saving
<1>7. CASE ApplyRule
    <2>1. e # Nil
        BY <1>7 DEF ApplyRule
    <2>2. CASE phase' = "done" /\ result' # "success"
        BY <1>1, <1>3, <1>6, <2>2 DEF IInv, Applying, Success
    <2>3. CASE phase' = phase /\ result' = result /\ frame' = frame \cup ({regnum[e]} \cap Mapped)
                                     \cup (IF regnum[e] = ReturnAddress THEN {IP} ELSE {})
        <3>1. Placed(iter')
            BY <1>5, <2>1 DEF Placed
        <3> HIDE DEF e
        <3>2. \A i \in Chained(depth) \ Ahead(iter') : regnum[i] \in Mapped => regnum[i] \in frame'
            BY <1>2, <1>4, <1>5, <2>1, <2>3 DEF Applying
        <3>3. Applying'
            BY <1>2, <3>1, <3>2 DEF Applying, Placed, Ahead, Chained, From
        <3>4. Success'
            BY <1>4, <2>3 DEF Success
        <3> QED
            BY <1>1, <1>3, <1>6, <3>3, <3>4 DEF IInv
    <2> QED
        BY <1>7, <2>2, <2>3 DEF ApplyRule, Finish
<1>8. CASE ApplyEnds
    <2>1. e = Nil /\ phase' = "done" /\ frame \subseteq frame'
        BY <1>8 DEF ApplyEnds, Finish
    <2>2. result' = "success" => IP \in frame'
        BY <1>8 DEF ApplyEnds, Finish
    <2>3. \A i \in Chained(depth) : regnum[i] \in Mapped => regnum[i] \in frame'
        BY <1>2, <1>4, <1>5, <2>1 DEF Applying
    <2>4. \A r \in DOMAIN RulesOf(depth) : \E i \in Chained(depth) : regnum[i] = r
        BY DEF RulesOf
    <2>5. RulesOf(depth)' = RulesOf(depth)
        BY <1>2 DEF RulesOf, Chained, From
    <2>6. DOMAIN RulesOf(depth) \cap Mapped \subseteq frame'
        BY <2>3, <2>4
    <2>7. Success'
        BY <2>1, <2>2, <2>5, <2>6 DEF Success, FrameIsComplete
    <2> QED
        BY <1>1, <1>3, <1>6, <2>1, <2>7 DEF IInv, Applying
<1> QED
    BY <1>7, <1>8

LEMMA EndOfProgramKeepsInv ==
    ASSUME IInv, EndOfProgram
    PROVE  IInv'
<1>1. TypeOK'
    BY OtherStepKeepsTypes DEF IInv
<1>2. UNCHANGED <<next, free, table, depth, regnum, rule>> /\ phase = "eval" /\ iter' = Start
      /\ result # "success"
    BY DEF EndOfProgram, entryVars, rowVars, IInv, Success
<1>3. Shape' /\ Content'
    BY <1>2, SameChains, SameContent DEF IInv
<1>4. Placed(iter)' /\ (Chained(depth) \ Ahead(iter))' = {}
    <2>1. Ahead(iter)' = Ahead(Start) /\ Chained(depth)' = Chained(depth)
        BY <1>2 DEF Ahead, Chained, From
    <2> QED
        BY <1>2, <2>1, AllAhead DEF Placed
<1>5. Saving'
    <2>1. CASE phase' = "save"
        <3>1. initial' = <<>>
            BY <2>1 DEF EndOfProgram
        <3>2. initial' = [r \in DOMAIN initial' |-> initial'[r]] /\ DOMAIN initial' = {}
            BY <3>1
        <3> QED
            BY <1>4, <3>2 DEF Saving
    <2> QED
        BY <2>1 DEF Saving
<1>6. Applying' /\ Removal'
    BY <1>4 DEF Applying, Removal, EndOfProgram
<1>7. Success'
    BY <1>2 DEF EndOfProgram, Success
<1> QED
    BY <1>1, <1>3, <1>5, <1>6, <1>7 DEF IInv

LEMMA QuietStepKeepsInv ==
    ASSUME IInv, Fails \/ Skip \/ UNCHANGED vars \/ \E a \in AddressRules : DefineAddress(a)
    PROVE  IInv'
<1>1. TypeOK'
    BY OtherStepKeepsTypes DEF IInv
<1>2. UNCHANGED <<next, free, table, depth, regnum, rule>>
    BY DEF Fails, Stop, Skip, vars, DefineAddress, Continue, entryVars, rowVars
<1>3. Shape' /\ Content'
    BY <1>2, SameChains, SameContent DEF IInv
<1>4. CASE Fails
    BY <1>1, <1>3, <1>4 DEF IInv, Fails, Stop, Removal, Saving, Applying, Success
<1>5. CASE Skip \/ \E a \in AddressRules : DefineAddress(a)
    <2>1. phase = "eval" /\ phase' = "eval" /\ result' = result
        BY <1>5 DEF Skip, DefineAddress, Opcode, Continue
    <2> QED
        BY <1>1, <1>3, <2>1, StillEvaluating DEF IInv
<1>6. CASE UNCHANGED vars
    <2>1. UNCHANGED <<remove, iter, initial, frame, phase, result>>
        BY <1>6 DEF vars
    <2>2. Removal'
        BY <1>2, <2>1 DEF IInv, Removal, From, Bucket
    <2>3. Saving' /\ Applying'
        BY <1>2, <2>1 DEF IInv, Saving, Applying, Placed, Ahead, Chained, From
    <2>4. Success'
        BY <1>2, <2>1 DEF IInv, Success, FrameIsComplete, RulesOf, Chained, From
    <2> QED
        BY <1>1, <1>3, <2>2, <2>3, <2>4 DEF IInv
<1> QED
    BY <1>4, <1>5, <1>6

LEMMA InvPreserved == IInv /\ [Next]_vars => IInv'
<1> SUFFICES ASSUME IInv, [Next]_vars
             PROVE  IInv'
    OBVIOUS
<1>1. \/ SaveInitial \/ EndOfProgram \/ Fails \/ Skip \/ UNCHANGED vars
      \/ \E a \in AddressRules : DefineAddress(a)
      \/ \E r \in Registers, v \in Rules : Sets(r, v)
      \/ \E x \in Registers \cup {0} : StartsRemoval(x)
      \/ Pushes \/ Pops \/ RemoveStep \/ ApplyRule \/ ApplyEnds
    BY StepForms DEF IInv
<1> QED
    BY <1>1, SetsKeepsInv, StartsRemovalKeepsInv, RemoveStepKeepsInv, PushesKeepsInv,
       PopsKeepsInv,
       SaveKeepsInv, ApplyKeepsInv, EndOfProgramKeepsInv, QuietStepKeepsInv

LEMMA Invariance == Spec => []IInv
BY InvInit, InvPreserved, PTL DEF Spec

----------------------------------------------------------------------------
(* What the invariant says about the properties.                           *)

LEMMA LevelsApart ==
    ASSUME Shape, NEW l \in 0 .. depth
    PROVE  /\ From(free) \cap Chained(l) = {}
           /\ \A m \in 0 .. depth : m # l => Chained(l) \cap Chained(m) = {}
BY DEF Shape, Chained, BucketNos

LEMMA TableSound == IInv => TableIsSound
<1> SUFFICES ASSUME IInv
             PROVE  TableIsSound
    OBVIOUS
<1>1. next \in LinkMaps /\ 0 .. depth \subseteq Levels
      /\ \A l \in Levels, b \in BucketNos : table[l][b] \in OrNil
    BY Basics DEF IInv
<1>2. ASSUME NEW l \in 0 .. depth
      PROVE  /\ \A i \in Chained(l) : next[i] = Nil \/ i \notin From(next[i])
             /\ \A b \in 0 .. Buckets - 1 : \A i \in From(table[l][b]) : Bucket(regnum[i]) = b
             /\ \A i, j \in Chained(l) : regnum[i] = regnum[j] => i = j
             /\ \A m \in 0 .. depth \ {l} : Chained(l) \cap Chained(m) = {}
    <2>1. ASSUME NEW i \in Chained(l)
          PROVE  i \notin From(next[i])
        <3>1. PICK b \in BucketNos : i \in From(table[l][b])
            BY DEF Chained, BucketNos
        <3>2. Ends(next, table[l][b]) /\ table[l][b] \in OrNil
            BY <1>1 DEF IInv, Shape
        <3>3. i \in Entries /\ Ends(next, i)
            BY <1>1, <3>1, <3>2, AlongStart, EndsEverywhere DEF From
        <3> QED
            BY <1>1, <3>3, NoCycle DEF From
    <2>2. \A b \in 0 .. Buckets - 1 : \A i \in From(table[l][b]) : Bucket(regnum[i]) = b
        BY DEF IInv, Content, BucketNos
    <2>3. \A i, j \in Chained(l) : regnum[i] = regnum[j] => i = j
        BY OneRule DEF IInv
    <2>4. \A m \in 0 .. depth \ {l} : Chained(l) \cap Chained(m) = {}
        BY LevelsApart DEF IInv
    <2> QED
        BY <2>1, <2>2, <2>3, <2>4
<1>3. ChainsAreSound
    BY <1>2 DEF ChainsAreSound
<1>4. FreeEntriesAreUnused
    BY LevelsApart DEF IInv, FreeEntriesAreUnused
<1>5. FrameIsComplete
    BY DEF IInv, Success, FrameIsComplete
<1> QED
    BY <1>3, <1>4, <1>5 DEF IInv, TableIsSound

\* The row that the entries C hold.
Keys(C, rg) == {rg[i] : i \in C}
TheRules(C, rg, ru) == [r \in Keys(C, rg) |-> ru[CHOOSE i \in C : rg[i] = r]]

LEMMA TheRulesAt ==
    ASSUME NEW C, NEW rg, NEW ru, \A i, j \in C : rg[i] = rg[j] => i = j
    PROVE  /\ DOMAIN TheRules(C, rg, ru) = Keys(C, rg)
           /\ \A i \in C : TheRules(C, rg, ru)[rg[i]] = ru[i]
<1>1. ASSUME NEW i \in C
      PROVE  (CHOOSE j \in C : rg[j] = rg[i]) = i
    BY <1>1
<1> QED
    BY <1>1 DEF TheRules, Keys

IsFunction(f) == f = [r \in DOMAIN f |-> f[r]]

LEMMA TheRulesAre ==
    ASSUME NEW C, NEW rg, NEW ru, \A i, j \in C : rg[i] = rg[j] => i = j,
           NEW f, IsFunction(f), DOMAIN f = Keys(C, rg),
           \A i \in C : f[rg[i]] = ru[i]
    PROVE  TheRules(C, rg, ru) = f
<1> DEFINE g == TheRules(C, rg, ru)
<1>0. ASSUME NEW i \in C
      PROVE  g[rg[i]] = ru[i]
    BY TheRulesAt
<1>1. g = [r \in DOMAIN f |-> g[r]]
    BY DEF TheRules
<1>2. ASSUME NEW r \in DOMAIN f
      PROVE  g[r] = f[r]
    <2>1. PICK i \in C : r = rg[i]
        BY DEF Keys
    <2> QED
        BY <1>0, <2>1
<1> HIDE DEF g
<1>3. [r \in DOMAIN f |-> g[r]] = [r \in DOMAIN f |-> f[r]]
    BY <1>2
<1> QED
    BY <1>1, <1>3 DEF g, IsFunction

LEMMA SavedRow ==
    ASSUME IInv, SaveInitial, phase' = "eval"
    PROVE  initial' = RulesOf(depth)
<1>1. phase = "save" /\ iter' = Advanced(iter) /\ Saving /\ depth \in 0 .. depth
    BY Basics DEF SaveInitial, IInv
<1>2. iter'.entry = Nil /\ initial' = initial
    BY <1>1 DEF SaveInitial
<1>3. Ahead(iter) = {}
    <2>1. iter \in Iterators /\ Placed(iter) /\ TypeOK
        BY <1>1 DEF IInv, TypeOK, Iterators, Saving
    <2> QED
        BY <1>1, <1>2, <2>1, AdvanceFacts
<1>4. \A i, j \in Chained(depth) : regnum[i] = regnum[j] => i = j
    BY <1>1, OneRule DEF IInv
<1>5. initial = [r \in DOMAIN initial |-> initial[r]] /\ DOMAIN initial = Keys(Chained(depth), regnum)
    BY <1>1, <1>3 DEF Saving, Keys
<1>6. \A i \in Chained(depth) : initial[regnum[i]] = rule[i]
    BY <1>1, <1>4, <1>5 DEF Saving, Keys
<1>7. TheRules(Chained(depth), regnum, rule) = initial
    <2>1. IsFunction(initial)
        BY <1>5 DEF IsFunction
    <2> QED
        BY <1>4, <1>5, <1>6, <2>1, TheRulesAre
<1> QED
    BY <1>2, <1>7 DEF RulesOf, TheRules, Keys

LEMMA WalkSteps ==
    ASSUME IInv, [Next]_vars
    PROVE  [InitialIsTheRow /\ RemovedEntryIsGone]_vars
<1>1. ASSUME phase = "save", phase' = "eval"
      PROVE  initial' = RulesOf(depth)
    <2>1. SaveInitial
        <3>1. ~UNCHANGED vars
            BY <1>1 DEF vars
        <3> QED
            BY <1>1, <3>1, StepForms DEF IInv, EndOfProgram, Fails, Skip, Opcode,
                DefineAddress, Sets,
                StartsRemoval, Pushes, Pops, RemoveStep, ApplyRule, ApplyEnds
    <2> QED
        BY <1>1, <2>1, SavedRow
<1>2. ASSUME phase = "remove", phase' = "eval"
      PROVE  remove.reg \notin DOMAIN RulesOf(depth)
    <2>1. RemoveStep
        <3>1. ~UNCHANGED vars
            BY <1>2 DEF vars
        <3> QED
            BY <1>2, <3>1, StepForms DEF IInv, EndOfProgram, Fails, Skip, Opcode,
                DefineAddress, Sets,
                StartsRemoval, Pushes, Pops, SaveInitial, ApplyRule, ApplyEnds
    <2>2. remove.entry = Nil /\ Removal /\ depth \in 0 .. depth
        BY <1>2, <2>1, Basics DEF RemoveStep, IInv
    <2>3. \A i \in From(table[depth][Bucket(remove.reg)]) : regnum[i] # remove.reg
        BY <1>2, <2>2, AlongNull DEF Removal, From
    <2>4. ASSUME NEW i \in Chained(depth), regnum[i] = remove.reg
          PROVE  FALSE
        <3>1. PICK b \in BucketNos : i \in From(table[depth][b])
            BY DEF Chained, BucketNos
        <3>2. b = Bucket(remove.reg)
            BY <2>2, <2>4, <3>1 DEF IInv, Content
        <3> QED
            BY <2>3, <2>4, <3>1, <3>2
    <2> QED
        BY <2>4 DEF RulesOf
<1> QED
    BY <1>1, <1>2 DEF InitialIsTheRow, RemovedEntryIsGone

----------------------------------------------------------------------------
(* The refinement: the levels are a stack of rows.                         *)

RowAt(l) == [rules |-> RulesOf(l), address |-> address[l]]
Rows == [l \in 1 .. depth + 1 |-> RowAt(l - 1)]

\* Changing the last row of a sequence.
LEMMA PutLast ==
    ASSUME NEW n \in Nat, NEW S, NEW s \in [1 .. n + 1 -> S], NEW t \in [1 .. n + 1 -> S],
           \A i \in 1 .. n : t[i] = s[i]
    PROVE  t = Append(R!Front(s), t[n + 1]) /\ R!Last(s) = s[n + 1]
<1>1. s \in Seq(S) /\ Len(s) = n + 1
    OBVIOUS
<1>2. R!Front(s) \in Seq(S) /\ Len(R!Front(s)) = n /\ \A i \in 1 .. n : R!Front(s)[i] = s[i]
    BY <1>1 DEF R!Front
<1>3. t \in Seq(S) /\ Len(t) = n + 1
    OBVIOUS
<1> DEFINE F == R!Front(s)
           u == Append(F, t[n + 1])
<1>4. u \in Seq(S) /\ Len(u) = n + 1 /\ u[n + 1] = t[n + 1] /\ \A i \in 1 .. n : u[i] = s[i]
    <2> HIDE DEF F
    <2>1. F \in Seq(S) /\ Len(F) = n /\ \A i \in 1 .. n : F[i] = s[i]
        BY <1>2 DEF F
    <2> QED
        BY <2>1
<1>5. t = u
    <2> HIDE DEF u
    <2>1. \A i \in 1 .. n + 1 : t[i] = u[i]
        BY <1>4
    <2> QED
        BY <1>3, <1>4, <2>1
<1> QED
    BY <1>1, <1>5 DEF R!Last

LEMMA SameRows ==
    ASSUME UNCHANGED <<next, table, regnum, rule, address, depth>>
    PROVE  Rows' = Rows
BY DEF Rows, RowAt, RulesOf, Chained, From

LEMMA RowsInit == Init => R!Init
<1> SUFFICES ASSUME Init
             PROVE  R!Init
    OBVIOUS
<1>1. depth = 0 /\ address[0] = "undefined" /\ \A b \in BucketNos : From(table[0][b]) = {}
    BY AlongNull, CFAAssumption DEF Init, From, Levels, BucketNos
<1>2. Chained(0) = {}
    BY <1>1 DEF Chained, BucketNos
<1>3. RulesOf(0) = <<>>
    BY <1>2 DEF RulesOf
<1>4. [l \in 1 .. depth + 1 |-> [rules |-> RulesOf(l - 1), address |-> address[l - 1]]] = <<R!EmptyRow>>
    BY <1>1, <1>3 DEF R!EmptyRow
<1> QED
    BY <1>4 DEF R!Init

\* The entries of a level and its row, before and after a step.
AllOf(nx, tb, l) == UNION {Along(nx, tb[l][b]) : b \in BucketNos}
Before(l) == TheRules(AllOf(next, table, l), regnum, rule)
After(l) == TheRules(AllOf(next', table', l), regnum', rule')

LEMMA RowsBefore ==
    /\ Rows = [l \in 1 .. depth + 1 |-> [rules |-> Before(l - 1), address |-> address[l - 1]]]
    /\ Rows' = [l \in 1 .. depth' + 1 |-> [rules |-> After(l - 1), address |-> address'[l - 1]]]
BY DEF Rows, RowAt, RulesOf, TheRules, Keys, Chained, From, Before, After, AllOf, BucketNos

LEMMA AllOfIsChained ==
    ASSUME NEW l
    PROVE  AllOf(next, table, l) = Chained(l)
BY DEF AllOf, Chained, From, BucketNos

\* A step that changes the top row only.
LEMMA TopRowChanges ==
    ASSUME TypeOK, depth' = depth,
           \A l \in 0 .. depth - 1 : After(l) = Before(l) /\ address'[l] = address[l]
    PROVE  /\ Rows' = Append(R!Front(Rows), [rules |-> After(depth), address |-> address'[depth]])
           /\ R!Last(Rows) = [rules |-> Before(depth), address |-> address[depth]]
<1> DEFINE s == Rows
           t == Rows'
           S == {s[i] : i \in 1 .. depth + 1} \cup {t[i] : i \in 1 .. depth + 1}
<1>1. depth \in Nat
    BY DEF TypeOK, Levels
<1>2. /\ s \in [1 .. depth + 1 -> S] /\ t \in [1 .. depth + 1 -> S]
      /\ s[depth + 1] = [rules |-> Before(depth), address |-> address[depth]]
      /\ t[depth + 1] = [rules |-> After(depth), address |-> address'[depth]]
    BY <1>1, RowsBefore
<1>3. \A i \in 1 .. depth : t[i] = s[i]
    <2>1. ASSUME NEW i \in 1 .. depth
          PROVE  t[i] = s[i]
        <3>1. i - 1 \in 0 .. depth - 1 /\ i \in 1 .. depth + 1
            BY <1>1
        <3>2. /\ s[i] = [rules |-> Before(i - 1), address |-> address[i - 1]]
              /\ t[i] = [rules |-> After(i - 1), address |-> address'[i - 1]]
            BY <3>1, RowsBefore
        <3> QED
            BY <3>1, <3>2
    <2> QED
        BY <2>1
<1> HIDE DEF s, t, S
<1>4. t = Append(R!Front(s), t[depth + 1]) /\ R!Last(s) = s[depth + 1]
    BY <1>1, <1>2, <1>3, PutLast
<1> QED
    BY <1>2, <1>4 DEF s, t

\* Where the entries of a level and what they hold stay, so does its row.
LEMMA RowStays ==
    ASSUME Content, NEW l \in 0 .. depth, AllOf(next', table', l) = Chained(l),
           \A i \in Chained(l) : regnum'[i] = regnum[i] /\ rule'[i] = rule[i]
    PROVE  After(l) = Before(l)
<1> DEFINE f == Before(l)
           C == Chained(l)
<1>1. \A i, j \in C : regnum[i] = regnum[j] => i = j
    BY OneRule
<1>2. f = TheRules(C, regnum, rule)
    BY AllOfIsChained DEF Before
<1>3. IsFunction(f)
    BY <1>2 DEF IsFunction, TheRules
<1>4. DOMAIN f = Keys(C, regnum) /\ \A i \in C : f[regnum[i]] = rule[i]
    BY <1>1, <1>2, TheRulesAt
<1> HIDE DEF f, C
<1>5. Keys(C, regnum) = Keys(C, regnum') /\ \A i, j \in C : regnum'[i] = regnum'[j] => i = j
    BY <1>1 DEF C, Keys
<1>6. DOMAIN f = Keys(C, regnum') /\ \A i \in C : f[regnum'[i]] = rule'[i]
    BY <1>4, <1>5 DEF C
<1>7. TheRules(C, regnum', rule') = f
    BY <1>3, <1>5, <1>6, TheRulesAre
<1> QED
    BY <1>7 DEF After, f, C

LEMMA OtherLevels ==
    ASSUME TypeOK, Shape, TypeOK', NEW b0 \in BucketNos, WorksOn(b0), NEW l \in 0 .. depth - 1
    PROVE  AllOf(next', table', l) = Chained(l) /\ l \in 0 .. depth /\ l # depth
<1>1. l \in 0 .. depth /\ l # depth
    BY DEF TypeOK, Levels
<1>2. \A b \in BucketNos : Along(next', table'[l][b]) = From(table[l][b])
    BY <1>1, KeptChains
<1> QED
    BY <1>1, <1>2 DEF AllOf, Chained, BucketNos

LEMMA ThisLevel ==
    ASSUME TypeOK, Shape, TypeOK', NEW b0 \in BucketNos, WorksOn(b0)
    PROVE  \A i : /\ i \in AllOf(next', table', depth) <=>
                        \/ i \in Along(next', table'[depth][b0])
                        \/ \E b \in BucketNos : b # b0 /\ i \in From(table[depth][b])
                  /\ i \in Chained(depth) <=>
                        \/ i \in From(table[depth][b0])
                        \/ \E b \in BucketNos : b # b0 /\ i \in From(table[depth][b])
<1>1. \A b \in BucketNos : b # b0 => Along(next', table'[depth][b]) = From(table[depth][b])
    BY KeptChains, Basics
<1>2. AllOf(next', table', depth) = UNION {Along(next', table'[depth][b]) : b \in BucketNos}
      /\ Chained(depth) = UNION {From(table[depth][b]) : b \in BucketNos}
    BY DEF AllOf, Chained, BucketNos
<1> QED
    BY <1>1, <1>2

LEMMA OneRuleHere == IInv => \A i, j \in Chained(depth) : regnum[i] = regnum[j] => i = j
BY OneRule, Basics DEF IInv

LEMMA SetsRow ==
    ASSUME IInv, NEW r \in Registers, NEW v \in Rules, Sets(r, v)
    PROVE  /\ After(depth) = [s \in DOMAIN Before(depth) \cup {r} |-> IF s = r THEN v ELSE Before(depth)[s]]
           /\ \A l \in 0 .. depth - 1 : After(l) = Before(l)
<1> DEFINE b0 == Bucket(r)
           h == table[depth][b0]
           C == Chained(depth)
           D == AllOf(next', table', depth)
           g == Before(depth)
           f == [s \in DOMAIN g \cup {r} |-> IF s = r THEN v ELSE g[s]]
<1>1. /\ TypeOK /\ Shape /\ Content /\ IInv' /\ depth' = depth
      /\ b0 \in BucketNos /\ depth \in 0 .. depth
    BY SetsKeepsInv, BucketType, Basics DEF IInv, Sets
<1>2. \A i, j \in D : regnum'[i] = regnum'[j] => i = j
    <2>1. \A i, j \in Chained(depth)' : regnum'[i] = regnum'[j] => i = j
        <3>2. (IInv => \A i, j \in Chained(depth) : regnum[i] = regnum[j] => i = j)'
            BY OneRuleHere, PTL
        <3> QED
            BY <1>1, <3>2
    <2>2. D = Chained(depth)'
        BY <1>1 DEF AllOf, Chained, From, BucketNos
    <2> QED
        BY <2>1, <2>2
<1>3. /\ \A i, j \in C : regnum[i] = regnum[j] => i = j
      /\ g = TheRules(C, regnum, rule)
    BY <1>1, OneRule, AllOfIsChained DEF Before
<1>4. DOMAIN g = Keys(C, regnum) /\ \A i \in C : g[regnum[i]] = rule[i]
    BY <1>3, TheRulesAt
<1>5. /\ IsFunction(f) /\ DOMAIN f = Keys(C, regnum) \cup {r} /\ f[r] = v
      /\ \A i \in C : regnum[i] # r => f[regnum[i]] = rule[i]
    <2>1. \A i \in C : regnum[i] \in DOMAIN g
        BY <1>4 DEF Keys
    <2> HIDE DEF g
    <2>2. DOMAIN f = DOMAIN g \cup {r} /\ \A s \in DOMAIN g \cup {r} : f[s] = IF s = r THEN v ELSE g[s]
        OBVIOUS
    <2>3. IsFunction(f)
        BY DEF IsFunction
    <2> HIDE DEF f
    <2> QED
        BY <1>4, <2>1, <2>2, <2>3
<1> HIDE DEF f, g
<1>6. CASE Find(r) # {}
    <2> DEFINE z == CHOOSE i \in Find(r) : TRUE
    <2>1. z \in Find(r)
        BY <1>6
    <2>2. rule' = [rule EXCEPT ![z] = v] /\ UNCHANGED <<regnum, next, free, table>>
        BY <1>6 DEF Sets, SetRegister
    <2> HIDE DEF z
    <2>3. z \in C /\ regnum[z] = r /\ z \in Entries
        BY <1>1, <2>1, AlongStart, VisitedIsChained DEF Find, From
    <2>4. rule'[z] = v /\ \A i \in Entries : i # z => rule'[i] = rule[i]
        BY <1>1, <2>2, <2>3 DEF TypeOK
    <2>5. \A l : AllOf(next', table', l) = Chained(l) /\ Chained(l) \subseteq Entries
        BY <2>2, AlongStart DEF AllOf, Chained, From, BucketNos
    <2>6. After(depth) = f
        <3>1. D = C
            BY <2>5
        <3>2. DOMAIN f = Keys(C, regnum')
            BY <1>5, <2>2, <2>3 DEF Keys
        <3>3. \A i \in C : f[regnum'[i]] = rule'[i]
            BY <1>3, <1>5, <2>2, <2>3, <2>4, <2>5
        <3> HIDE DEF C, D
        <3>4. TheRules(D, regnum', rule') = f
            BY <1>2, <1>5, <3>1, <3>2, <3>3, TheRulesAre
        <3> QED
            BY <3>4 DEF After, D
    <2>7. ASSUME NEW l \in 0 .. depth - 1
          PROVE  After(l) = Before(l)
        <3>1. l \in 0 .. depth /\ l # depth
            BY <1>1 DEF TypeOK, Levels
        <3>2. z \notin Chained(l)
            BY <1>1, <2>3, <3>1, LevelsApart
        <3> QED
            BY <1>1, <2>2, <2>4, <2>5, <3>1, <3>2, RowStays
    <2> QED
        BY <2>6, <2>7 DEF f, g
<1>7. CASE Find(r) = {}
    <2>1. Allocate(r, v)
        BY <1>7 DEF Sets, SetRegister
    <2>2. /\ WorksOn(b0) /\ free \in Entries /\ free \in From(free)
          /\ Along(next', table'[depth][b0]) = From(h) \cup {free}
        BY <1>1, <2>1, AllocateFacts
    <2>3. /\ regnum'[free] = r /\ rule'[free] = v
          /\ \A i \in Entries : i # free => regnum'[i] = regnum[i] /\ rule'[i] = rule[i]
        BY <1>1, <2>1, <2>2 DEF Allocate, TypeOK
    <2>4. \A l \in 0 .. depth : free \notin Chained(l) /\ Chained(l) \subseteq Entries
        BY <1>1, <2>2, LevelsApart, AlongStart DEF Chained, From
    <2>5. D = C \cup {free}
        BY <1>1, <2>2, ThisLevel DEF IInv
    <2>6. \A i \in C : regnum[i] # r
        <3>1. ASSUME NEW i \in C, regnum[i] = r
              PROVE  FALSE
            <4>1. PICK b \in BucketNos : i \in From(table[depth][b])
                BY DEF Chained, BucketNos
            <4>2. b = b0
                BY <1>1, <3>1, <4>1 DEF Content
            <4> QED
                BY <1>7, <3>1, <4>1, <4>2 DEF Find
        <3> QED
            BY <3>1
    <2>7. \A i \in C : regnum'[i] = regnum[i] /\ rule'[i] = rule[i]
        BY <1>1, <2>3, <2>4
    <2>8. After(depth) = f
        <3> HIDE DEF C, D
        <3>1. Keys(D, regnum') = Keys(C, regnum) \cup {r}
            BY <2>3, <2>5, <2>7 DEF Keys
        <3>2. \A i \in D : f[regnum'[i]] = rule'[i]
            BY <1>5, <2>3, <2>5, <2>6, <2>7
        <3>3. TheRules(D, regnum', rule') = f
            BY <1>2, <1>5, <3>1, <3>2, TheRulesAre
        <3> QED
            BY <3>3 DEF After, D
    <2>9. ASSUME NEW l \in 0 .. depth - 1
          PROVE  After(l) = Before(l)
        <3>1. l \in 0 .. depth /\ AllOf(next', table', l) = Chained(l)
            BY <1>1, <2>2, OtherLevels DEF IInv
        <3> QED
            BY <1>1, <2>3, <2>4, <3>1, RowStays
    <2> QED
        BY <2>8, <2>9 DEF f, g
<1> QED
    BY <1>6, <1>7

\* An entry of the chain that is removed takes its register's rule with it; one of the free list
\* changes no row.
LEMMA RemovesRow ==
    ASSUME IInv, RemoveStep
    PROVE  \/ Rows' = Rows
           \/ /\ remove.reg \in Registers /\ depth' = depth /\ address' = address
              /\ After(depth) = [s \in DOMAIN Before(depth) \ {remove.reg} |-> Before(depth)[s]]
              /\ \A l \in 0 .. depth - 1 : After(l) = Before(l)
<1> DEFINE e == remove.entry
           x == remove.reg
           b0 == Bucket(x)
           h == table[depth][b0]
           C == Chained(depth)
           D == AllOf(next', table', depth)
           g == Before(depth)
           f == [s \in DOMAIN g \ {x} |-> g[s]]
<1>1. UNCHANGED <<regnum, rule, address, depth>>
    BY DEF RemoveStep, entryVars
<1>2. CASE e = Nil \/ regnum[e] # x
    <2>1. UNCHANGED <<next, table>>
        BY <1>2 DEF RemoveStep, entryVars
    <2> QED
        BY <1>1, <2>1, SameRows
<1>3. CASE e # Nil /\ regnum[e] = x
    <2>1. /\ TypeOK /\ Shape /\ Content /\ Removal /\ TypeOK' /\ depth \in 0 .. depth /\ depth \in Nat
        <3>1. TypeOK /\ Shape /\ Content /\ Removal
            BY DEF IInv
        <3>2. depth \in Nat
            BY <3>1 DEF TypeOK, Levels
        <3> QED
            BY <3>1, <3>2, RemoveStepKeepsTypes, Basics
    <2>2. /\ b0 \in BucketNos /\ WorksOn(b0) /\ e \in Entries
          /\ \/ e \in From(h) /\ Along(next', table'[depth][b0]) = From(h) \ {e}
             \/ Along(next', table'[depth][b0]) = From(h)
        BY <1>3, <2>1, RemoveFacts
    <2>3. ASSUME NEW l \in 0 .. depth - 1
          PROVE  After(l) = Before(l)
        BY <1>1, <2>1, <2>2, <2>3, OtherLevels, RowStays
    <2>4. CASE Along(next', table'[depth][b0]) = From(h)
        <3>1. D = C
            BY <2>1, <2>2, <2>4, ThisLevel
        <3>2. After(depth) = Before(depth)
            BY <1>1, <2>1, <3>1, RowStays
        <3>3. \A l \in 1 .. depth + 1 : After(l - 1) = Before(l - 1)
            <4>1. ASSUME NEW l \in 1 .. depth + 1
                  PROVE  After(l - 1) = Before(l - 1)
                <5>1. l - 1 \in 0 .. depth - 1 \/ l - 1 = depth
                    BY <2>1
                <5> QED
                    BY <2>3, <3>2, <5>1
            <4> QED
                BY <4>1
        <3> QED
            BY <1>1, <3>3, RowsBefore
    <2>5. CASE e \in From(h) /\ Along(next', table'[depth][b0]) = From(h) \ {e}
        <3>1. x \in Registers /\ e \in C
            BY <1>3, <2>1, <2>2, <2>5, VisitedIsChained DEF Content
        <3>2. D = C \ {e}
            <4>1. \A b \in BucketNos : b # b0 => e \notin From(table[depth][b])
                BY <2>1, <2>2, <2>5 DEF Shape
            <4> QED
                BY <2>1, <2>2, <2>5, <4>1, ThisLevel
        <3>3. \A i, j \in C : regnum[i] = regnum[j] => i = j
            BY <2>1, OneRule
        <3>4. g = TheRules(C, regnum, rule)
            BY AllOfIsChained DEF Before
        <3>5. DOMAIN g = Keys(C, regnum) /\ \A i \in C : g[regnum[i]] = rule[i]
            BY <3>3, <3>4, TheRulesAt
        <3>6. After(depth) = f
            <4> HIDE DEF g, C, D, x, e
            <4>1. DOMAIN f = DOMAIN g \ {x} /\ IsFunction(f) /\ \A s \in DOMAIN g \ {x} : f[s] = g[s]
                BY DEF IsFunction
            <4> HIDE DEF f
            <4>2. DOMAIN f = Keys(D, regnum)
                BY <1>3, <3>1, <3>2, <3>3, <3>5, <4>1 DEF Keys
            <4>3. \A i \in D : f[regnum[i]] = rule[i]
                BY <1>3, <3>1, <3>2, <3>3, <3>5, <4>1, <4>2 DEF Keys
            <4>4. TheRules(D, regnum, rule) = f
                BY <3>2, <3>3, <4>1, <4>2, <4>3, TheRulesAre
            <4> QED
                BY <1>1, <4>4 DEF After, D
        <3> QED
            BY <1>1, <2>3, <3>1, <3>6 DEF f, g
    <2> QED
        BY <2>2, <2>4, <2>5
<1> QED
    BY <1>2, <1>3

LEMMA SetsIsSetRule ==
    ASSUME IInv, NEW r \in Registers, NEW v \in Rules, Sets(r, v)
    PROVE  R!SetRule(r, v)
<1> DEFINE g == Before(depth)
           f == [s \in DOMAIN g \cup {r} |-> IF s = r THEN v ELSE g[s]]
<1>1. After(depth) = f /\ \A l \in 0 .. depth - 1 : After(l) = Before(l)
    BY SetsRow
<1>2. depth' = depth /\ address' = address
    BY DEF Sets
<1>3. /\ Rows' = Append(R!Front(Rows), [rules |-> f, address |-> address[depth]])
      /\ R!Last(Rows) = [rules |-> g, address |-> address[depth]]
    <2>1. TypeOK
        BY DEF IInv
    <2> QED
        BY <1>1, <1>2, <2>1, TopRowChanges
<1> HIDE DEF g
<1>4. [R!Last(Rows) EXCEPT !.rules = [s \in DOMAIN @ \cup {r} |-> IF s = r THEN v ELSE @[s]]]
        = [rules |-> f, address |-> address[depth]]
    BY <1>3
<1> QED
    BY <1>3, <1>4 DEF R!SetRule, R!PutTop, R!Top, Rows, RowAt

LEMMA RemoveIsForget ==
    ASSUME IInv, RemoveStep
    PROVE  Rows' = Rows \/ \E r \in Registers : R!Forget(r)
<1> DEFINE r == remove.reg
           g == Before(depth)
           f == [s \in DOMAIN g \ {r} |-> g[s]]
<1> SUFFICES ASSUME r \in Registers, depth' = depth, address' = address, After(depth) = f,
                    \A l \in 0 .. depth - 1 : After(l) = Before(l)
             PROVE  R!Forget(r)
    BY RemovesRow
<1>1. /\ Rows' = Append(R!Front(Rows), [rules |-> f, address |-> address[depth]])
      /\ R!Last(Rows) = [rules |-> g, address |-> address[depth]]
    <2>1. TypeOK
        BY DEF IInv
    <2> QED
        BY <2>1, TopRowChanges
<1> HIDE DEF g
<1>2. [R!Last(Rows) EXCEPT !.rules = R!Restrict(@, DOMAIN @ \ {r})] = [rules |-> f, address |-> address[depth]]
    BY <1>1 DEF R!Restrict
<1> QED
    BY <1>1, <1>2 DEF R!Forget, R!PutTop, R!Top, Rows, RowAt

LEMMA DefineAddressIsSetAddress ==
    ASSUME IInv, NEW a \in AddressRules, DefineAddress(a)
    PROVE  R!SetAddress(a)
<1>1. /\ UNCHANGED <<next, table, regnum, rule, depth>> /\ address' = [address EXCEPT ![depth] = a]
      /\ TypeOK /\ depth \in Levels /\ address \in [Levels -> AddressRules]
    BY DEF DefineAddress, entryVars, IInv, TypeOK
<1>2. \A l : After(l) = Before(l)
    BY <1>1 DEF After, Before, AllOf
<1>3. \A l \in 0 .. depth - 1 : address'[l] = address[l]
    <2>1. depth \in Nat /\ depth < MaxStates /\ MaxStates \in Nat
        BY <1>1, CFAAssumption DEF Levels
    <2>2. \A l \in 0 .. depth - 1 : l \in Levels /\ l # depth
        BY <2>1 DEF Levels
    <2> QED
        BY <1>1, <2>2
<1>4. /\ Rows' = Append(R!Front(Rows), [rules |-> Before(depth), address |-> a])
      /\ R!Last(Rows) = [rules |-> Before(depth), address |-> address[depth]]
    BY <1>1, <1>2, <1>3, TopRowChanges
<1>5. [R!Last(Rows) EXCEPT !.address = a] = [rules |-> Before(depth), address |-> a]
    BY <1>4
<1> QED
    BY <1>4, <1>5 DEF R!SetAddress, R!PutTop, R!Top, Rows, RowAt

LEMMA PushesIsRemember ==
    ASSUME IInv, Pushes
    PROVE  R!Remember
<1>1. /\ TypeOK /\ depth' = depth + 1 /\ depth + 1 # MaxStates /\ UNCHANGED <<regnum, rule, next>>
      /\ table' = [table EXCEPT ![depth + 1] = [b \in BucketNos |-> Nil]]
      /\ address' = [address EXCEPT ![depth + 1] = "undefined"]
    BY DEF IInv, Pushes, BucketNos
<1>2. depth \in Nat /\ MaxStates \in Nat /\ depth + 1 < MaxStates /\ depth + 1 \in Levels
    BY <1>1, CFAAssumption DEF TypeOK, Levels
<1>3. ASSUME NEW l \in 0 .. depth
      PROVE  After(l) = Before(l) /\ address'[l] = address[l]
    <2>1. l \in Levels /\ l # depth + 1
        BY <1>2 DEF Levels
    <2>2. table'[l] = table[l] /\ address'[l] = address[l]
        BY <1>1, <2>1 DEF TypeOK
    <2> QED
        BY <1>1, <2>2 DEF After, Before, AllOf
<1>4. After(depth + 1) = <<>> /\ address'[depth + 1] = "undefined"
    <2> DEFINE E == [b \in BucketNos |-> Nil]
    <2>1. \A b \in BucketNos : E[b] = Nil
        OBVIOUS
    <2>2. table'[depth + 1] = E /\ address'[depth + 1] = "undefined"
        BY <1>1, <1>2 DEF TypeOK
    <2> HIDE DEF E
    <2>3. AllOf(next', table', depth + 1) = {}
        BY <2>1, <2>2, AlongNull DEF AllOf
    <2> QED
        BY <2>2, <2>3 DEF After, TheRules, Keys
<1> DEFINE s == Rows
           t == Rows'
           row == [rules |-> <<>>, address |-> "undefined"]
           S == {t[i] : i \in 1 .. depth + 2}
<1>5. /\ s = [l \in 1 .. depth + 1 |-> [rules |-> Before(l - 1), address |-> address[l - 1]]]
      /\ t = [l \in 1 .. depth + 2 |-> [rules |-> After(l - 1), address |-> address'[l - 1]]]
    <2>1. depth' + 1 = depth + 2
        BY <1>1, <1>2
    <2> QED
        BY <2>1, RowsBefore
<1>6. \A i \in 1 .. depth + 1 : t[i] = s[i]
    <2>1. ASSUME NEW i \in 1 .. depth + 1
          PROVE  t[i] = s[i]
        <3>1. i - 1 \in 0 .. depth /\ i \in 1 .. depth + 2
            BY <1>2
        <3> HIDE DEF s, t
        <3>2. /\ s[i] = [rules |-> Before(i - 1), address |-> address[i - 1]]
              /\ t[i] = [rules |-> After(i - 1), address |-> address'[i - 1]]
            BY <1>5, <3>1
        <3> QED
            BY <1>3, <3>1, <3>2
    <2> QED
        BY <2>1
<1>7. t[depth + 2] = row
    <2> HIDE DEF t
    <2>1. depth + 2 \in 1 .. depth + 2 /\ (depth + 2) - 1 = depth + 1
        BY <1>2
    <2> QED
        BY <1>4, <1>5, <2>1
<1>8. t = Append(s, row) /\ Len(s) = depth + 1
    <2> HIDE DEF s, t, row
    <2>1. s \in [1 .. depth + 1 -> S] /\ t \in [1 .. depth + 2 -> S] /\ row \in S
        <3>1. \A i \in 1 .. depth + 1 : i \in 1 .. depth + 2
            BY <1>2
        <3>2. depth + 2 \in 1 .. depth + 2
            BY <1>2
        <3>3. s = [i \in 1 .. depth + 1 |-> s[i]] /\ t = [i \in 1 .. depth + 2 |-> t[i]]
            BY <1>5
        <3> QED
            BY <1>6, <1>7, <3>1, <3>2, <3>3
    <2> HIDE DEF S
    <2>2. s \in Seq(S) /\ Len(s) = depth + 1 /\ t \in Seq(S) /\ Len(t) = depth + 2
        BY <1>2, <2>1
    <2> DEFINE u == Append(s, row)
    <2>3. u \in Seq(S) /\ Len(u) = depth + 2 /\ u[depth + 2] = row /\ \A i \in 1 .. depth + 1 : u[i] = s[i]
        BY <1>2, <2>1, <2>2
    <2> HIDE DEF u
    <2>4. \A i \in 1 .. depth + 2 : t[i] = u[i]
        BY <1>2, <1>6, <1>7, <2>3
    <2>5. t = u
        BY <2>2, <2>3, <2>4
    <2> QED
        BY <2>2, <2>5 DEF u
<1>9. Len(s) < MaxStates
    BY <1>2, <1>8
<1> HIDE DEF S
<1> QED
    BY <1>8, <1>9 DEF R!Remember, R!EmptyRow, Rows, RowAt

LEMMA PopsIsRestore ==
    ASSUME IInv, Pops
    PROVE  R!Restore
<1>1. TypeOK /\ depth' = depth - 1 /\ depth # 0 /\ UNCHANGED <<regnum, rule, next, table, address>>
    BY DEF IInv, Pops, entryVars
<1>2. depth \in Nat /\ depth > 0 /\ depth' + 1 = depth
    BY <1>1 DEF TypeOK, Levels
<1> DEFINE s == Rows
           t == Rows'
           S == {s[i] : i \in 1 .. depth + 1}
<1>3. /\ s = [l \in 1 .. depth + 1 |-> [rules |-> Before(l - 1), address |-> address[l - 1]]]
      /\ t = [l \in 1 .. depth |-> [rules |-> Before(l - 1), address |-> address[l - 1]]]
    <2>1. \A l : After(l) = Before(l)
        BY <1>1 DEF After, Before, AllOf
    <2> QED
        BY <1>1, <1>2, <2>1, RowsBefore
<1>4. s \in [1 .. depth + 1 -> S] /\ t = [i \in 1 .. depth |-> s[i]]
    BY <1>2, <1>3
<1> HIDE DEF s, t, S
<1>5. Len(s) = depth + 1 /\ s \in Seq(S)
    BY <1>2, <1>4
<1>6. R!Front(s) = [i \in 1 .. depth |-> s[i]]
    BY <1>2, <1>5 DEF R!Front
<1>7. Len(s) > 1 /\ t = R!Front(s)
    BY <1>2, <1>4, <1>5, <1>6
<1> QED
    BY <1>7 DEF R!Restore, Rows, RowAt, s, t

LEMMA RowsStep == IInv /\ [Next]_vars => [R!Next]_Rows
<1> SUFFICES ASSUME IInv, [Next]_vars
             PROVE  R!Next \/ Rows' = Rows
    OBVIOUS
<1>1. ASSUME SaveInitial \/ EndOfProgram \/ Fails \/ Skip \/ UNCHANGED vars \/ ApplyRule \/ ApplyEnds
      PROVE  Rows' = Rows
    <2>1. UNCHANGED <<next, table, regnum, rule, address, depth>>
        BY <1>1 DEF SaveInitial, EndOfProgram, Fails, Stop, Skip, vars, ApplyRule, ApplyEnds,
            Finish,
                    entryVars, rowVars
    <2> QED
        BY <2>1, SameRows
<1>2. ASSUME NEW x \in Registers \cup {0}, StartsRemoval(x)
      PROVE  Rows' = Rows
    <2>1. UNCHANGED <<next, table, regnum, rule, address, depth>>
        BY <1>2 DEF StartsRemoval, RemoveRegister, entryVars, rowVars
    <2> QED
        BY <2>1, SameRows
<1>3. \/ SaveInitial \/ EndOfProgram \/ Fails \/ Skip \/ UNCHANGED vars \/ ApplyRule \/ ApplyEnds
      \/ \E x \in Registers \cup {0} : StartsRemoval(x)
      \/ \E a \in AddressRules : R!SetAddress(a)
      \/ \E r \in Registers, v \in Rules : R!SetRule(r, v)
      \/ R!Remember \/ R!Restore
      \/ Rows' = Rows \/ \E r \in Registers : R!Forget(r)
    <2>1. TypeOK
        BY DEF IInv
    <2> QED
        BY <2>1, StepForms, DefineAddressIsSetAddress, SetsIsSetRule, PushesIsRemember,
           PopsIsRestore,
           RemoveIsForget
<1>4. \/ \E a \in AddressRules : R!SetAddress(a)
      \/ \E r \in Registers, v \in Rules : R!SetRule(r, v)
      \/ R!Remember \/ R!Restore
      \/ \E r \in Registers : R!Forget(r)
      => R!Next
    BY DEF R!Next
<1> QED
    BY <1>1, <1>2, <1>3, <1>4

----------------------------------------------------------------------------
\* The inductive invariant: which entries the chains, the free list, the iterator and
\* remove_register's loop can meet, for any programs of opcodes.
THEOREM RowsInvariant == Spec => []IInv
BY Invariance

\* A chain never runs into another's entries or into the free list, although all levels share one
\* pool, popped levels keep their entries and remove_register walks on into the free list; and a
\* frame that is made has every register the last row has a rule for.
THEOREM PoolIsDivided == Spec => []TableIsSound
BY Invariance, TableSound, PTL

\* The walk that saves the initial row misses no rule, and a register that is removed has none left
\* (dwarf_cfa_state_iterator::next, dwarf_cfa_state::remove_register).
THEOREM WalksMissNothing == Spec => WalksAreComplete
<1>1. IInv /\ [Next]_vars => [InitialIsTheRow /\ RemovedEntryIsGone]_vars
    BY WalkSteps
<1> QED
    BY <1>1, Invariance, PTL DEF Spec, WalksAreComplete

\* Hash chains and levels in a shared pool behave as a stack of functions from registers to rules.
THEOREM ChainsImplementRows == Spec => ImplementsRows
<1>1. [R!Next]_Rows => [R!Next]_([l \in 1 .. depth + 1 |-> [rules |-> RulesOf(l - 1), address |-> address[l - 1]]])
    BY DEF Rows, RowAt
<1> QED
    BY <1>1, RowsInit, RowsStep, Invariance, PTL DEF Spec, ImplementsRows, R!Spec
=============================================================================
