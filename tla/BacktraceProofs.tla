--------------------------- MODULE BacktraceProofs ---------------------------
(***************************************************************************)
(* Proofs about a report's backtraces: the walk of a stack, and the names  *)
(* that are looked up for the addresses it gives.                          *)
(*                                                                         *)
(* The walk, for any chain of calls and any stack: the search of the       *)
(* table, the encoding of the saved registers, the layout of a stack and   *)
(* what each reader makes of it, then the walk's invariants: a frame is    *)
(* that of a caller, with the registers it had, and none is missed.        *)
(*                                                                         *)
(* The lookup, for any images, classes, methods and symbols, any size of   *)
(* the class cache, and memory for it or not: what was looked up before    *)
(* changes no later lookup, so that the sizes that are announced are those *)
(* of what is written; and the name that is found is that of the last      *)
(* symbol or method before the pc.                                         *)
(***************************************************************************)
EXTENDS FrameWalker, SymbolLookup, FiniteSetTheorems, SequenceTheorems, WellFoundedInduction, TLAPS

----------------------------------------------------------------------------
(* Numbers and loops.                                                      *)

\* A set of numbers has a least one.
LEMMA LeastElement ==
    ASSUME NEW S \in SUBSET Nat, S # {}
    PROVE  \E n \in S : \A m \in S : n <= m
<1> DEFINE Less == StrictSubsetOrdering(Nat)
           T == {0..n : n \in S}
<1>1. IsWellFoundedOn(Less, FiniteSubsetsOf(Nat))
    BY FS_StrictSubsetOrderingWellFounded
<1>2. T \subseteq FiniteSubsetsOf(Nat)
    <2>1. \A n \in S : 0..n \in SUBSET Nat /\ IsFiniteSet(0..n)
        BY FS_Interval
    <2> QED
        BY <2>1 DEF FiniteSubsetsOf
<1>3. T # {}
    OBVIOUS
<1>4. PICK X \in T : \A Y \in T : <<Y, X>> \notin Less
    <2> HIDE DEF Less, T
    <2> QED BY <1>1, <1>2, <1>3, WFMin
<1>5. PICK n \in S : X = 0..n
    OBVIOUS
<1>6. ASSUME NEW m \in S, m < n
      PROVE  FALSE
    <2>1. 0..m \subseteq 0..n /\ 0..m # 0..n
        <3>1. n \in 0..n /\ n \notin 0..m
            BY <1>6
        <3> QED
            BY <1>6, <3>1
    <2>2. 0..m \in SUBSET Nat /\ 0..n \in SUBSET Nat
        OBVIOUS
    <2>3. <<0..m, 0..n>> \in Less
        BY <2>1, <2>2 DEF StrictSubsetOrdering
    <2> QED
        BY <1>4, <1>5, <2>3
<1> QED
    BY <1>6

\* A set that contains 0, and with each number up to n the next one, contains them all.
LEMMA SetInduction ==
    ASSUME NEW n \in Nat, NEW S, 0 \in S, \A m \in 1 .. n : m - 1 \in S => m \in S
    PROVE  0 .. n \subseteq S
<1> DEFINE Missing == (0 .. n) \ S
<1> SUFFICES ASSUME Missing # {} PROVE FALSE
    OBVIOUS
<1>1. PICK m \in Missing : \A l \in Missing : m <= l
    <2>1. Missing \in SUBSET Nat
        OBVIOUS
    <2> QED
        BY <2>1, LeastElement
<1>2. m \in 1 .. n /\ m - 1 \in 0 .. n /\ m - 1 \notin Missing
    BY <1>1
<1> QED
    BY <1>2

\* A loop of n rounds, the i-th of which turns x into g[i][x], has a result after each round.
Rounds(n, S) == [1 .. n -> [S -> S]]
IsLoop(f, n, S, b, g) ==
    /\ f \in [0 .. n -> S] /\ f[0] = b
    /\ \A i \in 1 .. n : f[i] = g[i][f[i - 1]]

LEMMA LoopHasResults ==
    ASSUME NEW n \in Nat, NEW S, NEW b \in S, NEW g \in Rounds(n, S)
    PROVE  \E f : IsLoop(f, n, S, b, g)
<1> USE DEF Rounds
<1> DEFINE Solves(f, m) == /\ f \in [0 .. m -> S] /\ f[0] = b
                           /\ \A i \in 1 .. m : f[i] = g[i][f[i - 1]]
           Solved == {m \in 0 .. n : \E f : Solves(f, m)}
<1>1. 0 \in Solved
    <2> DEFINE f == [i \in 0 .. 0 |-> b]
    <2>1. f \in [0 .. 0 -> S] /\ f[0] = b /\ 0 \in 0 .. n
        OBVIOUS
    <2>2. Solves(f, 0)
        <3> HIDE DEF f
        <3> QED
            BY <2>1
    <2> QED
        <3> HIDE DEF f, Solves
        <3> QED
            BY <2>1, <2>2
<1>2. ASSUME NEW m \in 1 .. n, m - 1 \in Solved
      PROVE  m \in Solved
    <2>1. PICK f : Solves(f, m - 1)
        BY <1>2
    <2> DEFINE h == [i \in 0 .. m |-> IF i = m THEN g[m][f[m - 1]] ELSE f[i]]
    <2>2. f[m - 1] \in S /\ m \in Nat
        BY <2>1
    <2>3. h \in [0 .. m -> S] /\ h[0] = b
        BY <2>1, <2>2
    <2>4. ASSUME NEW i \in 1 .. m PROVE h[i] = g[i][h[i - 1]]
        <3>1. i \in 0 .. m /\ i - 1 \in 0 .. m /\ i - 1 # m
            BY <2>2
        <3>2. CASE i = m
            BY <3>1, <3>2
        <3>3. CASE i # m
            <4>1. i \in 1 .. m - 1
                BY <3>3
            <4> QED
                BY <2>1, <3>1, <3>3, <4>1
        <3> QED
            BY <3>2, <3>3
    <2>5. Solves(h, m)
        <3> HIDE DEF h
        <3> QED
            BY <2>3, <2>4
    <2>6. m \in 0 .. n
        OBVIOUS
    <2> QED
        <3> HIDE DEF h, Solves
        <3> QED
            BY <2>5, <2>6
<1>3. n \in Solved
    <2> HIDE DEF Solved
    <2>1. 0 .. n \subseteq Solved
        BY <1>1, <1>2, SetInduction
    <2>2. n \in 0 .. n
        OBVIOUS
    <2> QED
        BY <2>1, <2>2
<1> QED
    BY <1>3 DEF IsLoop

\* The greatest of the numbers that are not greater than n.
LEMMA MaxFact ==
    ASSUME NEW n \in Nat, NEW S \in SUBSET (0 .. n), S # {}
    PROVE  Max(S) \in S /\ \A m \in S : m <= Max(S)
<1> DEFINE T == {n - m : m \in S}
<1>1. T \in SUBSET Nat /\ T # {}
    <2>1. \A m \in S : m \in 0 .. n /\ n - m \in Nat
        OBVIOUS
    <2> QED
        BY <2>1
<1>2. PICK d \in T : \A e \in T : d <= e
    BY <1>1, LeastElement
<1>3. PICK m \in S : d = n - m
    OBVIOUS
<1>4. \A l \in S : m >= l
    BY <1>2, <1>3
<1>5. \E x \in S : \A y \in S : x >= y
    BY <1>4
<1>6. Max(S) \in S /\ \A y \in S : Max(S) >= y
    BY <1>5 DEF Max
<1> QED
    BY <1>6

\* The greatest number, if there is one.
LEMMA MaxIs ==
    ASSUME NEW S \in SUBSET Nat, NEW m \in S, \A n \in S : n <= m
    PROVE  Max(S) = m
<1>1. \E x \in S : \A y \in S : x >= y
    OBVIOUS
<1>2. Max(S) \in S /\ \A y \in S : Max(S) >= y
    BY <1>1 DEF Max
<1>3. Max(S) \in Nat /\ m \in Nat
    BY <1>2
<1>4. Max(S) >= m /\ Max(S) <= m
    BY <1>2
<1> HIDE DEF Max
<1> QED
    BY <1>3, <1>4

----------------------------------------------------------------------------
(* The search of the table.                                                *)

Ordered(table) == \A i, j \in DOMAIN table : i < j => table[i] < table[j]
Before(table, pc) == {i \in DOMAIN table : table[i] <= pc}
Sought(table, pc) ==
    IF Before(table, pc) = {} THEN Len(table) ELSE Max(Before(table, pc)) - 1

SearchState == [min : Int, max : Int, over : BOOLEAN, found : Int]

\* After m turns: the answer, or a range of at most n - m entries.  The entries after it begin after
\* pc, and its first one does not, unless it is that of the table.
Narrowed(table, pc, m, s) ==
    /\ s \in SearchState
    /\ IF s.over THEN s.found = Sought(table, pc)
       ELSE /\ 0 <= s.min /\ s.min <= s.max /\ s.max < Len(table)
            /\ s.max - s.min < Len(table) - m
            /\ s.min > 0 => table[s.min + 1] <= pc
            /\ s.max + 1 < Len(table) => table[s.max + 2] > pc

LEMMA EntryIsSought ==
    ASSUME NEW table \in Seq(Int), Ordered(table), NEW pc \in Int, NEW m \in 0 .. Len(table) - 1,
           table[m + 1] <= pc, m + 1 < Len(table) => table[m + 2] > pc
    PROVE  Sought(table, pc) = m
<1> DEFINE B == Before(table, pc)
<1>1. m + 1 \in B /\ m \in Nat
    BY DEF Before
<1>2. ASSUME NEW i \in B
      PROVE  i <= m + 1
    <2> SUFFICES ASSUME i > m + 1 PROVE FALSE
        BY <1>1, <1>2 DEF Before
    <2>1. i \in 1 .. Len(table) /\ table[i] <= pc /\ m + 2 \in 1 .. Len(table) /\ table[m + 2] > pc
        BY DEF Before
    <2>2. table[m + 2] <= table[i] /\ table[i] \in Int /\ table[m + 2] \in Int
        <3>1. CASE i = m + 2
            BY <2>1, <3>1
        <3>2. CASE i # m + 2
            BY <2>1, <3>2 DEF Ordered
        <3> QED
            BY <3>1, <3>2
    <2> QED
        BY <2>1, <2>2
<1>3. Max(B) = m + 1
    <2>1. B \in SUBSET Nat
        BY DEF Before
    <2> HIDE DEF B
    <2> QED
        BY <1>1, <1>2, <2>1, MaxIs
<1> QED
    BY <1>1, <1>3 DEF Sought

LEMMA NoEntryIsSought ==
    ASSUME NEW table \in Seq(Int), Ordered(table), NEW pc \in Int, Len(table) > 0, table[1] > pc
    PROVE  Sought(table, pc) = Len(table)
<1>1. ASSUME NEW i \in DOMAIN table
      PROVE  table[i] > pc
    <2>1. CASE i = 1
        BY <2>1
    <2>2. CASE i # 1
        BY <2>2 DEF Ordered
    <2> QED
        BY <2>1, <2>2
<1>2. Before(table, pc) = {}
    <2>1. \A i \in DOMAIN table : table[i] \in Int
        OBVIOUS
    <2> QED
        BY <1>1, <2>1 DEF Before
<1> QED
    BY <1>2 DEF Sought

LEMMA MidPoint ==
    ASSUME NEW lo \in Nat, NEW hi \in Nat, lo <= hi, 2 * hi < Word
    PROVE  LET mid == ((lo + hi) % Word) \div 2 IN mid \in lo .. hi
<1>1. (lo + hi) % Word = lo + hi
    <2>1. Word \in Nat /\ lo + hi < Word /\ lo + hi >= 0
        BY CompactAssumption
    <2> QED
        BY <2>1
<1>2. (lo + hi) \div 2 \in lo .. hi
    OBVIOUS
<1> QED
    BY <1>1, <1>2

UpTo(s, x) == [s EXCEPT !.max = x]
From(s, x) == [s EXCEPT !.min = x]

LEMMA TurnNarrows ==
    ASSUME NEW table \in Seq(Int), Ordered(table), 2 * Len(table) <= Word, NEW pc \in Int,
           NEW m \in Nat, NEW s, Narrowed(table, pc, m, s)
    PROVE  Narrowed(table, pc, m + 1, Turn(table, pc, s))
<1>1. CASE s.over
    <2>1. Turn(table, pc, s) = s
        BY <1>1 DEF Turn
    <2> QED
        BY <1>1, <2>1 DEF Narrowed
<1>2. CASE ~s.over
    <2>1. PICK lo \in Int, hi \in Int : s.min = lo /\ s.max = hi
        BY DEF Narrowed, SearchState
    <2>2. s \in SearchState /\ s.over = FALSE
        BY <1>2 DEF Narrowed, SearchState
    <2>3. PICK n \in Nat : n = Len(table)
        OBVIOUS
    <2>4. /\ 0 <= lo /\ lo <= hi /\ hi < n /\ hi - lo < n - m
          /\ lo > 0 => table[lo + 1] <= pc
          /\ hi + 1 < n => table[hi + 2] > pc
        BY <1>2, <2>1, <2>3 DEF Narrowed
    <2> DEFINE Middle == ((lo + hi) % Word) \div 2
    <2>5. PICK mid \in Int : mid = Middle /\ lo <= mid /\ mid <= hi
        <3>1. lo \in Nat /\ hi \in Nat /\ 2 * hi < Word
            BY <2>3, <2>4, CompactAssumption
        <3>2. ((lo + hi) % Word) \div 2 \in lo .. hi
            BY <2>4, <3>1, MidPoint
        <3> QED
            BY <3>2
    <2>6. mid = Middle
        BY <2>5
    <2>7. Len(table) = n
        BY <2>3
    <2> HIDE DEF Middle
    <2>8. lo <= mid /\ mid <= hi /\ mid < n /\ 0 <= mid
        BY <2>4, <2>5
    <2>9. PICK x \in Int : x = table[mid + 1]
        BY <2>3, <2>4, <2>8
    <2> DEFINE Ended(e) == [s EXCEPT !.over = TRUE, !.found = e]
    <2>10. Turn(table, pc, s) =
              IF x = pc THEN Ended(mid)
              ELSE IF x > pc
                   THEN IF mid = 0 THEN Ended(n)
                        ELSE [s EXCEPT !.max = mid - 1]
              ELSE IF mid = hi THEN Ended(mid)
              ELSE IF mid + 1 >= n THEN Ended(Outside)
              ELSE IF table[(mid + 1) + 1] > pc THEN Ended(mid)
              ELSE [s EXCEPT !.min = mid + 1]
        <3>1. ~(hi < lo) /\ ~(mid >= n)
            BY <2>4, <2>8
        <3>5. ((s.min + s.max) % Word) \div 2 = mid
            BY <2>6, <2>1 DEF Middle
        <3> QED
            BY <2>1, <2>7, <2>2, <2>9, <3>1, <3>5 DEF Turn
    <2>11. ASSUME NEW e \in Int, e = Sought(table, pc), Turn(table, pc, s) = Ended(e)
          PROVE  Narrowed(table, pc, m + 1, Turn(table, pc, s))
        <3>1. /\ Ended(e) \in SearchState
              /\ Ended(e).over = TRUE /\ Ended(e).found = e
            BY <2>11, <2>2 DEF SearchState
        <3> QED
            BY <2>11, <3>1 DEF Narrowed
    <2> HIDE DEF Ended
    <2>12. ASSUME mid + 1 < n
          PROVE  /\ mid + 1 \in DOMAIN table /\ mid + 2 \in DOMAIN table
                 /\ table[mid + 2] \in Int /\ table[mid + 1] < table[mid + 2]
        <3>1. mid + 1 \in DOMAIN table /\ mid + 2 \in DOMAIN table /\ mid + 1 < mid + 2
            BY <2>3, <2>4, <2>8, <2>12
        <3> QED
            BY <3>1 DEF Ordered
    <2>13. ASSUME x <= pc, mid + 1 < n => table[mid + 2] > pc
          PROVE  Sought(table, pc) = mid
        <3>1. mid \in 0 .. Len(table) - 1
            BY <2>3, <2>4, <2>8
        <3> QED
            BY <2>3, <2>9, <2>13, <3>1, EntryIsSought
    <2>14. CASE x = pc
        <3>1. Sought(table, pc) = mid
            BY <2>9, <2>12, <2>13, <2>14
        <3>2. Turn(table, pc, s) = Ended(mid)
            BY <2>10, <2>14
        <3> QED
            BY <2>11, <3>1, <3>2
    <2>15. CASE x > pc /\ mid = 0
        <3>1. Sought(table, pc) = n
            BY <2>3, <2>4, <2>9, <2>15, NoEntryIsSought
        <3>2. Turn(table, pc, s) = Ended(n)
            BY <2>10, <2>15
        <3> QED
            BY <2>11, <3>1, <3>2
    <2>16. CASE x > pc /\ mid # 0
        <3>1. Turn(table, pc, s) = [s EXCEPT !.max = mid - 1]
            BY <2>10, <2>16
        <3>2. lo <= mid - 1
            <4> SUFFICES ASSUME lo = mid PROVE FALSE
                BY <2>8
            <4> QED
                BY <2>4, <2>9, <2>16
        <3>3. table[(mid - 1) + 2] > pc
            <4>1. (mid - 1) + 2 = mid + 1
                OBVIOUS
            <4> QED
                BY <2>9, <2>16, <4>1
        <3>4. mid - 1 < n /\ (mid - 1) - lo < n - (m + 1)
            BY <2>4, <2>8
        <3> QED
            <4> DEFINE u == UpTo(s, mid - 1)
            <4>1. u \in SearchState /\ u.over = FALSE /\ u.max = mid - 1 /\ u.min = lo
                <5>1. PICK y \in Int : y = mid - 1
                    OBVIOUS
                <5>2. /\ UpTo(s, y) \in SearchState /\ UpTo(s, y).over = FALSE
                      /\ UpTo(s, y).max = y /\ UpTo(s, y).min = lo
                    BY <2>1, <2>2 DEF SearchState, UpTo
                <5> QED
                    BY <5>1, <5>2, Zenon
            <4> HIDE DEF u
            <4> QED
                <5>1. Turn(table, pc, s) = u
                    BY <3>1 DEF u, UpTo
                <5>2. 0 <= u.min /\ u.min <= u.max /\ u.max < n /\ u.max - u.min < n - (m + 1)
                    BY <2>4, <2>8, <3>2, <3>4, <4>1
                <5>3. (u.min > 0 => table[u.min + 1] <= pc) /\ (u.max + 1 < n => table[u.max + 2] > pc)
                    BY <2>4, <3>3, <4>1
                <5> QED
                    BY <2>7, <4>1, <5>1, <5>2, <5>3 DEF Narrowed
    <2>17. CASE x < pc /\ (mid = hi \/ (mid + 1 < n /\ table[mid + 2] > pc))
        <3>1. mid + 1 < n => table[mid + 2] > pc
            BY <2>4, <2>17
        <3>2. Sought(table, pc) = mid
            BY <2>13, <2>17, <3>1
        <3>3. (mid + 1) + 1 = mid + 2
            OBVIOUS
        <3>4. Turn(table, pc, s) = Ended(mid)
            BY <2>10, <2>17, <3>3
        <3> QED
            BY <2>11, <3>2, <3>4
    <2>18. CASE x < pc /\ mid # hi /\ ~(table[mid + 2] > pc)
        <3>1. mid + 1 < n /\ mid + 1 <= hi
            BY <2>4, <2>8, <2>18
        <3>2. (mid + 1) + 1 = mid + 2
            OBVIOUS
        <3>3. Turn(table, pc, s) = [s EXCEPT !.min = mid + 1]
            BY <2>10, <2>18, <3>1, <3>2
        <3>4. table[(mid + 1) + 1] <= pc
            BY <2>12, <2>18, <3>1, <3>2
        <3>5. hi - (mid + 1) < n - (m + 1)
            BY <2>4, <2>8
        <3> QED
            <4> DEFINE u == From(s, mid + 1)
            <4>1. u \in SearchState /\ u.over = FALSE /\ u.max = hi /\ u.min = mid + 1
                <5>1. PICK y \in Int : y = mid + 1
                    OBVIOUS
                <5>2. /\ From(s, y) \in SearchState /\ From(s, y).over = FALSE
                      /\ From(s, y).max = hi /\ From(s, y).min = y
                    BY <2>1, <2>2 DEF SearchState, From
                <5> QED
                    BY <5>1, <5>2, Zenon
            <4> HIDE DEF u
            <4> QED
                <5>1. 0 <= u.min /\ u.min <= u.max /\ u.max < n /\ u.max - u.min < n - (m + 1)
                    BY <2>4, <2>8, <3>1, <3>5, <4>1
                <5>2. table[u.min + 1] <= pc /\ (u.max + 1 < n => table[u.max + 2] > pc)
                    BY <2>4, <3>4, <4>1
                <5>3. Turn(table, pc, s) = u
                    BY <3>3 DEF u, From
                <5> QED
                    BY <2>7, <4>1, <5>1, <5>2, <5>3 DEF Narrowed
    <2> QED
        BY <2>4, <2>8, <2>14, <2>15, <2>16, <2>17, <2>18
<1> QED
    BY <1>1, <1>2

\* The search is Len(table) + 1 turns, one after the other.
FirstRange(table) ==
    [min |-> 0, max |-> (Len(table) - 1) % Word, over |-> FALSE, found |-> Len(table)]

LEMMA SearchTurns ==
    ASSUME NEW table \in Seq(Int), NEW pc \in Int
    PROVE  \E T : /\ T[0] = FirstRange(table)
                  /\ \A i \in 1 .. Len(table) + 1 : T[i] = Turn(table, pc, T[i - 1])
                  /\ Search(table, pc) = T[Len(table) + 1].found
<1> DEFINE n == Len(table)
           first == [min |-> 0, max |-> (n - 1) % Word, over |-> FALSE, found |-> n]
           g == [i \in 1 .. n + 1 |-> [s \in SearchState |-> Turn(table, pc, s)]]
           Equations(f) == f = [i \in 0 .. n + 1 |-> IF i = 0 THEN first ELSE Turn(table, pc, f[i - 1])]
           T == CHOOSE f : Equations(f)
<1>1. n \in Nat
    OBVIOUS
<1>2. first \in SearchState
    <2>1. (n - 1) % Word \in Int
        <3> HIDE DEF n
        <3>1. PICK x \in Int : x = n - 1
            BY <1>1
        <3> QED
            BY <3>1, CompactAssumption
    <2> HIDE DEF n
    <2> QED
        BY <1>1, <2>1 DEF SearchState
<1>3. ASSUME NEW s \in SearchState
      PROVE  Turn(table, pc, s) \in SearchState
    <2>1. ASSUME NEW x \in Int
          PROVE  /\ [s EXCEPT !.over = TRUE, !.found = x] \in SearchState
                 /\ [s EXCEPT !.max = x] \in SearchState /\ [s EXCEPT !.min = x] \in SearchState
        BY DEF SearchState
    <2>2. PICK mid \in Int : mid = ((s.min + s.max) % Word) \div 2
        <3>1. s.min + s.max \in Int /\ Word \in Nat \ {0}
            BY CompactAssumption DEF SearchState
        <3>2. (s.min + s.max) % Word \in Int
            <4> DEFINE sum == s.min + s.max
            <4> HIDE DEF sum
            <4>1. sum % Word \in Int
                BY <3>1 DEF sum
            <4> QED
                BY <4>1 DEF sum
        <3> QED
            BY <3>2
    <2>3. mid - 1 \in Int /\ mid + 1 \in Int /\ Outside \in Int /\ Len(table) \in Int
        BY DEF Outside
    <2> QED
        BY <2>1, <2>2, <2>3 DEF Turn
<1>4. \E f : Equations(f)
    <2>1. g \in Rounds(n + 1, SearchState)
        BY <1>3 DEF Rounds
    <2> HIDE DEF g, first, n
    <2>2. n + 1 \in Nat
        BY <1>1
    <2>3. PICK f : IsLoop(f, n + 1, SearchState, first, g)
        BY <1>2, <2>1, <2>2, LoopHasResults
    <2>4. \A i \in 1 .. n + 1 : i - 1 \in 0 .. n + 1 /\ f[i] = Turn(table, pc, f[i - 1])
        <3> SUFFICES ASSUME NEW i \in 1 .. n + 1 PROVE i - 1 \in 0 .. n + 1 /\ f[i] = Turn(table, pc, f[i - 1])
            OBVIOUS
        <3>1. i - 1 \in 0 .. n + 1 /\ f[i - 1] \in SearchState /\ f[i] = g[i][f[i - 1]]
            BY <1>1, <2>3 DEF IsLoop
        <3> QED
            BY <3>1 DEF g
    <2>5. f = [i \in 0 .. n + 1 |-> f[i]]
        BY <2>3 DEF IsLoop
    <2>6. \A i \in 0 .. n + 1 : f[i] = IF i = 0 THEN first ELSE Turn(table, pc, f[i - 1])
        BY <1>1, <2>3, <2>4 DEF IsLoop
    <2> QED
        BY <2>5, <2>6
<1>5. Equations(T)
    <2> HIDE DEF Equations
    <2> QED
        BY <1>4
<1>6. Search(table, pc) = T[n + 1].found
    BY DEF Search
<1> HIDE DEF T
<1>7. T[0] = FirstRange(table)
    BY <1>1, <1>5 DEF FirstRange
<1> HIDE DEF first, n
<1>8. \A i \in 1 .. n + 1 : T[i] = Turn(table, pc, T[i - 1])
    BY <1>1, <1>5
<1> QED
    BY <1>6, <1>7, <1>8 DEF n

\* For every table in order that is not empty, the search finds the last entry that begins at or
\* before pc, and needs no more than Len(table) turns.
LEMMA SearchIsRight ==
    ASSUME NEW table \in Seq(Int), Ordered(table), Len(table) > 0, 2 * Len(table) <= Word,
           NEW pc \in Int
    PROVE  Search(table, pc) = Sought(table, pc)
<1> DEFINE n == Len(table)
<1>1. n \in Nat /\ n > 0
    OBVIOUS
<1>2. /\ FirstRange(table) \in SearchState /\ FirstRange(table).min = 0 /\ FirstRange(table).max = n - 1
      /\ FirstRange(table).over = FALSE
    <2>1. (n - 1) % Word = n - 1 /\ n - 1 \in Int
        <3>1. PICK x \in Nat : x = n - 1
            BY <1>1
        <3>2. x < Word /\ Word \in Nat
            BY <1>1, <3>1, CompactAssumption
        <3>3. x % Word = x
            BY <3>2
        <3> QED
            BY <3>1, <3>3
    <2>2. FirstRange(table) = [min |-> 0, max |-> (n - 1) % Word, over |-> FALSE, found |-> n]
        BY DEF FirstRange
    <2> HIDE DEF n
    <2> QED
        BY <1>1, <2>1, <2>2 DEF SearchState
<1>3. PICK T : /\ T[0] = FirstRange(table)
               /\ \A i \in 1 .. Len(table) + 1 : T[i] = Turn(table, pc, T[i - 1])
               /\ Search(table, pc) = T[Len(table) + 1].found
    BY SearchTurns
<1>5. \A i \in 1 .. n + 1 : T[i] = Turn(table, pc, T[i - 1])
    BY <1>3
<1>6. Search(table, pc) = T[n + 1].found
    BY <1>3
<1> DEFINE S == {i \in 0 .. n + 1 : Narrowed(table, pc, i, T[i])}
<1> HIDE DEF n
<1>7. 0 \in S
    <2>1. Narrowed(table, pc, 0, FirstRange(table))
        BY <1>1, <1>2 DEF Narrowed, n
    <2> QED
        BY <1>1, <1>3, <2>1
<1>8. \A i \in 1 .. n + 1 : i - 1 \in S => i \in S
    <2> SUFFICES ASSUME NEW i \in 1 .. n + 1, i - 1 \in S PROVE i \in S
        OBVIOUS
    <2>1. T[i] = Turn(table, pc, T[i - 1]) /\ i - 1 \in Nat /\ (i - 1) + 1 = i /\ i \in 0 .. n + 1
        BY <1>1, <1>5
    <2>2. Narrowed(table, pc, i, Turn(table, pc, T[i - 1]))
        BY <2>1, TurnNarrows
    <2> QED
        BY <2>1, <2>2
<1>9. n + 1 \in S
    <2> HIDE DEF S
    <2>1. n + 1 \in Nat /\ n + 1 \in 0 .. n + 1
        BY <1>1
    <2>2. 0 .. n + 1 \subseteq S
        BY <1>7, <1>8, <2>1, SetInduction
    <2> QED
        BY <2>1, <2>2
<1>10. T[n + 1].over
    <2> SUFFICES ASSUME ~T[n + 1].over PROVE FALSE
        OBVIOUS
    <2>1. /\ T[n + 1].min <= T[n + 1].max /\ T[n + 1].max - T[n + 1].min < n - (n + 1)
          /\ T[n + 1].min \in Int /\ T[n + 1].max \in Int
        BY <1>9 DEF Narrowed, SearchState, n
    <2> QED
        BY <1>1, <2>1
<1> QED
    BY <1>6, <1>9, <1>10 DEF Narrowed

\* A table without entries is read where it has none: its last index is that of the greatest word.
LEMMA EmptyTableIsReadOutside ==
    ASSUME NEW table \in Seq(Int), Len(table) = 0, NEW pc \in Int
    PROVE  Search(table, pc) = Outside
<1>1. PICK T : /\ T[0] = FirstRange(table)
               /\ \A i \in 1 .. Len(table) + 1 : T[i] = Turn(table, pc, T[i - 1])
               /\ Search(table, pc) = T[Len(table) + 1].found
    BY SearchTurns
<1>2. T[1] = Turn(table, pc, FirstRange(table)) /\ Search(table, pc) = T[1].found
    BY <1>1
<1>3. PICK hi \in Nat : hi = (Len(table) - 1) % Word
    BY CompactAssumption
<1>4. PICK mid \in Nat : mid = ((0 + hi) % Word) \div 2
    <2>1. PICK x \in Nat : x = (0 + hi) % Word
        BY CompactAssumption
    <2> QED
        BY <2>1
<1> DEFINE first == FirstRange(table)
<1>5. first = [min |-> 0, max |-> hi, over |-> FALSE, found |-> 0]
    BY <1>3 DEF FirstRange
<1>6. first.min = 0 /\ first.max = hi /\ first.over = FALSE
    BY <1>5
<1> HIDE DEF first
<1>7. Turn(table, pc, first) = [first EXCEPT !.over = TRUE, !.found = Outside]
    <2>1. ~(hi < 0) /\ mid >= 0
        OBVIOUS
    <2> QED
        BY <1>4, <1>6, <2>1 DEF Turn
<1>8. [first EXCEPT !.over = TRUE, !.found = Outside].found = Outside
    BY <1>5
<1> QED
    BY <1>2, <1>7, <1>8 DEF first

----------------------------------------------------------------------------
(* The permutation of the saved registers.                                 *)

\* The registers not yet listed before position i; how many of left are less than u.
Unlisted(list, i) == Saved \ {list[j] : j \in 1 .. i - 1}
Below(left, u) == {v \in left : v < u}

IsList(list) == list \in Seq(Saved) /\ IsInjective(list)

LEMMA SavedIsFinite == IsFiniteSet(Saved) /\ Cardinality(Saved) = 6
<1>1. IsFiniteSet(1 .. 6) /\ Cardinality(1 .. 6) = 6
    <2>1. 1 \in Int /\ 6 \in Int
        OBVIOUS
    <2>2. IsFiniteSet(1 .. 6) /\ Cardinality(1 .. 6) = IF 1 > 6 THEN 0 ELSE 6 - 1 + 1
        BY <2>1, FS_Interval
    <2> QED
        BY <2>2
<1> QED
    BY <1>1 DEF Saved

RegistersAt(list, places) == {list[j] : j \in places}

\* Places of a list are as many as the registers that they hold.
LEMMA PlacesAndRegisters ==
    ASSUME NEW list, IsList(list), NEW m \in SUBSET (1 .. Len(list))
    PROVE  /\ IsFiniteSet(RegistersAt(list, m)) /\ RegistersAt(list, m) \subseteq Saved
           /\ Cardinality(m) = Cardinality(RegistersAt(list, m))
<1> DEFINE regs == {list[j] : j \in m}
           f == [j \in m |-> list[j]]
<1>1. \A j \in 1 .. Len(list) : list[j] \in Saved
    BY DEF IsList
<1>2. regs \subseteq Saved
    BY <1>1
<1>3. IsFiniteSet(m)
    <2>1. IsFiniteSet(1 .. Len(list))
        <3>1. Len(list) \in Int /\ 1 \in Int
            BY DEF IsList
        <3> QED
            BY <3>1, FS_Interval
    <2> QED
        BY <2>1, FS_Subset
<1>4. f \in Bijection(m, regs)
    <2>1. f \in [m -> regs] /\ \A r \in regs : \E j \in m : f[j] = r
        OBVIOUS
    <2>2. \A i, j \in m : f[i] = f[j] => i = j
        <3>1. DOMAIN list = 1 .. Len(list)
            BY DEF IsList
        <3> QED
            BY <3>1 DEF IsList, IsInjective
    <2> HIDE DEF f, regs
    <2> QED
        BY <2>1, <2>2 DEF Bijection, Injection, Surjection, IsInjective
<1>5. ExistsBijection(m, regs)
    BY <1>4 DEF ExistsBijection
<1> HIDE DEF regs
<1>6. IsFiniteSet(regs) /\ Cardinality(regs) = Cardinality(m)
    BY <1>3, <1>5, FS_Bijection
<1> QED
    BY <1>2, <1>6 DEF regs, RegistersAt

LEMMA ListIsShort ==
    ASSUME NEW list, IsList(list)
    PROVE  Len(list) \in 0 .. 6
<1> DEFINE m == 1 .. Len(list)
           regs == RegistersAt(list, m)
<1>1. Len(list) \in Nat
    BY DEF IsList
<1>2. IsFiniteSet(regs) /\ regs \subseteq Saved /\ Cardinality(m) = Cardinality(regs)
    BY PlacesAndRegisters
<1>3. Cardinality(m) = Len(list)
    <2>1. 1 \in Int /\ Len(list) \in Int
        BY <1>1
    <2>2. Cardinality(m) = IF 1 > Len(list) THEN 0 ELSE Len(list) - 1 + 1
        BY <2>1, FS_Interval
    <2> QED
        BY <1>1, <2>2
<1>4. Cardinality(regs) <= 6
    <2> HIDE DEF regs
    <2> QED
        BY <1>2, SavedIsFinite, FS_Subset
<1> HIDE DEF m, regs
<1>5. PICK len \in Nat : len = Len(list)
    BY <1>1
<1>6. len <= 6
    BY <1>2, <1>3, <1>4, <1>5
<1>7. len \in 0 .. 6
    BY <1>6
<1> QED
    BY <1>5, <1>7, Zenon

\* What Encode subtracts leaves the rank among the registers that are not yet listed, of which there
\* are 6 - i others.
LEMMA RankFact ==
    ASSUME NEW list, IsList(list), NEW i \in 1 .. Len(list)
    PROVE  LET left == Unlisted(list, i)
           IN  /\ list[i] \in left /\ left \subseteq Saved
               /\ Cardinality(Below(left, list[i])) \in 0 .. 6 - i
               /\ list[i] - Cardinality({j \in 1 .. i - 1 : list[j] < list[i]}) - 1
                     = Cardinality(Below(left, list[i]))
<1> DEFINE u == list[i]
           left == Unlisted(list, i)
           places == {j \in 1 .. i - 1 : list[j] < u}
           listed == {list[j] : j \in 1 .. i - 1}
           lower == {list[j] : j \in places}
<1>1. i \in Nat /\ Len(list) \in Nat /\ DOMAIN list = 1 .. Len(list) /\ \A j \in 1 .. Len(list) : list[j] \in Saved
    BY DEF IsList
<1>2. u \in Saved /\ u \in Nat
    BY <1>1 DEF Saved
<1>3. u \in left
    <2>1. \A j \in 1 .. i - 1 : j \in 1 .. Len(list) /\ j # i
        BY <1>1
    <2>2. u \notin listed
        BY <1>1, <2>1 DEF IsList, IsInjective
    <2> QED
        BY <1>2, <2>2 DEF Unlisted
<1>4. /\ IsFiniteSet(lower) /\ Cardinality(places) = Cardinality(lower)
    <2>1. places \in SUBSET (1 .. Len(list)) /\ lower = RegistersAt(list, places)
        BY <1>1 DEF RegistersAt
    <2> HIDE DEF places, lower
    <2> QED
        BY <2>1, PlacesAndRegisters
<1>5. /\ IsFiniteSet(listed) /\ listed \subseteq Saved /\ Cardinality(listed) = i - 1
    <2>1. 1 .. i - 1 \in SUBSET (1 .. Len(list))
        BY <1>1
    <2>2. Cardinality(1 .. i - 1) = i - 1
        <3>1. 1 \in Int /\ i - 1 \in Int
            BY <1>1
        <3>2. Cardinality(1 .. i - 1) = IF 1 > i - 1 THEN 0 ELSE i - 1 - 1 + 1
            BY <3>1, FS_Interval
        <3> QED
            BY <1>1, <3>2
    <2>3. IsFiniteSet(listed) /\ listed \subseteq Saved /\ Cardinality(1 .. i - 1) = Cardinality(listed)
        <3> DEFINE prefix == 1 .. i - 1
        <3>1. listed = RegistersAt(list, prefix) /\ prefix \in SUBSET (1 .. Len(list))
            BY <2>1 DEF RegistersAt
        <3> HIDE DEF prefix, listed
        <3>2. IsFiniteSet(listed) /\ listed \subseteq Saved /\ Cardinality(prefix) = Cardinality(listed)
            BY <3>1, PlacesAndRegisters
        <3> QED
            BY <3>2 DEF prefix
    <2> QED
        BY <2>2, <2>3
<1>6. Cardinality(1 .. u - 1) = u - 1 /\ IsFiniteSet(1 .. u - 1)
    <2>1. 1 \in Int /\ u - 1 \in Int /\ u >= 1 /\ u \in Nat
        BY <1>2 DEF Saved
    <2> HIDE DEF u
    <2>2. IsFiniteSet(1 .. u - 1) /\ Cardinality(1 .. u - 1) = IF 1 > u - 1 THEN 0 ELSE u - 1 - 1 + 1
        BY <2>1, FS_Interval
    <2> QED
        BY <2>1, <2>2
<1>7. Below(left, u) = (1 .. u - 1) \ lower /\ (1 .. u - 1) \cap lower = lower
    <2>1. \A v \in Saved : v \in 1 .. u - 1 <=> v < u
        BY <1>2 DEF Saved
    <2>2. 1 .. u - 1 \subseteq Saved
        <3> HIDE DEF u
        <3> QED
            BY <1>2 DEF Saved
    <2>3. \A j \in 1 .. i - 1 : list[j] \in Saved
        BY <1>1
    <2>4. \A v \in Saved : v \in lower <=> v \in listed /\ v < u
        OBVIOUS
    <2>5. lower \subseteq Saved /\ \A v \in lower : v < u
        BY <2>3
    <2> HIDE DEF lower
    <2>6. lower \subseteq 1 .. u - 1
        BY <2>1, <2>5
    <2>7. left = Saved \ listed
        BY DEF Unlisted
    <2> HIDE DEF listed, left, u
    <2>8. Below(left, u) = (1 .. u - 1) \ lower
        BY <2>1, <2>2, <2>4, <2>7 DEF Below
    <2> QED
        BY <2>6, <2>8
<1>8. Cardinality(Below(left, u)) = u - 1 - Cardinality(lower)
    <2> HIDE DEF lower, u
    <2>1. Cardinality((1 .. u - 1) \ lower) = Cardinality(1 .. u - 1) - Cardinality((1 .. u - 1) \cap lower)
        BY <1>6, FS_Difference
    <2> QED
        BY <1>6, <1>7, <2>1
<1>9. Cardinality(left) = 6 - (i - 1) /\ IsFiniteSet(left)
    <2> HIDE DEF listed
    <2>1. IsFiniteSet(Saved \ listed) /\ Cardinality(Saved \ listed) = Cardinality(Saved) - Cardinality(Saved \cap listed)
        BY SavedIsFinite, FS_Difference
    <2>2. Saved \cap listed = listed
        BY <1>5
    <2> QED
        BY <1>5, <2>1, <2>2, SavedIsFinite DEF Unlisted, listed
<1>10. Cardinality(Below(left, u)) \in Nat /\ Cardinality(Below(left, u)) <= 6 - i
    <2> HIDE DEF left, u
    <2>1. Cardinality(left \ {u}) = 6 - i /\ IsFiniteSet(left \ {u})
        <3>1. IsFiniteSet(left \ {u}) /\ Cardinality(left \ {u}) = Cardinality(left) - 1
            BY <1>3, <1>9, FS_RemoveElement
        <3> QED
            BY <1>1, <1>9, <3>1
    <2>2. Below(left, u) \in SUBSET (left \ {u})
        BY <1>2 DEF Below
    <2> QED
        BY <2>1, <2>2, FS_Subset, FS_CardinalityType
<1> QED
    <2>1. left \subseteq Saved
        BY DEF Unlisted
    <2>2. Cardinality(lower) \in Nat
        BY <1>4, FS_CardinalityType
    <2> HIDE DEF left, places, lower, u
    <2>3. u - Cardinality(places) - 1 = Cardinality(Below(left, u))
        BY <1>2, <1>4, <1>8, <2>2
    <2>4. Cardinality(Below(left, u)) \in 0 .. 6 - i
        BY <1>1, <1>10
    <2> QED
        BY <1>3, <2>1, <2>3, <2>4 DEF left, places, u

\* No two registers have the same rank.
LEMMA RankedFact ==
    ASSUME NEW left \in SUBSET Saved, NEW u \in left
    PROVE  (CHOOSE w \in left : Cardinality({v \in left : v < w}) = Cardinality(Below(left, u))) = u
<1>1. ASSUME NEW a \in left, NEW b \in left, a < b
      PROVE  Cardinality(Below(left, a)) # Cardinality(Below(left, b))
    <2>1. left \subseteq Int
        BY DEF Saved
    <2>2. Below(left, a) \in SUBSET Below(left, b) /\ a \in Below(left, b) /\ a \notin Below(left, a)
        <3>1. \A v \in left : v < a => v < b
            BY <1>1, <2>1
        <3>2. ~(a < a)
            BY <2>1
        <3> QED
            BY <1>1, <3>1, <3>2 DEF Below
    <2>3. IsFiniteSet(Below(left, b))
        <3>1. Below(left, b) \in SUBSET Saved
            BY DEF Below
        <3> QED
            BY <3>1, SavedIsFinite, FS_Subset
    <2> QED
        BY <2>2, <2>3, FS_Subset
<1>2. ASSUME NEW w \in left, Cardinality(Below(left, w)) = Cardinality(Below(left, u))
      PROVE  w = u
    <2>1. w \in Int /\ u \in Int
        BY DEF Saved
    <2>2. ~(w < u) /\ ~(u < w)
        BY <1>1, <1>2
    <2> QED
        BY <2>1, <2>2
<1>3. \A w \in left : Cardinality({v \in left : v < w}) = Cardinality(Below(left, w))
    BY DEF Below
<1> QED
    BY <1>2, <1>3

\* The sum of some numbers, one after the other.
LEMMA RunningSumExists ==
    ASSUME NEW n \in Nat, NEW b \in Int, NEW v \in [1 .. n -> Int]
    PROVE  \E f \in [0 .. n -> Int] : f[0] = b /\ \A i \in 1 .. n : f[i] = f[i - 1] + v[i]
<1> DEFINE g == [i \in 1 .. n |-> [x \in Int |-> x + v[i]]]
<1>1. g \in Rounds(n, Int)
    BY DEF Rounds
<1>2. \E f : IsLoop(f, n, Int, b, g)
    <2> HIDE DEF g
    <2> QED
        BY <1>1, LoopHasResults
<1>3. PICK f : IsLoop(f, n, Int, b, g)
    BY <1>2
<1>4. ASSUME NEW i \in 1 .. n
      PROVE  f[i] = f[i - 1] + v[i]
    <2>1. i - 1 \in 0 .. n
        OBVIOUS
    <2> QED
        BY <1>3, <2>1 DEF IsLoop
<1>5. f \in [0 .. n -> Int] /\ f[0] = b
    <2> HIDE DEF g
    <2> QED
        BY <1>3 DEF IsLoop
<1> QED
    BY <1>4, <1>5

\* The number that stands for the ranks r of n registers.
Weighted(n, r) ==
    CASE n = 1 -> r[1]
      [] n = 2 -> 5 * r[1] + r[2]
      [] n = 3 -> 20 * r[1] + 4 * r[2] + r[3]
      [] n = 4 -> 60 * r[1] + 12 * r[2] + 3 * r[3] + r[4]
      [] OTHER -> 120 * r[1] + 24 * r[2] + 6 * r[3] + 2 * r[4] + r[5]

IsRanks(n, r) == r \in [1 .. n -> Int] /\ \A i \in 1 .. n : r[i] \in 0 .. 6 - i

DigitOf(p, n, i) ==
    IF Factors[n][i] = 0 THEN 0
    ELSE (IF i = 1 THEN p ELSE p % Factors[n][i - 1]) \div Factors[n][i]

\* a to e are what division by the factors of five registers, or six, gives of p.
AreDigits(p, a, b, c, d, e) ==
    /\ p \div 120 = a /\ (p % 120) \div 24 = b /\ (p % 24) \div 6 = c
    /\ (p % 6) \div 2 = d /\ (p % 2) \div 1 = e

LEMMA DigitsFive ==
    ASSUME NEW a \in 0 .. 5, NEW b \in 0 .. 4, NEW c \in 0 .. 3, NEW d \in 0 .. 2, NEW e \in 0 .. 1,
           NEW p, p = 120 * a + 24 * b + 6 * c + 2 * d + e
    PROVE  AreDigits(p, a, b, c, d, e)
BY DEF AreDigits

LEMMA DigitsFour ==
    ASSUME NEW a \in 0 .. 5, NEW b \in 0 .. 4, NEW c \in 0 .. 3, NEW d \in 0 .. 2
    PROVE  LET p == 60 * a + 12 * b + 3 * c + d
           IN  p \div 60 = a /\ (p % 60) \div 12 = b /\ (p % 12) \div 3 = c /\ (p % 3) \div 1 = d
OBVIOUS

LEMMA DigitsThree ==
    ASSUME NEW a \in 0 .. 5, NEW b \in 0 .. 4, NEW c \in 0 .. 3
    PROVE  LET p == 20 * a + 4 * b + c
           IN  p \div 20 = a /\ (p % 20) \div 4 = b /\ (p % 4) \div 1 = c
OBVIOUS

LEMMA DigitsTwo ==
    ASSUME NEW a \in 0 .. 5, NEW b \in 0 .. 4
    PROVE  LET p == 5 * a + b IN p \div 5 = a /\ (p % 5) \div 1 = b
OBVIOUS

LEMMA FactorsFact ==
    /\ Factors[1] = <<1>> /\ Factors[2] = <<5, 1>> /\ Factors[3] = <<20, 4, 1>>
    /\ Factors[4] = <<60, 12, 3, 1>> /\ Factors[5] = <<120, 24, 6, 2, 1>>
    /\ Factors[6] = <<120, 24, 6, 2, 1, 0>>
BY DEF Factors

LEMMA DigitsFact ==
    ASSUME NEW n \in 1 .. 6, NEW r, IsRanks(n, r), NEW i \in 1 .. n
    PROVE  DigitOf(Weighted(n, r), n, i) = r[i]
<1>1. CASE n = 1
    <2>1. i = 1 /\ Factors[1] = <<1>> /\ r[1] \in Int /\ Weighted(1, r) = r[1]
        BY <1>1, FactorsFact DEF Weighted, IsRanks
    <2> QED
        BY <1>1, <2>1 DEF DigitOf
<1>2. CASE n = 2
    <2>1. r[1] \in 0 .. 5 /\ r[2] \in 0 .. 4 /\ Weighted(2, r) = 5 * r[1] + r[2]
        BY <1>2 DEF Weighted, IsRanks
    <2>2. i \in {1, 2} /\ Factors[2] = <<5, 1>>
        BY <1>2, FactorsFact
    <2> QED
        BY <1>2, <2>1, <2>2, DigitsTwo DEF DigitOf
<1>3. CASE n = 3
    <2>1. /\ r[1] \in 0 .. 5 /\ r[2] \in 0 .. 4 /\ r[3] \in 0 .. 3
          /\ Weighted(3, r) = 20 * r[1] + 4 * r[2] + r[3]
        BY <1>3 DEF Weighted, IsRanks
    <2>2. i \in {1, 2, 3} /\ Factors[3] = <<20, 4, 1>>
        BY <1>3, FactorsFact
    <2> QED
        BY <1>3, <2>1, <2>2, DigitsThree DEF DigitOf
<1>4. CASE n = 4
    <2>1. /\ r[1] \in 0 .. 5 /\ r[2] \in 0 .. 4 /\ r[3] \in 0 .. 3 /\ r[4] \in 0 .. 2
          /\ Weighted(4, r) = 60 * r[1] + 12 * r[2] + 3 * r[3] + r[4]
        BY <1>4 DEF Weighted, IsRanks
    <2>2. i \in {1, 2, 3, 4} /\ Factors[4] = <<60, 12, 3, 1>>
        BY <1>4, FactorsFact
    <2> QED
        BY <1>4, <2>1, <2>2, DigitsFour DEF DigitOf
<1>5. CASE n = 5
    <2>1. /\ r[1] \in 0 .. 5 /\ r[2] \in 0 .. 4 /\ r[3] \in 0 .. 3 /\ r[4] \in 0 .. 2 /\ r[5] \in 0 .. 1
          /\ Weighted(5, r) = 120 * r[1] + 24 * r[2] + 6 * r[3] + 2 * r[4] + r[5]
        BY <1>5 DEF Weighted, IsRanks
    <2>2. i \in {1, 2, 3, 4, 5} /\ Factors[5] = <<120, 24, 6, 2, 1>>
        BY <1>5, FactorsFact
    <2>3. PICK p : p = Weighted(5, r) /\ p = 120 * r[1] + 24 * r[2] + 6 * r[3] + 2 * r[4] + r[5]
        BY <2>1
    <2>4. AreDigits(p, r[1], r[2], r[3], r[4], r[5])
        BY <2>1, <2>3, DigitsFive
    <2>5. \A j \in {1, 2, 3, 4, 5} : i = j => DigitOf(p, 5, i) = r[i]
        BY <2>2, <2>4 DEF DigitOf, AreDigits
    <2> QED
        BY <1>5, <2>1, <2>2, <2>3, <2>5 DEF DigitOf
<1>6. CASE n = 6
    <2>1. /\ r[1] \in 0 .. 5 /\ r[2] \in 0 .. 4 /\ r[3] \in 0 .. 3 /\ r[4] \in 0 .. 2 /\ r[5] \in 0 .. 1
          /\ r[6] = 0
          /\ Weighted(6, r) = 120 * r[1] + 24 * r[2] + 6 * r[3] + 2 * r[4] + r[5]
        BY <1>6 DEF Weighted, IsRanks
    <2>2. i \in {1, 2, 3, 4, 5, 6} /\ Factors[6] = <<120, 24, 6, 2, 1, 0>>
        BY <1>6, FactorsFact
    <2>3. PICK p : p = Weighted(6, r) /\ p = 120 * r[1] + 24 * r[2] + 6 * r[3] + 2 * r[4] + r[5]
        BY <2>1
    <2>4. AreDigits(p, r[1], r[2], r[3], r[4], r[5])
        BY <2>1, <2>3, DigitsFive
    <2>5. \A j \in {1, 2, 3, 4, 5} : i = j => DigitOf(p, 6, i) = r[i]
        BY <2>2, <2>4 DEF DigitOf, AreDigits
    <2> QED
        BY <1>6, <2>1, <2>2, <2>3, <2>5 DEF DigitOf
<1> QED
    BY <1>1, <1>2, <1>3, <1>4, <1>5, <1>6

\* Encode, for a list of one register or more.
LEMMA EncodeFact ==
    ASSUME NEW list, IsList(list), Len(list) > 0
    PROVE  LET r == [i \in 1 .. Len(list) |-> Cardinality(Below(Unlisted(list, i), list[i]))]
           IN  IsRanks(Len(list), r) /\ Encode(list) = Weighted(Len(list), r)
<1> DEFINE n == Len(list)
           r == [i \in 1 .. n |-> Cardinality(Below(Unlisted(list, i), list[i]))]
           Rank(i) == list[i] - Cardinality({j \in 1 .. i - 1 : list[j] < list[i]}) - 1
           v == [i \in 1 .. n |-> Factors[n][i] * r[i]]
           Equations(f) ==
               f = [i \in 0 .. n |-> IF i = 0 THEN 0 ELSE f[i - 1] + Factors[n][i] * Rank(i)]
           Total == CHOOSE f : Equations(f)
<1>1. n \in 1 .. 6
    BY ListIsShort
<1>2. \A i \in 1 .. n : Rank(i) = r[i]
    BY RankFact
<1>3. IsRanks(n, r)
    <2>1. ASSUME NEW i \in 1 .. n
          PROVE  r[i] \in 0 .. 6 - i
        BY RankFact
    <2>2. \A i \in 1 .. n : r[i] \in Int
        BY <2>1
    <2>3. r = [i \in 1 .. n |-> r[i]]
        OBVIOUS
    <2> HIDE DEF r, n
    <2>4. r \in [1 .. n -> Int]
        BY <2>2, <2>3
    <2> QED
        BY <2>1, <2>4 DEF IsRanks
<1> HIDE DEF r, Rank
<1>4. \A i \in 1 .. n : Factors[n][i] \in Int
    <2>1. ASSUME NEW m \in 1 .. 6, NEW i \in 1 .. m
          PROVE  Factors[m][i] \in Int
        <3>1. CASE m = 1
            BY <3>1, FactorsFact
        <3>2. CASE m = 2
            BY <3>2, FactorsFact
        <3>3. CASE m = 3
            BY <3>3, FactorsFact
        <3>4. CASE m = 4
            BY <3>4, FactorsFact
        <3>5. CASE m = 5
            BY <3>5, FactorsFact
        <3>6. CASE m = 6
            BY <3>6, FactorsFact
        <3> QED
            BY <3>1, <3>2, <3>3, <3>4, <3>5, <3>6
    <2> QED
        BY <1>1, <2>1
<1>5. v \in [1 .. n -> Int]
    <2>1. \A i \in 1 .. n : r[i] \in Int
        BY <1>3 DEF IsRanks
    <2>2. \A x, y \in Int : x * y \in Int
        OBVIOUS
    <2> HIDE DEF n
    <2> QED
        BY <1>4, <2>1, <2>2
<1>6. \E f : Equations(f)
    <2> HIDE DEF v, n
    <2>1. n \in Nat /\ 0 \in Int
        BY <1>1
    <2>2. \E f \in [0 .. n -> Int] : f[0] = 0 /\ \A i \in 1 .. n : f[i] = f[i - 1] + v[i]
        BY <1>5, <2>1, RunningSumExists
    <2>3. PICK f \in [0 .. n -> Int] : f[0] = 0 /\ \A i \in 1 .. n : f[i] = f[i - 1] + v[i]
        BY <2>2
    <2>4. \A i \in 0 .. n : f[i] = IF i = 0 THEN 0 ELSE f[i - 1] + Factors[n][i] * Rank(i)
        <3> SUFFICES ASSUME NEW i \in 0 .. n, i # 0
                     PROVE  f[i] = f[i - 1] + Factors[n][i] * Rank(i)
            BY <2>3
        <3>1. i \in 1 .. n /\ v[i] = Factors[n][i] * r[i]
            BY <2>1 DEF v
        <3> QED
            BY <1>2, <2>3, <3>1
    <2>5. f = [i \in 0 .. n |-> f[i]]
        OBVIOUS
    <2> QED
        BY <2>4, <2>5
<1>7. Equations(Total)
    <2> HIDE DEF Equations
    <2> QED
        BY <1>6
<1>8. Encode(list) = Total[n]
    BY DEF Encode, Rank
<1> HIDE DEF Total, n
<1>9. /\ Total[0] = 0
      /\ \A i \in 1 .. n : Total[i] = Total[i - 1] + Factors[n][i] * r[i]
    <2>1. n \in Nat
        BY <1>1
    <2>2. Total[0] = 0
        BY <1>7, <2>1
    <2>3. ASSUME NEW i \in 1 .. n
          PROVE  Total[i] = Total[i - 1] + Factors[n][i] * r[i]
        <3>1. i \in 0 .. n /\ i # 0
            BY <2>1
        <3> QED
            BY <1>2, <1>7, <3>1
    <2> QED
        BY <2>2, <2>3
<1>10. Total[n] = Weighted(n, r)
    <2> HIDE DEF Equations
    <2>0. \A i \in 1 .. n : r[i] \in Int
        BY <1>3 DEF IsRanks
    <2>1. CASE n = 1
        <3>1. Total[1] = Total[0] + 1 * r[1] /\ r[1] \in Int
            BY <1>9, <2>0, <2>1, FactorsFact
        <3> QED
            BY <1>9, <2>1, <3>1 DEF Weighted
    <2>2. CASE n = 2
        <3>1. /\ Total[1] = Total[0] + 5 * r[1] /\ Total[2] = Total[1] + 1 * r[2]
              /\ r[1] \in Int /\ r[2] \in Int
            BY <1>9, <2>0, <2>2, FactorsFact
        <3> QED
            BY <1>9, <2>2, <3>1 DEF Weighted
    <2>3. CASE n = 3
        <3>1. /\ Total[1] = Total[0] + 20 * r[1] /\ Total[2] = Total[1] + 4 * r[2]
              /\ Total[3] = Total[2] + 1 * r[3]
              /\ r[1] \in Int /\ r[2] \in Int /\ r[3] \in Int
            BY <1>9, <2>0, <2>3, FactorsFact
        <3> QED
            BY <1>9, <2>3, <3>1 DEF Weighted
    <2>4. CASE n = 4
        <3>1. /\ Total[1] = Total[0] + 60 * r[1] /\ Total[2] = Total[1] + 12 * r[2]
              /\ Total[3] = Total[2] + 3 * r[3] /\ Total[4] = Total[3] + 1 * r[4]
              /\ r[1] \in Int /\ r[2] \in Int /\ r[3] \in Int /\ r[4] \in Int
            BY <1>9, <2>0, <2>4, FactorsFact, SMTT(20)
        <3> QED
            BY <1>9, <2>4, <3>1 DEF Weighted
    <2>5. CASE n = 5
        <3>0. /\ Factors[n][1] = 120 /\ Factors[n][2] = 24 /\ Factors[n][3] = 6
              /\ Factors[n][4] = 2 /\ Factors[n][5] = 1
            BY <2>5, FactorsFact
        <3>1. /\ Total[1] = Total[0] + 120 * r[1] /\ Total[2] = Total[1] + 24 * r[2]
              /\ Total[3] = Total[2] + 6 * r[3] /\ Total[4] = Total[3] + 2 * r[4]
              /\ Total[5] = Total[4] + 1 * r[5]
              /\ r[1] \in Int /\ r[2] \in Int /\ r[3] \in Int /\ r[4] \in Int /\ r[5] \in Int
            <4> HIDE DEF v
            <4>1. {1, 2, 3, 4, 5} \subseteq 1 .. n
                BY <2>5
            <4>2. \A i \in {1, 2, 3, 4, 5} :
                     Total[i] = Total[i - 1] + Factors[n][i] * r[i] /\ r[i] \in Int
                BY <1>9, <2>0, <4>1, Zenon
            <4>3. /\ Total[1] = Total[0] + Factors[n][1] * r[1] /\ Total[2] = Total[1] + Factors[n][2] * r[2]
                  /\ Total[3] = Total[2] + Factors[n][3] * r[3] /\ Total[4] = Total[3] + Factors[n][4] * r[4]
                  /\ Total[5] = Total[4] + Factors[n][5] * r[5]
                BY <4>2
            <4> QED
                BY <3>0, <4>2, <4>3
        <3> QED
            BY <1>9, <2>5, <3>1 DEF Weighted
    <2>6. CASE n = 6
        <3>0. /\ Factors[n][1] = 120 /\ Factors[n][2] = 24 /\ Factors[n][3] = 6
              /\ Factors[n][4] = 2 /\ Factors[n][5] = 1
            BY <2>6, FactorsFact
        <3>1. /\ Total[1] = Total[0] + 120 * r[1] /\ Total[2] = Total[1] + 24 * r[2]
              /\ Total[3] = Total[2] + 6 * r[3] /\ Total[4] = Total[3] + 2 * r[4]
              /\ Total[5] = Total[4] + 1 * r[5]
              /\ r[1] \in Int /\ r[2] \in Int /\ r[3] \in Int /\ r[4] \in Int /\ r[5] \in Int
            <4> HIDE DEF v
            <4>1. {1, 2, 3, 4, 5} \subseteq 1 .. n
                BY <2>6
            <4>2. \A i \in {1, 2, 3, 4, 5} :
                     Total[i] = Total[i - 1] + Factors[n][i] * r[i] /\ r[i] \in Int
                BY <1>9, <2>0, <4>1, Zenon
            <4>3. /\ Total[1] = Total[0] + Factors[n][1] * r[1] /\ Total[2] = Total[1] + Factors[n][2] * r[2]
                  /\ Total[3] = Total[2] + Factors[n][3] * r[3] /\ Total[4] = Total[3] + Factors[n][4] * r[4]
                  /\ Total[5] = Total[4] + Factors[n][5] * r[5]
                BY <4>2
            <4> QED
                BY <3>0, <4>2, <4>3
        <3>2. Total[6] = Total[5] + 0 * r[6] /\ r[6] \in Int
            BY <1>9, <2>0, <2>6, FactorsFact
        <3>3. Total[0] = 0
            BY <1>9
        <3>4. PICK a \in Int, b \in Int, c \in Int, d \in Int, e \in Int :
                  a = r[1] /\ b = r[2] /\ c = r[3] /\ d = r[4] /\ e = r[5]
            BY <3>1
        <3>5. Total[5] = 120 * a + 24 * b + 6 * c + 2 * d + e
            <4>1. /\ Total[1] = 0 + 120 * a /\ Total[2] = Total[1] + 24 * b /\ Total[3] = Total[2] + 6 * c
                  /\ Total[4] = Total[3] + 2 * d /\ Total[5] = Total[4] + 1 * e
                BY <3>1, <3>3, <3>4, Zenon
            <4>2. Total[2] = 120 * a + 24 * b
                BY <4>1
            <4>3. Total[4] = 120 * a + 24 * b + 6 * c + 2 * d
                BY <4>1, <4>2
            <4> QED
                BY <4>1, <4>3
        <3>6. Total[5] = 120 * r[1] + 24 * r[2] + 6 * r[3] + 2 * r[4] + r[5]
            BY <3>4, <3>5
        <3>7. Total[5] \in Int
            BY <3>5
        <3>8. Total[6] = Total[5]
            <4>1. 0 * r[6] = 0
                BY <3>2
            <4> QED
                BY <3>2, <3>7, <4>1
        <3>9. Weighted(6, r) = 120 * r[1] + 24 * r[2] + 6 * r[3] + 2 * r[4] + r[5]
            BY DEF Weighted
        <3> QED
            BY <2>6, <3>6, <3>8, <3>9
    <2> QED
        BY <1>1, <2>1, <2>2, <2>3, <2>4, <2>5, <2>6
<1> QED
    BY <1>3, <1>8, <1>10 DEF r, n

\* A list of distinct registers is what comes out again of the number that encodes it.
THEOREM DecodeOfEncode ==
    ASSUME NEW list, IsList(list), Len(list) > 0
    PROVE  Decode(Encode(list), Len(list)) = list
<1> DEFINE n == Len(list)
           r == [i \in 1 .. n |-> Cardinality(Below(Unlisted(list, i), list[i]))]
           p == Encode(list)
           Digit(i) == IF Factors[n][i] = 0 THEN 0
                       ELSE (IF i = 1 THEN p ELSE p % Factors[n][i - 1]) \div Factors[n][i]
           Ranked(left, rank) == CHOOSE u \in left : Cardinality({v \in left : v < u}) = rank
           Equations(f) ==
               f = [i \in 0 .. n |->
                       IF i = 0 THEN <<>>
                       ELSE Append(f[i - 1], Ranked(Saved \ Range(f[i - 1]), Digit(i)))]
           Lists == CHOOSE f : Equations(f)
           G == [i \in 0 .. n |-> SubSeq(list, 1, i)]
<1>1. n \in 1 .. 6 /\ list \in Seq(Saved)
    BY ListIsShort DEF IsList
<1>2. \A i \in 1 .. n : Digit(i) = r[i]
    <2>1. IsRanks(n, r) /\ p = Weighted(n, r)
        BY EncodeFact
    <2> HIDE DEF r, p, n
    <2>2. \A i \in 1 .. n : DigitOf(p, n, i) = r[i]
        BY <1>1, <2>1, DigitsFact
    <2> QED
        BY <2>2 DEF DigitOf
<1> HIDE DEF Digit
<1>3. ASSUME NEW i \in 1 .. n
      PROVE  /\ Append(SubSeq(list, 1, i - 1),
                       Ranked(Saved \ Range(SubSeq(list, 1, i - 1)), Digit(i))) = SubSeq(list, 1, i)
    <2> DEFINE before == SubSeq(list, 1, i - 1)
    <2>1. /\ before \in Seq(Saved) /\ Len(before) = i - 1 /\ \A j \in 1 .. i - 1 : before[j] = list[j]
          /\ SubSeq(list, 1, i) \in Seq(Saved) /\ Len(SubSeq(list, 1, i)) = i
          /\ \A j \in 1 .. i : SubSeq(list, 1, i)[j] = list[j]
        BY <1>1
    <2> HIDE DEF before
    <2>2. Range(before) = {list[j] : j \in 1 .. i - 1}
        <3>1. DOMAIN before = 1 .. i - 1
            BY <2>1
        <3> QED
            BY <2>1, <3>1 DEF Range
    <2>3. Saved \ Range(before) = Unlisted(list, i)
        BY <2>2 DEF Unlisted
    <2>4. list[i] \in Unlisted(list, i) /\ Unlisted(list, i) \in SUBSET Saved
        BY RankFact
    <2>5. Ranked(Unlisted(list, i), Digit(i)) = list[i]
        <3> DEFINE left == Unlisted(list, i)
                   u == list[i]
        <3>1. Digit(i) = Cardinality(Below(left, u))
            BY <1>2
        <3>2. left \in SUBSET Saved /\ u \in left
            BY <2>4
        <3> HIDE DEF left, u
        <3>3. Ranked(left, Cardinality(Below(left, u))) = u
            BY <3>2, RankedFact
        <3>4. Ranked(left, Digit(i)) = u
            BY <3>1, <3>3
        <3> QED
            BY <3>4 DEF left, u
    <2> DEFINE after == Append(before, list[i])
    <2>6. /\ after \in Seq(Saved) /\ Len(after) = i
          /\ \A j \in 1 .. i : after[j] = list[j]
        <3>1. list[i] \in Saved
            BY <2>4
        <3>2. /\ after \in Seq(Saved) /\ Len(after) = Len(before) + 1
              /\ \A j \in 1 .. Len(before) : after[j] = before[j] /\ after[Len(before) + 1] = list[i]
            BY <2>1, <3>1, AppendProperties
        <3> HIDE DEF after
        <3>3. i \in Nat /\ (i - 1) + 1 = i /\ \A j \in 1 .. i : j = i \/ j \in 1 .. i - 1
            BY <1>1
        <3>4. after[i] = list[i]
            <4>1. (Len(before) + 1) = i
                BY <2>1, <3>3
            <4>2. after[Len(before) + 1] = list[i]
                BY <2>1, <3>1, AppendProperties DEF after
            <4> QED
                BY <4>1, <4>2
        <3> QED
            BY <2>1, <3>2, <3>3, <3>4
    <2>7. after = SubSeq(list, 1, i)
        <3> DEFINE whole == SubSeq(list, 1, i)
        <3>1. whole \in Seq(Saved) /\ Len(whole) = Len(after) /\ \A j \in 1 .. Len(whole) : whole[j] = after[j]
            BY <2>1, <2>6
        <3> HIDE DEF whole, after
        <3> QED
            BY <2>6, <3>1, SeqEqual DEF whole
    <2> QED
        BY <2>3, <2>5, <2>7 DEF before
<1>4. SubSeq(list, 1, 0) = <<>> /\ SubSeq(list, 1, n) = list
    <2>1. SubSeq(list, 1, n) = list
        BY <1>1, SubSeqFull
    <2>2. SubSeq(list, 1, 0) = <<>>
        BY <1>1
    <2> QED
        BY <2>1, <2>2
<1> HIDE DEF n, r, p, Ranked
<1>5. Equations(G)
    <2>1. ASSUME NEW i \in 0 .. n
          PROVE  G[i] = IF i = 0 THEN <<>>
                        ELSE Append(G[i - 1], Ranked(Saved \ Range(G[i - 1]), Digit(i)))
        <3>1. CASE i = 0
            BY <1>4, <3>1
        <3>2. CASE i # 0
            <4>1. i \in 1 .. n /\ i - 1 \in 0 .. n
                BY <1>1, <3>2
            <4>2. G[i] = SubSeq(list, 1, i) /\ G[i - 1] = SubSeq(list, 1, i - 1)
                BY <4>1
            <4> HIDE DEF G
            <4> QED
                BY <1>3, <3>2, <4>1, <4>2
        <3> QED
            BY <3>1, <3>2
    <2>2. G = [i \in 0 .. n |-> G[i]]
        OBVIOUS
    <2> HIDE DEF G
    <2> QED
        BY <2>1, <2>2
<1>6. Equations(Lists)
    <2> HIDE DEF Equations, G
    <2> QED
        BY <1>5
<1> DEFINE S == {i \in 0 .. n : Lists[i] = SubSeq(list, 1, i)}
<1> HIDE DEF Lists
<1>7. n \in S
    <2>1. 0 \in S
        BY <1>1, <1>4, <1>6
    <2>2. ASSUME NEW i \in 1 .. n, i - 1 \in S
          PROVE  i \in S
        <3>0. i \in 0 .. n /\ i # 0
            BY <1>1
        <3>1. Lists[i] = Append(Lists[i - 1], Ranked(Saved \ Range(Lists[i - 1]), Digit(i)))
            BY <1>6, <3>0
        <3>2. Lists[i - 1] = SubSeq(list, 1, i - 1)
            BY <2>2
        <3> QED
            BY <1>3, <3>0, <3>1, <3>2
    <2> HIDE DEF S
    <2>3. n \in Nat /\ n \in 0 .. n
        BY <1>1
    <2>4. 0 .. n \subseteq S
        BY <2>1, <2>2, <2>3, SetInduction
    <2> QED
        BY <2>3, <2>4
<1>8. Decode(p, n) = Lists[n]
    BY DEF Decode, Lists, Ranked, Digit
<1> QED
    BY <1>4, <1>7, <1>8 DEF p, n

----------------------------------------------------------------------------
(* The table of a chain's functions.                                       *)

TableOf(c) == [i \in DOMAIN c |-> Code(i)]

LEMMA TableFact ==
    ASSUME NEW c, IsChain(c)
    PROVE  LET table == TableOf(c)
           IN  /\ table \in Seq(Int) /\ Len(table) = Len(c) /\ Len(c) \in Nat \ {0}
               /\ \A i \in 1 .. Len(c) : table[i] = 100 * i
               /\ Ordered(table) /\ Len(table) > 0 /\ 2 * Len(table) <= Word
<1> DEFINE table == TableOf(c)
           n == Len(c)
<1>1. n \in Nat \ {0} /\ DOMAIN c = 1 .. n /\ 2 * n <= Word
    BY DEF IsChain
<1> HIDE DEF n
<1>2. table = [i \in 1 .. n |-> 100 * i]
    BY <1>1 DEF TableOf, Code
<1>3. table \in [1 .. n -> Int]
    BY <1>1, <1>2
<1>4. table \in Seq(Int) /\ Len(table) = n
    BY <1>1, <1>3, IsASeq, LenProperties
<1>5. \A i \in 1 .. n : table[i] = 100 * i
    BY <1>1, <1>2
<1> HIDE DEF table
<1>6. Ordered(table)
    BY <1>1, <1>4, <1>5 DEF Ordered
<1> QED
    BY <1>1, <1>4, <1>5, <1>6 DEF table, n

\* WalkSpec never changes the chain.
ChainIsOne == chain \in Chains

LEMMA WalkKeepsChain == WalkSpec => []ChainIsOne
<1>1. WalkInit => ChainIsOne
    BY DEF WalkInit, ChainIsOne
<1>2. ChainIsOne /\ [WalkNext]_walkVars => ChainIsOne'
    BY DEF ChainIsOne, WalkNext, walkVars, FirstFrame, NextFrame, NoFrame, TooManyFrames
<1> QED
    BY <1>1, <1>2, PTL DEF WalkSpec

LEMMA ChainFinds == ChainIsOne => SearchFindsFunction
<1> SUFFICES ASSUME ChainIsOne, NEW n \in 0 .. Len(chain), NEW i \in DOMAIN chain, NEW d \in {-1, 0, 1}
             PROVE  Search(FirstFunctions(n), Code(i) + d) =
                       IF n = 0 THEN Outside ELSE Sought(FirstFunctions(n), Code(i) + d)
    BY DEF SearchFindsFunction, Sought, Before
<1>1. DOMAIN chain = 1 .. Len(chain) /\ Len(chain) \in Nat /\ 2 * Len(chain) <= Word
    BY ChainAssumption DEF ChainIsOne, IsChain
<1>2. PICK pc \in Int : pc = Code(i) + d
    <2>1. i \in Int /\ d \in Int
        BY <1>1
    <2> QED
        BY <2>1 DEF Code
<1> DEFINE table == FirstFunctions(n)
<1>3. n \in Nat /\ 2 * n <= Word
    BY <1>1, CompactAssumption
<1>4. table = [j \in 1 .. n |-> 100 * j]
    BY DEF FirstFunctions, Code
<1> HIDE DEF table
<1>5. table \in [1 .. n -> Int]
    BY <1>3, <1>4
<1>6. table \in Seq(Int) /\ Len(table) = n
    BY <1>3, <1>5, IsASeq, LenProperties
<1>7. Ordered(table)
    BY <1>3, <1>4, <1>6 DEF Ordered
<1>8. n = 0 => Search(table, pc) = Outside
    BY <1>6, EmptyTableIsReadOutside
<1>9. n # 0 => Search(table, pc) = Sought(table, pc)
    BY <1>3, <1>6, <1>7, SearchIsRight
<1> QED
    BY <1>2, <1>8, <1>9 DEF table

\* The search gives the last function that begins at or before pc, in every nonempty table of
\* functions; in the empty one, and in no other, it reads outside.
THEOREM SearchFinds == WalkSpec => []SearchFindsFunction
BY WalkKeepsChain, ChainFinds, PTL

----------------------------------------------------------------------------
(* The stack of a chain of calls.                                          *)

LEMMA ChainFact ==
    ASSUME NEW c, IsChain(c)
    PROVE  /\ Len(c) \in Nat \ {0} /\ DOMAIN c = 1 .. Len(c)
           /\ \A i \in 1 .. Len(c) :
                 /\ c[i].kind \in Kinds /\ c[i].locals \in Nat /\ c[i].info \in Information
                 /\ IsList(c[i].saved) /\ Len(c[i].saved) \in Nat
                 /\ DOMAIN c[i].saved = 1 .. Len(c[i].saved)
                 /\ c[i].kind = "saves" <=> RBP \in Range(c[i].saved)
                 /\ c[i].kind = "leaf" => i = 1
                 /\ WordsOf(c[i]) \in Nat
<1>1. Len(c) \in Nat \ {0} /\ DOMAIN c = 1 .. Len(c)
    BY DEF IsChain
<1> SUFFICES ASSUME NEW i \in 1 .. Len(c)
             PROVE  /\ c[i].kind \in Kinds /\ c[i].locals \in Nat /\ c[i].info \in Information
                    /\ IsList(c[i].saved) /\ Len(c[i].saved) \in Nat
                    /\ DOMAIN c[i].saved = 1 .. Len(c[i].saved)
                    /\ c[i].kind = "saves" <=> RBP \in Range(c[i].saved)
                    /\ c[i].kind = "leaf" => i = 1
                    /\ WordsOf(c[i]) \in Nat
    BY <1>1
<1>2. c[i] \in [kind : Kinds, locals : Nat, info : Information, saved : Seq(Saved)]
    <2> DEFINE T == [kind : Kinds, locals : Nat, info : Information, saved : Seq(Saved)]
    <2>1. c \in Seq(T)
        BY DEF IsChain
    <2> HIDE DEF T
    <2>2. c[i] \in T
        BY <2>1, ElementOfSeq
    <2> QED
        BY <2>2 DEF T
<1>3. /\ c[i].kind \in Kinds /\ c[i].locals \in Nat /\ c[i].info \in Information
      /\ c[i].saved \in Seq(Saved)
    BY <1>2
<1>4. /\ IsInjective(c[i].saved) /\ (c[i].kind = "saves" <=> RBP \in Range(c[i].saved))
      /\ (c[i].kind = "leaf" => i = 1)
    BY <1>1 DEF IsChain
<1>5. Len(c[i].saved) \in Nat /\ DOMAIN c[i].saved = 1 .. Len(c[i].saved)
    BY <1>3
<1>6. WordsOf(c[i]) \in Nat
    BY <1>3, <1>5 DEF WordsOf
<1> QED
    BY <1>3, <1>4, <1>5, <1>6 DEF IsList

\* The stack pointers are the sums of the frames' words.
LEMMA StackPointers ==
    ASSUME NEW c, IsChain(c)
    PROVE  /\ SP(c, 1) = Base
           /\ \A i \in 1 .. Len(c) + 1 : SP(c, i) \in Int
           /\ \A i \in 1 .. Len(c) : SP(c, i + 1) = SP(c, i) + WordsOf(c[i])
<1> DEFINE n == Len(c)
           v == [i \in 1 .. n |-> WordsOf(c[i])]
           Equations(f) == f = [i \in 0 .. n |-> IF i = 0 THEN Base ELSE f[i - 1] + WordsOf(c[i])]
           B == CHOOSE f : Equations(f)
<1>1. n \in Nat /\ \A i \in 1 .. n : WordsOf(c[i]) \in Int
    BY ChainFact
<1> HIDE DEF n
<1>2. v \in [1 .. n -> Int]
    BY <1>1
<1>3. \E f \in [0 .. n -> Int] : f[0] = Base /\ \A i \in 1 .. n : f[i] = f[i - 1] + v[i]
    <2> HIDE DEF v
    <2>1. Base \in Int
        BY DEF Base
    <2> QED
        BY <1>1, <1>2, <2>1, RunningSumExists
<1>4. PICK f \in [0 .. n -> Int] : f[0] = Base /\ \A i \in 1 .. n : f[i] = f[i - 1] + v[i]
    BY <1>3
<1>5. Equations(f)
    <2>1. \A i \in 0 .. n : f[i] = IF i = 0 THEN Base ELSE f[i - 1] + WordsOf(c[i])
        <3> SUFFICES ASSUME NEW i \in 0 .. n, i # 0
                     PROVE  f[i] = f[i - 1] + WordsOf(c[i])
            BY <1>4
        <3>1. i \in 1 .. n /\ v[i] = WordsOf(c[i])
            BY <1>1
        <3> QED
            BY <1>4, <3>1
    <2>2. f = [i \in 0 .. n |-> f[i]]
        OBVIOUS
    <2> QED
        BY <2>1, <2>2
<1>6. Equations(B)
    <2> HIDE DEF Equations
    <2> QED
        BY <1>5
<1>7. \A i : SP(c, i) = B[i - 1]
    BY DEF SP, n
<1> HIDE DEF B
<1>8. B[0] = Base /\ \A i \in 1 .. n : B[i] = B[i - 1] + WordsOf(c[i])
    <2>1. B[0] = Base
        BY <1>1, <1>6
    <2>2. ASSUME NEW i \in 1 .. n
          PROVE  B[i] = B[i - 1] + WordsOf(c[i])
        <3>1. i \in 0 .. n /\ i # 0
            BY <1>1
        <3> QED
            BY <1>6, <3>1
    <2> QED
        BY <2>1, <2>2
<1> HIDE DEF Equations
<1> DEFINE S == {i \in 0 .. n : B[i] \in Int}
<1>9. 0 .. n \subseteq S
    <2>1. 0 \in S
        BY <1>1, <1>8 DEF Base
    <2>2. \A i \in 1 .. n : i - 1 \in S => i \in S
        <3> SUFFICES ASSUME NEW i \in 1 .. n, i - 1 \in S PROVE i \in S
            OBVIOUS
        <3>1. i \in 0 .. n /\ B[i - 1] \in Int
            BY <1>1
        <3> QED
            BY <1>1, <1>8, <3>1
    <2> HIDE DEF S
    <2> QED
        BY <1>1, <2>1, <2>2, SetInduction
<1>10. ASSUME NEW i \in 1 .. n + 1
       PROVE  SP(c, i) \in Int
    <2>1. i - 1 \in 0 .. n
        BY <1>1
    <2> QED
        BY <1>7, <1>9, <2>1
<1>11. ASSUME NEW i \in 1 .. n
       PROVE  SP(c, i + 1) = SP(c, i) + WordsOf(c[i])
    <2>1. (i + 1) - 1 = i
        BY <1>1
    <2> QED
        BY <1>7, <1>8, <2>1
<1>12. SP(c, 1) = Base
    BY <1>7, <1>8
<1> QED
    BY <1>10, <1>11, <1>12 DEF n

\* Addresses rise from frame to frame.
LEMMA StackRises ==
    ASSUME NEW c, IsChain(c), NEW i \in 1 .. Len(c) + 1, NEW j \in 1 .. Len(c) + 1, i <= j
    PROVE  SP(c, i) <= SP(c, j)
<1> DEFINE d == j - i
           S == {m \in 0 .. d : SP(c, i) <= SP(c, i + m)}
<1>1. Len(c) \in Nat /\ d \in Nat /\ i + d = j /\ i \in Nat
    BY ChainFact
<1>2. 0 \in S
    <2>1. SP(c, i) \in Int
        BY StackPointers
    <2>2. i + 0 = i /\ 0 \in 0 .. d
        BY <1>1
    <2> QED
        BY <2>1, <2>2
<1>3. \A m \in 1 .. d : m - 1 \in S => m \in S
    <2> SUFFICES ASSUME NEW m \in 1 .. d, m - 1 \in S PROVE m \in S
        OBVIOUS
    <2>1. i + (m - 1) \in 1 .. Len(c) /\ (i + (m - 1)) + 1 = i + m /\ m \in 0 .. d
        BY <1>1
    <2> DEFINE p == i + (m - 1)
    <2> HIDE DEF p
    <2>2. p \in 1 .. Len(c) /\ p + 1 = i + m /\ SP(c, i) <= SP(c, p)
        BY <2>1 DEF p
    <2>3. /\ SP(c, i) \in Int /\ SP(c, p) \in Int /\ WordsOf(c[p]) \in Nat
          /\ SP(c, p + 1) = SP(c, p) + WordsOf(c[p])
        <3>1. p \in 1 .. Len(c) + 1
            BY <1>1, <2>2
        <3> QED
            BY <2>2, <3>1, StackPointers, ChainFact
    <2> QED
        BY <2>1, <2>2, <2>3
<1> HIDE DEF S
<1>4. d \in S
    <2> HIDE DEF d
    <2>1. d \in Nat /\ d \in 0 .. d
        BY <1>1
    <2>2. 0 .. d \subseteq S
        BY <1>2, <1>3, <2>1, SetInduction
    <2> QED
        BY <2>1, <2>2
<1> QED
    BY <1>1, <1>4 DEF S

\* An address is in the frame of one call only.
LEMMA OneCallHolds ==
    ASSUME NEW c, IsChain(c), NEW i \in 1 .. Len(c), NEW a \in Int,
           SP(c, i) <= a, a < SP(c, i + 1)
    PROVE  (CHOOSE m \in DOMAIN c : SP(c, m) <= a /\ a < SP(c, m + 1)) = i
<1>1. Len(c) \in Nat /\ DOMAIN c = 1 .. Len(c)
    BY ChainFact
<1>2. ASSUME NEW m \in DOMAIN c, SP(c, m) <= a, a < SP(c, m + 1)
      PROVE  m = i
    <2>1. /\ m \in 1 .. Len(c) + 1 /\ m + 1 \in 1 .. Len(c) + 1
          /\ i \in 1 .. Len(c) + 1 /\ i + 1 \in 1 .. Len(c) + 1
        BY <1>1
    <2>2. SP(c, m) \in Int /\ SP(c, m + 1) \in Int /\ SP(c, i) \in Int /\ SP(c, i + 1) \in Int
        BY <2>1, StackPointers
    <2>3. ~(m + 1 <= i)
        <3> SUFFICES ASSUME m + 1 <= i PROVE FALSE
            OBVIOUS
        <3>1. SP(c, m + 1) <= SP(c, i)
            BY <2>1, StackRises
        <3> QED
            BY <1>2, <2>2, <3>1
    <2>4. ~(i + 1 <= m)
        <3> SUFFICES ASSUME i + 1 <= m PROVE FALSE
            OBVIOUS
        <3>1. SP(c, i + 1) <= SP(c, m)
            BY <2>1, StackRises
        <3> QED
            BY <1>2, <2>2, <3>1
    <2> QED
        BY <1>1, <2>3, <2>4
<1>3. i \in DOMAIN c
    BY <1>1
<1> QED
    BY <1>2, <1>3

LEMMA MinIs ==
    ASSUME NEW S \in SUBSET Nat, NEW m \in S, \A l \in S : m <= l
    PROVE  Min(S) = m
<1>1. Min(S) = CHOOSE x \in S : \A y \in S : x <= y
    BY DEF Min
<1>2. ASSUME NEW x \in S, \A y \in S : x <= y
      PROVE  x = m
    <2>1. x <= m /\ m <= x /\ x \in Nat /\ m \in Nat
        BY <1>2
    <2> QED
        BY <2>1
<1> QED
    BY <1>1, <1>2

\* The calls from i on that set the frame pointer.
Setting(c, i) == {m \in i .. Len(c) : c[m].kind \in {"framed", "saves"}}
Set(c, m) == IF c[m].kind = "framed" THEN SP(c, m + 1) - 2 ELSE Unmapped

LEMMA FirstSets ==
    ASSUME NEW c, IsChain(c), NEW i \in 1 .. Len(c) + 1
    PROVE  /\ Setting(c, i) = {} => FP(c, i) = 0
           /\ \A m \in Setting(c, i) : (\A l \in Setting(c, i) : m <= l) => FP(c, i) = Set(c, m)
           /\ Setting(c, i) # {} => \E m \in Setting(c, i) : FP(c, i) = Set(c, m)
           /\ FP(c, i) \in Int
<1> DEFINE S == Setting(c, i)
<1>1. /\ Len(c) \in Nat /\ S \in SUBSET Nat /\ S \subseteq 1 .. Len(c)
    BY ChainFact DEF Setting
<1>2. FP(c, i) = IF S = {} THEN 0
                 ELSE IF c[Min(S)].kind = "framed" THEN SP(c, Min(S)) + c[Min(S)].locals ELSE Unmapped
    BY DEF FP, Setting
<1> HIDE DEF S
<1>3. ASSUME NEW m \in S, \A l \in S : m <= l
      PROVE  FP(c, i) = Set(c, m) /\ Set(c, m) \in Int
    <2>1. Min(S) = m
        BY <1>1, <1>3, MinIs
    <2>2. m \in 1 .. Len(c) /\ m \in 1 .. Len(c) + 1
        BY <1>1, <1>3
    <2>3. SP(c, m + 1) = SP(c, m) + WordsOf(c[m]) /\ SP(c, m) \in Int /\ c[m].locals \in Nat
        BY <2>2, StackPointers, ChainFact
    <2>4. CASE c[m].kind = "framed"
        <3>1. SP(c, m + 1) = SP(c, m) + (c[m].locals + 2)
            BY <2>3, <2>4 DEF WordsOf
        <3> QED
            BY <1>2, <1>3, <2>1, <2>3, <2>4, <3>1 DEF Set
    <2>5. CASE c[m].kind # "framed"
        BY <1>2, <1>3, <2>1, <2>5 DEF Set, Unmapped
    <2> QED
        BY <2>4, <2>5
<1>4. S # {} => \E m \in S : \A l \in S : m <= l
    BY <1>1, LeastElement
<1>5. FP(c, i) \in Int
    BY <1>2, <1>3, <1>4
<1> QED
    BY <1>2, <1>3, <1>4, <1>5 DEF S

LEMMA FramePointers ==
    ASSUME NEW c, IsChain(c), NEW i \in 1 .. Len(c)
    PROVE  /\ c[i].kind = "framed" => FP(c, i) = SP(c, i + 1) - 2
           /\ c[i].kind = "saves" => FP(c, i) = Unmapped
           /\ c[i].kind \in {"plain", "leaf"} => FP(c, i) = FP(c, i + 1)
<1>1. Len(c) \in Nat /\ i \in 1 .. Len(c) + 1 /\ i + 1 \in 1 .. Len(c) + 1 /\ i \in Nat
    BY ChainFact
<1>2. ASSUME c[i].kind \in {"framed", "saves"}
      PROVE  FP(c, i) = Set(c, i)
    <2>1. i \in Setting(c, i) /\ \A l \in Setting(c, i) : i <= l
        BY <1>1, <1>2 DEF Setting
    <2> QED
        BY <1>1, <2>1, FirstSets
<1>3. ASSUME c[i].kind \in {"plain", "leaf"}
      PROVE  FP(c, i) = FP(c, i + 1)
    <2>1. Setting(c, i) = Setting(c, i + 1)
        <3>1. \A m : m \in i .. Len(c) <=> m = i \/ m \in i + 1 .. Len(c)
            BY <1>1
        <3>2. c[i].kind \notin {"framed", "saves"}
            BY <1>3
        <3> QED
            BY <3>1, <3>2 DEF Setting
    <2>2. CASE Setting(c, i) = {}
        BY <1>1, <2>1, <2>2, FirstSets
    <2>3. CASE Setting(c, i) # {}
        <3>1. Setting(c, i) \in SUBSET Nat
            BY <1>1 DEF Setting
        <3>2. PICK m \in Setting(c, i) : \A l \in Setting(c, i) : m <= l
            BY <2>3, <3>1, LeastElement
        <3>3. FP(c, i) = Set(c, m)
            BY <1>1, <3>2, FirstSets
        <3>4. FP(c, i + 1) = Set(c, m)
            BY <1>1, <2>1, <3>2, FirstSets
        <3> QED
            BY <3>3, <3>4
    <2> QED
        BY <2>2, <2>3
<1> QED
    BY <1>2, <1>3 DEF Set

\* A frame pointer that is neither 0 nor unmapped is that of a framed function.
LEMMA FramedIsNext ==
    ASSUME NEW c, IsChain(c), NEW i \in 1 .. Len(c), FP(c, i) \notin {0, Unmapped}
    PROVE  \E m \in i .. Len(c) : c[m].kind = "framed" /\ FP(c, i) = SP(c, m + 1) - 2
<1>1. Len(c) \in Nat /\ i \in 1 .. Len(c) + 1
    BY ChainFact
<1>2. Setting(c, i) # {}
    BY <1>1, FirstSets
<1>3. PICK m \in Setting(c, i) : FP(c, i) = Set(c, m)
    BY <1>1, <1>2, FirstSets
<1> QED
    BY <1>3 DEF Set, Setting

----------------------------------------------------------------------------
(* What the stack's words hold.                                            *)

LEMMA LayoutType ==
    ASSUME NEW c, IsChain(c)
    PROVE  /\ Layout(c) \in [Base .. SP(c, Len(c) + 1) - 1 -> Int]
           /\ SP(c, Len(c) + 1) \in Int
<1>1. Len(c) \in Nat /\ DOMAIN c = 1 .. Len(c)
    BY ChainFact
<1>2. SP(c, Len(c) + 1) \in Int
    BY <1>1, StackPointers
<1>3. ASSUME NEW i \in 1 .. Len(c)
      PROVE  FP(c, i + 1) \in Int /\ Return(c, i + 1) \in Int
    <2>1. i + 1 \in 1 .. Len(c) + 1 /\ i + 1 \in Int
        BY <1>1
    <2> QED
        BY <2>1, FirstSets DEF Return, Code
<1>4. ASSUME NEW a \in Base .. SP(c, Len(c) + 1) - 1
      PROVE  \E i \in 1 .. Len(c) : SP(c, i) <= a /\ a < SP(c, i + 1)
    <2> DEFINE S == {m \in 0 .. Len(c) : SP(c, m + 1) <= a}
    <2>1. Base \in Int /\ a \in Int /\ Base <= a /\ a < SP(c, Len(c) + 1)
        BY <1>2 DEF Base
    <2>2. 0 \in S
        <3>1. 0 + 1 = 1 /\ 0 \in 0 .. Len(c) /\ SP(c, 1) = Base
            BY <1>1, StackPointers
        <3> QED
            BY <2>1, <3>1
    <2>3. Len(c) \notin S
        BY <1>1, <1>2, <2>1
    <2>4. \E m \in 1 .. Len(c) : m - 1 \in S /\ m \notin S
        <3> SUFFICES ASSUME \A m \in 1 .. Len(c) : m - 1 \in S => m \in S PROVE FALSE
            OBVIOUS
        <3> HIDE DEF S
        <3>1. 0 .. Len(c) \subseteq S
            BY <1>1, <2>2, SetInduction
        <3> QED
            BY <1>1, <2>3, <3>1
    <2>5. PICK m \in 1 .. Len(c) : m - 1 \in S /\ m \notin S
        BY <2>4
    <2>6. m \in 0 .. Len(c) /\ (m - 1) + 1 = m /\ m + 1 \in 1 .. Len(c) + 1
        BY <1>1
    <2>7. SP(c, m + 1) \in Int
        BY <2>6, StackPointers
    <2>8. SP(c, m) <= a /\ ~(SP(c, m + 1) <= a)
        BY <2>5, <2>6
    <2> QED
        BY <2>1, <2>7, <2>8
<1>5. ASSUME NEW a \in Base .. SP(c, Len(c) + 1) - 1
      PROVE  Layout(c)[a] \in Int
    <2>1. PICK i \in 1 .. Len(c) : i = CHOOSE m \in DOMAIN c : SP(c, m) <= a /\ a < SP(c, m + 1)
        BY <1>1, <1>4
    <2>2. Layout(c)[a] = CASE a \in SavedFP(c, i) -> FP(c, i + 1)
                           [] a \in SavedIP(c, i) -> Return(c, i + 1)
                           [] OTHER -> 0
        BY <2>1 DEF Layout
    <2> QED
        BY <1>3, <2>2
<1> QED
    BY <1>2, <1>5 DEF Layout

LEMMA SavedPlace ==
    ASSUME NEW s \in Int, NEW w \in Nat, NEW l \in Nat, NEW m \in 1 .. l
    PROVE  LET a == (s + (w + l + 1)) - 2 - l + m IN a \in Int /\ s <= a /\ a < s + (w + l + 1)
OBVIOUS

\* Where a call keeps its caller's frame pointer and its return address, intact.
LEMMA SavedWords ==
    ASSUME NEW c, IsChain(c), NEW i \in 1 .. Len(c)
    PROVE  /\ c[i].kind # "leaf" => /\ SP(c, i + 1) - 1 \in DOMAIN Layout(c)
                                    /\ Layout(c)[SP(c, i + 1) - 1] = Return(c, i + 1)
           /\ \A a \in SavedFP(c, i) : a \in DOMAIN Layout(c) /\ Layout(c)[a] = FP(c, i + 1)
<1> DEFINE top == SP(c, i + 1)
           l == Len(c[i].saved)
<1>1. /\ Len(c) \in Nat /\ i \in 1 .. Len(c) + 1 /\ i + 1 \in 1 .. Len(c) + 1
      /\ Len(c) + 1 \in 1 .. Len(c) + 1 /\ 1 \in 1 .. Len(c) + 1 /\ i + 1 <= Len(c) + 1 /\ 1 <= i
    BY ChainFact
<1>2. /\ SP(c, i) \in Int /\ top \in Int /\ top = SP(c, i) + WordsOf(c[i])
      /\ SP(c, 1) = Base /\ SP(c, 1) <= SP(c, i) /\ top <= SP(c, Len(c) + 1)
      /\ SP(c, Len(c) + 1) \in Int /\ Base \in Int
    <2>1. SP(c, i) \in Int /\ top \in Int /\ SP(c, Len(c) + 1) \in Int
        BY <1>1, StackPointers
    <2>2. top = SP(c, i) + WordsOf(c[i]) /\ SP(c, 1) = Base
        BY StackPointers
    <2>3. SP(c, 1) <= SP(c, i)
        BY <1>1, StackRises
    <2>4. top <= SP(c, Len(c) + 1)
        BY <1>1, StackRises
    <2> QED
        BY <2>1, <2>2, <2>3, <2>4 DEF Base
<1>3. /\ l \in Nat /\ c[i].locals \in Nat /\ c[i].kind \in Kinds /\ DOMAIN c[i].saved = 1 .. l
    BY ChainFact
<1> HIDE DEF l
<1>4. ASSUME NEW a \in Int, SP(c, i) <= a, a < top
      PROVE  /\ a \in DOMAIN Layout(c)
             /\ Layout(c)[a] = CASE a \in SavedFP(c, i) -> FP(c, i + 1)
                                 [] a \in SavedIP(c, i) -> Return(c, i + 1)
                                 [] OTHER -> 0
    <2>1. (CHOOSE m \in DOMAIN c : SP(c, m) <= a /\ a < SP(c, m + 1)) = i
        BY <1>4, OneCallHolds
    <2>2. a \in Base .. SP(c, Len(c) + 1) - 1
        BY <1>2, <1>4
    <2> QED
        BY <2>1, <2>2 DEF Layout
<1>5. ASSUME c[i].kind # "leaf"
      PROVE  /\ SP(c, i) <= top - 1 /\ top - 1 < top /\ top - 1 \in Int
             /\ SavedIP(c, i) = {top - 1} /\ top - 1 \notin SavedFP(c, i)
    <2>1. WordsOf(c[i]) >= 1 /\ WordsOf(c[i]) \in Int
        <3>1. WordsOf(c[i]) = c[i].locals + 2 \/ WordsOf(c[i]) = c[i].locals + l + 1
            BY <1>3, <1>5 DEF WordsOf, Kinds, l
        <3> QED
            BY <1>3, <3>1
    <2>2. top - 1 \notin SavedFP(c, i)
        <3>1. CASE c[i].kind = "framed"
            BY <1>2, <3>1 DEF SavedFP
        <3>2. CASE c[i].kind = "saves"
            <4> SUFFICES ASSUME NEW m \in 1 .. l, top - 1 = top - 2 - l + m PROVE FALSE
                BY <1>3, <3>2 DEF SavedFP, l
            <4> QED
                BY <1>2, <1>3
        <3>3. CASE c[i].kind \notin {"framed", "saves"}
            BY <3>3 DEF SavedFP
        <3> QED
            BY <3>1, <3>2, <3>3
    <2> QED
        BY <1>2, <1>5, <2>1, <2>2 DEF SavedIP
<1>6. ASSUME NEW a \in SavedFP(c, i)
      PROVE  a \in Int /\ SP(c, i) <= a /\ a < top
    <2>1. CASE c[i].kind = "framed"
        <3>1. a = top - 2 /\ WordsOf(c[i]) = c[i].locals + 2
            BY <1>6, <2>1 DEF SavedFP, WordsOf
        <3> HIDE DEF top
        <3>2. top = SP(c, i) + (c[i].locals + 2) /\ SP(c, i) \in Int /\ c[i].locals \in Nat
            BY <1>2, <1>3, <3>1
        <3> QED
            BY <3>1, <3>2
    <2>2. CASE c[i].kind = "saves"
        <3>1. PICK m \in 1 .. l : a = top - 2 - l + m
            BY <1>3, <1>6, <2>2 DEF SavedFP, l
        <3>2. WordsOf(c[i]) = c[i].locals + l + 1
            BY <2>2 DEF WordsOf, l
        <3> HIDE DEF top
        <3>3. /\ top = SP(c, i) + (c[i].locals + l + 1) /\ SP(c, i) \in Int
              /\ c[i].locals \in Nat /\ l \in Nat /\ m \in 1 .. l
            BY <1>2, <1>3, <3>2
        <3> QED
            BY <3>1, <3>3, SavedPlace
    <2>3. CASE c[i].kind \notin {"framed", "saves"}
        BY <1>6, <2>3 DEF SavedFP
    <2> QED
        BY <2>1, <2>2, <2>3
<1>7. ASSUME c[i].kind # "leaf"
      PROVE  top - 1 \in DOMAIN Layout(c) /\ Layout(c)[top - 1] = Return(c, i + 1)
    <2>1. top - 1 \in Int /\ SP(c, i) <= top - 1 /\ top - 1 < top
        BY <1>5, <1>7
    <2>2. top - 1 \in SavedIP(c, i) /\ top - 1 \notin SavedFP(c, i)
        BY <1>5, <1>7
    <2> QED
        BY <1>4, <2>1, <2>2
<1>8. ASSUME NEW a \in SavedFP(c, i)
      PROVE  a \in DOMAIN Layout(c) /\ Layout(c)[a] = FP(c, i + 1)
    <2>1. a \in Int /\ SP(c, i) <= a /\ a < top
        BY <1>6
    <2>2. a \notin SavedIP(c, i)
        BY <1>5, <1>8 DEF SavedIP
    <2> QED
        BY <1>4, <1>8, <2>1, <2>2
<1> QED
    BY <1>7, <1>8

----------------------------------------------------------------------------
(* Registers, and the call that a pc is attributed to.                     *)

Registers == {"sp", "fp", "ip", "lr"}
IsRegs(r) ==
    /\ DOMAIN r \subseteq Registers /\ "ip" \in DOMAIN r /\ r = [q \in DOMAIN r |-> r[q]]
    /\ \A q \in DOMAIN r : r[q] \in Int

LEMMA KeptFact ==
    ASSUME NEW r
    PROVE  LET s == Restrict(r, DOMAIN r \cap Nonvolatile)
           IN  /\ DOMAIN s = DOMAIN r \cap {"sp", "fp"}
               /\ \A p \in DOMAIN s : s[p] = r[p]
BY DEF Restrict, Nonvolatile

LEMMA RunningFact ==
    ASSUME NEW c, IsChain(c)
    PROVE  LET s == Running(c)
           IN  /\ IsRegs(s) /\ DOMAIN s = Registers
               /\ s["sp"] = SP(c, 1) /\ s["fp"] = FP(c, 1) /\ s["ip"] = Return(c, 1)
               /\ s["lr"] = IF c[1].kind = "leaf" THEN Return(c, 2) ELSE Unmapped
<1> DEFINE s == Running(c)
<1>1. /\ DOMAIN s = Registers
      /\ s["sp"] = SP(c, 1) /\ s["fp"] = FP(c, 1) /\ s["ip"] = Return(c, 1)
      /\ s["lr"] = IF c[1].kind = "leaf" THEN Return(c, 2) ELSE Unmapped
      /\ s = [q \in DOMAIN s |-> s[q]]
    BY DEF Running, Registers
<1>2. SP(c, 1) \in Int /\ FP(c, 1) \in Int /\ Return(c, 1) \in Int /\ Return(c, 2) \in Int /\ Unmapped \in Int
    <2>1. 1 \in 1 .. Len(c) + 1
        BY ChainFact
    <2> QED
        BY <2>1, StackPointers, FirstSets DEF Return, Code, Unmapped
<1> HIDE DEF s
<1>3. \A q \in DOMAIN s : s[q] \in Int
    BY <1>1, <1>2 DEF Registers
<1> QED
    BY <1>1, <1>3 DEF IsRegs, s, Registers

LEMMA AttributedTo ==
    ASSUME IsChain(chain), NEW pc \in Int
    PROVE  /\ FunctionAt(pc) \in 0 .. Len(chain)
           /\ \A i \in 1 .. Len(chain) : pc = Return(chain, i) => FunctionAt(pc) = i
<1> DEFINE table == TableOf(chain)
           n == Len(chain)
           m == Search(table, pc)
<1>1. /\ table \in Seq(Int) /\ Len(table) = n /\ n \in Nat \ {0}
      /\ \A i \in 1 .. n : table[i] = 100 * i
      /\ Ordered(table) /\ Len(table) > 0 /\ 2 * Len(table) <= Word
    BY TableFact
<1>2. FunctionAt(pc) = IF m \in 0 .. n - 1 /\ pc < Code(n + 1) THEN m + 1 ELSE 0
    BY DEF FunctionAt, TableOf
<1> HIDE DEF table, n
<1>3. m = Sought(table, pc)
    BY <1>1, SearchIsRight
<1> HIDE DEF m
<1>4. FunctionAt(pc) \in 0 .. n
    BY <1>1, <1>2
<1>5. ASSUME NEW i \in 1 .. n, pc = Return(chain, i)
      PROVE  FunctionAt(pc) = i
    <2>1. pc = 100 * i + 1 /\ i \in Nat /\ i - 1 \in 0 .. n - 1
        BY <1>1, <1>5 DEF Return, Code, n
    <2>2. table[(i - 1) + 1] <= pc
        <3>1. (i - 1) + 1 = i
            BY <2>1
        <3> QED
            BY <1>1, <2>1, <3>1
    <2>3. (i - 1) + 1 < n => table[(i - 1) + 2] > pc
        <3>1. SUFFICES ASSUME i < n PROVE table[(i - 1) + 2] > pc
            BY <2>1
        <3>2. (i - 1) + 2 = i + 1 /\ i + 1 \in 1 .. n
            BY <1>1, <2>1, <3>1
        <3>3. table[i + 1] = 100 * (i + 1)
            BY <1>1, <3>2
        <3> QED
            BY <2>1, <3>2, <3>3
    <2>4. m = i - 1
        <3>1. i - 1 \in 0 .. Len(table) - 1
            BY <1>1, <2>1
        <3>2. (i - 1) + 1 < Len(table) => table[(i - 1) + 2] > pc
            BY <1>1, <2>3
        <3>3. Sought(table, pc) = i - 1
            BY <1>1, <2>2, <3>1, <3>2, EntryIsSought
        <3> QED
            BY <1>3, <3>3
    <2>5. pc < Code(n + 1)
        BY <1>1, <2>1 DEF Code
    <2>6. FunctionAt(pc) = m + 1
        BY <1>2, <2>1, <2>4, <2>5
    <2> QED
        BY <2>1, <2>4, <2>6
<1> QED
    BY <1>4, <1>5 DEF n

----------------------------------------------------------------------------
(* The entry that the linker's encoding of a call stands for.              *)

LEMMA EntryFact ==
    ASSUME NEW c, IsChain(c), NEW i \in 1 .. Len(c)
    PROVE  LET entry == EntryInit(EncodingOf(c[i]))
           IN  /\ entry.adjust \in Int
               /\ c[i].info \in {"none", "dwarf"} => entry.type \in {"none", "dwarf"}
               /\ c[i].info \in {"compact", "indirect"} =>
                     /\ c[i].kind = "framed" => entry.type = "frame_ptr"
                     /\ c[i].kind = "leaf" =>
                           /\ entry.type = "immd" /\ entry.offset = WordsOf(c[i])
                           /\ entry.list = <<>> /\ entry.lr = TRUE
                     /\ c[i].kind \in {"plain", "saves"} =>
                           /\ entry.list = c[i].saved /\ entry.lr = FALSE
                           /\ \/ entry.type = "immd" /\ entry.offset = WordsOf(c[i])
                              \/ entry.type = "indirect"
<1> DEFINE f == c[i]
           encoding == EncodingOf(f)
           entry == EntryInit(encoding)
<1>1. /\ f.kind \in Kinds /\ f.info \in Information /\ IsList(f.saved) /\ Len(f.saved) \in Nat
      /\ WordsOf(f) \in Nat
    BY ChainFact
<1> HIDE DEF f
<1>2. CASE f.info = "dwarf"
    <2>1. encoding.mode = "dwarf"
        BY <1>2 DEF EncodingOf
    <2> HIDE DEF encoding
    <2>2. entry = [type |-> "dwarf", offset |-> 0, adjust |-> 0, list |-> <<>>, lr |-> FALSE]
        BY <2>1 DEF EntryInit
    <2> QED
        BY <1>2, <2>2 DEF f, encoding
<1>3. CASE f.info = "none"
    <2>1. encoding.mode = "null"
        BY <1>3 DEF EncodingOf
    <2> HIDE DEF encoding
    <2>2. entry = [type |-> "none", offset |-> 0, adjust |-> 0, list |-> <<>>, lr |-> FALSE]
        BY <2>1 DEF EntryInit
    <2> QED
        BY <1>3, <2>2 DEF f, encoding
<1>4. CASE f.info \in {"compact", "indirect"} /\ f.kind = "framed"
    <2>1. encoding.mode = "frame"
        BY <1>4 DEF EncodingOf
    <2> HIDE DEF encoding
    <2>2. entry = [type |-> "frame_ptr", offset |-> 0, adjust |-> 0, list |-> <<>>, lr |-> FALSE]
        BY <2>1 DEF EntryInit
    <2> QED
        BY <1>4, <2>2 DEF f, encoding
<1>5. CASE f.info \in {"compact", "indirect"} /\ f.kind = "leaf"
    <2>1. encoding = [mode |-> "arm64_frameless", size |-> WordsOf(f)]
        BY <1>5 DEF EncodingOf
    <2>2. encoding.mode = "arm64_frameless" /\ encoding.size = WordsOf(f)
        BY <2>1
    <2> HIDE DEF encoding
    <2>3. entry = [type |-> "immd", offset |-> WordsOf(f), adjust |-> 0, list |-> <<>>, lr |-> TRUE]
        BY <2>2 DEF EntryInit
    <2> QED
        BY <1>5, <2>3 DEF f, encoding
<1>6. CASE f.info \in {"compact", "indirect"} /\ f.kind \in {"plain", "saves"}
    <2> DEFINE number == IF f.saved = <<>> THEN 0 ELSE Encode(f.saved)
    <2>1. encoding = [mode |-> IF f.info = "compact" THEN "stack_immd" ELSE "stack_ind",
                      size |-> WordsOf(f), adjust |-> 1, count |-> Len(f.saved),
                      permutation |-> number]
        BY <1>6 DEF EncodingOf
    <2> HIDE DEF number
    <2>2. /\ encoding.mode = IF f.info = "compact" THEN "stack_immd" ELSE "stack_ind"
          /\ encoding.size = WordsOf(f) /\ encoding.adjust = 1 /\ encoding.count = Len(f.saved)
          /\ encoding.permutation = number
        BY <2>1
    <2> HIDE DEF encoding
    <2> DEFINE list == IF Len(f.saved) = 0 THEN <<>> ELSE Decode(number, Len(f.saved))
    <2>3. list = f.saved
        <3>1. f.saved \in Seq(Saved)
            BY <1>1 DEF IsList
        <3>2. CASE Len(f.saved) = 0
            <4>1. f.saved = <<>>
                BY <3>1, <3>2, EmptySeq
            <4> QED
                BY <3>2, <4>1
        <3>3. CASE Len(f.saved) > 0
            <4>1. f.saved # <<>>
                BY <3>3
            <4>2. number = Encode(f.saved)
                BY <4>1 DEF number
            <4> QED
                BY <1>1, <3>3, <4>2, DecodeOfEncode
        <3> QED
            BY <1>1, <3>2, <3>3
    <2>4. entry = [type |-> IF f.info = "compact" THEN "immd" ELSE "indirect",
                   offset |-> WordsOf(f), adjust |-> 1, lr |-> FALSE, list |-> list]
        <3> HIDE DEF list
        <3>1. CASE f.info = "compact"
            BY <2>2, <3>1 DEF EntryInit, list
        <3>2. CASE f.info # "compact"
            BY <2>2, <3>2 DEF EntryInit, list
        <3> QED
            BY <3>1, <3>2
    <2> QED
        BY <1>6, <2>3, <2>4 DEF f, encoding
<1> QED
    BY <1>1, <1>2, <1>3, <1>4, <1>5, <1>6 DEF Kinds, Information, f

----------------------------------------------------------------------------
(* What the readers give for a pc in call i.                               *)

BaseOf(i) == IF chain[i].kind = "framed" THEN "fp" ELSE "sp"
TopOf(regs, i) == regs[BaseOf(i)] + (IF chain[i].kind = "framed" THEN 2 ELSE WordsOf(chain[i]))

\* Where call i keeps its caller's frame pointer if its frame ends at top.
PlacesOf(c, i, top) ==
    CASE c[i].kind = "framed" -> {top - 2}
      [] c[i].kind = "saves" -> {top - 2 - Len(c[i].saved) + m :
                                    m \in {m \in DOMAIN c[i].saved : c[i].saved[m] = RBP}}
      [] OTHER -> {}

\* new is what the information about call i says of its caller.
Given(regs, i, new) ==
    LET top == TopOf(regs, i) IN
    /\ BaseOf(i) \in DOMAIN regs
    /\ DOMAIN new \subseteq {"sp", "fp", "ip"} /\ "sp" \in DOMAIN new /\ "ip" \in DOMAIN new
    /\ new = [q \in DOMAIN new |-> new[q]]
    /\ new["sp"] = top
    /\ IF chain[i].kind = "leaf" THEN "lr" \in DOMAIN regs /\ new["ip"] = regs["lr"]
       ELSE top - 1 \in DOMAIN mem /\ new["ip"] = mem[top - 1]
    /\ IF chain[i].kind \in {"plain", "leaf"}
       THEN /\ "fp" \in DOMAIN new <=> "fp" \in DOMAIN regs
            /\ "fp" \in DOMAIN regs => new["fp"] = regs["fp"]
       ELSE "fp" \in DOMAIN new /\ \E a \in PlacesOf(chain, i, top) : a \in DOMAIN mem /\ new["fp"] = mem[a]

\* The frame of call i can be read.
FrameIsThere(regs, i) ==
    LET top == TopOf(regs, i) IN
    /\ BaseOf(i) \in DOMAIN regs
    /\ chain[i].kind = "leaf" => "lr" \in DOMAIN regs
    /\ chain[i].kind = "framed" => top - 2 \in DOMAIN mem /\ top - 1 \in DOMAIN mem
    /\ chain[i].kind \in {"plain", "saves"} => \A a \in top - 1 - Len(chain[i].saved) .. top - 1 : a \in DOMAIN mem

LEMMA RestoreFact ==
    ASSUME NEW list, IsList(list), NEW state, NEW address \in Int
    PROVE  LET new == RestoreSaved(state, mem, list, address)
           IN  /\ new.err = "success" => Readable(mem, address, Len(list))
               /\ Readable(mem, address, Len(list)) /\ RBP \notin Range(list) => new = OK(state)
               /\ Readable(mem, address, Len(list)) /\ RBP \in Range(list) =>
                     \E m \in 1 .. Len(list) :
                        /\ list[m] = RBP /\ address + m - 1 \in DOMAIN mem
                        /\ new = OK(SetReg(state, "fp", mem[address + m - 1]))
<1> DEFINE n == Len(list)
           at == CHOOSE j \in DOMAIN list : list[j] = RBP
           new == RestoreSaved(state, mem, list, address)
<1>1. n \in Nat /\ DOMAIN list = 1 .. n
    BY DEF IsList
<1>2. new = IF ~Readable(mem, address, n) THEN Fail("ENOMEM")
            ELSE IF RBP \notin Range(list) THEN OK(state)
            ELSE OK(SetReg(state, "fp", mem[address + at - 1]))
    BY DEF RestoreSaved
<1>3. Fail("ENOMEM").err = "ENOMEM"
    BY DEF Fail
<1> HIDE DEF new
<1>4. ASSUME Readable(mem, address, n), RBP \in Range(list)
      PROVE  at \in 1 .. n /\ list[at] = RBP /\ address + at - 1 \in DOMAIN mem
    <2>1. \E j \in DOMAIN list : list[j] = RBP
        BY <1>4 DEF Range
    <2>2. at \in 1 .. n /\ list[at] = RBP
        BY <1>1, <2>1
    <2> HIDE DEF at, n
    <2>3. address + at - 1 \in address .. address + n - 1
        BY <1>1, <2>2
    <2> QED
        BY <1>4, <2>2, <2>3 DEF Readable
<1> HIDE DEF at, n
<1>5. new.err = "success" => Readable(mem, address, n)
    BY <1>2, <1>3
<1> QED
    BY <1>2, <1>4, <1>5 DEF new, n

LEMMA FramePtrApplied ==
    ASSUME NEW kept, NEW regs, IsRegs(regs)
    PROVE  LET new == ApplyFramePtr(kept, regs, mem)
               there == "fp" \in DOMAIN regs /\ regs["fp"] \in DOMAIN mem /\ regs["fp"] + 1 \in DOMAIN mem
           IN  /\ new.err = "success" <=> there
               /\ there => new.regs = SetReg(SetReg(SetReg(kept, "sp", regs["fp"] + 2),
                                                    "fp", mem[regs["fp"]]), "ip", mem[regs["fp"] + 1])
<1>1. CASE "fp" \notin DOMAIN regs
    <2>1. ApplyFramePtr(kept, regs, mem) = Fail("ENOTFOUND")
        BY <1>1 DEF ApplyFramePtr
    <2>2. Fail("ENOTFOUND").err # "success"
        BY DEF Fail
    <2> QED
        BY <1>1, <2>1, <2>2
<1>2. CASE "fp" \in DOMAIN regs
    <2>1. PICK a \in Int : a = regs["fp"]
        BY <1>2 DEF IsRegs
    <2>2. Readable(mem, a, 2) <=> a \in DOMAIN mem /\ a + 1 \in DOMAIN mem
        <3>1. \A x : x \in a .. a + 2 - 1 <=> x = a \/ x = a + 1
            BY <2>1
        <3> QED
            BY <3>1 DEF Readable
    <2> DEFINE made == SetReg(SetReg(SetReg(kept, "sp", a + 2), "fp", mem[a]), "ip", mem[a + 1])
    <2> HIDE DEF made
    <2>3. ApplyFramePtr(kept, regs, mem) = IF ~Readable(mem, a, 2) THEN Fail("ENOMEM") ELSE OK(made)
        BY <1>2, <2>1 DEF ApplyFramePtr, made
    <2>4. Fail("ENOMEM").err # "success" /\ OK(made).err = "success" /\ OK(made).regs = made
        BY DEF Fail, OK
    <2> QED
        BY <1>2, <2>1, <2>2, <2>3, <2>4 DEF made
<1> QED
    BY <1>1, <1>2

LEMMA FramelessApplied ==
    ASSUME IsChain(chain), NEW i \in 1 .. Len(chain), chain[i].info \in {"compact", "indirect"},
           chain[i].kind # "framed", NEW regs, IsRegs(regs)
    PROVE  LET entry == EntryInit(EncodingOf(chain[i]))
               kept == Restrict(regs, DOMAIN regs \cap Nonvolatile)
               new == ApplyFrameless(entry, kept, regs, mem, WordsOf(chain[i]) - entry.adjust)
           IN  /\ new.err = "success" => Given(regs, i, new.regs)
               /\ FrameIsThere(regs, i) => new.err = "success"
<1> DEFINE entry == EntryInit(EncodingOf(chain[i]))
           kept == Restrict(regs, DOMAIN regs \cap Nonvolatile)
           words == WordsOf(chain[i])
           list == chain[i].saved
           l == Len(list)
           new == ApplyFrameless(entry, kept, regs, mem, words - entry.adjust)
           size == IF entry.type = "indirect" THEN (words - entry.adjust) + entry.adjust ELSE entry.offset
<1>1. /\ words \in Nat /\ entry.adjust \in Int /\ IsList(list) /\ l \in Nat /\ chain[i].kind \in Kinds
      /\ (chain[i].kind = "saves" <=> RBP \in Range(list)) /\ DOMAIN list = 1 .. l
      /\ chain[i].kind = "leaf" =>
            entry.type = "immd" /\ entry.offset = words /\ entry.list = <<>> /\ entry.lr = TRUE
      /\ chain[i].kind \in {"plain", "saves"} =>
            /\ entry.list = list /\ entry.lr = FALSE
            /\ (entry.type = "immd" /\ entry.offset = words) \/ entry.type = "indirect"
    <2>1. /\ words \in Nat /\ IsList(list) /\ l \in Nat /\ chain[i].kind \in Kinds
          /\ (chain[i].kind = "saves" <=> RBP \in Range(list)) /\ DOMAIN list = 1 .. l
        <3> HIDE DEF entry, kept
        <3> QED
            BY ChainFact
    <2>2. /\ entry.adjust \in Int
          /\ chain[i].kind = "leaf" =>
                entry.type = "immd" /\ entry.offset = words /\ entry.list = <<>> /\ entry.lr = TRUE
          /\ chain[i].kind \in {"plain", "saves"} =>
                /\ entry.list = list /\ entry.lr = FALSE
                /\ (entry.type = "immd" /\ entry.offset = words) \/ entry.type = "indirect"
        BY EntryFact
    <2> HIDE DEF entry, words, list, l
    <2> QED
        BY <2>1, <2>2
<1>2. /\ DOMAIN kept = DOMAIN regs \cap {"sp", "fp"}
      /\ \A p \in DOMAIN kept : kept[p] = regs[p]
    BY KeptFact
<1>3. chain[i].kind \in {"leaf", "plain", "saves"}
    BY <1>1 DEF Kinds
<1> HIDE DEF entry, kept, words, l
<1>4. size = words
    BY <1>1, <1>3
<1>5. BaseOf(i) = "sp" /\ TopOf(regs, i) = regs["sp"] + words
    BY DEF BaseOf, TopOf, words
<1>6. CASE "sp" \notin DOMAIN regs
    <2>1. new = Fail("ENOTFOUND")
        BY <1>6 DEF ApplyFrameless
    <2>2. new.err # "success"
        BY <2>1 DEF Fail
    <2>3. ~FrameIsThere(regs, i)
        BY <1>5, <1>6 DEF FrameIsThere
    <2> QED
        BY <2>2, <2>3 DEF entry, kept, words
<1>7. CASE "sp" \in DOMAIN regs
    <2>1. PICK top \in Int : top = regs["sp"] + words
        <3>1. regs["sp"] \in Int
            BY <1>7 DEF IsRegs
        <3> QED
            BY <1>1, <3>1
    <2>2. TopOf(regs, i) = top
        BY <1>5, <2>1
    <2>3. CASE chain[i].kind = "leaf"
        <3> DEFINE made == SetReg(SetReg(kept, "sp", top), "ip", regs["lr"])
        <3>1. entry.list = <<>> /\ entry.lr = TRUE /\ Len(<<>>) = 0
            BY <1>1, <2>3
        <3>2. CASE "lr" \notin DOMAIN regs
            <4>1. new = Fail("ENOTFOUND")
                BY <1>7, <3>1, <3>2 DEF ApplyFrameless
            <4>2. new.err # "success"
                BY <4>1 DEF Fail
            <4>3. ~FrameIsThere(regs, i)
                BY <2>3, <3>2 DEF FrameIsThere
            <4> QED
                BY <4>2, <4>3 DEF entry, kept, words
        <3>3. CASE "lr" \in DOMAIN regs
            <4>1. new = RestoreSaved(made, mem, <<>>, top - Len(<<>>))
                BY <1>4, <1>7, <2>1, <3>1, <3>3 DEF ApplyFrameless
            <4> HIDE DEF made, new
            <4>2. new = OK(made)
                <5>1. top - Len(<<>>) = top /\ IsList(<<>>) /\ RBP \notin Range(<<>>)
                    BY <3>1 DEF IsList, IsInjective, Range
                <5>2. Readable(mem, top, Len(<<>>))
                    <6>1. top .. top + Len(<<>>) - 1 = {}
                        BY <3>1
                    <6> QED
                        BY <6>1 DEF Readable
                <5> QED
                    BY <4>1, <5>1, <5>2, RestoreFact
            <4>3. /\ DOMAIN made = (DOMAIN regs \cap {"sp", "fp"}) \cup {"sp", "ip"}
                  /\ made["sp"] = top /\ made["ip"] = regs["lr"]
                  /\ "fp" \in DOMAIN regs => made["fp"] = regs["fp"]
                  /\ made = [q \in DOMAIN made |-> made[q]]
                <5>1. /\ DOMAIN made = DOMAIN kept \cup {"sp", "ip"} /\ made["sp"] = top /\ made["ip"] = regs["lr"]
                      /\ "fp" \in DOMAIN kept => made["fp"] = kept["fp"]
                      /\ made = [q \in DOMAIN made |-> made[q]]
                    BY DEF made, SetReg
                <5> QED
                    BY <1>2, <5>1
            <4>4. Given(regs, i, made)
                BY <1>5, <1>7, <2>2, <2>3, <3>3, <4>3 DEF Given
            <4> QED
                BY <4>2, <4>4 DEF OK, new, entry, kept, words
        <3> QED
            BY <3>2, <3>3
    <2>4. CASE chain[i].kind \in {"plain", "saves"}
        <3> DEFINE made == SetReg(SetReg(kept, "sp", top), "ip", mem[top - 1])
                   address == top - 1 - l
        <3>1. entry.list = list /\ entry.lr = FALSE
            BY <1>1, <2>4
        <3>2. Readable(mem, top - 1, 1) <=> top - 1 \in DOMAIN mem
            <4>1. \A x : x \in (top - 1) .. (top - 1) + 1 - 1 <=> x = top - 1
                BY <2>1
            <4> QED
                BY <4>1 DEF Readable
        <3>3. CASE top - 1 \notin DOMAIN mem
            <4>1. new = Fail("ENOMEM")
                BY <1>4, <1>7, <2>1, <3>1, <3>2, <3>3 DEF ApplyFrameless
            <4>2. new.err # "success"
                BY <4>1 DEF Fail
            <4>3. ~FrameIsThere(regs, i)
                <5>1. top - 1 \in top - 1 - l .. top - 1
                    BY <1>1, <2>1
                <5> QED
                    BY <2>2, <2>4, <3>3, <5>1 DEF FrameIsThere, l
            <4> QED
                BY <4>2, <4>3 DEF entry, kept, words
        <3>4. CASE top - 1 \in DOMAIN mem
            <4>1. new = RestoreSaved(made, mem, list, address)
                BY <1>4, <1>7, <2>1, <3>1, <3>2, <3>4 DEF ApplyFrameless, l
            <4> HIDE DEF made, new
            <4>2. /\ DOMAIN made = (DOMAIN regs \cap {"sp", "fp"}) \cup {"sp", "ip"}
                  /\ made["sp"] = top /\ made["ip"] = mem[top - 1]
                  /\ "fp" \in DOMAIN regs => made["fp"] = regs["fp"]
                  /\ made = [q \in DOMAIN made |-> made[q]]
                <5>1. /\ DOMAIN made = DOMAIN kept \cup {"sp", "ip"} /\ made["sp"] = top /\ made["ip"] = mem[top - 1]
                      /\ "fp" \in DOMAIN kept => made["fp"] = kept["fp"]
                      /\ made = [q \in DOMAIN made |-> made[q]]
                    BY DEF made, SetReg
                <5> QED
                    BY <1>2, <5>1
            <4>3. address \in Int /\ l = Len(list)
                BY <1>1, <2>1 DEF l
            <4> HIDE DEF address
            <4>4. /\ new.err = "success" => Readable(mem, address, l)
                  /\ Readable(mem, address, l) /\ RBP \notin Range(list) => new = OK(made)
                  /\ Readable(mem, address, l) /\ RBP \in Range(list) =>
                        \E m \in 1 .. l :
                            /\ list[m] = RBP /\ address + m - 1 \in DOMAIN mem
                            /\ new = OK(SetReg(made, "fp", mem[address + m - 1]))
                BY <1>1, <4>1, <4>3, RestoreFact
            <4>5. FrameIsThere(regs, i) => Readable(mem, address, l)
                <5> SUFFICES ASSUME FrameIsThere(regs, i),
                                    NEW a \in address .. address + l - 1
                             PROVE  a \in DOMAIN mem
                    BY DEF Readable
                <5>1. a \in top - 1 - l .. top - 1
                    BY <1>1, <2>1 DEF address
                <5> QED
                    BY <2>2, <2>4, <5>1 DEF FrameIsThere, l
            <4>6. ASSUME Readable(mem, address, l)
                  PROVE  new.err = "success" /\ Given(regs, i, new.regs)
                <5>1. CASE chain[i].kind = "plain"
                    <6>1. new = OK(made)
                        BY <1>1, <4>4, <4>6, <5>1
                    <6>2. new.err = "success" /\ new.regs = made
                        BY <6>1 DEF OK
                    <6> QED
                        BY <1>5, <1>7, <2>2, <3>4, <4>2, <5>1, <6>2 DEF Given
                <5>2. CASE chain[i].kind = "saves"
                    <6>1. PICK m \in 1 .. l :
                              /\ list[m] = RBP /\ address + m - 1 \in DOMAIN mem
                              /\ new = OK(SetReg(made, "fp", mem[address + m - 1]))
                        BY <1>1, <4>4, <4>6, <5>2
                    <6> DEFINE last == SetReg(made, "fp", mem[address + m - 1])
                    <6>2. new.err = "success" /\ new.regs = last
                        BY <6>1 DEF OK
                    <6>3. /\ DOMAIN last = {"sp", "fp", "ip"}
                          /\ last["sp"] = top /\ last["ip"] = mem[top - 1]
                          /\ last["fp"] = mem[address + m - 1]
                          /\ last = [q \in DOMAIN last |-> last[q]]
                        <7>1. /\ DOMAIN last = DOMAIN made \cup {"fp"} /\ last["fp"] = mem[address + m - 1]
                              /\ \A p \in DOMAIN made : p # "fp" => last[p] = made[p]
                              /\ last = [q \in DOMAIN last |-> last[q]]
                            BY DEF SetReg
                        <7> HIDE DEF last
                        <7> QED
                            BY <4>2, <7>1
                    <6> HIDE DEF last
                    <6>4. address + m - 1 = top - 2 - l + m
                        BY <1>1, <2>1 DEF address
                    <6>5. address + m - 1 \in PlacesOf(chain, i, top)
                        BY <1>1, <5>2, <6>1, <6>4 DEF PlacesOf, l
                    <6> QED
                        BY <1>5, <1>7, <2>2, <3>4, <5>2, <6>1, <6>2, <6>3, <6>5 DEF Given
                <5> QED
                    BY <2>4, <5>1, <5>2
            <4> QED
                BY <4>4, <4>5, <4>6 DEF new, entry, kept, words
        <3> QED
            BY <3>3, <3>4
    <2> QED
        BY <1>3, <2>3, <2>4
<1> QED
    BY <1>6, <1>7

\* The compact unwind reader.
LEMMA CompactGives ==
    ASSUME IsChain(chain), NEW regs, IsRegs(regs)
    PROVE  LET new == Compact(regs)
               i == FunctionAt(regs["ip"])
           IN  /\ new.err = "success" =>
                     i \in 1 .. Len(chain) /\ chain[i].info \in {"compact", "indirect"} /\ Given(regs, i, new.regs)
               /\ i \in 1 .. Len(chain) /\ chain[i].info \in {"compact", "indirect"} /\ FrameIsThere(regs, i) =>
                     new.err = "success"
<1> DEFINE i == FunctionAt(regs["ip"])
           entry == EntryInit(EncodingOf(chain[i]))
           kept == Restrict(regs, DOMAIN regs \cap Nonvolatile)
           answered == Apply(entry, regs, mem, WordsOf(chain[i]) - entry.adjust)
           new == Compact(regs)
<1>1. i \in 0 .. Len(chain) /\ "ip" \in DOMAIN regs /\ Len(chain) \in Nat
    <2>1. regs["ip"] \in Int /\ "ip" \in DOMAIN regs
        BY DEF IsRegs
    <2> QED
        BY <2>1, AttributedTo, ChainFact
<1>2. new = IF i = 0 THEN Fail("ENOTSUP") ELSE IF answered.err = "success" THEN answered ELSE Fail("ENOFRAME")
    BY <1>1 DEF Compact
<1>3. Fail("ENOTSUP").err # "success" /\ Fail("ENOFRAME").err # "success"
    BY DEF Fail
<1> HIDE DEF i, new
<1>4. CASE i = 0
    <2>1. new.err # "success" /\ i \notin 1 .. Len(chain)
        BY <1>1, <1>2, <1>3, <1>4
    <2> QED
        BY <2>1 DEF new, i
<1>5. CASE i # 0
    <2>1. i \in 1 .. Len(chain)
        BY <1>1, <1>5
    <2>2. chain[i].kind \in Kinds /\ chain[i].info \in Information
        BY <2>1, ChainFact
    <2>3. CASE chain[i].info \in {"none", "dwarf"}
        <3>1. entry.type \in {"none", "dwarf"}
            BY <2>1, <2>3, EntryFact
        <3> HIDE DEF entry
        <3>2. answered = Fail("ENOTSUP")
            BY <3>1 DEF Apply
        <3> HIDE DEF answered
        <3>3. new.err # "success"
            BY <1>2, <1>3, <3>2
        <3> QED
            BY <2>3, <3>3 DEF new, i
    <2>4. CASE chain[i].info \in {"compact", "indirect"} /\ chain[i].kind = "framed"
        <3>1. entry.type = "frame_ptr"
            BY <2>1, <2>4, EntryFact
        <3> HIDE DEF entry
        <3>2. answered = ApplyFramePtr(kept, regs, mem)
            BY <3>1 DEF Apply
        <3>3. /\ DOMAIN kept = DOMAIN regs \cap {"sp", "fp"}
              /\ \A p \in DOMAIN kept : kept[p] = regs[p]
            BY KeptFact
        <3> DEFINE there == "fp" \in DOMAIN regs /\ regs["fp"] \in DOMAIN mem /\ regs["fp"] + 1 \in DOMAIN mem
                   made == SetReg(SetReg(SetReg(kept, "sp", regs["fp"] + 2),
                                         "fp", mem[regs["fp"]]), "ip", mem[regs["fp"] + 1])
        <3> HIDE DEF answered, kept
        <3>4. (answered.err = "success" <=> there) /\ (there => answered.regs = made)
            BY <3>2, FramePtrApplied
        <3>5. /\ DOMAIN made = {"sp", "fp", "ip"} /\ made["sp"] = regs["fp"] + 2
              /\ made["fp"] = mem[regs["fp"]] /\ made["ip"] = mem[regs["fp"] + 1]
              /\ made = [q \in DOMAIN made |-> made[q]]
            <4>1. /\ DOMAIN made = DOMAIN kept \cup {"sp", "fp", "ip"} /\ made["sp"] = regs["fp"] + 2
                  /\ made["fp"] = mem[regs["fp"]] /\ made["ip"] = mem[regs["fp"] + 1]
                  /\ made = [q \in DOMAIN made |-> made[q]]
                BY DEF SetReg
            <4> HIDE DEF made
            <4> QED
                BY <3>3, <4>1
        <3> HIDE DEF made
        <3>6. BaseOf(i) = "fp" /\ TopOf(regs, i) = regs["fp"] + 2
            BY <2>4 DEF BaseOf, TopOf
        <3>7. ASSUME there
              PROVE  Given(regs, i, made)
            <4>1. regs["fp"] \in Int
                BY <3>7 DEF IsRegs
            <4>2. (regs["fp"] + 2) - 1 = regs["fp"] + 1 /\ (regs["fp"] + 2) - 2 = regs["fp"]
                BY <4>1
            <4>3. regs["fp"] \in PlacesOf(chain, i, regs["fp"] + 2)
                BY <2>4, <4>2 DEF PlacesOf
            <4> QED
                BY <2>4, <3>5, <3>6, <3>7, <4>2, <4>3 DEF Given
        <3>8. FrameIsThere(regs, i) => there
            <4> SUFFICES ASSUME FrameIsThere(regs, i) PROVE there
                OBVIOUS
            <4>1. "fp" \in DOMAIN regs
                BY <3>6 DEF FrameIsThere
            <4>2. regs["fp"] \in Int
                BY <4>1 DEF IsRegs
            <4>3. (regs["fp"] + 2) - 1 = regs["fp"] + 1 /\ (regs["fp"] + 2) - 2 = regs["fp"]
                BY <4>2
            <4> QED
                BY <2>4, <3>6, <4>1, <4>3 DEF FrameIsThere
        <3> QED
            <4> HIDE DEF there
            <4>1. new.err = "success" <=> answered.err = "success"
                BY <1>2, <1>3, <1>5
            <4>2. new.err = "success" => new.regs = answered.regs
                BY <1>2, <1>3, <1>5
            <4> QED
                BY <2>1, <2>4, <3>4, <3>7, <3>8, <4>1, <4>2 DEF new, i
    <2>5. CASE chain[i].info \in {"compact", "indirect"} /\ chain[i].kind # "framed"
        <3>1. entry.type \in {"immd", "indirect"}
            BY <2>1, <2>2, <2>5, EntryFact DEF Kinds
        <3> DEFINE text == WordsOf(chain[i]) - entry.adjust
        <3>2. answered = ApplyFrameless(entry, kept, regs, mem, text)
            <4> HIDE DEF entry, text, kept
            <4>1. Apply(entry, regs, mem, text) = ApplyFrameless(entry, kept, regs, mem, text)
                BY <3>1 DEF Apply, kept
            <4> QED
                BY <4>1 DEF text
        <3>3. /\ answered.err = "success" => Given(regs, i, answered.regs)
              /\ FrameIsThere(regs, i) => answered.err = "success"
            BY <2>1, <2>5, <3>2, FramelessApplied
        <3> HIDE DEF answered
        <3>4. /\ new.err = "success" <=> answered.err = "success"
              /\ new.err = "success" => new.regs = answered.regs
            BY <1>2, <1>3, <1>5
        <3> QED
            BY <2>1, <2>5, <3>3, <3>4 DEF new, i
    <2> QED
        BY <2>2, <2>3, <2>4, <2>5 DEF Information
<1> QED
    BY <1>4, <1>5

\* The reader of call frame information.
LEMMA DwarfGives ==
    ASSUME IsChain(chain), NEW regs, IsRegs(regs)
    PROVE  LET new == Dwarf(regs)
               i == FunctionAt(regs["ip"])
           IN  /\ new.err = "success" =>
                     i \in 1 .. Len(chain) /\ chain[i].info = "dwarf" /\ Given(regs, i, new.regs)
               /\ i \in 1 .. Len(chain) /\ chain[i].info = "dwarf" /\ FrameIsThere(regs, i) => new.err = "success"
<1> DEFINE i == FunctionAt(regs["ip"])
           call == chain[i]
           top == TopOf(regs, i)
           kept == Restrict(regs, DOMAIN regs \cap Nonvolatile)
           fpAt == PlacesOf(chain, i, top)
           ipAt == IF call.kind = "leaf" THEN {} ELSE {top - 1}
           made == SetReg(SetReg(kept, "sp", top), "ip", IF ipAt = {} THEN regs["lr"] ELSE mem[top - 1])
           unread == \/ BaseOf(i) \notin DOMAIN regs
                     \/ call.kind = "leaf" /\ "lr" \notin DOMAIN regs
                     \/ ~(fpAt \cup ipAt \subseteq DOMAIN mem)
           new == Dwarf(regs)
           answered == IF unread THEN Fail("ENOFRAME")
                       ELSE IF fpAt = {} THEN OK(made)
                       ELSE OK(SetReg(made, "fp", mem[CHOOSE a \in fpAt : TRUE]))
<1>1. i \in 0 .. Len(chain) /\ "ip" \in DOMAIN regs /\ Len(chain) \in Nat
    <2>1. regs["ip"] \in Int /\ "ip" \in DOMAIN regs
        BY DEF IsRegs
    <2> QED
        BY <2>1, AttributedTo, ChainFact
<1>2. new = IF i = 0 \/ call.info # "dwarf" THEN Fail("ENOTSUP") ELSE answered
    BY <1>1 DEF Dwarf, TopOf, BaseOf, PlacesOf
<1>3. Fail("ENOTSUP").err # "success" /\ Fail("ENOFRAME").err # "success"
    BY DEF Fail
<1>4. /\ DOMAIN kept = DOMAIN regs \cap {"sp", "fp"}
      /\ \A p \in DOMAIN kept : kept[p] = regs[p]
    BY KeptFact
<1>5. /\ DOMAIN made = DOMAIN kept \cup {"sp", "ip"} /\ made["sp"] = top
      /\ made["ip"] = IF ipAt = {} THEN regs["lr"] ELSE mem[top - 1]
      /\ "fp" \in DOMAIN kept => made["fp"] = kept["fp"]
      /\ made = [q \in DOMAIN made |-> made[q]]
    <2> HIDE DEF kept, top, ipAt
    <2> QED
        BY DEF SetReg
<1> HIDE DEF i, top, new, kept, made, answered
<1>6. CASE i = 0 \/ call.info # "dwarf"
    <2>1. new.err # "success" /\ ~(i \in 1 .. Len(chain) /\ chain[i].info = "dwarf")
        BY <1>1, <1>2, <1>3, <1>6
    <2> QED
        BY <2>1 DEF new, i
<1>7. CASE i # 0 /\ call.info = "dwarf"
    <2>1. i \in 1 .. Len(chain) /\ new = answered
        BY <1>1, <1>2, <1>7
    <2>2. /\ call.kind \in Kinds /\ Len(call.saved) \in Nat /\ DOMAIN call.saved = 1 .. Len(call.saved)
          /\ (call.kind = "saves" <=> RBP \in Range(call.saved)) /\ WordsOf(call) \in Nat
        BY <2>1, ChainFact
    <2>3. ASSUME BaseOf(i) \in DOMAIN regs
          PROVE  top \in Int
        <3>1. regs[BaseOf(i)] \in Int
            BY <2>3 DEF IsRegs
        <3> QED
            BY <2>2, <3>1 DEF TopOf, top
    <2>4. ASSUME FrameIsThere(regs, i)
          PROVE  ~unread
        <3>1. top \in Int /\ BaseOf(i) \in DOMAIN regs
            BY <2>3, <2>4 DEF FrameIsThere
        <3>2. CASE call.kind = "framed"
            BY <2>4, <3>1, <3>2 DEF FrameIsThere, PlacesOf, top
        <3>3. CASE call.kind \in {"plain", "saves"}
            <4>1. \A a \in top - 1 - Len(call.saved) .. top - 1 : a \in DOMAIN mem
                BY <2>4, <3>3 DEF FrameIsThere, top
            <4>2. top - 1 \in top - 1 - Len(call.saved) .. top - 1
                BY <2>2, <3>1
            <4>3. ASSUME NEW a \in fpAt
                  PROVE  a \in top - 1 - Len(call.saved) .. top - 1
                <5>1. CASE call.kind = "plain"
                    BY <4>3, <5>1 DEF PlacesOf
                <5>2. CASE call.kind = "saves"
                    <6>1. PICK m \in 1 .. Len(call.saved) : a = top - 2 - Len(call.saved) + m
                        BY <2>2, <4>3, <5>2 DEF PlacesOf
                    <6>2. PICK l \in Nat : l = Len(call.saved)
                        BY <2>2
                    <6>3. m \in 1 .. l /\ a = top - 2 - l + m
                        BY <6>1, <6>2
                    <6>4. a \in top - 1 - l .. top - 1
                        BY <3>1, <6>3
                    <6> QED
                        BY <6>2, <6>4
                <5> QED
                    BY <3>3, <5>1, <5>2
            <4> QED
                BY <3>1, <3>3, <4>1, <4>2, <4>3
        <3>4. CASE call.kind = "leaf"
            BY <2>4, <3>1, <3>4 DEF FrameIsThere, PlacesOf
        <3> QED
            BY <2>2, <3>2, <3>3, <3>4 DEF Kinds
    <2>5. ASSUME ~unread
          PROVE  new.err = "success" /\ Given(regs, i, new.regs)
        <3>1. BaseOf(i) \in DOMAIN regs /\ top = TopOf(regs, i) /\ top \in Int
            BY <2>3, <2>5 DEF top
        <3>2. IF call.kind = "leaf" THEN "lr" \in DOMAIN regs /\ made["ip"] = regs["lr"]
              ELSE top - 1 \in DOMAIN mem /\ made["ip"] = mem[top - 1]
            BY <1>5, <2>5
        <3>3. CASE call.kind \in {"plain", "leaf"}
            <4>1. fpAt = {}
                BY <3>3 DEF PlacesOf
            <4>2. new = OK(made)
                BY <2>1, <2>5, <4>1 DEF answered
            <4>3. new.err = "success" /\ new.regs = made
                BY <4>2 DEF OK
            <4>4. Given(regs, i, made)
                BY <1>4, <1>5, <3>1, <3>2, <3>3 DEF Given
            <4> QED
                BY <4>3, <4>4
        <3>4. CASE call.kind \in {"framed", "saves"}
            <4>1. fpAt # {}
                <5>1. CASE call.kind = "framed"
                    BY <5>1 DEF PlacesOf
                <5>2. CASE call.kind = "saves"
                    <6>1. \E m \in DOMAIN call.saved : call.saved[m] = RBP
                        BY <2>2, <5>2 DEF Range
                    <6> QED
                        BY <5>2, <6>1 DEF PlacesOf
                <5> QED
                    BY <3>4, <5>1, <5>2
            <4>2. PICK a \in fpAt : a = CHOOSE b \in fpAt : TRUE
                BY <4>1
            <4> DEFINE last == SetReg(made, "fp", mem[a])
            <4>3. new = OK(last)
                BY <2>1, <2>5, <4>1, <4>2 DEF answered
            <4>4. new.err = "success" /\ new.regs = last
                BY <4>3 DEF OK
            <4>5. /\ DOMAIN last = DOMAIN made \cup {"fp"} /\ last["fp"] = mem[a]
                  /\ \A p \in DOMAIN made : p # "fp" => last[p] = made[p]
                  /\ last = [q \in DOMAIN last |-> last[q]]
                BY DEF SetReg
            <4> HIDE DEF last
            <4>6. DOMAIN last = {"sp", "fp", "ip"} /\ last["sp"] = top /\ last["ip"] = made["ip"]
                BY <1>4, <1>5, <4>5
            <4>7. a \in DOMAIN mem
                BY <2>5
            <4>8. Given(regs, i, last)
                BY <3>1, <3>2, <3>4, <4>5, <4>6, <4>7 DEF Given
            <4> QED
                BY <4>4, <4>8
        <3> QED
            BY <2>2, <3>3, <3>4 DEF Kinds
    <2>6. new.err = "success" => ~unread
        BY <1>3, <2>1 DEF answered
    <2> QED
        BY <1>7, <2>1, <2>4, <2>5, <2>6 DEF new, i
<1> QED
    BY <1>6, <1>7

\* The reader by the frame pointer.
LEMMA FramePtrGives ==
    ASSUME NEW regs, IsRegs(regs), NEW before
    PROVE  LET new == FramePtr(regs, before)
               fp == regs["fp"]
               there == /\ "fp" \in DOMAIN regs /\ fp # 0
                        /\ fp \in DOMAIN mem /\ fp + 1 \in DOMAIN mem
                        /\ ~("fp" \in DOMAIN before /\ fp < before["fp"])
           IN  /\ new.err = "success" <=> there
               /\ new.err \in {"success", "ENOFRAME", "EBADFRAME"}
               /\ there => /\ DOMAIN new.regs \subseteq {"fp", "ip"}
                           /\ "fp" \in DOMAIN new.regs /\ "ip" \in DOMAIN new.regs
                           /\ new.regs["fp"] = mem[fp] /\ new.regs["ip"] = mem[fp + 1]
                           /\ new.regs = [q \in DOMAIN new.regs |-> new.regs[q]]
<1>1. /\ Fail("EBADFRAME").err = "EBADFRAME" /\ Fail("ENOFRAME").err = "ENOFRAME"
      /\ \A s : OK(s).err = "success" /\ OK(s).regs = s
    BY DEF Fail, OK
<1>2. CASE "fp" \notin DOMAIN regs
    <2>1. FramePtr(regs, before) = Fail("EBADFRAME")
        BY <1>2 DEF FramePtr
    <2> QED
        BY <1>1, <1>2, <2>1
<1>3. CASE "fp" \in DOMAIN regs
    <2>1. PICK fp \in Int : fp = regs["fp"]
        BY <1>3 DEF IsRegs
    <2>2. Readable(mem, fp, 2) <=> fp \in DOMAIN mem /\ fp + 1 \in DOMAIN mem
        <3>1. \A x : x \in fp .. fp + 2 - 1 <=> x = fp \/ x = fp + 1
            BY <2>1
        <3> QED
            BY <3>1 DEF Readable
    <2> DEFINE down == "fp" \in DOMAIN before /\ fp < before["fp"]
               made == SetReg(SetReg(<<>>, "fp", mem[fp]), "ip", mem[fp + 1])
    <2>3. FramePtr(regs, before) =
              IF fp = 0 THEN Fail("ENOFRAME")
              ELSE IF down \/ ~Readable(mem, fp, 2) THEN Fail("EBADFRAME")
              ELSE OK(made)
        BY <1>3, <2>1 DEF FramePtr
    <2>4. /\ DOMAIN made = {"fp", "ip"} /\ made["fp"] = mem[fp] /\ made["ip"] = mem[fp + 1]
          /\ made = [q \in DOMAIN made |-> made[q]]
        <3>1. DOMAIN <<>> = {}
            OBVIOUS
        <3> QED
            BY <3>1 DEF SetReg
    <2> HIDE DEF made
    <2> QED
        BY <1>1, <1>3, <2>1, <2>2, <2>3, <2>4
<1> QED
    BY <1>2, <1>3

----------------------------------------------------------------------------
(* From a frame to its caller's.                                           *)

MemoryIsTyped == mem \in [Base .. SP(chain, Len(chain) + 1) - 1 -> Int]

LEMMA GivenType ==
    ASSUME IsChain(chain), MemoryIsTyped, NEW i \in 1 .. Len(chain), NEW regs, IsRegs(regs),
           NEW new, Given(regs, i, new)
    PROVE  IsRegs(new) /\ "lr" \notin DOMAIN new
           /\ (chain[i].kind = "framed" \/ "fp" \in DOMAIN regs => "fp" \in DOMAIN new)
           /\ "sp" \in DOMAIN new
<1> DEFINE top == TopOf(regs, i)
<1>1. WordsOf(chain[i]) \in Nat /\ chain[i].kind \in Kinds
    BY ChainFact
<1>2. \A a \in DOMAIN mem : mem[a] \in Int
    BY DEF MemoryIsTyped
<1>3. top \in Int
    <2>1. regs[BaseOf(i)] \in Int
        BY DEF Given, IsRegs
    <2> QED
        BY <1>1, <2>1 DEF TopOf
<1>4. /\ DOMAIN new \subseteq {"sp", "fp", "ip"} /\ "sp" \in DOMAIN new /\ "ip" \in DOMAIN new
      /\ new = [q \in DOMAIN new |-> new[q]] /\ new["sp"] \in Int
    BY <1>3 DEF Given
<1>5. new["ip"] \in Int
    BY <1>2 DEF Given, IsRegs
<1>6. "fp" \in DOMAIN new => new["fp"] \in Int
    BY <1>2 DEF Given, IsRegs
<1>7. chain[i].kind = "framed" \/ "fp" \in DOMAIN regs => "fp" \in DOMAIN new
    BY DEF Given
<1> QED
    BY <1>4, <1>5, <1>6, <1>7 DEF IsRegs, Registers

\* With the registers of call i, the information about it is that of where its frame ends.
LEMMA TopIsNext ==
    ASSUME IsChain(chain), NEW i \in 1 .. Len(chain), NEW regs, IsFrameOf(regs, i),
           BaseOf(i) \in DOMAIN regs
    PROVE  /\ TopOf(regs, i) = SP(chain, i + 1) /\ SP(chain, i + 1) \in Int
           /\ PlacesOf(chain, i, SP(chain, i + 1)) = SavedFP(chain, i)
<1>1. i + 1 \in 1 .. Len(chain) + 1 /\ SP(chain, i + 1) = SP(chain, i) + WordsOf(chain[i])
    BY ChainFact, StackPointers
<1>2. SP(chain, i + 1) \in Int
    BY <1>1, StackPointers
<1>3. TopOf(regs, i) = SP(chain, i + 1)
    <2>1. CASE chain[i].kind = "framed"
        <3>1. regs["fp"] = SP(chain, i + 1) - 2
            BY <2>1, FramePointers DEF IsFrameOf, BaseOf
        <3> QED
            BY <1>2, <2>1, <3>1 DEF TopOf, BaseOf
    <2>2. CASE chain[i].kind # "framed"
        BY <1>1, <2>2 DEF TopOf, BaseOf, IsFrameOf
    <2> QED
        BY <2>1, <2>2
<1>4. PlacesOf(chain, i, SP(chain, i + 1)) = SavedFP(chain, i)
    BY DEF PlacesOf, SavedFP
<1> QED
    BY <1>2, <1>3, <1>4

LEMMA GivenIsCaller ==
    ASSUME IsChain(chain), mem = Layout(chain), NEW i \in 1 .. Len(chain),
           NEW regs, IsRegs(regs), IsFrameOf(regs, i), NEW new, Given(regs, i, new),
           chain[i].kind = "leaf" => regs["lr"] = Return(chain, i + 1)
    PROVE  IsFrameOf(new, i + 1)
<1> DEFINE top == SP(chain, i + 1)
<1>1. TopOf(regs, i) = top /\ top \in Int /\ PlacesOf(chain, i, top) = SavedFP(chain, i)
    <2>1. BaseOf(i) \in DOMAIN regs
        BY DEF Given
    <2> QED
        BY <2>1, TopIsNext
<1>2. chain[i].kind \in Kinds
    BY ChainFact
<1> HIDE DEF top
<1>3. new["ip"] = Return(chain, i + 1)
    <2>1. CASE chain[i].kind = "leaf"
        BY <2>1 DEF Given
    <2>2. CASE chain[i].kind # "leaf"
        <3>1. new["ip"] = mem[top - 1]
            BY <1>1, <2>2 DEF Given
        <3> QED
            BY <2>2, <3>1, SavedWords DEF top
    <2> QED
        BY <2>1, <2>2
<1>4. new["sp"] = top
    BY <1>1 DEF Given
<1>5. ASSUME "fp" \in DOMAIN new
      PROVE  new["fp"] = FP(chain, i + 1)
    <2>1. CASE chain[i].kind \in {"plain", "leaf"}
        <3>1. "fp" \in DOMAIN regs /\ new["fp"] = regs["fp"]
            BY <1>5, <2>1 DEF Given
        <3>2. regs["fp"] = FP(chain, i)
            BY <3>1 DEF IsFrameOf
        <3> QED
            BY <2>1, <3>1, <3>2, FramePointers
    <2>2. CASE chain[i].kind \notin {"plain", "leaf"}
        <3>1. PICK a \in SavedFP(chain, i) : new["fp"] = mem[a]
            BY <1>1, <2>2 DEF Given
        <3> QED
            BY <3>1, SavedWords
    <2> QED
        BY <2>1, <2>2
<1> QED
    BY <1>3, <1>4, <1>5 DEF IsFrameOf, top

LEMMA FrameCanBeRead ==
    ASSUME IsChain(chain), mem = Layout(chain), NEW i \in 1 .. Len(chain),
           NEW regs, IsFrameOf(regs, i), BaseOf(i) \in DOMAIN regs,
           chain[i].kind = "leaf" => "lr" \in DOMAIN regs
    PROVE  FrameIsThere(regs, i)
<1> DEFINE top == SP(chain, i + 1)
           l == Len(chain[i].saved)
<1>1. TopOf(regs, i) = top
    BY TopIsNext
<1>2. /\ Len(chain) \in Nat /\ l \in Nat /\ chain[i].locals \in Nat
      /\ i \in 1 .. Len(chain) + 1 /\ i + 1 \in 1 .. Len(chain) + 1 /\ 1 \in 1 .. Len(chain) + 1
      /\ Len(chain) + 1 \in 1 .. Len(chain) + 1 /\ i + 1 <= Len(chain) + 1 /\ 1 <= i
    BY ChainFact
<1>3. /\ SP(chain, i) \in Int /\ top \in Int /\ top = SP(chain, i) + WordsOf(chain[i])
      /\ SP(chain, Len(chain) + 1) \in Int /\ Base <= SP(chain, i) /\ top <= SP(chain, Len(chain) + 1)
    <2>1. SP(chain, i) \in Int /\ top \in Int /\ SP(chain, Len(chain) + 1) \in Int
        BY <1>2, StackPointers
    <2>2. top = SP(chain, i) + WordsOf(chain[i]) /\ SP(chain, 1) = Base
        BY StackPointers
    <2>3. SP(chain, 1) <= SP(chain, i)
        BY <1>2, StackRises
    <2>4. top <= SP(chain, Len(chain) + 1)
        BY <1>2, StackRises
    <2> QED
        BY <2>1, <2>2, <2>3, <2>4
<1>4. DOMAIN mem = Base .. SP(chain, Len(chain) + 1) - 1 /\ Base \in Int
    BY LayoutType DEF Base
<1> HIDE DEF top, l
<1>5. \A a \in Int : SP(chain, i) <= a /\ a < top => a \in DOMAIN mem
    BY <1>3, <1>4
<1>6. ASSUME chain[i].kind = "framed"
      PROVE  top - 2 \in DOMAIN mem /\ top - 1 \in DOMAIN mem
    <2>1. top = SP(chain, i) + (chain[i].locals + 2)
        BY <1>3, <1>6 DEF WordsOf
    <2>2. PICK w \in Nat, s \in Int : w = chain[i].locals /\ s = SP(chain, i)
        BY <1>2, <1>3
    <2>3. top = s + (w + 2)
        BY <2>1, <2>2
    <2>4. /\ top - 2 \in Int /\ s <= top - 2 /\ top - 2 < top
          /\ top - 1 \in Int /\ s <= top - 1 /\ top - 1 < top
        BY <2>3
    <2> QED
        BY <1>5, <2>2, <2>4
<1>7. ASSUME chain[i].kind \in {"plain", "saves"}, NEW a \in top - 1 - l .. top - 1
      PROVE  a \in DOMAIN mem
    <2>1. top = SP(chain, i) + (chain[i].locals + l + 1)
        BY <1>3, <1>7 DEF WordsOf, l
    <2>2. PICK w \in Nat, s \in Int : w = chain[i].locals /\ s = SP(chain, i)
        BY <1>2, <1>3
    <2>3. top = s + (w + l + 1) /\ l \in Nat
        BY <1>2, <2>1, <2>2
    <2>4. a \in Int /\ s <= a /\ a < top
        BY <1>7, <2>3
    <2> QED
        BY <1>5, <2>2, <2>4
<1> QED
    BY <1>1, <1>6, <1>7 DEF FrameIsThere, top, l

\* By the frame pointer, the caller of the first framed call is found; that call itself if it is framed.
LEMMA FramePtrIsCaller ==
    ASSUME IsChain(chain), mem = Layout(chain), NEW i \in 1 .. Len(chain),
           NEW regs, IsRegs(regs), IsFrameOf(regs, i), NEW before, FramePtr(regs, before).err = "success"
    PROVE  LET new == FramePtr(regs, before).regs
           IN  /\ \E m \in i .. Len(chain) : IsFrameOf(new, m + 1)
               /\ chain[i].kind = "framed" => IsFrameOf(new, i + 1)
<1> DEFINE new == FramePtr(regs, before).regs
<1>1. /\ "fp" \in DOMAIN regs /\ regs["fp"] # 0 /\ regs["fp"] \in DOMAIN mem
      /\ DOMAIN new \subseteq {"fp", "ip"} /\ new["fp"] = mem[regs["fp"]] /\ new["ip"] = mem[regs["fp"] + 1]
    <2>1. /\ "fp" \in DOMAIN regs /\ regs["fp"] # 0
          /\ regs["fp"] \in DOMAIN mem /\ regs["fp"] + 1 \in DOMAIN mem
          /\ ~("fp" \in DOMAIN before /\ regs["fp"] < before["fp"])
        BY FramePtrGives
    <2> QED
        BY <2>1, FramePtrGives
<1> HIDE DEF new
<1>2. FP(chain, i) = regs["fp"] /\ FP(chain, i) \notin {0, Unmapped}
    <2>1. DOMAIN mem = Base .. SP(chain, Len(chain) + 1) - 1
        BY LayoutType
    <2>2. Unmapped \notin DOMAIN mem
        BY <2>1 DEF Unmapped, Base
    <2> QED
        BY <1>1, <2>2 DEF IsFrameOf
<1>3. Len(chain) \in Nat
    BY ChainFact
<1>4. ASSUME NEW m \in 1 .. Len(chain), chain[m].kind = "framed", regs["fp"] = SP(chain, m + 1) - 2
      PROVE  IsFrameOf(new, m + 1)
    <2>1. SP(chain, m + 1) \in Int
        <3>1. m + 1 \in 1 .. Len(chain) + 1
            BY <1>3
        <3> QED
            BY <3>1, StackPointers
    <2>2. regs["fp"] + 1 = SP(chain, m + 1) - 1
        BY <1>4, <2>1
    <2>3. regs["fp"] \in SavedFP(chain, m)
        BY <1>4 DEF SavedFP
    <2>4. mem[regs["fp"]] = FP(chain, m + 1) /\ mem[regs["fp"] + 1] = Return(chain, m + 1)
        BY <1>4, <2>2, <2>3, SavedWords
    <2> QED
        BY <1>1, <2>4 DEF IsFrameOf
<1>5. \E m \in i .. Len(chain) : IsFrameOf(new, m + 1)
    <2>1. PICK m \in i .. Len(chain) : chain[m].kind = "framed" /\ FP(chain, i) = SP(chain, m + 1) - 2
        BY <1>2, FramedIsNext
    <2>2. m \in 1 .. Len(chain)
        BY <1>3
    <2> QED
        BY <1>2, <1>4, <2>1, <2>2
<1>6. chain[i].kind = "framed" => IsFrameOf(new, i + 1)
    BY <1>2, <1>4, FramePointers
<1> QED
    BY <1>5, <1>6 DEF new

----------------------------------------------------------------------------
(* The walk's inductive invariant.                                         *)

AllRegs == UNION {[D -> Int] : D \in SUBSET Registers}
FrameType == [regs : AllRegs, by : {"thread", "compact", "dwarf", "frame_ptr"}]

WalkIsTyped ==
    /\ chain \in Chains /\ intact \in BOOLEAN /\ MemoryIsTyped
    /\ walk \in Seq(FrameType) /\ depth = Len(walk) /\ depth <= FrameLimit
    /\ IsRegs(current) /\ \A j \in DOMAIN walk : IsRegs(walk[j].regs)
    /\ status \in {"walking", "limit", "ENOFRAME", "EBADFRAME"}

\* The cursor is at the last frame of the walk; the link register is only the thread's own.
CursorIsAtEnd ==
    /\ depth <= 1 => current = Running(chain) /\ prev = <<>>
    /\ depth >= 1 => current = walk[depth].regs
    /\ depth >= 2 => prev = walk[depth - 1].regs /\ "lr" \notin DOMAIN current

MemoryIsLaidOut == intact => mem = Layout(chain)

WalkIInv ==
    /\ WalkIsTyped /\ CursorIsAtEnd /\ MemoryIsLaidOut
    /\ FramesAreCallers /\ StackGrowsOneWay

LEMMA TypedChain ==
    ASSUME WalkIsTyped
    PROVE  /\ IsChain(chain) /\ Len(chain) \in Nat \ {0} /\ DOMAIN chain = 1 .. Len(chain)
           /\ depth \in Nat /\ DOMAIN walk = 1 .. depth
<1>1. IsChain(chain)
    BY ChainAssumption DEF WalkIsTyped
<1>2. depth \in Nat /\ DOMAIN walk = 1 .. depth
    BY DEF WalkIsTyped
<1> QED
    BY <1>1, <1>2, ChainFact

LEMMA RunningIsFirst ==
    ASSUME NEW c, IsChain(c), chain = c
    PROVE  IsFrameOf(Running(c), 1)
BY RunningFact DEF IsFrameOf

LEMMA RegsAreAll ==
    ASSUME NEW r, IsRegs(r)
    PROVE  r \in AllRegs
<1>1. r \in [DOMAIN r -> Int] /\ DOMAIN r \in SUBSET Registers
    BY DEF IsRegs
<1> QED
    BY <1>1 DEF AllRegs

\* Whatever the stack holds, a reader gives registers of their type.
LEMMA AnswerType ==
    ASSUME WalkIsTyped, NEW r \in 1 .. 3, Answers[r].err = "success"
    PROVE  IsRegs(Answers[r].regs) /\ "lr" \notin DOMAIN Answers[r].regs
<1> DEFINE i == FunctionAt(current["ip"])
           before == IF depth >= 2 THEN prev ELSE <<>>
<1>1. IsChain(chain) /\ IsRegs(current) /\ MemoryIsTyped
    BY TypedChain DEF WalkIsTyped
<1>2. CASE r = 1
    <2>1. Answers[r] = Compact(current)
        BY <1>2 DEF Answers
    <2>2. i \in 1 .. Len(chain) /\ Given(current, i, Answers[r].regs)
        BY <1>1, <2>1, CompactGives
    <2> HIDE DEF i
    <2> QED
        BY <1>1, <2>2, GivenType
<1>3. CASE r = 2
    <2>1. Answers[r] = Dwarf(current)
        BY <1>3 DEF Answers
    <2>2. i \in 1 .. Len(chain) /\ Given(current, i, Answers[r].regs)
        BY <1>1, <2>1, DwarfGives
    <2> HIDE DEF i
    <2> QED
        BY <1>1, <2>2, GivenType
<1>4. CASE r = 3
    <2>1. Answers[r] = FramePtr(current, before)
        BY <1>4 DEF Answers
    <2> HIDE DEF before
    <2> DEFINE new == FramePtr(current, before).regs
    <2>2. /\ "fp" \in DOMAIN current /\ current["fp"] \in DOMAIN mem /\ current["fp"] + 1 \in DOMAIN mem
        BY <1>1, <2>1, FramePtrGives
    <2>3. /\ DOMAIN new \subseteq {"fp", "ip"} /\ "fp" \in DOMAIN new /\ "ip" \in DOMAIN new
          /\ new["fp"] = mem[current["fp"]] /\ new["ip"] = mem[current["fp"] + 1]
          /\ new = [q \in DOMAIN new |-> new[q]]
        BY <1>1, <2>1, <2>2, FramePtrGives
    <2> HIDE DEF new
    <2>4. new["fp"] \in Int /\ new["ip"] \in Int
        BY <1>1, <2>2, <2>3 DEF MemoryIsTyped
    <2>5. IsRegs(new) /\ "lr" \notin DOMAIN new
        BY <2>3, <2>4 DEF IsRegs, Registers
    <2> QED
        BY <2>1, <2>5 DEF new
<1> QED
    BY <1>2, <1>3, <1>4

\* On an undamaged stack, a reader gives the frame of a caller further up; the table and the call frame
\* information give that of the next one, and so does the frame pointer of a framed call.
LEMMA AnswerIsCaller ==
    ASSUME WalkIsTyped, CursorIsAtEnd, intact, MemoryIsLaidOut,
           NEW i \in 1 .. Len(chain), IsFrameOf(current, i),
           NEW r \in 1 .. 3, Answers[r].err = "success"
    PROVE  /\ \E m \in i .. Len(chain) : IsFrameOf(Answers[r].regs, m + 1)
           /\ r < 3 \/ chain[i].kind = "framed" => IsFrameOf(Answers[r].regs, i + 1)
<1>1. /\ IsChain(chain) /\ IsRegs(current) /\ Len(chain) \in Nat /\ i \in i .. Len(chain)
      /\ mem = Layout(chain) /\ depth \in Nat
    BY TypedChain DEF WalkIsTyped, MemoryIsLaidOut
<1>2. FunctionAt(current["ip"]) = i
    <2>1. current["ip"] \in Int /\ current["ip"] = Return(chain, i)
        BY <1>1 DEF IsRegs, IsFrameOf
    <2> QED
        BY <1>1, <2>1, AttributedTo
<1>3. ASSUME NEW new, Given(current, i, new)
      PROVE  IsFrameOf(new, i + 1)
    <2>1. ASSUME chain[i].kind = "leaf"
          PROVE  current["lr"] = Return(chain, i + 1)
        <3>1. "lr" \in DOMAIN current
            BY <1>3, <2>1 DEF Given
        <3>2. current = Running(chain)
            BY <1>1, <3>1 DEF CursorIsAtEnd
        <3>3. i = 1
            BY <1>1, <2>1, ChainFact
        <3>4. i + 1 = 2
            BY <3>3
        <3> QED
            BY <1>1, <2>1, <3>2, <3>3, <3>4, RunningFact
    <2> QED
        BY <1>1, <1>3, <2>1, GivenIsCaller
<1>4. CASE r = 1
    <2>1. Answers[r] = Compact(current)
        BY <1>4 DEF Answers
    <2>2. Given(current, i, Answers[r].regs)
        BY <1>1, <1>2, <2>1, CompactGives
    <2> QED
        BY <1>1, <1>3, <2>2
<1>5. CASE r = 2
    <2>1. Answers[r] = Dwarf(current)
        BY <1>5 DEF Answers
    <2>2. Given(current, i, Answers[r].regs)
        BY <1>1, <1>2, <2>1, DwarfGives
    <2> QED
        BY <1>1, <1>3, <2>2
<1>6. CASE r = 3
    <2> DEFINE before == IF depth >= 2 THEN prev ELSE <<>>
    <2>1. Answers[r] = FramePtr(current, before)
        BY <1>6 DEF Answers
    <2> HIDE DEF before
    <2>2. /\ \E m \in i .. Len(chain) : IsFrameOf(FramePtr(current, before).regs, m + 1)
          /\ chain[i].kind = "framed" => IsFrameOf(FramePtr(current, before).regs, i + 1)
        BY <1>1, <2>1, FramePtrIsCaller
    <2> QED
        BY <1>6, <2>1, <2>2
<1> QED
    BY <1>4, <1>5, <1>6

\* A pc outside the NULL page is that of a call.
LEMMA PcIsCalls ==
    ASSUME IsChain(chain), NEW regs, NEW i \in 1 .. Len(chain) + 1, IsFrameOf(regs, i)
    PROVE  regs["ip"] > PageSize <=> i \in 1 .. Len(chain)
<1>1. Len(chain) \in Nat /\ PageSize \in Nat \ {0} /\ PageSize <= 100
    BY ChainFact, WalkerAssumption, ChainAssumption DEF Code
<1>2. regs["ip"] = IF i > Len(chain) THEN 0 ELSE 100 * i + 1
    BY DEF IsFrameOf, Return, Code
<1>3. CASE i > Len(chain)
    BY <1>1, <1>2, <1>3
<1>4. CASE i <= Len(chain)
    <2>1. regs["ip"] = 100 * i + 1 /\ i \in Nat /\ i >= 1
        BY <1>1, <1>2, <1>4
    <2> QED
        BY <1>1, <1>4, <2>1
<1> QED
    BY <1>1, <1>3, <1>4

LEMMA WalkInitIInv == WalkInit => WalkIInv
<1> SUFFICES ASSUME WalkInit PROVE WalkIInv
    OBVIOUS
<1>1. /\ chain \in Chains /\ intact \in BOOLEAN /\ depth = 0 /\ current = Running(chain) /\ prev = <<>>
      /\ walk = <<>> /\ status = "walking" /\ (intact => mem = Layout(chain))
    BY DEF WalkInit
<1>2. IsChain(chain) /\ FrameLimit \in Nat \ {0}
    BY <1>1, ChainAssumption, WalkerAssumption
<1>3. Layout(chain) \in [Base .. SP(chain, Len(chain) + 1) - 1 -> Int]
    BY <1>2, LayoutType
<1>4. MemoryIsTyped
    <2>1. CASE mem = Layout(chain)
        BY <1>3, <2>1 DEF MemoryIsTyped
    <2>2. CASE mem # Layout(chain)
        <3>1. PICK a \in DOMAIN Layout(chain), v \in Overwrites : mem = [Layout(chain) EXCEPT ![a] = v]
            BY <2>2 DEF WalkInit
        <3>2. v \in Int
            BY WalkerAssumption
        <3> QED
            BY <1>3, <3>1, <3>2 DEF MemoryIsTyped
    <2> QED
        BY <2>1, <2>2
<1>5. IsRegs(current)
    BY <1>1, <1>2, RunningFact
<1>6. walk \in Seq(FrameType) /\ Len(walk) = 0 /\ DOMAIN walk = {}
    BY <1>1
<1>7. WalkIsTyped
    BY <1>1, <1>2, <1>4, <1>5, <1>6 DEF WalkIsTyped
<1>8. CursorIsAtEnd /\ MemoryIsLaidOut
    BY <1>1 DEF CursorIsAtEnd, MemoryIsLaidOut
<1>9. FramesAreCallers /\ StackGrowsOneWay
    BY <1>6 DEF FramesAreCallers, StackGrowsOneWay
<1> QED
    BY <1>7, <1>8, <1>9 DEF WalkIInv

LEMMA FirstFrameIInv == WalkIInv /\ FirstFrame => WalkIInv'
<1> SUFFICES ASSUME WalkIInv, FirstFrame PROVE WalkIInv'
    OBVIOUS
<1> DEFINE first == [regs |-> current, by |-> "thread"]
<1>1. WalkIsTyped /\ CursorIsAtEnd /\ MemoryIsLaidOut /\ FramesAreCallers /\ StackGrowsOneWay
    BY DEF WalkIInv
<1>2. /\ depth = 0 /\ depth' = 1 /\ walk' = <<first>> /\ chain' = chain /\ mem' = mem /\ intact' = intact
      /\ current' = current /\ prev' = prev /\ status' = status
    BY DEF FirstFrame
<1>3. IsChain(chain) /\ IsRegs(current) /\ current = Running(chain) /\ prev = <<>> /\ FrameLimit \in Nat \ {0}
      /\ Len(chain) \in Nat \ {0} /\ DOMAIN chain = 1 .. Len(chain)
    BY <1>1, <1>2, TypedChain, WalkerAssumption DEF WalkIsTyped, CursorIsAtEnd
<1>4. /\ walk' \in Seq(FrameType) /\ Len(walk') = 1 /\ DOMAIN walk' = {1} /\ walk'[1] = first
    <2>0. current \in AllRegs
        BY <1>3, RegsAreAll
    <2>1. first \in FrameType
        BY <2>0 DEF FrameType
    <2> HIDE DEF first
    <2> QED
        BY <1>2, <2>1
<1>5. first.regs = current
    OBVIOUS
<1>6. WalkIsTyped'
    BY <1>1, <1>2, <1>3, <1>4, <1>5 DEF WalkIsTyped, MemoryIsTyped
<1>7. CursorIsAtEnd' /\ MemoryIsLaidOut'
    BY <1>1, <1>2, <1>3, <1>4, <1>5 DEF CursorIsAtEnd, MemoryIsLaidOut
<1>8. FramesAreCallers'
    <2>1. IsFrameOf(current, 1)
        BY <1>3, RunningIsFirst
    <2>2. 1 \in DOMAIN chain /\ 1 <= 1
        BY <1>3
    <2>3. IsFrameOf(first.regs, 1)'
        BY <1>2, <1>5, <2>1 DEF IsFrameOf
    <2> HIDE DEF first
    <2> QED
        BY <1>2, <1>4, <1>5, <2>1, <2>2 DEF FramesAreCallers, IsFrameOf
<1>9. StackGrowsOneWay'
    BY <1>4 DEF StackGrowsOneWay
<1> QED
    BY <1>6, <1>7, <1>8, <1>9 DEF WalkIInv

LEMMA NextFrameIInv == WalkIInv /\ NextFrame => WalkIInv'
<1> SUFFICES ASSUME WalkIInv, NextFrame PROVE WalkIInv'
    OBVIOUS
<1>1. WalkIsTyped /\ CursorIsAtEnd /\ MemoryIsLaidOut /\ FramesAreCallers /\ StackGrowsOneWay
    BY DEF WalkIInv
<1>2. PICK r \in 1 .. 3 :
          /\ Answers[r].err = "success" /\ Answers[r].regs["ip"] > PageSize
          /\ prev' = current /\ current' = Answers[r].regs /\ depth' = depth + 1
          /\ walk' = Append(walk, [regs |-> current', by |-> Readers[r]])
    BY DEF NextFrame
<1>3. /\ depth > 0 /\ Len(walk) < FrameLimit
      /\ chain' = chain /\ mem' = mem /\ intact' = intact /\ status' = status
    BY DEF NextFrame
<1>4. /\ IsChain(chain) /\ IsRegs(current) /\ FrameLimit \in Nat \ {0}
      /\ Len(chain) \in Nat \ {0} /\ DOMAIN chain = 1 .. Len(chain)
      /\ depth \in Nat /\ DOMAIN walk = 1 .. depth /\ depth = Len(walk) /\ walk \in Seq(FrameType)
    BY <1>1, TypedChain, WalkerAssumption DEF WalkIsTyped
<1> DEFINE new == [regs |-> current', by |-> Readers[r]]
<1>5. IsRegs(current') /\ "lr" \notin DOMAIN current'
    BY <1>1, <1>2, AnswerType
<1>6. new \in FrameType /\ new.regs = current' /\ new.by = Readers[r]
    <2>1. Readers[r] \in {"compact", "dwarf", "frame_ptr"}
        <3>1. r \in {1, 2, 3}
            OBVIOUS
        <3> QED
            BY <3>1 DEF Readers
    <2>2. current' \in AllRegs
        BY <1>5, RegsAreAll
    <2> QED
        BY <2>1, <2>2 DEF FrameType
<1> HIDE DEF new
<1>7. /\ walk' \in Seq(FrameType) /\ Len(walk') = depth + 1 /\ DOMAIN walk' = 1 .. depth + 1
      /\ walk'[depth + 1] = new /\ \A j \in 1 .. depth : walk'[j] = walk[j]
    BY <1>2, <1>4, <1>6 DEF new
<1>8. WalkIsTyped'
    <2>1. \A j \in 1 .. depth + 1 : IsRegs(walk'[j].regs)
        <3> SUFFICES ASSUME NEW j \in 1 .. depth + 1 PROVE IsRegs(walk'[j].regs)
            OBVIOUS
        <3>1. CASE j = depth + 1
            BY <1>5, <1>6, <1>7, <3>1
        <3>2. CASE j # depth + 1
            <4>1. j \in 1 .. depth
                BY <1>4, <3>2
            <4> QED
                BY <1>1, <1>4, <1>7, <4>1 DEF WalkIsTyped
        <3> QED
            BY <3>1, <3>2
    <2>2. depth + 1 <= FrameLimit
        BY <1>3, <1>4
    <2>3. (\A j \in DOMAIN walk : IsRegs(walk[j].regs))'
        BY <1>7, <2>1
    <2>4. IsRegs(current)'
        BY <1>5 DEF IsRegs
    <2> QED
        BY <1>1, <1>2, <1>3, <1>7, <2>2, <2>3, <2>4 DEF WalkIsTyped, MemoryIsTyped
<1>9. CursorIsAtEnd'
    <2>1. depth' >= 2 /\ ~(depth' <= 1) /\ depth' - 1 = depth /\ depth \in 1 .. depth
        BY <1>2, <1>3, <1>4
    <2>2. current' = walk'[depth'].regs
        BY <1>2, <1>6, <1>7
    <2>3. prev' = walk'[depth' - 1].regs
        BY <1>1, <1>2, <1>3, <1>4, <1>7, <2>1 DEF CursorIsAtEnd
    <2> QED
        BY <1>5, <2>1, <2>2, <2>3 DEF CursorIsAtEnd
<1>10. MemoryIsLaidOut'
    BY <1>1, <1>3 DEF MemoryIsLaidOut
<1>11. FramesAreCallers'
    <2> SUFFICES ASSUME intact, NEW j \in 1 .. depth + 1
                 PROVE  \E i \in 1 .. Len(chain) : j <= i /\ IsFrameOf(walk'[j].regs, i)
        BY <1>3, <1>4, <1>7 DEF FramesAreCallers, IsFrameOf
    <2>1. CASE j \in 1 .. depth
        BY <1>1, <1>4, <1>7, <2>1 DEF FramesAreCallers
    <2>2. CASE j = depth + 1
        <3>1. depth \in DOMAIN walk /\ current = walk[depth].regs
            BY <1>1, <1>3, <1>4 DEF CursorIsAtEnd
        <3>2. PICK i \in 1 .. Len(chain) : depth <= i /\ IsFrameOf(current, i)
            BY <1>1, <1>4, <3>1 DEF FramesAreCallers
        <3>3. PICK m \in i .. Len(chain) : IsFrameOf(current', m + 1)
            BY <1>1, <1>2, <3>2, AnswerIsCaller
        <3>4. m + 1 \in 1 .. Len(chain) + 1 /\ depth + 1 <= m + 1
            BY <1>4, <3>2
        <3>5. m + 1 \in 1 .. Len(chain)
            BY <1>2, <1>4, <3>3, <3>4, PcIsCalls
        <3> QED
            BY <1>6, <1>7, <2>2, <3>3, <3>4, <3>5
    <2> QED
        BY <1>4, <2>1, <2>2
<1>12. StackGrowsOneWay'
    <2> SUFFICES ASSUME NEW j \in 3 .. depth + 1, walk'[j].by = "frame_ptr",
                        "fp" \in DOMAIN walk'[j - 2].regs
                 PROVE  walk'[j - 1].regs["fp"] >= walk'[j - 2].regs["fp"]
        BY <1>7 DEF StackGrowsOneWay
    <2>1. j - 1 \in 1 .. depth /\ j - 2 \in 1 .. depth /\ walk'[j - 1] = walk[j - 1] /\ walk'[j - 2] = walk[j - 2]
        BY <1>4, <1>7
    <2>2. CASE j \in 3 .. depth
        BY <1>1, <1>4, <1>7, <2>1, <2>2 DEF StackGrowsOneWay
    <2>3. CASE j = depth + 1
        <3>1. r = 3
            BY <1>6, <1>7, <2>3 DEF Readers
        <3>2. depth >= 2 /\ j - 1 = depth /\ j - 2 = depth - 1 /\ prev = walk[j - 2].regs /\ current = walk[j - 1].regs
            BY <1>1, <1>4, <2>3 DEF CursorIsAtEnd
        <3>3. FramePtr(current, prev).err = "success"
            BY <1>2, <3>1, <3>2 DEF Answers
        <3>4. "fp" \in DOMAIN current /\ ~("fp" \in DOMAIN prev /\ current["fp"] < prev["fp"])
            BY <1>4, <3>3, FramePtrGives
        <3>5. IsRegs(prev) /\ "fp" \in DOMAIN prev
            BY <1>1, <1>4, <2>1, <3>2 DEF WalkIsTyped
        <3>6. current["fp"] \in Int /\ prev["fp"] \in Int
            BY <1>4, <3>4, <3>5 DEF IsRegs
        <3> QED
            BY <2>1, <3>2, <3>4, <3>5, <3>6
    <2> QED
        BY <1>4, <2>2, <2>3
<1> QED
    BY <1>8, <1>9, <1>10, <1>11, <1>12 DEF WalkIInv

\* The steps that end the walk.
LEMMA EndIInv ==
    ASSUME WalkIInv, UNCHANGED <<chain, mem, intact, depth, current, prev, walk>>,
           status' \in {"walking", "limit", "ENOFRAME", "EBADFRAME"}
    PROVE  WalkIInv'
<1>1. WalkIsTyped /\ CursorIsAtEnd /\ MemoryIsLaidOut /\ FramesAreCallers /\ StackGrowsOneWay
    BY DEF WalkIInv
<1>2. WalkIsTyped'
    BY <1>1 DEF WalkIsTyped, MemoryIsTyped
<1>3. CursorIsAtEnd' /\ MemoryIsLaidOut' /\ StackGrowsOneWay'
    BY <1>1 DEF CursorIsAtEnd, MemoryIsLaidOut, StackGrowsOneWay
<1>4. FramesAreCallers'
    BY <1>1 DEF FramesAreCallers, IsFrameOf
<1> QED
    BY <1>2, <1>3, <1>4 DEF WalkIInv

LEMMA NoFrameStatus ==
    ASSUME WalkIsTyped, NoFrame
    PROVE  status' \in {"ENOFRAME", "EBADFRAME"}
<1>1. CASE /\ \A r \in 1 .. 3 : Answers[r].err # "success"
           /\ status' = Answers[3].err
    <2> DEFINE before == IF depth >= 2 THEN prev ELSE <<>>
    <2>1. Answers[3] = FramePtr(current, before) /\ Answers[3].err # "success"
        BY <1>1 DEF Answers
    <2> HIDE DEF before
    <2>2. FramePtr(current, before).err \in {"success", "ENOFRAME", "EBADFRAME"}
        BY FramePtrGives DEF WalkIsTyped
    <2> QED
        BY <1>1, <2>1, <2>2
<1>2. CASE status' = "ENOFRAME"
    BY <1>2
<1> QED
    BY <1>1, <1>2 DEF NoFrame

LEMMA WalkNextIInv == WalkIInv /\ [WalkNext]_walkVars => WalkIInv'
<1> SUFFICES ASSUME WalkIInv, [WalkNext]_walkVars PROVE WalkIInv'
    OBVIOUS
<1>1. CASE FirstFrame
    BY <1>1, FirstFrameIInv
<1>2. CASE NextFrame
    BY <1>2, NextFrameIInv
<1>3. CASE NoFrame
    <2>1. status' \in {"ENOFRAME", "EBADFRAME"}
        BY <1>3, NoFrameStatus DEF WalkIInv
    <2>2. UNCHANGED <<chain, mem, intact, depth, current, prev, walk>>
        BY <1>3 DEF NoFrame
    <2> QED
        BY <2>1, <2>2, EndIInv
<1>4. CASE TooManyFrames
    <2>1. status' = "limit" /\ UNCHANGED <<chain, mem, intact, depth, current, prev, walk>>
        BY <1>4 DEF TooManyFrames
    <2> QED
        BY <2>1, EndIInv
<1>5. CASE UNCHANGED walkVars
    <2>1. status' = status /\ UNCHANGED <<chain, mem, intact, depth, current, prev, walk>>
        BY <1>5 DEF walkVars
    <2>2. status' \in {"walking", "limit", "ENOFRAME", "EBADFRAME"}
        BY <2>1 DEF WalkIInv, WalkIsTyped
    <2> QED
        BY <2>1, <2>2, EndIInv
<1> QED
    BY <1>1, <1>2, <1>3, <1>4, <1>5 DEF WalkNext

\* The walk's inductive invariant.
THEOREM WalkInvariant == WalkSpec => []WalkIInv
BY WalkInitIInv, WalkNextIInv, PTL DEF WalkSpec

LEMMA WalkIInvSound == WalkIInv => WalkIsSound
<1> SUFFICES ASSUME WalkIInv PROVE WalkIsSound
    OBVIOUS
<1>1. WalkIsTyped /\ CursorIsAtEnd /\ FramesAreCallers /\ StackGrowsOneWay
    BY DEF WalkIInv
<1>2. depth \in Nat /\ DOMAIN walk = 1 .. depth
    BY <1>1, TypedChain
<1>3. DOMAIN prev \subseteq {"sp", "fp", "ip", "lr"}
    <2>1. CASE depth <= 1
        BY <1>1, <2>1 DEF CursorIsAtEnd
    <2>2. CASE depth > 1
        <3>1. depth - 1 \in DOMAIN walk /\ depth >= 2
            BY <1>2, <2>2
        <3>2. IsRegs(prev)
            BY <1>1, <3>1 DEF CursorIsAtEnd, WalkIsTyped
        <3> QED
            BY <3>2 DEF IsRegs, Registers
    <2> QED
        BY <1>2, <2>1, <2>2
<1>4. WalkTypeOK
    BY <1>1, <1>3 DEF WalkTypeOK, WalkIsTyped, IsRegs, Registers
<1> QED
    BY <1>1, <1>4 DEF WalkIsSound

\* For any chain of calls: an undamaged stack is walked from callee to caller, with the registers of the
\* frame; and whatever the stack holds, the walk by frame pointers goes one way only.
THEOREM WalkSound == WalkSpec => []WalkIsSound
BY WalkInvariant, WalkIInvSound, PTL

----------------------------------------------------------------------------
(* Nothing is missed.                                                      *)

\* Until it ends, a walk that can see every call has found each of them up to the cursor; it knows the
\* frame pointer, and the stack pointer too if all calls before had information.
NothingIsMissed ==
    intact /\ Walkable(chain) /\ Len(chain) < FrameLimit =>
        /\ depth <= Len(chain)
        /\ \A j \in DOMAIN walk : IsFrameOf(walk[j].regs, j) /\ "fp" \in DOMAIN walk[j].regs
        /\ "sp" \notin DOMAIN current => \E j \in 1 .. depth - 1 : chain[j].info = "none"
        /\ status # "walking" => status = "ENOFRAME" /\ depth = Len(chain)

LEMMA FramePointersRise ==
    ASSUME NEW c, IsChain(c), NEW i \in 1 .. Len(c), i + 1 \in 1 .. Len(c), c[i + 1].kind = "framed"
    PROVE  FP(c, i) <= FP(c, i + 1)
<1>1. /\ Len(c) \in Nat /\ i \in Nat /\ c[i].kind \in Kinds /\ c[i + 1].locals \in Nat
      /\ i + 1 \in 1 .. Len(c) + 1 /\ (i + 1) + 1 \in 1 .. Len(c) + 1 /\ i + 1 <= (i + 1) + 1
      /\ 1 \in 1 .. Len(c) + 1
    BY ChainFact
<1>2. FP(c, i + 1) = SP(c, (i + 1) + 1) - 2
    BY FramePointers
<1>3. /\ SP(c, i + 1) \in Int /\ SP(c, (i + 1) + 1) \in Int /\ SP(c, 1) = Base
      /\ SP(c, (i + 1) + 1) = SP(c, i + 1) + (c[i + 1].locals + 2)
    <2>1. SP(c, i + 1) \in Int /\ SP(c, (i + 1) + 1) \in Int /\ SP(c, 1) = Base
        BY <1>1, StackPointers
    <2>2. SP(c, (i + 1) + 1) = SP(c, i + 1) + WordsOf(c[i + 1])
        BY StackPointers
    <2> QED
        BY <2>1, <2>2 DEF WordsOf
<1>4. Base <= SP(c, i + 1)
    <2>1. SP(c, 1) <= SP(c, i + 1)
        BY <1>1, StackRises
    <2> QED
        BY <1>3, <2>1
<1>5. CASE c[i].kind = "framed"
    <2>1. FP(c, i) = SP(c, i + 1) - 2
        BY <1>5, FramePointers
    <2> QED
        BY <1>1, <1>2, <1>3, <2>1
<1>6. CASE c[i].kind = "saves"
    <2>1. FP(c, i) = 1
        BY <1>6, FramePointers DEF Unmapped
    <2>2. 2000 <= SP(c, i + 1)
        BY <1>4 DEF Base
    <2> QED
        BY <1>1, <1>2, <1>3, <2>1, <2>2
<1>7. CASE c[i].kind \in {"plain", "leaf"}
    <2>1. FP(c, i) = FP(c, i + 1)
        BY <1>7, FramePointers
    <2> QED
        BY <1>2, <1>3, <2>1
<1> QED
    BY <1>1, <1>5, <1>6, <1>7 DEF Kinds

\* A framed call is left by its frame pointer.
LEMMA FramePtrReads ==
    ASSUME WalkIsTyped, CursorIsAtEnd, intact, MemoryIsLaidOut, depth \in 1 .. Len(chain),
           \A j \in DOMAIN walk : IsFrameOf(walk[j].regs, j) /\ "fp" \in DOMAIN walk[j].regs,
           chain[depth].kind = "framed"
    PROVE  Answers[3].err = "success"
<1> DEFINE before == IF depth >= 2 THEN prev ELSE <<>>
           fp == current["fp"]
<1>1. /\ IsChain(chain) /\ IsRegs(current) /\ Len(chain) \in Nat /\ depth \in Nat /\ DOMAIN walk = 1 .. depth
      /\ mem = Layout(chain)
    BY TypedChain DEF WalkIsTyped, MemoryIsLaidOut
<1>2. IsFrameOf(current, depth) /\ "fp" \in DOMAIN current
    BY <1>1 DEF CursorIsAtEnd
<1>3. fp = FP(chain, depth) /\ fp = SP(chain, depth + 1) - 2
    BY <1>1, <1>2, FramePointers DEF IsFrameOf
<1>4. SP(chain, depth + 1) \in Int
    <2>1. depth + 1 \in 1 .. Len(chain) + 1
        BY <1>1
    <2> QED
        BY <1>1, <2>1, StackPointers
<1>5. fp \in DOMAIN mem /\ fp + 1 \in DOMAIN mem
    <2>1. fp \in SavedFP(chain, depth)
        BY <1>3 DEF SavedFP
    <2>2. fp + 1 = SP(chain, depth + 1) - 1
        BY <1>3, <1>4
    <2> QED
        BY <1>1, <2>1, <2>2, SavedWords
<1>6. fp # 0
    <2>1. DOMAIN mem = Base .. SP(chain, Len(chain) + 1) - 1
        BY <1>1, LayoutType
    <2> QED
        BY <1>5, <2>1 DEF Base
<1>7. ~("fp" \in DOMAIN before /\ fp < before["fp"])
    <2>1. CASE depth < 2
        <3>1. before = <<>> /\ DOMAIN <<>> = {}
            BY <1>1, <2>1
        <3> HIDE DEF before
        <3> QED
            BY <3>1
    <2>2. CASE depth >= 2
        <3>1. before = walk[depth - 1].regs /\ depth - 1 \in 1 .. depth /\ depth - 1 \in 1 .. Len(chain)
              /\ (depth - 1) + 1 = depth
            BY <1>1, <2>2 DEF CursorIsAtEnd
        <3>2. IsFrameOf(before, depth - 1) /\ "fp" \in DOMAIN before
            BY <1>1, <3>1
        <3>3. before["fp"] = FP(chain, depth - 1)
            BY <3>2 DEF IsFrameOf
        <3>4. FP(chain, depth - 1) <= FP(chain, depth)
            <4> DEFINE i == depth - 1
            <4>1. i \in 1 .. Len(chain) /\ i + 1 = depth
                BY <3>1
            <4> HIDE DEF i
            <4>2. FP(chain, i) <= FP(chain, i + 1)
                BY <1>1, <4>1, FramePointersRise
            <4> QED
                BY <4>1, <4>2 DEF i
        <3>5. FP(chain, depth - 1) \in Int /\ FP(chain, depth) \in Int
            <4>1. depth \in 1 .. Len(chain) + 1 /\ depth - 1 \in 1 .. Len(chain) + 1
                BY <1>1, <3>1
            <4> QED
                BY <1>1, <4>1, FirstSets
        <3> HIDE DEF before
        <3> QED
            BY <1>3, <3>3, <3>4, <3>5
    <2> QED
        BY <1>1, <2>1, <2>2
<1>8. FramePtr(current, before).err = "success"
    <2> HIDE DEF before
    <2> QED
        BY <1>1, <1>2, <1>5, <1>6, <1>7, FramePtrGives
<1> QED
    BY <1>8 DEF Answers

\* A call that has information is left by it.
LEMMA InformationReads ==
    ASSUME WalkIsTyped, CursorIsAtEnd, intact, MemoryIsLaidOut, depth \in 1 .. Len(chain),
           IsFrameOf(current, depth), BaseOf(depth) \in DOMAIN current,
           chain[depth].info # "none"
    PROVE  Answers[1].err = "success" \/ Answers[2].err = "success"
<1>1. /\ IsChain(chain) /\ IsRegs(current) /\ Len(chain) \in Nat /\ depth \in Nat
      /\ mem = Layout(chain)
    BY TypedChain DEF WalkIsTyped, MemoryIsLaidOut
<1>2. FunctionAt(current["ip"]) = depth
    <2>1. current["ip"] \in Int /\ current["ip"] = Return(chain, depth)
        BY <1>1 DEF IsRegs, IsFrameOf
    <2> QED
        BY <1>1, <2>1, AttributedTo
<1>3. FrameIsThere(current, depth)
    <2>1. ASSUME chain[depth].kind = "leaf"
          PROVE  "lr" \in DOMAIN current
        <3>1. depth = 1
            BY <1>1, <2>1, ChainFact
        <3>2. current = Running(chain)
            BY <3>1 DEF CursorIsAtEnd
        <3> QED
            BY <1>1, <3>2, RunningFact DEF Registers
    <2> QED
        BY <1>1, <2>1, FrameCanBeRead
<1>4. chain[depth].info \in Information
    BY <1>1, ChainFact
<1>5. CASE chain[depth].info \in {"compact", "indirect"}
    <2>1. Compact(current).err = "success"
        BY <1>1, <1>2, <1>3, <1>5, CompactGives
    <2> QED
        BY <2>1 DEF Answers
<1>6. CASE chain[depth].info = "dwarf"
    <2>1. Dwarf(current).err = "success"
        BY <1>1, <1>2, <1>3, <1>6, DwarfGives
    <2> QED
        BY <2>1 DEF Answers
<1> QED
    BY <1>4, <1>5, <1>6 DEF Information

\* What the first reader that has a frame gives is the next call's, and one of them has.
LEMMA NextIsRead ==
    ASSUME WalkIsTyped, CursorIsAtEnd, MemoryIsLaidOut, NothingIsMissed,
           intact, Walkable(chain), Len(chain) < FrameLimit, depth > 0
    PROVE  /\ \E r \in 1 .. 3 : Answers[r].err = "success"
           /\ \A r \in 1 .. 3 :
                 Answers[r].err = "success" /\ (\A q \in 1 .. r - 1 : Answers[q].err # "success") =>
                     /\ IsFrameOf(Answers[r].regs, depth + 1) /\ "fp" \in DOMAIN Answers[r].regs
                     /\ "sp" \in DOMAIN Answers[r].regs \/ chain[depth].info = "none"
<1>1. /\ IsChain(chain) /\ IsRegs(current) /\ Len(chain) \in Nat /\ DOMAIN chain = 1 .. Len(chain)
      /\ depth \in Nat /\ DOMAIN walk = 1 .. depth /\ MemoryIsTyped
    BY TypedChain DEF WalkIsTyped
<1>2. /\ depth \in 1 .. Len(chain)
      /\ \A j \in DOMAIN walk : IsFrameOf(walk[j].regs, j) /\ "fp" \in DOMAIN walk[j].regs
      /\ "sp" \notin DOMAIN current => \E j \in 1 .. depth - 1 : chain[j].info = "none"
    <2>1. /\ depth <= Len(chain)
          /\ \A j \in DOMAIN walk : IsFrameOf(walk[j].regs, j) /\ "fp" \in DOMAIN walk[j].regs
          /\ "sp" \notin DOMAIN current => \E j \in 1 .. depth - 1 : chain[j].info = "none"
        BY DEF NothingIsMissed
    <2>2. depth \in 1 .. Len(chain)
        BY <1>1, <2>1
    <2> QED
        BY <2>1, <2>2
<1>3. IsFrameOf(current, depth) /\ "fp" \in DOMAIN current
    BY <1>1, <1>2 DEF CursorIsAtEnd
<1>4. ASSUME chain[depth].kind # "framed"
      PROVE  "sp" \in DOMAIN current /\ chain[depth].info # "none"
    BY <1>1, <1>2, <1>4 DEF Walkable
<1>5. BaseOf(depth) \in DOMAIN current
    BY <1>3, <1>4 DEF BaseOf
<1>6. chain[depth].info # "none" => Answers[1].err = "success" \/ Answers[2].err = "success"
    BY <1>2, <1>3, <1>5, InformationReads
<1>7. chain[depth].info = "none" => chain[depth].kind = "framed" /\ Answers[3].err = "success"
    BY <1>2, <1>4, FramePtrReads
<1>8. \E r \in 1 .. 3 : Answers[r].err = "success"
    <2>1. 1 \in 1 .. 3 /\ 2 \in 1 .. 3 /\ 3 \in 1 .. 3
        OBVIOUS
    <2> QED
        BY <1>6, <1>7, <2>1
<1>9. ASSUME NEW r \in 1 .. 3, Answers[r].err = "success", \A q \in 1 .. r - 1 : Answers[q].err # "success"
      PROVE  /\ IsFrameOf(Answers[r].regs, depth + 1) /\ "fp" \in DOMAIN Answers[r].regs
             /\ "sp" \in DOMAIN Answers[r].regs \/ chain[depth].info = "none"
    <2>1. CASE r = 1
        <3>1. Answers[r] = Compact(current)
            BY <2>1 DEF Answers
        <3>2. /\ FunctionAt(current["ip"]) \in 1 .. Len(chain)
              /\ Given(current, FunctionAt(current["ip"]), Answers[r].regs)
            BY <1>1, <1>9, <3>1, CompactGives
        <3>3. "fp" \in DOMAIN Answers[r].regs /\ "sp" \in DOMAIN Answers[r].regs
            BY <1>1, <1>3, <3>2, GivenType
        <3> QED
            BY <1>2, <1>3, <1>9, <2>1, <3>3, AnswerIsCaller
    <2>2. CASE r = 2
        <3>1. Answers[r] = Dwarf(current)
            BY <2>2 DEF Answers
        <3>2. /\ FunctionAt(current["ip"]) \in 1 .. Len(chain)
              /\ Given(current, FunctionAt(current["ip"]), Answers[r].regs)
            BY <1>1, <1>9, <3>1, DwarfGives
        <3>3. "fp" \in DOMAIN Answers[r].regs /\ "sp" \in DOMAIN Answers[r].regs
            BY <1>1, <1>3, <3>2, GivenType
        <3> QED
            BY <1>2, <1>3, <1>9, <2>2, <3>3, AnswerIsCaller
    <2>3. CASE r = 3
        <3>1. chain[depth].info = "none" /\ chain[depth].kind = "framed"
            <4>1. 1 \in 1 .. r - 1 /\ 2 \in 1 .. r - 1
                BY <2>3
            <4> QED
                BY <1>6, <1>7, <1>9, <4>1
        <3> DEFINE before == IF depth >= 2 THEN prev ELSE <<>>
        <3>2. Answers[r] = FramePtr(current, before)
            BY <2>3 DEF Answers
        <3> HIDE DEF before
        <3>3. /\ current["fp"] # 0 /\ current["fp"] \in DOMAIN mem /\ current["fp"] + 1 \in DOMAIN mem
              /\ ~("fp" \in DOMAIN before /\ current["fp"] < before["fp"])
            BY <1>1, <1>9, <3>2, FramePtrGives
        <3>4. "fp" \in DOMAIN FramePtr(current, before).regs
            BY <1>1, <1>3, <3>3, FramePtrGives
        <3> QED
            BY <1>2, <1>3, <1>9, <3>1, <3>2, <3>4, AnswerIsCaller
    <2> QED
        BY <2>1, <2>2, <2>3
<1> QED
    BY <1>8, <1>9

LEMMA MissedInit == WalkInit => NothingIsMissed
<1> SUFFICES ASSUME WalkInit PROVE NothingIsMissed
    OBVIOUS
<1>1. /\ chain \in Chains /\ depth = 0 /\ current = Running(chain) /\ walk = <<>> /\ status = "walking"
    BY DEF WalkInit
<1>2. IsChain(chain)
    BY <1>1, ChainAssumption
<1>3. Len(chain) \in Nat /\ "sp" \in DOMAIN current /\ DOMAIN walk = {}
    BY <1>1, <1>2, ChainFact, RunningFact DEF Registers
<1> QED
    BY <1>1, <1>3 DEF NothingIsMissed

LEMMA MissedFirst == WalkIInv /\ NothingIsMissed /\ FirstFrame => NothingIsMissed'
<1> SUFFICES ASSUME WalkIInv, NothingIsMissed, FirstFrame, (intact /\ Walkable(chain) /\ Len(chain) < FrameLimit)'
             PROVE  NothingIsMissed'
    BY DEF NothingIsMissed
<1> DEFINE first == [regs |-> current, by |-> "thread"]
<1>1. /\ depth = 0 /\ depth' = 1 /\ walk' = <<first>> /\ chain' = chain /\ intact' = intact
      /\ current' = current /\ status' = "walking"
    BY DEF FirstFrame
<1>2. IsChain(chain) /\ current = Running(chain) /\ Len(chain) \in Nat \ {0}
    BY <1>1, TypedChain DEF WalkIInv, CursorIsAtEnd
<1>3. first.regs = current
    OBVIOUS
<1>4. DOMAIN walk' = {1} /\ walk'[1].regs = current
    <2> HIDE DEF first
    <2> QED
        BY <1>1, <1>3
<1>5. IsFrameOf(current, 1) /\ "fp" \in DOMAIN current /\ "sp" \in DOMAIN current
    BY <1>2, RunningIsFirst, RunningFact DEF Registers
<1>6. (\A j \in DOMAIN walk : IsFrameOf(walk[j].regs, j) /\ "fp" \in DOMAIN walk[j].regs)'
    BY <1>1, <1>4, <1>5 DEF IsFrameOf
<1> QED
    BY <1>1, <1>2, <1>5, <1>6 DEF NothingIsMissed

LEMMA MissedNext == WalkIInv /\ NothingIsMissed /\ NextFrame => NothingIsMissed'
<1> SUFFICES ASSUME WalkIInv, NothingIsMissed, NextFrame, (intact /\ Walkable(chain) /\ Len(chain) < FrameLimit)'
             PROVE  NothingIsMissed'
    BY DEF NothingIsMissed
<1>1. PICK r \in 1 .. 3 :
          /\ Answers[r].err = "success" /\ (\A q \in 1 .. r - 1 : Answers[q].err # "success")
          /\ Answers[r].regs["ip"] > PageSize
          /\ current' = Answers[r].regs /\ depth' = depth + 1
          /\ walk' = Append(walk, [regs |-> current', by |-> Readers[r]])
    BY DEF NextFrame
<1>2. /\ depth > 0 /\ status = "walking" /\ chain' = chain /\ intact' = intact /\ status' = status
    BY DEF NextFrame
<1>3. intact /\ Walkable(chain) /\ Len(chain) < FrameLimit
    BY <1>2 DEF Walkable
<1>4. /\ WalkIsTyped /\ CursorIsAtEnd /\ MemoryIsLaidOut
      /\ IsChain(chain) /\ Len(chain) \in Nat \ {0} /\ DOMAIN chain = 1 .. Len(chain)
      /\ depth \in Nat /\ DOMAIN walk = 1 .. depth /\ depth = Len(walk) /\ walk \in Seq(FrameType)
    BY TypedChain DEF WalkIInv, WalkIsTyped
<1>5. /\ IsFrameOf(current', depth + 1) /\ "fp" \in DOMAIN current'
      /\ "sp" \in DOMAIN current' \/ chain[depth].info = "none"
    BY <1>1, <1>2, <1>3, <1>4, NextIsRead
<1>6. /\ depth <= Len(chain)
      /\ \A j \in DOMAIN walk : IsFrameOf(walk[j].regs, j) /\ "fp" \in DOMAIN walk[j].regs
    BY <1>3 DEF NothingIsMissed
<1>7. depth + 1 <= Len(chain)
    <2>1. depth + 1 \in 1 .. Len(chain) + 1
        BY <1>4, <1>6
    <2>2. depth + 1 \in 1 .. Len(chain)
        BY <1>1, <1>4, <1>5, <2>1, PcIsCalls
    <2> QED
        BY <1>4, <2>2
<1>8. /\ DOMAIN walk' = 1 .. depth + 1 /\ walk'[depth + 1].regs = current'
      /\ \A j \in 1 .. depth : walk'[j] = walk[j]
    <2> DEFINE new == [regs |-> current', by |-> Readers[r]]
    <2>1. new.regs = current'
        OBVIOUS
    <2> HIDE DEF new
    <2> QED
        BY <1>1, <1>4, <2>1 DEF new
<1>9. \A j \in 1 .. depth + 1 : IsFrameOf(walk'[j].regs, j) /\ "fp" \in DOMAIN walk'[j].regs
    <2> SUFFICES ASSUME NEW j \in 1 .. depth + 1
                 PROVE  IsFrameOf(walk'[j].regs, j) /\ "fp" \in DOMAIN walk'[j].regs
        OBVIOUS
    <2>1. CASE j = depth + 1
        BY <1>5, <1>8, <2>1
    <2>2. CASE j \in 1 .. depth
        BY <1>4, <1>6, <1>8, <2>2
    <2> QED
        BY <1>4, <2>1, <2>2
<1>10. (\A j \in DOMAIN walk : IsFrameOf(walk[j].regs, j) /\ "fp" \in DOMAIN walk[j].regs)'
    BY <1>2, <1>8, <1>9 DEF IsFrameOf
<1>11. ("sp" \notin DOMAIN current => \E j \in 1 .. depth - 1 : chain[j].info = "none")'
    <2>1. depth \in 1 .. (depth + 1) - 1
        BY <1>2, <1>4
    <2> QED
        BY <1>1, <1>2, <1>5, <2>1
<1> QED
    BY <1>1, <1>2, <1>7, <1>10, <1>11 DEF NothingIsMissed

LEMMA MissedNone == WalkIInv /\ NothingIsMissed /\ NoFrame => NothingIsMissed'
<1> SUFFICES ASSUME WalkIInv, NothingIsMissed, NoFrame, (intact /\ Walkable(chain) /\ Len(chain) < FrameLimit)'
             PROVE  NothingIsMissed'
    BY DEF NothingIsMissed
<1>1. /\ depth > 0 /\ UNCHANGED <<chain, mem, intact, depth, current, prev, walk>>
    BY DEF NoFrame
<1>2. intact /\ Walkable(chain) /\ Len(chain) < FrameLimit
    BY <1>1 DEF Walkable
<1>3. /\ WalkIsTyped /\ CursorIsAtEnd /\ MemoryIsLaidOut
      /\ IsChain(chain) /\ Len(chain) \in Nat \ {0} /\ depth \in Nat
    BY TypedChain DEF WalkIInv
<1>4. PICK r \in 1 .. 3 :
          /\ Answers[r].err = "success" /\ (\A q \in 1 .. r - 1 : Answers[q].err # "success")
          /\ Answers[r].regs["ip"] <= PageSize /\ status' = "ENOFRAME"
    <2>1. \E r \in 1 .. 3 : Answers[r].err = "success"
        BY <1>1, <1>2, <1>3, NextIsRead
    <2> QED
        BY <2>1 DEF NoFrame
<1>5. IsFrameOf(Answers[r].regs, depth + 1)
    BY <1>1, <1>2, <1>3, <1>4, NextIsRead
<1>6. depth <= Len(chain)
    BY <1>2 DEF NothingIsMissed
<1>7. depth = Len(chain)
    <2> SUFFICES ASSUME depth # Len(chain) PROVE FALSE
        OBVIOUS
    <2>1. depth + 1 \in 1 .. Len(chain) + 1 /\ depth + 1 \in 1 .. Len(chain)
        BY <1>3, <1>6
    <2>2. Answers[r].regs["ip"] > PageSize
        BY <1>3, <1>5, <2>1, PcIsCalls
    <2>3. IsRegs(Answers[r].regs)
        BY <1>3, <1>4, AnswerType
    <2>4. Answers[r].regs["ip"] \in Int /\ PageSize \in Int
        BY <2>3, WalkerAssumption DEF IsRegs
    <2> QED
        BY <1>4, <2>2, <2>4
<1>8. NothingIsMissed' <=>
          /\ depth <= Len(chain)
          /\ \A j \in DOMAIN walk : IsFrameOf(walk[j].regs, j) /\ "fp" \in DOMAIN walk[j].regs
          /\ "sp" \notin DOMAIN current => \E j \in 1 .. depth - 1 : chain[j].info = "none"
          /\ status' # "walking" => status' = "ENOFRAME" /\ depth = Len(chain)
    BY <1>1, <1>2 DEF NothingIsMissed, IsFrameOf, Walkable
<1> QED
    BY <1>2, <1>4, <1>7, <1>8 DEF NothingIsMissed

LEMMA MissedKept ==
    ASSUME WalkIInv, NothingIsMissed, UNCHANGED <<chain, mem, intact, depth, current, prev, walk>>,
           status' = status \/ (Len(walk) = FrameLimit)
    PROVE  NothingIsMissed'
<1> SUFFICES ASSUME (intact /\ Walkable(chain) /\ Len(chain) < FrameLimit)' PROVE NothingIsMissed'
    BY DEF NothingIsMissed
<1>1. intact /\ Walkable(chain) /\ Len(chain) < FrameLimit
    BY DEF Walkable
<1>2. depth <= Len(chain) /\ depth = Len(walk) /\ depth \in Nat /\ Len(chain) \in Nat /\ FrameLimit \in Nat
    BY <1>1, TypedChain, WalkerAssumption DEF NothingIsMissed, WalkIInv, WalkIsTyped
<1>3. status' = status
    BY <1>1, <1>2
<1> QED
    BY <1>1, <1>3 DEF NothingIsMissed, IsFrameOf, Walkable

\* The invariant behind it: until the walk ends, every call up to the cursor's was found and the
\* next one can be read.
THEOREM NothingMissed == WalkSpec => []NothingIsMissed
<1>1. WalkInit => NothingIsMissed
    BY MissedInit
<1>2. WalkIInv /\ NothingIsMissed /\ [WalkNext]_walkVars => NothingIsMissed'
    <2> SUFFICES ASSUME WalkIInv, NothingIsMissed, [WalkNext]_walkVars PROVE NothingIsMissed'
        OBVIOUS
    <2>1. CASE FirstFrame
        BY <2>1, MissedFirst
    <2>2. CASE NextFrame
        BY <2>2, MissedNext
    <2>3. CASE NoFrame
        BY <2>3, MissedNone
    <2>4. CASE TooManyFrames
        <3>1. Len(walk) = FrameLimit /\ UNCHANGED <<chain, mem, intact, depth, current, prev, walk>>
            BY <2>4 DEF TooManyFrames
        <3> QED
            BY <3>1, MissedKept
    <2>5. CASE UNCHANGED walkVars
        <3>1. status' = status /\ UNCHANGED <<chain, mem, intact, depth, current, prev, walk>>
            BY <2>5 DEF walkVars
        <3> QED
            BY <3>1, MissedKept
    <2> QED
        BY <2>1, <2>2, <2>3, <2>4, <2>5 DEF WalkNext
<1> QED
    BY <1>1, <1>2, WalkInvariant, PTL DEF WalkSpec

LEMMA MissedComplete == WalkIInv /\ NothingIsMissed => WalkIsComplete
<1> SUFFICES ASSUME WalkIInv, NothingIsMissed,
                    intact /\ Walkable(chain) /\ Len(chain) < FrameLimit /\ status # "walking"
             PROVE  /\ status = "ENOFRAME" /\ Len(walk) = Len(chain)
                    /\ \A j \in DOMAIN walk : IsFrameOf(walk[j].regs, j)
    BY DEF WalkIsComplete
<1>1. depth = Len(walk)
    BY DEF WalkIInv, WalkIsTyped
<1> QED
    BY <1>1 DEF NothingIsMissed

\* Where nothing hides a call, the walk of an undamaged stack finds all of them in their order, and ends
\* because there is none left.
THEOREM WalkComplete == WalkSpec => []WalkIsComplete
BY WalkInvariant, NothingMissed, MissedComplete, PTL
----------------------------------------------------------------------------
(* The lookup: its cache.  L stands for legacy, R for the realized classes. *)

Slots == 1 .. CacheSize
CacheType == [objc2 : BOOLEAN, image : Images \cup {NULL}, mapped : SUBSET (Images \X Sections),
              keys : {<<>>} \cup [Slots -> Classes \cup {0}],
              values : {<<>>} \cup [Slots -> DOMAIN Methods \cup {0}]]

\* All of an image's sections can be mapped.
Complete(L, i) == ~L /\ Image[i].sections = Sections

\* Every entry is that of a realized class, with its read-only data.
GoodEntries(R, c) ==
    \/ c.keys = <<>> /\ c.values = <<>>
    \/ /\ c.keys \in [Slots -> Classes \cup {0}]
       /\ c.values \in [Slots -> DOMAIN Methods \cup {0}]
       /\ \A s \in Slots : c.keys[s] # 0 => c.keys[s] \in R /\ c.values[s] = RoOf[c.keys[s]]

GoodMappings(L, c) ==
    c.image # NULL => c.mapped = {c.image} \X Sections /\ Complete(L, c.image)

Good(L, R, c) ==
    /\ c \in CacheType
    /\ GoodMappings(L, c) /\ GoodEntries(R, c)
    /\ L => ~c.objc2

\* A realized class has a realized metaclass.
Closed(R) ==
    /\ R \subseteq Classes
    /\ \A i \in Images : \A e \in Range(Image[i].classes) : e.class \in R => e.meta \in R

LEMMA SlotInRange ==
    ASSUME NEW class \in Classes
    PROVE  Slot(class) \in Slots
<1>1. class \in Nat /\ CacheSize \in Nat \ {0}
    BY LookupAssumption DEF Classes
<1> DEFINE q == class \div 4
<1>2. q \in Nat
    BY <1>1
<1>3. q % CacheSize \in 0 .. CacheSize - 1
    <2> HIDE DEF q
    <2> QED
        BY <1>1, <1>2
<1>4. (q % CacheSize) + 1 \in 1 .. CacheSize
    <2> HIDE DEF q
    <2> QED
        BY <1>1, <1>3
<1> QED
    BY <1>4 DEF Slot, Slots

LEMMA NoEmptySlots ==
    ASSUME NEW S, NEW f \in [Slots -> S]
    PROVE  f # <<>>
<1>1. 1 \in DOMAIN f
    BY LookupAssumption DEF Slots
<1> QED
    BY <1>1

LEMMA RoOfType ==
    ASSUME NEW class \in Classes
    PROVE  RoOf[class] \in DOMAIN Methods /\ RoOf[class] \in Nat \ {0} /\ class # 0
BY LookupAssumption DEF Classes

\* The first cache.
LEMMA NoCacheIsGood ==
    ASSUME NEW L, NEW R
    PROVE  Good(L, R, NoCache)
BY DEF NoCache, Good, CacheType, GoodMappings, GoodEntries

LEMMA CacheLookupFact ==
    ASSUME NEW L, NEW R, NEW c, Good(L, R, c), NEW class \in Classes, CacheLookup(c, class) # 0
    PROVE  class \in R /\ CacheLookup(c, class) = RoOf[class]
<1>1. c.keys # <<>> /\ c.keys[Slot(class)] = class /\ CacheLookup(c, class) = c.values[Slot(class)]
    BY DEF CacheLookup
<1>2. Slot(class) \in Slots /\ class # 0
    BY SlotInRange, RoOfType
<1> QED
    BY <1>1, <1>2 DEF Good, GoodEntries

LEMMA CacheSetFact ==
    ASSUME NEW L, NEW R, NEW c, Good(L, R, c), NEW class \in Classes, class \in R, NEW memory
    PROVE  LET d == CacheSet(c, class, RoOf[class], memory)
           IN  Good(L, R, d) /\ d.image = c.image
<1> DEFINE empty == [s \in 1..CacheSize |-> 0]
           c2 == IF c.keys = <<>> /\ memory
                 THEN [c EXCEPT !.keys = empty, !.values = empty] ELSE c
           s == Slot(class)
           d == [c2 EXCEPT !.keys[s] = class, !.values[s] = RoOf[class]]
<1>1. Good(L, R, c2) /\ c2.image = c.image
    <2>1. empty \in [Slots -> Classes \cup {0}] /\ empty \in [Slots -> DOMAIN Methods \cup {0}]
        BY DEF Slots
    <2>2. \A t \in Slots : empty[t] = 0
        BY DEF Slots
    <2> HIDE DEF empty
    <2>3. CASE c.keys = <<>> /\ memory
        <3>1. /\ c2 \in CacheType /\ c2.image = c.image /\ c2.mapped = c.mapped
              /\ c2.objc2 = c.objc2 /\ c2.keys = empty /\ c2.values = empty
            BY <2>1, <2>3 DEF Good, CacheType
        <3> QED
            BY <2>1, <2>2, <3>1 DEF Good, GoodMappings, GoodEntries
    <2>4. CASE ~(c.keys = <<>> /\ memory)
        BY <2>4
    <2> QED
        BY <2>3, <2>4
<1>2. s \in Slots /\ RoOf[class] \in DOMAIN Methods
    BY SlotInRange, RoOfType
<1>3. CASE c2.keys # <<>> /\ c2.keys[s] = 0
    <2> HIDE DEF c2, s
    <2>1. /\ c2.keys \in [Slots -> Classes \cup {0}]
          /\ c2.values \in [Slots -> DOMAIN Methods \cup {0}]
          /\ \A t \in Slots : c2.keys[t] # 0 => c2.keys[t] \in R /\ c2.values[t] = RoOf[c2.keys[t]]
        BY <1>1, <1>3 DEF Good, GoodEntries
    <2>2. /\ d.image = c2.image /\ d.mapped = c2.mapped /\ d.objc2 = c2.objc2
          /\ d.keys = [c2.keys EXCEPT ![s] = class]
          /\ d.values = [c2.values EXCEPT ![s] = RoOf[class]]
        BY <1>1 DEF Good, CacheType
    <2>3. d \in CacheType
        BY <1>1, <1>2, <2>1 DEF Good, CacheType
    <2>4. GoodEntries(R, d)
        BY <1>2, <2>1, <2>2 DEF GoodEntries
    <2>5. Good(L, R, d) /\ d.image = c.image
        <3> HIDE DEF d
        <3> QED
            BY <1>1, <2>2, <2>3, <2>4 DEF Good, GoodMappings
    <2>6. CacheSet(c, class, RoOf[class], memory) = d
        BY <1>3 DEF CacheSet, c2, s
    <2> HIDE DEF d
    <2> QED
        BY <2>5, <2>6
<1>4. CASE ~(c2.keys # <<>> /\ c2.keys[s] = 0)
    <2>1. CacheSet(c, class, RoOf[class], memory) = c2
        BY <1>4 DEF CacheSet
    <2> HIDE DEF c2
    <2> QED
        BY <1>1, <2>1
<1> QED
    BY <1>3, <1>4

\* What is mapped afterwards, and whether that is the image.
LEMMA MapSectionsFact ==
    ASSUME NEW R, NEW c, Good(legacy, R, c), NEW i \in Images
    PROVE  LET d == MapSections(c, i)
           IN  Good(legacy, R, d) /\ (d.image = i <=> Complete(legacy, i))
<1>1. MappedBefore(i) \subseteq Sections
    BY DEF MappedBefore, MapOrder, Sections
<1>2. MappedBefore(i) = Sections <=> Complete(legacy, i)
    <2>1. MapOrder[1] = "const" /\ MapOrder[2] = "classes" /\ MapOrder[3] = "categories"
          /\ MapOrder[4] = "data"
        BY DEF MapOrder
    <2>2. ASSUME MappedBefore(i) = Sections PROVE Sections \subseteq Found(i)
        <3>1. MappedBefore(i) \subseteq Found(i)
            BY DEF MappedBefore
        <3> QED
            BY <2>2, <3>1
    <2>3. ASSUME Sections \subseteq Found(i) PROVE MappedBefore(i) = Sections
        <3>1. \A l \in 1 .. 4 : MapOrder[l] \in Found(i)
            BY <2>1, <2>3 DEF Sections
        <3>2. \A m \in 1 .. 4 : MapOrder[m] \in MappedBefore(i)
            BY <3>1 DEF MappedBefore
        <3>3. Sections \subseteq MappedBefore(i)
            BY <2>1, <3>2 DEF Sections
        <3> QED
            BY <1>1, <3>3
    <2>4. Sections \subseteq Found(i) <=> Complete(legacy, i)
        BY ImageAssumption DEF Found, Complete, Sections
    <2> QED
        BY <2>2, <2>3, <2>4
<1>3. i # NULL
    BY LookupAssumption
<1>4. CASE c.image = i
    BY <1>3, <1>4 DEF MapSections, Good, GoodMappings
<1>5. CASE c.image # i
    <2> DEFINE m == {<<i, s>> : s \in MappedBefore(i)}
               j == IF MappedBefore(i) = Sections THEN i ELSE NULL
               d == MapSections(c, i)
    <2>1. m \in SUBSET (Images \X Sections) /\ j \in Images \cup {NULL}
        BY <1>1
    <2>2. MappedBefore(i) = Sections => m = {i} \X Sections
        OBVIOUS
    <2>3. d = [c EXCEPT !.mapped = m, !.image = j]
        BY <1>5 DEF MapSections
    <2>4. j = i <=> Complete(legacy, i)
        BY <1>2, <1>3
    <2>5. j # NULL => j = i /\ m = {i} \X Sections /\ Complete(legacy, i)
        BY <1>2, <2>2
    <2> HIDE DEF m, j, d
    <2>6. /\ d \in CacheType /\ d.mapped = m /\ d.image = j /\ d.objc2 = c.objc2
          /\ d.keys = c.keys /\ d.values = c.values
        BY <2>1, <2>3 DEF Good, CacheType
    <2>7. Good(legacy, R, d) /\ (d.image = i <=> Complete(legacy, i))
        BY <2>4, <2>5, <2>6 DEF Good, GoodMappings, GoodEntries
    <2> QED
        BY <2>7 DEF d
<1> QED
    BY <1>4, <1>5

----------------------------------------------------------------------------
(* Parsing.  What a parse finds, and its error, as a function of the image *)
(* and of what is realized: neither the cache nor the memory decides.      *)

EntryError(R, e) == IF e.class \in R THEN "ok" ELSE "notfound"
EntryFound(R, e) ==
    IF e.class \notin R THEN {}
    ELSE IF e \in ClassRefs THEN Methods[RoOf[e.class]] \cup Methods[RoOf[e.meta]] ELSE e.methods

ParsedError(L, R, i) ==
    CASE L -> "ok"
      [] ~L /\ ~Complete(L, i) -> "notfound"
      [] OTHER -> IF Entries(i) = <<>> THEN "ok" ELSE EntryError(R, Entries(i)[Len(Entries(i))])

ParsedMethods(L, R, i) ==
    CASE L -> MethodsOf(i, Classes)
      [] ~L /\ ~Complete(L, i) -> {}
      [] OTHER -> {m \in Nat \ {0} : \E n \in 1 .. Len(Entries(i)) : m \in EntryFound(R, Entries(i)[n])}

\* The results of a parse of an image that is mapped.
Errors == {"ok", "notfound"}
Results(L, R, i) ==
    {r \in [err : Errors, found : SUBSET (Nat \ {0}), cache : CacheType] :
        Good(L, R, r.cache) /\ r.cache.image = i}

LEMMA ParseClassFact ==
    ASSUME NEW L, NEW c, Good(L, realized, c), NEW class \in Classes, NEW memory
    PROVE  LET p == ParseClass(c, class, memory)
           IN  /\ Good(L, realized, p.cache) /\ p.cache.image = c.image
               /\ p.err = IF class \in realized THEN "ok" ELSE "notfound"
               /\ class \in realized => p.ro = RoOf[class]
<1>1. CASE CacheLookup(c, class) # 0
    BY <1>1, CacheLookupFact DEF ParseClass
<1>2. CASE CacheLookup(c, class) = 0 /\ class \in realized
    <2>1. ParseClass(c, class, memory) =
              [err |-> "ok", ro |-> RoOf[class], cache |-> CacheSet(c, class, RoOf[class], memory)]
        BY <1>2 DEF ParseClass
    <2> QED
        BY <1>2, <2>1, CacheSetFact
<1>3. CASE CacheLookup(c, class) = 0 /\ class \notin realized
    <2>1. ParseClass(c, class, memory) = [err |-> "notfound", ro |-> 0, cache |-> c]
        BY <1>3 DEF ParseClass
    <2> QED
        BY <1>3, <2>1
<1> QED
    BY <1>1, <1>2, <1>3

LEMMA MethodsType ==
    ASSUME NEW class \in Classes
    PROVE  Methods[RoOf[class]] \subseteq Nat \ {0}
BY LookupAssumption, RoOfType

LEMMA ClassMethodsFact ==
    ASSUME NEW L, NEW i, NEW r \in Results(L, realized, i), NEW class \in Classes, NEW memory
    PROVE  LET p == ClassMethods(r, class, memory)
           IN  /\ p \in Results(L, realized, i)
               /\ p.err = IF class \in realized THEN "ok" ELSE "notfound"
               /\ p.found = r.found \cup IF class \in realized THEN Methods[RoOf[class]] ELSE {}
<1> DEFINE p == ParseClass(r.cache, class, memory)
<1>1. Good(L, realized, r.cache) /\ r.cache.image = i /\ r.found \in SUBSET (Nat \ {0})
    BY DEF Results
<1>2. /\ Good(L, realized, p.cache) /\ p.cache.image = i
      /\ p.err = IF class \in realized THEN "ok" ELSE "notfound"
      /\ class \in realized => p.ro = RoOf[class]
    BY <1>1, ParseClassFact
<1>3. ClassMethods(r, class, memory) =
          [err |-> p.err, cache |-> p.cache,
           found |-> r.found \cup IF p.err = "ok" THEN Methods[p.ro] ELSE {}]
    BY DEF ClassMethods
<1> HIDE DEF p
<1> QED
    BY <1>1, <1>2, <1>3, MethodsType DEF Results, Errors, Good

\* The class list and the category list are of different entries.
LEMMA EntriesType ==
    ASSUME NEW i \in Images
    PROVE  /\ Entries(i) \in Seq(ClassRefs \cup Categories)
           /\ ClassRefs \cap Categories = {}
           /\ \A x : (\E n \in 1 .. Len(Entries(i)) : x = Entries(i)[n])
                        <=> x \in Range(Image[i].classes) \cup Range(Image[i].categories)
           /\ Range(Image[i].classes) \subseteq ClassRefs
           /\ Range(Image[i].categories) \subseteq Categories
<1> DEFINE s == Image[i].classes
           t == Image[i].categories
<1>1. s \in Seq(ClassRefs) /\ t \in Seq(Categories)
    BY ImageAssumption
<1>2. s \in Seq(ClassRefs \cup Categories) /\ t \in Seq(ClassRefs \cup Categories)
    BY <1>1
<1>3. ClassRefs \cap Categories = {}
    <2> SUFFICES ASSUME NEW e \in ClassRefs, e \in Categories PROVE FALSE
        OBVIOUS
    <2>1. "meta" \in DOMAIN e
        BY DEF ClassRefs
    <2>2. "meta" \notin DOMAIN e
        BY DEF Categories
    <2> QED
        BY <2>1, <2>2
<1>4. Range(s) \subseteq ClassRefs /\ Range(t) \subseteq Categories
    BY <1>1 DEF Range
<1>5. \A x : x \in Range(s) <=> \E n \in 1 .. Len(s) : x = s[n]
    BY <1>1 DEF Range
<1>6. \A x : x \in Range(t) <=> \E n \in 1 .. Len(t) : x = t[n]
    BY <1>1 DEF Range
<1> HIDE DEF s, t
<1>7. s \o t \in Seq(ClassRefs \cup Categories) /\ Len(s \o t) = Len(s) + Len(t)
    BY <1>2
<1>8. \A n \in 1 .. Len(s \o t) : (s \o t)[n] = IF n <= Len(s) THEN s[n] ELSE t[n - Len(s)]
    BY <1>2
<1>9. ASSUME NEW x
      PROVE  (\E n \in 1 .. Len(s \o t) : x = (s \o t)[n]) <=> x \in Range(s) \cup Range(t)
    <2>0. Len(s) \in Nat /\ Len(t) \in Nat
        BY <1>1
    <2>1. ASSUME NEW n \in 1 .. Len(s \o t), x = (s \o t)[n]
          PROVE  x \in Range(s) \cup Range(t)
        <3>1. CASE n <= Len(s)
            <4>1. n \in 1 .. Len(s) /\ x = s[n]
                BY <1>7, <1>8, <2>0, <2>1, <3>1
            <4> QED
                BY <1>5, <4>1
        <3>2. CASE ~(n <= Len(s))
            <4>1. n - Len(s) \in 1 .. Len(t) /\ x = t[n - Len(s)]
                BY <1>7, <1>8, <2>0, <2>1, <3>2
            <4> QED
                BY <1>6, <4>1
        <3> QED
            BY <3>1, <3>2
    <2>2. ASSUME x \in Range(s)
          PROVE  \E n \in 1 .. Len(s \o t) : x = (s \o t)[n]
        <3>1. PICK n \in 1 .. Len(s) : x = s[n]
            BY <1>5, <2>2
        <3>2. n \in 1 .. Len(s \o t) /\ x = (s \o t)[n]
            BY <1>7, <1>8, <2>0, <3>1
        <3> QED
            BY <3>2
    <2>3. ASSUME x \in Range(t)
          PROVE  \E n \in 1 .. Len(s \o t) : x = (s \o t)[n]
        <3>1. PICK n \in 1 .. Len(t) : x = t[n]
            BY <1>6, <2>3
        <3>2. n + Len(s) \in 1 .. Len(s \o t) /\ ~(n + Len(s) <= Len(s)) /\ n + Len(s) - Len(s) = n
            BY <1>7, <2>0
        <3>3. x = (s \o t)[n + Len(s)]
            BY <1>8, <3>1, <3>2
        <3> QED
            BY <3>2, <3>3
    <2> QED
        BY <2>1, <2>2, <2>3
<1>10. Entries(i) = s \o t
    BY DEF Entries, s, t
<1> QED
    BY <1>3, <1>4, <1>7, <1>9, <1>10 DEF s, t

LEMMA ParseEntryFact ==
    ASSUME Closed(realized), NEW L, NEW i \in Images, NEW r \in Results(L, realized, i),
           NEW n \in 1 .. Len(Entries(i)), NEW memory
    PROVE  LET p == ParseEntry(r, Entries(i)[n], memory)
           IN  /\ p \in Results(L, realized, i)
               /\ p.err = EntryError(realized, Entries(i)[n])
               /\ p.found = r.found \cup EntryFound(realized, Entries(i)[n])
<1> DEFINE e == Entries(i)[n]
<1>1. e \in Range(Image[i].classes) \cup Range(Image[i].categories)
    BY EntriesType
<1>2. CASE e \in ClassRefs
    <2>1. e \in Range(Image[i].classes) /\ e.class \in Classes /\ e.meta \in Classes
        BY <1>1, <1>2, EntriesType DEF ClassRefs
    <2> HIDE DEF e
    <2> DEFINE p == ClassMethods(r, e.class, memory)
               q == ClassMethods(p, e.meta, memory)
    <2>2. ParseEntry(r, e, memory) = IF p.err = "ok" THEN q ELSE p
        BY <1>2 DEF ParseEntry, ClassEntry
    <2>3. /\ p \in Results(L, realized, i)
          /\ p.err = IF e.class \in realized THEN "ok" ELSE "notfound"
          /\ p.found = r.found \cup IF e.class \in realized THEN Methods[RoOf[e.class]] ELSE {}
        BY <2>1, ClassMethodsFact
    <2> HIDE DEF p
    <2>4. /\ q \in Results(L, realized, i)
          /\ q.err = IF e.meta \in realized THEN "ok" ELSE "notfound"
          /\ q.found = p.found \cup IF e.meta \in realized THEN Methods[RoOf[e.meta]] ELSE {}
        BY <2>1, <2>3, ClassMethodsFact
    <2> HIDE DEF q
    <2>5. e.class \in realized => e.meta \in realized
        BY <2>1 DEF Closed
    <2>6. CASE e.class \in realized
        BY <1>2, <2>2, <2>3, <2>4, <2>5, <2>6 DEF EntryError, EntryFound, e
    <2>7. CASE e.class \notin realized
        BY <1>2, <2>2, <2>3, <2>7 DEF EntryError, EntryFound, e
    <2> QED
        BY <2>6, <2>7
<1>3. CASE e \notin ClassRefs
    <2>1. e \in Categories
        BY <1>1, <1>3, EntriesType
    <2>2. e.class \in Classes /\ e.methods \subseteq Nat \ {0}
        BY <2>1 DEF Categories
    <2> HIDE DEF e
    <2> DEFINE p == ParseClass(r.cache, e.class, memory)
    <2>3. ParseEntry(r, e, memory) =
              [err |-> p.err, cache |-> p.cache,
               found |-> r.found \cup IF p.err = "ok" THEN e.methods ELSE {}]
        BY <1>3 DEF ParseEntry, CategoryEntry
    <2>4. Good(L, realized, r.cache) /\ r.cache.image = i /\ r.found \in SUBSET (Nat \ {0})
        BY DEF Results
    <2>5. /\ Good(L, realized, p.cache) /\ p.cache.image = i
          /\ p.err = IF e.class \in realized THEN "ok" ELSE "notfound"
        BY <2>2, <2>4, ParseClassFact
    <2> HIDE DEF p
    <2>6. ParseEntry(r, e, memory) \in Results(L, realized, i)
        BY <2>2, <2>3, <2>4, <2>5 DEF Results, Errors, Good
    <2>7. /\ ParseEntry(r, e, memory).err = EntryError(realized, e)
          /\ ParseEntry(r, e, memory).found = r.found \cup EntryFound(realized, e)
        BY <1>3, <2>3, <2>5 DEF EntryError, EntryFound
    <2> QED
        BY <2>6, <2>7 DEF e
<1> QED
    BY <1>2, <1>3

\* The loop over the entries has a result after each of them.
LEMMA ParseEntriesResults ==
    ASSUME Closed(realized), NEW L, NEW i \in Images, NEW start \in Results(L, realized, i),
           NEW memory
    PROVE  LET N == Len(Entries(i))
               upTo == ParseEntries(start, i, memory)
           IN  /\ upTo \in [0 .. N -> Results(L, realized, i)]
               /\ upTo[0] = start
               /\ \A n \in 1 .. N : upTo[n] = ParseEntry(upTo[n - 1], Entries(i)[n], memory)
<1> DEFINE N == Len(Entries(i))
           S == Results(L, realized, i)
           P(f) == f = [n \in 0 .. N |->
                          IF n = 0 THEN start ELSE ParseEntry(f[n - 1], Entries(i)[n], memory)]
           g == [n \in 1 .. N |-> [r \in S |-> ParseEntry(r, Entries(i)[n], memory)]]
<1>1. ParseEntries(start, i, memory) = CHOOSE f : P(f)
    BY DEF ParseEntries
<1>2. N \in Nat
    BY EntriesType
<1>3. g \in Rounds(N, S)
    <2>1. \A n \in 1 .. N, r \in S : ParseEntry(r, Entries(i)[n], memory) \in S
        BY ParseEntryFact
    <2> HIDE DEF N, S
    <2> QED
        BY <2>1 DEF Rounds
<1>4. \A n \in 1 .. N, r \in S : g[n][r] = ParseEntry(r, Entries(i)[n], memory)
    <2> HIDE DEF N, S
    <2> QED
        OBVIOUS
<1> HIDE DEF N, S, g
<1>5. PICK f \in [0 .. N -> S] : f[0] = start /\ \A n \in 1 .. N : f[n] = g[n][f[n - 1]]
    <2>1. start \in S
        BY DEF S
    <2>2. \E f : IsLoop(f, N, S, start, g)
        BY <1>2, <1>3, <2>1, LoopHasResults
    <2> QED
        BY <2>2 DEF IsLoop
<1>6. P(f)
    <2>1. ASSUME NEW n \in 0 .. N, n # 0
          PROVE  f[n] = ParseEntry(f[n - 1], Entries(i)[n], memory)
        <3>1. n \in 1 .. N /\ n - 1 \in 0 .. N
            BY <1>2, <2>1
        <3>2. f[n - 1] \in S
            BY <3>1
        <3> QED
            BY <1>4, <1>5, <3>1, <3>2
    <2> QED
        BY <1>5, <2>1
<1>7. ASSUME NEW h, P(h)
      PROVE  h = f
    <2>1. DOMAIN h = 0 .. N /\ h[0] = start
        BY <1>2, <1>7
    <2> DEFINE Same == {n \in 0 .. N : h[n] = f[n]}
    <2>2. 0 \in Same
        BY <1>2, <1>5, <2>1
    <2>3. ASSUME NEW n \in 1 .. N, n - 1 \in Same
          PROVE  n \in Same
        <3>1. n \in 0 .. N /\ n # 0
            BY <1>2
        <3> QED
            BY <1>6, <1>7, <2>3, <3>1
    <2>4. 0 .. N \subseteq Same
        <3> HIDE DEF Same
        <3> QED
            BY <1>2, <2>2, <2>3, SetInduction
    <2>5. h = [n \in 0 .. N |-> h[n]]
        BY <1>7
    <2>6. f = [n \in 0 .. N |-> f[n]]
        OBVIOUS
    <2> QED
        BY <2>4, <2>5, <2>6
<1> HIDE DEF P
<1>8. (CHOOSE h : P(h)) = f
    BY <1>6, <1>7
<1>9. \A n \in 1 .. N : f[n] = ParseEntry(f[n - 1], Entries(i)[n], memory)
    <2> TAKE n \in 1 .. N
    <2>1. n - 1 \in 0 .. N
        BY <1>2
    <2> QED
        BY <1>4, <1>5, <2>1
<1> QED
    BY <1>1, <1>5, <1>8, <1>9 DEF N, S

LEMMA ParseEntriesFact ==
    ASSUME Closed(realized), NEW L, NEW i \in Images, NEW start \in Results(L, realized, i),
           NEW memory, start.err = "ok", start.found = {}
    PROVE  LET N == Len(Entries(i))
               r == ParseEntries(start, i, memory)[N]
           IN  /\ r \in Results(L, realized, i)
               /\ r.err = IF Entries(i) = <<>> THEN "ok" ELSE EntryError(realized, Entries(i)[N])
               /\ r.found = {m \in Nat \ {0} : \E n \in 1 .. N : m \in EntryFound(realized, Entries(i)[n])}
<1> DEFINE N == Len(Entries(i))
           u == ParseEntries(start, i, memory)
           S == Results(L, realized, i)
           F(n) == EntryFound(realized, Entries(i)[n])
           Right == {n \in 0 .. N : \A x : x \in u[n].found <=> \E m \in 1 .. n : x \in F(m)}
<1>1. N \in Nat
    BY EntriesType
<1>2. /\ u \in [0 .. N -> S] /\ u[0] = start
      /\ \A n \in 1 .. N : u[n] = ParseEntry(u[n - 1], Entries(i)[n], memory)
    BY ParseEntriesResults
<1>3. ASSUME NEW n \in 1 .. N
      PROVE  u[n].found = u[n - 1].found \cup F(n) /\ u[n].err = EntryError(realized, Entries(i)[n])
    <2>1. u[n - 1] \in S
        <3>1. n - 1 \in 0 .. N
            BY <1>1
        <3> HIDE DEF u, S, N
        <3> QED
            BY <1>2, <3>1
    <2>2. u[n] = ParseEntry(u[n - 1], Entries(i)[n], memory)
        BY <1>2
    <2> DEFINE r == u[n - 1]
    <2>3. r \in Results(L, realized, i)
        BY <2>1
    <2> HIDE DEF r
    <2>0. \A q \in Results(L, realized, i), m \in 1 .. N :
             LET p == ParseEntry(q, Entries(i)[m], memory)
             IN  /\ p.err = EntryError(realized, Entries(i)[m])
                 /\ p.found = q.found \cup EntryFound(realized, Entries(i)[m])
        BY ParseEntryFact
    <2>4. LET p == ParseEntry(r, Entries(i)[n], memory)
          IN  /\ p.err = EntryError(realized, Entries(i)[n])
              /\ p.found = r.found \cup EntryFound(realized, Entries(i)[n])
        BY <2>3, <2>0
    <2>5. u[n] = ParseEntry(r, Entries(i)[n], memory)
        BY <2>2 DEF r
    <2> HIDE DEF u
    <2>6. u[n].found = r.found \cup F(n) /\ u[n].err = EntryError(realized, Entries(i)[n])
        BY <2>4, <2>5
    <2> QED
        BY <2>6 DEF r
<1> HIDE DEF u, F, N, S
<1>4. 0 \in Right
    BY <1>1, <1>2
<1>5. ASSUME NEW n \in 1 .. N, n - 1 \in Right
      PROVE  n \in Right
    <2>1. 1 .. n = (1 .. n - 1) \cup {n} /\ n \in 0 .. N
        BY <1>1
    <2>2. \A x : x \in u[n - 1].found <=> \E m \in 1 .. n - 1 : x \in F(m)
        BY <1>5
    <2>3. \A x : x \in u[n].found <=> \E m \in 1 .. n : x \in F(m)
        BY <1>3, <2>1, <2>2
    <2> QED
        BY <2>1, <2>3
<1>6. N \in Right
    <2>1. 0 .. N \subseteq Right
        <3> HIDE DEF Right
        <3> QED
            BY <1>1, <1>4, <1>5, SetInduction
    <2> QED
        BY <1>1, <2>1
<1>7. u[N] \in S
    <2>1. N \in 0 .. N
        BY <1>1
    <2> QED
        BY <1>2, <2>1
<1>8. u[N].err = IF Entries(i) = <<>> THEN "ok" ELSE EntryError(realized, Entries(i)[N])
    <2>1. Entries(i) = <<>> <=> N = 0
        BY EntriesType DEF N
    <2>2. CASE N = 0
        BY <1>2, <2>1, <2>2
    <2>3. CASE N # 0
        <3>1. N \in 1 .. N
            BY <1>1, <2>3
        <3> QED
            BY <1>3, <2>1, <2>3, <3>1
    <2> QED
        BY <2>2, <2>3
<1>9. u[N].found = {m \in Nat \ {0} : \E n \in 1 .. N : m \in F(n)}
    <2>1. u[N].found \subseteq Nat \ {0}
        BY <1>7 DEF S, Results
    <2>2. \A x : x \in u[N].found <=> \E m \in 1 .. N : x \in F(m)
        BY <1>6
    <2> QED
        BY <2>1, <2>2
<1> QED
    BY <1>7, <1>8, <1>9 DEF u, N, F, S

LEMMA ParseDataSectionFact ==
    ASSUME Closed(realized), legacy \in BOOLEAN, NEW c, Good(legacy, realized, c), NEW i \in Images,
           NEW memory, ~legacy
    PROVE  LET r == ParseDataSection(c, i, memory)
           IN  /\ r \in [err : Errors, found : SUBSET (Nat \ {0}), cache : CacheType]
               /\ Good(legacy, realized, r.cache)
               /\ r.err = ParsedError(legacy, realized, i)
               /\ r.found = ParsedMethods(legacy, realized, i)
<1> DEFINE mapped == MapSections(c, i)
           start == [err |-> "ok", found |-> {}, cache |-> mapped]
<1>1. Good(legacy, realized, mapped) /\ (mapped.image = i <=> Complete(legacy, i))
    BY MapSectionsFact
<1> HIDE DEF mapped
<1>2. CASE mapped.image # i
    <2>1. ParseDataSection(c, i, memory) = [err |-> "notfound", found |-> {}, cache |-> mapped]
        BY <1>2 DEF ParseDataSection, mapped
    <2>2. ParsedError(legacy, realized, i) = "notfound" /\ ParsedMethods(legacy, realized, i) = {}
        BY <1>1, <1>2 DEF ParsedError, ParsedMethods
    <2> QED
        BY <1>1, <2>1, <2>2 DEF Errors, Good
<1>3. CASE mapped.image = i
    <2>1. start \in Results(legacy, realized, i)
        BY <1>1, <1>3 DEF Results, Errors, Good
    <2>2. ParseDataSection(c, i, memory) = ParseEntries(start, i, memory)[Len(Entries(i))]
        BY <1>3 DEF ParseDataSection, mapped
    <2>3. start.err = "ok" /\ start.found = {}
        OBVIOUS
    <2> HIDE DEF start
    <2> DEFINE r == ParseEntries(start, i, memory)[Len(Entries(i))]
    <2>4. /\ r \in Results(legacy, realized, i)
          /\ r.err = IF Entries(i) = <<>> THEN "ok"
                     ELSE EntryError(realized, Entries(i)[Len(Entries(i))])
          /\ r.found = {m \in Nat \ {0} : \E n \in 1 .. Len(Entries(i)) :
                           m \in EntryFound(realized, Entries(i)[n])}
        BY <2>1, <2>3, ParseEntriesFact
    <2> HIDE DEF r
    <2>5. /\ ParsedError(legacy, realized, i) = r.err
          /\ ParsedMethods(legacy, realized, i) = r.found
        BY <1>1, <1>3, <2>4 DEF ParsedError, ParsedMethods
    <2> QED
        BY <2>2, <2>4, <2>5 DEF Results, r
<1> QED
    BY <1>2, <1>3

LEMMA MethodsOfType ==
    ASSUME NEW i \in Images, NEW S
    PROVE  MethodsOf(i, S) \subseteq Nat \ {0}
<1>1. \A e \in Range(Image[i].classes) : e.class \in Classes /\ e.meta \in Classes
    BY EntriesType DEF ClassRefs
<1> QED
    BY <1>1, MethodsType DEF MethodsOf

LEMMA ParseFact ==
    ASSUME Closed(realized), legacy \in BOOLEAN, NEW c, Good(legacy, realized, c), NEW i \in Images,
           NEW memory
    PROVE  LET r == Parse(c, i, memory)
           IN  /\ r \in [err : Errors, found : SUBSET (Nat \ {0}), cache : CacheType]
               /\ Good(legacy, realized, r.cache)
               /\ r.err = ParsedError(legacy, realized, i)
               /\ r.found = ParsedMethods(legacy, realized, i)
<1>1. CASE legacy
    <2>1. ~c.objc2
        BY <1>1 DEF Good
    <2>2. Parse(c, i, memory) = [err |-> "ok", found |-> MethodsOf(i, Classes), cache |-> c]
        BY <1>1, <2>1 DEF Parse
    <2>3. ParsedError(legacy, realized, i) = "ok"
        BY <1>1 DEF ParsedError
    <2>4. ParsedMethods(legacy, realized, i) = MethodsOf(i, Classes)
        BY <1>1 DEF ParsedMethods
    <2> QED
        BY <2>2, <2>3, <2>4, MethodsOfType DEF Errors, Good
<1>2. CASE ~legacy
    <2> DEFINE r == ParseDataSection(c, i, memory)
               d == [r.cache EXCEPT !.objc2 = r.cache.objc2 \/ r.err = "ok"]
    <2>1. /\ r \in [err : Errors, found : SUBSET (Nat \ {0}), cache : CacheType]
          /\ Good(legacy, realized, r.cache)
          /\ r.err = ParsedError(legacy, realized, i)
          /\ r.found = ParsedMethods(legacy, realized, i)
        BY <1>2, ParseDataSectionFact
    <2>2. Parse(c, i, memory) = [r EXCEPT !.cache.objc2 = r.cache.objc2 \/ r.err = "ok"]
        BY <1>2 DEF Parse
    <2> HIDE DEF r
    <2>3. /\ d \in CacheType /\ d.image = r.cache.image /\ d.mapped = r.cache.mapped
          /\ d.keys = r.cache.keys /\ d.values = r.cache.values
        BY <2>1 DEF CacheType
    <2>4. Good(legacy, realized, d)
        <3> HIDE DEF d
        <3> QED
            BY <1>2, <2>1, <2>3 DEF Good, GoodMappings, GoodEntries
    <2>5. Parse(c, i, memory) = [r EXCEPT !.cache = d]
        BY <2>1, <2>2
    <2> HIDE DEF d
    <2> QED
        BY <2>1, <2>3, <2>4, <2>5
<1> QED
    BY <1>1, <1>2

----------------------------------------------------------------------------
(* The method and the symbol before a pc.                                  *)

LEMMA BestMethodFact ==
    ASSUME NEW found \in SUBSET (Nat \ {0}), NEW pc \in Nat
    PROVE  LET b == BestMethod(found, pc)
           IN  \/ b = 0 /\ \A m \in found : ~(m <= pc)
               \/ b \in found /\ b # 0 /\ b <= pc /\ \A m \in found : m <= pc => m <= b
<1> DEFINE before == {m \in found : m <= pc}
<1>1. CASE before = {}
    BY <1>1 DEF BestMethod
<1>2. CASE before # {}
    <2>1. before \in SUBSET (0 .. pc)
        <3>1. \A m \in before : m \in 0 .. pc
            OBVIOUS
        <3> QED
            BY <3>1
    <2>2. BestMethod(found, pc) = Max(before)
        BY <1>2 DEF BestMethod
    <2>3. Max(before) \in before /\ \A m \in before : m <= Max(before)
        <3> HIDE DEF before
        <3> QED
            BY <1>2, <2>1, MaxFact
    <2> QED
        BY <2>2, <2>3
<1> QED
    BY <1>1, <1>2

MethodError(L, R, i, pc) ==
    IF ParsedError(L, R, i) = "ok" /\ BestMethod(ParsedMethods(L, R, i), pc) = 0
    THEN "notfound" ELSE ParsedError(L, R, i)
MethodFound(L, R, i, pc) ==
    IF ParsedError(L, R, i) = "ok" THEN BestMethod(ParsedMethods(L, R, i), pc) ELSE 0

LEMMA FindMethodFact ==
    ASSUME Closed(realized), legacy \in BOOLEAN, NEW c, Good(legacy, realized, c), NEW i \in Images,
           NEW pc \in Nat, NEW memory
    PROVE  LET p == FindMethod(c, i, pc, memory)
           IN  /\ Good(legacy, realized, p.cache)
               /\ p.err = MethodError(legacy, realized, i, pc)
               /\ p.imp = MethodFound(legacy, realized, i, pc)
<1> DEFINE p == Parse(c, i, memory)
           best == BestMethod(p.found, pc)
           q == Parse(p.cache, i, memory)
<1>1. /\ p.found \in SUBSET (Nat \ {0})
      /\ Good(legacy, realized, p.cache)
      /\ p.err = ParsedError(legacy, realized, i)
      /\ p.found = ParsedMethods(legacy, realized, i)
    BY ParseFact
<1>2. FindMethod(c, i, pc, memory) =
        CASE p.err # "ok" -> [err |-> p.err, imp |-> 0, cache |-> p.cache]
          [] p.err = "ok" /\ best = 0 -> [err |-> "notfound", imp |-> 0, cache |-> p.cache]
          [] OTHER -> CallBack(q, best)
    BY DEF FindMethod, Chosen
<1> HIDE DEF p
<1>3. /\ Good(legacy, realized, q.cache)
      /\ q.err = ParsedError(legacy, realized, i)
      /\ q.found = ParsedMethods(legacy, realized, i)
    BY <1>1, ParseFact
<1> HIDE DEF q
<1>4. best = 0 \/ best \in p.found
    BY <1>1, BestMethodFact
<1>5. best = BestMethod(ParsedMethods(legacy, realized, i), pc)
    BY <1>1
<1> HIDE DEF best
<1>6. CASE p.err # "ok"
    <2>1. FindMethod(c, i, pc, memory) = [err |-> p.err, imp |-> 0, cache |-> p.cache]
        BY <1>2, <1>6
    <2> QED
        BY <1>1, <1>6, <2>1 DEF MethodError, MethodFound
<1>7. CASE p.err = "ok" /\ best = 0
    <2>1. FindMethod(c, i, pc, memory) = [err |-> "notfound", imp |-> 0, cache |-> p.cache]
        BY <1>2, <1>7
    <2> QED
        BY <1>1, <1>5, <1>7, <2>1 DEF MethodError, MethodFound
<1>8. CASE p.err = "ok" /\ best # 0
    <2>1. FindMethod(c, i, pc, memory) = CallBack(q, best)
        BY <1>2, <1>8
    <2>2. CallBack(q, best) = [err |-> q.err, cache |-> q.cache, imp |-> best]
        BY <1>1, <1>3, <1>4, <1>8 DEF CallBack
    <2>3. /\ FindMethod(c, i, pc, memory).err = q.err
          /\ FindMethod(c, i, pc, memory).cache = q.cache
          /\ FindMethod(c, i, pc, memory).imp = best
        BY <2>1, <2>2
    <2>4. q.err = "ok" /\ ParsedError(legacy, realized, i) = "ok"
        BY <1>1, <1>3, <1>8
    <2>5. /\ MethodError(legacy, realized, i, pc) = "ok"
          /\ MethodFound(legacy, realized, i, pc) = best
        BY <1>5, <1>8, <2>4 DEF MethodError, MethodFound
    <2> QED
        BY <1>3, <2>3, <2>4, <2>5
<1> QED
    BY <1>6, <1>7, <1>8

LEMMA SymbolsType ==
    ASSUME NEW i \in Images
    PROVE  /\ Symbols(i) \in Seq(Entry)
           /\ \A x : x \in Range(Symbols(i)) <=> \E n \in 1 .. Len(Symbols(i)) : x = Symbols(i)[n]
           /\ Range(Symbols(i)) \subseteq Entry
           /\ \A e, f \in Range(Symbols(i)) : e.value = f.value => e.thumb = f.thumb
<1> DEFINE s == Image[i].global
           t == Image[i].local
<1>1. s \in Seq(Entry) /\ t \in Seq(Entry)
    BY ImageAssumption
<1>2. \A e, f \in Range(s) \cup Range(t) : e.value = f.value => e.thumb = f.thumb
    BY ImageAssumption
<1> HIDE DEF s, t
<1>3. s \o t \in Seq(Entry) /\ Len(s \o t) = Len(s) + Len(t) /\ Len(s) \in Nat /\ Len(t) \in Nat
    BY <1>1
<1>4. \A n \in 1 .. Len(s \o t) : (s \o t)[n] = IF n <= Len(s) THEN s[n] ELSE t[n - Len(s)]
    BY <1>1
<1>5. \A x : x \in Range(s \o t) <=> \E n \in 1 .. Len(s \o t) : x = (s \o t)[n]
    BY <1>3 DEF Range
<1>6. Range(s \o t) \subseteq Range(s) \cup Range(t)
    <2> SUFFICES ASSUME NEW n \in 1 .. Len(s \o t) PROVE (s \o t)[n] \in Range(s) \cup Range(t)
        BY <1>5
    <2>1. CASE n <= Len(s)
        <3>1. n \in 1 .. Len(s) /\ (s \o t)[n] = s[n]
            BY <1>3, <1>4, <2>1
        <3> QED
            BY <1>1, <3>1 DEF Range
    <2>2. CASE ~(n <= Len(s))
        <3>1. n - Len(s) \in 1 .. Len(t) /\ (s \o t)[n] = t[n - Len(s)]
            BY <1>3, <1>4, <2>2
        <3> QED
            BY <1>1, <3>1 DEF Range
    <2> QED
        BY <2>1, <2>2
<1>7. Symbols(i) = s \o t
    BY DEF Symbols, s, t
<1>8. Range(s \o t) \subseteq Entry
    BY <1>3, <1>5
<1> QED
    BY <1>2, <1>3, <1>5, <1>6, <1>7, <1>8

\* A symbol that may be the name for the pc.
Eligible(e, pc) == Defined(e) /\ e.value <= pc

\* The best of the first n symbols.
IsBest(e, i, pc, n) ==
    IF e = NULL THEN \A m \in 1 .. n : ~Eligible(Symbols(i)[m], pc)
    ELSE /\ Eligible(e, pc)
         /\ \E m \in 1 .. n : e = Symbols(i)[m]
         /\ \A m \in 1 .. n : Eligible(Symbols(i)[m], pc) => Symbols(i)[m].value <= e.value

LEMMA BestSymbolsResults ==
    ASSUME NEW i \in Images, NEW pc \in Nat
    PROVE  LET N == Len(Symbols(i))
               upTo == BestSymbols(i, pc)
           IN  /\ upTo[0] = NULL
               /\ \A n \in 1 .. N : upTo[n] = Better(upTo[n - 1], Symbols(i)[n], pc)
<1> DEFINE N == Len(Symbols(i))
           S == Entry \cup {NULL}
           P(f) == f = [n \in 0 .. N |->
                          IF n = 0 THEN NULL ELSE Better(f[n - 1], Symbols(i)[n], pc)]
           g == [n \in 1 .. N |-> [b \in S |-> Better(b, Symbols(i)[n], pc)]]
<1>1. BestSymbols(i, pc) = CHOOSE f : P(f)
    BY DEF BestSymbols
<1>2. N \in Nat /\ \A n \in 1 .. N : Symbols(i)[n] \in Entry
    BY SymbolsType
<1>3. g \in Rounds(N, S)
    <2>1. \A n \in 1 .. N, b \in S : Better(b, Symbols(i)[n], pc) \in S
        BY <1>2 DEF Better
    <2> HIDE DEF N, S
    <2> QED
        BY <2>1 DEF Rounds
<1>4. \A n \in 1 .. N, b \in S : g[n][b] = Better(b, Symbols(i)[n], pc)
    <2> HIDE DEF N, S
    <2> QED
        OBVIOUS
<1> HIDE DEF N, S, g
<1>5. PICK f : IsLoop(f, N, S, NULL, g)
    <2>1. NULL \in S
        BY DEF S
    <2> QED
        BY <1>2, <1>3, <2>1, LoopHasResults
<1>6. \A n \in 1 .. N : f[n] = Better(f[n - 1], Symbols(i)[n], pc)
    <2> TAKE n \in 1 .. N
    <2>1. n - 1 \in 0 .. N
        BY <1>2
    <2> QED
        BY <1>4, <1>5, <2>1 DEF IsLoop
<1>7. P(f)
    <2>1. ASSUME NEW n \in 0 .. N, n # 0
          PROVE  f[n] = Better(f[n - 1], Symbols(i)[n], pc)
        <3>1. n \in 1 .. N
            BY <1>2, <2>1
        <3> QED
            BY <1>6, <3>1
    <2> QED
        BY <1>5, <2>1 DEF IsLoop
<1>8. PICK h : h = BestSymbols(i, pc) /\ P(h)
    <2> HIDE DEF P
    <2> QED
        BY <1>1, <1>7
<1>9. h[0] = NULL
    BY <1>2, <1>8
<1>10. \A n \in 1 .. N : h[n] = Better(h[n - 1], Symbols(i)[n], pc)
    <2> TAKE n \in 1 .. N
    <2>1. n \in 0 .. N /\ n # 0
        BY <1>2
    <2> QED
        BY <1>8, <2>1
<1> QED
    BY <1>8, <1>9, <1>10 DEF N

LEMMA BestSymbolFact ==
    ASSUME NEW i \in Images, NEW pc \in Nat
    PROVE  IsBest(BestSymbol(i, pc), i, pc, Len(Symbols(i)))
<1> DEFINE N == Len(Symbols(i))
           u == BestSymbols(i, pc)
           Right == {n \in 0 .. N : IsBest(u[n], i, pc, n)}
<1>1. N \in Nat /\ \A n \in 1 .. N : Symbols(i)[n] \in Entry /\ Symbols(i)[n] # NULL
    BY SymbolsType, LookupAssumption
<1>2. u[0] = NULL /\ \A n \in 1 .. N : u[n] = Better(u[n - 1], Symbols(i)[n], pc)
    BY BestSymbolsResults
<1> HIDE DEF u, N
<1>3. 0 \in Right
    BY <1>1, <1>2 DEF IsBest
<1>4. ASSUME NEW n \in 1 .. N, n - 1 \in Right
      PROVE  n \in Right
    <2> DEFINE b == u[n - 1]
               e == Symbols(i)[n]
    <2>1. IsBest(b, i, pc, n - 1)
        BY <1>4
    <2>2. u[n] = Better(b, e, pc) /\ e # NULL /\ n \in 0 .. N /\ e.value \in Nat
        BY <1>1, <1>2 DEF Entry
    <2>3. \A m \in 1 .. n : m = n \/ m \in 1 .. n - 1
        BY <1>1
    <2>4. \A m \in 1 .. n - 1 : m \in 1 .. n
        BY <1>1
    <2>5. \A m \in 1 .. n : Symbols(i)[m].value \in Nat
        BY <1>1 DEF Entry
    <2>6. e = Symbols(i)[n] /\ n \in 1 .. n
        BY <1>1
    <2> HIDE DEF b, e
    <2>7. CASE b = NULL /\ ~Eligible(e, pc)
        <3>1. u[n] = NULL
            BY <2>2, <2>7 DEF Better, Eligible
        <3>2. IsBest(NULL, i, pc, n)
            BY <2>1, <2>3, <2>6, <2>7 DEF IsBest
        <3> QED
            BY <2>2, <3>1, <3>2
    <2>8. CASE Eligible(e, pc) /\ (b = NULL \/ b.value < e.value)
        <3>1. u[n] = e
            BY <2>2, <2>8 DEF Better, Eligible
        <3>2. \A m \in 1 .. n - 1 : Eligible(Symbols(i)[m], pc) => Symbols(i)[m].value <= e.value
            <4>1. CASE b = NULL
                BY <2>1, <4>1 DEF IsBest
            <4>2. CASE b # NULL
                <5>1. b.value \in Nat
                    BY <2>1, <2>4, <2>5, <4>2 DEF IsBest
                <5>2. \A m \in 1 .. n - 1 : Eligible(Symbols(i)[m], pc) => Symbols(i)[m].value <= b.value
                    BY <2>1, <4>2 DEF IsBest
                <5> QED
                    BY <2>2, <2>4, <2>5, <2>8, <4>2, <5>1, <5>2
            <4> QED
                BY <4>1, <4>2
        <3>3. IsBest(e, i, pc, n)
            BY <2>2, <2>3, <2>6, <2>8, <3>2 DEF IsBest
        <3> QED
            BY <2>2, <3>1, <3>3
    <2>9. CASE b # NULL /\ ~(Eligible(e, pc) /\ b.value < e.value)
        <3>1. u[n] = b
            BY <2>2, <2>9 DEF Better, Eligible
        <3>2. PICK l \in 1 .. n - 1 : b = Symbols(i)[l]
            BY <2>1, <2>9 DEF IsBest
        <3>3. b.value \in Nat /\ (Eligible(e, pc) => e.value <= b.value)
            BY <2>2, <2>4, <2>5, <2>9, <3>2
        <3>4. IsBest(b, i, pc, n)
            BY <2>1, <2>3, <2>4, <2>6, <2>9, <3>3 DEF IsBest
        <3> QED
            BY <2>2, <3>1, <3>4
    <2> QED
        BY <2>7, <2>8, <2>9
<1>5. N \in Right
    <2>1. 0 .. N \subseteq Right
        <3> HIDE DEF Right
        <3> QED
            BY <1>1, <1>3, <1>4, SetInduction
    <2> QED
        BY <1>1, <2>1
<1> QED
    BY <1>5 DEF BestSymbol, u, N

SymbolFound(i, pc) == IF BestSymbol(i, pc) = NULL THEN 0 ELSE Normal(BestSymbol(i, pc))

\* Only the last of the symbols before the pc has its address.
LEMMA SymbolFoundFact ==
    ASSUME NEW i \in Images, NEW pc \in Nat
    PROVE  LET Last == {e \in Range(Symbols(i)) :
                          /\ Defined(e) /\ e.value <= pc
                          /\ \A f \in Range(Symbols(i)) :
                                Defined(f) /\ f.value <= pc => f.value <= e.value}
           IN  /\ SymbolFound(i, pc) \in Nat
               /\ BestSymbol(i, pc) = NULL => Last = {} /\ SymbolFound(i, pc) = 0
               /\ BestSymbol(i, pc) # NULL =>
                    Last # {} /\ \A e \in Last : Normal(e) = SymbolFound(i, pc)
<1> DEFINE e == BestSymbol(i, pc)
           R == Range(Symbols(i))
           Last == {x \in R : Defined(x) /\ x.value <= pc
                              /\ \A f \in R : Defined(f) /\ f.value <= pc => f.value <= x.value}
<1>1. IsBest(e, i, pc, Len(Symbols(i)))
    BY BestSymbolFact
<1>2. /\ \A x : x \in R <=> \E n \in 1 .. Len(Symbols(i)) : x = Symbols(i)[n]
      /\ \A x \in R : x \in Entry /\ x.value \in Nat
      /\ \A x, y \in R : x.value = y.value => x.thumb = y.thumb
    BY SymbolsType DEF Entry
<1> HIDE DEF R, e
<1>3. \A x \in Entry : Normal(x) \in Nat
    BY DEF Normal, Entry
<1>4. CASE e = NULL
    <2>1. \A x \in R : ~(Defined(x) /\ x.value <= pc)
        BY <1>1, <1>2, <1>4 DEF IsBest, Eligible
    <2>2. Last = {} /\ SymbolFound(i, pc) = 0
        BY <1>4, <2>1 DEF SymbolFound, e
    <2> QED
        BY <1>4, <2>2 DEF e, R
<1>5. CASE e # NULL
    <2>1. e \in R /\ Defined(e) /\ e.value <= pc
        BY <1>1, <1>2, <1>5 DEF IsBest, Eligible
    <2>2. \A x \in R : Defined(x) /\ x.value <= pc => x.value <= e.value
        BY <1>1, <1>2, <1>5 DEF IsBest, Eligible
    <2>3. e \in Last
        BY <2>1, <2>2
    <2>4. ASSUME NEW x \in Last PROVE Normal(x) = Normal(e)
        <3>1. x \in R /\ x.value <= e.value /\ e.value <= x.value
            BY <2>1, <2>2
        <3>2. x.value = e.value /\ x.thumb = e.thumb
            BY <1>2, <2>1, <3>1
        <3> QED
            BY <3>2 DEF Normal
    <2>5. SymbolFound(i, pc) = Normal(e)
        BY <1>5 DEF SymbolFound, e
    <2> QED
        BY <1>2, <1>3, <1>5, <2>1, <2>3, <2>4, <2>5 DEF e, R
<1> QED
    BY <1>4, <1>5

----------------------------------------------------------------------------
(* A lookup, and the message of a frame.                                   *)

Address(L, R, i, pc) ==
    IF MethodError(L, R, i, pc) = "ok" /\ MethodFound(L, R, i, pc) # 0
       /\ MethodFound(L, R, i, pc) >= SymbolFound(i, pc)
    THEN MethodFound(L, R, i, pc) ELSE SymbolFound(i, pc)

\* The image of an address is the only one.
ImageAt(pc) == CHOOSE i \in Images : i \in Holding(pc)

FrameSize(L, R, pc) ==
    IF Holding(pc) = {} \/ Address(L, R, ImageAt(pc), pc) = 0 THEN 1
    ELSE 2 + Address(L, R, ImageAt(pc), pc)

LEMMA FindSymbolFact ==
    ASSUME Closed(realized), legacy \in BOOLEAN, NEW c, Good(legacy, realized, c), NEW i \in Images,
           NEW pc \in Nat, NEW memory
    PROVE  LET p == FindSymbol(c, i, pc, memory)
           IN  /\ Good(legacy, realized, p.cache)
               /\ p.address = Address(legacy, realized, i, pc)
<1> DEFINE m == FindMethod(c, i, pc, memory)
<1>1. /\ Good(legacy, realized, m.cache)
      /\ m.err = MethodError(legacy, realized, i, pc)
      /\ m.imp = MethodFound(legacy, realized, i, pc)
    BY FindMethodFact
<1>2. FindSymbol(c, i, pc, memory) = Later(m, SymbolFound(i, pc))
    BY DEF FindSymbol, SymbolFound
<1> HIDE DEF m
<1>3. Later(m, SymbolFound(i, pc)) =
        [cache |-> m.cache,
         address |-> IF m.err = "ok" /\ m.imp # 0 /\ m.imp >= SymbolFound(i, pc)
                     THEN m.imp ELSE SymbolFound(i, pc)]
    BY DEF Later
<1> QED
    BY <1>1, <1>2, <1>3 DEF Address

LEMMA ParsedMethodsType ==
    ASSUME NEW L, NEW R, NEW i \in Images
    PROVE  ParsedMethods(L, R, i) \in SUBSET (Nat \ {0})
<1>1. CASE L
    BY <1>1, MethodsOfType DEF ParsedMethods
<1>2. CASE ~L
    BY <1>2 DEF ParsedMethods
<1> QED
    BY <1>1, <1>2

LEMMA AddressType ==
    ASSUME NEW L, NEW R, NEW i \in Images, NEW pc \in Nat
    PROVE  Address(L, R, i, pc) \in Nat
<1>1. MethodFound(L, R, i, pc) \in Nat
    BY ParsedMethodsType, BestMethodFact DEF MethodFound
<1>2. SymbolFound(i, pc) \in Nat
    BY SymbolFoundFact
<1> QED
    BY <1>1, <1>2 DEF Address

LEMMA ImageAtFact ==
    ASSUME NEW pc \in Nat
    PROVE  /\ Holding(pc) # {} => ImageAt(pc) \in Images
           /\ \A i \in Holding(pc) : i = ImageAt(pc)
<1>1. \A i \in Holding(pc) : i \in Images
    BY DEF Holding
<1>2. ASSUME NEW i \in Holding(pc), NEW j \in Holding(pc)
      PROVE  i = j
    BY ImageAssumption DEF Holding
<1>3. Holding(pc) # {} => ImageAt(pc) \in Holding(pc)
    BY <1>1 DEF ImageAt
<1> QED
    BY <1>1, <1>2, <1>3

LEMMA FrameSizeType ==
    ASSUME NEW L, NEW R, NEW pc \in Nat
    PROVE  FrameSize(L, R, pc) \in Nat
<1>1. CASE Holding(pc) = {}
    BY <1>1 DEF FrameSize
<1>2. CASE Holding(pc) # {}
    <2>1. Address(L, R, ImageAt(pc), pc) \in Nat
        BY <1>2, ImageAtFact, AddressType
    <2> QED
        BY <2>1 DEF FrameSize
<1> QED
    BY <1>1, <1>2

\* The size of a frame's message, and what it says, are the same with every cache.
LEMMA FrameMessageFact ==
    ASSUME Closed(realized), legacy \in BOOLEAN, NEW c, Good(legacy, realized, c),
           NEW pc \in Nat, NEW memory
    PROVE  LET m == FrameMessage(c, pc, memory)
           IN  /\ Good(legacy, realized, m.cache)
               /\ m.size = FrameSize(legacy, realized, pc)
               /\ m.answer = IF Holding(pc) = {} THEN NothingAsked
                             ELSE [pc |-> pc,
                                   address |-> Address(legacy, realized, ImageAt(pc), pc)]
<1> DEFINE i == ImageAt(pc)
           first == FindSymbol(c, i, pc, memory)
           second == FindSymbol(first.cache, i, pc, memory)
           asked == [pc |-> pc, address |-> first.address]
<1>1. CASE Holding(pc) = {}
    <2>1. FrameMessage(c, pc, memory) = [size |-> 1, cache |-> c, answer |-> NothingAsked]
        BY <1>1 DEF FrameMessage
    <2> QED
        BY <1>1, <2>1 DEF FrameSize
<1>2. CASE Holding(pc) # {}
    <2>1. i \in Images
        BY <1>2, ImageAtFact
    <2>2. FrameMessage(c, pc, memory) = SymbolMessage(first, i, pc, memory)
        BY <1>2 DEF FrameMessage, ImageAt
    <2> HIDE DEF i
    <2>3. /\ Good(legacy, realized, first.cache)
          /\ first.address = Address(legacy, realized, i, pc)
        BY <2>1, FindSymbolFact
    <2> HIDE DEF first
    <2>4. /\ Good(legacy, realized, second.cache)
          /\ second.address = Address(legacy, realized, i, pc)
        BY <2>1, <2>3, FindSymbolFact
    <2>5. SymbolMessage(first, i, pc, memory) =
            IF first.address = 0 THEN [size |-> 1, cache |-> first.cache, answer |-> asked]
            ELSE [size |-> 2 + second.address, cache |-> second.cache, answer |-> asked]
        BY DEF SymbolMessage
    <2> HIDE DEF second
    <2>6. CASE first.address = 0
        <3>1. FrameMessage(c, pc, memory) = [size |-> 1, cache |-> first.cache, answer |-> asked]
            BY <2>2, <2>5, <2>6
        <3> QED
            BY <1>2, <2>3, <2>6, <3>1 DEF FrameSize, i
    <2>7. CASE first.address # 0
        <3>1. FrameMessage(c, pc, memory) =
                  [size |-> 2 + second.address, cache |-> second.cache, answer |-> asked]
            BY <2>2, <2>5, <2>7
        <3> QED
            BY <1>2, <2>3, <2>4, <2>7, <3>1 DEF FrameSize, i
    <2> QED
        BY <2>6, <2>7
<1> QED
    BY <1>1, <1>2

----------------------------------------------------------------------------
(* The inductive invariant: the cache is a good one; the last answer is    *)
(* the one that no cache can change; and each pass has added up the sizes  *)
(* of the frames that it has walked.                                       *)

Walked == IF Len(frames) <= MaxFrames THEN Len(frames) ELSE MaxFrames

\* The sizes of a stack's first frames.
Sums(T, L, R, stack) ==
    /\ T \in [0 .. Len(stack) -> Nat] /\ T[0] = 0
    /\ \A n \in 1 .. Len(stack) : T[n] = T[n - 1] + FrameSize(L, R, stack[n])

SettingIsGood == legacy \in BOOLEAN /\ Closed(realized)

WriterIsGood ==
    /\ frames \in Frames \cup {<<>>} /\ pass \in 0 .. 2 /\ k \in 1 .. Walked + 1
    /\ frame \in Nat \X Nat /\ frame[1] = frame[2]

AnswerIsRight ==
    \/ answer = NothingAsked
    \/ LET i == ImageAt(answer.pc)
       IN  /\ answer.pc \in Nat /\ Holding(answer.pc) # {}
           /\ answer.address = Address(legacy, realized, i, answer.pc)

SizesAreSums ==
    \E T : /\ Sums(T, legacy, realized, frames)
           /\ sizes = CASE pass = 1 -> <<T[k - 1], 0>>
                        [] pass = 2 -> <<T[Walked], T[k - 1]>>
                        [] OTHER -> <<T[Walked], T[Walked]>>

LookupIInv ==
    SettingIsGood /\ Good(legacy, realized, cache) /\ WriterIsGood /\ AnswerIsRight /\ SizesAreSums

LEMMA FrameSumsExist ==
    ASSUME NEW L, NEW R, NEW stack \in Seq(Nat)
    PROVE  \E T : Sums(T, L, R, stack)
<1> DEFINE N == Len(stack)
           g == [n \in 1 .. N |-> [x \in Nat |-> x + FrameSize(L, R, stack[n])]]
<1>1. N \in Nat /\ \A n \in 1 .. N : FrameSize(L, R, stack[n]) \in Nat
    BY FrameSizeType
<1>2. g \in Rounds(N, Nat)
    <2> HIDE DEF N
    <2> QED
        BY <1>1 DEF Rounds
<1>3. \A n \in 1 .. N, x \in Nat : g[n][x] = x + FrameSize(L, R, stack[n])
    <2> HIDE DEF N
    <2> QED
        OBVIOUS
<1> HIDE DEF N, g
<1>4. PICK T : IsLoop(T, N, Nat, 0, g)
    BY <1>1, <1>2, LoopHasResults
<1>5. \A n \in 1 .. N : T[n] = T[n - 1] + FrameSize(L, R, stack[n])
    <2> TAKE n \in 1 .. N
    <2>1. n - 1 \in 0 .. N
        BY <1>1
    <2> QED
        BY <1>3, <1>4, <2>1 DEF IsLoop
<1> QED
    BY <1>4, <1>5 DEF IsLoop, Sums, N

LEMMA FramesType ==
    ASSUME NEW stack \in Frames \cup {<<>>}
    PROVE  stack \in Seq(Nat)
<1>1. <<>> \in Seq(Nat)
    OBVIOUS
<1>2. Frames \subseteq Seq(Nat)
    BY LookupAssumption
<1> QED
    BY <1>1, <1>2

LEMMA LookupInitIInv == Init => LookupIInv
<1> SUFFICES ASSUME Init PROVE LookupIInv
    OBVIOUS
<1>1. SettingIsGood
    <2>1. PICK S \in SUBSET UNION {Range(Image[i].classes) : i \in Images} :
              realized = UNION {{e.class, e.meta} : e \in S}
        BY DEF Init
    <2>2. \A f \in S : \E j \in Images : f \in Range(Image[j].classes)
        BY <2>1
    <2>3. \A i \in Images : \A e \in Range(Image[i].classes) : e.class \in Classes /\ e.meta \in Classes
        BY EntriesType DEF ClassRefs
    <2>4. realized \subseteq Classes
        BY <2>1, <2>2, <2>3
    <2>5. ASSUME NEW i \in Images, NEW e \in Range(Image[i].classes), e.class \in realized
          PROVE  e.meta \in realized
        <3>1. PICK f \in S : e.class = f.class \/ e.class = f.meta
            BY <2>1, <2>5
        <3>2. PICK j \in Images : f \in Range(Image[j].classes)
            BY <2>2
        <3>3. e.class # f.meta /\ (e.class = f.class => e.meta = f.meta)
            BY <3>2, ImageAssumption
        <3>4. f.meta \in realized
            BY <2>1
        <3> QED
            BY <3>1, <3>3, <3>4
    <2> QED
        BY <2>4, <2>5 DEF Init, SettingIsGood, Closed
<1>2. Good(legacy, realized, cache)
    BY NoCacheIsGood DEF Init
<1>3. Walked = 0
    BY LookupAssumption DEF Init, Walked
<1>4. WriterIsGood
    BY <1>3 DEF Init, WriterIsGood
<1>5. AnswerIsRight
    BY DEF Init, AnswerIsRight
<1>6. SizesAreSums
    <2>1. frames \in Seq(Nat) /\ pass = 0 /\ sizes = <<0, 0>>
        BY DEF Init
    <2>2. PICK T : Sums(T, legacy, realized, frames)
        BY <2>1, FrameSumsExist
    <2>3. T[Walked] = 0
        BY <1>3, <2>2 DEF Sums
    <2> QED
        BY <2>1, <2>2, <2>3 DEF SizesAreSums
<1> QED
    BY <1>1, <1>2, <1>4, <1>5, <1>6 DEF LookupIInv

LEMMA BeginThreadIInv ==
    ASSUME LookupIInv, BeginThread
    PROVE  LookupIInv'
<1>1. /\ frames' \in Frames /\ pass' = 1 /\ k' = 1 /\ frame' = <<0, 0>> /\ sizes' = <<0, 0>>
      /\ answer' = NothingAsked /\ legacy' = legacy /\ realized' = realized /\ cache' = cache
    BY DEF BeginThread
<1>2. SettingIsGood' /\ Good(legacy, realized, cache)'
    BY <1>1 DEF LookupIInv, SettingIsGood
<1>3. frames' \in Seq(Nat) /\ Walked' \in Nat
    BY <1>1, FramesType, LookupAssumption DEF Walked
<1>4. WriterIsGood'
    <2>1. k' \in 1 .. Walked' + 1 /\ pass' \in 0 .. 2
        <3>1. \A n \in Nat : 1 \in 1 .. n + 1
            OBVIOUS
        <3>2. 1 \in 1 .. Walked' + 1
            BY <1>3, <3>1
        <3> QED
            BY <1>1, <3>2
    <2>2. frame' \in Nat \X Nat /\ frame'[1] = frame'[2]
        BY <1>1
    <2> QED
        BY <1>1, <2>1, <2>2 DEF WriterIsGood
<1>5. AnswerIsRight'
    BY <1>1 DEF AnswerIsRight
<1>6. SizesAreSums'
    <2>1. PICK T : Sums(T, legacy', realized', frames')
        BY <1>3, FrameSumsExist
    <2>2. T[k' - 1] = 0
        BY <1>1, <2>1 DEF Sums
    <2> QED
        BY <1>1, <2>1, <2>2 DEF SizesAreSums
<1> QED
    BY <1>2, <1>4, <1>5, <1>6 DEF LookupIInv

LEMMA WriteFrameIInv ==
    ASSUME LookupIInv, WriteFrame
    PROVE  LookupIInv'
<1> DEFINE Written(a, w) == /\ cache' = w.cache
                            /\ answer' = w.answer
                            /\ frame' = <<a.size, w.size>>
                            /\ sizes' = [sizes EXCEPT ![pass] = @ + w.size]
<1>0. PICK memory \in BOOLEAN :
        \E announced \in {FrameMessage(cache, frames[k], memory)} :
        \E w \in {FrameMessage(announced.cache, frames[k], memory)} : Written(announced, w)
    BY DEF WriteFrame
<1>1. PICK announced \in {FrameMessage(cache, frames[k], memory)} :
        \E w \in {FrameMessage(announced.cache, frames[k], memory)} : Written(announced, w)
    BY <1>0
<1>2. PICK w \in {FrameMessage(announced.cache, frames[k], memory)} : Written(announced, w)
    BY <1>1
<1>3. /\ pass \in {1, 2} /\ k <= Len(frames) /\ k <= MaxFrames /\ k' = k + 1
      /\ legacy' = legacy /\ realized' = realized /\ frames' = frames /\ pass' = pass
    BY DEF WriteFrame, More
<1>4. /\ frames \in Seq(Nat) /\ Len(frames) \in Nat /\ MaxFrames \in Nat
      /\ k \in 1 .. Walked + 1
    BY FramesType, LookupAssumption DEF LookupIInv, WriterIsGood
<1>5. k \in 1 .. Len(frames) /\ k <= Walked /\ Walked \in Nat /\ Walked <= Len(frames)
    BY <1>3, <1>4 DEF Walked
<1> DEFINE pc == frames[k]
<1>6. pc \in Nat
    BY <1>4, <1>5
<1>7. Closed(realized) /\ legacy \in BOOLEAN /\ Good(legacy, realized, cache)
    BY DEF LookupIInv, SettingIsGood
<1>8. /\ announced = FrameMessage(cache, pc, memory)
      /\ w = FrameMessage(announced.cache, pc, memory)
    BY <1>1, <1>2
<1> HIDE DEF pc
<1>9. Good(legacy, realized, announced.cache) /\ announced.size = FrameSize(legacy, realized, pc)
    BY <1>6, <1>7, <1>8, FrameMessageFact
<1>10. /\ Good(legacy, realized, w.cache)
       /\ w.size = FrameSize(legacy, realized, pc)
       /\ w.answer = IF Holding(pc) = {} THEN NothingAsked
                     ELSE [pc |-> pc,
                           address |-> Address(legacy, realized, ImageAt(pc), pc)]
    BY <1>6, <1>7, <1>8, <1>9, FrameMessageFact
<1>11. w.size \in Nat
    BY <1>6, <1>10, FrameSizeType
<1>12. SettingIsGood' /\ Good(legacy, realized, cache)'
    BY <1>2, <1>3, <1>10 DEF LookupIInv, SettingIsGood
<1>13. Walked' = Walked
    BY <1>3 DEF Walked
<1>14. WriterIsGood'
    <2>1. k' \in 1 .. Walked' + 1
        BY <1>3, <1>5, <1>13
    <2>2. frame' \in Nat \X Nat /\ frame'[1] = frame'[2]
        BY <1>2, <1>9, <1>10, <1>11
    <2> QED
        BY <1>3, <2>1, <2>2 DEF LookupIInv, WriterIsGood
<1>15. AnswerIsRight'
    <2>1. CASE Holding(pc) = {}
        BY <1>2, <1>10, <2>1 DEF AnswerIsRight
    <2>2. CASE Holding(pc) # {}
        <3>1. /\ answer'.pc = pc
              /\ answer'.address = Address(legacy, realized, ImageAt(pc), pc)
            BY <1>2, <1>10, <2>2
        <3> QED
            BY <1>3, <1>6, <2>2, <3>1 DEF AnswerIsRight
    <2> QED
        BY <2>1, <2>2
<1>16. SizesAreSums'
    <2>1. PICK T : /\ Sums(T, legacy, realized, frames)
                   /\ sizes = CASE pass = 1 -> <<T[k - 1], 0>>
                                [] pass = 2 -> <<T[Walked], T[k - 1]>>
                                [] OTHER -> <<T[Walked], T[Walked]>>
        BY DEF LookupIInv, SizesAreSums
    <2>2. T[k] = T[k - 1] + w.size
        BY <1>5, <1>10, <2>1 DEF Sums, pc
    <2>3. k' - 1 = k
        BY <1>3, <1>4
    <2>4. CASE pass = 1
        <3>1. sizes' = <<T[k' - 1], 0>>
            BY <1>2, <2>1, <2>2, <2>3, <2>4
        <3> QED
            BY <1>3, <2>1, <2>4, <3>1 DEF SizesAreSums
    <2>5. CASE pass = 2
        <3>1. sizes' = <<T[Walked'], T[k' - 1]>>
            BY <1>2, <1>13, <2>1, <2>2, <2>3, <2>5
        <3> QED
            BY <1>3, <2>1, <2>5, <3>1 DEF SizesAreSums
    <2> QED
        BY <1>3, <2>4, <2>5
<1> QED
    BY <1>12, <1>14, <1>15, <1>16 DEF LookupIInv

LEMMA EndPassIInv ==
    ASSUME LookupIInv, EndPass
    PROVE  LookupIInv'
<1>1. /\ pass \in {1, 2} /\ ~(k <= Len(frames) /\ k <= MaxFrames)
      /\ pass' = (pass + 1) % 3 /\ k' = 1
      /\ legacy' = legacy /\ realized' = realized /\ cache' = cache /\ frames' = frames
      /\ frame' = frame /\ sizes' = sizes /\ answer' = answer
    BY DEF EndPass, More
<1>2. /\ frames \in Seq(Nat) /\ Len(frames) \in Nat /\ MaxFrames \in Nat
      /\ k \in 1 .. Walked + 1
    BY FramesType, LookupAssumption DEF LookupIInv, WriterIsGood
<1>3. Walked \in Nat /\ k - 1 = Walked /\ Walked' = Walked
    BY <1>1, <1>2 DEF Walked
<1>4. (pass = 1 => pass' = 2) /\ (pass = 2 => pass' = 0)
    BY <1>1
<1>5. SettingIsGood' /\ Good(legacy, realized, cache)'
    BY <1>1 DEF LookupIInv, SettingIsGood
<1>6. WriterIsGood'
    BY <1>1, <1>3, <1>4 DEF LookupIInv, WriterIsGood
<1>7. AnswerIsRight'
    BY <1>1 DEF LookupIInv, AnswerIsRight
<1>8. SizesAreSums'
    <2>1. PICK T : /\ Sums(T, legacy, realized, frames)
                   /\ sizes = CASE pass = 1 -> <<T[k - 1], 0>>
                                [] pass = 2 -> <<T[Walked], T[k - 1]>>
                                [] OTHER -> <<T[Walked], T[Walked]>>
        BY DEF LookupIInv, SizesAreSums
    <2>2. T[0] = 0 /\ k' - 1 = 0
        BY <1>1, <2>1 DEF Sums
    <2>3. CASE pass = 1
        <3>1. pass' = 2 /\ sizes' = <<T[Walked'], T[k' - 1]>>
            BY <1>1, <1>3, <1>4, <2>1, <2>2, <2>3
        <3>2. sizes' = CASE pass' = 1 -> <<T[k' - 1], 0>>
                         [] pass' = 2 -> <<T[Walked'], T[k' - 1]>>
                         [] OTHER -> <<T[Walked'], T[Walked']>>
            BY <3>1
        <3>3. Sums(T, legacy', realized', frames')
            BY <1>1, <2>1
        <3> QED
            BY <3>2, <3>3 DEF SizesAreSums
    <2>4. CASE pass = 2
        <3>1. pass' = 0 /\ sizes' = <<T[Walked'], T[Walked']>>
            BY <1>1, <1>3, <1>4, <2>1, <2>4
        <3>2. sizes' = CASE pass' = 1 -> <<T[k' - 1], 0>>
                         [] pass' = 2 -> <<T[Walked'], T[k' - 1]>>
                         [] OTHER -> <<T[Walked'], T[Walked']>>
            BY <3>1
        <3>3. Sums(T, legacy', realized', frames')
            BY <1>1, <2>1
        <3> QED
            BY <3>2, <3>3 DEF SizesAreSums
    <2> QED
        BY <1>1, <2>3, <2>4
<1> QED
    BY <1>5, <1>6, <1>7, <1>8 DEF LookupIInv

LEMMA LookupNextIInv == LookupIInv /\ [Next]_vars => LookupIInv'
<1> SUFFICES ASSUME LookupIInv, [Next]_vars PROVE LookupIInv'
    OBVIOUS
<1>1. CASE BeginThread
    BY <1>1, BeginThreadIInv
<1>2. CASE WriteFrame
    BY <1>2, WriteFrameIInv
<1>3. CASE EndPass
    BY <1>3, EndPassIInv
<1>4. CASE UNCHANGED vars
    BY <1>4 DEF vars, LookupIInv, SettingIsGood, WriterIsGood, Walked, AnswerIsRight, SizesAreSums
<1> QED
    BY <1>1, <1>2, <1>3, <1>4 DEF Next

\* In every reachable state the cache is a good one, and lookups and sizes are what the
\* images alone make them.
THEOREM LookupInvariant == Spec => []LookupIInv
BY LookupInitIInv, LookupNextIInv, PTL DEF Spec

----------------------------------------------------------------------------

LEMMA LookupIInvType == LookupIInv => TypeOK
<1> SUFFICES ASSUME LookupIInv PROVE TypeOK
    OBVIOUS
<1>1. legacy \in BOOLEAN /\ realized \subseteq Classes
    BY DEF LookupIInv, SettingIsGood, Closed
<1>2. cache.image \in Images \cup {NULL} /\ cache.mapped \subseteq Images \X Sections
    BY DEF LookupIInv, Good, CacheType
<1>3. Len(cache.keys) \in {0, CacheSize} /\ Len(cache.values) = Len(cache.keys)
    <2>1. \A S : \A f \in [Slots -> S] : Len(f) = CacheSize
        BY LookupAssumption DEF Slots
    <2>2. CASE cache.keys = <<>> /\ cache.values = <<>>
        BY <2>2
    <2>3. CASE ~(cache.keys = <<>> /\ cache.values = <<>>)
        BY <2>1, <2>3 DEF LookupIInv, Good, GoodEntries
    <2> QED
        BY <2>2, <2>3
<1>4. frames \in Frames \cup {<<>>} /\ pass \in 0 .. 2 /\ k \in 1 .. MaxFrames + 1
    <2>1. MaxFrames \in Nat /\ frames \in Seq(Nat) /\ k \in 1 .. Walked + 1
        BY FramesType, LookupAssumption DEF LookupIInv, WriterIsGood
    <2>2. Walked \in Nat /\ Walked <= MaxFrames
        BY <2>1 DEF Walked
    <2> QED
        BY <2>1, <2>2 DEF LookupIInv, WriterIsGood
<1>5. answer.address \in Nat
    <2>1. CASE answer = NothingAsked
        BY <2>1 DEF NothingAsked
    <2>2. CASE answer # NothingAsked
        <3> DEFINE i == ImageAt(answer.pc)
        <3>1. /\ answer.pc \in Nat /\ Holding(answer.pc) # {}
              /\ answer.address = Address(legacy, realized, i, answer.pc)
            BY <2>2 DEF LookupIInv, AnswerIsRight
        <3>2. i \in Images
            BY <3>1, ImageAtFact
        <3> HIDE DEF i
        <3> QED
            BY <3>1, <3>2, AddressType
    <2> QED
        BY <2>1, <2>2
<1> QED
    BY <1>1, <1>2, <1>3, <1>4, <1>5 DEF TypeOK

\* What was asked, and for which image.
LEMMA AnswerFact ==
    ASSUME LookupIInv, answer.pc # 0, NEW i \in Holding(answer.pc)
    PROVE  /\ answer.pc \in Nat /\ i \in Images
           /\ answer.address = Address(legacy, realized, i, answer.pc)
<1>1. answer # NothingAsked
    BY DEF NothingAsked
<1>2. /\ answer.pc \in Nat
      /\ answer.address = Address(legacy, realized, ImageAt(answer.pc), answer.pc)
    BY <1>1 DEF LookupIInv, AnswerIsRight
<1>3. i = ImageAt(answer.pc) /\ i \in Images
    BY <1>2, ImageAtFact DEF Holding
<1> QED
    BY <1>2, <1>3

LEMMA LookupIInvTransparent == LookupIInv => CacheIsTransparent
<1> SUFFICES ASSUME LookupIInv, answer.pc # 0, NEW i \in Holding(answer.pc)
             PROVE  FindSymbol(NoCache, i, answer.pc, TRUE).address = answer.address
    BY DEF CacheIsTransparent
<1> DEFINE pc == answer.pc
<1>1. /\ pc \in Nat /\ i \in Images
      /\ answer.address = Address(legacy, realized, i, pc)
    BY AnswerFact
<1>2. Closed(realized) /\ legacy \in BOOLEAN /\ Good(legacy, realized, NoCache)
    BY NoCacheIsGood DEF LookupIInv, SettingIsGood
<1> HIDE DEF pc
<1>3. FindSymbol(NoCache, i, pc, TRUE).address = Address(legacy, realized, i, pc)
    BY <1>1, <1>2, FindSymbolFact
<1> QED
    BY <1>1, <1>3 DEF pc

\* For every cache, and every way to that cache, a lookup finds what it would find without;
\* what is mapped is mapped for the image that is noted.
THEOREM CacheSound == Spec => []CacheIsSound
<1>1. LookupIInv => CacheIsSound
    <2>1. LookupIInv => MappingsAreTheImages
        BY DEF LookupIInv, Good, GoodMappings, MappingsAreTheImages
    <2> QED
        BY <2>1, LookupIInvType, LookupIInvTransparent DEF CacheIsSound
<1> QED
    BY <1>1, LookupInvariant, PTL

\* The announced sizes are those of what is then written, for each frame and each thread,
\* whatever the memory for the cache was when.
THEOREM SizesMatch == Spec => []SizesAgree
<1>1. LookupIInv => SizesAgree
    <2> SUFFICES ASSUME LookupIInv PROVE SizesAgree
        OBVIOUS
    <2>1. frame[1] = frame[2]
        BY DEF LookupIInv, WriterIsGood
    <2>2. ASSUME pass = 0 PROVE sizes[1] = sizes[2]
        <3>1. PICK T : sizes = CASE pass = 1 -> <<T[k - 1], 0>>
                                 [] pass = 2 -> <<T[Walked], T[k - 1]>>
                                 [] OTHER -> <<T[Walked], T[Walked]>>
            BY DEF LookupIInv, SizesAreSums
        <3>2. sizes = <<T[Walked], T[Walked]>>
            BY <2>2, <3>1
        <3> QED
            BY <3>2
    <2> QED
        BY <2>1, <2>2 DEF SizesAgree
<1> QED
    BY <1>1, LookupInvariant, PTL

\* The methods that a parse has found are those of the realized classes and of their
\* categories; with Objective-C 1, of all classes.
LEMMA ParsedMethodsFact ==
    ASSUME legacy \in BOOLEAN, Closed(realized), NEW i \in Images, ParsedError(legacy, realized, i) = "ok"
    PROVE  ParsedMethods(legacy, realized, i) =
              IF legacy THEN MethodsOf(i, Classes)
              ELSE MethodsOf(i, realized) \cup
                   UNION {e.methods : e \in {e \in Range(Image[i].categories) : e.class \in realized}}
<1>1. CASE legacy
    BY <1>1 DEF ParsedMethods
<1>2. CASE ~legacy
    <2> DEFINE A == MethodsOf(i, realized)
               B == UNION {e.methods : e \in {e \in Range(Image[i].categories) : e.class \in realized}}
               P == ParsedMethods(legacy, realized, i)
    <2>0. Complete(legacy, i)
        BY <1>2 DEF ParsedError
    <2>1. P = {m \in Nat \ {0} : \E n \in 1 .. Len(Entries(i)) : m \in EntryFound(realized, Entries(i)[n])}
        BY <1>2, <2>0 DEF ParsedMethods
    <2>2. \A m : m \in A <=> \E e \in Range(Image[i].classes) :
                       e.class \in realized /\ m \in Methods[RoOf[e.class]] \cup Methods[RoOf[e.meta]]
        BY DEF MethodsOf
    <2>3. \A m : m \in B <=> \E e \in Range(Image[i].categories) : e.class \in realized /\ m \in e.methods
        OBVIOUS
    <2>4. /\ ClassRefs \cap Categories = {}
          /\ \A x : (\E n \in 1 .. Len(Entries(i)) : x = Entries(i)[n])
                        <=> x \in Range(Image[i].classes) \cup Range(Image[i].categories)
          /\ Range(Image[i].classes) \subseteq ClassRefs
          /\ Range(Image[i].categories) \subseteq Categories
        BY EntriesType
    <2>5. \A m \in P : m \in A \/ m \in B
        <3> TAKE m \in P
        <3>1. PICK n \in 1 .. Len(Entries(i)) : m \in EntryFound(realized, Entries(i)[n])
            BY <2>1
        <3> DEFINE e == Entries(i)[n]
        <3>2. e \in Range(Image[i].classes) \cup Range(Image[i].categories)
            BY <2>4
        <3>3. m \in EntryFound(realized, e)
            BY <3>1
        <3> HIDE DEF e, A, B
        <3>4. e.class \in realized
            BY <3>3 DEF EntryFound
        <3>5. CASE e \in Range(Image[i].classes)
            BY <2>2, <2>4, <3>3, <3>4, <3>5 DEF EntryFound
        <3>6. CASE e \in Range(Image[i].categories)
            BY <2>3, <2>4, <3>3, <3>4, <3>6 DEF EntryFound
        <3> QED
            BY <3>2, <3>5, <3>6
    <2>6. A \subseteq Nat \ {0} /\ B \subseteq Nat \ {0}
        <3>1. \A e \in Range(Image[i].categories) : e.methods \subseteq Nat \ {0}
            BY <2>4 DEF Categories
        <3>2. B \subseteq Nat \ {0}
            BY <2>3, <3>1
        <3> QED
            BY <3>2, MethodsOfType
    <2>7. ASSUME NEW m, m \in A \/ m \in B
          PROVE  m \in P
        <3>1. PICK e \in Range(Image[i].classes) \cup Range(Image[i].categories) :
                  m \in EntryFound(realized, e)
            <4> HIDE DEF A, B
            <4>1. CASE m \in A
                BY <2>2, <2>4, <4>1 DEF EntryFound
            <4>2. CASE m \in B
                BY <2>3, <2>4, <4>2 DEF EntryFound
            <4> QED
                BY <2>7, <4>1, <4>2
        <3>2. PICK n \in 1 .. Len(Entries(i)) : e = Entries(i)[n]
            BY <2>4
        <3>3. m \in Nat \ {0}
            BY <2>6, <2>7
        <3> QED
            BY <2>1, <3>1, <3>2, <3>3
    <2>8. P = A \cup B
        <3> HIDE DEF A, B, P
        <3> QED
            BY <2>5, <2>7
    <2> QED
        BY <1>2, <2>8
<1> QED
    BY <1>1, <1>2

\* What a parse leaves of the methods: all that the realized classes have, or none of
\* them if the image ends with an unrealized entry.
LEMMA KeptMethodsFact ==
    ASSUME legacy \in BOOLEAN, Closed(realized), NEW i \in Images
    PROVE  (IF ParsedError(legacy, realized, i) = "ok" THEN ParsedMethods(legacy, realized, i) ELSE {}) =
           (IF EndsUnrealized(i) THEN {} ELSE RealizedMethods(i))
<1>1. CASE ParsedError(legacy, realized, i) = "ok"
    <2>1. ~EndsUnrealized(i) /\ (legacy \/ Image[i].sections = Sections)
        BY <1>1 DEF EndsUnrealized, ParsedError, EntryError, Complete
    <2>2. ParsedMethods(legacy, realized, i) =
              IF legacy THEN MethodsOf(i, Classes)
              ELSE MethodsOf(i, realized) \cup
                   UNION {e.methods : e \in {e \in Range(Image[i].categories) : e.class \in realized}}
        BY <1>1, ParsedMethodsFact
    <2>3. RealizedMethods(i) = ParsedMethods(legacy, realized, i)
        BY <2>1, <2>2 DEF RealizedMethods
    <2> QED
        BY <1>1, <2>1, <2>3
<1>2. CASE ParsedError(legacy, realized, i) # "ok"
    <2>1. ~legacy /\ (Image[i].sections = Sections => EndsUnrealized(i))
        BY <1>2 DEF ParsedError, EntryError, Complete, EndsUnrealized
    <2>2. Image[i].sections # Sections => RealizedMethods(i) = {}
        BY <2>1 DEF RealizedMethods
    <2> QED
        BY <1>2, <2>1, <2>2
<1> QED
    BY <1>1, <1>2

\* A report names the last symbol or method before the pc, and nothing if there is none;
\* in an image that ends with an unrealized entry it names the last symbol.
THEOREM NearestName == Spec => []NameIsNearest
<1>1. LookupIInv => NameIsNearest
    <2> SUFFICES ASSUME LookupIInv, answer.pc # 0, NEW i \in Holding(answer.pc)
                 PROVE  LET methods == {m \in RealizedMethods(i) : m <= answer.pc}
                        IN  answer.address = Nearest(LastSymbols(i, answer.pc) \cup
                                                     IF EndsUnrealized(i) THEN {} ELSE methods)
        BY DEF NameIsNearest
    <2> DEFINE pc == answer.pc
               names == LastSymbols(i, pc)
               all == names \cup IF EndsUnrealized(i) THEN {} ELSE {m \in RealizedMethods(i) : m <= pc}
               P == ParsedMethods(legacy, realized, i)
               parsed == ParsedError(legacy, realized, i) = "ok"
               found == IF parsed THEN P ELSE {}
               before == {m \in found : m <= pc}
               s == SymbolFound(i, pc)
               b == BestMethod(P, pc)
    <2>1. /\ pc \in Nat /\ i \in Images
          /\ answer.address = Address(legacy, realized, i, pc)
        BY AnswerFact
    <2>2. legacy \in BOOLEAN /\ Closed(realized)
        BY DEF LookupIInv, SettingIsGood
    <2>3. MethodError(legacy, realized, i, pc) = "ok" <=> parsed /\ b # 0
        BY DEF MethodError
    <2>4. all = names \cup before
        <3>1. found = IF EndsUnrealized(i) THEN {} ELSE RealizedMethods(i)
            BY <2>1, <2>2, KeptMethodsFact
        <3> HIDE DEF found, names
        <3> QED
            BY <3>1
    <2>5. /\ s \in Nat
          /\ names = IF BestSymbol(i, pc) = NULL THEN {} ELSE {s}
          /\ BestSymbol(i, pc) = NULL => s = 0
        <3> DEFINE Last == {e \in Range(Symbols(i)) :
                              /\ Defined(e) /\ e.value <= pc
                              /\ \A f \in Range(Symbols(i)) :
                                    Defined(f) /\ f.value <= pc => f.value <= e.value}
        <3>1. names = {Normal(e) : e \in Last}
            BY Zenon DEF LastSymbols
        <3>2. /\ s \in Nat
              /\ BestSymbol(i, pc) = NULL => Last = {} /\ s = 0
              /\ BestSymbol(i, pc) # NULL => Last # {} /\ \A e \in Last : Normal(e) = s
            BY <2>1, SymbolFoundFact
        <3> HIDE DEF Last, s, names
        <3> QED
            BY <3>1, <3>2
    <2>6. P \in SUBSET (Nat \ {0})
        BY <2>1, ParsedMethodsType
    <2>7. \/ b = 0 /\ \A m \in P : ~(m <= pc)
          \/ b \in P /\ b # 0 /\ b <= pc /\ \A m \in P : m <= pc => m <= b
        BY <2>1, <2>6, BestMethodFact
    <2>8. answer.address = IF parsed /\ b # 0 /\ b >= s THEN b ELSE s
        BY <2>1, <2>3 DEF Address, MethodFound
    <2> SUFFICES answer.address = Nearest(all)
        OBVIOUS
    <2> HIDE DEF pc, all, names, P, parsed, s, b
    <2>9. before \in SUBSET Nat
        BY <2>6
    <2>10. CASE ~(parsed /\ b # 0)
        <3>1. before = {}
            BY <2>7, <2>10
        <3>2. CASE BestSymbol(i, pc) = NULL
            BY <2>4, <2>5, <2>8, <2>10, <3>1, <3>2 DEF Nearest
        <3>3. CASE BestSymbol(i, pc) # NULL
            <4>1. all = {s} /\ answer.address = s
                BY <2>4, <2>5, <2>8, <2>10, <3>1, <3>3
            <4>2. Max(all) = s
                BY <2>5, <4>1, MaxIs
            <4> QED
                BY <4>1, <4>2 DEF Nearest
        <3> QED
            BY <3>2, <3>3
    <2>11. CASE parsed /\ b # 0
        <3>1. b \in before /\ \A m \in before : m <= b
            BY <2>7, <2>11
        <3>2. b \in Nat /\ before \in SUBSET Nat
            BY <2>9, <3>1
        <3> HIDE DEF before
        <3>3. CASE b >= s
            <4>1. all \in SUBSET Nat /\ b \in all /\ \A n \in all : n <= b
                BY <2>4, <2>5, <3>1, <3>2, <3>3
            <4>2. Max(all) = b
                BY <4>1, MaxIs
            <4> QED
                BY <2>8, <2>11, <3>3, <4>1, <4>2 DEF Nearest
        <3>4. CASE ~(b >= s)
            <4>1. BestSymbol(i, pc) # NULL
                BY <2>5, <3>2, <3>4
            <4>2. all \in SUBSET Nat /\ s \in all /\ \A n \in all : n <= s
                <5>1. all = {s} \cup before /\ s \in Nat
                    BY <2>4, <2>5, <4>1
                <5>2. \A n \in before : n \in Nat /\ n <= s
                    BY <2>5, <3>1, <3>2, <3>4
                <5> QED
                    BY <5>1, <5>2
            <4>3. Max(all) = s
                BY <4>2, MaxIs
            <4> QED
                BY <2>8, <3>4, <4>2, <4>3 DEF Nearest
        <3> QED
            BY <3>3, <3>4
    <2> QED
        BY <2>10, <2>11
<1> QED
    BY <1>1, LookupInvariant, PTL
=============================================================================
