--------------------------- MODULE AsyncListProofs ---------------------------
(***************************************************************************)
(* Proofs about async_list, for any readers, writers, values and addresses *)
(* to allocate: no iteration meets freed memory, every iteration can end,  *)
(* the list stays doubly linked, and a reader misses only what is removed. *)
(*                                                                         *)
(* The first part is about chains alone: what a chain becomes when the     *)
(* _next of one node changes.  The second gives the inductive invariant,   *)
(* the third its steps.                                                    *)
(***************************************************************************)
EXTENDS AsyncList, FiniteSetTheorems, TLAPS

OrNULL == Nodes \cup {NULL}
NextMaps == [Nodes -> OrNULL]

\* The _next of every node, and the chain that starts at n under such a map.
Links == [m \in Nodes |-> node[m].next]
ClosedIn(nx, S) == \A k \in S : nx[k] \in S \cup {NULL}
From(nx, n) == {m \in Nodes : \A S \in SUBSET Nodes : n \in S \cup {NULL} /\ ClosedIn(nx, S) => m \in S}
Stops(nx, n) == n = NULL \/ \E m \in From(nx, n) : nx[m] = NULL

LEMMA ChainIsFrom ==
    ASSUME NEW n
    PROVE  Chain(n) = From(Links, n)
<1>1. ASSUME NEW S \in SUBSET Nodes
      PROVE  ClosedIn(Links, S) <=> \A k \in S : node[k].next \in S \cup {NULL}
    BY DEF ClosedIn, Links
<1> QED
    BY <1>1 DEF Chain, From

----------------------------------------------------------------------------
(* Chains.                                                                 *)

LEMMA FromNull ==
    ASSUME NEW nx
    PROVE  From(nx, NULL) = {} /\ Stops(nx, NULL)
<1>1. {} \in SUBSET Nodes /\ NULL \in {} \cup {NULL} /\ ClosedIn(nx, {})
    BY DEF ClosedIn
<1>2. From(nx, NULL) = {}
    BY <1>1 DEF From
<1> QED
    BY <1>2 DEF Stops

LEMMA FromStart ==
    ASSUME NEW nx, NEW n
    PROVE  From(nx, n) \subseteq Nodes /\ (n \in Nodes => n \in From(nx, n))
BY ListAssumption DEF From

LEMMA FromClosed ==
    ASSUME NEW nx \in NextMaps, NEW n
    PROVE  ClosedIn(nx, From(nx, n))
BY DEF From, ClosedIn, NextMaps, OrNULL

LEMMA FromLeast ==
    ASSUME NEW nx, NEW n, NEW S \in SUBSET Nodes, n \in S \cup {NULL}, ClosedIn(nx, S)
    PROVE  From(nx, n) \subseteq S
BY DEF From

LEMMA FromStep ==
    ASSUME NEW nx \in NextMaps, NEW n \in Nodes
    PROVE  From(nx, n) = {n} \cup From(nx, nx[n])
<1>1. nx[n] \in From(nx, n) \cup {NULL} /\ n \in From(nx, n)
    BY FromStart, FromClosed DEF ClosedIn
<1>2. From(nx, nx[n]) \subseteq From(nx, n)
    BY <1>1, FromStart, FromClosed, FromLeast
<1> DEFINE S == {n} \cup From(nx, nx[n])
<1>3. S \in SUBSET Nodes
    BY FromStart
<1>4. nx[n] \in OrNULL
    BY DEF NextMaps
<1>5. nx[n] \in From(nx, nx[n]) \cup {NULL}
    BY <1>4, FromStart DEF OrNULL
<1>6. ClosedIn(nx, S)
    BY <1>5, FromClosed DEF ClosedIn
<1>7. From(nx, n) \subseteq S
    <2> HIDE DEF S
    <2>1. n \in S
        BY DEF S
    <2> QED
        BY <1>3, <1>6, <2>1, FromLeast
<1> QED
    BY <1>1, <1>2, <1>7

LEMMA FromTrans ==
    ASSUME NEW nx \in NextMaps, NEW n, NEW m \in From(nx, n) \cup {NULL}
    PROVE  From(nx, m) \subseteq From(nx, n)
BY FromStart, FromClosed, FromLeast

\* What a chain does not meet does not change it.
LEMMA FromSame ==
    ASSUME NEW nx \in NextMaps, NEW ny \in NextMaps, NEW n \in OrNULL,
           \A k \in From(nx, n) : ny[k] = nx[k]
    PROVE  From(ny, n) = From(nx, n) /\ (Stops(nx, n) => Stops(ny, n))
<1>1. n \in From(nx, n) \cup {NULL} /\ n \in From(ny, n) \cup {NULL}
    BY FromStart DEF OrNULL
<1>2. ClosedIn(ny, From(nx, n))
    BY FromClosed DEF ClosedIn
<1>3. From(ny, n) \subseteq From(nx, n)
    BY <1>1, <1>2, FromStart, FromLeast
<1>4. ClosedIn(nx, From(ny, n))
    BY <1>3, FromClosed DEF ClosedIn
<1>5. From(nx, n) \subseteq From(ny, n)
    BY <1>1, <1>4, FromStart, FromLeast
<1> QED
    BY <1>3, <1>5 DEF Stops

\* Where one node's _next changes, a chain keeps to itself and that node's new one.
LEMMA FromRedirected ==
    ASSUME NEW nx \in NextMaps, NEW ny \in NextMaps, NEW n \in OrNULL, NEW b \in Nodes,
           \A k \in Nodes \ {b} : ny[k] = nx[k]
    PROVE  From(ny, n) \subseteq From(nx, n) \cup From(ny, ny[b])
<1> DEFINE S == From(nx, n) \cup From(ny, ny[b])
<1>1. S \in SUBSET Nodes
    BY FromStart
<1>2. n \in S \cup {NULL}
    BY FromStart DEF OrNULL
<1>3. ny[b] \in From(ny, ny[b]) \cup {NULL}
    BY FromStart DEF NextMaps, OrNULL
<1>4. ClosedIn(nx, From(nx, n)) /\ ClosedIn(ny, From(ny, ny[b]))
    BY FromClosed
<1>5. ClosedIn(ny, S)
    BY <1>1, <1>3, <1>4 DEF ClosedIn
<1> HIDE DEF S
<1>6. From(ny, n) \subseteq S
    BY <1>1, <1>2, <1>5, FromLeast
<1> QED
    BY <1>6 DEF S

LEMMA StopsStep ==
    ASSUME NEW nx \in NextMaps, NEW n \in Nodes
    PROVE  Stops(nx, n) <=> Stops(nx, nx[n])
<1>1. From(nx, n) = {n} \cup From(nx, nx[n])
    BY FromStep
<1>2. n # NULL
    BY ListAssumption
<1>3. nx[n] \in Nodes => nx[n] # NULL
    BY ListAssumption
<1> QED
    BY <1>1, <1>2, <1>3, FromNull DEF Stops

\* A chain that ends does so from each of its nodes, and comes by none twice.
LEMMA StopsEverywhere ==
    ASSUME NEW nx \in NextMaps, NEW n \in OrNULL, Stops(nx, n), NEW m \in From(nx, n)
    PROVE  Stops(nx, m)
<1> DEFINE S == {k \in From(nx, n) : Stops(nx, k)}
<1>1. From(nx, n) \subseteq Nodes /\ ClosedIn(nx, From(nx, n))
    BY FromStart, FromClosed
<1>2. ASSUME NEW k \in From(nx, n), Stops(nx, k)
      PROVE  nx[k] \in S \cup {NULL}
    BY <1>1, <1>2, StopsStep DEF ClosedIn
<1>3. ClosedIn(nx, S) /\ S \in SUBSET Nodes
    BY <1>1, <1>2 DEF ClosedIn
<1>4. n \in From(nx, n) \cup {NULL}
    BY FromStart DEF OrNULL
<1>5. n \in S \cup {NULL}
    BY <1>4
<1> HIDE DEF S
<1>6. m \in S
    BY <1>3, <1>5, FromLeast
<1> QED
    BY <1>6 DEF S

LEMMA NoCycle ==
    ASSUME NEW nx \in NextMaps, NEW n \in Nodes, Stops(nx, n)
    PROVE  n \notin From(nx, nx[n])
<1> SUFFICES ASSUME n \in From(nx, nx[n])
             PROVE  FALSE
    OBVIOUS
<1> DEFINE S == {k \in From(nx, n) : n \in From(nx, k)}
<1>1. From(nx, n) \subseteq Nodes /\ ClosedIn(nx, From(nx, n)) /\ n \in From(nx, n)
    BY FromStart, FromClosed
<1>2. ASSUME NEW k \in From(nx, n), n \in From(nx, k)
      PROVE  nx[k] \in S
    <2>1. n \in From(nx, nx[k])
        BY <1>1, <1>2, FromStep
    <2>2. nx[k] # NULL
        BY <2>1, FromNull
    <2> QED
        BY <1>1, <2>1, <2>2 DEF ClosedIn
<1>3. ClosedIn(nx, S) /\ S \in SUBSET Nodes /\ n \in S
    BY <1>1, <1>2 DEF ClosedIn
<1>4. From(nx, n) \subseteq S
    <2> HIDE DEF S
    <2> QED
        BY <1>3, FromLeast
<1>5. \A k \in From(nx, n) : nx[k] # NULL
    BY <1>1, <1>2, <1>4, ListAssumption
<1> QED
    BY <1>5, ListAssumption DEF Stops

\* A chain still ends if the one it is redirected to does.
LEMMA StopsRedirected ==
    ASSUME NEW nx \in NextMaps, NEW ny \in NextMaps, NEW n \in OrNULL, NEW b \in Nodes,
           \A k \in Nodes \ {b} : ny[k] = nx[k], Stops(ny, ny[b]), Stops(nx, n)
    PROVE  Stops(ny, n)
<1> SUFFICES ASSUME ~Stops(ny, n)
             PROVE  FALSE
    OBVIOUS
<1> DEFINE S == {k \in From(nx, n) : ~Stops(ny, k)}
<1>1. From(nx, n) \subseteq Nodes /\ ClosedIn(nx, From(nx, n)) /\ n \in From(nx, n) /\ n # NULL
    BY FromStart, FromClosed, FromNull DEF OrNULL
<1>2. ASSUME NEW k \in From(nx, n), ~Stops(ny, k)
      PROVE  nx[k] \in S
    <2>1. ~Stops(ny, ny[k])
        BY <1>1, <1>2, StopsStep
    <2>2. ny[k] = nx[k]
        BY <1>1, <2>1
    <2>3. nx[k] # NULL
        BY <2>1, <2>2, FromNull
    <2> QED
        BY <1>1, <2>1, <2>2, <2>3 DEF ClosedIn
<1>3. ClosedIn(nx, S) /\ S \in SUBSET Nodes /\ n \in S
    BY <1>1, <1>2 DEF ClosedIn
<1>4. From(nx, n) \subseteq S
    <2> HIDE DEF S
    <2> QED
        BY <1>3, FromLeast
<1>5. \A k \in From(nx, n) : nx[k] # NULL
    BY <1>1, <1>2, <1>4, ListAssumption
<1> QED
    BY <1>1, <1>5 DEF Stops

LEMMA Predecessor ==
    ASSUME NEW nx \in NextMaps, NEW n \in Nodes, NEW m \in From(nx, n), m # n
    PROVE  \E k \in From(nx, n) : nx[k] = m
<1> SUFFICES ASSUME \A k \in From(nx, n) : nx[k] # m
             PROVE  FALSE
    OBVIOUS
<1> DEFINE S == From(nx, n) \ {m}
<1>1. S \in SUBSET Nodes /\ n \in S /\ ClosedIn(nx, S)
    BY FromStart, FromClosed DEF ClosedIn
<1>2. From(nx, n) \subseteq S
    <2> HIDE DEF S
    <2> QED
        BY <1>1, FromLeast
<1> QED
    BY <1>2

\* Unlinking i behind its only predecessor b on the chain of h takes i, and
\* nothing else, from every chain of a node there.
LEMMA Bypass ==
    ASSUME NEW nx \in NextMaps, NEW ny \in NextMaps, NEW h \in Nodes, Stops(nx, h),
           NEW b \in From(nx, h), NEW i \in Nodes, nx[b] = i,
           \A k \in From(nx, h) : nx[k] = i => k = b,
           \A k \in Nodes : ny[k] = IF k = b THEN nx[i] ELSE nx[k],
           NEW x \in From(nx, h), x # i
    PROVE  From(ny, x) = From(nx, x) \ {i}
<1>1. /\ From(nx, h) \subseteq Nodes /\ From(nx, x) \subseteq From(nx, h) /\ x \in From(nx, x)
      /\ From(ny, x) \subseteq Nodes /\ x \in From(ny, x) /\ i \in From(nx, h)
    <2>1. From(nx, h) \subseteq Nodes /\ From(ny, x) \subseteq Nodes
        BY FromStart
    <2>2. x \in From(nx, x) /\ x \in From(ny, x)
        BY <2>1, FromStart
    <2>3. From(nx, x) \subseteq From(nx, h)
        BY FromTrans
    <2>4. i \in From(nx, h)
        BY FromClosed, ListAssumption DEF ClosedIn
    <2> QED
        BY <2>1, <2>2, <2>3, <2>4
<1>2. nx[i] # i
    <2>1. Stops(nx, i)
        BY <1>1, StopsEverywhere DEF OrNULL
    <2> QED
        BY <2>1, NoCycle, FromStart
<1>3. From(ny, x) \subseteq From(nx, x) \ {i}
    <2> DEFINE S == From(nx, x) \ {i}
    <2>1. S \in SUBSET Nodes /\ x \in S
        BY <1>1
    <2>2. ClosedIn(nx, From(nx, x))
        BY FromClosed
    <2>3. ASSUME NEW k \in S
          PROVE  ny[k] \in S \cup {NULL}
        <3>1. CASE k = b
            <4>1. i \in From(nx, x)
                BY <2>2, <3>1, ListAssumption DEF ClosedIn
            <4> QED
                BY <1>1, <1>2, <2>2, <3>1, <4>1 DEF ClosedIn
        <3>2. CASE k # b
            BY <1>1, <2>2, <3>2 DEF ClosedIn
        <3> QED
            BY <3>1, <3>2
    <2>4. ClosedIn(ny, S)
        BY <2>3 DEF ClosedIn
    <2> HIDE DEF S
    <2>5. From(ny, x) \subseteq S
        BY <2>1, <2>4, FromLeast
    <2> QED
        BY <2>5 DEF S
<1>4. From(nx, x) \subseteq From(ny, x) \cup {i}
    <2>1. ClosedIn(ny, From(ny, x))
        BY FromClosed
    <2>2. CASE b \in From(ny, x)
        <3> DEFINE S == From(ny, x) \cup {i}
        <3>1. S \in SUBSET Nodes /\ x \in S
            BY <1>1
        <3>2. nx[i] \in S \cup {NULL}
            BY <1>1, <2>1, <2>2 DEF ClosedIn
        <3>3. ClosedIn(nx, S)
            BY <1>1, <2>1, <3>2 DEF ClosedIn
        <3> HIDE DEF S
        <3>4. From(nx, x) \subseteq S
            BY <3>1, <3>3, FromLeast
        <3> QED
            BY <3>4 DEF S
    <2>3. CASE b \notin From(ny, x)
        <3>1. ClosedIn(nx, From(ny, x))
            BY <1>1, <2>1, <2>3 DEF ClosedIn
        <3> QED
            BY <1>1, <3>1, FromLeast
    <2> QED
        BY <2>2, <2>3
<1> QED
    BY <1>3, <1>4

\* A chain only grows where its last node is given a _next.
LEMMA FromGrows ==
    ASSUME NEW nx \in NextMaps, NEW ny \in NextMaps, NEW n \in OrNULL, NEW b \in Nodes, nx[b] = NULL,
           \A k \in Nodes \ {b} : ny[k] = nx[k]
    PROVE  From(nx, n) \subseteq From(ny, n)
<1>1. From(ny, n) \subseteq Nodes /\ ClosedIn(ny, From(ny, n)) /\ n \in From(ny, n) \cup {NULL}
    BY FromStart, FromClosed DEF OrNULL
<1>2. ClosedIn(nx, From(ny, n))
    BY <1>1 DEF ClosedIn
<1> QED
    BY <1>1, <1>2, FromLeast

----------------------------------------------------------------------------
(* The inductive invariant.                                                *)

Cell == [value : Values, prev : OrNULL, next : OrNULL]
Prevs == [m \in Nodes |-> node[m].prev]

L == From(Links, head)
F == From(Links, free)

LockPCs == {"prepend", "append", "publish", "unlock", "release", "recycle", "delete"}
PCs == LockPCs \cup {"idle", "next", "done", "search", "compare", "searched", "unlink"}

Types ==
    /\ allocated \subseteq Nodes /\ node \in [Nodes -> Cell]
    /\ head \in OrNULL /\ tail \in OrNULL /\ free \in OrNULL
    /\ writeLock \in Writers \cup {NULL}
    /\ cur \in [Threads -> OrNULL] /\ arg \in [Writers -> Values]
    /\ unseen \in [Readers -> SUBSET Nodes] /\ lost \subseteq Readers
    /\ pc \in [Threads -> PCs]
    /\ op \in [Writers -> {"none", "remove_first", "reset", "remove_node"}]

\* Where a thread is says whether it holds the lock, removes, and has a node.
Control ==
    /\ \A r \in Readers : pc[r] \in {"idle", "next", "done"}
    /\ \A w \in Writers :
          /\ pc[w] \notin {"next", "done"}
          /\ writeLock = w <=> pc[w] \in LockPCs
          /\ pc[w] \in {"search", "compare", "searched"} => op[w] \in {"remove_first", "reset"}
          /\ pc[w] \in {"idle", "prepend", "append", "publish", "unlock"} => op[w] = "none"
          /\ pc[w] \in {"unlink", "release", "recycle", "delete"} => op[w] # "none"
          /\ pc[w] \in {"compare", "unlink"} => cur[w] # NULL

ReadingThreads == {t \in Threads : Reading(t)}
Count == refcount = Cardinality(ReadingThreads)

\* The list and the free list are apart, end, and are allocated.
Heap ==
    /\ L \subseteq allocated /\ F \subseteq allocated
    /\ Stops(Links, head) /\ Stops(Links, free)
    /\ L \cap F = {}

\* The list is doubly linked, at every step, but for the node being published.
DoublyLinked ==
    /\ \A n \in L : Links[n] = NULL <=> n = tail
    /\ \A n \in L : Links[n] # NULL => Prevs[Links[n]] = n
    /\ head = NULL <=> tail = NULL
    /\ head # NULL /\ (\A w \in Writers : pc[w] # "publish") => Prevs[head] = NULL

\* The node that the holder of the lock puts in or takes out is on neither list.
Apart ==
    \A w \in Writers : pc[w] \in LockPCs \ {"unlock"} =>
        /\ cur[w] \in allocated /\ cur[w] \notin L /\ cur[w] \notin F
        /\ pc[w] \in {"prepend", "append"} => Links[cur[w]] = NULL
        /\ pc[w] \in {"prepend", "append", "publish"} => Prevs[cur[w]] = NULL
        /\ pc[w] = "publish" => head # NULL /\ Prevs[head] = cur[w] /\ Links[cur[w]] = head

\* A node is deleted only if no reader stands where it leads to it.
Unreached ==
    \A w \in Writers : pc[w] = "delete" => \A t \in Threads : Reading(t) => cur[w] \notin From(Links, cur[t])

\* Every iteration is on a chain of allocated nodes that ends.
Walks ==
    \A t \in Threads : Reading(t) => From(Links, cur[t]) \subseteq allocated /\ Stops(Links, cur[t])

\* What a reader has not come by yet is ahead of it.
Ahead(r) == IF cur[r] = NULL THEN head ELSE Links[cur[r]]
Views ==
    \A r \in Readers : r \notin lost =>
        /\ pc[r] = "next" => unseen[r] \subseteq From(Links, Ahead(r)) /\ cur[r] \in L \cup {NULL}
        /\ pc[r] = "done" => unseen[r] = {}

Shape == Heap /\ DoublyLinked /\ Apart
Sound == Shape /\ Unreached /\ Walks /\ Views
IInv == Types /\ Control /\ Count /\ Sound

LEMMA MapTypes ==
    ASSUME Types
    PROVE  /\ Links \in NextMaps /\ Prevs \in NextMaps
           /\ \A n \in Nodes : Links[n] = node[n].next /\ Prevs[n] = node[n].prev
BY DEF Types, Cell, Links, Prevs, NextMaps, OrNULL

LEMMA ListInit == Init => IInv
<1> SUFFICES ASSUME Init PROVE IInv
    OBVIOUS
<1> USE ListAssumption
<1>1. AnyValue \in Values
    BY DEF AnyValue
<1>2. Fresh(AnyValue) \in Cell
    BY <1>1 DEF Fresh, Cell, OrNULL
<1>3. Types
    BY <1>1, <1>2 DEF Init, Types, PCs, OrNULL, Threads
<1>4. Control
    BY DEF Init, Control, LockPCs, Threads
<1>5. ReadingThreads = {}
    BY DEF Init, ReadingThreads, Reading, ReadingPCs, Threads
<1>6. Count
    BY <1>5, FS_EmptySet DEF Init, Count
<1>7. L = {} /\ F = {} /\ Stops(Links, head) /\ Stops(Links, free)
    BY FromNull DEF Init, L, F
<1>8. Shape
    BY <1>7 DEF Init, Shape, Heap, DoublyLinked, Apart, LockPCs, Threads
<1>9. Unreached /\ Walks /\ Views
    BY <1>5 DEF Init, Unreached, Walks, Views, Threads, ReadingThreads
<1> QED
    BY <1>3, <1>4, <1>6, <1>8, <1>9 DEF IInv, Sound

----------------------------------------------------------------------------
(* Types, and where the threads are.                                       *)

LEMMA SameList ==
    ASSUME UNCHANGED list
    PROVE  UNCHANGED <<allocated, node, head, tail, free, Links, Prevs, L, F>>
BY DEF list, Links, Prevs, L, F

LEMMA FollowingIsAhead ==
    ASSUME Types, NEW t \in Threads
    PROVE  /\ Following(t) = IF cur[t] = NULL THEN head ELSE Links[cur[t]]
           /\ Following(t) \in OrNULL
BY MapTypes DEF Types, Following, NextMaps, OrNULL

\* The types of what every step but the heap's changes.
LEMMA ReaderTypes ==
    ASSUME Types, Control, NEW r \in Readers, ReaderStarts(r) \/ ReaderStep(r)
    PROVE  Types' /\ Control'
<1> USE ListAssumption
<1>1. r \in Threads /\ r \notin Writers
    BY DEF Threads
<1>2. Following(r) \in OrNULL
    BY <1>1, FollowingIsAhead
<1>3. Chain(head) \subseteq Nodes
    BY DEF Chain
<1>4. /\ UNCHANGED <<allocated, node, head, tail, free, writeLock, op, arg>>
      /\ \E to \in {"idle", "next", "done"} : pc' = [pc EXCEPT ![r] = to]
      /\ \E n \in OrNULL : cur' = [cur EXCEPT ![r] = n]
      /\ \E S \in SUBSET Nodes : unseen' = [unseen EXCEPT ![r] = S]
      /\ lost' \subseteq lost
    <2>1. CASE ReaderStarts(r)
        BY <1>3, <2>1 DEF ReaderStarts, StartReading, Goto, list, OrNULL
    <2>2. CASE ReaderNext(r)
        BY <1>2, <2>2 DEF ReaderNext, Goto, list, Types
    <2>3. CASE ReaderStops(r)
        BY <2>3 DEF ReaderStops, StopReading, Goto, list, OrNULL
    <2> QED
        BY <2>1, <2>2, <2>3 DEF ReaderStep
<1>5. Types'
    BY <1>1, <1>4 DEF Types, PCs
<1>6. Control'
    BY <1>1, <1>4 DEF Types, Control, Threads
<1> QED
    BY <1>5, <1>6

\* The steps of a writer as the control invariant sees them: the place it goes
\* to, the node and the removal it has there, and the lock.
Turns(w, to, n, o, lock) ==
    /\ pc' = [pc EXCEPT ![w] = to] /\ cur' = [cur EXCEPT ![w] = n] /\ op' = [op EXCEPT ![w] = o]
    /\ writeLock' = lock

\* A turn that control allows.
MayTurn(w, to, n, o, lock) ==
    /\ to \in PCs \ {"next", "done"} /\ n \in OrNULL
    /\ o \in {"none", "remove_first", "reset", "remove_node"}
    /\ \/ writeLock \in {NULL, w} /\ lock = IF to \in LockPCs THEN w ELSE NULL
       \/ writeLock # w /\ lock = writeLock /\ to \notin LockPCs
    /\ to \in {"search", "compare", "searched"} => o \in {"remove_first", "reset"}
    /\ to \in {"idle", "prepend", "append", "publish", "unlock"} => o = "none"
    /\ to \in {"unlink", "release", "recycle", "delete"} => o # "none"
    /\ to \in {"compare", "unlink"} => n # NULL

\* The types of what a turn changes.
ThreadTypes ==
    /\ writeLock \in Writers \cup {NULL}
    /\ pc \in [Threads -> PCs] /\ cur \in [Threads -> OrNULL]
    /\ op \in [Writers -> {"none", "remove_first", "reset", "remove_node"}]

LEMMA TurnKeepsControl ==
    ASSUME Types, Control, NEW w \in Writers, NEW to, NEW n, NEW o, NEW lock,
           Turns(w, to, n, o, lock), MayTurn(w, to, n, o, lock)
    PROVE  Control' /\ ThreadTypes'
<1> USE ListAssumption
<1>1. w \in Threads /\ w \notin Readers
    BY DEF Threads
<1>2. ThreadTypes'
    BY <1>1 DEF Types, ThreadTypes, Turns, MayTurn
<1>3. \A r \in Readers : pc'[r] = pc[r]
    BY <1>1 DEF Types, Turns, Threads
<1>4. /\ pc'[w] = to /\ cur'[w] = n /\ op'[w] = o
      /\ \A u \in Writers \ {w} : pc'[u] = pc[u] /\ cur'[u] = cur[u] /\ op'[u] = op[u]
    BY <1>1 DEF Types, Turns, Threads
<1>5. Control'
    <2>1. writeLock' = w <=> to \in LockPCs
        BY DEF Turns, MayTurn
    <2>2. \A u \in Writers \ {w} : writeLock' = u <=> writeLock = u
        BY DEF Turns, MayTurn
    <2> QED
        BY <1>3, <1>4, <2>1, <2>2 DEF Control, MayTurn
<1> QED
    BY <1>2, <1>5

LEMMA RemovedKeepsControl ==
    ASSUME Types, Control, NEW w \in Writers, pc[w] \in {"unlink", "recycle", "delete"},
           writeLock \in {NULL, w}, Removed(w)
    PROVE  Control' /\ ThreadTypes'
<1> USE ListAssumption
<1>1. w \in Threads /\ op[w] \in {"remove_first", "reset", "remove_node"} /\ cur[w] \in OrNULL
    BY DEF Threads, Types, Control
<1>2. CASE op[w] = "remove_first"
    <2>1. Turns(w, "searched", cur[w], "remove_first", NULL) /\ MayTurn(w, "searched", cur[w], "remove_first", NULL)
        BY <1>1, <1>2 DEF Removed, Turns, MayTurn, LockPCs, PCs, Goto, Types
    <2> QED
        BY <2>1, TurnKeepsControl
<1>3. CASE op[w] = "reset"
    <2>1. Turns(w, "search", cur[w], "reset", NULL) /\ MayTurn(w, "search", cur[w], "reset", NULL)
        BY <1>1, <1>3 DEF Removed, Turns, MayTurn, LockPCs, PCs, Goto, Types
    <2> QED
        BY <2>1, TurnKeepsControl
<1>4. CASE op[w] = "remove_node"
    <2>1. Turns(w, "idle", NULL, "none", NULL) /\ MayTurn(w, "idle", NULL, "none", NULL)
        BY <1>1, <1>4 DEF Removed, Turns, MayTurn, LockPCs, PCs, Goto, Types, OrNULL
    <2> QED
        BY <2>1, TurnKeepsControl
<1> QED
    BY <1>1, <1>2, <1>3, <1>4

\* An insertion's steps.
LEMMA InsertKeepsControl ==
    ASSUME Types, Control, NEW w \in Writers,
           InsertFirst(w) \/ PrependLink(w) \/ PrependPublish(w) \/ AppendPublish(w) \/ InsertEnds(w)
    PROVE  Control' /\ ThreadTypes'
<1> USE ListAssumption
<1>1. w \in Threads /\ cur[w] \in OrNULL
    BY DEF Threads, Types
<1>2. /\ pc[w] \in {"prepend", "append", "publish", "unlock"} /\ op[w] = "none" /\ op' = op
    BY DEF InsertFirst, PrependLink, PrependPublish, AppendPublish, InsertEnds, Control
<1>3. writeLock = w
    BY <1>2 DEF Control, LockPCs, Types
<1>4. CASE InsertEnds(w)
    <2>1. Turns(w, "idle", NULL, "none", NULL) /\ MayTurn(w, "idle", NULL, "none", NULL)
        BY <1>1, <1>2, <1>3, <1>4 DEF InsertEnds, Unlock, Goto, Turns, MayTurn, LockPCs, PCs, Types, OrNULL
    <2> QED
        BY <2>1, TurnKeepsControl
<1>5. CASE PrependLink(w)
    <2>1. Turns(w, "publish", cur[w], "none", w) /\ MayTurn(w, "publish", cur[w], "none", w)
        BY <1>1, <1>2, <1>3, <1>5 DEF PrependLink, Goto, Turns, MayTurn, LockPCs, PCs, Types
    <2> QED
        BY <2>1, TurnKeepsControl
<1>6. CASE InsertFirst(w) \/ PrependPublish(w) \/ AppendPublish(w)
    <2>1. Turns(w, "unlock", cur[w], "none", w) /\ MayTurn(w, "unlock", cur[w], "none", w)
        BY <1>1, <1>2, <1>3, <1>6
           DEF InsertFirst, PrependPublish, AppendPublish, Goto, Turns, MayTurn, LockPCs, PCs, Types
    <2> QED
        BY <2>1, TurnKeepsControl
<1> QED
    BY <1>4, <1>5, <1>6

\* A search's steps, and what begins or decides without a change of the list.
LEMMA SearchKeepsControl ==
    ASSUME Types, Control, NEW w \in Writers,
           \/ StartSearch(w) \/ SearchNext(w) \/ Compare(w) \/ SearchEnds(w)
           \/ StartRemoveNode(w) \/ CheckReaders(w)
    PROVE  Control' /\ ThreadTypes'
<1> USE ListAssumption
<1>1. w \in Threads /\ cur[w] \in OrNULL /\ Following(w) \in OrNULL
    BY FollowingIsAhead DEF Threads, Types
<1>2. op \in [Writers -> {"none", "remove_first", "reset", "remove_node"}] /\ op[w] \in {"none", "remove_first", "reset", "remove_node"}
    BY DEF Types
<1>3. CASE StartSearch(w)
    <2>1. pc[w] = "idle" /\ writeLock' = writeLock /\ writeLock # w
        BY <1>1, <1>3 DEF StartSearch, StartReading, Control, LockPCs
    <2>2. PICK o \in {"remove_first", "reset"} : Turns(w, "search", NULL, o, writeLock)
        BY <1>1, <1>3, <2>1 DEF StartSearch, StartReading, Goto, Turns
    <2>3. MayTurn(w, "search", NULL, o, writeLock)
        BY <2>1 DEF MayTurn, LockPCs, PCs, OrNULL
    <2> QED
        BY <2>2, <2>3, TurnKeepsControl
<1>4. CASE SearchNext(w)
    <2> DEFINE to == IF Following(w) = NULL THEN "searched" ELSE IF op[w] = "reset" THEN "unlink" ELSE "compare"
    <2>1. /\ pc[w] = "search" /\ writeLock # w /\ op[w] \in {"remove_first", "reset"}
          /\ Turns(w, to, Following(w), op[w], writeLock)
        BY <1>1, <1>2, <1>4 DEF SearchNext, Goto, Turns, Control, LockPCs
    <2>2. MayTurn(w, to, Following(w), op[w], writeLock)
        BY <1>1, <1>2, <2>1 DEF MayTurn, LockPCs, PCs
    <2> HIDE DEF to
    <2> QED
        BY <2>1, <2>2, TurnKeepsControl
<1>5. CASE Compare(w)
    <2> DEFINE to == IF node[cur[w]].value = arg[w] THEN "unlink" ELSE "search"
    <2>1. /\ pc[w] = "compare" /\ writeLock # w /\ op[w] \in {"remove_first", "reset"} /\ cur[w] # NULL
          /\ Turns(w, to, cur[w], op[w], writeLock)
        BY <1>1, <1>2, <1>5 DEF Compare, Goto, Turns, Control, LockPCs, Types
    <2>2. MayTurn(w, to, cur[w], op[w], writeLock)
        BY <1>1, <1>2, <2>1 DEF MayTurn, LockPCs, PCs
    <2> HIDE DEF to
    <2> QED
        BY <2>1, <2>2, TurnKeepsControl
<1>6. CASE SearchEnds(w)
    <2>1. /\ pc[w] = "searched" /\ writeLock # w
          /\ Turns(w, "idle", NULL, "none", writeLock)
        BY <1>1, <1>2, <1>6 DEF SearchEnds, StopReading, Goto, Turns, Control, LockPCs
    <2>2. MayTurn(w, "idle", NULL, "none", writeLock)
        BY <2>1 DEF MayTurn, LockPCs, PCs, OrNULL
    <2> QED
        BY <2>1, <2>2, TurnKeepsControl
<1>7. CASE StartRemoveNode(w)
    <2>1. pc[w] = "idle" /\ writeLock # w
        BY <1>1, <1>7 DEF StartRemoveNode, Control, LockPCs
    <2>2. PICK n \in Nodes : Turns(w, "unlink", n, "remove_node", writeLock)
        BY <1>1, <1>2, <1>7 DEF StartRemoveNode, Chain, Goto, Turns
    <2>3. MayTurn(w, "unlink", n, "remove_node", writeLock)
        BY <2>1 DEF MayTurn, LockPCs, PCs, OrNULL
    <2> QED
        BY <2>2, <2>3, TurnKeepsControl
<1>8. CASE CheckReaders(w)
    <2> DEFINE to == IF refcount > 0 THEN "recycle" ELSE "delete"
    <2>1. /\ pc[w] = "release" /\ writeLock = w /\ op[w] # "none"
          /\ Turns(w, to, cur[w], op[w], w)
        BY <1>1, <1>2, <1>8 DEF CheckReaders, Goto, Turns, Control, LockPCs, Types
    <2>2. MayTurn(w, to, cur[w], op[w], w)
        BY <1>1, <1>2, <2>1 DEF MayTurn, LockPCs, PCs
    <2> HIDE DEF to
    <2> QED
        BY <2>1, <2>2, TurnKeepsControl
<1> QED
    BY <1>3, <1>4, <1>5, <1>6, <1>7, <1>8

\* The steps that take the lock.
LEMMA LockingKeepsControl ==
    ASSUME Types, Control, NEW w \in Writers, StartInsert(w) \/ Unlink(w)
    PROVE  Control' /\ ThreadTypes' /\ writeLock = NULL
<1> USE ListAssumption
<1>1. w \in Threads /\ cur[w] \in OrNULL /\ op[w] \in {"none", "remove_first", "reset", "remove_node"}
    BY DEF Threads, Types
<1>2. CASE StartInsert(w)
    <2>1. pc[w] = "idle" /\ writeLock = NULL /\ writeLock' = w /\ op[w] = "none" /\ op' = [op EXCEPT ![w] = "none"]
        BY <1>2 DEF StartInsert, Lock, Control, Types
    <2>2. PICK to \in {"prepend", "append"} : pc' = [pc EXCEPT ![w] = to]
        BY <1>2 DEF StartInsert, Goto
    <2>3. \E n \in OrNULL : cur' = [cur EXCEPT ![w] = n]
        <3>1. PICK v \in Values : TakeNode(w, v)
            BY <1>2 DEF StartInsert
        <3>2. CASE free # NULL
            BY <3>1, <3>2 DEF TakeNode, Types
        <3>3. CASE free = NULL
            BY <3>1, <3>3 DEF TakeNode, OrNULL
        <3> QED
            BY <3>2, <3>3
    <2>4. PICK n \in OrNULL : cur' = [cur EXCEPT ![w] = n]
        BY <2>3
    <2>5. Turns(w, to, n, "none", w) /\ MayTurn(w, to, n, "none", w)
        BY <2>1, <2>2, <2>4 DEF Turns, MayTurn, LockPCs, PCs
    <2> QED
        BY <2>1, <2>5, TurnKeepsControl
<1>3. CASE Unlink(w)
    <2>1. /\ pc[w] = "unlink" /\ writeLock = NULL /\ op[w] # "none"
          /\ Turns(w, "release", cur[w], op[w], w)
        BY <1>1, <1>3 DEF Unlink, Lock, Goto, Turns, Control, Types
    <2>2. MayTurn(w, "release", cur[w], op[w], w)
        BY <1>1, <2>1 DEF MayTurn, LockPCs, PCs
    <2> QED
        BY <2>1, <2>2, TurnKeepsControl
<1> QED
    BY <1>2, <1>3

LEMMA RemovalKeepsControl ==
    ASSUME Types, Control, NEW w \in Writers, UnlinkNotFound(w) \/ Recycle(w) \/ Delete(w)
    PROVE  Control' /\ ThreadTypes'
<1>1. pc[w] \in {"unlink", "recycle", "delete"} /\ writeLock \in {NULL, w} /\ Removed(w)
    BY DEF UnlinkNotFound, Recycle, Delete, Control, LockPCs
<1> QED
    BY <1>1, RemovedKeepsControl

\* The types of what a writer's steps change beside it.
HeapTypes ==
    /\ allocated \subseteq Nodes /\ node \in [Nodes -> Cell]
    /\ head \in OrNULL /\ tail \in OrNULL /\ free \in OrNULL
    /\ arg \in [Writers -> Values]
    /\ unseen \in [Readers -> SUBSET Nodes] /\ lost \subseteq Readers

LEMMA SetCell ==
    ASSUME NEW m \in [Nodes -> Cell], NEW a, NEW x \in OrNULL
    PROVE  /\ [m EXCEPT ![a].next = x] \in [Nodes -> Cell]
           /\ [m EXCEPT ![a].prev = x] \in [Nodes -> Cell]
<1>1. ASSUME NEW n \in Nodes
      PROVE  [m[n] EXCEPT !.next = x] \in Cell /\ [m[n] EXCEPT !.prev = x] \in Cell
    <2>1. m[n] \in Cell
        OBVIOUS
    <2> QED
        BY <2>1 DEF Cell
<1> QED
    BY <1>1

LEMMA WriterTypes ==
    ASSUME Types, NEW w \in Writers, WriterStarts(w) \/ WriterStep(w)
    PROVE  HeapTypes'
<1> USE ListAssumption
<1>1. w \in Threads /\ cur[w] \in OrNULL /\ AnyValue \in Values /\ HeapTypes
    BY DEF Threads, Types, AnyValue, HeapTypes
<1>2. ASSUME NEW v \in Values
      PROVE  Fresh(v) \in Cell /\ Fresh(v).next = NULL /\ NULL \in OrNULL
    BY DEF Fresh, Cell, OrNULL
<1>3. CASE StartInsert(w)
    <2>1. PICK v \in Values : TakeNode(w, v) /\ arg' = [arg EXCEPT ![w] = v]
        BY <1>3 DEF StartInsert
    <2>2. UNCHANGED <<head, tail, unseen, lost>>
        BY <1>3 DEF StartInsert, seen
    <2>3. CASE free # NULL
        <3>1. node' = [node EXCEPT ![free] = Fresh(v)] /\ free' = node'[free].next /\ UNCHANGED allocated
            BY <2>1, <2>3 DEF TakeNode
        <3>2. free \in Nodes
            BY <1>1, <2>3 DEF HeapTypes, OrNULL
        <3>3. node' \in [Nodes -> Cell] /\ free' = NULL
            BY <1>1, <1>2, <3>1, <3>2 DEF HeapTypes
        <3> QED
            BY <1>1, <1>2, <2>1, <2>2, <3>1, <3>3 DEF HeapTypes
    <2>4. CASE free = NULL
        <3>1. PICK n \in Nodes \ allocated : node' = [node EXCEPT ![n] = Fresh(v)] /\ allocated' = allocated \cup {n}
            BY <2>1, <2>4 DEF TakeNode
        <3>2. UNCHANGED free
            BY <2>1, <2>4 DEF TakeNode
        <3> QED
            BY <1>1, <1>2, <2>1, <2>2, <3>1, <3>2 DEF HeapTypes
    <2> QED
        BY <2>3, <2>4
<1>4. CASE StartSearch(w)
    BY <1>1, <1>4 DEF StartSearch, StartReading, list, seen, HeapTypes
<1>5. CASE StartRemoveNode(w) \/ UnlinkNotFound(w) \/ SearchNext(w) \/ Compare(w) \/ CheckReaders(w)
    BY <1>1, <1>5 DEF StartRemoveNode, UnlinkNotFound, SearchNext, Compare, CheckReaders, list, seen, HeapTypes
<1>6. CASE InsertEnds(w) \/ SearchEnds(w)
    BY <1>1, <1>6 DEF InsertEnds, SearchEnds, StopReading, list, seen, HeapTypes
<1>7. CASE InsertFirst(w) \/ PrependPublish(w)
    BY <1>1, <1>7 DEF InsertFirst, PrependPublish, seen, HeapTypes
<1>8. CASE PrependLink(w)
    <2> DEFINE m == [node EXCEPT ![cur[w]].next = head]
    <2>1. m \in [Nodes -> Cell]
        BY <1>1, SetCell DEF HeapTypes
    <2>2. node' = [m EXCEPT ![head].prev = cur[w]]
        BY <1>8 DEF PrependLink
    <2>3. node' \in [Nodes -> Cell]
        <3> HIDE DEF m
        <3> QED
            BY <1>1, <2>1, <2>2, SetCell
    <2> QED
        BY <1>1, <1>8, <2>3 DEF PrependLink, seen, HeapTypes
<1>9. CASE AppendPublish(w)
    <2> DEFINE x == IF node[tail].next = NULL THEN cur[w] ELSE node[tail].next
               m == [node EXCEPT ![tail].next = x]
    <2>1. tail \in Nodes
        BY <1>1, <1>9 DEF AppendPublish, HeapTypes, OrNULL
    <2>2. x \in OrNULL
        BY <1>1, <2>1 DEF HeapTypes, Cell
    <2>3. m \in [Nodes -> Cell]
        <3> HIDE DEF x
        <3> QED
            BY <1>1, <2>2, SetCell DEF HeapTypes
    <2>4. node' = [m EXCEPT ![cur[w]].prev = tail]
        BY <1>9 DEF AppendPublish
    <2>5. node' \in [Nodes -> Cell]
        <3> HIDE DEF m
        <3> QED
            BY <1>1, <2>3, <2>4, SetCell DEF HeapTypes
    <2> QED
        BY <1>1, <1>9, <2>5 DEF AppendPublish, seen, HeapTypes
<1>10. CASE Unlink(w)
    <2>1. cur[w] \in Nodes
        BY <1>10 DEF Unlink, Chain
    <2>2. node[cur[w]].next \in OrNULL /\ node[cur[w]].prev \in OrNULL
        BY <1>1, <2>1 DEF HeapTypes, Cell
    <2> DEFINE m(n) == [node[n] EXCEPT !.next = IF cur[w] # head /\ n = node[cur[w]].prev THEN node[cur[w]].next ELSE @,
                                       !.prev = IF n = node[cur[w]].next THEN node[cur[w]].prev ELSE @]
    <2>3. ASSUME NEW n \in Nodes
          PROVE  m(n) \in Cell
        <3>1. node[n] \in Cell
            BY <1>1 DEF HeapTypes
        <3> QED
            BY <2>2, <3>1 DEF Cell
    <2>4. node' = [n \in Nodes |-> m(n)]
        BY <1>10 DEF Unlink
    <2>5. node' \in [Nodes -> Cell]
        <3> HIDE DEF m
        <3> QED
            BY <2>3, <2>4
    <2> QED
        BY <1>1, <1>10, <2>2, <2>5 DEF Unlink, HeapTypes
<1>11. CASE Recycle(w)
    <2> DEFINE m(n) == IF n = cur[w] THEN [node[n] EXCEPT !.prev = NULL, !.next = free]
                       ELSE [node[n] EXCEPT !.prev = IF n = free THEN cur[w] ELSE @]
    <2>1. ASSUME NEW n \in Nodes
          PROVE  m(n) \in Cell
        <3>1. node[n] \in Cell /\ NULL \in OrNULL
            BY <1>1 DEF HeapTypes, OrNULL
        <3>2. CASE n = cur[w]
            BY <1>1, <3>1, <3>2 DEF HeapTypes, Cell
        <3>3. CASE n # cur[w]
            BY <1>1, <3>1, <3>3 DEF HeapTypes, Cell
        <3> QED
            BY <3>2, <3>3
    <2>2. node' = [n \in Nodes |-> m(n)]
        BY <1>11 DEF Recycle
    <2>3. node' \in [Nodes -> Cell]
        <3> HIDE DEF m
        <3> QED
            BY <2>1, <2>2
    <2> QED
        BY <1>1, <1>11, <2>3 DEF Recycle, seen, HeapTypes
<1>12. CASE Delete(w)
    BY <1>1, <1>2, <1>12 DEF Delete, seen, HeapTypes
<1> QED
    BY <1>3, <1>4, <1>5, <1>6, <1>7, <1>8, <1>9, <1>10, <1>11, <1>12 DEF WriterStarts, WriterStep

LEMMA ControlPreserved ==
    ASSUME Types, Control, Next
    PROVE  Types' /\ Control'
<1>1. CASE \E r \in Readers : ReaderStarts(r) \/ ReaderStep(r)
    BY <1>1, ReaderTypes
<1>2. CASE \E w \in Writers : WriterStarts(w) \/ WriterStep(w)
    <2>1. PICK w \in Writers : WriterStarts(w) \/ WriterStep(w)
        BY <1>2
    <2>2. HeapTypes'
        BY <2>1, WriterTypes
    <2>3. Control' /\ ThreadTypes'
        BY <2>1, InsertKeepsControl, SearchKeepsControl, LockingKeepsControl, RemovalKeepsControl
           DEF WriterStarts, WriterStep
    <2> QED
        BY <2>2, <2>3 DEF Types, HeapTypes, ThreadTypes
<1> QED
    BY <1>1, <1>2 DEF Next

----------------------------------------------------------------------------
(* What every step of a kind has in common.                                *)

LEMMA NextMapTypes ==
    ASSUME Types'
    PROVE  /\ Links' \in NextMaps /\ Prevs' \in NextMaps
           /\ \A n \in Nodes : Links'[n] = node'[n].next /\ Prevs'[n] = node'[n].prev
BY DEF Types, Cell, Links, Prevs, NextMaps, OrNULL

\* Nothing on the first chain of a list leads back to its head.
LEMMA HeadIsFirst ==
    ASSUME NEW nx \in NextMaps, NEW n \in Nodes, Stops(nx, n), NEW m \in From(nx, n)
    PROVE  nx[m] # n
<1> SUFFICES ASSUME nx[m] = n
             PROVE  FALSE
    OBVIOUS
<1>1. n \notin From(nx, nx[n]) /\ From(nx, n) = {n} \cup From(nx, nx[n])
    BY NoCycle, FromStep
<1>2. CASE m = n
    BY <1>1, <1>2, FromStart
<1>3. CASE m \in From(nx, nx[n])
    BY <1>1, <1>3, FromClosed, ListAssumption DEF ClosedIn
<1> QED
    BY <1>1, <1>2, <1>3

\* What follows from the invariant about the nodes of the list.
LEMMA OnTheList ==
    ASSUME Types, Heap, DoublyLinked
    PROVE  /\ L \subseteq Nodes /\ NULL \notin L /\ F \subseteq Nodes /\ NULL \notin F
           /\ head \in L \cup {NULL} /\ free \in F \cup {NULL}
           /\ \A n \in L : Links[n] \in L \cup {NULL} /\ Links[n] # head
           /\ \A n \in L : Stops(Links, n) /\ From(Links, n) \subseteq L
           /\ tail \in L \cup {NULL}
           /\ head = NULL <=> L = {}
<1> USE ListAssumption
<1>1. Links \in NextMaps /\ head \in OrNULL /\ free \in OrNULL
    BY MapTypes DEF Types
<1>2. L \subseteq Nodes /\ F \subseteq Nodes
    BY FromStart DEF L, F
<1>3. head \in L \cup {NULL} /\ free \in F \cup {NULL}
    BY <1>1, FromStart DEF L, F, OrNULL
<1>4. ASSUME NEW n \in L
      PROVE  Links[n] \in L \cup {NULL} /\ Stops(Links, n) /\ From(Links, n) \subseteq L
    BY <1>1, FromClosed, StopsEverywhere, FromTrans DEF ClosedIn, L, Heap
<1>5. head = NULL <=> L = {}
    BY <1>1, FromNull, FromStart DEF L, OrNULL
<1>6. ASSUME NEW n \in L
      PROVE  Links[n] # head
    BY <1>1, <1>5, HeadIsFirst DEF L, Heap, OrNULL
<1>7. tail \in L \cup {NULL}
    <2>1. CASE head = NULL
        BY <2>1 DEF DoublyLinked
    <2>2. CASE head # NULL
        <3>1. PICK m \in L : Links[m] = NULL
            BY <2>2 DEF Heap, Stops, L
        <3> QED
            BY <3>1 DEF DoublyLinked
    <2> QED
        BY <2>1, <2>2
<1> QED
    BY <1>2, <1>3, <1>4, <1>5, <1>6, <1>7

\* At most one writer is where the lock is held.
LEMMA OneHolder ==
    ASSUME Control, NEW w \in Writers, writeLock \in {w, NULL}
    PROVE  \A u \in Writers : pc[u] \in LockPCs => u = w
BY ListAssumption DEF Control

LEMMA OneHolderNext ==
    ASSUME Control', NEW w \in Writers, writeLock' \in {w, NULL}
    PROVE  \A u \in Writers : pc'[u] \in LockPCs => u = w
BY ListAssumption DEF Control

\* Steps that leave every iteration where it is.
SameReaders ==
    /\ \A t \in Threads : Reading(t)' <=> Reading(t)
    /\ \A t \in Threads : Reading(t) => cur'[t] = cur[t]
    /\ \A r \in Readers : pc'[r] = pc[r] /\ cur'[r] = cur[r]

InsertStep(w) ==
    StartInsert(w) \/ InsertFirst(w) \/ PrependLink(w) \/ PrependPublish(w) \/ AppendPublish(w) \/ InsertEnds(w)

RemoveStep(w) ==
    Compare(w) \/ StartRemoveNode(w) \/ UnlinkNotFound(w) \/ Unlink(w) \/ CheckReaders(w) \/ Recycle(w) \/ Delete(w)

LEMMA InsertKeepsReaders ==
    ASSUME Types, Control, Types', Control', NEW w \in Writers, InsertStep(w)
    PROVE  SameReaders
<1> USE ListAssumption
<1>1. w \in Threads /\ w \notin Readers
    BY DEF Threads
<1>2. op' = op /\ op[w] = "none" /\ pc[w] \notin ReadingPCs
    BY DEF InsertStep, StartInsert, InsertFirst, PrependLink, PrependPublish, AppendPublish, InsertEnds,
           Control, ReadingPCs
<1>3. pc'[w] \notin ReadingPCs /\ \A t \in Threads \ {w} : pc'[t] = pc[t]
    BY <1>1 DEF InsertStep, StartInsert, InsertFirst, PrependLink, PrependPublish, AppendPublish, InsertEnds,
           Goto, Types, ReadingPCs
<1>4. \A t \in Threads \ {w} : cur'[t] = cur[t]
    BY <1>1 DEF InsertStep, StartInsert, TakeNode, InsertFirst, PrependLink, PrependPublish, AppendPublish,
           InsertEnds, Types
<1>5. ~Reading(w) /\ ~Reading(w)'
    BY <1>2, <1>3 DEF Reading
<1>6. \A t \in Threads \ {w} : Reading(t)' <=> Reading(t)
    BY <1>2, <1>3 DEF Reading
<1> QED
    BY <1>1, <1>3, <1>4, <1>5, <1>6 DEF SameReaders, Threads

LEMMA RemoveKeepsReaders ==
    ASSUME Types, Control, Types', Control', NEW w \in Writers, RemoveStep(w)
    PROVE  SameReaders
<1> USE ListAssumption
<1>1. w \in Threads /\ w \notin Readers /\ op[w] \in {"none", "remove_first", "reset", "remove_node"}
    BY DEF Threads, Types
<1>2. ASSUME NEW t \in Threads \ {w}
      PROVE  cur'[t] = cur[t] /\ pc'[t] = pc[t] /\ (t \in Writers => op'[t] = op[t])
    BY <1>1 DEF RemoveStep, Compare, StartRemoveNode, UnlinkNotFound, Removed, Unlink, CheckReaders, Recycle, Delete,
           Goto, Types
<1>3. \A t \in Threads \ {w} : Reading(t)' <=> Reading(t)
    BY <1>2 DEF Reading
<1>4. (Reading(w)' <=> Reading(w)) /\ (Reading(w) => cur'[w] = cur[w])
    <2>1. CASE Compare(w)
        BY <1>1, <2>1 DEF Compare, Goto, Types, Reading, ReadingPCs, Control
    <2>2. CASE StartRemoveNode(w)
        BY <1>1, <2>2 DEF StartRemoveNode, Goto, Types, Reading, ReadingPCs, Control
    <2>3. CASE Unlink(w)
        BY <1>1, <2>3 DEF Unlink, Goto, Types, Reading, ReadingPCs
    <2>4. CASE CheckReaders(w)
        BY <1>1, <2>4 DEF CheckReaders, Goto, Types, Reading, ReadingPCs
    <2>5. CASE UnlinkNotFound(w) \/ Recycle(w) \/ Delete(w)
        <3>1. Removed(w) /\ pc[w] \notin ReadingPCs /\ op[w] \in {"remove_first", "reset", "remove_node"}
            BY <1>1, <2>5 DEF UnlinkNotFound, Recycle, Delete, ReadingPCs, Control
        <3>2. CASE op[w] = "remove_node"
            BY <1>1, <3>1, <3>2 DEF Removed, Goto, Types, Reading, ReadingPCs
        <3>3. CASE op[w] # "remove_node"
            BY <1>1, <3>1, <3>3 DEF Removed, Goto, Types, Reading, ReadingPCs
        <3> QED
            BY <3>2, <3>3
    <2> QED
        BY <2>1, <2>2, <2>3, <2>4, <2>5 DEF RemoveStep
<1> QED
    BY <1>1, <1>2, <1>3, <1>4 DEF SameReaders, Threads

\* The lists, where they keep their nodes and the node's links.
LEMMA KeptList ==
    ASSUME Types, Types', Heap, DoublyLinked, head' = head, \A k \in L : Links'[k] = Links[k]
    PROVE  L' = L /\ Stops(Links', head') /\ \A x \in L \cup {NULL} : From(Links', x) = From(Links, x)
<1>1. Links \in NextMaps /\ Links' \in NextMaps /\ head \in OrNULL
    BY MapTypes, NextMapTypes DEF Types
<1>2. L' = L /\ Stops(Links', head')
    <2>1. \A k \in From(Links, head) : Links'[k] = Links[k]
        BY DEF L
    <2>2. From(Links', head) = From(Links, head) /\ Stops(Links', head)
        BY <1>1, <2>1, FromSame DEF Heap
    <2> QED
        BY <2>2 DEF L
<1>3. ASSUME NEW x \in L
      PROVE  From(Links', x) = From(Links, x)
    BY <1>1, OnTheList, FromSame DEF OrNULL
<1> QED
    BY <1>2, <1>3, FromNull

LEMMA KeptFree ==
    ASSUME Types, Types', Heap, free' = free, \A k \in F : Links'[k] = Links[k]
    PROVE  F' = F /\ Stops(Links', free')
<1>1. Links \in NextMaps /\ Links' \in NextMaps /\ free \in OrNULL
    BY MapTypes, NextMapTypes DEF Types
<1>2. \A k \in From(Links, free) : Links'[k] = Links[k]
    BY DEF F
<1>3. From(Links', free) = From(Links, free) /\ Stops(Links', free)
    BY <1>1, <1>2, FromSame DEF Heap
<1> QED
    BY <1>3 DEF F

LEMMA KeptViews ==
    ASSUME Types, Types', Heap, DoublyLinked, Views, SameReaders, seen' = seen,
           head' = head, \A k \in L : Links'[k] = Links[k]
    PROVE  Views'
<1>1. L' = L /\ \A x \in L \cup {NULL} : From(Links', x) = From(Links, x)
    BY KeptList
<1>2. unseen' = unseen /\ lost' = lost
    BY DEF seen
<1>3. ASSUME NEW r \in Readers, r \notin lost, pc[r] = "next"
      PROVE  unseen[r] \subseteq From(Links', Ahead(r)')
    <2>1. unseen[r] \subseteq From(Links, Ahead(r)) /\ cur[r] \in L \cup {NULL} /\ cur'[r] = cur[r]
        BY <1>3 DEF Views, SameReaders
    <2>2. Ahead(r)' = Ahead(r) /\ Ahead(r) \in L \cup {NULL}
        BY <2>1, OnTheList DEF Ahead
    <2> QED
        BY <1>1, <2>1, <2>2
<1> QED
    BY <1>1, <1>2, <1>3 DEF Views, SameReaders

\* A step that redirects one node's _next to a chain of allocated nodes that ends.
LEMMA OneLink ==
    ASSUME Types, Types', Walks, SameReaders, allocated \subseteq allocated', NEW b \in Nodes,
           \A k \in Nodes \ {b} : Links'[k] = Links[k],
           From(Links', Links'[b]) \subseteq allocated', Stops(Links', Links'[b])
    PROVE  Walks'
<1>1. Links \in NextMaps /\ Links' \in NextMaps
    BY MapTypes, NextMapTypes
<1>2. ASSUME NEW t \in Threads, Reading(t)'
      PROVE  From(Links', cur'[t]) \subseteq allocated' /\ Stops(Links', cur'[t])
    <2>1. Reading(t) /\ cur'[t] = cur[t] /\ cur[t] \in OrNULL
        BY <1>2 DEF SameReaders, Types
    <2>2. From(Links, cur[t]) \subseteq allocated /\ Stops(Links, cur[t])
        BY <2>1 DEF Walks
    <2>3. From(Links', cur[t]) \subseteq From(Links, cur[t]) \cup From(Links', Links'[b])
        BY <1>1, <2>1, FromRedirected
    <2>4. Stops(Links', cur[t])
        BY <1>1, <2>1, <2>2, StopsRedirected
    <2> QED
        BY <2>1, <2>2, <2>3, <2>4
<1> QED
    BY <1>2 DEF Walks

LEMMA SameLinksWalks ==
    ASSUME Walks, SameReaders, Links' = Links, allocated' = allocated
    PROVE  Walks'
BY DEF Walks, SameReaders

\* Only the step after CheckReaders can disturb Unreached.
LEMMA NobodyDeletes ==
    ASSUME Control', NEW w \in Writers, writeLock' \in {w, NULL}, pc'[w] # "delete"
    PROVE  Unreached'
BY OneHolderNext DEF Unreached, LockPCs

\* The list as its writers see it, where they are the only ones to go on.
LEMMA QuietShape ==
    ASSUME Types, Shape, UNCHANGED list,
           \A u \in Writers : pc'[u] \in LockPCs \ {"unlock"} =>
               /\ pc[u] \in LockPCs \ {"unlock"} /\ cur'[u] = cur[u]
               /\ pc'[u] \in {"prepend", "append", "publish"} => pc'[u] = pc[u],
           \A u \in Writers : pc[u] = "publish" => pc'[u] = "publish"
    PROVE  Shape'
<1>1. UNCHANGED <<allocated, node, head, tail, free, Links, Prevs, L, F>>
    BY SameList
<1>2. Heap'
    BY <1>1 DEF Shape, Heap
<1>3. DoublyLinked'
    BY <1>1 DEF Shape, DoublyLinked
<1>4. Apart'
    BY <1>1 DEF Shape, Apart, LockPCs
<1> QED
    BY <1>2, <1>3, <1>4 DEF Shape

----------------------------------------------------------------------------
(* Iteration.                                                              *)

LEMMA ThreadsFinite == IsFiniteSet(Threads) /\ IsFiniteSet(ReadingThreads)
<1>1. IsFiniteSet(Threads)
    BY ListAssumption, FS_Union DEF Threads
<1>2. ReadingThreads \subseteq Threads
    BY DEF ReadingThreads
<1> QED
    BY <1>1, <1>2, FS_Subset

\* The steps of a thread that starts, follows and stops an iteration.
IterationStep(t) ==
    \/ t \in Readers /\ (ReaderStarts(t) \/ ReaderNext(t) \/ ReaderStops(t))
    \/ t \in Writers /\ (StartSearch(t) \/ SearchNext(t) \/ SearchEnds(t))

LEMMA IterationFacts ==
    ASSUME Types, Control, Types', Control', NEW t \in Threads, IterationStep(t)
    PROVE  /\ UNCHANGED list /\ UNCHANGED writeLock
           /\ \A u \in Threads \ {t} : pc'[u] = pc[u] /\ cur'[u] = cur[u] /\ (Reading(u)' <=> Reading(u))
           /\ pc[t] \notin LockPCs /\ pc'[t] \notin LockPCs
           /\ \/ /\ ~Reading(t) /\ Reading(t)' /\ refcount' = refcount + 1 /\ cur'[t] = NULL
              \/ /\ Reading(t) /\ Reading(t)' /\ refcount' = refcount /\ cur'[t] = Following(t)
              \/ /\ Reading(t) /\ ~Reading(t)' /\ refcount' = refcount - 1 /\ cur'[t] = NULL
<1> USE ListAssumption
<1>1. ASSUME NEW u \in Threads \ {t}
      PROVE  /\ pc'[u] = pc[u] /\ cur'[u] = cur[u]
             /\ u \in Writers => op'[u] = op[u]
    BY DEF IterationStep, ReaderStarts, ReaderNext, ReaderStops, StartReading, StopReading, Goto,
           StartSearch, SearchNext, SearchEnds, Types
<1>2. \A u \in Threads \ {t} : Reading(u)' <=> Reading(u)
    BY <1>1 DEF Reading
<1>3. UNCHANGED list /\ UNCHANGED writeLock
    BY DEF IterationStep, ReaderStarts, ReaderNext, ReaderStops, StartReading, StopReading,
           StartSearch, SearchNext, SearchEnds
<1>4. pc[t] \notin LockPCs /\ pc'[t] \notin LockPCs
    BY DEF IterationStep, ReaderStarts, ReaderNext, ReaderStops, Goto, StopReading,
           StartSearch, SearchNext, SearchEnds, LockPCs, Types
<1>5. CASE t \in Readers
    <2>1. t \notin Writers
        BY <1>5
    <2>2. CASE ReaderStarts(t)
        <3>1. pc[t] = "idle" /\ pc'[t] = "next" /\ refcount' = refcount + 1 /\ cur'[t] = NULL
            BY <2>2 DEF ReaderStarts, StartReading, Goto, Types
        <3>2. ~Reading(t) /\ Reading(t)'
            BY <2>1, <3>1 DEF Reading, ReadingPCs
        <3> QED
            BY <1>1, <1>2, <1>3, <1>4, <3>1, <3>2
    <2>3. CASE ReaderNext(t)
        <3>1. pc[t] = "next" /\ pc'[t] \in {"next", "done"} /\ refcount' = refcount /\ cur'[t] = Following(t)
            BY <2>3 DEF ReaderNext, Goto, Types
        <3>2. Reading(t) /\ Reading(t)'
            BY <3>1 DEF Reading, ReadingPCs
        <3> QED
            BY <1>1, <1>2, <1>3, <1>4, <3>1, <3>2
    <2>4. CASE ReaderStops(t)
        <3>1. pc[t] = "done" /\ pc'[t] = "idle" /\ refcount' = refcount - 1 /\ cur'[t] = NULL
            BY <2>4 DEF ReaderStops, StopReading, Goto, Types
        <3>2. Reading(t) /\ ~Reading(t)'
            BY <2>1, <3>1 DEF Reading, ReadingPCs
        <3> QED
            BY <1>1, <1>2, <1>3, <1>4, <3>1, <3>2
    <2> QED
        BY <2>1, <2>2, <2>3, <2>4 DEF IterationStep
<1>6. CASE t \in Writers
    <2>1. t \notin Readers
        BY <1>6
    <2>2. CASE StartSearch(t)
        <3>1. pc[t] = "idle" /\ pc'[t] = "search" /\ refcount' = refcount + 1 /\ cur'[t] = NULL
            BY <2>2 DEF StartSearch, StartReading, Goto, Types
        <3>2. op[t] = "none"
            BY <1>6, <3>1 DEF Control
        <3>3. ~Reading(t) /\ Reading(t)'
            BY <3>1, <3>2 DEF Reading, ReadingPCs
        <3> QED
            BY <1>1, <1>2, <1>3, <1>4, <3>1, <3>3
    <2>3. CASE SearchNext(t)
        <3>1. pc[t] = "search" /\ op' = op /\ refcount' = refcount /\ cur'[t] = Following(t)
            BY <2>3 DEF SearchNext, Types
        <3>2. op[t] \in {"remove_first", "reset"}
            BY <1>6, <3>1 DEF Control
        <3>3. Reading(t) /\ Reading(t)'
            BY <1>6, <3>1, <3>2 DEF Reading, ReadingPCs
        <3> QED
            BY <1>1, <1>2, <1>3, <1>4, <3>1, <3>3
    <2>4. CASE SearchEnds(t)
        <3>1. pc[t] = "searched" /\ pc'[t] = "idle" /\ refcount' = refcount - 1 /\ cur'[t] = NULL
            BY <2>4 DEF SearchEnds, StopReading, Goto, Types
        <3>2. op'[t] = "none"
            BY <1>6, <2>4 DEF SearchEnds, Types
        <3>3. Reading(t) /\ ~Reading(t)'
            BY <3>1, <3>2 DEF Reading, ReadingPCs
        <3> QED
            BY <1>1, <1>2, <1>3, <1>4, <3>1, <3>3
    <2> QED
        BY <2>1, <2>2, <2>3, <2>4 DEF IterationStep
<1> QED
    BY <1>5, <1>6 DEF Threads

LEMMA CountPreserved ==
    ASSUME Types, Control, Types', Control', Count,
           \/ \E t \in Threads : IterationStep(t)
           \/ SameReaders /\ refcount' = refcount
    PROVE  Count'
<1>1. CASE SameReaders /\ refcount' = refcount
    <2>1. ReadingThreads' = ReadingThreads
        BY <1>1 DEF SameReaders, ReadingThreads
    <2> QED
        BY <1>1, <2>1 DEF Count
<1>2. ASSUME NEW t \in Threads, IterationStep(t)
      PROVE  Count'
    <2>1. \A u \in Threads \ {t} : Reading(u)' <=> Reading(u)
        BY <1>2, IterationFacts
    <2>2. CASE ~Reading(t) /\ Reading(t)' /\ refcount' = refcount + 1
        <3>1. ReadingThreads' = ReadingThreads \cup {t} /\ t \notin ReadingThreads
            BY <2>1, <2>2 DEF ReadingThreads
        <3> QED
            BY <2>2, <3>1, ThreadsFinite, FS_AddElement DEF Count
    <2>3. CASE Reading(t) /\ Reading(t)' /\ refcount' = refcount
        <3>1. ReadingThreads' = ReadingThreads
            BY <2>1, <2>3 DEF ReadingThreads
        <3> QED
            BY <2>3, <3>1 DEF Count
    <2>4. CASE Reading(t) /\ ~Reading(t)' /\ refcount' = refcount - 1
        <3>1. ReadingThreads' = ReadingThreads \ {t} /\ t \in ReadingThreads
            BY <2>1, <2>4 DEF ReadingThreads
        <3> QED
            BY <2>4, <3>1, ThreadsFinite, FS_RemoveElement DEF Count
    <2> QED
        BY <1>2, <2>2, <2>3, <2>4, IterationFacts
<1> QED
    BY <1>1, <1>2

\* Where an iteration goes on is on the chain it was on, or at the list's head.
LEMMA IterationMoves ==
    ASSUME Types, Heap, Walks, NEW t \in Threads, Reading(t)
    PROVE  /\ From(Links, Following(t)) \subseteq From(Links, cur[t]) \cup L
           /\ From(Links, Following(t)) \subseteq allocated /\ Stops(Links, Following(t))
<1>1. Links \in NextMaps /\ cur[t] \in OrNULL
    BY MapTypes DEF Types
<1>2. CASE cur[t] = NULL
    BY <1>2, FollowingIsAhead DEF Heap, L
<1>3. CASE cur[t] # NULL
    <2>1. cur[t] \in Nodes /\ Following(t) = Links[cur[t]]
        BY <1>1, <1>3, FollowingIsAhead DEF OrNULL
    <2>2. From(Links, cur[t]) \subseteq allocated /\ Stops(Links, cur[t])
        BY DEF Walks
    <2> QED
        BY <1>1, <2>1, <2>2, FromStep, StopsStep
<1> QED
    BY <1>2, <1>3

\* A thread that starts, follows or ends an iteration keeps the list as it is.
LEMMA IterationKeepsShape ==
    ASSUME Types, Control, Types', Control', Shape, NEW t \in Threads, IterationStep(t)
    PROVE  Shape'
<1>1. \A u \in Writers : pc[u] \in LockPCs \/ pc'[u] \in LockPCs => pc'[u] = pc[u] /\ cur'[u] = cur[u]
    BY IterationFacts DEF Threads
<1>2. \A u \in Writers : pc'[u] \in LockPCs \ {"unlock"} =>
          /\ pc[u] \in LockPCs \ {"unlock"} /\ cur'[u] = cur[u]
          /\ pc'[u] \in {"prepend", "append", "publish"} => pc'[u] = pc[u]
    BY <1>1
<1>3. \A u \in Writers : pc[u] = "publish" => pc'[u] = "publish"
    BY <1>1 DEF LockPCs
<1>4. UNCHANGED list
    BY IterationFacts
<1> QED
    BY <1>2, <1>3, <1>4, QuietShape

LEMMA IterationKeepsWalks ==
    ASSUME Types, Control, Types', Control', Shape, Unreached, Walks, NEW t \in Threads, IterationStep(t)
    PROVE  Walks' /\ Unreached'
<1> USE ListAssumption
<1>1. UNCHANGED <<allocated, node, head, tail, free, Links, Prevs, L, F>>
    BY IterationFacts, SameList
<1>2. \A u \in Threads \ {t} : cur'[u] = cur[u] /\ (Reading(u)' <=> Reading(u))
    BY IterationFacts
<1>3. Reading(t)' => cur'[t] = NULL \/ (Reading(t) /\ cur'[t] = Following(t))
    BY IterationFacts
<1>4. Reading(t)' => /\ From(Links, cur'[t]) \subseteq allocated /\ Stops(Links, cur'[t])
                     /\ Reading(t) => From(Links, cur'[t]) \subseteq From(Links, cur[t]) \cup L
                     /\ ~Reading(t) => From(Links, cur'[t]) = {}
    BY <1>3, FromNull, IterationMoves DEF Shape
<1>5. Walks'
    BY <1>1, <1>2, <1>4 DEF Walks
<1>6. ASSUME NEW w \in Writers, pc'[w] = "delete", NEW u \in Threads, Reading(u)'
      PROVE  cur'[w] \notin From(Links', cur'[u])
    <2>1. pc[w] = "delete" /\ cur'[w] = cur[w]
        BY <1>6, IterationFacts DEF LockPCs, Threads
    <2>2. cur[w] \notin L
        BY <2>1 DEF Shape, Apart, LockPCs
    <2>3. \A v \in Threads : Reading(v) => cur[w] \notin From(Links, cur[v])
        BY <2>1 DEF Unreached
    <2> QED
        BY <1>1, <1>2, <1>4, <1>6, <2>1, <2>2, <2>3
<1>7. Unreached'
    BY <1>6 DEF Unreached
<1> QED
    BY <1>5, <1>7

\* A reader starts with the whole list ahead of it, and what it steps on it
\* has come by.
LEMMA IterationKeepsViews ==
    ASSUME Types, Control, Types', Control', Shape, Views, NEW t \in Threads, IterationStep(t)
    PROVE  Views'
<1> USE ListAssumption
<1>1. UNCHANGED <<allocated, node, head, tail, free, Links, Prevs, L, F>>
    BY IterationFacts, SameList
<1>2. Links \in NextMaps /\ head \in OrNULL
    BY MapTypes DEF Types
<1>3. CASE t \in Writers
    <2>1. UNCHANGED <<unseen, lost>> /\ \A r \in Readers : pc'[r] = pc[r] /\ cur'[r] = cur[r]
        BY <1>3, IterationFacts DEF IterationStep, StartSearch, SearchNext, SearchEnds, seen, Threads
    <2> QED
        BY <1>1, <2>1 DEF Views, Ahead
<1>4. CASE t \in Readers
    <2>1. \A r \in Readers \ {t} : pc'[r] = pc[r] /\ cur'[r] = cur[r] /\ unseen'[r] = unseen[r] /\ (r \in lost' <=> r \in lost)
        BY <1>4, IterationFacts DEF IterationStep, ReaderStarts, ReaderNext, ReaderStops, Types, Threads
    <2>2. CASE ReaderStarts(t)
        <3>1. pc'[t] = "next" /\ cur'[t] = NULL /\ unseen'[t] = L
            BY <1>4, <2>2, ChainIsFrom DEF ReaderStarts, StartReading, Goto, Types, L
        <3>2. unseen'[t] \subseteq From(Links', Ahead(t)')
            BY <1>1, <3>1 DEF Ahead, L
        <3> QED
            BY <1>1, <2>1, <3>1, <3>2 DEF Views, Ahead
    <2>3. CASE ReaderStops(t)
        <3>1. pc'[t] = "idle"
            BY <2>3 DEF ReaderStops, StopReading, Goto, Types
        <3> QED
            BY <1>1, <2>1, <3>1 DEF Views, Ahead
    <2>4. CASE ReaderNext(t)
        <3> DEFINE f == Following(t)
        <3>1. /\ pc[t] = "next" /\ cur'[t] = f /\ unseen'[t] = unseen[t] \ {f} /\ lost' = lost
              /\ pc'[t] = IF f = NULL THEN "done" ELSE "next"
            BY <1>4, <2>4 DEF ReaderNext, Goto, Types
        <3>2. f = Ahead(t) /\ f \in OrNULL
            BY FollowingIsAhead DEF Ahead
        <3> HIDE DEF f
        <3>3. ASSUME t \notin lost
              PROVE  unseen[t] \subseteq From(Links, f) /\ cur[t] \in L \cup {NULL}
            BY <1>4, <3>1, <3>2, <3>3 DEF Views
        <3>4. CASE f = NULL
            <4>1. t \notin lost => unseen'[t] = {}
                BY <3>1, <3>3, <3>4, FromNull
            <4> QED
                BY <1>1, <2>1, <3>1, <3>4, <4>1 DEF Views, Ahead
        <3>5. CASE f # NULL
            <4>1. f \in Nodes /\ From(Links, f) = {f} \cup From(Links, Links[f])
                BY <1>2, <3>2, <3>5, FromStep DEF OrNULL
            <4>2. t \notin lost => f \in L
                BY <3>2, <3>3, <3>5, OnTheList DEF Shape, Ahead
            <4>3. t \notin lost => unseen'[t] \subseteq From(Links', Ahead(t)')
                BY <1>1, <3>1, <3>3, <3>5, <4>1 DEF Ahead
            <4> QED
                BY <1>1, <2>1, <3>1, <3>5, <4>2, <4>3 DEF Views, Ahead
        <3> QED
            BY <3>4, <3>5
    <2> QED
        BY <1>4, <2>2, <2>3, <2>4 DEF IterationStep
<1> QED
    BY <1>3, <1>4 DEF Threads

LEMMA IterationKeepsSound ==
    ASSUME Types, Control, Types', Control', Sound, NEW t \in Threads, IterationStep(t)
    PROVE  Sound'
BY IterationKeepsShape, IterationKeepsWalks, IterationKeepsViews DEF Sound

\* Steps that change neither the list nor an iteration.
QuietStep(w) == InsertEnds(w) \/ Compare(w) \/ StartRemoveNode(w) \/ UnlinkNotFound(w) \/ CheckReaders(w)

LEMMA QuietStepKeepsSound ==
    ASSUME Types, Control, Types', Control', Count, Sound, NEW w \in Writers, QuietStep(w)
    PROVE  Sound'
<1> USE ListAssumption
<1>1. w \in Threads
    BY DEF Threads
<1>2. UNCHANGED list /\ SameReaders /\ seen' = seen
    <2>1. SameReaders
        BY InsertKeepsReaders, RemoveKeepsReaders DEF QuietStep, InsertStep, RemoveStep
    <2>2. UNCHANGED list /\ seen' = seen
        BY DEF QuietStep, InsertEnds, Compare, StartRemoveNode, UnlinkNotFound, CheckReaders
    <2> QED
        BY <2>1, <2>2
<1>3. UNCHANGED <<allocated, node, head, tail, free, Links, Prevs, L, F>>
    BY <1>2, SameList
<1>4. \A u \in Writers \ {w} : pc'[u] = pc[u] /\ cur'[u] = cur[u]
    <2>1. (\E n : cur' = [cur EXCEPT ![w] = n]) \/ cur' = cur
        BY DEF QuietStep, InsertEnds, Compare, StartRemoveNode, UnlinkNotFound, Removed, CheckReaders
    <2>2. \E to : pc' = [pc EXCEPT ![w] = to]
        BY DEF QuietStep, InsertEnds, Compare, StartRemoveNode, UnlinkNotFound, Removed, CheckReaders, Goto
    <2> QED
        BY <1>1, <2>1, <2>2 DEF Types, Threads
<1>5. \/ pc[w] # "publish" /\ pc'[w] \notin LockPCs
      \/ pc[w] = "release" /\ pc'[w] \in {"recycle", "delete"} /\ cur'[w] = cur[w]
    <2>1. CASE InsertEnds(w)
        BY <1>1, <2>1 DEF InsertEnds, Goto, Types, LockPCs
    <2>2. CASE Compare(w)
        BY <1>1, <2>2 DEF Compare, Goto, Types, LockPCs
    <2>3. CASE StartRemoveNode(w)
        BY <1>1, <2>3 DEF StartRemoveNode, Goto, Types, LockPCs
    <2>4. CASE UnlinkNotFound(w)
        <3>1. writeLock' = NULL
            BY <2>4 DEF UnlinkNotFound, Removed
        <3> QED
            BY <2>4, <3>1 DEF UnlinkNotFound, Control
    <2>5. CASE CheckReaders(w)
        BY <1>1, <2>5 DEF CheckReaders, Goto, Types
    <2> QED
        BY <2>1, <2>2, <2>3, <2>4, <2>5 DEF QuietStep
<1>6. Shape'
    BY <1>2, <1>4, <1>5, QuietShape DEF Sound, LockPCs
<1>7. Walks'
    BY <1>2, <1>3, SameLinksWalks DEF Sound
<1>8. Views'
    BY <1>2, <1>3, KeptViews DEF Sound, Shape
<1>9. Unreached'
    <2>1. CASE CheckReaders(w)
        <3>1. CASE refcount > 0
            <4>1. pc'[w] # "delete" /\ writeLock' = w
                BY <1>1, <2>1, <3>1 DEF CheckReaders, Goto, Types, Control, LockPCs
            <4> QED
                BY <4>1, NobodyDeletes
        <3>2. CASE ~(refcount > 0)
            <4>1. refcount = 0
                BY <3>2, ThreadsFinite, FS_CardinalityType DEF Count
            <4>2. ReadingThreads = {}
                BY <4>1, ThreadsFinite, FS_EmptySet DEF Count
            <4>3. \A t \in Threads : ~Reading(t)'
                BY <1>2, <4>2 DEF SameReaders, ReadingThreads
            <4> QED
                BY <4>3 DEF Unreached
        <3> QED
            BY <3>1, <3>2
    <2>2. CASE ~CheckReaders(w)
        <3>1. ASSUME NEW u \in Writers, pc'[u] = "delete"
              PROVE  pc[u] = "delete" /\ cur'[u] = cur[u]
            <4>1. u # w
                BY <1>5, <2>2, <3>1 DEF QuietStep, InsertEnds, Compare, StartRemoveNode, UnlinkNotFound, LockPCs
            <4> QED
                BY <1>4, <3>1, <4>1
        <3> QED
            BY <1>2, <1>3, <3>1 DEF Sound, Unreached, SameReaders
    <2> QED
        BY <2>1, <2>2
<1> QED
    BY <1>6, <1>7, <1>8, <1>9 DEF Sound

----------------------------------------------------------------------------
(* Insertion.                                                              *)

LEMMA KeptDoublyLinked ==
    ASSUME Types, Types', Heap, DoublyLinked, head' = head, tail' = tail,
           \A k \in L : Links'[k] = Links[k] /\ Prevs'[k] = Prevs[k],
           \A u \in Writers : pc[u] # "publish"
    PROVE  DoublyLinked'
<1>1. L' = L
    BY KeptList
<1>2. \A n \in L : Links[n] \in L \cup {NULL}
    BY OnTheList
<1>3. head # NULL => head \in L
    BY OnTheList
<1> QED
    BY <1>1, <1>2, <1>3 DEF DoublyLinked

\* The node that an insertion starts with, by what it was and by what it is.
LEMMA TakenNode ==
    ASSUME Types, Types', Heap, NEW w \in Writers, StartInsert(w)
    PROVE  /\ \E n \in Nodes :
              /\ n \notin L /\ cur'[w] = n /\ allocated' = allocated \cup {n}
              /\ Links' = [Links EXCEPT ![n] = NULL] /\ Prevs' = [Prevs EXCEPT ![n] = NULL]
              /\ \/ free' = NULL
                 \/ free' = free /\ n \notin F
           /\ UNCHANGED <<head, tail, seen>>
           /\ pc'[w] \in {"prepend", "append"} /\ writeLock = NULL /\ writeLock' = w
<1> USE ListAssumption
<1>1. w \in Threads
    BY DEF Threads
<1>2. PICK v \in Values : TakeNode(w, v)
    BY DEF StartInsert
<1>3. /\ UNCHANGED <<head, tail, seen>>
      /\ pc'[w] \in {"prepend", "append"} /\ writeLock = NULL /\ writeLock' = w
    BY <1>1 DEF StartInsert, Goto, Lock, Types
<1>4. ASSUME NEW n \in Nodes, node' = [node EXCEPT ![n] = Fresh(v)]
      PROVE  Links' = [Links EXCEPT ![n] = NULL] /\ Prevs' = [Prevs EXCEPT ![n] = NULL] /\ node'[n].next = NULL
    BY <1>4 DEF Types, Fresh, Links, Prevs
<1>5. CASE free # NULL
    <2>1. free \in Nodes /\ free \in F /\ free \in allocated /\ free \notin L
        BY <1>5, FromStart DEF Types, OrNULL, F, Heap
    <2>2. node' = [node EXCEPT ![free] = Fresh(v)] /\ free' = node'[free].next /\ cur'[w] = free /\ allocated' = allocated
        BY <1>1, <1>2, <1>5 DEF TakeNode, Types
    <2>3. free' = NULL /\ Links' = [Links EXCEPT ![free] = NULL] /\ Prevs' = [Prevs EXCEPT ![free] = NULL]
        BY <1>4, <2>1, <2>2
    <2> QED
        BY <1>3, <2>1, <2>2, <2>3
<1>6. CASE free = NULL
    <2>1. PICK n \in Nodes \ allocated : /\ node' = [node EXCEPT ![n] = Fresh(v)] /\ allocated' = allocated \cup {n}
                                         /\ cur' = [cur EXCEPT ![w] = n] /\ free' = free
        BY <1>2, <1>6 DEF TakeNode
    <2>2. Links' = [Links EXCEPT ![n] = NULL] /\ Prevs' = [Prevs EXCEPT ![n] = NULL]
        BY <1>4, <2>1
    <2>3. cur'[w] = n /\ n \notin L /\ n \notin F
        BY <1>1, <2>1 DEF Types, Heap
    <2> QED
        BY <1>3, <2>1, <2>2, <2>3
<1> QED
    BY <1>5, <1>6

LEMMA StartInsertKeepsSound ==
    ASSUME Types, Control, Types', Control', Sound, NEW w \in Writers, StartInsert(w)
    PROVE  Sound'
<1> USE ListAssumption
<1>1. PICK n \in Nodes :
          /\ n \notin L /\ cur'[w] = n /\ allocated' = allocated \cup {n}
          /\ Links' = [Links EXCEPT ![n] = NULL] /\ Prevs' = [Prevs EXCEPT ![n] = NULL]
          /\ \/ free' = NULL
             \/ free' = free /\ n \notin F
    BY TakenNode DEF Sound, Shape
<1>2. /\ UNCHANGED <<head, tail, seen>>
      /\ pc'[w] \in {"prepend", "append"} /\ writeLock = NULL /\ writeLock' = w
    BY TakenNode DEF Sound, Shape
<1>3. Heap /\ DoublyLinked
    BY DEF Sound, Shape
<1>4. /\ Links \in NextMaps /\ Links'[n] = NULL /\ Prevs'[n] = NULL
      /\ \A k \in Nodes \ {n} : Links'[k] = Links[k] /\ Prevs'[k] = Prevs[k]
    BY <1>1, MapTypes DEF NextMaps
<1>5. \A k \in L : Links'[k] = Links[k] /\ Prevs'[k] = Prevs[k]
    BY <1>1, <1>3, <1>4, OnTheList
<1>6. L' = L /\ Stops(Links', head')
    BY <1>2, <1>3, <1>5, KeptList
<1>7. F' \subseteq F /\ n \notin F' /\ Stops(Links', free')
    <2>1. CASE free' = NULL
        BY <2>1, FromNull DEF F
    <2>2. CASE free' = free /\ n \notin F
        <3>1. \A k \in F : Links'[k] = Links[k]
            BY <1>3, <1>4, <2>2, OnTheList
        <3> QED
            BY <1>3, <2>2, <3>1, KeptFree
    <2> QED
        BY <1>1, <2>1, <2>2
<1>8. Heap'
    BY <1>1, <1>3, <1>6, <1>7 DEF Heap
<1>9. DoublyLinked'
    <2>1. \A u \in Writers : pc[u] # "publish"
        BY <1>2 DEF Control, LockPCs
    <2> QED
        BY <1>2, <1>3, <1>5, <2>1, KeptDoublyLinked
<1>10. Apart'
    BY <1>1, <1>2, <1>4, <1>6, <1>7, OneHolderNext DEF Apart
<1>11. SameReaders
    BY InsertKeepsReaders DEF InsertStep
<1>12. Walks'
    BY <1>1, <1>4, <1>11, FromNull, OneLink DEF Sound
<1>13. Views'
    BY <1>2, <1>3, <1>5, <1>11, KeptViews DEF Sound
<1>14. Unreached'
    BY <1>2, NobodyDeletes
<1> QED
    BY <1>8, <1>9, <1>10, <1>12, <1>13, <1>14 DEF Sound, Shape

\* The lock's holder with a node to insert.
LEMMA Inserting ==
    ASSUME Types, Control, Shape, NEW w \in Writers, pc[w] \in {"prepend", "append", "publish"}
    PROVE  /\ cur[w] \in Nodes /\ cur[w] \in allocated /\ cur[w] \notin L /\ cur[w] \notin F /\ Prevs[cur[w]] = NULL
           /\ writeLock = w /\ \A u \in Writers \ {w} : pc[u] \notin LockPCs
           /\ pc[w] \in {"prepend", "append"} => Links[cur[w]] = NULL
           /\ pc[w] = "publish" => head # NULL /\ Prevs[head] = cur[w] /\ Links[cur[w]] = head
BY ListAssumption DEF Types, Control, Shape, Apart, LockPCs

LEMMA InsertFirstKeepsSound ==
    ASSUME Types, Control, Types', Control', Sound, NEW w \in Writers, InsertFirst(w)
    PROVE  Sound'
<1> USE ListAssumption
<1> DEFINE c == cur[w]
<1>1. c \in Nodes /\ c \in allocated /\ c \notin F /\ Prevs[c] = NULL /\ Links[c] = NULL /\ writeLock = w
    BY Inserting DEF InsertFirst, Sound
<1>2. w \in Threads /\ Heap /\ DoublyLinked
    BY DEF Threads, Sound, Shape
<1>3. head = NULL /\ L = {}
    BY <1>2, OnTheList DEF InsertFirst, DoublyLinked
<1>4. /\ head' = c /\ tail' = c /\ pc'[w] = "unlock" /\ writeLock' = w
      /\ UNCHANGED <<allocated, node, free, Links, Prevs, F, seen>>
    BY <1>1, <1>2, <1>3 DEF InsertFirst, Goto, Types, Links, Prevs, F
<1>5. Links \in NextMaps
    BY MapTypes
<1> HIDE DEF c
<1>6. L' = {c} /\ Stops(Links', head')
    <2>1. From(Links, c) = {c} /\ Stops(Links, c)
        BY <1>1, <1>5, FromStep, StopsStep, FromNull
    <2> QED
        BY <1>4, <2>1 DEF L
<1>7. Heap'
    BY <1>1, <1>2, <1>4, <1>6 DEF Heap
<1>8. DoublyLinked'
    BY <1>1, <1>4, <1>6 DEF DoublyLinked
<1>9. Apart'
    BY <1>4, OneHolderNext DEF Apart
<1>10. SameReaders
    BY InsertKeepsReaders DEF InsertStep
<1>11. Walks'
    BY <1>4, <1>10, SameLinksWalks DEF Sound
<1>12. Unreached'
    BY <1>4, NobodyDeletes
<1>13. Views'
    <2>1. ASSUME NEW r \in Readers, r \notin lost, pc[r] = "next"
          PROVE  unseen[r] = {} /\ cur[r] = NULL
        <3>1. unseen[r] \subseteq From(Links, Ahead(r)) /\ cur[r] = NULL
            BY <1>3, <2>1 DEF Sound, Views
        <3> QED
            BY <1>3, <3>1, FromNull DEF Ahead
    <2> QED
        BY <1>4, <1>10, <2>1 DEF Sound, Views, SameReaders, seen
<1> QED
    BY <1>7, <1>8, <1>9, <1>11, <1>12, <1>13 DEF Sound, Shape

LEMMA PrependLinkKeepsSound ==
    ASSUME Types, Control, Types', Control', Sound, NEW w \in Writers, PrependLink(w)
    PROVE  Sound'
<1> USE ListAssumption
<1> DEFINE c == cur[w]
<1>1. /\ c \in Nodes /\ c \in allocated /\ c \notin L /\ c \notin F /\ Prevs[c] = NULL /\ writeLock = w
      /\ \A u \in Writers \ {w} : pc[u] \notin LockPCs
    BY Inserting DEF PrependLink, Sound
<1>2. w \in Threads /\ Heap /\ DoublyLinked
    BY DEF Threads, Sound, Shape
<1>3. head # NULL /\ head \in L /\ head \in Nodes
    BY <1>2, OnTheList DEF PrependLink, DoublyLinked
<1>4. /\ pc'[w] = "publish" /\ writeLock' = w /\ cur'[w] = c
      /\ UNCHANGED <<allocated, head, tail, free, seen>>
    BY <1>1, <1>2 DEF PrependLink, Goto, Types
<1>5. /\ Links'[c] = head /\ \A k \in Nodes \ {c} : Links'[k] = Links[k]
      /\ Prevs'[head] = c /\ \A k \in Nodes \ {head} : Prevs'[k] = Prevs[k]
    <2>1. node' = [node EXCEPT ![c].next = head, ![head].prev = c] /\ c # head
        BY <1>1, <1>3 DEF PrependLink
    <2> QED
        BY <1>1, <1>3, <2>1 DEF Types, Cell, Links, Prevs
<1> HIDE DEF c
<1>6. (\A k \in L : Links'[k] = Links[k]) /\ (\A k \in F : Links'[k] = Links[k])
    BY <1>1, <1>2, <1>5, OnTheList
<1>7. /\ L' = L /\ Stops(Links', head') /\ F' = F /\ Stops(Links', free')
      /\ From(Links', head) = L
    <2>1. From(Links, head) = L
        BY DEF L
    <2> QED
        BY <1>2, <1>3, <1>4, <1>6, <2>1, KeptList, KeptFree
<1>8. Heap'
    BY <1>2, <1>4, <1>7 DEF Heap
<1>9. DoublyLinked'
    <2>1. \A n \in L : Links[n] # head /\ Links[n] \in L \cup {NULL} /\ n \in Nodes
        BY <1>2, OnTheList
    <2>2. \A n \in L : Links[n] # NULL => Prevs'[Links[n]] = n
        BY <1>2, <1>5, <2>1, OnTheList DEF DoublyLinked
    <2>3. ~\A u \in Writers : pc'[u] # "publish"
        BY <1>4
    <2> QED
        BY <1>2, <1>3, <1>4, <1>6, <1>7, <2>2, <2>3 DEF DoublyLinked
<1>10. Apart'
    <2>1. Prevs'[c] = NULL
        BY <1>1, <1>3, <1>5
    <2> QED
        BY <1>1, <1>3, <1>4, <1>5, <1>7, <2>1, OneHolderNext DEF Apart, LockPCs
<1>11. SameReaders
    BY InsertKeepsReaders DEF InsertStep
<1>12. Walks'
    BY <1>1, <1>2, <1>4, <1>5, <1>7, <1>11, OneLink DEF Sound, Heap
<1>13. Unreached'
    BY <1>4, NobodyDeletes
<1>14. Views'
    BY <1>2, <1>4, <1>6, <1>11, KeptViews DEF Sound
<1> QED
    BY <1>8, <1>9, <1>10, <1>12, <1>13, <1>14 DEF Sound, Shape

LEMMA PrependPublishKeepsSound ==
    ASSUME Types, Control, Types', Control', Sound, NEW w \in Writers, PrependPublish(w)
    PROVE  Sound'
<1> USE ListAssumption
<1> DEFINE c == cur[w]
<1>1. /\ c \in Nodes /\ c \in allocated /\ c \notin L /\ c \notin F /\ Prevs[c] = NULL /\ writeLock = w
      /\ head # NULL /\ Prevs[head] = c /\ Links[c] = head
    BY Inserting DEF PrependPublish, Sound
<1>2. w \in Threads /\ Heap /\ DoublyLinked /\ Links \in NextMaps
    BY MapTypes DEF Threads, Sound, Shape
<1>3. /\ head' = c /\ pc'[w] = "unlock" /\ writeLock' = w
      /\ UNCHANGED <<allocated, node, tail, free, Links, Prevs, F, seen>>
    BY <1>1, <1>2 DEF PrependPublish, Goto, Types, Links, Prevs, F
<1> HIDE DEF c
<1>4. L' = {c} \cup L /\ Stops(Links', head')
    <2>1. From(Links, c) = {c} \cup From(Links, head) /\ Stops(Links, c)
        BY <1>1, <1>2, FromStep, StopsStep DEF Heap
    <2> QED
        BY <1>3, <2>1 DEF L
<1>5. Heap'
    BY <1>1, <1>2, <1>3, <1>4 DEF Heap
<1>6. DoublyLinked'
    <2>1. tail # c /\ tail # NULL
        BY <1>1, <1>2, OnTheList DEF DoublyLinked
    <2> QED
        BY <1>1, <1>2, <1>3, <1>4, <2>1 DEF DoublyLinked
<1>7. Apart'
    BY <1>3, OneHolderNext DEF Apart
<1>8. SameReaders
    BY InsertKeepsReaders DEF InsertStep
<1>9. Walks'
    BY <1>3, <1>8, SameLinksWalks DEF Sound
<1>10. Unreached'
    BY <1>3, NobodyDeletes
<1>11. Views'
    <2>1. From(Links, head) = L /\ From(Links, head') = L'
        BY <1>3 DEF L
    <2>2. ASSUME NEW r \in Readers, r \notin lost, pc[r] = "next"
          PROVE  unseen[r] \subseteq From(Links', Ahead(r)') /\ cur[r] \in L' \cup {NULL}
        <3>1. unseen[r] \subseteq From(Links, Ahead(r)) /\ cur[r] \in L \cup {NULL} /\ cur'[r] = cur[r]
            BY <1>8, <2>2 DEF Sound, Views, SameReaders
        <3> QED
            BY <1>3, <1>4, <2>1, <3>1 DEF Ahead
    <2> QED
        BY <1>3, <1>8, <2>2 DEF Sound, Views, SameReaders, seen
<1> QED
    BY <1>5, <1>6, <1>7, <1>9, <1>10, <1>11 DEF Sound, Shape

LEMMA AppendPublishKeepsSound ==
    ASSUME Types, Control, Types', Control', Sound, NEW w \in Writers, AppendPublish(w)
    PROVE  Sound'
<1> USE ListAssumption
<1> DEFINE c == cur[w]
<1>1. /\ c \in Nodes /\ c \in allocated /\ c \notin L /\ c \notin F /\ Prevs[c] = NULL /\ Links[c] = NULL
      /\ writeLock = w /\ \A u \in Writers \ {w} : pc[u] \notin LockPCs
    BY Inserting DEF AppendPublish, Sound
<1>2. w \in Threads /\ Heap /\ DoublyLinked /\ Links \in NextMaps /\ Links' \in NextMaps
    BY MapTypes, NextMapTypes DEF Threads, Sound, Shape
<1>3. head # NULL /\ head \in L /\ tail \in L /\ tail \in Nodes /\ Links[tail] = NULL /\ tail # c
    BY <1>1, <1>2, OnTheList DEF AppendPublish, DoublyLinked
<1>4. /\ tail' = c /\ pc'[w] = "unlock" /\ writeLock' = w
      /\ UNCHANGED <<allocated, head, free, seen>>
    BY <1>1, <1>2 DEF AppendPublish, Goto, Types
<1>5. /\ Links'[tail] = c /\ \A k \in Nodes \ {tail} : Links'[k] = Links[k]
      /\ Prevs'[c] = tail /\ \A k \in Nodes \ {c} : Prevs'[k] = Prevs[k]
    <2>1. node[tail].next = NULL
        BY <1>3, MapTypes
    <2>2. node' = [node EXCEPT ![tail].next = c, ![c].prev = tail]
        BY <2>1 DEF AppendPublish
    <2> QED
        BY <1>1, <1>3, <2>2 DEF Types, Cell, Links, Prevs
<1> HIDE DEF c
<1>6. From(Links', c) = {c} /\ Stops(Links', c)
    <2>1. Links'[c] = NULL
        BY <1>1, <1>3, <1>5
    <2> QED
        BY <1>1, <1>2, <2>1, FromStep, StopsStep, FromNull
<1>7. \A n \in OrNULL : From(Links, n) \subseteq From(Links', n)
    BY <1>2, <1>3, <1>5, FromGrows
<1>8. L' = L \cup {c} /\ Stops(Links', head')
    <2>1. head \in OrNULL
        BY DEF Types
    <2>2. From(Links', head) \subseteq L \cup {c}
        BY <1>2, <1>3, <1>5, <1>6, <2>1, FromRedirected DEF L
    <2>3. L \subseteq From(Links', head)
        BY <1>7, <2>1 DEF L
    <2>4. c \in From(Links', head)
        BY <1>1, <1>2, <1>3, <1>5, <2>3, FromClosed DEF ClosedIn
    <2>5. Stops(Links', head)
        BY <1>2, <1>3, <1>5, <1>6, <2>1, StopsRedirected DEF Heap
    <2> QED
        BY <1>4, <2>2, <2>3, <2>4, <2>5 DEF L
<1>9. F' = F /\ Stops(Links', free')
    <2>1. \A k \in F : Links'[k] = Links[k]
        BY <1>2, <1>3, <1>5, OnTheList DEF Heap
    <2> QED
        BY <1>2, <1>4, <2>1, KeptFree
<1>10. Heap'
    BY <1>1, <1>2, <1>4, <1>8, <1>9 DEF Heap
<1>11. DoublyLinked'
    <2>1. \A n \in L : Links[n] \in L \cup {NULL} /\ n \in Nodes
        BY <1>2, OnTheList
    <2>2. ASSUME NEW n \in L \ {tail}
          PROVE  Links'[n] # NULL /\ n # c /\ Prevs'[Links'[n]] = n
        BY <1>1, <1>2, <1>5, <2>1, OnTheList DEF DoublyLinked
    <2>3. Links'[c] = NULL
        BY <1>1, <1>3, <1>5
    <2>4. \A n \in L' : (Links'[n] = NULL <=> n = tail') /\ (Links'[n] # NULL => Prevs'[Links'[n]] = n)
        BY <1>1, <1>3, <1>4, <1>5, <1>8, <2>2, <2>3
    <2>5. Prevs'[head] = NULL
        <3>1. \A u \in Writers : pc[u] # "publish"
            BY <1>1 DEF AppendPublish, LockPCs
        <3>2. Prevs[head] = NULL
            BY <1>2, <1>3, <3>1 DEF DoublyLinked
        <3> QED
            BY <1>1, <1>3, <1>5, <3>2, <2>1
    <2> QED
        BY <1>1, <1>3, <1>4, <2>4, <2>5 DEF DoublyLinked
<1>12. Apart'
    BY <1>4, OneHolderNext DEF Apart
<1>13. SameReaders
    BY InsertKeepsReaders DEF InsertStep
<1>14. Walks'
    BY <1>1, <1>3, <1>4, <1>5, <1>6, <1>13, OneLink DEF Sound
<1>15. Unreached'
    BY <1>4, NobodyDeletes
<1>16. Views'
    <2>1. ASSUME NEW r \in Readers, r \notin lost, pc[r] = "next"
          PROVE  unseen[r] \subseteq From(Links', Ahead(r)') /\ cur[r] \in L' \cup {NULL}
        <3>1. unseen[r] \subseteq From(Links, Ahead(r)) /\ cur[r] \in L \cup {NULL} /\ cur'[r] = cur[r]
            BY <1>13, <2>1 DEF Sound, Views, SameReaders
        <3>2. CASE cur[r] = tail
            <4>1. Ahead(r) = NULL
                BY <1>3, <3>2 DEF Ahead
            <4> QED
                BY <1>8, <3>1, <4>1, FromNull
        <3>3. CASE cur[r] # tail
            <4>1. Ahead(r)' = Ahead(r) /\ Ahead(r) \in OrNULL
                BY <1>2, <1>4, <1>5, <3>1, <3>3, OnTheList DEF Ahead, OrNULL
            <4> QED
                BY <1>7, <1>8, <3>1, <4>1
        <3> QED
            BY <3>2, <3>3
    <2> QED
        BY <1>4, <1>13, <2>1 DEF Sound, Views, SameReaders, seen
<1> QED
    BY <1>10, <1>11, <1>12, <1>14, <1>15, <1>16 DEF Sound, Shape

----------------------------------------------------------------------------
(* Removal.                                                                *)

\* The lock's holder with a node it took out.
LEMMA Removing ==
    ASSUME Types, Control, Shape, NEW w \in Writers, pc[w] \in {"recycle", "delete"}
    PROVE  /\ cur[w] \in Nodes /\ cur[w] \in allocated /\ cur[w] \notin L /\ cur[w] \notin F
           /\ writeLock = w /\ \A u \in Writers \ {w} : pc[u] \notin LockPCs
           /\ \A u \in Writers : pc[u] # "publish"
BY ListAssumption DEF Types, Control, Shape, Apart, LockPCs

\* What becomes of a thread when nasync_remove_node returns.
LEMMA RemovedFacts ==
    ASSUME Types, Control, NEW w \in Writers, pc[w] \in {"recycle", "delete"}, Removed(w)
    PROVE  writeLock' = NULL /\ pc'[w] \notin LockPCs
<1>1. w \in Threads /\ op[w] \in {"remove_first", "reset", "remove_node"} /\ writeLock' = NULL
    BY DEF Threads, Types, Control, Removed
<1>2. pc'[w] \in {"searched", "search", "idle"}
    BY <1>1 DEF Removed, Goto, Types
<1> QED
    BY <1>1, <1>2 DEF LockPCs

LEMMA RecycleKeepsSound ==
    ASSUME Types, Control, Types', Control', Sound, NEW w \in Writers, Recycle(w)
    PROVE  Sound'
<1> USE ListAssumption
<1> DEFINE c == cur[w]
<1>1. /\ c \in Nodes /\ c \in allocated /\ c \notin L /\ c \notin F
      /\ \A u \in Writers : pc[u] # "publish"
    BY Removing DEF Recycle, Sound
<1>2. Heap /\ DoublyLinked /\ Links \in NextMaps /\ Links' \in NextMaps
    BY MapTypes, NextMapTypes DEF Sound, Shape
<1>3. /\ free' = c /\ writeLock' = NULL /\ pc'[w] \notin LockPCs
      /\ UNCHANGED <<allocated, head, tail, seen>>
    BY RemovedFacts DEF Recycle
<1>4. /\ Links'[c] = free /\ \A k \in Nodes \ {c} : Links'[k] = Links[k]
      /\ \A k \in Nodes \ {c, free} : Prevs'[k] = Prevs[k]
    BY <1>1 DEF Recycle, Types, Cell, Links, Prevs
<1> HIDE DEF c
<1>5. (\A k \in L : Links'[k] = Links[k] /\ Prevs'[k] = Prevs[k]) /\ (\A k \in F : Links'[k] = Links[k])
    BY <1>1, <1>2, <1>4, OnTheList DEF Heap
<1>6. L' = L /\ Stops(Links', head')
    BY <1>2, <1>3, <1>5, KeptList
<1>7. From(Links', free) = F /\ Stops(Links', free)
    <2>1. \A k \in From(Links, free) : Links'[k] = Links[k]
        BY <1>5 DEF F
    <2> QED
        BY <1>2, <2>1, FromSame DEF Types, Heap, F
<1>8. F' = {c} \cup F /\ Stops(Links', free')
    BY <1>1, <1>2, <1>3, <1>4, <1>7, FromStep, StopsStep DEF F
<1>9. Heap'
    BY <1>1, <1>2, <1>3, <1>6, <1>8 DEF Heap
<1>10. DoublyLinked'
    BY <1>1, <1>2, <1>3, <1>5, KeptDoublyLinked
<1>11. Apart'
    BY <1>3, OneHolderNext DEF Apart
<1>12. SameReaders
    BY RemoveKeepsReaders DEF RemoveStep
<1>13. Walks'
    BY <1>1, <1>2, <1>3, <1>4, <1>7, <1>12, OneLink DEF Sound, Heap
<1>14. Unreached'
    BY <1>3, NobodyDeletes DEF LockPCs
<1>15. Views'
    BY <1>2, <1>3, <1>5, <1>12, KeptViews DEF Sound
<1> QED
    BY <1>9, <1>10, <1>11, <1>13, <1>14, <1>15 DEF Sound, Shape

LEMMA DeleteKeepsSound ==
    ASSUME Types, Control, Types', Control', Sound, NEW w \in Writers, Delete(w)
    PROVE  Sound'
<1> USE ListAssumption
<1> DEFINE c == cur[w]
<1>1. /\ c \in Nodes /\ c \in allocated /\ c \notin L /\ c \notin F
      /\ \A u \in Writers : pc[u] # "publish"
    BY Removing DEF Delete, Sound
<1>2. Heap /\ DoublyLinked /\ Links \in NextMaps /\ Links' \in NextMaps
    BY MapTypes, NextMapTypes DEF Sound, Shape
<1>3. /\ allocated' = allocated \ {c} /\ writeLock' = NULL /\ pc'[w] \notin LockPCs
      /\ UNCHANGED <<head, tail, free, seen>>
    BY RemovedFacts DEF Delete
<1>4. \A k \in Nodes \ {c} : Links'[k] = Links[k] /\ Prevs'[k] = Prevs[k]
    BY DEF Delete, Types, Links, Prevs
<1>5. \A t \in Threads : Reading(t) => c \notin From(Links, cur[t])
    BY DEF Sound, Unreached, Delete
<1> HIDE DEF c
<1>6. (\A k \in L : Links'[k] = Links[k] /\ Prevs'[k] = Prevs[k]) /\ (\A k \in F : Links'[k] = Links[k])
    BY <1>1, <1>2, <1>4, OnTheList
<1>7. L' = L /\ Stops(Links', head') /\ F' = F /\ Stops(Links', free')
    BY <1>2, <1>3, <1>6, KeptList, KeptFree
<1>8. Heap'
    BY <1>1, <1>2, <1>3, <1>7 DEF Heap
<1>9. DoublyLinked'
    BY <1>1, <1>2, <1>3, <1>6, KeptDoublyLinked
<1>10. Apart'
    BY <1>3, OneHolderNext DEF Apart
<1>11. SameReaders
    BY RemoveKeepsReaders DEF RemoveStep
<1>12. ASSUME NEW t \in Threads, Reading(t)'
       PROVE  From(Links', cur'[t]) \subseteq allocated' /\ Stops(Links', cur'[t])
    <2>1. Reading(t) /\ cur'[t] = cur[t] /\ cur[t] \in OrNULL
        BY <1>11, <1>12 DEF SameReaders, Types
    <2>2. From(Links, cur[t]) \subseteq allocated /\ Stops(Links, cur[t])
        BY <2>1 DEF Sound, Walks
    <2>3. \A k \in From(Links, cur[t]) : Links'[k] = Links[k]
        BY <1>4, <1>5, <2>1, FromStart
    <2>4. From(Links', cur[t]) = From(Links, cur[t]) /\ Stops(Links', cur[t])
        BY <1>2, <2>1, <2>2, <2>3, FromSame
    <2> QED
        BY <1>3, <1>5, <2>1, <2>2, <2>4
<1>13. Walks'
    BY <1>12 DEF Walks
<1>14. Unreached'
    BY <1>3, NobodyDeletes DEF LockPCs
<1>15. Views'
    BY <1>2, <1>3, <1>6, <1>11, KeptViews DEF Sound
<1> QED
    BY <1>8, <1>9, <1>10, <1>13, <1>14, <1>15 DEF Sound, Shape

\* What an unlinking changes, by whether the node is the head.
LEMMA UnlinkFacts ==
    ASSUME Types, Control, Types', Control', Shape, NEW w \in Writers, Unlink(w), NEW i, i = cur[w]
    PROVE  /\ i \in L /\ i \in Nodes /\ head \in L
           /\ head' = IF i = head THEN Links[i] ELSE head
           /\ tail' = IF Links[i] = NULL THEN Prevs[i] ELSE tail
           /\ \A n \in Nodes : Links'[n] = IF i # head /\ n = Prevs[i] THEN Links[i] ELSE Links[n]
           /\ \A n \in Nodes : Prevs'[n] = IF n = Links[i] THEN Prevs[i] ELSE Prevs[n]
           /\ \A r \in Readers : unseen'[r] = unseen[r] \ {i}
           /\ lost' = lost \cup {r \in Readers : cur[r] = i}
           /\ pc'[w] = "release" /\ cur'[w] = i /\ writeLock' = w /\ writeLock = NULL
           /\ UNCHANGED <<allocated, free>>
           /\ Prevs[head] = NULL
           /\ SameReaders
<1> USE ListAssumption
<1>1. i \in L /\ i \in Nodes /\ w \in Threads
    BY ChainIsFrom DEF Unlink, Chain, L, Threads
<1>2. head \in L
    <2>1. head # NULL
        BY <1>1, OnTheList DEF Shape
    <2> QED
        BY <2>1, OnTheList DEF Shape
<1>3. /\ pc'[w] = "release" /\ cur'[w] = i /\ writeLock' = w /\ writeLock = NULL
      /\ UNCHANGED <<allocated, free>>
      /\ \A r \in Readers : unseen'[r] = unseen[r] \ {i}
      /\ lost' = lost \cup {r \in Readers : cur[r] = i}
    BY <1>1 DEF Unlink, Lock, Goto, Types
<1>4. node[i].next = Links[i] /\ node[i].prev = Prevs[i]
    BY <1>1, MapTypes
<1>5. /\ head' = IF i = head THEN Links[i] ELSE head
      /\ tail' = IF Links[i] = NULL THEN Prevs[i] ELSE tail
    BY <1>4 DEF Unlink
<1>6. ASSUME NEW n \in Nodes
      PROVE  /\ Links'[n] = IF i # head /\ n = Prevs[i] THEN Links[i] ELSE Links[n]
             /\ Prevs'[n] = IF n = Links[i] THEN Prevs[i] ELSE Prevs[n]
    <2>1. node'[n] = [node[n] EXCEPT !.next = IF i # head /\ n = Prevs[i] THEN Links[i] ELSE @,
                                     !.prev = IF n = Links[i] THEN Prevs[i] ELSE @]
        BY <1>4 DEF Unlink
    <2>2. node[n] \in Cell
        BY DEF Types
    <2> QED
        BY <2>1, <2>2, MapTypes, NextMapTypes DEF Cell
<1>7. Prevs[head] = NULL
    <2>1. \A u \in Writers : pc[u] # "publish"
        BY <1>3 DEF Control, LockPCs
    <2>2. head # NULL
        BY <1>2, OnTheList DEF Shape
    <2> QED
        BY <2>1, <2>2 DEF Shape, DoublyLinked
<1>8. SameReaders
    BY RemoveKeepsReaders DEF RemoveStep
<1> QED
    BY <1>1, <1>2, <1>3, <1>5, <1>6, <1>7, <1>8

LEMMA UnlinkHeadKeepsSound ==
    ASSUME Types, Control, Types', Control', Sound, NEW w \in Writers, Unlink(w), cur[w] = head
    PROVE  Sound'
<1> USE ListAssumption
<1> DEFINE a == Links[head]
<1>1. /\ head \in L /\ head \in Nodes /\ Prevs[head] = NULL /\ SameReaders
      /\ head' = a /\ tail' = IF a = NULL THEN NULL ELSE tail
      /\ \A n \in Nodes : Links'[n] = Links[n]
      /\ \A n \in Nodes : Prevs'[n] = IF n = a THEN NULL ELSE Prevs[n]
      /\ \A r \in Readers : unseen'[r] = unseen[r] \ {head}
      /\ lost' = lost \cup {r \in Readers : cur[r] = head}
      /\ pc'[w] = "release" /\ cur'[w] = head /\ writeLock' = w
      /\ UNCHANGED <<allocated, free>>
    BY UnlinkFacts DEF Sound, Shape
<1>2. Heap /\ DoublyLinked /\ Links \in NextMaps /\ a \in OrNULL
    BY <1>1, MapTypes DEF Sound, Shape, NextMaps
<1>3. Links' = Links
    BY <1>1 DEF Links
<1> HIDE DEF a
<1>4. L' = From(Links, a) /\ F' = F
    BY <1>1, <1>3 DEF L, F
<1>5. L = {head} \cup L' /\ head \notin L' /\ Stops(Links, a)
    BY <1>1, <1>2, <1>4, FromStep, NoCycle, StopsStep DEF Heap, L, a
<1>6. Heap'
    BY <1>1, <1>2, <1>3, <1>4, <1>5 DEF Heap
<1>7. DoublyLinked'
    <2>1. ASSUME NEW n \in L'
          PROVE  /\ Links[n] = NULL <=> n = tail'
                 /\ Links[n] # NULL => Prevs'[Links[n]] = n
        <3>1. a # NULL
            BY <1>4, <2>1, FromNull
        <3>2. Links[n] # a
            BY <1>2, <1>4, <1>5, <2>1, <3>1, HeadIsFirst DEF OrNULL
        <3>3. Links[n] \in OrNULL
            BY <1>2, <1>5, <2>1, OnTheList DEF OrNULL
        <3> QED
            BY <1>1, <1>2, <1>5, <2>1, <3>1, <3>2, <3>3 DEF DoublyLinked, OrNULL
    <2>2. head' = NULL <=> tail' = NULL
        BY <1>1, <1>2 DEF DoublyLinked
    <2>3. head' # NULL => Prevs'[head'] = NULL
        BY <1>1, <1>2 DEF OrNULL
    <2> QED
        BY <1>3, <2>1, <2>2, <2>3 DEF DoublyLinked
<1>8. Apart'
    BY <1>1, <1>2, <1>4, <1>5, OneHolderNext DEF Apart, Heap
<1>9. Walks'
    BY <1>1, <1>3, SameLinksWalks DEF Sound
<1>10. Unreached'
    BY <1>1, NobodyDeletes
<1>11. Views'
    <2>1. ASSUME NEW r \in Readers, r \notin lost', pc[r] = "next"
          PROVE  unseen'[r] \subseteq From(Links', Ahead(r)') /\ cur[r] \in L' \cup {NULL}
        <3>1. unseen[r] \subseteq From(Links, Ahead(r)) /\ cur[r] \in L \cup {NULL} /\ cur'[r] = cur[r] /\ cur[r] # head
            BY <1>1, <2>1 DEF Sound, Views, SameReaders
        <3>2. CASE cur[r] = NULL
            BY <1>1, <1>3, <1>4, <1>5, <3>1, <3>2 DEF Ahead, L
        <3>3. CASE cur[r] # NULL
            BY <1>1, <1>3, <1>5, <3>1, <3>3 DEF Ahead
        <3> QED
            BY <3>2, <3>3
    <2>2. ASSUME NEW r \in Readers, r \notin lost', pc[r] = "done"
          PROVE  unseen'[r] = {}
        BY <1>1, <2>2 DEF Sound, Views
    <2> QED
        BY <1>1, <2>1, <2>2 DEF Views, SameReaders
<1> QED
    BY <1>6, <1>7, <1>8, <1>9, <1>10, <1>11 DEF Sound, Shape

LEMMA UnlinkInnerKeepsSound ==
    ASSUME Types, Control, Types', Control', Sound, NEW w \in Writers, Unlink(w), cur[w] # head
    PROVE  Sound'
<1> USE ListAssumption
<1> DEFINE i == cur[w]
           a == Links[i]
           b == Prevs[i]
<1>1. /\ head \in L /\ Prevs[head] = NULL /\ SameReaders /\ i \in L /\ i \in Nodes /\ i # head
      /\ head' = head /\ tail' = IF a = NULL THEN b ELSE tail
      /\ \A n \in Nodes : Links'[n] = IF n = b THEN a ELSE Links[n]
      /\ \A n \in Nodes : Prevs'[n] = IF n = a THEN b ELSE Prevs[n]
      /\ \A r \in Readers : unseen'[r] = unseen[r] \ {i}
      /\ lost' = lost \cup {r \in Readers : cur[r] = i}
      /\ pc'[w] = "release" /\ cur'[w] = i /\ writeLock' = w
      /\ UNCHANGED <<allocated, free>>
    BY UnlinkFacts DEF Sound, Shape
<1>2. Heap /\ DoublyLinked /\ Links \in NextMaps /\ Links' \in NextMaps
    BY MapTypes, NextMapTypes DEF Sound, Shape
<1>3. L \subseteq Nodes /\ \A n \in L : /\ Links[n] \in L \cup {NULL} /\ Links[n] # head
                                        /\ Stops(Links, n) /\ From(Links, n) \subseteq L
    BY <1>2, OnTheList
<1> HIDE DEF i
<1>4. b \in L /\ Links[b] = i /\ \A k \in L : Links[k] = i => k = b
    <2>1. PICK k \in L : Links[k] = i
        BY <1>1, <1>2, <1>3, Predecessor DEF L
    <2>2. \A m \in L : Links[m] = i => Prevs[i] = m
        BY <1>1, <1>2 DEF DoublyLinked
    <2> QED
        BY <2>1, <2>2
<1>5. /\ a \in L \cup {NULL} /\ a # i /\ a # head
      /\ From(Links, i) = {i} \cup From(Links, a) /\ i \notin From(Links, a) /\ Stops(Links, a)
    <2>1. From(Links, i) = {i} \cup From(Links, a) /\ i \notin From(Links, a) /\ Stops(Links, a)
        BY <1>1, <1>2, <1>3, FromStep, NoCycle, StopsStep
    <2>2. a # i
        BY <1>1, <2>1, FromStart
    <2> QED
        BY <1>1, <1>3, <2>1, <2>2
<1>6. b # i
    BY <1>4, <1>5
<1> HIDE DEF a, b
<1>7. From(Links', a) = From(Links, a) /\ Stops(Links', a)
    <2>1. b \notin From(Links, a)
        BY <1>1, <1>2, <1>4, <1>5, FromClosed DEF ClosedIn
    <2>2. \A k \in From(Links, a) : Links'[k] = Links[k]
        BY <1>1, <2>1, FromStart
    <2> QED
        BY <1>2, <1>3, <1>5, <2>2, FromSame DEF OrNULL
<1>8. \A x \in L \ {i} : From(Links', x) = From(Links, x) \ {i}
    <2>1. head \in Nodes /\ L = From(Links, head) /\ Stops(Links, head)
        BY <1>1, <1>2, <1>3 DEF L, Heap
    <2>2. Links[i] = a
        BY DEF a
    <2> QED
        BY <1>1, <1>2, <1>4, <2>1, <2>2, Bypass
<1>9. L' = L \ {i} /\ Stops(Links', head')
    <2>1. From(Links', head) = L \ {i}
        BY <1>1, <1>8 DEF L
    <2>2. Stops(Links', head)
        <3>1. Stops(Links', Links'[b]) /\ b \in Nodes /\ head \in OrNULL
            BY <1>1, <1>3, <1>4, <1>7 DEF OrNULL
        <3> QED
            BY <1>1, <1>2, <3>1, StopsRedirected DEF Heap
    <2> QED
        BY <1>1, <2>1, <2>2 DEF L
<1>10. F' = F /\ Stops(Links', free')
    <2>1. \A k \in F : Links'[k] = Links[k]
        BY <1>1, <1>2, <1>4, FromStart DEF Heap, F
    <2> QED
        BY <1>1, <1>2, <2>1, KeptFree
<1>11. Heap'
    BY <1>1, <1>2, <1>9, <1>10 DEF Heap
<1>12. DoublyLinked'
    <2>1. Links[i] = a /\ Links[b] # NULL
        BY <1>1, <1>4 DEF a
    <2>2. a # NULL => Prevs[a] = i
        BY <1>1, <1>2, <2>1 DEF DoublyLinked
    <2>3. \A n \in L : (Links[n] = NULL <=> n = tail) /\ (Links[n] # NULL => Prevs[Links[n]] = n)
        BY <1>2 DEF DoublyLinked
    <2>4. ASSUME NEW n \in L'
          PROVE  /\ Links'[n] = NULL <=> n = tail'
                 /\ Links'[n] # NULL => Prevs'[Links'[n]] = n
        <3>1. n \in L /\ n # i /\ n \in Nodes
            BY <1>3, <1>9, <2>4
        <3>2. CASE n = b
            BY <1>1, <1>3, <1>4, <1>5, <2>1, <2>3, <3>1, <3>2
        <3>3. CASE n # b
            <4>1. Links'[n] = Links[n] /\ Links[n] \in L \cup {NULL}
                BY <1>1, <1>3, <3>1, <3>3
            <4>2. Links[n] = NULL <=> n = tail'
                BY <1>1, <2>1, <2>3, <3>1, <3>3
            <4>3. Links[n] # NULL => Links[n] # a
                BY <2>2, <2>3, <3>1
            <4> QED
                BY <1>1, <1>3, <2>3, <3>1, <4>1, <4>2, <4>3
        <3> QED
            BY <3>2, <3>3
    <2>5. Prevs'[head] = NULL
        BY <1>1, <1>3, <1>5
    <2>6. head' # NULL /\ tail' # NULL
        BY <1>1, <1>2, <1>3, <1>4 DEF DoublyLinked
    <2> QED
        BY <1>1, <2>4, <2>5, <2>6 DEF DoublyLinked
<1>13. Apart'
    BY <1>1, <1>2, <1>9, <1>10, OneHolderNext DEF Apart, Heap
<1>14. Walks'
    <2>1. /\ b \in Nodes /\ Links'[b] = a /\ \A k \in Nodes \ {b} : Links'[k] = Links[k]
          /\ allocated' = allocated
        BY <1>1, <1>3, <1>4
    <2>2. From(Links', a) \subseteq allocated
        BY <1>1, <1>2, <1>3, <1>5, <1>7 DEF Heap
    <2> QED
        BY <1>1, <1>7, <2>1, <2>2, OneLink DEF Sound
<1>15. Unreached'
    BY <1>1, NobodyDeletes
<1>16. Views'
    <2>1. ASSUME NEW r \in Readers, r \notin lost', pc[r] = "next"
          PROVE  unseen'[r] \subseteq From(Links', Ahead(r)') /\ cur[r] \in L' \cup {NULL}
        <3>1. unseen[r] \subseteq From(Links, Ahead(r)) /\ cur[r] \in L \cup {NULL} /\ cur'[r] = cur[r] /\ cur[r] # i
            BY <1>1, <2>1 DEF Sound, Views, SameReaders
        <3>2. CASE cur[r] = NULL
            <4>1. Ahead(r) = head /\ Ahead(r)' = head
                BY <1>1, <3>1, <3>2 DEF Ahead
            <4> QED
                BY <1>1, <1>8, <3>1, <3>2, <4>1
        <3>3. CASE cur[r] = b
            <4>1. Ahead(r) = i /\ Ahead(r)' = a
                BY <1>1, <1>3, <1>4, <3>1, <3>3 DEF Ahead
            <4> QED
                BY <1>1, <1>5, <1>7, <1>9, <3>1, <4>1
        <3>4. CASE cur[r] # NULL /\ cur[r] # b
            <4>1. Ahead(r)' = Ahead(r) /\ Ahead(r) \in L \cup {NULL} /\ Ahead(r) # i
                BY <1>1, <1>3, <1>4, <3>1, <3>4 DEF Ahead
            <4> QED
                BY <1>1, <1>8, <1>9, <3>1, <4>1, FromNull
        <3> QED
            BY <3>2, <3>3, <3>4
    <2>2. ASSUME NEW r \in Readers, r \notin lost', pc[r] = "done"
          PROVE  unseen'[r] = {}
        BY <1>1, <2>2 DEF Sound, Views
    <2> QED
        BY <1>1, <2>1, <2>2 DEF Views, SameReaders
<1> QED
    BY <1>11, <1>12, <1>13, <1>14, <1>15, <1>16 DEF Sound, Shape

----------------------------------------------------------------------------
(* The theorems.                                                           *)

LEMMA IInvPreserved == IInv /\ [Next]_vars => IInv'
<1> SUFFICES ASSUME IInv, [Next]_vars
             PROVE  IInv'
    OBVIOUS
<1>1. Types /\ Control /\ Count /\ Sound
    BY DEF IInv
<1>2. CASE Next
    <2>1. Types' /\ Control'
        BY <1>1, <1>2, ControlPreserved
    <2>2. CASE \E t \in Threads : IterationStep(t)
        <3>1. Count' /\ Sound'
            BY <1>1, <2>1, <2>2, CountPreserved, IterationKeepsSound
        <3> QED
            BY <2>1, <3>1 DEF IInv
    <2>3. ASSUME NEW w \in Writers, InsertStep(w) \/ RemoveStep(w)
          PROVE  IInv'
        <3>1. SameReaders
            BY <1>1, <2>1, <2>3, InsertKeepsReaders, RemoveKeepsReaders
        <3>2. refcount' = refcount
            BY <2>3 DEF InsertStep, StartInsert, InsertFirst, PrependLink, PrependPublish, AppendPublish, InsertEnds,
               RemoveStep, Compare, StartRemoveNode, UnlinkNotFound, Unlink, CheckReaders, Recycle, Delete
        <3>3. Count'
            BY <1>1, <2>1, <3>1, <3>2, CountPreserved
        <3>4. Sound'
            BY <1>1, <2>1, <2>3, QuietStepKeepsSound, StartInsertKeepsSound, InsertFirstKeepsSound,
               PrependLinkKeepsSound, PrependPublishKeepsSound, AppendPublishKeepsSound, UnlinkHeadKeepsSound,
               UnlinkInnerKeepsSound, RecycleKeepsSound, DeleteKeepsSound DEF InsertStep, RemoveStep, QuietStep
        <3> QED
            BY <2>1, <3>3, <3>4 DEF IInv
    <2> QED
        BY <1>2, <2>2, <2>3 DEF Next, ReaderStep, WriterStarts, WriterStep, IterationStep, InsertStep, RemoveStep, Threads
<1>3. CASE UNCHANGED vars
    <2>1. /\ UNCHANGED <<refcount, writeLock, pc, cur, op, arg, unseen, lost>>
          /\ UNCHANGED list
        BY <1>3 DEF vars, seen
    <2>2. UNCHANGED <<allocated, node, head, tail, free, Links, Prevs, L, F>>
        BY <2>1, SameList
    <2>3. \A t \in Threads : Reading(t)' <=> Reading(t)
        BY <2>1 DEF Reading
    <2>4. Types'
        BY <1>1, <2>1, <2>2 DEF Types
    <2>5. Control'
        BY <1>1, <2>1 DEF Control
    <2>6. Count'
        BY <1>1, <2>1, <2>3 DEF Count, ReadingThreads
    <2>7. Shape'
        BY <1>1, <2>1, <2>2 DEF Sound, Shape, Heap, DoublyLinked, Apart
    <2>8. Unreached' /\ Walks'
        BY <1>1, <2>1, <2>2, <2>3 DEF Sound, Unreached, Walks
    <2>9. Views'
        BY <1>1, <2>1, <2>2 DEF Sound, Views, Ahead
    <2> QED
        BY <2>4, <2>5, <2>6, <2>7, <2>8, <2>9 DEF IInv, Sound
<1> QED
    BY <1>2, <1>3

THEOREM ListInvariant == Spec => []IInv
BY ListInit, IInvPreserved, PTL DEF Spec

\* No iteration of the list meets memory that is free, however many readers
\* and writers there are: a node is deleted only when nobody reads, and one
\* that is recycled still leads to allocated nodes.
THEOREM NoReaderMeetsFreedMemory == Spec => []NoUseAfterFree
<1>1. IInv => NoUseAfterFree
    <2> SUFFICES ASSUME IInv, NEW t \in Threads, Reading(t), cur[t] # NULL
                 PROVE  Chain(cur[t]) \subseteq allocated
        BY DEF NoUseAfterFree
    <2> QED
        BY ChainIsFrom DEF IInv, Sound, Walks
<1> QED
    BY <1>1, ListInvariant, PTL

LEMMA ValidWhenUnlocked ==
    ASSUME IInv
    PROVE  ListValid
<1> USE ListAssumption
<1>1. SUFFICES ASSUME writeLock = NULL
               PROVE  /\ \A n \in Chain(head) :
                            /\ node[n].prev = NULL <=> n = head
                            /\ node[n].next = NULL <=> n = tail
                            /\ node[n].next # NULL => node[node[n].next].prev = n
                      /\ head = NULL <=> tail = NULL
    BY DEF ListValid
<1>2. Types /\ Heap /\ DoublyLinked /\ Links \in NextMaps
    BY MapTypes DEF IInv, Sound, Shape
<1>3. Chain(head) = L
    BY ChainIsFrom DEF L
<1>4. \A u \in Writers : pc[u] # "publish"
    BY <1>1 DEF IInv, Control, LockPCs
<1>5. ASSUME NEW n \in L
      PROVE  /\ node[n].prev = NULL <=> n = head
             /\ node[n].next = NULL <=> n = tail
             /\ node[n].next # NULL => node[node[n].next].prev = n
    <2>1. n \in Nodes /\ Links[n] \in Nodes \cup {NULL} /\ head \in Nodes /\ head # NULL
        BY <1>2, <1>5, OnTheList
    <2>2. node[n].next = Links[n] /\ node[n].prev = Prevs[n] /\ (Links[n] # NULL => node[Links[n]].prev = Prevs[Links[n]])
        BY <1>2, <2>1, MapTypes
    <2>3. n = head => Prevs[n] = NULL
        BY <1>2, <1>4, <2>1 DEF DoublyLinked
    <2>4. ASSUME n # head
          PROVE  Prevs[n] # NULL
        <3>1. PICK k \in L : Links[k] = n
            BY <1>2, <1>5, <2>1, <2>4, Predecessor DEF L
        <3>2. k # NULL /\ n # NULL
            BY <1>2, <2>1, OnTheList
        <3> QED
            BY <1>2, <3>1, <3>2 DEF DoublyLinked
    <2> QED
        BY <1>2, <1>5, <2>2, <2>3, <2>4 DEF DoublyLinked
<1> QED
    BY <1>2, <1>3, <1>5 DEF DoublyLinked

\* Whatever the writers do, the list is doubly linked whenever the lock is
\* free, shares no node with the free list, and every iteration can end.
THEOREM ListStaysSound == Spec => []ListIsSound
<1>1. IInv => ListIsSound
    <2> SUFFICES ASSUME IInv
                 PROVE  ListIsSound
        OBVIOUS
    <2> USE ListAssumption
    <2>1. Types /\ Heap /\ DoublyLinked
        BY DEF IInv, Sound, Shape
    <2>2. TypeOK
        <3>1. {head, tail, free} \subseteq allocated \cup {NULL}
            BY <2>1, OnTheList DEF Heap
        <3>2. refcount = Cardinality({t \in Threads : Reading(t)})
            BY DEF IInv, Count, ReadingThreads
        <3> QED
            BY <2>1, <3>1, <3>2 DEF TypeOK, Types, Cell, OrNULL
    <2>3. ListsDisjoint
        BY <2>1, ChainIsFrom DEF ListsDisjoint, Heap, L, F
    <2>4. IterationEnds
        <3> SUFFICES ASSUME NEW t \in Threads, Reading(t), cur[t] # NULL
                     PROVE  \E n \in Chain(cur[t]) : node[n].next = NULL
            BY DEF IterationEnds
        <3>1. PICK n \in From(Links, cur[t]) : Links[n] = NULL
            BY DEF IInv, Sound, Walks, Stops
        <3>2. n \in Nodes /\ n \in Chain(cur[t])
            BY <3>1, ChainIsFrom, FromStart
        <3> QED
            BY <2>1, <3>1, <3>2, MapTypes
    <2> QED
        BY <2>2, <2>3, <2>4, ValidWhenUnlocked DEF ListIsSound
<1> QED
    BY <1>1, ListInvariant, PTL

\* A reader that no removal took its node from has come by every node that
\* was on the list all the time, when it has come to the end.
THEOREM ReadersMissOnlyWhatIsRemoved == Spec => []UndisturbedViewIsComplete
<1>1. IInv => UndisturbedViewIsComplete
    BY DEF IInv, Sound, Views, UndisturbedViewIsComplete
<1> QED
    BY <1>1, ListInvariant, PTL

=============================================================================
