--------------------------- MODULE AsyncAllocator ---------------------------
(***************************************************************************)
(* AsyncAllocator of PLCrashReporter: a first-fit allocator over pools of  *)
(* guarded pages, with a circular free list kept in the blocks themselves  *)
(* and one spin lock.                                                      *)
(*                                                                         *)
(* Memory is counted in units of one control block.  A pool's usable space *)
(* is never adjacent to another's: guard pages surround it.  The lock      *)
(* covers whole walks of the list, so a walk is one step; what growing the *)
(* pool does between two of them is a step of its own.                     *)
(*                                                                         *)
(* Two things end what can be known of the list, and the model stops at    *)
(* them.  Once two blocks overlap, a client writes over the control blocks *)
(* of another's memory.  And alloc() may release the lock while another    *)
(* thread walks the list, which lets a third one in: two walks interleave. *)
(* As built for release, where PLCF_ASSERT is empty.                       *)
(***************************************************************************)
EXTENDS Integers, FiniteSets, Sequences, FiniteSetsExt, Functions

CONSTANTS Threads,
          Sizes,        \* what clients ask for, in units
          InitialSize,  \* _initial_size
          PageSize,
          PageHeader,   \* what a pool's own control structures take
          FirstBlock,   \* where Create() puts the first free block
          PoolBases,    \* where vm_allocate may put further pools
          Top           \* the highest address, and more than any

Header == 1        \* round_align(sizeof(control_block))
MinUseful == 2     \* PL_MINIMUM_USEFUL_FREEBLOCK_SIZE
NULL == 0

RoundPage(n) == ((n + PageSize - 1) \div PageSize) * PageSize

\* The free block of the first pool, and of a pool that grow(required) adds.
FirstBlockSize == RoundPage(InitialSize + PageHeader) - PageHeader
PoolBlockSize(required) == RoundPage(InitialSize + required) - PageHeader

ASSUME AllocatorAssumption ==
    /\ PageSize \in Nat \ {0} /\ PageHeader \in 0 .. PageSize - 1 /\ Top \in Nat
    /\ Sizes \subseteq Nat \ {0} /\ InitialSize \in Nat \ {0}
    /\ FirstBlock \in 1 .. Top /\ FirstBlock + FirstBlockSize <= Top
    /\ PoolBases \subseteq 1 .. Top
    /\ \A b \in PoolBases, s \in Sizes :
          /\ b + PoolBlockSize(s) <= Top
          /\ \A c \in PoolBases : c <= b \/ b + PoolBlockSize(s) < c
    /\ \A b \in PoolBases : FirstBlock + FirstBlockSize < b

Addr == 1 .. Top

VARIABLES ring,      \* the free list from _free_list on; the last block's _next
                     \* is the first, and <<>> stands for NULL
          size,      \* size[a]: _size of the control block at a, 0 where
                     \* there is none
          locked,    \* _lock
          pools,     \* the pools' free space: <<first address, size>>
          expected,  \* _expected_unleaked_free_bytes
          pc,
          want,      \* want[t]: the size thread t asks for
          freeing,   \* freeing[t]: the block thread t deallocates
          after,     \* after[t]: where thread t goes on once it has
          live,      \* the allocated blocks, in the order of their allocation
          stacked,   \* only the last block allocated was ever deallocated,
                     \* with no call during that, and no further pool was
                     \* asked for (not in the code)
          crashed    \* a thread dereferenced NULL

vars == <<ring, size, locked, pools, expected, pc, want, freeing, after,
          live, stacked, crashed>>

Init ==
    /\ ring = <<FirstBlock>>
    /\ size = [a \in Addr |-> IF a = FirstBlock THEN FirstBlockSize ELSE 0]
    /\ locked = FALSE
    /\ pools = {<<FirstBlock, FirstBlockSize>>}
    /\ expected = FirstBlockSize
    /\ pc = [t \in Threads |-> "idle"]
    /\ want = [t \in Threads |-> 0]
    /\ freeing = [t \in Threads |-> NULL]
    /\ after = [t \in Threads |-> "idle"]
    /\ live = <<>>
    /\ stacked = TRUE
    /\ crashed = FALSE

----------------------------------------------------------------------------
FreeBlocks == Range(ring)

\* The sum of the blocks' sizes, unit by unit.
Size(blocks) == Cardinality(UNION {{b} \X (1 .. size[b]) : b \in blocks})

\* debug_bytes_free().
BytesFree == Size(FreeBlocks)

End(b) == b + size[b]

\* The blocks clients own, and those on their way back to the free list.
Owned == Range(live) \cup ({freeing[t] : t \in Threads} \ {NULL})

Overlap(b, c) == b < End(c) /\ c < End(b)
Corrupt == \E b, c \in FreeBlocks \cup Owned :
              \/ b # c /\ Overlap(b, c)
              \/ b \in FreeBlocks \cap Owned

----------------------------------------------------------------------------
Goto(t, to) == pc' = [pc EXCEPT ![t] = to]

\* _lock.lock(): a spinning compare-and-swap.
Lock == ~locked /\ locked' = TRUE

CallAlloc(t, s) ==
    /\ pc[t] = "idle"
    /\ Lock
    /\ Goto(t, "search")
    /\ want' = [want EXCEPT ![t] = s]
    /\ UNCHANGED <<ring, size, pools, expected, freeing, after, live, stacked, crashed>>

\* Any block may be given back, once.
CallDealloc(t, k) ==
    /\ pc[t] = "idle"
    /\ Lock
    /\ Goto(t, "insert")
    /\ freeing' = [freeing EXCEPT ![t] = live[k]]
    /\ after' = [after EXCEPT ![t] = "idle"]
    /\ live' = SubSeq(live, 1, k-1) \o SubSeq(live, k+1, Len(live))
    /\ stacked' = (stacked /\ k = Len(live) /\ Owned = Range(live))
    /\ UNCHANGED <<ring, size, pools, expected, want, crashed>>

\* Mutant: grow() takes the lock without waiting for it.
Relock_NoWait(t) ==
    /\ locked' = TRUE
    /\ \/ pc[t] = "dealloc" /\ Goto(t, "insert")
       \/ pc[t] = "relock" /\ Goto(t, "retry")
    /\ UNCHANGED <<ring, size, pools, expected, want, freeing, after, live, stacked, crashed>>

\* grow() takes the lock to give its new block to the list, and again for the
\* rest of alloc().
Relock(t) ==
    /\ Lock
    /\ \/ pc[t] = "dealloc" /\ Goto(t, "insert")
       \/ pc[t] = "relock" /\ Goto(t, "retry")
    /\ UNCHANGED <<ring, size, pools, expected, want, freeing, after, live, stacked, crashed>>

Searching(t) == pc[t] \in {"search", "retry"}
Fits(t, b) == size[b] >= want[t] + Header
HasFit(t) == \E b \in FreeBlocks : Fits(t, b)
FirstFit(t) == Min({k \in 1 .. Len(ring) : Fits(t, ring[k])})

\* The list without its k-th block, its head the block before that.  The walk
\* starts with prev_cb at the first block instead of its predecessor, so that
\* taking the first one empties the list.
Without(k) ==
    IF k = 1 THEN <<>>
    ELSE SubSeq(ring, k-1, k-1) \o SubSeq(ring, k+1, Len(ring)) \o SubSeq(ring, 1, k-2)

\* The upper end of a block becomes the allocation.
Split(b, need) ==
    LET upper == End(b) - need
    IN  /\ size' = [size EXCEPT ![b] = @ - need, ![upper] = need]
        /\ live' = Append(live, upper)

\* The first block that fits is split, or taken whole if the rest were useless.
Take(t) ==
    LET k == FirstFit(t)
        b == ring[k]
        need == want[t] + Header
    IN  IF size[b] - need < MinUseful
        THEN ring' = Without(k) /\ live' = Append(live, b) /\ UNCHANGED size
        ELSE Split(b, need) /\ UNCHANGED ring

AllocDone(t) ==
    /\ Take(t)
    /\ locked' = FALSE
    /\ Goto(t, "idle")
    /\ stacked' = (stacked /\ Owned = Range(live))
    /\ want' = [want EXCEPT ![t] = 0]
    /\ UNCHANGED <<pools, expected, freeing, after, crashed>>

\* grow(): further pages, whose free space goes the way of a deallocation.
\* That takes the lock itself, so grow() releases it meanwhile.
Grow(t) == \E b \in PoolBases :
    LET room == PoolBlockSize(want[t]) IN
    /\ \A p \in pools : p[1] # b
    /\ pools' = pools \cup {<<b, room>>}
    /\ size' = [size EXCEPT ![b] = room]
    /\ expected' = expected + room
    /\ freeing' = [freeing EXCEPT ![t] = b]
    /\ after' = [after EXCEPT ![t] = "relock"]
    /\ locked' = FALSE
    /\ Goto(t, "dealloc")
    /\ stacked' = FALSE
    /\ UNCHANGED <<ring, want, live, crashed>>

\* vm_allocate() fails: grow() has released the lock, and alloc() does so again.
GrowFails(t) ==
    /\ locked' = FALSE
    /\ Goto(t, "unlock again")
    /\ stacked' = FALSE
    /\ UNCHANGED <<ring, size, pools, expected, want, freeing, after, live, crashed>>

\* unlock() swaps 1 for 0 and does not ask whose the lock is: it may be that of
\* a thread which walks the list.
UnlockAgain(t) ==
    /\ pc[t] = "unlock again"
    /\ locked' = FALSE
    /\ Goto(t, "idle")
    /\ UNCHANGED <<ring, size, pools, expected, want, freeing, after, live, stacked, crashed>>

\* The search after grow() takes it that the list is not empty.
FollowNull(t) ==
    /\ crashed' = TRUE
    /\ UNCHANGED <<ring, size, locked, pools, expected, pc, want, freeing, after, live, stacked>>

Search(t) ==
    /\ Searching(t)
    /\ \/ HasFit(t) /\ AllocDone(t)
       \/ ~HasFit(t) /\ (ring # <<>> \/ pc[t] = "search") /\ (Grow(t) \/ GrowFails(t))
       \/ ring = <<>> /\ pc[t] = "retry" /\ FollowNull(t)

\* Where dealloc's walk ends, as a place in the ring: at the first block beyond
\* f, or where the next one would be the start again.
Parent(f) ==
    IF Len(ring) = 1 THEN 1
    ELSE Min({k \in 2 .. Len(ring) : f < ring[k] \/ k = Len(ring)})

\* The blocks that follow the k-th one round the ring.
Behind(k) == SubSeq(ring, k+1, Len(ring)) \o SubSeq(ring, 1, k-1)

\* Mutant: a gap between the blocks does not matter.
Touch_OverGap(lower, upper) == lower < upper /\ End(lower) <= upper

Touch(lower, upper) == End(lower) = upper

\* Mutant: the block is not coalesced with the one before it.
Link_Apart(f) ==
    LET p == ring[Parent(f)]  behind == Behind(Parent(f))
    IN  ring' = <<p, f>> \o behind /\ UNCHANGED size

\* Insert f behind its parent p, and coalesce it with the block next to p and
\* with p where they touch.  If p is alone it is also the next block, and stays
\* in the list when f absorbs it.
Link(f) ==
    LET p == ring[Parent(f)]
        behind == Behind(Parent(f))
        next == IF behind = <<>> THEN p ELSE behind[1]
        withNext == Touch(f, next)
        rest == IF withNext /\ next # p THEN Tail(behind) ELSE behind
        grown == IF withNext THEN size[f] + size[next] ELSE size[f]
        left == IF withNext /\ next # p THEN [size EXCEPT ![next] = 0] ELSE size
    IN  IF Touch(p, f)
        THEN /\ ring' = <<p>> \o rest
             /\ size' = [left EXCEPT ![p] = @ + grown, ![f] = 0]
        ELSE /\ ring' = <<p, f>> \o rest
             /\ size' = [left EXCEPT ![f] = grown]

\* dealloc() under the lock.
Insert(t) ==
    /\ pc[t] = "insert"
    /\ IF ring = <<>> THEN ring' = <<freeing[t]>> /\ UNCHANGED size
                      ELSE Link(freeing[t])
    /\ locked' = FALSE
    /\ Goto(t, after[t])
    /\ freeing' = [freeing EXCEPT ![t] = NULL]
    /\ UNCHANGED <<pools, expected, want, after, live, stacked, crashed>>

Step(t) ==
    \/ \E s \in Sizes : CallAlloc(t, s)
    \/ \E k \in DOMAIN live : CallDealloc(t, k)
    \/ Relock(t)
    \/ Search(t)
    \/ UnlockAgain(t)
    \/ Insert(t)

\* The threads between _lock.lock() and the end of their walk.
Inside == {t \in Threads : pc[t] \in {"search", "retry", "insert"}}
Exclusive == \A t, u \in Inside : t = u

Next == ~Corrupt /\ Exclusive /\ ~crashed /\ \E t \in Threads : Step(t)

Spec == Init /\ [][Next]_vars

----------------------------------------------------------------------------
Pcs == {"idle", "search", "dealloc", "insert", "relock", "retry", "unlock again"}

\* The state has its type; an address stands for itself everywhere.
TypeOK ==
    /\ ring \in Seq(Addr) /\ IsInjective(ring)
    /\ size \in [Addr -> Nat]
    /\ locked \in BOOLEAN
    /\ pools \subseteq Addr \X Nat
    /\ expected \in Nat
    /\ pc \in [Threads -> Pcs]
    /\ want \in [Threads -> Sizes \cup {0}]
    /\ freeing \in [Threads -> Addr \cup {NULL}]
    /\ after \in [Threads -> {"idle", "relock"}]
    /\ live \in Seq(Addr)
    /\ stacked \in BOOLEAN /\ crashed \in BOOLEAN

\* A block lies within the usable space of one pool: coalescing never reaches
\* across guard pages.
BlocksStayInPools ==
    \A b \in FreeBlocks \cup Owned :
        \E p \in pools : p[1] <= b /\ End(b) <= p[1] + p[2]

\* The free list is a list of blocks of the pools, whatever calls overlap.
PoolIsSound == TypeOK /\ BlocksStayInPools

\* As long as blocks are given back in the reverse order of their allocation,
\* one call after the other, and the first pool suffices -- how the crash handler is meant to use an
\* allocator set aside for it -- no two walks overlap, no memory is handed out twice, and all that
\* is not allocated stays available: the destructor's leak check.
StackOrderIsSafe ==
    stacked => Exclusive /\ ~Corrupt /\ BytesFree + Size(Owned) = expected

\* Blocks come to overlap in one way only: a block is given back that ends
\* where the only free block starts.  It absorbs that block, which stays in
\* the list.
OverlapNeedsALoneBlock ==
    ~Corrupt /\ Corrupt' =>
        \E t \in Threads : Insert(t) /\ Len(ring) = 1 /\ End(freeing[t]) = ring[1]

\* Free memory is forgotten in one way only: the first block of the search is
\* taken whole while there are others, and the list is declared empty.
LossNeedsAWholeHead ==
    ~Corrupt' /\ BytesFree + Size(Owned) = expected /\ (BytesFree + Size(Owned) # expected)' =>
        \E t \in Threads :
            Searching(t) /\ HasFit(t) /\ FirstFit(t) = 1 /\ Len(ring) > 1 /\ ring' = <<>>

\* Two walks overlap in one way only: vm_allocate has failed for a thread, which
\* releases the lock a second time while another one walks under it; a third
\* call gets in.
Guarded == Inside # {} => locked
OverlapOfWalksNeedsAFailedGrow ==
    /\ Guarded /\ ~Guarded' => \E t \in Threads : UnlockAgain(t) /\ Inside \ {t} # {}
    /\ Exclusive /\ ~Exclusive' => ~Guarded

\* Nothing else breaks the pool: while each walk is alone, two such inserts and searches account for every
\* loss and overlap of blocks, and a walk is alone but for that second release of the lock.
OnlyKnownFaults ==
    [][OverlapNeedsALoneBlock /\ LossNeedsAWholeHead /\ OverlapOfWalksNeedsAFailedGrow]_vars
=============================================================================
