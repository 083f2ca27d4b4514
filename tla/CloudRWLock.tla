---------------------------- MODULE CloudRWLock ----------------------------
(***************************************************************************)
(* The readers-writer spin lock of GeneralTest/test/CloudRWLock.m.  Its    *)
(* whole state is one int, _lockCount: the number of readers, plus WRITE   *)
(* (LOCK_FLAG_WRITE) once a writer has claimed it.  A method loads the     *)
(* int, decides, and tries one compare-and-swap; between the load and the  *)
(* swap any other thread may run, so the two are separate steps here.      *)
(* lockWrite swaps WRITE in while readers are still inside, which bars new *)
(* readers, and then spins until they have left.                           *)
(*                                                                         *)
(* The clients are the lock's legal users: a thread calls a lock method    *)
(* holding nothing, and an unlock method only for what it holds.           *)
(***************************************************************************)
EXTENDS Integers, FiniteSets

CONSTANTS Threads,   \* the threads that share the lock
          WRITE,     \* LOCK_FLAG_WRITE, 10000 in the code
          Tries      \* how often a try method tests the count, 3 in the code

ASSUME ConstantsAssumption ==
    /\ IsFiniteSet(Threads)
    /\ WRITE \in Nat \ {0}
    /\ Tries \in Nat \ {0}

VARIABLES lockCount,  \* _lockCount
          call,       \* call[t]: the method thread t is inside, or "none"
          pc,         \* pc[t]: the next step of that method
          lCount,     \* lCount[t]: the method's local copy of _lockCount
          tryCount,   \* tryCount[t]: the local of the try methods
          holds       \* holds[t]: what a completed lock method granted to t

vars == <<lockCount, call, pc, lCount, tryCount, holds>>

LockCalls   == {"lockRead", "tryLockRead", "lockWrite", "tryLockWrite"}
UnlockCalls == {"unLockRead", "unLockWrite"}

Init ==
    /\ lockCount = 0
    /\ call = [t \in Threads |-> "none"]
    /\ pc = [t \in Threads |-> "load"]
    /\ lCount = [t \in Threads |-> 0]
    /\ tryCount = [t \in Threads |-> 0]
    /\ holds = [t \in Threads |-> "nothing"]

----------------------------------------------------------------------------
(* Steps shared by the methods.                                            *)

\* Thread t calls method m, which starts by loading the count.
Enter(t, m) ==
    /\ call[t] = "none"
    /\ call' = [call EXCEPT ![t] = m]
    /\ pc' = [pc EXCEPT ![t] = "load"]
    /\ UNCHANGED <<lockCount, lCount, tryCount, holds>>

CallLock(t) == holds[t] = "nothing" /\ \E m \in LockCalls : Enter(t, m)

CallUnlock(t) ==
    \/ holds[t] = "read"  /\ Enter(t, "unLockRead")
    \/ holds[t] = "write" /\ Enter(t, "unLockWrite")

\* int lCount = _lockCount, the first step of every round of every method.
Load(t) ==
    /\ call[t] # "none"
    /\ pc[t] = "load"
    /\ lCount' = [lCount EXCEPT ![t] = lockCount]
    /\ pc' = [pc EXCEPT ![t] = "swap"]
    /\ UNCHANGED <<lockCount, call, tryCount, holds>>

\* The thread is about to test its copy of the count in one of methods ms.
AtSwap(t, ms) == call[t] \in ms /\ pc[t] = "swap"

\* Mutant: a plain store instead of the compare-and-swap.
Swap_PlainStore(t, delta) == lockCount' = lCount[t] + delta

\* OSAtomicCompareAndSwapInt(lCount, lCount + delta, &_lockCount) succeeds.
Swap(t, delta) ==
    /\ lockCount = lCount[t]
    /\ lockCount' = lockCount + delta

\* The method returns; g is what the thread holds from now on.
ReturnHolding(t, g) ==
    /\ call' = [call EXCEPT ![t] = "none"]
    /\ holds' = [holds EXCEPT ![t] = g]
    /\ lCount' = [lCount EXCEPT ![t] = 0]
    /\ tryCount' = [tryCount EXCEPT ![t] = 0]
    /\ pc' = [pc EXCEPT ![t] = "load"]

\* Another round of an unbounded loop.
LoopAgain(t) ==
    /\ pc' = [pc EXCEPT ![t] = "load"]
    /\ UNCHANGED <<lockCount, call, lCount, tryCount, holds>>

\* A round of a try method failed: count it, and give up after Tries of them.
\* Giving up returns NO from a try method, and starts lockRead's loop again.
TryAgain(t) ==
    /\ UNCHANGED lockCount
    /\ IF tryCount[t] + 1 < Tries
       THEN /\ tryCount' = [tryCount EXCEPT ![t] = @ + 1]
            /\ pc' = [pc EXCEPT ![t] = "load"]
            /\ UNCHANGED <<call, lCount, holds>>
       ELSE IF call[t] = "lockRead"
            THEN /\ tryCount' = [tryCount EXCEPT ![t] = 0]
                 /\ pc' = [pc EXCEPT ![t] = "load"]
                 /\ UNCHANGED <<call, lCount, holds>>
            ELSE ReturnHolding(t, "nothing")

----------------------------------------------------------------------------
(* The methods after the load.                                             *)

\* Mutant: only a fully drained writer bars readers.
ReadCanEnter_NotDrained(t) == lCount[t] # WRITE

\* A reader may come in while no writer has claimed the lock.
ReadCanEnter(t) == lCount[t] < WRITE

\* lockRead and tryLockRead
TryLockRead(t) ==
    /\ AtSwap(t, {"lockRead", "tryLockRead"})
    /\ \/ ReadCanEnter(t) /\ Swap(t, 1) /\ ReturnHolding(t, "read")
       \/ ~(ReadCanEnter(t) /\ lockCount = lCount[t]) /\ TryAgain(t)

UnLockRead(t) ==
    /\ AtSwap(t, {"unLockRead"})
    /\ \/ lCount[t] > 0 /\ Swap(t, -1) /\ ReturnHolding(t, "nothing")
       \/ ~(lCount[t] > 0 /\ lockCount = lCount[t]) /\ LoopAgain(t)

\* lockWrite claims the lock; it is granted once the readers have left.
ClaimWrite(t) ==
    /\ AtSwap(t, {"lockWrite"})
    /\ \/ /\ lCount[t] < WRITE
          /\ Swap(t, WRITE)
          /\ pc' = [pc EXCEPT ![t] = "drain"]
          /\ UNCHANGED <<call, lCount, tryCount, holds>>
       \/ ~(lCount[t] < WRITE /\ lockCount = lCount[t]) /\ LoopAgain(t)

\* while (1) { if (_lockCount == LOCK_FLAG_WRITE) return; ... }
DrainDone == lockCount = WRITE

DrainReaders(t) ==
    /\ pc[t] = "drain"
    /\ DrainDone
    /\ ReturnHolding(t, "write")
    /\ UNCHANGED lockCount

\* Mutant: tryLockWrite tests the count as lockWrite does.
TryLockWrite_AsLockWrite(t) ==
    /\ AtSwap(t, {"tryLockWrite"})
    /\ \/ lCount[t] < WRITE /\ Swap(t, WRITE) /\ ReturnHolding(t, "write")
       \/ ~(lCount[t] < WRITE /\ lockCount = lCount[t]) /\ TryAgain(t)

TryLockWrite(t) ==
    /\ AtSwap(t, {"tryLockWrite"})
    /\ \/ lCount[t] = 0 /\ Swap(t, WRITE) /\ ReturnHolding(t, "write")
       \/ ~(lCount[t] = 0 /\ lockCount = lCount[t]) /\ TryAgain(t)

\* The early return for lCount < WRITE, behind an assertion that only debug
\* builds keep, leaves the count as it is.
UnLockWrite(t) ==
    /\ AtSwap(t, {"unLockWrite"})
    /\ LET claimed == lCount[t] >= WRITE
       IN  \/ /\ claimed => lockCount = lCount[t]
              /\ lockCount' = IF claimed THEN lockCount - WRITE ELSE lockCount
              /\ ReturnHolding(t, "nothing")
           \/ claimed /\ lockCount # lCount[t] /\ LoopAgain(t)

Step(t) ==
    \/ Load(t)
    \/ TryLockRead(t)
    \/ UnLockRead(t)
    \/ ClaimWrite(t)
    \/ DrainReaders(t)
    \/ TryLockWrite(t)
    \/ UnLockWrite(t)

Next == \E t \in Threads : CallLock(t) \/ CallUnlock(t) \/ Step(t)

Spec == Init /\ [][Next]_vars

\* A thread inside a method keeps running, and a client that was granted the
\* lock gives it back (CloudLRUCache unlocks on every path).  Nothing makes a
\* client ask for the lock.
FairSpec ==
    /\ Spec
    /\ \A t \in Threads : WF_vars(Step(t)) /\ WF_vars(CallUnlock(t))

----------------------------------------------------------------------------
(* Properties.                                                             *)

\* The threads counted in lockCount: the readers inside, and the writer from
\* the moment it has swapped WRITE in.
Readers == {t \in Threads : holds[t] = "read"}
Claimed == {t \in Threads : holds[t] = "write" \/ pc[t] = "drain"}

\* Every variable keeps its type, and the locals of a method are in the range
\* the method leaves them in.
TypeOK ==
    /\ lockCount \in Int
    /\ call \in [Threads -> LockCalls \cup UnlockCalls \cup {"none"}]
    /\ pc \in [Threads -> {"load", "swap", "drain"}]
    /\ lCount \in [Threads -> Int]
    /\ tryCount \in [Threads -> 0 .. Tries - 1]
    /\ holds \in [Threads -> {"nothing", "read", "write"}]

\* A writer that lockWrite or tryLockWrite has let in is alone: no second
\* writer and no reader is inside between its lock and its unlock.
MutualExclusion ==
    \A w \in Threads : holds[w] = "write" =>
        \A t \in Threads \ {w} : holds[t] = "nothing"

\* The int is exactly the readers inside plus WRITE for a claiming writer: no
\* interleaving of loads and swaps loses or invents a reader or a writer.
CountMatchesHolders ==
    lockCount = Cardinality(Readers) + (IF Claimed = {} THEN 0 ELSE WRITE)

\* unLockWrite's assertion (lCount >= LOCK_FLAG_WRITE) never fails, and
\* unLockRead never finds a count it would spin on for ever (lCount <= 0).
UnlockSeesItsHold ==
    \A t \in Threads : pc[t] = "swap" =>
        /\ call[t] = "unLockWrite" => lCount[t] >= WRITE
        /\ call[t] = "unLockRead" => lCount[t] > 0

\* The int keeps the readers and the writer apart, however loads and swaps of
\* any methods interleave.
LockIsSound == TypeOK /\ MutualExclusion /\ CountMatchesHolders /\ UnlockSeesItsHold

\* Once lockWrite has claimed the lock no reader gets in before that writer:
\* the readers it waits for can only become fewer.
ClaimBarsReaders ==
    [][Claimed # {} => Readers' \subseteq Readers]_vars

\* The lock implements the abstract readers-writer lock.
RW == INSTANCE RWLock
ImplementsRWLock == RW!Spec

\* A writer that has claimed the lock is let in, however often readers and
\* other writers keep asking for it.
WriterGetsIn == \A t \in Threads : (pc[t] = "drain") ~> (holds[t] = "write")
=============================================================================
