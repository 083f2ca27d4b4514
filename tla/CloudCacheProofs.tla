-------------------------- MODULE CloudCacheProofs --------------------------
(***************************************************************************)
(* Proofs about the in-memory cache and its lock.                          *)
(*                                                                         *)
(* The spin lock, for every finite set of threads and every value of       *)
(* LOCK_FLAG_WRITE: mutual exclusion, and that the lock implements the     *)
(* abstract readers-writer lock.  Neither is inductive: the code only ever *)
(* looks at the int, so the argument is that the int counts the holders,   *)
(* whatever the interleaving of loads and swaps.                           *)
(*                                                                         *)
(* The cache, which uses that abstract lock, for any threads, keys and     *)
(* settings: whoever may have to shrink it does, evictions take the oldest *)
(* entries, and only interference makes one raise.  What is hard is that   *)
(* an eviction decides on an unlocked count: the invariants say of each    *)
(* thread what its decision is still worth at each of its steps.           *)
(***************************************************************************)
EXTENDS CloudRWLock, CloudLRUCache, FiniteSetTheorems, SequenceTheorems, TLAPS

----------------------------------------------------------------------------
(* The lock.                                                               *)

\* A thread inside an unlock method still holds what it is giving back, and
\* one inside a lock method holds nothing yet.
CallsMatchGrants ==
    \A t \in Threads :
        /\ call[t] \in LockCalls => holds[t] = "nothing"
        /\ call[t] = "unLockRead" => holds[t] = "read"
        /\ call[t] = "unLockWrite" => holds[t] = "write"
        /\ call[t] = "none" => pc[t] = "load"
        /\ pc[t] = "drain" => call[t] = "lockWrite"

OneClaim == \A s, t \in Claimed : s = t

WriterSeesNoReader == \A w \in Threads : holds[w] = "write" => Readers = {}

IInv ==
    /\ TypeOK
    /\ CallsMatchGrants
    /\ OneClaim
    /\ WriterSeesNoReader
    /\ CountMatchesHolders
    /\ UnlockSeesItsHold

----------------------------------------------------------------------------
(* What the count says about the holders.                                  *)

LEMMA ReadersFinite ==
    /\ IsFiniteSet(Readers)
    /\ Cardinality(Readers) \in Nat
    /\ Cardinality(Readers) = 0 <=> Readers = {}
<1>1. IsFiniteSet(Readers)
    BY ConstantsAssumption, FS_Subset DEF Readers
<1> QED
    BY <1>1, FS_CardinalityType, FS_EmptySet

\* Below WRITE nobody has claimed; at 0 nobody holds anything; WRITE with a
\* claim means that the readers have left.
LEMMA CountMeaning ==
    ASSUME CountMatchesHolders
    PROVE  /\ lockCount \in Nat
           /\ lockCount < WRITE => Claimed = {}
           /\ lockCount = 0 => Claimed = {} /\ Readers = {}
           /\ lockCount = WRITE /\ Claimed # {} => Readers = {}
           /\ Claimed # {} => lockCount >= WRITE
           /\ Readers # {} => lockCount > 0
    BY ReadersFinite, ConstantsAssumption DEF CountMatchesHolders

\* A step that keeps the count and the holders keeps the counting invariant.
LEMMA SameHolders ==
    ASSUME CountMatchesHolders, OneClaim, WriterSeesNoReader,
           UNCHANGED <<lockCount, holds>>, Claimed' = Claimed
    PROVE  CountMatchesHolders' /\ OneClaim' /\ WriterSeesNoReader'
    BY DEF CountMatchesHolders, OneClaim, WriterSeesNoReader, Readers

LEMMA ReaderEnters ==
    ASSUME NEW t \in Threads, TypeOK, CountMatchesHolders, OneClaim,
           holds[t] = "nothing", lockCount < WRITE,
           holds' = [holds EXCEPT ![t] = "read"],
           lockCount' = lockCount + 1,
           Claimed' = Claimed
    PROVE  CountMatchesHolders' /\ OneClaim' /\ WriterSeesNoReader'
<1>1. Claimed = {}
    BY CountMeaning
<1>2. Readers' = Readers \cup {t} /\ t \notin Readers
    BY DEF Readers, TypeOK
<1>3. Cardinality(Readers') = Cardinality(Readers) + 1
    BY <1>2, ReadersFinite, FS_AddElement
<1>4. CountMatchesHolders'
    BY <1>1, <1>3, ReadersFinite DEF CountMatchesHolders
<1>5. OneClaim' /\ WriterSeesNoReader'
    BY <1>1 DEF OneClaim, WriterSeesNoReader, Claimed
<1> QED
    BY <1>4, <1>5

LEMMA ReaderLeaves ==
    ASSUME NEW t \in Threads, TypeOK, CountMatchesHolders, OneClaim,
           WriterSeesNoReader, holds[t] = "read",
           holds' = [holds EXCEPT ![t] = "nothing"],
           lockCount' = lockCount - 1,
           Claimed' = Claimed
    PROVE  CountMatchesHolders' /\ OneClaim' /\ WriterSeesNoReader'
<1>1. Readers' = Readers \ {t} /\ t \in Readers
    BY DEF Readers, TypeOK
<1>2. Cardinality(Readers') = Cardinality(Readers) - 1
    BY <1>1, ReadersFinite, FS_RemoveElement
<1>3. CountMatchesHolders'
    BY <1>2, ReadersFinite, ConstantsAssumption DEF CountMatchesHolders
<1>4. OneClaim' /\ WriterSeesNoReader'
    BY <1>1 DEF OneClaim, WriterSeesNoReader, Readers, TypeOK
<1> QED
    BY <1>3, <1>4

\* From nobody's to t's claim, by lockWrite (t still waits for the readers)
\* or by tryLockWrite (t is in).
LEMMA WriterClaims ==
    ASSUME NEW t \in Threads, TypeOK, CountMatchesHolders, Claimed = {},
           Readers' = Readers, Claimed' = {t},
           lockCount' = lockCount + WRITE,
           \A w \in Threads : holds'[w] = "write" => Readers' = {}
    PROVE  CountMatchesHolders' /\ OneClaim' /\ WriterSeesNoReader'
<1>1. CountMatchesHolders'
    BY ReadersFinite, ConstantsAssumption DEF CountMatchesHolders
<1> QED
    BY <1>1 DEF OneClaim, WriterSeesNoReader

LEMMA WriterLeaves ==
    ASSUME NEW t \in Threads, TypeOK, CountMatchesHolders,
           t \in Claimed, Readers' = Readers, Claimed' = {},
           lockCount' = lockCount - WRITE
    PROVE  CountMatchesHolders' /\ OneClaim' /\ WriterSeesNoReader'
<1>1. CountMatchesHolders'
    BY ReadersFinite, ConstantsAssumption DEF CountMatchesHolders
<1>2. \A w \in Threads : holds'[w] # "write"
    BY DEF Claimed
<1> QED
    BY <1>1, <1>2 DEF OneClaim, WriterSeesNoReader

----------------------------------------------------------------------------
(* The invariant is inductive.                                             *)

LEMMA InitIInv == Init => IInv
<1> SUFFICES ASSUME Init PROVE IInv
    OBVIOUS
<1>1. Readers = {} /\ Claimed = {}
    BY DEF Init, Readers, Claimed
<1>2. CountMatchesHolders
    BY <1>1, FS_EmptySet DEF Init, CountMatchesHolders
<1>3. TypeOK
    BY ConstantsAssumption DEF Init, TypeOK, LockCalls
<1> QED
    BY <1>1, <1>2, <1>3 DEF Init, IInv, CallsMatchGrants, OneClaim,
       WriterSeesNoReader, UnlockSeesItsHold, LockCalls

\* What an action does to the control part of the state.
LEMMA EnterKeeps ==
    ASSUME IInv, NEW t \in Threads, CallLock(t) \/ CallUnlock(t)
    PROVE  IInv'
<1> USE DEF IInv
<1>1. PICK m \in LockCalls \cup UnlockCalls :
        /\ Enter(t, m)
        /\ m \in LockCalls => holds[t] = "nothing"
        /\ m = "unLockRead" => holds[t] = "read"
        /\ m = "unLockWrite" => holds[t] = "write"
    BY DEF CallLock, CallUnlock, UnlockCalls, LockCalls
<1>2. TypeOK'
    BY <1>1 DEF Enter, TypeOK
<1>3. CallsMatchGrants'
    BY <1>1 DEF Enter, CallsMatchGrants, TypeOK, LockCalls, UnlockCalls
<1>4. Claimed' = Claimed
    BY <1>1 DEF Enter, Claimed, CallsMatchGrants, TypeOK
<1>5. CountMatchesHolders' /\ OneClaim' /\ WriterSeesNoReader'
    BY <1>1, <1>4, SameHolders DEF Enter
<1>6. UnlockSeesItsHold'
    BY <1>1 DEF Enter, UnlockSeesItsHold, TypeOK
<1> QED
    BY <1>2, <1>3, <1>5, <1>6

LEMMA LoadKeeps ==
    ASSUME IInv, NEW t \in Threads, Load(t)
    PROVE  IInv'
<1> USE DEF IInv
<1>1. TypeOK'
    BY DEF Load, TypeOK
<1>2. CallsMatchGrants'
    BY DEF Load, CallsMatchGrants, TypeOK
<1>3. Claimed' = Claimed
    BY DEF Load, Claimed, TypeOK
<1>4. CountMatchesHolders' /\ OneClaim' /\ WriterSeesNoReader'
    BY <1>3, SameHolders DEF Load
<1>5. UnlockSeesItsHold'
  <2>1. /\ call[t] = "unLockRead" => lockCount > 0
        /\ call[t] = "unLockWrite" => lockCount >= WRITE
      BY CountMeaning DEF CallsMatchGrants, Readers, Claimed
  <2> QED
      BY <2>1 DEF Load, UnlockSeesItsHold, TypeOK
<1> QED
    BY <1>1, <1>2, <1>4, <1>5

\* A failed round of any method leaves the count and the holders alone.
LEMMA AgainKeeps ==
    ASSUME IInv, NEW t \in Threads, pc[t] = "swap",
           \/ LoopAgain(t)
           \/ TryAgain(t) /\ call[t] \in LockCalls
    PROVE  IInv'
<1> USE DEF IInv
<1>1. TypeOK'
    BY ConstantsAssumption DEF LoopAgain, TryAgain, ReturnHolding, TypeOK
<1>2. CallsMatchGrants'
    BY DEF LoopAgain, TryAgain, ReturnHolding, CallsMatchGrants, TypeOK,
       LockCalls
<1>3. Claimed' = Claimed /\ holds' = holds /\ lockCount' = lockCount
    BY DEF LoopAgain, TryAgain, ReturnHolding, Claimed, CallsMatchGrants,
       TypeOK
<1>4. CountMatchesHolders' /\ OneClaim' /\ WriterSeesNoReader'
    BY <1>3, SameHolders
<1>5. UnlockSeesItsHold'
    BY DEF LoopAgain, TryAgain, ReturnHolding, UnlockSeesItsHold, TypeOK
<1> QED
    BY <1>1, <1>2, <1>4, <1>5

\* A method that returns leaves its thread outside, with its grant.
LEMMA ReturnKeepsControl ==
    ASSUME IInv, NEW t \in Threads, lockCount' \in Int,
           NEW g \in {"nothing", "read", "write"}, ReturnHolding(t, g)
    PROVE  /\ TypeOK' /\ CallsMatchGrants' /\ UnlockSeesItsHold'
           /\ Claimed' = (Claimed \ {t}) \cup (IF g = "write" THEN {t} ELSE {})
           /\ Readers' = (Readers \ {t}) \cup (IF g = "read" THEN {t} ELSE {})
<1> USE DEF IInv
<1>1. TypeOK'
    BY ConstantsAssumption DEF ReturnHolding, TypeOK
<1>2. CallsMatchGrants'
    BY DEF ReturnHolding, CallsMatchGrants, TypeOK, LockCalls
<1>3. UnlockSeesItsHold'
    BY DEF ReturnHolding, UnlockSeesItsHold, TypeOK
<1>4. Claimed' = (Claimed \ {t}) \cup (IF g = "write" THEN {t} ELSE {})
    BY DEF ReturnHolding, Claimed, TypeOK
<1>5. Readers' = (Readers \ {t}) \cup (IF g = "read" THEN {t} ELSE {})
    BY DEF ReturnHolding, Readers, TypeOK
<1> QED
    BY <1>1, <1>2, <1>3, <1>4, <1>5

LEMMA TryLockReadKeeps ==
    ASSUME IInv, NEW t \in Threads, TryLockRead(t)
    PROVE  IInv'
<1> USE DEF IInv
<1>1. CASE ReadCanEnter(t) /\ Swap(t, 1) /\ ReturnHolding(t, "read")
  <2>1. /\ holds[t] = "nothing" /\ lockCount < WRITE
        /\ lockCount' = lockCount + 1 /\ lockCount' \in Int
        /\ holds' = [holds EXCEPT ![t] = "read"]
      BY <1>1 DEF TryLockRead, AtSwap, ReadCanEnter, Swap, ReturnHolding,
         CallsMatchGrants, LockCalls, TypeOK
  <2>2. /\ TypeOK' /\ CallsMatchGrants' /\ UnlockSeesItsHold'
        /\ Claimed' = Claimed \ {t}
      BY <1>1, <2>1, ReturnKeepsControl
  <2>3. Claimed' = Claimed
      BY <2>1, <2>2, CountMeaning
  <2> QED
      BY <2>1, <2>2, <2>3, ReaderEnters
<1>2. CASE TryAgain(t)
    BY <1>2, AgainKeeps DEF TryLockRead, AtSwap, LockCalls
<1> QED
    BY <1>1, <1>2 DEF TryLockRead

LEMMA UnLockReadKeeps ==
    ASSUME IInv, NEW t \in Threads, UnLockRead(t)
    PROVE  IInv'
<1> USE DEF IInv
<1>1. CASE Swap(t, -1) /\ ReturnHolding(t, "nothing")
  <2>1. /\ holds[t] = "read" /\ t \notin Claimed
        /\ lockCount' = lockCount - 1 /\ lockCount' \in Int
        /\ holds' = [holds EXCEPT ![t] = "nothing"]
      BY <1>1 DEF UnLockRead, AtSwap, Swap, ReturnHolding,
         CallsMatchGrants, TypeOK, Claimed
  <2>2. /\ TypeOK' /\ CallsMatchGrants' /\ UnlockSeesItsHold'
        /\ Claimed' = Claimed
      BY <1>1, <2>1, ReturnKeepsControl
  <2> QED
      BY <2>1, <2>2, ReaderLeaves
<1>2. CASE LoopAgain(t)
    BY <1>2, AgainKeeps DEF UnLockRead, AtSwap
<1> QED
    BY <1>1, <1>2 DEF UnLockRead

LEMMA ClaimWriteKeeps ==
    ASSUME IInv, NEW t \in Threads, ClaimWrite(t)
    PROVE  IInv'
<1> USE DEF IInv
<1>1. CASE /\ lCount[t] < WRITE
           /\ Swap(t, WRITE)
           /\ pc' = [pc EXCEPT ![t] = "drain"]
           /\ UNCHANGED <<call, lCount, tryCount, holds>>
  <2>1. /\ call[t] = "lockWrite" /\ holds[t] = "nothing"
        /\ lockCount < WRITE /\ lockCount' = lockCount + WRITE
      BY <1>1 DEF ClaimWrite, AtSwap, Swap, CallsMatchGrants, LockCalls
  <2>2. Claimed = {} /\ Claimed' = {t} /\ Readers' = Readers
      BY <1>1, <2>1, CountMeaning DEF Claimed, Readers, TypeOK
  <2>3. CountMatchesHolders' /\ OneClaim' /\ WriterSeesNoReader'
      BY <1>1, <2>1, <2>2, WriterClaims DEF Claimed
  <2>4. TypeOK'
      BY <1>1, <2>1, ConstantsAssumption DEF TypeOK
  <2>5. CallsMatchGrants' /\ UnlockSeesItsHold'
      BY <1>1, <2>1 DEF CallsMatchGrants, UnlockSeesItsHold, TypeOK
  <2> QED
      BY <2>3, <2>4, <2>5
<1>2. CASE LoopAgain(t)
    BY <1>2, AgainKeeps DEF ClaimWrite, AtSwap
<1> QED
    BY <1>1, <1>2 DEF ClaimWrite

\* WRITE with t's claim on it: the readers have left.
LEMMA DrainReadersKeeps ==
    ASSUME IInv, NEW t \in Threads, DrainReaders(t)
    PROVE  IInv'
<1> USE DEF IInv
<1>1. /\ t \in Claimed /\ Readers = {}
      /\ call[t] = "lockWrite" /\ holds[t] = "nothing"
    BY CountMeaning DEF DrainReaders, DrainDone, Claimed, CallsMatchGrants,
       LockCalls
<1>2. ReturnHolding(t, "write") /\ lockCount' \in Int
    BY DEF DrainReaders, TypeOK
<1>3. /\ TypeOK' /\ CallsMatchGrants' /\ UnlockSeesItsHold'
      /\ Claimed' = (Claimed \ {t}) \cup {t} /\ Readers' = Readers \ {t}
    BY <1>2, ReturnKeepsControl
<1>4. Claimed' = Claimed /\ Readers' = Readers
    BY <1>1, <1>3
<1>5. CountMatchesHolders' /\ OneClaim' /\ WriterSeesNoReader'
    BY <1>1, <1>4
       DEF CountMatchesHolders, OneClaim, WriterSeesNoReader, DrainReaders
<1> QED
    BY <1>3, <1>5

LEMMA TryLockWriteKeeps ==
    ASSUME IInv, NEW t \in Threads, TryLockWrite(t)
    PROVE  IInv'
<1> USE DEF IInv
<1>1. CASE lCount[t] = 0 /\ Swap(t, WRITE) /\ ReturnHolding(t, "write")
  <2>1. lockCount = 0 /\ lockCount' = lockCount + WRITE /\ lockCount' \in Int
      BY <1>1, ConstantsAssumption DEF Swap, TypeOK
  <2>2. Claimed = {} /\ Readers = {}
      BY <2>1, CountMeaning
  <2>3. /\ TypeOK' /\ CallsMatchGrants' /\ UnlockSeesItsHold'
        /\ Claimed' = (Claimed \ {t}) \cup {t} /\ Readers' = Readers \ {t}
      BY <1>1, <2>1, ReturnKeepsControl
  <2>4. CountMatchesHolders' /\ OneClaim' /\ WriterSeesNoReader'
      BY <2>1, <2>2, <2>3, WriterClaims
  <2> QED
      BY <2>3, <2>4
<1>2. CASE TryAgain(t)
    BY <1>2, AgainKeeps DEF TryLockWrite, AtSwap, LockCalls
<1> QED
    BY <1>1, <1>2 DEF TryLockWrite

LEMMA UnLockWriteKeeps ==
    ASSUME IInv, NEW t \in Threads, UnLockWrite(t)
    PROVE  IInv'
<1> USE DEF IInv
<1>1. lCount[t] >= WRITE /\ holds[t] = "write"
    BY DEF UnLockWrite, AtSwap, UnlockSeesItsHold, CallsMatchGrants
<1>2. CASE /\ lockCount = lCount[t]
           /\ lockCount' = lockCount - WRITE
           /\ ReturnHolding(t, "nothing")
  <2>1. t \in Claimed /\ Claimed = {t} /\ t \notin Readers
      BY <1>1 DEF Claimed, Readers, OneClaim
  <2>2. lockCount' \in Int
      BY <1>2, ConstantsAssumption DEF TypeOK
  <2>3. /\ TypeOK' /\ CallsMatchGrants' /\ UnlockSeesItsHold'
        /\ Claimed' = Claimed \ {t} /\ Readers' = Readers \ {t}
      BY <1>2, <2>2, ReturnKeepsControl
  <2>4. CountMatchesHolders' /\ OneClaim' /\ WriterSeesNoReader'
      BY <1>2, <2>1, <2>3, WriterLeaves
  <2> QED
      BY <2>3, <2>4
<1>3. CASE LoopAgain(t)
    BY <1>3, AgainKeeps DEF UnLockWrite, AtSwap
<1> QED
    BY <1>1, <1>2, <1>3 DEF UnLockWrite

LEMMA NextKeepsIInv == IInv /\ [Next]_vars => IInv'
<1> SUFFICES ASSUME IInv, [Next]_vars PROVE IInv'
    OBVIOUS
<1>1. ASSUME NEW t \in Threads, CallLock(t) \/ CallUnlock(t) PROVE IInv'
    BY <1>1, EnterKeeps
<1>2. ASSUME NEW t \in Threads, Step(t) PROVE IInv'
    BY <1>2, LoadKeeps, TryLockReadKeeps, UnLockReadKeeps, ClaimWriteKeeps,
       DrainReadersKeeps, TryLockWriteKeeps, UnLockWriteKeeps DEF Step
<1>3. CASE UNCHANGED vars
    BY <1>3 DEF vars, IInv, TypeOK, CallsMatchGrants, OneClaim,
       WriterSeesNoReader, CountMatchesHolders, UnlockSeesItsHold, Claimed,
       Readers
<1> QED
    BY <1>1, <1>2, <1>3 DEF Next

LEMMA Invariance == Spec => []IInv
    BY InitIInv, NextKeepsIInv, PTL DEF Spec

----------------------------------------------------------------------------
(* The theorems.                                                           *)

\* The variables of the lock keep their types in every execution.
THEOREM TypeCorrect == Spec => []TypeOK
    BY Invariance, PTL DEF IInv

\* The int counts the readers inside and the claiming writer exactly,
\* whatever the interleaving of the loads and swaps.
THEOREM CountIsExact == Spec => []CountMatchesHolders
    BY Invariance, PTL DEF IInv

\* The assertion of unLockWrite never fails and unLockRead never spins on a
\* count that no longer holds its reader.
THEOREM UnlocksAreSafe == Spec => []UnlockSeesItsHold
    BY Invariance, PTL DEF IInv

\* A writer is alone: lockWrite and tryLockWrite return only when no reader
\* and no other writer is inside, and nobody gets in until it unlocks.
THEOREM Exclusion == Spec => []MutualExclusion
<1>1. IInv => MutualExclusion
    BY DEF IInv, TypeOK, OneClaim, WriterSeesNoReader, MutualExclusion,
       Claimed, Readers
<1> QED
    BY <1>1, Invariance, PTL

\* While a writer has claimed the lock, the readers inside only get fewer.
THEOREM ClaimIsABarrier == Spec => ClaimBarsReaders
<1>1. IInv /\ [Next]_vars => [Claimed # {} => Readers' \subseteq Readers]_vars
  <2> SUFFICES ASSUME IInv, Next, Claimed # {}
               PROVE  Readers' \subseteq Readers
      OBVIOUS
  <2>1. lockCount >= WRITE /\ lockCount \in Nat
      BY CountMeaning DEF IInv
  <2>2. PICK t \in Threads : CallLock(t) \/ CallUnlock(t) \/ Step(t)
      BY DEF Next
  <2>3. \/ holds' = holds
        \/ \E g \in {"nothing", "write"} : holds' = [holds EXCEPT ![t] = g]
      BY <2>1, <2>2, ConstantsAssumption
         DEF CallLock, CallUnlock, Enter, Step, Load, TryLockRead, UnLockRead,
             ClaimWrite, DrainReaders, TryLockWrite, UnLockWrite, Swap,
             ReadCanEnter, LoopAgain, TryAgain, ReturnHolding
  <2> QED
      BY <2>3 DEF Readers, IInv, TypeOK
<1> QED
    BY <1>1, Invariance, PTL DEF Spec, ClaimBarsReaders

\* The spin lock implements the readers-writer lock its clients rely on: each
\* successful swap that returns, and the end of a writer's wait, is a grant or
\* a release of the abstract lock, and every other step is a stutter.
THEOREM Refinement == Spec => ImplementsRWLock
<1>1. Init => RW!Init
    BY DEF Init, RW!Init
<1>2. IInv /\ [Next]_vars => [RW!Next]_holds
  <2> SUFFICES ASSUME IInv, NEW t \in Threads,
                      CallLock(t) \/ CallUnlock(t) \/ Step(t)
               PROVE  [RW!Next]_holds
      BY DEF Next, vars
  <2> USE DEF IInv
  <2>1. CASE CallLock(t) \/ CallUnlock(t) \/ Load(t)
      BY <2>1 DEF CallLock, CallUnlock, Enter, Load
  <2>2. ASSUME Claimed = {}
        PROVE  RW!Writers = {}
      BY <2>2 DEF Claimed, RW!Writers
  <2>3. CASE TryLockRead(t)
    <3>1. CASE ReadCanEnter(t) /\ Swap(t, 1) /\ ReturnHolding(t, "read")
      <4>1. holds[t] = "nothing" /\ lockCount < WRITE
          BY <2>3, <3>1 DEF TryLockRead, AtSwap, ReadCanEnter, Swap,
             CallsMatchGrants, LockCalls
      <4>2. RW!GrantRead(t)
          BY <2>2, <3>1, <4>1, CountMeaning DEF RW!GrantRead, ReturnHolding
      <4> QED
          BY <4>2 DEF RW!Next
    <3>2. CASE TryAgain(t)
        BY <2>3, <3>2 DEF TryLockRead, AtSwap, TryAgain, ReturnHolding,
           CallsMatchGrants, LockCalls, TypeOK
    <3> QED
        BY <2>3, <3>1, <3>2 DEF TryLockRead
  <2>4. CASE UnLockRead(t)
    <3>1. CASE ReturnHolding(t, "nothing")
      <4>1. RW!ReleaseRead(t)
          BY <2>4, <3>1 DEF UnLockRead, AtSwap, CallsMatchGrants,
             ReturnHolding, RW!ReleaseRead
      <4> QED
          BY <4>1 DEF RW!Next
    <3> QED
        BY <2>4, <3>1 DEF UnLockRead, LoopAgain
  <2>5. CASE ClaimWrite(t)
      BY <2>5 DEF ClaimWrite, LoopAgain
  <2>6. CASE DrainReaders(t)
    <3>1. t \in Claimed /\ Readers = {} /\ holds[t] = "nothing"
        BY <2>6, CountMeaning DEF DrainReaders, DrainDone, Claimed,
           CallsMatchGrants, LockCalls
    <3>2. RW!Writers = {} /\ RW!Readers = {}
        BY <3>1 DEF RW!Writers, RW!Readers, Readers, OneClaim, Claimed
    <3>3. RW!GrantWrite(t)
        BY <2>6, <3>1, <3>2 DEF DrainReaders, ReturnHolding, RW!GrantWrite
    <3> QED
        BY <3>3 DEF RW!Next
  <2>7. CASE TryLockWrite(t)
    <3>1. CASE lCount[t] = 0 /\ Swap(t, WRITE) /\ ReturnHolding(t, "write")
      <4>1. lockCount = 0 /\ holds[t] = "nothing"
          BY <2>7, <3>1 DEF TryLockWrite, AtSwap, Swap, CallsMatchGrants,
             LockCalls
      <4>2. RW!Writers = {} /\ RW!Readers = {}
          BY <2>2, <4>1, CountMeaning DEF RW!Readers, Readers
      <4>3. RW!GrantWrite(t)
          BY <3>1, <4>1, <4>2 DEF ReturnHolding, RW!GrantWrite
      <4> QED
          BY <4>3 DEF RW!Next
    <3>2. CASE TryAgain(t)
        BY <2>7, <3>2 DEF TryLockWrite, AtSwap, TryAgain, ReturnHolding,
           CallsMatchGrants, LockCalls, TypeOK
    <3> QED
        BY <2>7, <3>1, <3>2 DEF TryLockWrite
  <2>8. CASE UnLockWrite(t)
    <3>1. CASE ReturnHolding(t, "nothing")
      <4>1. RW!ReleaseWrite(t)
          BY <2>8, <3>1 DEF UnLockWrite, AtSwap, CallsMatchGrants,
             ReturnHolding, RW!ReleaseWrite
      <4> QED
          BY <4>1 DEF RW!Next
    <3> QED
        BY <2>8, <3>1 DEF UnLockWrite, LoopAgain
  <2> QED
      BY <2>1, <2>3, <2>4, <2>5, <2>6, <2>7, <2>8 DEF Step
<1> QED
    BY <1>1, <1>2, Invariance, PTL DEF Spec, RW!Spec, ImplementsRWLock

\* The int keeps readers and writer apart, for any threads, any positive WRITE
\* and any number of tries.
THEOREM LockSound == Spec => []LockIsSound
BY TypeCorrect, Exclusion, CountIsExact, UnlocksAreSafe, PTL DEF LockIsSound

----------------------------------------------------------------------------
(* The cache.                                                              *)

Places == {"idle", "insert", "lookup", "remove", "clear", "limit", "inserted",
           "looked", "expiry", "unlock", "count", "evict", "range", "evicting"}

WriteSection == {"inserted", "unlock", "range", "evicting"}

Entry == [time : 0 .. MaxTime, bornTime : 0 .. MaxTime]

Types ==
    /\ DOMAIN cacheDict \subseteq Keys /\ IsFiniteSet(DOMAIN cacheDict)
    /\ \A k \in DOMAIN cacheDict : cacheDict[k] \in Entry
    /\ capacity \in Capacities /\ burst \in Bursts
    /\ clock \in 0 .. MaxTime /\ crashed \in BOOLEAN
    /\ disturbed \in [Users -> BOOLEAN]
    /\ at \in [Users -> Places]
    /\ key \in [Users -> Keys \cup {NoEntry}]
    /\ limit \in [Users -> Nat] /\ first \in [Users -> Nat]
    /\ order \in [Users -> Seq(Keys)]

\* The lock is held in the locked sections and nowhere else, by one writer or
\* by readers; and a key to insert is one.
Sections ==
    /\ granted \in [Users -> {"nothing", "read", "write"}]
    /\ \A t \in Users :
          granted[t] = IF at[t] = "looked" THEN "read"
                     ELSE IF at[t] \in WriteSection THEN "write" ELSE "nothing"
    /\ \A t, u \in Users : t # u /\ granted[t] = "write" => granted[u] = "nothing"
    /\ \A t \in Users : at[t] = "insert" => key[t] \in Keys

\* What was sorted is still what is there.
SortIsCurrent == \A t \in Users : at[t] = "range" => order[t] \in SortedByTime

\* Nothing that is older than v stays.
Oldest(victims) ==
    \A v \in victims : \A k \in DOMAIN cacheDict \ victims :
        cacheDict[v].time <= cacheDict[k].time

\* What is to be evicted is there, and is the oldest part if the range began
\* where the rest ends.
VictimsAreThere ==
    \A t \in Users : at[t] = "evicting" =>
        /\ \A i, j \in 1 .. Len(order[t]) : order[t][i] = order[t][j] => i = j
        /\ Range(order[t]) \subseteq DOMAIN cacheDict
        /\ Count - Len(order[t]) = first[t] => Oldest(Range(order[t]))

\* t is going to see that the cache is too large, or is about to have shrunk it.
WillShrink(t) ==
    \/ at[t] \in {"inserted", "limit", "evict", "range"}
    \/ at[t] = "count" /\ limit[t] <= BurstCount
    \/ at[t] = "evicting" /\ Count - Len(order[t]) <= BurstCount

SomeoneShrinks == Count <= BurstCount \/ \E t \in Users : WillShrink(t)

\* Without interference a decision to evict is right: there is more than stays.
DecisionsHold ==
    \A t \in Users : ~disturbed[t] =>
        /\ at[t] = "count" => capacity <= limit[t]
        /\ at[t] = "evict" => capacity <= Count
        /\ at[t] = "range" => capacity <= Count /\ first[t] = capacity

CacheInv == /\ Types /\ Sections /\ SortIsCurrent /\ VictimsAreThere
        /\ SomeoneShrinks /\ DecisionsHold /\ OnlyInterferenceRaises

----------------------------------------------------------------------------
(* The dictionary and its count.                                           *)

LEMMA Settings ==
    ASSUME Types
    PROVE  /\ capacity \in Nat /\ BurstCount \in Nat
           /\ capacity <= BurstCount
<1>1. capacity \in Nat /\ burst \in Nat \ {0}
    BY LRUAssumption DEF Types
<1>2. capacity \div burst \in Nat
    BY <1>1
<1> QED
    BY <1>1, <1>2 DEF BurstCount

LEMMA CountType == ASSUME Types PROVE Count \in Nat
    BY FS_CardinalityType DEF Types, Count

\* Nobody enters a section while another thread is in one as a writer.
LEMMA Exclusive ==
    ASSUME Sections, NEW t \in Users, NEW u \in Users, t # u, granted[u] = "write"
    PROVE  ~Lock!GrantRead(t) /\ ~Lock!GrantWrite(t) /\ granted[t] # "write"
    BY DEF Sections, Lock!GrantRead, Lock!GrantWrite, Lock!Writers

\* A step of t leaves the places and locals of the others alone.
LEMMA OwnStep ==
    ASSUME NEW t \in Users, CacheStep(t), NEW u \in Users, u # t, Types
    PROVE  /\ at'[u] = at[u] /\ key'[u] = key[u] /\ limit'[u] = limit[u]
           /\ order'[u] = order[u] /\ first'[u] = first[u]
    BY DEF Types, CacheStep, Call, SetCapacity, SetBurst, CacheObject, Inserted, ObjectForKey,
           Looked, Expire, ReturnEntry, RemoveObjectForKey, Clear, UnlockAndReturn,
           ReadSettings, TestCount, SortEntries, TakeRange, EvictNext, Goto, Return, locals

\* A step changes the dictionary under the write lock, or touches an entry
\* under the read lock.
LEMMA WritersWait ==
    ASSUME Types, Sections, NEW t \in Users, CacheStep(t),
           NEW u \in Users, u # t, granted[u] = "write"
    PROVE  UNCHANGED cacheDict
<1>1. ~Lock!GrantRead(t) /\ ~Lock!GrantWrite(t) /\ at[t] # "evicting"
    BY Exclusive DEF Sections, WriteSection
<1> QED
    BY <1>1 DEF CacheStep, Call, SetCapacity, SetBurst, CacheObject, Inserted, ObjectForKey,
           Looked, Expire, ReturnEntry, RemoveObjectForKey, Clear, UnlockAndReturn,
           ReadSettings, TestCount, SortEntries, TakeRange, EvictNext, Goto, Return

\* Only an insertion adds a key, and its thread goes on to evict.
LEMMA OnlyInsertionAdds ==
    ASSUME Types, NEW t \in Users, CacheStep(t)
    PROVE  \/ DOMAIN cacheDict' \subseteq DOMAIN cacheDict
           \/ /\ at[t] = "insert" /\ at'[t] = "inserted"
              /\ DOMAIN cacheDict' = DOMAIN cacheDict \cup {key[t]}
<1>1. CASE CacheObject(t)
    BY <1>1 DEF CacheObject, Goto, Types
<1>2. CASE ObjectForKey(t)
    BY <1>2 DEF ObjectForKey
<1>3. CASE RemoveObjectForKey(t)
    BY <1>3 DEF RemoveObjectForKey, RestrictDomain, Restrict
<1>4. CASE Clear(t)
    BY <1>4 DEF Clear
<1>5. CASE EvictNext(t)
    BY <1>5 DEF EvictNext, RestrictDomain, Restrict
<1> QED
    BY <1>1, <1>2, <1>3, <1>4, <1>5 DEF CacheStep, Call, SetCapacity, SetBurst, Inserted, Looked,
       Expire, ReturnEntry, UnlockAndReturn, ReadSettings, TestCount, SortEntries, TakeRange

\* Every other step leaves as many keys or fewer.
LEMMA CountShrinks ==
    ASSUME Types, NEW t \in Users, CacheStep(t), at'[t] # "inserted"
    PROVE  /\ DOMAIN cacheDict' \subseteq DOMAIN cacheDict
           /\ Count' \in Nat /\ Count' <= Count
<1>1. DOMAIN cacheDict' \subseteq DOMAIN cacheDict
    BY OnlyInsertionAdds
<1>2. IsFiniteSet(DOMAIN cacheDict)
    BY DEF Types
<1>3. IsFiniteSet(DOMAIN cacheDict') /\ Cardinality(DOMAIN cacheDict') <= Cardinality(DOMAIN cacheDict)
    BY <1>1, <1>2, FS_Subset
<1> QED
    BY <1>1, <1>3, FS_CardinalityType DEF Count

\* Evicting one takes one key away.
LEMMA OneLess ==
    ASSUME Types, NEW t \in Users, EvictNext(t), order[t] # << >>,
           Head(order[t]) \in DOMAIN cacheDict
    PROVE  /\ DOMAIN cacheDict' = DOMAIN cacheDict \ {Head(order[t])}
           /\ Count' = Count - 1
           /\ \A k \in DOMAIN cacheDict' : cacheDict'[k] = cacheDict[k]
<1>1. cacheDict' = [x \in DOMAIN cacheDict \ {Head(order[t])} |-> cacheDict[x]]
    BY DEF EvictNext, RestrictDomain, Restrict
<1>2. IsFiniteSet(DOMAIN cacheDict)
    BY DEF Types
<1> QED
    BY <1>1, <1>2, FS_RemoveElement DEF Count

----------------------------------------------------------------------------
(* Types and the lock.                                                     *)

LEMMA InitCacheInv == CacheInit => CacheInv
<1> SUFFICES ASSUME CacheInit PROVE CacheInv
    OBVIOUS
<1>1. DOMAIN cacheDict = {} /\ Count = 0
    BY FS_EmptySet DEF CacheInit, Count
<1>2. Types
  <2>1. IsFiniteSet(DOMAIN cacheDict) /\ (\A k \in DOMAIN cacheDict : cacheDict[k] \in Entry)
    BY <1>1, FS_EmptySet
  <2>2. << >> \in Seq(Keys)
    BY EmptySeq
  <2>3. /\ order \in [Users -> Seq(Keys)] /\ at \in [Users -> Places]
        /\ disturbed \in [Users -> BOOLEAN] /\ key \in [Users -> Keys \cup {NoEntry}]
        /\ limit \in [Users -> Nat] /\ first \in [Users -> Nat]
    BY <2>2 DEF CacheInit, Places
  <2>4. clock \in 0 .. MaxTime
    BY LRUAssumption DEF CacheInit, LRUAssumption
  <2>6. crashed \in BOOLEAN
    BY DEF CacheInit
  <2>5. capacity \in Capacities /\ burst \in Bursts /\ DOMAIN cacheDict \subseteq Keys
    BY <1>1 DEF CacheInit
  <2> QED
    BY <2>1, <2>3, <2>4, <2>5, <2>6 DEF Types
<1>3. Sections
    BY DEF CacheInit, Sections, WriteSection, Lock!Init
<1>4. SomeoneShrinks
    BY <1>1, <1>2, Settings DEF SomeoneShrinks
<1>5. SortIsCurrent /\ VictimsAreThere /\ DecisionsHold /\ OnlyInterferenceRaises
    BY DEF CacheInit, SortIsCurrent, VictimsAreThere, DecisionsHold, OnlyInterferenceRaises
<1> QED
    BY <1>2, <1>3, <1>4, <1>5 DEF CacheInv

LEMMA StepKeepsSections ==
    ASSUME Types, Sections, NEW t \in Users, CacheStep(t)
    PROVE  Sections'
<1> USE DEF Types, Sections, WriteSection
<1>1. CASE Call(t)
    BY <1>1 DEF Call, Goto
<1>2. CASE SetCapacity(t)
    BY <1>2 DEF SetCapacity, Goto, locals
<1>3. CASE SetBurst(t)
    BY <1>3 DEF SetBurst, Goto, locals
<1>4. CASE CacheObject(t)
  <2>1. /\ \A u \in Users : granted[u] = "nothing"
        /\ granted' = [granted EXCEPT ![t] = "write"]
    BY <1>4 DEF CacheObject, Lock!GrantWrite, Lock!Readers, Lock!Writers
  <2>2. at' = [at EXCEPT ![t] = "unlock"] \/ at' = [at EXCEPT ![t] = "inserted"]
    BY <1>4 DEF CacheObject, Goto
  <2> QED
    BY <1>4, <2>1, <2>2 DEF CacheObject, locals
<1>5. CASE Inserted(t)
    BY <1>5 DEF Inserted, Goto, locals, Lock!ReleaseWrite
<1>6. CASE ObjectForKey(t)
    BY <1>6 DEF ObjectForKey, Goto, Lock!GrantRead, Lock!Writers
<1>7. CASE Looked(t)
    BY <1>7 DEF Looked, Goto, locals, Lock!ReleaseRead
<1>8. CASE Expire(t) \/ ReadSettings(t)
    BY <1>8 DEF Expire, ReadSettings, Goto, locals
<1>9. CASE ReturnEntry(t) \/ TestCount(t)
  <2>1. at' = [at EXCEPT ![t] = "idle"] \/ at' = [at EXCEPT ![t] = "evict"]
    BY <1>9 DEF ReturnEntry, TestCount, Return, Goto
  <2>2. at[t] \in {"expiry", "count"} /\ UNCHANGED granted
    BY <1>9 DEF ReturnEntry, TestCount, Goto
  <2>3. \A u \in Users : at'[u] = "insert" => key'[u] = key[u] /\ at[u] = "insert"
    BY <2>1, <2>2, <1>9, OwnStep DEF CacheStep
  <2> QED
    BY <2>1, <2>2, <2>3
<1>10. CASE RemoveObjectForKey(t) \/ Clear(t)
    BY <1>10 DEF RemoveObjectForKey, Clear, Goto, locals, Lock!GrantWrite, Lock!Readers, Lock!Writers
<1>11. CASE UnlockAndReturn(t)
    BY <1>11 DEF UnlockAndReturn, Return, Lock!ReleaseWrite
<1>12. CASE SortEntries(t)
    BY <1>12 DEF SortEntries, Goto, Lock!GrantWrite, Lock!Readers, Lock!Writers
<1>13. CASE TakeRange(t)
    BY <1>13 DEF TakeRange, Goto
<1>14. CASE EvictNext(t)
    BY <1>14 DEF EvictNext
<1> QED
    BY <1>1, <1>2, <1>3, <1>4, <1>5, <1>6, <1>7, <1>8, <1>9, <1>10, <1>11, <1>12, <1>13, <1>14
       DEF CacheStep

LEMMA StepKeepsTypes ==
    ASSUME Types, Sections, NEW t \in Users, CacheStep(t), Disturb(t)
    PROVE  Types'
<1>1. disturbed' \in [Users -> BOOLEAN]
    BY DEF Types, Disturb
<1>2. IsFiniteSet(DOMAIN cacheDict')
  <2>1. IsFiniteSet(DOMAIN cacheDict)
    BY DEF Types
  <2>2. CASE DOMAIN cacheDict' \subseteq DOMAIN cacheDict
    BY <2>1, <2>2, FS_Subset
  <2>3. CASE DOMAIN cacheDict' = DOMAIN cacheDict \cup {key[t]}
    BY <2>1, <2>3, FS_AddElement
  <2> QED
    BY <2>2, <2>3, OnlyInsertionAdds
<1>6. DOMAIN cacheDict' \subseteq Keys
  <2>1. DOMAIN cacheDict \subseteq Keys /\ (at[t] = "insert" => key[t] \in Keys)
    BY DEF Types, Sections
  <2> QED
    BY <2>1, OnlyInsertionAdds
<1>9. capacity \in Nat /\ BurstCount \in Nat
    BY Settings
<1> USE DEF Types
<1>3. at' \in [Users -> Places] /\ key' \in [Users -> Keys \cup {NoEntry}]
    BY ZenonT(60) DEF CacheStep, Call, SetCapacity, SetBurst, CacheObject, Inserted, ObjectForKey,
           Looked, Expire, ReturnEntry, RemoveObjectForKey, Clear, UnlockAndReturn,
           ReadSettings, TestCount, SortEntries, TakeRange, EvictNext, Goto, Return, locals,
           Places
<1>4. capacity' \in Capacities /\ burst' \in Bursts /\ UNCHANGED clock /\ crashed' \in BOOLEAN
    BY DEF CacheStep, Call, SetCapacity, SetBurst, CacheObject, Inserted, ObjectForKey,
           Looked, Expire, ReturnEntry, RemoveObjectForKey, Clear, UnlockAndReturn,
           ReadSettings, TestCount, SortEntries, TakeRange, EvictNext
<1>5. limit' \in [Users -> Nat] /\ first' \in [Users -> Nat]
    BY <1>9
       DEF CacheStep, Call, SetCapacity, SetBurst, CacheObject, Inserted, ObjectForKey,
           Looked, Expire, ReturnEntry, RemoveObjectForKey, Clear, UnlockAndReturn,
           ReadSettings, TestCount, SortEntries, TakeRange, EvictNext, Return, locals
<1>7. \A k \in DOMAIN cacheDict' : cacheDict'[k] \in Entry
  <2>1. CASE CacheObject(t)
    BY <2>1 DEF CacheObject, Entry
  <2>2. CASE ObjectForKey(t)
    <3>1. CASE UNCHANGED cacheDict
        BY <3>1
    <3>2. CASE key[t] \in DOMAIN cacheDict /\ cacheDict' = [cacheDict EXCEPT ![key[t]].time = clock]
      <4>1. /\ DOMAIN cacheDict' = DOMAIN cacheDict
            /\ \A k \in DOMAIN cacheDict : k # key[t] => cacheDict'[k] = cacheDict[k]
            /\ cacheDict'[key[t]] = [cacheDict[key[t]] EXCEPT !.time = clock]
        BY <3>2
      <4>2. [cacheDict[key[t]] EXCEPT !.time = clock] \in Entry
        BY <3>2 DEF Entry
      <4> QED
        BY <4>1, <4>2
    <3> QED
        BY <2>2, <3>1, <3>2 DEF ObjectForKey
  <2>3. CASE RemoveObjectForKey(t)
    BY <2>3 DEF RemoveObjectForKey, RestrictDomain, Restrict
  <2>4. CASE Clear(t)
    BY <2>4 DEF Clear
  <2>5. CASE EvictNext(t)
    BY <2>5 DEF EvictNext, RestrictDomain, Restrict
  <2> QED
    BY <2>1, <2>2, <2>3, <2>4, <2>5 DEF CacheStep, Call, SetCapacity, SetBurst, Inserted, Looked,
       Expire, ReturnEntry, UnlockAndReturn, ReadSettings, TestCount, SortEntries, TakeRange
<1>8. order' \in [Users -> Seq(Keys)]
  <2>1. CASE SortEntries(t)
    <3>1. PICK s \in SortedByTime : order' = [order EXCEPT ![t] = s]
        BY <2>1 DEF SortEntries
    <3>2. s \in [1 .. Count -> DOMAIN cacheDict]
        BY <3>1 DEF SortedByTime, SetToSeqs, Count
    <3>3. Count \in Nat /\ s \in [1 .. Count -> Keys]
        BY <3>2, CountType
    <3>4. s \in Seq(Keys)
        BY <3>3
    <3> QED
        BY <3>1, <3>4
  <2>2. CASE TakeRange(t)
    <3>1. CASE UNCHANGED order
        BY <3>1
    <3>2. CASE order' = [order EXCEPT ![t] =
                            SubSeq(@, first[t] + 1, first[t] + (Len(order[t]) - capacity))]
               /\ RangeFits(Len(order[t]), first[t], Len(order[t]) - capacity)
      <4>1. capacity \in Nat /\ order[t] \in Seq(Keys) /\ Len(order[t]) \in Nat /\ first[t] \in Nat
        BY <1>9
      <4>2. \A i \in first[t] + 1 .. first[t] + (Len(order[t]) - capacity) : order[t][i] \in Keys
        BY <3>2, <4>1, ElementOfSeq DEF RangeFits
      <4>3. SubSeq(order[t], first[t] + 1, first[t] + (Len(order[t]) - capacity)) \in Seq(Keys)
        BY <4>1, <4>2, SubSeqProperties
      <4> QED
        BY <3>2, <4>3
    <3> QED
        BY <2>2, <3>1, <3>2 DEF TakeRange
  <2>3. CASE EvictNext(t)
    <3>1. order[t] # << >> => Tail(order[t]) \in Seq(Keys)
        BY HeadTailProperties
    <3> QED
        BY <2>3, <3>1 DEF EvictNext
  <2>4. << >> \in Seq(Keys)
    BY EmptySeq
  <2> QED
    BY <2>1, <2>2, <2>3, <2>4
       DEF CacheStep, Call, SetCapacity, SetBurst, CacheObject, Inserted, ObjectForKey,
           Looked, Expire, ReturnEntry, RemoveObjectForKey, Clear, UnlockAndReturn,
           ReadSettings, TestCount, Return, locals
<1> QED
    BY <1>1, <1>2, <1>3, <1>4, <1>5, <1>6, <1>7, <1>8

----------------------------------------------------------------------------
(* Evictions.                                                              *)

\* A sort of the keys lists each key once.
LEMMA Sorted ==
    ASSUME Types, NEW s \in SortedByTime
    PROVE  /\ s \in Seq(Keys) /\ Len(s) = Count
           /\ \A i \in 1 .. Count : s[i] \in DOMAIN cacheDict
           /\ \A i, j \in 1 .. Count : s[i] = s[j] => i = j
           /\ \A k \in DOMAIN cacheDict : \E i \in 1 .. Count : s[i] = k
           /\ \A i, j \in 1 .. Count : i < j => cacheDict[s[i]].time >= cacheDict[s[j]].time
<1>1. Count \in Nat /\ IsFiniteSet(DOMAIN cacheDict) /\ DOMAIN cacheDict \subseteq Keys
    BY CountType DEF Types
<1>2. /\ s \in [1 .. Count -> DOMAIN cacheDict]
      /\ \A i, j \in 1 .. Count : i # j => s[i] # s[j]
    BY DEF SortedByTime, SetToSeqs, Count
<1>3. \A i, j \in 1 .. Count : i < j => cacheDict[s[i]].time >= cacheDict[s[j]].time
    BY <1>2 DEF SortedByTime
<1>4. s \in [1 .. Count -> Keys] /\ s \in Seq(Keys)
    BY <1>1, <1>2
<1>5. Len(s) = Count
    BY <1>1, <1>4, LenProperties
<1>6. s \in Injection(1 .. Count, DOMAIN cacheDict)
    BY <1>2 DEF Injection, IsInjective
<1>7. IsFiniteSet(1 .. Count) /\ Cardinality(1 .. Count) = Count
    BY <1>1, FS_Interval
<1>8. s \in Surjection(1 .. Count, DOMAIN cacheDict)
    BY <1>1, <1>6, <1>7, FS_Injection DEF Count
<1>9. \A k \in DOMAIN cacheDict : \E i \in 1 .. Count : s[i] = k
    BY <1>8 DEF Surjection
<1> QED
    BY <1>2, <1>3, <1>4, <1>5, <1>9

\* Only a sort, or a range that raises, leaves its thread at the range.
LEMMA SortedBySelf ==
    ASSUME NEW t \in Users, CacheStep(t), Types, at'[t] = "range"
    PROVE  SortEntries(t) \/ (TakeRange(t) /\ UNCHANGED <<at, order>> /\ crashed')
    BY DEF Types, CacheStep, Call, SetCapacity, SetBurst, CacheObject, Inserted, ObjectForKey,
           Looked, Expire, ReturnEntry, RemoveObjectForKey, Clear, UnlockAndReturn,
           ReadSettings, TestCount, TakeRange, EvictNext, Goto, Return

\* Only the range, and an eviction with more to do, leave their thread evicting.
LEMMA EvictingBySelf ==
    ASSUME NEW t \in Users, CacheStep(t), Types, at'[t] = "evicting"
    PROVE  TakeRange(t) \/ (EvictNext(t) /\ order[t] # << >>)
    BY DEF Types, CacheStep, Call, SetCapacity, SetBurst, CacheObject, Inserted, ObjectForKey,
           Looked, Expire, ReturnEntry, RemoveObjectForKey, Clear, UnlockAndReturn,
           ReadSettings, TestCount, SortEntries, EvictNext, Goto, Return

LEMMA StepKeepsSort ==
    ASSUME Types, Sections, SortIsCurrent, NEW t \in Users, CacheStep(t)
    PROVE  SortIsCurrent'
<1> SUFFICES ASSUME NEW u \in Users, at'[u] = "range"
             PROVE  (order[u] \in SortedByTime)'
    BY DEF SortIsCurrent
<1>1. CASE u = t
  <2>1. CASE SortEntries(t)
    BY <1>1, <2>1 DEF SortEntries, Types, SortedByTime
  <2>2. CASE TakeRange(t) /\ UNCHANGED <<at, order>>
    BY <1>1, <2>2 DEF TakeRange, SortIsCurrent, SortedByTime
  <2> QED
    BY <1>1, <2>1, <2>2, SortedBySelf
<1>2. CASE u # t
  <2>1. at[u] = "range" /\ order'[u] = order[u]
    BY <1>2, OwnStep
  <2>2. UNCHANGED cacheDict
    BY <1>2, <2>1, WritersWait DEF Sections, WriteSection
  <2> QED
    BY <2>1, <2>2 DEF SortIsCurrent, SortedByTime
<1> QED
    BY <1>1, <1>2

\* The victims of TakeRange are a part of what was sorted: as many as there
\* are beyond the capacity.
LEMMA Cut ==
    ASSUME Types, SortIsCurrent, NEW t \in Users, TakeRange(t), at'[t] = "evicting"
    PROVE  /\ Count - Len(order'[t]) = capacity
           /\ \A i \in 1 .. Len(order'[t]) :
                 /\ first[t] + i \in 1 .. Count
                 /\ order'[t][i] = order[t][first[t] + i]
           /\ first[t] \in Nat /\ Len(order'[t]) \in Nat
<1> DEFINE n == Len(order[t])
           length == n - capacity
<1>1. order[t] \in SortedByTime /\ at[t] = "range"
    BY DEF SortIsCurrent, TakeRange, Goto, Types
<1>2. n = Count /\ order[t] \in Seq(Keys) /\ n \in Nat
    BY <1>1, Sorted, CountType
<1>3. capacity \in Nat /\ first[t] \in Nat
    BY Settings DEF Types
<1>4. /\ RangeFits(n, first[t], length)
      /\ order'[t] = SubSeq(order[t], first[t] + 1, first[t] + length)
    BY <1>1 DEF TakeRange, Goto, Types
<1>5. 0 <= length /\ length <= n - first[t] /\ length \in Nat
    BY <1>2, <1>3, <1>4 DEF RangeFits
<1> DEFINE from == first[t] + 1
           to == first[t] + length
<1>6. from \in Int /\ to \in Int /\ to - from + 1 = length
    BY <1>3, <1>5
<1>9. \A i \in from .. to : order[t][i] \in Keys
  <2>1. \A i \in from .. to : i \in 1 .. n
    BY <1>2, <1>3, <1>5
  <2> HIDE DEF from, to, n
  <2>2. \A i \in 1 .. n : order[t][i] \in Keys
    BY <1>2, ElementOfSeq DEF n
  <2> QED
    BY <2>1, <2>2
<1>10. /\ Len(SubSeq(order[t], from, to)) = IF from <= to THEN to - from + 1 ELSE 0
       /\ \A i \in 1 .. to - from + 1 : SubSeq(order[t], from, to)[i] = order[t][from + i - 1]
  <2> HIDE DEF from, to
  <2> QED
    BY <1>6, <1>9, SubSeqProperties
<1>7. Len(order'[t]) = length
  <2>1. Len(order'[t]) = IF from <= to THEN to - from + 1 ELSE 0
    BY <1>4, <1>10
  <2> HIDE DEF from, to, length
  <2> QED
    BY <2>1, <1>5, <1>6
<1>8. \A i \in 1 .. length : order'[t][i] = order[t][first[t] + i]
  <2>1. \A i \in 1 .. length : order'[t][i] = order[t][from + i - 1]
    <3>1. order'[t] = SubSeq(order[t], from, to)
        BY <1>4
    <3> HIDE DEF from, to, length
    <3> QED
        BY <3>1, <1>6, <1>10
  <2>2. \A i \in 1 .. length : from + i - 1 = first[t] + i
    BY <1>3, <1>5
  <2> QED
    BY <2>1, <2>2
<1> QED
    BY <1>2, <1>3, <1>5, <1>7, <1>8, SMTT(30)

LEMMA StepKeepsVictims ==
    ASSUME Types, Types', Sections, SortIsCurrent, VictimsAreThere,
           NEW t \in Users, CacheStep(t)
    PROVE  VictimsAreThere'
<1> SUFFICES ASSUME NEW u \in Users, at'[u] = "evicting"
             PROVE  /\ \A i, j \in 1 .. Len(order'[u]) : order'[u][i] = order'[u][j] => i = j
                    /\ Range(order'[u]) \subseteq DOMAIN cacheDict'
                    /\ Count' - Len(order'[u]) = first'[u] => Oldest(Range(order[u]))'
    BY DEF VictimsAreThere
<1> DEFINE o == order[u]
           p == order'[u]
<1>p. p \in Seq(Keys) /\ o \in Seq(Keys) /\ Len(p) \in Nat /\ Len(o) \in Nat
    BY DEF Types
<1>r. /\ Range(p) = {p[i] : i \in 1 .. Len(p)}
      /\ Range(o) = {o[i] : i \in 1 .. Len(o)}
    BY <1>p, LenProperties DEF Range
<1>c. Count \in Nat
    BY CountType
<1>1. CASE u = t /\ TakeRange(t)
  <2> DEFINE f == first[t]
  <2>1. o \in SortedByTime
    BY <1>1 DEF SortIsCurrent, TakeRange, Goto, Types
  <2>2. /\ \A i \in 1 .. Len(p) : f + i \in 1 .. Count /\ p[i] = o[f + i]
        /\ f \in Nat
    BY <1>1, Cut
  <2>3. UNCHANGED <<cacheDict, first>> /\ Count' = Count
    BY <1>1 DEF TakeRange, Count
  <2>4. \A i \in 1 .. Count : o[i] \in DOMAIN cacheDict
    BY <2>1, Sorted
  <2>5. \A i, j \in 1 .. Count : o[i] = o[j] => i = j
    BY <2>1, Sorted
  <2>6. \A k \in DOMAIN cacheDict : \E i \in 1 .. Count : o[i] = k
    BY <2>1, Sorted
  <2>7. \A i, j \in 1 .. Count : i < j => cacheDict[o[i]].time >= cacheDict[o[j]].time
    BY <2>1, Sorted
  <2> HIDE DEF o, p, f
  <2>8. \A i, j \in 1 .. Len(p) : p[i] = p[j] => i = j
    BY <2>2, <2>5, <1>p
  <2>9. Range(p) \subseteq DOMAIN cacheDict
    BY <1>r, <2>2, <2>4
  <2>10. ASSUME Count - Len(p) = f, NEW v \in Range(p), NEW k \in DOMAIN cacheDict \ Range(p)
         PROVE  cacheDict[v].time <= cacheDict[k].time
    <3>1. PICK i \in 1 .. Len(p) : v = p[i]
        BY <1>r
    <3>2. PICK j \in 1 .. Count : k = o[j]
        BY <2>6
    <3>3. j <= f
      <4>1. SUFFICES ASSUME j > f PROVE FALSE
        BY <2>2, <1>c
      <4>2. j - f \in 1 .. Len(p) /\ f + (j - f) = j
        BY <4>1, <2>10, <2>2, <1>c, <1>p
      <4>3. k = p[j - f]
        BY <4>2, <2>2, <3>2
      <4> QED
        BY <4>2, <4>3, <1>r
    <3>4. f + i \in 1 .. Count /\ v = o[f + i] /\ j < f + i
        BY <2>2, <3>1, <3>3, <1>p, <1>c
    <3>5. cacheDict[k].time >= cacheDict[v].time
        BY <3>2, <3>4, <2>7
    <3>6. k \in DOMAIN cacheDict /\ v \in DOMAIN cacheDict
        BY <2>9
    <3>7. cacheDict[k].time \in Int /\ cacheDict[v].time \in Int
      <4>1. cacheDict[k] \in Entry /\ cacheDict[v] \in Entry
        BY <3>6 DEF Types
      <4> QED
        BY <4>1 DEF Entry
    <3> QED
        BY <3>5, <3>7
  <2> QED
    BY <1>1, <2>3, <2>8, <2>9, <2>10 DEF o, p, f, Oldest
<1>2. CASE u = t /\ EvictNext(t) /\ o # << >>
  <2> DEFINE h == Head(o)
  <2>1. /\ at[t] = "evicting" /\ p = Tail(o)
        /\ UNCHANGED first
    BY <1>2 DEF EvictNext, Types
  <2>2. /\ \A i, j \in 1 .. Len(o) : o[i] = o[j] => i = j
        /\ Range(o) \subseteq DOMAIN cacheDict
        /\ Count - Len(o) = first[t] => Oldest(Range(o))
    BY <1>2, <2>1 DEF VictimsAreThere
  <2>3. h = o[1] /\ Len(o) > 0
    BY <1>2, <1>p, EmptySeq
  <2>4. Len(p) = Len(o) - 1 /\ \A i \in 1 .. Len(p) : p[i] = o[i + 1]
    BY <1>2, <1>p, <2>1, HeadTailProperties
  <2>5. h \in DOMAIN cacheDict
    BY <2>2, <2>3, <1>r, <1>p
  <2>6. /\ DOMAIN cacheDict' = DOMAIN cacheDict \ {h}
        /\ Count' = Count - 1
        /\ \A k \in DOMAIN cacheDict' : cacheDict'[k] = cacheDict[k]
    BY <1>2, <2>5, OneLess
  <2> HIDE DEF o, p, h
  <2>7. Range(p) = Range(o) \ {h}
    <3>1. \A i \in 1 .. Len(p) : i + 1 \in 1 .. Len(o) /\ o[i + 1] # o[1]
        BY <1>p, <2>2, <2>3, <2>4
    <3>2. \A i \in 1 .. Len(o) : o[i] = h \/ (i - 1 \in 1 .. Len(p) /\ p[i - 1] = o[i])
      <4>1. SUFFICES ASSUME NEW i \in 1 .. Len(o), i # 1
                     PROVE  i - 1 \in 1 .. Len(p) /\ p[i - 1] = o[i]
        BY <2>3
      <4>2. i - 1 \in 1 .. Len(p) /\ (i - 1) + 1 = i
        BY <4>1, <1>p, <2>4
      <4> QED
        BY <4>2, <2>4
    <3> QED
        BY <3>1, <3>2, <1>r, <2>3, <2>4
  <2>8. \A i, j \in 1 .. Len(p) : p[i] = p[j] => i = j
    <3> SUFFICES ASSUME NEW i \in 1 .. Len(p), NEW j \in 1 .. Len(p), p[i] = p[j]
                 PROVE  i = j
        OBVIOUS
    <3>1. i + 1 \in 1 .. Len(o) /\ j + 1 \in 1 .. Len(o) /\ o[i + 1] = o[j + 1]
        BY <1>p, <2>4
    <3> QED
        BY <3>1, <2>2
  <2>9. ASSUME Count' - Len(p) = first'[u], NEW v \in Range(p), NEW k \in DOMAIN cacheDict' \ Range(p)
        PROVE  cacheDict'[v].time <= cacheDict'[k].time
    <3>1. Count - Len(o) = first[t]
        BY <1>2, <1>c, <1>p, <2>1, <2>4, <2>6, <2>9
    <3>2. v \in Range(o) /\ k \in DOMAIN cacheDict \ Range(o)
        BY <2>6, <2>7
    <3>3. cacheDict[v].time <= cacheDict[k].time
        BY <3>1, <3>2, <2>2 DEF Oldest
    <3>4. v \in DOMAIN cacheDict' /\ k \in DOMAIN cacheDict'
        BY <2>2, <2>6, <2>7
    <3> QED
        BY <3>3, <3>4, <2>6
  <2> QED
    BY <2>2, <2>6, <2>7, <2>8, <2>9 DEF p, Oldest
<1>3. CASE u # t
  <2>1. at[u] = "evicting" /\ p = o /\ first'[u] = first[u]
    BY <1>3, OwnStep
  <2>2. UNCHANGED cacheDict /\ Count' = Count
    BY <1>3, <2>1, WritersWait DEF Sections, WriteSection, Count
  <2> QED
    BY <2>1, <2>2 DEF VictimsAreThere, Oldest
<1> QED
    BY <1>1, <1>2, <1>3, EvictingBySelf

\* Whoever adds a key or changes a setting goes on to shrink the cache, and who
\* is to shrink it goes on until it is small enough.
LEMMA StepKeepsShrinking ==
    ASSUME Types, Types', Sections, SortIsCurrent, VictimsAreThere, SomeoneShrinks,
           NEW t \in Users, CacheStep(t)
    PROVE  SomeoneShrinks'
<1>1. capacity \in Nat /\ BurstCount \in Nat /\ capacity <= BurstCount /\ Count \in Nat
    BY Settings, CountType
<1>2. CASE at'[t] \in {"inserted", "limit", "evict", "range"}
    BY <1>2 DEF SomeoneShrinks, WillShrink
<1>3. CASE at'[t] \notin {"inserted", "limit", "evict", "range"}
  <2>1. Count' \in Nat /\ Count' <= Count
    BY <1>3, CountShrinks
  <2>2. UNCHANGED <<capacity, burst>> /\ BurstCount' = BurstCount
    BY <1>3 DEF Types, CacheStep, Call, SetCapacity, SetBurst, CacheObject, Inserted, ObjectForKey,
           Looked, Expire, ReturnEntry, RemoveObjectForKey, Clear, UnlockAndReturn,
           ReadSettings, TestCount, SortEntries, TakeRange, EvictNext, Goto, Return, BurstCount
  <2>3. SUFFICES ASSUME ~(Count' <= BurstCount') PROVE \E u \in Users : WillShrink(u)'
    BY DEF SomeoneShrinks
  <2>4. ~(Count <= BurstCount)
    BY <1>1, <2>1, <2>2, <2>3
  <2>5. PICK u \in Users : WillShrink(u)
    BY <2>4 DEF SomeoneShrinks
  <2>6. CASE u # t
    <3>1. at'[u] = at[u] /\ limit'[u] = limit[u] /\ order'[u] = order[u]
        BY <2>6, OwnStep
    <3>2. order[u] \in Seq(Keys) /\ Len(order[u]) \in Nat
        BY DEF Types
    <3>3. Count - Len(order[u]) <= BurstCount => Count' - Len(order'[u]) <= BurstCount'
        BY <1>1, <2>1, <2>2, <3>1, <3>2
    <3> QED
        BY <2>2, <2>5, <3>1, <3>3 DEF WillShrink
  <2>7. CASE u = t
    <3>1. CASE ReadSettings(t)
        BY <1>1, <2>2, <3>1 DEF ReadSettings, Goto, Types, WillShrink
    <3>2. CASE TestCount(t)
      <4>1. at[t] = "count" /\ limit[t] <= BurstCount /\ limit[t] \in Nat
        BY <2>5, <2>7, <3>2 DEF TestCount, Goto, WillShrink, Types
      <4>2. ~(Count <= limit[t])
        BY <4>1, <2>4, <1>1
      <4> QED
        BY <4>2, <3>2, <1>3 DEF TestCount, Goto, Types
    <3>3. CASE TakeRange(t)
      <4>1. at'[t] = "evicting" /\ Count' = Count
        BY <1>3, <3>3 DEF TakeRange, Goto, Types, Count
      <4>2. Count - Len(order'[t]) = capacity
        BY <3>3, <4>1, Cut
      <4> QED
        BY <1>1, <2>2, <4>1, <4>2 DEF WillShrink
    <3>4. CASE EvictNext(t)
      <4>1. at[t] = "evicting" /\ Count - Len(order[t]) <= BurstCount
        BY <2>5, <2>7, <3>4 DEF EvictNext, WillShrink
      <4>2. order[t] \in Seq(Keys) /\ Len(order[t]) \in Nat
        BY DEF Types
      <4>3. order[t] # << >>
        BY <1>1, <2>4, <4>1, EmptySeq
      <4>4. Head(order[t]) \in DOMAIN cacheDict
        <5>1. Head(order[t]) = order[t][1] /\ 1 \in DOMAIN order[t]
            BY <4>2, <4>3, EmptySeq
        <5>2. Range(order[t]) \subseteq DOMAIN cacheDict
            BY <4>1 DEF VictimsAreThere
        <5> QED
            BY <5>1, <5>2 DEF Range
      <4>5. Count' = Count - 1
        BY <3>4, <4>3, <4>4, OneLess
      <4>6. at'[t] = "evicting" /\ order'[t] = Tail(order[t])
        BY <3>4, <4>1, <4>3 DEF EvictNext, Types
      <4>7. Len(order'[t]) = Len(order[t]) - 1
        BY <4>2, <4>3, <4>6, HeadTailProperties
      <4>8. Count' - Len(order'[t]) <= BurstCount'
        BY <1>1, <2>2, <4>1, <4>2, <4>5, <4>7
      <4> QED
        BY <4>6, <4>8 DEF WillShrink
    <3> QED
        BY <1>3, <2>5, <2>7, <3>1, <3>2, <3>3, <3>4
           DEF Types, WillShrink, CacheStep, Call, SetCapacity, SetBurst, CacheObject, Inserted,
               ObjectForKey, Looked, Expire, ReturnEntry, RemoveObjectForKey, Clear,
               UnlockAndReturn, SortEntries, Goto, Return
  <2> QED
    BY <2>6, <2>7
<1> QED
    BY <1>2, <1>3

\* What others do to a decision is noted in disturbed; what its own thread does
\* keeps it right.
LEMMA StepKeepsDecisions ==
    ASSUME Types, Types', Sections, SortIsCurrent, DecisionsHold,
           NEW t \in Users, CacheStep(t), Disturb(t)
    PROVE  DecisionsHold'
<1> SUFFICES ASSUME NEW u \in Users, ~disturbed'[u],
                    at'[u] \in {"count", "evict", "range"}
             PROVE  /\ at'[u] = "count" => capacity' <= limit'[u]
                    /\ at'[u] = "evict" => capacity' <= Count'
                    /\ at'[u] = "range" => capacity' <= Count' /\ first'[u] = capacity'
    BY DEF DecisionsHold
<1>1. capacity \in Nat /\ BurstCount \in Nat /\ capacity <= BurstCount /\ Count \in Nat
    BY Settings, CountType
<1>2. ~disturbed[u] /\ (u # t => capacity' = capacity /\ DOMAIN cacheDict \subseteq DOMAIN cacheDict')
    BY DEF Disturb
<1>3. CASE u # t
  <2>1. at'[u] = at[u] /\ limit'[u] = limit[u] /\ first'[u] = first[u]
    BY <1>3, OwnStep
  <2>2. Count' \in Nat /\ Count <= Count'
    <3>1. IsFiniteSet(DOMAIN cacheDict')
        BY DEF Types
    <3> QED
        BY <1>2, <1>3, <3>1, FS_Subset, FS_CardinalityType DEF Count
  <2> QED
    BY <1>1, <1>2, <1>3, <2>1, <2>2 DEF DecisionsHold
<1>4. CASE u = t
  <2>1. CASE ReadSettings(t)
    BY <1>1, <1>4, <2>1 DEF ReadSettings, Goto, Types
  <2>2. CASE TestCount(t)
    <3>1. at[t] = "count" /\ at'[t] = "evict" /\ ~(Count <= limit[t]) /\ UNCHANGED <<capacity, cacheDict>>
        BY <1>4, <2>2 DEF TestCount, Goto, Return, Types
    <3>2. capacity <= limit[t] /\ limit[t] \in Nat
        BY <1>2, <1>4, <3>1 DEF DecisionsHold, Types
    <3> QED
        BY <1>1, <1>4, <3>1, <3>2 DEF Count
  <2>3. CASE SortEntries(t)
    BY <1>2, <1>4, <2>3 DEF SortEntries, Goto, Types, DecisionsHold, Count
  <2>4. CASE TakeRange(t)
    BY <1>2, <1>4, <2>4 DEF TakeRange, Goto, Types, DecisionsHold, Count
  <2> QED
    BY <1>4, <2>1, <2>2, <2>3, <2>4
       DEF Types, CacheStep, Call, SetCapacity, SetBurst, CacheObject, Inserted,
           ObjectForKey, Looked, Expire, ReturnEntry, RemoveObjectForKey, Clear,
           UnlockAndReturn, EvictNext, Goto, Return
<1> QED
    BY <1>3, <1>4

\* A range that was decided on without interference fits.
LEMMA StepKeepsRaises ==
    ASSUME Types, Types', SortIsCurrent, DecisionsHold, ~crashed,
           NEW t \in Users, CacheStep(t), Disturb(t)
    PROVE  OnlyInterferenceRaises'
<1> SUFFICES ASSUME crashed' PROVE \E u \in Users : at'[u] = "range" /\ disturbed'[u]
    BY DEF OnlyInterferenceRaises
<1>1. /\ TakeRange(t) /\ at[t] = "range" /\ at' = at
      /\ UNCHANGED capacity
      /\ ~RangeFits(Len(order[t]), first[t], Len(order[t]) - capacity)
    BY DEF Types, CacheStep, Call, SetCapacity, SetBurst, CacheObject, Inserted, ObjectForKey, Looked,
           Expire, ReturnEntry, RemoveObjectForKey, Clear, UnlockAndReturn, ReadSettings,
           TestCount, SortEntries, TakeRange, EvictNext
<1>2. capacity \in Nat /\ Count \in Nat
    BY Settings, CountType
<1>3. Len(order[t]) = Count
    BY <1>1, Sorted DEF SortIsCurrent
<1>4. ~(capacity <= Count /\ first[t] = capacity)
    BY <1>1, <1>2, <1>3 DEF RangeFits
<1>5. disturbed[t]
    BY <1>1, <1>4 DEF DecisionsHold
<1>6. disturbed'[t]
    BY <1>1, <1>5 DEF Disturb
<1> QED
    BY <1>1, <1>6

----------------------------------------------------------------------------
LEMMA NextKeepsCacheInv == CacheInv /\ [CacheNext]_cacheVars => CacheInv'
<1> SUFFICES ASSUME CacheInv, [CacheNext]_cacheVars PROVE CacheInv'
    OBVIOUS
<1>1. CASE UNCHANGED cacheVars
    BY <1>1
       DEF CacheInv, cacheVars, Types, Sections, SortIsCurrent, VictimsAreThere, SomeoneShrinks,
           DecisionsHold, OnlyInterferenceRaises, WillShrink, Oldest, SortedByTime, Count, BurstCount
<1>2. CASE Tick /\ UNCHANGED disturbed
  <2>1. UNCHANGED <<cacheDict, capacity, burst, granted, at, locals, crashed, disturbed>>
        /\ clock' \in 0 .. MaxTime
    BY <1>2 DEF Tick
  <2> QED
    BY <2>1
       DEF CacheInv, locals, Types, Sections, SortIsCurrent, VictimsAreThere, SomeoneShrinks,
           DecisionsHold, OnlyInterferenceRaises, WillShrink, Oldest, SortedByTime, Count, BurstCount
<1>3. ASSUME NEW t \in Users, CacheStep(t), Disturb(t), ~crashed
      PROVE  CacheInv'
  <2>1. Types'
    BY <1>3, StepKeepsTypes DEF CacheInv
  <2> QED
    BY <1>3, <2>1, StepKeepsSections, StepKeepsSort, StepKeepsVictims, StepKeepsShrinking,
       StepKeepsDecisions, StepKeepsRaises DEF CacheInv
<1> QED
    BY <1>1, <1>2, <1>3 DEF CacheNext

LEMMA CacheInvariance == CacheSpec => []CacheInv
    BY InitCacheInv, NextKeepsCacheInv, PTL DEF CacheSpec

\* Whenever nobody is inside a method the cache is within its burst limit, for
\* any threads, keys and changes of the settings: no overlap of insertions,
\* unlocked tests and evictions leaves an overflow behind.
THEOREM BurstLimit == CacheSpec => []QuiescentWithinBurst
<1>1. CacheInv => QuiescentWithinBurst
    BY DEF CacheInv, SomeoneShrinks, WillShrink, QuiescentWithinBurst
<1> QED
    BY <1>1, CacheInvariance, PTL

\* An eviction takes what is there, and nothing older stays.
THEOREM EvictsTheOldest == CacheSpec => []EvictionIsSound
<1>1. CacheInv => CacheTypeOK
    BY DEF CacheInv, Types, Sections, WriteSection, CacheTypeOK, Entry
<1>2. CacheInv => VictimsAreOldest
    BY DEF CacheInv, VictimsAreThere, Oldest, VictimsAreOldest
<1> QED
    BY <1>1, <1>2, CacheInvariance, PTL DEF EvictionIsSound

\* An eviction that nobody disturbs never asks for a range that is not there.
THEOREM UndisturbedNeverRaises == CacheSpec => []OnlyInterferenceRaises
    BY CacheInvariance, PTL DEF CacheInv

=============================================================================
