---------------------------- MODULE CloudFileHandle ----------------------------
(***************************************************************************)
(* AlbumTest's file handles: CloudDiskFileHandle computes the digest of a  *)
(* file block by block, on a CloudLocalFileHandle (a file) or on a         *)
(* CloudAssetFileHandle, whose asset arrives later in a callback of        *)
(* ALAssetsLibrary while readers wait for it on a semaphore.               *)
(*                                                                         *)
(* A file is the sequence 1..size; a digest is the sequence of bytes it    *)
(* was fed.  Callback and readers interleave between any two steps; the    *)
(* body of one read is one step, because the code offers no protection for *)
(* two readers moving the offset of one handle, and no property is about   *)
(* the data two such readers get.                                          *)
(***************************************************************************)
EXTENDS Integers, Sequences, FiniteSets

CONSTANTS Threads,    \* the threads that may hold the handle
          UserSets,   \* bound: which of them may hold it together
          BlockSize,  \* BUF_SIZE_512K
          Sizes,      \* bound: the sizes of a file
          MaxOps      \* bound: the calls one thread makes

ASSUME CloudFileHandleAssumption ==
    /\ IsFiniteSet(Threads)
    /\ UserSets \subseteq (SUBSET Threads) \ {{}}
    /\ BlockSize \in Nat \ {0}
    /\ Sizes \subseteq Nat /\ MaxOps \in Nat

VARIABLES
    users,    \* the threads that use the handle in this behaviour
    kind,     \* the class classForPath: chose
    size,     \* the size of the file
    answer,   \* what the library will answer (the environment's)
    asset,    \* self.asset # nil
    lock,     \* self.lock
    sema,     \* the value of the semaphore
    error,    \* self.error # nil
    offset,   \* self.offset
    callback, \* the next statement of the library's block
    pc,       \* where each thread is
    op,       \* the call each thread is in
    ops,      \* how many calls each thread has begun
    digest    \* each thread's calculateMD5:andSHA: (the locals and the history)

handleVars == <<users, kind, size, answer>>
assetVars  == <<asset, lock, sema, callback>>
threadVars == <<pc, op, ops, digest>>
vars == <<handleVars, assetVars, error, offset, threadVars>>

Kinds   == {"asset", "local"}
Answers == {"found", "missing", "failed"}
Lone    == Cardinality(users) = 1
File    == [i \in 1..size |-> i]

\* The locals of calculateMD5:andSHA: (origin, what the digest was fed, the
\* length of the last block, the value returned) and two history fields: whether
\* the handle already had an error when it began, and what failed underneath it.
NewDigest(origin, dirty) ==
    [origin |-> origin, fed |-> <<>>, last |-> 0, result |-> "none", dirty |-> dirty, fault |-> "none"]

-----------------------------------------------------------------------------
\* initWithPathForReading: of the class classForPath: names.  The asset handle
\* asks the library at once, with lock set first.  A local handle waits for
\* nobody, so that a second thread on it would add nothing.
Init ==
    /\ users \in UserSets
    /\ kind \in (IF Lone THEN Kinds ELSE {"asset"})
    /\ size \in Sizes
    /\ answer \in Answers
    /\ asset = FALSE
    /\ lock = (kind = "asset")
    /\ sema = 0
    /\ error = FALSE
    /\ offset = 0
    /\ callback = IF kind = "asset" THEN "asset" ELSE "done"
    /\ pc = [t \in Threads |-> "idle"]
    /\ op = [t \in Threads |-> "none"]
    /\ ops = [t \in Threads |-> 0]
    /\ digest = [t \in Threads |-> NewDigest(0, FALSE)]

-----------------------------------------------------------------------------
\* The library's block, on a thread of its own: the result block sets the asset
\* (nil when the library knows no such asset), clears lock and signals; the
\* failure block clears lock before it stores the error.
GiveAsset ==
    /\ callback = "asset"
    /\ asset' = (answer = "found")
    /\ callback' = "unlock"
    /\ UNCHANGED <<lock, sema, error>>

ClearLock ==
    /\ callback = "unlock"
    /\ lock' = FALSE
    /\ callback' = IF answer = "failed" THEN "error" ELSE "signal"
    /\ UNCHANGED <<asset, sema, error>>

StoreError ==
    /\ callback = "error"
    /\ error' = TRUE
    /\ callback' = "signal"
    /\ UNCHANGED <<asset, lock, sema>>

\* Mutant: the failure block returns without signalling.
Signal_OnlyResult ==
    /\ callback = "signal"
    /\ sema' = IF answer = "failed" THEN sema ELSE sema + 1
    /\ callback' = "done"
    /\ UNCHANGED <<asset, lock, error>>

Signal ==
    /\ callback = "signal"
    /\ sema' = sema + 1
    /\ callback' = "done"
    /\ UNCHANGED <<asset, lock, error>>

Callback ==
    /\ GiveAsset \/ ClearLock \/ StoreError \/ Signal
    /\ UNCHANGED <<handleVars, offset, threadVars>>

-----------------------------------------------------------------------------
\* The calls of a user of the handle; a digest is forgotten when the next call
\* begins.  seekToFileOffset: moves the offset at
\* once; the others begin by waiting for the asset, on an asset handle.
Enter(t, call) ==
    /\ pc[t] = "idle" /\ t \in users /\ ops[t] < MaxOps
    /\ ops' = [ops EXCEPT ![t] = @ + 1]
    /\ op' = [op EXCEPT ![t] = call]
    /\ digest' = [digest EXCEPT ![t] = NewDigest(offset, error)]

SeekToFileOffset(t) ==
    /\ Enter(t, "seek")
    /\ offset' \in {1, size}
    /\ UNCHANGED <<handleVars, assetVars, error, pc>>

SeekToEndOfFile(t) ==
    /\ Enter(t, "end")
    /\ pc' = [pc EXCEPT ![t] = "wait"]
    /\ UNCHANGED <<handleVars, assetVars, error, offset>>

ReadCall(t) ==
    /\ Enter(t, "read")
    /\ pc' = [pc EXCEPT ![t] = "wait"]
    /\ UNCHANGED <<handleVars, assetVars, error, offset>>

\* calculateMD5:andSHA: up to the loop: the offset is saved, then set to 0.
Calculate(t) ==
    /\ Enter(t, "hash")
    /\ offset' = 0
    /\ pc' = [pc EXCEPT ![t] = "wait"]
    /\ UNCHANGED <<handleVars, assetVars, error>>

\* Mutant: waitForAsset tests whether the asset was asked for, not whether it came.
WaitForAsset_NoWait(t) ==
    /\ pc[t] = "wait"
    /\ pc' = [pc EXCEPT ![t] = "ready"]
    /\ UNCHANGED <<handleVars, assetVars, error, offset, op, ops, digest>>

\* waitForAsset: lock is tested first, the semaphore waited for after it.
WaitForAsset(t) ==
    /\ pc[t] = "wait"
    /\ pc' = [pc EXCEPT ![t] = IF lock THEN "blocked" ELSE "ready"]
    /\ UNCHANGED <<handleVars, assetVars, error, offset, op, ops, digest>>

\* dispatch_semaphore_wait returns.  The reader does not signal in its turn.
Wake(t) ==
    /\ pc[t] = "blocked"
    /\ sema > 0
    /\ sema' = sema - 1
    /\ pc' = [pc EXCEPT ![t] = "ready"]
    /\ UNCHANGED <<handleVars, asset, lock, callback, error, offset, op, ops, digest>>

\* seekToEndOfFile after the wait; the size of nil is 0.
AtEnd(t) ==
    /\ pc[t] = "ready" /\ op[t] = "end"
    /\ offset' = CASE kind = "asset" /\ error  -> offset
                   [] kind = "asset" /\ ~asset -> 0
                   [] OTHER                    -> size
    /\ pc' = [pc EXCEPT ![t] = "idle"]
    /\ UNCHANGED <<handleVars, assetVars, error, op, ops, digest>>

-----------------------------------------------------------------------------
Least(a, b) == IF a < b THEN a ELSE b
Available == IF offset < size THEN Least(BlockSize, size - offset) ELSE 0

\* What a read of one block leaves: the thread goes back to its caller, the
\* digest loop with the bytes read or the user.
Return(t, bytes, fault) ==
    /\ pc' = [pc EXCEPT ![t] = IF op[t] = "hash" THEN "loop" ELSE "idle"]
    /\ digest' = IF op[t] = "hash"
                 THEN [digest EXCEPT ![t].fed = @ \o bytes,
                                     ![t].last = Len(bytes),
                                     ![t].fault = IF fault = "none" THEN @ ELSE fault]
                 ELSE digest
    /\ UNCHANGED <<handleVars, assetVars, op, ops>>

Reading(t) == pc[t] = "ready" /\ op[t] \in {"read", "hash"}

\* A read at the offset, as the file answers it.
Bytes == [i \in 1..Available |-> offset + i]

\* CloudLocalFileHandle readDataOfLength:; NSFileHandle returns less at the end.
ReadLocal(t) ==
    /\ Reading(t) /\ kind = "local"
    /\ offset' = offset + Available
    /\ Return(t, Bytes, "none")
    /\ UNCHANGED error

\* CloudAssetFileHandle readDataOfLength: after the wait, when it gives up: an
\* error already there, or no representation (which is an error from now on).
ReadNothing(t) ==
    /\ Reading(t) /\ kind = "asset"
    /\ error \/ ~asset
    /\ error' = TRUE
    /\ Return(t, <<>>, "none")
    /\ UNCHANGED offset

\* malloc answers NULL: nil is returned and no error is stored.
ReadNoMemory(t) ==
    /\ Reading(t) /\ kind = "asset" /\ ~error
    /\ Return(t, <<>>, "memory")
    /\ UNCHANGED <<error, offset>>

\* getBytes:fromOffset:length:error: fails.
ReadFails(t) ==
    /\ Reading(t) /\ kind = "asset" /\ ~error /\ asset
    /\ error' = TRUE
    /\ Return(t, <<>>, "read")
    /\ UNCHANGED offset

\* Nothing left to read is an error; otherwise the offset moves on.
ReadAsset(t) ==
    /\ Reading(t) /\ kind = "asset" /\ ~error /\ asset
    /\ error' = (Available = 0)
    /\ offset' = offset + Available
    /\ Return(t, Bytes, "none")

\* The end of calculateMD5:andSHA:: the offset goes back to where it was.
EndDigest(t, result) ==
    /\ offset' = digest[t].origin
    /\ digest' = [digest EXCEPT ![t].result = result]
    /\ pc' = [pc EXCEPT ![t] = "idle"]

\* Mutant: an error that left some bytes read is taken for the end of the file.
DigestLoop_TakesWhatItGot(t) ==
    /\ pc[t] = "loop"
    /\ IF error /\ digest[t].fed = <<>> THEN EndDigest(t, "NO")
       ELSE IF digest[t].last < BlockSize THEN EndDigest(t, "YES")
       ELSE /\ pc' = [pc EXCEPT ![t] = "wait"]
            /\ UNCHANGED <<offset, digest>>
    /\ UNCHANGED <<handleVars, assetVars, error, op, ops>>

\* Mutant: the loop goes on after a short block, up to a block of nothing.
DigestLoop_UntilNothing(t) ==
    /\ pc[t] = "loop"
    /\ IF error THEN EndDigest(t, "NO")
       ELSE IF digest[t].last = 0 THEN EndDigest(t, "YES")
       ELSE /\ pc' = [pc EXCEPT ![t] = "wait"]
            /\ UNCHANGED <<offset, digest>>
    /\ UNCHANGED <<handleVars, assetVars, error, op, ops>>

\* The digest loop after each read: an error ends it with NO, a block shorter
\* than blockSize (nil is the shortest) with YES, and a whole one calls for more.
DigestLoop(t) ==
    /\ pc[t] = "loop"
    /\ IF error THEN EndDigest(t, "NO")
       ELSE IF digest[t].last < BlockSize THEN EndDigest(t, "YES")
       ELSE /\ pc' = [pc EXCEPT ![t] = "wait"]
            /\ UNCHANGED <<offset, digest>>
    /\ UNCHANGED <<handleVars, assetVars, error, op, ops>>

-----------------------------------------------------------------------------
Call(t) == SeekToFileOffset(t) \/ SeekToEndOfFile(t) \/ ReadCall(t) \/ Calculate(t)

Read(t) == ReadLocal(t) \/ ReadNothing(t) \/ ReadNoMemory(t) \/ ReadFails(t) \/ ReadAsset(t)

Step(t) == WaitForAsset(t) \/ Wake(t) \/ AtEnd(t) \/ Read(t) \/ DigestLoop(t)

Next == Callback \/ \E t \in Threads : Call(t) \/ Step(t)

Spec == Init /\ [][Next]_vars

\* The library calls one of the two blocks and the block runs to its end; a
\* thread inside a call is scheduled.  No thread has to make a call.
FairSpec == /\ Spec
            /\ WF_vars(Callback)
            /\ \A t \in Threads : WF_vars(Step(t))

-----------------------------------------------------------------------------
\* Each variable stays in its range; a semaphore is signalled at most once, and
\* the offset passes the end of the file only by a seek.
TypeOK ==
    /\ users \in UserSets
    /\ kind \in Kinds /\ size \in Sizes /\ answer \in Answers
    /\ asset \in BOOLEAN /\ lock \in BOOLEAN /\ error \in BOOLEAN
    /\ sema \in {0, 1}
    /\ offset \in 0..size + 1
    /\ callback \in {"asset", "unlock", "error", "signal", "done"}
    /\ pc \in [Threads -> {"idle", "wait", "blocked", "ready", "loop"}]
    /\ op \in [Threads -> {"none", "seek", "end", "read", "hash"}]
    /\ ops \in [Threads -> 0..MaxOps]
    /\ \A t \in Threads :
        /\ digest[t].origin \in 0..size + 1
        /\ digest[t].last \in 0..BlockSize
        /\ digest[t].result \in {"none", "YES", "NO"}

\* calculateMD5:andSHA: says YES only for the digest of the whole file, from its
\* first byte whatever the offset was, unless memory ran out under it; and
\* whatever it says it leaves the offset where it found it.  For the only user
\* of a handle (ViewController.m uses a fresh handle for every asset), and
\* whenever the library answers.
DigestIsOfTheWholeFile ==
    Lone => \A t \in users :
        /\ digest[t].result = "YES" /\ digest[t].fault # "memory"
               => digest[t].fed = File
        /\ digest[t].result # "none" /\ pc[t] = "idle" /\ op[t] = "hash"
               => offset = digest[t].origin

\* Where the library found the asset and every read of it worked, a digest asked
\* of a handle without an error is refused in one case only: the asset's size is
\* a whole number of blocks (0 among them), so that the read after the last
\* block finds nothing, which an asset handle takes for an error.  A local file
\* is never refused.
DigestIsRefusedOnlyAtABoundary ==
    Lone /\ answer = "found" => \A t \in users :
        digest[t].result = "NO" /\ digest[t].fault = "none" /\ ~digest[t].dirty
            => kind = "asset" /\ size % BlockSize = 0

\* A reader that is past waitForAsset finds the library's answer in place: the
\* asset is there exactly if the library found it, so that no asset that exists
\* is reported as missing because its reader was early.
ReadersSeeTheAnswer ==
    kind = "asset" => \A t \in users :
        pc[t] \in {"ready", "loop"} => callback # "asset" /\ asset = (answer = "found")

\* A reader that sleeps goes on, once the library has answered in either block,
\* or else another one took the only signal there is: the only user of a handle
\* is never left asleep.
SleeperGoesOnOrWasOvertaken ==
    \A t \in Threads :
        pc[t] = "blocked" ~> \/ pc[t] # "blocked"
                             \/ /\ callback = "done" /\ sema = 0
                                /\ \E u \in users \ {t} : ops[u] > 0

=============================================================================
