------------------------ MODULE CloudFileHandleProofs ------------------------
(***************************************************************************)
(* Proofs about the file handles, for any threads, block size and file     *)
(* sizes: the types, that nobody passes waitForAsset before the library's  *)
(* answer is in place, and that a digest is one of the whole file.  The    *)
(* last is not inductive: the argument is that, between two reads of the   *)
(* digest loop, what was fed is the file up to the offset.                 *)
(***************************************************************************)
EXTENDS CloudFileHandle, FiniteSetTheorems, SequenceTheorems, TLAPS

Digests == [origin : Nat, fed : Seq(Nat), last : Nat, result : {"none", "YES", "NO"},
            dirty : BOOLEAN, fault : {"none", "memory", "read"}]

Types ==
    /\ digest \in [Threads -> Digests]
    /\ TypeOK

\* The block clears lock after it has set the asset, and signals after that.
BlockOrder ==
    /\ lock <=> callback \in {"asset", "unlock"}
    /\ sema = 1 => callback = "done"
    /\ kind = "asset" /\ callback # "asset" => asset = (answer = "found")
    /\ \A t \in Threads :
        kind = "asset" /\ pc[t] \in {"ready", "loop"} => callback \notin {"asset", "unlock"}

OthersIdle == \A t \in Threads \ users : pc[t] = "idle"

IInv == Types /\ BlockOrder /\ OthersIdle

----------------------------------------------------------------------------
(* The types.                                                              *)

LEMMA EntryRecord ==
    ASSUME NEW o \in Nat, NEW e \in BOOLEAN
    PROVE  /\ NewDigest(o, e) \in Digests
           /\ NewDigest(o, e).origin = o /\ NewDigest(o, e).fed = <<>> /\ NewDigest(o, e).last = 0
           /\ NewDigest(o, e).result = "none" /\ NewDigest(o, e).fault = "none"
BY EmptySeq DEF NewDigest, Digests

LEMMA InitTypes == Init => IInv
<1> SUFFICES ASSUME Init PROVE IInv
    OBVIOUS
<1> USE CloudFileHandleAssumption
<1>1. NewDigest(0, FALSE) \in Digests
    BY EntryRecord
<1>2. Types
    <2>1. digest \in [Threads -> Digests] /\ \A t \in Threads : digest[t] = NewDigest(0, FALSE)
        BY <1>1 DEF Init
    <2>2. NewDigest(0, FALSE).origin = 0 /\ NewDigest(0, FALSE).last = 0 /\ NewDigest(0, FALSE).result = "none"
        BY EntryRecord
    <2>3. /\ pc \in [Threads -> {"idle", "wait", "blocked", "ready", "loop"}]
          /\ op \in [Threads -> {"none", "seek", "end", "read", "hash"}]
          /\ ops \in [Threads -> 0..MaxOps]
        BY DEF Init
    <2>4. /\ users \in UserSets /\ kind \in Kinds /\ size \in Sizes /\ answer \in Answers
          /\ callback \in {"asset", "unlock", "error", "signal", "done"}
        BY DEF Init, Kinds
    <2>5. asset \in BOOLEAN /\ error \in BOOLEAN
        BY DEF Init
    <2>6. lock \in BOOLEAN
        BY DEF Init
    <2>7. sema \in {0, 1} /\ offset \in 0..size + 1 /\ size \in Nat
        BY <2>4 DEF Init
    <2>8. \A t \in Threads : /\ digest[t].origin \in 0..size + 1
                             /\ digest[t].last \in 0..BlockSize
                             /\ digest[t].result \in {"none", "YES", "NO"}
        <3>1. 0 \in 0..size + 1 /\ 0 \in 0..BlockSize
            BY <2>7
        <3> QED
            BY <2>1, <2>2, <3>1
    <2> QED
        BY <2>1, <2>3, <2>4, <2>5, <2>6, <2>7, <2>8 DEF Types, TypeOK
<1>3. BlockOrder
    <2>1. kind = "asset" \/ kind = "local"
        BY DEF Init, Kinds
    <2>2. lock <=> kind = "asset"
        BY DEF Init
    <2>3. sema = 0 /\ \A t \in Threads : pc[t] = "idle"
        BY DEF Init
    <2>4. callback = IF kind = "asset" THEN "asset" ELSE "done"
        BY DEF Init
    <2> QED
        BY <2>1, <2>2, <2>3, <2>4 DEF BlockOrder
<1>4. OthersIdle
    BY DEF Init, OthersIdle
<1> QED
    BY <1>2, <1>3, <1>4 DEF IInv

LEMMA AvailableBounds ==
    ASSUME Types
    PROVE  /\ size \in Nat /\ offset \in Nat
           /\ Available \in 0..BlockSize
           /\ offset + Available \in 0..size + 1
           /\ offset <= size => offset + Available <= size
           /\ offset <= size /\ Available < BlockSize => offset + Available = size
           /\ Bytes \in Seq(Nat) /\ Len(Bytes) = Available
<1> USE CloudFileHandleAssumption
<1>1. size \in Nat /\ offset \in Nat /\ offset <= size + 1
    BY DEF Types, TypeOK
<1>2. Available \in Nat /\ Available <= BlockSize
    BY <1>1 DEF Available, Least
<1>3. /\ offset + Available <= size + 1
      /\ offset <= size => offset + Available <= size
      /\ offset <= size /\ Available < BlockSize => offset + Available = size
    BY <1>1 DEF Available, Least
<1>4. Bytes \in [1..Available -> Nat]
    BY <1>1, <1>2 DEF Bytes
<1>5. Bytes \in Seq(Nat) /\ Len(Bytes) = Available
    BY <1>2, <1>4, SeqDef, LenProperties
<1> QED
    BY <1>1, <1>2, <1>3, <1>5

LEMMA EnterTypes ==
    ASSUME Types, NEW t \in Threads, NEW call \in {"seek", "end", "read", "hash"}, Enter(t, call)
    PROVE  /\ ops' \in [Threads -> 0..MaxOps]
           /\ op' \in [Threads -> {"none", "seek", "end", "read", "hash"}]
           /\ digest' \in [Threads -> Digests]
           /\ \A s \in Threads : /\ digest'[s].origin \in 0..size + 1
                                 /\ digest'[s].last \in 0..BlockSize
           /\ digest'[t] = NewDigest(offset, error)
<1> USE CloudFileHandleAssumption DEF Types, TypeOK
<1>1. ops' \in [Threads -> 0..MaxOps] /\ op' \in [Threads -> {"none", "seek", "end", "read", "hash"}]
    BY DEF Enter
<1> DEFINE d == NewDigest(offset, error)
<1>2. <<>> \in Seq(Nat)
    BY EmptySeq
<1>3. size \in Nat /\ offset \in Nat
    OBVIOUS
<1>4. d \in Digests /\ d.origin \in 0..size + 1 /\ d.last \in 0..BlockSize
    <2>1. size \in Nat /\ offset \in 0..size + 1 /\ error \in BOOLEAN /\ BlockSize \in Nat
        OBVIOUS
    <2> QED
        BY <2>1, EntryRecord
<1>5. digest' = [digest EXCEPT ![t] = d]
    BY DEF Enter
<1> HIDE DEF d
<1>6. digest' \in [Threads -> Digests] /\ digest'[t] = d
    BY <1>4, <1>5
<1>7. \A s \in Threads : digest'[s].origin \in 0..size + 1 /\ digest'[s].last \in 0..BlockSize
    BY <1>4, <1>5
<1> QED
    BY <1>1, <1>6, <1>7 DEF d

LEMMA ReturnTypes ==
    ASSUME Types, NEW t \in Threads, pc[t] = "ready", NEW bytes \in Seq(Nat),
           Len(bytes) \in 0..BlockSize, NEW fault \in {"none", "memory", "read"},
           Return(t, bytes, fault)
    PROVE  /\ pc' \in [Threads -> {"idle", "wait", "blocked", "ready", "loop"}]
           /\ digest' \in [Threads -> Digests]
           /\ \A s \in Threads : /\ digest'[s].origin \in 0..size + 1
                                 /\ digest'[s].last \in 0..BlockSize
<1> USE CloudFileHandleAssumption DEF Types, TypeOK
<1>1. pc' \in [Threads -> {"idle", "wait", "blocked", "ready", "loop"}]
    BY DEF Return
<1>2. CASE op[t] # "hash"
    BY <1>1, <1>2 DEF Return
<1>3. CASE op[t] = "hash"
    <2> DEFINE d == [digest[t] EXCEPT !.fed = @ \o bytes, !.last = Len(bytes),
                                      !.fault = IF fault = "none" THEN @ ELSE fault]
    <2>1. digest[t] \in Digests /\ digest[t].fed \o bytes \in Seq(Nat)
        BY ConcatProperties DEF Digests
    <2>2. d \in Digests /\ d.origin = digest[t].origin /\ d.last \in 0..BlockSize
        <3>1. Len(bytes) \in Nat /\ (IF fault = "none" THEN digest[t].fault ELSE fault) \in {"none", "memory", "read"}
            BY <2>1 DEF Digests
        <3>2. d.last = Len(bytes) /\ d.origin = digest[t].origin /\ d \in Digests
            BY <2>1, <3>1 DEF Digests
        <3> QED
            BY <3>2
    <2>3. digest' = [digest EXCEPT ![t] = d]
        BY <1>3 DEF Return
    <2> HIDE DEF d
    <2>4. digest' \in [Threads -> Digests]
        BY <2>2, <2>3
    <2>5. \A s \in Threads : digest'[s].origin \in 0..size + 1 /\ digest'[s].last \in 0..BlockSize
        BY <2>2, <2>3
    <2> QED
        BY <1>1, <2>4, <2>5
<1> QED
    BY <1>2, <1>3

LEMMA EndTypes ==
    ASSUME Types, NEW t \in Threads, NEW result \in {"YES", "NO"}, EndDigest(t, result)
    PROVE  /\ pc' \in [Threads -> {"idle", "wait", "blocked", "ready", "loop"}]
           /\ digest' \in [Threads -> Digests]
           /\ \A s \in Threads : /\ digest'[s].origin \in 0..size + 1
                                 /\ digest'[s].last \in 0..BlockSize
           /\ offset' \in 0..size + 1
<1> USE DEF Types, TypeOK
<1> DEFINE d == [digest[t] EXCEPT !.result = result]
<1>1. d \in Digests /\ d.origin = digest[t].origin /\ d.last = digest[t].last
    BY ZenonT(60) DEF Digests
<1>2. digest' = [digest EXCEPT ![t] = d]
    BY DEF EndDigest
<1> HIDE DEF d
<1>3. digest' \in [Threads -> Digests]
    BY <1>1, <1>2
<1>4. \A s \in Threads : digest'[s].origin \in 0..size + 1 /\ digest'[s].last \in 0..BlockSize
    BY <1>1, <1>2
<1>5. pc' \in [Threads -> {"idle", "wait", "blocked", "ready", "loop"}] /\ offset' \in 0..size + 1
    BY DEF EndDigest
<1> QED
    BY <1>3, <1>4, <1>5

ThreadTypes ==
    /\ pc \in [Threads -> {"idle", "wait", "blocked", "ready", "loop"}]
    /\ op \in [Threads -> {"none", "seek", "end", "read", "hash"}]
    /\ ops \in [Threads -> 0..MaxOps]
    /\ digest \in [Threads -> Digests]
    /\ offset \in 0..size + 1

Bounds ==
    \A s \in Threads : digest[s].origin \in 0..size + 1 /\ digest[s].last \in 0..BlockSize

LEMMA SameBounds ==
    ASSUME Bounds, digest' = digest, size' = size
    PROVE  Bounds'
BY DEF Bounds

LEMMA StepTypes ==
    ASSUME IInv, NEW t \in Threads, Call(t) \/ Step(t)
    PROVE  IInv'
<1>1. UNCHANGED <<handleVars, asset, lock, callback>>
    BY DEF Call, Step, SeekToFileOffset, SeekToEndOfFile, ReadCall, Calculate, Enter, WaitForAsset,
           Wake, AtEnd, Read, ReadLocal, ReadNothing, ReadNoMemory, ReadFails, ReadAsset, Return,
           DigestLoop, assetVars
<1>2. ThreadTypes /\ Bounds /\ size \in Nat /\ BlockSize \in Nat
    BY CloudFileHandleAssumption DEF IInv, Types, TypeOK, ThreadTypes, Bounds
<1>3. ASSUME Call(t)
      PROVE  ThreadTypes' /\ Bounds'
    <2>1. ASSUME NEW call \in {"seek", "end", "read", "hash"}, Enter(t, call)
          PROVE  /\ ops' \in [Threads -> 0..MaxOps]
                 /\ op' \in [Threads -> {"none", "seek", "end", "read", "hash"}]
                 /\ digest' \in [Threads -> Digests]
                 /\ \A s \in Threads : /\ digest'[s].origin \in 0..size' + 1
                                       /\ digest'[s].last \in 0..BlockSize
        BY <1>1, <2>1, EnterTypes DEF IInv, handleVars
    <2>2. CASE SeekToFileOffset(t)
        BY <1>1, <1>2, <2>1, <2>2 DEF SeekToFileOffset, handleVars, ThreadTypes, Bounds
    <2>3. CASE SeekToEndOfFile(t)
        BY <1>1, <1>2, <2>1, <2>3 DEF SeekToEndOfFile, handleVars, ThreadTypes, Bounds
    <2>4. CASE ReadCall(t)
        BY <1>1, <1>2, <2>1, <2>4 DEF ReadCall, handleVars, ThreadTypes, Bounds
    <2>5. CASE Calculate(t)
        BY <1>1, <1>2, <2>1, <2>5 DEF Calculate, handleVars, ThreadTypes, Bounds
    <2> QED
        BY <1>3, <2>2, <2>3, <2>4, <2>5 DEF Call
<1>4. ASSUME Read(t)
      PROVE  ThreadTypes' /\ Bounds'
    <2>1. <<>> \in Seq(Nat) /\ Len(<<>>) \in 0..BlockSize
        BY <1>2, EmptySeq
    <2>2. /\ Bytes \in Seq(Nat) /\ Len(Bytes) \in 0..BlockSize
          /\ offset + Available \in 0..size + 1
        BY AvailableBounds DEF IInv
    <2>3. offset' \in 0..size' + 1 /\ UNCHANGED <<op, ops>>
        BY <1>1, <1>2, <1>4, <2>2
           DEF Read, ReadLocal, ReadNothing, ReadNoMemory, ReadFails, ReadAsset, Return, handleVars, ThreadTypes
    <2>4. /\ pc[t] = "ready"
          /\ \E bytes \in {<<>>, Bytes} : \E fault \in {"none", "memory", "read"} : Return(t, bytes, fault)
        BY <1>4 DEF Read, ReadLocal, ReadNothing, ReadNoMemory, ReadFails, ReadAsset, Reading
    <2>5. /\ pc' \in [Threads -> {"idle", "wait", "blocked", "ready", "loop"}]
          /\ digest' \in [Threads -> Digests]
          /\ \A s \in Threads : digest'[s].origin \in 0..size + 1 /\ digest'[s].last \in 0..BlockSize
        BY <2>1, <2>2, <2>4, ReturnTypes DEF IInv
    <2> QED
        BY <1>1, <1>2, <2>3, <2>5 DEF handleVars, ThreadTypes, Bounds
<1>5. ASSUME DigestLoop(t)
      PROVE  ThreadTypes' /\ Bounds'
    <2>1. UNCHANGED <<op, ops>>
        BY <1>5 DEF DigestLoop
    <2>2. CASE \E result \in {"YES", "NO"} : EndDigest(t, result)
        <3>1. PICK result \in {"YES", "NO"} : EndDigest(t, result)
            BY <2>2
        <3>2. /\ pc' \in [Threads -> {"idle", "wait", "blocked", "ready", "loop"}]
              /\ digest' \in [Threads -> Digests]
              /\ \A s \in Threads : digest'[s].origin \in 0..size + 1 /\ digest'[s].last \in 0..BlockSize
              /\ offset' \in 0..size + 1
            BY <3>1, EndTypes DEF IInv
        <3> QED
            BY <1>1, <1>2, <2>1, <3>2 DEF handleVars, ThreadTypes, Bounds
    <2>3. CASE pc' = [pc EXCEPT ![t] = "wait"] /\ UNCHANGED <<offset, digest>>
        BY <1>1, <1>2, <2>1, <2>3, SameBounds DEF handleVars, ThreadTypes
    <2> QED
        BY <1>5, <2>2, <2>3 DEF DigestLoop
<1>6. ASSUME WaitForAsset(t)
      PROVE  ThreadTypes' /\ Bounds'
    BY <1>1, <1>2, <1>6, SameBounds DEF WaitForAsset, handleVars, ThreadTypes
<1>7. ASSUME Wake(t)
      PROVE  ThreadTypes' /\ Bounds'
    BY <1>1, <1>2, <1>7, SameBounds DEF Wake, handleVars, ThreadTypes
<1>8. ASSUME AtEnd(t)
      PROVE  ThreadTypes' /\ Bounds'
    <2>1. offset' \in {offset, 0, size}
        BY <1>8, <1>2 DEF AtEnd
    <2> QED
        BY <1>1, <1>2, <1>8, <2>1, SameBounds DEF AtEnd, handleVars, ThreadTypes
<1>9. ThreadTypes' /\ Bounds'
    BY <1>3, <1>4, <1>5, <1>6, <1>7, <1>8 DEF Step
<1>10. sema' \in {0, 1} /\ (sema' = 1 => sema = 1)
    BY DEF IInv, Types, TypeOK, Call, Step, SeekToFileOffset, SeekToEndOfFile, ReadCall, Calculate,
           WaitForAsset, Wake, AtEnd, Read, ReadLocal, ReadNothing, ReadNoMemory, ReadFails, ReadAsset,
           Return, DigestLoop, assetVars
<1>11. error' \in BOOLEAN
    BY DEF IInv, Types, TypeOK, Call, Step, SeekToFileOffset, SeekToEndOfFile, ReadCall, Calculate,
           WaitForAsset, Wake, AtEnd, Read, ReadLocal, ReadNothing, ReadNoMemory, ReadFails, ReadAsset,
           Return, DigestLoop
<1>12. \A s \in Threads : (digest[s].result \in {"none", "YES", "NO"})'
    BY <1>9 DEF Digests, ThreadTypes
<1>13. Types'
    BY <1>1, <1>9, <1>10, <1>11, <1>12 DEF IInv, Types, TypeOK, handleVars, ThreadTypes, Bounds
<1>14. \A s \in Threads \ {t} : pc'[s] = pc[s]
    BY <1>2 DEF ThreadTypes, Call, Step, SeekToFileOffset, SeekToEndOfFile, ReadCall, Calculate, WaitForAsset, Wake,
                AtEnd, Read, ReadLocal, ReadNothing, ReadNoMemory, ReadFails, ReadAsset, Return,
                DigestLoop, EndDigest
<1>15. pc'[t] \in {"ready", "loop"} => pc[t] \in {"ready", "loop"} \/ ~lock \/ sema = 1
    <2>1. CASE Call(t)
        BY <1>2, <2>1 DEF ThreadTypes, Call, SeekToFileOffset, SeekToEndOfFile, ReadCall, Calculate, Enter
    <2>2. CASE WaitForAsset(t)
        BY <1>2, <2>2 DEF ThreadTypes, WaitForAsset
    <2>3. CASE Wake(t)
        BY <2>3 DEF Wake, IInv, Types, TypeOK
    <2>4. CASE AtEnd(t)
        BY <1>2, <2>4 DEF ThreadTypes, AtEnd
    <2>5. CASE Read(t) \/ DigestLoop(t)
        BY <2>5 DEF Read, ReadLocal, ReadNothing, ReadNoMemory, ReadFails, ReadAsset, Reading, DigestLoop
    <2> QED
        BY <2>1, <2>2, <2>3, <2>4, <2>5 DEF Step
<1>16. BlockOrder'
    <2>1. kind' = kind /\ answer' = answer /\ lock' = lock /\ callback' = callback /\ asset' = asset
        BY <1>1 DEF handleVars
    <2>2. lock' <=> callback' \in {"asset", "unlock"}
        BY <2>1 DEF IInv, BlockOrder
    <2>3. sema' = 1 => callback' = "done"
        BY <1>10, <2>1 DEF IInv, BlockOrder
    <2>4. kind' = "asset" /\ callback' # "asset" => asset' = (answer' = "found")
        BY <2>1 DEF IInv, BlockOrder
    <2>5. ASSUME NEW s \in Threads, kind = "asset", pc'[s] \in {"ready", "loop"}
          PROVE  callback \notin {"asset", "unlock"}
        BY <1>14, <1>15, <2>5 DEF IInv, BlockOrder
    <2> QED
        BY <2>1, <2>2, <2>3, <2>4, <2>5 DEF BlockOrder
<1>17. OthersIdle'
    <2>1. t \in users
        BY DEF Call, Step, SeekToFileOffset, SeekToEndOfFile, ReadCall, Calculate, Enter, WaitForAsset, Wake,
               AtEnd, Read, ReadLocal, ReadNothing, ReadNoMemory, ReadFails, ReadAsset, Reading, DigestLoop,
               IInv, OthersIdle
    <2> QED
        BY <1>1, <1>14, <2>1 DEF IInv, OthersIdle, handleVars
<1> QED
    BY <1>13, <1>16, <1>17 DEF IInv

LEMMA CallbackTypes ==
    ASSUME IInv, Callback
    PROVE  IInv'
<1>1. UNCHANGED <<handleVars, offset, threadVars>>
    BY DEF Callback
<1>2. /\ asset' \in BOOLEAN /\ lock' \in BOOLEAN /\ error' \in BOOLEAN /\ sema' \in {0, 1}
      /\ callback' \in {"asset", "unlock", "error", "signal", "done"}
    <2> USE DEF IInv, Types, TypeOK, BlockOrder
    <2>1. CASE GiveAsset
        BY <2>1 DEF GiveAsset
    <2>2. CASE ClearLock
        BY <2>2 DEF ClearLock
    <2>3. CASE StoreError
        BY <2>3 DEF StoreError
    <2>4. CASE Signal
        BY <2>4 DEF Signal
    <2> QED
        BY <2>1, <2>2, <2>3, <2>4 DEF Callback
<1>3. Types'
    BY <1>1, <1>2 DEF IInv, Types, TypeOK, handleVars, threadVars
<1>4. BlockOrder'
    <2>1. kind' = kind /\ answer' = answer /\ pc' = pc
        BY <1>1 DEF handleVars, threadVars
    <2>2. CASE GiveAsset
        BY <2>1, <2>2 DEF IInv, BlockOrder, GiveAsset
    <2>3. CASE ClearLock
        BY <2>1, <2>3 DEF IInv, BlockOrder, ClearLock
    <2>4. CASE StoreError
        BY <2>1, <2>4 DEF IInv, BlockOrder, StoreError
    <2>5. CASE Signal
        BY <2>1, <2>5 DEF IInv, BlockOrder, Signal
    <2> QED
        BY <2>2, <2>3, <2>4, <2>5 DEF Callback
<1>5. OthersIdle'
    BY <1>1 DEF IInv, OthersIdle, handleVars, threadVars
<1> QED
    BY <1>3, <1>4, <1>5 DEF IInv

LEMMA InvPreserved == IInv /\ [Next]_vars => IInv'
<1> SUFFICES ASSUME IInv, [Next]_vars PROVE IInv'
    OBVIOUS
<1>1. CASE UNCHANGED vars
    BY <1>1 DEF IInv, Types, TypeOK, BlockOrder, OthersIdle, vars, handleVars, assetVars, threadVars
<1> QED
    BY <1>1, StepTypes, CallbackTypes DEF Next

\* The handle's variables keep their types; in particular the library's block
\* signals once, and a read never takes the offset past the end of the file.
THEOREM TypeCorrect == Spec => []TypeOK
<1>1. IInv => TypeOK
    BY DEF IInv, Types
<1> QED
    BY <1>1, InitTypes, InvPreserved, PTL DEF Spec

\* waitForAsset: whoever is past it finds the library's answer in place, for any
\* number of readers.
THEOREM AnswerIsInPlace == Spec => []ReadersSeeTheAnswer
<1>1. IInv => ReadersSeeTheAnswer
    <2> SUFFICES ASSUME IInv, kind = "asset", NEW t \in users, pc[t] \in {"ready", "loop"}
                 PROVE  callback # "asset" /\ asset = (answer = "found")
        BY DEF ReadersSeeTheAnswer
    <2>1. t \in Threads
        BY CloudFileHandleAssumption DEF IInv, Types, TypeOK
    <2> QED
        BY <2>1 DEF IInv, BlockOrder
<1> QED
    BY <1>1, InitTypes, InvPreserved, PTL DEF Spec

----------------------------------------------------------------------------
(* The digest of a lone user.                                              *)

Prefix(n) == [i \in 1..n |-> i]

\* What the digest loop knows before a read, and after one.
BeforeRead(t) ==
    op[t] = "hash" /\ pc[t] \in {"wait", "blocked", "ready"} =>
        /\ offset <= size /\ digest[t].fed = Prefix(offset)
        /\ digest[t].result = "none" /\ digest[t].fault = "none"

AfterRead(t) ==
    pc[t] = "loop" =>
        /\ op[t] = "hash"
        /\ offset <= size /\ digest[t].fed = Prefix(offset)
        /\ digest[t].result = "none"
        /\ digest[t].fault = "read" => error
        /\ digest[t].fault = "memory" => digest[t].last = 0
        /\ digest[t].fault = "none" /\ ~error /\ digest[t].last < BlockSize => offset = size

AtTheEnd(t) ==
    /\ digest[t].result = "YES" /\ digest[t].fault # "memory" => digest[t].fed = File
    /\ digest[t].result # "none" /\ pc[t] = "idle" /\ op[t] = "hash" => offset = digest[t].origin
    /\ op[t] # "hash" => digest[t].result = "none"

DigestInv == Lone => \A t \in users : BeforeRead(t) /\ AfterRead(t) /\ AtTheEnd(t)

LEMMA PrefixGrows ==
    ASSUME Types
    PROVE  /\ Prefix(offset) \in Seq(Nat) /\ Prefix(offset) \o Bytes = Prefix(offset + Available)
           /\ Prefix(offset) \o <<>> = Prefix(offset) /\ Prefix(0) = <<>> /\ Prefix(size) = File
<1>1. /\ offset \in Nat /\ Available \in Nat /\ Bytes \in Seq(Nat) /\ Len(Bytes) = Available
      /\ offset + Available \in Nat
    BY AvailableBounds
<1>2. \A n \in Nat : Prefix(n) \in Seq(Nat) /\ Len(Prefix(n)) = n
    <2> SUFFICES ASSUME NEW n \in Nat PROVE Prefix(n) \in Seq(Nat) /\ Len(Prefix(n)) = n
        OBVIOUS
    <2>1. Prefix(n) \in [1..n -> Nat]
        BY DEF Prefix
    <2> QED
        BY <2>1, SeqDef, LenProperties
<1>3. Prefix(offset) \o Bytes = Prefix(offset + Available)
    <2>1. /\ Prefix(offset) \o Bytes \in Seq(Nat)
          /\ Len(Prefix(offset) \o Bytes) = offset + Available
          /\ \A i \in 1..offset + Available : (Prefix(offset) \o Bytes)[i] =
                IF i <= offset THEN Prefix(offset)[i] ELSE Bytes[i - offset]
        <3>1. Prefix(offset) \in Seq(Nat) /\ Len(Prefix(offset)) = offset /\ Len(Bytes) = Available
            BY <1>1, <1>2
        <3> QED
            <4> DEFINE s == Prefix(offset)
                       b == Bytes
            <4>1. s \in Seq(Nat) /\ b \in Seq(Nat) /\ Len(s) = offset /\ Len(b) = Available
                BY <1>1, <3>1
            <4> HIDE DEF s, b
            <4>2. /\ s \o b \in Seq(Nat) /\ Len(s \o b) = Len(s) + Len(b)
                  /\ \A i \in 1..Len(s) + Len(b) : (s \o b)[i] = IF i <= Len(s) THEN s[i] ELSE b[i - Len(s)]
                BY <4>1, ConcatProperties
            <4> QED
                BY <4>1, <4>2 DEF s, b
    <2>2. \A i \in 1..offset + Available : (Prefix(offset) \o Bytes)[i] = i
        BY <1>1, <2>1 DEF Prefix, Bytes
    <2>3. \A i \in 1..offset + Available : Prefix(offset + Available)[i] = i
        BY DEF Prefix
    <2> QED
        <3>1. /\ Prefix(offset + Available) \in Seq(Nat)
              /\ Len(Prefix(offset + Available)) = offset + Available
            BY <1>1, <1>2
        <3>2. Len(Prefix(offset) \o Bytes) = Len(Prefix(offset + Available))
            BY <2>1, <3>1
        <3>3. \A i \in 1..Len(Prefix(offset) \o Bytes) :
                 (Prefix(offset) \o Bytes)[i] = Prefix(offset + Available)[i]
            BY <2>1, <2>2, <2>3
        <3> QED
            BY <2>1, <3>1, <3>2, <3>3, SeqEqual
<1>4. Prefix(0) = <<>>
    BY <1>2, EmptySeq
<1> QED
    BY <1>1, <1>2, <1>3, <1>4, ConcatEmptySeq DEF Prefix, File

\* A read as the digest loop sees it.
LEMMA ReadOfALoneUser ==
    ASSUME IInv, DigestInv, Lone, NEW t \in users, Read(t)
    PROVE  BeforeRead(t)' /\ AfterRead(t)' /\ AtTheEnd(t)'
<1> USE CloudFileHandleAssumption
<1>1. t \in Threads /\ size \in Nat /\ offset \in Nat /\ BlockSize \in Nat /\ 0 < BlockSize
    BY DEF IInv, Types, TypeOK
<1>2. BeforeRead(t) /\ AtTheEnd(t)
    BY DEF DigestInv
<1>3. pc[t] = "ready" /\ UNCHANGED <<handleVars, op>> /\ op[t] \in {"read", "hash"}
    BY DEF Read, ReadLocal, ReadNothing, ReadNoMemory, ReadFails, ReadAsset, Reading, Return
<1>4. CASE op[t] # "hash"
    <2>1. pc'[t] = "idle" /\ digest' = digest
        BY <1>1, <1>4 DEF Read, ReadLocal, ReadNothing, ReadNoMemory, ReadFails, ReadAsset, Return,
                          IInv, Types, TypeOK
    <2> QED
        BY <1>2, <1>3, <1>4, <2>1 DEF BeforeRead, AfterRead, AtTheEnd
<1>5. CASE op[t] = "hash"
    <2>1. /\ offset <= size /\ digest[t].fed = Prefix(offset)
          /\ digest[t].result = "none" /\ digest[t].fault = "none"
        BY <1>2, <1>3, <1>5 DEF BeforeRead
    <2>2. ASSUME NEW bytes, NEW fault, Return(t, bytes, fault)
          PROVE  /\ pc'[t] = "loop" /\ digest'[t].fed = digest[t].fed \o bytes
                 /\ digest'[t].last = Len(bytes) /\ digest'[t].result = "none"
                 /\ digest'[t].fault = IF fault = "none" THEN "none" ELSE fault
        <3>1. digest[t] \in Digests /\ pc \in [Threads -> {"idle", "wait", "blocked", "ready", "loop"}]
              /\ digest \in [Threads -> Digests]
            BY <1>1 DEF IInv, Types, TypeOK
        <3> QED
            BY <1>1, <1>5, <2>1, <2>2, <3>1 DEF Return, Digests
    <2>3. /\ offset + Available <= size /\ Len(Bytes) = Available /\ Available \in Nat
          /\ Available < BlockSize => offset + Available = size
        BY <2>1, AvailableBounds DEF IInv
    <2>4. /\ Prefix(offset) \o Bytes = Prefix(offset + Available) /\ Prefix(offset) \o <<>> = Prefix(offset)
          /\ Len(<<>>) = 0
        BY PrefixGrows, EmptySeq DEF IInv
    <2>5. AfterRead(t)'
        <3>1. CASE ReadLocal(t) \/ ReadAsset(t)
            <4>1. offset' = offset + Available /\ Return(t, Bytes, "none")
                BY <3>1 DEF ReadLocal, ReadAsset
            <4>2. digest'[t].fed = Prefix(offset') /\ digest'[t].last = Available
                  /\ digest'[t].result = "none" /\ digest'[t].fault = "none"
                BY <2>1, <2>2, <2>3, <2>4, <4>1
            <4> QED
                BY <1>3, <1>5, <2>3, <4>1, <4>2 DEF AfterRead, handleVars
        <3>2. CASE ReadNoMemory(t)
            <4>1. offset' = offset /\ Return(t, <<>>, "memory")
                BY <3>2 DEF ReadNoMemory
            <4> QED
                <5>1. /\ digest'[t].fed = Prefix(offset') /\ digest'[t].result = "none"
                      /\ digest'[t].fault = "memory" /\ digest'[t].last = 0
                    BY <2>1, <2>2, <2>4, <4>1
                <5>2. op'[t] = "hash" /\ offset' <= size'
                    BY <1>3, <1>5, <2>1, <4>1 DEF handleVars
                <5> QED
                    BY <5>1, <5>2 DEF AfterRead
        <3>3. CASE ReadNothing(t) \/ ReadFails(t)
            <4>1. offset' = offset /\ error' /\ \E fault \in {"none", "read"} : Return(t, <<>>, fault)
                BY <3>3 DEF ReadNothing, ReadFails
            <4>2. /\ digest'[t].fed = Prefix(offset') /\ digest'[t].result = "none"
                  /\ digest'[t].fault # "memory"
                BY <2>1, <2>2, <2>4, <4>1
            <4>3. op'[t] = "hash" /\ offset' <= size'
                BY <1>3, <1>5, <2>1, <4>1 DEF handleVars
            <4>4. error'
                BY <4>1
            <4>5. (digest[t].fault = "memory" => digest[t].last = 0)'
                BY <4>2
            <4>6. (digest[t].fault = "none" /\ ~error /\ digest[t].last < BlockSize => offset = size)'
                BY <4>4
            <4> QED
                BY <4>2, <4>3, <4>4, <4>5, <4>6 DEF AfterRead
        <3> QED
            BY <3>1, <3>2, <3>3 DEF Read
    <2>6. pc'[t] = "loop" /\ digest'[t].result = "none"
        BY <2>2 DEF Read, ReadLocal, ReadNothing, ReadNoMemory, ReadFails, ReadAsset
    <2> QED
        BY <1>3, <1>5, <2>5, <2>6 DEF BeforeRead, AtTheEnd
<1> QED
    BY <1>4, <1>5

LEMMA CallOfALoneUser ==
    ASSUME IInv, DigestInv, Lone, NEW t \in users, Call(t)
    PROVE  BeforeRead(t)' /\ AfterRead(t)' /\ AtTheEnd(t)'
<1>1. t \in Threads /\ size \in Nat /\ offset \in Nat /\ error \in BOOLEAN
    BY CloudFileHandleAssumption DEF IInv, Types, TypeOK
<1>2. PICK call \in {"seek", "end", "read", "hash"} : Enter(t, call)
    BY DEF Call, SeekToFileOffset, SeekToEndOfFile, ReadCall, Calculate
<1>3. op'[t] = call /\ digest'[t] = NewDigest(offset, error)
    BY <1>1, <1>2, EnterTypes DEF IInv, Types, TypeOK, Enter
<1>4. /\ digest'[t].fed = <<>> /\ digest'[t].result = "none" /\ digest'[t].fault = "none"
    BY <1>1, <1>3, EntryRecord
<1>5. pc'[t] \in {"idle", "wait"}
    BY <1>1, <1>2 DEF Call, SeekToFileOffset, SeekToEndOfFile, ReadCall, Calculate, Enter, IInv, Types, TypeOK
<1>6. op'[t] = "hash" => offset' = 0 /\ size' = size
    BY <1>1, <1>3 DEF Call, SeekToFileOffset, SeekToEndOfFile, ReadCall, Calculate, Enter, IInv, Types,
                      TypeOK, handleVars
<1>7. Prefix(0) = <<>>
    BY PrefixGrows DEF IInv
<1> QED
    BY <1>1, <1>4, <1>5, <1>6, <1>7 DEF BeforeRead, AfterRead, AtTheEnd

LEMMA LoopOfALoneUser ==
    ASSUME IInv, DigestInv, Lone, NEW t \in users, DigestLoop(t)
    PROVE  BeforeRead(t)' /\ AfterRead(t)' /\ AtTheEnd(t)'
<1>1. /\ t \in Threads /\ size \in Nat /\ offset \in Nat /\ BlockSize \in Nat \ {0}
      /\ digest \in [Threads -> Digests] /\ digest[t] \in Digests
      /\ pc \in [Threads -> {"idle", "wait", "blocked", "ready", "loop"}]
      /\ digest[t].last \in 0..BlockSize
    BY CloudFileHandleAssumption DEF IInv, Types, TypeOK
<1>2. AfterRead(t) /\ AtTheEnd(t) /\ pc[t] = "loop"
    BY DEF DigestInv, DigestLoop
<1>3. /\ op[t] = "hash" /\ offset <= size /\ digest[t].fed = Prefix(offset) /\ digest[t].result = "none"
      /\ digest[t].fault = "read" => error
      /\ digest[t].fault = "memory" => digest[t].last = 0
      /\ digest[t].fault = "none" /\ ~error /\ digest[t].last < BlockSize => offset = size
    BY <1>2 DEF AfterRead
<1>4. UNCHANGED <<size, op, error>>
    BY DEF DigestLoop, handleVars
<1>5. Prefix(size) = File /\ File' = File
    BY <1>4, PrefixGrows DEF IInv, File
<1>6. ASSUME NEW result \in {"YES", "NO"}, EndDigest(t, result)
      PROVE  /\ pc'[t] = "idle" /\ offset' = digest'[t].origin /\ digest'[t].result = result
             /\ digest'[t].fed = digest[t].fed /\ digest'[t].fault = digest[t].fault
    BY <1>1, <1>6 DEF EndDigest, Digests
<1>7. CASE EndDigest(t, "NO")
    BY <1>3, <1>4, <1>6, <1>7 DEF BeforeRead, AfterRead, AtTheEnd
<1>8. CASE ~error /\ digest[t].last < BlockSize /\ EndDigest(t, "YES")
    <2>1. digest[t].fault # "memory" => digest[t].fed = File
        BY <1>1, <1>3, <1>5, <1>8 DEF Digests
    <2>2. /\ pc'[t] = "idle" /\ offset' = digest'[t].origin /\ digest'[t].result = "YES"
          /\ digest'[t].fault # "memory" => digest'[t].fed = File'
        BY <1>5, <1>6, <1>8, <2>1
    <2> QED
        BY <1>3, <1>4, <2>2 DEF BeforeRead, AfterRead, AtTheEnd
<1>9. CASE /\ ~error /\ ~(digest[t].last < BlockSize)
           /\ pc' = [pc EXCEPT ![t] = "wait"] /\ UNCHANGED <<offset, digest>>
    <2>1. digest[t].fault = "none"
        BY <1>1, <1>3, <1>9 DEF Digests
    <2> QED
        BY <1>1, <1>3, <1>4, <1>9, <2>1 DEF BeforeRead, AfterRead, AtTheEnd
<1> QED
    BY <1>7, <1>8, <1>9 DEF DigestLoop

LEMMA OtherStepsOfALoneUser ==
    ASSUME IInv, DigestInv, Lone, NEW t \in users, WaitForAsset(t) \/ Wake(t) \/ AtEnd(t)
    PROVE  BeforeRead(t)' /\ AfterRead(t)' /\ AtTheEnd(t)'
<1>1. /\ t \in Threads /\ pc \in [Threads -> {"idle", "wait", "blocked", "ready", "loop"}]
    BY CloudFileHandleAssumption DEF IInv, Types, TypeOK
<1>2. BeforeRead(t) /\ AtTheEnd(t)
    BY DEF DigestInv
<1>3. UNCHANGED <<size, op, digest, error>> /\ File' = File
    BY DEF WaitForAsset, Wake, AtEnd, handleVars, File
<1>4. CASE WaitForAsset(t) \/ Wake(t)
    <2>1. /\ pc[t] \in {"wait", "blocked"} /\ pc'[t] \in {"blocked", "ready"}
          /\ UNCHANGED offset
        BY <1>1, <1>4 DEF WaitForAsset, Wake
    <2> QED
        BY <1>2, <1>3, <2>1 DEF BeforeRead, AfterRead, AtTheEnd
<1>5. CASE AtEnd(t)
    <2>1. op[t] = "end" /\ pc'[t] = "idle"
        BY <1>1, <1>5 DEF AtEnd
    <2> QED
        BY <1>2, <1>3, <2>1 DEF BeforeRead, AfterRead, AtTheEnd
<1> QED
    BY <1>4, <1>5

LEMMA DigestInvPreserved == IInv /\ DigestInv /\ [Next]_vars => DigestInv'
<1> SUFFICES ASSUME IInv, DigestInv, [Next]_vars, Lone'
             PROVE  \A t \in users' : BeforeRead(t)' /\ AfterRead(t)' /\ AtTheEnd(t)'
    BY DEF DigestInv
<1>1. UNCHANGED <<users, size>>
    BY DEF Next, Callback, Call, Step, SeekToFileOffset, SeekToEndOfFile, ReadCall, Calculate, Enter,
           WaitForAsset, Wake, AtEnd, Read, ReadLocal, ReadNothing, ReadNoMemory, ReadFails, ReadAsset,
           Return, DigestLoop, handleVars, vars
<1>2. Lone /\ File' = File
    BY <1>1 DEF Lone, File
<1>3. \A t \in users : BeforeRead(t) /\ AfterRead(t) /\ AtTheEnd(t)
    BY <1>2 DEF DigestInv
<1>4. CASE UNCHANGED vars
    BY <1>1, <1>2, <1>3, <1>4 DEF BeforeRead, AfterRead, AtTheEnd, vars, threadVars
<1>5. CASE Callback
    <2>1. UNCHANGED <<offset, threadVars>> /\ (error => error')
        BY <1>5 DEF Callback, GiveAsset, ClearLock, StoreError, Signal
    <2> QED
        BY <1>1, <1>2, <1>3, <2>1 DEF BeforeRead, AfterRead, AtTheEnd, threadVars
<1>6. ASSUME NEW t \in Threads, Call(t) \/ Step(t)
      PROVE  \A u \in users' : BeforeRead(u)' /\ AfterRead(u)' /\ AtTheEnd(u)'
    <2>1. t \in users
        BY <1>6 DEF Call, Step, SeekToFileOffset, SeekToEndOfFile, ReadCall, Calculate, Enter, WaitForAsset,
                    Wake, AtEnd, Read, ReadLocal, ReadNothing, ReadNoMemory, ReadFails, ReadAsset, Reading,
                    DigestLoop, IInv, OthersIdle
    <2>2. IsFiniteSet(users)
        BY CloudFileHandleAssumption, FS_Subset DEF IInv, Types, TypeOK
    <2>3. \A u \in users : u = t
        BY <1>2, <2>1, <2>2, FS_Singleton DEF Lone
    <2>4. BeforeRead(t)' /\ AfterRead(t)' /\ AtTheEnd(t)'
        BY <1>2, <1>6, <2>1, ReadOfALoneUser, CallOfALoneUser, LoopOfALoneUser, OtherStepsOfALoneUser DEF Step
    <2> QED
        BY <1>1, <2>3, <2>4
<1> QED
    BY <1>4, <1>5, <1>6 DEF Next

\* calculateMD5:andSHA: digests the whole file of its only user, for every block
\* size and file size, and leaves the offset where it was.
THEOREM DigestIsRight == Spec => []DigestIsOfTheWholeFile
<1>1. Init => DigestInv
    <2> SUFFICES ASSUME Init, NEW t \in users
                 PROVE  BeforeRead(t) /\ AfterRead(t) /\ AtTheEnd(t)
        BY DEF DigestInv
    <2>1. t \in Threads
        BY CloudFileHandleAssumption DEF Init
    <2>2. pc[t] = "idle" /\ op[t] = "none" /\ digest[t].result = "none"
        BY <2>1, EntryRecord DEF Init
    <2> QED
        BY <2>2 DEF BeforeRead, AfterRead, AtTheEnd
<1>2. DigestInv => DigestIsOfTheWholeFile
    BY DEF DigestInv, AtTheEnd, DigestIsOfTheWholeFile
<1> QED
    BY <1>1, <1>2, InitTypes, InvPreserved, DigestInvPreserved, PTL DEF Spec

----------------------------------------------------------------------------
(* When a digest is refused.                                               *)

\* What the digest loop of a handle that had no error knows, where the library
\* found the asset: the offset stays at a boundary of blocks until the last
\* one, and an error that nothing underneath caused is the end of the file met
\* there.
AtABoundary(t) ==
    ~digest[t].dirty /\ op[t] = "hash" =>
        /\ pc[t] \in {"wait", "blocked", "ready"} => ~error /\ offset % BlockSize = 0
        /\ pc[t] = "loop" /\ digest[t].fault = "none" =>
              IF error THEN kind = "asset" /\ size % BlockSize = 0
              ELSE digest[t].last = BlockSize => offset % BlockSize = 0

Refused(t) ==
    digest[t].result = "NO" /\ digest[t].fault = "none" /\ ~digest[t].dirty
        => kind = "asset" /\ size % BlockSize = 0

RefusalInv ==
    /\ callback = "error" => answer = "failed"
    /\ Lone /\ answer = "found" => \A t \in users : AtABoundary(t) /\ Refused(t)

LEMMA NextBoundary ==
    ASSUME NEW n \in Nat, n % BlockSize = 0
    PROVE  (n + BlockSize) % BlockSize = 0
<1>1. BlockSize \in Nat \ {0}
    BY CloudFileHandleAssumption
<1>2. PICK k \in Nat : n = k * BlockSize
    BY <1>1
<1>3. n + BlockSize = (k + 1) * BlockSize /\ k + 1 \in Nat /\ n + BlockSize \in Nat
    BY <1>1, <1>2
<1>4. \A j \in Nat, m \in Nat : m = j * BlockSize => m % BlockSize = 0
    BY <1>1
<1> HIDE <1>1, <1>2
<1> QED
    BY <1>3, <1>4

LEMMA CallMayBeRefused ==
    ASSUME IInv, RefusalInv, Lone, answer = "found", NEW t \in users, Call(t)
    PROVE  AtABoundary(t)' /\ Refused(t)'
<1>1. /\ t \in Threads /\ offset \in Nat /\ error \in BOOLEAN /\ BlockSize \in Nat \ {0}
      /\ pc \in [Threads -> {"idle", "wait", "blocked", "ready", "loop"}]
    BY CloudFileHandleAssumption DEF IInv, Types, TypeOK
<1>2. PICK call \in {"seek", "end", "read", "hash"} : Enter(t, call)
    BY DEF Call, SeekToFileOffset, SeekToEndOfFile, ReadCall, Calculate
<1>3. op'[t] = call /\ digest'[t] = NewDigest(offset, error)
    BY <1>1, <1>2, EnterTypes DEF IInv, Types, TypeOK, Enter
<1>4. digest'[t].dirty = error /\ digest'[t].result = "none"
    BY <1>3 DEF NewDigest
<1>5. pc'[t] \in {"idle", "wait"} /\ error' = error
    BY <1>1, <1>2 DEF Call, SeekToFileOffset, SeekToEndOfFile, ReadCall, Calculate, Enter
<1>6. op'[t] = "hash" => offset' = 0
    BY <1>1, <1>3 DEF Call, SeekToFileOffset, SeekToEndOfFile, ReadCall, Calculate, Enter, IInv, Types, TypeOK
<1>7. 0 % BlockSize = 0
    BY <1>1
<1> QED
    BY <1>4, <1>5, <1>6, <1>7 DEF AtABoundary, Refused

\* A read at a boundary ends at one, or the file ends with it.
LEMMA ReadMayBeRefused ==
    ASSUME IInv, DigestInv, RefusalInv, Lone, answer = "found", NEW t \in users, Read(t)
    PROVE  AtABoundary(t)' /\ Refused(t)'
<1>1. /\ t \in Threads /\ size \in Nat /\ offset \in Nat /\ BlockSize \in Nat \ {0}
      /\ digest \in [Threads -> Digests] /\ digest[t] \in Digests
      /\ pc \in [Threads -> {"idle", "wait", "blocked", "ready", "loop"}]
    BY CloudFileHandleAssumption DEF IInv, Types, TypeOK
<1>2. /\ pc[t] = "ready" /\ UNCHANGED <<handleVars, op>>
    BY DEF Read, ReadLocal, ReadNothing, ReadNoMemory, ReadFails, ReadAsset, Reading, Return
<1>3. Refused(t) /\ AtABoundary(t) /\ BeforeRead(t)
    BY DEF RefusalInv, DigestInv
<1>4. CASE op[t] # "hash"
    <2>1. digest' = digest
        BY <1>4 DEF Read, ReadLocal, ReadNothing, ReadNoMemory, ReadFails, ReadAsset, Return
    <2> QED
        BY <1>2, <1>3, <1>4, <2>1 DEF AtABoundary, Refused, handleVars
<1>5. CASE op[t] = "hash"
    <2>1. offset <= size /\ digest[t].result = "none" /\ digest[t].fault = "none"
        BY <1>2, <1>3, <1>5 DEF BeforeRead
    <2>2. ASSUME NEW bytes, NEW fault, Return(t, bytes, fault)
          PROVE  /\ pc'[t] = "loop" /\ digest'[t].last = Len(bytes) /\ digest'[t].result = "none"
                 /\ digest'[t].dirty = digest[t].dirty
                 /\ digest'[t].fault = IF fault = "none" THEN "none" ELSE fault
        BY <1>1, <1>5, <2>1, <2>2 DEF Return, Digests
    <2>3. pc'[t] = "loop" /\ digest'[t].result = "none" /\ digest'[t].dirty = digest[t].dirty
        BY <2>2 DEF Read, ReadLocal, ReadNothing, ReadNoMemory, ReadFails, ReadAsset
    <2>4. ASSUME ~digest[t].dirty, digest'[t].fault = "none"
          PROVE  IF error' THEN kind = "asset" /\ size % BlockSize = 0
                 ELSE digest'[t].last = BlockSize => offset' % BlockSize = 0
        <3>1. ~error /\ offset % BlockSize = 0
            BY <1>2, <1>3, <1>5, <2>4 DEF AtABoundary
        <3>2. ~ReadNothing(t)
            \* The asset the library found is there by now.
            <4>1. kind = "asset" => callback \notin {"asset", "unlock"}
                BY <1>1, <1>2 DEF IInv, BlockOrder
            <4>2. kind = "asset" => asset
                BY <4>1 DEF IInv, BlockOrder
            <4> QED
                BY <3>1, <4>2 DEF ReadNothing
        <3>3. ~ReadNoMemory(t) /\ ~ReadFails(t)
            BY <2>2, <2>4 DEF ReadNoMemory, ReadFails
        <3>4. Available \in Nat /\ Len(Bytes) = Available /\ (Available = 0 => offset = size)
            BY <1>1, <2>1, AvailableBounds DEF IInv
        <3>5. /\ offset' = offset + Available /\ digest'[t].last = Available
              /\ error' => kind = "asset" /\ Available = 0
            <4>1. ReadLocal(t) \/ ReadAsset(t)
                BY <3>2, <3>3 DEF Read
            <4>2. offset' = offset + Available /\ Return(t, Bytes, "none")
                BY <4>1 DEF ReadLocal, ReadAsset
            <4>3. error' => kind = "asset" /\ Available = 0
                BY <3>1, <4>1 DEF ReadLocal, ReadAsset
            <4> QED
                BY <2>2, <3>4, <4>2, <4>3
        <3> QED
            BY <3>1, <3>4, <3>5, <1>1, NextBoundary
    <2> QED
        BY <1>2, <2>3, <2>4 DEF AtABoundary, Refused, handleVars
<1> QED
    BY <1>4, <1>5

LEMMA LoopMayBeRefused ==
    ASSUME IInv, DigestInv, RefusalInv, Lone, answer = "found", NEW t \in users, DigestLoop(t)
    PROVE  AtABoundary(t)' /\ Refused(t)'
<1>1. /\ t \in Threads /\ BlockSize \in Nat \ {0} /\ error \in BOOLEAN
      /\ digest \in [Threads -> Digests] /\ digest[t] \in Digests
      /\ pc \in [Threads -> {"idle", "wait", "blocked", "ready", "loop"}]
      /\ digest[t].last \in 0..BlockSize
    BY CloudFileHandleAssumption DEF IInv, Types, TypeOK
<1>2. pc[t] = "loop" /\ UNCHANGED <<kind, size, op, error>>
    BY DEF DigestLoop, handleVars
<1>3. AtABoundary(t) /\ AfterRead(t)
    BY DEF RefusalInv, DigestInv
<1>4. /\ op[t] = "hash" /\ digest[t].result = "none"
      /\ digest[t].fault = "read" => error
      /\ digest[t].fault = "memory" => digest[t].last = 0
    BY <1>2, <1>3 DEF AfterRead
<1>5. ASSUME NEW result \in {"YES", "NO"}, EndDigest(t, result)
      PROVE  /\ pc'[t] = "idle" /\ digest'[t].result = result
             /\ digest'[t].dirty = digest[t].dirty /\ digest'[t].fault = digest[t].fault
    BY <1>1, <1>5 DEF EndDigest, Digests
<1>6. CASE error /\ EndDigest(t, "NO")
    BY <1>2, <1>3, <1>4, <1>5, <1>6 DEF AtABoundary, Refused
<1>7. CASE EndDigest(t, "YES")
    BY <1>5, <1>7 DEF AtABoundary, Refused
<1>8. CASE /\ ~error /\ ~(digest[t].last < BlockSize)
           /\ pc' = [pc EXCEPT ![t] = "wait"] /\ UNCHANGED <<offset, digest>>
    <2>1. digest[t].fault = "none" /\ digest[t].last = BlockSize
        BY <1>1, <1>4, <1>8 DEF Digests
    <2>2. pc'[t] = "wait"
        BY <1>1, <1>8
    <2> QED
        BY <1>2, <1>3, <1>4, <1>8, <2>1, <2>2 DEF AtABoundary, Refused
<1> QED
    BY <1>6, <1>7, <1>8 DEF DigestLoop

LEMMA OtherStepsMayBeRefused ==
    ASSUME IInv, RefusalInv, Lone, answer = "found", NEW t \in users, WaitForAsset(t) \/ Wake(t) \/ AtEnd(t)
    PROVE  AtABoundary(t)' /\ Refused(t)'
<1>1. /\ t \in Threads /\ pc \in [Threads -> {"idle", "wait", "blocked", "ready", "loop"}]
    BY CloudFileHandleAssumption DEF IInv, Types, TypeOK
<1>2. AtABoundary(t) /\ Refused(t)
    BY DEF RefusalInv
<1>3. UNCHANGED <<kind, size, op, digest, error>>
    BY DEF WaitForAsset, Wake, AtEnd, handleVars
<1>4. CASE WaitForAsset(t) \/ Wake(t)
    <2>1. pc[t] \in {"wait", "blocked"} /\ pc'[t] \in {"blocked", "ready"} /\ UNCHANGED offset
        BY <1>1, <1>4 DEF WaitForAsset, Wake
    <2> QED
        BY <1>2, <1>3, <2>1 DEF AtABoundary, Refused
<1>5. CASE AtEnd(t)
    <2>1. op[t] = "end"
        BY <1>5 DEF AtEnd
    <2> QED
        BY <1>2, <1>3, <2>1 DEF AtABoundary, Refused
<1> QED
    BY <1>4, <1>5

LEMMA RefusalInvPreserved == IInv /\ DigestInv /\ RefusalInv /\ [Next]_vars => RefusalInv'
<1> SUFFICES ASSUME IInv, DigestInv, RefusalInv, [Next]_vars
             PROVE  RefusalInv'
    OBVIOUS
<1>1. UNCHANGED handleVars
    BY DEF Next, Callback, Call, Step, SeekToFileOffset, SeekToEndOfFile, ReadCall, Calculate, Enter,
           WaitForAsset, Wake, AtEnd, Read, ReadLocal, ReadNothing, ReadNoMemory, ReadFails, ReadAsset,
           Return, DigestLoop, vars
<1>2. Lone' = Lone
    BY <1>1 DEF Lone, handleVars
<1>3. CASE UNCHANGED vars
    BY <1>1, <1>2, <1>3 DEF RefusalInv, AtABoundary, Refused, vars, handleVars, assetVars, threadVars
<1>4. CASE Callback
    <2>1. UNCHANGED <<offset, threadVars>> /\ (callback' = "error" => answer = "failed")
        BY <1>4 DEF Callback, GiveAsset, ClearLock, StoreError, Signal
    <2>2. answer = "found" => error' = error
        BY <1>4 DEF Callback, GiveAsset, ClearLock, StoreError, Signal, RefusalInv
    <2> QED
        BY <1>1, <1>2, <2>1, <2>2 DEF RefusalInv, AtABoundary, Refused, handleVars, threadVars
<1>5. ASSUME NEW t \in Threads, Call(t) \/ Step(t)
      PROVE  RefusalInv'
    <2>1. t \in users
        BY <1>5 DEF Call, Step, SeekToFileOffset, SeekToEndOfFile, ReadCall, Calculate, Enter, WaitForAsset,
                    Wake, AtEnd, Read, ReadLocal, ReadNothing, ReadNoMemory, ReadFails, ReadAsset, Reading,
                    DigestLoop, IInv, OthersIdle
    <2>2. callback' = callback
        BY <1>5 DEF Call, Step, SeekToFileOffset, SeekToEndOfFile, ReadCall, Calculate, WaitForAsset, Wake,
                    AtEnd, Read, ReadLocal, ReadNothing, ReadNoMemory, ReadFails, ReadAsset, Return,
                    DigestLoop, assetVars
    <2>3. ASSUME Lone, answer = "found"
          PROVE  \A u \in users : AtABoundary(u)' /\ Refused(u)'
        <3>1. IsFiniteSet(users)
            BY CloudFileHandleAssumption, FS_Subset DEF IInv, Types, TypeOK
        <3>2. \A u \in users : u = t
            BY <2>1, <2>3, <3>1, FS_Singleton DEF Lone
        <3>3. AtABoundary(t)' /\ Refused(t)'
            BY <1>5, <2>1, <2>3, CallMayBeRefused, ReadMayBeRefused, LoopMayBeRefused, OtherStepsMayBeRefused
               DEF Step
        <3> QED
            BY <3>2, <3>3
    <2> QED
        BY <1>1, <1>2, <2>2, <2>3 DEF RefusalInv, handleVars
<1> QED
    BY <1>3, <1>4, <1>5 DEF Next

\* An asset that the library found, and whose reads all worked, is refused its
\* digest only if it ends at a boundary of blocks; a local file never is.
THEOREM RefusedOnlyAtABoundary == Spec => []DigestIsRefusedOnlyAtABoundary
<1>1. Init => IInv /\ DigestInv /\ RefusalInv
    <2> SUFFICES ASSUME Init PROVE DigestInv /\ RefusalInv
        BY InitTypes
    <2>1. callback # "error"
        BY DEF Init
    <2>2. ASSUME NEW t \in users
          PROVE  /\ BeforeRead(t) /\ AfterRead(t) /\ AtTheEnd(t)
                 /\ AtABoundary(t) /\ Refused(t)
        <3>1. t \in Threads
            BY CloudFileHandleAssumption DEF Init
        <3>2. pc[t] = "idle" /\ op[t] = "none" /\ digest[t].result = "none"
            BY <3>1, EntryRecord DEF Init
        <3> QED
            BY <3>2 DEF BeforeRead, AfterRead, AtTheEnd, AtABoundary, Refused
    <2> QED
        BY <2>1, <2>2 DEF DigestInv, RefusalInv
<1>2. RefusalInv => DigestIsRefusedOnlyAtABoundary
    BY DEF RefusalInv, Refused, DigestIsRefusedOnlyAtABoundary
<1> QED
    BY <1>1, <1>2, InvPreserved, DigestInvPreserved, RefusalInvPreserved, PTL DEF Spec
=============================================================================
