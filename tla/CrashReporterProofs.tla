------------------------ MODULE CrashReporterProofs ------------------------
(***************************************************************************)
(* Proofs about the crash reporter, for every finite set of threads, every *)
(* size of buffer and limit, and reports of any pieces: its types, what    *)
(* the buffered file keeps of what was written to it, who is suspended     *)
(* while a report is written, that the pending report is a box of one      *)
(* report, and what a success says of it.                                  *)
(***************************************************************************)
EXTENDS CrashReporter, FiniteSetTheorems, SequenceTheorems, TLAPS

FileTypes ==
    /\ buffer \in Seq(Byte) /\ disk \in Seq(Byte) /\ accepted \in Seq(Byte)
    /\ totalBytes \in Nat /\ dropped \in BOOLEAN /\ failed \in BOOLEAN

\* All that a step of the reporter may do to the file.
FileStep ==
    \/ FileReset
    \/ \E data \in Seq(Byte) : FileWrite(data)
    \/ FlushSucceeds
    \/ FlushFails
    \/ UNCHANGED fileVars

\* While nothing has failed, the count is that of the accepted bytes; it never
\* gets past the limit, even if it goes on after a failure.
FileInv ==
    /\ Conservation
    /\ Limit # 0 /\ ~failed => totalBytes = Len(accepted)
    /\ Limit # 0 => totalBytes <= Limit

----------------------------------------------------------------------------
(* The pieces of a report.  The prover does not take the induction schemes *)
(* of its library, which are about operators; the library's facts on sets  *)
(* give the same: a set of numbers has a least element.                    *)

LEMMA LeastElement ==
    ASSUME NEW S \in SUBSET Nat, S # {}
    PROVE  \E n \in S : \A m \in S : n <= m
<1> DEFINE R == StrictSubsetOrdering(Nat)
           T == {0..n : n \in S}
<1>1. IsWellFoundedOn(R, FiniteSubsetsOf(Nat))
    BY FS_StrictSubsetOrderingWellFounded
<1>2. T \subseteq FiniteSubsetsOf(Nat)
    <2>1. \A n \in S : 0..n \in SUBSET Nat /\ IsFiniteSet(0..n)
        BY FS_Interval
    <2> QED
        BY <2>1 DEF FiniteSubsetsOf
<1>3. T # {}
    OBVIOUS
<1>4. PICK X \in T : \A Y \in T : <<Y, X>> \notin R
    <2> HIDE DEF R, T
    <2> QED BY <1>1, <1>2, <1>3, WFMin
<1>5. PICK n \in S : X = 0..n
    OBVIOUS
<1>6. ASSUME NEW m \in S, m < n
      PROVE  FALSE
    <2>1. 0..m \subseteq 0..n /\ 0..m # 0..n
        <3>1. n \in 0..n /\ n \notin 0..m
            BY <1>6
        <3> QED
            BY <1>6, <3>1
    <2>2. 0..m \in SUBSET Nat /\ 0..n \in SUBSET Nat
        OBVIOUS
    <2>3. <<0..m, 0..n>> \in R
        BY <2>1, <2>2 DEF StrictSubsetOrdering
    <2> QED
        BY <1>4, <1>5, <2>3
<1> QED
    BY <1>6

\* A set that contains 0, and with each number the next one, contains them all.
LEMMA SetInduction ==
    ASSUME NEW S, 0 \in S, \A n \in Nat : n \in S => n + 1 \in S
    PROVE  Nat \subseteq S
<1> DEFINE Missing == Nat \ S
<1> SUFFICES ASSUME Missing # {} PROVE FALSE
    OBVIOUS
<1>1. PICK n \in Missing : \A m \in Missing : n <= m
    BY LeastElement
<1>2. n - 1 \in Nat /\ n - 1 \notin Missing
    BY <1>1
<1> QED
    BY <1>2

LEMMA PieceIsSeq ==
    ASSUME NEW n \in Nat, NEW s \in Seq(Nat), NEW i \in 1..Len(s)
    PROVE  /\ Piece(n, s, i) \in Seq(Byte) /\ Len(Piece(n, s, i)) = s[i]
           /\ \A k \in 1..s[i] : Piece(n, s, i)[k] = <<n, i, k>>
<1>1. s[i] \in Nat /\ i \in Nat
    BY ElementOfSeq, LenProperties
<1>2. Piece(n, s, i) \in [1..s[i] -> Byte]
    BY <1>1 DEF Piece, Byte
<1>3. Piece(n, s, i) \in Seq(Byte)
    BY <1>1, <1>2, SeqDef
<1>4. DOMAIN Piece(n, s, i) = 1..s[i] /\ DOMAIN Piece(n, s, i) = 1..Len(Piece(n, s, i)) /\ Len(Piece(n, s, i)) \in Nat
    BY <1>2, <1>3, LenProperties
<1>5. Len(Piece(n, s, i)) = s[i]
    BY <1>1, <1>4
<1> QED
    BY <1>3, <1>5 DEF Piece

Has(s, e) == \E x \in 1..Len(s) : s[x] = e

LEMMA ConcatHas ==
    ASSUME NEW S, NEW a \in Seq(S), NEW b \in Seq(S), NEW e
    PROVE  Has(a \o b, e) <=> Has(a, e) \/ Has(b, e)
<1>1. Len(a) \in Nat /\ Len(b) \in Nat
    BY LenProperties
<1>2. Len(a \o b) = Len(a) + Len(b)
    BY ConcatProperties
<1>3. \A x \in 1..Len(a) + Len(b) : (a \o b)[x] = IF x <= Len(a) THEN a[x] ELSE b[x - Len(a)]
    BY ConcatProperties
<1>4. \A x \in 1..Len(a) : x \in 1..Len(a \o b) /\ (a \o b)[x] = a[x]
    BY <1>1, <1>2, <1>3
<1>5. ASSUME NEW x \in 1..Len(b)
      PROVE  Len(a) + x \in 1..Len(a \o b) /\ (a \o b)[Len(a) + x] = b[x]
    <2>1. Len(a) + x \in 1..Len(a) + Len(b) /\ ~(Len(a) + x <= Len(a)) /\ (Len(a) + x) - Len(a) = x
        BY <1>1
    <2> QED
        BY <1>2, <1>3, <2>1
<1>6. ASSUME NEW x \in 1..Len(a \o b)
      PROVE  \/ x \in 1..Len(a) /\ (a \o b)[x] = a[x]
             \/ x - Len(a) \in 1..Len(b) /\ (a \o b)[x] = b[x - Len(a)]
    BY <1>1, <1>2, <1>3
<1>7. Has(a, e) => Has(a \o b, e)
    BY <1>4 DEF Has
<1>8. Has(b, e) => Has(a \o b, e)
    BY <1>5 DEF Has
<1>9. Has(a \o b, e) => Has(a, e) \/ Has(b, e)
    BY <1>6 DEF Has
<1> QED
    BY <1>7, <1>8, <1>9

\* Does f solve the equation of Pieces up to j?
Solves(n, s, f, j) ==
    /\ f \in [0..j -> Seq(Byte)] /\ f[0] = <<>>
    /\ \A i \in 1..j : f[i] = f[i - 1] \o Piece(n, s, i)

LEMMA SolutionGoesOn ==
    ASSUME NEW n \in Nat, NEW s \in Seq(Nat), NEW j \in Nat, j + 1 <= Len(s),
           NEW f, Solves(n, s, f, j)
    PROVE  \E g : Solves(n, s, g, j + 1)
<1> DEFINE g == [i \in 0..(j + 1) |-> IF i = j + 1 THEN f[j] \o Piece(n, s, j + 1) ELSE f[i]]
<1>1. Len(s) \in Nat /\ j + 1 \in 1..Len(s)
    BY LenProperties
<1>2. Piece(n, s, j + 1) \in Seq(Byte) /\ f[j] \in Seq(Byte)
    BY <1>1, PieceIsSeq DEF Solves
<1>3. f[j] \o Piece(n, s, j + 1) \in Seq(Byte)
    BY <1>2, ConcatProperties
<1>4. g \in [0..(j + 1) -> Seq(Byte)] /\ g[0] = <<>>
    BY <1>3 DEF Solves
<1>5. ASSUME NEW i \in 1..(j + 1)
      PROVE  g[i] = g[i - 1] \o Piece(n, s, i)
    <2>1. i - 1 \in 0..j /\ g[i - 1] = f[i - 1]
        OBVIOUS
    <2>2. CASE i = j + 1
        <3>1. i - 1 = j /\ i \in 0..(j + 1)
            BY <2>2
        <3>2. g[i] = f[j] \o Piece(n, s, i)
            BY <2>2, <3>1
        <3> QED
            BY <2>1, <3>1, <3>2
    <2>3. CASE i \in 1..j
        <3>1. g[i] = f[i]
            BY <2>3
        <3> QED
            BY <2>1, <2>3, <3>1 DEF Solves
    <2> QED
        BY <2>2, <2>3
<1>6. Solves(n, s, g, j + 1)
    <2> HIDE DEF g
    <2> QED
        BY <1>4, <1>5 DEF Solves
<1> QED
    BY <1>6

LEMMA SolutionExists ==
    ASSUME NEW n \in Nat, NEW s \in Seq(Nat)
    PROVE  \E f : Solves(n, s, f, Len(s))
<1> DEFINE Solved == {j \in Nat : j <= Len(s) => \E f : Solves(n, s, f, j)}
<1>1. 0 \in Solved
    <2>1. Solves(n, s, [i \in 0..0 |-> <<>>], 0)
        BY EmptySeq DEF Solves
    <2> QED
        BY <2>1
<1>2. \A j \in Nat : j \in Solved => j + 1 \in Solved
    BY SolutionGoesOn, LenProperties
<1>3. Nat \subseteq Solved
    <2> HIDE DEF Solved
    <2> QED
        BY <1>1, <1>2, SetInduction
<1> QED
    BY <1>3, LenProperties

\* The definition of Pieces has a solution, and so is what it says.
LEMMA PiecesSolve ==
    ASSUME NEW n \in Nat, NEW s \in Seq(Nat)
    PROVE  Solves(n, s, Pieces(n, s), Len(s))
<1> DEFINE e(g) == [i \in 0..Len(s) |-> IF i = 0 THEN <<>> ELSE g[i - 1] \o Piece(n, s, i)]
           f == Pieces(n, s)
           Typed == {j \in Nat : j <= Len(s) => f[j] \in Seq(Byte)}
<1>1. Len(s) \in Nat
    BY LenProperties
<1>2. f = e(f)
    <2>1. PICK g : Solves(n, s, g, Len(s))
        BY SolutionExists
    <2>2. g = e(g)
        BY <1>1, <2>1 DEF Solves
    <2>3. f = CHOOSE h : h = e(h)
        BY DEF Pieces
    <2> HIDE DEF e, f
    <2> QED
        BY <2>2, <2>3
<1>3. f[0] = <<>> /\ \A i \in 1..Len(s) : f[i] = f[i - 1] \o Piece(n, s, i)
    <2> HIDE DEF f
    <2>1. f[0] = <<>>
        BY <1>1, <1>2
    <2>2. ASSUME NEW i \in 1..Len(s)
          PROVE  f[i] = f[i - 1] \o Piece(n, s, i)
        <3>1. i # 0 /\ i \in 0..Len(s)
            BY <1>1
        <3>2. e(f)[i] = f[i - 1] \o Piece(n, s, i)
            BY <3>1
        <3> HIDE DEF e
        <3> QED
            BY <1>2, <3>2
    <2> QED
        BY <2>1, <2>2
<1>4. 0 \in Typed
    BY <1>3, EmptySeq
<1>5. ASSUME NEW j \in Nat, j \in Typed
      PROVE  j + 1 \in Typed
    <2> SUFFICES ASSUME j + 1 <= Len(s) PROVE f[j + 1] \in Seq(Byte)
        OBVIOUS
    <2>1. j + 1 \in 1..Len(s) /\ f[j] \in Seq(Byte)
        BY <1>1, <1>5
    <2>2. Piece(n, s, j + 1) \in Seq(Byte)
        BY <2>1, PieceIsSeq
    <2>3. f[j + 1] = f[j] \o Piece(n, s, j + 1)
        <3>1. (j + 1) - 1 = j
            OBVIOUS
        <3> HIDE DEF f
        <3> QED
            BY <1>3, <2>1, <3>1
    <2> QED
        BY <2>1, <2>2, <2>3, ConcatProperties
<1>6. Nat \subseteq Typed
    <2> HIDE DEF Typed
    <2> QED
        BY <1>4, <1>5, SetInduction
<1>7. f \in [0..Len(s) -> Seq(Byte)]
    <2>1. \A j \in 0..Len(s) : f[j] \in Seq(Byte)
        BY <1>1, <1>6
    <2> HIDE DEF f
    <2> QED
        BY <1>2, <2>1
<1> QED
    BY <1>3, <1>7 DEF Solves

\* Each byte of a piece is in what the pieces are up to it, and further on.
LEMMA PiecesHoldTheirBytes ==
    ASSUME NEW n \in Nat, NEW s \in Seq(Nat), NEW i \in 1..Len(s), NEW k \in 1..s[i]
    PROVE  Has(Pieces(n, s)[Len(s)], <<n, i, k>>)
<1> DEFINE f == Pieces(n, s)
           Holding == {j \in Nat : i + j <= Len(s) => Has(f[i + j], <<n, i, k>>)}
<1>1. Len(s) \in Nat /\ s[i] \in Nat
    BY LenProperties, ElementOfSeq
<1>2. /\ \A j \in 0..Len(s) : f[j] \in Seq(Byte)
      /\ \A j \in 1..Len(s) : f[j] = f[j - 1] \o Piece(n, s, j)
    BY PiecesSolve DEF Solves
<1> HIDE DEF f
<1>3. 0 \in Holding
    <2>1. f[i - 1] \in Seq(Byte) /\ f[i] = f[i - 1] \o Piece(n, s, i)
        BY <1>1, <1>2
    <2>2. Piece(n, s, i) \in Seq(Byte) /\ Len(Piece(n, s, i)) = s[i] /\ Piece(n, s, i)[k] = <<n, i, k>>
        BY PieceIsSeq
    <2>3. Has(Piece(n, s, i), <<n, i, k>>)
        BY <2>2 DEF Has
    <2>5. Has(f[i], <<n, i, k>>)
        BY <2>1, <2>2, <2>3, ConcatHas
    <2>4. i + 0 = i
        OBVIOUS
    <2> QED
        BY <2>4, <2>5
<1>4. ASSUME NEW j \in Nat, j \in Holding
      PROVE  j + 1 \in Holding
    <2> SUFFICES ASSUME i + (j + 1) <= Len(s)
                 PROVE  Has(f[i + (j + 1)], <<n, i, k>>)
        OBVIOUS
    <2>1. i + (j + 1) \in 1..Len(s) /\ i + j \in 0..Len(s) /\ (i + (j + 1)) - 1 = i + j
        BY <1>1
    <2>2. Has(f[i + j], <<n, i, k>>)
        BY <1>1, <1>4, <2>1
    <2>3. f[i + j] \in Seq(Byte) /\ Piece(n, s, i + (j + 1)) \in Seq(Byte)
          /\ f[i + (j + 1)] = f[i + j] \o Piece(n, s, i + (j + 1))
        BY <1>2, <2>1, PieceIsSeq
    <2> QED
        BY <2>2, <2>3, ConcatHas
<1>5. Nat \subseteq Holding
    <2> HIDE DEF Holding
    <2> QED
        BY <1>3, <1>4, SetInduction
<1>6. Len(s) - i \in Nat /\ i + (Len(s) - i) = Len(s) /\ Len(s) <= Len(s)
    BY <1>1
<1> QED
    BY <1>5, <1>6 DEF f

----------------------------------------------------------------------------
(* The file.                                                               *)

LEMMA PrefixIsSeq ==
    ASSUME NEW data \in Seq(Byte), NEW k \in 0..(Len(data) - 1)
    PROVE  SubSeq(data, 1, k) \in Seq(Byte)
<1>1. Len(data) \in Nat /\ 1 \in Int /\ k \in Int
    BY LenProperties
<1>2. \A i \in 1..k : data[i] \in Byte
    BY <1>1, ElementOfSeq
<1> QED
    BY <1>1, <1>2, SubSeqProperties

LEMMA FileTypesPreserved ==
    ASSUME FileTypes, FileStep
    PROVE  FileTypes'
<1>1. CASE FileReset
    BY <1>1, EmptySeq DEF FileTypes, FileReset
<1>2. ASSUME NEW data \in Seq(Byte), FileWrite(data)
      PROVE  FileTypes'
    <2>1. Len(data) \in Nat
        BY LenProperties
    <2>2. CASE WriteDropped(data)
        BY <2>2 DEF FileTypes, WriteDropped
    <2>3. CASE WriteBuffered(data)
        BY <2>1, <2>3, ConcatProperties DEF FileTypes, WriteBuffered, Counted
    <2>4. CASE WriteSpilled(data)
        <3>1. /\ <<>> \in Seq(Byte) /\ buffer \o data \in Seq(Byte)
              /\ disk \o buffer \in Seq(Byte) /\ disk \o (buffer \o data) \in Seq(Byte)
              /\ accepted \o data \in Seq(Byte)
            BY ConcatProperties, EmptySeq DEF FileTypes
        <3>2. totalBytes' \in Nat /\ dropped' \in BOOLEAN /\ failed' \in BOOLEAN
            BY <2>1, <2>4 DEF FileTypes, WriteSpilled, Counted
        <3>3. accepted' \in Seq(Byte) /\ buffer' \in Seq(Byte) /\ disk' \in Seq(Byte)
            BY <2>4, <3>1 DEF WriteSpilled, WriteN
        <3> QED
            BY <3>2, <3>3 DEF FileTypes
    <2>5. CASE WriteFailed(data)
        <3>1. accepted' \in Seq(Byte) /\ totalBytes' \in Nat /\ dropped' \in BOOLEAN /\ failed' \in BOOLEAN
            <4>1. UNCHANGED accepted /\ UNCHANGED dropped /\ failed' = TRUE /\ Counted(data)
                BY <2>5 DEF WriteFailed, WriteNFails
            <4> QED
                BY <2>1, <4>1 DEF FileTypes, Counted
        <3>2. CASE WriteNFails(buffer) /\ UNCHANGED buffer
            BY <3>1, <3>2, PrefixIsSeq, ConcatProperties DEF FileTypes, WriteNFails
        <3>3. CASE /\ buffer' = <<>>
                   /\ \E k \in 0..(Len(data) - 1) : disk' = disk \o buffer \o SubSeq(data, 1, k)
            BY <3>1, <3>3, PrefixIsSeq, ConcatProperties, EmptySeq DEF FileTypes
        <3> QED
            BY <2>5, <3>2, <3>3 DEF WriteFailed
    <2> QED
        BY <1>2, <2>2, <2>3, <2>4, <2>5 DEF FileWrite
<1>3. CASE FlushSucceeds
    BY <1>3, ConcatProperties, EmptySeq DEF FileTypes, FlushSucceeds, WriteN
<1>4. CASE FlushFails
    BY <1>4, PrefixIsSeq, ConcatProperties DEF FileTypes, FlushFails, WriteNFails
<1>5. CASE UNCHANGED fileVars
    BY <1>5 DEF FileTypes, fileVars
<1> QED
    BY <1>1, <1>2, <1>3, <1>4, <1>5 DEF FileStep

LEMMA FileInvPreserved ==
    ASSUME FileTypes, FileInv, FileStep
    PROVE  FileInv'
<1> USE FileAssumption
<1>1. CASE FileReset
    BY <1>1, EmptySeq, ConcatEmptySeq DEF FileReset, FileInv, Conservation
<1>2. ASSUME NEW data \in Seq(Byte), FileWrite(data)
      PROVE  FileInv'
    <2>1. Len(data) \in Nat /\ Len(accepted \o data) = Len(accepted) + Len(data)
        BY LenProperties, ConcatProperties DEF FileTypes
    <2>2. /\ (disk \o buffer) \o data = disk \o (buffer \o data)
          /\ ((disk \o buffer) \o data) \o <<>> = (disk \o buffer) \o data
        BY ConcatAssociative, ConcatProperties, ConcatEmptySeq DEF FileTypes
    <2>3. CASE WriteDropped(data)
        BY <2>3 DEF WriteDropped, FileInv, Conservation
    <2>4. CASE WriteBuffered(data) \/ WriteSpilled(data)
        <3>1. /\ ~OverLimit(data) /\ Counted(data)
              /\ accepted' = accepted \o data /\ UNCHANGED failed
              /\ disk' \o buffer' = (disk \o buffer) \o data
            <4>1. CASE WriteBuffered(data)
                BY <2>2, <4>1 DEF WriteBuffered
            <4>2. CASE WriteSpilled(data) /\ Len(data) <= BufferSize
                BY <4>2 DEF WriteSpilled, WriteN
            <4>3. CASE WriteSpilled(data) /\ ~(Len(data) <= BufferSize)
                <5>1. disk' = disk \o (buffer \o data) /\ buffer' = <<>>
                    BY <4>3 DEF WriteSpilled, WriteN
                <5>2. disk' \o buffer' = (disk \o buffer) \o data
                    BY <2>2, <5>1
                <5> QED
                    BY <4>3, <5>2 DEF WriteSpilled
            <4> QED
                BY <2>4, <4>1, <4>2, <4>3
        <3>2. Conservation'
            BY <3>1 DEF FileInv, Conservation
        <3>3. Limit # 0 => totalBytes' = totalBytes + Len(data) /\ totalBytes' <= Limit
            BY <2>1, <3>1 DEF OverLimit, Counted, FileTypes
        <3>4. Limit # 0 /\ ~failed' => totalBytes' = Len(accepted')
            <4>1. Limit # 0 /\ ~failed => totalBytes = Len(accepted)
                BY DEF FileInv
            <4> QED
                BY <2>1, <3>1, <3>3, <4>1
        <3> QED
            BY <3>2, <3>3, <3>4 DEF FileInv
    <2>5. CASE WriteFailed(data)
        <3>1. failed' /\ ~OverLimit(data) /\ Counted(data)
            BY <2>5 DEF WriteFailed, WriteNFails
        <3> QED
            BY <2>1, <3>1 DEF FileInv, Conservation, OverLimit, Counted, FileTypes
    <2> QED
        BY <1>2, <2>3, <2>4, <2>5 DEF FileWrite
<1>3. CASE FlushSucceeds
    <2>1. (disk \o buffer) \o <<>> = disk \o buffer
        BY ConcatProperties, ConcatEmptySeq DEF FileTypes
    <2> QED
        BY <1>3, <2>1 DEF FlushSucceeds, WriteN, FileInv, Conservation
<1>4. CASE FlushFails
    BY <1>4 DEF FlushFails, WriteNFails, FileInv, Conservation
<1>5. CASE UNCHANGED fileVars
    BY <1>5 DEF FileInv, Conservation, fileVars
<1> QED
    BY <1>1, <1>2, <1>3, <1>4, <1>5 DEF FileStep

LEMMA FileInvLimits ==
    ASSUME FileTypes, FileInv
    PROVE  WithinLimit
    BY ConcatProperties DEF FileTypes, FileInv, Conservation, WithinLimit

----------------------------------------------------------------------------
(* The report and its file: what is whole stays so.                        *)

\* All that a step may do to the report and its file.
ReportStep ==
    \/ FileReset /\ gen' = gen + 1 /\ size' \in Sizes /\ next' = 1 /\ exists'
    \/ /\ next <= Len(size) /\ FileWrite(Piece(gen, size, next)) /\ next' = next + 1
       /\ UNCHANGED <<exists, gen, size>>
    \/ (FlushSucceeds \/ FlushFails) /\ UNCHANGED report
    \/ /\ UNCHANGED fileVars /\ UNCHANGED <<gen, size, next>>
       /\ UNCHANGED exists \/ (exists /\ ~exists')

\* Is b a byte of a piece that was written before?
FromReport(b) == b[1] = gen /\ b[2] \in 1..(next - 1) /\ b[3] \in 1..size[b[2]]

\* Disk and buffer have nothing but such bytes, and the last one in the buffer is
\* nowhere else: whatever a failed write leaves behind, the disk cannot be whole
\* while there is something in the buffer.
OwnBytes == \A b \in Byte : Has(disk, b) \/ Has(buffer, b) => FromReport(b)
LastIsNew ==
    buffer # <<>> => /\ ~Has(disk, buffer[Len(buffer)])
                     /\ \A j \in 1..(Len(buffer) - 1) : buffer[j] # buffer[Len(buffer)]

ReportInv == next <= Len(size) + 1 /\ OwnBytes /\ LastIsNew

LEMMA EmptyHasNothing == ASSUME NEW e PROVE ~Has(<<>>, e)
BY DEF Has

LEMMA PrefixHas ==
    ASSUME NEW S, NEW a \in Seq(S), NEW k \in 0..Len(a), NEW e, Has(SubSeq(a, 1, k), e)
    PROVE  \E x \in 1..k : a[x] = e
<1>1. Len(a) \in Nat /\ 1 \in Int /\ k \in Int
    BY LenProperties
<1>2. \A x \in 1..k : a[x] \in S
    BY <1>1, ElementOfSeq
<1>3. Len(SubSeq(a, 1, k)) = k /\ \A x \in 1..k : SubSeq(a, 1, k)[x] = a[x]
    BY <1>1, <1>2, SubSeqProperties
<1> QED
    BY <1>3 DEF Has

LEMMA PartHas ==
    ASSUME NEW d \in Seq(Byte), NEW a \in Seq(Byte), NEW k \in 0..(Len(a) - 1), NEW e
    PROVE  Has(d \o SubSeq(a, 1, k), e) <=> Has(d, e) \/ Has(SubSeq(a, 1, k), e)
<1> DEFINE part == SubSeq(a, 1, k)
<1>1. part \in Seq(Byte)
    BY PrefixIsSeq
<1> HIDE DEF part
<1>2. Has(d \o part, e) <=> Has(d, e) \/ Has(part, e)
    BY <1>1, ConcatHas
<1> QED
    BY <1>2 DEF part

\* The last byte of the buffer is not in what a failed write of it left.
LEMMA LastIsNotInPrefix ==
    ASSUME FileTypes, LastIsNew, buffer # <<>>, NEW k \in 0..(Len(buffer) - 1)
    PROVE  ~Has(disk \o SubSeq(buffer, 1, k), buffer[Len(buffer)])
<1>1. Len(buffer) \in Nat \ {0}
    BY EmptySeq DEF FileTypes
<1>2. ~Has(SubSeq(buffer, 1, k), buffer[Len(buffer)])
    <2>1. \A x \in 1..k : x \in 1..(Len(buffer) - 1)
        BY <1>1
    <2>2. k \in 0..Len(buffer)
        BY <1>1
    <2> QED
        BY <2>1, <2>2, PrefixHas DEF LastIsNew, FileTypes
<1> QED
    BY <1>2, PartHas DEF LastIsNew, FileTypes

LEMMA PrefixOnlyHas ==
    ASSUME NEW a \in Seq(Byte), NEW k \in 0..(Len(a) - 1), NEW b \in Byte,
           Has(SubSeq(a, 1, k), b)
    PROVE  Has(a, b)
<1>1. Len(a) \in Nat
    BY LenProperties
<1>2. k \in 0..Len(a) /\ \A x \in 1..k : x \in 1..Len(a)
    BY <1>1
<1> QED
    BY <1>2, PrefixHas DEF Has

\* A write brings no byte but those of its data.
LEMMA WriteBringsItsData ==
    ASSUME FileTypes, NEW data \in Seq(Byte), FileWrite(data),
           NEW b \in Byte, Has(disk', b) \/ Has(buffer', b)
    PROVE  Has(disk, b) \/ Has(buffer, b) \/ Has(data, b)
<1> USE DEF FileTypes
<1>1. CASE WriteDropped(data)
    BY <1>1 DEF WriteDropped
<1>2. CASE WriteBuffered(data)
    BY <1>2, ConcatHas DEF WriteBuffered
<1>3. CASE WriteSpilled(data)
    <2>1. buffer \o data \in Seq(Byte)
        BY ConcatProperties
    <2>2. CASE Len(data) <= BufferSize
        <3>1. disk' = disk \o buffer /\ buffer' = data
            BY <1>3, <2>2 DEF WriteSpilled, WriteN
        <3>2. Has(disk \o buffer, b) => Has(disk, b) \/ Has(buffer, b)
            BY ConcatHas
        <3> QED
            BY <3>1, <3>2
    <2>3. CASE ~(Len(data) <= BufferSize)
        <3>1. disk' = disk \o (buffer \o data) /\ buffer' = <<>>
            BY <1>3, <2>3 DEF WriteSpilled, WriteN
        <3>2. Has(buffer \o data, b) => Has(buffer, b) \/ Has(data, b)
            BY ConcatHas
        <3>3. Has(disk', b) => Has(disk, b) \/ Has(buffer \o data, b)
            BY <2>1, <3>1, ConcatHas
        <3> QED
            BY <3>1, <3>2, <3>3, EmptyHasNothing
    <2> QED
        BY <2>2, <2>3
<1>4. CASE WriteFailed(data)
    <2>1. CASE WriteNFails(buffer) /\ UNCHANGED buffer
        <3>1. PICK k \in 0..(Len(buffer) - 1) : disk' = disk \o SubSeq(buffer, 1, k)
            BY <2>1 DEF WriteNFails
        <3>3. Has(disk', b) => Has(disk, b) \/ Has(SubSeq(buffer, 1, k), b)
            BY <3>1, PartHas
        <3>4. Has(SubSeq(buffer, 1, k), b) => Has(buffer, b)
            BY PrefixOnlyHas
        <3> QED
            BY <2>1, <3>3, <3>4
    <2>2. ASSUME buffer' = <<>>, NEW k \in 0..(Len(data) - 1),
                 disk' = disk \o buffer \o SubSeq(data, 1, k)
          PROVE  Has(disk, b) \/ Has(buffer, b) \/ Has(data, b)
        <3>1. SubSeq(data, 1, k) \in Seq(Byte) /\ disk \o buffer \in Seq(Byte)
            BY PrefixIsSeq, ConcatProperties
        <3>2. Has((disk \o buffer) \o SubSeq(data, 1, k), b)
                 => Has(disk \o buffer, b) \/ Has(SubSeq(data, 1, k), b)
            BY <3>1, PartHas
        <3>3. Has(disk \o buffer, b) => Has(disk, b) \/ Has(buffer, b)
            BY ConcatHas
        <3>4. Has(SubSeq(data, 1, k), b) => Has(data, b)
            BY PrefixOnlyHas
        <3> QED
            BY <2>2, <3>2, <3>3, <3>4, EmptyHasNothing
    <2> QED
        BY <1>4, <2>1, <2>2 DEF WriteFailed
<1> QED
    BY <1>1, <1>2, <1>3, <1>4 DEF FileWrite

\* A flush brings none.
LEMMA FlushBringsNothing ==
    ASSUME FileTypes, FlushSucceeds \/ FlushFails, NEW b \in Byte, Has(disk', b) \/ Has(buffer', b)
    PROVE  Has(disk, b) \/ Has(buffer, b)
<1> USE DEF FileTypes
<1>1. CASE FlushSucceeds
    BY <1>1, ConcatHas, EmptyHasNothing DEF FlushSucceeds, WriteN
<1>2. CASE FlushFails
    <2>1. PICK k \in 0..(Len(buffer) - 1) : disk' = disk \o SubSeq(buffer, 1, k)
        BY <1>2 DEF FlushFails, WriteNFails
    <2>3. Has(disk', b) => Has(disk, b) \/ Has(SubSeq(buffer, 1, k), b)
        BY <2>1, PartHas
    <2>4. Has(SubSeq(buffer, 1, k), b) => Has(buffer, b)
        BY PrefixOnlyHas
    <2> QED
        BY <1>2, <2>3, <2>4 DEF FlushFails
<1> QED
    BY <1>1, <1>2

\* Nothing of the next piece is there before it is written, and its bytes differ.
LEMMA NextPieceIsNew ==
    ASSUME TypeOK, ReportInv, next <= Len(size), NEW x \in 1..Len(Piece(gen, size, next))
    PROVE  LET d == Piece(gen, size, next)
           IN  /\ d[x] \in Byte /\ ~Has(disk, d[x]) /\ ~Has(buffer, d[x])
               /\ \A y \in 1..Len(d) : d[y] = d[x] => y = x
<1> DEFINE d == Piece(gen, size, next)
<1>1. next \in 1..Len(size) /\ gen \in Nat /\ size \in Seq(Nat)
    BY LenProperties DEF TypeOK
<1>2. /\ d \in Seq(Byte) /\ Len(d) = size[next]
      /\ \A k \in 1..size[next] : d[k] = <<gen, next, k>>
    BY <1>1, PieceIsSeq
<1> HIDE DEF d
<1>3. d[x] \in Byte
    BY <1>2, ElementOfSeq DEF d
<1>4. d[x] = <<gen, next, x>> /\ \A y \in 1..Len(d) : d[y] = <<gen, next, y>>
    BY <1>2 DEF d
<1>5. ~FromReport(d[x])
    BY <1>1, <1>4 DEF FromReport
<1> QED
    BY <1>3, <1>4, <1>5 DEF ReportInv, OwnBytes, d

LEMMA LastIsNewAfterWrite ==
    ASSUME TypeOK, ReportInv, next <= Len(size), FileWrite(Piece(gen, size, next))
    PROVE  LastIsNew'
<1> DEFINE data == Piece(gen, size, next)
<1>1. FileTypes
    BY DEF TypeOK, FileTypes
<1>2. data \in Seq(Byte)
    BY PieceIsSeq, LenProperties DEF TypeOK
<1>3. \A x \in 1..Len(data) :
         /\ data[x] \in Byte /\ ~Has(disk, data[x]) /\ ~Has(buffer, data[x])
         /\ \A y \in 1..Len(data) : data[y] = data[x] => y = x
    BY NextPieceIsNew
<1> HIDE DEF data
<1>4. LastIsNew /\ FileWrite(data)
    BY DEF ReportInv, data
<1>5. Len(data) \in Nat /\ Len(buffer) \in Nat
    BY <1>2, LenProperties DEF TypeOK
<1>6. CASE WriteDropped(data)
    BY <1>4, <1>6 DEF WriteDropped, LastIsNew
<1>7. CASE WriteBuffered(data)
    <2>1. buffer' = buffer \o data /\ disk' = disk /\ Len(buffer') = Len(buffer) + Len(data)
        BY <1>2, <1>7, ConcatProperties DEF WriteBuffered, TypeOK
    <2>2. \A i \in 1..Len(buffer) + Len(data) :
             buffer'[i] = IF i <= Len(buffer) THEN buffer[i] ELSE data[i - Len(buffer)]
        BY <1>2, <2>1, ConcatProperties DEF TypeOK
    <2>3. CASE data = <<>>
        <3>1. buffer' = buffer
            BY <2>1, <2>3, ConcatEmptySeq DEF TypeOK
        <3> QED
            BY <1>4, <2>1, <3>1 DEF LastIsNew
    <2>4. CASE data # <<>>
        <3>1. Len(data) \in Nat \ {0}
            BY <1>2, <2>4, EmptySeq
        <3>2. buffer'[Len(buffer')] = data[Len(data)]
            <4>1. Len(buffer') \in 1..Len(buffer) + Len(data) /\ ~(Len(buffer') <= Len(buffer))
                  /\ Len(buffer') - Len(buffer) = Len(data)
                BY <1>5, <2>1, <3>1
            <4> QED
                BY <2>2, <4>1
        <3>3. ~Has(disk, data[Len(data)]) /\ ~Has(buffer, data[Len(data)])
            BY <1>3, <3>1
        <3>4. ASSUME NEW j \in 1..(Len(buffer') - 1)
              PROVE  buffer'[j] # data[Len(data)]
            <4>1. CASE j <= Len(buffer)
                <5>1. j \in 1..Len(buffer) /\ buffer'[j] = buffer[j]
                    BY <1>5, <2>1, <2>2, <4>1
                <5> QED
                    BY <3>3, <5>1 DEF Has
            <4>2. CASE ~(j <= Len(buffer))
                <5>1. j - Len(buffer) \in 1..Len(data) /\ j - Len(buffer) # Len(data)
                      /\ buffer'[j] = data[j - Len(buffer)]
                    BY <1>5, <2>1, <2>2, <4>2
                <5>2. Len(data) \in 1..Len(data)
                    BY <3>1
                <5> QED
                    BY <1>3, <5>1, <5>2
            <4> QED
                BY <4>1, <4>2
        <3> QED
            BY <2>1, <3>2, <3>3, <3>4 DEF LastIsNew
    <2> QED
        BY <2>3, <2>4
<1>8. CASE WriteSpilled(data)
    <2>1. CASE Len(data) <= BufferSize
        <3>1. disk' = disk \o buffer /\ buffer' = data
            BY <1>8, <2>1 DEF WriteSpilled, WriteN
        <3>2. CASE data # <<>>
            <4>1. Len(data) \in 1..Len(data)
                BY <1>2, <3>2, EmptySeq
            <4>2. ~Has(disk', data[Len(data)])
                BY <1>3, <3>1, <4>1, ConcatHas DEF TypeOK
            <4>3. \A j \in 1..(Len(data) - 1) : j \in 1..Len(data) /\ j # Len(data)
                BY <1>5
            <4> QED
                BY <1>3, <3>1, <4>1, <4>2, <4>3 DEF LastIsNew
        <3> QED
            BY <3>1, <3>2 DEF LastIsNew
    <2>2. CASE ~(Len(data) <= BufferSize)
        BY <1>8, <2>2 DEF WriteSpilled, LastIsNew
    <2> QED
        BY <2>1, <2>2
<1>9. CASE WriteFailed(data)
    <2>1. CASE WriteNFails(buffer) /\ UNCHANGED buffer
        BY <1>1, <1>4, <2>1, LastIsNotInPrefix DEF WriteNFails, LastIsNew
    <2>2. CASE buffer' = <<>>
        BY <2>2 DEF LastIsNew
    <2> QED
        BY <1>9, <2>1, <2>2 DEF WriteFailed
<1> QED
    BY <1>4, <1>6, <1>7, <1>8, <1>9 DEF FileWrite

\* A new report starts with nothing; every other step keeps the bytes apart.
LEMMA ReportInvPreserved ==
    ASSUME TypeOK, FileTypes', ReportInv, ReportStep
    PROVE  ReportInv'
<1>1. FileTypes /\ Len(size) \in Nat
    BY LenProperties DEF TypeOK, FileTypes
<1>2. CASE FileReset /\ size' \in Sizes /\ next' = 1
    <2>1. Len(size') \in Nat
        BY <1>2, LenProperties, ReporterAssumption
    <2>2. buffer' = <<>> /\ disk' = <<>>
        BY <1>2 DEF FileReset
    <2>3. OwnBytes' /\ LastIsNew'
        BY <2>2, EmptyHasNothing DEF OwnBytes, LastIsNew
    <2> QED
        BY <1>2, <2>1, <2>3 DEF ReportInv
<1>3. CASE /\ next <= Len(size) /\ FileWrite(Piece(gen, size, next)) /\ next' = next + 1
           /\ UNCHANGED <<gen, size>>
    <2> DEFINE data == Piece(gen, size, next)
    <2>1. next \in 1..Len(size) /\ size[next] \in Nat
        BY <1>3, LenProperties, ElementOfSeq DEF TypeOK
    <2>2. /\ data \in Seq(Byte) /\ Len(data) = size[next]
          /\ \A k \in 1..size[next] : data[k] = <<gen, next, k>>
        BY <2>1, PieceIsSeq DEF TypeOK
    <2> HIDE DEF data
    <2>3. ASSUME NEW b \in Byte, Has(disk', b) \/ Has(buffer', b)
          PROVE  FromReport(b)'
        <3>1. Has(disk, b) \/ Has(buffer, b) \/ Has(data, b)
            BY <1>1, <1>3, <2>2, <2>3, WriteBringsItsData DEF data
        <3>2. CASE Has(disk, b) \/ Has(buffer, b)
            BY <1>1, <1>3, <2>1, <3>2 DEF ReportInv, OwnBytes, FromReport, TypeOK
        <3>3. CASE Has(data, b)
            <4>1. PICK k \in 1..size[next] : b = <<gen, next, k>>
                BY <2>2, <3>3 DEF Has
            <4> QED
                BY <1>1, <1>3, <2>1, <4>1 DEF FromReport
        <3> QED
            BY <3>1, <3>2, <3>3
    <2>4. LastIsNew'
        BY <1>3, LastIsNewAfterWrite
    <2> QED
        BY <1>1, <1>3, <2>1, <2>3, <2>4 DEF ReportInv, OwnBytes
<1>4. CASE (FlushSucceeds \/ FlushFails) /\ UNCHANGED report
    <2>1. OwnBytes'
        BY <1>1, <1>4, FlushBringsNothing DEF report, ReportInv, OwnBytes, FromReport
    <2>2. LastIsNew'
        <3>1. CASE FlushSucceeds
            BY <3>1 DEF FlushSucceeds, LastIsNew
        <3>2. CASE FlushFails
            BY <1>1, <3>2, LastIsNotInPrefix DEF FlushFails, WriteNFails, ReportInv, LastIsNew
        <3> QED
            BY <1>4, <3>1, <3>2
    <2> QED
        BY <1>4, <2>1, <2>2 DEF report, ReportInv
<1>5. CASE UNCHANGED fileVars /\ UNCHANGED <<gen, size, next>>
    BY <1>5 DEF fileVars, ReportInv, OwnBytes, LastIsNew, FromReport
<1> QED
    BY <1>2, <1>3, <1>4, <1>5 DEF ReportStep

\* Every byte of a report that is to be written is in it when it is whole.
LEMMA WholeHasAll ==
    ASSUME TypeOK, disk = Whole, NEW i \in 1..Len(size), NEW k \in 1..size[i]
    PROVE  Has(disk, <<gen, i, k>>)
BY PiecesHoldTheirBytes DEF Whole, TypeOK

\* Once the file is whole nothing is added to it: the buffer is empty then, and
\* so is every piece that is still to come.
LEMMA WholeIsFinal ==
    ASSUME TypeOK, ReportInv, disk = Whole, ReportStep, gen' = gen
    PROVE  disk' = disk
<1>1. FileTypes /\ Len(size) \in Nat /\ gen \in Nat /\ gen + 1 # gen
    BY LenProperties DEF TypeOK, FileTypes
<1>2. buffer = <<>>
    <2> SUFFICES ASSUME buffer # <<>> PROVE FALSE
        OBVIOUS
    <2> DEFINE b == buffer[Len(buffer)]
    <2>1. Len(buffer) \in 1..Len(buffer) /\ b \in Byte
        BY EmptySeq, ElementOfSeq DEF TypeOK
    <2>2. FromReport(b)
        BY <2>1 DEF ReportInv, OwnBytes, Has
    <2> HIDE DEF b
    <2>3. b[2] \in 1..Len(size) /\ b[1] = gen /\ b[3] \in 1..size[b[2]]
        BY <1>1, <2>2 DEF FromReport, ReportInv, TypeOK
    <2>5. b = <<b[1], b[2], b[3]>>
        BY <2>1 DEF Byte
    <2>4. Has(disk, b)
        BY <2>3, <2>5, WholeHasAll
    <2> QED
        BY <2>4 DEF ReportInv, LastIsNew, b
<1>3. disk \o <<>> = disk /\ Len(<<>>) = 0
    BY ConcatEmptySeq, EmptySeq DEF TypeOK
<1>4. ~\E k \in 0..(Len(<<>>) - 1) : TRUE
    BY <1>3
<1>5. CASE next <= Len(size) /\ FileWrite(Piece(gen, size, next))
    <2> DEFINE data == Piece(gen, size, next)
    <2>1. next \in 1..Len(size) /\ size[next] \in Nat
        BY <1>5, LenProperties, ElementOfSeq DEF TypeOK
    <2>2. data \in Seq(Byte) /\ Len(data) = size[next]
        BY <2>1, PieceIsSeq DEF TypeOK
    <2>3. data = <<>>
        <3> SUFFICES ASSUME data # <<>> PROVE FALSE
            OBVIOUS
        <3>1. 1 \in 1..size[next]
            BY <2>1, <2>2, EmptySeq
        <3>2. Has(disk, <<gen, next, 1>>)
            BY <2>1, <3>1, WholeHasAll
        <3>3. <<gen, next, 1>> \in Byte /\ ~FromReport(<<gen, next, 1>>)
            BY <2>1 DEF FromReport, Byte, TypeOK
        <3> QED
            BY <3>2, <3>3 DEF ReportInv, OwnBytes
    <2>4. buffer \o data = <<>>
        BY <1>2, <2>3, ConcatEmptySeq, EmptySeq
    <2> HIDE DEF data
    <2>5. FileWrite(data)
        BY <1>5 DEF data
    <2>6. WriteSpilled(data) => disk' = disk
        BY <1>2, <1>3, <2>4 DEF WriteSpilled, WriteN
    <2>7. ~WriteFailed(data)
        BY <1>2, <1>4, <2>3 DEF WriteFailed, WriteNFails
    <2> QED
        BY <2>5, <2>6, <2>7 DEF FileWrite, WriteDropped, WriteBuffered
<1>6. CASE FlushSucceeds \/ FlushFails
    BY <1>2, <1>3, <1>4, <1>6 DEF FlushSucceeds, FlushFails, WriteN, WriteNFails
<1>7. CASE UNCHANGED fileVars
    BY <1>7 DEF fileVars
<1> QED
    BY <1>1, <1>5, <1>6, <1>7 DEF ReportStep

----------------------------------------------------------------------------
(* Every step of the reporter.                                             *)

\* Every step of the reporter does one of these to the report and its file.
LEMMA StepsOfTheReport ==
    ASSUME [Next]_vars
    PROVE  ReportStep
<1>1. ASSUME NEW t \in Threads, OpenReport(t)
      PROVE  ReportStep
    BY <1>1 DEF OpenReport, ReportStep
<1>2. ASSUME NEW t \in Threads, WritePiece(t)
      PROVE  ReportStep
    BY <1>2 DEF WritePiece, ReportStep
<1>3. ASSUME NEW t \in Threads, FlushReport(t) \/ CloseReport(t)
      PROVE  ReportStep
    BY <1>3 DEF FlushReport, CloseReport, ReportStep
<1>4. ASSUME NEW t \in Threads, Purge(t)
      PROVE  ReportStep
    BY <1>4 DEF Purge, ReportStep
<1>5. ASSUME NEW t \in Threads, EnableStep(t)
      PROVE  UNCHANGED fileVars /\ UNCHANGED report
    BY <1>5 DEF EnableStep, EnableClaims, EnableFails, Prepare, FillWriter, Register, Hook
<1>6. ASSUME NEW t \in Threads, AppStep(t), ~Purge(t)
      PROVE  UNCHANGED fileVars /\ UNCHANGED report
    BY <1>6 DEF AppStep, EnableTests, Malloc, MallocReturns, Throw, NoteException, Unhandled,
                Crash, LiveReport
<1>7. ASSUME NEW t \in Threads,
             \/ ResetHandlers(t) \/ OpenFails(t) \/ ListThreads(t) \/ Suspend(t)
             \/ WriteFaults(t) \/ WriteDone(t) \/ Resume(t) \/ Exit(t)
      PROVE  UNCHANGED fileVars /\ UNCHANGED report
    BY <1>7 DEF ResetHandlers, OpenFails, ListThreads, Suspend, WriteFaults, WriteDone, Resume, Exit
<1>8. Launch \/ Kill \/ UNCHANGED vars => UNCHANGED fileVars /\ UNCHANGED report
    BY DEF Launch, Kill, vars
<1>9. UNCHANGED fileVars /\ UNCHANGED report => ReportStep
    BY DEF ReportStep, report
<1> QED
    BY <1>1, <1>2, <1>3, <1>4, <1>5, <1>6, <1>7, <1>8, <1>9 DEF Next, HandlerStep, WriterStep

\* So does it to the file alone.
LEMMA StepsOfTheFile ==
    ASSUME TypeOK, [Next]_vars
    PROVE  FileStep
<1>1. ReportStep
    BY StepsOfTheReport
<1>2. ASSUME next <= Len(size), FileWrite(Piece(gen, size, next))
      PROVE  FileStep
    <2>1. Piece(gen, size, next) \in Seq(Byte)
        BY <1>2, PieceIsSeq, LenProperties DEF TypeOK
    <2> QED
        BY <1>2, <2>1 DEF FileStep
<1> QED
    BY <1>1, <1>2 DEF ReportStep, FileStep

\* The end of the process leaves a fresh one.
LEMMA FreshTypes ==
    ASSUME Dies, TypeOK, UNCHANGED <<launches, report, fileVars>>
    PROVE  TypeOK'
    BY DEF Dies, Fresh, TypeOK, report, fileVars, Places

LEMMA StepTypes ==
    ASSUME NEW t \in Threads, TypeOK, FileTypes', suspended' \in [Threads -> Nat],
           EnableStep(t) \/ AppStep(t) \/ HandlerStep(t)
    PROVE  TypeOK'
<1> USE DEF TypeOK, FileTypes, Places, At, Go, Runs, report, enabling, fileVars
<1>1. CASE EnableClaims(t)
    BY <1>1 DEF EnableClaims
<1>2. CASE EnableFails(t)
    BY <1>2 DEF EnableFails
<1>3. CASE Prepare(t)
    BY <1>3 DEF Prepare
<1>4. CASE FillWriter(t)
    BY <1>4 DEF FillWriter
<1>5. CASE Register(t)
    BY <1>5 DEF Register
<1>6. CASE Hook(t)
    BY <1>6 DEF Hook
<1>7. CASE EnableTests(t)
    BY <1>7 DEF EnableTests
<1>24. CASE Malloc(t)
    BY <1>24 DEF Malloc
<1>25. CASE MallocReturns(t)
    BY <1>25 DEF MallocReturns
<1>8. CASE Throw(t)
    BY <1>8, ZenonT(60) DEF Throw
<1>9. CASE NoteException(t)
    BY <1>9 DEF NoteException
<1>10. CASE Unhandled(t) \/ WriteFaults(t) \/ Exit(t)
    BY <1>10, FreshTypes DEF Unhandled, WriteFaults, Exit
<1>11. CASE Crash(t)
    BY <1>11 DEF Crash
<1>12. CASE LiveReport(t)
    BY <1>12 DEF LiveReport
<1>13. CASE Purge(t)
    BY <1>13 DEF Purge
<1>14. CASE ResetHandlers(t)
    BY <1>14 DEF ResetHandlers
<1>15. CASE OpenReport(t)
    BY <1>15, ReporterAssumption DEF OpenReport
<1>16. CASE OpenFails(t)
    BY <1>16 DEF OpenFails, Returns
<1>17. CASE ListThreads(t)
    <2>1. CASE writer = "ready"
        <3>1. todo' = [todo EXCEPT ![t] = Threads \ {t}] /\ at' = [at EXCEPT ![t] = "suspend"]
            BY <1>17, <2>1 DEF ListThreads
        <3>2. UNCHANGED <<launches, process, live, suspended, enabling, exception, report, status, fileVars>>
            BY <1>17, <2>1 DEF ListThreads
        <3> QED
            BY <3>1, <3>2
    <2> QED
        BY <1>17, <2>1, FreshTypes DEF ListThreads
<1>18. CASE Suspend(t)
    <2>1. CASE todo[t] = {}
        <3>1. at' = [at EXCEPT ![t] = "write"] /\ UNCHANGED <<todo, suspended>>
            BY <1>18, <2>1 DEF Suspend
        <3> QED
            BY <1>18, <3>1 DEF Suspend
    <2>2. ASSUME NEW u \in todo[t],
                 suspended' = [suspended EXCEPT ![u] = @ + 1],
                 todo' = [todo EXCEPT ![t] = @ \ {u}],
                 UNCHANGED at
          PROVE  TypeOK'
        <3>1. suspended' \in [Threads -> Nat] /\ todo' \in [Threads -> SUBSET Threads]
            BY <2>2
        <3> QED
            BY <1>18, <2>2, <3>1 DEF Suspend
    <2> QED
        BY <1>18, <2>1, <2>2 DEF Suspend
<1>19. CASE WritePiece(t)
    BY <1>19 DEF WritePiece
<1>20. CASE WriteDone(t)
    BY <1>20 DEF WriteDone
<1>21. CASE Resume(t)
    <2>1. /\ at' \in [Threads -> Places] /\ live' \in [Threads -> BOOLEAN]
          /\ todo' \in [Threads -> SUBSET Threads]
        <3>1. CASE todo[t] = {}
            <4>1. /\ at' = [at EXCEPT ![t] = IF live[t] THEN "app" ELSE "flush"]
                  /\ live' = [live EXCEPT ![t] = FALSE] /\ todo' = todo
                BY <1>21, <3>1 DEF Resume
            <4> QED
                BY <4>1
        <3>2. CASE todo[t] # {}
            <4>1. at' = at /\ live' = live /\ \E u \in todo[t] : todo' = [todo EXCEPT ![t] = @ \ {u}]
                BY <1>21, <3>2 DEF Resume
            <4> QED
                BY <4>1
        <3> QED
            BY <3>1, <3>2
    <2>2. UNCHANGED <<launches, process, enabling, exception, report, status, fileVars>>
        BY <1>21 DEF Resume
    <2> QED
        BY <2>1, <2>2
<1>22. CASE FlushReport(t)
    BY <1>22, ZenonT(60) DEF FlushReport, Returns
<1>23. CASE CloseReport(t)
    BY <1>23 DEF CloseReport, Returns
<1> QED
    BY <1>1, <1>2, <1>3, <1>4, <1>5, <1>6, <1>7, <1>8, <1>9, <1>10, <1>11, <1>12, <1>13, <1>14,
       <1>15, <1>16, <1>17, <1>18, <1>19, <1>20, <1>21, <1>22, <1>23,
       <1>24, <1>25
       DEF EnableStep, AppStep, HandlerStep, WriterStep

----------------------------------------------------------------------------
(* Who is suspended.                                                       *)

OffIsFresh == process = "off" => \A t \in Threads : suspended[t] = 0

NotItself == \A t \in Threads : t \notin todo[t]

\* The counts cannot be seen to be right without the state of the writers, nor
\* can a resumption be seen to keep them natural numbers.
IInv ==
    /\ TypeOK
    /\ OffIsFresh
    /\ NotItself
    /\ SuspendCountsMatch
    /\ SomeoneRuns

LEMMA SuspendersFinite ==
    ASSUME NEW u \in Threads
    PROVE  IsFiniteSet(Suspenders(u)) /\ Cardinality(Suspenders(u)) \in Nat
<1>1. IsFiniteSet(Suspenders(u))
    BY ReporterAssumption, FS_Subset DEF Suspenders
<1> QED
    BY <1>1, FS_CardinalityType

\* A step that changes nobody's holds keeps the counts.
LEMMA SameHolds ==
    ASSUME SuspendCountsMatch, UNCHANGED suspended,
           \A u \in Threads : \A t \in Threads \ {u} : Holds(t, u)' <=> Holds(t, u)
    PROVE  SuspendCountsMatch'
<1>1. \A u \in Threads : Suspenders(u)' = Suspenders(u)
    BY DEF Suspenders
<1> QED
    BY <1>1 DEF SuspendCountsMatch

\* So does a thread that goes between places at which it holds nobody.
LEMMA QuietStep ==
    ASSUME TypeOK, SuspendCountsMatch, UNCHANGED <<suspended, todo>>,
           NEW t \in Threads, at[t] \notin {"suspend", "write", "resume"},
           NEW place \in Places \ {"suspend", "write", "resume"},
           at' = [at EXCEPT ![t] = place]
    PROVE  SuspendCountsMatch'
<1>1. \A u \in Threads : \A s \in Threads \ {u} : Holds(s, u)' <=> Holds(s, u)
    BY DEF Holds, TypeOK
<1> QED
    BY <1>1, SameHolds

\* Or that begins to suspend.
LEMMA BeginSuspending ==
    ASSUME TypeOK, SuspendCountsMatch, UNCHANGED suspended,
           NEW t \in Threads, at[t] \notin {"suspend", "write", "resume"},
           at' = [at EXCEPT ![t] = "suspend"],
           todo' = [todo EXCEPT ![t] = Threads \ {t}]
    PROVE  SuspendCountsMatch'
<1>1. \A u \in Threads : \A s \in Threads \ {u} : Holds(s, u)' <=> Holds(s, u)
    BY DEF Holds, TypeOK
<1> QED
    BY <1>1, SameHolds

LEMMA SuspendMatches ==
    ASSUME IInv, NEW t \in Threads, Suspend(t)
    PROVE  SuspendCountsMatch' /\ suspended' \in [Threads -> Nat]
<1> USE DEF IInv
<1>1. CASE todo[t] = {}
    <2>1. at' = [at EXCEPT ![t] = "write"] /\ UNCHANGED <<todo, suspended>> /\ at[t] = "suspend"
        BY <1>1 DEF Suspend, Go, At
    <2>2. \A u \in Threads : \A s \in Threads \ {u} : Holds(s, u)' <=> Holds(s, u)
        BY <1>1, <2>1 DEF Holds, TypeOK
    <2> QED
        BY <2>1, <2>2, SameHolds DEF TypeOK
<1>2. CASE todo[t] # {}
    <2>1. PICK u \in todo[t] :
             /\ suspended' = [suspended EXCEPT ![u] = @ + 1]
             /\ todo' = [todo EXCEPT ![t] = @ \ {u}]
             /\ UNCHANGED at
        BY <1>2 DEF Suspend
    <2>2. u \in Threads \ {t} /\ at[t] = "suspend"
        BY <2>1 DEF TypeOK, NotItself, Suspend, At
    <2>3. Suspenders(u)' = Suspenders(u) \cup {t} /\ t \notin Suspenders(u)
        BY <2>1, <2>2 DEF Suspenders, Holds, TypeOK
    <2>4. \A v \in Threads \ {u} : Suspenders(v)' = Suspenders(v)
        BY <2>1, <2>2 DEF Suspenders, Holds, TypeOK
    <2>5. Cardinality(Suspenders(u)') = Cardinality(Suspenders(u)) + 1
        BY <2>2, <2>3, SuspendersFinite, FS_AddElement
    <2> QED
        BY <2>1, <2>2, <2>4, <2>5 DEF SuspendCountsMatch, TypeOK
<1> QED
    BY <1>1, <1>2

LEMMA ResumeMatches ==
    ASSUME IInv, NEW t \in Threads, Resume(t)
    PROVE  SuspendCountsMatch' /\ suspended' \in [Threads -> Nat]
<1> USE DEF IInv
<1>1. CASE todo[t] = {}
    <2>1. /\ at' = [at EXCEPT ![t] = IF live[t] THEN "app" ELSE "flush"] /\ at[t] = "resume"
          /\ UNCHANGED <<todo, suspended>>
        BY <1>1 DEF Resume, Go, At
    <2>2. \A u \in Threads : \A s \in Threads \ {u} : Holds(s, u)' <=> Holds(s, u)
        BY <1>1, <2>1 DEF Holds, TypeOK
    <2> QED
        BY <2>1, <2>2, SameHolds DEF TypeOK
<1>2. CASE todo[t] # {}
    <2>1. PICK u \in todo[t] :
             /\ suspended' = [suspended EXCEPT ![u] = @ - 1]
             /\ todo' = [todo EXCEPT ![t] = @ \ {u}]
             /\ UNCHANGED at
        BY <1>2 DEF Resume
    <2>2. u \in Threads \ {t} /\ at[t] = "resume"
        BY <2>1 DEF TypeOK, NotItself, Resume, At
    <2>3. Suspenders(u)' = Suspenders(u) \ {t} /\ t \in Suspenders(u)
        BY <2>1, <2>2 DEF Suspenders, Holds, TypeOK
    <2>4. \A v \in Threads \ {u} : Suspenders(v)' = Suspenders(v)
        BY <2>1, <2>2 DEF Suspenders, Holds, TypeOK
    <2>5. Cardinality(Suspenders(u)') = Cardinality(Suspenders(u)) - 1
        BY <2>2, <2>3, SuspendersFinite, FS_RemoveElement
    <2>6. Cardinality(Suspenders(u)') \in Nat
        BY <2>2, <2>3, SuspendersFinite, FS_RemoveElement, FS_CardinalityType
    <2>7. suspended' \in [Threads -> Nat]
        BY <2>1, <2>2, <2>5, <2>6 DEF SuspendCountsMatch, TypeOK
    <2> QED
        BY <2>1, <2>2, <2>4, <2>5, <2>7 DEF SuspendCountsMatch, TypeOK
<1> QED
    BY <1>1, <1>2

\* A process that has not begun: nobody is suspended, and nobody suspends.
LEMMA FreshMatches ==
    ASSUME \A t \in Threads : at[t] = "app" /\ suspended[t] = 0
    PROVE  SuspendCountsMatch
<1>1. \A u \in Threads : Suspenders(u) = {}
    BY DEF Suspenders, Holds
<1> QED
    BY <1>1, FS_EmptySet DEF SuspendCountsMatch

LEMMA DyingMatches ==
    ASSUME Dies
    PROVE  SuspendCountsMatch' /\ OffIsFresh' /\ NotItself' /\ SomeoneRuns'
<1>1. (\A t \in Threads : at[t] = "app" /\ suspended[t] = 0)'
    BY DEF Dies, Fresh
<1>2. SuspendCountsMatch'
    BY <1>1, FreshMatches, PTL
<1> QED
    BY <1>2 DEF Dies, Fresh, OffIsFresh, NotItself, SomeoneRuns

\* What the steps of a thread have in common: it runs, and goes on running
\* unless the process ends.
LEMMA StepsRun ==
    ASSUME IInv, NEW t \in Threads, EnableStep(t) \/ AppStep(t) \/ HandlerStep(t), ~Dies
    PROVE  /\ Runs(t) /\ process' = process
           /\ suspended'[t] = suspended[t]
           /\ NotItself'
<1> USE DEF IInv, TypeOK, NotItself, At, Runs
<1>1. CASE Suspend(t)
    <2>1. CASE todo[t] = {}
        BY <1>1, <2>1 DEF Suspend
    <2>2. CASE todo[t] # {}
        <3>1. PICK u \in todo[t] :
                 suspended' = [suspended EXCEPT ![u] = @ + 1] /\ todo' = [todo EXCEPT ![t] = @ \ {u}]
            BY <1>1, <2>2 DEF Suspend
        <3> QED
            BY <1>1, <3>1 DEF Suspend
    <2> QED
        BY <2>1, <2>2
<1>2. CASE Resume(t)
    <2>1. CASE todo[t] = {}
        BY <1>2, <2>1 DEF Resume
    <2>2. CASE todo[t] # {}
        <3>1. PICK u \in todo[t] :
                 suspended' = [suspended EXCEPT ![u] = @ - 1] /\ todo' = [todo EXCEPT ![t] = @ \ {u}]
            BY <1>2, <2>2 DEF Resume
        <3> QED
            BY <1>2, <3>1 DEF Resume
    <2> QED
        BY <2>1, <2>2
<1>3. CASE ListThreads(t)
    <2>1. /\ todo' = [todo EXCEPT ![t] = Threads \ {t}]
          /\ UNCHANGED <<process, suspended>> /\ At(t, "list")
        BY <1>3 DEF ListThreads
    <2> QED
        BY <2>1
<1>4. CASE WriteDone(t)
    BY <1>4 DEF WriteDone
<1>5. CASE LiveReport(t)
    BY <1>5 DEF LiveReport
<1>6. CASE EnableStep(t)
    BY <1>6 DEF EnableStep, EnableClaims, EnableFails, Prepare, FillWriter, Register, Hook
<1>7. CASE EnableTests(t) \/ Malloc(t) \/ MallocReturns(t) \/ Throw(t) \/ NoteException(t) \/ Unhandled(t) \/ Crash(t) \/ Purge(t)
    BY <1>7 DEF EnableTests, Malloc, MallocReturns, Throw, NoteException, Unhandled, Crash, Purge
<1>8. CASE ResetHandlers(t) \/ OpenReport(t) \/ OpenFails(t) \/ WriteFaults(t) \/ WritePiece(t) \/ FlushReport(t) \/ CloseReport(t) \/ Exit(t)
    BY <1>8 DEF ResetHandlers, OpenReport, OpenFails, WriteFaults, WritePiece, FlushReport, CloseReport, Exit
<1> QED
    BY <1>1, <1>2, <1>3, <1>4, <1>5, <1>6, <1>7, <1>8 DEF AppStep, HandlerStep, WriterStep

LEMMA StepsMatch ==
    ASSUME IInv, NEW t \in Threads, EnableStep(t) \/ AppStep(t) \/ HandlerStep(t)
    PROVE  SuspendCountsMatch' /\ suspended' \in [Threads -> Nat]
<1> USE DEF IInv, At, Go
<1>1. CASE Dies
    BY <1>1, DyingMatches DEF Dies, Fresh
<1>2. CASE Suspend(t)
    BY <1>2, SuspendMatches
<1>3. CASE Resume(t)
    BY <1>3, ResumeMatches
<1>4. CASE ListThreads(t) /\ ~Dies
    BY <1>4, BeginSuspending DEF ListThreads, TypeOK
<1>5. CASE LiveReport(t)
    BY <1>5, BeginSuspending DEF LiveReport, TypeOK
<1>6. CASE WriteDone(t)
    <2>1. \A u \in Threads : \A s \in Threads \ {u} : Holds(s, u)' <=> Holds(s, u)
        BY <1>6 DEF WriteDone, Holds, TypeOK
    <2> QED
        BY <1>6, <2>1, SameHolds DEF WriteDone, TypeOK
<1>7. CASE WritePiece(t)
    <2>1. \A u \in Threads : \A s \in Threads \ {u} : Holds(s, u)' <=> Holds(s, u)
        BY <1>7 DEF WritePiece, Holds
    <2> QED
        BY <1>7, <2>1, SameHolds DEF WritePiece, TypeOK
<1>8. CASE Purge(t)
    <2>1. \A u \in Threads : \A s \in Threads \ {u} : Holds(s, u)' <=> Holds(s, u)
        BY <1>8 DEF Purge, Holds
    <2> QED
        BY <1>8, <2>1, SameHolds DEF Purge, TypeOK
<1>9. CASE EnableStep(t)
    <2>1. /\ UNCHANGED <<suspended, todo>> /\ at[t] \notin {"suspend", "write", "resume"}
          /\ \E place \in {"app", "prepare", "fill", "register", "hook"} : at' = [at EXCEPT ![t] = place]
        BY <1>9 DEF EnableStep, EnableClaims, EnableFails, Prepare, FillWriter, Register, Hook
    <2> QED
        BY <2>1, QuietStep DEF Places, TypeOK
<1>10. CASE EnableTests(t) \/ Malloc(t) \/ MallocReturns(t) \/ Throw(t) \/ NoteException(t) \/ Crash(t)
    <2>1. /\ UNCHANGED <<suspended, todo>> /\ at[t] \notin {"suspend", "write", "resume"}
          /\ \E place \in {"claim", "malloc", "stuck", "app", "note", "fault", "log"} : at' = [at EXCEPT ![t] = place]
        BY <1>10 DEF EnableTests, Malloc, MallocReturns, Throw, NoteException, Crash
    <2> QED
        BY <2>1, QuietStep DEF Places, TypeOK
<1>11. CASE ResetHandlers(t) \/ OpenReport(t) \/ OpenFails(t) \/ FlushReport(t) \/ CloseReport(t)
    <2>1. /\ UNCHANGED <<suspended, todo>> /\ at[t] \notin {"suspend", "write", "resume"}
          /\ \E place \in {"open", "list", "exit", "close"} : at' = [at EXCEPT ![t] = place]
        BY <1>11 DEF ResetHandlers, OpenReport, OpenFails, FlushReport, CloseReport, Returns
    <2> QED
        BY <2>1, QuietStep DEF Places, TypeOK
<1> QED
    BY <1>1, <1>2, <1>3, <1>4, <1>5, <1>6, <1>7, <1>8, <1>9, <1>10, <1>11
       DEF AppStep, HandlerStep, WriterStep, Unhandled, WriteFaults, Exit

----------------------------------------------------------------------------
(* The theorems.                                                           *)

LEMMA InvInit ==
    ASSUME Init
    PROVE  IInv /\ FileInv
<1>1. TypeOK
    <2>1. <<>> \in Seq(Byte) /\ <<>> \in Seq(Nat)
        BY EmptySeq
    <2>2. /\ buffer \in Seq(Byte) /\ disk \in Seq(Byte) /\ accepted \in Seq(Byte) /\ size \in Seq(Nat)
          /\ totalBytes \in Nat /\ dropped \in BOOLEAN /\ failed \in BOOLEAN
        BY <2>1 DEF Init, FileInit
    <2>3. /\ at \in [Threads -> Places] /\ live \in [Threads -> BOOLEAN]
          /\ todo \in [Threads -> SUBSET Threads] /\ suspended \in [Threads -> Nat]
          /\ enabled \in [Threads -> BOOLEAN]
        BY DEF Init, Places
    <2>4. launches \in Nat /\ gen \in Nat /\ next \in Nat \ {0}
        BY DEF Init
    <2>5. /\ process \in {"off", "running"} /\ handlers \in {"none", "set", "reset"}
          /\ writer \in {"none", "zeroed", "ready"} /\ exception \in {"none", "flagged", "set"}
          /\ status \in {"none", "success", "error"}
        BY DEF Init
    <2>6. enforceOne \in BOOLEAN /\ uncaught \in BOOLEAN /\ exists \in BOOLEAN
        BY DEF Init
    <2> QED
        BY <2>2, <2>3, <2>4, <2>5, <2>6 DEF TypeOK
<1>2. SuspendCountsMatch
    BY FreshMatches DEF Init
<1>3. OffIsFresh /\ NotItself /\ SomeoneRuns
    BY DEF Init, OffIsFresh, NotItself, SomeoneRuns
<1>4. FileInv
    BY FileAssumption, EmptySeq, ConcatEmptySeq DEF Init, FileInit, FileInv, Conservation
<1> QED
    BY <1>1, <1>2, <1>3, <1>4 DEF IInv

LEMMA InvPreserved ==
    ASSUME IInv, [Next]_vars
    PROVE  IInv'
<1>1. FileTypes /\ FileTypes'
    BY StepsOfTheFile, FileTypesPreserved DEF IInv, TypeOK, FileTypes
<1>2. ASSUME NEW t \in Threads, EnableStep(t) \/ AppStep(t) \/ HandlerStep(t)
      PROVE  IInv'
    <2>1. SuspendCountsMatch' /\ suspended' \in [Threads -> Nat]
        BY <1>2, StepsMatch
    <2>2. TypeOK'
        BY <1>1, <1>2, <2>1, StepTypes DEF IInv
    <2>3. OffIsFresh' /\ NotItself' /\ SomeoneRuns'
        <3>1. CASE Dies
            BY <3>1, DyingMatches
        <3>2. CASE ~Dies
            BY <1>2, <3>2, StepsRun DEF OffIsFresh, SomeoneRuns, Runs, IInv
        <3> QED
            BY <3>1, <3>2
    <2> QED
        BY <2>1, <2>2, <2>3 DEF IInv
<1>3. CASE Launch
    <2>1. TypeOK' /\ NotItself' /\ OffIsFresh'
        BY <1>1, <1>3 DEF Launch, IInv, TypeOK, NotItself, OffIsFresh, enabling, report, fileVars
    <2>2. SomeoneRuns'
        BY <1>3, ReporterAssumption DEF Launch, IInv, OffIsFresh, SomeoneRuns
    <2>3. \A u \in Threads : \A s \in Threads \ {u} : Holds(s, u)' <=> Holds(s, u)
        BY <1>3 DEF Launch, Holds
    <2>4. SuspendCountsMatch'
        BY <1>3, <2>3, SameHolds DEF Launch, IInv
    <2> QED
        BY <2>1, <2>2, <2>4 DEF IInv
<1>4. CASE Kill
    BY <1>4, FreshTypes, DyingMatches DEF Kill, IInv
<1>5. CASE UNCHANGED vars
    <2>1. TypeOK' /\ NotItself' /\ OffIsFresh' /\ SomeoneRuns'
        BY <1>5 DEF vars, IInv, TypeOK, NotItself, OffIsFresh, SomeoneRuns, enabling, report, fileVars
    <2>2. \A u \in Threads : \A s \in Threads \ {u} : Holds(s, u)' <=> Holds(s, u)
        BY <1>5 DEF vars, Holds
    <2>3. SuspendCountsMatch'
        BY <1>5, <2>2, SameHolds DEF vars, IInv
    <2> QED
        BY <2>1, <2>3 DEF IInv
<1> QED
    BY <1>2, <1>3, <1>4, <1>5 DEF Next

\* The invariant of the suspensions holds in every reachable state.
THEOREM Inductive == Spec => []IInv
BY InvInit, InvPreserved, PTL DEF Spec

\* The reporter's variables keep their types: no suspend count becomes negative.
THEOREM TypeCorrect == Spec => []TypeOK
<1>1. IInv => TypeOK
    BY DEF IInv
<1> QED
    BY <1>1, Inductive, PTL

\* plcrash_log_writer_write: each thread's suspend count is the number of writers
\* that hold it, for any number of reports that overlap.
THEOREM CountsAreExact == Spec => []SuspendCountsMatch
<1>1. IInv => SuspendCountsMatch
    BY DEF IInv
<1> QED
    BY <1>1, Inductive, PTL

\* Writers never suspend each other in a circle: somebody always runs.
THEOREM NoSuspensionDeadlock == Spec => []SomeoneRuns
<1>1. IInv => SomeoneRuns
    BY DEF IInv
<1> QED
    BY <1>1, Inductive, PTL

\* A thread that writes is the only one that runs.
THEOREM Exclusive == Spec => []WritingIsExclusive
<1>1. ASSUME IInv
      PROVE  WritingIsExclusive
    <2>1. ASSUME NEW t \in Threads, at[t] = "write", NEW u \in Threads \ {t}
          PROVE  suspended[u] # 0
        <3>1. t \in Suspenders(u)
            BY <2>1 DEF Suspenders, Holds
        <3>2. Cardinality(Suspenders(u)) # 0
            BY <3>1, SuspendersFinite, FS_EmptySet
        <3> QED
            BY <1>1, <3>2 DEF IInv, SuspendCountsMatch
    <2> QED
        BY <2>1 DEF WritingIsExclusive, At, Runs
<1> QED
    BY <1>1, Inductive, PTL

LEMMA FileInductive == Spec => [](IInv /\ FileInv)
<1>1. Init => IInv /\ FileInv
    BY InvInit
<1>2. IInv /\ FileInv /\ [Next]_vars => (IInv /\ FileInv)'
    <2>1. ASSUME IInv, FileInv, [Next]_vars
          PROVE  FileInv'
        BY <2>1, StepsOfTheFile, FileInvPreserved DEF IInv, TypeOK, FileTypes
    <2> QED
        BY <2>1, InvPreserved
<1> QED
    BY <1>1, <1>2, PTL DEF Spec

\* plcrash_async_file_write and plcrash_async_file_flush: until the disk fails the
\* file holds what was accepted, whatever the sizes of pieces and buffer.
THEOREM NothingIsLost == Spec => []Conservation
<1>1. FileInv => Conservation
    BY DEF FileInv
<1> QED
    BY <1>1, FileInductive, PTL

\* Until the disk fails the report is within its limit.
THEOREM LimitIsKept == Spec => []WithinLimit
<1>1. IInv /\ FileInv => WithinLimit
    BY FileInvLimits DEF IInv, TypeOK, FileTypes
<1> QED
    BY <1>1, FileInductive, PTL

\* Limit and buffer cut nothing in half, for every buffer size, limit and piece.
THEOREM FileSound == Spec => []FileIsSound
BY NothingIsLost, LimitIsKept, PTL DEF FileIsSound

\* Suspensions are counted, exclusive and never stop the process, for any threads.
THEOREM SuspensionSound == Spec => []SuspensionIsSound
BY TypeCorrect, CountsAreExact, NoSuspensionDeadlock, Exclusive, PTL
   DEF SuspensionIsSound

LEMMA ReportInvInductive == Spec => [](TypeOK /\ ReportInv)
<1>1. Init => TypeOK /\ ReportInv
    <2>1. ASSUME Init
          PROVE  ReportInv
        <3>1. buffer = <<>> /\ disk = <<>> /\ size = <<>> /\ next = 1
            BY <2>1 DEF Init, FileInit
        <3> QED
            BY <3>1, EmptySeq, EmptyHasNothing DEF ReportInv, OwnBytes, LastIsNew
    <2> QED
        BY <2>1, InvInit DEF IInv
<1>2. TypeOK /\ TypeOK' /\ ReportInv /\ [Next]_vars => ReportInv'
    BY StepsOfTheReport, ReportInvPreserved DEF TypeOK, FileTypes
<1> QED
    BY <1>1, <1>2, TypeCorrect, PTL DEF Spec

\* A report has a byte: what is empty is not whole.
LEMMA EmptyIsNotWhole ==
    ASSUME NEW n \in Nat, NEW s \in Sizes
    PROVE  Pieces(n, s)[Len(s)] # <<>>
<1>1. PICK i \in 1..Len(s) : s[i] > 0
    BY ReporterAssumption
<1>2. s \in Seq(Nat) /\ s[i] \in Nat
    BY ReporterAssumption, ElementOfSeq
<1>3. Has(Pieces(n, s)[Len(s)], <<n, i, 1>>)
    BY <1>1, <1>2, PiecesHoldTheirBytes
<1> QED
    BY <1>3, EmptyHasNothing

LEMMA BoxStep ==
    ASSUME TypeOK, TypeOK', ReportInv, ReportStep
    PROVE  [B!Next]_<<gen, Box>>
<1>1. CASE FileReset /\ gen' = gen + 1 /\ size' \in Sizes /\ exists'
    <2>1. disk' # Whole'
        BY <1>1, EmptyIsNotWhole DEF FileReset, Whole, TypeOK
    <2>2. Box' = "torn"
        BY <1>1, <2>1 DEF Box
    <2> QED
        BY <1>1, <2>2 DEF B!Next, B!Begin
<1>2. CASE ~exists' /\ UNCHANGED gen
    BY <1>2 DEF Box, B!Next, B!Take
<1>3. CASE UNCHANGED <<exists, gen, size>>
    <2>1. Whole' = Whole
        BY <1>3 DEF Whole
    <2>2. disk = Whole => disk' = Whole'
        BY <1>3, <2>1, WholeIsFinal
    <2> QED
        BY <1>3, <2>1, <2>2 DEF Box, B!Next, B!Finish, B!Take
<1> QED
    BY <1>1, <1>2, <1>3 DEF ReportStep, report

\* The pending report is a box of one report: it becomes whole once and nothing
\* but the next report or a purge touches it then, whatever fails, is killed or is
\* launched again.
THEOREM PendingReportIsABox == Spec => ImplementsReportBox
<1>1. Init => B!Init
    BY DEF Init, Box, B!Init
<1>2. TypeOK /\ TypeOK' /\ ReportInv /\ [Next]_vars => [B!Next]_<<gen, Box>>
    BY StepsOfTheReport, BoxStep
<1> QED
    BY <1>1, <1>2, ReportInvInductive, PTL DEF Spec, ImplementsReportBox, B!Spec

----------------------------------------------------------------------------
(* What a success says.                                                    *)

LivePlaces == {"suspend", "write", "resume"}
Making(t) == ~live[t] /\ at[t] \in {"list", "suspend", "write", "resume", "flush"}

\* One thread handles a crash; live reports are at the three places they share
\* with it.
OneHandler ==
    /\ \A t, u \in Threads : Handling(t) /\ Handling(u) => t = u
    /\ \A t \in Threads : live[t] => at[t] \in LivePlaces

\* Whoever makes the report has had the pieces before the next one accepted, unless
\* one was refused, and goes on from writing when it has them all.
Progress ==
    \A t \in Threads : Making(t) =>
        /\ ~dropped /\ ~failed => accepted = Pieces(gen, size)[next - 1]
        /\ at[t] \in {"resume", "flush"} => next = Len(size) + 1

\* A success is on its way to raise the signal again.
SuccessLeaves == status = "success" => \E t \in Threads : at[t] = "exit"

HandlerInv == OneHandler /\ Progress /\ SuccessLeaves /\ UndisturbedSuccessIsWhole

\* What the steps of a thread that do not end the process have in common.
ThreadStep(t) ==
    /\ \A u \in Threads \ {t} : at'[u] = at[u] /\ live'[u] = live[u]
    /\ at[t] # "exit"
    /\ live'[t] => at'[t] \in LivePlaces
    /\ Handling(t)' => Handling(t) \/ \A u \in Threads : ~Handling(u)
    /\ Making(t)' => Making(t) \/ OpenReport(t)
    /\ ~Handling(t) => UNCHANGED <<gen, size, next, status, fileVars>>

LEMMA StepsOfThreads ==
    ASSUME TypeOK, OneHandler, NEW t \in Threads, EnableStep(t) \/ AppStep(t) \/ HandlerStep(t), ~Dies
    PROVE  ThreadStep(t)
<1> USE DEF TypeOK, ThreadStep, Handling, HandlerPlaces, Making, LivePlaces, At, Go, report, OneHandler
<1>1. CASE EnableStep(t)
    BY <1>1 DEF EnableStep, EnableClaims, EnableFails, Prepare, FillWriter, Register, Hook
<1>2. CASE EnableTests(t) \/ Malloc(t) \/ MallocReturns(t) \/ Throw(t) \/ NoteException(t) \/ Purge(t)
    BY <1>2 DEF EnableTests, Malloc, MallocReturns, Throw, NoteException, Purge
<1>3. CASE Crash(t)
    BY <1>3 DEF Crash
<1>4. CASE LiveReport(t)
    BY <1>4 DEF LiveReport
<1>5. CASE ResetHandlers(t) \/ OpenFails(t)
    BY <1>5 DEF ResetHandlers, OpenFails, Returns
<1>6. CASE OpenReport(t)
    BY <1>6 DEF OpenReport
<1>7. CASE ListThreads(t)
    <2>1. at' = [at EXCEPT ![t] = "suspend"] /\ at[t] = "list" /\ UNCHANGED <<live, status, report, fileVars>>
        BY <1>7 DEF ListThreads
    <2> QED
        BY <2>1
<1>8. CASE Suspend(t)
    <2>1. (at' = [at EXCEPT ![t] = "write"] \/ at' = at) /\ at[t] = "suspend"
          /\ UNCHANGED <<live, status, report, fileVars>>
        BY <1>8 DEF Suspend
    <2> QED
        BY <2>1
<1>9. CASE WritePiece(t)
    BY <1>9 DEF WritePiece
<1>10. CASE WriteDone(t)
    BY <1>10 DEF WriteDone
<1>11. CASE Resume(t)
    <2>1. /\ at[t] = "resume" /\ UNCHANGED <<status, report, fileVars>>
          /\ \/ /\ at' = [at EXCEPT ![t] = IF live[t] THEN "app" ELSE "flush"]
                /\ live' = [live EXCEPT ![t] = FALSE]
             \/ UNCHANGED <<at, live>>
        BY <1>11 DEF Resume
    <2> QED
        BY <2>1
<1>12. CASE FlushReport(t) \/ CloseReport(t)
    BY <1>12 DEF FlushReport, CloseReport, Returns
<1> QED
    BY <1>1, <1>2, <1>3, <1>4, <1>5, <1>6, <1>7, <1>8, <1>9, <1>10, <1>11, <1>12
       DEF AppStep, HandlerStep, WriterStep, Unhandled, WriteFaults, Exit

LEMMA OneHandlerPreserved ==
    ASSUME OneHandler, NEW t \in Threads, ThreadStep(t)
    PROVE  OneHandler'
<1>1. \A u \in Threads \ {t} : Handling(u)' <=> Handling(u)
    BY DEF ThreadStep, Handling
<1> QED
    BY <1>1 DEF OneHandler, ThreadStep

\* What the maker of the report does to it.
LEMMA MakerGoesOn ==
    ASSUME TypeOK, ReportInv, Progress, NEW t \in Threads, HandlerStep(t), ~Dies,
           Making(t), Making(t)'
    PROVE  /\ ~dropped' /\ ~failed' => accepted' = Pieces(gen, size)'[next' - 1]
           /\ at'[t] \in {"resume", "flush"} => next' = Len(size') + 1
<1> USE DEF Making, At, Go, TypeOK
<1>1. /\ ~dropped /\ ~failed => accepted = Pieces(gen, size)[next - 1]
      /\ at[t] \in {"resume", "flush"} => next = Len(size) + 1
    BY DEF Progress
<1>2. Len(size) \in Nat
    BY LenProperties
<1>3. CASE ListThreads(t) \/ Suspend(t)
    <2>1. at[t] \in {"list", "suspend"} /\ at'[t] \in {"suspend", "write"} /\ UNCHANGED <<report, fileVars>>
        <3>1. CASE ListThreads(t)
            BY <3>1 DEF ListThreads
        <3>2. CASE Suspend(t)
            <4>1. at[t] = "suspend" /\ (at' = [at EXCEPT ![t] = "write"] \/ at' = at) /\ UNCHANGED <<report, fileVars>>
                BY <3>2 DEF Suspend
            <4> QED
                BY <4>1
        <3> QED
            BY <1>3, <3>1, <3>2
    <2> QED
        BY <1>1, <2>1 DEF report, fileVars
<1>4. CASE WritePiece(t)
    <2> DEFINE f == Pieces(gen, size)
               data == Piece(gen, size, next)
    <2>1. /\ next \in 1..Len(size) /\ next' - 1 = next /\ f' = f /\ at'[t] = "write"
          /\ FileWrite(data)
        BY <1>2, <1>4 DEF WritePiece
    <2>2. f[next] = f[next - 1] \o data
        BY <2>1, PiecesSolve DEF Solves
    <2> HIDE DEF data, f
    <2>3. ~dropped' /\ ~failed' => accepted' = accepted \o data /\ ~dropped /\ ~failed
        BY <2>1 DEF FileWrite, WriteDropped, WriteBuffered, WriteSpilled, WriteFailed, WriteNFails
    <2> QED
        BY <1>1, <2>1, <2>2, <2>3 DEF f
<1>5. CASE WriteDone(t)
    BY <1>1, <1>2, <1>5 DEF WriteDone, ReportInv, report, fileVars
<1>6. CASE Resume(t)
    BY <1>1, <1>6 DEF Resume, report, fileVars
<1>7. CASE FlushReport(t)
    BY <1>1, <1>7 DEF FlushReport, FlushFails, WriteNFails, Returns, report
<1> QED
    BY <1>3, <1>4, <1>5, <1>6, <1>7
       DEF HandlerStep, WriterStep, ResetHandlers, OpenReport, OpenFails, WriteFaults, CloseReport, Exit

LEMMA ProgressPreserved ==
    ASSUME TypeOK, TypeOK', OneHandler, ReportInv, Progress, NEW t \in Threads,
           EnableStep(t) \/ AppStep(t) \/ HandlerStep(t), ThreadStep(t), ~Dies
    PROVE  Progress'
<1> SUFFICES ASSUME NEW u \in Threads, Making(u)'
             PROVE  /\ ~dropped' /\ ~failed' => accepted' = Pieces(gen, size)'[next' - 1]
                    /\ at'[u] \in {"resume", "flush"} => next' = Len(size') + 1
    BY DEF Progress
<1>1. CASE u # t
    <2>1. Making(u) /\ at'[u] = at[u]
        BY <1>1 DEF ThreadStep, Making
    <2>2. ~Handling(t)
        BY <1>1, <2>1 DEF OneHandler, Making, Handling, HandlerPlaces
    <2>3. UNCHANGED <<gen, size, next, accepted, dropped, failed>>
        BY <2>2 DEF ThreadStep, fileVars
    <2> QED
        BY <2>1, <2>3 DEF Progress
<1>2. CASE u = t /\ OpenReport(t)
    <2>1. next' - 1 = 0 /\ accepted' = <<>> /\ at'[t] = "list"
        BY <1>2 DEF OpenReport, FileReset, Go, TypeOK
    <2>2. Pieces(gen, size)'[0] = <<>>
        BY PiecesSolve DEF Solves, TypeOK
    <2> QED
        BY <1>2, <2>1, <2>2
<1>3. CASE u = t /\ Making(t) /\ HandlerStep(t)
    BY <1>3, MakerGoesOn
<1>4. CASE u = t /\ Making(t) /\ (EnableStep(t) \/ AppStep(t))
    BY <1>4 DEF Making, EnableStep, EnableClaims, EnableFails, Prepare, FillWriter, Register, Hook,
                AppStep, EnableTests, Malloc, MallocReturns, Throw, NoteException, Unhandled, Crash,
                LiveReport, Purge, At
<1> QED
    BY <1>1, <1>2, <1>3, <1>4 DEF ThreadStep

LEMMA SuccessPreserved ==
    ASSUME TypeOK, FileInv, OneHandler, ReportInv, Progress, SuccessLeaves, UndisturbedSuccessIsWhole,
           NEW t \in Threads, EnableStep(t) \/ AppStep(t) \/ HandlerStep(t), ThreadStep(t), ~Dies
    PROVE  SuccessLeaves' /\ UndisturbedSuccessIsWhole'
<1> SUFFICES ASSUME status' = "success"
             PROVE  (\E u \in Threads : at'[u] = "exit") /\ (disk' = Whole' \/ dropped' \/ failed')
    BY DEF SuccessLeaves, UndisturbedSuccessIsWhole
<1>1. CASE status = "success"
    <2>1. PICK u \in Threads : at[u] = "exit"
        BY <1>1 DEF SuccessLeaves
    <2>2. u # t /\ at'[u] = "exit" /\ Handling(u)
        BY <2>1 DEF ThreadStep, OneHandler, LivePlaces, Handling, HandlerPlaces
    <2>3. UNCHANGED <<gen, size, fileVars>>
        BY <2>2 DEF OneHandler, ThreadStep
    <2> QED
        BY <1>1, <2>2, <2>3 DEF UndisturbedSuccessIsWhole, Whole, fileVars
<1>2. CASE status # "success"
    <2>1. FlushReport(t) /\ FlushSucceeds /\ Go(t, "exit")
        BY <1>2 DEF EnableStep, EnableClaims, EnableFails, Prepare, FillWriter, Register, Hook,
                AppStep, EnableTests, Malloc, MallocReturns, Throw, NoteException, Unhandled, Crash,
                LiveReport, Purge, HandlerStep, WriterStep, ResetHandlers, OpenReport, OpenFails,
                ListThreads, Suspend, WriteFaults, WritePiece, WriteDone, Resume, FlushReport,
                CloseReport, Exit, Returns
    <2>2. Making(t) /\ at[t] = "flush"
        BY <2>1 DEF FlushReport, At, Making, OneHandler, LivePlaces
    <2>3. ~dropped /\ ~failed => disk \o buffer = Pieces(gen, size)[Len(size)]
        <3>1. next - 1 = Len(size)
            BY <2>2, LenProperties DEF Progress, TypeOK
        <3> QED
            BY <2>2, <3>1 DEF Progress, FileInv, Conservation
    <2>4. UNCHANGED <<gen, size, dropped, failed>> /\ disk' = disk \o buffer
        BY <2>1 DEF FlushReport, FlushSucceeds, WriteN, report
    <2>5. at'[t] = "exit"
        BY <2>1 DEF Go, TypeOK
    <2> QED
        BY <2>3, <2>4, <2>5 DEF Whole
<1> QED
    BY <1>1, <1>2

LEMMA HandlerInvPreserved ==
    ASSUME IInv, IInv', FileInv, ReportInv, HandlerInv, [Next]_vars
    PROVE  HandlerInv'
<1> USE DEF IInv, HandlerInv
<1>1. ASSUME NEW t \in Threads, EnableStep(t) \/ AppStep(t) \/ HandlerStep(t), ~Dies
      PROVE  HandlerInv'
    <2>1. ThreadStep(t)
        BY <1>1, StepsOfThreads
    <2>2. OneHandler'
        BY <2>1, OneHandlerPreserved
    <2>3. Progress'
        BY <1>1, <2>1, ProgressPreserved
    <2>4. SuccessLeaves' /\ UndisturbedSuccessIsWhole'
        BY <1>1, <2>1, SuccessPreserved
    <2> QED
        BY <2>2, <2>3, <2>4
<1>2. CASE Dies
    BY <1>2 DEF Dies, Fresh, OneHandler, Handling, HandlerPlaces, Progress, Making, SuccessLeaves,
                UndisturbedSuccessIsWhole
<1>3. CASE Launch \/ UNCHANGED vars
    <2>1. UNCHANGED <<at, live, status, gen, size, next, fileVars>>
        BY <1>3 DEF Launch, vars, report
    <2> QED
        BY <2>1 DEF OneHandler, Handling, Progress, Making, SuccessLeaves,
                    UndisturbedSuccessIsWhole, Whole, fileVars
<1> QED
    BY <1>1, <1>2, <1>3 DEF Next, Kill

\* plcrash_write_report: what it calls a success is whole, unless a piece was over
\* the limit or the disk failed, for any reports, buffers and limits.
THEOREM SuccessIsWhole == Spec => []UndisturbedSuccessIsWhole
<1>1. Init => HandlerInv
    BY DEF Init, HandlerInv, OneHandler, Handling, HandlerPlaces, Progress, Making, SuccessLeaves,
           UndisturbedSuccessIsWhole
<1>2. IInv /\ IInv' /\ FileInv /\ ReportInv /\ HandlerInv /\ [Next]_vars => HandlerInv'
    BY HandlerInvPreserved
<1>3. HandlerInv => UndisturbedSuccessIsWhole
    BY DEF HandlerInv
<1> QED
    BY <1>1, <1>2, <1>3, FileInductive, ReportInvInductive, PTL DEF Spec
=============================================================================
