----------------------------- MODULE AsyncFile -----------------------------
(***************************************************************************)
(* plcrash_async_file_t: the buffered output file that a crash report is   *)
(* written to, with its limit.  The disk may refuse a write after taking a *)
(* part of it.                                                             *)
(***************************************************************************)
EXTENDS Integers, Sequences

CONSTANTS BufferSize, \* sizeof(file->buffer)
          Limit,      \* output_limit, 0 for none
          DiskFails   \* may write(2) fail?

ASSUME FileAssumption ==
    BufferSize \in Nat \ {0} /\ Limit \in Nat /\ DiskFails \in BOOLEAN

VARIABLES buffer,     \* the bytes in file->buffer, up to buflen
          totalBytes, \* total_bytes
          disk,       \* what the file holds
          accepted,   \* history: the bytes of all writes that returned true
          dropped,    \* history: a write was refused for the limit
          failed      \* history: the disk refused a write

fileVars == <<buffer, totalBytes, disk, accepted, dropped, failed>>

\* An opened and truncated file, and plcrash_async_file_init.
FileInit ==
    /\ buffer = <<>> /\ totalBytes = 0 /\ disk = <<>>
    /\ accepted = <<>> /\ dropped = FALSE /\ failed = FALSE

FileReset ==
    /\ buffer' = <<>> /\ totalBytes' = 0 /\ disk' = <<>>
    /\ accepted' = <<>> /\ dropped' = FALSE /\ failed' = FALSE

\* plcrash_async_writen goes on after short and interrupted writes; an error
\* leaves a part of the data on the disk.
WriteN(data) == disk' = disk \o data
WriteNFails(data) ==
    /\ DiskFails /\ failed' = TRUE
    /\ \E k \in 0..(Len(data) - 1) : disk' = disk \o SubSeq(data, 1, k)

OverLimit(data) == Limit # 0 /\ Len(data) + totalBytes > Limit
Counted(data) == totalBytes' = totalBytes + IF Limit = 0 THEN 0 ELSE Len(data)
Overflows(data) == Len(buffer) + Len(data) > BufferSize

\* A piece that is refused is not counted either.
WriteDropped(data) ==
    /\ OverLimit(data)
    /\ dropped' = TRUE
    /\ UNCHANGED <<buffer, totalBytes, disk, accepted, failed>>

WriteBuffered(data) ==
    /\ ~OverLimit(data) /\ Counted(data)
    /\ ~Overflows(data)
    /\ buffer' = buffer \o data
    /\ accepted' = accepted \o data
    /\ UNCHANGED <<disk, dropped, failed>>

\* Mutant: the buffer is not emptied after it was written.
WriteSpilled_KeepsBuffer(data) ==
    /\ ~OverLimit(data) /\ Counted(data)
    /\ Overflows(data)
    /\ IF Len(data) <= BufferSize
       THEN WriteN(buffer) /\ buffer' = buffer \o data
       ELSE WriteN(buffer \o data) /\ UNCHANGED buffer
    /\ accepted' = accepted \o data
    /\ UNCHANGED <<dropped, failed>>

\* The buffer is written first, then the data is buffered or written itself.
WriteSpilled(data) ==
    /\ ~OverLimit(data) /\ Counted(data)
    /\ Overflows(data)
    /\ IF Len(data) <= BufferSize
       THEN WriteN(buffer) /\ buffer' = data
       ELSE WriteN(buffer \o data) /\ buffer' = <<>>
    /\ accepted' = accepted \o data
    /\ UNCHANGED <<dropped, failed>>

\* A failed flush keeps the buffer, all of which the next one writes again.
WriteFailed(data) ==
    /\ ~OverLimit(data) /\ Counted(data)
    /\ Overflows(data)
    /\ \/ WriteNFails(buffer) /\ UNCHANGED buffer
       \/ /\ Len(data) > BufferSize
          /\ DiskFails /\ failed' = TRUE
          /\ \E k \in 0..(Len(data) - 1) : disk' = disk \o buffer \o SubSeq(data, 1, k)
          /\ buffer' = <<>>
    /\ UNCHANGED <<accepted, dropped>>

\* plcrash_async_file_write; what it returns is ignored by plcrash_writer_pack.
FileWrite(data) ==
    WriteDropped(data) \/ WriteBuffered(data) \/ WriteSpilled(data) \/ WriteFailed(data)

\* plcrash_async_file_flush
FlushSucceeds ==
    /\ WriteN(buffer) /\ buffer' = <<>>
    /\ UNCHANGED <<totalBytes, accepted, dropped, failed>>

FlushFails ==
    /\ WriteNFails(buffer)
    /\ UNCHANGED <<buffer, totalBytes, accepted, dropped>>

----------------------------------------------------------------------------
\* While the disk works, nothing that was accepted is lost, doubled or out of
\* order, wherever the pieces end relative to the buffer.
Conservation == ~failed => disk \o buffer = accepted

\* While the disk works, the file stays within its limit.
WithinLimit == Limit # 0 /\ ~failed => Len(disk) + Len(buffer) <= Limit

\* The limit and the buffer's end cut nothing in half.
FileIsSound == Conservation /\ WithinLimit
=============================================================================
