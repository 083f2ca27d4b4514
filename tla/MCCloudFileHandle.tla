-------------------------- MODULE MCCloudFileHandle --------------------------
(***************************************************************************)
(* One thread with a handle of its own, or two that share one; an empty    *)
(* file, one of one block and one that ends inside its second block;       *)
(* two calls of each thread.                                               *)
(***************************************************************************)
EXTENDS CloudFileHandle, TLC

CONSTANTS t1, t2

MCThreads == {t1, t2}
MCUserSets == {{t1}, {t1, t2}}
MCBlockSize == 2
MCSizes == {0, 2, 3}
MCMaxOps == 2
=============================================================================
