--------------------------- MODULE MCCloudRWLock ---------------------------
(* An instance of CloudRWLock for TLC.                                     *)
EXTENDS CloudRWLock

CONSTANTS t1, t2, t3

MCThreads == {t1, t2, t3}
=============================================================================
