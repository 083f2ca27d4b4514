-------------------------- MODULE MCAsyncAllocator --------------------------
(* Instances of AsyncAllocator for TLC.                                    *)
EXTENDS AsyncAllocator, TLC

CONSTANTS t1, t2

TwoThreads == {t1, t2}

ThreadSymmetry == Permutations(TwoThreads)
=============================================================================
