-------------------------- MODULE MCCloudLRUCache --------------------------
(* Instances of CloudLRUCache for TLC.                                     *)
EXTENDS CloudLRUCache, TLC

CONSTANTS t1, t2, k1, k2, k3

TwoThreads == {t1, t2}
ThreeKeys == {k1, k2, k3}

One == {1}
OneTwo == {1, 2}
BackAndForth == {1, -2}

\* Threads run the same code; keys differ only by name.
Symmetry == Permutations(TwoThreads) \cup Permutations(ThreeKeys)
=============================================================================
