---------------------------- MODULE MCAsyncList ----------------------------
(* Instances of AsyncList for TLC.                                         *)
EXTENDS AsyncList, TLC

CONSTANTS r1, w1, w2, n1, n2, v1, v2

OneReader == {r1}
TwoWriters == {w1, w2}
TwoNodes == {n1, n2}
TwoValues == {v1, v2}

AllOps == {"prepend", "append", "remove_first", "remove_node", "reset"}

\* malloc may return any unused address, so the addresses are symmetric.
NodeSymmetry == Permutations(TwoNodes)
=============================================================================
