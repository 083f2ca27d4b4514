--------------------------- MODULE MCCrashReporter --------------------------
(* Instances of CrashReporter for TLC.                                     *)
EXTENDS CrashReporter

CONSTANTS t1, t2

TwoThreads == {t1, t2}
FirstThread == {t1}

\* Pieces that fill the buffer, overflow it, and are larger than it; the second
\* report is larger than the limit, with a small piece after the dropped one.
ShortAndLong == {<<2, 1>>, <<1, 2, 3, 2, 1>>}
=============================================================================
