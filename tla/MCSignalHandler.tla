-------------------------- MODULE MCSignalHandler --------------------------
(* Instances of SignalHandler for TLC.                                     *)
EXTENDS SignalHandler, TLC

CONSTANTS t1, t2, s1, s2

TwoThreads == {t1, t2}
TwoSignals == {s1, s2}

\* The reporter is enabled on one thread, another registers a callback of its
\* own; either may be hit by a signal meanwhile.
ReporterAndForwarder ==
    t1 :> << <<s1, "reporter">>, <<s2, "reporter">> >> @@ t2 :> << <<s1, "forwarder">> >>
EitherThread == t1 :> {s1} @@ t2 :> {s2, s1}
HandlerBefore == s1 :> "handler" @@ s2 :> "dfl"

=============================================================================
