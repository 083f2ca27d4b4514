----------------------------- MODULE ReportBox -----------------------------
(***************************************************************************)
(* What the crash reporter promises about the pending report: a box that   *)
(* holds at most one report.  A new report empties the box and is torn     *)
(* until all of it is there; it does not get better or worse after that,   *)
(* and only whoever takes it, or the next report, removes it.              *)
(***************************************************************************)
EXTENDS Naturals

VARIABLES number,  \* how many reports were begun
          box      \* what the box holds of the last one: "empty", "torn", "whole"

Init == number = 0 /\ box = "empty"

Begin == number' = number + 1 /\ box' = "torn"
Finish == box = "torn" /\ box' = "whole" /\ UNCHANGED number
Take == box # "empty" /\ box' = "empty" /\ UNCHANGED number

Next == Begin \/ Finish \/ Take

Spec == Init /\ [][Next]_<<number, box>>
=============================================================================
