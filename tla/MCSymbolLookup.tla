--------------------------- MODULE MCSymbolLookup ---------------------------
(* Instances of SymbolLookup for TLC.                                      *)
EXTENDS SymbolLookup, TLC

CONSTANTS app, lib, old

Symbol(v) == [value |-> v, thumb |-> FALSE, section |-> TRUE, stab |-> FALSE]

\* An app with two classes, the second one with a category, a library that has
\* categories on its own class and on one of the app's, and one that was linked
\* without a category list.
ThreeImages ==
    app :> [low |-> 1, high |-> 9, sections |-> Sections,
            global |-> <<Symbol(2), [Symbol(6) EXCEPT !.thumb = TRUE]>>,
            local |-> <<[Symbol(4) EXCEPT !.stab = TRUE], Symbol(1)>>,
            classes |-> << [class |-> 4, meta |-> 8], [class |-> 12, meta |-> 16] >>,
            categories |-> << [class |-> 12, methods |-> {8}] >>] @@
    lib :> [low |-> 9, high |-> 15, sections |-> Sections,
            global |-> <<Symbol(10)>>, local |-> <<>>,
            classes |-> << [class |-> 20, meta |-> 24] >>,
            categories |-> << [class |-> 20, methods |-> {13}], [class |-> 4, methods |-> {14}] >>] @@
    old :> [low |-> 15, high |-> 18, sections |-> Sections \ {"categories"},
            global |-> <<>>, local |-> <<>>, classes |-> << [class |-> 28, meta |-> 32] >>, categories |-> <<>>]

RoOfClass == 4 :> 41 @@ 8 :> 42 @@ 12 :> 43 @@ 16 :> 44 @@ 20 :> 45 @@ 24 :> 46 @@ 28 :> 47 @@ 32 :> 48
MethodsOfRo ==
    41 :> {3} @@ 42 :> {4} @@ 43 :> {5, 7} @@ 44 :> {} @@ 45 :> {11} @@ 46 :> {12} @@ 47 :> {15} @@ 48 :> {}

\* Stacks of at most three frames, also beyond all images.
Stacks == UNION {[1..n -> {3, 5, 8, 11, 14, 16, 20}] : n \in 1..2} \cup {<<8, 14, 5>>, <<14, 16, 8>>}
=============================================================================
