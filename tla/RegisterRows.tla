---------------------------- MODULE RegisterRows ----------------------------
(***************************************************************************)
(* What the rows of call frame rules promise to the program of opcodes     *)
(* that fills them: a stack of rows, each with the rule of the frame       *)
(* address and at most one rule for a register.                            *)
(***************************************************************************)
EXTENDS Naturals, Sequences, SequencesExt, Functions

CONSTANTS Registers, Rules, Addresses, MaxRows

VARIABLE rows

Row == [rules : UNION {[S -> Rules] : S \in SUBSET Registers}, address : Addresses]

Top == Last(rows)
PutTop(row) == rows' = Append(Front(rows), row)

EmptyRow == [rules |-> <<>>, address |-> "undefined"]

Init == rows = <<EmptyRow>>

SetRule(r, rule) ==
    PutTop([Top EXCEPT !.rules = [s \in DOMAIN @ \cup {r} |-> IF s = r THEN rule ELSE @[s]]])

Forget(r) == PutTop([Top EXCEPT !.rules = Restrict(@, DOMAIN @ \ {r})])

SetAddress(a) == PutTop([Top EXCEPT !.address = a])

Remember == Len(rows) < MaxRows /\ rows' = Append(rows, EmptyRow)

Restore == Len(rows) > 1 /\ rows' = Front(rows)

Next ==
    \/ \E r \in Registers, rule \in Rules : SetRule(r, rule)
    \/ \E r \in Registers : Forget(r)
    \/ \E a \in Addresses : SetAddress(a)
    \/ Remember
    \/ Restore

Spec == Init /\ [][Next]_rows
=============================================================================
