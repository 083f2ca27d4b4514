---- MODULE MCFrameWalker ----
EXTENDS FrameWalker, SequencesExt

Call(kind, locals, info, saved) == [kind |-> kind, locals |-> locals, info |-> info, saved |-> saved]

Infos == {"compact", "dwarf", "none"}

Frames ==
    {Call("framed", 1, i, <<>>) : i \in Infos}
    \cup {Call("plain", 1, i, <<>>) : i \in Infos}
    \cup {Call("saves", 0, i, <<3, 6>>) : i \in Infos \cup {"indirect"}}

Leaves == {Call("leaf", 1, i, <<>>) : i \in Infos}

ChainsOf(n) == {<<f>> \o rest : f \in Frames \cup Leaves, rest \in [1 .. n - 1 -> Frames]}

\* Every order of saved registers that has the frame pointer in it.
Orders == {s \in SetToAllKPermutations(Saved) : RBP \in Range(s)}

AllOrders ==
    {<<Call("saves", 0, "compact", s), Call("framed", 0, "compact", <<>>)>> :
        s \in Orders}

AllChains == ChainsOf(1) \cup ChainsOf(2) \cup ChainsOf(3) \cup AllOrders

\* Stacks that are walked by the frame pointer, by the table, and by both.
DamagedChains ==
    [1 .. 3 -> {Call("framed", 1, "none", <<>>), Call("framed", 1, "compact", <<>>)}]

\* NULL, an unmapped word, two words of the stack, a return address.
Damage == {0, 1, Base + 1, Base + 3, 201}
====
