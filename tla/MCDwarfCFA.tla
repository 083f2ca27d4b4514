---- MODULE MCDwarfCFA ----
EXTENDS DwarfCFA

\* Two registers in one bucket, one in the other.
ThreeRegisters == {0, 1, 2}
TwoMapped == {0, 1}
\* The stack is clean, or holds an entry for register 2.
StaleEntries == {9, 2}
====
