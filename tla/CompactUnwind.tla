--------------------------- MODULE CompactUnwind ---------------------------
(***************************************************************************)
(* Compact unwind encodings: the search of the table for a function, the   *)
(* order of the saved registers packed into ten bits, and the caller's     *)
(* registers that an entry gives.                                          *)
(*                                                                         *)
(* Addresses count words; a thread state is a function from the registers  *)
(* that are available to their values.                                     *)
(***************************************************************************)
EXTENDS Integers, Sequences, FiniteSets, FiniteSetsExt, Functions

CONSTANT Word  \* the range of the search's indices: 2^32

ASSUME CompactAssumption == Word \in Nat \ {0}

Saved == 1 .. 6  \* the registers of the encoding; number 6 is the frame pointer
RBP == 6
Nonvolatile == {"sp", "fp"}  \* of those the walk follows; x86-64

OK(state) == [err |-> "success", regs |-> state]
Fail(err) == [err |-> err, regs |-> <<>>]

----------------------------------------------------------------------------
(* CFE_FUN_BINARY_SEARCH: the last entry that starts at or before pc; NULL  *)
(* is Len(table), and Outside an index past the table that is read.        *)

Outside == -1

\* Mutant: the entry after mid is not looked at.
Turn_NoNext(table, pc, s) ==
    LET n == Len(table)
        mid == ((s.min + s.max) % Word) \div 2
        Found(k) == [s EXCEPT !.over = TRUE, !.found = k]
    IN CASE s.over -> s
         [] ~s.over /\ s.max < s.min -> Found(n)
         [] OTHER ->
              IF mid >= n THEN Found(Outside)
              ELSE IF table[mid + 1] = pc THEN Found(mid)
              ELSE IF table[mid + 1] > pc
                   THEN IF mid = 0 THEN Found(n) ELSE [s EXCEPT !.max = mid - 1]
              ELSE IF mid = s.max THEN Found(mid) ELSE [s EXCEPT !.min = mid + 1]

\* One turn of the loop, which is over when an entry is found or there is none.
Turn(table, pc, s) ==
    LET n == Len(table)
        Entry(i) == table[i + 1]
        mid == ((s.min + s.max) % Word) \div 2
        Found(k) == [s EXCEPT !.over = TRUE, !.found = k]
    IN CASE s.over -> s
         [] ~s.over /\ s.max < s.min -> Found(n)
         [] OTHER ->
              IF mid >= n THEN Found(Outside)
              ELSE IF Entry(mid) = pc THEN Found(mid)
              ELSE IF Entry(mid) > pc
                   THEN IF mid = 0 THEN Found(n) ELSE [s EXCEPT !.max = mid - 1]
              ELSE IF mid = s.max THEN Found(mid)
              ELSE IF mid + 1 >= n THEN Found(Outside)
              ELSE IF Entry(mid + 1) > pc THEN Found(mid) ELSE [s EXCEPT !.min = mid + 1]

\* Every turn but the last leaves a shorter range.
Search(table, pc) ==
    LET n == Len(table)
        Turns[k \in 0 .. n + 1] ==
            IF k = 0 THEN [min |-> 0, max |-> (n - 1) % Word, over |-> FALSE, found |-> n]
            ELSE Turn(table, pc, Turns[k - 1])
    IN Turns[n + 1].found

----------------------------------------------------------------------------
(* The permutation of the saved registers.                                 *)

\* What one step of a position is worth, by the number of registers.
Factors == << <<1>>, <<5, 1>>, <<20, 4, 1>>, <<60, 12, 3, 1>>, <<120, 24, 6, 2, 1>>,
              <<120, 24, 6, 2, 1, 0>> >>

\* Each register as its rank among those not yet listed; the ranks are the digits.
Encode(list) ==
    LET Rank(i) == list[i] - Cardinality({j \in 1 .. i - 1 : list[j] < list[i]}) - 1
        Sum[n \in 0 .. Len(list)] == IF n = 0 THEN 0 ELSE Sum[n - 1] + Factors[Len(list)][n] * Rank(n)
    IN Sum[Len(list)]

\* The digits, and then for each the register of that rank among those not yet used.
Decode(permutation, n) ==
    LET f == Factors[n]
        Digit(i) == IF f[i] = 0 THEN 0
                    ELSE (IF i = 1 THEN permutation ELSE permutation % f[i - 1]) \div f[i]
        Ranked(left, rank) == CHOOSE u \in left : Cardinality({v \in left : v < u}) = rank
        List[i \in 0 .. n] ==
            IF i = 0 THEN <<>>
            ELSE Append(List[i - 1], Ranked(Saved \ Range(List[i - 1]), Digit(i)))
    IN List[n]

----------------------------------------------------------------------------
(* Entries: plcrash_async_cfe_entry_init and _apply.                       *)

SetReg(state, r, v) == [q \in DOMAIN state \cup {r} |-> IF q = r THEN v ELSE state[q]]

\* The entry that an encoding stands for, or none for a mode that is not known.
\* An entry with a frame pointer has a list of saved registers as well, but none
\* of them is followed here; nor is the failure to read one of them.
EntryInit(encoding) ==
    CASE encoding.mode = "frame" ->
            [type |-> "frame_ptr", offset |-> 0, adjust |-> 0, list |-> <<>>, lr |-> FALSE]
      [] encoding.mode \in {"stack_immd", "stack_ind"} ->
            [type |-> IF encoding.mode = "stack_immd" THEN "immd" ELSE "indirect",
             offset |-> encoding.size, adjust |-> encoding.adjust, lr |-> FALSE,
             list |-> IF encoding.count = 0 THEN <<>>
                      ELSE Decode(encoding.permutation, encoding.count)]
      [] encoding.mode = "arm64_frameless" ->
            [type |-> "immd", offset |-> encoding.size, adjust |-> 0, list |-> <<>>, lr |-> TRUE]
      [] encoding.mode = "dwarf" ->
            [type |-> "dwarf", offset |-> 0, adjust |-> 0, list |-> <<>>, lr |-> FALSE]
      [] OTHER -> [type |-> "none", offset |-> 0, adjust |-> 0, list |-> <<>>, lr |-> FALSE]

\* The words from address on that are mapped, or fewer.
Readable(mem, address, n) == address .. address + n - 1 \subseteq DOMAIN mem

\* The saved registers, of which the walk follows the frame pointer.
RestoreSaved(state, mem, list, address) ==
    LET at == CHOOSE i \in DOMAIN list : list[i] = RBP IN
    IF ~Readable(mem, address, Len(list)) THEN Fail("ENOMEM")
    ELSE IF RBP \notin Range(list) THEN OK(state)
    ELSE OK(SetReg(state, "fp", mem[address + at - 1]))

\* Mutant: the stack pointer of the function stays.
ApplyFramePtr_KeepsSP(kept, regs, mem) ==
    IF "fp" \notin DOMAIN regs THEN Fail("ENOTFOUND")
    ELSE IF ~Readable(mem, regs["fp"], 2) THEN Fail("ENOMEM")
    ELSE OK(SetReg(SetReg(kept, "fp", mem[regs["fp"]]), "ip", mem[regs["fp"] + 1]))

ApplyFramePtr(kept, regs, mem) ==
    IF "fp" \notin DOMAIN regs THEN Fail("ENOTFOUND")
    ELSE IF ~Readable(mem, regs["fp"], 2) THEN Fail("ENOMEM")
    ELSE OK(SetReg(SetReg(SetReg(kept, "sp", regs["fp"] + 2),
                          "fp", mem[regs["fp"]]), "ip", mem[regs["fp"] + 1]))

\* text is the stack size in the function's code, which an indirect entry points to.
ApplyFrameless(entry, kept, regs, mem, text) ==
    LET size == IF entry.type = "indirect" THEN text + entry.adjust ELSE entry.offset
        sp == regs["sp"] + size
    IN
    CASE "sp" \notin DOMAIN regs -> Fail("ENOTFOUND")
      [] "sp" \in DOMAIN regs /\ entry.lr ->
            IF "lr" \notin DOMAIN regs THEN Fail("ENOTFOUND")
            ELSE RestoreSaved(SetReg(SetReg(kept, "sp", sp), "ip", regs["lr"]), mem, entry.list,
                              sp - Len(entry.list))
      [] OTHER ->
            IF ~Readable(mem, sp - 1, 1) THEN Fail("ENOMEM")
            ELSE RestoreSaved(SetReg(SetReg(kept, "sp", sp), "ip", mem[sp - 1]), mem, entry.list,
                              sp - 1 - Len(entry.list))

Apply(entry, regs, mem, text) ==
    LET kept == Restrict(regs, DOMAIN regs \cap Nonvolatile) IN
    CASE entry.type = "frame_ptr" -> ApplyFramePtr(kept, regs, mem)
      [] entry.type \in {"immd", "indirect"} -> ApplyFrameless(entry, kept, regs, mem, text)
      [] OTHER -> Fail("ENOTSUP")
=============================================================================
