------------------------------ MODULE DwarfCFA ------------------------------
(***************************************************************************)
(* One frame's call frame information: the programs of the CIE and of the  *)
(* FDE fill a stack of rows of register rules, and the last row is applied *)
(* to make the caller's registers.                                         *)
(*                                                                         *)
(* A row is a hash table: chains of entries that all rows take from one    *)
(* pool.  Entries, rows and iterators are as the code has them; operands   *)
(* of a rule and addresses are left out.                                   *)
(***************************************************************************)
EXTENDS Integers, Sequences, FiniteSets, FiniteSetsExt

CONSTANTS Registers,     \* DWARF register numbers
          Mapped,        \* those that the thread state knows
          ReturnAddress, \* the CIE's return_address_register
          Rules,         \* the rules a register can have
          Stale,         \* what the stack may hold where an entry's regnum is: registers, or none
          MaxRegisters,  \* DWARF_CFA_STATE_MAX_REGISTERS
          MaxStates,     \* DWARF_CFA_STATE_MAX_STATES
          Buckets,       \* DWARF_CFA_STATE_BUCKET_COUNT
          MaxOpcodes,    \* bound: opcodes of the two programs
          NULL

ASSUME CFAAssumption ==
    /\ {MaxRegisters, MaxStates, Buckets} \subseteq Nat \ {0}
    /\ Registers \subseteq Nat /\ Mapped \subseteq Registers /\ ReturnAddress \in Registers
    /\ Stale # {} /\ MaxOpcodes \in Nat /\ NULL # "success"

Entries == 0 .. MaxRegisters - 1
Nil == MaxRegisters  \* DWARF_CFA_STATE_INVALID_ENTRY_IDX
Levels == 0 .. MaxStates - 1
Bucket(r) == r % Buckets
AddressRules == {"undefined", "register", "signed", "expression"}

VARIABLES regnum, rule, next,  \* the entries
          free,                \* the first entry of the free list
          table,               \* per level and bucket, the first entry of the chain
          count, address,      \* per level: the number of rules, the rule of the frame address
          depth,               \* the current level
          initial,             \* initial_state: register -> rule, when the program began
          iter,                \* the iterator: bucket and entry
          remove,              \* remove_register at work: register, entries at hand
          operand,             \* the register the opcode names
          program, left,       \* the program that runs, how many opcodes may come
          frame,               \* the registers set in the caller's state
          phase, result

entryVars == <<regnum, rule, next, free, table>>
rowVars == <<count, address, depth>>
vars == <<entryVars, rowVars, initial, iter, remove, operand, program, left, frame, phase, result>>

----------------------------------------------------------------------------
(* Entries, chains and the iterator.                                       *)

\* The entries along the links nx from i on: the least set that holds i and is closed, also where
\* a chain is a circle.
Along(nx, i) ==
    {j \in Entries : \A S \in SUBSET Entries :
        i \in S \cup {Nil} /\ (\A k \in S : nx[k] \in S \cup {Nil}) => j \in S}

From(i) == Along(next, i)

Chained(l) == UNION {From(table[l][b]) : b \in 0 .. Buckets - 1}

RulesOf(l) ==
    [r \in {regnum[i] : i \in Chained(l)} |-> rule[CHOOSE i \in Chained(l) : regnum[i] = r]]

Find(r) == {i \in From(table[depth][Bucket(r)]) : regnum[i] = r}

ChainEnd(r) == {i \in From(table[depth][Bucket(r)]) : next[i] = Nil}

\* A new entry ends the chain of its bucket.
Link(e, r) ==
    IF ChainEnd(r) = {}
    THEN /\ table' = [table EXCEPT ![depth][Bucket(r)] = e]
         /\ next' = [next EXCEPT ![e] = Nil]
    ELSE /\ next' = [next EXCEPT ![e] = Nil, ![CHOOSE i \in ChainEnd(r) : TRUE] = e]
         /\ UNCHANGED table

\* Mutant: the free list is not advanced.
Allocate_Twice(r, v) ==
    /\ free # Nil
    /\ free' = IF next[free] = Nil THEN free ELSE next[free]
    /\ regnum' = [regnum EXCEPT ![free] = r]
    /\ rule' = [rule EXCEPT ![free] = v]
    /\ Link(free, r)
    /\ count' = [count EXCEPT ![depth] = (@ + 1) % 256]

Allocate(r, v) ==
    /\ free # Nil
    /\ free' = next[free]
    /\ regnum' = [regnum EXCEPT ![free] = r]
    /\ rule' = [rule EXCEPT ![free] = v]
    /\ Link(free, r)
    /\ count' = [count EXCEPT ![depth] = (@ + 1) % 256]

\* set_register, when it returns true.
SetRegister(r, v) ==
    \/ /\ Find(r) # {}
       /\ rule' = [rule EXCEPT ![CHOOSE i \in Find(r) : TRUE] = v]
       /\ UNCHANGED <<regnum, next, free, table, count>>
    \/ Find(r) = {} /\ Allocate(r, v)

FullFor(r) == Find(r) = {} /\ free = Nil

Start == [bucket |-> 0, entry |-> Nil]

\* iterator.next: the next entry of the chain, or the first one of the next chain; entry is Nil
\* at the end.
Advanced(it) ==
    LET after == IF it.entry = Nil THEN Nil ELSE next[it.entry]
        from == IF it.entry # Nil /\ after = Nil THEN it.bucket + 1 ELSE it.bucket
        used == {b \in from .. Buckets - 1 : table[depth][b] # Nil}
    IN CASE after # Nil -> [bucket |-> it.bucket, entry |-> after]
         [] after = Nil /\ used = {} -> [bucket |-> Buckets, entry |-> Nil]
         [] OTHER -> [bucket |-> Min(used), entry |-> table[depth][Min(used)]]

----------------------------------------------------------------------------
(* The frame: eval_program for the CIE and for the FDE, then apply_state.  *)

Init ==
    /\ regnum \in [Entries -> Stale]
    /\ rule = [i \in Entries |-> NULL]
    /\ next = [i \in Entries |-> i + 1]
    /\ free = 0
    /\ table = [l \in Levels |-> [b \in 0 .. Buckets - 1 |-> Nil]]
    /\ count = [l \in Levels |-> 0]
    /\ address = [l \in Levels |-> "undefined"]
    /\ depth = 0
    /\ initial = <<>> /\ iter = Start /\ operand = NULL
    /\ remove = [reg |-> NULL, prev |-> Nil, entry |-> Nil]
    /\ program = "CIE" /\ left = MaxOpcodes
    /\ frame = {}
    /\ phase = "save" /\ result = NULL

\* Mutant: the iterator is not read to its end.
SaveInitial_OneRule ==
    /\ phase = "save"
    /\ iter' = Advanced(iter)
    /\ initial' = IF iter'.entry = Nil THEN initial
                  ELSE [r \in DOMAIN initial \cup {regnum[iter'.entry]} |->
                            IF r = regnum[iter'.entry] THEN rule[iter'.entry] ELSE initial[r]]
    /\ phase' = "eval"
    /\ UNCHANGED <<entryVars, rowVars, remove, operand, program, left, frame, result>>

SaveInitial ==
    /\ phase = "save"
    /\ iter' = Advanced(iter)
    /\ IF iter'.entry = Nil
       THEN phase' = "eval" /\ UNCHANGED initial
       ELSE /\ initial' = [r \in DOMAIN initial \cup {regnum[iter'.entry]} |->
                               IF r = regnum[iter'.entry] THEN rule[iter'.entry] ELSE initial[r]]
            /\ UNCHANGED phase
    /\ UNCHANGED <<entryVars, rowVars, remove, operand, program, left, frame, result>>

\* The program is over: its bytes are read, or the next row is of a location after pc.
EndOfProgram ==
    /\ phase = "eval"
    /\ iter' = Start
    /\ IF program = "CIE"
       THEN program' = "FDE" /\ initial' = <<>> /\ phase' = "save" /\ UNCHANGED result
       ELSE /\ UNCHANGED <<program, initial>>
            /\ IF address[depth] = "undefined"
               THEN phase' = "done" /\ result' = "EINVAL"
               ELSE phase' = "apply" /\ UNCHANGED result
    /\ UNCHANGED <<entryVars, rowVars, remove, operand, left, frame>>

Opcode == phase = "eval" /\ left > 0 /\ left' = left - 1

Stop(err) ==
    /\ phase' = "done" /\ result' = err
    /\ UNCHANGED <<entryVars, rowVars, initial, iter, remove, operand, program, frame>>

Continue == UNCHANGED <<initial, iter, program, frame, result>>

\* A read past the end, an opcode that is not supported, an operand that does not fit: nothing of
\* the opcode is done.
OpcodeFails == Opcode /\ Stop("EINVAL")

\* DW_CFA_nop, and advances that stay at or before pc.
Skip == Opcode /\ Continue /\ UNCHANGED <<entryVars, rowVars, remove, operand, phase>>

\* DW_CFA_def_cfa, def_cfa_sf and def_cfa_expression.
DefineAddress(a) ==
    /\ Opcode /\ a # "undefined"
    /\ address' = [address EXCEPT ![depth] = a]
    /\ Continue /\ UNCHANGED <<entryVars, count, depth, remove, operand, phase>>

\* DW_CFA_def_cfa_register, def_cfa_offset and def_cfa_offset_sf change a register's rule.
ChangeAddress(a) ==
    /\ a \in {"register", "signed"}
    /\ IF address[depth] \in {"register", "signed"}
       THEN DefineAddress(a)
       ELSE Opcode /\ Stop("EINVAL")

\* DW_CFA_offset, val_offset, register, same_value, expression and their variants.
Define(r, v) ==
    /\ Opcode
    /\ IF FullFor(r)
       THEN Stop("ENOMEM")
       ELSE /\ SetRegister(r, v) /\ operand' = r
            /\ Continue /\ UNCHANGED <<address, depth, remove, phase>>

RemoveRegister(r) ==
    /\ remove' = [reg |-> r, prev |-> Nil, entry |-> table[depth][Bucket(r)]]
    /\ phase' = "remove"
    /\ Continue /\ UNCHANGED <<entryVars, rowVars>>

Undefined(r) == Opcode /\ operand' = r /\ RemoveRegister(r)

\* Either what the register had when the program began, or nothing.  The extended opcode has no
\* operand in its low bits, and yet removes the register that they name: number 0.
Restore(r, extended) ==
    IF r \in DOMAIN initial
    THEN Define(r, initial[r])
    ELSE /\ Opcode /\ operand' = r
         /\ RemoveRegister(IF extended THEN 0 ELSE r)

\* The next level begins without rules; what the current one has is kept below.
RememberState ==
    /\ Opcode
    /\ IF depth + 1 = MaxStates
       THEN Stop("ENOMEM")
       ELSE /\ depth' = depth + 1
            /\ count' = [count EXCEPT ![depth + 1] = 0]
            /\ address' = [address EXCEPT ![depth + 1] = "undefined"]
            /\ table' = [table EXCEPT ![depth + 1] = [b \in 0 .. Buckets - 1 |-> Nil]]
            /\ Continue /\ UNCHANGED <<regnum, rule, next, free, remove, operand, phase>>

\* Mutant: the address rule of the popped level stays.
RestoreState_KeepsAddress ==
    /\ Opcode
    /\ IF depth = 0
       THEN Stop("EINVAL")
       ELSE /\ depth' = depth - 1
            /\ address' = [address EXCEPT ![depth - 1] = address[depth]]
            /\ Continue /\ UNCHANGED <<entryVars, count, remove, operand, phase>>

\* The entries of the level that is left are not given back to the free list.
RestoreState ==
    /\ Opcode
    /\ IF depth = 0
       THEN Stop("EINVAL")
       ELSE /\ depth' = depth - 1
            /\ Continue /\ UNCHANGED <<entryVars, count, address, remove, operand, phase>>

\* One round of remove_register's loop.  An entry that matches goes to the head of the free list,
\* and the loop goes on with its successor: there.
RemoveStep ==
    LET e == remove.entry
        p == remove.prev
    IN
    /\ phase = "remove"
    /\ IF e = Nil
       THEN phase' = "eval" /\ UNCHANGED <<entryVars, count, remove>>
       ELSE /\ UNCHANGED <<regnum, rule, phase>>
            /\ IF regnum[e] # remove.reg
               THEN remove' = [remove EXCEPT !.prev = e, !.entry = next[e]]
                    /\ UNCHANGED <<next, free, table, count>>
               ELSE /\ IF p = Nil
                       THEN /\ table' = [table EXCEPT ![depth][Bucket(remove.reg)] = next[e]]
                            /\ next' = [next EXCEPT ![e] = free]
                       ELSE /\ next' = [next EXCEPT ![p] = next[e], ![e] = free]
                            /\ UNCHANGED table
                    /\ free' = e
                    /\ count' = [count EXCEPT ![depth] = (@ - 1) % 256]
                    /\ remove' = [remove EXCEPT !.prev = e, !.entry = free]
    /\ UNCHANGED <<address, depth, initial, iter, operand, program, left, frame, result>>

IP == -1

Finish(err) ==
    /\ phase' = "done" /\ result' = err
    /\ UNCHANGED <<entryVars, rowVars, initial, remove, operand, program, left>>

\* A rule sets its register; that of the return address sets the IP as well, or, where the thread
\* state does not know it, instead.
ApplyRule ==
    LET r == regnum[iter'.entry] IN
    /\ phase = "apply"
    /\ iter' = Advanced(iter) /\ iter'.entry # Nil
    /\ \/ r \notin Mapped \cup {ReturnAddress} /\ Finish("EINVAL") /\ UNCHANGED frame
       \/ Finish("ENOTFOUND") /\ UNCHANGED frame  \* memory or a register that is not available
       \/ /\ r \in Mapped \cup {ReturnAddress}
          /\ frame' = frame \cup ({r} \cap Mapped) \cup (IF r = ReturnAddress THEN {IP} ELSE {})
          /\ UNCHANGED <<entryVars, rowVars, initial, remove, operand, program, left, phase, result>>

\* Without a rule for it, the return address is the live register's.
ApplyEnds ==
    /\ phase = "apply"
    /\ iter' = Advanced(iter) /\ iter'.entry = Nil
    /\ \/ IP \in frame /\ Finish("success") /\ UNCHANGED frame
       \/ IP \notin frame /\ ReturnAddress \in Mapped /\ Finish("success") /\ frame' = frame \cup {IP}
       \/ IP \notin frame /\ Finish("EINVAL") /\ UNCHANGED frame

Evaluate ==
    \/ SaveInitial
    \/ EndOfProgram
    \/ OpcodeFails
    \/ Skip
    \/ \E a \in AddressRules : DefineAddress(a) \/ ChangeAddress(a)
    \/ \E r \in Registers, v \in Rules : Define(r, v)
    \/ \E r \in Registers : Undefined(r) \/ Restore(r, FALSE) \/ Restore(r, TRUE)
    \/ RememberState
    \/ RestoreState
    \/ RemoveStep

Next ==
    \/ Evaluate
    \/ ApplyRule
    \/ ApplyEnds

Spec == Init /\ [][Next]_vars

\* A program that may go on does: it is one loop of a function.
FairSpec == Spec /\ WF_vars(Next)

----------------------------------------------------------------------------
(* Properties.                                                             *)

\* Every variable has its type.
TypeOK ==
    /\ regnum \in [Entries -> Registers \cup Stale] /\ rule \in [Entries -> Rules \cup {NULL}]
    /\ next \in [Entries -> 0 .. Nil] /\ free \in 0 .. Nil
    /\ table \in [Levels -> [0 .. Buckets - 1 -> 0 .. Nil]]
    /\ count \in [Levels -> 0 .. 255] /\ address \in [Levels -> AddressRules] /\ depth \in Levels
    /\ DOMAIN initial \subseteq Registers /\ \A r \in DOMAIN initial : initial[r] \in Rules
    /\ iter \in [bucket : 0 .. Buckets, entry : 0 .. Nil]
    /\ remove \in [reg : Registers \cup {0, NULL}, prev : 0 .. Nil, entry : 0 .. Nil]
    /\ operand \in Registers \cup {NULL}
    /\ program \in {"CIE", "FDE"} /\ left \in 0 .. MaxOpcodes /\ frame \subseteq Mapped \cup {IP}
    /\ phase \in {"save", "eval", "remove", "apply", "done"}
    /\ result \in {NULL, "success", "EINVAL", "ENOMEM", "ENOTFOUND"}

\* No chain is a circle, and an entry is in one chain only, in the one of its register's bucket:
\* all levels share the pool, and a level that came back finds its own entries
\* (PLCrashAsyncDwarfCFAState.hpp, _table_stack).
ChainsAreSound ==
    \A l \in 0 .. depth :
        /\ \A i \in Chained(l) : next[i] = Nil \/ i \notin From(next[i])
        /\ \A b \in 0 .. Buckets - 1 : \A i \in From(table[l][b]) : Bucket(regnum[i]) = b
        /\ \A i, j \in Chained(l) : regnum[i] = regnum[j] => i = j
        /\ \A m \in 0 .. depth \ {l} : Chained(l) \cap Chained(m) = {}

\* The free list holds no entry that a level uses: set_register overwrites what it takes from it.
FreeEntriesAreUnused ==
    \A l \in 0 .. depth : From(free) \cap Chained(l) = {}

\* The iterator visits every rule, so that initial_state is the row the program began with
\* (eval_program, "Save the initial state").
InitialIsTheRow ==
    phase = "save" /\ phase' = "eval" => initial' = RulesOf(depth)

\* After DW_CFA_undefined and DW_CFA_restore without an initial rule, the register they remove has
\* none.
RemovedEntryIsGone ==
    phase = "remove" /\ phase' = "eval" => remove.reg \notin DOMAIN RulesOf(depth)

\* A frame that was made has an IP, and the registers of all the row's rules (apply_state).
FrameIsComplete ==
    result = "success" => IP \in frame /\ DOMAIN RulesOf(depth) \cap Mapped \subseteq frame

\* The pool's entries are divided among free list and chains, and the frame is made of the last row.
TableIsSound == TypeOK /\ ChainsAreSound /\ FreeEntriesAreUnused /\ FrameIsComplete

\* The two walks that take many steps, over all chains and along one, miss no entry.
WalksAreComplete == [][InitialIsTheRow /\ RemovedEntryIsGone]_vars

\* Chains and levels in a shared pool implement a stack of rows.
R == INSTANCE RegisterRows WITH
        Addresses <- AddressRules, MaxRows <- MaxStates,
        rows <- [l \in 1 .. depth + 1 |-> [rules |-> RulesOf(l - 1), address |-> address[l - 1]]]

ImplementsRows == R!Spec

\* "Returns PLCRASH_ESUCCESS on success, or an appropriate plcrash_error_t values on failure"
\* (PLCrashAsyncDwarfCFAStateEvaluation.cpp:77): the evaluation returns.
EvaluationEnds == <>(phase = "done")
=============================================================================
