---------------------------- MODULE FrameWalker ----------------------------
(***************************************************************************)
(* The walk of a thread's stack: the cursor asks its readers in turn, the  *)
(* compact unwind table, the call frame information, the frame pointer,    *)
(* and takes the first frame that one of them gives.                       *)
(*                                                                         *)
(* The stack is that of a chain of calls, chain[1] the function that runs. *)
(* It grows down, so that addresses rise from frame to frame; one word of  *)
(* it may have been overwritten.                                           *)
(***************************************************************************)
EXTENDS CompactUnwind

CONSTANTS Chains,     \* sequences of calls [kind, locals, info, saved]
          FrameLimit,  \* MAX_THREAD_FRAMES
          PageSize,   \* at most this is the NULL page
          Damaged,    \* those of which a word may be overwritten
          Overwrites  \* values such a word may have

ASSUME WalkerAssumption ==
    FrameLimit \in Nat \ {0} /\ PageSize \in Nat \ {0} /\ Overwrites \subseteq Int

VARIABLES chain,  \* the calls
          mem,    \* the stack's words
          intact, \* none of them is overwritten
          depth, current, prev, \* the cursor: frame, and the one before once depth is 2
          walk,   \* the frames so far, each with the reader it comes from
          status  \* "walking", or what ended the walk

walkVars == <<chain, mem, intact, depth, current, prev, walk, status>>

----------------------------------------------------------------------------
(* The stack of a chain of calls, as the program lays it out.              *)

Kinds == {"framed", "plain", "saves", "leaf"}
Information == {"compact", "indirect", "dwarf", "none"}

\* Words of the call's frame: locals, then the saved frame pointer and the return address of a
\* framed function, the saved registers and the return address of another, nothing of a leaf.
WordsOf(f) ==
    CASE f.kind = "framed" -> f.locals + 2
      [] f.kind \in {"plain", "saves"} -> f.locals + Len(f.saved) + 1
      [] OTHER -> f.locals

Base == 2000  \* the lowest address of the stack
SP(c, i) ==
    LET B[n \in 0 .. Len(c)] == IF n = 0 THEN Base ELSE B[n - 1] + WordsOf(c[n])
    IN B[i - 1]

Code(i) == 100 * i          \* where function i begins
Return(c, i) == IF i > Len(c) THEN 0 ELSE Code(i) + 1
Unmapped == 1               \* what a function that saves it keeps in the frame pointer

\* The frame pointer while call i runs: that of the first call from i on that sets it.
FP(c, i) ==
    LET setting == {k \in i .. Len(c) : c[k].kind \in {"framed", "saves"}}
        k == Min(setting)
    IN IF setting = {} THEN 0
       ELSE IF c[k].kind = "framed" THEN SP(c, k) + c[k].locals ELSE Unmapped

\* Where call i keeps its caller's frame pointer; where its return address is.
SavedFP(c, i) ==
    LET top == SP(c, i + 1)
        list == c[i].saved
    IN CASE c[i].kind = "framed" -> {top - 2}
         [] c[i].kind = "saves" -> {top - 2 - Len(list) + k : k \in {k \in DOMAIN list : list[k] = RBP}}
         [] OTHER -> {}
SavedIP(c, i) == IF c[i].kind = "leaf" THEN {} ELSE {SP(c, i + 1) - 1}

\* Words that hold what a caller needs; the others are zero.
Layout(c) ==
    [a \in Base .. SP(c, Len(c) + 1) - 1 |->
        LET i == CHOOSE i \in DOMAIN c : SP(c, i) <= a /\ a < SP(c, i + 1)
        IN CASE a \in SavedFP(c, i) -> FP(c, i + 1)
             [] a \in SavedIP(c, i) -> Return(c, i + 1)
             [] OTHER -> 0]

\* A chain of calls: only the running one may be a leaf, and no function is in the NULL page.
IsChain(c) ==
    /\ c \in Seq([kind : Kinds, locals : Nat, info : Information, saved : Seq(Saved)])
    /\ Len(c) > 0 /\ 2 * Len(c) <= Word
    /\ \A i \in DOMAIN c :
          /\ IsInjective(c[i].saved)
          /\ c[i].kind = "saves" <=> RBP \in Range(c[i].saved)
          /\ c[i].kind = "leaf" => i = 1

ASSUME ChainAssumption == (\A c \in Chains : IsChain(c)) /\ PageSize <= Code(1)

\* The encoding that the linker emits for a call with compact information.
EncodingOf(f) ==
    LET size == WordsOf(f) IN
    CASE f.info = "dwarf" -> [mode |-> "dwarf"]
      [] f.info = "none" -> [mode |-> "null"]
      [] f.info \in {"compact", "indirect"} /\ f.kind = "framed" -> [mode |-> "frame"]
      [] f.info \in {"compact", "indirect"} /\ f.kind = "leaf" ->
            [mode |-> "arm64_frameless", size |-> size]
      [] OTHER -> [mode |-> IF f.info = "compact" THEN "stack_immd" ELSE "stack_ind",
                   size |-> size, adjust |-> 1, count |-> Len(f.saved),
                   permutation |-> IF f.saved = <<>> THEN 0 ELSE Encode(f.saved)]

----------------------------------------------------------------------------
(* The readers.                                                            *)

\* The call that pc is attributed to, 0 if there is none; the table has every function.
FunctionAt(pc) ==
    LET k == Search([i \in DOMAIN chain |-> Code(i)], pc)
    IN IF k \in 0 .. Len(chain) - 1 /\ pc < Code(Len(chain) + 1) THEN k + 1 ELSE 0

\* plframe_cursor_read_compact_unwind
Compact(regs) ==
    LET f == FunctionAt(regs["ip"])
        entry == EntryInit(EncodingOf(chain[f]))
        new == Apply(entry, regs, mem, WordsOf(chain[f]) - entry.adjust)
    IN CASE "ip" \notin DOMAIN regs -> Fail("EBADFRAME")
         [] "ip" \in DOMAIN regs /\ f = 0 -> Fail("ENOTSUP")
         [] OTHER -> IF new.err = "success" THEN new ELSE Fail("ENOFRAME")

\* plframe_cursor_read_dwarf_unwind: the row of the function gives the frame address from the
\* frame or the stack pointer, the return address below it, and where the frame pointer is saved;
\* without a rule the frame pointer is the callee's.
Dwarf(regs) ==
    LET f == FunctionAt(regs["ip"])
        call == chain[f]
        base == IF call.kind = "framed" THEN "fp" ELSE "sp"
        cfa == regs[base] + (IF call.kind = "framed" THEN 2 ELSE WordsOf(call))
        kept == Restrict(regs, DOMAIN regs \cap Nonvolatile)
        fpAt == CASE call.kind = "framed" -> {cfa - 2}
                  [] call.kind = "saves" -> {cfa - 2 - Len(call.saved) + k :
                                                 k \in {k \in DOMAIN call.saved : call.saved[k] = RBP}}
                  [] OTHER -> {}
        ipAt == IF call.kind = "leaf" THEN {} ELSE {cfa - 1}
        made == SetReg(SetReg(kept, "sp", cfa), "ip", IF ipAt = {} THEN regs["lr"] ELSE mem[cfa - 1])
    IN CASE "ip" \notin DOMAIN regs -> Fail("EBADFRAME")
         [] "ip" \in DOMAIN regs /\ (f = 0 \/ call.info # "dwarf") -> Fail("ENOTSUP")
         [] OTHER ->
              IF \/ base \notin DOMAIN regs
                 \/ call.kind = "leaf" /\ "lr" \notin DOMAIN regs
                 \/ ~(fpAt \cup ipAt \subseteq DOMAIN mem)
              THEN Fail("ENOFRAME")
              ELSE IF fpAt = {} THEN OK(made)
              ELSE OK(SetReg(made, "fp", mem[CHOOSE a \in fpAt : TRUE]))

\* Mutant: the registers of the callee stay.
FramePtr_KeepsRegs(regs, before) ==
    IF "fp" \notin DOMAIN regs THEN Fail("EBADFRAME")
    ELSE IF regs["fp"] = 0 THEN Fail("ENOFRAME")
    ELSE IF ~Readable(mem, regs["fp"], 2) THEN Fail("EBADFRAME")
    ELSE OK(SetReg(SetReg(regs, "fp", mem[regs["fp"]]), "ip", mem[regs["fp"] + 1]))

\* plframe_cursor_read_frame_ptr: only the frame pointer and the return address are known of the
\* new frame.  The stack must not have gone the wrong way from the frame before to this one.
FramePtr(regs, before) ==
    CASE "fp" \notin DOMAIN regs -> Fail("EBADFRAME")
      [] "fp" \in DOMAIN regs /\ regs["fp"] = 0 -> Fail("ENOFRAME")
      [] OTHER ->
            IF \/ "fp" \in DOMAIN before /\ regs["fp"] < before["fp"]
               \/ ~Readable(mem, regs["fp"], 2)
            THEN Fail("EBADFRAME")
            ELSE OK(SetReg(SetReg(<<>>, "fp", mem[regs["fp"]]), "ip", mem[regs["fp"] + 1]))

----------------------------------------------------------------------------
(* The cursor.                                                             *)

Running(c) ==
    [sp |-> SP(c, 1), fp |-> FP(c, 1), ip |-> Return(c, 1),
     lr |-> IF c[1].kind = "leaf" THEN Return(c, 2) ELSE Unmapped]

WalkInit ==
    /\ chain \in Chains
    /\ \/ mem = Layout(chain) /\ intact = TRUE
       \/ /\ chain \in Damaged
          /\ \E a \in DOMAIN Layout(chain), v \in Overwrites : mem = [Layout(chain) EXCEPT ![a] = v]
          /\ intact = FALSE
    /\ depth = 0 /\ current = Running(chain) /\ prev = <<>>
    /\ walk = <<>> /\ status = "walking"

\* The first frame is the thread's own.
FirstFrame ==
    /\ status = "walking" /\ depth = 0
    /\ depth' = 1
    /\ walk' = <<[regs |-> current, by |-> "thread"]>>
    /\ UNCHANGED <<chain, mem, intact, current, prev, status>>

Readers == <<"compact", "dwarf", "frame_ptr">>

Answers == <<Compact(current), Dwarf(current), FramePtr(current, IF depth >= 2 THEN prev ELSE <<>>)>>

\* The first reader that has a frame; its frame becomes the cursor's.
NextFrame ==
    /\ status = "walking" /\ depth > 0 /\ Len(walk) < FrameLimit
    /\ \E r \in 1 .. 3 :
        /\ Answers[r].err = "success" /\ \A q \in 1 .. r - 1 : Answers[q].err # "success"
        /\ Answers[r].regs["ip"] > PageSize
        /\ prev' = current /\ current' = Answers[r].regs /\ depth' = depth + 1
        /\ walk' = Append(walk, [regs |-> current', by |-> Readers[r]])
    /\ UNCHANGED <<chain, mem, intact, status>>

\* No reader has one: the last one's error; or the frame's pc is in the NULL page.
NoFrame ==
    /\ status = "walking" /\ depth > 0 /\ Len(walk) < FrameLimit
    /\ \/ /\ \A r \in 1 .. 3 : Answers[r].err # "success"
          /\ status' = Answers[3].err
       \/ /\ \E r \in 1 .. 3 :
                /\ Answers[r].err = "success" /\ \A q \in 1 .. r - 1 : Answers[q].err # "success"
                /\ Answers[r].regs["ip"] <= PageSize
          /\ status' = "ENOFRAME"
    /\ UNCHANGED <<chain, mem, intact, depth, current, prev, walk>>

\* plcrash_writer_write_thread stops here.
TooManyFrames ==
    /\ status = "walking" /\ Len(walk) = FrameLimit
    /\ status' = "limit"
    /\ UNCHANGED <<chain, mem, intact, depth, current, prev, walk>>

WalkNext == FirstFrame \/ NextFrame \/ NoFrame \/ TooManyFrames

WalkSpec == WalkInit /\ [][WalkNext]_walkVars

----------------------------------------------------------------------------
(* Properties.                                                             *)

\* Every variable has its type.
WalkTypeOK ==
    /\ chain \in Chains /\ intact \in BOOLEAN
    /\ depth = Len(walk) /\ Len(walk) <= FrameLimit
    /\ DOMAIN current \subseteq {"sp", "fp", "ip", "lr"} /\ DOMAIN prev \subseteq {"sp", "fp", "ip", "lr"}
    /\ status \in {"walking", "limit", "ENOFRAME", "EBADFRAME"}

IsFrameOf(regs, i) ==
    /\ regs["ip"] = Return(chain, i)
    /\ "sp" \in DOMAIN regs => regs["sp"] = SP(chain, i)
    /\ "fp" \in DOMAIN regs => regs["fp"] = FP(chain, i)

\* Every frame of an undamaged stack is that of a caller further up, and each register that is
\* known has the value it had there: a reader that cannot know one must not leave the callee's
\* (plcrash_async_thread_state_clear_all_regs, _clear_volatile_regs).
FramesAreCallers ==
    intact => \A k \in DOMAIN walk :
                 \E i \in DOMAIN chain : k <= i /\ IsFrameOf(walk[k].regs, i)

\* Nothing lets the walk miss a call: it has unwind information or is framed, and a call without a
\* frame does not come after one that had to be read by the frame pointer, which forgets the stack
\* pointer.
Walkable(c) ==
    \A i \in DOMAIN c :
        c[i].kind = "framed" \/ (c[i].info # "none" /\ \A j \in 1 .. i - 1 : c[j].info # "none")

\* Then all calls are found, and in their order.
WalkIsComplete ==
    intact /\ Walkable(chain) /\ Len(chain) < FrameLimit /\ status # "walking" =>
        /\ status = "ENOFRAME" /\ Len(walk) = Len(chain)
        /\ \A k \in DOMAIN walk : IsFrameOf(walk[k].regs, k)

\* Whatever the stack holds, a frame pointer that went down ends the walk by frame pointers
\* ("Verify that the stack is growing in the right direction", PLCrashFrameStackUnwind.c:71).
StackGrowsOneWay ==
    \A k \in 3 .. Len(walk) :
        walk[k].by = "frame_ptr" /\ "fp" \in DOMAIN walk[k - 2].regs =>
            walk[k - 1].regs["fp"] >= walk[k - 2].regs["fp"]

\* The walk goes from callee to caller, with registers of the frame it is at, and ends.
WalkIsSound == WalkTypeOK /\ FramesAreCallers /\ StackGrowsOneWay

\* The search gives the last function that begins at or before pc, in a table of one, two or all of the
\* functions, and reads no entry outside the table.  The one exception is the table that is empty
\* once its closing entry is left out, which the code only excludes by an assertion before that.
FirstFunctions(n) == [j \in 1 .. n |-> Code(j)]
SearchFindsFunction ==
    \A n \in 0 .. Len(chain), i \in DOMAIN chain, d \in {-1, 0, 1} :
        LET pc == Code(i) + d
            before == {j \in DOMAIN FirstFunctions(n) : FirstFunctions(n)[j] <= pc}
        IN Search(FirstFunctions(n), pc) =
              IF n = 0 THEN Outside
              ELSE IF before = {} THEN Len(FirstFunctions(n)) ELSE Max(before) - 1
=============================================================================
