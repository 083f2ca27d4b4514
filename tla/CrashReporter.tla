--------------------------- MODULE CrashReporter ---------------------------
(***************************************************************************)
(* PLCrashReporter over launches of the app: enabling, uncaught            *)
(* exceptions, the report that a crash writes to an AsyncFile, live        *)
(* reports, and the pending report that a later launch takes.  The handler *)
(* is the BSD one; SignalHandler and MachExceptionServer have the delivery,*)
(* and two threads that are in the handler together.                       *)
(***************************************************************************)
EXTENDS AsyncFile, FiniteSets

CONSTANTS Threads,    \* threads of the app
          Enablers,   \* those that enable a reporter
          Sizes,      \* what a report may consist of: the lengths of its pieces, the
            \* first of which is the file's magic
          CallsFail,  \* may calls of enabling and opening fail?
          MaxLaunches

ASSUME ReporterAssumption ==
    /\ IsFiniteSet(Threads) /\ Threads # {} /\ Enablers \subseteq Threads
    /\ Sizes \subseteq Seq(Nat) /\ \A s \in Sizes : \E i \in 1..Len(s) : s[i] > 0
    /\ CallsFail \in BOOLEAN /\ MaxLaunches \in Nat

VARIABLES launches,    \* how often the app was launched
          process,     \* "off", "running"
          at,          \* at[t]: where the thread is
          live,        \* live[t]: its report is a live one
          todo,        \* todo[t]: threads it has still to suspend or resume
          suspended,   \* suspended[t]: the suspend count
          enforceOne,  \* a reporter was enabled, or is being enabled
          enabled,     \* enabled[t]: t's reporter is
          handlers,    \* "none", "set", "reset"
          uncaught,    \* the uncaught exception handler is set
          writer,      \* the writer of the handler's context
          exception,   \* its exception: "none", "flagged", "set"
          exists,      \* the report's path names a file
          gen,         \* number of the report last begun
          size,        \* the lengths of its pieces
          next,        \* the piece to be written next
          status       \* what plcrash_write_report returned

enabling == <<enforceOne, enabled, handlers, uncaught, writer>>
report == <<exists, gen, size, next>>
vars == <<launches, process, at, live, todo, suspended, enabling, exception,
          report, status, fileVars>>

\* The memory of a process that has not begun.
Fresh ==
    /\ at' = [t \in Threads |-> "app"] /\ live' = [t \in Threads |-> FALSE]
    /\ todo' = [t \in Threads |-> {}] /\ suspended' = [t \in Threads |-> 0]
    /\ enforceOne' = FALSE /\ enabled' = [t \in Threads |-> FALSE]
    /\ handlers' = "none" /\ uncaught' = FALSE /\ writer' = "none"
    /\ exception' = "none" /\ status' = "none"

Init ==
    /\ launches = 0 /\ process = "off"
    /\ at = [t \in Threads |-> "app"] /\ live = [t \in Threads |-> FALSE]
    /\ todo = [t \in Threads |-> {}] /\ suspended = [t \in Threads |-> 0]
    /\ enforceOne = FALSE /\ enabled = [t \in Threads |-> FALSE]
    /\ handlers = "none" /\ uncaught = FALSE /\ writer = "none"
    /\ exception = "none" /\ status = "none"
    /\ exists = FALSE /\ gen = 0 /\ size = <<>> /\ next = 1
    /\ FileInit

Runs(t) == process = "running" /\ suspended[t] = 0
At(t, place) == Runs(t) /\ at[t] = place
Go(t, place) == at' = [at EXCEPT ![t] = place]

\* The bytes of piece i of report n, the lengths of whose pieces are s; and of
\* its pieces up to each one.
Piece(n, s, i) == [k \in 1..s[i] |-> <<n, i, k>>]
Pieces(n, s) ==
    LET upTo[i \in 0..Len(s)] == IF i = 0 THEN <<>> ELSE upTo[i - 1] \o Piece(n, s, i)
    IN  upTo

\* What the report is to be.
Whole == Pieces(gen, size)[Len(size)]

----------------------------------------------------------------------------
(* Enabling.  The lock around enforceOne is a local variable of the call,  *)
(* so that the test and the assignment are two steps.                      *)

EnableTests(t) ==
    /\ t \in Enablers /\ At(t, "app") /\ ~enforceOne
    /\ Go(t, "claim")
    /\ UNCHANGED <<launches, process, live, todo, suspended, enabling, exception, report, status, fileVars>>

EnableClaims(t) ==
    /\ At(t, "claim")
    /\ enforceOne' = TRUE
    /\ Go(t, "prepare")
    /\ UNCHANGED <<launches, process, live, todo, suspended, enabled, handlers, uncaught, writer,
                   exception, report, status, fileVars>>

\* Any failure returns NO, and enforceOne stays.
EnableFails(t) ==
    /\ CallsFail
    /\ At(t, "prepare") \/ At(t, "register")
    /\ Go(t, "app")
    /\ handlers' \in {handlers} \cup IF at[t] = "register" THEN {"set"} ELSE {}
    /\ UNCHANGED <<launches, process, live, todo, suspended, enforceOne, enabled, uncaught, writer,
                   exception, report, status, fileVars>>

\* Directories, allocator, path, loader; plcrash_log_writer_init begins with memset.
Prepare(t) ==
    /\ At(t, "prepare")
    /\ writer' = "zeroed" /\ exception' = "none"
    /\ Go(t, "fill")
    /\ UNCHANGED <<launches, process, live, todo, suspended, enforceOne, enabled, handlers, uncaught,
                   report, status, fileVars>>

\* Its result is not looked at: the writer may stay incomplete.
FillWriter(t) ==
    /\ At(t, "fill")
    /\ writer' \in {"ready"} \cup IF CallsFail THEN {"zeroed"} ELSE {}
    /\ Go(t, "register")
    /\ UNCHANGED <<launches, process, live, todo, suspended, enforceOne, enabled, handlers, uncaught,
                   exception, report, status, fileVars>>

Register(t) ==
    /\ At(t, "register")
    /\ handlers' = "set"
    /\ Go(t, "hook")
    /\ UNCHANGED <<launches, process, live, todo, suspended, enforceOne, enabled, uncaught, writer,
                   exception, report, status, fileVars>>

\* NSSetUncaughtExceptionHandler and _enabled.
Hook(t) ==
    /\ At(t, "hook")
    /\ uncaught' = TRUE
    /\ enabled' = [enabled EXCEPT ![t] = TRUE]
    /\ Go(t, "app")
    /\ UNCHANGED <<launches, process, live, todo, suspended, enforceOne, handlers, writer,
                   exception, report, status, fileVars>>

----------------------------------------------------------------------------
(* Crashes.                                                                *)

HeapIsFree == \A t \in Threads : at[t] \notin {"malloc", "stuck"}

Malloc(t) ==
    /\ At(t, "app") /\ HeapIsFree
    /\ Go(t, "malloc")
    /\ UNCHANGED <<launches, process, live, todo, suspended, enabling, exception, report, status, fileVars>>

MallocReturns(t) ==
    /\ At(t, "malloc")
    /\ Go(t, "app")
    /\ UNCHANGED <<launches, process, live, todo, suspended, enabling, exception, report, status, fileVars>>

\* uncaught_exception_handler notes the exception, flag first, and aborts.  A
\* second one fails an assertion, which is an abort too.
Throw(t) ==
    /\ At(t, "app")
    /\ IF uncaught /\ exception = "none"
       THEN exception' = "flagged" /\ Go(t, "note")
       ELSE UNCHANGED exception /\ Go(t, "fault")
    /\ UNCHANGED <<launches, process, live, todo, suspended, enabling, report, status, fileVars>>

NoteException(t) ==
    /\ At(t, "note") /\ HeapIsFree
    /\ exception' = "set"
    /\ Go(t, "fault")
    /\ UNCHANGED <<launches, process, live, todo, suspended, enabling, report, status, fileVars>>

\* The process ends: by a signal that nobody handles, or by a fault in the
\* handler, which has reset all signals.
Dies == process' = "off" /\ Fresh

Unhandled(t) ==
    /\ Runs(t) /\ at[t] \in {"app", "malloc", "fault"}
    /\ handlers # "set"
    /\ Dies
    /\ UNCHANGED <<launches, report, fileVars>>

HandlerPlaces == {"log", "open", "list", "suspend", "write", "resume", "flush", "close", "exit"}
Handling(t) == at[t] \in HandlerPlaces /\ ~live[t]

\* The callback starts with NSLog, which takes the heap's lock.
Crash(t) ==
    /\ Runs(t) /\ at[t] \in {"app", "malloc", "fault"}
    /\ \A u \in Threads : ~Handling(u)
    /\ handlers = "set"
    /\ Go(t, IF at[t] = "malloc" THEN "stuck" ELSE "log")
    /\ UNCHANGED <<launches, process, live, todo, suspended, enabling, exception, report, status, fileVars>>

\* SIG_DFL for all monitored signals.
ResetHandlers(t) ==
    /\ At(t, "log") /\ HeapIsFree
    /\ handlers' = "reset"
    /\ Go(t, "open")
    /\ UNCHANGED <<launches, process, live, todo, suspended, enforceOne, enabled, uncaught, writer,
                   exception, report, status, fileVars>>

OpenReport(t) ==
    /\ At(t, "open")
    /\ exists' = TRUE /\ gen' = gen + 1 /\ size' \in Sizes /\ next' = 1
    /\ FileReset
    /\ Go(t, "list")
    /\ UNCHANGED <<launches, process, live, todo, suspended, enabling, exception, status>>

Returns(t, result) == status' = result /\ Go(t, "exit")

OpenFails(t) ==
    /\ CallsFail /\ At(t, "open")
    /\ Returns(t, "error")
    /\ UNCHANGED <<launches, process, live, todo, suspended, enabling, exception, report, fileVars>>

----------------------------------------------------------------------------
(* plcrash_log_writer_write, for a crash and for a live report.            *)

\* Mutant: the live report is written to the path of the crash report.
LiveReport_CrashPath(t) ==
    /\ At(t, "app")
    /\ FileReset
    /\ live' = [live EXCEPT ![t] = TRUE]
    /\ todo' = [todo EXCEPT ![t] = Threads \ {t}]
    /\ Go(t, "suspend")
    /\ UNCHANGED <<launches, process, suspended, enabling, exception, report, status>>

\* The live report goes to a temporary file of its own.
LiveReport(t) ==
    /\ At(t, "app")
    /\ live' = [live EXCEPT ![t] = TRUE]
    /\ todo' = [todo EXCEPT ![t] = Threads \ {t}]
    /\ Go(t, "suspend")
    /\ UNCHANGED <<launches, process, suspended, enabling, exception, report, status, fileVars>>

\* The image list; the threads.  A broken writer has no allocator to list with.
ListThreads(t) ==
    /\ At(t, "list")
    /\ IF writer = "ready"
       THEN /\ todo' = [todo EXCEPT ![t] = Threads \ {t}]
            /\ Go(t, "suspend")
            /\ UNCHANGED <<process, live, suspended, enabling, exception, status>>
       ELSE Dies
    /\ UNCHANGED <<launches, report, fileVars>>

\* Mutant: the last thread of the list is not suspended.
Suspend_Skips(t) ==
    /\ At(t, "suspend")
    /\ IF Cardinality(todo[t]) <= 1
       THEN Go(t, "write") /\ UNCHANGED <<todo, suspended>>
       ELSE \E u \in todo[t] :
              /\ suspended' = [suspended EXCEPT ![u] = @ + 1]
              /\ todo' = [todo EXCEPT ![t] = @ \ {u}]
              /\ UNCHANGED at
    /\ UNCHANGED <<launches, process, live, enabling, exception, report, status, fileVars>>

Suspend(t) ==
    /\ At(t, "suspend")
    /\ IF todo[t] = {}
       THEN Go(t, "write") /\ UNCHANGED <<todo, suspended>>
       ELSE \E u \in todo[t] :
              /\ suspended' = [suspended EXCEPT ![u] = @ + 1]
              /\ todo' = [todo EXCEPT ![t] = @ \ {u}]
              /\ UNCHANGED at
    /\ UNCHANGED <<launches, process, live, enabling, exception, report, status, fileVars>>

\* The last message but the signal's is the exception's, if there is one: it needs
\* its name and reason.
Faults == next = Len(size) /\ exception = "flagged"

WriteFaults(t) ==
    /\ At(t, "write") /\ ~live[t] /\ Faults
    /\ Dies
    /\ UNCHANGED <<launches, report, fileVars>>

\* Mutant: the last piece is left out.
WritePiece_StopsEarly(t) ==
    /\ At(t, "write") /\ ~live[t] /\ ~Faults /\ next < Len(size)
    /\ FileWrite(Piece(gen, size, next))
    /\ next' = IF next = Len(size) - 1 THEN next + 2 ELSE next + 1
    /\ UNCHANGED <<launches, process, at, live, todo, suspended, enabling, exception,
                   exists, gen, size, status>>

WritePiece(t) ==
    /\ At(t, "write") /\ ~live[t] /\ ~Faults /\ next <= Len(size)
    /\ FileWrite(Piece(gen, size, next))
    /\ next' = next + 1
    /\ UNCHANGED <<launches, process, at, live, todo, suspended, enabling, exception,
                   exists, gen, size, status>>

WriteDone(t) ==
    /\ At(t, "write") /\ (live[t] \/ next > Len(size))
    /\ todo' = [todo EXCEPT ![t] = Threads \ {t}]
    /\ Go(t, "resume")
    /\ UNCHANGED <<launches, process, live, suspended, enabling, exception, report, status, fileVars>>

Resume(t) ==
    /\ At(t, "resume")
    /\ IF todo[t] = {}
       THEN /\ Go(t, IF live[t] THEN "app" ELSE "flush")
            /\ live' = [live EXCEPT ![t] = FALSE]
            /\ UNCHANGED <<todo, suspended>>
       ELSE \E u \in todo[t] :
              /\ suspended' = [suspended EXCEPT ![u] = @ - 1]
              /\ todo' = [todo EXCEPT ![t] = @ \ {u}]
              /\ UNCHANGED <<at, live>>
    /\ UNCHANGED <<launches, process, enabling, exception, report, status, fileVars>>

\* plcrash_async_file_flush, plcrash_async_file_close.
FlushReport(t) ==
    /\ At(t, "flush")
    /\ \/ FlushSucceeds /\ Returns(t, "success")
       \/ FlushFails /\ Go(t, "close") /\ UNCHANGED status
    /\ UNCHANGED <<launches, process, live, todo, suspended, enabling, exception, report>>

\* After a failed flush, closing flushes again.
CloseReport(t) ==
    /\ At(t, "close")
    /\ FlushSucceeds \/ FlushFails
    /\ Returns(t, "error")
    /\ UNCHANGED <<launches, process, live, todo, suspended, enabling, exception, report>>

\* Mutant: the signal is not raised again.
Exit_Returns(t) ==
    /\ At(t, "exit")
    /\ Go(t, "app")
    /\ UNCHANGED <<launches, process, live, todo, suspended, enabling, exception, report, status, fileVars>>

\* The signal is raised again, with nobody to handle it.
Exit(t) ==
    /\ At(t, "exit")
    /\ Dies
    /\ UNCHANGED <<launches, report, fileVars>>

----------------------------------------------------------------------------
(* The user, and the next launch.                                          *)

Kill ==
    /\ process = "running"
    /\ Dies
    /\ UNCHANGED <<launches, report, fileVars>>

Launch ==
    /\ process = "off" /\ launches < MaxLaunches
    /\ process' = "running" /\ launches' = launches + 1
    /\ UNCHANGED <<at, live, todo, suspended, enabling, exception, report, status, fileVars>>

\* purgePendingCrashReport, by an app that has seen the report.
Purge(t) ==
    /\ At(t, "app") /\ exists
    /\ exists' = FALSE
    /\ UNCHANGED <<launches, process, at, live, todo, suspended, enabling, exception,
                   gen, size, next, status, fileVars>>

EnableStep(t) ==
    EnableClaims(t) \/ EnableFails(t) \/ Prepare(t) \/ FillWriter(t) \/ Register(t) \/ Hook(t)

WriterStep(t) ==
    \/ ListThreads(t) \/ Suspend(t) \/ WriteFaults(t) \/ WritePiece(t) \/ WriteDone(t) \/ Resume(t)

HandlerStep(t) ==
    \/ ResetHandlers(t) \/ OpenReport(t) \/ OpenFails(t)
    \/ WriterStep(t) \/ FlushReport(t) \/ CloseReport(t) \/ Exit(t)

AppStep(t) ==
    \/ EnableTests(t) \/ Malloc(t) \/ MallocReturns(t) \/ Throw(t) \/ NoteException(t)
    \/ Unhandled(t) \/ Crash(t) \/ LiveReport(t) \/ Purge(t)

Next == Launch \/ Kill \/ \E t \in Threads : EnableStep(t) \/ HandlerStep(t) \/ AppStep(t)

Spec == Init /\ [][Next]_vars

\* A thread in the handler or in a live report is scheduled whenever it is not
\* suspended for good, and a call of malloc returns.
FairSpec ==
    Spec /\ \A t \in Threads : SF_vars(HandlerStep(t)) /\ SF_vars(MallocReturns(t))

----------------------------------------------------------------------------
Places == {"app", "malloc", "stuck", "claim", "prepare", "fill", "register", "hook", "note",
           "fault", "log", "open", "list", "suspend", "write", "resume", "flush", "close", "exit"}

\* What the file is made of: <<report, piece, position in the piece>>.
Byte == Nat \X Nat \X Nat

\* The state has its type.
TypeOK ==
    /\ launches \in Nat /\ process \in {"off", "running"}
    /\ at \in [Threads -> Places] /\ live \in [Threads -> BOOLEAN]
    /\ todo \in [Threads -> SUBSET Threads] /\ suspended \in [Threads -> Nat]
    /\ enforceOne \in BOOLEAN /\ enabled \in [Threads -> BOOLEAN] /\ uncaught \in BOOLEAN
    /\ handlers \in {"none", "set", "reset"} /\ writer \in {"none", "zeroed", "ready"}
    /\ exception \in {"none", "flagged", "set"} /\ status \in {"none", "success", "error"}
    /\ exists \in BOOLEAN /\ gen \in Nat /\ size \in Seq(Nat) /\ next \in Nat \ {0}
    /\ buffer \in Seq(Byte) /\ disk \in Seq(Byte) /\ accepted \in Seq(Byte)
    /\ totalBytes \in Nat /\ dropped \in BOOLEAN /\ failed \in BOOLEAN

Box == IF ~exists THEN "empty" ELSE IF disk = Whole THEN "whole" ELSE "torn"
B == INSTANCE ReportBox WITH number <- gen, box <- Box

\* However launches, crashes, kills and failures fall, the pending report changes
\* like a box of one report: it becomes whole once, and nothing but the next
\* report or the app's purge touches it then.
ImplementsReportBox == B!Spec

\* A report that plcrash_write_report calls a success is whole (PLCrashReporter.m:146),
\* unless a piece of it was over the limit or the disk failed: the log writer
\* looks at neither.
UndisturbedSuccessIsWhole ==
    status = "success" => disk = Whole \/ dropped \/ failed

\* Is t at it, having suspended u and not resumed it?
Holds(t, u) ==
    \/ at[t] = "suspend" /\ u \notin todo[t]
    \/ at[t] = "write"
    \/ at[t] = "resume" /\ u \in todo[t]

Suspenders(u) == {t \in Threads \ {u} : Holds(t, u)}

\* The counts of suspensions are those of the writers that are at it: nobody is
\* resumed too early, and nobody is left suspended.
SuspendCountsMatch == \A u \in Threads : suspended[u] = Cardinality(Suspenders(u))

\* Two writers may suspend each other's threads, never each other.
SomeoneRuns == process = "running" => \E t \in Threads : suspended[t] = 0

\* While a report is written nobody else runs: the pieces come from one state.
WritingIsExclusive ==
    \A t \in Threads : At(t, "write") => \A u \in Threads \ {t} : ~Runs(u)

\* Writers that suspend each other's threads keep count of it, and get the
\* process for themselves without stopping it.
SuspensionIsSound == TypeOK /\ SuspendCountsMatch /\ SomeoneRuns /\ WritingIsExclusive

\* The handler comes to an end when it can write to its log.
HandlerEnds == \A t \in Threads : at[t] = "open" ~> process = "off"
=============================================================================
