# Verification of iOSTest in TLA+

This directory holds TLA+ models of the parts of this repository that have concurrent,
crash-time or failure logic of their own, the TLC configurations that check them on small
instances, and TLAPS proofs of the theorems about twelve of them. Paths below are relative to
the repository's root; `PLC/` abbreviates `WatchDogTimeOutTest/Source/`.

To check a module: `tlc -config MCCloudRWLock.cfg MCCloudRWLock`; to check the proofs:
`tlapm CloudCacheProofs.tla`, and likewise for the other `…Proofs` modules.

## 1. The system

The repository is a collection of some 45 small iOS apps. Nearly all are one screen that
tries out one API. Two places have logic of their own:

* **GeneralTest** and **AlbumTest** contain parts of a cloud-storage client: a spin lock
  (`CloudRWLock`), an LRU cache on top of it (`CloudLRUCache`), and file handles.
* **WatchDogTimeOutTest** embeds PLCrashReporter, which writes a crash report from inside the
  crashed process. It is by far the largest and the most delicate part: its code runs in
  signal handlers and on an exception-server thread while all other threads are at arbitrary
  points, without locks and without `malloc`.

### Components

| Component (source) | State | Operations | Talks to | Status |
|---|---|---|---|---|
| Readers-writer spin lock (`GeneralTest/test/CloudRWLock.m`) | one `int`: readers, plus 10000 for a writer | lock, try-lock and unlock for reading and writing | – | modelled, **proved** |
| LRU cache (`GeneralTest/test/CloudLRUCache.m`) | dictionary of entries, capacity, burst, TTL | insert, look up, remove, clear, change settings, evict | CloudRWLock | modelled, **proved** |
| Lockless-read list (`PLC/PLCrashAsyncLinkedList.hpp`) | nodes with `_prev`/`_next`, head, tail, free list, reader count | prepend, append, remove by value or node, iterate, `resetHandlers`' loop | spin lock | modelled, **proved** |
| Crash-time allocator (`PLC/AsyncAllocator.cpp`) | circular free list inside the blocks, pools, lock | create, alloc, dealloc, grow | page allocator, spin lock | modelled, without destruction and with one unit of size, **proved** |
| Signal handler (`PLC/PLCrashSignalHandler.mm`) | dispositions, chain of callbacks, saved previous actions, registration mutex | register, deliver, forward, pass through, re-raise | both lists, lifecycle | modelled, without the reset that tests use; **partly proved** |
| Mach exception server (`PLC/PLCrashMachExceptionServer.m`) | ports, port set, shared context with lock, condition and stop flags, server thread | create, register, receive, forward, reply, release | lifecycle, kernel | modelled, without message contents; **partly proved** |
| Reporter lifecycle (`PLC/PLCrashReporter.m`) | report file, enabled flags, callbacks, handler context | enable, crash callbacks, pending report, live report, purge | signal handler, exception server, log writer | modelled, without directories and loading; **partly proved** |
| Log writer (`PLC/PLCrashLogWriter.m`, `…Encoding.c`) | process, system and exception data | init, set exception, suspend, two-pass write, resume | images, symbolication, unwinding, file | suspension, order of pieces and the passes over threads are modelled; fields are not |
| Async-safe basics (`PLC/PLCrashAsync.c`, `…MObject.c`) | buffered file with a limit, memory mappings | write, flush, close; map, bounds-checked reads | log writer, readers of images | the file is modelled, **proved** |
| References (`PLC/shared_ptr.hpp`, `weak_ptr.hpp`, …) | strong and weak counts | retain, release, upgrade | allocator | not modelled |
| Images (`PLC/DynamicLoader.cpp`, `PLCrashAsyncMachOImage.c`) | image list, load commands, symbol table | read list, find command, map, find symbol | MObject | the symbol search is modelled |
| Frame walking (`PLC/PLCrashFrameWalker.c` and its three readers) | cursor with the current and the previous frame | next, with fallback from reader to reader | compact unwind, DWARF, images | modelled, **proved** |
| Compact unwind (`PLC/PLCrashAsyncCompactUnwindEncoding.c`) | none | find PC, decode entry, apply | MObject | modelled, without the layout of the table's two levels; **proved** |
| DWARF (`PLC/PLCrashAsyncDwarf*.cpp`, `dwarf_*`) | operand stack; register table with its stack and free list | evaluate expressions and CFA programs | MObject | CFA rows and programs are modelled, the rows **proved**; expressions and records are not |
| Symbolication (`PLC/PLCrashAsyncObjCSection.mm`, `…Symbolication.c`) | class cache, mapped sections | look up a PC | images | modelled, **proved** |
| Report decoding (`PLC/PLCrashReport.m`, `…TextFormatter.m`) | the decoded report | decode, format | – | not modelled: field-by-field conversion |
| Thread state, host, process, signal tables | – | conversions | kernel | not modelled: tables and system calls |
| File handles (`AlbumTest/AlbumTest/Cloud*FileHandle.m`) | offset, asset, semaphore | open, seek, read, digest | assets library (callback) | reading is modelled, **proved**; writing is not |
| Run loop monitor (`SlowDetectTest/…/AFWRunLoopMonitor.m`) | static times, pause flag | start, stop, pause | run loop observer | not modelled: one thread, elapsed time only |
| Drawing demos, crash demos, other screens | little | gestures, buttons | UIKit | not modelled: no rules to check |
| Third-party code (protobuf-c, Catch, google-toolbox, Pods) | – | – | – | not modelled |

### How they interact

`CloudLRUCache` reaches its dictionary only under `CloudRWLock`, but reads its settings, and
the count it decides an eviction by, without it. `PLCrashReporter` registers one callback with
the signal handler for each fatal signal, or with the exception server; both run
`plcrash_write_report`, which truncates the report, lets the log writer suspend all other
threads, walk all stacks and resume them, and then flushes the file. The signal handler keeps
its callbacks and the previous handlers in two lockless-read lists, since a signal can come
at any point of a registration. The log writer's images live in the crash-time allocator. For every thread
the writer walks the stack twice with the frame walker, which asks the compact unwind table, the
DWARF rows and the frame pointer in turn, and looks up each address in the symbol table and
in the Objective-C metadata. AlbumTest's screen computes digests of assets with a file handle each.

### What is hard here, and what must hold

* **Loads and swaps interleave.** Every `CloudRWLock` method loads the count, decides, and
  swaps. Nothing may be lost, a writer is alone, and a writer that has claimed gets in.
* **Decisions on unlocked state.** An eviction decides on a count that others change. The cache
  must end within its burst limit, evict the oldest, and never ask for entries it does not have.
* **Readers nobody can stop.** A crash-time reader walks a list while a writer is in the middle of a
  change. It must not follow freed memory, must terminate, and should see what it was promised.
* **Free-list surgery.** Splitting and coalescing decide whether memory is handed out twice or lost.
* **Signals during signals and registrations.** Forwarding must not recurse for ever, a previous
  handler must not run twice, a signal must come to an end, and a crash must leave a report.
* **A server and an owner that frees what the server uses.** The stop handshake must neither free too
  early nor hang, and every exception must be answered.

* **Writing a report from a dying process.** The report is truncated first, the disk may fail, the buffer
  and the limit cut pieces anywhere, and the user may kill the app. The next launch must be able to trust a success.
* **Suspending threads by count.** Crash and live reports overlap; the counts must match, and somebody must run.
* **Following a stack and tables that may be wrong.** The walk must end, must not take a callee's register for the
  caller's, and must attribute each address to the right function.
* **Tables in a fixed pool.** The register rows of all levels share hash entries; chains must not run into each other
  or into the free list.
* **Answers that come by callback.** Readers wait for the asset; none must see it half given, or sleep for ever.

`PROJECT.json` lists each hazard with its line and the properties that would catch it.

## 2. Modules

| Module | Models | Built on |
|---|---|---|
| `RWLock` | what a readers-writer lock promises | – |
| `CloudRWLock` | the lock, one step per load and per swap | refines `RWLock` |
| `CloudLRUCache` | the cache, on the abstract lock | `RWLock` |
| `AsyncList` | the list and its readers | – |
| `AsyncAllocator` | the allocator | – |
| `SignalHandler` | registration, delivery, the reporter's signal callback | an insertion into an `AsyncList` is one step |
| `MachExceptionServer` | the exception server, its owner, the reporter's exception callback | – |
| `AsyncFile` | the buffered output file with its limit | – |
| `ReportBox` | what the pending report promises | – |
| `CrashReporter` | the reporter over launches, with the log writer's control | `AsyncFile`; refines `ReportBox` |
| `SymbolLookup` | symbol table, Objective-C metadata and cache, the two passes over a thread | – |
| `RegisterRows` | a stack of rows of register rules | – |
| `DwarfCFA` | register rows in a pool of hash entries, CFA programs, application of a row | refines `RegisterRows` |
| `CompactUnwind` | search, permutation and entries of compact unwind information, as operators | – |
| `FrameWalker` | the cursor and its three readers, over stacks of calls | `CompactUnwind` |
| `CloudFileHandle` | file handles, the library's callback, waiting readers, the digest loop | – |
| `CloudCacheProofs` | theorems about `CloudRWLock` (`Spec`) and `CloudLRUCache` (`CacheSpec`), which share no name | both, `TLAPS` |
| `…Proofs` | theorems about `AsyncList`, `AsyncAllocator`, `CrashReporter` (with `AsyncFile`), `DwarfCFA`, `CloudFileHandle` | the module of that name, `TLAPS` |
| `CrashHandlerProofs` | theorems about `SignalHandler` (`Spec`) and `MachExceptionServer` (`ServerSpec`), which share no name | both, `TLAPS` |
| `BacktraceProofs` | theorems about `FrameWalker` (`WalkSpec`), `CompactUnwind`'s operators and `SymbolLookup` (`Spec`), which share no name | all three, `TLAPS` |
| `MC…` | the instances that TLC checks | the module of that name |

Each `MC` module gives the constants their values together with the `.cfg` files of the same
prefix. Operators with a suffix, such as `Swap_PlainStore`, are *mutants*: variants of the operator of
that name with a bug that one would plausibly write. They are not part of any specification; they document which
bug a property guards against (`PROJECT.json`, "mutants": replacing the operator by the mutant makes the
property fail).

### CloudRWLock and RWLock

`lockCount` is `_lockCount`; `call`, `pc`, `lCount` and `tryCount` are a thread's place and locals in a
method; `holds` is what a completed call granted, which is what the users of the lock rely on.
`Load` is the first statement of every round. `TryLockRead`, `UnLockRead`, `ClaimWrite`, `TryLockWrite` and
`UnLockWrite` are the test and the compare-and-swap of the methods, `DrainReaders` is the loop with which `lockWrite`
waits for readers. `OSAtomicCompareAndSwapInt` is one step. Clients use the lock legally:
they unlock what they hold and do not lock twice.

`RWLock` has one variable, `holds`, and two actions, grant and release. `ImplementsRWLock` states the refinement with
the mapping that is the identity on `holds`.

### CloudLRUCache

The methods of the cache, with the abstract lock of `RWLock` (`granted`). A section under the lock that only touches guarded
state is one step with the grant; what happens outside the lock (`ReadSettings`, `TestCount`, the age test, the two
reads of `_capacity`) is a step each. `clock` is `time(NULL)`, which may be set back. `crashed` is the `NSRangeException`
that a range beyond the array raises, after which the app is gone. `disturbed` is a history variable: another thread shrank the dictionary
or changed the capacity while this one decided on an eviction.

### AsyncList

`node[n]` holds `_value`, `_prev` and `_next` of address `n`; `allocated` is the heap. A reader's step is a load of one link;
a writer's step is a store that readers could see, with the stores that only the lock's holder sees around it. Removed
nodes are deleted when no reader is in the list and go to the free list otherwise, as in the code. `unseen` and `lost`
are history variables about what a reader should have come by.
`Chain(n)`, the nodes from `n` on, is the least set that is closed under `_next`: a form that one can reason about without recursion.

### AsyncAllocator

The unit of memory is one control block. `ring` is the circular free list from `_free_list` on, `size` the `_size` of each control block,
`pools` the usable space between guard pages. The lock covers whole walks, so `Search` and `Insert` are one step each, and `Inside` are the threads between `_lock.lock()` and the end of their walk. `Grow` gives its block
to the list with the lock released (`Relock` takes it again). When `vm_allocate` fails, `grow` releases the lock and `alloc` does so once more (`UnlockAgain`): that may be the lock of a thread which walks the list, and lets another one in.
In two cases nothing more can be known of the list, and the model stops: when two blocks overlap, for a client then overwrites control blocks (`Corrupt`), and when two threads are inside, for their walks then interleave load by load (`~Exclusive`). `Size` counts the units of a set of blocks, which is the sum of their sizes in a form that one can reason about without recursion.
`stacked` is a history variable: nobody has used the allocator otherwise than as a stack.

### SignalHandler

A registering thread takes the mutex, appends the pass-through callback, calls `sigaction`, saves the previous action, and prepends its
callback. A signal (`Deliver`) interrupts its thread wherever that is, within the handler of another signal too, since `sa_mask` is empty (`PLCrashSignalHandler.mm:364`); only the handler's own signal is blocked. `frames[t]` is the stack of callbacks
that `internal_callback_iterator` has called, `phase[t]` what the innermost one does; `interrupted[t]` are the handlers on t that another one interrupted (`Enter`, `Leave`). A signal whose action is the default, as after the reporter's reset, ends the process, in the middle of a report too. The reporter's callback resets all monitored signals, opens and truncates
the report, suspends the other threads, resumes them, flushes. `sigaltstack`, `sigaction` and `open` may fail. Failed registrations
return without unlocking, as in the code. `opener` and `unopened` are history variables: a report that two handlers write is `"mixed"`.

### MachExceptionServer

The owner creates ports, inserts the send right, adds to the port set, spawns the thread, registers with the task, and saves the previous ports; each
step but the last may fail and leads into `-dealloc`. `-dealloc` sets the flag, sends the message, and waits on the condition with the lock given
up and taken again (`OwnerSleeps`, `OwnerLocks`, and `WakeUp` for no reason). The server receives from either port of its set, in any order between the two, forwards,
maps the exception to a signal, writes the report and replies. A positive reply resumes the thread, which may fault again; a negative one
ends the process. The kernel's delivery (`Fault`) is external to the repository.

### AsyncFile, CrashReporter and ReportBox

`AsyncFile` is `plcrash_async_file_t`: `buffer` up to `buflen`, `totalBytes`, `disk` what `write(2)` has taken. A write that would exceed the limit is
refused uncounted, one that does not fit into the buffer writes the buffer first, and a large one is written itself. `write(2)` may fail after a part of the data.
`accepted`, `dropped` and `failed` are history variables.

`CrashReporter` runs the app over launches. A thread enables the reporter (`EnableTests` and `EnableClaims` are two steps, since the lock around `enforceOne` is a
local variable of the call), allocates (`Malloc`), throws, crashes, writes a live report, or purges the pending one; the user may kill the app. The handler logs (which takes the heap's lock, so that a crash
inside `malloc` is `"stuck"`), resets the signals, opens the report, lists and suspends the threads one by one, writes the pieces of the report (`size` holds their lengths; one of them is not empty, for a report starts with its magic number), resumes, flushes and raises the signal
again. The log writer ignores what its writes return, as in the code. The threads' `suspended` counts are the kernel's. `Dies` is the end of the process; what stays is the file. Only the BSD handler is modelled here, with one thread in
it at a time; `SignalHandler` has two.

`ReportBox` has two variables, the number of reports begun and what the box holds: nothing, a torn report or a whole one. The refinement says "whole" where the disk
has all pieces of the current report, one after the other (`Pieces`, `Whole`).

### SymbolLookup

`cache` is the `plcrash_async_objc_cache_t` of a report: which image's sections are mapped, whether Objective-C 2 was seen, and the class cache, in which the first class of a slot stays. `ParseClass`, `ClassEntry`, `CategoryEntry` and
`ParseDataSection` follow the parser with its errors, `FindMethod` its two runs (choose, call back), `BestSymbol` the symbol table; the two loops, over entries of the metadata (`ParseEntries`) and over symbols (`BestSymbols`), are functions from the number of entries to the result so far. A step of the model is one frame of a thread: its message is computed without a file and then written (`FrameMessage` twice, each with up to two
lookups). The first pass over the frames only sums sizes; the second writes. Addresses stand for names, and their values for the lengths of names.

`ImageAssumption` is what dyld, the compiler and the Objective-C runtime guarantee of images: they do not overlap; a class has one metaclass, which is in no class list; and of two symbols at one address both or neither are Thumb code.

### DwarfCFA and RegisterRows

`regnum`, `rule`, `next`, `free` and `table` are the entries, the free list and the per-level hash table; `depth` is `_table_depth`. Each opcode is a step; the loop of `remove_register` is a step per round (`RemoveStep`), and so is each step of the iterator
that saves the initial row or applies the last one. The entries' `regnum` is uninitialized memory at first (`Stale`), as it is on the stack of `plframe_cursor_read_dwarf_unwind_int`. Operands, and thus the advance of the location, are a choice.

`RegisterRows` is a stack of functions from registers to rules. The refinement maps each level's chains to such a function. `Remember` pushes an *empty* row, as the code does; the DWARF standard would push a copy.

### CompactUnwind and FrameWalker

`CompactUnwind` has no state: `Turn` is one turn of the macro's binary search with its unsigned indices, `Search` as many turns as the table has entries and one, `Encode` and `Decode` the permutation of saved registers, `EntryInit` and `Apply` the entries of x86-64 and the frameless one of ARM64.

`FrameWalker` begins with a chain of calls and the stack it leaves in memory (`Layout`, external to the repository: it is what compilers and linkers do; what they promise of a chain is `IsChain`). The cursor's first step gives the thread's own frame, each later one the first frame that
`Compact`, `Dwarf` or `FramePtr` finds. A register that is not in the domain of `regs` is not known. In some chains one word of the stack may have been overwritten.

### CloudFileHandle

`asset`, `lock`, `sema`, `error` and `offset` are the handle's. The library's block runs statement by statement (`GiveAsset`, `ClearLock`, `StoreError`, `Signal`) against readers that test `lock` and then wait on the semaphore
(`WaitForAsset`, `Wake`). A read is one step with one of its endings: no error and data, nothing left, no memory, a failure. `DigestLoop` is the test after each block of `calculateMD5:andSHA:`. A digest is the sequence of bytes it was fed.

## 3. What the runs show

A run's properties are one sentence each. Where several belong together they are parts of one named conjunction: `LockIsSound`, for one, has `TypeOK`,
`MutualExclusion`, `CountMatchesHolders` and `UnlockSeesItsHold`.

| Run | Instance | Shows |
|---|---|---|
| `rwlock` | 3 threads, WRITE = 2, 2 tries; 126 thousand states | A writer is alone; the count is exact; unlock finds what it takes; no reader enters after a claim; refinement of `RWLock`; a writer that has claimed gets in |
| `lru` | 2 threads, 3 keys, capacity 1 or 2, burst 1, TTL 1, a clock of 3 values; 1.7 million states | Within the burst limit whenever nobody is inside; victims are the oldest; an eviction raises only when disturbed |
| `list` | 1 reader, 2 writers, 2 addresses, 2 values, all operations; 267 thousand states | No use after free, no cycles, links consistent, list and free list disjoint, and a reader misses nothing unless the node under it is removed |
| `allocator` | 2 threads, sizes 1 and 2, a first pool of 5 units and one to grow by; 139 thousand states | Blocks stay in their pools; stack-like use is safe and loses nothing; overlapping blocks, lost memory and overlapping walks come about in one way each |
| `signal_handler` | 2 threads, 2 signals, one reporter and one forwarder; 257 thousand states | No forwarding to itself; a previous handler runs once; the mutex stays locked only after a failure; a process that ends by its only signal leaves a whole report; signals end |
| `mach_server` | 3 threads, one with `EXC_GUARD`; 3 thousand states | The context outlives the server; a crash that maps to a signal is reported; exceptions are answered; `-dealloc` returns |
| `report` | 2 threads, 2 launches, a buffer of 2 and a limit of 7 bytes, reports of 3 and of 9 bytes; 173 thousand states | While the disk works nothing accepted is lost and the limit is kept; a success is whole unless something was dropped or failed; suspensions match, somebody runs, and writing is exclusive; the pending report is a box of one report; a handler that has logged ends the process |
| `symbols` | 3 images, 8 classes, a cache of 3 slots, stacks of up to 3 frames; 35 thousand states | What is mapped is the noted image's; the cache changes no answer; announced and written sizes agree; the name is that of the nearest symbol or method, unless the image ends with an unrealized entry |
| `dwarf` | 3 registers in 2 buckets, a pool of 3, 2 levels, 4 opcodes; 496 thousand states | Chains are sound and apart from the free list; the initial row is complete; a removed register is gone; a frame has all its registers; refinement of `RegisterRows` |
| `dwarf_remove` | 2 registers in one bucket, 6 opcodes | *Violated*: the evaluation may not end |
| `unwind` | chains of up to 3 calls, all orders of saved registers, 5 damaged values; 14 thousand states | Frames are those of callers, with the registers they had; no call is missed where there is information; a corrupt stack cannot lead back; the search finds the function in every table but the empty one |
| `asset` | 1 or 2 users, files of 0, 2 and 3 bytes in blocks of 2; 740 thousand states | A digest is of the whole file; it is refused wrongly only at a block boundary; readers see the answer; a sleeper goes on unless overtaken |

### Where the code departs from what it says

The run `dwarf_remove` checks a doc comment against what the code does (`PROJECT.json`, "findings"):

1. `PLCrashAsyncDwarfCFAState.cpp:215`: `remove_register` follows `next` of the entry it has just linked into the free list. If an older entry of the same register is there, it is put on the free list a second time, and the walk goes round. It takes two registers of one bucket that are defined, removed one after the other, and the one removed first defined and removed again (its new entry is then the other's, and its old one is still on the free list).

The following departures were met while modelling. The properties of the passing runs are worded around those that name one, so that the run shows the departure to be the *only* one of its kind:

2. `CloudLRUCache.m:150-170`: an eviction decides on the count before it takes the lock, and then takes a range that a shorter array does not have: after a removal, a clear or a change of the capacity in between, which raises (`OnlyInterferenceRaises`). Another eviction in between leaves exactly the capacity's number of entries, which does not.
3. `PLCrashAsyncLinkedList.hpp:47` promises a consistent view; removal overwrites `_next` of the node a reader stands on with the free list (`UndisturbedViewIsComplete`).
4. `AsyncAllocator.hpp:227` says that the free list is sorted; `dealloc` walks to the first block *beyond* the freed one and inserts behind that. A freed block that ends where the only free block starts absorbs it although that block stays in the list (`AsyncAllocator.cpp:377`), and a search that takes the head of a longer list whole takes it for the only block and empties the list (`:288`). And when `grow` fails, the lock is released twice (`:129`, then `:242` or `:270`), the second time perhaps under another thread's walk: `SpinLock::unlock` does not know whose the lock is (`SpinLock.hpp:77-85`) (`OnlyKnownFaults`, for all three).
5. `AsyncAllocator.cpp:246` asserts that the list is not empty after `grow`, which releases the lock around its `dealloc`: another thread may have taken the block.
6. `PLCrashReporter.m:497` says that all crashes result in a report. `:216` resets the handlers for the whole process while other threads run, so that a second signal, on another thread or on the same one (`PLCrashSignalHandler.mm:364` empties `sa_mask`), ends the process before the report is whole (`LoneCrashIsReported`); and `:960` registers for `EXC_GUARD`, for which no signal is known (`MappedCrashIsReported`).
7. `PLCrashAsync.c:439` says "Once the limit is reached, all data will be dropped"; only the piece that does not fit is, and smaller ones after it are written. `UndisturbedSuccessIsWhole` excludes it by `dropped`: the report is still called a success.
8. `PLCrashReporter.m:500` says "Further invocations will throw"; a second call returns `NO`. The lock around `enforceOne` (`:525`) is a local variable and excludes nobody.
9. `PLCrashAsyncDwarfCFAStateEvaluation.cpp:428`: `DW_CFA_restore_extended` without an initial rule removes register 0 instead of its operand; and a popped level's entries are never given back (`PLCrashAsyncDwarfCFAState.cpp:73`).
10. `CloudLRUCache.m:110`: the age of an entry is its birth minus now, so that the lifetime of `CloudLRUCache.h:25` never ends; an entry expires only when the clock is set back behind its birth. The model keeps the sign (`Expired`).
11. `CloudAssetFileHandle.m:83`: the digest of an asset that is a whole number of blocks is refused; `:71`: when `malloc` fails, the digest of a part of the file is returned as if it were whole; `:140`: of two readers that wait, one sleeps for ever.
12. `PLCrashAsyncObjCSection.mm:957` and `:1007` mean to skip classes that are not realized ("they'll never appear in a live backtrace"). When the last class, or the last category if there is one, is skipped, its `ENOTFOUND` is what the loops leave in `err` and return (`:1016`), though `:912` keeps that value for images without Objective-C 2 data: all methods that were found are given up, and the frame gets the name of the last symbol (`NameIsNearest`, by `EndsUnrealized`).
13. `PLCrashAsyncCompactUnwindEncoding.c:109-145`: the binary search of an empty table starts with `max` at 2^32 - 1 and reads an entry outside it (`SearchFindsFunction`, by `Outside`).
14. `PLCrashSignalHandler.mm:260-273`: `resetHandlers`, which tests call, removes the nodes of a list while it iterates. Removal overwrites the `_next` of the node that the loop stands on, so that it ends after the first one. `AsyncList` has the loop; no property is about this.

### Bounds

* Three threads in `CloudRWLock` give every mix of reader, claiming writer and further writer. WRITE = 2 lets the readers
  reach the writer's flag, a case that 10000 makes rare in practice but possible in the code. The theorems hold for all values.
* Two threads in `CloudLRUCache` suffice for overlapping evictions, and three keys for more than one victim.
* Two addresses in `AsyncList` are enough to recycle the node under a reader. An instance with three addresses was checked once; it takes too long for a regular run.
* The allocator's pools have 5 units, enough for a block between two free ones. An instance with a pool of 6 units and at most four blocks in use was checked once as well.
* Two signals and two threads in `SignalHandler`: same signal on both, different signals, a signal during a registration of either, and one in the handler of the other.
* `CrashReporter` has two threads, enough for a crash beside a live report and for two live reports; only one of them enables. Its reports have pieces that fit the buffer, that overflow it and that are larger than it, and one report exceeds the limit with a small piece after the dropped one. Two launches let a report of the first be overwritten, taken or left in the second.
* `SymbolLookup`: 8 classes on 3 slots, so that most collide; an image without a category list stops the mapping half way; `MaxFrames = 2` cuts the stacks of three.
* `DwarfCFA`: two of three registers share a bucket, and the pool runs out. Four opcodes over both programs are enough to remember, change, restore and remove; the violation needs six, on a smaller instance.
* `FrameWalker`: three calls give every transition from a reader to another; `FrameLimit = 5` lets a frame pointer that leads to itself reach the limit. The search's 32-bit indices wrap at `Word = 8` in the model.
* `CloudFileHandle`: two calls per thread let a digest follow a seek or a failed read; sizes of no block, one block and one and a half.
* Three faulting threads in `MachExceptionServer` give a queue with more than one exception behind the one that is handled. Threads fault again after a positive reply without a bound.

### Fairness

* `CloudRWLock`: weak fairness of every step inside a method (threads are scheduled) and of the unlock (every path of `CloudLRUCache` unlocks). Nobody has to ask for the lock.
  It is enough for a writer that has *claimed*; one that has not may starve, and no property says otherwise.
* `SignalHandler`: weak fairness of a thread's registration and handling. Signals need not come.
* `MachExceptionServer`: weak fairness of the server thread. Strong fairness of the owner's steps, since the report writer suspends it time and again and it runs in between; of the server's `pthread_mutex_lock`, since a
  mutex is granted in the end; and of the receipt of the termination message, since a port set takes its ports in turn. Nobody has to release the server or to fault.
* `CrashReporter`: strong fairness of each thread's steps in the handler or a live report, and of the return from `malloc`: other threads' live reports suspend a thread time and again, and it is scheduled in between. Crashes, kills and launches need not come. `HandlerEnds` begins after the log, where a crash inside `malloc` hangs.
* `DwarfCFA`: weak fairness of the next step, for the evaluation is one loop on one thread.
* `CloudFileHandle`: weak fairness of the library's block, once called, and of the steps of a thread inside a call. Nobody has to make a call.
* The other modules have safety properties only.

Runs that set `CHECK_DEADLOCK FALSE` have states in which the program really ends: an exception, corrupt memory, the end of the process, or every thread waiting for a mutex that a failed registration left locked.

## 4. What is proved

`CloudCacheProofs` proves, about the lock, for every finite set of threads, every WRITE > 0 and every number of tries (`ConstantsAssumption`):

| Theorem | States |
|---|---|
| `TypeCorrect` | `Spec => []TypeOK` |
| `Exclusion` | `Spec => []MutualExclusion` |
| `CountIsExact` | `Spec => []CountMatchesHolders` |
| `UnlocksAreSafe` | `Spec => []UnlockSeesItsHold` |
| `LockSound` | `Spec => []LockIsSound`: the above together |
| `ClaimIsABarrier` | `Spec => ClaimBarsReaders` |
| `Refinement` | `Spec => RW!Spec` |

`MutualExclusion` is not inductive: what keeps a second writer out is the count, and what the count means depends on
who is in which method. The inductive invariant `IInv` therefore adds to the type invariant and `CountMatchesHolders`

* `CallsMatchGrants`: a thread inside a lock method holds nothing, one inside an unlock method holds what it gives back;
* `OneClaim`: at most one thread holds the write lock or waits for readers to leave;
* `WriterSeesNoReader`: when a writer has been let in, no reader is inside;
* `UnlockSeesItsHold`: the copy an unlock method has loaded still contains what the thread holds.

The lemma `CountMeaning` translates values of the count into facts about holders (below WRITE: no claim; zero: nobody; WRITE with a claim: no reader).
`ReaderEnters`, `ReaderLeaves`, `WriterClaims` and `WriterLeaves` treat the four ways the count changes, by cardinalities of
finite sets, and one lemma per action puts them together. `Refinement` follows since every action changes `holds` as one of `RWLock`'s actions does, or not at all.

`CloudCacheProofs` also proves, about the cache, for all threads, keys, capacities and bursts (`LRUAssumption`):

| Theorem | States |
|---|---|
| `BurstLimit` | `CacheSpec => []QuiescentWithinBurst` |
| `EvictsTheOldest` | `CacheSpec => []EvictionIsSound` |
| `UndisturbedNeverRaises` | `CacheSpec => []OnlyInterferenceRaises` |

The burst limit speaks of moments at which nobody is inside, and is broken at nearly every other. `SomeoneShrinks` closes the gap: whenever the cache is over its limit, somebody who added a key or changed a setting
is still on the way to an eviction that will look at it (`WillShrink`). An eviction ends within the limit since its list of keys is sorted (`SortIsCurrent`), its victims are in the dictionary (`VictimsAreThere`) and
removing one takes one off the count (`OneLess`). `DecisionsHold` says that what an eviction has read without the lock is still true while it is not `disturbed`.

`CrashHandlerProofs` proves, for all threads, signals and registrations (`SignalAssumption`):

| Theorem | States |
|---|---|
| `LockIsReleased` | `Spec => []MutexIsReleased` |
| `NoSelfForwarding` | `Spec => []NeverForwardsToItself` |
| `PreviousOnce` | `Spec => []PreviousRunsOnce` |
| `LoneCrash` | `Spec => []LoneCrashIsReported` |
| `RegistrationSound` | `Spec => []RegistrationIsSound`: types, and everything above about registrations, together |

That a saved previous action is never the handler's own is not inductive, since a registration looks at the dispositions first and saves later. `IInv` adds `LockIsHeld` (who is between the two holds the mutex, and a
mutex that is held has a holder at work or a failed one) and `OursIsKnown` (a signal whose action is ours is registered, or about to be by whoever saves). Signals and callbacks change none of this (`SameRegistration`).
For `PreviousOnce`, `RanMeansHandled` says that once a previous handler has run, the callbacks do nothing but return that the signal was handled, so that it is neither passed through nor raised again; and the same of every interrupted handler, which goes on where it was.
`RegistrationSound` and the others need the lists (`ListInv`): nodes are numbered as they come, so none is there twice (`Numbered`), and every handler, interrupted or not, stands only on nodes of the list, whatever is put in before or behind it.

For `LoneCrash`, `LoneInv` distinguishes how many signals have been delivered. Before the first, no handler runs and every registered signal has the handler for its action (`AllOurs`). After the first, t alone handles s, without another handler interrupted; the report it opens is its own;
and unless the report is whole or could not be opened, the action of s is still the handler, so that `raise` does not end the process (`Alone`). A second signal makes the premise of the property false for good, for deliveries only add up (`LoneDelivery`).

`CrashHandlerProofs` also proves, about `MachExceptionServer`, for every set of faulting threads, whichever of them raise an EXC_GUARD, whatever the previous ports answer
and whether or not calls and writes fail (`ServerAssumption`):

| Theorem | States |
|---|---|
| `ServerTypeCorrect` | `ServerSpec => []ServerTypeOK` |
| `ContextIsSafe` | `ServerSpec => []ContextOutlivesServer` |
| `CrashIsReported` | `ServerSpec => []MappedCrashIsReported` |

`ContextOutlivesServer` says nothing of how the owner got to free the context, so `ServerInv` adds

* `LockMatchesSections`: the context's lock is held exactly in either side's critical section;
* `StopHandshake`: there is a server thread only once it was spawned, `stopDone` is seen only when the server is in its last critical section or gone, and an owner that is about to free has seen it there *with the lock*, so the server is gone;
* `RefusalIsReported`: an answer that will end the process is decided on only with a complete report or for an exception without a signal.

The two sides' steps are separate lemmas (`OwnerKeepsServerInv`, `ServerKeepsServerInv`, `FaultKeepsServerInv`) with one case per action. The step that needs the lock is `OwnerTests`:
`stopDone` and `lock = "owner"` exclude `"unlock"`, which leaves `"exited"`.

`CrashReporterProofs` proves, for every finite set of threads, every buffer size and limit and reports of any pieces (`FileAssumption`, `ReporterAssumption`):

| Theorem | States |
|---|---|
| `TypeCorrect` | `Spec => []TypeOK` |
| `CountsAreExact` | `Spec => []SuspendCountsMatch` |
| `NoSuspensionDeadlock` | `Spec => []SomeoneRuns` |
| `Exclusive` | `Spec => []WritingIsExclusive` |
| `NothingIsLost` | `Spec => []Conservation` |
| `LimitIsKept` | `Spec => []WithinLimit` |
| `SuspensionSound` | `Spec => []SuspensionIsSound`: type correctness and the counts, together |
| `FileSound` | `Spec => []FileIsSound`: `Conservation` and `WithinLimit` |
| `PendingReportIsABox` | `Spec => ImplementsReportBox`, the refinement of `ReportBox` |
| `SuccessIsWhole` | `Spec => []UndisturbedSuccessIsWhole` |

The counts are cardinalities of sets of writers (`Suspenders`): one suspension or resumption adds a thread to exactly one such set or takes it out (`SuspendMatches`, `ResumeMatches`), every other step leaves them (`QuietStep`), and a writer that begins holds nobody (`BeginSuspending`).
`SomeoneRuns` needs a thread that runs to make the step, `NotItself` keeps it from suspending itself. `WritingIsExclusive` follows from the counts: whoever writes holds all others. For the file, every step of the reporter is a `FileStep` (`StepsOfTheFile`), and
`FileInv` adds to `Conservation` that the count is the length of what was accepted while nothing has failed.

The refinement's difficulty is that a report, once whole, must stay so while the handler goes on to flush and to close. `ReportInv` says that disk and buffer hold only bytes of pieces that were written before, and that
the buffer's last byte is nowhere else; so when the disk has all, the buffer is empty and the pieces to come are empty as well (`WholeIsFinal`). A report that begins is not whole since it has a byte (`EmptyIsNotWhole`).
For `SuccessIsWhole`, `Progress` says that whoever makes the report has had accepted exactly the pieces before the next one unless something was refused.
`Pieces` is a recursive function of the number of pieces. What it computes is found without the induction theorems, whose operator parameters no prover here can instantiate: `LeastElement`, from the library's fact that the strict subset relation on finite sets is
well-founded, says that a nonempty set of natural numbers has a least element, and `SetInduction` puts that to use for sets instead of predicates.

`CloudFileHandleProofs` proves, for any threads, block size and file sizes (`CloudFileHandleAssumption`), `TypeCorrect`, `AnswerIsInPlace` (`Spec => []ReadersSeeTheAnswer`) and `DigestIsRight` (`Spec => []DigestIsOfTheWholeFile`).
`BlockOrder` says in which order the library's block does its work and who can be past the wait. For the digest, `DigestInv` says that before and after each read what was fed is the file up to the offset (`Prefix(offset)`), and that a
short read without a fault ends at the file's size; `PrefixGrows` is the step of that argument. `RefusedOnlyAtABoundary` is `Spec => []DigestIsRefusedOnlyAtABoundary`: the offset stays at a boundary of blocks until the last read (`AtABoundary`), so that
an error without a fault underneath comes from the end of a file that is a whole number of blocks.

`AsyncListProofs` proves, for any readers and writers, any finite set of addresses and any values (`ListAssumption`):

| Theorem | States |
|---|---|
| `NoReaderMeetsFreedMemory` | `Spec => []NoUseAfterFree` |
| `ListStaysSound` | `Spec => []ListIsSound` |
| `ReadersMissOnlyWhatIsRemoved` | `Spec => []UndisturbedViewIsComplete` |

Its first part is about chains alone: what follows a node, when a chain ends, that two nodes of a chain that ends do not lead to each other (`NoCycle`), and what becomes of a chain when the `_next` of one node is
redirected (`FromRedirected`) or leads past a node (`Bypass`). The inductive invariant `IInv` consists of

* `Types` and `Control`: where a writer is says whether it holds the lock, whether it removes, and whether it has a node;
* `Count`: the reader count is the number of iterations under way, of readers and of searching writers;
* `Heap`, `DoublyLinked`, `Apart`: list and free list end, are allocated and disjoint; the list is doubly linked at every step but for the node being published; the node that the holder of the lock puts in or takes out is on neither list;
* `Unreached`, `Walks`: a node is deleted only if no iteration's chain leads to it, and every iteration's chain ends and is allocated, also that of one whose node was taken out under it;
* `Views`: what a reader has not come by yet is ahead of it.

None of the three properties is inductive: a reader is safe because of what the *chain* ahead of it is, not because of the node it stands on, and that chain may run over nodes that have left the list. `IterationKeeps…` treats the moves of readers, and one lemma each the stores of the writers;
the longest is `UnlinkInnerKeepsSound`, the removal of an inner node.

`AsyncAllocatorProofs` proves, for any threads, sizes and pages, with the first pool within the address range and the others anywhere beyond it, a guard page between each two (`AllocatorAssumption`):

| Theorem | States |
|---|---|
| `BlocksKnown` | `Spec => []IInv` |
| `PoolSound` | `Spec => []PoolIsSound` |
| `FaultsKnown` | `Spec => OnlyKnownFaults` |
| `StackIsSafe` | `Spec => []StackOrderIsSafe` |

Its first part is about sequences in which nothing is there twice: what is left without the k-th element, also when the ring is turned to begin elsewhere. The second is about sets of blocks with a size each: splitting one (`SplitBlock`) and
joining two that touch (`JoinBlocks`) leave the others clear of each other and within their pools, and the total as it was. Totals are cardinalities of sets of units, so that these facts follow from the library's about finite sets.
The inductive invariant `IInv` says that the pools are at places that `grow` may get, no two at the same (`PoolsKnown`); that each block, free or not, lies within one pool (`BlocksWithin`); that a thread has a block in hand exactly while it deallocates (`Calls`);
and that a block has one owner (`OneOwner`).

`StepEffect` is the core: a step from memory without overlaps keeps `IInv`, brings an overlap about only by inserting a block that ends where the only free block starts (`LinkedToAloneBlock`), and unbalances the account only by
taking the head of a longer list whole (`TakenWhole`). All other ways through `Link` keep both (`Linked`). `FaultsKnown` adds to this lemma that walks are alone as long as the lock is held while somebody is inside (`Guarded`), and that only a second release of the lock under another thread's walk ends that
(`InAndOut` says who comes and goes). So the three faults of departure 4 in section 3 are the only ones up to the first overlap of blocks or walks; what follows upon that is neither modelled nor claimed.
For `StackIsSafe`, `LockInv` says that as long as no call for pages was made the lock is held by whoever is inside, who is alone, and nobody is on the way to a second release; and `InStackOrder` says what use as a stack makes of the memory: one pool, at most its first block free, and the blocks above it without a gap from the last one allocated to the first. Then the only free block starts where the pool does, so that no block ends
there, and the list is never longer than one block: neither fault can happen.

`DwarfCFAProofs` proves, for any registers, rules, buckets, levels, pool and programs (`CFAAssumption`):

| Theorem | States |
|---|---|
| `RowsInvariant` | `Spec => []IInv` |
| `PoolIsDivided` | `Spec => []TableIsSound` |
| `WalksMissNothing` | `Spec => WalksAreComplete` |
| `ChainsImplementRows` | `Spec => ImplementsRows`, the refinement of `RegisterRows` |

A chain is the least closed set of entries that holds its first (`Along`), so that no induction over its length is needed: a set that holds the first entry and is closed under `next` contains the chain (`AlongLeast`). The first part says, of any map of links, that two entries of a
chain that ends do not lead to each other (`NoCycle`), that of two one leads to the other (`Linear`), and what becomes of a chain when an entry is taken from its front, put there, appended at its end, or unlinked within (`Bypass`). The inductive invariant `IInv` consists of

* `Shape`: the chains of all levels up to the last and the free list end, and no two of them share an entry;
* `Content`: a chain has at most one rule for a register, and only registers of its bucket;
* `Removal`: `remove_register` stands behind its `prev`, in the chain *or in the free list*, and an entry of its register that is still in the chain lies ahead;
* `Saving`, `Applying`: what the iterator has passed is in the initial row, or in the frame, and nothing else is in the initial row;
* `Success`: an evaluation is successful only with a complete frame.

None of the three properties is inductive. The delicate step is departure 1 of section 3: after an entry is removed, the loop goes on from the entry's *new* `next`, which is in the free list. `Removal` therefore says where `prev` is, and the proof shows that whatever the loop then unlinks
from behind `prev` is put at the front of the same free list, so that this list still ends and the chains are as before: the loop may shuffle the free list but not damage the rows.
For the refinement each step changes the function of at most one level, the last: a match in the chain is `Forget` (`RemoveIsForget`), a match in the free list a stutter, `SetRegister` is `SetRule`, `Remember` and `Restore` change the number of rows (`PushesIsRemember`, `PopsIsRestore`).

Of the walk of a stack `BacktraceProofs` proves, for any chains of calls of any length that compilers lay out (`ChainAssumption`: a leaf only runs, a function keeps a register once, and no function is in the NULL page), with one word overwritten by any number or none, any limit of frames and any width of
the search's indices that is twice the table (`IsChain`; the code's is 2^32, of tables with a 16-bit count, or of 12-byte entries within one section):

| Theorem | States |
|---|---|
| `DecodeOfEncode` | `Decode(Encode(list), Len(list)) = list` for every list of distinct registers |
| `SearchFinds` | `WalkSpec => []SearchFindsFunction` |
| `WalkInvariant` | `WalkSpec => []WalkIInv` |
| `WalkSound` | `WalkSpec => []WalkIsSound` |
| `NothingMissed` | `WalkSpec => []NothingIsMissed` |
| `WalkComplete` | `WalkSpec => []WalkIsComplete` |

Stacks, encodings and searches are given by recursion, which the provers cannot do induction over in general. Two lemmas take its place. `SetInduction` follows from the well-foundedness of the subsets of a finite set: a set that has 0, and with each number the next up to n, has them all. From it, `LoopHasResults` shows that
a loop of n rounds has a result after each of them, so that a recursive function over 0 to n satisfies its equations.

* *The search.* It is of any table of n entries, the empty one included, for which nothing holds but that an entry outside is read. After m turns it has its answer, or a range of at most n - m entries such that what comes after it begins after the pc, and what comes before it does not (`Narrowed`). One turn keeps that (`TurnNarrows`); after n turns no range is left. `MidPoint` is where the sum of two indices must not wrap.
* *The permutation.* The rank that `Encode` takes of a register is its rank among those not yet listed (`RankFact`), and at position i there are 6 - i others, which is why the digits never carry (`DigitsFact`, for each of the six lengths). `Decode` then finds the register of that rank, of which there is one (`RankedFact`).
* *The stack.* `StackPointers` and `StackRises` say that frames lie one above the other, `OneCallHolds` that each word is in one of them, `FramePointers` what becomes of the frame pointer from a call to its caller, and `SavedWords` what the words hold that `Layout` puts there.
* *The readers.* `CompactGives` and `DwarfGives` replace the two table readers, whose entries and rows differ for each kind of function, by one statement: what they give for call i are the registers that the words at the top of its frame say (`Given`), and they give it if these words can be read (`FrameIsThere`). `GivenIsCaller`
and `FramePtrIsCaller` show that these are the caller's registers, if the registers the reader began with were the callee's and the stack is as it was laid out.

The inductive invariant `WalkIInv` adds to `FramesAreCallers` and `StackGrowsOneWay` that the cursor's frame, and the one before it, are the last two of the walk (`CursorIsAtEnd`: the code keeps both), that memory is the chain's layout while nothing is overwritten, and the types. `NothingIsMissed` is the invariant of completeness: the walk's frames
are then those of the calls *in order*, each knows its frame pointer, and the stack pointer is unknown only when a call below had no information. That is what `Walkable` is for: such a call is followed by framed ones only, which can be read without a stack pointer. The frame pointer reader's test of the stack's direction never refuses an
intact stack (`FramePointersRise`): a function that keeps something else in the frame pointer saves it, and has information.

Of symbol lookup `BacktraceProofs` proves, for any images, classes, methods, symbols and stacks, any size of the class cache and any limit of frames (`LookupAssumption`, `ImageAssumption`):

| Theorem | States |
|---|---|
| `LookupInvariant` | `Spec => []LookupIInv` |
| `CacheSound` | `Spec => []CacheIsSound` |
| `SizesMatch` | `Spec => []SizesAgree` |
| `NearestName` | `Spec => []NameIsNearest` |

A lookup is two loops within loops, and what it returns is given by recursion, which the provers cannot do induction over in general. Again `LoopHasResults` takes its place: with it, `ParseEntriesResults` and `BestSymbolsResults` say of the two recursive functions that they satisfy their equations.

The rest replaces each operator of the lookup by what it returns for a *good* cache, from `ParseClass` up to `FrameMessage`: an error, methods and an address that are functions of the image and of the realized classes alone (`ParsedError`, `ParsedMethods`,
`MethodError`, `Address`, `FrameSize`: neither the cache nor the memory for it occurs in them), and again a good cache. A cache is good (`Good`) if every entry is that of a realized class with its read-only data, and if what is mapped is all of the noted image.
The inductive invariant `LookupIInv` says that the cache is good (so that nothing is ever found through it that would not have been found without), that the last answer is that `Address`, and that `sizes` are sums of `FrameSize` over the frames walked so far (`SizesAreSums`).
`CacheSound` is then immediate: the first cache is also good. `SizesMatch` follows since at the end of either pass the sum is over the same frames. `NearestName` relates the two closed forms to maxima: of the symbols by `BestSymbolFact`, of the methods by `ParsedMethodsFact` and `MaxIs`. `KeptMethodsFact` says when methods count at all: the loops return the error of their last entry, so all of them do, or none if that entry is not realized.

Liveness (`WriterGetsIn`, `SignalsEnd`, `ExceptionsAnswered`, `DeallocReturns`, `HandlerEnds`, `SleeperGoesOnOrWasOvertaken`) needs ENABLED and fairness and is model-checked only.

## 5. What is not modelled

* Illegal use of `CloudRWLock` (unlocking what one does not hold), and overflow of its `int`, which takes 2^31 threads.
* Memory order: `CloudRWLock` reads `_lockCount` without a barrier, but every decision is confirmed by a compare-and-swap with one, except in the drain loop. Lists and the allocator use full barriers or the lock.
* Two readers of `AsyncList` at once: readers change nothing but the count. `nasync_remove_node` by a caller whose node was recycled by someone else (`:315`) is part of the model, but no property judges which value goes.
* The allocator's alignment, and its destructor; and what happens after two blocks overlap, or after two threads walk the free list at once, which takes a second release of the lock (`UnlockAgain`). The model reaches both and stops there.
* In `SignalHandler`, a signal that hits the same thread twice, from outside (each hits a thread once; the handler's own `raise` is modelled); writes that fail, which are in `CrashReporter`; and `+resetHandlers`, which only tests call.
* In `MachExceptionServer`, faults of the server thread itself, which would deadlock on its own port; a previous handler that never answers; messages too large for the buffer.
* In `CrashReporter`, a fault of the handler other than those of an incomplete writer, the Mach variant of the callback (in `MachExceptionServer`), the creation of directories, and the loading of the pending report, which reads a file that nobody else writes.
* In the log writer, the fields of the messages other than a thread's frames, and the encoding of integers.
* In `DwarfCFA`, operands, expressions, and the records that hold the programs; in `CompactUnwind`, the layout of the table's two levels, 32-bit x86, and the registers saved beside a frame pointer (`PLCrashAsyncCompactUnwindEncoding.c:786-804`), with the failure to read one: the walk follows none of them; in `SymbolLookup`, memory that cannot be read in the middle of a parse, and images that dyld loads or unloads meanwhile.
* In `CloudFileHandle`, the data that two readers of one handle get from each other's offsets, and writing handles, which pass calls on.
* Components "not modelled" in section 1, for the reasons there and in `PROJECT.json`.

## 6. What could follow

1. **DwarfExpression** (`PLCrashAsyncDwarfExpression.cpp`, `dwarf_stack.cpp`): the operand stack never leaves its bounds, and every operator against its definition with the machine's width.
2. **MachOImage** (`PLCrashAsyncMachOImage.c`): the walk over load commands whose sizes may be wrong.
3. **Report decoding** (`PLCrashReport.m`) of a torn report, composed with `CrashReporter`.
4. **SharedPtr** (`shared_ptr.hpp`, `weak_ptr.hpp`): an upgrade of a weak reference against the last release.

