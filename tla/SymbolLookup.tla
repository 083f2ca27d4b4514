---------------------------- MODULE SymbolLookup ----------------------------
(***************************************************************************)
(* Symbol names for the frames of a report: the Mach-O symbol table and    *)
(* the Objective-C metadata of an image, with the cache that is shared by  *)
(* all lookups of a report; and the writer that walks every thread twice,  *)
(* once for the size of its message and once to write it.                  *)
(*                                                                         *)
(* Addresses are those in memory, with the slide applied.  A class is the  *)
(* address of its read-write data; the length of a name is that of its     *)
(* address.                                                                *)
(***************************************************************************)
EXTENDS Integers, Sequences, FiniteSets, Functions, FiniteSetsExt

CONSTANTS Image,      \* Image[i]: what is mapped at [low, high)
          Methods,    \* Methods[r]: the methods of the read-only data r
          RoOf,       \* RoOf[c]: the read-only data of class c
          CacheSize,  \* slots of the class cache
          Frames,     \* call stacks that threads may have
          MaxFrames,  \* MAX_THREAD_FRAMES
          NULL

Images == DOMAIN Image
Classes == DOMAIN RoOf
Sections == {"const", "classes", "categories", "data"}

ClassRefs == [class : Classes, meta : Classes]
Categories == [class : Classes, methods : SUBSET (Nat \ {0})]
Entry == [value : Nat, thumb : BOOLEAN, section : BOOLEAN, stab : BOOLEAN]

ASSUME LookupAssumption ==
    /\ CacheSize \in Nat \ {0} /\ MaxFrames \in Nat \ {0} /\ Frames \subseteq Seq(Nat)
    /\ NULL \notin Images \cup Entry /\ Classes \subseteq Nat \ {0}
    /\ \A c \in Classes : RoOf[c] \in DOMAIN Methods
    /\ \A r \in DOMAIN Methods : r \in Nat \ {0} /\ Methods[r] \subseteq Nat \ {0}

\* Images do not overlap; a class has one metaclass, which is not in a class list; and
\* symbols at one address are of one function, in one instruction set.
ASSUME ImageAssumption ==
    /\ \A i \in Images :
        /\ Image[i].low \in Nat /\ Image[i].high \in Nat /\ Image[i].sections \subseteq Sections
        /\ Image[i].global \in Seq(Entry) /\ Image[i].local \in Seq(Entry)
        /\ Image[i].classes \in Seq(ClassRefs) /\ Image[i].categories \in Seq(Categories)
        /\ \A e, f \in Range(Image[i].global) \cup Range(Image[i].local) :
              e.value = f.value => e.thumb = f.thumb
    /\ \A i, j \in Images :
        /\ i = j \/ Image[i].high <= Image[j].low \/ Image[j].high <= Image[i].low
        /\ \A e \in Range(Image[i].classes), f \in Range(Image[j].classes) :
              e.class # f.meta /\ (e.class = f.class => e.meta = f.meta)

VARIABLES legacy,   \* the process has Objective-C 1 metadata, not 2
          realized, \* the realized classes, each with its metaclass; nothing runs that could
                    \* add to them
          cache,    \* the symbol cache of this report
          frames,   \* the stack of the thread that is being written
          pass,     \* 0: none, 1: for the size, 2: to write
          k,        \* the frame to be written next
          frame,    \* the size of the last frame's message: as announced, as written
          sizes,    \* the size of the thread's message in each pass
          answer    \* the last lookup: what was asked, and what was found

vars == <<legacy, realized, cache, frames, pass, k, frame, sizes, answer>>

----------------------------------------------------------------------------
(* The class cache: one entry per slot, the first one stays.               *)

NoCache == [objc2 |-> FALSE, image |-> NULL, mapped |-> {},
            keys |-> <<>>, values |-> <<>>]

Slot(class) == ((class \div 4) % CacheSize) + 1

\* Mutant: any entry of the slot is taken.
CacheLookup_AnyKey(c, class) ==
    IF c.keys # <<>> THEN c.values[Slot(class)] ELSE 0

CacheLookup(c, class) ==
    IF c.keys # <<>> /\ c.keys[Slot(class)] = class THEN c.values[Slot(class)] ELSE 0

\* Without memory there is no cache; it is asked for again the next time.
CacheSet(c, class, ro, memory) ==
    LET empty == [s \in 1..CacheSize |-> 0]
        c2 == IF c.keys = <<>> /\ memory
              THEN [c EXCEPT !.keys = empty, !.values = empty] ELSE c
    IN  IF c2.keys # <<>> /\ c2.keys[Slot(class)] = 0
        THEN [c2 EXCEPT !.keys[Slot(class)] = class, !.values[Slot(class)] = ro]
        ELSE c2

\* The order in which sections are mapped; the first that is missing ends it.
MapOrder == <<"const", "classes", "categories", "data">>
Found(i) == IF legacy THEN {} ELSE Image[i].sections
MappedBefore(i) ==
    {MapOrder[n] : n \in {m \in 1..4 : \A l \in 1..m : MapOrder[l] \in Found(i)}}

\* map_sections: what the last image had mapped is freed first.
MapSections(c, i) ==
    IF c.image = i THEN c
    ELSE [c EXCEPT !.mapped = {<<i, s>> : s \in MappedBefore(i)},
                   !.image = IF MappedBefore(i) = Sections THEN i ELSE NULL]

----------------------------------------------------------------------------
(* Parsing an image's Objective-C metadata.  A result has the error, the   *)
(* methods the callback was called for, and the cache.                     *)

\* pl_async_objc_parse_objc2_class.  Read-only data never lies within __TEXT,
\* which is all that plcrash_async_macho_contains_address looks at: it is copied.
ParseClass(c, class, memory) ==
    LET hit == CacheLookup(c, class) IN
    CASE hit # 0 -> [err |-> "ok", ro |-> hit, cache |-> c]
      [] hit = 0 /\ class \in realized ->
            [err |-> "ok", ro |-> RoOf[class], cache |-> CacheSet(c, class, RoOf[class], memory)]
      [] OTHER -> [err |-> "notfound", ro |-> 0, cache |-> c]

\* One class or metaclass, and the rest of the result so far.
ClassMethods(r, class, memory) ==
    LET p == ParseClass(r.cache, class, memory)
    IN  [err |-> p.err, cache |-> p.cache,
         found |-> r.found \cup IF p.err = "ok" THEN Methods[p.ro] ELSE {}]

\* The loop over the class list: an unrealized class is skipped, and its metaclass
\* with it; but the error stays in err.
ClassEntry(r, e, memory) ==
    LET p == ClassMethods(r, e.class, memory)
    IN  IF p.err = "ok" THEN ClassMethods(p, e.meta, memory) ELSE p

\* The loop over the category list.
CategoryEntry(r, e, memory) ==
    LET p == ParseClass(r.cache, e.class, memory)
    IN  [err |-> p.err, cache |-> p.cache,
         found |-> r.found \cup IF p.err = "ok" THEN e.methods ELSE {}]

Entries(i) == Image[i].classes \o Image[i].categories

ParseEntry(r, e, memory) ==
    IF e \in ClassRefs THEN ClassEntry(r, e, memory) ELSE CategoryEntry(r, e, memory)

\* The result after each number of entries.
ParseEntries(start, i, memory) ==
    LET upTo[n \in 0 .. Len(Entries(i))] ==
            IF n = 0 THEN start ELSE ParseEntry(upTo[n - 1], Entries(i)[n], memory)
    IN  upTo

ParseDataSection(c, i, memory) ==
    LET mapped == MapSections(c, i)
        start == [err |-> "ok", found |-> {}, cache |-> mapped]
    IN  IF mapped.image # i THEN [start EXCEPT !.err = "notfound"]
        ELSE ParseEntries(start, i, memory)[Len(Entries(i))]

\* The methods of an image's classes, as far as these are in a set.
MethodsOf(i, set) ==
    UNION {Methods[RoOf[e.class]] \cup Methods[RoOf[e.meta]] :
            e \in {e \in Range(Image[i].classes) : e.class \in set}}

\* plcrash_async_objc_parse: Objective-C 1 first, until Objective-C 2 was found.
Parse(c, i, memory) ==
    IF ~c.objc2 /\ legacy
    THEN [err |-> "ok", found |-> MethodsOf(i, Classes), cache |-> c]
    ELSE LET r == ParseDataSection(c, i, memory)
         IN  [r EXCEPT !.cache.objc2 = @ \/ r.err = "ok"]

\* Mutant: the first method before the pc, not the last.
BestMethod_First(found, pc) ==
    LET before == {m \in found : m <= pc} IN IF before = {} THEN 0 ELSE Min(before)

BestMethod(found, pc) ==
    LET before == {m \in found : m <= pc} IN IF before = {} THEN 0 ELSE Max(before)

\* plcrash_async_objc_find_method: one parse to choose a method, one to call back
\* with it.
CallBack(p, best) ==
    [err |-> p.err, cache |-> p.cache, imp |-> IF best \in p.found THEN best ELSE 0]

Chosen(p, i, pc, memory) ==
    LET best == BestMethod(p.found, pc) IN
    CASE p.err # "ok" -> [err |-> p.err, imp |-> 0, cache |-> p.cache]
      [] p.err = "ok" /\ best = 0 -> [err |-> "notfound", imp |-> 0, cache |-> p.cache]
      [] OTHER -> CallBack(Parse(p.cache, i, memory), best)

FindMethod(c, i, pc, memory) == Chosen(Parse(c, i, memory), i, pc, memory)

----------------------------------------------------------------------------
(* The symbol table: the global entries first, then the local ones.  An    *)
(* image without a dynamic symbol table has all its entries in the first.  *)

Symbols(i) == Image[i].global \o Image[i].local

Defined(e) == e.section /\ ~e.stab
Normal(e) == IF e.thumb /\ e.value % 2 = 0 THEN e.value + 1 ELSE e.value

Better(best, e, pc) ==
    IF Defined(e) /\ e.value <= pc /\ (IF best = NULL THEN TRUE ELSE best.value < e.value)
    THEN e ELSE best

\* plcrash_async_macho_find_best_symbol: the best of each number of entries.
BestSymbols(i, pc) ==
    LET upTo[n \in 0 .. Len(Symbols(i))] ==
            IF n = 0 THEN NULL ELSE Better(upTo[n - 1], Symbols(i)[n], pc)
    IN  upTo

BestSymbol(i, pc) == BestSymbols(i, pc)[Len(Symbols(i))]

\* plcrash_async_find_symbol: the later of the two, the method if they are equal.
Later(method, symbol) ==
    [cache |-> method.cache,
     address |-> IF method.err = "ok" /\ method.imp # 0 /\ method.imp >= symbol
                 THEN method.imp ELSE symbol]

FindSymbol(c, i, pc, memory) ==
    LET e == BestSymbol(i, pc)
    IN  Later(FindMethod(c, i, pc, memory), IF e = NULL THEN 0 ELSE Normal(e))

----------------------------------------------------------------------------
(* The writer.                                                             *)

Holding(pc) == {i \in Images : Image[i].low <= pc /\ pc < Image[i].high}
NothingAsked == [pc |-> 0, address |-> 0]

Init ==
    /\ legacy \in BOOLEAN
    /\ \E S \in SUBSET UNION {Range(Image[i].classes) : i \in Images} :
          realized = UNION {{e.class, e.meta} : e \in S}
    /\ cache = NoCache
    /\ frames = <<>> /\ pass = 0 /\ k = 1 /\ frame = <<0, 0>> /\ sizes = <<0, 0>>
    /\ answer = NothingAsked

\* A thread's message is begun.
BeginThread ==
    /\ pass = 0
    /\ frames' \in Frames
    /\ pass' = 1 /\ k' = 1 /\ frame' = <<0, 0>> /\ sizes' = <<0, 0>>
    /\ answer' = NothingAsked
    /\ UNCHANGED <<legacy, realized, cache>>

More == k <= Len(frames) /\ k <= MaxFrames

\* plcrash_writer_write_thread_frame: the pc, and if the image is known, one lookup
\* for the size of the symbol and another one to write it.
SymbolMessage(first, i, pc, memory) ==
    LET asked == [pc |-> pc, address |-> first.address]
        second == FindSymbol(first.cache, i, pc, memory)
    IN  IF first.address = 0 THEN [size |-> 1, cache |-> first.cache, answer |-> asked]
        ELSE [size |-> 2 + second.address, cache |-> second.cache, answer |-> asked]

FrameMessage(c, pc, memory) ==
    IF Holding(pc) = {} THEN [size |-> 1, cache |-> c, answer |-> NothingAsked]
    ELSE LET i == CHOOSE i \in Images : i \in Holding(pc)
         IN  SymbolMessage(FindSymbol(c, i, pc, memory), i, pc, memory)

\* One frame of the walk: its size, then its message.
WriteFrame ==
    /\ pass \in {1, 2} /\ More
    /\ \E memory \in BOOLEAN :
       \E announced \in {FrameMessage(cache, frames[k], memory)} :
       \E written \in {FrameMessage(announced.cache, frames[k], memory)} :
         /\ cache' = written.cache
         /\ answer' = written.answer
         /\ frame' = <<announced.size, written.size>>
         /\ sizes' = [sizes EXCEPT ![pass] = @ + written.size]
    /\ k' = k + 1
    /\ UNCHANGED <<legacy, realized, frames, pass>>

\* Mutant: the second walk goes on where the first one ended.
EndPass_GoesOn ==
    /\ pass \in {1, 2} /\ ~More
    /\ pass' = (pass + 1) % 3
    /\ UNCHANGED <<legacy, realized, cache, frames, k, frame, sizes, answer>>

\* The walk ends with the stack, or at its limit; then the same again.
EndPass ==
    /\ pass \in {1, 2} /\ ~More
    /\ pass' = (pass + 1) % 3
    /\ k' = 1
    /\ UNCHANGED <<legacy, realized, cache, frames, frame, sizes, answer>>

Next == BeginThread \/ WriteFrame \/ EndPass

Spec == Init /\ [][Next]_vars

----------------------------------------------------------------------------
\* The state has its type.
TypeOK ==
    /\ legacy \in BOOLEAN /\ realized \subseteq Classes
    /\ cache.image \in Images \cup {NULL} /\ cache.mapped \subseteq Images \X Sections
    /\ Len(cache.keys) \in {0, CacheSize} /\ Len(cache.values) = Len(cache.keys)
    /\ frames \in Frames \cup {<<>>} /\ pass \in 0..2 /\ k \in 1..MaxFrames + 1
    /\ answer.address \in Nat

\* What is mapped is mapped for the image that is noted.
MappingsAreTheImages ==
    cache.image # NULL => cache.mapped = {cache.image} \X Sections

\* PLCrashAsyncObjCSection.mm:299: "We don't need the cache for correct operation".
\* Whatever was looked up before, in whatever order slots were taken, a lookup
\* finds what it would find first of all.
CacheIsTransparent ==
    answer.pc # 0 => \A i \in Holding(answer.pc) :
        FindSymbol(NoCache, i, answer.pc, TRUE).address = answer.address

\* What outlives a lookup, mappings and cached classes, changes no later one.
CacheIsSound == TypeOK /\ MappingsAreTheImages /\ CacheIsTransparent

\* The sizes that were announced for a frame and for its thread are those of what is
\* then written: or nothing behind it can be read.
SizesAgree == frame[1] = frame[2] /\ (pass = 0 => sizes[1] = sizes[2])

\* The symbols of the image that are the last before the pc.
LastSymbols(i, pc) ==
    {Normal(e) : e \in {e \in Range(Symbols(i)) :
        Defined(e) /\ e.value <= pc /\
        \A f \in Range(Symbols(i)) :
            Defined(f) /\ f.value <= pc => f.value <= e.value}}

\* Every method that the image's metadata has for a class that is realized.
RealizedMethods(i) ==
    CASE legacy -> MethodsOf(i, Classes)
      [] ~legacy /\ Image[i].sections = Sections ->
            MethodsOf(i, realized) \cup
            UNION {e.methods : e \in {e \in Range(Image[i].categories) : e.class \in realized}}
      [] OTHER -> {}

\* The last class of the image, or its last category if it has any, is an unrealized
\* one: skipping it leaves ENOTFOUND behind, which the loops return as their result.
EndsUnrealized(i) ==
    ~legacy /\ Entries(i) # <<>> /\ Entries(i)[Len(Entries(i))].class \notin realized

Nearest(names) == IF names = {} THEN 0 ELSE Max(names)

\* The name is that of the last symbol or method before the pc; only in an image that
\* ends with an unrealized entry it is that of the last symbol, whatever methods the
\* realized classes have (PLCrashAsyncObjCSection.mm:957 and :1007 mean to skip it).
NameIsNearest ==
    answer.pc # 0 => \A i \in Holding(answer.pc) :
        LET methods == {m \in RealizedMethods(i) : m <= answer.pc}
        IN  answer.address = Nearest(LastSymbols(i, answer.pc) \cup
                                     IF EndsUnrealized(i) THEN {} ELSE methods)
=============================================================================
