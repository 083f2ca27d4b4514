----------------------------- MODULE AsyncList -----------------------------
(***************************************************************************)
(* async_list of PLCrashReporter (PLCrashAsyncLinkedList.hpp): a doubly    *)
(* linked list that crash-time readers walk without a lock while writers   *)
(* change it under a spin lock.  A removed node is not deallocated while   *)
(* the list is being read: it goes to a free list, from which later        *)
(* insertions recycle it.                                                  *)
(*                                                                         *)
(* Readers only look at _head and at the _value and _next of nodes, so a   *)
(* writer's step ends where one of these changes; what only lock holders   *)
(* see (_prev, _tail, _free) changes together with the step around it.     *)
(***************************************************************************)
EXTENDS Integers, FiniteSets

CONSTANTS Readers,    \* threads that iterate, as a signal handler does
          Writers,    \* threads that change the list
          WriterOps,  \* which changes they make
          Nodes,      \* the addresses malloc may return
          Values,     \* the list's values
          NULL

ASSUME ListAssumption ==
    /\ IsFiniteSet(Readers) /\ IsFiniteSet(Writers) /\ Values # {}
    /\ Readers \cap Writers = {} /\ NULL \notin Nodes \cup Writers
    /\ WriterOps \subseteq {"prepend", "append", "remove_first", "remove_node", "reset"}

Threads == Readers \cup Writers

VARIABLES allocated,  \* the addresses in use
          node,       \* node[n]: _value, _prev and _next at address n
          head, tail, free, refcount, writeLock,
          pc,         \* pc[t]: the next step of thread t
          cur,        \* cur[t]: the node thread t holds a pointer to
          op,         \* op[w]: the removal writer w is making, or "none"
          arg,        \* arg[w]: the value a writer inserts or removes
          unseen,     \* unseen[r]: nodes linked ever since reader r started
                      \* that it has not come by (not in the code)
          lost        \* readers under which the node they stand on was
                      \* removed (not in the code)

seen == <<unseen, lost>>

list == <<allocated, node, head, tail, free>>
vars == <<list, refcount, writeLock, pc, cur, op, arg, seen>>

Fresh(v) == [value |-> v, prev |-> NULL, next |-> NULL]
AnyValue == CHOOSE v \in Values : TRUE

Init ==
    /\ allocated = {}
    /\ node = [n \in Nodes |-> Fresh(AnyValue)]
    /\ head = NULL /\ tail = NULL /\ free = NULL
    /\ refcount = 0
    /\ writeLock = NULL
    /\ pc = [t \in Threads |-> "idle"]
    /\ cur = [t \in Threads |-> NULL]
    /\ op = [w \in Writers |-> "none"]
    /\ arg = [w \in Writers |-> AnyValue]
    /\ unseen = [r \in Readers |-> {}]
    /\ lost = {}

\* The nodes on the chain that starts at n: the least set with n in it, and
\* with the _next of each of its nodes.
Chain(n) ==
    {m \in Nodes : \A S \in SUBSET Nodes :
        n \in S \cup {NULL} /\ (\A k \in S : node[k].next \in S \cup {NULL}) => m \in S}

Goto(t, to) == pc' = [pc EXCEPT ![t] = to]

----------------------------------------------------------------------------
(* Iteration: set_reading(true), next(...) until NULL, set_reading(false). *)

StartReading(t) ==
    /\ refcount' = refcount + 1
    /\ cur' = [cur EXCEPT ![t] = NULL]
    /\ UNCHANGED <<list, writeLock>>

Following(t) == IF cur[t] = NULL THEN head ELSE node[cur[t]].next

StopReading(t) ==
    /\ refcount' = refcount - 1
    /\ cur' = [cur EXCEPT ![t] = NULL]
    /\ Goto(t, "idle")
    /\ UNCHANGED <<list, writeLock>>

ReaderStarts(r) ==
    /\ pc[r] = "idle"
    /\ Goto(r, "next")
    /\ StartReading(r)
    /\ unseen' = [unseen EXCEPT ![r] = Chain(head)]
    /\ UNCHANGED <<op, arg, lost>>

\* next(current); past the last node the reader is done.
ReaderNext(r) ==
    /\ pc[r] = "next"
    /\ cur' = [cur EXCEPT ![r] = Following(r)]
    /\ Goto(r, IF Following(r) = NULL THEN "done" ELSE "next")
    /\ unseen' = [unseen EXCEPT ![r] = @ \ {Following(r)}]
    /\ UNCHANGED <<list, refcount, writeLock, op, arg, lost>>

ReaderStops(r) ==
    /\ pc[r] = "done"
    /\ StopReading(r)
    /\ unseen' = [unseen EXCEPT ![r] = {}]
    /\ lost' = lost \ {r}
    /\ UNCHANGED <<op, arg>>

----------------------------------------------------------------------------
(* Insertion.                                                              *)

Lock(w)   == writeLock = NULL /\ writeLock' = w
Unlock(w) == writeLock = w /\ writeLock' = NULL

\* Construct a node or recycle one.  The reset comes first, so the free
\* list's next node is read from a node whose _next is already NULL.
TakeNode(w, v) ==
    IF free # NULL
    THEN /\ node' = [node EXCEPT ![free] = Fresh(v)]
         /\ free' = node'[free].next
         /\ cur' = [cur EXCEPT ![w] = free]
         /\ UNCHANGED allocated
    ELSE \E n \in Nodes \ allocated :
         /\ node' = [node EXCEPT ![n] = Fresh(v)]
         /\ allocated' = allocated \cup {n}
         /\ cur' = [cur EXCEPT ![w] = n]
         /\ UNCHANGED free

\* nasync_prepend and nasync_append begin alike.
StartInsert(w) ==
    /\ pc[w] = "idle"
    /\ \E o \in WriterOps \cap {"prepend", "append"} : Goto(w, o)
    /\ \E v \in Values : TakeNode(w, v) /\ arg' = [arg EXCEPT ![w] = v]
    /\ Lock(w)
    /\ UNCHANGED <<head, tail, refcount, op, seen>>

\* An insertion into the empty list sets _tail and _head.
InsertFirst(w) ==
    /\ pc[w] \in {"prepend", "append"}
    /\ tail = NULL
    /\ tail' = cur[w]
    /\ head' = IF head = NULL THEN cur[w] ELSE head
    /\ Goto(w, "unlock")
    /\ UNCHANGED <<allocated, node, free, refcount, writeLock, cur, op, arg, seen>>

\* Mutant: the node goes in before the head with its _next still NULL.
PrependLink_PublishFirst(w) ==
    /\ pc[w] = "prepend"
    /\ tail # NULL
    /\ node' = [node EXCEPT ![head].prev = cur[w]]
    /\ head' = cur[w]
    /\ Goto(w, "unlock")
    /\ UNCHANGED <<allocated, tail, free, refcount, writeLock, cur, op, arg, seen>>

\* Otherwise prepending links the node to the head before it is visible ...
PrependLink(w) ==
    /\ pc[w] = "prepend"
    /\ tail # NULL
    /\ node' = [node EXCEPT ![cur[w]].next = head, ![head].prev = cur[w]]
    /\ Goto(w, "publish")
    /\ UNCHANGED <<allocated, head, tail, free, refcount, writeLock, cur, op, arg, seen>>

\* ... and then swaps it in as the head,
PrependPublish(w) ==
    /\ pc[w] = "publish"
    /\ head' = IF head = node[cur[w]].next THEN cur[w] ELSE head
    /\ Goto(w, "unlock")
    /\ UNCHANGED <<allocated, node, tail, free, refcount, writeLock, cur, op, arg, seen>>

\* and appending swaps it in behind the tail.
AppendPublish(w) ==
    /\ pc[w] = "append"
    /\ tail # NULL
    /\ node' = [node EXCEPT ![tail].next = IF @ = NULL THEN cur[w] ELSE @,
                            ![cur[w]].prev = tail]
    /\ tail' = cur[w]
    /\ Goto(w, "unlock")
    /\ UNCHANGED <<allocated, head, free, refcount, writeLock, cur, op, arg, seen>>

InsertEnds(w) ==
    /\ pc[w] = "unlock"
    /\ Unlock(w)
    /\ Goto(w, "idle")
    /\ cur' = [cur EXCEPT ![w] = NULL]
    /\ arg' = [arg EXCEPT ![w] = AnyValue]
    /\ UNCHANGED <<list, refcount, op, seen>>

----------------------------------------------------------------------------
(* Removal.  remove_first searches as a reader and removes what it found   *)
(* while it still reads; reset is resetHandlers' loop, which removes every *)
(* node it comes by; remove_node is called outside an iteration, with a    *)
(* node its caller has just seen on the list.                              *)

StartSearch(w) ==
    /\ pc[w] = "idle"
    /\ \E o \in WriterOps \cap {"remove_first", "reset"} : op' = [op EXCEPT ![w] = o]
    /\ \E v \in Values : arg' = [arg EXCEPT ![w] = v]
    /\ StartReading(w)
    /\ Goto(w, "search")
    /\ UNCHANGED seen

SearchNext(w) ==
    /\ pc[w] = "search"
    /\ cur' = [cur EXCEPT ![w] = Following(w)]
    /\ Goto(w, IF Following(w) = NULL THEN "searched"
               ELSE IF op[w] = "reset" THEN "unlink" ELSE "compare")
    /\ UNCHANGED <<list, refcount, writeLock, op, arg, seen>>

Compare(w) ==
    /\ pc[w] = "compare"
    /\ Goto(w, IF node[cur[w]].value = arg[w] THEN "unlink" ELSE "search")
    /\ UNCHANGED <<list, refcount, writeLock, cur, op, arg, seen>>

SearchEnds(w) ==
    /\ pc[w] = "searched"
    /\ StopReading(w)
    /\ arg' = [arg EXCEPT ![w] = AnyValue]
    /\ op' = [op EXCEPT ![w] = "none"]
    /\ UNCHANGED seen

StartRemoveNode(w) ==
    /\ pc[w] = "idle"
    /\ "remove_node" \in WriterOps
    /\ writeLock = NULL
    /\ \E n \in Chain(head) : cur' = [cur EXCEPT ![w] = n]
    /\ op' = [op EXCEPT ![w] = "remove_node"]
    /\ Goto(w, "unlink")
    /\ UNCHANGED <<list, refcount, writeLock, arg, seen>>

\* Where nasync_remove_node returns to, with the lock released.
Removed(w) ==
    /\ writeLock' = NULL
    /\ Goto(w, CASE op[w] = "remove_first" -> "searched"
                 [] op[w] = "reset" -> "search"
                 [] op[w] = "remove_node" -> "idle")
    /\ cur' = [cur EXCEPT ![w] = IF op[w] = "remove_node" THEN NULL ELSE @]
    /\ op' = [op EXCEPT ![w] = IF op[w] = "remove_node" THEN "none" ELSE @]

\* The node is no longer on the list: nothing to do.
UnlinkNotFound(w) ==
    /\ pc[w] = "unlink"
    /\ writeLock = NULL
    /\ cur[w] \notin Chain(head)
    /\ Removed(w)
    /\ UNCHANGED <<list, refcount, arg, seen>>

\* Mutant: _tail still points to a removed last node.
Unlink_KeepTail(w) ==
    LET item == cur[w]
        after == node[item].next
        before == node[item].prev
    IN  /\ pc[w] = "unlink"
        /\ item \in Chain(head)
        /\ Lock(w)
        /\ head' = IF item = head THEN after ELSE head
        /\ node' = [n \in Nodes |->
              [node[n] EXCEPT !.next = IF item # head /\ n = before THEN after ELSE @,
                              !.prev = IF n = after THEN before ELSE @]]
        /\ unseen' = [r \in Readers |-> unseen[r] \ {item}]
        /\ lost' = lost \cup {r \in Readers : cur[r] = item}
        /\ Goto(w, "release")
        /\ UNCHANGED <<allocated, tail, free, refcount, cur, op, arg>>

\* Make the node unreachable, and then fix _prev or _tail behind it.
Unlink(w) ==
    LET item == cur[w]
        after == node[item].next
        before == node[item].prev
    IN  /\ pc[w] = "unlink"
        /\ item \in Chain(head)
        /\ Lock(w)
        /\ head' = IF item = head THEN after ELSE head
        /\ node' = [n \in Nodes |->
              [node[n] EXCEPT !.next = IF item # head /\ n = before THEN after ELSE @,
                              !.prev = IF n = after THEN before ELSE @]]
        /\ tail' = IF after = NULL THEN before ELSE tail
        /\ unseen' = [r \in Readers |-> unseen[r] \ {item}]
        /\ lost' = lost \cup {r \in Readers : cur[r] = item}
        /\ Goto(w, "release")
        /\ UNCHANGED <<allocated, free, refcount, cur, op, arg>>

\* Mutant: the node is deleted although the list is being read.
CheckReaders_Never(w) ==
    /\ pc[w] = "release"
    /\ Goto(w, "delete")
    /\ UNCHANGED <<list, refcount, writeLock, cur, op, arg, seen>>

\* _refcount > 0 decides what becomes of the node.
CheckReaders(w) ==
    /\ pc[w] = "release"
    /\ Goto(w, IF refcount > 0 THEN "recycle" ELSE "delete")
    /\ UNCHANGED <<list, refcount, writeLock, cur, op, arg, seen>>

\* The node goes on the free list, where a reader that stands on it goes on.
Recycle(w) ==
    /\ pc[w] = "recycle"
    /\ node' = [n \in Nodes |->
          IF n = cur[w] THEN [node[n] EXCEPT !.prev = NULL, !.next = free]
          ELSE [node[n] EXCEPT !.prev = IF n = free THEN cur[w] ELSE @]]
    /\ free' = cur[w]
    /\ Removed(w)
    /\ UNCHANGED <<allocated, head, tail, refcount, arg, seen>>

\* The memory is gone; its contents no longer mean anything.
Delete(w) ==
    /\ pc[w] = "delete"
    /\ allocated' = allocated \ {cur[w]}
    /\ node' = [node EXCEPT ![cur[w]] = Fresh(AnyValue)]
    /\ Removed(w)
    /\ UNCHANGED <<head, tail, free, refcount, arg, seen>>

----------------------------------------------------------------------------
ReaderStep(r) == ReaderNext(r) \/ ReaderStops(r)

WriterStep(w) ==
    \/ InsertFirst(w) \/ PrependLink(w) \/ PrependPublish(w) \/ AppendPublish(w)
    \/ InsertEnds(w)
    \/ SearchNext(w) \/ Compare(w) \/ SearchEnds(w)
    \/ UnlinkNotFound(w) \/ Unlink(w) \/ CheckReaders(w) \/ Recycle(w) \/ Delete(w)

WriterStarts(w) == StartInsert(w) \/ StartSearch(w) \/ StartRemoveNode(w)

Next ==
    \/ \E r \in Readers : ReaderStarts(r) \/ ReaderStep(r)
    \/ \E w \in Writers : WriterStarts(w) \/ WriterStep(w)

Spec == Init /\ [][Next]_vars

----------------------------------------------------------------------------
(* Properties.                                                             *)

ReadingPCs == {"next", "done", "search", "compare", "searched"}

Reading(t) ==
    \/ pc[t] \in ReadingPCs
    \/ t \in Writers /\ op[t] \in {"remove_first", "reset"}

\* Every variable keeps its type.
TypeOK ==
    /\ allocated \subseteq Nodes
    /\ node \in [Nodes -> [value : Values, prev : Nodes \cup {NULL}, next : Nodes \cup {NULL}]]
    /\ {head, tail, free} \subseteq allocated \cup {NULL}
    /\ refcount = Cardinality({t \in Threads : Reading(t)})
    /\ writeLock \in Writers \cup {NULL}
    /\ cur \in [Threads -> Nodes \cup {NULL}]
    /\ arg \in [Writers -> Values]
    /\ unseen \in [Readers -> SUBSET Nodes] /\ lost \subseteq Readers

\* A thread that iterates never stands on deallocated memory, and neither
\* does any link it can follow, whatever writers remove meanwhile.
NoUseAfterFree ==
    \A t \in Threads : (Reading(t) /\ cur[t] # NULL) =>
        Chain(cur[t]) \subseteq allocated

\* From wherever a thread stands its links lead to NULL: an iteration in a
\* signal handler, which nothing can interrupt, cannot run in a circle.
IterationEnds ==
    \A t \in Threads : (Reading(t) /\ cur[t] # NULL) =>
        \E n \in Chain(cur[t]) : node[n].next = NULL

\* assert_list_valid: whenever no writer is at work the links agree in both
\* directions and _tail is the last node.
ListValid ==
    writeLock = NULL =>
        /\ \A n \in Chain(head) :
              /\ node[n].prev = NULL <=> n = head
              /\ node[n].next = NULL <=> n = tail
              /\ node[n].next # NULL => node[node[n].next].prev = n
        /\ head = NULL <=> tail = NULL

\* A node is on the list or on the free list, never on both: an insertion
\* does not recycle a node that readers reach through the list.
ListsDisjoint == Chain(head) \cap Chain(free) = {}

\* Whatever writers do beside an iteration, the list is one that readers can
\* follow to its end.
ListIsSound == TypeOK /\ ListValid /\ ListsDisjoint /\ IterationEnds

\* A reader comes by every node that is on the list from its start to its end
\* (PLCrashAsyncLinkedList.hpp:47, "a consistent view of the list for readers"),
\* with one exception: the removal of the node it stands on.  Any other iteration is complete, whatever else is inserted,
\* removed and recycled meanwhile.
UndisturbedViewIsComplete ==
    \A r \in Readers : (pc[r] = "done" /\ r \notin lost) => unseen[r] = {}
=============================================================================
