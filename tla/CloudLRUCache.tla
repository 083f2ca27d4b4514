--------------------------- MODULE CloudLRUCache ---------------------------
(***************************************************************************)
(* The in-memory cache of GeneralTest/test/CloudLRUCache.m: a dictionary   *)
(* guarded by a CloudRWLock, shared by several threads.  The lock is the   *)
(* abstract readers-writer lock that CloudRWLock is shown to implement.    *)
(*                                                                         *)
(* What makes the cache hard is what it does outside the lock: the         *)
(* settings are plain ivars, and evictEntry decides on an unlocked count   *)
(* before it takes the lock to sort and evict.  So every access outside    *)
(* the lock is a step of its own; a locked section that only reads and     *)
(* writes guarded state starts together with the grant.                    *)
(***************************************************************************)
EXTENDS Integers, FiniteSets, SequencesExt

CONSTANTS Users,        \* the threads that use the cache
          Keys,         \* the keys they use
          Capacities,   \* values passed to setCapacity:, and the initial one
          Bursts,       \* values passed to setBurst:, and the initial one
          TTL,          \* defaultEntryTTL in seconds, -1 for none
          MaxTime,      \* bound on the clock
          ClockSteps,   \* how the wall clock may move; it can be set back
          NoEntry       \* nil, the entry of an absent key

ASSUME LRUAssumption ==
    /\ Capacities \subseteq Nat /\ Bursts \subseteq Nat \ {0}
    /\ TTL \in Int /\ MaxTime \in Nat /\ ClockSteps \subseteq Int
    /\ NoEntry \notin Keys /\ NoEntry \notin [time : Int, bornTime : Int]

VARIABLES cacheDict,   \* _cacheDict: key -> [time, bornTime]
          capacity,    \* _capacity
          burst,       \* _burst
          clock,       \* time(NULL)
          granted,     \* what _lock has granted to each thread
          at,          \* at[t]: the next step of the method t is inside
          key,         \* key[t]: its argument
          found,       \* found[t]: the entry objectForKey: got, and when
          limit,       \* limit[t]: burstCount in evictEntry
          order,       \* order[t]: sortedArray, and then the rest of evictArray
          first,       \* first[t]: evictRange.location
          crashed,     \* an NSRangeException ended the app
          disturbed    \* history: while t decided on an eviction, another thread
                       \* removed entries or changed the capacity

cacheVars == <<cacheDict, capacity, burst, clock, granted, at, key, found, limit,
               order, first, crashed, disturbed>>
locals == <<key, found, limit, order, first>>

Lock == INSTANCE RWLock WITH Threads <- Users, holds <- granted

NoLookup == [entry |-> NoEntry, now |-> 0]

CacheInit ==
    /\ cacheDict = << >>
    /\ capacity \in Capacities
    /\ burst \in Bursts
    /\ clock = 0
    /\ Lock!Init
    /\ at = [t \in Users |-> "idle"]
    /\ key = [t \in Users |-> NoEntry]
    /\ found = [t \in Users |-> NoLookup]
    /\ limit = [t \in Users |-> 0]
    /\ order = [t \in Users |-> << >>]
    /\ first = [t \in Users |-> 0]
    /\ crashed = FALSE
    /\ disturbed = [t \in Users |-> FALSE]

----------------------------------------------------------------------------
Goto(t, from, to) == at[t] = from /\ at' = [at EXCEPT ![t] = to]

\* A method returns; its locals are gone.
Return(t) ==
    /\ at' = [at EXCEPT ![t] = "idle"]
    /\ key' = [key EXCEPT ![t] = NoEntry]
    /\ found' = [found EXCEPT ![t] = NoLookup]
    /\ limit' = [limit EXCEPT ![t] = 0]
    /\ order' = [order EXCEPT ![t] = << >>]
    /\ first' = [first EXCEPT ![t] = 0]

\* A thread calls one of the methods that start by taking the lock.
Call(t) ==
    /\ \E m \in {"insert", "lookup", "remove", "clear"} : Goto(t, "idle", m)
    /\ \E k \in Keys : key' = [key EXCEPT ![t] = k]
    /\ UNCHANGED <<cacheDict, capacity, burst, clock, granted, found, limit,
                   order, first, crashed>>

\* setCapacity: and setBurst: write the ivar and go on to evict.
SetCapacity(t) ==
    /\ Goto(t, "idle", "limit")
    /\ capacity' \in Capacities
    /\ UNCHANGED <<cacheDict, burst, clock, granted, locals, crashed>>

SetBurst(t) ==
    /\ Goto(t, "idle", "limit")
    /\ burst' \in Bursts
    /\ UNCHANGED <<cacheDict, capacity, clock, granted, locals, crashed>>

\* cacheObject:forKey: keeps the entry a key already has.
CacheObject(t) ==
    /\ Lock!GrantWrite(t)
    /\ IF key[t] \in DOMAIN cacheDict
       THEN Goto(t, "insert", "unlock") /\ UNCHANGED cacheDict
       ELSE /\ Goto(t, "insert", "inserted")
            /\ cacheDict' = [k \in DOMAIN cacheDict \cup {key[t]} |->
                  IF k = key[t] THEN [time |-> clock, bornTime |-> clock]
                  ELSE cacheDict[k]]
    /\ UNCHANGED <<capacity, burst, clock, locals, crashed>>

\* Mutant: the method returns after the unlock, without evicting.
Inserted_NoEvict(t) ==
    /\ at[t] = "inserted"
    /\ Lock!ReleaseWrite(t)
    /\ Return(t)
    /\ UNCHANGED <<cacheDict, capacity, burst, clock, crashed>>

\* The insertion's unlock; evictEntry follows.
Inserted(t) ==
    /\ Goto(t, "inserted", "limit")
    /\ Lock!ReleaseWrite(t)
    /\ UNCHANGED <<cacheDict, capacity, burst, clock, locals, crashed>>

\* Mutant: the access time is written without the lock.
ObjectForKey_NoLock(t) ==
    /\ Goto(t, "lookup", "expiry")
    /\ LET k == key[t]
       IN  IF k \in DOMAIN cacheDict
           THEN /\ cacheDict' = [cacheDict EXCEPT ![k].time = clock]
                /\ found' = [found EXCEPT ![t] =
                                [entry |-> cacheDict'[k], now |-> clock]]
           ELSE UNCHANGED <<cacheDict, found>>
    /\ UNCHANGED <<capacity, burst, clock, granted, key, limit, order, first, crashed>>

\* objectForKey: writes the access time while it holds the lock for reading.
ObjectForKey(t) ==
    /\ Goto(t, "lookup", "looked")
    /\ Lock!GrantRead(t)
    /\ LET k == key[t]
       IN  IF k \in DOMAIN cacheDict
           THEN /\ cacheDict' = [cacheDict EXCEPT ![k].time = clock]
                /\ found' = [found EXCEPT ![t] =
                                [entry |-> cacheDict'[k], now |-> clock]]
           ELSE UNCHANGED <<cacheDict, found>>
    /\ UNCHANGED <<capacity, burst, clock, key, limit, order, first, crashed>>

Looked(t) ==
    /\ Goto(t, "looked", "expiry")
    /\ Lock!ReleaseRead(t)
    /\ UNCHANGED <<cacheDict, capacity, burst, clock, locals, crashed>>

\* The test as written: bornTime - now, not now - bornTime.
Expired(t) ==
    /\ TTL > 0
    /\ found[t].entry # NoEntry
    /\ found[t].entry.bornTime - found[t].now > TTL

\* An expired entry is removed (removeObjectForKey:, under the lock) ...
Expire(t) ==
    /\ Expired(t)
    /\ Goto(t, "expiry", "remove")
    /\ UNCHANGED <<cacheDict, capacity, burst, clock, granted, locals, crashed>>

\* ... and any other is returned.
ReturnEntry(t) ==
    /\ at[t] = "expiry"
    /\ ~Expired(t)
    /\ Return(t)
    /\ UNCHANGED <<cacheDict, capacity, burst, clock, granted, crashed>>

RemoveObjectForKey(t) ==
    /\ Goto(t, "remove", "unlock")
    /\ Lock!GrantWrite(t)
    /\ cacheDict' = RestrictDomain(cacheDict, LAMBDA k : k # key[t])
    /\ UNCHANGED <<capacity, burst, clock, locals, crashed>>

Clear(t) ==
    /\ Goto(t, "clear", "unlock")
    /\ Lock!GrantWrite(t)
    /\ cacheDict' = << >>
    /\ UNCHANGED <<capacity, burst, clock, locals, crashed>>

\* The unlockWrite that ends a method.
UnlockAndReturn(t) ==
    /\ at[t] = "unlock"
    /\ Lock!ReleaseWrite(t)
    /\ Return(t)
    /\ UNCHANGED <<cacheDict, capacity, burst, clock, crashed>>

----------------------------------------------------------------------------
(* evictEntry, after an insertion and after a change of the settings.      *)

Count == Cardinality(DOMAIN cacheDict)
BurstCount == capacity + capacity \div burst

\* burstCount is computed from the settings, without the lock ...
ReadSettings(t) ==
    /\ Goto(t, "limit", "count")
    /\ limit' = [limit EXCEPT ![t] = BurstCount]
    /\ UNCHANGED <<cacheDict, capacity, burst, clock, granted, key, found,
                   order, first, crashed>>

\* Mutant: evictEntry without its early return.
TestCount_Never(t) ==
    /\ Goto(t, "count", "evict")
    /\ UNCHANGED <<cacheDict, capacity, burst, clock, granted, locals, crashed>>

\* ... and compared with the count, also without it.
TestCount(t) ==
    /\ IF Count <= limit[t]
       THEN at[t] = "count" /\ Return(t)
       ELSE Goto(t, "count", "evict") /\ UNCHANGED locals
    /\ UNCHANGED <<cacheDict, capacity, burst, clock, granted, crashed>>

\* The dictionary's keys by descending access time.  Seconds are coarse: the
\* comparator calls equal times descending both ways, so they come in any order.
SortedByTime ==
    {s \in SetToSeqs(DOMAIN cacheDict) : \A i, j \in DOMAIN s :
        i < j => cacheDict[s[i]].time >= cacheDict[s[j]].time}

\* Under the lock: sort, and read _capacity for the range's location.
SortEntries(t) ==
    /\ Goto(t, "evict", "range")
    /\ Lock!GrantWrite(t)
    /\ \E s \in SortedByTime : order' = [order EXCEPT ![t] = s]
    /\ first' = [first EXCEPT ![t] = capacity]
    /\ UNCHANGED <<cacheDict, capacity, burst, clock, key, found, limit, crashed>>

\* subarrayWithRange: accepts {first, length}.  The length is unsigned: a
\* negative difference is a huge number.
RangeFits(n, location, length) ==
    length >= 0 /\ location <= n /\ length <= n - location

\* _capacity is read again for the length; a range that does not fit raises.
TakeRange(t) ==
    LET n == Len(order[t])
        length == n - capacity
    IN  /\ IF RangeFits(n, first[t], length)
           THEN /\ Goto(t, "range", "evicting")
                /\ order' = [order EXCEPT ![t] =
                                SubSeq(@, first[t] + 1, first[t] + length)]
                /\ UNCHANGED crashed
           ELSE /\ at[t] = "range"
                /\ crashed' = TRUE
                /\ UNCHANGED <<order, at>>
        /\ UNCHANGED <<cacheDict, capacity, burst, clock, granted, key, found,
                       limit, first>>

\* The victims leave the dictionary one after the other.
EvictNext(t) ==
    /\ at[t] = "evicting"
    /\ IF order[t] = << >>
       THEN at' = [at EXCEPT ![t] = "unlock"] /\ UNCHANGED <<cacheDict, order>>
       ELSE /\ cacheDict' = RestrictDomain(cacheDict, LAMBDA k : k # Head(order[t]))
            /\ order' = [order EXCEPT ![t] = Tail(@)]
            /\ UNCHANGED at
    /\ UNCHANGED <<capacity, burst, clock, granted, key, found, limit, first, crashed>>

----------------------------------------------------------------------------
Tick ==
    /\ \E d \in ClockSteps : clock' = clock + d /\ clock' \in 0 .. MaxTime
    /\ UNCHANGED <<cacheDict, capacity, burst, granted, at, locals, crashed>>

CacheStep(t) ==
    \/ Call(t) \/ SetCapacity(t) \/ SetBurst(t)
    \/ CacheObject(t) \/ Inserted(t)
    \/ ObjectForKey(t) \/ Looked(t) \/ Expire(t) \/ ReturnEntry(t)
    \/ RemoveObjectForKey(t) \/ Clear(t) \/ UnlockAndReturn(t)
    \/ ReadSettings(t) \/ TestCount(t)
    \/ SortEntries(t) \/ TakeRange(t) \/ EvictNext(t)

\* The bookkeeping of disturbed, which ends with the decision.
Disturb(t) ==
    disturbed' = [u \in Users |->
        /\ at'[u] \in {"count", "evict", "range"}
        /\ \/ disturbed[u]
           \/ t # u /\ (capacity' # capacity \/ DOMAIN cacheDict \ DOMAIN cacheDict' # {})]

CacheNext ==
    /\ ~crashed
    /\ \/ Tick /\ UNCHANGED disturbed
       \/ \E t \in Users : CacheStep(t) /\ Disturb(t)

CacheSpec == CacheInit /\ [][CacheNext]_cacheVars

----------------------------------------------------------------------------
(* Properties.                                                             *)

\* Every variable keeps its type; only a thread inside a locked section holds
\* the lock, and the kind of lock that section takes.
CacheTypeOK ==
    /\ DOMAIN cacheDict \subseteq Keys
    /\ \A k \in DOMAIN cacheDict :
          cacheDict[k] \in [time : 0 .. MaxTime, bornTime : 0 .. MaxTime]
    /\ capacity \in Capacities /\ burst \in Bursts
    /\ clock \in 0 .. MaxTime /\ crashed \in BOOLEAN
    /\ disturbed \in [Users -> BOOLEAN]
    /\ \A t \in Users :
          /\ key[t] \in Keys \cup {NoEntry} /\ limit[t] \in Nat /\ first[t] \in Nat
          /\ order[t] \in Seq(Keys)
          /\ granted[t] = IF at[t] = "looked" THEN "read"
                        ELSE IF at[t] \in {"inserted", "unlock", "range", "evicting"}
                        THEN "write" ELSE "nothing"

\* Whenever no thread is inside a method, the cache is within its burst
\* limit: every insertion and every change of the settings is followed by a
\* check that sees it, although the check reads count and settings unlocked.
QuiescentWithinBurst ==
    (~crashed /\ \A t \in Users : at[t] = "idle") => Count <= BurstCount

\* evictEntry evicts the entries used least recently: nothing that stays is
\* older than what goes, although lookups keep touching entries meanwhile.
\* (When setCapacity: comes between the two reads of _capacity, the range
\* stops short of the oldest entries; the first conjunct excludes that.)
VictimsAreOldest ==
    \A t \in Users :
        (at[t] = "evicting" /\ Count - Len(order[t]) = first[t]) =>
        \A v \in Range(order[t]) :
            /\ v \in DOMAIN cacheDict
            /\ \A k \in DOMAIN cacheDict \ Range(order[t]) :
                  cacheDict[v].time <= cacheDict[k].time

\* An eviction decides and removes under one write lock: what it chose is still
\* there and still the oldest when it goes.
EvictionIsSound == CacheTypeOK /\ VictimsAreOldest

\* evictEntry asks for a range that the sorted array does not have, and raises,
\* only if another thread shrank the dictionary or changed the capacity between
\* its unlocked test of the count and its range: an eviction that nobody
\* disturbs never raises, whatever it finds.  (One that is disturbed does raise,
\* against CloudLRUCache.m:150, "evicts everything beyond the capacity".)
OnlyInterferenceRaises ==
    crashed => \E t \in Users : at[t] = "range" /\ disturbed[t]
=============================================================================
