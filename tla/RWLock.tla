------------------------------- MODULE RWLock -------------------------------
(***************************************************************************)
(* What a readers-writer lock promises its clients: any number of readers  *)
(* or one writer.  This is the abstract specification CloudRWLock (the     *)
(* spin lock of GeneralTest) implements, and the lock that CloudLRUCache   *)
(* uses: there the lock's own loads and compare-and-swaps no longer        *)
(* matter, only the order in which it grants and takes back access.        *)
(***************************************************************************)
CONSTANT Threads     \* the threads that share the lock

VARIABLE holds       \* holds[t]: what thread t has been granted

Grants == {"nothing", "read", "write"}

Readers == {t \in Threads : holds[t] = "read"}
Writers == {t \in Threads : holds[t] = "write"}

Init == holds = [t \in Threads |-> "nothing"]

GrantRead(t) ==
    /\ holds[t] = "nothing"
    /\ Writers = {}
    /\ holds' = [holds EXCEPT ![t] = "read"]

GrantWrite(t) ==
    /\ holds[t] = "nothing"
    /\ Readers = {}
    /\ Writers = {}
    /\ holds' = [holds EXCEPT ![t] = "write"]

ReleaseRead(t) ==
    /\ holds[t] = "read"
    /\ holds' = [holds EXCEPT ![t] = "nothing"]

ReleaseWrite(t) ==
    /\ holds[t] = "write"
    /\ holds' = [holds EXCEPT ![t] = "nothing"]

Next == \E t \in Threads :
    GrantRead(t) \/ GrantWrite(t) \/ ReleaseRead(t) \/ ReleaseWrite(t)

Spec == Init /\ [][Next]_holds
=============================================================================
