------------------------ MODULE CrashHandlerProofs -------------------------
(***************************************************************************)
(* Proofs about the two ways in which a crash comes to the reporter.       *)
(*                                                                         *)
(* Signal handlers, for any threads, signals and registrations, with       *)
(* signals at every point of them: who may leave the lock held; that the   *)
(* handler is never taken for the one it replaced, since an action of      *)
(* "ours" is registered, or about to be by who holds the lock; that a      *)
(* previous handler runs at most once; that a process which ends by its    *)
(* first signal leaves a whole report; and what a registration does to the *)
(* list.                                                                   *)
(*                                                                         *)
(* The Mach exception server, for any set of faulting threads and whatever *)
(* may fail: the owner frees the context only when the server thread is    *)
(* done with it, and the process does not end by an exception that has a   *)
(* signal without a complete report.                                       *)
(*                                                                         *)
(* A process is given one or the other, so the two share no variable and   *)
(* each has a specification of its own: Spec and ServerSpec.               *)
(***************************************************************************)
EXTENDS SignalHandler, MachExceptionServer, TLAPS

\* The types of what a registration looks at.
RegistrationTypes ==
    /\ action \in [Monitored -> Actions \cup {"ours"}]
    /\ previous \in Seq([signo : Monitored, action : Actions \cup {"ours"}])
    /\ mutex \in Threads \cup {NULL}
    /\ left \in [Threads -> Seq(Monitored \X UserKinds)]
    /\ pc \in [Threads -> {"idle", "check", "save", "prepend"}]
    /\ saved \in [Threads -> Actions \cup {"ours"}]
    /\ failed \subseteq Threads

\* A registration under way has something to register; it holds the lock until
\* it knows what it replaces; and the lock's holder is either at it or has failed.
LockIsHeld ==
    /\ \A t \in Threads : pc[t] # "idle" => left[t] # <<>>
    /\ \A t \in Threads : pc[t] \in {"check", "save"} => mutex = t
    /\ mutex # NULL => pc[mutex] \in {"check", "save"} \/ mutex \in failed

\* A signal that comes to the handler is registered, or just being.
OursIsKnown ==
    /\ \A s \in Monitored : action[s] = "ours" =>
          IsRegistered(s) \/ \E t \in Threads : pc[t] = "save" /\ Signo(t) = s
    /\ \A t \in Threads : pc[t] = "save" => saved[t] # "ours"

IInv == RegistrationTypes /\ LockIsHeld /\ OursIsKnown /\ NeverForwardsToItself

LEMMA SignoType ==
    ASSUME RegistrationTypes, NEW t \in Threads, left[t] # <<>>
    PROVE  Signo(t) \in Monitored
    BY DEF RegistrationTypes, Signo

LEMMA InvInit == Init => IInv
<1> SUFFICES ASSUME Init PROVE IInv
    OBVIOUS
<1> USE SignalAssumption
<1>1. RegistrationTypes
    BY DEF Init, RegistrationTypes, Actions
<1>2. LockIsHeld
    BY DEF Init, LockIsHeld
<1>3. OursIsKnown
    BY DEF Init, OursIsKnown, Actions
<1>4. NeverForwardsToItself
    BY DEF Init, NeverForwardsToItself
<1> QED
    BY <1>1, <1>2, <1>3, <1>4 DEF IInv

----------------------------------------------------------------------------
(* The steps of a registration.                                            *)

LEMMA Begins ==
    ASSUME IInv, NEW t \in Threads, BeginRegistration(t)
    PROVE  IInv'
<1> USE SignalAssumption DEF IInv
<1>1. /\ mutex = NULL /\ mutex' = t /\ left[t] # <<>> /\ pc' = [pc EXCEPT ![t] = "check"] /\ pc[t] = "idle"
      /\ UNCHANGED <<action, previous, left, saved, failed>>
    BY DEF BeginRegistration, Registering
<1>2. RegistrationTypes'
    BY <1>1 DEF RegistrationTypes
<1>3. LockIsHeld'
    BY <1>1 DEF LockIsHeld, RegistrationTypes
<1>4. OursIsKnown'
    BY <1>1 DEF OursIsKnown, RegistrationTypes, IsRegistered, Signo
<1> QED
    BY <1>1, <1>2, <1>3, <1>4 DEF NeverForwardsToItself

LEMMA Refuses ==
    ASSUME IInv, NEW t \in Threads, SigaltstackFails(t) \/ SigactionFails(t)
    PROVE  IInv'
<1> USE SignalAssumption DEF IInv
<1>1. /\ mutex' = t /\ pc[t] \in {"idle", "check"} /\ pc' = [pc EXCEPT ![t] = "idle"]
      /\ failed' = failed \cup {t} /\ left' = [left EXCEPT ![t] = <<>>]
      /\ mutex = NULL \/ mutex = t
      /\ UNCHANGED <<action, previous, saved>>
    BY DEF SigaltstackFails, SigactionFails, Refuse, LockIsHeld
<1>2. RegistrationTypes'
    BY <1>1 DEF RegistrationTypes
<1>3. LockIsHeld'
    BY <1>1 DEF LockIsHeld, RegistrationTypes
<1>4. OursIsKnown'
    BY <1>1 DEF OursIsKnown, RegistrationTypes, IsRegistered, Signo
<1> QED
    BY <1>1, <1>2, <1>3, <1>4 DEF NeverForwardsToItself

LEMMA FindsItRegistered ==
    ASSUME IInv, NEW t \in Threads, AlreadyRegistered(t)
    PROVE  IInv'
<1> USE SignalAssumption DEF IInv
<1>1. /\ mutex = t /\ mutex' = NULL /\ pc[t] = "check" /\ pc' = [pc EXCEPT ![t] = "prepend"]
      /\ UNCHANGED <<action, previous, left, saved, failed>>
    BY DEF AlreadyRegistered, LockIsHeld
<1>2. RegistrationTypes'
    BY <1>1 DEF RegistrationTypes
<1>3. LockIsHeld'
    BY <1>1 DEF LockIsHeld, RegistrationTypes
<1>4. OursIsKnown'
    <2>1. \A u \in Threads : pc'[u] = "save" => pc[u] = "save"
        BY <1>1 DEF RegistrationTypes
    <2>2. \A u \in Threads : pc[u] = "save" => pc'[u] = "save" /\ Signo(u)' = Signo(u)
        BY <1>1 DEF RegistrationTypes, Signo
    <2>3. \A s : IsRegistered(s)' <=> IsRegistered(s)
        BY <1>1 DEF IsRegistered
    <2>4. ASSUME NEW s \in Monitored, action'[s] = "ours"
          PROVE  IsRegistered(s)' \/ \E u \in Threads : pc'[u] = "save" /\ Signo(u)' = s
        BY <1>1, <2>2, <2>3, <2>4 DEF OursIsKnown
    <2>5. \A u \in Threads : pc'[u] = "save" => saved'[u] # "ours"
        BY <1>1, <2>1 DEF OursIsKnown
    <2> QED
        BY <2>4, <2>5 DEF OursIsKnown
<1> QED
    BY <1>1, <1>2, <1>3, <1>4 DEF NeverForwardsToItself

\* What is taken over was not the handler: it would be registered, or another
\* thread would hold the lock.
LEMMA TakesOver ==
    ASSUME IInv, NEW t \in Threads, Sigaction(t)
    PROVE  IInv'
<1> USE SignalAssumption DEF IInv
<1>1. /\ mutex = t /\ pc[t] = "check" /\ pc' = [pc EXCEPT ![t] = "save"]
      /\ saved' = [saved EXCEPT ![t] = action[Signo(t)]]
      /\ action' = [action EXCEPT ![Signo(t)] = "ours"]
      /\ UNCHANGED <<previous, mutex, left, failed>>
      /\ left[t] # <<>> /\ ~IsRegistered(Signo(t))
    BY DEF Sigaction, LockIsHeld, Registering
<1>2. Signo(t) \in Monitored
    BY <1>1, SignoType
<1>3. action[Signo(t)] # "ours"
    BY <1>1, <1>2 DEF OursIsKnown, LockIsHeld
<1>4. RegistrationTypes'
    BY <1>1, <1>2 DEF RegistrationTypes
<1>5. LockIsHeld'
    BY <1>1 DEF LockIsHeld, RegistrationTypes
<1>6. \A u \in Threads : Signo(u)' = Signo(u)
    BY <1>1 DEF Signo
<1>7. ASSUME NEW s \in Monitored, action'[s] = "ours"
      PROVE  IsRegistered(s)' \/ \E u \in Threads : pc'[u] = "save" /\ Signo(u)' = s
    <2>1. CASE s = Signo(t)
        BY <1>1, <1>6, <2>1 DEF RegistrationTypes
    <2>2. CASE s # Signo(t)
        <3>1. action[s] = "ours"
            BY <1>1, <1>2, <1>7, <2>2 DEF RegistrationTypes
        <3>2. IsRegistered(s)' <=> IsRegistered(s)
            BY <1>1 DEF IsRegistered
        <3>3. ASSUME NEW u \in Threads, pc[u] = "save", Signo(u) = s
              PROVE  pc'[u] = "save" /\ Signo(u)' = s
            <4>1. u # t
                BY <1>1, <3>3
            <4> QED
                BY <1>1, <1>6, <3>3, <4>1 DEF RegistrationTypes
        <3> QED
            BY <3>1, <3>2, <3>3 DEF OursIsKnown
    <2> QED
        BY <2>1, <2>2
<1>8. \A u \in Threads : pc'[u] = "save" => saved'[u] # "ours"
    BY <1>1, <1>3 DEF OursIsKnown, RegistrationTypes
<1>9. NeverForwardsToItself'
    BY <1>1 DEF NeverForwardsToItself
<1> QED
    BY <1>4, <1>5, <1>7, <1>8, <1>9 DEF OursIsKnown

LEMMA Saves ==
    ASSUME IInv, NEW t \in Threads, SavePrevious(t)
    PROVE  IInv'
<1> USE SignalAssumption DEF IInv
<1> DEFINE p == [signo |-> Signo(t), action |-> saved[t]]
<1>1. /\ mutex = t /\ mutex' = NULL /\ pc[t] = "save" /\ pc' = [pc EXCEPT ![t] = "prepend"]
      /\ previous' = Append(previous, p)
      /\ UNCHANGED <<action, left, saved, failed>>
      /\ left[t] # <<>>
    BY DEF SavePrevious, LockIsHeld, Registering
<1>2. /\ Signo(t) \in Monitored /\ saved[t] # "ours"
      /\ p \in [signo : Monitored, action : Actions \cup {"ours"}]
      /\ p.signo = Signo(t) /\ p.action # "ours"
    BY <1>1, SignoType DEF OursIsKnown, RegistrationTypes
<1> HIDE DEF p
<1>3. /\ previous' \in Seq([signo : Monitored, action : Actions \cup {"ours"}])
      /\ DOMAIN previous' = DOMAIN previous \cup {Len(previous) + 1}
      /\ \A i \in DOMAIN previous : previous'[i] = previous[i]
      /\ previous'[Len(previous) + 1] = p
    BY <1>1, <1>2 DEF RegistrationTypes
<1>4. RegistrationTypes'
    BY <1>1, <1>3 DEF RegistrationTypes
<1>5. LockIsHeld'
    BY <1>1 DEF LockIsHeld, RegistrationTypes
<1>6. /\ \A u \in Threads : Signo(u)' = Signo(u)
      /\ \A s \in Monitored : IsRegistered(s) => IsRegistered(s)'
      /\ IsRegistered(Signo(t))'
    <2>1. \A u \in Threads : Signo(u)' = Signo(u)
        BY <1>1 DEF Signo
    <2>2. \A s \in Monitored : IsRegistered(s) => IsRegistered(s)'
        BY <1>3 DEF IsRegistered
    <2>3. IsRegistered(Signo(t))'
        BY <1>2, <1>3, <2>1 DEF IsRegistered
    <2> QED
        BY <2>1, <2>2, <2>3
<1>7. OursIsKnown'
    BY <1>1, <1>6 DEF OursIsKnown, RegistrationTypes
<1>8. NeverForwardsToItself'
    BY <1>2, <1>3 DEF NeverForwardsToItself
<1> QED
    BY <1>4, <1>5, <1>7, <1>8

LEMMA Prepends ==
    ASSUME IInv, NEW t \in Threads, PrependCallback(t)
    PROVE  IInv'
<1> USE SignalAssumption DEF IInv
<1>1. /\ pc[t] = "prepend" /\ pc' = [pc EXCEPT ![t] = "idle"] /\ left[t] # <<>>
      /\ left' = [left EXCEPT ![t] = Tail(@)]
      /\ UNCHANGED <<action, previous, mutex, saved, failed>>
    BY DEF PrependCallback, Registering
<1>2. RegistrationTypes'
    BY <1>1 DEF RegistrationTypes
<1>3. LockIsHeld'
    BY <1>1 DEF LockIsHeld, RegistrationTypes
<1>4. \A u \in Threads \ {t} : Signo(u)' = Signo(u) /\ pc'[u] = pc[u]
    BY <1>1 DEF Signo, RegistrationTypes
<1>5. ASSUME NEW u \in Threads, pc'[u] = "save"
      PROVE  u # t
    BY <1>1, <1>5 DEF RegistrationTypes
<1>6. ASSUME NEW s \in Monitored, action'[s] = "ours"
      PROVE  IsRegistered(s)' \/ \E u \in Threads : pc'[u] = "save" /\ Signo(u)' = s
    <2>1. IsRegistered(s)' <=> IsRegistered(s)
        BY <1>1 DEF IsRegistered
    <2>2. ASSUME NEW u \in Threads, pc[u] = "save", Signo(u) = s
          PROVE  pc'[u] = "save" /\ Signo(u)' = s
        BY <1>1, <1>4, <2>2
    <2> QED
        BY <1>1, <1>6, <2>1, <2>2 DEF OursIsKnown
<1>7. \A u \in Threads : pc'[u] = "save" => saved'[u] # "ours"
    BY <1>1, <1>4, <1>5 DEF OursIsKnown
<1>8. OursIsKnown'
    BY <1>6, <1>7 DEF OursIsKnown
<1> QED
    BY <1>1, <1>2, <1>3, <1>8 DEF NeverForwardsToItself

----------------------------------------------------------------------------
(* The steps of a handler; and all of them.                                *)

LEMMA SameRegistration ==
    ASSUME IInv, UNCHANGED <<previous, registration>>,
           action' = action \/ action' = [s \in Monitored |-> "dfl"]
    PROVE  IInv'
<1> USE SignalAssumption DEF IInv, registration
<1>1. RegistrationTypes' /\ LockIsHeld' /\ NeverForwardsToItself'
    BY DEF RegistrationTypes, Actions, LockIsHeld, NeverForwardsToItself
<1>2. OursIsKnown'
    BY DEF OursIsKnown, IsRegistered, Signo
<1> QED
    BY <1>1, <1>2

LEMMA InvPreserved == IInv /\ [Next]_vars => IInv'
<1> SUFFICES ASSUME IInv, [Next]_vars PROVE IInv'
    OBVIOUS
<1>1. ASSUME NEW t \in Threads, Register(t)
      PROVE  IInv'
    BY <1>1, Begins, Refuses, FindsItRegistered, TakesOver, Saves, Prepends DEF Register
<1>2. ASSUME NEW t \in Threads, Handle(t)
      PROVE  /\ UNCHANGED <<previous, registration>>
             /\ action' = action \/ action' = [s \in Monitored |-> "dfl"]
    BY <1>2 DEF Handle, CallNext, ReturnFromCallback, Handled, Raise, ResetHandlers, OpenReport,
                SuspendThreads, ResumeThreads, FlushReport
<1>3. ASSUME NEW t \in Threads, NEW s \in yet[t], Deliver(t, s)
      PROVE  UNCHANGED <<previous, registration, action>>
    BY <1>3 DEF Deliver
<1>4. CASE UNCHANGED vars
    BY <1>4, SameRegistration DEF vars
<1> QED
    BY <1>1, <1>2, <1>3, <1>4, SameRegistration DEF Next

\* registerHandlers is left locked only by a registration that has failed.
THEOREM LockIsReleased == Spec => []MutexIsReleased
<1>1. IInv => MutexIsReleased
    BY DEF IInv, LockIsHeld, MutexIsReleased
<1> QED
    BY <1>1, InvInit, InvPreserved, PTL DEF Spec

\* plcrash_signal_handler is never stored in previous_actions.
THEOREM NoSelfForwarding == Spec => []NeverForwardsToItself
<1>1. IInv => NeverForwardsToItself
    BY DEF IInv
<1> QED
    BY <1>1, InvInit, InvPreserved, PTL DEF Spec
----------------------------------------------------------------------------
(* Lists: a node has an identity.                                          *)

Listed(node) == \E i \in DOMAIN callbacks : callbacks[i] = node

\* No node twice: they were numbered as they came.
Numbered(s) ==
    /\ s \in Seq(Callback) /\ IsInjective(s)
    /\ \A i \in DOMAIN s : s[i].id < Len(s)

Keeps(s, r) == \A i \in DOMAIN s : \E j \in DOMAIN r : r[j] = s[i]

StandsOnNodes(stack) == \A i \in DOMAIN stack : Listed(stack[i])

LEMMA ExtendedAtEnd ==
    ASSUME NEW s, Numbered(s), NEW n \in Callback, n.id = Len(s)
    PROVE  Numbered(Append(s, n)) /\ Keeps(s, Append(s, n))
<1> DEFINE r == Append(s, n)
<1>1. s \in Seq(Callback) /\ IsInjective(s) /\ Len(s) \in Nat
    BY DEF Numbered
<1> HIDE DEF r
<1>2. r = Append(s, n)
    BY DEF r
<1>3. /\ r \in Seq(Callback) /\ Len(r) = Len(s) + 1 /\ DOMAIN r = 1..Len(s) + 1 /\ DOMAIN s = 1..Len(s)
      /\ \A i \in 1..Len(s) : r[i] = s[i]
      /\ r[Len(s) + 1] = n
    BY <1>1, <1>2
<1>4. \A i \in 1..Len(s) : s[i].id \in Nat /\ s[i].id < Len(s)
    <2>1. \A c \in Callback : c.id \in Nat
        BY DEF Callback
    <2>2. \A i \in 1..Len(s) : s[i] \in Callback
        BY <1>1
    <2> QED
        BY <1>3, <2>1, <2>2 DEF Numbered
<1>5. \A i \in DOMAIN r : r[i].id < Len(r)
    BY <1>1, <1>3, <1>4
<1>6. ASSUME NEW i \in DOMAIN r, NEW j \in DOMAIN r, r[i] = r[j]
      PROVE  i = j
    <2>1. CASE i \in 1..Len(s) /\ j \in 1..Len(s)
        BY <1>1, <1>3, <1>6, <2>1 DEF IsInjective
    <2>2. CASE i = Len(s) + 1 \/ j = Len(s) + 1
        BY <1>1, <1>3, <1>4, <1>6, <2>2
    <2> QED
        BY <1>1, <1>3, <2>1, <2>2
<1>7. IsInjective(r)
    BY <1>6 DEF IsInjective
<1>8. Keeps(s, r)
    BY <1>1, <1>3 DEF Keeps
<1>9. Numbered(r)
    BY <1>3, <1>5, <1>7 DEF Numbered
<1> QED
    BY <1>8, <1>9 DEF r

LEMMA ExtendedAtHead ==
    ASSUME NEW s, Numbered(s), NEW n \in Callback, n.id = Len(s)
    PROVE  Numbered(<<n>> \o s) /\ Keeps(s, <<n>> \o s)
<1> DEFINE r == <<n>> \o s
<1>1. s \in Seq(Callback) /\ IsInjective(s) /\ Len(s) \in Nat
    BY DEF Numbered
<1> HIDE DEF r
<1>2. r = <<n>> \o s /\ <<n>> \in Seq(Callback) /\ Len(<<n>>) = 1 /\ <<n>>[1] = n
    BY DEF r
<1>3. /\ r \in Seq(Callback) /\ Len(r) = Len(s) + 1 /\ DOMAIN r = 1..Len(s) + 1 /\ DOMAIN s = 1..Len(s)
      /\ \A i \in 1..Len(s) : r[i + 1] = s[i]
      /\ r[1] = n
    BY <1>1, <1>2
<1>4. \A i \in 1..Len(s) : s[i].id \in Nat /\ s[i].id < Len(s)
    <2>1. \A c \in Callback : c.id \in Nat
        BY DEF Callback
    <2>2. \A i \in 1..Len(s) : s[i] \in Callback
        BY <1>1
    <2> QED
        BY <1>3, <2>1, <2>2 DEF Numbered
<1>5. \A i \in DOMAIN r : i = 1 \/ (i - 1 \in 1..Len(s) /\ r[i] = s[i - 1])
    BY <1>1, <1>3
<1>6. \A i \in DOMAIN r : r[i].id < Len(r)
    BY <1>1, <1>3, <1>4, <1>5
<1>7. ASSUME NEW i \in DOMAIN r, NEW j \in DOMAIN r, r[i] = r[j]
      PROVE  i = j
    <2>1. CASE i - 1 \in 1..Len(s) /\ r[i] = s[i - 1] /\ j - 1 \in 1..Len(s) /\ r[j] = s[j - 1]
        <3>1. i - 1 \in DOMAIN s /\ j - 1 \in DOMAIN s /\ s[i - 1] = s[j - 1]
            BY <1>3, <1>7, <2>1
        <3>2. i - 1 = j - 1
            BY <1>1, <3>1 DEF IsInjective
        <3> QED
            BY <1>1, <1>3, <3>2
    <2>2. CASE i = 1 \/ j = 1
        BY <1>1, <1>3, <1>4, <1>5, <1>7, <2>2
    <2> QED
        BY <1>5, <2>1, <2>2
<1>8. IsInjective(r)
    BY <1>7 DEF IsInjective
<1>9. ASSUME NEW i \in DOMAIN s
      PROVE  \E j \in DOMAIN r : r[j] = s[i]
    <2>1. i + 1 \in DOMAIN r /\ r[i + 1] = s[i]
        BY <1>1, <1>3
    <2> QED
        BY <2>1
<1>10. Numbered(r)
    BY <1>3, <1>6, <1>8 DEF Numbered
<1> QED
    BY <1>9, <1>10 DEF r, Keeps

\* Interrupted handlers are a stack.
LEMMA StackFact ==
    ASSUME NEW S, NEW q \in Seq(S), q # <<>>
    PROVE  /\ Last(q) = q[Len(q)] /\ Len(q) \in DOMAIN q /\ Last(q) \in S
           /\ Front(q) \in Seq(S)
           /\ \A i \in DOMAIN Front(q) : i \in DOMAIN q /\ Front(q)[i] = q[i]
    BY DEF Last, Front

----------------------------------------------------------------------------
(* Handlers: their types, and the nodes of the list that they stand on.    *)

HandlerTypes ==
    /\ yet \in [Threads -> SUBSET Monitored]
    /\ crash \in [Threads -> Monitored \cup {NULL}]
    /\ frames \in [Threads -> Seq(Callback)]
    /\ phase \in [Threads -> HandlerPhases \cup {"none"}]
    /\ result \in [Threads -> BOOLEAN]
    /\ ran \in [Threads -> Nat]
    /\ interrupted \in [Threads -> Seq(Interrupted)]
    /\ \A t \in Threads : crash[t] = NULL <=> phase[t] = "none"
    /\ \A t \in Threads : crash[t] = NULL => interrupted[t] = <<>>

HandlersStandOnNodes ==
    \A t \in Threads :
        /\ StandsOnNodes(frames[t])
        /\ \A i \in DOMAIN interrupted[t] : StandsOnNodes(interrupted[t][i].frames)

ListInv == Numbered(callbacks) /\ HandlerTypes /\ HandlersStandOnNodes

\* A longer list keeps what handlers stand on.
LEMMA ListGrows ==
    ASSUME ListInv, UNCHANGED <<yet, delivery>>, Numbered(callbacks'), Keeps(callbacks, callbacks')
    PROVE  ListInv'
<1>1. HandlerTypes'
    BY DEF ListInv, HandlerTypes, delivery
<1>2. ASSUME NEW stack, StandsOnNodes(stack)
      PROVE  \A i \in DOMAIN stack : \E j \in DOMAIN callbacks' : callbacks'[j] = stack[i]
    BY <1>2 DEF StandsOnNodes, Listed, Keeps
<1>3. HandlersStandOnNodes'
    <2>1. frames' = frames /\ interrupted' = interrupted
        BY DEF delivery
    <2>2. ASSUME NEW t \in Threads
          PROVE  /\ \A i \in DOMAIN frames[t] : \E j \in DOMAIN callbacks' : callbacks'[j] = frames[t][i]
                 /\ \A n \in DOMAIN interrupted[t] : \A i \in DOMAIN interrupted[t][n].frames :
                        \E j \in DOMAIN callbacks' : callbacks'[j] = interrupted[t][n].frames[i]
        BY <1>2 DEF ListInv, HandlersStandOnNodes
    <2> QED
        BY <2>1, <2>2 DEF HandlersStandOnNodes, StandsOnNodes, Listed
<1> QED
    BY <1>1, <1>3 DEF ListInv

\* internal_callback_iterator finds its node in the list, and nodes behind it.
LEMMA SuccessorsAreListed ==
    ASSUME ListInv, NEW t \in Threads
    PROVE  /\ Successors(t) \in Seq(Callback)
           /\ Successors(t) # <<>> => Successors(t)[1] \in Callback /\ Listed(Successors(t)[1])
<1>0. /\ callbacks \in Seq(Callback) /\ frames[t] \in Seq(Callback)
      /\ \A i \in DOMAIN frames[t] : Listed(frames[t][i])
    BY DEF ListInv, Numbered, HandlerTypes, HandlersStandOnNodes, StandsOnNodes
<1>1. CASE frames[t] = <<>>
    BY <1>0, <1>1 DEF Successors, Listed
<1>2. CASE frames[t] # <<>>
    <2> DEFINE i == CHOOSE i \in DOMAIN callbacks : callbacks[i] = Last(frames[t])
               n == Len(callbacks)
               after == SubSeq(callbacks, i + 1, n)
    <2>1. Len(frames[t]) \in DOMAIN frames[t]
        BY <1>0, <1>2
    <2>2. \E j \in DOMAIN callbacks : callbacks[j] = Last(frames[t])
        BY <1>0, <2>1 DEF Listed, Last
    <2>3. i \in 1..n /\ n \in Nat
        BY <1>0, <2>2
    <2>4. Successors(t) = after
        BY <1>2 DEF Successors
    <2> HIDE DEF i
    <2>5. after \in Seq(Callback) /\ (after # <<>> => i + 1 \in 1..n /\ after[1] = callbacks[i + 1])
        BY <1>0, <2>3
    <2> QED
        BY <1>0, <2>3, <2>4, <2>5 DEF Listed
<1> QED
    BY <1>1, <1>2

\* A step within a handler that calls nobody and returns from nobody.
LEMMA ListStays ==
    ASSUME ListInv, NEW t \in Threads, phase[t] # "none", NEW ph \in HandlerPhases, NEW r \in BOOLEAN,
           phase' = [phase EXCEPT ![t] = ph], result' = [result EXCEPT ![t] = r],
           UNCHANGED <<callbacks, yet, crash, frames, ran, interrupted>>
    PROVE  ListInv'
<1>1. HandlerTypes'
    BY DEF ListInv, HandlerTypes, HandlerPhases
<1>2. HandlersStandOnNodes'
    BY DEF ListInv, HandlersStandOnNodes, StandsOnNodes, Listed
<1> QED
    BY <1>1, <1>2 DEF ListInv

LEMMA ListOfCall ==
    ASSUME ListInv, NEW t \in Threads, CallNext(t)
    PROVE  ListInv'
<1>1. phase[t] = "call" /\ UNCHANGED <<callbacks, yet, crash, ran, interrupted>>
    BY DEF CallNext, Handling
<1>2. /\ phase = [phase EXCEPT ![t] = "call"] /\ result = [result EXCEPT ![t] = result[t]]
      /\ result[t] \in BOOLEAN
    BY <1>1 DEF ListInv, HandlerTypes
<1>3. PICK ph \in HandlerPhases, r \in BOOLEAN :
          phase' = [phase EXCEPT ![t] = ph] /\ result' = [result EXCEPT ![t] = r]
    <2>1. \/ \E r \in BOOLEAN : phase' = [phase EXCEPT ![t] = "return"] /\ result' = [result EXCEPT ![t] = r]
          \/ phase' = [phase EXCEPT ![t] = "reset"] /\ result' = result
          \/ phase' = phase /\ result' = result
        BY DEF CallNext, Return
    <2> QED
        BY <1>2, <2>1 DEF HandlerPhases
<1>4. CASE frames' = frames
    BY <1>1, <1>3, <1>4, ListStays
<1>5. CASE Successors(t) # <<>> /\ frames' = [frames EXCEPT ![t] = Append(@, Successors(t)[1])]
    <2> DEFINE n == Successors(t)[1]
    <2>1. n \in Callback /\ Listed(n)
        BY <1>5, SuccessorsAreListed
    <2>2. frames' = [frames EXCEPT ![t] = Append(@, n)]
        BY <1>5
    <2> HIDE DEF n
    <2>3. HandlerTypes'
        BY <1>1, <1>3, <2>1, <2>2 DEF ListInv, HandlerTypes, HandlerPhases
    <2>4. \A u \in Threads : StandsOnNodes(frames'[u])
        BY <2>1, <2>2 DEF ListInv, HandlersStandOnNodes, StandsOnNodes, HandlerTypes
    <2>5. HandlersStandOnNodes'
        BY <1>1, <2>4 DEF ListInv, HandlersStandOnNodes, StandsOnNodes, Listed
    <2> QED
        BY <1>1, <2>3, <2>5 DEF ListInv
<1> QED
    BY <1>4, <1>5 DEF CallNext

LEMMA ListOfReturn ==
    ASSUME ListInv, NEW t \in Threads, ReturnFromCallback(t)
    PROVE  ListInv'
<1> DEFINE found == Previous(crash[t])
           search == Last(frames[t]).kind = "previous" /\ ~result[t] /\ found # <<>>
           more == IF search /\ found[1].action = "handler" THEN 1 ELSE 0
           handled == result[t] \/ (search /\ found[1].action # "dfl")
<1>1. /\ frames[t] # <<>> /\ frames' = [frames EXCEPT ![t] = Front(@)]
      /\ UNCHANGED <<callbacks, yet, crash, phase, interrupted>>
    BY DEF ReturnFromCallback
<1>2. /\ result' = [result EXCEPT ![t] = handled] /\ handled \in BOOLEAN
      /\ ran' = [ran EXCEPT ![t] = ran[t] + more] /\ more \in Nat
    BY DEF ReturnFromCallback, ListInv, HandlerTypes
<1> HIDE DEF more, handled
<1>3. /\ Front(frames[t]) \in Seq(Callback)
      /\ \A i \in DOMAIN Front(frames[t]) : i \in DOMAIN frames[t] /\ Front(frames[t])[i] = frames[t][i]
    <2>1. frames[t] \in Seq(Callback)
        BY DEF ListInv, HandlerTypes
    <2> QED
        BY <1>1, <2>1, StackFact
<1>4. HandlerTypes'
    BY <1>1, <1>2, <1>3 DEF ListInv, HandlerTypes
<1>5. StandsOnNodes(Front(frames[t]))
    BY <1>3 DEF ListInv, HandlersStandOnNodes, StandsOnNodes
<1>6. \A u \in Threads : StandsOnNodes(frames'[u])
    BY <1>1, <1>5 DEF ListInv, HandlersStandOnNodes, HandlerTypes
<1>7. HandlersStandOnNodes'
    BY <1>1, <1>6 DEF ListInv, HandlersStandOnNodes, StandsOnNodes, Listed
<1> QED
    BY <1>1, <1>4, <1>7 DEF ListInv

\* The handler that is entered stands nowhere; the one it interrupts, where it stood.
LEMMA ListOfEnter ==
    ASSUME ListInv, NEW t \in Threads, NEW s \in Monitored, Enter(t, s),
           UNCHANGED callbacks, yet' \in [Threads -> SUBSET Monitored]
    PROVE  ListInv'
<1> USE SignalAssumption
<1>1. CASE crash[t] = NULL
    <2>1. /\ interrupted' = interrupted /\ crash' = [crash EXCEPT ![t] = s] /\ frames' = [frames EXCEPT ![t] = <<>>]
          /\ phase' = [phase EXCEPT ![t] = "call"] /\ ran' = [ran EXCEPT ![t] = 0] /\ result' = result
        BY <1>1 DEF Enter, ListInv, HandlerTypes
    <2>2. HandlerTypes'
        BY <2>1 DEF ListInv, HandlerTypes, HandlerPhases
    <2>3. HandlersStandOnNodes'
        BY <2>1 DEF ListInv, HandlersStandOnNodes, StandsOnNodes, Listed, HandlerTypes
    <2> QED
        BY <2>2, <2>3 DEF ListInv
<1>2. CASE crash[t] # NULL
    <2> DEFINE h == Activation(t)
    <2>1. /\ interrupted' = [interrupted EXCEPT ![t] = Append(@, h)]
          /\ crash' = [crash EXCEPT ![t] = s] /\ frames' = [frames EXCEPT ![t] = <<>>]
          /\ phase' = [phase EXCEPT ![t] = "call"] /\ ran' = [ran EXCEPT ![t] = 0] /\ result' = result
        BY <1>2 DEF Enter
    <2>2. h \in Interrupted /\ h.frames = frames[t]
        BY <1>2 DEF Activation, Interrupted, ListInv, HandlerTypes
    <2>3. StandsOnNodes(h.frames)
        BY <2>2 DEF ListInv, HandlersStandOnNodes
    <2> HIDE DEF h
    <2>4. interrupted' \in [Threads -> Seq(Interrupted)]
        BY <2>1, <2>2 DEF ListInv, HandlerTypes
    <2>5. HandlerTypes'
        BY <2>1, <2>4 DEF ListInv, HandlerTypes, HandlerPhases
    <2>6. \A u \in Threads : StandsOnNodes(frames'[u])
        BY <2>1 DEF ListInv, HandlersStandOnNodes, StandsOnNodes, HandlerTypes
    <2>7. \A u \in Threads : \A i \in DOMAIN interrupted'[u] : StandsOnNodes(interrupted'[u][i].frames)
        BY <2>1, <2>2, <2>3 DEF ListInv, HandlersStandOnNodes, HandlerTypes
    <2>8. HandlersStandOnNodes'
        BY <2>6, <2>7 DEF HandlersStandOnNodes, StandsOnNodes, Listed
    <2> QED
        BY <2>5, <2>8 DEF ListInv
<1> QED
    BY <1>1, <1>2

LEMMA ListOfLeave ==
    ASSUME ListInv, NEW t \in Threads, Leave(t), UNCHANGED <<callbacks, yet>>
    PROVE  ListInv'
<1> USE SignalAssumption
<1>1. CASE interrupted[t] = <<>>
    <2>1. /\ crash' = [crash EXCEPT ![t] = NULL] /\ phase' = [phase EXCEPT ![t] = "none"]
          /\ UNCHANGED <<frames, result, ran, interrupted>>
        BY <1>1 DEF Leave
    <2>2. HandlerTypes'
        BY <1>1, <2>1 DEF ListInv, HandlerTypes, HandlerPhases
    <2>3. HandlersStandOnNodes'
        BY <2>1 DEF ListInv, HandlersStandOnNodes, StandsOnNodes, Listed
    <2> QED
        BY <2>2, <2>3 DEF ListInv
<1>2. CASE interrupted[t] # <<>>
    <2> DEFINE h == Last(interrupted[t])
    <2>1. /\ crash' = [crash EXCEPT ![t] = h.crash] /\ frames' = [frames EXCEPT ![t] = h.frames]
          /\ phase' = [phase EXCEPT ![t] = h.phase] /\ result' = [result EXCEPT ![t] = h.result]
          /\ ran' = [ran EXCEPT ![t] = h.ran] /\ interrupted' = [interrupted EXCEPT ![t] = Front(@)]
        BY <1>2 DEF Leave
    <2>2. /\ h \in Interrupted /\ \E i \in DOMAIN interrupted[t] : h = interrupted[t][i]
          /\ Front(interrupted[t]) \in Seq(Interrupted)
          /\ \A i \in DOMAIN Front(interrupted[t]) :
                i \in DOMAIN interrupted[t] /\ Front(interrupted[t])[i] = interrupted[t][i]
        <3>1. interrupted[t] \in Seq(Interrupted)
            BY DEF ListInv, HandlerTypes
        <3>2. /\ h = interrupted[t][Len(interrupted[t])] /\ Len(interrupted[t]) \in DOMAIN interrupted[t]
              /\ h \in Interrupted
            BY <1>2, <3>1, StackFact
        <3>3. /\ Front(interrupted[t]) \in Seq(Interrupted)
              /\ \A i \in DOMAIN Front(interrupted[t]) :
                    i \in DOMAIN interrupted[t] /\ Front(interrupted[t])[i] = interrupted[t][i]
            BY <1>2, <3>1, StackFact
        <3> HIDE DEF h
        <3> QED
            BY <3>2, <3>3
    <2>3. StandsOnNodes(h.frames)
        BY <2>2 DEF ListInv, HandlersStandOnNodes
    <2>4. /\ h.crash \in Monitored /\ h.crash # NULL /\ h.frames \in Seq(Callback) /\ h.phase \in HandlerPhases
          /\ h.phase # "none" /\ h.result \in BOOLEAN /\ h.ran \in Nat
        BY <2>2 DEF Interrupted, HandlerPhases
    <2> HIDE DEF h
    <2>5. crash[t] # NULL
        BY <1>2 DEF ListInv, HandlerTypes
    <2>6. HandlerTypes'
        BY <2>1, <2>2, <2>4 DEF ListInv, HandlerTypes
    <2>7. \A u \in Threads : StandsOnNodes(frames'[u])
        BY <2>1, <2>3 DEF ListInv, HandlersStandOnNodes, HandlerTypes
    <2>8. \A u \in Threads : \A i \in DOMAIN interrupted'[u] : StandsOnNodes(interrupted'[u][i].frames)
        BY <2>1, <2>2 DEF ListInv, HandlersStandOnNodes, HandlerTypes
    <2>9. HandlersStandOnNodes'
        BY <2>7, <2>8 DEF HandlersStandOnNodes, StandsOnNodes, Listed
    <2> QED
        BY <2>6, <2>9 DEF ListInv
<1> QED
    BY <1>1, <1>2

LEMMA ListOfHandler ==
    ASSUME ListInv, NEW t \in Threads, Handle(t)
    PROVE  ListInv'
<1>1. CASE Handled(t)
    BY <1>1, ListOfLeave DEF Handled
<1>2. CASE Raise(t) \/ ResetHandlers(t) \/ OpenReport(t) \/ SuspendThreads(t) \/ ResumeThreads(t) \/ FlushReport(t)
    <2>1. /\ phase[t] # "none" /\ UNCHANGED <<callbacks, yet, crash, frames, ran, interrupted>>
          /\ \E ph \in HandlerPhases : phase' = [phase EXCEPT ![t] = ph]
        BY <1>2 DEF Raise, ResetHandlers, OpenReport, SuspendThreads, ResumeThreads, FlushReport, Return,
                    Handling, HandlerPhases, ListInv, HandlerTypes
    <2>2. \E r \in BOOLEAN : result' = [result EXCEPT ![t] = r]
        <3>1. result' = result \/ result' = [result EXCEPT ![t] = FALSE]
            BY <1>2 DEF Raise, ResetHandlers, OpenReport, SuspendThreads, ResumeThreads, FlushReport, Return
        <3>2. result = [result EXCEPT ![t] = result[t]] /\ result[t] \in BOOLEAN
            BY DEF ListInv, HandlerTypes
        <3> QED
            BY <3>1, <3>2
    <2> QED
        BY <2>1, <2>2, ListStays
<1> QED
    BY <1>1, <1>2, ListOfCall, ListOfReturn DEF Handle

LEMMA ListOfDelivery ==
    ASSUME ListInv, NEW t \in Threads, NEW s \in yet[t], Deliver(t, s)
    PROVE  ListInv'
<1>1. /\ s \in Monitored /\ yet' = [yet EXCEPT ![t] = @ \ {s}] /\ callbacks' = callbacks
      /\ yet' \in [Threads -> SUBSET Monitored]
    BY DEF Deliver, ListInv, HandlerTypes
<1>2. CASE UNCHANGED delivery
    BY <1>1, <1>2 DEF delivery, ListInv, HandlerTypes, HandlersStandOnNodes, StandsOnNodes, Listed
<1>3. CASE Enter(t, s)
    BY <1>1, <1>3, ListOfEnter
<1> QED
    BY <1>2, <1>3 DEF Deliver

\* A registration changes nothing of a signal's delivery.
LEMMA RegistrationIsQuiet ==
    ASSUME NEW t \in Threads, Register(t)
    PROVE  UNCHANGED <<yet, delivery, report, alive>>
    BY DEF Register, BeginRegistration, SigaltstackFails, SigactionFails, Refuse, AlreadyRegistered,
           Sigaction, SavePrevious, PrependCallback

LEMMA ListOfRegistration ==
    ASSUME IInv, ListInv, NEW t \in Threads, Register(t)
    PROVE  ListInv'
<1> USE SignalAssumption
<1>1. UNCHANGED <<yet, delivery>>
    BY RegistrationIsQuiet
<1>2. ASSUME BeginRegistration(t)
      PROVE  ListInv'
    <2> DEFINE n == Node("previous")
    <2>1. callbacks' = Append(callbacks, n)
        BY <1>2 DEF BeginRegistration
    <2>2. n \in Callback /\ n.id = Len(callbacks)
        BY DEF Node, Callback, ListInv, Numbered
    <2> HIDE DEF n
    <2>3. Numbered(callbacks') /\ Keeps(callbacks, callbacks')
        BY <2>1, <2>2, ExtendedAtEnd DEF ListInv
    <2> QED
        BY <1>1, <2>3, ListGrows
<1>3. ASSUME PrependCallback(t)
      PROVE  ListInv'
    <2> DEFINE n == Node(Kind(t))
    <2>1. callbacks' = <<n>> \o callbacks
        BY <1>3 DEF PrependCallback
    <2>2. n \in Callback /\ n.id = Len(callbacks)
        <3>1. Kind(t) \in UserKinds
            BY <1>3 DEF PrependCallback, Registering, Kind, IInv, RegistrationTypes
        <3> QED
            BY <3>1 DEF Node, Callback, ListInv, Numbered
    <2> HIDE DEF n
    <2>3. Numbered(callbacks') /\ Keeps(callbacks, callbacks')
        BY <2>1, <2>2, ExtendedAtHead DEF ListInv
    <2> QED
        BY <1>1, <2>3, ListGrows
<1>4. ASSUME ~BeginRegistration(t), ~PrependCallback(t)
      PROVE  UNCHANGED <<callbacks, yet, delivery>>
    BY <1>1, <1>4 DEF Register, SigaltstackFails, SigactionFails, AlreadyRegistered, Sigaction, SavePrevious
<1>5. ASSUME UNCHANGED <<callbacks, yet, delivery>>
      PROVE  ListInv'
    BY <1>5 DEF delivery, ListInv, HandlerTypes, HandlersStandOnNodes, StandsOnNodes, Listed
<1> QED
    BY <1>2, <1>3, <1>4, <1>5

LEMMA ListStep == IInv /\ ListInv /\ [Next]_vars => ListInv'
<1> SUFFICES ASSUME IInv, ListInv, [Next]_vars PROVE ListInv'
    OBVIOUS
<1>1. CASE UNCHANGED vars
    BY <1>1 DEF vars, delivery, ListInv, HandlerTypes, HandlersStandOnNodes, StandsOnNodes, Listed
<1> QED
    BY <1>1, ListOfHandler, ListOfDelivery, ListOfRegistration DEF Next

LEMMA ListInit == Init => ListInv
<1> USE SignalAssumption
<1> SUFFICES ASSUME Init PROVE ListInv
    OBVIOUS
<1>1. Numbered(callbacks)
    BY DEF Init, Numbered, IsInjective
<1>2. HandlerTypes
    BY DEF Init, HandlerTypes
<1>3. HandlersStandOnNodes
    BY DEF Init, HandlersStandOnNodes, StandsOnNodes
<1> QED
    BY <1>1, <1>2, <1>3 DEF ListInv

----------------------------------------------------------------------------
(* The chain of callbacks on one signal.                                   *)

\* Once a previous handler has run, the callbacks only return, with YES.
RanOnce(n, ph, r) == n = 0 \/ (n = 1 /\ (ph = "none" \/ (ph = "return" /\ r)))

RanMeansHandled ==
    \A t \in Threads :
        /\ RanOnce(ran[t], phase[t], result[t])
        /\ \A i \in DOMAIN interrupted[t] :
              RanOnce(interrupted[t][i].ran, interrupted[t][i].phase, interrupted[t][i].result)

\* A step of the innermost handler of a thread.
LEMMA InnermostRan ==
    ASSUME HandlerTypes, RanMeansHandled, NEW t \in Threads,
           \A u \in Threads \ {t} : ran'[u] = ran[u] /\ phase'[u] = phase[u] /\ result'[u] = result[u],
           RanOnce(ran'[t], phase'[t], result'[t]), interrupted' = interrupted
    PROVE  RanMeansHandled'
    BY DEF RanMeansHandled

\* The step of a thread that is not about to return leaves the count at zero.
LEMMA Goes ==
    ASSUME HandlerTypes, RanMeansHandled, NEW t \in Threads, phase[t] \notin {"none", "return"},
           \A u \in Threads \ {t} : phase'[u] = phase[u] /\ result'[u] = result[u],
           UNCHANGED <<ran, interrupted>>
    PROVE  RanMeansHandled'
<1>1. ran'[t] = 0
    BY DEF RanMeansHandled, RanOnce
<1> QED
    BY <1>1, InnermostRan DEF RanOnce

LEMMA Calls ==
    ASSUME HandlerTypes, RanMeansHandled, NEW t \in Threads, CallNext(t)
    PROVE  RanMeansHandled'
<1>1. phase[t] = "call" /\ UNCHANGED <<ran, interrupted>>
    BY DEF CallNext, Handling
<1>2. \A u \in Threads \ {t} : phase'[u] = phase[u] /\ result'[u] = result[u]
    BY DEF CallNext, Return, HandlerTypes
<1> QED
    BY <1>1, <1>2, Goes

\* The saved handler runs only if nobody has handled the signal, and handles it.
LEMMA Returns ==
    ASSUME HandlerTypes, RanMeansHandled, NEW t \in Threads, ReturnFromCallback(t)
    PROVE  RanMeansHandled'
<1> DEFINE found == Previous(crash[t])
           search == Last(frames[t]).kind = "previous" /\ ~result[t] /\ found # <<>>
           more == IF search /\ found[1].action = "handler" THEN 1 ELSE 0
           handled == result[t] \/ (search /\ found[1].action # "dfl")
<1>1. /\ phase[t] = "return" /\ phase' = phase /\ interrupted' = interrupted
      /\ result' = [result EXCEPT ![t] = handled]
      /\ ran' = [ran EXCEPT ![t] = ran[t] + more]
    BY DEF ReturnFromCallback, Handling
<1>2. more \in {0, 1} /\ handled \in BOOLEAN
    BY DEF HandlerTypes
<1>3. more = 1 => ~result[t] /\ handled
    OBVIOUS
<1>4. result[t] => handled
    OBVIOUS
<1> HIDE DEF more, handled
<1>5. ran[t] = 0 \/ (ran[t] = 1 /\ result[t])
    BY <1>1 DEF RanMeansHandled, RanOnce
<1>6. ran'[t] = ran[t] + more /\ result'[t] = handled /\ phase'[t] = "return"
    BY <1>1 DEF HandlerTypes
<1>7. RanOnce(ran'[t], phase'[t], result'[t])
    BY <1>2, <1>3, <1>4, <1>5, <1>6 DEF RanOnce
<1> QED
    BY <1>1, <1>7, InnermostRan DEF HandlerTypes

\* A signal that is raised again was handled by nobody.
LEMMA Raises ==
    ASSUME HandlerTypes, RanMeansHandled, NEW t \in Threads, Raise(t)
    PROVE  RanMeansHandled'
<1>1. /\ phase[t] = "return" /\ ~result[t] /\ UNCHANGED <<ran, result, interrupted>>
      /\ \A u \in Threads \ {t} : phase'[u] = phase[u]
    BY DEF Raise, Handling, HandlerTypes
<1>2. ran'[t] = 0
    BY <1>1 DEF RanMeansHandled, RanOnce
<1> QED
    BY <1>1, <1>2, InnermostRan DEF RanOnce

\* What a thread goes on with is as it was when it was interrupted.
LEMMA Leaves ==
    ASSUME HandlerTypes, RanMeansHandled, NEW t \in Threads, Handled(t)
    PROVE  RanMeansHandled'
<1>1. CASE interrupted[t] = <<>>
    <2>1. /\ phase[t] = "return" /\ phase' = [phase EXCEPT ![t] = "none"] /\ UNCHANGED <<ran, result, interrupted>>
        BY <1>1 DEF Handled, Handling, Leave
    <2>2. ran[t] \in {0, 1}
        BY <2>1 DEF RanMeansHandled, RanOnce
    <2> QED
        BY <2>1, <2>2, InnermostRan DEF RanOnce, HandlerTypes
<1>2. CASE interrupted[t] # <<>>
    <2> DEFINE h == Last(interrupted[t])
    <2>1. /\ phase' = [phase EXCEPT ![t] = h.phase] /\ result' = [result EXCEPT ![t] = h.result]
          /\ ran' = [ran EXCEPT ![t] = h.ran] /\ interrupted' = [interrupted EXCEPT ![t] = Front(@)]
        BY <1>2 DEF Handled, Leave
    <2>2. /\ \E i \in DOMAIN interrupted[t] : h = interrupted[t][i]
          /\ \A i \in DOMAIN Front(interrupted[t]) :
                i \in DOMAIN interrupted[t] /\ Front(interrupted[t])[i] = interrupted[t][i]
        <3>1. interrupted[t] \in Seq(Interrupted)
            BY DEF HandlerTypes
        <3> QED
            BY <1>2, <3>1, StackFact
    <2>3. RanOnce(h.ran, h.phase, h.result)
        BY <2>2 DEF RanMeansHandled
    <2> HIDE DEF h
    <2>4. \A u \in Threads : RanOnce(ran'[u], phase'[u], result'[u])
        BY <2>1, <2>3 DEF RanMeansHandled, HandlerTypes
    <2>5. \A u \in Threads : \A i \in DOMAIN interrupted'[u] :
              RanOnce(interrupted'[u][i].ran, interrupted'[u][i].phase, interrupted'[u][i].result)
        BY <2>1, <2>2 DEF RanMeansHandled, HandlerTypes
    <2> QED
        BY <2>4, <2>5 DEF RanMeansHandled
<1> QED
    BY <1>1, <1>2

LEMMA Reports ==
    ASSUME HandlerTypes, RanMeansHandled, NEW t \in Threads,
           ResetHandlers(t) \/ OpenReport(t) \/ SuspendThreads(t) \/ ResumeThreads(t) \/ FlushReport(t)
    PROVE  RanMeansHandled'
<1>1. /\ phase[t] \notin {"none", "return"} /\ UNCHANGED <<ran, interrupted>>
      /\ \A u \in Threads \ {t} : phase'[u] = phase[u] /\ result'[u] = result[u]
    BY DEF ResetHandlers, OpenReport, SuspendThreads, ResumeThreads, FlushReport, Return, Handling, HandlerTypes
<1> QED
    BY <1>1, Goes

LEMMA Delivers ==
    ASSUME HandlerTypes, RanMeansHandled, NEW t \in Threads, NEW s \in yet[t], Deliver(t, s)
    PROVE  RanMeansHandled'
<1>1. CASE UNCHANGED delivery
    BY <1>1 DEF delivery, RanMeansHandled
<1>2. CASE Enter(t, s)
    <2> DEFINE h == Activation(t)
    <2>1. /\ phase' = [phase EXCEPT ![t] = "call"] /\ ran' = [ran EXCEPT ![t] = 0] /\ result' = result
          /\ \/ interrupted' = interrupted
             \/ crash[t] # NULL /\ interrupted' = [interrupted EXCEPT ![t] = Append(@, h)]
        BY <1>2 DEF Enter, HandlerTypes
    <2>2. RanOnce(h.ran, h.phase, h.result) /\ (crash[t] # NULL => h \in Interrupted)
        BY DEF Activation, RanMeansHandled, Interrupted, HandlerTypes
    <2> HIDE DEF h
    <2>3. \A u \in Threads : RanOnce(ran'[u], phase'[u], result'[u])
        BY <2>1 DEF RanMeansHandled, HandlerTypes, RanOnce
    <2>4. \A u \in Threads : \A i \in DOMAIN interrupted'[u] :
              RanOnce(interrupted'[u][i].ran, interrupted'[u][i].phase, interrupted'[u][i].result)
        <3>1. CASE interrupted' = interrupted
            BY <3>1 DEF RanMeansHandled
        <3>2. CASE crash[t] # NULL /\ interrupted' = [interrupted EXCEPT ![t] = Append(@, h)]
            <4>1. ASSUME NEW i \in DOMAIN interrupted'[t]
                  PROVE  interrupted'[t][i] = h
                         \/ (i \in DOMAIN interrupted[t] /\ interrupted'[t][i] = interrupted[t][i])
                BY <2>2, <3>2 DEF HandlerTypes
            <4>2. \A u \in Threads \ {t} : interrupted'[u] = interrupted[u]
                BY <3>2 DEF HandlerTypes
            <4> QED
                BY <2>2, <4>1, <4>2 DEF RanMeansHandled
        <3> QED
            BY <2>1, <3>1, <3>2
    <2> QED
        BY <2>3, <2>4 DEF RanMeansHandled
<1> QED
    BY <1>1, <1>2 DEF Deliver

LEMMA ChainStep == HandlerTypes /\ RanMeansHandled /\ [Next]_vars => RanMeansHandled'
<1> SUFFICES ASSUME HandlerTypes, RanMeansHandled, [Next]_vars PROVE RanMeansHandled'
    OBVIOUS
<1>1. ASSUME UNCHANGED delivery
      PROVE  RanMeansHandled'
    BY <1>1 DEF delivery, RanMeansHandled
<1>2. ASSUME NEW t \in Threads, Handle(t)
      PROVE  RanMeansHandled'
    BY <1>2, Calls, Returns, Leaves, Raises, Reports DEF Handle
<1>3. CASE UNCHANGED vars
    BY <1>1, <1>3 DEF vars
<1> QED
    BY <1>1, <1>2, <1>3, Delivers, RegistrationIsQuiet DEF Next

\* However many callbacks pass a signal through, however often it is raised again, and
\* whatever handlers interrupt one another, the handler that was there before runs for
\* a signal at most once.
THEOREM PreviousOnce == Spec => []PreviousRunsOnce
<1>1. Init => RanMeansHandled
    BY DEF Init, RanMeansHandled, RanOnce
<1>2. RanMeansHandled => PreviousRunsOnce
    BY DEF RanMeansHandled, RanOnce, PreviousRunsOnce
<1>3. ListInv => HandlerTypes
    BY DEF ListInv
<1> QED
    BY <1>1, <1>2, <1>3, InvInit, InvPreserved, ListInit, ListStep, ChainStep, PTL DEF Spec

----------------------------------------------------------------------------
(* The report of a lone crash.                                             *)

\* Until a first signal nothing takes a registered one away from the handler.
AllOurs ==
    /\ \A s \in Monitored : IsRegistered(s) => action[s] = "ours"
    /\ \A u \in Threads : pc[u] = "save" => action[Signo(u)] = "ours"

Accounted == file = "complete" \/ unopened

\* Once one signal s has hit a thread t, and no other any thread: t alone handles it; the
\* report that it writes is its own; and s ends the process only when that is written.
Alone(t, s) ==
    /\ \A u \in Threads : interrupted[u] = <<>> /\ (u # t => crash[u] = NULL)
    /\ crash[t] \in {NULL, s}
    /\ phase[t] \in {"suspend", "write", "flush"} => opener = <<t, 0>>
    /\ phase[t] \in {"call", "return", "reset"} => action[s] = "ours" \/ Accounted
    /\ ~alive => Accounted \/ (crash[t] = NULL /\ ~IsRegistered(s))

LoneInv ==
    /\ \A t \in Threads : yet[t] \subseteq CrashOn[t]
    /\ Delivered = {} => AllOurs /\ \A u \in Threads : crash[u] = NULL
    /\ \A t \in Threads, s \in Monitored : Delivered = {<<t, s>>} => Alone(t, s)

\* A registration takes no signal away, and what it registers it has taken.
LEMMA RegistrationTakes ==
    ASSUME IInv, NEW t \in Threads, Register(t)
    PROVE  /\ alive /\ \A s \in Monitored : action[s] = "ours" => action'[s] = "ours"
           /\ AllOurs => AllOurs'
<1>1. alive
    BY DEF Register, BeginRegistration, SigaltstackFails, SigactionFails, AlreadyRegistered, Sigaction,
           SavePrevious, PrependCallback, Registering, Runs
<1>2. CASE Sigaction(t)
    <2>1. /\ action' = [action EXCEPT ![Signo(t)] = "ours"] /\ pc' = [pc EXCEPT ![t] = "save"]
          /\ UNCHANGED <<previous, left>> /\ left[t] # <<>>
        BY <1>2 DEF Sigaction, Registering
    <2>2. Signo(t) \in Monitored
        BY <2>1, SignoType DEF IInv
    <2>3. \A s \in Monitored : action[s] = "ours" => action'[s] = "ours"
        BY <2>1 DEF IInv, RegistrationTypes
    <2>4. ASSUME AllOurs PROVE AllOurs'
        <3>1. \A s \in Monitored : IsRegistered(s)' => action'[s] = "ours"
            BY <2>1, <2>3, <2>4 DEF AllOurs, IsRegistered
        <3>2. \A u \in Threads : pc'[u] = "save" => action'[Signo(u)'] = "ours"
            <4> TAKE u \in Threads
            <4>1. CASE u = t
                BY <2>1, <2>2, <4>1 DEF Signo, IInv, RegistrationTypes
            <4>2. CASE u # t /\ pc'[u] = "save"
                <5>1. pc[u] = "save" /\ Signo(u)' = Signo(u) /\ left[u] # <<>>
                    BY <2>1, <4>2 DEF Signo, IInv, RegistrationTypes, LockIsHeld
                <5>2. Signo(u) \in Monitored
                    BY <5>1, SignoType DEF IInv
                <5> QED
                    BY <2>3, <2>4, <5>1, <5>2 DEF AllOurs
            <4> QED
                BY <4>1, <4>2
        <3> QED
            BY <3>1, <3>2 DEF AllOurs
    <2> QED
        BY <1>1, <2>3, <2>4
<1>3. CASE SavePrevious(t)
    <2>1. /\ pc[t] = "save" /\ pc' = [pc EXCEPT ![t] = "prepend"] /\ UNCHANGED <<action, left>>
          /\ previous' = Append(previous, [signo |-> Signo(t), action |-> saved[t]])
        BY <1>3 DEF SavePrevious
    <2>2. \A s : IsRegistered(s)' => IsRegistered(s) \/ s = Signo(t)
        BY <2>1 DEF IsRegistered, IInv, RegistrationTypes
    <2>3. \A u \in Threads : pc'[u] = "save" => pc[u] = "save" /\ Signo(u)' = Signo(u)
        BY <2>1 DEF Signo, IInv, RegistrationTypes
    <2> QED
        BY <1>1, <2>1, <2>2, <2>3 DEF AllOurs
<1>4. CASE ~Sigaction(t) /\ ~SavePrevious(t)
    <2>1. /\ UNCHANGED <<action, previous>>
          /\ \A u \in Threads : pc'[u] = "save" => pc[u] = "save" /\ left'[u] = left[u]
        BY <1>4 DEF Register, BeginRegistration, SigaltstackFails, SigactionFails, Refuse, AlreadyRegistered,
                    PrependCallback, IInv, RegistrationTypes
    <2> QED
        BY <1>1, <2>1 DEF AllOurs, IsRegistered, Signo
<1> QED
    BY <1>2, <1>3, <1>4

LEMMA LoneRegistration ==
    ASSUME IInv, LoneInv, NEW t \in Threads, Register(t)
    PROVE  LoneInv'
<1>1. UNCHANGED <<yet, delivery, report, alive>>
    BY RegistrationIsQuiet
<1>2. Delivered' = Delivered
    BY <1>1 DEF Delivered
<1>3. /\ alive /\ \A s \in Monitored : action[s] = "ours" => action'[s] = "ours"
      /\ AllOurs => AllOurs'
    BY RegistrationTakes
<1>4. ASSUME NEW u \in Threads, NEW s \in Monitored, Alone(u, s)
      PROVE  Alone(u, s)'
    BY <1>1, <1>3, <1>4 DEF Alone, Accounted, delivery, report
<1>5. crash' = crash /\ yet' = yet
    BY <1>1 DEF delivery
<1> QED
    BY <1>2, <1>3, <1>4, <1>5 DEF LoneInv

\* The handler of the only signal.
LEMMA LoneHandler ==
    ASSUME HandlerTypes, NEW t \in Threads, NEW s \in Monitored, Alone(t, s), Handle(t)
    PROVE  Alone(t, s)'
<1> USE SignalAssumption
<1>1. /\ alive /\ phase[t] # "none" /\ crash[t] = s /\ interrupted[t] = <<>>
    BY DEF Alone, HandlerTypes, Handle, CallNext, ReturnFromCallback, Handled, Raise, ResetHandlers, OpenReport,
           SuspendThreads, ResumeThreads, FlushReport, Handling, Runs
<1>2. CASE Handled(t)
    <2>1. /\ crash' = [crash EXCEPT ![t] = NULL] /\ phase' = [phase EXCEPT ![t] = "none"]
          /\ UNCHANGED <<interrupted, alive>>
        BY <1>1, <1>2 DEF Handled, Leave
    <2> QED
        BY <1>1, <2>1 DEF Alone, HandlerTypes
<1>3. CASE CallNext(t) \/ ReturnFromCallback(t)
    <2>1. /\ phase[t] \in {"call", "return"} /\ phase'[t] \in {"call", "return", "reset"}
          /\ UNCHANGED <<crash, interrupted, action, report, alive>>
        BY <1>3 DEF CallNext, ReturnFromCallback, Handling, Return, HandlerTypes
    <2> QED
        BY <1>1, <2>1 DEF Alone, Accounted, report
<1>4. CASE Raise(t)
    <2>1. /\ phase[t] = "return" /\ phase'[t] \in {"call", "return"}
          /\ alive' => action[s] = "ours" \/ Accounted
          /\ ~alive' => action[s] # "ours"
          /\ UNCHANGED <<crash, interrupted, action, report>>
        BY <1>1, <1>4 DEF Raise, Handling, HandlerTypes, Alone
    <2> QED
        BY <1>1, <2>1 DEF Alone, Accounted, report
<1>5. CASE ResetHandlers(t)
    <2>1. phase'[t] = "open" /\ UNCHANGED <<crash, interrupted, alive>>
        BY <1>5 DEF ResetHandlers, HandlerTypes
    <2> QED
        BY <1>1, <2>1 DEF Alone
<1>6. CASE OpenReport(t)
    <2>1. /\ \/ phase'[t] = "suspend" /\ opener' = Handler(t)
             \/ phase'[t] = "return" /\ unopened'
          /\ UNCHANGED <<crash, interrupted, alive>>
        BY <1>6 DEF OpenReport, Return, HandlerTypes
    <2>2. Handler(t) = <<t, 0>>
        BY <1>1 DEF Handler
    <2> QED
        BY <1>1, <2>1, <2>2 DEF Alone, Accounted
<1>7. CASE SuspendThreads(t) \/ ResumeThreads(t)
    <2>1. /\ phase[t] \in {"suspend", "write"} /\ phase'[t] \in {"write", "flush"}
          /\ UNCHANGED <<crash, interrupted, action, report, alive>>
        BY <1>7 DEF SuspendThreads, ResumeThreads, Handling, HandlerTypes
    <2> QED
        BY <1>1, <2>1 DEF Alone, report
<1>8. CASE FlushReport(t)
    <2>1. /\ phase[t] = "flush" /\ phase'[t] = "return" /\ (opener = Handler(t) => file' = "complete")
          /\ UNCHANGED <<crash, interrupted, alive>>
        BY <1>8 DEF FlushReport, Handling, Return, HandlerTypes
    <2>2. opener = <<t, 0>> /\ Handler(t) = <<t, 0>>
        BY <1>1, <2>1 DEF Alone, Handler
    <2> QED
        BY <1>1, <2>1, <2>2 DEF Alone, Accounted
<1> QED
    BY <1>2, <1>3, <1>4, <1>5, <1>6, <1>7, <1>8 DEF Handle

LEMMA HandlingThread ==
    ASSUME HandlerTypes, NEW t \in Threads, Handle(t)
    PROVE  crash[t] # NULL /\ yet' = yet
    BY DEF HandlerTypes, Handle, CallNext, ReturnFromCallback, Handled, Raise, ResetHandlers, OpenReport,
           SuspendThreads, ResumeThreads, FlushReport, Handling

\* A signal that hits a thread is a further one, or the first.
LEMMA LoneDelivery ==
    ASSUME HandlerTypes, LoneInv, NEW t \in Threads, NEW s \in yet[t], Deliver(t, s)
    PROVE  LoneInv'
<1> USE SignalAssumption
<1>1. /\ s \in Monitored /\ s \in CrashOn[t] /\ yet' = [yet EXCEPT ![t] = yet[t] \ {s}] /\ alive
      /\ \A u \in Threads : yet'[u] \subseteq CrashOn[u]
    BY DEF Deliver, HandlerTypes, LoneInv, Runs
<1>2. Delivered' = Delivered \cup {<<t, s>>} /\ <<t, s>> \notin Delivered
    <2>1. \A u, r : <<u, r>> \in Delivered <=> u \in Threads /\ r \in CrashOn[u] \ yet[u]
        BY DEF Delivered
    <2>2. \A u, r : <<u, r>> \in Delivered' <=> u \in Threads /\ r \in CrashOn[u] \ yet'[u]
        BY DEF Delivered
    <2>3. \A x \in Delivered : \E u, r : x = <<u, r>>
        BY DEF Delivered
    <2>4. \A x \in Delivered' : \E u, r : x = <<u, r>>
        BY DEF Delivered
    <2>5. \A u, r : <<u, r>> \in Delivered' <=> <<u, r>> \in Delivered \/ (u = t /\ r = s)
        <3>1. ASSUME NEW u \in Threads, NEW r
              PROVE  r \in CrashOn[u] \ yet'[u] <=> r \in CrashOn[u] \ yet[u] \/ (u = t /\ r = s)
            <4>1. CASE u = t
                BY <1>1, <4>1 DEF HandlerTypes
            <4>2. CASE u # t
                BY <1>1, <4>2 DEF HandlerTypes
            <4> QED
                BY <4>1, <4>2
        <3> QED
            BY <2>1, <2>2, <3>1
    <2>6. \A x : x \in Delivered' <=> x \in Delivered \/ x = <<t, s>>
        <3>1. ASSUME NEW x \in Delivered' PROVE x \in Delivered \/ x = <<t, s>>
            <4>1. PICK u, r : x = <<u, r>>
                BY <2>4
            <4> QED
                BY <2>5, <3>1, <4>1
        <3>2. ASSUME NEW x \in Delivered PROVE x \in Delivered'
            <4>1. PICK u, r : x = <<u, r>>
                BY <2>3
            <4> QED
                BY <2>5, <3>2, <4>1
        <3>3. <<t, s>> \in Delivered'
            BY <2>5
        <3> QED
            BY <3>1, <3>2, <3>3
    <2>7. <<t, s>> \notin Delivered
        BY <2>1
    <2> QED
        BY <2>6, <2>7
<1>3. CASE Delivered # {}
    BY <1>1, <1>2, <1>3 DEF LoneInv
<1>5. ASSUME Delivered = {}, Alone(t, s)' PROVE LoneInv'
    <2>1. Delivered' = {<<t, s>>}
        BY <1>2, <1>5
    <2>2. ASSUME NEW u \in Threads, NEW r \in Monitored, Delivered' = {<<u, r>>}
          PROVE  Alone(u, r)'
        <3>1. <<u, r>> \in {<<t, s>>}
            BY <2>1, <2>2
        <3>2. u = t /\ r = s
            BY <3>1
        <3> QED
            BY <1>5, <3>2
    <2> QED
        BY <1>1, <2>1, <2>2 DEF LoneInv
<1>4. CASE Delivered = {}
    <2>1. AllOurs /\ \A u \in Threads : crash[u] = NULL /\ interrupted[u] = <<>> /\ phase[u] = "none"
        BY <1>4 DEF LoneInv, HandlerTypes
    <2>2. UNCHANGED <<action, previous>>
        BY DEF Deliver
    <2>3. CASE action[s] = "dfl" /\ ~alive' /\ UNCHANGED delivery
        <3>1. ~IsRegistered(s)' /\ UNCHANGED <<crash, phase, interrupted>>
            BY <1>1, <2>1, <2>2, <2>3 DEF AllOurs, IsRegistered, delivery
        <3>2. Alone(t, s)'
            BY <2>1, <3>1 DEF Alone
        <3> QED
            BY <1>4, <1>5, <3>2
    <2>4. CASE action[s] = "ours" /\ Enter(t, s) /\ alive' = alive
        <3>1. /\ interrupted' = interrupted /\ crash' = [crash EXCEPT ![t] = s]
              /\ phase' = [phase EXCEPT ![t] = "call"]
            BY <2>1, <2>4 DEF Enter, HandlerTypes
        <3>2. Alone(t, s)'
            BY <1>1, <2>1, <2>2, <2>4, <3>1 DEF Alone, HandlerTypes
        <3> QED
            BY <1>4, <1>5, <3>2
    <2> QED
        BY <2>3, <2>4 DEF Deliver
<1> QED
    BY <1>3, <1>4

LEMMA LoneStep == IInv /\ HandlerTypes /\ LoneInv /\ [Next]_vars => LoneInv'
<1> SUFFICES ASSUME IInv, HandlerTypes, LoneInv, [Next]_vars PROVE LoneInv'
    OBVIOUS
<1>1. ASSUME NEW t \in Threads, Handle(t)
      PROVE  LoneInv'
    <2>1. crash[t] # NULL /\ yet' = yet /\ Delivered' = Delivered
        BY <1>1, HandlingThread DEF Delivered
    <2>2. Delivered # {}
        BY <2>1 DEF LoneInv
    <2>3. ASSUME NEW u \in Threads, NEW s \in Monitored, Delivered' = {<<u, s>>}
          PROVE  Alone(u, s)'
        <3>1. Alone(u, s)
            BY <2>1, <2>3 DEF LoneInv
        <3>2. u = t
            BY <2>1, <3>1 DEF Alone
        <3> QED
            BY <1>1, <3>1, <3>2, LoneHandler
    <2> QED
        BY <2>1, <2>2, <2>3 DEF LoneInv
<1>2. CASE UNCHANGED vars
    <2>1. Delivered' = Delivered /\ (AllOurs <=> AllOurs')
        BY <1>2 DEF vars, registration, Delivered, AllOurs, IsRegistered, Signo
    <2>2. \A t \in Threads, s \in Monitored : Alone(t, s) => Alone(t, s)'
        BY <1>2 DEF vars, delivery, report, Alone, Accounted, IsRegistered
    <2>3. yet' = yet /\ crash' = crash
        BY <1>2 DEF vars, delivery
    <2> QED
        BY <2>1, <2>2, <2>3 DEF LoneInv
<1> QED
    BY <1>1, <1>2, LoneRegistration, LoneDelivery DEF Next

LEMMA LoneInit == Init => LoneInv
<1> USE SignalAssumption
<1> SUFFICES ASSUME Init PROVE LoneInv
    OBVIOUS
<1>1. AllOurs
    BY DEF Init, AllOurs, IsRegistered
<1>2. Delivered = {}
    BY DEF Init, Delivered
<1>3. (\A t \in Threads : yet[t] \subseteq CrashOn[t]) /\ \A u \in Threads : crash[u] = NULL
    BY DEF Init
<1> QED
    BY <1>1, <1>2, <1>3 DEF LoneInv

\* A process that ends by the first signal that hits it, and before a second one does,
\* has written a whole report; or could not open it; or the signal came before anybody
\* had registered for it.  Registrations of other threads, in whatever order, and
\* the one that the signal interrupts, make no difference.
THEOREM LoneCrash == Spec => []LoneCrashIsReported
<1>1. LoneInv => LoneCrashIsReported
    BY DEF LoneInv, LoneCrashIsReported, Alone, Accounted
<1>2. ListInv => HandlerTypes
    BY DEF ListInv
<1> QED
    BY <1>1, <1>2, InvInit, InvPreserved, ListInit, ListStep, LoneInit, LoneStep, PTL DEF Spec

----------------------------------------------------------------------------
(* What a registration leaves behind.                                      *)

\* What only the report and the end of the process are about.
RestTypes ==
    /\ file \in {"none", "partial", "mixed", "complete"}
    /\ opener \in (Threads \X Nat) \cup {NULL} /\ unopened \in BOOLEAN
    /\ alive \in BOOLEAN

LEMMA RestStep == HandlerTypes /\ RestTypes /\ [Next]_vars => RestTypes'
<1> SUFFICES ASSUME HandlerTypes, RestTypes, [Next]_vars PROVE RestTypes'
    OBVIOUS
<1>1. ASSUME NEW t \in Threads, Handle(t)
      PROVE  RestTypes'
    <2>1. Handler(t) \in Threads \X Nat
        BY DEF Handler, HandlerTypes
    <2> QED
        BY <1>1, <2>1 DEF RestTypes, Handle, CallNext, ReturnFromCallback, Handled, Raise, ResetHandlers, OpenReport,
                    SuspendThreads, ResumeThreads, FlushReport, report
<1>2. ASSUME NEW t \in Threads, NEW s \in yet[t], Deliver(t, s)
      PROVE  RestTypes'
    BY <1>2 DEF RestTypes, Deliver, report
<1>3. ASSUME NEW t \in Threads, Register(t)
      PROVE  RestTypes'
    BY <1>3, RegistrationIsQuiet DEF RestTypes, report
<1> QED
    BY <1>1, <1>2, <1>3 DEF RestTypes, Next, vars, report

\* Registrations that are interrupted by signals, or fail, leave the lists of
\* callbacks and of previous actions as lists of the nodes that were put there,
\* no node twice, and every handler on nodes of the list.
THEOREM RegistrationSound == Spec => []RegistrationIsSound
<1> USE SignalAssumption
<1>1. Init => RestTypes
    BY DEF Init, RestTypes
<1>2. IInv /\ ListInv /\ RestTypes => RegistrationIsSound
    BY DEF IInv, RegistrationTypes, ListInv, HandlerTypes, Numbered, RestTypes, LockIsHeld,
           MutexIsReleased, TypeOK, RegistrationIsSound
<1>3. ListInv => HandlerTypes
    BY DEF ListInv
<1> QED
    BY <1>1, <1>2, <1>3, InvInit, InvPreserved, ListInit, ListStep, RestStep, PTL DEF Spec

----------------------------------------------------------------------------
(* The Mach exception server.                                              *)

\* The context's lock is held exactly in the critical sections of either side.
LockMatchesSections ==
    /\ lock = "owner" <=> owner \in {"test", "sleep"}
    /\ lock = "server" <=> server \in {"signal", "unlock"}

\* The server thread starts once, what the flag that the owner waits for says,
\* and what the owner does with it.
StopHandshake ==
    /\ owner \in {"ports", "right", "set", "spawn"} => server = "off"
    /\ stopDone => server \in {"unlock", "exited"}
    /\ owner \in {"free", "gone"} => server = "exited"
    /\ freed => owner = "gone"

\* A refusal is about to be answered only with a complete report, unless the
\* exception has no signal; and a refusal is what ends the process.
RefusalIsReported ==
    (server = "reply" /\ ~reply) \/ ~running =>
        machReport = "complete" \/ request \in Guarded

ServerInv == ServerTypeOK /\ LockMatchesSections /\ StopHandshake /\ RefusalIsReported

----------------------------------------------------------------------------
LEMMA ServerInitInv == ServerInit => ServerInv
<1> SUFFICES ASSUME ServerInit PROVE ServerInv
    OBVIOUS
<1>1. ServerTypeOK
  <2>1. queue \in Seq(Clients)
    BY DEF ServerInit
  <2>2. client \in [Clients -> {"run", "waiting"}]
    BY DEF ServerInit
  <2>3. running => (request # Nobody <=> server \in HandlingPcs)
    BY DEF ServerInit, HandlingPcs
  <2> QED
    BY <2>1, <2>2, <2>3 DEF ServerInit, ServerTypeOK, OwnerPcs, ServerPcs
<1>2. LockMatchesSections
    BY ServerAssumption DEF ServerInit, LockMatchesSections
<1>3. StopHandshake /\ RefusalIsReported
    BY DEF ServerInit, StopHandshake, RefusalIsReported
<1> QED
    BY <1>1, <1>2, <1>3 DEF ServerInv

----------------------------------------------------------------------------
(* The owner's steps.  Few of them touch what the server looks at.         *)

LEMMA OwnerKeepsServerInv ==
    ASSUME ServerInv, OwnerStep \/ Release \/ WakeUp
    PROVE  ServerInv'
<1> USE ServerAssumption
    DEF ServerInv, ServerTypeOK, OwnerPcs, ServerPcs, HandlingPcs, LockMatchesSections,
        StopHandshake, RefusalIsReported, OwnerAt, OthersRun, ports, context, handling
<1>1. CASE AllocatePorts
    BY <1>1 DEF AllocatePorts, InitStep
<1>2. CASE InsertRight
    BY <1>2 DEF InsertRight, InitStep
<1>3. CASE AddToPortSet
    BY <1>3 DEF AddToPortSet, InitStep
<1>4. CASE SpawnServer
    BY <1>4 DEF SpawnServer, InitStep
<1>5. CASE RegisterForTask
    BY <1>5 DEF RegisterForTask, InitStep
<1>6. CASE SavePreviousPorts
    BY <1>6 DEF SavePreviousPorts
<1>7. CASE Release
    BY <1>7 DEF Release
<1>8. CASE SetShouldStop
    BY <1>8 DEF SetShouldStop
<1>9. CASE SendTermination
    BY <1>9 DEF SendTermination
<1>10. CASE OwnerLocks
  <2>1. owner' = "test" /\ lock' = "owner" /\ server \notin {"signal", "unlock"}
    BY <1>10 DEF OwnerLocks
  <2>2. ServerTypeOK'
    <3>1. running' => (request' # Nobody <=> server' \in HandlingPcs)
      BY <1>10 DEF OwnerLocks
    <3>2. owner' \in OwnerPcs /\ lock' \in {Nobody, "owner", "server"} /\ signalled' \in BOOLEAN
      BY <1>10 DEF OwnerLocks
    <3>3. UNCHANGED <<server, client, notifyRight, registered, portSet, queue, terminate,
                      shouldStop, stopDone, freed, request, reply, machReport, running>>
      BY <1>10 DEF OwnerLocks
    <3> QED
      BY <3>1, <3>2, <3>3
  <2>3. LockMatchesSections' /\ StopHandshake' /\ RefusalIsReported'
    BY <1>10, <2>1 DEF OwnerLocks
  <2> QED
    BY <2>2, <2>3
<1>11. CASE WakeUp
    BY <1>11 DEF WakeUp
<1>12. CASE OwnerTests
    BY <1>12 DEF OwnerTests
<1>13. CASE OwnerSleeps
    BY <1>13 DEF OwnerSleeps
<1>14. CASE FreeContext
    BY <1>14 DEF FreeContext
<1> QED
    BY <1>1, <1>2, <1>3, <1>4, <1>5, <1>6, <1>7, <1>8, <1>9, <1>10,
       <1>11, <1>12, <1>13, <1>14 DEF OwnerStep

LEMMA FaultKeepsServerInv ==
    ASSUME ServerInv, NEW c \in Clients, Fault(c)
    PROVE  ServerInv'
    BY ServerAssumption
    DEF ServerInv, ServerTypeOK, OwnerPcs, ServerPcs, HandlingPcs, LockMatchesSections, StopHandshake,
        RefusalIsReported, Fault, OthersRun, ports, context, handling

----------------------------------------------------------------------------
(* The server's steps.                                                     *)

LEMMA ServerKeepsServerInv ==
    ASSUME ServerInv, ServerStep
    PROVE  ServerInv'
<1> USE ServerAssumption
    DEF ServerInv, ServerTypeOK, OwnerPcs, ServerPcs, HandlingPcs, LockMatchesSections,
        StopHandshake, RefusalIsReported, ServerAt, ports, context, handling
<1>1. CASE StartServer
    BY <1>1 DEF StartServer
<1>2. CASE ReceiveException
    BY <1>2 DEF ReceiveException
<1>3. CASE ReceiveTermination
  <2>1. CASE shouldStop
    <3>1. ServerTypeOK'
      <4>1. running' => (request' # Nobody <=> server' \in HandlingPcs)
        BY <1>3, <2>1 DEF ReceiveTermination
      <4> QED
        BY <1>3, <2>1, <4>1, ZenonT(60) DEF ReceiveTermination
    <3>2. LockMatchesSections' /\ StopHandshake' /\ RefusalIsReported'
      BY <1>3, <2>1 DEF ReceiveTermination
    <3> QED
      BY <3>1, <3>2
  <2>2. CASE ~shouldStop
    <3>1. ServerTypeOK'
      <4>1. running' => (request' # Nobody <=> server' \in HandlingPcs)
        BY <1>3, <2>2 DEF ReceiveTermination
      <4> QED
        BY <1>3, <2>2, <4>1, ZenonT(60) DEF ReceiveTermination
    <3>2. LockMatchesSections' /\ StopHandshake' /\ RefusalIsReported'
      BY <1>3, <2>2 DEF ReceiveTermination
    <3> QED
      BY <3>1, <3>2
  <2> QED
    BY <1>3, <2>1, <2>2 DEF ReceiveTermination
<1>4. CASE ForwardToPrevious
  <2>1. CASE reply' = TRUE /\ server' = "reply"
    BY <1>4, <2>1 DEF ForwardToPrevious
  <2>2. CASE server' = "map" /\ UNCHANGED reply
    BY <1>4, <2>2 DEF ForwardToPrevious
  <2> QED
    BY <1>4, <2>1, <2>2 DEF ForwardToPrevious
<1>5. CASE MapToSignal
  <2>1. CASE request \in Guarded
    <3>1. ServerTypeOK'
      <4>1. running' => (request' # Nobody <=> server' \in HandlingPcs)
        BY <1>5, <2>1 DEF MapToSignal
      <4>2. server' \in ServerPcs /\ reply' \in BOOLEAN
        BY <1>5, <2>1 DEF MapToSignal
      <4>3. UNCHANGED <<owner, client, notifyRight, registered, portSet, queue, terminate,
                        lock, shouldStop, stopDone, signalled, freed, request, machReport, running>>
        BY <1>5 DEF MapToSignal
      <4> QED
        BY <4>1, <4>2, <4>3
    <3>2. LockMatchesSections' /\ StopHandshake' /\ RefusalIsReported'
      BY <1>5, <2>1 DEF MapToSignal
    <3> QED
      BY <3>1, <3>2
  <2>2. CASE request \notin Guarded
    BY <1>5, <2>2 DEF MapToSignal
  <2> QED
    BY <1>5, <2>1, <2>2 DEF MapToSignal
<1>6. CASE BeginReport
  <2>1. CASE machReport' = "partial" /\ server' = "write" /\ UNCHANGED reply
    BY <1>6, <2>1 DEF BeginReport
  <2>2. CASE ReportFails /\ machReport' \in {machReport, "partial"}
    BY <1>6, <2>2 DEF BeginReport, ReportFails
  <2> QED
    BY <1>6, <2>1, <2>2 DEF BeginReport
<1>7. CASE WriteReport
    BY <1>7 DEF WriteReport
<1>8. CASE FlushMachReport
  <2>1. CASE machReport' = "complete" /\ reply' = FALSE /\ server' = "reply"
    BY <1>8, <2>1, ZenonT(60) DEF FlushMachReport
  <2>2. CASE ReportFails /\ UNCHANGED machReport
    BY <1>8, <2>2 DEF FlushMachReport, ReportFails
  <2> QED
    BY <1>8, <2>1, <2>2 DEF FlushMachReport
<1>9. CASE Reply
  <2>1. CASE reply
    BY <1>9, <2>1 DEF Reply
  <2>2. CASE ~reply
    <3>1. ServerTypeOK'
      <4>1. running' => (request' # Nobody <=> server' \in HandlingPcs)
        BY <1>9, <2>2 DEF Reply
      <4> QED
        BY <1>9, <2>2, <4>1, ZenonT(60) DEF Reply
    <3>2. LockMatchesSections' /\ StopHandshake' /\ RefusalIsReported'
      BY <1>9, <2>2 DEF Reply
    <3> QED
      BY <3>1, <3>2
  <2> QED
    BY <1>9, <2>1, <2>2 DEF Reply
<1>10. CASE ServerLocks
    BY <1>10 DEF ServerLocks
<1>11. CASE ServerSignals
    BY <1>11 DEF ServerSignals
<1>12. CASE ServerUnlocks
    BY <1>12 DEF ServerUnlocks
<1> QED
    BY <1>1, <1>2, <1>3, <1>4, <1>5, <1>6, <1>7, <1>8, <1>9, <1>10, <1>11, <1>12 DEF ServerStep

LEMMA ServerStepInv == ServerInv /\ [ServerNext]_serverVars => ServerInv'
<1> SUFFICES ASSUME ServerInv, [ServerNext]_serverVars PROVE ServerInv'
    OBVIOUS
<1>1. CASE OwnerStep \/ Release \/ WakeUp
    BY <1>1, OwnerKeepsServerInv
<1>2. CASE \E c \in Clients : Fault(c)
    BY <1>2, FaultKeepsServerInv
<1>3. CASE ServerStep
    BY <1>3, ServerKeepsServerInv
<1>4. CASE UNCHANGED serverVars
    BY <1>4 DEF serverVars, ports, context, handling, ServerInv, ServerTypeOK, LockMatchesSections,
                StopHandshake, RefusalIsReported
<1> QED
    BY <1>1, <1>2, <1>3, <1>4 DEF ServerNext

LEMMA ServerInvariance == ServerSpec => []ServerInv
    BY ServerInitInv, ServerStepInv, PTL DEF ServerSpec

----------------------------------------------------------------------------
\* The variables keep their types, and the server has a request exactly while it
\* handles one.
THEOREM ServerTypeCorrect == ServerSpec => []ServerTypeOK
<1>1. ServerInv => ServerTypeOK
    BY DEF ServerInv
<1> QED
    BY <1>1, ServerInvariance, PTL

\* PLCrashMachExceptionServer.m's -dealloc frees the context only when the server
\* thread will not touch it any more, wherever spurious wake-ups, exceptions and
\* failures fall.
THEOREM ContextIsSafe == ServerSpec => []ContextOutlivesServer
<1>1. ServerInv => ContextOutlivesServer
    BY ServerAssumption
    DEF ServerInv, ServerTypeOK, LockMatchesSections, StopHandshake, ContextOutlivesServer
<1> QED
    BY <1>1, ServerInvariance, PTL

\* No exception that has a signal ends the process before its report is flushed,
\* however many threads fault at once and whatever the ports registered before
\* answer.
THEOREM CrashIsReported == ServerSpec => []MappedCrashIsReported
<1>1. ServerInv => MappedCrashIsReported
    BY DEF ServerInv, RefusalIsReported, MappedCrashIsReported
<1> QED
    BY <1>1, ServerInvariance, PTL
=============================================================================
