--------------------------- MODULE SignalHandler ---------------------------
(***************************************************************************)
(* PLCrashSignalHandler and the crash reporter's BSD signal path: threads  *)
(* register callbacks for signals, and a signal runs the process-wide      *)
(* chain of callbacks on the thread it hits, whatever that thread was      *)
(* doing.  The reporter's callback writes the crash report.                *)
(*                                                                         *)
(* The two lists are read without locks while they grow at either end;     *)
(* AsyncList shows that this is sound, so an insertion is one step here.   *)
(***************************************************************************)
EXTENDS Integers, FiniteSets, Sequences, SequencesExt

CONSTANTS Threads,
          Monitored,      \* monitored_signals
          Program,        \* Program[t]: the registrations of thread t, pairs
                          \* of a signal and a kind of callback
          CrashOn,        \* CrashOn[t]: the signals that may hit thread t
          InitialAction,  \* InitialAction[s]: what the process did before
          CallsFail,      \* may sigaltstack, sigaction and open fail?
          NULL

\* What a callback does: write the report, handle the signal, forward it to
\* the next one, or be previous_action_callback.
UserKinds == {"reporter", "handler", "forwarder"}
Actions == {"dfl", "ign", "handler"}

ASSUME SignalAssumption ==
    /\ NULL \notin Threads \cup Monitored
    /\ Program \in [Threads -> Seq(Monitored \X UserKinds)]
    /\ CrashOn \in [Threads -> SUBSET Monitored]
    /\ InitialAction \in [Monitored -> Actions]
    /\ CallsFail \in BOOLEAN

VARIABLES action,     \* action[s]: the disposition of signal s
          callbacks,  \* the nodes of shared_handler_context.callbacks
          previous,   \* the values of shared_handler_context.previous_actions
          mutex,      \* the holder of registerHandlers
          left,       \* left[t]: what thread t has yet to register
          pc,         \* pc[t]: where it is in a registration
          saved,      \* saved[t]: sa_prev
          failed,     \* threads whose registration returned NO
          yet,        \* yet[t]: the signals that may still hit thread t
          crash,      \* crash[t]: the signal thread t handles, or NULL
          frames,     \* frames[t]: the callbacks running on t's signal stack
          phase,      \* phase[t]: what the innermost one is doing
          result,     \* result[t]: what the last one to return returned
          ran,        \* ran[t]: how often a previous handler ran for crash[t]
          interrupted, \* interrupted[t]: the handlers on t that a further signal interrupted
          file,       \* the report: "none", "partial", "mixed", "complete"
          opener,     \* the handler that last opened, and so truncated, the report
          unopened,   \* some open() of the report has failed
          alive       \* the process runs

registration == <<mutex, left, pc, saved, failed>>
delivery == <<crash, frames, phase, result, ran, interrupted>>
report == <<file, opener, unopened>>
vars == <<action, callbacks, previous, registration, yet, delivery, report, alive>>

Init ==
    /\ action = InitialAction
    /\ callbacks = <<>> /\ previous = <<>>
    /\ mutex = NULL
    /\ left = Program
    /\ pc = [t \in Threads |-> "idle"]
    /\ saved = [t \in Threads |-> "dfl"]
    /\ failed = {}
    /\ yet = CrashOn
    /\ crash = [t \in Threads |-> NULL]
    /\ frames = [t \in Threads |-> <<>>]
    /\ phase = [t \in Threads |-> "none"]
    /\ result = [t \in Threads |-> FALSE]
    /\ ran = [t \in Threads |-> 0]
    /\ interrupted = [t \in Threads |-> <<>>]
    /\ file = "none" /\ opener = NULL /\ unopened = FALSE
    /\ alive = TRUE

Writing(t) ==
    phase[t] = "write" \/ \E i \in DOMAIN interrupted[t] : interrupted[t][i].phase = "write"

\* plcrash_log_writer_write() suspends every thread but its own.
Runs(t) == alive /\ \A u \in Threads \ {t} : ~Writing(u)

----------------------------------------------------------------------------
(* Registration.  A signal on the same thread interrupts it.               *)

Registering(t) == Runs(t) /\ crash[t] = NULL /\ left[t] # <<>>
Signo(t) == left[t][1][1]
Kind(t) == left[t][1][2]

\* A callback is known by its age: the nodes of the list have an identity.
Node(kind) == [kind |-> kind, id |-> Len(callbacks)]

\* The lock, the signal stack, and the pass-through callback, which every
\* registration appends since singleShotInitialization is never set.
BeginRegistration(t) ==
    /\ Registering(t) /\ pc[t] = "idle"
    /\ mutex = NULL
    /\ mutex' = t
    /\ callbacks' = Append(callbacks, Node("previous"))
    /\ pc' = [pc EXCEPT ![t] = "check"]
    /\ UNCHANGED <<action, previous, left, saved, failed, yet, delivery, report, alive>>

\* `return NO' without unlocking; -enableCrashReporter gives up.
Refuse(t) ==
    /\ CallsFail
    /\ failed' = failed \cup {t}
    /\ left' = [left EXCEPT ![t] = <<>>]
    /\ pc' = [pc EXCEPT ![t] = "idle"]
    /\ UNCHANGED <<saved, yet, delivery, report, alive>>

SigaltstackFails(t) ==
    /\ Registering(t) /\ pc[t] = "idle" /\ mutex = NULL
    /\ mutex' = t
    /\ Refuse(t)
    /\ UNCHANGED <<action, callbacks, previous>>

IsRegistered(s) == \E i \in DOMAIN previous : previous[i].signo = s

AlreadyRegistered(t) ==
    /\ Registering(t) /\ pc[t] = "check"
    /\ IsRegistered(Signo(t))
    /\ mutex' = NULL
    /\ pc' = [pc EXCEPT ![t] = "prepend"]
    /\ UNCHANGED <<action, callbacks, previous, left, saved, failed, yet, delivery, report, alive>>

SigactionFails(t) ==
    /\ Registering(t) /\ pc[t] = "check"
    /\ ~IsRegistered(Signo(t))
    /\ Refuse(t)
    /\ UNCHANGED <<action, callbacks, previous, mutex>>

\* Mutant: a signal is taken over again although it is registered.
Sigaction_Again(t) ==
    /\ Registering(t) /\ pc[t] = "check"
    /\ saved' = [saved EXCEPT ![t] = action[Signo(t)]]
    /\ action' = [action EXCEPT ![Signo(t)] = "ours"]
    /\ pc' = [pc EXCEPT ![t] = "save"]
    /\ UNCHANGED <<callbacks, previous, mutex, left, failed, yet, delivery, report, alive>>

Sigaction(t) ==
    /\ Registering(t) /\ pc[t] = "check"
    /\ ~IsRegistered(Signo(t))
    /\ saved' = [saved EXCEPT ![t] = action[Signo(t)]]
    /\ action' = [action EXCEPT ![Signo(t)] = "ours"]
    /\ pc' = [pc EXCEPT ![t] = "save"]
    /\ UNCHANGED <<callbacks, previous, mutex, left, failed, yet, delivery, report, alive>>

\* Mutant: the lock is kept.
SavePrevious_KeepsLock(t) ==
    /\ Registering(t) /\ pc[t] = "save"
    /\ previous' = Append(previous, [signo |-> Signo(t), action |-> saved[t]])
    /\ pc' = [pc EXCEPT ![t] = "prepend"]
    /\ UNCHANGED <<action, callbacks, mutex, left, saved, failed, yet, delivery, report, alive>>

SavePrevious(t) ==
    /\ Registering(t) /\ pc[t] = "save"
    /\ previous' = Append(previous, [signo |-> Signo(t), action |-> saved[t]])
    /\ mutex' = NULL
    /\ pc' = [pc EXCEPT ![t] = "prepend"]
    /\ UNCHANGED <<action, callbacks, left, saved, failed, yet, delivery, report, alive>>

PrependCallback(t) ==
    /\ Registering(t) /\ pc[t] = "prepend"
    /\ callbacks' = <<Node(Kind(t))>> \o callbacks
    /\ left' = [left EXCEPT ![t] = Tail(@)]
    /\ pc' = [pc EXCEPT ![t] = "idle"]
    /\ UNCHANGED <<action, previous, mutex, saved, failed, yet, delivery, report, alive>>

----------------------------------------------------------------------------
(* Delivery of a signal.                                                   *)

\* A handler of t, as it stands when a further signal interrupts it.
Activation(t) ==
    [crash |-> crash[t], frames |-> frames[t], phase |-> phase[t], result |-> result[t], ran |-> ran[t]]

\* The handler of s begins on thread t.
Enter(t, s) ==
    /\ interrupted' =
          [interrupted EXCEPT ![t] = IF crash[t] = NULL THEN @ ELSE Append(@, Activation(t))]
    /\ crash' = [crash EXCEPT ![t] = s]
    /\ frames' = [frames EXCEPT ![t] = <<>>]
    /\ phase' = [phase EXCEPT ![t] = "call"]
    /\ ran' = [ran EXCEPT ![t] = 0]
    /\ UNCHANGED result

\* The handler is left; t goes on with the one it interrupted.
Leave(t) ==
    LET outer == Last(interrupted[t]) IN
    IF interrupted[t] = <<>>
    THEN /\ crash' = [crash EXCEPT ![t] = NULL]
         /\ phase' = [phase EXCEPT ![t] = "none"]
         /\ UNCHANGED <<frames, result, ran, interrupted>>
    ELSE /\ crash' = [crash EXCEPT ![t] = outer.crash]
         /\ frames' = [frames EXCEPT ![t] = outer.frames]
         /\ phase' = [phase EXCEPT ![t] = outer.phase]
         /\ result' = [result EXCEPT ![t] = outer.result]
         /\ ran' = [ran EXCEPT ![t] = outer.ran]
         /\ interrupted' = [interrupted EXCEPT ![t] = Front(@)]

\* A signal hits thread t, also within a handler: sa_mask is empty, so a handler blocks
\* its own signal only, and each signal hits a thread once.  What the process does of
\* old with a signal that nobody took over is not our concern, but the default action
\* ends it.
Deliver(t, s) ==
    /\ Runs(t) /\ s \in yet[t]
    /\ action[s] \in {"ours", "dfl"}
    /\ yet' = [yet EXCEPT ![t] = @ \ {s}]
    /\ IF action[s] = "dfl"
       THEN alive' = FALSE /\ UNCHANGED delivery
       ELSE Enter(t, s) /\ UNCHANGED alive
    /\ UNCHANGED <<action, callbacks, previous, registration, report>>

Handling(t, ph) == Runs(t) /\ phase[t] = ph

\* The nodes from the innermost callback's successor on.
Successors(t) ==
    IF frames[t] = <<>> THEN callbacks
    ELSE LET i == CHOOSE i \in DOMAIN callbacks : callbacks[i] = Last(frames[t])
         IN  SubSeq(callbacks, i + 1, Len(callbacks))

Return(t, handled) ==
    /\ result' = [result EXCEPT ![t] = handled]
    /\ phase' = [phase EXCEPT ![t] = "return"]

\* internal_callback_iterator: call the next node.  A forwarder and the
\* pass-through callback call the iterator again if there is another one.
CallNext(t) ==
    /\ Handling(t, "call")
    /\ LET nodes == Successors(t) IN
       IF nodes = <<>>
       THEN Return(t, FALSE) /\ UNCHANGED frames
       ELSE /\ frames' = [frames EXCEPT ![t] = Append(@, nodes[1])]
            /\ CASE nodes[1].kind = "handler" -> Return(t, TRUE)
                 [] nodes[1].kind = "reporter" ->
                      phase' = [phase EXCEPT ![t] = "reset"] /\ UNCHANGED result
                 [] OTHER -> IF Len(nodes) > 1 THEN UNCHANGED <<phase, result>>
                                               ELSE Return(t, FALSE)
    /\ UNCHANGED <<action, callbacks, previous, registration, yet, crash, ran, interrupted, report, alive>>

\* previous_action_callback's search, once forwarding has come to nothing.
Previous(s) == SelectSeq(previous, LAMBDA p : p.signo = s)

\* Mutant: the saved handler runs even if the signal has been handled.
ReturnFromCallback_Always(t) ==
    LET last == Last(frames[t])  found == Previous(crash[t])
        search == last.kind = "previous" /\ found # <<>>
    IN  /\ Handling(t, "return") /\ frames[t] # <<>>
        /\ frames' = [frames EXCEPT ![t] = Front(@)]
        /\ result' = [result EXCEPT ![t] = @ \/ (search /\ found[1].action # "dfl")]
        /\ ran' = [ran EXCEPT ![t] = @ + IF search /\ found[1].action = "handler" THEN 1 ELSE 0]
        /\ UNCHANGED <<action, callbacks, previous, registration, yet, crash, phase, interrupted, report, alive>>

ReturnFromCallback(t) ==
    LET last == Last(frames[t])  found == Previous(crash[t])
        search == last.kind = "previous" /\ ~result[t] /\ found # <<>>
    IN  /\ Handling(t, "return") /\ frames[t] # <<>>
        /\ frames' = [frames EXCEPT ![t] = Front(@)]
        /\ result' = [result EXCEPT ![t] = @ \/ (search /\ found[1].action # "dfl")]
        /\ ran' = [ran EXCEPT ![t] = @ + IF search /\ found[1].action = "handler" THEN 1 ELSE 0]
        /\ UNCHANGED <<action, callbacks, previous, registration, yet, crash, phase, interrupted, report, alive>>

Handled(t) ==
    /\ Handling(t, "return") /\ frames[t] = <<>> /\ result[t]
    /\ Leave(t)
    /\ UNCHANGED <<action, callbacks, previous, registration, yet, report, alive>>

\* raise() of a blocked signal: it arrives again when the handler returns.
Raise(t) ==
    /\ Handling(t, "return") /\ frames[t] = <<>> /\ ~result[t]
    /\ IF action[crash[t]] = "ours"
       THEN phase' = [phase EXCEPT ![t] = "call"] /\ UNCHANGED alive
       ELSE alive' = FALSE /\ UNCHANGED phase
    /\ UNCHANGED <<action, callbacks, previous, registration, yet, crash, frames, result, ran, interrupted, report>>

----------------------------------------------------------------------------
(* signal_handler_callback of the crash reporter.                          *)

\* Mutant: the handlers are not reset.
ResetHandlers_Never(t) ==
    /\ Handling(t, "reset")
    /\ phase' = [phase EXCEPT ![t] = "open"]
    /\ UNCHANGED <<action, callbacks, previous, registration, yet, crash, frames, result, ran, interrupted, report, alive>>

ResetHandlers(t) ==
    /\ Handling(t, "reset")
    /\ action' = [s \in Monitored |-> "dfl"]
    /\ phase' = [phase EXCEPT ![t] = "open"]
    /\ UNCHANGED <<callbacks, previous, registration, yet, crash, frames, result, ran, interrupted, report, alive>>

\* A handler is known by its thread and by how many it interrupted there.
Handler(t) == <<t, Len(interrupted[t])>>

\* open() with O_TRUNC.
OpenReport(t) ==
    /\ Handling(t, "open")
    /\ \/ /\ file' = "partial" /\ opener' = Handler(t)
          /\ phase' = [phase EXCEPT ![t] = "suspend"]
          /\ UNCHANGED <<result, unopened>>
       \/ CallsFail /\ unopened' = TRUE /\ Return(t, FALSE) /\ UNCHANGED <<file, opener>>
    /\ UNCHANGED <<action, callbacks, previous, registration, yet, crash, frames, ran, interrupted, alive>>

SuspendThreads(t) ==
    /\ Handling(t, "suspend")
    /\ phase' = [phase EXCEPT ![t] = "write"]
    /\ UNCHANGED <<action, callbacks, previous, registration, yet, crash, frames, result, ran, interrupted, report, alive>>

\* The writer resumes the threads; the file's buffer is flushed after that.
ResumeThreads(t) ==
    /\ Handling(t, "write")
    /\ phase' = [phase EXCEPT ![t] = "flush"]
    /\ UNCHANGED <<action, callbacks, previous, registration, yet, crash, frames, result, ran, interrupted, report, alive>>

\* Mutant: the report is closed without a flush.
FlushReport_Skipped(t) ==
    /\ Handling(t, "flush")
    /\ Return(t, FALSE)
    /\ UNCHANGED <<action, callbacks, previous, registration, yet, crash, frames, ran, interrupted, report, alive>>

FlushReport(t) ==
    /\ Handling(t, "flush")
    /\ file' = IF opener = Handler(t) THEN "complete" ELSE "mixed"
    /\ Return(t, FALSE)
    /\ UNCHANGED <<action, callbacks, previous, registration, yet, crash, frames, ran, interrupted, opener, unopened, alive>>

----------------------------------------------------------------------------
Register(t) ==
    \/ BeginRegistration(t) \/ SigaltstackFails(t)
    \/ AlreadyRegistered(t) \/ SigactionFails(t) \/ Sigaction(t)
    \/ SavePrevious(t) \/ PrependCallback(t)

Handle(t) ==
    \/ CallNext(t) \/ ReturnFromCallback(t) \/ Handled(t) \/ Raise(t)
    \/ ResetHandlers(t) \/ OpenReport(t)
    \/ SuspendThreads(t) \/ ResumeThreads(t) \/ FlushReport(t)

Next == \E t \in Threads : Register(t) \/ Handle(t) \/ \E s \in yet[t] : Deliver(t, s)

Spec == Init /\ [][Next]_vars

\* A thread goes on with what it does.
FairSpec == Spec /\ \A t \in Threads : WF_vars(Register(t)) /\ WF_vars(Handle(t))

----------------------------------------------------------------------------
Callback == [kind : UserKinds \cup {"previous"}, id : Nat]
HandlerPhases == {"call", "return", "reset", "open", "suspend", "write", "flush"}
Interrupted == [crash : Monitored, frames : Seq(Callback), phase : HandlerPhases,
                result : BOOLEAN, ran : Nat]

\* The state has its type, and no node of the list occurs twice.
TypeOK ==
    /\ action \in [Monitored -> Actions \cup {"ours"}]
    /\ callbacks \in Seq(Callback) /\ IsInjective(callbacks)
    /\ previous \in Seq([signo : Monitored, action : Actions \cup {"ours"}])
    /\ mutex \in Threads \cup {NULL}
    /\ left \in [Threads -> Seq(Monitored \X UserKinds)]
    /\ pc \in [Threads -> {"idle", "check", "save", "prepend"}]
    /\ saved \in [Threads -> Actions \cup {"ours"}]
    /\ failed \subseteq Threads
    /\ yet \in [Threads -> SUBSET Monitored]
    /\ crash \in [Threads -> Monitored \cup {NULL}]
    /\ frames \in [Threads -> Seq(Callback)]
    /\ phase \in [Threads -> HandlerPhases \cup {"none"}]
    /\ result \in [Threads -> BOOLEAN]
    /\ ran \in [Threads -> Nat]
    /\ file \in {"none", "partial", "mixed", "complete"}
    /\ interrupted \in [Threads -> Seq(Interrupted)]
    /\ opener \in (Threads \X Nat) \cup {NULL} /\ unopened \in BOOLEAN
    /\ alive \in BOOLEAN

\* The handler is never saved as the action it replaced, not even when two
\* threads register for the same signal, or when the handlers were reset in
\* between: forwarding to it would never end.
NeverForwardsToItself == \A i \in DOMAIN previous : previous[i].action # "ours"

\* The handler that was there before runs at most once for a signal, though
\* every registration appends another callback that would run it, though
\* unhandled signals are raised again, and though handlers interrupt handlers.
PreviousRunsOnce ==
    \A t \in Threads :
        ran[t] <= 1 /\ \A i \in DOMAIN interrupted[t] : interrupted[t][i].ran <= 1

\* Registrations block one another for good only after one has failed: its
\* early return leaves registerHandlers locked.
MutexIsReleased ==
    mutex # NULL /\ pc[mutex] = "idle" => mutex \in failed

\* Interrupted and failing registrations leave the lists and their lock in order.
RegistrationIsSound == TypeOK /\ MutexIsReleased

\* A process that ends by the only signal that ever hit it, whatever registrations
\* that interrupted, leaves a whole report: unless the report could not be opened, or
\* the signal came before it was taken over.
Delivered == UNION {{<<t, s>> : s \in CrashOn[t] \ yet[t]} : t \in Threads}
LoneCrashIsReported ==
    ~alive => \A t \in Threads, s \in Monitored :
        Delivered = {<<t, s>>} =>
            file = "complete" \/ unopened \/ (crash[t] = NULL /\ ~IsRegistered(s))

\* A signal comes to an end: it is handled, or ends the process.  The exception
\* is a signal that hits a thread in the midst of a registration before the
\* reporter's callback is in the list: that thread holds up the registration,
\* and the signal is raised again for ever.
Unprotected ==
    /\ \A i \in DOMAIN callbacks : callbacks[i].kind # "reporter"
    /\ \E t \in Threads :
          /\ crash[t] # NULL
          /\ mutex = t \/ \E i \in DOMAIN left[t] : left[t][i][2] = "reporter"
SignalsEnd ==
    \A t \in Threads :
        crash[t] # NULL ~> crash[t] = NULL \/ ~alive \/ failed # {} \/ Unprotected
=============================================================================
