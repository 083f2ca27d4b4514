------------------------ MODULE MachExceptionServer ------------------------
(***************************************************************************)
(* PLCrashMachExceptionServer with the crash reporter's callback: a thread *)
(* of the process that receives the exceptions of all others as messages,  *)
(* and the owner that creates the server, registers its port with the      *)
(* task, and may release it.                                               *)
(*                                                                         *)
(* The context is shared by owner and server thread: its lock, its stop    *)
(* flags, and its memory, which the owner frees.                           *)
(***************************************************************************)
EXTENDS Integers, FiniteSets, Sequences

CONSTANTS Clients,          \* threads that may fault
          MachCallsFail,    \* may ports, threads or memory not be had?
          WritesFail,       \* may writing the report fail?
          PreviousAnswers,  \* what the port registered before may answer:
                            \* whether the exception is handled
          Guarded,          \* threads whose exception is an EXC_GUARD
          Nobody

ASSUME ServerAssumption ==
    /\ Nobody \notin Clients \cup {"owner", "server"}
    /\ MachCallsFail \in BOOLEAN /\ WritesFail \in BOOLEAN
    /\ PreviousAnswers \subseteq BOOLEAN /\ Guarded \subseteq Clients

VARIABLES owner,       \* where the owner is
          server,      \* where the server thread is
          client,      \* client[c]: "run", or "waiting" for a reply
          notifyRight, \* the notify port has its send right
          registered,  \* the task's exceptions go to the server's port
          portSet,     \* the previous ports are known to the callback
          queue,       \* the exceptions on the server's port
          terminate,   \* a termination message is on the notify port
          lock,        \* the holder of the context's lock
          shouldStop,  \* server_should_stop
          stopDone,    \* server_stop_done
          signalled,   \* server_cond was signalled to the waiting owner
          freed,       \* the context is freed
          request,     \* the client whose exception the server handles
          reply,       \* the answer the callback decided on
          machReport,  \* the report: "none", "partial", "complete"
          running

ports == <<notifyRight, registered, portSet>>
context == <<lock, shouldStop, stopDone, signalled, freed>>
handling == <<request, reply, machReport>>
serverVars == <<owner, server, client, ports, queue, terminate, context, handling, running>>

ServerInit ==
    /\ owner = "ports" /\ server = "off"
    /\ client = [c \in Clients |-> "run"]
    /\ notifyRight = FALSE /\ registered = FALSE /\ portSet = FALSE
    /\ queue = <<>> /\ terminate = FALSE
    /\ lock = Nobody /\ shouldStop = FALSE /\ stopDone = FALSE
    /\ signalled = FALSE /\ freed = FALSE
    /\ request = Nobody /\ reply = FALSE /\ machReport = "none"
    /\ running = TRUE

\* The report writer, which runs on the server thread, suspends all others.
OthersRun == running /\ server # "write"
OwnerAt(at) == owner = at /\ OthersRun
ServerAt(at) == server = at /\ running

----------------------------------------------------------------------------
(* The owner: -initWithCallBack:, registration, -dealloc.                  *)

\* A step of -init that leads on to the next one, or to -dealloc.
InitStep(at, to) ==
    /\ OwnerAt(at)
    /\ owner' \in {to} \cup IF MachCallsFail THEN {"dealloc"} ELSE {}

\* Both receive rights.  (Mutexes, conditions: a failure frees the context.)
AllocatePorts ==
    /\ InitStep("ports", "right")
    /\ UNCHANGED <<server, client, ports, queue, terminate, context, handling, running>>

InsertRight ==
    /\ InitStep("right", "set")
    /\ notifyRight' = (owner' = "set")
    /\ UNCHANGED <<server, client, registered, portSet, queue, terminate, context, handling, running>>

\* The no-senders notification, and the port set with both ports.
AddToPortSet ==
    /\ InitStep("set", "spawn")
    /\ UNCHANGED <<server, client, ports, queue, terminate, context, handling, running>>

SpawnServer ==
    /\ InitStep("spawn", "register")
    /\ server' = IF owner' = "register" THEN "start" ELSE "off"
    /\ UNCHANGED <<client, ports, queue, terminate, context, handling, running>>

\* -exceptionPortWithMask: and -registerForTask:; on failure the autorelease
\* pool lets go of the server.
RegisterForTask ==
    /\ InitStep("register", "save")
    /\ registered' = (owner' = "save")
    /\ UNCHANGED <<server, client, notifyRight, portSet, queue, terminate, context, handling, running>>

\* signal_handler_context.port_set, after exceptions may already arrive.
SavePreviousPorts ==
    /\ OwnerAt("save")
    /\ portSet' = TRUE
    /\ owner' = "serving"
    /\ UNCHANGED <<server, client, notifyRight, registered, queue, terminate, context, handling, running>>

\* The last reference goes.  (The reporter itself never lets go.)
Release ==
    /\ OwnerAt("serving")
    /\ owner' = "dealloc"
    /\ UNCHANGED <<server, client, ports, queue, terminate, context, handling, running>>

SetShouldStop ==
    /\ OwnerAt("dealloc")
    /\ shouldStop' = TRUE
    /\ owner' = "send"
    /\ UNCHANGED <<server, client, ports, queue, terminate, lock, stopDone, signalled, freed, handling, running>>

\* The message that makes the server look at the flag; without the send right it
\* cannot be sent, and the server is leaked.
SendTermination ==
    /\ OwnerAt("send")
    /\ terminate' = notifyRight
    /\ owner' = IF notifyRight THEN "lock" ELSE "leaked"
    /\ UNCHANGED <<server, client, ports, queue, context, handling, running>>

\* pthread_mutex_lock, also at the end of pthread_cond_wait.
OwnerLocks ==
    /\ OwnerAt("lock") \/ (OwnerAt("wait") /\ signalled)
    /\ lock = Nobody
    /\ lock' = "owner"
    /\ owner' = "test"
    /\ signalled' = FALSE
    /\ UNCHANGED <<server, client, ports, queue, terminate, shouldStop, stopDone, freed, handling, running>>

\* Mutant: `if' instead of `while' around pthread_cond_wait.
WakeUp_IsBelieved ==
    /\ OwnerAt("wait")
    /\ owner' = "free"
    /\ UNCHANGED <<server, client, ports, queue, terminate, context, handling, running>>

\* A condition may wake its waiter for no reason.
WakeUp ==
    /\ OwnerAt("wait")
    /\ owner' = "lock"
    /\ UNCHANGED <<server, client, ports, queue, terminate, context, handling, running>>

OwnerTests ==
    /\ OwnerAt("test")
    /\ IF stopDone THEN owner' = "free" /\ lock' = Nobody
                   ELSE owner' = "sleep" /\ UNCHANGED lock
    /\ UNCHANGED <<server, client, ports, queue, terminate, shouldStop, stopDone, signalled, freed, handling, running>>

\* pthread_cond_wait gives the lock back and sleeps, in one.
OwnerSleeps ==
    /\ OwnerAt("sleep")
    /\ lock' = Nobody
    /\ owner' = "wait"
    /\ UNCHANGED <<server, client, ports, queue, terminate, shouldStop, stopDone, signalled, freed, handling, running>>

FreeContext ==
    /\ OwnerAt("free")
    /\ freed' = TRUE
    /\ owner' = "gone"
    /\ UNCHANGED <<server, client, ports, queue, terminate, lock, shouldStop, stopDone, signalled, handling, running>>

----------------------------------------------------------------------------
(* The threads that fault.                                                 *)

\* The kernel sends the exception and waits for the reply.
Fault(c) ==
    /\ OthersRun /\ client[c] = "run" /\ registered
    /\ client' = [client EXCEPT ![c] = "waiting"]
    /\ queue' = Append(queue, c)
    /\ UNCHANGED <<owner, server, ports, terminate, context, handling, running>>

----------------------------------------------------------------------------
(* The server thread.                                                      *)

\* vm_allocate of the buffer; on failure the thread just ends.
StartServer ==
    /\ ServerAt("start")
    /\ server' \in {"receive"} \cup IF MachCallsFail THEN {"dead"} ELSE {}
    /\ UNCHANGED <<owner, client, ports, queue, terminate, context, handling, running>>

ReceiveException ==
    /\ ServerAt("receive") /\ queue # <<>>
    /\ request' = Head(queue)
    /\ queue' = Tail(queue)
    /\ server' = "forward"
    /\ UNCHANGED <<owner, client, ports, terminate, context, reply, machReport, running>>

\* A termination message counts only with the flag; without it the message is
\* too short for an exception, and dropped.
ReceiveTermination ==
    /\ ServerAt("receive") /\ terminate
    /\ terminate' = FALSE
    /\ server' = IF shouldStop THEN "stop" ELSE "receive"
    /\ UNCHANGED <<owner, client, ports, queue, context, handling, running>>

\* PLCrashMachExceptionForward: the first matching port of the set, if any.
ForwardToPrevious ==
    /\ ServerAt("forward")
    /\ \/ /\ portSet /\ TRUE \in PreviousAnswers
          /\ reply' = TRUE /\ server' = "reply"
       \/ /\ ~portSet \/ PreviousAnswers # {TRUE}
          /\ server' = "map" /\ UNCHANGED reply
    /\ UNCHANGED <<owner, client, ports, queue, terminate, context, request, machReport, running>>

\* plcrash_async_mach_exception_get_siginfo knows no signal for an EXC_GUARD.
MapToSignal ==
    /\ ServerAt("map")
    /\ IF request \in Guarded THEN reply' = FALSE /\ server' = "reply"
                             ELSE server' = "suspend" /\ UNCHANGED reply
    /\ UNCHANGED <<owner, client, ports, queue, terminate, context, request, machReport, running>>

\* A failed report makes the callback `return false', which is KERN_SUCCESS.
ReportFails ==
    /\ WritesFail
    /\ server' = "reply" /\ reply' = TRUE

\* plcrash_write_report opens and truncates the file, then the writer fetches its
\* images and suspends all other threads.
BeginReport ==
    /\ ServerAt("suspend")
    /\ \/ machReport' = "partial" /\ server' = "write" /\ UNCHANGED reply
       \/ ReportFails /\ machReport' \in {machReport, "partial"}
    /\ UNCHANGED <<owner, client, ports, queue, terminate, context, request, running>>

\* The writer resumes the threads; the file's buffer is flushed after that.
WriteReport ==
    /\ ServerAt("write")
    /\ server' = "flush"
    /\ UNCHANGED <<owner, client, ports, queue, terminate, context, handling, running>>

\* Mutant: the answer does not wait for the report.
FlushMachReport_Skipped ==
    /\ ServerAt("flush")
    /\ reply' = FALSE /\ server' = "reply"
    /\ UNCHANGED <<owner, client, ports, queue, terminate, context, request, machReport, running>>

FlushMachReport ==
    /\ ServerAt("flush")
    /\ \/ machReport' = "complete" /\ reply' = FALSE /\ server' = "reply"
       \/ ReportFails /\ UNCHANGED machReport
    /\ UNCHANGED <<owner, client, ports, queue, terminate, context, request, running>>

\* Mutant: an exception that is not handled is not answered.
Reply_OnlySuccess ==
    /\ ServerAt("reply")
    /\ IF reply THEN client' = [client EXCEPT ![request] = "run"] ELSE UNCHANGED client
    /\ request' = Nobody
    /\ server' = "receive"
    /\ UNCHANGED <<owner, ports, queue, terminate, context, reply, machReport, running>>

\* On success the thread goes on where it faulted; on failure the kernel turns
\* to the host's handler and the process ends.
Reply ==
    /\ ServerAt("reply")
    /\ IF reply THEN client' = [client EXCEPT ![request] = "run"] /\ UNCHANGED running
                ELSE running' = FALSE /\ UNCHANGED client
    /\ request' = IF reply THEN Nobody ELSE request
    /\ server' = "receive"
    /\ UNCHANGED <<owner, ports, queue, terminate, context, reply, machReport>>

\* Mutant: completion is signalled without the lock.
ServerLocks_Not ==
    /\ ServerAt("stop")
    /\ server' = "signal"
    /\ UNCHANGED <<owner, client, ports, queue, terminate, context, handling, running>>

\* The last critical section of the server.
ServerLocks ==
    /\ ServerAt("stop")
    /\ lock = Nobody
    /\ lock' = "server"
    /\ server' = "signal"
    /\ UNCHANGED <<owner, client, ports, queue, terminate, shouldStop, stopDone, signalled, freed, handling, running>>

ServerSignals ==
    /\ ServerAt("signal")
    /\ stopDone' = TRUE /\ signalled' = (owner = "wait")
    /\ server' = "unlock"
    /\ UNCHANGED <<owner, client, ports, queue, terminate, lock, shouldStop, freed, handling, running>>

ServerUnlocks ==
    /\ ServerAt("unlock")
    /\ lock' = Nobody
    /\ server' = "exited"
    /\ UNCHANGED <<owner, client, ports, queue, terminate, shouldStop, stopDone, signalled, freed, handling, running>>

OwnerStep ==
    \/ AllocatePorts \/ InsertRight \/ AddToPortSet \/ SpawnServer
    \/ RegisterForTask \/ SavePreviousPorts
    \/ SetShouldStop \/ SendTermination \/ OwnerLocks \/ OwnerTests \/ OwnerSleeps \/ FreeContext

ServerStep ==
    \/ StartServer \/ ReceiveException \/ ReceiveTermination
    \/ ForwardToPrevious \/ MapToSignal \/ BeginReport \/ WriteReport \/ FlushMachReport \/ Reply
    \/ ServerLocks \/ ServerSignals \/ ServerUnlocks

ServerNext == OwnerStep \/ Release \/ WakeUp \/ (\E c \in Clients : Fault(c)) \/ ServerStep

ServerSpec == ServerInit /\ [][ServerNext]_serverVars

\* The server thread is scheduled, and so is the owner within a call: even if the
\* writer suspends it again and again, it gets a turn in between.  A mutex is
\* granted in the end although the owner may wake up for no reason again and
\* again, and a port set does not neglect one of its ports for the other.
\* Nobody has to release the server, and nobody has to fault.
FairServerSpec ==
    /\ ServerSpec
    /\ SF_serverVars(OwnerStep) /\ WF_serverVars(ServerStep)
    /\ SF_serverVars(ServerLocks) /\ SF_serverVars(ReceiveTermination)

----------------------------------------------------------------------------
OwnerPcs == {"ports", "right", "set", "spawn", "register", "save", "serving", "dealloc", "send",
             "leaked", "lock", "test", "sleep", "wait", "free", "gone"}
ServerPcs == {"off", "start", "dead", "receive", "forward", "map", "suspend", "write", "flush",
              "reply", "stop", "signal", "unlock", "exited"}

HandlingPcs == {"forward", "map", "suspend", "write", "flush", "reply"}

\* The state has its type, and the server has a request while it handles one.
ServerTypeOK ==
    /\ owner \in OwnerPcs /\ server \in ServerPcs
    /\ client \in [Clients -> {"run", "waiting"}]
    /\ notifyRight \in BOOLEAN /\ registered \in BOOLEAN /\ portSet \in BOOLEAN
    /\ queue \in Seq(Clients) /\ terminate \in BOOLEAN
    /\ lock \in {Nobody, "owner", "server"}
    /\ shouldStop \in BOOLEAN /\ stopDone \in BOOLEAN
    /\ signalled \in BOOLEAN /\ freed \in BOOLEAN
    /\ request \in Clients \cup {Nobody} /\ reply \in BOOLEAN
    /\ machReport \in {"none", "partial", "complete"}
    /\ running \in BOOLEAN
    /\ running => (request # Nobody <=> server \in HandlingPcs)

\* PLCrashMachExceptionServer.m: "Once we've been signaled by the background
\* thread, it will no longer access exc_context".  It does not even hold its
\* lock any more.
ContextOutlivesServer == freed => server = "exited" /\ lock = Nobody

\* "Once called, all application crashes will result in a crash report being
\* written prior to application exit" (PLCrashReporter.m:497), for every exception
\* that has a signal: unlike signals, the exceptions
\* of several threads are handled one after the other, and no answer lets the
\* process end before the report is flushed.
MappedCrashIsReported == ~running => machReport = "complete" \/ request \in Guarded

\* An exception is answered, unless the server thread could not start or is
\* asked to stop.
ExceptionsAnswered ==
    \A c \in Clients :
        client[c] = "waiting" ~> client[c] = "run" \/ ~running \/ server = "dead" \/ shouldStop

\* -dealloc returns, however busy the server is and whatever is queued, if there
\* is a server thread to answer it: after a late failure of -init there is none.
DeallocReturns ==
    owner = "dealloc" ~>
        owner \in {"gone", "leaked"} \/ ~running \/ server \in {"off", "dead"}
=============================================================================
