------------------------------ MODULE LogWriter ------------------------------
(***************************************************************************)
(* The asynchronous logger: the LogWriter singleton and its worker thread *)
(* (LogWriter.cc), LogManager with its thread-local buffer                *)
(* (LoggerManager.cc), the locking queue (Queue.cc) and the loggers       *)
(* (Logger.cc).  Client threads run fixed sequences of calls and          *)
(* interleave between any two accesses to shared memory.                  *)
(*                                                                         *)
(* A C++ failure (a null pointer dereferenced, a destroyed object used,   *)
(* an exception no one catches) sets `fault' and ends the behaviour.      *)
(***************************************************************************)
EXTENDS Naturals, Sequences, FiniteSets

CONSTANTS Clients,      \* application threads
          Writers,      \* LogWriter objects that can be allocated
          Handles,      \* LogManager objects
          Msgs,         \* messages
          Loggers,      \* ILogger objects
          Console,      \* the ConsoleLogger a LogWriter starts with
          LoggerKind,   \* what each logger is
          Programs,     \* the calls the clients make
          NoWriter, NoClient,   \* null pointers
          EmptyMsg      \* the "Empty Queue" message of a dequeue that found none

Kinds == {"Console", "File", "Dummy", "Null"}

Calls == [op : {"create", "flush", "close"}, h : Handles]
           \cup [op : {"log"}, h : Handles, m : Msgs]
           \cup [op : {"set"}, l : Loggers]
           \cup [op : {"stop"}]

ASSUME ConstantsAssumption ==
         /\ Console \in Loggers /\ LoggerKind \in [Loggers -> Kinds]
         /\ LoggerKind[Console] = "Console"
         /\ Programs \subseteq [Clients -> Seq(Calls)]
         /\ NoWriter \notin Writers /\ NoClient \notin Clients
         /\ EmptyMsg \notin Msgs
         /\ Handles \cap Clients = {} /\ "instance" \notin Handles \cup Clients

VARIABLES
  instance, lock,              \* LogWriter::instance and instanceMutex
  life, running, joinable, logger, queue,     \* the members of each LogWriter
  wpc, inflight, target,       \* its worker: place, message taken, m_logger loaded
  prog, pc, tmp, stack,        \* each client: calls left, place, pointer, stop()s
  storage,                     \* each client's thread_local m_storage
  mgr,                         \* m_logWriter of each LogManager
  out, durable,                \* what each logger emitted; how much is flushed
  accepted, written,           \* history: enqueued to, and written by, a writer
  fault

writerVars == <<life, running, joinable, logger>>
workerVars == <<wpc, inflight, target>>
clientVars == <<prog, pc, tmp, stack>>
sinkVars   == <<out, durable>>
vars == <<instance, lock, writerVars, queue, workerVars, clientVars, storage,
          mgr, sinkVars, accepted, written, fault>>

Frame == [w : Writers, at : {"check", "wait", "clear", "flush", "join",
                             "reset", "ret"}, dtor : BOOLEAN, seen : Nat]

TypeOK ==
  /\ instance \in Writers \cup {NoWriter}
  /\ lock \in Clients \cup {NoClient}
  /\ life \in [Writers -> {"free", "live", "dying", "dead"}]
  /\ running \in [Writers -> BOOLEAN]
  /\ joinable \in [Writers -> BOOLEAN]
  /\ logger \in [Writers -> Loggers]
  /\ queue \in [Writers -> Seq(Msgs)]
  /\ wpc \in [Writers -> {"none", "loop", "test", "take", "load", "write", "done"}]
  /\ inflight \in [Writers -> Seq(Msgs \cup {EmptyMsg})]
  /\ target \in [Writers -> Loggers]
  /\ prog \in [Clients -> Seq(Calls)]
  /\ pc \in [Clients -> {"idle", "check", "spawn", "load", "ref", "set", "stop"}]
  /\ tmp \in [Clients -> Writers \cup {NoWriter}]
  /\ stack \in [Clients -> Seq(Frame)]
  /\ storage \in [Clients -> Seq(Msgs)]
  /\ mgr \in [Handles -> Writers \cup {NoWriter}]
  /\ out \in [Loggers -> Seq(Msgs \cup {EmptyMsg})]
  /\ durable \in [Loggers -> Nat]
  /\ accepted \in [Writers -> Seq(Msgs)]
  /\ written \in [Writers -> Seq(Msgs \cup {EmptyMsg})]
  /\ fault \in {"none", "null", "dangling", "terminate"}

Init ==
  /\ instance = NoWriter /\ lock = NoClient
  /\ life = [w \in Writers |-> "free"]
  /\ running = [w \in Writers |-> FALSE]
  /\ joinable = [w \in Writers |-> FALSE]
  /\ logger = [w \in Writers |-> Console]
  /\ queue = [w \in Writers |-> <<>>]
  /\ wpc = [w \in Writers |-> "none"]
  /\ inflight = [w \in Writers |-> <<>>]
  /\ target = [w \in Writers |-> Console]
  /\ prog \in Programs
  /\ pc = [c \in Clients |-> "idle"]
  /\ tmp = [c \in Clients |-> NoWriter]
  /\ stack = [c \in Clients |-> <<>>]
  /\ storage = [c \in Clients |-> <<>>]
  /\ mgr = [h \in Handles |-> NoWriter]
  /\ out = [l \in Loggers |-> <<>>]
  /\ durable = [l \in Loggers |-> 0]
  /\ accepted = [w \in Writers |-> <<>>]
  /\ written = [w \in Writers |-> <<>>]
  /\ fault = "none"
-----------------------------------------------------------------------------
(* Control flow of a client.                                               *)

Fail(kind) == /\ fault' = kind
              /\ UNCHANGED <<instance, lock, writerVars, queue, workerVars,
                             clientVars, storage, mgr, sinkVars, accepted, written>>

Call(c) == Head(prog[c])
Calling(c, ops) == /\ fault = "none" /\ pc[c] = "idle"
                   /\ prog[c] # <<>> /\ Call(c).op \in ops
In(c, place) == fault = "none" /\ pc[c] = place

Goto(c, place) == pc' = [pc EXCEPT ![c] = place] /\ prog' = prog
Return(c) == /\ pc' = [pc EXCEPT ![c] = "idle"]
             /\ prog' = [prog EXCEPT ![c] = Tail(@)]

(* Activations of stop(): called, or run by ~LogWriter.                    *)
Activation(w, isDtor) == [w |-> w, at |-> "check", dtor |-> isDtor, seen |-> 0]
Top(c) == Head(stack[c])
At(c, place) == In(c, "stop") /\ stack[c] # <<>> /\ Top(c).at = place
Replace(c, frames) == stack' = [stack EXCEPT ![c] = frames \o Tail(@)]
Move(c, place) == Replace(c, <<[Top(c) EXCEPT !.at = place]>>)

(* Definitions marked `Mutant' are wrong variants of the definition below them:  *)
(* plausible bugs that a property must tell from the code.  No action uses them. *)

(* The shared_ptrs that own writer w: the static one, a LogManager's, or   *)
(* the temporary of `getLogWriter()->stop()'.                              *)
Holds(c, w) == pc[c] = "stop" /\ tmp[c] = w
\* Mutant: LogManager keeps a pointer that does not own the writer.
OwnersButManagers(w) == {o \in {"instance"} \cup Clients :
                           \/ o = "instance" /\ instance = w
                           \/ o \in Clients /\ Holds(o, w)}
Owners(w) == {o \in {"instance"} \cup Handles \cup Clients :
                \/ o = "instance" /\ instance = w
                \/ o \in Handles /\ mgr[o] = w
                \/ o \in Clients /\ Holds(o, w)}
LastOwner(w, o) == w # NoWriter /\ Owners(w) = {o}
-----------------------------------------------------------------------------
(* LogWriter::getLogWriter() and setLogger().                              *)

Unused == {w \in Writers : life[w] = "free"}

\* Mutant: no test of `instance', every call creates a writer.
LockAndReplace(c) ==
  /\ Calling(c, {"create", "stop", "set"})
  /\ lock = NoClient /\ lock' = c
  /\ Goto(c, IF Call(c).op = "set" THEN "set" ELSE "check")
  /\ Unused # {}
  /\ instance' = CHOOSE w \in Unused : TRUE
  /\ life' = [life EXCEPT ![instance'] = "live"]
  /\ UNCHANGED <<running, joinable, logger, queue, workerVars, tmp, stack,
                 storage, mgr, sinkVars, accepted, written, fault>>

\* Both take instanceMutex and create the writer when there is none.
LockInstance(c) ==
  /\ Calling(c, {"create", "stop", "set"})
  /\ lock = NoClient /\ lock' = c
  /\ Goto(c, IF Call(c).op = "set" THEN "set" ELSE "check")
  /\ \/ instance # NoWriter /\ UNCHANGED <<instance, life>>
     \/ /\ instance = NoWriter /\ Unused # {}
        /\ instance' = CHOOSE w \in Unused : TRUE
        /\ life' = [life EXCEPT ![instance'] = "live"]
  /\ UNCHANGED <<running, joinable, logger, queue, workerVars, tmp, stack,
                 storage, mgr, sinkVars, accepted, written, fault>>

\* Mutant: the worker is started without a test of m_running.
AlwaysStart(c) ==
  /\ In(c, "check") /\ instance # NoWriter
  /\ Goto(c, "spawn")
  /\ running' = [running EXCEPT ![instance] = TRUE]
  /\ tmp' = [tmp EXCEPT ![c] = instance]
  /\ UNCHANGED <<instance, lock, life, joinable, logger, queue, workerVars,
                 stack, storage, mgr, sinkVars, accepted, written, fault>>

\* instance->m_running is tested; start() sets it and then spawns the worker.
CheckRunning(c) ==
  /\ In(c, "check")
  /\ \/ instance = NoWriter /\ Fail("null")
     \/ /\ instance # NoWriter
        /\ \/ running[instance] /\ Goto(c, "load") /\ UNCHANGED <<running, tmp>>
           \/ /\ ~running[instance] /\ Goto(c, "spawn")
              /\ running' = [running EXCEPT ![instance] = TRUE]
              /\ tmp' = [tmp EXCEPT ![c] = instance]
        /\ UNCHANGED <<instance, lock, life, joinable, logger, queue, workerVars,
                       stack, storage, mgr, sinkVars, accepted, written, fault>>

\* Assigning to a std::thread that is still joinable terminates the program.
Spawn(c) ==
  /\ In(c, "spawn")
  /\ LET w == tmp[c] IN
       \/ life[w] # "live" /\ Fail("dangling")
       \/ life[w] = "live" /\ joinable[w] /\ Fail("terminate")
       \/ /\ life[w] = "live" /\ ~joinable[w]
          /\ joinable' = [joinable EXCEPT ![w] = TRUE]
          /\ wpc' = [wpc EXCEPT ![w] = "loop"]
          /\ tmp' = [tmp EXCEPT ![c] = NoWriter]
          /\ Goto(c, "load")
          /\ UNCHANGED <<instance, lock, life, running, logger, queue, inflight,
                         target, stack, storage, mgr, sinkVars, accepted,
                         written, fault>>

\* `return instance' loads the pointer, then adds a reference to its count.
LoadInstance(c) ==
  /\ In(c, "load")
  /\ tmp' = [tmp EXCEPT ![c] = instance]
  /\ Goto(c, "ref")
  /\ UNCHANGED <<instance, lock, writerVars, queue, workerVars, stack, storage,
                 mgr, sinkVars, accepted, written, fault>>

\* The caller gets the pointer: a LogManager keeps it, or stop() is called on it.
AddReference(c) ==
  /\ In(c, "ref")
  /\ LET w == tmp[c]
         dangling == w # NoWriter /\ life[w] # "live"
     IN \/ dangling /\ Fail("dangling")
        \/ w = NoWriter /\ Call(c).op = "stop" /\ Fail("null")
        \/ /\ ~dangling /\ lock' = NoClient
           /\ \/ /\ Call(c).op = "create"
                 /\ mgr' = [mgr EXCEPT ![Call(c).h] = w]
                 /\ tmp' = [tmp EXCEPT ![c] = NoWriter]
                 /\ Return(c) /\ stack' = stack
              \/ /\ Call(c).op = "stop" /\ w # NoWriter
                 /\ stack' = [stack EXCEPT ![c] = <<Activation(w, FALSE)>>]
                 /\ Goto(c, "stop") /\ UNCHANGED <<mgr, tmp>>
           /\ UNCHANGED <<instance, writerVars, queue, workerVars, storage,
                          sinkVars, accepted, written, fault>>

\* setLogger() destroys the old logger, which closes (and so flushes) a file.
SetLogger(c) ==
  /\ In(c, "set")
  /\ \/ instance = NoWriter /\ Fail("null")
     \/ /\ instance # NoWriter
        /\ LET old == logger[instance] IN
             durable' = [durable EXCEPT ![old] = Len(out[old])]
        /\ logger' = [logger EXCEPT ![instance] = Call(c).l]
        /\ lock' = NoClient
        /\ Return(c)
        /\ UNCHANGED <<instance, life, running, joinable, queue, workerVars, tmp,
                       stack, storage, mgr, out, accepted, written, fault>>
-----------------------------------------------------------------------------
(* LogManager.                                                             *)

Log(c) ==
  /\ Calling(c, {"log"})
  /\ storage' = [storage EXCEPT ![c] = Append(@, Call(c).m)]
  /\ Return(c)
  /\ UNCHANGED <<instance, lock, writerVars, queue, workerVars, tmp, stack, mgr,
                 sinkVars, accepted, written, fault>>

\* One turn of the loop in LogWriter::log(): flush() and ~LogManager hand the
\* thread's messages over one at a time.
Enqueue(c) ==
  /\ Calling(c, {"flush", "close"}) /\ storage[c] # <<>>
  /\ LET w == mgr[Call(c).h]
         m == Head(storage[c])
     IN \/ w = NoWriter /\ Fail("null")
        \/ /\ w # NoWriter
           /\ queue' = [queue EXCEPT ![w] = Append(@, m)]
           /\ accepted' = [accepted EXCEPT ![w] = Append(@, m)]
           /\ storage' = [storage EXCEPT ![c] = Tail(@)]
           /\ UNCHANGED <<instance, lock, writerVars, workerVars, clientVars,
                          mgr, sinkVars, written, fault>>

Flushed(c) ==
  /\ Calling(c, {"flush"}) /\ storage[c] = <<>>
  /\ Return(c)
  /\ UNCHANGED <<instance, lock, writerVars, queue, workerVars, tmp, stack,
                 storage, mgr, sinkVars, accepted, written, fault>>

\* Mutant: the reference is dropped as if it were the last one.
DropOutright(c, w, o, frames) ==
  /\ life' = [life EXCEPT ![w] = "dying"]
  /\ stack' = [stack EXCEPT ![c] = <<Activation(w, TRUE)>> \o frames]
  /\ Goto(c, "stop")

\* Drop of owner o's reference to w by client c: the last one runs ~LogWriter.
Drop(c, w, o, frames) ==
  IF LastOwner(w, o)
  THEN /\ life' = [life EXCEPT ![w] = "dying"]
       /\ stack' = [stack EXCEPT ![c] = <<Activation(w, TRUE)>> \o frames]
       /\ Goto(c, "stop")
  ELSE /\ life' = life
       /\ stack' = [stack EXCEPT ![c] = frames]
       /\ IF frames = <<>> THEN Return(c) ELSE Goto(c, "stop")

\* ~LogManager, once its flush is done, releases the writer.
Close(c) ==
  /\ Calling(c, {"close"}) /\ storage[c] = <<>>
  /\ LET h == Call(c).h IN
       /\ mgr' = [mgr EXCEPT ![h] = NoWriter]
       /\ Drop(c, mgr[h], h, <<>>)
  /\ UNCHANGED <<instance, lock, running, joinable, logger, queue, workerVars,
                 tmp, storage, sinkVars, accepted, written, fault>>
-----------------------------------------------------------------------------
(* LogWriter::stop() and ~LogWriter().                                     *)

StopCheck(c) ==
  /\ At(c, "check")
  /\ Move(c, IF running[Top(c).w] THEN "wait" ELSE "ret")
  /\ UNCHANGED <<instance, lock, writerVars, queue, workerVars, prog, pc, tmp,
                 storage, mgr, sinkVars, accepted, written, fault>>

\* The sleeping loop ends when it sees an empty queue; `seen' remembers how many
\* messages the writer had accepted by then.
StopDrained(c) ==
  /\ At(c, "wait") /\ queue[Top(c).w] = <<>>
  /\ Replace(c, <<[Top(c) EXCEPT !.at = "clear", !.seen = Len(accepted[Top(c).w])]>>)
  /\ UNCHANGED <<instance, lock, writerVars, queue, workerVars, prog, pc, tmp,
                 storage, mgr, sinkVars, accepted, written, fault>>

\* Mutant: m_running stays set.
StopUncleared(c) ==
  /\ At(c, "clear")
  /\ Move(c, "flush")
  /\ UNCHANGED <<instance, lock, writerVars, queue, workerVars, prog, pc, tmp,
                 storage, mgr, sinkVars, accepted, written, fault>>

StopClear(c) ==
  /\ At(c, "clear")
  /\ running' = [running EXCEPT ![Top(c).w] = FALSE]
  /\ Move(c, "flush")
  /\ UNCHANGED <<instance, lock, life, joinable, logger, queue, workerVars, prog,
                 pc, tmp, storage, mgr, sinkVars, accepted, written, fault>>

StopFlush(c) ==
  /\ At(c, "flush")
  /\ LET l == logger[Top(c).w] IN
       \/ LoggerKind[l] = "Null" /\ Fail("null")
       \/ /\ LoggerKind[l] # "Null"
          /\ durable' = [durable EXCEPT ![l] = Len(out[l])]
          /\ Move(c, "join")
          /\ UNCHANGED <<instance, lock, writerVars, queue, workerVars, prog, pc,
                         tmp, storage, mgr, out, accepted, written, fault>>

\* Mutant: the thread is detached, or left alone, where it should be joined.
StopDetach(c) ==
  /\ At(c, "join") /\ joinable[Top(c).w]
  /\ joinable' = [joinable EXCEPT ![Top(c).w] = FALSE]
  /\ Move(c, "reset")
  /\ UNCHANGED <<instance, lock, life, running, logger, queue, workerVars, prog,
                 pc, tmp, storage, mgr, sinkVars, accepted, written, fault>>
StopUnjoined(c) ==
  /\ At(c, "join")
  /\ Move(c, "reset")
  /\ UNCHANGED <<instance, lock, writerVars, queue, workerVars, prog, pc, tmp,
                 storage, mgr, sinkVars, accepted, written, fault>>

\* join() throws when another thread has already joined.
StopJoin(c) ==
  /\ At(c, "join")
  /\ LET w == Top(c).w IN
       \/ ~joinable[w] /\ Fail("terminate")
       \/ /\ joinable[w] /\ wpc[w] = "done"
          /\ joinable' = [joinable EXCEPT ![w] = FALSE]
          /\ Move(c, "reset")
          /\ UNCHANGED <<instance, lock, life, running, logger, queue, workerVars,
                         prog, pc, tmp, storage, mgr, sinkVars, accepted, written,
                         fault>>

\* instance.reset(), without the mutex, whatever writer it points to by now.
StopReset(c) ==
  /\ At(c, "reset")
  /\ instance' = NoWriter
  /\ Drop(c, instance, "instance", <<[Top(c) EXCEPT !.at = "ret"]>> \o Tail(stack[c]))
  /\ UNCHANGED <<lock, running, joinable, logger, queue, workerVars, tmp, storage,
                 mgr, sinkVars, accepted, written, fault>>

\* A called stop() returns and its caller's temporary shared_ptr goes.
StopReturn(c) ==
  /\ At(c, "ret") /\ ~Top(c).dtor
  /\ tmp' = [tmp EXCEPT ![c] = NoWriter]
  /\ Drop(c, Top(c).w, c, Tail(stack[c]))
  /\ UNCHANGED <<instance, lock, running, joinable, logger, queue, workerVars,
                 storage, mgr, sinkVars, accepted, written, fault>>

\* Mutant: ~FileLogger does not close its file.
DestroyUnclosed(c) ==
  /\ At(c, "ret") /\ Top(c).dtor
  /\ life' = [life EXCEPT ![Top(c).w] = "dead"]
  /\ Replace(c, <<>>)
  /\ IF Tail(stack[c]) = <<>> THEN Return(c) ELSE Goto(c, "stop")
  /\ UNCHANGED <<instance, lock, running, joinable, logger, queue, workerVars, tmp,
                 storage, mgr, sinkVars, accepted, written, fault>>

\* The members go after ~LogWriter's stop(): the queue with what is left in it,
\* the logger, and the thread, which must not be joinable (WorkerOutlived).
Destroy(c) ==
  /\ At(c, "ret") /\ Top(c).dtor
  /\ LET w == Top(c).w
         l == logger[w]
     IN /\ life' = [life EXCEPT ![w] = "dead"]
        /\ durable' = [durable EXCEPT ![l] = Len(out[l])]
  /\ Replace(c, <<>>)
  /\ IF Tail(stack[c]) = <<>> THEN Return(c) ELSE Goto(c, "stop")
  /\ UNCHANGED <<instance, lock, running, joinable, logger, queue, workerVars, tmp,
                 storage, mgr, out, accepted, written, fault>>
-----------------------------------------------------------------------------
(* LogWriter::loggerThread().                                              *)

Working(w, place) == fault = "none" /\ wpc[w] = place
WorkerRest == UNCHANGED <<instance, lock, writerVars, clientVars, storage, mgr,
                          accepted>>

WorkerLoop(w) ==
  /\ Working(w, "loop")
  /\ wpc' = [wpc EXCEPT ![w] = IF running[w] THEN "test" ELSE "done"]
  /\ WorkerRest /\ UNCHANGED <<queue, inflight, target, sinkVars, written, fault>>

\* Mutant: the worker takes without a look at empty(), or leaves when it is.
TakeUntested(w) ==
  /\ Working(w, "test")
  /\ wpc' = [wpc EXCEPT ![w] = "take"]
  /\ WorkerRest /\ UNCHANGED <<queue, inflight, target, sinkVars, written, fault>>
LeaveWhenEmpty(w) ==
  /\ Working(w, "test")
  /\ wpc' = [wpc EXCEPT ![w] = IF queue[w] = <<>> THEN "done" ELSE "take"]
  /\ WorkerRest /\ UNCHANGED <<queue, inflight, target, sinkVars, written, fault>>

WorkerTest(w) ==
  /\ Working(w, "test")
  /\ wpc' = [wpc EXCEPT ![w] = IF queue[w] = <<>> THEN "loop" ELSE "take"]
  /\ WorkerRest /\ UNCHANGED <<queue, inflight, target, sinkVars, written, fault>>

\* LockingQueue::dequeue() makes up a message when the queue is empty.
Front(q) == IF q = <<>> THEN EmptyMsg ELSE Head(q)
\* Mutant: dequeue() copies the front and does not pop it.
RestUnpopped(q) == q
Rest(q) == IF q = <<>> THEN q ELSE Tail(q)

WorkerTake(w) ==
  /\ Working(w, "take")
  /\ inflight' = [inflight EXCEPT ![w] = <<Front(queue[w])>>]
  /\ queue' = [queue EXCEPT ![w] = Rest(@)]
  /\ wpc' = [wpc EXCEPT ![w] = "load"]
  /\ WorkerRest /\ UNCHANGED <<target, sinkVars, written, fault>>

WorkerLoad(w) ==
  /\ Working(w, "load")
  /\ target' = [target EXCEPT ![w] = logger[w]]
  /\ wpc' = [wpc EXCEPT ![w] = "write"]
  /\ WorkerRest /\ UNCHANGED <<queue, inflight, sinkVars, written, fault>>

\* Mutant: a logger stores a batch as if it were one message.
EmitBatch(l, msgs) == /\ out' = [out EXCEPT ![l] = Append(@, msgs)]
                      /\ durable' = durable

\* What ILogger::write() does: std::endl flushes the console, fprintf buffers.
Emit(l, msgs) ==
  /\ out' = IF LoggerKind[l] = "Dummy" THEN out
            ELSE [out EXCEPT ![l] = @ \o msgs]
  /\ durable' = IF LoggerKind[l] = "Console"
                THEN [durable EXCEPT ![l] = Len(out[l]) + Len(msgs)] ELSE durable

WorkerWrite(w) ==
  /\ Working(w, "write")
  /\ LET l == target[w] IN
       \/ l # logger[w] /\ Fail("dangling")
       \/ l = logger[w] /\ LoggerKind[l] = "Null" /\ Fail("null")
       \/ /\ l = logger[w] /\ LoggerKind[l] # "Null"
          /\ Emit(l, inflight[w])
          /\ written' = [written EXCEPT ![w] = @ \o inflight[w]]
          /\ inflight' = [inflight EXCEPT ![w] = <<>>]
          /\ wpc' = [wpc EXCEPT ![w] = "loop"]
          /\ WorkerRest /\ UNCHANGED <<queue, target, fault>>
-----------------------------------------------------------------------------
ClientStep(c) ==
  \/ LockInstance(c) \/ CheckRunning(c) \/ Spawn(c) \/ LoadInstance(c)
  \/ AddReference(c) \/ SetLogger(c)
  \/ Log(c) \/ Enqueue(c) \/ Flushed(c) \/ Close(c)
  \/ StopCheck(c) \/ StopDrained(c) \/ StopClear(c) \/ StopFlush(c)
  \/ StopJoin(c) \/ StopReset(c) \/ StopReturn(c) \/ Destroy(c)

WorkerStep(w) == WorkerLoop(w) \/ WorkerTest(w) \/ WorkerTake(w)
                   \/ WorkerLoad(w) \/ WorkerWrite(w)

Finished == \A c \in Clients : prog[c] = <<>>

\* The program is over: nothing is left to call, or it has failed.
Halted == (Finished \/ fault # "none") /\ UNCHANGED vars

Next == \/ \E c \in Clients : ClientStep(c)
        \/ \E w \in Writers : WorkerStep(w)
        \/ Halted

Spec == Init /\ [][Next]_vars

(* The operating system runs every thread that can run: each client and each  *)
(* worker is scheduled again and again, whatever the others do.               *)
Fairness == /\ \A c \in Clients : WF_vars(ClientStep(c))
            /\ \A w \in Writers : WF_vars(WorkerStep(w))
FairSpec == Spec /\ Fairness
-----------------------------------------------------------------------------
(* Properties.                                                             *)

\* Every message that entered a writer's queue is in exactly one place and in
\* order: written, then the one the worker took, then the rest of the queue.
\* LockingQueue's two ends are used by threads that share only its mutex.
Fifo == \A w \in Writers : accepted[w] = written[w] \o inflight[w] \o queue[w]

\* The worker never takes the "Empty Queue" message that dequeue() makes up:
\* loggerThread() tests empty() and takes in two critical sections, and
\* LogWriter.cc:49 leaves the check for that message commented out.
NoPlaceholder == \A w \in Writers :
  /\ wpc[w] = "take" => queue[w] # <<>>
  /\ EmptyMsg \notin {inflight[w][i] : i \in DOMAIN inflight[w]}

\* "Signals the logging thread to stop and waits for it to finish": when the
\* join in stop() is over, all that was accepted before its loop saw an empty
\* queue is written, the message the worker had already taken included.
StopDrains == \A c \in Clients : \A i \in DOMAIN stack[c] :
  stack[c][i].at \in {"reset", "ret"} =>
    Len(written[stack[c][i].w]) >= stack[c][i].seen

\* A LogWriter some shared_ptr owns is not destroyed, even though stop() drops
\* the static reference while managers and other threads keep theirs.
OwnedIsLive == \A w \in Writers : Owners(w) # {} => life[w] = "live"

\* The worker runs on the members of its LogWriter: when they are gone, or
\* when the std::thread has been joined, it has left loggerThread().
WorkerOutlived == \A w \in Writers :
  /\ life[w] = "dead" => ~joinable[w]
  /\ ~joinable[w] => wpc[w] \in {"none", "done"}

\* The writers implement the abstract channel: nothing is accepted by a writer
\* under destruction, nothing is written by a destroyed one, nothing is
\* written twice, out of order or made up.
Channel == INSTANCE LogChannel
ImplementsChannel == Channel!Spec
=============================================================================
