--------------------------- MODULE LogWriterProofs ---------------------------
(***************************************************************************)
(* Proofs about LogWriter for any number of threads, writers and messages. *)
(* First what happens to messages; then the life of LogWriter objects: what *)
(* a shared_ptr owns is not destroyed, a writer that is destroyed has no   *)
(* worker left, and every writer implements LogChannel; last what the      *)
(* callers of LoggerApi can rely on when they use it as documented.        *)
(***************************************************************************)
EXTENDS LoggerApi, SequenceTheorems, TLAPS

(* The call a client is in the middle of is still the head of its program.   *)
CallInv == \A c \in Clients :
  /\ pc[c] # "idle" => prog[c] # <<>>
  /\ pc[c] \in {"check", "spawn", "load", "ref"} => Call(c).op \in {"create", "stop"}
  /\ pc[c] = "set" => Call(c).op = "set"

ControlOK ==
  /\ prog \in [Clients -> Seq(Calls)]
  /\ pc \in [Clients -> {"idle", "check", "spawn", "load", "ref", "set", "stop"}]
  /\ CallInv

TypeInv == TypeOK /\ CallInv

-----------------------------------------------------------------------------
(* What the control operators do to prog, pc and stack.                      *)

LEMMA CallTypes ==
  ASSUME TypeOK, NEW c \in Clients, prog[c] # <<>>
  PROVE  /\ Call(c) \in Calls
         /\ Tail(prog[c]) \in Seq(Calls)
         /\ Call(c).op \in {"create", "flush", "close", "log", "set", "stop"}
         /\ Call(c).op \in {"create", "flush", "close", "log"} => Call(c).h \in Handles
         /\ Call(c).op = "log" => Call(c).m \in Msgs
         /\ Call(c).op = "set" => Call(c).l \in Loggers
<1>1. prog[c] \in Seq(Calls)
  BY DEF TypeOK
<1>2. Call(c) \in Calls /\ Tail(prog[c]) \in Seq(Calls)
  BY <1>1, HeadTailProperties DEF Call
<1> QED
  BY <1>2 DEF Calls

LEMMA ReturnKeeps ==
  ASSUME TypeInv, NEW c \in Clients, prog[c] # <<>>, Return(c)
  PROVE  ControlOK'
<1>1. Tail(prog[c]) \in Seq(Calls)
  BY CallTypes DEF TypeInv
<1> QED
  BY <1>1 DEF Return, TypeInv, TypeOK, CallInv, Call, ControlOK

LEMMA GotoKeeps ==
  ASSUME TypeInv, NEW c \in Clients, NEW place, Goto(c, place), prog[c] # <<>>,
         \/ place \in {"check", "spawn", "load", "ref"} /\ Call(c).op \in {"create", "stop"}
         \/ place = "set" /\ Call(c).op = "set"
         \/ place = "stop"
  PROVE  ControlOK'
BY DEF Goto, TypeInv, TypeOK, CallInv, Call, ControlOK

LEMMA ActivationType ==
  ASSUME NEW w \in Writers
  PROVE  /\ <<Activation(w, TRUE)>> \in Seq(Frame)
         /\ <<Activation(w, FALSE)>> \in Seq(Frame)
<1>1. \A f \in Frame : <<f>> \in Seq(Frame)
  OBVIOUS
<1>2. Activation(w, TRUE) \in Frame /\ Activation(w, FALSE) \in Frame
  BY DEF Activation, Frame
<1> QED
  BY <1>1, <1>2

LEMMA FlushType ==
  ASSUME TypeOK, NEW l \in Loggers
  PROVE  [durable EXCEPT ![l] = Len(out[l])] \in [Loggers -> Nat]
<1>1. Len(out[l]) \in Nat
  BY LenProperties DEF TypeOK
<1> QED
  BY <1>1 DEF TypeOK

LEMMA ReplaceKeeps ==
  ASSUME TypeOK, NEW c \in Clients, stack[c] # <<>>, NEW fs \in Seq(Frame),
         Replace(c, fs)
  PROVE  /\ stack' \in [Clients -> Seq(Frame)]
         /\ Top(c) \in Frame
         /\ Tail(stack[c]) \in Seq(Frame)
<1>1. stack[c] \in Seq(Frame)
  BY DEF TypeOK
<1>2. Top(c) \in Frame /\ Tail(stack[c]) \in Seq(Frame)
  BY <1>1, HeadTailProperties DEF Top
<1>3. fs \o Tail(stack[c]) \in Seq(Frame)
  BY <1>2, ConcatProperties
<1> QED
  BY <1>2, <1>3 DEF Replace, TypeOK
-----------------------------------------------------------------------------
(* Type correctness.                                                         *)

LEMMA DropKeeps ==
  ASSUME TypeInv, NEW c \in Clients, prog[c] # <<>>,
         NEW w \in Writers \cup {NoWriter}, NEW o, NEW fs \in Seq(Frame),
         Drop(c, w, o, fs)
  PROVE  /\ life' \in [Writers -> {"free", "live", "dying", "dead"}]
         /\ stack' \in [Clients -> Seq(Frame)]
         /\ ControlOK'
<1>1. CASE LastOwner(w, o)
  <2>1. w \in Writers
    BY <1>1 DEF LastOwner
  <2>3. <<Activation(w, TRUE)>> \o fs \in Seq(Frame)
    BY <2>1, ActivationType, ConcatProperties
  <2>4. Goto(c, "stop")
    BY <1>1 DEF Drop
  <2>5. ControlOK'
    BY <2>4, GotoKeeps
  <2>6. /\ life' = [life EXCEPT ![w] = "dying"]
        /\ stack' = [stack EXCEPT ![c] = <<Activation(w, TRUE)>> \o fs]
    BY <1>1 DEF Drop
  <2> QED
    BY <2>3, <2>5, <2>6 DEF TypeInv, TypeOK
<1>2. CASE ~LastOwner(w, o)
  <2>1. life' = life /\ stack' = [stack EXCEPT ![c] = fs]
    BY <1>2 DEF Drop
  <2>2. Return(c) \/ Goto(c, "stop")
    BY <1>2 DEF Drop
  <2>3. ControlOK'
    BY <2>2, ReturnKeeps, GotoKeeps
  <2> QED
    BY <2>1, <2>3 DEF TypeInv, TypeOK
<1> QED
  BY <1>1, <1>2

LEMMA FailKeeps ==
  ASSUME TypeInv, NEW kind \in {"null", "dangling", "terminate"}, Fail(kind)
  PROVE  TypeInv'
BY DEF Fail, TypeInv, TypeOK, CallInv, Call, writerVars, workerVars, clientVars, sinkVars

LEMMA TypeInit == Init => TypeInv
BY ConstantsAssumption DEF Init, TypeInv, TypeOK, CallInv

LEMMA TypeGetLogWriter ==
  ASSUME TypeInv, NEW c \in Clients,
         \/ LockInstance(c) \/ CheckRunning(c) \/ Spawn(c) \/ LoadInstance(c)
         \/ AddReference(c) \/ SetLogger(c)
  PROVE  TypeInv'
<1> USE ConstantsAssumption
<1>1. CASE LockInstance(c)
  <2>1. instance' \in Writers \cup {NoWriter}
    BY <1>1 DEF LockInstance, Unused, TypeInv, TypeOK
  <2>2. life' \in [Writers -> {"free", "live", "dying", "dead"}]
    BY <1>1 DEF LockInstance, TypeInv, TypeOK
  <2>3. prog[c] # <<>>
    BY <1>1 DEF LockInstance, Calling
  <2>4. ControlOK'
    <3>1. CASE Call(c).op = "set"
      BY <1>1, <2>3, <3>1, GotoKeeps DEF LockInstance
    <3>2. CASE Call(c).op # "set"
      BY <1>1, <2>3, <3>2, GotoKeeps DEF LockInstance, Calling
    <3> QED
      BY <3>1, <3>2
  <2> QED
    BY <1>1, <2>1, <2>2, <2>4 DEF LockInstance, TypeInv, TypeOK, ControlOK, workerVars, sinkVars
<1>2. CASE CheckRunning(c)
  <2>1. CASE instance = NoWriter
    <3>1. Fail("null")
      BY <1>2, <2>1 DEF CheckRunning
    <3> QED
      BY <3>1, FailKeeps
  <2>2. CASE instance # NoWriter
    <3>1. prog[c] # <<>> /\ Call(c).op \in {"create", "stop"}
      BY <1>2 DEF CheckRunning, In, TypeInv, CallInv
    <3>2. Goto(c, "load") \/ Goto(c, "spawn")
      BY <1>2, <2>2 DEF CheckRunning
    <3>3. ControlOK'
      BY <3>1, <3>2, GotoKeeps
    <3>4. /\ running' \in [Writers -> BOOLEAN]
          /\ tmp' \in [Clients -> Writers \cup {NoWriter}]
      <4>1. CASE running' = running /\ tmp' = tmp
        BY <4>1 DEF TypeInv, TypeOK
      <4>2. CASE /\ running' = [running EXCEPT ![instance] = TRUE]
                 /\ tmp' = [tmp EXCEPT ![c] = instance]
        BY <4>2 DEF TypeInv, TypeOK
      <4> QED
        BY <1>2, <2>2, <4>1, <4>2 DEF CheckRunning
    <3>5. UNCHANGED <<instance, lock, life, joinable, logger, queue, workerVars,
                      stack, storage, mgr, sinkVars, accepted, written, fault>>
      BY <1>2, <2>2 DEF CheckRunning
    <3> QED
      BY <3>3, <3>4, <3>5 DEF TypeInv, TypeOK, ControlOK, workerVars, sinkVars
  <2> QED
    BY <2>1, <2>2
<1>3. CASE Spawn(c)
  <2>1. CASE life[tmp[c]] # "live" \/ joinable[tmp[c]]
    <3>1. Fail("dangling") \/ Fail("terminate")
      BY <1>3, <2>1 DEF Spawn
    <3> QED
      BY <3>1, FailKeeps
  <2>2. CASE ~(life[tmp[c]] # "live" \/ joinable[tmp[c]])
    <3>1. prog[c] # <<>> /\ Call(c).op \in {"create", "stop"} /\ Goto(c, "load")
      BY <1>3, <2>2 DEF Spawn, In, TypeInv, CallInv
    <3>3. ControlOK'
      BY <3>1, GotoKeeps
    <3>4. /\ joinable' \in [Writers -> BOOLEAN]
          /\ wpc' \in [Writers -> {"none", "loop", "test", "take", "load", "write", "done"}]
          /\ tmp' \in [Clients -> Writers \cup {NoWriter}]
      BY <1>3, <2>2 DEF Spawn, TypeInv, TypeOK
    <3>5. UNCHANGED <<instance, lock, life, running, logger, queue, inflight, target,
                      stack, storage, mgr, sinkVars, accepted, written, fault>>
      BY <1>3, <2>2 DEF Spawn
    <3> QED
      BY <3>3, <3>4, <3>5 DEF TypeInv, TypeOK, ControlOK, sinkVars
  <2> QED
    BY <2>1, <2>2
<1>4. CASE LoadInstance(c)
  <2>1. prog[c] # <<>> /\ Call(c).op \in {"create", "stop"} /\ Goto(c, "ref")
    BY <1>4 DEF LoadInstance, In, TypeInv, CallInv
  <2>2. ControlOK'
    BY <2>1, GotoKeeps
  <2> QED
    BY <1>4, <2>2 DEF LoadInstance, TypeInv, TypeOK, ControlOK, writerVars, workerVars, sinkVars
<1>5. CASE AddReference(c)
  <2>1. CASE \/ tmp[c] # NoWriter /\ life[tmp[c]] # "live"
             \/ tmp[c] = NoWriter /\ Call(c).op = "stop"
    <3>1. Fail("dangling") \/ Fail("null")
      BY <1>5, <2>1 DEF AddReference
    <3> QED
      BY <3>1, FailKeeps
  <2>2. CASE ~ \/ tmp[c] # NoWriter /\ life[tmp[c]] # "live"
               \/ tmp[c] = NoWriter /\ Call(c).op = "stop"
    <3>1. prog[c] # <<>>
      BY <1>5 DEF AddReference, In, TypeInv, CallInv
    <3>2. Return(c) \/ Goto(c, "stop")
      BY <1>5, <2>2 DEF AddReference
    <3>3. ControlOK'
      BY <3>1, <3>2, ReturnKeeps, GotoKeeps
    <3>4. stack' \in [Clients -> Seq(Frame)]
      <4>1. CASE stack' = stack
        BY <4>1 DEF TypeInv, TypeOK
      <4>2. CASE stack' # stack
        <5>1. tmp[c] \in Writers /\ stack' = [stack EXCEPT ![c] = <<Activation(tmp[c], FALSE)>>]
          BY <1>5, <2>2, <4>2 DEF AddReference, TypeInv, TypeOK
        <5> QED
          BY <5>1, ActivationType DEF TypeInv, TypeOK
      <4> QED
        BY <4>1, <4>2
    <3> QED
      <4>1. /\ lock' = NoClient
            /\ tmp' = [tmp EXCEPT ![c] = NoWriter] \/ tmp' = tmp
            /\ mgr' = [mgr EXCEPT ![Call(c).h] = tmp[c]] \/ mgr' = mgr
            /\ UNCHANGED <<instance, writerVars, queue, workerVars, storage,
                           sinkVars, accepted, written, fault>>
        BY <1>5, <2>2 DEF AddReference
      <4>2. tmp[c] \in Writers \cup {NoWriter} /\ NoWriter \in Writers \cup {NoWriter}
        BY DEF TypeInv, TypeOK
      <4>3. tmp' \in [Clients -> Writers \cup {NoWriter}]
        BY <4>1, <4>2 DEF TypeInv, TypeOK
      <4>4. mgr' \in [Handles -> Writers \cup {NoWriter}]
        BY <4>1, <4>2 DEF TypeInv, TypeOK
      <4>5. UNCHANGED <<instance, writerVars, queue, workerVars, storage,
                        sinkVars, accepted, written, fault>> /\ lock' = NoClient
        BY <4>1
      <4> QED
        BY <3>3, <3>4, <4>3, <4>4, <4>5
        DEF TypeInv, TypeOK, ControlOK, writerVars, workerVars, sinkVars
  <2> QED
    BY <2>1, <2>2
<1>6. CASE SetLogger(c)
  <2>1. CASE instance = NoWriter
    <3>1. Fail("null")
      BY <1>6, <2>1 DEF SetLogger
    <3> QED
      BY <3>1, FailKeeps
  <2>2. CASE instance # NoWriter
    <3>1. prog[c] # <<>> /\ Call(c).op = "set"
      BY <1>6 DEF SetLogger, In, TypeInv, CallInv
    <3>2. Call(c).l \in Loggers
      BY <3>1, CallTypes DEF TypeInv
    <3>3. ControlOK'
      BY <1>6, <2>2, <3>1, ReturnKeeps DEF SetLogger
    <3>4. durable' \in [Loggers -> Nat]
      <4>1. logger[instance] \in Loggers
        BY <2>2 DEF TypeInv, TypeOK
      <4>2. durable' = [durable EXCEPT ![logger[instance]] = Len(out[logger[instance]])]
        BY <1>6, <2>2 DEF SetLogger
      <4> QED
        BY <4>1, <4>2, FlushType DEF TypeInv
    <3> QED
      BY <1>6, <2>2, <3>2, <3>3, <3>4 DEF SetLogger, TypeInv, TypeOK, ControlOK, workerVars
  <2> QED
    BY <2>1, <2>2
<1> QED
  BY <1>1, <1>2, <1>3, <1>4, <1>5, <1>6

LEMMA TypeLogManager ==
  ASSUME TypeInv, NEW c \in Clients,
         Log(c) \/ Enqueue(c) \/ Flushed(c) \/ Close(c)
  PROVE  TypeInv'
<1>0. storage[c] \in Seq(Msgs)
  BY DEF TypeInv, TypeOK
<1>1. CASE Log(c)
  <2>1. prog[c] # <<>> /\ Call(c).op = "log"
    BY <1>1 DEF Log, Calling
  <2>2. Call(c).m \in Msgs
    BY <2>1, CallTypes DEF TypeInv
  <2>3. ControlOK'
    BY <1>1, <2>1, ReturnKeeps DEF Log
  <2>4. Append(storage[c], Call(c).m) \in Seq(Msgs)
    BY <1>0, <2>2, AppendProperties
  <2>5. storage' \in [Clients -> Seq(Msgs)]
    BY <1>1, <2>4 DEF Log, TypeInv, TypeOK
  <2> QED
    BY <1>1, <2>3, <2>5 DEF Log, TypeInv, TypeOK, ControlOK, writerVars, workerVars, sinkVars
<1>2. CASE Enqueue(c)
  <2>0. prog[c] # <<>> /\ Call(c).op \in {"flush", "close"} /\ storage[c] # <<>>
    BY <1>2 DEF Enqueue, Calling
  <2>1. CASE mgr[Call(c).h] = NoWriter
    <3>1. Fail("null")
      BY <1>2, <2>1 DEF Enqueue
    <3> QED
      BY <3>1, FailKeeps
  <2>2. CASE mgr[Call(c).h] # NoWriter
    <3> DEFINE w == mgr[Call(c).h]
    <3>1. w \in Writers
      <4>1. Call(c).h \in Handles
        BY <2>0, CallTypes DEF TypeInv
      <4> QED
        BY <4>1, <2>2 DEF TypeInv, TypeOK
    <3>2. Head(storage[c]) \in Msgs /\ Tail(storage[c]) \in Seq(Msgs)
      BY <1>0, <2>0, HeadTailProperties
    <3>3. queue[w] \in Seq(Msgs) /\ accepted[w] \in Seq(Msgs)
      BY <3>1 DEF TypeInv, TypeOK
    <3>4. /\ Append(queue[w], Head(storage[c])) \in Seq(Msgs)
          /\ Append(accepted[w], Head(storage[c])) \in Seq(Msgs)
      BY <3>2, <3>3, AppendProperties
    <3>5. /\ queue' = [queue EXCEPT ![w] = Append(queue[w], Head(storage[c]))]
          /\ accepted' = [accepted EXCEPT ![w] = Append(accepted[w], Head(storage[c]))]
          /\ storage' = [storage EXCEPT ![c] = Tail(storage[c])]
          /\ UNCHANGED <<instance, lock, writerVars, workerVars, clientVars,
                         mgr, sinkVars, written, fault>>
      BY <1>2, <2>2 DEF Enqueue
    <3>6. /\ queue' \in [Writers -> Seq(Msgs)]
          /\ accepted' \in [Writers -> Seq(Msgs)]
          /\ storage' \in [Clients -> Seq(Msgs)]
      BY <3>2, <3>4, <3>5 DEF TypeInv, TypeOK
    <3> HIDE DEF w
    <3> QED
      BY <3>5, <3>6 DEF TypeInv, TypeOK, CallInv, Call,
                        writerVars, workerVars, clientVars, sinkVars
  <2> QED
    BY <2>1, <2>2
<1>3. CASE Flushed(c)
  <2>1. prog[c] # <<>>
    BY <1>3 DEF Flushed, Calling
  <2>2. ControlOK'
    BY <1>3, <2>1, ReturnKeeps DEF Flushed
  <2> QED
    BY <1>3, <2>2 DEF Flushed, TypeInv, TypeOK, ControlOK, writerVars, workerVars, sinkVars
<1>4. CASE Close(c)
  <2>1. prog[c] # <<>> /\ Call(c).op = "close"
    BY <1>4 DEF Close, Calling
  <2>2. Call(c).h \in Handles
    BY <2>1, CallTypes DEF TypeInv
  <2>3. mgr[Call(c).h] \in Writers \cup {NoWriter}
    BY <2>2 DEF TypeInv, TypeOK
  <2>4. Drop(c, mgr[Call(c).h], Call(c).h, <<>>)
    BY <1>4 DEF Close
  <2>5. <<>> \in Seq(Frame)
    BY EmptySeq
  <2>6. /\ life' \in [Writers -> {"free", "live", "dying", "dead"}]
        /\ stack' \in [Clients -> Seq(Frame)]
        /\ ControlOK'
    BY <2>1, <2>3, <2>4, <2>5, DropKeeps
  <2>7. mgr' \in [Handles -> Writers \cup {NoWriter}]
    BY <1>4 DEF Close, TypeInv, TypeOK
  <2> QED
    BY <1>4, <2>6, <2>7 DEF Close, TypeInv, TypeOK, ControlOK, workerVars, sinkVars
<1> QED
  BY <1>1, <1>2, <1>3, <1>4

LEMMA TypeStop ==
  ASSUME TypeInv, NEW c \in Clients,
         \/ StopCheck(c) \/ StopDrained(c) \/ StopClear(c) \/ StopFlush(c)
         \/ StopJoin(c) \/ StopReset(c) \/ StopReturn(c) \/ Destroy(c)
  PROVE  TypeInv'
<1>0. /\ prog[c] # <<>> /\ stack[c] # <<>> /\ Top(c) \in Frame
      /\ Tail(stack[c]) \in Seq(Frame)
  <2>1. pc[c] = "stop" /\ stack[c] # <<>>
    BY DEF StopCheck, StopDrained, StopClear, StopFlush, StopJoin, StopReset,
           StopReturn, Destroy, At, In
  <2>2. stack[c] \in Seq(Frame)
    BY DEF TypeInv, TypeOK
  <2> QED
    BY <2>1, <2>2, HeadTailProperties DEF TypeInv, CallInv, Top
<1>w. Top(c).w \in Writers
  BY <1>0 DEF Frame
<1>m. ASSUME NEW place \in {"check", "wait", "clear", "flush", "join", "reset", "ret"}
      PROVE  /\ [Top(c) EXCEPT !.at = place] \in Frame
             /\ Move(c, place) => stack' \in [Clients -> Seq(Frame)]
  <2>1. [Top(c) EXCEPT !.at = place] \in Frame
    BY <1>0 DEF Frame
  <2>2. \A f \in Frame : <<f>> \in Seq(Frame)
    OBVIOUS
  <2>3. <<[Top(c) EXCEPT !.at = place]>> \in Seq(Frame)
    BY <2>1, <2>2
  <2> QED
    BY <1>0, <2>1, <2>3, ReplaceKeeps DEF Move, TypeInv
<1>1. CASE StopCheck(c)
  <2>1. Move(c, "wait") \/ Move(c, "ret")
    BY <1>1 DEF StopCheck
  <2>2. stack' \in [Clients -> Seq(Frame)]
    BY <2>1, <1>m
  <2> QED
    BY <1>1, <2>2 DEF StopCheck, TypeInv, TypeOK, CallInv, Call, writerVars, workerVars, sinkVars
<1>2. CASE StopDrained(c)
  <2>1. Len(accepted[Top(c).w]) \in Nat
    BY <1>w, LenProperties DEF TypeInv, TypeOK
  <2> DEFINE f == [Top(c) EXCEPT !.at = "clear", !.seen = Len(accepted[Top(c).w])]
  <2>2. f \in Frame
    BY <1>0, <2>1 DEF Frame
  <2>3. \A g \in Frame : <<g>> \in Seq(Frame)
    OBVIOUS
  <2>4. <<f>> \in Seq(Frame)
    BY <2>2, <2>3
  <2>5. Replace(c, <<f>>)
    BY <1>2 DEF StopDrained
  <2> HIDE DEF f
  <2>6. stack' \in [Clients -> Seq(Frame)]
    BY <1>0, <2>4, <2>5, ReplaceKeeps DEF TypeInv
  <2> QED
    BY <1>2, <2>6 DEF StopDrained, TypeInv, TypeOK, CallInv, Call, writerVars, workerVars, sinkVars
<1>3. CASE StopClear(c)
  <2>1. stack' \in [Clients -> Seq(Frame)]
    BY <1>3, <1>m DEF StopClear
  <2>2. running' = [running EXCEPT ![Top(c).w] = FALSE]
    BY <1>3 DEF StopClear
  <2>3. running' \in [Writers -> BOOLEAN]
    BY <2>2 DEF TypeInv, TypeOK
  <2> QED
    BY <1>3, <2>1, <2>3 DEF StopClear, TypeInv, TypeOK, CallInv, Call, workerVars, sinkVars
<1>4. CASE StopFlush(c)
  <2> DEFINE l == logger[Top(c).w]
  <2>1. CASE LoggerKind[l] = "Null"
    <3>1. Fail("null")
      BY <1>4, <2>1 DEF StopFlush
    <3> QED
      BY <3>1, FailKeeps
  <2>2. CASE LoggerKind[l] # "Null"
    <3>1. /\ durable' = [durable EXCEPT ![l] = Len(out[l])]
          /\ Move(c, "join")
          /\ UNCHANGED <<instance, lock, writerVars, queue, workerVars, prog, pc,
                         tmp, storage, mgr, out, accepted, written, fault>>
      BY <1>4, <2>2 DEF StopFlush
    <3>2. l \in Loggers
      BY <1>w DEF TypeInv, TypeOK
    <3>3. durable' \in [Loggers -> Nat]
      BY <3>1, <3>2, FlushType DEF TypeInv
    <3>4. stack' \in [Clients -> Seq(Frame)]
      BY <3>1, <1>m
    <3> QED
      BY <3>1, <3>3, <3>4 DEF TypeInv, TypeOK, CallInv, Call, writerVars, workerVars
  <2> QED
    BY <2>1, <2>2
<1>5. CASE StopJoin(c)
  <2>1. CASE ~joinable[Top(c).w]
    <3>1. Fail("terminate")
      BY <1>5, <2>1 DEF StopJoin
    <3> QED
      BY <3>1, FailKeeps
  <2>2. CASE joinable[Top(c).w]
    <3>1. /\ joinable' = [joinable EXCEPT ![Top(c).w] = FALSE]
          /\ Move(c, "reset")
          /\ UNCHANGED <<instance, lock, life, running, logger, queue, workerVars,
                         prog, pc, tmp, storage, mgr, sinkVars, accepted, written,
                         fault>>
      BY <1>5, <2>2 DEF StopJoin
    <3>2. joinable' \in [Writers -> BOOLEAN]
      BY <3>1 DEF TypeInv, TypeOK
    <3>3. stack' \in [Clients -> Seq(Frame)]
      BY <3>1, <1>m
    <3> QED
      BY <3>1, <3>2, <3>3 DEF TypeInv, TypeOK, CallInv, Call, workerVars, sinkVars
  <2> QED
    BY <2>1, <2>2
<1>6. CASE StopReset(c)
  <2> DEFINE fs == <<[Top(c) EXCEPT !.at = "ret"]>> \o Tail(stack[c])
  <2>1. \A f \in Frame : <<f>> \in Seq(Frame)
    OBVIOUS
  <2>2. <<[Top(c) EXCEPT !.at = "ret"]>> \in Seq(Frame)
    BY <2>1, <1>m
  <2>3. fs \in Seq(Frame)
    BY <1>0, <2>2, ConcatProperties
  <2>4. Drop(c, instance, "instance", fs)
    BY <1>6 DEF StopReset
  <2>5. instance \in Writers \cup {NoWriter}
    BY DEF TypeInv, TypeOK
  <2> HIDE DEF fs
  <2>6. /\ life' \in [Writers -> {"free", "live", "dying", "dead"}]
        /\ stack' \in [Clients -> Seq(Frame)]
        /\ ControlOK'
    BY <1>0, <2>3, <2>4, <2>5, DropKeeps
  <2> QED
    BY <1>6, <2>6 DEF StopReset, TypeInv, TypeOK, ControlOK, workerVars, sinkVars
<1>7. CASE StopReturn(c)
  <2>1. Drop(c, Top(c).w, c, Tail(stack[c]))
    BY <1>7 DEF StopReturn
  <2>2. /\ life' \in [Writers -> {"free", "live", "dying", "dead"}]
        /\ stack' \in [Clients -> Seq(Frame)]
        /\ ControlOK'
    BY <1>0, <1>w, <2>1, DropKeeps
  <2>3. tmp' \in [Clients -> Writers \cup {NoWriter}]
    BY <1>7 DEF StopReturn, TypeInv, TypeOK
  <2> QED
    BY <1>7, <2>2, <2>3 DEF StopReturn, TypeInv, TypeOK, ControlOK, workerVars, sinkVars
<1>8. CASE Destroy(c)
  <2>1. /\ Replace(c, <<>>)
        /\ Return(c) \/ Goto(c, "stop")
        /\ life' = [life EXCEPT ![Top(c).w] = "dead"]
        /\ durable' = [durable EXCEPT ![logger[Top(c).w]] = Len(out[logger[Top(c).w]])]
    BY <1>8 DEF Destroy
  <2>2. ControlOK'
    BY <1>0, <2>1, ReturnKeeps, GotoKeeps
  <2>3. stack' \in [Clients -> Seq(Frame)]
    BY <1>0, <2>1, EmptySeq, ReplaceKeeps DEF TypeInv
  <2>4. logger[Top(c).w] \in Loggers
    BY <1>w DEF TypeInv, TypeOK
  <2>5. durable' \in [Loggers -> Nat]
    BY <2>1, <2>4, FlushType DEF TypeInv
  <2> QED
    BY <1>8, <2>1, <2>2, <2>3, <2>5 DEF Destroy, TypeInv, TypeOK, ControlOK, workerVars
<1> QED
  BY <1>1, <1>2, <1>3, <1>4, <1>5, <1>6, <1>7, <1>8

LEMMA TypeWorker ==
  ASSUME TypeInv, NEW w \in Writers, WorkerStep(w)
  PROVE  TypeInv'
<1> DEFINE M == Msgs \cup {EmptyMsg}
<1>0. /\ queue[w] \in Seq(Msgs) /\ inflight[w] \in Seq(M) /\ written[w] \in Seq(M)
      /\ logger[w] \in Loggers /\ target[w] \in Loggers
  BY DEF TypeInv, TypeOK
<1>1. CASE WorkerLoop(w)
  BY <1>1 DEF WorkerLoop, WorkerRest, TypeInv, TypeOK, CallInv, Call,
              writerVars, clientVars, sinkVars
<1>2. CASE WorkerTest(w)
  BY <1>2 DEF WorkerTest, WorkerRest, TypeInv, TypeOK, CallInv, Call,
              writerVars, clientVars, sinkVars
<1>3. CASE WorkerTake(w)
  <2>1. Front(queue[w]) \in M /\ Rest(queue[w]) \in Seq(Msgs)
    <3>1. CASE queue[w] = <<>>
      BY <1>0, <3>1 DEF Front, Rest
    <3>2. CASE queue[w] # <<>>
      BY <1>0, <3>2, HeadTailProperties DEF Front, Rest
    <3> QED
      BY <3>1, <3>2
  <2>2. \A m \in M : <<m>> \in Seq(M)
    OBVIOUS
  <2>3. <<Front(queue[w])>> \in Seq(M)
    BY <2>1, <2>2
  <2>4. /\ inflight' \in [Writers -> Seq(M)]
        /\ queue' \in [Writers -> Seq(Msgs)]
    BY <1>3, <2>1, <2>3 DEF WorkerTake, TypeInv, TypeOK
  <2>5. wpc' = [wpc EXCEPT ![w] = "load"]
    BY <1>3 DEF WorkerTake
  <2> QED
    BY <1>3, <2>4, <2>5 DEF WorkerTake, WorkerRest, TypeInv, TypeOK, CallInv, Call,
                     writerVars, clientVars, sinkVars
<1>4. CASE WorkerLoad(w)
  BY <1>0, <1>4 DEF WorkerLoad, WorkerRest, TypeInv, TypeOK, CallInv, Call,
              writerVars, clientVars, sinkVars
<1>5. CASE WorkerWrite(w)
  <2> DEFINE l == target[w]
  <2>1. CASE l # logger[w] \/ LoggerKind[l] = "Null"
    <3>1. Fail("dangling") \/ Fail("null")
      BY <1>5, <2>1 DEF WorkerWrite
    <3> QED
      BY <3>1, FailKeeps
  <2>2. CASE ~(l # logger[w] \/ LoggerKind[l] = "Null")
    <3>1. /\ Emit(l, inflight[w])
          /\ written' = [written EXCEPT ![w] = written[w] \o inflight[w]]
          /\ inflight' = [inflight EXCEPT ![w] = <<>>]
          /\ wpc' = [wpc EXCEPT ![w] = "loop"]
          /\ WorkerRest /\ UNCHANGED <<queue, target, fault>>
      BY <1>5, <2>2 DEF WorkerWrite
    <3>2. written[w] \o inflight[w] \in Seq(M)
      BY <1>0, ConcatProperties
    <3>3. out[l] \in Seq(M)
      BY <1>0 DEF TypeInv, TypeOK
    <3>4. out[l] \o inflight[w] \in Seq(M)
      BY <1>0, <3>3, ConcatProperties
    <3>5. Len(out[l]) + Len(inflight[w]) \in Nat
      <4>1. Len(out[l]) \in Nat /\ Len(inflight[w]) \in Nat
        BY <1>0, <3>3, LenProperties
      <4>2. \A a, b \in Nat : a + b \in Nat
        OBVIOUS
      <4> QED
        BY <4>1, <4>2
    <3>6. out' \in [Loggers -> Seq(M)] /\ durable' \in [Loggers -> Nat]
      BY <3>1, <3>4, <3>5 DEF Emit, TypeInv, TypeOK
    <3>7. written' \in [Writers -> Seq(M)] /\ inflight' \in [Writers -> Seq(M)]
      <4>1. <<>> \in Seq(M)
        BY EmptySeq
      <4>2. written \in [Writers -> Seq(M)] /\ inflight \in [Writers -> Seq(M)]
        BY DEF TypeInv, TypeOK
      <4> HIDE DEF M
      <4> QED
        BY <3>1, <3>2, <4>1, <4>2
    <3> QED
      BY <3>1, <3>6, <3>7 DEF WorkerRest, TypeInv, TypeOK, CallInv, Call,
                              writerVars, clientVars
  <2> QED
    BY <2>1, <2>2
<1> QED
  BY <1>1, <1>2, <1>3, <1>4, <1>5 DEF WorkerStep

LEMMA TypeNext == TypeInv /\ [Next]_vars => TypeInv'
<1> SUFFICES ASSUME TypeInv, [Next]_vars PROVE TypeInv'
  OBVIOUS
<1>1. CASE UNCHANGED vars
  BY <1>1 DEF vars, TypeInv, TypeOK, CallInv, Call, writerVars, workerVars,
              clientVars, sinkVars
<1>2. ASSUME NEW c \in Clients, ClientStep(c) PROVE TypeInv'
  BY <1>2, TypeGetLogWriter, TypeLogManager, TypeStop DEF ClientStep
<1>3. ASSUME NEW w \in Writers, WorkerStep(w) PROVE TypeInv'
  BY <1>3, TypeWorker
<1> QED
  BY <1>1, <1>2, <1>3 DEF Next, Halted

\* Every variable keeps its type, however many threads, writers and messages:
\* in particular no call in progress loses its place in its client's program.
THEOREM TypeCorrect == Spec => []TypeOK
<1>1. Init => TypeInv
  BY TypeInit
<1>2. TypeInv /\ [Next]_vars => TypeInv'
  BY TypeNext
<1>3. TypeInv => TypeOK
  BY DEF TypeInv
<1> QED
  BY <1>1, <1>2, <1>3, PTL DEF Spec
-----------------------------------------------------------------------------
(* Messages move along written \o inflight \o queue without changing it.      *)

LEMMA PipelineAppend ==
  ASSUME NEW S, NEW w \in Seq(S), NEW i \in Seq(S), NEW q \in Seq(S), NEW x \in S
  PROVE  w \o i \o Append(q, x) = Append(w \o i \o q, x)
<1>1. <<x>> \in Seq(S)
  OBVIOUS
<1>2. w \o i \in Seq(S) /\ w \o i \o q \in Seq(S)
  BY ConcatProperties
<1>3. (w \o i) \o (q \o <<x>>) = ((w \o i) \o q) \o <<x>>
  BY <1>1, <1>2, ConcatAssociative
<1> QED
  BY <1>2, <1>3, AppendIsConcat

LEMMA PipelineTake ==
  ASSUME NEW S, NEW w \in Seq(S), NEW q \in Seq(S), q # <<>>
  PROVE  w \o <<>> \o q = w \o <<Head(q)>> \o Tail(q)
<1>1. Head(q) \in S /\ Tail(q) \in Seq(S) /\ Len(Tail(q)) = Len(q) - 1
      /\ \A j \in 1..Len(Tail(q)) : Tail(q)[j] = q[j+1]
  BY HeadTailProperties
<1>2. \A y \in S : <<y>> \in Seq(S)
  OBVIOUS
<1>3. <<Head(q)>> \in Seq(S)
  BY <1>1, <1>2
<1>4. q = <<Head(q)>> \o Tail(q)
  OBVIOUS
<1>5. w \o <<>> = w
  BY ConcatEmptySeq
<1> QED
  BY <1>1, <1>3, <1>4, <1>5, ConcatAssociative

LEMMA PipelineWrite ==
  ASSUME NEW S, NEW w \in Seq(S), NEW i \in Seq(S), NEW q \in Seq(S)
  PROVE  (w \o i) \o <<>> \o q = w \o i \o q
<1>1. w \o i \in Seq(S)
  BY ConcatProperties
<1> QED
  BY <1>1, ConcatEmptySeq
-----------------------------------------------------------------------------
(* The worker: what it holds, and the order of the messages.  Fifo is        *)
(* inductive only with the place of the worker: it takes when the queue is   *)
(* known not to be empty, and holds a message only between take and write.   *)

HandOff(w) ==
  /\ wpc[w] \notin {"load", "write"} => inflight[w] = <<>>
  /\ inflight[w] \in Seq(Msgs)
  /\ wpc[w] = "take" => queue[w] # <<>>
  /\ ~joinable[w] => wpc[w] \in {"none", "done"}
  /\ accepted[w] = written[w] \o inflight[w] \o queue[w]

HandOffInv == \A w \in Writers : HandOff(w)

LEMMA HandOffSame ==
  ASSUME HandOffInv,
         UNCHANGED <<wpc, inflight, queue, joinable, accepted, written>>
  PROVE  HandOffInv'
BY DEF HandOffInv, HandOff

LEMMA HandOffInit == Init => HandOffInv
<1> SUFFICES ASSUME Init, NEW w \in Writers PROVE HandOff(w)
  BY DEF HandOffInv
<1>1. /\ wpc[w] = "none" /\ inflight[w] = <<>> /\ queue[w] = <<>>
      /\ accepted[w] = <<>> /\ written[w] = <<>>
  BY DEF Init
<1>2. <<>> \in Seq(Msgs)
  BY EmptySeq
<1>3. <<>> \o <<>> \o <<>> = <<>>
  BY <1>2, ConcatEmptySeq
<1> QED
  BY <1>1, <1>2, <1>3 DEF HandOff

LEMMA HandOffEnqueue ==
  ASSUME TypeInv, HandOffInv, NEW c \in Clients, Enqueue(c)
  PROVE  HandOffInv'
<1>0. /\ prog[c] # <<>> /\ Call(c).op \in {"flush", "close"} /\ storage[c] # <<>>
      /\ storage[c] \in Seq(Msgs)
  BY DEF Enqueue, Calling, TypeInv, TypeOK
<1>1. CASE mgr[Call(c).h] = NoWriter
  <2>1. Fail("null")
    BY <1>1 DEF Enqueue
  <2> QED
    BY <2>1, HandOffSame DEF Fail, workerVars, writerVars
<1>2. CASE mgr[Call(c).h] # NoWriter
  <2> DEFINE w == mgr[Call(c).h]
             m == Head(storage[c])
  <2>1. w \in Writers
    <3>1. Call(c).h \in Handles
      BY <1>0, CallTypes DEF TypeInv
    <3> QED
      BY <3>1, <1>2 DEF TypeInv, TypeOK
  <2>2. m \in Msgs
    BY <1>0, HeadTailProperties
  <2>3. /\ queue' = [queue EXCEPT ![w] = Append(queue[w], m)]
        /\ accepted' = [accepted EXCEPT ![w] = Append(accepted[w], m)]
        /\ UNCHANGED <<wpc, inflight, joinable, written>>
    BY <1>2 DEF Enqueue, writerVars, workerVars
  <2>4. TypeOK
    BY DEF TypeInv
  <2> HIDE DEF w, m
  <2> SUFFICES ASSUME NEW v \in Writers PROVE HandOff(v)'
    BY DEF HandOffInv
  <2>5. HandOff(v)
    BY DEF HandOffInv
  <2>6. CASE v = w
    <3>1. /\ queue'[v] = Append(queue[v], m)
          /\ accepted'[v] = Append(accepted[v], m)
      BY <2>3, <2>4, <2>6 DEF TypeOK
    <3>2. /\ queue[v] \in Seq(Msgs \cup {EmptyMsg})
          /\ written[v] \in Seq(Msgs \cup {EmptyMsg})
          /\ inflight[v] \in Seq(Msgs \cup {EmptyMsg})
      BY <2>4, SeqMonotonic DEF TypeOK
    <3>4. written[v] \o inflight[v] \o Append(queue[v], m)
            = Append(written[v] \o inflight[v] \o queue[v], m)
      <4> DEFINE M == Msgs \cup {EmptyMsg}
      <4>1. /\ queue[v] \in Seq(M) /\ written[v] \in Seq(M) /\ inflight[v] \in Seq(M)
            /\ m \in M
        BY <2>2, <3>2
      <4> HIDE DEF M
      <4>2. \A a, i, q \in Seq(M) : \A x \in M : a \o i \o Append(q, x) = Append(a \o i \o q, x)
        BY PipelineAppend
      <4>3. \A x \in M : written[v] \o inflight[v] \o Append(queue[v], x)
                          = Append(written[v] \o inflight[v] \o queue[v], x)
        BY <4>1, <4>2
      <4> QED
        BY <4>1, <4>3
    <3>8. accepted'[v] = written'[v] \o inflight'[v] \o queue'[v]
      BY <2>3, <2>5, <3>1, <3>4 DEF HandOff
    <3>9. queue'[v] # <<>>
      <4>1. queue[v] \in Seq(Msgs)
        BY <2>4 DEF TypeOK
      <4> QED
        BY <3>1, <4>1, <2>2, AppendProperties
    <3> QED
      BY <2>3, <2>5, <3>8, <3>9 DEF HandOff
  <2>7. CASE v # w
    BY <2>3, <2>4, <2>5, <2>7 DEF HandOff, TypeOK
  <2> QED
    BY <2>6, <2>7
<1> QED
  BY <1>1, <1>2

LEMMA HandOffWorker ==
  ASSUME TypeInv, HandOffInv, NEW w \in Writers, WorkerStep(w)
  PROVE  HandOffInv'
<1> DEFINE M == Msgs \cup {EmptyMsg}
<1>0. /\ queue[w] \in Seq(Msgs) /\ inflight[w] \in Seq(Msgs)
      /\ queue[w] \in Seq(M) /\ inflight[w] \in Seq(M) /\ written[w] \in Seq(M)
  BY SeqMonotonic DEF TypeInv, TypeOK, HandOffInv, HandOff
<1>t. TypeOK
  BY DEF TypeInv
<1>h. HandOff(w)
  BY DEF HandOffInv
<1>o. ASSUME UNCHANGED <<joinable, accepted>>,
             \A v \in Writers \ {w} : /\ wpc'[v] = wpc[v] /\ inflight'[v] = inflight[v]
                                      /\ queue'[v] = queue[v] /\ written'[v] = written[v],
             HandOff(w)'
      PROVE  HandOffInv'
  BY <1>o DEF HandOffInv, HandOff
<1>1. CASE WorkerLoop(w)
  <2>1. HandOff(w)'
    BY <1>1, <1>h, <1>t DEF WorkerLoop, Working, WorkerRest, HandOff, TypeOK, writerVars
  <2> QED
    BY <1>1, <1>o, <2>1, <1>t DEF WorkerLoop, WorkerRest, TypeOK, writerVars
<1>2. CASE WorkerTest(w)
  <2>1. HandOff(w)'
    BY <1>2, <1>h, <1>t DEF WorkerTest, Working, WorkerRest, HandOff, TypeOK, writerVars
  <2> QED
    BY <1>2, <1>o, <2>1, <1>t DEF WorkerTest, WorkerRest, TypeOK, writerVars
<1>3. CASE WorkerTake(w)
  <2>1. /\ wpc[w] = "take" /\ queue[w] # <<>> /\ inflight[w] = <<>>
    BY <1>3, <1>h DEF WorkerTake, Working, HandOff
  <2>2. /\ inflight' = [inflight EXCEPT ![w] = <<Head(queue[w])>>]
        /\ queue' = [queue EXCEPT ![w] = Tail(queue[w])]
        /\ wpc' = [wpc EXCEPT ![w] = "load"]
        /\ UNCHANGED <<joinable, accepted, written>>
    BY <1>3, <2>1 DEF WorkerTake, Front, Rest, WorkerRest, writerVars
  <2>3. /\ inflight'[w] = <<Head(queue[w])>> /\ queue'[w] = Tail(queue[w])
        /\ wpc'[w] = "load"
    BY <2>2, <1>t DEF TypeOK
  <2>4. <<Head(queue[w])>> \in Seq(Msgs)
    <3>1. Head(queue[w]) \in Msgs
      BY <1>0, <2>1, HeadTailProperties
    <3>2. \A m \in Msgs : <<m>> \in Seq(Msgs)
      OBVIOUS
    <3> QED
      BY <3>1, <3>2
  <2>5. written[w] \o <<>> \o queue[w] = written[w] \o <<Head(queue[w])>> \o Tail(queue[w])
    BY <1>0, <2>1, PipelineTake
  <2>6. HandOff(w)'
    BY <1>h, <2>1, <2>2, <2>3, <2>4, <2>5 DEF HandOff
  <2> QED
    BY <1>o, <2>2, <2>6, <1>t DEF TypeOK
<1>4. CASE WorkerLoad(w)
  <2>1. HandOff(w)'
    BY <1>4, <1>h, <1>t DEF WorkerLoad, Working, WorkerRest, HandOff, TypeOK, writerVars
  <2> QED
    BY <1>4, <1>o, <2>1, <1>t DEF WorkerLoad, WorkerRest, TypeOK, writerVars
<1>5. CASE WorkerWrite(w)
  <2> DEFINE l == target[w]
  <2>1. CASE l # logger[w] \/ LoggerKind[l] = "Null"
    <3>1. Fail("dangling") \/ Fail("null")
      BY <1>5, <2>1 DEF WorkerWrite
    <3> QED
      BY <3>1, HandOffSame DEF Fail, workerVars, writerVars
  <2>2. CASE ~(l # logger[w] \/ LoggerKind[l] = "Null")
    <3>1. /\ written' = [written EXCEPT ![w] = written[w] \o inflight[w]]
          /\ inflight' = [inflight EXCEPT ![w] = <<>>]
          /\ wpc' = [wpc EXCEPT ![w] = "loop"]
          /\ UNCHANGED <<queue, joinable, accepted>>
      BY <1>5, <2>2 DEF WorkerWrite, WorkerRest, writerVars
    <3>2. /\ inflight'[w] = <<>> /\ written'[w] = written[w] \o inflight[w]
          /\ wpc'[w] = "loop"
      BY <3>1, <1>t DEF TypeOK
    <3>3. (written[w] \o inflight[w]) \o <<>> \o queue[w]
            = written[w] \o inflight[w] \o queue[w]
      BY <1>0, PipelineWrite
    <3>4. wpc[w] = "write" /\ <<>> \in Seq(Msgs)
      BY <1>5, EmptySeq DEF WorkerWrite, Working
    <3>5. HandOff(w)'
      BY <1>h, <3>1, <3>2, <3>3, <3>4 DEF HandOff
    <3> QED
      BY <1>o, <3>1, <3>5, <1>t DEF TypeOK
  <2> QED
    BY <2>1, <2>2
<1> QED
  BY <1>1, <1>2, <1>3, <1>4, <1>5 DEF WorkerStep

LEMMA HandOffSpawnJoin ==
  ASSUME TypeInv, HandOffInv, NEW c \in Clients, Spawn(c) \/ StopJoin(c)
  PROVE  HandOffInv'
<1>t. TypeOK
  BY DEF TypeInv
<1>1. CASE Spawn(c)
  <2>1. CASE life[tmp[c]] # "live" \/ joinable[tmp[c]]
    <3>1. Fail("dangling") \/ Fail("terminate")
      BY <1>1, <2>1 DEF Spawn
    <3> QED
      BY <3>1, HandOffSame DEF Fail, workerVars, writerVars
  <2>2. CASE ~(life[tmp[c]] # "live" \/ joinable[tmp[c]])
    <3>1. /\ ~joinable[tmp[c]]
          /\ joinable' = [joinable EXCEPT ![tmp[c]] = TRUE]
          /\ wpc' = [wpc EXCEPT ![tmp[c]] = "loop"]
          /\ UNCHANGED <<inflight, queue, accepted, written>>
      BY <1>1, <2>2 DEF Spawn
    <3> SUFFICES ASSUME NEW v \in Writers PROVE HandOff(v)'
      BY DEF HandOffInv
    <3>2. HandOff(v)
      BY DEF HandOffInv
    <3>3. CASE v = tmp[c]
      <4>1. wpc[v] \in {"none", "done"} /\ inflight[v] = <<>>
        BY <3>1, <3>2, <3>3 DEF HandOff
      <4>2. wpc'[v] = "loop" /\ joinable'[v]
        BY <3>1, <3>3, <1>t DEF TypeOK
      <4> QED
        BY <3>1, <3>2, <4>1, <4>2 DEF HandOff
    <3>4. CASE v # tmp[c]
      BY <3>1, <3>2, <3>4, <1>t DEF HandOff, TypeOK
    <3> QED
      BY <3>3, <3>4
  <2> QED
    BY <2>1, <2>2
<1>2. CASE StopJoin(c)
  <2> DEFINE w == Top(c).w
  <2>1. CASE ~joinable[w]
    <3>1. Fail("terminate")
      BY <1>2, <2>1 DEF StopJoin
    <3> QED
      BY <3>1, HandOffSame DEF Fail, workerVars, writerVars
  <2>2. CASE joinable[w]
    <3>1. /\ wpc[w] = "done"
          /\ joinable' = [joinable EXCEPT ![w] = FALSE]
          /\ UNCHANGED <<wpc, inflight, queue, accepted, written>>
      BY <1>2, <2>2 DEF StopJoin, workerVars
    <3> SUFFICES ASSUME NEW v \in Writers PROVE HandOff(v)'
      BY DEF HandOffInv
    <3>2. HandOff(v)
      BY DEF HandOffInv
    <3>3. CASE v = w
      BY <3>1, <3>2, <3>3, <1>t DEF HandOff, TypeOK
    <3>4. CASE v # w
      BY <3>1, <3>2, <3>4, <1>t DEF HandOff, TypeOK
    <3> QED
      BY <3>3, <3>4
  <2> QED
    BY <2>1, <2>2
<1> QED
  BY <1>1, <1>2

LEMMA HandOffOther ==
  ASSUME HandOffInv, NEW c \in Clients,
         \/ LockInstance(c) \/ CheckRunning(c) \/ LoadInstance(c)
         \/ AddReference(c) \/ SetLogger(c) \/ Log(c) \/ Flushed(c) \/ Close(c)
         \/ StopCheck(c) \/ StopDrained(c) \/ StopClear(c) \/ StopFlush(c)
         \/ StopReset(c) \/ StopReturn(c) \/ Destroy(c)
  PROVE  HandOffInv'
<1>1. UNCHANGED <<wpc, inflight, queue, joinable, accepted, written>>
  <2>1. CASE LockInstance(c) \/ CheckRunning(c) \/ LoadInstance(c)
    BY <2>1 DEF LockInstance, CheckRunning, LoadInstance, Fail, workerVars, writerVars
  <2>2. CASE AddReference(c) \/ SetLogger(c)
    BY <2>2 DEF AddReference, SetLogger, Fail, workerVars, writerVars
  <2>3. CASE Log(c) \/ Flushed(c) \/ Close(c)
    BY <2>3 DEF Log, Flushed, Close, workerVars, writerVars
  <2>4. CASE StopCheck(c) \/ StopDrained(c) \/ StopClear(c) \/ StopFlush(c)
    BY <2>4 DEF StopCheck, StopDrained, StopClear, StopFlush, Fail, workerVars, writerVars
  <2>5. CASE StopReset(c) \/ StopReturn(c) \/ Destroy(c)
    BY <2>5 DEF StopReset, StopReturn, Destroy, workerVars
  <2> QED
    BY <2>1, <2>2, <2>3, <2>4, <2>5
<1> QED
  BY <1>1, HandOffSame

LEMMA HandOffNext == TypeInv /\ HandOffInv /\ [Next]_vars => HandOffInv'
<1> SUFFICES ASSUME TypeInv, HandOffInv, [Next]_vars PROVE HandOffInv'
  OBVIOUS
<1>1. CASE UNCHANGED vars
  BY <1>1, HandOffSame DEF vars, workerVars, writerVars
<1>2. ASSUME NEW c \in Clients, ClientStep(c) PROVE HandOffInv'
  BY <1>2, HandOffEnqueue, HandOffSpawnJoin, HandOffOther DEF ClientStep
<1>3. ASSUME NEW w \in Writers, WorkerStep(w) PROVE HandOffInv'
  BY <1>3, HandOffWorker
<1> QED
  BY <1>1, <1>2, <1>3 DEF Next, Halted

LEMMA Inductive == Spec => [](TypeInv /\ HandOffInv)
<1>1. Init => TypeInv /\ HandOffInv
  BY TypeInit, HandOffInit
<1>2. TypeInv /\ HandOffInv /\ [Next]_vars => (TypeInv /\ HandOffInv)'
  BY TypeNext, HandOffNext
<1> QED
  BY <1>1, <1>2, PTL DEF Spec

\* No message that entered a queue is lost on the way, duplicated or overtaken
\* by another, whatever the threads do with the singleton meanwhile.
THEOREM FifoCorrect == Spec => []Fifo
<1>1. HandOffInv => Fifo
  BY DEF HandOffInv, HandOff, Fifo
<1> QED
  BY <1>1, Inductive, PTL

\* empty() and dequeue() are two critical sections of LockingQueue, yet the
\* placeholder of an empty dequeue never reaches the worker.
THEOREM PlaceholderNeverTaken == Spec => []NoPlaceholder
<1>1. HandOffInv => NoPlaceholder
  <2> SUFFICES ASSUME HandOffInv, NEW w \in Writers
               PROVE  /\ wpc[w] = "take" => queue[w] # <<>>
                      /\ EmptyMsg \notin {inflight[w][i] : i \in DOMAIN inflight[w]}
    BY DEF NoPlaceholder
  <2>1. inflight[w] \in Seq(Msgs) /\ (wpc[w] = "take" => queue[w] # <<>>)
    BY DEF HandOffInv, HandOff
  <2>2. \A i \in DOMAIN inflight[w] : inflight[w][i] \in Msgs
    BY <2>1, ElementOfSeq, LenProperties
  <2> QED
    BY <2>1, <2>2, ConstantsAssumption DEF ConstantsAssumption
<1> QED
  BY <1>1, Inductive, PTL
-----------------------------------------------------------------------------
(* stop() drains.  What a stop() saw accepted when its queue was empty is    *)
(* written or in the worker's hands, and in nobody's hands after the join.   *)

Drained(f, wr, inf) ==
  /\ f.at \in {"check", "wait"} => f.seen = 0
  /\ f.at \in {"clear", "flush", "join"} => f.seen <= Len(wr[f.w]) + Len(inf[f.w])
  /\ f.at \in {"reset", "ret"} => f.seen <= Len(wr[f.w])

DrainInv == \A c \in Clients : \A i \in DOMAIN stack[c] :
              Drained(stack[c][i], written, inflight)

\* The writers have come no closer to losing a message.
Progress == \A w \in Writers :
  /\ Len(written[w]) <= Len(written'[w])
  /\ Len(written[w]) + Len(inflight[w]) <= Len(written'[w]) + Len(inflight'[w])

LEMMA LenTypes ==
  ASSUME TypeOK, NEW w \in Writers
  PROVE  Len(written[w]) \in Nat /\ Len(inflight[w]) \in Nat /\ Len(accepted[w]) \in Nat
BY LenProperties DEF TypeOK

LEMMA DrainedKept ==
  ASSUME TypeOK, TypeOK', Progress, NEW f \in Frame, Drained(f, written, inflight)
  PROVE  Drained(f, written', inflight')
<1>1. f.w \in Writers /\ f.seen \in Nat
  BY DEF Frame
<1> DEFINE a == Len(written[f.w])
           b == Len(inflight[f.w])
           a1 == Len(written'[f.w])
           b1 == Len(inflight'[f.w])
<1>2. a \in Nat /\ b \in Nat /\ a1 \in Nat /\ b1 \in Nat
  BY <1>1, LenProperties DEF TypeOK
<1>3. a <= a1 /\ a + b <= a1 + b1
  BY <1>1 DEF Progress
<1>4. /\ f.at \in {"check", "wait"} => f.seen = 0
      /\ f.at \in {"clear", "flush", "join"} => f.seen <= a + b
      /\ f.at \in {"reset", "ret"} => f.seen <= a
  BY DEF Drained
<1> SUFFICES /\ f.at \in {"check", "wait"} => f.seen = 0
             /\ f.at \in {"clear", "flush", "join"} => f.seen <= a1 + b1
             /\ f.at \in {"reset", "ret"} => f.seen <= a1
  BY DEF Drained
<1> HIDE DEF a, b, a1, b1
<1>5. \A n, x, y, u, v \in Nat : x <= u /\ x + y <= u + v =>
        (n <= x => n <= u) /\ (n <= x + y => n <= u + v)
  OBVIOUS
<1> QED
  BY <1>1, <1>2, <1>3, <1>4, <1>5

\* A step that leaves the stacks alone.
LEMMA DrainSame ==
  ASSUME TypeOK, TypeOK', DrainInv, Progress, UNCHANGED stack
  PROVE  DrainInv'
<1> SUFFICES ASSUME NEW c \in Clients, NEW i \in DOMAIN stack[c]
             PROVE  Drained(stack[c][i], written', inflight')
  BY DEF DrainInv
<1>1. stack[c][i] \in Frame
  BY ElementOfSeq, LenProperties DEF TypeOK
<1>2. Drained(stack[c][i], written, inflight)
  BY DEF DrainInv
<1> QED
  BY <1>1, <1>2, DrainedKept

\* A step of client c that gives it frames that are drained themselves on top
\* of frames it had.
LEMMA DrainPush ==
  ASSUME TypeOK, TypeOK', DrainInv, NEW c \in Clients,
         UNCHANGED <<written, inflight>>,
         NEW fs \in Seq(Frame), stack' = [stack EXCEPT ![c] = fs],
         \A i \in DOMAIN fs : \/ Drained(fs[i], written, inflight)
                             \/ \E j \in DOMAIN stack[c] : fs[i] = stack[c][j]
  PROVE  DrainInv'
<1> SUFFICES ASSUME NEW d \in Clients, NEW i \in DOMAIN stack'[d]
             PROVE  Drained(stack'[d][i], written, inflight)
  BY DEF DrainInv
<1>1. CASE d = c
  <2>1. stack'[d] = fs
    BY <1>1 DEF TypeOK
  <2> QED
    BY <1>1, <2>1 DEF DrainInv
<1>2. CASE d # c
  <2>1. stack'[d] = stack[d]
    BY <1>2 DEF TypeOK
  <2> QED
    BY <2>1 DEF DrainInv
<1> QED
  BY <1>1, <1>2

LEMMA DrainReplace ==
  ASSUME TypeOK, TypeOK', DrainInv, NEW c \in Clients, stack[c] # <<>>,
         UNCHANGED <<written, inflight>>,
         NEW f \in Frame, Drained(f, written, inflight), Replace(c, <<f>>)
  PROVE  DrainInv'
<1> DEFINE fs == <<f>> \o Tail(stack[c])
<1>1. stack[c] \in Seq(Frame) /\ Tail(stack[c]) \in Seq(Frame)
  BY HeadTailProperties DEF TypeOK
<1>2. \A g \in Frame : <<g>> \in Seq(Frame)
  OBVIOUS
<1>3. <<f>> \in Seq(Frame) /\ fs \in Seq(Frame)
  BY <1>1, <1>2, ConcatProperties
<1>4. stack' = [stack EXCEPT ![c] = fs]
  BY DEF Replace
<1>5. ASSUME NEW i \in DOMAIN fs
      PROVE  \/ Drained(fs[i], written, inflight)
             \/ \E j \in DOMAIN stack[c] : fs[i] = stack[c][j]
  <2>1. fs[1] = f /\ (i # 1 => i \in DOMAIN stack[c] /\ fs[i] = stack[c][i])
    BY <1>1, <1>3, <1>5, ConcatProperties, HeadTailProperties, LenProperties
  <2> QED
    BY <2>1
<1> HIDE DEF fs
<1> QED
  BY <1>3, <1>4, <1>5, DrainPush

LEMMA DrainDrop ==
  ASSUME TypeOK, TypeOK', DrainInv, NEW c \in Clients,
         UNCHANGED <<written, inflight>>, NEW w \in Writers \cup {NoWriter}, NEW o,
         NEW fs \in Seq(Frame), Drop(c, w, o, fs),
         \A i \in DOMAIN fs : \/ Drained(fs[i], written, inflight)
                             \/ \E j \in DOMAIN stack[c] : fs[i] = stack[c][j]
  PROVE  DrainInv'
<1>1. CASE LastOwner(w, o)
  <2> DEFINE f == Activation(w, TRUE)
             gs == <<f>> \o fs
  <2>1. w \in Writers
    BY <1>1 DEF LastOwner
  <2>2. <<f>> \in Seq(Frame) /\ gs \in Seq(Frame)
    BY <2>1, ActivationType, ConcatProperties
  <2>3. stack' = [stack EXCEPT ![c] = gs]
    BY <1>1 DEF Drop
  <2>4. Drained(f, written, inflight)
    BY DEF Drained, Activation
  <2>5. ASSUME NEW i \in DOMAIN gs
        PROVE  \/ Drained(gs[i], written, inflight)
               \/ \E j \in DOMAIN stack[c] : gs[i] = stack[c][j]
    <3> HIDE DEF f
    <3>1. gs[1] = f /\ (i # 1 => i - 1 \in DOMAIN fs /\ gs[i] = fs[i - 1])
      BY <2>2, <2>5, ConcatProperties, LenProperties
    <3> QED
      BY <2>4, <3>1
  <2> HIDE DEF gs
  <2> QED
    BY <2>2, <2>3, <2>5, DrainPush
<1>2. CASE ~LastOwner(w, o)
  <2>1. stack' = [stack EXCEPT ![c] = fs]
    BY <1>2 DEF Drop
  <2> QED
    BY <2>1, DrainPush
<1> QED
  BY <1>1, <1>2

LEMMA DrainStop ==
  ASSUME TypeInv, TypeInv', HandOffInv, DrainInv, NEW c \in Clients,
         \/ StopCheck(c) \/ StopDrained(c) \/ StopClear(c) \/ StopFlush(c)
         \/ StopJoin(c) \/ StopReset(c) \/ StopReturn(c) \/ Destroy(c)
  PROVE  DrainInv'
<1>t. TypeOK /\ TypeOK'
  BY DEF TypeInv
<1>u. UNCHANGED <<written, inflight>>
  <2>1. CASE StopCheck(c) \/ StopDrained(c) \/ StopClear(c) \/ StopFlush(c)
    BY <2>1 DEF StopCheck, StopDrained, StopClear, StopFlush, Fail, workerVars
  <2>2. CASE StopJoin(c) \/ StopReset(c) \/ StopReturn(c) \/ Destroy(c)
    BY <2>2 DEF StopJoin, StopReset, StopReturn, Destroy, Fail, workerVars
  <2> QED
    BY <2>1, <2>2
<1>0. /\ stack[c] # <<>> /\ stack[c] \in Seq(Frame) /\ Top(c) \in Frame
      /\ Tail(stack[c]) \in Seq(Frame)
  <2>1. stack[c] # <<>>
    BY DEF StopCheck, StopDrained, StopClear, StopFlush, StopJoin, StopReset,
           StopReturn, Destroy, At
  <2>2. stack[c] \in Seq(Frame)
    BY <1>t DEF TypeOK
  <2> QED
    BY <2>1, <2>2, HeadTailProperties DEF Top
<1>w. Top(c).w \in Writers /\ Top(c).seen \in Nat
  BY <1>0 DEF Frame
<1>d. Drained(Top(c), written, inflight)
  <2>1. Top(c) = stack[c][1] /\ 1 \in DOMAIN stack[c]
    BY <1>0, EmptySeq, LenProperties DEF Top
  <2> QED
    BY <2>1 DEF DrainInv
<1>l. /\ Len(written[Top(c).w]) \in Nat /\ Len(inflight[Top(c).w]) \in Nat
  BY <1>t, <1>w, LenTypes
<1>k. \A i \in DOMAIN Tail(stack[c]) :
        \E j \in DOMAIN stack[c] : Tail(stack[c])[i] = stack[c][j]
  BY <1>0, HeadTailProperties, LenProperties
<1>m. ASSUME NEW place \in {"check", "wait", "clear", "flush", "join", "reset", "ret"},
             Drained([Top(c) EXCEPT !.at = place], written, inflight), Move(c, place)
      PROVE  DrainInv'
  <2> DEFINE f == [Top(c) EXCEPT !.at = place]
  <2>1. f \in Frame
    BY <1>0 DEF Frame
  <2>2. Replace(c, <<f>>)
    BY <1>m DEF Move
  <2>3. Drained(f, written, inflight)
    BY <1>m
  <2> HIDE DEF f
  <2> QED
    BY <1>t, <1>u, <1>0, <2>1, <2>2, <2>3, DrainReplace
<1>f. ASSUME NEW place \in {"check", "wait", "clear", "flush", "join", "reset", "ret"}
      PROVE  /\ [Top(c) EXCEPT !.at = place].at = place
             /\ [Top(c) EXCEPT !.at = place].w = Top(c).w
             /\ [Top(c) EXCEPT !.at = place].seen = Top(c).seen
             /\ [Top(c) EXCEPT !.at = place] \in Frame
  BY <1>0 DEF Frame
<1>1. CASE StopCheck(c)
  <2>1. Top(c).seen = 0 /\ (Move(c, "wait") \/ Move(c, "ret"))
    BY <1>1, <1>d DEF StopCheck, At, Drained
  <2>2. /\ Drained([Top(c) EXCEPT !.at = "wait"], written, inflight)
        /\ Drained([Top(c) EXCEPT !.at = "ret"], written, inflight)
    BY <2>1, <1>f, <1>l DEF Drained
  <2> QED
    BY <2>1, <2>2, <1>m
<1>2. CASE StopDrained(c)
  <2> DEFINE w == Top(c).w
             f == [Top(c) EXCEPT !.at = "clear", !.seen = Len(accepted[w])]
  <2>1. queue[w] = <<>> /\ Replace(c, <<f>>)
    BY <1>2 DEF StopDrained
  <2>2. Len(accepted[w]) \in Nat
    BY <1>t, <1>w, LenTypes
  <2>3. f \in Frame /\ f.at = "clear" /\ f.w = w /\ f.seen = Len(accepted[w])
    BY <1>0, <2>2 DEF Frame
  <2>4. Len(accepted[w]) = Len(written[w]) + Len(inflight[w])
    <3> DEFINE M == Msgs \cup {EmptyMsg}
    <3>1. written[w] \in Seq(M) /\ inflight[w] \in Seq(M)
      BY <1>t, <1>w DEF TypeOK
    <3>2. accepted[w] = written[w] \o inflight[w] \o <<>>
      BY <1>w, <2>1 DEF HandOffInv, HandOff
    <3> HIDE DEF M
    <3>3. written[w] \o inflight[w] \o <<>> = written[w] \o inflight[w]
      BY <3>1, ConcatProperties, ConcatEmptySeq
    <3> QED
      BY <3>1, <3>2, <3>3, ConcatProperties
  <2>5. Drained(f, written, inflight)
    <3>1. Len(accepted[w]) <= Len(written[w]) + Len(inflight[w])
      BY <2>2, <2>4
    <3> HIDE DEF f
    <3> QED
      BY <2>3, <3>1 DEF Drained
  <2> HIDE DEF f
  <2> QED
    BY <1>t, <1>u, <1>0, <2>1, <2>3, <2>5, DrainReplace
<1>3. CASE StopClear(c)
  <2>1. Top(c).at = "clear" /\ Move(c, "flush")
    BY <1>3 DEF StopClear, At
  <2>2. Drained([Top(c) EXCEPT !.at = "flush"], written, inflight)
    BY <2>1, <1>d, <1>f DEF Drained
  <2> QED
    BY <2>1, <2>2, <1>m
<1>4. CASE StopFlush(c)
  <2>1. Top(c).at = "flush"
    BY <1>4 DEF StopFlush, At
  <2>2. Drained([Top(c) EXCEPT !.at = "join"], written, inflight)
    BY <2>1, <1>d, <1>f DEF Drained
  <2>3. UNCHANGED stack \/ Move(c, "join")
    BY <1>4 DEF StopFlush, Fail, clientVars
  <2>4. Progress
    BY <1>t, <1>u, LenTypes DEF Progress
  <2> QED
    BY <1>t, <2>2, <2>3, <2>4, <1>m, DrainSame
<1>5. CASE StopJoin(c)
  <2>1. Top(c).at = "join"
    BY <1>5 DEF StopJoin, At
  <2>2. CASE UNCHANGED stack
    <3>1. Progress
      BY <1>t, <1>u, LenTypes DEF Progress
    <3> QED
      BY <1>t, <2>2, <3>1, DrainSame
  <2>3. CASE stack' # stack
    <3>1. wpc[Top(c).w] = "done" /\ Move(c, "reset")
      BY <1>5, <2>3 DEF StopJoin, Fail, clientVars
    <3>2. inflight[Top(c).w] = <<>>
      BY <3>1, <1>w DEF HandOffInv, HandOff
    <3>3. Top(c).seen <= Len(written[Top(c).w]) + 0
      BY <3>2, <2>1, <1>d, EmptySeq DEF Drained
    <3>4. Top(c).seen <= Len(written[Top(c).w])
      BY <3>3, <1>l
    <3>5. Drained([Top(c) EXCEPT !.at = "reset"], written, inflight)
      BY <3>4, <1>f DEF Drained
    <3> QED
      BY <3>1, <3>5, <1>m
  <2> QED
    BY <2>2, <2>3
<1>6. CASE StopReset(c)
  <2> DEFINE f == [Top(c) EXCEPT !.at = "ret"]
             fs == <<f>> \o Tail(stack[c])
  <2>1. Top(c).at = "reset" /\ Drop(c, instance, "instance", fs)
    BY <1>6 DEF StopReset, At
  <2>2. f \in Frame /\ Drained(f, written, inflight)
    BY <2>1, <1>d, <1>f DEF Drained
  <2>3. \A g \in Frame : <<g>> \in Seq(Frame)
    OBVIOUS
  <2> HIDE DEF f
  <2>4. <<f>> \in Seq(Frame) /\ fs \in Seq(Frame)
    BY <1>0, <2>2, <2>3, ConcatProperties
  <2>5. ASSUME NEW i \in DOMAIN fs
        PROVE  \/ Drained(fs[i], written, inflight)
               \/ \E j \in DOMAIN stack[c] : fs[i] = stack[c][j]
    <3>1. fs[1] = f /\ (i # 1 => i \in DOMAIN stack[c] /\ fs[i] = stack[c][i])
      BY <1>0, <2>4, <2>5, ConcatProperties, HeadTailProperties, LenProperties
    <3> QED
      BY <2>2, <3>1
  <2>6. instance \in Writers \cup {NoWriter}
    BY <1>t DEF TypeOK
  <2> HIDE DEF fs
  <2> QED
    BY <1>t, <1>u, <2>1, <2>4, <2>5, <2>6, DrainDrop
<1>7. CASE StopReturn(c)
  <2>1. Drop(c, Top(c).w, c, Tail(stack[c]))
    BY <1>7 DEF StopReturn
  <2> QED
    BY <1>t, <1>u, <1>0, <1>w, <1>k, <2>1, DrainDrop
<1>8. CASE Destroy(c)
  <2>1. Replace(c, <<>>)
    BY <1>8 DEF Destroy
  <2>2. stack' = [stack EXCEPT ![c] = Tail(stack[c])]
    BY <2>1, <1>0, ConcatEmptySeq DEF Replace
  <2> QED
    BY <1>t, <1>u, <1>0, <1>k, <2>2, DrainPush
<1> QED
  BY <1>1, <1>2, <1>3, <1>4, <1>5, <1>6, <1>7, <1>8

LEMMA DrainCall ==
  ASSUME TypeInv, TypeInv', DrainInv, NEW c \in Clients,
         \/ LockInstance(c) \/ CheckRunning(c) \/ Spawn(c) \/ LoadInstance(c)
         \/ AddReference(c) \/ SetLogger(c)
         \/ Log(c) \/ Enqueue(c) \/ Flushed(c) \/ Close(c)
  PROVE  DrainInv'
<1>t. TypeOK /\ TypeOK'
  BY DEF TypeInv
<1>u. UNCHANGED <<written, inflight>>
  <2>1. CASE LockInstance(c) \/ CheckRunning(c) \/ Spawn(c) \/ LoadInstance(c)
    BY <2>1 DEF LockInstance, CheckRunning, Spawn, LoadInstance, Fail, workerVars
  <2>2. CASE AddReference(c) \/ SetLogger(c) \/ Log(c)
    BY <2>2 DEF AddReference, SetLogger, Log, Fail, workerVars
  <2>3. CASE Enqueue(c) \/ Flushed(c) \/ Close(c)
    BY <2>3 DEF Enqueue, Flushed, Close, Fail, workerVars
  <2> QED
    BY <2>1, <2>2, <2>3
<1>p. Progress
  BY <1>t, <1>u, LenTypes DEF Progress
<1>s. UNCHANGED stack => DrainInv'
  BY <1>t, <1>p, DrainSame
<1>1. CASE LockInstance(c) \/ CheckRunning(c) \/ Spawn(c) \/ LoadInstance(c)
  BY <1>1, <1>s DEF LockInstance, CheckRunning, Spawn, LoadInstance, Fail, clientVars
<1>2. CASE SetLogger(c) \/ Log(c) \/ Enqueue(c) \/ Flushed(c)
  BY <1>2, <1>s DEF SetLogger, Log, Enqueue, Flushed, Fail, clientVars
<1>3. CASE AddReference(c)
  <2>1. CASE stack' # stack
    <3> DEFINE f == Activation(tmp[c], FALSE)
               fs == <<f>>
    <3>1. tmp[c] \in Writers /\ stack' = [stack EXCEPT ![c] = fs]
      BY <1>3, <2>1, <1>t DEF AddReference, Fail, clientVars, TypeOK
    <3>2. fs \in Seq(Frame)
      BY <3>1, ActivationType
    <3>3. Drained(f, written, inflight)
      BY DEF Drained, Activation
    <3> HIDE DEF f
    <3>4. \A i \in DOMAIN fs : fs[i] = f
      OBVIOUS
    <3> HIDE DEF fs
    <3> QED
      BY <1>t, <1>u, <3>1, <3>2, <3>3, <3>4, DrainPush
  <2> QED
    BY <2>1, <1>s
<1>4. CASE Close(c)
  <2>1. prog[c] # <<>> /\ Call(c).op = "close"
    BY <1>4 DEF Close, Calling
  <2>2. mgr[Call(c).h] \in Writers \cup {NoWriter}
    BY <2>1, <1>t, CallTypes DEF TypeOK
  <2>3. Drop(c, mgr[Call(c).h], Call(c).h, <<>>)
    BY <1>4 DEF Close
  <2>4. <<>> \in Seq(Frame) /\ DOMAIN <<>> = {}
    BY EmptySeq
  <2> QED
    BY <1>t, <1>u, <2>2, <2>3, <2>4, DrainDrop
<1> QED
  BY <1>1, <1>2, <1>3, <1>4

LEMMA DrainWorker ==
  ASSUME TypeInv, TypeInv', HandOffInv, DrainInv, NEW w \in Writers, WorkerStep(w)
  PROVE  DrainInv'
<1>t. TypeOK /\ TypeOK'
  BY DEF TypeInv
<1>s. UNCHANGED stack
  BY DEF WorkerStep, WorkerLoop, WorkerTest, WorkerTake, WorkerLoad, WorkerWrite,
         WorkerRest, Fail, clientVars
<1>l. \A v \in Writers : Len(written[v]) \in Nat /\ Len(inflight[v]) \in Nat
  BY <1>t, LenTypes
<1>same. UNCHANGED <<written, inflight>> => Progress
  BY <1>l DEF Progress
<1>1. CASE WorkerLoop(w) \/ WorkerTest(w) \/ WorkerLoad(w)
  <2>1. Progress
    BY <1>1, <1>same DEF WorkerLoop, WorkerTest, WorkerLoad
  <2> QED
    BY <1>t, <1>s, <2>1, DrainSame
<1>2. CASE WorkerTake(w)
  <2>1. inflight[w] = <<>> /\ Len(inflight[w]) = 0
    BY <1>2, EmptySeq DEF WorkerTake, Working, HandOffInv, HandOff
  <2>2. /\ written' = written
        /\ \A v \in Writers \ {w} : inflight'[v] = inflight[v]
    BY <1>2, <1>t DEF WorkerTake, TypeOK
  <2>3. Len(inflight'[w]) \in Nat
    BY <1>t, LenProperties DEF TypeOK
  <2>4. Progress
    BY <1>l, <2>1, <2>2, <2>3 DEF Progress
  <2> QED
    BY <1>t, <1>s, <2>4, DrainSame
<1>3. CASE WorkerWrite(w)
  <2>1. CASE UNCHANGED <<written, inflight>>
    BY <1>t, <1>s, <1>same, <2>1, DrainSame
  <2>2. CASE ~UNCHANGED <<written, inflight>>
    <3>1. /\ written' = [written EXCEPT ![w] = written[w] \o inflight[w]]
          /\ inflight' = [inflight EXCEPT ![w] = <<>>]
      BY <1>3, <2>2 DEF WorkerWrite, Fail, workerVars
    <3>2. /\ written'[w] = written[w] \o inflight[w] /\ inflight'[w] = <<>>
          /\ \A v \in Writers \ {w} :
               written'[v] = written[v] /\ inflight'[v] = inflight[v]
      BY <3>1, <1>t DEF TypeOK
    <3>3. Len(written'[w]) = Len(written[w]) + Len(inflight[w])
      <4> DEFINE M == Msgs \cup {EmptyMsg}
      <4>1. written[w] \in Seq(M) /\ inflight[w] \in Seq(M)
        BY <1>t DEF TypeOK
      <4> HIDE DEF M
      <4>2. Len(written[w] \o inflight[w]) = Len(written[w]) + Len(inflight[w])
        BY <4>1, ConcatProperties
      <4> QED
        BY <3>2, <4>2
    <3>4. Len(inflight'[w]) = 0
      BY <3>2, EmptySeq
    <3>5. ASSUME NEW v \in Writers
          PROVE  /\ Len(written[v]) <= Len(written'[v])
                 /\ Len(written[v]) + Len(inflight[v])
                      <= Len(written'[v]) + Len(inflight'[v])
      <4>2. CASE v = w
        <5> DEFINE a == Len(written[w])
                   b == Len(inflight[w])
                   a1 == Len(written'[w])
                   b1 == Len(inflight'[w])
        <5>1. a \in Nat /\ b \in Nat /\ a1 = a + b /\ b1 = 0
          BY <1>l, <3>3, <3>4
        <5> SUFFICES a <= a1 /\ a + b <= a1 + b1
          BY <4>2
        <5> HIDE DEF a, b, a1, b1
        <5> QED
          BY <5>1
      <4>3. CASE v # w
        <5> DEFINE a == Len(written[v])
                   b == Len(inflight[v])
        <5>1. a \in Nat /\ b \in Nat
          BY <1>l
        <5> SUFFICES a <= a /\ a + b <= a + b
          BY <3>2, <4>3
        <5> HIDE DEF a, b
        <5> QED
          BY <5>1
      <4> QED
        BY <4>2, <4>3
    <3>6. Progress
      BY <3>5 DEF Progress
    <3> QED
      BY <1>t, <1>s, <3>6, DrainSame
  <2> QED
    BY <2>1, <2>2
<1> QED
  BY <1>1, <1>2, <1>3 DEF WorkerStep

LEMMA DrainInit == Init => DrainInv
<1> SUFFICES ASSUME Init PROVE DrainInv
  OBVIOUS
<1>1. \A c \in Clients : stack[c] = <<>>
  BY DEF Init
<1>2. DOMAIN <<>> = {}
  BY EmptySeq
<1> QED
  BY <1>1, <1>2 DEF DrainInv

LEMMA DrainNext == TypeInv /\ HandOffInv /\ DrainInv /\ [Next]_vars => DrainInv'
<1> SUFFICES ASSUME TypeInv, HandOffInv, DrainInv, [Next]_vars PROVE DrainInv'
  OBVIOUS
<1>t. TypeInv'
  BY TypeNext
<1>1. CASE UNCHANGED vars
  BY <1>1 DEF vars, clientVars, workerVars, DrainInv, Drained
<1>2. ASSUME NEW c \in Clients, ClientStep(c) PROVE DrainInv'
  BY <1>2, <1>t, DrainCall, DrainStop DEF ClientStep
<1>3. ASSUME NEW w \in Writers, WorkerStep(w) PROVE DrainInv'
  BY <1>3, <1>t, DrainWorker
<1> QED
  BY <1>1, <1>2, <1>3 DEF Next, Halted

\* When the join in stop() is over, all the messages accepted before it saw the
\* queue empty are written: the flag is cleared before the join and the worker
\* writes what it holds before it looks at the flag again.
THEOREM StopDrainsCorrect == Spec => []StopDrains
<1>1. Init => DrainInv
  BY DrainInit
<1>2. TypeInv /\ HandOffInv /\ DrainInv /\ [Next]_vars => DrainInv'
  BY DrainNext
<1>3. TypeInv /\ DrainInv => StopDrains
  <2> SUFFICES ASSUME TypeInv, DrainInv, NEW c \in Clients, NEW i \in DOMAIN stack[c],
                      stack[c][i].at \in {"reset", "ret"}
               PROVE  Len(written[stack[c][i].w]) >= stack[c][i].seen
    BY DEF StopDrains
  <2>1. stack[c][i] \in Frame
    BY ElementOfSeq, LenProperties DEF TypeInv, TypeOK
  <2>2. stack[c][i].w \in Writers /\ stack[c][i].seen \in Nat
    BY <2>1 DEF Frame
  <2>3. Len(written[stack[c][i].w]) \in Nat
    BY <2>2, LenTypes DEF TypeInv
  <2>4. stack[c][i].seen <= Len(written[stack[c][i].w])
    BY DEF DrainInv, Drained
  <2> QED
    BY <2>2, <2>3, <2>4
<1> QED
  BY <1>1, <1>2, <1>3, Inductive, PTL DEF Spec
-----------------------------------------------------------------------------
(* The life of the objects.                                                *)

Gone(w) == life[w] \in {"dying", "dead"}

\* OwnedIsLive, owner by owner.
LiveOwned ==
  /\ instance # NoWriter => life[instance] = "live"
  /\ \A h \in Handles : mgr[h] # NoWriter => life[mgr[h]] = "live"
  /\ \A c \in Clients : pc[c] = "stop" /\ tmp[c] # NoWriter => life[tmp[c]] = "live"

\* A client has a temporary pointer only in getLogWriter() and until the stop() that it
\* called has returned.
TempInv == \A c \in Clients :
  /\ pc[c] \in {"idle", "check", "set", "load"} => tmp[c] = NoWriter
  /\ pc[c] = "spawn" => tmp[c] \in Writers
  /\ pc[c] = "stop" /\ tmp[c] # NoWriter => \E i \in DOMAIN stack[c] : ~stack[c][i].dtor

\* Below the top are activations that only have to return; a called stop() is the lowest
\* and its client holds the writer; the writers of the others are under destruction.
FrameOK(f, i, n, p, t, lf) ==
  /\ i # 1 => f.at = "ret"
  /\ IF f.dtor THEN lf[f.w] \in {"dying", "dead"} ELSE i = n /\ p = "stop" /\ t = f.w
FramesOK(fs, p, t, lf) == \A i \in DOMAIN fs : FrameOK(fs[i], i, Len(fs), p, t, lf)
FramesInv == \A c \in Clients : FramesOK(stack[c], pc[c], tmp[c], life)

OwnerInv == LiveOwned /\ TempInv /\ FramesInv

------------------------------------------------------------------------------
(* Owners and stacks *)

LEMMA LiveOwnedIs == TypeOK => (LiveOwned <=> OwnedIsLive)
<1> SUFFICES ASSUME TypeOK PROVE LiveOwned <=> OwnedIsLive
  OBVIOUS
<1>1. ASSUME LiveOwned, NEW w \in Writers, Owners(w) # {} PROVE life[w] = "live"
  <2>1. PICK o : o \in Owners(w)
    BY <1>1
  <2> QED BY <1>1, <2>1, ConstantsAssumption DEF Owners, Holds, LiveOwned, ConstantsAssumption
<1>2. ASSUME OwnedIsLive PROVE LiveOwned
  <2>1. ASSUME instance # NoWriter PROVE life[instance] = "live"
    <3>1. instance \in Writers /\ "instance" \in Owners(instance)
      BY <2>1 DEF TypeOK, Owners
    <3> QED BY <1>2, <3>1 DEF OwnedIsLive
  <2>2. ASSUME NEW h \in Handles, mgr[h] # NoWriter PROVE life[mgr[h]] = "live"
    <3>1. mgr[h] \in Writers /\ h \in Owners(mgr[h])
      BY <2>2 DEF TypeOK, Owners
    <3> QED BY <1>2, <3>1 DEF OwnedIsLive
  <2>3. ASSUME NEW c \in Clients, pc[c] = "stop", tmp[c] # NoWriter PROVE life[tmp[c]] = "live"
    <3>1. tmp[c] \in Writers /\ c \in Owners(tmp[c])
      BY <2>3 DEF TypeOK, Owners, Holds
    <3> QED BY <1>2, <3>1 DEF OwnedIsLive
  <2> QED BY <2>1, <2>2, <2>3 DEF LiveOwned
<1> QED BY <1>1, <1>2 DEF OwnedIsLive

\* Nobody else has a reference when the last one is dropped.
LEMMA LastOwnerAlone ==
  ASSUME NEW w, NEW o, LastOwner(w, o)
  PROVE  /\ w # NoWriter
         /\ instance = w => o = "instance"
         /\ \A h \in Handles : mgr[h] = w => o = h
         /\ \A d \in Clients : pc[d] = "stop" /\ tmp[d] = w => o = d
<1>1. w # NoWriter /\ Owners(w) = {o}
  BY DEF LastOwner
<1>2. instance = w => "instance" \in Owners(w)
  BY DEF Owners
<1>3. \A h \in Handles : mgr[h] = w => h \in Owners(w)
  BY DEF Owners
<1>4. \A d \in Clients : pc[d] = "stop" /\ tmp[d] = w => d \in Owners(w)
  BY DEF Owners, Holds
<1> QED BY <1>1, <1>2, <1>3, <1>4

LEMMA StackType ==
  ASSUME TypeOK, NEW c \in Clients
  PROVE  /\ stack[c] \in Seq(Frame) /\ Len(stack[c]) \in Nat
         /\ DOMAIN stack[c] = 1 .. Len(stack[c])
         /\ \A i \in DOMAIN stack[c] : stack[c][i] \in Frame /\ stack[c][i].w \in Writers
<1>1. stack[c] \in Seq(Frame)
  BY DEF TypeOK
<1>2. \A f \in Frame : f.w \in Writers
  BY DEF Frame
<1> QED BY <1>1, <1>2, LenProperties, ElementOfSeq

LEMMA TopOfStack ==
  ASSUME TypeOK, NEW c \in Clients, stack[c] # <<>>
  PROVE  /\ Top(c) \in Frame /\ Top(c).w \in Writers
         /\ 1 \in DOMAIN stack[c] /\ Top(c) = stack[c][1]
         /\ Tail(stack[c]) \in Seq(Frame)
         /\ Len(Tail(stack[c])) = Len(stack[c]) - 1
         /\ DOMAIN Tail(stack[c]) = 1 .. Len(stack[c]) - 1
         /\ \A i \in 1 .. Len(stack[c]) - 1 : Tail(stack[c])[i] = stack[c][i + 1]
<1>1. stack[c] \in Seq(Frame) /\ Len(stack[c]) \in Nat /\ Len(stack[c]) # 0
  BY StackType, EmptySeq
<1>2. /\ Top(c) = stack[c][1] /\ 1 \in DOMAIN stack[c]
      /\ Tail(stack[c]) \in Seq(Frame)
      /\ Len(Tail(stack[c])) = Len(stack[c]) - 1
      /\ DOMAIN Tail(stack[c]) = 1 .. Len(stack[c]) - 1
      /\ \A i \in 1 .. Len(stack[c]) - 1 : Tail(stack[c])[i] = stack[c][i + 1]
  BY <1>1, StackType DEF Top
<1> QED BY <1>2, StackType

\* A frame on top of others.
LEMMA OnTop ==
  ASSUME NEW f \in Frame, NEW fs \in Seq(Frame)
  PROVE  /\ <<f>> \o fs \in Seq(Frame)
         /\ Len(<<f>> \o fs) = Len(fs) + 1 /\ Len(fs) \in Nat
         /\ DOMAIN (<<f>> \o fs) = 1 .. Len(fs) + 1
         /\ (<<f>> \o fs)[1] = f
         /\ \A i \in 1 .. Len(fs) : (<<f>> \o fs)[i + 1] = fs[i]
         /\ \A i \in 2 .. Len(fs) + 1 : i - 1 \in 1 .. Len(fs) /\ (<<f>> \o fs)[i] = fs[i - 1]
<1>1. \A g \in Frame : <<g>> \in Seq(Frame)
  OBVIOUS
<1>2. <<f>> \in Seq(Frame) /\ Len(fs) \in Nat
  BY <1>1
<1> QED BY <1>2

\* The top frame is replaced.
LEMMA TopReplaced ==
  ASSUME TypeOK, NEW c \in Clients, stack[c] # <<>>, NEW f \in Frame
  PROVE  LET fs == <<f>> \o Tail(stack[c])
         IN  /\ fs \in Seq(Frame) /\ fs # <<>>
             /\ Len(fs) = Len(stack[c]) /\ DOMAIN fs = DOMAIN stack[c]
             /\ fs[1] = f
             /\ \A i \in DOMAIN stack[c] : i # 1 => fs[i] = stack[c][i]
<1> DEFINE n == Len(stack[c])
           tl == Tail(stack[c])
           fs == <<f>> \o tl
<1>1. n \in Nat /\ DOMAIN stack[c] = 1 .. n /\ 1 \in 1 .. n
  BY StackType, TopOfStack
<1>2. tl \in Seq(Frame) /\ Len(tl) = n - 1 /\ \A i \in 1 .. n - 1 : tl[i] = stack[c][i + 1]
  BY TopOfStack
<1> HIDE DEF n, tl
<1>3. /\ fs \in Seq(Frame) /\ Len(fs) = n - 1 + 1 /\ DOMAIN fs = 1 .. n - 1 + 1
      /\ fs[1] = f
      /\ \A i \in 2 .. n - 1 + 1 : i - 1 \in 1 .. n - 1 /\ fs[i] = tl[i - 1]
  BY <1>2, OnTop
<1>4. n - 1 + 1 = n
  BY <1>1
<1>5. ASSUME NEW i \in 1 .. n, i # 1 PROVE fs[i] = stack[c][i]
  <2>1. i \in 2 .. n - 1 + 1 /\ i - 1 + 1 = i
    BY <1>1, <1>5
  <2> QED BY <1>2, <1>3, <2>1
<1>6. fs # <<>>
  BY <1>1, <1>3, EmptySeq
<1> QED BY <1>1, <1>3, <1>4, <1>5, <1>6 DEF n, tl

------------------------------------------------------------------------------
(* Steps of a client *)

OthersKept(c) == \A d \in Clients \ {c} :
  pc'[d] = pc[d] /\ tmp'[d] = tmp[d] /\ stack'[d] = stack[d]
Aging == \A w \in Writers : Gone(w) => Gone(w)'

LEMMA FramesStep ==
  ASSUME TypeOK, FramesInv, NEW c \in Clients, OthersKept(c), Aging,
         FramesOK(stack'[c], pc'[c], tmp'[c], life')
  PROVE  FramesInv'
<1>1. ASSUME NEW d \in Clients, d # c PROVE FramesOK(stack'[d], pc'[d], tmp'[d], life')
  <2>1. /\ pc'[d] = pc[d] /\ tmp'[d] = tmp[d] /\ stack'[d] = stack[d]
        /\ FramesOK(stack[d], pc[d], tmp[d], life)
    BY <1>1 DEF OthersKept, FramesInv
  <2>2. ASSUME NEW i \in DOMAIN stack[d]
        PROVE  FrameOK(stack[d][i], i, Len(stack[d]), pc[d], tmp[d], life')
    <3>1. FrameOK(stack[d][i], i, Len(stack[d]), pc[d], tmp[d], life)
      BY <2>1 DEF FramesOK
    <3>2. stack[d][i].w \in Writers
      BY StackType
    <3> QED BY <3>1, <3>2 DEF FrameOK, Aging, Gone
  <2> QED BY <2>1, <2>2 DEF FramesOK
<1> QED BY <1>1 DEF FramesInv

LEMMA TempStep ==
  ASSUME TempInv, NEW c \in Clients, OthersKept(c),
         pc'[c] \in {"idle", "check", "set", "load"} => tmp'[c] = NoWriter,
         pc'[c] = "spawn" => tmp'[c] \in Writers,
         pc'[c] = "stop" /\ tmp'[c] # NoWriter => \E i \in DOMAIN stack'[c] : ~stack'[c][i].dtor
  PROVE  TempInv'
BY DEF TempInv, OthersKept

\* A step outside of stop().
LEMMA OwnerGoto ==
  ASSUME TypeOK, OwnerInv, NEW c \in Clients, NEW p, NEW t,
         pc[c] # "stop", p # "stop", UNCHANGED stack, Aging, LiveOwned',
         pc' = [pc EXCEPT ![c] = p], tmp' = [tmp EXCEPT ![c] = t],
         p \in {"idle", "check", "set", "load"} => t = NoWriter,
         p = "spawn" => t \in Writers
  PROVE  OwnerInv'
<1>1. OthersKept(c) /\ pc'[c] = p /\ tmp'[c] = t
  BY DEF OthersKept, TypeOK
<1>2. TempInv'
  BY <1>1, TempStep DEF OwnerInv
<1>3. ASSUME NEW i \in DOMAIN stack[c]
      PROVE  FrameOK(stack[c][i], i, Len(stack[c]), p, t, life')
  <2>1. FrameOK(stack[c][i], i, Len(stack[c]), pc[c], tmp[c], life)
    BY DEF OwnerInv, FramesInv, FramesOK
  <2>2. stack[c][i].w \in Writers
    BY StackType
  <2> QED BY <2>1, <2>2 DEF FrameOK, Aging, Gone
<1>4. FramesInv'
  BY <1>1, <1>3, FramesStep DEF OwnerInv, FramesOK
<1> QED BY <1>2, <1>4 DEF OwnerInv

LEMMA OwnerQuiet ==
  OwnerInv /\ UNCHANGED <<instance, mgr, life, pc, tmp, stack>> => OwnerInv'
BY DEF OwnerInv, LiveOwned, TempInv, FramesInv

LEMMA OwnerFail ==
  ASSUME OwnerInv, NEW kind, Fail(kind) PROVE OwnerInv'
BY OwnerQuiet DEF Fail, writerVars, clientVars

\* A step of stop() that goes on to the next place.
LEMMA OwnerReplace ==
  ASSUME TypeOK, OwnerInv, NEW c \in Clients, stack[c] # <<>>, NEW f \in Frame,
         Replace(c, <<f>>), f.w = Top(c).w, f.dtor = Top(c).dtor,
         UNCHANGED <<instance, mgr, life, pc, tmp>>
  PROVE  OwnerInv'
<1> DEFINE fs == <<f>> \o Tail(stack[c])
<1>1. /\ Len(fs) = Len(stack[c]) /\ DOMAIN fs = DOMAIN stack[c] /\ fs[1] = f
      /\ \A i \in DOMAIN stack[c] : i # 1 => fs[i] = stack[c][i]
  BY TopReplaced
<1>2. stack' = [stack EXCEPT ![c] = fs]
  BY DEF Replace
<1> HIDE DEF fs
<1>3. stack'[c] = fs /\ OthersKept(c)
  BY <1>2 DEF TypeOK, OthersKept
<1>4. Top(c) = stack[c][1] /\ 1 \in DOMAIN stack[c]
  BY TopOfStack
<1>5. FramesOK(fs, pc[c], tmp[c], life)
  <2>1. ASSUME NEW i \in DOMAIN stack[c]
        PROVE  FrameOK(fs[i], i, Len(stack[c]), pc[c], tmp[c], life)
    <3>1. FrameOK(stack[c][i], i, Len(stack[c]), pc[c], tmp[c], life)
      BY DEF OwnerInv, FramesInv, FramesOK
    <3>2. CASE i = 1
      BY <1>1, <1>4, <3>1, <3>2 DEF FrameOK
    <3>3. CASE i # 1
      BY <1>1, <3>1, <3>3
    <3> QED BY <3>2, <3>3
  <2> QED BY <1>1, <2>1 DEF FramesOK
<1>6. FramesInv'
  BY <1>3, <1>5, FramesStep DEF OwnerInv, Aging, Gone
<1>7. \A i \in DOMAIN stack[c] : fs[i].dtor = stack[c][i].dtor
  BY <1>1, <1>4
<1>8. TempInv'
  BY <1>1, <1>3, <1>7, TempStep DEF OwnerInv, TempInv
<1>9. LiveOwned'
  BY DEF OwnerInv, LiveOwned
<1> QED BY <1>6, <1>8, <1>9 DEF OwnerInv

\* What dropping a reference does: the last one begins the writer's destruction.
LEMMA DropEffect ==
  ASSUME TypeOK, NEW c \in Clients, NEW w, NEW o, NEW fs, Drop(c, w, o, fs)
  PROVE  \/ /\ LastOwner(w, o)
            /\ life' = [life EXCEPT ![w] = "dying"]
            /\ stack' = [stack EXCEPT ![c] = <<Activation(w, TRUE)>> \o fs]
            /\ pc' = [pc EXCEPT ![c] = "stop"]
         \/ /\ ~LastOwner(w, o) /\ life' = life
            /\ stack' = [stack EXCEPT ![c] = fs]
            /\ pc' = [pc EXCEPT ![c] = IF fs = <<>> THEN "idle" ELSE "stop"]
BY DEF Drop, Goto, Return

LEMMA NewActivation ==
  ASSUME NEW w \in Writers, NEW b \in BOOLEAN
  PROVE  /\ Activation(w, b) \in Frame
         /\ Activation(w, b).w = w /\ Activation(w, b).dtor = b
         /\ Activation(w, b).at = "check"
BY DEF Activation, Frame

\* What a client keeps when owner o gives up its reference: the frames fs, in order, and
\* the pointer t, which is not that owner's.
Kept(c, o, fs, t) ==
  /\ tmp' = [tmp EXCEPT ![c] = t]
  /\ FramesOK(fs, "stop", t, life) /\ \A i \in DOMAIN fs : fs[i].at = "ret"
  /\ fs = <<>> => t = NoWriter
  /\ t # NoWriter => /\ pc[c] = "stop" /\ tmp[c] = t /\ o # c
                     /\ \E i \in DOMAIN fs : ~fs[i].dtor
  /\ instance' # NoWriter => instance' = instance /\ o # "instance"
  /\ \A h \in Handles : mgr'[h] # NoWriter => mgr'[h] = mgr[h] /\ o # h
  /\ o \in Clients => o = c

LEMMA OwnerDrop ==
  ASSUME TypeOK, OwnerInv, NEW c \in Clients, NEW w \in Writers \cup {NoWriter}, NEW o,
         NEW fs \in Seq(Frame), NEW t, Drop(c, w, o, fs), Kept(c, o, fs, t)
  PROVE  OwnerInv'
<1> USE DEF Kept
<1>1. CASE LastOwner(w, o)
  <2> DEFINE f == Activation(w, TRUE)
             gs == <<f>> \o fs
  <2>1. w \in Writers
    BY <1>1, LastOwnerAlone
  <2>2. /\ life' = [life EXCEPT ![w] = "dying"]
        /\ stack' = [stack EXCEPT ![c] = gs]
        /\ pc' = [pc EXCEPT ![c] = "stop"]
    BY <1>1, DropEffect
  <2>3. f \in Frame /\ f.w = w /\ f.dtor = TRUE
    BY <2>1, NewActivation
  <2> HIDE DEF f
  <2>4. /\ Len(gs) = Len(fs) + 1 /\ Len(fs) \in Nat /\ DOMAIN gs = 1 .. Len(fs) + 1
        /\ gs[1] = f
        /\ \A i \in 1 .. Len(fs) : gs[i + 1] = fs[i]
        /\ \A i \in 2 .. Len(fs) + 1 : i - 1 \in 1 .. Len(fs) /\ gs[i] = fs[i - 1]
    BY <2>3, OnTop
  <2>5. DOMAIN fs = 1 .. Len(fs)
    BY LenProperties
  <2> HIDE DEF gs
  <2>6. /\ stack'[c] = gs /\ pc'[c] = "stop" /\ tmp'[c] = t /\ OthersKept(c)
        /\ life'[w] = "dying" /\ \A v \in Writers : v # w => life'[v] = life[v]
    BY <2>1, <2>2 DEF TypeOK, OthersKept
  <2>7. Aging
    BY <2>6 DEF Aging, Gone
  <2>8. ASSUME NEW i \in DOMAIN gs PROVE FrameOK(gs[i], i, Len(gs), "stop", t, life')
    <3>1. CASE i = 1
      BY <2>3, <2>4, <2>6, <3>1 DEF FrameOK
    <3>2. CASE i # 1
      <4>1. i \in 2 .. Len(fs) + 1 /\ i - 1 \in DOMAIN fs /\ gs[i] = fs[i - 1]
        BY <2>4, <2>5, <3>2
      <4>2. FrameOK(fs[i - 1], i - 1, Len(fs), "stop", t, life) /\ fs[i - 1].at = "ret"
        BY <4>1 DEF FramesOK
      <4>3. fs[i - 1].w \in Writers
        <5>1. fs[i - 1] \in Frame
          BY <4>1, ElementOfSeq
        <5> QED BY <5>1 DEF Frame
      <4>4. i - 1 = Len(fs) => i = Len(gs)
        BY <2>4, <4>1
      <4> QED BY <2>7, <4>1, <4>2, <4>3, <4>4 DEF FrameOK, Aging, Gone
    <3> QED BY <3>1, <3>2
  <2>9. FramesInv'
    BY <2>6, <2>7, <2>8, FramesStep DEF OwnerInv, FramesOK
  <2>10. t # NoWriter => \E i \in DOMAIN gs : ~gs[i].dtor
    <3>1. ASSUME NEW i \in DOMAIN fs PROVE i + 1 \in DOMAIN gs /\ gs[i + 1] = fs[i]
      BY <2>4, <2>5
    <3> QED BY <3>1
  <2>11. TempInv'
    BY <2>6, <2>10, TempStep DEF OwnerInv
  <2>12. LiveOwned'
    <3>1. ASSUME instance' # NoWriter PROVE life'[instance'] = "live"
      <4>1. instance' = instance /\ instance # w /\ instance \in Writers
        BY <1>1, <3>1, LastOwnerAlone DEF TypeOK
      <4> QED BY <2>6, <3>1, <4>1 DEF OwnerInv, LiveOwned
    <3>2. ASSUME NEW h \in Handles, mgr'[h] # NoWriter PROVE life'[mgr'[h]] = "live"
      <4>1. mgr'[h] = mgr[h] /\ o # h
        BY <3>2
      <4>2. mgr[h] # w
        BY <1>1, <4>1, LastOwnerAlone
      <4>3. mgr[h] \in Writers /\ life[mgr[h]] = "live"
        BY <3>2, <4>1 DEF TypeOK, OwnerInv, LiveOwned
      <4> QED BY <2>6, <4>1, <4>2, <4>3
    <3>3. ASSUME NEW d \in Clients, pc'[d] = "stop", tmp'[d] # NoWriter
          PROVE  life'[tmp'[d]] = "live"
      <4>1. pc[d] = "stop" /\ tmp'[d] = tmp[d] /\ o # d
        BY <2>6, <3>3 DEF OthersKept
      <4>2. tmp[d] # w /\ tmp[d] \in Writers
        BY <1>1, <3>3, <4>1, LastOwnerAlone DEF TypeOK
      <4> QED BY <2>6, <3>3, <4>1, <4>2 DEF OwnerInv, LiveOwned
    <3> QED BY <3>1, <3>2, <3>3 DEF LiveOwned
  <2> QED BY <2>9, <2>11, <2>12 DEF OwnerInv
<1>2. CASE ~LastOwner(w, o)
  <2>1. /\ life' = life
        /\ stack' = [stack EXCEPT ![c] = fs]
        /\ pc' = [pc EXCEPT ![c] = IF fs = <<>> THEN "idle" ELSE "stop"]
    BY <1>2 DEF Drop, Goto, Return
  <2>2. /\ stack'[c] = fs /\ tmp'[c] = t /\ OthersKept(c)
        /\ pc'[c] = IF fs = <<>> THEN "idle" ELSE "stop"
    BY <2>1 DEF TypeOK, OthersKept
  <2>3. DOMAIN fs = 1 .. Len(fs) /\ (fs = <<>> => DOMAIN fs = {})
    BY LenProperties
  <2>4. FramesOK(fs, pc'[c], t, life)
    BY <2>2, <2>3 DEF FramesOK
  <2>5. FramesInv'
    BY <2>1, <2>2, <2>4, FramesStep DEF OwnerInv, Aging, Gone
  <2>6. TempInv'
    BY <2>2, TempStep DEF OwnerInv
  <2>7. LiveOwned'
    <3>1. ASSUME NEW d \in Clients, pc'[d] = "stop", tmp'[d] # NoWriter
          PROVE  pc[d] = "stop" /\ tmp'[d] = tmp[d]
      BY <2>2, <3>1 DEF OthersKept
    <3> QED BY <2>1, <3>1 DEF OwnerInv, LiveOwned
  <2> QED BY <2>5, <2>6, <2>7 DEF OwnerInv
<1> QED BY <1>1, <1>2

------------------------------------------------------------------------------
(* getLogWriter() and setLogger() *)

LEMMA FreshWriter == Unused # {} => (CHOOSE w \in Unused : TRUE) \in Unused
OBVIOUS

LEMMA OwnerLock ==
  ASSUME TypeOK, OwnerInv, NEW c \in Clients, LockInstance(c) PROVE OwnerInv'
<1>1. PICK p \in {"set", "check"} : pc' = [pc EXCEPT ![c] = p]
  BY DEF LockInstance, Goto
<1>2. pc[c] = "idle" /\ tmp[c] = NoWriter /\ tmp' = tmp /\ stack' = stack /\ mgr' = mgr
  BY DEF LockInstance, Calling, OwnerInv, TempInv
<1>3. tmp' = [tmp EXCEPT ![c] = NoWriter]
  BY <1>2 DEF TypeOK
<1>4. \A d \in Clients : pc'[d] = "stop" => pc[d] = "stop"
  BY <1>1 DEF TypeOK
<1>5. Aging /\ LiveOwned'
  <2>1. CASE UNCHANGED <<instance, life>>
    BY <1>2, <1>4, <2>1 DEF Aging, Gone, OwnerInv, LiveOwned
  <2>2. ASSUME Unused # {}, instance' = CHOOSE w \in Unused : TRUE,
               life' = [life EXCEPT ![instance'] = "live"]
        PROVE  Aging /\ LiveOwned'
    <3>1. instance' \in Writers /\ life[instance'] = "free"
      BY <2>2, FreshWriter DEF Unused
    <3>2. /\ life'[instance'] = "live"
          /\ \A w \in Writers : w # instance' => life'[w] = life[w]
      BY <2>2, <3>1 DEF TypeOK
    <3>3. Aging
      BY <3>1, <3>2 DEF Aging, Gone
    <3>4. \A w \in Writers : life[w] = "live" => life'[w] = "live"
      BY <3>1, <3>2
    <3>5. LiveOwned'
      BY <1>2, <1>4, <3>2, <3>4 DEF OwnerInv, LiveOwned, TypeOK
    <3> QED BY <3>3, <3>5
  <2> QED BY <2>1, <2>2 DEF LockInstance
<1> QED BY <1>1, <1>2, <1>3, <1>5, OwnerGoto

\* The steps that only move on, with or without a pointer.
LEMMA OwnerMove ==
  ASSUME TypeOK, OwnerInv, NEW c \in Clients, NEW p, NEW t, pc[c] # "stop", p # "stop",
         pc' = [pc EXCEPT ![c] = p], tmp' = [tmp EXCEPT ![c] = t],
         p \in {"idle", "check", "set", "load"} => t = NoWriter,
         p = "spawn" => t \in Writers,
         UNCHANGED <<instance, mgr, life, stack>>
  PROVE  OwnerInv'
<1>1. \A d \in Clients : pc'[d] = "stop" => d # c /\ pc[d] = "stop" /\ tmp'[d] = tmp[d]
  BY DEF TypeOK
<1>2. Aging /\ LiveOwned'
  BY <1>1 DEF Aging, Gone, OwnerInv, LiveOwned
<1> QED BY <1>2, OwnerGoto

LEMMA OwnerCheckRunning ==
  ASSUME TypeOK, OwnerInv, NEW c \in Clients, CheckRunning(c) PROVE OwnerInv'
<1>1. CASE Fail("null")
  BY <1>1, OwnerFail
<1>2. ASSUME running[instance], pc' = [pc EXCEPT ![c] = "load"], tmp' = tmp,
             UNCHANGED <<instance, mgr, life, stack>>
      PROVE  OwnerInv'
  <2>1. pc[c] = "check" /\ tmp[c] = NoWriter
    BY DEF CheckRunning, In, OwnerInv, TempInv
  <2>2. tmp' = [tmp EXCEPT ![c] = NoWriter]
    BY <1>2, <2>1 DEF TypeOK
  <2> QED BY <1>2, <2>1, <2>2, OwnerMove
<1>3. ASSUME instance # NoWriter, pc' = [pc EXCEPT ![c] = "spawn"],
             tmp' = [tmp EXCEPT ![c] = instance], UNCHANGED <<instance, mgr, life, stack>>
      PROVE  OwnerInv'
  <2>1. pc[c] = "check" /\ instance \in Writers
    BY <1>3 DEF CheckRunning, In, TypeOK
  <2> QED BY <1>3, <2>1, OwnerMove
<1> QED BY <1>1, <1>2, <1>3 DEF CheckRunning, Goto

LEMMA OwnerSpawn ==
  ASSUME TypeOK, OwnerInv, NEW c \in Clients, Spawn(c) PROVE OwnerInv'
<1>1. CASE \E kind \in {"dangling", "terminate"} : Fail(kind)
  BY <1>1, OwnerFail
<1>2. ASSUME pc' = [pc EXCEPT ![c] = "load"], tmp' = [tmp EXCEPT ![c] = NoWriter],
             UNCHANGED <<instance, mgr, life, stack>>
      PROVE  OwnerInv'
  <2>1. pc[c] = "spawn"
    BY DEF Spawn, In
  <2> QED BY <1>2, <2>1, OwnerMove
<1> QED BY <1>1, <1>2 DEF Spawn, Goto

LEMMA OwnerLoad ==
  ASSUME TypeOK, OwnerInv, NEW c \in Clients, LoadInstance(c) PROVE OwnerInv'
<1>1. /\ pc[c] = "load" /\ pc' = [pc EXCEPT ![c] = "ref"]
      /\ tmp' = [tmp EXCEPT ![c] = instance] /\ UNCHANGED <<instance, mgr, life, stack>>
  BY DEF LoadInstance, In, Goto, writerVars
<1> QED BY <1>1, OwnerMove

LEMMA OwnerSetLogger ==
  ASSUME TypeOK, OwnerInv, NEW c \in Clients, SetLogger(c) PROVE OwnerInv'
<1>1. CASE Fail("null")
  BY <1>1, OwnerFail
<1>2. ASSUME pc' = [pc EXCEPT ![c] = "idle"], tmp' = tmp,
             UNCHANGED <<instance, mgr, life, stack>>
      PROVE  OwnerInv'
  <2>1. pc[c] = "set" /\ tmp[c] = NoWriter
    BY DEF SetLogger, In, OwnerInv, TempInv
  <2>2. tmp' = [tmp EXCEPT ![c] = NoWriter]
    BY <1>2, <2>1 DEF TypeOK
  <2> QED BY <1>2, <2>1, <2>2, OwnerMove
<1> QED BY <1>1, <1>2 DEF SetLogger, Return

\* A manager keeps the writer, or stop() begins on it; either way it is not destroyed.
LEMMA OwnerReference ==
  ASSUME TypeInv, OwnerInv, NEW c \in Clients, AddReference(c) PROVE OwnerInv'
<1>1. CASE \E kind \in {"dangling", "null"} : Fail(kind)
  BY <1>1, OwnerFail
<1>2. TypeOK /\ pc[c] = "ref"
  BY DEF AddReference, In, TypeInv
<1> DEFINE w == tmp[c]
<1>3. ASSUME ~(w # NoWriter /\ life[w] # "live"), Call(c).op = "create",
             mgr' = [mgr EXCEPT ![Call(c).h] = w], tmp' = [tmp EXCEPT ![c] = NoWriter],
             pc' = [pc EXCEPT ![c] = "idle"], UNCHANGED <<instance, life, stack>>
      PROVE  OwnerInv'
  <2>1. \A h \in Handles : mgr'[h] = mgr[h] \/ mgr'[h] = w
    BY <1>2, <1>3 DEF TypeOK
  <2>2. \A d \in Clients : pc'[d] = "stop" => pc[d] = "stop" /\ tmp'[d] = tmp[d]
    BY <1>2, <1>3 DEF TypeOK
  <2>3. Aging /\ LiveOwned'
    BY <1>3, <2>1, <2>2 DEF Aging, Gone, OwnerInv, LiveOwned
  <2> QED BY <1>2, <1>3, <2>3, OwnerGoto
<1>4. ASSUME w # NoWriter, life[w] = "live", pc' = [pc EXCEPT ![c] = "stop"],
             stack' = [stack EXCEPT ![c] = <<Activation(w, FALSE)>>],
             UNCHANGED <<instance, life, mgr, tmp>>
      PROVE  OwnerInv'
  <2>1. w \in Writers
    BY <1>2, <1>4 DEF TypeOK
  <2> DEFINE f == Activation(w, FALSE)
  <2>2. f \in Frame /\ f.w = w /\ f.dtor = FALSE
    BY <2>1, NewActivation
  <2>3. stack'[c] = <<f>> /\ pc'[c] = "stop" /\ tmp'[c] = w /\ OthersKept(c)
    BY <1>2, <1>4 DEF TypeOK, OthersKept
  <2> HIDE DEF f
  <2>4. DOMAIN <<f>> = {1} /\ Len(<<f>>) = 1 /\ <<f>>[1] = f
    OBVIOUS
  <2>5. FramesOK(<<f>>, "stop", w, life')
    BY <2>2, <2>4 DEF FramesOK, FrameOK
  <2>6. FramesInv'
    BY <1>2, <1>4, <2>3, <2>5, FramesStep DEF OwnerInv, Aging, Gone
  <2>7. TempInv'
    BY <2>2, <2>3, <2>4, TempStep DEF OwnerInv
  <2>8. LiveOwned'
    BY <1>4, <2>3 DEF OwnerInv, LiveOwned, OthersKept
  <2> QED BY <2>6, <2>7, <2>8 DEF OwnerInv
<1> QED BY <1>1, <1>3, <1>4 DEF AddReference, Goto, Return, writerVars

------------------------------------------------------------------------------
(* LogManager *)

LEMMA OwnerLog ==
  ASSUME TypeOK, OwnerInv, NEW c \in Clients, Log(c) \/ Flushed(c) PROVE OwnerInv'
<1>1. /\ pc[c] = "idle" /\ pc' = [pc EXCEPT ![c] = "idle"] /\ tmp' = tmp
      /\ UNCHANGED <<instance, mgr, life, stack>>
  BY DEF Log, Flushed, Calling, Return, writerVars
<1>2. tmp[c] = NoWriter
  BY <1>1 DEF OwnerInv, TempInv
<1>3. tmp' = [tmp EXCEPT ![c] = NoWriter]
  BY <1>1, <1>2 DEF TypeOK
<1> QED BY <1>1, <1>3, OwnerMove

LEMMA OwnerEnqueue ==
  ASSUME OwnerInv, NEW c \in Clients, Enqueue(c) PROVE OwnerInv'
BY OwnerFail, OwnerQuiet DEF Enqueue, writerVars, clientVars

LEMMA OwnerClose ==
  ASSUME TypeInv, OwnerInv, NEW c \in Clients, Close(c) PROVE OwnerInv'
<1> DEFINE h == Call(c).h
<1>1. /\ TypeOK /\ pc[c] = "idle" /\ tmp' = tmp /\ instance' = instance
      /\ mgr' = [mgr EXCEPT ![h] = NoWriter] /\ Drop(c, mgr[h], h, <<>>)
  BY DEF Close, Calling, TypeInv
<1>2. h \in Handles
  BY CallTypes DEF Close, Calling, TypeInv
<1>3. tmp[c] = NoWriter
  BY <1>1 DEF OwnerInv, TempInv
<1>4. tmp' = [tmp EXCEPT ![c] = NoWriter]
  BY <1>1, <1>3 DEF TypeOK
<1> HIDE DEF h
<1>5. h # "instance" /\ h \notin Clients
  BY <1>2, ConstantsAssumption DEF ConstantsAssumption
<1>6. \A k \in Handles : mgr'[k] # NoWriter => mgr'[k] = mgr[k] /\ h # k
  BY <1>1, <1>2 DEF TypeOK
<1>7. mgr[h] \in Writers \cup {NoWriter}
  BY <1>1, <1>2 DEF TypeOK
<1>8. <<>> \in Seq(Frame) /\ DOMAIN <<>> = {}
  OBVIOUS
<1>9. FramesOK(<<>>, "stop", NoWriter, life)
  BY <1>8 DEF FramesOK
<1>10. Kept(c, h, <<>>, NoWriter)
  BY <1>1, <1>4, <1>5, <1>6, <1>8, <1>9 DEF Kept
<1> QED BY <1>1, <1>7, <1>8, <1>10, OwnerDrop

------------------------------------------------------------------------------
(* stop() and ~LogWriter() *)

LEMMA OwnerStop ==
  ASSUME TypeOK, OwnerInv, NEW c \in Clients,
         StopCheck(c) \/ StopDrained(c) \/ StopClear(c) \/ StopFlush(c) \/ StopJoin(c)
  PROVE  OwnerInv'
<1>1. CASE \E kind \in {"null", "terminate"} : Fail(kind)
  BY <1>1, OwnerFail
<1>2. ASSUME NEW place \in {"wait", "ret", "flush", "join", "reset"}, Move(c, place),
             stack[c] # <<>>, UNCHANGED <<instance, mgr, life, pc, tmp>>
      PROVE  OwnerInv'
  <2>1. Top(c) \in Frame
    BY <1>2, TopOfStack
  <2> DEFINE f == [Top(c) EXCEPT !.at = place]
  <2>2. f \in Frame /\ f.w = Top(c).w /\ f.dtor = Top(c).dtor
    BY <2>1 DEF Frame
  <2> QED BY <1>2, <2>2, OwnerReplace DEF Move
<1>3. ASSUME StopDrained(c) PROVE OwnerInv'
  <2> DEFINE n == Len(accepted[Top(c).w])
             f == [Top(c) EXCEPT !.at = "clear", !.seen = n]
  <2>1. stack[c] # <<>> /\ Replace(c, <<f>>) /\ UNCHANGED <<instance, mgr, life, pc, tmp>>
    BY <1>3 DEF StopDrained, At, writerVars
  <2>2. Top(c) \in Frame /\ Top(c).w \in Writers
    BY <2>1, TopOfStack
  <2>3. n \in Nat
    BY <2>2, LenProperties DEF TypeOK
  <2> HIDE DEF n
  <2>4. f \in Frame /\ f.w = Top(c).w /\ f.dtor = Top(c).dtor
    BY <2>2, <2>3 DEF Frame
  <2> QED BY <2>1, <2>4, OwnerReplace
<1>4. ASSUME StopCheck(c) PROVE OwnerInv'
  BY <1>2, <1>4 DEF StopCheck, At, writerVars
<1>5. ASSUME StopClear(c) PROVE OwnerInv'
  BY <1>2, <1>5 DEF StopClear, At
<1>6. ASSUME StopFlush(c) PROVE OwnerInv'
  BY <1>1, <1>2, <1>6 DEF StopFlush, At, writerVars
<1>7. ASSUME StopJoin(c) PROVE OwnerInv'
  BY <1>1, <1>2, <1>7 DEF StopJoin, At
<1> QED BY <1>3, <1>4, <1>5, <1>6, <1>7

LEMMA OwnerReset ==
  ASSUME TypeOK, OwnerInv, NEW c \in Clients, StopReset(c) PROVE OwnerInv'
<1> DEFINE f == [Top(c) EXCEPT !.at = "ret"]
           fs == <<f>> \o Tail(stack[c])
<1>1. /\ stack[c] # <<>> /\ pc[c] = "stop" /\ instance' = NoWriter /\ mgr' = mgr
      /\ tmp' = tmp /\ Drop(c, instance, "instance", fs)
  BY DEF StopReset, At, In
<1>2. Top(c) \in Frame /\ Top(c) = stack[c][1] /\ 1 \in DOMAIN stack[c]
  BY <1>1, TopOfStack
<1>3. f \in Frame /\ f.w = Top(c).w /\ f.dtor = Top(c).dtor /\ f.at = "ret"
  BY <1>2 DEF Frame
<1> HIDE DEF f
<1>4. /\ fs \in Seq(Frame) /\ fs # <<>>
      /\ Len(fs) = Len(stack[c]) /\ DOMAIN fs = DOMAIN stack[c] /\ fs[1] = f
      /\ \A i \in DOMAIN stack[c] : i # 1 => fs[i] = stack[c][i]
  BY <1>1, <1>3, TopReplaced
<1> HIDE DEF fs
<1>5. ASSUME NEW i \in DOMAIN stack[c]
      PROVE  /\ FrameOK(fs[i], i, Len(stack[c]), "stop", tmp[c], life)
             /\ fs[i].at = "ret" /\ fs[i].dtor = stack[c][i].dtor
  <2>1. FrameOK(stack[c][i], i, Len(stack[c]), "stop", tmp[c], life)
    BY <1>1 DEF OwnerInv, FramesInv, FramesOK
  <2>2. CASE i = 1
    BY <1>2, <1>3, <1>4, <2>1, <2>2 DEF FrameOK
  <2>3. CASE i # 1
    BY <1>4, <2>1, <2>3 DEF FrameOK
  <2> QED BY <2>2, <2>3
<1>6. FramesOK(fs, "stop", tmp[c], life)
  BY <1>4, <1>5 DEF FramesOK
<1>7. tmp[c] # NoWriter => \E i \in DOMAIN fs : ~fs[i].dtor
  BY <1>1, <1>4, <1>5 DEF OwnerInv, TempInv
<1>8. \A i \in DOMAIN fs : fs[i].at = "ret"
  BY <1>4, <1>5
<1>9. /\ instance \in Writers \cup {NoWriter} /\ tmp' = [tmp EXCEPT ![c] = tmp[c]]
      /\ "instance" \notin Clients /\ "instance" # c /\ \A h \in Handles : "instance" # h
  BY <1>1, ConstantsAssumption DEF TypeOK, ConstantsAssumption
<1>10. Kept(c, "instance", fs, tmp[c])
  BY <1>1, <1>4, <1>6, <1>7, <1>8, <1>9 DEF Kept
<1> QED BY <1>1, <1>4, <1>9, <1>10, OwnerDrop

LEMMA OwnerReturn ==
  ASSUME TypeOK, OwnerInv, NEW c \in Clients, StopReturn(c) PROVE OwnerInv'
<1>1. /\ stack[c] # <<>> /\ ~Top(c).dtor /\ instance' = instance /\ mgr' = mgr
      /\ tmp' = [tmp EXCEPT ![c] = NoWriter] /\ Drop(c, Top(c).w, c, Tail(stack[c]))
  BY DEF StopReturn, At
<1>2. /\ Top(c).w \in Writers /\ Top(c) = stack[c][1] /\ 1 \in DOMAIN stack[c]
      /\ Tail(stack[c]) \in Seq(Frame) /\ Len(Tail(stack[c])) = Len(stack[c]) - 1
  BY <1>1, TopOfStack
<1>3. FrameOK(stack[c][1], 1, Len(stack[c]), pc[c], tmp[c], life)
  BY <1>2 DEF OwnerInv, FramesInv, FramesOK
<1>4. Len(stack[c]) = 1
  BY <1>1, <1>2, <1>3 DEF FrameOK
<1>5. Tail(stack[c]) = <<>>
  <2>1. Len(Tail(stack[c])) = 0
    BY <1>2, <1>4
  <2> QED BY <1>2, <2>1, EmptySeq
<1>6. c # "instance" /\ \A h \in Handles : c # h
  BY ConstantsAssumption DEF ConstantsAssumption
<1>7. <<>> \in Seq(Frame) /\ DOMAIN <<>> = {}
  OBVIOUS
<1>8. FramesOK(<<>>, "stop", NoWriter, life)
  BY <1>7 DEF FramesOK
<1>9. Kept(c, c, <<>>, NoWriter)
  BY <1>1, <1>6, <1>7, <1>8 DEF Kept
<1> QED BY <1>1, <1>2, <1>5, <1>7, <1>9, OwnerDrop

LEMMA OwnerDestroy ==
  ASSUME TypeOK, OwnerInv, NEW c \in Clients, Destroy(c) PROVE OwnerInv'
<1> DEFINE w == Top(c).w
           tl == Tail(stack[c])
           n == Len(stack[c])
<1>1. /\ stack[c] # <<>> /\ Top(c).dtor /\ pc[c] = "stop"
      /\ life' = [life EXCEPT ![w] = "dead"] /\ stack' = [stack EXCEPT ![c] = <<>> \o tl]
      /\ pc' = [pc EXCEPT ![c] = IF tl = <<>> THEN "idle" ELSE "stop"]
      /\ UNCHANGED <<instance, mgr, tmp>>
  BY DEF Destroy, At, In, Replace, Return, Goto
<1>2. /\ w \in Writers /\ Top(c) = stack[c][1] /\ 1 \in DOMAIN stack[c]
      /\ tl \in Seq(Frame) /\ Len(tl) = n - 1 /\ DOMAIN tl = 1 .. n - 1
      /\ \A i \in 1 .. n - 1 : tl[i] = stack[c][i + 1]
  BY <1>1, TopOfStack
<1>3. n \in Nat /\ DOMAIN stack[c] = 1 .. n
  BY StackType
<1> HIDE DEF w, tl, n
<1>4. \A i \in DOMAIN stack[c] : FrameOK(stack[c][i], i, n, "stop", tmp[c], life)
  BY <1>1 DEF OwnerInv, FramesInv, FramesOK, n
<1>5. Gone(w)
  BY <1>1, <1>2, <1>4 DEF FrameOK, Gone, w
<1>6. life'[w] = "dead" /\ \A v \in Writers : v # w => life'[v] = life[v]
  BY <1>1, <1>2 DEF TypeOK
<1>7. Aging
  BY <1>6 DEF Aging, Gone
<1>8. <<>> \o tl = tl
  BY <1>2
<1>9. /\ stack'[c] = tl /\ tmp'[c] = tmp[c] /\ OthersKept(c)
      /\ pc'[c] = IF tl = <<>> THEN "idle" ELSE "stop"
  BY <1>1, <1>8 DEF TypeOK, OthersKept
<1>10. FramesInv'
  <2>1. ASSUME NEW i \in DOMAIN tl PROVE FrameOK(tl[i], i, Len(tl), pc'[c], tmp[c], life')
    <3>1. i \in 1 .. n - 1 /\ i + 1 \in DOMAIN stack[c] /\ i + 1 # 1 /\ (i + 1 = n <=> i = n - 1)
      BY <1>2, <1>3
    <3>2. tl[i] = stack[c][i + 1] /\ tl[i].w \in Writers
      BY <1>2, <3>1, StackType
    <3>3. FrameOK(stack[c][i + 1], i + 1, n, "stop", tmp[c], life)
      BY <1>4, <3>1
    <3>4. tl # <<>>
      BY <1>2
    <3> QED BY <1>2, <1>7, <1>9, <3>1, <3>2, <3>3, <3>4 DEF FrameOK, Aging, Gone
  <2> QED BY <1>7, <1>9, <2>1, FramesStep DEF OwnerInv, FramesOK
<1>11. TempInv'
  <2>1. ASSUME tmp[c] # NoWriter PROVE \E i \in DOMAIN tl : ~tl[i].dtor
    <3>1. PICK i \in DOMAIN stack[c] : ~stack[c][i].dtor
      BY <1>1, <2>1 DEF OwnerInv, TempInv
    <3>2. i # 1
      BY <1>1, <1>2, <3>1
    <3>3. i - 1 \in DOMAIN tl /\ i - 1 \in 1 .. n - 1 /\ (i - 1) + 1 = i
      BY <1>2, <1>3, <3>1, <3>2
    <3> QED BY <1>2, <3>1, <3>3
  <2>2. tl = <<>> => DOMAIN tl = {}
    OBVIOUS
  <2> QED BY <1>9, <2>1, <2>2, TempStep DEF OwnerInv
<1>12. LiveOwned'
  <2>1. \A v \in Writers : life[v] = "live" => life'[v] = "live"
    BY <1>5, <1>6 DEF Gone
  <2>2. \A d \in Clients : pc'[d] = "stop" => pc[d] = "stop"
    BY <1>1, <1>9 DEF OthersKept
  <2> QED BY <1>1, <2>1, <2>2 DEF OwnerInv, LiveOwned, TypeOK
<1> QED BY <1>10, <1>11, <1>12 DEF OwnerInv

------------------------------------------------------------------------------

LEMMA OwnerWorker ==
  ASSUME OwnerInv, NEW w \in Writers, WorkerStep(w) PROVE OwnerInv'
<1>1. CASE \E kind \in {"null", "dangling"} : Fail(kind)
  BY <1>1, OwnerFail
<1>2. CASE WorkerRest
  BY <1>2, OwnerQuiet DEF WorkerRest, writerVars, clientVars
<1> QED BY <1>1, <1>2
        DEF WorkerStep, WorkerLoop, WorkerTest, WorkerTake, WorkerLoad, WorkerWrite

LEMMA OwnerInit == Init => OwnerInv
<1> SUFFICES ASSUME Init PROVE OwnerInv
  OBVIOUS
<1>1. \A c \in Clients : DOMAIN stack[c] = {}
  BY DEF Init
<1>2. LiveOwned
  BY DEF Init, LiveOwned
<1>3. TempInv
  BY DEF Init, TempInv
<1>4. FramesInv
  BY <1>1 DEF FramesInv, FramesOK
<1> QED BY <1>2, <1>3, <1>4 DEF OwnerInv

LEMMA OwnerNext == TypeInv /\ OwnerInv /\ [Next]_vars => OwnerInv'
<1> SUFFICES ASSUME TypeInv, OwnerInv, [Next]_vars PROVE OwnerInv'
  OBVIOUS
<1>t. TypeOK
  BY DEF TypeInv
<1>1. ASSUME NEW c \in Clients,
             \/ LockInstance(c) \/ CheckRunning(c) \/ Spawn(c) \/ LoadInstance(c)
             \/ AddReference(c) \/ SetLogger(c)
      PROVE  OwnerInv'
  BY <1>1, <1>t, OwnerLock, OwnerCheckRunning, OwnerSpawn, OwnerLoad, OwnerReference,
     OwnerSetLogger
<1>2. ASSUME NEW c \in Clients, Log(c) \/ Enqueue(c) \/ Flushed(c) \/ Close(c)
      PROVE  OwnerInv'
  BY <1>2, <1>t, OwnerLog, OwnerEnqueue, OwnerClose
<1>3. ASSUME NEW c \in Clients,
             \/ StopCheck(c) \/ StopDrained(c) \/ StopClear(c) \/ StopFlush(c)
             \/ StopJoin(c) \/ StopReset(c) \/ StopReturn(c) \/ Destroy(c)
      PROVE  OwnerInv'
  BY <1>3, <1>t, OwnerStop, OwnerReset, OwnerReturn, OwnerDestroy
<1>4. ASSUME NEW w \in Writers, WorkerStep(w) PROVE OwnerInv'
  BY <1>4, OwnerWorker
<1>5. CASE UNCHANGED vars
  BY <1>5, OwnerQuiet DEF vars, writerVars, clientVars
<1> QED BY <1>1, <1>2, <1>3, <1>4, <1>5 DEF Next, ClientStep, Halted

\* A LogWriter that a shared_ptr owns is not destroyed: however often stop() drops the
\* static reference, ~LogWriter runs only for the last owner, and a thread that takes a
\* new reference finds a writer that still has one or fails.
THEOREM OwnedIsLiveCorrect == Spec => []OwnedIsLive
<1>1. TypeInv => TypeOK
  BY DEF TypeInv
<1>2. TypeOK /\ OwnerInv => OwnedIsLive
  BY LiveOwnedIs DEF OwnerInv
<1> QED BY <1>1, <1>2, OwnerInit, OwnerNext, Inductive, PTL DEF Spec

------------------------------------------------------------------------------
(* Workers.  A std::thread must not be joinable when its writer is destroyed.  *)
(* A writer may be joinable although m_running is FALSE, and the other way     *)
(* round, as long as a called stop() on it has still to join.                  *)

\* getLogWriter() and setLogger() are in the critical section of instanceMutex.
LockInv == \A c \in Clients : pc[c] \in {"check", "spawn", "load", "ref", "set"} => lock = c

\* Client c has cleared m_running of w and goes on to join its worker.
Joins(c, w) == /\ stack[c] # <<>> /\ Top(c).w = w /\ ~Top(c).dtor
               /\ Top(c).at \in {"flush", "join"}
JoinPending == \A w \in Writers :
  life[w] = "live" /\ joinable[w] /\ ~running[w] => \E c \in Clients : Joins(c, w)

\* The client that is about to start a worker assigns to a thread that is still joinable,
\* or to one whose m_running is cleared again, only if another has yet to join.
StartPending == \A s \in Clients : pc[s] = "spawn" /\ life[tmp[s]] = "live" =>
  /\ ~running[tmp[s]] \/ joinable[tmp[s]] => \E c \in Clients : Joins(c, tmp[s])
  /\ ~running[tmp[s]] /\ joinable[tmp[s]] =>
       \E c, d \in Clients : c # d /\ Joins(c, tmp[s]) /\ Joins(d, tmp[s])
Unjoinable == \A w \in Writers : life[w] \in {"free", "dead"} => ~joinable[w]

\* One client destroys a writer, and joins its worker if there is one.
EndOK(f, jn, rn) == f.dtor => /\ f.at = "check" /\ jn[f.w] => rn[f.w]
                              /\ f.at \in {"reset", "ret"} => ~jn[f.w]
Unique == \A c, d \in Clients : \A i \in DOMAIN stack[c], j \in DOMAIN stack[d] :
  stack[c][i].dtor /\ stack[d][j].dtor /\ stack[c][i].w = stack[d][j].w => c = d
Ending == \A c \in Clients : \A i \in DOMAIN stack[c] : EndOK(stack[c][i], joinable, running)

Pending == JoinPending /\ StartPending /\ Unjoinable
Ends == Unique /\ Ending
LifeInv == Pending /\ Ends

LEMMA LockStep ==
  ASSUME TypeOK, LockInv, NEW c \in Clients, NEW p, pc' = [pc EXCEPT ![c] = p],
         \/ lock' = lock /\ pc[c] \in {"check", "spawn", "load", "ref", "set"}
         \/ lock' = lock /\ p \in {"idle", "stop"}
         \/ lock = NoClient /\ lock' = c
         \/ lock = c /\ p \in {"idle", "stop"}
  PROVE  LockInv'
<1>1. ASSUME NEW d \in Clients, pc'[d] \in {"check", "spawn", "load", "ref", "set"}
      PROVE  lock' = d
  <2>1. CASE d = c
    BY <1>1, <2>1 DEF TypeOK, LockInv
  <2>2. CASE d # c
    BY <1>1, <2>2, ConstantsAssumption DEF TypeOK, LockInv, ConstantsAssumption
  <2> QED BY <2>1, <2>2
<1> QED BY <1>1 DEF LockInv

LEMMA LockQuiet == LockInv /\ UNCHANGED <<pc, lock>> => LockInv'
BY DEF LockInv

LEMMA DropGoes ==
  ASSUME NEW c, NEW w, NEW o, NEW fs, Drop(c, w, o, fs)
  PROVE  \E p \in {"idle", "stop"} : pc' = [pc EXCEPT ![c] = p]
BY DEF Drop, Goto, Return

LEMMA LockNext == TypeOK /\ LockInv /\ [Next]_vars => LockInv'
<1> SUFFICES ASSUME TypeOK, LockInv, [Next]_vars PROVE LockInv'
  OBVIOUS
<1>1. ASSUME NEW kind, Fail(kind) PROVE LockInv'
  BY <1>1, LockQuiet DEF Fail, clientVars
<1>2. ASSUME NEW c \in Clients, LockInstance(c) PROVE LockInv'
  BY <1>2, LockStep DEF LockInstance, Goto
<1>3. ASSUME NEW c \in Clients, CheckRunning(c) \/ Spawn(c) \/ LoadInstance(c) PROVE LockInv'
  BY <1>1, <1>3, LockStep DEF CheckRunning, Spawn, LoadInstance, In, Goto
<1>4. ASSUME NEW c \in Clients, AddReference(c) \/ SetLogger(c) PROVE LockInv'
  <2>1. lock = c
    BY <1>4 DEF AddReference, SetLogger, In, LockInv
  <2> QED BY <1>1, <1>4, <2>1, LockStep DEF AddReference, SetLogger, Goto, Return
<1>5. ASSUME NEW c \in Clients, Log(c) \/ Flushed(c) PROVE LockInv'
  BY <1>5, LockStep DEF Log, Flushed, Return
<1>6. ASSUME NEW c \in Clients, Enqueue(c) PROVE LockInv'
  BY <1>1, <1>6, LockQuiet DEF Enqueue, clientVars
<1>7. ASSUME NEW c \in Clients, Close(c) \/ StopReset(c) \/ StopReturn(c) PROVE LockInv'
  <2>1. lock' = lock
    BY <1>7 DEF Close, StopReset, StopReturn
  <2>2. PICK p \in {"idle", "stop"} : pc' = [pc EXCEPT ![c] = p]
    BY <1>7, DropGoes DEF Close, StopReset, StopReturn
  <2> QED BY <2>1, <2>2, LockStep
<1>8. ASSUME NEW c \in Clients,
             StopCheck(c) \/ StopDrained(c) \/ StopClear(c) \/ StopFlush(c) \/ StopJoin(c)
      PROVE  LockInv'
  BY <1>1, <1>8, LockQuiet DEF StopCheck, StopDrained, StopClear, StopFlush, StopJoin
<1>9. ASSUME NEW c \in Clients, Destroy(c) PROVE LockInv'
  BY <1>9, LockStep DEF Destroy, Goto, Return
<1>10. ASSUME NEW w \in Writers, WorkerStep(w) PROVE LockInv'
  BY <1>1, <1>10, LockQuiet
     DEF WorkerStep, WorkerLoop, WorkerTest, WorkerTake, WorkerLoad, WorkerWrite,
         WorkerRest, clientVars
<1>11. CASE UNCHANGED vars
  BY <1>11, LockQuiet DEF vars, clientVars
<1> QED BY <1>2, <1>3, <1>4, <1>5, <1>6, <1>7, <1>8, <1>9, <1>10, <1>11
        DEF Next, ClientStep, Halted

------------------------------------------------------------------------------
(* What steps leave of pending joins and destructions *)

\* A called stop() that is about to join holds its writer.
LEMMA JoinerIs ==
  ASSUME TypeOK, OwnerInv, NEW c \in Clients, NEW w \in Writers, Joins(c, w)
  PROVE  pc[c] = "stop" /\ tmp[c] = w /\ life[w] = "live"
<1>1. /\ stack[c] # <<>> /\ Top(c) = stack[c][1] /\ 1 \in DOMAIN stack[c]
      /\ ~Top(c).dtor /\ Top(c).w = w
  BY TopOfStack DEF Joins
<1>2. FrameOK(stack[c][1], 1, Len(stack[c]), pc[c], tmp[c], life)
  BY <1>1 DEF OwnerInv, FramesInv, FramesOK
<1>3. pc[c] = "stop" /\ tmp[c] = w
  BY <1>1, <1>2 DEF FrameOK
<1>4. w # NoWriter
  BY ConstantsAssumption DEF ConstantsAssumption
<1> QED BY <1>3, <1>4 DEF OwnerInv, LiveOwned

JoinsKept == \A c \in Clients, w \in Writers : Joins(c, w) => Joins(c, w)'

LEMMA JoinsKeep ==
  ASSUME NEW c \in Clients, \A d \in Clients \ {c} : stack'[d] = stack[d],
         stack'[c] = stack[c] \/ \A w \in Writers : ~Joins(c, w)
  PROVE  JoinsKept
BY DEF JoinsKept, Joins, Top

LEMMA PendingKept ==
  ASSUME TypeOK, OwnerInv, Pending, JoinsKept,
         \A w \in Writers : life'[w] = "live" =>
           \/ life[w] = "live" /\ joinable'[w] = joinable[w] /\ running'[w] = running[w]
           \/ ~joinable'[w],
         \A s \in Clients : pc'[s] = "spawn" =>
           /\ pc[s] = "spawn" /\ tmp'[s] = tmp[s]
           /\ life'[tmp[s]] = "live" => /\ life[tmp[s]] = "live"
                                        /\ joinable'[tmp[s]] = joinable[tmp[s]]
                                        /\ running'[tmp[s]] = running[tmp[s]]
  PROVE  JoinPending' /\ StartPending'
<1>1. JoinPending'
  BY DEF Pending, JoinPending, JoinsKept
<1>2. ASSUME NEW s \in Clients, pc'[s] = "spawn", life'[tmp'[s]] = "live"
      PROVE  /\ ~running'[tmp'[s]] \/ joinable'[tmp'[s]] =>
                  \E c \in Clients : Joins(c, tmp[s])'
             /\ ~running'[tmp'[s]] /\ joinable'[tmp'[s]] =>
                  \E c, d \in Clients : c # d /\ Joins(c, tmp[s])' /\ Joins(d, tmp[s])'
  <2>1. PICK w : w = tmp[s]
    OBVIOUS
  <2>2. /\ pc[s] = "spawn" /\ tmp'[s] = w /\ life[w] = "live"
        /\ joinable'[w] = joinable[w] /\ running'[w] = running[w]
    BY <1>2, <2>1
  <2>3. w \in Writers
    BY <2>1, <2>2 DEF OwnerInv, TempInv
  <2>4. /\ ~running[w] \/ joinable[w] => \E c \in Clients : Joins(c, w)
        /\ ~running[w] /\ joinable[w] =>
             \E c, d \in Clients : c # d /\ Joins(c, w) /\ Joins(d, w)
    BY <2>1, <2>2 DEF Pending, StartPending
  <2>5. /\ ~running[w] \/ joinable[w] => \E c \in Clients : Joins(c, w)'
        /\ ~running[w] /\ joinable[w] =>
             \E c, d \in Clients : c # d /\ Joins(c, w)' /\ Joins(d, w)'
    BY <2>3, <2>4 DEF JoinsKept
  <2> QED BY <2>1, <2>2, <2>5
<1> QED BY <1>1, <1>2 DEF StartPending

\* The writer of a ~LogWriter() in progress.
LEMMA EndingWriter ==
  ASSUME TypeOK, OwnerInv, NEW c \in Clients, NEW i \in DOMAIN stack[c], stack[c][i].dtor
  PROVE  stack[c][i].w \in Writers /\ Gone(stack[c][i].w)
<1>1. FrameOK(stack[c][i], i, Len(stack[c]), pc[c], tmp[c], life)
  BY DEF OwnerInv, FramesInv, FramesOK
<1> QED BY <1>1, StackType DEF FrameOK, Gone

\* The frames of the client that moves: in order, and of writers that it already destroys
\* or nobody did.
EndsWith(c) == \A i \in DOMAIN stack'[c] : stack'[c][i].dtor =>
  /\ EndOK(stack'[c][i], joinable', running')
  /\ \/ stack'[c][i].w \in Writers /\ ~Gone(stack'[c][i].w)
     \/ \E j \in DOMAIN stack[c] : stack[c][j].dtor /\ stack[c][j].w = stack'[c][i].w

LEMMA EndsKept ==
  ASSUME TypeOK, OwnerInv, Ends, NEW c \in Clients, \A d \in Clients \ {c} : stack'[d] = stack[d],
         \A w \in Writers : Gone(w) /\ joinable'[w] => joinable[w],
         \A d \in Clients \ {c} : \A i \in DOMAIN stack[d] :
           stack[d][i].dtor /\ running[stack[d][i].w] => running'[stack[d][i].w],
         EndsWith(c)
  PROVE  Ends'
<1>1. Ending'
  <2>1. ASSUME NEW d \in Clients, NEW i \in DOMAIN stack'[d]
        PROVE  EndOK(stack'[d][i], joinable', running')
    <3>1. CASE d = c
      BY <2>1, <3>1 DEF EndsWith, EndOK
    <3>2. CASE d # c
      <4>1. stack'[d] = stack[d] /\ EndOK(stack[d][i], joinable, running)
        BY <2>1, <3>2 DEF Ends, Ending
      <4>2. CASE ~stack[d][i].dtor
        BY <4>1, <4>2 DEF EndOK
      <4>3. CASE stack[d][i].dtor
        <5>1. Gone(stack[d][i].w) /\ stack[d][i].w \in Writers
          BY <2>1, <4>1, <4>3, EndingWriter
        <5>2. joinable'[stack[d][i].w] => joinable[stack[d][i].w]
          BY <5>1
        <5>3. running[stack[d][i].w] => running'[stack[d][i].w]
          BY <2>1, <3>2, <4>1, <4>3
        <5> QED BY <4>1, <5>2, <5>3 DEF EndOK
      <4> QED BY <4>2, <4>3
    <3> QED BY <3>1, <3>2
  <2> QED BY <2>1 DEF Ending
<1>2. Unique'
  <2>1. ASSUME NEW d \in Clients, d # c, NEW i \in DOMAIN stack'[c], NEW j \in DOMAIN stack[d],
               stack'[c][i].dtor, stack[d][j].dtor, stack'[c][i].w = stack[d][j].w
        PROVE  FALSE
    <3>1. Gone(stack[d][j].w)
      BY <2>1, EndingWriter
    <3>2. PICK k \in DOMAIN stack[c] : stack[c][k].dtor /\ stack[c][k].w = stack'[c][i].w
      BY <2>1, <3>1 DEF EndsWith
    <3> QED BY <2>1, <3>2 DEF Ends, Unique
  <2>2. ASSUME NEW d \in Clients, NEW e \in Clients, d # e,
               NEW i \in DOMAIN stack'[d], NEW j \in DOMAIN stack'[e],
               stack'[d][i].dtor, stack'[e][j].dtor, stack'[d][i].w = stack'[e][j].w
        PROVE  FALSE
    <3>1. CASE d = c
      BY <2>1, <2>2, <3>1
    <3>2. CASE e = c
      BY <2>1, <2>2, <3>2
    <3>3. CASE d # c /\ e # c
      <4>1. stack'[d] = stack[d] /\ stack'[e] = stack[e]
        BY <3>3
      <4> QED BY <2>2, <4>1 DEF Ends, Unique
    <3> QED BY <3>1, <3>2, <3>3
  <2> QED BY <2>2 DEF Unique
<1> QED BY <1>1, <1>2 DEF Ends

\* Steps that leave the stacks alone and start, but do not stop, workers of live writers.
LEMMA EndsSame ==
  ASSUME TypeOK, OwnerInv, Ends, UNCHANGED stack,
         \A w \in Writers : Gone(w) /\ joinable'[w] => joinable[w],
         \A w \in Writers : running[w] => running'[w]
  PROVE  Ends'
<1>1. Unique'
  BY DEF Ends, Unique
<1>2. ASSUME NEW c \in Clients, NEW i \in DOMAIN stack[c]
      PROVE  EndOK(stack[c][i], joinable', running')
  <2>1. EndOK(stack[c][i], joinable, running) /\ stack[c][i].w \in Writers
    BY StackType DEF Ends, Ending
  <2>2. stack[c][i].dtor => Gone(stack[c][i].w)
    BY EndingWriter
  <2> QED BY <2>1, <2>2 DEF EndOK
<1>3. Ending'
  BY <1>2 DEF Ending
<1> QED BY <1>1, <1>3 DEF Ends

------------------------------------------------------------------------------
(* The steps *)

\* A step that changes no thread and no stack, and at most creates a writer.
LEMMA LifeQuiet ==
  ASSUME TypeOK, OwnerInv, LifeInv, UNCHANGED <<running, joinable, stack>>,
         \A s \in Clients : pc'[s] = "spawn" => pc[s] = "spawn" /\ tmp'[s] = tmp[s],
         \/ life' = life
         \/ /\ \A w \in Writers : life'[w] # life[w] => life[w] = "free" /\ life'[w] = "live"
            /\ \A s \in Clients : pc'[s] # "spawn"
  PROVE  LifeInv'
<1>1. JoinsKept
  BY DEF JoinsKept, Joins, Top
<1>2. \A w \in Writers : life'[w] = "live" => life[w] = "live" \/ ~joinable[w]
  BY DEF LifeInv, Pending, Unjoinable
<1>3. JoinPending' /\ StartPending'
  BY <1>1, <1>2, PendingKept DEF LifeInv
<1>4. Unjoinable'
  BY DEF LifeInv, Pending, Unjoinable
<1>5. Ends'
  BY EndsSame DEF LifeInv
<1> QED BY <1>3, <1>4, <1>5 DEF LifeInv, Pending

LEMMA LifeFail == ASSUME TypeOK, OwnerInv, LifeInv, NEW kind, Fail(kind) PROVE LifeInv'
BY LifeQuiet DEF Fail, writerVars, clientVars

LEMMA LifeLock ==
  ASSUME TypeOK, OwnerInv, LockInv, LifeInv, NEW c \in Clients, LockInstance(c) PROVE LifeInv'
<1>1. /\ UNCHANGED <<running, joinable, stack, tmp>> /\ lock = NoClient
      /\ \E p \in {"set", "check"} : pc' = [pc EXCEPT ![c] = p]
  BY DEF LockInstance, Goto
<1>2. \A s \in Clients : pc'[s] # "spawn"
  BY <1>1, ConstantsAssumption DEF LockInv, TypeOK, ConstantsAssumption
<1>3. CASE life' = life
  BY <1>1, <1>2, <1>3, LifeQuiet
<1>4. ASSUME Unused # {}, instance' = CHOOSE w \in Unused : TRUE,
             life' = [life EXCEPT ![instance'] = "live"]
      PROVE  LifeInv'
  <2>1. instance' \in Writers /\ life[instance'] = "free"
    BY <1>4, FreshWriter DEF Unused
  <2>2. \A w \in Writers : life'[w] # life[w] => life[w] = "free" /\ life'[w] = "live"
    BY <1>4, <2>1 DEF TypeOK
  <2> QED BY <1>1, <1>2, <2>2, LifeQuiet
<1> QED BY <1>3, <1>4 DEF LockInstance

LEMMA LifeCheckRunning ==
  ASSUME TypeOK, OwnerInv, LockInv, LifeInv, NEW c \in Clients, CheckRunning(c) PROVE LifeInv'
<1>1. CASE Fail("null")
  BY <1>1, LifeFail
<1>2. ASSUME pc' = [pc EXCEPT ![c] = "load"], UNCHANGED <<life, running, joinable, stack, tmp>>
      PROVE  LifeInv'
  <2>1. \A s \in Clients : pc'[s] = "spawn" => pc[s] = "spawn"
    BY <1>2 DEF TypeOK
  <2> QED BY <1>2, <2>1, LifeQuiet
<1>3. ASSUME instance # NoWriter, ~running[instance],
             running' = [running EXCEPT ![instance] = TRUE],
             pc' = [pc EXCEPT ![c] = "spawn"], tmp' = [tmp EXCEPT ![c] = instance],
             UNCHANGED <<life, joinable, stack>>
      PROVE  LifeInv'
  <2>1. instance \in Writers /\ life[instance] = "live" /\ pc[c] = "check"
    BY <1>3 DEF TypeOK, OwnerInv, LiveOwned, CheckRunning, In
  <2>2. running'[instance] /\ \A w \in Writers : w # instance => running'[w] = running[w]
    BY <1>3, <2>1 DEF TypeOK
  <2>3. \A d \in Clients, w \in Writers : Joins(d, w)' <=> Joins(d, w)
    BY <1>3 DEF Joins, Top
  <2>4. JoinPending'
    BY <1>3, <2>2, <2>3 DEF LifeInv, Pending, JoinPending
  <2>5. StartPending'
    <3> PICK v \in Writers : v = instance
      BY <2>1
    <3>1. ASSUME NEW s \in Clients, pc'[s] = "spawn"
          PROVE  tmp'[s] = v
      BY <1>3, <2>1, <3>1 DEF LockInv, TypeOK
    <3>2. joinable[v] => \E d \in Clients : Joins(d, v)'
      BY <1>3, <2>1, <2>3 DEF LifeInv, Pending, JoinPending
    <3>3. ASSUME NEW s \in Clients, pc'[s] = "spawn"
          PROVE  /\ running'[tmp'[s]]
                 /\ joinable'[tmp'[s]] => \E d \in Clients : Joins(d, tmp[s])'
      BY <1>3, <2>2, <3>1, <3>2, <3>3
    <3> QED BY <3>3 DEF StartPending
  <2>6. Unjoinable'
    BY <1>3 DEF LifeInv, Pending, Unjoinable
  <2>7. Ends'
    BY <1>3, <2>2, EndsSame DEF LifeInv
  <2> QED BY <2>4, <2>5, <2>6, <2>7 DEF LifeInv, Pending
<1> QED BY <1>1, <1>2, <1>3 DEF CheckRunning, Goto

LEMMA LifeSpawn ==
  ASSUME TypeOK, OwnerInv, LockInv, LifeInv, NEW c \in Clients, Spawn(c) PROVE LifeInv'
<1>1. CASE \E kind \in {"dangling", "terminate"} : Fail(kind)
  BY <1>1, LifeFail
<1> DEFINE w == tmp[c]
<1>2. ASSUME life[w] = "live", joinable' = [joinable EXCEPT ![w] = TRUE],
             pc' = [pc EXCEPT ![c] = "load"], UNCHANGED <<life, running, stack>>
      PROVE  LifeInv'
  <2>1. pc[c] = "spawn" /\ w \in Writers
    BY DEF Spawn, In, OwnerInv, TempInv
  <2>2. \A v \in Writers : v # w => joinable'[v] = joinable[v]
    BY <1>2, <2>1 DEF TypeOK
  <2>3. \A d \in Clients, v \in Writers : Joins(d, v)' <=> Joins(d, v)
    BY <1>2 DEF Joins, Top
  <2>4. ~running[w] => \E d \in Clients : Joins(d, w)
    BY <1>2, <2>1 DEF LifeInv, Pending, StartPending
  <2> HIDE DEF w
  <2>5. JoinPending'
    BY <1>2, <2>1, <2>2, <2>3, <2>4 DEF LifeInv, Pending, JoinPending
  <2>6. StartPending'
    <3>1. \A s \in Clients : pc'[s] # "spawn"
      BY <1>2, <2>1 DEF LockInv, TypeOK
    <3> QED BY <3>1 DEF StartPending
  <2>7. Unjoinable'
    BY <1>2, <2>1, <2>2 DEF LifeInv, Pending, Unjoinable
  <2>8. Ends'
    <3>1. \A v \in Writers : Gone(v) /\ joinable'[v] => joinable[v]
      BY <1>2, <2>2 DEF Gone
    <3> QED BY <1>2, <3>1, EndsSame DEF LifeInv
  <2> QED BY <2>5, <2>6, <2>7, <2>8 DEF LifeInv, Pending
<1> QED BY <1>1, <1>2 DEF Spawn, Goto

\* A client that is not in stop() does not join.
LEMMA NotJoining ==
  ASSUME TypeOK, OwnerInv, NEW c \in Clients,
         \/ pc[c] # "stop"
         \/ stack[c] # <<>> /\ Top(c).at \notin {"flush", "join"}
  PROVE  \A w \in Writers : ~Joins(c, w)
BY JoinerIs DEF Joins

LEMMA LifeReference ==
  ASSUME TypeOK, OwnerInv, LifeInv, NEW c \in Clients, AddReference(c) PROVE LifeInv'
<1>1. CASE \E kind \in {"dangling", "null"} : Fail(kind)
  BY <1>1, LifeFail
<1>2. pc[c] = "ref"
  BY DEF AddReference, In
<1>3. ASSUME pc' = [pc EXCEPT ![c] = "idle"], tmp' = [tmp EXCEPT ![c] = NoWriter],
             UNCHANGED <<life, running, joinable, stack>>
      PROVE  LifeInv'
  <2>1. \A s \in Clients : pc'[s] = "spawn" => pc[s] = "spawn" /\ tmp'[s] = tmp[s]
    BY <1>3 DEF TypeOK
  <2> QED BY <1>3, <2>1, LifeQuiet
<1> DEFINE w == tmp[c]
           f == Activation(w, FALSE)
<1>4. ASSUME w # NoWriter, stack' = [stack EXCEPT ![c] = <<f>>],
             pc' = [pc EXCEPT ![c] = "stop"], UNCHANGED <<tmp, life, running, joinable>>
      PROVE  LifeInv'
  <2>1. f.dtor = FALSE
    BY DEF Activation
  <2> HIDE DEF f
  <2>2. stack'[c] = <<f>> /\ \A d \in Clients \ {c} : stack'[d] = stack[d]
    BY <1>4 DEF TypeOK
  <2>3. JoinsKept
    BY <1>2, <2>2, NotJoining, JoinsKeep
  <2>4. \A s \in Clients : pc'[s] = "spawn" => pc[s] = "spawn"
    BY <1>4 DEF TypeOK
  <2>5. JoinPending' /\ StartPending'
    BY <1>4, <2>3, <2>4, PendingKept DEF LifeInv
  <2>6. Unjoinable'
    BY <1>4 DEF LifeInv, Pending, Unjoinable
  <2>7. EndsWith(c)
    BY <2>1, <2>2 DEF EndsWith
  <2>8. Ends'
    BY <1>4, <2>2, <2>7, EndsKept DEF LifeInv
  <2> QED BY <2>5, <2>6, <2>8 DEF LifeInv, Pending
<1> QED BY <1>1, <1>3, <1>4 DEF AddReference, Goto, Return, writerVars

LEMMA LifeOther ==
  ASSUME TypeOK, OwnerInv, LifeInv, NEW c \in Clients,
         LoadInstance(c) \/ SetLogger(c) \/ Log(c) \/ Enqueue(c) \/ Flushed(c)
  PROVE  LifeInv'
<1>1. CASE Fail("null")
  BY <1>1, LifeFail
<1>2. ASSUME pc' = [pc EXCEPT ![c] = "ref"], tmp' = [tmp EXCEPT ![c] = instance],
             UNCHANGED <<life, running, joinable, stack>>
      PROVE  LifeInv'
  <2>1. \A s \in Clients : pc'[s] = "spawn" => pc[s] = "spawn" /\ tmp'[s] = tmp[s]
    BY <1>2 DEF TypeOK
  <2> QED BY <1>2, <2>1, LifeQuiet
<1>3. ASSUME pc' = pc \/ pc' = [pc EXCEPT ![c] = "idle"],
             UNCHANGED <<tmp, life, running, joinable, stack>>
      PROVE  LifeInv'
  <2>1. \A s \in Clients : pc'[s] = "spawn" => pc[s] = "spawn"
    BY <1>3 DEF TypeOK
  <2> QED BY <1>3, <2>1, LifeQuiet
<1>4. CASE LoadInstance(c)
  BY <1>2, <1>4 DEF LoadInstance, Goto, writerVars
<1>5. CASE SetLogger(c)
  BY <1>1, <1>3, <1>5 DEF SetLogger, Return
<1>6. CASE Log(c) \/ Enqueue(c) \/ Flushed(c)
  BY <1>1, <1>3, <1>6 DEF Log, Enqueue, Flushed, Return, writerVars, clientVars
<1> QED BY <1>4, <1>5, <1>6

\* stop() goes on: the frames of its client stay in order if the top one does.
LEMMA EndsReplace ==
  ASSUME TypeOK, OwnerInv, Ends, NEW c \in Clients, stack[c] # <<>>, NEW f \in Frame,
         Replace(c, <<f>>), f.w = Top(c).w, f.dtor = Top(c).dtor,
         EndOK(f, joinable', running'),
         \A w \in Writers : joinable'[w] => joinable[w],
         \A d \in Clients \ {c} : \A i \in DOMAIN stack[d] :
           stack[d][i].dtor /\ running[stack[d][i].w] => running'[stack[d][i].w]
  PROVE  Ends'
<1> DEFINE fs == <<f>> \o Tail(stack[c])
<1>1. /\ DOMAIN fs = DOMAIN stack[c] /\ fs[1] = f
      /\ \A i \in DOMAIN stack[c] : i # 1 => fs[i] = stack[c][i]
  BY TopReplaced
<1>2. stack' = [stack EXCEPT ![c] = fs]
  BY DEF Replace
<1> HIDE DEF fs
<1>3. stack'[c] = fs /\ \A d \in Clients \ {c} : stack'[d] = stack[d]
  BY <1>2 DEF TypeOK
<1>4. Top(c) = stack[c][1]
  BY TopOfStack
<1>5. ASSUME NEW i \in DOMAIN stack[c], fs[i].dtor
      PROVE  /\ EndOK(fs[i], joinable', running')
             /\ stack[c][i].dtor /\ stack[c][i].w = fs[i].w
  <2>1. CASE i = 1
    BY <1>1, <1>4, <1>5, <2>1
  <2>2. CASE i # 1
    <3>1. fs[i] = stack[c][i] /\ EndOK(stack[c][i], joinable, running)
      BY <1>1, <2>2 DEF Ends, Ending
    <3>2. stack[c][i].at = "ret"
      BY <2>2 DEF OwnerInv, FramesInv, FramesOK, FrameOK
    <3>3. stack[c][i].w \in Writers
      BY StackType
    <3> QED BY <1>5, <3>1, <3>2, <3>3 DEF EndOK
  <2> QED BY <2>1, <2>2
<1>6. EndsWith(c)
  BY <1>1, <1>3, <1>5 DEF EndsWith
<1> QED BY <1>3, <1>6, EndsKept

\* The steps that read the flag and the queue, and flush.
LEMMA LifeMove ==
  ASSUME TypeOK, OwnerInv, LifeInv, NEW c \in Clients, stack[c] # <<>>, NEW f \in Frame,
         Replace(c, <<f>>), f.w = Top(c).w, f.dtor = Top(c).dtor,
         UNCHANGED <<life, running, joinable, pc, tmp>>,
         \/ Top(c).at = "check" /\ ~running[Top(c).w] /\ f.at = "ret"
         \/ Top(c).at \in {"check", "wait"} /\ f.at \in {"wait", "clear"}
         \/ Top(c).at = "flush" /\ f.at = "join"
  PROVE  LifeInv'
<1>1. stack'[c] = <<f>> \o Tail(stack[c]) /\ \A d \in Clients \ {c} : stack'[d] = stack[d]
  BY DEF Replace, TypeOK
<1>2. Top(c)' = f /\ stack'[c] # <<>>
  BY <1>1, TopReplaced DEF Top
<1>3. JoinsKept
  <2>1. ASSUME NEW w \in Writers, Joins(c, w) PROVE Joins(c, w)'
    BY <1>2, <2>1 DEF Joins
  <2>2. ASSUME NEW d \in Clients, d # c, NEW w \in Writers, Joins(d, w) PROVE Joins(d, w)'
    BY <1>1, <2>2 DEF Joins, Top
  <2> QED BY <2>1, <2>2 DEF JoinsKept
<1>4. JoinPending' /\ StartPending'
  BY <1>3, PendingKept DEF LifeInv
<1>5. Unjoinable'
  BY DEF LifeInv, Pending, Unjoinable
<1>6. EndOK(f, joinable, running)
  <2>1. EndOK(Top(c), joinable, running)
    BY TopOfStack DEF LifeInv, Ends, Ending
  <2> QED BY <2>1 DEF EndOK
<1>7. Ends'
  BY <1>6, EndsReplace DEF LifeInv
<1> QED BY <1>4, <1>5, <1>7 DEF LifeInv, Pending

LEMMA LifeStop ==
  ASSUME TypeOK, OwnerInv, LifeInv, NEW c \in Clients,
         StopCheck(c) \/ StopDrained(c) \/ StopFlush(c)
  PROVE  LifeInv'
<1>1. stack[c] # <<>>
  BY DEF StopCheck, StopDrained, StopFlush, At
<1>2. Top(c) \in Frame /\ Top(c).w \in Writers
  BY <1>1, TopOfStack
<1>3. ASSUME NEW place \in {"wait", "ret", "join"}, Move(c, place),
             UNCHANGED <<life, running, joinable, pc, tmp>>,
             \/ Top(c).at = "check" /\ place = IF running[Top(c).w] THEN "wait" ELSE "ret"
             \/ Top(c).at = "flush" /\ place = "join"
      PROVE  LifeInv'
  <2> DEFINE f == [Top(c) EXCEPT !.at = place]
  <2>1. f \in Frame /\ f.w = Top(c).w /\ f.dtor = Top(c).dtor /\ f.at = place
    BY <1>2 DEF Frame
  <2>2. Replace(c, <<f>>)
    BY <1>3 DEF Move
  <2> HIDE DEF f
  <2> QED BY <1>1, <1>3, <2>1, <2>2, LifeMove
<1>4. CASE StopCheck(c)
  BY <1>3, <1>4 DEF StopCheck, At, writerVars
<1>5. CASE StopFlush(c)
  BY <1>3, <1>5, LifeFail DEF StopFlush, At, writerVars
<1>6. CASE StopDrained(c)
  <2> DEFINE n == Len(accepted[Top(c).w])
             f == [Top(c) EXCEPT !.at = "clear", !.seen = n]
  <2>1. Top(c).at = "wait" /\ Replace(c, <<f>>) /\ UNCHANGED <<life, running, joinable, pc, tmp>>
    BY <1>6 DEF StopDrained, At, writerVars
  <2>2. n \in Nat
    BY <1>2, LenProperties DEF TypeOK
  <2> HIDE DEF n
  <2>3. f \in Frame /\ f.w = Top(c).w /\ f.dtor = Top(c).dtor /\ f.at = "clear"
    BY <1>2, <2>2 DEF Frame
  <2> HIDE DEF f
  <2> QED BY <1>1, <2>1, <2>3, LifeMove
<1> QED BY <1>4, <1>5, <1>6

\* m_running is cleared: by a called stop(), which will join, or by ~LogWriter().
LEMMA LifeClear ==
  ASSUME TypeOK, OwnerInv, LifeInv, NEW c \in Clients, StopClear(c) PROVE LifeInv'
<1>1. PICK w : w = Top(c).w
  OBVIOUS
<1> DEFINE f == [Top(c) EXCEPT !.at = "flush"]
<1>2. /\ stack[c] # <<>> /\ Top(c).at = "clear" /\ Replace(c, <<f>>)
      /\ running' = [running EXCEPT ![w] = FALSE] /\ UNCHANGED <<life, joinable, pc, tmp>>
  BY <1>1 DEF StopClear, At, Move
<1>3. /\ Top(c) \in Frame /\ w \in Writers /\ Top(c) = stack[c][1] /\ 1 \in DOMAIN stack[c]
  BY <1>1, <1>2, TopOfStack
<1>4. f \in Frame /\ f.w = w /\ f.dtor = Top(c).dtor /\ f.at = "flush"
  BY <1>1, <1>3 DEF Frame
<1> HIDE DEF f
<1>5. stack'[c] = <<f>> \o Tail(stack[c]) /\ \A d \in Clients \ {c} : stack'[d] = stack[d]
  BY <1>2 DEF Replace, TypeOK
<1>6. Top(c)' = f /\ stack'[c] # <<>>
  BY <1>2, <1>4, <1>5, TopReplaced DEF Top
<1>7. \A v \in Writers : ~Joins(c, v)
  BY <1>2, NotJoining
<1>8. JoinsKept
  BY <1>5, <1>7, JoinsKeep
<1>9. ~running'[w] /\ \A v \in Writers : v # w => running'[v] = running[v]
  BY <1>2, <1>3 DEF TypeOK
<1>10. f.dtor => Gone(w)
  BY <1>1, <1>3, <1>4, EndingWriter
<1>11. ~f.dtor => Joins(c, w)'
  BY <1>4, <1>6 DEF Joins
<1>12. JoinPending' /\ StartPending'
  <2>1. CASE f.dtor
    <3>1. life[w] # "live"
      BY <1>10, <2>1 DEF Gone
    <3>2. \A v \in Writers : life[v] = "live" => running'[v] = running[v]
      BY <1>9, <3>1
    <3>3. \A s \in Clients : pc[s] = "spawn" => tmp[s] \in Writers
      BY DEF OwnerInv, TempInv
    <3> QED BY <1>2, <1>8, <3>2, <3>3, PendingKept DEF LifeInv
  <2>2. ASSUME ~f.dtor PROVE JoinPending'
    BY <1>2, <1>3, <1>8, <1>9, <1>11, <2>2 DEF LifeInv, Pending, JoinPending, JoinsKept
  <2>3. ASSUME ~f.dtor PROVE StartPending'
    <3>1. ASSUME NEW s \in Clients, pc[s] = "spawn", life[tmp[s]] = "live"
          PROVE  /\ ~running'[tmp[s]] \/ joinable[tmp[s]] =>
                      \E d \in Clients : Joins(d, tmp[s])'
                 /\ ~running'[tmp[s]] /\ joinable[tmp[s]] =>
                      \E d, e \in Clients : d # e /\ Joins(d, tmp[s])' /\ Joins(e, tmp[s])'
      <4> PICK v \in Writers : v = tmp[s]
        BY <3>1 DEF OwnerInv, TempInv
      <4>1. /\ ~running[v] \/ joinable[v] => \E d \in Clients : Joins(d, v)
            /\ ~running[v] /\ joinable[v] =>
                 \E d, e \in Clients : d # e /\ Joins(d, v) /\ Joins(e, v)
        BY <3>1 DEF LifeInv, Pending, StartPending
      <4>2. tmp'[s] = v
        BY <1>2
      <4>3. CASE v = w
        <5>1. joinable[v] => \E e \in Clients : e # c /\ Joins(e, v)'
          BY <1>7, <1>8, <4>1 DEF JoinsKept
        <5>2. Joins(c, v)'
          BY <1>11, <2>3, <4>3
        <5>3. joinable[v] => \E d, e \in Clients : d # e /\ Joins(d, v)' /\ Joins(e, v)'
          BY <5>1, <5>2
        <5> QED BY <4>2, <5>2, <5>3
      <4>4. CASE v # w
        <5>1. running'[v] = running[v]
          BY <1>9, <4>4
        <5>2. /\ ~running[v] \/ joinable[v] => \E d \in Clients : Joins(d, v)'
              /\ ~running[v] /\ joinable[v] =>
                   \E d, e \in Clients : d # e /\ Joins(d, v)' /\ Joins(e, v)'
          BY <1>8, <4>1 DEF JoinsKept
        <5> QED BY <4>2, <5>1, <5>2
      <4> QED BY <4>3, <4>4
    <3> QED BY <1>2, <3>1 DEF StartPending
  <2> QED BY <2>1, <2>2, <2>3
<1>13. Unjoinable'
  BY <1>2 DEF LifeInv, Pending, Unjoinable
<1>14. ASSUME NEW d \in Clients \ {c}, NEW i \in DOMAIN stack[d],
              stack[d][i].dtor, running[stack[d][i].w]
       PROVE  running'[stack[d][i].w]
  <2>1. stack[d][i].w \in Writers /\ Gone(stack[d][i].w)
    BY <1>14, EndingWriter
  <2>2. stack[d][i].w # w
    <3>1. CASE f.dtor
      BY <1>1, <1>3, <1>4, <1>14, <3>1 DEF LifeInv, Ends, Unique
    <3>2. CASE ~f.dtor
      <4>1. FrameOK(stack[c][1], 1, Len(stack[c]), pc[c], tmp[c], life)
        BY <1>3 DEF OwnerInv, FramesInv, FramesOK
      <4>2. pc[c] = "stop" /\ tmp[c] = w /\ w # NoWriter
        BY <1>1, <1>3, <1>4, <3>2, <4>1, ConstantsAssumption DEF FrameOK, ConstantsAssumption
      <4> QED BY <2>1, <4>2 DEF OwnerInv, LiveOwned, Gone
    <3> QED BY <3>1, <3>2
  <2> QED BY <1>9, <1>14, <2>1, <2>2
<1>15. Ends'
  <2>1. EndOK(f, joinable', running')
    BY <1>4 DEF EndOK
  <2> QED BY <1>1, <1>2, <1>4, <1>14, <2>1, EndsReplace DEF LifeInv
<1> QED BY <1>12, <1>13, <1>15 DEF LifeInv, Pending

LEMMA LifeJoin ==
  ASSUME TypeOK, OwnerInv, LifeInv, NEW c \in Clients, StopJoin(c) PROVE LifeInv'
<1>1. PICK w : w = Top(c).w
  OBVIOUS
<1> DEFINE f == [Top(c) EXCEPT !.at = "reset"]
<1>2. CASE Fail("terminate")
  BY <1>2, LifeFail
<1>3. stack[c] # <<>> /\ Top(c).at = "join"
  BY DEF StopJoin, At
<1>4. /\ Top(c) \in Frame /\ w \in Writers /\ Top(c) = stack[c][1] /\ 1 \in DOMAIN stack[c]
  BY <1>1, <1>3, TopOfStack
<1>5. f \in Frame /\ f.w = w /\ f.dtor = Top(c).dtor /\ f.at = "reset"
  BY <1>1, <1>4 DEF Frame
<1> HIDE DEF f
<1>6. ASSUME joinable[w], joinable' = [joinable EXCEPT ![w] = FALSE], Replace(c, <<f>>),
             UNCHANGED <<life, running, pc, tmp>>
      PROVE  LifeInv'
  <2>1. ~joinable'[w] /\ \A v \in Writers : v # w => joinable'[v] = joinable[v]
    BY <1>4, <1>6 DEF TypeOK
  <2>2. \A d \in Clients \ {c} : stack'[d] = stack[d]
    BY <1>6 DEF Replace, TypeOK
  <2>3. \A d \in Clients, v \in Writers : Joins(d, v) /\ (d # c \/ v # w) => Joins(d, v)'
    BY <1>1, <2>2 DEF Joins, Top
  <2>4. JoinPending'
    BY <1>6, <2>1, <2>3 DEF LifeInv, Pending, JoinPending
  <2>5. StartPending'
    <3>1. ASSUME NEW s \in Clients, pc[s] = "spawn", life[tmp[s]] = "live"
          PROVE  /\ ~running[tmp[s]] \/ joinable'[tmp[s]] =>
                      \E d \in Clients : Joins(d, tmp[s])'
                 /\ ~running[tmp[s]] /\ joinable'[tmp[s]] =>
                      \E d, e \in Clients : d # e /\ Joins(d, tmp[s])' /\ Joins(e, tmp[s])'
      <4> PICK v \in Writers : v = tmp[s]
        BY <3>1 DEF OwnerInv, TempInv
      <4>1. /\ ~running[v] \/ joinable[v] => \E d \in Clients : Joins(d, v)
            /\ ~running[v] /\ joinable[v] =>
                 \E d, e \in Clients : d # e /\ Joins(d, v) /\ Joins(e, v)
        BY <3>1 DEF LifeInv, Pending, StartPending
      <4>2. tmp'[s] = v
        BY <1>6
      <4>3. CASE v = w
        <5>1. ~running[v] => \E d \in Clients : d # c /\ Joins(d, v)
          BY <1>6, <4>1, <4>3
        <5>2. ~running[v] => \E d \in Clients : Joins(d, v)'
          BY <2>3, <5>1
        <5> QED BY <2>1, <4>2, <4>3, <5>2
      <4>4. CASE v # w
        <5>1. joinable'[v] = joinable[v]
          BY <2>1, <4>4
        <5>2. /\ ~running[v] \/ joinable[v] => \E d \in Clients : Joins(d, v)'
              /\ ~running[v] /\ joinable[v] =>
                   \E d, e \in Clients : d # e /\ Joins(d, v)' /\ Joins(e, v)'
          BY <2>3, <4>1, <4>4
        <5> QED BY <4>2, <5>1, <5>2
      <4> QED BY <4>3, <4>4
    <3> QED BY <1>6, <3>1 DEF StartPending
  <2>6. Unjoinable'
    BY <1>6, <2>1 DEF LifeInv, Pending, Unjoinable
  <2>7. Ends'
    <3>1. EndOK(f, joinable', running')
      BY <1>5, <2>1 DEF EndOK
    <3>2. \A v \in Writers : joinable'[v] => joinable[v]
      BY <1>6, <2>1
    <3> QED BY <1>1, <1>3, <1>5, <1>6, <3>1, <3>2, EndsReplace DEF LifeInv
  <2> QED BY <2>4, <2>5, <2>6, <2>7 DEF LifeInv, Pending
<1> QED BY <1>1, <1>2, <1>6 DEF StopJoin, Move, f

\* A writer that is owned by nobody but o has a worker only if m_running says so: a
\* client that still has to join would own it.
LEMMA LastOwnerJoined ==
  ASSUME TypeOK, OwnerInv, LifeInv, NEW c \in Clients, NEW w \in Writers, NEW o,
         LastOwner(w, o), o \in Clients => o = c, \A v \in Writers : ~Joins(c, v)
  PROVE  life[w] = "live" /\ (joinable[w] => running[w])
<1>1. Owners(w) # {}
  BY DEF LastOwner
<1>2. life[w] = "live"
  BY <1>1, LiveOwnedIs DEF OwnerInv, OwnedIsLive
<1>3. ASSUME NEW d \in Clients, Joins(d, w) PROVE FALSE
  <2>1. pc[d] = "stop" /\ tmp[d] = w
    BY <1>3, JoinerIs
  <2>2. o = d
    BY <2>1, LastOwnerAlone
  <2> QED BY <1>3, <2>2
<1> QED BY <1>2, <1>3 DEF LifeInv, Pending, JoinPending

\* A reference is dropped: whoever drops the last one begins the only ~LogWriter().
LEMMA LifeDrop ==
  ASSUME TypeOK, OwnerInv, LifeInv, NEW c \in Clients, NEW w \in Writers \cup {NoWriter},
         NEW o, o \in Clients => o = c, NEW fs \in Seq(Frame), Drop(c, w, o, fs),
         UNCHANGED <<running, joinable>>, NEW t, tmp' = [tmp EXCEPT ![c] = t],
         \A v \in Writers : ~Joins(c, v),
         \A i \in DOMAIN fs : fs[i].dtor =>
           /\ EndOK(fs[i], joinable, running)
           /\ \E j \in DOMAIN stack[c] : stack[c][j].dtor /\ stack[c][j].w = fs[i].w
  PROVE  LifeInv'
<1>1. PICK p \in {"idle", "stop"} : pc' = [pc EXCEPT ![c] = p]
  BY DropGoes
<1>2. ASSUME NEW s \in Clients, pc'[s] = "spawn" PROVE pc[s] = "spawn" /\ tmp'[s] = tmp[s]
  BY <1>1, <1>2 DEF TypeOK
<1>3. ASSUME NEW gs, stack' = [stack EXCEPT ![c] = gs],
             \A v \in Writers : life'[v] # life[v] => life'[v] = "dying",
             \A i \in DOMAIN gs : gs[i].dtor =>
               /\ EndOK(gs[i], joinable, running)
               /\ \/ gs[i].w \in Writers /\ ~Gone(gs[i].w)
                  \/ \E j \in DOMAIN stack[c] : stack[c][j].dtor /\ stack[c][j].w = gs[i].w
      PROVE  LifeInv'
  <2>1. stack'[c] = gs /\ \A d \in Clients \ {c} : stack'[d] = stack[d]
    BY <1>3 DEF TypeOK
  <2>2. JoinsKept
    BY <2>1, JoinsKeep
  <2>3. \A s \in Clients : pc[s] = "spawn" => tmp[s] \in Writers
    BY DEF OwnerInv, TempInv
  <2>4. JoinPending' /\ StartPending'
    BY <1>2, <1>3, <2>2, <2>3, PendingKept DEF LifeInv
  <2>5. Unjoinable'
    BY <1>3 DEF LifeInv, Pending, Unjoinable
  <2>6. EndsWith(c)
    BY <1>3, <2>1 DEF EndsWith
  <2>7. Ends'
    BY <2>1, <2>6, EndsKept DEF LifeInv
  <2> QED BY <2>4, <2>5, <2>7 DEF LifeInv, Pending
<1>4. CASE LastOwner(w, o)
  <2> DEFINE f == Activation(w, TRUE)
             gs == <<f>> \o fs
  <2>1. w \in Writers
    BY <1>4, LastOwnerAlone
  <2>2. life[w] = "live" /\ (joinable[w] => running[w])
    BY <1>4, <2>1, LastOwnerJoined
  <2>3. f \in Frame /\ f.w = w /\ f.dtor = TRUE /\ f.at = "check"
    BY <2>1, NewActivation
  <2>4. stack' = [stack EXCEPT ![c] = gs] /\ life' = [life EXCEPT ![w] = "dying"]
    BY <1>4 DEF Drop
  <2> HIDE DEF f
  <2>5. /\ DOMAIN gs = 1 .. Len(fs) + 1 /\ gs[1] = f /\ Len(fs) \in Nat
        /\ \A i \in 2 .. Len(fs) + 1 : i - 1 \in 1 .. Len(fs) /\ gs[i] = fs[i - 1]
    BY <2>3, OnTop
  <2>6. DOMAIN fs = 1 .. Len(fs)
    BY LenProperties
  <2> HIDE DEF gs
  <2>7. \A v \in Writers : life'[v] # life[v] => life'[v] = "dying"
    BY <2>1, <2>4 DEF TypeOK
  <2>8. ASSUME NEW i \in DOMAIN gs, gs[i].dtor
        PROVE  /\ EndOK(gs[i], joinable, running)
               /\ \/ gs[i].w \in Writers /\ ~Gone(gs[i].w)
                  \/ \E j \in DOMAIN stack[c] : stack[c][j].dtor /\ stack[c][j].w = gs[i].w
    <3>1. CASE i = 1
      BY <2>1, <2>2, <2>3, <2>5, <3>1 DEF EndOK, Gone
    <3>2. CASE i # 1
      <4>1. i - 1 \in DOMAIN fs /\ gs[i] = fs[i - 1]
        BY <2>5, <2>6, <3>2
      <4> QED BY <2>8, <4>1
    <3> QED BY <3>1, <3>2
  <2> QED BY <1>3, <2>4, <2>7, <2>8
<1>5. CASE ~LastOwner(w, o)
  <2>1. life' = life /\ stack' = [stack EXCEPT ![c] = fs]
    BY <1>5 DEF Drop
  <2> QED BY <1>3, <2>1
<1> QED BY <1>4, <1>5

LEMMA LifeClose ==
  ASSUME TypeInv, OwnerInv, LifeInv, NEW c \in Clients, Close(c) PROVE LifeInv'
<1> DEFINE h == Call(c).h
<1>1. /\ TypeOK /\ pc[c] = "idle" /\ tmp' = tmp /\ UNCHANGED <<running, joinable>>
      /\ Drop(c, mgr[h], h, <<>>)
  BY DEF Close, Calling, TypeInv
<1>2. h \in Handles
  BY CallTypes DEF Close, Calling, TypeInv
<1> HIDE DEF h
<1>3. h \notin Clients
  BY <1>2, ConstantsAssumption DEF ConstantsAssumption
<1>4. mgr[h] \in Writers \cup {NoWriter} /\ tmp' = [tmp EXCEPT ![c] = tmp[c]]
  BY <1>1, <1>2 DEF TypeOK
<1>5. \A v \in Writers : ~Joins(c, v)
  BY <1>1, NotJoining
<1>6. <<>> \in Seq(Frame) /\ DOMAIN <<>> = {}
  OBVIOUS
<1>7. \A i \in DOMAIN <<>> : <<>>[i].dtor =>
        /\ EndOK(<<>>[i], joinable, running)
        /\ \E j \in DOMAIN stack[c] : stack[c][j].dtor /\ stack[c][j].w = <<>>[i].w
  BY <1>6
<1> QED BY <1>1, <1>3, <1>4, <1>5, <1>6, <1>7, LifeDrop

LEMMA LifeReset ==
  ASSUME TypeOK, OwnerInv, LifeInv, NEW c \in Clients, StopReset(c) PROVE LifeInv'
<1> DEFINE f == [Top(c) EXCEPT !.at = "ret"]
           fs == <<f>> \o Tail(stack[c])
<1>1. /\ stack[c] # <<>> /\ Top(c).at = "reset" /\ tmp' = tmp
      /\ UNCHANGED <<running, joinable>> /\ Drop(c, instance, "instance", fs)
  BY DEF StopReset, At
<1>2. Top(c) \in Frame /\ Top(c) = stack[c][1] /\ 1 \in DOMAIN stack[c]
  BY <1>1, TopOfStack
<1>3. f \in Frame /\ f.w = Top(c).w /\ f.dtor = Top(c).dtor /\ f.at = "ret"
  BY <1>2 DEF Frame
<1> HIDE DEF f
<1>4. /\ fs \in Seq(Frame) /\ DOMAIN fs = DOMAIN stack[c] /\ fs[1] = f
      /\ \A i \in DOMAIN stack[c] : i # 1 => fs[i] = stack[c][i]
  BY <1>1, <1>3, TopReplaced
<1> HIDE DEF fs
<1>5. ASSUME NEW i \in DOMAIN fs
      PROVE  /\ EndOK(fs[i], joinable, running)
             /\ fs[i].dtor = stack[c][i].dtor /\ fs[i].w = stack[c][i].w
  <2>1. EndOK(stack[c][i], joinable, running)
    BY <1>4 DEF LifeInv, Ends, Ending
  <2>2. CASE i = 1
    BY <1>1, <1>2, <1>3, <1>4, <2>1, <2>2 DEF EndOK
  <2>3. CASE i # 1
    BY <1>4, <2>1, <2>3
  <2> QED BY <2>2, <2>3
<1>6. \A i \in DOMAIN fs : fs[i].dtor =>
        /\ EndOK(fs[i], joinable, running)
        /\ \E j \in DOMAIN stack[c] : stack[c][j].dtor /\ stack[c][j].w = fs[i].w
  BY <1>4, <1>5
<1>7. \A v \in Writers : ~Joins(c, v)
  BY <1>1, NotJoining
<1>8. instance \in Writers \cup {NoWriter} /\ tmp' = [tmp EXCEPT ![c] = tmp[c]]
  BY <1>1 DEF TypeOK
<1>9. "instance" \notin Clients
  BY ConstantsAssumption DEF ConstantsAssumption
<1> QED BY <1>1, <1>4, <1>6, <1>7, <1>8, <1>9, LifeDrop

LEMMA LifeReturn ==
  ASSUME TypeOK, OwnerInv, LifeInv, NEW c \in Clients, StopReturn(c) PROVE LifeInv'
<1> DEFINE fs == Tail(stack[c])
<1>1. /\ stack[c] # <<>> /\ Top(c).at = "ret" /\ tmp' = [tmp EXCEPT ![c] = NoWriter]
      /\ UNCHANGED <<running, joinable>> /\ Drop(c, Top(c).w, c, fs)
  BY DEF StopReturn, At
<1>2. /\ Top(c).w \in Writers /\ fs \in Seq(Frame) /\ DOMAIN fs = 1 .. Len(stack[c]) - 1
      /\ \A i \in 1 .. Len(stack[c]) - 1 : fs[i] = stack[c][i + 1]
  BY <1>1, TopOfStack
<1> HIDE DEF fs
<1>3. ASSUME NEW i \in DOMAIN fs
      PROVE  i + 1 \in DOMAIN stack[c] /\ fs[i] = stack[c][i + 1]
  BY <1>2, StackType
<1>4. \A i \in DOMAIN fs : fs[i].dtor =>
        /\ EndOK(fs[i], joinable, running)
        /\ \E j \in DOMAIN stack[c] : stack[c][j].dtor /\ stack[c][j].w = fs[i].w
  BY <1>3 DEF LifeInv, Ends, Ending
<1>5. \A v \in Writers : ~Joins(c, v)
  BY <1>1, NotJoining
<1> QED BY <1>1, <1>2, <1>4, <1>5, LifeDrop

\* Whoever destroys a writer has joined its worker, or there was none.
LEMMA LifeDestroy ==
  ASSUME TypeOK, OwnerInv, LifeInv, NEW c \in Clients, Destroy(c) PROVE LifeInv'
<1>1. PICK w : w = Top(c).w
  OBVIOUS
<1> DEFINE fs == Tail(stack[c])
<1>2. /\ stack[c] # <<>> /\ Top(c).at = "ret" /\ Top(c).dtor
      /\ life' = [life EXCEPT ![w] = "dead"] /\ stack' = [stack EXCEPT ![c] = <<>> \o fs]
      /\ UNCHANGED <<running, joinable, tmp>>
      /\ \E p \in {"idle", "stop"} : pc' = [pc EXCEPT ![c] = p]
  BY <1>1 DEF Destroy, At, Replace, Return, Goto
<1>3. /\ w \in Writers /\ Top(c) = stack[c][1] /\ 1 \in DOMAIN stack[c]
      /\ fs \in Seq(Frame) /\ DOMAIN fs = 1 .. Len(stack[c]) - 1
      /\ \A i \in 1 .. Len(stack[c]) - 1 : fs[i] = stack[c][i + 1]
  BY <1>1, <1>2, TopOfStack
<1> HIDE DEF fs
<1>4. <<>> \o fs = fs
  BY <1>3
<1>5. stack'[c] = fs /\ \A d \in Clients \ {c} : stack'[d] = stack[d]
  BY <1>2, <1>4 DEF TypeOK
<1>6. JoinsKept
  <2>1. \A v \in Writers : ~Joins(c, v)
    BY <1>2, NotJoining
  <2> QED BY <1>5, <2>1, JoinsKeep
<1>7. ~joinable[w]
  <2>1. EndOK(stack[c][1], joinable, running)
    BY <1>3 DEF LifeInv, Ends, Ending
  <2> QED BY <1>1, <1>2, <1>3, <2>1 DEF EndOK
<1>8. \A v \in Writers : life'[v] # life[v] => v = w /\ life'[v] = "dead"
  BY <1>2, <1>3 DEF TypeOK
<1>9. \A s \in Clients : pc'[s] = "spawn" => pc[s] = "spawn" /\ tmp[s] \in Writers
  BY <1>2 DEF TypeOK, OwnerInv, TempInv
<1>10. JoinPending' /\ StartPending'
  BY <1>2, <1>6, <1>8, <1>9, PendingKept DEF LifeInv
<1>11. Unjoinable'
  BY <1>2, <1>7, <1>8 DEF LifeInv, Pending, Unjoinable
<1>12. ASSUME NEW i \in DOMAIN fs PROVE i + 1 \in DOMAIN stack[c] /\ fs[i] = stack[c][i + 1]
  BY <1>3, StackType
<1>13. EndsWith(c)
  BY <1>2, <1>5, <1>12 DEF EndsWith, LifeInv, Ends, Ending
<1>14. Ends'
  BY <1>2, <1>5, <1>13, EndsKept DEF LifeInv
<1> QED BY <1>10, <1>11, <1>14 DEF LifeInv, Pending

LEMMA LifeWorker ==
  ASSUME TypeOK, OwnerInv, LifeInv, NEW w \in Writers, WorkerStep(w) PROVE LifeInv'
<1>1. CASE \E kind \in {"null", "dangling"} : Fail(kind)
  BY <1>1, LifeFail
<1>2. CASE WorkerRest
  BY <1>2, LifeQuiet DEF WorkerRest, writerVars, clientVars
<1> QED BY <1>1, <1>2
        DEF WorkerStep, WorkerLoop, WorkerTest, WorkerTake, WorkerLoad, WorkerWrite

LEMMA LifeInit == Init => LockInv /\ LifeInv
<1> SUFFICES ASSUME Init PROVE LockInv /\ LifeInv
  OBVIOUS
<1>1. LockInv
  BY DEF Init, LockInv
<1>2. Pending
  BY DEF Init, Pending, JoinPending, StartPending, Unjoinable
<1>3. \A c \in Clients : DOMAIN stack[c] = {}
  BY DEF Init
<1>4. Ends
  BY <1>3 DEF Ends, Unique, Ending
<1> QED BY <1>1, <1>2, <1>4 DEF LifeInv

LEMMA LifeNext == TypeInv /\ OwnerInv /\ LockInv /\ LifeInv /\ [Next]_vars => LifeInv'
<1> SUFFICES ASSUME TypeInv, OwnerInv, LockInv, LifeInv, [Next]_vars PROVE LifeInv'
  OBVIOUS
<1>t. TypeOK
  BY DEF TypeInv
<1>1. ASSUME NEW c \in Clients,
             \/ LockInstance(c) \/ CheckRunning(c) \/ Spawn(c) \/ AddReference(c)
             \/ LoadInstance(c) \/ SetLogger(c) \/ Log(c) \/ Enqueue(c) \/ Flushed(c)
      PROVE  LifeInv'
  BY <1>1, <1>t, LifeLock, LifeCheckRunning, LifeSpawn, LifeReference, LifeOther
<1>2. ASSUME NEW c \in Clients, StopCheck(c) \/ StopDrained(c) \/ StopFlush(c)
                                \/ StopClear(c) \/ StopJoin(c)
      PROVE  LifeInv'
  BY <1>2, <1>t, LifeStop, LifeClear, LifeJoin
<1>3. ASSUME NEW c \in Clients, Close(c) \/ StopReset(c) \/ StopReturn(c) \/ Destroy(c)
      PROVE  LifeInv'
  BY <1>3, <1>t, LifeClose, LifeReset, LifeReturn, LifeDestroy
<1>4. ASSUME NEW w \in Writers, WorkerStep(w) PROVE LifeInv'
  BY <1>4, <1>t, LifeWorker
<1>5. CASE UNCHANGED vars
  BY <1>5, <1>t, LifeQuiet DEF vars, writerVars, clientVars
<1> QED BY <1>1, <1>2, <1>3, <1>4, <1>5 DEF Next, ClientStep, Halted

\* A LogWriter whose members are destroyed has no joinable thread left, and a thread
\* that is not joinable is not in loggerThread(): whoever runs ~LogWriter has joined the
\* worker, whichever stop() and getLogWriter() calls of other threads came before.
THEOREM WorkerOutlivedCorrect == Spec => []WorkerOutlived
<1>1. HandOffInv /\ LifeInv => WorkerOutlived
  BY DEF HandOffInv, HandOff, LifeInv, Pending, Unjoinable, WorkerOutlived
<1>2. TypeInv => TypeOK
  BY DEF TypeInv
<1> QED BY <1>1, <1>2, OwnerInit, OwnerNext, LifeInit, LockNext, LifeNext, Inductive, PTL
        DEF Spec

------------------------------------------------------------------------------
(***************************************************************************)
(* The refinement: every LogWriter implements the abstract channel, for    *)
(* any number of threads, writers, messages and programs.                  *)
(***************************************************************************)

\* Each writer under destruction has one activation of ~LogWriter().
Dying == \A c \in Clients : \A i \in DOMAIN stack[c] :
  stack[c][i].dtor => life[stack[c][i].w] = "dying"
Single == \A c \in Clients : \A i, j \in DOMAIN stack[c] :
  stack[c][i].dtor /\ stack[c][j].dtor /\ stack[c][i].w = stack[c][j].w => i = j
DyingInv == Dying /\ Single

\* The worker holds one message between take and write.
InflightInv == \A w \in Writers : wpc[w] \in {"load", "write"} => Len(inflight[w]) = 1

ChannelInv == TypeInv /\ HandOffInv /\ OwnerInv /\ LockInv /\ LifeInv /\ DyingInv /\ InflightInv

------------------------------------------------------------------------------
(* Activations of ~LogWriter() *)

\* Frames that were on the client's stack, k places further down.
From(c, fs, k) == \A i \in DOMAIN fs :
  /\ i + k \in DOMAIN stack[c]
  /\ fs[i].dtor = stack[c][i + k].dtor /\ fs[i].w = stack[c][i + k].w

LEMMA DyingKept ==
  ASSUME TypeOK, DyingInv, NEW c \in Clients, NEW fs, stack' = [stack EXCEPT ![c] = fs],
         \A d \in Clients \ {c} : \A i \in DOMAIN stack[d] :
           stack[d][i].dtor => life'[stack[d][i].w] = life[stack[d][i].w],
         \A i \in DOMAIN fs : fs[i].dtor => life'[fs[i].w] = "dying",
         \A i, j \in DOMAIN fs : fs[i].dtor /\ fs[j].dtor /\ fs[i].w = fs[j].w => i = j
  PROVE  DyingInv'
<1>1. stack'[c] = fs /\ \A d \in Clients \ {c} : stack'[d] = stack[d]
  BY DEF TypeOK
<1>2. Dying'
  BY <1>1 DEF DyingInv, Dying
<1>3. Single'
  BY <1>1 DEF DyingInv, Single
<1> QED BY <1>2, <1>3 DEF DyingInv

LEMMA DyingSame ==
  ASSUME TypeOK, DyingInv, stack' = stack,
         \A w \in Writers : life[w] = "dying" => life'[w] = "dying"
  PROVE  DyingInv'
<1>1. \A c \in Clients : \A i \in DOMAIN stack[c] : stack[c][i].w \in Writers
  BY StackType
<1>2. Dying'
  BY <1>1 DEF DyingInv, Dying
<1>3. Single'
  BY DEF DyingInv, Single
<1> QED BY <1>2, <1>3 DEF DyingInv

\* Frames that stay, while their writers do.
LEMMA FromOld ==
  ASSUME TypeOK, DyingInv, NEW c \in Clients, NEW fs \in Seq(Frame), NEW k \in {0, 1},
         From(c, fs, k)
  PROVE  /\ \A i \in DOMAIN fs : fs[i].dtor => life[fs[i].w] = "dying"
         /\ \A i, j \in DOMAIN fs : fs[i].dtor /\ fs[j].dtor /\ fs[i].w = fs[j].w => i = j
<1>1. \A i \in DOMAIN fs : fs[i].dtor => life[fs[i].w] = "dying"
  BY DEF From, DyingInv, Dying
<1>2. ASSUME NEW i \in DOMAIN fs, NEW j \in DOMAIN fs,
             fs[i].dtor, fs[j].dtor, fs[i].w = fs[j].w
      PROVE  i = j
  <2>1. i + k = j + k
    <3>1. PICK m \in DOMAIN stack[c] : m = i + k /\ stack[c][m].dtor /\ stack[c][m].w = fs[i].w
      BY <1>2 DEF From
    <3>2. PICK n \in DOMAIN stack[c] : n = j + k /\ stack[c][n].dtor /\ stack[c][n].w = fs[j].w
      BY <1>2 DEF From
    <3>3. m = n
      BY <1>2, <3>1, <3>2 DEF DyingInv, Single
    <3> QED BY <3>1, <3>2, <3>3
  <2>2. i \in Nat /\ j \in Nat
    BY <1>2, LenProperties
  <2> QED BY <2>1, <2>2
<1> QED BY <1>1, <1>2

LEMMA DyingReplace ==
  ASSUME TypeOK, DyingInv, NEW c \in Clients, stack[c] # <<>>, NEW f \in Frame,
         Replace(c, <<f>>), f.w = Top(c).w, f.dtor = Top(c).dtor, life' = life
  PROVE  DyingInv'
<1> DEFINE fs == <<f>> \o Tail(stack[c])
<1>1. /\ fs \in Seq(Frame) /\ DOMAIN fs = DOMAIN stack[c] /\ fs[1] = f
      /\ \A i \in DOMAIN stack[c] : i # 1 => fs[i] = stack[c][i]
  BY TopReplaced
<1>2. stack' = [stack EXCEPT ![c] = fs]
  BY DEF Replace
<1> HIDE DEF fs
<1>3. Top(c) = stack[c][1]
  BY TopOfStack
<1>4. ASSUME NEW i \in DOMAIN fs
      PROVE  /\ i + 0 \in DOMAIN stack[c]
             /\ fs[i].dtor = stack[c][i + 0].dtor /\ fs[i].w = stack[c][i + 0].w
  <2>1. i + 0 = i
    BY <1>1, LenProperties
  <2> QED BY <1>1, <1>3, <2>1
<1>5. From(c, fs, 0)
  BY <1>4 DEF From
<1>6. /\ \A i \in DOMAIN fs : fs[i].dtor => life[fs[i].w] = "dying"
      /\ \A i, j \in DOMAIN fs : fs[i].dtor /\ fs[j].dtor /\ fs[i].w = fs[j].w => i = j
  BY <1>1, <1>5, FromOld
<1> QED BY <1>2, <1>6, DyingKept

LEMMA DyingDrop ==
  ASSUME TypeOK, OwnerInv, DyingInv, NEW c \in Clients, NEW w \in Writers \cup {NoWriter},
         NEW o, NEW fs \in Seq(Frame), NEW k \in {0, 1}, From(c, fs, k), Drop(c, w, o, fs)
  PROVE  /\ DyingInv'
         /\ \/ life' = life
            \/ w \in Writers /\ life[w] = "live" /\ life' = [life EXCEPT ![w] = "dying"]
<1>1. /\ \A i \in DOMAIN fs : fs[i].dtor => life[fs[i].w] = "dying"
      /\ \A i, j \in DOMAIN fs : fs[i].dtor /\ fs[j].dtor /\ fs[i].w = fs[j].w => i = j
  BY FromOld
<1>2. CASE ~LastOwner(w, o)
  <2>1. life' = life /\ stack' = [stack EXCEPT ![c] = fs]
    BY <1>2 DEF Drop
  <2> QED BY <1>1, <2>1, DyingKept
<1>3. CASE LastOwner(w, o)
  <2> DEFINE f == Activation(w, TRUE)
             gs == <<f>> \o fs
  <2>1. w \in Writers /\ Owners(w) # {}
    BY <1>3 DEF LastOwner
  <2>2. life[w] = "live"
    BY <2>1, LiveOwnedIs DEF OwnerInv, OwnedIsLive
  <2>3. f \in Frame /\ f.w = w /\ f.dtor = TRUE
    BY <2>1, NewActivation
  <2>4. stack' = [stack EXCEPT ![c] = gs] /\ life' = [life EXCEPT ![w] = "dying"]
    BY <1>3 DEF Drop
  <2> HIDE DEF f
  <2>5. /\ DOMAIN gs = 1 .. Len(fs) + 1 /\ gs[1] = f /\ Len(fs) \in Nat
        /\ \A i \in 2 .. Len(fs) + 1 : i - 1 \in 1 .. Len(fs) /\ gs[i] = fs[i - 1]
    BY <2>3, OnTop
  <2>6. DOMAIN fs = 1 .. Len(fs)
    BY LenProperties
  <2> HIDE DEF gs
  <2>7. \A v \in Writers : life'[v] = IF v = w THEN "dying" ELSE life[v]
    BY <2>1, <2>4 DEF TypeOK
  <2>8. ASSUME NEW i \in DOMAIN gs, i # 1
        PROVE  i - 1 \in DOMAIN fs /\ gs[i] = fs[i - 1] /\ gs[i].w \in Writers
    <3>1. i - 1 \in DOMAIN fs /\ gs[i] = fs[i - 1]
      BY <2>5, <2>6, <2>8
    <3>2. fs[i - 1] \in Frame
      BY <3>1, ElementOfSeq, LenProperties
    <3> QED BY <3>1, <3>2 DEF Frame
  <2>9. \A i \in DOMAIN gs : i # 1 /\ gs[i].dtor => life[gs[i].w] = "dying"
    BY <1>1, <2>8
  <2>10. \A i \in DOMAIN gs : gs[i].dtor => life'[gs[i].w] = "dying"
    BY <2>1, <2>3, <2>5, <2>7, <2>8, <2>9
  <2>11. ASSUME NEW i \in DOMAIN gs, NEW j \in DOMAIN gs,
                gs[i].dtor, gs[j].dtor, gs[i].w = gs[j].w
         PROVE  i = j
    <3>1. CASE i = 1 \/ j = 1
      BY <2>2, <2>3, <2>5, <2>9, <2>11, <3>1
    <3>2. CASE i # 1 /\ j # 1
      <4>1. i - 1 = j - 1
        BY <1>1, <2>8, <2>11, <3>2
      <4> QED BY <2>5, <4>1
    <3> QED BY <3>1, <3>2
  <2>12. \A d \in Clients : \A i \in DOMAIN stack[d] :
           stack[d][i].dtor => life'[stack[d][i].w] = life[stack[d][i].w]
    <3>1. ASSUME NEW d \in Clients, NEW i \in DOMAIN stack[d], stack[d][i].dtor
          PROVE  stack[d][i].w \in Writers /\ life[stack[d][i].w] = "dying"
      BY <3>1, StackType DEF DyingInv, Dying
    <3> QED BY <2>2, <2>7, <3>1
  <2> QED BY <2>1, <2>2, <2>4, <2>10, <2>11, <2>12, DyingKept
<1> QED BY <1>2, <1>3

\* ~LogWriter() is over: no other activation is of its writer.
LEMMA DyingDestroy ==
  ASSUME TypeOK, OwnerInv, LifeInv, DyingInv, NEW c \in Clients, Destroy(c)
  PROVE  /\ DyingInv'
         /\ Top(c).w \in Writers /\ life[Top(c).w] = "dying"
         /\ life' = [life EXCEPT ![Top(c).w] = "dead"]
<1>1. PICK w : w = Top(c).w
  OBVIOUS
<1> DEFINE fs == Tail(stack[c])
<1>2. /\ stack[c] # <<>> /\ Top(c).dtor /\ life' = [life EXCEPT ![w] = "dead"]
      /\ stack' = [stack EXCEPT ![c] = <<>> \o fs]
  BY <1>1 DEF Destroy, At, Replace
<1>3. /\ w \in Writers /\ Top(c) = stack[c][1] /\ 1 \in DOMAIN stack[c]
      /\ fs \in Seq(Frame) /\ DOMAIN fs = 1 .. Len(stack[c]) - 1
      /\ \A i \in 1 .. Len(stack[c]) - 1 : fs[i] = stack[c][i + 1]
  BY <1>1, <1>2, TopOfStack
<1> HIDE DEF fs
<1>4. <<>> \o fs = fs
  BY <1>3
<1>5. life[w] = "dying"
  BY <1>1, <1>2, <1>3 DEF DyingInv, Dying
<1>6. \A v \in Writers : v # w => life'[v] = life[v]
  BY <1>2, <1>3 DEF TypeOK
<1>7. ASSUME NEW i \in DOMAIN fs
      PROVE  i + 1 \in DOMAIN stack[c] /\ i + 1 # 1 /\ fs[i] = stack[c][i + 1]
  BY <1>3, StackType
<1>8. From(c, fs, 1)
  BY <1>7 DEF From
<1>9. /\ \A i \in DOMAIN fs : fs[i].dtor => life[fs[i].w] = "dying"
      /\ \A i, j \in DOMAIN fs : fs[i].dtor /\ fs[j].dtor /\ fs[i].w = fs[j].w => i = j
  BY <1>3, <1>8, FromOld
<1>10. ASSUME NEW i \in DOMAIN fs, fs[i].dtor PROVE life'[fs[i].w] = "dying"
  <2>1. fs[i].w # w
    BY <1>1, <1>2, <1>3, <1>7, <1>10 DEF DyingInv, Single
  <2>2. fs[i].w \in Writers
    BY <1>7, StackType
  <2> QED BY <1>6, <1>9, <1>10, <2>1, <2>2
<1>11. ASSUME NEW d \in Clients \ {c}, NEW i \in DOMAIN stack[d], stack[d][i].dtor
       PROVE  life'[stack[d][i].w] = life[stack[d][i].w]
  <2>1. stack[d][i].w # w
    BY <1>1, <1>2, <1>3, <1>11 DEF LifeInv, Ends, Unique
  <2>2. stack[d][i].w \in Writers
    BY StackType
  <2> QED BY <1>6, <2>1, <2>2
<1>12. stack' = [stack EXCEPT ![c] = fs]
  BY <1>2, <1>4
<1> QED BY <1>1, <1>2, <1>3, <1>5, <1>9, <1>10, <1>11, <1>12, DyingKept

------------------------------------------------------------------------------
(* The worker *)

\* The message in the worker's hands is the next one the writer accepted.
LEMMA NextOfPipeline ==
  ASSUME NEW S, NEW a \in Seq(S), NEW b \in Seq(S), NEW q \in Seq(S), Len(b) = 1
  PROVE  /\ Len(a) < Len(a \o b \o q)
         /\ a \o b = Append(a, (a \o b \o q)[Len(a) + 1])
<1>1. a \o b \in Seq(S) /\ Len(a) \in Nat /\ Len(q) \in Nat
  BY ConcatProperties
<1>2. PICK x \in S : x = b[1]
  BY LenProperties
<1>3. a \o b = Append(a, x)
  <2>1. b = <<x>>
    BY <1>2
  <2> QED BY <2>1
<1>4. Len(a \o b) = Len(a) + 1 /\ (a \o b)[Len(a) + 1] = x
  BY <1>2, <1>3
<1>5. PICK r \in Seq(S) : r = a \o b
  BY <1>1
<1>6. PICK n \in Nat : n = Len(a)
  BY <1>1
<1>7. Len(r \o q) = Len(r) + Len(q) /\ (n + 1 \in 1 .. Len(r) => (r \o q)[n + 1] = r[n + 1])
  OBVIOUS
<1>8. Len(r) = n + 1 /\ r[n + 1] = x
  BY <1>4, <1>5, <1>6
<1>9. n < Len(r \o q) /\ (r \o q)[n + 1] = x
  BY <1>1, <1>7, <1>8
<1> QED BY <1>3, <1>5, <1>6, <1>9

LEMMA InflightNext == TypeOK /\ InflightInv /\ [Next]_vars => InflightInv'
<1> SUFFICES ASSUME TypeOK, InflightInv, [Next]_vars PROVE InflightInv'
  OBVIOUS
<1>1. CASE UNCHANGED <<wpc, inflight>>
  BY <1>1 DEF InflightInv
<1>2. ASSUME NEW kind, Fail(kind) PROVE InflightInv'
  BY <1>1, <1>2 DEF Fail, workerVars
<1>3. ASSUME NEW c \in Clients, Spawn(c) PROVE InflightInv'
  <2>1. ASSUME wpc' = [wpc EXCEPT ![tmp[c]] = "loop"], inflight' = inflight PROVE InflightInv'
    BY <2>1 DEF TypeOK, InflightInv
  <2> QED BY <1>2, <1>3, <2>1 DEF Spawn
<1>4. ASSUME NEW w \in Writers, WorkerLoop(w) \/ WorkerTest(w) PROVE InflightInv'
  <2>1. /\ wpc[w] \in {"loop", "test"} /\ inflight' = inflight
        /\ \E p \in {"loop", "test", "take", "done"} : wpc' = [wpc EXCEPT ![w] = p]
    BY <1>4 DEF WorkerLoop, WorkerTest, Working
  <2> QED BY <2>1 DEF TypeOK, InflightInv
<1>5. ASSUME NEW w \in Writers, WorkerTake(w) PROVE InflightInv'
  <2>1. PICK m : inflight' = [inflight EXCEPT ![w] = <<m>>] /\ wpc' = [wpc EXCEPT ![w] = "load"]
    BY <1>5 DEF WorkerTake
  <2>2. Len(<<m>>) = 1
    OBVIOUS
  <2> QED BY <2>1, <2>2 DEF TypeOK, InflightInv
<1>6. ASSUME NEW w \in Writers, WorkerLoad(w) PROVE InflightInv'
  BY <1>6 DEF WorkerLoad, Working, TypeOK, InflightInv
<1>7. ASSUME NEW w \in Writers, WorkerWrite(w) PROVE InflightInv'
  <2>1. ASSUME inflight' = [inflight EXCEPT ![w] = <<>>], wpc' = [wpc EXCEPT ![w] = "loop"]
        PROVE  InflightInv'
    BY <2>1 DEF TypeOK, InflightInv
  <2> QED BY <1>2, <1>7, <2>1 DEF WorkerWrite
<1>8. ASSUME NEW c \in Clients, ClientStep(c), ~Spawn(c) PROVE InflightInv'
  <2>1. (\E kind \in {"null", "dangling", "terminate"} : Fail(kind)) \/ UNCHANGED workerVars
    BY <1>8 DEF ClientStep, LockInstance, CheckRunning, LoadInstance, AddReference, SetLogger,
         Log, Enqueue, Flushed, Close, StopCheck, StopDrained, StopClear, StopFlush, StopJoin,
         StopReset, StopReturn, Destroy
  <2> QED BY <1>1, <1>2, <2>1 DEF workerVars
<1>9. CASE UNCHANGED vars
  BY <1>1, <1>9 DEF vars, workerVars
<1> QED BY <1>3, <1>4, <1>5, <1>6, <1>7, <1>8, <1>9 DEF Next, WorkerStep, Halted

------------------------------------------------------------------------------
(* The steps of the channel *)

Maps == [Channel!Next]_(Channel!vars)

LEMMA MapsSame == UNCHANGED <<life, accepted, written>> => Maps
BY DEF Maps, Channel!vars

\* Steps that leave the stacks alone, and change no writer's life or messages.
LEMMA Invisible ==
  ASSUME TypeOK, DyingInv, UNCHANGED <<life, stack, accepted, written>>
  PROVE  DyingInv' /\ Maps
BY DyingSame, MapsSame

LEMMA InvisibleFail == ASSUME TypeOK, DyingInv, NEW kind, Fail(kind) PROVE DyingInv' /\ Maps
BY Invisible DEF Fail, writerVars, clientVars

LEMMA InvisibleClient ==
  ASSUME TypeOK, DyingInv, NEW c \in Clients,
         \/ CheckRunning(c) \/ Spawn(c) \/ LoadInstance(c)
         \/ SetLogger(c) \/ Log(c) \/ Flushed(c)
  PROVE  DyingInv' /\ Maps
<1>1. (\E kind \in {"null", "dangling", "terminate"} : Fail(kind))
      \/ UNCHANGED <<life, stack, accepted, written>>
  BY DEF CheckRunning, Spawn, LoadInstance, SetLogger, Log, Flushed, writerVars
<1> QED BY <1>1, Invisible, InvisibleFail

LEMMA MapsLock ==
  ASSUME TypeOK, DyingInv, NEW c \in Clients, LockInstance(c) PROVE DyingInv' /\ Maps
<1>1. UNCHANGED <<stack, accepted, written>>
  BY DEF LockInstance
<1>2. CASE life' = life
  BY <1>1, <1>2, Invisible
<1>3. ASSUME Unused # {}, instance' = CHOOSE w \in Unused : TRUE,
             life' = [life EXCEPT ![instance'] = "live"]
      PROVE  DyingInv' /\ Maps
  <2>1. PICK w \in Writers : w = instance' /\ life[w] = "free"
    BY <1>3, FreshWriter DEF Unused
  <2>2. life' = [life EXCEPT ![w] = "live"]
    BY <1>3, <2>1
  <2>3. Maps
    BY <1>1, <2>1, <2>2 DEF Maps, Channel!Next, Channel!Open
  <2>4. \A v \in Writers : life[v] = "dying" => life'[v] = "dying"
    BY <2>1, <2>2 DEF TypeOK
  <2> QED BY <1>1, <2>3, <2>4, DyingSame
<1> QED BY <1>2, <1>3 DEF LockInstance

LEMMA MapsReference ==
  ASSUME TypeOK, DyingInv, NEW c \in Clients, AddReference(c) PROVE DyingInv' /\ Maps
<1>1. CASE \E kind \in {"dangling", "null"} : Fail(kind)
  BY <1>1, InvisibleFail
<1>2. CASE UNCHANGED <<life, stack, accepted, written>>
  BY <1>2, Invisible
<1> DEFINE f == Activation(tmp[c], FALSE)
<1>3. ASSUME stack' = [stack EXCEPT ![c] = <<f>>], UNCHANGED <<life, accepted, written>>
      PROVE  DyingInv' /\ Maps
  <2>1. ~f.dtor
    BY DEF Activation
  <2> HIDE DEF f
  <2>2. DOMAIN <<f>> = {1} /\ <<f>>[1] = f
    OBVIOUS
  <2>3. DyingInv'
    BY <1>3, <2>1, <2>2, DyingKept
  <2> QED BY <1>3, <2>3, MapsSame
<1> QED BY <1>1, <1>2, <1>3 DEF AddReference, writerVars

LEMMA MapsEnqueue ==
  ASSUME TypeInv, OwnerInv, DyingInv, NEW c \in Clients, Enqueue(c) PROVE DyingInv' /\ Maps
<1>t. TypeOK
  BY DEF TypeInv
<1>1. CASE Fail("null")
  BY <1>1, <1>t, InvisibleFail
<1> DEFINE w == mgr[Call(c).h]
           m == Head(storage[c])
<1>2. ASSUME w # NoWriter, accepted' = [accepted EXCEPT ![w] = Append(@, m)],
             UNCHANGED <<life, stack, written>>
      PROVE  DyingInv' /\ Maps
  <2>1. Call(c).h \in Handles
    BY CallTypes DEF Enqueue, Calling, TypeInv
  <2>2. w \in Writers /\ life[w] = "live"
    BY <1>t, <1>2, <2>1 DEF TypeOK, OwnerInv, LiveOwned
  <2>3. m \in Msgs
    BY <1>t, HeadTailProperties DEF Enqueue, TypeOK
  <2> HIDE DEF w, m
  <2>4. Maps
    BY <1>2, <2>2, <2>3 DEF Maps, Channel!Next, Channel!Accept
  <2>5. DyingInv'
    BY <1>2, <1>t, DyingSame
  <2> QED BY <2>4, <2>5
<1> QED BY <1>1, <1>2 DEF Enqueue, writerVars, clientVars

LEMMA MapsStop ==
  ASSUME TypeOK, DyingInv, NEW c \in Clients,
         StopCheck(c) \/ StopDrained(c) \/ StopClear(c) \/ StopFlush(c) \/ StopJoin(c)
  PROVE  DyingInv' /\ Maps
<1>1. CASE \E kind \in {"null", "terminate"} : Fail(kind)
  BY <1>1, InvisibleFail
<1>2. stack[c] # <<>>
  BY DEF StopCheck, StopDrained, StopClear, StopFlush, StopJoin, At
<1>3. Top(c) \in Frame /\ Top(c).w \in Writers
  BY <1>2, TopOfStack
<1>4. ASSUME NEW place \in {"wait", "ret", "flush", "join", "reset"}, Move(c, place),
             UNCHANGED <<life, accepted, written>>
      PROVE  DyingInv' /\ Maps
  <2> DEFINE f == [Top(c) EXCEPT !.at = place]
  <2>1. f \in Frame /\ f.w = Top(c).w /\ f.dtor = Top(c).dtor
    BY <1>3 DEF Frame
  <2>2. DyingInv'
    BY <1>2, <1>4, <2>1, DyingReplace DEF Move
  <2> QED BY <1>4, <2>2, MapsSame
<1>5. CASE StopDrained(c)
  <2> DEFINE n == Len(accepted[Top(c).w])
             f == [Top(c) EXCEPT !.at = "clear", !.seen = n]
  <2>1. Replace(c, <<f>>) /\ UNCHANGED <<life, accepted, written>>
    BY <1>5 DEF StopDrained, writerVars
  <2>2. n \in Nat
    BY <1>3, LenProperties DEF TypeOK
  <2> HIDE DEF n
  <2>3. f \in Frame /\ f.w = Top(c).w /\ f.dtor = Top(c).dtor
    BY <1>3, <2>2 DEF Frame
  <2> HIDE DEF f
  <2>4. DyingInv'
    BY <1>2, <2>1, <2>3, DyingReplace
  <2> QED BY <2>1, <2>4, MapsSame
<1>6. CASE StopCheck(c)
  BY <1>4, <1>6 DEF StopCheck, writerVars
<1>7. CASE StopClear(c)
  BY <1>4, <1>7 DEF StopClear
<1>8. CASE StopFlush(c)
  BY <1>1, <1>4, <1>8 DEF StopFlush, writerVars
<1>9. CASE StopJoin(c)
  BY <1>1, <1>4, <1>9 DEF StopJoin
<1> QED BY <1>5, <1>6, <1>7, <1>8, <1>9

LEMMA MapsDrop ==
  ASSUME TypeOK, OwnerInv, DyingInv, NEW c \in Clients, NEW w \in Writers \cup {NoWriter},
         NEW o, NEW fs \in Seq(Frame), NEW k \in {0, 1}, From(c, fs, k), Drop(c, w, o, fs),
         UNCHANGED <<accepted, written>>
  PROVE  DyingInv' /\ Maps
<1>1. CASE life' = life
  BY <1>1, DyingDrop, MapsSame
<1>2. CASE w \in Writers /\ life[w] = "live" /\ life' = [life EXCEPT ![w] = "dying"]
  <2>1. Maps
    BY <1>2 DEF Maps, Channel!Next, Channel!Retire
  <2> QED BY <2>1, DyingDrop
<1> QED BY <1>1, <1>2, DyingDrop

LEMMA MapsClose ==
  ASSUME TypeInv, OwnerInv, DyingInv, NEW c \in Clients, Close(c) PROVE DyingInv' /\ Maps
<1> DEFINE h == Call(c).h
<1>1. TypeOK /\ Drop(c, mgr[h], h, <<>>) /\ UNCHANGED <<accepted, written>>
  BY DEF Close, TypeInv
<1>2. h \in Handles
  BY CallTypes DEF Close, Calling, TypeInv
<1> HIDE DEF h
<1>3. mgr[h] \in Writers \cup {NoWriter}
  BY <1>1, <1>2 DEF TypeOK
<1>4. <<>> \in Seq(Frame) /\ DOMAIN <<>> = {}
  OBVIOUS
<1>5. From(c, <<>>, 0)
  BY <1>4 DEF From
<1> QED BY <1>1, <1>3, <1>4, <1>5, MapsDrop

LEMMA MapsReset ==
  ASSUME TypeOK, OwnerInv, DyingInv, NEW c \in Clients, StopReset(c) PROVE DyingInv' /\ Maps
<1> DEFINE f == [Top(c) EXCEPT !.at = "ret"]
           fs == <<f>> \o Tail(stack[c])
<1>1. stack[c] # <<>> /\ Drop(c, instance, "instance", fs) /\ UNCHANGED <<accepted, written>>
  BY DEF StopReset, At
<1>2. Top(c) \in Frame /\ Top(c) = stack[c][1]
  BY <1>1, TopOfStack
<1>3. f \in Frame /\ f.w = Top(c).w /\ f.dtor = Top(c).dtor
  BY <1>2 DEF Frame
<1> HIDE DEF f
<1>4. /\ fs \in Seq(Frame) /\ DOMAIN fs = DOMAIN stack[c] /\ fs[1] = f
      /\ \A i \in DOMAIN stack[c] : i # 1 => fs[i] = stack[c][i]
  BY <1>1, <1>3, TopReplaced
<1> HIDE DEF fs
<1>5. ASSUME NEW i \in DOMAIN fs
      PROVE  /\ i + 0 \in DOMAIN stack[c]
             /\ fs[i].dtor = stack[c][i + 0].dtor /\ fs[i].w = stack[c][i + 0].w
  <2>1. i + 0 = i
    BY <1>4, LenProperties
  <2> QED BY <1>2, <1>3, <1>4, <2>1
<1>6. From(c, fs, 0)
  BY <1>5 DEF From
<1>7. instance \in Writers \cup {NoWriter}
  BY DEF TypeOK
<1> QED BY <1>1, <1>4, <1>6, <1>7, MapsDrop

LEMMA MapsReturn ==
  ASSUME TypeOK, OwnerInv, DyingInv, NEW c \in Clients, StopReturn(c) PROVE DyingInv' /\ Maps
<1> DEFINE fs == Tail(stack[c])
<1>1. stack[c] # <<>> /\ Drop(c, Top(c).w, c, fs) /\ UNCHANGED <<accepted, written>>
  BY DEF StopReturn, At
<1>2. /\ Top(c).w \in Writers /\ fs \in Seq(Frame) /\ DOMAIN fs = 1 .. Len(stack[c]) - 1
      /\ \A i \in 1 .. Len(stack[c]) - 1 : fs[i] = stack[c][i + 1]
  BY <1>1, TopOfStack
<1> HIDE DEF fs
<1>3. ASSUME NEW i \in DOMAIN fs
      PROVE  i + 1 \in DOMAIN stack[c] /\ fs[i] = stack[c][i + 1]
  BY <1>2, StackType
<1>4. From(c, fs, 1)
  BY <1>3 DEF From
<1> QED BY <1>1, <1>2, <1>4, MapsDrop

LEMMA MapsDestroy ==
  ASSUME TypeOK, OwnerInv, LifeInv, DyingInv, NEW c \in Clients, Destroy(c)
  PROVE  DyingInv' /\ Maps
<1>1. PICK w : w = Top(c).w
  OBVIOUS
<1>2. w \in Writers /\ life[w] = "dying" /\ life' = [life EXCEPT ![w] = "dead"] /\ DyingInv'
  BY <1>1, DyingDestroy
<1>3. UNCHANGED <<accepted, written>>
  BY DEF Destroy
<1>4. Maps
  BY <1>2, <1>3 DEF Maps, Channel!Next, Channel!Retire
<1> QED BY <1>2, <1>4

\* What the worker writes is delivered by a writer that is not destroyed.
LEMMA MapsWrite ==
  ASSUME TypeOK, HandOffInv, LifeInv, DyingInv, InflightInv, NEW w \in Writers, WorkerWrite(w)
  PROVE  DyingInv' /\ Maps
<1>1. CASE \E kind \in {"null", "dangling"} : Fail(kind)
  BY <1>1, InvisibleFail
<1>2. ASSUME written' = [written EXCEPT ![w] = @ \o inflight[w]],
             UNCHANGED <<life, stack, accepted>>
      PROVE  DyingInv' /\ Maps
  <2>1. wpc[w] = "write" /\ HandOff(w) /\ Len(inflight[w]) = 1
    BY DEF WorkerWrite, Working, HandOffInv, InflightInv
  <2>2. life[w] \in {"live", "dying"}
    <3>1. joinable[w]
      BY <2>1 DEF HandOff
    <3> QED BY <3>1 DEF LifeInv, Pending, Unjoinable, TypeOK
  <2>3. /\ written[w] \in Seq(Msgs \cup {EmptyMsg}) /\ inflight[w] \in Seq(Msgs \cup {EmptyMsg})
        /\ queue[w] \in Seq(Msgs)
    BY DEF TypeOK
  <2>4. queue[w] \in Seq(Msgs \cup {EmptyMsg})
    <3>1. \A i \in 1 .. Len(queue[w]) : queue[w][i] \in Msgs \cup {EmptyMsg}
      BY <2>3, ElementOfSeq, LenProperties
    <3> QED BY <2>3, <3>1
  <2>5. accepted[w] = written[w] \o inflight[w] \o queue[w]
    BY <2>1 DEF HandOff
  <2>6. /\ Len(written[w]) < Len(accepted[w])
        /\ written[w] \o inflight[w] = Append(written[w], accepted[w][Len(written[w]) + 1])
    <3>1. PICK S : S = Msgs \cup {EmptyMsg}
      OBVIOUS
    <3>2. PICK a \in Seq(S) : a = written[w]
      BY <2>3, <3>1
    <3>3. PICK b \in Seq(S) : b = inflight[w]
      BY <2>3, <3>1
    <3>4. PICK q \in Seq(S) : q = queue[w]
      BY <2>4, <3>1
    <3>5. Len(b) = 1
      BY <2>1, <3>3
    <3>6. Len(a) < Len(a \o b \o q) /\ a \o b = Append(a, (a \o b \o q)[Len(a) + 1])
      BY <3>5, NextOfPipeline
    <3>7. accepted[w] = a \o b \o q
      BY <2>5, <3>2, <3>3, <3>4
    <3> QED BY <3>2, <3>3, <3>6, <3>7
  <2>7. written' = [written EXCEPT ![w] =
                     Append(written[w], accepted[w][Len(written[w]) + 1])]
    BY <1>2, <2>6
  <2>8. Maps
    BY <1>2, <2>2, <2>6, <2>7 DEF Maps, Channel!Next, Channel!Deliver
  <2>9. DyingInv'
    BY <1>2, DyingSame
  <2> QED BY <2>8, <2>9
<1> QED BY <1>1, <1>2 DEF WorkerWrite, WorkerRest, writerVars, clientVars

LEMMA InvisibleWorker ==
  ASSUME TypeOK, DyingInv, NEW w \in Writers,
         WorkerLoop(w) \/ WorkerTest(w) \/ WorkerTake(w) \/ WorkerLoad(w)
  PROVE  DyingInv' /\ Maps
BY Invisible
   DEF WorkerLoop, WorkerTest, WorkerTake, WorkerLoad, WorkerRest, writerVars, clientVars

LEMMA ChannelInit == Init => ChannelInv /\ Channel!Init
<1> SUFFICES ASSUME Init PROVE ChannelInv /\ Channel!Init
  OBVIOUS
<1>1. Channel!Init
  BY DEF Init, Channel!Init
<1>2. DyingInv
  <2>1. \A c \in Clients : DOMAIN stack[c] = {}
    BY DEF Init
  <2> QED BY <2>1 DEF DyingInv, Dying, Single
<1>3. InflightInv
  BY DEF Init, InflightInv
<1> QED BY <1>1, <1>2, <1>3, TypeInit, HandOffInit, OwnerInit, LifeInit DEF ChannelInv

LEMMA ChannelNext == ChannelInv /\ [Next]_vars => ChannelInv' /\ Maps
<1> SUFFICES ASSUME ChannelInv, [Next]_vars PROVE ChannelInv' /\ Maps
  OBVIOUS
<1>t. TypeOK /\ TypeInv /\ HandOffInv /\ OwnerInv /\ LifeInv /\ DyingInv /\ InflightInv
  BY DEF ChannelInv, TypeInv
<1>1. ASSUME NEW c \in Clients,
             \/ LockInstance(c) \/ CheckRunning(c) \/ Spawn(c) \/ LoadInstance(c)
             \/ AddReference(c) \/ SetLogger(c) \/ Log(c) \/ Flushed(c)
      PROVE  DyingInv' /\ Maps
  BY <1>1, <1>t, MapsLock, MapsReference, InvisibleClient
<1>2. ASSUME NEW c \in Clients, Enqueue(c) \/ Close(c) PROVE DyingInv' /\ Maps
  BY <1>2, <1>t, MapsEnqueue, MapsClose
<1>3. ASSUME NEW c \in Clients,
             \/ StopCheck(c) \/ StopDrained(c) \/ StopClear(c) \/ StopFlush(c)
             \/ StopJoin(c) \/ StopReset(c) \/ StopReturn(c) \/ Destroy(c)
      PROVE  DyingInv' /\ Maps
  BY <1>3, <1>t, MapsStop, MapsReset, MapsReturn, MapsDestroy
<1>4. ASSUME NEW w \in Writers, WorkerStep(w) PROVE DyingInv' /\ Maps
  <2>1. CASE WorkerWrite(w)
    BY <1>t, <1>4, <2>1, MapsWrite
  <2>2. CASE WorkerLoop(w) \/ WorkerTest(w) \/ WorkerTake(w) \/ WorkerLoad(w)
    BY <1>t, <1>4, <2>2, InvisibleWorker
  <2> QED BY <1>4, <2>1, <2>2 DEF WorkerStep
<1>5. ASSUME UNCHANGED vars PROVE DyingInv' /\ Maps
  <2>1. UNCHANGED <<life, stack, accepted, written>>
    BY <1>5 DEF vars, writerVars, clientVars
  <2> QED BY <1>t, <2>1, Invisible
<1>6. DyingInv' /\ Maps
  BY <1>1, <1>2, <1>3, <1>4, <1>5 DEF Next, ClientStep, Halted
<1>7. TypeInv' /\ HandOffInv' /\ OwnerInv' /\ LockInv' /\ LifeInv' /\ InflightInv'
  BY <1>t, TypeNext, HandOffNext, OwnerNext, LockNext, LifeNext, InflightNext DEF ChannelInv
<1> QED BY <1>6, <1>7 DEF ChannelInv

\* Every writer is an abstract channel: it accepts only while an owner can reach it, its
\* worker hands on each message once and in order, also while ~LogWriter() runs, and
\* after that it does nothing any more.
THEOREM ChannelCorrect == Spec => ImplementsChannel
<1>1. Init => ChannelInv /\ Channel!Init
  BY ChannelInit
<1>2. ChannelInv /\ [Next]_vars => ChannelInv' /\ [Channel!Next]_(Channel!vars)
  BY ChannelNext DEF Maps
<1> QED BY <1>1, <1>2, PTL DEF Spec, ImplementsChannel, Channel!Spec

------------------------------------------------------------------------------
(***************************************************************************)
(* The documented use of the API: no failure, one worker, nothing lost.    *)
(* The invariant relates the state to the calls that were made: one thread *)
(* that uses the logger alone is followed call by call; of several threads *)
(* none stops the one writer they share.                                   *)
(***************************************************************************)

\* The clients have made the first n[c] of the calls of program p.
Played(p, n) ==
  /\ p \in Programs /\ n \in [Clients -> Nat]
  /\ \A c \in Clients : n[c] <= Len(p[c]) /\ prog[c] = SubSeq(p[c], n[c] + 1, Len(p[c]))

\* Loggers that store, and what they have of the messages written: all, and all of it
\* durable once the writer is destroyed.
Sinks ==
  /\ \A l \in Loggers : durable[l] <= Len(out[l])
  /\ \A w \in Writers : /\ Stores(logger[w])
                        /\ wpc[w] = "write" => target[w] = logger[w]
                        /\ Elements(written[w]) \subseteq Elements(out[logger[w]])
                        /\ life[w] = "dead" => Elements(written[w]) \subseteq Durable(logger[w])
                        /\ life[w] = "free" => accepted[w] = <<>>

\* Several threads: only one writer is ever made, and it is never stopped.
ShareOf(c, s, i) ==
  /\ pc[c] \in {"idle", "check", "spawn", "load", "ref"}
  /\ pc[c] # "idle" => instance # NoWriter
  /\ pc[c] \in {"spawn", "ref"} => tmp[c] = instance
  /\ pc[c] = "spawn" => running[instance] /\ ~joinable[instance]
  /\ \A h \in Handles : Open(s, i, h) => mgr[h] # NoWriter
ShareInv(p, n) ==
  /\ SharingUse(p)
  /\ \A w \in Writers : life[w] = "free" \/ w = instance
  /\ \A w \in Writers : joinable[w] => running[w]
  /\ \A c \in Clients : ShareOf(c, p[c], n[c] + 1)

\* One thread: the writer in use has a worker if m_running is set, ...
AtRest == instance # NoWriter => joinable[instance] = running[instance]
\* ... during stop() as far as it has come, ...
Stopping(c, f) ==
  IF f.dtor
  THEN /\ AtRest /\ f.w # instance /\ f.at \in {"check", "ret"}
       /\ Call(c).op \in {"close", "stop"}
       /\ Call(c).op = "stop" => instance = NoWriter
  ELSE /\ Call(c).op = "stop" /\ tmp[c] = f.w
       /\ f.at # "ret" => instance = f.w
       /\ f.at = "ret" => instance = NoWriter
       /\ f.at \in {"check", "wait", "clear"} => running[f.w] /\ joinable[f.w]
       /\ f.at \in {"flush", "join"} => ~running[f.w] /\ joinable[f.w]
       /\ f.at = "reset" => ~running[f.w] /\ ~joinable[f.w]
       /\ f.at \in {"clear", "flush", "join", "reset"} => queue[f.w] = <<>>
\* ... and getLogWriter() sees to it.
Placed(c) ==
  /\ pc[c] \in {"idle", "set", "check"} => AtRest
  /\ pc[c] \in {"set", "check", "spawn", "load", "ref"} => instance # NoWriter
  /\ pc[c] = "spawn" => tmp[c] = instance /\ running[instance] /\ ~joinable[instance]
  /\ pc[c] \in {"load", "ref"} => running[instance] /\ joinable[instance]
  /\ pc[c] = "ref" => tmp[c] = instance
  /\ pc[c] = "stop" => Len(stack[c]) = 1 /\ Stopping(c, Top(c))
\* All other writers are done with their messages.
OthersDone == \A w \in Writers :
  w # instance => ~running[w] /\ ~joinable[w] /\ queue[w] = <<>>

\* The client is in the middle of such a call, or in ~LogManager() of h.
During(c, op) == pc[c] # "idle" /\ Call(c).op = op
Closing(c, h) == pc[c] = "stop" /\ Call(c).op = "close" /\ Call(c).h = h
\* The state agrees with the calls made.
Agrees(c, s, i) ==
  /\ \A h \in Handles : Open(s, i, h) /\ ~Closing(c, h) => mgr[h] # NoWriter
  /\ ~During(c, "stop") =>
       \A h \in Handles : Fresh(s, i, h) /\ ~Closing(c, h) =>
         mgr[h] = instance /\ running[instance]
  /\ storage[c] # <<>> => Buffered(s, i)
  /\ pc[c] = "stop" /\ Call(c).op = "close" => storage[c] = <<>>
  /\ ~During(c, "stop") /\ ~During(c, "create") /\ Unstarted(s, i) /\ instance # NoWriter =>
       ~running[instance]
  /\ ~(pc[c] = "stop" /\ Call(c).op = "stop") /\ instance # NoWriter /\ ~running[instance] =>
       accepted[instance] = <<>>
SequentialInv(p, n, c) ==
  /\ \A d \in Clients \ {c} : p[d] = <<>>
  /\ SequentialUse(p[c])
  /\ OthersDone
  /\ Placed(c)
  /\ Agrees(c, p[c], n[c] + 1)

UsageInv ==
  /\ fault = "none"
  /\ Sinks
  /\ \E p \in Programs, n \in [Clients -> Nat] :
       Played(p, n) /\ (ShareInv(p, n) \/ \E c \in Clients : SequentialInv(p, n, c))

------------------------------------------------------------------------------
(* The calls made and the calls left. *)

\* One call more.
LEMMA OpenNext ==
  ASSUME NEW s, NEW i \in Nat \ {0}, NEW h, Open(s, i + 1, h)
  PROVE  \/ s[i].op = "create" /\ s[i].h = h
         \/ Open(s, i, h) /\ ~(s[i].op = "close" /\ s[i].h = h)
<1>1. PICK j \in 1 .. i : /\ s[j].op = "create" /\ s[j].h = h
                          /\ \A k \in j + 1 .. i : ~(s[k].op = "close" /\ s[k].h = h)
  BY DEF Open
<1>2. CASE j = i
  BY <1>1, <1>2
<1>3. CASE j # i
  <2>1. j \in 1 .. i - 1 /\ i \in j + 1 .. i
    BY <1>3
  <2>2. \A k \in j + 1 .. i - 1 : k \in j + 1 .. i
    OBVIOUS
  <2> QED BY <1>1, <2>1, <2>2 DEF Open
<1> QED BY <1>2, <1>3

LEMMA FreshNext ==
  ASSUME NEW s, NEW i \in Nat \ {0}, NEW h, Fresh(s, i + 1, h)
  PROVE  \/ s[i].op = "create" /\ s[i].h = h
         \/ Fresh(s, i, h) /\ ~(s[i].op = "close" /\ s[i].h = h) /\ s[i].op # "stop"
<1>1. PICK j \in 1 .. i :
        /\ s[j].op = "create" /\ s[j].h = h
        /\ \A k \in j + 1 .. i : ~(s[k].op = "close" /\ s[k].h = h) /\ s[k].op # "stop"
  BY DEF Fresh
<1>2. CASE j = i
  BY <1>1, <1>2
<1>3. CASE j # i
  <2>1. j \in 1 .. i - 1 /\ i \in j + 1 .. i
    BY <1>3
  <2>2. \A k \in j + 1 .. i - 1 : k \in j + 1 .. i
    OBVIOUS
  <2> QED BY <1>1, <2>1, <2>2 DEF Fresh
<1> QED BY <1>2, <1>3

LEMMA FreshIsOpen ==
  ASSUME NEW s, NEW i, NEW h, Fresh(s, i, h) PROVE Open(s, i, h)
BY DEF Fresh, Open

LEMMA BufferedNext ==
  ASSUME NEW s, NEW i \in Nat \ {0},
         \/ s[i].op = "log"
         \/ Buffered(s, i) /\ s[i].op \notin {"flush", "close"}
  PROVE  Buffered(s, i + 1)
<1>1. CASE s[i].op = "log"
  <2>1. i \in 1 .. (i + 1) - 1 /\ \A k \in i + 1 .. (i + 1) - 1 : FALSE
    OBVIOUS
  <2> QED BY <1>1, <2>1 DEF Buffered
<1>2. CASE Buffered(s, i) /\ s[i].op \notin {"flush", "close"}
  <2>1. PICK j \in 1 .. i - 1 : /\ s[j].op = "log"
                                /\ \A k \in j + 1 .. i - 1 : s[k].op \notin {"flush", "close"}
    BY <1>2 DEF Buffered
  <2>2. j \in 1 .. (i + 1) - 1 /\ \A k \in j + 1 .. (i + 1) - 1 : k \in j + 1 .. i - 1 \/ k = i
    OBVIOUS
  <2> QED BY <1>2, <2>1, <2>2 DEF Buffered
<1> QED BY <1>1, <1>2

LEMMA UnstartedNext ==
  ASSUME NEW s, NEW i \in Nat \ {0}, Unstarted(s, i + 1)
  PROVE  s[i].op # "create" /\ (s[i].op = "stop" \/ Unstarted(s, i))
<1>1. \A j \in 1 .. i : s[j].op = "create" => \E k \in j + 1 .. i : s[k].op = "stop"
  BY DEF Unstarted
<1>2. s[i].op # "create"
  <2>1. i \in 1 .. i /\ i + 1 .. i = {}
    OBVIOUS
  <2> QED BY <1>1, <2>1
<1>3. ASSUME s[i].op # "stop" PROVE Unstarted(s, i)
  <2>1. ASSUME NEW j \in 1 .. i - 1, s[j].op = "create"
        PROVE  \E k \in j + 1 .. i - 1 : s[k].op = "stop"
    <3>1. PICK k \in j + 1 .. i : s[k].op = "stop"
      BY <1>1, <2>1
    <3>2. k # i
      BY <1>3, <3>1
    <3>3. k \in j + 1 .. i - 1
      BY <3>2
    <3> QED BY <3>1, <3>3
  <2> QED BY <2>1 DEF Unstarted
<1> QED BY <1>2, <1>3

\* The call a client makes is the next of its program.
LEMMA PlayedHead ==
  ASSUME TypeOK, NEW p, NEW n, Played(p, n), NEW c \in Clients, prog[c] # <<>>
  PROVE  /\ n[c] \in Nat /\ n[c] + 1 \in DOMAIN p[c]
         /\ Call(c) = p[c][n[c] + 1] /\ Call(c) \in Calls
         /\ Tail(prog[c]) = SubSeq(p[c], n[c] + 2, Len(p[c]))
<1>1. p[c] \in Seq(Calls) /\ n[c] \in Nat /\ n[c] <= Len(p[c])
  BY ConstantsAssumption DEF Played
<1>2. PICK k \in Nat : k = n[c]
  BY <1>1
<1>3. PICK s \in Seq(Calls) : s = p[c]
  BY <1>1
<1>4. prog[c] = SubSeq(s, k + 1, Len(s)) /\ k <= Len(s)
  BY <1>1, <1>2, <1>3 DEF Played
<1>5. /\ k + 1 \in 1 .. Len(s)
      /\ Head(prog[c]) = s[k + 1]
      /\ Tail(prog[c]) = SubSeq(s, k + 2, Len(s))
  <2>1. k < Len(s)
    BY <1>4
  <2>2. prog[c] = [i \in 1 .. Len(s) - k |-> s[i + k]]
    BY <1>4, <2>1
  <2>3. Len(prog[c]) = Len(s) - k /\ prog[c] \in Seq(Calls)
    BY <1>4, <2>1
  <2>4. Head(prog[c]) = s[k + 1]
    BY <2>1, <2>2, <2>3
  <2>5. Tail(prog[c]) = SubSeq(s, k + 2, Len(s))
    BY <1>4, <2>1
  <2> QED BY <2>1, <2>4, <2>5
<1>6. s[k + 1] \in Calls
  BY <1>5
<1>7. k + 1 \in DOMAIN s
  BY <1>5
<1> QED BY <1>2, <1>3, <1>5, <1>6, <1>7, Zenon DEF Call

\* A client that returns from a call has made one more.
LEMMA PlayedReturn ==
  ASSUME TypeOK, NEW p, NEW n, Played(p, n), NEW c \in Clients, prog[c] # <<>>,
         prog' = [prog EXCEPT ![c] = Tail(@)]
  PROVE  LET m == [n EXCEPT ![c] = @ + 1]
         IN  /\ Played(p, m)' /\ m \in [Clients -> Nat] /\ m[c] = n[c] + 1
             /\ \A d \in Clients \ {c} : m[d] = n[d]
<1> DEFINE m == [n EXCEPT ![c] = @ + 1]
<1>1. n \in [Clients -> Nat] /\ prog \in [Clients -> Seq(Calls)] /\ p \in Programs
  BY DEF Played, TypeOK
<1>2. m \in [Clients -> Nat] /\ m[c] = n[c] + 1 /\ \A d \in Clients \ {c} : m[d] = n[d]
  BY <1>1
<1>3. m[c] <= Len(p[c]) /\ prog'[c] = SubSeq(p[c], m[c] + 1, Len(p[c]))
  <2>1. n[c] \in Nat /\ n[c] + 1 \in DOMAIN p[c]
        /\ Tail(prog[c]) = SubSeq(p[c], n[c] + 2, Len(p[c]))
    BY PlayedHead
  <2>2. p[c] \in Seq(Calls)
    BY <1>1, ConstantsAssumption
  <2>3. n[c] + 1 <= Len(p[c]) /\ m[c] + 1 = n[c] + 2
    BY <1>2, <2>1, <2>2
  <2>4. prog'[c] = Tail(prog[c])
    BY <1>1
  <2> QED BY <1>2, <2>1, <2>3, <2>4
<1>4. ASSUME NEW d \in Clients \ {c}
      PROVE  m[d] <= Len(p[d]) /\ prog'[d] = SubSeq(p[d], m[d] + 1, Len(p[d]))
  BY <1>1, <1>2 DEF Played
<1>5. \A d \in Clients : m[d] <= Len(p[d]) /\ prog'[d] = SubSeq(p[d], m[d] + 1, Len(p[d]))
  BY <1>3, <1>4
<1> QED BY <1>1, <1>2, <1>5 DEF Played

\* In the middle of a call the count stays.
LEMMA PlayedSame ==
  ASSUME NEW p, NEW n, Played(p, n), prog' = prog PROVE Played(p, n)'
BY DEF Played
------------------------------------------------------------------------------
(* What has been written, and what of it is flushed. *)

LEMMA ElementsIs ==
  ASSUME NEW S, NEW s \in Seq(S) PROVE Elements(s) = {s[i] : i \in 1 .. Len(s)}
BY DEF Elements

\* The messages of two sequences one after the other.
LEMMA ElementsConcat ==
  ASSUME NEW S, NEW s \in Seq(S), NEW t \in Seq(S)
  PROVE  Elements(s \o t) = Elements(s) \cup Elements(t)
<1>1. s \o t \in Seq(S) /\ Len(s \o t) = Len(s) + Len(t)
      /\ \A i \in 1 .. Len(s) + Len(t) : (s \o t)[i] = IF i <= Len(s) THEN s[i] ELSE t[i - Len(s)]
  BY ConcatProperties
<1>0. Elements(s \o t) = {(s \o t)[i] : i \in 1 .. Len(s) + Len(t)}
  <2>1. PICK u \in Seq(S) : u = s \o t /\ Len(u) = Len(s) + Len(t)
    BY <1>1
  <2>2. Elements(u) = {u[i] : i \in 1 .. Len(u)}
    BY ElementsIs
  <2> QED BY <2>1, <2>2
<1>2. ASSUME NEW x \in Elements(s \o t) PROVE x \in Elements(s) \cup Elements(t)
  <2>1. PICK i \in 1 .. Len(s) + Len(t) : x = (s \o t)[i]
    BY <1>0, <1>2
  <2>2. CASE i <= Len(s)
    BY <1>1, <2>1, <2>2, ElementsIs
  <2>3. CASE ~(i <= Len(s))
    <3>1. i - Len(s) \in 1 .. Len(t) /\ x = t[i - Len(s)]
      BY <1>1, <2>1, <2>3
    <3> QED BY <3>1, ElementsIs
  <2> QED BY <2>2, <2>3
<1>3. ASSUME NEW x \in Elements(s) PROVE x \in Elements(s \o t)
  <2>1. PICK i \in 1 .. Len(s) : x = s[i]
    BY ElementsIs
  <2>2. i \in 1 .. Len(s) + Len(t) /\ (s \o t)[i] = x
    BY <1>1, <2>1
  <2> QED BY <1>0, <2>2
<1>4. ASSUME NEW x \in Elements(t) PROVE x \in Elements(s \o t)
  <2>1. PICK i \in 1 .. Len(t) : x = t[i]
    BY ElementsIs
  <2>2. i + Len(s) \in 1 .. Len(s) + Len(t) /\ ~(i + Len(s) <= Len(s))
        /\ (i + Len(s)) - Len(s) = i
    OBVIOUS
  <2>3. (s \o t)[i + Len(s)] = x
    BY <1>1, <2>1, <2>2
  <2> QED BY <1>0, <2>2, <2>3
<1> QED BY <1>2, <1>3, <1>4

LEMMA ElementsOfFirst ==
  ASSUME NEW S, NEW s \in Seq(S), NEW d \in Nat, d <= Len(s)
  PROVE  Elements(SubSeq(s, 1, d)) = {s[i] : i \in 1 .. d}
<1>1. SubSeq(s, 1, d) = [i \in 1 .. d |-> s[i]]
  OBVIOUS
<1>2. DOMAIN SubSeq(s, 1, d) = 1 .. d /\ \A i \in 1 .. d : SubSeq(s, 1, d)[i] = s[i]
  BY <1>1
<1> QED BY <1>2 DEF Elements

\* Output is never taken back, and what is durable stays durable.
LEMMA SinksFrame ==
  ASSUME TypeOK, TypeOK', Sinks, UNCHANGED <<out, logger, target, written>>,
         \A l \in Loggers : durable[l] <= durable'[l] /\ durable'[l] <= Len(out[l]),
         \A w \in Writers : wpc'[w] = "write" => wpc[w] = "write",
         \A w \in Writers : life'[w] = "free" => life[w] = "free" /\ accepted'[w] = accepted[w],
         \A w \in Writers : life'[w] = "dead" =>
           life[w] = "dead" \/ durable'[logger[w]] = Len(out[logger[w]])
  PROVE  Sinks'
<1>1. \A l \in Loggers : durable'[l] <= Len(out'[l])
  OBVIOUS
<1>2. ASSUME NEW w \in Writers
      PROVE  /\ Stores(logger[w])'
             /\ wpc'[w] = "write" => target'[w] = logger'[w]
             /\ Elements(written'[w]) \subseteq Elements(out'[logger'[w]])
             /\ life'[w] = "free" => accepted'[w] = <<>>
  BY DEF Sinks, Stores
<1>3. ASSUME NEW w \in Writers, life'[w] = "dead"
      PROVE  Elements(written'[w]) \subseteq Durable(logger[w])'
  <2>1. PICK l \in Loggers : l = logger[w]
    BY DEF TypeOK
  <2>0. /\ out[l] \in Seq(Msgs \cup {EmptyMsg}) /\ out'[l] = out[l]
        /\ durable[l] \in Nat /\ durable[l] <= Len(out[l])
        /\ durable'[l] \in Nat /\ durable'[l] <= Len(out[l])
    BY <1>1 DEF TypeOK, Sinks
  <2>2. Durable(l)' = {out[l][i] : i \in 1 .. durable'[l]}
    BY <2>0, ElementsOfFirst DEF Durable
  <2>3. Durable(l) = {out[l][i] : i \in 1 .. durable[l]}
    BY <2>0, ElementsOfFirst DEF Durable
  <2>4. CASE life[w] = "dead"
    <3>1. durable[l] \in Nat /\ durable'[l] \in Nat /\ durable[l] <= durable'[l]
      BY DEF TypeOK
    <3>2. Durable(l) \subseteq Durable(l)'
      BY <2>2, <2>3, <3>1
    <3> QED BY <2>1, <2>4, <3>2 DEF Sinks
  <2>5. CASE durable'[l] = Len(out[l])
    <3>1. out[l] \in Seq(Msgs \cup {EmptyMsg})
      BY DEF TypeOK
    <3>2. Durable(l)' = Elements(out[l])
      BY <2>2, <2>5, <3>1, ElementsIs
    <3> QED BY <2>1, <3>2 DEF Sinks
  <2> QED BY <1>3, <2>1, <2>4, <2>5
<1> QED BY <1>1, <1>2, <1>3 DEF Sinks

\* Steps of clients that leave the loggers alone.
LEMMA SinksLife ==
  ASSUME TypeOK, TypeOK', Sinks, UNCHANGED <<out, durable, logger, target, written>>,
         \A w \in Writers : wpc'[w] = "write" => wpc[w] = "write",
         \A w \in Writers : life'[w] = life[w] \/ life'[w] \in {"live", "dying"},
         \A w \in Writers : accepted'[w] = accepted[w] \/ life[w] = "live"
  PROVE  Sinks'
<1>1. \A l \in Loggers : durable[l] <= durable'[l] /\ durable'[l] <= Len(out[l])
  <2>1. ASSUME NEW l \in Loggers PROVE durable[l] \in Nat /\ durable[l] <= Len(out[l])
    BY DEF TypeOK, Sinks
  <2>2. ASSUME NEW l \in Loggers PROVE durable[l] <= durable'[l] /\ durable'[l] <= Len(out[l])
    <3>1. durable'[l] = durable[l]
      OBVIOUS
    <3> QED BY <2>1, <3>1
  <2> QED BY <2>2
<1>2. \A w \in Writers : life'[w] = "free" => life[w] = "free" /\ accepted'[w] = accepted[w]
  OBVIOUS
<1>3. \A w \in Writers : life'[w] = "dead" => life[w] = "dead"
  OBVIOUS
<1> QED BY <1>1, <1>2, <1>3, SinksFrame

\* Steps that flush.
LEMMA SinksFlush ==
  ASSUME TypeOK, TypeOK', Sinks, UNCHANGED <<out, logger, target, written, wpc, accepted>>,
         NEW l \in Loggers, durable' = [durable EXCEPT ![l] = Len(out[l])],
         \A w \in Writers : life'[w] = life[w] \/ (life'[w] = "dead" /\ logger[w] = l)
  PROVE  Sinks'
<1>1. ASSUME NEW k \in Loggers PROVE durable[k] <= durable'[k] /\ durable'[k] <= Len(out[k])
  <2>1. durable[k] \in Nat /\ durable[k] <= Len(out[k]) /\ Len(out[k]) \in Nat
    BY DEF TypeOK, Sinks
  <2>2. durable'[k] = IF k = l THEN Len(out[k]) ELSE durable[k]
    BY DEF TypeOK
  <2> QED BY <2>1, <2>2
<1>2. durable'[l] = Len(out[l])
  BY DEF TypeOK
<1>3. \A w \in Writers : life'[w] = "dead" =>
        life[w] = "dead" \/ durable'[logger[w]] = Len(out[logger[w]])
  BY <1>2
<1>4. \A w \in Writers : life'[w] = "free" => life[w] = "free" /\ accepted'[w] = accepted[w]
  OBVIOUS
<1>5. \A w \in Writers : wpc'[w] = "write" => wpc[w] = "write"
  OBVIOUS
<1> QED BY <1>1, <1>3, <1>4, <1>5, SinksFrame

LEMMA SinksLock ==
  ASSUME TypeOK, TypeOK', Sinks, NEW c \in Clients, LockInstance(c) PROVE Sinks'
<1>1. UNCHANGED <<out, durable, logger, target, written, wpc, accepted>>
  BY DEF LockInstance, sinkVars, workerVars
<1>2. \A w \in Writers : life'[w] = life[w] \/ life'[w] \in {"live", "dying"}
  BY DEF LockInstance, TypeOK
<1> QED BY <1>1, <1>2, SinksLife

LEMMA SinksPlain ==
  ASSUME TypeOK, TypeOK', Sinks, NEW c \in Clients, fault' = "none",
         \/ CheckRunning(c) \/ Spawn(c) \/ LoadInstance(c) \/ AddReference(c)
         \/ Log(c) \/ Flushed(c) \/ StopCheck(c) \/ StopDrained(c) \/ StopClear(c)
         \/ StopJoin(c)
  PROVE  Sinks'
<1>1. UNCHANGED <<out, durable, logger, target, written, life, accepted>>
  BY DEF CheckRunning, Spawn, LoadInstance, AddReference, Log, Flushed, StopCheck,
         StopDrained, StopClear, StopJoin, Fail, sinkVars, workerVars, writerVars
<1>2. \A w \in Writers : wpc'[w] = "write" => wpc[w] = "write"
  BY DEF CheckRunning, Spawn, LoadInstance, AddReference, Log, Flushed, StopCheck,
         StopDrained, StopClear, StopJoin, Fail, workerVars, TypeOK
<1> QED BY <1>1, <1>2, SinksLife

LEMMA SinksDrop ==
  ASSUME TypeOK, TypeOK', Sinks, NEW c \in Clients, Close(c) \/ StopReset(c) \/ StopReturn(c)
  PROVE  Sinks'
<1>1. UNCHANGED <<out, durable, logger, target, written, wpc, accepted>>
  BY DEF Close, StopReset, StopReturn, sinkVars, workerVars
<1>2. \E w : life' = life \/ life' = [life EXCEPT ![w] = "dying"]
  BY DEF Close, StopReset, StopReturn, Drop
<1>3. \A w \in Writers : life'[w] = life[w] \/ life'[w] \in {"live", "dying"}
  BY <1>2 DEF TypeOK
<1> QED BY <1>1, <1>3, SinksLife

LEMMA SinksEnqueue ==
  ASSUME TypeOK, TypeOK', Sinks, LiveOwned, NEW c \in Clients, Enqueue(c), fault' = "none",
         Call(c).h \in Handles
  PROVE  Sinks'
<1>1. PICK w : w = mgr[Call(c).h]
  OBVIOUS
<1>2. fault = "none" /\ w # NoWriter
  BY <1>1 DEF Enqueue, Calling, Fail
<1>3. life[w] = "live"
  BY <1>1, <1>2 DEF LiveOwned
<1>4. UNCHANGED <<out, durable, logger, target, written, wpc, life>>
  BY <1>1, <1>2 DEF Enqueue, Fail, sinkVars, workerVars, writerVars
<1>5. \A v \in Writers : accepted'[v] = accepted[v] \/ life[v] = "live"
  <2>1. accepted' = [accepted EXCEPT ![w] = Append(@, Head(storage[c]))]
    BY <1>1, <1>2 DEF Enqueue, Fail
  <2>2. accepted \in [Writers -> Seq(Msgs)]
    BY DEF TypeOK
  <2> QED BY <1>3, <2>1, <2>2
<1> QED BY <1>4, <1>5, SinksLife

LEMMA SinksStopFlush ==
  ASSUME TypeOK, TypeOK', Sinks, NEW c \in Clients, StopFlush(c), fault' = "none",
         Top(c).w \in Writers
  PROVE  Sinks'
<1>1. PICK l \in Loggers : l = logger[Top(c).w]
  BY DEF TypeOK
<1>2. durable' = [durable EXCEPT ![l] = Len(out[l])]
      /\ UNCHANGED <<out, logger, target, written, wpc, accepted, life>>
  BY <1>1 DEF StopFlush, Fail, workerVars, writerVars
<1> QED BY <1>1, <1>2, SinksFlush

LEMMA SinksDestroy ==
  ASSUME TypeOK, TypeOK', Sinks, NEW c \in Clients, Destroy(c), Top(c).w \in Writers
  PROVE  Sinks'
<1>1. PICK l \in Loggers : l = logger[Top(c).w]
  BY DEF TypeOK
<1>2. durable' = [durable EXCEPT ![l] = Len(out[l])]
      /\ UNCHANGED <<out, logger, target, written, wpc, accepted>>
      /\ life' = [life EXCEPT ![Top(c).w] = "dead"]
  BY <1>1 DEF Destroy, workerVars
<1>3. \A w \in Writers : life'[w] = life[w] \/ (life'[w] = "dead" /\ logger[w] = l)
  <2>1. life \in [Writers -> {"free", "live", "dying", "dead"}]
    BY DEF TypeOK
  <2> QED BY <1>1, <1>2, <2>1
<1> QED BY <1>1, <1>2, <1>3, SinksFlush

\* The logger is set while the writer has no worker and has written nothing.
LEMMA SinksSet ==
  ASSUME TypeOK, TypeOK', Sinks, NEW c \in Clients, SetLogger(c), instance \in Writers,
         life[instance] = "live", wpc[instance] # "write", written[instance] = <<>>,
         Stores(Call(c).l), Call(c).l \in Loggers
  PROVE  Sinks'
<1>1. PICK v \in Writers : v = instance
  OBVIOUS
<1>2. PICK l \in Loggers : l = logger[v]
  BY DEF TypeOK
<1>3. /\ durable' = [durable EXCEPT ![l] = Len(out[l])]
      /\ logger' = [logger EXCEPT ![v] = Call(c).l]
      /\ UNCHANGED <<out, target, written, wpc, accepted, life>>
  <2>1. instance # NoWriter
    BY ConstantsAssumption
  <2> QED BY <1>1, <1>2, <2>1 DEF SetLogger, Fail, workerVars
<1>4. ASSUME NEW k \in Loggers PROVE durable[k] <= durable'[k] /\ durable'[k] <= Len(out[k])
  <2>1. durable[k] \in Nat /\ durable[k] <= Len(out[k]) /\ Len(out[k]) \in Nat
    BY DEF TypeOK, Sinks
  <2>2. durable'[k] = IF k = l THEN Len(out[k]) ELSE durable[k]
    BY <1>3 DEF TypeOK
  <2> QED BY <2>1, <2>2
<1>5. \A l2 \in Loggers : durable'[l2] <= Len(out'[l2])
  BY <1>3, <1>4
<1>6. ASSUME NEW w \in Writers
      PROVE  /\ Stores(logger[w])'
             /\ wpc'[w] = "write" => target'[w] = logger'[w]
             /\ Elements(written'[w]) \subseteq Elements(out'[logger'[w]])
             /\ life'[w] = "dead" => Elements(written'[w]) \subseteq Durable(logger[w])'
             /\ life'[w] = "free" => accepted'[w] = <<>>
  <2>1. CASE w = v
    <3>1. logger'[w] = Call(c).l /\ life'[w] = "live" /\ wpc'[w] # "write" /\ written'[w] = <<>>
      BY <1>1, <1>3, <2>1 DEF TypeOK
    <3>2. Elements(written'[w]) = {}
      BY <3>1 DEF Elements
    <3> QED BY <3>1, <3>2 DEF Stores
  <2>2. CASE w # v
    <3>1. logger'[w] = logger[w] /\ logger[w] \in Loggers
      BY <1>3, <2>2 DEF TypeOK
    <3>2. PICK k \in Loggers : k = logger[w] /\ k = logger'[w]
      BY <3>1
    <3>3. /\ out[k] \in Seq(Msgs \cup {EmptyMsg}) /\ out'[k] = out[k]
          /\ durable[k] \in Nat /\ durable[k] <= Len(out[k])
          /\ durable'[k] \in Nat /\ durable'[k] <= Len(out[k])
      BY <1>3, <1>4 DEF TypeOK, Sinks
    <3>4. Durable(k)' = {out[k][i] : i \in 1 .. durable'[k]}
      BY <3>3, ElementsOfFirst DEF Durable
    <3>5. Durable(k) = {out[k][i] : i \in 1 .. durable[k]}
      BY <3>3, ElementsOfFirst DEF Durable
    <3>6. Durable(k) \subseteq Durable(k)'
      BY <1>4, <3>3, <3>4, <3>5
    <3>7. Durable(logger[w])' = Durable(k)'
      BY <3>2
    <3> QED BY <1>3, <3>2, <3>6, <3>7 DEF Sinks, Stores
  <2> QED BY <2>1, <2>2
<1> QED BY <1>5, <1>6 DEF Sinks

\* What a worker does before it writes.
LEMMA SinksWorker ==
  ASSUME TypeOK, TypeOK', Sinks, NEW w \in Writers,
         WorkerLoop(w) \/ WorkerTest(w) \/ WorkerTake(w)
  PROVE  Sinks'
<1>1. UNCHANGED <<out, durable, logger, target, written, life, accepted>>
  BY DEF WorkerLoop, WorkerTest, WorkerTake, WorkerRest, sinkVars, writerVars
<1>2. \A v \in Writers : wpc'[v] = "write" => wpc[v] = "write"
  <2>1. \E at \in {"loop", "test", "take", "load", "done"} : wpc' = [wpc EXCEPT ![w] = at]
    BY DEF WorkerLoop, WorkerTest, WorkerTake
  <2> QED BY <2>1 DEF TypeOK
<1> QED BY <1>1, <1>2, SinksLife

LEMMA SinksLoad ==
  ASSUME TypeOK, TypeOK', Sinks, NEW w \in Writers, WorkerLoad(w)
  PROVE  Sinks'
<1>1. UNCHANGED <<out, durable, logger, written, life, accepted>>
  BY DEF WorkerLoad, WorkerRest, sinkVars, writerVars
<1>2. \A v \in Writers : wpc'[v] = "write" => target'[v] = logger[v]
  BY DEF WorkerLoad, TypeOK, Sinks
<1> QED BY <1>1, <1>2 DEF Sinks, Stores, Durable

\* A worker that has a logger appends to what its logger has.
LEMMA SinksWrite ==
  ASSUME TypeOK, TypeOK', Sinks, HandOffInv, Unjoinable, NEW w \in Writers, WorkerWrite(w)
  PROVE  fault' = "none" /\ Sinks'
<1>1. PICK l \in Loggers : l = target[w] /\ l = logger[w]
  BY DEF WorkerWrite, Working, Sinks, TypeOK
<1>2. Stores(l) /\ LoggerKind[l] \notin {"Null", "Dummy"} /\ fault = "none"
  BY <1>1 DEF Sinks, Stores, WorkerWrite, Working
<1>3. /\ Emit(l, inflight[w]) /\ written' = [written EXCEPT ![w] = @ \o inflight[w]]
      /\ wpc' = [wpc EXCEPT ![w] = "loop"]
      /\ UNCHANGED <<target, fault, logger, life, accepted>>
  BY <1>1, <1>2 DEF WorkerWrite, WorkerRest, writerVars
<1>4. PICK m : m = inflight[w]
  OBVIOUS
<1>5. m \in Seq(Msgs) /\ m \in Seq(Msgs \cup {EmptyMsg})
  BY <1>4 DEF HandOffInv, HandOff, TypeOK
<1>6. out' = [out EXCEPT ![l] = out[l] \o m]
  BY <1>2, <1>3, <1>4 DEF Emit
<1>7. life[w] \notin {"free", "dead"}
  <2>1. joinable[w]
    BY DEF WorkerWrite, Working, HandOffInv, HandOff
  <2> QED BY <2>1 DEF Unjoinable
<1>8. ASSUME NEW k \in Loggers
      PROVE  /\ out[k] \in Seq(Msgs \cup {EmptyMsg}) /\ out'[k] \in Seq(Msgs \cup {EmptyMsg})
             /\ Len(out[k]) <= Len(out'[k]) /\ \A i \in 1 .. Len(out[k]) : out'[k][i] = out[k][i]
             /\ durable[k] \in Nat /\ durable'[k] \in Nat
             /\ durable[k] <= Len(out[k]) /\ durable[k] <= durable'[k]
             /\ durable'[k] <= Len(out'[k])
  <2>1. out[k] \in Seq(Msgs \cup {EmptyMsg}) /\ durable[k] \in Nat /\ durable'[k] \in Nat
        /\ durable[k] <= Len(out[k])
    BY DEF TypeOK, Sinks
  <2>2. CASE k = l
    <3>1. out'[k] = out[k] \o m
      BY <1>6, <2>2 DEF TypeOK
    <3>2. /\ out'[k] \in Seq(Msgs \cup {EmptyMsg}) /\ Len(out'[k]) = Len(out[k]) + Len(m)
          /\ \A i \in 1 .. Len(out[k]) + Len(m) :
               out'[k][i] = IF i <= Len(out[k]) THEN out[k][i] ELSE m[i - Len(out[k])]
      BY <1>5, <2>1, <3>1, ConcatProperties
    <3>3. durable'[k] = IF LoggerKind[l] = "Console" THEN Len(out[k]) + Len(m) ELSE durable[k]
      BY <1>3, <1>4, <2>2 DEF Emit, TypeOK
    <3>4. Len(m) \in Nat /\ Len(out[k]) \in Nat
      BY <1>5, <2>1
    <3> QED BY <2>1, <3>2, <3>3, <3>4
  <2>3. CASE k # l
    <3>1. out'[k] = out[k] /\ durable'[k] = durable[k]
      BY <1>3, <1>6, <2>3 DEF Emit, TypeOK
    <3>2. Len(out[k]) \in Nat
      BY <2>1
    <3> QED BY <2>1, <3>1, <3>2
  <2> QED BY <2>2, <2>3
<1>9. ASSUME NEW k \in Loggers
      PROVE  /\ Elements(out[k]) \subseteq Elements(out'[k])
             /\ Durable(k) \subseteq Durable(k)'
  <2>1. Elements(out[k]) = {out[k][i] : i \in 1 .. Len(out[k])}
        /\ Elements(out'[k]) = {out'[k][i] : i \in 1 .. Len(out'[k])}
        /\ Len(out[k]) \in Nat /\ Len(out'[k]) \in Nat
    BY <1>8, ElementsIs
  <2>2. Durable(k) = {out[k][i] : i \in 1 .. durable[k]}
    BY <1>8, ElementsOfFirst DEF Durable
  <2>3. Durable(k)' = {out'[k][i] : i \in 1 .. durable'[k]}
    BY <1>8, ElementsOfFirst DEF Durable
  <2>4. Elements(out[k]) \subseteq Elements(out'[k])
    <3>1. ASSUME NEW i \in 1 .. Len(out[k])
          PROVE  i \in 1 .. Len(out'[k]) /\ out'[k][i] = out[k][i]
      BY <1>8, <2>1
    <3> QED BY <2>1, <3>1
  <2>5. Durable(k) \subseteq Durable(k)'
    <3>1. ASSUME NEW i \in 1 .. durable[k]
          PROVE  i \in 1 .. durable'[k] /\ out'[k][i] = out[k][i]
      <4>1. i \in 1 .. Len(out[k]) /\ i \in 1 .. durable'[k]
        BY <1>8, <2>1
      <4> QED BY <1>8, <4>1
    <3> QED BY <2>2, <2>3, <3>1
  <2> QED BY <2>4, <2>5
<1>10. Elements(m) \subseteq Elements(out'[l])
  <2>1. out'[l] = out[l] \o m /\ out[l] \in Seq(Msgs \cup {EmptyMsg})
    BY <1>6 DEF TypeOK
  <2>2. Elements(out[l] \o m) = Elements(out[l]) \cup Elements(m)
    BY <1>5, <2>1, ElementsConcat
  <2> QED BY <2>1, <2>2
<1>11. ASSUME NEW v \in Writers
       PROVE  Elements(written'[v]) \subseteq Elements(out'[logger'[v]])
  <2>1. PICK k \in Loggers : k = logger[v] /\ k = logger'[v]
    BY <1>3 DEF TypeOK
  <2>2. Elements(written[v]) \subseteq Elements(out'[k])
    BY <1>9, <2>1 DEF Sinks
  <2>3. CASE v = w
    <3>1. written'[v] = written[v] \o m /\ written[v] \in Seq(Msgs \cup {EmptyMsg})
      <4>1. written' = [written EXCEPT ![w] = @ \o m]
        BY <1>3, <1>4
      <4>2. written \in [Writers -> Seq(Msgs \cup {EmptyMsg})]
        BY DEF TypeOK
      <4> QED BY <2>3, <4>1, <4>2
    <3>2. Elements(written[v] \o m) = Elements(written[v]) \cup Elements(m)
      BY <1>5, <3>1, ElementsConcat
    <3>3. k = l
      BY <1>1, <2>1, <2>3
    <3> QED BY <1>10, <2>1, <2>2, <3>1, <3>2, <3>3
  <2>4. CASE v # w
    BY <1>3, <2>1, <2>2, <2>4 DEF TypeOK
  <2> QED BY <2>3, <2>4
<1>12. ASSUME NEW v \in Writers, life'[v] = "dead"
       PROVE  Elements(written'[v]) \subseteq Durable(logger[v])'
  <2>1. PICK k \in Loggers : k = logger[v] /\ k = logger'[v]
    BY <1>3 DEF TypeOK
  <2>2. v # w /\ life[v] = "dead" /\ written'[v] = written[v]
    BY <1>3, <1>7, <1>12 DEF TypeOK
  <2>3. Elements(written[v]) \subseteq Durable(k)
    BY <2>1, <2>2 DEF Sinks
  <2>4. Durable(logger[v])' = Durable(k)'
    BY <2>1
  <2> QED BY <1>9, <2>2, <2>3, <2>4
<1>13. \A l2 \in Loggers : durable'[l2] <= Len(out'[l2])
  BY <1>8
<1>14. ASSUME NEW v \in Writers
       PROVE  /\ Stores(logger[v])'
              /\ wpc'[v] = "write" => target'[v] = logger'[v]
              /\ life'[v] = "free" => accepted'[v] = <<>>
  BY <1>3 DEF Sinks, Stores, TypeOK
<1>15. fault' = "none"
  BY <1>2, <1>3
<1> QED BY <1>11, <1>12, <1>13, <1>14, <1>15 DEF Sinks

------------------------------------------------------------------------------
(* Several threads share one writer. *)

\* A call in sharing use.
LEMMA ShareCall ==
  ASSUME TypeInv, NEW p, NEW n, Played(p, n), ShareInv(p, n), NEW c \in Clients, prog[c] # <<>>
  PROVE  /\ n[c] + 1 \in Nat \ {0} /\ n[c] + 1 \in DOMAIN p[c]
         /\ Call(c) = p[c][n[c] + 1]
         /\ Call(c).op \in {"create", "log", "flush", "close"} /\ Call(c).h \in Handles
         /\ Call(c).op \in {"log", "flush", "close"} => Open(p[c], n[c] + 1, Call(c).h)
<1>1. TypeOK
  BY DEF TypeInv
<1>2. n[c] \in Nat /\ n[c] + 1 \in DOMAIN p[c] /\ Call(c) = p[c][n[c] + 1]
  BY <1>1, PlayedHead
<1>3. Call(c).op \in {"create", "flush", "close", "log", "set", "stop"}
      /\ (Call(c).op \in {"create", "flush", "close", "log"} => Call(c).h \in Handles)
  BY <1>1, CallTypes
<1>4. Call(c).op \notin {"stop", "set"}
  BY <1>2 DEF ShareInv, SharingUse
<1>5. Call(c).op \in {"log", "flush", "close"} => Open(p[c], n[c] + 1, Call(c).h)
  BY <1>2 DEF ShareInv, SharingUse, Scoped
<1> QED BY <1>2, <1>3, <1>4, <1>5

ShareGoes(p) == \E m \in [Clients -> Nat] : Played(p, m)' /\ ShareInv(p, m)'

\* What a step of client c has to leave alone.
LEMMA ShareStep ==
  ASSUME TypeInv, NEW p, NEW n, Played(p, n), ShareInv(p, n), NEW c \in Clients, prog[c] # <<>>,
         NEW m \in [Clients -> Nat], Played(p, m)', \A d \in Clients \ {c} : m[d] = n[d],
         \A w \in Writers : life'[w] = "free" \/ w = instance',
         \A w \in Writers : joinable'[w] => running'[w],
         instance # NoWriter => instance' = instance,
         \A d \in Clients \ {c} : pc'[d] = pc[d] /\ tmp'[d] = tmp[d],
         \A d \in Clients \ {c} : pc[d] = "spawn" => running' = running /\ joinable' = joinable,
         \A h \in Handles : mgr'[h] = mgr[h] \/ mgr'[h] # NoWriter
                              \/ (Call(c).op = "close" /\ Call(c).h = h),
         ShareOf(c, p[c], m[c] + 1)'
  PROVE  ShareGoes(p)
<1>1. ASSUME NEW d \in Clients, d # c PROVE ShareOf(d, p[d], m[d] + 1)'
  <2>1. pc'[d] = pc[d] /\ tmp'[d] = tmp[d] /\ m[d] = n[d]
    BY <1>1
  <2>2. ShareOf(d, p[d], n[d] + 1)
    BY DEF ShareInv
  <2>3. pc[d] # "idle" => instance # NoWriter /\ instance' = instance
    BY <2>2 DEF ShareOf
  <2>4. pc[d] = "spawn" => running'[instance'] /\ ~joinable'[instance']
    BY <1>1, <2>2, <2>3 DEF ShareOf
  <2>5. ASSUME NEW h \in Handles, Open(p[d], n[d] + 1, h) PROVE mgr'[h] # NoWriter
    <3>1. mgr[h] # NoWriter
      BY <2>2, <2>5 DEF ShareOf
    <3>2. ~(Call(c).op = "close" /\ Call(c).h = h)
      <4>0. SUFFICES ASSUME Call(c).h = h PROVE FALSE
        OBVIOUS
      <4>1. PICK j \in 1 .. (n[d] + 1) - 1 : p[d][j].h = h
        BY <2>5 DEF Open
      <4>2. n[d] \in Nat /\ n[d] <= Len(p[d]) /\ p[d] \in Seq(Calls)
        BY ConstantsAssumption DEF Played
      <4>3. j \in DOMAIN p[d]
        BY <4>2
      <4>4. n[c] + 1 \in DOMAIN p[c] /\ Call(c) = p[c][n[c] + 1]
        BY ShareCall
      <4>5. p[c][n[c] + 1].h = p[d][j].h
        BY <4>0, <4>1, <4>4
      <4> QED BY <1>1, <4>3, <4>4, <4>5 DEF ShareInv, SharingUse
    <3> QED BY <3>1, <3>2
  <2>6. \A h \in Handles : Open(p[d], m[d] + 1, h) => mgr'[h] # NoWriter
    BY <2>1, <2>5
  <2> QED BY <2>1, <2>2, <2>3, <2>4, <2>6 DEF ShareOf
<1>2. \A d \in Clients : ShareOf(d, p[d], m[d] + 1)'
  BY <1>1
<1>3. SharingUse(p)
  BY DEF ShareInv
<1>4. ShareInv(p, m)'
  BY <1>2, <1>3 DEF ShareInv
<1> QED BY <1>4 DEF ShareGoes

\* A step in the middle of a call.
LEMMA ShareSame ==
  ASSUME TypeInv, NEW p, NEW n, Played(p, n), ShareInv(p, n), NEW c \in Clients, prog[c] # <<>>,
         prog' = prog, NEW at \in {"idle", "check", "spawn", "load", "ref"},
         pc' = [pc EXCEPT ![c] = at], mgr' = mgr,
         \A w \in Writers : life'[w] = "free" \/ w = instance',
         \A w \in Writers : joinable'[w] => running'[w],
         instance # NoWriter => instance' = instance,
         \A d \in Clients \ {c} : tmp'[d] = tmp[d],
         \A d \in Clients \ {c} : pc[d] = "spawn" => running' = running /\ joinable' = joinable,
         at # "idle" => instance' # NoWriter,
         at \in {"spawn", "ref"} => tmp'[c] = instance',
         at = "spawn" => running'[instance'] /\ ~joinable'[instance']
  PROVE  ShareGoes(p)
<1>1. pc'[c] = at /\ \A d \in Clients \ {c} : pc'[d] = pc[d]
  BY DEF TypeInv, TypeOK
<1>2. Played(p, n)' /\ n \in [Clients -> Nat]
  BY DEF Played
<1>3. \A h \in Handles : Open(p[c], n[c] + 1, h) => mgr'[h] # NoWriter
  BY DEF ShareInv, ShareOf
<1>4. ShareOf(c, p[c], n[c] + 1)'
  BY <1>1, <1>3 DEF ShareOf
<1> QED BY <1>1, <1>2, <1>4, ShareStep

\* The return from a call.
LEMMA ShareReturn ==
  ASSUME TypeInv, NEW p, NEW n, Played(p, n), ShareInv(p, n), NEW c \in Clients, prog[c] # <<>>,
         Return(c), UNCHANGED <<instance, life, running, joinable>>,
         \A d \in Clients \ {c} : tmp'[d] = tmp[d],
         \A h \in Handles : mgr'[h] = mgr[h] \/ mgr'[h] # NoWriter
                              \/ (Call(c).op = "close" /\ Call(c).h = h),
         Call(c).op = "create" => mgr'[Call(c).h] # NoWriter
  PROVE  ShareGoes(p)
<1>1. pc'[c] = "idle" /\ \A d \in Clients \ {c} : pc'[d] = pc[d]
  BY DEF TypeInv, TypeOK, Return
<1>2. PICK m : m = [n EXCEPT ![c] = @ + 1]
  OBVIOUS
<1>3. Played(p, m)' /\ m \in [Clients -> Nat] /\ m[c] = n[c] + 1
      /\ \A d \in Clients \ {c} : m[d] = n[d]
  <2>1. TypeOK /\ prog' = [prog EXCEPT ![c] = Tail(@)]
    BY DEF TypeInv, Return
  <2> QED BY <1>2, <2>1, PlayedReturn
<1>4. ASSUME NEW h \in Handles, Open(p[c], m[c] + 1, h) PROVE mgr'[h] # NoWriter
  <2>1. PICK i \in Nat \ {0} : i = n[c] + 1 /\ Call(c) = p[c][i]
    BY ShareCall
  <2>2. Open(p[c], i + 1, h)
    BY <1>3, <1>4, <2>1
  <2>3. \/ Call(c).op = "create" /\ Call(c).h = h
        \/ Open(p[c], i, h) /\ ~(Call(c).op = "close" /\ Call(c).h = h)
    BY <2>1, <2>2, OpenNext
  <2>4. CASE Call(c).op = "create" /\ Call(c).h = h
    BY <2>4
  <2>5. CASE Open(p[c], i, h) /\ ~(Call(c).op = "close" /\ Call(c).h = h)
    BY <2>1, <2>5 DEF ShareInv, ShareOf
  <2> QED BY <2>3, <2>4, <2>5
<1>5. ShareOf(c, p[c], m[c] + 1)'
  BY <1>1, <1>4 DEF ShareOf
<1>6. \A w \in Writers : life'[w] = "free" \/ w = instance'
  BY DEF ShareInv
<1>7. \A w \in Writers : joinable'[w] => running'[w]
  BY DEF ShareInv
<1> QED BY <1>1, <1>3, <1>5, <1>6, <1>7, ShareStep

\* Another client is idle while this one has instanceMutex, or while it is free.
LEMMA ShareAlone ==
  ASSUME TypeInv, LockInv, NEW p, NEW n, ShareInv(p, n), NEW c \in Clients,
         lock \in {NoClient, c}, NEW d \in Clients \ {c}
  PROVE  pc[d] = "idle"
<1>1. lock # d
  BY ConstantsAssumption
<1> QED BY <1>1 DEF LockInv, ShareInv, ShareOf

LEMMA ShareLockInstance ==
  ASSUME TypeInv, LockInv, NEW p, NEW n, Played(p, n), ShareInv(p, n), NEW c \in Clients,
         LockInstance(c)
  PROVE  fault' = "none" /\ ShareGoes(p)
<1>1. prog[c] # <<>> /\ fault = "none" /\ fault' = fault /\ lock = NoClient
  BY DEF LockInstance, Calling
<1>2. Call(c).op # "set"
  BY <1>1, ShareCall
<1>3. pc' = [pc EXCEPT ![c] = "check"] /\ prog' = prog
  BY <1>2 DEF LockInstance, Goto
<1>4. UNCHANGED <<running, joinable, tmp, mgr>>
  BY DEF LockInstance
<1>5. \A d \in Clients \ {c} : pc[d] = "idle"
  BY <1>1, ShareAlone
<1>6. /\ \A w \in Writers : life'[w] = "free" \/ w = instance'
      /\ instance # NoWriter => instance' = instance
      /\ instance' # NoWriter
  <2>1. CASE instance # NoWriter /\ UNCHANGED <<instance, life>>
    BY <2>1 DEF ShareInv
  <2>2. ASSUME instance = NoWriter, Unused # {}, instance' = CHOOSE w \in Unused : TRUE,
               life' = [life EXCEPT ![instance'] = "live"]
        PROVE  /\ \A w \in Writers : life'[w] = "free" \/ w = instance'
               /\ instance' # NoWriter
    <3>1. instance' \in Unused /\ instance' \in Writers
      BY <2>2 DEF Unused
    <3>2. \A w \in Writers : life[w] = "free"
      BY <2>2, ConstantsAssumption DEF ShareInv
    <3> QED BY <2>2, <3>1, <3>2, ConstantsAssumption DEF TypeInv, TypeOK
  <2> QED BY <2>1, <2>2 DEF LockInstance
<1>7. \A w \in Writers : joinable'[w] => running'[w]
  BY <1>4 DEF ShareInv
<1> QED BY <1>1, <1>3, <1>4, <1>5, <1>6, <1>7, ShareSame

LEMMA ShareCheckRunning ==
  ASSUME TypeInv, LockInv, NEW p, NEW n, Played(p, n), ShareInv(p, n), NEW c \in Clients,
         CheckRunning(c)
  PROVE  fault' = "none" /\ ShareGoes(p)
<1>1. pc[c] = "check" /\ fault = "none"
  BY DEF CheckRunning, In
<1>2. prog[c] # <<>> /\ lock = c
  BY <1>1 DEF TypeInv, CallInv, LockInv
<1>3. instance # NoWriter
  BY <1>1 DEF ShareInv, ShareOf
<1>4. UNCHANGED <<instance, life, joinable, mgr, fault>>
  BY <1>3 DEF CheckRunning
<1>5. \A d \in Clients \ {c} : pc[d] = "idle"
  BY <1>2, ShareAlone
<1>6. \A w \in Writers : life'[w] = "free" \/ w = instance'
  BY <1>4 DEF ShareInv
<1>7. CASE running[instance] /\ Goto(c, "load") /\ UNCHANGED <<running, tmp>>
  <2>1. pc' = [pc EXCEPT ![c] = "load"] /\ prog' = prog
    BY <1>7 DEF Goto
  <2>2. \A w \in Writers : joinable'[w] => running'[w]
    BY <1>4, <1>7 DEF ShareInv
  <2> QED BY <1>1, <1>2, <1>3, <1>4, <1>5, <1>6, <1>7, <2>1, <2>2, ShareSame
<1>8. CASE ~running[instance] /\ Goto(c, "spawn")
           /\ running' = [running EXCEPT ![instance] = TRUE]
           /\ tmp' = [tmp EXCEPT ![c] = instance]
  <2>1. pc' = [pc EXCEPT ![c] = "spawn"] /\ prog' = prog
    BY <1>8 DEF Goto
  <2>2. instance \in Writers /\ running \in [Writers -> BOOLEAN]
        /\ tmp \in [Clients -> Writers \cup {NoWriter}]
    BY <1>3 DEF TypeInv, TypeOK
  <2>3. \A w \in Writers : joinable'[w] => running'[w]
    BY <1>4, <1>8, <2>2 DEF ShareInv
  <2>4. running'[instance'] /\ ~joinable'[instance']
    BY <1>4, <1>8, <2>2 DEF ShareInv
  <2>5. tmp'[c] = instance' /\ \A d \in Clients \ {c} : tmp'[d] = tmp[d]
    BY <1>4, <1>8, <2>2
  <2> QED BY <1>1, <1>2, <1>3, <1>4, <1>5, <1>6, <2>1, <2>3, <2>4, <2>5, ShareSame
<1> QED BY <1>3, <1>7, <1>8 DEF CheckRunning

LEMMA ShareSpawn ==
  ASSUME TypeInv, LockInv, LiveOwned, NEW p, NEW n, Played(p, n), ShareInv(p, n),
         NEW c \in Clients, Spawn(c)
  PROVE  fault' = "none" /\ ShareGoes(p)
<1>1. pc[c] = "spawn" /\ fault = "none"
  BY DEF Spawn, In
<1>2. prog[c] # <<>> /\ lock = c
  BY <1>1 DEF TypeInv, CallInv, LockInv
<1>3. tmp[c] = instance /\ instance # NoWriter /\ running[instance] /\ ~joinable[instance]
  BY <1>1 DEF ShareInv, ShareOf
<1>4. life[instance] = "live" /\ instance \in Writers
  BY <1>3 DEF LiveOwned, TypeInv, TypeOK
<1>5. /\ joinable' = [joinable EXCEPT ![instance] = TRUE]
      /\ tmp' = [tmp EXCEPT ![c] = NoWriter]
      /\ Goto(c, "load")
      /\ UNCHANGED <<instance, life, running, mgr, fault>>
  BY <1>3, <1>4 DEF Spawn
<1>6. \A d \in Clients \ {c} : pc[d] = "idle" /\ tmp'[d] = tmp[d]
  BY <1>2, <1>5, ShareAlone DEF TypeInv, TypeOK
<1>7. \A w \in Writers : life'[w] = "free" \/ w = instance'
  BY <1>5 DEF ShareInv
<1>8. \A w \in Writers : joinable'[w] => running'[w]
  BY <1>3, <1>5 DEF ShareInv, TypeInv, TypeOK
<1>9. pc' = [pc EXCEPT ![c] = "load"] /\ prog' = prog
  BY <1>5 DEF Goto
<1> QED BY <1>1, <1>2, <1>3, <1>5, <1>6, <1>7, <1>8, <1>9, ShareSame

LEMMA ShareLoad ==
  ASSUME TypeInv, LockInv, NEW p, NEW n, Played(p, n), ShareInv(p, n), NEW c \in Clients,
         LoadInstance(c)
  PROVE  fault' = "none" /\ ShareGoes(p)
<1>1. pc[c] = "load" /\ fault = "none"
  BY DEF LoadInstance, In
<1>2. prog[c] # <<>> /\ lock = c
  BY <1>1 DEF TypeInv, CallInv, LockInv
<1>3. instance # NoWriter
  BY <1>1 DEF ShareInv, ShareOf
<1>4. /\ tmp' = [tmp EXCEPT ![c] = instance] /\ pc' = [pc EXCEPT ![c] = "ref"] /\ prog' = prog
      /\ UNCHANGED <<instance, life, running, joinable, mgr, fault>>
  BY DEF LoadInstance, Goto, writerVars
<1>5. \A d \in Clients \ {c} : pc[d] = "idle"
  BY <1>2, ShareAlone
<1>6. tmp'[c] = instance' /\ \A d \in Clients \ {c} : tmp'[d] = tmp[d]
  BY <1>4 DEF TypeInv, TypeOK
<1>7. \A w \in Writers : life'[w] = "free" \/ w = instance'
  BY <1>4 DEF ShareInv
<1>8. \A w \in Writers : joinable'[w] => running'[w]
  BY <1>4 DEF ShareInv
<1> QED BY <1>1, <1>2, <1>3, <1>4, <1>5, <1>6, <1>7, <1>8, ShareSame

LEMMA ShareReference ==
  ASSUME TypeInv, LiveOwned, NEW p, NEW n, Played(p, n), ShareInv(p, n), NEW c \in Clients,
         AddReference(c)
  PROVE  fault' = "none" /\ ShareGoes(p)
<1>1. pc[c] = "ref" /\ fault = "none"
  BY DEF AddReference, In
<1>2. prog[c] # <<>>
  BY <1>1 DEF TypeInv, CallInv
<1>3. tmp[c] = instance /\ instance # NoWriter
  BY <1>1 DEF ShareInv, ShareOf
<1>4. life[instance] = "live"
  BY <1>3 DEF LiveOwned
<1>5. Call(c).op # "stop" /\ Call(c).h \in Handles
  BY <1>2, ShareCall
<1>6. /\ mgr' = [mgr EXCEPT ![Call(c).h] = instance]
      /\ tmp' = [tmp EXCEPT ![c] = NoWriter]
      /\ Return(c)
      /\ UNCHANGED <<instance, life, running, joinable, fault>>
  BY <1>3, <1>4, <1>5 DEF AddReference, writerVars
<1>7. \A h \in Handles : mgr'[h] = mgr[h] \/ mgr'[h] # NoWriter
  BY <1>3, <1>6 DEF TypeInv, TypeOK
<1>8. mgr'[Call(c).h] # NoWriter
  BY <1>3, <1>5, <1>6 DEF TypeInv, TypeOK
<1>9. \A d \in Clients \ {c} : tmp'[d] = tmp[d]
  BY <1>6 DEF TypeInv, TypeOK
<1> QED BY <1>1, <1>2, <1>6, <1>7, <1>8, <1>9, ShareReturn

LEMMA ShareLog ==
  ASSUME TypeInv, NEW p, NEW n, Played(p, n), ShareInv(p, n), NEW c \in Clients,
         Log(c) \/ Flushed(c)
  PROVE  fault' = "none" /\ ShareGoes(p)
<1>1. prog[c] # <<>> /\ fault = "none" /\ Call(c).op # "create"
  BY DEF Log, Flushed, Calling
<1>2. Return(c) /\ UNCHANGED <<instance, life, running, joinable, mgr, tmp, fault>>
  BY DEF Log, Flushed, writerVars
<1> QED BY <1>1, <1>2, ShareReturn

LEMMA ShareEnqueue ==
  ASSUME TypeInv, NEW p, NEW n, Played(p, n), ShareInv(p, n), NEW c \in Clients, Enqueue(c)
  PROVE  fault' = "none" /\ ShareGoes(p)
<1>1. prog[c] # <<>> /\ fault = "none" /\ Call(c).op \in {"flush", "close"} /\ pc[c] = "idle"
  BY DEF Enqueue, Calling
<1>2. Open(p[c], n[c] + 1, Call(c).h) /\ Call(c).h \in Handles
  BY <1>1, ShareCall
<1>3. mgr[Call(c).h] # NoWriter
  BY <1>2 DEF ShareInv, ShareOf
<1>4. UNCHANGED <<instance, life, running, joinable, mgr, tmp, pc, prog, fault>>
  BY <1>3 DEF Enqueue, writerVars, clientVars
<1>5. pc' = [pc EXCEPT ![c] = "idle"]
  BY <1>1, <1>4 DEF TypeInv, TypeOK
<1>6. \A w \in Writers : life'[w] = "free" \/ w = instance'
  BY <1>4 DEF ShareInv
<1>7. \A w \in Writers : joinable'[w] => running'[w]
  BY <1>4 DEF ShareInv
<1> QED BY <1>1, <1>4, <1>5, <1>6, <1>7, ShareSame

LEMMA ShareClose ==
  ASSUME TypeInv, LiveOwned, NEW p, NEW n, Played(p, n), ShareInv(p, n), NEW c \in Clients,
         Close(c)
  PROVE  fault' = "none" /\ ShareGoes(p)
<1>1. prog[c] # <<>> /\ fault = "none" /\ Call(c).op = "close"
  BY DEF Close, Calling
<1>2. Open(p[c], n[c] + 1, Call(c).h) /\ Call(c).h \in Handles
  BY <1>1, ShareCall
<1>3. PICK h \in Handles : h = Call(c).h
  BY <1>2
<1>4. mgr[h] # NoWriter /\ mgr[h] \in Writers
  BY <1>2, <1>3 DEF ShareInv, ShareOf, TypeInv, TypeOK
<1>5. life[mgr[h]] = "live"
  BY <1>4 DEF LiveOwned
<1>6. instance = mgr[h]
  BY <1>4, <1>5 DEF ShareInv
<1>7. ~LastOwner(mgr[h], h)
  <2>1. "instance" \in Owners(mgr[h]) /\ "instance" # h
    BY <1>6, ConstantsAssumption DEF Owners
  <2> QED BY <2>1 DEF LastOwner
<1>8. /\ Return(c) /\ mgr' = [mgr EXCEPT ![h] = NoWriter]
      /\ UNCHANGED <<instance, life, running, joinable, tmp, fault>>
  BY <1>3, <1>7 DEF Close, Drop
<1>9. \A g \in Handles : mgr'[g] = mgr[g] \/ (Call(c).op = "close" /\ Call(c).h = g)
  BY <1>1, <1>3, <1>8 DEF TypeInv, TypeOK
<1> QED BY <1>1, <1>8, <1>9, ShareReturn

\* Nobody stops or sets anything.
LEMMA ShareClient ==
  ASSUME TypeInv, LockInv, LiveOwned, NEW p, NEW n, Played(p, n), ShareInv(p, n),
         NEW c \in Clients, ClientStep(c)
  PROVE  fault' = "none" /\ ShareGoes(p) /\ ~SetLogger(c)
<1>1. ~SetLogger(c)
  <2>1. pc[c] # "set"
    BY DEF ShareInv, ShareOf
  <2> QED BY <2>1 DEF SetLogger, In
<1>2. ~(\/ StopCheck(c) \/ StopDrained(c) \/ StopClear(c) \/ StopFlush(c)
        \/ StopJoin(c) \/ StopReset(c) \/ StopReturn(c) \/ Destroy(c))
  <2>1. \A at : ~At(c, at)
    BY DEF ShareInv, ShareOf, At, In
  <2> QED BY <2>1 DEF StopCheck, StopDrained, StopClear, StopFlush, StopJoin, StopReset,
                      StopReturn, Destroy
<1>3. fault' = "none" /\ ShareGoes(p)
  BY <1>1, <1>2, ShareLockInstance, ShareCheckRunning, ShareSpawn, ShareLoad, ShareReference,
     ShareLog, ShareEnqueue, ShareClose DEF ClientStep
<1> QED BY <1>1, <1>3

\* A step that changes none of this: a worker, or no step.
LEMMA ShareRest ==
  ASSUME NEW p, NEW n, Played(p, n), ShareInv(p, n),
         UNCHANGED <<prog, instance, life, running, joinable, pc, tmp, mgr>>
  PROVE  ShareGoes(p)
<1>1. Played(p, n)' /\ n \in [Clients -> Nat]
  BY DEF Played
<1>2. ShareInv(p, n)'
  BY DEF ShareInv, ShareOf
<1> QED BY <1>1, <1>2 DEF ShareGoes

------------------------------------------------------------------------------
(* One thread uses the logger alone. *)

\* A call in sequential use.
LEMMA OneCall ==
  ASSUME TypeInv, NEW p, NEW n, NEW c \in Clients, Played(p, n), SequentialInv(p, n, c),
         prog[c] # <<>>
  PROVE  /\ n[c] + 1 \in Nat \ {0} /\ Call(c) = p[c][n[c] + 1]
         /\ Call(c).op \in {"create", "flush", "close", "log", "set", "stop"}
         /\ Call(c).op \in {"create", "flush", "close", "log"} => Call(c).h \in Handles
         /\ Call(c).op \in {"log", "flush", "close"} => Open(p[c], n[c] + 1, Call(c).h)
         /\ Call(c).op \in {"flush", "close"} /\ Buffered(p[c], n[c] + 1) =>
              Fresh(p[c], n[c] + 1, Call(c).h)
         /\ Call(c).op = "set" => /\ Unstarted(p[c], n[c] + 1)
                                  /\ Stores(Call(c).l) /\ Call(c).l \in Loggers
<1>1. TypeOK
  BY DEF TypeInv
<1>2. n[c] \in Nat /\ n[c] + 1 \in DOMAIN p[c] /\ Call(c) = p[c][n[c] + 1]
  BY <1>1, PlayedHead
<1>3. /\ Call(c).op \in {"create", "flush", "close", "log", "set", "stop"}
      /\ Call(c).op \in {"create", "flush", "close", "log"} => Call(c).h \in Handles
      /\ Call(c).op = "set" => Call(c).l \in Loggers
  BY <1>1, CallTypes
<1>4. SequentialUse(p[c])
  BY DEF SequentialInv
<1>5. Call(c).op \in {"log", "flush", "close"} => Open(p[c], n[c] + 1, Call(c).h)
  BY <1>2, <1>4 DEF SequentialUse, Scoped
<1>6. /\ Call(c).op \in {"flush", "close"} /\ Buffered(p[c], n[c] + 1) =>
           Fresh(p[c], n[c] + 1, Call(c).h)
      /\ Call(c).op = "set" => Unstarted(p[c], n[c] + 1) /\ Stores(Call(c).l)
  BY <1>2, <1>4 DEF SequentialUse
<1> QED BY <1>2, <1>3, <1>5, <1>6

\* The others make no calls.
LEMMA OneCaller ==
  ASSUME TypeInv, NEW p, NEW n, NEW c \in Clients, Played(p, n), SequentialInv(p, n, c),
         NEW d \in Clients \ {c}
  PROVE  ~ClientStep(d)
<1>1. p[d] = <<>> /\ n[d] \in Nat /\ prog[d] = SubSeq(p[d], n[d] + 1, Len(p[d]))
  BY DEF SequentialInv, Played
<1>2. prog[d] = <<>>
  BY <1>1
<1>3. pc[d] = "idle"
  BY <1>2 DEF TypeInv, TypeOK, CallInv
<1> QED BY <1>2, <1>3
        DEF ClientStep, LockInstance, CheckRunning, Spawn, LoadInstance, AddReference, SetLogger,
            Log, Enqueue, Flushed, Close, StopCheck, StopDrained, StopClear, StopFlush, StopJoin,
            StopReset, StopReturn, Destroy, Calling, In, At

OneGoes(p, c) == \E m \in [Clients -> Nat] : Played(p, m)' /\ SequentialInv(p, m, c)'

\* A step in the middle of a call.
LEMMA OneSame ==
  ASSUME NEW p, NEW n, NEW c \in Clients, Played(p, n), SequentialInv(p, n, c), prog' = prog,
         OthersDone', Placed(c)', Agrees(c, p[c], n[c] + 1)'
  PROVE  OneGoes(p, c)
<1>1. Played(p, n)' /\ n \in [Clients -> Nat]
  BY DEF Played
<1>2. SequentialInv(p, n, c)'
  BY DEF SequentialInv
<1> QED BY <1>1, <1>2 DEF OneGoes

\* The same, with the count of calls left open.
LEMMA PlayedOn ==
  ASSUME TypeOK, NEW p, NEW n, Played(p, n), NEW c \in Clients, prog[c] # <<>>, Return(c)
  PROVE  \E m \in [Clients -> Nat] : Played(p, m)' /\ m[c] = n[c] + 1
<1>1. prog' = [prog EXCEPT ![c] = Tail(@)]
  BY DEF Return
<1>2. PICK m : m = [n EXCEPT ![c] = @ + 1]
  OBVIOUS
<1>3. Played(p, m)' /\ m \in [Clients -> Nat] /\ m[c] = n[c] + 1
      /\ \A d \in Clients \ {c} : m[d] = n[d]
  <2>1. TypeOK /\ prog' = [prog EXCEPT ![c] = Tail(@)]
    BY <1>1
  <2> QED BY <1>2, <2>1, PlayedReturn
<1> QED BY <1>3

\* The return from a call.
LEMMA OneReturn ==
  ASSUME TypeInv, NEW p, NEW n, NEW c \in Clients, Played(p, n), SequentialInv(p, n, c),
         prog[c] # <<>>, Return(c), UNCHANGED <<instance, running, joinable, queue, accepted>>,
         AtRest,
         \A h \in Handles : mgr'[h] = mgr[h]
                              \/ (Call(c).op \in {"create", "close"} /\ Call(c).h = h),
         Call(c).op = "create" =>
           mgr'[Call(c).h] = instance /\ instance # NoWriter /\ running[instance],
         Call(c).op = "stop" => instance = NoWriter,
         \/ storage'[c] = <<>> \/ Call(c).op = "log"
         \/ storage'[c] = storage[c] /\ Call(c).op \notin {"flush", "close"}
  PROVE  OneGoes(p, c)
<1>1. pc'[c] = "idle"
  BY DEF TypeInv, TypeOK, Return
<1>2. TypeOK
  BY DEF TypeInv
<1>3. PICK m \in [Clients -> Nat] : Played(p, m)' /\ m[c] = n[c] + 1
  BY <1>2, PlayedOn
<1>4. PICK i \in Nat \ {0} : i = n[c] + 1
  BY OneCall
<1>5. Agrees(c, p[c], i) /\ Call(c) = p[c][i] /\ m[c] + 1 = i + 1
  BY <1>3, <1>4, OneCall DEF SequentialInv
<1>6. ASSUME NEW h \in Handles, Open(p[c], i + 1, h) PROVE mgr'[h] # NoWriter
  <2>1. \/ Call(c).op = "create" /\ Call(c).h = h
        \/ Open(p[c], i, h) /\ ~(Call(c).op = "close" /\ Call(c).h = h)
    <3>1. \/ p[c][i].op = "create" /\ p[c][i].h = h
          \/ Open(p[c], i, h) /\ ~(p[c][i].op = "close" /\ p[c][i].h = h)
      BY <1>6, OpenNext
    <3> QED BY <1>5, <3>1
  <2> QED BY <1>5, <2>1 DEF Agrees, Closing
<1>7. ASSUME NEW h \in Handles, Fresh(p[c], i + 1, h)
      PROVE  mgr'[h] = instance' /\ running'[instance']
  <2>1. \/ Call(c).op = "create" /\ Call(c).h = h
        \/ /\ Fresh(p[c], i, h) /\ ~(Call(c).op = "close" /\ Call(c).h = h)
           /\ Call(c).op # "stop"
    <3>1. \/ p[c][i].op = "create" /\ p[c][i].h = h
          \/ /\ Fresh(p[c], i, h) /\ ~(p[c][i].op = "close" /\ p[c][i].h = h)
             /\ p[c][i].op # "stop"
      BY <1>7, FreshNext
    <3> QED BY <1>5, <3>1
  <2> QED BY <1>5, <2>1 DEF Agrees, Closing, During
<1>8. ASSUME storage'[c] # <<>> PROVE Buffered(p[c], i + 1)
  <2>1. \/ p[c][i].op = "log"
        \/ Buffered(p[c], i) /\ p[c][i].op \notin {"flush", "close"}
    BY <1>5, <1>8 DEF Agrees
  <2> QED BY <2>1, BufferedNext
<1>9. ASSUME Unstarted(p[c], i + 1), instance # NoWriter PROVE ~running'[instance']
  <2>1. Call(c).op # "create" /\ (Call(c).op = "stop" \/ Unstarted(p[c], i))
    BY <1>5, <1>9, UnstartedNext
  <2> QED BY <1>5, <1>9, <2>1 DEF Agrees, During
<1>10. ASSUME instance # NoWriter, ~running[instance] PROVE accepted'[instance'] = <<>>
  BY <1>5, <1>10 DEF Agrees
<1>11. Agrees(c, p[c], m[c] + 1)'
  <2>1. \A h \in Handles : Open(p[c], i + 1, h) => mgr'[h] # NoWriter
    BY <1>6
  <2>2. \A h \in Handles : Fresh(p[c], i + 1, h) => mgr'[h] = instance' /\ running'[instance']
    BY <1>7
  <2> QED BY <1>1, <1>5, <1>8, <1>9, <1>10, <2>1, <2>2 DEF Agrees, Closing, During
<1>12. Placed(c)'
  BY <1>1 DEF Placed, AtRest
<1>13. OthersDone' /\ SequentialUse(p[c]) /\ \A d \in Clients \ {c} : p[d] = <<>>
  BY DEF SequentialInv, OthersDone
<1>14. SequentialInv(p, m, c)'
  BY <1>11, <1>12, <1>13 DEF SequentialInv
<1> QED BY <1>3, <1>14 DEF OneGoes
------------------------------------------------------------------------------
LEMMA OneLock ==
  ASSUME TypeInv, Sinks, NEW p, NEW n, NEW c \in Clients, Played(p, n), SequentialInv(p, n, c),
         LockInstance(c)
  PROVE  fault' = "none" /\ OneGoes(p, c)
<1>1. /\ fault = "none" /\ pc[c] = "idle" /\ prog[c] # <<>> /\ prog' = prog
      /\ Call(c)' = Call(c)
      /\ UNCHANGED <<running, joinable, queue, mgr, storage, accepted, fault>>
  BY DEF LockInstance, Calling, Goto, Call
<1>2. pc'[c] = IF Call(c).op = "set" THEN "set" ELSE "check"
  BY DEF LockInstance, Goto, TypeInv, TypeOK
<1>3. Call(c).op \in {"create", "stop", "set"}
  BY DEF LockInstance, Calling
<1>4. AtRest /\ OthersDone /\ Agrees(c, p[c], n[c] + 1)
  BY <1>1 DEF SequentialInv, Placed
<1>5. /\ instance # NoWriter => instance' = instance
      /\ instance = NoWriter => /\ ~running[instance'] /\ ~joinable[instance']
                                /\ accepted[instance'] = <<>>
      /\ instance' # NoWriter
  <2>1. ASSUME instance = NoWriter, Unused # {}, instance' = CHOOSE w \in Unused : TRUE
        PROVE  /\ ~running[instance'] /\ ~joinable[instance'] /\ accepted[instance'] = <<>>
               /\ instance' # NoWriter
    <3>1. instance' \in Writers /\ life[instance'] = "free"
      BY <2>1 DEF Unused
    <3>2. instance' # NoWriter
      BY <3>1, ConstantsAssumption
    <3> QED BY <1>4, <2>1, <3>1, <3>2 DEF OthersDone, Sinks
  <2> QED BY <2>1 DEF LockInstance
<1>6. OthersDone'
  BY <1>1, <1>4, <1>5, ConstantsAssumption DEF OthersDone
<1>7. AtRest'
  <2>1. CASE instance = NoWriter
    <3>1. running'[instance'] = running[instance'] /\ joinable'[instance'] = joinable[instance']
          /\ instance' \in Writers
      BY <1>1, <1>5 DEF TypeInv, TypeOK, LockInstance, Unused
    <3>2. running[instance'] \in BOOLEAN /\ joinable[instance'] \in BOOLEAN
      BY <3>1 DEF TypeInv, TypeOK
    <3> QED BY <1>5, <2>1, <3>1, <3>2 DEF AtRest
  <2>2. CASE instance # NoWriter
    BY <1>1, <1>4, <1>5, <2>2 DEF AtRest
  <2> QED BY <2>1, <2>2
<1>8. Placed(c)'
  BY <1>2, <1>5, <1>7 DEF Placed
<1>9. ASSUME NEW h \in Handles, Fresh(p[c], n[c] + 1, h), Call(c).op # "stop"
      PROVE  mgr[h] = instance' /\ running[instance']
  <2>1. mgr[h] # NoWriter
    BY <1>1, <1>4, <1>9, FreshIsOpen DEF Agrees, Closing
  <2>2. mgr[h] = instance /\ running[instance]
    BY <1>1, <1>4, <1>9 DEF Agrees, Closing, During
  <2> QED BY <1>5, <2>1, <2>2
<1>10. ASSUME Call(c).op = "set", Unstarted(p[c], n[c] + 1) PROVE ~running[instance']
  BY <1>1, <1>4, <1>5, <1>10 DEF Agrees, During
<1>11. ASSUME ~running[instance'] PROVE accepted[instance'] = <<>>
  BY <1>1, <1>4, <1>5, <1>11 DEF Agrees
<1>12. Agrees(c, p[c], n[c] + 1)'
  <2>1. \A h \in Handles : Open(p[c], n[c] + 1, h) => mgr[h] # NoWriter
    BY <1>1, <1>4 DEF Agrees, Closing
  <2>2. Call(c).op # "stop" =>
          \A h \in Handles : Fresh(p[c], n[c] + 1, h) => mgr[h] = instance' /\ running[instance']
    BY <1>9
  <2>3. storage[c] # <<>> => Buffered(p[c], n[c] + 1)
    BY <1>4 DEF Agrees
  <2>4. pc'[c] # "stop" /\ pc'[c] # "idle"
    BY <1>2
  <2> QED BY <1>1, <1>3, <1>10, <1>11, <2>1, <2>2, <2>3, <2>4 DEF Agrees, Closing, During
<1> QED BY <1>1, <1>6, <1>8, <1>12, OneSame

LEMMA OneCheckRunning ==
  ASSUME TypeInv, NEW p, NEW n, NEW c \in Clients, Played(p, n), SequentialInv(p, n, c),
         CheckRunning(c)
  PROVE  fault' = "none" /\ OneGoes(p, c)
<1>1. fault = "none" /\ pc[c] = "check" /\ Call(c).op \in {"create", "stop"}
  BY DEF CheckRunning, In, TypeInv, CallInv
<1>2. AtRest /\ OthersDone /\ Agrees(c, p[c], n[c] + 1) /\ instance # NoWriter
  BY <1>1 DEF SequentialInv, Placed
<1>3. /\ prog' = prog /\ Call(c)' = Call(c)
      /\ UNCHANGED <<instance, joinable, queue, mgr, storage, accepted, fault>>
  BY <1>2 DEF CheckRunning, Goto, Call
<1>4. \/ pc'[c] = "load" /\ running' = running /\ running[instance]
      \/ /\ pc'[c] = "spawn" /\ ~running[instance] /\ tmp'[c] = instance
         /\ running' = [running EXCEPT ![instance] = TRUE]
  BY <1>2 DEF CheckRunning, Goto, TypeInv, TypeOK
<1>5. running'[instance] /\ \A w \in Writers : w # instance => running'[w] = running[w]
  <2>1. running \in [Writers -> BOOLEAN] /\ instance \in Writers
    BY <1>2 DEF TypeInv, TypeOK
  <2> QED BY <1>4, <2>1
<1>6. OthersDone'
  BY <1>2, <1>3, <1>5 DEF OthersDone
<1>7. Placed(c)'
  <2>1. running[instance] = joinable[instance]
    BY <1>2 DEF AtRest
  <2> QED BY <1>2, <1>3, <1>4, <1>5, <2>1 DEF Placed
<1>8. Agrees(c, p[c], n[c] + 1)'
  <2>1. pc'[c] # "stop" /\ pc'[c] # "idle"
    BY <1>4
  <2> QED BY <1>1, <1>2, <1>3, <1>5, <2>1 DEF Agrees, Closing, During
<1> QED BY <1>1, <1>3, <1>6, <1>7, <1>8, OneSame

LEMMA OneSpawn ==
  ASSUME TypeInv, LiveOwned, NEW p, NEW n, NEW c \in Clients, Played(p, n),
         SequentialInv(p, n, c), Spawn(c)
  PROVE  fault' = "none" /\ OneGoes(p, c)
<1>1. fault = "none" /\ pc[c] = "spawn" /\ Call(c).op \in {"create", "stop"}
  BY DEF Spawn, In, TypeInv, CallInv
<1>2. /\ OthersDone /\ Agrees(c, p[c], n[c] + 1) /\ instance # NoWriter
      /\ tmp[c] = instance /\ running[instance] /\ ~joinable[instance]
  BY <1>1 DEF SequentialInv, Placed
<1>3. life[instance] = "live" /\ instance \in Writers
  BY <1>2 DEF LiveOwned, TypeInv, TypeOK
<1>4. /\ prog' = prog /\ Call(c)' = Call(c)
      /\ joinable' = [joinable EXCEPT ![instance] = TRUE]
      /\ pc' = [pc EXCEPT ![c] = "load"]
      /\ UNCHANGED <<instance, running, queue, mgr, storage, accepted, fault>>
  BY <1>2, <1>3 DEF Spawn, Goto, Call
<1>5. /\ pc'[c] = "load" /\ joinable'[instance]
      /\ \A w \in Writers : w # instance => joinable'[w] = joinable[w]
  BY <1>3, <1>4 DEF TypeInv, TypeOK
<1>6. OthersDone'
  BY <1>2, <1>4, <1>5 DEF OthersDone
<1>7. Placed(c)'
  BY <1>2, <1>4, <1>5 DEF Placed
<1>8. Agrees(c, p[c], n[c] + 1)'
  BY <1>1, <1>2, <1>4, <1>5 DEF Agrees, Closing, During
<1> QED BY <1>1, <1>4, <1>6, <1>7, <1>8, OneSame

LEMMA OneLoad ==
  ASSUME TypeInv, NEW p, NEW n, NEW c \in Clients, Played(p, n), SequentialInv(p, n, c),
         LoadInstance(c)
  PROVE  fault' = "none" /\ OneGoes(p, c)
<1>1. fault = "none" /\ pc[c] = "load" /\ Call(c).op \in {"create", "stop"}
  BY DEF LoadInstance, In, TypeInv, CallInv
<1>2. /\ OthersDone /\ Agrees(c, p[c], n[c] + 1) /\ instance # NoWriter
      /\ running[instance] /\ joinable[instance]
  BY <1>1 DEF SequentialInv, Placed
<1>3. /\ prog' = prog /\ Call(c)' = Call(c) /\ pc'[c] = "ref" /\ tmp'[c] = instance
      /\ UNCHANGED <<instance, running, joinable, queue, mgr, storage, accepted, fault>>
  BY DEF LoadInstance, Goto, Call, TypeInv, TypeOK, writerVars
<1>4. OthersDone'
  BY <1>2, <1>3 DEF OthersDone
<1>5. Placed(c)'
  BY <1>2, <1>3 DEF Placed
<1>6. Agrees(c, p[c], n[c] + 1)'
  BY <1>1, <1>2, <1>3 DEF Agrees, Closing, During
<1> QED BY <1>1, <1>3, <1>4, <1>5, <1>6, OneSame

LEMMA OneReference ==
  ASSUME TypeInv, LiveOwned, NEW p, NEW n, NEW c \in Clients, Played(p, n),
         SequentialInv(p, n, c), AddReference(c)
  PROVE  fault' = "none" /\ OneGoes(p, c)
<1>1. fault = "none" /\ pc[c] = "ref" /\ Call(c).op \in {"create", "stop"} /\ prog[c] # <<>>
  BY DEF AddReference, In, TypeInv, CallInv
<1>2. /\ OthersDone /\ Agrees(c, p[c], n[c] + 1) /\ instance # NoWriter
      /\ tmp[c] = instance /\ running[instance] /\ joinable[instance]
  BY <1>1 DEF SequentialInv, Placed
<1>3. life[instance] = "live" /\ instance \in Writers
  BY <1>2 DEF LiveOwned, TypeInv, TypeOK
<1>4. UNCHANGED <<instance, running, joinable, queue, storage, accepted, fault>>
  BY <1>2, <1>3 DEF AddReference, writerVars
<1>5. CASE Call(c).op = "create" /\ mgr' = [mgr EXCEPT ![Call(c).h] = instance] /\ Return(c)
  <2>1. Call(c).h \in Handles
    BY <1>1, <1>5, OneCall
  <2>2. mgr'[Call(c).h] = instance /\ \A h \in Handles : mgr'[h] = mgr[h] \/ Call(c).h = h
    BY <1>5, <2>1 DEF TypeInv, TypeOK
  <2>3. AtRest
    BY <1>2, <1>3 DEF AtRest, TypeInv, TypeOK
  <2> QED BY <1>1, <1>2, <1>4, <1>5, <2>2, <2>3, OneReturn
<1>6. CASE /\ Call(c).op = "stop" /\ Goto(c, "stop") /\ UNCHANGED <<mgr, tmp>>
           /\ stack' = [stack EXCEPT ![c] = <<Activation(instance, FALSE)>>]
  <2>1. prog' = prog /\ Call(c)' = Call(c) /\ pc'[c] = "stop"
    BY <1>6 DEF Goto, Call, TypeInv, TypeOK
  <2>2. PICK f : f = Activation(instance, FALSE)
    OBVIOUS
  <2>3. f.w = instance /\ ~f.dtor /\ f.at = "check"
    BY <2>2 DEF Activation
  <2>4. stack'[c] = <<f>>
    BY <1>6, <2>2 DEF TypeInv, TypeOK
  <2>5. Top(c)' = f /\ Len(stack'[c]) = 1
    BY <2>4 DEF Top
  <2>6. Stopping(c, f)'
    BY <1>2, <1>4, <1>6, <2>1, <2>3 DEF Stopping
  <2>7. Placed(c)'
    BY <2>1, <2>5, <2>6 DEF Placed
  <2>8. OthersDone'
    BY <1>2, <1>4 DEF OthersDone
  <2>9. Agrees(c, p[c], n[c] + 1)'
    BY <1>1, <1>2, <1>4, <1>6, <2>1 DEF Agrees, Closing, During
  <2> QED BY <1>1, <1>4, <2>1, <2>7, <2>8, <2>9, OneSame
<1>7. \/ Call(c).op = "create" /\ mgr' = [mgr EXCEPT ![Call(c).h] = instance] /\ Return(c)
      \/ /\ Call(c).op = "stop" /\ Goto(c, "stop") /\ UNCHANGED <<mgr, tmp>>
         /\ stack' = [stack EXCEPT ![c] = <<Activation(instance, FALSE)>>]
  BY <1>2, <1>3 DEF AddReference
<1> QED BY <1>5, <1>6, <1>7

\* The logger is set before the writer has a worker and messages.
LEMMA OneSetLogger ==
  ASSUME TypeInv, HandOffInv, LiveOwned, NEW p, NEW n, NEW c \in Clients, Played(p, n),
         SequentialInv(p, n, c), SetLogger(c)
  PROVE  /\ fault' = "none" /\ OneGoes(p, c)
         /\ instance \in Writers /\ life[instance] = "live" /\ wpc[instance] # "write"
         /\ written[instance] = <<>> /\ Stores(Call(c).l) /\ Call(c).l \in Loggers
<1>1. fault = "none" /\ pc[c] = "set" /\ Call(c).op = "set" /\ prog[c] # <<>>
  BY DEF SetLogger, In, TypeInv, CallInv
<1>2. AtRest /\ Agrees(c, p[c], n[c] + 1) /\ instance # NoWriter
  BY <1>1 DEF SequentialInv, Placed
<1>3. PICK v \in Writers : v = instance
  BY <1>2 DEF TypeInv, TypeOK
<1>4. Unstarted(p[c], n[c] + 1) /\ Stores(Call(c).l) /\ Call(c).l \in Loggers
  BY <1>1, OneCall
<1>5. ~running[v] /\ accepted[v] = <<>>
  BY <1>1, <1>2, <1>3, <1>4 DEF Agrees, During
<1>6. ~joinable[v]
  BY <1>2, <1>3, <1>5 DEF AtRest
<1>7. wpc[v] \in {"none", "done"}
  BY <1>6 DEF HandOffInv, HandOff
<1>8. written[v] = <<>>
  <2>1. accepted[v] = written[v] \o inflight[v] \o queue[v]
    BY DEF HandOffInv, HandOff
  <2>2. PICK wr, inf, q : wr = written[v] /\ inf = inflight[v] /\ q = queue[v]
    OBVIOUS
  <2>3. /\ wr \in Seq(Msgs \cup {EmptyMsg}) /\ inf \in Seq(Msgs \cup {EmptyMsg})
        /\ q \in Seq(Msgs \cup {EmptyMsg})
    <3>1. queue[v] \in Seq(Msgs)
      BY DEF TypeInv, TypeOK
    <3>2. queue[v] \in Seq(Msgs \cup {EmptyMsg})
      BY <3>1
    <3> QED BY <2>2, <3>2 DEF TypeInv, TypeOK
  <2>4. Len(wr \o inf \o q) = Len(wr) + Len(inf) + Len(q)
    BY <2>3
  <2>5. Len(wr) + Len(inf) + Len(q) = 0
    <3>1. wr \o inf \o q = <<>>
      BY <1>5, <2>1, <2>2
    <3>2. Len(wr \o inf \o q) = 0
      BY <3>1
    <3> QED BY <2>4, <3>2
  <2>6. Len(wr) = 0
    BY <2>3, <2>5
  <2> QED BY <2>2, <2>3, <2>6
<1>9. life[v] = "live"
  BY <1>2, <1>3 DEF LiveOwned
<1>10. /\ Return(c)
       /\ UNCHANGED <<instance, running, joinable, queue, mgr, storage, accepted, fault>>
  BY <1>2 DEF SetLogger
<1>11. OneGoes(p, c)
  BY <1>1, <1>2, <1>10, OneReturn
<1> QED BY <1>1, <1>3, <1>4, <1>7, <1>8, <1>9, <1>10, <1>11

LEMMA OneLog ==
  ASSUME TypeInv, NEW p, NEW n, NEW c \in Clients, Played(p, n), SequentialInv(p, n, c),
         Log(c) \/ Flushed(c)
  PROVE  fault' = "none" /\ OneGoes(p, c)
<1>1. /\ fault = "none" /\ pc[c] = "idle" /\ prog[c] # <<>>
      /\ Call(c).op = "log" \/ (Call(c).op = "flush" /\ storage'[c] = <<>>)
      /\ Return(c)
      /\ UNCHANGED <<instance, running, joinable, queue, mgr, accepted, fault>>
  BY DEF Log, Flushed, Calling, writerVars
<1>2. AtRest
  BY <1>1 DEF SequentialInv, Placed
<1> QED BY <1>1, <1>2, OneReturn

\* What the thread logged goes to the writer in use, which has a worker.
LEMMA OneEnqueue ==
  ASSUME TypeInv, NEW p, NEW n, NEW c \in Clients, Played(p, n), SequentialInv(p, n, c),
         Enqueue(c)
  PROVE  fault' = "none" /\ OneGoes(p, c) /\ Call(c).h \in Handles
<1>1. /\ fault = "none" /\ pc[c] = "idle" /\ prog[c] # <<>> /\ storage[c] # <<>>
      /\ Call(c).op \in {"flush", "close"}
  BY DEF Enqueue, Calling
<1>2. AtRest /\ OthersDone /\ Agrees(c, p[c], n[c] + 1)
  BY <1>1 DEF SequentialInv, Placed
<1>3. Buffered(p[c], n[c] + 1)
  BY <1>1, <1>2 DEF Agrees
<1>4. PICK h \in Handles : h = Call(c).h /\ Open(p[c], n[c] + 1, h) /\ Fresh(p[c], n[c] + 1, h)
  BY <1>1, <1>3, OneCall
<1>5. mgr[h] # NoWriter /\ mgr[h] = instance /\ running[instance]
  BY <1>1, <1>2, <1>4 DEF Agrees, Closing, During
<1>6. PICK v \in Writers : v = instance
  BY <1>5 DEF TypeInv, TypeOK
<1>7. /\ queue' = [queue EXCEPT ![v] = Append(@, Head(storage[c]))]
      /\ accepted' = [accepted EXCEPT ![v] = Append(@, Head(storage[c]))]
      /\ UNCHANGED <<instance, running, joinable, prog, pc, mgr, fault>>
  BY <1>4, <1>5, <1>6 DEF Enqueue, Fail, writerVars, clientVars
<1>8. Call(c)' = Call(c)
  BY <1>7 DEF Call
<1>9. OthersDone'
  <2>1. queue \in [Writers -> Seq(Msgs)]
    BY DEF TypeInv, TypeOK
  <2> QED BY <1>2, <1>6, <1>7, <2>1 DEF OthersDone
<1>10. Placed(c)'
  BY <1>1, <1>2, <1>7 DEF Placed, AtRest
<1>11. Agrees(c, p[c], n[c] + 1)'
  BY <1>1, <1>2, <1>3, <1>5, <1>7, <1>8 DEF Agrees, Closing, During
<1> QED BY <1>1, <1>4, <1>7, <1>9, <1>10, <1>11, OneSame

\* The first step of the destruction of a writer that is no longer in use.
LEMMA OneClose ==
  ASSUME TypeInv, NEW p, NEW n, NEW c \in Clients, Played(p, n), SequentialInv(p, n, c),
         Close(c)
  PROVE  fault' = "none" /\ OneGoes(p, c)
<1>1. /\ fault = "none" /\ pc[c] = "idle" /\ prog[c] # <<>> /\ storage[c] = <<>>
      /\ Call(c).op = "close"
      /\ UNCHANGED <<instance, running, joinable, queue, storage, accepted, fault>>
  BY DEF Close, Calling
<1>2. AtRest /\ OthersDone /\ Agrees(c, p[c], n[c] + 1)
  BY <1>1 DEF SequentialInv, Placed
<1>3. PICK h \in Handles : h = Call(c).h
  BY <1>1, OneCall
<1>4. mgr' = [mgr EXCEPT ![h] = NoWriter] /\ Drop(c, mgr[h], h, <<>>)
  BY <1>3 DEF Close
<1>5. \A g \in Handles : mgr'[g] = mgr[g] \/ g = h
  BY <1>4 DEF TypeInv, TypeOK
<1>6. CASE ~LastOwner(mgr[h], h)
  <2>1. Return(c)
    BY <1>4, <1>6 DEF Drop
  <2> QED BY <1>1, <1>2, <1>3, <1>5, <2>1, OneReturn
<1>7. CASE LastOwner(mgr[h], h)
  <2>1. /\ prog' = prog /\ pc'[c] = "stop"
        /\ stack' = [stack EXCEPT ![c] = <<Activation(mgr[h], TRUE)>> \o <<>>]
    BY <1>4, <1>7 DEF Drop, Goto, TypeInv, TypeOK
  <2>2. Call(c)' = Call(c)
    BY <2>1 DEF Call
  <2>3. PICK w \in Writers : w = mgr[h]
    BY <1>7 DEF LastOwner, TypeInv, TypeOK
  <2>4. w # instance
    <3>1. instance = w => h = "instance"
      BY <1>7, <2>3, LastOwnerAlone
    <3> QED BY <3>1, ConstantsAssumption
  <2>5. PICK f : f = Activation(w, TRUE)
    OBVIOUS
  <2>6. f.w = w /\ f.dtor /\ f.at = "check" /\ f \in Frame
    BY <2>5, NewActivation
  <2>7. stack'[c] = <<f>>
    <3>1. <<f>> \o <<>> = <<f>>
      BY <2>6
    <3> QED BY <2>1, <2>3, <2>5, <3>1 DEF TypeInv, TypeOK
  <2>8. Top(c)' = f /\ Len(stack'[c]) = 1
    BY <2>7 DEF Top
  <2>9. Stopping(c, f)'
    BY <1>1, <1>2, <2>2, <2>4, <2>6 DEF Stopping, AtRest
  <2>10. Placed(c)'
    BY <2>1, <2>8, <2>9 DEF Placed
  <2>11. OthersDone'
    BY <1>1, <1>2 DEF OthersDone
  <2>12. Agrees(c, p[c], n[c] + 1)'
    BY <1>1, <1>2, <1>3, <1>5, <2>1, <2>2 DEF Agrees, Closing, During
  <2> QED BY <1>1, <2>1, <2>10, <2>11, <2>12, OneSame
<1> QED BY <1>6, <1>7

------------------------------------------------------------------------------
(* stop() and the destruction of a writer by that thread. *)

\* During stop() or a destruction there is one activation.
LEMMA OneFrame ==
  ASSUME TypeInv, NEW p, NEW n, NEW c \in Clients, SequentialInv(p, n, c), NEW at, At(c, at)
  PROVE  /\ fault = "none" /\ pc[c] = "stop" /\ prog[c] # <<>> /\ stack[c] # <<>>
         /\ Top(c) \in Frame /\ Top(c).w \in Writers /\ Top(c).at = at
         /\ Tail(stack[c]) = <<>> /\ Stopping(c, Top(c))
         /\ OthersDone /\ Agrees(c, p[c], n[c] + 1)
<1>1. /\ fault = "none" /\ pc[c] = "stop" /\ prog[c] # <<>> /\ stack[c] # <<>>
      /\ Top(c).at = at
  BY DEF At, In, TypeInv, CallInv
<1>2. Len(stack[c]) = 1 /\ Stopping(c, Top(c)) /\ OthersDone /\ Agrees(c, p[c], n[c] + 1)
  BY <1>1 DEF SequentialInv, Placed
<1>3. /\ Top(c) \in Frame /\ Top(c).w \in Writers
      /\ Tail(stack[c]) \in Seq(Frame) /\ Len(Tail(stack[c])) = Len(stack[c]) - 1
  BY <1>1, TopOfStack DEF TypeInv
<1>4. Tail(stack[c]) = <<>>
  <2>1. PICK t \in Seq(Frame) : t = Tail(stack[c])
    BY <1>3
  <2>2. Len(Tail(stack[c])) = 0
    BY <1>2, <1>3
  <2>3. t = <<>>
    BY <2>1, <2>2
  <2> QED BY <2>1, <2>3
<1> QED BY <1>1, <1>2, <1>3, <1>4

\* The activation is replaced by f.
LEMMA OneReplaced ==
  ASSUME TypeInv, NEW c \in Clients, Tail(stack[c]) = <<>>, NEW f \in Frame, Replace(c, <<f>>)
  PROVE  Top(c)' = f /\ Len(stack'[c]) = 1
<1>1. <<f>> \o <<>> = <<f>>
  OBVIOUS
<1>2. stack'[c] = <<f>>
  BY <1>1 DEF Replace, TypeInv, TypeOK
<1> QED BY <1>2 DEF Top

\* A step of stop() that goes on.
LEMMA OneStop ==
  ASSUME TypeInv, NEW p, NEW n, NEW c \in Clients, Played(p, n), SequentialInv(p, n, c),
         NEW at, At(c, at), NEW f \in Frame, Replace(c, <<f>>),
         UNCHANGED <<prog, pc, mgr, storage>>, Stopping(c, f)', OthersDone',
         \/ Call(c).op = "stop"
         \/ Call(c).op = "close" /\ UNCHANGED <<instance, running, accepted>>
  PROVE  OneGoes(p, c)
<1>1. pc[c] = "stop" /\ Tail(stack[c]) = <<>> /\ Agrees(c, p[c], n[c] + 1)
  BY OneFrame
<1>2. Top(c)' = f /\ Len(stack'[c]) = 1
  BY <1>1, OneReplaced
<1>3. Placed(c)'
  BY <1>1, <1>2 DEF Placed
<1>4. Call(c)' = Call(c)
  BY DEF Call
<1>5. Agrees(c, p[c], n[c] + 1)'
  BY <1>1, <1>4 DEF Agrees, Closing, During
<1> QED BY <1>3, <1>5, OneSame

LEMMA OneStopCheck ==
  ASSUME TypeInv, NEW p, NEW n, NEW c \in Clients, Played(p, n), SequentialInv(p, n, c),
         StopCheck(c)
  PROVE  fault' = "none" /\ OneGoes(p, c)
<1>1. At(c, "check")
  BY DEF StopCheck
<1>2. /\ fault = "none" /\ Top(c) \in Frame /\ Top(c).at = "check" /\ Top(c).w \in Writers
      /\ Stopping(c, Top(c)) /\ OthersDone
  BY <1>1, OneFrame
<1>3. PICK f : f = [Top(c) EXCEPT !.at = IF running[Top(c).w] THEN "wait" ELSE "ret"]
  OBVIOUS
<1>4. /\ f \in Frame /\ f.w = Top(c).w /\ f.dtor = Top(c).dtor
      /\ f.at = IF running[Top(c).w] THEN "wait" ELSE "ret"
  BY <1>2, <1>3 DEF Frame
<1>5. /\ Replace(c, <<f>>)
      /\ UNCHANGED <<instance, running, joinable, queue, prog, pc, tmp, mgr, storage, accepted,
                     fault>>
  BY <1>3 DEF StopCheck, Move, writerVars
<1>6. Call(c)' = Call(c)
  BY <1>5 DEF Call
<1>7. Stopping(c, f)'
  <2>1. CASE f.dtor
    <3>1. ~running[f.w]
      BY <1>2, <1>4, <2>1 DEF Stopping, OthersDone
    <3> QED BY <1>2, <1>4, <1>5, <1>6, <2>1, <3>1 DEF Stopping, AtRest
  <2>2. CASE ~f.dtor
    BY <1>2, <1>4, <1>5, <1>6, <2>2 DEF Stopping
  <2> QED BY <2>1, <2>2
<1>8. OthersDone'
  BY <1>2, <1>5 DEF OthersDone
<1>9. \/ Call(c).op = "stop"
      \/ Call(c).op = "close" /\ UNCHANGED <<instance, running, accepted>>
  BY <1>2, <1>5 DEF Stopping
<1> QED BY <1>1, <1>2, <1>4, <1>5, <1>7, <1>8, <1>9, OneStop

LEMMA OneStopDrained ==
  ASSUME TypeInv, NEW p, NEW n, NEW c \in Clients, Played(p, n), SequentialInv(p, n, c),
         StopDrained(c)
  PROVE  fault' = "none" /\ OneGoes(p, c)
<1>1. At(c, "wait")
  BY DEF StopDrained
<1>2. /\ fault = "none" /\ Top(c) \in Frame /\ Top(c).at = "wait" /\ Top(c).w \in Writers
      /\ Stopping(c, Top(c)) /\ OthersDone
  BY <1>1, OneFrame
<1>3. PICK k \in Nat : k = Len(accepted[Top(c).w])
  BY <1>2 DEF TypeInv, TypeOK
<1>4. PICK f : f = [Top(c) EXCEPT !.at = "clear", !.seen = k]
  OBVIOUS
<1>5. f \in Frame /\ f.w = Top(c).w /\ f.dtor = Top(c).dtor /\ f.at = "clear"
  BY <1>2, <1>4 DEF Frame
<1>6. /\ Replace(c, <<f>>) /\ queue[f.w] = <<>>
      /\ UNCHANGED <<instance, running, joinable, queue, prog, pc, tmp, mgr, storage, accepted,
                     fault>>
  BY <1>3, <1>4, <1>5 DEF StopDrained, writerVars
<1>7. Call(c)' = Call(c)
  BY <1>6 DEF Call
<1>8. Stopping(c, f)' /\ Call(c).op = "stop"
  BY <1>2, <1>5, <1>6, <1>7 DEF Stopping
<1>9. OthersDone'
  BY <1>2, <1>6 DEF OthersDone
<1> QED BY <1>1, <1>2, <1>5, <1>6, <1>8, <1>9, OneStop

LEMMA OneStopClear ==
  ASSUME TypeInv, NEW p, NEW n, NEW c \in Clients, Played(p, n), SequentialInv(p, n, c),
         StopClear(c)
  PROVE  fault' = "none" /\ OneGoes(p, c)
<1>1. At(c, "clear")
  BY DEF StopClear
<1>2. /\ fault = "none" /\ Top(c) \in Frame /\ Top(c).at = "clear" /\ Top(c).w \in Writers
      /\ Stopping(c, Top(c)) /\ OthersDone
  BY <1>1, OneFrame
<1>3. PICK f : f = [Top(c) EXCEPT !.at = "flush"]
  OBVIOUS
<1>4. f \in Frame /\ f.w = Top(c).w /\ f.dtor = Top(c).dtor /\ f.at = "flush"
  BY <1>2, <1>3 DEF Frame
<1>5. /\ Replace(c, <<f>>) /\ running' = [running EXCEPT ![f.w] = FALSE]
      /\ UNCHANGED <<instance, joinable, queue, prog, pc, tmp, mgr, storage, accepted, fault>>
  BY <1>3, <1>4 DEF StopClear, Move
<1>6. ~running'[f.w] /\ \A w \in Writers : ~running[w] => ~running'[w]
  <2>1. running \in [Writers -> BOOLEAN] /\ f.w \in Writers
    BY <1>2, <1>4 DEF TypeInv, TypeOK
  <2> QED BY <1>5, <2>1
<1>7. Call(c)' = Call(c)
  BY <1>5 DEF Call
<1>8. Stopping(c, f)' /\ Call(c).op = "stop"
  BY <1>2, <1>4, <1>5, <1>6, <1>7 DEF Stopping
<1>9. OthersDone'
  BY <1>2, <1>5, <1>6 DEF OthersDone
<1> QED BY <1>1, <1>2, <1>4, <1>5, <1>8, <1>9, OneStop

LEMMA OneStopFlush ==
  ASSUME TypeInv, Sinks, NEW p, NEW n, NEW c \in Clients, Played(p, n), SequentialInv(p, n, c),
         StopFlush(c)
  PROVE  fault' = "none" /\ OneGoes(p, c) /\ Top(c).w \in Writers
<1>1. At(c, "flush")
  BY DEF StopFlush
<1>2. /\ fault = "none" /\ Top(c) \in Frame /\ Top(c).at = "flush" /\ Top(c).w \in Writers
      /\ Stopping(c, Top(c)) /\ OthersDone
  BY <1>1, OneFrame
<1>3. PICK f : f = [Top(c) EXCEPT !.at = "join"]
  OBVIOUS
<1>4. f \in Frame /\ f.w = Top(c).w /\ f.dtor = Top(c).dtor /\ f.at = "join"
  BY <1>2, <1>3 DEF Frame
<1>5. LoggerKind[logger[Top(c).w]] # "Null"
  BY <1>2 DEF Sinks, Stores
<1>6. /\ Replace(c, <<f>>)
      /\ UNCHANGED <<instance, running, joinable, queue, prog, pc, tmp, mgr, storage, accepted,
                     fault>>
  BY <1>3, <1>5 DEF StopFlush, Move, writerVars
<1>7. Call(c)' = Call(c)
  BY <1>6 DEF Call
<1>8. Stopping(c, f)' /\ Call(c).op = "stop"
  BY <1>2, <1>4, <1>6, <1>7 DEF Stopping
<1>9. OthersDone'
  BY <1>2, <1>6 DEF OthersDone
<1> QED BY <1>1, <1>2, <1>4, <1>6, <1>8, <1>9, OneStop

LEMMA OneStopJoin ==
  ASSUME TypeInv, NEW p, NEW n, NEW c \in Clients, Played(p, n), SequentialInv(p, n, c),
         StopJoin(c)
  PROVE  fault' = "none" /\ OneGoes(p, c)
<1>1. At(c, "join")
  BY DEF StopJoin
<1>2. /\ fault = "none" /\ Top(c) \in Frame /\ Top(c).at = "join" /\ Top(c).w \in Writers
      /\ Stopping(c, Top(c)) /\ OthersDone
  BY <1>1, OneFrame
<1>3. PICK f : f = [Top(c) EXCEPT !.at = "reset"]
  OBVIOUS
<1>4. f \in Frame /\ f.w = Top(c).w /\ f.dtor = Top(c).dtor /\ f.at = "reset"
  BY <1>2, <1>3 DEF Frame
<1>5. joinable[f.w]
  BY <1>2, <1>4 DEF Stopping
<1>6. /\ Replace(c, <<f>>) /\ joinable' = [joinable EXCEPT ![f.w] = FALSE]
      /\ UNCHANGED <<instance, running, queue, prog, pc, tmp, mgr, storage, accepted, fault>>
  BY <1>3, <1>4, <1>5 DEF StopJoin, Move
<1>7. ~joinable'[f.w] /\ \A w \in Writers : ~joinable[w] => ~joinable'[w]
  <2>1. joinable \in [Writers -> BOOLEAN] /\ f.w \in Writers
    BY <1>2, <1>4 DEF TypeInv, TypeOK
  <2> QED BY <1>6, <2>1
<1>8. Call(c)' = Call(c)
  BY <1>6 DEF Call
<1>9. Stopping(c, f)' /\ Call(c).op = "stop"
  BY <1>2, <1>4, <1>6, <1>7, <1>8 DEF Stopping
<1>10. OthersDone'
  BY <1>2, <1>6, <1>7 DEF OthersDone
<1> QED BY <1>1, <1>2, <1>4, <1>6, <1>9, <1>10, OneStop

\* Its caller still holds the writer when stop() gives up the static reference.
LEMMA OneReset ==
  ASSUME TypeInv, NEW p, NEW n, NEW c \in Clients, Played(p, n), SequentialInv(p, n, c),
         StopReset(c)
  PROVE  fault' = "none" /\ OneGoes(p, c)
<1>1. At(c, "reset")
  BY DEF StopReset
<1>2. /\ fault = "none" /\ Top(c) \in Frame /\ Top(c).at = "reset" /\ Top(c).w \in Writers
      /\ Stopping(c, Top(c)) /\ OthersDone /\ pc[c] = "stop" /\ Tail(stack[c]) = <<>>
  BY <1>1, OneFrame
<1>3. PICK f : f = [Top(c) EXCEPT !.at = "ret"]
  OBVIOUS
<1>4. f \in Frame /\ f.w = Top(c).w /\ f.dtor = Top(c).dtor /\ f.at = "ret"
  BY <1>2, <1>3 DEF Frame
<1>5. /\ ~f.dtor /\ Call(c).op = "stop" /\ tmp[c] = f.w /\ instance = f.w
      /\ ~running[f.w] /\ ~joinable[f.w] /\ queue[f.w] = <<>>
  BY <1>2, <1>4 DEF Stopping
<1>6. ~LastOwner(instance, "instance")
  <2>1. ASSUME LastOwner(instance, "instance") PROVE FALSE
    <3>1. c = "instance"
      BY <1>2, <1>5, <2>1, LastOwnerAlone
    <3> QED BY <3>1, ConstantsAssumption
  <2> QED BY <2>1
<1>7. <<f>> \o Tail(stack[c]) # <<>>
  BY <1>2, <1>4
<1>8. /\ Replace(c, <<f>>) /\ Goto(c, "stop") /\ instance' = NoWriter
      /\ UNCHANGED <<running, joinable, queue, tmp, mgr, storage, accepted, fault>>
  BY <1>3, <1>6, <1>7 DEF StopReset, Drop, Replace
<1>9. UNCHANGED <<prog, pc>>
  BY <1>2, <1>8 DEF Goto, TypeInv, TypeOK
<1>10. Call(c)' = Call(c)
  BY <1>9 DEF Call
<1>11. Stopping(c, f)'
  BY <1>4, <1>5, <1>8, <1>10 DEF Stopping
<1>12. OthersDone'
  BY <1>2, <1>5, <1>8 DEF OthersDone
<1> QED BY <1>1, <1>2, <1>4, <1>5, <1>8, <1>9, <1>11, <1>12, OneStop

LEMMA OneStopReturn ==
  ASSUME TypeInv, NEW p, NEW n, NEW c \in Clients, Played(p, n), SequentialInv(p, n, c),
         StopReturn(c)
  PROVE  fault' = "none" /\ OneGoes(p, c)
<1>1. At(c, "ret") /\ ~Top(c).dtor
  BY DEF StopReturn
<1>2. /\ fault = "none" /\ Top(c).at = "ret" /\ Top(c).w \in Writers /\ prog[c] # <<>>
      /\ Stopping(c, Top(c)) /\ OthersDone /\ pc[c] = "stop" /\ Tail(stack[c]) = <<>>
  BY <1>1, OneFrame
<1>3. Call(c).op = "stop" /\ instance = NoWriter
  BY <1>1, <1>2 DEF Stopping
<1>4. PICK w \in Writers : w = Top(c).w
  BY <1>2
<1>5. /\ Drop(c, w, c, <<>>)
      /\ UNCHANGED <<instance, running, joinable, queue, storage, mgr, accepted, fault>>
  BY <1>2, <1>4 DEF StopReturn
<1>6. CASE ~LastOwner(w, c)
  <2>1. Return(c)
    BY <1>5, <1>6 DEF Drop
  <2>2. AtRest
    BY <1>3 DEF AtRest
  <2> QED BY <1>2, <1>3, <1>5, <2>1, <2>2, OneReturn
<1>7. CASE LastOwner(w, c)
  <2>1. PICK f : f = Activation(w, TRUE)
    OBVIOUS
  <2>2. f.w = w /\ f.dtor /\ f.at = "check" /\ f \in Frame
    BY <2>1, NewActivation
  <2>3. /\ stack' = [stack EXCEPT ![c] = <<f>> \o <<>>] /\ Goto(c, "stop")
    BY <1>5, <1>7, <2>1 DEF Drop
  <2>4. Replace(c, <<f>>) /\ UNCHANGED <<prog, pc>>
    BY <1>2, <2>3 DEF Replace, Goto, TypeInv, TypeOK
  <2>5. Call(c)' = Call(c)
    BY <2>4 DEF Call
  <2>6. Stopping(c, f)'
    BY <1>3, <1>5, <2>2, <2>5, ConstantsAssumption DEF Stopping, AtRest
  <2>7. OthersDone'
    BY <1>2, <1>5 DEF OthersDone
  <2> QED BY <1>1, <1>2, <1>3, <1>5, <2>2, <2>4, <2>6, <2>7, OneStop
<1> QED BY <1>6, <1>7

LEMMA OneDestroy ==
  ASSUME TypeInv, NEW p, NEW n, NEW c \in Clients, Played(p, n), SequentialInv(p, n, c),
         Destroy(c)
  PROVE  fault' = "none" /\ OneGoes(p, c) /\ Top(c).w \in Writers
<1>1. At(c, "ret") /\ Top(c).dtor
  BY DEF Destroy
<1>2. /\ fault = "none" /\ Top(c).w \in Writers /\ prog[c] # <<>> /\ pc[c] = "stop"
      /\ Stopping(c, Top(c)) /\ Tail(stack[c]) = <<>> /\ Agrees(c, p[c], n[c] + 1)
  BY <1>1, OneFrame
<1>3. /\ AtRest /\ Call(c).op \in {"close", "stop"}
      /\ Call(c).op = "stop" => instance = NoWriter
  BY <1>1, <1>2 DEF Stopping
<1>4. /\ Return(c)
      /\ UNCHANGED <<instance, running, joinable, queue, storage, mgr, accepted, fault>>
  BY <1>2 DEF Destroy
<1>5. Call(c).op = "close" => storage[c] = <<>>
  BY <1>2 DEF Agrees
<1>6. OneGoes(p, c)
  BY <1>2, <1>3, <1>4, <1>5, OneReturn
<1> QED BY <1>2, <1>4, <1>6

------------------------------------------------------------------------------
(* Any step. *)

\* The workers only take from the queues.
LEMMA OneRest ==
  ASSUME TypeInv, NEW p, NEW n, NEW c \in Clients, Played(p, n), SequentialInv(p, n, c),
         UNCHANGED <<prog, instance, running, joinable, pc, tmp, stack, storage, mgr, accepted>>,
         \A w \in Writers : queue[w] = <<>> => queue'[w] = <<>>
  PROVE  OneGoes(p, c)
<1>1. Call(c)' = Call(c) /\ Top(c)' = Top(c)
  BY DEF Call, Top
<1>2. OthersDone'
  BY DEF SequentialInv, OthersDone
<1>3. Placed(c)'
  <2>1. ASSUME pc[c] = "stop" PROVE Len(stack[c]) = 1 /\ Stopping(c, Top(c))'
    <3>1. Len(stack[c]) = 1 /\ Stopping(c, Top(c))
      BY <2>1 DEF SequentialInv, Placed
    <3>2. stack[c] # <<>>
      BY <3>1
    <3>3. Top(c).w \in Writers
      BY <3>2, TopOfStack DEF TypeInv
    <3> QED BY <1>1, <3>1, <3>3 DEF Stopping, AtRest
  <2> QED BY <1>1, <2>1 DEF SequentialInv, Placed, AtRest
<1>4. Agrees(c, p[c], n[c] + 1)'
  BY <1>1 DEF SequentialInv, Agrees, Closing, During
<1> QED BY <1>2, <1>3, <1>4, OneSame

\* One thread: it never fails, and sets the logger only while nothing is written.
LEMMA OneClient ==
  ASSUME TypeInv, HandOffInv, LiveOwned, Sinks, NEW p, NEW n, NEW c \in Clients, Played(p, n),
         SequentialInv(p, n, c), ClientStep(c)
  PROVE  /\ fault' = "none" /\ OneGoes(p, c)
         /\ SetLogger(c) =>
              /\ instance \in Writers /\ life[instance] = "live" /\ wpc[instance] # "write"
              /\ written[instance] = <<>> /\ Stores(Call(c).l) /\ Call(c).l \in Loggers
<1>1. CASE SetLogger(c)
  BY <1>1, OneSetLogger
<1>2. CASE ~SetLogger(c) /\ (\/ StopCheck(c) \/ StopDrained(c) \/ StopClear(c) \/ StopFlush(c)
                             \/ StopJoin(c) \/ StopReset(c) \/ StopReturn(c) \/ Destroy(c))
  BY <1>2, OneStopCheck, OneStopDrained, OneStopClear, OneStopFlush, OneStopJoin, OneReset,
     OneStopReturn, OneDestroy
<1>3. CASE ~SetLogger(c) /\ (\/ LockInstance(c) \/ CheckRunning(c) \/ Spawn(c)
                             \/ LoadInstance(c) \/ AddReference(c))
  BY <1>3, OneLock, OneCheckRunning, OneSpawn, OneLoad, OneReference
<1>4. CASE ~SetLogger(c) /\ (Log(c) \/ Enqueue(c) \/ Flushed(c) \/ Close(c))
  BY <1>4, OneLog, OneEnqueue, OneClose
<1> QED BY <1>1, <1>2, <1>3, <1>4 DEF ClientStep

\* A step of a client that does not fail keeps what the loggers have.
LEMMA SinksClient ==
  ASSUME TypeInv, TypeOK', LiveOwned, Sinks, NEW c \in Clients, ClientStep(c), fault' = "none",
         SetLogger(c) =>
           /\ instance \in Writers /\ life[instance] = "live" /\ wpc[instance] # "write"
           /\ written[instance] = <<>> /\ Stores(Call(c).l) /\ Call(c).l \in Loggers
  PROVE  Sinks'
<1>1. TypeOK
  BY DEF TypeInv
<1>2. CASE SetLogger(c)
  BY <1>1, <1>2, SinksSet
<1>3. CASE Enqueue(c)
  <2>1. Call(c).h \in Handles
    BY <1>1, <1>3, CallTypes DEF Enqueue, Calling
  <2> QED BY <1>1, <1>3, <2>1, SinksEnqueue
<1>4. CASE StopFlush(c) \/ Destroy(c)
  <2>1. Top(c).w \in Writers
    BY <1>1, <1>4, TopOfStack DEF StopFlush, Destroy, At
  <2> QED BY <1>1, <1>4, <2>1, SinksStopFlush, SinksDestroy
<1>5. CASE LockInstance(c)
  BY <1>1, <1>5, SinksLock
<1>6. CASE Close(c) \/ StopReset(c) \/ StopReturn(c)
  BY <1>1, <1>6, SinksDrop
<1>7. CASE \/ CheckRunning(c) \/ Spawn(c) \/ LoadInstance(c) \/ AddReference(c)
           \/ Log(c) \/ Flushed(c) \/ StopCheck(c) \/ StopDrained(c) \/ StopClear(c)
           \/ StopJoin(c)
  BY <1>1, <1>7, SinksPlain
<1> QED BY <1>2, <1>3, <1>4, <1>5, <1>6, <1>7 DEF ClientStep

LEMMA UsageClient ==
  ASSUME ChannelInv, TypeOK', Sinks, NEW p \in Programs, NEW n, Played(p, n),
         ShareInv(p, n) \/ \E c \in Clients : SequentialInv(p, n, c),
         NEW d \in Clients, ClientStep(d)
  PROVE  /\ fault' = "none" /\ Sinks'
         /\ ShareGoes(p) \/ \E c \in Clients : OneGoes(p, c)
<1>1. TypeInv /\ HandOffInv /\ LockInv /\ LiveOwned
  BY DEF ChannelInv, OwnerInv
<1>2. CASE ShareInv(p, n)
  <2>1. fault' = "none" /\ ShareGoes(p) /\ ~SetLogger(d)
    BY <1>1, <1>2, ShareClient
  <2>2. Sinks'
    BY <1>1, <2>1, SinksClient
  <2> QED BY <2>1, <2>2
<1>3. ASSUME NEW c \in Clients, SequentialInv(p, n, c)
      PROVE  fault' = "none" /\ Sinks' /\ OneGoes(p, c)
  <2>1. d = c
    BY <1>1, <1>3, OneCaller
  <2>2. /\ fault' = "none" /\ OneGoes(p, c)
        /\ SetLogger(d) =>
             /\ instance \in Writers /\ life[instance] = "live" /\ wpc[instance] # "write"
             /\ written[instance] = <<>> /\ Stores(Call(d).l) /\ Call(d).l \in Loggers
    BY <1>1, <1>3, <2>1, OneClient
  <2>3. Sinks'
    BY <1>1, <2>2, SinksClient
  <2> QED BY <2>2, <2>3
<1> QED BY <1>2, <1>3

LEMMA UsageRest ==
  ASSUME TypeInv, NEW p \in Programs, NEW n, Played(p, n),
         ShareInv(p, n) \/ \E c \in Clients : SequentialInv(p, n, c),
         UNCHANGED <<prog, instance, life, running, joinable, pc, tmp, stack, storage, mgr,
                     accepted>>,
         \A w \in Writers : queue[w] = <<>> => queue'[w] = <<>>
  PROVE  ShareGoes(p) \/ \E c \in Clients : OneGoes(p, c)
<1>1. CASE ShareInv(p, n)
  BY <1>1, ShareRest
<1>2. ASSUME NEW c \in Clients, SequentialInv(p, n, c) PROVE OneGoes(p, c)
  BY <1>2, OneRest
<1> QED BY <1>1, <1>2

LEMMA UsageWorker ==
  ASSUME ChannelInv, TypeOK', fault = "none", Sinks, NEW p \in Programs, NEW n, Played(p, n),
         ShareInv(p, n) \/ \E c \in Clients : SequentialInv(p, n, c),
         NEW w \in Writers, WorkerStep(w)
  PROVE  /\ fault' = "none" /\ Sinks'
         /\ ShareGoes(p) \/ \E c \in Clients : OneGoes(p, c)
<1>1. TypeInv /\ TypeOK /\ HandOffInv /\ Unjoinable
  BY DEF ChannelInv, TypeInv, LifeInv, Pending
<1>2. fault' = "none" /\ Sinks'
  <2>1. CASE WorkerLoop(w) \/ WorkerTest(w) \/ WorkerTake(w)
    BY <1>1, <2>1, SinksWorker DEF WorkerLoop, WorkerTest, WorkerTake
  <2>2. CASE WorkerLoad(w)
    BY <1>1, <2>2, SinksLoad DEF WorkerLoad
  <2>3. CASE WorkerWrite(w)
    BY <1>1, <2>3, SinksWrite
  <2> QED BY <2>1, <2>2, <2>3 DEF WorkerStep
<1>3. \/ UNCHANGED queue
      \/ queue' = [queue EXCEPT ![w] = Rest(@)]
  BY <1>2 DEF WorkerStep, WorkerLoop, WorkerTest, WorkerTake, WorkerLoad, WorkerWrite, Fail
<1>4. \A v \in Writers : queue[v] = <<>> => queue'[v] = <<>>
  BY <1>1, <1>3 DEF Rest, TypeOK
<1>5. UNCHANGED <<prog, instance, life, running, joinable, pc, tmp, stack, storage, mgr,
                  accepted>>
  BY DEF WorkerStep, WorkerLoop, WorkerTest, WorkerTake, WorkerLoad, WorkerWrite, Fail,
         WorkerRest, writerVars, clientVars
<1> QED BY <1>1, <1>2, <1>4, <1>5, UsageRest

\* It is inductive with what is known of every writer (ChannelInv).
LEMMA UsageNext == ChannelInv /\ UsageInv /\ [Next]_vars => UsageInv'
<1> SUFFICES ASSUME ChannelInv, UsageInv, [Next]_vars PROVE UsageInv'
  OBVIOUS
<1>1. TypeInv /\ TypeOK /\ TypeOK' /\ fault = "none" /\ Sinks
  BY ChannelNext DEF ChannelInv, TypeInv, UsageInv
<1>2. PICK p \in Programs, n \in [Clients -> Nat] :
        Played(p, n) /\ (ShareInv(p, n) \/ \E c \in Clients : SequentialInv(p, n, c))
  BY DEF UsageInv
<1>3. /\ fault' = "none" /\ Sinks'
      /\ ShareGoes(p) \/ \E c \in Clients : OneGoes(p, c)
  <2>1. CASE \E c \in Clients : ClientStep(c)
    BY <1>1, <1>2, <2>1, UsageClient
  <2>2. CASE \E w \in Writers : WorkerStep(w)
    BY <1>1, <1>2, <2>2, UsageWorker
  <2>3. CASE UNCHANGED vars
    <3>1. UNCHANGED <<prog, instance, life, running, joinable, pc, tmp, stack, storage, mgr,
                      accepted, queue, fault, out, durable, logger, wpc, target, written>>
      BY <2>3 DEF vars, writerVars, workerVars, clientVars, sinkVars
    <3>2. Sinks'
      BY <1>1, <3>1, SinksLife
    <3> QED BY <1>1, <1>2, <3>1, <3>2, UsageRest
  <2> QED BY <2>1, <2>2, <2>3 DEF Next, Halted
<1>4. \E m \in [Clients -> Nat] :
        Played(p, m)' /\ (ShareInv(p, m)' \/ \E c \in Clients : SequentialInv(p, m, c)')
  BY <1>3 DEF ShareGoes, OneGoes
<1> QED BY <1>3, <1>4 DEF UsageInv

\* No call is made yet.
LEMMA UsageInit ==
  ASSUME \A p \in Programs : DocumentedUse(p), Init PROVE UsageInv
<1>1. PICK p \in Programs : p = prog /\ DocumentedUse(p)
  BY DEF Init
<1>2. PICK n : n = [c \in Clients |-> 0]
  OBVIOUS
<1>3. Played(p, n) /\ n \in [Clients -> Nat]
  <2>1. ASSUME NEW c \in Clients
        PROVE  n[c] <= Len(p[c]) /\ prog[c] = SubSeq(p[c], n[c] + 1, Len(p[c]))
    <3>1. PICK s \in Seq(Calls) : s = p[c]
      BY ConstantsAssumption
    <3>2. 0 <= Len(s) /\ s = SubSeq(s, 0 + 1, Len(s))
      OBVIOUS
    <3> QED BY <1>1, <1>2, <3>1, <3>2
  <2>2. n \in [Clients -> Nat]
    BY <1>2
  <2> QED BY <2>1, <2>2 DEF Played
<1>4. /\ fault = "none" /\ instance = NoWriter
      /\ \A w \in Writers : /\ life[w] = "free" /\ ~running[w] /\ ~joinable[w]
                            /\ logger[w] = Console /\ queue[w] = <<>> /\ wpc[w] = "none"
                            /\ accepted[w] = <<>> /\ written[w] = <<>>
      /\ \A c \in Clients : pc[c] = "idle" /\ storage[c] = <<>>
      /\ \A l \in Loggers : out[l] = <<>> /\ durable[l] = 0
  BY DEF Init
<1>5. Sinks
  <2>1. \A l \in Loggers : durable[l] <= Len(out[l])
    BY <1>4
  <2>2. \A w \in Writers : Elements(written[w]) = {}
    BY <1>4 DEF Elements
  <2> QED BY <1>4, <2>1, <2>2, ConstantsAssumption DEF Sinks, Stores
<1>6. \A c \in Clients, h \in Handles :
        ~Open(p[c], n[c] + 1, h) /\ ~Fresh(p[c], n[c] + 1, h)
  <2>1. \A c \in Clients : 1 .. (n[c] + 1) - 1 = {}
    BY <1>2
  <2> QED BY <2>1 DEF Open, Fresh
<1>7. CASE SharingUse(p)
  <2>1. \A c \in Clients : ShareOf(c, p[c], n[c] + 1)
    BY <1>4, <1>6 DEF ShareOf
  <2>2. ShareInv(p, n)
    BY <1>4, <1>7, <2>1 DEF ShareInv
  <2> QED BY <1>3, <1>4, <1>5, <2>2 DEF UsageInv
<1>8. ASSUME NEW c \in Clients, SequentialUse(p[c]), \A d \in Clients \ {c} : p[d] = <<>>
      PROVE  UsageInv
  <2>1. OthersDone /\ Placed(c) /\ Agrees(c, p[c], n[c] + 1)
    BY <1>4, <1>6 DEF OthersDone, Placed, AtRest, Agrees
  <2>2. SequentialInv(p, n, c)
    BY <1>8, <2>1 DEF SequentialInv
  <2> QED BY <1>3, <1>4, <1>5, <2>2 DEF UsageInv
<1> QED BY <1>1, <1>7, <1>8 DEF DocumentedUse

\* The writer in use is the only one with a worker.
LEMMA UsageSole == ChannelInv /\ UsageInv => SoleWorker
<1> SUFFICES ASSUME ChannelInv, UsageInv, NEW w \in Writers, wpc[w] \notin {"none", "done"}
             PROVE  w = instance
  BY DEF SoleWorker
<1>1. joinable[w]
  BY DEF ChannelInv, HandOffInv, HandOff
<1>2. life[w] # "free"
  BY <1>1 DEF ChannelInv, LifeInv, Pending, Unjoinable
<1> QED BY <1>1, <1>2 DEF UsageInv, ShareInv, SequentialInv, OthersDone

\* A writer that is gone had written all it accepted, and closed its logger after that.
LEMMA UsageDurable == ChannelInv /\ UsageInv => FinishedIsDurable
<1> SUFFICES ASSUME ChannelInv, UsageInv, \A w \in Writers : life[w] \in {"free", "dead"},
                    NEW m \in Accepted
             PROVE  \E l \in Loggers : m \in Durable(l)
  BY DEF FinishedIsDurable
<1>1. PICK w \in Writers : m \in Elements(accepted[w])
  BY DEF Accepted
<1>2. TypeOK /\ HandOff(w) /\ Sinks
  BY DEF ChannelInv, TypeInv, HandOffInv, UsageInv
<1>3. life[w] = "dead"
  <2>1. accepted[w] # <<>>
    BY <1>1 DEF Elements
  <2> QED BY <1>2, <2>1 DEF Sinks
<1>4. instance = NoWriter
  <2>1. ASSUME instance # NoWriter PROVE FALSE
    <3>1. instance \in Writers /\ life[instance] = "live"
      BY <1>2, <2>1 DEF TypeOK, ChannelInv, OwnerInv, LiveOwned
    <3> QED BY <3>1
  <2> QED BY <2>1
<1>5. w # instance
  BY <1>4, ConstantsAssumption
<1>6. queue[w] = <<>> /\ ~joinable[w]
  BY <1>3, <1>5 DEF UsageInv, ShareInv, SequentialInv, OthersDone
<1>7. accepted[w] = written[w]
  <2>1. inflight[w] = <<>> /\ accepted[w] = written[w] \o inflight[w] \o queue[w]
    BY <1>2, <1>6 DEF HandOff
  <2>2. PICK wr \in Seq(Msgs \cup {EmptyMsg}) : wr = written[w]
    BY <1>2 DEF TypeOK
  <2>3. wr \o <<>> \o <<>> = wr
    OBVIOUS
  <2> QED BY <1>6, <2>1, <2>2, <2>3
<1>8. m \in Durable(logger[w]) /\ logger[w] \in Loggers
  BY <1>1, <1>2, <1>3, <1>7 DEF Sinks, TypeOK
<1> QED BY <1>8

\* The invariant, for programs that use the API as documented.
LEMMA UsageInvariant ==
  ASSUME \A p \in Programs : DocumentedUse(p) PROVE Spec => [](ChannelInv /\ UsageInv)
<1>1. Init => ChannelInv /\ UsageInv
  BY ChannelInit, UsageInit
<1>2. ChannelInv /\ UsageInv /\ [Next]_vars => ChannelInv' /\ UsageInv'
  BY ChannelNext, UsageNext
<1> QED BY <1>1, <1>2, PTL DEF Spec

\* In its documented use the logger never fails: no null or dangling LogWriter, no
\* std::terminate() from a std::thread that is joined twice or assigned while it is
\* joinable, no logger that was replaced under its worker.
THEOREM NoFaultCorrect ==
  ASSUME \A p \in Programs : DocumentedUse(p) PROVE Spec => []NoFault
<1>1. UsageInv => NoFault
  BY DEF UsageInv, NoFault
<1> QED BY <1>1, UsageInvariant, PTL

\* In its documented use no two workers run at the same time, although stop() leaves the
\* LogManagers of the writer it stopped with it and the next call makes another writer.
THEOREM SoleWorkerCorrect ==
  ASSUME \A p \in Programs : DocumentedUse(p) PROVE Spec => []SoleWorker
BY UsageSole, UsageInvariant, PTL

\* In its documented use nothing is lost: when the thread has made its calls and its
\* writers are destroyed, every message that was flushed or went with its LogManager is
\* in the output of a logger, flushed.
THEOREM FinishedIsDurableCorrect ==
  ASSUME \A p \in Programs : DocumentedUse(p) PROVE Spec => []FinishedIsDurable
BY UsageDurable, UsageInvariant, PTL
==============================================================================
