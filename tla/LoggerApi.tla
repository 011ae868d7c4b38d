------------------------------ MODULE LoggerApi ------------------------------
(***************************************************************************)
(* The public faces of the logger as sequences of calls on LogWriter and  *)
(* LogManager: the C++ macros (Macros.hh), the C API (Capi/logger.cc) and *)
(* its macro, the usage in the tests; and what their callers may expect.  *)
(***************************************************************************)
EXTENDS LogWriter

CreateManager(h) == <<[op |-> "create", h |-> h]>>
LogMessage(h, m) == <<[op |-> "log", h |-> h, m |-> m]>>
FlushManager(h)  == <<[op |-> "flush", h |-> h]>>
CloseManager(h)  == <<[op |-> "close", h |-> h]>>
StopWriter       == <<[op |-> "stop"]>>
UseLogger(l)     == <<[op |-> "set", l |-> l]>>

\* AU_LOGGER_LOG: the manager goes out of scope after stop().
LoggerMacro(h, m) == CreateManager(h) \o LogMessage(h, m) \o FlushManager(h)
                       \o StopWriter \o CloseManager(h)

\* au_logger_destroy() stops the writer every context shares, then deletes the
\* context's LogManager.
CtxDestroy(h) == StopWriter \o CloseManager(h)

\* AUD_LOG.
CtxMacro(h, m) == CreateManager(h) \o LogMessage(h, m) \o FlushManager(h)
                    \o CtxDestroy(h)

\* A LogManager in a scope of its own, as in LoggerTest.cc: its destructor
\* flushes it.
ScopedManager(h, m) == CreateManager(h) \o LogMessage(h, m) \o CloseManager(h)
-----------------------------------------------------------------------------
(* The documented use.  Of the calls s of a thread, before the i-th of them: *)

\* the LogManager h is in its scope,
Open(s, i, h) == \E j \in 1 .. i - 1 :
  s[j].op = "create" /\ s[j].h = h
    /\ \A k \in j + 1 .. i - 1 : ~(s[k].op = "close" /\ s[k].h = h)
\* and there was no stop() since it was made;
Fresh(s, i, h) == \E j \in 1 .. i - 1 :
  s[j].op = "create" /\ s[j].h = h
    /\ \A k \in j + 1 .. i - 1 : ~(s[k].op = "close" /\ s[k].h = h) /\ s[k].op # "stop"
\* the thread's buffer has messages;
Buffered(s, i) == \E j \in 1 .. i - 1 :
  s[j].op = "log" /\ \A k \in j + 1 .. i - 1 : s[k].op \notin {"flush", "close"}
\* no LogManager was made since the last stop(), so no worker runs.
Unstarted(s, i) == \A j \in 1 .. i - 1 :
  s[j].op = "create" => \E k \in j + 1 .. i - 1 : s[k].op = "stop"

\* A LogManager is used in its scope only.
Scoped(s) == \A i \in DOMAIN s :
  s[i].op \in {"log", "flush", "close"} => Open(s, i, s[i].h)

Stores(l) == LoggerKind[l] \in {"Console", "File"}

\* One thread: what it has logged it flushes through a LogManager made since the last
\* stop(), and it sets the logger, to one that stores, while no worker runs.
SequentialUse(s) ==
  /\ Scoped(s)
  /\ \A i \in DOMAIN s :
       /\ s[i].op \in {"flush", "close"} /\ Buffered(s, i) => Fresh(s, i, s[i].h)
       /\ s[i].op = "set" => Unstarted(s, i) /\ Stores(s[i].l)

\* Several threads: each has its own LogManagers, and none calls stop() or setLogger().
SharingUse(p) ==
  /\ \A c \in Clients : /\ Scoped(p[c])
                        /\ \A i \in DOMAIN p[c] : p[c][i].op \notin {"stop", "set"}
  /\ \A c, d \in Clients : \A i \in DOMAIN p[c], j \in DOMAIN p[d] :
       p[c][i].h = p[d][j].h => c = d

\* What logging_intro.md, the macros, the C API and the tests do, in one program p.
DocumentedUse(p) ==
  \/ SharingUse(p)
  \/ \E c \in Clients : SequentialUse(p[c]) /\ \A d \in Clients \ {c} : p[d] = <<>>
-----------------------------------------------------------------------------
Elements(s) == {s[i] : i \in DOMAIN s}
Accepted == UNION {Elements(accepted[w]) : w \in Writers}
Written  == UNION {Elements(written[w]) : w \in Writers}
Durable(l) == Elements(SubSeq(out[l], 1, durable[l]))

\* The program neither crashes nor uses a dead object.
NoFault == fault = "none"

\* getLogWriter() hands out a writer: LogWriter.hh:73 "A shared pointer to the
\* unique LogWriter instance", never a null one.
GetNeverNull == \A c \in Clients : In(c, "ref") => tmp[c] # NoWriter

\* "Unique": two workers never run at the same time, so the messages of the
\* process reach its logger one by one.
SoleWorker == \A v, w \in Writers :
  wpc[v] \notin {"none", "done"} /\ wpc[w] \notin {"none", "done"} => v = w

\* Once the callers have finished and the writers they used are gone, all they
\* logged is in the output for good: handed to a logger that stores and flushed
\* out of its buffer.
FinishedIsDurable ==
  Finished /\ (\A w \in Writers : life[w] \in {"free", "dead"}) =>
    \A m \in Accepted : \E l \in Loggers : m \in Durable(l)

\* Nothing that was enqueued stays in a queue for ever.
AcceptedIsWritten == \A m \in Msgs : m \in Accepted ~> m \in Written

\* Each caller gets back from every call.
CallsReturn == <>[]Finished

\* "Signals the logging thread to stop and waits for it to finish": a stop()
\* that waits gets past its wait.
StopReturns ==
  \A c \in Clients : At(c, "wait") ~> ~At(c, "wait") \/ fault # "none"
=============================================================================
