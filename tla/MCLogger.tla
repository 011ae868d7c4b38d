------------------------------- MODULE MCLogger -------------------------------
(* Values for the constants of LoggerApi: the calls the clients make.        *)
EXTENDS LoggerApi

CONSTANTS c1, c2, h1, h2, m1, m2, m3, file, dummy, bogus

MCKind == [l \in Loggers |-> CASE l = file -> "File"
                               [] l = dummy -> "Dummy"
                               [] l = bogus -> "Null"
                               [] OTHER -> "Console"]
\* One client only: the other makes no call.
Alone(p) == [c \in Clients |-> IF c = c1 THEN p ELSE <<>>]
Both(p, q) == [c \in Clients |-> IF c = c1 THEN p ELSE q]

\* A single-threaded program that uses the API the way the docs and tests do.
SequentialPrograms == {Alone(p) : p \in {
  LoggerMacro(h1, m1) \o LoggerMacro(h1, m2),
  UseLogger(file) \o LoggerMacro(h1, m1) \o CtxMacro(h2, m2),
  UseLogger(file) \o CreateManager(h1) \o LogMessage(h1, m1) \o LogMessage(h1, m2)
    \o FlushManager(h1) \o LogMessage(h1, m3) \o FlushManager(h1) \o CtxDestroy(h1),
  ScopedManager(h1, m1) \o ScopedManager(h2, m2) \o StopWriter,
  CreateManager(h1) \o CreateManager(h2) \o LogMessage(h1, m1) \o LogMessage(h2, m2)
    \o CloseManager(h1) \o CloseManager(h2) \o StopWriter }}

\* Threads that log through one running writer and never stop it.
SharingPrograms == {
  Both(ScopedManager(h1, m1) \o ScopedManager(h1, m2), ScopedManager(h2, m3)),
  Both(CreateManager(h1) \o LogMessage(h1, m1) \o FlushManager(h1),
       CreateManager(h2) \o LogMessage(h2, m2) \o LogMessage(h2, m3)
         \o FlushManager(h2)) }

\* What the documentation and the tests do.
UsagePrograms == SequentialPrograms \cup SharingPrograms

\* They are what DocumentedUse says.
ASSUME UsageAssumption == \A p \in UsagePrograms : DocumentedUse(p)

\* Threads that use the macros and setLogger() at will.
RacingPrograms == {
  Both(LoggerMacro(h1, m1), LoggerMacro(h2, m2)),
  Both(LoggerMacro(h1, m1), UseLogger(file) \o ScopedManager(h2, m2)),
  Both(ScopedManager(h1, m1) \o StopWriter, ScopedManager(h2, m2)),
  Both(UseLogger(dummy) \o ScopedManager(h1, m1) \o ScopedManager(h1, m2) \o StopWriter,
       CreateManager(h2) \o UseLogger(file) \o LogMessage(h2, m3) \o CtxDestroy(h2)),
  Both(UseLogger(bogus) \o LoggerMacro(h1, m1), LoggerMacro(h2, m2)) }

TwoMacros == {Both(LoggerMacro(h1, m1), LoggerMacro(h2, m2))}
=============================================================================
