SPECIFICATION Spec
CONSTANTS
  c1 = c1  c2 = c2  h1 = h1  h2 = h2  m1 = m1  m2 = m2  m3 = m3
  Clients = {c1, c2}
  Handles = {h1, h2}
  Writers = {1, 2, 3, 4}
  Msgs = {m1, m2, m3}
  Console = console  file = file  dummy = dummy  bogus = bogus
  Loggers = {console, file, dummy, bogus}
  LoggerKind <- MCKind
  NoWriter = NoWriter  NoClient = NoClient  EmptyMsg = EmptyMsg
  Programs <- TwoMacros
INVARIANT GetNeverNull
CHECK_DEADLOCK FALSE
