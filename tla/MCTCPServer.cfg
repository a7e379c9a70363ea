CONSTANTS
  Conns = {c1, c2, c3}
  Owner = owner
  Acceptor = acceptor
  Apps = {app}
  NULL = NULL
  MaxSends = 2
SPECIFICATION Spec
INVARIANTS
  ListIsLive
  CrashNeedsGap
  DestroyedIsIdle
  MissesOnePerFailure
  ClearsAll
PROPERTIES
  ShutdownReturns
\* The server is shut down, or a handler is caught, or the program crashed.
CHECK_DEADLOCK FALSE
