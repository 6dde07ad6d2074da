\* All functions, also those that wait for the token with a session held.
SPECIFICATION Spec
CONSTANTS
  Threads = {t1, t2}
  Handles = {h1, h2}
  Functions <- AllFunctions
  MaxCalls = 3
  None = None
CHECK_DEADLOCK FALSE
INVARIANT
  NoDeadlock
