\* Every function that never waits for the token with a session held.
\* The system stops when the calls are used up.
SPECIFICATION Spec
CONSTANTS
  Threads = {t1, t2}
  Handles = {h1, h2}
  Functions <- OtherFunctions
  MaxCalls = 3
  None = None
CHECK_DEADLOCK FALSE
INVARIANTS
  NoDeadlock
  NoReadOnlySessionUnderSO
  SessionsAgreeWithToken
PROPERTIES
  ImplementsLoginContract
  CallsReturn
