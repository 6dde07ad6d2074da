\* Two sessions, two objects besides the one built in.
SPECIFICATION Spec
CONSTANTS
  s1 = s1
  s2 = s2
  None = None
  SessionHandles <- MCSessionHandles
  MaxUid = 3
  MaxHandle = 3
SYMMETRY Symmetry
INVARIANTS
  TypeOK
  HandlesKeepTheirObject
  PrivateNeedsLogin
  SessionObjectsEnd
PROPERTIES
  FailedCallsChangeNothing
  
