\* Three messages of up to two bytes with one operation; IVs of two bits, of
\* which one or both are generated.
SPECIFICATION Spec
CONSTANTS
  Modes = {"GCM", "CCM"}
  IvValues = 4
  Spans = {2, 4}
  Bases = {0}
  ExclusiveOr <- XorOfBits
  MaxLen = 2
  MaxMessages = 3
  None = None
INVARIANTS
  IVsDiffer
  EachMessageItsOwn
PROPERTY
  TooSmallChangesNothing
