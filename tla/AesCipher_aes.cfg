\* Every mechanism, in both directions, with every way to cut ten bytes into
\* parts of six at most, and any room: blocks of two, tags of two, CCM
\* messages of three, counters of octets of four values and 0, 1 or 2 bits
\* more.
SPECIFICATION Spec
CONSTANTS
  Modes = {"CBC", "CBC_PAD", "CTR", "GCM", "CCM", "PKCS7"}
  Block = 2
  TagLen = 2
  DataLen = 3
  LeftBits = {0, 1, 2}
  OctetValues = {1, 4}
  MaxFed = 10
  MaxPart = 6
  MaxRoom = 13
INVARIANTS
  TypeOK
  StreamInOrder
  EndPaysAll
  AcceptedIsAuthentic
  CounterDoesNotWrap
  AskedRoomSuffices
PROPERTY
  TooSmallChangesNothing
