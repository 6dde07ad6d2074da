\* Two objects, two PINs set, and a cache that holds two keys.
SPECIFICATION Spec
CONSTANTS
  Pins = {"p1", "p2", "p3"}
  Lucky = {"p3"}
  Ids = {1, 2}
  MaxSalt = 2
  CacheMax = 1
  None = None
INVARIANTS
  TypeOK
  FirstLoginNeedsThePin
  StoredUnderThePin
  ReadsRight
  LoginKeepsItsKey
