\* One slot, all PIN operations, every point at which C_InitToken can stop.
SPECIFICATION Spec
CONSTANTS
  s1 = s1
  s2 = s2
  k1 = k1
  k2 = k2
  p0 = p0
  p1 = p1
  p2 = p2
  Slots = {s1}
  Pins = {p0, p1, p2}
  DefaultPin = p0
  Keys = {k1, k2}
  MaxAttempts = 2
  MaxHandle = 2
  NoSlot = NoSlot
  NoKey = NoKey
  Absent = Absent
SYMMETRY KeySymmetry
INVARIANTS
  TypeOK
  LoginHoldsTheKey
  LockedPinReported
PROPERTIES
  LockoutHolds
  ImplementsLoginContract
