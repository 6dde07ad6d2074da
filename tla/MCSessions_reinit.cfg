\* A database whose C_InitToken stopped half-way.
SPECIFICATION Spec
CONSTANTS
  s1 = s1
  s2 = s2
  k1 = k1
  k2 = k2
  p0 = p0
  p1 = p1
  p2 = p2
  Slots = {s1}
  Pins = {p0}
  DefaultPin = p0
  Keys = {k1, k2}
  MaxAttempts = 1
  MaxHandle = 2
  NoSlot = NoSlot
  NoKey = NoKey
  Absent = Absent
SYMMETRY KeySymmetry
INVARIANT
  EveryTokenOpens
