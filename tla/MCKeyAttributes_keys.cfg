\* Three keys and three values; the keys run out.
SPECIFICATION Spec
CONSTANTS
  k1 = k1
  k2 = k2
  k3 = k3
  v1 = v1
  v2 = v2
  v3 = v3
  None = None
  Gone = Gone
  Keys <- MCKeys
  Values <- MCValues
  Templates <- MCTemplates
  Claims = {"NEVER_EXTRACTABLE"}
  Changed = {"EXTRACTABLE", "SENSITIVE"}
SYMMETRY Symmetry
INVARIANTS
  NeverExtractableKept
  AlwaysSensitiveKept
  FlagsAgree
CHECK_DEADLOCK FALSE
