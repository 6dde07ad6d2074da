\* A second operation next to one that needs a login.
SPECIFICATION Spec
CONSTANTS
  OpTypes = {"Sign", "Digest"}
  None = None
PROPERTY
  EveryUseNeedsItsLogin
