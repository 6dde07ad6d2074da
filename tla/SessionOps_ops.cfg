\* The operations that interact: a signature and a decryption that may need
\* a login, a digest that can be saved and restored.
SPECIFICATION Spec
CONSTANTS
  OpTypes = {"Sign", "Decryption", "Digest", "Search"}
  None = None
PROPERTIES
  LatestNeedsItsLogin
  FinishedStaysFinished
