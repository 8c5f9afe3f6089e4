\* A server that refuses a write of fields changed since they were read.
SPECIFICATION Spec
CONSTANTS
  d1 = d1
  d2 = d2
  p1 = p1
  p2 = p2
  None = None
  Device <- DeviceValue
  Passphrase <- PassphraseValue
  Checked = TRUE
  MaxDraws = 4
SYMMETRY Alike
INVARIANT SignaturesVerify
PROPERTIES
  RetiredCodeStaysDead
  RetiredKeyReturnsOnlyByReset
  ReplacedIdentityIsHeld
  ImplementsAccount
\* Every flow draws randomness, and draws are bounded.
CHECK_DEADLOCK FALSE
