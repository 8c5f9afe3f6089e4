\* A server that takes every write.
SPECIFICATION Spec
CONSTANTS
  d1 = d1
  d2 = d2
  p1 = p1
  p2 = p2
  None = None
  Device <- DeviceValue
  Passphrase <- PassphraseValue
  Checked = FALSE
  MaxDraws = 4
SYMMETRY Alike
INVARIANTS
  TypeOK
  OneAuk
  PublicKeysMatch
  NeverLockedOut
PROPERTY AukNeverReplaced
\* Every flow draws randomness, and draws are bounded.
CHECK_DEADLOCK FALSE
