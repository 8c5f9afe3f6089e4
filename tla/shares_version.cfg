\* A bundle with another version.
SPECIFICATION Spec
CONSTANTS
  None = None
  Byte = {0, 1, 2}
  Noise = {0, 1}
  NonceLen = 1
  TagLen = 1
  DataLen = 1
  KemCtLen = 1
  KeyLen = 2
  Bundle <- LaterBundleValue
  MaxShares = 2
  MaxDamage = 2
INVARIANTS
  UnknownVersionsRejected
\* One call of decrypt_share.
CHECK_DEADLOCK FALSE
