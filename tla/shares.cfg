\* Two shares, two faults.
SPECIFICATION Spec
CONSTANTS
  None = None
  Byte = {0, 1, 2}
  Noise = {0, 1}
  NonceLen = 1
  TagLen = 1
  DataLen = 1
  KemCtLen = 1
  KeyLen = 2
  Bundle <- BundleValue
  MaxShares = 2
  MaxDamage = 2
INVARIANTS
  TypeOK
  OpensOnlyWhole
  WholeOpens
  NeverPanics
\* One call of decrypt_share.
CHECK_DEADLOCK FALSE
