\* Two devices, two passphrases, one value.
SPECIFICATION FairSpec
CONSTANTS
  None = None
  Device = {d1, d2}
  Passphrase = {p1, p2}
  Name = {n1}
  Text = {t1, t2}
  Prefixed = {t2}
  MaxDraws = 2
  MaxLosses = 2
  MaxCrashes = 1
INVARIANTS
  TypeOK
  AlwaysAWayIn
  NothingIsLost
PROPERTIES
  EverythingGetsProtected
