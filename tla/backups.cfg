\* Two backups, two faults.
SPECIFICATION BackupsSpec
CONSTANTS
  p1 = p1
  p2 = p2
  None = None
  Byte = {0, 1, 2}
  Noise = {0, 1}
  NonceLen = 1
  TagLen = 1
  DataLen = 1
  SaltLen = 1
  Passphrase <- PassphraseValue
  MaxBackups = 2
  MaxDecay = 2
SYMMETRY Alike
INVARIANTS
  BackupsTypeOK
  RestoresOnlyWhole
  WholeRestores
  ImportNeverPanics
\* One call of import_backup.
CHECK_DEADLOCK FALSE
