\* Every adapter, every combination of one fault per argument.
SPECIFICATION FairSpec
CONSTANTS
  None = None
  Faults <- Kinds
  Typed <- MCTyped
  MaxSlips = 1
INVARIANTS
  SurfacesAgree
  NothingBadOpens
  BlameIsDeserved
PROPERTIES
  EveryCallSettles
\* A caller that has its result stops.
CHECK_DEADLOCK FALSE
