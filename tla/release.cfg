\* Two pushes of the tag, whose runs may overlap.
SPECIFICATION FairSpec
CONSTANTS
  g1 = g1
  g2 = g2
  b1 = b1
  None = None
  Commit = {g1, g2, b1}
  Green = {g1, g2}
  MaxRuns = 2
  MaxIncidents = 2
INVARIANTS
  TypeOK
  TagPinsTheAsset
  NoRedRelease
PROPERTIES
  TagKeepsItsSource
  RerunCompletes
\* The tag is pushed a bounded number of times.
CHECK_DEADLOCK FALSE
