\* Runs of two pushes of the tag may overlap.
SPECIFICATION Spec
CONSTANTS
  g1 = g1
  g2 = g2
  b1 = b1
  None = None
  Commit = {g1, g2, b1}
  Green = {g1, g2}
  MaxRuns = 2
  MaxIncidents = 0
INVARIANT TagAlwaysPinsTheAsset
\* The tag is pushed a bounded number of times.
CHECK_DEADLOCK FALSE
