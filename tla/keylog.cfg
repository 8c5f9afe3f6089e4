\* A Root of Trust written in one base64 dialect.
SPECIFICATION Spec
CONSTANTS
  c1 = c1
  c2 = c2
  w1 = w1
  None = None
  Custodian <- CustodianValue
  Weak = {w1}
  Dialect = {"url"}
  Statement <- StatementValue
  MaxPubs = 3
  MaxSigned = 2
SYMMETRY Alike
INVARIANTS
  TypeOK
  CountsDistinctKeys
  PassedMeansSigned
\* One call, and signing is bounded.
CHECK_DEADLOCK FALSE
