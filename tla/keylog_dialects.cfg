\* A Root of Trust written in either base64 dialect.
SPECIFICATION Spec
CONSTANTS
  c1 = c1
  c2 = c2
  w1 = w1
  None = None
  Custodian <- CustodianValue
  Weak = {}
  Dialect = {"url", "std"}
  Statement <- StatementValue
  MaxPubs = 2
  MaxSigned = 2
SYMMETRY Alike
INVARIANTS
  CountsDistinctKeys
\* One call, and signing is bounded.
CHECK_DEADLOCK FALSE
