\* Two requests in flight at any time, one of them may fail.
CONSTANTS
  Accounts = {office}
  Rows = {r1, r2, r3}
  Amounts = {1}
  Handlers = {h1, h2}
  MaxFailures = 1
  None = None
SYMMETRY IdSymmetry
SPECIFICATION Spec
INVARIANTS NoNegativeAvailable
PROPERTIES DecidedStaysDecided
CHECK_DEADLOCK FALSE
