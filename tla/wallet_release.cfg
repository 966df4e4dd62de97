\* The release job, alone, with two credits to release.
CONSTANTS
  Accounts = {office}
  Rows = {r1, r2}
  Amounts = {1}
  Handlers = {h1}
  MaxFailures = 0
  None = None
SPECIFICATION Spec
INVARIANTS PendingIsWhatIsHeld
CHECK_DEADLOCK FALSE
