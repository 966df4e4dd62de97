\* Requests one at a time, one of them may fail.
CONSTANTS
  Accounts = {office}
  Rows = {r1, r2, r3}
  Amounts = {1, 2}
  Handlers = {h1}
  MaxFailures = 1
  None = None
SPECIFICATION FairSpec
INVARIANTS TypeOK BooksBalance HeldCreditsCovered ReleasedOnce
PROPERTIES ImplementsEscrow DueIsReleased
\* The ids run out: every row is decided and nothing is left to do.
CHECK_DEADLOCK FALSE
