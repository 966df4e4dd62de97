\* Requests one at a time, none cut short; a partial payment may stay unpaid.
CONSTANTS
  Offers = {o1}
  Offices = {f1}
  Prices = {20}
  Handlers = {h1}
  Payments = {p1, p2}
  Settings <- OneRate
  Discounts = {0}
  Admin = admin
  MaxFailures = 0
  None = None
SPECIFICATION Spec
INVARIANTS CompletedIsFullyPaid
\* The booking is over and the ids have run out.
CHECK_DEADLOCK FALSE
