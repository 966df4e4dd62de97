\* Requests one at a time: two offers of two offices, two payments, rates that change.
CONSTANTS
  Offers = {o1, o2}
  Offices = {f1, f2}
  Prices = {20}
  Handlers = {h1}
  Payments = {p1, p2}
  Settings <- TwoRates
  Discounts = {0}
  Admin = admin
  MaxFailures = 1
  None = None
SYMMETRY IdSymmetry
SPECIFICATION Spec
INVARIANTS TypeOK OfficeCreditCap AdminCreditCap PaidMatchesLedger
PROPERTIES MovesForward
\* The booking is over and the ids have run out.
CHECK_DEADLOCK FALSE
