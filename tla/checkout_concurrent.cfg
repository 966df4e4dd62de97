\* Two requests in flight at any time: a partial and a full payment of one offer.
CONSTANTS
  Offers = {o1}
  Offices = {f1}
  Prices = {20}
  Handlers = {h1, h2}
  Payments = {p1, p2}
  Settings <- OneRate
  Discounts = {0}
  Admin = admin
  MaxFailures = 0
  None = None
SYMMETRY IdSymmetry
SPECIFICATION Spec
INVARIANTS NothingWithoutCapture SelectionBacked
\* The booking is over and the ids have run out.
CHECK_DEADLOCK FALSE
