\* Requests one at a time, one of them cut short; webhooks are delivered.
CONSTANTS
  Offers = {o1}
  Offices = {f1}
  Prices = {20}
  Handlers = {h1}
  Payments = {p1, p2}
  Settings <- OneRate
  Discounts = {0, 5}
  Admin = admin
  MaxFailures = 1
  None = None
SPECIFICATION FairSpec
PROPERTIES CapturedEndsInSuccess
\* The booking is over and the ids have run out.
CHECK_DEADLOCK FALSE
