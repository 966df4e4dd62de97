\* Requests one at a time: three offers of two offices.
CONSTANTS
  Offers = {o1, o2, o3}
  Offices = {f1, f2}
  Prices = {1, 2}
  Handlers = {h1}
  None = None
SPECIFICATION MarketSpec
INVARIANTS OnePendingPerOffice AcceptedIsSelected
PROPERTIES DecisionsFinal
\* The booking is over and the ids have run out.
CHECK_DEADLOCK FALSE
