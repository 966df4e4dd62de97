SPECIFICATION Spec
CONSTANTS
  Handlers = {h1}
  None = None
  a1 = a1  a2 = a2  m1 = m1  m2 = m2  p1 = p1  p2 = p2  n1 = n1  w1 = w1  g1 = g1  g2 = g2  k1 = k1  r1 = r1  c1 = c1  c2 = c2  d1 = d1
  Accounts = {a1, a2}
  Emails = {m1, m2}
  Phones = {p1, p2}
  Passwords = {w1}
  AdminRoles = {r1, r2}
  OfficeRoles = {q1}
  RoleNames = {s1, s2}
  Sections = {f1, f2}
  Employees = {x1}
  Names = {n1}
  Plans = {g1, g2}
  Prices = {1, 2}
  Features = {k1, k2}
  MaxSubs = 3
  SubPayments = {i1}
  Coupons = {c1, c2}
  Codes = {d1, d2}
  Amounts = {0, 1, 3, 49, 50, 99, 101}
  Discounts = {1, 50, 100}
  Services = {v1, v2}
  Foci = {"plans", "subscribers", "editions", "coupons", "services", "roles"}
INVARIANT SubscriptionsAllTypeOK EditsStand OneSubscription KeysTrue PaidIsSubscribed CouponsSound ServiceAsSet
CHECK_DEADLOCK FALSE
