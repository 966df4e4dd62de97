SPECIFICATION Spec
CONSTANTS
  Handlers = {h1, h2}
  None = None
  a1 = a1  a2 = a2  m1 = m1  m2 = m2  m3 = m3  p1 = p1  p2 = p2  p3 = p3  n1 = n1  w1 = w1  r1 = r1
  Accounts = {a1, a2}
  Emails = {m1, m2, m3}
  Phones = {p1, p2, p3}
  Passwords = {w1, w2}
  AdminRoles = {r1}
  Employees = {x1}
  Names = {n1, n2}
  MaxCodes = 2
  MaxAttempts = 2
  Sessions = {s1, s2}
  OfferRows = {1, 2}
  PaymentRows = {1, 2}
  MaxNow = 4
  DaysPerMonth = 1
  Worth = {1, 2}
  Foci = {"codes", "phones", "sessions", "profile", "staff", "overlap", "admin", "offers", "payments"}
INVARIANT ReportsTypeOK OneLiveCode CodeTriesBounded LoggedOutStaysOut OwnerDataKept VerifiedIsProved OfficeAccessGranted
INVARIANT ShownNameCurrent ReportsAgree
SYMMETRY HandlerSymmetry
CHECK_DEADLOCK FALSE
