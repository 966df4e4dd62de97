SPECIFICATION Spec
CONSTANTS
  Handlers = {h1, h2}
  None = None
  a1 = a1  a2 = a2  a3 = a3  m1 = m1  m2 = m2  m3 = m3  p1 = p1  p2 = p2  p3 = p3  n1 = n1  w1 = w1  x1 = x1
  Accounts = {a1, a2, a3}
  Emails = {m1, m2, m3}
  Phones = {p1, p2, p3}
  Passwords = {w1}
  AdminRoles = {r1}
  Employees = {x1}
  Names = {n1}
  MaxBookings = 2
  Convs = {c1, c2}
  MaxMessages = 3
  Sockets = {s1, s2}
  MaxNotifications = 3
  Batches = {b1}
  Tokens = {t1}
  Channels = {"push", "email", "in_app"}
  Reviews = {v1, v2, v3}
  Ratings = {1, 5}
  Foci = {"chat", "overlap", "sockets", "events", "teams", "devices", "letters", "segments", "reviews", "together"}
SYMMETRY Symmetry
INVARIANT MessagingTypeOK ChatSound PresenceTrue NotificationsKept ReviewsSound
CHECK_DEADLOCK FALSE
