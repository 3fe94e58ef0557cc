CONSTANTS
  u1 = u1  u2 = u2  s1 = s1  s2 = s2  c1 = c1  h1 = h1  h2 = h2  p1 = p1
  r1 = r1  r2 = r2  d1 = d1  d2 = d2  admin = admin  None = None  Nothing = Nothing  Gone = Gone
  Users = {u1, u2}  Salons = {s1}  Codes = {c1}  Handlers = {h1, h2}  Registered = {s1}
  Places = {}  Targets <- MCTargets  RoleChanges = {}  Trial = {TRUE}
SPECIFICATION MCSpec
SYMMETRY MCSymmetry
INVARIANTS
  PartsSound
  GrantsBounded
  AccessIsWhole
  PaidMonthsGranted
  PublishedAgrees
  ShownOnce
  WeeksKept
  RatingsTold
  RequestsAccounted
  OffersKept
  DraftsKept
PROPERTIES
  ClaimsKeptAlone
  NeverShortened
\* Deadlock is not checked: the administrator and the owners may stop asking.
CHECK_DEADLOCK FALSE
