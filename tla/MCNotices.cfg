SPECIFICATION Spec
CONSTANTS
  r1 = r1
  r2 = r2
  b1 = b1
  b2 = b2
  c1 = c1
  t1 = t1
  Users = {b1, b2, c1}
  Tokens = {t1}
  Requests = {r1, r2}
  BookingIds = {1, 2}
  News = {"Pending", "Cancelled", "created", "cancelled"}
  FcmConfigured = {TRUE, FALSE}
  Businesses = {b1, b2}
  Clients = {c1}
  Statuses = {"Pending", "Cancelled"}
  CustomerIds = {1, 2, 3}
  CarIds = {1, 2, 3}
  Vehicles = {"sedan", "scooter"}
  Identified = {"sedan"}
  MaxCalls = 2
CHECK_DEADLOCK FALSE
INVARIANTS
  TypeOK
  OutboxTruthful
  DisabledHasCause
  PushReachesItsUser
  BookingWithinBusiness
  MessagesTrue
  StatusKnown
  DuplicatesNeedOverlap
PROPERTY
  PendingResolved
