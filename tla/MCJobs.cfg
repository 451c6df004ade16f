SPECIFICATION Spec
CONSTANTS
  r1 = r1
  r2 = r2
  w1 = w1
  e1 = e1
  a1 = a1
  t1 = t1
  Exports = {e1}
  Accounts = {a1}
  Tickets = {t1}
  Requests = {r1, r2}
  Workers = {w1}
  QueuesEnabled = {TRUE, FALSE}
  ExportAttempts = 2
  OtherAttempts = 2
  MaxCalls = 3
CHECK_DEADLOCK FALSE
INVARIANTS
  TypeOK
  WaitHasCause
  DraftsDeleted
PROPERTIES
  DoneOnce
  WorkIsDone
