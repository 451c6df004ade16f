SPECIFICATION Spec
CONSTANTS
  r1 = r1
  r2 = r2
  u1 = u1
  u2 = u2
  s1 = s1
  s2 = s2
  w1 = w1
  w2 = w2
  UserEmails = {u1, u2}
  BusinessEmails = {s1, s2}
  Passwords = {w1, w2}
  Requests = {r1, r2}
  MaxCalls = 3
  Take = 1
  MaxServices = 1
  Before <- MCBefore
CHECK_DEADLOCK FALSE
INVARIANTS
  TypeOK
  ClaimsHold
  OwnerlessHasCause
  CompletionAgrees
  LastStepSubmits
