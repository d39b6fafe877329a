SPECIFICATION Spec
CONSTANTS
  d1 = d1
  d2 = d2
  s1 = s1
  s2 = s2
  r1 = r1
  Devices = {d1, d2}
  Sessions = {s1, s2}
  Requests = {r1}
  MaxGenerations = 3
  MaxFailures = 1
  MaxPublishing = 1
INVARIANTS InterestIsCounted AppliedIsSubscribed IdleIsSettled OwedIsTracked
PROPERTY InterestIsServed
CHECK_DEADLOCK FALSE
