SPECIFICATION Spec
CONSTANTS
  d1 = d1
  d2 = d2
  s1 = s1
  s2 = s2
  r1 = r1
  Devices = {d1}
  Sessions = {s1, s2}
  Requests = {r1}
  MaxGenerations = 1
  MaxFailures = 0
  MaxPublishing = 2
INVARIANTS OwedIsTracked
CHECK_DEADLOCK FALSE
