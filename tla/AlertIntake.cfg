SPECIFICATION FairSpec
CONSTANTS
  r1 = r1
  r2 = r2
  r3 = r3
  e1 = e1
  e2 = e2
  Requests = {r1, r2, r3}
  Events = {e1, e2}
  EventOf <- MCEventOf
  MaxPending = 1
  MaxLen = 2
  DecrAttempts = 2
  MaxFaults = 1
  NoRequest = NoRequest
INVARIANTS
  TypeOK
  AckedIsHandled
  StartsArePaid
  GaugeHonest
PROPERTIES
  AcceptedIsHandled
CHECK_DEADLOCK FALSE
