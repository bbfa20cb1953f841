SPECIFICATION FairSpec
CONSTANTS
  r1 = r1
  r2 = r2
  r3 = r3
  e1 = e1
  e2 = e2
  Requests = {r1}
  Events = {e1}
  EventOf <- MCOneEvent
  MaxPending = 1
  MaxLen = 3
  DecrAttempts = 2
  MaxFaults = 1
  NoRequest = NoRequest
PROPERTIES
  NoStrandedAlerts
CHECK_DEADLOCK FALSE
