SPECIFICATION Spec
CONSTANTS
  r1 = r1
  r2 = r2
  r3 = r3
  e1 = e1
  e2 = e2
  k1 = k1
  k2 = k2
  Runs = {r1, r2, r3}
  Events = {e1, e2}
  Cases = {k1, k2}
  Files = {f1, f2}
  EventOf <- MCEventOf
  CaseOf <- MCOneCase
  NotifyAttempts = 2
  MinSuccess = 2
  MaxCandidates = 2
  MaxFaults = 0
  NoRun = NoRun
  NoCase = NoCase
INVARIANTS
  OnlyReviewedSopsAreUsed
CHECK_DEADLOCK FALSE
