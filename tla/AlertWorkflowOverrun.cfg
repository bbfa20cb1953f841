SPECIFICATION Spec
CONSTANTS
  Alerts = {a1, a2}
  Host = h1
  Targets = {h1}
  HostOf <- MCHostOf
  NoToken = NoToken
  MutexTTL = 3
  ExecTimeout = 1
  NotifyAttempts = 1
  MutexAttempts = 2
  AiopsMode = "live"
SYMMETRY Symmetry
INVARIANTS
  MutualExclusion
