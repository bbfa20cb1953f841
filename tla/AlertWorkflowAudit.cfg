SPECIFICATION Spec
CONSTANTS
  Alerts = {a1}
  Host = h1
  Targets = {h1}
  HostOf <- MCHostOf
  NoToken = NoToken
  MutexTTL = 3
  ExecTimeout = 1
  NotifyAttempts = 5
  MutexAttempts = 2
  AiopsMode = "live"
INVARIANTS
  AuditAlwaysWritten
