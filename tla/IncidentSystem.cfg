SPECIFICATION SystemFairSpec
CONSTANTS
  Alerts = {a1}
  Host = h1
  Targets = {h1}
  HostOf <- MCHostOf
  NoToken = NoToken
  MutexTTL = 2
  ExecTimeout = 1
  NotifyAttempts = 2
  MutexAttempts = 1
  MaxOrphans = 1
  AiopsMode = "live"
INVARIANTS
  VerdictFitsHost
  ConfirmedIsHeard
  UnplannedNeedsApproval
PROPERTIES
  ImplementsWorkflow
  EveryPressIsAnswered
  EveryAlertIsClosed
  HostsComeFree
