SPECIFICATION AgentFairSpec
CONSTANTS
  Callers = {c1, c2}
  Alerts = {a1}
  ToolCalls = {t1}
  NoCaller = NoCaller
  Window = 2
  Num = 1
  Den = 2
  MinResults = 3
  MaxResults = 4
  MaxTurns = 2
  MaxAttempts = 2
INVARIANTS
  CallsAreAnswered
PROPERTIES
  TripsOnFreshFailures
  OpenForAWindow
  ImplementsRouter
  RecoversInTheEnd
  EveryTalkEnds
  EveryAlertIsAnswered
