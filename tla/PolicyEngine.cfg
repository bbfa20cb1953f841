SPECIFICATION Spec
CONSTANTS
  ProductionHosts <- MCProduction
  StagingHosts <- MCStaging
  Files <- MCFiles
  Requests <- MCRequests
INVARIANTS
  AllowIsJustified
  DecidedInStages
  RedLines
