SPECIFICATION FairSpec
CONSTANTS
  Probes <- MCProbes
  Window = 3
  MaxGap = 2
  MaxFaults = 2
INVARIANTS
  GroupIsInTheKnow
PROPERTIES
  TheGroupLearns
