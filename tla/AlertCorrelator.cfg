SPECIFICATION FairSpec
CONSTANTS
  a1 = a1
  a2 = a2
  a3 = a3
  ip1 = ip1
  ip2 = ip2
  web = web
  db = db
  Alerts = {a1, a2, a3}
  Consumers = {c1}
  Targets = {ip1, ip2}
  Hostnames = {web, db}
  NoToken = NoToken
  NoAlert = NoAlert
  IpOf <- MCIpOf
  NameOf <- MCNameOf
  StampOf <- MCStampOf
  Akin <- MCAkin
  TimeWindow = 1
  GroupTTL = 2
  LockTTL = 2
  MinIdle = 1
  MaxFaults = 2
INVARIANTS
  TypeOK
  RootsAreDistinct
  RingsCostFaults
PROPERTIES
  EveryAlertIsSettled
