SPECIFICATION FairSpec
CONSTANTS
  alice = alice
  bob = bob
  w1 = w1
  w2 = w2
  p1 = p1
  p2 = p2
  t1 = t1
  t2 = t2
  Idle = Idle
  Nobody = Nobody
  Runs <- OneRun
  Projects <- OneProject
  Tenants <- OneTenant
  Actors <- OneActor
  Workers <- TwoWorkers
  ProjectOf <- AllInP1
  TenantOf <- AllInT1
  Lease = 2
  DraftLife = 1
  MaxRecoveries = 2
  MaxAttempts = 2
  MaxReleases = 1
  MaxEvents = 3
  MaxRevision = 2

INVARIANTS
  TypeOK
  WriterHoldsClaim
  LogAgreesWithState
  RecoveriesCounted
PROPERTIES
  GuardNeverFires
  RunsEnd
