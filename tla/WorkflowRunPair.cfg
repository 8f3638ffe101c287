SPECIFICATION Spec
CONSTANTS
  alice = alice
  bob = bob
  w1 = w1
  w2 = w2
  p1 = p1
  p2 = p2
  t1 = t1
  t2 = t2
  Idle = Idle
  Nobody = Nobody
  Runs <- ThreeRuns
  Projects <- TwoProjects
  Tenants <- TwoTenants
  Actors <- OneActor
  Workers <- OneWorker
  ProjectOf <- OneOfP2
  TenantOf <- TenantEach
  Lease = 1
  DraftLife = 1
  MaxRecoveries = 0
  MaxAttempts = 1
  MaxReleases = 0
  MaxEvents = 1
  MaxRevision = 3

CONSTRAINT PairOfRuns

INVARIANTS
  RunningInOpenProject
  DraftAgreesWithRun
  NoLostUpdate
PROPERTIES
  ImplementsRunOutcome
