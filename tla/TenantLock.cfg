SPECIFICATION FairSpec
CONSTANTS
  alice = alice
  bob = bob
  s1 = s1
  s2 = s2
  NoLock = NoLock
  Idle = Idle
  Principals <- MCPrincipals
  Sessions <- MCSessions
  Limited <- MCLimited
  Durations <- MCDurations
  Ranks <- MCFewRanks
  MaxWait = 2
  MaxTime = 3
  MaxEvents = 3

INVARIANTS
  TypeOK
  WriterHoldsLock
  AuditTrail
PROPERTIES
  LiveLeaseProtected
  LeaseBounded
  ImplementsWriteFence
  ExpiredLockSwept
CONSTRAINT SteadyLate
