SPECIFICATION Spec
CONSTANTS
  alice = alice
  bob = bob
  s1 = s1
  s2 = s2
  NoLock = NoLock
  Idle = Idle
  Principals <- MCPrincipals
  Sessions <- MCSessions
  Limited <- MCLimited
  Durations <- MCDurations
  Ranks <- MCOneRank
  MaxWait = 1
  MaxTime = 2
  MaxEvents = 2
INVARIANT ConflictIsDenied
