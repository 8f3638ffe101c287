SPECIFICATION FairSpec
CONSTANTS
  k1 = k1
  k2 = k2
  there = there
  gone = gone
  Workflows <- MCAll
  Worlds <- MCWorlds
  Records <- MCRecords
  Contents <- MCContents
  Answers <- MCAnswers
  Valid <- MCValid
  Calls = 2
  Retries = 2
  MaxRecoveries = 1
  None = None
CHECK_DEADLOCK FALSE

INVARIANTS
  LogIsTrue
  AcceptedIsSound
PROPERTIES
  DraftIsAsSaid
  RunEnds
