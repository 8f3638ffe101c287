SPECIFICATION FairSpec
CONSTANTS
  k1 = k1
  k2 = k2
  there = there
  gone = gone
  Workflows <- MCBuilds
  Worlds <- MCWorlds
  Records <- MCRecords
  Contents <- MCContents
  Answers <- MCAnswers
  Valid <- MCValid
  Calls = 2
  Retries = 1
  MaxRecoveries = 1
  None = None
CHECK_DEADLOCK FALSE

PROPERTY EmptyResultCompletes
