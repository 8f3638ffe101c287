SPECIFICATION Spec
CONSTANTS
  alice = alice
  bob = bob
  d1 = d1
  d2 = d2
  d3 = d3
  d4 = d4
  d5 = d5
  d6 = d6
  whole = whole
  renamed = renamed
  broken = broken
  None = None
  Dialogs <- MCDialogs
  Owner <- MCOwner
  Kind <- MCKind
  Principals <- MCPrincipals
  Catalogs <- MCCatalogs
  Valid <- MCValid
  MaxRevision = 2
  MaxSends = 2
  MaxKeys = 2
CHECK_DEADLOCK FALSE
CONSTRAINT World
INVARIANTS
  AppliedOnce
PROPERTIES
  AnswersAreTrue
  AppliedAsConfirmed
  ReviewExcludesRun
