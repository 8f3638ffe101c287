SPECIFICATION Spec
CONSTANTS
  alice = alice
  bob = bob
  s1 = s1
  s2 = s2
  s3 = s3
  d1 = d1
  d2 = d2
  c1 = c1
  c2 = c2
  b1 = b1
  b2 = b2
  good = good
  bad = bad
  ChangeSets <- MCChangeSets
  Batches <- MCBatches
  Principals <- MCPrincipals
  Sessions <- MCSessions
  OwnerOf <- MCOwnerOf
  Datasets <- MCDatasets
  Pieces <- MCPieces
  Contents <- MCRecords
  Life = 1
  MaxDraft = 3
  MaxRevision = 3
  None = None
  NoOne = NoOne
  NoPiece = NoPiece
CONSTRAINT Worlds

INVARIANTS
  TypeOK
  ViewsAreTrue
  SealMatchesDraft
  OneOngoing
  AuditTellsDraft
PROPERTIES
  AppliedAsApproved
  ImplementsProjectDraft
