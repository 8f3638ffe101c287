SPECIFICATION Spec
CONSTANTS
  b1 = b1
  b2 = b2
  w = w
  None = None
  Datasets <- MCDatasets
  Large <- MCLarge
  Works <- MCWorks
  Foreign <- MCForeign
  Bridges <- MCBridges
  Desks <- MCDesks
  MaxOperations = 2
  MaxRevision = 4
SYMMETRY Windows
CONSTRAINT World
INVARIANTS
  EvidenceIsTrue
PROPERTIES
  WritesAreMarked
  NothingOverwritten
