SPECIFICATION Spec
CONSTANTS
  obj = obj
  sys = sys
  scope = scope
  context = context
  layers = layers
  links = links
  mapped = mapped
  coded = coded
  shared = shared
  dim = dim
  att = att
  other = other
  grp = grp
  rec = rec
  area = area
  file1 = file1
  file2 = file2
  chk = chk
  Keys <- SharedKeys
  Slices <- SharedSlice
  Together <- SharedTogether
  Objects <- MCObjects
  Supports <- MCSupports
  Catalogs <- MCCatalogs
  SystemOf <- MCSystemOf
  ContentsOf <- MCContents
  LocksOf <- MCLocks
  StatesOf <- MCStates
  Deletes = TRUE
  Reactivates = TRUE
CHECK_DEADLOCK FALSE

PROPERTY OpenedAsBranch
