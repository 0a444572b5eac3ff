CONSTANTS
  s1 = s1
  s2 = s2
  t1 = t1
  t2 = t2
  q = q
  Catalog = Catalog
  None = None
  Sessions = {s1, s2}
  Tables <- MCTables
  Queries <- MCQueries
  Keys <- MCKeys
  TablesOf <- MCTablesOf
  NumBlocks = 1
  BlockItems = 2
  HashElements = 2
  Transactional = {s1}
  MaxWrites = 2
  MaxKept = 1
  FailedCommits = FALSE
SYMMETRY TableSymmetry
SPECIFICATION Spec
INVARIANTS
  TypeOK
  StorageConsistent
  MapsCoverItems
  
PROPERTIES
  ExpiryLooksAgain
CHECK_DEADLOCK FALSE
