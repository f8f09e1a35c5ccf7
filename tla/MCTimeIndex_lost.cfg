CONSTANTS
  MaxTime = 7
  MaxX = 1
  Name <- MCNames
  Catalog <- BorderCatalog
SPECIFICATION Spec
INVARIANTS BrowsesCovered
