CONSTANTS
  MaxTime = 5
  MaxX = 0
  Name <- MCNames
  Catalog <- MCCatalog
  Proc = {p, q}
  None = None
SPECIFICATION RaceSpec
INVARIANTS InSync
