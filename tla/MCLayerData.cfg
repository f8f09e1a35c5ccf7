CONSTANTS
  MaxTime = 5
  MaxX = 1
  Name <- MCNames
  Catalog <- MCCatalog
  Upload <- MCUpload
  Proc = {p, q}
  p = p
  q = q
  None = None
  Windows <- MCWindows
  Operations = {"ingest", "delete", "purge", "reseed", "export", "import"}
  MaxCommands = 3
  MaxTogether = 2
  Starts <- MCStarts
  Faults = {"crash", "cut", "step", "unseed", "seed"}
SYMMETRY Symmetry
SPECIFICATION LayerSpec
INVARIANTS TilesFresh TilesComplete ImagesMatchRows 
