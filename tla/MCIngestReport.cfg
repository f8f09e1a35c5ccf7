CONSTANTS
  Id = {x, y}
  Images = 4
  MaxLen = 2
  Date = {0, 1}
  Threshold = 1
  Strategies = {"merge", "replace", "skip"}
  Configs <- LocalOrSwift
  None = None
  Faults = {"step", "input", "commit", "log", "crash"}
  MaxFaults = 2
SYMMETRY BrowsesAlike
SPECIFICATION Spec
INVARIANTS BoundedDamage InputKept NoStrayFiles
PROPERTIES FailedUndone SkipKeepsNewer ImplementsService
