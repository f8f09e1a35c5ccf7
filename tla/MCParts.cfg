CONSTANTS
  MaxTime = 4
  MaxX = 0
  Item = {b1, b2, b3, b4}
  MaxRows = 4
  Layers <- AnyLayer
  East = 2
  Second = 16
  MaxNodes = 6
  Times = {0, 4, 8, 12, 16, 20, 24, 28, 32}
  File = {f, g}
  Retries = 3
  Lifetime = 2
  Skews = {0, 1}
  MaxClock = 4
  MaxCalls = 2
  MaxFaults = 3
  NoToken = NoToken
  Queue = {q1, q2}
  MaxHistory = 2
  MaxCount = 2
  MaxReads = 4
  Proc = {p1, p2}
  MaxRequests = 3
  NotRead = NotRead
  Changes <- SomeChanges
  Logger = {w1, w2}
  Counted = {c1, c2}
  MaxDays = 2
  MaxLines = 3
  NoLine = NoLine
  Handler = {h1, h2, h3}
  Controller = {s1, s2}
  None = None
  Absent = Absent
  Empty = Empty
  MaxKills = 1
SPECIFICATION PartsSpec
INVARIANTS
  GroupsAreConnected FullInterval BrowsePlaced
  RegisteredAsTold SwiftAnswersTruly EstimateSound SettingsKept LinesReported
PROPERTY LegalTransitions
