CONSTANTS
  Proc = {p1, p2, p3}
  Patient = {p2, p3}
  Mortal = {p1, p2}
  MaxTries = 2
  None = None
SPECIFICATION FairSpec
INVARIANTS TypeOK ExclusiveWhenClean NoAbandonedFile
PROPERTIES StaleFileGoes AcquireEnds
CHECK_DEADLOCK FALSE
