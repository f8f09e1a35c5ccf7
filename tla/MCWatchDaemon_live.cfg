CONSTANTS
  Queue = {"a", "b"}
  Extra = {"b"}
  Report = {"a1", "b1", "bad"}
  QueueOf <- MCQueueOf
  JobOf <- MCJobOf
  Second = "b1"
  Invalid = "invalid"
  Buffer = "buffer"
  Worker = {w1}
  Cap = 1
  None = None
  Again = {"a1"}
  Faults = {"crash", "stop", "lost_move", "rival"}
  MaxFaults = 2
SPECIFICATION FairSpec
PROPERTIES  FinishStops
