CONSTANTS
  Queue = {"a", "b"}
  Extra = {"b"}
  Report = {"a1", "a2", "a3", "a4"}
  QueueOf <- MCQueueOf
  JobOf <- MCJobOf
  Second = "a1"
  Invalid = "invalid"
  Buffer = "buffer"
  Worker = {w1, w2, w3}
  Cap = 2
  None = None
  Again = {}
  Faults = {}
  MaxFaults = 0
SPECIFICATION Spec
SYMMETRY WorkersAlike
INVARIANTS MaximumPerQueue
CHECK_DEADLOCK FALSE
