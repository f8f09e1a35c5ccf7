CONSTANTS
  Queue = {"a", "b"}
  Extra = {"b"}
  Report = {"a1", "a2", "a3", "b1"}
  QueueOf <- MCQueueOf
  JobOf <- MCJobOf
  Second = "a1"
  Invalid = "invalid"
  Buffer = "buffer"
  Worker = {w1, w2, w3}
  Cap = 2
  None = None
  Again = {}
  Faults = {"crash", "stop", "kill", "lost_move", "lost_save", "rival"}
  MaxFaults = 1
SPECIFICATION Spec
SYMMETRY WorkersAlike
INVARIANTS NothingLost SlotsConserved NoDoubleDispatch CapRespected
CHECK_DEADLOCK FALSE
