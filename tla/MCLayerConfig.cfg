CONSTANTS
  p = p
  q = q
  x = x
  y = y
  Proc = {p, q}
  Layer = {x, y}
  Version = {1, 2}
  RequestsOf <- OppositeOrders
  None = None
  Unchanged = Unchanged
  Broken = Broken
  Faults = {"step", "commit", "harvest"}
  MaxFaults = 2
  MaxRequests = 3
SPECIFICATION Spec
INVARIANTS XmlAsAccepted ServedAsConfigured DatabasesAgree
