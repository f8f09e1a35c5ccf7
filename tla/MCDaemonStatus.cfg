CONSTANTS
  Process = {p, q}
SPECIFICATION Spec
INVARIANTS OneDaemon
