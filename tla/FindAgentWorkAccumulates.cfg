CONSTANTS
  Pullers = {p1}
  MaxCommit = 3
  MaxReset = 0
SPECIFICATION Spec
PROPERTY AgentWorkAccumulates
