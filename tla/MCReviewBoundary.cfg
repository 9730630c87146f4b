CONSTANTS
  Pullers = {p1, p2}
  MaxCommit = 2
  MaxReset = 1
SPECIFICATION Spec
SYMMETRY Symmetry
INVARIANT TypeOK
INVARIANT OnlyReviewedWork
PROPERTY ImplementsGate
PROPERTY UserWorkKept
PROPERTY FetchedWorkKept
PROPERTY PullDelivers
VIEW View
