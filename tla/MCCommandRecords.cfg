CONSTANTS
  Starts = {s1}
  Attaches = {a1}
  Doctors = {}
  None = None
SPECIFICATION FairSpec
INVARIANT LastUseCounts
INVARIANT TraceTellsFailure
INVARIANT FailureReachesDisk
INVARIANT StartingIsOwned
PROPERTY ImplementsLifecycle
PROPERTY CommandsEnd
PROPERTY StartingSettles
CHECK_DEADLOCK FALSE
