CONSTANTS
  Starts = {s1, s2}
  Attaches = {a1}
  Agents = {codex, claude}
  None = None
  Base = 2
  Digits = 1
SPECIFICATION Spec
SYMMETRY Symmetry
INVARIANT TypeOK
INVARIANT FailureIsRecorded
INVARIANT ArtefactTellsFailure
INVARIANT AttachedWasPrepared
PROPERTY ImplementsLifecycle
PROPERTY DefaultIsOfTheLastSecond
CHECK_DEADLOCK FALSE
