CONSTANTS
  Starts = {s1}
  Attaches = {a1}
  Agents = {codex}
  None = None
  Base = 2
  Digits = 1
SPECIFICATION Spec
PROPERTY LeavingKeepsSession
CHECK_DEADLOCK FALSE
