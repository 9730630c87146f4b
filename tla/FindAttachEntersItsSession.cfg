CONSTANTS
  Starts = {s1, s2}
  Attaches = {a1}
  Agents = {codex}
  None = None
  Base = 2
  Digits = 1
SPECIFICATION Spec
PROPERTY AttachEntersItsSession
CHECK_DEADLOCK FALSE
