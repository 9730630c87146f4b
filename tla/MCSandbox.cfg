CONSTANTS
  Starts = {s1, s2}
  Attaches = {t1}
  Agents = {claude, codex}
  None = None
SPECIFICATION FairSpec
INVARIANT TypeOK
INVARIANT ConfinedInside
INVARIANT PodSurvives
INVARIANT Coherent
PROPERTY ImplementsReplacement
PROPERTY StartEnds
CHECK_DEADLOCK FALSE
