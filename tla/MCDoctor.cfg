CONSTANTS
  Starts = {s1}
  Attaches = {a1}
  Doctors = {d1}
  None = None
SPECIFICATION Spec
INVARIANT TypeOK
INVARIANT OpenedFindsSchema
INVARIANT RefusedOnlyLate
INVARIANT LatestIsWhole
INVARIANT DoctorTellsTruth
INVARIANT NoCircularWait
CHECK_DEADLOCK FALSE
