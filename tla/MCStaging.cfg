\* One upload, two requests on it, one crash, two OSErrors.
SPECIFICATION FairSpec
CONSTANTS
  s1 = s1
  r1 = r1  r2 = r2
  Stages = {s1}
  Requests = {r1, r2}
  None = None
  Ttl = 2
  Period = 1
  CrashBound = 1
  FailureBound = 2
INVARIANTS OfferedHasFiles AcknowledgedIsFinal
PROPERTIES LiveUploadKept ExportsEnd
CHECK_DEADLOCK FALSE
