\* Two attempts of any of two jobs, a model changed twice, one crash.
SPECIFICATION FairSpec
CONSTANTS
  s1 = s1  s2 = s2
  good = good  other = other
  Sources = {s1, s2}
  Samples <- MCSamples
  Texts <- MCTexts
  Limit = 2
  Digests = {good, other}
  Configured = good
  NoDigest = NoDigest
  AttemptBound = 2
  SwapBound = 2
  CrashBound = 1
INVARIANTS TextIsCovered HistoryFollowsWindows SucceededIsAnswered FailureNamesItsCause UnnoticedOnlyInARace
PROPERTIES EvidenceStands EveryAttemptEnds
CHECK_DEADLOCK FALSE
