\* One process stays up, the other crashes at will; one commit goes unheard.
SPECIFICATION PipelineFairSpec
CONSTANTS
  w1 = w1  w2 = w2
  n1 = n1  x1 = x1  v1 = v1
  hostA = hostA  hostB = hostB
  Jobs = {n1, x1}
  Workers = {w1, w2}
  Labels = {hostA, hostB}
  Label <- TwoLabels
  Allowance <- Two
  DefaultAllowance = 3
  LeaseTicks = 1
  Reliable = {w1}
  ReleaseBound = 0
  NoJob = NoJob
  NoLabel = NoLabel
  Versions = {v1}
  NormalizeJob <- Normalizations
  ExtractJob <- Extractions
  AckLossBound = 1
INVARIANTS OneStands FewDrafts
PROPERTY EveryVersionEnds
