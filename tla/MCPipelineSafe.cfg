\* One version, two processes that share a worker_id, crash and are shut down.
SPECIFICATION PipelineSpec
CONSTANTS
  w1 = w1  w2 = w2
  n1 = n1  x1 = x1  v1 = v1
  hostA = hostA  hostB = hostB
  Jobs = {n1, x1}
  Workers = {w1, w2}
  Labels = {hostA, hostB}
  Label <- OneLabel
  Allowance <- Two
  DefaultAllowance = 3
  LeaseTicks = 1
  Reliable = {}
  ReleaseBound = 1
  NoJob = NoJob
  NoLabel = NoLabel
  Versions = {v1}
  NormalizeJob <- Normalizations
  ExtractJob <- Extractions
  AckLossBound = 0
INVARIANTS ExtractionFollowsParts CitationsResolve OneDraft SucceededHasDraft
PROPERTY SettledStands
