\* Two unreliable processes with one worker_id, two jobs, allowances 1 and 2.
SPECIFICATION FairSpec
CONSTANTS
  w1 = w1  w2 = w2
  j1 = j1  j2 = j2
  hostA = hostA  hostB = hostB
  Jobs = {j1, j2}
  Workers = {w1, w2}
  Labels = {hostA, hostB}
  Label <- OneLabel
  Allowance <- Mixed
  DefaultAllowance = 3
  LeaseTicks = 2
  Reliable = {}
  ReleaseBound = 1
  NoJob = NoJob
  NoLabel = NoLabel
INVARIANTS Consistent OneOwner
PROPERTIES TerminalIsFinal LedgerWriteOnce LiveLeaseProtected ImplementsFencedJob EveryJobSettles
