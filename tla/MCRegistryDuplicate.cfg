\* Two first registrations of the same bytes.
SPECIFICATION Spec
CONSTANTS
  Requests = {r1, r2}
  bytes = bytes  talk1 = talk1  talk2 = talk2
  note = note  copy = copy  chat1 = chat1  chat2 = chat2
  Artifacts <- MCArtifacts
  Sources <- MCSources
  Commands <- MCCommands
INVARIANT NoUniquenessError
CHECK_DEADLOCK FALSE
