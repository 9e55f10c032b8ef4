SPECIFICATION Spec
CONSTANTS
  None = None
  Heartbeat = 1
  Timeout = 2
  Silence = 2
  Closing = 5
  LeaseTime = 3
  RequestDelay = 1
  AnswerDelay = 2
  Slots = 1
  MaxClaims = 2
  Ids = {i1, i2, i3, i4}
  i1 = i1
  i2 = i2
  i3 = i3
  i4 = i4
SYMMETRY Numbers
INVARIANTS
  TypeOK
  RunningIsControlled
  SilenceStopsTheMotor
PROPERTIES
  StopsCancelCalls
  ConfirmationsAreTrue
