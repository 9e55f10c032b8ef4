SPECIFICATION Spec
CONSTANTS
  slow = slow
  fast = fast
  wild = wild
  p7 = p7
  p8 = p8
  t1 = t1
  t2 = t2
  None = None
  Gains = {slow, fast, wild}
  SoundGains = {slow, fast}
  TunedGains = {fast}
  Limits = {1, 2}
  TuneLimit = 1
  Poles = {p7, p8}
  Default <- MCDefault
  GenerationMod = 2
  Transactions = {}
  LocalRequests <- LocalOnly
  CanRequests <- Nothing
INVARIANTS
  TypeOK
  StatusIsTrue
  CleanBootChangesNothing
