SPECIFICATION Spec
CONSTANTS
  slow = slow
  fast = fast
  p7 = p7
  p8 = p8
  t1 = t1
  t2 = t2
  None = None
  Gains = {slow, fast}
  SoundGains = {slow, fast}
  TunedGains = {fast}
  Limits = {1, 2}
  TuneLimit = 1
  Poles = {p7}
  Default <- MCDefault
  GenerationMod = 1
  Transactions = {t1, t2}
  LocalRequests <- InBetween
  CanRequests <- Retried
INVARIANTS
  TransactionsActOnce
