SPECIFICATION Spec
CONSTANTS
  s1 = s1
  Sessions = {s1}
  None = None
  LeaseMs = 2
  PermitMs = 2
  RetiredSlots = 2
  SequenceMod = 4
  PermitMod = 16
  Commands = {"claim", "heartbeat", "release", "save"}
  LocalCommands = {}
  FirstSequence = 3
  MaxRequests = 3
  MaxClock = 3
  MaxBoots = 1
  SaveTimes = {0, 2}

  
PROPERTIES
  NoBufferedReclaim
  FreshExecution
CHECK_DEADLOCK FALSE
