SPECIFICATION Spec
CONSTANTS
  s1 = s1
  s2 = s2
  Sessions = {s1, s2}
  None = None
  LeaseMs = 2
  PermitMs = 1
  RetiredSlots = 1
  SequenceMod = 4
  PermitMod = 8
  Commands = {"claim", "tune", "release", "disable"}
  LocalCommands = {"enable", "tune", "clear"}
  FirstSequence = 3
  MaxRequests = 2
  MaxClock = 2
  MaxBoots = 0
  SaveTimes = {0}
SYMMETRY SessionSymmetry
INVARIANTS
  RetirementHasRoom
  AtMostOnce
PROPERTIES
  ImplementsOwnership
CHECK_DEADLOCK FALSE
