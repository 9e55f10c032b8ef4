SPECIFICATION TaskSpec
CONSTANTS
  CalibrationSamples = 1
  OverCurrentDebounce = 1
  ResidualDebounce = 1
  SensorLimit = 1
  StallLimit = 1
  SpeedDivider = 1
  CellCounts = {2}
  Readings <- SomeReadings
  Voltages = {30}
  Temperatures = {0}
  Shutdown = 1
  SequenceMod = 2
  Tunings = {1, 2}
  StateTimeout = 3
  MaxRetries = 1
  TickDivider = 2
  MissedFrames = {0, 1}
INVARIANTS
  TaskTypeOK
  QueueHasRoom
  FaultedBridgeIsOff
  TuneModeEnds
  SavedTuneIsStorable
PROPERTIES
  UndisturbedRecordsMatch
