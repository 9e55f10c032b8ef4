SPECIFICATION FairTask
CONSTANTS
  CalibrationSamples = 2
  OverCurrentDebounce = 1
  ResidualDebounce = 1
  SensorLimit = 1
  StallLimit = 1
  SpeedDivider = 1
  CellCounts = {2}
  Readings <- QuietReadings
  Voltages = {30}
  Temperatures = {0}
  Shutdown = 1
  SequenceMod = 2
  Tunings = {1, 2}
  StateTimeout = 3
  MaxRetries = 1
  TickDivider = 1
  MissedFrames = {0, 1}
PROPERTIES
  TuneEnds
  CalibrationEnds
