SPECIFICATION Spec
CONSTANTS
  CalibrationSamples = 1
  OverCurrentDebounce = 1
  ResidualDebounce = 1
  SensorLimit = 2
  StallLimit = 1
  SpeedDivider = 1
  CellCounts = {2, 3}
  Readings <- FewReadings
  Voltages = {20, 30, 40}
  Temperatures = {0}
  Shutdown = 2
  SequenceMod = 2
  Tunings = {"boot", "live"}
INVARIANTS
  RunningIsSound
PROPERTIES
  RunningIsUndisturbed
