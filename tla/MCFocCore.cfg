SPECIFICATION HistorySpec
CONSTANTS
  CalibrationSamples = 2
  OverCurrentDebounce = 2
  ResidualDebounce = 2
  SensorLimit = 2
  StallLimit = 2
  SpeedDivider = 2
  CellCounts = {2}
  Readings <- SomeReadings
  Voltages = {30}
  Temperatures = {0}
  Shutdown = 2
  SequenceMod = 2
  Tunings = {"boot"}
INVARIANTS
  TypeOK
  StateAgrees
  BridgeIsProtected
  DetectionIsComplete
PROPERTIES
  FaultsLatched
  CalibrationIsContiguous
  TripsAreReal
