------------------------ MODULE FocControllerProofs ------------------------
(***************************************************************************)
(* Theorems of FocController, for every debounce limit, calibration        *)
(* length, set of readings and set of configurations: the type invariant,  *)
(* the state invariants and the action properties the TLC runs check.      *)
(***************************************************************************)
EXTENDS FocController, TLAPS

-----------------------------------------------------------------------------
(* The inductive invariant. *)

\* The averages are filled in Calibrating only, and end it when they are full.
CalibratingIsFresh ==
  /\ state = "Calibrating" => ~calibrated
  /\ ~calibrated => samples < CalibrationSamples

\* The stall counter reaches its limit only in the frame that trips.
StallIsLatched == state # "Fault" => counts.stall < StallLimit

\* The last duty handed to the bridge passed every protection; Disable and a
\* later enable move the state, but none of what the frame judged.
OutputIsProtected ==
  output => /\ junction < Shutdown
            /\ counts.overCurrent < OverCurrentDebounce
            /\ counts.residual < ResidualDebounce
            /\ counts.sensor < SensorLimit

IInv ==
  /\ TypeOK
  /\ FaultIffLatched
  /\ UncalibratedIsOff
  /\ RunningIsSound
  /\ CalibratingIsFresh
  /\ StallIsLatched
  /\ OutputIsProtected

LEMMA InitInv == Init => IInv
<1>1. SUFFICES ASSUME Init PROVE IInv
  OBVIOUS
<1>2. TypeOK
  <2>1. counts \in Counters
    <3>1. /\ 0 \in 0..OverCurrentDebounce /\ 0 \in 0..ResidualDebounce
          /\ 0 \in 0..SensorLimit /\ 0 \in 0..StallLimit /\ 0 \in 0..SpeedDivider - 1
      BY ConstantsAssumption
    <3>2. QED
      BY <1>1, <3>1 DEF Init, Counters
  <2>2. samples \in 0..CalibrationSamples
    BY <1>1, ConstantsAssumption DEF Init
  <2>3. QED
    BY <1>1, <2>1, <2>2 DEF Init, TypeOK, States, CurrentClasses
<1>3. QED
  BY <1>1, <1>2, ConstantsAssumption
     DEF Init, IInv, FaultIffLatched, UncalibratedIsOff, RunningIsSound, Running, Modes,
         CalibratingIsFresh, StallIsLatched, OutputIsProtected

-----------------------------------------------------------------------------
(* Commands. *)

LEMMA ResetType ==
  ASSUME TypeOK, ResetLoops
  PROVE  /\ counts' \in Counters
         /\ counts'.stall = 0
         /\ counts'.overCurrent = counts.overCurrent
         /\ counts'.residual = counts.residual
         /\ counts'.sensor = counts.sensor
<1>1. 0 \in 0..StallLimit /\ 0 \in 0..SpeedDivider - 1
  BY ConstantsAssumption
<1>2. QED
  BY <1>1 DEF TypeOK, ResetLoops, Counters

LEMMA DisableInv ==
  ASSUME IInv, EnterIdle, previous' \in {previous, None}
  PROVE  IInv'
<1>1. TypeOK
  BY DEF IInv
<1>2. TypeOK'
  BY <1>1, ResetType DEF EnterIdle, TypeOK, States
<1>3. QED
  BY <1>1, <1>2, ResetType, ConstantsAssumption
     DEF EnterIdle, IInv, FaultIffLatched, UncalibratedIsOff, RunningIsSound, Running, Modes,
         CalibratingIsFresh, StallIsLatched, OutputIsProtected

LEMMA ClearFaultInv ==
  ASSUME IInv, ClearFault
  PROVE  IInv'
<1>1. TypeOK
  BY DEF IInv
<1>2. TypeOK'
  BY <1>1, ResetType, ConstantsAssumption DEF ClearFault, TypeOK, States
<1>3. QED
  BY <1>1, <1>2, ResetType, ConstantsAssumption
     DEF ClearFault, IInv, FaultIffLatched, UncalibratedIsOff, RunningIsSound, Running, Modes,
         CalibratingIsFresh, StallIsLatched, OutputIsProtected

LEMMA EnableInv ==
  ASSUME IInv, NEW mode \in Modes, Enable(mode)
  PROVE  IInv'
<1>1. TypeOK
  BY DEF IInv
<1>2. TypeOK'
  BY <1>1, ResetType DEF Enable, TypeOK, States
<1>3. state = "Idle" /\ calibrated
  BY DEF Enable, CanEnable, IInv, UncalibratedIsOff
<1>4. RunningIsSound'
  BY <1>3 DEF Enable, CanEnable, RunningIsSound, MinimumBus, MaximumBus
<1>5. QED
  BY <1>1, <1>2, <1>3, <1>4, ResetType, ConstantsAssumption
     DEF Enable, CanEnable, IInv, FaultIffLatched, UncalibratedIsOff, Modes,
         CalibratingIsFresh, StallIsLatched, OutputIsProtected

LEMMA ConfigureInv ==
  ASSUME IInv, NEW c \in [cells : CellCounts, tuning : Tunings], Configure(c)
  PROVE  IInv'
BY DEF Configure, IInv, TypeOK, FaultIffLatched, UncalibratedIsOff, RunningIsSound, Running,
       CalibratingIsFresh, StallIsLatched, OutputIsProtected

LEMMA ApplyProfileInv ==
  ASSUME IInv, NEW c \in [cells : CellCounts, tuning : Tunings], ApplyProfile(c),
         previous' \in {previous, None}
  PROVE  IInv'
<1>1. TypeOK /\ state = "Idle" /\ state' = "Idle"
  BY DEF IInv, ApplyProfile, StorageSafe
<1>2. TypeOK'
  BY <1>1, ResetType DEF ApplyProfile, TypeOK
<1>3. QED
  BY <1>1, <1>2, ResetType, ConstantsAssumption
     DEF ApplyProfile, IInv, FaultIffLatched, UncalibratedIsOff, RunningIsSound, Running, Modes,
         CalibratingIsFresh, StallIsLatched, OutputIsProtected

LEMMA CommandInv ==
  ASSUME IInv, Command
  PROVE  IInv'
<1>1. TypeOK
  BY DEF IInv
<1>2. CASE Disable \/ DisableAndResync \/ ClearFault \/ \E m \in Modes : Enable(m)
  BY <1>2, DisableInv, ClearFaultInv, EnableInv DEF Disable, DisableAndResync
<1>3. CASE \E n \in CellCounts : SetCellCount(n)
  <2>1. PICK n \in CellCounts : SetCellCount(n)
    BY <1>3
  <2>2. [config EXCEPT !.cells = n] \in [cells : CellCounts, tuning : Tunings]
    BY <1>1 DEF TypeOK
  <2>3. QED
    BY <2>1, <2>2, ConfigureInv DEF SetCellCount
<1>4. CASE \E t \in Tunings : SetTuning(t) \/ ApplyMotorParam(t)
  <2>1. PICK t \in Tunings : SetTuning(t) \/ ApplyMotorParam(t)
    BY <1>4
  <2>2. [config EXCEPT !.tuning = t] \in [cells : CellCounts, tuning : Tunings]
    BY <1>1 DEF TypeOK
  <2>3. QED
    BY <2>1, <2>2, ConfigureInv, ApplyProfileInv DEF SetTuning, ApplyMotorParam, ApplyLiveProfile
<1>5. CASE \E c \in [cells : CellCounts, tuning : Tunings] :
             ApplyLiveProfile(c) \/ ReloadProfile(c)
  BY <1>5, ApplyProfileInv DEF ApplyLiveProfile, ReloadProfile
<1>6. QED
  BY <1>2, <1>3, <1>4, <1>5 DEF Command

LEMMA ReportInv ==
  ASSUME IInv, AdcTimeout \/ Resynchronize
  PROVE  IInv'
<1>1. CASE AdcTimeout
  <2>1. TypeOK
    BY DEF IInv
  <2>2. TypeOK'
    BY <1>1, <2>1, ResetType DEF AdcTimeout, TypeOK, FaultFlags, States
  <2>3. QED
    BY <1>1, <2>1, <2>2, ResetType
       DEF AdcTimeout, IInv, FaultIffLatched, UncalibratedIsOff, RunningIsSound, Running, Modes,
           CalibratingIsFresh, StallIsLatched, OutputIsProtected
<1>2. CASE Resynchronize
  BY <1>2 DEF Resynchronize, IInv, TypeOK, FaultIffLatched, UncalibratedIsOff, RunningIsSound,
              Running, CalibratingIsFresh, StallIsLatched, OutputIsProtected
<1>3. QED
  BY <1>1, <1>2

-----------------------------------------------------------------------------
(* Frames. *)

LEMMA CappedType ==
  ASSUME NEW limit \in Nat \ {0}, NEW n \in 0..limit
  PROVE  Capped(n, limit) \in 0..limit
BY DEF Capped

LEMMA ThermalType ==
  ASSUME TypeOK, NEW k, NEW n \in Nat, NEW t \in UpdatedThermal(k, n)
  PROVE  t \in Nat
<1>1. junction \in Nat /\ Shutdown \in Nat \ {0}
  BY ConstantsAssumption DEF TypeOK
<1>2. ThermalTarget(k) \in Nat
  BY <1>1 DEF ThermalTarget
<1>3. Toward(junction, ThermalTarget(k)) \in Nat
  BY <1>1, <1>2 DEF Toward
<1>4. PICK u \in {junction, Toward(junction, ThermalTarget(k))} : t = IF u < n THEN n ELSE u
  BY DEF UpdatedThermal
<1>5. QED
  BY <1>1, <1>3, <1>4

\* What the counters of a frame do: each stays in its range, and the stall
\* and divider counters wait for the speed loop.
LEMMA CurrentCountsType ==
  ASSUME TypeOK, NEW f
  PROVE  /\ CurrentCounts(f) \in Counters
         /\ CurrentCounts(f).sensor = counts.sensor
         /\ CurrentCounts(f).stall = counts.stall
         /\ CurrentCounts(f).speed = counts.speed
<1>1. /\ counts.overCurrent \in 0..OverCurrentDebounce
      /\ counts.residual \in 0..ResidualDebounce
  BY DEF TypeOK, Counters
<1>2. /\ Capped(counts.overCurrent, OverCurrentDebounce) \in 0..OverCurrentDebounce
      /\ Capped(counts.residual, ResidualDebounce) \in 0..ResidualDebounce
      /\ 0 \in 0..OverCurrentDebounce /\ 0 \in 0..ResidualDebounce
  BY <1>1, CappedType, ConstantsAssumption
<1>3. QED
  BY <1>2 DEF CurrentCounts, TypeOK, Counters

LEMMA SensorCountsType ==
  ASSUME NEW c \in Counters, NEW lost \in BOOLEAN
  PROVE  /\ SensorCounts(c, lost) \in Counters
         /\ ~lost => SensorCounts(c, lost).sensor = 0
         /\ SensorCounts(c, lost).overCurrent = c.overCurrent
         /\ SensorCounts(c, lost).residual = c.residual
         /\ SensorCounts(c, lost).stall = c.stall
         /\ SensorCounts(c, lost).speed = c.speed
<1>1. Capped(c.sensor, SensorLimit) \in 0..SensorLimit /\ 0 \in 0..SensorLimit
  BY CappedType, ConstantsAssumption DEF Counters
<1>2. QED
  BY <1>1 DEF SensorCounts, Counters

LEMMA SpeedCountsType ==
  ASSUME NEW c \in Counters, NEW stalled \in BOOLEAN, c.speed = counts.speed
  PROVE  /\ SpeedCounts(c, stalled) \in Counters
         /\ SpeedCounts(c, stalled).overCurrent = c.overCurrent
         /\ SpeedCounts(c, stalled).residual = c.residual
         /\ SpeedCounts(c, stalled).sensor = c.sensor
         /\ ~SpeedTick => SpeedCounts(c, stalled).stall = c.stall
<1>1. /\ Capped(c.stall, StallLimit) \in 0..StallLimit
      /\ 0 \in 0..StallLimit /\ 0 \in 0..SpeedDivider - 1
  BY CappedType, ConstantsAssumption DEF Counters
<1>2. CASE SpeedTick
  BY <1>1, <1>2 DEF SpeedCounts, Counters
<1>3. CASE ~SpeedTick
  <2>1. (IF state = "Velocity" THEN c.speed + 1 ELSE c.speed) \in 0..SpeedDivider - 1
    BY <1>3, ConstantsAssumption DEF SpeedTick, Counters
  <2>2. QED
    BY <1>3, <2>1 DEF SpeedCounts, Counters
<1>4. QED
  BY <1>2, <1>3

LEMMA NewFrameType ==
  ASSUME TypeOK, NEW f \in NewFrames
  PROVE  /\ f.bus \in Voltages /\ f.bus \in Nat
         /\ f.ntc \in Nat
         /\ f.sequence \in 0..SequenceMod - 1
         /\ f.current \in CurrentClasses
BY ConstantsAssumption DEF NewFrames, Frames

LEMMA TripsAreFlags ==
  /\ \A f : SequenceTrips(f) \subseteq FaultFlags
  /\ \A c : CurrentTrips(c) \subseteq FaultFlags
  /\ \A f : BusTrips(f) \subseteq FaultFlags
  /\ \A c : StallTrips(c) \subseteq FaultFlags
BY DEF SequenceTrips, CurrentTrips, BusTrips, StallTrips, Trip, FaultFlags

\* Everything a frame outside Calibrating decides, without its arithmetic: if
\* no protection trips, each of them has found its quantity in order.
LEMMA ProtectedStepMeaning ==
  ASSUME IInv, NEW f \in NewFrames, NEW valid \in BOOLEAN, NEW stalled \in BOOLEAN,
         NEW t \in Nat, ProtectedStep(f, valid, stalled, t)
  PROVE  \E trips \in SUBSET FaultFlags, c \in Counters :
           /\ OffStep(trips, c) \/ RunStep(trips, SpeedCounts(c, stalled))
           /\ c.stall = counts.stall /\ c.speed = counts.speed
           /\ SequenceTrips(f) \subseteq trips
           /\ trips = {} => /\ t < Shutdown
                            /\ c.overCurrent < OverCurrentDebounce
                            /\ c.residual < ResidualDebounce
           /\ trips = {} /\ Running =>
                /\ c.sensor < SensorLimit
                /\ f.bus \in MinimumBus(config.cells)..MaximumBus(config.cells)
<1> DEFINE current == CurrentCounts(f)
           early == SequenceTrips(f) \cup CurrentTrips(current)
           requested == Running /\ early = {}
           bus == IF requested THEN BusTrips(f) ELSE {}
           lost == ~valid /\ (state # "OpenLoop" \/ bus # {})
           c == IF requested THEN SensorCounts(current, lost) ELSE current
           sensor == Trip("SENSOR", requested /\ lost /\ c.sensor >= SensorLimit)
           trips == early \cup bus \cup sensor \cup Trip("OVER_TEMPERATURE", t >= Shutdown)
<1>1. TypeOK
  BY DEF IInv
<1>2. f.bus \in Nat /\ config.cells \in 2..6
  <2>1. f.bus \in Nat
    BY <1>1, NewFrameType
  <2>2. config.cells \in CellCounts
    BY <1>1 DEF TypeOK
  <2>3. QED
    BY <2>1, <2>2, ConstantsAssumption
<1>3. OffStep(trips, c) \/ RunStep(trips, SpeedCounts(c, stalled))
  BY DEF ProtectedStep
<1>4. /\ current \in Counters /\ current.stall = counts.stall /\ current.speed = counts.speed
  BY <1>1, CurrentCountsType
<1>5. lost \in BOOLEAN
  OBVIOUS
<1>6. /\ c \in Counters /\ c.stall = counts.stall /\ c.speed = counts.speed
      /\ c.overCurrent = current.overCurrent /\ c.residual = current.residual
  <2> HIDE DEF current, lost
  <2>1. QED
    BY <1>4, <1>5, SensorCountsType
<1>7. trips \in SUBSET FaultFlags
  <2> HIDE DEF current, c, lost
  <2>1. Trip("SENSOR", requested /\ lost /\ c.sensor >= SensorLimit) \subseteq FaultFlags
    BY DEF Trip, FaultFlags
  <2>2. Trip("OVER_TEMPERATURE", t >= Shutdown) \subseteq FaultFlags
    BY DEF Trip, FaultFlags
  <2>3. QED
    BY <2>1, <2>2, TripsAreFlags
<1>8. SequenceTrips(f) \subseteq trips
  OBVIOUS
<1>9. ASSUME trips = {}
      PROVE  /\ t < Shutdown
             /\ c.overCurrent < OverCurrentDebounce /\ c.residual < ResidualDebounce
  <2>1. Trip("OVER_TEMPERATURE", t >= Shutdown) = {} /\ CurrentTrips(current) = {}
    BY <1>9
  <2> HIDE DEF current, c, trips
  <2>2. ~(t >= Shutdown)
    BY <2>1 DEF Trip
  <2>3. ~(current.overCurrent >= OverCurrentDebounce) /\ ~(current.residual >= ResidualDebounce)
    BY <2>1 DEF CurrentTrips, Trip
  <2>4. QED
    BY <1>4, <1>6, <2>2, <2>3, ConstantsAssumption DEF Counters
<1>10. ASSUME trips = {}, Running
      PROVE  /\ c.sensor < SensorLimit
             /\ f.bus \in MinimumBus(config.cells)..MaximumBus(config.cells)
  <2>1. early = {} /\ requested /\ bus = {} /\ BusTrips(f) = {} /\ sensor = {}
    BY <1>10
  <2>2. c = SensorCounts(current, lost) /\ ~(lost /\ c.sensor >= SensorLimit)
    BY <2>1 DEF Trip
  <2>3. c.sensor < SensorLimit
    <3> HIDE DEF current, lost, c
    <3>1. CASE lost
      <4>1. c.sensor \in 0..SensorLimit /\ SensorLimit \in Nat
        BY <1>6, ConstantsAssumption DEF Counters
      <4>2. ~(c.sensor >= SensorLimit)
        BY <2>2, <3>1
      <4>3. QED
        BY <4>1, <4>2
    <3>2. CASE ~lost
      <4>1. c.sensor = 0
        BY <1>4, <1>5, <2>2, <3>2, SensorCountsType
      <4>2. QED
        BY <4>1, ConstantsAssumption
    <3>3. QED
      BY <3>1, <3>2
  <2>4. ~(f.bus < MinimumBus(config.cells)) /\ ~(f.bus > MaximumBus(config.cells))
    BY <2>1 DEF BusTrips, Trip
  <2>5. QED
    BY <1>2, <2>3, <2>4 DEF MinimumBus, MaximumBus, CellUnderVoltage, CellOverVoltage
<1>11. QED
  <2> HIDE DEF c, trips
  <2>1. QED
    BY <1>3, <1>6, <1>7, <1>8, <1>9, <1>10

LEMMA ProtectedInv ==
  ASSUME IInv, NEW f \in NewFrames, NEW valid \in BOOLEAN, NEW stalled \in BOOLEAN,
         NEW t \in Nat, ProtectedStep(f, valid, stalled, t),
         state # "Calibrating" \/ SequenceTrips(f) # {},
         previous' = f.sequence, UNCHANGED config
  PROVE  IInv'
<1>1. TypeOK /\ FaultIffLatched /\ UncalibratedIsOff /\ CalibratingIsFresh /\ StallIsLatched
  BY DEF IInv
<1>2. PICK trips \in SUBSET FaultFlags, c \in Counters :
           /\ OffStep(trips, c) \/ RunStep(trips, SpeedCounts(c, stalled))
           /\ c.stall = counts.stall /\ c.speed = counts.speed
           /\ SequenceTrips(f) \subseteq trips
           /\ trips = {} => /\ t < Shutdown
                            /\ c.overCurrent < OverCurrentDebounce
                            /\ c.residual < ResidualDebounce
           /\ trips = {} /\ Running =>
                /\ c.sensor < SensorLimit
                /\ f.bus \in MinimumBus(config.cells)..MaximumBus(config.cells)
  BY ProtectedStepMeaning
<1>3. /\ junction' = t /\ UNCHANGED <<calibrated, samples>>
      /\ last' = [current |-> MeasuredCurrent(f), bus |-> f.bus, sensor |-> valid]
  BY DEF ProtectedStep
<1>4. /\ junction' \in Nat /\ UNCHANGED <<calibrated, samples, config>>
      /\ previous' \in {None} \cup 0..SequenceMod - 1
      /\ last' \in [current : CurrentClasses, bus : Voltages \cup {0}, sensor : BOOLEAN]
      /\ last'.bus = f.bus
  <2>1. MeasuredCurrent(f) \in CurrentClasses
    BY <1>1, NewFrameType DEF MeasuredCurrent, CurrentClasses
  <2>2. QED
    BY <1>1, <1>3, <2>1, NewFrameType
<1>5. state = "Calibrating" => trips # {}
  BY <1>2
<1>6. CASE OffStep(trips, c)
  <2>1. /\ faults' \subseteq FaultFlags /\ counts' = c /\ output' = FALSE
        /\ state' \in {state, "Fault"} /\ state' \notin Modes /\ state' # "Calibrating"
        /\ state' # "Fault" => state' = state /\ faults' = faults
        /\ state' = "Fault" => faults' # {}
    BY <1>1, <1>5, <1>6 DEF OffStep, TypeOK, FaultIffLatched, Running, Modes
  <2>2. TypeOK'
    BY <1>1, <1>4, <2>1 DEF TypeOK, States
  <2>3. FaultIffLatched' /\ UncalibratedIsOff' /\ CalibratingIsFresh'
    BY <1>1, <1>4, <2>1 DEF FaultIffLatched, UncalibratedIsOff, CalibratingIsFresh
  <2>4. RunningIsSound' /\ OutputIsProtected'
    BY <2>1 DEF RunningIsSound, Running, OutputIsProtected
  <2>5. StallIsLatched'
    BY <1>1, <1>2, <2>1 DEF StallIsLatched
  <2>6. QED
    BY <2>2, <2>3, <2>4, <2>5 DEF IInv
<1>7. CASE RunStep(trips, SpeedCounts(c, stalled))
  <2> DEFINE d == SpeedCounts(c, stalled)
  <2>1. /\ d \in Counters
        /\ d.overCurrent = c.overCurrent /\ d.residual = c.residual /\ d.sensor = c.sensor
        /\ ~SpeedTick => d.stall = counts.stall
    BY <1>2, SpeedCountsType
  <2>2. RunStep(trips, d)
    BY <1>7
  <2> HIDE DEF d
  <2>3. /\ trips = {} /\ Running /\ counts' = d
        /\ faults' = StallTrips(d)
        /\ state' = IF faults' # {} THEN "Fault" ELSE state
        /\ output' = (faults' = {})
    BY <2>2 DEF RunStep
  <2>4. calibrated
    BY <1>1, <2>3 DEF UncalibratedIsOff, Running, Modes
  <2>5. TypeOK'
    BY <1>1, <1>4, <2>1, <2>3, TripsAreFlags DEF TypeOK, States
  <2>6. FaultIffLatched' /\ UncalibratedIsOff' /\ CalibratingIsFresh'
    BY <1>4, <2>3, <2>4 DEF FaultIffLatched, UncalibratedIsOff, CalibratingIsFresh, Running, Modes
  <2>7. RunningIsSound'
    BY <1>2, <1>4, <2>3, <2>4 DEF RunningIsSound, MinimumBus, MaximumBus
  <2>8. OutputIsProtected'
    BY <1>2, <1>3, <2>1, <2>3 DEF OutputIsProtected
  <2>9. StallIsLatched'
    <3>1. SUFFICES ASSUME state' # "Fault" PROVE d.stall < StallLimit
      BY <2>3 DEF StallIsLatched
    <3>2. StallTrips(d) = {}
      BY <2>3, <3>1
    <3>3. CASE SpeedTick
      <4>1. ~(d.stall >= StallLimit)
        BY <3>2, <3>3 DEF StallTrips, Trip
      <4>2. QED
        BY <2>1, <4>1, ConstantsAssumption DEF Counters
    <3>4. CASE ~SpeedTick
      BY <1>1, <2>1, <2>3, <3>4 DEF StallIsLatched, Running, Modes
    <3>5. QED
      BY <3>3, <3>4
  <2>10. QED
    BY <2>5, <2>6, <2>7, <2>8, <2>9 DEF IInv
<1>8. QED
  BY <1>2, <1>6, <1>7

LEMMA CalibrationInv ==
  ASSUME IInv, NEW f \in NewFrames, NEW valid \in BOOLEAN, NEW t \in Nat,
         state = "Calibrating", CalibrationStep(f, valid, t),
         previous' = f.sequence, UNCHANGED config
  PROVE  IInv'
<1>1. TypeOK /\ ~calibrated /\ samples < CalibrationSamples /\ faults = {}
  BY DEF IInv, CalibratingIsFresh, FaultIffLatched
<1>2. /\ samples' = samples + 1 /\ calibrated' = (samples' >= CalibrationSamples)
      /\ state' = IF calibrated' THEN "Idle" ELSE state
      /\ UNCHANGED <<faults, counts>> /\ output' = FALSE /\ junction' = t
      /\ last' = [current |-> "low", bus |-> f.bus, sensor |-> valid]
  BY DEF CalibrationStep
<1>3. samples' \in 0..CalibrationSamples /\ (~calibrated' => samples' < CalibrationSamples)
  <2>1. samples \in Nat /\ CalibrationSamples \in Nat /\ samples' = samples + 1
    BY <1>1, <1>2, ConstantsAssumption DEF TypeOK
  <2>2. ~calibrated' => ~(samples' >= CalibrationSamples)
    BY <1>2
  <2>3. QED
    BY <1>1, <2>1, <2>2
<1>4. TypeOK'
  <2>1. calibrated' \in BOOLEAN
    BY <1>2
  <2>2. state' \in States
    BY <1>1, <1>2 DEF TypeOK, States
  <2>3. last' \in [current : CurrentClasses, bus : Voltages \cup {0}, sensor : BOOLEAN]
    BY <1>1, <1>2, NewFrameType DEF CurrentClasses
  <2>4. previous' \in {None} \cup 0..SequenceMod - 1
    BY <1>1, NewFrameType
  <2>5. QED
    BY <1>1, <1>2, <1>3, <2>1, <2>2, <2>3, <2>4 DEF TypeOK
<1>5. QED
  BY <1>1, <1>2, <1>3, <1>4
     DEF IInv, FaultIffLatched, UncalibratedIsOff, RunningIsSound, Running, Modes,
         CalibratingIsFresh, StallIsLatched, OutputIsProtected

LEMMA FrameInv ==
  ASSUME IInv, Frame
  PROVE  IInv'
<1>1. TypeOK
  BY DEF IInv
<1>2. PICK f \in NewFrames, valid \in BOOLEAN, stalled \in BOOLEAN : Step(f, valid, stalled)
  BY DEF Frame, Stalls
<1>3. previous' = f.sequence /\ UNCHANGED config
  BY <1>2 DEF Step
<1>4. CASE \E t \in UpdatedThermal("low", f.ntc) :
             state = "Calibrating" /\ CalibrationStep(f, valid, t)
  BY <1>1, <1>3, <1>4, NewFrameType, ThermalType, CalibrationInv
<1>5. CASE /\ state # "Calibrating" \/ SequenceTrips(f) # {}
           /\ \E t \in UpdatedThermal(MeasuredCurrent(f), f.ntc) :
                ProtectedStep(f, valid, stalled, t)
  BY <1>1, <1>3, <1>5, NewFrameType, ThermalType, ProtectedInv
<1>6. QED
  BY <1>2, <1>4, <1>5 DEF Step

LEMMA NextInv == IInv /\ [Next]_vars => IInv'
<1>1. SUFFICES ASSUME IInv, [Next]_vars PROVE IInv'
  OBVIOUS
<1>2. CASE UNCHANGED vars
  BY <1>1, <1>2 DEF vars, IInv, TypeOK, FaultIffLatched, UncalibratedIsOff, RunningIsSound,
                    Running, CalibratingIsFresh, StallIsLatched, OutputIsProtected
<1>3. QED
  BY <1>1, <1>2, CommandInv, ReportInv, FrameInv DEF Next

THEOREM Inductive == Spec => []IInv
BY InitInv, NextInv, PTL DEF Spec

-----------------------------------------------------------------------------
(* What the controller keeps. *)

\* Every variable of the controller has its type, the debounce counters and
\* the calibration count within their limits.
THEOREM TypeCorrect == Spec => []TypeOK
<1>1. IInv => TypeOK
  BY DEF IInv
<1>2. QED
  BY <1>1, Inductive, PTL

\* trip, report_control_overrun and clear_fault keep the state, the flags and
\* the calibration in step, whatever the order of frames, commands and reports.
THEOREM StateAgreesHolds == Spec => []StateAgrees
<1>1. IInv => StateAgrees
  BY DEF IInv, StateAgrees
<1>2. QED
  BY <1>1, Inductive, PTL

\* A running motor was calibrated, and its bus is inside the limits of the cell
\* count in force.
THEOREM RunningIsSoundHolds == Spec => []RunningIsSound
<1>1. IInv => RunningIsSound
  BY DEF IInv
<1>2. QED
  BY <1>1, Inductive, PTL

\* The duty in force passed every protection of its frame.
THEOREM BridgeIsProtectedHolds == Spec => []BridgeIsProtected
<1>1. IInv => BridgeIsProtected
  BY DEF IInv, OutputIsProtected, StallIsLatched, BridgeIsProtected, Running, Modes
<1>2. QED
  BY <1>1, Inductive, PTL

-----------------------------------------------------------------------------
(* What a step never does. *)

\* While a mode runs no command changes the configuration under it.
LEMMA ConfigIsStable ==
  ASSUME Next, Running PROVE config' = config
<1>1. CASE Command
  BY <1>1 DEF Command, Disable, DisableAndResync, EnterIdle, ClearFault, Enable,
     SetCellCount, SetTuning, Configure,
     ApplyLiveProfile, ReloadProfile, ApplyMotorParam,
     ApplyProfile, StorageSafe, Running, Modes
<1>2. CASE AdcTimeout \/ Resynchronize \/ Frame
  BY <1>2 DEF AdcTimeout, Resynchronize, Frame, Step
<1>3. QED
  BY <1>1, <1>2 DEF Next

\* A mode is left for Idle or for Fault only.
LEMMA ModeIsKept ==
  ASSUME Next, Running, state' \in Modes PROVE state' = state
<1>1. CASE Command
  BY <1>1 DEF Command, Disable, DisableAndResync, EnterIdle, ClearFault, Enable,
     CanEnable, SetCellCount, SetTuning,
     Configure, ApplyLiveProfile, ReloadProfile, ApplyMotorParam,
     ApplyProfile, Running, Modes
<1>2. CASE AdcTimeout \/ Resynchronize
  BY <1>2 DEF AdcTimeout, Resynchronize, Modes
<1>3. CASE Frame
  <2>1. PICK f \in NewFrames, valid \in BOOLEAN, stalled \in Stalls : Step(f, valid, stalled)
    BY <1>3 DEF Frame
  <2>2. CASE \E t : CalibrationStep(f, valid, t)
    BY <2>2 DEF CalibrationStep, Modes
  <2>3. CASE \E t : ProtectedStep(f, valid, stalled, t)
    BY <2>3 DEF ProtectedStep, OffStep, RunStep, Modes
  <2>4. QED
    BY <2>1, <2>2, <2>3 DEF Step
<1>4. QED
  BY <1>1, <1>2, <1>3 DEF Next

\* Whatever comes, a running loop keeps its mode and its configuration until it
\* ends.
THEOREM RunningIsUndisturbedHolds == Spec => RunningIsUndisturbed
<1> DEFINE Undisturbed == config' = config /\ (state' \in Modes => state' = state)
<1>1. [Next]_vars => [Running => Undisturbed]_vars
  BY ConfigIsStable, ModeIsKept
<1>2. QED
  BY <1>1, PTL DEF Spec, RunningIsUndisturbed

\* Flags accumulate until one ClearFault drops them all, at a safe time.
THEOREM FaultsAreLatched == Spec => FaultsLatched
<1> DEFINE Latches == \/ faults \subseteq faults'
                      \/ /\ faults' = {} /\ state' \in {"Idle", "Calibrating"}
                         /\ junction < Shutdown
                         /\ calibrated => last.current = "low"
<1>1. IInv /\ [Next]_vars => [Latches]_vars
  <2>1. SUFFICES ASSUME IInv, Next PROVE Latches
    BY DEF vars
  <2>2. CASE Command
    BY <2>2 DEF Command, Disable, DisableAndResync, EnterIdle, ClearFault, SafeToClear,
       Enable, SetCellCount, SetTuning,
       Configure, ApplyLiveProfile, ReloadProfile, ApplyMotorParam,
       ApplyProfile
  <2>3. CASE AdcTimeout \/ Resynchronize
    BY <2>3 DEF AdcTimeout, Resynchronize
  <2>4. CASE Frame
    <3>1. PICK f \in NewFrames, valid \in BOOLEAN, stalled \in Stalls : Step(f, valid, stalled)
      BY <2>4 DEF Frame
    <3>2. CASE \E t : CalibrationStep(f, valid, t)
      BY <3>2 DEF CalibrationStep
    <3>3. CASE \E t : ProtectedStep(f, valid, stalled, t)
      <4>1. \E trips, c : OffStep(trips, c) \/ RunStep(trips, c)
        BY <3>3 DEF ProtectedStep
      <4>2. Running => faults = {}
        BY <2>1 DEF IInv, FaultIffLatched, Running, Modes
      <4>3. QED
        BY <4>1, <4>2 DEF OffStep, RunStep
    <3>4. QED
      BY <3>1, <3>2, <3>3 DEF Step
  <2>5. QED
    BY <2>1, <2>2, <2>3, <2>4 DEF Next
<1>2. QED
  BY <1>1, Inductive, PTL DEF Spec, FaultsLatched
=============================================================================
