--------------------------- MODULE FocController ---------------------------
(***************************************************************************)
(* The motor controller of firmware/src/control/foc_core.rs: offset        *)
(* calibration, the Idle / Running / Fault state machine, the protections  *)
(* that run on every ADC frame and the commands that change the state.     *)
(*                                                                         *)
(* Electrical quantities are kept only as far as the guards compare them:  *)
(* a phase current is below 1 A ("low"), above it ("mid") or above the     *)
(* over-current threshold ("over"); bus voltages are integers in quarters  *)
(* of a volt; the junction temperature is a level.  The voltages the loops *)
(* compute, and the Iq, velocity and open-loop targets, are left out.      *)
(***************************************************************************)
EXTENDS Integers, FiniteSets

CONSTANTS
  CalibrationSamples,   \* frames averaged into the current offsets
  OverCurrentDebounce,  \* consecutive frames above the threshold that trip
  ResidualDebounce,     \* consecutive frames with a phase-sum residual
  SensorLimit,          \* consecutive invalid rotor samples (sensor_fault_time / dt)
  StallLimit,           \* consecutive stalled speed-loop ticks
  SpeedDivider,         \* frames per tick of the speed loop
  CellCounts,           \* battery cell counts a host may configure, within 2..6
  Readings,             \* <<class, residual>>: the phase currents a frame may carry
  Voltages,             \* bus voltages a frame may carry
  Temperatures,         \* levels 0..n the NTC and the thermal model take
  Shutdown,             \* the level at which the bridge must stop
  SequenceMod,          \* frame numbers wrap at this modulus (2^32 on the MCU)
  Tunings               \* the other settings of FocConfig: gains, zero, limits

None == -1    \* previous_sequence before the first frame
Modes == {"OpenLoop", "Current", "Velocity"}
States == {"Calibrating", "Idle", "Fault"} \cup Modes
FaultFlags == {"OVER_CURRENT", "CURRENT_RESIDUAL", "UNDER_VOLTAGE", "OVER_VOLTAGE",
               "OVER_TEMPERATURE", "STALL", "SENSOR", "CONTROL_OVERRUN"}
CurrentClasses == {"low", "mid", "over"}
\* A phase sum above 3 A needs a phase above 1 A.
PhaseReadings == (CurrentClasses \X BOOLEAN) \ {<<"low", TRUE>>}

ASSUME ConstantsAssumption ==
  /\ CalibrationSamples \in Nat \ {0} /\ OverCurrentDebounce \in Nat \ {0}
  /\ ResidualDebounce \in Nat \ {0}   /\ SensorLimit \in Nat \ {0}
  /\ StallLimit \in Nat \ {0}         /\ SpeedDivider \in Nat \ {0}
  /\ CellCounts \subseteq 2..6        /\ Voltages \subseteq Nat
  /\ SequenceMod \in Nat \ {0, 1}     /\ Shutdown \in Nat \ {0}
  /\ Temperatures \subseteq Nat       /\ 0 \in Temperatures
  /\ Readings \subseteq PhaseReadings /\ Readings # {}
  /\ CellCounts # {} /\ Voltages # {} /\ Tunings # {}

\* Cell limits in quarters of a volt: 3.0 V and 4.25 V.
CellUnderVoltage == 12
CellOverVoltage == 17
MinimumBus(c) == c * CellUnderVoltage
MaximumBus(c) == c * CellOverVoltage

VARIABLES
  state,      \* MotorState, a running mode standing for Running(mode)
  faults,     \* the latched FaultFlags
  calibrated, \* calibration_complete
  samples,    \* count of the OffsetCalibrator
  counts,     \* the debounce and divider counters
  previous,   \* previous_sequence: number of the frame stepped last, or None
  junction,   \* junction_temperature
  config,     \* the FocConfig in force
  last,       \* last_telemetry, as far as later guards read it
  output      \* bridge_enabled of the last ControlOutput

vars == <<state, faults, calibrated, samples, counts, previous, junction,
          config, last, output>>

Counters == [overCurrent : 0..OverCurrentDebounce, residual : 0..ResidualDebounce,
             sensor : 0..SensorLimit, stall : 0..StallLimit,
             speed : 0..SpeedDivider - 1]

Frames == [current : CurrentClasses, residual : BOOLEAN, bus : Voltages,
           ntc : Temperatures, overrun : BOOLEAN, sequence : 0..SequenceMod - 1]

TypeOK ==
  /\ state \in States
  /\ faults \subseteq FaultFlags
  /\ calibrated \in BOOLEAN
  /\ samples \in 0..CalibrationSamples
  /\ counts \in Counters
  /\ previous \in {None} \cup 0..SequenceMod - 1
  /\ junction \in Nat
  /\ config \in [cells : CellCounts, tuning : Tunings]
  /\ last \in [current : CurrentClasses, bus : Voltages \cup {0}, sensor : BOOLEAN]
  /\ output \in BOOLEAN

Running == state \in Modes

Init ==
  /\ state = "Calibrating"
  /\ faults = {}
  /\ calibrated = FALSE
  /\ samples = 0
  /\ counts = [overCurrent |-> 0, residual |-> 0, sensor |-> 0, stall |-> 0, speed |-> 0]
  /\ previous = None
  /\ junction = 0
  /\ config \in [cells : CellCounts, tuning : Tunings]
  /\ last = [current |-> "low", bus |-> 0, sensor |-> FALSE]
  /\ output = FALSE

-----------------------------------------------------------------------------
(* Guards shared by the commands. *)

\* Mutant of ResetLoops: every counter is forgotten.
ResetCounters == counts' = [c \in DOMAIN counts |-> 0]

\* reset_loops: the PID histories, the speed divider and the stall counter.
\* The over-current, residual and sensor counters keep their values.
ResetLoops == counts' = [counts EXCEPT !.speed = 0, !.stall = 0]

StorageSafe ==
  /\ state = "Idle"
  /\ calibrated
  /\ faults = {}
  /\ junction < Shutdown
  /\ last.bus <= MaximumBus(config.cells)
  /\ last.current = "low"

\* Mutant of SafeToClear: the last current is not looked at.
CoolEnoughToClear == junction < Shutdown /\ last.bus <= MaximumBus(config.cells)

SafeToClear ==
  /\ junction < Shutdown
  /\ last.bus <= MaximumBus(config.cells)
  /\ calibrated => last.current = "low"

\* Mutant of CanEnable: no lower limit of the bus.
CanEnableUnpowered(mode) ==
  /\ state = "Idle"
  /\ faults = {}
  /\ last.bus <= MaximumBus(config.cells)
  /\ mode \in {"Current", "Velocity"} => last.sensor

CanEnable(mode) ==
  /\ state = "Idle"
  /\ faults = {}
  /\ last.bus \in MinimumBus(config.cells)..MaximumBus(config.cells)
  /\ mode \in {"Current", "Velocity"} => last.sensor

-----------------------------------------------------------------------------
(* Commands. *)

\* Disable leaves Calibrating and Fault alone.
EnterIdle ==
  /\ state' = IF state \in {"Calibrating", "Fault"} THEN state ELSE "Idle"
  /\ ResetLoops
  /\ UNCHANGED <<faults, calibrated, samples, junction, config, last, output>>

Disable == EnterIdle /\ UNCHANGED previous

\* Disable and resynchronize_control_input, as the auto-tune requests them.
DisableAndResync == EnterIdle /\ previous' = None

\* Mutants of ClearFault: back to Idle without offsets, or to a calibration
\* that goes on where it was.
ClearFaultToIdle ==
  /\ state = "Fault"
  /\ SafeToClear
  /\ faults' = {}
  /\ state' = "Idle"
  /\ ResetLoops
  /\ UNCHANGED <<calibrated, samples, previous, junction, config, last, output>>
ClearFaultKeepingSamples ==
  /\ state = "Fault"
  /\ SafeToClear
  /\ faults' = {}
  /\ state' = IF calibrated THEN "Idle" ELSE "Calibrating"
  /\ ResetLoops
  /\ UNCHANGED <<calibrated, samples, previous, junction, config, last, output>>

\* ClearFault: back to Idle, or to a calibration started afresh.
ClearFault ==
  /\ state = "Fault"
  /\ SafeToClear
  /\ faults' = {}
  /\ state' = IF calibrated THEN "Idle" ELSE "Calibrating"
  /\ samples' = IF calibrated THEN samples ELSE 0
  /\ ResetLoops
  /\ UNCHANGED <<calibrated, previous, junction, config, last, output>>

Enable(mode) ==
  /\ CanEnable(mode)
  /\ state' = mode
  /\ ResetLoops
  /\ UNCHANGED <<faults, calibrated, samples, previous, junction, config, last, output>>

\* Mutant of Configure: accepted in every state.
ConfigureAnytime(c) ==
  /\ config' = c
  /\ UNCHANGED <<state, faults, calibrated, samples, counts, previous, junction,
                 last, output>>

\* SetCellCount, SetElectricalZero, SetCurrentPid and SetVelocityPid: refused
\* while the bridge is requested.
Configure(c) ==
  /\ ~Running
  /\ config' = c
  /\ UNCHANGED <<state, faults, calibrated, samples, counts, previous, junction,
                 last, output>>

SetCellCount(n) == Configure([config EXCEPT !.cells = n])
SetTuning(t) == Configure([config EXCEPT !.tuning = t])

\* apply_live_profile and apply_motor_param; ReloadProfile also
\* resynchronises, because sampling pauses while the flash is used.
ApplyProfile(c) ==
  /\ StorageSafe
  /\ config' = c
  /\ ResetLoops
  /\ UNCHANGED <<state, faults, calibrated, samples, junction, last, output>>

ApplyLiveProfile(c) == ApplyProfile(c) /\ UNCHANGED previous
ReloadProfile(c) == ApplyProfile(c) /\ previous' = None
ApplyMotorParam(t) == ApplyLiveProfile([config EXCEPT !.tuning = t])

\* The task saw no frame for 100 microseconds: ReportControlOverrun, then the
\* Disable of abort_tuning, which resets the loops of a state it leaves alone.
AdcTimeout ==
  /\ faults' = faults \cup {"CONTROL_OVERRUN"}
  /\ state' = "Fault"
  /\ ResetLoops
  /\ UNCHANGED <<calibrated, samples, previous, junction, config, last, output>>

\* resynchronize_control_input: the next frame starts a new sequence.
Resynchronize ==
  /\ previous' = None
  /\ UNCHANGED <<state, faults, calibrated, samples, counts, junction, config,
                 last, output>>

-----------------------------------------------------------------------------
(* One ADC frame f with rotor sample validity valid.  stalled tells whether *)
(* a speed-loop tick in this frame meets the stall condition; t is the      *)
(* junction temperature after the thermal update.                           *)

\* Mutant of Capped: the counters do not saturate.
Uncapped(n, limit) == n + 1

Capped(n, limit) == IF n < limit THEN n + 1 ELSE limit

\* The flag alone in a set, or nothing.
Trip(flag, condition) == IF condition THEN {flag} ELSE {}

SequenceTrips(f) ==
  Trip("CONTROL_OVERRUN",
       f.overrun \/ (previous # None /\ f.sequence # (previous + 1) % SequenceMod))

\* The phase currents the controller computes.  Before the offsets are known
\* they are zero, and the mid-scale reading of an idle phase counts as 66 A:
\* above the threshold, with a phase sum above the residual limit.
MeasuredCurrent(f) == IF calibrated THEN f.current ELSE "over"
MeasuredResidual(f) == calibrated => f.residual

\* update_thermal: a first-order lag towards the conduction loss, raised to
\* the NTC reading.  A level lasts many frames, so a frame may or may not
\* reach the next one.
ThermalTarget(current) ==
  CASE current = "low" -> 0 [] current = "mid" -> Shutdown - 1 [] OTHER -> Shutdown
Toward(t, target) == IF t < target THEN t + 1 ELSE IF t > target THEN t - 1 ELSE t
UpdatedThermal(current, ntc) ==
  {IF t < ntc THEN ntc ELSE t : t \in {junction, Toward(junction, ThermalTarget(current))}}

\* Mutant of CalibrationStep: it waits for one sample more than it counts.
CalibrationStepBeyond(f, valid, t) ==
  /\ samples' = Capped(samples, CalibrationSamples)
  /\ calibrated' = (samples' > CalibrationSamples)
  /\ state' = IF calibrated' THEN "Idle" ELSE state
  /\ junction' = t
  /\ last' = [current |-> "low", bus |-> f.bus, sensor |-> valid]
  /\ output' = FALSE
  /\ UNCHANGED <<faults, counts>>

\* A frame in Calibrating: no protection runs, the currents read as zero.
CalibrationStep(f, valid, t) ==
  /\ samples' = samples + 1
  /\ calibrated' = (samples' >= CalibrationSamples)
  /\ state' = IF calibrated' THEN "Idle" ELSE state
  /\ junction' = t
  /\ last' = [current |-> "low", bus |-> f.bus, sensor |-> valid]
  /\ output' = FALSE
  /\ UNCHANGED <<faults, counts>>

\* Mutant of CurrentCounts: a good sample does not end the run.
CurrentCountsSticky(f) ==
  [counts EXCEPT
     !.overCurrent = IF MeasuredCurrent(f) = "over" THEN Capped(@, OverCurrentDebounce) ELSE @,
     !.residual = IF MeasuredResidual(f) THEN Capped(@, ResidualDebounce) ELSE 0]

\* Over-current and residual are judged on every frame outside Calibrating.
CurrentCounts(f) ==
  [counts EXCEPT
     !.overCurrent = IF MeasuredCurrent(f) = "over" THEN Capped(@, OverCurrentDebounce) ELSE 0,
     !.residual = IF MeasuredResidual(f) THEN Capped(@, ResidualDebounce) ELSE 0]
\* Mutant of CurrentTrips: the counters must pass a limit they never pass.
CurrentTripsBeyond(c) ==
  Trip("OVER_CURRENT", c.overCurrent > OverCurrentDebounce)
  \cup Trip("CURRENT_RESIDUAL", c.residual > ResidualDebounce)
CurrentTrips(c) ==
  Trip("OVER_CURRENT", c.overCurrent >= OverCurrentDebounce)
  \cup Trip("CURRENT_RESIDUAL", c.residual >= ResidualDebounce)

\* The bus and the rotor are judged while the bridge is still requested.
BusTrips(f) ==
  Trip("UNDER_VOLTAGE", f.bus < MinimumBus(config.cells))
  \cup Trip("OVER_VOLTAGE", f.bus > MaximumBus(config.cells))
SensorCounts(c, lost) == [c EXCEPT !.sensor = IF lost THEN Capped(@, SensorLimit) ELSE 0]

\* run_speed_loop: every SpeedDivider-th frame in velocity mode.
SpeedTick == state = "Velocity" /\ counts.speed + 1 >= SpeedDivider
SpeedCounts(c, stalled) ==
  IF SpeedTick
    THEN [c EXCEPT !.speed = 0, !.stall = IF stalled THEN Capped(@, StallLimit) ELSE 0]
    ELSE [c EXCEPT !.speed = IF state = "Velocity" THEN @ + 1 ELSE @]
StallTrips(c) == Trip("STALL", SpeedTick /\ c.stall >= StallLimit)

\* The bridge stays off: the protections tripped, or the state was Idle or Fault.
OffStep(trips, c) ==
  /\ trips # {} \/ ~Running
  /\ faults' = faults \cup trips
  /\ state' = IF trips # {} THEN "Fault" ELSE state
  /\ counts' = c
  /\ output' = FALSE

\* The loops run.  A stall trips after the protections.
RunStep(trips, c) ==
  /\ trips = {} /\ Running
  /\ faults' = StallTrips(c)
  /\ state' = IF faults' # {} THEN "Fault" ELSE state
  /\ counts' = c
  /\ output' = (faults' = {})

\* A frame outside Calibrating, or one whose sequence check has just ended it.
ProtectedStep(f, valid, stalled, t) ==
  LET current == CurrentCounts(f)
      early == SequenceTrips(f) \cup CurrentTrips(current)
      requested == Running /\ early = {}
      bus == IF requested THEN BusTrips(f) ELSE {}
      lost == ~valid /\ (state # "OpenLoop" \/ bus # {})
      c == IF requested THEN SensorCounts(current, lost) ELSE current
      sensor == Trip("SENSOR", requested /\ lost /\ c.sensor >= SensorLimit)
      trips == early \cup bus \cup sensor \cup Trip("OVER_TEMPERATURE", t >= Shutdown)
  IN /\ OffStep(trips, c) \/ RunStep(trips, SpeedCounts(c, stalled))
     /\ junction' = t
     /\ last' = [current |-> MeasuredCurrent(f), bus |-> f.bus, sensor |-> valid]
     /\ UNCHANGED <<calibrated, samples>>

Step(f, valid, stalled) ==
  /\ \/ /\ state = "Calibrating" /\ SequenceTrips(f) = {}
        /\ \E t \in UpdatedThermal("low", f.ntc) : CalibrationStep(f, valid, t)
     \/ /\ state # "Calibrating" \/ SequenceTrips(f) # {}
        /\ \E t \in UpdatedThermal(MeasuredCurrent(f), f.ntc) :
              ProtectedStep(f, valid, stalled, t)
  /\ previous' = f.sequence
  /\ UNCHANGED config

-----------------------------------------------------------------------------
\* The interrupt numbers frames one by one, but the task may miss some, pause
\* the sampling or hand some to the auto-tune: any number may come next.
NewFrames == {f \in Frames : <<f.current, f.residual>> \in Readings}

Command ==
  \/ Disable \/ DisableAndResync
  \/ ClearFault
  \/ \E m \in Modes : Enable(m)
  \/ \E n \in CellCounts : SetCellCount(n)
  \/ \E t \in Tunings : SetTuning(t)
  \/ \E c \in [cells : CellCounts, tuning : Tunings] :
        ApplyLiveProfile(c) \/ ReloadProfile(c)
  \/ \E t \in Tunings : ApplyMotorParam(t)

Stalls == IF SpeedTick THEN BOOLEAN ELSE {FALSE}

Frame == \E f \in NewFrames, valid \in BOOLEAN, stalled \in Stalls :
           Step(f, valid, stalled)

Next == Command \/ AdcTimeout \/ Resynchronize \/ Frame

Spec == Init /\ [][Next]_vars

-----------------------------------------------------------------------------
(* Properties. *)

\* A fault is latched exactly while the controller is in Fault, whatever
\* mixture of frames, overruns and clears led there (trip, ClearFault).
FaultIffLatched == faults # {} <=> state = "Fault"

\* A running mode was entered with calibrated offsets and keeps its bus inside
\* the limits of the cell count in force, although the cell count, the profile
\* and the frames all change between the check in try_enable and the frame.
RunningIsSound ==
  Running => /\ calibrated
             /\ last.bus \in MinimumBus(config.cells)..MaximumBus(config.cells)

\* The duty a frame hands to the bridge is accompanied by no exhausted debounce
\* counter, a junction below shutdown and no rotor that has been lost too long.
BridgeIsProtected ==
  output /\ Running =>
    /\ junction < Shutdown
    /\ counts.overCurrent < OverCurrentDebounce
    /\ counts.residual < ResidualDebounce
    /\ state # "OpenLoop" => counts.sensor < SensorLimit
    /\ counts.stall < StallLimit

\* Offsets that are still being measured never reach the loops: a controller
\* that is not calibrated is calibrating or in Fault, with the bridge off.
UncalibratedIsOff == ~calibrated => state \in {"Calibrating", "Fault"} /\ ~output

\* The state tells both: whatever mixture of frames, overruns, commands and
\* clears came, a fault is never latched outside Fault nor Fault left with one,
\* and a clear before calibration is complete does not skip what is left of it.
StateAgrees == FaultIffLatched /\ UncalibratedIsOff

\* Faults are latched: they only accumulate until one ClearFault drops them
\* all, with the junction below shutdown and, once currents can be trusted, no
\* current left in the last frame.
FaultsLatched ==
  [][faults \subseteq faults' \/ (/\ faults' = {} /\ state' \in {"Idle", "Calibrating"}
                                  /\ junction < Shutdown
                                  /\ calibrated => last.current = "low")]_vars

\* A running loop ends in Idle or in Fault, and keeps the configuration it was
\* enabled with until then: no command, profile or tune changes it in between,
\* and Velocity never turns into OpenLoop without the checks of try_enable.
RunningIsUndisturbed ==
  [][Running => config' = config /\ (state' \in Modes => state' = state)]_vars

\* Calibration ends while frames keep coming: in Idle, or in Fault.  MotorTask
\* has the fairness this needs.
CalibrationEnds == state = "Calibrating" ~> state # "Calibrating"
=============================================================================
