--------------------------- MODULE FocHistoryProofs ---------------------------
(***************************************************************************)
(* Theorems about FocHistory: the debounce counters of the controller      *)
(* against the run of bad samples the sensors really delivered, for every  *)
(* debounce limit.                                                         *)
(***************************************************************************)
EXTENDS FocHistory, FocControllerProofs

-----------------------------------------------------------------------------
(* The inductive invariant. *)

HistoryType ==
  /\ overRun \in 0..OverCurrentDebounce
  /\ lostRun \in 0..SensorLimit
  /\ stallRun \in 0..StallLimit
  /\ quietRun \in 0..CalibrationSamples
  /\ settled \in BOOLEAN

\* Every over-current that was delivered is counted, and shows in the last
\* telemetry, which is why a full window cannot be cleared away.
OverIsCounted ==
  /\ overRun <= counts.overCurrent
  /\ overRun > 0 => last.current = "over"
  /\ overRun >= OverCurrentDebounce => state \in {"Fault", "Calibrating"}

\* The controller may count more lost samples than this stay had, never less.
LostIsCounted ==
  /\ state \in SensorModes => lostRun <= counts.sensor
  /\ state \in Modes => lostRun < SensorLimit

\* In Velocity it counts no stalled tick of an earlier stay.
StallIsCounted == state = "Velocity" => counts.stall <= stallRun

\* It averages no frame of an earlier calibration.
QuietIsCounted == state = "Calibrating" => samples <= quietRun

\* Once a quiet frame with known offsets has come, the counter is exact.
SettledIsExact == settled => calibrated /\ counts.overCurrent = overRun

HInv == /\ IInv /\ HistoryType
        /\ OverIsCounted /\ LostIsCounted /\ StallIsCounted
        /\ QuietIsCounted /\ SettledIsExact

LEMMA HistoryInitInv == HistoryInit => HInv
<1>1. SUFFICES ASSUME HistoryInit PROVE HInv
  OBVIOUS
<1>2. /\ Init /\ overRun = 0 /\ lostRun = 0 /\ stallRun = 0 /\ quietRun = 0 /\ settled = FALSE
  BY <1>1 DEF HistoryInit
<1>3. IInv
  BY <1>2, InitInv
<1>4. HistoryType
  <2>1. /\ 0 \in 0..OverCurrentDebounce /\ 0 \in 0..SensorLimit /\ 0 \in 0..StallLimit
        /\ 0 \in 0..CalibrationSamples
    BY ConstantsAssumption
  <2>2. settled \in BOOLEAN
    BY <1>2
  <2>3. QED
    BY <1>2, <2>1, <2>2 DEF HistoryType
<1>5. state = "Calibrating" /\ counts.overCurrent \in 0..OverCurrentDebounce /\ samples = 0
  BY <1>2, <1>3 DEF Init, IInv, TypeOK, Counters
<1>6. QED
  BY <1>2, <1>3, <1>4, <1>5, ConstantsAssumption
     DEF HInv, OverIsCounted, LostIsCounted, StallIsCounted, QuietIsCounted, SettledIsExact,
         SensorModes

-----------------------------------------------------------------------------
(* Counters and runs. *)

LEMMA ExtendType ==
  ASSUME NEW limit \in Nat \ {0}, NEW n \in 0..limit, NEW bad \in BOOLEAN
  PROVE  Extend(n, bad, limit) \in 0..limit
BY CappedType DEF Extend

\* A saturating counter keeps the order.
LEMMA CappedOrder ==
  ASSUME NEW limit \in Nat \ {0}, NEW m \in 0..limit, NEW n \in 0..limit, m <= n
  PROVE  Capped(m, limit) <= Capped(n, limit)
BY DEF Capped

\* What a frame outside Calibrating does to the counters, and which of them
\* stand behind a trip.
LEMMA ProtectedStepCounts ==
  ASSUME IInv, NEW f \in NewFrames, NEW valid \in BOOLEAN, NEW stalled \in BOOLEAN,
         NEW t \in Nat, ProtectedStep(f, valid, stalled, t)
  PROVE  /\ counts'.overCurrent = IF MeasuredCurrent(f) = "over"
                                  THEN Capped(counts.overCurrent, OverCurrentDebounce) ELSE 0
         /\ counts'.overCurrent >= OverCurrentDebounce => state' = "Fault"
         /\ "OVER_CURRENT" \in faults' \ faults => counts'.overCurrent >= OverCurrentDebounce
         /\ state' \in SensorModes =>
              /\ state' = state
              /\ counts'.sensor = IF valid THEN 0 ELSE Capped(counts.sensor, SensorLimit)
              /\ counts'.sensor < SensorLimit
         /\ state' # "Fault" /\ ~SpeedTick => counts'.stall = counts.stall
         /\ state' # "Fault" /\ SpeedTick =>
              counts'.stall = IF stalled THEN Capped(counts.stall, StallLimit) ELSE 0
         /\ "STALL" \in faults' \ faults =>
              /\ SpeedTick /\ stalled
              /\ Capped(counts.stall, StallLimit) >= StallLimit
         /\ state' \in {"Fault", state}
         /\ SequenceTrips(f) # {} => state' = "Fault"
         /\ last'.current = MeasuredCurrent(f)
         /\ UNCHANGED <<calibrated, samples>>
<1> DEFINE current == CurrentCounts(f)
           early == SequenceTrips(f) \cup CurrentTrips(current)
           requested == Running /\ early = {}
           bus == IF requested THEN BusTrips(f) ELSE {}
           lost == ~valid /\ (state # "OpenLoop" \/ bus # {})
           c == IF requested THEN SensorCounts(current, lost) ELSE current
           sensor == Trip("SENSOR", requested /\ lost /\ c.sensor >= SensorLimit)
           trips == early \cup bus \cup sensor \cup Trip("OVER_TEMPERATURE", t >= Shutdown)
           d == SpeedCounts(c, stalled)
<1>1. TypeOK /\ FaultIffLatched
  BY DEF IInv
<1>2. /\ OffStep(trips, c) \/ RunStep(trips, d)
      /\ last'.current = MeasuredCurrent(f)
      /\ UNCHANGED <<calibrated, samples>>
  BY DEF ProtectedStep
<1>3. /\ current \in Counters /\ current.sensor = counts.sensor
      /\ current.stall = counts.stall /\ current.speed = counts.speed
  BY <1>1, CurrentCountsType
<1>4. current.overCurrent = IF MeasuredCurrent(f) = "over"
                            THEN Capped(counts.overCurrent, OverCurrentDebounce) ELSE 0
  BY <1>1 DEF CurrentCounts, TypeOK, Counters
<1>5. /\ c \in Counters /\ c.overCurrent = current.overCurrent
      /\ c.stall = counts.stall /\ c.speed = counts.speed
  <2>1. lost \in BOOLEAN
    OBVIOUS
  <2> HIDE DEF current, lost
  <2>2. QED
    BY <1>3, <2>1, SensorCountsType
<1>6. /\ d \in Counters /\ d.overCurrent = c.overCurrent /\ d.sensor = c.sensor
      /\ ~SpeedTick => d.stall = counts.stall
  <2> HIDE DEF c
  <2>1. QED
    BY <1>5, SpeedCountsType
<1>7. SpeedTick => d.stall = IF stalled THEN Capped(counts.stall, StallLimit) ELSE 0
  <2> HIDE DEF c
  <2>1. QED
    BY <1>5 DEF SpeedCounts, Counters
<1>8. "OVER_CURRENT" \in trips <=> current.overCurrent >= OverCurrentDebounce
  <2>1. "OVER_CURRENT" \in CurrentTrips(current) <=> current.overCurrent >= OverCurrentDebounce
    <3> HIDE DEF current
    <3>1. QED
      BY DEF CurrentTrips, Trip
  <2>2. /\ "OVER_CURRENT" \notin SequenceTrips(f)
        /\ "OVER_CURRENT" \notin BusTrips(f)
    BY DEF SequenceTrips, BusTrips, Trip
  <2>3. /\ "OVER_CURRENT" \notin sensor
        /\ "OVER_CURRENT" \notin Trip("OVER_TEMPERATURE", t >= Shutdown)
    <3> HIDE DEF c, lost, requested
    <3>1. QED
      BY DEF Trip
  <2> HIDE DEF current, c, lost, sensor
  <2>4. QED
    BY <2>1, <2>2, <2>3
<1>9. "STALL" \notin trips
  <2>1. /\ "STALL" \notin SequenceTrips(f) /\ "STALL" \notin BusTrips(f)
        /\ "STALL" \notin CurrentTrips(current)
    BY DEF SequenceTrips, BusTrips, CurrentTrips, Trip
  <2>2. "STALL" \notin sensor /\ "STALL" \notin Trip("OVER_TEMPERATURE", t >= Shutdown)
    <3> HIDE DEF c, lost, requested
    <3>1. QED
      BY DEF Trip
  <2> HIDE DEF current, c, lost, sensor
  <2>3. QED
    BY <2>1, <2>2
<1>10. SequenceTrips(f) \subseteq trips
  OBVIOUS
<1>11. ASSUME trips = {}, state \in SensorModes
       PROVE  /\ c.sensor = IF valid THEN 0 ELSE Capped(counts.sensor, SensorLimit)
              /\ c.sensor < SensorLimit
  <2>1. early = {} /\ bus = {} /\ sensor = {}
    BY <1>11
  <2>2. requested /\ lost = ~valid
    BY <1>11, <2>1 DEF SensorModes, Running, Modes
  <2>3. c = SensorCounts(current, ~valid) /\ ~(~valid /\ c.sensor >= SensorLimit)
    BY <2>1, <2>2 DEF Trip
  <2> HIDE DEF c, current
  <2>4. c.sensor = IF valid THEN 0 ELSE Capped(counts.sensor, SensorLimit)
    BY <1>3, <2>3 DEF SensorCounts, Counters
  <2>5. QED
    BY <1>5, <2>3, <2>4, ConstantsAssumption DEF Counters
<1> HIDE DEF current, c, d, trips
<1>12. CASE OffStep(trips, c)
  <2>1. /\ counts' = c /\ faults' = faults \cup trips
        /\ state' = IF trips # {} THEN "Fault" ELSE state
        /\ trips # {} \/ ~Running
    BY <1>12 DEF OffStep
  <2>2. state' \notin SensorModes /\ state' \in {"Fault", state}
    BY <2>1 DEF SensorModes, Running, Modes
  <2>3. ~SpeedTick \/ state' = "Fault"
    BY <2>1 DEF SpeedTick, Running, Modes
  <2>4. QED
    BY <1>2, <1>4, <1>5, <1>8, <1>9, <1>10, <2>1, <2>2, <2>3
<1>13. CASE RunStep(trips, d)
  <2>1. /\ trips = {} /\ Running /\ counts' = d /\ faults' = StallTrips(d)
        /\ state' = IF faults' # {} THEN "Fault" ELSE state
    BY <1>13 DEF RunStep
  <2>2. "OVER_CURRENT" \notin faults'
    BY <2>1 DEF StallTrips, Trip
  <2>3. ~(d.overCurrent >= OverCurrentDebounce)
    BY <1>5, <1>6, <1>8, <2>1
  <2>4. "STALL" \in faults' => /\ SpeedTick /\ stalled
                               /\ Capped(counts.stall, StallLimit) >= StallLimit
    <3>1. SUFFICES ASSUME "STALL" \in faults'
                   PROVE  /\ SpeedTick /\ stalled
                          /\ Capped(counts.stall, StallLimit) >= StallLimit
      OBVIOUS
    <3>2. SpeedTick /\ d.stall >= StallLimit
      BY <2>1, <3>1 DEF StallTrips, Trip
    <3>3. QED
      BY <1>7, <3>2, ConstantsAssumption
  <2>5. state' \in SensorModes =>
          /\ state' = state
          /\ d.sensor = IF valid THEN 0 ELSE Capped(counts.sensor, SensorLimit)
          /\ d.sensor < SensorLimit
    BY <1>6, <1>11, <2>1 DEF SensorModes
  <2>6. SequenceTrips(f) = {}
    BY <1>10, <2>1
  <2>7. QED
    BY <1>2, <1>4, <1>5, <1>6, <1>7, <2>1, <2>2, <2>3, <2>4, <2>5, <2>6
<1>14. QED
  BY <1>2, <1>12, <1>13

-----------------------------------------------------------------------------
(* The steps. *)

\* What the commands and reports may do to what the runs are compared with.
LEMMA CommandCounts ==
  ASSUME IInv, Command \/ AdcTimeout \/ Resynchronize
  PROVE  /\ counts'.overCurrent = counts.overCurrent
         /\ counts'.sensor = counts.sensor
         /\ counts'.stall \in {0, counts.stall}
         /\ state' \in {"Current", "Velocity"} /\ state' # state => counts'.stall = 0
         /\ UNCHANGED <<calibrated, last>>
         /\ samples' \in {0, samples}
         /\ state' = "Calibrating" /\ state # "Calibrating" => samples' = 0
         /\ state \in {"Fault", "Calibrating"} => (state' \notin {"Fault", "Calibrating"} => calibrated /\ last.current = "low")
         /\ \A flag \in {"STALL", "OVER_CURRENT"} : flag \in faults' => flag \in faults
<1>1. TypeOK /\ CalibratingIsFresh
  BY DEF IInv
<1>2. counts \in Counters
  BY <1>1 DEF TypeOK
<1>3. ASSUME ResetLoops
      PROVE  /\ counts'.overCurrent = counts.overCurrent
             /\ counts'.sensor = counts.sensor
             /\ counts'.stall = 0
  BY <1>2, <1>3 DEF ResetLoops, Counters
<1>4. CASE Disable \/ DisableAndResync
  BY <1>3, <1>4 DEF Disable, DisableAndResync, EnterIdle
<1>5. CASE ClearFault
  BY <1>3, <1>5 DEF ClearFault, SafeToClear
<1>6. CASE \E m \in Modes : Enable(m)
  BY <1>3, <1>6 DEF Enable, CanEnable, Modes
<1>7. CASE \/ \E n \in CellCounts : SetCellCount(n)
           \/ \E u \in Tunings : SetTuning(u)
           \/ Resynchronize
  BY <1>7 DEF SetCellCount, SetTuning, Configure, Resynchronize
<1>8. CASE \/ \E k \in [cells : CellCounts, tuning : Tunings] :
                ApplyLiveProfile(k) \/ ReloadProfile(k)
           \/ \E u \in Tunings : ApplyMotorParam(u)
  BY <1>3, <1>8 DEF ApplyLiveProfile, ReloadProfile, ApplyMotorParam, ApplyProfile, StorageSafe
<1>9. CASE AdcTimeout
  BY <1>3, <1>9 DEF AdcTimeout
<1>10. QED
  BY <1>4, <1>5, <1>6, <1>7, <1>8, <1>9 DEF Command

LEMMA HistoryCommandInv ==
  ASSUME HInv, HistoryCommand
  PROVE  HInv'
<1>1. /\ IInv /\ HistoryType /\ OverIsCounted /\ LostIsCounted /\ StallIsCounted
      /\ QuietIsCounted /\ SettledIsExact /\ counts \in Counters /\ samples \in Nat
  BY DEF HInv, IInv, TypeOK
<1>2. /\ Command \/ AdcTimeout \/ Resynchronize
      /\ lostRun' = IF state' \in SensorModes /\ state' = state THEN lostRun ELSE 0
      /\ stallRun' = IF state' = "Velocity" /\ state' = state THEN stallRun ELSE 0
      /\ quietRun' = IF state' = "Calibrating" /\ state' = state THEN quietRun ELSE 0
      /\ UNCHANGED <<overRun, settled>>
  BY DEF HistoryCommand
<1>3. IInv'
  BY <1>1, <1>2, CommandInv, ReportInv
<1>4. /\ counts'.overCurrent = counts.overCurrent
      /\ counts'.sensor = counts.sensor
      /\ counts'.stall \in {0, counts.stall}
      /\ state' \in {"Current", "Velocity"} /\ state' # state => counts'.stall = 0
      /\ UNCHANGED <<calibrated, last>>
      /\ samples' \in {0, samples}
      /\ state' = "Calibrating" /\ state # "Calibrating" => samples' = 0
      /\ state \in {"Fault", "Calibrating"} => (state' \notin {"Fault", "Calibrating"} => calibrated /\ last.current = "low")
  BY <1>1, <1>2, CommandCounts
<1>5. HistoryType'
  <2>1. /\ 0 \in 0..SensorLimit /\ 0 \in 0..StallLimit /\ 0 \in 0..CalibrationSamples
    BY ConstantsAssumption
  <2>2. lostRun' \in 0..SensorLimit /\ stallRun' \in 0..StallLimit
        /\ quietRun' \in 0..CalibrationSamples
    BY <1>1, <1>2, <2>1 DEF HistoryType
  <2>3. overRun' \in 0..OverCurrentDebounce /\ settled' \in BOOLEAN
    BY <1>1, <1>2 DEF HistoryType
  <2>4. QED
    BY <2>2, <2>3 DEF HistoryType
<1>6. OverIsCounted'
  BY <1>1, <1>2, <1>4, ConstantsAssumption DEF OverIsCounted, HistoryType
<1>7. LostIsCounted'
  <2>1. counts.sensor \in Nat
    BY <1>1 DEF Counters
  <2>2. QED
    BY <1>1, <1>2, <1>4, <2>1, ConstantsAssumption DEF LostIsCounted, SensorModes
<1>8. StallIsCounted'
  <2>1. counts.stall \in Nat /\ stallRun \in Nat
    BY <1>1 DEF Counters, HistoryType
  <2>2. QED
    BY <1>1, <1>2, <1>4, <2>1 DEF StallIsCounted
<1>9. QuietIsCounted'
  <2>1. quietRun \in Nat
    BY <1>1 DEF HistoryType
  <2>2. QED
    BY <1>1, <1>2, <1>4, <2>1 DEF QuietIsCounted
<1>10. SettledIsExact'
  BY <1>1, <1>2, <1>4 DEF SettledIsExact
<1>11. QED
  BY <1>3, <1>5, <1>6, <1>7, <1>8, <1>9, <1>10 DEF HInv

\* What a frame appends to the runs.
Appends(f, valid, stalled) ==
  /\ overRun' = Extend(overRun, ~Averaged(f) /\ f.current = "over", OverCurrentDebounce)
  /\ lostRun' = Extend(lostRun, state \in SensorModes /\ ~valid, SensorLimit)
  /\ stallRun' = IF SpeedTick THEN Extend(stallRun, stalled, StallLimit)
                 ELSE IF state = "Velocity" THEN stallRun ELSE 0
  /\ quietRun' = Extend(quietRun, Averaged(f), CalibrationSamples)
  /\ settled' = (settled \/ (calibrated /\ f.current # "over"))

LEMMA AppendsType ==
  ASSUME HistoryType, NEW f, NEW valid \in BOOLEAN, NEW stalled \in BOOLEAN,
         Appends(f, valid, stalled)
  PROVE  HistoryType'
<1>1. overRun' \in 0..OverCurrentDebounce
  BY ExtendType, ConstantsAssumption DEF HistoryType, Appends, Averaged
<1>2. lostRun' \in 0..SensorLimit
  BY ExtendType, ConstantsAssumption DEF HistoryType, Appends
<1>3. stallRun' \in 0..StallLimit
  <2>1. 0 \in 0..StallLimit /\ Extend(stallRun, stalled, StallLimit) \in 0..StallLimit
    BY ExtendType, ConstantsAssumption DEF HistoryType
  <2>2. QED
    BY <2>1 DEF HistoryType, Appends
<1>4. quietRun' \in 0..CalibrationSamples
  BY ExtendType, ConstantsAssumption DEF HistoryType, Appends, Averaged
<1>5. settled' \in BOOLEAN
  BY DEF Appends
<1>6. QED
  BY <1>1, <1>2, <1>3, <1>4, <1>5 DEF HistoryType

LEMMA AveragedFrameInv ==
  ASSUME HInv, NEW f \in NewFrames, NEW valid \in BOOLEAN, NEW stalled \in BOOLEAN, NEW t,
         state = "Calibrating", SequenceTrips(f) = {}, CalibrationStep(f, valid, t),
         Appends(f, valid, stalled), IInv'
  PROVE  HInv' /\ (calibrated' => quietRun' >= CalibrationSamples)
<1>1. /\ IInv /\ HistoryType /\ OverIsCounted /\ QuietIsCounted /\ SettledIsExact
      /\ counts \in Counters /\ ~calibrated /\ samples < CalibrationSamples /\ samples \in Nat
  BY DEF HInv, IInv, TypeOK, CalibratingIsFresh
<1>2. Averaged(f)
  BY DEF Averaged
<1>3. ~SpeedTick
  BY DEF SpeedTick
<1>4. /\ samples' = samples + 1 /\ calibrated' = (samples' >= CalibrationSamples)
      /\ state' \in {"Idle", "Calibrating"} /\ UNCHANGED counts
  BY DEF CalibrationStep
<1>5. /\ overRun' = 0 /\ lostRun' = 0 /\ stallRun' = 0
      /\ quietRun' = Capped(quietRun, CalibrationSamples) /\ settled' = settled
  BY <1>1, <1>2, <1>3 DEF Appends, Extend, SensorModes, HistoryType
<1>6. ~settled
  BY <1>1 DEF SettledIsExact
<1>7. samples' <= quietRun'
  <2>1. samples <= quietRun /\ quietRun \in 0..CalibrationSamples
    BY <1>1 DEF QuietIsCounted, HistoryType
  <2>2. QED
    BY <1>1, <1>4, <1>5, <2>1, ConstantsAssumption DEF Capped
<1>8. HistoryType'
  BY <1>1, AppendsType
<1>9. OverIsCounted' /\ LostIsCounted' /\ StallIsCounted' /\ QuietIsCounted' /\ SettledIsExact'
  BY <1>1, <1>4, <1>5, <1>6, <1>7, ConstantsAssumption
     DEF OverIsCounted, LostIsCounted, StallIsCounted, QuietIsCounted, SettledIsExact,
         SensorModes, Modes, Counters
<1>10. calibrated' => quietRun' >= CalibrationSamples
  <2>1. samples' \in Nat /\ quietRun' \in 0..CalibrationSamples
    BY <1>1, <1>4, <1>8 DEF HistoryType
  <2>2. calibrated' => samples' >= CalibrationSamples
    BY <1>4
  <2>3. QED
    BY <1>7, <2>1, <2>2, ConstantsAssumption
<1>11. QED
  BY <1>8, <1>9, <1>10 DEF HInv

LEMMA ProtectedFrameInv ==
  ASSUME HInv, NEW f \in NewFrames, NEW valid \in BOOLEAN, NEW stalled \in BOOLEAN,
         NEW t \in Nat, state # "Calibrating" \/ SequenceTrips(f) # {},
         ProtectedStep(f, valid, stalled, t), Appends(f, valid, stalled), IInv'
  PROVE  /\ HInv'
         /\ UNCHANGED calibrated
         /\ settled /\ "OVER_CURRENT" \in faults' \ faults => overRun' >= OverCurrentDebounce
         /\ "STALL" \in faults' \ faults => stallRun' >= StallLimit
<1>1. /\ IInv /\ HistoryType /\ OverIsCounted /\ LostIsCounted /\ StallIsCounted
      /\ SettledIsExact /\ counts \in Counters /\ counts' \in Counters
  BY DEF HInv, IInv, TypeOK
<1>2. /\ counts'.overCurrent = IF MeasuredCurrent(f) = "over"
                               THEN Capped(counts.overCurrent, OverCurrentDebounce) ELSE 0
      /\ counts'.overCurrent >= OverCurrentDebounce => state' = "Fault"
      /\ "OVER_CURRENT" \in faults' \ faults => counts'.overCurrent >= OverCurrentDebounce
      /\ state' \in SensorModes =>
           /\ state' = state
           /\ counts'.sensor = IF valid THEN 0 ELSE Capped(counts.sensor, SensorLimit)
           /\ counts'.sensor < SensorLimit
      /\ state' # "Fault" /\ ~SpeedTick => counts'.stall = counts.stall
      /\ state' # "Fault" /\ SpeedTick =>
           counts'.stall = IF stalled THEN Capped(counts.stall, StallLimit) ELSE 0
      /\ "STALL" \in faults' \ faults =>
           /\ SpeedTick /\ stalled
           /\ Capped(counts.stall, StallLimit) >= StallLimit
      /\ state' \in {"Fault", state}
      /\ SequenceTrips(f) # {} => state' = "Fault"
      /\ last'.current = MeasuredCurrent(f)
      /\ UNCHANGED <<calibrated, samples>>
  BY <1>1, ProtectedStepCounts
<1>3. ~Averaged(f)
  BY DEF Averaged
<1>4. HistoryType'
  BY <1>1, AppendsType
<1>5. overRun' = IF f.current = "over" THEN Capped(overRun, OverCurrentDebounce) ELSE 0
  BY <1>3 DEF Appends, Extend
<1>6. /\ counts.overCurrent \in 0..OverCurrentDebounce /\ overRun \in 0..OverCurrentDebounce
      /\ OverCurrentDebounce \in Nat \ {0}
      /\ counts'.overCurrent \in 0..OverCurrentDebounce /\ overRun' \in 0..OverCurrentDebounce
  BY <1>1, <1>4, ConstantsAssumption DEF HistoryType, Counters
<1>7. overRun' <= counts'.overCurrent
  <2>1. CASE f.current = "over"
    <3>1. MeasuredCurrent(f) = "over"
      BY <2>1 DEF MeasuredCurrent
    <3>2. Capped(overRun, OverCurrentDebounce) <= Capped(counts.overCurrent, OverCurrentDebounce)
      BY <1>1, <1>6, CappedOrder DEF OverIsCounted
    <3>3. QED
      BY <1>2, <1>5, <2>1, <3>1, <3>2
  <2>2. CASE f.current # "over"
    BY <1>5, <1>6, <2>2
  <2>3. QED
    BY <2>1, <2>2
<1>8. OverIsCounted'
  <2>1. overRun' > 0 => last'.current = "over"
    BY <1>2, <1>5 DEF MeasuredCurrent
  <2>2. overRun' >= OverCurrentDebounce => state' = "Fault"
    BY <1>2, <1>6, <1>7
  <2>3. QED
    BY <1>7, <2>1, <2>2 DEF OverIsCounted
<1>9. LostIsCounted'
  <2>1. CASE state' \in SensorModes
    <3>1. /\ state \in SensorModes /\ lostRun <= counts.sensor
          /\ lostRun \in 0..SensorLimit /\ counts.sensor \in 0..SensorLimit
          /\ SensorLimit \in Nat \ {0}
      BY <1>1, <1>2, <2>1, ConstantsAssumption DEF LostIsCounted, HistoryType, Counters
    <3>2. lostRun' = IF valid THEN 0 ELSE Capped(lostRun, SensorLimit)
      BY <3>1 DEF Appends, Extend
    <3>3. Capped(lostRun, SensorLimit) <= Capped(counts.sensor, SensorLimit)
      BY <3>1, CappedOrder
    <3>4. lostRun' <= counts'.sensor
      BY <1>2, <2>1, <3>2, <3>3
    <3>5. lostRun' \in Nat /\ counts'.sensor \in Nat
      BY <1>1, <1>4 DEF HistoryType, Counters
    <3>6. lostRun' < SensorLimit
      BY <1>2, <2>1, <3>1, <3>4, <3>5
    <3>7. QED
      BY <3>4, <3>6 DEF LostIsCounted
  <2>2. CASE state' \notin SensorModes
    <3>1. SUFFICES ASSUME state' \in Modes PROVE lostRun' < SensorLimit
      BY <2>2 DEF LostIsCounted
    <3>2. state \notin SensorModes
      BY <1>2, <2>2, <3>1 DEF Modes
    <3>3. QED
      BY <3>2, ConstantsAssumption DEF Appends, Extend
  <2>3. QED
    BY <2>1, <2>2
<1>10. /\ SpeedTick => state = "Velocity"
       /\ stallRun \in 0..StallLimit /\ counts.stall \in 0..StallLimit
       /\ StallLimit \in Nat \ {0}
  BY <1>1, ConstantsAssumption DEF SpeedTick, HistoryType, Counters
<1>11. state = "Velocity" => Capped(counts.stall, StallLimit) <= Capped(stallRun, StallLimit)
  BY <1>1, <1>10, CappedOrder DEF StallIsCounted
<1>12. stallRun' = IF SpeedTick THEN IF stalled THEN Capped(stallRun, StallLimit) ELSE 0
                   ELSE IF state = "Velocity" THEN stallRun ELSE 0
  BY DEF Appends, Extend
<1>13. StallIsCounted'
  <2>1. SUFFICES ASSUME state' = "Velocity" PROVE counts'.stall <= stallRun'
    BY DEF StallIsCounted
  <2>2. state = "Velocity" /\ counts.stall <= stallRun
    BY <1>1, <1>2, <2>1 DEF StallIsCounted
  <2>3. QED
    BY <1>2, <1>11, <1>12, <2>1, <2>2
<1>14. QuietIsCounted'
  <2>1. state' # "Calibrating"
    BY <1>2
  <2>2. QED
    BY <2>1 DEF QuietIsCounted
<1>15. settled' => calibrated /\ counts'.overCurrent = overRun'
  <2>1. SUFFICES ASSUME settled' PROVE calibrated /\ counts'.overCurrent = overRun'
    OBVIOUS
  <2>2. CASE settled
    BY <1>1, <1>2, <1>5, <2>2 DEF SettledIsExact, MeasuredCurrent
  <2>3. CASE calibrated /\ f.current # "over"
    BY <1>2, <1>5, <2>3 DEF MeasuredCurrent
  <2>4. QED
    BY <2>1, <2>2, <2>3 DEF Appends
<1>16. HInv'
  BY <1>2, <1>4, <1>8, <1>9, <1>13, <1>14, <1>15 DEF HInv, SettledIsExact
<1>17. settled => settled'
  BY DEF Appends
<1>18. "STALL" \in faults' \ faults => stallRun' >= StallLimit
  <2>1. Capped(stallRun, StallLimit) \in Nat /\ Capped(counts.stall, StallLimit) \in Nat
    BY <1>10 DEF Capped
  <2>2. QED
    BY <1>2, <1>10, <1>11, <1>12, <2>1
<1>19. QED
  BY <1>2, <1>15, <1>16, <1>17, <1>18

\* Everything a frame keeps and shows.
LEMMA HistoryFrameFacts ==
  ASSUME HInv, HistoryFrame
  PROVE  /\ HInv'
         /\ calibrated' /\ ~calibrated => quietRun' >= CalibrationSamples
         /\ settled /\ "OVER_CURRENT" \in faults' \ faults => overRun' >= OverCurrentDebounce
         /\ "STALL" \in faults' \ faults => stallRun' >= StallLimit
<1>1. IInv /\ TypeOK
  BY DEF HInv, IInv
<1>2. PICK f \in NewFrames, valid \in BOOLEAN, stalled \in Stalls :
        Step(f, valid, stalled) /\ Appends(f, valid, stalled)
  BY DEF HistoryFrame, Appends
<1>3. stalled \in BOOLEAN
  BY DEF Stalls
<1>4. IInv'
  BY <1>1, <1>2, FrameInv DEF Frame
<1>5. CASE \E t : /\ state = "Calibrating" /\ SequenceTrips(f) = {}
                  /\ CalibrationStep(f, valid, t)
  <2>1. faults' = faults
    BY <1>5 DEF CalibrationStep
  <2>2. QED
    BY <1>2, <1>3, <1>4, <1>5, <2>1, AveragedFrameInv
<1>6. CASE /\ state # "Calibrating" \/ SequenceTrips(f) # {}
           /\ \E t \in UpdatedThermal(MeasuredCurrent(f), f.ntc) :
                ProtectedStep(f, valid, stalled, t)
  <2>1. PICK t \in UpdatedThermal(MeasuredCurrent(f), f.ntc) : ProtectedStep(f, valid, stalled, t)
    BY <1>6
  <2>2. t \in Nat
    BY <1>1, NewFrameType, ThermalType
  <2>3. QED
    BY <1>2, <1>3, <1>4, <1>6, <2>1, <2>2, ProtectedFrameInv
<1>7. QED
  BY <1>2, <1>5, <1>6 DEF Step

LEMMA HistoryNextInv == HInv /\ [HistoryNext]_<<vars, history>> => HInv'
<1>1. SUFFICES ASSUME HInv, [HistoryNext]_<<vars, history>> PROVE HInv'
  OBVIOUS
<1>2. CASE UNCHANGED <<vars, history>>
  <2>1. IInv'
    BY <1>1, <1>2, NextInv DEF HInv
  <2>2. QED
    BY <1>1, <1>2, <2>1
       DEF HInv, vars, history, HistoryType, OverIsCounted, LostIsCounted, StallIsCounted,
           QuietIsCounted, SettledIsExact
<1>3. QED
  BY <1>1, <1>2, HistoryFrameFacts, HistoryCommandInv DEF HistoryNext

-----------------------------------------------------------------------------
(* What the counters promise. *)

\* The invariant holds in every reachable state.
THEOREM HistoryInductive == HistorySpec => []HInv
BY HistoryInitInv, HistoryNextInv, PTL DEF HistorySpec

\* No mode survives a full window of real over-current or of a lost rotor.
THEOREM DetectionIsCompleteHolds == HistorySpec => []DetectionIsComplete
<1>1. HInv => DetectionIsComplete
  <2>1. SUFFICES ASSUME HInv, Running
                 PROVE  overRun < OverCurrentDebounce /\ lostRun < SensorLimit
    BY DEF DetectionIsComplete
  <2>2. overRun < OverCurrentDebounce
    BY <2>1, ConstantsAssumption DEF HInv, HistoryType, OverIsCounted, Running, Modes
  <2>3. lostRun < SensorLimit
    BY <2>1 DEF HInv, LostIsCounted, Running
  <2>4. QED
    BY <2>2, <2>3
<1>2. QED
  BY <1>1, HistoryInductive, PTL

\* The offsets in use come from consecutive frames of one calibration.
THEOREM CalibrationIsContiguousHolds == HistorySpec => CalibrationIsContiguous
<1>1. HInv /\ [HistoryNext]_<<vars, history>>
        => [calibrated' /\ ~calibrated => quietRun' >= CalibrationSamples]_<<vars, history>>
  <2>1. SUFFICES ASSUME HInv, HistoryNext, calibrated', ~calibrated
                 PROVE  quietRun' >= CalibrationSamples
    OBVIOUS
  <2>2. CASE HistoryFrame
    BY <2>1, <2>2, HistoryFrameFacts
  <2>3. CASE HistoryCommand
    BY <2>1, <2>3, CommandCounts DEF HInv, HistoryCommand
  <2>4. QED
    BY <2>1, <2>2, <2>3 DEF HistoryNext
<1>2. QED
  BY <1>1, HistoryInductive, PTL DEF HistorySpec, CalibrationIsContiguous

\* A stall and, once the currents can be trusted, an over-current trip only
\* after a full window of what their flags say.
THEOREM TripsAreRealHolds == HistorySpec => TripsAreReal
<1> DEFINE Real ==
      LET new == faults' \ faults
      IN /\ "STALL" \in new => stallRun' >= StallLimit
         /\ settled /\ "OVER_CURRENT" \in new => overRun' >= OverCurrentDebounce
<1>1. HInv /\ [HistoryNext]_<<vars, history>> => [Real]_<<vars, history>>
  <2>1. SUFFICES ASSUME HInv, HistoryNext PROVE Real
    OBVIOUS
  <2>2. CASE HistoryFrame
    BY <2>1, <2>2, HistoryFrameFacts
  <2>3. CASE HistoryCommand
    BY <2>1, <2>3, CommandCounts DEF HInv, HistoryCommand
  <2>4. QED
    BY <2>1, <2>2, <2>3 DEF HistoryNext
<1>2. QED
  BY <1>1, HistoryInductive, PTL DEF HistorySpec, TripsAreReal
=============================================================================
