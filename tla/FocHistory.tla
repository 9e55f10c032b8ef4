----------------------------- MODULE FocHistory -----------------------------
(***************************************************************************)
(* FocController with history variables that record what the sensors       *)
(* really delivered, so that the debounce counters can be compared with    *)
(* the run of bad samples they are meant to count.                         *)
(***************************************************************************)
EXTENDS FocController

VARIABLES
  overRun,    \* consecutive frames, the averaged ones apart, whose real phase
              \* current was "over"
  lostRun,    \* consecutive invalid samples in the current stay in a sensor mode
  stallRun,   \* consecutive stalled speed-loop ticks in the stay in Velocity
  quietRun,   \* frames of the calibration under way, without a gap
  settled     \* a frame with known offsets and no over-current has come

history == <<overRun, lostRun, stallRun, quietRun, settled>>

HistoryInit ==
  /\ Init
  /\ overRun = 0 /\ lostRun = 0 /\ stallRun = 0 /\ quietRun = 0
  /\ settled = FALSE

SensorModes == {"Current", "Velocity"}
Extend(run, bad, limit) == IF bad THEN Capped(run, limit) ELSE 0
Averaged(f) == state = "Calibrating" /\ SequenceTrips(f) = {}

HistoryFrame ==
  \E f \in NewFrames, valid \in BOOLEAN, stalled \in Stalls :
    /\ Step(f, valid, stalled)
    /\ overRun' = Extend(overRun, ~Averaged(f) /\ f.current = "over", OverCurrentDebounce)
    /\ lostRun' = Extend(lostRun, state \in SensorModes /\ ~valid, SensorLimit)
    /\ stallRun' = IF SpeedTick THEN Extend(stallRun, stalled, StallLimit)
                   ELSE IF state = "Velocity" THEN stallRun ELSE 0
    /\ quietRun' = Extend(quietRun, Averaged(f), CalibrationSamples)
    /\ settled' = (settled \/ (calibrated /\ f.current # "over"))

\* A command or a report may end the stay in a mode, or the calibration.
HistoryCommand ==
  /\ Command \/ AdcTimeout \/ Resynchronize
  /\ lostRun' = IF state' \in SensorModes /\ state' = state THEN lostRun ELSE 0
  /\ stallRun' = IF state' = "Velocity" /\ state' = state THEN stallRun ELSE 0
  /\ quietRun' = IF state' = "Calibrating" /\ state' = state THEN quietRun ELSE 0
  /\ UNCHANGED <<overRun, settled>>

HistoryNext == HistoryFrame \/ HistoryCommand

HistorySpec == HistoryInit /\ [][HistoryNext]_<<vars, history>>

-----------------------------------------------------------------------------
(* Properties. *)

\* No mode keeps running through a full debounce window of real over-current
\* or, if it needs one, of a lost rotor, however often it was disabled,
\* enabled, reconfigured or resynchronised in between.
DetectionIsComplete ==
  Running => overRun < OverCurrentDebounce /\ lostRun < SensorLimit

\* The offsets come from CalibrationSamples frames in a row: a gap, an overrun
\* or a timeout restarts the average.
CalibrationIsContiguous ==
  [][calibrated' /\ ~calibrated => quietRun' >= CalibrationSamples]_<<vars, history>>

\* A trip means what its flag says (docs/software-design.md, 15.1), whatever
\* faults, clears, stays in other modes and reconfigurations came in between.  A
\* stall has StallLimit stalled ticks in one stay in Velocity: reset_loops forgets
\* those of an earlier one.  An over-current has the debounce count of frames over
\* the threshold: the phantom currents of an interrupted calibration trip at most
\* until the first frame with known offsets that has no over-current.
TripsAreReal ==
  [][LET new == faults' \ faults
     IN /\ "STALL" \in new => stallRun' >= StallLimit
        /\ settled /\ "OVER_CURRENT" \in new => overRun' >= OverCurrentDebounce
    ]_<<vars, history>>
=============================================================================
