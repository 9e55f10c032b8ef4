----------------------------- MODULE MotorTask -----------------------------
(***************************************************************************)
(* motor_control_task of firmware/src/main.rs: one loop that drives the    *)
(* controller and the auto-tune, applies what users and hosts ask for, and *)
(* switches the bridge.  A turn of the loop handles commands, then waits   *)
(* for a frame; the actions between the frame and the next turn are its    *)
(* steps in their order, and nothing comes between them.  The lease is     *)
(* reduced to whether somebody holds it (RemoteControl has the protocol).  *)
(***************************************************************************)
EXTENDS AutoTune

CONSTANTS
  TickDivider,   \* frames per slow tick (autotune_tick_divider)
  MissedFrames   \* how many frames the task may miss between two it takes

ASSUME TaskAssumption ==
  /\ TickDivider \in Nat \ {0}
  /\ MissedFrames \subseteq Nat

VARIABLES
  tune,       \* the AutoTuneController
  queue,      \* its requests that wait for the task
  enabled,    \* the master output enable of the bridge
  ticks,      \* autotune_frame_counter
  turn,       \* where in its loop the task is
  remote,     \* remote_mode: a session holds the lease
  taken,      \* number of the newest frame the task took
  tuned,      \* history: the tune asked for the mode that was enabled last
  disturbed   \* history: the tune started with an unsafe controller, or a
              \* local user changed the controller since

taskVars == <<tune, queue, enabled, ticks, turn, remote, taken, tuned, disturbed>>
allVars == <<vars, taskVars>>

\* "commands" until a frame comes, "drain" while requests of an ended tune are
\* applied before the frame, "tick" and "apply" behind a frame of the tune.
Turns == {"commands", "drain", "tick", "apply"}

TaskTypeOK ==
  /\ TypeOK
  /\ tune \in Tunes
  /\ queue \in Seq(ControlRequests) /\ Len(queue) <= QueueCapacity
  /\ enabled \in BOOLEAN
  /\ ticks \in 0..TickDivider - 1
  /\ turn \in Turns
  /\ remote \in BOOLEAN
  /\ taken \in 0..SequenceMod - 1
  /\ tuned \in BOOLEAN /\ disturbed \in BOOLEAN

TaskInit ==
  /\ Init
  /\ tune = NewTune("Idle", config.cells)
  /\ queue = <<>>
  /\ enabled = FALSE
  /\ ticks = 0
  /\ turn = "commands"
  /\ remote = FALSE
  /\ taken = 0
  /\ tuned = FALSE
  /\ disturbed = FALSE

Tuning == IsRunning(tune)

-----------------------------------------------------------------------------
(* Commands. *)

\* Mutant of Drained: the bridge is left as it is.
DrainedEnabled ==
  /\ tune' = IF Tuning THEN Ended(tune, "Idle") ELSE tune
  /\ queue' = <<>>
  /\ UNCHANGED enabled

\* What abort_tuning does to the tune and the bridge: requests that wait are
\* dropped, the resynchronisation among them.
Drained ==
  /\ tune' = IF Tuning THEN Ended(tune, "Idle") ELSE tune
  /\ queue' = <<>>
  /\ enabled' = FALSE

\* disable and autotune stop, of a user or a host.
Abort ==
  /\ turn = "commands"
  /\ Disable
  /\ Drained
  /\ UNCHANGED <<ticks, turn, remote, taken, tuned, disturbed>>

\* The owner releases the lease, or the head of the loop finds it expired.
LeaseEnds ==
  /\ turn = "commands" /\ remote
  /\ remote' = FALSE
  /\ Disable
  /\ Drained
  /\ UNCHANGED <<ticks, turn, taken, tuned, disturbed>>

CanClaim == state = "Idle" /\ ~enabled /\ ~Tuning

Claim ==
  /\ turn = "commands" /\ ~remote
  /\ CanClaim
  /\ remote' = TRUE
  /\ UNCHANGED <<vars, tune, queue, enabled, ticks, turn, taken, tuned, disturbed>>

\* autotune start, of a host or a user: a new tune with an empty queue.
AutoTuneStart ==
  /\ turn = "commands"
  /\ CanClaim
  /\ tune' = NewTune("Init", config.cells)
  /\ queue' = <<>>
  /\ disturbed' = ~StorageSafe
  /\ UNCHANGED <<vars, enabled, ticks, turn, remote, taken, tuned>>

\* With a lease, only its owner commands, and the tune refuses it; without
\* one only local commands come, and nothing refuses them.
Accepting == remote => ~Tuning

\* The commands handed to handle_command.
UserEnable(mode) ==
  /\ turn = "commands" /\ Accepting
  /\ Enable(mode)
  /\ tuned' = FALSE
  /\ disturbed' = (disturbed \/ Tuning)
  /\ UNCHANGED <<tune, queue, enabled, ticks, turn, remote, taken>>

UserChange ==
  /\ turn = "commands" /\ Accepting
  /\ \/ ClearFault
     \/ \E n \in CellCounts : SetCellCount(n)
     \/ \E t \in Tunings : SetTuning(t)
  /\ disturbed' = (disturbed \/ Tuning)
  /\ UNCHANGED <<tune, queue, enabled, ticks, turn, remote, taken, tuned>>

\* param set and defaults, load and factory-reset, save: each needs a safe
\* controller and a bridge that is off; all but the first two use the flash.
ParameterRequest ==
  /\ turn = "commands" /\ Accepting
  /\ StorageSafe /\ ~enabled
  /\ \/ \E c \in [cells : CellCounts, tuning : Tunings] : ApplyLiveProfile(c) \/ ReloadProfile(c)
     \/ Resynchronize
  /\ disturbed' = (disturbed \/ Tuning)
  /\ UNCHANGED <<tune, queue, enabled, ticks, turn, remote, taken, tuned>>

\* No frame for 100 microseconds.
NoFrame ==
  /\ turn = "commands" /\ MissedFrames # {0}
  /\ AdcTimeout
  /\ Drained
  /\ UNCHANGED <<ticks, turn, remote, taken, tuned, disturbed>>

-----------------------------------------------------------------------------
(* Frames. *)

\* The frames that may come: the interrupt numbers them one by one, and one
\* that overwrote another is flagged.
Arriving ==
  {f \in NewFrames : \E m \in MissedFrames :
     f.sequence = (taken + 1 + m) % SequenceMod /\ (f.overrun => m > 0)}

\* A frame for the controller: the output decides about the bridge.
ControllerFrame(f) ==
  /\ \E valid \in BOOLEAN, stalled \in Stalls : Step(f, valid, stalled)
  /\ enabled' = output'

\* A frame while the tune runs; every TickDivider-th one ends in a slow tick.
TuneFrame ==
  /\ turn = "commands" /\ Tuning
  /\ \E f \in Arriving :
       LET o == FastStep(tune, f)
           action == FastAction(o.tune)
       IN /\ tune' = o.tune
          /\ queue' = Queued(queue, o.requests)
          /\ taken' = f.sequence
          /\ \/ action = "Delegate" /\ ControllerFrame(f)
             \/ action # "Delegate" /\ enabled' = (action = "Inject") /\ UNCHANGED vars
  /\ ticks' = (ticks + 1) % TickDivider
  /\ turn' = IF ticks' = 0 THEN "tick" ELSE "commands"
  /\ UNCHANGED <<remote, tuned, disturbed>>

Tick ==
  /\ turn = "tick"
  /\ IF Tuning
       THEN \E o \in TaskTick(tune, state) :
              tune' = o.tune /\ queue' = Queued(queue, o.requests)
       ELSE UNCHANGED <<tune, queue>>
  /\ turn' = "apply"
  /\ UNCHANGED <<vars, enabled, ticks, remote, taken, tuned, disturbed>>

\* apply_autotune_request: a refused request leaves a warning only.
Attempt(possible, action) == IF possible THEN action ELSE UNCHANGED vars

TuneEnable(mode) == Attempt(CanEnable(mode), Enable(mode)) /\ tuned' = (tuned \/ CanEnable(mode))

ApplyRequest(request) ==
  \/ request = "DisableAndResync" /\ DisableAndResync /\ UNCHANGED tuned
  \/ request = "EnableCurrent" /\ TuneEnable("Current")
  \/ request = "EnableOpenLoop" /\ TuneEnable("OpenLoop")
  \/ request \in {"SetIq", "SetOpenLoop"} /\ UNCHANGED <<vars, tuned>>
  \/ /\ request = "ApplyMotorParam"
     /\ Attempt(StorageSafe, ApplyMotorParam(Gains(tune)))
     /\ UNCHANGED tuned

\* The requests of the tick, or those an ended tune left, before the frame.
PopRequest ==
  /\ queue # <<>>
  /\ turn = "apply" \/ (turn \in {"commands", "drain"} /\ ~Tuning)
  /\ ApplyRequest(Head(queue))
  /\ queue' = Tail(queue)
  /\ turn' = IF turn = "apply" THEN "apply" ELSE "drain"
  /\ UNCHANGED <<tune, enabled, ticks, remote, taken, disturbed>>

\* save_autotune_parameters and notify_saved: both records, or a failure.
SaveTune ==
  /\ turn = "apply" /\ queue = <<>> /\ tune.state = "Save"
  /\ LET safe == StorageSafe /\ ~enabled
     IN /\ \E saved \in IF safe THEN BOOLEAN ELSE {FALSE} :
             /\ tune' = Ended(tune, IF saved THEN "Done" ELSE "Error")
             /\ queue' = Queued(queue, <<"DisableAndResync">>)
        /\ IF safe THEN Resynchronize ELSE UNCHANGED vars
  /\ turn' = "commands"
  /\ UNCHANGED <<enabled, ticks, remote, taken, tuned, disturbed>>

\* Mutant of EndTick: one request per tick.
EndTickEarly ==
  /\ turn = "apply" /\ tune.state # "Save"
  /\ turn' = "commands"
  /\ UNCHANGED <<vars, tune, queue, enabled, ticks, remote, taken, tuned, disturbed>>

EndTick ==
  /\ turn = "apply" /\ queue = <<>> /\ tune.state # "Save"
  /\ turn' = "commands"
  /\ UNCHANGED <<vars, tune, queue, enabled, ticks, remote, taken, tuned, disturbed>>

\* A frame while no tune runs.
NormalFrame ==
  /\ turn \in {"commands", "drain"} /\ ~Tuning /\ queue = <<>>
  /\ \E f \in Arriving : ControllerFrame(f) /\ taken' = f.sequence
  /\ turn' = "commands"
  /\ UNCHANGED <<tune, queue, ticks, remote, tuned, disturbed>>

-----------------------------------------------------------------------------
Commands ==
  \/ Abort \/ LeaseEnds \/ Claim \/ AutoTuneStart
  \/ \E mode \in Modes : UserEnable(mode)
  \/ UserChange \/ ParameterRequest

\* One step of the part of the loop behind the commands.
Loop == TuneFrame \/ Tick \/ PopRequest \/ SaveTune \/ EndTick \/ NormalFrame

TaskNext == Commands \/ NoFrame \/ Loop

TaskSpec == TaskInit /\ [][TaskNext]_allVars

\* The timer triggers conversions for as long as the board is powered, and the
\* task handles a bounded number of commands per turn: the loop goes on.
FairTask == TaskSpec /\ WF_allVars(Loop)

-----------------------------------------------------------------------------
(* Properties. *)

\* The queue of the tune never comes near its capacity, where push_request
\* drops requests: at most three wait at once (autotune/mod.rs:565).
QueueHasRoom == Len(queue) <= 3

\* Whoever drives the bridge, tune or controller, it is off once a fault is
\* latched, in every step of the loop.
FaultedBridgeIsOff == faults # {} => ~enabled

\* A mode the tune enabled ends with the tune: when the requests it left are
\* applied, the motor only turns because a user asked for it.
TuneModeEnds ==
  turn = "commands" /\ ~Tuning /\ queue = <<>> /\ Running => ~tuned

\* A tune that started from a safe controller, and that no local user
\* disturbed, stores the gains it verified as control profile too.
UndisturbedRecordsMatch ==
  [][tune.state = "Save" /\ tune'.state = "Done" /\ ~disturbed
       => config.tuning = Gains(tune)]_allVars

\* An undisturbed tune that is about to save has left the controller in a state
\* that allows it, calibrated, idle and without a fault, with the bridge off; only
\* the current of the controller's last frame, which may be as old as the flux
\* measurement, can still refuse the save.
SavedTuneIsStorable ==
  /\ turn = "apply" /\ queue = <<>> /\ tune.state = "Save"
  /\ last.current = "low" /\ ~disturbed
  => StorageSafe /\ ~enabled

\* Every tune ends while frames keep coming, whatever commands arrive.
TuneEnds == Tuning ~> ~Tuning

-----------------------------------------------------------------------------
(* What the documents say and the code does not keep. *)

\* software-design.md 16: AutoTuneStop returns to Idle in every state.  If no
\* frame is missed, nothing may turn that into a control overrun.
OverrunIsReal == "CONTROL_OVERRUN" \notin faults
=============================================================================
