------------------------------ MODULE AutoTune ------------------------------
(***************************************************************************)
(* The commissioning procedure of firmware/src/autotune/mod.rs as          *)
(* functions on a record.  What an identification computes is left out;    *)
(* that it may wait, succeed or fail is kept.  The phases of               *)
(* CurrentPiVerify are written as states of their own, and the gains       *)
(* follow from the number of attempts.  Fields a procedure that has ended  *)
(* does not read again are reset when it ends.                             *)
(***************************************************************************)
EXTENDS FocController, Sequences

CONSTANTS
  StateTimeout,  \* slow ticks a state may last (state_timeout)
  MaxRetries     \* max_pi_retries

ASSUME TuneAssumption ==
  /\ StateTimeout \in Nat /\ MaxRetries \in Nat
  /\ 1..MaxRetries + 1 \subseteq Tunings

Terminal == {"Idle", "Done", "Error"}
Injecting == {"RsMeasure", "LMeasure"}
PiPhases == {"WaitRunning", "Baseline", "Step", "RetryWait"}
Delegating == PiPhases \cup {"OpenLoopRun", "FluxMeasure"}
TuneStates ==
  Terminal \cup Injecting \cup Delegating \cup
  {"Init", "CurrentOffset", "RsPrepare", "LPrepare", "CurrentPiCalc", "OpenLoopPrepare",
   "ObserverInit", "ObserverVerify", "PlLConfig", "TransitionVerify", "Save"}

ControlRequests == {"DisableAndResync", "EnableCurrent", "EnableOpenLoop", "SetIq",
                    "SetOpenLoop", "ApplyMotorParam"}
QueueCapacity == 4   \* CONTROL_REQUEST_CAPACITY

Tunes ==
  [state : TuneStates,
   elapsed : 0..StateTimeout,                    \* slow ticks in the state
   attempts : 0..MaxRetries,
   offsets : BOOLEAN,                            \* offsets_valid
   sequence : {None} \cup 0..SequenceMod - 1,    \* last_sequence
   current : CurrentClasses,                     \* last_currents
   cells : CellCounts]                           \* battery_cells of its configuration

IsRunning(t) == t.state \notin Terminal

\* The PI gains an attempt computes: the bandwidth falls with every retry.
Gains(t) == t.attempts + 1

NewTune(state_, cells) ==
  [state |-> state_, elapsed |-> 0, attempts |-> 0, offsets |-> FALSE,
   sequence |-> None, current |-> "low", cells |-> cells]

\* push_request: a request that finds the queue full is dropped.
Queued(queue_, requests) ==
  SubSeq(queue_ \o requests, 1,
         IF Len(queue_ \o requests) < QueueCapacity THEN Len(queue_ \o requests)
                                                    ELSE QueueCapacity)

-----------------------------------------------------------------------------
(* Outcomes: the record a call leaves and the requests it queues. *)

Outcome(t, requests) == [tune |-> t, requests |-> requests]
Enter(t, s) == [t EXCEPT !.state = s, !.elapsed = 0]
Ended(t, s) == NewTune(s, t.cells)

\* Mutant of Fail: the bridge is left to the controller.
FailQuietly(t, requests) == Outcome(Ended(t, "Error"), requests)

Fail(t, requests) == Outcome(Ended(t, "Error"), Append(requests, "DisableAndResync"))

-----------------------------------------------------------------------------
(* The fast path, once per frame f. *)

\* What the bridge does for the frame.
FastAction(t) ==
  CASE t.state \in Injecting -> "Inject"
    [] t.state \in Delegating -> "Delegate"
    [] OTHER -> "Off"

\* The currents of the frame.  They are not computed while the offsets are
\* being measured, and read as 66 A before that.
TuneCurrent(t, f) ==
  CASE t.state = "CurrentOffset" -> "low" [] t.offsets -> f.current [] OTHER -> "over"

\* The frame number is checked unless the controller does it; the currents
\* once the offsets are known, without a debounce.
FastStep(t, f) ==
  LET gap == /\ t.state \notin Delegating /\ t.sequence # None
             /\ f.sequence # (t.sequence + 1) % SequenceMod
      outside == f.bus \notin MinimumBus(t.cells)..MaximumBus(t.cells)
      excess == t.offsets /\ (f.residual \/ f.current = "over")
  IN IF gap \/ outside \/ excess
       THEN Fail(t, <<>>)
       ELSE Outcome([t EXCEPT !.sequence = f.sequence, !.current = TuneCurrent(t, f)], <<>>)

-----------------------------------------------------------------------------
(* The slow path, about once per millisecond.  control is the state of the  *)
(* controller.                                                              *)

\* The states that lead straight to one other state, and what they ask for on
\* the way.
Following ==
  [Init |-> "CurrentOffset", CurrentOffset |-> "RsPrepare", RsPrepare |-> "RsMeasure",
   RsMeasure |-> "LPrepare", LPrepare |-> "LMeasure", LMeasure |-> "CurrentPiCalc",
   CurrentPiCalc |-> "WaitRunning", OpenLoopPrepare |-> "OpenLoopRun",
   OpenLoopRun |-> "FluxMeasure", FluxMeasure |-> "ObserverInit",
   ObserverInit |-> "ObserverVerify", ObserverVerify |-> "PlLConfig",
   PlLConfig |-> "TransitionVerify", TransitionVerify |-> "Save"]

\* Mutant of Asking: the new gains are asked for after the bridge is enabled.
AskingLate(s) ==
  CASE s = "CurrentPiCalc" -> <<"DisableAndResync", "EnableCurrent", "ApplyMotorParam">>
    [] s = "OpenLoopPrepare" -> <<"DisableAndResync", "EnableOpenLoop">>
    [] s = "FluxMeasure" -> <<"DisableAndResync">>
    [] OTHER -> <<>>

\* Mutant of Asking: the motor keeps turning behind the flux measurement.
AskingLoud(s) ==
  CASE s = "CurrentPiCalc" -> <<"ApplyMotorParam", "DisableAndResync", "EnableCurrent">>
    [] s = "OpenLoopPrepare" -> <<"DisableAndResync", "EnableOpenLoop">>
    [] OTHER -> <<>>

Asking(s) ==
  CASE s = "CurrentPiCalc" -> <<"ApplyMotorParam", "DisableAndResync", "EnableCurrent">>
    [] s = "OpenLoopPrepare" -> <<"DisableAndResync", "EnableOpenLoop">>
    [] s = "FluxMeasure" -> <<"DisableAndResync">>
    [] OTHER -> <<>>

Stay(t) == Outcome(t, <<>>)
Advance(t) ==
  Outcome([Enter(t, Following[t.state]) EXCEPT !.offsets = @ \/ t.state = "CurrentOffset"],
          Asking(t.state))

\* States that decide at once, that wait for the current to decay, and that
\* measure.  The preparing states also wait for 20 ms.
Deciding(t) ==
  CASE t.state \in {"Init", "CurrentPiCalc", "ObserverInit", "PlLConfig"} -> {Advance(t)}
    [] t.state \in {"ObserverVerify", "TransitionVerify"} -> {Advance(t), Fail(t, <<>>)}
    [] t.state \in {"RsPrepare", "LPrepare", "OpenLoopPrepare"} ->
         {Stay(t)} \cup {o \in {Advance(t)} : t.current = "low"}
    [] t.state = "CurrentOffset" -> {Stay(t), Advance(t)}
    [] t.state \in Injecting -> {Stay(t), Advance(t), Fail(t, <<>>)}
    [] OTHER -> {Stay(t)}

\* Mutant of Rejected: one attempt more than the limit.
RejectedBeyond(t) ==
  IF t.attempts + 1 > MaxRetries + 1
    THEN Fail(t, <<>>)
    ELSE Outcome([t EXCEPT !.state = "RetryWait", !.attempts = @ + 1], <<"DisableAndResync">>)

\* A step response that does not pass: a slower attempt, if one is left.
Rejected(t) ==
  IF t.attempts + 1 > MaxRetries
    THEN Fail(t, <<>>)
    ELSE Outcome([t EXCEPT !.state = "RetryWait", !.attempts = @ + 1], <<"DisableAndResync">>)

\* CurrentPiVerify.  A phase change does not restart the clock of the state.
\* A lost sensor and the time limit of a phase may fail it.
Verifying(t, control) ==
  IF control = "Fault"
    THEN {Fail(t, <<>>)}
    ELSE {Fail(t, <<>>)} \cup
         CASE t.state = "WaitRunning" ->
                IF control = "Current" THEN {Stay([t EXCEPT !.state = "Baseline"])} ELSE {Stay(t)}
           [] t.state = "Baseline" ->
                {Stay(t), Outcome([t EXCEPT !.state = "Step"], <<"SetIq">>)}
           [] t.state = "Step" ->
                {Stay(t), Rejected(t), Outcome(Enter(t, "OpenLoopPrepare"), <<"SetIq">>)}
           [] t.state = "RetryWait" ->
                {Stay(t)} \cup {o \in {Stay(Enter(t, "CurrentPiCalc"))} :
                                  control = "Idle" /\ t.current = "low"}

\* OpenLoopRun and FluxMeasure act only while the controller runs open loop.
Spinning(t, control) ==
  {Stay(t)} \cup
  {o \in {Advance(t), Fail(t, <<>>)} : control = "OpenLoop"} \cup
  {o \in {Outcome(t, <<"SetOpenLoop">>)} : control = "OpenLoop" /\ t.state = "OpenLoopRun"}

\* Mutant of Limited: the clock starts again instead.
LimitedAgain(o) ==
  IF IsRunning(o.tune) /\ o.tune.elapsed > StateTimeout
    THEN Outcome([o.tune EXCEPT !.elapsed = 0], o.requests) ELSE o

\* Whatever the state did, it must not last longer than the limit.
Limited(o) ==
  IF IsRunning(o.tune) /\ o.tune.elapsed > StateTimeout THEN Fail(o.tune, o.requests) ELSE o

TaskTick(t, control) ==
  LET ticked == [t EXCEPT !.elapsed = @ + 1]
      outcomes == CASE t.state \in PiPhases -> Verifying(ticked, control)
                    [] t.state \in {"OpenLoopRun", "FluxMeasure"} -> Spinning(ticked, control)
                    [] OTHER -> Deciding(ticked)
  IN {Limited(o) : o \in outcomes}
=============================================================================
