# Verification of the FOC motor controller

TLA+ modules, TLC configurations and TLAPS proofs for the control path of the
STM32G473 motor controller in `src/software`: the controller that decides when
the bridge may switch, the loop that runs it and the auto-tune side by side, the
parameters and the flash store that keeps them, the tasks and channels that bring
commands to the loop, the protocol that decides who may command it, and the host
session at the other end. Paths below are relative to `src/software/`.

## 1. The system

| Part | Code | State it keeps | Operations |
|---|---|---|---|
| Controller | `firmware/src/control/foc_core.rs` | motor state, latched faults, offsets, debounce counters, thermal model, configuration in force | `handle_command`, `step`, `apply_live_profile`, `apply_motor_param`, `resynchronize_control_input` |
| ADC interrupt, PWM bridge | `firmware/src/bsp/stm32.rs` | one-frame signal, frame number, master output enable | `ADC1_2`, `wait_for_adc_frame`, `pause/resume_control_sampling` |
| Motor control task | `firmware/src/main.rs` | owns controller, tune, endpoint, working parameters, bridge | one loop turn: expire lease, one wire request, four commands, four parameter requests, one frame |
| Auto-tune | `firmware/src/autotune/mod.rs` | procedure state, request queue, save request | `start`, `abort_and_drain`, `fast_step`, `task_tick` |
| Lease and endpoint | `foc-wire/src/lib.rs`, `firmware/src/comm/wire.rs` | owner, expiry, sequence, retired sessions, one remembered reply | `claim`, `authorize`, `heartbeat`, `release`, `expire`, `replay`, `remember` |
| Parameter store | `firmware/src/params/parameter_store.rs` | two flash pages | `load_latest`, `save`, `force_save` |
| Parameter service | `firmware/src/params/parameter_service.rs`, `comm/request.rs` | working and stored profile, dirty flag, generation, replay cache | get, status, set, save, load, defaults, factory reset |
| Channels and communication tasks | `firmware/src/comm/{broker,tasks,uart,can}.rs` | six bounded channels, the line buffer and the frame decoder of the UART task | `uart_task`, `can_receive_task`, `can_telemetry_task` |
| Host session | `host-app/crates/device-foc/src/session.rs` | queues of calls and stops, control, session and request numbers, heartbeat | connect, `exchange`, `command`, `validate`, `run` |
| ESP32 bridge | `esp32-pc-bridge/main` | outgoing queue, receivers, pairing | `run_pc`, `run_motor` |
| Simulators, desktop UI | `foc-sim`, `host-app/src`, `src-tauri` | – | test equipment and pure I/O |

Interaction. The interrupt signals a frame every PWM period; the control task
waits for it at the end of each loop turn, at most 100 us. Host requests reach
the task through the bridge, the UART task and a one-entry channel; local
commands through a 16-entry channel. The task calls the controller and the tune
as plain functions, so inside the firmware the interleavings are those of loop
turns with interrupts; across the link, requests are lost, delayed, duplicated
and reordered. Flash writes stop the loop for many milliseconds, and power may
fail in the middle of them.

What makes each part correct, and where it is hard:

* Controller: faults stay latched until a safe clear, nothing runs on
  unmeasured offsets, the configuration under a running loop does not change,
  debounce counters count what they claim although modes are left and entered
  again between two samples. Hard: many counters with different reset points, a
  sequence check that runs in every state, guards that read old telemetry.
* Remote control: one owner, a silent owner is dropped and the motor stops with
  it, a request acts at most once and only while its permit is fresh. Hard: one
  replay entry for all sessions, wrapping numbers, buffered requests, restarts,
  an expiry that is only checked at the head of a loop flash writes may hold.
* Parameter store: a record changes atomically. Hard: power loss inside every
  flash operation, silent write errors, a wrapping generation.
* Parameter service: the status tells the truth about flash and controller, a
  restart brings back what ran, a retried transaction acts once. Hard: three ways
  change the configuration (requests, older commands, the tune), two records hold
  overlapping fields, saves fail half way or with an unknown outcome, and the cache
  has one entry.
* Channels: a question gets its answer and no other, a stop waits a bounded
  time, a frame is found behind any text. Hard: three tasks share bounded channels
  of which some wait and some drop, and text and frames share one line.
* Host session: the motor runs only under a session that counts itself in
  control, and stops when the interface falls silent. Hard: one exchange at a
  time, late answers, stops that must overtake calls, a chain of watchdogs.
* Auto-tune and control task: a latched fault opens the bridge whoever drives it,
  every tune ends, a mode of the tune ends with it, and what is stored is what was
  verified. Hard: the tune and the users command one controller through a queue
  and through calls, refused requests go unnoticed, an abort drops requests, and
  guards judge telemetry of the last frame the controller saw, not the last frame.

## 2. Modules

| Module | Models | Kind |
|---|---|---|
| `FocController` | the controller, one action per command and one per frame | detailed |
| `FocHistory` | `FocController` plus a record of what the sensors really delivered | history |
| `FocControllerProofs` | theorems about `FocController` | proofs |
| `FocHistoryProofs` | theorems about `FocHistory` | proofs |
| `AutoTune` | the auto-tune as functions on a record: fast path, slow path, requests | operators |
| `MotorTask` | the loop of `motor_control_task` around `FocController` and `AutoTune` | detailed, composition |
| `MotorTaskProofs` | theorems about `MotorTask`, refinement of `FocController` | proofs |
| `Lease` | the lease as functions on a record | operators |
| `RemoteControl` | endpoint, control loop, hosts and link around `Lease` | detailed |
| `MotorOwnership` | what the lease promises | abstract |
| `RemoteControlProofs` | theorems about `RemoteControl`, refinement of `MotorOwnership` | proofs |
| `ParameterStore` | the dual-slot save, step by step | detailed |
| `AtomicRecord` | what the store promises | abstract |
| `ParameterStoreProofs` | theorems about `ParameterStore`, refinement of `AtomicRecord` | proofs |
| `ParameterService` | parameter requests, working profile, status, CAN transactions, boot | detailed, over `AtomicRecord` |
| `ParameterServiceProofs` | theorems about `ParameterService` | proofs |
| `CommandLine` | what a line of text asks for | operators |
| `Channels` | UART task, CAN tasks, the bounded channels, the turns of the control task | detailed |
| `ChannelsProofs` | theorems about `Channels` | proofs |
| `HostSession` | the session of the host application against a device and a lossy link | detailed, composition |
| `HostSessionProofs` | theorems about `HostSession` | proofs |
| `MCFocController`, `MCFocHistory`, `MCMotorTask`, `MCRemoteControl`, `MCParameterStore`, `MCParameterService`, `MCChannels`, `MCHostSession` | instances for TLC | model checking |

### FocController

`state` is `MotorState` with `Running(mode)` written as the mode, `faults` the
flag set, `counts` the five counters of the struct, `previous` the
`previous_sequence`, `last` those fields of `last_telemetry` a later guard reads,
`output` the `bridge_enabled` of the last step. A frame carries a class of phase
current (below 1 A, above it, above the trip threshold), the residual condition,
the bus voltage in quarters of a volt, an NTC level, its number and the overrun
flag. Any number may come next: the interrupt counts one by one, but the task may
miss frames, pause the sampling or hand frames to the auto-tune. `MotorTask` says
which numbers really come.

`Step` is `step()` with everything it calls: sequence check, calibration or
protections in their order with their early returns, speed divider and stall
detection. Before the offsets are
known `MeasuredCurrent` is "over", because the code subtracts zero from a
mid-scale reading (2048 counts, 66 A). The junction temperature is a level; a
frame moves it by at most one towards the level the measured current heats to,
because the time constant is many frames. Integers stand for the f32 limits; the
PID and SVPWM outputs are not modelled, no guard reads them. The debounce limits
are constants of the module, although a profile may change some of them while
the controller is idle.

### AutoTune and MotorTask

`AutoTune` translates `AutoTuneController` as functions from a record to the
outcomes a call may have: `FastStep` and `FastAction` for `fast_step`, `TaskTick`
for `task_tick`, each outcome with the requests it queues. The phases of
`CurrentPiVerify` are states of their own. Measurements wait, succeed or fail by
choice. `Gains` numbers the PI gains by the attempt, so that "the gains that were
verified" can be compared with the configuration in force.

`MotorTask` is one turn of the loop. `turn` says where in it the task is: in
`"commands"` the commands of users and hosts, a frame timeout or a frame may come;
the steps behind a frame (`"tick"`, `"apply"`, `"drain"`) follow one another as in
the code, with nothing between them. `Drained` is `abort_tuning`, `PopRequest`
applies one queued request, `SaveTune` is `save_autotune_parameters` with
`notify_saved`. `enabled` is the master output enable of the bridge. `Arriving`
are the frames the interrupt may deliver: numbered behind the last one taken, with
`MissedFrames` between, and an overrun flag only if one was missed. The lease is
whether somebody holds it; the restrictions it puts on local commands and on
commands during a tune are `Accepting`. `tuned` and `disturbed` are history.

The tune's sensor and current thresholds agree with the controller's as far as the
classes tell; the 1 A of `prepare_current` is the 1 A of `storage_safe`.

### Lease and RemoteControl

`Lease` is a translation of the `Lease` struct, with the 32-bit sequence and
permit as moduli. In `RemoteControl` a request stays in `net` for ever: handling
it again is duplication, never handling it is loss, and the set has no order.
`Handle` is one request through the wire branch of `motor_control_task` in the
order of the code: replay, authorisation, busy check, effect, reply, remember. The
reply may be lost. `motor` is the controller in five states, each command leading
where `FocController` allows or being refused. `SaveTimes` are the milliseconds a
flash write keeps the loop from its head. Three assumptions are made. The loop
runs many times per millisecond, so a request is handled at most one tick after
the expiry check (`HeadPassed`). A reply needs longer on the wire than the loop
needs to come round, so no host sends in reaction to a reply before the loop has
expired an old lease (the guard of `Send`). A host numbers its requests upwards
and keeps one session number, as `session.rs` does.

`executed`, `repeated` and `buffered` are history variables.

### ParameterStore

A page is the number of double words written, the marker, the generation, the
profile, and `sound`: no double word differs from the record. One action per
flash operation of `save_inner`; each may succeed, silently write wrong, report
an error with or without effect, or be cut short by `Crash`. The CRC is assumed
to detect a wrong double word. The non-maskable ECC interrupt a torn double word
may raise on real hardware is outside `src/software` and not modelled.

### ParameterService

`parameters` is `ParameterState`, `config` the configuration of the controller,
`flash` and `commissioned` the profile and the motor record a boot would load.
The roughly thirty fields of a profile are four, one of each role: a gain (of
which some are outside the ranges of `validate`), two currents of which one may
not exceed the other (`stall_min_iq` and `current_limit`), and the pole pairs,
which need a restart. `Process` is `process_parameter_request` with one operator
for each arm. Whether the controller is `storage_safe` is the matter of
`FocController`; here a request that changes something is carried out or
answered Busy (`Refuse`). A save is one step that stores its profile or not, and
may be reported as failed in either case: that is what `AtomicRecord` promises
and `ParameterStore` implements.

`ServeDirectly` are requests over the UART and of the owner, `ServeCan` those
over CAN with lookup, conflict and `Remember`. A CAN host asks one thing at a
time and repeats it as often as it likes (`asked`); copies that arrive after it
has turned to the next one are not modelled, and `docs/software-design.md` 17.2
does not promise anything for them with one entry. `LegacyCommand` stands for the
commands that are synchronised into the working profile with `from_config`, and
goes past `validate` as the code does. `Boot` applies the motor record first and
the profile last, and may fail to read either. `asked`, `executions` and `answers`
belong to the host, `inDoubt` and `retuned` say when the status cannot know
better: a save whose outcome was not confirmed, a boot that could not read, a
tune that applied its gains and was not saved.

### CommandLine and Channels

`CommandLine` is `parse_uart_request` on a line as the sequence of its words, with
the order in which errors are found; `Parse` says which arm of `uart_task` takes
it. `Channels` has the byte loop of `uart_task` with its held-back `F`, its line
buffer and its discarding of long lines (`Text`), the decoder as a switch, and the
places where the task waits. The far end of the line sends frames in one piece,
as `session.rs` and the bridge do; bytes are lost by line errors and because the task
does not read while it waits (`LoseByte`). A frame that meets a decoder with other
bytes in it may be found or lost.

The executor is cooperative, and a turn of the control task does not await
before its frame: no other task takes a step between `ControlFrame` and `EndTurn`
(`Waiting` in their guards). The channels hold ages instead of contents; the
messages of the parameter channels carry which question they are. `TrySend`
drops, `UartCommand` and its like wait.

Fairness: `WF` of the control task, whose turn a frame or a timer of 100 us
starts; `SF` of the UART task outside its reading, because a woken task is polled
before the next turn and the CAN bus (500 kbit/s, less than one frame in 100 us)
cannot fill the places a turn has freed before that. Nothing is assumed of the CAN
bus: the transmitter may be blocked for ever.

### HostSession

`run()` of `session.rs`, one action for each arm of its `select`, and one for each
end of an exchange (`Finish`); `at` says which exchange is under way. Time passes
in steps of 100 ms (`Pass`) of which an exchange takes up to two, as its timeout is
220 ms. `Touch` and `Command` are the user interface, `touched` its last sign of
life. A call carries whether a stop was made behind it. `validate` is `Permitted`
for control and a choice for everything that depends on the telemetry. The device is
its lease and whether the motor runs; it confirms what the lease allows and may
refuse anything (`Deliver`). After a restart its boot number makes every answer
useless to this session, which is all the model keeps of boot numbers here.
"autotune stop" counts as `disable`. Request numbers are a small symmetric set of
which only those are used again that no message carries.

`DeadTime` is the bound `SilenceStopsTheMotor` checks, with `RequestDelay` below
the timeout: 500 ms of silence, one request on its way, two lease times.

## 3. Runs

| Run | Bounds | Shows |
|---|---|---|
| `foc_core` | debounce limits 2, divider 2, three kinds of reading, frame numbers modulo 2 | type correctness, latching, protection of the bridge, and the debounce counters and trips against the record of real samples |
| `foc_bus` | three bus voltages, two cell counts, two tunings | configuration changes against running modes |
| `motor_task` | states of the tune last 3 ticks, one retry, a tick every second frame, one frame may be missed, two tunings | the bridge under tune and controller, the request queue, the end of a tune's modes, what a tune stores and whether it may |
| `task_live` | every frame ends in a tick, idle phases, fairness | every tune and every calibration ends |
| `tune_stop` | as `motor_task`, idle phases, no frame missed | violated: an overrun needs a missed frame |
| `remote_ownership` | two sessions, two requests each, 2 ms, one retired slot, sequence wraps after the first request | refinement of `MotorOwnership`, at most one execution, a slot for every retirement |
| `remote_time` | one session, three requests, 3 ms, one restart, writes as long as a lease | freshness, dead man, no buffered reclaim |
| `parameter_store` | three profiles, one of them invalid, generations modulo a small number so that they wrap | refinement of `AtomicRecord`, adjacent generations |
| `parameter_status` | three gains of which one is outside its range, two currents, two pole pairs, generations modulo 2, one request of each kind | the flags of the status against flash and controller, and what a restart brings back |
| `parameter_retry` | two transaction numbers, three requests over CAN, two over the UART | one execution and one answer for a retried transaction |
| `channels` | queues of three (16), batch of two (4), one place for answers over CAN, lines of one byte, frames of four | answers and questions, prompt messages, frames behind text, and the UART task gets back to reading |
| `host_session` | two claims, one waiting call, timeout 2, silence 2, closing 5, lease 3 (in 100 ms), requests one and answers two units late | control and the running motor, the chain of watchdogs, stops against calls, late answers |

Why the bounds are enough. A debounce limit of 2 distinguishes a counter that is
reset, kept or saturated; a divider of 2 has a tick and a frame without one. Any
gap in the frame numbers is as good as the gap of one frame, because the check is
an equality. In `motor_task` three ticks are the fewest in which
`CurrentPiVerify`, whose four phases share one clock, can be passed; with two the
runs would never reach `Save`. One retry makes two sets of gains, of which the
configuration may hold either. In `remote_ownership` two requests
per session are a claim and the command it protects, with the other session's
request between the command and its duplicate; the sequence starts at the last
number so that the wrap lies between them. In `remote_time` three requests and
a lease of 2 ms allow a claim to be issued inside a lease and delivered after it;
the permit is as long as the lease, which is harder than the code's 250 ms of
500 ms. The store returns to a state it has been in after every wrap of the
generation. In `parameter_status` the three roles of a field (live, related, startup)
and the three ways to change the configuration meet in every order; the state
space is complete, no counter bounds it. In `parameter_retry` two
transaction numbers are a retry and the one that overwrites the entry. In
`channels` a queue longer than a batch makes a message wait a second turn, a frame
of four bytes has a first, an opening, a body and a last byte, and a line of one
byte overflows with the second. In `host_session` a claim whose answer is lost, the
next claim and late answers of the first fit into two claims. The times are scaled
down (the code has a timeout of 2.2, a silence of 5, a closing of 15 and a lease of 5
units); what is kept is their order, except that the lease outlives the silence,
which is the harder case for the dead man's switch.

`CHECK_DEADLOCK FALSE` appears in the remote runs only: their clock and request
bounds stop the system. No other module ever stops.

Fairness. `FairTask` of `MotorTask` is weak fairness of `Loop`, the part of a turn
behind the commands: the timer triggers conversions for as long as the board is
powered, a turn handles at most one wire request, four commands and four
parameter requests, and the rest of a turn does not wait. No command is assumed to
come, and none is assumed to stay away. The fairness of `Channels` is given with the
module; the other specifications state none.

## 4. What the runs found

Stopping a tune drops the `DisableAndResync` it queues, so the controller
compares the next frame with one from before the tune and latches
`CONTROL_OVERRUN`; the design document promises `Idle`. The run `tune_stop` shows it.

Modelling met further places where documents, comments and code differ. No
run is kept for them; the models contain the behaviour, and the properties are
stated around it.

* A frame gap or an overrun during calibration makes `step()` run the protections
  with zero offsets (`foc_core.rs:424`), where an idle phase reads 66 A: over-current and
  residual are latched, the thermal model is heated, and `ClearFault` may be refused
  until frames stop. `TripsAreReal` bounds this: it ends with the first quiet
  frame whose offsets are known.
* The save at the end of a tune judges the current of the last frame the
  controller saw (`main.rs:320`). Between `FluxMeasure`, where the motor is driven,
  and `Save` the controller sees none, so the save of a motor that has stopped may be
  refused. `SavedTuneIsStorable` says that this current is the only thing that can.
* `ApplyMotorParam` may be refused (that current, or a local command during the
  tune) with a warning only; the tune then stores the new motor record beside a
  profile with the old gains (`main.rs:303`). From a safe, undisturbed start the two
  match (`UndisturbedRecordsMatch`), and after a power cycle the profile wins
  (`CleanBootChangesNothing`).
* The older PID commands accept gains that `validate` rejects (`foc_core.rs:821`
  against `parameters.rs:857`). The working profile can then not be saved, and no other
  field of it can be set, until defaults or a load.
* Busy answers of remote mode do not enter the transaction cache (`main.rs:655`), so a
  retried transaction may be answered Busy first and carried out later, where
  `docs/software-design.md:763` speaks of the cached result. `TransactionsActOnce`
  says what holds.
* The comment at `tasks.rs:71` says that framed traffic never falls back into ASCII
  execution. Behind a line that is too long and has not ended, and after the loss of
  a frame's first bytes, the bytes of a frame are read as text; the property
  `FramesAreDelivered` names the first exception.
* The sensor counter survives disable and enable, so the 2 ms of the design
  document may be shorter, and a stall trips inside `run_speed_loop` with the new duty
  stored behind it, against the order the document gives for `trip()`; the bridge
  itself is disabled.

## 5. Proofs

TLAPS proves the following for all values of the constants that satisfy the
named assumptions (`ConstantsAssumption`, `TuneAssumption`, `TaskAssumption`, `LeaseAssumption`, `RemoteAssumption`,
`StoreAssumption`, `ServiceAssumption`, `NoneAssumption`, `RequestAssumption`, `ChannelAssumption`,
`SessionAssumption`). One theorem has a further hypothesis, `ManyNumbers`, given below.

* `FocControllerProofs`: the invariant `IInv` is inductive. Besides the checked
  invariants it says that a calibration under way has no frame counted as
  finished (`CalibratingIsFresh`), that a counter of stalled ticks at its limit
  only occurs in Fault or after a stay has ended (`StallIsLatched`), and that an
  enabled output implies the counters of that frame were below their limits
  (`OutputIsProtected`). `BridgeIsProtected` is not inductive without the last
  two, since a command may follow the frame. The action properties
  `RunningIsUndisturbed` and `FaultsLatched` follow from
  `IInv` by cases on the action.
* `FocHistoryProofs`: `HInv` compares each debounce counter with the samples the
  sensors delivered. A counter may be ahead of the history of this stay (a
  counter of lost samples survives a stop) but never behind it (`OverIsCounted`,
  `LostIsCounted`), which is completeness; the counters of stalled ticks and of
  calibration frames may be behind but never ahead (`StallIsCounted`,
  `QuietIsCounted`), which is that a trip is real. `SettledIsExact` gives both for the
  over-current counter once a quiet frame with known offsets has come.
  `DetectionIsComplete`, `CalibrationIsContiguous` and `TripsAreReal` follow.
* `MotorTaskProofs`: every step of the loop is a step of `FocController` or leaves
  it alone (`TaskImplementsController`), so the theorems above hold of the composed
  system (`TaskKeepsConfiguration` names two). `FaultedBridgeIsOff` is not
  inductive: while the tune injects, the bridge is on and nobody asks the
  controller. The strengthening `EarlyTuneIsFaultFree` says that no fault can be
  latched before the tune first delegates a frame, since it starts from `Idle`, a
  frame timeout aborts it and no frame reaches the controller. `QueueHasRoom`
  needs to know where in a turn the queue is empty (`QueueFits`). The lemmas
  `FastStepType` and `TaskTickType` bound what the tune's functions return.
  A second invariant, `TuneInv`, follows a tune from start to end. `TuneModeEnds`
  speaks of the empty queue only; `EndedTuneDisables` says what the queue ends with
  before that. `SavedTuneIsStorable` and `UndisturbedRecordsMatch` hold because of
  what the tune found at its start, many states earlier: it leaves the controller
  as it was up to its gains (`ReadyForGains`), has them in force behind that
  (`GainsAreApplied`) and at rest behind the flux measurement (`RestsToTheEnd`). In
  the states in which the controller steps under the tune, the slow tick judges
  the frame the controller has just seen (`FrameIsFresh`), with the same limits
  (`CellsAgree`).
* `RemoteControlProofs`: `IInv` is type correctness and `LeaseSound`: the retired
  list is finite and leaves a slot for the owner. It gives `RetirementHasRoom` and
  the step simulation that shows `ImplementsOwnership`, and with it
  `Ownership!DeadMan`: a motor that was ever claimed turns only while it is
  owned. `TimeInv` adds the requests in flight. `PermitsAreTrue` says that a permit
  of this boot is the uptime of its issue, modulo the width, so the wrapped
  comparison of `authorize` is a comparison of times; `PermitsPrecedeExpiry` that
  none was issued past the end of the owner's lease. Hence a session that is
  retired until the end of its lease plus the life of a permit stays retired
  longer than any claim it had under way is fresh (`BufferedAreBarred`), which is
  `NoBufferedReclaim`; `FreshExecution` and `SilentOwnerIsDropped` come from the same
  invariant. For `AtMostOnce`, `OnceInv` says of everything that was carried out that it
  is barred for good (another boot, a stale permit, a retired session) or that its
  session owns the motor and the lease has gone past its number
  (`ExecutedAreSpent`); the remembered reply is not needed for it. This compares
  numbers as positions in a session, hence the hypothesis `ManyNumbers`: a session
  sends at most half as many requests as there are sequence numbers, because the
  lease takes a number as new that is less than half of them ahead. With 32 bits and
  one request at a time over the link, that is 2^31 exchanges in one session, eight
  months without a pause at a hundred a second. The runs satisfy it in
  `remote_ownership` (two requests, four numbers).
* `ParameterServiceProofs`: `IInv` says, besides types, that the status is honest
  towards what it believes stored, that this is what the flash holds unless in doubt,
  that the configuration is the working profile applied to the configuration at boot
  unless a tune changed it, and that the cache holds the answer to what was executed.
  `StatusIsTrue`, `CleanBootChangesNothing` and `TransactionsActOnce` follow. The
  proof has a lemma for each operation of `ParameterState` and one for each request.
* `ChannelsProofs`: `AnswersMatchQuestions` is nearly inductive by itself;
  `Asking` adds what the UART task is about to ask. `MessagesArePrompt` needs
  the positions: a message that has waited k turns has at most the capacity less k
  batches before it (`CommandAges`, `RequestAges`), for every capacity and
  batch. `FramesAreDelivered` is about the last byte of a frame; `FrameIsFound` says
  for every byte before it how far the UART task has recognised the frame.
* `HostSessionProofs`: every step of the session ends with one request of it on its
  way or with none (`Acts`), so the invariant is shown once for all of them.
  `SessionInv` says that the one request on its way is that of the exchange under
  way and no answer to it exists yet (`OneRequest`, `AnswerComesAfter`), what a good
  answer says of the device (`ConfirmedIsDone`) and why the session waits for what it
  waits for (`ExchangesAreJustified`). `RunningIsControlled` is inductive with these,
  since a session that goes on gives control up only behind a confirmation that the
  motor stands.
  `SilenceStopsTheMotor` needs `LeaseIsShort`: as long as the motor
  runs, or can still be started, the silence of the interface plus what is left of
  the lease is at most the silence allowed, the delay of a request and a lease time,
  with one lease time more once the session has begun to leave, because the last
  heartbeat may renew the lease.
* `ParameterStoreProofs`: `IInv` relates the save under way to the page it writes
  (the target is never the latest record, its generation follows the latest one,
  a page with a marker is complete). `GenerationsAreAdjacent` and the refinement
  `ImplementsRecord` follow.

Proved only: the type correctness of `RemoteControl`, which no run repeats.

Model-checked only: `TuneEnds` and `CalibrationEnds` of `MotorTask` and `LinesAreAnswered` of
`Channels`, because liveness under fairness is out of the prover's reach. Every
other property of a run that passes is a theorem. No module with a proof uses
recursion or induction over data. `CommandLine` is only evaluated by the runs of
`Channels`.

## 6. Not modelled

* Floating-point arithmetic (PID, transforms, SVPWM, filters, the identification of
  the motor): real-valued computations without a state machine; the modules choose
  among their outcomes.
* The byte layout and CRC of frames and records, the encoding of CAN frames, the
  formatting of answers and telemetry: a frame or a page is intact or not.
* Register programming and Hall edge timing: access to hardware.
* Of the host session: opening the port and the first HELLO, read-only
  calls, recording and CSV, the translation of telemetry. They change neither the
  lease nor the motor.
* The inside of the ESP32 bridge (its queues and pairing): to both ends a link
  that delays, loses and duplicates.
* Simulators and the user interface: test equipment and pure I/O.

## 7. Plan

1. Done: controller, auto-tune, request queue and bridge switch in one loop
   (`MotorTask`); parameters (`ParameterService`); communication tasks (`Channels`); host
   session (`HostSession`).
2. Done: every safety property of the passing runs proved for all values of the constants.
   Next: what a line of `CommandLine` is accepted as, a measure that every tick of
   `AutoTune` decreases (the safety half of `TuneEnds`), and `HostSession` as an
   implementation of an abstract watchdog.
3. The bridge as a module between `HostSession` and `RemoteControl`, if a property of
   its queue beyond loss and delay turns out to matter.
