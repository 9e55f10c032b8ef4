-------------------------- MODULE ParameterService --------------------------
(***************************************************************************)
(* The parameters of the motor controller: the working profile that        *)
(* requests edit, the record the flash holds, the configuration the        *)
(* controller runs, and the status the firmware reports of them            *)
(* (firmware/src/params/parameter_service.rs and process_parameter_request *)
(* of main.rs), the replay of CAN transactions (comm/request.rs), the      *)
(* older commands and the auto-tune, which change the same configuration   *)
(* past the requests, and restarts.                                        *)
(*                                                                         *)
(* A save of the dual-slot store is one step here: AtomicRecord, which     *)
(* ParameterStore implements, says that it stores its profile at one       *)
(* instant or not at all, and that a save reported as failed may have.     *)
(***************************************************************************)
EXTENDS Integers

CONSTANTS
  Gains,         \* PI gains the controller accepts
  SoundGains,    \* those inside the ranges of a profile
  TunedGains,    \* those an auto-tune may identify
  Limits,        \* currents: the current limit, the stall threshold
  TuneLimit,     \* the current an auto-tune never goes beyond
  Poles,         \* pole pairs, a parameter that needs a restart
  Default,       \* the compiled profile
  GenerationMod, \* generations wrap at this modulus (2^32)
  Transactions,  \* transaction numbers of CAN requests
  LocalRequests, \* what requests over the UART or by an owner ask for
  CanRequests,   \* what requests over CAN ask for
  None           \* no profile, no record, no tune, no request, no value

Profiles == [gain : Gains, iq : Limits, limit : Limits, poles : Poles]

\* ParameterProfileV1::validate: the ranges and the relations of the fields.
\* iq stands for stall_min_iq, which may not exceed current_limit.
Valid(p) == p.gain \in SoundGains /\ p.iq <= p.limit

ASSUME ServiceAssumption ==
  /\ SoundGains \subseteq Gains
  /\ TunedGains \subseteq SoundGains
  /\ Limits \subseteq Nat
  /\ TuneLimit \in Limits
  /\ Default \in Profiles /\ Valid(Default)
  /\ GenerationMod \in Nat \ {0}

ASSUME NoneAssumption ==
  /\ None \notin Profiles
  /\ None \notin Gains \cup Limits \cup Poles
  /\ None \notin [profile : Profiles, generation : 0..GenerationMod - 1]
  /\ None \notin [gain : Gains, limit : Limits]

VARIABLES
  flash,        \* the profile record a boot would load, or None
  commissioned, \* the motor record a boot would load, or None
  parameters,   \* ParameterState of the control task
  config,       \* the configuration the controller runs
  tune,         \* the motor parameters of the auto-tune under way, or None
  remote,       \* a session has claimed the motor since the last restart
  cached,       \* the last CAN request that was answered, and its result
  asked,        \* the CAN request its sender waits on, or None
  executions,   \* times asked was executed since the last restart
  answers,      \* the results it was answered with since then
  inDoubt,      \* a save was not confirmed, or a boot could not read
  retuned       \* an auto-tune has changed config since it was last aligned

history == <<executions, answers>>
client == <<cached, asked, history>>
vars == <<flash, commissioned, parameters, config, tune, remote, client,
          inDoubt, retuned>>

-----------------------------------------------------------------------------
(* Profiles and configurations.                                            *)

Fields == {"gain", "iq", "limit", "poles"}

\* ParameterId::kind: a value of another type never fits.
Kind(f) == CASE f = "gain" -> Gains
             [] f = "poles" -> Poles
             [] OTHER -> Limits

StartupOnly(f) == f = "poles"

\* apply_live leaves the fields alone that need a restart; apply_boot does not.
ApplyLive(c, p) == [p EXCEPT !.poles = c.poles]
ApplyBoot(c, p) == [ApplyLive(c, p) EXCEPT !.poles = p.poles]

\* from_config, with the fields the configuration does not carry.
FromConfig(c, previous) == [c EXCEPT !.poles = previous.poles]

Lesser(a, b) == IF a < b THEN a ELSE b

\* MotorParam: what an auto-tune finds out, seeded from the configuration; its
\* gains are not known before Identify.
MotorParams == [gain : Gains, limit : Limits]
Seed(c, g) == [gain |-> g, limit |-> Lesser(TuneLimit, c.limit)]

\* MotorParam::apply_to_config and FocController::apply_motor_param.  The
\* pole pairs of the record are those it was seeded with.
ApplyMotor(c, m) == [c EXCEPT !.gain = m.gain, !.limit = m.limit]

-----------------------------------------------------------------------------
(* ParameterState.                                                         *)

Generations == 0..GenerationMod - 1
Records == [profile : Profiles, generation : Generations]

States == [working : Profiles, persisted : Profiles \cup {None},
           generation : Generations, dirty : BOOLEAN,
           sourceDefaults : BOOLEAN, bootPoles : Poles]

\* The profile a boot works with when the flash holds the record r.
Stored(r) == IF r = None THEN Default ELSE r.profile

FromBoot(r) ==
  [working |-> Stored(r),
   persisted |-> IF r = None THEN None ELSE r.profile,
   generation |-> IF r = None THEN 0 ELSE r.generation,
   dirty |-> FALSE,
   sourceDefaults |-> r = None,
   bootPoles |-> Stored(r).poles]

RefreshDirty(s) ==
  [s EXCEPT !.dirty = IF s.persisted = None THEN s.working # Default
                                            ELSE s.working # s.persisted]

Replace(s, p) == [s EXCEPT !.working = p, !.sourceDefaults = FALSE]

\* Mutant of ReplaceWorking: the status is left as it was.
ReplaceWorkingQuietly(s, p) == Replace(s, p)
ReplaceWorking(s, p) == RefreshDirty(Replace(s, p))

Set(s, f, v) == ReplaceWorking(s, [s.working EXCEPT ![f] = v])

UseDefaults(s) ==
  RefreshDirty([s EXCEPT !.working = Default, !.sourceDefaults = TRUE])

Load(s, r) ==
  [s EXCEPT !.working = r.profile, !.persisted = r.profile,
            !.generation = r.generation, !.dirty = FALSE,
            !.sourceDefaults = FALSE]

Saved(s, g) ==
  [s EXCEPT !.persisted = s.working, !.generation = g, !.dirty = FALSE,
            !.sourceDefaults = FALSE]

RestartRequired(s) == s.working.poles # s.bootPoles

\* The configuration a boot with these two records starts with: the motor
\* record is the baseline, the profile wins.
\* Mutant of BootConfig: the motor record is applied last.
BootConfigMotorLast(r, m) ==
  LET c == ApplyBoot(Default, Stored(r))
  IN  IF m = None THEN c ELSE ApplyMotor(c, m)
BootConfig(r, m) ==
  LET base == IF m = None THEN Default ELSE ApplyMotor(Default, m)
  IN  ApplyBoot(base, Stored(r))

-----------------------------------------------------------------------------
(* Requests and what they may be answered with.                            *)

Actions == {"get", "status", "set", "defaults", "load", "save", "reset"}
Requests ==
  [action : Actions \ {"get", "set"}, field : {None}, value : {None}]
    \cup [action : {"get"}, field : Fields, value : {None}]
    \cup {q \in [action : {"set"}, field : Fields,
                 value : Gains \cup Limits \cup Poles \cup {None}] :
             q.value \in Kind(q.field) \cup {None}}

Envelopes == [transaction : Transactions, request : CanRequests]

\* "failed" stands for the four error codes of the flash.
Results == {"success", "unchanged", "busy", "invalid", "none", "failed", "conflict"}

ASSUME RequestAssumption ==
  /\ LocalRequests \subseteq Requests
  /\ CanRequests \subseteq Requests
  /\ None \notin [envelope : Envelopes, result : Results]

ReadOnly(q) == q.action \in {"get", "status"}

\* Whether the controller is storage_safe, and whether its bridge is requested,
\* is the matter of FocController: here it may be so or not in any turn of the
\* loop, and what needs it is carried out or refused.
TypeOK ==
  /\ flash \in Records \cup {None}
  /\ commissioned \in MotorParams \cup {None}
  /\ parameters \in States
  /\ config \in Profiles
  /\ tune \in MotorParams \cup {None}
  /\ remote \in BOOLEAN
  /\ cached \in [envelope : Envelopes, result : Results] \cup {None}
  /\ asked \in Envelopes \cup {None}
  /\ executions \in Nat
  /\ answers \subseteq Results
  /\ inDoubt \in BOOLEAN
  /\ retuned \in BOOLEAN

\* A board that was never written to.
Init ==
  /\ flash = None
  /\ commissioned = None
  /\ parameters = FromBoot(None)
  /\ config = BootConfig(None, None)
  /\ tune = None
  /\ remote = FALSE
  /\ cached = None /\ asked = None
  /\ executions = 0 /\ answers = {}
  /\ inDoubt = FALSE /\ retuned = FALSE

-----------------------------------------------------------------------------
(* The flash store, as AtomicRecord promises it.                           *)

\* Mutant of NextGeneration: the counter does not wrap.
NextGenerationUnwrapped == IF flash = None THEN 1 ELSE flash.generation + 1
NextGeneration ==
  IF flash = None THEN 1 % GenerationMod ELSE (flash.generation + 1) % GenerationMod
Written(p) == [profile |-> p, generation |-> NextGeneration]
Holds(p) == flash # None /\ flash.profile = p
Writes(p, forced) == Holds(p) => forced

\* ParameterStore::save and force_save of a profile.
StoreProfile(p, forced, result) ==
  \/ ~Valid(p) /\ result = "invalid" /\ flash' = flash
  \/ Valid(p) /\ result = "failed" /\ flash' = flash
  \/ Valid(p) /\ ~Writes(p, forced) /\ result = "unchanged" /\ flash' = flash
  \/ /\ Valid(p) /\ Writes(p, forced)
     /\ result \in {"success", "failed"}
     /\ flash' = Written(p)

\* The same of the motor record, whose generation nobody looks at.
StoreMotor(m, ok) ==
  \/ ok /\ commissioned' = m
  \/ ~ok /\ commissioned' \in {commissioned, m}

-----------------------------------------------------------------------------
(* process_parameter_request.  result is what the response carries.        *)

Keep == UNCHANGED <<parameters, config, retuned>>

\* apply_live_profile of the candidate s, which is dropped unless it is applied.
\* That the controller is safe was asked just before, and no frame came between.
Adopt(s, result) ==
  IF Valid(s.working)
  THEN /\ result = "success"
       /\ parameters' = s
       /\ config' = ApplyLive(config, s.working)
       /\ retuned' = FALSE
  ELSE result = "busy" /\ Keep

\* A read or a write that succeeds leaves no doubt of what the flash holds; a
\* write that fails may have stored its profile all the same.
Doubt(result) ==
  inDoubt' = IF result \in {"success", "unchanged"} THEN FALSE
                                                    ELSE inDoubt \/ flash' # flash

Read(q, result) ==
  /\ ReadOnly(q) /\ result = "success"
  /\ Keep /\ UNCHANGED <<flash, inDoubt>>

\* storage_operation_safe says no.
Refuse(q, result) ==
  /\ ~ReadOnly(q) /\ result = "busy"
  /\ Keep /\ UNCHANGED <<flash, inDoubt>>

SetParameter(q, result) ==
  LET s == Set(parameters, q.field, q.value)
      fits == q.value \in Kind(q.field) /\ Valid(s.working)
  IN  /\ q.action = "set"
      /\ UNCHANGED <<flash, inDoubt>>
      /\ \/ ~fits /\ result = "invalid" /\ Keep
         \/ /\ fits /\ StartupOnly(q.field) /\ result = "success"
            /\ parameters' = s
            /\ UNCHANGED <<config, retuned>>
         \/ fits /\ ~StartupOnly(q.field) /\ Adopt(s, result)

RestoreDefaults(q, result) ==
  /\ q.action = "defaults"
  /\ Adopt(UseDefaults(parameters), result)
  /\ UNCHANGED <<flash, inDoubt>>

LoadStored(q, result) ==
  /\ q.action = "load"
  /\ \/ result = "failed" /\ Keep
     \/ flash = None /\ result = "none" /\ Keep
     \/ flash # None /\ Adopt(Load(parameters, flash), result)
  /\ flash' = flash
  /\ Doubt(result)

SaveWorking(q, result) ==
  /\ q.action = "save"
  /\ StoreProfile(parameters.working, FALSE, result)
  /\ parameters' = IF result \in {"success", "unchanged"}
                   THEN Saved(parameters, flash'.generation) ELSE parameters
  /\ UNCHANGED <<config, retuned>>
  /\ Doubt(result)

FactoryReset(q, result) ==
  /\ q.action = "reset"
  /\ \/ /\ StoreProfile(Default, TRUE, "success")
        /\ Adopt(Saved(UseDefaults(parameters), flash'.generation), result)
     \/ StoreProfile(Default, TRUE, "failed") /\ result = "failed" /\ Keep
  /\ Doubt(result)

Process(q, result) ==
  \/ Read(q, result)
  \/ Refuse(q, result)
  \/ SetParameter(q, result)
  \/ RestoreDefaults(q, result)
  \/ LoadStored(q, result)
  \/ SaveWorking(q, result)
  \/ FactoryReset(q, result)

-----------------------------------------------------------------------------
(* Requests that reach the control task.                                   *)

\* A UART line, or a request frame of the owner: never looked up, never kept.
ServeDirectly ==
  /\ \E q \in LocalRequests, result \in Results :
       /\ remote /\ ~ReadOnly(q) => tune = None
       /\ Process(q, result)
  /\ UNCHANGED <<commissioned, tune, remote, client>>

\* ParameterTransactionCache::lookup, by the transaction number first.
Known(e) == cached # None /\ cached.envelope.transaction = e.transaction
Replays(e) == Known(e) /\ cached.envelope = e

\* Mutant of Remember: only a success is kept.
RememberSuccess(e, result) ==
  cached' = IF result = "success" THEN [envelope |-> e, result |-> result] ELSE cached
Remember(e, result) == cached' = [envelope |-> e, result |-> result]

\* A CAN frame, or another copy of it, for as long as its sender waits.
ServeCan ==
  /\ asked # None
  /\ \E result \in Results :
       /\ \/ /\ remote /\ ~ReadOnly(asked.request)
             /\ result = "busy"
             /\ Keep /\ UNCHANGED <<flash, inDoubt, cached, executions>>
          \/ /\ ~remote \/ ReadOnly(asked.request)
             /\ Replays(asked) /\ result = cached.result
             /\ Keep /\ UNCHANGED <<flash, inDoubt, cached, executions>>
          \/ /\ ~remote \/ ReadOnly(asked.request)
             /\ Known(asked) /\ ~Replays(asked) /\ result = "conflict"
             /\ Keep /\ UNCHANGED <<flash, inDoubt, cached, executions>>
          \/ /\ ~remote \/ ReadOnly(asked.request)
             /\ ~Known(asked)
             /\ Process(asked.request, result)
             /\ Remember(asked, result)
             /\ executions' = executions + 1
       /\ answers' = answers \cup {result}
  /\ UNCHANGED <<commissioned, tune, remote, asked>>

\* The sender turns to its next request; its answers may be lost on the way.
Ask ==
  /\ asked' \in Envelopes \ {asked}
  /\ executions' = 0 /\ answers' = {}
  /\ UNCHANGED <<flash, commissioned, parameters, config, tune,
                 remote, cached, inDoubt, retuned>>

-----------------------------------------------------------------------------
(* What changes the configuration past the requests.                       *)

\* SetCurrentPid and its like, accepted and synchronised into the working
\* profile; the pole pairs keep the value that waits for a restart.
LegacyCommand ==
  /\ remote => tune = None
  /\ \E g \in Gains :
       LET c == [config EXCEPT !.gain = g]
       IN  /\ config' = c
           /\ parameters' = ReplaceWorking(parameters,
                              FromConfig(c, parameters.working))
  /\ retuned' = FALSE
  /\ UNCHANGED <<flash, commissioned, tune, remote, client, inDoubt>>

StartTune ==
  /\ tune = None
  /\ \E g \in TunedGains : tune' = Seed(config, g)
  /\ UNCHANGED <<flash, commissioned, parameters, config, remote,
                 client, inDoubt, retuned>>

Identify ==
  /\ tune # None
  /\ \E g \in TunedGains : tune' = [tune EXCEPT !.gain = g]
  /\ UNCHANGED <<flash, commissioned, parameters, config, remote,
                 client, inDoubt, retuned>>

\* ApplyMotorParam; a refusal changes nothing and is only logged.
ApplyTune ==
  /\ tune # None
  /\ config' = ApplyMotor(config, tune)
  /\ retuned' = TRUE
  /\ UNCHANGED <<flash, commissioned, parameters, tune, remote,
                 client, inDoubt>>

\* save_autotune_parameters: both stores are tried, whatever the first says.
SaveTune ==
  LET profile == FromConfig(config, parameters.working)
  IN  /\ tune # None
      /\ \E ok \in BOOLEAN, result \in Results :
           /\ StoreMotor(tune, ok)
           /\ StoreProfile(profile, FALSE, result)
           /\ \/ /\ ok /\ result \in {"success", "unchanged"}
                 /\ parameters' = Saved(ReplaceWorking(parameters, profile),
                                        flash'.generation)
                 /\ inDoubt' = FALSE /\ retuned' = FALSE
              \/ /\ ~(ok /\ result \in {"success", "unchanged"})
                 /\ UNCHANGED <<parameters, retuned>>
                 /\ inDoubt' = (inDoubt \/ flash' # flash)
      /\ tune' = None
      /\ UNCHANGED <<config, remote, client>>

\* A stop, a fault, a lost owner, a refused save.
EndTune ==
  /\ tune # None
  /\ tune' = None
  /\ UNCHANGED <<flash, commissioned, parameters, config, remote,
                 client, inDoubt, retuned>>

Claim ==
  /\ tune = None
  /\ remote' = TRUE
  /\ UNCHANGED <<flash, commissioned, parameters, config, tune,
                 client, inDoubt, retuned>>

\* A restart; a record that cannot be read counts as none.
Boot ==
  /\ \E r \in {flash, None}, m \in {commissioned, None} :
       /\ parameters' = FromBoot(r)
       /\ config' = BootConfig(r, m)
       /\ inDoubt' = (r # flash)
  /\ tune' = None /\ remote' = FALSE /\ cached' = None
  /\ executions' = 0 /\ answers' = {}
  /\ retuned' = FALSE
  /\ UNCHANGED <<flash, commissioned, asked>>

Next ==
  \/ ServeDirectly \/ ServeCan \/ Ask
  \/ LegacyCommand \/ StartTune \/ Identify \/ ApplyTune \/ SaveTune \/ EndTune
  \/ Claim \/ Boot

Spec == Init /\ [][Next]_vars

-----------------------------------------------------------------------------
(* Properties.                                                             *)

\* The dirty flag of the status tells exactly whether a restart would change
\* the working profile, and its generation is that of the record, unless a save
\* failed or a boot could not read: through edits, loads, resets, older commands
\* and tunes that are saved or not.
StatusIsTrue ==
  ~inDoubt =>
    /\ parameters.dirty <=> parameters.working # Stored(flash)
    /\ flash # None => parameters.generation = flash.generation

\* When the status shows neither unsaved changes nor a pending restart, a power
\* cycle brings back the very configuration the controller runs, whatever the
\* motor record says and however a save of the tune failed half way; only a
\* tune that applied its gains and did not save them is an exception.
CleanBootChangesNothing ==
  ~inDoubt /\ ~retuned /\ ~parameters.dirty /\ ~RestartRequired(parameters)
    => config = BootConfig(flash, commissioned)

\* A CAN request that is sent again until its answer arrives is executed at
\* most once, whatever UART requests, claims and tunes come in between, and
\* but for Busy of a remote session it gets one and the same answer.
TransactionsActOnce ==
  /\ executions <= 1
  /\ \A a, b \in answers \ {"busy"} : a = b
=============================================================================
