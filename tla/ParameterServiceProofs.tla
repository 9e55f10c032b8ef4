----------------------- MODULE ParameterServiceProofs -----------------------
(* Theorems about ParameterService and their proofs.                         *)
EXTENDS ParameterService, TLAPS

\* What the working profile is compared with.
Baseline(p) == IF p = None THEN Default ELSE p

\* The dirty flag is that comparison, in doubt or not.
Honest(s) == s.dirty <=> s.working # Baseline(s.persisted)

\* The state knows the record r.
Reflects(s, r) ==
  /\ s.persisted = IF r = None THEN None ELSE r.profile
  /\ r # None => s.generation = r.generation

\* The configuration is the working profile, but for what needs a restart.
Runs(c, s) == c = ApplyLive(c, s.working)

\* An answered request is in the cache under its transaction, and every answer
\* but Busy is what a lookup gives.
AnswersAreKept ==
  /\ executions \in {0, 1}
  /\ executions = 1 => asked # None /\ Replays(asked)
  /\ \A a \in answers :
       a # "busy" => /\ asked # None /\ Known(asked)
                     /\ a = IF Replays(asked) THEN cached.result ELSE "conflict"

\* What requests, commands and tunes work on.
Data == <<flash, parameters, config, inDoubt, retuned>>

DataType ==
  /\ flash \in Records \cup {None}
  /\ parameters \in States
  /\ config \in Profiles
  /\ inDoubt \in BOOLEAN
  /\ retuned \in BOOLEAN

Sound ==
  /\ DataType
  /\ Honest(parameters)
  /\ ~inDoubt => Reflects(parameters, flash)
  /\ ~retuned => Runs(config, parameters)
  /\ config.poles = parameters.bootPoles

IInv == TypeOK /\ Sound /\ AnswersAreKept

-----------------------------------------------------------------------------
(* ParameterState and its operations.                                      *)

\* replace_working keeps what is stored and compares it with the new profile.
LEMMA ReplaceWorkingFacts ==
  ASSUME NEW s \in States, NEW p \in Profiles
  PROVE  LET t == ReplaceWorking(s, p)
         IN  /\ t \in States /\ Honest(t)
             /\ t.working = p /\ t.persisted = s.persisted
             /\ t.generation = s.generation /\ t.bootPoles = s.bootPoles
<1> DEFINE q == Replace(s, p)
<1>1. /\ q \in States /\ q.working = p /\ q.persisted = s.persisted
      /\ q.generation = s.generation /\ q.bootPoles = s.bootPoles
  BY DEF Replace, States
<1>2. ReplaceWorking(s, p) = RefreshDirty(q)
  BY DEF ReplaceWorking
<1> HIDE DEF q
<1>3. QED
  BY <1>1, <1>2 DEF RefreshDirty, Honest, Baseline, States

\* set changes one field to a value of its kind.
LEMMA FieldType ==
  ASSUME NEW p \in Profiles, NEW f \in Fields, NEW v \in Kind(f)
  PROVE  [p EXCEPT ![f] = v] \in Profiles
<1>1. CASE f = "gain"
  BY <1>1 DEF Profiles, Kind
<1>2. CASE f = "poles"
  BY <1>2 DEF Profiles, Kind
<1>3. CASE f = "iq"
  BY <1>3 DEF Profiles, Kind
<1>4. CASE f = "limit"
  BY <1>4 DEF Profiles, Kind
<1>5. QED
  BY <1>1, <1>2, <1>3, <1>4 DEF Fields

\* use_defaults and factory reset.
LEMMA UseDefaultsFacts ==
  ASSUME NEW s \in States
  PROVE  LET t == UseDefaults(s)
         IN  /\ t \in States /\ Honest(t)
             /\ t.working = Default /\ t.persisted = s.persisted
             /\ t.generation = s.generation /\ t.bootPoles = s.bootPoles
<1> DEFINE q == [s EXCEPT !.working = Default, !.sourceDefaults = TRUE]
<1>1. /\ q \in States /\ q.working = Default /\ q.persisted = s.persisted
      /\ q.generation = s.generation /\ q.bootPoles = s.bootPoles
  BY ServiceAssumption DEF States
<1>2. UseDefaults(s) = RefreshDirty(q)
  BY DEF UseDefaults
<1> HIDE DEF q
<1>3. QED
  BY <1>1, <1>2 DEF RefreshDirty, Honest, Baseline, States

\* load takes over the record.
LEMMA LoadFacts ==
  ASSUME NEW s \in States, NEW r \in Records
  PROVE  LET t == Load(s, r)
         IN  /\ t \in States /\ Honest(t) /\ Reflects(t, r)
             /\ t.working = r.profile /\ t.bootPoles = s.bootPoles
<1>1. r.profile \in Profiles /\ r.generation \in Generations /\ r # None
  BY NoneAssumption DEF Records, Generations
<1>2. QED
  BY <1>1, NoneAssumption DEF Load, States, Honest, Baseline, Reflects

\* saved takes the working profile for the stored one.
LEMMA SavedFacts ==
  ASSUME NEW s \in States, NEW g \in Generations
  PROVE  LET t == Saved(s, g)
         IN  /\ t \in States /\ Honest(t)
             /\ t.working = s.working /\ t.persisted = s.working
             /\ t.generation = g /\ t.bootPoles = s.bootPoles
BY NoneAssumption DEF Saved, States, Honest, Baseline

\* from_boot knows the record it was given.
LEMMA FromBootFacts ==
  ASSUME NEW r \in Records \cup {None}
  PROVE  LET t == FromBoot(r)
         IN  /\ t \in States /\ Honest(t) /\ Reflects(t, r)
             /\ t.working = Stored(r) /\ t.bootPoles = Stored(r).poles
             /\ Stored(r) \in Profiles
<1>1. CASE r = None
  BY <1>1, ServiceAssumption DEF FromBoot, States, Honest, Baseline, Reflects,
     Stored, Generations, Profiles
<1>2. CASE r \in Records
  <2>1. r.profile \in Profiles /\ r.generation \in Generations /\ r # None
    BY <1>2, NoneAssumption DEF Records, Generations
  <2>2. r.profile.poles \in Poles
    BY <2>1 DEF Profiles
  <2>3. QED
    BY <2>1, <2>2, NoneAssumption DEF FromBoot, States, Honest, Baseline,
       Reflects, Stored
<1>3. QED
  BY <1>1, <1>2

\* The motor record changes nothing of the configuration a boot ends with.
LEMMA BootConfigIsProfile ==
  ASSUME NEW r \in Records \cup {None}, NEW m \in MotorParams \cup {None}
  PROVE  BootConfig(r, m) = Stored(r) /\ Stored(r) \in Profiles
<1>1. Stored(r) \in Profiles
  BY FromBootFacts
<1>2. \A c : ApplyBoot(c, Stored(r)) = Stored(r)
  BY <1>1 DEF ApplyBoot, ApplyLive, Profiles
<1>3. QED
  BY <1>1, <1>2 DEF BootConfig

-----------------------------------------------------------------------------
(* What the parts of process_parameter_request keep.                       *)

\* What a store leaves in the flash is a record.
LEMMA StoreProfileType ==
  ASSUME DataType, NEW p \in Profiles, NEW forced \in BOOLEAN, NEW result \in Results,
         StoreProfile(p, forced, result)
  PROVE  /\ flash' \in Records \cup {None}
         /\ result \in {"success", "unchanged"} =>
              /\ flash' \in Records
              /\ flash'.profile = p
         /\ result \notin {"success", "unchanged", "failed"} => flash' = flash
<1>1. NextGeneration \in Generations
  <2>1. CASE flash = None
    BY <2>1, ServiceAssumption DEF NextGeneration, Generations
  <2>2. CASE flash # None
    <3>1. flash.generation \in 0..GenerationMod - 1
      BY <2>2 DEF DataType, Records, Generations
    <3>2. (flash.generation + 1) % GenerationMod \in 0..GenerationMod - 1
      BY <3>1, ServiceAssumption
    <3>3. QED
      BY <2>2, <3>2 DEF NextGeneration, Generations
  <2>3. QED
    BY <2>1, <2>2
<1>2. Written(p) \in Records /\ Written(p).profile = p
  BY <1>1 DEF Written, Records
<1>3. CASE flash' = flash /\ result # "unchanged" /\ result # "success"
  BY <1>3 DEF DataType
<1>4. CASE flash' = flash /\ result = "unchanged" /\ ~Writes(p, forced)
  BY <1>4 DEF DataType, Writes, Holds
<1>5. CASE flash' = Written(p) /\ result \in {"success", "failed"}
  BY <1>2, <1>5
<1>6. QED
  BY <1>3, <1>4, <1>5 DEF StoreProfile

\* A candidate is taken over together with the configuration, or not at all.
LEMMA AdoptFacts ==
  ASSUME Sound, NEW s \in States, Honest(s), s.bootPoles = parameters.bootPoles,
         NEW result, Adopt(s, result)
  PROVE  /\ parameters' \in States /\ config' \in Profiles /\ retuned' \in BOOLEAN
         /\ Honest(parameters')
         /\ ~retuned' => Runs(config', parameters')
         /\ config'.poles = parameters'.bootPoles
         /\ \/ result = "success" /\ parameters' = s
            \/ result = "busy" /\ parameters' = parameters
<1>1. CASE Valid(s.working)
  <2>1. parameters' = s /\ config' = ApplyLive(config, s.working) /\ retuned' = FALSE
        /\ result = "success"
    BY <1>1 DEF Adopt
  <2>2. s.working \in Profiles /\ config \in Profiles
    BY DEF Sound, DataType, States
  <2>3. ApplyLive(config, s.working) \in Profiles /\ config.poles = s.bootPoles
        /\ ApplyLive(config, s.working).poles = config.poles
    BY <2>2 DEF ApplyLive, Profiles, Sound
  <2>4. Runs(ApplyLive(config, s.working), s)
    BY <2>2, <2>3 DEF Runs, ApplyLive, Profiles
  <2>5. QED
    BY <2>1, <2>3, <2>4
<1>2. CASE ~Valid(s.working)
  BY <1>2 DEF Adopt, Keep, Sound, DataType
<1>3. QED
  BY <1>1, <1>2

\* Each part of process_parameter_request keeps the state sound.
LEMMA ProcessKeepsSound ==
  ASSUME Sound, NEW q \in Requests, NEW result \in Results, Process(q, result)
  PROVE  Sound'
<1> USE DEF Keep
<1>1. CASE Read(q, result) \/ Refuse(q, result)
  BY <1>1 DEF Read, Refuse, Sound, DataType
<1>2. CASE SetParameter(q, result)
  <2> DEFINE s == Set(parameters, q.field, q.value)
             fits == q.value \in Kind(q.field) /\ Valid(s.working)
  <2>1. UNCHANGED <<flash, inDoubt>>
    BY <1>2 DEF SetParameter
  <2>2. CASE fits
    <3>1. q.field \in Fields
      BY <1>2 DEF SetParameter, Requests
    <3>2. [parameters.working EXCEPT ![q.field] = q.value] \in Profiles
      BY <2>2, <3>1, FieldType DEF Sound, DataType, States
    <3>3. /\ s \in States /\ Honest(s) /\ s.persisted = parameters.persisted
          /\ s.generation = parameters.generation
          /\ s.bootPoles = parameters.bootPoles
          /\ s.working = [parameters.working EXCEPT ![q.field] = q.value]
      BY <3>2, ReplaceWorkingFacts DEF Set, Sound, DataType
    <3>4. Reflects(parameters, flash) => Reflects(s, flash)
      BY <3>3 DEF Reflects
    <3> HIDE DEF s
    <3>5. CASE StartupOnly(q.field)
      <4>1. parameters' = s /\ UNCHANGED <<config, retuned>>
        BY <1>2, <2>2, <3>5 DEF SetParameter, s
      <4>2. Runs(config, parameters) => Runs(config, s)
        BY <3>3, <3>5 DEF Runs, ApplyLive, StartupOnly, Sound, DataType, States, Profiles
      <4>3. QED
        BY <2>1, <3>3, <3>4, <4>1, <4>2 DEF Sound, DataType
    <3>6. CASE ~StartupOnly(q.field)
      <4>1. Adopt(s, result)
        BY <1>2, <2>2, <3>6 DEF SetParameter, s
      <4>2. QED
        BY <2>1, <3>3, <3>4, <4>1, AdoptFacts DEF Sound, DataType
    <3>7. QED
      BY <3>5, <3>6
  <2>3. CASE ~fits
    BY <1>2, <2>1, <2>3 DEF SetParameter, Sound, DataType
  <2>4. QED
    BY <2>2, <2>3
<1>3. CASE RestoreDefaults(q, result)
  <2> DEFINE s == UseDefaults(parameters)
  <2>1. /\ s \in States /\ Honest(s) /\ s.persisted = parameters.persisted
        /\ s.generation = parameters.generation /\ s.bootPoles = parameters.bootPoles
    BY UseDefaultsFacts DEF Sound, DataType
  <2>2. Adopt(s, result) /\ UNCHANGED <<flash, inDoubt>>
    BY <1>3 DEF RestoreDefaults
  <2>3. Reflects(parameters, flash) => Reflects(s, flash)
    BY <2>1 DEF Reflects
  <2> HIDE DEF s
  <2>4. QED
    BY <2>1, <2>2, <2>3, AdoptFacts DEF Sound, DataType
<1>4. CASE LoadStored(q, result)
  <2>1. flash' = flash /\ Doubt(result)
    BY <1>4 DEF LoadStored
  <2>2. CASE result \in {"failed", "none"} /\ Keep
    BY <2>1, <2>2 DEF Doubt, Sound, DataType
  <2>3. CASE flash # None /\ Adopt(Load(parameters, flash), result)
    <3> DEFINE s == Load(parameters, flash)
    <3>1. /\ s \in States /\ Honest(s) /\ Reflects(s, flash)
          /\ s.bootPoles = parameters.bootPoles
      BY <2>3, LoadFacts DEF Sound, DataType
    <3>2. Adopt(s, result)
      BY <2>3
    <3> HIDE DEF s
    <3>3. QED
      BY <2>1, <3>1, <3>2, AdoptFacts DEF Doubt, Sound, DataType
  <2>4. QED
    BY <1>4, <2>2, <2>3 DEF LoadStored
<1>5. CASE SaveWorking(q, result)
  <2>1. /\ StoreProfile(parameters.working, FALSE, result)
        /\ UNCHANGED <<config, retuned>> /\ Doubt(result)
    BY <1>5 DEF SaveWorking
  <2>2. parameters.working \in Profiles
    BY DEF Sound, DataType, States
  <2>3. /\ flash' \in Records \cup {None}
        /\ result \in {"success", "unchanged"} =>
             flash' \in Records /\ flash'.profile = parameters.working
    BY <2>1, <2>2, StoreProfileType DEF Sound
  <2>4. CASE result \in {"success", "unchanged"}
    <3>1. parameters' = Saved(parameters, flash'.generation) /\ inDoubt' = FALSE
      BY <1>5, <2>4 DEF SaveWorking, Doubt
    <3>2. flash'.generation \in Generations /\ flash' # None
      BY <2>3, <2>4, NoneAssumption DEF Records, Generations
    <3>3. /\ parameters' \in States /\ Honest(parameters')
          /\ parameters'.working = parameters.working
          /\ parameters'.persisted = parameters.working
          /\ parameters'.generation = flash'.generation
          /\ parameters'.bootPoles = parameters.bootPoles
      BY <3>1, <3>2, SavedFacts DEF Sound, DataType
    <3>4. Reflects(parameters', flash')
      BY <2>3, <2>4, <3>2, <3>3 DEF Reflects
    <3>5. Runs(config, parameters) => Runs(config', parameters')
      BY <2>1, <3>3 DEF Runs
    <3>6. QED
      BY <2>1, <2>3, <3>1, <3>3, <3>4, <3>5 DEF Sound, DataType
  <2>5. CASE result \notin {"success", "unchanged"}
    <3>1. parameters' = parameters /\ inDoubt' = (inDoubt \/ flash' # flash)
      BY <1>5, <2>5 DEF SaveWorking, Doubt
    <3>2. QED
      BY <2>1, <2>3, <3>1 DEF Sound, DataType
  <2>6. QED
    BY <2>4, <2>5
<1>6. CASE FactoryReset(q, result)
  <2>1. Doubt(result) /\ Default \in Profiles
    BY <1>6, ServiceAssumption DEF FactoryReset
  <2>2. CASE StoreProfile(Default, TRUE, "failed") /\ result = "failed" /\ Keep
    <3>1. flash' \in Records \cup {None}
      BY <2>1, <2>2, StoreProfileType DEF Sound, Results
    <3>2. inDoubt' = (inDoubt \/ flash' # flash)
      BY <2>1, <2>2 DEF Doubt
    <3>3. QED
      BY <2>2, <3>1, <3>2 DEF Sound, DataType
  <2>3. CASE /\ StoreProfile(Default, TRUE, "success")
             /\ Adopt(Saved(UseDefaults(parameters), flash'.generation), result)
    <3> DEFINE u == UseDefaults(parameters)
               s == Saved(u, flash'.generation)
    <3>1. flash' \in Records /\ flash'.profile = Default
      BY <2>1, <2>3, StoreProfileType DEF Sound, Results
    <3>2. flash'.generation \in Generations /\ flash' # None
      BY <3>1, NoneAssumption DEF Records, Generations
    <3>3. u \in States /\ u.working = Default /\ u.bootPoles = parameters.bootPoles
      BY UseDefaultsFacts DEF Sound, DataType
    <3> HIDE DEF u
    <3>4. /\ s \in States /\ Honest(s) /\ s.persisted = Default /\ s.working = Default
          /\ s.generation = flash'.generation /\ s.bootPoles = parameters.bootPoles
      BY <3>2, <3>3, SavedFacts
    <3>5. Adopt(s, result)
      BY <2>3 DEF u
    <3> HIDE DEF s
    <3>6. Reflects(s, flash')
      BY <3>1, <3>2, <3>4 DEF Reflects
    <3>7. CASE result = "success"
      <4>1. parameters' = s /\ inDoubt' = FALSE
        BY <2>1, <3>4, <3>5, <3>7, AdoptFacts DEF Doubt
      <4>2. QED
        BY <3>1, <3>4, <3>5, <3>6, <4>1, AdoptFacts DEF Sound, DataType
    <3>8. CASE result # "success"
      <4>1. result = "busy" /\ parameters' = parameters
        BY <3>4, <3>5, <3>8, AdoptFacts
      <4>2. inDoubt' = (inDoubt \/ flash' # flash)
        BY <2>1, <4>1 DEF Doubt
      <4>3. QED
        BY <3>1, <3>4, <3>5, <4>1, <4>2, AdoptFacts DEF Sound, DataType
    <3>9. QED
      BY <3>7, <3>8
  <2>4. QED
    BY <1>6, <2>2, <2>3 DEF FactoryReset
<1>7. QED
  BY <1>1, <1>2, <1>3, <1>4, <1>5, <1>6 DEF Process

-----------------------------------------------------------------------------
(* The steps.                                                              *)

\* The answers stay what a lookup gives while cache and request stay.
LEMMA AnswersStay ==
  ASSUME AnswersAreKept, UNCHANGED client
  PROVE  AnswersAreKept'
BY DEF AnswersAreKept, client, history, Known, Replays

LEMMA InitSound == Init => IInv
<1> SUFFICES ASSUME Init PROVE IInv
  OBVIOUS
<1>1. /\ parameters \in States /\ Honest(parameters) /\ Reflects(parameters, None)
      /\ parameters.working = Stored(None) /\ parameters.bootPoles = Stored(None).poles
  BY FromBootFacts DEF Init
<1>2. config = Stored(None) /\ config \in Profiles
  BY BootConfigIsProfile DEF Init
<1>3. Runs(config, parameters) /\ config.poles = parameters.bootPoles
  BY <1>1, <1>2 DEF Runs, ApplyLive, Profiles
<1>4. Sound
  BY <1>1, <1>2, <1>3 DEF Init, Sound, DataType
<1>5. TypeOK
  BY <1>1, <1>2 DEF Init, TypeOK
<1>6. AnswersAreKept
  BY DEF Init, AnswersAreKept
<1>7. QED
  BY <1>4, <1>5, <1>6 DEF IInv

\* A request that is not looked up.
LEMMA ServeDirectlyKeeps ==
  ASSUME IInv, ServeDirectly
  PROVE  IInv'
<1>1. PICK q \in LocalRequests, result \in Results : Process(q, result)
  BY DEF ServeDirectly
<1>2. Sound'
  BY <1>1, ProcessKeepsSound, RequestAssumption DEF IInv
<1>3. UNCHANGED <<commissioned, tune, remote>> /\ UNCHANGED client
  BY DEF ServeDirectly
<1>4. TypeOK'
  BY <1>2, <1>3 DEF IInv, TypeOK, Sound, DataType, client, history
<1>5. QED
  BY <1>2, <1>3, <1>4, AnswersStay DEF IInv

\* A CAN request: refused, replayed, in conflict, or executed and kept.
LEMMA ServeCanKeeps ==
  ASSUME IInv, ServeCan
  PROVE  IInv'
<1>1. asked # None /\ asked \in Envelopes /\ asked.request \in Requests
  BY RequestAssumption DEF ServeCan, IInv, TypeOK, Envelopes
<1>2. UNCHANGED <<commissioned, tune, remote, asked>>
  BY DEF ServeCan
<1>3. PICK result \in Results :
        /\ answers' = answers \cup {result}
        /\ \/ /\ result = "busy" \/ (Replays(asked) /\ result = cached.result)
                 \/ (Known(asked) /\ ~Replays(asked) /\ result = "conflict")
              /\ Keep /\ UNCHANGED <<flash, inDoubt, cached, executions>>
           \/ /\ ~Known(asked)
              /\ Process(asked.request, result)
              /\ Remember(asked, result)
              /\ executions' = executions + 1
  BY DEF ServeCan
<1>4. CASE /\ result = "busy" \/ (Replays(asked) /\ result = cached.result)
              \/ (Known(asked) /\ ~Replays(asked) /\ result = "conflict")
           /\ Keep /\ UNCHANGED <<flash, inDoubt, cached, executions>>
  <2>1. Sound'
    BY <1>4 DEF IInv, Sound, DataType, Keep
  <2>2. TypeOK'
    BY <1>2, <1>3, <1>4 DEF IInv, TypeOK, Keep
  <2>3. Known(asked)' = Known(asked) /\ Replays(asked)' = Replays(asked)
    BY <1>2, <1>4 DEF Known, Replays
  <2>4. AnswersAreKept'
    BY <1>1, <1>2, <1>3, <1>4, <2>3 DEF IInv, AnswersAreKept, Replays
  <2>5. QED
    BY <2>1, <2>2, <2>4 DEF IInv
<1>5. CASE /\ ~Known(asked)
           /\ Process(asked.request, result)
           /\ Remember(asked, result)
           /\ executions' = executions + 1
  <2>1. Sound'
    BY <1>1, <1>5, ProcessKeepsSound DEF IInv
  <2>2. cached' = [envelope |-> asked, result |-> result] /\ executions = 0
    BY <1>5 DEF Remember, IInv, AnswersAreKept, Replays
  <2>3. TypeOK'
    BY <1>1, <1>2, <1>3, <1>5, <2>1, <2>2 DEF IInv, TypeOK, Sound, DataType
  <2>4. cached' # None
    <3>1. cached' \in [envelope : Envelopes, result : Results]
      BY <1>1, <2>2
    <3>2. QED
      BY <3>1, RequestAssumption
  <2>5. Known(asked)' /\ Replays(asked)' /\ cached'.result = result
    BY <1>2, <2>2, <2>4 DEF Known, Replays
  <2>6. \A a \in answers : a = "busy"
    BY <1>5 DEF IInv, AnswersAreKept
  <2>7. AnswersAreKept'
    BY <1>1, <1>2, <1>3, <1>5, <2>2, <2>5, <2>6 DEF AnswersAreKept
  <2>8. QED
    BY <2>1, <2>3, <2>7 DEF IInv
<1>6. QED
  BY <1>3, <1>4, <1>5

LEMMA AskKeeps ==
  ASSUME IInv, Ask
  PROVE  IInv'
<1>1. Sound' /\ TypeOK'
  BY DEF IInv, Ask, Sound, DataType, TypeOK
<1>2. AnswersAreKept'
  BY DEF Ask, AnswersAreKept
<1>3. QED
  BY <1>1, <1>2 DEF IInv

\* An older command is synchronised into the working profile.
LEMMA LegacyCommandKeeps ==
  ASSUME IInv, LegacyCommand
  PROVE  IInv'
<1>1. PICK g \in Gains :
        /\ config' = [config EXCEPT !.gain = g]
        /\ parameters' = ReplaceWorking(parameters,
                           FromConfig([config EXCEPT !.gain = g], parameters.working))
  BY DEF LegacyCommand
<1>2. /\ retuned' = FALSE /\ UNCHANGED <<flash, commissioned, tune, remote, inDoubt>>
      /\ UNCHANGED client
  BY DEF LegacyCommand
<1> DEFINE p == FromConfig(config', parameters.working)
<1>3. config' \in Profiles /\ config'.poles = config.poles
  BY <1>1 DEF IInv, TypeOK, Profiles
<1>4. parameters.working.poles \in Poles
  BY DEF IInv, TypeOK, States, Profiles
<1>5. p \in Profiles /\ config' = ApplyLive(config', p)
  BY <1>3, <1>4 DEF FromConfig, ApplyLive, Profiles
<1>6. parameters' = ReplaceWorking(parameters, p)
  BY <1>1
<1> HIDE DEF p
<1>7. /\ parameters' \in States /\ Honest(parameters') /\ parameters'.working = p
      /\ parameters'.persisted = parameters.persisted
      /\ parameters'.generation = parameters.generation
      /\ parameters'.bootPoles = parameters.bootPoles
  BY <1>5, <1>6, ReplaceWorkingFacts DEF IInv, TypeOK
<1>8. Reflects(parameters, flash) => Reflects(parameters', flash')
  BY <1>2, <1>7 DEF Reflects
<1>9. Sound'
  BY <1>2, <1>3, <1>5, <1>7, <1>8 DEF IInv, Sound, DataType, Runs
<1>10. TypeOK'
  BY <1>2, <1>9 DEF IInv, TypeOK, Sound, DataType, client, history
<1>11. QED
  BY <1>2, <1>9, <1>10, AnswersStay DEF IInv

\* What a tune does before it saves leaves the profile and the flash alone.
LEMMA TuneKeeps ==
  ASSUME IInv, StartTune \/ Identify \/ ApplyTune \/ EndTune
  PROVE  IInv'
<1>1. CASE StartTune
  <2>1. PICK g \in TunedGains : tune' = Seed(config, g)
    BY <1>1 DEF StartTune
  <2>2. Seed(config, g) \in MotorParams
    BY ServiceAssumption DEF Seed, MotorParams, Lesser, IInv, TypeOK, Profiles
  <2>3. Sound' /\ TypeOK' /\ UNCHANGED client
    BY <1>1, <2>1, <2>2 DEF StartTune, IInv, Sound, DataType, TypeOK, client, history
  <2>4. QED
    BY <2>3, AnswersStay DEF IInv
<1>2. CASE Identify
  <2>1. PICK g \in TunedGains : tune' = [tune EXCEPT !.gain = g] /\ tune # None
    BY <1>2 DEF Identify
  <2>2. tune' \in MotorParams
    BY <2>1, ServiceAssumption DEF MotorParams, IInv, TypeOK
  <2>3. Sound' /\ TypeOK' /\ UNCHANGED client
    BY <1>2, <2>2 DEF Identify, IInv, Sound, DataType, TypeOK, client, history
  <2>4. QED
    BY <2>3, AnswersStay DEF IInv
<1>3. CASE ApplyTune
  <2>1. config' = ApplyMotor(config, tune) /\ tune \in MotorParams /\ retuned' = TRUE
    BY <1>3 DEF ApplyTune, IInv, TypeOK
  <2>2. config' \in Profiles /\ config'.poles = config.poles
    BY <2>1 DEF ApplyMotor, MotorParams, Profiles, IInv, TypeOK
  <2>3. Sound' /\ TypeOK' /\ UNCHANGED client
    BY <1>3, <2>1, <2>2 DEF ApplyTune, IInv, Sound, DataType, TypeOK, client, history
  <2>4. QED
    BY <2>3, AnswersStay DEF IInv
<1>4. CASE EndTune
  <2>1. Sound' /\ TypeOK' /\ UNCHANGED client
    BY <1>4 DEF EndTune, IInv, Sound, DataType, TypeOK, client, history
  <2>2. QED
    BY <2>1, AnswersStay DEF IInv
<1>5. QED
  BY <1>1, <1>2, <1>3, <1>4

\* The save of a tune: both records are written, or the status is in doubt.
LEMMA SaveTuneKeeps ==
  ASSUME IInv, SaveTune
  PROVE  IInv'
<1> DEFINE p == FromConfig(config, parameters.working)
           t == ReplaceWorking(parameters, p)
<1>1. PICK ok \in BOOLEAN, result \in Results :
        /\ StoreMotor(tune, ok)
        /\ StoreProfile(p, FALSE, result)
        /\ \/ /\ ok /\ result \in {"success", "unchanged"}
              /\ parameters' = Saved(t, flash'.generation)
              /\ inDoubt' = FALSE /\ retuned' = FALSE
           \/ /\ UNCHANGED <<parameters, retuned>>
              /\ inDoubt' = (inDoubt \/ flash' # flash)
  BY DEF SaveTune
<1>2. tune' = None /\ tune \in MotorParams /\ UNCHANGED <<config, remote>>
      /\ UNCHANGED client
  BY DEF SaveTune, IInv, TypeOK
<1>3. commissioned' \in MotorParams \cup {None}
  BY <1>1, <1>2 DEF StoreMotor, IInv, TypeOK
<1>4. parameters.working.poles \in Poles
  BY DEF IInv, TypeOK, States, Profiles
<1>5. p \in Profiles /\ config = ApplyLive(config, p)
  BY <1>4 DEF FromConfig, ApplyLive, Profiles, IInv, TypeOK
<1>6. StoreProfile(p, FALSE, result)
  BY <1>1
<1> HIDE DEF p
<1>7. /\ flash' \in Records \cup {None}
      /\ result \in {"success", "unchanged"} => flash' \in Records /\ flash'.profile = p
  BY <1>5, <1>6, StoreProfileType DEF IInv, Sound
<1>8. t \in States /\ t.working = p /\ t.bootPoles = parameters.bootPoles
  BY <1>5, ReplaceWorkingFacts DEF IInv, TypeOK
<1> HIDE DEF t
<1>9. ASSUME result \in {"success", "unchanged"},
             parameters' = Saved(t, flash'.generation),
             inDoubt' = FALSE, retuned' = FALSE
      PROVE  Sound'
  <2>1. flash'.generation \in Generations /\ flash' # None
    BY <1>7, <1>9, NoneAssumption DEF Records, Generations
  <2>2. /\ parameters' \in States /\ Honest(parameters')
        /\ parameters'.working = p /\ parameters'.persisted = p
        /\ parameters'.generation = flash'.generation
        /\ parameters'.bootPoles = parameters.bootPoles
    BY <1>8, <1>9, <2>1, SavedFacts
  <2>3. Reflects(parameters', flash') /\ Runs(config', parameters')
    BY <1>2, <1>5, <1>7, <1>9, <2>1, <2>2 DEF Reflects, Runs
  <2>4. QED
    BY <1>2, <1>7, <1>9, <2>2, <2>3 DEF IInv, Sound, DataType
<1>10. ASSUME UNCHANGED <<parameters, retuned>>,
              inDoubt' = (inDoubt \/ flash' # flash)
       PROVE  Sound'
  BY <1>2, <1>7, <1>10 DEF IInv, Sound, DataType
<1>11. Sound'
  BY <1>1, <1>9, <1>10 DEF IInv
<1>12. TypeOK'
  BY <1>2, <1>3, <1>11 DEF IInv, TypeOK, Sound, DataType, client, history
<1>13. QED
  BY <1>2, <1>11, <1>12, AnswersStay DEF IInv

\* A restart works with what it could read.
LEMMA BootKeeps ==
  ASSUME IInv, Boot
  PROVE  IInv'
<1>1. PICK r \in {flash, None}, m \in {commissioned, None} :
        /\ parameters' = FromBoot(r)
        /\ config' = BootConfig(r, m)
        /\ inDoubt' = (r # flash)
  BY DEF Boot
<1>2. /\ tune' = None /\ remote' = FALSE /\ cached' = None /\ retuned' = FALSE
      /\ executions' = 0 /\ answers' = {}
      /\ UNCHANGED <<flash, commissioned, asked>>
  BY DEF Boot
<1>3. r \in Records \cup {None} /\ m \in MotorParams \cup {None}
  BY DEF IInv, TypeOK
<1>4. /\ parameters' \in States /\ Honest(parameters') /\ Reflects(parameters', r)
      /\ parameters'.working = Stored(r) /\ parameters'.bootPoles = Stored(r).poles
  BY <1>1, <1>3, FromBootFacts
<1>5. config' = Stored(r) /\ config' \in Profiles
  BY <1>1, <1>3, BootConfigIsProfile
<1>6. Runs(config', parameters') /\ config'.poles = parameters'.bootPoles
  BY <1>4, <1>5 DEF Runs, ApplyLive, Profiles
<1>7. Sound'
  BY <1>1, <1>2, <1>4, <1>5, <1>6 DEF IInv, Sound, DataType
<1>8. TypeOK'
  BY <1>2, <1>7 DEF IInv, TypeOK, Sound, DataType
<1>9. AnswersAreKept'
  BY <1>2 DEF AnswersAreKept
<1>10. QED
  BY <1>7, <1>8, <1>9 DEF IInv

LEMMA ClaimKeeps ==
  ASSUME IInv, Claim
  PROVE  IInv'
<1>1. Sound' /\ TypeOK' /\ UNCHANGED client
  BY DEF Claim, IInv, Sound, DataType, TypeOK, client, history
<1>2. QED
  BY <1>1, AnswersStay DEF IInv

LEMMA NothingKeeps ==
  ASSUME IInv, UNCHANGED vars
  PROVE  IInv'
<1>1. Sound' /\ TypeOK' /\ UNCHANGED client
  BY DEF vars, IInv, Sound, DataType, TypeOK, client, history
<1>2. QED
  BY <1>1, AnswersStay DEF IInv

-----------------------------------------------------------------------------
(* The theorems.                                                           *)

\* The inductive invariant holds in every reachable state.
THEOREM Inductive == Spec => []IInv
<1>1. IInv /\ [Next]_vars => IInv'
  BY ServeDirectlyKeeps, ServeCanKeeps, AskKeeps, LegacyCommandKeeps, TuneKeeps,
     SaveTuneKeeps, BootKeeps, ClaimKeeps, NothingKeeps DEF Next
<1>2. QED
  BY InitSound, <1>1, PTL DEF Spec

\* Every variable stays in its range.
THEOREM TypeCorrect == Spec => []TypeOK
<1>1. IInv => TypeOK
  BY DEF IInv
<1>2. QED
  BY <1>1, Inductive, PTL

\* The status never hides or invents a difference to what a boot would load.
THEOREM StatusIsTrueHolds == Spec => []StatusIsTrue
<1>1. IInv => StatusIsTrue
  <2> SUFFICES ASSUME IInv, ~inDoubt
               PROVE  /\ parameters.dirty <=> parameters.working # Stored(flash)
                      /\ flash # None => parameters.generation = flash.generation
    BY DEF StatusIsTrue
  <2>1. Reflects(parameters, flash) /\ Honest(parameters)
    BY DEF IInv, Sound
  <2>2. Baseline(parameters.persisted) = Stored(flash)
    <3>1. CASE flash = None
      BY <2>1, <3>1 DEF Reflects, Baseline, Stored
    <3>2. CASE flash # None
      <4>1. flash.profile \in Profiles
        BY <3>2 DEF IInv, TypeOK, Records
      <4>2. QED
        BY <2>1, <3>2, <4>1, NoneAssumption DEF Reflects, Baseline, Stored
    <3>3. QED
      BY <3>1, <3>2
  <2>3. QED
    BY <2>1, <2>2 DEF Honest, Reflects
<1>2. QED
  BY <1>1, Inductive, PTL

\* A clean status means that a power cycle changes nothing.
THEOREM CleanBootChangesNothingHolds == Spec => []CleanBootChangesNothing
<1>1. IInv /\ StatusIsTrue => CleanBootChangesNothing
  <2> SUFFICES ASSUME IInv, StatusIsTrue, ~inDoubt, ~retuned, ~parameters.dirty,
                      ~RestartRequired(parameters)
               PROVE  config = BootConfig(flash, commissioned)
    BY DEF CleanBootChangesNothing
  <2>1. parameters.working = Stored(flash)
    BY DEF StatusIsTrue
  <2>2. BootConfig(flash, commissioned) = Stored(flash) /\ Stored(flash) \in Profiles
    BY BootConfigIsProfile DEF IInv, TypeOK
  <2>3. config = ApplyLive(config, Stored(flash)) /\ config.poles = Stored(flash).poles
    BY <2>1 DEF IInv, Sound, Runs, RestartRequired
  <2>4. config = Stored(flash)
    BY <2>2, <2>3 DEF ApplyLive, Profiles
  <2>5. QED
    BY <2>2, <2>4
<1>2. QED
  BY <1>1, Inductive, StatusIsTrueHolds, PTL

\* A retried CAN request acts once and gets one answer, Busy apart.
THEOREM TransactionsActOnceHolds == Spec => []TransactionsActOnce
<1>1. IInv => TransactionsActOnce
  BY DEF IInv, AnswersAreKept, TransactionsActOnce
<1>2. QED
  BY <1>1, Inductive, PTL
=============================================================================
