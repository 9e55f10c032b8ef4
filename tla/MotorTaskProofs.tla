-------------------------- MODULE MotorTaskProofs --------------------------
(***************************************************************************)
(* Theorems of MotorTask: the loop implements FocController, so that all   *)
(* theorems of FocControllerProofs hold of the composed system, its queue  *)
(* never drops a request, and a latched fault means an open bridge even    *)
(* while the auto-tune drives the bridge past the controller.  The second  *)
(* half follows a tune from its start to its end: what it enabled ends     *)
(* with it, and what it stores is what it verified.                        *)
(***************************************************************************)
EXTENDS MotorTask, FocControllerProofs, SequenceTheorems

-----------------------------------------------------------------------------
(* The inductive invariant. *)

\* A running tune has its requests applied before the loop goes on.
QueueFits ==
  /\ QueueHasRoom
  /\ Tuning /\ turn # "apply" => queue = <<>>
  /\ turn = "tick" => Len(queue) <= 1
  /\ turn = "drain" => ~Tuning

\* Before the first frame is delegated no fault can be latched, which the
\* injection relies on: it enables the bridge without asking the controller.
Early == {"Init", "CurrentOffset", "RsPrepare", "RsMeasure", "LPrepare", "LMeasure"}
EarlyTuneIsFaultFree == tune.state \in Early => faults = {}

TaskInv ==
  /\ IInv
  /\ TaskTypeOK
  /\ QueueFits
  /\ EarlyTuneIsFaultFree
  /\ FaultedBridgeIsOff

LEMMA TaskInitInv == TaskInit => TaskInv
<1>1. SUFFICES ASSUME TaskInit PROVE TaskInv
  OBVIOUS
<1>2. IInv
  BY <1>1, InitInv DEF TaskInit
<1>3. NewTune("Idle", config.cells) \in Tunes
  <2>1. config.cells \in CellCounts
    BY <1>1 DEF TaskInit, Init
  <2>2. 0 \in 0..StateTimeout /\ 0 \in 0..MaxRetries
    BY TuneAssumption
  <2>3. QED
    BY <2>1, <2>2 DEF NewTune, Tunes, TuneStates, Terminal, CurrentClasses
<1>4. TaskTypeOK
  <2>1. 0 \in 0..TickDivider - 1 /\ 0 \in 0..SequenceMod - 1
    BY TaskAssumption, ConstantsAssumption
  <2>2. queue \in Seq(ControlRequests) /\ Len(queue) <= QueueCapacity
    BY <1>1 DEF TaskInit, QueueCapacity
  <2>3. QED
    BY <1>1, <1>2, <1>3, <2>1, <2>2 DEF TaskInit, TaskTypeOK, IInv, Turns
<1>5. tune.state = "Idle" /\ queue = <<>> /\ turn = "commands" /\ faults = {}
  BY <1>1 DEF TaskInit, NewTune, Init
<1>6. QED
  BY <1>2, <1>4, <1>5
     DEF TaskInv, QueueFits, QueueHasRoom, EarlyTuneIsFaultFree, Early,
         FaultedBridgeIsOff

-----------------------------------------------------------------------------
(* The auto-tune as functions. *)

\* The requests a tune ever queues at once.
LEMMA RequestSeqs ==
  /\ <<>> \in Seq(ControlRequests) /\ Len(<<>>) = 0
  /\ \A r \in ControlRequests : <<r>> \in Seq(ControlRequests) /\ Len(<<r>>) = 1
  /\ \A r, q \in ControlRequests : <<r, q>> \in Seq(ControlRequests) /\ Len(<<r, q>>) = 2
  /\ \A r, q, p \in ControlRequests :
        <<r, q, p>> \in Seq(ControlRequests) /\ Len(<<r, q, p>>) = 3
<1> DEFINE S == ControlRequests
<1> HIDE DEF S
<1>1. <<>> \in Seq(S) /\ Len(<<>>) = 0
  OBVIOUS
<1>2. \A r \in S : <<r>> \in Seq(S) /\ Len(<<r>>) = 1
  OBVIOUS
<1>3. \A r, q \in S : <<r, q>> \in Seq(S) /\ Len(<<r, q>>) = 2
  OBVIOUS
<1>4. \A r, q, p \in S : <<r, q, p>> \in Seq(S) /\ Len(<<r, q, p>>) = 3
  OBVIOUS
<1>5. QED
  BY <1>1, <1>2, <1>3, <1>4 DEF S

\* The queue takes what fits.
LEMMA QueuedType ==
  ASSUME NEW q \in Seq(ControlRequests), NEW r \in Seq(ControlRequests)
  PROVE  /\ Queued(q, r) \in Seq(ControlRequests)
         /\ Len(Queued(q, r)) <= QueueCapacity
         /\ Len(Queued(q, r)) <= Len(q) + Len(r)
<1> DEFINE s == q \o r
           n == IF Len(s) < QueueCapacity THEN Len(s) ELSE QueueCapacity
<1>1. s \in Seq(ControlRequests) /\ Len(s) = Len(q) + Len(r)
  BY ConcatProperties
<1>2. n \in Nat /\ n <= Len(s) /\ n <= QueueCapacity
  BY <1>1 DEF QueueCapacity
<1>3. \A i \in 1..n : s[i] \in ControlRequests
  BY <1>1, <1>2
<1>4. /\ SubSeq(s, 1, n) \in Seq(ControlRequests)
      /\ Len(SubSeq(s, 1, n)) = IF 1 <= n THEN n - 1 + 1 ELSE 0
  <2> HIDE DEF s, n
  <2>1. QED
    BY <1>2, <1>3, SubSeqProperties
<1>5. Queued(q, r) = SubSeq(s, 1, n)
  BY DEF Queued
<1>6. QED
  <2> HIDE DEF s, n
  <2>1. QED
    BY <1>1, <1>2, <1>4, <1>5

\* Records that may be one tick past the limit, as a slow tick sees them.
Ticked ==
  [state : TuneStates, elapsed : 0..StateTimeout + 1, attempts : 0..MaxRetries,
   offsets : BOOLEAN, sequence : {None} \cup 0..SequenceMod - 1,
   current : CurrentClasses, cells : CellCounts]

LEMMA NewTuneType ==
  ASSUME NEW s \in TuneStates, NEW cells \in CellCounts
  PROVE  NewTune(s, cells) \in Tunes /\ NewTune(s, cells).state = s
<1>1. 0 \in 0..StateTimeout /\ 0 \in 0..MaxRetries
  BY TuneAssumption
<1>2. QED
  BY <1>1 DEF NewTune, Tunes, CurrentClasses

\* What a failure leaves.
LEMMA FailType ==
  ASSUME NEW t \in Ticked, NEW requests \in Seq(ControlRequests)
  PROVE  /\ Fail(t, requests).tune \in Tunes
         /\ Fail(t, requests).tune.state = "Error"
         /\ Fail(t, requests).requests \in Seq(ControlRequests)
         /\ Len(Fail(t, requests).requests) = Len(requests) + 1
<1>1. t.cells \in CellCounts
  BY DEF Ticked
<1>2. "Error" \in TuneStates /\ "DisableAndResync" \in ControlRequests
  BY DEF TuneStates, Terminal, ControlRequests
<1>3. QED
  BY <1>1, <1>2, NewTuneType DEF Fail, Ended, Outcome

\* A failure that nothing else was asked for.
LEMMA FailNowType ==
  ASSUME NEW t \in Ticked
  PROVE  /\ Fail(t, <<>>).tune \in Tunes
         /\ Fail(t, <<>>).tune.state = "Error"
         /\ Fail(t, <<>>).requests \in Seq(ControlRequests)
         /\ Len(Fail(t, <<>>).requests) = 1
<1> DEFINE none == <<>>
<1>1. none \in Seq(ControlRequests) /\ Len(none) = 0
  BY RequestSeqs
<1> HIDE DEF none
<1>2. /\ Fail(t, none).tune \in Tunes
      /\ Fail(t, none).tune.state = "Error"
      /\ Fail(t, none).requests \in Seq(ControlRequests)
      /\ Len(Fail(t, none).requests) = Len(none) + 1
  BY <1>1, FailType
<1>3. QED
  BY <1>1, <1>2 DEF none

LEMMA TunesAreTicked == Tunes \subseteq Ticked
<1>1. 0..StateTimeout \subseteq 0..StateTimeout + 1
  BY TuneAssumption
<1>2. QED
  BY <1>1 DEF Tunes, Ticked

\* The fast path stays in its state or fails.
LEMMA FastStepType ==
  ASSUME NEW t \in Tunes, NEW f \in Frames
  PROVE  LET o == FastStep(t, f)
         IN  /\ o.tune \in Tunes
             /\ o.requests \in Seq(ControlRequests)
             /\ Len(o.requests) <= 1
             /\ \/ o.tune.state = t.state /\ o.requests = <<>>
                \/ o.tune.state = "Error"
<1> DEFINE o == FastStep(t, f)
           m == [t EXCEPT !.sequence = f.sequence, !.current = TuneCurrent(t, f)]
           moved == Outcome(m, <<>>)
<1>1. o = Fail(t, <<>>) \/ o = moved
  BY DEF FastStep
<1>2. CASE o = Fail(t, <<>>)
  <2>1. t \in Ticked
    BY TunesAreTicked
  <2>2. /\ o.tune \in Tunes /\ o.tune.state = "Error"
        /\ o.requests \in Seq(ControlRequests) /\ Len(o.requests) = 1
    BY <1>2, <2>1, FailNowType
  <2>3. QED
    BY <2>2
<1>3. CASE o = moved
  <2>1. f.sequence \in 0..SequenceMod - 1 /\ f.current \in CurrentClasses
    BY DEF Frames
  <2>2. TuneCurrent(t, f) \in CurrentClasses
    BY <2>1 DEF TuneCurrent, CurrentClasses
  <2>3. m \in Tunes
    BY <2>1, <2>2 DEF Tunes
  <2>4. m.state = t.state
    BY DEF Tunes
  <2> HIDE DEF m
  <2>5. QED
    <3> DEFINE none == <<>>
    <3>1. none \in Seq(ControlRequests) /\ Len(none) = 0
      BY RequestSeqs
    <3>2. o.requests = none
      BY <1>3 DEF Outcome
    <3>3. o.tune \in Tunes /\ o.tune.state = t.state
      BY <1>3, <2>3, <2>4 DEF Outcome
    <3> HIDE DEF o, none
    <3>4. /\ o.requests \in Seq(ControlRequests) /\ Len(o.requests) <= 1
      BY <3>1, <3>2
    <3>5. QED
      BY <3>2, <3>3, <3>4 DEF o, none
<1>4. QED
  BY <1>1, <1>2, <1>3

\* What an outcome of a slow tick of t may be, before the limit is checked.
Sound(t, o) ==
  /\ o.tune \in Ticked
  /\ \/ o.tune.elapsed \in 0..StateTimeout
     \/ o.tune.elapsed = t.elapsed /\ (IsRunning(t) => IsRunning(o.tune))
  /\ o.requests \in Seq(ControlRequests)
  /\ Len(o.requests) <= 3
  /\ o.tune.elapsed = t.elapsed => Len(o.requests) <= 1
  /\ o.tune.state \in Early => t.state \in Early

LEMMA StayIsSound ==
  ASSUME NEW t \in Ticked
  PROVE  Sound(t, Stay(t))
BY RequestSeqs DEF Stay, Outcome, Sound

LEMMA FailIsSound ==
  ASSUME NEW t \in Ticked
  PROVE  Sound(t, Fail(t, <<>>))
<1>1. /\ Fail(t, <<>>).tune \in Tunes /\ Fail(t, <<>>).tune.state = "Error"
      /\ Fail(t, <<>>).requests \in Seq(ControlRequests)
      /\ Len(Fail(t, <<>>).requests) = 1
  BY FailNowType
<1> DEFINE o == Fail(t, <<>>)
<1> HIDE DEF o
<1>2. o.tune \in Ticked /\ o.tune.elapsed \in 0..StateTimeout /\ o.tune.state \notin Early
  BY <1>1, TunesAreTicked DEF Tunes, Early, o
<1>3. o.requests \in Seq(ControlRequests) /\ Len(o.requests) = 1
  BY <1>1 DEF o
<1>4. Len(o.requests) <= 3 /\ Len(o.requests) <= 1
  BY <1>3
<1>5. Sound(t, o)
  BY <1>2, <1>3, <1>4 DEF Sound
<1>6. QED
  BY <1>5 DEF o

LEMMA EnterType ==
  ASSUME NEW t \in Ticked, NEW s \in TuneStates
  PROVE  /\ Enter(t, s) \in Ticked /\ Enter(t, s).state = s
         /\ Enter(t, s).elapsed = 0 /\ 0 \in 0..StateTimeout
<1>1. 0 \in 0..StateTimeout + 1 /\ 0 \in 0..StateTimeout
  BY TuneAssumption
<1>2. QED
  BY <1>1 DEF Enter, Ticked

\* The states that lead straight to one other state.
Leading == DOMAIN Following

LEMMA AdvanceIsSound ==
  ASSUME NEW t \in Ticked, t.state \in Leading, t.elapsed # 0
  PROVE  Sound(t, Advance(t))
<1> DEFINE s == Following[t.state]
<1>1. s \in TuneStates /\ (s \in Early => t.state \in Early)
  BY DEF Leading, Following, TuneStates, Terminal, Injecting, Delegating, PiPhases, Early
<1>2. Enter(t, s) \in Ticked /\ Enter(t, s).state = s /\ Enter(t, s).elapsed = 0
      /\ 0 \in 0..StateTimeout
  BY <1>1, EnterType
<1>3. Asking(t.state) \in Seq(ControlRequests) /\ Len(Asking(t.state)) <= 3
  <2>1. {"ApplyMotorParam", "DisableAndResync", "EnableCurrent", "EnableOpenLoop"}
          \subseteq ControlRequests
    BY DEF ControlRequests
  <2>2. QED
    BY <2>1, RequestSeqs DEF Asking
<1> DEFINE e == Enter(t, s)
           offsets == e.offsets \/ t.state = "CurrentOffset"
           a == [e EXCEPT !.offsets = offsets]
<1>4. a \in Ticked /\ a.state = s /\ a.elapsed = 0
  <2>1. e \in Ticked /\ e.state = s /\ e.elapsed = 0 /\ offsets \in BOOLEAN
    BY <1>2
  <2> HIDE DEF e, offsets, s
  <2>2. QED
    BY <2>1 DEF Ticked
<1>5. Advance(t) = [tune |-> a, requests |-> Asking(t.state)]
  BY DEF Advance, Outcome
<1> HIDE DEF a, s
<1>6. QED
  BY <1>1, <1>2, <1>3, <1>4, <1>5 DEF Sound

\* One request at most, with the clock as it was or within the limit.
LEMMA OutcomeIsSound ==
  ASSUME NEW t \in Ticked, NEW u \in Ticked,
         \/ u.elapsed \in 0..StateTimeout
         \/ u.elapsed = t.elapsed /\ (IsRunning(t) => IsRunning(u)),
         u.state \in Early => t.state \in Early,
         NEW r \in Seq(ControlRequests), Len(r) <= 1
  PROVE  Sound(t, Outcome(u, r))
<1> DEFINE o == Outcome(u, r)
<1>1. o.tune = u /\ o.requests = r
  BY DEF Outcome
<1>2. Len(r) <= 3
  BY LenProperties
<1> HIDE DEF o
<1>3. Sound(t, o)
  BY <1>1, <1>2 DEF Sound
<1>4. QED
  BY <1>3 DEF o

\* A move to another state, with or without a new clock.
LEMMA MoveIsSound ==
  ASSUME NEW t \in Ticked, NEW s \in TuneStates \ (Early \cup Terminal),
         NEW r \in Seq(ControlRequests), Len(r) <= 1
  PROVE  /\ Sound(t, Outcome([t EXCEPT !.state = s], r))
         /\ Sound(t, Outcome(Enter(t, s), r))
<1> DEFINE m == [t EXCEPT !.state = s]
           e == Enter(t, s)
<1>1. m \in Ticked /\ m.state = s /\ m.elapsed = t.elapsed /\ IsRunning(m)
  BY DEF Ticked, IsRunning
<1>2. e \in Ticked /\ e.state = s /\ e.elapsed \in 0..StateTimeout
  BY EnterType
<1> HIDE DEF m, e
<1>3. QED
  BY <1>1, <1>2, OutcomeIsSound DEF m, e

LEMMA RejectedIsSound ==
  ASSUME NEW t \in Ticked
  PROVE  Sound(t, Rejected(t))
<1>1. CASE t.attempts + 1 > MaxRetries
  BY <1>1, FailIsSound DEF Rejected
<1>2. CASE ~(t.attempts + 1 > MaxRetries)
  <2> DEFINE m == [t EXCEPT !.state = "RetryWait", !.attempts = @ + 1]
             r == <<"DisableAndResync">>
  <2>1. t.attempts \in Nat /\ t.attempts + 1 \in 0..MaxRetries
    BY <1>2, TuneAssumption DEF Ticked
  <2>2. "RetryWait" \in TuneStates \ (Early \cup Terminal)
    BY DEF TuneStates, Delegating, PiPhases, Early, Terminal
  <2>3. m \in Ticked /\ m.state \notin Early /\ m.elapsed = t.elapsed /\ IsRunning(m)
    BY <2>1, <2>2 DEF Ticked, IsRunning
  <2>4. r \in Seq(ControlRequests) /\ Len(r) = 1
    BY RequestSeqs DEF ControlRequests
  <2>5. Rejected(t) = Outcome(m, r)
    BY <1>2 DEF Rejected
  <2> HIDE DEF m, r
  <2>6. Len(r) <= 1
    BY <2>4
  <2>7. QED
    BY <2>3, <2>4, <2>5, <2>6, OutcomeIsSound
<1>3. QED
  BY <1>1, <1>2

\* States that decide on their own.
LEMMA DecidingIsSound ==
  ASSUME NEW t \in Ticked, t.elapsed # 0, NEW o \in Deciding(t)
  PROVE  Sound(t, o)
<1>1. o \in {Stay(t), Advance(t), Fail(t, <<>>)}
  BY DEF Deciding
<1>2. o = Advance(t) => t.state \in Leading \/ o \in {Stay(t), Fail(t, <<>>)}
  BY DEF Deciding, Leading, Following, Injecting
<1>3. QED
  BY <1>1, <1>2, StayIsSound, FailIsSound, AdvanceIsSound

LEMMA VerifyingIsSound ==
  ASSUME NEW t \in Ticked, t.state \in PiPhases,
         NEW control, NEW o \in Verifying(t, control)
  PROVE  Sound(t, o)
<1> DEFINE none == <<>>
           iq == <<"SetIq">>
<1>1. /\ none \in Seq(ControlRequests) /\ Len(none) <= 1
      /\ iq \in Seq(ControlRequests) /\ Len(iq) <= 1
  <2>1. "SetIq" \in ControlRequests
    BY DEF ControlRequests
  <2>2. Len(none) = 0 /\ Len(iq) = 1 /\ none \in Seq(ControlRequests) /\ iq \in Seq(ControlRequests)
    BY <2>1, RequestSeqs
  <2> HIDE DEF none, iq
  <2>3. QED
    BY <2>2
<1>2. {"Baseline", "Step", "OpenLoopPrepare", "CurrentPiCalc"} 
          \subseteq TuneStates \ (Early \cup Terminal)
  BY DEF TuneStates, Delegating, PiPhases, Early, Terminal
<1>3. o \in {Fail(t, <<>>), Stay(t), Rejected(t),
             Outcome([t EXCEPT !.state = "Baseline"], none),
             Outcome([t EXCEPT !.state = "Step"], iq),
             Outcome(Enter(t, "OpenLoopPrepare"), iq),
             Outcome(Enter(t, "CurrentPiCalc"), none)}
  BY DEF Verifying, Stay, PiPhases
<1> HIDE DEF none, iq
<1>4. QED
  BY <1>1, <1>2, <1>3, FailIsSound, StayIsSound, RejectedIsSound, MoveIsSound

LEMMA SpinningIsSound ==
  ASSUME NEW t \in Ticked, t.elapsed # 0, t.state \in {"OpenLoopRun", "FluxMeasure"},
         NEW control, NEW o \in Spinning(t, control)
  PROVE  Sound(t, o)
<1> DEFINE r == <<"SetOpenLoop">>
<1>1. r \in Seq(ControlRequests) /\ Len(r) <= 1
  <2>1. "SetOpenLoop" \in ControlRequests
    BY DEF ControlRequests
  <2>2. r \in Seq(ControlRequests) /\ Len(r) = 1
    BY <2>1, RequestSeqs
  <2> HIDE DEF r
  <2>3. QED
    BY <2>2
<1>2. o \in {Stay(t), Advance(t), Fail(t, <<>>), Outcome(t, r)}
  BY DEF Spinning
<1>3. t.state \in Leading
  BY DEF Leading, Following
<1> HIDE DEF r
<1>4. Sound(t, Outcome(t, r))
  BY <1>1, OutcomeIsSound
<1>5. QED
  BY <1>2, <1>3, <1>4, StayIsSound, FailIsSound, AdvanceIsSound

\* A slow tick leaves a record within its bounds and asks for three things at
\* most; it never leads back into the phases before the hand-over.
LEMMA TaskTickType ==
  ASSUME NEW t \in Tunes, IsRunning(t), NEW control, NEW l \in TaskTick(t, control)
  PROVE  /\ l.tune \in Tunes
         /\ l.requests \in Seq(ControlRequests)
         /\ Len(l.requests) <= 3
         /\ l.tune.state \in Early => t.state \in Early
<1> DEFINE k == [t EXCEPT !.elapsed = @ + 1]
<1>1. k \in Ticked /\ k.state = t.state /\ k.elapsed = t.elapsed + 1 /\ k.elapsed # 0
  <2>1. t.elapsed \in 0..StateTimeout /\ t.elapsed + 1 \in 0..StateTimeout + 1
        /\ t.elapsed + 1 # 0
    BY TuneAssumption DEF Tunes
  <2>2. QED
    BY <2>1 DEF Tunes, Ticked
<1> HIDE DEF k
<1>2. PICK o : /\ l = Limited(o)
               /\ k.state \in PiPhases => o \in Verifying(k, control)
               /\ k.state \in {"OpenLoopRun", "FluxMeasure"} => o \in Spinning(k, control)
               /\ k.state \notin PiPhases \cup {"OpenLoopRun", "FluxMeasure"} => o \in Deciding(k)
  BY <1>1 DEF TaskTick, k, PiPhases
<1>3. Sound(k, o)
  <2>1. CASE k.state \in PiPhases
    BY <1>1, <1>2, <2>1, VerifyingIsSound
  <2>2. CASE k.state \in {"OpenLoopRun", "FluxMeasure"}
    BY <1>1, <1>2, <2>2, SpinningIsSound DEF PiPhases
  <2>3. CASE k.state \notin PiPhases \cup {"OpenLoopRun", "FluxMeasure"}
    BY <1>1, <1>2, <2>3, DecidingIsSound
  <2>4. QED
    BY <2>1, <2>2, <2>3
<1>4. CASE IsRunning(o.tune) /\ o.tune.elapsed > StateTimeout
  <2>1. l = Fail(o.tune, o.requests)
    BY <1>2, <1>4 DEF Limited
  <2>2. o.tune.elapsed = k.elapsed
    BY <1>3, <1>4, TuneAssumption DEF Sound
  <2>3. Len(o.requests) \in Nat /\ Len(o.requests) <= 1
    BY <1>3, <2>2, LenProperties DEF Sound
  <2>4. /\ l.tune \in Tunes /\ l.tune.state = "Error"
        /\ l.requests \in Seq(ControlRequests) /\ Len(l.requests) = Len(o.requests) + 1
    BY <1>3, <2>1, FailType DEF Sound
  <2>5. QED
    BY <2>3, <2>4 DEF Early
<1>5. CASE ~IsRunning(o.tune) \/ ~(o.tune.elapsed > StateTimeout)
  <2>1. l = o
    BY <1>2, <1>5 DEF Limited
  <2>2. o.tune.elapsed \in 0..StateTimeout
    <3>1. o.tune.elapsed \in 0..StateTimeout + 1
      BY <1>3 DEF Sound, Ticked
    <3>2. CASE ~(o.tune.elapsed > StateTimeout)
      BY <3>1, <3>2, TuneAssumption
    <3>3. CASE ~IsRunning(o.tune)
      BY <1>1, <1>3, <3>3 DEF Sound, IsRunning
    <3>4. QED
      BY <1>5, <3>2, <3>3
  <2>3. o.tune \in Tunes
    BY <1>3, <2>2 DEF Sound, Ticked, Tunes
  <2>4. QED
    BY <1>1, <1>3, <2>1, <2>3 DEF Sound
<1>6. QED
  BY <1>4, <1>5

-----------------------------------------------------------------------------
(* Every step of the loop is a step of the controller, or none. *)

LEMMA GainsType ==
  ASSUME NEW t \in Tunes
  PROVE  Gains(t) \in Tunings
<1>1. t.attempts \in 0..MaxRetries
  BY DEF Tunes
<1>2. t.attempts + 1 \in 1..MaxRetries + 1
  BY <1>1, TuneAssumption
<1>3. QED
  BY <1>2, TuneAssumption DEF Gains

LEMMA ArrivingType == Arriving \subseteq NewFrames
BY DEF Arriving

LEMMA ControllerFrameRefines ==
  ASSUME NEW f \in Arriving, ControllerFrame(f)
  PROVE  Frame
BY ArrivingType DEF ControllerFrame, Frame

LEMMA ApplyRefines ==
  ASSUME TaskTypeOK, NEW request, ApplyRequest(request)
  PROVE  [Next]_vars
<1>1. CASE request = "DisableAndResync"
  BY <1>1 DEF ApplyRequest, Next, Command
<1>2. CASE request \in {"EnableCurrent", "EnableOpenLoop"}
  <2>1. PICK mode \in {"Current", "OpenLoop"} : TuneEnable(mode)
    BY <1>2 DEF ApplyRequest
  <2>2. mode \in Modes
    BY DEF Modes
  <2>3. QED
    BY <2>1, <2>2 DEF TuneEnable, Attempt, Next, Command
<1>3. CASE request \in {"SetIq", "SetOpenLoop"}
  BY <1>3 DEF ApplyRequest
<1>4. CASE request = "ApplyMotorParam"
  <2>1. Gains(tune) \in Tunings
    BY GainsType DEF TaskTypeOK
  <2>2. QED
    BY <1>4, <2>1 DEF ApplyRequest, Attempt, Next, Command
<1>5. QED
  BY <1>1, <1>2, <1>3, <1>4 DEF ApplyRequest

LEMMA StepRefines == TaskTypeOK /\ [TaskNext]_allVars => [Next]_vars
<1>1. SUFFICES ASSUME TaskTypeOK, TaskNext PROVE [Next]_vars
  BY DEF allVars
<1>2. CASE Abort \/ LeaseEnds
  BY <1>2 DEF Abort, LeaseEnds, Next, Command
<1>3. CASE Claim \/ AutoTuneStart \/ Tick \/ EndTick
  BY <1>3 DEF Claim, AutoTuneStart, Tick, EndTick
<1>4. CASE \E mode \in Modes : UserEnable(mode)
  BY <1>4 DEF UserEnable, Next, Command
<1>5. CASE UserChange
  BY <1>5 DEF UserChange, Next, Command
<1>6. CASE ParameterRequest
  BY <1>6 DEF ParameterRequest, Next, Command
<1>7. CASE NoFrame
  BY <1>7 DEF NoFrame, Next
<1>8. CASE TuneFrame
  BY <1>8, ControllerFrameRefines DEF TuneFrame, Next
<1>9. CASE PopRequest
  BY <1>1, <1>9, ApplyRefines DEF PopRequest
<1>10. CASE SaveTune
  BY <1>10 DEF SaveTune, Next
<1>11. CASE NormalFrame
  BY <1>11, ControllerFrameRefines DEF NormalFrame, Next
<1>12. QED
  BY <1>1, <1>2, <1>3, <1>4, <1>5, <1>6, <1>7, <1>8, <1>9, <1>10, <1>11
     DEF TaskNext, Commands, Loop

-----------------------------------------------------------------------------
(* The inductive step. *)

\* A frame of the controller enables the bridge only if nothing is latched.
LEMMA FrameEnables ==
  ASSUME NEW f, ControllerFrame(f)
  PROVE  enabled' = output' /\ (output' => faults' = {}) /\ enabled' \in BOOLEAN
<1>1. PICK valid \in BOOLEAN, stalled \in Stalls : Step(f, valid, stalled)
  BY DEF ControllerFrame
<1>2. CASE \E t : CalibrationStep(f, valid, t)
  BY <1>2 DEF CalibrationStep, ControllerFrame
<1>3. CASE \E t : ProtectedStep(f, valid, stalled, t)
  BY <1>3 DEF ProtectedStep, OffStep, RunStep, ControllerFrame
<1>4. QED
  BY <1>1, <1>2, <1>3 DEF Step

\* What abort_tuning leaves is in order in every state of the controller.
LEMMA DrainedInv ==
  ASSUME TaskInv, Drained, IInv', turn = "commands", turn' = "commands",
         ticks' = ticks, remote' \in BOOLEAN, taken' = taken,
         tuned' = tuned, disturbed' = disturbed
  PROVE  TaskInv'
<1>1. tune \in Tunes /\ tune.cells \in CellCounts
  BY DEF TaskInv, TaskTypeOK, Tunes
<1>2. tune' \in Tunes /\ tune'.state \in Terminal
  <2>1. CASE Tuning
    BY <1>1, <2>1, NewTuneType DEF Drained, Ended, TuneStates, Terminal
  <2>2. CASE ~Tuning
    BY <1>1, <2>2 DEF Drained, Tuning, IsRunning
  <2>3. QED
    BY <2>1, <2>2
<1>3. queue' = <<>> /\ enabled' = FALSE
  BY DEF Drained
<1>4. TaskTypeOK'
  <2>1. queue' \in Seq(ControlRequests) /\ Len(queue') <= QueueCapacity /\ QueueHasRoom'
    BY <1>3, RequestSeqs DEF QueueCapacity, QueueHasRoom
  <2>2. QED
    BY <1>2, <1>3, <2>1 DEF TaskInv, TaskTypeOK, IInv
<1>5. QED
  BY <1>2, <1>3, <1>4, RequestSeqs
     DEF TaskInv, QueueFits, QueueHasRoom, EarlyTuneIsFaultFree, Early, Terminal,
         FaultedBridgeIsOff, Tuning, IsRunning

\* Commands that leave tune, queue and bridge alone and latch nothing.
LEMMA UserInv ==
  ASSUME TaskInv, IInv', faults' \subseteq faults, disturbed' \in BOOLEAN,
         tuned' \in BOOLEAN, UNCHANGED <<tune, queue, enabled, ticks, turn, remote, taken>>
  PROVE  TaskInv'
<1>1. TaskTypeOK'
  BY DEF TaskInv, TaskTypeOK, IInv
<1>2. QED
  BY <1>1 DEF TaskInv, QueueFits, QueueHasRoom, Tuning, EarlyTuneIsFaultFree, FaultedBridgeIsOff

LEMMA StartInv ==
  ASSUME TaskInv, IInv', AutoTuneStart
  PROVE  TaskInv'
<1>1. tune' \in Tunes /\ tune'.state = "Init"
  BY NewTuneType DEF AutoTuneStart, TaskInv, IInv, TypeOK, TuneStates
<1>2. faults = {} /\ ~enabled
  BY DEF AutoTuneStart, CanClaim, TaskInv, IInv, FaultIffLatched
<1>3. queue' = <<>> /\ queue' \in Seq(ControlRequests) /\ Len(queue') <= QueueCapacity
      /\ QueueHasRoom'
  BY RequestSeqs DEF AutoTuneStart, QueueCapacity, QueueHasRoom
<1>4. TaskTypeOK'
  BY <1>1, <1>3 DEF AutoTuneStart, TaskInv, TaskTypeOK, IInv, StorageSafe, TypeOK
<1>5. QED
  BY <1>1, <1>2, <1>3, <1>4
     DEF AutoTuneStart, TaskInv, QueueFits, EarlyTuneIsFaultFree, FaultedBridgeIsOff, vars

LEMMA TuneFrameInv ==
  ASSUME TaskInv, IInv', TuneFrame
  PROVE  TaskInv'
<1>1. PICK f \in Arriving :
        LET o == FastStep(tune, f)
            action == FastAction(o.tune)
        IN /\ tune' = o.tune
           /\ queue' = Queued(queue, o.requests)
           /\ taken' = f.sequence
           /\ \/ action = "Delegate" /\ ControllerFrame(f)
              \/ action # "Delegate" /\ enabled' = (action = "Inject") /\ UNCHANGED vars
  BY DEF TuneFrame
<1>2. f \in Frames /\ f.sequence \in 0..SequenceMod - 1
  BY ArrivingType DEF NewFrames, Frames
<1> DEFINE o == FastStep(tune, f)
<1>3. /\ o.tune \in Tunes /\ o.requests \in Seq(ControlRequests) /\ Len(o.requests) <= 1
      /\ (o.tune.state = tune.state /\ o.requests = <<>>) \/ o.tune.state = "Error"
  BY <1>2, FastStepType DEF TaskInv, TaskTypeOK
<1>4. /\ tune' = o.tune /\ queue' = Queued(queue, o.requests) /\ taken' = f.sequence
      /\ \/ FastAction(o.tune) = "Delegate" /\ ControllerFrame(f)
         \/ /\ FastAction(o.tune) # "Delegate"
            /\ enabled' = (FastAction(o.tune) = "Inject") /\ UNCHANGED vars
  BY <1>1
<1> HIDE DEF o
<1>5. queue = <<>> /\ queue \in Seq(ControlRequests) /\ Len(queue) = 0 /\ turn = "commands"
  BY RequestSeqs DEF TuneFrame, TaskInv, QueueFits
<1>6. queue' \in Seq(ControlRequests) /\ Len(queue') <= QueueCapacity /\ Len(queue') <= 1
  <2>1. Len(queue') <= Len(queue) + Len(o.requests)
    BY <1>3, <1>4, <1>5, QueuedType
  <2>2. queue' \in Seq(ControlRequests) /\ Len(queue') <= QueueCapacity
    BY <1>3, <1>4, <1>5, QueuedType
  <2>3. Len(queue') \in Nat /\ Len(o.requests) \in Nat
    BY <1>3, <2>2, LenProperties
  <2>4. QED
    BY <1>3, <1>5, <2>1, <2>2, <2>3
<1>7. Tuning' => queue' = <<>>
  <2>1. SUFFICES ASSUME o.requests = <<>> PROVE queue' = <<>>
    BY <1>3, <1>4 DEF Tuning, IsRunning, Terminal
  <2>2. Len(o.requests) = 0
    BY <2>1, RequestSeqs
  <2>3. Len(queue') <= 0
    BY <1>3, <1>4, <1>5, <2>2, QueuedType
  <2>4. QED
    BY <1>6, <2>3, EmptySeq, LenProperties
<1>8. enabled' \in BOOLEAN /\ (faults' # {} => ~enabled')
      /\ (tune'.state \in Early => faults' = {})
  <2>1. CASE FastAction(o.tune) = "Delegate" /\ ControllerFrame(f)
    <3>1. o.tune.state \notin Early
      BY <2>1 DEF FastAction, Delegating, PiPhases, Injecting, Early
    <3>2. QED
      BY <1>4, <2>1, <3>1, FrameEnables
  <2>2. CASE FastAction(o.tune) # "Delegate"
    <3>1. FastAction(o.tune) = "Inject" => o.tune.state = tune.state /\ tune.state \in Early
      BY <1>3, <2>2 DEF FastAction, Injecting, Delegating, PiPhases, Early
    <3>2. o.tune.state \in Early => o.tune.state = tune.state
      BY <1>3 DEF Early
    <3>3. faults' = faults
      BY <1>4, <2>2 DEF vars
    <3>4. QED
      BY <1>4, <2>2, <3>1, <3>2, <3>3 DEF TaskInv, EarlyTuneIsFaultFree
  <2>3. QED
    BY <1>4, <2>1, <2>2
<1>9. ticks' \in 0..TickDivider - 1
  BY TaskAssumption DEF TuneFrame, TaskInv, TaskTypeOK
<1>10. TaskTypeOK'
  BY <1>2, <1>3, <1>4, <1>6, <1>8, <1>9 DEF TuneFrame, TaskInv, TaskTypeOK, IInv, Turns
<1>11. QueueFits'
  <2>1. QueueHasRoom'
    BY <1>6, LenProperties DEF QueueHasRoom
  <2>2. turn' # "drain"
    BY DEF TuneFrame
  <2>3. QED
    BY <1>6, <1>7, <2>1, <2>2 DEF QueueFits
<1>12. QED
  BY <1>8, <1>10, <1>11 DEF TaskInv, EarlyTuneIsFaultFree, FaultedBridgeIsOff

LEMMA TickInv ==
  ASSUME TaskInv, IInv', Tick
  PROVE  TaskInv'
<1>1. CASE Tuning
  <2>1. PICK o \in TaskTick(tune, state) : tune' = o.tune /\ queue' = Queued(queue, o.requests)
    BY <1>1 DEF Tick
  <2>2. /\ o.tune \in Tunes /\ o.requests \in Seq(ControlRequests) /\ Len(o.requests) <= 3
        /\ o.tune.state \in Early => tune.state \in Early
    BY <1>1, TaskTickType DEF Tuning, TaskInv, TaskTypeOK
  <2>3. queue = <<>> /\ queue \in Seq(ControlRequests) /\ Len(queue) = 0
    BY <1>1, RequestSeqs DEF Tick, TaskInv, QueueFits
  <2>4. queue' \in Seq(ControlRequests) /\ Len(queue') <= QueueCapacity
        /\ Len(queue') <= Len(queue) + Len(o.requests)
    BY <2>1, <2>2, <2>3, QueuedType
  <2>5. Len(queue') <= 3
    BY <2>2, <2>3, <2>4, LenProperties
  <2>6. QED
    BY <2>1, <2>2, <2>4, <2>5
       DEF Tick, TaskInv, TaskTypeOK, IInv, Turns, QueueFits, QueueHasRoom,
           EarlyTuneIsFaultFree, FaultedBridgeIsOff, vars
<1>2. CASE ~Tuning
  BY <1>2 DEF Tick, TaskInv, TaskTypeOK, IInv, Turns, QueueFits, QueueHasRoom, Tuning,
              EarlyTuneIsFaultFree, FaultedBridgeIsOff, vars
<1>3. QED
  BY <1>1, <1>2

LEMMA PopInv ==
  ASSUME TaskInv, IInv', PopRequest
  PROVE  TaskInv'
<1>1. queue \in Seq(ControlRequests) /\ queue # <<>> /\ queue' = Tail(queue)
  BY DEF PopRequest, TaskInv, TaskTypeOK
<1>2. queue' \in Seq(ControlRequests) /\ Len(queue') = Len(queue) - 1
  BY <1>1, HeadTailProperties
<1>3. faults' = faults /\ tuned' \in BOOLEAN
  <2>1. ApplyRequest(Head(queue)) /\ tuned \in BOOLEAN
    BY DEF PopRequest, TaskInv, TaskTypeOK
  <2>2. \A mode \in Modes : TuneEnable(mode) => faults' = faults
    BY DEF TuneEnable, Attempt, Enable, vars
  <2>3. ApplyRequest(Head(queue)) => faults' = faults
    BY <2>2 DEF ApplyRequest, Attempt, DisableAndResync, EnterIdle, ApplyMotorParam,
                ApplyLiveProfile, ApplyProfile, Modes, vars
  <2>4. ApplyRequest(Head(queue)) => tuned' \in BOOLEAN
    BY <2>1 DEF ApplyRequest, TuneEnable
  <2>5. QED
    BY <2>1, <2>3, <2>4
<1>4. Len(queue') <= QueueCapacity /\ Len(queue') <= 3
  BY <1>1, <1>2, LenProperties DEF TaskInv, QueueFits, QueueHasRoom, QueueCapacity
<1>5. TaskTypeOK'
  BY <1>2, <1>3, <1>4 DEF PopRequest, TaskInv, TaskTypeOK, IInv, Turns
<1>6. QueueFits'
  BY <1>4 DEF PopRequest, TaskInv, QueueFits, QueueHasRoom, Tuning
<1>7. QED
  BY <1>3, <1>5, <1>6 DEF PopRequest, TaskInv, EarlyTuneIsFaultFree, FaultedBridgeIsOff

LEMMA SaveInv ==
  ASSUME TaskInv, IInv', SaveTune
  PROVE  TaskInv'
<1>1. PICK saved \in BOOLEAN : /\ tune' = Ended(tune, IF saved THEN "Done" ELSE "Error")
                               /\ queue' = Queued(queue, <<"DisableAndResync">>)
  BY DEF SaveTune
<1>2. tune' \in Tunes /\ tune'.state \in Terminal
  <2>1. tune.cells \in CellCounts
    BY DEF TaskInv, TaskTypeOK, Tunes
  <2>2. (IF saved THEN "Done" ELSE "Error") \in TuneStates \cap Terminal
    BY DEF TuneStates, Terminal
  <2>3. QED
    BY <1>1, <2>1, <2>2, NewTuneType DEF Ended
<1>3. queue' \in Seq(ControlRequests) /\ Len(queue') <= QueueCapacity /\ Len(queue') <= 3
  <2> DEFINE r == <<"DisableAndResync">>
  <2>1. r \in Seq(ControlRequests) /\ Len(r) = 1
    BY RequestSeqs DEF ControlRequests
  <2>2. queue \in Seq(ControlRequests) /\ Len(queue) = 0
    BY RequestSeqs DEF SaveTune
  <2> HIDE DEF r
  <2>3. queue' = Queued(queue, r)
    BY <1>1 DEF r
  <2>4. /\ queue' \in Seq(ControlRequests) /\ Len(queue') <= QueueCapacity
        /\ Len(queue') <= Len(queue) + Len(r)
    BY <2>1, <2>2, <2>3, QueuedType
  <2>5. QED
    BY <2>1, <2>2, <2>4, LenProperties
<1>4. faults' = faults
  BY DEF SaveTune, Resynchronize, vars
<1>5. TaskTypeOK'
  BY <1>2, <1>3 DEF SaveTune, TaskInv, TaskTypeOK, IInv, Turns
<1>6. QueueFits'
  BY <1>2, <1>3 DEF SaveTune, QueueFits, QueueHasRoom, Tuning, IsRunning
<1>7. QED
  BY <1>2, <1>4, <1>5, <1>6
     DEF SaveTune, TaskInv, EarlyTuneIsFaultFree, Early, Terminal, FaultedBridgeIsOff

LEMMA NormalFrameInv ==
  ASSUME TaskInv, IInv', NormalFrame
  PROVE  TaskInv'
<1>1. PICK f \in Arriving : ControllerFrame(f) /\ taken' = f.sequence
  BY DEF NormalFrame
<1>2. f.sequence \in 0..SequenceMod - 1
  BY ArrivingType DEF NewFrames, Frames
<1>3. enabled' \in BOOLEAN /\ (enabled' => faults' = {})
  BY <1>1, FrameEnables
<1>4. tune.state \notin Early /\ queue' = <<>>
  <2>1. tune.state \in Terminal
    BY DEF NormalFrame, Tuning, IsRunning
  <2>2. QED
    BY <2>1 DEF NormalFrame, Early, Terminal
<1>5. QED
  BY <1>1, <1>2, <1>3, <1>4
     DEF NormalFrame, TaskInv, TaskTypeOK, IInv, Turns, QueueFits, QueueHasRoom, Tuning,
         EarlyTuneIsFaultFree, FaultedBridgeIsOff

LEMMA TaskNextInv == TaskInv /\ [TaskNext]_allVars => TaskInv'
<1>1. SUFFICES ASSUME TaskInv, [TaskNext]_allVars PROVE TaskInv'
  OBVIOUS
<1>2. IInv'
  BY <1>1, StepRefines, NextInv DEF TaskInv
<1>3. CASE Abort \/ LeaseEnds \/ NoFrame
  <2>1. Drained /\ turn = "commands" /\ turn' = turn /\ ticks' = ticks /\ taken' = taken
        /\ tuned' = tuned /\ disturbed' = disturbed /\ remote' \in {remote, FALSE}
    BY <1>3 DEF Abort, LeaseEnds, NoFrame
  <2>2. remote' \in BOOLEAN
    BY <1>1, <2>1 DEF TaskInv, TaskTypeOK
  <2>3. QED
    BY <1>1, <1>2, <2>1, <2>2, DrainedInv
<1>4. CASE Claim
  BY <1>1, <1>2, <1>4
     DEF Claim, TaskInv, TaskTypeOK, IInv, QueueFits, QueueHasRoom, Tuning,
         EarlyTuneIsFaultFree, FaultedBridgeIsOff, vars
<1>5. CASE AutoTuneStart
  BY <1>1, <1>2, <1>5, StartInv
<1>6. CASE (\E mode \in Modes : UserEnable(mode)) \/ UserChange \/ ParameterRequest
  <2>1. faults' \subseteq faults
    BY <1>6 DEF UserEnable, Enable, UserChange, ClearFault, SetCellCount, SetTuning, Configure,
                ParameterRequest, ApplyLiveProfile, ReloadProfile, ApplyProfile, Resynchronize
  <2>2. tuned' \in BOOLEAN /\ disturbed' \in BOOLEAN
    <3>1. tuned \in BOOLEAN /\ disturbed \in BOOLEAN /\ Tuning \in BOOLEAN
      BY <1>1 DEF TaskInv, TaskTypeOK, Tuning, IsRunning
    <3>2. QED
      BY <1>6, <3>1 DEF UserEnable, UserChange, ParameterRequest
  <2>3. UNCHANGED <<tune, queue, enabled, ticks, turn, remote, taken>>
    BY <1>6 DEF UserEnable, UserChange, ParameterRequest
  <2>4. QED
    BY <1>1, <1>2, <2>1, <2>2, <2>3, UserInv
<1>7. CASE TuneFrame
  BY <1>1, <1>2, <1>7, TuneFrameInv
<1>8. CASE Tick
  BY <1>1, <1>2, <1>8, TickInv
<1>9. CASE PopRequest
  BY <1>1, <1>2, <1>9, PopInv
<1>10. CASE SaveTune
  BY <1>1, <1>2, <1>10, SaveInv
<1>11. CASE EndTick
  BY <1>1, <1>2, <1>11
     DEF EndTick, TaskInv, TaskTypeOK, IInv, Turns, QueueFits, QueueHasRoom, Tuning,
         EarlyTuneIsFaultFree, FaultedBridgeIsOff, vars
<1>12. CASE NormalFrame
  BY <1>1, <1>2, <1>12, NormalFrameInv
<1>13. CASE UNCHANGED allVars
  BY <1>1, <1>2, <1>13
     DEF allVars, taskVars, vars, TaskInv, TaskTypeOK, IInv, QueueFits, QueueHasRoom, Tuning,
         EarlyTuneIsFaultFree, FaultedBridgeIsOff
<1>14. QED
  BY <1>1, <1>3, <1>4, <1>5, <1>6, <1>7, <1>8, <1>9, <1>10, <1>11, <1>12, <1>13
     DEF TaskNext, Commands, Loop

-----------------------------------------------------------------------------
(* Theorems. *)

\* The invariant holds of the composed system.
THEOREM TaskInductive == TaskSpec => []TaskInv
<1>1. QED
  BY TaskInitInv, TaskNextInv, PTL DEF TaskSpec

\* The loop, with commands, tune and frames, is the controller of FocController
\* with its commands and frames: the theorems about the controller hold of it.
THEOREM TaskImplementsController == TaskSpec => Spec
<1>1. TaskInit => Init
  BY DEF TaskInit
<1>2. TaskInv /\ [TaskNext]_allVars => [Next]_vars
  BY StepRefines DEF TaskInv
<1>3. QED
  BY <1>1, <1>2, TaskInductive, PTL DEF TaskSpec, Spec

\* The loop is type correct.
THEOREM TaskTypeCorrect == TaskSpec => []TaskTypeOK
<1>1. TaskInv => TaskTypeOK
  BY DEF TaskInv
<1>2. QED
  BY <1>1, TaskInductive, PTL

\* push_request never drops a request.
THEOREM QueueHasRoomHolds == TaskSpec => []QueueHasRoom
<1>1. TaskInv => QueueHasRoom
  BY DEF TaskInv, QueueFits
<1>2. QED
  BY <1>1, TaskInductive, PTL

\* A latched fault means an open bridge, whoever drives it.
THEOREM FaultedBridgeIsOffHolds == TaskSpec => []FaultedBridgeIsOff
<1>1. TaskInv => FaultedBridgeIsOff
  BY DEF TaskInv
<1>2. QED
  BY <1>1, TaskInductive, PTL

\* The tune can not switch modes or change a running loop either.
THEOREM TaskKeepsConfiguration ==
  TaskSpec => RunningIsUndisturbed /\ FaultsLatched
<1>1. QED
  BY TaskImplementsController, RunningIsUndisturbedHolds, FaultsAreLatched, PTL

-----------------------------------------------------------------------------
(* The inductive invariant of a tune that nobody disturbs. *)

\* The states behind the flux measurement, and those in which the gains of the
\* last attempt are in force.
Late == {"ObserverInit", "ObserverVerify", "PlLConfig", "TransitionVerify", "Save"}
Applied == {"WaitRunning", "Baseline", "Step", "OpenLoopPrepare", "OpenLoopRun", "FluxMeasure"}
             \cup Late

\* An ended tune has its disable wait as the last request, or nothing turns for it.
EndedTuneDisables ==
  ~Tuning => IF queue = <<>> THEN Running => ~tuned ELSE queue[Len(queue)] = "DisableAndResync"

\* A tune has offsets of its own behind their measurement, and the controller has.
OffsetsAreKnown ==
  Tuning => calibrated /\ (tune.state \notin {"Init", "CurrentOffset"} => tune.offsets)

CellsAgree == Tuning /\ ~disturbed => tune.cells = config.cells

\* What the controller's last frame left, seen by the slow tick behind it.
FrameIsFresh ==
  turn = "tick" /\ tune.state \in Delegating /\ ~disturbed =>
    /\ state \in {"Idle"} \cup Modes => junction < Shutdown
    /\ last.bus <= MaximumBus(config.cells)
    /\ tune.current = "low" => last.current = "low"

\* Until it hands gains to the controller, the tune leaves it as it found it.
ReadyForGains ==
  tune.state \in Early \cup {"CurrentPiCalc"} /\ ~disturbed => StorageSafe /\ queue = <<>>

\* From then on the gains of the last attempt are in force, or about to be.
GainsAreApplied ==
  tune.state \in Applied /\ ~disturbed =>
    \/ config.tuning = Gains(tune)
    \/ turn = "apply" /\ queue # <<>> /\ Head(queue) = "ApplyMotorParam" /\ StorageSafe

\* Behind the flux measurement the controller comes to rest and stays there.
RestsToTheEnd ==
  tune.state \in Late /\ ~disturbed =>
    /\ calibrated /\ faults = {} /\ junction < Shutdown
    /\ last.bus <= MaximumBus(config.cells)
    /\ \/ state = "Idle" /\ queue = <<>>
       \/ tune.state = "ObserverInit" /\ turn = "apply" /\ queue = <<"DisableAndResync">>
    /\ turn = "tick" \/ tune.state # "ObserverInit" => ~enabled

TuneInv ==
  /\ EndedTuneDisables /\ OffsetsAreKnown /\ CellsAgree /\ FrameIsFresh
  /\ ReadyForGains /\ GainsAreApplied /\ RestsToTheEnd

-----------------------------------------------------------------------------
(* What a slow tick and a frame do to the tune. *)

\* The tune has failed, and asked for a disable at last.
Failed(l) ==
  /\ l.tune.state = "Error"
  /\ l.requests \in Seq(ControlRequests) /\ l.requests # <<>>
  /\ l.requests[Len(l.requests)] = "DisableAndResync"

\* Or it goes on from t, as the state of the controller allows.
GoesOn(t, l, control) ==
  /\ l.tune.cells = t.cells
  /\ l.tune.offsets = (t.offsets \/ (t.state = "CurrentOffset" /\ l.tune.state # t.state))
  /\ \/ /\ l.tune.state = t.state /\ l.tune.attempts = t.attempts
        /\ l.requests = <<>> \/ t.state = "OpenLoopRun"
     \/ /\ t.state \in Leading /\ l.tune.state = Following[t.state]
        /\ l.tune.attempts = t.attempts /\ l.requests = Asking(t.state)
        /\ t.state = "FluxMeasure" => control = "OpenLoop"
     \/ /\ t.state \in {"WaitRunning", "Baseline", "Step"}
        /\ l.tune.state \in {"Baseline", "Step", "OpenLoopPrepare"}
        /\ l.tune.attempts = t.attempts
     \/ t.state = "Step" /\ l.tune.state = "RetryWait"
     \/ /\ t.state = "RetryWait" /\ l.tune.state = "CurrentPiCalc" /\ l.requests = <<>>
        /\ control = "Idle" /\ t.current = "low"

LEMMA FailFails ==
  ASSUME NEW t \in Ticked, NEW r \in Seq(ControlRequests)
  PROVE  Failed(Fail(t, r))
<1> DEFINE l == Fail(t, r)
           d == "DisableAndResync"
<1>1. l.requests = Append(r, d) /\ l.tune.state = "Error"
  BY FailType DEF Fail, Outcome
<1>2. d \in ControlRequests
  BY DEF ControlRequests
<1> HIDE DEF l, d
<1>3. Append(r, d) \in Seq(ControlRequests) /\ Len(Append(r, d)) = Len(r) + 1
      /\ Append(r, d)[Len(r) + 1] = d /\ Append(r, d) # <<>>
  BY <1>2, AppendProperties
<1>4. Failed(l)
  BY <1>1, <1>3 DEF Failed, d
<1>5. QED
  BY <1>4 DEF l

LEMMA FailNowFails ==
  ASSUME NEW t \in Ticked
  PROVE  Failed(Fail(t, <<>>))
BY RequestSeqs, FailFails

LEMMA StayGoesOn ==
  ASSUME NEW t \in Ticked, NEW control
  PROVE  GoesOn(t, Stay(t), control)
BY DEF Stay, Outcome, GoesOn, Ticked

LEMMA AdvanceGoesOn ==
  ASSUME NEW t \in Ticked, t.state \in Leading, NEW control,
         t.state = "FluxMeasure" => control = "OpenLoop"
  PROVE  GoesOn(t, Advance(t), control)
<1> DEFINE s == Following[t.state]
           o == t.offsets \/ t.state = "CurrentOffset"
           a == [Enter(t, s) EXCEPT !.offsets = o]
<1>1. s # t.state
  BY DEF Leading, Following
<1>2. Advance(t) = [tune |-> a, requests |-> Asking(t.state)]
  <2>1. Enter(t, s).offsets = t.offsets
    BY DEF Enter, Ticked
  <2>2. QED
    BY <2>1 DEF Advance, Outcome
<1>3. a.state = s /\ a.attempts = t.attempts /\ a.cells = t.cells /\ a.offsets = o
  <2> HIDE DEF s, o
  <2>1. QED
    BY DEF Enter, Ticked
<1>4. o = (t.offsets \/ (t.state = "CurrentOffset" /\ s # t.state))
  BY <1>1
<1> DEFINE l == Advance(t)
<1>5. l.tune = a /\ l.requests = Asking(t.state)
  BY <1>2
<1> HIDE DEF l, a, o
<1>6. GoesOn(t, l, control)
  BY <1>3, <1>4, <1>5 DEF GoesOn
<1>7. QED
  BY <1>6 DEF l

LEMMA DecidingGoesOn ==
  ASSUME NEW t \in Ticked, NEW control, NEW o \in Deciding(t), t.state # "FluxMeasure"
  PROVE  Failed(o) \/ GoesOn(t, o, control)
<1>1. o \in {Stay(t), Advance(t), Fail(t, <<>>)}
  BY DEF Deciding
<1>2. o = Advance(t) => t.state \in Leading \/ o \in {Stay(t), Fail(t, <<>>)}
  BY DEF Deciding, Leading, Following, Injecting
<1>3. QED
  BY <1>1, <1>2, StayGoesOn, FailNowFails, AdvanceGoesOn

LEMMA SpinningGoesOn ==
  ASSUME NEW t \in Ticked, t.state \in {"OpenLoopRun", "FluxMeasure"},
         NEW control, NEW o \in Spinning(t, control)
  PROVE  Failed(o) \/ GoesOn(t, o, control)
<1>1. t.state \in Leading
  BY DEF Leading, Following
<1>2. \/ o = Stay(t)
      \/ o \in {Advance(t), Fail(t, <<>>)} /\ control = "OpenLoop"
      \/ o = Outcome(t, <<"SetOpenLoop">>) /\ t.state = "OpenLoopRun"
  BY DEF Spinning
<1>3. CASE o = Outcome(t, <<"SetOpenLoop">>) /\ t.state = "OpenLoopRun"
  BY <1>3 DEF Outcome, GoesOn, Ticked
<1>4. QED
  BY <1>1, <1>2, <1>3, StayGoesOn, FailNowFails, AdvanceGoesOn

LEMMA VerifyingGoesOn ==
  ASSUME NEW t \in Ticked, t.state \in PiPhases, NEW control, NEW o \in Verifying(t, control)
  PROVE  Failed(o) \/ GoesOn(t, o, control)
<1>1. \/ o \in {Fail(t, <<>>), Stay(t)}
      \/ t.state = "WaitRunning" /\ o = Stay([t EXCEPT !.state = "Baseline"])
      \/ t.state = "Baseline" /\ o = Outcome([t EXCEPT !.state = "Step"], <<"SetIq">>)
      \/ t.state = "Step" /\ o = Rejected(t)
      \/ t.state = "Step" /\ o = Outcome(Enter(t, "OpenLoopPrepare"), <<"SetIq">>)
      \/ /\ t.state = "RetryWait" /\ o = Stay(Enter(t, "CurrentPiCalc"))
         /\ control = "Idle" /\ t.current = "low"
  BY DEF Verifying, PiPhases
<1>2. CASE o \in {Fail(t, <<>>), Stay(t)}
  BY <1>2, StayGoesOn, FailNowFails
<1>3. CASE t.state = "WaitRunning" /\ o = Stay([t EXCEPT !.state = "Baseline"])
  BY <1>3 DEF Stay, Outcome, GoesOn, Ticked
<1>4. CASE t.state = "Baseline" /\ o = Outcome([t EXCEPT !.state = "Step"], <<"SetIq">>)
  BY <1>4 DEF Outcome, GoesOn, Ticked
<1>5. CASE t.state = "Step" /\ o = Rejected(t)
  <2>1. CASE t.attempts + 1 > MaxRetries
    BY <1>5, <2>1, FailNowFails DEF Rejected
  <2>2. CASE ~(t.attempts + 1 > MaxRetries)
    <3> DEFINE n == t.attempts + 1
               m == [t EXCEPT !.state = "RetryWait", !.attempts = n]
    <3>1. o.tune = m
      BY <1>5, <2>2 DEF Rejected, Outcome
    <3> HIDE DEF n
    <3>2. m.state = "RetryWait" /\ m.cells = t.cells /\ m.offsets = t.offsets
      BY DEF Ticked
    <3> HIDE DEF m
    <3>3. QED
      BY <1>5, <3>1, <3>2 DEF GoesOn, Ticked
  <2>3. QED
    BY <2>1, <2>2
<1>6. CASE t.state = "Step" /\ o = Outcome(Enter(t, "OpenLoopPrepare"), <<"SetIq">>)
  BY <1>6 DEF Enter, Outcome, GoesOn, Ticked
<1>7. CASE /\ t.state = "RetryWait" /\ o = Stay(Enter(t, "CurrentPiCalc"))
           /\ control = "Idle" /\ t.current = "low"
  BY <1>7 DEF Stay, Enter, Outcome, GoesOn, Ticked
<1>8. QED
  BY <1>1, <1>2, <1>3, <1>4, <1>5, <1>6, <1>7

LEMMA TaskTickGoesOn ==
  ASSUME NEW t \in Tunes, IsRunning(t), NEW control, NEW l \in TaskTick(t, control)
  PROVE  Failed(l) \/ GoesOn(t, l, control)
<1> DEFINE k == [t EXCEPT !.elapsed = @ + 1]
<1>1. k \in Ticked /\ k.state = t.state /\ k.elapsed # 0 /\ k.attempts = t.attempts
      /\ k.offsets = t.offsets /\ k.cells = t.cells /\ k.current = t.current
  <2>1. t.elapsed \in 0..StateTimeout /\ t.elapsed + 1 \in 0..StateTimeout + 1
        /\ t.elapsed + 1 # 0
    BY TuneAssumption DEF Tunes
  <2>2. QED
    BY <2>1 DEF Tunes, Ticked
<1> HIDE DEF k
<1>2. PICK o : /\ l = Limited(o)
               /\ k.state \in PiPhases => o \in Verifying(k, control)
               /\ k.state \in {"OpenLoopRun", "FluxMeasure"} => o \in Spinning(k, control)
               /\ k.state \notin PiPhases \cup {"OpenLoopRun", "FluxMeasure"} => o \in Deciding(k)
  BY <1>1 DEF TaskTick, k, PiPhases
<1>3. /\ Sound(k, o)
      /\ Failed(o) \/ GoesOn(k, o, control)
  <2>1. CASE k.state \in PiPhases
    BY <1>1, <1>2, <2>1, VerifyingGoesOn, VerifyingIsSound
  <2>2. CASE k.state \in {"OpenLoopRun", "FluxMeasure"}
    BY <1>1, <1>2, <2>2, SpinningGoesOn, SpinningIsSound DEF PiPhases
  <2>3. CASE k.state \notin PiPhases \cup {"OpenLoopRun", "FluxMeasure"}
    BY <1>1, <1>2, <2>3, DecidingGoesOn, DecidingIsSound
  <2>4. QED
    BY <2>1, <2>2, <2>3
<1>4. CASE l = Fail(o.tune, o.requests)
  BY <1>3, <1>4, FailFails DEF Sound
<1>5. CASE l = o
  BY <1>1, <1>3, <1>5 DEF GoesOn
<1>6. QED
  BY <1>2, <1>4, <1>5 DEF Limited

\* A frame fails the tune, or finds the bus within the limits of its cells.
LEMMA FastStepGoesOn ==
  ASSUME NEW t \in Tunes, NEW f \in Frames
  PROVE  LET o == FastStep(t, f)
         IN  \/ Failed(o)
             \/ /\ o.tune.state = t.state /\ o.tune.cells = t.cells
                /\ o.tune.offsets = t.offsets /\ o.tune.attempts = t.attempts
                /\ t.offsets /\ t.state # "CurrentOffset" => o.tune.current = f.current
                /\ f.bus \in MinimumBus(t.cells)..MaximumBus(t.cells)
                /\ o.requests = <<>>
<1> DEFINE o == FastStep(t, f)
           m == [t EXCEPT !.sequence = f.sequence, !.current = TuneCurrent(t, f)]
<1>1. \/ o = Fail(t, <<>>)
      \/ o = Outcome(m, <<>>) /\ f.bus \in MinimumBus(t.cells)..MaximumBus(t.cells)
  BY DEF FastStep
<1>2. CASE o = Fail(t, <<>>)
  BY <1>2, TunesAreTicked, FailNowFails
<1>3. CASE o = Outcome(m, <<>>) /\ f.bus \in MinimumBus(t.cells)..MaximumBus(t.cells)
  <2>1. t.offsets /\ t.state # "CurrentOffset" => TuneCurrent(t, f) = f.current
    BY DEF TuneCurrent
  <2>2. m.state = t.state /\ m.cells = t.cells /\ m.offsets = t.offsets
        /\ m.attempts = t.attempts /\ m.current = TuneCurrent(t, f)
    BY DEF Tunes
  <2>3. o.tune = m /\ o.requests = <<>>
    BY <1>3 DEF Outcome
  <2> HIDE DEF m, o
  <2>4. QED
    BY <1>3, <2>1, <2>2, <2>3 DEF o
<1>4. QED
  BY <1>1, <1>2, <1>3

\* The queue of a running tune takes what a step asks for as it is.
LEMMA QueuedOnEmpty ==
  ASSUME NEW r \in Seq(ControlRequests), Len(r) <= 3
  PROVE  Queued(<<>>, r) = r
<1>1. <<>> \o r = r
  OBVIOUS
<1>2. Len(r) \in Nat /\ Len(r) < QueueCapacity
  BY LenProperties DEF QueueCapacity
<1>3. SubSeq(r, 1, Len(r)) = r
  BY <1>2, SubSeqProperties
<1>4. QED
  BY <1>1, <1>2, <1>3 DEF Queued

\* A frame of a calibrated controller.
LEMMA FrameLeaves ==
  ASSUME IInv, calibrated, NEW f \in Frames, ControllerFrame(f)
  PROVE  /\ calibrated' = calibrated /\ config' = config
         /\ state' \in {"Idle"} \cup Modes => junction' < Shutdown
         /\ last'.bus = f.bus /\ last'.current = f.current
         /\ state' \in Modes => state \in Modes
<1>1. state # "Calibrating"
  BY DEF IInv, CalibratingIsFresh
<1>2. PICK valid \in BOOLEAN, stalled \in Stalls, t \in UpdatedThermal(f.current, f.ntc) :
        ProtectedStep(f, valid, stalled, t) /\ config' = config
  BY <1>1 DEF ControllerFrame, Step, MeasuredCurrent
<1>3. junction' = t /\ calibrated' = calibrated
      /\ last' = [current |-> f.current, bus |-> f.bus, sensor |-> valid]
  BY <1>2 DEF ProtectedStep, MeasuredCurrent
<1>4. \E early, bus, sensor, c :
        LET trips == early \cup bus \cup sensor \cup Trip("OVER_TEMPERATURE", t >= Shutdown)
        IN OffStep(trips, c) \/ RunStep(trips, SpeedCounts(c, stalled))
  BY <1>2 DEF ProtectedStep
<1>5. PICK trips, c :
        /\ t >= Shutdown => trips # {}
        /\ OffStep(trips, c) \/ RunStep(trips, c)
  BY <1>4 DEF Trip
<1>6. state' \in {"Idle"} \cup Modes => ~(t >= Shutdown) /\ (state' \in Modes => state \in Modes)
  BY <1>5 DEF OffStep, RunStep, Modes, Running
<1>7. t \in Nat /\ Shutdown \in Nat
  BY <1>3, ConstantsAssumption, ThermalType DEF IInv, TypeOK, Frames
<1>8. QED
  BY <1>2, <1>3, <1>6, <1>7

-----------------------------------------------------------------------------
(* The steps. *)

\* What TuneInv says is about the tune only while it runs.
LEMMA EndedKeeps ==
  ASSUME ~Tuning', EndedTuneDisables'
  PROVE  TuneInv'
<1>1. tune'.state \in Terminal
  BY DEF Tuning, IsRunning
<1>2. tune'.state \notin Delegating \cup Early \cup {"CurrentPiCalc"} \cup Applied \cup Late
  BY <1>1 DEF Terminal, Delegating, PiPhases, Early, Applied, Late
<1>3. QED
  BY <1>2 DEF TuneInv, Tuning, OffsetsAreKnown, CellsAgree, FrameIsFresh, ReadyForGains,
              GainsAreApplied, RestsToTheEnd

\* A tune that has failed has its disable in the queue.
LEMMA FailedKeeps ==
  ASSUME NEW l, Failed(l), Len(l.requests) <= 3, queue = <<>>, tune' = l.tune,
         queue' = Queued(queue, l.requests)
  PROVE  TuneInv'
<1>1. queue' = l.requests
  BY QueuedOnEmpty DEF Failed
<1>2. ~Tuning'
  BY DEF Failed, Tuning, IsRunning, Terminal
<1>3. EndedTuneDisables'
  BY <1>1, <1>2 DEF Failed, EndedTuneDisables
<1>4. QED
  BY <1>2, <1>3, EndedKeeps

LEMMA DrainedKeeps ==
  ASSUME TaskInv, Drained, state' \notin Modes
  PROVE  TuneInv'
<1>1. ~Tuning'
  BY DEF Drained, Ended, NewTune, Tuning, IsRunning, Terminal
<1>2. queue' = <<>> /\ ~Running'
  BY DEF Drained, Running
<1>3. QED
  BY <1>1, <1>2, EndedKeeps DEF EndedTuneDisables

\* Commands of a user disturb a running tune, and mark what they enable.
LEMMA UserKeeps ==
  ASSUME TuneInv, UNCHANGED <<tune, queue, turn, enabled, calibrated>>,
         disturbed' = (disturbed \/ Tuning), Running' /\ ~Running => ~tuned',
         tuned' \in {tuned, FALSE}
  PROVE  TuneInv'
<1>1. EndedTuneDisables'
  <2>1. SUFFICES ASSUME ~Tuning
                 PROVE  IF queue = <<>> THEN Running' => ~tuned'
                                        ELSE queue[Len(queue)] = "DisableAndResync"
    BY DEF EndedTuneDisables, Tuning
  <2>2. IF queue = <<>> THEN Running => ~tuned ELSE queue[Len(queue)] = "DisableAndResync"
    BY <2>1 DEF TuneInv, EndedTuneDisables
  <2>3. ~tuned => ~tuned'
    OBVIOUS
  <2>4. QED
    BY <2>2, <2>3
<1>2. CASE ~Tuning
  BY <1>1, <1>2, EndedKeeps DEF Tuning
<1>3. CASE Tuning
  BY <1>1, <1>3 DEF TuneInv, Tuning, OffsetsAreKnown, CellsAgree, FrameIsFresh, ReadyForGains,
                    GainsAreApplied, RestsToTheEnd
<1>4. QED
  BY <1>2, <1>3

LEMMA StartKeeps ==
  ASSUME TaskInv, TuneInv, AutoTuneStart
  PROVE  TuneInv'
<1>1. tune' = NewTune("Init", config.cells) /\ queue' = <<>> /\ disturbed' = ~StorageSafe
      /\ turn' = "commands" /\ state = "Idle" /\ UNCHANGED vars
  BY DEF AutoTuneStart, CanClaim
<1>2. tune'.state = "Init" /\ tune'.cells = config.cells
  BY <1>1 DEF NewTune
<1>3. calibrated
  BY <1>1 DEF TaskInv, IInv, UncalibratedIsOff
<1>4. StorageSafe' <=> StorageSafe
  BY <1>1 DEF vars, StorageSafe
<1>5. Tuning'
  BY <1>2 DEF Tuning, IsRunning, Terminal
<1>6. QED
  BY <1>1, <1>2, <1>3, <1>4, <1>5
     DEF TuneInv, EndedTuneDisables, OffsetsAreKnown, CellsAgree, FrameIsFresh, ReadyForGains,
         GainsAreApplied, RestsToTheEnd, Applied, Late, vars

LEMMA TuneFrameKeeps ==
  ASSUME TaskInv, TuneInv, TuneFrame
  PROVE  TuneInv'
<1>1. PICK f \in Arriving :
        LET o == FastStep(tune, f)
            action == FastAction(o.tune)
        IN /\ tune' = o.tune
           /\ queue' = Queued(queue, o.requests)
           /\ \/ action = "Delegate" /\ ControllerFrame(f)
              \/ action # "Delegate" /\ enabled' = (action = "Inject") /\ UNCHANGED vars
  BY DEF TuneFrame
<1> DEFINE o == FastStep(tune, f)
<1>2. f \in Frames /\ tune \in Tunes /\ IInv
  BY ArrivingType DEF NewFrames, TaskInv, TaskTypeOK
<1>3. Tuning /\ turn = "commands" /\ disturbed' = disturbed /\ turn' \in {"tick", "commands"}
  BY DEF TuneFrame
<1>4. queue = <<>>
  BY <1>3 DEF TaskInv, QueueFits
<1>5. CASE Failed(o)
  <2>1. Len(o.requests) <= 3
    <3>1. o.requests \in Seq(ControlRequests) /\ Len(o.requests) <= 1
      BY <1>2, FastStepType
    <3> HIDE DEF o
    <3>2. QED
      BY <3>1, LenProperties
  <2>2. tune' = o.tune /\ queue' = Queued(queue, o.requests)
    BY <1>1
  <2> HIDE DEF o
  <2>3. QED
    BY <1>4, <1>5, <2>1, <2>2, FailedKeeps
<1>6. CASE ~Failed(o)
  <2>1. /\ tune'.state = tune.state /\ tune'.cells = tune.cells
        /\ tune'.offsets = tune.offsets /\ tune'.attempts = tune.attempts
        /\ tune.offsets /\ tune.state # "CurrentOffset" => tune'.current = f.current
        /\ f.bus \in MinimumBus(tune.cells)..MaximumBus(tune.cells)
        /\ queue' = Queued(queue, <<>>)
    BY <1>1, <1>2, <1>6, FastStepGoesOn
  <2>2. queue' = <<>>
    <3>1. <<>> \in Seq(ControlRequests) /\ Len(<<>>) <= 3
      OBVIOUS
    <3>2. QED
      BY <1>4, <2>1, <3>1, QueuedOnEmpty
  <2>3. Tuning' /\ Gains(tune') = Gains(tune)
    BY <1>3, <2>1 DEF Tuning, IsRunning, Gains
  <2>4. \/ tune.state \in Delegating /\ ControllerFrame(f)
        \/ /\ tune.state \notin Delegating /\ UNCHANGED vars
           /\ tune.state \notin Injecting => ~enabled'
    <3>1. /\ tune'.state \in Delegating => FastAction(tune') = "Delegate"
          /\ tune'.state \in Injecting => FastAction(tune') = "Inject"
          /\ tune'.state \notin Delegating \cup Injecting => FastAction(tune') = "Off"
      BY DEF FastAction, Delegating, Injecting, PiPhases
    <3>2. \/ FastAction(tune') = "Delegate" /\ ControllerFrame(f)
          \/ /\ FastAction(tune') # "Delegate"
             /\ enabled' = (FastAction(tune') = "Inject") /\ UNCHANGED vars
      BY <1>1
    <3>3. QED
      BY <2>1, <3>1, <3>2
  <2>5. CASE tune.state \in Delegating /\ ControllerFrame(f)
    <3>1. calibrated /\ tune.offsets
      BY <1>3, <2>5 DEF TuneInv, OffsetsAreKnown, Delegating, PiPhases
    <3>2. /\ calibrated' = calibrated /\ config' = config
          /\ state' \in {"Idle"} \cup Modes => junction' < Shutdown
          /\ last'.bus = f.bus /\ last'.current = f.current
      BY <1>2, <2>5, <3>1, FrameLeaves
    <3>3. tune'.current = f.current
      BY <2>1, <2>5, <3>1 DEF Delegating, PiPhases
    <3>4. OffsetsAreKnown' /\ CellsAgree'
      BY <1>3, <2>1, <2>3, <3>1, <3>2 DEF TuneInv, OffsetsAreKnown, CellsAgree
    <3>5. FrameIsFresh'
      <4>1. SUFFICES ASSUME ~disturbed
                     PROVE  /\ state' \in {"Idle"} \cup Modes => junction' < Shutdown
                            /\ last'.bus <= MaximumBus(config.cells)
                            /\ tune'.current = "low" => last'.current = "low"
        BY <1>3, <3>2 DEF FrameIsFresh
      <4>2. tune.cells = config.cells
        BY <1>3, <4>1 DEF TuneInv, CellsAgree
      <4>3. QED
        BY <2>1, <3>2, <3>3, <4>2
    <3>6. ReadyForGains' /\ RestsToTheEnd'
      BY <2>1, <2>5 DEF ReadyForGains, RestsToTheEnd, Early, Late, Delegating, PiPhases
    <3>7. GainsAreApplied'
      BY <1>3, <2>1, <2>3, <3>2 DEF TuneInv, GainsAreApplied
    <3>8. QED
      BY <2>3, <3>4, <3>5, <3>6, <3>7 DEF TuneInv, EndedTuneDisables
  <2>6. CASE /\ tune.state \notin Delegating /\ UNCHANGED vars
             /\ tune.state \notin Injecting => ~enabled'
    <3>1. UNCHANGED <<state, faults, calibrated, junction, config, last>>
      BY <2>6 DEF vars
    <3>2. OffsetsAreKnown' /\ CellsAgree'
      BY <1>3, <2>1, <2>3, <3>1 DEF TuneInv, OffsetsAreKnown, CellsAgree
    <3>3. FrameIsFresh'
      BY <2>1, <2>6 DEF FrameIsFresh
    <3>4. ReadyForGains'
      BY <1>3, <2>1, <2>2, <3>1 DEF TuneInv, ReadyForGains, StorageSafe
    <3>5. GainsAreApplied'
      BY <1>3, <2>1, <2>3, <3>1 DEF TuneInv, GainsAreApplied
    <3>6. RestsToTheEnd'
      BY <1>3, <1>4, <2>1, <2>2, <2>6, <3>1
         DEF TuneInv, RestsToTheEnd, Late, Injecting
    <3>7. QED
      BY <2>3, <3>2, <3>3, <3>4, <3>5, <3>6 DEF TuneInv, EndedTuneDisables
  <2>7. QED
    BY <2>4, <2>5, <2>6
<1>7. QED
  BY <1>5, <1>6

LEMMA TickKeeps ==
  ASSUME TaskInv, TuneInv, Tick
  PROVE  TuneInv'
<1>1. turn = "tick" /\ turn' = "apply"
      /\ UNCHANGED <<state, faults, calibrated, junction, config, last, enabled, tuned, disturbed>>
  BY DEF Tick, vars
<1>2. CASE ~Tuning
  <2>1. tune' = tune /\ queue' = queue
    BY <1>2 DEF Tick
  <2>2. ~Tuning' /\ EndedTuneDisables'
    BY <1>1, <1>2, <2>1 DEF TuneInv, EndedTuneDisables, Tuning, Running
  <2>3. QED
    BY <2>2, EndedKeeps
<1>3. CASE Tuning
  <2>1. PICK l \in TaskTick(tune, state) : tune' = l.tune /\ queue' = Queued(queue, l.requests)
    BY <1>3 DEF Tick
  <2>2. tune \in Tunes /\ queue = <<>>
    BY <1>1, <1>3 DEF TaskInv, TaskTypeOK, QueueFits
  <2>3. l.requests \in Seq(ControlRequests) /\ Len(l.requests) <= 3
    BY <1>3, <2>2, TaskTickType DEF Tuning
  <2>4. queue' = l.requests
    BY <2>1, <2>2, <2>3, QueuedOnEmpty
  <2>5. Failed(l) \/ GoesOn(tune, l, state)
    BY <1>3, <2>2, TaskTickGoesOn DEF Tuning
  <2>6. CASE Failed(l)
    BY <2>1, <2>2, <2>3, <2>6, FailedKeeps
  <2>7. CASE GoesOn(tune, l, state)
    <3>1. /\ tune'.cells = tune.cells
          /\ tune'.offsets = (tune.offsets \/ (/\ tune.state = "CurrentOffset"
                                               /\ tune'.state # tune.state))
          /\ \/ /\ tune'.state = tune.state /\ tune'.attempts = tune.attempts
                /\ queue' = <<>> \/ tune.state = "OpenLoopRun"
             \/ /\ tune.state \in Leading /\ tune'.state = Following[tune.state]
                /\ tune'.attempts = tune.attempts /\ queue' = Asking(tune.state)
                /\ tune.state = "FluxMeasure" => state = "OpenLoop"
             \/ /\ tune.state \in {"WaitRunning", "Baseline", "Step"}
                /\ tune'.state \in {"Baseline", "Step", "OpenLoopPrepare"}
                /\ tune'.attempts = tune.attempts
             \/ tune.state = "Step" /\ tune'.state = "RetryWait"
             \/ /\ tune.state = "RetryWait" /\ tune'.state = "CurrentPiCalc" /\ queue' = <<>>
                /\ state = "Idle" /\ tune.current = "low"
      BY <2>1, <2>4, <2>7 DEF GoesOn
    <3>2. tune'.state \notin Terminal
      BY <1>3, <3>1 DEF Tuning, IsRunning, Leading, Following, Terminal
    <3>3. tune'.attempts = tune.attempts => Gains(tune') = Gains(tune)
      BY DEF Gains
    <3>4. EndedTuneDisables' /\ FrameIsFresh'
      BY <1>1, <3>2 DEF EndedTuneDisables, FrameIsFresh, Tuning, IsRunning
    <3>5. OffsetsAreKnown' /\ CellsAgree'
      <4>1. calibrated /\ (tune.state \notin {"Init", "CurrentOffset"} => tune.offsets)
            /\ (~disturbed => tune.cells = config.cells)
        BY <1>3 DEF TuneInv, OffsetsAreKnown, CellsAgree
      <4>2. tune.state = "Init" => tune'.state \in {"Init", "CurrentOffset"}
        BY <3>1 DEF Following, Leading
      <4>3. QED
        BY <1>1, <3>1, <4>1, <4>2 DEF OffsetsAreKnown, CellsAgree
    <3>6. ReadyForGains'
      <4>1. SUFFICES ASSUME tune'.state \in Early \cup {"CurrentPiCalc"}, ~disturbed
                     PROVE  StorageSafe /\ queue' = <<>>
        BY <1>1 DEF ReadyForGains, StorageSafe
      <4>2. CASE tune.state \in Early \cup {"CurrentPiCalc"}
        <5>1. StorageSafe
          BY <4>1, <4>2 DEF TuneInv, ReadyForGains
        <5>2. queue' = <<>>
          BY <3>1, <4>1, <4>2 DEF Early, Leading, Following, Asking
        <5>3. QED
          BY <5>1, <5>2
      <4>3. CASE tune.state \notin Early \cup {"CurrentPiCalc"}
        <5>1. tune.state = "RetryWait" /\ state = "Idle" /\ tune.current = "low" /\ queue' = <<>>
          BY <3>1, <4>1, <4>3 DEF Early, Leading, Following
        <5>2. /\ junction < Shutdown /\ last.bus <= MaximumBus(config.cells)
              /\ last.current = "low"
          BY <1>1, <4>1, <5>1 DEF TuneInv, FrameIsFresh, Delegating, PiPhases
        <5>3. calibrated /\ faults = {}
          BY <5>1 DEF TaskInv, IInv, UncalibratedIsOff, FaultIffLatched
        <5>4. QED
          BY <5>1, <5>2, <5>3 DEF StorageSafe
      <4>4. QED
        BY <4>2, <4>3
    <3>7. GainsAreApplied'
      <4>1. SUFFICES ASSUME tune'.state \in Applied, ~disturbed
                     PROVE  \/ config.tuning = Gains(tune')
                            \/ queue' # <<>> /\ Head(queue') = "ApplyMotorParam" /\ StorageSafe
        BY <1>1 DEF GainsAreApplied, StorageSafe
      <4>2. CASE tune.state = "CurrentPiCalc"
        <5>1. StorageSafe
          BY <4>1, <4>2 DEF TuneInv, ReadyForGains
        <5>2. queue' = <<"ApplyMotorParam", "DisableAndResync", "EnableCurrent">>
          BY <3>1, <4>1, <4>2 DEF Asking, Applied, Late
        <5>3. QED
          BY <5>1, <5>2
      <4>3. CASE tune.state # "CurrentPiCalc"
        <5>1. tune.state \in Applied /\ tune'.attempts = tune.attempts
          BY <3>1, <4>1, <4>3 DEF Applied, Late, Leading, Following
        <5>2. config.tuning = Gains(tune)
          BY <1>1, <4>1, <5>1 DEF TuneInv, GainsAreApplied
        <5>3. QED
          BY <3>3, <5>1, <5>2
      <4>4. QED
        BY <4>2, <4>3
    <3>8. RestsToTheEnd'
      <4>1. SUFFICES ASSUME tune'.state \in Late, ~disturbed
                     PROVE  /\ calibrated /\ faults = {} /\ junction < Shutdown
                            /\ last.bus <= MaximumBus(config.cells)
                            /\ \/ state = "Idle" /\ queue' = <<>>
                               \/ tune'.state = "ObserverInit" /\ queue' = <<"DisableAndResync">>
                            /\ tune'.state # "ObserverInit" => ~enabled
        BY <1>1 DEF RestsToTheEnd
      <4>2. CASE tune.state = "FluxMeasure"
        <5>1. state = "OpenLoop" /\ tune'.state = "ObserverInit" /\ queue' = <<"DisableAndResync">>
          BY <3>1, <4>1, <4>2 DEF Late, Following, Asking
        <5>2. junction < Shutdown /\ last.bus <= MaximumBus(config.cells)
          BY <1>1, <4>1, <4>2, <5>1 DEF TuneInv, FrameIsFresh, Delegating, Modes
        <5>3. calibrated /\ faults = {}
          BY <5>1 DEF TaskInv, IInv, UncalibratedIsOff, FaultIffLatched
        <5>4. QED
          BY <5>1, <5>2, <5>3
      <4>3. CASE tune.state # "FluxMeasure"
        <5>1. tune.state \in Late /\ queue' = <<>>
          BY <3>1, <4>1, <4>3 DEF Late, Leading, Following, Asking
        <5>2. QED
          BY <1>1, <4>1, <5>1 DEF TuneInv, RestsToTheEnd
      <4>4. QED
        BY <4>2, <4>3
    <3>9. QED
      BY <3>4, <3>5, <3>6, <3>7, <3>8 DEF TuneInv
  <2>8. QED
    BY <2>5, <2>6, <2>7
<1>4. QED
  BY <1>2, <1>3

\* What a request does to the controller.
LEMMA RequestLeaves ==
  ASSUME TaskInv, NEW request, ApplyRequest(request)
  PROVE  /\ UNCHANGED <<calibrated, faults, junction, last>>
         /\ config'.cells = config.cells /\ config'.tuning \in {config.tuning, Gains(tune)}
         /\ request = "ApplyMotorParam" /\ StorageSafe => config'.tuning = Gains(tune)
         /\ request = "DisableAndResync" =>
              state' = IF state \in {"Calibrating", "Fault"} THEN state ELSE "Idle"
<1>1. config \in [cells : CellCounts, tuning : Tunings]
  BY DEF TaskInv, IInv, TypeOK
<1>2. CASE request = "DisableAndResync"
  BY <1>2 DEF ApplyRequest, DisableAndResync, EnterIdle
<1>3. CASE request \in {"EnableCurrent", "EnableOpenLoop"}
  <2>1. \E mode \in {"Current", "OpenLoop"} : TuneEnable(mode)
    BY <1>3 DEF ApplyRequest
  <2>2. QED
    BY <1>3, <2>1 DEF TuneEnable, Attempt, Enable, vars
<1>4. CASE request \in {"SetIq", "SetOpenLoop"}
  BY <1>4 DEF ApplyRequest, vars
<1>5. CASE request = "ApplyMotorParam"
  <2>1. Attempt(StorageSafe, ApplyMotorParam(Gains(tune)))
    BY <1>5 DEF ApplyRequest
  <2>2. CASE StorageSafe
    <3> DEFINE gains == Gains(tune)
    <3>1. config' = [config EXCEPT !.tuning = gains]
          /\ UNCHANGED <<calibrated, faults, junction, last>>
      BY <2>1, <2>2 DEF Attempt, ApplyMotorParam, ApplyLiveProfile, ApplyProfile
    <3> HIDE DEF gains
    <3>2. config'.cells = config.cells /\ config'.tuning = gains
      BY <1>1, <3>1
    <3>3. QED
      BY <1>5, <3>1, <3>2 DEF gains
  <2>3. CASE ~StorageSafe
    BY <1>5, <2>1, <2>3 DEF Attempt, vars
  <2>4. QED
    BY <2>2, <2>3
<1>6. QED
  BY <1>2, <1>3, <1>4, <1>5 DEF ApplyRequest

LEMMA PopKeeps ==
  ASSUME TaskInv, TuneInv, PopRequest
  PROVE  TuneInv'
<1>1. /\ queue # <<>> /\ queue \in Seq(ControlRequests) /\ queue' = Tail(queue)
      /\ ApplyRequest(Head(queue)) /\ tune' = tune /\ disturbed' = disturbed
      /\ enabled' = enabled
  BY DEF PopRequest, TaskInv, TaskTypeOK
<1>2. /\ UNCHANGED <<calibrated, faults, junction, last>>
      /\ config'.cells = config.cells /\ config'.tuning \in {config.tuning, Gains(tune)}
      /\ Head(queue) = "ApplyMotorParam" /\ StorageSafe => config'.tuning = Gains(tune)
      /\ Head(queue) = "DisableAndResync" =>
           state' = IF state \in {"Calibrating", "Fault"} THEN state ELSE "Idle"
  BY <1>1, RequestLeaves
<1>3. CASE ~Tuning
  <2>1. ~Tuning' /\ queue[Len(queue)] = "DisableAndResync"
    BY <1>1, <1>3 DEF TuneInv, EndedTuneDisables, Tuning
  <2>2. CASE Len(queue) = 1
    <3>1. Head(queue) = "DisableAndResync" /\ queue' = <<>>
      BY <1>1, <2>1, <2>2
    <3>2. ~Running'
      BY <1>2, <3>1 DEF Running, Modes
    <3>3. EndedTuneDisables'
      BY <3>1, <3>2 DEF EndedTuneDisables
    <3>4. QED
      BY <2>1, <3>3, EndedKeeps
  <2>3. CASE Len(queue) # 1
    <3>1. Len(queue) \in Nat /\ Len(queue) > 1
      <4>1. Len(queue) \in Nat
        BY <1>1, LenProperties
      <4>2. Len(queue) # 0
        BY <1>1, EmptySeq
      <4>3. QED
        BY <2>3, <4>1, <4>2
    <3>2. Len(queue') = Len(queue) - 1 /\ queue' # <<>>
          /\ queue'[Len(queue')] = queue[Len(queue)]
      <4> DEFINE S == ControlRequests
      <4>1. queue \in Seq(S) /\ queue # <<>> /\ queue' = Tail(queue)
        BY <1>1
      <4> HIDE DEF S
      <4>2. Len(queue') = Len(queue) - 1
            /\ \A i \in 1..Len(queue) - 1 : queue'[i] = queue[i + 1]
        BY <3>1, <4>1, HeadTailProperties
      <4>3. Len(queue) - 1 \in 1..Len(queue) - 1 /\ (Len(queue) - 1) + 1 = Len(queue)
        BY <3>1
      <4>4. Len(queue') # 0
        BY <3>1, <4>2
      <4>5. queue' # <<>>
        BY <4>4
      <4>6. QED
        BY <4>2, <4>3, <4>5
    <3>3. EndedTuneDisables'
      BY <2>1, <3>2 DEF EndedTuneDisables
    <3>4. QED
      BY <2>1, <3>3, EndedKeeps
  <2>4. QED
    BY <2>2, <2>3
<1>4. CASE Tuning
  <2>1. turn = "apply" /\ turn' = "apply" /\ Tuning'
    BY <1>1, <1>4 DEF PopRequest, Tuning
  <2>2. EndedTuneDisables' /\ FrameIsFresh'
    BY <2>1 DEF EndedTuneDisables, FrameIsFresh
  <2>3. OffsetsAreKnown' /\ CellsAgree'
    BY <1>1, <1>2, <1>4 DEF TuneInv, OffsetsAreKnown, CellsAgree
  <2>4. ReadyForGains'
    BY <1>1 DEF TuneInv, ReadyForGains
  <2>5. GainsAreApplied'
    BY <1>1, <1>2 DEF TuneInv, GainsAreApplied
  <2>6. RestsToTheEnd'
    <3>1. SUFFICES ASSUME tune.state \in Late, ~disturbed PROVE RestsToTheEnd'
      BY <1>1 DEF RestsToTheEnd
    <3>2. /\ tune.state = "ObserverInit" /\ queue = <<"DisableAndResync">>
          /\ calibrated /\ faults = {} /\ junction < Shutdown
          /\ last.bus <= MaximumBus(config.cells)
      BY <1>1, <3>1 DEF TuneInv, RestsToTheEnd
    <3>3. state \notin {"Calibrating", "Fault"}
      BY <3>2 DEF TaskInv, IInv, CalibratingIsFresh, FaultIffLatched
    <3>4. state' = "Idle" /\ queue' = <<>>
      BY <1>1, <1>2, <3>2, <3>3
    <3>5. last'.bus <= MaximumBus(config'.cells)
      BY <1>2, <3>2
    <3>6. QED
      BY <1>1, <1>2, <2>1, <3>2, <3>4, <3>5 DEF RestsToTheEnd
  <2>7. QED
    BY <2>2, <2>3, <2>4, <2>5, <2>6 DEF TuneInv
<1>5. QED
  BY <1>3, <1>4

LEMMA SaveKeeps ==
  ASSUME TaskInv, TuneInv, SaveTune
  PROVE  TuneInv'
<1>1. ~Tuning'
  BY DEF SaveTune, Ended, NewTune, Tuning, IsRunning, Terminal
<1>2. queue' = <<"DisableAndResync">>
  <2> DEFINE r == <<"DisableAndResync">>
  <2>1. r \in Seq(ControlRequests) /\ Len(r) <= 3
    BY RequestSeqs DEF ControlRequests
  <2> HIDE DEF r
  <2>2. Queued(<<>>, r) = r
    BY <2>1, QueuedOnEmpty
  <2>3. QED
    BY <2>2 DEF SaveTune, r
<1>3. EndedTuneDisables'
  BY <1>2 DEF EndedTuneDisables
<1>4. QED
  BY <1>1, <1>3, EndedKeeps

LEMMA EndTickKeeps ==
  ASSUME TuneInv, EndTick
  PROVE  TuneInv'
<1>1. /\ queue = <<>> /\ turn = "apply" /\ turn' = "commands"
      /\ UNCHANGED <<state, calibrated, faults, junction, config, last, tune, queue, enabled, tuned,
                     disturbed>>
  BY DEF EndTick, vars
<1>2. EndedTuneDisables' /\ OffsetsAreKnown' /\ CellsAgree' /\ FrameIsFresh'
  BY <1>1 DEF TuneInv, EndedTuneDisables, OffsetsAreKnown, CellsAgree, FrameIsFresh, Tuning, Running
<1>3. ReadyForGains' /\ GainsAreApplied'
  BY <1>1 DEF TuneInv, ReadyForGains, GainsAreApplied, StorageSafe
<1>4. RestsToTheEnd'
  BY <1>1 DEF TuneInv, RestsToTheEnd
<1>5. QED
  BY <1>2, <1>3, <1>4 DEF TuneInv

LEMMA NormalFrameKeeps ==
  ASSUME TuneInv, NormalFrame
  PROVE  TuneInv'
<1>1. PICK f \in Arriving, valid \in BOOLEAN, stalled \in Stalls : Step(f, valid, stalled)
  BY DEF NormalFrame, ControllerFrame
<1>2. ~Tuning' /\ ~Tuning /\ queue = <<>> /\ queue' = <<>> /\ tuned' = tuned
  BY DEF NormalFrame, Tuning
<1>3. Running' => Running
  BY <1>1 DEF Step, CalibrationStep, ProtectedStep, OffStep, RunStep, Running, Modes
<1>4. EndedTuneDisables'
  BY <1>2, <1>3 DEF TuneInv, EndedTuneDisables
<1>5. QED
  BY <1>2, <1>4, EndedKeeps

\* Nothing that TuneInv is about changes.
LEMMA SameKeeps ==
  ASSUME TuneInv,
         UNCHANGED <<state, calibrated, faults, junction, config, last, tune, queue, enabled, turn,
                     tuned, disturbed>>
  PROVE  TuneInv'
<1>1. EndedTuneDisables' /\ OffsetsAreKnown' /\ CellsAgree' /\ FrameIsFresh'
  BY DEF TuneInv, EndedTuneDisables, OffsetsAreKnown, CellsAgree, FrameIsFresh, Tuning, Running
<1>2. ReadyForGains' /\ GainsAreApplied' /\ RestsToTheEnd'
  BY DEF TuneInv, ReadyForGains, GainsAreApplied, RestsToTheEnd, StorageSafe
<1>3. QED
  BY <1>1, <1>2 DEF TuneInv

LEMMA TuneNextInv == TaskInv /\ TuneInv /\ [TaskNext]_allVars => TuneInv'
<1>1. SUFFICES ASSUME TaskInv, TuneInv, [TaskNext]_allVars PROVE TuneInv'
  OBVIOUS
<1>2. CASE Abort \/ LeaseEnds \/ NoFrame
  <2>1. Drained /\ state' \notin Modes
    BY <1>2 DEF Abort, LeaseEnds, NoFrame, Disable, EnterIdle, AdcTimeout, Modes
  <2>2. QED
    BY <1>1, <2>1, DrainedKeeps
<1>3. CASE Claim \/ UNCHANGED allVars
  <2>1. UNCHANGED <<state, calibrated, faults, junction, config, last, tune, queue, enabled, turn,
                    tuned, disturbed>>
    BY <1>3 DEF Claim, allVars, taskVars, vars
  <2>2. QED
    BY <1>1, <2>1, SameKeeps
<1>4. CASE AutoTuneStart
  BY <1>1, <1>4, StartKeeps
<1>5. CASE (\E mode \in Modes : UserEnable(mode)) \/ UserChange \/ ParameterRequest
  <2>1. UNCHANGED <<tune, queue, turn, enabled>> /\ disturbed' = (disturbed \/ Tuning)
        /\ tuned' \in {tuned, FALSE}
    BY <1>5 DEF UserEnable, UserChange, ParameterRequest
  <2>2. UNCHANGED calibrated
    BY <1>5 DEF UserEnable, Enable, UserChange, ClearFault, SetCellCount, SetTuning, Configure,
                ParameterRequest, ApplyLiveProfile, ReloadProfile, ApplyProfile, Resynchronize
  <2>3. Running' /\ ~Running => ~tuned'
    <3>1. CASE \E mode \in Modes : UserEnable(mode)
      BY <3>1 DEF UserEnable
    <3>2. CASE UserChange \/ ParameterRequest
      BY <3>2 DEF UserChange, ClearFault, SetCellCount, SetTuning, Configure, ParameterRequest,
                  ApplyLiveProfile, ReloadProfile, ApplyProfile, Resynchronize, Running, Modes
    <3>3. QED
      BY <1>5, <3>1, <3>2
  <2>4. QED
    BY <1>1, <2>1, <2>2, <2>3, UserKeeps
<1>6. CASE TuneFrame
  BY <1>1, <1>6, TuneFrameKeeps
<1>7. CASE Tick
  BY <1>1, <1>7, TickKeeps
<1>8. CASE PopRequest
  BY <1>1, <1>8, PopKeeps
<1>9. CASE SaveTune
  BY <1>1, <1>9, SaveKeeps
<1>10. CASE EndTick
  BY <1>1, <1>10, EndTickKeeps
<1>11. CASE NormalFrame
  BY <1>1, <1>11, NormalFrameKeeps
<1>12. QED
  BY <1>1, <1>2, <1>3, <1>4, <1>5, <1>6, <1>7, <1>8, <1>9, <1>10, <1>11
     DEF TaskNext, Commands, Loop

LEMMA TuneInitInv == TaskInit => TuneInv
<1>1. SUFFICES ASSUME TaskInit PROVE TuneInv
  OBVIOUS
<1>2. tune.state = "Idle" /\ queue = <<>> /\ ~tuned
  BY <1>1 DEF TaskInit, NewTune
<1>3. QED
  BY <1>2
     DEF TuneInv, EndedTuneDisables, OffsetsAreKnown, CellsAgree, FrameIsFresh, ReadyForGains,
         GainsAreApplied, RestsToTheEnd, Tuning, IsRunning, Terminal, Delegating, PiPhases, Early,
         Applied, Late

\* TaskInv and TuneInv together are inductive: the tune, its requests and the
\* controller agree from the start of a tune to its end.
THEOREM TuneInductive == TaskSpec => [](TaskInv /\ TuneInv)
<1>1. QED
  BY TaskInitInv, TuneInitInv, TaskNextInv, TuneNextInv, PTL DEF TaskSpec

\* When the loop has applied what an ended tune left, no mode it enabled runs.
THEOREM TuneModeEndsHolds == TaskSpec => []TuneModeEnds
<1>1. TuneInv => TuneModeEnds
  BY DEF TuneInv, EndedTuneDisables, TuneModeEnds
<1>2. QED
  BY <1>1, TuneInductive, PTL

\* An undisturbed tune reaches its save with a controller that accepts it.
THEOREM SavedTuneIsStorableHolds == TaskSpec => []SavedTuneIsStorable
<1>1. TuneInv => SavedTuneIsStorable
  BY DEF TuneInv, RestsToTheEnd, SavedTuneIsStorable, Late, StorageSafe
<1>2. QED
  BY <1>1, TuneInductive, PTL

\* What an undisturbed tune stores are the gains the controller runs with.
THEOREM UndisturbedRecordsMatchHolds == TaskSpec => UndisturbedRecordsMatch
<1> DEFINE Match == tune.state = "Save" /\ tune'.state = "Done" /\ ~disturbed
                      => config.tuning = Gains(tune)
<1>1. ASSUME TaskInv, TuneInv, [TaskNext]_allVars, tune.state = "Save", tune'.state = "Done",
             ~disturbed
      PROVE  config.tuning = Gains(tune)
  <2>1. Tuning /\ tune' # tune
    BY <1>1 DEF Tuning, IsRunning, Terminal
  <2>2. ~Claim /\ ~UNCHANGED allVars /\ ~UserChange /\ ~ParameterRequest /\ ~PopRequest /\ ~EndTick
        /\ ~NormalFrame /\ ~(\E mode \in Modes : UserEnable(mode))
    BY <2>1 DEF Claim, allVars, taskVars, UserChange, ParameterRequest, PopRequest, EndTick,
                NormalFrame, UserEnable
  <2>3. ~Abort /\ ~LeaseEnds /\ ~NoFrame /\ ~AutoTuneStart
    BY <1>1, <2>1 DEF Abort, LeaseEnds, NoFrame, Drained, Ended, NewTune, AutoTuneStart, CanClaim
  <2>4. CASE SaveTune
    BY <1>1, <2>4 DEF SaveTune, TuneInv, GainsAreApplied, Applied, Late
  <2>5. tune \in Tunes
    BY <1>1 DEF TaskInv, TaskTypeOK
  <2>6. ~TuneFrame
    <3>1. SUFFICES ASSUME NEW f \in Arriving, tune' = FastStep(tune, f).tune PROVE FALSE
      BY DEF TuneFrame
    <3>2. f \in Frames
      BY ArrivingType DEF NewFrames
    <3>3. tune'.state \in {tune.state, "Error"}
      BY <2>5, <3>1, <3>2, FastStepGoesOn DEF Failed
    <3>4. QED
      BY <1>1, <3>3
  <2>7. ~Tick
    <3>1. SUFFICES ASSUME NEW l \in TaskTick(tune, state), tune' = l.tune PROVE FALSE
      BY <2>1 DEF Tick
    <3>2. Failed(l) \/ GoesOn(tune, l, state)
      BY <2>1, <2>5, TaskTickGoesOn DEF Tuning
    <3>3. tune'.state \in {tune.state, "Error"}
      BY <1>1, <3>1, <3>2 DEF Failed, GoesOn, Leading, Following
    <3>4. QED
      BY <1>1, <3>3
  <2>8. QED
    BY <1>1, <2>2, <2>3, <2>4, <2>6, <2>7 DEF TaskNext, Commands, Loop
<1>2. TaskInv /\ TuneInv /\ [TaskNext]_allVars => [Match]_allVars
  BY <1>1
<1>3. QED
  BY <1>2, TuneInductive, PTL DEF TaskSpec, UndisturbedRecordsMatch
=============================================================================
