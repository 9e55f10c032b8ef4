---------------------------- MODULE HostSession ----------------------------
(***************************************************************************)
(* The session of the host application, run in session.rs of device-foc:   *)
(* it takes the calls of the user interface, a stop before any other,      *)
(* sends one request at a time over a link that delays and loses messages, *)
(* keeps the lease of the device alive, and closes when the interface or   *)
(* the device falls silent.  The device is what the session sees of it:    *)
(* its lease and whether the motor runs (RemoteControl has the details).   *)
(* Times are ages in a unit of 100 ms, and stop growing where nothing      *)
(* depends on them any more.                                               *)
(***************************************************************************)
EXTENDS Integers, Sequences

CONSTANTS
  Heartbeat,     \* a heartbeat is due (100 ms)
  Timeout,       \* an exchange gives up (220 ms)
  Silence,       \* the interface is silent while it controls the motor (500 ms)
  Closing,       \* or at all (1500 ms)
  LeaseTime,     \* lifetime of a lease of the device (500 ms)
  RequestDelay,  \* longest way of a request to the device
  AnswerDelay,   \* longest way of an answer to the host
  Slots,         \* capacity of the queue of calls
  MaxClaims,     \* bound on claims
  Ids,           \* request numbers; one no message carries any more comes again
  None           \* no call, no owner

ASSUME SessionAssumption ==
  /\ {Heartbeat, Timeout, Silence, Closing, LeaseTime} \subseteq Nat \ {0}
  /\ RequestDelay \in Nat /\ AnswerDelay \in Nat
  /\ Slots \in Nat \ {0} /\ MaxClaims \in Nat
  /\ RequestDelay < Timeout
  /\ None \notin 0..MaxClaims

VARIABLES
  at,          \* what the session waits for: calls, or the answer to an exchange
  waited,      \* since it waits
  controlled,  \* snapshot.controlled
  session,     \* session number, a new one with every claim
  id,          \* number of the last request
  beat,        \* since the last heartbeat
  touched,     \* since the interface showed a sign of life
  calls,       \* the queue of calls
  stops,       \* the queue of stops, which has one place
  call,        \* the call under way
  sent,        \* requests on their way
  answers,     \* answers on their way
  device       \* the lease and the motor

host == <<at, waited, controlled, session, id, beat, call>>
vars == <<host, touched, calls, stops, sent, answers, device>>

Stops == {"disable", "release", "__disconnect"}
Actions == {"claim", "enable"}

\* Where the session can be: an exchange has the name of its place in the code.
Exchanges == {"call", "beat", "status", "tune", "last_beat", "disable", "release"}

\* The motor has stopped when the interface has been silent for so long: behind
\* the session's last look a heartbeat is on its way, a second one reaches the
\* device just before the lease ends, and the session's own stop is lost.
DeadTime == Silence + RequestDelay + 2 * LeaseTime

Calls == [command : Actions, stopped : BOOLEAN]
Requests == [command : Actions \cup Stops \cup {"heartbeat", "status"},
             session : 0..MaxClaims, id : Ids, age : 0..RequestDelay]
Answers == [good : BOOLEAN, session : 0..MaxClaims, id : Ids, age : 0..AnswerDelay]

TypeOK ==
  /\ at \in Exchanges \cup {"select", "ended"}
  /\ waited \in 0..Timeout
  /\ controlled \in BOOLEAN
  /\ session \in 0..MaxClaims
  /\ id \in Ids
  /\ beat \in 0..Heartbeat
  /\ touched \in 0..DeadTime
  /\ calls \in Seq(Calls) /\ Len(calls) <= Slots
  /\ stops \in Seq(Stops) /\ Len(stops) <= 1
  /\ call \in Actions \cup Stops \cup {None}
  /\ sent \subseteq Requests
  /\ answers \subseteq Answers
  /\ device \in [owner : 0..MaxClaims \cup {None}, left : 0..LeaseTime, running : BOOLEAN,
                 restarted : BOOLEAN, done : Ids]

Init ==
  /\ at = "select" /\ waited = 0
  /\ controlled = FALSE
  /\ session = 0 /\ id \in Ids
  /\ beat = 0 /\ touched = 0
  /\ calls = <<>> /\ stops = <<>> /\ call = None
  /\ sent = {} /\ answers = {}
  /\ device = [owner |-> None, left |-> 0, running |-> FALSE, restarted |-> FALSE, done |-> id]

-----------------------------------------------------------------------------
(* The user interface. *)

Touch ==
  /\ touched' = 0
  /\ UNCHANGED <<host, calls, stops, sent, answers, device>>

\* Mutant of Room: the queue takes any number of calls.
RoomAlways == TRUE

\* try_send refuses a call when the queue is full.
Room == Len(calls) < Slots

\* Session::command: a call for which there is no room is refused.  A stop
\* concerns the calls that wait when it is made.
Command ==
  /\ at # "ended"
  /\ \/ /\ Room
        /\ \E c \in Actions :
             calls' = Append(calls, [command |-> c, stopped |-> FALSE])
        /\ UNCHANGED stops
     \/ /\ stops = <<>>
        /\ \E c \in Stops : stops' = <<c>>
        /\ calls' = [i \in DOMAIN calls |-> [calls[i] EXCEPT !.stopped = TRUE]]
  /\ UNCHANGED <<host, touched, sent, answers, device>>

-----------------------------------------------------------------------------
(* The loop of the session. *)

\* The number of a request grows with every exchange and never wraps: it is not
\* the number of any message on its way, nor of what the device has done last.
Fresh == Ids \ ({id, device.done} \cup {m.id : m \in sent \cup answers})

\* Serial::exchange sends a request with the next number.
Start(where, command, s) ==
  /\ at' = where /\ waited' = 0
  /\ session' = s
  /\ id' \in Fresh
  /\ sent' = sent \cup {[command |-> command, session |-> s, id |-> id', age |-> 0]}

\* The loop is left: the session stops the motor and gives the lease back.
Close == Start("disable", "disable", session)

\* Mutant of Abandoned: a session that has the motor waits as long as any other.
AbandonedLong(c) == c /\ touched > Closing

\* The interface is silent while the session has the motor.
Abandoned(c) == c /\ touched > Silence

Silent(c) == touched > Closing \/ Abandoned(c)

\* The head of the loop.
Top(c) ==
  IF Silent(c) THEN Close
  ELSE at' = "select" /\ waited' = 0 /\ UNCHANGED <<session, id, sent>>

\* The end of the loop's body: a heartbeat if it is due, then the head.
End(c, b) ==
  /\ controlled' = c /\ call' = None
  /\ IF c /\ b >= Heartbeat
     THEN beat' = b /\ Start("last_beat", "heartbeat", session)
     ELSE beat' = b /\ Top(c)

\* Mutant of Drained: queued calls stay.
Kept(q) == q

\* A stop cancels the calls that wait.
Drained(q) == <<>>

\* A stop is taken before any call, but the tick may come first time and again;
\* a stop whose caller has left after 3 s is not sent.
TakeStop ==
  /\ at = "select" /\ stops # <<>>
  /\ stops' = <<>> /\ calls' = Drained(calls)
  /\ LET stop == Head(stops)
     IN \/ stop = "__disconnect" /\ Close /\ UNCHANGED call
        \/ stop # "__disconnect" /\ Start("call", stop, session) /\ call' = stop
        \/ stop # "__disconnect" /\ Top(controlled) /\ UNCHANGED call
  /\ UNCHANGED <<controlled, beat, touched, answers, device>>

\* Mutant of Permitted: control is not asked for.
PermittedAlways(command) == command = "claim" => ~controlled

\* validate: a claim needs a session without control, anything else one that has
\* it.  The telemetry and the limits may be other reasons to refuse.
Permitted(command) == IF command = "claim" THEN ~controlled ELSE controlled

\* A call is expired when it waited for more than 200 ms, refused, or sent.
TakeCall ==
  /\ at = "select" /\ stops = <<>> /\ calls # <<>>
  /\ calls' = Tail(calls)
  /\ LET c == Head(calls).command
     IN \/ Top(controlled) /\ UNCHANGED <<controlled, beat, call>>
        \/ End(controlled, beat)
        \/ /\ Permitted(c)
           /\ c = "claim" => session < MaxClaims
           /\ Start("call", c, IF c = "claim" THEN session + 1 ELSE session)
           /\ call' = c
           /\ UNCHANGED <<controlled, beat>>
  /\ UNCHANGED <<touched, stops, answers, device>>

\* The tick of 50 ms: a heartbeat if it is due, the telemetry, the tune.
Tick ==
  /\ at = "select"
  /\ IF Abandoned(controlled) THEN Close
     ELSE IF controlled /\ beat >= Heartbeat THEN Start("beat", "heartbeat", session)
     ELSE Start("status", "status", session)
  /\ UNCHANGED <<controlled, beat, call, touched, calls, stops, answers, device>>

\* Mutant of Control: a release whose answer is missing counts.
ControlHopeful(good) ==
  IF call = "claim" THEN controlled \/ good ELSE controlled /\ call # "release"

\* Whether the session has the motor after the call under way.
Control(good) ==
  IF call = "claim" THEN controlled \/ good ELSE controlled /\ ~(good /\ call = "release")

\* An exchange ends, with a confirmation or not.  The interface that takes the
\* telemetry may have gone, which closes the session too.
Finish(good) ==
  CASE at = "call" -> End(Control(good), IF good /\ call = "claim" THEN 0 ELSE beat)
    [] at = "beat" ->
         /\ beat' = 0
         /\ IF good THEN Start("status", "status", session) ELSE Close
         /\ UNCHANGED <<controlled, call>>
    [] at = "status" ->
         \/ good /\ Start("tune", "status", session) /\ UNCHANGED <<controlled, beat, call>>
         \/ good /\ End(controlled, beat)
         \/ Close /\ UNCHANGED <<controlled, beat, call>>
    [] at = "tune" ->
         \/ End(controlled, beat)
         \/ Close /\ UNCHANGED <<controlled, beat, call>>
    [] at = "last_beat" ->
         /\ beat' = 0
         /\ IF good THEN Top(controlled) ELSE Close
         /\ UNCHANGED <<controlled, call>>
    [] at = "disable" -> Start("release", "release", session) /\ UNCHANGED <<controlled, beat, call>>
    [] OTHER ->
         /\ at' = "ended" /\ waited' = 0 /\ controlled' = FALSE
         /\ UNCHANGED <<session, id, beat, call, sent>>

\* Mutant of Matches: any answer will do.
MatchesSession(a) == a.session = session

\* A late answer to an earlier request is skipped.
Matches(a) == a.session = session /\ a.id = id

\* The queues end with the session.
Ending ==
  IF at' = "ended" THEN calls' = <<>> /\ stops' = <<>> ELSE UNCHANGED <<calls, stops>>

Receive ==
  /\ at \in Exchanges
  /\ \E a \in answers :
       /\ answers' = answers \ {a}
       /\ IF Matches(a) THEN Finish(a.good) ELSE UNCHANGED <<host, sent>>
  /\ Ending
  /\ UNCHANGED <<touched, device>>

GiveUp ==
  /\ at \in Exchanges /\ waited = Timeout
  /\ Finish(FALSE)
  /\ Ending
  /\ UNCHANGED <<touched, answers, device>>

-----------------------------------------------------------------------------
(* The device and the link. *)

Owner(r) == device.owner = r.session

\* What the device does with a request, and whether it confirms it.
Confirms(r) ==
  /\ ~device.restarted
  /\ CASE r.command = "claim" -> device.owner = None /\ ~device.running
       [] r.command \in {"heartbeat", "enable", "release"} -> Owner(r)
       [] OTHER -> TRUE

Applied(r) ==
  CASE r.command \in {"claim", "heartbeat"} ->
         [device EXCEPT !.owner = r.session, !.left = LeaseTime, !.done = r.id]
    [] r.command = "enable" -> [device EXCEPT !.running = TRUE, !.done = r.id]
    [] r.command = "disable" -> [device EXCEPT !.running = FALSE, !.done = r.id]
    [] r.command = "release" ->
         [device EXCEPT !.owner = None, !.left = 0, !.running = FALSE, !.done = r.id]
    [] OTHER -> [device EXCEPT !.done = r.id]

\* The device may refuse what it could do, as its permit is old or the motor is
\* not fit for it.
Deliver ==
  /\ \E r \in sent :
       /\ sent' = sent \ {r}
       /\ \E good \in BOOLEAN :
            /\ good => Confirms(r)
            /\ device' = IF good THEN Applied(r) ELSE device
            /\ answers' = answers \cup
                 {[good |-> good, session |-> r.session, id |-> r.id, age |-> 0]}
  /\ UNCHANGED <<host, touched, calls, stops>>

LoseRequest ==
  /\ \E r \in sent : sent' = sent \ {r}
  /\ UNCHANGED <<host, touched, calls, stops, answers, device>>

LoseAnswer ==
  /\ \E a \in answers : answers' = answers \ {a}
  /\ UNCHANGED <<host, touched, calls, stops, sent, device>>

\* A restart forgets the lease; the boot number of every later answer is wrong.
Restart ==
  /\ ~device.restarted
  /\ device' = [device EXCEPT !.owner = None, !.left = 0, !.running = FALSE, !.restarted = TRUE]
  /\ UNCHANGED <<host, touched, calls, stops, sent, answers>>

-----------------------------------------------------------------------------
(* Time. *)

Older(n, limit) == IF n < limit THEN n + 1 ELSE n

\* The device drops an owner whose lease has run out, and stops the motor.
Aged ==
  IF device.left > 1 THEN [device EXCEPT !.left = @ - 1]
  ELSE [device EXCEPT !.left = 0, !.owner = None,
                      !.running = device.running /\ device.owner = None]

\* 100 ms pass.  The session does not wait for calls longer, as its tick comes,
\* nor for an answer beyond its time; messages arrive or are lost in theirs.
Pass ==
  /\ at = "select" => waited = 0
  /\ at \in Exchanges => waited < Timeout
  /\ \A r \in sent : r.age < RequestDelay
  /\ \A a \in answers : a.age < AnswerDelay
  /\ waited' = IF at = "ended" THEN 0 ELSE waited + 1
  /\ beat' = Older(beat, Heartbeat)
  /\ touched' = Older(touched, DeadTime)
  /\ sent' = {[r EXCEPT !.age = @ + 1] : r \in sent}
  /\ answers' = {[a EXCEPT !.age = @ + 1] : a \in answers}
  /\ device' = Aged
  /\ UNCHANGED <<at, controlled, session, id, call, calls, stops>>

Next ==
  \/ Touch \/ Command
  \/ TakeStop \/ TakeCall \/ Tick \/ Receive \/ GiveUp
  \/ Deliver \/ LoseRequest \/ LoseAnswer \/ Restart
  \/ Pass

Spec == Init /\ [][Next]_vars

-----------------------------------------------------------------------------
(* Properties. *)

\* A motor runs only while the session that started it counts itself in control,
\* until it has ended: an answer that is lost or late never leaves the motor
\* running under a session that shows the user no control, and a claim whose
\* answer is lost never lets a later session start it.
RunningIsControlled == device.running /\ at # "ended" => controlled

\* The dead man's switch from end to end: when the interface falls silent the
\* motor stops within a bounded time, however many exchanges the session has
\* under way, even if everything that is sent to stop the motor is lost.
SilenceStopsTheMotor == device.running => touched < DeadTime

\* A call that was waiting when a stop was made is never carried out.
StopsCancelCalls ==
  [][calls # <<>> /\ at = "select" /\ at' = "call" /\ call' = Head(calls).command
       /\ stops' = stops => ~Head(calls).stopped]_vars

\* A confirmation is about the request it answers: the device has carried out
\* just this one, not an earlier one whose answer was late.
ConfirmationsAreTrue ==
  [][\A a \in answers \ answers' :
       a.good /\ at \in Exchanges /\ at' # at => device.done = id]_vars
=============================================================================
