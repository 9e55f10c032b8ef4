------------------------- MODULE HostSessionProofs -------------------------
(***************************************************************************)
(* HostSession keeps its types and its safety properties for every value   *)
(* of the periods, the timeout, the delays of the link, the queue and the  *)
(* number of claims.  The session's own steps are many, and all of them    *)
(* are of one shape: they end with a request of the session on its way,    *)
(* or with none (Acts).  So the proof of a step first shows that it acts,  *)
(* and the invariant is shown once for all steps that do.                  *)
(***************************************************************************)
EXTENDS HostSession, SequenceTheorems, TLAPS

-----------------------------------------------------------------------------
(* The inductive invariant. *)

\* The command of the request behind the exchange under way.
Asked ==
  CASE at = "call" -> call
    [] at \in {"beat", "last_beat"} -> "heartbeat"
    [] at \in {"status", "tune"} -> "status"
    [] at = "disable" -> "disable"
    [] OTHER -> "release"

\* One request at most is on its way, that of the exchange under way.
OneRequest ==
  \A r \in sent : /\ at \in Exchanges
                  /\ r = [command |-> Asked, session |-> session, id |-> id, age |-> waited]

\* While it is, no answer to it is.
AnswerComesAfter == sent # {} => \A a \in answers : a.id # id

\* What an answer to the last request says of the device.
ConfirmedIsDone ==
  \A a \in answers : a.good /\ a.id = id =>
    /\ device.done = id
    /\ at = "call" /\ call = "release" => ~device.running

\* Why the session waits where it does.
ExchangesAreJustified ==
  /\ at = "call" => /\ call \in Actions \cup Stops
                    /\ call = "claim" => ~controlled
                    /\ call = "enable" => controlled
  /\ at \in {"beat", "last_beat"} => controlled

OwnedHasTime ==
  /\ device.running => device.owner # None
  /\ device.owner # None => device.left > 0

\* When the lease ends at the latest, if the session can not renew it any more.
Limit == Silence + RequestDelay + LeaseTime

\* The motor runs, or the session may still start it.
Armed ==
  \/ device.running
  \/ controlled /\ device.owner = session /\ at \notin {"disable", "release", "ended"}

\* Places that lead to a look at the interface without a heartbeat in between.
Leaving == {"last_beat", "disable", "release", "ended"}

\* A heartbeat sent after the last look at an interface that was not yet silent
\* too long reaches the device before the limit, and there is one such heartbeat.
LeaseIsShort ==
  /\ Armed => touched + device.left <= Limit + LeaseTime
  /\ Armed /\ at \notin Leaving => touched + device.left <= Limit
  /\ Armed /\ at = "last_beat" /\ sent # {} => touched + device.left <= Limit
  /\ at = "beat" => touched <= Silence + waited

\* A call is marked only while the stop that marked it waits too.
StoppedHaveStop == stops = <<>> => \A i \in DOMAIN calls : ~calls[i].stopped

Messages == OneRequest /\ AnswerComesAfter /\ ConfirmedIsDone

SessionInv ==
  /\ TypeOK
  /\ Messages
  /\ ExchangesAreJustified /\ RunningIsControlled
  /\ OwnedHasTime /\ LeaseIsShort
  /\ StoppedHaveStop

\* The states of the device.
Devices == [owner : 0..MaxClaims \cup {None}, left : 0..LeaseTime, running : BOOLEAN,
            restarted : BOOLEAN, done : Ids]

\* The times the properties speak of.
LEMMA TimesType ==
  /\ Silence \in Nat /\ LeaseTime \in Nat /\ Heartbeat \in Nat
  /\ Limit \in Nat /\ DeadTime \in Nat /\ 0 \in 0..DeadTime
<1>1. Silence \in Nat /\ LeaseTime \in Nat /\ Heartbeat \in Nat /\ RequestDelay \in Nat
  BY SessionAssumption
<1>2. Limit \in Nat /\ DeadTime \in Nat
  BY <1>1 DEF Limit, DeadTime
<1>3. QED
  BY <1>1, <1>2

LEMMA SessionInitType == Init => TypeOK
<1>1. SUFFICES ASSUME Init PROVE TypeOK
  OBVIOUS
<1>2. /\ 0 \in 0..Timeout /\ 0 \in 0..MaxClaims /\ 0 \in 0..Heartbeat /\ 0 \in 0..LeaseTime
      /\ 0 \in 0..DeadTime /\ Slots \in Nat
  BY SessionAssumption DEF DeadTime
<1>3. calls \in Seq(Calls) /\ Len(calls) <= Slots /\ stops \in Seq(Stops) /\ Len(stops) <= 1
  BY <1>1, <1>2 DEF Init
<1>4. device \in [owner : 0..MaxClaims \cup {None}, left : 0..LeaseTime, running : BOOLEAN,
                  restarted : BOOLEAN, done : Ids]
  BY <1>1, <1>2 DEF Init
<1>5. at \in Exchanges \cup {"select", "ended"} /\ call \in Actions \cup Stops \cup {None}
  BY <1>1 DEF Init
<1>6. sent \subseteq Requests /\ answers \subseteq Answers /\ id \in Ids /\ controlled \in BOOLEAN
  BY <1>1 DEF Init
<1>7. waited \in 0..Timeout /\ session \in 0..MaxClaims /\ beat \in 0..Heartbeat
      /\ touched \in 0..DeadTime
  BY <1>1, <1>2 DEF Init
<1>8. QED
  BY <1>3, <1>4, <1>5, <1>6, <1>7 DEF TypeOK

LEMMA SessionInitInv == Init => SessionInv
<1>1. SUFFICES ASSUME Init PROVE SessionInv
  OBVIOUS
<1>2. TypeOK
  BY <1>1, SessionInitType
<1>3. sent = {} /\ answers = {} /\ at = "select" /\ ~controlled /\ calls = <<>>
      /\ ~device.running /\ device.owner = None
  BY <1>1 DEF Init
<1>4. QED
  BY <1>2, <1>3
     DEF SessionInv, Messages, OneRequest, AnswerComesAfter, ConfirmedIsDone,
         ExchangesAreJustified, RunningIsControlled, OwnedHasTime, LeaseIsShort, Armed,
         StoppedHaveStop

-----------------------------------------------------------------------------
(* What the session does next. *)

\* It asks something, with a number no answer has.
Asks ==
  /\ at' \in Exchanges /\ waited' = 0
  /\ id' \in Ids /\ \A a \in answers : a.id # id'
  /\ sent' = {[command |-> Asked', session |-> session', id |-> id', age |-> 0]}

\* It asks nothing.
Rests ==
  /\ at' \in {"select", "ended"} /\ waited' = 0
  /\ UNCHANGED <<id, session>>
  /\ sent' = {}

\* The lease and the clocks as the session's steps treat them.
Looks ==
  /\ at' = "beat" => controlled' /\ touched <= Silence
  /\ at' = "last_beat" => controlled /\ controlled' /\ at \notin Leaving
  /\ at = "last_beat" /\ at' \notin Leaving => touched <= Silence
  /\ at \in {"disable", "release"} => at' \in {"release", "ended"}
  /\ at # "ended"

\* Control is taken with a confirmed claim and given back with a confirmed release.
Controls ==
  \/ controlled' = controlled
  \/ /\ at = "call" /\ call = "claim" /\ controlled'
     /\ \/ at' = "disable"
        \/ at' = "select" /\ touched <= Silence
  \/ /\ ~controlled' /\ at = "call" /\ call = "release"
     /\ \E a \in answers : a.good /\ a.id = id
  \/ at' = "ended"

\* Only a claim that is sent changes the session number.
Renumbers == session' = session \/ (~controlled /\ at = "select" /\ controlled' = controlled)

Acts == /\ Asks \/ Rests
        /\ Looks /\ Controls /\ Renumbers /\ ExchangesAreJustified'
        /\ beat' \in 0..Heartbeat /\ session' \in 0..MaxClaims
        /\ call' \in Actions \cup Stops \cup {None}
        /\ controlled' \in BOOLEAN

LEMMA StartAsks ==
  ASSUME sent = {}, NEW where \in Exchanges, NEW command, NEW s, Start(where, command, s),
         Asked' = command
  PROVE  Asks /\ at' = where /\ session' = s
BY DEF Start, Fresh, Asks

LEMMA CloseAsks ==
  ASSUME sent = {}, Close
  PROVE  Asks /\ at' = "disable" /\ session' = session
<1>1. Start("disable", "disable", session) /\ "disable" \in Exchanges
  BY DEF Close, Exchanges
<1>2. Asked' = "disable"
  BY <1>1 DEF Start, Asked
<1>3. QED
  BY <1>1, <1>2, StartAsks

\* The head of the loop closes the session, or waits with an interface that is
\* not silent.
LEMMA TopMoves ==
  ASSUME sent = {}, NEW c \in BOOLEAN, Top(c), touched \in Nat
  PROVE  /\ session' = session
         /\ \/ at' = "disable" /\ Asks
            \/ at' = "select" /\ Rests /\ (c => touched <= Silence)
<1>1. CASE Silent(c)
  BY <1>1, CloseAsks DEF Top
<1>2. CASE ~Silent(c)
  <2>1. at' = "select" /\ Rests /\ session' = session
    BY <1>2 DEF Top, Rests
  <2>2. c => touched <= Silence
    BY <1>2, SessionAssumption DEF Silent, Abandoned
  <2>3. QED
    BY <2>1, <2>2
<1>3. QED
  BY <1>1, <1>2

\* The end of the body may send a heartbeat before.
LEMMA EndMoves ==
  ASSUME sent = {}, NEW c \in BOOLEAN, NEW b, End(c, b), touched \in Nat
  PROVE  /\ controlled' = c /\ call' = None /\ beat' = b /\ session' = session
         /\ \/ at' = "last_beat" /\ Asks /\ c /\ b >= Heartbeat
            \/ at' = "disable" /\ Asks
            \/ at' = "select" /\ Rests /\ (c => touched <= Silence)
<1>1. controlled' = c /\ call' = None /\ beat' = b
  BY DEF End
<1>2. CASE c /\ b >= Heartbeat
  <2>1. Start("last_beat", "heartbeat", session) /\ "last_beat" \in Exchanges
    BY <1>2 DEF End, Exchanges
  <2>2. Asked' = "heartbeat"
    BY <2>1 DEF Start, Asked
  <2>3. QED
    BY <1>1, <1>2, <2>1, <2>2, StartAsks
<1>3. CASE ~(c /\ b >= Heartbeat)
  <2>1. Top(c)
    BY <1>3 DEF End
  <2>2. QED
    BY <1>1, <2>1, TopMoves
<1>4. QED
  BY <1>2, <1>3

LEMMA SelectIsQuiet ==
  ASSUME OneRequest, at \notin Exchanges
  PROVE  sent = {}
BY DEF OneRequest

LEMMA TakeStopActs ==
  ASSUME SessionInv, TakeStop
  PROVE  sent = {} /\ Acts
<1>1. at = "select" /\ stops # <<>> /\ stops \in Seq(Stops) /\ controlled \in BOOLEAN
      /\ touched \in Nat /\ beat \in 0..Heartbeat /\ session \in 0..MaxClaims
      /\ call \in Actions \cup Stops \cup {None}
  BY SessionAssumption DEF SessionInv, TypeOK, TakeStop, DeadTime
<1>2. sent = {}
  BY <1>1, SelectIsQuiet DEF SessionInv, Messages, Exchanges
<1>3. UNCHANGED <<controlled, beat>>
  BY DEF TakeStop
<1> DEFINE stop == Head(stops)
<1>4. stop \in Stops
  BY <1>1
<1>5. \/ Close /\ call' = call
      \/ Start("call", stop, session) /\ call' = stop
      \/ Top(controlled) /\ call' = call
  BY DEF TakeStop
<1>6. CASE Close /\ call' = call
  <2>1. Asks /\ at' = "disable" /\ session' = session
    BY <1>2, <1>6, CloseAsks
  <2>2. QED
    BY <1>1, <1>2, <1>3, <1>6, <2>1
       DEF Acts, Looks, Controls, Renumbers, ExchangesAreJustified
<1>7. CASE Start("call", stop, session) /\ call' = stop
  <2>1. Asked' = stop
    BY <1>7 DEF Start, Asked
  <2>2. Asks /\ at' = "call" /\ session' = session
    BY <1>2, <1>7, <2>1, StartAsks DEF Exchanges
  <2>3. stop \notin {"claim", "enable"}
    BY <1>4 DEF Stops
  <2>4. QED
    BY <1>1, <1>2, <1>3, <1>4, <1>7, <2>2, <2>3
       DEF Acts, Looks, Controls, Renumbers, ExchangesAreJustified
<1>8. CASE Top(controlled) /\ call' = call
  <2>1. session' = session /\ \/ at' = "disable" /\ Asks
                              \/ at' = "select" /\ Rests
    BY <1>1, <1>2, <1>8, TopMoves
  <2>2. QED
    BY <1>1, <1>2, <1>3, <1>8, <2>1
       DEF Acts, Looks, Controls, Renumbers, ExchangesAreJustified
<1>9. QED
  BY <1>5, <1>6, <1>7, <1>8

LEMMA TakeCallActs ==
  ASSUME SessionInv, TakeCall
  PROVE  sent = {} /\ Acts
<1>1. at = "select" /\ calls # <<>> /\ calls \in Seq(Calls) /\ controlled \in BOOLEAN
      /\ touched \in Nat /\ beat \in 0..Heartbeat /\ session \in 0..MaxClaims
      /\ call \in Actions \cup Stops \cup {None}
  BY SessionAssumption DEF SessionInv, TypeOK, TakeCall, DeadTime
<1>2. sent = {}
  BY <1>1, SelectIsQuiet DEF SessionInv, Messages, Exchanges
<1> DEFINE c == Head(calls).command
<1>3. c \in Actions
  <2>1. Head(calls) \in Calls
    BY <1>1
  <2>2. QED
    BY <2>1 DEF Calls
<1>4. \/ Top(controlled) /\ UNCHANGED <<controlled, beat, call>>
      \/ End(controlled, beat)
      \/ /\ Permitted(c)
         /\ c = "claim" => session < MaxClaims
         /\ Start("call", c, IF c = "claim" THEN session + 1 ELSE session)
         /\ call' = c
         /\ UNCHANGED <<controlled, beat>>
  BY DEF TakeCall
<1>5. CASE Top(controlled) /\ UNCHANGED <<controlled, beat, call>>
  <2>1. session' = session /\ \/ at' = "disable" /\ Asks
                              \/ at' = "select" /\ Rests
    BY <1>1, <1>2, <1>5, TopMoves
  <2>2. QED
    BY <1>1, <1>2, <1>5, <2>1
       DEF Acts, Looks, Controls, Renumbers, ExchangesAreJustified
<1>6. CASE End(controlled, beat)
  <2>1. /\ controlled' = controlled /\ call' = None /\ beat' = beat /\ session' = session
        /\ \/ at' = "last_beat" /\ Asks /\ controlled
           \/ at' = "disable" /\ Asks
           \/ at' = "select" /\ Rests
    BY <1>1, <1>2, <1>6, EndMoves
  <2>2. QED
    BY <1>1, <1>2, <2>1
       DEF Acts, Looks, Leaving, Controls, Renumbers, ExchangesAreJustified
<1>7. CASE /\ Permitted(c)
           /\ c = "claim" => session < MaxClaims
           /\ Start("call", c, IF c = "claim" THEN session + 1 ELSE session)
           /\ call' = c
           /\ UNCHANGED <<controlled, beat>>
  <2> DEFINE s == IF c = "claim" THEN session + 1 ELSE session
  <2>1. Start("call", c, s)
    BY <1>7
  <2>2. Asked' = c
    BY <1>7, <2>1 DEF Start, Asked
  <2>3. Asks /\ at' = "call" /\ session' = s
    <3> HIDE DEF s, c
    <3> QED
      BY <1>2, <2>1, <2>2, StartAsks DEF Exchanges
  <2>4. s \in 0..MaxClaims
    BY <1>1, <1>7, SessionAssumption
  <2>5. c = "claim" => ~controlled
    BY <1>7 DEF Permitted
  <2>6. c = "enable" => controlled
    BY <1>7 DEF Permitted
  <2>7. Renumbers
    BY <1>1, <1>7, <2>3, <2>5 DEF Renumbers
  <2> HIDE DEF s, c
  <2>8. ExchangesAreJustified'
    BY <1>3, <1>7, <2>3, <2>5, <2>6 DEF ExchangesAreJustified
  <2>9. QED
    BY <1>1, <1>2, <1>3, <1>7, <2>3, <2>4, <2>7, <2>8
       DEF Acts, Looks, Controls
<1>8. QED
  BY <1>4, <1>5, <1>6, <1>7

LEMMA TickActs ==
  ASSUME SessionInv, Tick
  PROVE  sent = {} /\ Acts
<1>1. at = "select" /\ controlled \in BOOLEAN /\ touched \in Nat
      /\ beat \in 0..Heartbeat /\ session \in 0..MaxClaims
      /\ call \in Actions \cup Stops \cup {None}
  BY SessionAssumption DEF SessionInv, TypeOK, Tick, DeadTime
<1>2. sent = {}
  BY <1>1, SelectIsQuiet DEF SessionInv, Messages, Exchanges
<1>3. UNCHANGED <<controlled, beat, call>>
  BY DEF Tick
<1>4. CASE Abandoned(controlled)
  <2>1. Close
    BY <1>4 DEF Tick
  <2>2. Asks /\ at' = "disable" /\ session' = session
    BY <1>2, <2>1, CloseAsks
  <2>3. QED
    BY <1>1, <1>2, <1>3, <2>2
       DEF Acts, Looks, Controls, Renumbers, ExchangesAreJustified
<1>5. CASE ~Abandoned(controlled) /\ controlled /\ beat >= Heartbeat
  <2>1. Start("beat", "heartbeat", session)
    BY <1>5 DEF Tick
  <2>2. Asked' = "heartbeat"
    BY <2>1 DEF Start, Asked
  <2>3. Asks /\ at' = "beat" /\ session' = session
    BY <1>2, <2>1, <2>2, StartAsks DEF Exchanges
  <2>4. touched <= Silence
    BY <1>1, <1>5, SessionAssumption DEF Abandoned
  <2>5. QED
    BY <1>1, <1>2, <1>3, <1>5, <2>3, <2>4
       DEF Acts, Looks, Controls, Renumbers, ExchangesAreJustified
<1>6. CASE ~Abandoned(controlled) /\ ~(controlled /\ beat >= Heartbeat)
  <2>1. Start("status", "status", session)
    BY <1>6 DEF Tick
  <2>2. Asked' = "status"
    BY <2>1 DEF Start, Asked
  <2>3. Asks /\ at' = "status" /\ session' = session
    BY <1>2, <2>1, <2>2, StartAsks DEF Exchanges
  <2>4. QED
    BY <1>1, <1>2, <1>3, <2>3
       DEF Acts, Looks, Controls, Renumbers, ExchangesAreJustified
<1>7. QED
  BY <1>4, <1>5, <1>6

\* What follows an exchange, whichever way it ended.
LEMMA FinishActs ==
  ASSUME SessionInv, NEW good \in BOOLEAN, sent = {}, at \in Exchanges, Finish(good),
         good => \E a \in answers : a.good /\ a.id = id
  PROVE  Acts
<1>1. /\ controlled \in BOOLEAN /\ touched \in Nat
      /\ beat \in 0..Heartbeat /\ 0 \in 0..Heartbeat /\ session \in 0..MaxClaims
      /\ call \in Actions \cup Stops \cup {None}
  BY SessionAssumption DEF SessionInv, TypeOK, DeadTime
<1>2. ExchangesAreJustified
  BY DEF SessionInv
<1>3. CASE at = "call"
  <2> DEFINE c == Control(good)
             b == IF good /\ call = "claim" THEN 0 ELSE beat
  <2>1. End(c, b)
    BY <1>3 DEF Finish
  <2>2. c \in BOOLEAN /\ b \in 0..Heartbeat
    BY <1>1 DEF Control
  <2>3. \/ c = controlled
        \/ call = "claim" /\ c /\ b = 0
        \/ ~c /\ call = "release" /\ good
    BY <1>1 DEF Control
  <2> HIDE DEF c, b
  <2>4. /\ controlled' = c /\ call' = None /\ beat' = b /\ session' = session
        /\ \/ at' = "last_beat" /\ Asks /\ c /\ b >= Heartbeat
           \/ at' = "disable" /\ Asks
           \/ at' = "select" /\ Rests /\ (c => touched <= Silence)
    BY <1>1, <2>1, <2>2, EndMoves
  <2>5. Controls
    <3>1. ~(b = 0 /\ b >= Heartbeat)
      BY SessionAssumption
    <3>2. QED
      BY <1>3, <2>3, <2>4, <3>1 DEF Controls
  <2>6. at' = "last_beat" => controlled
    <3>1. ~(b = 0 /\ b >= Heartbeat)
      BY SessionAssumption
    <3>2. QED
      BY <1>1, <2>2, <2>3, <2>4, <3>1
  <2>7. QED
    BY <1>1, <1>3, <2>2, <2>4, <2>5, <2>6
       DEF Acts, Looks, Leaving, Renumbers, ExchangesAreJustified
<1>4. CASE at = "beat"
  <2>1. beat' = 0 /\ UNCHANGED <<controlled, call>>
    BY <1>4 DEF Finish
  <2>2. CASE good
    <3>1. Start("status", "status", session)
      BY <1>4, <2>2 DEF Finish
    <3>2. Asked' = "status"
      BY <3>1 DEF Start, Asked
    <3>3. Asks /\ at' = "status" /\ session' = session
      BY <3>1, <3>2, StartAsks DEF Exchanges
    <3>4. QED
      BY <1>1, <1>4, <2>1, <3>3 DEF Acts, Looks, Controls, Renumbers, ExchangesAreJustified
  <2>3. CASE ~good
    <3>1. Close
      BY <1>4, <2>3 DEF Finish
    <3>2. Asks /\ at' = "disable" /\ session' = session
      BY <3>1, CloseAsks
    <3>3. QED
      BY <1>1, <1>4, <2>1, <3>2 DEF Acts, Looks, Controls, Renumbers, ExchangesAreJustified
  <2>4. QED
    BY <2>2, <2>3
<1>5. CASE at \in {"status", "tune"}
  <2>1. \/ at = "status" /\ Start("tune", "status", session) /\ UNCHANGED <<controlled, beat, call>>
        \/ End(controlled, beat)
        \/ Close /\ UNCHANGED <<controlled, beat, call>>
    BY <1>5 DEF Finish
  <2>2. CASE Start("tune", "status", session) /\ UNCHANGED <<controlled, beat, call>>
    <3>1. Asked' = "status"
      BY <2>2 DEF Start, Asked
    <3>2. Asks /\ at' = "tune" /\ session' = session
      BY <2>2, <3>1, StartAsks DEF Exchanges
    <3>3. QED
      BY <1>1, <1>5, <2>2, <3>2 DEF Acts, Looks, Controls, Renumbers, ExchangesAreJustified
  <2>3. CASE End(controlled, beat)
    <3>1. /\ controlled' = controlled /\ call' = None /\ beat' = beat /\ session' = session
          /\ \/ at' = "last_beat" /\ Asks /\ controlled
             \/ at' = "disable" /\ Asks
             \/ at' = "select" /\ Rests
      BY <1>1, <2>3, EndMoves
    <3>2. QED
      BY <1>1, <1>5, <3>1 DEF Acts, Looks, Leaving, Controls, Renumbers, ExchangesAreJustified
  <2>4. CASE Close /\ UNCHANGED <<controlled, beat, call>>
    <3>1. Asks /\ at' = "disable" /\ session' = session
      BY <2>4, CloseAsks
    <3>2. QED
      BY <1>1, <1>5, <2>4, <3>1 DEF Acts, Looks, Controls, Renumbers, ExchangesAreJustified
  <2>5. QED
    BY <2>1, <2>2, <2>3, <2>4
<1>6. CASE at = "last_beat"
  <2>1. beat' = 0 /\ UNCHANGED <<controlled, call>> /\ controlled
    BY <1>2, <1>6 DEF Finish, ExchangesAreJustified
  <2>2. Top(controlled) \/ Close
    BY <1>6 DEF Finish
  <2>3. session' = session /\ \/ at' = "disable" /\ Asks
                              \/ at' = "select" /\ Rests /\ touched <= Silence
    BY <1>1, <2>1, <2>2, TopMoves, CloseAsks
  <2>4. QED
    BY <1>1, <1>6, <2>1, <2>3 DEF Acts, Looks, Leaving, Controls, Renumbers, ExchangesAreJustified
<1>7. CASE at = "disable"
  <2>1. Start("release", "release", session) /\ UNCHANGED <<controlled, beat, call>>
    BY <1>7 DEF Finish
  <2>2. Asked' = "release"
    BY <2>1 DEF Start, Asked
  <2>3. Asks /\ at' = "release" /\ session' = session
    BY <2>1, <2>2, StartAsks DEF Exchanges
  <2>4. QED
    BY <1>1, <1>7, <2>1, <2>3 DEF Acts, Looks, Controls, Renumbers, ExchangesAreJustified
<1>8. CASE at = "release"
  <2>1. /\ at' = "ended" /\ waited' = 0 /\ controlled' = FALSE
        /\ UNCHANGED <<session, id, beat, call, sent>>
    BY <1>8 DEF Finish
  <2>2. Rests
    BY <2>1 DEF Rests
  <2>3. QED
    BY <1>1, <1>8, <2>1, <2>2 DEF Acts, Looks, Controls, Renumbers, ExchangesAreJustified
<1>9. QED
  BY <1>3, <1>4, <1>5, <1>6, <1>7, <1>8 DEF Exchanges

LEMMA ReceiveActs ==
  ASSUME SessionInv, NEW a \in answers, Matches(a), at \in Exchanges, Finish(a.good)
  PROVE  sent = {} /\ Acts
<1>1. a.good \in BOOLEAN
  BY DEF SessionInv, TypeOK, Answers
<1>2. sent = {}
  BY DEF Matches, SessionInv, Messages, AnswerComesAfter
<1>3. QED
  BY <1>1, <1>2, FinishActs DEF Matches

LEMMA GiveUpActs ==
  ASSUME SessionInv, GiveUp
  PROVE  sent = {} /\ Acts
<1>1. sent = {}
  <2>1. SUFFICES ASSUME NEW r \in sent PROVE FALSE
    OBVIOUS
  <2>2. r.age = Timeout
    BY DEF GiveUp, SessionInv, Messages, OneRequest
  <2>3. r.age \in 0..RequestDelay
    BY DEF SessionInv, TypeOK, Requests
  <2>4. QED
    BY <2>2, <2>3, SessionAssumption
<1>2. QED
  BY <1>1, FinishActs DEF GiveUp

-----------------------------------------------------------------------------
(* What these steps keep. *)

LEMMA ActsKeep ==
  ASSUME SessionInv, sent = {}, Acts, answers' \subseteq answers, device' = device,
         touched' = touched
  PROVE  Messages' /\ RunningIsControlled' /\ OwnedHasTime' /\ LeaseIsShort'
<1>1. Messages'
  <2>1. CASE Asks
    <3>1. OneRequest'
      BY <2>1 DEF Asks, OneRequest
    <3>2. AnswerComesAfter'
      BY <2>1 DEF Asks, AnswerComesAfter
    <3>3. ConfirmedIsDone'
      BY <2>1 DEF Asks, ConfirmedIsDone
    <3>4. QED
      BY <3>1, <3>2, <3>3 DEF Messages
  <2>2. CASE Rests
    <3>1. OneRequest' /\ AnswerComesAfter'
      BY <2>2 DEF Rests, OneRequest, AnswerComesAfter
    <3>2. ConfirmedIsDone'
      BY <2>2 DEF Rests, ConfirmedIsDone, SessionInv, Messages
    <3>3. QED
      BY <3>1, <3>2 DEF Messages
  <2>3. QED
    BY <2>1, <2>2 DEF Acts
<1>2. RunningIsControlled'
  <2>1. SUFFICES ASSUME device.running, at' # "ended" PROVE controlled'
    BY DEF RunningIsControlled
  <2>2. controlled
    BY <2>1 DEF Acts, Looks, SessionInv, RunningIsControlled
  <2>3. ~(at = "call" /\ call = "release" /\ \E a \in answers : a.good /\ a.id = id)
    BY <2>1 DEF SessionInv, Messages, ConfirmedIsDone
  <2>4. QED
    BY <2>1, <2>2, <2>3 DEF Acts, Controls
<1>3. OwnedHasTime'
  BY DEF OwnedHasTime, SessionInv
<1>4. touched \in Nat /\ device.left \in 0..LeaseTime /\ controlled \in BOOLEAN
  BY SessionAssumption DEF SessionInv, TypeOK, DeadTime
<1>5. touched <= Silence => touched + device.left <= Limit
  BY <1>4, SessionAssumption DEF Limit
<1>6. Limit \in Nat /\ LeaseTime \in Nat
  BY SessionAssumption DEF Limit
<1>7. RunningIsControlled /\ ExchangesAreJustified /\ LeaseIsShort
  BY DEF SessionInv
<1>8. Armed' => Armed \/ (at' = "select" /\ touched <= Silence)
  BY <1>7 DEF Acts, Looks, Controls, Renumbers, Armed, RunningIsControlled
<1>9. Armed' => touched + device.left <= Limit + LeaseTime
  BY <1>4, <1>5, <1>6, <1>7, <1>8 DEF LeaseIsShort
<1>10. Armed' /\ at' \notin Leaving => touched + device.left <= Limit
  <2>1. SUFFICES ASSUME Armed', at' \notin Leaving PROVE touched + device.left <= Limit
    OBVIOUS
  <2>2. CASE at \in Leaving
    <3>1. at = "last_beat"
      BY <2>1, <2>2 DEF Acts, Looks, Leaving
    <3>2. QED
      BY <2>1, <3>1, <1>5 DEF Acts, Looks
  <2>3. CASE at \notin Leaving
    BY <2>1, <2>3, <1>5, <1>7, <1>8 DEF LeaseIsShort
  <2>4. QED
    BY <2>2, <2>3
<1>11. Armed' /\ at' = "last_beat" => touched + device.left <= Limit
  BY <1>7, <1>8 DEF Acts, Looks, LeaseIsShort
<1>12. at' = "beat" => touched <= Silence + waited'
  BY <1>4, SessionAssumption DEF Acts, Looks, Asks, Rests
<1>13. QED
  BY <1>1, <1>2, <1>3, <1>9, <1>10, <1>11, <1>12 DEF LeaseIsShort

LEMMA ActsType ==
  ASSUME SessionInv, sent = {}, Acts, answers' \subseteq answers, device' = device,
         touched' = touched, calls' \in Seq(Calls), Len(calls') <= Slots,
         stops' \in Seq(Stops), Len(stops') <= 1
  PROVE  TypeOK'
<1>1. 0 \in 0..Timeout /\ 0 \in 0..RequestDelay
  BY SessionAssumption
<1>2. CASE Asks
  <2>1. Asked' \in Actions \cup Stops \cup {"heartbeat", "status"}
    <3>1. at' = "call" => call' \in Actions \cup Stops
      BY DEF Acts, ExchangesAreJustified
    <3>2. QED
      BY <3>1 DEF Asked, Stops
  <2>2. sent' \subseteq Requests
    <3> DEFINE asked == Asked'
    <3>1. asked \in Actions \cup Stops \cup {"heartbeat", "status"}
      BY <2>1
    <3>2. sent' = {[command |-> asked, session |-> session', id |-> id', age |-> 0]}
      BY <1>2 DEF Asks
    <3> DEFINE request == [command |-> asked, session |-> session', id |-> id', age |-> 0]
    <3> HIDE DEF asked
    <3>3. session' \in 0..MaxClaims /\ id' \in Ids
      BY <1>2 DEF Asks, Acts
    <3>4. request \in Requests
      BY <1>1, <3>1, <3>3 DEF Requests
    <3>5. sent' = {request}
      BY <3>2
    <3> HIDE DEF request
    <3>6. QED
      BY <3>4, <3>5
  <2>3. QED
    BY <1>1, <1>2, <2>2 DEF TypeOK, SessionInv, Acts, Asks
<1>3. CASE Rests
  BY <1>1, <1>3 DEF TypeOK, SessionInv, Acts, Rests
<1>4. QED
  BY <1>2, <1>3 DEF Acts

LEMMA TakeStopKeeps == SessionInv /\ TakeStop => SessionInv'
<1>1. SUFFICES ASSUME SessionInv, TakeStop PROVE SessionInv'
  OBVIOUS
<1>2. sent = {} /\ Acts
  BY <1>1, TakeStopActs
<1>3. calls' = <<>> /\ stops' = <<>> /\ answers' = answers /\ device' = device
      /\ touched' = touched
  BY <1>1 DEF TakeStop, Drained
<1>4. Messages' /\ RunningIsControlled' /\ OwnedHasTime' /\ LeaseIsShort'
  BY <1>1, <1>2, <1>3, ActsKeep
<1>5. TypeOK'
  <2>1. calls' \in Seq(Calls) /\ Len(calls') <= Slots /\ stops' \in Seq(Stops) /\ Len(stops') <= 1
    BY <1>3, SessionAssumption
  <2>2. QED
    BY <1>1, <1>2, <1>3, <2>1, ActsType
<1>6. StoppedHaveStop' /\ ExchangesAreJustified'
  BY <1>2, <1>3 DEF StoppedHaveStop, Acts
<1>7. QED
  BY <1>4, <1>5, <1>6 DEF SessionInv

LEMMA TakeCallKeeps == SessionInv /\ TakeCall => SessionInv'
<1>1. SUFFICES ASSUME SessionInv, TakeCall PROVE SessionInv'
  OBVIOUS
<1>2. sent = {} /\ Acts
  BY <1>1, TakeCallActs
<1>3. calls' = Tail(calls) /\ stops' = stops /\ stops = <<>> /\ answers' = answers
      /\ device' = device /\ touched' = touched /\ calls # <<>>
  BY <1>1 DEF TakeCall
<1>4. Messages' /\ RunningIsControlled' /\ OwnedHasTime' /\ LeaseIsShort'
  BY <1>1, <1>2, <1>3, ActsKeep
<1>5. calls \in Seq(Calls) /\ Len(calls) <= Slots /\ Slots \in Nat
  BY <1>1, SessionAssumption DEF SessionInv, TypeOK
<1>6. calls' \in Seq(Calls) /\ Len(calls') = Len(calls) - 1
      /\ \A i \in 1..Len(calls') : calls'[i] = calls[i + 1] /\ i + 1 \in 1..Len(calls)
  BY <1>3, <1>5
<1>7. TypeOK'
  <2>1. Len(calls') <= Slots /\ stops' \in Seq(Stops) /\ Len(stops') <= 1
    BY <1>3, <1>5, <1>6
  <2>2. QED
    BY <1>1, <1>2, <1>3, <1>6, <2>1, ActsType
<1>8. StoppedHaveStop'
  <2>1. \A i \in 1..Len(calls) : ~calls[i].stopped
    BY <1>1, <1>3, <1>5 DEF SessionInv, StoppedHaveStop
  <2>2. \A i \in 1..Len(calls') : ~calls'[i].stopped
    BY <1>6, <2>1
  <2>3. DOMAIN calls' = 1..Len(calls')
    BY <1>6
  <2>4. QED
    BY <2>2, <2>3 DEF StoppedHaveStop
<1>9. QED
  BY <1>2, <1>4, <1>7, <1>8 DEF SessionInv, Acts

LEMMA TickKeeps == SessionInv /\ Tick => SessionInv'
<1>1. SUFFICES ASSUME SessionInv, Tick PROVE SessionInv'
  OBVIOUS
<1>2. sent = {} /\ Acts
  BY <1>1, TickActs
<1>3. calls' = calls /\ stops' = stops /\ answers' = answers /\ device' = device
      /\ touched' = touched
  BY <1>1 DEF Tick
<1>4. Messages' /\ RunningIsControlled' /\ OwnedHasTime' /\ LeaseIsShort'
  BY <1>1, <1>2, <1>3, ActsKeep
<1>5. TypeOK'
  <2>1. calls' \in Seq(Calls) /\ Len(calls') <= Slots /\ stops' \in Seq(Stops) /\ Len(stops') <= 1
    BY <1>1, <1>3 DEF SessionInv, TypeOK
  <2>2. QED
    BY <1>1, <1>2, <1>3, <2>1, ActsType
<1>6. StoppedHaveStop' /\ ExchangesAreJustified'
  BY <1>1, <1>2, <1>3 DEF SessionInv, StoppedHaveStop, Acts
<1>7. QED
  BY <1>4, <1>5, <1>6 DEF SessionInv

\* The end of an exchange, with the queues.
LEMMA EndingKeeps ==
  ASSUME SessionInv, sent = {}, Acts, Ending, answers' \subseteq answers,
         device' = device, touched' = touched
  PROVE  SessionInv'
<1>1. Messages' /\ RunningIsControlled' /\ OwnedHasTime' /\ LeaseIsShort'
  BY ActsKeep
<1>2. \/ calls' = <<>> /\ stops' = <<>>
      \/ calls' = calls /\ stops' = stops
  BY DEF Ending
<1>3. calls' \in Seq(Calls) /\ Len(calls') <= Slots /\ stops' \in Seq(Stops) /\ Len(stops') <= 1
  <2>1. CASE calls' = <<>> /\ stops' = <<>>
    BY <2>1, SessionAssumption
  <2>2. CASE calls' = calls /\ stops' = stops
    BY <2>2 DEF SessionInv, TypeOK
  <2>3. QED
    BY <1>2, <2>1, <2>2
<1>4. TypeOK'
  BY <1>3, ActsType
<1>5. StoppedHaveStop' /\ ExchangesAreJustified'
  BY <1>2 DEF SessionInv, StoppedHaveStop, Acts
<1>6. QED
  BY <1>1, <1>4, <1>5 DEF SessionInv

LEMMA ReceiveKeeps == SessionInv /\ Receive => SessionInv'
<1>1. SUFFICES ASSUME SessionInv, at \in Exchanges, Ending, UNCHANGED <<touched, device>>,
                      NEW a \in answers, answers' = answers \ {a},
                      IF Matches(a) THEN Finish(a.good) ELSE UNCHANGED <<host, sent>>
               PROVE  SessionInv'
  BY DEF Receive
<1>2. CASE Matches(a)
  BY <1>1, <1>2, ReceiveActs, EndingKeeps
<1>3. CASE ~Matches(a)
  <2>1. UNCHANGED <<at, waited, controlled, session, id, beat, call, sent, touched, device>>
    BY <1>1, <1>3 DEF host
  <2>2. UNCHANGED <<calls, stops>>
    BY <1>1, <2>1 DEF Ending, Exchanges
  <2>3. TypeOK'
    BY <1>1, <2>1, <2>2 DEF SessionInv, TypeOK
  <2>4. OneRequest' /\ AnswerComesAfter' /\ ConfirmedIsDone'
    BY <1>1, <2>1
       DEF SessionInv, Messages, OneRequest, AnswerComesAfter, ConfirmedIsDone, Asked
  <2>5. ExchangesAreJustified' /\ RunningIsControlled' /\ OwnedHasTime' /\ StoppedHaveStop'
    BY <1>1, <2>1, <2>2
       DEF SessionInv, ExchangesAreJustified, RunningIsControlled, OwnedHasTime, StoppedHaveStop
  <2>6. LeaseIsShort'
    BY <1>1, <2>1 DEF SessionInv, LeaseIsShort, Armed
  <2>7. QED
    BY <2>3, <2>4, <2>5, <2>6 DEF SessionInv, Messages
<1>4. QED
  BY <1>2, <1>3

LEMMA GiveUpKeeps == SessionInv /\ GiveUp => SessionInv'
<1>1. SUFFICES ASSUME SessionInv, GiveUp PROVE SessionInv'
  OBVIOUS
<1>2. sent = {} /\ Acts
  BY <1>1, GiveUpActs
<1>3. Ending /\ answers' = answers /\ device' = device /\ touched' = touched
  BY <1>1 DEF GiveUp
<1>4. QED
  BY <1>1, <1>2, <1>3, EndingKeeps

LEMMA TouchKeeps == SessionInv /\ Touch => SessionInv'
<1>1. SUFFICES ASSUME SessionInv, Touch PROVE SessionInv'
  OBVIOUS
<1>2. UNCHANGED <<at, waited, controlled, session, id, beat, call, sent, answers, device, calls,
                  stops>>
  BY <1>1 DEF Touch, host
<1>3. touched' = 0 /\ 0 \in 0..DeadTime /\ touched \in 0..DeadTime
  BY <1>1, TimesType DEF Touch, SessionInv, TypeOK
<1>4. TypeOK'
  BY <1>1, <1>2, <1>3 DEF SessionInv, TypeOK
<1>5. OneRequest' /\ AnswerComesAfter' /\ ConfirmedIsDone'
  BY <1>1, <1>2 DEF SessionInv, Messages, OneRequest, AnswerComesAfter, ConfirmedIsDone, Asked
<1>6. ExchangesAreJustified' /\ RunningIsControlled' /\ OwnedHasTime' /\ StoppedHaveStop'
  BY <1>1, <1>2
     DEF SessionInv, ExchangesAreJustified, RunningIsControlled, OwnedHasTime, StoppedHaveStop
<1>7. LeaseIsShort'
  <2>1. Armed' <=> Armed
    BY <1>2 DEF Armed
  <2>2. device.left \in Nat /\ waited \in Nat /\ touched \in Nat
    <3>1. device.left \in 0..LeaseTime /\ waited \in 0..Timeout /\ touched \in 0..DeadTime
      BY <1>1 DEF SessionInv, TypeOK
    <3>2. QED
      BY <3>1, SessionAssumption, TimesType
  <2>3. LeaseIsShort
    BY <1>1 DEF SessionInv
  <2> HIDE DEF Limit
  <2>4. QED
    BY <1>2, <1>3, <2>1, <2>2, <2>3, TimesType DEF LeaseIsShort
<1>8. QED
  BY <1>4, <1>5, <1>6, <1>7 DEF SessionInv, Messages

LEMMA CommandKeeps == SessionInv /\ Command => SessionInv'
<1>1. SUFFICES ASSUME SessionInv, Command PROVE SessionInv'
  OBVIOUS
<1>2. UNCHANGED <<at, waited, controlled, session, id, beat, call, touched, sent, answers, device>>
  BY <1>1 DEF Command, host
<1>3. calls \in Seq(Calls) /\ Len(calls) <= Slots /\ stops \in Seq(Stops) /\ Len(stops) <= 1
      /\ Slots \in Nat
  BY <1>1, SessionAssumption DEF SessionInv, TypeOK
<1>4. /\ calls' \in Seq(Calls) /\ Len(calls') <= Slots
      /\ stops' \in Seq(Stops) /\ Len(stops') <= 1 /\ StoppedHaveStop'
  <2>1. CASE /\ Room
             /\ \E c \in Actions : calls' = Append(calls, [command |-> c, stopped |-> FALSE])
             /\ UNCHANGED stops
    <3>1. PICK c \in Actions : calls' = Append(calls, [command |-> c, stopped |-> FALSE])
      BY <2>1
    <3> DEFINE new == [command |-> c, stopped |-> FALSE]
    <3>2. new \in Calls /\ ~new.stopped /\ Len(calls) < Slots /\ stops' = stops
      BY <2>1 DEF Calls, Room
    <3>3. calls' = Append(calls, new)
      BY <3>1
    <3> HIDE DEF new
    <3>4. calls' \in Seq(Calls) /\ Len(calls') = Len(calls) + 1
      BY <1>3, <3>2, <3>3
    <3>5. \A i \in 1..Len(calls') : calls'[i] = new \/ (i \in 1..Len(calls) /\ calls'[i] = calls[i])
      BY <1>3, <3>2, <3>3, <3>4
    <3>6. DOMAIN calls' = 1..Len(calls') /\ DOMAIN calls = 1..Len(calls)
      BY <1>3, <3>4
    <3>7. StoppedHaveStop'
      BY <1>1, <3>2, <3>5, <3>6 DEF SessionInv, StoppedHaveStop
    <3>8. QED
      BY <1>3, <3>2, <3>4, <3>7
  <2>2. CASE /\ stops = <<>>
             /\ \E c \in Stops : stops' = <<c>>
             /\ calls' = [i \in DOMAIN calls |-> [calls[i] EXCEPT !.stopped = TRUE]]
    <3>1. stops' \in Seq(Stops) /\ Len(stops') = 1 /\ stops' # <<>>
      BY <2>2
    <3>2. DOMAIN calls = 1..Len(calls) /\ Len(calls) \in Nat
      BY <1>3
    <3>3. \A i \in 1..Len(calls) : [calls[i] EXCEPT !.stopped = TRUE] \in Calls
      <4>1. SUFFICES ASSUME NEW i \in 1..Len(calls)
                     PROVE  [calls[i] EXCEPT !.stopped = TRUE] \in Calls
        OBVIOUS
      <4>2. calls[i] \in Calls
        BY <1>3
      <4>3. QED
        BY <4>2 DEF Calls
    <3>4. calls' \in [1..Len(calls) -> Calls]
      BY <2>2, <3>2, <3>3
    <3>5. calls' \in Seq(Calls)
      BY <3>2, <3>4
    <3>6. Len(calls') = Len(calls)
      <4>1. DOMAIN calls' = 1..Len(calls)
        BY <3>4
      <4>2. QED
        BY <3>2, <3>5, <4>1, LenProperties
    <3>7. QED
      BY <1>3, <3>1, <3>5, <3>6 DEF StoppedHaveStop
  <2>3. QED
    BY <1>1, <2>1, <2>2 DEF Command
<1>5. TypeOK'
  BY <1>1, <1>2, <1>4 DEF SessionInv, TypeOK
<1>6. OneRequest' /\ AnswerComesAfter' /\ ConfirmedIsDone'
  BY <1>1, <1>2 DEF SessionInv, Messages, OneRequest, AnswerComesAfter, ConfirmedIsDone, Asked
<1>7. ExchangesAreJustified' /\ RunningIsControlled' /\ OwnedHasTime' /\ LeaseIsShort'
  BY <1>1, <1>2
     DEF SessionInv, ExchangesAreJustified, RunningIsControlled, OwnedHasTime, LeaseIsShort, Armed
<1>8. QED
  BY <1>4, <1>5, <1>6, <1>7 DEF SessionInv, Messages

LEMMA LoseRequestKeeps == SessionInv /\ LoseRequest => SessionInv'
<1>1. SUFFICES ASSUME SessionInv, NEW r \in sent, sent' = sent \ {r},
                      UNCHANGED <<at, waited, controlled, session, id, beat, call, touched, calls,
                                  stops, answers, device>>
               PROVE  SessionInv'
  BY DEF LoseRequest, host
<1>2. TypeOK'
  BY <1>1 DEF SessionInv, TypeOK
<1>3. OneRequest' /\ AnswerComesAfter' /\ ConfirmedIsDone'
  BY <1>1 DEF SessionInv, Messages, OneRequest, AnswerComesAfter, ConfirmedIsDone, Asked
<1>4. ExchangesAreJustified' /\ RunningIsControlled' /\ OwnedHasTime' /\ LeaseIsShort'
      /\ StoppedHaveStop'
  BY <1>1
     DEF SessionInv, ExchangesAreJustified, RunningIsControlled, OwnedHasTime, LeaseIsShort, Armed,
         StoppedHaveStop
<1>5. QED
  BY <1>2, <1>3, <1>4 DEF SessionInv, Messages

LEMMA LoseAnswerKeeps == SessionInv /\ LoseAnswer => SessionInv'
<1>1. SUFFICES ASSUME SessionInv, NEW a \in answers, answers' = answers \ {a},
                      UNCHANGED <<at, waited, controlled, session, id, beat, call, touched, calls,
                                  stops, sent, device>>
               PROVE  SessionInv'
  BY DEF LoseAnswer, host
<1>2. TypeOK'
  BY <1>1 DEF SessionInv, TypeOK
<1>3. OneRequest' /\ AnswerComesAfter' /\ ConfirmedIsDone'
  BY <1>1 DEF SessionInv, Messages, OneRequest, AnswerComesAfter, ConfirmedIsDone, Asked
<1>4. ExchangesAreJustified' /\ RunningIsControlled' /\ OwnedHasTime' /\ LeaseIsShort'
      /\ StoppedHaveStop'
  BY <1>1
     DEF SessionInv, ExchangesAreJustified, RunningIsControlled, OwnedHasTime, LeaseIsShort, Armed,
         StoppedHaveStop
<1>5. QED
  BY <1>2, <1>3, <1>4 DEF SessionInv, Messages

LEMMA RestartKeeps == SessionInv /\ Restart => SessionInv'
<1>1. SUFFICES ASSUME SessionInv, Restart PROVE SessionInv'
  OBVIOUS
<1>2. UNCHANGED <<at, waited, controlled, session, id, beat, call, touched, calls, stops, sent,
                  answers>>
  BY <1>1 DEF Restart, host
<1>3. device \in Devices
  BY <1>1 DEF SessionInv, TypeOK, Devices
<1>4. device' \in Devices /\ ~device'.running /\ device'.owner = None
      /\ device'.done = device.done
  <2>1. device' = [device EXCEPT !.owner = None, !.left = 0, !.running = FALSE, !.restarted = TRUE]
    BY <1>1 DEF Restart
  <2>2. 0 \in 0..LeaseTime
    BY SessionAssumption
  <2>3. QED
    BY <1>3, <2>1, <2>2 DEF Devices
<1>5. TypeOK'
  BY <1>1, <1>2, <1>4 DEF SessionInv, TypeOK, Devices
<1>6. OneRequest' /\ AnswerComesAfter' /\ ConfirmedIsDone'
  BY <1>1, <1>2, <1>4
     DEF SessionInv, Messages, OneRequest, AnswerComesAfter, ConfirmedIsDone, Asked
<1>7. ~Armed'
  BY <1>1, <1>2, <1>4, SessionAssumption DEF Armed, SessionInv, TypeOK
<1>8. ExchangesAreJustified' /\ RunningIsControlled' /\ OwnedHasTime' /\ LeaseIsShort'
      /\ StoppedHaveStop'
  BY <1>1, <1>2, <1>4, <1>7
     DEF SessionInv, ExchangesAreJustified, RunningIsControlled, OwnedHasTime, LeaseIsShort,
         StoppedHaveStop
<1>9. QED
  BY <1>5, <1>6, <1>8 DEF SessionInv, Messages

\* Only a heartbeat renews a lease while the motor may run.
LEMMA DeliverDevice ==
  ASSUME SessionInv, NEW r \in sent, NEW good \in BOOLEAN, good => Confirms(r),
         device' = IF good THEN Applied(r) ELSE device
  PROVE  /\ device' \in Devices
         /\ good => device'.done = r.id
         /\ good /\ r.command = "release" => ~device'.running
         /\ device.running \/ (good /\ r.command = "enable" /\ Owner(r)) \/ ~device'.running
         /\ \/ device'.owner = device.owner /\ device'.left = device.left
            \/ good /\ r.command = "claim" /\ device'.owner = session /\ ~device'.running
               /\ device'.left = LeaseTime
            \/ good /\ r.command = "heartbeat" /\ device'.owner = session /\ device.owner = session
               /\ device'.left = LeaseTime
            \/ device'.owner = None /\ ~device'.running
<1>1. device \in Devices /\ r \in Requests /\ r.session = session
  BY DEF SessionInv, TypeOK, Devices, Messages, OneRequest
<1>2. r.id \in Ids /\ r.session \in 0..MaxClaims
      /\ r.command \in Actions \cup Stops \cup {"heartbeat", "status"}
  BY <1>1 DEF Requests
<1>3. LeaseTime \in 0..LeaseTime /\ 0 \in 0..LeaseTime
  BY SessionAssumption
<1>4. CASE ~good
  BY <1>1, <1>4
<1>5. CASE good
  <2>1. device' = Applied(r) /\ Confirms(r)
    BY <1>5
  <2>2. CASE r.command = "claim"
    <3>1. device' = [device EXCEPT !.owner = r.session, !.left = LeaseTime, !.done = r.id]
          /\ ~device.running
      BY <2>1, <2>2 DEF Applied, Confirms
    <3>2. QED
      BY <1>1, <1>2, <1>3, <1>5, <2>2, <3>1 DEF Devices
  <2>3. CASE r.command = "heartbeat"
    <3>1. device' = [device EXCEPT !.owner = r.session, !.left = LeaseTime, !.done = r.id]
          /\ device.owner = r.session
      BY <2>1, <2>3 DEF Applied, Confirms, Owner
    <3>2. QED
      BY <1>1, <1>2, <1>3, <1>5, <2>3, <3>1 DEF Devices
  <2>4. CASE r.command = "enable"
    <3>1. device' = [device EXCEPT !.running = TRUE, !.done = r.id] /\ Owner(r)
      BY <2>1, <2>4 DEF Applied, Confirms
    <3>2. QED
      BY <1>1, <1>2, <1>3, <1>5, <2>4, <3>1 DEF Devices
  <2>5. CASE r.command = "disable"
    <3>1. device' = [device EXCEPT !.running = FALSE, !.done = r.id]
      BY <2>1, <2>5 DEF Applied
    <3>2. QED
      BY <1>1, <1>2, <1>3, <1>5, <2>5, <3>1 DEF Devices
  <2>6. CASE r.command = "release"
    <3>1. device' = [device EXCEPT !.owner = None, !.left = 0, !.running = FALSE, !.done = r.id]
      BY <2>1, <2>6 DEF Applied
    <3>2. QED
      BY <1>1, <1>2, <1>3, <1>5, <2>6, <3>1 DEF Devices
  <2>7. CASE r.command \in {"__disconnect", "status"}
    <3>1. device' = [device EXCEPT !.done = r.id]
      BY <2>1, <2>7 DEF Applied
    <3>2. QED
      BY <1>1, <1>2, <1>3, <1>5, <2>7, <3>1 DEF Devices
  <2>8. QED
    BY <1>2, <2>2, <2>3, <2>4, <2>5, <2>6, <2>7 DEF Actions, Stops
<1>6. QED
  BY <1>4, <1>5

LEMMA DeliverKeeps == SessionInv /\ Deliver => SessionInv'
<1> DEFINE answer(g, r) == [good |-> g, session |-> r.session, id |-> r.id, age |-> 0]
<1>1. SUFFICES ASSUME SessionInv, NEW r \in sent, sent' = sent \ {r},
                      NEW good \in BOOLEAN, good => Confirms(r),
                      device' = IF good THEN Applied(r) ELSE device,
                      answers' = answers \cup {answer(good, r)},
                      UNCHANGED <<at, waited, controlled, session, id, beat, call, touched, calls,
                                  stops>>
               PROVE  SessionInv'
  BY DEF Deliver, host
<1>2. /\ at \in Exchanges /\ sent' = {}
      /\ r = [command |-> Asked, session |-> session, id |-> id, age |-> waited]
      /\ \A a \in answers : a.id # id
  BY <1>1 DEF SessionInv, Messages, OneRequest, AnswerComesAfter
<1>3. r \in Requests /\ r.id = id /\ r.session = session /\ r.command = Asked
  BY <1>1, <1>2 DEF SessionInv, TypeOK
<1>4. /\ device' \in Devices
      /\ good => device'.done = r.id
      /\ good /\ r.command = "release" => ~device'.running
      /\ device.running \/ (good /\ r.command = "enable" /\ Owner(r)) \/ ~device'.running
      /\ \/ device'.owner = device.owner /\ device'.left = device.left
         \/ good /\ r.command = "claim" /\ device'.owner = session /\ ~device'.running
            /\ device'.left = LeaseTime
         \/ good /\ r.command = "heartbeat" /\ device'.owner = session /\ device.owner = session
            /\ device'.left = LeaseTime
         \/ device'.owner = None /\ ~device'.running
  BY <1>1, DeliverDevice
<1>5. TypeOK'
  <2>1. answer(good, r) \in Answers
    <3>1. 0 \in 0..AnswerDelay
      BY SessionAssumption
    <3>2. QED
      BY <1>3, <3>1 DEF Requests, Answers
  <2> HIDE DEF answer
  <2>2. QED
    BY <1>1, <1>2, <1>4, <2>1 DEF SessionInv, TypeOK, Devices
<1>6. OneRequest' /\ AnswerComesAfter'
  BY <1>2 DEF OneRequest, AnswerComesAfter
<1>7. ConfirmedIsDone'
  <2>1. SUFFICES ASSUME NEW a \in answers', a.good, a.id = id
                 PROVE  device'.done = id /\ (at = "call" /\ call = "release" => ~device'.running)
    BY <1>1 DEF ConfirmedIsDone
  <2>2. a = answer(good, r) /\ good
    BY <1>1, <1>2, <2>1
  <2>3. at = "call" => r.command = call
    BY <1>3 DEF Asked
  <2>4. QED
    BY <1>3, <1>4, <2>2, <2>3
<1>8. ExchangesAreJustified' /\ StoppedHaveStop'
  BY <1>1 DEF SessionInv, ExchangesAreJustified, StoppedHaveStop
<1>9. r.command = "claim" => at = "call" /\ call = "claim" /\ ~controlled
  BY <1>1, <1>3 DEF Asked, SessionInv, ExchangesAreJustified
<1>10. r.command = "enable" => at = "call" /\ controlled
  BY <1>1, <1>3 DEF Asked, SessionInv, ExchangesAreJustified
<1>11. r.command = "heartbeat" /\ at # "call" => at \in {"beat", "last_beat"}
  BY <1>3 DEF Asked
<1>12. r.command = "heartbeat" => at # "call"
  BY <1>1, <1>3 DEF Asked, SessionInv, ExchangesAreJustified, Actions, Stops
<1>13. RunningIsControlled'
  BY <1>1, <1>4, <1>10 DEF SessionInv, RunningIsControlled
<1>14. OwnedHasTime'
  <2>1. LeaseTime > 0
    BY SessionAssumption
  <2>2. session # None
    BY <1>1, SessionAssumption DEF SessionInv, TypeOK
  <2>3. device.running => device.owner # None
    BY <1>1 DEF SessionInv, OwnedHasTime
  <2>4. device.owner # None => device.left > 0
    BY <1>1 DEF SessionInv, OwnedHasTime
  <2>5. Owner(r) => device.owner # None
    BY <1>3, <2>2 DEF Owner
  <2>6. device'.running => device'.owner # None
    BY <1>4, <2>2, <2>3, <2>5
  <2>7. device'.owner # None => device'.left > 0
    BY <1>4, <2>1, <2>4
  <2>8. QED
    BY <2>6, <2>7 DEF OwnedHasTime
<1>15. LeaseIsShort'
  <2>1. LeaseIsShort /\ touched \in Nat /\ waited \in Nat /\ device.left \in Nat
        /\ device'.left \in Nat /\ LeaseTime \in Nat /\ Limit \in Nat
    <3>1. LeaseIsShort /\ touched \in Nat /\ waited \in Nat
      BY <1>1, SessionAssumption DEF SessionInv, TypeOK, DeadTime
    <3>2. device \in Devices
      BY <1>1 DEF SessionInv, TypeOK, Devices
    <3>3. device.left \in Nat /\ device'.left \in Nat
      BY <1>4, <3>2, SessionAssumption DEF Devices
    <3>4. LeaseTime \in Nat /\ Limit \in Nat
      BY SessionAssumption DEF Limit
    <3>5. QED
      BY <3>1, <3>3, <3>4
  <2>2. Armed' => \/ Armed /\ device'.left = device.left
                  \/ Armed /\ at \in {"beat", "last_beat"} /\ device'.left = LeaseTime
    <3>1. session # None /\ session \in 0..MaxClaims
      BY <1>1, SessionAssumption DEF SessionInv, TypeOK
    <3>2. CASE device'.owner = device.owner /\ device'.left = device.left
      <4>1. Owner(r) /\ r.command = "enable" => Armed
        BY <1>3, <1>10 DEF Owner, Armed
      <4>2. QED
        BY <1>1, <1>4, <3>2, <4>1 DEF Armed
    <3>3. CASE r.command = "claim" /\ device'.owner = session /\ ~device'.running
      BY <1>1, <1>9, <3>3 DEF Armed
    <3>4. CASE r.command = "heartbeat" /\ device'.owner = session /\ device.owner = session
               /\ device'.left = LeaseTime
      <4>1. at \in {"beat", "last_beat"} /\ controlled
        BY <1>1, <1>11, <1>12, <3>4 DEF SessionInv, ExchangesAreJustified
      <4>2. Armed
        BY <3>4, <4>1 DEF Armed
      <4>3. QED
        BY <3>4, <4>1, <4>2
    <3>5. CASE device'.owner = None /\ ~device'.running
      BY <1>1, <3>1, <3>5 DEF Armed
    <3>6. QED
      BY <1>4, <3>2, <3>3, <3>4, <3>5
  <2>3. CASE ~Armed'
    BY <1>1, <2>1, <2>3 DEF LeaseIsShort
  <2>4. CASE Armed /\ device'.left = device.left
    BY <1>1, <1>2, <2>1, <2>4 DEF LeaseIsShort
  <2>5. CASE Armed /\ at = "beat" /\ device'.left = LeaseTime
    <3>1. waited <= RequestDelay
      BY <1>2, <1>3 DEF Requests
    <3>2. touched + LeaseTime <= Limit
      BY <2>1, <2>5, <3>1, SessionAssumption DEF LeaseIsShort, Limit
    <3>3. QED
      BY <1>1, <1>2, <2>1, <2>5, <3>2 DEF LeaseIsShort
  <2>6. CASE Armed /\ at = "last_beat" /\ device'.left = LeaseTime
    <3>1. device.left > 0
      <4>1. session # None
        BY <1>1, SessionAssumption DEF SessionInv, TypeOK
      <4>2. OwnedHasTime
        BY <1>1 DEF SessionInv
      <4>3. QED
        BY <2>6, <4>1, <4>2 DEF Armed, OwnedHasTime
    <3>2. touched + device.left <= Limit
      BY <1>1, <2>1, <2>6 DEF LeaseIsShort
    <3>3. touched + LeaseTime <= Limit + LeaseTime
      BY <2>1, <3>1, <3>2
    <3>4. QED
      BY <1>1, <1>2, <2>1, <2>6, <3>3 DEF LeaseIsShort, Leaving
  <2>7. QED
    BY <2>2, <2>3, <2>4, <2>5, <2>6
<1>16. QED
  BY <1>5, <1>6, <1>7, <1>8, <1>13, <1>14, <1>15 DEF SessionInv, Messages

LEMMA PassTypes ==
  ASSUME SessionInv, Pass
  PROVE  TypeOK' /\ device' \in Devices
<1>1. device \in Devices /\ device' = Aged
  BY DEF SessionInv, TypeOK, Devices, Pass
<1>2. device' \in Devices
  <2>1. CASE device.left > 1
    <3>1. device' = [device EXCEPT !.left = device.left - 1]
      BY <1>1, <2>1 DEF Aged
    <3>2. device.left - 1 \in 0..LeaseTime
      BY <1>1, <2>1, SessionAssumption DEF Devices
    <3>3. QED
      BY <1>1, <3>1, <3>2 DEF Devices
  <2>2. CASE ~(device.left > 1)
    <3> DEFINE runs == device.running /\ device.owner = None
    <3>1. device' = [device EXCEPT !.left = 0, !.owner = None, !.running = runs]
      BY <1>1, <2>2 DEF Aged
    <3>2. 0 \in 0..LeaseTime /\ runs \in BOOLEAN
      BY <1>1, SessionAssumption DEF Devices
    <3> HIDE DEF runs
    <3>3. QED
      BY <1>1, <3>1, <3>2 DEF Devices
  <2>3. QED
    BY <2>1, <2>2
<1>3. waited' \in 0..Timeout
  <2>1. waited \in 0..Timeout /\ at \in Exchanges \cup {"select", "ended"}
    BY DEF SessionInv, TypeOK
  <2>2. QED
    BY <2>1, SessionAssumption DEF Pass
<1>4. beat' \in 0..Heartbeat /\ touched' \in 0..DeadTime
  <2>1. beat \in 0..Heartbeat /\ touched \in 0..DeadTime /\ Heartbeat \in Nat /\ DeadTime \in Nat
    BY TimesType DEF SessionInv, TypeOK
  <2>2. beat' = Older(beat, Heartbeat) /\ touched' = Older(touched, DeadTime)
    BY DEF Pass
  <2> HIDE DEF DeadTime
  <2>3. QED
    BY <2>1, <2>2 DEF Older
<1>5. sent' \subseteq Requests
  <2>1. SUFFICES ASSUME NEW r \in sent PROVE [r EXCEPT !.age = r.age + 1] \in Requests
    BY DEF Pass
  <2>2. r \in Requests /\ r.age < RequestDelay
    BY DEF SessionInv, TypeOK, Pass
  <2>3. r.age + 1 \in 0..RequestDelay
    BY <2>2, SessionAssumption DEF Requests
  <2>4. QED
    BY <2>2, <2>3 DEF Requests
<1>6. answers' \subseteq Answers
  <2>1. SUFFICES ASSUME NEW a \in answers PROVE [a EXCEPT !.age = a.age + 1] \in Answers
    BY DEF Pass
  <2>2. a \in Answers /\ a.age < AnswerDelay
    BY DEF SessionInv, TypeOK, Pass
  <2>3. a.age + 1 \in 0..AnswerDelay
    BY <2>2, SessionAssumption DEF Answers
  <2>4. QED
    BY <2>2, <2>3 DEF Answers
<1>7. UNCHANGED <<at, controlled, session, id, call, calls, stops>>
  BY DEF Pass
<1>8. QED
  BY <1>2, <1>3, <1>4, <1>5, <1>6, <1>7 DEF SessionInv, TypeOK, Devices

LEMMA PassKeeps == SessionInv /\ Pass => SessionInv'
<1>1. SUFFICES ASSUME SessionInv, Pass PROVE SessionInv'
  OBVIOUS
<1>2. TypeOK' /\ device' \in Devices /\ device \in Devices
  BY <1>1, PassTypes DEF SessionInv, TypeOK, Devices
<1>3. UNCHANGED <<at, controlled, session, id, call, calls, stops>>
      /\ sent' = {[r EXCEPT !.age = r.age + 1] : r \in sent}
      /\ answers' = {[a EXCEPT !.age = a.age + 1] : a \in answers}
  BY <1>1 DEF Pass
<1>4. \A a \in answers' : \E b \in answers : a.id = b.id /\ a.good = b.good
  <2>1. SUFFICES ASSUME NEW b \in answers
                 PROVE  /\ [b EXCEPT !.age = b.age + 1].id = b.id
                        /\ [b EXCEPT !.age = b.age + 1].good = b.good
    BY <1>3
  <2>2. b \in Answers
    BY <1>1 DEF SessionInv, TypeOK
  <2>3. QED
    BY <2>2 DEF Answers
<1>5. /\ device'.done = device.done /\ (device'.running => device.running)
      /\ \/ device.left > 1 /\ device'.left = device.left - 1 /\ device'.owner = device.owner
         \/ ~device'.running /\ device'.owner = None
  <2>1. OwnedHasTime /\ device' = Aged
    BY <1>1 DEF SessionInv, Pass
  <2>2. CASE device.left > 1
    BY <1>2, <2>1, <2>2 DEF Aged, Devices
  <2>3. CASE ~(device.left > 1)
    <3>1. device' = [device EXCEPT !.left = 0, !.owner = None,
                                   !.running = device.running /\ device.owner = None]
      BY <2>1, <2>3 DEF Aged
    <3>2. QED
      BY <1>2, <2>1, <3>1 DEF OwnedHasTime, Devices
  <2>4. QED
    BY <2>2, <2>3
<1>6. OneRequest'
  <2>1. SUFFICES ASSUME NEW r \in sent
                 PROVE  /\ at \in Exchanges
                        /\ [r EXCEPT !.age = r.age + 1] =
                             [command |-> Asked, session |-> session, id |-> id, age |-> waited']
    BY <1>3 DEF OneRequest, Asked
  <2>2. at \in Exchanges /\ r = [command |-> Asked, session |-> session, id |-> id, age |-> waited]
    BY <1>1 DEF SessionInv, Messages, OneRequest
  <2>3. waited' = waited + 1
    BY <1>1, <2>2 DEF Pass, Exchanges
  <2>4. QED
    BY <2>2, <2>3
<1>7. AnswerComesAfter'
  BY <1>1, <1>3, <1>4 DEF SessionInv, Messages, AnswerComesAfter
<1>8. ConfirmedIsDone'
  BY <1>1, <1>3, <1>4, <1>5 DEF SessionInv, Messages, ConfirmedIsDone
<1>9. ExchangesAreJustified' /\ RunningIsControlled' /\ StoppedHaveStop'
  BY <1>1, <1>3, <1>5 DEF SessionInv, ExchangesAreJustified, RunningIsControlled, StoppedHaveStop
<1>10. OwnedHasTime'
  BY <1>1, <1>2, <1>5 DEF SessionInv, OwnedHasTime, Devices
<1>11. LeaseIsShort'
  <2>1. /\ LeaseIsShort /\ touched \in Nat /\ waited \in Nat /\ LeaseTime \in Nat
        /\ Silence \in Nat /\ Limit \in Nat /\ device.left \in Nat /\ session # None
        /\ DeadTime \in Nat
    <3>1. LeaseIsShort /\ touched \in 0..DeadTime /\ waited \in 0..Timeout /\ session # None
      BY <1>1, SessionAssumption DEF SessionInv, TypeOK
    <3>2. LeaseTime \in Nat /\ Silence \in Nat /\ Limit \in Nat /\ DeadTime \in Nat
          /\ Timeout \in Nat
      BY SessionAssumption DEF Limit, DeadTime
    <3>3. device.left \in 0..LeaseTime
      BY <1>2 DEF Devices
    <3> HIDE DEF DeadTime, Limit
    <3>4. QED
      BY <3>1, <3>2, <3>3
  <2>2. touched' \in Nat /\ touched' <= touched + 1
    <3> HIDE DEF DeadTime
    <3>1. touched' = Older(touched, DeadTime)
      BY <1>1 DEF Pass
    <3>2. QED
      BY <2>1, <3>1 DEF Older
  <2>3. Armed' => Armed /\ device.left > 1 /\ device'.left = device.left - 1
    BY <1>3, <1>5, <2>1 DEF Armed
  <2>4. at = "beat" => waited' = waited + 1
    BY <1>1 DEF Pass
  <2>5. sent' # {} => sent # {}
    BY <1>3
  <2>6. Armed' => touched' + device'.left <= touched + device.left
    BY <2>1, <2>2, <2>3
  <2>7. Armed' => touched' + device'.left <= Limit + LeaseTime
    BY <2>1, <2>2, <2>3 DEF LeaseIsShort
  <2>8. Armed' /\ at' \notin Leaving => touched' + device'.left <= Limit
    BY <1>3, <2>1, <2>2, <2>3 DEF LeaseIsShort
  <2>9. Armed' /\ at' = "last_beat" /\ sent' # {} => touched' + device'.left <= Limit
    BY <1>3, <2>1, <2>2, <2>3, <2>5 DEF LeaseIsShort
  <2>10. at' = "beat" => touched' <= Silence + waited'
    BY <1>3, <2>1, <2>2, <2>4 DEF LeaseIsShort
  <2>11. QED
    BY <2>7, <2>8, <2>9, <2>10 DEF LeaseIsShort
<1>12. QED
  BY <1>2, <1>6, <1>7, <1>8, <1>9, <1>10, <1>11 DEF SessionInv, Messages

-----------------------------------------------------------------------------
(* The theorems. *)

LEMMA StutterKeeps == SessionInv /\ UNCHANGED vars => SessionInv'
<1>1. SUFFICES ASSUME SessionInv,
                      UNCHANGED <<at, waited, controlled, session, id, beat, call, touched, calls,
                                  stops, sent, answers, device>>
               PROVE  SessionInv'
  BY DEF vars, host
<1>2. TypeOK' /\ ExchangesAreJustified' /\ RunningIsControlled' /\ OwnedHasTime'
      /\ StoppedHaveStop'
  BY <1>1 DEF SessionInv, TypeOK, ExchangesAreJustified, RunningIsControlled, OwnedHasTime,
              StoppedHaveStop
<1>3. OneRequest' /\ AnswerComesAfter' /\ ConfirmedIsDone'
  BY <1>1 DEF SessionInv, Messages, OneRequest, AnswerComesAfter, ConfirmedIsDone, Asked
<1>4. LeaseIsShort'
  BY <1>1 DEF SessionInv, LeaseIsShort, Armed
<1>5. QED
  BY <1>2, <1>3, <1>4 DEF SessionInv, Messages

\* The inductive invariant: the session of session.rs, its messages and the
\* device's lease stay related as SessionInv says, whatever is lost or late.
THEOREM SessionInductive == Spec => []SessionInv
<1>1. SessionInv /\ [Next]_vars => SessionInv'
  BY TouchKeeps, CommandKeeps, TakeStopKeeps, TakeCallKeeps, TickKeeps, ReceiveKeeps, GiveUpKeeps,
     DeliverKeeps, LoseRequestKeeps, LoseAnswerKeeps, RestartKeeps, PassKeeps, StutterKeeps
     DEF Next
<1>2. QED
  BY <1>1, SessionInitInv, PTL DEF Spec

\* Every variable of the session, the link and the device keeps its type.
THEOREM TypeCorrect == Spec => []TypeOK
<1>1. SessionInv => TypeOK
  BY DEF SessionInv
<1>2. QED
  BY <1>1, SessionInductive, PTL

\* A motor runs only under a session that counts itself in control, for every
\* timing of the link: it follows from what a confirmation says of the device.
THEOREM RunningIsControlledHolds == Spec => []RunningIsControlled
<1>1. SessionInv => RunningIsControlled
  BY DEF SessionInv
<1>2. QED
  BY <1>1, SessionInductive, PTL

\* The dead man's switch stops the motor before DeadTime, for every value of the
\* periods, the timeout and the delays of the link.
THEOREM SilenceStopsTheMotorHolds == Spec => []SilenceStopsTheMotor
<1>1. ASSUME SessionInv, device.running PROVE touched < DeadTime
  <2>1. touched + device.left <= Limit + LeaseTime /\ device.left > 0
    BY <1>1 DEF SessionInv, LeaseIsShort, Armed, OwnedHasTime
  <2>2. touched \in 0..DeadTime /\ device.left \in 0..LeaseTime
    BY <1>1 DEF SessionInv, TypeOK
  <2>3. Limit + LeaseTime = DeadTime /\ DeadTime \in Nat /\ LeaseTime \in Nat /\ Limit \in Nat
    BY SessionAssumption DEF Limit, DeadTime
  <2> HIDE DEF Limit, DeadTime
  <2>4. QED
    BY <2>1, <2>2, <2>3
<1>2. SessionInv => SilenceStopsTheMotor
  BY <1>1 DEF SilenceStopsTheMotor
<1>3. QED
  BY <1>2, SessionInductive, PTL

\* A call that waits when a stop is made is not carried out: it is marked only
\* while the stop waits too, and taking the stop drops it.
THEOREM StopsCancelCallsHolds == Spec => StopsCancelCalls
<1> DEFINE Cancels == calls # <<>> /\ at = "select" /\ at' = "call" /\ call' = Head(calls).command
                        /\ stops' = stops => ~Head(calls).stopped
<1>1. ASSUME SessionInv, [Next]_vars, calls # <<>>, at = "select", at' = "call", stops' = stops
      PROVE  ~Head(calls).stopped
  <2>1. at' # at
    BY <1>1
  <2>2. ~Touch /\ ~Command /\ ~Deliver /\ ~LoseRequest /\ ~LoseAnswer /\ ~Restart /\ ~Pass
        /\ ~UNCHANGED vars
    BY <2>1 DEF Touch, Command, Deliver, LoseRequest, LoseAnswer, Restart, Pass, vars, host
  <2>3. ~Receive /\ ~GiveUp
    BY <1>1 DEF Receive, GiveUp, Exchanges
  <2>4. ~TakeStop
    BY <1>1 DEF TakeStop
  <2>5. ~Tick
    BY <1>1 DEF Tick, Close, Start
  <2>6. TakeCall
    BY <1>1, <2>2, <2>3, <2>4, <2>5 DEF Next
  <2>7. stops = <<>> /\ calls \in Seq(Calls)
    BY <1>1, <2>6 DEF TakeCall, SessionInv, TypeOK
  <2>8. 1 \in DOMAIN calls /\ Head(calls) = calls[1]
    BY <1>1, <2>7
  <2>9. QED
    BY <1>1, <2>7, <2>8 DEF SessionInv, StoppedHaveStop
<1>2. SessionInv /\ [Next]_vars => [Cancels]_vars
  BY <1>1
<1>3. QED
  BY <1>2, SessionInductive, PTL DEF Spec, StopsCancelCalls

\* The answer that ends an exchange well is about the request of this exchange:
\* the device has done just this one last.
THEOREM ConfirmationsAreTrueHolds == Spec => ConfirmationsAreTrue
<1> DEFINE True == \A a \in answers \ answers' :
                     a.good /\ at \in Exchanges /\ at' # at => device.done = id
<1>1. ASSUME SessionInv, [Next]_vars, NEW a \in answers \ answers', a.good, at \in Exchanges,
             at' # at
      PROVE  device.done = id
  <2>1. ~Touch /\ ~Command /\ ~Deliver /\ ~LoseRequest /\ ~LoseAnswer /\ ~Restart /\ ~Pass
        /\ ~UNCHANGED vars
    BY <1>1 DEF Touch, Command, Deliver, LoseRequest, LoseAnswer, Restart, Pass, vars, host
  <2>2. ~TakeStop /\ ~TakeCall /\ ~Tick
    BY <1>1 DEF TakeStop, TakeCall, Tick, Exchanges
  <2>3. ~GiveUp
    BY <1>1 DEF GiveUp
  <2>4. Receive
    BY <1>1, <2>1, <2>2, <2>3 DEF Next
  <2>5. Matches(a)
    BY <1>1, <2>4 DEF Receive, host
  <2>6. QED
    BY <1>1, <2>5 DEF Matches, SessionInv, Messages, ConfirmedIsDone
<1>2. SessionInv /\ [Next]_vars => [True]_vars
  BY <1>1
<1>3. QED
  BY <1>2, SessionInductive, PTL DEF Spec, ConfirmationsAreTrue
=============================================================================
