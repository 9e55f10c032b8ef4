--------------------------- MODULE RemoteControl ---------------------------
(***************************************************************************)
(* Remote control of one motor: hosts that claim it and send commands, a   *)
(* link that delays, duplicates, reorders and loses their requests, and    *)
(* the device, which is the Endpoint of firmware/src/comm/wire.rs as the   *)
(* loop of motor_control_task (firmware/src/main.rs) drives it.            *)
(*                                                                         *)
(* A request stays in flight for ever: delivering it twice is duplication, *)
(* never delivering it is loss.                                            *)
(***************************************************************************)
EXTENDS Lease

CONSTANTS
  Commands,      \* the commands hosts send in this instance
  LocalCommands, \* the commands the local console sends, a stop apart
  FirstSequence, \* request number a session starts from
  MaxRequests,   \* bound: requests a session sends
  MaxClock,      \* bound: milliseconds that pass
  MaxBoots,      \* bound: restarts of the device
  SaveTimes      \* milliseconds a flash write may keep the loop busy

MotorStates == {"calibrating", "idle", "running", "tuning", "fault"}
AllCommands == {"claim", "heartbeat", "release", "disable", "status",
                "enable", "tune", "stop", "clear", "save"}
Mutations == {"enable", "tune", "stop", "clear", "save"}

ASSUME RemoteAssumption ==
  /\ Commands \subseteq AllCommands
  /\ LocalCommands \subseteq {"enable", "tune", "clear"}
  /\ FirstSequence \in 0..SequenceMod - 1
  /\ MaxRequests \in Nat /\ MaxClock \in Nat /\ MaxBoots \in Nat
  /\ SaveTimes \subseteq Nat /\ 0 \in SaveTimes

VARIABLES
  clock,    \* real time
  boot,     \* identity of the running boot
  booted,   \* real time of that boot; the uptime is clock - booted
  lease,    \* lease of the Endpoint
  cached,   \* the request the Endpoint remembers with its reply, or NoFrame
  motor,    \* the controller's state: calibrating, idle, running, tuning or fault
  host,     \* per session: boot and permit of its last reply, requests sent
  net,      \* requests in flight
  executed, \* history: mutations the device carried out
  repeated, \* history: mutations it carried out more than once
  buffered  \* history: requests a session sent before its ownership ended

vars == <<clock, boot, booted, lease, cached, motor, host, net, executed, repeated, buffered>>
device == <<boot, booted, lease, cached, motor>>

\* issued is the real time at which the permit was issued.
Frames == [session : Sessions, request : Nat, sequence : 0..SequenceMod - 1,
           boot : 0..MaxBoots, permit : 0..PermitMod - 1, issued : Nat,
           command : Commands]
NoFrame == [command |-> "none"]

TypeOK ==
  /\ clock \in Nat /\ booted \in 0..clock
  /\ boot \in 0..MaxBoots
  /\ lease \in Leases
  /\ cached \in Frames \cup {NoFrame}
  /\ motor \in MotorStates
  /\ host \in [Sessions -> [boot : -1..MaxBoots, permit : 0..PermitMod - 1,
                            issued : Nat, sent : Nat]]
  /\ net \subseteq Frames
  /\ executed \subseteq net /\ repeated \subseteq executed /\ buffered \subseteq net

Now == clock - booted
Active == motor \in {"running", "tuning"}

Init ==
  /\ clock = 0 /\ boot = 0 /\ booted = 0
  /\ lease = NewLease
  /\ cached = NoFrame
  /\ motor = "calibrating"
  /\ host = [s \in Sessions |-> [boot |-> -1, permit |-> 0, issued |-> 0, sent |-> 0]]
  /\ net = {} /\ executed = {} /\ repeated = {} /\ buffered = {}

-----------------------------------------------------------------------------
(* Hosts. *)

\* exchange: the next request of a session, with the permit of its last reply.
\* A reply takes longer on the wire than the loop takes to come round, so a
\* lease that ran out during a flash write is dropped before a host reacts.
Send(s, command) ==
  /\ ~Expired(lease, Now)
  /\ host[s].boot >= 0
  /\ host[s].sent < MaxRequests
  /\ net' = net \cup {[session |-> s, request |-> host[s].sent,
                       sequence |-> (FirstSequence + host[s].sent) % SequenceMod,
                       boot |-> host[s].boot, permit |-> host[s].permit,
                       issued |-> host[s].issued, command |-> command]}
  /\ host' = [host EXCEPT ![s].sent = @ + 1]
  /\ UNCHANGED <<clock, device, executed, repeated, buffered>>

\* A reply to session s carries the identity of the boot and a permit of the
\* time it is written; it arrives, or it is lost.
ReplyAt(s, time) ==
  host' \in {host, [host EXCEPT ![s].boot = boot, ![s].permit = (time - booted) % PermitMod,
                                ![s].issued = time]}
Reply(s) == ReplyAt(s, clock)

-----------------------------------------------------------------------------
(* The device.  The loop runs many times per millisecond, so at most one    *)
(* tick passes between the expiry check at its head and a request.          *)

HeadPassed == lease.owner = None \/ Now <= lease.expires

\* Mutant of Abort: the tune goes on.
AbortRunning == motor' = IF motor = "running" THEN "idle" ELSE motor

\* abort_tuning: drop the tune, disable the controller and the bridge.
Abort == motor' = IF Active THEN "idle" ELSE motor

\* Everything a session sent until now becomes history when it loses the motor.
Retire(s) == buffered' = buffered \cup {f \in net : f.session = s}

Expire ==
  /\ Expired(lease, Now)
  /\ lease' = Release(lease)
  /\ cached' = NoFrame
  /\ Abort
  /\ Retire(lease.owner)
  /\ UNCHANGED <<clock, boot, booted, host, net, executed, repeated>>

\* A HELLO is answered with the identity of the device.
Hello(s) ==
  /\ HeadPassed
  /\ Reply(s) /\ host' # host
  /\ UNCHANGED <<clock, device, net, executed, repeated, buffered>>

\* replay: the remembered request again, or another with its number, is
\* answered without being carried out.
Remembered(f) == cached # NoFrame /\ cached.session = f.session /\ cached.request = f.request

CanClaim == motor = "idle"

\* Endpoint::authorize.
EndpointFresh(f) == f.boot = boot /\ FreshPermit(f, Now)
Accepts(f) ==
  CASE f.command \in {"status", "disable"} -> EndpointFresh(f)
    [] f.command = "claim" -> EndpointFresh(f) /\ CanClaim /\ MayClaim(lease, f, boot, Now)
    [] OTHER -> EndpointFresh(f) /\ MayAct(lease, f, boot, Now)

\* An accepted mutation while tuning is refused as autotune-busy; only the
\* stop gets through.
Busy(f) == motor = "tuning" /\ f.command \in Mutations \ {"stop"}

Delivered(f) == f \in net /\ HeadPassed /\ ~Remembered(f)
Remember(f) == cached' = f /\ Reply(f.session)
KeepHistory == UNCHANGED <<executed, repeated, buffered>>
KeepTime == UNCHANGED <<clock, boot, booted, net>>

Reject(f) ==
  /\ Delivered(f)
  /\ ~Accepts(f)
  /\ lease' = IF f.command = "claim" /\ CanClaim THEN Refuse(lease, f, boot, Now) ELSE lease
  /\ Remember(f)
  /\ UNCHANGED motor /\ KeepHistory /\ KeepTime

ServeClaim(f) ==
  /\ f.command = "claim" /\ Delivered(f) /\ Accepts(f)
  /\ lease' = Claim(lease, f, Now)
  /\ Remember(f)
  /\ UNCHANGED motor /\ KeepHistory /\ KeepTime

ServeHeartbeat(f) ==
  /\ f.command = "heartbeat" /\ Delivered(f) /\ Accepts(f)
  /\ lease' = Heartbeat(lease, f, Now)
  /\ Remember(f)
  /\ UNCHANGED motor /\ KeepHistory /\ KeepTime

\* The release is authorised, the motor stops, the owner is retired and the
\* reply is not remembered.
ServeRelease(f) ==
  /\ f.command = "release" /\ Delivered(f) /\ Accepts(f)
  /\ Abort
  /\ lease' = Release(Authorize(lease, f))
  /\ cached' = NoFrame
  /\ Reply(f.session)
  /\ Retire(f.session)
  /\ UNCHANGED <<executed, repeated>> /\ KeepTime

\* Any session that holds a fresh permit may disable the motor.
ServeDisable(f) ==
  /\ f.command = "disable" /\ Delivered(f) /\ Accepts(f)
  /\ Abort
  /\ Remember(f)
  /\ UNCHANGED lease /\ KeepHistory /\ KeepTime

ServeStatus(f) ==
  /\ f.command = "status" /\ Delivered(f) /\ Accepts(f)
  /\ Remember(f)
  /\ UNCHANGED <<lease, motor>> /\ KeepHistory /\ KeepTime

\* The lease has counted the mutation, the tune has not let it through.
RefuseBusy(f) ==
  /\ f.command \in Mutations /\ Delivered(f) /\ Accepts(f) /\ Busy(f)
  /\ lease' = Authorize(lease, f)
  /\ Remember(f)
  /\ UNCHANGED motor /\ KeepHistory /\ KeepTime

\* What a mutation may do to the motor; the controller may refuse any of them.
Effect(command) ==
  CASE command = "enable" -> IF motor = "idle" THEN {"idle", "running"} ELSE {motor}
    [] command = "tune" -> IF motor = "idle" THEN {"idle", "tuning"} ELSE {motor}
    [] command = "stop" -> IF Active THEN {"idle"} ELSE {motor}
    [] command = "clear" -> IF motor = "fault" THEN {"calibrating", "idle", "fault"} ELSE {motor}
    [] OTHER -> {motor}

\* A mutation: the clock moves on while the flash is being written.
Execute(f) ==
  /\ f.command \in Mutations /\ Delivered(f) /\ Accepts(f) /\ ~Busy(f)
  /\ lease' = Authorize(lease, f)
  /\ motor' \in Effect(f.command)
  /\ \E t \in IF f.command = "save" THEN SaveTimes ELSE {0} :
        /\ clock + t <= MaxClock
        /\ clock' = clock + t
        /\ ReplyAt(f.session, clock + t)
  /\ cached' = f
  /\ executed' = executed \cup {f}
  /\ repeated' = repeated \cup ({f} \cap executed)
  /\ UNCHANGED <<boot, booted, net, buffered>>

\* Commands of the local console: dropped once a session has claimed the
\* motor, except those that stop it.
LocalOperate ==
  /\ HeadPassed
  /\ ~lease.remote
  /\ \E c \in LocalCommands : motor' \in Effect(c)
  /\ UNCHANGED <<clock, boot, booted, lease, cached, host, net>> /\ KeepHistory

LocalStop ==
  /\ HeadPassed
  /\ Abort
  /\ UNCHANGED <<clock, boot, booted, lease, cached, host, net>> /\ KeepHistory

\* A protection trips, the offsets are known, or a tune ends by itself.
Trip ==
  /\ motor' = "fault"
  /\ UNCHANGED <<clock, boot, booted, lease, cached, host, net>> /\ KeepHistory
Calibrated ==
  /\ motor = "calibrating" /\ motor' = "idle"
  /\ UNCHANGED <<clock, boot, booted, lease, cached, host, net>> /\ KeepHistory
TuneEnds ==
  /\ motor = "tuning" /\ motor' = "idle"
  /\ UNCHANGED <<clock, boot, booted, lease, cached, host, net>> /\ KeepHistory

\* Power is lost: a new boot identity, and the uptime starts over.
Reboot ==
  /\ boot < MaxBoots
  /\ boot' = boot + 1 /\ booted' = clock
  /\ lease' = NewLease /\ cached' = NoFrame
  /\ motor' = "calibrating"
  /\ buffered' = buffered \cup {f \in net : f.session = lease.owner}
  /\ UNCHANGED <<clock, host, net, executed, repeated>>

\* A millisecond passes, and the head of the loop has run in it.
Tick ==
  /\ clock < MaxClock
  /\ ~Expired(lease, Now)
  /\ clock' = clock + 1
  /\ UNCHANGED <<device, host, net>> /\ KeepHistory

-----------------------------------------------------------------------------
Handle(f) ==
  \/ Reject(f) \/ ServeClaim(f) \/ ServeHeartbeat(f) \/ ServeRelease(f)
  \/ ServeDisable(f) \/ ServeStatus(f) \/ RefuseBusy(f) \/ Execute(f)

Next ==
  \/ \E s \in Sessions : Hello(s) \/ \E c \in Commands : Send(s, c)
  \/ \E f \in net : Handle(f)
  \/ Expire \/ LocalOperate \/ LocalStop \/ Trip \/ Calibrated \/ TuneEnds \/ Reboot \/ Tick

Spec == Init /\ [][Next]_vars

-----------------------------------------------------------------------------
(* Properties. *)

\* A mutation is carried out at most once, however often the link repeats it
\* and although the Endpoint remembers only its latest request.
AtMostOnce == repeated = {}

\* A session that gave the motor up, or lost it, does not get it back through
\* a claim that was already under way (retired entries of the lease).
NoBufferedReclaim ==
  [][\A f \in net : lease'.owner = f.session /\ lease.owner = None
                      /\ cached' = f => f \notin buffered]_vars

\* No mutation acts on a permit older than its lifetime in real time, even
\* across a restart that set the uptime back.
FreshExecution ==
  [][\A f \in executed' \ executed : clock - f.issued < PermitMs]_vars

\* The session that loses the motor always finds a slot to be retired in, and
\* the list never holds more sessions than the device has slots.
RetirementHasRoom ==
  /\ Cardinality(lease.retired) <= RetiredSlots
  /\ lease.owner # None => Cardinality(lease.retired) < RetiredSlots

\* A silent owner is gone, with the motor at rest, within LeaseMs of its last
\* claim or heartbeat, save for a flash write begun while the lease was alive.
SilentOwnerIsDropped ==
  lease.owner # None =>
    /\ lease.expires <= Now + LeaseMs
    /\ Now <= lease.expires \/ \E t \in SaveTimes : Now < lease.expires + t

\* The lease keeps what MotorOwnership promises.
Ownership == INSTANCE MotorOwnership WITH owner <- lease.owner, on <- Active,
                                          local <- ~lease.remote
ImplementsOwnership == Ownership!Spec
=============================================================================
