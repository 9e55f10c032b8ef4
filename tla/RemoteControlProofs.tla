------------------------ MODULE RemoteControlProofs ------------------------
(***************************************************************************)
(* Theorems of RemoteControl, for every number of sessions, requests,      *)
(* restarts and retired slots: the type invariant, the room in the list of *)
(* retired sessions, the refinement of MotorOwnership, which carries the   *)
(* dead-man property over to the device, and what the permits, the retired *)
(* list and the request numbers promise together: only fresh requests act, *)
(* none acts twice, and none gets back a motor its session has lost.       *)
(***************************************************************************)
EXTENDS RemoteControl, FiniteSetTheorems, TLAPS

-----------------------------------------------------------------------------
(* The lease operations. *)

LEMMA ModuloRange ==
  ASSUME NEW a \in Int, NEW n \in Nat \ {0}
  PROVE  a % n \in 0..n - 1
OBVIOUS

\* Purge only forgets sessions, and a lease keeps its type.
LEMMA PurgeType ==
  ASSUME NEW l \in Leases, NEW now \in Nat
  PROVE  /\ Purge(l, now) \in Leases
         /\ Purge(l, now).owner = l.owner
         /\ Purge(l, now).remote = l.remote
         /\ Purge(l, now).expires = l.expires
         /\ Purge(l, now).retired \subseteq l.retired
BY DEF Purge, Leases

\* A release leaves nobody in charge and retires at most the owner.
LEMMA ReleaseType ==
  ASSUME NEW l \in Leases
  PROVE  /\ Release(l) \in Leases
         /\ Release(l).owner = None
         /\ Release(l).remote = l.remote
         /\ Release(l).retired = l.retired
              \/ (/\ l.owner # None /\ Cardinality(l.retired) < RetiredSlots
                  /\ Release(l).retired =
                       l.retired \cup {[session |-> l.owner, until |-> l.expires + PermitMs]})
<1>1. CASE l.owner = None
  BY <1>1 DEF Release, Leases
<1>2. CASE l.owner # None
  <2>1. l.owner \in Sessions /\ l.expires \in Nat /\ l.expires + PermitMs \in Nat
    BY <1>2, LeaseAssumption DEF Leases
  <2>2. [session |-> l.owner, until |-> l.expires + PermitMs] \in RetiredEntries
    BY <2>1 DEF RetiredEntries
  <2>3. QED
    BY <1>2, <2>1, <2>2, LeaseAssumption DEF Release, Leases
<1>3. QED
  BY <1>1, <1>2

LEMMA AuthorizeType ==
  ASSUME NEW l \in Leases, NEW f \in Frames
  PROVE  /\ Authorize(l, f) \in Leases
         /\ Authorize(l, f) = [l EXCEPT !.sequence = f.sequence]
         /\ Authorize(l, f).owner = l.owner
         /\ Authorize(l, f).remote = l.remote
         /\ Authorize(l, f).retired = l.retired
BY DEF Authorize, Leases, Frames

LEMMA HeartbeatType ==
  ASSUME NEW l \in Leases, NEW f \in Frames, NEW now \in Nat
  PROVE  /\ Heartbeat(l, f, now) \in Leases
         /\ Heartbeat(l, f, now).owner = l.owner
         /\ Heartbeat(l, f, now).remote = l.remote
         /\ Heartbeat(l, f, now).retired = l.retired
<1>1. now + LeaseMs \in Nat
  BY LeaseAssumption
<1>2. QED
  BY <1>1, AuthorizeType DEF Heartbeat, Leases

LEMMA ClaimType ==
  ASSUME NEW l \in Leases, NEW f \in Frames, NEW now \in Nat
  PROVE  /\ Claim(l, f, now) \in Leases
         /\ Claim(l, f, now).owner = f.session
         /\ Claim(l, f, now).remote = TRUE
         /\ Claim(l, f, now).retired = Purge(l, now).retired
<1>1. now + LeaseMs \in Nat /\ f.session \in Sessions /\ f.sequence \in 0..SequenceMod - 1
  BY LeaseAssumption DEF Frames
<1>2. QED
  BY <1>1, PurgeType DEF Claim, Leases

LEMMA NewLeaseType == NewLease \in Leases
BY LeaseAssumption DEF NewLease, Leases

\* What the proofs need of a lease: its type, and room to retire its owner.
LeaseSound(l) ==
  /\ l \in Leases
  /\ IsFiniteSet(l.retired)
  /\ Cardinality(l.retired) <= RetiredSlots
  /\ l.owner # None => Cardinality(l.retired) < RetiredSlots

LEMMA PurgeSound ==
  ASSUME NEW l \in Leases, LeaseSound(l), NEW now \in Nat
  PROVE  LeaseSound(Purge(l, now))
<1> DEFINE p == Purge(l, now)
<1>1. p \in Leases /\ p.owner = l.owner /\ p.retired \subseteq l.retired
  BY PurgeType
<1>2. IsFiniteSet(l.retired) /\ Cardinality(l.retired) <= RetiredSlots
  BY DEF LeaseSound
<1>3. IsFiniteSet(p.retired) /\ Cardinality(p.retired) <= Cardinality(l.retired)
  BY <1>1, <1>2, FS_Subset
<1>4. Cardinality(p.retired) \in Nat /\ Cardinality(l.retired) \in Nat
  BY <1>2, <1>3, FS_CardinalityType
<1>5. l.owner # None => Cardinality(l.retired) < RetiredSlots
  BY DEF LeaseSound
<1> HIDE DEF p
<1>6. RetiredSlots \in Nat
  BY LeaseAssumption
<1>7. LeaseSound(p)
  BY <1>1, <1>2, <1>3, <1>4, <1>5, <1>6 DEF LeaseSound
<1>8. QED
  BY <1>7 DEF p

LEMMA ReleaseSound ==
  ASSUME NEW l \in Leases, LeaseSound(l)
  PROVE  LeaseSound(Release(l))
<1>1. CASE Release(l).retired = l.retired
  BY <1>1, ReleaseType DEF LeaseSound
<1>2. CASE /\ Cardinality(l.retired) < RetiredSlots
           /\ Release(l).retired =
                l.retired \cup {[session |-> l.owner, until |-> l.expires + PermitMs]}
  <2> DEFINE e == [session |-> l.owner, until |-> l.expires + PermitMs]
             old == l.retired
  <2>1. IsFiniteSet(old)
    BY DEF LeaseSound
  <2>2. Release(l).retired = old \cup {e}
    BY <1>2
  <2> HIDE DEF e, old
  <2>3. /\ IsFiniteSet(old \cup {e})
        /\ \/ Cardinality(old \cup {e}) = Cardinality(old)
           \/ Cardinality(old \cup {e}) = Cardinality(old) + 1
        /\ Cardinality(old) \in Nat
    BY <2>1, FS_AddElement, FS_CardinalityType, Zenon
  <2>4. /\ IsFiniteSet(Release(l).retired)
        /\ Cardinality(Release(l).retired) = Cardinality(l.retired)
             \/ Cardinality(Release(l).retired) = Cardinality(l.retired) + 1
        /\ Cardinality(l.retired) \in Nat
    BY <2>2, <2>3 DEF old
  <2>5. Cardinality(Release(l).retired) <= RetiredSlots
    BY <1>2, <2>4, LeaseAssumption
  <2>6. QED
    BY <2>4, <2>5, ReleaseType DEF LeaseSound
<1>3. QED
  BY <1>1, <1>2, ReleaseType

LEMMA AuthorizeSound ==
  ASSUME NEW l \in Leases, LeaseSound(l), NEW f \in Frames
  PROVE  LeaseSound(Authorize(l, f))
BY AuthorizeType DEF LeaseSound

LEMMA HeartbeatSound ==
  ASSUME NEW l \in Leases, LeaseSound(l), NEW f \in Frames, NEW now \in Nat
  PROVE  LeaseSound(Heartbeat(l, f, now))
BY HeartbeatType DEF LeaseSound

LEMMA ClaimSound ==
  ASSUME NEW l \in Leases, LeaseSound(l), NEW f \in Frames, NEW now \in Nat, NEW b,
         MayClaim(l, f, b, now)
  PROVE  LeaseSound(Claim(l, f, now))
<1>1. Cardinality(Purge(l, now).retired) < RetiredSlots
  BY DEF MayClaim
<1>2. LeaseSound(Purge(l, now))
  BY PurgeSound
<1>3. QED
  BY <1>1, <1>2, ClaimType DEF LeaseSound

LEMMA RefuseSound ==
  ASSUME NEW l \in Leases, LeaseSound(l), NEW f \in Frames, NEW now \in Nat, NEW b
  PROVE  /\ LeaseSound(Refuse(l, f, b, now))
         /\ Refuse(l, f, b, now).owner = l.owner
         /\ Refuse(l, f, b, now).remote = l.remote
BY PurgeSound, PurgeType DEF Refuse

LEMMA NewLeaseSound == LeaseSound(NewLease)
<1>1. IsFiniteSet(NewLease.retired) /\ Cardinality(NewLease.retired) = 0
  BY FS_EmptySet DEF NewLease
<1>2. QED
  BY <1>1, NewLeaseType, LeaseAssumption DEF LeaseSound, NewLease

-----------------------------------------------------------------------------
(* The inductive invariant. *)

IInv == TypeOK /\ LeaseSound(lease)

HostType == [Sessions -> [boot : -1..MaxBoots, permit : 0..PermitMod - 1,
                          issued : Nat, sent : Nat]]

LEMMA NowNat ==
  ASSUME TypeOK
  PROVE  Now \in Nat
BY DEF TypeOK, Now

LEMMA ReplyType ==
  ASSUME TypeOK, NEW s \in Sessions, NEW time \in Nat, ReplyAt(s, time)
  PROVE  host' \in HostType
<1>1. (time - booted) % PermitMod \in 0..PermitMod - 1
  BY ModuloRange, LeaseAssumption DEF TypeOK
<1>2. boot \in -1..MaxBoots
  BY RemoteAssumption DEF TypeOK
<1>3. QED
  BY <1>1, <1>2 DEF ReplyAt, TypeOK, HostType

LEMMA SessionOfFrame ==
  ASSUME TypeOK, NEW f \in net
  PROVE  f \in Frames /\ f.session \in Sessions
BY DEF TypeOK, Frames

LEMMA AbortType ==
  ASSUME TypeOK, Abort
  PROVE  motor' \in MotorStates /\ Active' = FALSE
BY DEF Abort, TypeOK, Active, MotorStates

LEMMA InitInv == Init => IInv
<1>1. SUFFICES ASSUME Init PROVE IInv
  OBVIOUS
<1>2. TypeOK
  BY <1>1, NewLeaseType, RemoteAssumption, LeaseAssumption DEF Init, TypeOK, MotorStates
<1>3. QED
  BY <1>1, <1>2, NewLeaseSound DEF IInv, Init

\* Requests are in the frames, and history stays inside the network.
HistoryType ==
  /\ net \subseteq Frames
  /\ executed \subseteq net /\ repeated \subseteq executed /\ buffered \subseteq net

LEMMA SendInv ==
  ASSUME IInv, NEW s \in Sessions, NEW c \in Commands, Send(s, c)
  PROVE  IInv'
<1> DEFINE f == [session |-> s, request |-> host[s].sent,
                 sequence |-> (FirstSequence + host[s].sent) % SequenceMod,
                 boot |-> host[s].boot, permit |-> host[s].permit,
                 issued |-> host[s].issued, command |-> c]
<1>1. TypeOK /\ LeaseSound(lease)
  BY DEF IInv
<1>2. /\ host[s].sent \in Nat /\ host[s].boot \in -1..MaxBoots /\ host[s].boot >= 0
      /\ host[s].permit \in 0..PermitMod - 1 /\ host[s].issued \in Nat
  BY <1>1 DEF TypeOK, Send
<1>3. (FirstSequence + host[s].sent) % SequenceMod \in 0..SequenceMod - 1
  <2>1. FirstSequence + host[s].sent \in Int /\ SequenceMod \in Nat \ {0}
    BY <1>2, RemoteAssumption, LeaseAssumption
  <2>2. QED
    BY <2>1, ModuloRange
<1>4. f \in Frames
  BY <1>2, <1>3, RemoteAssumption DEF Frames
<1>5. HistoryType'
  <2>1. net' = net \cup {f} /\ UNCHANGED <<executed, repeated, buffered>>
    BY DEF Send
  <2>2. QED
    BY <2>1, <1>4, <1>1 DEF HistoryType, TypeOK
<1>6. host' \in HostType
  BY <1>1, <1>2 DEF Send, HostType, TypeOK
<1>7. UNCHANGED <<clock, boot, booted, lease, cached, motor>>
  BY DEF Send, device
<1>8. QED
  BY <1>1, <1>5, <1>6, <1>7 DEF IInv, TypeOK, LeaseSound, HostType, HistoryType

\* A step that keeps the clock going forward and each part in its type keeps
\* the invariant.
LEMMA StepInv ==
  ASSUME IInv, LeaseSound(lease'), motor' \in MotorStates,
         host' \in HostType, cached' \in Frames \cup {NoFrame},
         UNCHANGED <<clock, boot, booted, net>>, HistoryType'
  PROVE  IInv'
BY DEF IInv, TypeOK, LeaseSound, HostType, HistoryType

LEMMA RejectInv ==
  ASSUME IInv, NEW f \in net, Reject(f)
  PROVE  IInv'
<1>1. TypeOK /\ LeaseSound(lease) /\ lease \in Leases /\ Now \in Nat /\ clock \in Nat
  BY NowNat DEF IInv, TypeOK
<1>2. f \in Frames /\ f.session \in Sessions
  BY <1>1, SessionOfFrame
<1>3. LeaseSound(lease')
  BY <1>1, <1>2, RefuseSound DEF Reject
<1>4. motor' \in MotorStates
  BY <1>1 DEF Reject, TypeOK
<1>5. host' \in HostType
  BY <1>1, <1>2, ReplyType DEF Reject, Remember, Reply
<1>6. cached' \in Frames \cup {NoFrame}
  BY <1>2 DEF Reject, Remember
<1>7. UNCHANGED <<clock, boot, booted, net>>
  BY DEF Reject, KeepTime
<1>8. HistoryType'
  BY <1>1, <1>7 DEF Reject, KeepHistory, HistoryType, TypeOK
<1>9. QED
  BY <1>3, <1>4, <1>5, <1>6, <1>7, <1>8, StepInv

LEMMA ServeClaimInv ==
  ASSUME IInv, NEW f \in net, ServeClaim(f)
  PROVE  IInv'
<1>1. TypeOK /\ LeaseSound(lease) /\ lease \in Leases /\ Now \in Nat /\ clock \in Nat
  BY NowNat DEF IInv, TypeOK
<1>2. f \in Frames /\ f.session \in Sessions
  BY <1>1, SessionOfFrame
<1>3. LeaseSound(lease')
  BY <1>1, <1>2, ClaimSound DEF ServeClaim, Accepts
<1>4. motor' \in MotorStates
  BY <1>1 DEF ServeClaim, TypeOK
<1>5. host' \in HostType
  BY <1>1, <1>2, ReplyType DEF ServeClaim, Remember, Reply
<1>6. cached' \in Frames \cup {NoFrame}
  BY <1>2 DEF ServeClaim, Remember
<1>7. UNCHANGED <<clock, boot, booted, net>>
  BY DEF ServeClaim, KeepTime
<1>8. HistoryType'
  BY <1>1, <1>7 DEF ServeClaim, KeepHistory, HistoryType, TypeOK
<1>9. QED
  BY <1>3, <1>4, <1>5, <1>6, <1>7, <1>8, StepInv

LEMMA ServeHeartbeatInv ==
  ASSUME IInv, NEW f \in net, ServeHeartbeat(f)
  PROVE  IInv'
<1>1. TypeOK /\ LeaseSound(lease) /\ lease \in Leases /\ Now \in Nat /\ clock \in Nat
  BY NowNat DEF IInv, TypeOK
<1>2. f \in Frames /\ f.session \in Sessions
  BY <1>1, SessionOfFrame
<1>3. LeaseSound(lease')
  BY <1>1, <1>2, HeartbeatSound DEF ServeHeartbeat
<1>4. motor' \in MotorStates
  BY <1>1 DEF ServeHeartbeat, TypeOK
<1>5. host' \in HostType
  BY <1>1, <1>2, ReplyType DEF ServeHeartbeat, Remember, Reply
<1>6. cached' \in Frames \cup {NoFrame}
  BY <1>2 DEF ServeHeartbeat, Remember
<1>7. UNCHANGED <<clock, boot, booted, net>>
  BY DEF ServeHeartbeat, KeepTime
<1>8. HistoryType'
  BY <1>1, <1>7 DEF ServeHeartbeat, KeepHistory, HistoryType, TypeOK
<1>9. QED
  BY <1>3, <1>4, <1>5, <1>6, <1>7, <1>8, StepInv

LEMMA ServeReleaseInv ==
  ASSUME IInv, NEW f \in net, ServeRelease(f)
  PROVE  IInv'
<1>1. TypeOK /\ LeaseSound(lease) /\ lease \in Leases /\ Now \in Nat /\ clock \in Nat
  BY NowNat DEF IInv, TypeOK
<1>2. f \in Frames /\ f.session \in Sessions
  BY <1>1, SessionOfFrame
<1>3. LeaseSound(lease')
  BY <1>1, <1>2, AuthorizeSound, AuthorizeType, ReleaseSound DEF ServeRelease
<1>4. motor' \in MotorStates
  BY <1>1, AbortType DEF ServeRelease
<1>5. host' \in HostType
  BY <1>1, <1>2, ReplyType DEF ServeRelease, Reply
<1>6. cached' \in Frames \cup {NoFrame}
  BY <1>2 DEF ServeRelease, Remember
<1>7. UNCHANGED <<clock, boot, booted, net>>
  BY DEF ServeRelease, KeepTime
<1>8. HistoryType'
  BY <1>1, <1>7 DEF ServeRelease, KeepHistory, HistoryType, TypeOK, Retire
<1>9. QED
  BY <1>3, <1>4, <1>5, <1>6, <1>7, <1>8, StepInv

LEMMA ServeDisableInv ==
  ASSUME IInv, NEW f \in net, ServeDisable(f)
  PROVE  IInv'
<1>1. TypeOK /\ LeaseSound(lease) /\ lease \in Leases /\ Now \in Nat /\ clock \in Nat
  BY NowNat DEF IInv, TypeOK
<1>2. f \in Frames /\ f.session \in Sessions
  BY <1>1, SessionOfFrame
<1>3. LeaseSound(lease')
  BY <1>1, <1>2, ReleaseSound DEF ServeDisable
<1>4. motor' \in MotorStates
  BY <1>1, AbortType DEF ServeDisable
<1>5. host' \in HostType
  BY <1>1, <1>2, ReplyType DEF ServeDisable, Remember, Reply
<1>6. cached' \in Frames \cup {NoFrame}
  BY <1>2 DEF ServeDisable, Remember
<1>7. UNCHANGED <<clock, boot, booted, net>>
  BY DEF ServeDisable, KeepTime
<1>8. HistoryType'
  BY <1>1, <1>7 DEF ServeDisable, KeepHistory, HistoryType, TypeOK
<1>9. QED
  BY <1>3, <1>4, <1>5, <1>6, <1>7, <1>8, StepInv

LEMMA ServeStatusInv ==
  ASSUME IInv, NEW f \in net, ServeStatus(f)
  PROVE  IInv'
<1>1. TypeOK /\ LeaseSound(lease) /\ lease \in Leases /\ Now \in Nat /\ clock \in Nat
  BY NowNat DEF IInv, TypeOK
<1>2. f \in Frames /\ f.session \in Sessions
  BY <1>1, SessionOfFrame
<1>3. LeaseSound(lease')
  BY <1>1, <1>2, ReleaseSound DEF ServeStatus
<1>4. motor' \in MotorStates
  BY <1>1 DEF ServeStatus, TypeOK
<1>5. host' \in HostType
  BY <1>1, <1>2, ReplyType DEF ServeStatus, Remember, Reply
<1>6. cached' \in Frames \cup {NoFrame}
  BY <1>2 DEF ServeStatus, Remember
<1>7. UNCHANGED <<clock, boot, booted, net>>
  BY DEF ServeStatus, KeepTime
<1>8. HistoryType'
  BY <1>1, <1>7 DEF ServeStatus, KeepHistory, HistoryType, TypeOK
<1>9. QED
  BY <1>3, <1>4, <1>5, <1>6, <1>7, <1>8, StepInv

LEMMA RefuseBusyInv ==
  ASSUME IInv, NEW f \in net, RefuseBusy(f)
  PROVE  IInv'
<1>1. TypeOK /\ LeaseSound(lease) /\ lease \in Leases /\ Now \in Nat /\ clock \in Nat
  BY NowNat DEF IInv, TypeOK
<1>2. f \in Frames /\ f.session \in Sessions
  BY <1>1, SessionOfFrame
<1>3. LeaseSound(lease')
  BY <1>1, <1>2, AuthorizeSound DEF RefuseBusy
<1>4. motor' \in MotorStates
  BY <1>1 DEF RefuseBusy, TypeOK
<1>5. host' \in HostType
  BY <1>1, <1>2, ReplyType DEF RefuseBusy, Remember, Reply
<1>6. cached' \in Frames \cup {NoFrame}
  BY <1>2 DEF RefuseBusy, Remember
<1>7. UNCHANGED <<clock, boot, booted, net>>
  BY DEF RefuseBusy, KeepTime
<1>8. HistoryType'
  BY <1>1, <1>7 DEF RefuseBusy, KeepHistory, HistoryType, TypeOK
<1>9. QED
  BY <1>3, <1>4, <1>5, <1>6, <1>7, <1>8, StepInv

LEMMA ExecuteInv ==
  ASSUME IInv, NEW f \in net, Execute(f)
  PROVE  IInv'
<1>1. TypeOK /\ LeaseSound(lease) /\ lease \in Leases /\ clock \in Nat
  BY DEF IInv, TypeOK
<1>2. f \in Frames /\ f.session \in Sessions
  BY <1>1, SessionOfFrame
<1>3. LeaseSound(lease')
  BY <1>1, <1>2, AuthorizeSound DEF Execute
<1>4. motor' \in MotorStates
  BY <1>1 DEF Execute, Effect, TypeOK, MotorStates
<1>5. PICK t \in SaveTimes : clock' = clock + t /\ ReplyAt(f.session, clock + t)
  BY RemoteAssumption DEF Execute
<1>6. clock + t \in Nat /\ clock' \in Nat /\ clock <= clock'
  BY <1>1, <1>5, RemoteAssumption
<1>7. host' \in HostType
  BY <1>1, <1>2, <1>5, <1>6, ReplyType
<1>8. cached' \in Frames \cup {NoFrame} /\ UNCHANGED <<boot, booted, net>>
  BY <1>2 DEF Execute
<1>9. HistoryType'
  BY <1>1, <1>8 DEF Execute, HistoryType, TypeOK
<1>10. booted' \in 0..clock'
  BY <1>1, <1>6, <1>8 DEF TypeOK
<1>11. QED
  BY <1>1, <1>3, <1>4, <1>6, <1>7, <1>8, <1>9, <1>10
     DEF IInv, TypeOK, LeaseSound, HostType, HistoryType

LEMMA HandleInv ==
  ASSUME IInv, NEW f \in net, Handle(f)
  PROVE  IInv'
BY RejectInv, ServeClaimInv, ServeHeartbeatInv, ServeReleaseInv, ServeDisableInv,
   ServeStatusInv, RefuseBusyInv, ExecuteInv DEF Handle

LEMMA ExpireInv ==
  ASSUME IInv, Expire
  PROVE  IInv'
<1>1. TypeOK /\ LeaseSound(lease) /\ lease \in Leases
  BY DEF IInv, TypeOK
<1>2. LeaseSound(lease')
  BY <1>1, ReleaseSound DEF Expire
<1>3. motor' \in MotorStates
  BY <1>1, AbortType DEF Expire
<1>4. UNCHANGED <<clock, boot, booted, host, net>> /\ cached' \in Frames \cup {NoFrame}
  BY DEF Expire
<1>5. HistoryType'
  BY <1>1, <1>4 DEF Expire, Retire, HistoryType, TypeOK
<1>6. QED
  BY <1>1, <1>2, <1>3, <1>4, <1>5, StepInv DEF TypeOK, HostType

LEMMA HelloInv ==
  ASSUME IInv, NEW s \in Sessions, Hello(s)
  PROVE  IInv'
<1>1. TypeOK /\ LeaseSound(lease) /\ clock \in Nat
  BY DEF IInv, TypeOK
<1>2. host' \in HostType
  BY <1>1, ReplyType DEF Hello, Reply
<1>3. QED
  BY <1>1, <1>2 DEF Hello, device, IInv, TypeOK, LeaseSound, HostType

LEMMA LocalInv ==
  ASSUME IInv, LocalOperate \/ LocalStop \/ Trip \/ Calibrated \/ TuneEnds
  PROVE  IInv'
<1>1. TypeOK /\ LeaseSound(lease)
  BY DEF IInv
<1>2. motor' \in MotorStates
  <2>1. CASE LocalOperate
    BY <1>1, <2>1 DEF LocalOperate, Effect, MotorStates, TypeOK
  <2>2. CASE LocalStop \/ Trip \/ Calibrated \/ TuneEnds
    BY <1>1, <2>2, AbortType DEF LocalStop, Trip, Calibrated, TuneEnds, MotorStates
  <2>3. QED
    BY <2>1, <2>2
<1>3. UNCHANGED <<clock, boot, booted, lease, cached, host, net, executed, repeated, buffered>>
  BY DEF LocalOperate, LocalStop, Trip, Calibrated, TuneEnds, KeepHistory
<1>4. QED
  BY <1>1, <1>2, <1>3 DEF IInv, TypeOK, LeaseSound

LEMMA RebootInv ==
  ASSUME IInv, Reboot
  PROVE  IInv'
<1>1. TypeOK
  BY DEF IInv
<1>2. LeaseSound(lease')
  BY NewLeaseSound DEF Reboot
<1>3. boot' \in 0..MaxBoots /\ clock' = clock /\ booted' \in 0..clock'
  BY <1>1, RemoteAssumption DEF Reboot, TypeOK
<1>4. net' = net /\ buffered' \subseteq net' /\ UNCHANGED <<host, executed, repeated>>
  BY <1>1 DEF Reboot, TypeOK
<1>5. cached' = NoFrame /\ motor' = "calibrating"
  BY DEF Reboot
<1>6. QED
  BY <1>1, <1>2, <1>3, <1>4, <1>5 DEF IInv, TypeOK, LeaseSound, MotorStates

LEMMA TickInv ==
  ASSUME IInv, Tick
  PROVE  IInv'
<1>1. TypeOK /\ LeaseSound(lease)
  BY DEF IInv
<1>2. clock' \in Nat /\ booted' \in 0..clock'
  BY <1>1 DEF Tick, TypeOK, device
<1>3. UNCHANGED <<boot, lease, cached, motor, host, net, executed, repeated, buffered>>
  BY DEF Tick, device, KeepHistory
<1>4. QED
  BY <1>1, <1>2, <1>3 DEF IInv, TypeOK, LeaseSound

LEMMA NextInv == IInv /\ [Next]_vars => IInv'
<1>1. SUFFICES ASSUME IInv, [Next]_vars PROVE IInv'
  OBVIOUS
<1>2. CASE \E s \in Sessions : Hello(s) \/ \E c \in Commands : Send(s, c)
  BY <1>1, <1>2, HelloInv, SendInv
<1>3. CASE \E f \in net : Handle(f)
  BY <1>1, <1>3, HandleInv
<1>4. CASE Expire
  BY <1>1, <1>4, ExpireInv
<1>5. CASE LocalOperate \/ LocalStop \/ Trip \/ Calibrated \/ TuneEnds
  BY <1>1, <1>5, LocalInv
<1>6. CASE Reboot
  BY <1>1, <1>6, RebootInv
<1>7. CASE Tick
  BY <1>1, <1>7, TickInv
<1>8. CASE UNCHANGED vars
  BY <1>1, <1>8 DEF vars, device, IInv, TypeOK, LeaseSound
<1>9. QED
  BY <1>1, <1>2, <1>3, <1>4, <1>5, <1>6, <1>7, <1>8 DEF Next

THEOREM Inductive == Spec => []IInv
BY InitInv, NextInv, PTL DEF Spec

\* Every state of the device, of the hosts and of the link has its type.
THEOREM TypeCorrect == Spec => []TypeOK
<1>1. IInv => TypeOK
  BY DEF IInv
<1>2. QED
  BY <1>1, Inductive, PTL

\* Whatever the number of sessions and slots, the owner of the motor always
\* finds a slot to be retired in: nobody is forgotten by Lease::release.
THEOREM AlwaysRoom == Spec => []RetirementHasRoom
<1>1. IInv => RetirementHasRoom
  BY DEF IInv, LeaseSound, RetirementHasRoom
<1>2. QED
  BY <1>1, Inductive, PTL

-----------------------------------------------------------------------------
(* The device implements MotorOwnership. *)

LEMMA InitOwnership == Init => Ownership!Init
BY DEF Init, NewLease, Active, Ownership!Init

\* A step that leaves the owner alone and stops the motor, or leaves it alone.
LEMMA QuietStep ==
  ASSUME lease'.owner = lease.owner, lease'.remote = lease.remote,
         Active' = FALSE \/ Active' = Active
  PROVE  [Ownership!Next]_Ownership!vars
BY DEF Ownership!Next, Ownership!Stop, Ownership!vars

LEMMA DropStep ==
  ASSUME lease.owner # None, lease'.owner = None, lease'.remote = lease.remote,
         Active' = FALSE
  PROVE  Ownership!Next
BY DEF Ownership!Next, Ownership!Drop

LEMMA ClaimStep ==
  ASSUME IInv, NEW f \in net, ServeClaim(f)
  PROVE  Ownership!Next
<1>1. lease \in Leases /\ Now \in Nat /\ f \in Frames /\ f.session \in Sessions
  BY NowNat, SessionOfFrame DEF IInv, TypeOK
<1>2. lease'.owner = f.session /\ lease'.remote = TRUE
  BY <1>1, ClaimType DEF ServeClaim
<1>3. lease.owner = None /\ motor = "idle" /\ motor' = "idle"
  BY DEF ServeClaim, Accepts, CanClaim, MayClaim
<1>4. ~Active /\ Active' = Active
  BY <1>3 DEF Active
<1>5. Ownership!Claim(f.session)
  BY <1>2, <1>3, <1>4 DEF Ownership!Claim
<1>6. QED
  BY <1>1, <1>5 DEF Ownership!Next

LEMMA OperateStep ==
  ASSUME IInv, NEW f \in net, Execute(f)
  PROVE  Ownership!Next
<1>1. lease \in Leases /\ f \in Frames /\ f.session \in Sessions
  BY SessionOfFrame DEF IInv, TypeOK
<1>2. lease'.owner = lease.owner /\ lease'.remote = lease.remote
  BY <1>1, AuthorizeType DEF Execute
<1>3. lease.owner = f.session
  BY DEF Execute, Accepts, MayAct, Mutations
<1>4. lease.owner # None
  BY <1>1, <1>3, LeaseAssumption
<1>5. Active' \in BOOLEAN
  BY DEF Active
<1>6. Ownership!Operate
  BY <1>2, <1>4, <1>5 DEF Ownership!Operate
<1>7. QED
  BY <1>6 DEF Ownership!Next

LEMMA HandleStep ==
  ASSUME IInv, NEW f \in net, Handle(f)
  PROVE  [Ownership!Next]_Ownership!vars
<1>1. /\ TypeOK /\ LeaseSound(lease) /\ lease \in Leases
      /\ Now \in Nat /\ f \in Frames /\ f.session \in Sessions
  BY NowNat, SessionOfFrame DEF IInv, TypeOK
<1>2. CASE Reject(f)
  BY <1>1, <1>2, RefuseSound, QuietStep DEF Reject, Active
<1>3. CASE ServeClaim(f)
  BY <1>3, ClaimStep
<1>4. CASE ServeHeartbeat(f)
  BY <1>1, <1>4, HeartbeatType, QuietStep DEF ServeHeartbeat, Active
<1>5. CASE ServeRelease(f)
  <2>1. Authorize(lease, f) \in Leases /\ Authorize(lease, f).remote = lease.remote
    BY <1>1, AuthorizeType
  <2>2. lease'.owner = None /\ lease'.remote = lease.remote
    BY <1>5, <2>1, ReleaseType DEF ServeRelease
  <2>3. lease.owner = f.session
    BY <1>5 DEF ServeRelease, Accepts, MayAct
  <2>4. lease.owner # None
    BY <1>1, <2>3, LeaseAssumption
  <2>5. Active' = FALSE
    BY <1>1, <1>5, AbortType DEF ServeRelease
  <2>6. QED
    BY <2>2, <2>4, <2>5, DropStep
<1>6. CASE ServeDisable(f)
  BY <1>1, <1>6, AbortType, QuietStep DEF ServeDisable
<1>7. CASE ServeStatus(f)
  BY <1>7, QuietStep DEF ServeStatus, Active
<1>8. CASE RefuseBusy(f)
  BY <1>1, <1>8, AuthorizeType, QuietStep DEF RefuseBusy, Active
<1>9. CASE Execute(f)
  BY <1>9, OperateStep
<1>10. QED
  BY <1>2, <1>3, <1>4, <1>5, <1>6, <1>7, <1>8, <1>9 DEF Handle

LEMMA NextOwnership == IInv /\ [Next]_vars => [Ownership!Next]_Ownership!vars
<1>1. SUFFICES ASSUME IInv, [Next]_vars PROVE [Ownership!Next]_Ownership!vars
  OBVIOUS
<1>2. TypeOK /\ lease \in Leases
  BY <1>1 DEF IInv, TypeOK
<1>3. CASE \E s \in Sessions : Hello(s) \/ \E c \in Commands : Send(s, c)
  BY <1>3, QuietStep DEF Hello, Send, device, Active
<1>4. CASE \E f \in net : Handle(f)
  BY <1>1, <1>4, HandleStep
<1>5. CASE Expire
  <2>1. lease'.owner = None /\ lease'.remote = lease.remote
    BY <1>2, <1>5, ReleaseType DEF Expire
  <2>2. lease.owner # None
    BY <1>5 DEF Expire, Expired
  <2>3. Active' = FALSE
    BY <1>2, <1>5, AbortType DEF Expire
  <2>4. QED
    BY <2>1, <2>2, <2>3, DropStep
<1>6. CASE LocalOperate
  <2>1. lease' = lease /\ ~lease.remote /\ Active' \in BOOLEAN
    BY <1>6 DEF LocalOperate, Active
  <2>2. Ownership!Operate
    BY <2>1 DEF Ownership!Operate
  <2>3. QED
    BY <2>2 DEF Ownership!Next
<1>7. CASE LocalStop \/ Trip \/ Calibrated \/ TuneEnds
  <2>1. CASE LocalStop
    BY <1>2, <2>1, AbortType, QuietStep DEF LocalStop
  <2>2. CASE Trip \/ Calibrated \/ TuneEnds
    <3>1. lease' = lease /\ motor' \in {"fault", "idle"}
      BY <2>2 DEF Trip, Calibrated, TuneEnds
    <3>2. Active' = FALSE
      BY <3>1 DEF Active
    <3>3. QED
      BY <3>1, <3>2, QuietStep
  <2>3. QED
    BY <1>7, <2>1, <2>2
<1>8. CASE Reboot
  <2>1. lease'.owner = None /\ lease'.remote = FALSE /\ Active' = FALSE
    BY <1>8 DEF Reboot, NewLease, Active
  <2>2. Ownership!Restart
    BY <2>1 DEF Ownership!Restart
  <2>3. QED
    BY <2>2 DEF Ownership!Next
<1>9. CASE Tick
  BY <1>9, QuietStep DEF Tick, device, Active
<1>10. CASE UNCHANGED vars
  BY <1>10, QuietStep DEF vars, device, Active
<1>11. QED
  BY <1>1, <1>3, <1>4, <1>5, <1>6, <1>7, <1>8, <1>9, <1>10 DEF Next

\* Every behaviour of the device, its hosts and the link is one of
\* MotorOwnership: the motor changes hands only at rest, and stops with its owner.
THEOREM Implementation == Spec => ImplementsOwnership
<1>1. Spec => Ownership!Spec
  BY InitOwnership, NextOwnership, Inductive, PTL DEF Spec, Ownership!Spec
<1>2. QED
  BY <1>1 DEF ImplementsOwnership

-----------------------------------------------------------------------------
(* The dead man's switch of MotorOwnership, and so of the device. *)

LEMMA OwnershipDeadMan == Ownership!Spec => []Ownership!DeadMan
<1>1. Ownership!Init => Ownership!DeadMan
  BY DEF Ownership!Init, Ownership!DeadMan
<1>2. Ownership!DeadMan /\ [Ownership!Next]_Ownership!vars => Ownership!DeadMan'
  <2>1. SUFFICES ASSUME Ownership!DeadMan, [Ownership!Next]_Ownership!vars
                 PROVE  Ownership!DeadMan'
    OBVIOUS
  <2>2. CASE \E s \in Sessions : Ownership!Claim(s)
    BY <2>2, LeaseAssumption DEF Ownership!Claim, Ownership!DeadMan
  <2>3. CASE Ownership!Drop \/ Ownership!Stop \/ Ownership!Restart
    BY <2>3 DEF Ownership!Drop, Ownership!Stop, Ownership!Restart, Ownership!DeadMan
  <2>4. CASE Ownership!Operate
    BY <2>4 DEF Ownership!Operate, Ownership!DeadMan
  <2>5. CASE UNCHANGED Ownership!vars
    BY <2>1, <2>5 DEF Ownership!vars, Ownership!DeadMan
  <2>6. QED
    BY <2>1, <2>2, <2>3, <2>4, <2>5 DEF Ownership!Next
<1>3. QED
  BY <1>1, <1>2, PTL DEF Ownership!Spec

\* Once any session has claimed the motor, it never turns without an owner.
THEOREM DeadManHolds == Spec => []Ownership!DeadMan
BY Implementation, OwnershipDeadMan, PTL DEF ImplementsOwnership

-----------------------------------------------------------------------------
(* Remainders. *)

\* Remainders of numbers that are less than one modulus away.
LEMMA ModuloNear ==
  ASSUME NEW n \in Nat \ {0}, NEW a \in Int
  PROVE  /\ a \in 0..n - 1 => a % n = a
         /\ a \in n..2 * n - 1 => a % n = a - n
         /\ a \in -n..-1 => a % n = a + n
<1>1. a \in 0..n - 1 => a % n = a
  OBVIOUS
<1>2. a \in n..2 * n - 1 => a % n = a - n
  OBVIOUS
<1>3. a \in -n..-1 => a % n = a + n
  OBVIOUS
<1>4. QED
  BY <1>1, <1>2, <1>3

LEMMA ModuloSum ==
  ASSUME NEW n \in Nat \ {0}, NEW a \in 0..n - 1, NEW b \in 0..n - 1
  PROVE  /\ (a + b) % n \in 0..n - 1
         /\ (a + b) % n = a + b \/ (a + b) % n = a + b - n
         /\ (a - b) % n \in 0..n - 1
         /\ (a - b) % n = a - b \/ (a - b) % n = a - b + n
<1>1. a + b \in Int /\ (a + b \in 0..n - 1 \/ a + b \in n..2 * n - 1)
  OBVIOUS
<1>2. a - b \in Int /\ (a - b \in 0..n - 1 \/ a - b \in -n..-1)
  OBVIOUS
<1> DEFINE c == a + b
<1>3. c % n = a + b \/ c % n = a + b - n
  <2>1. c = a + b /\ c \in Int /\ (c \in 0..n - 1 \/ c \in n..2 * n - 1)
    BY <1>1
  <2> HIDE DEF c
  <2>2. c % n = c \/ c % n = c - n
    BY <2>1, ModuloNear
  <2>3. QED
    BY <2>1, <2>2
<1>4. (a - b) % n = a - b \/ (a - b) % n = a - b + n
  BY <1>2, ModuloNear
<1>5. (a + b) % n \in 0..n - 1 /\ (a - b) % n \in 0..n - 1
  BY <1>1, <1>2, ModuloRange
<1>6. QED
  BY <1>3, <1>4, <1>5

-----------------------------------------------------------------------------
(* What any step does to time, to the requests and to the lease. *)

LEMMA PurgeForgets ==
  ASSUME NEW l \in Leases, NEW now \in Nat, NEW e \in l.retired,
         e \notin Purge(l, now).retired
  PROVE  now >= e.until
<1>1. Purge(l, now).retired = {d \in l.retired : now < d.until}
  BY DEF Purge, Leases
<1>2. e.until \in Nat
  BY DEF Leases, RetiredEntries
<1>3. QED
  BY <1>1, <1>2

\* The lease keeps its owner and its time, and forgets only sessions whose
\* permits have all aged away.
LeaseKept ==
  /\ lease'.owner = lease.owner /\ lease'.expires = lease.expires
  /\ lease'.retired \subseteq lease.retired
  /\ \A e \in lease.retired \ lease'.retired : Now >= e.until

\* The owner is dropped and retired.
OwnerRetired ==
  /\ lease.owner # None /\ lease'.owner = None
  /\ lease'.retired =
       lease.retired \cup {[session |-> lease.owner, until |-> lease.expires + PermitMs]}
  /\ buffered' = buffered \cup {f \in net : f.session = lease.owner}

LEMMA ReleaseRetires ==
  ASSUME NEW l \in Leases, LeaseSound(l), l.owner # None
  PROVE  Release(l).retired = l.retired \cup {[session |-> l.owner, until |-> l.expires + PermitMs]}
BY DEF LeaseSound, Release, Leases

LEMMA HandleLease ==
  ASSUME IInv, NEW f \in net, Handle(f)
  PROVE  \/ LeaseKept /\ buffered' = buffered
         \/ OwnerRetired
         \/ ServeClaim(f)
         \/ ServeHeartbeat(f)
<1>1. lease \in Leases /\ LeaseSound(lease) /\ Now \in Nat /\ f \in Frames
  BY NowNat, SessionOfFrame DEF IInv, TypeOK
<1>2. CASE Reject(f)
  <2>1. lease' = lease \/ lease' = Purge(lease, Now)
    BY <1>2 DEF Reject, Refuse
  <2>2. QED
    BY <1>1, <1>2, <2>1, PurgeType, PurgeForgets DEF Reject, KeepHistory, LeaseKept
<1>3. CASE ServeRelease(f)
  <2>1. /\ Authorize(lease, f) \in Leases /\ LeaseSound(Authorize(lease, f))
        /\ Authorize(lease, f).owner = lease.owner
        /\ Authorize(lease, f).retired = lease.retired
        /\ Authorize(lease, f).expires = lease.expires
    BY <1>1, AuthorizeType, AuthorizeSound DEF Authorize, Leases
  <2>2. lease.owner = f.session /\ f.session \in Sessions /\ lease.owner # None
    BY <1>1, <1>3, LeaseAssumption DEF ServeRelease, Accepts, MayAct, Frames
  <2>3. lease' = Release(Authorize(lease, f))
    BY <1>3 DEF ServeRelease
  <2>4. lease'.owner = None
    BY <2>1, <2>3, ReleaseType
  <2>5. lease'.retired =
          lease.retired \cup {[session |-> lease.owner, until |-> lease.expires + PermitMs]}
    BY <2>1, <2>2, <2>3, ReleaseRetires
  <2>6. buffered' = buffered \cup {g \in net : g.session = lease.owner}
    BY <1>3, <2>2 DEF ServeRelease, Retire
  <2>7. QED
    BY <2>2, <2>4, <2>5, <2>6 DEF OwnerRetired
<1>4. CASE ServeDisable(f) \/ ServeStatus(f)
  BY <1>4 DEF ServeDisable, ServeStatus, KeepHistory, LeaseKept
<1>5. CASE RefuseBusy(f) \/ Execute(f)
  <2>1. lease' = Authorize(lease, f) /\ buffered' = buffered
    BY <1>5 DEF RefuseBusy, Execute, KeepHistory
  <2>2. lease'.expires = lease.expires
    BY <1>1, <2>1 DEF Authorize, Leases
  <2>3. QED
    BY <1>1, <2>1, <2>2, AuthorizeType DEF LeaseKept
<1>6. QED
  BY <1>2, <1>3, <1>4, <1>5 DEF Handle

\* A step of the system is a restart or keeps the boot.
LEMMA LeaseSteps ==
  ASSUME IInv, [Next]_vars
  PROVE  \/ Reboot
         \/ /\ UNCHANGED <<boot, booted>>
            /\ \/ LeaseKept /\ buffered' = buffered
               \/ OwnerRetired
               \/ \E f \in net : ServeClaim(f) \/ ServeHeartbeat(f)
<1>1. TypeOK /\ lease \in Leases /\ LeaseSound(lease)
  BY DEF IInv, TypeOK
<1>2. CASE \E s \in Sessions : Hello(s) \/ \E c \in Commands : Send(s, c)
  BY <1>2 DEF Hello, Send, device, LeaseKept
<1>3. CASE \E f \in net : Handle(f)
  <2>1. PICK f \in net : Handle(f)
    BY <1>3
  <2>2. UNCHANGED <<boot, booted>>
    BY <2>1 DEF Handle, Reject, ServeClaim, ServeHeartbeat, ServeRelease, ServeDisable,
                ServeStatus, RefuseBusy, Execute, KeepTime
  <2>3. QED
    BY <2>1, <2>2, HandleLease
<1>4. CASE Expire
  <2>1. lease.owner # None
    BY <1>4 DEF Expire, Expired
  <2>2. lease'.owner = None
    BY <1>1, <1>4, ReleaseType DEF Expire
  <2>3. QED
    BY <1>1, <1>4, <2>1, <2>2, ReleaseRetires DEF Expire, OwnerRetired, Retire
<1>5. CASE LocalOperate \/ LocalStop \/ Trip \/ Calibrated \/ TuneEnds
  BY <1>5 DEF LocalOperate, LocalStop, Trip, Calibrated, TuneEnds, KeepHistory, LeaseKept
<1>6. CASE Tick
  BY <1>6 DEF Tick, device, KeepHistory, LeaseKept
<1>7. CASE UNCHANGED vars
  BY <1>7 DEF vars, LeaseKept
<1>8. QED
  BY <1>2, <1>3, <1>4, <1>5, <1>6, <1>7 DEF Next

\* The clock never goes back.
LEMMA ClockSteps ==
  ASSUME IInv, [Next]_vars
  PROVE  clock \in Nat /\ clock' \in Nat /\ clock <= clock'
<1>1. clock \in Nat /\ clock' \in Nat
  BY NextInv DEF IInv, TypeOK
<1>2. CASE \E f \in net : Execute(f)
  BY <1>1, <1>2, RemoteAssumption DEF Execute
<1>3. CASE Tick
  BY <1>1, <1>3 DEF Tick
<1>4. CASE ~Tick /\ ~\E f \in net : Execute(f)
  <2>1. clock' = clock
    BY <1>4 DEF Next, vars, device, KeepTime, Hello, Send, Handle, Reject, ServeClaim,
                ServeHeartbeat, ServeRelease, ServeDisable, ServeStatus, RefuseBusy, Expire,
                LocalOperate, LocalStop, Trip, Calibrated, TuneEnds, Reboot
  <2>2. QED
    BY <1>1, <2>1
<1>5. QED
  BY <1>2, <1>3, <1>4

\* Requests are only sent; a host learns of the device only from a reply.
LEMMA MessageSteps ==
  ASSUME IInv, [Next]_vars
  PROVE  \/ UNCHANGED <<net, host>>
         \/ /\ UNCHANGED <<boot, booted, net>>
            /\ \E s \in Sessions : ReplyAt(s, clock')
         \/ \E s \in Sessions, c \in Commands : Send(s, c)
<1>1. TypeOK
  BY DEF IInv
<1>2. CASE \E f \in net : Handle(f)
  <2>1. PICK f \in net : Handle(f)
    BY <1>2
  <2>2. f.session \in Sessions
    BY <1>1, SessionOfFrame
  <2>3. UNCHANGED <<boot, booted, net>> /\ ReplyAt(f.session, clock')
    BY <2>1 DEF Handle, Reject, ServeClaim, ServeHeartbeat, ServeRelease, ServeDisable,
                ServeStatus, RefuseBusy, Execute, KeepTime, Remember, Reply
  <2>4. QED
    BY <2>2, <2>3
<1>3. CASE \E s \in Sessions : Hello(s)
  BY <1>3 DEF Hello, Reply, device
<1>4. CASE Expire \/ LocalOperate \/ LocalStop \/ Trip \/ Calibrated \/ TuneEnds \/ Reboot \/ Tick
           \/ UNCHANGED vars
  BY <1>4 DEF Expire, LocalOperate, LocalStop, Trip, Calibrated, TuneEnds, Reboot, Tick, vars
<1>5. QED
  BY <1>2, <1>3, <1>4 DEF Next

-----------------------------------------------------------------------------
(* Requests against time and boots. *)

\* A reply, and every request that carries its permit, has the number of a boot
\* that was, and if that is the present one, a permit of the time it was issued.
Issued(r) ==
  /\ r.boot <= boot
  /\ r.boot = boot => /\ r.issued \in booted..clock
                      /\ r.permit = (r.issued - booted) % PermitMod

PermitsAreTrue == (\A f \in net : Issued(f)) /\ (\A s \in Sessions : Issued(host[s]))

\* While somebody owns the motor no permit was issued past the end of the lease.
PermitsPrecedeExpiry ==
  lease.owner # None => \A f \in net : f.boot = boot => f.issued - booted <= lease.expires

OwnerIsNotRetired == \A e \in lease.retired : e.session # lease.owner

\* A request that may never act again: it is of an earlier boot, its permit has
\* aged away, or its session is retired for at least as long.
Stale(f) == clock - f.issued >= PermitMs
Barred(f) ==
  \/ f.boot # boot
  \/ Stale(f)
  \/ \E e \in lease.retired : e.session = f.session /\ f.issued - booted + PermitMs <= e.until

BufferedAreBarred == \A f \in buffered : Barred(f)

TimeInv ==
  /\ IInv
  /\ PermitsAreTrue /\ PermitsPrecedeExpiry /\ OwnerIsNotRetired
  /\ BufferedAreBarred
  /\ SilentOwnerIsDropped

LEMMA TimeInitInv == Init => TimeInv
<1>1. SUFFICES ASSUME Init PROVE TimeInv
  OBVIOUS
<1>2. IInv
  BY <1>1, InitInv
<1>3. \A s \in Sessions : Issued(host[s])
  BY <1>1 DEF Init, Issued
<1>4. QED
  BY <1>1, <1>2, <1>3
     DEF Init, NewLease, TimeInv, PermitsAreTrue, PermitsPrecedeExpiry, OwnerIsNotRetired,
         BufferedAreBarred, SilentOwnerIsDropped

LEMMA RequestTypes ==
  ASSUME IInv
  PROVE  /\ clock \in Nat /\ booted \in Nat /\ booted <= clock /\ boot \in Nat
         /\ Now \in Nat /\ lease \in Leases
         /\ \A f \in net : /\ f \in Frames /\ f.session \in Sessions /\ f.boot \in Nat
                           /\ f.issued \in Nat /\ f.permit \in Nat
         /\ \A s \in Sessions : /\ host[s].boot \in Int /\ host[s].issued \in Nat
                                /\ host[s].permit \in Nat /\ host[s].sent \in Nat
         /\ buffered \subseteq net /\ executed \subseteq net
<1>1. TypeOK /\ MaxBoots \in Nat /\ PermitMod \in Nat
  BY RemoteAssumption, LeaseAssumption DEF IInv
<1>2. clock \in Nat /\ booted \in Nat /\ booted <= clock /\ boot \in Nat /\ Now \in Nat
  BY <1>1, NowNat DEF TypeOK
<1>3. \A f \in net : /\ f \in Frames /\ f.session \in Sessions /\ f.boot \in Nat
                     /\ f.issued \in Nat /\ f.permit \in Nat
  BY <1>1 DEF TypeOK, Frames
<1>4. \A s \in Sessions : /\ host[s].boot \in Int /\ host[s].issued \in Nat
                          /\ host[s].permit \in Nat /\ host[s].sent \in Nat
  BY <1>1 DEF TypeOK
<1>5. QED
  BY <1>1, <1>2, <1>3, <1>4 DEF TypeOK

\* What was issued once stays true.
LEMMA IssuedStays ==
  ASSUME IInv, [Next]_vars, NEW r, r.boot \in Int, r.issued \in Nat, Issued(r)
  PROVE  Issued(r)'
<1>1. /\ clock \in Nat /\ clock' \in Nat /\ clock <= clock' /\ boot \in Nat
      /\ booted \in Nat /\ booted <= clock
  BY ClockSteps, RequestTypes
<1>2. CASE Reboot
  BY <1>1, <1>2 DEF Reboot, Issued
<1>3. CASE UNCHANGED <<boot, booted>>
  BY <1>1, <1>3 DEF Issued
<1>4. QED
  BY <1>2, <1>3, LeaseSteps

LEMMA PermitsStep ==
  ASSUME TimeInv, [Next]_vars
  PROVE  PermitsAreTrue'
<1>1. IInv /\ PermitsAreTrue /\ IInv'
  BY NextInv DEF TimeInv
<1>2. \A f \in net : Issued(f)'
  BY <1>1, RequestTypes, IssuedStays DEF PermitsAreTrue
<1>3. \A s \in Sessions : host[s].boot \in Int /\ host[s].issued \in Nat /\ Issued(host[s])
  BY <1>1, RequestTypes DEF PermitsAreTrue
<1> DEFINE NowIssued(r) == /\ r.boot <= boot'
                           /\ r.boot = boot' => /\ r.issued \in booted'..clock'
                                                /\ r.permit = (r.issued - booted') % PermitMod
<1>4. \A s \in Sessions : NowIssued(host[s])
  <2>1. SUFFICES ASSUME NEW s \in Sessions PROVE NowIssued(host[s])
    OBVIOUS
  <2>2. /\ clock \in Nat /\ clock' \in Nat /\ clock <= clock' /\ boot \in Nat
        /\ booted \in Nat /\ booted <= clock
    BY <1>1, ClockSteps, RequestTypes
  <2>3. CASE Reboot
    BY <1>3, <2>2, <2>3 DEF Reboot, Issued
  <2>4. CASE UNCHANGED <<boot, booted>>
    BY <1>3, <2>2, <2>4 DEF Issued
  <2>5. QED
    BY <1>1, <2>3, <2>4, LeaseSteps
<1>5. CASE UNCHANGED <<net, host>>
  BY <1>2, <1>4, <1>5 DEF PermitsAreTrue, Issued
<1>6. CASE UNCHANGED <<boot, booted, net>> /\ \E s \in Sessions : ReplyAt(s, clock')
  <2>1. PICK s \in Sessions : ReplyAt(s, clock')
    BY <1>6
  <2>2. host \in HostType
    BY <1>1 DEF IInv, TypeOK, HostType
  <2>3. \A x \in Sessions : \/ host'[x] = host[x]
                            \/ /\ host'[x].boot = boot /\ host'[x].issued = clock'
                               /\ host'[x].permit = (clock' - booted) % PermitMod
    BY <2>1, <2>2 DEF ReplyAt, HostType
  <2>4. boot \in Nat /\ booted \in Nat /\ clock' \in Nat /\ booted <= clock'
    BY <1>1, ClockSteps, RequestTypes
  <2>5. \A x \in Sessions : NowIssued(host'[x])
    BY <1>4, <1>6, <2>3, <2>4
  <2>6. QED
    BY <1>2, <1>6, <2>5 DEF PermitsAreTrue, Issued
<1>7. CASE \E s \in Sessions, c \in Commands : Send(s, c)
  <2>1. PICK s \in Sessions, c \in Commands : Send(s, c)
    BY <1>7
  <2>2. host \in HostType
    BY <1>1 DEF IInv, TypeOK, HostType
  <2>3. \A x \in Sessions : /\ host'[x].boot = host[x].boot /\ host'[x].issued = host[x].issued
                            /\ host'[x].permit = host[x].permit
    BY <2>1, <2>2 DEF Send, HostType
  <2>4. \A f \in net' : f \in net \/ (/\ f.boot = host[s].boot /\ f.issued = host[s].issued
                                      /\ f.permit = host[s].permit)
    BY <2>1 DEF Send
  <2>5. \A f \in net' : f \in net \/ NowIssued(f)
    BY <1>4, <2>4
  <2>6. \A x \in Sessions : NowIssued(host'[x])
    BY <1>4, <2>3
  <2>7. QED
    BY <1>2, <2>5, <2>6 DEF PermitsAreTrue, Issued
<1>8. QED
  BY <1>1, <1>5, <1>6, <1>7, MessageSteps

\* A claim and a heartbeat let the lease run LeaseMs from now.
LEMMA LeaseRenewed ==
  ASSUME IInv, NEW f \in net, ServeClaim(f) \/ ServeHeartbeat(f)
  PROVE  lease'.expires = Now + LeaseMs
<1>1. lease \in Leases /\ Now \in Nat /\ f \in Frames
  BY RequestTypes
<1>2. CASE ServeClaim(f)
  <2>1. Purge(lease, Now) \in Leases
    BY <1>1, PurgeType
  <2>2. QED
    BY <1>2, <2>1 DEF ServeClaim, Claim, Leases
<1>3. CASE ServeHeartbeat(f)
  <2>1. Authorize(lease, f) \in Leases
    BY <1>1, AuthorizeType
  <2>2. QED
    BY <1>3, <2>1 DEF ServeHeartbeat, Heartbeat, Leases
<1>4. QED
  BY <1>2, <1>3

LEMMA ExpiryStep ==
  ASSUME TimeInv, [Next]_vars
  PROVE  PermitsPrecedeExpiry'
<1>1. IInv /\ PermitsAreTrue /\ PermitsPrecedeExpiry
  BY DEF TimeInv
<1>2. /\ clock \in Nat /\ booted \in Nat /\ booted <= clock /\ Now = clock - booted
      /\ lease \in Leases /\ LeaseMs \in Nat
      /\ \A f \in net : f \in Frames /\ f.issued \in Nat
      /\ \A f \in net : f.boot = boot => f.issued <= clock
  BY <1>1, RequestTypes, LeaseAssumption DEF PermitsAreTrue, Issued, Now
<1>3. CASE Reboot \/ OwnerRetired
  BY <1>3 DEF Reboot, OwnerRetired, NewLease, PermitsPrecedeExpiry
<1>4. CASE \E f \in net : ServeClaim(f) \/ ServeHeartbeat(f)
  <2>1. PICK f \in net : ServeClaim(f) \/ ServeHeartbeat(f)
    BY <1>4
  <2>2. lease'.expires = Now + LeaseMs
    BY <1>1, <2>1, LeaseRenewed
  <2>3. UNCHANGED <<boot, booted, net>>
    BY <2>1 DEF ServeClaim, ServeHeartbeat, KeepTime
  <2>4. QED
    BY <1>2, <2>2, <2>3 DEF PermitsPrecedeExpiry
<1>5. CASE UNCHANGED <<boot, booted>> /\ LeaseKept
  <2>1. CASE net' = net
    BY <1>1, <1>5, <2>1 DEF LeaseKept, PermitsPrecedeExpiry
  <2>2. CASE \E s \in Sessions, c \in Commands : Send(s, c)
    <3>1. PICK s \in Sessions, c \in Commands : Send(s, c)
      BY <2>2
    <3>2. host[s].issued \in Nat /\ (host[s].boot = boot => host[s].issued <= clock)
      BY <1>1, RequestTypes DEF PermitsAreTrue, Issued
    <3>3. lease.owner # None => Now < lease.expires
      BY <1>2, <3>1 DEF Send, Expired, Leases
    <3>4. \A f \in net' : f \in net \/ (f.boot = host[s].boot /\ f.issued = host[s].issued)
      BY <3>1 DEF Send
    <3>5. lease' = lease
      BY <3>1 DEF Send, device
    <3>6. lease.expires \in Nat
      BY <1>2 DEF Leases
    <3>7. QED
      BY <1>1, <1>2, <1>5, <3>2, <3>3, <3>4, <3>5, <3>6 DEF PermitsPrecedeExpiry
  <2>3. QED
    BY <1>1, <2>1, <2>2, MessageSteps
<1>6. QED
  BY <1>1, <1>3, <1>4, <1>5, LeaseSteps

LEMMA NotRetiredStep ==
  ASSUME TimeInv, [Next]_vars
  PROVE  OwnerIsNotRetired'
<1>1. IInv /\ OwnerIsNotRetired /\ lease \in Leases /\ Now \in Nat
  BY RequestTypes DEF TimeInv
<1>2. \A e \in lease.retired : e.session \in Sessions
  BY <1>1 DEF Leases, RetiredEntries
<1>3. CASE Reboot
  BY <1>3 DEF Reboot, NewLease, OwnerIsNotRetired
<1>4. CASE LeaseKept
  BY <1>1, <1>4 DEF LeaseKept, OwnerIsNotRetired
<1>5. CASE OwnerRetired
  <2>1. lease.owner \in Sessions
    BY <1>1, <1>5 DEF OwnerRetired, Leases
  <2>2. \A e \in lease'.retired : e.session \in Sessions
    BY <1>2, <1>5, <2>1 DEF OwnerRetired
  <2>3. QED
    BY <1>5, <2>2, LeaseAssumption DEF OwnerRetired, OwnerIsNotRetired
<1>6. CASE \E f \in net : ServeClaim(f)
  <2>1. PICK f \in net : ServeClaim(f)
    BY <1>6
  <2>2. f \in Frames
    BY <1>1, RequestTypes
  <2>3. lease'.owner = f.session /\ lease'.retired = Purge(lease, Now).retired
    BY <1>1, <2>1, <2>2, ClaimType DEF ServeClaim
  <2>4. \A e \in Purge(lease, Now).retired : e.session # f.session
    BY <2>1 DEF ServeClaim, Accepts, MayClaim
  <2>5. QED
    BY <2>3, <2>4 DEF OwnerIsNotRetired
<1>7. CASE \E f \in net : ServeHeartbeat(f)
  <2>1. PICK f \in net : ServeHeartbeat(f)
    BY <1>7
  <2>2. f \in Frames
    BY <1>1, RequestTypes
  <2>3. lease'.owner = lease.owner /\ lease'.retired = lease.retired
    BY <1>1, <2>1, <2>2, HeartbeatType DEF ServeHeartbeat
  <2>4. QED
    BY <1>1, <2>3 DEF OwnerIsNotRetired
<1>8. QED
  BY <1>1, <1>3, <1>4, <1>5, <1>6, <1>7, LeaseSteps

\* A session leaves the retired list only when its permits have aged away.
LEMMA RetiredStays ==
  ASSUME IInv, [Next]_vars
  PROVE  Reboot \/ \A e \in lease.retired : e \in lease'.retired \/ Now >= e.until
<1>1. lease \in Leases /\ Now \in Nat
  BY RequestTypes
<1>2. CASE \E f \in net : ServeClaim(f)
  <2>1. PICK f \in net : ServeClaim(f)
    BY <1>2
  <2>2. lease'.retired = Purge(lease, Now).retired
    BY <1>1, <2>1, ClaimType, RequestTypes DEF ServeClaim
  <2>3. QED
    BY <1>1, <2>2, PurgeForgets
<1>3. CASE \E f \in net : ServeHeartbeat(f)
  BY <1>1, <1>3, HeartbeatType, RequestTypes DEF ServeHeartbeat
<1>4. CASE LeaseKept \/ OwnerRetired
  BY <1>4 DEF LeaseKept, OwnerRetired
<1>5. QED
  BY <1>2, <1>3, <1>4, LeaseSteps

\* What is barred once is barred for ever.
LEMMA BarredStays ==
  ASSUME TimeInv, [Next]_vars, NEW f \in net, Barred(f)
  PROVE  Barred(f)'
<1>1. IInv /\ Issued(f)
  BY DEF TimeInv, PermitsAreTrue
<1>2. /\ clock \in Nat /\ clock' \in Nat /\ clock <= clock' /\ booted \in Nat /\ booted <= clock
      /\ boot \in Nat /\ f.boot \in Nat /\ f.issued \in Nat /\ PermitMs \in Nat
      /\ lease \in Leases /\ Now = clock - booted
  BY <1>1, ClockSteps, RequestTypes, LeaseAssumption DEF Now
<1>3. CASE Reboot
  BY <1>1, <1>2, <1>3 DEF Reboot, Issued, Barred
<1>4. CASE UNCHANGED <<boot, booted>> /\ ~Reboot
  <2>1. CASE f.boot # boot \/ Stale(f)
    BY <1>2, <1>4, <2>1 DEF Barred, Stale
  <2>2. CASE \E e \in lease.retired :
               e.session = f.session /\ f.issued - booted + PermitMs <= e.until
    <3>1. PICK e \in lease.retired :
            e.session = f.session /\ f.issued - booted + PermitMs <= e.until
      BY <2>2
    <3>2. CASE e \in lease'.retired
      BY <1>4, <3>1, <3>2 DEF Barred
    <3>3. CASE Now >= e.until
      <4>1. e.until \in Nat
        BY <1>2 DEF Leases, RetiredEntries
      <4>2. clock' - f.issued >= PermitMs
        BY <1>2, <3>1, <3>3, <4>1
      <4>3. QED
        BY <4>2 DEF Barred, Stale
    <3>4. QED
      BY <1>1, <1>4, <3>2, <3>3, RetiredStays
  <2>3. QED
    BY <2>1, <2>2 DEF Barred
<1>5. QED
  BY <1>1, <1>3, <1>4, LeaseSteps

\* Whatever the owner has sent is barred when it is retired.
LEMMA RetiredIsBarred ==
  ASSUME TimeInv, OwnerRetired, UNCHANGED <<boot, booted>>,
         NEW f \in net, f.session = lease.owner
  PROVE  Barred(f)'
<1>1. /\ f.issued \in Nat /\ booted \in Nat /\ PermitMs \in Nat /\ lease.expires \in Nat
  BY RequestTypes, LeaseAssumption DEF TimeInv, Leases
<1>2. f.boot = boot => f.issued - booted <= lease.expires
  BY DEF TimeInv, PermitsPrecedeExpiry, OwnerRetired
<1> DEFINE e == [session |-> lease.owner, until |-> lease.expires + PermitMs]
<1>3. e \in lease'.retired /\ e.session = f.session /\ e.until = lease.expires + PermitMs
  BY DEF OwnerRetired
<1> HIDE DEF e
<1>4. f.boot = boot => f.issued - booted + PermitMs <= e.until
  BY <1>1, <1>2, <1>3
<1>5. QED
  BY <1>3, <1>4 DEF Barred

LEMMA BufferedStep ==
  ASSUME TimeInv, [Next]_vars
  PROVE  BufferedAreBarred'
<1>1. IInv /\ BufferedAreBarred /\ buffered \subseteq net
  BY RequestTypes DEF TimeInv
<1>2. \A f \in buffered : Barred(f)'
  BY <1>1, BarredStays DEF BufferedAreBarred
<1>3. CASE buffered' = buffered
  BY <1>2, <1>3 DEF BufferedAreBarred
<1>4. CASE OwnerRetired /\ UNCHANGED <<boot, booted>>
  <2>1. \A f \in net : f.session = lease.owner => Barred(f)'
    BY <1>4, RetiredIsBarred
  <2>2. QED
    BY <1>2, <1>4, <2>1 DEF OwnerRetired, BufferedAreBarred
<1>5. CASE Reboot
  <2>1. \A f \in net : f.boot \in Nat /\ boot \in Nat /\ f.boot <= boot
    BY <1>1, RequestTypes DEF TimeInv, PermitsAreTrue, Issued
  <2>2. \A f \in net : f.boot # boot'
    BY <1>1, <1>5, <2>1, RequestTypes DEF Reboot
  <2>3. buffered' \subseteq net
    BY <1>1, <1>5 DEF Reboot
  <2>4. QED
    BY <2>2, <2>3 DEF BufferedAreBarred, Barred
<1>6. CASE \E f \in net : ServeClaim(f) \/ ServeHeartbeat(f)
  <2>1. buffered' = buffered
    BY <1>6 DEF ServeClaim, ServeHeartbeat, KeepHistory
  <2>2. QED
    BY <1>3, <2>1
<1>7. QED
  BY <1>1, <1>3, <1>4, <1>5, <1>6, LeaseSteps

\* The lease runs on while the clock stands still or somebody looks at it.
LEMMA SilentStep ==
  ASSUME TimeInv, [Next]_vars
  PROVE  SilentOwnerIsDropped'
<1>1. IInv /\ SilentOwnerIsDropped
  BY DEF TimeInv
<1>2. /\ clock \in Nat /\ booted \in Nat /\ booted <= clock /\ Now = clock - booted /\ Now \in Nat
      /\ lease \in Leases /\ lease.expires \in Nat /\ LeaseMs \in Nat \ {0}
      /\ \A t \in SaveTimes : t \in Nat
  BY <1>1, RequestTypes, LeaseAssumption, RemoteAssumption DEF Now, Leases
<1>3. CASE Reboot \/ OwnerRetired
  BY <1>3 DEF Reboot, NewLease, OwnerRetired, SilentOwnerIsDropped
<1>4. CASE \E f \in net : ServeClaim(f) \/ ServeHeartbeat(f)
  <2>1. PICK f \in net : ServeClaim(f) \/ ServeHeartbeat(f)
    BY <1>4
  <2>2. lease'.expires = Now + LeaseMs
    BY <1>1, <2>1, LeaseRenewed
  <2>3. Now' = Now
    BY <2>1 DEF ServeClaim, ServeHeartbeat, KeepTime, Now
  <2>4. QED
    BY <1>2, <2>2, <2>3 DEF SilentOwnerIsDropped
<1>5. CASE LeaseKept /\ UNCHANGED <<clock, booted>>
  BY <1>1, <1>5 DEF LeaseKept, SilentOwnerIsDropped, Now
<1>6. CASE Tick
  <2>1. Now' = Now + 1 /\ lease' = lease
    BY <1>2, <1>6 DEF Tick, Now, device
  <2>2. lease.owner # None => Now < lease.expires
    BY <1>2, <1>6 DEF Tick, Expired
  <2>3. QED
    BY <1>1, <1>2, <2>1, <2>2 DEF SilentOwnerIsDropped
<1>7. CASE \E f \in net : Execute(f)
  <2>1. PICK f \in net : Execute(f)
    BY <1>7
  <2>2. f \in Frames
    BY <1>1, RequestTypes
  <2>3. Now < lease.expires
    BY <2>1 DEF Execute, Accepts, MayAct, Mutations
  <2>4. PICK t \in SaveTimes : clock' = clock + t
    BY <2>1, RemoteAssumption DEF Execute
  <2>5. Now' = Now + t /\ t \in Nat
    BY <1>2, <2>1, <2>4 DEF Execute, Now
  <2>6. lease'.owner = lease.owner /\ lease'.expires = lease.expires
    BY <1>2, <2>1, <2>2, AuthorizeType DEF Execute, Authorize, Leases
  <2>7. lease'.expires <= Now' + LeaseMs \/ lease.owner = None
    BY <1>1, <1>2, <2>5, <2>6 DEF SilentOwnerIsDropped
  <2>8. Now' < lease'.expires + t
    BY <1>2, <2>3, <2>5, <2>6
  <2>9. QED
    BY <2>6, <2>7, <2>8 DEF SilentOwnerIsDropped
<1>8. CASE LeaseKept /\ UNCHANGED <<boot, booted>> /\ ~Tick /\ ~\E f \in net : Execute(f)
  <2>1. clock' = clock
    BY <1>8 DEF Next, vars, device, KeepTime, Hello, Send, Handle, Reject, ServeClaim,
                ServeHeartbeat, ServeRelease, ServeDisable, ServeStatus, RefuseBusy, Expire,
                LocalOperate, LocalStop, Trip, Calibrated, TuneEnds, Reboot
  <2>2. QED
    BY <1>5, <1>8, <2>1
<1>9. QED
  BY <1>1, <1>3, <1>4, <1>6, <1>7, <1>8, LeaseSteps

LEMMA TimeNextInv == TimeInv /\ [Next]_vars => TimeInv'
BY NextInv, PermitsStep, ExpiryStep, NotRetiredStep, BufferedStep, SilentStep DEF TimeInv

\* The invariant that relates permits, leases and retired sessions holds in
\* every reachable state.
THEOREM TimeInductive == Spec => []TimeInv
BY TimeInitInv, TimeNextInv, PTL DEF Spec

\* A silent owner is gone within LeaseMs, save for a flash write it asked for.
THEOREM SilentOwnerIsDroppedHolds == Spec => []SilentOwnerIsDropped
<1>1. TimeInv => SilentOwnerIsDropped
  BY DEF TimeInv
<1>2. QED
  BY <1>1, TimeInductive, PTL

\* A permit that the wrapping arithmetic takes for fresh is fresh in real time.
LEMMA FreshIsFresh ==
  ASSUME TimeInv, NEW f \in net, EndpointFresh(f), Now < PermitMod
  PROVE  clock - f.issued < PermitMs
<1>1. /\ clock \in Nat /\ booted \in Nat /\ Now = clock - booted /\ Now \in Nat
      /\ f.issued \in booted..clock /\ f.permit = (f.issued - booted) % PermitMod
      /\ PermitMod \in Nat \ {0} /\ f.issued \in Nat
  BY RequestTypes, LeaseAssumption DEF TimeInv, PermitsAreTrue, Issued, EndpointFresh, Now
<1>2. f.permit = f.issued - booted
  <2>1. f.issued - booted \in 0..PermitMod - 1
    BY <1>1
  <2>2. QED
    BY <1>1, <2>1, ModuloNear
<1>3. Now % PermitMod = Now
  BY <1>1, ModuloNear
<1>4. (Now - f.permit) % PermitMod = clock - f.issued
  <2>1. Now - f.permit = clock - f.issued /\ clock - f.issued \in 0..PermitMod - 1
    BY <1>1, <1>2
  <2>2. QED
    BY <1>1, <2>1, ModuloNear
<1>5. QED
  BY <1>3, <1>4 DEF EndpointFresh, FreshPermit

\* What the device carries out, it carries out on a fresh permit.
LEMMA ExecuteIsFresh ==
  ASSUME TimeInv, NEW f \in net, Execute(f)
  PROVE  /\ clock - f.issued < PermitMs
         /\ f.boot = boot /\ lease.owner = f.session /\ InSequence(lease, f)
<1>1. EndpointFresh(f) /\ MayAct(lease, f, boot, Now)
  BY DEF Execute, Accepts, Mutations
<1>2. Now < PermitMod
  BY <1>1 DEF MayAct, Credential
<1>3. QED
  BY <1>1, <1>2, FreshIsFresh DEF EndpointFresh, MayAct

LEMMA ExecutedSteps ==
  ASSUME [Next]_vars
  PROVE  \/ UNCHANGED <<executed, repeated>>
         \/ \E f \in net : Execute(f)
BY DEF Next, vars, device, KeepHistory, Hello, Send, Handle, Reject, ServeClaim,
       ServeHeartbeat, ServeRelease, ServeDisable, ServeStatus, RefuseBusy, Expire,
       LocalOperate, LocalStop, Trip, Calibrated, TuneEnds, Reboot, Tick

\* No mutation acts on a permit older than its lifetime, whatever the uptime
\* has wrapped to or restarted from.
THEOREM FreshExecutionHolds == Spec => FreshExecution
<1>1. TimeInv /\ [Next]_vars
        => [\A f \in executed' \ executed : clock - f.issued < PermitMs]_vars
  <2>1. SUFFICES ASSUME TimeInv, [Next]_vars, NEW f \in executed' \ executed
                 PROVE  clock - f.issued < PermitMs
    OBVIOUS
  <2>2. PICK g \in net : Execute(g)
    BY <2>1, ExecutedSteps
  <2>3. f = g
    BY <2>1, <2>2 DEF Execute
  <2>4. QED
    BY <2>1, <2>2, <2>3, ExecuteIsFresh
<1>2. QED
  BY <1>1, TimeInductive, PTL DEF Spec, FreshExecution

\* Only a claim gives the motor to somebody.
LEMMA OwnerSteps ==
  ASSUME IInv, [Next]_vars, lease.owner = None, lease'.owner # None
  PROVE  \E f \in net : ServeClaim(f)
<1>1. lease \in Leases
  BY RequestTypes
<1>2. ~Reboot /\ ~LeaseKept /\ ~OwnerRetired
  BY DEF Reboot, NewLease, LeaseKept, OwnerRetired
<1>3. \A f \in net : ~ServeHeartbeat(f)
  <2>1. SUFFICES ASSUME NEW f \in net, ServeHeartbeat(f) PROVE FALSE
    OBVIOUS
  <2>2. f.session = None /\ f.session \in Sessions
    BY <2>1, RequestTypes DEF ServeHeartbeat, Accepts, MayAct
  <2>3. QED
    BY <2>2, LeaseAssumption
<1>4. QED
  BY <1>2, <1>3, LeaseSteps

\* A session that lost the motor does not get it back through a claim it had
\* under way, however the permits and the retired list age.
THEOREM NoBufferedReclaimHolds == Spec => NoBufferedReclaim
<1> DEFINE P == \A f \in net : lease'.owner = f.session /\ lease.owner = None /\ cached' = f
                                 => f \notin buffered
<1>1. TimeInv /\ [Next]_vars => [P]_vars
  <2>1. SUFFICES ASSUME TimeInv, [Next]_vars, NEW f \in net,
                        lease'.owner = f.session, lease.owner = None, cached' = f,
                        f \in buffered
                 PROVE  FALSE
    OBVIOUS
  <2>2. IInv /\ f.session # None
    BY <2>1, RequestTypes, LeaseAssumption DEF TimeInv
  <2>3. ServeClaim(f)
    <3>1. PICK g \in net : ServeClaim(g)
      BY <2>1, <2>2, OwnerSteps
    <3>2. g = f
      BY <2>1, <3>1 DEF ServeClaim, Remember
    <3>3. QED
      BY <3>1, <3>2
  <2>4. EndpointFresh(f) /\ MayClaim(lease, f, boot, Now)
    BY <2>3 DEF ServeClaim, Accepts
  <2>5. clock - f.issued < PermitMs /\ f.boot = boot
    BY <2>1, <2>4, FreshIsFresh DEF MayClaim, Credential, EndpointFresh
  <2>6. /\ clock \in Nat /\ booted \in Nat /\ f.issued \in Nat /\ PermitMs \in Nat
        /\ lease \in Leases /\ Now = clock - booted /\ Now \in Nat
    BY <2>2, RequestTypes, LeaseAssumption DEF Now
  <2>7. PICK e \in lease.retired : e.session = f.session /\ f.issued - booted + PermitMs <= e.until
    BY <2>1, <2>5, <2>6 DEF TimeInv, BufferedAreBarred, Barred, Stale
  <2>8. e.until \in Nat
    BY <2>6 DEF Leases, RetiredEntries
  <2>9. Now < e.until
    BY <2>5, <2>6, <2>7, <2>8
  <2>10. e \in Purge(lease, Now).retired
    BY <2>6, <2>8, <2>9, PurgeForgets
  <2>11. QED
    BY <2>4, <2>7, <2>10 DEF MayClaim
<1>2. QED
  BY <1>1, TimeInductive, PTL DEF Spec, NoBufferedReclaim

-----------------------------------------------------------------------------
(* Requests are carried out once.  The numbers of a session may wrap, but a  *)
(* session does not live long enough to send half of all numbers: one that    *)
(* did could not tell a new request from the one before the wrap.             *)

ManyNumbers == 2 * MaxRequests <= SequenceMod

\* Which request of its session a number belongs to.
Position(sequence) == (sequence - FirstSequence) % SequenceMod

Numbered ==
  \A f \in net : /\ f.request \in 0..MaxRequests - 1
                 /\ f.sequence = (FirstSequence + f.request) % SequenceMod

\* The lease remembers the last number of a request of its owner.
OwnerIsNumbered == lease.owner # None => Position(lease.sequence) < MaxRequests

\* A request that was carried out may not be so again: its owner has gone, or
\* the lease is already at its number or beyond.
ExecutedAreSpent ==
  \A f \in executed :
    Barred(f) \/ (lease.owner = f.session /\ f.request <= Position(lease.sequence))

OnceInv ==
  /\ TimeInv
  /\ Numbered /\ OwnerIsNumbered /\ ExecutedAreSpent
  /\ AtMostOnce

\* Numbers and positions are the same thing while fewer than half of them are used.
LEMMA PositionOfNumber ==
  ASSUME ManyNumbers, NEW k \in 0..MaxRequests - 1
  PROVE  /\ (FirstSequence + k) % SequenceMod \in 0..SequenceMod - 1
         /\ Position((FirstSequence + k) % SequenceMod) = k
<1> DEFINE first == FirstSequence
           M == SequenceMod
           n == (first + k) % M
<1>1. /\ first \in 0..M - 1 /\ M \in Nat \ {0} /\ MaxRequests \in Nat /\ 2 * MaxRequests <= M
  BY RemoteAssumption, LeaseAssumption DEF ManyNumbers
<1> HIDE DEF first, M
<1>2. k \in 0..M - 1
  BY <1>1
<1>3. n \in 0..M - 1 /\ (n = first + k \/ n = first + k - M)
  BY <1>1, <1>2, ModuloSum
<1>4. (n - first) % M = k
  <2>1. CASE n = first + k
    <3>1. n - first = k /\ k \in 0..M - 1
      BY <1>1, <2>1
    <3>2. QED
      BY <1>1, <3>1, ModuloNear
  <2>2. CASE n = first + k - M
    <3>1. n - first = k - M /\ k - M \in -M..-1
      BY <1>1, <2>2
    <3>2. (k - M) % M = k - M + M
      BY <1>1, <3>1, ModuloNear
    <3>3. QED
      BY <1>1, <3>1, <3>2
  <2>3. QED
    BY <1>3, <2>1, <2>2
<1>5. QED
  BY <1>3, <1>4 DEF n, first, M, Position

\* A number in sequence is a later position.
LEMMA InSequenceIsLater ==
  ASSUME ManyNumbers, NEW l \in Leases, Position(l.sequence) < MaxRequests,
         NEW f, f.request \in 0..MaxRequests - 1,
         f.sequence = (FirstSequence + f.request) % SequenceMod,
         InSequence(l, f)
  PROVE  Position(l.sequence) < f.request
<1> DEFINE first == FirstSequence
           M == SequenceMod
           a == l.sequence
           b == f.sequence
           p == Position(a)
           k == f.request
<1>1. /\ first \in 0..M - 1 /\ M \in Nat \ {0} /\ MaxRequests \in Nat /\ 2 * MaxRequests <= M
      /\ a \in 0..M - 1 /\ k \in 0..MaxRequests - 1 /\ p < MaxRequests
  BY RemoteAssumption, LeaseAssumption DEF ManyNumbers, Leases
<1>2. b = (first + k) % M /\ p = (a - first) % M
  BY DEF Position
<1>3. (b - a) % M # 0 /\ 2 * ((b - a) % M) < M
  BY DEF InSequence
<1> HIDE DEF first, M, a, b, p, k
<1>4. p \in 0..M - 1 /\ (p = a - first \/ p = a - first + M)
  BY <1>1, <1>2, ModuloSum
<1>5. b \in 0..M - 1 /\ (b = first + k \/ b = first + k - M)
  <2>1. k \in 0..M - 1
    BY <1>1
  <2>2. QED
    BY <1>1, <1>2, <2>1, ModuloSum
<1>6. (b - a) % M \in {b - a, b - a + M} /\ (b - a) % M \in 0..M - 1
  BY <1>1, <1>5, ModuloSum
<1>7. p < k
  BY <1>1, <1>3, <1>4, <1>5, <1>6
<1>8. QED
  BY <1>7 DEF p, k, a

LEMMA OnceInitInv == Init => OnceInv
<1>1. SUFFICES ASSUME Init PROVE OnceInv
  OBVIOUS
<1>2. TimeInv
  BY <1>1, TimeInitInv
<1>3. QED
  BY <1>1, <1>2 DEF Init, NewLease, OnceInv, Numbered, OwnerIsNumbered, ExecutedAreSpent, AtMostOnce

LEMMA NumberedStep ==
  ASSUME OnceInv, [Next]_vars
  PROVE  Numbered'
<1>1. IInv /\ Numbered
  BY DEF OnceInv, TimeInv
<1>2. CASE net' = net
  BY <1>1, <1>2 DEF Numbered
<1>3. CASE \E s \in Sessions, c \in Commands : Send(s, c)
  <2>1. PICK s \in Sessions, c \in Commands : Send(s, c)
    BY <1>3
  <2>2. host[s].sent \in Nat /\ host[s].sent < MaxRequests /\ MaxRequests \in Nat
    BY <1>1, <2>1, RequestTypes, RemoteAssumption DEF Send
  <2>3. \A f \in net' : f \in net \/
          (/\ f.request = host[s].sent
           /\ f.sequence = (FirstSequence + host[s].sent) % SequenceMod)
    BY <2>1 DEF Send
  <2>4. host[s].sent \in 0..MaxRequests - 1
    BY <2>2
  <2>5. QED
    BY <1>1, <2>3, <2>4 DEF Numbered
<1>4. QED
  BY <1>1, <1>2, <1>3, MessageSteps

\* The last number of the owner changes with a request it is allowed.
LEMMA SequenceSteps ==
  ASSUME OnceInv, [Next]_vars
  PROVE  \/ /\ UNCHANGED <<executed, repeated>>
            /\ \/ lease'.owner = None
               \/ lease'.owner = lease.owner /\ lease'.sequence = lease.sequence
         \/ \E f \in net : ServeClaim(f)
         \/ \E f \in net : /\ lease'.owner = lease.owner /\ lease.owner = f.session
                           /\ lease'.sequence = f.sequence /\ InSequence(lease, f)
                           /\ UNCHANGED <<executed, repeated>> \/ Execute(f)
<1>1. IInv /\ lease \in Leases /\ Now \in Nat /\ \A f \in net : f \in Frames
  BY RequestTypes DEF OnceInv, TimeInv
<1>2. CASE \E f \in net : Handle(f)
  <2>1. PICK f \in net : Handle(f)
    BY <1>2
  <2>2. f \in Frames
    BY <1>1
  <2>3. CASE Reject(f) \/ ServeDisable(f) \/ ServeStatus(f)
    <3>1. lease' = lease \/ lease' = Purge(lease, Now)
      BY <2>3 DEF Reject, Refuse, ServeDisable, ServeStatus
    <3>2. lease'.sequence = lease.sequence /\ lease'.owner = lease.owner
      BY <1>1, <3>1 DEF Purge, Leases
    <3>3. QED
      BY <2>3, <3>2 DEF Reject, ServeDisable, ServeStatus, KeepHistory
  <2>4. CASE ServeRelease(f)
    <3>1. Authorize(lease, f) \in Leases
      BY <1>1, <2>2, AuthorizeType
    <3>2. lease'.owner = None
      BY <2>4, <3>1, ReleaseType DEF ServeRelease
    <3>3. UNCHANGED <<executed, repeated>>
      BY <2>4 DEF ServeRelease
    <3>4. QED
      BY <3>2, <3>3
  <2>5. CASE ServeHeartbeat(f) \/ RefuseBusy(f) \/ Execute(f)
    <3>1. MayAct(lease, f, boot, Now)
      BY <2>5 DEF ServeHeartbeat, RefuseBusy, Execute, Accepts, Mutations
    <3>2. lease'.sequence = f.sequence /\ lease'.owner = lease.owner
      BY <1>1, <2>2, <2>5 DEF ServeHeartbeat, RefuseBusy, Execute, Heartbeat, Authorize, Leases
    <3>3. QED
      BY <2>5, <3>1, <3>2 DEF MayAct, ServeHeartbeat, RefuseBusy, KeepHistory
  <2>6. QED
    BY <2>1, <2>3, <2>4, <2>5 DEF Handle
<1>3. CASE Expire \/ Reboot
  <2>1. lease'.owner = None
    BY <1>1, <1>3, ReleaseType DEF Expire, Reboot, NewLease
  <2>2. QED
    BY <1>3, <2>1 DEF Expire, Reboot
<1>4. QED
  BY <1>2, <1>3 DEF Next, vars, device, KeepHistory, Hello, Send,
       LocalOperate, LocalStop, Trip, Calibrated, TuneEnds, Tick

LEMMA OwnerNumberedStep ==
  ASSUME ManyNumbers, OnceInv, [Next]_vars
  PROVE  OwnerIsNumbered'
<1>1. IInv /\ OwnerIsNumbered /\ Numbered /\ MaxRequests \in Nat
  BY RemoteAssumption DEF OnceInv, TimeInv
<1>2. \A f \in net : Position(f.sequence) < MaxRequests
  <2>1. SUFFICES ASSUME NEW f \in net PROVE Position(f.sequence) < MaxRequests
    OBVIOUS
  <2>2. f.request \in 0..MaxRequests - 1 /\ f.sequence = (FirstSequence + f.request) % SequenceMod
    BY <1>1 DEF Numbered
  <2>3. Position(f.sequence) = f.request
    BY <2>2, PositionOfNumber
  <2>4. QED
    BY <1>1, <2>2, <2>3
<1>3. CASE \E f \in net : ServeClaim(f)
  <2>1. PICK f \in net : ServeClaim(f)
    BY <1>3
  <2>2. Purge(lease, Now) \in Leases
    BY <1>1, PurgeType, RequestTypes
  <2>3. lease'.sequence = f.sequence
    BY <2>1, <2>2 DEF ServeClaim, Claim, Leases
  <2>4. QED
    BY <1>2, <2>3 DEF OwnerIsNumbered, Position
<1>4. CASE \E f \in net : lease'.sequence = f.sequence
  BY <1>2, <1>4 DEF OwnerIsNumbered, Position
<1>5. QED
  BY <1>1, <1>3, <1>4, SequenceSteps DEF OwnerIsNumbered, Position

\* Nothing that the device may carry out was carried out before.
LEMMA ExecuteIsNew ==
  ASSUME ManyNumbers, OnceInv, NEW f \in net, Execute(f)
  PROVE  f \notin executed
<1>1. IInv /\ TimeInv /\ lease \in Leases
  BY RequestTypes DEF OnceInv, TimeInv
<1>2. /\ clock - f.issued < PermitMs /\ f.boot = boot
      /\ lease.owner = f.session /\ InSequence(lease, f)
  BY <1>1, ExecuteIsFresh
<1>3. clock \in Nat /\ f.issued \in Nat /\ PermitMs \in Nat /\ lease.owner # None
      /\ f.session \in Sessions
  BY <1>1, <1>2, RequestTypes, LeaseAssumption
<1>4. ~Barred(f)
  BY <1>1, <1>2, <1>3 DEF Barred, Stale, TimeInv, OwnerIsNotRetired
<1>5. f.request \in 0..MaxRequests - 1 /\ f.sequence = (FirstSequence + f.request) % SequenceMod
      /\ Position(lease.sequence) < MaxRequests
  BY <1>3 DEF OnceInv, Numbered, OwnerIsNumbered
<1>6. Position(lease.sequence) < f.request
  BY <1>1, <1>2, <1>5, InSequenceIsLater
<1>7. Position(lease.sequence) \in Int /\ f.request \in Int
  BY <1>1, <1>5, RemoteAssumption, LeaseAssumption DEF Position, Leases
<1>8. QED
  BY <1>4, <1>6, <1>7 DEF OnceInv, ExecutedAreSpent

LEMMA SpentStep ==
  ASSUME ManyNumbers, OnceInv, [Next]_vars
  PROVE  ExecutedAreSpent'
<1>1. IInv /\ TimeInv /\ lease \in Leases /\ executed \subseteq net
  BY RequestTypes DEF OnceInv, TimeInv
<1>2. \A f \in executed : Barred(f) => Barred(f)'
  BY <1>1, BarredStays
<1>3. SUFFICES ASSUME NEW f \in executed', ~Barred(f)'
               PROVE  lease'.owner = f.session /\ f.request <= Position(lease'.sequence)
  BY DEF ExecutedAreSpent, Position
<1>4. CASE f \notin executed
  <2>1. PICK g \in net : Execute(g)
    BY <1>4, ExecutedSteps, <1>1
  <2>2. f = g
    BY <1>4, <2>1 DEF Execute
  <2>3. lease.owner = f.session /\ f \in Frames
    BY <1>1, <2>1, <2>2, ExecuteIsFresh, RequestTypes
  <2>4. lease'.owner = f.session /\ lease'.sequence = f.sequence
    BY <1>1, <2>1, <2>2, <2>3, AuthorizeType DEF Execute, Authorize, Leases
  <2>5. f.request \in 0..MaxRequests - 1 /\ f.sequence = (FirstSequence + f.request) % SequenceMod
    BY <2>1, <2>2 DEF OnceInv, Numbered
  <2>6. Position(f.sequence) = f.request
    BY <2>5, PositionOfNumber
  <2>7. QED
    BY <2>4, <2>5, <2>6
<1>5. CASE f \in executed
  <2>1. lease.owner = f.session /\ f.request <= Position(lease.sequence)
    BY <1>2, <1>3, <1>5 DEF OnceInv, ExecutedAreSpent
  <2>2. f \in net /\ f.session \in Sessions /\ lease.owner # None
    BY <1>1, <1>5, <2>1, RequestTypes, LeaseAssumption
  <2>3. ~OwnerRetired /\ ~Reboot
    <3>1. ~Reboot
      <4>1. SUFFICES ASSUME Reboot PROVE FALSE
        OBVIOUS
      <4>2. f.boot <= boot /\ f.boot \in Nat /\ boot \in Nat
        BY <1>1, <2>2, RequestTypes DEF TimeInv, PermitsAreTrue, Issued
      <4>3. f.boot # boot'
        BY <4>1, <4>2 DEF Reboot
      <4>4. QED
        BY <1>3, <4>3 DEF Barred
    <3>2. ~OwnerRetired
      <4>1. SUFFICES ASSUME OwnerRetired PROVE FALSE
        OBVIOUS
      <4>2. UNCHANGED <<boot, booted>>
        BY <1>1, <3>1, <4>1, LeaseSteps DEF OwnerRetired, LeaseKept
      <4>3. Barred(f)'
        BY <1>1, <2>1, <2>2, <4>1, <4>2, RetiredIsBarred
      <4>4. QED
        BY <1>3, <4>3
    <3>3. QED
      BY <3>1, <3>2
  <2>4. lease'.owner # None
    <3>1. CASE LeaseKept
      BY <2>2, <3>1 DEF LeaseKept
    <3>2. CASE \E g \in net : ServeClaim(g)
      BY <2>2, <3>2 DEF ServeClaim, Accepts, MayClaim
    <3>3. CASE \E g \in net : ServeHeartbeat(g)
      <4>1. PICK g \in net : ServeHeartbeat(g)
        BY <3>3
      <4>2. g \in Frames /\ Now \in Nat
        BY <1>1, RequestTypes
      <4>3. QED
        BY <1>1, <2>2, <4>1, <4>2, HeartbeatType DEF ServeHeartbeat
    <3>4. QED
      BY <1>1, <2>3, <3>1, <3>2, <3>3, LeaseSteps
  <2>5. ~\E g \in net : ServeClaim(g)
    BY <2>2 DEF ServeClaim, Accepts, MayClaim
  <2>6. CASE lease'.owner = lease.owner /\ lease'.sequence = lease.sequence
    BY <2>1, <2>6
  <2>7. CASE \E g \in net : /\ lease'.owner = lease.owner /\ lease.owner = g.session
                            /\ lease'.sequence = g.sequence /\ InSequence(lease, g)
    <3>1. PICK g \in net : /\ lease'.owner = lease.owner /\ lease.owner = g.session
                           /\ lease'.sequence = g.sequence /\ InSequence(lease, g)
      BY <2>7
    <3>2. g.request \in 0..MaxRequests - 1 /\ g.sequence = (FirstSequence + g.request) % SequenceMod
          /\ f.request \in 0..MaxRequests - 1 /\ Position(lease.sequence) < MaxRequests
          /\ MaxRequests \in Nat
      BY <2>2, RemoteAssumption DEF OnceInv, Numbered, OwnerIsNumbered
    <3>3. Position(lease.sequence) < g.request
      BY <1>1, <3>1, <3>2, InSequenceIsLater
    <3>4. Position(lease'.sequence) = g.request
      BY <3>1, <3>2, PositionOfNumber
    <3>5. Position(lease.sequence) \in Int
      BY <1>1, RemoteAssumption, LeaseAssumption DEF Position, Leases
    <3>6. f.request <= g.request
      BY <2>1, <3>2, <3>3, <3>5
    <3>7. QED
      BY <2>1, <3>1, <3>4, <3>6
  <2>8. QED
    BY <2>4, <2>5, <2>6, <2>7, SequenceSteps
<1>6. QED
  BY <1>4, <1>5

LEMMA OnceNextInv == ManyNumbers => (OnceInv /\ [Next]_vars => OnceInv')
<1>1. SUFFICES ASSUME ManyNumbers, OnceInv, [Next]_vars PROVE OnceInv'
  OBVIOUS
<1>2. TimeInv'
  BY <1>1, TimeNextInv DEF OnceInv
<1>3. AtMostOnce'
  <2>1. CASE UNCHANGED <<executed, repeated>>
    BY <1>1, <2>1 DEF OnceInv, AtMostOnce
  <2>2. CASE \E f \in net : Execute(f)
    <3>1. PICK f \in net : Execute(f)
      BY <2>2
    <3>2. f \notin executed
      BY <1>1, <3>1, ExecuteIsNew
    <3>3. QED
      BY <1>1, <3>1, <3>2 DEF Execute, OnceInv, AtMostOnce
  <2>3. QED
    BY <1>1, <2>1, <2>2, ExecutedSteps
<1>4. QED
  BY <1>1, <1>2, <1>3, NumberedStep, OwnerNumberedStep, SpentStep DEF OnceInv

\* A mutation is carried out at most once, however often and however late the
\* link delivers it, with a reply cache of one entry.
THEOREM AtMostOnceHolds ==
  ASSUME ManyNumbers
  PROVE  Spec => []AtMostOnce
<1>1. OnceInv /\ [Next]_vars => OnceInv'
  BY OnceNextInv
<1>2. OnceInv => AtMostOnce
  BY DEF OnceInv
<1>3. QED
  BY <1>1, <1>2, OnceInitInv, PTL DEF Spec
=============================================================================
