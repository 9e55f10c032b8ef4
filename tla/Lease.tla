------------------------------- MODULE Lease -------------------------------
(***************************************************************************)
(* The control lease of foc-wire/src/lib.rs as functions on a record: who  *)
(* owns the motor, until when, the last request number accepted, and the   *)
(* retired sessions that may not come back while permits they could have   *)
(* used are still fresh.  Times are milliseconds of device uptime.         *)
(***************************************************************************)
EXTENDS Integers, FiniteSets

CONSTANTS
  Sessions,     \* session numbers, zero excluded
  None,         \* no owner
  LeaseMs,      \* lifetime of a lease after a claim or a heartbeat
  PermitMs,     \* lifetime of the permit a request carries
  RetiredSlots, \* how many retired sessions are remembered
  SequenceMod,  \* request numbers wrap at this modulus (2^32)
  PermitMod     \* permits are the uptime truncated to this modulus (2^32)

ASSUME LeaseAssumption ==
  /\ None \notin Sessions
  /\ LeaseMs \in Nat \ {0} /\ PermitMs \in Nat \ {0}
  /\ RetiredSlots \in Nat \ {0}
  /\ SequenceMod \in Nat \ {0} /\ PermitMod \in Nat \ {0}
  /\ PermitMs < PermitMod

RetiredEntries == [session : Sessions, until : Nat]

Leases == [owner : Sessions \cup {None}, expires : Nat, sequence : 0..SequenceMod - 1,
           remote : BOOLEAN, retired : SUBSET RetiredEntries]

NewLease == [owner |-> None, expires |-> 0, sequence |-> 0, remote |-> FALSE, retired |-> {}]

Expired(l, now) == l.owner # None /\ now >= l.expires

\* The owner is retired until every permit issued before its lease ran out has
\* aged away; with no slot free it would be forgotten.
Release(l) ==
  IF l.owner = None THEN l
  ELSE [l EXCEPT !.owner = None,
                 !.retired = IF Cardinality(@) < RetiredSlots
                             THEN @ \cup {[session |-> l.owner, until |-> l.expires + PermitMs]}
                             ELSE @]

\* Mutant of FreshPermit: a permit lives a millisecond longer.
FreshPermitInclusive(f, now) == ((now % PermitMod) - f.permit) % PermitMod <= PermitMs

\* Age of a permit in wrapping arithmetic.
FreshPermit(f, now) == ((now % PermitMod) - f.permit) % PermitMod < PermitMs

Credential(f, boot, now) == now < PermitMod /\ f.boot = boot /\ FreshPermit(f, now)

Purge(l, now) == [l EXCEPT !.retired = {e \in @ : now < e.until}]

\* Mutants of MayClaim: retired sessions come back, or are not counted.
MayClaimRetired(l, f, boot, now) ==
  /\ Credential(f, boot, now)
  /\ l.owner = None
  /\ Cardinality(Purge(l, now).retired) < RetiredSlots
MayClaimCrowded(l, f, boot, now) ==
  /\ Credential(f, boot, now)
  /\ l.owner = None
  /\ \A e \in Purge(l, now).retired : e.session # f.session

MayClaim(l, f, boot, now) ==
  /\ Credential(f, boot, now)
  /\ l.owner = None
  /\ \A e \in Purge(l, now).retired : e.session # f.session
  /\ Cardinality(Purge(l, now).retired) < RetiredSlots

\* A claim that reaches the retired list purges it even when it is refused.
Refuse(l, f, boot, now) ==
  IF Credential(f, boot, now) /\ l.owner = None THEN Purge(l, now) ELSE l

Claim(l, f, now) ==
  [Purge(l, now) EXCEPT !.owner = f.session, !.expires = now + LeaseMs,
                        !.sequence = f.sequence, !.remote = TRUE]

\* Mutant of InSequence: the last number is accepted again.
NotBehind(l, f) == 2 * ((f.sequence - l.sequence) % SequenceMod) < SequenceMod

InSequence(l, f) ==
  LET distance == (f.sequence - l.sequence) % SequenceMod
  IN distance # 0 /\ 2 * distance < SequenceMod

MayAct(l, f, boot, now) ==
  /\ Credential(f, boot, now)
  /\ l.owner = f.session
  /\ now < l.expires
  /\ InSequence(l, f)

Authorize(l, f) == [l EXCEPT !.sequence = f.sequence]

\* Mutant of Heartbeat: a lease is added to what is left of the last one.
HeartbeatAdding(l, f, now) == [Authorize(l, f) EXCEPT !.expires = @ + LeaseMs]

Heartbeat(l, f, now) == [Authorize(l, f) EXCEPT !.expires = now + LeaseMs]
=============================================================================
