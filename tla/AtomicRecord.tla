---------------------------- MODULE AtomicRecord ----------------------------
(***************************************************************************)
(* What the dual-slot store promises of one persisted record: it changes   *)
(* only to the value of the save under way, at one instant; a save that    *)
(* reports success has stored its value; a loss of power loses nothing.    *)
(***************************************************************************)
CONSTANTS Profiles, NoProfile

VARIABLES
  stored,  \* the value a boot would load, or NoProfile
  pending, \* the value being saved, or NoProfile
  reply    \* outcome of the last save of this boot

vars == <<stored, pending, reply>>

Init == stored = NoProfile /\ pending = NoProfile /\ reply = "none"

Begin(p) ==
  /\ pending = NoProfile
  /\ pending' = p /\ reply' = "none"
  /\ stored' = stored

\* A save of the stored value may be answered without a write.
Same(p) ==
  /\ pending = NoProfile
  /\ stored = p
  /\ reply' = "unchanged"
  /\ UNCHANGED <<stored, pending>>

Refuse == pending = NoProfile /\ reply' = "failed" /\ UNCHANGED <<stored, pending>>

Store ==
  /\ pending # NoProfile
  /\ stored' = pending
  /\ UNCHANGED <<pending, reply>>

\* A failed save may have stored its value or not; a successful one has.
Succeed ==
  /\ pending # NoProfile /\ stored = pending
  /\ pending' = NoProfile /\ reply' = "saved"
  /\ stored' = stored

Fail ==
  /\ pending # NoProfile
  /\ stored' \in {stored, pending}
  /\ pending' = NoProfile /\ reply' = "failed"

Crash ==
  /\ stored' \in {stored} \cup ({pending} \ {NoProfile})
  /\ pending' = NoProfile /\ reply' = "none"

Next ==
  \/ \E p \in Profiles : Begin(p) \/ Same(p)
  \/ Refuse \/ Store \/ Succeed \/ Fail \/ Crash

Spec == Init /\ [][Next]_vars
=============================================================================
