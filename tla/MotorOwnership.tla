--------------------------- MODULE MotorOwnership ---------------------------
(***************************************************************************)
(* What the lease promises: a motor that has ever been claimed turns only  *)
(* while somebody owns it, and changes hands only at rest.                 *)
(***************************************************************************)
CONSTANTS Sessions, None

VARIABLES
  owner,  \* the session that may operate the motor, or None
  on,     \* the motor is running or being tuned
  local   \* no session has claimed the motor since the last restart

vars == <<owner, on, local>>

Init == owner = None /\ on = FALSE /\ local = TRUE

Claim(s) ==
  /\ owner = None /\ ~on
  /\ owner' = s /\ local' = FALSE
  /\ on' = on

\* The owner leaves, or was silent for too long: the motor stops with it.
Drop ==
  /\ owner # None
  /\ owner' = None /\ on' = FALSE
  /\ local' = local

\* The owner, or the local console before any claim, starts or stops it.
Operate ==
  /\ owner # None \/ local
  /\ on' \in BOOLEAN
  /\ UNCHANGED <<owner, local>>

\* Anybody may stop it, and so may a fault.
Stop == on' = FALSE /\ UNCHANGED <<owner, local>>

Restart == owner' = None /\ on' = FALSE /\ local' = TRUE

Next == (\E s \in Sessions : Claim(s)) \/ Drop \/ Operate \/ Stop \/ Restart

Spec == Init /\ [][Next]_vars

\* No motor under remote control turns without an owner.
DeadMan == on => owner # None \/ local
=============================================================================
