---------------------------- MODULE MCMotorTask ----------------------------
(* Small instances of MotorTask. *)
EXTENDS MotorTask

\* An idle phase, one that carries current, and an over-current.
SomeReadings == {<<"low", FALSE>>, <<"mid", FALSE>>, <<"over", FALSE>>}
\* Idle phases only.
QuietReadings == {<<"low", FALSE>>}
=============================================================================
