---------------------------- MODULE MCFocHistory ----------------------------
(* Small instances of FocHistory. *)
EXTENDS FocHistory

\* An idle phase, a residual and an over-current.
SomeReadings == {<<"low", FALSE>>, <<"mid", TRUE>>, <<"over", FALSE>>}
=============================================================================
