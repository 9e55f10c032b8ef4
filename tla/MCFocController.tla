--------------------------- MODULE MCFocController ---------------------------
(***************************************************************************)
(* Small instances of FocController.  Voltages are quarters of a volt: 20  *)
(* is under the limits of 2 cells (24..34), 30 inside them and under those *)
(* of 3 cells (36..51), 40 above the former and inside the latter.         *)
(***************************************************************************)
EXTENDS FocController

\* An idle phase or an over-current.
FewReadings == {<<"low", FALSE>>, <<"over", FALSE>>}
=============================================================================
