------------------------- MODULE MCParameterService -------------------------
(* Small instances of ParameterService: a gain inside the ranges of a        *)
(* profile besides the default, one outside, and a stall threshold that lies *)
(* above the current limit an auto-tune leaves.                              *)
EXTENDS ParameterService

CONSTANTS slow, fast, p7, p8

MCDefault == [gain |-> slow, iq |-> 2, limit |-> 2, poles |-> p7]

Request(a) == [action |-> a, field |-> None, value |-> None]
SetRequest(f, v) == [action |-> "set", field |-> f, value |-> v]

\* One request of each kind; the limit is refused while the stall threshold is
\* above it, and None has the type of no field.
LocalOnly ==
  {Request(a) : a \in {"status", "defaults", "load", "save", "reset"}}
    \cup {SetRequest("gain", fast), SetRequest("gain", None),
          SetRequest("limit", 1), SetRequest("poles", p8)}

\* For the transactions: what a sender retries, and what comes in between.
Retried == {Request("save"), Request("status"), SetRequest("gain", fast)}
InBetween == {Request("save"), Request("defaults")}

Nothing == {}
=============================================================================
