---------------------------- MODULE CommandLine ----------------------------
(***************************************************************************)
(* What a line of text asks of the controller: parse_uart_request of       *)
(* firmware/src/comm/uart.rs.  A line is the sequence of its words; of the *)
(* numbers and the parameters there are a few of each type.                *)
(***************************************************************************)
EXTENDS Integers, Sequences, FiniteSetsExt

\* Words that are numbers of each type.  A float that is not finite ("nan") is
\* none, a number too large for its type neither.
Numbers == [u8 |-> {"1"}, i8 |-> {"1", "-1"}, u16 |-> {"1", "300"},
            f32 |-> {"1", "-1", "300", "1.5"}]

\* One parameter of each type.
ParameterNames == {"sensor-direction", "encoder-cpr", "battery-cells", "current-kp"}

\* ParameterId::kind.
Kinds ==
  [name \in ParameterNames |->
     CASE name = "sensor-direction" -> "i8" [] name = "encoder-cpr" -> "u16"
       [] name = "battery-cells" -> "u8" [] OTHER -> "f32"]

Alone == {"disable", "clear", "clear-fault", "status"}

\* The arguments the words call for: at each place the words that are accepted.
ParameterArguments(words) ==
  LET action == IF Len(words) >= 2 THEN words[2] ELSE "none"
      named == Len(words) >= 3 /\ words[3] \in ParameterNames
      actions == {"get", "set", "status", "save", "load", "defaults", "factory-reset", "show"}
  IN <<actions>> \o (IF action \in {"get", "set"} THEN <<ParameterNames>> ELSE <<>>)
                 \o (IF action = "set" /\ named THEN <<Numbers[Kinds[words[3]]]>> ELSE <<>>)

Arguments(words) ==
  LET first == words[1]
      float == Numbers.f32
  IN CASE first \in {"enable", "mode"} -> <<{"open", "current", "velocity"}>>
       [] first \in Alone -> <<>>
       [] first \in {"iq", "velocity", "zero"} -> <<float>>
       [] first = "open" -> <<float, float>>
       [] first = "cells" -> <<Numbers.u8>>
       [] first \in {"current-pid", "velocity-pid"} -> <<float, float, float, float, float>>
       [] first = "param" -> ParameterArguments(words)
       [] first = "autotune" -> <<{"start", "stop", "status"}>>

Commands == {"enable", "mode", "iq", "velocity", "zero", "open", "cells", "current-pid",
             "velocity-pid", "param", "autotune"} \cup Alone

\* The first argument that is missing or wrong decides the error; words behind
\* the last argument are one more.
ErrorOf(words) ==
  IF words = <<>> THEN "empty"
  ELSE IF words[1] \notin Commands THEN "unknown"
  ELSE LET places == Arguments(words)
           wrong == {i \in DOMAIN places : i >= Len(words) \/ words[i + 1] \notin places[i]}
       IN IF wrong # {} THEN IF Min(wrong) >= Len(words) THEN "missing" ELSE "invalid"
          ELSE IF Len(words) > Len(places) + 1 THEN "extra" ELSE "none"

\* Which arm of uart_task takes the line.
Parse(words) ==
  IF ErrorOf(words) # "none" THEN "error"
  ELSE CASE words[1] = "status" -> "status"
         [] words = <<"autotune", "status">> -> "status"
         [] words = <<"param", "show">> -> "show"
         [] words[1] = "param" -> "parameter"
         [] OTHER -> "command"
=============================================================================
