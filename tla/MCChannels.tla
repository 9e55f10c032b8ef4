----------------------------- MODULE MCChannels -----------------------------
(* A small instance of Channels: a line of each kind the UART task tells     *)
(* apart, among them lines with too few, too many and wrong words.           *)
EXTENDS Channels

MCLines ==
  {<<"enable", "current">>, <<"param", "set", "encoder-cpr", "300">>, <<"param", "show">>,
   <<"status">>, <<"open", "1">>, <<"cells", "300">>, <<"disable", "1">>}
=============================================================================
