------------------------------ MODULE Channels ------------------------------
(***************************************************************************)
(* The communication tasks of firmware/src/comm/tasks.rs and the bounded   *)
(* channels of comm/broker.rs between them and the control task.  The UART *)
(* task tells frames from lines of text, and waits for the answer to what  *)
(* it asked; the CAN tasks do not.  The executor is cooperative: while the *)
(* control task handles its messages no other task runs.  What a message   *)
(* does to the motor is the matter of other modules; here it has a number  *)
(* of turns it has waited.                                                 *)
(***************************************************************************)
EXTENDS CommandLine

CONSTANTS
  CommandSlots,  \* capacity of COMMANDS
  RequestSlots,  \* capacity of PARAMETER_REQUESTS
  ReplySlots,    \* capacity of CAN_PARAMETER_RESPONSES
  Batch,         \* commands, and requests, handled in a turn
  Parameters,    \* how many parameters "param show" asks for
  LineLength,    \* bytes of a line the UART task can hold
  FrameBytes,    \* bytes of a frame
  BodyBytes,     \* the bytes behind the two that open a frame
  Lines,         \* lines of text users send
  FrameKinds     \* kinds of frames that come over the wire

Bytes == {"F", "C", "newline", "text"}

ASSUME ChannelAssumption ==
  /\ CommandSlots \in Nat \ {0} /\ RequestSlots \in Nat \ {0} /\ ReplySlots \in Nat \ {0}
  /\ Batch \in Nat \ {0}
  /\ Parameters \in Nat \ {0}
  /\ LineLength \in Nat \ {0}
  /\ FrameBytes \in Nat /\ FrameBytes > 2
  /\ BodyBytes \subseteq Bytes
  /\ FrameKinds \subseteq {"hello", "request", "other"}

VARIABLES
  sender,        \* what the far end of the UART is sending
  receiver,      \* how the UART task reads bytes
  uart,          \* where the UART task is, and what it asks for
  canReceiver,   \* the message the CAN receiver has read and not yet passed on
  transmitter,   \* the CAN sender waits for something to send, or for the bus
  control,       \* the control task: which messages it handles, how many more
  commands,      \* COMMANDS: the turns each has waited
  requests,      \* PARAMETER_REQUESTS
  uartReplies,   \* UART_PARAMETER_RESPONSES
  canReplies,    \* CAN_PARAMETER_RESPONSES
  wireRequests,  \* WIRE_REQUESTS
  wireReplies    \* WIRE_RESPONSES

bytes == <<sender, receiver>>
queues == <<commands, requests, uartReplies, canReplies, wireRequests, wireReplies>>
vars == <<bytes, uart, canReceiver, transmitter, control, queues>>

Receivers == [binary : BOOLEAN, pending : BOOLEAN, discarding : BOOLEAN, length : 0..LineLength]

Requests == [route : {"uart", "can"}, asking : 0..Parameters, age : Nat]

UartStates ==
  [at : {"read", "command", "request", "reply", "wire", "wire_reply"},
   asking : 0..Parameters, last : 0..Parameters, kind : FrameKinds \cup {"none"}]

TypeOK ==
  /\ sender \in [left : 0..FrameBytes - 1, intact : {"yes", "maybe", "no"}]
  /\ receiver \in Receivers
  /\ uart \in UartStates
  /\ canReceiver \in {"read", "command", "request"}
  /\ transmitter \in {"select", "write"}
  /\ control \in [at : {"wait", "commands", "requests"}, budget : 0..Batch]
  /\ commands \in Seq(Nat) /\ Len(commands) <= CommandSlots
  /\ requests \in Seq(Requests) /\ Len(requests) <= RequestSlots
  /\ uartReplies \in Seq(0..Parameters) /\ Len(uartReplies) <= 1
  /\ canReplies \in Seq(0..Parameters) /\ Len(canReplies) <= ReplySlots
  /\ wireRequests \in Seq(FrameKinds) /\ Len(wireRequests) <= 1
  /\ wireReplies \in Seq(FrameKinds) /\ Len(wireReplies) <= 1

EmptyLine == [binary |-> FALSE, pending |-> FALSE, discarding |-> FALSE, length |-> 0]

Reading == [at |-> "read", asking |-> 0, last |-> 0, kind |-> "none"]

Waiting == control.at = "wait"

Init ==
  /\ sender = [left |-> 0, intact |-> "no"]
  /\ receiver = EmptyLine
  /\ uart = Reading
  /\ canReceiver = "read"
  /\ transmitter = "select"
  /\ control = [at |-> "wait", budget |-> 0]
  /\ commands = <<>> /\ requests = <<>>
  /\ uartReplies = <<>> /\ canReplies = <<>>
  /\ wireRequests = <<>> /\ wireReplies = <<>>

-----------------------------------------------------------------------------
(* Bytes. *)

\* A line too long for the buffer is thrown away up to its end.
Put(r) ==
  IF r.length < LineLength THEN [r EXCEPT !.length = @ + 1]
  ELSE [r EXCEPT !.discarding = TRUE, !.length = 0]

\* An F is held back, since a C behind it opens a frame; any other byte shows
\* that it was text.
Flushed(r) == IF r.pending THEN Put([r EXCEPT !.pending = FALSE]) ELSE r

\* Mutant of Text: the byte that shows the last F to be text is not one itself.
TextForgetful(r, byte) ==
  IF r.pending THEN IF byte = "C" THEN [EmptyLine EXCEPT !.binary = TRUE] ELSE Flushed(r)
  ELSE IF byte = "F" /\ ~r.discarding THEN [r EXCEPT !.pending = TRUE]
  ELSE IF byte = "newline" THEN EmptyLine
  ELSE IF r.discarding THEN r ELSE Put(r)

\* The UART task outside a frame.  A newline ends the line, see TextLine.
Text(r, byte) ==
  LET f == Flushed(r)
  IN IF r.pending /\ byte = "C" THEN [EmptyLine EXCEPT !.binary = TRUE]
     ELSE IF byte = "F" /\ ~f.discarding THEN [f EXCEPT !.pending = TRUE]
     ELSE IF byte = "newline" THEN EmptyLine
     ELSE IF f.discarding THEN f ELSE Put(f)

\* In a frame the bytes go to the decoder.
Read(r, byte) == IF r.binary THEN r ELSE Text(r, byte)

\* What the far end sends next: text while it has no frame under way.
NextByte(byte) ==
  CASE sender.left = FrameBytes - 1 -> byte = "C"
    [] sender.left \in 1..FrameBytes - 2 -> byte \in BodyBytes
    [] OTHER -> byte \in Bytes

\* A frame whose first byte meets a decoder with other bytes in it may be found
\* among them or lost with them.
Opened ==
  IF receiver.binary THEN "maybe" ELSE IF Flushed(receiver).discarding THEN "no" ELSE "yes"

Sent(start) ==
  IF start THEN sender' = [left |-> FrameBytes - 1, intact |-> Opened]
  ELSE sender' = [sender EXCEPT !.left = IF @ = 0 THEN 0 ELSE @ - 1]

\* A line ends; what the task does with it is its next step.
Dispatch(words) ==
  CASE Parse(words) = "command" -> uart' = [Reading EXCEPT !.at = "command"]
    [] Parse(words) = "parameter" ->
         \E p \in 1..Parameters :
           uart' = [Reading EXCEPT !.at = "request", !.asking = p, !.last = p]
    [] Parse(words) = "show" ->
         uart' = [Reading EXCEPT !.at = "request", !.asking = 1, !.last = Parameters]
    [] OTHER -> UNCHANGED uart

TextLine ==
  LET f == Flushed(receiver)
  IN IF f.discarding THEN UNCHANGED uart
     ELSE IF f.length = 0 THEN Dispatch(<<>>)
     ELSE \E words \in Lines : Dispatch(words)

\* A byte that is no frame's last arrives.
ReceiveByte ==
  /\ Waiting /\ uart.at = "read" /\ sender.left # 1
  /\ \E byte \in Bytes, start \in BOOLEAN :
       /\ NextByte(byte)
       /\ start => sender.left = 0 /\ byte = "F"
       /\ Sent(start)
       /\ receiver' = Read(receiver, byte)
       /\ IF byte = "newline" /\ ~receiver.binary THEN TextLine ELSE UNCHANGED uart
  /\ UNCHANGED <<canReceiver, transmitter, control, queues>>

\* The last byte of a frame: the decoder has it all, or some of it was lost.
ReceiveLast ==
  /\ Waiting /\ uart.at = "read" /\ sender.left = 1
  /\ Sent(FALSE)
  /\ \/ /\ receiver.binary /\ sender.intact # "no"
        /\ receiver' = [receiver EXCEPT !.binary = FALSE]
        /\ \E kind \in FrameKinds : uart' = [Reading EXCEPT !.at = "wire", !.kind = kind]
     \/ /\ ~(receiver.binary /\ sender.intact = "yes")
        /\ \E byte \in BodyBytes :
             /\ receiver' = Read(receiver, byte)
             /\ IF byte = "newline" /\ ~receiver.binary THEN TextLine ELSE UNCHANGED uart
  /\ UNCHANGED <<canReceiver, transmitter, control, queues>>

\* A byte of a frame is lost, by an error of the UART or because the task does
\* not read while it waits for somebody.
LoseByte ==
  /\ sender' = [left |-> IF sender.left = 0 THEN FrameBytes - 1 ELSE sender.left - 1,
                intact |-> "no"]
  /\ UNCHANGED <<receiver, uart, canReceiver, transmitter, control, queues>>

\* 100 ms without a byte end a frame.  Senders write a frame in one piece.
Pause ==
  /\ Waiting /\ uart.at = "read" /\ sender.left = 0 /\ receiver.binary
  /\ receiver' = [receiver EXCEPT !.binary = FALSE]
  /\ UNCHANGED <<sender, uart, canReceiver, transmitter, control, queues>>

-----------------------------------------------------------------------------
(* The UART task behind a line or a frame. *)

\* send_command: the task waits for room, then answers "ok".
UartCommand ==
  /\ Waiting /\ uart.at = "command" /\ Len(commands) < CommandSlots
  /\ commands' = Append(commands, 0)
  /\ uart' = Reading
  /\ UNCHANGED <<bytes, canReceiver, transmitter, control,
                 requests, uartReplies, canReplies, wireRequests, wireReplies>>

UartRequest ==
  /\ Waiting /\ uart.at = "request" /\ Len(requests) < RequestSlots
  /\ requests' = Append(requests, [route |-> "uart", asking |-> uart.asking, age |-> 0])
  /\ uart' = [uart EXCEPT !.at = "reply"]
  /\ UNCHANGED <<bytes, canReceiver, transmitter, control,
                 commands, uartReplies, canReplies, wireRequests, wireReplies>>

\* Mutant of NextQuestion: "param show" asks for the next one at once.
NextQuestionEager ==
  IF uart.asking < uart.last THEN [uart EXCEPT !.asking = @ + 1] ELSE Reading

\* "param show" asks for one parameter after the other.
NextQuestion ==
  IF uart.asking < uart.last THEN [uart EXCEPT !.at = "request", !.asking = @ + 1] ELSE Reading

UartReply ==
  /\ Waiting /\ uart.at = "reply" /\ uartReplies # <<>>
  /\ uartReplies' = Tail(uartReplies)
  /\ uart' = NextQuestion
  /\ UNCHANGED <<bytes, canReceiver, transmitter, control,
                 commands, requests, canReplies, wireRequests, wireReplies>>

UartFrame ==
  /\ Waiting /\ uart.at = "wire" /\ wireRequests = <<>>
  /\ wireRequests' = <<uart.kind>>
  /\ uart' = [uart EXCEPT !.at = "wire_reply"]
  /\ UNCHANGED <<bytes, canReceiver, transmitter, control,
                 commands, requests, uartReplies, canReplies, wireReplies>>

UartFrameReply ==
  /\ Waiting /\ uart.at = "wire_reply" /\ wireReplies # <<>>
  /\ wireReplies' = Tail(wireReplies)
  /\ uart' = Reading
  /\ UNCHANGED <<bytes, canReceiver, transmitter, control,
                 commands, requests, uartReplies, canReplies, wireRequests>>

-----------------------------------------------------------------------------
(* The CAN tasks. *)

CanFrame ==
  /\ Waiting /\ canReceiver = "read"
  /\ canReceiver' \in {"command", "request"}
  /\ UNCHANGED <<bytes, uart, transmitter, control, queues>>

CanCommand ==
  /\ Waiting /\ canReceiver = "command" /\ Len(commands) < CommandSlots
  /\ commands' = Append(commands, 0)
  /\ canReceiver' = "read"
  /\ UNCHANGED <<bytes, uart, transmitter, control,
                 requests, uartReplies, canReplies, wireRequests, wireReplies>>

CanRequest ==
  /\ Waiting /\ canReceiver = "request" /\ Len(requests) < RequestSlots
  /\ requests' = Append(requests, [route |-> "can", asking |-> 0, age |-> 0])
  /\ canReceiver' = "read"
  /\ UNCHANGED <<bytes, uart, transmitter, control,
                 commands, uartReplies, canReplies, wireRequests, wireReplies>>

\* An answer that waits, or after 10 ms the telemetry, goes to the bus, which
\* may take its time.
CanTransmit ==
  /\ Waiting /\ transmitter = "select"
  /\ transmitter' = "write"
  /\ canReplies' = IF canReplies = <<>> THEN <<>> ELSE Tail(canReplies)
  /\ UNCHANGED <<bytes, uart, canReceiver, control,
                 commands, requests, uartReplies, wireRequests, wireReplies>>

CanTransmitted ==
  /\ Waiting /\ transmitter = "write"
  /\ transmitter' = "select"
  /\ UNCHANGED <<bytes, uart, canReceiver, control, queues>>

-----------------------------------------------------------------------------
(* The control task. *)

\* Mutant of TrySend: it makes room.
TrySendUnbounded(queue, message, slots) == Append(queue, message)

\* try_send: a message for which there is no room is dropped.
TrySend(queue, message, slots) == IF Len(queue) < slots THEN Append(queue, message) ELSE queue

\* HELLO and REQUEST are answered, with a refusal if need be; frames of other
\* kinds, which the decoder lets through, are dropped.
Answered(kind) == kind \in {"hello", "request"}

\* A turn begins with the frame that waits.
ControlFrame ==
  /\ Waiting
  /\ control' = [at |-> "commands", budget |-> Batch]
  /\ IF wireRequests = <<>> THEN UNCHANGED <<wireRequests, wireReplies>>
     ELSE /\ wireRequests' = Tail(wireRequests)
          /\ wireReplies' = IF Answered(Head(wireRequests))
                            THEN TrySend(wireReplies, Head(wireRequests), 1) ELSE wireReplies
  /\ UNCHANGED <<bytes, uart, canReceiver, transmitter, commands, requests, uartReplies, canReplies>>

\* Mutant of TakeCommand: one command a turn.
TakeOneCommand ==
  /\ control.at = "commands" /\ control.budget > 0 /\ commands # <<>>
  /\ control' = [control EXCEPT !.budget = 0]
  /\ commands' = Tail(commands)
  /\ UNCHANGED <<bytes, uart, canReceiver, transmitter,
                 requests, uartReplies, canReplies, wireRequests, wireReplies>>

TakeCommand ==
  /\ control.at = "commands" /\ control.budget > 0 /\ commands # <<>>
  /\ control' = [control EXCEPT !.budget = @ - 1]
  /\ commands' = Tail(commands)
  /\ UNCHANGED <<bytes, uart, canReceiver, transmitter,
                 requests, uartReplies, canReplies, wireRequests, wireReplies>>

EndCommands ==
  /\ control.at = "commands" /\ (control.budget = 0 \/ commands = <<>>)
  /\ control' = [at |-> "requests", budget |-> Batch]
  /\ commands' = [i \in DOMAIN commands |-> commands[i] + 1]
  /\ UNCHANGED <<bytes, uart, canReceiver, transmitter,
                 requests, uartReplies, canReplies, wireRequests, wireReplies>>

\* Mutant of Publish: the control task waits for room.
PublishWaiting(request) ==
  IF request.route = "uart"
  THEN /\ uartReplies' = TrySend(uartReplies, request.asking, 1)
       /\ canReplies' = canReplies
  ELSE /\ Len(canReplies) < ReplySlots
       /\ canReplies' = Append(canReplies, request.asking)
       /\ uartReplies' = uartReplies

\* publish_parameter_response.
Publish(request) ==
  IF request.route = "uart"
  THEN /\ uartReplies' = TrySend(uartReplies, request.asking, 1)
       /\ canReplies' = canReplies
  ELSE /\ canReplies' = TrySend(canReplies, request.asking, ReplySlots)
       /\ uartReplies' = uartReplies

TakeRequest ==
  /\ control.at = "requests" /\ control.budget > 0 /\ requests # <<>>
  /\ control' = [control EXCEPT !.budget = @ - 1]
  /\ requests' = Tail(requests)
  /\ Publish(Head(requests))
  /\ UNCHANGED <<bytes, uart, canReceiver, transmitter, commands, wireRequests, wireReplies>>

\* Then the task waits for a frame of the ADC, 100 us at most.
EndTurn ==
  /\ control.at = "requests" /\ (control.budget = 0 \/ requests = <<>>)
  /\ control' = [at |-> "wait", budget |-> 0]
  /\ requests' = [i \in DOMAIN requests |-> [requests[i] EXCEPT !.age = @ + 1]]
  /\ UNCHANGED <<bytes, uart, canReceiver, transmitter,
                 commands, uartReplies, canReplies, wireRequests, wireReplies>>

-----------------------------------------------------------------------------

UartTask == UartCommand \/ UartRequest \/ UartReply \/ UartFrame \/ UartFrameReply

Control == ControlFrame \/ TakeCommand \/ EndCommands \/ TakeRequest \/ EndTurn

Next ==
  \/ ReceiveByte \/ ReceiveLast \/ LoseByte \/ Pause
  \/ UartTask
  \/ CanFrame \/ CanCommand \/ CanRequest \/ CanTransmit \/ CanTransmitted
  \/ Control

\* The control task runs whenever its frame or its timer comes.  A task that has
\* been woken is polled before the control task's next turn, and a CAN bus at
\* 500 kbit/s cannot fill the places a turn has freed before the UART task is
\* polled: what is possible for it again and again happens.
Fairness == WF_vars(Control) /\ SF_vars(UartTask)

Spec == Init /\ [][Next]_vars /\ Fairness

-----------------------------------------------------------------------------
(* Properties. *)

\* The requests of the UART task among those that wait.
OfUart(queue) == {i \in DOMAIN queue : queue[i].route = "uart"}

\* While the UART task waits for the answer to a parameter request or to a
\* frame, either its question or the answer to just that question is on its way,
\* and nothing else of it; while it does not wait nothing is.  So the channels
\* with one place never drop an answer, and no answer is taken for another's,
\* whatever the CAN tasks ask meanwhile.  A frame of a kind nobody answers is the
\* exception: the task waits for ever.
AnswersMatchQuestions ==
  /\ IF uart.at = "reply"
     THEN \/ uartReplies = <<uart.asking>> /\ OfUart(requests) = {}
          \/ /\ uartReplies = <<>>
             /\ \E i \in DOMAIN requests :
                  OfUart(requests) = {i} /\ requests[i].asking = uart.asking
     ELSE uartReplies = <<>> /\ OfUart(requests) = {}
  /\ IF uart.at = "wire_reply"
     THEN \/ wireRequests = <<uart.kind>> /\ wireReplies = <<>>
          \/ wireReplies = <<uart.kind>> /\ wireRequests = <<>>
          \/ wireRequests = <<>> /\ wireReplies = <<>> /\ uart.kind = "other"
     ELSE wireRequests = <<>> /\ wireReplies = <<>>

\* A message that has found room waits a bounded number of turns, a stop behind
\* fifteen other commands four of them, however many messages the tasks send.
MessagesArePrompt ==
  /\ \A i \in DOMAIN commands : commands[i] * Batch < CommandSlots
  /\ \A i \in DOMAIN requests : requests[i].age * Batch < RequestSlots

\* A frame that arrives whole goes to the control task, whatever text came
\* before it, half a line or an F included; only a line that is too long and has
\* not ended swallows it.
FramesAreDelivered ==
  [][sender.left = 1 /\ sender'.left = 0 /\ sender'.intact = "yes" => uart'.at = "wire"]_vars

\* The UART task always gets back to reading, but for a frame of a kind nobody
\* answers, although the CAN bus may be blocked and CAN requests keep coming.
LinesAreAnswered ==
  uart.at # "read" ~> (uart.at = "read" \/ (uart.at = "wire_reply" /\ uart.kind = "other"))
=============================================================================
