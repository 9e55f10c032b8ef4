--------------------------- MODULE ChannelsProofs ---------------------------
(***************************************************************************)
(* Theorems about Channels, for every capacity, batch and line.            *)
(***************************************************************************)
EXTENDS Channels, TLAPS

-----------------------------------------------------------------------------
(* The inductive invariant. *)

\* A command at place i that has waited a number of turns came with at most
\* CommandSlots - i before it, and every turn takes a batch of them.
Taken(where) == IF control.at = where THEN Batch - control.budget ELSE 0

Prompt(ages, slots, taken) == \A i \in DOMAIN ages : ages[i] * Batch + i + taken <= slots

AgesOf(queue) == [i \in DOMAIN queue |-> queue[i].age]

CommandAges == Prompt(commands, CommandSlots, Taken("commands"))

RequestAges == Prompt(AgesOf(requests), RequestSlots, Taken("requests"))

\* What the UART task is at is what it asks about.
Asking ==
  /\ uart.at \in {"request", "reply"} => uart.asking \in 1..Parameters
  /\ uart.at \in {"wire", "wire_reply"} => uart.kind \in FrameKinds

IInv == TypeOK /\ AnswersMatchQuestions /\ Asking /\ CommandAges /\ RequestAges

-----------------------------------------------------------------------------
(* Facts about the operators. *)

\* Multiplication by the batch distributes over a turn.
LEMMA Distributes == \A a, b \in Nat : (a + 1) * b = a * b + b
  OBVIOUS

LEMMA ProductIsNat == \A a, b \in Nat : a * b \in Nat
  OBVIOUS

\* An appended message is the last, a taken one was the first.
LEMMA AppendFacts ==
  ASSUME NEW S, NEW q \in Seq(S), NEW m \in S
  PROVE  /\ DOMAIN q = 1..Len(q) /\ Len(q) \in Nat
         /\ Len(Append(q, m)) = Len(q) + 1 /\ DOMAIN Append(q, m) = 1..Len(q) + 1
         /\ Len(q) + 1 \in DOMAIN Append(q, m) /\ Append(q, m)[Len(q) + 1] = m
         /\ \A i \in DOMAIN q : i \in DOMAIN Append(q, m) /\ Append(q, m)[i] = q[i]
<1>1. Len(q) \in Nat /\ DOMAIN q = 1..Len(q) /\ Len(Append(q, m)) = Len(q) + 1
  OBVIOUS
<1>2. DOMAIN Append(q, m) = 1..Len(q) + 1 /\ Append(q, m)[Len(q) + 1] = m
  OBVIOUS
<1>3. \A i \in 1..Len(q) : Append(q, m)[i] = q[i]
  OBVIOUS
<1>4. Len(q) + 1 \in 1..Len(q) + 1 /\ \A i \in 1..Len(q) : i \in 1..Len(q) + 1
  BY <1>1
<1> QED
  BY <1>1, <1>2, <1>3, <1>4

LEMMA TailFacts ==
  ASSUME NEW S, NEW q \in Seq(S), q # <<>>
  PROVE  /\ DOMAIN q = 1..Len(q) /\ Len(q) \in Nat /\ 1 \in DOMAIN q /\ Head(q) = q[1]
         /\ DOMAIN Tail(q) = 1..Len(q) - 1
         /\ \A i \in DOMAIN Tail(q) : i + 1 \in DOMAIN q /\ Tail(q)[i] = q[i + 1]
<1>1. DOMAIN q = 1..Len(q) /\ Len(q) \in Nat /\ Len(q) >= 1 /\ Head(q) = q[1]
  OBVIOUS
<1>2. DOMAIN Tail(q) = 1..Len(q) - 1 /\ \A i \in 1..Len(q) - 1 : Tail(q)[i] = q[i + 1]
  OBVIOUS
<1>3. 1 \in 1..Len(q) /\ \A i \in 1..Len(q) - 1 : i + 1 \in 1..Len(q)
  BY <1>1
<1> QED
  BY <1>1, <1>2, <1>3

\* A byte that is put away, and the F before it, leave the task in or out of a
\* frame as it was.
LEMMA PutFacts ==
  ASSUME NEW r \in Receivers
  PROVE  Put(r) \in Receivers /\ Put(r).binary = r.binary
<1>1. LineLength \in Nat /\ 0 \in 0..LineLength
  BY ChannelAssumption
<1>2. r.length \in 0..LineLength
  BY DEF Receivers
<1>3. r.length < LineLength => r.length + 1 \in 0..LineLength
  BY <1>1, <1>2
<1> QED
  BY <1>1, <1>3 DEF Put, Receivers

LEMMA FlushedFacts ==
  ASSUME NEW r \in Receivers
  PROVE  Flushed(r) \in Receivers /\ Flushed(r).binary = r.binary
<1>1. LET q == [r EXCEPT !.pending = FALSE] IN q \in Receivers /\ q.binary = r.binary
  BY DEF Receivers
<1> QED
  BY <1>1, PutFacts DEF Flushed

\* Reading a byte keeps the receiver in its type.
LEMMA ReadType ==
  ASSUME NEW r \in Receivers, NEW byte
  PROVE  Read(r, byte) \in Receivers
<1> DEFINE f == Flushed(r)
<1>1. f \in Receivers
  BY FlushedFacts
<1>2. EmptyLine \in Receivers /\ [EmptyLine EXCEPT !.binary = TRUE] \in Receivers
  <2>1. 0 \in 0..LineLength
    BY ChannelAssumption
  <2> QED
    BY <2>1 DEF EmptyLine, Receivers
<1>3. [f EXCEPT !.pending = TRUE] \in Receivers
  BY <1>1 DEF Receivers
<1> HIDE DEF f
<1>4. Put(f) \in Receivers
  BY <1>1, PutFacts
<1>5. Text(r, byte) \in Receivers
  BY <1>1, <1>2, <1>3, <1>4 DEF Text, f
<1> QED
  BY <1>5 DEF Read

\* A line leaves the task where it is, or takes it to a command or a request.
LEMMA DispatchFacts ==
  ASSUME NEW words, Dispatch(words), uart \in UartStates
  PROVE  /\ uart' \in UartStates
         /\ uart' = uart \/ uart'.at \in {"command", "request"}
         /\ uart'.at = "request" => uart' = uart \/ uart'.asking \in 1..Parameters
<1>0. 0 \in 0..Parameters /\ \A p \in 1..Parameters : p \in 0..Parameters
  BY ChannelAssumption
<1>1. Reading \in UartStates
  BY <1>0 DEF Reading, UartStates
<1>2. 1 \in 1..Parameters /\ Parameters \in 1..Parameters
  BY ChannelAssumption
<1>3. \/ uart' = uart
      \/ uart' = [Reading EXCEPT !.at = "command"]
      \/ \E p \in 1..Parameters :
           uart' = [Reading EXCEPT !.at = "request", !.asking = p, !.last = p]
      \/ uart' = [Reading EXCEPT !.at = "request", !.asking = 1, !.last = Parameters]
  BY DEF Dispatch
<1>4. CASE uart' = uart
  BY <1>4
<1>5. CASE uart' = [Reading EXCEPT !.at = "command"]
  BY <1>1, <1>5 DEF UartStates
<1>6. CASE \E p \in 1..Parameters :
             uart' = [Reading EXCEPT !.at = "request", !.asking = p, !.last = p]
  BY <1>0, <1>1, <1>6 DEF UartStates
<1>7. CASE uart' = [Reading EXCEPT !.at = "request", !.asking = 1, !.last = Parameters]
  BY <1>0, <1>1, <1>2, <1>7 DEF UartStates
<1> QED
  BY <1>3, <1>4, <1>5, <1>6, <1>7

LEMMA TextLineFacts ==
  ASSUME TextLine, uart \in UartStates
  PROVE  /\ uart' \in UartStates
         /\ uart' = uart \/ uart'.at \in {"command", "request"}
         /\ uart'.at = "request" => uart' = uart \/ uart'.asking \in 1..Parameters
<1>1. uart' = uart \/ \E words : Dispatch(words)
  BY DEF TextLine
<1> QED
  BY <1>1, DispatchFacts

\* Places of the UART's requests when one is added, taken, or grows older.
LEMMA OfUartAppend ==
  ASSUME NEW q \in Seq(Requests), NEW r \in Requests
  PROVE  OfUart(Append(q, r)) = OfUart(q) \cup (IF r.route = "uart" THEN {Len(q) + 1} ELSE {})
  BY DEF OfUart

LEMMA OfUartTail ==
  ASSUME NEW q \in Seq(Requests), q # <<>>
  PROVE  /\ OfUart(q) = {} => OfUart(Tail(q)) = {} /\ Head(q).route = "can"
         /\ \A i \in DOMAIN q : OfUart(q) = {i} =>
              IF i = 1 THEN OfUart(Tail(q)) = {} /\ Head(q).route = "uart"
              ELSE /\ OfUart(Tail(q)) = {i - 1} /\ Head(q).route = "can"
                   /\ i - 1 \in DOMAIN Tail(q) /\ Tail(q)[i - 1] = q[i]
<1>1. Len(q) \in Nat /\ Len(q) >= 1 /\ DOMAIN q = 1..Len(q) /\ Head(q) = q[1]
  OBVIOUS
<1>2. DOMAIN Tail(q) = 1..Len(q) - 1 /\ \A i \in 1..Len(q) - 1 : Tail(q)[i] = q[i + 1]
  OBVIOUS
<1>3. \A i \in DOMAIN q : q[i].route \in {"uart", "can"}
  <2>1. \A i \in DOMAIN q : q[i] \in Requests
    OBVIOUS
  <2> QED
    BY <2>1 DEF Requests
<1>4. OfUart(Tail(q)) = {i \in 1..Len(q) - 1 : q[i + 1].route = "uart"}
  BY <1>2 DEF OfUart
<1>5. ASSUME OfUart(q) = {}
      PROVE  OfUart(Tail(q)) = {} /\ Head(q).route = "can"
  BY <1>1, <1>3, <1>4, <1>5 DEF OfUart
<1>6. ASSUME NEW i \in DOMAIN q, OfUart(q) = {i}
      PROVE  IF i = 1 THEN OfUart(Tail(q)) = {} /\ Head(q).route = "uart"
             ELSE /\ OfUart(Tail(q)) = {i - 1} /\ Head(q).route = "can"
                  /\ i - 1 \in DOMAIN Tail(q) /\ Tail(q)[i - 1] = q[i]
  <2>1. \A j \in DOMAIN q : q[j].route = "uart" <=> j = i
    BY <1>6 DEF OfUart
  <2>2. CASE i = 1
    BY <1>1, <1>4, <2>1, <2>2
  <2>3. CASE i # 1
    <3>1. i - 1 \in 1..Len(q) - 1 /\ (i - 1) + 1 = i
      BY <1>1, <2>3
    <3>2. \A j \in 1..Len(q) - 1 : q[j + 1].route = "uart" <=> j = i - 1
      BY <1>1, <2>1
    <3>3. OfUart(Tail(q)) = {i - 1}
      BY <1>4, <3>1, <3>2
    <3> QED
      BY <1>1, <1>2, <1>3, <2>1, <2>3, <3>1, <3>3
  <2> QED
    BY <2>2, <2>3
<1> QED
  BY <1>5, <1>6

\* Requests that have waited another turn.
Aged(q) == [i \in DOMAIN q |-> [q[i] EXCEPT !.age = @ + 1]]

LEMMA OfUartAged ==
  ASSUME NEW q \in Seq(Requests),
         NEW s, s = Aged(q)
  PROVE  /\ s \in Seq(Requests) /\ Len(s) = Len(q) /\ DOMAIN s = DOMAIN q
         /\ OfUart(s) = OfUart(q)
         /\ \A i \in DOMAIN q : s[i].asking = q[i].asking /\ s[i].age = q[i].age + 1
<1> USE DEF Aged
<1>1. \A i \in DOMAIN q : q[i] \in Requests
  OBVIOUS
<1>2. ASSUME NEW i \in DOMAIN q
      PROVE  /\ s[i] \in Requests /\ s[i].route = q[i].route
             /\ s[i].asking = q[i].asking /\ s[i].age = q[i].age + 1
  <2>1. s[i] = [q[i] EXCEPT !.age = q[i].age + 1]
    OBVIOUS
  <2>2. q[i] \in Requests /\ q[i].age + 1 \in Nat
    BY <1>1 DEF Requests
  <2> QED
    BY <2>1, <2>2 DEF Requests
<1>3. s \in Seq(Requests) /\ Len(s) = Len(q) /\ DOMAIN s = DOMAIN q
  <2>1. DOMAIN q = 1..Len(q) /\ Len(q) \in Nat
    OBVIOUS
  <2>2. s \in [1..Len(q) -> Requests]
    BY <1>2, <2>1
  <2> QED
    BY <2>1, <2>2
<1> QED
  BY <1>2, <1>3 DEF OfUart

\* Reading states the task returns to.
LEMMA ReadingType == Reading \in UartStates /\ Reading.at = "read"
<1>1. 0 \in 0..Parameters
  BY ChannelAssumption
<1> QED
  BY <1>1 DEF Reading, UartStates

\* Messages of a full queue are dropped, the others are the last of it.
LEMMA TrySendType ==
  ASSUME NEW S, NEW q \in Seq(S), NEW m \in S, NEW slots \in Nat \ {0}, Len(q) <= slots
  PROVE  /\ TrySend(q, m, slots) \in Seq(S)
         /\ Len(TrySend(q, m, slots)) <= slots
         /\ q = <<>> => TrySend(q, m, slots) = <<m>>
<1>1. Append(q, m) \in Seq(S) /\ Len(Append(q, m)) = Len(q) + 1 /\ Len(q) \in Nat
  OBVIOUS
<1>2. q = <<>> => Append(q, m) = <<m>> /\ Len(q) < slots
  OBVIOUS
<1> QED
  BY <1>1, <1>2 DEF TrySend

-----------------------------------------------------------------------------
(* Type correctness. *)

LEMMA TypeInit == Init => TypeOK
<1> SUFFICES ASSUME Init PROVE TypeOK
  OBVIOUS
<1>1. /\ 0 \in 0..LineLength /\ 0 \in 0..Batch /\ 0 \in 0..FrameBytes - 1
  BY ChannelAssumption
<1>2. receiver \in Receivers
  BY <1>1 DEF Init, EmptyLine, Receivers
<1>3. /\ <<>> \in Seq(Nat) /\ <<>> \in Seq(Requests) /\ <<>> \in Seq(0..Parameters)
      /\ <<>> \in Seq(FrameKinds) /\ Len(<<>>) = 0
  OBVIOUS
<1>4. sender \in [left : 0..FrameBytes - 1, intact : {"yes", "maybe", "no"}]
  BY <1>1 DEF Init
<1>5. control \in [at : {"wait", "commands", "requests"}, budget : 0..Batch]
  BY <1>1 DEF Init
<1>6. /\ Len(commands) <= CommandSlots /\ Len(requests) <= RequestSlots
      /\ Len(canReplies) <= ReplySlots
  BY <1>3, ChannelAssumption DEF Init
<1> QED
  <2>1. /\ commands \in Seq(Nat) /\ requests \in Seq(Requests)
        /\ uartReplies \in Seq(0..Parameters) /\ Len(uartReplies) <= 1
        /\ canReplies \in Seq(0..Parameters)
        /\ wireRequests \in Seq(FrameKinds) /\ Len(wireRequests) <= 1
        /\ wireReplies \in Seq(FrameKinds) /\ Len(wireReplies) <= 1
    BY <1>3 DEF Init
  <2>2. /\ canReceiver \in {"read", "command", "request"}
        /\ transmitter \in {"select", "write"} /\ uart \in UartStates
    BY ReadingType DEF Init
  <2> QED
    BY <1>2, <1>4, <1>5, <1>6, <2>1, <2>2 DEF TypeOK

\* What the sender does next stays in its type.
LEMMA SentType ==
  ASSUME TypeOK, NEW start \in BOOLEAN, Sent(start)
  PROVE  sender' \in [left : 0..FrameBytes - 1, intact : {"yes", "maybe", "no"}]
<1> DEFINE Senders == [left : 0..FrameBytes - 1, intact : {"yes", "maybe", "no"}]
<1>1. FrameBytes - 1 \in 0..FrameBytes - 1 /\ 0 \in 0..FrameBytes - 1
  BY ChannelAssumption
<1>2. sender \in Senders /\ sender.left \in 0..FrameBytes - 1
  BY DEF TypeOK
<1>3. sender.left # 0 => sender.left - 1 \in 0..FrameBytes - 1
  BY <1>2, ChannelAssumption
<1>4. Opened \in {"yes", "maybe", "no"}
  BY DEF Opened
<1> QED
  BY <1>1, <1>2, <1>3, <1>4 DEF Sent

\* A byte changes the ends of the wire and the task that reads, nothing else.
LEMMA ByteFacts ==
  ASSUME TypeOK, ReceiveByte \/ ReceiveLast \/ LoseByte \/ Pause
  PROVE  /\ sender' \in [left : 0..FrameBytes - 1, intact : {"yes", "maybe", "no"}]
         /\ receiver' \in Receivers /\ uart' \in UartStates
         /\ UNCHANGED <<canReceiver, transmitter, control, queues>>
         /\ \/ uart' = uart
            \/ /\ uart.at = "read" /\ uart'.at \in {"command", "request", "wire"}
               /\ uart'.at = "request" => uart'.asking \in 1..Parameters
               /\ uart'.at = "wire" => uart'.kind \in FrameKinds
<1>0. receiver \in Receivers /\ uart \in UartStates
  BY DEF TypeOK
<1>1. CASE ReceiveByte
  <2>1. PICK byte \in Bytes, start \in BOOLEAN :
          /\ Sent(start)
          /\ receiver' = Read(receiver, byte)
          /\ IF byte = "newline" /\ ~receiver.binary THEN TextLine ELSE UNCHANGED uart
    BY <1>1 DEF ReceiveByte
  <2>2. uart.at = "read" /\ UNCHANGED <<canReceiver, transmitter, control, queues>>
    BY <1>1 DEF ReceiveByte
  <2>3. receiver' \in Receivers
    BY <1>0, <2>1, ReadType
  <2>4. TextLine \/ uart' = uart
    BY <2>1
  <2> QED
    BY <1>0, <2>1, <2>2, <2>3, <2>4, SentType, TextLineFacts
<1>2. CASE ReceiveLast
  <2>1. Sent(FALSE) /\ uart.at = "read" /\ UNCHANGED <<canReceiver, transmitter, control, queues>>
    BY <1>2 DEF ReceiveLast
  <2>2. CASE /\ receiver' = [receiver EXCEPT !.binary = FALSE]
             /\ \E kind \in FrameKinds : uart' = [Reading EXCEPT !.at = "wire", !.kind = kind]
    <3>1. PICK kind \in FrameKinds : uart' = [Reading EXCEPT !.at = "wire", !.kind = kind]
      BY <2>2
    <3>2. uart' \in UartStates /\ uart'.at = "wire" /\ uart'.kind = kind
      BY <3>1, ReadingType DEF UartStates
    <3>3. receiver' \in Receivers
      BY <1>0, <2>2 DEF Receivers
    <3> QED
      BY <1>0, <2>1, <2>2, <3>2, <3>3, SentType
  <2>3. CASE \E byte \in BodyBytes :
               /\ receiver' = Read(receiver, byte)
               /\ IF byte = "newline" /\ ~receiver.binary THEN TextLine ELSE UNCHANGED uart
    <3>1. receiver' \in Receivers
      BY <1>0, <2>3, ReadType
    <3>2. TextLine \/ uart' = uart
      BY <2>3
    <3> QED
      BY <1>0, <2>1, <3>1, <3>2, SentType, TextLineFacts
  <2> QED
    BY <1>2, <2>2, <2>3 DEF ReceiveLast
<1>3. CASE LoseByte
  <2>1. FrameBytes - 1 \in 0..FrameBytes - 1 /\ sender.left \in 0..FrameBytes - 1
    BY ChannelAssumption DEF TypeOK
  <2>2. sender.left # 0 => sender.left - 1 \in 0..FrameBytes - 1
    BY <2>1, ChannelAssumption
  <2> QED
    BY <1>0, <1>3, <2>1, <2>2 DEF LoseByte
<1>4. CASE Pause
  <2>1. receiver' \in Receivers
    BY <1>0, <1>4 DEF Pause, Receivers
  <2> QED
    BY <1>0, <1>4, <2>1 DEF Pause, TypeOK
<1> QED
  BY <1>1, <1>2, <1>3, <1>4

\* The tasks that send and receive messages keep the types.
LEMMA TypeNext == TypeOK /\ Asking /\ [Next]_vars => TypeOK'
<1> SUFFICES ASSUME TypeOK, Asking, [Next]_vars PROVE TypeOK'
  OBVIOUS
<1> USE DEF vars, bytes, queues
<1>0. /\ 0 \in Nat /\ Batch \in 0..Batch /\ 0 \in 0..Batch
      /\ CommandSlots \in Nat \ {0} /\ RequestSlots \in Nat \ {0} /\ ReplySlots \in Nat \ {0}
  BY ChannelAssumption
<1>1. /\ commands \in Seq(Nat) /\ Len(commands) <= CommandSlots /\ Len(commands) \in Nat
      /\ requests \in Seq(Requests) /\ Len(requests) <= RequestSlots /\ Len(requests) \in Nat
      /\ uartReplies \in Seq(0..Parameters) /\ Len(uartReplies) <= 1
      /\ canReplies \in Seq(0..Parameters) /\ Len(canReplies) <= ReplySlots
      /\ wireRequests \in Seq(FrameKinds) /\ Len(wireRequests) <= 1
      /\ wireReplies \in Seq(FrameKinds) /\ Len(wireReplies) <= 1
      /\ uart \in UartStates
      /\ control \in [at : {"wait", "commands", "requests"}, budget : 0..Batch]
  BY DEF TypeOK
<1>2. ASSUME NEW S, NEW q \in Seq(S), q # <<>>
      PROVE  Tail(q) \in Seq(S) /\ Len(Tail(q)) = Len(q) - 1 /\ Head(q) \in S /\ Len(q) \in Nat
  BY <1>2
<1>3. CASE ReceiveByte \/ ReceiveLast \/ LoseByte \/ Pause
  BY <1>3, ByteFacts DEF TypeOK
<1>4. CASE UartCommand
  <2>1. commands' \in Seq(Nat) /\ Len(commands') <= CommandSlots
    BY <1>0, <1>1, <1>4 DEF UartCommand
  <2> QED
    BY <1>4, <2>1, ReadingType DEF UartCommand, TypeOK
<1>5. CASE UartRequest
  <2> DEFINE r == [route |-> "uart", asking |-> uart.asking, age |-> 0]
  <2>1. r \in Requests
    BY <1>0, <1>1 DEF Requests, UartStates
  <2>2. requests' = Append(requests, r) /\ Len(requests) < RequestSlots
    BY <1>5 DEF UartRequest
  <2> HIDE DEF r
  <2>3. requests' \in Seq(Requests) /\ Len(requests') <= RequestSlots
    BY <1>0, <1>1, <2>1, <2>2
  <2>4. uart' \in UartStates
    BY <1>1, <1>5 DEF UartRequest, UartStates
  <2> QED
    BY <1>5, <2>3, <2>4 DEF UartRequest, TypeOK
<1>6. CASE UartReply
  <2>1. uartReplies' \in Seq(0..Parameters) /\ Len(uartReplies') <= 1
    BY <1>1, <1>2, <1>6 DEF UartReply
  <2>2. uart.asking \in 0..Parameters /\ uart.last \in 0..Parameters
    BY <1>1 DEF UartStates
  <2>3. uart.asking < uart.last => uart.asking + 1 \in 0..Parameters
    BY <2>2, ChannelAssumption
  <2>4. uart' \in UartStates
    BY <1>1, <1>6, <2>3, ReadingType DEF UartReply, NextQuestion, UartStates
  <2> QED
    BY <1>6, <2>1, <2>4 DEF UartReply, TypeOK
<1>7. CASE UartFrame
  <2>1. uart.kind \in FrameKinds
    BY <1>7 DEF UartFrame, Asking
  <2>2. wireRequests' \in Seq(FrameKinds) /\ Len(wireRequests') <= 1
    BY <1>7, <2>1 DEF UartFrame
  <2>3. uart' \in UartStates
    BY <1>1, <1>7 DEF UartFrame, UartStates
  <2> QED
    BY <1>7, <2>2, <2>3 DEF UartFrame, TypeOK
<1>8. CASE UartFrameReply
  <2>1. wireReplies' \in Seq(FrameKinds) /\ Len(wireReplies') <= 1
    BY <1>1, <1>2, <1>8 DEF UartFrameReply
  <2> QED
    BY <1>8, <2>1, ReadingType DEF UartFrameReply, TypeOK
<1>9. CASE CanFrame
  BY <1>9 DEF CanFrame, TypeOK
<1>10. CASE CanCommand
  <2>1. commands' \in Seq(Nat) /\ Len(commands') <= CommandSlots
    BY <1>0, <1>1, <1>10 DEF CanCommand
  <2> QED
    BY <1>10, <2>1 DEF CanCommand, TypeOK
<1>11. CASE CanRequest
  <2> DEFINE r == [route |-> "can", asking |-> 0, age |-> 0]
  <2>1. r \in Requests
    BY <1>0, ChannelAssumption DEF Requests
  <2>2. requests' = Append(requests, r) /\ Len(requests) < RequestSlots
    BY <1>11 DEF CanRequest
  <2> HIDE DEF r
  <2>3. requests' \in Seq(Requests) /\ Len(requests') <= RequestSlots
    BY <1>0, <1>1, <2>1, <2>2
  <2> QED
    BY <1>11, <2>3 DEF CanRequest, TypeOK
<1>12. CASE CanTransmit
  <2>1. CASE canReplies = <<>>
    BY <1>1, <1>12, <2>1 DEF CanTransmit, TypeOK
  <2>2. CASE canReplies # <<>>
    <3>1. canReplies' = Tail(canReplies)
      BY <1>12, <2>2 DEF CanTransmit
    <3>2. canReplies' \in Seq(0..Parameters) /\ Len(canReplies') <= ReplySlots
      BY <1>0, <1>1, <1>2, <2>2, <3>1
    <3> QED
      BY <1>12, <3>2 DEF CanTransmit, TypeOK
  <2> QED
    BY <2>1, <2>2
<1>13. CASE CanTransmitted
  BY <1>13 DEF CanTransmitted, TypeOK
<1>14. CASE ControlFrame
  <2>1. CASE wireRequests = <<>>
    BY <1>0, <1>14, <2>1 DEF ControlFrame, TypeOK
  <2>2. CASE wireRequests # <<>>
    <3>1. Head(wireRequests) \in FrameKinds
      BY <1>1, <1>2, <2>2
    <3>2. wireRequests' \in Seq(FrameKinds) /\ Len(wireRequests') <= 1
      BY <1>1, <1>2, <1>14, <2>2 DEF ControlFrame
    <3>3. wireReplies' \in Seq(FrameKinds) /\ Len(wireReplies') <= 1
      BY <1>1, <1>14, <2>2, <3>1, TrySendType DEF ControlFrame
    <3> QED
      BY <1>0, <1>14, <3>2, <3>3 DEF ControlFrame, TypeOK
  <2> QED
    BY <2>1, <2>2
<1>15. CASE TakeCommand
  <2>1. commands' \in Seq(Nat) /\ Len(commands') <= CommandSlots
    BY <1>0, <1>1, <1>2, <1>15 DEF TakeCommand
  <2>2. control.budget \in 0..Batch /\ control.budget > 0
    BY <1>1, <1>15 DEF TakeCommand
  <2>3. control.budget - 1 \in 0..Batch
    BY <2>2, ChannelAssumption
  <2>4. control' \in [at : {"wait", "commands", "requests"}, budget : 0..Batch]
    BY <1>1, <1>15, <2>3 DEF TakeCommand
  <2> QED
    BY <1>15, <2>1, <2>4 DEF TakeCommand, TypeOK
<1>16. CASE EndCommands
  <2>1. DOMAIN commands = 1..Len(commands) /\ \A i \in DOMAIN commands : commands[i] + 1 \in Nat
    BY <1>1
  <2>2. commands' \in [1..Len(commands) -> Nat]
    BY <1>16, <2>1 DEF EndCommands
  <2>3. Len(commands) \in Nat
    BY <1>1
  <2>4. commands' \in Seq(Nat) /\ Len(commands') = Len(commands)
    BY <2>2, <2>3
  <2> QED
    BY <1>0, <1>1, <1>16, <2>4 DEF EndCommands, TypeOK
<1>17. CASE TakeRequest
  <2>1. requests' \in Seq(Requests) /\ Len(requests') <= RequestSlots /\ Head(requests) \in Requests
    BY <1>0, <1>1, <1>2, <1>17 DEF TakeRequest
  <2>2. control.budget \in 0..Batch /\ control.budget > 0
    BY <1>1, <1>17 DEF TakeRequest
  <2>3. control.budget - 1 \in 0..Batch
    BY <2>2, ChannelAssumption
  <2>4. control' \in [at : {"wait", "commands", "requests"}, budget : 0..Batch]
    BY <1>1, <1>17, <2>3 DEF TakeRequest
  <2>5. Publish(Head(requests))
    BY <1>17 DEF TakeRequest
  <2>6. Head(requests).asking \in 0..Parameters
    BY <2>1 DEF Requests
  <2>7. /\ uartReplies' \in Seq(0..Parameters) /\ Len(uartReplies') <= 1
        /\ canReplies' \in Seq(0..Parameters) /\ Len(canReplies') <= ReplySlots
    <3>1. LET q == TrySend(uartReplies, Head(requests).asking, 1)
          IN q \in Seq(0..Parameters) /\ Len(q) <= 1
      <4>1. uartReplies \in Seq(0..Parameters) /\ Len(uartReplies) <= 1 /\ 1 \in Nat \ {0}
        BY <1>1
      <4> QED
        BY <2>6, <4>1, TrySendType
    <3>2. LET q == TrySend(canReplies, Head(requests).asking, ReplySlots)
          IN q \in Seq(0..Parameters) /\ Len(q) <= ReplySlots
      BY <1>0, <1>1, <2>6, TrySendType
    <3> QED
      BY <1>1, <2>5, <3>1, <3>2 DEF Publish
  <2> QED
    BY <1>17, <2>1, <2>4, <2>7 DEF TakeRequest, TypeOK
<1>18. CASE EndTurn
  <2>1. requests' = Aged(requests)
    BY <1>18 DEF EndTurn, Aged
  <2>2. requests' \in Seq(Requests) /\ Len(requests') = Len(requests)
    BY <1>1, <2>1, OfUartAged
  <2> QED
    BY <1>0, <1>1, <1>18, <2>2 DEF EndTurn, TypeOK
<1>19. CASE UNCHANGED vars
  BY <1>19 DEF TypeOK
<1> QED
  BY <1>3, <1>4, <1>5, <1>6, <1>7, <1>8, <1>9, <1>10, <1>11, <1>12, <1>13, <1>14, <1>15, <1>16,
     <1>17, <1>18, <1>19 DEF Next, UartTask, Control

-----------------------------------------------------------------------------
(* Questions and answers. *)

\* The task asks for a parameter, or passes on a frame, from where it reads.
LEMMA AskingNext == TypeOK /\ Asking /\ [Next]_vars => Asking'
<1> SUFFICES ASSUME TypeOK, Asking, [Next]_vars PROVE Asking'
  OBVIOUS
<1> USE DEF vars
<1>1. uart \in UartStates /\ uart.asking \in 0..Parameters /\ uart.last \in 0..Parameters
  BY DEF TypeOK, UartStates
<1>2. CASE ReceiveByte \/ ReceiveLast \/ LoseByte \/ Pause
  BY <1>2, ByteFacts DEF Asking
<1>3. CASE UartRequest
  BY <1>1, <1>3 DEF UartRequest, UartStates, Asking
<1>4. CASE UartReply
  <2>1. uart.asking < uart.last => uart.asking + 1 \in 1..Parameters
    BY <1>1, ChannelAssumption
  <2>2. CASE uart.asking < uart.last
    <3>1. uart' = [uart EXCEPT !.at = "request", !.asking = @ + 1]
      BY <1>4, <2>2 DEF UartReply, NextQuestion
    <3>2. uart'.at = "request" /\ uart'.asking = uart.asking + 1
      BY <1>1, <3>1 DEF UartStates
    <3> QED
      BY <2>1, <2>2, <3>2 DEF Asking
  <2>3. CASE ~(uart.asking < uart.last)
    BY <1>4, <2>3, ReadingType DEF UartReply, NextQuestion, Asking
  <2> QED
    BY <2>2, <2>3
<1>5. CASE UartFrame
  BY <1>1, <1>5 DEF UartFrame, UartStates, Asking
<1>6. CASE UartCommand \/ UartFrameReply
  BY <1>6, ReadingType DEF UartCommand, UartFrameReply, Asking
<1>7. CASE uart' = uart
  BY <1>7 DEF Asking
<1>8. CanFrame \/ CanCommand \/ CanRequest \/ CanTransmit \/ CanTransmitted \/ Control
        \/ UNCHANGED vars => uart' = uart
  BY DEF CanFrame, CanCommand, CanRequest, CanTransmit, CanTransmitted, Control, ControlFrame,
         TakeCommand, EndCommands, TakeRequest, EndTurn
<1> QED
  BY <1>2, <1>3, <1>4, <1>5, <1>6, <1>7, <1>8 DEF Next, UartTask

\* Parameter requests: the first half of AnswersMatchQuestions.
ParameterAnswers ==
  IF uart.at = "reply"
  THEN \/ uartReplies = <<uart.asking>> /\ OfUart(requests) = {}
       \/ /\ uartReplies = <<>>
          /\ \E i \in DOMAIN requests :
               OfUart(requests) = {i} /\ requests[i].asking = uart.asking
  ELSE uartReplies = <<>> /\ OfUart(requests) = {}

\* Frames: the second half.
FrameAnswers ==
  IF uart.at = "wire_reply"
  THEN \/ wireRequests = <<uart.kind>> /\ wireReplies = <<>>
       \/ wireReplies = <<uart.kind>> /\ wireRequests = <<>>
       \/ wireRequests = <<>> /\ wireReplies = <<>> /\ uart.kind = "other"
  ELSE wireRequests = <<>> /\ wireReplies = <<>>

LEMMA ParameterAnswersNext ==
  TypeOK /\ Asking /\ ParameterAnswers /\ [Next]_vars => ParameterAnswers'
<1> SUFFICES ASSUME TypeOK, Asking, ParameterAnswers, [Next]_vars PROVE ParameterAnswers'
  OBVIOUS
<1> USE DEF vars, queues
<1>1. /\ uart \in UartStates /\ requests \in Seq(Requests) /\ Len(requests) \in Nat
      /\ DOMAIN requests = 1..Len(requests)
  BY DEF TypeOK
<1>2. CASE ReceiveByte \/ ReceiveLast \/ LoseByte \/ Pause
  <2>1. uartReplies' = uartReplies /\ requests' = requests
    BY <1>2, ByteFacts
  <2>2. uart' = uart \/ (uart.at # "reply" /\ uart'.at # "reply")
    BY <1>2, ByteFacts
  <2> QED
    BY <2>1, <2>2 DEF ParameterAnswers
<1>3. CASE UartRequest
  <2> DEFINE r == [route |-> "uart", asking |-> uart.asking, age |-> 0]
  <2>1. r \in Requests /\ r.route = "uart" /\ r.asking = uart.asking
    BY <1>1, ChannelAssumption DEF Requests, UartStates
  <2>2. requests' = Append(requests, r) /\ uartReplies' = <<>> /\ OfUart(requests) = {}
    BY <1>3 DEF UartRequest, ParameterAnswers
  <2>3. uart'.at = "reply" /\ uart'.asking = uart.asking
    BY <1>1, <1>3 DEF UartRequest, UartStates
  <2> HIDE DEF r
  <2>4. OfUart(requests') = {Len(requests) + 1}
    BY <1>1, <2>1, <2>2, OfUartAppend
  <2>5. Len(requests) + 1 \in DOMAIN requests' /\ requests'[Len(requests) + 1] = r
    <3>1. requests \in Seq(Requests) /\ r \in Requests
      BY <1>1, <2>1
    <3>2. LET q == Append(requests, r)
          IN Len(requests) + 1 \in DOMAIN q /\ q[Len(requests) + 1] = r
      BY <3>1, AppendFacts
    <3> QED
      BY <2>2, <3>2
  <2> QED
    BY <2>1, <2>2, <2>3, <2>4, <2>5 DEF ParameterAnswers
<1>4. CASE UartReply
  <2>1. uartReplies = <<uart.asking>> /\ OfUart(requests) = {}
    BY <1>4 DEF UartReply, ParameterAnswers
  <2>2. uartReplies' = <<>> /\ requests' = requests
    BY <1>4, <2>1 DEF UartReply
  <2>3. uart'.at # "reply"
    BY <1>1, <1>4, ReadingType DEF UartReply, NextQuestion, UartStates
  <2> QED
    BY <2>1, <2>2, <2>3 DEF ParameterAnswers
<1>5. CASE CanRequest
  <2> DEFINE r == [route |-> "can", asking |-> 0, age |-> 0]
  <2>1. r \in Requests /\ r.route # "uart"
    BY ChannelAssumption DEF Requests
  <2>2. requests' = Append(requests, r) /\ uartReplies' = uartReplies /\ uart' = uart
    BY <1>5 DEF CanRequest
  <2> HIDE DEF r
  <2>3. OfUart(requests') = OfUart(requests)
    BY <1>1, <2>1, <2>2, OfUartAppend
  <2>4. \A i \in DOMAIN requests : i \in DOMAIN requests' /\ requests'[i] = requests[i]
    <3>1. requests \in Seq(Requests) /\ r \in Requests
      BY <1>1, <2>1
    <3>2. LET q == Append(requests, r)
          IN \A i \in DOMAIN requests : i \in DOMAIN q /\ q[i] = requests[i]
      BY <3>1, AppendFacts
    <3> QED
      BY <2>2, <3>2
  <2> QED
    BY <2>2, <2>3, <2>4 DEF ParameterAnswers
<1>6. CASE TakeRequest
  <2>1. requests # <<>> /\ requests' = Tail(requests) /\ uart' = uart /\ Publish(Head(requests))
    BY <1>6 DEF TakeRequest
  <2>2. Head(requests) = requests[1] /\ 1 \in DOMAIN requests
    BY <1>1, <2>1, TailFacts
  <2>3. CASE OfUart(requests) = {}
    <3>1. OfUart(requests') = {} /\ Head(requests).route = "can"
      BY <1>1, <2>1, <2>3, OfUartTail
    <3>2. uartReplies' = uartReplies
      BY <2>1, <3>1 DEF Publish
    <3>3. uart.at = "reply" => uartReplies = <<uart.asking>>
      BY <2>3 DEF ParameterAnswers
    <3> QED
      BY <2>1, <2>3, <3>1, <3>2, <3>3 DEF ParameterAnswers
  <2>4. CASE OfUart(requests) # {}
    <3>1. PICK i \in DOMAIN requests :
            OfUart(requests) = {i} /\ requests[i].asking = uart.asking
      BY <2>4 DEF ParameterAnswers
    <3>2. uart.at = "reply" /\ uartReplies = <<>>
      BY <2>4 DEF ParameterAnswers
    <3>3. CASE i = 1
      <4>1. OfUart(requests') = {} /\ Head(requests).route = "uart"
        BY <1>1, <2>1, <3>1, <3>3, OfUartTail
      <4>2. uartReplies' = <<uart.asking>>
        BY <2>1, <2>2, <3>1, <3>2, <3>3, <4>1 DEF Publish, TrySend
      <4> QED
        BY <2>1, <3>2, <4>1, <4>2 DEF ParameterAnswers
    <3>4. CASE i # 1
      <4>1. /\ OfUart(requests') = {i - 1} /\ Head(requests).route = "can"
            /\ i - 1 \in DOMAIN requests' /\ requests'[i - 1] = requests[i]
        BY <1>1, <2>1, <3>1, <3>4, OfUartTail
      <4>2. uartReplies' = <<>>
        BY <2>1, <3>2, <4>1 DEF Publish
      <4> QED
        BY <2>1, <3>1, <3>2, <4>1, <4>2 DEF ParameterAnswers
    <3> QED
      BY <3>3, <3>4
  <2> QED
    BY <2>3, <2>4
<1>7. CASE EndTurn
  <2>1. /\ OfUart(requests') = OfUart(requests) /\ DOMAIN requests' = DOMAIN requests
        /\ \A i \in DOMAIN requests : requests'[i].asking = requests[i].asking
    <3>1. requests' = Aged(requests)
      BY <1>7 DEF EndTurn, Aged
    <3>2. requests \in Seq(Requests)
      BY <1>1
    <3> QED
      BY <3>1, <3>2, OfUartAged
  <2>2. uart' = uart /\ uartReplies' = uartReplies
    BY <1>7 DEF EndTurn
  <2> QED
    BY <2>1, <2>2 DEF ParameterAnswers
<1>8. CASE UartCommand \/ UartFrame \/ UartFrameReply
  <2>1. uart.at # "reply" /\ uart'.at # "reply"
    BY <1>1, <1>8, ReadingType DEF UartCommand, UartFrame, UartFrameReply, UartStates
  <2>2. uartReplies' = uartReplies /\ requests' = requests
    BY <1>8 DEF UartCommand, UartFrame, UartFrameReply
  <2> QED
    BY <2>1, <2>2 DEF ParameterAnswers
<1>9. CASE CanFrame \/ CanCommand \/ CanTransmit \/ CanTransmitted \/ ControlFrame
             \/ TakeCommand \/ EndCommands \/ UNCHANGED vars
  <2>1. uart' = uart /\ uartReplies' = uartReplies /\ requests' = requests
    BY <1>9 DEF CanFrame, CanCommand, CanTransmit, CanTransmitted, ControlFrame, TakeCommand,
                EndCommands
  <2> QED
    BY <2>1 DEF ParameterAnswers
<1> QED
  BY <1>2, <1>3, <1>4, <1>5, <1>6, <1>7, <1>8, <1>9 DEF Next, UartTask, Control

LEMMA FrameAnswersNext ==
  TypeOK /\ Asking /\ FrameAnswers /\ [Next]_vars => FrameAnswers'
<1> SUFFICES ASSUME TypeOK, Asking, FrameAnswers, [Next]_vars PROVE FrameAnswers'
  OBVIOUS
<1> USE DEF vars, queues
<1>1. uart \in UartStates /\ \A k \in FrameKinds : k \in {"hello", "request", "other"}
  BY ChannelAssumption DEF TypeOK
<1>2. CASE ReceiveByte \/ ReceiveLast \/ LoseByte \/ Pause
  <2>1. wireReplies' = wireReplies /\ wireRequests' = wireRequests
    BY <1>2, ByteFacts
  <2>2. uart' = uart \/ (uart.at # "wire_reply" /\ uart'.at # "wire_reply")
    BY <1>2, ByteFacts
  <2> QED
    BY <2>1, <2>2 DEF FrameAnswers
<1>3. CASE UartFrame
  <2>1. uart'.at = "wire_reply" /\ uart'.kind = uart.kind
    BY <1>1, <1>3 DEF UartFrame, UartStates
  <2>2. wireRequests' = <<uart.kind>> /\ wireReplies' = <<>>
    BY <1>3 DEF UartFrame, FrameAnswers
  <2> QED
    BY <2>1, <2>2 DEF FrameAnswers
<1>4. CASE UartFrameReply
  <2>1. wireReplies = <<uart.kind>> /\ wireRequests = <<>>
    BY <1>4 DEF UartFrameReply, FrameAnswers
  <2>2. wireReplies' = <<>> /\ wireRequests' = <<>> /\ uart'.at # "wire_reply"
    BY <1>4, <2>1, ReadingType DEF UartFrameReply
  <2> QED
    BY <2>2 DEF FrameAnswers
<1>5. CASE ControlFrame
  <2>1. uart' = uart
    BY <1>5 DEF ControlFrame
  <2>2. CASE wireRequests = <<>>
    <3>1. wireRequests' = wireRequests /\ wireReplies' = wireReplies
      BY <1>5, <2>2 DEF ControlFrame
    <3> QED
      BY <2>1, <3>1 DEF FrameAnswers
  <2>3. CASE wireRequests # <<>>
    <3>1. uart.at = "wire_reply" /\ wireRequests = <<uart.kind>> /\ wireReplies = <<>>
      BY <2>3 DEF FrameAnswers
    <3>2. wireRequests' = <<>> /\ Head(wireRequests) = uart.kind
      BY <1>5, <2>3, <3>1 DEF ControlFrame
    <3>3. uart.kind \in {"hello", "request", "other"}
      BY <1>1, <3>1 DEF Asking
    <3>4. wireReplies' = IF Answered(uart.kind) THEN <<uart.kind>> ELSE <<>>
      BY <1>5, <2>3, <3>1, <3>2 DEF ControlFrame, TrySend
    <3> QED
      BY <2>1, <3>1, <3>2, <3>3, <3>4 DEF FrameAnswers, Answered
  <2> QED
    BY <2>2, <2>3
<1>6. CASE UartCommand \/ UartRequest \/ UartReply
  <2>1. uart.at # "wire_reply" /\ uart'.at # "wire_reply"
    BY <1>1, <1>6, ReadingType DEF UartCommand, UartRequest, UartReply, NextQuestion, UartStates
  <2>2. wireReplies' = wireReplies /\ wireRequests' = wireRequests
    BY <1>6 DEF UartCommand, UartRequest, UartReply
  <2> QED
    BY <2>1, <2>2 DEF FrameAnswers
<1>7. CASE CanFrame \/ CanCommand \/ CanRequest \/ CanTransmit \/ CanTransmitted
             \/ TakeCommand \/ EndCommands \/ TakeRequest \/ EndTurn \/ UNCHANGED vars
  <2>1. uart' = uart /\ wireReplies' = wireReplies /\ wireRequests' = wireRequests
    BY <1>7 DEF CanFrame, CanCommand, CanRequest, CanTransmit, CanTransmitted,
                TakeCommand, EndCommands, TakeRequest, EndTurn
  <2> QED
    BY <2>1 DEF FrameAnswers
<1> QED
  BY <1>2, <1>3, <1>4, <1>5, <1>6, <1>7 DEF Next, UartTask, Control

-----------------------------------------------------------------------------
(* How long a message waits. *)

\* A new message finds fewer than slots before it, and no turn under way.
LEMMA PromptAppended ==
  ASSUME NEW f \in Seq(Nat), NEW slots \in Nat, Len(f) < slots, Prompt(f, slots, 0)
  PROVE  Prompt(Append(f, 0), slots, 0)
<1> DEFINE g == Append(f, 0)
<1>1. /\ DOMAIN f = 1..Len(f) /\ Len(f) \in Nat /\ DOMAIN g = 1..Len(f) + 1
      /\ g[Len(f) + 1] = 0 /\ \A i \in DOMAIN f : g[i] = f[i]
  BY AppendFacts
<1> HIDE DEF g
<1>2. ASSUME NEW i \in DOMAIN g
      PROVE  g[i] * Batch + i + 0 <= slots
  <2>1. CASE i \in DOMAIN f
    BY <1>1, <2>1 DEF Prompt
  <2>2. CASE i \notin DOMAIN f
    <3>1. i = Len(f) + 1 /\ g[i] = 0
      BY <1>1, <2>2
    <3>2. 0 * Batch = 0
      BY ChannelAssumption
    <3> QED
      BY <1>1, <3>1, <3>2
  <2> QED
    BY <2>1, <2>2
<1> QED
  BY <1>2 DEF Prompt, g

\* Taking the first brings the others forward.
LEMMA PromptTaken ==
  ASSUME NEW f \in Seq(Nat), f # <<>>, NEW slots \in Nat, NEW taken \in Nat,
         Prompt(f, slots, taken)
  PROVE  Prompt(Tail(f), slots, taken + 1)
<1> DEFINE g == Tail(f)
<1>1. \A i \in DOMAIN g : i \in Nat /\ i + 1 \in DOMAIN f /\ g[i] = f[i + 1]
  <2>1. \A i \in DOMAIN g : i + 1 \in DOMAIN f /\ g[i] = f[i + 1]
    BY TailFacts
  <2>2. DOMAIN g = 1..Len(f) - 1 /\ Len(f) \in Nat
    BY TailFacts
  <2> QED
    BY <2>1, <2>2
<1> HIDE DEF g
<1>2. ASSUME NEW i \in DOMAIN g
      PROVE  g[i] * Batch + i + (taken + 1) <= slots
  <2>1. f[i + 1] * Batch + (i + 1) + taken <= slots
    BY <1>1 DEF Prompt
  <2>2. f[i + 1] * Batch \in Nat
    <3>1. f[i + 1] \in Nat
      BY <1>1
    <3> QED
      BY <3>1, ProductIsNat, ChannelAssumption
  <2> QED
    BY <1>1, <2>1, <2>2
<1> QED
  BY <1>2 DEF Prompt, g

\* A turn that takes a whole batch makes up for the turn the others wait.
LEMMA PromptAged ==
  ASSUME NEW f \in Seq(Nat), NEW slots \in Nat, Prompt(f, slots, Batch)
  PROVE  Prompt([i \in DOMAIN f |-> f[i] + 1], slots, 0)
<1>1. ASSUME NEW i \in DOMAIN f
      PROVE  (f[i] + 1) * Batch + i + 0 <= slots
  <2>1. f[i] \in Nat /\ i \in Nat /\ Batch \in Nat
    BY ChannelAssumption
  <2>2. f[i] * Batch + i + Batch <= slots
    BY DEF Prompt
  <2>3. (f[i] + 1) * Batch = f[i] * Batch + Batch /\ f[i] * Batch \in Nat
    BY <2>1, Distributes, ProductIsNat
  <2> QED
    BY <2>1, <2>2, <2>3
<1> QED
  BY <1>1 DEF Prompt

\* The ages of requests that come, go and wait.
LEMMA AgesFacts ==
  ASSUME NEW q \in Seq(Requests)
  PROVE  /\ AgesOf(q) \in Seq(Nat) /\ Len(AgesOf(q)) = Len(q)
         /\ \A r \in Requests : r.age = 0 => AgesOf(Append(q, r)) = Append(AgesOf(q), 0)
         /\ q # <<>> => AgesOf(q) # <<>> /\ AgesOf(Tail(q)) = Tail(AgesOf(q))
         /\ AgesOf([i \in DOMAIN q |-> [q[i] EXCEPT !.age = @ + 1]])
              = [i \in DOMAIN AgesOf(q) |-> AgesOf(q)[i] + 1]
<1>1. DOMAIN q = 1..Len(q) /\ Len(q) \in Nat /\ \A i \in DOMAIN q : q[i] \in Requests
  OBVIOUS
<1>2. \A i \in DOMAIN q : q[i].age \in Nat
  BY <1>1 DEF Requests
<1>3. AgesOf(q) \in [1..Len(q) -> Nat]
  BY <1>1, <1>2 DEF AgesOf
<1>4. /\ AgesOf(q) \in Seq(Nat) /\ Len(AgesOf(q)) = Len(q)
      /\ DOMAIN AgesOf(q) = DOMAIN q
  BY <1>1, <1>3
<1>5. ASSUME NEW r \in Requests, r.age = 0
      PROVE  AgesOf(Append(q, r)) = Append(AgesOf(q), 0)
  <2> DEFINE a == Append(q, r)
             b == Append(AgesOf(q), 0)
  <2>1. DOMAIN a = 1..Len(q) + 1 /\ a[Len(q) + 1] = r /\ \A i \in DOMAIN q : a[i] = q[i]
    BY AppendFacts
  <2>2. /\ b \in Seq(Nat) /\ DOMAIN b = 1..Len(q) + 1 /\ b[Len(q) + 1] = 0
        /\ \A i \in DOMAIN q : b[i] = AgesOf(q)[i]
    BY <1>4, AppendFacts
  <2> HIDE DEF a, b
  <2>3. \A i \in 1..Len(q) + 1 : i \in DOMAIN q \/ i = Len(q) + 1
    BY <1>1
  <2>4. \A i \in 1..Len(q) + 1 : a[i].age = b[i]
    BY <1>1, <1>5, <2>1, <2>2, <2>3 DEF AgesOf
  <2>5. b = [i \in 1..Len(q) + 1 |-> b[i]]
    BY <2>2
  <2>6. AgesOf(a) = [i \in 1..Len(q) + 1 |-> a[i].age]
    BY <2>1 DEF AgesOf
  <2> QED
    BY <2>4, <2>5, <2>6 DEF a, b
<1>6. ASSUME q # <<>>
      PROVE  AgesOf(q) # <<>> /\ AgesOf(Tail(q)) = Tail(AgesOf(q))
  <2> DEFINE a == Tail(q)
             b == Tail(AgesOf(q))
  <2>1. AgesOf(q) # <<>>
    BY <1>1, <1>4, <1>6
  <2>2. DOMAIN a = 1..Len(q) - 1 /\ \A i \in DOMAIN a : i + 1 \in DOMAIN q /\ a[i] = q[i + 1]
    BY <1>6, TailFacts
  <2>3. /\ b \in Seq(Nat) /\ DOMAIN b = 1..Len(q) - 1
        /\ \A i \in DOMAIN b : b[i] = AgesOf(q)[i + 1]
    BY <1>4, <2>1, TailFacts
  <2> HIDE DEF a, b
  <2>4. \A i \in 1..Len(q) - 1 : a[i].age = b[i]
    BY <2>2, <2>3 DEF AgesOf
  <2>5. b = [i \in 1..Len(q) - 1 |-> b[i]]
    BY <2>3
  <2>6. AgesOf(a) = [i \in 1..Len(q) - 1 |-> a[i].age]
    BY <2>2 DEF AgesOf
  <2> QED
    BY <2>1, <2>4, <2>5, <2>6 DEF a, b
<1>7. AgesOf([i \in DOMAIN q |-> [q[i] EXCEPT !.age = @ + 1]])
        = [i \in DOMAIN AgesOf(q) |-> AgesOf(q)[i] + 1]
  <2>1. \A i \in DOMAIN q : [q[i] EXCEPT !.age = q[i].age + 1].age = q[i].age + 1
    BY <1>1 DEF Requests
  <2> QED
    BY <1>4, <2>1 DEF AgesOf
<1> QED
  BY <1>4, <1>5, <1>6, <1>7

\* What a task that runs between two turns does to the queues.
LEMMA TakenFacts ==
  ASSUME TypeOK
  PROVE  /\ Waiting => Taken("commands") = 0 /\ Taken("requests") = 0
         /\ \A where \in {"commands", "requests"} :
              /\ Taken(where) \in Nat
              /\ control.at = where /\ control.budget = 0 => Taken(where) = Batch
<1>1. control.budget \in 0..Batch /\ Batch \in Nat
  BY ChannelAssumption DEF TypeOK
<1> QED
  BY <1>1 DEF Waiting, Taken

LEMMA CommandAgesNext == TypeOK /\ CommandAges /\ [Next]_vars => CommandAges'
<1> SUFFICES ASSUME TypeOK, CommandAges, [Next]_vars PROVE CommandAges'
  OBVIOUS
<1> USE DEF vars, queues
<1>1. /\ commands \in Seq(Nat) /\ CommandSlots \in Nat
      /\ control \in [at : {"wait", "commands", "requests"}, budget : 0..Batch]
      /\ Batch \in Nat \ {0}
  BY ChannelAssumption DEF TypeOK
<1>2. CASE UartCommand \/ CanCommand
  <2>1. /\ Waiting /\ Len(commands) < CommandSlots /\ commands' = Append(commands, 0)
        /\ control' = control
    BY <1>2 DEF UartCommand, CanCommand
  <2>2. Taken("commands") = 0 /\ Taken("commands")' = 0
    BY <2>1, TakenFacts DEF Taken
  <2>3. Prompt(Append(commands, 0), CommandSlots, 0)
    BY <1>1, <2>1, <2>2, PromptAppended DEF CommandAges
  <2> QED
    BY <2>1, <2>2, <2>3 DEF CommandAges
<1>3. CASE TakeCommand
  <2>1. /\ control.at = "commands" /\ commands # <<>> /\ commands' = Tail(commands)
        /\ control' = [control EXCEPT !.budget = @ - 1]
    BY <1>3 DEF TakeCommand
  <2>2. Taken("commands") \in Nat
    BY TakenFacts
  <2>3. Taken("commands")' = Taken("commands") + 1
    BY <1>1, <2>1 DEF Taken
  <2>4. Prompt(Tail(commands), CommandSlots, Taken("commands") + 1)
    BY <1>1, <2>1, <2>2, PromptTaken DEF CommandAges
  <2> QED
    BY <2>1, <2>3, <2>4 DEF CommandAges
<1>4. CASE EndCommands
  <2>1. /\ control.at = "commands"
        /\ commands' = [i \in DOMAIN commands |-> commands[i] + 1]
        /\ control'.at = "requests"
    BY <1>4 DEF EndCommands
  <2>2. Taken("commands")' = 0
    BY <2>1 DEF Taken
  <2>3. CASE commands = <<>>
    BY <2>1, <2>3 DEF CommandAges, Prompt
  <2>4. CASE commands # <<>>
    <3>1. Prompt(commands, CommandSlots, Batch)
      BY <1>4, <2>4, TakenFacts DEF EndCommands, CommandAges
    <3>2. Prompt([i \in DOMAIN commands |-> commands[i] + 1], CommandSlots, 0)
      BY <1>1, <3>1, PromptAged
    <3> QED
      BY <2>1, <2>2, <3>2 DEF CommandAges
  <2> QED
    BY <2>3, <2>4
<1>5. CASE ControlFrame
  <2>1. Taken("commands") = 0
    BY <1>5, TakenFacts DEF ControlFrame
  <2>2. commands' = commands /\ control' = [at |-> "commands", budget |-> Batch]
    BY <1>5 DEF ControlFrame
  <2>3. Taken("commands")' = 0
    BY <1>1, <2>2 DEF Taken
  <2> QED
    BY <2>1, <2>2, <2>3 DEF CommandAges
<1>6. CASE TakeRequest \/ EndTurn
  <2>1. commands' = commands /\ control.at = "requests" /\ control'.at # "commands"
    BY <1>1, <1>6 DEF TakeRequest, EndTurn
  <2> QED
    BY <2>1 DEF CommandAges, Taken
<1>7. CASE ReceiveByte \/ ReceiveLast \/ LoseByte \/ Pause
  BY <1>7, ByteFacts DEF CommandAges, Taken
<1>8. CASE UartRequest \/ UartReply \/ UartFrame \/ UartFrameReply \/ CanFrame \/ CanRequest
             \/ CanTransmit \/ CanTransmitted \/ UNCHANGED vars
  <2>1. commands' = commands /\ control' = control
    BY <1>8 DEF UartRequest, UartReply, UartFrame, UartFrameReply, CanFrame, CanRequest,
                CanTransmit, CanTransmitted
  <2> QED
    BY <2>1 DEF CommandAges, Taken
<1> QED
  BY <1>2, <1>3, <1>4, <1>5, <1>6, <1>7, <1>8 DEF Next, UartTask, Control

LEMMA RequestAgesNext == TypeOK /\ RequestAges /\ [Next]_vars => RequestAges'
<1> SUFFICES ASSUME TypeOK, RequestAges, [Next]_vars PROVE RequestAges'
  OBVIOUS
<1> USE DEF vars, queues
<1> DEFINE ages == AgesOf(requests)
<1>1. /\ requests \in Seq(Requests) /\ RequestSlots \in Nat /\ uart \in UartStates
      /\ control \in [at : {"wait", "commands", "requests"}, budget : 0..Batch]
      /\ Batch \in Nat \ {0}
  BY ChannelAssumption DEF TypeOK
<1>2. /\ ages \in Seq(Nat) /\ Len(ages) = Len(requests)
      /\ \A r \in Requests : r.age = 0 => AgesOf(Append(requests, r)) = Append(ages, 0)
      /\ requests # <<>> => ages # <<>> /\ AgesOf(Tail(requests)) = Tail(ages)
      /\ AgesOf([i \in DOMAIN requests |-> [requests[i] EXCEPT !.age = @ + 1]])
           = [i \in DOMAIN ages |-> ages[i] + 1]
  BY <1>1, AgesFacts
<1>3. Prompt(ages, RequestSlots, Taken("requests"))
  BY DEF RequestAges
<1> HIDE DEF ages
<1>4. ASSUME NEW r \in Requests, r.age = 0, Waiting, Len(requests) < RequestSlots,
             requests' = Append(requests, r), control' = control
      PROVE  RequestAges'
  <2>1. Taken("requests") = 0 /\ Taken("requests")' = 0
    BY <1>4, TakenFacts DEF Taken
  <2>2. Prompt(Append(ages, 0), RequestSlots, 0)
    BY <1>1, <1>2, <1>3, <1>4, <2>1, PromptAppended
  <2>3. AgesOf(requests)' = Append(ages, 0)
    BY <1>2, <1>4 DEF AgesOf
  <2> QED
    BY <2>1, <2>2, <2>3 DEF RequestAges
<1>5. CASE UartRequest
  <2> DEFINE r == [route |-> "uart", asking |-> uart.asking, age |-> 0]
  <2>1. r \in Requests /\ r.age = 0
    BY <1>1 DEF Requests, UartStates
  <2>2. /\ Waiting /\ Len(requests) < RequestSlots /\ requests' = Append(requests, r)
        /\ control' = control
    BY <1>5 DEF UartRequest
  <2> QED
    BY <1>4, <2>1, <2>2
<1>6. CASE CanRequest
  <2> DEFINE r == [route |-> "can", asking |-> 0, age |-> 0]
  <2>1. r \in Requests /\ r.age = 0
    BY ChannelAssumption DEF Requests
  <2>2. /\ Waiting /\ Len(requests) < RequestSlots /\ requests' = Append(requests, r)
        /\ control' = control
    BY <1>6 DEF CanRequest
  <2> QED
    BY <1>4, <2>1, <2>2
<1>7. CASE TakeRequest
  <2>1. /\ control.at = "requests" /\ requests # <<>> /\ requests' = Tail(requests)
        /\ control' = [control EXCEPT !.budget = @ - 1]
    BY <1>7 DEF TakeRequest
  <2>2. Taken("requests") \in Nat
    BY TakenFacts
  <2>3. Taken("requests")' = Taken("requests") + 1
    BY <1>1, <2>1 DEF Taken
  <2>4. Prompt(Tail(ages), RequestSlots, Taken("requests") + 1)
    BY <1>1, <1>2, <1>3, <2>1, <2>2, PromptTaken
  <2>5. AgesOf(requests)' = Tail(ages)
    BY <1>2, <2>1 DEF AgesOf
  <2> QED
    BY <2>3, <2>4, <2>5 DEF RequestAges
<1>8. CASE EndTurn
  <2>1. /\ control.at = "requests"
        /\ requests' = [i \in DOMAIN requests |-> [requests[i] EXCEPT !.age = @ + 1]]
        /\ control'.at = "wait"
    BY <1>8 DEF EndTurn
  <2>2. Taken("requests")' = 0
    BY <2>1 DEF Taken
  <2>3. AgesOf(requests)' = [i \in DOMAIN ages |-> ages[i] + 1]
    BY <1>2, <2>1 DEF AgesOf
  <2>4. CASE requests = <<>>
    <3>1. Len(ages) = 0
      BY <1>2, <2>4
    <3>2. DOMAIN ages = {}
      BY <1>2, <3>1
    <3> QED
      BY <2>3, <3>2 DEF RequestAges, Prompt
  <2>5. CASE requests # <<>>
    <3>1. Prompt(ages, RequestSlots, Batch)
      BY <1>3, <1>8, <2>5, TakenFacts DEF EndTurn
    <3>2. Prompt([i \in DOMAIN ages |-> ages[i] + 1], RequestSlots, 0)
      BY <1>1, <1>2, <3>1, PromptAged
    <3> QED
      BY <2>2, <2>3, <3>2 DEF RequestAges
  <2> QED
    BY <2>4, <2>5
<1>9. CASE EndCommands
  <2>1. /\ requests' = requests /\ control.at = "commands"
        /\ control' = [at |-> "requests", budget |-> Batch]
    BY <1>9 DEF EndCommands
  <2>2. Taken("requests") = 0 /\ Taken("requests")' = 0
    BY <1>1, <2>1 DEF Taken
  <2> QED
    BY <2>1, <2>2 DEF RequestAges, AgesOf
<1>10. CASE TakeCommand \/ ControlFrame
  <2>1. requests' = requests /\ control.at # "requests" /\ control'.at # "requests"
    BY <1>1, <1>10 DEF TakeCommand, ControlFrame, Waiting
  <2> QED
    BY <2>1 DEF RequestAges, Taken, AgesOf
<1>11. CASE ReceiveByte \/ ReceiveLast \/ LoseByte \/ Pause
  BY <1>11, ByteFacts DEF RequestAges, Taken, AgesOf
<1>12. CASE UartCommand \/ UartReply \/ UartFrame \/ UartFrameReply \/ CanFrame \/ CanCommand
             \/ CanTransmit \/ CanTransmitted \/ UNCHANGED vars
  <2>1. requests' = requests /\ control' = control
    BY <1>12 DEF UartCommand, UartReply, UartFrame, UartFrameReply, CanFrame, CanCommand,
                 CanTransmit, CanTransmitted
  <2> QED
    BY <2>1 DEF RequestAges, Taken, AgesOf
<1> QED
  BY <1>5, <1>6, <1>7, <1>8, <1>9, <1>10, <1>11, <1>12 DEF Next, UartTask, Control

-----------------------------------------------------------------------------
(* Theorems. *)

LEMMA InvInit == Init => IInv
<1> SUFFICES ASSUME Init PROVE IInv
  OBVIOUS
<1>1. /\ commands = <<>> /\ requests = <<>> /\ uart.at = "read" /\ uartReplies = <<>>
      /\ wireRequests = <<>> /\ wireReplies = <<>>
  BY ReadingType DEF Init
<1>2. OfUart(requests) = {}
  BY <1>1 DEF OfUart
<1>3. AnswersMatchQuestions /\ Asking
  BY <1>1, <1>2 DEF AnswersMatchQuestions, Asking
<1>4. CommandAges /\ RequestAges
  BY <1>1 DEF CommandAges, RequestAges, Prompt, AgesOf
<1> QED
  BY <1>3, <1>4, TypeInit DEF IInv

LEMMA InvNext == IInv /\ [Next]_vars => IInv'
<1>1. AnswersMatchQuestions <=> ParameterAnswers /\ FrameAnswers
  BY DEF AnswersMatchQuestions, ParameterAnswers, FrameAnswers
<1>2. AnswersMatchQuestions' <=> ParameterAnswers' /\ FrameAnswers'
  BY DEF AnswersMatchQuestions, ParameterAnswers, FrameAnswers
<1> QED
  BY <1>1, <1>2, TypeNext, AskingNext, ParameterAnswersNext, FrameAnswersNext, CommandAgesNext,
     RequestAgesNext DEF IInv

\* IInv is an inductive invariant of the communication tasks and their queues.
THEOREM Inductive == Spec => []IInv
<1> QED
  BY InvInit, InvNext, PTL DEF Spec

\* The queues never hold more than their capacity, and everything has its type.
THEOREM TypeCorrect == Spec => []TypeOK
<1>1. IInv => TypeOK
  BY DEF IInv
<1> QED
  BY <1>1, Inductive, PTL

\* For every capacity, batch and line: the UART task's question or the answer to
\* it is on its way as long as it waits, and no answer to anything else.
THEOREM AnswersMatchQuestionsHold == Spec => []AnswersMatchQuestions
<1>1. IInv => AnswersMatchQuestions
  BY DEF IInv
<1> QED
  BY <1>1, Inductive, PTL

\* For every capacity and batch: a message in a queue waits fewer turns than it
\* takes to empty a full one.
THEOREM MessagesArePromptHolds == Spec => []MessagesArePrompt
<1>1. IInv => MessagesArePrompt
  <2> SUFFICES ASSUME IInv PROVE MessagesArePrompt
    OBVIOUS
  <2>1. /\ commands \in Seq(Nat) /\ AgesOf(requests) \in Seq(Nat)
        /\ Taken("commands") \in Nat /\ Taken("requests") \in Nat
        /\ DOMAIN AgesOf(requests) = DOMAIN requests
        /\ CommandSlots \in Nat /\ RequestSlots \in Nat
    BY AgesFacts, TakenFacts, ChannelAssumption DEF IInv, TypeOK, AgesOf
  <2>2. ASSUME NEW f \in Seq(Nat), NEW slots \in Nat, NEW taken \in Nat,
               Prompt(f, slots, taken), NEW i \in DOMAIN f
        PROVE  f[i] * Batch < slots
    <3>1. f[i] \in Nat /\ i \in Nat /\ i >= 1
      BY <2>2
    <3>2. f[i] * Batch \in Nat
      BY <3>1, ProductIsNat, ChannelAssumption
    <3>3. f[i] * Batch + i + taken <= slots
      BY <2>2 DEF Prompt
    <3> QED
      BY <3>1, <3>2, <3>3
  <2>3. \A i \in DOMAIN commands : commands[i] * Batch < CommandSlots
    BY <2>1, <2>2 DEF IInv, CommandAges
  <2>4. \A i \in DOMAIN requests : AgesOf(requests)[i] * Batch < RequestSlots
    BY <2>1, <2>2 DEF IInv, RequestAges
  <2> QED
    BY <2>3, <2>4 DEF MessagesArePrompt, AgesOf
<1> QED
  BY <1>1, Inductive, PTL

-----------------------------------------------------------------------------
(* Frames are delivered. *)

\* While a frame that nothing has spoilt is under way, the UART task has held
\* back its first byte, and has been in a frame since the second.
FrameIsFound ==
  sender.intact = "yes" /\ sender.left > 0 =>
    IF sender.left = FrameBytes - 1 THEN receiver.pending /\ ~receiver.binary
    ELSE receiver.binary

\* An F outside a frame is held back, unless the line it would belong to is
\* thrown away.
LEMMA FirstByte ==
  ASSUME NEW r \in Receivers, ~r.binary, ~Flushed(r).discarding
  PROVE  Read(r, "F").pending /\ ~Read(r, "F").binary
<1>1. Flushed(r) \in Receivers /\ ~Flushed(r).binary
  BY FlushedFacts
<1>2. Read(r, "F") = [Flushed(r) EXCEPT !.pending = TRUE]
  BY DEF Read, Text
<1> QED
  BY <1>1, <1>2 DEF Receivers

\* A C behind it opens the frame.
LEMMA SecondByte ==
  ASSUME NEW r \in Receivers, ~r.binary, r.pending
  PROVE  Read(r, "C").binary
  BY DEF Read, Text, EmptyLine

LEMMA FrameInit == Init => FrameIsFound
  BY DEF Init, FrameIsFound

LEMMA FrameNext == TypeOK /\ FrameIsFound /\ [Next]_vars => FrameIsFound'
<1> SUFFICES ASSUME TypeOK, FrameIsFound, [Next]_vars PROVE FrameIsFound'
  OBVIOUS
<1>1. /\ FrameBytes \in Nat /\ FrameBytes > 2 /\ sender.left \in 0..FrameBytes - 1
      /\ sender \in [left : 0..FrameBytes - 1, intact : {"yes", "maybe", "no"}]
      /\ receiver \in Receivers
  BY ChannelAssumption DEF TypeOK
<1>2. CASE ReceiveByte
  <2>1. PICK byte \in Bytes, start \in BOOLEAN :
          /\ NextByte(byte)
          /\ (start => sender.left = 0 /\ byte = "F")
          /\ Sent(start) /\ receiver' = Read(receiver, byte)
    BY <1>2 DEF ReceiveByte
  <2>2. sender.left # 1
    BY <1>2 DEF ReceiveByte
  <2>3. CASE start
    <3>1. sender' = [left |-> FrameBytes - 1, intact |-> Opened] /\ byte = "F"
      BY <2>1, <2>3 DEF Sent
    <3>2. Opened = "yes" => ~receiver.binary /\ ~Flushed(receiver).discarding
      BY DEF Opened
    <3>3. Opened = "yes" => receiver'.pending /\ ~receiver'.binary
      BY <1>1, <2>1, <3>1, <3>2, FirstByte
    <3> QED
      BY <3>1, <3>3 DEF FrameIsFound
  <2>4. CASE ~start /\ sender.left = FrameBytes - 1
    <3>1. sender'.intact = sender.intact /\ sender'.left = FrameBytes - 2 /\ byte = "C"
      BY <1>1, <2>1, <2>4 DEF Sent, NextByte
    <3>2. sender.intact = "yes" => receiver.pending /\ ~receiver.binary
      BY <1>1, <2>4 DEF FrameIsFound
    <3>3. sender.intact = "yes" => receiver'.binary
      BY <1>1, <2>1, <3>1, <3>2, SecondByte
    <3> QED
      BY <1>1, <3>1, <3>3 DEF FrameIsFound
  <2>5. CASE ~start /\ sender.left # FrameBytes - 1
    <3>1. sender'.intact = sender.intact
      BY <1>1, <2>1, <2>5 DEF Sent
    <3>2. sender.left = 0 => sender'.left = 0
      BY <1>1, <2>1, <2>5 DEF Sent
    <3>3. sender.left > 0 => sender'.left = sender.left - 1
      BY <1>1, <2>1, <2>5 DEF Sent
    <3>4. sender.left > 0 /\ sender.intact = "yes" => receiver' = receiver /\ receiver.binary
      BY <2>1, <2>5 DEF FrameIsFound, Read
    <3> QED
      BY <1>1, <2>5, <3>1, <3>2, <3>3, <3>4 DEF FrameIsFound
  <2> QED
    BY <2>3, <2>4, <2>5
<1>3. CASE ReceiveLast
  <2>1. sender.left = 1 /\ Sent(FALSE)
    BY <1>3 DEF ReceiveLast
  <2>2. sender'.left = 0
    BY <1>1, <2>1 DEF Sent
  <2> QED
    BY <2>2 DEF FrameIsFound
<1>4. CASE LoseByte
  <2>1. sender'.intact = "no"
    BY <1>4 DEF LoseByte
  <2> QED
    BY <2>1 DEF FrameIsFound
<1>5. CASE Pause
  <2>1. sender'.left = 0
    BY <1>5 DEF Pause
  <2> QED
    BY <2>1 DEF FrameIsFound
<1>6. CASE UartTask \/ CanFrame \/ CanCommand \/ CanRequest \/ CanTransmit \/ CanTransmitted
             \/ Control \/ UNCHANGED vars
  <2>1. sender' = sender /\ receiver' = receiver
    BY <1>6 DEF UartTask, UartCommand, UartRequest, UartReply, UartFrame, UartFrameReply,
                CanFrame, CanCommand, CanRequest, CanTransmit, CanTransmitted,
                Control, ControlFrame, TakeCommand, EndCommands, TakeRequest, EndTurn, vars, bytes
  <2> QED
    BY <2>1 DEF FrameIsFound
<1> QED
  BY <1>2, <1>3, <1>4, <1>5, <1>6 DEF Next

\* A frame nothing has spoilt is where the UART task looks for it.
THEOREM FramesAreFound == Spec => []FrameIsFound
<1>1. TypeOK /\ FrameIsFound /\ TypeOK' /\ [Next]_vars => FrameIsFound'
  BY FrameNext
<1> QED
  BY <1>1, FrameInit, TypeCorrect, PTL DEF Spec

\* For every length of a frame and of a line, whatever bytes a frame holds: the
\* frame that arrives whole goes to the control task.
THEOREM FramesAreDeliveredHolds == Spec => FramesAreDelivered
<1>1. TypeOK /\ FrameIsFound /\ [Next]_vars =>
        [sender.left = 1 /\ sender'.left = 0 /\ sender'.intact = "yes" => uart'.at = "wire"]_vars
  <2> SUFFICES ASSUME TypeOK, FrameIsFound, Next, sender.left = 1, sender'.left = 0,
                      sender'.intact = "yes"
               PROVE  uart'.at = "wire"
    OBVIOUS
  <2>1. /\ FrameBytes \in Nat /\ FrameBytes > 2
        /\ sender \in [left : 0..FrameBytes - 1, intact : {"yes", "maybe", "no"}]
    BY ChannelAssumption DEF TypeOK
  <2>2. CASE ReceiveLast
    <3>1. sender'.intact = sender.intact
      BY <2>1, <2>2 DEF ReceiveLast, Sent
    <3>2. receiver.binary /\ sender.intact = "yes"
      BY <2>1, <3>1 DEF FrameIsFound
    <3>3. PICK kind \in FrameKinds : uart' = [Reading EXCEPT !.at = "wire", !.kind = kind]
      BY <2>2, <3>2 DEF ReceiveLast
    <3> QED
      BY <3>3 DEF Reading
  <2>3. CASE LoseByte
    BY <2>3 DEF LoseByte
  <2>4. CASE ReceiveByte \/ Pause
    BY <2>4 DEF ReceiveByte, Pause
  <2>5. CASE UartTask \/ CanFrame \/ CanCommand \/ CanRequest \/ CanTransmit \/ CanTransmitted
               \/ Control
    <3>1. sender' = sender
      BY <2>5 DEF UartTask, UartCommand, UartRequest, UartReply, UartFrame, UartFrameReply,
                  CanFrame, CanCommand, CanRequest, CanTransmit, CanTransmitted,
                  Control, ControlFrame, TakeCommand, EndCommands, TakeRequest, EndTurn, bytes
    <3> QED
      BY <3>1
  <2> QED
    BY <2>2, <2>3, <2>4, <2>5 DEF Next
<1> QED
  BY <1>1, TypeCorrect, FramesAreFound, PTL DEF Spec, FramesAreDelivered
=============================================================================
