----------------------------- MODULE BrokerProofs -----------------------------
(***************************************************************************)
(* Theorems about Broker: types, the order in which lines reach the        *)
(* controller, and whose answer acknowledges a command.                    *)
(***************************************************************************)
EXTENDS Broker, SequenceTheorems, TLAPS

(* A line passed from one queue to the one before it.                      *)
LEMMA Handover ==
    ASSUME NEW S, NEW a \in Seq(S), NEW b \in Seq(S), b # <<>>
    PROVE  /\ Append(a, Head(b)) \in Seq(S)
           /\ Tail(b) \in Seq(S)
           /\ Append(a, Head(b)) \o Tail(b) = a \o b
<1>1. Head(b) \in S /\ Tail(b) \in Seq(S) /\ Len(Tail(b)) = Len(b) - 1
      /\ Len(b) \in Nat \ {0} /\ \A i \in 1 .. Len(Tail(b)) : Tail(b)[i] = b[i + 1]
  BY HeadTailProperties, EmptySeq
<1>2. Append(a, Head(b)) \in Seq(S) /\ Len(Append(a, Head(b))) = Len(a) + 1
      /\ \A i \in 1 .. Len(a) : Append(a, Head(b))[i] = a[i]
      /\ Append(a, Head(b))[Len(a) + 1] = b[1] /\ Len(a) \in Nat
  BY <1>1
<1> DEFINE x == Append(a, Head(b))  t == Tail(b)
<1>3. x \o t \in Seq(S) /\ a \o b \in Seq(S)
      /\ Len(x \o t) = Len(x) + Len(t) /\ Len(a \o b) = Len(a) + Len(b)
  BY <1>1, <1>2, ConcatProperties
<1>4. \A i \in 1 .. Len(x) + Len(t) :
          (x \o t)[i] = IF i <= Len(x) THEN x[i] ELSE t[i - Len(x)]
  BY <1>1, <1>2, ConcatProperties
<1>5. \A i \in 1 .. Len(a) + Len(b) :
          (a \o b)[i] = IF i <= Len(a) THEN a[i] ELSE b[i - Len(a)]
  BY <1>1, ConcatProperties
<1> HIDE DEF x, t
<1>6. Len(x) = Len(a) + 1 /\ Len(t) = Len(b) - 1
      /\ (\A i \in 1 .. Len(a) : x[i] = a[i]) /\ x[Len(a) + 1] = b[1]
      /\ (\A i \in 1 .. Len(t) : t[i] = b[i + 1])
  BY <1>1, <1>2 DEF x, t
<1>7. ASSUME NEW i \in 1 .. Len(a \o b) PROVE (x \o t)[i] = (a \o b)[i]
  <2>1. i \in 1 .. Len(a) + Len(b) /\ i \in 1 .. Len(x) + Len(t)
    BY <1>1, <1>2, <1>3, <1>6
  <2>2. CASE i <= Len(a)
    <3>1. (a \o b)[i] = a[i] BY <2>1, <2>2, <1>5
    <3>2. (x \o t)[i] = x[i] BY <2>1, <2>2, <1>4, <1>6, <1>2
    <3> QED BY <3>1, <3>2, <2>1, <2>2, <1>6, <1>2
  <2>3. CASE i = Len(a) + 1
    <3>1. (a \o b)[i] = b[1] BY <2>1, <2>3, <1>5, <1>2
    <3>2. (x \o t)[i] = x[i] BY <2>1, <2>3, <1>4, <1>6, <1>2
    <3> QED BY <3>1, <3>2, <2>3, <1>6
  <2>4. CASE i > Len(a) + 1
    <3>1. (a \o b)[i] = b[i - Len(a)] BY <2>1, <2>4, <1>5, <1>2
    <3>2. (x \o t)[i] = t[i - (Len(a) + 1)] BY <2>1, <2>4, <1>4, <1>6, <1>2
    <3>3. i - (Len(a) + 1) \in 1 .. Len(t) BY <2>1, <2>4, <1>1, <1>2, <1>6
    <3>4. t[i - (Len(a) + 1)] = b[(i - (Len(a) + 1)) + 1] BY <3>3, <1>6
    <3>5. (i - (Len(a) + 1)) + 1 = i - Len(a) BY <2>1, <1>2
    <3> QED BY <3>1, <3>2, <3>4, <3>5
  <2> QED BY <2>1, <2>2, <2>3, <2>4, <1>2
<1>8. x \o t = a \o b
  <2>1. Len(x \o t) = Len(a \o b)
    BY <1>1, <1>2, <1>3, <1>6
  <2> QED BY <2>1, <1>3, <1>7, SeqEqual, Zenon
<1> QED
  BY <1>1, <1>2, <1>8 DEF x, t

----------------------------------------------------------------------------
(* Types.                                                                  *)

(* As long as System.run waits for ITCH it has a try left.                 *)
RetryLeft == spc \in {"start", "check"} => command_retry > 0

TypeInv == TypeOK /\ RetryLeft

LEMMA AnswerType ==
    ASSUME NEW l \in Line \ {Wake}, NEW w \in {"OK", "ERROR"}
    PROVE  [word |-> w, to |-> l] \in Response
BY DEF Response, Answer

LEMMA SendNextLineType ==
    ASSUME TypeOK, SendNextLine
    PROVE  /\ (brokerToInterfaceQ \in Seq(Line))' /\ (txQ \in Seq(Line))'
           /\ (last_line_sent \in Line)' /\ (owed \subseteq Line)'
BY Handover DEF TypeOK, SendNextLine

LEMMA GetLineType ==
    ASSUME TypeOK, GetLine
    PROVE  /\ (rxQ \in Seq(Response))' /\ (credited \in Response)'
           /\ (owed \subseteq Line)'
BY HeadTailProperties DEF TypeOK, GetLine

LEMMA TypeInit == Init => TypeInv
<1> SUFFICES ASSUME Init PROVE TypeInv
  OBVIOUS
<1>1. Wake \in Line /\ <<>> \in Seq(Line) /\ <<Wake>> \in Seq(Line)
      /\ <<>> \in Seq(Response) /\ Event \in Response
  BY DEF Line, Response
<1>2. tries \in 0 .. TRIES /\ command_retry \in 0 .. RETRIES /\ queued \in 0 .. L
      /\ command_retry > 0 /\ events \in Nat /\ lost \in Nat
  BY CountAssumption DEF Init
<1>3. itchActivated \in BOOLEAN /\ config_ack \in BOOLEAN /\ alone \in BOOLEAN
  BY DEF Init
<1> QED
  BY <1>1, <1>2, <1>3, Zenon DEF Init, TypeInv, RetryLeft, TypeOK

LEMMA AdaptorType == TypeOK /\ AdaptorStep => TypeOK'
<1> SUFFICES ASSUME TypeOK, AdaptorStep PROVE TypeOK'
  OBVIOUS
<1> USE DEF GoTo, queues, adaptor, system, device
<1>1. CASE TestMode
  BY <1>1 DEF TypeOK, TestMode
<1>2. CASE Relay
  BY <1>2, GetLineType DEF TypeOK, Relay
<1>3. CASE SendInLinemode
  BY <1>3, SendNextLineType DEF TypeOK, SendInLinemode
<1>4. CASE QueueEscape
  BY <1>4 DEF TypeOK, QueueEscape, Line, Escape
<1>5. CASE SendEscape
  BY <1>5, SendNextLineType DEF TypeOK, SendEscape
<1>6. CASE AwaitItch
  BY <1>6, GetLineType DEF TypeOK, AwaitItch
<1>7. CASE Configure
  BY <1>7 DEF TypeOK, Configure
<1>8. CASE CommandsThere \/ NoCommands \/ NoMoreCommands
  BY <1>8 DEF TypeOK, CommandsThere, NoCommands, NoMoreCommands
<1>9. CASE SendCommand
  <2>1. tries' \in 0 .. TRIES
    BY <1>9, CountAssumption DEF SendCommand
  <2>2. config_ack' \in BOOLEAN /\ alone' \in BOOLEAN
    BY <1>9 DEF SendCommand
  <2>3. SendNextLine
    BY <1>9 DEF SendCommand
  <2> QED BY <1>9, <2>1, <2>2, <2>3, SendNextLineType, Zenon DEF TypeOK, SendCommand
<1>10. CASE ReadResponse
  BY <1>10, GetLineType, CountAssumption DEF TypeOK, ReadResponse, IsAnswer
<1>11. CASE LookAtClock
  BY <1>11, CountAssumption DEF TypeOK, LookAtClock
<1>12. CASE ReturnToLinemode
  BY <1>12 DEF TypeOK, ReturnToLinemode
<1> QED
  BY <1>1, <1>2, <1>3, <1>4, <1>5, <1>6, <1>7, <1>8, <1>9, <1>10, <1>11, <1>12
     DEF AdaptorStep

LEMMA SystemType == TypeInv /\ SystemStep => TypeInv'
<1> SUFFICES ASSUME TypeInv, SystemStep PROVE TypeInv'
  OBVIOUS
<1> USE DEF queues, adaptor, device, TypeInv, RetryLeft
<1>1. CASE AskForItch
  BY <1>1 DEF TypeOK, AskForItch
<1>2. CASE CheckItch
  BY <1>2, CountAssumption DEF TypeOK, CheckItch
<1>3. CASE QueueCommand
  BY <1>3, CountAssumption DEF TypeOK, QueueCommand, Line, Command
<1>4. CASE AskToConfigure
  BY <1>4 DEF TypeOK, AskToConfigure
<1> QED
  BY <1>1, <1>2, <1>3, <1>4 DEF SystemStep

LEMMA LineType ==
    TypeOK /\ (ReadLine \/ WriteLine \/ AppendForSending \/ TakeLine \/ SayEvent) => TypeOK'
<1> SUFFICES ASSUME TypeOK,
                    ReadLine \/ WriteLine \/ AppendForSending \/ TakeLine \/ SayEvent
             PROVE  TypeOK'
  OBVIOUS
<1> USE DEF queues, adaptor, system, device
<1>1. CASE ReadLine
  BY <1>1, Handover DEF TypeOK, ReadLine
<1>2. CASE WriteLine
  BY <1>2, Handover DEF TypeOK, WriteLine
<1>3. CASE AppendForSending
  BY <1>3, Handover DEF TypeOK, AppendForSending
<1>4. CASE TakeLine
  <2>1. Head(toDevice) \in Line /\ received' \in Seq(Line) /\ toDevice' \in Seq(Line)
    BY <1>4, Handover, HeadTailProperties DEF TypeOK, TakeLine
  <2>2. lost' \in Nat
    BY <1>4 DEF TypeOK, TakeLine
  <2>3. fromDevice' \in Seq(Response)
    <3>1. CASE UNCHANGED fromDevice
      BY <3>1 DEF TypeOK
    <3>2. CASE Head(toDevice) # Wake /\ ~UNCHANGED fromDevice
      <4>1. PICK w \in {"OK", "ERROR"} :
                fromDevice' = Append(fromDevice, [word |-> w, to |-> Head(toDevice)])
        BY <1>4, <3>2 DEF TakeLine
      <4>2. [word |-> w, to |-> Head(toDevice)] \in Response
        BY <2>1, <3>2, AnswerType
      <4> QED BY <4>1, <4>2 DEF TypeOK
    <3> QED BY <1>4, <3>1, <3>2 DEF TakeLine
  <2> QED BY <1>4, <2>1, <2>2, <2>3 DEF TypeOK, TakeLine
<1>5. CASE SayEvent
  BY <1>5, BoundsAssumption DEF TypeOK, SayEvent, Response
<1> QED
  BY <1>1, <1>2, <1>3, <1>4, <1>5

LEMMA TypeNext == TypeInv /\ [Next]_vars => TypeInv'
<1>1. TypeOK /\ UNCHANGED vars => TypeOK'
  BY DEF TypeOK, vars, queues, adaptor, system, device
<1>2. ~SystemStep /\ [Next]_vars => UNCHANGED <<spc, command_retry>>
  BY DEF Next, vars, system, ReadLine, WriteLine, AppendForSending, TakeLine,
         SayEvent, AdaptorStep, TestMode, Relay, SendInLinemode, QueueEscape,
         SendEscape, AwaitItch, Configure, CommandsThere, NoCommands,
         SendCommand, NoMoreCommands, ReadResponse, LookAtClock,
         ReturnToLinemode
<1> QED
  BY <1>1, <1>2, AdaptorType, SystemType, LineType DEF Next, TypeInv, RetryLeft

(* Every variable of the broker keeps its type: in particular the adaptor  *)
(* never reads more than TRIES lines between two looks at the clock.       *)
THEOREM BrokerTypeCorrect == Spec => []TypeOK
<1>1. TypeInv => TypeOK
  BY DEF TypeInv
<1> QED
  BY <1>1, TypeInit, TypeNext, PTL DEF Spec
----------------------------------------------------------------------------
(* Where the threads can be at the same time.                              *)

Escaping == {"escape", "sendEscape", "awaitItch"}
Configuring == {"configure", "awaitCommands", "more", "await"}
InLinemode == {"test", "relay", "send"}

(* The adaptor is where the mode sends it, until it returns; each mode is  *)
(* asked for once; a command is queued only after ITCH has answered.       *)
Control ==
    /\ spc = "start" => /\ command = "RunLinemode" /\ apc \in InLinemode
                        /\ ~itchActivated
    /\ apc \in Escaping => command = "ActivateItch" /\ ~itchActivated
    /\ command = "ActivateItch" /\ apc # "return"
         => apc \in InLinemode \cup Escaping /\ ~itchActivated
    /\ apc \in Configuring => command = "ConfigureDevice"
    /\ command = "ConfigureDevice" => spc = "asleep"
    /\ spc \in {"queue", "asleep"} => itchActivated
    /\ queued > 0 => spc \in {"queue", "asleep"}
    /\ queued = 0 => mainBus = <<>>
    /\ config_ack => \/ command = "ConfigureDevice" /\ apc \in {"more", "return"}
                     \/ spc = "asleep" /\ command = "RunLinemode" /\ apc \in InLinemode

(* The escape sequence has been put in the queue.                          *)
Escaped == itchActivated \/ apc \in {"sendEscape", "awaitItch"}

(* Every line there is, in order.                                          *)
Ordered ==
    /\ Len(Lines) = queued + (IF Escaped THEN 2 ELSE 1)
    /\ \A i \in DOMAIN Lines : Lines[i] = i - 2

IInv == TypeInv /\ Control /\ Ordered

LEMMA ControlInit == Init => Control
BY DEF Init, Control, Escaping, Configuring, InLinemode

LEMMA ControlNext == TypeInv /\ Control /\ [Next]_vars => Control'
<1> SUFFICES ASSUME TypeInv, Control, [Next]_vars PROVE Control'
  OBVIOUS
<1> USE DEF Control, Escaping, Configuring, InLinemode, GoTo
<1>1. CASE UNCHANGED vars
  BY <1>1 DEF vars, queues, adaptor, system
<1>2. CASE ReadLine \/ WriteLine \/ TakeLine \/ SayEvent
  BY <1>2 DEF ReadLine, WriteLine, TakeLine, SayEvent, queues, adaptor, system
<1>3. CASE AppendForSending
  BY <1>3 DEF AppendForSending, adaptor, system
<1>4. CASE TestMode
  BY <1>4 DEF TestMode, queues, system, TypeInv, TypeOK
<1>5. CASE Relay \/ SendInLinemode \/ QueueEscape \/ SendEscape
  BY <1>5 DEF Relay, SendInLinemode, QueueEscape, SendEscape, system
<1>6. CASE AwaitItch
  BY <1>6 DEF AwaitItch, system
<1>7. CASE Configure \/ CommandsThere \/ NoCommands \/ NoMoreCommands
  BY <1>7 DEF Configure, CommandsThere, NoCommands, NoMoreCommands, queues, system
<1>8. CASE SendCommand
  BY <1>8 DEF SendCommand, system
<1>9. CASE ReadResponse
  BY <1>9 DEF ReadResponse, IsAnswer, system
<1>10. CASE LookAtClock
  BY <1>10 DEF LookAtClock, queues, system
<1>11. CASE ReturnToLinemode
  BY <1>11 DEF ReturnToLinemode, queues, system
<1>12. CASE AskForItch
  BY <1>12 DEF AskForItch, queues, adaptor
<1>13. CASE CheckItch
  BY <1>13 DEF CheckItch, queues, adaptor
<1>14. CASE QueueCommand
  BY <1>14 DEF QueueCommand, adaptor, TypeInv, TypeOK
<1>15. CASE AskToConfigure
  BY <1>15 DEF AskToConfigure, queues, adaptor
<1> QED
  BY <1>1, <1>2, <1>3, <1>4, <1>5, <1>6, <1>7, <1>8, <1>9, <1>10, <1>11, <1>12,
     <1>13, <1>14, <1>15 DEF Next, AdaptorStep, SystemStep
----------------------------------------------------------------------------
(* The order of the lines.  A line that changes hands leaves it as it is.  *)

LEMMA LinesType ==
    ASSUME TypeOK
    PROVE  /\ received \o toDevice \in Seq(Line)
           /\ received \o toDevice \o txQ \in Seq(Line)
           /\ received \o toDevice \o txQ \o brokerToInterfaceQ \in Seq(Line)
           /\ Lines \in Seq(Line)
<1>1. received \o toDevice \in Seq(Line)
  BY ConcatProperties DEF TypeOK
<1>2. received \o toDevice \o txQ \in Seq(Line)
  BY <1>1, ConcatProperties DEF TypeOK
<1>3. received \o toDevice \o txQ \o brokerToInterfaceQ \in Seq(Line)
  BY <1>2, ConcatProperties DEF TypeOK
<1> QED
  BY <1>1, <1>2, <1>3, ConcatProperties DEF TypeOK, Lines

LEMMA LinesHandover ==
    \A c, a, b \in Seq(Line) :
        b # <<>> => (c \o Append(a, Head(b))) \o Tail(b) = (c \o a) \o b
<1> TAKE c, a, b \in Seq(Line)
<1> HAVE b # <<>>
<1>1. Append(a, Head(b)) \in Seq(Line) /\ Tail(b) \in Seq(Line)
      /\ Append(a, Head(b)) \o Tail(b) = a \o b
  BY Handover
<1> DEFINE x == Append(a, Head(b))  t == Tail(b)
<1> HIDE DEF x, t
<1>2. x \in Seq(Line) /\ t \in Seq(Line) /\ x \o t = a \o b
  BY <1>1 DEF x, t
<1>3. \A p, q, r \in Seq(Line) : (p \o q) \o r = p \o (q \o r)
  BY ConcatAssociative
<1>4. (c \o x) \o t = c \o (x \o t) /\ (c \o a) \o b = c \o (a \o b)
  BY <1>2, <1>3, Zenon
<1>5. (c \o x) \o t = (c \o a) \o b
  BY <1>2, <1>4, Zenon
<1> QED
  BY <1>5 DEF x, t

LEMMA TakeLineKeeps == TypeOK /\ TakeLine => Lines' = Lines
<1> SUFFICES ASSUME TypeOK, TakeLine PROVE Lines' = Lines
  OBVIOUS
<1>1. received \in Seq(Line) /\ toDevice \in Seq(Line) /\ toDevice # <<>>
  BY DEF TypeOK, TakeLine
<1>2. Append(received, Head(toDevice)) \o Tail(toDevice) = received \o toDevice
  BY <1>1, Handover, Zenon
<1>3. /\ received' = Append(received, Head(toDevice)) /\ toDevice' = Tail(toDevice)
      /\ txQ' = txQ /\ brokerToInterfaceQ' = brokerToInterfaceQ /\ mainBus' = mainBus
  BY DEF TakeLine, queues
<1> QED
  BY <1>2, <1>3, Zenon DEF Lines

LEMMA WriteLineKeeps == TypeOK /\ WriteLine => Lines' = Lines
<1> SUFFICES ASSUME TypeOK, WriteLine PROVE Lines' = Lines
  OBVIOUS
<1>1. received \in Seq(Line) /\ toDevice \in Seq(Line) /\ txQ \in Seq(Line) /\ txQ # <<>>
  BY DEF TypeOK, WriteLine
<1>2. (received \o Append(toDevice, Head(txQ))) \o Tail(txQ) = (received \o toDevice) \o txQ
  BY <1>1, LinesHandover, Zenon
<1> QED
  BY <1>2, Zenon DEF Lines, WriteLine

LEMMA SendNextLineKeeps ==
    TypeOK /\ SendNextLine /\ UNCHANGED <<received, toDevice, mainBus>> => Lines' = Lines
<1> SUFFICES ASSUME TypeOK, SendNextLine, UNCHANGED <<received, toDevice, mainBus>>
             PROVE  Lines' = Lines
  OBVIOUS
<1>1. received \o toDevice \in Seq(Line) /\ txQ \in Seq(Line)
      /\ brokerToInterfaceQ \in Seq(Line) /\ brokerToInterfaceQ # <<>>
  BY LinesType DEF TypeOK, SendNextLine
<1>2. ((received \o toDevice) \o Append(txQ, Head(brokerToInterfaceQ)))
          \o Tail(brokerToInterfaceQ)
        = ((received \o toDevice) \o txQ) \o brokerToInterfaceQ
  BY <1>1, LinesHandover, Zenon
<1> QED
  BY <1>2, Zenon DEF Lines, SendNextLine

LEMMA AppendForSendingKeeps == TypeOK /\ AppendForSending => Lines' = Lines
<1> SUFFICES ASSUME TypeOK, AppendForSending PROVE Lines' = Lines
  OBVIOUS
<1>1. received \o toDevice \o txQ \in Seq(Line) /\ brokerToInterfaceQ \in Seq(Line)
      /\ mainBus \in Seq(Line) /\ mainBus # <<>>
  BY LinesType DEF TypeOK, AppendForSending
<1>2. ((received \o toDevice \o txQ) \o Append(brokerToInterfaceQ, Head(mainBus)))
          \o Tail(mainBus)
        = ((received \o toDevice \o txQ) \o brokerToInterfaceQ) \o mainBus
  BY <1>1, LinesHandover, Zenon
<1> QED
  BY <1>2, Zenon DEF Lines, AppendForSending, device

(* A new line comes last.                                                  *)
LEMMA NewLineLast ==
    \A a, b \in Seq(Line), e \in Line :
        /\ a \o Append(b, e) \in Seq(Line)
        /\ Len(a \o Append(b, e)) = Len(a \o b) + 1
        /\ \A i \in 1 .. Len(a \o b) : (a \o Append(b, e))[i] = (a \o b)[i]
        /\ (a \o Append(b, e))[Len(a \o b) + 1] = e
<1> TAKE a, b \in Seq(Line), e \in Line
<1> DEFINE c == Append(b, e)
<1>1. /\ c \in Seq(Line) /\ Len(c) = Len(b) + 1
      /\ \A i \in 1 .. Len(b) : c[i] = b[i]
      /\ c[Len(b) + 1] = e
  OBVIOUS
<1> HIDE DEF c
<1>n. Len(a) \in Nat /\ Len(b) \in Nat
  OBVIOUS
<1>2. /\ a \o b \in Seq(Line) /\ Len(a \o b) = Len(a) + Len(b)
      /\ \A i \in 1 .. Len(a) + Len(b) :
             (a \o b)[i] = IF i <= Len(a) THEN a[i] ELSE b[i - Len(a)]
  BY ConcatProperties
<1>3. /\ a \o c \in Seq(Line) /\ Len(a \o c) = Len(a) + Len(c)
      /\ \A i \in 1 .. Len(a) + Len(c) :
             (a \o c)[i] = IF i <= Len(a) THEN a[i] ELSE c[i - Len(a)]
  BY <1>1, ConcatProperties
<1>4. Len(a \o c) = Len(a \o b) + 1
  BY <1>n, <1>1, <1>2, <1>3
<1>5. ASSUME NEW i \in 1 .. Len(a \o b) PROVE (a \o c)[i] = (a \o b)[i]
  <2>1. i \in 1 .. Len(a) + Len(b) /\ i \in 1 .. Len(a) + Len(c)
    BY <1>n, <1>1, <1>2
  <2>2. CASE i <= Len(a)
    BY <2>1, <2>2, <1>n, <1>2, <1>3
  <2>3. CASE i > Len(a)
    <3>1. i - Len(a) \in 1 .. Len(b)
      BY <2>1, <2>3, <1>n, <1>2
    <3>2. (a \o b)[i] = b[i - Len(a)] /\ (a \o c)[i] = c[i - Len(a)]
      BY <2>1, <2>3, <1>n, <1>2, <1>3
    <3> QED BY <3>1, <3>2, <1>1
  <2> QED BY <2>1, <2>2, <2>3, <1>n, <1>2
<1>6. (a \o c)[Len(a \o b) + 1] = e
  <2>1. Len(a \o b) + 1 \in 1 .. Len(a) + Len(c) /\ Len(a \o b) + 1 > Len(a)
        /\ (Len(a \o b) + 1) - Len(a) = Len(b) + 1
    BY <1>n, <1>1, <1>2
  <2> QED BY <2>1, <1>n, <1>1, <1>2, <1>3
<1> QED
  BY <1>1, <1>3, <1>4, <1>5, <1>6 DEF c

LEMMA OrderedInit == Init => Ordered
<1> SUFFICES ASSUME Init PROVE Ordered
  OBVIOUS
<1>1. Lines = <<Wake>>
  BY DEF Init, Lines
<1>2. Len(Lines) = 1 /\ DOMAIN Lines = 1 .. 1 /\ Lines[1] = -1
  BY <1>1 DEF Wake
<1>3. ~Escaped /\ queued = 0
  BY DEF Init, Escaped
<1> QED
  BY <1>2, <1>3 DEF Ordered

LEMMA OrderedKept ==
    Ordered /\ Lines' = Lines /\ queued' = queued /\ Escaped' = Escaped => Ordered'
BY DEF Ordered

(* A line that is one more than the last keeps the order.                  *)
LEMMA OrderedLonger ==
    ASSUME TypeOK, Ordered, Lines' \in Seq(Line),
           Len(Lines') = Len(Lines) + 1,
           \A i \in 1 .. Len(Lines) : Lines'[i] = Lines[i],
           Lines'[Len(Lines) + 1] = Len(Lines) - 1,
           Len(Lines') = queued' + (IF Escaped' THEN 2 ELSE 1)
    PROVE  Ordered'
<1>1. Lines \in Seq(Line) /\ DOMAIN Lines = 1 .. Len(Lines) /\ Len(Lines) \in Nat
  BY LinesType
<1>2. DOMAIN Lines' = 1 .. Len(Lines) + 1
  BY <1>1
<1>3. ASSUME NEW i \in DOMAIN Lines' PROVE Lines'[i] = i - 2
  <2>1. CASE i \in 1 .. Len(Lines)
    BY <1>1, <2>1 DEF Ordered
  <2>2. CASE i = Len(Lines) + 1
    BY <1>1, <2>2
  <2> QED BY <1>1, <1>2, <2>1, <2>2
<1> QED
  BY <1>3 DEF Ordered

LEMMA OrderedQueueEscape == TypeInv /\ Control /\ Ordered /\ QueueEscape => Ordered'
<1> SUFFICES ASSUME TypeInv, Control, Ordered, QueueEscape PROVE Ordered'
  OBVIOUS
<1> DEFINE head == received \o toDevice \o txQ
<1>1. TypeOK /\ head \in Seq(Line) /\ brokerToInterfaceQ \in Seq(Line) /\ Escape \in Line
  BY LinesType DEF TypeInv, TypeOK, Line
<1>2. queued = 0 /\ mainBus = <<>> /\ ~Escaped
  BY DEF TypeInv, TypeOK, Control, QueueEscape, GoTo, Escaping, Escaped
<1>3. /\ queued' = 0 /\ mainBus' = <<>> /\ Escaped'
      /\ brokerToInterfaceQ' = Append(brokerToInterfaceQ, Escape)
      /\ received' = received /\ toDevice' = toDevice /\ txQ' = txQ
  BY <1>2 DEF QueueEscape, GoTo, Escaped, system, device
<1>4. head \o brokerToInterfaceQ \in Seq(Line)
      /\ head \o Append(brokerToInterfaceQ, Escape) \in Seq(Line)
  BY <1>1, NewLineLast, ConcatProperties
<1>5. \A s \in Seq(Line) : s \o <<>> = s
  BY ConcatEmptySeq
<1>6. Lines = head \o brokerToInterfaceQ
  BY <1>2, <1>4, <1>5, Zenon DEF Lines
<1>7. Lines' = head \o Append(brokerToInterfaceQ, Escape)
  BY <1>3, <1>4, <1>5, Zenon DEF Lines
<1> HIDE DEF head
<1>8. Len(Lines) = 1
  BY <1>2 DEF Ordered
<1>9. /\ Lines' \in Seq(Line) /\ Len(Lines') = Len(Lines) + 1
      /\ \A i \in 1 .. Len(Lines) : Lines'[i] = Lines[i]
      /\ Lines'[Len(Lines) + 1] = Escape
  BY <1>1, <1>6, <1>7, NewLineLast, Zenon
<1>10. Lines'[Len(Lines) + 1] = Len(Lines) - 1
  BY <1>8, <1>9 DEF Escape
<1>11. Len(Lines') = queued' + (IF Escaped' THEN 2 ELSE 1)
  BY <1>3, <1>8, <1>9
<1> QED
  BY <1>1, <1>9, <1>10, <1>11, OrderedLonger

LEMMA OrderedQueueCommand == TypeInv /\ Control /\ Ordered /\ QueueCommand => Ordered'
<1> SUFFICES ASSUME TypeInv, Control, Ordered, QueueCommand PROVE Ordered'
  OBVIOUS
<1> DEFINE head == received \o toDevice \o txQ \o brokerToInterfaceQ
<1>1. TypeOK /\ head \in Seq(Line) /\ mainBus \in Seq(Line) /\ queued + 1 \in Line
  BY LinesType, CountAssumption DEF TypeInv, TypeOK, Line, Command, QueueCommand
<1>2. Escaped /\ queued \in Nat
  BY DEF TypeInv, TypeOK, Control, QueueCommand, Escaped
<1>3. /\ queued' = queued + 1 /\ mainBus' = Append(mainBus, queued + 1)
      /\ brokerToInterfaceQ' = brokerToInterfaceQ
      /\ received' = received /\ toDevice' = toDevice /\ txQ' = txQ
      /\ Escaped'
  BY <1>2 DEF QueueCommand, Escaped, adaptor, device
<1>4. Lines = head \o mainBus /\ Lines' = head \o Append(mainBus, queued + 1)
  BY <1>3, Zenon DEF Lines
<1> HIDE DEF head
<1>5. Len(Lines) = queued + 2
  BY <1>2 DEF Ordered
<1>6. /\ Lines' \in Seq(Line) /\ Len(Lines') = Len(Lines) + 1
      /\ \A i \in 1 .. Len(Lines) : Lines'[i] = Lines[i]
      /\ Lines'[Len(Lines) + 1] = queued + 1
  BY <1>1, <1>4, NewLineLast, Zenon
<1>7. Lines'[Len(Lines) + 1] = Len(Lines) - 1
  BY <1>2, <1>5, <1>6
<1>8. Len(Lines') = queued' + (IF Escaped' THEN 2 ELSE 1)
  BY <1>2, <1>3, <1>5, <1>6
<1> QED
  BY <1>1, <1>6, <1>7, <1>8, OrderedLonger

LEMMA OrderedNext == TypeInv /\ Control /\ Ordered /\ [Next]_vars => Ordered'
<1> SUFFICES ASSUME TypeInv, Control, Ordered, [Next]_vars PROVE Ordered'
  OBVIOUS
<1>t. TypeOK
  BY DEF TypeInv
<1> USE DEF GoTo, Escaped
<1>1. CASE UNCHANGED vars
  <2>1. Lines' = Lines
    BY <1>1 DEF vars, queues, device, Lines
  <2> QED BY <1>1, <2>1, OrderedKept DEF vars, adaptor, system
<1>2. CASE ReadLine \/ SayEvent
  <2>1. Lines' = Lines
    BY <1>2 DEF ReadLine, SayEvent, queues, Lines
  <2> QED BY <1>2, <2>1, OrderedKept DEF ReadLine, SayEvent, adaptor, system
<1>3. CASE TakeLine
  BY <1>3, <1>t, TakeLineKeeps, OrderedKept DEF TakeLine, adaptor, system
<1>4. CASE WriteLine
  BY <1>4, <1>t, WriteLineKeeps, OrderedKept DEF WriteLine, adaptor, system
<1>5. CASE AppendForSending
  BY <1>5, <1>t, AppendForSendingKeeps, OrderedKept DEF AppendForSending, adaptor, system
<1>6. CASE SendInLinemode
  <2>1. Lines' = Lines
    <3>1. CASE brokerToInterfaceQ = <<>>
      BY <1>6, <3>1 DEF SendInLinemode, device, Lines
    <3>2. CASE brokerToInterfaceQ # <<>>
      BY <1>6, <3>2, <1>t, SendNextLineKeeps DEF SendInLinemode, device
    <3> QED BY <3>1, <3>2
  <2> QED BY <1>6, <2>1, OrderedKept DEF SendInLinemode, system
<1>7. CASE SendEscape \/ SendCommand
  <2>1. Lines' = Lines
    BY <1>7, <1>t, SendNextLineKeeps DEF SendEscape, SendCommand, device
  <2>2. Escaped' = Escaped
    BY <1>7 DEF SendEscape, SendCommand
  <2> QED BY <1>7, <2>1, <2>2, OrderedKept DEF SendEscape, SendCommand, system
<1>8. CASE QueueEscape
  BY <1>8, OrderedQueueEscape
<1>9. CASE QueueCommand
  BY <1>9, OrderedQueueCommand
<1>10. CASE TestMode \/ Relay \/ AwaitItch \/ Configure \/ CommandsThere \/ NoCommands
            \/ NoMoreCommands \/ ReadResponse \/ LookAtClock \/ ReturnToLinemode
  <2> USE DEF TestMode, Relay, AwaitItch, Configure, CommandsThere, NoCommands,
              NoMoreCommands, ReadResponse, LookAtClock, ReturnToLinemode, GetLine
  <2>1. Lines' = Lines
    BY <1>10 DEF queues, device, Lines
  <2>2. Escaped' = Escaped
    BY <1>10 DEF TypeInv, TypeOK, IsAnswer
  <2>3. queued' = queued
    BY <1>10 DEF system
  <2> QED BY <2>1, <2>2, <2>3, OrderedKept
<1>11. CASE AskForItch \/ CheckItch \/ AskToConfigure
  <2> USE DEF AskForItch, CheckItch, AskToConfigure
  <2>1. Lines' = Lines
    BY <1>11 DEF queues, device, Lines
  <2> QED BY <1>11, <2>1, OrderedKept DEF adaptor
<1> QED
  BY <1>1, <1>2, <1>3, <1>4, <1>5, <1>6, <1>7, <1>8, <1>9, <1>10, <1>11
     DEF Next, AdaptorStep, SystemStep

LEMMA InvInit == Init => IInv
BY TypeInit, ControlInit, OrderedInit DEF IInv

LEMMA InvNext == IInv /\ [Next]_vars => IInv'
BY TypeNext, ControlNext, OrderedNext DEF IInv

LEMMA InvImplies == IInv => LinesInOrder
<1> SUFFICES ASSUME IInv PROVE LinesInOrder
  OBVIOUS
<1>1. queued \in 0 .. L /\ L \in Nat
  BY CountAssumption DEF IInv, TypeInv, TypeOK
<1>2. Len(Lines) <= L + 2
  BY <1>1 DEF IInv, Ordered
<1> QED
  BY <1>2 DEF IInv, Ordered, LinesInOrder

(* The controller gets the lines in the order of the bus, none lost and    *)
(* none twice, for any number of commands and any interleaving.            *)
THEOREM BrokerKeepsOrder == Spec => []LinesInOrder
BY InvInit, InvNext, InvImplies, PTL DEF Spec
----------------------------------------------------------------------------
(* Whose answer it is.  Every line on its way to the controller and every  *)
(* answer on its way back is owed, and no two of them are about the same   *)
(* line: so if nothing was owed when a command was sent, the first answer  *)
(* to come back is the command's.                                          *)

Responses == rxQ \o fromDevice
IsReply(r) == r.word # "text"

Owing ==
    /\ \A i \in 1 .. Len(txQ) : txQ[i] # Wake => txQ[i] \in owed
    /\ \A i \in 1 .. Len(toDevice) : toDevice[i] # Wake => toDevice[i] \in owed
    /\ \A i \in 1 .. Len(Responses) : IsReply(Responses[i]) =>
           Responses[i].to \in owed /\ Responses[i].to <= Len(received) - 2

Distinct ==
    \A i, j \in 1 .. Len(Responses) :
        i < j /\ IsReply(Responses[i]) /\ IsReply(Responses[j])
            => Responses[i].to # Responses[j].to

OwnAnswer == /\ apc = "await" /\ alone => owed \subseteq {last_line_sent}
             /\ AckIsOwn

LEMMA ConcatIndex ==
    \A a, b \in Seq(Line) :
        /\ Len(a \o b) = Len(a) + Len(b)
        /\ \A i \in 1 .. Len(a) : i \in 1 .. Len(a \o b) /\ (a \o b)[i] = a[i]
        /\ \A i \in 1 .. Len(b) :
               Len(a) + i \in 1 .. Len(a \o b) /\ (a \o b)[Len(a) + i] = b[i]
<1> TAKE a, b \in Seq(Line)
<1>1. Len(a) \in Nat /\ Len(b) \in Nat /\ Len(a \o b) = Len(a) + Len(b)
  BY ConcatProperties
<1>2. \A i \in 1 .. Len(a) + Len(b) :
          (a \o b)[i] = IF i <= Len(a) THEN a[i] ELSE b[i - Len(a)]
  BY ConcatProperties
<1>3. ASSUME NEW i \in 1 .. Len(b) PROVE (a \o b)[Len(a) + i] = b[i]
  <2>1. Len(a) + i \in 1 .. Len(a) + Len(b) /\ Len(a) + i > Len(a) /\ (Len(a) + i) - Len(a) = i
    BY <1>1
  <2> QED BY <2>1, <1>1, <1>2
<1>4. ASSUME NEW i \in 1 .. Len(a) PROVE (a \o b)[i] = a[i]
  BY <1>1, <1>2
<1> QED
  BY <1>1, <1>3, <1>4

(* Lines on their way come after those the controller has taken.           *)
LEMMA Positions ==
    ASSUME TypeOK, Ordered
    PROVE  /\ \A i \in 1 .. Len(toDevice) : toDevice[i] = Len(received) + i - 2
           /\ \A i \in 1 .. Len(txQ) : txQ[i] = Len(received) + Len(toDevice) + i - 2
<1> DEFINE p == received \o toDevice
           q == p \o txQ
           u == q \o brokerToInterfaceQ
<1>1. /\ received \in Seq(Line) /\ toDevice \in Seq(Line) /\ txQ \in Seq(Line)
      /\ brokerToInterfaceQ \in Seq(Line) /\ mainBus \in Seq(Line)
      /\ p \in Seq(Line) /\ q \in Seq(Line) /\ u \in Seq(Line)
  BY LinesType DEF TypeOK
<1>2. Lines = u \o mainBus
  BY Zenon DEF Lines
<1>3. p = received \o toDevice /\ q = p \o txQ /\ u = q \o brokerToInterfaceQ
  OBVIOUS
<1> HIDE DEF p, q, u
<1>4. /\ \A i \in 1 .. Len(q) : i \in 1 .. Len(u) /\ u[i] = q[i]
      /\ \A i \in 1 .. Len(u) : i \in 1 .. Len(Lines) /\ Lines[i] = u[i]
  <2>1. \A i \in 1 .. Len(q) : i \in 1 .. Len(q \o brokerToInterfaceQ)
                                /\ (q \o brokerToInterfaceQ)[i] = q[i]
    BY <1>1, ConcatIndex, Zenon
  <2>2. \A i \in 1 .. Len(u) : i \in 1 .. Len(u \o mainBus) /\ (u \o mainBus)[i] = u[i]
    BY <1>1, ConcatIndex, Zenon
  <2> QED BY <2>1, <2>2, <1>2, <1>3
<1>5. \A i \in 1 .. Len(q) : q[i] = i - 2
  <2>1. \A i \in 1 .. Len(Lines) : Lines[i] = i - 2
    BY LinesType DEF Ordered
  <2> QED BY <2>1, <1>4, Zenon
<1>6. /\ Len(p) = Len(received) + Len(toDevice)
      /\ \A i \in 1 .. Len(toDevice) : Len(received) + i \in 1 .. Len(p)
                                       /\ p[Len(received) + i] = toDevice[i]
      /\ \A i \in 1 .. Len(p) : i \in 1 .. Len(q) /\ q[i] = p[i]
      /\ \A i \in 1 .. Len(txQ) : Len(p) + i \in 1 .. Len(q) /\ q[Len(p) + i] = txQ[i]
  <2> DEFINE rt == received \o toDevice
             pt == p \o txQ
  <2>1. /\ Len(rt) = Len(received) + Len(toDevice)
        /\ \A i \in 1 .. Len(toDevice) : Len(received) + i \in 1 .. Len(rt)
                                         /\ rt[Len(received) + i] = toDevice[i]
    BY <1>1, ConcatIndex, Zenon
  <2>2. /\ \A i \in 1 .. Len(p) : i \in 1 .. Len(pt) /\ pt[i] = p[i]
        /\ \A i \in 1 .. Len(txQ) : Len(p) + i \in 1 .. Len(pt) /\ pt[Len(p) + i] = txQ[i]
    BY <1>1, ConcatIndex, Zenon
  <2> QED BY <2>1, <2>2, <1>3
<1>7. Len(received) \in Nat /\ Len(toDevice) \in Nat
  BY <1>1
<1>8. ASSUME NEW i \in 1 .. Len(toDevice) PROVE toDevice[i] = Len(received) + i - 2
  <2>1. toDevice[i] = p[Len(received) + i] /\ Len(received) + i \in 1 .. Len(p)
    BY <1>6
  <2>2. toDevice[i] = (Len(received) + i) - 2
    BY <2>1, <1>5, <1>6
  <2> QED BY <2>2, <1>7
<1>9. ASSUME NEW i \in 1 .. Len(txQ)
      PROVE  txQ[i] = Len(received) + Len(toDevice) + i - 2
  <2>1. txQ[i] = (Len(p) + i) - 2
    BY <1>5, <1>6
  <2> QED BY <2>1, <1>6, <1>7
<1> QED
  BY <1>8, <1>9

LEMMA ResponsesType ==
    ASSUME TypeOK
    PROVE  Responses \in Seq(Response) /\ Len(Responses) \in Nat
BY ConcatProperties, LenProperties DEF TypeOK, Responses

LEMMA ResponsesHandover == TypeOK /\ ReadLine => Responses' = Responses
<1> SUFFICES ASSUME TypeOK, ReadLine PROVE Responses' = Responses
  OBVIOUS
<1>1. rxQ \in Seq(Response) /\ fromDevice \in Seq(Response) /\ fromDevice # <<>>
  BY DEF TypeOK, ReadLine
<1>2. Append(rxQ, Head(fromDevice)) \o Tail(fromDevice) = rxQ \o fromDevice
  BY <1>1, Handover, Zenon
<1> QED
  BY <1>2, Zenon DEF Responses, ReadLine

(* Reading a response takes the first off.                                 *)
LEMMA ResponsesRead ==
    ASSUME TypeOK, rxQ # <<>>, rxQ' = Tail(rxQ), fromDevice' = fromDevice
    PROVE  /\ Len(Responses) > 0 /\ Head(rxQ) = Responses[1]
           /\ Len(Responses') = Len(Responses) - 1
           /\ \A i \in 1 .. Len(Responses') : Responses'[i] = Responses[i + 1]
<1>1. /\ rxQ \in Seq(Response) /\ fromDevice \in Seq(Response)
      /\ Len(rxQ) \in Nat \ {0} /\ Len(fromDevice) \in Nat
      /\ Tail(rxQ) \in Seq(Response) /\ Len(Tail(rxQ)) = Len(rxQ) - 1
      /\ Head(rxQ) = rxQ[1]
      /\ \A i \in 1 .. Len(Tail(rxQ)) : Tail(rxQ)[i] = rxQ[i + 1]
  BY HeadTailProperties, EmptySeq DEF TypeOK
<1>2. /\ Len(rxQ \o fromDevice) = Len(rxQ) + Len(fromDevice)
      /\ \A i \in 1 .. Len(rxQ) + Len(fromDevice) : (rxQ \o fromDevice)[i] =
             IF i <= Len(rxQ) THEN rxQ[i] ELSE fromDevice[i - Len(rxQ)]
  BY <1>1, ConcatProperties
<1> DEFINE t == Tail(rxQ)
<1> HIDE DEF t
<1>3. /\ t \in Seq(Response) /\ Len(t) = Len(rxQ) - 1
      /\ \A i \in 1 .. Len(t) : t[i] = rxQ[i + 1]
  BY <1>1 DEF t
<1>4. /\ Len(t \o fromDevice) = Len(t) + Len(fromDevice)
      /\ \A i \in 1 .. Len(t) + Len(fromDevice) : (t \o fromDevice)[i] =
             IF i <= Len(t) THEN t[i] ELSE fromDevice[i - Len(t)]
  BY <1>1, <1>3, ConcatProperties
<1>5. Responses = rxQ \o fromDevice /\ Responses' = t \o fromDevice
  BY DEF Responses, t
<1>6. Len(Responses) > 0 /\ Head(rxQ) = Responses[1]
      /\ Len(Responses') = Len(Responses) - 1
  BY <1>1, <1>2, <1>3, <1>4, <1>5
<1>7. ASSUME NEW i \in 1 .. Len(Responses') PROVE Responses'[i] = Responses[i + 1]
  <2>1. i \in 1 .. Len(t) + Len(fromDevice) /\ i + 1 \in 1 .. Len(rxQ) + Len(fromDevice)
    BY <1>1, <1>3, <1>4, <1>5
  <2>2. CASE i <= Len(t)
    <3>1. i \in 1 .. Len(t) /\ i + 1 <= Len(rxQ)
      BY <2>1, <2>2, <1>1, <1>3
    <3> QED BY <3>1, <2>1, <2>2, <1>2, <1>3, <1>4, <1>5
  <2>3. CASE i > Len(t)
    <3>1. ~(i + 1 <= Len(rxQ)) /\ ~(i <= Len(t)) /\ (i + 1) - Len(rxQ) = i - Len(t)
      BY <2>1, <2>3, <1>1, <1>3
    <3> QED BY <3>1, <2>1, <1>2, <1>4, <1>5
  <2> QED BY <2>1, <2>2, <2>3, <1>1, <1>3
<1> QED
  BY <1>6, <1>7

(* What the controller says comes last.                                    *)
LEMMA ResponsesLonger ==
    ASSUME TypeOK, NEW r \in Response,
           rxQ' = rxQ, fromDevice' = Append(fromDevice, r)
    PROVE  /\ Len(Responses') = Len(Responses) + 1
           /\ \A i \in 1 .. Len(Responses) : Responses'[i] = Responses[i]
           /\ Responses'[Len(Responses) + 1] = r
<1>1. /\ rxQ \in Seq(Response) /\ fromDevice \in Seq(Response)
      /\ Len(rxQ) \in Nat /\ Len(fromDevice) \in Nat
  BY DEF TypeOK
<1> DEFINE t == Append(fromDevice, r)
<1>2. /\ t \in Seq(Response) /\ Len(t) = Len(fromDevice) + 1
      /\ \A i \in 1 .. Len(fromDevice) : t[i] = fromDevice[i]
      /\ t[Len(fromDevice) + 1] = r
  BY <1>1
<1> HIDE DEF t
<1>3. /\ Len(rxQ \o fromDevice) = Len(rxQ) + Len(fromDevice)
      /\ \A i \in 1 .. Len(rxQ) + Len(fromDevice) : (rxQ \o fromDevice)[i] =
             IF i <= Len(rxQ) THEN rxQ[i] ELSE fromDevice[i - Len(rxQ)]
  BY <1>1, ConcatProperties
<1>4. /\ Len(rxQ \o t) = Len(rxQ) + Len(t)
      /\ \A i \in 1 .. Len(rxQ) + Len(t) : (rxQ \o t)[i] =
             IF i <= Len(rxQ) THEN rxQ[i] ELSE t[i - Len(rxQ)]
  BY <1>1, <1>2, ConcatProperties
<1>5. Responses = rxQ \o fromDevice /\ Responses' = rxQ \o t
  BY DEF Responses, t
<1>6. Len(Responses') = Len(Responses) + 1
  BY <1>1, <1>2, <1>3, <1>4, <1>5
<1>7. ASSUME NEW i \in 1 .. Len(Responses) PROVE Responses'[i] = Responses[i]
  <2>1. i \in 1 .. Len(rxQ) + Len(fromDevice) /\ i \in 1 .. Len(rxQ) + Len(t)
    BY <1>1, <1>2, <1>3, <1>5
  <2>2. CASE i <= Len(rxQ)
    BY <2>1, <2>2, <1>3, <1>4, <1>5
  <2>3. CASE i > Len(rxQ)
    <3>1. ~(i <= Len(rxQ)) /\ i - Len(rxQ) \in 1 .. Len(fromDevice)
      BY <2>1, <2>3, <1>1
    <3> QED BY <3>1, <2>1, <1>2, <1>3, <1>4, <1>5
  <2> QED BY <2>1, <2>2, <2>3, <1>1
<1>8. Responses'[Len(Responses) + 1] = r
  <2>1. /\ Len(Responses) + 1 \in 1 .. Len(rxQ) + Len(t)
        /\ ~(Len(Responses) + 1 <= Len(rxQ))
        /\ (Len(Responses) + 1) - Len(rxQ) = Len(fromDevice) + 1
    BY <1>1, <1>2, <1>3, <1>5
  <2> QED BY <2>1, <1>2, <1>4, <1>5
<1> QED
  BY <1>6, <1>7, <1>8

Answered == Owing /\ Distinct

LEMMA AnsweredInit == Init => Answered
<1> SUFFICES ASSUME Init PROVE Answered
  OBVIOUS
<1>1. Len(txQ) = 0 /\ Len(toDevice) = 0 /\ Len(Responses) = 0
  BY DEF Init, Responses
<1> QED
  BY <1>1 DEF Answered, Owing, Distinct

LEMMA AnsweredKept ==
    ASSUME Answered, Responses' = Responses,
           UNCHANGED <<txQ, toDevice, received, owed>>
    PROVE  Answered'
BY DEF Answered, Owing, Distinct, IsReply

LEMMA AnsweredReadLine == TypeOK /\ Answered /\ ReadLine => Answered'
BY ResponsesHandover, AnsweredKept DEF ReadLine, adaptor

LEMMA AnsweredWriteLine == TypeOK /\ Answered /\ WriteLine => Answered'
<1> SUFFICES ASSUME TypeOK, Answered, WriteLine PROVE Answered'
  OBVIOUS
<1>1. /\ txQ \in Seq(Line) /\ txQ # <<>> /\ toDevice \in Seq(Line)
      /\ txQ' = Tail(txQ) /\ toDevice' = Append(toDevice, Head(txQ))
      /\ owed' = owed /\ received' = received /\ Responses' = Responses
  BY DEF TypeOK, WriteLine, Responses, adaptor
<1>2. /\ Len(txQ) \in Nat \ {0} /\ Head(txQ) = txQ[1] /\ Len(txQ') = Len(txQ) - 1
      /\ \A i \in 1 .. Len(txQ') : txQ'[i] = txQ[i + 1]
  BY <1>1, HeadTailProperties, EmptySeq
<1>3. /\ Len(toDevice) \in Nat /\ Len(toDevice') = Len(toDevice) + 1
      /\ toDevice'[Len(toDevice) + 1] = txQ[1]
      /\ \A i \in 1 .. Len(toDevice) : toDevice'[i] = toDevice[i]
  BY <1>1, <1>2
<1>4. ASSUME NEW i \in 1 .. Len(txQ'), txQ'[i] # Wake PROVE txQ'[i] \in owed
  <2>1. i + 1 \in 1 .. Len(txQ)
    BY <1>2
  <2> QED BY <2>1, <1>2, <1>4 DEF Answered, Owing
<1>5. ASSUME NEW i \in 1 .. Len(toDevice'), toDevice'[i] # Wake PROVE toDevice'[i] \in owed
  <2>1. i \in 1 .. Len(toDevice) \/ i = Len(toDevice) + 1
    BY <1>3
  <2>2. 1 \in 1 .. Len(txQ)
    BY <1>2
  <2> QED BY <2>1, <2>2, <1>3, <1>5 DEF Answered, Owing
<1> QED
  BY <1>1, <1>4, <1>5 DEF Answered, Owing, Distinct, IsReply

LEMMA AnsweredSendNextLine ==
    ASSUME TypeOK, Answered, SendNextLine, UNCHANGED <<rxQ, fromDevice, toDevice, received>>
    PROVE  Answered'
<1> DEFINE line == Head(brokerToInterfaceQ)
<1>1. /\ txQ \in Seq(Line) /\ line \in Line /\ txQ' = Append(txQ, line)
      /\ owed' = owed \cup ({line} \ {Wake}) /\ Responses' = Responses
  BY HeadTailProperties DEF TypeOK, SendNextLine, Responses
<1> HIDE DEF line
<1>2. /\ Len(txQ) \in Nat /\ Len(txQ') = Len(txQ) + 1 /\ txQ'[Len(txQ) + 1] = line
      /\ \A i \in 1 .. Len(txQ) : txQ'[i] = txQ[i]
  BY <1>1
<1>3. ASSUME NEW i \in 1 .. Len(txQ'), txQ'[i] # Wake PROVE txQ'[i] \in owed'
  <2>1. i \in 1 .. Len(txQ) \/ i = Len(txQ) + 1
    BY <1>2
  <2> QED BY <2>1, <1>1, <1>2, <1>3 DEF Answered, Owing
<1>4. owed \subseteq owed'
  BY <1>1
<1> QED
  BY <1>1, <1>3, <1>4 DEF Answered, Owing, Distinct, IsReply

(* A reply that is read is no longer owed, and nothing else is forgotten.  *)
LEMMA AnsweredGetLine ==
    ASSUME TypeOK, Ordered, Answered, GetLine,
           UNCHANGED <<fromDevice, txQ, toDevice, received>>
    PROVE  Answered'
<1> DEFINE r == Head(rxQ)
<1>1. /\ Len(Responses) > 0 /\ r = Responses[1]
      /\ Len(Responses') = Len(Responses) - 1
      /\ \A i \in 1 .. Len(Responses') : Responses'[i] = Responses[i + 1]
  BY ResponsesRead DEF GetLine
<1>2. r \in Response /\ owed' = owed \ {r.to} /\ Len(Responses) \in Nat
      /\ Len(received) \in Nat /\ Len(toDevice) \in Nat /\ Len(txQ) \in Nat
  BY HeadTailProperties, ResponsesType DEF TypeOK, GetLine
<1> HIDE DEF r
<1>3. CASE ~IsReply(r)
  <2>1. r.to = Wake
    BY <1>2, <1>3 DEF IsReply, Response, Answer, Event
  <2>2. ASSUME NEW i \in 1 .. Len(txQ), txQ[i] # Wake PROVE txQ[i] \in owed'
    BY <2>1, <2>2, <1>2 DEF Answered, Owing
  <2>3. ASSUME NEW i \in 1 .. Len(toDevice), toDevice[i] # Wake PROVE toDevice[i] \in owed'
    BY <2>1, <2>3, <1>2 DEF Answered, Owing
  <2>4. ASSUME NEW i \in 1 .. Len(Responses'), IsReply(Responses'[i])
        PROVE  Responses'[i].to \in owed' /\ Responses'[i].to <= Len(received) - 2
    <3>1. i + 1 \in 1 .. Len(Responses) /\ Responses'[i] = Responses[i + 1]
      BY <1>1, <1>2
    <3>2. Responses[i + 1].to \in owed /\ Responses[i + 1].to <= Len(received) - 2
      BY <3>1, <2>4 DEF Answered, Owing
    <3>3. Responses[i + 1] \in Response
      BY <3>1, ResponsesType
    <3>4. Responses[i + 1].to # Wake
      BY <3>1, <3>3, <2>4 DEF IsReply, Response, Answer, Event
    <3> QED BY <3>1, <3>2, <3>4, <2>1, <1>2
  <2>5. Owing'
    BY <2>2, <2>3, <2>4 DEF Owing
  <2>6. Distinct'
    <3> SUFFICES ASSUME NEW i \in 1 .. Len(Responses'), NEW j \in 1 .. Len(Responses'),
                        i < j, IsReply(Responses'[i]), IsReply(Responses'[j])
                 PROVE  Responses'[i].to # Responses'[j].to
      BY DEF Distinct, IsReply
    <3>1. /\ i + 1 \in 1 .. Len(Responses) /\ j + 1 \in 1 .. Len(Responses) /\ i + 1 < j + 1
          /\ Responses'[i] = Responses[i + 1] /\ Responses'[j] = Responses[j + 1]
      BY <1>1, <1>2
    <3> QED BY <3>1 DEF Answered, Distinct
  <2> QED BY <2>5, <2>6 DEF Answered
<1>4. CASE IsReply(r)
  <2>1. r.to \in Int /\ r.to <= Len(received) - 2
    <3>1. r.to \in Line \ {Wake}
      BY <1>2, <1>4 DEF IsReply, Response, Answer, Event
    <3>2. 1 \in 1 .. Len(Responses)
      BY <1>1, <1>2
    <3>3. r.to <= Len(received) - 2
      BY <3>2, <1>1, <1>4 DEF Answered, Owing
    <3> QED BY <3>1, <3>3, CountAssumption DEF Line, Command, Wake, Escape
  <2>2. ASSUME NEW i \in 1 .. Len(txQ), txQ[i] # Wake PROVE txQ[i] \in owed'
    <3>1. txQ[i] = Len(received) + Len(toDevice) + i - 2
      BY Positions
    <3>2. txQ[i] > r.to
      BY <3>1, <2>1, <1>2
    <3>3. txQ[i] # r.to
      BY <3>1, <3>2, <2>1, <1>2
    <3> QED BY <3>3, <2>2, <1>2 DEF Answered, Owing
  <2>3. ASSUME NEW i \in 1 .. Len(toDevice), toDevice[i] # Wake PROVE toDevice[i] \in owed'
    <3>1. toDevice[i] = Len(received) + i - 2
      BY Positions
    <3>2. toDevice[i] # r.to
      BY <3>1, <2>1, <1>2
    <3> QED BY <3>2, <2>3, <1>2 DEF Answered, Owing
  <2>4. ASSUME NEW i \in 1 .. Len(Responses'), IsReply(Responses'[i])
        PROVE  Responses'[i].to \in owed' /\ Responses'[i].to <= Len(received) - 2
    <3>1. /\ 1 \in 1 .. Len(Responses) /\ i + 1 \in 1 .. Len(Responses) /\ 1 < i + 1
          /\ Responses'[i] = Responses[i + 1]
      BY <1>1, <1>2
    <3>2. Responses[i + 1].to \in owed /\ Responses[i + 1].to <= Len(received) - 2
      BY <3>1, <2>4 DEF Answered, Owing
    <3>3. Responses[1].to # Responses[i + 1].to
      BY <3>1, <2>4, <1>1, <1>4 DEF Answered, Distinct
    <3> QED BY <3>1, <3>2, <3>3, <1>1, <1>2
  <2>5. Owing'
    BY <2>2, <2>3, <2>4 DEF Owing
  <2>6. Distinct'
    <3> SUFFICES ASSUME NEW i \in 1 .. Len(Responses'), NEW j \in 1 .. Len(Responses'),
                        i < j, IsReply(Responses'[i]), IsReply(Responses'[j])
                 PROVE  Responses'[i].to # Responses'[j].to
      BY DEF Distinct, IsReply
    <3>1. /\ i + 1 \in 1 .. Len(Responses) /\ j + 1 \in 1 .. Len(Responses) /\ i + 1 < j + 1
          /\ Responses'[i] = Responses[i + 1] /\ Responses'[j] = Responses[j + 1]
      BY <1>1, <1>2
    <3> QED BY <3>1 DEF Answered, Distinct
  <2> QED BY <2>5, <2>6 DEF Answered
<1> QED
  BY <1>3, <1>4

(* The lines that remain when the controller has taken one.                *)
LEMMA LinesRemain ==
    ASSUME TypeOK, Answered, TakeLine
    PROVE  /\ Len(received') = Len(received) + 1 /\ Len(received) \in Nat
           /\ \A i \in 1 .. Len(toDevice') : toDevice'[i] # Wake => toDevice'[i] \in owed
           /\ \A i \in 1 .. Len(txQ') : txQ'[i] # Wake => txQ'[i] \in owed
           /\ Head(toDevice) = toDevice[1] /\ 1 \in 1 .. Len(toDevice)
           /\ UNCHANGED <<owed, rxQ>>
<1>1. /\ toDevice \in Seq(Line) /\ toDevice # <<>> /\ received \in Seq(Line)
      /\ toDevice' = Tail(toDevice) /\ received' = Append(received, Head(toDevice))
      /\ txQ' = txQ /\ owed' = owed /\ rxQ' = rxQ
  BY DEF TypeOK, TakeLine, queues, adaptor
<1>2. /\ Len(toDevice) \in Nat \ {0} /\ Head(toDevice) = toDevice[1]
      /\ Len(toDevice') = Len(toDevice) - 1
      /\ \A i \in 1 .. Len(toDevice') : toDevice'[i] = toDevice[i + 1]
  BY <1>1, HeadTailProperties, EmptySeq
<1>3. Len(received) \in Nat /\ Len(received') = Len(received) + 1
  BY <1>1
<1>4. ASSUME NEW i \in 1 .. Len(toDevice'), toDevice'[i] # Wake PROVE toDevice'[i] \in owed
  <2>1. i + 1 \in 1 .. Len(toDevice)
    BY <1>2
  <2> QED BY <2>1, <1>2, <1>4 DEF Answered, Owing
<1>5. \A i \in 1 .. Len(txQ') : txQ'[i] # Wake => txQ'[i] \in owed
  BY <1>1 DEF Answered, Owing
<1>6. 1 \in 1 .. Len(toDevice)
  BY <1>2
<1> QED
  BY <1>1, <1>2, <1>3, <1>4, <1>5, <1>6

LEMMA AnsweredTakeLine == TypeOK /\ Ordered /\ Answered /\ TakeLine => Answered'
<1> SUFFICES ASSUME TypeOK, Ordered, Answered, TakeLine PROVE Answered'
  OBVIOUS
<1>1. /\ Len(received') = Len(received) + 1 /\ Len(received) \in Nat
      /\ \A i \in 1 .. Len(toDevice') : toDevice'[i] # Wake => toDevice'[i] \in owed
      /\ \A i \in 1 .. Len(txQ') : txQ'[i] # Wake => txQ'[i] \in owed
      /\ Head(toDevice) = toDevice[1] /\ 1 \in 1 .. Len(toDevice)
      /\ owed' = owed /\ rxQ' = rxQ
  BY LinesRemain
<1>2. /\ Responses \in Seq(Response) /\ Len(Responses) \in Nat
      /\ \A i \in 1 .. Len(Responses) : IsReply(Responses[i]) =>
             Responses[i].to \in Int /\ Responses[i].to <= Len(received) - 2
  <2>1. ASSUME NEW i \in 1 .. Len(Responses), IsReply(Responses[i])
        PROVE  Responses[i].to \in Int
    <3>1. Responses[i] \in Response
      BY ResponsesType
    <3> QED BY <3>1, <2>1, CountAssumption
            DEF IsReply, Response, Answer, Event, Line, Command, Wake, Escape
  <2> QED BY <2>1, ResponsesType DEF Answered, Owing
<1>3. CASE UNCHANGED fromDevice
  <2>1. Responses' = Responses
    BY <1>1, <1>3 DEF Responses
  <2>2. ASSUME NEW i \in 1 .. Len(Responses), IsReply(Responses[i])
        PROVE  Responses[i].to <= Len(received') - 2
    BY <1>1, <1>2, <2>2
  <2>3. Owing'
    BY <1>1, <2>1, <2>2 DEF Answered, Owing, IsReply
  <2> QED BY <2>1, <2>3 DEF Answered, Distinct, IsReply
<1>4. CASE Head(toDevice) # Wake /\ ~UNCHANGED fromDevice
  <2>1. PICK w \in {"OK", "ERROR"} :
            fromDevice' = Append(fromDevice, [word |-> w, to |-> Head(toDevice)])
    BY <1>4 DEF TakeLine
  <2> DEFINE r == [word |-> w, to |-> Head(toDevice)]
  <2>2. r \in Response /\ r.to = Head(toDevice) /\ fromDevice' = Append(fromDevice, r)
    <3>1. Head(toDevice) \in Line \ {Wake}
      BY <1>1, <1>4 DEF TypeOK
    <3> QED BY <3>1, <2>1, AnswerType
  <2>3. r.to = Len(received) - 1 /\ r.to \in owed
    <3>1. toDevice[1] = Len(received) + 1 - 2
      BY <1>1, Positions
    <3>2. toDevice[1] \in owed
      BY <1>1, <1>4 DEF Answered, Owing
    <3> QED BY <3>1, <3>2, <1>1, <2>2
  <2> HIDE DEF r
  <2>4. /\ Len(Responses') = Len(Responses) + 1
        /\ \A i \in 1 .. Len(Responses) : Responses'[i] = Responses[i]
        /\ Responses'[Len(Responses) + 1] = r
    BY <1>1, <2>2, ResponsesLonger
  <2>5. ASSUME NEW i \in 1 .. Len(Responses'), IsReply(Responses'[i])
        PROVE  Responses'[i].to \in owed' /\ Responses'[i].to <= Len(received') - 2
    <3>1. CASE i = Len(Responses) + 1
      BY <3>1, <2>3, <2>4, <1>1
    <3>2. CASE i \in 1 .. Len(Responses)
      <4>1. Responses'[i] = Responses[i] /\ IsReply(Responses[i])
        BY <3>2, <2>4, <2>5
      <4>2. Responses[i].to \in owed /\ Responses[i].to <= Len(received) - 2
            /\ Responses[i].to \in Int
        BY <4>1, <3>2, <1>2 DEF Answered, Owing
      <4> QED BY <4>1, <4>2, <1>1
    <3> QED BY <3>1, <3>2, <2>4, <1>2
  <2>6. Owing'
    BY <1>1, <2>5 DEF Owing
  <2>7. Distinct'
    <3> SUFFICES ASSUME NEW i \in 1 .. Len(Responses'), NEW j \in 1 .. Len(Responses'),
                        i < j, IsReply(Responses'[i]), IsReply(Responses'[j])
                 PROVE  Responses'[i].to # Responses'[j].to
      BY DEF Distinct, IsReply
    <3>1. i \in 1 .. Len(Responses) /\ Responses'[i] = Responses[i]
      BY <2>4, <1>2
    <3>2. CASE j \in 1 .. Len(Responses)
      <4>1. Responses'[j] = Responses[j]
        BY <3>2, <2>4
      <4> QED BY <3>1, <3>2, <4>1 DEF Answered, Distinct
    <3>3. CASE j = Len(Responses) + 1
      <4>1. Responses[i].to \in Int /\ Responses[i].to <= Len(received) - 2
        BY <3>1, <1>2
      <4>2. Responses'[j].to = Len(received) - 1
        BY <3>3, <2>3, <2>4
      <4> QED BY <3>1, <4>1, <4>2, <1>1
    <3> QED BY <3>2, <3>3, <2>4, <1>2
  <2> QED BY <2>6, <2>7 DEF Answered
<1> QED
  BY <1>3, <1>4 DEF TakeLine

LEMMA AnsweredSayEvent == TypeOK /\ Answered /\ SayEvent => Answered'
<1> SUFFICES ASSUME TypeOK, Answered, SayEvent PROVE Answered'
  OBVIOUS
<1>1. /\ fromDevice' = Append(fromDevice, Event) /\ rxQ' = rxQ /\ txQ' = txQ
      /\ toDevice' = toDevice /\ received' = received /\ owed' = owed
  BY DEF SayEvent, queues, adaptor
<1>2. Event \in Response /\ ~IsReply(Event) /\ Len(Responses) \in Nat
  BY ResponsesType DEF Response, IsReply, Event
<1>3. /\ Len(Responses') = Len(Responses) + 1
      /\ \A i \in 1 .. Len(Responses) : Responses'[i] = Responses[i]
      /\ Responses'[Len(Responses) + 1] = Event
  BY <1>1, <1>2, ResponsesLonger
<1>4. ASSUME NEW i \in 1 .. Len(Responses'), IsReply(Responses'[i])
      PROVE  i \in 1 .. Len(Responses) /\ Responses'[i] = Responses[i]
  <2>1. i # Len(Responses) + 1
    BY <1>2, <1>3, <1>4
  <2> QED BY <2>1, <1>2, <1>3
<1>5. Owing'
  BY <1>1, <1>4 DEF Answered, Owing, IsReply
<1>6. Distinct'
  BY <1>4 DEF Answered, Distinct, IsReply
<1> QED
  BY <1>5, <1>6 DEF Answered

LEMMA AnsweredNext == IInv /\ Answered /\ [Next]_vars => Answered'
<1> SUFFICES ASSUME IInv, Answered, [Next]_vars PROVE Answered'
  OBVIOUS
<1>t. TypeOK /\ Ordered
  BY DEF IInv, TypeInv
<1> USE DEF GoTo
<1>1. CASE UNCHANGED vars
  BY <1>1, AnsweredKept DEF vars, queues, adaptor, device, Responses
<1>2. CASE ReadLine
  BY <1>2, <1>t, AnsweredReadLine
<1>3. CASE WriteLine
  BY <1>3, <1>t, AnsweredWriteLine
<1>4. CASE TakeLine
  BY <1>4, <1>t, AnsweredTakeLine
<1>5. CASE SayEvent
  BY <1>5, <1>t, AnsweredSayEvent
<1>6. CASE AppendForSending
  BY <1>6, AnsweredKept DEF AppendForSending, adaptor, device, Responses
<1>7. CASE Relay \/ AwaitItch \/ ReadResponse
  <2>1. UNCHANGED <<fromDevice, txQ, toDevice, received>>
    BY <1>7 DEF Relay, AwaitItch, ReadResponse, device
  <2>2. CASE GetLine
    BY <2>1, <2>2, <1>t, AnsweredGetLine
  <2>3. CASE UNCHANGED <<rxQ, credited, owed>>
    BY <2>1, <2>3, AnsweredKept DEF Responses
  <2> QED BY <1>7, <2>2, <2>3 DEF Relay, AwaitItch, ReadResponse
<1>8. CASE SendInLinemode \/ SendEscape \/ SendCommand
  <2>1. UNCHANGED <<rxQ, fromDevice, toDevice, received>>
    BY <1>8 DEF SendInLinemode, SendEscape, SendCommand, device
  <2>2. CASE SendNextLine
    BY <2>1, <2>2, <1>t, AnsweredSendNextLine
  <2>3. CASE UNCHANGED <<brokerToInterfaceQ, txQ, last_line_sent, owed>>
    BY <2>1, <2>3, AnsweredKept DEF Responses
  <2> QED BY <1>8, <2>2, <2>3 DEF SendInLinemode, SendEscape, SendCommand
<1>9. CASE TestMode \/ QueueEscape \/ Configure \/ CommandsThere \/ NoCommands
           \/ NoMoreCommands \/ LookAtClock \/ ReturnToLinemode
  <2>1. UNCHANGED <<rxQ, txQ, owed, device>>
    BY <1>9 DEF TestMode, QueueEscape, Configure, CommandsThere, NoCommands,
                NoMoreCommands, LookAtClock, ReturnToLinemode, queues
  <2> QED BY <2>1, AnsweredKept DEF device, Responses
<1>10. CASE SystemStep
  <2>1. UNCHANGED <<rxQ, txQ, owed, device>>
    BY <1>10 DEF SystemStep, AskForItch, CheckItch, QueueCommand, AskToConfigure,
                 queues, adaptor
  <2> QED BY <2>1, AnsweredKept DEF device, Responses
<1> QED
  BY <1>1, <1>2, <1>3, <1>4, <1>5, <1>6, <1>7, <1>8, <1>9, <1>10
     DEF Next, AdaptorStep

LEMMA OwnAnswerInit == Init => OwnAnswer
BY DEF Init, OwnAnswer, AckIsOwn

(* While a command's answer is awaited, no other command is acknowledged.  *)
LEMMA ReadResponseOwn ==
    IInv /\ Answered /\ OwnAnswer /\ ReadResponse => OwnAnswer'
<1> SUFFICES ASSUME IInv, Answered, OwnAnswer, ReadResponse PROVE OwnAnswer'
  OBVIOUS
<1> DEFINE r == Head(rxQ)
<1>1. /\ apc = "await" /\ alone' = alone /\ last_line_sent' = last_line_sent
      /\ credited' = r /\ owed' = owed \ {r.to} /\ fromDevice' = fromDevice
      /\ rxQ # <<>> /\ rxQ' = Tail(rxQ)
      /\ config_ack' = (config_ack \/ IsAnswer(r))
      /\ apc' = IF IsAnswer(r) THEN "more" ELSE "await"
  BY DEF ReadResponse, GetLine, device
<1>2. ~config_ack
  BY <1>1 DEF IInv, Control, InLinemode
<1>3. r = Responses[1] /\ 1 \in 1 .. Len(Responses)
  <2>1. TypeOK
    BY DEF IInv, TypeInv
  <2>2. Len(Responses) > 0 /\ r = Responses[1] /\ Len(Responses) \in Nat
    BY <2>1, <1>1, ResponsesRead, ResponsesType
  <2> QED BY <2>2
<1> HIDE DEF r
<1>4. ASSUME alone, IsAnswer(r) PROVE r.to = last_line_sent
  <2>1. owed \subseteq {last_line_sent}
    BY <1>1, <1>4 DEF OwnAnswer
  <2>2. IsReply(r)
    BY <1>4 DEF IsAnswer, IsReply
  <2>3. r.to \in owed
    BY <2>2, <1>3 DEF Answered, Owing
  <2> QED BY <2>1, <2>3
<1>5. ASSUME alone', apc' = "await" PROVE owed' \subseteq {last_line_sent'}
  BY <1>1, <1>5 DEF OwnAnswer
<1>6. AckIsOwn'
  <2> SUFFICES ASSUME config_ack', alone', apc' = "more"
               PROVE  credited'.to = last_line_sent'
    BY DEF AckIsOwn
  <2>1. IsAnswer(r)
    BY <1>1, <1>2
  <2> QED BY <2>1, <1>1, <1>4
<1> QED
  BY <1>5, <1>6 DEF OwnAnswer

LEMMA OwnAnswerNext ==
    IInv /\ Answered /\ OwnAnswer /\ [Next]_vars => OwnAnswer'
<1> SUFFICES ASSUME IInv, Answered, OwnAnswer, [Next]_vars PROVE OwnAnswer'
  OBVIOUS
<1>s. ASSUME UNCHANGED <<apc, alone, last_line_sent, owed, config_ack, credited>>
      PROVE  OwnAnswer'
  BY <1>s DEF OwnAnswer, AckIsOwn
<1>e. ASSUME apc' \notin {"await", "more"} PROVE OwnAnswer'
  BY <1>e DEF OwnAnswer, AckIsOwn
<1> USE DEF GoTo
<1>1. CASE UNCHANGED vars
  BY <1>1, <1>s DEF vars, adaptor
<1>2. CASE ReadLine \/ WriteLine \/ AppendForSending \/ TakeLine \/ SayEvent \/ SystemStep
  BY <1>2, <1>s DEF ReadLine, WriteLine, AppendForSending, TakeLine, SayEvent,
                    SystemStep, AskForItch, CheckItch, QueueCommand,
                    AskToConfigure, adaptor
<1>3. CASE TestMode
  <2>1. command \in {"RunLinemode", "ActivateItch", "ConfigureDevice"}
    BY DEF IInv, TypeInv, TypeOK
  <2> QED BY <1>3, <2>1, <1>e DEF TestMode
<1>4. CASE Relay \/ SendInLinemode \/ QueueEscape \/ SendEscape \/ AwaitItch
           \/ Configure \/ NoCommands \/ NoMoreCommands \/ ReturnToLinemode
  BY <1>4, <1>e DEF Relay, SendInLinemode, QueueEscape, SendEscape, AwaitItch,
                    Configure, NoCommands, NoMoreCommands, ReturnToLinemode
<1>5. CASE CommandsThere
  <2>1. ~config_ack /\ ~config_ack' /\ apc' = "more"
    BY <1>5 DEF IInv, Control, InLinemode, CommandsThere
  <2> QED BY <2>1 DEF OwnAnswer, AckIsOwn
<1>6. CASE SendCommand
  <2>1. apc' = "await" /\ last_line_sent' = Head(brokerToInterfaceQ)
        /\ owed' = owed \cup ({last_line_sent'} \ {Wake}) /\ alone' = (owed = {})
    BY <1>6 DEF SendCommand, SendNextLine
  <2> QED BY <2>1 DEF OwnAnswer, AckIsOwn
<1>7. CASE ReadResponse
  BY <1>7, ReadResponseOwn
<1>8. CASE LookAtClock
  <2>1. /\ ~config_ack /\ ~config_ack' /\ apc = "await"
        /\ UNCHANGED <<alone, last_line_sent, owed>>
    BY <1>8 DEF IInv, Control, InLinemode, LookAtClock
  <2> QED BY <2>1 DEF OwnAnswer, AckIsOwn
<1> QED
  BY <1>1, <1>2, <1>3, <1>4, <1>5, <1>6, <1>7, <1>8 DEF Next, AdaptorStep

(* A command sent when no answer is owed is acknowledged by its own        *)
(* answer (processConfigCommands): for any number of commands, event       *)
(* messages and lost answers, and any interleaving of the threads.         *)
THEOREM BrokerAckIsOwn == Spec => []AckIsOwn
<1> DEFINE Inv == IInv /\ Answered /\ OwnAnswer
<1>1. Init => Inv
  BY InvInit, AnsweredInit, OwnAnswerInit
<1>2. Inv /\ [Next]_vars => Inv'
  BY InvNext, AnsweredNext, OwnAnswerNext
<1>3. Inv => AckIsOwn
  BY DEF OwnAnswer
<1> QED
  BY <1>1, <1>2, <1>3, PTL DEF Spec
=============================================================================
