-------------------------------- MODULE Broker --------------------------------
(***************************************************************************)
(* The broker on the PC that configures a controller over a serial line.   *)
(* Four threads share queues and one mode variable: System.run decides,    *)
(* Broker.run moves lines from the main bus to the adaptor, the adaptor    *)
(* (FodderArduino.run) sends them and waits for answers, and the interface *)
(* (LinuxSerialPort.run) reads and writes the port.  The controller at the *)
(* other end is external: it takes lines in order, answers OK or ERROR to  *)
(* those that ask for it, and writes event messages of its own.            *)
(*                                                                         *)
(* One action is what a thread does between two accesses to what it shares *)
(* with the others.  Sleeps are not modelled, except the first: by the     *)
(* time System.run asks for ITCH the wake-up line has long been sent.      *)
(* What the threads print, and the queue that only feeds printing          *)
(* (interfaceToBrokerQ), are left out.                                     *)
(***************************************************************************)
EXTENDS Integers, Sequences

CONSTANTS
    L,         \* commands that System.run puts on the bus
    TRIES,     \* lines read before the clock is looked at: 100
    RETRIES,   \* command_retry
    MaxEvents, \* bound on the controller's event messages
    MaxLost    \* bound on the answers lost on the line

ASSUME CountAssumption == L \in Nat \ {0} /\ TRIES \in Nat \ {0} /\ RETRIES \in Nat \ {0}
ASSUME BoundsAssumption == MaxEvents \in Nat /\ MaxLost \in Nat

Wake == -1          \* the line that Broker.run starts with
Escape == 0         \* "%%%"
Command == 1 .. L
Line == Command \cup {Wake, Escape}

(* What the controller says.  to is auxiliary: the line it is an answer    *)
(* to.  An event message is text.                                          *)
Answer == [word : {"OK", "ERROR"}, to : Line \ {Wake}]
Event == [word |-> "text", to |-> Wake]
Response == Answer \cup {Event}

VARIABLES
    mainBus, brokerToInterfaceQ, txQ, rxQ,
    command,         \* the adaptor's mode, set by two threads
    itchActivated,
    apc,             \* where the adaptor is
    config_ack, tries, last_line_sent,
    spc,             \* where System.run is
    command_retry,
    queued,          \* commands that System.run has put on the bus
    toDevice, fromDevice,   \* lines under way
    received,        \* lines the controller has taken
    events, lost,    \* event messages and lost answers so far
    credited,        \* auxiliary: the response last read by the adaptor
    owed,            \* auxiliary: lines sent whose answers are not yet read
    alone            \* auxiliary: none were owed when the command was sent

queues == <<mainBus, brokerToInterfaceQ, txQ, rxQ>>
adaptor == <<itchActivated, apc, config_ack, tries, last_line_sent, credited,
             owed, alone>>
system == <<spc, command_retry, queued>>
device == <<toDevice, fromDevice, received, events, lost>>
vars == <<queues, command, adaptor, system, device>>

Alive == spc # "exited"
----------------------------------------------------------------------------
(* The interface thread.                                                   *)

ReadLine ==
    /\ Alive /\ fromDevice # <<>>
    /\ rxQ' = Append(rxQ, Head(fromDevice))
    /\ fromDevice' = Tail(fromDevice)
    /\ UNCHANGED <<mainBus, brokerToInterfaceQ, txQ, command, adaptor, system,
                   toDevice, received, events, lost>>

WriteLine ==
    /\ Alive /\ txQ # <<>>
    /\ toDevice' = Append(toDevice, Head(txQ))
    /\ txQ' = Tail(txQ)
    /\ UNCHANGED <<mainBus, brokerToInterfaceQ, rxQ, command, adaptor, system,
                   fromDevice, received, events, lost>>

(* The broker thread.                                                      *)
AppendForSending ==
    /\ Alive /\ mainBus # <<>>
    /\ brokerToInterfaceQ' = Append(brokerToInterfaceQ, Head(mainBus))
    /\ mainBus' = Tail(mainBus)
    /\ UNCHANGED <<txQ, rxQ, command, adaptor, system, device>>
----------------------------------------------------------------------------
(* The adaptor thread.                                                     *)

GoTo(from, to) == Alive /\ apc = from /\ apc' = to

(* Defective variant: the line put in last is taken out first.             *)
SendNextLineLast ==
    LET line == brokerToInterfaceQ[Len(brokerToInterfaceQ)] IN
    /\ brokerToInterfaceQ # <<>>
    /\ last_line_sent' = line
    /\ brokerToInterfaceQ' =
           SubSeq(brokerToInterfaceQ, 1, Len(brokerToInterfaceQ) - 1)
    /\ txQ' = Append(txQ, line)
    /\ owed' = owed \cup ({line} \ {Wake})

SendNextLine ==
    /\ brokerToInterfaceQ # <<>>
    /\ last_line_sent' = Head(brokerToInterfaceQ)
    /\ brokerToInterfaceQ' = Tail(brokerToInterfaceQ)
    /\ txQ' = Append(txQ, Head(brokerToInterfaceQ))
    /\ owed' = owed \cup ({Head(brokerToInterfaceQ)} \ {Wake})

GetLine ==
    /\ rxQ # <<>>
    /\ credited' = Head(rxQ)
    /\ rxQ' = Tail(rxQ)
    /\ owed' = owed \ {Head(rxQ).to}

TestMode ==
    /\ GoTo("test", CASE command = "RunLinemode" -> "relay"
                      [] command = "ActivateItch" -> "escape"
                      [] command = "ConfigureDevice" -> "configure")
    /\ UNCHANGED <<queues, command, itchActivated, config_ack, tries,
                   last_line_sent, credited, owed, alone, system, device>>

(* RunLinemode: at most one line in, then at most one line out.            *)
Relay ==
    /\ GoTo("relay", "send")
    /\ IF rxQ = <<>> THEN UNCHANGED <<rxQ, credited, owed>> ELSE GetLine
    /\ UNCHANGED <<mainBus, brokerToInterfaceQ, txQ, command, itchActivated,
                   config_ack, tries, last_line_sent, alone, system, device>>

SendInLinemode ==
    /\ GoTo("send", "test")
    /\ IF brokerToInterfaceQ = <<>>
       THEN UNCHANGED <<brokerToInterfaceQ, txQ, last_line_sent, owed>>
       ELSE SendNextLine
    /\ UNCHANGED <<mainBus, rxQ, command, itchActivated, config_ack, tries,
                   credited, alone, system, device>>

(* activateItch, once the line has been quiet: the escape sequence is put  *)
(* at the end of the queue, and the head of the queue is sent.             *)
QueueEscape ==
    /\ GoTo("escape", "sendEscape")
    /\ brokerToInterfaceQ' = Append(brokerToInterfaceQ, Escape)
    /\ UNCHANGED <<mainBus, txQ, rxQ, command, itchActivated, config_ack, tries,
                   last_line_sent, credited, owed, alone, system, device>>

SendEscape ==
    /\ GoTo("sendEscape", "awaitItch") /\ SendNextLine
    /\ UNCHANGED <<mainBus, rxQ, command, itchActivated, config_ack, tries,
                   credited, alone, system, device>>

AwaitItch ==
    /\ Alive /\ apc = "awaitItch" /\ GetLine
    /\ apc' = IF credited'.word = "OK" THEN "return" ELSE "awaitItch"
    /\ itchActivated' = (credited'.word = "OK" \/ itchActivated)
    /\ UNCHANGED <<mainBus, brokerToInterfaceQ, txQ, command, config_ack, tries,
                   last_line_sent, alone, system, device>>

(* processConfigCommands.                                                  *)
Configure ==
    /\ GoTo("configure", IF itchActivated THEN "awaitCommands" ELSE "return")
    /\ UNCHANGED <<queues, command, itchActivated, config_ack, tries,
                   last_line_sent, credited, owed, alone, system, device>>

(* A command has come, or five seconds have passed.                        *)
CommandsThere ==
    /\ GoTo("awaitCommands", "more")
    /\ brokerToInterfaceQ # <<>>
    /\ UNCHANGED <<queues, command, itchActivated, config_ack, tries,
                   last_line_sent, credited, owed, alone, system, device>>

NoCommands ==
    /\ GoTo("awaitCommands", "return")
    /\ UNCHANGED <<queues, command, itchActivated, config_ack, tries,
                   last_line_sent, credited, owed, alone, system, device>>

(* The first look at the clock comes right after it was started.           *)
SendCommand ==
    /\ GoTo("more", "await") /\ SendNextLine
    /\ config_ack' = FALSE /\ tries' = TRIES
    /\ alone' = (owed = {})
    /\ UNCHANGED <<mainBus, rxQ, command, itchActivated, credited, system, device>>

NoMoreCommands ==
    /\ GoTo("more", "return") /\ brokerToInterfaceQ = <<>>
    /\ UNCHANGED <<queues, command, itchActivated, config_ack, tries,
                   last_line_sent, credited, owed, alone, system, device>>

(* Defective variant: whatever comes back is taken for the answer.         *)
AnyLine(r) == TRUE

(* Defective variant: ERROR is not taken for an answer.                    *)
OnlyOK(r) == r.word = "OK"

IsAnswer(r) == r.word \in {"OK", "ERROR"}

(* Defective variant: the tries are not given back after a look at the     *)
(* clock, nor is their end noticed.                                        *)
ReadResponseUncounted ==
    /\ Alive /\ apc = "await" /\ GetLine
    /\ tries' = tries - 1
    /\ config_ack' = (config_ack \/ IsAnswer(credited'))
    /\ apc' = IF IsAnswer(credited') THEN "more" ELSE "await"
    /\ UNCHANGED <<mainBus, brokerToInterfaceQ, txQ, command, itchActivated,
                   last_line_sent, alone, system, device>>

(* The clock is not looked at as long as no line comes.                    *)
ReadResponse ==
    /\ Alive /\ apc = "await" /\ tries > 0 /\ GetLine
    /\ tries' = tries - 1
    /\ config_ack' = (config_ack \/ IsAnswer(credited'))
    /\ apc' = IF IsAnswer(credited') THEN "more" ELSE "await"
    /\ UNCHANGED <<mainBus, brokerToInterfaceQ, txQ, command, itchActivated,
                   last_line_sent, alone, system, device>>

(* After TRIES lines without an answer the clock is looked at: wait again, *)
(* or go on without an answer.                                             *)
LookAtClock ==
    /\ apc = "await" /\ tries = 0
    /\ \/ GoTo("await", "await") /\ tries' = TRIES
       \/ GoTo("await", "more") /\ UNCHANGED tries
    /\ UNCHANGED <<queues, command, itchActivated, config_ack, last_line_sent,
                   credited, owed, alone, system, device>>

(* Whatever System.run has asked for since is overwritten.                 *)
ReturnToLinemode ==
    /\ GoTo("return", "test")
    /\ command' = "RunLinemode"
    /\ UNCHANGED <<queues, itchActivated, config_ack, tries, last_line_sent,
                   credited, owed, alone, system, device>>

AdaptorStep ==
    \/ TestMode \/ Relay \/ SendInLinemode
    \/ QueueEscape \/ SendEscape \/ AwaitItch
    \/ Configure \/ CommandsThere \/ NoCommands \/ SendCommand \/ NoMoreCommands
    \/ ReadResponse \/ LookAtClock \/ ReturnToLinemode
----------------------------------------------------------------------------
(* System.run.                                                             *)

AskForItch ==
    /\ spc = "start" /\ spc' = "check"
    /\ brokerToInterfaceQ = <<>>
    /\ command' = "ActivateItch"
    /\ UNCHANGED <<queues, adaptor, command_retry, queued, device>>

CheckItch ==
    /\ spc = "check"
    /\ IF itchActivated
       THEN spc' = "queue" /\ UNCHANGED command_retry
       ELSE /\ command_retry' = command_retry - 1
            /\ spc' = IF command_retry' = 0 THEN "exited" ELSE "check"
    /\ UNCHANGED <<queues, command, adaptor, queued, device>>

QueueCommand ==
    /\ spc = "queue" /\ queued < L
    /\ queued' = queued + 1
    /\ mainBus' = Append(mainBus, queued + 1)
    /\ UNCHANGED <<brokerToInterfaceQ, txQ, rxQ, command, adaptor, spc,
                   command_retry, device>>

AskToConfigure ==
    /\ spc = "queue" /\ queued = L
    /\ spc' = "asleep"
    /\ command' = "ConfigureDevice"
    /\ UNCHANGED <<queues, adaptor, command_retry, queued, device>>

SystemStep == AskForItch \/ CheckItch \/ QueueCommand \/ AskToConfigure
----------------------------------------------------------------------------
(* The controller, and the line from it.                                   *)

TakeLine ==
    /\ toDevice # <<>>
    /\ received' = Append(received, Head(toDevice))
    /\ toDevice' = Tail(toDevice)
    /\ \/ Head(toDevice) = Wake /\ UNCHANGED <<fromDevice, lost>>
       \/ /\ Head(toDevice) # Wake
          /\ \E w \in IF Head(toDevice) = Escape THEN {"OK"} ELSE {"OK", "ERROR"} :
                 fromDevice' = Append(fromDevice, [word |-> w, to |-> Head(toDevice)])
          /\ UNCHANGED lost
       \/ /\ Head(toDevice) \in Command /\ lost < MaxLost
          /\ lost' = lost + 1 /\ UNCHANGED fromDevice
    /\ UNCHANGED <<queues, command, adaptor, system, events>>

SayEvent ==
    /\ events < MaxEvents /\ events' = events + 1
    /\ fromDevice' = Append(fromDevice, Event)
    /\ UNCHANGED <<queues, command, adaptor, system, toDevice, received, lost>>

Init ==
    /\ mainBus = <<>> /\ brokerToInterfaceQ = <<Wake>> /\ txQ = <<>> /\ rxQ = <<>>
    /\ command = "RunLinemode" /\ itchActivated = FALSE
    /\ apc = "test" /\ config_ack = FALSE /\ tries = 0 /\ last_line_sent = Wake
    /\ spc = "start" /\ command_retry = RETRIES /\ queued = 0
    /\ toDevice = <<>> /\ fromDevice = <<>> /\ received = <<>>
    /\ events = 0 /\ lost = 0
    /\ credited = Event /\ owed = {} /\ alone = TRUE

Next ==
    \/ ReadLine \/ WriteLine \/ AppendForSending
    \/ AdaptorStep \/ SystemStep
    \/ TakeLine \/ SayEvent

Spec == Init /\ [][Next]_vars

(* The interpreter switches between the threads, none of which waits for a *)
(* lock; the controller goes on reading.  It need not say anything.        *)
FairSpec ==
    /\ Spec
    /\ WF_vars(ReadLine) /\ WF_vars(WriteLine) /\ WF_vars(AppendForSending)
    /\ WF_vars(AdaptorStep) /\ WF_vars(SystemStep) /\ WF_vars(TakeLine)
----------------------------------------------------------------------------
(* Properties.                                                             *)

(* Every variable keeps its type.                                          *)
TypeOK ==
    /\ mainBus \in Seq(Line) /\ brokerToInterfaceQ \in Seq(Line) /\ txQ \in Seq(Line)
    /\ rxQ \in Seq(Response)
    /\ command \in {"RunLinemode", "ActivateItch", "ConfigureDevice"}
    /\ itchActivated \in BOOLEAN
    /\ apc \in {"test", "relay", "send", "escape", "sendEscape", "awaitItch",
                "configure", "awaitCommands", "more", "await", "return"}
    /\ config_ack \in BOOLEAN /\ tries \in 0 .. TRIES /\ last_line_sent \in Line
    /\ spc \in {"start", "check", "queue", "asleep", "exited"}
    /\ command_retry \in 0 .. RETRIES /\ queued \in 0 .. L
    /\ toDevice \in Seq(Line) /\ fromDevice \in Seq(Response)
    /\ received \in Seq(Line)
    /\ events \in Nat /\ lost \in Nat
    /\ credited \in Response /\ owed \subseteq Line /\ alone \in BOOLEAN

(* The lines that the controller has taken and those on their way to it.   *)
Lines == received \o toDevice \o txQ \o brokerToInterfaceQ \o mainBus

(* Through two hand-overs between threads and two modes of sending, and    *)
(* although activateItch sends whatever heads the queue, the controller    *)
(* gets the wake-up line, the escape sequence and the commands in the      *)
(* order of the bus, none lost, none twice, and no command before the      *)
(* escape sequence.                                                        *)
LinesInOrder ==
    /\ Len(Lines) <= L + 2
    /\ \A i \in DOMAIN Lines : Lines[i] = i - 2

(* A command that is sent when no answer is owed is acknowledged by its    *)
(* own answer (processConfigCommands), whatever event messages come in     *)
(* between and whatever became of earlier commands.                        *)
AckIsOwn == config_ack /\ alone /\ apc = "more" => credited.to = last_line_sent

(* Once System.run has asked for the configuration, the controller gets    *)
(* every command of it, whichever mode the adaptor sends them in, unless   *)
(* an answer is lost.                                                      *)
EveryCommandSent == spc = "asleep" ~> Len(received) = L + 2 \/ lost > 0
=============================================================================
