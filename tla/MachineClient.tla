--------------------------- MODULE MachineClient ---------------------------
(***************************************************************************)
(* Two hosts on one serial line: the host at the UART and the machine      *)
(* client of the menu (src/src/grblState.cc), which writes its lines into  *)
(* the receive ring of the UART and reads the answers from a queue of      *)
(* lines beside the transmit ring (serial.c).                              *)
(*                                                                         *)
(* The main thread reads one character at a time, answers every end of     *)
(* line, and serves the realtime flags before it executes a line and when  *)
(* there is nothing to read.  What it executes is reduced to what the      *)
(* client sends and sees: the lock, a jog and its end, a reset.  The races *)
(* inside protocol_exec_rt_system() are the business of module Protocol;   *)
(* here it is one step.                                                    *)
(*                                                                         *)
(* A line of input is one character of text and its end of line; a line    *)
(* of output is a message with its length.  The library that runs the      *)
(* state machine of the client is external: the first run enters the       *)
(* initial state, a transition runs the entry action of its target, also   *)
(* when the target is the state itself.                                    *)
(***************************************************************************)
EXTENDS Naturals, Sequences

CONSTANTS
    RxSize,         \* bytes of the receive ring
    QueueWords,     \* words of the response queue, TX_BUFFER_SIZE_WORDS
    LineBuffer,     \* LINE_BUFFER_SIZE, longer than the fixed responses
    StatusLengths,  \* lengths of a status report, with its line feed
    PowerUpStates,  \* sys.state at power-up: ALARM if homing is enabled
    LimitChecks,    \* what the welcome may find: TRUE if hard limits are enabled
                    \* and a switch is closed
    MaxInputs       \* bound on the realtime characters and lines of the host, the
                    \* jogs of the user and the switches found closed, together

ASSUME MachineClientAssumption ==
    /\ RxSize \in Nat /\ QueueWords \in Nat
    /\ LineBuffer \in Nat /\ LineBuffer % 4 = 0 /\ LineBuffer > 27
    /\ StatusLengths \in SUBSET (1 .. LineBuffer)
    /\ PowerUpStates \in SUBSET {"IDLE", "ALARM"}
    /\ LimitChecks \subseteq BOOLEAN /\ FALSE \in LimitChecks
    /\ MaxInputs \in Nat

VARIABLES
    pc,         \* where the main thread is
    state,      \* sys.state
    homing,     \* BITFLAG_HOMING_ENABLE
    flags,      \* sys_rt_exec_state
    alarm,      \* sys_rt_exec_alarm is not zero
    moving,     \* the steppers run
    waiting,    \* a jog is planned that the steppers have not been started for
    rxRing,     \* rxRingBuf
    line,       \* the line being assembled, protocol.c:30
    lineRing,   \* lineRingBuf, the queue of responses
    fetched,    \* the response the response thread has fetched, "none" in its sleep
    client,     \* state of grblMachine
    asked,      \* number of lines the client has sent
    answered,   \* the last of them has got an answer
    wasLocked,  \* the client has sent $X at some time
    lost,       \* the last of them was cut short, wiped or mixed with others, or
                \* was to open a lock that was open
    hostLine,   \* the host has sent the text of a line, not its end
    host, lines, presses    \* numbers of inputs so far; a closed switch is in host

mainVars == <<pc, state, homing, flags, alarm, moving, waiting, line>>
clientVars == <<fetched, client, asked, wasLocked>>
environment == <<hostLine, host, lines, presses>>
vars == <<mainVars, rxRing, lineRing, clientVars, answered, lost, environment>>

Texts == {"$X", "$J", "$H", "G"}
Char == [text : Texts \cup {"EOL"}, of : Nat]
EndOfLine(n) == [text |-> "EOL", of |-> n]
Messages == {"blank", "ok", "error", "Grbl", "limits", "locked", "unlocked", "ALARM",
             "<IDLE", "<JOG", "<CYCLE", "<ALARM", "<HOME"}

TypeOK ==
    /\ pc \in {"boot", "clear", "reset", "welcome", "read", "execute", "homing"}
    /\ state \in {"IDLE", "JOG", "CYCLE", "ALARM", "HOMING"}
    /\ flags \subseteq {"RESET", "STATUS", "STOP"}
    /\ {homing, alarm, moving, waiting, wasLocked, answered, lost, hostLine} \subseteq BOOLEAN
    /\ rxRing \in Seq(Char) /\ Len(rxRing) <= RxSize
    /\ line \in Seq(Char)
    /\ lineRing \in Seq([msg : Messages, len : 1 .. LineBuffer])
    /\ fetched \in Messages \cup {"nothing", "none"}
    /\ client \in {"start", "init", "ready", "locked", "jog", "waitidle", "alarm"}
    /\ asked \in Nat
    /\ {host, lines, presses} \subseteq Nat /\ host + lines + presses <= MaxInputs

Init ==
    /\ pc = "boot" /\ state \in PowerUpStates /\ homing = (state = "ALARM")
    /\ flags = {} /\ alarm = FALSE /\ moving = FALSE /\ waiting = FALSE
    /\ rxRing = <<>> /\ line = <<>> /\ lineRing = <<>>
    /\ fetched = "none" /\ client = "start" /\ asked = 0 /\ wasLocked = FALSE /\ answered = FALSE /\ lost = FALSE
    /\ hostLine = FALSE /\ host = 0 /\ lines = 0 /\ presses = 0

-----------------------------------------------------------------------------
(* Responses *)

\* Mutant: the length passed in bytes where words are wanted.
WordsAsBytes(len) == len

\* Words an item of so many bytes takes, as serial_write() computes them.
Words(len) == (len \div 4) + (len % 4)

WordsUsed(q) ==
    LET upTo[i \in 0 .. Len(q)] ==
          IF i = 0 THEN 0 ELSE upTo[i - 1] + 1 + Words(q[i].len)
    IN  upTo[Len(q)]

\* A complete line enters the queue, or is dropped when there is no room.
Put(q, item) ==
    IF WordsUsed(q) + 1 + Words(item.len) <= QueueWords THEN Append(q, item) ELSE q

Response(msg, len) == [msg |-> msg, len |-> len]
Ok == Response("ok", 4)
Error == Response("error", 9)

PutIf(said, q, item) == IF said THEN Put(q, item) ELSE q

\* The answer to a status request in state s.
StatusMessage ==
    [IDLE |-> "<IDLE", JOG |-> "<JOG", CYCLE |-> "<CYCLE", ALARM |-> "<ALARM",
     HOMING |-> "<HOME"]

\* serial_get_tx_line() into a buffer of LINE_BUFFER_SIZE bytes: an item that
\* has more words than the buffer is refused and stays in the queue.
Fits(item) == Words(item.len) <= LineBuffer \div 4
Fetched == IF lineRing # <<>> /\ Fits(Head(lineRing)) THEN Head(lineRing).msg ELSE "nothing"
Taken == IF lineRing # <<>> /\ Fits(Head(lineRing)) THEN Tail(lineRing) ELSE lineRing

-----------------------------------------------------------------------------
(* The main thread *)

Input == host + lines + presses < MaxInputs

Initialized == pc # "boot"     \* serial_is_initialized()

\* grblMain() up to and including serial_init().
SerialInit ==
    /\ pc = "boot" /\ pc' = "clear"
    /\ UNCHANGED <<state, homing, flags, alarm, moving, waiting, line, rxRing, lineRing,
                   clientVars, answered, lost, environment>>

\* The flags are cleared at the head of the loop in grblMain() ...
ClearFlags ==
    /\ pc = "clear" /\ pc' = "reset"
    /\ flags' = {} /\ alarm' = FALSE
    /\ UNCHANGED <<state, homing, moving, waiting, line, rxRing, lineRing, clientVars,
                   answered, lost, environment>>

\* The client still waits for the answer to its last line, which is in cs.
Awaited(cs) == ~answered /\ asked > 0 /\ \E i \in DOMAIN cs : cs[i].of = asked

\* ... then the receive ring, the planner and the steppers are reset ...
ResetSystems ==
    /\ pc = "reset" /\ pc' = "welcome"
    /\ rxRing' = <<>> /\ line' = <<>>
    /\ lost' = (lost \/ Awaited(rxRing) \/ Awaited(line))
    /\ moving' = FALSE /\ waiting' = FALSE
    /\ UNCHANGED <<state, homing, flags, alarm, lineRing, clientVars, answered, environment>>

Greeted == Put(Put(lineRing, Response("blank", 2)), Response("Grbl", 26))

\* ... and the welcome message is printed, after a line feed that ends
\* whatever was printed before.  A closed limit switch is an alarm, an alarm
\* comes with the lock message, every other state becomes IDLE.  The startup
\* lines are empty, as settings_restore() leaves them, there is no door at
\* the input pin, and no line puts the machine to sleep.
Welcome ==
    /\ pc = "welcome" /\ pc' = "read"
    /\ \E onSwitch \in LimitChecks :
         LET locks == onSwitch \/ state = "ALARM"
         IN  /\ onSwitch => Input
             /\ host' = IF onSwitch THEN host + 1 ELSE host
             /\ lineRing' = PutIf(locks, PutIf(onSwitch, Greeted, Response("limits", 20)),
                                 Response("locked", 27))
             /\ state' = IF locks THEN "ALARM" ELSE "IDLE"
    /\ UNCHANGED <<homing, flags, alarm, moving, waiting, line, rxRing, clientVars,
                   answered, lost, hostLine, lines, presses>>

ReadText ==
    /\ pc = "read" /\ rxRing # <<>> /\ Head(rxRing).text # "EOL"
    /\ line' = Append(line, Head(rxRing))
    /\ rxRing' = Tail(rxRing)
    /\ UNCHANGED <<pc, state, homing, flags, alarm, moving, waiting, lineRing, clientVars,
                   answered, lost, environment>>

\* protocol_exec_rt_system(): alarm, reset, status report, cycle start, end
\* of the cycle, in this order.
ExecRtSystem(next, cycleStart) ==
    LET s == IF alarm THEN "ALARM" ELSE state
        said == PutIf(alarm, lineRing, Response("ALARM", 9))
        starts == cycleStart /\ s = "IDLE"
    IN  /\ alarm' = FALSE
        /\ IF "RESET" \in flags
             THEN /\ pc' = "clear" /\ state' = s /\ lineRing' = said
                  /\ UNCHANGED <<flags, moving, waiting>>
             ELSE /\ pc' = next /\ flags' = {}
                  /\ \E len \in StatusLengths :
                       lineRing' = PutIf("STATUS" \in flags, said,
                                         Response(StatusMessage[s], len))
                  /\ state' = IF starts THEN "CYCLE"
                              ELSE IF "STOP" \in flags THEN "IDLE" ELSE s
                  /\ waiting' = (waiting /\ ~starts)
                  /\ moving' = (moving \/ starts)
        /\ UNCHANGED <<homing, line, clientVars, answered, lost, environment>>

\* The end of a line: the flags are served before the line is executed.
ReadEol ==
    /\ pc = "read" /\ rxRing # <<>> /\ Head(rxRing).text = "EOL"
    /\ rxRing' = Tail(rxRing)
    /\ ExecRtSystem("execute", FALSE)

\* Nothing to read: protocol_auto_cycle_start() and a poll of the flags.
NothingToRead ==
    /\ pc = "read" /\ rxRing = <<>>
    /\ UNCHANGED rxRing
    /\ ExecRtSystem("read", waiting)

\* The answer belongs to the client's last line if some of it was in the line.
Answers == IF Awaited(line) THEN Len(line) = 1 ELSE answered

LineIs(text) == Len(line) = 1 /\ line[1].text = text
AlreadyOpen == LineIs("$X") /\ state # "ALARM"

\* A line is executed, the response ring becomes ring, and the next line begins.
Executed(ring) ==
    /\ pc = "execute" /\ pc' = "read"
    /\ line' = <<>>
    /\ lineRing' = ring
    /\ answered' = Answers
    /\ lost' = (lost \/ (Awaited(line) /\ (Len(line) > 1 \/ AlreadyOpen)))
    /\ UNCHANGED <<homing, flags, alarm, rxRing, clientVars, environment>>

EmptyLine == line = <<>> /\ Executed(Put(lineRing, Ok)) /\ UNCHANGED <<state, moving, waiting>>

HomingAllowed == homing /\ state \in {"IDLE", "ALARM"}

\* Pieces of two lines in one, a block of G-code under lock or in a jog, or
\* homing where it is not enabled or the machine in motion.
BadLine ==
    /\ \/ Len(line) > 1
       \/ LineIs("G") /\ state \in {"ALARM", "JOG"}
       \/ LineIs("$H") /\ ~HomingAllowed
    /\ Executed(Put(lineRing, Error)) /\ UNCHANGED <<state, moving, waiting>>

GcodeLine ==
    /\ LineIs("G") /\ state \notin {"ALARM", "JOG"}
    /\ Executed(Put(lineRing, Ok)) /\ UNCHANGED <<state, moving, waiting>>

\* Mutant: the feedback message is left out.
UnlockSilently ==
    /\ LineIs("$X")
    /\ Executed(Put(lineRing, Ok))
    /\ state' = IF state = "ALARM" THEN "IDLE" ELSE state
    /\ UNCHANGED <<moving, waiting>>

UnlockLine ==
    /\ LineIs("$X")
    /\ Executed(Put(PutIf(state = "ALARM", lineRing, Response("unlocked", 25)), Ok))
    /\ state' = IF state = "ALARM" THEN "IDLE" ELSE state
    /\ UNCHANGED <<moving, waiting>>

\* A jog starts the steppers from IDLE; in JOG it lengthens the motion, or is
\* left over if that has just ended.
JogLine ==
    /\ LineIs("$J") /\ state \in {"IDLE", "JOG"}
    /\ Executed(Put(lineRing, Ok))
    /\ state' = "JOG"
    /\ moving' = (moving \/ state = "IDLE")
    /\ waiting' = (waiting \/ (state = "JOG" /\ ~moving))

JogRefused ==
    /\ LineIs("$J") /\ state \notin {"IDLE", "JOG"}
    /\ Executed(Put(lineRing, Error)) /\ UNCHANGED <<state, moving, waiting>>

\* $H: the homing cycle begins, whether the machine is locked or not.
HomingLine ==
    /\ LineIs("$H") /\ HomingAllowed
    /\ pc = "execute" /\ pc' = "homing" /\ state' = "HOMING"
    /\ UNCHANGED <<homing, flags, alarm, moving, waiting, line, rxRing, lineRing,
                   clientVars, answered, lost, environment>>

\* It has come to its end: the flags are served, and the machine is IDLE.
\* Nothing says that it has been unlocked.
HomingDone ==
    /\ pc = "homing" /\ "RESET" \notin flags
    /\ pc' = "read" /\ state' = "IDLE" /\ flags' = {} /\ line' = <<>>
    /\ \E len \in StatusLengths :
         lineRing' = Put(PutIf("STATUS" \in flags, lineRing, Response("<HOME", len)), Ok)
    /\ UNCHANGED <<homing, alarm, moving, waiting, rxRing, clientVars, answered, lost,
                   environment>>

\* It fails, or a reset ends it: an alarm and a reset.
HomingFails ==
    /\ pc = "homing" /\ pc' = "clear" /\ state' = "ALARM"
    /\ flags' = flags \cup {"RESET"} /\ alarm' = FALSE /\ line' = <<>>
    /\ lineRing' = Put(Put(lineRing, Response("ALARM", 9)), Ok)
    /\ UNCHANGED <<homing, moving, waiting, rxRing, clientVars, answered, lost, environment>>

ExecuteLine ==
    EmptyLine \/ BadLine \/ GcodeLine \/ UnlockLine \/ JogLine \/ JogRefused \/ HomingLine

Main ==
    \/ SerialInit \/ ClearFlags \/ ResetSystems \/ Welcome
    \/ ReadText \/ ReadEol \/ NothingToRead
    \/ ExecuteLine \/ HomingDone \/ HomingFails

\* The step interrupt runs out of segments.
StepperDone ==
    /\ moving /\ moving' = FALSE
    /\ flags' = flags \cup {"STOP"}
    /\ UNCHANGED <<pc, state, homing, alarm, waiting, line, rxRing, lineRing, clientVars,
                   answered, lost, environment>>

-----------------------------------------------------------------------------
(* Realtime commands and lines, from both sides *)

\* mc_reset(), called for CMD_RESET.
McReset ==
    IF "RESET" \in flags
      THEN UNCHANGED <<flags, alarm, moving>>
      ELSE /\ flags' = flags \cup {"RESET"}
           /\ alarm' = (alarm \/ state \in {"JOG", "CYCLE", "HOMING"})
           /\ moving' = (moving /\ state \notin {"JOG", "CYCLE", "HOMING"})

RaiseStatus == flags' = flags \cup {"STATUS"} /\ UNCHANGED <<alarm, moving>>

\* executeLine(): the line, ended by CR and LF, is put into the receive ring,
\* as much of it as there is room for.
ExecuteClientLine(text) ==
    LET n == asked + 1
        chars == <<[text |-> text, of |-> n], EndOfLine(n), EndOfLine(n)>>
        room == RxSize - Len(rxRing)
    IN  /\ asked' = n /\ answered' = FALSE
        /\ rxRing' = IF Initialized
                       THEN rxRing \o SubSeq(chars, 1, IF room < 3 THEN room ELSE 3)
                       ELSE rxRing
        /\ lost' = (~Initialized \/ room < 2)
        /\ wasLocked' = (wasLocked \/ text = "$X")

NoLine == UNCHANGED <<rxRing, asked, wasLocked, answered, lost>>
NoCommand == UNCHANGED <<flags, alarm, moving>>

-----------------------------------------------------------------------------
(* The client *)

\* Mutant: any response but an error is taken for the answer to the jog.
TargetOnAny(msg) ==
    CASE client = "start"    -> "init"
      [] client = "init"     -> IF msg = "Grbl" THEN "ready" ELSE "init"
      [] client = "ready"    -> IF msg = "locked" THEN "locked" ELSE "ready"
      [] client = "locked"   -> IF msg = "unlocked" THEN "ready" ELSE "locked"
      [] client = "jog"      -> IF msg \in {"nothing", "error"} THEN "jog" ELSE "waitidle"
      [] client = "waitidle" -> IF msg = "<IDLE" THEN "ready"
                                ELSE IF msg = "<ALARM" THEN "alarm" ELSE "waitidle"
      [] client = "alarm"    -> IF msg = "nothing" THEN "ready" ELSE "alarm"

\* The state machine takes one response, or an empty one.
Target(msg) ==
    CASE client = "start"    -> "init"
      [] client = "init"     -> IF msg = "Grbl" THEN "ready" ELSE "init"
      [] client = "ready"    -> IF msg = "locked" THEN "locked" ELSE "ready"
      [] client = "locked"   -> IF msg = "unlocked" THEN "ready" ELSE "locked"
      [] client = "jog"      -> IF msg = "ok" THEN "waitidle" ELSE "jog"
      [] client = "waitidle" -> IF msg = "<IDLE" THEN "ready"
                                ELSE IF msg = "<ALARM" THEN "alarm" ELSE "waitidle"
      [] client = "alarm"    -> IF msg = "nothing" THEN "ready" ELSE "alarm"

\* Mutant: the status is asked for on the first entry only.
AskOnce ==
    (IF Initialized /\ client # "waitidle" THEN RaiseStatus ELSE NoCommand) /\ NoLine

\* executeCommand() does nothing before the serial port is initialized.
EntryInit == (IF Initialized THEN McReset ELSE NoCommand) /\ NoLine
EntryLocked == ExecuteClientLine("$X") /\ NoCommand
EntryJog == ExecuteClientLine("$J") /\ NoCommand
EntryWaitIdle == (IF Initialized THEN RaiseStatus ELSE NoCommand) /\ NoLine

\* grblResponseThread() fetches a response, waits for the mutex, which jog()
\* may hold, and runs the state machine with the response.
Fetch ==
    /\ fetched = "none" /\ fetched' = Fetched
    /\ lineRing' = Taken
    /\ UNCHANGED <<mainVars, rxRing, client, asked, wasLocked, answered, lost, environment>>

Respond ==
    /\ fetched # "none" /\ fetched' = "none"
    /\ client' = Target(fetched)
    /\ CASE client = "start" -> EntryInit
         [] client = "ready" /\ client' = "locked" -> EntryLocked
         [] client' = "waitidle" -> EntryWaitIdle
         [] OTHER -> NoLine /\ NoCommand
    /\ UNCHANGED <<pc, state, homing, waiting, line, lineRing, environment>>

\* The menu calls jog(): only the state ready knows the event, waitidle takes
\* any event for a reason to ask again.
PressJog ==
    /\ Input /\ presses' = presses + 1
    /\ \/ client = "ready" /\ client' = "jog" /\ EntryJog
       \/ client = "waitidle" /\ EntryWaitIdle /\ UNCHANGED client
    /\ UNCHANGED <<pc, state, homing, waiting, line, lineRing, fetched, hostLine, host, lines>>

-----------------------------------------------------------------------------
(* The host *)

HostCommand ==
    /\ Initialized /\ Input /\ host' = host + 1
    /\ McReset \/ RaiseStatus
    /\ UNCHANGED <<pc, state, homing, waiting, line, rxRing, lineRing, clientVars, answered,
                   lost, hostLine, lines, presses>>

\* Mutant: off by one at the full ring.
ReceiveOneMore(char) ==
    rxRing' = IF Len(rxRing) <= RxSize THEN Append(rxRing, char) ELSE rxRing

\* The UART interrupt drops what does not fit into the ring.
Receive(char) == rxRing' = IF Len(rxRing) < RxSize THEN Append(rxRing, char) ELSE rxRing

HostText ==
    /\ Initialized /\ Input /\ lines' = lines + 1
    /\ ~hostLine /\ hostLine' = TRUE
    /\ \E t \in {"$X", "$H", "G"} : Receive([text |-> t, of |-> 0])
    /\ UNCHANGED <<mainVars, lineRing, clientVars, answered, lost, host, presses>>

HostEol ==
    /\ hostLine /\ hostLine' = FALSE
    /\ Receive(EndOfLine(0))
    /\ UNCHANGED <<mainVars, lineRing, clientVars, answered, lost, host, lines, presses>>

-----------------------------------------------------------------------------
Next == Main \/ StepperDone \/ Fetch \/ Respond \/ PressJog \/ HostCommand \/ HostText \/ HostEol

Spec == Init /\ [][Next]_vars

(* The main thread and the response thread have the same priority and share *)
(* the processor by time slices; a started motion ends.  Nothing is assumed *)
(* of the user and the host.                                                *)
FairSpec == Spec /\ WF_vars(Main) /\ WF_vars(Fetch \/ Respond) /\ WF_vars(StepperDone)

-----------------------------------------------------------------------------
(* Properties *)

(* As long as the client has never sent $X, because the machine has not     *)
(* locked itself, and no other host has sent a line (an "ok" that answers   *)
(* either may be taken for the jog's):                                      *)
(* the client takes its jog for accepted, and asks for its end, only after  *)
(* the main thread has answered it; so the IDLE it then waits for is the    *)
(* one after the jog, and no second jog is sent meanwhile (jog, waitidle).  *)
JogWaitsForAnswer ==
    ~wasLocked /\ lines = 0 /\ client = "waitidle" => answered

(* The client that waits for IDLE gets to see it, or the alarm, however     *)
(* often the host polls, resets and mixes its lines in (waitidle).          *)
WaitEnds == client = "waitidle" ~> client # "waitidle"

(* The welcome message of the reset that the client asks for, or of the     *)
(* power-up, gets to the client (init).                                     *)
WelcomeSeen == client = "init" ~> client = "ready"

(* The client that sends $X on the lock message sees the machine unlocked,  *)
(* unless its line is wiped by a reset or mixed with a line of the host, or *)
(* is executed when the machine is not locked any more: then it is answered *)
(* by a bare ok, and the client goes on waiting for the message.  That is   *)
(* so after a $H of the host, which unlocks without a word, after its $X,   *)
(* if the client has read that message in another state, and after a late   *)
(* end of cycle (system.c:165-203, protocol.c:390-411).                     *)
Unlocks == client = "locked" ~> (client = "ready" \/ lost)
=============================================================================
