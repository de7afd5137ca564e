--------------------------- MODULE Protocol_proofs ---------------------------
(***************************************************************************)
(* Proofs about module Protocol, for every size of the rings, every number *)
(* of events and lines, and every set of them: what the realtime flags, the*)
(* machine state and the suspension promise each other while interrupts    *)
(* come between the steps of the main thread.                              *)
(***************************************************************************)
EXTENDS Protocol, TLAPS

-----------------------------------------------------------------------------
(* Types, in the parts that the steps change together. *)

Kinds == {"move", "jog", "probe"}
QueueOK(q) == q \in Seq(Kinds) /\ Len(q) <= MaxBlocks

FlagType ==
    /\ rtState \subseteq ExecFlags /\ rtAlarm \in Alarms /\ rtExec \subseteq ExecFlags
    /\ rtSpindle \in BOOLEAN
    /\ startBy \subseteq Originators /\ execBy \subseteq Originators

SysType ==
    /\ state \in States /\ suspend \subseteq Suspensions
    /\ stepControl \subseteq StepControls /\ spindleStop \subseteq SpindleStops
    /\ abort \in BOOLEAN /\ softLimit \in BOOLEAN /\ modalSpindle \in BOOLEAN

FlowType ==
    /\ pc \in Labels /\ ret \in ReturnPoints
    /\ sub \in {"exec", "suspend", "restored", "sleeping"}
    /\ line \in LineKinds \cup {"none"}
    /\ cmds \in 0 .. MaxCmds /\ lines \in 0 .. MaxLines

QueueType ==
    /\ QueueOK(blocks) /\ partial \in BOOLEAN /\ (partial => blocks # <<>>)
    /\ segs \in 0 .. MaxSegs

RunType == running \in BOOLEAN /\ probing \in BOOLEAN /\ posLost \in BOOLEAN

Types == FlagType /\ SysType /\ FlowType /\ QueueType /\ RunType

\* What st_prep_buffer() leaves when it begins with the queue q and control ctl.
Prepared(q, ctl) ==
    /\ QueueType' /\ stepControl' \in SUBSET StepControls
    /\ q = <<>> => blocks' = <<>>
    /\ "EXECUTE_HOLD" \in stepControl' <=> "EXECUTE_HOLD" \in ctl

LEMMA TypesAreTypeOK == TypeOK <=> Types
  BY DEF TypeOK, Types, FlagType, SysType, FlowType, QueueType, RunType, QueueOK, Kinds

\* st_prep_buffer() takes blocks off the head of the queue and leaves the hold alone.
LEMMA PrepBufferType ==
    ASSUME QueueType, NEW q, QueueOK(q), partial => q # <<>>,
           NEW ctl \in SUBSET StepControls, PrepBuffer(q, ctl)
    PROVE  Prepared(q, ctl)
<1>1. CASE "END_MOTION" \in ctl
  BY <1>1 DEF PrepBuffer, QueueType, QueueOK, Prepared
<1>2. CASE "END_MOTION" \notin ctl
  <2>1. PICK n \in 0 .. (MaxSegs - segs), done \in 0 .. Len(q), stopped \in BOOLEAN :
          /\ segs' = segs + n
          /\ blocks' = SubSeq(q, done + 1, Len(q))
          /\ partial' = (done < Len(q) /\ (n > done \/ (done = 0 /\ partial)))
          /\ stepControl' = IF stopped THEN ctl \cup {"END_MOTION"} ELSE ctl
    BY <1>2 DEF PrepBuffer
  <2>2. MaxSegs \in Nat /\ MaxBlocks \in Nat /\ segs \in 0 .. MaxSegs /\ Len(q) \in Nat
    BY ProtocolAssumption DEF QueueType, QueueOK
  <2>3. blocks' \in Seq(Kinds) /\ Len(blocks') = Len(q) - done
    BY <2>1, <2>2 DEF QueueOK
  <2>4. QueueOK(blocks') /\ segs' \in 0 .. MaxSegs
    BY <2>1, <2>2, <2>3 DEF QueueOK
  <2>5. ASSUME partial' PROVE blocks' # <<>>
    <3>1. done < Len(q) BY <2>1, <2>5
    <3>2. Len(blocks') > 0 BY <3>1, <2>2, <2>3
    <3> QED BY <3>2
  <2>6. partial' \in BOOLEAN BY <2>1
  <2>7. /\ stepControl' \in SUBSET StepControls
        /\ "EXECUTE_HOLD" \in stepControl' <=> "EXECUTE_HOLD" \in ctl
    <3>1. CASE stopped BY <2>1, <3>1, Zenon DEF StepControls
    <3>2. CASE ~stopped BY <2>1, <3>2
    <3> QED BY <3>1, <3>2
  <2>8. q = <<>> => blocks' = <<>>
    BY <2>2, <2>3
  <2> QED BY <2>4, <2>5, <2>6, <2>7, <2>8 DEF QueueType, Prepared
<1> QED BY <1>1, <1>2

\* From here on the operators that the actions are put together from are visible.
USE DEF Originators, rtVars, sysVars, queue, motVars, callVars, envVars, execVars, InMotionState,
        StopSteppers, McReset, RaiseCycleStart, AutoCycleStart, ToMainLoop,
        ExecuteRealtime, RtReturn, HoldAllowed, HoldBrakes, AtRest,
        SuspendAfterCancel, StateAfterFeedHold, AfterDoor, ClearedByHold, HoldFlags,
        StartAllowed, AfterDoorResume, Resumable, ClearStart, StartsCycle, HoldsOn,
        AfterStop, PollInSuspend, InSuspend, Retracted, FinishRestore, Accept,
        SoftTrip, JogExecute

LEMMA RtStartCyclePrepares ==
    ASSUME Types, RtStartCycle PROVE Prepared(blocks, {})
  BY PrepBufferType DEF RtStartCycle, Types, QueueType

LEMMA RtPrepPrepares ==
    ASSUME Types, RtPrep PROVE Prepared(blocks, stepControl)
<1>1. CASE PrepBuffer(blocks, stepControl)
  BY <1>1, PrepBufferType DEF Types, QueueType, SysType
<1>2. CASE UNCHANGED <<queue, segs, stepControl>>
  BY <1>2 DEF Types, QueueType, SysType, Prepared, queue
<1> QED BY <1>1, <1>2 DEF RtPrep

LEMMA McLineJogPrepares ==
    ASSUME Types, McLineJog
    PROVE  Prepared(blocks, stepControl) \/ Prepared(Append(blocks, "jog"), stepControl)
<1> DEFINE q == Append(blocks, "jog")
<1>1. ASSUME ~BufferFull PROVE QueueOK(q) /\ q # <<>>
  BY <1>1, ProtocolAssumption DEF BufferFull, Types, QueueType, QueueOK, Kinds
<1>2. CASE ~abort /\ ~BufferFull /\ JogExecute(q)
  <2>1. CASE PrepBuffer(q, stepControl)
    BY <1>1, <1>2, <2>1, PrepBufferType DEF Types, SysType
  <2>2. CASE blocks' = q /\ UNCHANGED <<partial, segs, stepControl>>
    BY <1>1, <1>2, <2>2 DEF Types, QueueType, SysType, Prepared
  <2> QED BY <1>2, <2>1, <2>2 DEF JogExecute
<1>3. CASE blocks # <<>> /\ JogExecute(blocks)
  <2>1. CASE PrepBuffer(blocks, stepControl)
    BY <2>1, PrepBufferType DEF Types, QueueType, SysType
  <2>2. CASE blocks' = blocks /\ UNCHANGED <<partial, segs, stepControl>>
    BY <2>2 DEF Types, QueueType, SysType, Prepared
  <2> QED BY <1>3, <2>1, <2>2 DEF JogExecute
<1> QED BY <1>2, <1>3 DEF McLineJog

LEMMA McLineQueueType ==
    ASSUME Types, McLineQueue PROVE QueueType'
<1>1. blocks' = Append(blocks, "move") /\ UNCHANGED <<partial, segs>>
  BY DEF McLineQueue, motVars
<1>2. QueueOK(blocks') /\ blocks' # <<>>
  BY <1>1, ProtocolAssumption DEF McLineQueue, BufferFull, Types, QueueType, QueueOK, Kinds
<1> QED BY <1>1, <1>2 DEF Types, QueueType

LEMMA ProbeStartType ==
    ASSUME Types, ProbeStart PROVE QueueType'
<1>1. CASE abort BY <1>1 DEF ProbeStart, Types, QueueType
<1>2. CASE ~abort
  <2>1. blocks' = Append(blocks, "probe") /\ UNCHANGED <<partial, segs>>
    BY <1>2 DEF ProbeStart
  <2>2. QueueOK(blocks') /\ blocks' # <<>>
    BY <1>2, <2>1, ProtocolAssumption
    DEF ProbeStart, BufferFull, Types, QueueType, QueueOK, Kinds
  <2> QED BY <2>1, <2>2 DEF Types, QueueType
<1> QED BY <1>1, <1>2

LEMMA EmptyQueue ==
    ASSUME blocks' = <<>>, partial' = FALSE, segs' = 0 PROVE QueueType'
<1>1. blocks' \in Seq(Kinds) /\ Len(blocks') = 0 OBVIOUS
<1>2. MaxBlocks \in Nat /\ MaxSegs \in Nat BY ProtocolAssumption
<1>3. QueueOK(blocks') BY <1>1, <1>2 DEF QueueOK
<1>4. segs' \in 0 .. MaxSegs BY <1>2
<1>5. partial' \in BOOLEAN /\ ~partial' OBVIOUS
<1> QED BY <1>3, <1>4, <1>5 DEF QueueType

LEMMA ProbeEndType == ASSUME ProbeEnd PROVE QueueType'
<1>1. blocks' = <<>> /\ partial' = FALSE /\ segs' = 0 BY DEF ProbeEnd
<1> QED BY <1>1, EmptyQueue

LEMMA RestartType == ASSUME Restart PROVE QueueType'
<1>1. blocks' = <<>> /\ partial' = FALSE /\ segs' = 0 BY DEF Restart
<1> QED BY <1>1, EmptyQueue

LEMMA RtStopDoneType == ASSUME Types, RtStopDone PROVE QueueType'
<1>1. CASE "JOG_CANCEL" \in suspend
  <2>1. blocks' = <<>> /\ partial' = FALSE /\ segs' = 0 BY <1>1 DEF RtStopDone
  <2> QED BY <2>1, EmptyQueue
<1>2. CASE "JOG_CANCEL" \notin suspend
  BY <1>2 DEF RtStopDone, Types, QueueType
<1> QED BY <1>1, <1>2

LEMMA RtHoldType ==
    ASSUME SysType, RtHold PROVE SysType'
<1> USE DEF SysType, States, Suspensions, StepControls, RtHold
<1>1. SuspendAfterCancel \subseteq Suspensions OBVIOUS
<1>2. StateAfterFeedHold \in States OBVIOUS
<1>3. AfterDoor[1] \in States BY <1>2
<1>4. AfterDoor[2] \subseteq Suspensions BY <1>1
<1>5. state' \in States BY <1>3
<1>6. suspend' \subseteq Suspensions BY <1>4
<1>7. stepControl' \subseteq StepControls OBVIOUS
<1> QED BY <1>5, <1>6, <1>7
-----------------------------------------------------------------------------
(* The inductive invariant.  Nothing is claimed of a machine that is on its *)
(* way to grblMain(): after an abort or before the restart.                 *)

Held     == "HOLD_COMPLETE" \in suspend
Cancels  == {"MOTION_CANCEL", "JOG_CANCEL"}
Moving   == {"CYCLE", "JOG"}
Leaving  == abort \/ pc \in {"reinit", "restart"}
Entering == {"rt.alarm", "rt.critical", "rt.copy"}
Serving  == RtSteps \ Entering

\* Locked, and about to see the reset.
Doomed == state = "ALARM" /\ (pc = "rt.critical" \/ (pc = "rt.copy" /\ "RESET" \in rtState))

\* The deceleration of a hold.
Braking == "EXECUTE_HOLD" \in stepControl /\ state \in {"HOLD", "SAFETY_DOOR"} /\ ~Held

\* Outside the suspend loop nothing is suspended; an abort keeps its reset flag.
FlowInv ==
    /\ pc \in ReturnPoints => sub = "exec"
    /\ pc \in ReturnPoints \cup {"jogWake"} => suspend = {} \/ abort
    /\ abort /\ pc # "rt.critical" => "RESET" \in rtState
    /\ pc \in Serving => ~abort
    /\ pc = "reinit" => abort \/ ~running
    /\ pc = "restart" => suspend = {} /\ ~abort
    /\ pc = "rt.critical" => state = "ALARM"
    /\ pc = "rt.wake" => state = "CYCLE"
    /\ pc = "jogWake" => state = "JOG"

\* An alarm comes with a reset, but for the one of a failed probe.
AlarmInv ==
    rtAlarm # "none" =>
      \/ "RESET" \in rtState \/ pc = "rt.critical"
      \/ pc = "rt.alarm" /\ state = "IDLE"

\* Steppers run in a cycle, in a jog or while a hold brakes them.
RestInv ==
    /\ state = "IDLE" => ~running
    /\ ~Leaving /\ running => state \in Moving \/ Braking \/ Doomed
    /\ ~Leaving /\ Held => ~running /\ state \notin Moving
    /\ pc = "rt.wake" \/ (pc = "jogWake" /\ ~abort) => ~running
    /\ ~Leaving /\ state \in Moving /\ suspend \cap Cancels # {} =>
         "EXECUTE_HOLD" \in stepControl

\* A cycle stop that outlived a restart is served before any motion is queued.
Leftover ==
    /\ blocks = <<>> /\ sub = "exec"
    /\ \/ pc \in {"lines", "rt.hold"} \cup Entering /\ suspend = {}
       \/ pc \in {"rt.start", "rt.stop"} /\ (state \in {"ALARM", "CHECK_MODE"} => suspend = {})
    /\ pc \in Serving => "CYCLE_STOP" \in rtExec

\* EXEC_CYCLE_STOP is there only after the steppers have stopped by themselves.
StopInv ==
    /\ pc \in {"rt.hold", "rt.start", "rt.wake", "rt.stop"} =>
         ("CYCLE_STOP" \in rtExec => "CYCLE_STOP" \in rtState)
    /\ ~Leaving /\ "CYCLE_STOP" \in rtState =>
         /\ ~running /\ pc \notin {"rt.wake", "jogWake"}
         /\ state \in Moving \/ Braking \/ Doomed \/ Leftover

\* The door counts as closed only after the hold.
DoorInv ==
    ~Leaving /\ state = "SAFETY_DOOR" => "SAFETY_DOOR_AJAR" \in suspend \/ Held

\* Sleep comes from "$SLP" alone, and holds a machine at rest until the reset.
SleepInv ==
    /\ ~Leaving /\ state = "SLEEP" => Held /\ "JOG_CANCEL" \notin suspend /\ ~softLimit
    /\ ~Leaving /\ ("SLEEP" \in rtState \/ (pc = "rt.hold" /\ "SLEEP" \in rtExec)) =>
         /\ state \in {"IDLE", "ALARM"} /\ suspend = {} /\ ~softLimit
         /\ pc \in {"lines", "rt.hold"} \cup Entering
         /\ pc = "rt.hold" => "SLEEP" \in rtExec
    /\ pc = "rt.start" /\ "SLEEP" \in rtExec => state = "SLEEP"
    /\ softLimit /\ ~Leaving =>
         /\ pc \in {"soft"} \cup RtSteps \cup {"suspend", "restored", "sleeping"}
         /\ pc \notin ReturnPoints => ret \in {"soft", "softEnd"}
         /\ ret = "softEnd" => pc \in Entering /\ ("RESET" \in rtState \/ pc = "rt.critical")
    /\ pc = "restart" => ~softLimit /\ "SLEEP" \notin rtState

\* The main program's own cycle start is gone before a hold can be complete.
Ordered(by) == "user" \in by \/ "restore" \in by
StartOrdered == "CYCLE_START" \in rtState => Ordered(startBy)
OrderInv ==
    ~abort =>
      /\ pc \notin Entering \cup {"rt.hold", "rt.start", "rt.wake"} => StartOrdered
      /\ pc \in Entering => StartOrdered \/ (suspend = {} /\ sub = "exec")
      /\ pc \in {"rt.hold", "rt.start"} => "CYCLE_START" \in rtExec \/ StartOrdered
      /\ pc = "rt.hold" /\ "CYCLE_START" \in rtExec => Ordered(execBy) \/ suspend = {}
      /\ pc = "rt.start" /\ "CYCLE_START" \in rtExec =>
           Ordered(execBy) \/ ~Held \/ rtExec \cap HoldFlags # {}

IInv ==
    /\ Types
    /\ FlowInv /\ AlarmInv /\ RestInv /\ StopInv /\ DoorInv /\ SleepInv /\ OrderInv

-----------------------------------------------------------------------------
(* Every step keeps the types. *)

USE DEF Types, FlagType, SysType, FlowType, RunType, ExecFlags, Alarms, States,
        Suspensions, StepControls, SpindleStops

LEMMA FlagTypeNext ==
    ASSUME Types, Next
    PROVE  FlagType'
<1>1. CASE RtAlarm \/ RtCritical \/ RtCopy
  BY <1>1 DEF RtAlarm, RtCritical, RtCopy
<1>2. CASE RtHold
  BY <1>2 DEF RtHold
<1>3. CASE RtStartNone \/ RtStartIgnored \/ RtStartSpindle
  BY <1>3 DEF RtStartNone, RtStartIgnored, RtStartSpindle
<1>4. CASE RtStartCycle
  BY <1>4, RtStartCyclePrepares DEF RtStartCycle, Prepared
<1>5. CASE RtWake
  BY <1>5 DEF RtWake
<1>6. CASE RtStartIdle
  BY <1>6 DEF RtStartIdle
<1>7. CASE RtStopNone \/ RtStopHold
  BY <1>7 DEF RtStopNone, RtStopHold
<1>8. CASE RtStopDone
  BY <1>8 DEF RtStopDone
<1>9. CASE RtAccessory
  BY <1>9 DEF RtAccessory
<1>10. CASE RtPrep
  BY <1>10, RtPrepPrepares DEF RtPrep, Prepared
<1>11. CASE SuspendOver \/ SuspendWait \/ SuspendRetract
  BY <1>11 DEF SuspendOver, SuspendWait, SuspendRetract
<1>12. CASE SuspendSleep \/ Sleeping \/ SuspendDoor
  BY <1>12 DEF SuspendSleep, Sleeping, SuspendDoor
<1>13. CASE RestoreNow \/ RestoreDelay \/ RestoreDelayStep \/ RestoreAfterDelay
         \/ SuspendHold
  BY <1>13 DEF RestoreNow, RestoreDelay, RestoreDelayStep, RestoreAfterDelay,
       SuspendHold
<1>14. CASE ReadLine \/ NothingToRead \/ Poll
  BY <1>14 DEF ReadLine, NothingToRead, Poll
<1>15. CASE EolAbort \/ EolRefuse \/ EolSystem \/ EolCheckOff \/ EolSleep
  BY <1>15 DEF EolAbort, EolRefuse, EolSystem, EolCheckOff, EolSleep
<1>16. CASE EolMotion \/ EolSync
  BY <1>16 DEF EolMotion, EolSync
<1>17. CASE EolOutside \/ SoftWait \/ SoftEnd
  BY <1>17 DEF EolOutside, SoftWait, SoftEnd
<1>18. CASE McLineAbort \/ McLineFull \/ McLineQueue
  BY <1>18 DEF McLineAbort, McLineFull, McLineQueue
<1>19. CASE McLineJog
  BY <1>19, McLineJogPrepares DEF McLineJog, Prepared
<1>20. CASE JogWake
  BY <1>20 DEF JogWake
<1>21. CASE SyncWait \/ ProbeWait \/ ProbeOver
  BY <1>21 DEF SyncWait, ProbeWait, ProbeOver
<1>22. CASE ProbeStart
  BY <1>22 DEF ProbeStart
<1>23. CASE ProbeEnd
  BY <1>23 DEF ProbeEnd
<1>24. CASE Reinit
  BY <1>24 DEF Reinit
<1>25. CASE Restart
  BY <1>25 DEF Restart
<1>26. CASE StepperSegment \/ StepperDone
  BY <1>26 DEF StepperSegment, StepperDone
<1>27. CASE \E c \in Commands : Command(c)
  <2> PICK c \in Commands : Command(c) BY <1>27
  <2>1. CASE FlagCommand(c) \/ CycleStartCommand \/ JogCancelCommand \/ SpindleStopCommand
    BY <2>1 DEF FlagCommand, CycleStartCommand, JogCancelCommand, SpindleStopCommand,
         Command, Budget
  <2>2. CASE ResetCommand \/ HardLimit
    BY <2>2 DEF ResetCommand, HardLimit, Command, Budget
  <2> QED BY <2>1, <2>2 DEF Command
<1> QED BY <1>1, <1>2, <1>3, <1>4, <1>5, <1>6, <1>7, <1>8, <1>9, <1>10, <1>11, <1>12,
     <1>13, <1>14, <1>15, <1>16, <1>17, <1>18, <1>19, <1>20, <1>21, <1>22, <1>23, <1>24,
     <1>25, <1>26, <1>27 DEF Next, Main, Stepper, ExecRtSystem, ExecRtSuspend, MainLoop

LEMMA SysTypeNext ==
    ASSUME Types, Next
    PROVE  SysType'
<1>1. CASE RtAlarm \/ RtCritical \/ RtCopy
  BY <1>1 DEF RtAlarm, RtCritical, RtCopy
<1>2. CASE RtHold
  BY <1>2, RtHoldType DEF RtHold
<1>3. CASE RtStartNone \/ RtStartIgnored \/ RtStartSpindle
  BY <1>3 DEF RtStartNone, RtStartIgnored, RtStartSpindle
<1>4. CASE RtStartCycle
  BY <1>4, RtStartCyclePrepares DEF RtStartCycle, Prepared
<1>5. CASE RtWake
  BY <1>5 DEF RtWake
<1>6. CASE RtStartIdle
  BY <1>6 DEF RtStartIdle
<1>7. CASE RtStopNone \/ RtStopHold
  BY <1>7 DEF RtStopNone, RtStopHold
<1>8. CASE RtStopDone
  BY <1>8 DEF RtStopDone
<1>9. CASE RtAccessory
  BY <1>9 DEF RtAccessory
<1>10. CASE RtPrep
  BY <1>10, RtPrepPrepares DEF RtPrep, Prepared
<1>11. CASE SuspendOver \/ SuspendWait \/ SuspendRetract
  BY <1>11 DEF SuspendOver, SuspendWait, SuspendRetract
<1>12. CASE SuspendSleep \/ Sleeping \/ SuspendDoor
  BY <1>12 DEF SuspendSleep, Sleeping, SuspendDoor
<1>13. CASE RestoreNow \/ RestoreDelay \/ RestoreDelayStep \/ RestoreAfterDelay
         \/ SuspendHold
  BY <1>13 DEF RestoreNow, RestoreDelay, RestoreDelayStep, RestoreAfterDelay,
       SuspendHold
<1>14. CASE ReadLine \/ NothingToRead \/ Poll
  BY <1>14 DEF ReadLine, NothingToRead, Poll
<1>15. CASE EolAbort \/ EolRefuse \/ EolSystem \/ EolCheckOff \/ EolSleep
  BY <1>15 DEF EolAbort, EolRefuse, EolSystem, EolCheckOff, EolSleep
<1>16. CASE EolMotion \/ EolSync
  BY <1>16 DEF EolMotion, EolSync
<1>17. CASE EolOutside \/ SoftWait \/ SoftEnd
  BY <1>17 DEF EolOutside, SoftWait, SoftEnd
<1>18. CASE McLineAbort \/ McLineFull \/ McLineQueue
  BY <1>18 DEF McLineAbort, McLineFull, McLineQueue
<1>19. CASE McLineJog
  BY <1>19, McLineJogPrepares DEF McLineJog, Prepared
<1>20. CASE JogWake
  BY <1>20 DEF JogWake
<1>21. CASE SyncWait \/ ProbeWait \/ ProbeOver
  BY <1>21 DEF SyncWait, ProbeWait, ProbeOver
<1>22. CASE ProbeStart
  BY <1>22 DEF ProbeStart
<1>23. CASE ProbeEnd
  BY <1>23 DEF ProbeEnd
<1>24. CASE Reinit
  BY <1>24 DEF Reinit
<1>25. CASE Restart
  BY <1>25 DEF Restart
<1>26. CASE StepperSegment \/ StepperDone
  BY <1>26 DEF StepperSegment, StepperDone
<1>27. CASE \E c \in Commands : Command(c)
  <2> PICK c \in Commands : Command(c) BY <1>27
  <2>1. CASE FlagCommand(c) \/ CycleStartCommand \/ JogCancelCommand \/ SpindleStopCommand
    BY <2>1 DEF FlagCommand, CycleStartCommand, JogCancelCommand, SpindleStopCommand,
         Command, Budget
  <2>2. CASE ResetCommand \/ HardLimit
    BY <2>2 DEF ResetCommand, HardLimit, Command, Budget
  <2> QED BY <2>1, <2>2 DEF Command
<1> QED BY <1>1, <1>2, <1>3, <1>4, <1>5, <1>6, <1>7, <1>8, <1>9, <1>10, <1>11, <1>12,
     <1>13, <1>14, <1>15, <1>16, <1>17, <1>18, <1>19, <1>20, <1>21, <1>22, <1>23, <1>24,
     <1>25, <1>26, <1>27 DEF Next, Main, Stepper, ExecRtSystem, ExecRtSuspend, MainLoop

LEMMA FlowTypeNext ==
    ASSUME Types, Next
    PROVE  FlowType'
<1>1. CASE RtAlarm \/ RtCritical \/ RtCopy
  BY <1>1, ProtocolAssumption DEF RtAlarm, RtCritical, RtCopy, Labels, RtSteps,
       ReturnPoints
<1>2. CASE RtHold
  BY <1>2, ProtocolAssumption DEF RtHold, Labels, RtSteps, ReturnPoints
<1>3. CASE RtStartNone \/ RtStartIgnored \/ RtStartSpindle
  BY <1>3, ProtocolAssumption DEF RtStartNone, RtStartIgnored, RtStartSpindle, Labels,
       RtSteps, ReturnPoints
<1>4. CASE RtStartCycle
  BY <1>4, ProtocolAssumption, RtStartCyclePrepares DEF RtStartCycle, Prepared, Labels,
       RtSteps, ReturnPoints
<1>5. CASE RtWake
  BY <1>5, ProtocolAssumption DEF RtWake, Labels, RtSteps, ReturnPoints
<1>6. CASE RtStartIdle
  BY <1>6, ProtocolAssumption DEF RtStartIdle, Labels, RtSteps, ReturnPoints
<1>7. CASE RtStopNone \/ RtStopHold
  BY <1>7, ProtocolAssumption DEF RtStopNone, RtStopHold, Labels, RtSteps, ReturnPoints
<1>8. CASE RtStopDone
  BY <1>8, ProtocolAssumption DEF RtStopDone, Labels, RtSteps, ReturnPoints
<1>9. CASE RtAccessory
  BY <1>9, ProtocolAssumption DEF RtAccessory, Labels, RtSteps, ReturnPoints
<1>10. CASE RtPrep
  BY <1>10, ProtocolAssumption, RtPrepPrepares DEF RtPrep, Prepared, Labels, RtSteps,
       ReturnPoints
<1>11. CASE SuspendOver \/ SuspendWait \/ SuspendRetract
  BY <1>11, ProtocolAssumption DEF SuspendOver, SuspendWait, SuspendRetract, Labels,
       RtSteps, ReturnPoints
<1>12. CASE SuspendSleep \/ Sleeping \/ SuspendDoor
  BY <1>12, ProtocolAssumption DEF SuspendSleep, Sleeping, SuspendDoor, Labels, RtSteps,
       ReturnPoints
<1>13. CASE RestoreNow \/ RestoreDelay \/ RestoreDelayStep \/ RestoreAfterDelay
         \/ SuspendHold
  BY <1>13, ProtocolAssumption DEF RestoreNow, RestoreDelay, RestoreDelayStep, RestoreAfterDelay,
       SuspendHold, Labels, RtSteps, ReturnPoints
<1>14. CASE ReadLine \/ NothingToRead \/ Poll
  BY <1>14, ProtocolAssumption DEF ReadLine, NothingToRead, Poll, Labels, RtSteps,
       ReturnPoints
<1>15. CASE EolAbort \/ EolRefuse \/ EolSystem \/ EolCheckOff \/ EolSleep
  BY <1>15, ProtocolAssumption DEF EolAbort, EolRefuse, EolSystem, EolCheckOff,
       EolSleep, Labels, RtSteps, ReturnPoints
<1>16. CASE EolMotion \/ EolSync
  BY <1>16, ProtocolAssumption DEF EolMotion, EolSync, Labels, RtSteps, ReturnPoints
<1>17. CASE EolOutside \/ SoftWait \/ SoftEnd
  BY <1>17, ProtocolAssumption DEF EolOutside, SoftWait, SoftEnd, Labels, RtSteps,
       ReturnPoints
<1>18. CASE McLineAbort \/ McLineFull \/ McLineQueue
  BY <1>18, ProtocolAssumption DEF McLineAbort, McLineFull, McLineQueue, Labels,
       RtSteps, ReturnPoints
<1>19. CASE McLineJog
  BY <1>19, ProtocolAssumption, McLineJogPrepares DEF McLineJog, Prepared, Labels,
       RtSteps, ReturnPoints
<1>20. CASE JogWake
  BY <1>20, ProtocolAssumption DEF JogWake, Labels, RtSteps, ReturnPoints
<1>21. CASE SyncWait \/ ProbeWait \/ ProbeOver
  BY <1>21, ProtocolAssumption DEF SyncWait, ProbeWait, ProbeOver, Labels, RtSteps,
       ReturnPoints
<1>22. CASE ProbeStart
  BY <1>22, ProtocolAssumption DEF ProbeStart, Labels, RtSteps, ReturnPoints
<1>23. CASE ProbeEnd
  BY <1>23, ProtocolAssumption DEF ProbeEnd, Labels, RtSteps, ReturnPoints
<1>24. CASE Reinit
  BY <1>24, ProtocolAssumption DEF Reinit, Labels, RtSteps, ReturnPoints
<1>25. CASE Restart
  BY <1>25, ProtocolAssumption DEF Restart, Labels, RtSteps, ReturnPoints
<1>26. CASE StepperSegment \/ StepperDone
  BY <1>26, ProtocolAssumption DEF StepperSegment, StepperDone, Labels, RtSteps,
       ReturnPoints
<1>27. CASE \E c \in Commands : Command(c)
  <2> PICK c \in Commands : Command(c) BY <1>27
  <2>1. CASE FlagCommand(c) \/ CycleStartCommand \/ JogCancelCommand \/ SpindleStopCommand
    BY <2>1, ProtocolAssumption DEF FlagCommand, CycleStartCommand, JogCancelCommand,
         SpindleStopCommand, Command, Budget, Labels, RtSteps, ReturnPoints
  <2>2. CASE ResetCommand \/ HardLimit
    BY <2>2, ProtocolAssumption DEF ResetCommand, HardLimit, Command, Budget, Labels,
         RtSteps, ReturnPoints
  <2> QED BY <2>1, <2>2 DEF Command
<1> QED BY <1>1, <1>2, <1>3, <1>4, <1>5, <1>6, <1>7, <1>8, <1>9, <1>10, <1>11, <1>12,
     <1>13, <1>14, <1>15, <1>16, <1>17, <1>18, <1>19, <1>20, <1>21, <1>22, <1>23, <1>24,
     <1>25, <1>26, <1>27 DEF Next, Main, Stepper, ExecRtSystem, ExecRtSuspend, MainLoop

LEMMA QueueTypeNext ==
    ASSUME Types, Next
    PROVE  QueueType'
<1>1. CASE RtAlarm \/ RtCritical \/ RtCopy
  BY <1>1, ProtocolAssumption, ProbeEndType, RestartType, RtStopDoneType DEF RtAlarm,
       RtCritical, RtCopy, QueueType
<1>2. CASE RtHold
  BY <1>2, ProtocolAssumption, ProbeEndType, RestartType, RtStopDoneType DEF RtHold,
       QueueType
<1>3. CASE RtStartNone \/ RtStartIgnored \/ RtStartSpindle
  BY <1>3, ProtocolAssumption, ProbeEndType, RestartType, RtStopDoneType DEF
       RtStartNone, RtStartIgnored, RtStartSpindle, QueueType
<1>4. CASE RtStartCycle
  BY <1>4, ProtocolAssumption, ProbeEndType, RestartType, RtStopDoneType,
       RtStartCyclePrepares DEF RtStartCycle, Prepared, QueueType
<1>5. CASE RtWake
  BY <1>5, ProtocolAssumption, ProbeEndType, RestartType, RtStopDoneType DEF RtWake,
       QueueType
<1>6. CASE RtStartIdle
  BY <1>6, ProtocolAssumption, ProbeEndType, RestartType, RtStopDoneType DEF
       RtStartIdle, QueueType
<1>7. CASE RtStopNone \/ RtStopHold
  BY <1>7, ProtocolAssumption, ProbeEndType, RestartType, RtStopDoneType DEF RtStopNone,
       RtStopHold, QueueType
<1>8. CASE RtStopDone
  BY <1>8, ProtocolAssumption, ProbeEndType, RestartType, RtStopDoneType DEF RtStopDone,
       QueueType
<1>9. CASE RtAccessory
  BY <1>9, ProtocolAssumption, ProbeEndType, RestartType, RtStopDoneType DEF
       RtAccessory, QueueType
<1>10. CASE RtPrep
  BY <1>10, ProtocolAssumption, ProbeEndType, RestartType, RtStopDoneType,
       RtPrepPrepares DEF RtPrep, Prepared, QueueType
<1>11. CASE SuspendOver \/ SuspendWait \/ SuspendRetract
  BY <1>11, ProtocolAssumption, ProbeEndType, RestartType, RtStopDoneType DEF
       SuspendOver, SuspendWait, SuspendRetract, QueueType
<1>12. CASE SuspendSleep \/ Sleeping \/ SuspendDoor
  BY <1>12, ProtocolAssumption, ProbeEndType, RestartType, RtStopDoneType DEF
       SuspendSleep, Sleeping, SuspendDoor, QueueType
<1>13. CASE RestoreNow \/ RestoreDelay \/ RestoreDelayStep \/ RestoreAfterDelay
         \/ SuspendHold
  BY <1>13, ProtocolAssumption, ProbeEndType, RestartType, RtStopDoneType DEF
       RestoreNow, RestoreDelay, RestoreDelayStep, RestoreAfterDelay,
       SuspendHold, QueueType
<1>14. CASE ReadLine \/ NothingToRead \/ Poll
  BY <1>14, ProtocolAssumption, ProbeEndType, RestartType, RtStopDoneType DEF ReadLine,
       NothingToRead, Poll, QueueType
<1>15. CASE EolAbort \/ EolRefuse \/ EolSystem \/ EolCheckOff \/ EolSleep
  BY <1>15, ProtocolAssumption, ProbeEndType, RestartType, RtStopDoneType DEF EolAbort,
       EolRefuse, EolSystem, EolCheckOff, EolSleep, QueueType
<1>16. CASE EolMotion \/ EolSync
  BY <1>16, ProtocolAssumption, ProbeEndType, RestartType, RtStopDoneType DEF EolMotion,
       EolSync, QueueType
<1>17. CASE EolOutside \/ SoftWait \/ SoftEnd
  BY <1>17, ProtocolAssumption, ProbeEndType, RestartType, RtStopDoneType DEF
       EolOutside, SoftWait, SoftEnd, QueueType
<1>18. CASE McLineAbort \/ McLineFull \/ McLineQueue
  BY <1>18, ProtocolAssumption, ProbeEndType, RestartType, RtStopDoneType,
       McLineQueueType DEF McLineAbort, McLineFull, McLineQueue, QueueType
<1>19. CASE McLineJog
  BY <1>19, ProtocolAssumption, ProbeEndType, RestartType, RtStopDoneType,
       McLineJogPrepares DEF McLineJog, Prepared, QueueType
<1>20. CASE JogWake
  BY <1>20, ProtocolAssumption, ProbeEndType, RestartType, RtStopDoneType DEF JogWake,
       QueueType
<1>21. CASE SyncWait \/ ProbeWait \/ ProbeOver
  BY <1>21, ProtocolAssumption, ProbeEndType, RestartType, RtStopDoneType DEF SyncWait,
       ProbeWait, ProbeOver, QueueType
<1>22. CASE ProbeStart
  BY <1>22, ProtocolAssumption, ProbeEndType, RestartType, RtStopDoneType,
       ProbeStartType DEF ProbeStart, QueueType
<1>23. CASE ProbeEnd
  BY <1>23, ProtocolAssumption, ProbeEndType, RestartType, RtStopDoneType DEF ProbeEnd,
       QueueType
<1>24. CASE Reinit
  BY <1>24, ProtocolAssumption, ProbeEndType, RestartType, RtStopDoneType DEF Reinit,
       QueueType
<1>25. CASE Restart
  BY <1>25, ProtocolAssumption, ProbeEndType, RestartType, RtStopDoneType DEF Restart,
       QueueType
<1>26. CASE StepperSegment \/ StepperDone
  BY <1>26, ProtocolAssumption, ProbeEndType, RestartType, RtStopDoneType DEF
       StepperSegment, StepperDone, QueueType
<1>27. CASE \E c \in Commands : Command(c)
  <2> PICK c \in Commands : Command(c) BY <1>27
  <2>1. CASE FlagCommand(c) \/ CycleStartCommand \/ JogCancelCommand \/ SpindleStopCommand
    BY <2>1, ProtocolAssumption, ProbeEndType, RestartType, RtStopDoneType DEF
         FlagCommand, CycleStartCommand, JogCancelCommand, SpindleStopCommand, Command,
         Budget, QueueType
  <2>2. CASE ResetCommand \/ HardLimit
    BY <2>2, ProtocolAssumption, ProbeEndType, RestartType, RtStopDoneType DEF
         ResetCommand, HardLimit, Command, Budget, QueueType
  <2> QED BY <2>1, <2>2 DEF Command
<1> QED BY <1>1, <1>2, <1>3, <1>4, <1>5, <1>6, <1>7, <1>8, <1>9, <1>10, <1>11, <1>12,
     <1>13, <1>14, <1>15, <1>16, <1>17, <1>18, <1>19, <1>20, <1>21, <1>22, <1>23, <1>24,
     <1>25, <1>26, <1>27 DEF Next, Main, Stepper, ExecRtSystem, ExecRtSuspend, MainLoop

LEMMA RunTypeNext ==
    ASSUME Types, Next
    PROVE  RunType'
<1>1. CASE RtAlarm \/ RtCritical \/ RtCopy
  BY <1>1 DEF RtAlarm, RtCritical, RtCopy
<1>2. CASE RtHold
  BY <1>2 DEF RtHold
<1>3. CASE RtStartNone \/ RtStartIgnored \/ RtStartSpindle
  BY <1>3 DEF RtStartNone, RtStartIgnored, RtStartSpindle
<1>4. CASE RtStartCycle
  BY <1>4, RtStartCyclePrepares DEF RtStartCycle, Prepared
<1>5. CASE RtWake
  BY <1>5 DEF RtWake
<1>6. CASE RtStartIdle
  BY <1>6 DEF RtStartIdle
<1>7. CASE RtStopNone \/ RtStopHold
  BY <1>7 DEF RtStopNone, RtStopHold
<1>8. CASE RtStopDone
  BY <1>8 DEF RtStopDone
<1>9. CASE RtAccessory
  BY <1>9 DEF RtAccessory
<1>10. CASE RtPrep
  BY <1>10, RtPrepPrepares DEF RtPrep, Prepared
<1>11. CASE SuspendOver \/ SuspendWait \/ SuspendRetract
  BY <1>11 DEF SuspendOver, SuspendWait, SuspendRetract
<1>12. CASE SuspendSleep \/ Sleeping \/ SuspendDoor
  BY <1>12 DEF SuspendSleep, Sleeping, SuspendDoor
<1>13. CASE RestoreNow \/ RestoreDelay \/ RestoreDelayStep \/ RestoreAfterDelay
         \/ SuspendHold
  BY <1>13 DEF RestoreNow, RestoreDelay, RestoreDelayStep, RestoreAfterDelay,
       SuspendHold
<1>14. CASE ReadLine \/ NothingToRead \/ Poll
  BY <1>14 DEF ReadLine, NothingToRead, Poll
<1>15. CASE EolAbort \/ EolRefuse \/ EolSystem \/ EolCheckOff \/ EolSleep
  BY <1>15 DEF EolAbort, EolRefuse, EolSystem, EolCheckOff, EolSleep
<1>16. CASE EolMotion \/ EolSync
  BY <1>16 DEF EolMotion, EolSync
<1>17. CASE EolOutside \/ SoftWait \/ SoftEnd
  BY <1>17 DEF EolOutside, SoftWait, SoftEnd
<1>18. CASE McLineAbort \/ McLineFull \/ McLineQueue
  BY <1>18 DEF McLineAbort, McLineFull, McLineQueue
<1>19. CASE McLineJog
  BY <1>19, McLineJogPrepares DEF McLineJog, Prepared
<1>20. CASE JogWake
  BY <1>20 DEF JogWake
<1>21. CASE SyncWait \/ ProbeWait \/ ProbeOver
  BY <1>21 DEF SyncWait, ProbeWait, ProbeOver
<1>22. CASE ProbeStart
  BY <1>22 DEF ProbeStart
<1>23. CASE ProbeEnd
  BY <1>23 DEF ProbeEnd
<1>24. CASE Reinit
  BY <1>24 DEF Reinit
<1>25. CASE Restart
  BY <1>25 DEF Restart
<1>26. CASE StepperSegment \/ StepperDone
  BY <1>26 DEF StepperSegment, StepperDone
<1>27. CASE \E c \in Commands : Command(c)
  <2> PICK c \in Commands : Command(c) BY <1>27
  <2>1. CASE FlagCommand(c) \/ CycleStartCommand \/ JogCancelCommand \/ SpindleStopCommand
    BY <2>1 DEF FlagCommand, CycleStartCommand, JogCancelCommand, SpindleStopCommand,
         Command, Budget
  <2>2. CASE ResetCommand \/ HardLimit
    BY <2>2 DEF ResetCommand, HardLimit, Command, Budget
  <2> QED BY <2>1, <2>2 DEF Command
<1> QED BY <1>1, <1>2, <1>3, <1>4, <1>5, <1>6, <1>7, <1>8, <1>9, <1>10, <1>11, <1>12,
     <1>13, <1>14, <1>15, <1>16, <1>17, <1>18, <1>19, <1>20, <1>21, <1>22, <1>23, <1>24,
     <1>25, <1>26, <1>27 DEF Next, Main, Stepper, ExecRtSystem, ExecRtSuspend, MainLoop

LEMMA TypesNext == ASSUME Types, Next PROVE Types'
  BY FlagTypeNext, SysTypeNext, FlowTypeNext, QueueTypeNext, RunTypeNext

HIDE DEF ExecFlags, Alarms, States, Suspensions, StepControls, SpindleStops

-----------------------------------------------------------------------------
(* Every step keeps the invariant, one part of it after the other. *)

USE DEF IInv, Types, FlagType, SysType, FlowType, RunType, FlowInv, AlarmInv, RestInv,
        StopInv, DoorInv, SleepInv, OrderInv, Held, Cancels, Moving, Leaving, Doomed,
        Braking, Serving, Entering, Leftover, StartOrdered, Ordered, ReturnPoints, RtSteps, Critical,
        GcodeLines, LineRefused

LEMMA FlowInvNext ==
    ASSUME IInv, Types', Next
    PROVE  FlowInv'
<1>1. CASE RtAlarm \/ RtCritical \/ RtCopy
  BY <1>1 DEF RtAlarm, RtCritical, RtCopy
<1>2. CASE RtHold
  BY <1>2 DEF RtHold
<1>3. CASE RtStartNone \/ RtStartIgnored \/ RtStartSpindle
  BY <1>3 DEF RtStartNone, RtStartIgnored, RtStartSpindle
<1>4. CASE RtStartCycle
  BY <1>4, RtStartCyclePrepares DEF RtStartCycle, Prepared
<1>5. CASE RtWake
  BY <1>5 DEF RtWake
<1>6. CASE RtStartIdle
  BY <1>6 DEF RtStartIdle
<1>7. CASE RtStopNone \/ RtStopHold
  BY <1>7 DEF RtStopNone, RtStopHold
<1>8. CASE RtStopDone
  BY <1>8 DEF RtStopDone
<1>9. CASE RtAccessory
  BY <1>9 DEF RtAccessory
<1>10. CASE RtPrep
  BY <1>10, RtPrepPrepares DEF RtPrep, Prepared
<1>11. CASE SuspendOver \/ SuspendWait \/ SuspendRetract
  BY <1>11 DEF SuspendOver, SuspendWait, SuspendRetract
<1>12. CASE SuspendSleep \/ Sleeping \/ SuspendDoor
  BY <1>12 DEF SuspendSleep, Sleeping, SuspendDoor
<1>13. CASE RestoreNow \/ RestoreDelay \/ RestoreDelayStep \/ RestoreAfterDelay
         \/ SuspendHold
  BY <1>13 DEF RestoreNow, RestoreDelay, RestoreDelayStep, RestoreAfterDelay,
       SuspendHold
<1>14. CASE ReadLine \/ NothingToRead \/ Poll
  BY <1>14 DEF ReadLine, NothingToRead, Poll
<1>15. CASE EolAbort \/ EolRefuse \/ EolSystem \/ EolCheckOff \/ EolSleep
  BY <1>15 DEF EolAbort, EolRefuse, EolSystem, EolCheckOff, EolSleep
<1>16. CASE EolMotion \/ EolSync
  BY <1>16 DEF EolMotion, EolSync
<1>17. CASE EolOutside \/ SoftWait \/ SoftEnd
  BY <1>17 DEF EolOutside, SoftWait, SoftEnd
<1>18. CASE McLineAbort \/ McLineFull \/ McLineQueue
  BY <1>18 DEF McLineAbort, McLineFull, McLineQueue
<1>19. CASE McLineJog
  BY <1>19, McLineJogPrepares DEF McLineJog, Prepared
<1>20. CASE JogWake
  BY <1>20 DEF JogWake
<1>21. CASE SyncWait \/ ProbeWait \/ ProbeOver
  BY <1>21 DEF SyncWait, ProbeWait, ProbeOver
<1>22. CASE ProbeStart
  BY <1>22 DEF ProbeStart
<1>23. CASE ProbeEnd
  BY <1>23 DEF ProbeEnd
<1>24. CASE Reinit
  BY <1>24 DEF Reinit
<1>25. CASE Restart
  BY <1>25 DEF Restart
<1>26. CASE StepperSegment \/ StepperDone
  BY <1>26 DEF StepperSegment, StepperDone
<1>27. CASE \E c \in Commands : Command(c)
  <2> PICK c \in Commands : Command(c) BY <1>27
  <2>1. CASE FlagCommand(c) \/ CycleStartCommand \/ JogCancelCommand \/ SpindleStopCommand
    BY <2>1 DEF FlagCommand, CycleStartCommand, JogCancelCommand, SpindleStopCommand,
         Command, Budget
  <2>2. CASE ResetCommand \/ HardLimit
    BY <2>2 DEF ResetCommand, HardLimit, Command, Budget
  <2> QED BY <2>1, <2>2 DEF Command
<1> QED BY <1>1, <1>2, <1>3, <1>4, <1>5, <1>6, <1>7, <1>8, <1>9, <1>10, <1>11, <1>12,
     <1>13, <1>14, <1>15, <1>16, <1>17, <1>18, <1>19, <1>20, <1>21, <1>22, <1>23, <1>24,
     <1>25, <1>26, <1>27 DEF Next, Main, Stepper, ExecRtSystem, ExecRtSuspend, MainLoop

LEMMA AlarmInvNext ==
    ASSUME IInv, Types', Next
    PROVE  AlarmInv'
<1>1. CASE RtAlarm \/ RtCritical \/ RtCopy
  BY <1>1 DEF RtAlarm, RtCritical, RtCopy
<1>2. CASE RtHold
  BY <1>2 DEF RtHold
<1>3. CASE RtStartNone \/ RtStartIgnored \/ RtStartSpindle
  BY <1>3 DEF RtStartNone, RtStartIgnored, RtStartSpindle
<1>4. CASE RtStartCycle
  BY <1>4, RtStartCyclePrepares DEF RtStartCycle, Prepared
<1>5. CASE RtWake
  BY <1>5 DEF RtWake
<1>6. CASE RtStartIdle
  BY <1>6 DEF RtStartIdle
<1>7. CASE RtStopNone \/ RtStopHold
  BY <1>7 DEF RtStopNone, RtStopHold
<1>8. CASE RtStopDone
  BY <1>8 DEF RtStopDone
<1>9. CASE RtAccessory
  BY <1>9 DEF RtAccessory
<1>10. CASE RtPrep
  BY <1>10, RtPrepPrepares DEF RtPrep, Prepared
<1>11. CASE SuspendOver \/ SuspendWait \/ SuspendRetract
  BY <1>11 DEF SuspendOver, SuspendWait, SuspendRetract
<1>12. CASE SuspendSleep \/ Sleeping \/ SuspendDoor
  BY <1>12 DEF SuspendSleep, Sleeping, SuspendDoor
<1>13. CASE RestoreNow \/ RestoreDelay \/ RestoreDelayStep \/ RestoreAfterDelay
         \/ SuspendHold
  BY <1>13 DEF RestoreNow, RestoreDelay, RestoreDelayStep, RestoreAfterDelay,
       SuspendHold
<1>14. CASE ReadLine \/ NothingToRead \/ Poll
  BY <1>14 DEF ReadLine, NothingToRead, Poll
<1>15. CASE EolAbort \/ EolRefuse \/ EolSystem \/ EolCheckOff \/ EolSleep
  BY <1>15 DEF EolAbort, EolRefuse, EolSystem, EolCheckOff, EolSleep
<1>16. CASE EolMotion \/ EolSync
  BY <1>16 DEF EolMotion, EolSync
<1>17. CASE EolOutside \/ SoftWait \/ SoftEnd
  BY <1>17 DEF EolOutside, SoftWait, SoftEnd
<1>18. CASE McLineAbort \/ McLineFull \/ McLineQueue
  BY <1>18 DEF McLineAbort, McLineFull, McLineQueue
<1>19. CASE McLineJog
  BY <1>19, McLineJogPrepares DEF McLineJog, Prepared
<1>20. CASE JogWake
  BY <1>20 DEF JogWake
<1>21. CASE SyncWait \/ ProbeWait \/ ProbeOver
  BY <1>21 DEF SyncWait, ProbeWait, ProbeOver
<1>22. CASE ProbeStart
  BY <1>22 DEF ProbeStart
<1>23. CASE ProbeEnd
  BY <1>23 DEF ProbeEnd
<1>24. CASE Reinit
  BY <1>24 DEF Reinit
<1>25. CASE Restart
  BY <1>25 DEF Restart
<1>26. CASE StepperSegment \/ StepperDone
  BY <1>26 DEF StepperSegment, StepperDone
<1>27. CASE \E c \in Commands : Command(c)
  <2> PICK c \in Commands : Command(c) BY <1>27
  <2>1. CASE FlagCommand(c) \/ CycleStartCommand \/ JogCancelCommand \/ SpindleStopCommand
    BY <2>1 DEF FlagCommand, CycleStartCommand, JogCancelCommand, SpindleStopCommand,
         Command, Budget
  <2>2. CASE ResetCommand \/ HardLimit
    BY <2>2 DEF ResetCommand, HardLimit, Command, Budget
  <2> QED BY <2>1, <2>2 DEF Command
<1> QED BY <1>1, <1>2, <1>3, <1>4, <1>5, <1>6, <1>7, <1>8, <1>9, <1>10, <1>11, <1>12,
     <1>13, <1>14, <1>15, <1>16, <1>17, <1>18, <1>19, <1>20, <1>21, <1>22, <1>23, <1>24,
     <1>25, <1>26, <1>27 DEF Next, Main, Stepper, ExecRtSystem, ExecRtSuspend, MainLoop

LEMMA RestInvNext ==
    ASSUME IInv, Types', Next
    PROVE  RestInv'
<1>1. CASE RtAlarm \/ RtCritical \/ RtCopy
  BY <1>1 DEF RtAlarm, RtCritical, RtCopy
<1>2. CASE RtHold
  BY <1>2 DEF RtHold
<1>3. CASE RtStartNone \/ RtStartIgnored \/ RtStartSpindle
  BY <1>3 DEF RtStartNone, RtStartIgnored, RtStartSpindle
<1>4. CASE RtStartCycle
  BY <1>4, RtStartCyclePrepares DEF RtStartCycle, Prepared
<1>5. CASE RtWake
  BY <1>5 DEF RtWake
<1>6. CASE RtStartIdle
  BY <1>6 DEF RtStartIdle
<1>7. CASE RtStopNone \/ RtStopHold
  BY <1>7 DEF RtStopNone, RtStopHold
<1>8. CASE RtStopDone
  BY <1>8 DEF RtStopDone
<1>9. CASE RtAccessory
  BY <1>9 DEF RtAccessory
<1>10. CASE RtPrep
  BY <1>10, RtPrepPrepares DEF RtPrep, Prepared
<1>11. CASE SuspendOver \/ SuspendWait \/ SuspendRetract
  BY <1>11 DEF SuspendOver, SuspendWait, SuspendRetract
<1>12. CASE SuspendSleep \/ Sleeping \/ SuspendDoor
  BY <1>12 DEF SuspendSleep, Sleeping, SuspendDoor
<1>13. CASE RestoreNow \/ RestoreDelay \/ RestoreDelayStep \/ RestoreAfterDelay
         \/ SuspendHold
  BY <1>13 DEF RestoreNow, RestoreDelay, RestoreDelayStep, RestoreAfterDelay,
       SuspendHold
<1>14. CASE ReadLine \/ NothingToRead \/ Poll
  BY <1>14 DEF ReadLine, NothingToRead, Poll
<1>15. CASE EolAbort \/ EolRefuse \/ EolSystem \/ EolCheckOff \/ EolSleep
  BY <1>15 DEF EolAbort, EolRefuse, EolSystem, EolCheckOff, EolSleep
<1>16. CASE EolMotion \/ EolSync
  BY <1>16 DEF EolMotion, EolSync
<1>17. CASE EolOutside \/ SoftWait \/ SoftEnd
  BY <1>17 DEF EolOutside, SoftWait, SoftEnd
<1>18. CASE McLineAbort \/ McLineFull \/ McLineQueue
  BY <1>18 DEF McLineAbort, McLineFull, McLineQueue
<1>19. CASE McLineJog
  BY <1>19, McLineJogPrepares DEF McLineJog, Prepared
<1>20. CASE JogWake
  BY <1>20 DEF JogWake
<1>21. CASE SyncWait \/ ProbeWait \/ ProbeOver
  BY <1>21 DEF SyncWait, ProbeWait, ProbeOver
<1>22. CASE ProbeStart
  BY <1>22 DEF ProbeStart
<1>23. CASE ProbeEnd
  BY <1>23 DEF ProbeEnd
<1>24. CASE Reinit
  BY <1>24 DEF Reinit
<1>25. CASE Restart
  BY <1>25 DEF Restart
<1>26. CASE StepperSegment \/ StepperDone
  BY <1>26 DEF StepperSegment, StepperDone
<1>27. CASE \E c \in Commands : Command(c)
  <2> PICK c \in Commands : Command(c) BY <1>27
  <2>1. CASE FlagCommand(c) \/ CycleStartCommand \/ JogCancelCommand \/ SpindleStopCommand
    BY <2>1 DEF FlagCommand, CycleStartCommand, JogCancelCommand, SpindleStopCommand,
         Command, Budget
  <2>2. CASE ResetCommand \/ HardLimit
    BY <2>2 DEF ResetCommand, HardLimit, Command, Budget
  <2> QED BY <2>1, <2>2 DEF Command
<1> QED BY <1>1, <1>2, <1>3, <1>4, <1>5, <1>6, <1>7, <1>8, <1>9, <1>10, <1>11, <1>12,
     <1>13, <1>14, <1>15, <1>16, <1>17, <1>18, <1>19, <1>20, <1>21, <1>22, <1>23, <1>24,
     <1>25, <1>26, <1>27 DEF Next, Main, Stepper, ExecRtSystem, ExecRtSuspend, MainLoop

LEMMA StopInvNext ==
    ASSUME IInv, Types', Next
    PROVE  StopInv'
<1>1. CASE RtAlarm \/ RtCritical \/ RtCopy
  BY <1>1 DEF RtAlarm, RtCritical, RtCopy
<1>2. CASE RtHold
  BY <1>2 DEF RtHold
<1>3. CASE RtStartNone \/ RtStartIgnored \/ RtStartSpindle
  BY <1>3 DEF RtStartNone, RtStartIgnored, RtStartSpindle
<1>4. CASE RtStartCycle
  BY <1>4, RtStartCyclePrepares DEF RtStartCycle, Prepared
<1>5. CASE RtWake
  BY <1>5 DEF RtWake
<1>6. CASE RtStartIdle
  BY <1>6 DEF RtStartIdle
<1>7. CASE RtStopNone \/ RtStopHold
  BY <1>7 DEF RtStopNone, RtStopHold
<1>8. CASE RtStopDone
  BY <1>8 DEF RtStopDone
<1>9. CASE RtAccessory
  BY <1>9 DEF RtAccessory
<1>10. CASE RtPrep
  BY <1>10, RtPrepPrepares DEF RtPrep, Prepared
<1>11. CASE SuspendOver \/ SuspendWait \/ SuspendRetract
  BY <1>11 DEF SuspendOver, SuspendWait, SuspendRetract
<1>12. CASE SuspendSleep \/ Sleeping \/ SuspendDoor
  BY <1>12 DEF SuspendSleep, Sleeping, SuspendDoor
<1>13. CASE RestoreNow \/ RestoreDelay \/ RestoreDelayStep \/ RestoreAfterDelay
         \/ SuspendHold
  BY <1>13 DEF RestoreNow, RestoreDelay, RestoreDelayStep, RestoreAfterDelay,
       SuspendHold
<1>14. CASE ReadLine \/ NothingToRead \/ Poll
  BY <1>14 DEF ReadLine, NothingToRead, Poll
<1>15. CASE EolAbort \/ EolRefuse \/ EolSystem \/ EolCheckOff \/ EolSleep
  BY <1>15 DEF EolAbort, EolRefuse, EolSystem, EolCheckOff, EolSleep
<1>16. CASE EolMotion \/ EolSync
  BY <1>16 DEF EolMotion, EolSync
<1>17. CASE EolOutside \/ SoftWait \/ SoftEnd
  BY <1>17 DEF EolOutside, SoftWait, SoftEnd
<1>18. CASE McLineAbort \/ McLineFull \/ McLineQueue
  BY <1>18 DEF McLineAbort, McLineFull, McLineQueue
<1>19. CASE McLineJog
  BY <1>19, McLineJogPrepares DEF McLineJog, Prepared
<1>20. CASE JogWake
  BY <1>20 DEF JogWake
<1>21. CASE SyncWait \/ ProbeWait \/ ProbeOver
  BY <1>21 DEF SyncWait, ProbeWait, ProbeOver
<1>22. CASE ProbeStart
  BY <1>22 DEF ProbeStart
<1>23. CASE ProbeEnd
  BY <1>23 DEF ProbeEnd
<1>24. CASE Reinit
  BY <1>24 DEF Reinit
<1>25. CASE Restart
  BY <1>25 DEF Restart
<1>26. CASE StepperSegment \/ StepperDone
  BY <1>26 DEF StepperSegment, StepperDone
<1>27. CASE \E c \in Commands : Command(c)
  <2> PICK c \in Commands : Command(c) BY <1>27
  <2>1. CASE FlagCommand(c) \/ CycleStartCommand \/ JogCancelCommand \/ SpindleStopCommand
    BY <2>1 DEF FlagCommand, CycleStartCommand, JogCancelCommand, SpindleStopCommand,
         Command, Budget
  <2>2. CASE ResetCommand \/ HardLimit
    BY <2>2 DEF ResetCommand, HardLimit, Command, Budget
  <2> QED BY <2>1, <2>2 DEF Command
<1> QED BY <1>1, <1>2, <1>3, <1>4, <1>5, <1>6, <1>7, <1>8, <1>9, <1>10, <1>11, <1>12,
     <1>13, <1>14, <1>15, <1>16, <1>17, <1>18, <1>19, <1>20, <1>21, <1>22, <1>23, <1>24,
     <1>25, <1>26, <1>27 DEF Next, Main, Stepper, ExecRtSystem, ExecRtSuspend, MainLoop

LEMMA DoorInvNext ==
    ASSUME IInv, Types', Next
    PROVE  DoorInv'
<1>1. CASE RtAlarm \/ RtCritical \/ RtCopy
  BY <1>1 DEF RtAlarm, RtCritical, RtCopy
<1>2. CASE RtHold
  BY <1>2 DEF RtHold
<1>3. CASE RtStartNone \/ RtStartIgnored \/ RtStartSpindle
  BY <1>3 DEF RtStartNone, RtStartIgnored, RtStartSpindle
<1>4. CASE RtStartCycle
  BY <1>4, RtStartCyclePrepares DEF RtStartCycle, Prepared
<1>5. CASE RtWake
  BY <1>5 DEF RtWake
<1>6. CASE RtStartIdle
  BY <1>6 DEF RtStartIdle
<1>7. CASE RtStopNone \/ RtStopHold
  BY <1>7 DEF RtStopNone, RtStopHold
<1>8. CASE RtStopDone
  BY <1>8 DEF RtStopDone
<1>9. CASE RtAccessory
  BY <1>9 DEF RtAccessory
<1>10. CASE RtPrep
  BY <1>10, RtPrepPrepares DEF RtPrep, Prepared
<1>11. CASE SuspendOver \/ SuspendWait \/ SuspendRetract
  BY <1>11 DEF SuspendOver, SuspendWait, SuspendRetract
<1>12. CASE SuspendSleep \/ Sleeping \/ SuspendDoor
  BY <1>12 DEF SuspendSleep, Sleeping, SuspendDoor
<1>13. CASE RestoreNow \/ RestoreDelay \/ RestoreDelayStep \/ RestoreAfterDelay
         \/ SuspendHold
  BY <1>13 DEF RestoreNow, RestoreDelay, RestoreDelayStep, RestoreAfterDelay,
       SuspendHold
<1>14. CASE ReadLine \/ NothingToRead \/ Poll
  BY <1>14 DEF ReadLine, NothingToRead, Poll
<1>15. CASE EolAbort \/ EolRefuse \/ EolSystem \/ EolCheckOff \/ EolSleep
  BY <1>15 DEF EolAbort, EolRefuse, EolSystem, EolCheckOff, EolSleep
<1>16. CASE EolMotion \/ EolSync
  BY <1>16 DEF EolMotion, EolSync
<1>17. CASE EolOutside \/ SoftWait \/ SoftEnd
  BY <1>17 DEF EolOutside, SoftWait, SoftEnd
<1>18. CASE McLineAbort \/ McLineFull \/ McLineQueue
  BY <1>18 DEF McLineAbort, McLineFull, McLineQueue
<1>19. CASE McLineJog
  BY <1>19, McLineJogPrepares DEF McLineJog, Prepared
<1>20. CASE JogWake
  BY <1>20 DEF JogWake
<1>21. CASE SyncWait \/ ProbeWait \/ ProbeOver
  BY <1>21 DEF SyncWait, ProbeWait, ProbeOver
<1>22. CASE ProbeStart
  BY <1>22 DEF ProbeStart
<1>23. CASE ProbeEnd
  BY <1>23 DEF ProbeEnd
<1>24. CASE Reinit
  BY <1>24 DEF Reinit
<1>25. CASE Restart
  BY <1>25 DEF Restart
<1>26. CASE StepperSegment \/ StepperDone
  BY <1>26 DEF StepperSegment, StepperDone
<1>27. CASE \E c \in Commands : Command(c)
  <2> PICK c \in Commands : Command(c) BY <1>27
  <2>1. CASE FlagCommand(c) \/ CycleStartCommand \/ JogCancelCommand \/ SpindleStopCommand
    BY <2>1 DEF FlagCommand, CycleStartCommand, JogCancelCommand, SpindleStopCommand,
         Command, Budget
  <2>2. CASE ResetCommand \/ HardLimit
    BY <2>2 DEF ResetCommand, HardLimit, Command, Budget
  <2> QED BY <2>1, <2>2 DEF Command
<1> QED BY <1>1, <1>2, <1>3, <1>4, <1>5, <1>6, <1>7, <1>8, <1>9, <1>10, <1>11, <1>12,
     <1>13, <1>14, <1>15, <1>16, <1>17, <1>18, <1>19, <1>20, <1>21, <1>22, <1>23, <1>24,
     <1>25, <1>26, <1>27 DEF Next, Main, Stepper, ExecRtSystem, ExecRtSuspend, MainLoop

LEMMA SleepInvNext ==
    ASSUME IInv, Types', Next
    PROVE  SleepInv'
<1>1. CASE RtAlarm \/ RtCritical \/ RtCopy
  BY <1>1 DEF RtAlarm, RtCritical, RtCopy
<1>2. CASE RtHold
  BY <1>2 DEF RtHold
<1>3. CASE RtStartNone \/ RtStartIgnored \/ RtStartSpindle
  BY <1>3 DEF RtStartNone, RtStartIgnored, RtStartSpindle
<1>4. CASE RtStartCycle
  BY <1>4, RtStartCyclePrepares DEF RtStartCycle, Prepared
<1>5. CASE RtWake
  BY <1>5 DEF RtWake
<1>6. CASE RtStartIdle
  BY <1>6 DEF RtStartIdle
<1>7. CASE RtStopNone \/ RtStopHold
  BY <1>7 DEF RtStopNone, RtStopHold
<1>8. CASE RtStopDone
  BY <1>8 DEF RtStopDone
<1>9. CASE RtAccessory
  BY <1>9 DEF RtAccessory
<1>10. CASE RtPrep
  BY <1>10, RtPrepPrepares DEF RtPrep, Prepared
<1>11. CASE SuspendOver \/ SuspendWait \/ SuspendRetract
  BY <1>11 DEF SuspendOver, SuspendWait, SuspendRetract
<1>12. CASE SuspendSleep \/ Sleeping \/ SuspendDoor
  BY <1>12 DEF SuspendSleep, Sleeping, SuspendDoor
<1>13. CASE RestoreNow \/ RestoreDelay \/ RestoreDelayStep \/ RestoreAfterDelay
         \/ SuspendHold
  BY <1>13 DEF RestoreNow, RestoreDelay, RestoreDelayStep, RestoreAfterDelay,
       SuspendHold
<1>14. CASE ReadLine \/ NothingToRead \/ Poll
  BY <1>14 DEF ReadLine, NothingToRead, Poll
<1>15. CASE EolAbort \/ EolRefuse \/ EolSystem \/ EolCheckOff \/ EolSleep
  BY <1>15 DEF EolAbort, EolRefuse, EolSystem, EolCheckOff, EolSleep
<1>16. CASE EolMotion \/ EolSync
  BY <1>16 DEF EolMotion, EolSync
<1>17. CASE EolOutside \/ SoftWait \/ SoftEnd
  BY <1>17 DEF EolOutside, SoftWait, SoftEnd
<1>18. CASE McLineAbort \/ McLineFull \/ McLineQueue
  BY <1>18 DEF McLineAbort, McLineFull, McLineQueue
<1>19. CASE McLineJog
  BY <1>19, McLineJogPrepares DEF McLineJog, Prepared
<1>20. CASE JogWake
  BY <1>20 DEF JogWake
<1>21. CASE SyncWait \/ ProbeWait \/ ProbeOver
  BY <1>21 DEF SyncWait, ProbeWait, ProbeOver
<1>22. CASE ProbeStart
  BY <1>22 DEF ProbeStart
<1>23. CASE ProbeEnd
  BY <1>23 DEF ProbeEnd
<1>24. CASE Reinit
  BY <1>24 DEF Reinit
<1>25. CASE Restart
  BY <1>25 DEF Restart
<1>26. CASE StepperSegment \/ StepperDone
  BY <1>26 DEF StepperSegment, StepperDone
<1>27. CASE \E c \in Commands : Command(c)
  <2> PICK c \in Commands : Command(c) BY <1>27
  <2>1. CASE FlagCommand(c) \/ CycleStartCommand \/ JogCancelCommand \/ SpindleStopCommand
    BY <2>1 DEF FlagCommand, CycleStartCommand, JogCancelCommand, SpindleStopCommand,
         Command, Budget
  <2>2. CASE ResetCommand \/ HardLimit
    BY <2>2 DEF ResetCommand, HardLimit, Command, Budget
  <2> QED BY <2>1, <2>2 DEF Command
<1> QED BY <1>1, <1>2, <1>3, <1>4, <1>5, <1>6, <1>7, <1>8, <1>9, <1>10, <1>11, <1>12,
     <1>13, <1>14, <1>15, <1>16, <1>17, <1>18, <1>19, <1>20, <1>21, <1>22, <1>23, <1>24,
     <1>25, <1>26, <1>27 DEF Next, Main, Stepper, ExecRtSystem, ExecRtSuspend, MainLoop

LEMMA OrderInvNext ==
    ASSUME IInv, Types', Next
    PROVE  OrderInv'
<1>1. CASE RtAlarm \/ RtCritical \/ RtCopy
  BY <1>1 DEF RtAlarm, RtCritical, RtCopy
<1>2. CASE RtHold
  BY <1>2 DEF RtHold
<1>3. CASE RtStartNone \/ RtStartIgnored \/ RtStartSpindle
  BY <1>3 DEF RtStartNone, RtStartIgnored, RtStartSpindle
<1>4. CASE RtStartCycle
  BY <1>4, RtStartCyclePrepares DEF RtStartCycle, Prepared
<1>5. CASE RtWake
  BY <1>5 DEF RtWake
<1>6. CASE RtStartIdle
  BY <1>6 DEF RtStartIdle
<1>7. CASE RtStopNone \/ RtStopHold
  BY <1>7 DEF RtStopNone, RtStopHold
<1>8. CASE RtStopDone
  BY <1>8 DEF RtStopDone
<1>9. CASE RtAccessory
  BY <1>9 DEF RtAccessory
<1>10. CASE RtPrep
  BY <1>10, RtPrepPrepares DEF RtPrep, Prepared
<1>11. CASE SuspendOver \/ SuspendWait \/ SuspendRetract
  BY <1>11 DEF SuspendOver, SuspendWait, SuspendRetract
<1>12. CASE SuspendSleep \/ Sleeping \/ SuspendDoor
  BY <1>12 DEF SuspendSleep, Sleeping, SuspendDoor
<1>13. CASE RestoreNow \/ RestoreDelay \/ RestoreDelayStep \/ RestoreAfterDelay
         \/ SuspendHold
  BY <1>13 DEF RestoreNow, RestoreDelay, RestoreDelayStep, RestoreAfterDelay,
       SuspendHold
<1>14. CASE ReadLine \/ NothingToRead \/ Poll
  BY <1>14 DEF ReadLine, NothingToRead, Poll
<1>15. CASE EolAbort \/ EolRefuse \/ EolSystem \/ EolCheckOff \/ EolSleep
  BY <1>15 DEF EolAbort, EolRefuse, EolSystem, EolCheckOff, EolSleep
<1>16. CASE EolMotion \/ EolSync
  BY <1>16 DEF EolMotion, EolSync
<1>17. CASE EolOutside \/ SoftWait \/ SoftEnd
  BY <1>17 DEF EolOutside, SoftWait, SoftEnd
<1>18. CASE McLineAbort \/ McLineFull \/ McLineQueue
  BY <1>18 DEF McLineAbort, McLineFull, McLineQueue
<1>19. CASE McLineJog
  BY <1>19, McLineJogPrepares DEF McLineJog, Prepared
<1>20. CASE JogWake
  BY <1>20 DEF JogWake
<1>21. CASE SyncWait \/ ProbeWait \/ ProbeOver
  BY <1>21 DEF SyncWait, ProbeWait, ProbeOver
<1>22. CASE ProbeStart
  BY <1>22 DEF ProbeStart
<1>23. CASE ProbeEnd
  BY <1>23 DEF ProbeEnd
<1>24. CASE Reinit
  BY <1>24 DEF Reinit
<1>25. CASE Restart
  BY <1>25 DEF Restart
<1>26. CASE StepperSegment \/ StepperDone
  BY <1>26 DEF StepperSegment, StepperDone
<1>27. CASE \E c \in Commands : Command(c)
  <2> PICK c \in Commands : Command(c) BY <1>27
  <2>1. CASE FlagCommand(c) \/ CycleStartCommand \/ JogCancelCommand \/ SpindleStopCommand
    BY <2>1 DEF FlagCommand, CycleStartCommand, JogCancelCommand, SpindleStopCommand,
         Command, Budget
  <2>2. CASE ResetCommand \/ HardLimit
    BY <2>2 DEF ResetCommand, HardLimit, Command, Budget
  <2> QED BY <2>1, <2>2 DEF Command
<1> QED BY <1>1, <1>2, <1>3, <1>4, <1>5, <1>6, <1>7, <1>8, <1>9, <1>10, <1>11, <1>12,
     <1>13, <1>14, <1>15, <1>16, <1>17, <1>18, <1>19, <1>20, <1>21, <1>22, <1>23, <1>24,
     <1>25, <1>26, <1>27 DEF Next, Main, Stepper, ExecRtSystem, ExecRtSuspend, MainLoop

HIDE DEF IInv, Types, FlagType, SysType, FlowType, RunType, FlowInv, AlarmInv, RestInv,
         StopInv, DoorInv, SleepInv, OrderInv

LEMMA InitIInv == Init => IInv
<1> SUFFICES ASSUME Init PROVE IInv OBVIOUS
<1> USE DEF Init
<1>1. QueueType
  <2>1. blocks \in Seq(Kinds) /\ Len(blocks) = 0 OBVIOUS
  <2>2. MaxBlocks \in Nat /\ MaxSegs \in Nat BY ProtocolAssumption
  <2>3. QueueOK(blocks) BY <2>1, <2>2 DEF QueueOK
  <2>4. segs \in 0 .. MaxSegs BY <2>2
  <2>5. partial \in BOOLEAN /\ ~partial OBVIOUS
  <2> QED BY <2>3, <2>4, <2>5 DEF QueueType
<1>2. RunType BY DEF RunType
<1>3. FlagType BY DEF FlagType, ExecFlags, Alarms
<1>4. SysType BY ProtocolAssumption DEF SysType, States, Suspensions, StepControls, SpindleStops
<1>5. FlowType BY ProtocolAssumption DEF FlowType, Labels
<1>6. FlowInv /\ AlarmInv /\ RestInv BY DEF FlowInv, AlarmInv, RestInv
<1>7. StopInv /\ DoorInv /\ SleepInv /\ OrderInv BY DEF StopInv, DoorInv, SleepInv, OrderInv
<1> QED BY <1>1, <1>2, <1>3, <1>4, <1>5, <1>6, <1>7 DEF IInv, Types

LEMMA NextIInv == ASSUME IInv, [Next]_vars PROVE IInv'
<1>1. CASE Next
  <2>1. Types' BY <1>1, TypesNext DEF IInv
  <2> QED BY <1>1, <2>1, FlowInvNext, AlarmInvNext, RestInvNext, StopInvNext, DoorInvNext,
             SleepInvNext, OrderInvNext DEF IInv
<1>2. CASE UNCHANGED vars
  BY <1>2 DEF vars, IInv, Types, FlagType, SysType, FlowType, QueueType, RunType, FlowInv,
              AlarmInv, RestInv, StopInv, DoorInv, SleepInv, OrderInv
<1> QED BY <1>1, <1>2

LEMMA Invariant == Spec => []IInv
  BY InitIInv, NextIInv, PTL DEF Spec

-----------------------------------------------------------------------------
(* Theorems *)

(* The state of the machine, the realtime flags and the queue keep their    *)
(* types; the planner ring does not overflow, whoever waits for room.       *)
THEOREM TypeCorrect == Spec => []TypeOK
<1>1. IInv => TypeOK BY TypesAreTypeOK DEF IInv
<1> QED BY Invariant, <1>1, PTL

(* protocol_exec_rt_system(), lines 262-324 and 360-388: whatever realtime  *)
(* commands arrive next, the steppers stand still once the hold has been    *)
(* reported as complete.                                                    *)
THEOREM HoldStandsStill == Spec => []CompletedHoldStandsStill
<1>1. IInv => CompletedHoldStandsStill
  BY DEF IInv, FlowInv, RestInv, CompletedHoldStandsStill
<1> QED BY Invariant, <1>1, PTL

-----------------------------------------------------------------------------
(* EXEC_CYCLE_STOP.  mc_probe_cycle() ends with st_reset() after a poll in  *)
(* which a cycle may start again, and leaves the state CYCLE behind.        *)

NoProbing == "probe" \notin LineKinds

StopPendingInv ==
    /\ CycleStopIsPending
    /\ {pc, ret} \cap {"probeWait", "probeEnd"} = {}

USE DEF IInv, Types, FlagType, SysType, FlowType, FlowInv, RestInv, StopInv, NoProbing,
        StopPendingInv, CycleStopIsPending, Reinitialising

LEMMA StopPendingNext ==
    ASSUME NoProbing, IInv, StopPendingInv, Next
    PROVE  StopPendingInv'
<1>1. CASE RtAlarm \/ RtCritical \/ RtCopy
  BY <1>1 DEF RtAlarm, RtCritical, RtCopy
<1>2. CASE RtHold
  BY <1>2 DEF RtHold
<1>3. CASE RtStartNone \/ RtStartIgnored \/ RtStartSpindle
  BY <1>3 DEF RtStartNone, RtStartIgnored, RtStartSpindle
<1>4. CASE RtStartCycle
  BY <1>4, RtStartCyclePrepares DEF RtStartCycle, Prepared
<1>5. CASE RtWake
  BY <1>5 DEF RtWake
<1>6. CASE RtStartIdle
  BY <1>6 DEF RtStartIdle
<1>7. CASE RtStopNone \/ RtStopHold
  BY <1>7 DEF RtStopNone, RtStopHold
<1>8. CASE RtStopDone
  BY <1>8 DEF RtStopDone
<1>9. CASE RtAccessory
  BY <1>9 DEF RtAccessory
<1>10. CASE RtPrep
  BY <1>10, RtPrepPrepares DEF RtPrep, Prepared
<1>11. CASE SuspendOver \/ SuspendWait \/ SuspendRetract
  BY <1>11 DEF SuspendOver, SuspendWait, SuspendRetract
<1>12. CASE SuspendSleep \/ Sleeping \/ SuspendDoor
  BY <1>12 DEF SuspendSleep, Sleeping, SuspendDoor
<1>13. CASE RestoreNow \/ RestoreDelay \/ RestoreDelayStep \/ RestoreAfterDelay
         \/ SuspendHold
  BY <1>13 DEF RestoreNow, RestoreDelay, RestoreDelayStep, RestoreAfterDelay,
       SuspendHold
<1>14. CASE ReadLine \/ NothingToRead \/ Poll
  BY <1>14 DEF ReadLine, NothingToRead, Poll
<1>15. CASE EolAbort \/ EolRefuse \/ EolSystem \/ EolCheckOff \/ EolSleep
  BY <1>15 DEF EolAbort, EolRefuse, EolSystem, EolCheckOff, EolSleep
<1>16. CASE EolMotion \/ EolSync
  BY <1>16 DEF EolMotion, EolSync
<1>17. CASE EolOutside \/ SoftWait \/ SoftEnd
  BY <1>17 DEF EolOutside, SoftWait, SoftEnd
<1>18. CASE McLineAbort \/ McLineFull \/ McLineQueue
  BY <1>18 DEF McLineAbort, McLineFull, McLineQueue
<1>19. CASE McLineJog
  BY <1>19, McLineJogPrepares DEF McLineJog, Prepared
<1>20. CASE JogWake
  BY <1>20 DEF JogWake
<1>21. CASE SyncWait \/ ProbeWait \/ ProbeOver
  BY <1>21 DEF SyncWait, ProbeWait, ProbeOver
<1>22. CASE ProbeStart
  BY <1>22 DEF ProbeStart
<1>23. CASE ProbeEnd
  BY <1>23 DEF ProbeEnd
<1>24. CASE Reinit
  BY <1>24 DEF Reinit
<1>25. CASE Restart
  BY <1>25 DEF Restart
<1>26. CASE StepperSegment \/ StepperDone
  BY <1>26 DEF StepperSegment, StepperDone
<1>27. CASE \E c \in Commands : Command(c)
  <2> PICK c \in Commands : Command(c) BY <1>27
  <2>1. CASE FlagCommand(c) \/ CycleStartCommand \/ JogCancelCommand \/ SpindleStopCommand
    BY <2>1 DEF FlagCommand, CycleStartCommand, JogCancelCommand, SpindleStopCommand,
         Command, Budget
  <2>2. CASE ResetCommand \/ HardLimit
    BY <2>2 DEF ResetCommand, HardLimit, Command, Budget
  <2> QED BY <2>1, <2>2 DEF Command
<1> QED BY <1>1, <1>2, <1>3, <1>4, <1>5, <1>6, <1>7, <1>8, <1>9, <1>10, <1>11, <1>12,
     <1>13, <1>14, <1>15, <1>16, <1>17, <1>18, <1>19, <1>20, <1>21, <1>22, <1>23, <1>24,
     <1>25, <1>26, <1>27 DEF Next, Main, Stepper, ExecRtSystem, ExecRtSuspend, MainLoop

HIDE DEF IInv, Types, FlagType, SysType, FlowType, FlowInv, RestInv, StopInv, NoProbing,
         StopPendingInv, CycleStopIsPending, Reinitialising

(* protocol_exec_rt_system(), lines 324-388, with st_wake_up() and the step *)
(* interrupt: without probing cycles, no RUN and no JOG is left behind that *)
(* neither the step interrupt nor a reset would end.                        *)
THEOREM CycleStopCorrect == NoProbing => (Spec => []CycleStopIsPending)
<1> SUFFICES ASSUME NoProbing PROVE Spec => []CycleStopIsPending OBVIOUS
<1>1. Init => StopPendingInv
  BY DEF Init, StopPendingInv, CycleStopIsPending
<1>2. IInv /\ StopPendingInv /\ [Next]_vars => StopPendingInv'
  <2>1. ASSUME IInv, StopPendingInv, UNCHANGED vars PROVE StopPendingInv'
    BY <2>1 DEF vars, StopPendingInv, CycleStopIsPending, Reinitialising
  <2> QED BY <2>1, StopPendingNext
<1>3. StopPendingInv => CycleStopIsPending BY DEF StopPendingInv
<1> QED BY Invariant, <1>1, <1>2, <1>3, PTL DEF Spec

-----------------------------------------------------------------------------
(* How a suspension ends.                                                   *)

HoldStates == {"HOLD", "SAFETY_DOOR", "SLEEP"}
ResetComes == Reinitialising \/ pc = "rt.critical"

\* A restore that ends in a machine which has been resumed meanwhile suspends it
\* again, with a cycle start that nothing blocks before it is served.
Restarts ==
    /\ state = "IDLE" /\ "CYCLE_START" \in rtState
    /\ \/ pc \in Entering
       \/ pc \in {"rt.hold", "rt.start"} /\ "CYCLE_START" \in rtExec
    /\ pc = "rt.start" => StartAllowed

\* Whoever waits for a hold to complete waits for something that is on its way:
\* the steppers still run, the end of the cycle has been reported, a reset is
\* due, or the cycle start of a restore is about to be served.
HoldIsAwaited ==
    (suspend # {} \/ state \in HoldStates) /\ ~Held =>
        running \/ "CYCLE_STOP" \in rtState \/ ResetComes \/ Restarts

\* A hold that is not complete keeps braking.
BrakeInv == ~Leaving /\ state \in HoldStates => Held \/ "EXECUTE_HOLD" \in stepControl

\* The machine is not locked while the spindle is restored, nor without a reset.
DelayInv == "restored" \in {pc, sub} => state \notin {"ALARM", "CHECK_MODE"} \/ ResetComes
AlarmResets == rtAlarm # "none" => ResetComes

AwaitInv == HoldIsAwaited /\ BrakeInv /\ DelayInv /\ AlarmResets

USE DEF IInv, Types, FlagType, SysType, FlowType, FlowInv, AlarmInv, RestInv, StopInv,
        SleepInv, NoProbing, StopPendingInv, CycleStopIsPending, Reinitialising, AwaitInv,
        HoldIsAwaited, BrakeInv, DelayInv, AlarmResets, ResetComes, Restarts, HoldStates

LEMMA AwaitNext ==
    ASSUME NoProbing, IInv, StopPendingInv, AwaitInv, Next
    PROVE  AwaitInv'
<1>1. CASE RtAlarm \/ RtCritical \/ RtCopy
  BY <1>1 DEF RtAlarm, RtCritical, RtCopy
<1>2. CASE RtHold
  <2>1. CASE rtExec \cap HoldFlags = {} BY <1>2, <2>1 DEF RtHold
  <2>2. CASE rtExec \cap HoldFlags # {} /\ "SLEEP" \in rtExec BY <1>2, <2>2 DEF RtHold
  <2>3. CASE rtExec \cap HoldFlags # {} /\ "SLEEP" \notin rtExec
    <3>1. /\ rtState' = rtState \ ClearedByHold /\ pc' = "rt.start"
          /\ state' = AfterDoor[1] /\ suspend' = AfterDoor[2]
          /\ stepControl' = IF HoldBrakes THEN {"EXECUTE_HOLD"} ELSE stepControl
          /\ UNCHANGED <<rtAlarm, running, abort, sub, rtExec>>
      BY <1>2, <2>3 DEF RtHold
    <3>2. ResetComes => ResetComes' BY <1>2, <3>1 DEF RtHold
    <3>3. "CYCLE_STOP" \in rtState => "CYCLE_STOP" \in rtState' BY <3>1
    <3>4. state = "IDLE" => Held'
      <4>1. CASE state = "IDLE"
        <5>1. SuspendAfterCancel = IF "MOTION_CANCEL" \in rtExec
                THEN {"HOLD_COMPLETE", "MOTION_CANCEL"} ELSE {"HOLD_COMPLETE"}
          BY <4>1
        <5>2. "HOLD_COMPLETE" \in AfterDoor[2] BY <4>1, <5>1
        <5> QED BY <3>1, <5>2
      <4> QED BY <4>1
    <3>5. Held => Held' BY <3>1
    <3>6. state \in {"ALARM", "CHECK_MODE"} => state' = state /\ suspend' = suspend
      BY <3>1
    <3>7. state' \in HoldStates => state \in HoldStates \cup {"IDLE", "CYCLE", "JOG"}
      BY <3>6 DEF States
    <3>8. state \in {"CYCLE", "JOG"} => "EXECUTE_HOLD" \in stepControl'
      BY <3>1, <1>2 DEF RtHold
    <3>9. HoldIsAwaited'
      <4>1. state \in {"CYCLE", "JOG"} => running \/ "CYCLE_STOP" \in rtState \/ ResetComes
        BY <1>2 DEF RtHold
      <4>2. state \in HoldStates /\ ~Held => running \/ "CYCLE_STOP" \in rtState \/ ResetComes
        BY <1>2 DEF RtHold
      <4>3. /\ state \in {"ALARM", "CHECK_MODE"} /\ suspend # {} /\ ~Held
            => running \/ "CYCLE_STOP" \in rtState \/ ResetComes
        BY <1>2 DEF RtHold
      <4>4. state \in HoldStates \cup {"IDLE", "CYCLE", "JOG", "ALARM", "CHECK_MODE"}
        BY DEF States
      <4> HIDE DEF ResetComes
      <4> QED BY <3>1, <3>2, <3>3, <3>4, <3>5, <3>6, <4>1, <4>2, <4>3, <4>4
    <3>10. BrakeInv'
      BY <1>2, <3>1, <3>4, <3>5, <3>6, <3>7, <3>8 DEF RtHold
    <3>11. DelayInv' /\ AlarmResets' BY <1>2, <2>3 DEF RtHold
    <3> QED BY <3>9, <3>10, <3>11
  <2> QED BY <2>1, <2>2, <2>3
<1>3. CASE RtStartNone \/ RtStartIgnored \/ RtStartSpindle
  BY <1>3 DEF RtStartNone, RtStartIgnored, RtStartSpindle
<1>4. CASE RtStartCycle
  BY <1>4, RtStartCyclePrepares DEF RtStartCycle, Prepared
<1>5. CASE RtWake
  BY <1>5 DEF RtWake
<1>6. CASE RtStartIdle
  BY <1>6 DEF RtStartIdle
<1>7. CASE RtStopNone \/ RtStopHold
  BY <1>7 DEF RtStopNone, RtStopHold
<1>8. CASE RtStopDone
  BY <1>8 DEF RtStopDone
<1>9. CASE RtAccessory
  BY <1>9 DEF RtAccessory
<1>10. CASE RtPrep
  BY <1>10, RtPrepPrepares DEF RtPrep, Prepared
<1>11. CASE SuspendOver \/ SuspendWait \/ SuspendRetract
  BY <1>11 DEF SuspendOver, SuspendWait, SuspendRetract
<1>12. CASE SuspendSleep \/ Sleeping \/ SuspendDoor
  BY <1>12 DEF SuspendSleep, Sleeping, SuspendDoor
<1>13. CASE RestoreNow \/ RestoreDelay \/ RestoreDelayStep \/ RestoreAfterDelay
         \/ SuspendHold
  <2>1. CASE RestoreNow \/ RestoreDelay \/ RestoreDelayStep \/ SuspendHold
    BY <1>13, <2>1 DEF RestoreNow, RestoreDelay, RestoreDelayStep, SuspendHold
  <2>2. CASE RestoreAfterDelay
    BY <2>2 DEF RestoreAfterDelay, States
  <2> QED BY <1>13, <2>1, <2>2
<1>14. CASE ReadLine \/ NothingToRead \/ Poll
  BY <1>14 DEF ReadLine, NothingToRead, Poll
<1>15. CASE EolAbort \/ EolRefuse \/ EolSystem \/ EolCheckOff \/ EolSleep
  BY <1>15 DEF EolAbort, EolRefuse, EolSystem, EolCheckOff, EolSleep
<1>16. CASE EolMotion \/ EolSync
  BY <1>16 DEF EolMotion, EolSync
<1>17. CASE EolOutside \/ SoftWait \/ SoftEnd
  BY <1>17 DEF EolOutside, SoftWait, SoftEnd
<1>18. CASE McLineAbort \/ McLineFull \/ McLineQueue
  BY <1>18 DEF McLineAbort, McLineFull, McLineQueue
<1>19. CASE McLineJog
  BY <1>19, McLineJogPrepares DEF McLineJog, Prepared
<1>20. CASE JogWake
  BY <1>20 DEF JogWake
<1>21. CASE SyncWait \/ ProbeWait \/ ProbeOver
  BY <1>21 DEF SyncWait, ProbeWait, ProbeOver
<1>22. CASE ProbeStart
  BY <1>22 DEF ProbeStart
<1>23. CASE ProbeEnd
  BY <1>23 DEF ProbeEnd
<1>24. CASE Reinit
  BY <1>24 DEF Reinit
<1>25. CASE Restart
  BY <1>25 DEF Restart
<1>26. CASE StepperSegment \/ StepperDone
  BY <1>26 DEF StepperSegment, StepperDone
<1>27. CASE \E c \in Commands : Command(c)
  <2> PICK c \in Commands : Command(c) BY <1>27
  <2>1. CASE FlagCommand(c) \/ CycleStartCommand \/ JogCancelCommand \/ SpindleStopCommand
    BY <2>1 DEF FlagCommand, CycleStartCommand, JogCancelCommand, SpindleStopCommand,
         Command, Budget
  <2>2. CASE ResetCommand \/ HardLimit
    BY <2>2 DEF ResetCommand, HardLimit, Command, Budget
  <2> QED BY <2>1, <2>2 DEF Command
<1> QED BY <1>1, <1>2, <1>3, <1>4, <1>5, <1>6, <1>7, <1>8, <1>9, <1>10, <1>11, <1>12,
     <1>13, <1>14, <1>15, <1>16, <1>17, <1>18, <1>19, <1>20, <1>21, <1>22, <1>23, <1>24,
     <1>25, <1>26, <1>27 DEF Next, Main, Stepper, ExecRtSystem, ExecRtSuspend, MainLoop

HIDE DEF IInv, Types, FlagType, SysType, FlowType, FlowInv, AlarmInv, RestInv, StopInv,
         SleepInv, NoProbing, StopPendingInv, CycleStopIsPending, Reinitialising, AwaitInv,
         HoldIsAwaited, BrakeInv, DelayInv, AlarmResets, ResetComes, Restarts, HoldStates

(* protocol_exec_rt_suspend() and protocol_exec_rt_system(): a machine that *)
(* waits for its hold to complete never waits for an event that nobody will *)
(* bring, whatever commands arrive while it brakes, holds or restores.      *)
THEOREM SuspensionAwaited == NoProbing => (Spec => []HoldIsAwaited)
<1> SUFFICES ASSUME NoProbing PROVE Spec => []HoldIsAwaited OBVIOUS
<1>1. Init => StopPendingInv /\ AwaitInv
  BY DEF Init, StopPendingInv, CycleStopIsPending, AwaitInv, HoldIsAwaited, BrakeInv,
         DelayInv, AlarmResets, HoldStates, Held
<1>2. IInv /\ StopPendingInv /\ AwaitInv /\ [Next]_vars => StopPendingInv' /\ AwaitInv'
  <2>1. ASSUME IInv, StopPendingInv, AwaitInv, UNCHANGED vars
        PROVE  StopPendingInv' /\ AwaitInv'
    BY <2>1 DEF vars, StopPendingInv, CycleStopIsPending, Reinitialising, AwaitInv,
         HoldIsAwaited, BrakeInv, DelayInv, AlarmResets, ResetComes, Restarts, Held, Leaving
  <2> QED BY <2>1, StopPendingNext, AwaitNext
<1>3. AwaitInv => HoldIsAwaited BY DEF AwaitInv
<1> QED BY Invariant, <1>1, <1>2, <1>3, PTL DEF Spec

-----------------------------------------------------------------------------
(* Who resumes *)

USE DEF IInv, Types, FlagType, SysType, FlowType, FlowInv, RestInv, DoorInv, SleepInv,
        OrderInv, Resumes

LEMMA ResumesOnOrder ==
    ASSUME IInv, Next
    PROVE  Resumes => Ordered(execBy)
<1>1. CASE RtAlarm \/ RtCritical \/ RtCopy
  BY <1>1 DEF RtAlarm, RtCritical, RtCopy
<1>2. CASE RtHold
  BY <1>2 DEF RtHold
<1>3. CASE RtStartNone \/ RtStartIgnored \/ RtStartSpindle
  BY <1>3 DEF RtStartNone, RtStartIgnored, RtStartSpindle
<1>4. CASE RtStartCycle
  BY <1>4, RtStartCyclePrepares DEF RtStartCycle, Prepared
<1>5. CASE RtWake
  BY <1>5 DEF RtWake
<1>6. CASE RtStartIdle
  BY <1>6 DEF RtStartIdle
<1>7. CASE RtStopNone \/ RtStopHold
  BY <1>7 DEF RtStopNone, RtStopHold
<1>8. CASE RtStopDone
  BY <1>8 DEF RtStopDone
<1>9. CASE RtAccessory
  BY <1>9 DEF RtAccessory
<1>10. CASE RtPrep
  BY <1>10, RtPrepPrepares DEF RtPrep, Prepared
<1>11. CASE SuspendOver \/ SuspendWait \/ SuspendRetract
  BY <1>11 DEF SuspendOver, SuspendWait, SuspendRetract
<1>12. CASE SuspendSleep \/ Sleeping \/ SuspendDoor
  BY <1>12 DEF SuspendSleep, Sleeping, SuspendDoor
<1>13. CASE RestoreNow \/ RestoreDelay \/ RestoreDelayStep \/ RestoreAfterDelay
         \/ SuspendHold
  BY <1>13 DEF RestoreNow, RestoreDelay, RestoreDelayStep, RestoreAfterDelay,
       SuspendHold
<1>14. CASE ReadLine \/ NothingToRead \/ Poll
  BY <1>14 DEF ReadLine, NothingToRead, Poll
<1>15. CASE EolAbort \/ EolRefuse \/ EolSystem \/ EolCheckOff \/ EolSleep
  BY <1>15 DEF EolAbort, EolRefuse, EolSystem, EolCheckOff, EolSleep
<1>16. CASE EolMotion \/ EolSync
  BY <1>16 DEF EolMotion, EolSync
<1>17. CASE EolOutside \/ SoftWait \/ SoftEnd
  BY <1>17 DEF EolOutside, SoftWait, SoftEnd
<1>18. CASE McLineAbort \/ McLineFull \/ McLineQueue
  BY <1>18 DEF McLineAbort, McLineFull, McLineQueue
<1>19. CASE McLineJog
  BY <1>19, McLineJogPrepares DEF McLineJog, Prepared
<1>20. CASE JogWake
  BY <1>20 DEF JogWake
<1>21. CASE SyncWait \/ ProbeWait \/ ProbeOver
  BY <1>21 DEF SyncWait, ProbeWait, ProbeOver
<1>22. CASE ProbeStart
  BY <1>22 DEF ProbeStart
<1>23. CASE ProbeEnd
  BY <1>23 DEF ProbeEnd
<1>24. CASE Reinit
  BY <1>24 DEF Reinit
<1>25. CASE Restart
  BY <1>25 DEF Restart
<1>26. CASE StepperSegment \/ StepperDone
  BY <1>26 DEF StepperSegment, StepperDone
<1>27. CASE \E c \in Commands : Command(c)
  <2> PICK c \in Commands : Command(c) BY <1>27
  <2>1. CASE FlagCommand(c) \/ CycleStartCommand \/ JogCancelCommand \/ SpindleStopCommand
    BY <2>1 DEF FlagCommand, CycleStartCommand, JogCancelCommand, SpindleStopCommand,
         Command, Budget
  <2>2. CASE ResetCommand \/ HardLimit
    BY <2>2 DEF ResetCommand, HardLimit, Command, Budget
  <2> QED BY <2>1, <2>2 DEF Command
<1> QED BY <1>1, <1>2, <1>3, <1>4, <1>5, <1>6, <1>7, <1>8, <1>9, <1>10, <1>11, <1>12,
     <1>13, <1>14, <1>15, <1>16, <1>17, <1>18, <1>19, <1>20, <1>21, <1>22, <1>23, <1>24,
     <1>25, <1>26, <1>27 DEF Next, Main, Stepper, ExecRtSystem, ExecRtSuspend, MainLoop

HIDE DEF IInv, Resumes, OrderInv

(* protocol_exec_rt_system(), lines 337-373: the start that              *)
(* protocol_auto_cycle_start() and mc_probe_cycle() raise never restarts a   *)
(* machine on hold, with its door open or its spindle stopped.               *)
THEOREM AutoStartHarmless == Spec => AutoStartNeverResumes
<1>1. IInv /\ [Next]_vars => [Resumes => execBy \cap {"user", "restore"} # {}]_vars
  BY ResumesOnOrder DEF Ordered
<1> QED BY Invariant, <1>1, PTL DEF Spec, AutoStartNeverResumes

-----------------------------------------------------------------------------
(* The refinement *)

USE DEF Machine!Run, Machine!Start, Machine!Stop, Machine!Pause, Machine!Sleep,
        Machine!Finish, Machine!Lock, Machine!Unlock, Machine!Check, Machine!Reset,
        Machine!Next, Machine!vars, Machine!Motion, Machine!Paused, IInv, StopInv, RunType

LEMMA StepsAllowed ==
    ASSUME IInv, Next
    PROVE  [Machine!Next]_(Machine!vars)
<1>1. CASE RtAlarm \/ RtCritical \/ RtCopy
  BY <1>1 DEF RtAlarm, RtCritical, RtCopy
<1>2. CASE RtHold
  BY <1>2 DEF RtHold
<1>3. CASE RtStartNone \/ RtStartIgnored \/ RtStartSpindle
  BY <1>3 DEF RtStartNone, RtStartIgnored, RtStartSpindle
<1>4. CASE RtStartCycle
  BY <1>4, RtStartCyclePrepares DEF RtStartCycle, Prepared
<1>5. CASE RtWake
  BY <1>5 DEF RtWake
<1>6. CASE RtStartIdle
  BY <1>6 DEF RtStartIdle
<1>7. CASE RtStopNone \/ RtStopHold
  BY <1>7 DEF RtStopNone, RtStopHold
<1>8. CASE RtStopDone
  BY <1>8 DEF RtStopDone
<1>9. CASE RtAccessory
  BY <1>9 DEF RtAccessory
<1>10. CASE RtPrep
  BY <1>10, RtPrepPrepares DEF RtPrep, Prepared
<1>11. CASE SuspendOver \/ SuspendWait \/ SuspendRetract
  BY <1>11 DEF SuspendOver, SuspendWait, SuspendRetract
<1>12. CASE SuspendSleep \/ Sleeping \/ SuspendDoor
  BY <1>12 DEF SuspendSleep, Sleeping, SuspendDoor
<1>13. CASE RestoreNow \/ RestoreDelay \/ RestoreDelayStep \/ RestoreAfterDelay
         \/ SuspendHold
  BY <1>13 DEF RestoreNow, RestoreDelay, RestoreDelayStep, RestoreAfterDelay,
       SuspendHold
<1>14. CASE ReadLine \/ NothingToRead \/ Poll
  BY <1>14 DEF ReadLine, NothingToRead, Poll
<1>15. CASE EolAbort \/ EolRefuse \/ EolSystem \/ EolCheckOff \/ EolSleep
  BY <1>15 DEF EolAbort, EolRefuse, EolSystem, EolCheckOff, EolSleep
<1>16. CASE EolMotion \/ EolSync
  BY <1>16 DEF EolMotion, EolSync
<1>17. CASE EolOutside \/ SoftWait \/ SoftEnd
  BY <1>17 DEF EolOutside, SoftWait, SoftEnd
<1>18. CASE McLineAbort \/ McLineFull \/ McLineQueue
  BY <1>18 DEF McLineAbort, McLineFull, McLineQueue
<1>19. CASE McLineJog
  BY <1>19, McLineJogPrepares DEF McLineJog, Prepared
<1>20. CASE JogWake
  BY <1>20 DEF JogWake
<1>21. CASE SyncWait \/ ProbeWait \/ ProbeOver
  BY <1>21 DEF SyncWait, ProbeWait, ProbeOver
<1>22. CASE ProbeStart
  BY <1>22 DEF ProbeStart
<1>23. CASE ProbeEnd
  BY <1>23 DEF ProbeEnd
<1>24. CASE Reinit
  BY <1>24 DEF Reinit
<1>25. CASE Restart
  BY <1>25 DEF Restart
<1>26. CASE StepperSegment \/ StepperDone
  BY <1>26 DEF StepperSegment, StepperDone
<1>27. CASE \E c \in Commands : Command(c)
  <2> PICK c \in Commands : Command(c) BY <1>27
  <2>1. CASE FlagCommand(c) \/ CycleStartCommand \/ JogCancelCommand \/ SpindleStopCommand
    BY <2>1 DEF FlagCommand, CycleStartCommand, JogCancelCommand, SpindleStopCommand,
         Command, Budget
  <2>2. CASE ResetCommand \/ HardLimit
    BY <2>2 DEF ResetCommand, HardLimit, Command, Budget
  <2> QED BY <2>1, <2>2 DEF Command
<1> QED BY <1>1, <1>2, <1>3, <1>4, <1>5, <1>6, <1>7, <1>8, <1>9, <1>10, <1>11, <1>12,
     <1>13, <1>14, <1>15, <1>16, <1>17, <1>18, <1>19, <1>20, <1>21, <1>22, <1>23, <1>24,
     <1>25, <1>26, <1>27 DEF Next, Main, Stepper, ExecRtSystem, ExecRtSuspend, MainLoop

HIDE DEF Machine!Run, Machine!Start, Machine!Stop, Machine!Pause, Machine!Sleep,
         Machine!Finish, Machine!Lock, Machine!Unlock, Machine!Check, Machine!Reset,
         Machine!Next, Machine!vars, IInv

(* Every behaviour of the realtime protocol is one that MachineStates       *)
(* allows: the states an operator sees follow each other only as listed     *)
(* there, and steppers start only in a state that shows motion.             *)
THEOREM ImplementsStates == Spec => ImplementsMachineStates
<1>1. Init => Machine!Init BY DEF Init, Machine!Init
<1>2. IInv /\ [Next]_vars => [Machine!Next]_(Machine!vars)
  <2>1. ASSUME UNCHANGED vars PROVE UNCHANGED Machine!vars
    BY <2>1 DEF vars, Machine!vars
  <2> QED BY <2>1, StepsAllowed
<1> QED BY Invariant, <1>1, <1>2, PTL DEF Spec, ImplementsMachineStates, Machine!Spec
=============================================================================
