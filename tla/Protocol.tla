------------------------------ MODULE Protocol ------------------------------
(***************************************************************************)
(* The realtime command protocol of GRBL: the main thread polls flags that *)
(* the UART, limit-switch and stepper interrupts set at any moment         *)
(* (protocol.c), and drives the IDLE / CYCLE / HOLD / JOG / SAFETY_DOOR /  *)
(* SLEEP / ALARM state machine from them.                                  *)
(*                                                                         *)
(* Main-thread code is cut where another context can interfere with it:    *)
(* between two accesses to the volatile flags, and before every call of    *)
(* protocol_execute_realtime().  An interrupt handler is one step: the     *)
(* flag setters run with interrupts locked, and no thread runs meanwhile.  *)
(*                                                                         *)
(* The planner is the sequence of queued blocks and the segment buffer a   *)
(* number of segments; StepSegments models them in detail.                 *)
(* The probe input is not ported: probe_get_state() is always 0, a probing *)
(* cycle ends without contact.                                             *)
(* Left to other modules: homing, overrides, status reports, startup lines.*)
(***************************************************************************)
EXTENDS Naturals, Sequences, FiniteSets

CONSTANTS
    MaxBlocks,  \* capacity of the planner ring (BLOCK_BUFFER_SIZE - 1)
    MaxSegs,    \* capacity of the segment ring (SEGMENT_BUFFER_SIZE - 1)
    MaxCmds,    \* bound: realtime events the environment may send
    MaxLines,   \* bound: lines the host may send
    TimerWired, \* st_wake_up() connects the step timer to its handler
    Commands,   \* realtime events of this instance
    LineKinds,  \* kinds of line of this instance
    Spindle     \* is the spindle on (M3/M4)? the possibilities

ASSUME ProtocolAssumption ==
    /\ MaxBlocks \in Nat \ {0} /\ MaxSegs \in Nat \ {0}
    /\ MaxCmds \in Nat /\ MaxLines \in Nat /\ TimerWired \in BOOLEAN
    /\ Commands \subseteq {"RESET", "CYCLE_START", "FEED_HOLD", "SAFETY_DOOR",
                           "JOG_CANCEL", "SPINDLE_STOP", "HARD_LIMIT"}
    /\ LineKinds \subseteq {"move", "outside", "jog", "sync", "probe",
                            "$X", "$C", "$SLP"}
    /\ Spindle \subseteq BOOLEAN /\ Spindle # {}

VARIABLES
    rtState,     \* sys_rt_exec_state: pending EXEC_ flags
    rtAlarm,     \* sys_rt_exec_alarm: pending alarm code
    rtSpindle,   \* sys_rt_exec_accessory_override has EXEC_SPINDLE_OVR_STOP
    state, suspend, stepControl, abort, softLimit, spindleStop, \* fields of sys
    probing,     \* sys_probe_state = PROBE_ACTIVE
    modalSpindle,\* gc_state.modal.spindle # SPINDLE_DISABLE, fixed in a behaviour
    blocks,      \* kinds of the motions in the planner ring, oldest first
    partial,     \* the oldest of them has been prepared in part
    segs,        \* segments prepared and not yet executed
    running,     \* the stepper interrupt is enabled
    pc, ret, sub,\* main thread: next step, return points of the two rt functions
    rtExec,      \* protocol_exec_rt_system()'s local copy of sys_rt_exec_state
    line,        \* the line being executed
    cmds, lines, \* what is left of MaxCmds and MaxLines
    posLost,     \* history: motion was killed at speed, nobody acknowledged it
    startBy,     \* history: who set the pending EXEC_CYCLE_START
    execBy       \* history: startBy as it was when rtExec was copied

rtVars   == <<rtState, rtAlarm, rtSpindle, startBy>>
sysVars  == <<state, suspend, stepControl, abort, softLimit, spindleStop, modalSpindle>>
queue    == <<blocks, partial>>
motVars  == <<queue, segs, running, probing, posLost>>
callVars == <<ret, sub, line>>
envVars  == <<cmds, lines>>
execVars == <<rtExec, execBy>>
vars == <<rtVars, sysVars, motVars, pc, callVars, envVars, execVars>>

ExecFlags   == {"CYCLE_START", "CYCLE_STOP", "RESET", "FEED_HOLD",
                "SAFETY_DOOR", "MOTION_CANCEL", "SLEEP"}
HoldFlags   == {"MOTION_CANCEL", "FEED_HOLD", "SAFETY_DOOR", "SLEEP"}
Alarms      == {"none", "HARD_LIMIT", "SOFT_LIMIT", "ABORT_CYCLE",
                "PROBE_FAIL_CONTACT"}
Critical    == {"HARD_LIMIT", "SOFT_LIMIT"}
States      == {"IDLE", "ALARM", "CHECK_MODE", "CYCLE", "HOLD", "JOG",
                "SAFETY_DOOR", "SLEEP"}
Suspensions == {"HOLD_COMPLETE", "RESTART_RETRACT", "RETRACT_COMPLETE",
                "INITIATE_RESTORE", "RESTORE_COMPLETE", "SAFETY_DOOR_AJAR",
                "MOTION_CANCEL", "JOG_CANCEL"}
StepControls == {"END_MOTION", "EXECUTE_HOLD"}
SpindleStops == {"INITIATE", "ENABLED", "RESTORE", "RESTORE_CYCLE"}
Originators == {"user", "main", "restore"}
ReturnPoints == {"lines", "poll", "eol", "mcline", "sync", "soft", "softEnd",
                 "probeWait", "probeEnd"}
RtSteps      == {"rt.alarm", "rt.critical", "rt.copy", "rt.hold", "rt.start",
                 "rt.wake", "rt.stop", "rt.acc", "rt.prep"}
Labels == ReturnPoints \cup RtSteps \cup
          {"suspend", "restored", "sleeping", "jogWake", "reinit", "restart"}

TypeOK ==
    /\ rtState \subseteq ExecFlags /\ rtAlarm \in Alarms /\ rtSpindle \in BOOLEAN
    /\ state \in States /\ suspend \subseteq Suspensions
    /\ stepControl \subseteq StepControls
    /\ abort \in BOOLEAN /\ softLimit \in BOOLEAN
    /\ spindleStop \subseteq SpindleStops /\ modalSpindle \in BOOLEAN
    /\ blocks \in Seq({"move", "jog", "probe"}) /\ Len(blocks) <= MaxBlocks
    /\ partial \in BOOLEAN /\ (partial => blocks # <<>>)
    /\ segs \in 0..MaxSegs /\ running \in BOOLEAN /\ probing \in BOOLEAN
    /\ pc \in Labels /\ ret \in ReturnPoints
    /\ sub \in {"exec", "suspend", "restored", "sleeping"}
    /\ rtExec \subseteq ExecFlags
    /\ line \in LineKinds \cup {"none"}
    /\ cmds \in 0..MaxCmds /\ lines \in 0..MaxLines
    /\ posLost \in BOOLEAN
    /\ startBy \subseteq Originators /\ execBy \subseteq Originators

(***************************************************************************)
(* Power-up: grblMain() with homing enabled starts in ALARM                *)
(* (HOMING_INIT_LOCK); with homing disabled in IDLE.                       *)
(***************************************************************************)
Init ==
    /\ rtState = {} /\ rtAlarm = "none" /\ rtSpindle = FALSE
    /\ state \in {"IDLE", "ALARM"}
    /\ suspend = {} /\ stepControl = {} /\ abort = FALSE /\ softLimit = FALSE
    /\ spindleStop = {} /\ modalSpindle \in Spindle
    /\ probing = FALSE /\ blocks = <<>> /\ partial = FALSE /\ segs = 0 /\ running = FALSE
    /\ pc = "reinit" /\ ret = "lines" /\ sub = "exec"
    /\ rtExec = {} /\ line = "none"
    /\ cmds = MaxCmds /\ lines = MaxLines
    /\ posLost = FALSE /\ startBy = {} /\ execBy = {}

-----------------------------------------------------------------------------
(* Helpers.                                                                *)

\* Reset while the machine moves: the condition of mc_reset() for killing it.
InMotionState == state \in {"CYCLE", "JOG"} \/ "EXECUTE_HOLD" \in stepControl

\* st_go_idle() / st_reset(): the step interrupt stops at whatever speed it has.
StopSteppers ==
    /\ running' = FALSE
    /\ posLost' = (posLost \/ running)

(* mc_reset(), followed by system_set_exec_alarm(code) when code # "none". *)
McReset(code) ==
    LET first == "RESET" \notin rtState
        kill  == first /\ InMotionState
    IN  /\ rtState' = rtState \cup {"RESET"}
        /\ rtAlarm' = IF code # "none" THEN code
                      ELSE IF kill THEN "ABORT_CYCLE" ELSE rtAlarm
        /\ IF kill THEN StopSteppers ELSE UNCHANGED <<running, posLost>>

\* EXEC_CYCLE_START is raised by who: the operator, also by way of the resume
\* that carries out his order, the main program or the end of a restore.
RaiseCycleStart(who, doIt) ==
    /\ rtState' = IF doIt THEN rtState \cup {"CYCLE_START"} ELSE rtState
    /\ startBy' = IF doIt THEN startBy \cup {who} ELSE startBy

\* protocol_auto_cycle_start().
AutoCycleStart == RaiseCycleStart("main", blocks # <<>>)

\* Back in protocol_main_loop(), done with the line.
ToMainLoop == pc' = "lines" /\ ret' = "lines" /\ sub' = "exec" /\ line' = "none"

\* Call protocol_execute_realtime(), which returns to r.
ExecuteRealtime(r) == pc' = "rt.alarm" /\ ret' = r /\ sub' = "exec"

\* Return of protocol_exec_rt_system(); s is the value of sys.suspend then.
RtReturn(s) ==
    pc' = IF sub # "exec" THEN sub
          ELSE IF s # {} THEN "suspend" ELSE ret

(* st_prep_buffer() on the queue q under step control ctl.  It fills the    *)
(* segment buffer until that is full, the planner is empty, or the hold     *)
(* deceleration ends inside a block.  A block takes at least one segment,   *)
(* and (bound) no more than two calls, so that it comes to an end.          *)
PrepBuffer(q, ctl) ==
    IF "END_MOTION" \in ctl
    THEN blocks' = q /\ stepControl' = ctl /\ UNCHANGED <<segs, partial>>
    ELSE \E n \in 0..(MaxSegs - segs), done \in 0..Len(q), stopped \in BOOLEAN :
           /\ done <= n
           /\ q = <<>> => n = 0
           /\ stopped => "EXECUTE_HOLD" \in ctl /\ done < Len(q) /\ segs < MaxSegs
           /\ stopped \/ segs + n = MaxSegs \/ done = Len(q)
           /\ partial /\ n > 0 /\ ~stopped => done > 0
           /\ segs' = segs + n
           /\ blocks' = SubSeq(q, done + 1, Len(q))
           /\ partial' = (done < Len(q) /\ (n > done \/ (done = 0 /\ partial)))
           /\ stepControl' = IF stopped THEN ctl \cup {"END_MOTION"} ELSE ctl

\* Mutant: the ring is full one block too late.
BufferFullLate == Len(blocks) > MaxBlocks

\* plan_check_full_buffer().
BufferFull == Len(blocks) = MaxBlocks

-----------------------------------------------------------------------------
(* protocol_exec_rt_system().                                              *)

\* The alarm is read; a critical one waits for a reset that comes after it.
RtAlarm ==
    /\ pc = "rt.alarm"
    /\ IF rtAlarm = "none"
       THEN pc' = "rt.copy" /\ UNCHANGED <<state, rtState, rtAlarm>>
       ELSE /\ state' = "ALARM"
            /\ IF rtAlarm \in Critical
               THEN /\ pc' = "rt.critical"
                    /\ rtState' = rtState \ {"RESET"} /\ UNCHANGED rtAlarm
               ELSE pc' = "rt.copy" /\ rtAlarm' = "none" /\ UNCHANGED rtState
    /\ UNCHANGED <<rtSpindle, startBy, suspend, stepControl, abort, softLimit,
                   spindleStop, modalSpindle, motVars, callVars, envVars, execVars>>

RtCritical ==
    /\ pc = "rt.critical" /\ "RESET" \in rtState
    /\ rtAlarm' = "none" /\ pc' = "rt.copy"
    /\ UNCHANGED <<rtState, rtSpindle, startBy, sysVars, motVars, callVars,
                   envVars, execVars>>

\* sys_rt_exec_state is copied; everything below acts on the copy.
RtCopy ==
    /\ pc = "rt.copy"
    /\ IF "RESET" \in rtState
       THEN abort' = TRUE /\ RtReturn(suspend) /\ UNCHANGED execVars
       ELSE /\ pc' = "rt.hold" /\ UNCHANGED abort
            /\ rtExec' = rtState /\ execBy' = startBy
    /\ UNCHANGED <<rtVars, state, suspend, stepControl, softLimit, spindleStop,
                   modalSpindle, motVars, callVars, envVars>>

\* The hold group is open unless the machine is locked or in check mode.
HoldAllowed == state \notin {"ALARM", "CHECK_MODE"}

\* Mutant: only jogs are slowed down by a hold.
HoldBrakesJogOnly ==
    /\ HoldAllowed /\ state = "JOG"
    /\ suspend \cap {"MOTION_CANCEL", "JOG_CANCEL"} = {}

\* A hold deceleration starts now.
HoldBrakes ==
    /\ HoldAllowed /\ state \in {"CYCLE", "JOG"}
    /\ suspend \cap {"MOTION_CANCEL", "JOG_CANCEL"} = {}

\* Mutant: a hold of a running cycle counts as complete, too.
AtRestOrCycle == state \in {"IDLE", "CYCLE"}

\* A hold of an idle machine is complete at once.
AtRest == state = "IDLE"

\* sys.suspend after the feed-hold and motion-cancel parts, lines 266-288.
SuspendAfterCancel ==
    LET s == IF ~HoldAllowed THEN suspend
             ELSE IF AtRest THEN {"HOLD_COMPLETE"}
             ELSE IF HoldBrakes /\ state = "JOG" /\ "SLEEP" \notin rtExec
                  THEN suspend \cup {"JOG_CANCEL"} ELSE suspend
    IN  IF HoldAllowed /\ "MOTION_CANCEL" \in rtExec /\ state # "JOG"
        THEN s \cup {"MOTION_CANCEL"} ELSE s

StateAfterFeedHold ==
    IF /\ HoldAllowed /\ "FEED_HOLD" \in rtExec
       /\ state \notin {"SAFETY_DOOR", "JOG", "SLEEP"}
    THEN "HOLD" ELSE state

\* The safety-door part: <<state, suspend>> it leaves, lines 299-324.
AfterDoor ==
    LET s == SuspendAfterCancel
        st == StateAfterFeedHold
        reopened == st = "SAFETY_DOOR" /\ "INITIATE_RESTORE" \in s
        restart == (s \ {"RETRACT_COMPLETE", "INITIATE_RESTORE", "RESTORE_COMPLETE"})
                      \cup {"RESTART_RETRACT"}
    IN  IF ~HoldAllowed \/ "SAFETY_DOOR" \notin rtExec THEN <<st, s>>
        ELSE IF "JOG_CANCEL" \in s THEN <<st, s \cup {"SAFETY_DOOR_AJAR"}>>
        ELSE <<IF st = "SLEEP" THEN st ELSE "SAFETY_DOOR",
               (IF reopened THEN restart ELSE s) \cup {"SAFETY_DOOR_AJAR"}>>

\* Mutant: the hold part clears the cycle-stop flag as well.
ClearedWithCycleStop == HoldFlags \cup {"CYCLE_STOP"}

\* Flags that arrived after the copy are wiped along with it.
ClearedByHold == HoldFlags

RtHold ==
    /\ pc = "rt.hold" /\ pc' = "rt.start"
    /\ IF rtExec \cap HoldFlags = {}
       THEN UNCHANGED <<state, suspend, stepControl, rtState>>
       ELSE /\ stepControl' = IF HoldBrakes THEN {"EXECUTE_HOLD"} ELSE stepControl
            /\ state' = IF "SLEEP" \in rtExec THEN "SLEEP" ELSE AfterDoor[1]
            /\ suspend' = IF "SLEEP" \in rtExec /\ AfterDoor[1] = "ALARM"
                          THEN AfterDoor[2] \cup {"RETRACT_COMPLETE", "HOLD_COMPLETE"}
                          ELSE AfterDoor[2]
            /\ rtState' = rtState \ ClearedByHold
    /\ UNCHANGED <<rtAlarm, rtSpindle, startBy, abort, softLimit, spindleStop,
                   modalSpindle, motVars, callVars, envVars, execVars>>

\* Mutant: the block on a simultaneous hold command is dropped.
StartAlwaysAllowed == TRUE

\* A hold flag in the same copy blocks the start.
StartAllowed == rtExec \cap {"FEED_HOLD", "MOTION_CANCEL", "SAFETY_DOOR"} = {}

\* <<state, suspend>> once a closed door has been taken into account.
AfterDoorResume ==
    IF state = "SAFETY_DOOR" /\ "SAFETY_DOOR_AJAR" \notin suspend
    THEN IF "RESTORE_COMPLETE" \in suspend THEN <<"IDLE", suspend>>
         ELSE IF "RETRACT_COMPLETE" \in suspend
              THEN <<state, suspend \cup {"INITIATE_RESTORE"}>>
              ELSE <<state, suspend>>
    ELSE <<state, suspend>>

\* Mutant: a hold resumes before its deceleration is complete.
ResumableEarly(st, s) == st \in {"IDLE", "HOLD"}

Resumable(st, s) == st = "IDLE" \/ (st = "HOLD" /\ "HOLD_COMPLETE" \in s)

\* EXEC_CYCLE_START has been dealt with.
ClearStart ==
    /\ rtState' = rtState \ {"CYCLE_START"} /\ startBy' = {}
    /\ pc' = "rt.stop"

RtStartNone ==
    /\ pc = "rt.start" /\ "CYCLE_START" \notin rtExec
    /\ pc' = "rt.stop"
    /\ UNCHANGED <<rtVars, sysVars, motVars, callVars, envVars, execVars>>

RtStartIgnored ==
    /\ pc = "rt.start" /\ "CYCLE_START" \in rtExec
    /\ \/ ~StartAllowed /\ UNCHANGED <<state, suspend>>
       \/ /\ StartAllowed /\ ~Resumable(AfterDoorResume[1], AfterDoorResume[2])
          /\ state' = AfterDoorResume[1] /\ suspend' = AfterDoorResume[2]
    /\ ClearStart
    /\ UNCHANGED <<rtAlarm, rtSpindle, stepControl, abort, softLimit, spindleStop,
                   modalSpindle, motVars, callVars, envVars, execVars>>

\* The spindle is restored first; the suspend loop then restarts the cycle.
RtStartSpindle ==
    /\ pc = "rt.start" /\ "CYCLE_START" \in rtExec /\ StartAllowed
    /\ state = "HOLD" /\ Resumable(state, suspend) /\ spindleStop # {}
    /\ spindleStop' = spindleStop \cup {"RESTORE_CYCLE"}
    /\ ClearStart
    /\ UNCHANGED <<rtAlarm, rtSpindle, state, suspend, stepControl, abort,
                   softLimit, modalSpindle, motVars, callVars, envVars, execVars>>

StartsCycle ==
    /\ pc = "rt.start" /\ "CYCLE_START" \in rtExec /\ StartAllowed
    /\ Resumable(AfterDoorResume[1], AfterDoorResume[2])
    /\ ~(AfterDoorResume[1] = "HOLD" /\ spindleStop # {})

\* The cycle runs: state first, then the interrupt is enabled (RtWake).
RtStartCycle ==
    /\ StartsCycle /\ blocks # <<>> /\ "MOTION_CANCEL" \notin suspend
    /\ suspend' = {} /\ state' = "CYCLE"
    /\ PrepBuffer(blocks, {})
    /\ pc' = "rt.wake"
    /\ UNCHANGED <<rtVars, abort, softLimit, spindleStop, modalSpindle, running,
                   probing, posLost, callVars, envVars, execVars>>

\* st_wake_up(), then the flag is cleared.
RtWake ==
    /\ pc = "rt.wake"
    /\ running' = TRUE
    /\ ClearStart
    /\ UNCHANGED <<rtAlarm, rtSpindle, sysVars, queue, segs, probing, posLost,
                   callVars, envVars, execVars>>

RtStartIdle ==
    /\ StartsCycle /\ (blocks = <<>> \/ "MOTION_CANCEL" \in suspend)
    /\ suspend' = {} /\ state' = "IDLE" /\ stepControl' = {}
    /\ ClearStart
    /\ UNCHANGED <<rtAlarm, rtSpindle, abort, softLimit, spindleStop, modalSpindle,
                   motVars, callVars, envVars, execVars>>

\* A hold has come to its end and waits for the user.
HoldsOn ==
    /\ state \in {"HOLD", "SAFETY_DOOR", "SLEEP"} /\ ~softLimit
    /\ "JOG_CANCEL" \notin suspend

\* The copy has served; the overrides come next.
AfterStop == pc' = "rt.acc" /\ rtExec' = {} /\ execBy' = {}

RtStopNone ==
    /\ pc = "rt.stop" /\ "CYCLE_STOP" \notin rtExec
    /\ AfterStop
    /\ UNCHANGED <<rtVars, sysVars, motVars, callVars, envVars>>

RtStopHold ==
    /\ pc = "rt.stop" /\ "CYCLE_STOP" \in rtExec /\ HoldsOn
    /\ suspend' = IF "EXECUTE_HOLD" \in stepControl
                  THEN suspend \cup {"HOLD_COMPLETE"} ELSE suspend
    /\ stepControl' = stepControl \ {"EXECUTE_HOLD"}
    /\ rtState' = rtState \ {"CYCLE_STOP"} /\ AfterStop
    /\ UNCHANGED <<rtAlarm, rtSpindle, startBy, state, abort, softLimit,
                   spindleStop, modalSpindle, motVars, callVars, envVars>>

\* Motion complete; a cancelled jog flushes the planner and the steppers.
RtStopDone ==
    /\ pc = "rt.stop" /\ "CYCLE_STOP" \in rtExec /\ ~HoldsOn
    /\ IF "JOG_CANCEL" \in suspend
       THEN stepControl' = {} /\ blocks' = <<>> /\ partial' = FALSE /\ segs' = 0 /\ StopSteppers
       ELSE UNCHANGED <<stepControl, queue, segs, running, posLost>>
    /\ IF "SAFETY_DOOR_AJAR" \in suspend
       THEN /\ suspend' = (suspend \ {"JOG_CANCEL"}) \cup {"HOLD_COMPLETE"}
            /\ state' = "SAFETY_DOOR"
       ELSE suspend' = {} /\ state' = "IDLE"
    /\ rtState' = rtState \ {"CYCLE_STOP"} /\ AfterStop
    /\ UNCHANGED <<rtAlarm, rtSpindle, startBy, abort, softLimit, spindleStop,
                   modalSpindle, probing, callVars, envVars>>

\* The spindle-stop override toggles only in HOLD.
RtAccessory ==
    /\ pc = "rt.acc" /\ pc' = "rt.prep"
    /\ rtSpindle' = FALSE
    /\ spindleStop' = IF ~rtSpindle \/ state # "HOLD" THEN spindleStop
                      ELSE IF spindleStop = {} THEN {"INITIATE"}
                      ELSE IF "ENABLED" \in spindleStop
                           THEN spindleStop \cup {"RESTORE"} ELSE spindleStop
    /\ UNCHANGED <<rtState, rtAlarm, startBy, state, suspend, stepControl, abort,
                   softLimit, modalSpindle, motVars, callVars, envVars, execVars>>

RtPrep ==
    /\ pc = "rt.prep"
    /\ IF state \in {"CYCLE", "HOLD", "SAFETY_DOOR", "SLEEP", "JOG"}
       THEN PrepBuffer(blocks, stepControl)
       ELSE UNCHANGED <<queue, segs, stepControl>>
    /\ RtReturn(suspend)
    /\ UNCHANGED <<rtVars, state, suspend, abort, softLimit, spindleStop,
                   modalSpindle, running, probing, posLost, callVars, envVars,
                   execVars>>

ExecRtSystem ==
    \/ RtAlarm \/ RtCritical \/ RtCopy \/ RtHold
    \/ RtStartNone \/ RtStartIgnored \/ RtStartSpindle \/ RtStartCycle
    \/ RtWake \/ RtStartIdle
    \/ RtStopNone \/ RtStopHold \/ RtStopDone \/ RtAccessory \/ RtPrep

-----------------------------------------------------------------------------
(* protocol_exec_rt_suspend(), built without PARKING_ENABLE.  One pass of    *)
(* its loop, then protocol_exec_rt_system() again.                           *)

PollInSuspend(s) == pc' = "rt.alarm" /\ sub' = s /\ UNCHANGED ret

SuspendOver ==
    /\ pc = "suspend" /\ (suspend = {} \/ abort)
    /\ pc' = ret /\ sub' = "exec"
    /\ UNCHANGED <<rtVars, sysVars, motVars, ret, line, envVars, execVars>>

InSuspend == pc = "suspend" /\ suspend # {} /\ ~abort

SuspendWait ==
    /\ InSuspend /\ "HOLD_COMPLETE" \notin suspend
    /\ PollInSuspend("suspend")
    /\ UNCHANGED <<rtVars, sysVars, motVars, line, envVars, execVars>>

\* Door or sleep: spindle and coolant are de-energized once the hold is complete.
SuspendRetract ==
    /\ InSuspend /\ "HOLD_COMPLETE" \in suspend
    /\ state \in {"SAFETY_DOOR", "SLEEP"} /\ "RETRACT_COMPLETE" \notin suspend
    /\ spindleStop' = {}
    /\ suspend' = (suspend \ {"RESTART_RETRACT"}) \cup {"RETRACT_COMPLETE"}
    /\ PollInSuspend("suspend")
    /\ UNCHANGED <<rtVars, state, stepControl, abort, softLimit, modalSpindle,
                   motVars, line, envVars, execVars>>

Retracted == InSuspend /\ {"HOLD_COMPLETE", "RETRACT_COMPLETE"} \subseteq suspend

\* st_go_idle(), then nothing but polling until a reset.
SuspendSleep ==
    /\ Retracted /\ state = "SLEEP"
    /\ StopSteppers
    /\ pc' = "sleeping"
    /\ UNCHANGED <<rtVars, sysVars, queue, segs, probing, callVars, envVars, execVars>>

Sleeping ==
    /\ pc = "sleeping"
    /\ IF abort THEN pc' = ret /\ sub' = "exec" /\ UNCHANGED ret
       ELSE PollInSuspend("sleeping")
    /\ UNCHANGED <<rtVars, sysVars, motVars, line, envVars, execVars>>

\* No door switch is built in: the door counts as closed again.
SuspendDoor ==
    /\ Retracted /\ state = "SAFETY_DOOR" /\ "INITIATE_RESTORE" \notin suspend
    /\ suspend' = suspend \ {"SAFETY_DOOR_AJAR"}
    /\ PollInSuspend("suspend")
    /\ UNCHANGED <<rtVars, state, stepControl, abort, softLimit, spindleStop,
                   modalSpindle, motVars, line, envVars, execVars>>

(* The restore is complete and asks for a cycle start by itself: for the     *)
(* operator whose resume it carries out, unless that suspension is over and  *)
(* the flag finds another one.                                               *)
FinishRestore(s) ==
    /\ suspend' = s \cup {"RESTORE_COMPLETE"}
    /\ RaiseCycleStart(IF "INITIATE_RESTORE" \in s THEN "user" ELSE "restore", TRUE)

\* Nothing to switch on again: the restore takes no time.
RestoreNow ==
    /\ Retracted /\ state = "SAFETY_DOOR" /\ "INITIATE_RESTORE" \in suspend
    /\ ~modalSpindle
    /\ FinishRestore(suspend \ {"SAFETY_DOOR_AJAR"})
    /\ PollInSuspend("suspend")
    /\ UNCHANGED <<rtAlarm, rtSpindle, state, stepControl, abort, softLimit,
                   spindleStop, modalSpindle, motVars, line, envVars, execVars>>

\* delay_sec(.., DELAY_MODE_SYS_SUSPEND): the first poll of the delay.
RestoreDelay ==
    /\ Retracted /\ state = "SAFETY_DOOR" /\ "INITIATE_RESTORE" \in suspend
    /\ modalSpindle
    /\ suspend' = suspend \ {"SAFETY_DOOR_AJAR"}
    /\ PollInSuspend("restored")
    /\ UNCHANGED <<rtVars, state, stepControl, abort, softLimit, spindleStop,
                   modalSpindle, motVars, line, envVars, execVars>>

\* The delay goes on, one poll per DWELL_TIME_STEP, unless aborted or re-opened.
RestoreDelayStep ==
    /\ pc = "restored" /\ ~abort /\ "RESTART_RETRACT" \notin suspend
    /\ PollInSuspend("restored")
    /\ UNCHANGED <<rtVars, sysVars, motVars, line, envVars, execVars>>

\* After the delay, whatever its polls have done meanwhile: the restore is
\* complete unless the door re-opened.
RestoreAfterDelay ==
    /\ pc = "restored"
    /\ IF "RESTART_RETRACT" \in suspend THEN UNCHANGED <<suspend, rtState, startBy>>
       ELSE FinishRestore(suspend)
    /\ PollInSuspend("suspend")
    /\ UNCHANGED <<rtAlarm, rtSpindle, state, stepControl, abort, softLimit,
                   spindleStop, modalSpindle, motVars, line, envVars, execVars>>

\* Feed hold: the spindle-stop override is carried out.
SuspendHold ==
    /\ InSuspend /\ "HOLD_COMPLETE" \in suspend
    /\ state \notin {"SAFETY_DOOR", "SLEEP"}
    /\ IF "INITIATE" \in spindleStop
       THEN /\ spindleStop' = IF modalSpindle THEN {"ENABLED"} ELSE {}
            /\ UNCHANGED <<rtState, startBy>>
       ELSE IF spindleStop \cap {"RESTORE", "RESTORE_CYCLE"} # {}
       THEN /\ spindleStop' = {}
            /\ RaiseCycleStart("user", "RESTORE_CYCLE" \in spindleStop)
       ELSE UNCHANGED <<spindleStop, rtState, startBy>>
    /\ PollInSuspend("suspend")
    /\ UNCHANGED <<rtAlarm, rtSpindle, state, suspend, stepControl, abort,
                   softLimit, modalSpindle, motVars, line, envVars, execVars>>

ExecRtSuspend ==
    \/ SuspendOver \/ SuspendWait \/ SuspendRetract \/ SuspendSleep \/ Sleeping
    \/ SuspendDoor \/ RestoreNow \/ RestoreDelay \/ RestoreDelayStep
    \/ RestoreAfterDelay \/ SuspendHold

-----------------------------------------------------------------------------
(* protocol_main_loop() and the commands it executes.                        *)

\* A line end was read: check point, then the line (Eol*).
ReadLine ==
    /\ pc = "lines" /\ lines > 0
    /\ lines' = lines - 1
    /\ \E l \in LineKinds : line' = l
    /\ ExecuteRealtime("eol")
    /\ UNCHANGED <<rtVars, sysVars, motVars, cmds, execVars>>

\* Nothing to read: auto-start the queue and poll.
NothingToRead ==
    /\ pc = "lines"
    /\ AutoCycleStart
    /\ ExecuteRealtime("poll")
    /\ UNCHANGED <<rtAlarm, rtSpindle, sysVars, motVars, line, envVars, execVars>>

Poll ==
    /\ pc = "poll"
    /\ IF abort THEN pc' = "reinit" /\ UNCHANGED callVars ELSE ToMainLoop
    /\ UNCHANGED <<rtVars, sysVars, motVars, envVars, execVars>>

EolAbort ==
    /\ pc = "eol" /\ abort
    /\ pc' = "reinit"
    /\ UNCHANGED <<rtVars, sysVars, motVars, callVars, envVars, execVars>>

GcodeLines == {"move", "outside", "sync", "probe"}

\* The line is answered with an error, or has nothing to do here.
LineRefused ==
    \/ line \in GcodeLines /\ state \in {"ALARM", "JOG"}
    \/ line \in {"move", "sync", "probe"} /\ state = "CHECK_MODE"
    \/ line = "jog" /\ state \notin {"IDLE", "JOG"}
    \/ line = "$SLP" /\ state \notin {"IDLE", "ALARM"}
    \/ line = "$X" /\ state # "ALARM"
    \/ line = "$C" /\ state \notin {"IDLE", "CHECK_MODE"}

EolRefuse ==
    /\ pc = "eol" /\ ~abort /\ LineRefused
    /\ ToMainLoop
    /\ UNCHANGED <<rtVars, sysVars, motVars, envVars, execVars>>

Accept(kinds) == pc = "eol" /\ ~abort /\ ~LineRefused /\ line \in kinds

\* "$X" acknowledges the alarm, "$C" enters check mode.
EolSystem ==
    /\ Accept({"$X", "$C"}) /\ state # "CHECK_MODE"
    /\ state' = IF line = "$X" THEN "IDLE" ELSE "CHECK_MODE"
    /\ posLost' = (posLost /\ line # "$X")
    /\ ToMainLoop
    /\ UNCHANGED <<rtVars, suspend, stepControl, abort, softLimit, spindleStop,
                   modalSpindle, queue, segs, running, probing, envVars, execVars>>

\* "$C" leaves check mode through mc_reset().
EolCheckOff ==
    /\ Accept({"$C"}) /\ state = "CHECK_MODE"
    /\ McReset("none")
    /\ ToMainLoop
    /\ UNCHANGED <<rtSpindle, startBy, sysVars, queue, segs, probing, envVars, execVars>>

EolSleep ==
    /\ Accept({"$SLP"})
    /\ rtState' = rtState \cup {"SLEEP"}
    /\ ToMainLoop
    /\ UNCHANGED <<rtAlarm, rtSpindle, startBy, sysVars, motVars, envVars, execVars>>

EolMotion ==
    /\ Accept({"move", "jog"})
    /\ ExecuteRealtime("mcline")
    /\ UNCHANGED <<rtVars, sysVars, motVars, line, envVars, execVars>>

\* protocol_buffer_synchronize(), on its own or before a probe.
EolSync ==
    /\ Accept({"sync", "probe"})
    /\ AutoCycleStart
    /\ ExecuteRealtime("sync")
    /\ UNCHANGED <<rtAlarm, rtSpindle, sysVars, motVars, line, envVars, execVars>>

\* limits_soft_check() on a target outside the travel.
SoftTrip ==
    /\ McReset("SOFT_LIMIT")
    /\ ExecuteRealtime("softEnd")

EolOutside ==
    /\ Accept({"outside"})
    /\ softLimit' = TRUE
    /\ IF state = "CYCLE"
       THEN /\ rtState' = rtState \cup {"FEED_HOLD"}
            /\ ExecuteRealtime("soft")
            /\ UNCHANGED <<rtAlarm, running, posLost>>
       ELSE SoftTrip
    /\ UNCHANGED <<rtSpindle, startBy, state, suspend, stepControl, abort,
                   spindleStop, modalSpindle, queue, segs, probing, line,
                   envVars, execVars>>

SoftWait ==
    /\ pc = "soft"
    /\ IF abort THEN ExecuteRealtime("mcline") /\ UNCHANGED <<rtState, rtAlarm, running, posLost>>
       ELSE IF state # "IDLE"
       THEN ExecuteRealtime("soft") /\ UNCHANGED <<rtState, rtAlarm, running, posLost>>
       ELSE SoftTrip
    /\ UNCHANGED <<rtSpindle, startBy, sysVars, queue, segs, probing, line,
                   envVars, execVars>>

\* The check returns into mc_line(), whose own check point sees the abort.
SoftEnd ==
    /\ pc = "softEnd"
    /\ ExecuteRealtime("mcline")
    /\ UNCHANGED <<rtVars, sysVars, motVars, line, envVars, execVars>>

\* mc_line() after its check point: aborted, waiting for room, or queueing.
McLineAbort ==
    /\ pc = "mcline" /\ abort /\ line # "probe"
    /\ line = "jog" => state # "IDLE" \/ blocks = <<>>
    /\ ToMainLoop
    /\ UNCHANGED <<rtVars, sysVars, motVars, envVars, execVars>>

McLineFull ==
    /\ pc = "mcline" /\ ~abort /\ BufferFull
    /\ AutoCycleStart
    /\ ExecuteRealtime("mcline")
    /\ UNCHANGED <<rtAlarm, rtSpindle, sysVars, motVars, line, envVars, execVars>>

McLineQueue ==
    /\ pc = "mcline" /\ ~abort /\ ~BufferFull /\ line \in {"move", "outside"}
    /\ blocks' = Append(blocks, "move")
    /\ ToMainLoop
    /\ UNCHANGED <<rtVars, sysVars, partial, segs, running, probing, posLost,
                   envVars, execVars>>

\* jog_execute() after mc_line(), which has made the queue q: in IDLE the jog
\* starts at once, without the state machine.
JogExecute(q) ==
    IF state = "IDLE"
    THEN /\ state' = "JOG" /\ pc' = "jogWake"
         /\ PrepBuffer(q, stepControl) /\ UNCHANGED callVars
    ELSE /\ blocks' = q /\ ToMainLoop
         /\ UNCHANGED <<state, partial, segs, stepControl>>

McLineJog ==
    /\ pc = "mcline" /\ line = "jog"
    /\ \/ ~abort /\ ~BufferFull /\ JogExecute(Append(blocks, "jog"))
       \/ abort /\ state = "IDLE" /\ blocks # <<>> /\ JogExecute(blocks)
    /\ UNCHANGED <<rtVars, suspend, abort, softLimit, spindleStop, modalSpindle,
                   running, probing, posLost, envVars, execVars>>

\* The end of st_wake_up().
JogWake ==
    /\ pc = "jogWake"
    /\ running' = TRUE /\ ToMainLoop
    /\ UNCHANGED <<rtVars, sysVars, queue, segs, probing, posLost, envVars, execVars>>

SyncWait ==
    /\ pc = "sync"
    /\ \/ abort /\ ToMainLoop
       \/ ~abort /\ (blocks # <<>> \/ state = "CYCLE")
          /\ ExecuteRealtime("sync") /\ UNCHANGED line
       \/ ~abort /\ blocks = <<>> /\ state # "CYCLE" /\ line = "sync" /\ ToMainLoop
       \/ ~abort /\ blocks = <<>> /\ state # "CYCLE" /\ line = "probe"
          /\ ExecuteRealtime("mcline") /\ UNCHANGED line
    /\ UNCHANGED <<rtVars, sysVars, motVars, envVars, execVars>>

\* mc_probe_cycle(): mc_line() came back, aborted or not; the monitor is armed
\* and the cycle started.
ProbeStart ==
    /\ pc = "mcline" /\ line = "probe" /\ (abort \/ ~BufferFull)
    /\ blocks' = IF abort THEN blocks ELSE Append(blocks, "probe")
    /\ probing' = TRUE
    /\ RaiseCycleStart("main", TRUE)
    /\ ExecuteRealtime("probeWait")
    /\ UNCHANGED <<rtAlarm, rtSpindle, sysVars, partial, segs, running, posLost,
                   line, envVars, execVars>>

\* Mutant: the wait for the probe motion does not look at sys.abort.
ProbeWaitDeaf ==
    /\ pc = "probeWait" /\ (abort \/ state # "IDLE")
    /\ ExecuteRealtime("probeWait")
    /\ UNCHANGED <<rtVars, sysVars, motVars, line, envVars, execVars>>

ProbeWait ==
    /\ pc = "probeWait" /\ (abort \/ state # "IDLE")
    /\ IF abort THEN ToMainLoop ELSE ExecuteRealtime("probeWait") /\ UNCHANGED line
    /\ UNCHANGED <<rtVars, sysVars, motVars, envVars, execVars>>

\* Mutant: the probe state monitor is left on.
ProbeOverMonitoring ==
    /\ pc = "probeWait" /\ ~abort /\ state = "IDLE"
    /\ ExecuteRealtime("probeEnd")
    /\ UNCHANGED <<rtVars, sysVars, motVars, line, envVars, execVars>>

\* The target is reached without contact: an alarm, unless the line was a G38.3
\* or G38.5.
ProbeOver ==
    /\ pc = "probeWait" /\ ~abort /\ state = "IDLE"
    /\ \/ probing /\ rtAlarm' = "PROBE_FAIL_CONTACT"
       \/ UNCHANGED rtAlarm
    /\ probing' = FALSE
    /\ ExecuteRealtime("probeEnd")
    /\ UNCHANGED <<rtState, rtSpindle, startBy, sysVars, queue, segs, running,
                   posLost, line, envVars, execVars>>

\* st_reset(), plan_reset(): the rest of the probe motion is dropped.
ProbeEnd ==
    /\ pc = "probeEnd"
    /\ blocks' = <<>> /\ partial' = FALSE /\ segs' = 0 /\ StopSteppers
    /\ ToMainLoop
    /\ UNCHANGED <<rtVars, sysVars, probing, envVars, execVars>>

\* grblMain(), lines 75-86: sys and the realtime flags are cleared.
Reinit ==
    /\ pc = "reinit" /\ pc' = "restart"
    /\ rtState' = {} /\ rtAlarm' = "none" /\ rtSpindle' = FALSE /\ startBy' = {}
    /\ suspend' = {} /\ stepControl' = {} /\ abort' = FALSE /\ softLimit' = FALSE
    /\ spindleStop' = {} /\ probing' = FALSE
    /\ UNCHANGED <<state, modalSpindle, queue, segs, running, posLost, callVars,
                   envVars, execVars>>

\* grblMain(), lines 88-105, and the start of protocol_main_loop(): a limit
\* switch may be found closed.  line says nothing until the next line is read.
Restart ==
    /\ pc = "restart" /\ ToMainLoop
    /\ blocks' = <<>> /\ partial' = FALSE /\ segs' = 0 /\ StopSteppers
    /\ \E atLimit \in BOOLEAN :
         state' = IF atLimit \/ state \in {"ALARM", "SLEEP"} THEN "ALARM" ELSE "IDLE"
    /\ UNCHANGED <<rtVars, suspend, stepControl, abort, softLimit, spindleStop,
                   modalSpindle, probing, envVars, execVars>>

MainLoop ==
    \/ ReadLine \/ NothingToRead \/ Poll
    \/ EolAbort \/ EolRefuse \/ EolSystem \/ EolCheckOff \/ EolSleep
    \/ EolMotion \/ EolSync \/ EolOutside
    \/ SoftWait \/ SoftEnd
    \/ McLineAbort \/ McLineFull \/ McLineQueue \/ McLineJog \/ JogWake
    \/ SyncWait \/ ProbeStart \/ ProbeWait \/ ProbeOver \/ ProbeEnd
    \/ Reinit \/ Restart

-----------------------------------------------------------------------------
(* Interrupts.  A critical alarm never locks the user's reset out.           *)

Budget(c) ==
    \/ cmds > 0 /\ cmds' = cmds - 1
    \/ cmds = 0 /\ c = "RESET" /\ pc = "rt.critical" /\ UNCHANGED cmds

\* serial_check_real_time_command(): a flag character.
FlagCommand(c) ==
    /\ c \in {"FEED_HOLD", "SAFETY_DOOR"} /\ rtState' = rtState \cup {c}
    /\ UNCHANGED <<rtAlarm, rtSpindle, startBy, motVars>>

CycleStartCommand ==
    /\ RaiseCycleStart("user", TRUE)
    /\ UNCHANGED <<rtAlarm, rtSpindle, motVars>>

\* 0x85 counts only if sys.state is JOG at the interrupt.
JogCancelCommand ==
    /\ state = "JOG" /\ rtState' = rtState \cup {"MOTION_CANCEL"}
    /\ UNCHANGED <<rtAlarm, rtSpindle, startBy, motVars>>

SpindleStopCommand ==
    /\ rtSpindle' = TRUE
    /\ UNCHANGED <<rtState, rtAlarm, startBy, motVars>>

ResetCommand ==
    /\ McReset("none")
    /\ UNCHANGED <<rtSpindle, startBy, queue, segs, probing>>

\* The debounced limit switch: limitSwitchDebounceCallback().
HardLimit ==
    /\ state # "ALARM" /\ rtAlarm = "none"
    /\ McReset("HARD_LIMIT")
    /\ UNCHANGED <<rtSpindle, startBy, queue, segs, probing>>

Command(c) ==
    /\ Budget(c)
    /\ \/ FlagCommand(c)
       \/ c = "CYCLE_START" /\ CycleStartCommand
       \/ c = "JOG_CANCEL" /\ JogCancelCommand
       \/ c = "SPINDLE_STOP" /\ SpindleStopCommand
       \/ c = "RESET" /\ ResetCommand
       \/ c = "HARD_LIMIT" /\ HardLimit
    /\ UNCHANGED <<sysVars, pc, callVars, lines, execVars>>

\* TIMER1_COMPA_vect: a segment is executed to its end.
StepperSegment ==
    /\ TimerWired /\ running /\ segs > 0
    /\ segs' = segs - 1
    /\ UNCHANGED <<rtVars, sysVars, queue, running, probing, posLost, pc,
                   callVars, envVars, execVars>>

\* Mutant: the end of the motion is not flagged.
StepperDoneSilently ==
    /\ TimerWired /\ running /\ segs = 0
    /\ running' = FALSE
    /\ UNCHANGED <<rtVars, sysVars, queue, segs, probing, posLost, pc, callVars,
                   envVars, execVars>>

\* Nothing left to execute: st_go_idle() and EXEC_CYCLE_STOP.
StepperDone ==
    /\ TimerWired /\ running /\ segs = 0
    /\ running' = FALSE /\ rtState' = rtState \cup {"CYCLE_STOP"}
    /\ UNCHANGED <<rtAlarm, rtSpindle, startBy, sysVars, queue, segs, probing,
                   posLost, pc, callVars, envVars, execVars>>

Main    == ExecRtSystem \/ ExecRtSuspend \/ MainLoop
Stepper == StepperSegment \/ StepperDone

Next ==
    \/ Main \/ Stepper
    \/ \E c \in Commands : Command(c)

Spec == Init /\ [][Next]_vars

\* The main thread is never blocked for good (its sleeps end), and an enabled
\* timer interrupt fires; nobody has to press a key.
FairSpec == Spec /\ WF_vars(Main) /\ WF_vars(Stepper)

-----------------------------------------------------------------------------
(* Properties the code has.                                                  *)

Reinitialising == abort \/ "RESET" \in rtState \/ pc \in {"reinit", "restart"}

\* A cycle or jog whose steppers have stopped still has its EXEC_CYCLE_STOP to
\* come, or a reset: whatever flags are raised and cleared meanwhile, the
\* machine is never left in RUN or JOG with no event that could end it.
CycleStopIsPending ==
    state \in {"CYCLE", "JOG"} /\ ~running /\ pc \notin {"rt.wake", "jogWake"} =>
        "CYCLE_STOP" \in rtState \/ Reinitialising

\* Hold:0, Door:0 and Door:1 tell the operator that it is safe to reach in: once
\* SUSPEND_HOLD_COMPLETE is set the steppers stand still, whatever arrives next.
CompletedHoldStandsStill ==
    "HOLD_COMPLETE" \in suspend => ~running \/ abort

\* A machine on hold, with the door open or with the spindle stopped is resumed.
Resumes ==
    \/ state \in {"HOLD", "SAFETY_DOOR"} /\ state' = "CYCLE"
    \/ "INITIATE_RESTORE" \in suspend' \ suspend
    \/ "RESTORE_CYCLE" \in spindleStop' \ spindleStop

\* "Ensures auto-cycle-start doesn't resume a hold without an explicit user-input"
\* (protocol.c:340): the start that the main program raises by itself, for what
\* is queued or for a probe, never resumes, whenever and with whatever it is
\* served.  The start at the end of a restore is another matter: HoldNeedsUser.
AutoStartNeverResumes == [][Resumes => execBy \cap {"user", "restore"} # {}]_vars

\* The states an operator sees follow each other as MachineStates says, and the
\* steppers start, run and stop only in the states it allows.
Machine == INSTANCE MachineStates WITH moving <- running
ImplementsMachineStates == Machine!Spec

\* A critical alarm has the main thread wait for the operator's reset.
WaitsForReset == pc = "rt.critical"

\* A soft reset is carried out, in whatever wait loop it finds the main thread:
\* full planner, synchronize, probe, soft limit, hold, door, restore delay, sleep.
\* Only a critical alarm throws it away, and then waits for the next.
ResetIsExecuted ==
    "RESET" \in rtState ~> pc = "restart" \/ (WaitsForReset /\ "RESET" \notin rtState)

\* Every cycle and every jog comes to an end, or is killed at speed: by a reset, or
\* by the st_reset() of a probing cycle that a cycle start has overtaken, which
\* leaves the machine in CYCLE for good.
MotionEnds == state \in {"CYCLE", "JOG"} ~> state \notin {"CYCLE", "JOG"} \/ posLost

\* A probing cycle comes to an end, or is held by the operator or by a critical
\* alarm.
ProbeEnds == probing ~> ~probing \/ state \in {"HOLD", "SAFETY_DOOR"} \/ WaitsForReset

\* A suspension reaches SUSPEND_HOLD_COMPLETE, which resume and the accessories
\* wait for, or is lifted; but for a critical alarm, and for a motion killed at
\* speed, as above.
SuspensionCompletes ==
    suspend # {} ~>
        "HOLD_COMPLETE" \in suspend \/ suspend = {} \/ WaitsForReset \/ posLost

-----------------------------------------------------------------------------
(* Properties the documents claim and the code does not have.                *)

\* "If reset while in motion, Grbl will throw an alarm to indicate position may
\* be lost from the motion halt" (commands.md): back in the main loop after a
\* kill at speed, the machine is locked.
LostPositionIsAlarmed ==
    posLost /\ pc = "lines" => state = "ALARM" \/ rtAlarm # "none" \/ "RESET" \in rtState

\* "All g-code commands ... are blocked until the alarm state is cancelled via
\* homing $H or unlocking $X" (interface.md): nothing else opens the lock.
AlarmNeedsUnlock ==
    [][state = "ALARM" /\ state' = "IDLE" => pc = "eol" /\ line = "$X"]_vars

\* A jog cancel is "ignored, if not in a JOG state" and after it "Grbl will
\* return to the IDLE state" (commands.md): never idle and suspended.
IdleNotSuspended == pc = "suspend" => state # "IDLE"

\* "Remain in HOLD or DOOR states until user has issued a resume command or
\* reset." (protocol.c:385): a resume is the operator's, or carries out his.
HoldNeedsUser == [][Resumes => "user" \in execBy]_vars

\* "G-code motion target exceeds machine travel. Machine position safely
\* retained." (interface.md): the soft-limit alarm never kills motion at speed.
SoftLimitKeepsPosition == rtAlarm = "SOFT_LIMIT" => ~posLost
=============================================================================
