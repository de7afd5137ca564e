------------------------------- MODULE Limits -------------------------------
(***************************************************************************)
(* The homing cycle ($H): limits_go_home() for X and then for Y, between   *)
(* mc_homing_cycle() and grblMain(), with the step interrupt that moves    *)
(* the motors and the interrupts that reset the machine or report its      *)
(* door open.  The switches have pins of their own, as edge_switch_pins of *)
(* the board's devicetree, with one switch at each end of an axis.         *)
(*                                                                         *)
(* The machine is a CoreXY: a step of motor A moves the carriage by half a *)
(* step in X and in Y, one of motor B by half a step in X and back in Y.   *)
(* The carriage is where it is in half steps; sys_position counts steps of *)
(* the motors, whether or not they turn.  Homing goes towards the low end  *)
(* (homing_dir_mask 3).                                                    *)
(***************************************************************************)
EXTENDS Integers

CONSTANTS
    Top,            \* the carriage's way between the ends of the frame, in half steps
    Low, High,      \* where the switches of an axis close, in half steps
    Travel,         \* -max_travel, in steps
    Search,         \* Travel * HOMING_AXIS_SEARCH_SCALAR
    PullOff,        \* homing_pulloff, in steps
    LocateScalar,   \* HOMING_AXIS_LOCATE_SCALAR
    SeekLag,        \* steps that come between two polls at seek rate, at most
    FeedLag,        \* the same at feed rate
    MaxEvents       \* bound on resets and door events

VARIABLES
    driven,     \* motors that have current
    at,         \* where the main thread is
    state,      \* sys.state
    flags,      \* sys_rt_exec_state
    alarm,      \* sys_rt_exec_alarm, "none" for 0
    axis,       \* the axis of cycle_mask
    pass,       \* passes of the loop that are done, 3 - n_cycle
    lock,       \* homing_axis_lock lets the motors turn
    running,    \* the step interrupt is enabled and has segments
    left,       \* steps left of the motion
    lag,        \* steps since the switches were polled
    position,   \* sys_position
    carriage,   \* where the carriage is
    callbacks,  \* the callbacks of the switches are registered
    initialized,\* limits_init()'s flag
    events      \* resets and door events so far

place == <<position, carriage>>
motion == <<lock, running, left, lag>>
switches == <<callbacks, initialized>>
homingVars == <<at, state, flags, alarm, axis, pass, motion, place, switches, events>>

-----------------------------------------------------------------------------
Axes == {"X", "Y"}
AB == {"A", "B"}
Other(a) == IF a = "X" THEN "Y" ELSE "X"

\* C's division rounds towards zero.
Half(n) == IF n < 0 THEN -((-n) \div 2) ELSE n \div 2

\* system_convert_corexy_to_x_axis_steps() and ..._y_axis_steps()
Steps(p, a) == IF a = "X" THEN Half(p.A + p.B) ELSE Half(p.A - p.B)

\* Mutant: the X and Y position taken for one another.
PlacedCrossed(p, a, n) ==
    LET off == Steps(p, a) IN
    IF a = "X" THEN [A |-> n + off, B |-> n - off] ELSE [A |-> off + n, B |-> off - n]

\* sys_position with axis a at n.
Placed(p, a, n) ==
    LET off == Steps(p, Other(a)) IN
    IF a = "X" THEN [A |-> n + off, B |-> n - off] ELSE [A |-> off + n, B |-> off - n]

\* limits_get_state(): one bit for the two switches of an axis.
Engaged(a) == carriage[a] <= Low \/ carriage[a] >= High

approach == pass % 2 = 0
Lag == IF pass = 2 THEN FeedLag ELSE SeekLag

\* max_travel of the pass.
Distance ==
    CASE pass = 0 -> Search
      [] pass = 2 -> PullOff * LocateScalar
      [] OTHER -> PullOff

HomePosition == PullOff - Travel

TypeOK ==
    /\ driven \subseteq AB
    /\ at \in {"off", "idle", "pass", "poll", "check", "stop", "set", "next", "end", "flags",
              "ajar", "suspended", "woken", "finish", "loop", "serve"}
    /\ state \in {"ALARM", "HOMING", "IDLE", "SAFETY_DOOR"}
    /\ flags \subseteq {"RESET", "SAFETY_DOOR", "CYCLE_STOP"}
    /\ alarm \in {"none", "HOMING_FAIL_RESET"}
    /\ axis \in Axes /\ pass \in 0 .. 3
    /\ left \in 0 .. Search + PullOff * LocateScalar
    /\ lag \in 0 .. SeekLag + FeedLag
    /\ position \in [AB -> Int] /\ carriage \in [Axes -> 0 .. Top]
    /\ {lock, running, callbacks, initialized} \subseteq BOOLEAN
    /\ events \in 0 .. MaxEvents

Init ==
    /\ at = "off" /\ state = "ALARM" /\ flags = {} /\ alarm = "none"
    /\ axis = "X" /\ pass = 0 /\ lock = FALSE /\ running = FALSE /\ left = 0 /\ lag = 0
    /\ position = [m \in AB |-> 0]
    /\ carriage \in [Axes -> {n \in 0 .. Top : n % 2 = 0}]
    /\ callbacks = FALSE /\ initialized = FALSE /\ events = 0

-----------------------------------------------------------------------------
\* limits_init() with hard limits enabled: only the first call does anything.
LimitsInit ==
    /\ callbacks' = (callbacks \/ ~initialized)
    /\ initialized' = TRUE

\* grblMain() up to the main loop: homing is enabled, so that the machine is locked.
Start ==
    /\ at = "off" /\ at' = "idle"
    /\ LimitsInit
    /\ UNCHANGED <<state, flags, alarm, axis, pass, motion, place, events>>

\* $H and mc_homing_cycle() up to limits_go_home(), limits_disable() included.
Home ==
    /\ at = "idle" /\ at' = "pass"
    /\ state \in {"IDLE", "ALARM"} /\ state' = "HOMING"
    /\ axis' = "X" /\ pass' = 0
    /\ callbacks' = FALSE
    /\ UNCHANGED <<flags, alarm, motion, place, initialized, events>>

\* The head of the loop: the axis is at 0, the motion is planned and started.
Pass ==
    /\ at = "pass" /\ at' = "poll"
    /\ position' = Placed(position, axis, 0)
    /\ left' = Distance /\ lock' = TRUE /\ running' = TRUE /\ lag' = 0
    /\ UNCHANGED <<state, flags, alarm, axis, pass, carriage, switches, events>>

\* The switches stop an approach.  For a CoreXY either axis stops both motors.
Poll ==
    /\ at = "poll" /\ at' = "check"
    /\ lock' = (lock /\ ~(approach /\ \E a \in Axes : Engaged(a)))
    /\ lag' = 0
    /\ UNCHANGED <<state, flags, alarm, axis, pass, running, left, place, switches, events>>

\* Mutant: the switch is not looked at after a pull-off.
FailedPullOffForgotten ==
    \/ flags \cap {"RESET", "SAFETY_DOOR"} # {}
    \/ approach /\ "CYCLE_STOP" \in flags
    \/ alarm # "none"

\* Mutant: the end of the motion is no reason to give up an approach.
FailedApproachForgotten ==
    \/ flags \cap {"RESET", "SAFETY_DOOR"} # {}
    \/ ~approach /\ Engaged(axis)
    \/ alarm # "none"

\* What makes a poll of the flags an alarm.
Failed ==
    \/ flags \cap {"RESET", "SAFETY_DOOR"} # {}
    \/ ~approach /\ Engaged(axis)
    \/ approach /\ "CYCLE_STOP" \in flags
    \/ alarm # "none"

\* mc_reset() and protocol_execute_realtime(): the alarm is served, sys.abort
\* is set, and mc_homing_cycle() and $H return to the main loop.
GiveUp ==
    /\ at' = "loop" /\ state' = "ALARM" /\ alarm' = "none"
    /\ flags' = flags \cup {"RESET"} /\ running' = FALSE

Check ==
    /\ at = "check"
    /\ IF flags = {}
         THEN /\ at' = IF lock THEN "poll" ELSE "stop"
              /\ UNCHANGED <<state, flags, alarm, running>>
         ELSE IF Failed THEN GiveUp
         ELSE /\ at' = "stop" /\ flags' = flags \ {"CYCLE_STOP"}
              /\ UNCHANGED <<state, alarm, running>>
    /\ UNCHANGED <<axis, pass, lock, left, lag, place, switches, events>>

\* Mutant: one pass too many.
StopLate ==
    /\ at = "stop"
    /\ running' = FALSE /\ left' = 0 /\ lag' = 0
    /\ IF pass <= 3 THEN at' = "pass" /\ pass' = pass + 1
                    ELSE at' = "set" /\ UNCHANGED pass
    /\ UNCHANGED <<state, flags, alarm, axis, lock, place, switches, events>>

\* st_reset(), the delay, and the next pass if there is one.
Stop ==
    /\ at = "stop"
    /\ running' = FALSE /\ left' = 0 /\ lag' = 0
    /\ IF pass < 3 THEN at' = "pass" /\ pass' = pass + 1
                   ELSE at' = "set" /\ UNCHANGED pass
    /\ UNCHANGED <<state, flags, alarm, axis, lock, place, switches, events>>

SetPosition ==
    /\ at = "set" /\ at' = "next"
    /\ position' = Placed(position, axis, HomePosition)
    /\ UNCHANGED <<state, flags, alarm, axis, pass, motion, carriage, switches, events>>

\* HOMING_CYCLE_1
NextAxis ==
    /\ at = "next"
    /\ IF axis = "X" THEN at' = "pass" /\ axis' = "Y" /\ pass' = 0
                     ELSE at' = "end" /\ UNCHANGED <<axis, pass>>
    /\ UNCHANGED <<state, flags, alarm, motion, place, switches, events>>

-----------------------------------------------------------------------------
(* After limits_go_home(): mc_homing_cycle() polls once more, $H sets the  *)
(* machine IDLE, and the main loop polls before it returns to grblMain().  *)
(* A poll reads the alarm first and the flags later; a reset may come in   *)
(* between.                                                                *)

rest == <<axis, pass, lock, left, lag, running, place, events>>

\* The head of protocol_exec_rt_system().
ReadAlarm(from, to) ==
    /\ at = from /\ at' = to
    /\ state' = IF alarm = "none" THEN state ELSE "ALARM"
    /\ alarm' = "none"
    /\ UNCHANGED <<flags, switches, rest>>

LastAlarm == ReadAlarm("end", "flags")

\* A door is not looked at in ALARM; a late CYCLE_STOP sets IDLE.
LastFlags ==
    /\ at = "flags"
    /\ \/ "RESET" \in flags /\ at' = "loop" /\ UNCHANGED <<state, flags>>
       \/ "RESET" \notin flags /\ "SAFETY_DOOR" \in flags /\ state # "ALARM"
          /\ at' = "ajar" /\ UNCHANGED <<state, flags>>
       \/ /\ "RESET" \notin flags /\ ("SAFETY_DOOR" \in flags => state = "ALARM")
          /\ at' = "finish" /\ flags' = {}
          /\ state' = IF "CYCLE_STOP" \in flags THEN "IDLE" ELSE state
    /\ UNCHANGED <<alarm, switches, rest>>

\* HOMING is none of the states in which a door starts a hold, nor is the hold
\* complete: the suspend loop does nothing but poll.
Ajar ==
    /\ at = "ajar" /\ at' = "suspended" /\ state' = "SAFETY_DOOR"
    /\ flags' = flags \ {"SAFETY_DOOR", "CYCLE_STOP"}
    /\ UNCHANGED <<alarm, switches, rest>>

SuspendAlarm == ReadAlarm("suspended", "woken")

SuspendFlags ==
    /\ at = "woken"
    /\ IF "RESET" \in flags THEN at' = "loop" /\ UNCHANGED flags
                             ELSE at' = "suspended" /\ flags' = {}
    /\ UNCHANGED <<state, alarm, switches, rest>>

\* The rest of mc_homing_cycle() and of $H.
Complete ==
    /\ at = "finish" /\ at' = "loop" /\ state' = "IDLE"
    /\ LimitsInit
    /\ UNCHANGED <<flags, alarm, rest>>

\* Mutant: an abort ends the main loop before it has polled.
LoopUnread ==
    /\ at = "loop" /\ at' = "serve"
    /\ UNCHANGED <<state, alarm, flags, switches, rest>>

LoopAlarm == ReadAlarm("loop", "serve")

\* grblMain() once more: only a lock outlives it.  A door finds the machine idle
\* and suspends it, see module Protocol.
Serve ==
    /\ at = "serve" /\ at' = "idle" /\ flags' = {}
    /\ IF "RESET" \in flags
         THEN /\ state' = IF state = "ALARM" THEN "ALARM" ELSE "IDLE"
              /\ alarm' = "none" /\ LimitsInit
         ELSE /\ state' = IF "SAFETY_DOOR" \in flags /\ state # "ALARM" THEN "SAFETY_DOOR" ELSE state
              /\ UNCHANGED <<alarm, switches>>
    /\ UNCHANGED rest

GoHome == Pass \/ Poll \/ Check \/ Stop \/ SetPosition \/ NextAxis
Finish == LastAlarm \/ LastFlags \/ Ajar \/ SuspendAlarm \/ SuspendFlags \/ Complete
          \/ LoopAlarm \/ Serve
Main == GoHome \/ Finish

-----------------------------------------------------------------------------
(* Interrupts *)

\* The sign a motor turns with for a step of the axis in the direction of the pass.
Sign(m) == (IF approach THEN -1 ELSE 1) * (IF axis = "Y" /\ m = "B" THEN -1 ELSE 1)

\* What the motors do to the carriage, in half steps.
Turned == [m \in AB |-> IF lock /\ m \in driven THEN Sign(m) ELSE 0]
Moved ==
    LET x == carriage["X"] + Turned["A"] + Turned["B"]
        y == carriage["Y"] + Turned["A"] - Turned["B"]
    IN  IF x \in 0 .. Top /\ y \in 0 .. Top THEN [X |-> x, Y |-> y] ELSE carriage

\* A step is counted also when the motors are locked, have no current, or the
\* carriage has come to the end of the frame.
StepEvent ==
    /\ running /\ left > 0 /\ lag < Lag
    /\ left' = left - 1 /\ lag' = lag + 1
    /\ position' = [m \in AB |-> position[m] + Sign(m)]
    /\ carriage' = Moved
    /\ UNCHANGED <<at, state, flags, alarm, axis, pass, lock, running, switches, events>>

\* Mutant: the end of the motion is not reported.
StepperDoneSilently ==
    /\ running /\ left = 0
    /\ running' = FALSE
    /\ UNCHANGED <<at, state, flags, alarm, axis, pass, lock, left, lag, place, switches, events>>

StepperDone ==
    /\ running /\ left = 0
    /\ running' = FALSE /\ flags' = flags \cup {"CYCLE_STOP"}
    /\ UNCHANGED <<at, state, alarm, axis, pass, lock, left, lag, place, switches, events>>

StepTimer == StepEvent \/ StepperDone

Event == at \notin {"off", "idle"} /\ events < MaxEvents /\ events' = events + 1

\* mc_reset() from the serial interrupt.
Reset ==
    /\ Event /\ "RESET" \notin flags
    /\ flags' = flags \cup {"RESET"}
    /\ IF state = "HOMING" THEN alarm' = "HOMING_FAIL_RESET" /\ running' = FALSE
                           ELSE UNCHANGED <<alarm, running>>
    /\ UNCHANGED <<at, state, axis, pass, lock, left, lag, place, switches>>

Door ==
    /\ Event /\ "SAFETY_DOOR" \notin flags
    /\ flags' = flags \cup {"SAFETY_DOOR"}
    /\ UNCHANGED <<at, state, alarm, axis, pass, motion, place, switches>>

Next == Start \/ Home \/ Main \/ StepTimer \/ Reset \/ Door

-----------------------------------------------------------------------------
(* Properties *)

\* One axis has been homed: where it has to be then, and what its position says.
Homed == at = "next" /\ driven = AB
Located ==
    /\ carriage[axis] \in Low + 2 * (PullOff - FeedLag) + 1 .. Low + 2 * PullOff
    /\ Steps(position, axis) = HomePosition

(* An axis that has been homed stands PullOff from the point where its low *)
(* switch closes, up to the steps of one poll at feed rate, and its        *)
(* position says so, whatever came in between and wherever the cycle began *)
(* -- if the other axis is not on one of its switches.                     *)
HomedAtSwitch == Homed /\ ~Engaged(Other(axis)) => Located

(* The same wherever the other axis is: "the homing cycle will move off    *)
(* all of the limit switches by this pull-off travel" (settings.md).       *)
LimitsLocated == Homed => Located

(* A machine whose motors have no current does not come out of the homing  *)
(* cycle as a homed one, although an axis may pass for homed.               *)
DeadIsNotHomed == state = "IDLE" => driven # {}

(* Homing an axis leaves the other one where it is and where it is known   *)
(* to be.                                                                  *)
Offset(a) == <<2 * Steps(position, a) - carriage[a], carriage[a]>>
OtherAxisKept ==
    [][at \notin {"off", "idle"} /\ driven = AB => Offset(Other(axis))' = Offset(Other(axis))
      \/ axis' # axis]_homingVars

(* A reset of a machine that is homing is never forgotten: an alarm waits  *)
(* to be served or has locked the machine, up to the main loop's next      *)
(* line, also when it comes between the two reads of the last poll or      *)
(* between that poll and the state being set to IDLE.  The reset that ends *)
(* a door's suspend loop, where the state is SAFETY_DOOR, locks nothing.   *)
Locked == alarm # "none" \/ state = "ALARM"
ResetAlarms ==
    [][at # "idle" /\ (Locked \/ (state = "HOMING" /\ "RESET" \in flags)) => Locked']_homingVars

(* The homing cycle ends, in success or in an alarm, unless the door was   *)
(* opened after the last poll of its loop: then it waits for the operator's *)
(* reset.                                                                  *)
WaitsForReset == at \in {"suspended", "woken"} /\ "RESET" \notin flags
HomingEnds == at \notin {"off", "idle"} ~> at = "idle" \/ WaitsForReset
=============================================================================
