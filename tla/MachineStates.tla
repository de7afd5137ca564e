--------------------------- MODULE MachineStates ---------------------------
(***************************************************************************)
(* What the machine state shown to the operator promises: which state may  *)
(* follow which, and in which of them the steppers may start, run and stop.*)
(* The realtime protocol (Protocol) implements this specification.         *)
(***************************************************************************)
VARIABLES
    state,   \* sys.state
    moving   \* the step interrupt is enabled

vars == <<state, moving>>

Init == state \in {"IDLE", "ALARM"} /\ ~moving

Motion == {"CYCLE", "JOG"}
Paused == {"HOLD", "SAFETY_DOOR"}

\* A cycle starts or resumes, a jog starts: only from a machine at rest.
Run ==
    /\ ~moving
    /\ \/ state \in {"IDLE"} \cup Paused /\ state' = "CYCLE"
       \/ state = "IDLE" /\ state' = "JOG"
    /\ UNCHANGED moving

\* The steppers start only in a state that shows motion.
Start == state \in Motion /\ ~moving /\ moving' = TRUE /\ UNCHANGED state

\* They may stop in any state: end of the motion, end of a hold, reset.
Stop == moving' = FALSE /\ UNCHANGED state

\* A hold or a door interrupts everything but a lock; a jog is never held.
Pause ==
    /\ state \notin {"ALARM", "CHECK_MODE", "SLEEP"}
    /\ \/ state' = "SAFETY_DOOR"
       \/ state \notin {"JOG", "SAFETY_DOOR"} /\ state' = "HOLD"
    /\ UNCHANGED moving

Sleep == state # "CHECK_MODE" /\ state' = "SLEEP" /\ UNCHANGED moving

\* Only a machine at rest becomes idle at the end of a motion or hold.
Finish ==
    /\ state \in Motion \cup Paused /\ ~moving
    /\ state' = "IDLE" /\ UNCHANGED moving

Lock == state' = "ALARM" /\ UNCHANGED moving

\* $X opens the alarm lock, $C enters check mode from an idle machine.
Unlock == state = "ALARM" /\ state' = "IDLE" /\ UNCHANGED moving
Check  == state = "IDLE" /\ state' = "CHECK_MODE" /\ UNCHANGED moving

\* A reset stops the steppers; it opens neither the alarm lock nor sleep.
Reset ==
    /\ state' \in {"IDLE", "ALARM"}
    /\ state \in {"ALARM", "SLEEP"} => state' = "ALARM"
    /\ moving' = FALSE

Next ==
    \/ Run \/ Start \/ Stop \/ Pause \/ Sleep \/ Finish
    \/ Lock \/ Unlock \/ Check \/ Reset

Spec == Init /\ [][Next]_vars
=============================================================================
