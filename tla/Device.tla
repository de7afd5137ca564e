------------------------------- MODULE Device -------------------------------
(***************************************************************************)
(* The machine from power-up to a homed position: main() of module Startup *)
(* hands over to grblMain(), whose homing cycle (module Limits) moves the  *)
(* motors that have got current by then.                                   *)
(***************************************************************************)
EXTENDS Startup, Integers

CONSTANTS
    Top, Low, High, Travel, Search, PullOff, LocateScalar, SeekLag, FeedLag, MaxEvents,
    MaxHomings      \* bound on the number of homing cycles

ASSUME DeviceAssumption ==
    /\ {Top, Low, High, Travel, Search, PullOff, LocateScalar} \subseteq Nat \ {0}
    /\ {SeekLag, FeedLag} \subseteq Nat \ {0} /\ MaxEvents \in Nat
    /\ MaxHomings \in Nat
    /\ Low < High /\ High <= Top

\* The pull-off clears the low switch without coming to the high one, and the
\* locating pass is long enough to come back to it.
ASSUME PullOffAssumption ==
    /\ Low + 2 * PullOff < High
    /\ PullOff + 2 * FeedLag <= PullOff * LocateScalar

VARIABLES
    at, state, flags, alarm, axis, pass, lock, running, left, lag, position, carriage,
    callbacks, initialized, events,
    homings         \* homing cycles so far

\* Motor 1 is motor A of the CoreXY, motor 2 is motor B.
Turning == {IF m = "X" THEN "A" ELSE "B" : m \in Energized}

Homing == INSTANCE Limits WITH driven <- Turning

homingVars ==
    <<at, state, flags, alarm, axis, pass, lock, running, left, lag, position, carriage,
      callbacks, initialized, events>>

vars == <<bootVars, homingVars, homings>>

TypeOK == BootTypeOK /\ Homing!TypeOK /\ homings \in 0 .. MaxHomings

Init == BootInit /\ Homing!Init /\ homings = 0

Boot == BootNext /\ UNCHANGED <<homingVars, homings>>

\* grblMain() is called when everything else is done, whatever came of it.
Grbl(A) == boot = "grbl" /\ A /\ UNCHANGED bootVars

Start == Grbl(Homing!Start) /\ UNCHANGED homings
Home == Grbl(Homing!Home) /\ homings < MaxHomings /\ homings' = homings + 1
Main == Grbl(Homing!Main) /\ UNCHANGED homings
StepTimer == Grbl(Homing!StepTimer) /\ UNCHANGED homings
Interrupt == Grbl(Homing!Reset \/ Homing!Door) /\ UNCHANGED homings

Next == Boot \/ Start \/ Home \/ Main \/ StepTimer \/ Interrupt

(* main() goes on, the main loop's thread is scheduled, and the step timer *)
(* fires; nobody is bound to home the machine.                             *)
Spec ==
    /\ Init /\ [][Next]_vars
    /\ WF_vars(Boot) /\ WF_vars(Start) /\ WF_vars(Main) /\ WF_vars(StepTimer)

-----------------------------------------------------------------------------
(* Properties: see modules Startup and Limits for what they say. *)

(* A homed axis is where its position says (limits_go_home()).              *)
HomedAtSwitch == Homing!HomedAtSwitch
(* The same, wherever the other axis is.                                    *)
LimitsLocated == Homing!LimitsLocated
(* Homing notices that the start-up has failed for both motors.             *)
DeadIsNotHomed == Homing!DeadIsNotHomed
(* Homing an axis leaves the other one alone.                               *)
OtherAxisKept == Homing!OtherAxisKept
(* A reset of a machine that is homing locks it, whenever it comes.         *)
ResetAlarms == Homing!ResetAlarms
(* The homing cycle ends, or waits for a reset after a door.                *)
HomingEnds == Homing!HomingEnds
=============================================================================
