----------------------------- MODULE StepStream -----------------------------
(***************************************************************************)
(* What the stepper module promises the planner: the steps of the queued   *)
(* blocks are executed one by one, each exactly once, block after block in *)
(* the order of planning, and none of them after a flush.                  *)
(* The segment buffer (StepSegments) implements this specification.        *)
(***************************************************************************)
EXTENDS Integers

CONSTANTS MaxPlan,    \* bound: number of blocks ever planned
          StepCounts  \* possible numbers of steps of a block

VARIABLES planned,    \* number of blocks planned so far
          left        \* left[b]: steps of block b still to be executed

vars == <<planned, left>>

Init == planned = 0 /\ left = [b \in 0..MaxPlan |-> 0]

Plan(n) ==
    /\ planned < MaxPlan
    /\ planned' = planned + 1
    /\ left' = [left EXCEPT ![planned + 1] = n]

Step(b) ==
    /\ left[b] > 0 /\ \A c \in 0..(b - 1) : left[c] = 0
    /\ left' = [left EXCEPT ![b] = @ - 1]
    /\ UNCHANGED planned

Flush == left' = [b \in 0..MaxPlan |-> 0] /\ UNCHANGED planned

Next ==
    \/ \E n \in StepCounts : Plan(n)
    \/ \E b \in 0..MaxPlan : Step(b)
    \/ Flush

Spec == Init /\ [][Next]_vars
=============================================================================
