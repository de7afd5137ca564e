---------------------------- MODULE StepSegments ----------------------------
(***************************************************************************)
(* stepper.c: the segment ring between the main program, which cuts the    *)
(* oldest planner block into segments (st_prep_buffer), and the step-timer *)
(* interrupt, which executes them (TIMER1_COMPA_vect).  The two share the  *)
(* segment ring, the ring of Bresenham block data, head and tail; there is *)
(* no lock.  The interrupt handler is one step; the main program can be    *)
(* interrupted between any two of its accesses to the shared rings.        *)
(*                                                                         *)
(* Blocks are numbered in the order of planning: discarded+1..planned are  *)
(* in the planner ring.  Velocities are left out: how many steps go into a *)
(* segment, and where a hold comes to rest, is open.  AMASS levels, system *)
(* motions (homing) and the step arithmetic are left to other modules.     *)
(***************************************************************************)
EXTENDS Integers

CONSTANTS
    SegBufSize,  \* SEGMENT_BUFFER_SIZE
    QueueSize,   \* BLOCK_BUFFER_SIZE - 1
    StepCounts,  \* possible step_event_counts of a block
    MaxPlan      \* bound: number of blocks ever planned

ASSUME StepSegmentsAssumption ==
    /\ SegBufSize \in Nat /\ SegBufSize >= 3
    /\ QueueSize \in Nat \ {0} /\ MaxPlan \in Nat
    /\ StepCounts \subseteq Nat \ {0} /\ StepCounts # {}

VARIABLES
    size,        \* history: step_event_count of every block planned so far
    planned, discarded,      \* the planner ring holds discarded+1..planned
    plBlock,     \* pl_block, 0 for NULL
    recalc,      \* PREP_FLAG_RECALCULATE
    prepIdx,     \* prep.st_block_index
    stepsRem,    \* prep.steps_remaining, rounded up
    hold, endMotion,         \* STEP_CONTROL_EXECUTE_HOLD, STEP_CONTROL_END_MOTION
    pc, ret,     \* main program: next step; where st_prep_buffer() returns to
    head, nextHead, tail,    \* segment_buffer_head, segment_next_head, .._tail
    seg,         \* segment_buffer: st_block_index, n_step, history: its block
    stBlock,     \* st_block_buffer: the block whose data it holds, 0 if none
    awake,       \* the step interrupt is enabled
    execSeg,     \* st.exec_segment # NULL; it is then the segment at tail
    stepCount,   \* st.step_count
    execIdx,     \* st.exec_block_index
    counters,    \* block for which the Bresenham counters were initialized
    cycleStop,   \* EXEC_CYCLE_STOP
    fresh,       \* history: no segment of the block last loaded is published
    left         \* history: steps of every block not executed and not flushed

planVars == <<size, planned>>
prepVars == <<discarded, plBlock, recalc, prepIdx, stepsRem, fresh>>
ctlVars  == <<hold, endMotion>>
pcVars   == <<pc, ret>>
ringVars == <<head, nextHead, seg, stBlock>>
isrVars  == <<tail, execSeg, stepCount, execIdx, counters, left>>
runVars  == <<awake, cycleStop>>
vars == <<planVars, prepVars, ctlVars, pcVars, ringVars, isrVars, runVars>>

Blocks  == 0..MaxPlan            \* 0: no block
Slots   == 0..(SegBufSize - 1)
StSlots == 0..(SegBufSize - 2)

Segment == [idx : StSlots, n : Nat, of : Blocks]

TypeOK ==
    /\ size \in [Blocks -> Nat] /\ planned \in Blocks
    /\ discarded \in Blocks /\ plBlock \in Blocks /\ recalc \in BOOLEAN
    /\ prepIdx \in StSlots /\ stepsRem \in Nat /\ fresh \in BOOLEAN
    /\ hold \in BOOLEAN /\ endMotion \in BOOLEAN
    /\ pc \in {"main", "prep", "load", "segment", "steps", "publish", "wake"}
    /\ ret \in {"main", "wake"}
    /\ head \in Slots /\ nextHead \in Slots /\ tail \in Slots
    /\ seg \in [Slots -> Segment] /\ stBlock \in [StSlots -> Blocks]
    /\ awake \in BOOLEAN /\ cycleStop \in BOOLEAN
    /\ execSeg \in BOOLEAN /\ stepCount \in Nat
    /\ execIdx \in StSlots /\ counters \in Blocks
    /\ left \in [Blocks -> Int]

Init ==
    /\ size = [b \in Blocks |-> 0] /\ planned = 0
    /\ discarded = 0 /\ plBlock = 0 /\ recalc = FALSE
    /\ prepIdx = 0 /\ stepsRem = 0 /\ fresh = FALSE
    /\ hold = FALSE /\ endMotion = FALSE
    /\ pc = "main" /\ ret = "main"
    /\ head = 0 /\ nextHead = 1 /\ tail = 0
    /\ seg = [i \in Slots |-> [idx |-> 0, n |-> 0, of |-> 0]]
    /\ stBlock = [i \in StSlots |-> 0]
    /\ awake = FALSE /\ cycleStop = FALSE
    /\ execSeg = FALSE /\ stepCount = 0 /\ execIdx = 0 /\ counters = 0
    /\ left = [b \in Blocks |-> 0]

\* Increment of a segment ring index.
NextSlot(i) == IF i + 1 = SegBufSize THEN 0 ELSE i + 1

\* Mutant: wraps like the segment ring, which has one entry more.
NextStSlotFull(i) == IF i + 1 = SegBufSize THEN 0 ELSE i + 1

\* st_next_block_index().
NextStSlot(i) == IF i + 1 = SegBufSize - 1 THEN 0 ELSE i + 1

-----------------------------------------------------------------------------
(* The main program outside st_prep_buffer().                               *)

\* Mutant: the block is forgotten without a note that a part of it is prepared.
UpdateForgets == plBlock' = 0 /\ UNCHANGED recalc

\* st_update_plan_block_parameters(): the block being prepared is reloaded.
UpdatePlanBlock ==
    IF plBlock # 0 THEN recalc' = TRUE /\ plBlock' = 0
    ELSE UNCHANGED <<recalc, plBlock>>

\* plan_buffer_line(); planner_recalculate() notifies the stepper module if it
\* reaches the block at the tail.
PlanBlock(n) ==
    /\ pc = "main" /\ planned < MaxPlan /\ planned - discarded < QueueSize
    /\ planned' = planned + 1
    /\ size' = [size EXCEPT ![planned + 1] = n]
    /\ left' = [left EXCEPT ![planned + 1] = n]
    /\ UpdatePlanBlock \/ UNCHANGED <<recalc, plBlock>>
    /\ UNCHANGED <<discarded, prepIdx, stepsRem, fresh, ctlVars, pcVars, ringVars,
                   tail, execSeg, stepCount, execIdx, counters, runVars>>

\* plan_cycle_reinitialize() after an override.
Replan ==
    /\ pc = "main" /\ UpdatePlanBlock
    /\ UNCHANGED <<planVars, discarded, prepIdx, stepsRem, fresh, ctlVars, pcVars,
                   ringVars, isrVars, runVars>>

\* A hold starts to decelerate; the flag replaces the whole step control.
StartHold ==
    /\ pc = "main"
    /\ UpdatePlanBlock
    /\ hold' = TRUE /\ endMotion' = FALSE
    /\ UNCHANGED <<planVars, discarded, prepIdx, stepsRem, fresh, pcVars, ringVars,
                   isrVars, runVars>>

\* EXEC_CYCLE_STOP is served: in a hold the plan is reinitialized.
CycleStop ==
    /\ pc = "main" /\ cycleStop
    /\ cycleStop' = FALSE
    /\ \/ UpdatePlanBlock /\ hold' = FALSE
       \/ UNCHANGED <<recalc, plBlock, hold>>
    /\ UNCHANGED <<planVars, discarded, prepIdx, stepsRem, fresh, endMotion, pcVars,
                   ringVars, isrVars, awake>>

\* Cycle start: normal step control (a jog leaves it alone), then the buffer is
\* filled and the interrupt enabled.
CycleStart ==
    /\ pc = "main" /\ ~awake
    /\ \/ hold' = FALSE /\ endMotion' = FALSE
       \/ UNCHANGED ctlVars
    /\ pc' = (IF endMotion' THEN "wake" ELSE "prep") /\ ret' = "wake"
    /\ UNCHANGED <<planVars, prepVars, ringVars, isrVars, runVars>>

\* The end of st_wake_up().
WakeUp ==
    /\ pc = "wake"
    /\ awake' = TRUE /\ pc' = "main" /\ ret' = "main"
    /\ UNCHANGED <<planVars, prepVars, ctlVars, ringVars, isrVars, cycleStop>>

\* protocol_exec_rt_system() refills the buffer.
StPrepBuffer ==
    /\ pc = "main" /\ ~endMotion
    /\ pc' = "prep"
    /\ UNCHANGED <<planVars, prepVars, ctlVars, ret, ringVars, isrVars, runVars>>

\* Mutant: st.exec_block_index survives the reset.
StResetKeepsIndex ==
    /\ pc = "main"
    /\ discarded' = planned /\ left' = [b \in Blocks |-> 0]
    /\ plBlock' = 0 /\ recalc' = FALSE /\ prepIdx' = 0 /\ stepsRem' = 0
    /\ fresh' = FALSE
    /\ head' = 0 /\ nextHead' = 1 /\ tail' = 0
    /\ execSeg' = FALSE /\ stepCount' = 0 /\ counters' = 0
    /\ hold' = FALSE /\ endMotion' = FALSE
    /\ awake' = FALSE
    /\ UNCHANGED <<planVars, pcVars, seg, stBlock, execIdx, cycleStop>>

\* plan_reset() and st_reset(), after a reset, a cancelled jog or a probe.
StReset ==
    /\ pc = "main"
    /\ discarded' = planned /\ left' = [b \in Blocks |-> 0]
    /\ plBlock' = 0 /\ recalc' = FALSE /\ prepIdx' = 0 /\ stepsRem' = 0
    /\ fresh' = FALSE
    /\ head' = 0 /\ nextHead' = 1 /\ tail' = 0
    /\ execSeg' = FALSE /\ stepCount' = 0 /\ execIdx' = 0 /\ counters' = 0
    /\ hold' = FALSE /\ endMotion' = FALSE
    /\ awake' = FALSE
    /\ UNCHANGED <<planVars, pcVars, seg, stBlock, cycleStop>>

MainProgram ==
    \/ \E n \in StepCounts : PlanBlock(n)
    \/ Replan \/ StartHold \/ CycleStop \/ CycleStart \/ WakeUp \/ StPrepBuffer
    \/ StReset

-----------------------------------------------------------------------------
(* st_prep_buffer().                                                        *)

\* Mutant: the segment ring is filled without a test for room.
RingNeverFull == FALSE

\* The segment ring has no room.
RingFull == tail = nextHead

PrepReturn ==
    /\ pc = "prep" /\ (RingFull \/ (plBlock = 0 /\ discarded = planned))
    /\ pc' = ret
    /\ UNCHANGED <<planVars, prepVars, ctlVars, ret, ringVars, isrVars, runVars>>

NeedsBlock == pc = "prep" /\ ~RingFull /\ plBlock = 0 /\ discarded < planned

\* Only the velocity profile of the partly prepared block is recomputed.
Reload ==
    /\ NeedsBlock /\ recalc
    /\ plBlock' = discarded + 1 /\ recalc' = FALSE
    /\ pc' = "segment"
    /\ UNCHANGED <<planVars, discarded, prepIdx, stepsRem, fresh, ctlVars, ret,
                   ringVars, isrVars, runVars>>

\* A new block: its Bresenham data are copied into the next entry.
LoadBlock ==
    /\ NeedsBlock /\ ~recalc
    /\ plBlock' = discarded + 1
    /\ prepIdx' = NextStSlot(prepIdx) /\ fresh' = TRUE
    /\ stBlock' = [stBlock EXCEPT ![prepIdx'] = 0]
    /\ pc' = "load"
    /\ UNCHANGED <<planVars, discarded, recalc, stepsRem, ctlVars, ret, head,
                   nextHead, seg, isrVars, runVars>>

BlockLoaded ==
    /\ pc = "load"
    /\ stBlock' = [stBlock EXCEPT ![prepIdx] = plBlock]
    /\ stepsRem' = size[plBlock]
    /\ pc' = "segment"
    /\ UNCHANGED <<planVars, discarded, plBlock, recalc, prepIdx, fresh, ctlVars,
                   ret, head, nextHead, seg, isrVars, runVars>>

\* The segment at head gets its block index ...
NewSegment ==
    /\ pc = "segment" \/ (pc = "prep" /\ ~RingFull /\ plBlock # 0)
    /\ seg' = [seg EXCEPT ![head].idx = prepIdx, ![head].of = plBlock]
    /\ pc' = "steps"
    /\ UNCHANGED <<planVars, prepVars, ctlVars, ret, head, nextHead, stBlock,
                   isrVars, runVars>>

\* ... and its steps.  A segment covers at least REQ_MM_INCREMENT_SCALAR (1.25)
\* steps or ends its block (minimum_mm, stepper.c:957 and :1024), and the steps
\* that remain are rounded up: within the precision of a float that is one step
\* at least.  Only a hold ends a segment before (Bail).
SegmentSteps ==
    /\ pc = "steps"
    /\ \E n \in 1..stepsRem : seg' = [seg EXCEPT ![head].n = n]
    /\ pc' = "publish"
    /\ UNCHANGED <<planVars, prepVars, ctlVars, ret, head, nextHead, stBlock,
                   isrVars, runVars>>

\* No step is left before the end of a hold: the segment is not published.
Bail ==
    /\ pc = "steps" /\ hold
    /\ seg' = [seg EXCEPT ![head].n = 0]
    /\ endMotion' = TRUE /\ pc' = ret
    /\ UNCHANGED <<planVars, prepVars, hold, ret, head, nextHead, stBlock, isrVars,
                   runVars>>

\* The segment is handed over, the rest of the block is accounted for.
Publish ==
    /\ pc = "publish"
    /\ head' = nextHead /\ nextHead' = NextSlot(nextHead)
    /\ fresh' = FALSE
    /\ stepsRem' = stepsRem - seg[head].n
    /\ \/ \* End of the planner block.
          /\ stepsRem' = 0 /\ plBlock' = 0 /\ discarded' = discarded + 1
          /\ pc' = "prep" /\ UNCHANGED endMotion
       \/ \* More of it is left.
          /\ stepsRem' > 0 /\ pc' = "prep"
          /\ UNCHANGED <<plBlock, discarded, endMotion>>
       \/ \* End of the hold inside the block.
          /\ stepsRem' > 0 /\ hold
          /\ endMotion' = TRUE /\ pc' = ret
          /\ UNCHANGED <<plBlock, discarded>>
    /\ UNCHANGED <<planVars, recalc, prepIdx, hold, ret, seg, stBlock, isrVars, runVars>>

Prep ==
    \/ PrepReturn \/ Reload \/ LoadBlock \/ BlockLoaded
    \/ NewSegment \/ SegmentSteps \/ Bail \/ Publish

-----------------------------------------------------------------------------
(* TIMER1_COMPA_vect.                                                        *)

\* uint16_t step_count--.
Decrement(c) == IF c = 0 THEN 65535 ELSE c - 1

\* One step event with the data at st_block_buffer[idx], c of them to go.
StepEvent(idx, c) ==
    /\ left' = [left EXCEPT ![stBlock[idx]] = @ - 1]
    /\ stepCount' = Decrement(c)
    /\ execSeg' = (Decrement(c) # 0)
    /\ tail' = IF Decrement(c) = 0 THEN NextSlot(tail) ELSE tail

\* Pop a segment; a changed block index means a new block.
TickLoad ==
    /\ awake /\ ~execSeg /\ head # tail
    /\ LET s == seg[tail] IN
         /\ execIdx' = s.idx
         /\ counters' = IF execIdx # s.idx THEN stBlock[s.idx] ELSE counters
         /\ StepEvent(s.idx, s.n)
    /\ UNCHANGED <<planVars, prepVars, ctlVars, pcVars, ringVars, runVars>>

TickStep ==
    /\ awake /\ execSeg
    /\ StepEvent(execIdx, stepCount)
    /\ UNCHANGED <<planVars, prepVars, ctlVars, pcVars, ringVars, execIdx, counters,
                   runVars>>

\* Segment buffer empty: st_go_idle(), EXEC_CYCLE_STOP.
TickIdle ==
    /\ awake /\ ~execSeg /\ head = tail
    /\ awake' = FALSE /\ cycleStop' = TRUE
    /\ UNCHANGED <<planVars, prepVars, ctlVars, pcVars, ringVars, isrVars>>

\* mc_reset() in another interrupt: st_go_idle() in the middle of anything.
Kill ==
    /\ awake' = FALSE
    /\ UNCHANGED <<planVars, prepVars, ctlVars, pcVars, ringVars, isrVars, cycleStop>>

Interrupts == TickLoad \/ TickStep \/ TickIdle \/ Kill

Next == MainProgram \/ Prep \/ Interrupts

Spec == Init /\ [][Next]_vars

-----------------------------------------------------------------------------
(* Properties.                                                               *)

\* Distance from i up to j around a ring of n entries.
Distance(i, j, n) == IF j >= i THEN j - i ELSE j - i + n

\* The slots from t up to, but without, h.
Between(t, h) == { i \in Slots : Distance(t, i, SegBufSize) < Distance(t, h, SegBufSize) }

\* The published segments that the interrupt has not completed.
Pending == Between(tail, head)

\* Until the interrupt has completed a segment, st_prep_buffer() does not
\* overwrite it or the Bresenham data it refers to, although the ring of those
\* data is one entry shorter and is advanced without looking at what the
\* interrupt still uses (stepper.c, st_next_block_index()).
PendingIntact ==
    \A i \in Pending : seg[i].n > 0 /\ stBlock[seg[i].idx] = seg[i].of

\* The segment in execution is stepped with the data and the initialized
\* counters of its own block: the comparison of block indices in the interrupt
\* (stepper.c) recognizes every change of block, across wraps and resets.
ExecutesItsBlock ==
    execSeg => /\ tail \in Pending /\ execIdx = seg[tail].idx
               /\ counters = seg[tail].of

\* Holds, replans, reloads of a partly prepared block, underruns and restarts
\* lose, repeat or reorder no step of a planned block; only a reset drops them.
Stream == INSTANCE StepStream
ImplementsStepStream == Stream!Spec

-----------------------------------------------------------------------------
(* What makes PendingIntact and ExecutesItsBlock inductive.                  *)

\* A block is being prepared, or its preparation is to be resumed.
Loaded == plBlock # 0 \/ recalc

\* The preparation's own bookkeeping.
PrepInv ==
    /\ nextHead = NextSlot(head)
    /\ discarded <= planned
    /\ Loaded => discarded < planned
    /\ plBlock # 0 => plBlock = discarded + 1 /\ ~recalc
    /\ fresh => Loaded
    /\ pc \in {"load", "segment", "steps", "publish"} => ~RingFull /\ plBlock # 0
    /\ pc = "load" => fresh
    /\ Loaded /\ pc # "load" => stBlock[prepIdx] = discarded + 1 /\ stepsRem > 0
    /\ pc \in {"steps", "publish"} => seg[head].idx = prepIdx /\ seg[head].of = plBlock
    /\ pc = "publish" => seg[head].n \in 1..stepsRem
    /\ \A b \in Blocks : b > discarded /\ b <= planned => size[b] > 0

\* The data ring advances no faster than the segment ring, and the data of a
\* new block go where no pending segment has its own.
DistInv ==
    \A i \in Pending :
        /\ Distance(seg[i].idx, prepIdx, SegBufSize - 1) + (IF fresh THEN 0 ELSE 1)
             <= Distance(i, head, SegBufSize)
        /\ fresh => seg[i].idx # prepIdx

\* A segment (i, b) comes after one of block of with data at idx.
Follows(idx, of, i, b) == (i = idx /\ b = of) \/ i = NextStSlot(idx)

\* The segment published last has data at idx and belongs to block of.
LastInv(idx, of) ==
    IF fresh THEN prepIdx = NextStSlot(idx)
    ELSE prepIdx = idx /\ (Loaded => of = discarded + 1)

\* Segments with equal index that follow each other are of the same block.
ChainInv ==
    /\ \A i \in Pending :
         IF NextSlot(i) = head THEN LastInv(seg[i].idx, seg[i].of)
         ELSE Follows(seg[i].idx, seg[i].of, seg[NextSlot(i)].idx, seg[NextSlot(i)].of)
    /\ head = tail => LastInv(execIdx, counters)
    /\ head # tail /\ ~execSeg => Follows(execIdx, counters, seg[tail].idx, seg[tail].of)
    /\ execSeg => stepCount > 0

\* The inductive invariant.
IInv == TypeOK /\ PrepInv /\ DistInv /\ ChainInv /\ PendingIntact /\ ExecutesItsBlock
=============================================================================
