-------------------------- MODULE StepStream_proofs --------------------------
(***************************************************************************)
(* The segment buffer implements StepStream, step by step.  A step event    *)
(* takes one step from the block it belongs to; that this is the oldest     *)
(* block which still owes steps needs an account of all the steps between   *)
(* the planner and the interrupt: what the segment in execution has left,   *)
(* what the segments behind it hold, and what is not cut into segments yet. *)
(***************************************************************************)
EXTENDS StepSegments_proofs

\* Steps of block b that are in no published segment.
Unpublished(b) ==
    IF b <= discarded \/ b > planned THEN 0
    ELSE IF b = discarded + 1 /\ Loaded /\ pc # "load" THEN stepsRem
    ELSE size[b]

\* The block of which the segment published last is a part.
LastBlock == IF Loaded /\ ~fresh THEN discarded + 1 ELSE discarded

\* rest[i] are the steps of the block of segment i that come after segment i:
\* they are not published, or they are in the next segment and after it; if the
\* next segment is of another block there are none, and it begins that block.
RestOf(rest, i, j) ==
    \/ seg[j].of = seg[i].of /\ rest[i] = seg[j].n + rest[j]
    \/ /\ seg[j].of = seg[i].of + 1 /\ rest[i] = 0
       /\ size[seg[j].of] = seg[j].n + rest[j]

RestInv(rest) ==
    \A i \in Pending :
        IF NextSlot(i) = head
          THEN seg[i].of = LastBlock /\ rest[i] = Unpublished(seg[i].of)
          ELSE RestOf(rest, i, NextSlot(i))

\* Steps to go in the segment at tail.
ToGo == IF execSeg THEN stepCount ELSE seg[tail].n

\* What every block owes.
LeftInv(rest) ==
    \A b \in Blocks :
        left[b] =
          IF head = tail THEN Unpublished(b)
          ELSE IF b = seg[tail].of THEN ToGo + rest[tail]
          ELSE IF b > seg[tail].of /\ b <= planned THEN size[b]
          ELSE 0

FreshInv == fresh /\ pc # "load" => stepsRem = size[discarded + 1]
PlannedInv == \A i \in Pending : seg[i].of <= planned

\* All the steps are accounted for.
StreamInv ==
    /\ FreshInv /\ PlannedInv
    /\ \E rest \in [Slots -> Nat] : RestInv(rest) /\ LeftInv(rest)

-----------------------------------------------------------------------------
(* Steps that touch no published segment and neither plan nor execute.      *)

LEMMA StreamKept ==
    ASSUME IInv, StreamInv, FreshInv',
           UNCHANGED <<head, tail, left, execSeg, stepCount, size, planned>>,
           \A i \in Pending : seg'[i] = seg[i],
           LastBlock' = LastBlock,
           \A b \in Blocks : Unpublished(b)' = Unpublished(b)
    PROVE  StreamInv'
<1>0. /\ head \in Slots /\ tail \in Slots /\ seg \in [Slots -> Segment]
      /\ Pending' = Pending /\ Pending \subseteq Slots
      /\ head # tail => tail \in Pending
      /\ \A i \in Pending : NextSlot(i) # head => NextSlot(i) \in Pending
      /\ \A i \in Pending : seg[i].of \in Blocks
  BY BetweenFacts DEF IInv, TypeOK, Pending, Segment
<1>1. PICK rest \in [Slots -> Nat] : RestInv(rest) /\ LeftInv(rest)
  BY DEF StreamInv
<1>2. RestInv(rest)'
  BY <1>0, <1>1 DEF RestInv, RestOf
<1>3. LeftInv(rest)'
  <2>1. head # tail => seg'[tail] = seg[tail] /\ ToGo' = ToGo
    BY <1>0 DEF ToGo
  <2>2. QED
    BY <1>0, <1>1, <2>1 DEF LeftInv
<1>4. PlannedInv'
  BY <1>0 DEF StreamInv, PlannedInv
<1>5. QED
  BY <1>1, <1>2, <1>3, <1>4 DEF StreamInv

\* What Loaded says of the planner ring.
LEMMA LoadedFacts ==
    ASSUME IInv
    PROVE  /\ discarded \in Nat /\ planned \in Nat /\ stepsRem \in Nat
           /\ discarded <= planned /\ plBlock \in Nat
           /\ Loaded => discarded < planned
           /\ plBlock # 0 => plBlock = discarded + 1
BY DEF IInv, TypeOK, PrepInv, Blocks

\* The main program outside st_prep_buffer(), without planning and resets.
LEMMA MainStream ==
    ASSUME IInv, StreamInv,
           \/ Replan \/ StartHold \/ CycleStop \/ CycleStart \/ WakeUp \/ StPrepBuffer
           \/ PrepReturn \/ Reload \/ TickIdle \/ Kill
    PROVE  StreamInv'
<1> USE DEF Replan, StartHold, CycleStop, CycleStart, WakeUp, StPrepBuffer, PrepReturn,
            Reload, NeedsBlock, TickIdle, Kill, planVars, prepVars, ctlVars, pcVars,
            ringVars, isrVars, runVars, UpdatePlanBlock
<1>1. /\ UNCHANGED <<head, tail, left, execSeg, stepCount, size, planned, seg,
                     discarded, stepsRem, fresh>>
      /\ (pc' = "load" <=> pc = "load")
  BY DEF IInv, TypeOK
<1>2. Loaded' <=> Loaded
  BY LoadedFacts DEF Loaded
<1>3. FreshInv'
  BY <1>1 DEF StreamInv, FreshInv
<1>4. LastBlock' = LastBlock /\ \A b \in Blocks : Unpublished(b)' = Unpublished(b)
  BY <1>1, <1>2 DEF LastBlock, Unpublished
<1>5. QED
  BY <1>1, <1>3, <1>4, StreamKept

LEMMA LoadBlockStream == ASSUME IInv, StreamInv, LoadBlock PROVE StreamInv'
<1> USE DEF LoadBlock, NeedsBlock, planVars, ctlVars, isrVars, runVars
<1>1. ~Loaded /\ ~fresh /\ Loaded' /\ fresh' /\ pc' = "load"
  BY LoadedFacts DEF IInv, PrepInv, Loaded
<1>2. LastBlock' = LastBlock /\ FreshInv'
  BY <1>1 DEF LastBlock, FreshInv
<1>3. \A b \in Blocks : Unpublished(b)' = Unpublished(b)
  BY <1>1 DEF Unpublished
<1>4. QED
  BY <1>2, <1>3, StreamKept

LEMMA BlockLoadedStream == ASSUME IInv, StreamInv, BlockLoaded PROVE StreamInv'
<1> USE DEF BlockLoaded, planVars, ctlVars, isrVars, runVars
<1>1. /\ plBlock = discarded + 1 /\ discarded < planned /\ fresh /\ Loaded /\ Loaded'
      /\ stepsRem' = size[discarded + 1]
  BY LoadedFacts DEF IInv, PrepInv, Loaded
<1>2. LastBlock' = LastBlock /\ FreshInv'
  BY <1>1 DEF LastBlock, FreshInv
<1>3. \A b \in Blocks : Unpublished(b)' = Unpublished(b)
  BY <1>1 DEF Unpublished
<1>4. QED
  BY <1>2, <1>3, StreamKept

LEMMA WriteSegmentStream ==
    ASSUME IInv, StreamInv, NewSegment \/ SegmentSteps \/ Bail  PROVE StreamInv'
<1> USE DEF NewSegment, SegmentSteps, Bail, planVars, prepVars, ctlVars, isrVars, runVars
<1>1. /\ UNCHANGED <<head, tail, left, execSeg, stepCount, size, planned, discarded,
                     stepsRem, fresh, plBlock, recalc>>
      /\ pc # "load" /\ pc' # "load"
  BY DEF IInv, TypeOK
<1>2. \A i \in Slots : i # head => seg'[i] = seg[i]
  BY DEF IInv, TypeOK
<1>3. \A i \in Pending : seg'[i] = seg[i]
  BY <1>2, BetweenFacts DEF IInv, TypeOK, Pending
<1>4. Loaded' = Loaded
  BY <1>1 DEF Loaded
<1>5. LastBlock' = LastBlock /\ FreshInv'
  BY <1>1, <1>4 DEF LastBlock, FreshInv, StreamInv
<1>6. \A b \in Blocks : Unpublished(b)' = Unpublished(b)
  BY <1>1, <1>4 DEF Unpublished
<1>7. QED
  BY <1>1, <1>3, <1>5, <1>6, StreamKept

-----------------------------------------------------------------------------
(* Steps that plan or flush.                                                *)

LEMMA PlanBlockStream ==
    ASSUME IInv, StreamInv, NEW n \in StepCounts, PlanBlock(n)
    PROVE  StreamInv' /\ Stream!Plan(n)
<1>0. /\ UNCHANGED <<head, tail, seg, discarded, stepsRem, fresh, pc, execSeg, stepCount>>
      /\ planned \in Nat /\ discarded \in Nat /\ discarded <= planned
      /\ planned < MaxPlan /\ planned' = planned + 1
      /\ left' = [left EXCEPT ![planned + 1] = n]
      /\ Loaded => discarded < planned
  <2>1. /\ UNCHANGED <<head, tail, seg, discarded, stepsRem, fresh, pc, execSeg, stepCount>>
        /\ planned < MaxPlan /\ planned' = planned + 1
        /\ left' = [left EXCEPT ![planned + 1] = n]
    BY DEF PlanBlock, pcVars, ringVars
  <2>2. QED
    BY <2>1, LoadedFacts
<1>1. /\ \A b \in Blocks : b # planned + 1 => size'[b] = size[b] /\ left'[b] = left[b]
      /\ size'[planned + 1] = n /\ left'[planned + 1] = n
      /\ planned + 1 \in Blocks
  <2>1. planned + 1 \in Blocks
    BY <1>0, StepSegmentsAssumption DEF Blocks
  <2>2. QED
    BY <2>1 DEF IInv, TypeOK, PlanBlock
<1>2. Loaded' <=> Loaded
  BY LoadedFacts DEF Loaded, UpdatePlanBlock, PlanBlock
<1>3. FreshInv'
  <2>1. fresh => discarded + 1 \in Blocks /\ discarded + 1 # planned + 1
    BY <1>0, StepSegmentsAssumption DEF IInv, PrepInv, Blocks
  <2>2. QED
    BY <1>0, <1>1, <2>1 DEF StreamInv, FreshInv
<1>4. LastBlock' = LastBlock
  BY <1>0, <1>2 DEF LastBlock
<1>5. /\ \A b \in Blocks : b # planned + 1 => Unpublished(b)' = Unpublished(b)
      /\ \A b \in Blocks : b = planned + 1 => Unpublished(b)' = n
  <2>1. \A b \in Blocks : b # planned + 1 => (b > planned' <=> b > planned)
    BY <1>0 DEF Blocks
  <2>2. \A b \in Blocks : b # planned + 1 => Unpublished(b)' = Unpublished(b)
    BY <1>0, <1>1, <1>2, <2>1 DEF Unpublished
  <2>3. ASSUME NEW b \in Blocks, b = planned + 1  PROVE Unpublished(b)' = n
    <3>1. ~(b <= discarded') /\ ~(b > planned') /\ size'[b] = n
      BY <2>3, <1>0, <1>1
    <3>2. ~(b = discarded' + 1 /\ Loaded')
      BY <2>3, <1>0, <1>2
    <3>3. QED
      BY <3>1, <3>2, <1>0 DEF Unpublished
  <2>4. QED
    BY <2>2, <2>3
<1>6. PICK rest \in [Slots -> Nat] : RestInv(rest) /\ LeftInv(rest)
  BY DEF StreamInv
<1>7. /\ head \in Slots /\ tail \in Slots /\ seg \in [Slots -> Segment]
      /\ Pending' = Pending /\ Pending \subseteq Slots
      /\ head # tail => tail \in Pending
      /\ \A i \in Pending : NextSlot(i) # head => NextSlot(i) \in Pending
      /\ \A i \in Pending : seg[i].of \in Blocks /\ seg[i].of # planned + 1
                            /\ seg[i].of <= planned
  <2>1. /\ head \in Slots /\ tail \in Slots /\ seg \in [Slots -> Segment]
        /\ Pending' = Pending /\ Pending \subseteq Slots
        /\ head # tail => tail \in Pending
        /\ \A i \in Pending : NextSlot(i) # head => NextSlot(i) \in Pending
    BY <1>0, BetweenFacts DEF IInv, TypeOK, Pending
  <2>2. \A i \in Pending : seg[i].of \in Blocks /\ seg[i].of <= planned
    BY <2>1 DEF Segment, StreamInv, PlannedInv
  <2>3. QED
    BY <1>0, <2>1, <2>2 DEF Blocks
<1>8. PlannedInv'
  BY <1>0, <1>7 DEF PlannedInv, Blocks
<1>9. RestInv(rest)'
  <2> SUFFICES ASSUME NEW i \in Pending
               PROVE  IF NextSlot(i) = head
                        THEN seg[i].of = LastBlock /\ rest[i] = Unpublished(seg[i].of)'
                        ELSE RestOf(rest, i, NextSlot(i))'
    BY <1>0, <1>4, <1>7 DEF RestInv
  <2>1. CASE NextSlot(i) = head
    BY <2>1, <1>0, <1>5, <1>6, <1>7 DEF RestInv
  <2>2. CASE NextSlot(i) # head
    BY <2>2, <1>0, <1>1, <1>6, <1>7 DEF RestInv, RestOf
  <2>3. QED
    BY <2>1, <2>2
<1>10. LeftInv(rest)'
  <2> SUFFICES ASSUME NEW b \in Blocks
               PROVE  left'[b] = IF head = tail THEN Unpublished(b)'
                                 ELSE IF b = seg[tail].of THEN ToGo' + rest[tail]
                                 ELSE IF b > seg[tail].of /\ b <= planned + 1 THEN size'[b]
                                 ELSE 0
    BY <1>0 DEF LeftInv
  <2>1. ToGo' = ToGo
    BY <1>0 DEF ToGo
  <2>2. CASE b = planned + 1
    <3>1. left'[b] = n /\ size'[b] = n /\ Unpublished(b)' = n
      BY <2>2, <1>1, <1>5
    <3>2. b <= planned + 1 /\ (head # tail => b # seg[tail].of /\ b > seg[tail].of)
      BY <2>2, <1>0, <1>7 DEF Blocks
    <3>3. QED
      BY <3>1, <3>2
  <2>3. CASE b # planned + 1
    <3>1. b <= planned + 1 <=> b <= planned
      BY <2>3, <1>0 DEF Blocks
    <3>2. left'[b] = left[b] /\ size'[b] = size[b] /\ Unpublished(b)' = Unpublished(b)
      BY <2>3, <1>1, <1>5
    <3>3. QED
      BY <2>1, <3>1, <3>2, <1>6 DEF LeftInv
  <2>4. QED
    BY <2>2, <2>3
<1>11. StreamInv'
  BY <1>3, <1>6, <1>8, <1>9, <1>10 DEF StreamInv
<1>12. Stream!Plan(n)
  BY <1>0 DEF Stream!Plan
<1>13. QED
  BY <1>11, <1>12

LEMMA StResetStream ==
    ASSUME IInv, StreamInv, StReset PROVE StreamInv' /\ Stream!Flush
<1> USE DEF StReset, planVars, pcVars
<1>1. Pending' = {}
  BY BetweenFacts, StepSegmentsAssumption DEF Pending, Slots
<1>2. \A b \in Blocks : Unpublished(b)' = 0 /\ left'[b] = 0
  BY DEF Unpublished, Loaded, IInv, TypeOK, Blocks
<1>3. [i \in Slots |-> 0] \in [Slots -> Nat]
  OBVIOUS
<1>4. \A rest : RestInv(rest)' /\ LeftInv(rest)'
  BY <1>1, <1>2 DEF RestInv, LeftInv
<1>5. FreshInv' /\ PlannedInv'
  BY <1>1 DEF FreshInv, PlannedInv
<1>6. StreamInv'
  BY <1>3, <1>4, <1>5 DEF StreamInv
<1>7. Stream!Flush
  BY DEF Stream!Flush, Blocks
<1>8. QED
  BY <1>6, <1>7

-----------------------------------------------------------------------------
(* A segment is published: what was left of the block is split into the     *)
(* steps of the segment and the steps after it.                             *)

LEMMA PublishStream == ASSUME IInv, StreamInv, Publish PROVE StreamInv'
<1>0. /\ head \in Slots /\ tail \in Slots /\ head' = NextSlot(head) /\ head' # tail
      /\ UNCHANGED <<tail, seg, left, size, planned, execSeg, stepCount>> /\ ~fresh'
      /\ plBlock # 0 /\ plBlock = discarded + 1 /\ ~recalc /\ ~recalc' /\ discarded < planned
      /\ planned \in Nat /\ discarded \in Nat /\ plBlock \in Blocks
      /\ stepsRem \in Nat /\ seg[head].n \in 1..stepsRem /\ seg[head].of = discarded + 1
      /\ Loaded /\ pc = "publish" /\ pc' # "load"
  <2>1. nextHead \in Slots /\ nextHead = NextSlot(head) /\ head \in Slots /\ tail \in Slots
    BY DEF IInv, TypeOK, PrepInv
  <2>2. /\ head' = NextSlot(head) /\ head' # tail
        /\ UNCHANGED <<tail, seg, left, size, planned, execSeg, stepCount>> /\ ~fresh'
        /\ pc = "publish" /\ pc' # "load"
    BY <2>1 DEF IInv, TypeOK, PrepInv, RingFull, Publish, planVars, isrVars
  <2>3. /\ plBlock # 0 /\ plBlock = discarded + 1 /\ ~recalc /\ ~recalc' /\ Loaded
        /\ seg[head].n \in 1..stepsRem /\ seg[head].of = plBlock
    BY <2>2 DEF IInv, PrepInv, Loaded, Publish
  <2>4. QED
    BY <2>1, <2>2, <2>3, LoadedFacts DEF IInv, TypeOK
<1>1. stepsRem' = stepsRem - seg[head].n /\ stepsRem' \in Nat
      /\ stepsRem = seg[head].n + stepsRem'
  BY <1>0 DEF Publish
<1>2. /\ Pending' = Pending \union {head} /\ Pending \subseteq Slots /\ head \notin Pending
      /\ head # tail => tail \in Pending
      /\ head' # head
      /\ \A i \in Pending : NextSlot(i) # head' /\ NextSlot(i) \in Pending \union {head}
      /\ \A i \in Pending : seg[i].of \in Blocks
  <2>1. \A i \in Pending : i \in Slots /\ i # head
    BY <1>0, BetweenFacts DEF Pending
  <2>2. \A i \in Pending : NextSlot(i) # head'
    BY <1>0, <2>1, StepSegmentsAssumption DEF NextSlot, Slots
  <2>3. \A i \in Pending : seg[i].of \in Blocks
    BY <2>1 DEF IInv, TypeOK, Segment
  <2>4. QED
    BY <1>0, <2>1, <2>2, <2>3, BetweenAdd, BetweenFacts, SlotFacts DEF Pending
\* The block is at its end and counts as discarded, or it is still loaded.
<1>3. /\ LastBlock' = discarded + 1
      /\ \A b \in Blocks : b = discarded + 1 =>
           Unpublished(b)' = stepsRem' /\ Unpublished(b) = stepsRem
      /\ \A b \in Blocks : b # discarded + 1 => Unpublished(b)' = Unpublished(b)
  <2>1. CASE stepsRem' = 0 /\ plBlock' = 0 /\ discarded' = discarded + 1
    <3>1. ~Loaded'
      BY <2>1, <1>0 DEF Loaded
    <3>2. \A b \in Blocks : b # discarded + 1 => (b <= discarded' <=> b <= discarded)
      BY <2>1, <1>0 DEF Blocks
    <3>3. ASSUME NEW b \in Blocks, b # discarded + 1
          PROVE  Unpublished(b)' = Unpublished(b)
      <4>1. Unpublished(b)' = IF b <= discarded \/ b > planned THEN 0 ELSE size[b]
        BY <3>1, <3>2, <3>3, <1>0 DEF Unpublished
      <4>2. QED
        BY <3>3, <4>1 DEF Unpublished
    <3>4. QED
      <4>1. LastBlock' = discarded + 1
        BY <2>1, <3>1 DEF LastBlock
      <4>2. \A b \in Blocks : b = discarded + 1 => Unpublished(b)' = stepsRem'
        BY <2>1, <1>0 DEF Unpublished
      <4>3. \A b \in Blocks : b = discarded + 1 => Unpublished(b) = stepsRem
        BY <1>0 DEF Unpublished
      <4>4. QED
        BY <3>3, <4>1, <4>2, <4>3
  <2>2. CASE plBlock' = plBlock /\ discarded' = discarded
    <3>1. Loaded'
      BY <2>2, <1>0 DEF Loaded
    <3>2. QED
      BY <2>2, <3>1, <1>0 DEF Unpublished, LastBlock
  <2>3. QED
    BY <2>1, <2>2 DEF Publish
<1>4. PICK rest \in [Slots -> Nat] : RestInv(rest) /\ LeftInv(rest)
  BY DEF StreamInv
<1>5. PICK rest1 \in [Slots -> Nat] :
        rest1[head] = stepsRem' /\ \A i \in Pending : rest1[i] = rest[i]
  <2> DEFINE r == [rest EXCEPT ![head] = stepsRem']
  <2>1. r \in [Slots -> Nat] /\ r[head] = stepsRem' /\ \A i \in Pending : r[i] = rest[i]
    BY <1>0, <1>1, <1>2
  <2> HIDE DEF r
  <2>2. QED
    BY <2>1
<1>7. RestInv(rest1)'
  <2> SUFFICES ASSUME NEW i \in Pending \union {head}
               PROVE  IF NextSlot(i) = head'
                        THEN seg[i].of = LastBlock' /\ rest1[i] = Unpublished(seg[i].of)'
                        ELSE RestOf(rest1, i, NextSlot(i))'
    BY <1>0, <1>2 DEF RestInv
  <2>1. CASE i = head
    BY <2>1, <1>0, <1>3, <1>5
  \* The segment published before: of the same block, unless this one is fresh.
  <2>2. CASE i \in Pending /\ NextSlot(i) = head
    <3>1. seg[i].of = LastBlock /\ rest[i] = Unpublished(seg[i].of)
      BY <2>2, <1>4 DEF RestInv
    <3>2. CASE fresh
      <4>1. seg[i].of = discarded /\ rest[i] = 0 /\ stepsRem = size[discarded + 1]
        BY <3>1, <3>2, <1>0 DEF LastBlock, Unpublished, StreamInv, FreshInv
      <4>2. QED
        BY <2>2, <4>1, <1>0, <1>1, <1>2, <1>5 DEF RestOf
    <3>3. CASE ~fresh
      <4>1. seg[i].of = discarded + 1 /\ rest[i] = stepsRem
        BY <3>1, <3>3, <1>0, <1>3 DEF LastBlock
      <4>2. QED
        BY <2>2, <4>1, <1>0, <1>1, <1>2, <1>5 DEF RestOf
    <3>4. QED
      BY <3>2, <3>3
  <2>3. CASE i \in Pending /\ NextSlot(i) # head
    <3>1. RestOf(rest, i, NextSlot(i)) /\ NextSlot(i) \in Pending
      BY <2>3, <1>2, <1>4 DEF RestInv
    <3>2. QED
      BY <2>3, <3>1, <1>0, <1>2, <1>5 DEF RestOf
  <2>4. QED
    BY <2>1, <2>2, <2>3
<1>8. LeftInv(rest1)'
  <2> SUFFICES ASSUME NEW b \in Blocks
               PROVE  left[b] = IF b = seg[tail].of THEN ToGo' + rest1[tail]
                                ELSE IF b > seg[tail].of /\ b <= planned THEN size[b]
                                ELSE 0
    BY <1>0, <1>2 DEF LeftInv
  <2>1. CASE head = tail
    <3>1. ~execSeg /\ ToGo' = seg[head].n
      BY <2>1, <1>0, <1>2 DEF IInv, ExecutesItsBlock, ToGo
    <3>2. left[b] = Unpublished(b)
      BY <2>1, <1>4 DEF LeftInv
    <3>3. b # discarded + 1 => left[b] = IF b > discarded + 1 /\ b <= planned THEN size[b]
                                         ELSE 0
      BY <3>2, <1>0 DEF Unpublished, Blocks
    <3>4. QED
      BY <2>1, <3>1, <3>2, <3>3, <1>0, <1>1, <1>3, <1>5
  <2>2. CASE head # tail
    <3>1. ToGo' = ToGo
      BY <1>0 DEF ToGo
    <3>2. QED
      BY <2>2, <3>1, <1>2, <1>4, <1>5 DEF LeftInv
  <2>3. QED
    BY <2>1, <2>2
<1>9. FreshInv' /\ PlannedInv'
  BY <1>0, <1>2 DEF StreamInv, FreshInv, PlannedInv
<1>10. QED
  BY <1>5, <1>7, <1>8, <1>9 DEF StreamInv

-----------------------------------------------------------------------------
(* The step interrupt takes a step from the oldest block that owes any.     *)

LEMMA StepEventStream ==
    ASSUME IInv, StreamInv, head # tail, StepEvent(seg[tail].idx, ToGo), ToGo > 0,
           UNCHANGED <<planVars, prepVars, ctlVars, pcVars, ringVars, runVars>>
    PROVE  StreamInv' /\ \E b \in Blocks : Stream!Step(b)
<1> DEFINE of == seg[tail].of
<1>0. /\ head \in Slots /\ tail \in Slots /\ tail \in Pending /\ Pending \subseteq Slots
      /\ ToGo \in Nat /\ of \in Blocks /\ NextSlot(tail) \in Slots
      /\ stBlock[seg[tail].idx] = of
      /\ UNCHANGED <<head, seg, size, planned, discarded, stepsRem, fresh, plBlock, recalc, pc>>
  <2>1. head \in Slots /\ tail \in Slots /\ stepCount \in Nat /\ seg[tail] \in Segment
    BY DEF IInv, TypeOK
  <2>2. tail \in Pending /\ Pending \subseteq Slots /\ NextSlot(tail) \in Slots
    BY <2>1, BetweenFacts, SlotFacts DEF Pending
  <2>3. ToGo \in Nat /\ of \in Blocks
    BY <2>1 DEF ToGo, Segment
  <2>4. stBlock[seg[tail].idx] = of
    BY <2>2 DEF IInv, PendingIntact
  <2>5. QED
    BY <2>1, <2>2, <2>3, <2>4 DEF planVars, prepVars, pcVars, ringVars
<1> HIDE DEF of
<1>1. /\ left' = [left EXCEPT ![of] = @ - 1] /\ left \in [Blocks -> Int]
      /\ ToGo = 1 => ~execSeg' /\ tail' = NextSlot(tail)
      /\ ToGo # 1 => execSeg' /\ tail' = tail /\ stepCount' = ToGo - 1
  <2>1. Decrement(ToGo) = ToGo - 1
    BY <1>0 DEF Decrement
  <2>2. ToGo - 1 = 0 <=> ToGo = 1
    BY <1>0
  <2>3. left' = [left EXCEPT ![of] = @ - 1] /\ left \in [Blocks -> Int]
    BY <1>0 DEF StepEvent, IInv, TypeOK
  <2>4. /\ execSeg' = (ToGo - 1 # 0) /\ stepCount' = ToGo - 1
        /\ tail' = IF ToGo - 1 = 0 THEN NextSlot(tail) ELSE tail
    BY <2>1 DEF StepEvent
  <2>5. QED
    BY <2>2, <2>3, <2>4
<1>2. /\ left'[of] = left[of] - 1
      /\ \A b \in Blocks : b # of => left'[b] = left[b]
  BY <1>0, <1>1
<1>3. PICK rest \in [Slots -> Nat] : RestInv(rest) /\ LeftInv(rest)
  BY DEF StreamInv
<1>4. left[of] = ToGo + rest[tail] /\ rest[tail] \in Nat
  BY <1>0, <1>3 DEF LeftInv, of
<1>5. \A b \in Blocks : b # of => left[b] = IF b > of /\ b <= planned THEN size[b] ELSE 0
  BY <1>3 DEF LeftInv, of
<1>6. Stream!Step(of)
  <2>1. left[of] > 0
    BY <1>0, <1>4
  <2>2. \A c \in 0..(of - 1) : left[c] = 0
    BY <1>0, <1>5, StepSegmentsAssumption DEF Blocks
  <2>3. QED
    BY <1>0, <1>1, <2>1, <2>2 DEF Stream!Step
<1>7. LastBlock' = LastBlock /\ \A b \in Blocks : Unpublished(b)' = Unpublished(b)
  BY <1>0 DEF LastBlock, Unpublished, Loaded
<1>8. /\ Pending' \subseteq Pending
      /\ ToGo = 1 => Pending' = Pending \ {tail}
      /\ ToGo # 1 => Pending' = Pending
  BY <1>0, <1>1, BetweenTake DEF Pending
<1>9. RestInv(rest)'
  <2>1. \A i \in Pending : i \in Slots /\ seg[i].of \in Blocks
    BY <1>0 DEF IInv, TypeOK, Segment
  <2>2. ASSUME NEW i \in Pending
        PROVE  IF NextSlot(i) = head
                 THEN seg[i].of = LastBlock' /\ rest[i] = Unpublished(seg[i].of)'
                 ELSE RestOf(rest, i, NextSlot(i))'
    <3>1. Unpublished(seg[i].of)' = Unpublished(seg[i].of)
      BY <1>0, <1>7, <2>1
    <3>2. RestOf(rest, i, NextSlot(i))' <=> RestOf(rest, i, NextSlot(i))
      BY <1>0 DEF RestOf
    <3>3. QED
      BY <3>1, <3>2, <1>3, <1>7 DEF RestInv
  <2>3. QED
    BY <2>2, <1>0, <1>8 DEF RestInv
<1>10. FreshInv' /\ PlannedInv'
  BY <1>0, <1>8 DEF StreamInv, FreshInv, PlannedInv
<1>11. LeftInv(rest)'
  <2>1. CASE ToGo # 1
    <3>1. ToGo' = ToGo - 1 /\ tail' = tail
      BY <2>1, <1>1 DEF ToGo
    <3>2. \A b \in Blocks :
            left'[b] = IF b = of THEN ToGo' + rest[tail]
                       ELSE IF b > of /\ b <= planned THEN size[b] ELSE 0
      BY <3>1, <1>0, <1>2, <1>4, <1>5
    <3>3. QED
      BY <3>1, <3>2, <1>0 DEF LeftInv, of
  \* The segment is done; it was the last one ...
  <2>2. CASE ToGo = 1 /\ NextSlot(tail) = head
    <3>1. of = LastBlock /\ rest[tail] = Unpublished(of)
      BY <2>2, <1>0, <1>3 DEF RestInv, of
    <3>2. left'[of] = Unpublished(of)
      BY <2>2, <3>1, <1>2, <1>4
    <3>3. \A b \in Blocks : b # of => left[b] = Unpublished(b)
      <4> SUFFICES ASSUME NEW b \in Blocks, b # of
                   PROVE  Unpublished(b) = IF b > of /\ b <= planned THEN size[b] ELSE 0
        BY <1>5
      <4>1. discarded \in Nat /\ planned \in Nat /\ b \in Nat
            /\ (fresh => Loaded)
        BY LoadedFacts DEF Blocks, IInv, PrepInv
      <4>2. CASE Loaded /\ ~fresh
        BY <4>1, <4>2, <3>1 DEF Unpublished, LastBlock
      <4>3. CASE ~Loaded
        BY <4>1, <4>3, <3>1 DEF Unpublished, LastBlock
      <4>4. CASE fresh
        BY <4>1, <4>4, <3>1 DEF Unpublished, LastBlock, StreamInv, FreshInv
      <4>5. QED
        BY <4>2, <4>3, <4>4
    <3>4. \A b \in Blocks : left'[b] = Unpublished(b)'
      BY <3>2, <3>3, <1>2, <1>7
    <3>5. QED
      BY <2>2, <3>4, <1>0, <1>1 DEF LeftInv
  \* ... or is followed by one of the same block, or of the next block.
  <2>3. CASE ToGo = 1 /\ NextSlot(tail) # head
    <3> DEFINE next == seg[NextSlot(tail)]
    <3>1. NextSlot(tail) \in Pending /\ next.n \in Nat /\ next.of \in Blocks
          /\ next.of <= planned /\ rest[NextSlot(tail)] \in Nat
      <4>1. NextSlot(tail) \in Pending
        BY <2>3, <1>0, BetweenFacts DEF Pending
      <4>2. next \in Segment
        BY <1>0 DEF IInv, TypeOK
      <4>3. QED
        BY <4>1, <4>2, <1>0 DEF Segment, StreamInv, PlannedInv
    <3>2. \/ next.of = of /\ rest[tail] = next.n + rest[NextSlot(tail)]
          \/ /\ next.of = of + 1 /\ rest[tail] = 0
             /\ size[next.of] = next.n + rest[NextSlot(tail)]
      BY <2>3, <1>0, <1>3 DEF RestInv, RestOf, of
    <3>3. tail' = NextSlot(tail) /\ tail' # head /\ ToGo' = next.n
      BY <2>3, <1>0, <1>1 DEF ToGo
    <3> HIDE DEF next
    <3>4. of \in Nat /\ \A b \in Blocks : b \in Nat
      BY <1>0 DEF Blocks
    <3>5. \A b \in Blocks :
            left'[b] = IF b = next.of THEN next.n + rest[NextSlot(tail)]
                       ELSE IF b > next.of /\ b <= planned THEN size[b] ELSE 0
      <4>1. CASE next.of = of /\ rest[tail] = next.n + rest[NextSlot(tail)]
        BY <4>1, <2>3, <3>1, <1>2, <1>4, <1>5
      <4>2. CASE /\ next.of = of + 1 /\ rest[tail] = 0
                 /\ size[next.of] = next.n + rest[NextSlot(tail)]
        BY <4>2, <2>3, <3>1, <3>4, <1>0, <1>2, <1>4, <1>5
      <4>3. QED
        BY <3>2, <4>1, <4>2
    <3>6. QED
      BY <3>3, <3>5, <1>0 DEF LeftInv, next
  <2>4. QED
    BY <2>1, <2>2, <2>3
<1>12. QED
  BY <1>0, <1>3, <1>6, <1>9, <1>10, <1>11 DEF StreamInv

LEMMA TickStream ==
    ASSUME IInv, StreamInv, TickLoad \/ TickStep
    PROVE  StreamInv' /\ \E b \in Blocks : Stream!Step(b)
<1>1. CASE TickLoad
  <2>1. /\ head # tail /\ ~execSeg /\ tail \in Pending
    BY <1>1, BetweenFacts DEF TickLoad, IInv, TypeOK, Pending
  <2>2. seg[tail].n > 0 /\ ToGo = seg[tail].n
    BY <2>1 DEF IInv, PendingIntact, ToGo
  <2>3. QED
    BY <1>1, <2>1, <2>2, StepEventStream DEF TickLoad
<1>2. CASE TickStep
  <2>1. /\ execSeg /\ execIdx = seg[tail].idx /\ tail \in Pending
        /\ ToGo = stepCount /\ stepCount > 0
    BY <1>2 DEF TickStep, IInv, ExecutesItsBlock, ChainInv, ToGo
  <2>2. head # tail
    BY <2>1, BetweenFacts DEF IInv, TypeOK, Pending
  <2>3. QED
    BY <1>2, <2>1, <2>2, StepEventStream DEF TickStep
<1>3. QED
  BY <1>1, <1>2

-----------------------------------------------------------------------------
(* The refinement.                                                          *)

LEMMA InitStream == Init => StreamInv /\ Stream!Init
<1> SUFFICES ASSUME Init PROVE StreamInv /\ Stream!Init
  OBVIOUS
<1>1. Pending = {}
  BY StepSegmentsAssumption DEF Init, Pending, Between, Distance, Slots
<1>2. \A b \in Blocks : Unpublished(b) = 0
  BY StepSegmentsAssumption DEF Init, Unpublished, Blocks
<1>3. [i \in Slots |-> 0] \in [Slots -> Nat]
  OBVIOUS
<1>4. \A rest : RestInv(rest) /\ LeftInv(rest)
  BY <1>1, <1>2 DEF Init, RestInv, LeftInv
<1>5. FreshInv /\ PlannedInv
  BY <1>1 DEF Init, FreshInv, PlannedInv
<1>6. StreamInv
  BY <1>3, <1>4, <1>5 DEF StreamInv
<1>7. Stream!Init
  BY DEF Init, Stream!Init, Blocks
<1>8. QED
  BY <1>6, <1>7

\* Every step of the main program and the interrupts is a step of the stream or
\* none.
LEMMA NextStream ==
    ASSUME IInv, StreamInv, [Next]_vars
    PROVE  StreamInv' /\ [Stream!Next]_(Stream!vars)
<1>1. CASE \E n \in StepCounts : PlanBlock(n)
  BY <1>1, PlanBlockStream DEF Stream!Next
<1>2. CASE StReset
  BY <1>2, StResetStream DEF Stream!Next
<1>3. CASE TickLoad \/ TickStep
  BY <1>3, TickStream DEF Stream!Next, Blocks
<1>4. CASE \/ Replan \/ StartHold \/ CycleStop \/ CycleStart \/ WakeUp \/ StPrepBuffer
           \/ PrepReturn \/ Reload \/ TickIdle \/ Kill
  <2>1. StreamInv'
    BY <1>4, MainStream
  <2>2. UNCHANGED <<planned, left>>
    BY <1>4 DEF Replan, StartHold, CycleStop, CycleStart, WakeUp, StPrepBuffer, PrepReturn,
                Reload, TickIdle, Kill, planVars, isrVars
  <2>3. QED
    BY <2>1, <2>2 DEF Stream!vars
<1>5. CASE LoadBlock \/ BlockLoaded \/ NewSegment \/ SegmentSteps \/ Bail \/ Publish
  <2>1. StreamInv'
    BY <1>5, LoadBlockStream, BlockLoadedStream, WriteSegmentStream, PublishStream
  <2>2. UNCHANGED <<planned, left>>
    BY <1>5 DEF LoadBlock, BlockLoaded, NewSegment, SegmentSteps, Bail, Publish,
                planVars, isrVars
  <2>3. QED
    BY <2>1, <2>2 DEF Stream!vars
<1>6. CASE UNCHANGED vars
  <2>1. UNCHANGED <<planned, left>>
    BY <1>6 DEF vars, planVars, isrVars
  <2>2. StreamInv'
    <3>1. /\ UNCHANGED <<head, tail, left, execSeg, stepCount, size, planned, seg, fresh,
                         discarded, stepsRem, plBlock, recalc, pc>>
      BY <1>6 DEF vars, planVars, prepVars, pcVars, ringVars, isrVars
    <3>2. /\ FreshInv' /\ LastBlock' = LastBlock
          /\ \A b \in Blocks : Unpublished(b)' = Unpublished(b)
      BY <3>1 DEF StreamInv, FreshInv, LastBlock, Unpublished, Loaded
    <3>3. QED
      BY <3>1, <3>2, StreamKept
  <2>3. QED
    BY <2>1, <2>2 DEF Stream!vars
<1>7. QED
  BY <1>1, <1>2, <1>3, <1>4, <1>5, <1>6 DEF Next, MainProgram, Prep, Interrupts

\* The segment ring, the ring of block data and the interrupt execute the steps
\* of the planned blocks as StepStream promises, whatever the sizes of the
\* rings: none is lost, repeated or out of order, but for a flush (stepper.c).
THEOREM ImplementsStream == Spec => ImplementsStepStream
<1>1. Init => StreamInv /\ Stream!Init
  BY InitStream
<1>2. IInv /\ StreamInv /\ [Next]_vars => StreamInv' /\ [Stream!Next]_(Stream!vars)
  BY NextStream
<1>3. QED
  BY <1>1, <1>2, Inductive, PTL DEF Spec, ImplementsStepStream, Stream!Spec

\* When the planner and the segment ring are empty, every step of every block
\* that was planned and not flushed has been made (what the main program takes
\* an empty planner and the end of the cycle for: stepper.c, protocol.c).
DoneMeansExecuted ==
    discarded = planned /\ head = tail => \A b \in Blocks : left[b] = 0

\* For every size of the rings the end of the motion leaves no step behind.
THEOREM NothingLeftBehind == Spec => []DoneMeansExecuted
<1>1. Init => StreamInv
  BY InitStream
<1>2. IInv /\ StreamInv /\ [Next]_vars => StreamInv'
  BY NextStream
<1>3. IInv /\ StreamInv => DoneMeansExecuted
  <2> SUFFICES ASSUME IInv, StreamInv, discarded = planned, head = tail,
                      NEW b \in Blocks
               PROVE  left[b] = 0
    BY DEF DoneMeansExecuted
  <2>1. PICK rest \in [Slots -> Nat] : LeftInv(rest)
    BY DEF StreamInv
  <2>2. Unpublished(b) = 0
    BY LoadedFacts DEF Unpublished, Blocks
  <2>3. QED
    BY <2>1, <2>2 DEF LeftInv
<1>4. QED
  BY <1>1, <1>2, <1>3, Inductive, PTL DEF Spec
==============================================================================
