------------------------ MODULE StepSegments_proofs ------------------------
EXTENDS StepSegments, TLAPS

-----------------------------------------------------------------------------
(* The rings.                                                                *)

\* Both successor functions stay inside their ring and move.
LEMMA SlotFacts ==
    /\ \A i \in Slots : NextSlot(i) \in Slots /\ NextSlot(i) # i
    /\ \A i \in StSlots : NextStSlot(i) \in StSlots /\ NextStSlot(i) # i
BY StepSegmentsAssumption DEF Slots, StSlots, NextSlot, NextStSlot

\* What Between(t, h) contains at its two ends.
LEMMA BetweenFacts ==
    ASSUME NEW t \in Slots, NEW h \in Slots
    PROVE  /\ Between(t, h) \subseteq Slots
           /\ h \notin Between(t, h)
           /\ Distance(t, h, SegBufSize) \in 0..(SegBufSize - 1)
           /\ t = h => Between(t, h) = {}
           /\ t # h => t \in Between(t, h)
           /\ \A i \in Between(t, h) :
                 /\ Distance(i, h, SegBufSize) \in 1..Distance(t, h, SegBufSize)
                 /\ NextSlot(i) # h => NextSlot(i) \in Between(t, h)
                 /\ NextSlot(i) # t
BY StepSegmentsAssumption DEF Slots, Between, Distance, NextSlot

\* The consumer takes the slot at t.
LEMMA BetweenTake ==
    ASSUME NEW t \in Slots, NEW h \in Slots, t # h
    PROVE  Between(NextSlot(t), h) = Between(t, h) \ {t}
BY StepSegmentsAssumption DEF Slots, Between, Distance, NextSlot

\* The producer adds the slot at h.
LEMMA BetweenAdd ==
    ASSUME NEW t \in Slots, NEW h \in Slots, NextSlot(h) # t
    PROVE  /\ Between(t, NextSlot(h)) = Between(t, h) \union {h}
           /\ Distance(h, NextSlot(h), SegBufSize) = 1
           /\ Distance(t, h, SegBufSize) <= SegBufSize - 2
           /\ \A i \in Between(t, h) :
                 Distance(i, NextSlot(h), SegBufSize) = Distance(i, h, SegBufSize) + 1
BY StepSegmentsAssumption DEF Slots, Between, Distance, NextSlot

\* One step of the data ring.
LEMMA StDistance ==
    ASSUME NEW i \in StSlots, NEW j \in StSlots
    PROVE  /\ Distance(i, j, SegBufSize - 1) \in 0..(SegBufSize - 2)
           /\ Distance(i, i, SegBufSize - 1) = 0
           /\ Distance(i, j, SegBufSize - 1) < SegBufSize - 2 =>
                 /\ i # NextStSlot(j)
                 /\ Distance(i, NextStSlot(j), SegBufSize - 1)
                       = Distance(i, j, SegBufSize - 1) + 1
BY StepSegmentsAssumption DEF StSlots, Distance, NextStSlot

-----------------------------------------------------------------------------
(* Two kinds of steps that do not disturb the published segments.            *)

\* The part of the invariant that is about the rings.
RingInv == DistInv /\ ChainInv /\ PendingIntact /\ ExecutesItsBlock

\* Steps that leave the rings, the interrupt and the prepared index alone.
LEMMA RingUnchanged ==
    ASSUME RingInv,
           UNCHANGED <<head, tail, seg, stBlock, execSeg, stepCount, execIdx,
                       counters, prepIdx, fresh, discarded>>,
           Loaded' => Loaded
    PROVE  RingInv'
<1>1. Pending' = Pending
  BY DEF Pending
<1>2. DistInv' /\ PendingIntact' /\ ExecutesItsBlock'
  BY <1>1 DEF RingInv, DistInv, PendingIntact, ExecutesItsBlock
<1>3. ChainInv'
  BY <1>1 DEF RingInv, ChainInv, LastInv, Follows
<1>4. QED
  BY <1>2, <1>3 DEF RingInv

\* Steps that write to the segment at head, which is not published.
LEMMA SegmentAtHead ==
    ASSUME TypeOK, RingInv, NEW s, seg' = [seg EXCEPT ![head] = s],
           UNCHANGED <<head, tail, stBlock, execSeg, stepCount, execIdx,
                       counters, prepIdx, fresh, discarded, plBlock, recalc>>
    PROVE  RingInv'
<1>0. head \in Slots /\ tail \in Slots /\ seg \in [Slots -> Segment]
  BY DEF TypeOK
<1>1. /\ Pending' = Pending /\ Loaded' = Loaded
      /\ \A i \in Pending : i # head /\ seg'[i] = seg[i]
      /\ \A i \in Pending : NextSlot(i) # head => seg'[NextSlot(i)] = seg[NextSlot(i)]
      /\ head # tail => seg'[tail] = seg[tail]
  BY <1>0, BetweenFacts DEF Pending, Loaded
<1>2. DistInv'
  BY <1>1 DEF RingInv, DistInv
<1>3. PendingIntact' 
  BY <1>1 DEF RingInv, PendingIntact
<1>4. ExecutesItsBlock'
  BY <1>1 DEF RingInv, ExecutesItsBlock
<1>5. \A i \in Pending' :
         IF NextSlot(i) = head' THEN (LastInv(seg[i].idx, seg[i].of))'
         ELSE (Follows(seg[i].idx, seg[i].of, seg[NextSlot(i)].idx, seg[NextSlot(i)].of))'
  BY <1>1 DEF RingInv, ChainInv, LastInv, Follows
<1>6. ChainInv'
  BY <1>1, <1>5 DEF RingInv, ChainInv, LastInv, Follows
<1>7. QED
  BY <1>2, <1>3, <1>4, <1>6 DEF RingInv

-----------------------------------------------------------------------------
(* Init.                                                                     *)

LEMMA InitIInv == Init => IInv
<1> SUFFICES ASSUME Init PROVE IInv
  OBVIOUS
<1>1. TypeOK
  <2>1. {0, 1} \subseteq Slots /\ 0 \in StSlots /\ 0 \in Blocks
    BY StepSegmentsAssumption DEF Slots, StSlots, Blocks
  <2>2. seg \in [Slots -> Segment]
    BY <2>1 DEF Init, Segment
  <2>3. size \in [Blocks -> Nat] /\ left \in [Blocks -> Int]
    BY DEF Init
  <2>4. stBlock \in [StSlots -> Blocks]
    BY <2>1 DEF Init
  <2>5. QED
    BY <2>1, <2>2, <2>3, <2>4 DEF Init, TypeOK
<1>2. PrepInv
  BY StepSegmentsAssumption DEF Init, PrepInv, Blocks, Loaded, RingFull, NextSlot
<1>3. Pending = {}
  BY StepSegmentsAssumption DEF Init, Pending, Between, Distance, Slots
<1>4. DistInv /\ PendingIntact /\ ExecutesItsBlock
  BY <1>3 DEF Init, DistInv, PendingIntact, ExecutesItsBlock
<1>5. ChainInv
  BY <1>3 DEF Init, ChainInv, LastInv, Loaded
<1>6. QED
  BY <1>1, <1>2, <1>4, <1>5 DEF IInv

-----------------------------------------------------------------------------
(* The main program.                                                         *)

LEMMA PlanBlockIInv ==
    ASSUME IInv, NEW n \in StepCounts, PlanBlock(n)  PROVE IInv'
<1> USE DEF PlanBlock, planVars, prepVars, ctlVars, pcVars, ringVars, isrVars, runVars,
            UpdatePlanBlock
<1>1. Loaded' => Loaded
  BY DEF Loaded
<1>2. TypeOK'
  <2>1. n \in Nat /\ n \in Int
    BY StepSegmentsAssumption
  <2>2. size' \in [Blocks -> Nat]
    BY <2>1 DEF IInv, TypeOK
  <2>3. left' \in [Blocks -> Int]
    BY <2>1 DEF IInv, TypeOK
  <2>4. planned' \in Blocks
    BY StepSegmentsAssumption DEF IInv, TypeOK, Blocks
  <2>5. plBlock' \in Blocks /\ recalc' \in BOOLEAN
    <3>1. plBlock' \in Blocks
      BY StepSegmentsAssumption DEF IInv, TypeOK, Blocks
    <3>2. recalc' \in BOOLEAN
      BY DEF IInv, TypeOK
    <3>3. QED
      BY <3>1, <3>2
  <2>6. QED
    BY <2>2, <2>3, <2>4, <2>5 DEF IInv, TypeOK
<1>3. PrepInv'
  <2>1. \A b \in Blocks : b > discarded' /\ b <= planned' => size'[b] > 0
    BY StepSegmentsAssumption DEF IInv, TypeOK, Blocks, PrepInv
  <2>2. /\ nextHead' = NextSlot(head') /\ discarded' <= planned'
        /\ Loaded' => discarded' < planned'
    BY <1>1 DEF IInv, PrepInv, TypeOK, Blocks, NextSlot
  <2>3. plBlock' # 0 => plBlock' = discarded' + 1 /\ ~recalc'
    BY DEF IInv, PrepInv
  <2>4. fresh' => Loaded'
    BY DEF IInv, PrepInv, Loaded
  <2>5. Loaded' /\ pc' # "load" => stBlock'[prepIdx'] = discarded' + 1 /\ stepsRem' > 0
    BY <1>1 DEF IInv, PrepInv
  <2>6. QED
    BY <2>1, <2>2, <2>3, <2>4, <2>5 DEF PrepInv
<1>4. QED
  BY <1>1, <1>2, <1>3, RingUnchanged DEF IInv, RingInv

\* The actions that at most have the block in preparation reloaded.
LEMMA UpdateIInv ==
    ASSUME IInv, Replan \/ StartHold \/ CycleStop  PROVE IInv'
<1> USE DEF Replan, StartHold, CycleStop, planVars, prepVars, ctlVars, pcVars, ringVars,
            isrVars, runVars, UpdatePlanBlock
<1>1. Loaded' => Loaded
  BY DEF Loaded
<1>2. TypeOK'
  <2>1. hold' \in BOOLEAN /\ endMotion' \in BOOLEAN
    BY DEF IInv, TypeOK
  <2>2. plBlock' \in Blocks /\ recalc' \in BOOLEAN
    <3>1. plBlock' = 0 \/ plBlock' = plBlock
      OBVIOUS
    <3>2. recalc' \in BOOLEAN
      BY DEF IInv, TypeOK
    <3>3. QED
      <4>1. 0 \in Blocks /\ plBlock \in Blocks
        BY StepSegmentsAssumption DEF IInv, TypeOK, Blocks
      <4>2. QED
        BY <3>1, <3>2, <4>1
  <2>3. cycleStop' \in BOOLEAN
    BY DEF IInv, TypeOK
  <2>4. QED
    BY <2>1, <2>2, <2>3 DEF IInv, TypeOK
<1>3. PrepInv'
  <2>1. plBlock' # 0 => plBlock' = discarded' + 1 /\ ~recalc'
    BY DEF IInv, PrepInv
  <2>2. fresh' => Loaded'
    BY DEF IInv, PrepInv, Loaded
  <2>3. Loaded' /\ pc' # "load" => stBlock'[prepIdx'] = discarded' + 1 /\ stepsRem' > 0
    BY <1>1 DEF IInv, PrepInv
  <2>4. pc' = "main"
    OBVIOUS
  <2>5. QED
    BY <1>1, <2>1, <2>2, <2>3, <2>4 DEF IInv, PrepInv
<1>4. QED
  BY <1>1, <1>2, <1>3, RingUnchanged DEF IInv, RingInv

\* The actions that move the main program on, or only touch the interrupt's
\* enable bit and the step control.
LEMMA ControlIInv ==
    ASSUME IInv,
           CycleStart \/ WakeUp \/ StPrepBuffer \/ PrepReturn \/ TickIdle \/ Kill
    PROVE  IInv'
<1> USE DEF CycleStart, WakeUp, StPrepBuffer, PrepReturn, TickIdle, Kill, planVars,
            prepVars, ctlVars, pcVars, ringVars, isrVars, runVars
<1>1. Loaded' = Loaded /\ RingFull' = RingFull
  BY DEF Loaded, RingFull
<1>2. TypeOK'
  <2>1. hold' \in BOOLEAN /\ endMotion' \in BOOLEAN
    BY DEF IInv, TypeOK
  <2>2. cycleStop' \in BOOLEAN /\ awake' \in BOOLEAN
    BY DEF IInv, TypeOK
  <2>3. /\ pc' \in {"main", "prep", "load", "segment", "steps", "publish", "wake"}
        /\ ret' \in {"main", "wake"}
    BY DEF IInv, TypeOK
  <2>4. QED
    BY <2>1, <2>2, <2>3 DEF IInv, TypeOK
<1>3. PrepInv'
  <2>1. pc' = pc \/ (pc # "load" /\ pc' \in {"main", "prep", "wake"})
    BY DEF IInv, TypeOK
  <2>2. UNCHANGED <<size, planned, discarded, plBlock, recalc, prepIdx, stepsRem, fresh,
                    head, nextHead, seg, stBlock>>
    OBVIOUS
  <2>3. QED
    BY <1>1, <2>1, <2>2 DEF IInv, PrepInv
<1>4. QED
  BY <1>1, <1>2, <1>3, RingUnchanged DEF IInv, RingInv

LEMMA StResetIInv == ASSUME IInv, StReset PROVE IInv'
<1> USE DEF StReset, planVars, pcVars
<1>1. {0, 1} \subseteq Slots /\ 0 \in StSlots /\ 0 \in Blocks
  BY StepSegmentsAssumption DEF Slots, StSlots, Blocks
<1>2. TypeOK'
  <2>1. left' \in [Blocks -> Int]
    OBVIOUS
  <2>2. QED
    BY <1>1, <2>1 DEF IInv, TypeOK
<1>3. PrepInv'
  BY StepSegmentsAssumption DEF IInv, TypeOK, PrepInv, Loaded, NextSlot, Blocks
<1>4. Pending' = {}
  BY <1>1, BetweenFacts DEF Pending
<1>5. DistInv' /\ PendingIntact' /\ ExecutesItsBlock'
  BY <1>4 DEF DistInv, PendingIntact, ExecutesItsBlock
<1>6. ChainInv'
  BY <1>4 DEF ChainInv, LastInv, Loaded
<1>7. QED
  BY <1>2, <1>3, <1>5, <1>6 DEF IInv

-----------------------------------------------------------------------------
(* st_prep_buffer().                                                         *)

LEMMA ReloadIInv == ASSUME IInv, Reload PROVE IInv'
<1> USE DEF Reload, NeedsBlock, planVars, ctlVars, ringVars, isrVars, runVars
<1>1. Loaded' /\ Loaded /\ RingFull' = RingFull
  BY StepSegmentsAssumption DEF Loaded, IInv, TypeOK, Blocks, RingFull
<1>2. TypeOK'
  <2>1. plBlock' \in Blocks
    BY StepSegmentsAssumption DEF IInv, TypeOK, Blocks
  <2>2. QED
    BY <2>1 DEF IInv, TypeOK
<1>3. PrepInv'
  <2>1. plBlock' # 0 /\ plBlock' = discarded' + 1 /\ ~recalc'
    BY DEF IInv, TypeOK, Blocks
  <2>2. QED
    BY <1>1, <2>1 DEF IInv, PrepInv
<1>4. QED
  BY <1>1, <1>2, <1>3, RingUnchanged DEF IInv, RingInv

LEMMA LoadBlockIInv == ASSUME IInv, LoadBlock PROVE IInv'
<1> USE DEF LoadBlock, NeedsBlock, planVars, ctlVars, isrVars, runVars
<1>0. /\ head \in Slots /\ tail \in Slots /\ nextHead = NextSlot(head) /\ nextHead # tail
      /\ prepIdx \in StSlots /\ execIdx \in StSlots /\ seg \in [Slots -> Segment]
      /\ ~Loaded /\ ~fresh /\ Loaded' /\ fresh' /\ Pending' = Pending
      /\ Pending \subseteq Slots
  BY BetweenFacts DEF IInv, TypeOK, PrepInv, Loaded, RingFull, Pending, Blocks
<1>1. TypeOK'
  <2>1. plBlock' \in Blocks
    BY StepSegmentsAssumption DEF IInv, TypeOK, Blocks
  <2>2. prepIdx' \in StSlots
    BY SlotFacts DEF IInv, TypeOK
  <2>3. stBlock' \in [StSlots -> Blocks]
    BY StepSegmentsAssumption DEF IInv, TypeOK, Blocks
  <2>4. QED
    BY <2>1, <2>2, <2>3 DEF IInv, TypeOK
<1>2. PrepInv'
  <2>1. plBlock' # 0 /\ plBlock' = discarded' + 1
    BY DEF IInv, TypeOK, Blocks
  <2>2. QED
    BY <1>0, <2>1 DEF IInv, PrepInv, RingFull
\* The next entry of the data ring is not that of a pending segment.
<1>3. \A i \in Pending :
        /\ seg[i].idx \in StSlots /\ seg[i].idx # prepIdx'
        /\ Distance(seg[i].idx, prepIdx', SegBufSize - 1) =
              Distance(seg[i].idx, prepIdx, SegBufSize - 1) + 1
  <2> TAKE i \in Pending
  <2>1. seg[i].idx \in StSlots
    BY <1>0 DEF Segment
  <2>2. Distance(seg[i].idx, prepIdx, SegBufSize - 1) + 1 <= Distance(i, head, SegBufSize)
    BY <1>0 DEF IInv, DistInv
  <2>3. Distance(i, head, SegBufSize) <= SegBufSize - 2
    <3>1. /\ Distance(tail, head, SegBufSize) \in 0..(SegBufSize - 2)
          /\ Distance(i, head, SegBufSize) \in 1..Distance(tail, head, SegBufSize)
      BY <1>0, BetweenFacts, BetweenAdd, StepSegmentsAssumption DEF Pending
    <3>2. QED
      BY <3>1, StepSegmentsAssumption
  <2>4. Distance(seg[i].idx, prepIdx, SegBufSize - 1) < SegBufSize - 2
    <3>1. /\ Distance(seg[i].idx, prepIdx, SegBufSize - 1) \in Int
          /\ Distance(i, head, SegBufSize) \in Int
      BY <1>0, <2>1, StDistance, BetweenFacts, StepSegmentsAssumption DEF Pending
    <3>2. QED
      BY <2>2, <2>3, <3>1, StepSegmentsAssumption
  <2>5. QED
    BY <1>0, <2>1, <2>4, StDistance
<1>4. DistInv'
  <2>1. \A i \in Pending :
          Distance(seg[i].idx, prepIdx, SegBufSize - 1) + 1 <= Distance(i, head, SegBufSize)
    BY <1>0 DEF IInv, DistInv
  <2>2. \A i \in Pending : Distance(seg[i].idx, prepIdx', SegBufSize - 1) \in Int
    BY <1>0, <1>1, <1>3, StDistance, StepSegmentsAssumption DEF TypeOK
  <2>3. \A i \in Pending :
          /\ Distance(seg[i].idx, prepIdx', SegBufSize - 1) + 0 <= Distance(i, head, SegBufSize)
          /\ seg[i].idx # prepIdx'
    BY <1>3, <2>1, <2>2
  <2>4. QED
    BY <1>0, <2>3 DEF DistInv
<1>5. PendingIntact' /\ ExecutesItsBlock'
  BY <1>0, <1>3 DEF IInv, PendingIntact, ExecutesItsBlock, TypeOK
<1>6. ChainInv'
  BY <1>0 DEF IInv, ChainInv, LastInv, Follows
<1>7. QED
  BY <1>1, <1>2, <1>4, <1>5, <1>6 DEF IInv

LEMMA BlockLoadedIInv == ASSUME IInv, BlockLoaded PROVE IInv'
<1> USE DEF BlockLoaded, planVars, ctlVars, isrVars, runVars
<1>0. /\ plBlock # 0 /\ plBlock = discarded + 1 /\ fresh /\ Loaded
      /\ plBlock <= planned /\ prepIdx \in StSlots
      /\ Pending' = Pending /\ Loaded' = Loaded
  BY DEF IInv, TypeOK, PrepInv, Loaded, Pending, Blocks
<1>1. TypeOK'
  <2>1. stepsRem' \in Nat /\ stBlock' \in [StSlots -> Blocks]
    BY DEF IInv, TypeOK
  <2>2. QED
    BY <2>1 DEF IInv, TypeOK
<1>2. PrepInv'
  <2>1. stBlock'[prepIdx'] = discarded' + 1 /\ stepsRem' > 0
    BY <1>0 DEF IInv, TypeOK, PrepInv, Blocks
  <2>2. QED
    BY <1>0, <2>1 DEF IInv, PrepInv, RingFull
<1>3. PendingIntact'
  BY <1>0 DEF IInv, DistInv, PendingIntact, TypeOK
<1>4. DistInv' /\ ExecutesItsBlock'
  BY <1>0 DEF IInv, DistInv, ExecutesItsBlock
<1>5. ChainInv'
  BY <1>0 DEF IInv, ChainInv, LastInv, Follows
<1>6. QED
  BY <1>1, <1>2, <1>3, <1>4, <1>5 DEF IInv

\* The actions that write to the segment at head.
LEMMA WriteSegmentIInv ==
    ASSUME IInv, NewSegment \/ SegmentSteps \/ Bail  PROVE IInv'
<1> USE DEF NewSegment, SegmentSteps, Bail, planVars, prepVars, ctlVars, isrVars, runVars
<1>0. /\ head \in Slots /\ prepIdx \in StSlots /\ plBlock \in Blocks /\ stepsRem \in Nat
      /\ seg \in [Slots -> Segment] /\ ~RingFull /\ plBlock # 0
      /\ Loaded' = Loaded /\ RingFull' = RingFull
  BY DEF IInv, TypeOK, PrepInv, Loaded, RingFull
<1>1. PICK s \in Segment :
        /\ seg' = [seg EXCEPT ![head] = s]
        /\ NewSegment => s.idx = prepIdx /\ s.of = plBlock
        /\ SegmentSteps \/ Bail => s.idx = seg[head].idx /\ s.of = seg[head].of
        /\ SegmentSteps => s.n \in 1..stepsRem
  <2>1. CASE NewSegment
    BY <1>0, <2>1 DEF Segment
  <2>2. CASE SegmentSteps
    <3>1. PICK n \in 1..stepsRem : seg' = [seg EXCEPT ![head].n = n]
      BY <2>2
    <3>2. [seg[head] EXCEPT !.n = n] \in Segment
      BY <1>0 DEF Segment
    <3>3. QED
      BY <1>0, <2>2, <3>1, <3>2 DEF Segment
  <2>3. CASE Bail
    <3>1. [seg[head] EXCEPT !.n = 0] \in Segment
      BY <1>0 DEF Segment
    <3>2. QED
      BY <1>0, <2>3, <3>1 DEF Segment
  <2>4. QED
    BY <2>1, <2>2, <2>3
<1>2. TypeOK'
  <2>1. seg' \in [Slots -> Segment]
    BY <1>0, <1>1
  <2>2. pc' \in {"main", "prep", "load", "segment", "steps", "publish", "wake"}
    BY DEF IInv, TypeOK
  <2>3. QED
    BY <2>1, <2>2 DEF IInv, TypeOK
<1>3. PrepInv'
  <2>1. seg'[head] \in Segment /\ seg'[head] = seg'[head']
    BY <1>0, <1>1
  <2>2. pc' \in {"steps", "publish"} => seg'[head'].idx = prepIdx' /\ seg'[head'].of = plBlock'
    BY <1>0, <1>1, <2>1 DEF IInv, PrepInv, TypeOK
  <2>3. pc' = "publish" => seg'[head'].n \in 1..stepsRem'
    BY <1>0, <1>1, <2>1 DEF IInv, TypeOK
  <2>4. pc' # "load" /\ pc # "load"
    BY DEF IInv, TypeOK
  <2>5. QED
    BY <1>0, <2>2, <2>3, <2>4 DEF IInv, PrepInv
<1>4. RingInv'
  BY <1>1, SegmentAtHead DEF IInv, RingInv
<1>5. QED
  BY <1>2, <1>3, <1>4 DEF IInv, RingInv

LEMMA PublishIInv == ASSUME IInv, Publish PROVE IInv'
<1> USE DEF Publish, planVars, isrVars, runVars
<1>0. /\ head \in Slots /\ tail \in Slots /\ head' = NextSlot(head) /\ head' # tail
      /\ head' \in Slots /\ nextHead' \in Slots /\ prepIdx \in StSlots
      /\ plBlock # 0 /\ plBlock = discarded + 1 /\ ~recalc /\ discarded < planned
      /\ planned \in Blocks /\ discarded \in Blocks /\ plBlock \in Blocks
      /\ stepsRem \in Nat /\ seg[head].n \in 1..stepsRem
      /\ seg[head].idx = prepIdx /\ seg[head].of = plBlock /\ stBlock[prepIdx] = plBlock
  <2>1. nextHead \in Slots /\ nextHead = NextSlot(head)
    BY DEF IInv, TypeOK, PrepInv
  <2>2. QED
    BY <2>1, SlotFacts DEF IInv, TypeOK, PrepInv, RingFull, Loaded
<1>1. stepsRem' \in Nat
  BY <1>0
<1>2. TypeOK'
  <2>1. discarded' \in Blocks /\ plBlock' \in Blocks
    BY <1>0, StepSegmentsAssumption DEF Blocks
  <2>2. /\ pc' \in {"main", "prep", "load", "segment", "steps", "publish", "wake"}
        /\ endMotion' \in BOOLEAN
    BY DEF IInv, TypeOK
  <2>3. QED
    BY <1>0, <1>1, <2>1, <2>2 DEF IInv, TypeOK
<1>3. PrepInv'
  <2>1. discarded' <= planned' /\ discarded' \in Nat /\ discarded <= discarded'
    BY <1>0 DEF Blocks
  <2>2. Loaded' => /\ discarded' = discarded /\ plBlock' = plBlock /\ stepsRem' > 0
    BY <1>0 DEF Loaded
  <2>3. plBlock' # 0 => plBlock' = discarded' + 1 /\ ~recalc'
    BY <1>0
  <2>4. pc' \notin {"load", "segment", "steps", "publish"}
    BY DEF IInv, TypeOK
  <2>5. \A b \in Blocks : b > discarded' /\ b <= planned' => size'[b] > 0
    BY <1>0, <2>1 DEF IInv, PrepInv, Blocks
  <2>6. QED
    BY <1>0, <2>1, <2>2, <2>3, <2>4, <2>5 DEF PrepInv
<1>4. /\ Pending' = Pending \union {head} /\ Pending \subseteq Slots
      /\ head \notin Pending
      /\ Distance(head, head', SegBufSize) = 1
      /\ \A i \in Pending :
           Distance(i, head', SegBufSize) = Distance(i, head, SegBufSize) + 1
  BY <1>0, BetweenAdd, BetweenFacts DEF Pending
<1>5. DistInv'
  <2>1. \A i \in Pending :
          Distance(seg[i].idx, prepIdx, SegBufSize - 1) + 1 <= Distance(i, head', SegBufSize)
    <3> TAKE i \in Pending
    <3>1. seg[i].idx \in StSlots
      BY <1>4 DEF IInv, TypeOK, Segment
    <3>2. Distance(seg[i].idx, prepIdx, SegBufSize - 1) \in Int
      BY <1>0, <3>1, StDistance, StepSegmentsAssumption
    <3>3. Distance(i, head, SegBufSize) \in Int
      BY <1>0, BetweenFacts, StepSegmentsAssumption DEF Pending
    <3>4. Distance(seg[i].idx, prepIdx, SegBufSize - 1) <= Distance(i, head, SegBufSize)
      BY <3>2, <3>3 DEF IInv, DistInv
    <3>5. QED
      BY <1>4, <3>2, <3>3, <3>4
  <2>2. Distance(seg[head].idx, prepIdx, SegBufSize - 1) + 1
          <= Distance(head, head', SegBufSize)
    BY <1>0, <1>4, StDistance
  <2>3. QED
    BY <1>4, <2>1, <2>2 DEF DistInv
<1>6. PendingIntact' /\ ExecutesItsBlock'
  BY <1>0, <1>4 DEF IInv, PendingIntact, ExecutesItsBlock
<1>7. ChainInv'
  \* The segment published now is the last one ...
  <2>1. ~fresh' /\ prepIdx' = seg[head].idx /\ (Loaded' => seg[head].of = discarded' + 1)
    BY <1>0 DEF Loaded
  \* ... and follows the one published before it.
  <2>2. \A idx, of : LastInv(idx, of) => Follows(idx, of, seg[head].idx, seg[head].of)
    BY <1>0 DEF LastInv, Follows, Loaded
  <2>3. \A i \in Pending : NextSlot(i) # head'
    BY <1>0, <1>4, SlotFacts, StepSegmentsAssumption DEF NextSlot, Slots
  <2>4. \A i \in Pending :
          Follows(seg[i].idx, seg[i].of, seg[NextSlot(i)].idx, seg[NextSlot(i)].of)
    BY <2>2 DEF IInv, ChainInv
  <2>5. head # tail /\ ~execSeg => Follows(execIdx, counters, seg[tail].idx, seg[tail].of)
    BY DEF IInv, ChainInv
  <2>6. head = tail => Follows(execIdx, counters, seg[tail].idx, seg[tail].of)
    BY <2>2 DEF IInv, ChainInv
  <2>7. execSeg => stepCount > 0
    BY DEF IInv, ChainInv
  <2>8. QED
    BY <1>0, <1>4, <2>1, <2>3, <2>4, <2>5, <2>6, <2>7 DEF ChainInv, Follows, LastInv
<1>8. QED
  BY <1>2, <1>3, <1>5, <1>6, <1>7 DEF IInv

-----------------------------------------------------------------------------
(* The step interrupt.                                                       *)

\* A step event with the data at idx, c steps of the segment to go; the segment
\* at tail is the one executed, and counters' are those of its block.
LEMMA StepEventIInv ==
    ASSUME IInv, head # tail, NEW c \in Nat, c > 0, StepEvent(seg[tail].idx, c),
           execIdx' = seg[tail].idx, counters' = seg[tail].of,
           UNCHANGED <<planVars, prepVars, ctlVars, pcVars, ringVars, runVars>>
    PROVE  IInv'
<1> USE DEF planVars, prepVars, ctlVars, pcVars, ringVars, runVars
<1>0. /\ head \in Slots /\ tail \in Slots /\ seg[tail] \in Segment
      /\ NextSlot(tail) \in Slots /\ tail \in Pending /\ Loaded' = Loaded
      /\ Pending \subseteq Slots
  BY SlotFacts, BetweenFacts DEF IInv, TypeOK, Pending, Loaded
<1>1. /\ left' = [left EXCEPT ![stBlock[seg[tail].idx]] = @ - 1]
      /\ stepCount' = c - 1
      /\ c = 1 => ~execSeg' /\ tail' = NextSlot(tail)
      /\ c # 1 => execSeg' /\ tail' = tail
      /\ execSeg' \in BOOLEAN
  <2>1. Decrement(c) = c - 1
    BY DEF Decrement
  <2>2. /\ left' = [left EXCEPT ![stBlock[seg[tail].idx]] = @ - 1]
        /\ stepCount' = c - 1
        /\ execSeg' = (c - 1 # 0)
        /\ tail' = IF c - 1 = 0 THEN NextSlot(tail) ELSE tail
    BY <2>1 DEF StepEvent
  <2>3. CASE c = 1
    <3>0. c - 1 = 0
      BY <2>3
    <3>1. execSeg' = FALSE /\ tail' = NextSlot(tail)
      BY <2>2, <3>0
    <3>2. QED
      BY <2>2, <2>3, <3>1
  <2>4. CASE c # 1
    <3>0. c - 1 # 0
      BY <2>4
    <3>1. execSeg' = TRUE /\ tail' = tail
      BY <2>2, <3>0
    <3>2. QED
      BY <2>2, <2>4, <3>1
  <2>5. QED
    BY <2>3, <2>4
<1>2. TypeOK'
  <2>1. left' \in [Blocks -> Int]
    <3>1. stBlock[seg[tail].idx] \in Blocks /\ left \in [Blocks -> Int]
      BY <1>0 DEF IInv, TypeOK, Segment
    <3>2. QED
      BY <1>1, <3>1
  <2>2. tail' \in Slots
    BY <1>0, <1>1
  <2>3. stepCount' \in Nat
    BY <1>1
  <2>4. execIdx' \in StSlots /\ counters' \in Blocks
    BY <1>0 DEF Segment
  <2>5. QED
    BY <1>1, <2>1, <2>2, <2>3, <2>4 DEF IInv, TypeOK
<1>3. /\ Pending' \subseteq Pending
      /\ tail' # tail => Pending' = Pending \ {tail}
      /\ tail' = tail => Pending' = Pending
  BY <1>0, <1>1, BetweenTake DEF Pending
<1>4. PrepInv'
  <2>1. RingFull' => tail' = NextSlot(tail) \/ RingFull
    BY <1>1 DEF RingFull
  <2>2. pc \in {"load", "segment", "steps", "publish"} => ~RingFull'
    <3> SUFFICES ASSUME pc \in {"load", "segment", "steps", "publish"} PROVE ~RingFull'
      OBVIOUS
    <3>1. nextHead # tail /\ nextHead = NextSlot(head)
      BY DEF IInv, PrepInv, RingFull
    <3>2. NextSlot(tail) # nextHead
      BY <1>0, <3>1, StepSegmentsAssumption DEF NextSlot, Slots
    <3>3. QED
      BY <1>1, <3>1, <3>2 DEF RingFull
  <2>3. QED
    BY <1>0, <2>2 DEF IInv, PrepInv
<1>5. DistInv' /\ PendingIntact'
  BY <1>3 DEF IInv, DistInv, PendingIntact
<1>6. ExecutesItsBlock'
  BY <1>0, <1>1, <1>3, SlotFacts DEF ExecutesItsBlock
<1>7. ChainInv'
  <2>1. \A i \in Pending' :
          IF NextSlot(i) = head THEN LastInv(seg[i].idx, seg[i].of)
          ELSE Follows(seg[i].idx, seg[i].of, seg[NextSlot(i)].idx, seg[NextSlot(i)].of)
    BY <1>3 DEF IInv, ChainInv
  <2>2. IF NextSlot(tail) = head THEN LastInv(execIdx', counters')
        ELSE Follows(execIdx', counters', seg[NextSlot(tail)].idx, seg[NextSlot(tail)].of)
    BY <1>0 DEF IInv, ChainInv
  <2>3. execSeg' => stepCount' > 0
    BY <1>1
  <2>4. \A idx, of : LastInv(idx, of) <=>
          IF fresh' THEN prepIdx' = NextStSlot(idx)
          ELSE prepIdx' = idx /\ (Loaded' => of = discarded' + 1)
    BY <1>0 DEF LastInv
  <2>5. head' = tail' => LastInv(execIdx', counters')
    BY <1>1, <2>2
  <2>6. head' # tail' /\ ~execSeg' =>
          Follows(execIdx', counters', seg'[tail'].idx, seg'[tail'].of)
    BY <1>1, <2>2
  <2>7. QED
    BY <2>1, <2>3, <2>4, <2>5, <2>6 DEF ChainInv, LastInv, Follows
<1>8. QED
  BY <1>2, <1>4, <1>5, <1>6, <1>7 DEF IInv

LEMMA TickLoadIInv == ASSUME IInv, TickLoad PROVE IInv'
<1>1. /\ head # tail /\ tail \in Pending /\ tail \in Slots /\ seg[tail] \in Segment
  BY BetweenFacts DEF TickLoad, IInv, TypeOK, Pending
<1>2. seg[tail].n > 0 /\ stBlock[seg[tail].idx] = seg[tail].of /\ seg[tail].n \in Nat
  BY <1>1 DEF IInv, PendingIntact, Segment
\* Block data at the same index are those of the same block.
<1>3. execIdx = seg[tail].idx => counters = seg[tail].of
  <2>1. Follows(execIdx, counters, seg[tail].idx, seg[tail].of)
    BY <1>1 DEF IInv, ChainInv, TickLoad
  <2>2. NextStSlot(execIdx) # execIdx
    BY SlotFacts DEF IInv, TypeOK
  <2>3. QED
    BY <2>1, <2>2 DEF Follows
<1>4. execIdx' = seg[tail].idx /\ counters' = seg[tail].of
  BY <1>2, <1>3 DEF TickLoad
<1>5. QED
  BY <1>1, <1>2, <1>4, StepEventIInv DEF TickLoad

LEMMA TickStepIInv == ASSUME IInv, TickStep PROVE IInv'
<1>1. /\ execIdx = seg[tail].idx /\ counters = seg[tail].of /\ tail \in Pending
      /\ stepCount > 0 /\ stepCount \in Nat
  BY DEF TickStep, IInv, ExecutesItsBlock, ChainInv, TypeOK
<1>2. head # tail
  BY <1>1, BetweenFacts DEF IInv, TypeOK, Pending
<1>3. QED
  BY <1>1, <1>2, StepEventIInv DEF TickStep

-----------------------------------------------------------------------------
(* The theorems.                                                             *)

LEMMA NextIInv == IInv /\ [Next]_vars => IInv'
<1> SUFFICES ASSUME IInv, [Next]_vars PROVE IInv'
  OBVIOUS
<1>1. CASE \E n \in StepCounts : PlanBlock(n)
  BY <1>1, PlanBlockIInv
<1>2. CASE Replan \/ StartHold \/ CycleStop
  BY <1>2, UpdateIInv
<1>3. CASE CycleStart \/ WakeUp \/ StPrepBuffer \/ PrepReturn \/ TickIdle \/ Kill
  BY <1>3, ControlIInv
<1>4. CASE StReset
  BY <1>4, StResetIInv
<1>5. CASE Reload
  BY <1>5, ReloadIInv
<1>6. CASE LoadBlock
  BY <1>6, LoadBlockIInv
<1>7. CASE BlockLoaded
  BY <1>7, BlockLoadedIInv
<1>8. CASE NewSegment \/ SegmentSteps \/ Bail
  BY <1>8, WriteSegmentIInv
<1>9. CASE Publish
  BY <1>9, PublishIInv
<1>10. CASE TickLoad
  BY <1>10, TickLoadIInv
<1>11. CASE TickStep
  BY <1>11, TickStepIInv
<1>12. CASE UNCHANGED vars
  BY <1>12 DEF vars, planVars, prepVars, ctlVars, pcVars, ringVars, isrVars, runVars,
     IInv, TypeOK, PrepInv, DistInv, ChainInv, PendingIntact, ExecutesItsBlock, Pending,
     Loaded, RingFull, LastInv, Follows
<1>13. QED
  BY <1>1, <1>2, <1>3, <1>4, <1>5, <1>6, <1>7, <1>8, <1>9, <1>10, <1>11, <1>12
     DEF Next, MainProgram, Prep, Interrupts

THEOREM Inductive == Spec => []IInv
<1>1. Init => IInv
  BY InitIInv
<1>2. IInv /\ [Next]_vars => IInv'
  BY NextIInv
<1>3. QED
  BY <1>1, <1>2, PTL DEF Spec

\* Every variable keeps its type, whatever the ring sizes: no index leaves its
\* ring, no step counter wraps.
THEOREM TypeCorrect == Spec => []TypeOK
<1>1. IInv => TypeOK
  BY DEF IInv
<1>2. QED
  BY <1>1, Inductive, PTL

\* st_prep_buffer() never overwrites what the interrupt still needs.
THEOREM PendingStaysIntact == Spec => []PendingIntact
<1>1. IInv => PendingIntact
  BY DEF IInv
<1>2. QED
  BY <1>1, Inductive, PTL

\* The interrupt executes every segment with the data of its own block.
THEOREM RightBlockExecuted == Spec => []ExecutesItsBlock
<1>1. IInv => ExecutesItsBlock
  BY DEF IInv
<1>2. QED
  BY <1>1, Inductive, PTL
=============================================================================
