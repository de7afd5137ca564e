--------------------------- MODULE HwTimer_proofs ---------------------------
(***************************************************************************)
(* Proofs about module HwTimer, for every width of the counter, every clock *)
(* and every set of calls: types, the interrupt of a registered callback,  *)
(* the other outputs of a channel, the arithmetic of rates, and that the   *)
(* driver takes no step that TimerCallback does not allow.                 *)
(***************************************************************************)
EXTENDS HwTimer, Integers, TLAPS

-----------------------------------------------------------------------------
(* Arithmetic *)

LEMMA DivFacts ==
    ASSUME NEW a \in Nat, NEW b \in Nat \ {0}
    PROVE  /\ a \div b \in Nat
           /\ (a \div b) * b <= a
           /\ a < (a \div b) * b + b
OBVIOUS

LEMMA WrappedType == ASSUME NEW n \in Int PROVE Wrapped(n) \in 0 .. CounterMax
BY HwTimerAssumption DEF Wrapped

LEMMA MulGreater ==
    ASSUME NEW p \in Nat, NEW q \in Nat, NEW r \in Nat \ {0}, p * r < q * r
    PROVE  p < q
OBVIOUS

LEMMA TimerClockType ==
    ASSUME NEW psc \in ApbPrescalers, NEW factor \in TimPrescalers
    PROVE  TimerClock(psc, factor) \in Nat
BY HwTimerAssumption DEF TimerClock

LEMMA RateType == ASSUME timClk \in Nat PROVE CyclesPerSec(timClk) \in Nat
BY HwTimerAssumption, DivFacts DEF CyclesPerSec

LEMMA CyclesType ==
    ASSUME NEW nsec \in Nat, NEW rate \in Nat
    PROVE  Cycles(nsec, rate) \in Nat
<1>1. nsec * rate \in Nat OBVIOUS
<1> QED BY <1>1, DivFacts, HwTimerAssumption DEF Cycles

-----------------------------------------------------------------------------
(* Values of registers, requests *)

LEMMA RequestFields ==
    ASSUME NEW r \in Request
    PROVE  /\ r.channel \in Channels \cup {0}
           /\ {r.complementary, r.inverted} \subseteq BOOLEAN
           /\ r.period \in Nat /\ r.pulse \in Nat
BY HwTimerAssumption DEF Request

LEMMA ReloadType ==
    ASSUME NEW r \in Request PROVE Reload(r) \in 0 .. CounterMax
<1>1. r.period \div 2 \in Int /\ r.period - 1 \in Int BY RequestFields
<1> QED BY <1>1, WrappedType DEF Reload

LEMMA CompareType ==
    ASSUME NEW r \in Request, mode \in {"up", "down", "center"}
    PROVE  Compare(r) \in 0 .. CounterMax
<1>1. r.pulse \in Int /\ r.pulse + CounterMax \in Int /\ r.pulse \div 2 \in Int
  BY RequestFields, HwTimerAssumption
<1> QED BY <1>1, WrappedType DEF Compare

\* The conversion of hw_timer_set() yields a request, when the driver takes it.
LEMMA AskedType ==
    ASSUME timClk \in Nat, NEW r \in Asked
    PROVE  /\ r \in Request
           /\ r.channel \in Channels
<1>1. CASE r \in Calls BY <1>1, HwTimerAssumption DEF Asked, Accepted
<1>2. CASE r \notin Calls
  <2>1. PICK n \in NsecCalls : r = InCycles(n) /\ r.period <= CycleMax /\ Accepted(r)
    BY <1>2 DEF Asked
  <2> DEFINE rate == CyclesPerSec(timClk)
  <2>2. n \in Request BY HwTimerAssumption
  <2>3. rate \in Nat BY RateType
  <2>4. Cycles(n.period, rate) \in Nat /\ Cycles(n.pulse, rate) \in Nat
    BY <2>2, <2>3, RequestFields, CyclesType
  <2>5. r = [n EXCEPT !.period = Cycles(n.period, rate), !.pulse = Cycles(n.pulse, rate)]
    BY <2>1 DEF InCycles
  <2>6. r.period \in Nat /\ r.pulse \in Nat /\ r.pulse <= r.period
    BY <2>1, <2>2, <2>4, <2>5 DEF Request, Accepted
  <2>7. r.period \in 0 .. CycleMax /\ r.pulse \in 0 .. CycleMax
    BY <2>1, <2>6, HwTimerAssumption
  <2>8. r \in Request BY <2>2, <2>5, <2>7 DEF Request
  <2> QED BY <2>1, <2>8 DEF Accepted
<1> QED BY <1>1, <1>2

-----------------------------------------------------------------------------
(* What the calls make of the registers *)

\* How far the registers are those of request r, in the order of the writes.
DrivenAs(t, r) == Output(r) \in t.on /\ t.inverted[Output(r)] = r.inverted
ComparedAs(t, r) == DrivenAs(t, r) /\ t.ccr[r.channel] = Compare(r)
ProgrammedAs(t, r) == ComparedAs(t, r) /\ t.arr = Reload(r)

LEMMA WriteReloadType ==
    ASSUME NEW t \in Registers, NEW n \in 0 .. CounterMax
    PROVE  /\ WriteReload(t, n) \in Registers
           /\ WriteReload(t, n).on = t.on /\ WriteReload(t, n).inverted = t.inverted
           /\ WriteReload(t, n).ccr = t.ccr /\ WriteReload(t, n).arr = n
BY DEF WriteReload, Registers

LEMMA WriteCompareType ==
    ASSUME NEW t \in Registers, NEW ch \in Channels, NEW n \in 0 .. CounterMax
    PROVE  /\ WriteCompare(t, ch, n) \in Registers
           /\ WriteCompare(t, ch, n).on = t.on
           /\ WriteCompare(t, ch, n).inverted = t.inverted
           /\ WriteCompare(t, ch, n).ccr[ch] = n
BY DEF WriteCompare, Registers

LEMMA LoadType ==
    ASSUME NEW t \in Registers
    PROVE  /\ Load(t) \in Registers /\ Load(t).on = t.on /\ Load(t).inverted = t.inverted
           /\ Load(t).ccr = t.ccr /\ Load(t).arr = t.arr
BY DEF Load, Registers

LEMMA OutputType ==
    ASSUME NEW r \in Request, r.channel \in Channels
    PROVE  /\ Output(r) \in Outputs /\ <<r.channel, ~r.complementary>> \in Outputs
           /\ Output(r) # <<r.channel, ~r.complementary>>
           /\ r.inverted \in BOOLEAN
BY RequestFields DEF Output, Outputs

\* The first call for an output sets it up and leaves its twin as it has been found.
LEMMA OutputsSetFacts ==
    ASSUME NEW t \in Registers, NEW r \in Request, r.channel \in Channels,
           NEW found \in [on : BOOLEAN, inverted : BOOLEAN],
           mode \in {"up", "down", "center"}
    PROVE  /\ OutputsSet(t, r, found) \in Registers
           /\ ComparedAs(OutputsSet(t, r, found), r)
           /\ found = Found(t, r) =>
                \A o \in Outputs \ {Output(r)} :
                  /\ o \in OutputsSet(t, r, found).on <=> o \in t.on
                  /\ OutputsSet(t, r, found).inverted[o] = t.inverted[o]
<1> DEFINE twin == <<r.channel, ~r.complementary>>
           on == (t.on \ {twin}) \cup {Output(r)} \cup (IF found.on THEN {twin} ELSE {})
           set == [t EXCEPT !.on = on, !.inverted[Output(r)] = r.inverted,
                            !.inverted[twin] = found.inverted]
<1>1. Output(r) \in Outputs /\ twin \in Outputs /\ Output(r) # twin /\ r.inverted \in BOOLEAN
  BY OutputType
<1>2. on \in SUBSET Outputs BY <1>1 DEF Registers
<1>3. set \in Registers BY <1>1, <1>2 DEF Registers
<1>4. Compare(r) \in 0 .. CounterMax BY CompareType
<1>5. OutputsSet(t, r, found) = WriteCompare(set, r.channel, Compare(r))
  BY DEF OutputsSet
<1>6. /\ OutputsSet(t, r, found) \in Registers
      /\ OutputsSet(t, r, found).on = on
      /\ OutputsSet(t, r, found).inverted = set.inverted
      /\ OutputsSet(t, r, found).ccr[r.channel] = Compare(r)
  <2> HIDE DEF set
  <2>1. set.on = on BY DEF set, Registers
  <2> QED BY <1>3, <1>4, <1>5, <2>1, WriteCompareType
<1>7. ASSUME found = Found(t, r), NEW o \in Outputs \ {Output(r)}
      PROVE  (o \in on <=> o \in t.on) /\ set.inverted[o] = t.inverted[o]
  BY <1>1, <1>7 DEF Found, Registers
<1>8. Output(r) \in on /\ set.inverted[Output(r)] = r.inverted BY <1>1 DEF Registers
<1> QED BY <1>6, <1>7, <1>8 DEF ComparedAs, DrivenAs

\* The other ways to program the timer touch no output but the one of the call.
LEMMA StoppedFacts ==
    ASSUME NEW t \in Registers, NEW r \in Request
    PROVE  /\ Stopped(t, r) \in Registers
           /\ Stopped(t, r).on = t.on \ {Output(r)}
           /\ Stopped(t, r).inverted = t.inverted
BY DEF Stopped, Registers

LEMMA PreloadedFacts ==
    ASSUME NEW t \in Registers, NEW r \in Request, r.channel \in Channels
    PROVE  /\ Preloaded(t, r) \in Registers
           /\ ComparedAs(t, r) => ProgrammedAs(Preloaded(t, r), r)
           /\ Preloaded(t, r).on = t.on /\ Preloaded(t, r).inverted = t.inverted
<1> DEFINE set == [t EXCEPT !.arpe = TRUE, !.ocpe[r.channel] = TRUE]
<1>1. set \in Registers /\ set.on = t.on /\ set.inverted = t.inverted /\ set.ccr = t.ccr
  BY DEF Registers
<1>2. Reload(r) \in 0 .. CounterMax BY ReloadType
<1> HIDE DEF set
<1>3. Preloaded(t, r) = WriteReload(set, Reload(r)) BY DEF Preloaded, set
<1> QED BY <1>1, <1>2, <1>3, WriteReloadType DEF ComparedAs, ProgrammedAs, DrivenAs

LEMMA ComparedFacts ==
    ASSUME NEW t \in Registers, NEW r \in Request, r.channel \in Channels,
           mode \in {"up", "down", "center"}
    PROVE  /\ Compared(t, r) \in Registers
           /\ Output(r) \in t.on => ComparedAs(Compared(t, r), r)
           /\ Compared(t, r).on = t.on
           /\ \A o \in Outputs \ {Output(r)} : Compared(t, r).inverted[o] = t.inverted[o]
<1> DEFINE set == [t EXCEPT !.inverted[Output(r)] = r.inverted]
<1>1. /\ set \in Registers /\ set.on = t.on
      /\ \A o \in Outputs \ {Output(r)} : set.inverted[o] = t.inverted[o]
  BY OutputType DEF Registers
<1>2. Compare(r) \in 0 .. CounterMax BY CompareType
<1>3. /\ WriteCompare(set, r.channel, Compare(r)) \in Registers
      /\ WriteCompare(set, r.channel, Compare(r)).on = set.on
      /\ WriteCompare(set, r.channel, Compare(r)).inverted = set.inverted
      /\ WriteCompare(set, r.channel, Compare(r)).ccr[r.channel] = Compare(r)
  <2> HIDE DEF set
  <2> QED BY <1>1, <1>2, WriteCompareType
<1>4. set.inverted[Output(r)] = r.inverted BY OutputType DEF Registers
<1> QED BY <1>1, <1>3, <1>4 DEF Compared, ComparedAs, DrivenAs

LEMMA ProgrammedFacts ==
    ASSUME NEW t \in Registers, NEW r \in Request, r.channel \in Channels,
           mode \in {"up", "down", "center"}
    PROVE  /\ Programmed(t, r) \in Registers
           /\ r.period = 0 => Output(r) \notin Programmed(t, r).on
           /\ r.period # 0 /\ Output(r) \in t.on => ProgrammedAs(Programmed(t, r), r)
           /\ \A o \in Outputs \ {Output(r)} :
                /\ o \in Programmed(t, r).on <=> o \in t.on
                /\ Programmed(t, r).inverted[o] = t.inverted[o]
<1>1. CASE r.period = 0 BY <1>1, StoppedFacts DEF Programmed
<1>2. CASE r.period # 0
  <2>1. Programmed(t, r) = WriteReload(Compared(t, r), Reload(r)) BY <1>2 DEF Programmed
  <2>2. /\ Compared(t, r) \in Registers
        /\ Output(r) \in t.on => ComparedAs(Compared(t, r), r)
        /\ Compared(t, r).on = t.on
        /\ \A o \in Outputs \ {Output(r)} : Compared(t, r).inverted[o] = t.inverted[o]
    BY ComparedFacts
  <2>3. /\ Programmed(t, r) \in Registers
        /\ Programmed(t, r).on = Compared(t, r).on
        /\ Programmed(t, r).inverted = Compared(t, r).inverted
        /\ Programmed(t, r).ccr = Compared(t, r).ccr
        /\ Programmed(t, r).arr = Reload(r)
    BY <2>1, <2>2, ReloadType, WriteReloadType
  <2>4. Output(r) \in t.on => ProgrammedAs(Programmed(t, r), r)
    BY <2>2, <2>3 DEF ComparedAs, ProgrammedAs, DrivenAs
  <2> QED BY <1>2, <2>2, <2>3, <2>4
<1> QED BY <1>1, <1>2

-----------------------------------------------------------------------------
(* The invariant *)

\* The last call that has been taken, if any, is one the driver accepts.
LastInv ==
    /\ last # NoRequest => last \in Request /\ Accepted(last)
    /\ Setting => last # NoRequest /\ last.channel \in Channels /\ last.period # 0

\* What the registers hold at each point of a call, if the interrupt has left
\* them alone.
ProgressInv ==
    ~torn /\ last # NoRequest =>
      CASE pc = "init" -> other = Found(tim, last)
        [] pc \in {"preload", "reload"} -> ComparedAs(tim, last)
        [] pc = "generate" -> ProgrammedAs(tim, last)
        [] pc = "compare" -> Output(last) \in tim.on
        [] OTHER -> IF last.period = 0 THEN Output(last) \notin tim.on
                                       ELSE ProgrammedAs(tim, last)

\* The interrupt of a callback is enabled step by step; while it is taken
\* away there is no callback.
ArmedInv ==
    callback # NoCallback =>
      /\ pc \notin {"drop", "disable", "mask"}
      /\ pc = "enable" => uie
      /\ pc \notin {"clear", "unmask", "enable"} => uie /\ irqOn

\* A flag that the interrupt could take for an update of the callback is one.
DueInv ==
    callback # NoCallback /\ uif =>
      due \/ (pc = "clear" /\ ~(irqOn /\ (uie \/ latched)))

IInv == TypeOK /\ LastInv /\ ProgressInv /\ ArmedInv /\ DueInv

LEMMA InitIInv == Init => IInv
<1> SUFFICES ASSUME Init PROVE IInv OBVIOUS
<1>1. tim \in Registers BY HwTimerAssumption DEF Init, Registers
<1>2. TypeOK BY <1>1 DEF Init, TypeOK, Off
<1>3. LastInv BY DEF Init, LastInv, Setting
<1>4. ProgressInv BY DEF Init, ProgressInv
<1>5. ArmedInv /\ DueInv BY DEF Init, ArmedInv, DueInv
<1> QED BY <1>2, <1>3, <1>4, <1>5 DEF IInv

-----------------------------------------------------------------------------
(* Steps *)

\* The stages in the next state, while the counting mode does not change.
LEMMA StagesPrimed ==
    ASSUME mode' = mode
    PROVE  /\ ComparedAs(tim, last)' <=> ComparedAs(tim', last')
           /\ ProgrammedAs(tim, last)' <=> ProgrammedAs(tim', last')
BY DEF ProgrammedAs, ComparedAs, DrivenAs, Compare, Reload

\* An update changes what is in effect, not what has been written.
LEMMA LoadKeeps ==
    ASSUME NEW t \in Registers, NEW r
    PROVE  /\ Load(t) \in Registers
           /\ Load(t).on = t.on
           /\ Found(Load(t), r) = Found(t, r)
           /\ ComparedAs(Load(t), r) <=> ComparedAs(t, r)
           /\ ProgrammedAs(Load(t), r) <=> ProgrammedAs(t, r)
BY LoadType DEF Found, ComparedAs, ProgrammedAs, DrivenAs

LEMMA ModeType == ASSUME TypeOK PROVE mode \in {"up", "down", "center"}
BY HwTimerAssumption DEF TypeOK

\* Steps of the thread and the hardware that leave the registers and the request alone.
LEMMA ProgrammingKept ==
    ASSUME IInv, UNCHANGED <<programming, mode>>,
           \/ pc' = pc
           \/ ~Setting /\ ~Setting'
    PROVE  LastInv' /\ ProgressInv'
<1>1. UNCHANGED <<tim, last, other, torn, mode>> BY DEF programming
<1>2. LastInv' BY <1>1 DEF IInv, LastInv, Setting, Accepted
<1>3. ProgressInv' BY <1>1, StagesPrimed DEF IInv, ProgressInv, Setting, Found
<1> QED BY <1>2, <1>3

LEMMA InitDeviceKeepsIInv == ASSUME IInv, InitDevice \/ InitFails \/ Absent PROVE IInv'
<1> USE DEF IInv
<1>1. CASE InitDevice
  <2> USE <1>1 DEF InitDevice, RaiseUpdate, programming
  <2>1. timClk' \in Nat BY TimerClockType
  <2>2. TypeOK' BY <2>1 DEF TypeOK
  <2>3. LastInv' /\ ProgressInv' BY ProgrammingKept DEF Setting
  <2>4. ArmedInv' /\ DueInv' BY DEF ArmedInv, DueInv
  <2> QED BY <2>2, <2>3, <2>4
<1>2. CASE InitFails
  <2> USE <1>2 DEF InitFails, config, programming, interrupts
  <2>1. TypeOK' BY DEF TypeOK
  <2>2. LastInv' /\ ProgressInv' BY ProgrammingKept DEF Setting
  <2>3. ArmedInv' /\ DueInv' BY DEF ArmedInv, DueInv
  <2> QED BY <2>1, <2>2, <2>3
<1>3. CASE Absent
  <2>1. UNCHANGED <<pc, programming, interrupts, config, uif, latched>> BY <1>3 DEF Absent, vars
  <2>2. LastInv' /\ ProgressInv' BY <2>1, ProgrammingKept DEF config
  <2>3. TypeOK' BY <2>1 DEF TypeOK, config, programming, interrupts
  <2>4. ArmedInv' /\ DueInv' BY <2>1 DEF ArmedInv, DueInv, interrupts
  <2> QED BY <2>2, <2>3, <2>4
<1> QED BY <1>1, <1>2, <1>3

LEMMA UpdateKeepsIInv == ASSUME IInv, Update PROVE IInv'
<1> USE DEF IInv, Update, RaiseUpdate, config
<1>1. tim \in Registers BY DEF TypeOK
<1>2. TypeOK' BY <1>1, LoadKeeps DEF TypeOK
<1>3. LastInv' BY DEF LastInv, Setting, Accepted
<1>4. ProgressInv' BY <1>1, LoadKeeps, StagesPrimed DEF ProgressInv
<1>5. ArmedInv' /\ DueInv' BY DEF ArmedInv, DueInv
<1> QED BY <1>2, <1>3, <1>4, <1>5

LEMMA SetCyclesKeepsIInv == ASSUME IInv, SetCycles PROVE IInv'
<1> USE DEF IInv, config, interrupts
<1>1. PICK r \in Asked :
        /\ last' = r /\ torn' = FALSE
        /\ stalled' = (stalled \/ Stalls(r))
        /\ \/ /\ r.period = 0 /\ pc' = "idle" /\ tim' = Stopped(tim, r) /\ other' = other
           \/ /\ r.period # 0 /\ Output(r) \in tim.on
              /\ pc' = "compare" /\ tim' = tim /\ other' = other
           \/ /\ r.period # 0 /\ pc' = "init" /\ other' = Found(tim, r) /\ tim' = tim
  BY DEF SetCycles
<1>2. /\ pc = "idle"
      /\ UNCHANGED <<mode, timClk, uie, irqOn, callback, due, beat, uif, latched>>
  BY DEF SetCycles
<1>3. r \in Request /\ r.channel \in Channels /\ Accepted(r)
  BY AskedType DEF TypeOK, Asked
<1>4. tim \in Registers BY DEF TypeOK
<1>5. tim' \in Registers BY <1>1, <1>3, <1>4, StoppedFacts
<1>6. other' \in [on : BOOLEAN, inverted : BOOLEAN]
  <2>1. Found(tim, r) \in [on : BOOLEAN, inverted : BOOLEAN]
    BY <1>3, <1>4, OutputType DEF Found, Registers
  <2> QED BY <1>1, <2>1 DEF TypeOK
<1>7. TypeOK'
  <2>1. stalled' \in BOOLEAN BY <1>1, <1>3, RequestFields DEF TypeOK, Stalls
  <2> QED BY <1>1, <1>2, <1>3, <1>5, <1>6, <2>1 DEF TypeOK
<1>8. LastInv' BY <1>1, <1>2, <1>3 DEF LastInv, Setting, Accepted, NoRequest
<1>9. ProgressInv' BY <1>1, <1>3, <1>4, StoppedFacts DEF ProgressInv
<1>10. ArmedInv' /\ DueInv' BY <1>1, <1>2 DEF ArmedInv, DueInv
<1> QED BY <1>7, <1>8, <1>9, <1>10

\* The writes of a call that programs the timer.
LEMMA ProgramKeepsIInv == ASSUME IInv, Program PROVE IInv'
<1> USE DEF IInv, Step, SetStep, config, interrupts
<1>1. tim \in Registers /\ mode \in {"up", "down", "center"} BY ModeType DEF TypeOK
<1>2. pc \in {"init", "preload", "generate", "compare", "reload"}
  BY DEF Program, InitOutput, Preload, GenerateUpdate, WriteCompareRegister, WriteReloadRegister
<1>3. last \in Request /\ last # NoRequest /\ last.channel \in Channels /\ Accepted(last)
      /\ last.period # 0
  BY <1>2 DEF LastInv, Setting
<1>4. /\ UNCHANGED <<mode, timClk, last, torn, stalled, uie, irqOn, callback, beat>>
      /\ pc' \in {"preload", "generate", "reload", "idle"}
  BY DEF Program, InitOutput, Preload, GenerateUpdate, WriteCompareRegister,
         WriteReloadRegister, RaiseUpdate
<1>5. LastInv' BY <1>3, <1>4 DEF LastInv, Setting
<1>6. ArmedInv'
  BY <1>2, <1>4 DEF ArmedInv
<1>7. CASE InitOutput
  <2> USE <1>7 DEF InitOutput
  <2>1. /\ tim' \in Registers
        /\ ComparedAs(tim', last)
    BY <1>1, <1>3, OutputsSetFacts DEF TypeOK
  <2>2. TypeOK' BY <1>4, <2>1 DEF TypeOK, Off
  <2>3. ProgressInv' BY <1>4, <2>1, StagesPrimed DEF ProgressInv
  <2>4. DueInv' BY DEF DueInv
  <2> QED BY <1>5, <1>6, <2>2, <2>3, <2>4
<1>8. CASE Preload
  <2> USE <1>8 DEF Preload
  <2>1. tim' \in Registers /\ (ComparedAs(tim, last) => ProgrammedAs(tim', last))
    BY <1>1, <1>3, PreloadedFacts
  <2>2. TypeOK' BY <1>4, <2>1 DEF TypeOK
  <2>3. ProgressInv' BY <1>3, <1>4, <2>1, StagesPrimed DEF ProgressInv
  <2>4. DueInv' BY DEF DueInv
  <2> QED BY <1>5, <1>6, <2>2, <2>3, <2>4
<1>9. CASE GenerateUpdate
  <2> USE <1>9 DEF GenerateUpdate, RaiseUpdate
  <2>1. tim' \in Registers /\ (ProgrammedAs(tim, last) => ProgrammedAs(tim', last))
    BY <1>1, LoadKeeps
  <2>2. TypeOK' BY <1>4, <2>1 DEF TypeOK
  <2>3. ProgressInv' BY <1>3, <1>4, <2>1, StagesPrimed DEF ProgressInv
  <2>4. DueInv' BY DEF DueInv
  <2> QED BY <1>5, <1>6, <2>2, <2>3, <2>4
<1>10. CASE WriteCompareRegister
  <2> USE <1>10 DEF WriteCompareRegister
  <2>1. tim' \in Registers /\ (Output(last) \in tim.on => ComparedAs(tim', last))
    BY <1>1, <1>3, ComparedFacts
  <2>2. TypeOK' BY <1>4, <2>1 DEF TypeOK
  <2>3. ProgressInv' BY <1>3, <1>4, <2>1, StagesPrimed DEF ProgressInv
  <2>4. DueInv' BY DEF DueInv
  <2> QED BY <1>5, <1>6, <2>2, <2>3, <2>4
<1>11. CASE WriteReloadRegister
  <2> USE <1>11 DEF WriteReloadRegister
  <2>1. tim' \in Registers /\ (ComparedAs(tim, last) => ProgrammedAs(tim', last))
    BY <1>1, <1>3, ReloadType, WriteReloadType DEF ComparedAs, ProgrammedAs, DrivenAs
  <2>2. TypeOK' BY <1>4, <2>1 DEF TypeOK
  <2>3. ProgressInv' BY <1>3, <1>4, <2>1, StagesPrimed DEF ProgressInv
  <2>4. DueInv' BY DEF DueInv
  <2> QED BY <1>5, <1>6, <2>2, <2>3, <2>4
<1> QED BY <1>7, <1>8, <1>9, <1>10, <1>11 DEF Program

\* The writes of a call that registers or removes a callback.
LEMMA CallbackCallsKeepIInv == ASSUME IInv, Register \/ Remove \/ SetUpdateCallback PROVE IInv'
<1> USE DEF IInv, Step, config, interrupts
<1>1. /\ UNCHANGED <<programming, mode, timClk>>
      /\ ~Setting /\ ~Setting'
  BY DEF Register, Remove, SetUpdateCallback, ClearFlag, Unmask, EnableIrq, DropFlag,
         DisableIrq, Mask, Setting
<1>2. LastInv' /\ ProgressInv' BY <1>1, ProgrammingKept
<1>3. UNCHANGED <<tim, last, other, torn, stalled>> BY <1>1 DEF programming
<1>4. CASE Register
  <2> USE <1>4 DEF Register
  <2>1. TypeOK' BY <1>1, <1>3 DEF TypeOK
  <2>2. ArmedInv' BY DEF ArmedInv
  <2>3. DueInv' BY DEF DueInv, Thread, IsrPending
  <2> QED BY <1>2, <2>1, <2>2, <2>3
<1>5. CASE Remove
  <2> USE <1>5 DEF Remove
  <2>1. TypeOK' BY <1>1, <1>3 DEF TypeOK
  <2>2. ArmedInv' /\ DueInv' BY DEF ArmedInv, DueInv
  <2> QED BY <1>2, <2>1, <2>2
<1>6. CASE SetUpdateCallback
  <2> USE <1>6 DEF SetUpdateCallback, ClearFlag, Unmask, EnableIrq, DropFlag, DisableIrq, Mask
  <2>1. TypeOK' BY <1>1, <1>3 DEF TypeOK
  <2>2. ArmedInv' BY DEF ArmedInv
  <2>3. DueInv' BY DEF DueInv
  <2> QED BY <1>2, <2>1, <2>2, <2>3
<1> QED BY <1>4, <1>5, <1>6

\* The interrupt, with whatever its callback does.
LEMMA IsrKeepsIInv == ASSUME IInv, Isr PROVE IInv'
<1> USE DEF IInv, config
<1>1. UNCHANGED <<pc, mode, timClk>> /\ uif' = FALSE /\ latched' = FALSE
  BY DEF Isr, CallBack
<1>2. DueInv' BY <1>1 DEF DueInv
<1>3. CASE UNCHANGED <<programming, interrupts>>
  <2>1. LastInv' /\ ProgressInv' BY <1>1, <1>3, ProgrammingKept
  <2>2. TypeOK' BY <1>1, <1>3 DEF TypeOK, programming, interrupts
  <2>3. ArmedInv' BY <1>1, <1>3 DEF ArmedInv, interrupts
  <2> QED BY <1>2, <2>1, <2>2, <2>3
<1>4. CASE CallBack /\ (Returns \/ RemovesItself)
  <2>1. UNCHANGED programming BY <1>4 DEF Returns, RemovesItself
  <2>2. LastInv' /\ ProgressInv' BY <1>1, <2>1, ProgrammingKept
  <2>3. TypeOK' BY <1>1, <1>4, <2>1 DEF TypeOK, programming, CallBack, Returns, RemovesItself
  <2>4. ArmedInv' BY <1>1, <1>4 DEF ArmedInv, Returns, RemovesItself
  <2> QED BY <1>2, <2>2, <2>3, <2>4
<1>5. CASE CallBack /\ Programs
  <2>1. PICK r \in Asked :
          /\ r.period = 0 \/ Output(r) \in tim.on
          /\ tim' = Programmed(tim, r)
          /\ stalled' = (stalled \/ Stalls(r))
          /\ last' = IF Setting THEN last ELSE r
    BY <1>5 DEF Programs
  <2>2. torn' = Setting /\ UNCHANGED <<other, uie, irqOn, callback>> /\ due' = FALSE
        /\ beat' = ~beat
    BY <1>5 DEF Programs, CallBack
  <2>3. r \in Request /\ r.channel \in Channels /\ Accepted(r)
    BY AskedType DEF TypeOK, Asked
  <2>4. /\ tim' \in Registers
        /\ r.period = 0 => Output(r) \notin tim'.on
        /\ r.period # 0 => ProgrammedAs(tim', r)
    BY <2>1, <2>3, ModeType, ProgrammedFacts DEF TypeOK
  <2>5. TypeOK'
    <3>1. stalled' \in BOOLEAN /\ torn' \in BOOLEAN BY <2>1, <2>2 DEF TypeOK, Stalls, Setting
    <3>2. last' \in Request \cup {NoRequest} BY <2>1, <2>3 DEF TypeOK
    <3> QED BY <1>1, <2>2, <2>4, <3>1, <3>2 DEF TypeOK
  <2>6. LastInv' BY <1>1, <2>1, <2>3 DEF LastInv, Setting
  <2>7. ProgressInv' BY <1>1, <2>1, <2>2, <2>4, StagesPrimed DEF ProgressInv, Setting
  <2>8. ArmedInv' BY <1>1, <2>2 DEF ArmedInv
  <2> QED BY <1>2, <2>5, <2>6, <2>7, <2>8
<1> QED BY <1>3, <1>4, <1>5 DEF Isr, CallBack

LEMMA NextKeepsIInv == IInv /\ [Next]_vars => IInv'
<1> SUFFICES ASSUME IInv, [Next]_vars PROVE IInv' OBVIOUS
<1>1. CASE InitDevice \/ InitFails \/ Absent BY <1>1, InitDeviceKeepsIInv
<1>2. CASE SetCycles BY <1>2, SetCyclesKeepsIInv
<1>3. CASE Program BY <1>3, ProgramKeepsIInv
<1>4. CASE Register \/ Remove \/ SetUpdateCallback BY <1>4, CallbackCallsKeepIInv
<1>5. CASE Update BY <1>5, UpdateKeepsIInv
<1>6. CASE Isr BY <1>6, IsrKeepsIInv
<1>7. CASE UNCHANGED vars
  <2>1. UNCHANGED <<pc, programming, interrupts, config, uif, latched>> BY <1>7 DEF vars
  <2>2. LastInv' /\ ProgressInv' BY <2>1, ProgrammingKept DEF config, IInv
  <2>3. TypeOK' BY <2>1 DEF IInv, TypeOK, config, programming, interrupts
  <2>4. ArmedInv' /\ DueInv' BY <2>1 DEF IInv, ArmedInv, DueInv, interrupts
  <2> QED BY <2>2, <2>3, <2>4 DEF IInv
<1> QED BY <1>1, <1>2, <1>3, <1>4, <1>5, <1>6, <1>7 DEF Next

LEMMA Invariant == Spec => []IInv
BY InitIInv, NextKeepsIInv, PTL DEF Spec

-----------------------------------------------------------------------------
(* Every variable of the driver and every register keeps its type and width. *)
THEOREM TypeCorrect == Spec => []TypeOK
<1>1. IInv => TypeOK BY DEF IInv
<1> QED BY Invariant, <1>1, PTL

(* hw_timer_stm32_set_update_callback(): between its calls, a callback that *)
(* is registered has its interrupt enabled, also when it removed itself or  *)
(* was replaced in the middle of an earlier call.                          *)
THEOREM CallbackArmed == Spec => []RegisteredIsArmed
<1>1. IInv => RegisteredIsArmed BY DEF IInv, ArmedInv, RegisteredIsArmed
<1> QED BY Invariant, <1>1, PTL

\* The values in effect are the period and the pulse, in every counting mode.
LEMMA WaveformFacts ==
    ASSUME TypeOK, last \in Request, Accepted(last), last.period # 0,
           tim.arr = tim.arrOn, tim.ccr = tim.ccrOn, ProgrammedAs(tim, last)
    PROVE  /\ Length(tim) = Rounded(last.period)
           /\ Active(tim, last.channel) =
                IF Wraps(last) THEN last.period - last.pulse ELSE Rounded(last.pulse)
<1>1. /\ last.period \in Nat /\ last.pulse \in Nat /\ CounterMax \in Nat \ {0}
      /\ last.pulse <= last.period /\ last.period <= CounterMax + 1
  BY RequestFields, HwTimerAssumption DEF Accepted
<1>2. tim.arrOn = Reload(last) /\ tim.ccrOn[last.channel] = Compare(last)
  BY DEF ProgrammedAs, ComparedAs
<1>3. ASSUME NEW n \in 0 .. CounterMax PROVE Wrapped(n) = n
  BY <1>1, <1>3 DEF Wrapped
<1>4. CASE mode = "up"
  <2>1. Reload(last) = last.period - 1 BY <1>1, <1>3, <1>4 DEF Reload
  <2>2. ~Wraps(last) => Compare(last) = last.pulse BY <1>1, <1>3, <1>4 DEF Compare, Wraps
  <2>3. ASSUME Wraps(last) PROVE Compare(last) = 0 /\ last.period = last.pulse
    <3>1. last.pulse = CounterMax + 1 /\ last.period = CounterMax + 1
      BY <1>1, <1>4, <2>3 DEF Wraps
    <3>2. (CounterMax + 1) % (CounterMax + 1) = 0 BY <1>1
    <3> QED BY <1>4, <3>1, <3>2 DEF Compare, Wrapped
  <2> QED BY <1>1, <1>2, <1>4, <2>1, <2>2, <2>3 DEF Length, Active, Rounded, Least
<1>5. CASE mode = "down"
  <2>1. Reload(last) = last.period - 1 BY <1>1, <1>3, <1>5 DEF Reload
  <2>2. last.pulse # 0 => Compare(last) = last.pulse - 1
    <3>1. Compare(last) = Wrapped(last.pulse + CounterMax) BY <1>5 DEF Compare
    <3>2. (last.pulse + CounterMax) % (CounterMax + 1)
            = (last.pulse - 1) % (CounterMax + 1) BY <1>1
    <3> QED BY <1>1, <1>3, <3>1, <3>2 DEF Wrapped
  <2>3. last.pulse = 0 => Compare(last) = CounterMax
    <3>1. last.pulse = 0 => Compare(last) = Wrapped(CounterMax) BY <1>1, <1>5 DEF Compare
    <3> QED BY <1>1, <1>3, <3>1
  <2> QED BY <1>1, <1>2, <1>5, <2>1, <2>2, <2>3 DEF Length, Active, Rounded, Least, Wraps
<1>6. CASE mode = "center"
  <2>1. /\ last.period \div 2 \in 0 .. CounterMax /\ last.pulse \div 2 \in 0 .. CounterMax
        /\ last.pulse \div 2 <= last.period \div 2
    BY <1>1
  <2>2. Reload(last) = last.period \div 2 BY <1>3, <1>6, <2>1 DEF Reload
  <2>3. Compare(last) = last.pulse \div 2 BY <1>3, <1>6, <2>1 DEF Compare
  <2>4. ~Wraps(last) BY <1>6 DEF Wraps
  <2> QED BY <1>2, <1>6, <2>1, <2>2, <2>3, <2>4 DEF Length, Active, Rounded, Least
<1> QED BY <1>4, <1>5, <1>6, ModeType

(* hw_timer_set_cycles(): whatever updates, interrupts and calls came       *)
(* before, an output has the waveform of the last call that named it, for   *)
(* every width of the counter and every request but two: a pulse of 0 when  *)
(* the counter counts down and a pulse as long as the longest period when   *)
(* it counts up are reversed.  It holds as long as the callback has not     *)
(* programmed the timer between two writes of that call.                    *)
THEOREM WaveformCorrect == Spec => []OutputAsRequested
<1>1. IInv => OutputAsRequested
  <2> SUFFICES ASSUME IInv, pc = "idle", ~torn, last # NoRequest,
                      tim.arr = tim.arrOn, tim.ccr = tim.ccrOn
               PROVE  IF last.period = 0 THEN Output(last) \notin tim.on
                      ELSE /\ Output(last) \in tim.on
                           /\ tim.inverted[Output(last)] = last.inverted
                           /\ Length(tim) = Rounded(last.period)
                           /\ Active(tim, last.channel) =
                                IF Wraps(last) THEN last.period - last.pulse
                                               ELSE Rounded(last.pulse)
    BY DEF OutputAsRequested
  <2>1. IF last.period = 0 THEN Output(last) \notin tim.on ELSE ProgrammedAs(tim, last)
    BY DEF IInv, ProgressInv
  <2>2. TypeOK /\ last \in Request /\ Accepted(last) BY DEF IInv, LastInv
  <2>3. last.period # 0 => DrivenAs(tim, last) BY <2>1 DEF ProgrammedAs, ComparedAs
  <2> QED BY <2>1, <2>2, <2>3, WaveformFacts DEF DrivenAs
<1> QED BY Invariant, <1>1, PTL

(* get_tim_clk(): for every clock and prescaler of the bus, the timer's     *)
(* clock is the smaller of the system clock and the multiplied bus clock.   *)
THEOREM ClockRateCorrect == Spec => []ClockRate
<1>1. ASSUME NEW psc \in ApbPrescalers, NEW factor \in TimPrescalers
      PROVE  TimerClock(psc, factor)
               = Least(Hclk, (IF factor = 4 THEN 4 ELSE 2) * (Hclk \div psc))
  <2>1. Hclk \in Nat /\ Hclk % psc = 0 /\ psc \in {1, 2, 4, 8, 16} /\ factor \in {0, 2, 4}
    BY HwTimerAssumption
  <2>2. CASE psc = 1 BY <2>1, <2>2 DEF TimerClock, Least
  <2>3. CASE psc = 2 BY <2>1, <2>3 DEF TimerClock, Least
  <2>4. CASE psc = 4 BY <2>1, <2>4 DEF TimerClock, Least
  <2>5. CASE psc \in {8, 16} BY <2>1, <2>5 DEF TimerClock, Least
  <2> QED BY <2>1, <2>2, <2>3, <2>4, <2>5
<1>2. ClockRate BY <1>1 DEF ClockRate
<1> QED BY <1>2, PTL

(* hw_timer_set() and hw_timer_cycles_to_nsec(): rounding loses less than   *)
(* one cycle, for every rate and every time.                               *)
THEOREM ConversionsCorrect == Spec => []ConversionBrackets
<1>1. TypeOK => ConversionBrackets
  <2> SUFFICES ASSUME timClk \in Nat, timClk > Prescaler, NEW nsec \in 0 .. CycleMax
               PROVE  LET rate == CyclesPerSec(timClk) IN
                      /\ Nsec(Cycles(nsec, rate), rate) <= nsec
                      /\ nsec <= Nsec(Cycles(nsec, rate) + 1, rate)
    BY DEF ConversionBrackets, TypeOK
  <2> DEFINE rate == CyclesPerSec(timClk)
             c == Cycles(nsec, rate)
  <2>1. nsec \in Nat /\ NsecPerSec \in Nat \ {0} /\ Prescaler \in Nat BY HwTimerAssumption
  <2>2. rate \in Nat \ {0}
    <3> DEFINE d == Prescaler + 1
    <3>0. d \in Nat \ {0} /\ timClk >= d BY <2>1
    <3>1. timClk < (timClk \div d) * d + d /\ timClk \div d \in Nat
      <4> HIDE DEF d
      <4> QED BY <3>0, DivFacts
    <3>2. rate = timClk \div d BY DEF CyclesPerSec
    <3>3. timClk \div d # 0 BY <3>0, <3>1
    <3> QED BY <3>1, <3>2, <3>3
  <2>3. nsec * rate \in Nat BY <2>1, <2>2
  <2>4. /\ c \in Nat /\ c * NsecPerSec <= nsec * rate
        /\ nsec * rate < c * NsecPerSec + NsecPerSec
    BY <2>1, <2>3, DivFacts DEF Cycles
  <2> HIDE DEF rate, c
  <2>5. c * NsecPerSec \in Nat /\ (c + 1) * NsecPerSec \in Nat
        /\ (c + 1) * NsecPerSec = c * NsecPerSec + NsecPerSec
    BY <2>1, <2>4
  <2>6. Nsec(c, rate) <= nsec
    <3>1. Nsec(c, rate) \in Nat /\ Nsec(c, rate) * rate <= c * NsecPerSec
      BY <2>2, <2>5, DivFacts DEF Nsec
    <3>2. Nsec(c, rate) * rate < (nsec + 1) * rate
      <4>1. (nsec + 1) * rate = nsec * rate + rate BY <2>1, <2>2
      <4>2. Nsec(c, rate) * rate \in Nat BY <2>2, <3>1
      <4> QED BY <2>2, <2>3, <2>4, <2>5, <3>1, <4>1, <4>2
    <3>3. Nsec(c, rate) < nsec + 1 BY <2>1, <2>2, <3>1, <3>2, MulGreater
    <3> QED BY <2>1, <3>1, <3>3
  <2>7. nsec <= Nsec(c + 1, rate)
    <3> DEFINE n == Nsec(c + 1, rate)
    <3>1. n \in Nat /\ (c + 1) * NsecPerSec < n * rate + rate
      BY <2>2, <2>5, DivFacts DEF Nsec
    <3> HIDE DEF n
    <3>2. nsec * rate < (n + 1) * rate
      <4>1. (n + 1) * rate = n * rate + rate BY <2>2, <3>1
      <4>2. n * rate \in Nat BY <2>2, <3>1
      <4> QED BY <2>2, <2>3, <2>4, <2>5, <3>1, <4>1, <4>2
    <3>3. nsec < n + 1 BY <2>1, <2>2, <3>1, <3>2, MulGreater
    <3> QED BY <2>1, <3>1, <3>3 DEF n
  <2> QED BY <2>6, <2>7 DEF rate, c
<1> QED BY TypeCorrect, <1>1, PTL

-----------------------------------------------------------------------------
\* A step of the driver is a call, or a write, for one output.
LEMMA OneOutputChanges ==
    ASSUME IInv, [Next]_vars, ~torn
    PROVE  \E q : \A o \in Outputs \ {q} :
             (o \in tim'.on <=> o \in tim.on) /\ tim'.inverted[o] = tim.inverted[o]
<1> USE DEF IInv
<1>1. tim \in Registers /\ mode \in {"up", "down", "center"} BY ModeType DEF TypeOK
<1>2. CASE tim' = tim BY <1>2
<1>3. CASE Program
  <2>1. pc \in {"init", "preload", "generate", "compare", "reload"}
    BY <1>3 DEF Program, InitOutput, Preload, GenerateUpdate, WriteCompareRegister,
                WriteReloadRegister, Step, SetStep
  <2>2. last \in Request /\ last # NoRequest /\ last.channel \in Channels
    BY <2>1 DEF LastInv, Setting
  <2>3. CASE InitOutput
    <3>1. other = Found(tim, last) BY <2>2, <2>3 DEF InitOutput, Step, ProgressInv
    <3>2. other \in [on : BOOLEAN, inverted : BOOLEAN] BY DEF TypeOK
    <3>3. tim' = OutputsSet(tim, last, other) BY <2>3 DEF InitOutput
    <3> QED BY <1>1, <2>2, <3>1, <3>2, <3>3, OutputsSetFacts
  <2>4. CASE Preload
    <3>1. tim'.on = tim.on /\ tim'.inverted = tim.inverted
      BY <1>1, <2>2, <2>4, PreloadedFacts DEF Preload, SetStep
    <3> QED BY <3>1
  <2>5. CASE GenerateUpdate
    <3>1. tim'.on = tim.on /\ tim'.inverted = tim.inverted
      BY <1>1, <2>5, LoadType DEF GenerateUpdate
    <3> QED BY <3>1
  <2>6. CASE WriteCompareRegister
    BY <1>1, <2>2, <2>6, ComparedFacts DEF WriteCompareRegister, SetStep
  <2>7. CASE WriteReloadRegister
    <3>1. tim'.on = tim.on /\ tim'.inverted = tim.inverted
      BY <1>1, <2>2, <2>7, ReloadType, WriteReloadType DEF WriteReloadRegister, SetStep
    <3> QED BY <3>1
  <2> QED BY <1>3, <2>3, <2>4, <2>5, <2>6, <2>7 DEF Program
<1>4. CASE SetCycles
  <2>1. PICK r \in Asked : tim' = tim \/ tim' = Stopped(tim, r) BY <1>4 DEF SetCycles
  <2>2. r \in Request BY AskedType DEF TypeOK
  <2> QED BY <1>1, <2>1, <2>2, StoppedFacts
<1>5. CASE Update
  <2>1. tim'.on = tim.on /\ tim'.inverted = tim.inverted BY <1>1, <1>5, LoadType DEF Update
  <2> QED BY <2>1
<1>6. CASE Isr /\ tim' # tim
  <2>1. PICK r \in Asked : tim' = Programmed(tim, r)
    BY <1>6 DEF Isr, CallBack, Returns, RemovesItself, Programs, programming
  <2>2. r \in Request /\ r.channel \in Channels BY AskedType DEF TypeOK
  <2> QED BY <1>1, <2>1, <2>2, ProgrammedFacts
<1> QED
  BY <1>2, <1>3, <1>4, <1>5, <1>6
  DEF Next, InitDevice, InitFails, Absent, Register, Remove, SetUpdateCallback, ClearFlag,
      Unmask, EnableIrq, DropFlag, DisableIrq, Mask, programming, vars

(* hw_timer_stm32_set_cycles() sets up both outputs of a channel again, and *)
(* yet changes none but the one it was called for.                         *)
THEOREM OthersKept == Spec => OtherOutputKept
<1>1. IInv /\ [Next]_vars =>
        [~torn /\ pc # "off" => \A o, p \in Outputs :
           OutputState(o)' # OutputState(o) /\ OutputState(p)' # OutputState(p) => o = p]_vars
  <2> SUFFICES ASSUME IInv, [Next]_vars, ~torn, NEW o \in Outputs, NEW p \in Outputs,
                      OutputState(o)' # OutputState(o), OutputState(p)' # OutputState(p)
               PROVE  o = p
    OBVIOUS
  <2>1. PICK q : \A x \in Outputs \ {q} :
          (x \in tim'.on <=> x \in tim.on) /\ tim'.inverted[x] = tim.inverted[x]
    BY OneOutputChanges
  <2>2. o = q BY <2>1 DEF OutputState
  <2>3. p = q BY <2>1 DEF OutputState
  <2> QED BY <2>2, <2>3
<1> QED BY Invariant, <1>1, PTL DEF Spec, OtherOutputKept

-----------------------------------------------------------------------------
(* The driver does nothing that TimerCallback does not allow: the callback  *)
(* runs only for an update that has come since its registration, and not    *)
(* after it has been removed.  (That it does run is checked by TLC.)        *)
THEOREM AllowedByTimerCallback == Spec => Promised!Init /\ [][Promised!Next]_(Promised!vars)
<1>1. Init => Promised!Init BY DEF Init, Promised!Init
<1>2. ASSUME IInv, [Next]_vars PROVE [Promised!Next]_(Promised!vars)
  <2> USE <1>2 DEF IInv, Promised!vars
  <2>1. {due, beat, uie, irqOn, uif, latched} \subseteq BOOLEAN BY DEF TypeOK
  <2>2. CASE Register
    <3>1. PICK c \in Callbacks : callback' = c BY <2>2 DEF Register
    <3>2. Promised!Register(c) BY <2>2, <3>1 DEF Register, Step, Promised!Register
    <3> QED BY <3>1, <3>2 DEF Promised!Next
  <2>3. CASE ClearFlag
    <3>1. Promised!Settle BY <2>3 DEF ClearFlag, Step, interrupts, Promised!Settle
    <3> QED BY <3>1 DEF Promised!Next
  <2>4. CASE Remove
    <3>1. Promised!Remove BY <2>4 DEF Remove, Step, Promised!Remove
    <3> QED BY <3>1 DEF Promised!Next
  <2>5. CASE Update \/ InitDevice \/ GenerateUpdate
    <3>1. /\ UNCHANGED <<callback, beat>> /\ (pc' = "clear") = (pc = "clear")
          /\ due' = (due \/ callback # NoCallback)
      BY <2>5 DEF Update, InitDevice, GenerateUpdate, RaiseUpdate, Step, programming
    <3>2. CASE callback = NoCallback BY <2>1, <3>1, <3>2
    <3>3. CASE callback # NoCallback
      <4>1. Promised!Update BY <3>1, <3>3 DEF Promised!Update
      <4> QED BY <4>1 DEF Promised!Next
    <3> QED BY <3>2, <3>3
  <2>6. CASE Isr
    <3>1. CASE ~uif \/ callback = NoCallback BY <2>6, <3>1 DEF Isr, interrupts
    <3>2. CASE uif /\ callback # NoCallback
      <4>1. irqOn /\ (latched \/ (uif /\ uie)) /\ CallBack /\ pc' = pc
        BY <2>6, <3>2 DEF Isr, IsrPending
      <4>2. due BY <3>2, <4>1 DEF DueInv
      <4>3. callback' \in {callback, NoCallback}
        BY <4>1 DEF CallBack, Returns, RemovesItself, Programs
      <4>4. Promised!Call BY <3>2, <4>1, <4>2, <4>3 DEF CallBack, Promised!Call
      <4> QED BY <4>4 DEF Promised!Next
    <3> QED BY <3>1, <3>2
  <2>7. CASE UNCHANGED <<callback, due, beat>> /\ (pc' = "clear") = (pc = "clear")
    BY <2>7
  <2> QED
    BY <2>2, <2>3, <2>4, <2>5, <2>6, <2>7
    DEF Next, InitFails, Absent, SetCycles, Program, InitOutput, Preload, WriteCompareRegister,
        WriteReloadRegister, SetUpdateCallback, Unmask, EnableIrq, DropFlag, DisableIrq, Mask,
        Step, SetStep, interrupts, vars
<1> QED BY Invariant, <1>1, <1>2, PTL DEF Spec
=============================================================================
