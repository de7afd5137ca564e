------------------------------ MODULE HwTimer ------------------------------
(***************************************************************************)
(* The hardware timer driver (modules/hw_timer): the registers of one      *)
(* timer, the calls that program its period and pulse and register its     *)
(* callback, made by one thread, and the update interrupt, whose callback  *)
(* may program the timer or remove itself, as the calls in stepper.c show  *)
(* that are commented out at present.                                      *)
(*                                                                         *)
(* A call of the thread is cut where an update or the interrupt can come   *)
(* between two writes to registers.  The compare and reload registers are  *)
(* preloaded: a write takes effect with the next update.  The counter      *)
(* stands still while the reload value in effect is 0.  Calls that return  *)
(* an error change nothing and are no steps here.                          *)
(***************************************************************************)
EXTENDS Naturals

CONSTANTS
    CycleMax,       \* UINT32_MAX
    CounterMax,     \* greatest value of the counter: UINT16_MAX or UINT32_MAX
    NsecPerSec,     \* NSEC_PER_SEC
    Hclk,           \* rate of the system clock
    ApbPrescalers,  \* possible values of the prescaler of the timer's bus
    TimPrescalers,  \* factor selected by TIMPRE, 0 where there is no such bit
    Prescaler,      \* st,prescaler
    CounterModes,   \* possible values of st,countermode
    Channels,       \* channels of the timer, 1 .. TIMER_MAX_CH
    Complementary,  \* those with a complementary output
    Calls,          \* calls of hw_timer_set_cycles() by the thread and the callback
    NsecCalls,      \* calls of hw_timer_set()
    Callbacks, NoCallback

\* The arguments of a call; channel 0 stands for the invalid ones.
Request ==
    [channel : Channels \cup {0}, complementary : BOOLEAN, inverted : BOOLEAN,
     period : 0 .. CycleMax, pulse : 0 .. CycleMax]

ASSUME HwTimerAssumption ==
    /\ CycleMax \in Nat /\ CounterMax \in 1 .. CycleMax
    /\ NsecPerSec \in Nat \ {0} /\ Hclk \in Nat \ {0} /\ Prescaler \in Nat
    /\ ApbPrescalers \subseteq {1, 2, 4, 8, 16} /\ TimPrescalers \subseteq {0, 2, 4}
    /\ \A psc \in ApbPrescalers : Hclk % psc = 0
    /\ CounterModes \subseteq {"up", "down", "center"}
    /\ Complementary \subseteq Channels
    /\ Calls \subseteq Request /\ NsecCalls \subseteq Request
    /\ NoCallback \notin Callbacks

VARIABLES
    pc,         \* where the thread is in a call of the driver
    mode,       \* cfg->countermode
    timClk,     \* data->tim_clk
    tim,        \* registers of the timer
    uif, uie,   \* update flag, update interrupt enabled
    irqOn,      \* interrupt enabled in the interrupt controller
    latched,    \* interrupt pending in the interrupt controller
    callback,   \* data->timer_up_callback
    last,       \* arguments of the last call that programs the timer
    other,      \* what hw_timer_stm32_set_cycles() keeps of the channel's other output
    torn,       \* the interrupt has programmed the timer within that call
    stalled,    \* a period of one cycle has been asked for
    due, beat   \* see TimerCallback

programming == <<tim, last, other, torn, stalled>>
interrupts == <<uie, irqOn, callback, due, beat>>
config == <<mode, timClk>>
vars == <<pc, programming, interrupts, config, uif, latched>>

Outputs == Channels \X BOOLEAN      \* the second: the complementary one


NoRequest ==
    [channel |-> 0, complementary |-> FALSE, inverted |-> FALSE, period |-> 0, pulse |-> 0]

-----------------------------------------------------------------------------
(* Rates and conversions *)

\* Mutant: one threshold for both settings of TIMPRE.
TimerClockOneThreshold(psc, factor) ==
    IF psc <= 4 THEN Hclk ELSE (Hclk \div psc) * factor

\* get_tim_clk(): up to a threshold the timer runs with the system clock.
TimerClock(psc, factor) ==
    LET bus == Hclk \div psc IN
    IF factor = 0 THEN IF psc = 1 THEN bus ELSE bus * 2
                  ELSE IF psc <= factor THEN Hclk ELSE bus * factor

CyclesPerSec(clk) == clk \div (Prescaler + 1)

\* Mutant: rounded up.
CyclesUp(nsec, rate) == (nsec * rate) \div NsecPerSec + 1

\* hw_timer_set() and hw_timer_cycles_to_nsec(); 64 bits hold the products.
Cycles(nsec, rate) == (nsec * rate) \div NsecPerSec
Nsec(cycles, rate) == (cycles * NsecPerSec) \div rate

-----------------------------------------------------------------------------
(* Registers *)

Wrapped(n) == n % (CounterMax + 1)

\* Mutant: the cycle that the counter adds is forgotten.
ReloadOneMore(r) ==
    IF mode = "center" THEN Wrapped(r.period \div 2) ELSE Wrapped(r.period)

\* The values written for a period and a pulse, in the width of the registers.
Reload(r) ==
    IF mode = "center" THEN Wrapped(r.period \div 2) ELSE Wrapped(r.period - 1)

\* Mutant: the underflow for a pulse of 0 goes into the register as it is.
CompareSigned(r) ==
    IF mode = "center" THEN r.pulse \div 2
    ELSE IF mode = "up" THEN Wrapped(r.pulse) ELSE r.pulse - 1

Compare(r) ==
    CASE mode = "up" -> Wrapped(r.pulse)
      [] mode = "down" -> Wrapped(r.pulse + CounterMax)
      [] mode = "center" -> Wrapped(r.pulse \div 2)

WriteReload(t, n) ==
    [t EXCEPT !.arr = n, !.arrOn = IF t.arpe THEN @ ELSE n]
WriteCompare(t, ch, n) ==
    [t EXCEPT !.ccr[ch] = n, !.ccrOn[ch] = IF t.ocpe[ch] THEN @ ELSE n]

\* An update: what has been preloaded takes effect.
Load(t) == [t EXCEPT !.arrOn = t.arr, !.ccrOn = t.ccr]

Output(r) == <<r.channel, r.complementary>>

\* Length of a period in effect and of the active part of it, in cycles.
Length(t) == IF mode = "center" THEN 2 * t.arrOn ELSE t.arrOn + 1
Least(m, n) == IF m <= n THEN m ELSE n
Active(t, ch) ==
    CASE mode = "up" -> Least(t.ccrOn[ch], t.arrOn + 1)
      [] mode = "down" -> Least(t.ccrOn[ch], t.arrOn) + 1
      [] mode = "center" -> 2 * Least(t.ccrOn[ch], t.arrOn)

-----------------------------------------------------------------------------
Off == [on |-> FALSE, inverted |-> FALSE]

Registers ==
    [arr : 0 .. CounterMax, arrOn : 0 .. CounterMax, arpe : BOOLEAN,
     ccr : [Channels -> 0 .. CounterMax], ccrOn : [Channels -> 0 .. CounterMax],
     ocpe : [Channels -> BOOLEAN],
     on : SUBSET Outputs, inverted : [Outputs -> BOOLEAN]]

TypeOK ==
    /\ pc \in {"off", "absent", "idle", "init", "preload", "generate", "compare",
               "reload", "clear", "unmask", "enable", "drop", "disable", "mask"}
    /\ mode \in CounterModes /\ timClk \in Nat
    /\ tim \in Registers
    /\ {uif, uie, irqOn, latched, torn, stalled, due, beat} \subseteq BOOLEAN
    /\ callback \in Callbacks \cup {NoCallback}
    /\ last \in Request \cup {NoRequest}
    /\ other \in [on : BOOLEAN, inverted : BOOLEAN]

Init ==
    /\ pc = "off" /\ mode \in CounterModes /\ timClk = 0
    /\ tim = [arr |-> 0, arrOn |-> 0, arpe |-> FALSE,
              ccr |-> [c \in Channels |-> 0], ccrOn |-> [c \in Channels |-> 0],
              ocpe |-> [c \in Channels |-> FALSE],
              on |-> {}, inverted |-> [o \in Outputs |-> FALSE]]
    /\ uif = FALSE /\ uie = FALSE /\ irqOn = FALSE /\ latched = FALSE
    /\ callback = NoCallback
    /\ last = NoRequest /\ other = Off
    /\ torn = FALSE /\ stalled = FALSE
    /\ due = FALSE /\ beat = FALSE

\* The hardware's side of an update: the flag, and the interrupt if it is enabled.
RaiseUpdate ==
    /\ uif' = TRUE
    /\ latched' = (latched \/ uie)
    /\ due' = (due \/ callback # NoCallback)

\* hw_timer_stm32_init(): LL_TIM_Init() leaves the reload value 0 and the flag
\* set, by the update it generates.
InitDevice ==
    /\ pc = "off" /\ pc' = "idle"
    /\ \E psc \in ApbPrescalers, factor \in TimPrescalers :
         timClk' = TimerClock(psc, factor)
    /\ RaiseUpdate
    /\ UNCHANGED <<mode, programming, uie, irqOn, callback, beat>>

\* The clock is not ready, or the timer cannot be initialized.
InitFails ==
    /\ pc = "off" /\ pc' = "absent"
    /\ UNCHANGED <<config, programming, interrupts, uif, latched>>

Absent == pc = "absent" /\ UNCHANGED vars

-----------------------------------------------------------------------------
(* hw_timer_set_cycles() *)

Accepted(r) ==
    /\ r.pulse <= r.period
    /\ r.channel \in Channels
    /\ r.period <= CounterMax + 1
    /\ r.complementary => r.channel \in Complementary

Stalls(r) == r.period > 0 /\ Reload(r) = 0

Stopped(t, r) == [t EXCEPT !.on = @ \ {Output(r)}]

\* Mutant: the other output of the channel is not inherited.
OutputsSetAlone(t, r, found) ==
    LET twin == <<r.channel, ~r.complementary>> IN
    WriteCompare([t EXCEPT !.on = (@ \ {twin}) \cup {Output(r)},
                           !.inverted[Output(r)] = r.inverted,
                           !.inverted[twin] = FALSE], r.channel, Compare(r))

\* LL_TIM_OC_Init(): both outputs of the channel are set up, the one of the
\* call and the other one as it has been found before.
OutputsSet(t, r, found) ==
    LET twin == <<r.channel, ~r.complementary>>
        set == [t EXCEPT !.on = (@ \ {twin}) \cup {Output(r)} \cup
                                (IF found.on THEN {twin} ELSE {}),
                         !.inverted[Output(r)] = r.inverted,
                         !.inverted[twin] = found.inverted]
    IN  WriteCompare(set, r.channel, Compare(r))

Found(t, r) ==
    LET twin == <<r.channel, ~r.complementary>> IN
    [on |-> twin \in t.on, inverted |-> t.inverted[twin]]

Preloaded(t, r) == WriteReload([t EXCEPT !.arpe = TRUE, !.ocpe[r.channel] = TRUE], Reload(r))

Compared(t, r) ==
    WriteCompare([t EXCEPT !.inverted[Output(r)] = r.inverted], r.channel, Compare(r))

\* The call as a whole, from the interrupt, for an output that runs or to stop it.
Programmed(t, r) ==
    IF r.period = 0 THEN Stopped(t, r) ELSE WriteReload(Compared(t, r), Reload(r))

\* hw_timer_set(): nanoseconds are turned into cycles, rounded down.
InCycles(r) ==
    LET rate == CyclesPerSec(timClk) IN
    [r EXCEPT !.period = Cycles(@, rate), !.pulse = Cycles(@, rate)]

\* What hw_timer_set_cycles() and hw_timer_set() pass on to the driver.
Asked ==
    {r \in Calls : Accepted(r)} \cup
    {r \in {InCycles(n) : n \in NsecCalls} : r.period <= CycleMax /\ Accepted(r)}

\* An interrupt that is pending and enabled comes before the thread goes on.
IsrPending == irqOn /\ (latched \/ (uif /\ uie))
Thread == ~IsrPending

Setting == pc \in {"init", "preload", "generate", "compare", "reload"}

\* hw_timer_stm32_set_cycles() up to the first write to a register.
SetCycles ==
    /\ pc = "idle" /\ Thread
    /\ \E r \in Asked :
         /\ last' = r
         /\ stalled' = (stalled \/ Stalls(r))
         /\ IF r.period = 0
              THEN pc' = "idle" /\ tim' = Stopped(tim, r) /\ UNCHANGED other
              ELSE IF Output(r) \in tim.on
              THEN pc' = "compare" /\ UNCHANGED <<tim, other>>
              ELSE pc' = "init" /\ other' = Found(tim, r) /\ UNCHANGED tim
    /\ torn' = FALSE
    /\ UNCHANGED <<config, interrupts, uif, latched>>

Step(from, to) ==
    /\ pc = from /\ pc' = to /\ Thread
    /\ UNCHANGED config

SetStep(from, to, t) ==
    /\ Step(from, to) /\ tim' = t
    /\ UNCHANGED <<last, other, torn, stalled, interrupts, uif, latched>>

InitOutput ==
    /\ Step("init", "preload")
    /\ tim' = OutputsSet(tim, last, other) /\ other' = Off
    /\ UNCHANGED <<last, torn, stalled, interrupts, uif, latched>>

Preload == SetStep("preload", "generate", Preloaded(tim, last))

\* Mutant: the first period is left to be loaded by an update that never comes.
GenerateNothing ==
    /\ Step("generate", "idle")
    /\ UNCHANGED <<programming, interrupts, uif, latched>>

\* LL_TIM_GenerateEvent_UPDATE()
GenerateUpdate ==
    /\ Step("generate", "idle")
    /\ tim' = Load(tim) /\ RaiseUpdate
    /\ UNCHANGED <<last, other, torn, stalled, uie, irqOn, callback, beat>>

WriteCompareRegister == SetStep("compare", "reload", Compared(tim, last))
WriteReloadRegister == SetStep("reload", "idle", WriteReload(tim, Reload(last)))

-----------------------------------------------------------------------------
(* hw_timer_stm32_set_update_callback() *)

Register ==
    /\ Step("idle", "clear") /\ callback' \in Callbacks
    /\ due' = (due /\ callback # NoCallback)
    /\ UNCHANGED <<programming, uie, irqOn, beat, uif, latched>>

\* Mutant: the flag of an older update is left standing.
FlagLeft ==
    /\ Step("clear", "unmask")
    /\ due' = FALSE
    /\ UNCHANGED <<programming, uie, irqOn, callback, beat, uif, latched>>

ClearFlag ==
    /\ Step("clear", "unmask")
    /\ uif' = FALSE /\ due' = FALSE
    /\ UNCHANGED <<programming, uie, irqOn, callback, beat, latched>>

Unmask ==
    /\ Step("unmask", "enable")
    /\ uie' = TRUE /\ latched' = (latched \/ uif)
    /\ UNCHANGED <<programming, irqOn, callback, due, beat, uif>>

EnableIrq ==
    /\ Step("enable", "idle")
    /\ irqOn' = TRUE
    /\ UNCHANGED <<programming, uie, callback, due, beat, uif, latched>>

Remove ==
    /\ Step("idle", "drop") /\ callback' = NoCallback /\ due' = FALSE
    /\ UNCHANGED <<programming, uie, irqOn, beat, uif, latched>>

DropFlag ==
    /\ Step("drop", "disable") /\ uif' = FALSE
    /\ UNCHANGED <<programming, interrupts, latched>>

DisableIrq ==
    /\ Step("disable", "mask") /\ irqOn' = FALSE
    /\ UNCHANGED <<programming, uie, callback, due, beat, uif, latched>>

Mask ==
    /\ Step("mask", "idle") /\ uie' = FALSE
    /\ UNCHANGED <<programming, irqOn, callback, due, beat, uif, latched>>

-----------------------------------------------------------------------------
(* The hardware and the interrupt *)

\* The counter overflows; a counter that stands still never does.
Update ==
    /\ pc \notin {"off", "absent"} /\ tim.arrOn > 0
    /\ tim' = Load(tim) /\ RaiseUpdate
    /\ UNCHANGED <<pc, config, last, other, torn, stalled, uie, irqOn, callback, beat>>

\* The callback does nothing to the timer, removes itself ...
Returns == UNCHANGED <<programming, uie, irqOn, callback>>

\* Mutant: the callback stays registered.
RemovesInterruptOnly ==
    /\ irqOn' = FALSE /\ uie' = FALSE
    /\ UNCHANGED <<programming, callback>>

RemovesItself ==
    /\ callback' = NoCallback
    /\ irqOn' = FALSE /\ uie' = FALSE
    /\ UNCHANGED programming

\* ... or changes or stops an output that runs.
Programs ==
    /\ \E r \in Asked :
         /\ r.period = 0 \/ Output(r) \in tim.on
         /\ tim' = Programmed(tim, r)
         /\ stalled' = (stalled \/ Stalls(r))
         /\ last' = IF Setting THEN last ELSE r
    /\ torn' = Setting
    /\ UNCHANGED <<other, uie, irqOn, callback>>

CallBack ==
    /\ beat' = ~beat
    /\ Returns \/ RemovesItself \/ Programs
    /\ uif' = FALSE /\ latched' = FALSE /\ due' = FALSE

\* hw_timer_stm32_up_isr()
Isr ==
    /\ IsrPending
    /\ IF ~uif \/ callback = NoCallback
         THEN /\ uif' = FALSE /\ latched' = FALSE
              /\ UNCHANGED <<programming, interrupts>>
         ELSE CallBack
    /\ UNCHANGED <<pc, config>>

-----------------------------------------------------------------------------
Program ==
    InitOutput \/ Preload \/ GenerateUpdate \/ WriteCompareRegister \/ WriteReloadRegister
SetUpdateCallback ==
    ClearFlag \/ Unmask \/ EnableIrq \/ DropFlag \/ DisableIrq \/ Mask

Next ==
    \/ InitDevice \/ InitFails \/ Absent
    \/ SetCycles \/ Program \/ Register \/ Remove \/ SetUpdateCallback
    \/ Update \/ Isr

(* A call that has begun is finished, the counter runs and a pending        *)
(* interrupt is served; nobody is bound to call the driver.                 *)
Spec ==
    /\ Init /\ [][Next]_vars
    /\ WF_vars(Program) /\ WF_vars(SetUpdateCallback) /\ WF_vars(Update) /\ WF_vars(Isr)

-----------------------------------------------------------------------------
(* Properties *)

(* The callback runs for updates since its registration and for no other,  *)
(* whatever the order of updates, interrupts and calls, and an update that *)
(* has come is served: see module TimerCallback.                           *)
Promised == INSTANCE TimerCallback WITH settling <- pc = "clear"
ImplementsTimerCallback == Promised!Spec

(* A callback that is registered is not cut off from its interrupt by a     *)
(* removal that came between the steps of the call.                         *)
RegisteredIsArmed == pc = "idle" /\ callback # NoCallback => uie /\ irqOn

Rounded(n) == IF mode = "center" THEN 2 * (n \div 2) ELSE n

\* The compare value of a request does not fit the register: a pulse of 0 when
\* the counter counts down, one of CounterMax + 1 when it counts up.
Wraps(r) == (mode = "down" /\ r.pulse = 0) \/ (mode = "up" /\ r.pulse > CounterMax)

(* Once the registers are in effect, the output named by the last call has *)
(* the period, the pulse and the polarity that were asked for, rounded to  *)
(* even numbers when the counter is center aligned, also when the calls    *)
(* came from the thread and the interrupt in turn.  Two requests come out   *)
(* reversed, against hw_timer.h:471-474: a pulse of 0 is constantly active  *)
(* when the counter counts down, and a pulse as long as the longest period  *)
(* constantly inactive when it counts up (see Wraps).  Nothing is said when *)
(* the callback has programmed the timer between two writes of a call of    *)
(* the thread (torn): then the output may have the pulse of one call and    *)
(* the period of the other one.                                             *)
OutputAsRequested ==
    pc = "idle" /\ ~torn /\ last # NoRequest /\ tim.arr = tim.arrOn /\ tim.ccr = tim.ccrOn =>
      IF last.period = 0 THEN Output(last) \notin tim.on
      ELSE /\ Output(last) \in tim.on
           /\ tim.inverted[Output(last)] = last.inverted
           /\ Length(tim) = Rounded(last.period)
           /\ Active(tim, last.channel) =
                IF Wraps(last) THEN last.period - last.pulse ELSE Rounded(last.pulse)

(* A call changes no output but its own, although it sets up the other     *)
(* output of the channel again.                                            *)
OutputState(o) == <<o \in tim.on, tim.inverted[o]>>
OtherOutputKept ==
    [][~torn /\ pc # "off" => \A o, p \in Outputs :
         OutputState(o)' # OutputState(o) /\ OutputState(p)' # OutputState(p) => o = p]_vars

(* The period asked for takes effect, unless a period of one cycle stops   *)
(* the counter, which then never comes to load another one.                *)
TakesEffect == tim.arr # tim.arrOn ~> (tim.arr = tim.arrOn \/ stalled)

(* For every bus and setting, the timer's clock is the bus clock times its *)
(* factor, but never faster than the system clock (get_tim_clk()).          *)
ClockRate ==
    pc = "idle" => \A psc \in ApbPrescalers, factor \in TimPrescalers :
      TimerClock(psc, factor) = Least(Hclk, (IF factor = 4 THEN 4 ELSE 2) * (Hclk \div psc))

(* A time and the cycles it is turned into: the cycles converted back are   *)
(* not more than the time, and one cycle more is not less.                  *)
ConversionBrackets ==
    timClk > Prescaler =>
      LET rate == CyclesPerSec(timClk) IN
      \A nsec \in 0 .. CycleMax :
        Nsec(Cycles(nsec, rate), rate) <= nsec /\ nsec <= Nsec(Cycles(nsec, rate) + 1, rate)
=============================================================================
