--------------------------- MODULE Device_proofs ---------------------------
(***************************************************************************)
(* Proofs about module Device, its two motors and two axes, for every size *)
(* of the frame, lag and number of directory entries, homing cycles and    *)
(* events in them: a motor has current only with its settings, and what    *)
(* the homing cycle calls home is at the switch.                           *)
(***************************************************************************)
EXTENDS Device, TLAPS

-----------------------------------------------------------------------------
(* Start-up *)

Written(n) == {Registers[i] : i \in 1 .. n}

\* Motor m is being programmed, and its driver hears it.
Writing(m) == boot = "register" /\ MotorOrder[motor] = m /\ Reaches(m)

\* A driver holds all of the settings or none, except while it is programmed.
ChipInv ==
    \A m \in Motors :
      /\ chip[m] \in {{}, RegisterSet} \/ Writing(m)
      /\ Writing(m) => chip[m] \in {Written(written), RegisterSet}

\* Motors are programmed in turn, each before it is enabled.
OrderInv ==
    /\ boot \in {"disk", "mount", "opendir", "readdir", "closedir", "pins", "devices"} =>
         motor = 1 /\ written = 0 /\ enabled = {}
    /\ boot \in {"register", "enable"} => motor \in 1 .. 2
    /\ boot = "register" => written < 9
    /\ boot = "enable" => written = 9
    /\ \A m \in enabled : \E i \in 1 .. 2 : i < motor /\ MotorOrder[i] = m

BootInv == BootTypeOK /\ ChipInv /\ OrderInv

LEMMA Lengths == Len(Pins) = 8 /\ Len(Registers) = 9 /\ Len(MotorOrder) = 2
BY DEF Pins, Registers, MotorOrder

LEMMA RegisterFacts ==
    /\ RegisterSet = Written(9)
    /\ Written(0) = {}
    /\ \A n \in 0 .. 8 : Written(n + 1) = Written(n) \cup {Registers[n + 1]}
    /\ \A n \in 1 .. 9 : Registers[n] \in RegisterSet
<1>1. DOMAIN Registers = 1 .. 9 BY DEF Registers
<1>2. RegisterSet = Written(9) BY <1>1 DEF RegisterSet, Written
<1>3. Written(0) = {} BY DEF Written
<1>4. ASSUME NEW n \in 0 .. 8 PROVE Written(n + 1) = Written(n) \cup {Registers[n + 1]}
  <2>1. 1 .. n + 1 = (1 .. n) \cup {n + 1} OBVIOUS
  <2> QED BY <2>1 DEF Written
<1> QED BY <1>1, <1>2, <1>3, <1>4 DEF RegisterSet

LEMMA MotorFacts ==
    /\ \A i \in 1 .. 2 : MotorOrder[i] \in Motors
    /\ MotorOrder[1] # MotorOrder[2]
BY DEF MotorOrder, Motors

\* The enable pin of a motor is configured before its chip select.
LEMMA EnableFirst ==
    ASSUME pins \in 0 .. 8, NEW m \in Motors, <<"nss", m>> \in Outputs
    PROVE  <<"enable", m>> \in Outputs
<1>1. PICK i \in 1 .. pins : Pins[i] = <<"nss", m>> BY DEF Outputs
<1>2. (m = "X" /\ i = 4) \/ (m = "Y" /\ i = 8) BY <1>1 DEF Pins, Motors
<1>3. Pins[i - 1] = <<"enable", m>> BY <1>2 DEF Pins
<1>4. i - 1 \in 1 .. pins BY <1>1, <1>2
<1> QED BY <1>3, <1>4 DEF Outputs

LEMMA BootInitInv == BootInit => BootInv
<1> SUFFICES ASSUME BootInit PROVE BootInv OBVIOUS
<1>1. PICK registers \in {{}, RegisterSet} : chip = [m \in Motors |-> registers]
  BY DEF BootInit
<1>2. BootTypeOK
  <2>1. chip \in [Motors -> SUBSET RegisterSet] BY <1>1
  <2>2. files \in 0 .. MaxFiles BY MaxFilesAssumption DEF BootInit
  <2>3. pins \in 0 .. Len(Pins) /\ motor \in 1 .. Len(MotorOrder) + 1
        /\ written \in 0 .. Len(Registers)
    BY Lengths DEF BootInit
  <2> QED BY <2>1, <2>2, <2>3 DEF BootInit, BootTypeOK
<1>3. ChipInv BY <1>1 DEF BootInit, ChipInv, Writing
<1>4. OrderInv BY DEF BootInit, OrderInv
<1> QED BY <1>2, <1>3, <1>4 DEF BootInv

LEMMA CardType ==
    ASSUME files \in 0 .. MaxFiles, dir \in BOOLEAN, OpenDir \/ ReadDir \/ CloseDir
    PROVE  files' \in 0 .. MaxFiles /\ dir' \in BOOLEAN
<1>1. CASE OpenDir BY <1>1 DEF OpenDir, card
<1>2. CASE ReadDir BY <1>2, MaxFilesAssumption DEF ReadDir
<1>3. CASE CloseDir
  <2>1. files' \in 0 .. MaxFiles BY <1>3, MaxFilesAssumption DEF CloseDir
  <2>2. dir' \in BOOLEAN BY <1>3 DEF CloseDir
  <2> QED BY <2>1, <2>2
<1> QED BY <1>1, <1>2, <1>3

LEMMA BootStep == ASSUME BootInv, BootNext PROVE BootInv'
<1> USE Lengths, MaxFilesAssumption DEF BootInv
<1>1. CASE AskDisk \/ MountCard \/ OpenDir \/ ReadDir \/ CloseDir \/ ConfigurePin \/ FindDevices
  <2> USE <1>1 DEF AskDisk, MountCard, OpenDir, ReadDir, CloseDir, ConfigurePin, FindDevices,
                   card, driver
  <2>1. BootTypeOK'
    <3>1. /\ files \in 0 .. MaxFiles /\ dir \in BOOLEAN /\ pins \in 0 .. 8
          /\ motor \in 1 .. 3 /\ written \in 0 .. 9
          /\ chip \in [Motors -> SUBSET RegisterSet]
          /\ enabled \subseteq Motors /\ bus \in BOOLEAN
      BY DEF BootTypeOK
    <3>2. files' \in 0 .. MaxFiles /\ dir' \in BOOLEAN
      <4>1. CASE OpenDir \/ ReadDir \/ CloseDir BY <3>1, <4>1, CardType
      <4>2. CASE UNCHANGED card BY <3>1, <4>2
      <4> QED BY <4>1, <4>2
    <3>3. pins' \in 0 .. 8 BY <3>1
    <3>4. boot' \in {"mount", "opendir", "readdir", "closedir", "pins", "devices", "register"}
      OBVIOUS
    <3> QED BY <3>1, <3>2, <3>3, <3>4 DEF BootTypeOK
  <2>2. motor = 1 /\ written = 0 /\ enabled = {} /\ ~(boot = "register")
    BY DEF OrderInv
  <2>3. /\ UNCHANGED <<motor, written, chip, enabled, bus>>
        /\ boot' \in {"disk", "mount", "opendir", "readdir", "closedir", "pins", "devices",
                      "register"}
    BY DEF BootTypeOK
  <2>4. OrderInv' BY <2>2, <2>3 DEF OrderInv
  <2>5. ChipInv'
    <3> SUFFICES ASSUME NEW m \in Motors PROVE chip[m] \in {{}, RegisterSet} /\
                   (Writing(m)' => chip'[m] \in {Written(written'), RegisterSet})
      BY <2>3 DEF ChipInv
    <3>1. chip[m] \in {{}, RegisterSet} BY <2>2 DEF ChipInv, Writing
    <3> QED BY <2>2, <2>3, <3>1, RegisterFacts
  <2> QED BY <2>1, <2>4, <2>5
<1>2. CASE WriteRegister
  <2> USE <1>2 DEF WriteRegister, card
  <2>1. boot = "register" /\ motor \in 1 .. 2 /\ written \in 0 .. 8 BY DEF OrderInv, BootTypeOK
  <2>2. /\ UNCHANGED <<pins, motor, enabled, bus>> /\ written' = written + 1
        /\ boot' = IF written' = 9 THEN "enable" ELSE "register"
    OBVIOUS
  <2>3. \A m \in Motors : Reaches(m)' <=> Reaches(m) BY <2>2 DEF Reaches, Outputs
  <2>4. ASSUME NEW m \in Motors
        PROVE  chip'[m] = IF Writing(m) THEN chip[m] \cup {Registers[written + 1]} ELSE chip[m]
    BY <2>1, <2>2 DEF BootTypeOK, Writing, Programmed
  <2>5. BootTypeOK'
    <3>1. chip' \in [Motors -> SUBSET RegisterSet]
      <4>1. Registers[written + 1] \in RegisterSet BY <2>1, RegisterFacts
      <4> QED BY <4>1, <2>2 DEF BootTypeOK
    <3> QED BY <2>1, <2>2, <3>1 DEF BootTypeOK
  <2>6. OrderInv' BY <2>1, <2>2 DEF OrderInv
  <2>7. ChipInv'
    <3> SUFFICES ASSUME NEW m \in Motors
                 PROVE  /\ chip'[m] \in {{}, RegisterSet} \/ Writing(m)'
                        /\ Writing(m)' => chip'[m] \in {Written(written'), RegisterSet}
      BY DEF ChipInv
    <3>1. CASE Writing(m)
      <4>1. chip'[m] \in {Written(written + 1), RegisterSet}
        BY <2>1, <2>4, <3>1, RegisterFacts DEF ChipInv
      <4>2. Writing(m)' \/ written + 1 = 9 BY <2>2, <2>3, <3>1 DEF Writing
      <4> QED BY <2>2, <4>1, <4>2, RegisterFacts
    <3>2. CASE ~Writing(m)
      <4>1. ~Writing(m)' BY <2>1, <2>2, <2>3, <3>2 DEF Writing
      <4> QED BY <2>4, <3>2, <4>1 DEF ChipInv
    <3> QED BY <3>1, <3>2
  <2> QED BY <2>5, <2>6, <2>7
<1>3. CASE EnableMotor
  <2> USE <1>3 DEF EnableMotor, card
  <2>1. boot = "enable" /\ motor \in 1 .. 2 /\ motor' = motor + 1 /\ chip' = chip
    BY DEF OrderInv
  <2>2. \A m \in enabled' : m \in enabled \/ m = MotorOrder[motor] BY DEF Programmed
  <2>3. BootTypeOK' BY <2>1 DEF BootTypeOK
  <2>4. OrderInv' BY <2>1, <2>2 DEF OrderInv, BootTypeOK
  <2>5. ChipInv'
    <3> SUFFICES ASSUME NEW m \in Motors
                 PROVE  /\ chip[m] \in {{}, RegisterSet}
                        /\ Writing(m)' => chip[m] \in {Written(written'), RegisterSet}
      BY <2>1 DEF ChipInv
    <3>1. chip[m] \in {{}, RegisterSet} BY <2>1 DEF ChipInv, Writing
    <3>2. Writing(m)' => written' = 0 BY DEF Writing
    <3> QED BY <3>1, <3>2, RegisterFacts
  <2> QED BY <2>3, <2>4, <2>5
<1> QED BY <1>1, <1>2, <1>3 DEF BootNext

LEMMA BootStutters == ASSUME BootInv, UNCHANGED bootVars PROVE BootInv'
<1>1. BootTypeOK' BY DEF BootInv, BootTypeOK, bootVars
<1>2. ChipInv' BY DEF BootInv, ChipInv, Writing, Reaches, Outputs, bootVars
<1>3. OrderInv' BY DEF BootInv, OrderInv, bootVars
<1> QED BY <1>1, <1>2, <1>3 DEF BootInv

LEMMA BootInvariant == Spec => []BootInv
<1>1. Init => BootInv BY BootInitInv DEF Init
<1>2. BootInv /\ [Next]_vars => BootInv'
  BY BootStep, BootStutters DEF Next, Boot, Start, Home, Main, StepTimer, Interrupt, Grbl, vars
<1> QED BY <1>1, <1>2, PTL DEF Spec

(* drv::init() after mcuPeripheralsInit(): wherever the start-up was given  *)
(* up, a motor that has current has all the settings of its driver; this    *)
(* rests on the enable pin being configured before the chip select.         *)
THEOREM SetupBeforeCurrent == Spec => []EnergizedAfterSetup
<1>1. BootInv => EnergizedAfterSetup
  <2> SUFFICES ASSUME BootInv, NEW m \in Energized PROVE chip[m] = RegisterSet
    BY DEF EnergizedAfterSetup
  <2>1. m \in Motors /\ Enabled(m) /\ "TOFF" \in chip[m] BY DEF Energized
  <2>2. ~Writing(m)
    <3> SUFFICES ASSUME Writing(m) PROVE FALSE OBVIOUS
    <3>1. <<"enable", m>> \in Outputs
      BY <2>1, EnableFirst, Lengths DEF Writing, Reaches, BootInv, BootTypeOK
    <3>2. m \in enabled BY <2>1, <3>1 DEF Enabled
    <3> QED BY <3>2, MotorFacts DEF BootInv, OrderInv, Writing
  <2> QED BY <2>1, <2>2 DEF BootInv, ChipInv
<1> QED BY BootInvariant, <1>1, PTL

-----------------------------------------------------------------------------
(* The carriage and the position of a CoreXY *)

\* Length of the locating pass.
LocateSteps == PullOff * LocateScalar

LEMMA ConstantFacts ==
    /\ {Top, Low, High, Travel, Search, PullOff, LocateScalar, SeekLag, FeedLag}
         \subseteq Nat \ {0}
    /\ MaxEvents \in Nat /\ MaxHomings \in Nat
    /\ LocateSteps \in Nat
    /\ Low < High /\ High <= Top
    /\ Low + 2 * PullOff < High
    /\ PullOff + 2 * FeedLag <= LocateSteps
BY DeviceAssumption, PullOffAssumption DEF LocateSteps

LEMMA HalfFacts ==
    ASSUME NEW n \in Int
    PROVE  Homing!Half(n) \in Int /\ Homing!Half(2 * n) = n
BY DEF Homing!Half

LEMMA StepsType ==
    ASSUME NEW p \in [{"A", "B"} -> Int], NEW a \in {"X", "Y"}
    PROVE  Homing!Steps(p, a) \in Int
BY HalfFacts DEF Homing!Steps

\* Setting the position of one axis does not touch that of the other.
LEMMA PlacedFacts ==
    ASSUME NEW p \in [{"A", "B"} -> Int], NEW a \in {"X", "Y"}, NEW n \in Int
    PROVE  /\ Homing!Placed(p, a, n) \in [{"A", "B"} -> Int]
           /\ Homing!Steps(Homing!Placed(p, a, n), a) = n
           /\ Homing!Steps(Homing!Placed(p, a, n), Homing!Other(a))
                = Homing!Steps(p, Homing!Other(a))
<1> DEFINE off == Homing!Steps(p, Homing!Other(a))
           q == Homing!Placed(p, a, n)
<1>1. off \in Int BY StepsType DEF Homing!Other
<1>2. CASE a = "X"
  <2>1. q = [A |-> n + off, B |-> n - off] BY <1>2 DEF Homing!Placed
  <2>2. q.A + q.B = 2 * n /\ q.A - q.B = 2 * off BY <1>1, <2>1
  <2> HIDE DEF q, off
  <2>3. Homing!Steps(q, "X") = n BY <2>2, HalfFacts DEF Homing!Steps
  <2>4. Homing!Steps(q, "Y") = off BY <1>1, <2>2, HalfFacts DEF Homing!Steps
  <2> QED BY <1>1, <1>2, <2>1, <2>3, <2>4 DEF Homing!Other, q, off
<1>3. CASE a = "Y"
  <2>1. q = [A |-> off + n, B |-> off - n] BY <1>3 DEF Homing!Placed
  <2>2. q.A + q.B = 2 * off /\ q.A - q.B = 2 * n BY <1>1, <2>1
  <2> HIDE DEF q, off
  <2>3. Homing!Steps(q, "Y") = n BY <2>2, HalfFacts DEF Homing!Steps
  <2>4. Homing!Steps(q, "X") = off BY <1>1, <2>2, HalfFacts DEF Homing!Steps
  <2> QED BY <1>1, <1>3, <2>1, <2>3, <2>4 DEF Homing!Other, q, off
<1> QED BY <1>2, <1>3

LEMMA TurningKept == ASSUME UNCHANGED bootVars PROVE Turning' = Turning
BY DEF bootVars, Turning, Energized, Enabled, Outputs

LEMMA TurningType == Turning \subseteq {"A", "B"}
BY DEF Turning

\* The motors move the carriage within the frame, and only when they turn.
LEMMA MovedFacts ==
    ASSUME carriage \in [{"X", "Y"} -> 0 .. Top]
    PROVE  /\ Homing!Moved \in [{"X", "Y"} -> 0 .. Top]
           /\ ~lock \/ Turning = {} => \A a \in {"X", "Y"} : Homing!Moved[a] = carriage[a]
<1> DEFINE x == carriage["X"] + Homing!Turned["A"] + Homing!Turned["B"]
           y == carriage["Y"] + Homing!Turned["A"] - Homing!Turned["B"]
<1>1. Homing!Moved = IF x \in 0 .. Top /\ y \in 0 .. Top THEN [X |-> x, Y |-> y] ELSE carriage
  BY DEF Homing!Moved
<1>2. Homing!Moved \in [{"X", "Y"} -> 0 .. Top] BY <1>1
<1>3. ASSUME ~lock \/ Turning = {}
      PROVE  \A a \in {"X", "Y"} : Homing!Moved[a] = carriage[a]
  <2>1. Homing!Turned["A"] = 0 /\ Homing!Turned["B"] = 0 BY <1>3 DEF Homing!Turned, Homing!AB
  <2>2. x = carriage["X"] /\ y = carriage["Y"] BY <2>1
  <2> QED BY <1>1, <2>2
<1> QED BY <1>2, <1>3

\* With both motors, one axis moves by two half steps, and the other one stays.
LEMMA MovedBoth ==
    ASSUME carriage \in [{"X", "Y"} -> 0 .. Top], axis \in {"X", "Y"}, Turning = {"A", "B"}
    PROVE  LET d == IF ~lock THEN 0 ELSE IF Homing!approach THEN -2 ELSE 2 IN
           /\ Homing!Moved[axis] = IF carriage[axis] + d \in 0 .. Top
                                   THEN carriage[axis] + d ELSE carriage[axis]
           /\ Homing!Moved[Homing!Other(axis)] = carriage[Homing!Other(axis)]
<1> DEFINE x == carriage["X"] + Homing!Turned["A"] + Homing!Turned["B"]
           y == carriage["Y"] + Homing!Turned["A"] - Homing!Turned["B"]
           s == IF Homing!approach THEN -1 ELSE 1
<1>1. Homing!Moved = IF x \in 0 .. Top /\ y \in 0 .. Top THEN [X |-> x, Y |-> y] ELSE carriage
  BY DEF Homing!Moved
<1>2. Homing!Turned["A"] = IF lock THEN s ELSE 0
  BY DEF Homing!Turned, Homing!AB, Homing!Sign
<1>3. Homing!Turned["B"] = IF lock THEN (IF axis = "Y" THEN -s ELSE s) ELSE 0
  BY DEF Homing!Turned, Homing!AB, Homing!Sign
<1>4. CASE axis = "X"
  <2>1. y = carriage["Y"] /\ x = carriage["X"] + (IF lock THEN 2 * s ELSE 0) BY <1>2, <1>3, <1>4
  <2> QED BY <1>1, <1>4, <2>1 DEF Homing!Other
<1>5. CASE axis = "Y"
  <2>1. x = carriage["X"] /\ y = carriage["Y"] + (IF lock THEN 2 * s ELSE 0) BY <1>2, <1>3, <1>5
  <2> QED BY <1>1, <1>5, <2>1 DEF Homing!Other
<1> QED BY <1>4, <1>5

-----------------------------------------------------------------------------
(* The homing cycle *)

Cycling == at \notin {"off", "idle"}

\* The parts of the cycle: limits_go_home(), the rest of mc_homing_cycle() and
\* $H, and the main loop's poll.
GoingHome == at \in {"pass", "poll", "check", "stop", "set", "next"}
Ending == at \in {"end", "flags", "ajar", "suspended", "woken", "finish"}
Returning == at \in {"loop", "serve"}

On(a) == carriage[a] <= Low \/ carriage[a] >= High

\* The loop of limits_go_home(), whatever the motors do.
ControlInv ==
    /\ at # "off" => boot = "grbl"
    /\ at = "off" => state = "ALARM"
    /\ at \notin {"poll", "check", "stop"} => ~running
    /\ at = "poll" => lock
    /\ at \in {"check", "stop"} /\ ~lock => pass \in {0, 2} /\ (On("X") \/ On("Y"))
    /\ at = "stop" /\ pass \in {0, 2} => ~lock
    /\ at \in {"set", "next"} \/ Ending => pass = 3
    /\ Ending => axis = "Y"

\* Without current, X may pass for homed, but then Y cannot.
DeadInv ==
    Turning = {} =>
      /\ state \notin {"IDLE", "SAFETY_DOOR"}
      /\ ~Ending
      /\ Returning => state = "ALARM"
      /\ GoingHome =>
           /\ pass >= 1 \/ axis = "Y" => On("X") \/ On("Y")
           /\ pass >= 2 \/ (pass = 1 /\ at = "stop") => ~On(axis)
           /\ axis = "Y" => ~On("X")

\* Steps made in the locating pass.
Made == LocateSteps - left

\* Where the axis is in each pass of the loop, with both motors turning and the
\* other axis off its switches.
PassInv ==
    LET x == carriage[axis] IN
    /\ pass = 1 =>
         /\ at = "pass" => On(axis)
         /\ at \in {"poll", "check", "stop"} =>
              left <= PullOff /\ (x <= Low + 2 * (PullOff - left) \/ x >= High)
         /\ at = "stop" => Low < x /\ x < High
    /\ pass = 2 =>
         /\ at = "pass" => Low < x /\ x <= Low + 2 * PullOff
         /\ at \in {"poll", "check", "stop"} => 0 <= lag /\ lag <= FeedLag
         /\ at \in {"poll", "check"} /\ lock =>
              /\ lag <= Made /\ Made - lag < PullOff
              /\ x >= Low + 1 - 2 * lag
              /\ x <= Low + 2 * PullOff - 2 * Made \/ x <= 1
         /\ at \in {"check", "stop"} /\ ~lock =>
              Made - lag < PullOff + FeedLag /\ Low + 1 - 2 * FeedLag <= x /\ x <= Low
         /\ at = "stop" => "CYCLE_STOP" \notin flags
    /\ pass = 3 =>
         /\ at = "pass" =>
              Low + 1 - 2 * FeedLag <= x /\ x <= Low /\ "CYCLE_STOP" \notin flags
         /\ at \in {"poll", "check", "stop"} =>
              /\ left <= PullOff
              /\ Low + 1 - 2 * FeedLag + 2 * (PullOff - left) <= x
              /\ x <= Low + 2 * (PullOff - left)
              /\ "CYCLE_STOP" \in flags \/ at = "stop" => left = 0
         /\ at \in {"set", "next"} =>
              Low + 1 - 2 * FeedLag + 2 * PullOff <= x /\ x <= Low + 2 * PullOff
         /\ at = "next" => Homing!Steps(position, axis) = Homing!HomePosition

LocatedInv == Turning = {"A", "B"} /\ GoingHome /\ ~On(Homing!Other(axis)) => PassInv

HomingTypeOK == Homing!TypeOK /\ homings \in 0 .. MaxHomings

IInv == BootInv /\ HomingTypeOK /\ ControlInv /\ DeadInv /\ LocatedInv

LEMMA DistanceFacts ==
    ASSUME pass \in 0 .. 3
    PROVE  Homing!Distance = CASE pass = 0 -> Search [] pass = 2 -> LocateSteps [] OTHER -> PullOff
BY DEF Homing!Distance, LocateSteps

LEMMA HomingTypes ==
    HomingTypeOK <=>
      /\ at \in {"off", "idle", "pass", "poll", "check", "stop", "set", "next", "end", "flags",
                 "ajar", "suspended", "woken", "finish", "loop", "serve"}
      /\ state \in {"ALARM", "HOMING", "IDLE", "SAFETY_DOOR"}
      /\ flags \subseteq {"RESET", "SAFETY_DOOR", "CYCLE_STOP"}
      /\ alarm \in {"none", "HOMING_FAIL_RESET"}
      /\ axis \in {"X", "Y"} /\ pass \in 0 .. 3
      /\ left \in 0 .. Search + LocateSteps
      /\ lag \in 0 .. SeekLag + FeedLag
      /\ position \in [{"A", "B"} -> Int] /\ carriage \in [{"X", "Y"} -> 0 .. Top]
      /\ {lock, running, callbacks, initialized} \subseteq BOOLEAN
      /\ events \in 0 .. MaxEvents
      /\ homings \in 0 .. MaxHomings
BY TurningType DEF HomingTypeOK, Homing!TypeOK, Homing!AB, Homing!Axes, LocateSteps

LEMMA HomingTypesNext ==
    ASSUME /\ at' \in {"off", "idle", "pass", "poll", "check", "stop", "set", "next", "end", "flags",
                       "ajar", "suspended", "woken", "finish", "loop", "serve"}
           /\ state' \in {"ALARM", "HOMING", "IDLE", "SAFETY_DOOR"}
           /\ flags' \subseteq {"RESET", "SAFETY_DOOR", "CYCLE_STOP"}
           /\ alarm' \in {"none", "HOMING_FAIL_RESET"}
           /\ axis' \in {"X", "Y"} /\ pass' \in 0 .. 3
           /\ left' \in 0 .. Search + LocateSteps
           /\ lag' \in 0 .. SeekLag + FeedLag
           /\ position' \in [{"A", "B"} -> Int] /\ carriage' \in [{"X", "Y"} -> 0 .. Top]
           /\ {lock', running', callbacks', initialized'} \subseteq BOOLEAN
           /\ events' \in 0 .. MaxEvents
           /\ homings' \in 0 .. MaxHomings
    PROVE  HomingTypeOK'
<1>1. Turning' \subseteq {"A", "B"} BY DEF Turning
<1> QED BY <1>1 DEF HomingTypeOK, Homing!TypeOK, Homing!AB, Homing!Axes, LocateSteps

LEMMA InitIInv == Init => IInv
<1> SUFFICES ASSUME Init PROVE IInv OBVIOUS
<1> USE DEF Init, Homing!Init
<1>1. BootInv BY BootInitInv
<1>2. HomingTypeOK
  <2>1. carriage \in [{"X", "Y"} -> 0 .. Top] BY DEF Homing!Axes
  <2>2. position \in [{"A", "B"} -> Int] BY DEF Homing!AB
  <2>3. 0 \in 0 .. Search + LocateSteps /\ 0 \in 0 .. SeekLag + FeedLag
        /\ 0 \in 0 .. MaxEvents /\ 0 \in 0 .. MaxHomings /\ 0 \in 0 .. 3
    BY ConstantFacts
  <2> QED BY <2>1, <2>2, <2>3, HomingTypes
<1>3. ControlInv /\ DeadInv /\ LocatedInv BY DEF ControlInv, DeadInv, LocatedInv, GoingHome, Ending, Returning
<1> QED BY <1>1, <1>2, <1>3 DEF IInv

\* Steps outside of the homing cycle.
LEMMA BootKeepsIInv == ASSUME IInv, Boot PROVE IInv'
<1> USE DEF IInv, Boot
<1>1. BootInv' BY BootStep
<1>2. UNCHANGED <<at, state, flags, alarm, axis, pass, lock, running, left, lag, position,
                  carriage, callbacks, initialized, events, homings>>
  BY DEF homingVars
<1>3. at = "off"
  BY DEF BootNext, AskDisk, MountCard, OpenDir, ReadDir, CloseDir, ConfigurePin, FindDevices,
         WriteRegister, EnableMotor, ControlInv
<1>4. HomingTypeOK' BY <1>2, HomingTypes, HomingTypesNext
<1>5. ControlInv' BY <1>2, <1>3 DEF ControlInv, Ending, On
<1>6. DeadInv' /\ LocatedInv' BY <1>2, <1>3 DEF ControlInv, DeadInv, LocatedInv, GoingHome, Ending, Returning
<1> QED BY <1>1, <1>4, <1>5, <1>6

\* grblMain() finds the pins and drivers as main() has left them.
LEMMA GrblFacts ==
    ASSUME IInv, boot = "grbl", UNCHANGED bootVars
    PROVE  BootInv' /\ Turning' = Turning /\ boot' = "grbl"
BY BootStutters, TurningKept DEF IInv, bootVars

LEMMA StartKeepsIInv == ASSUME IInv, Start PROVE IInv'
<1> USE DEF IInv, Start, Grbl, Homing!Start, Homing!LimitsInit, Homing!motion, Homing!place
<1>1. BootInv' /\ Turning' = Turning /\ boot' = "grbl" BY GrblFacts
<1>2. HomingTypeOK' BY HomingTypes, HomingTypesNext
<1>3. ControlInv' BY <1>1 DEF ControlInv, Ending, On
<1>4. DeadInv' BY <1>1 DEF ControlInv, DeadInv, GoingHome, Ending, Returning
<1>5. LocatedInv' BY DEF LocatedInv, GoingHome, Ending, Returning
<1> QED BY <1>1, <1>2, <1>3, <1>4, <1>5

LEMMA HomeKeepsIInv == ASSUME IInv, Home PROVE IInv'
<1> USE DEF IInv, Home, Grbl, Homing!Home, Homing!motion, Homing!place
<1>1. BootInv' /\ Turning' = Turning /\ boot' = "grbl" BY GrblFacts
<1>2. HomingTypeOK'
  <2>1. homings' \in 0 .. MaxHomings /\ pass' \in 0 .. 3 BY HomingTypes, ConstantFacts
  <2> QED BY <2>1, HomingTypes, HomingTypesNext
<1>3. ControlInv' BY <1>1 DEF ControlInv, Ending, On
<1>4. DeadInv' BY <1>1 DEF DeadInv, GoingHome, Ending, Returning, On
<1>5. LocatedInv' BY DEF LocatedInv, PassInv
<1> QED BY <1>1, <1>2, <1>3, <1>4, <1>5

\* mc_reset() and the way back to the main loop, from anywhere in limits_go_home().
LEMMA GiveUpKeepsIInv ==
    ASSUME IInv, boot = "grbl", UNCHANGED bootVars, UNCHANGED homings, Homing!GiveUp,
           UNCHANGED <<axis, pass, lock, left, lag, position, carriage, callbacks, initialized,
                       events>>
    PROVE  IInv'
<1> USE DEF IInv, Homing!GiveUp
<1>1. BootInv' /\ Turning' = Turning /\ boot' = "grbl" BY GrblFacts
<1>2. HomingTypeOK' BY HomingTypes, HomingTypesNext
<1>3. ControlInv' BY <1>1 DEF ControlInv, Ending, On
<1>4. DeadInv' /\ LocatedInv' BY DEF DeadInv, LocatedInv, GoingHome, Ending, Returning
<1> QED BY <1>1, <1>2, <1>3, <1>4

LEMMA PassKeepsIInv ==
    ASSUME IInv, boot = "grbl", UNCHANGED bootVars, UNCHANGED homings, Homing!Pass
    PROVE  IInv'
<1> USE DEF IInv, Homing!Pass, Homing!switches
<1>1. BootInv' /\ Turning' = Turning /\ boot' = "grbl" BY GrblFacts
<1>2. pass \in 0 .. 3 /\ axis \in {"X", "Y"} /\ position \in [{"A", "B"} -> Int]
      /\ carriage \in [{"X", "Y"} -> 0 .. Top]
  BY HomingTypes
<1>3. left' = CASE pass = 0 -> Search [] pass = 2 -> LocateSteps [] OTHER -> PullOff
  BY <1>2, DistanceFacts
<1>4. HomingTypeOK'
  <2>1. left' \in 0 .. Search + LocateSteps /\ lag' \in 0 .. SeekLag + FeedLag
    BY <1>2, <1>3, ConstantFacts
  <2>2. position' \in [{"A", "B"} -> Int]
    <3>1. position' = Homing!Placed(position, axis, 0) /\ 0 \in Int OBVIOUS
    <3>2. Homing!Placed(position, axis, 0) \in [{"A", "B"} -> Int] BY ONLY <1>2, <3>1, PlacedFacts
    <3> QED BY <3>1, <3>2
  <2> QED BY <2>1, <2>2, HomingTypes, HomingTypesNext
<1>5. ControlInv' BY <1>1 DEF ControlInv, Ending, On
<1>6. DeadInv' BY <1>1, <1>2 DEF DeadInv, GoingHome, Ending, Returning, On
<1>7. LocatedInv'
  <2> SUFFICES ASSUME LocatedInv, Turning = {"A", "B"}, ~On(Homing!Other(axis)), PassInv
               PROVE  PassInv'
    BY <1>1 DEF LocatedInv, GoingHome, Ending, Returning, On, Homing!Other
  <2>1. CASE pass = 0 BY <2>1 DEF PassInv
  <2>2. CASE pass = 1 BY <1>2, <1>3, <2>2, ConstantFacts DEF PassInv, On
  <2>3. CASE pass = 2 BY <1>2, <1>3, <2>3, ConstantFacts DEF PassInv, Made
  <2>4. CASE pass = 3 BY <1>2, <1>3, <2>4, ConstantFacts DEF PassInv
  <2> QED BY <1>2, <2>1, <2>2, <2>3, <2>4
<1> QED BY <1>1, <1>4, <1>5, <1>6, <1>7

LEMMA PollKeepsIInv ==
    ASSUME IInv, boot = "grbl", UNCHANGED bootVars, UNCHANGED homings, Homing!Poll
    PROVE  IInv'
<1> USE DEF IInv, Homing!Poll, Homing!switches, Homing!place
<1>1. BootInv' /\ Turning' = Turning /\ boot' = "grbl" BY GrblFacts
<1>2. pass \in 0 .. 3 /\ axis \in {"X", "Y"} /\ carriage \in [{"X", "Y"} -> 0 .. Top]
      /\ left \in Nat /\ lag \in Nat
  BY HomingTypes, ConstantFacts
<1>3. lock' = ~(pass \in {0, 2} /\ (On("X") \/ On("Y")))
  <2>1. Homing!approach <=> pass \in {0, 2} BY <1>2 DEF Homing!approach
  <2>2. (\E a \in Homing!Axes : Homing!Engaged(a)) <=> On("X") \/ On("Y")
    BY DEF Homing!Axes, Homing!Engaged, On
  <2>3. lock = TRUE BY HomingTypes DEF ControlInv
  <2> QED BY <2>1, <2>2, <2>3
<1>4. HomingTypeOK'
  <2>1. lag' \in 0 .. SeekLag + FeedLag BY ConstantFacts
  <2>2. lock' \in BOOLEAN BY <1>3
  <2> QED BY <2>1, <2>2, HomingTypes, HomingTypesNext
<1>5. ControlInv' BY <1>1, <1>3 DEF ControlInv, Ending, On
<1>6. DeadInv' BY <1>1, <1>2 DEF DeadInv, GoingHome, Ending, Returning, On
<1>7. LocatedInv'
  <2> SUFFICES ASSUME Turning = {"A", "B"}, ~On(Homing!Other(axis)), PassInv
               PROVE  PassInv'
    BY <1>1 DEF LocatedInv, GoingHome, Ending, Returning, On, Homing!Other
  <2>1. CASE pass = 0 BY <2>1 DEF PassInv
  <2>2. CASE pass = 1 BY <1>2, <2>2 DEF PassInv
  <2>3. CASE pass = 2
    <3>1. lock BY DEF ControlInv
    <3>2. lock' <=> ~On(axis) BY <1>2, <1>3, <2>3 DEF Homing!Other
    <3> QED BY <1>2, <2>3, <3>1, <3>2, ConstantFacts DEF PassInv, Made, On
  <2>4. CASE pass = 3 BY <1>2, <2>4 DEF PassInv
  <2> QED BY <1>2, <2>1, <2>2, <2>3, <2>4
<1> QED BY <1>1, <1>4, <1>5, <1>6, <1>7

\* A poll of the flags that goes on with the cycle.
LEMMA CheckKeepsIInv ==
    ASSUME IInv, boot = "grbl", UNCHANGED bootVars, UNCHANGED homings, Homing!Check
    PROVE  IInv'
<1> USE DEF IInv, Homing!place
<1>1. BootInv' /\ Turning' = Turning /\ boot' = "grbl" BY GrblFacts
<1>2. pass \in 0 .. 3 /\ axis \in {"X", "Y"} /\ carriage \in [{"X", "Y"} -> 0 .. Top]
      /\ left \in Nat /\ lag \in Nat /\ flags \subseteq {"RESET", "SAFETY_DOOR", "CYCLE_STOP"}
  BY HomingTypes, ConstantFacts
<1>3. CASE flags # {} /\ Homing!Failed
  BY <1>3, GiveUpKeepsIInv DEF Homing!Check, Homing!switches
<1>4. CASE ~(flags # {} /\ Homing!Failed)
  <2>1. /\ at = "check"
        /\ UNCHANGED <<axis, pass, lock, position, carriage, events, state, alarm, running, left,
                       lag, callbacks, initialized>>
    BY <1>4 DEF Homing!Check, Homing!switches
  <2>2. \/ flags = {} /\ flags' = {} /\ lock /\ at' = "poll"
        \/ flags = {} /\ flags' = {} /\ ~lock /\ at' = "stop"
        \/ /\ flags = {"CYCLE_STOP"} /\ flags' = {} /\ at' = "stop"
           /\ pass \in {1, 3} /\ ~On(axis)
    <3>1. CASE flags = {} BY <1>4, <3>1 DEF Homing!Check
    <3>2. CASE flags # {}
      <4>1. ~Homing!Failed BY <1>4, <3>2
      <4>2. flags \cap {"RESET", "SAFETY_DOOR"} = {} BY <4>1 DEF Homing!Failed
      <4>3. flags = {"CYCLE_STOP"} BY <1>2, <3>2, <4>2
      <4>4. ~Homing!approach /\ ~Homing!Engaged(axis) BY <4>1, <4>3 DEF Homing!Failed
      <4>5. pass \in {1, 3} BY <1>2, <4>4 DEF Homing!approach
      <4>6. flags' = {} /\ at' = "stop" BY <1>4, <3>2, <4>3 DEF Homing!Check
      <4> QED BY <4>3, <4>4, <4>5, <4>6 DEF Homing!Engaged, On
    <3> QED BY <3>1, <3>2
  <2>3. HomingTypeOK' BY <2>1, <2>2, HomingTypes, HomingTypesNext
  <2>4. pass \in {1, 3} => lock BY <2>1 DEF ControlInv
  <2>5. ControlInv' BY <1>1, <1>2, <2>1, <2>2, <2>4 DEF ControlInv, Ending, On
  <2>6. DeadInv' BY <1>1, <1>2, <2>1, <2>2, <2>4 DEF DeadInv, GoingHome, Ending, Returning, On
  <2>7. LocatedInv'
    <3> SUFFICES ASSUME Turning = {"A", "B"}, ~On(Homing!Other(axis)), PassInv
                 PROVE  PassInv'
      BY <1>1, <2>1 DEF LocatedInv, GoingHome, Ending, Returning, On, Homing!Other
    <3>1. CASE pass = 0 BY <2>1, <3>1 DEF PassInv
    <3>2. CASE pass = 1 BY <1>2, <2>1, <2>2, <2>4, <3>2, ConstantFacts DEF PassInv, On
    <3>3. CASE pass = 2 BY <1>2, <2>1, <2>2, <3>3, ConstantFacts DEF PassInv, Made
    <3>4. CASE pass = 3 BY <1>2, <2>1, <2>2, <2>4, <3>4, ConstantFacts DEF PassInv
    <3> QED BY <1>2, <3>1, <3>2, <3>3, <3>4
  <2> QED BY <1>1, <2>3, <2>5, <2>6, <2>7
<1> QED BY <1>3, <1>4

LEMMA StopKeepsIInv ==
    ASSUME IInv, boot = "grbl", UNCHANGED bootVars, UNCHANGED homings, Homing!Stop
    PROVE  IInv'
<1> USE DEF IInv, Homing!Stop, Homing!switches, Homing!place
<1>1. BootInv' /\ Turning' = Turning /\ boot' = "grbl" BY GrblFacts
<1>2. pass \in 0 .. 3 /\ axis \in {"X", "Y"} /\ carriage \in [{"X", "Y"} -> 0 .. Top]
      /\ left \in Nat /\ lag \in Nat
  BY HomingTypes, ConstantFacts
<1>3. HomingTypeOK'
  <2>1. left' \in 0 .. Search + LocateSteps /\ lag' \in 0 .. SeekLag + FeedLag
    BY ConstantFacts
  <2>2. pass' \in 0 .. 3 BY <1>2
  <2> QED BY <2>1, <2>2, HomingTypes, HomingTypesNext
<1>4. ControlInv' BY <1>1, <1>2 DEF ControlInv, Ending, On
<1>5. DeadInv' BY <1>1, <1>2 DEF DeadInv, ControlInv, GoingHome, Ending, Returning, On
<1>6. LocatedInv'
  <2> SUFFICES ASSUME Turning = {"A", "B"}, ~On(Homing!Other(axis)), PassInv
               PROVE  PassInv'
    BY <1>1 DEF LocatedInv, GoingHome, Ending, Returning, On, Homing!Other
  <2>1. CASE pass = 0
    <3>1. On(axis) BY <1>2, <2>1 DEF ControlInv, Homing!Other
    <3> QED BY <2>1, <3>1 DEF PassInv, On
  <2>2. CASE pass = 1 BY <1>2, <2>2, ConstantFacts DEF PassInv
  <2>3. CASE pass = 2
    <3>1. ~lock BY <2>3 DEF ControlInv
    <3> QED BY <1>2, <2>3, <3>1 DEF PassInv
  <2>4. CASE pass = 3 BY <1>2, <2>4, ConstantFacts DEF PassInv
  <2> QED BY <1>2, <2>1, <2>2, <2>3, <2>4
<1> QED BY <1>1, <1>3, <1>4, <1>5, <1>6

LEMMA SetPositionKeepsIInv ==
    ASSUME IInv, boot = "grbl", UNCHANGED bootVars, UNCHANGED homings, Homing!SetPosition
    PROVE  IInv'
<1> USE DEF IInv, Homing!SetPosition, Homing!switches, Homing!motion
<1>1. BootInv' /\ Turning' = Turning /\ boot' = "grbl" BY GrblFacts
<1>2. pass = 3 /\ axis \in {"X", "Y"} /\ position \in [{"A", "B"} -> Int]
  BY HomingTypes DEF ControlInv
<1>3. position' \in [{"A", "B"} -> Int]
      /\ Homing!Steps(position', axis) = Homing!HomePosition
  <2>1. Homing!HomePosition \in Int BY ConstantFacts DEF Homing!HomePosition
  <2>2. position' = Homing!Placed(position, axis, Homing!HomePosition) OBVIOUS
  <2> QED BY ONLY <1>2, <2>1, <2>2, PlacedFacts
<1>4. HomingTypeOK' BY <1>3, HomingTypes, HomingTypesNext
<1>5. ControlInv' BY <1>1 DEF ControlInv, Ending, On
<1>6. DeadInv' BY <1>1, <1>2 DEF DeadInv, GoingHome, Ending, Returning, On
<1>7. LocatedInv'
  <2> SUFFICES ASSUME Turning = {"A", "B"}, ~On(Homing!Other(axis)), PassInv
               PROVE  PassInv'
    BY <1>1 DEF LocatedInv, GoingHome, Ending, Returning, On, Homing!Other
  <2>1. Homing!Steps(position, axis)' = Homing!HomePosition BY <1>3 DEF Homing!Steps
  <2> QED BY <1>2, <2>1 DEF PassInv
<1> QED BY <1>1, <1>4, <1>5, <1>6, <1>7

LEMMA NextAxisKeepsIInv ==
    ASSUME IInv, boot = "grbl", UNCHANGED bootVars, UNCHANGED homings, Homing!NextAxis
    PROVE  IInv'
<1> USE DEF IInv, Homing!NextAxis, Homing!switches, Homing!motion, Homing!place
<1>1. BootInv' /\ Turning' = Turning /\ boot' = "grbl" BY GrblFacts
<1>2. pass = 3 /\ axis \in {"X", "Y"} /\ pass' \in {0, 3} BY HomingTypes DEF ControlInv
<1>3. HomingTypeOK' BY <1>2, HomingTypes, HomingTypesNext
<1>4. ControlInv' BY <1>1, <1>2 DEF ControlInv, Ending, On
<1>5. DeadInv' BY <1>1, <1>2 DEF DeadInv, GoingHome, Ending, Returning, On
<1>6. LocatedInv' BY <1>2 DEF LocatedInv, PassInv
<1> QED BY <1>1, <1>3, <1>4, <1>5, <1>6

\* From the end of limits_go_home() to the main loop nothing moves.
LEMMA FinishKeepsIInv ==
    ASSUME IInv, boot = "grbl", UNCHANGED bootVars, UNCHANGED homings, Homing!Finish
    PROVE  IInv'
<1> USE DEF IInv
<1>1. BootInv' /\ Turning' = Turning /\ boot' = "grbl" BY GrblFacts
<1> USE DEF Homing!Finish, Homing!LastAlarm, Homing!LastFlags, Homing!Ajar, Homing!SuspendAlarm,
            Homing!SuspendFlags, Homing!Complete, Homing!LoopAlarm, Homing!Serve,
            Homing!ReadAlarm, Homing!LimitsInit, Homing!rest, Homing!switches, Homing!place
<1>2. /\ UNCHANGED <<axis, pass, lock, left, lag, running, position, carriage, events>>
      /\ at \in {"end", "flags", "ajar", "suspended", "woken", "finish", "loop", "serve"}
      /\ at' \in {"flags", "ajar", "suspended", "woken", "finish", "loop", "serve", "idle"}
      /\ at \in {"loop", "serve"} => at' \in {"serve", "idle"}
  OBVIOUS
<1>3. HomingTypeOK'
  <2>1. /\ state' \in {"ALARM", "HOMING", "IDLE", "SAFETY_DOOR"}
        /\ flags' \subseteq {"RESET", "SAFETY_DOOR", "CYCLE_STOP"}
        /\ alarm' \in {"none", "HOMING_FAIL_RESET"}
        /\ {callbacks', initialized'} \subseteq BOOLEAN
    BY HomingTypes
  <2> QED BY <1>2, <2>1, HomingTypes, HomingTypesNext
<1>4. ControlInv' BY <1>1, <1>2 DEF ControlInv, Ending, On
<1>5. DeadInv'
  <2> SUFFICES ASSUME Turning = {}
               PROVE  /\ state' \notin {"IDLE", "SAFETY_DOOR"}
                      /\ at' \in {"serve", "idle"}
                      /\ at' = "serve" => state' = "ALARM"
    BY <1>1 DEF DeadInv, GoingHome, Ending, Returning
  <2>1. at \in {"loop", "serve"} /\ state = "ALARM"
    BY <1>2 DEF DeadInv, Ending, Returning
  <2> QED BY <1>2, <2>1
<1>6. LocatedInv' BY <1>2 DEF LocatedInv, GoingHome
<1> QED BY <1>1, <1>3, <1>4, <1>5, <1>6

LEMMA StepEventKeepsIInv ==
    ASSUME IInv, boot = "grbl", UNCHANGED bootVars, UNCHANGED homings, Homing!StepEvent
    PROVE  IInv'
<1> USE DEF IInv, Homing!StepEvent, Homing!switches
<1>1. BootInv' /\ Turning' = Turning /\ boot' = "grbl" BY GrblFacts
<1>2. /\ pass \in 0 .. 3 /\ axis \in {"X", "Y"} /\ carriage \in [{"X", "Y"} -> 0 .. Top]
      /\ left \in 0 .. Search + LocateSteps /\ lag \in 0 .. SeekLag + FeedLag
      /\ position \in [{"A", "B"} -> Int]
  BY HomingTypes
<1>3. at \in {"poll", "check", "stop"} BY DEF ControlInv
<1>4. Homing!Lag = IF pass = 2 THEN FeedLag ELSE SeekLag BY DEF Homing!Lag
<1>5. HomingTypeOK'
  <2>1. left' \in 0 .. Search + LocateSteps /\ lag' \in 0 .. SeekLag + FeedLag
    BY <1>2, <1>4, ConstantFacts
  <2>2. position' \in [{"A", "B"} -> Int]
    <3>1. \A m \in {"A", "B"} : Homing!Sign(m) \in Int BY DEF Homing!Sign
    <3> QED BY <1>2, <3>1 DEF Homing!AB
  <2>3. carriage' \in [{"X", "Y"} -> 0 .. Top] BY <1>2, MovedFacts
  <2> QED BY <2>1, <2>2, <2>3, HomingTypes, HomingTypesNext
<1>6. ControlInv'
  <2>1. ~lock => \A a \in {"X", "Y"} : carriage'[a] = carriage[a] BY <1>2, MovedFacts
  <2> QED BY <1>1, <1>3, <2>1 DEF ControlInv, Ending, On
<1>7. DeadInv'
  <2>1. Turning = {} => \A a \in {"X", "Y"} : carriage'[a] = carriage[a]
    BY <1>2, MovedFacts
  <2> QED BY <1>1, <1>2, <1>3, <2>1 DEF DeadInv, GoingHome, Ending, Returning, On
<1>8. LocatedInv'
  <2> SUFFICES ASSUME Turning = {"A", "B"}, ~On(Homing!Other(axis))' PROVE PassInv'
    BY <1>1 DEF LocatedInv
  <2> DEFINE x == carriage[axis]
             y == carriage'[axis]
             d == IF ~lock THEN 0 ELSE IF pass \in {0, 2} THEN -2 ELSE 2
  <2>1. /\ y = IF x + d \in 0 .. Top THEN x + d ELSE x
        /\ carriage'[Homing!Other(axis)] = carriage[Homing!Other(axis)]
    <3>1. Homing!approach <=> pass \in {0, 2} BY <1>2 DEF Homing!approach
    <3> QED BY <1>2, <3>1, MovedBoth
  <2>2. PassInv BY <1>3, <2>1 DEF LocatedInv, GoingHome, Ending, Returning, On, Homing!Other
  <2>3. x \in 0 .. Top /\ y \in 0 .. Top BY <1>2, <2>1
  <2> HIDE DEF d
  <2>4. CASE pass = 0 BY <2>4 DEF PassInv
  <2>5. CASE pass = 1
    <3>1. lock BY <1>3, <2>5 DEF ControlInv
    <3>2. y = IF x + 2 \in 0 .. Top THEN x + 2 ELSE x BY <2>1, <2>5, <3>1 DEF d
    <3>3. left <= PullOff /\ (x <= Low + 2 * (PullOff - left) \/ x >= High)
          /\ (at = "stop" => Low < x /\ x < High)
      BY <1>3, <2>2, <2>5 DEF PassInv
    <3> HIDE DEF x, y
    <3>4. left' <= PullOff /\ (y <= Low + 2 * (PullOff - left') \/ y >= High)
          /\ (at = "stop" => Low < y /\ y < High)
      BY <1>2, <2>3, <3>2, <3>3, ConstantFacts
    <3> QED BY <1>3, <2>5, <3>4 DEF PassInv, y
  <2>6. CASE pass = 2
    <3>1. 0 <= lag' /\ lag' = lag + 1 /\ lag' <= FeedLag /\ left' = left - 1
      BY <1>2, <1>4, <2>6, ConstantFacts
    <3>2. CASE lock
      <4>1. at \in {"poll", "check"} BY <1>3, <2>6, <3>2 DEF ControlInv
      <4>2. y = IF x - 2 \in 0 .. Top THEN x - 2 ELSE x BY <2>1, <2>3, <2>6, <3>2 DEF d
      <4>3. /\ lag <= LocateSteps - left /\ LocateSteps - left - lag < PullOff
            /\ x >= Low + 1 - 2 * lag
            /\ x <= Low + 2 * PullOff - 2 * (LocateSteps - left) \/ x <= 1
        BY <2>2, <2>6, <3>2, <4>1 DEF PassInv, Made
      <4> HIDE DEF x, y
      <4>4. /\ lag' <= LocateSteps - left' /\ LocateSteps - left' - lag' < PullOff
            /\ y >= Low + 1 - 2 * lag'
            /\ y <= Low + 2 * PullOff - 2 * (LocateSteps - left') \/ y <= 1
        BY <1>2, <2>3, <3>1, <4>2, <4>3, ConstantFacts
      <4> QED BY <2>6, <3>1, <3>2, <4>1, <4>4 DEF PassInv, Made, y
    <3>3. CASE ~lock
      <4>1. at \in {"check", "stop"} BY <1>3, <3>3 DEF ControlInv
      <4>2. y = x BY <2>1, <2>3, <3>3 DEF d
      <4>3. /\ LocateSteps - left' - lag' = LocateSteps - left - lag
        BY <1>2, <3>1, ConstantFacts
      <4>4. /\ LocateSteps - left' - lag' < PullOff + FeedLag
            /\ Low + 1 - 2 * FeedLag <= y /\ y <= Low
            /\ at = "stop" => "CYCLE_STOP" \notin flags
        BY <2>2, <2>6, <3>3, <4>1, <4>2, <4>3 DEF PassInv, Made
      <4> HIDE DEF x, y
      <4> QED BY <2>6, <3>1, <3>3, <4>1, <4>4 DEF PassInv, Made, y
    <3> QED BY <3>2, <3>3
  <2>7. CASE pass = 3
    <3>1. lock BY <1>3, <2>7 DEF ControlInv
    <3>2. y = IF x + 2 \in 0 .. Top THEN x + 2 ELSE x BY <2>1, <2>7, <3>1 DEF d
    <3>3. /\ left <= PullOff
          /\ Low + 1 - 2 * FeedLag + 2 * (PullOff - left) <= x
          /\ x <= Low + 2 * (PullOff - left)
          /\ "CYCLE_STOP" \notin flags /\ at # "stop"
      BY <1>2, <1>3, <2>2, <2>7 DEF PassInv
    <3> HIDE DEF x, y
    <3>4. /\ left' <= PullOff
          /\ Low + 1 - 2 * FeedLag + 2 * (PullOff - left') <= y
          /\ y <= Low + 2 * (PullOff - left')
      BY <1>2, <2>3, <3>2, <3>3, ConstantFacts
    <3> QED BY <1>3, <2>7, <3>3, <3>4 DEF PassInv, y
  <2> QED BY <1>2, <2>4, <2>5, <2>6, <2>7
<1> QED BY <1>1, <1>5, <1>6, <1>7, <1>8

LEMMA InterruptsKeepIInv ==
    ASSUME IInv, boot = "grbl", UNCHANGED bootVars, UNCHANGED homings,
           Homing!StepperDone \/ Homing!Reset \/ Homing!Door
    PROVE  IInv'
<1> USE DEF IInv, Homing!StepperDone, Homing!Reset, Homing!Door, Homing!Event,
            Homing!switches, Homing!place, Homing!motion
<1>1. BootInv' /\ Turning' = Turning /\ boot' = "grbl" BY GrblFacts
<1>2. /\ UNCHANGED <<at, state, axis, pass, lock, left, lag, position, carriage, callbacks,
                     initialized>>
      /\ running' \in {FALSE, running}
  OBVIOUS
<1>3. /\ flags' \subseteq flags \cup {"RESET", "SAFETY_DOOR", "CYCLE_STOP"}
      /\ "CYCLE_STOP" \in flags' => "CYCLE_STOP" \in flags \/ (running /\ left = 0)
  OBVIOUS
<1>4. HomingTypeOK'
  <2>1. events' \in 0 .. MaxEvents
    <3>1. events' = events \/ (events < MaxEvents /\ events' = events + 1) OBVIOUS
    <3> QED BY <3>1, HomingTypes, ConstantFacts
  <2>2. alarm' \in {"none", "HOMING_FAIL_RESET"} /\ running' \in BOOLEAN
    BY <1>2, HomingTypes
  <2> QED BY <1>2, <1>3, <2>1, <2>2, HomingTypes, HomingTypesNext
<1>5. ControlInv' BY <1>1, <1>2 DEF ControlInv, Ending, On
<1>6. DeadInv' BY <1>1, <1>2 DEF DeadInv, GoingHome, Ending, Returning, On
<1>7. LocatedInv'
  <2> SUFFICES ASSUME Turning = {"A", "B"}, GoingHome, ~On(Homing!Other(axis)), PassInv
               PROVE  PassInv'
    BY <1>1, <1>2 DEF LocatedInv, GoingHome, Ending, Returning, On, Homing!Other
  <2>1. pass \in 0 .. 3 /\ left \in Nat /\ lag \in Nat BY HomingTypes, ConstantFacts
  <2>2. CASE pass \in {0, 1} BY <1>2, <2>2 DEF PassInv, On
  <2>3. CASE pass = 2
    <3>1. at = "stop" => left # 0
      <4> SUFFICES ASSUME at = "stop" PROVE left # 0 OBVIOUS
      <4>1. ~lock BY <2>3 DEF ControlInv
      <4>2. LocateSteps - left - lag < PullOff + FeedLag /\ lag <= FeedLag
        BY <2>3, <4>1 DEF PassInv, Made
      <4> QED BY <2>1, <4>2, ConstantFacts
    <3> QED BY <1>2, <1>3, <2>3, <3>1 DEF PassInv, Made
  <2>4. CASE pass = 3
    <3>1. at = "pass" => ~running BY DEF ControlInv
    <3> QED BY <1>2, <1>3, <2>4, <3>1 DEF PassInv
  <2> QED BY <2>1, <2>2, <2>3, <2>4
<1> QED BY <1>1, <1>4, <1>5, <1>6, <1>7

LEMMA NextKeepsIInv == IInv /\ [Next]_vars => IInv'
<1> SUFFICES ASSUME IInv, [Next]_vars PROVE IInv' OBVIOUS
<1>1. CASE Boot BY <1>1, BootKeepsIInv
<1>2. CASE Start BY <1>2, StartKeepsIInv
<1>3. CASE Home BY <1>3, HomeKeepsIInv
<1>4. CASE Main
  BY <1>4, PassKeepsIInv, PollKeepsIInv, CheckKeepsIInv, StopKeepsIInv, SetPositionKeepsIInv,
     NextAxisKeepsIInv, FinishKeepsIInv
  DEF Main, Grbl, Homing!Main, Homing!GoHome
<1>5. CASE StepTimer
  BY <1>5, StepEventKeepsIInv, InterruptsKeepIInv DEF StepTimer, Grbl, Homing!StepTimer
<1>6. CASE Interrupt BY <1>6, InterruptsKeepIInv DEF Interrupt, Grbl
<1>7. CASE UNCHANGED vars
  <2> USE <1>7 DEF vars, homingVars, IInv
  <2>1. BootInv' /\ Turning' = Turning BY BootStutters, TurningKept
  <2>2. HomingTypeOK' BY HomingTypes, HomingTypesNext
  <2>3. ControlInv' BY DEF ControlInv, Ending, On, bootVars
  <2>4. DeadInv' BY <2>1 DEF DeadInv, GoingHome, Ending, Returning, On
  <2>5. LocatedInv'
    <3> SUFFICES ASSUME Turning = {"A", "B"}, GoingHome, ~On(Homing!Other(axis)), PassInv
                 PROVE  PassInv'
      BY <2>1 DEF LocatedInv, GoingHome, Ending, Returning, On, Homing!Other
    <3>1. Homing!Steps(position, axis)' = Homing!Steps(position, axis) BY DEF Homing!Steps
    <3> QED BY <3>1 DEF PassInv, Made, On
  <2> QED BY <2>1, <2>2, <2>3, <2>4, <2>5
<1> QED BY <1>1, <1>2, <1>3, <1>4, <1>5, <1>6, <1>7 DEF Next

LEMMA Invariant == Spec => []IInv
BY InitIInv, NextKeepsIInv, PTL DEF Spec

-----------------------------------------------------------------------------
(* Every variable of the start-up and of the homing cycle keeps its type.  *)
THEOREM TypeCorrect == Spec => []TypeOK
<1>1. IInv => TypeOK BY DEF IInv, BootInv, HomingTypeOK, TypeOK
<1> QED BY Invariant, <1>1, PTL

(* limits_go_home(): with both motors turning and the other axis off its    *)
(* switches, an axis that has been homed stands where its switch says and  *)
(* its position says so, for every size of the frame, wherever the cycle   *)
(* began, and whatever resets and doors came in between.  With the other   *)
(* axis on a switch it is false: see LimitsLocated.                        *)
THEOREM HomedCorrect == Spec => []HomedAtSwitch
<1>1. IInv => HomedAtSwitch
  <2> SUFFICES ASSUME IInv, at = "next", Turning = {"A", "B"},
                      ~Homing!Engaged(Homing!Other(axis))
               PROVE  Homing!Located
    BY DEF HomedAtSwitch, Homing!HomedAtSwitch, Homing!Homed, Homing!AB
  <2>1. PassInv /\ pass = 3
    BY DEF IInv, LocatedInv, ControlInv, GoingHome, On, Homing!Engaged
  <2>2. axis \in {"X", "Y"} /\ carriage \in [{"X", "Y"} -> 0 .. Top] BY HomingTypes DEF IInv
  <2> QED BY <2>1, <2>2, ConstantFacts DEF PassInv, Homing!Located
<1> QED BY Invariant, <1>1, PTL

(* limits_go_home() when neither motor has current: X may pass for homed   *)
(* when a switch happens to be engaged, but the cycle does not end well.   *)
(* It says nothing of a machine in which one motor of the two turns.       *)
THEOREM DeadNeverHomed == Spec => []DeadIsNotHomed
<1>1. IInv => DeadIsNotHomed BY DEF IInv, DeadInv, DeadIsNotHomed, Homing!DeadIsNotHomed
<1> QED BY Invariant, <1>1, PTL

\* A step changes the other axis in no way.
LEMMA OtherAxisStep ==
    ASSUME IInv, [Next]_vars, Cycling, Turning = {"A", "B"}, axis' = axis
    PROVE  LET b == Homing!Other(axis) IN
           carriage'[b] = carriage[b] /\ Homing!Steps(position', b) = Homing!Steps(position, b)
<1> DEFINE b == Homing!Other(axis)
<1>1. axis \in {"X", "Y"} /\ position \in [{"A", "B"} -> Int]
      /\ carriage \in [{"X", "Y"} -> 0 .. Top]
  BY HomingTypes DEF IInv
<1>2. CASE UNCHANGED <<position, carriage>> BY <1>2
<1>3. CASE carriage' = carriage /\ \E n \in Int : position' = Homing!Placed(position, axis, n)
  <2>1. PICK n \in Int : position' = Homing!Placed(position, axis, n) BY <1>3
  <2>2. Homing!Steps(Homing!Placed(position, axis, n), b) = Homing!Steps(position, b)
    BY <1>1, PlacedFacts
  <2> HIDE DEF b
  <2> QED BY <1>3, <2>1, <2>2 DEF b
<1>4. CASE StepTimer /\ Homing!StepEvent
  <2>1. carriage' = Homing!Moved
        /\ position' = [m \in Homing!AB |-> position[m] + Homing!Sign(m)]
    BY <1>4 DEF Homing!StepEvent
  <2>2. carriage'[b] = carriage[b] BY <1>1, <2>1, MovedBoth
  <2>3. CASE axis = "X"
    <3>1. Homing!Sign("A") = Homing!Sign("B") /\ Homing!Sign("A") \in Int
      BY <2>3 DEF Homing!Sign
    <3>2. position'.A - position'.B = position.A - position.B
      BY <1>1, <2>1, <3>1 DEF Homing!AB
    <3> QED BY <2>2, <2>3, <3>2 DEF Homing!Other, Homing!Steps
  <2>4. CASE axis = "Y"
    <3>1. Homing!Sign("A") = -Homing!Sign("B") /\ Homing!Sign("B") \in Int
      BY <2>4 DEF Homing!Sign
    <3>2. position'.A + position'.B = position.A + position.B
      BY <1>1, <2>1, <3>1 DEF Homing!AB
    <3> QED BY <2>2, <2>4, <3>2 DEF Homing!Other, Homing!Steps
  <2> QED BY <1>1, <2>3, <2>4
<1>5. \/ UNCHANGED <<position, carriage>>
      \/ carriage' = carriage /\ \E n \in Int : position' = Homing!Placed(position, axis, n)
      \/ StepTimer /\ Homing!StepEvent
  <2>1. at # "off" /\ at # "idle" BY DEF Cycling
  <2>2. CASE Boot BY <2>2 DEF Boot, homingVars
  <2>3. CASE Start \/ Home
    BY <2>1, <2>3 DEF Start, Home, Grbl, Homing!Start, Homing!Home
  <2>4. CASE Main
    <3>1. CASE Homing!Pass
      <4>1. carriage' = carriage /\ position' = Homing!Placed(position, axis, 0)
        BY <3>1 DEF Homing!Pass
      <4>2. 0 \in Int OBVIOUS
      <4> QED BY <4>1, <4>2
    <3>2. CASE Homing!SetPosition
      <4>1. carriage' = carriage /\ position' = Homing!Placed(position, axis, Homing!HomePosition)
        BY <3>2 DEF Homing!SetPosition
      <4>2. Homing!HomePosition \in Int BY ConstantFacts DEF Homing!HomePosition
      <4> QED BY <4>1, <4>2
    <3>3. CASE Homing!Poll \/ Homing!Check \/ Homing!Stop \/ Homing!NextAxis
      BY <3>3 DEF Homing!Poll, Homing!Check, Homing!Stop, Homing!NextAxis, Homing!place
    <3>4. CASE Homing!Finish
      BY <3>4 DEF Homing!Finish, Homing!LastAlarm, Homing!LastFlags, Homing!Ajar,
         Homing!SuspendAlarm, Homing!SuspendFlags, Homing!Complete, Homing!LoopAlarm,
         Homing!Serve, Homing!ReadAlarm, Homing!rest, Homing!place
    <3> QED BY <2>4, <3>1, <3>2, <3>3, <3>4 DEF Main, Grbl, Homing!Main, Homing!GoHome
  <2>5. CASE StepTimer
    BY <2>5 DEF StepTimer, Grbl, Homing!StepTimer, Homing!StepperDone, Homing!place
  <2>6. CASE Interrupt
    BY <2>6 DEF Interrupt, Grbl, Homing!Reset, Homing!Door, Homing!place
  <2>7. CASE UNCHANGED vars BY <2>7 DEF vars, homingVars
  <2> QED BY <2>2, <2>3, <2>4, <2>5, <2>6, <2>7 DEF Next
<1> QED BY <1>2, <1>3, <1>4, <1>5

(* Homing an axis of a CoreXY turns both motors, sets both counters, and   *)
(* yet leaves the other axis where it is and where it is known to be.      *)
THEOREM OtherAxisUntouched == Spec => OtherAxisKept
<1>1. IInv /\ [Next]_vars =>
        [Cycling /\ Turning = Homing!AB =>
           Homing!Offset(Homing!Other(axis))' = Homing!Offset(Homing!Other(axis))
             \/ axis' # axis]_(Homing!homingVars)
  <2> SUFFICES ASSUME IInv, [Next]_vars, Cycling, Turning = {"A", "B"}, axis' = axis
               PROVE  Homing!Offset(Homing!Other(axis))' = Homing!Offset(Homing!Other(axis))
    BY DEF Homing!AB
  <2> DEFINE b == Homing!Other(axis)
  <2>1. carriage'[b] = carriage[b] /\ Homing!Steps(position', b) = Homing!Steps(position, b)
    BY OtherAxisStep
  <2>2. Homing!Other(axis)' = b BY DEF Homing!Other
  <2>3. Homing!Steps(position, Homing!Other(axis))' = Homing!Steps(position', b)
    BY <2>2 DEF Homing!Steps
  <2> QED BY <2>1, <2>2, <2>3 DEF Homing!Offset
<1> QED BY Invariant, <1>1, PTL DEF Spec, OtherAxisKept, Homing!OtherAxisKept, Cycling

-----------------------------------------------------------------------------
(* Resets *)

\* Which alarms and states go together with a pending reset.
AlarmInv ==
    /\ at \in {"off", "idle"} => flags = {} /\ alarm = "none"
    /\ alarm # "none" => "RESET" \in flags
    /\ state = "HOMING" /\ "RESET" \in flags => alarm # "none"
    /\ GoingHome \/ at \in {"end", "ajar"} => state = "HOMING"
    /\ at = "flags" => state \in {"HOMING", "ALARM"}
    /\ at \in {"flags", "suspended", "woken", "loop", "serve"} /\ state = "ALARM" =>
         "RESET" \in flags
    /\ at = "finish" => state # "ALARM"
    /\ at = "loop" /\ state = "HOMING" => "RESET" \in flags
    /\ at = "serve" => alarm = "none" /\ state # "HOMING"

Safe == at # "idle" /\ (Homing!Locked \/ (state = "HOMING" /\ "RESET" \in flags)) => Homing!Locked'

LEMMA AlarmStep ==
    AlarmInv /\ IInv /\ [Next]_vars => AlarmInv' /\ Safe
<1> SUFFICES ASSUME AlarmInv, IInv, [Next]_vars PROVE AlarmInv' /\ Safe OBVIOUS
<1> USE DEF AlarmInv, Safe, Homing!Locked, GoingHome
<1>1. CASE Boot \/ Start \/ Home \/ UNCHANGED vars
  BY <1>1 DEF Boot, Start, Home, Grbl, Homing!Start, Homing!Home, vars, homingVars
<1>2. CASE Main
  <2>1. CASE Homing!Pass \/ Homing!Poll \/ Homing!Stop \/ Homing!SetPosition \/ Homing!NextAxis
    BY <2>1 DEF Homing!Pass, Homing!Poll, Homing!Stop, Homing!SetPosition, Homing!NextAxis
  <2>2. CASE Homing!Check
    <3>1. "RESET" \in flags => Homing!Failed /\ flags # {} BY DEF Homing!Failed
    <3> QED BY <2>2, <3>1 DEF Homing!Check, Homing!GiveUp
  <2>3. CASE Homing!LastAlarm \/ Homing!SuspendAlarm \/ Homing!LoopAlarm
    <3>1. CASE Homing!LastAlarm BY <3>1 DEF Homing!LastAlarm, Homing!ReadAlarm
    <3>2. CASE Homing!SuspendAlarm BY <3>2 DEF Homing!SuspendAlarm, Homing!ReadAlarm
    <3>3. CASE Homing!LoopAlarm BY <3>3 DEF Homing!LoopAlarm, Homing!ReadAlarm
    <3> QED BY <2>3, <3>1, <3>2, <3>3
  <2>4. CASE Homing!LastFlags
    <3>1. at = "flags" /\ alarm' = alarm BY <2>4 DEF Homing!LastFlags
    <3>2. CASE "RESET" \in flags
      <4>1. at' = "loop" /\ state' = state /\ flags' = flags BY <2>4, <3>2 DEF Homing!LastFlags
      <4> QED BY <3>1, <3>2, <4>1
    <3>3. CASE "RESET" \notin flags
      <4>1. alarm = "none" /\ state # "ALARM" BY <3>1, <3>3
      <4>2. \/ at' = "ajar" /\ state' = state /\ flags' = flags
            \/ at' = "finish" /\ state' \in {state, "IDLE"} /\ flags' = {}
        BY <2>4, <3>3 DEF Homing!LastFlags
      <4>3. state = "HOMING" BY <3>1, <3>3, <4>1
      <4> QED BY <3>1, <3>3, <4>1, <4>2, <4>3
    <3> QED BY <3>2, <3>3
  <2>5. CASE Homing!Ajar \/ Homing!SuspendFlags \/ Homing!Complete
    BY <2>5 DEF Homing!Ajar, Homing!SuspendFlags, Homing!Complete
  <2>6. CASE Homing!Serve BY <2>6 DEF Homing!Serve, Homing!switches
  <2> QED
    BY <1>2, <2>1, <2>2, <2>3, <2>4, <2>5, <2>6
    DEF Main, Grbl, Homing!Main, Homing!GoHome, Homing!Finish
<1>3. CASE StepTimer
  <2>1. running => at \in {"poll", "check", "stop"} BY DEF IInv, ControlInv
  <2>2. running /\ UNCHANGED <<at, state, alarm>> /\ flags' \in {flags, flags \cup {"CYCLE_STOP"}}
    BY <1>3 DEF StepTimer, Grbl, Homing!StepTimer, Homing!StepEvent, Homing!StepperDone
  <2> QED BY <2>1, <2>2
<1>4. CASE Interrupt
  BY <1>4 DEF Interrupt, Grbl, Homing!Reset, Homing!Door, Homing!Event
<1> QED BY <1>1, <1>2, <1>3, <1>4 DEF Next

(* mc_reset() in HOMING, at any step up to the main loop's next line: the   *)
(* alarm it raises is served, also when it comes after protocol.c:222 of   *)
(* the poll that serves the reset itself.                                  *)
THEOREM ResetAlwaysAlarms == Spec => ResetAlarms
<1>1. Init => AlarmInv BY DEF Init, Homing!Init, AlarmInv, GoingHome
<1>2. IInv /\ AlarmInv /\ [Next]_vars => AlarmInv' /\ Safe BY AlarmStep
<1>3. Safe => [at # "idle" /\ (Homing!Locked \/ (state = "HOMING" /\ "RESET" \in flags)) =>
                Homing!Locked']_(Homing!homingVars)
  BY DEF Safe
<1> QED BY Invariant, <1>1, <1>2, <1>3, PTL DEF Spec, ResetAlarms, Homing!ResetAlarms

-----------------------------------------------------------------------------
(* The end of the homing cycle *)

\* While the switches are polled there is a motion, or a flag that ends it.
HomingIsAwaited == at \in {"poll", "check"} => running \/ flags # {}

\* What the cycle has still to do, the polls of one pass and those of the suspend
\* loop left aside.
Behind ==
    CASE at = "pass" -> 12
      [] at \in {"poll", "check"} -> 11
      [] at = "stop" -> 10
      [] at = "set" -> 9
      [] at = "next" -> 8
      [] at = "end" -> 7
      [] at = "flags" -> 6
      [] at = "ajar" -> 5
      [] at \in {"suspended", "woken"} -> 4
      [] at = "finish" -> 3
      [] at = "loop" -> 2
      [] at = "serve" -> 1
      [] OTHER -> 0
ToGo == (IF axis = "X" THEN 15 ELSE 0) + 3 * (3 - pass) + Behind

\* Polls alternate with checks, and they never make the motion longer.
GoesOn == Cycling /\ Cycling' => ToGo' < ToGo \/ (ToGo' = ToGo /\ left' <= left)

LEMMA AwaitedNext == HomingIsAwaited /\ [Next]_vars => HomingIsAwaited'
<1> SUFFICES ASSUME HomingIsAwaited, [Next]_vars PROVE HomingIsAwaited' OBVIOUS
<1> USE DEF HomingIsAwaited
<1>1. CASE Main
  <2>1. CASE Homing!Pass \/ Homing!Poll BY <2>1 DEF Homing!Pass, Homing!Poll
  <2>2. CASE Homing!Check BY <2>2 DEF Homing!Check, Homing!GiveUp
  <2>3. CASE Homing!Stop \/ Homing!SetPosition \/ Homing!NextAxis
    BY <2>3 DEF Homing!Stop, Homing!SetPosition, Homing!NextAxis
  <2>4. CASE Homing!Finish
    BY <2>4 DEF Homing!Finish, Homing!LastAlarm, Homing!LastFlags, Homing!Ajar,
       Homing!SuspendAlarm, Homing!SuspendFlags, Homing!Complete, Homing!LoopAlarm, Homing!Serve,
       Homing!ReadAlarm
  <2> QED BY <1>1, <2>1, <2>2, <2>3, <2>4 DEF Main, Grbl, Homing!Main, Homing!GoHome
<1>2. CASE StepTimer
  BY <1>2 DEF StepTimer, Grbl, Homing!StepTimer, Homing!StepEvent, Homing!StepperDone
<1>3. CASE Interrupt
  BY <1>3 DEF Interrupt, Grbl, Homing!Reset, Homing!Door, Homing!motion
<1>4. CASE Boot \/ Start \/ Home \/ UNCHANGED vars
  BY <1>4 DEF Boot, Start, Home, Grbl, Homing!Start, Homing!Home, vars, homingVars
<1> QED BY <1>1, <1>2, <1>3, <1>4 DEF Next

LEMMA GoesOnNext == IInv /\ [Next]_vars => GoesOn
<1> SUFFICES ASSUME IInv, [Next]_vars, Cycling, Cycling'
             PROVE  ToGo' < ToGo \/ (ToGo' = ToGo /\ left' <= left)
  BY DEF GoesOn
<1>1. /\ pass \in 0 .. 3 /\ axis \in {"X", "Y"} /\ left \in Int
      /\ at \in {"off", "idle", "pass", "poll", "check", "stop", "set", "next", "end", "flags",
                 "ajar", "suspended", "woken", "finish", "loop", "serve"}
  BY HomingTypes, ConstantFacts DEF IInv
<1>2. at = "next" => pass = 3 BY DEF IInv, ControlInv
<1> USE DEF ToGo, Behind
<1>3. CASE Main
  <2>1. CASE Homing!Pass BY <1>1, <2>1 DEF Homing!Pass
  <2>2. CASE Homing!Poll BY <1>1, <2>2 DEF Homing!Poll
  <2>3. CASE Homing!Check
    <3>1. at = "check" /\ UNCHANGED <<axis, pass, left>> /\ at' \in {"poll", "stop", "loop"}
      BY <2>3 DEF Homing!Check, Homing!GiveUp
    <3> QED BY <1>1, <3>1
  <2>4. CASE Homing!Stop BY <1>1, <2>4 DEF Homing!Stop
  <2>5. CASE Homing!SetPosition BY <1>1, <2>5 DEF Homing!SetPosition, Homing!motion
  <2>6. CASE Homing!NextAxis BY <1>1, <1>2, <2>6 DEF Homing!NextAxis, Homing!motion
  <2>7. CASE Homing!Finish
    <3>1. UNCHANGED <<axis, pass, left>>
      BY <2>7 DEF Homing!Finish, Homing!LastAlarm, Homing!LastFlags, Homing!Ajar,
         Homing!SuspendAlarm, Homing!SuspendFlags, Homing!Complete, Homing!LoopAlarm,
         Homing!Serve, Homing!ReadAlarm, Homing!rest
    <3>2. Behind' <= Behind
      BY <2>7 DEF Homing!Finish, Homing!LastAlarm, Homing!LastFlags, Homing!Ajar,
         Homing!SuspendAlarm, Homing!SuspendFlags, Homing!Complete, Homing!LoopAlarm,
         Homing!Serve, Homing!ReadAlarm
    <3>3. Behind \in Int /\ Behind' \in Int OBVIOUS
    <3> QED BY <1>1, <3>1, <3>2, <3>3
  <2> QED BY <1>3, <2>1, <2>2, <2>3, <2>4, <2>5, <2>6, <2>7
          DEF Main, Grbl, Homing!Main, Homing!GoHome
<1>4. CASE StepTimer
  BY <1>1, <1>4 DEF StepTimer, Grbl, Homing!StepTimer, Homing!StepEvent, Homing!StepperDone
<1>5. CASE Interrupt
  BY <1>1, <1>5 DEF Interrupt, Grbl, Homing!Reset, Homing!Door, Homing!motion
<1>6. CASE Boot \/ Start \/ Home \/ UNCHANGED vars
  BY <1>1, <1>6 DEF Cycling, Boot, Start, Home, Grbl, Homing!Start, Homing!Home, vars, homingVars
<1> QED BY <1>3, <1>4, <1>5, <1>6 DEF Next

(* limits_go_home() never polls its switches in vain: a motion that can    *)
(* reach them goes on, or a flag that ends the pass is up.                 *)
THEOREM HomingAwaited == Spec => []HomingIsAwaited
<1>1. Init => HomingIsAwaited BY DEF Init, Homing!Init, HomingIsAwaited
<1> QED BY <1>1, AwaitedNext, PTL DEF Spec

(* No step takes the homing cycle away from its end, and all but the polls *)
(* of one motion, the polls of a door's suspend loop and interrupts bring  *)
(* it nearer; that the suspend loop ends is left to the operator's reset.  *)
THEOREM HomingGoesOn == Spec => [][GoesOn]_vars
BY Invariant, GoesOnNext, PTL DEF Spec
=============================================================================
