------------------------------ MODULE Startup ------------------------------
(***************************************************************************)
(* main() (src/src/main.cc): the card is mounted and listed, the pins and  *)
(* devices are configured, the motor drivers are programmed, and grblMain()*)
(* takes over.  Each step may fail; none of the functions tells its caller *)
(* so that what the next one finds depends on how far the last one came.   *)
(*                                                                         *)
(* The drivers are TMC2130 chips: a motor has current when its enable pin  *)
(* is active, or floats, and its chopper has been turned on through the    *)
(* bus.  They have a supply of their own and keep their registers when the *)
(* controller is restarted.                                                *)
(***************************************************************************)
EXTENDS Naturals, Sequences

CONSTANTS
    MaxFiles        \* bound on the entries of the root directory

ASSUME MaxFilesAssumption == MaxFiles \in Nat

VARIABLES
    boot,       \* where main() is
    files,      \* entries of the open directory that have not been read
    dir,        \* dirp is open
    pins,       \* number of pins configured, in the order of Pins
    motor,      \* index of the motor being programmed
    written,    \* number of registers written to that motor's driver
    chip,       \* registers that hold their settings, by motor
    enabled,    \* motors whose enable pin has been set
    bus         \* the SPI bus works

bootVars == <<boot, files, dir, pins, motor, written, chip, enabled, bus>>

-----------------------------------------------------------------------------
Motors == {"X", "Y"}
MotorOrder == <<"X", "Y">>

\* Mutant: the chip select is configured before the enable pin.
PinsSelectFirst ==
    <<<<"dir", "X">>, <<"step", "X">>, <<"nss", "X">>, <<"enable", "X">>,
      <<"dir", "Y">>, <<"step", "Y">>, <<"nss", "Y">>, <<"enable", "Y">>>>

\* The pins in the order in which mcuPeripheralsInit() configures them.
Pins ==
    <<<<"dir", "X">>, <<"step", "X">>, <<"enable", "X">>, <<"nss", "X">>,
      <<"dir", "Y">>, <<"step", "Y">>, <<"enable", "Y">>, <<"nss", "Y">>>>

\* The settings in the order in which drv::init() completes them: the first write,
\* toff(), turns the chopper on, the other fields of CHOPCONF follow one by one;
\* GCONF counts from its last write.
Registers ==
    <<"TOFF", "CHOPCONF", "IHOLD_IRUN", "TPOWERDOWN", "COOLCONF", "TCOOLTHRS", "GCONF",
      "PWMCONF", "TPWMTHRS">>
RegisterSet == {Registers[i] : i \in DOMAIN Registers}

Outputs == {Pins[i] : i \in 1 .. pins}

\* The chip selected by a pin that is no output does not hear anything.
Reaches(m) == bus /\ <<"nss", m>> \in Outputs

\* Setting a pin drives it if it is an output.
Enabled(m) == m \in enabled \/ <<"enable", m>> \notin Outputs
Energized == {m \in Motors : Enabled(m) /\ "TOFF" \in chip[m]}

BootTypeOK ==
    /\ boot \in {"disk", "mount", "opendir", "readdir", "closedir", "pins", "devices",
                 "register", "enable", "grbl"}
    /\ files \in 0 .. MaxFiles /\ dir \in BOOLEAN
    /\ pins \in 0 .. Len(Pins)
    /\ motor \in 1 .. Len(MotorOrder) + 1 /\ written \in 0 .. Len(Registers)
    /\ chip \in [Motors -> SUBSET RegisterSet]
    /\ enabled \subseteq Motors /\ bus \in BOOLEAN

\* The chips are as they come out of power-up, or as an earlier run left them.
BootInit ==
    /\ boot = "disk" /\ files = 0 /\ dir = FALSE
    /\ pins = 0 /\ motor = 1 /\ written = 0 /\ enabled = {} /\ bus \in BOOLEAN
    /\ \E registers \in {{}, RegisterSet} : chip = [m \in Motors |-> registers]

-----------------------------------------------------------------------------
(* sd::init() *)

card == <<files, dir>>
driver == <<motor, written, chip, enabled, bus>>

\* The questions to the disk: an error skips the rest of them, not the mount.
AskDisk ==
    /\ boot = "disk" /\ boot' = "mount"
    /\ UNCHANGED <<card, pins, driver>>

MountCard ==
    /\ boot = "mount" /\ boot' \in {"opendir", "pins"}
    /\ UNCHANGED <<card, pins, driver>>

\* lsdir()
OpenDir ==
    /\ boot = "opendir"
    /\ \/ boot' = "readdir" /\ dir' = TRUE /\ files' \in 0 .. MaxFiles
       \/ boot' = "pins" /\ UNCHANGED card
    /\ UNCHANGED <<pins, driver>>

\* Mutant: an error leaves the function without closing the directory.
ReadDirLeaves ==
    /\ boot = "readdir"
    /\ \/ files > 0 /\ files' = files - 1 /\ UNCHANGED boot
       \/ files = 0 /\ boot' = "closedir" /\ UNCHANGED files
       \/ boot' = "pins" /\ UNCHANGED files
    /\ UNCHANGED <<dir, pins, driver>>

\* An entry is printed; an error or the end of the directory ends the loop.
ReadDir ==
    /\ boot = "readdir"
    /\ \/ files > 0 /\ files' = files - 1 /\ UNCHANGED boot
       \/ boot' = "closedir" /\ UNCHANGED files
    /\ UNCHANGED <<dir, pins, driver>>

CloseDir ==
    /\ boot = "closedir" /\ boot' = "pins"
    /\ dir' = FALSE /\ files' = 0
    /\ UNCHANGED <<pins, driver>>

-----------------------------------------------------------------------------
(* mcuPeripheralsInit() *)

\* A pin that is not ready or cannot be configured ends the function.
ConfigurePin ==
    /\ boot = "pins"
    /\ \/ /\ pins < Len(Pins) /\ pins' = pins + 1
          /\ boot' = IF pins' = Len(Pins) THEN "devices" ELSE "pins"
       \/ boot' = "register" /\ UNCHANGED pins
    /\ UNCHANGED <<card, driver>>

\* The timer, the servo's PWM and the USB device: whichever is missing, the
\* rest is skipped, and the caller goes on.
FindDevices ==
    /\ boot = "devices" /\ boot' = "register"
    /\ UNCHANGED <<card, pins, driver>>

-----------------------------------------------------------------------------
(* drv::init() *)

Programmed(m) == MotorOrder[motor] = m

WriteRegister ==
    /\ boot = "register" /\ written < Len(Registers)
    /\ written' = written + 1
    /\ chip' = [m \in Motors |-> IF Programmed(m) /\ Reaches(m)
                                 THEN chip[m] \cup {Registers[written']} ELSE chip[m]]
    /\ boot' = IF written' = Len(Registers) THEN "enable" ELSE "register"
    /\ UNCHANGED <<card, pins, motor, enabled, bus>>

EnableMotor ==
    /\ boot = "enable"
    /\ enabled' = enabled \cup {m \in Motors : Programmed(m) /\ <<"enable", m>> \in Outputs}
    /\ motor' = motor + 1
    /\ IF motor < Len(MotorOrder)
         THEN boot' = "register" /\ written' = 0
         ELSE boot' = "grbl" /\ UNCHANGED written
    /\ UNCHANGED <<card, pins, chip, bus>>

BootNext ==
    \/ AskDisk \/ MountCard \/ OpenDir \/ ReadDir \/ CloseDir
    \/ ConfigurePin \/ FindDevices \/ WriteRegister \/ EnableMotor

-----------------------------------------------------------------------------
(* Properties *)

(* A motor gets current only when all the registers of its driver hold the *)
(* settings of drv::init(), wherever the initialization was given up.      *)
EnergizedAfterSetup == \A m \in Energized : chip[m] = RegisterSet

(* Whatever fails, main() arrives at grblMain(), with the card's directory *)
(* closed.                                                                 *)
BootEnds == <>[](boot = "grbl" /\ ~dir)
=============================================================================
