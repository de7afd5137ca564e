-------------------------------- MODULE Menu --------------------------------
(***************************************************************************)
(* The panel of the machine (src/src/display.cc): a rotary knob with two   *)
(* contacts, a button and a menu on a small display, served by one thread  *)
(* that looks at the contacts every 4 ms.  An entry of the jog menu calls  *)
(* jog() (src/src/grblState.cc), which runs the state machine of the       *)
(* machine client under a mutex that it shares with the response thread.   *)
(* What makes the client change its state is the business of module        *)
(* MachineClient; here it takes any of the ways that it has.               *)
(*                                                                         *)
(* The knob has four positions, the contacts 00, 01, 11, 10 (B, A), and    *)
(* comes to rest in the first and the third.                               *)
(***************************************************************************)
EXTENDS Naturals, Sequences

VARIABLES
    knob,       \* position of the knob, 0 .. 3
    button,     \* the button is held
    pins,       \* the contacts are configured as inputs
    pc,         \* where the display thread is
    decoder,    \* state, index into ENC
    first,      \* first
    output,     \* output, the event of the knob, in one round of the loop
    prevE,      \* prevE
    menu,       \* state of menuMachine
    rpc,        \* where the response thread is
    mutex,      \* owner of machineMutex
    client,     \* state of grblMachine
    fresh,      \* the knob has moved since it was looked at
    origin,     \* entry that was shown when the present click of the knob began
    heading,    \* direction of that click
    asked       \* the button has been pressed and not been released or served since

display == <<pc, decoder, first, output, prevE, menu>>
machine == <<rpc, mutex, client>>
user == <<knob, button, fresh, origin, heading, asked>>
vars == <<pins, display, machine, user>>

-----------------------------------------------------------------------------
(* The menus *)

\* The entries by row, as the lambda menu prints them.
MainEntries == <<"MAIN_SD", "MAIN_JOG">>
JogEntries == <<"JOG_YP", "JOG_YN", "JOG_XP", "JOG_XN", "JOG_BACK">>
Rows(m) == IF \E i \in DOMAIN MainEntries : MainEntries[i] = m THEN MainEntries ELSE JogEntries
MenuStates == {MainEntries[i] : i \in DOMAIN MainEntries} \cup
              {JogEntries[i] : i \in DOMAIN JogEntries}

\* Mutant: the list of entries is not closed to a ring.
LeftOpen ==
    [MAIN_SD |-> "MAIN_JOG", MAIN_JOG |-> "MAIN_SD",
     JOG_YP |-> "JOG_YN", JOG_YN |-> "JOG_XP", JOG_XP |-> "JOG_XN",
     JOG_XN |-> "JOG_BACK", JOG_BACK |-> "JOG_BACK"]

\* The transitions of menuMachine.
Left ==
    [MAIN_SD |-> "MAIN_JOG", MAIN_JOG |-> "MAIN_SD",
     JOG_YP |-> "JOG_YN", JOG_YN |-> "JOG_XP", JOG_XP |-> "JOG_XN",
     JOG_XN |-> "JOG_BACK", JOG_BACK |-> "JOG_YP"]
Right ==
    [MAIN_SD |-> "MAIN_JOG", MAIN_JOG |-> "MAIN_SD",
     JOG_YP |-> "JOG_BACK", JOG_YN |-> "JOG_YP", JOG_XP |-> "JOG_YN",
     JOG_XN |-> "JOG_XP", JOG_BACK |-> "JOG_XN"]
Enter ==
    [MAIN_SD |-> "JOG_YP", MAIN_JOG |-> "JOG_YP",
     JOG_YP |-> "JOG_YP", JOG_YN |-> "JOG_YN", JOG_XP |-> "JOG_XP",
     JOG_XN |-> "JOG_XN", JOG_BACK |-> "MAIN_JOG"]

\* The direction the action of such a transition asks jog() for.
Jog == [JOG_YP |-> "Y+", JOG_YN |-> "Y-", JOG_XP |-> "X+", JOG_XN |-> "Y+"]

\* The text of the entry.
Label == [JOG_YP |-> "Y+", JOG_YN |-> "Y-", JOG_XP |-> "X+", JOG_XN |-> "X-"]

-----------------------------------------------------------------------------
(* The decoder of the knob *)

Contacts == [position \in 0 .. 3 |-> <<0, 1, 3, 2>>[position + 1]]

\* Mutant: the event is not masked out of the table's entry.
LUnmasked(s) == [next |-> s + 32, out |-> "left"]

L(s) == [next |-> s, out |-> "left"]
R(s) == [next |-> s, out |-> "right"]
N(s) == [next |-> s, out |-> "none"]

\* Mutant: a lost edge at rest is waited for.
ENCStuck ==
    <<<<N(0), N(1), N(2), N(0)>>,
      <<R(0), N(1), N(1), L(3)>>,
      <<L(0), N(1), N(2), R(3)>>,
      <<N(1), N(1), N(2), N(3)>>,
      <<N(0), N(0), N(0), N(0)>>>>

\* Mutant: one of the four ends of a click does not count.
ENCHalf ==
    <<<<N(0), N(1), N(2), N(1)>>,
      <<R(0), N(1), N(1), L(3)>>,
      <<N(0), N(1), N(2), R(3)>>,
      <<N(1), N(1), N(2), N(3)>>,
      <<N(0), N(0), N(0), N(0)>>>>

\* By state and event; the fifth row is not written down and therefore zero.
ENC ==
    <<<<N(0), N(1), N(2), N(1)>>,
      <<R(0), N(1), N(1), L(3)>>,
      <<L(0), N(1), N(2), R(3)>>,
      <<N(1), N(1), N(2), N(3)>>,
      <<N(0), N(0), N(0), N(0)>>>>

-----------------------------------------------------------------------------
ClientStates == {"start", "init", "ready", "locked", "jog", "waitidle", "alarm"}

\* Where some response takes the client, see Target in module MachineClient.
Answers ==
    [start |-> {"init"}, init |-> {"init", "ready"}, ready |-> {"ready", "locked"},
     locked |-> {"locked", "ready"}, jog |-> {"jog", "waitidle"},
     waitidle |-> {"waitidle", "ready", "alarm"}, alarm |-> {"alarm", "ready"}]

TypeOK ==
    /\ knob \in 0 .. 3 /\ decoder \in 0 .. 4
    /\ {button, pins, first, prevE, fresh, asked} \subseteq BOOLEAN
    /\ pc \in {"boot", "sample", "enter", "lock", "nap", "unlock", "turn"}
    /\ output \in {"none", "left", "right"}
    /\ menu \in MenuStates /\ origin \in MenuStates \cup {"none"}
    /\ heading \in {"left", "right"}
    /\ rpc \in {"sleep", "lock", "nap", "unlock"}
    /\ mutex \in {"free", "display", "response"}
    /\ client \in ClientStates

Init ==
    /\ knob \in {0, 2} /\ button \in BOOLEAN /\ pins = FALSE
    /\ pc = "boot" /\ decoder = 4 /\ first = TRUE /\ output = "none" /\ prevE = FALSE
    /\ menu = "MAIN_SD"
    /\ rpc = "sleep" /\ mutex = "free" /\ client = "start"
    /\ fresh = FALSE /\ origin = "none" /\ heading = "left" /\ asked = button

-----------------------------------------------------------------------------
(* The user *)

Resting == knob % 2 = 0
Opposite(d) == IF d = "left" THEN "right" ELSE "left"

\* The thread has nothing to catch up with.
Settled == pc = "sample" /\ ~fresh
AtRest == Settled /\ ~asked /\ Resting /\ decoder = (IF knob = 0 THEN 0 ELSE 3)

\* The knob moves to the next position: a click begins, goes on, or is none
\* because it has been turned back or faster than it is looked at.  Nothing
\* the user does is seen unless the contacts are configured.
Turn ==
    \E d \in {"left", "right"} :
      /\ pins
      /\ knob' = IF d = "left" THEN (knob + 1) % 4 ELSE (knob + 3) % 4
      /\ fresh' = TRUE
      /\ origin' = IF AtRest THEN menu
                   ELSE IF ~fresh /\ ~Resting /\ d = heading THEN origin ELSE "none"
      /\ heading' = IF origin' = "none" THEN "left" ELSE d
      /\ UNCHANGED <<pins, display, machine, button, asked>>

Press ==
    /\ pins /\ ~button /\ button' = TRUE
    /\ asked' = TRUE /\ origin' = "none" /\ heading' = "left"
    /\ UNCHANGED <<pins, display, machine, knob, fresh>>

Release ==
    /\ pins /\ button /\ button' = FALSE
    /\ asked' = FALSE
    /\ UNCHANGED <<pins, display, machine, knob, fresh, origin, heading>>

-----------------------------------------------------------------------------
(* machineMutex, which is handed over to a thread that waits for it *)

\* Mutant: the mutex is not asked for.
LockAlways(thread) == mutex' = thread

Lock(thread) == mutex' = IF mutex = "free" THEN thread ELSE mutex

\* Mutant: the mutex is not given back after a jog.
UnlockForgotten(thread) ==
    /\ mutex = thread
    /\ mutex' = IF thread = "display" THEN "display"
                ELSE IF pc = "lock" THEN "display" ELSE "free"

Unlock(thread) ==
    /\ mutex = thread
    /\ mutex' = CASE thread = "display" /\ rpc = "lock" -> "response"
                  [] thread = "response" /\ pc = "lock" -> "display"
                  [] OTHER -> "free"

-----------------------------------------------------------------------------
(* The display thread *)

\* disp::init(): a display that is missing or fails makes it return before
\* the contacts are configured, and that may fail as well; the loop is
\* entered in any case.
Boot ==
    /\ pc = "boot" /\ pc' = "sample"
    /\ pins' \in BOOLEAN
    /\ UNCHANGED <<decoder, first, output, prevE, menu, machine, user>>

\* Mutant: the last state of the button is not kept.
EdgeForgotten(held) == prevE' = FALSE

\* The button: an event for each time it is found held after not held.
Edge(held) == prevE' = held

\* The head of the loop; contacts that have not been configured float.
Sample ==
    /\ pc = "sample"
    /\ \E event \in 0 .. 3, held \in BOOLEAN :
         /\ pins => event = Contacts[knob] /\ held = button
         /\ LET x == ENC[decoder + 1][event + 1] IN
              /\ decoder' = x.next
              /\ output' = IF first THEN output ELSE x.out
         /\ first' = FALSE
         /\ Edge(held)
         /\ IF held /\ ~prevE
              THEN pc' = "enter" /\ asked' = FALSE
              ELSE pc' = "turn" /\ UNCHANGED asked
    /\ fresh' = FALSE
    /\ UNCHANGED <<pins, menu, machine, knob, button, origin, heading>>

\* menuMachine.run (Event::enter) for an entry without an action ...
EnterMenu ==
    /\ pc = "enter" /\ menu \notin DOMAIN Jog
    /\ menu' = Enter[menu] /\ pc' = "turn"
    /\ UNCHANGED <<pins, decoder, first, output, prevE, machine, user>>

\* ... and for one that calls jog(), which begins with the mutex ...
EnterJog ==
    /\ pc = "enter" /\ menu \in DOMAIN Jog
    /\ pc' = "lock" /\ Lock("display")
    /\ UNCHANGED <<pins, decoder, first, output, prevE, menu, rpc, client, user>>

\* ... and gives the state machine its event: only the state ready knows it,
\* and sends the line for the direction; waitidle takes it like any response.
JogRun ==
    /\ pc = "lock" /\ mutex = "display"
    /\ client' = CASE client = "start" -> "init"
                   [] client = "ready" -> "jog"
                   [] OTHER -> client
    /\ pc' = IF client' = "waitidle" THEN "nap" ELSE "unlock"
    /\ menu' = Enter[menu]
    /\ UNCHANGED <<pins, decoder, first, output, prevE, rpc, mutex, user>>

JogNap ==
    /\ pc = "nap" /\ pc' = "unlock"
    /\ UNCHANGED <<pins, decoder, first, output, prevE, menu, machine, user>>

JogUnlock ==
    /\ pc = "unlock" /\ pc' = "turn" /\ Unlock("display")
    /\ UNCHANGED <<pins, decoder, first, output, prevE, menu, rpc, client, user>>

\* The event of the knob comes after that of the button, and then the sleep.
KnobEvent ==
    /\ pc = "turn" /\ pc' = "sample" /\ output' = "none"
    /\ menu' = CASE output = "left" -> Left[menu]
                 [] output = "right" -> Right[menu]
                 [] OTHER -> menu
    /\ UNCHANGED <<pins, decoder, first, prevE, machine, user>>

Display ==
    Boot \/ Sample \/ EnterMenu \/ EnterJog \/ JogRun \/ JogNap \/ JogUnlock \/ KnobEvent

-----------------------------------------------------------------------------
(* grblResponseThread() *)

\* 10 ms later the next response has been fetched, or none.
Fetch ==
    /\ rpc = "sleep" /\ rpc' = "lock" /\ Lock("response")
    /\ UNCHANGED <<pins, display, client, user>>

Respond ==
    /\ rpc = "lock" /\ mutex = "response"
    /\ client' \in Answers[client]
    /\ rpc' = IF client' = "waitidle" THEN "nap" ELSE "unlock"
    /\ UNCHANGED <<pins, display, mutex, user>>

\* The entry of waitidle sleeps for 250 ms with the mutex held.
Nap ==
    /\ rpc = "nap" /\ rpc' = "unlock"
    /\ UNCHANGED <<pins, display, mutex, client, user>>

ResponseUnlock ==
    /\ rpc = "unlock" /\ rpc' = "sleep" /\ Unlock("response")
    /\ UNCHANGED <<pins, display, client, user>>

Response == Fetch \/ Respond \/ Nap \/ ResponseUnlock

-----------------------------------------------------------------------------
Next == Turn \/ Press \/ Release \/ Display \/ Response

\* The display thread (priority 14) has to wait while the main thread (13) spins,
\* but k_mutex raises the owner to the priority of the thread that waits for it.
DisplayRaised == mutex = "display" /\ rpc = "lock" /\ Display

(* The response thread shares its priority with the main thread, by time    *)
(* slices; nothing is assumed of the display thread but where it is raised, *)
(* and nothing of the user.                                                 *)
Spec == Init /\ [][Next]_vars /\ WF_vars(Response) /\ WF_vars(DisplayRaised)

-----------------------------------------------------------------------------
(* Properties *)

(* The state machine of the client is run by one thread at a time, also     *)
(* while an entry action sleeps (jog(), grblResponseThread()).              *)
OneRunAtATime == ~(pc \in {"nap", "unlock"} /\ rpc \in {"nap", "unlock"})

Row(m) == CHOOSE i \in DOMAIN Rows(m) : Rows(m)[i] = m
Beside(m, d) ==
    LET n == Len(Rows(m)) IN
    Rows(m)[IF d = "left" THEN (Row(m) % n) + 1 ELSE ((Row(m) + n - 2) % n) + 1]

(* A click of the knob from rest to rest, each of its edges seen, moves the *)
(* arrow by one row, down for the one direction and up for the other, and   *)
(* around at the ends, wherever the thread was meanwhile.                   *)
KnobMovesOneRow ==
    pins /\ Settled /\ Resting /\ origin # "none" => menu = Beside(origin, heading)

(* The menu takes a press of the button for one event, however long it is   *)
(* held and whatever the thread waits for meanwhile.                        *)
PressCountsOnce == [][pins /\ pc = "sample" /\ pc' = "enter" => asked]_vars

(* An entry moves the machine the way its text says.                        *)
JogsAsLabelled == [][client = "ready" /\ client' = "jog" => Jog[menu] = Label[menu]]_vars

(* The response thread gets the mutex from a display thread that may be kept *)
(* from running as long as the main thread spins, and gets on with its loop: *)
(* jog() cannot block the responses for good (grblResponseThread()).        *)
ResponseGoesOn == rpc = "lock" ~> rpc = "sleep"

\* How many looks at the contacts as they are now the decoder needs to be where
\* they are.
Look(s) == ENC[s + 1][Contacts[knob] + 1].next
Behind ==
    IF decoder = Contacts[knob] THEN 0
    ELSE IF Look(decoder) = Contacts[knob] THEN 1
    ELSE IF Look(Look(decoder)) = Contacts[knob] THEN 2
    ELSE 3

(* From power-up on, or after edges were missed while the thread waited for *)
(* the mutex, every look at the knob at rest brings the decoder nearer to   *)
(* its place, which is three looks away at most: the next click is decoded. *)
LooksCatchUp ==
    [][pins /\ Resting /\ pc = "sample" /\ pc' # "sample" =>
         Behind' = IF Behind = 0 THEN 0 ELSE Behind - 1]_vars
=============================================================================
