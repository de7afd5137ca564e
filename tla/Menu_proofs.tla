---------------------------- MODULE Menu_proofs ----------------------------
(***************************************************************************)
(* Proofs about module Menu: its type invariant, that the state machine of  *)
(* the client is run by one thread at a time, and what the menu makes of    *)
(* the knob and of the button.                                              *)
(***************************************************************************)
EXTENDS Menu, TLAPS

\* A thread that is inside the critical section owns the mutex.
InsideOwns ==
    /\ pc \in {"nap", "unlock"} => mutex = "display"
    /\ rpc \in {"nap", "unlock"} => mutex = "response"

\* The mutex is not owned by a thread that has no use for it.
OwnerWaitsOrIsInside ==
    /\ mutex = "display" => pc \in {"lock", "nap", "unlock"}
    /\ mutex = "response" => rpc \in {"lock", "nap", "unlock"}

MutexInv == InsideOwns /\ OwnerWaitsOrIsInside

IInv == TypeOK /\ MutexInv

-----------------------------------------------------------------------------
(* The tables *)

LEMMA MenuStatesAre ==
    MenuStates = {"MAIN_SD", "MAIN_JOG", "JOG_YP", "JOG_YN", "JOG_XP", "JOG_XN", "JOG_BACK"}
<1>1. DOMAIN MainEntries = 1 .. 2 /\ DOMAIN JogEntries = 1 .. 5
  BY DEF MainEntries, JogEntries
<1>2. {MainEntries[i] : i \in DOMAIN MainEntries} = {"MAIN_SD", "MAIN_JOG"}
  BY <1>1 DEF MainEntries
<1>3. {JogEntries[i] : i \in DOMAIN JogEntries}
        = {"JOG_YP", "JOG_YN", "JOG_XP", "JOG_XN", "JOG_BACK"}
  BY <1>1 DEF JogEntries
<1> QED BY <1>2, <1>3 DEF MenuStates

\* The events of the panel lead from entries of the menus to entries.
LEMMA EventsKeepMenu ==
    ASSUME NEW m \in MenuStates
    PROVE  Left[m] \in MenuStates /\ Right[m] \in MenuStates /\ Enter[m] \in MenuStates
BY MenuStatesAre DEF Left, Right, Enter

\* The decoder stays within its table, the row of zeros included.
LEMMA DecoderStays ==
    ASSUME NEW s \in 0 .. 4, NEW event \in 0 .. 3
    PROVE  /\ ENC[s + 1][event + 1].next \in 0 .. 4
           /\ ENC[s + 1][event + 1].out \in {"none", "left", "right"}
<1>1. CASE s = 0 BY <1>1 DEF ENC, N, L, R
<1>2. CASE s = 1 BY <1>2 DEF ENC, N, L, R
<1>3. CASE s = 2 BY <1>3 DEF ENC, N, L, R
<1>4. CASE s = 3 BY <1>4 DEF ENC, N, L, R
<1>5. CASE s = 4 BY <1>5 DEF ENC, N, L, R
<1> QED BY <1>1, <1>2, <1>3, <1>4, <1>5

LEMMA ContactsType == ASSUME NEW k \in 0 .. 3 PROVE Contacts[k] \in 0 .. 3
BY DEF Contacts

LEMMA AnswersType == ASSUME NEW c \in ClientStates PROVE Answers[c] \subseteq ClientStates
BY DEF ClientStates, Answers

-----------------------------------------------------------------------------
(* The mutex *)

\* Whoever asks for the mutex gets it or waits; nobody loses it.
LEMMA LockFacts ==
    ASSUME NEW thread \in {"display", "response"}, Lock(thread),
           mutex \in {"free", "display", "response"}
    PROVE  /\ mutex' \in {"display", "response"}
           /\ mutex # "free" => mutex' = mutex
           /\ mutex = "free" => mutex' = thread
BY DEF Lock

\* The owner gives the mutex to the thread that waits, or to nobody.
LEMMA UnlockFacts ==
    ASSUME NEW thread \in {"display", "response"}, Unlock(thread)
    PROVE  /\ mutex = thread
           /\ mutex' \in {"free", "display", "response"} \ {thread}
           /\ mutex' = "display" => pc = "lock"
           /\ mutex' = "response" => rpc = "lock"
BY DEF Unlock

-----------------------------------------------------------------------------
LEMMA InitIInv == Init => IInv
<1> SUFFICES ASSUME Init PROVE IInv OBVIOUS
<1>1. knob \in 0 .. 3 /\ decoder \in 0 .. 4 BY DEF Init
<1>2. menu \in MenuStates /\ client \in ClientStates
  BY MenuStatesAre DEF Init, ClientStates
<1>3. {button, pins, first, prevE, fresh, asked} \subseteq BOOLEAN BY DEF Init
<1>4. TypeOK BY <1>1, <1>2, <1>3 DEF Init, TypeOK
<1>5. MutexInv BY DEF Init, MutexInv, InsideOwns, OwnerWaitsOrIsInside
<1> QED BY <1>4, <1>5 DEF IInv

\* The user touches neither the threads nor the mutex.
LEMMA UserKeepsIInv == ASSUME IInv, Turn \/ Press \/ Release PROVE IInv'
<1> USE DEF IInv, TypeOK, MutexInv, InsideOwns, OwnerWaitsOrIsInside, display, machine
<1>1. CASE Turn
  <2>1. knob' \in 0 .. 3 BY <1>1 DEF Turn
  <2>2. origin' \in MenuStates \cup {"none"} BY <1>1 DEF Turn
  <2>3. heading' \in {"left", "right"} BY <1>1 DEF Turn
  <2> QED BY <1>1, <2>1, <2>2, <2>3 DEF Turn
<1>2. CASE Press BY <1>2 DEF Press
<1>3. CASE Release BY <1>3 DEF Release
<1> QED BY <1>1, <1>2, <1>3

LEMMA SampleKeepsIInv == ASSUME IInv, Sample PROVE IInv'
<1> USE DEF IInv, TypeOK, MutexInv, InsideOwns, OwnerWaitsOrIsInside
<1>1. PICK event \in 0 .. 3, held \in BOOLEAN :
        /\ decoder' = ENC[decoder + 1][event + 1].next
        /\ output' = IF first THEN output ELSE ENC[decoder + 1][event + 1].out
        /\ prevE' = held
        /\ \/ pc' = "enter" /\ asked' = FALSE
           \/ pc' = "turn" /\ asked' = asked
  BY DEF Sample, Edge
<1>2. decoder' \in 0 .. 4 /\ output' \in {"none", "left", "right"}
  BY <1>1, DecoderStays
<1>3. /\ pc = "sample" /\ first' = FALSE /\ fresh' = FALSE
      /\ UNCHANGED <<pins, menu, rpc, mutex, client, knob, button, origin, heading>>
  BY DEF Sample, machine
<1> QED BY <1>1, <1>2, <1>3

LEMMA DisplayKeepsIInv == ASSUME IInv, Display PROVE IInv'
<1> USE DEF IInv, TypeOK, MutexInv, InsideOwns, OwnerWaitsOrIsInside, display, machine, user
<1>1. CASE Boot BY <1>1 DEF Boot
<1>2. CASE Sample BY <1>2, SampleKeepsIInv
<1>3. CASE EnterMenu BY <1>3, EventsKeepMenu DEF EnterMenu
<1>4. CASE EnterJog BY <1>4, LockFacts DEF EnterJog
<1>5. CASE JogRun
  <2>1. client' \in ClientStates BY <1>5 DEF JogRun, ClientStates
  <2>2. menu' \in MenuStates BY <1>5, EventsKeepMenu DEF JogRun
  <2>3. pc = "lock" /\ pc' \in {"nap", "unlock"} /\ mutex = "display" BY <1>5 DEF JogRun
  <2>4. UNCHANGED <<pins, decoder, first, output, prevE, rpc, mutex, user>> BY <1>5 DEF JogRun
  <2> QED BY <2>1, <2>2, <2>3, <2>4
<1>6. CASE JogNap BY <1>6 DEF JogNap
<1>7. CASE JogUnlock BY <1>7, UnlockFacts DEF JogUnlock
<1>8. CASE KnobEvent
  <2>1. menu' \in MenuStates BY <1>8, EventsKeepMenu DEF KnobEvent
  <2> QED BY <1>8, <2>1 DEF KnobEvent
<1> QED BY <1>1, <1>2, <1>3, <1>4, <1>5, <1>6, <1>7, <1>8 DEF Display

LEMMA ResponseKeepsIInv == ASSUME IInv, Response PROVE IInv'
<1> USE DEF IInv, TypeOK, MutexInv, InsideOwns, OwnerWaitsOrIsInside, display, user
<1>1. CASE Fetch BY <1>1, LockFacts DEF Fetch
<1>2. CASE Respond BY <1>2, AnswersType DEF Respond
<1>3. CASE Nap BY <1>3 DEF Nap
<1>4. CASE ResponseUnlock BY <1>4, UnlockFacts DEF ResponseUnlock
<1> QED BY <1>1, <1>2, <1>3, <1>4 DEF Response

LEMMA NextKeepsIInv == IInv /\ [Next]_vars => IInv'
<1> SUFFICES ASSUME IInv, [Next]_vars PROVE IInv' OBVIOUS
<1>1. CASE Turn \/ Press \/ Release BY <1>1, UserKeepsIInv
<1>2. CASE Display BY <1>2, DisplayKeepsIInv
<1>3. CASE Response BY <1>3, ResponseKeepsIInv
<1>4. CASE UNCHANGED vars
  BY <1>4 DEF vars, display, machine, user, IInv, TypeOK, MutexInv, InsideOwns,
              OwnerWaitsOrIsInside
<1> QED BY <1>1, <1>2, <1>3, <1>4 DEF Next

LEMMA Invariant == Spec => []IInv
BY InitIInv, NextKeepsIInv, PTL DEF Spec

-----------------------------------------------------------------------------
(* Every variable of the panel and the client keeps its type.              *)
THEOREM TypeCorrect == Spec => []TypeOK
<1>1. IInv => TypeOK BY DEF IInv
<1> QED BY Invariant, <1>1, PTL

(* jog() and grblResponseThread() never run the state machine of the client *)
(* at the same time, not even while one of them sleeps in an entry action.  *)
THEOREM MutualExclusion == Spec => []OneRunAtATime
<1>1. IInv => OneRunAtATime BY DEF IInv, MutexInv, InsideOwns, OneRunAtATime
<1> QED BY Invariant, <1>1, PTL

-----------------------------------------------------------------------------
(* The hand-over: what ResponseGoesOn rests on, but for the fairness.       *)

\* A thread waits only while somebody owns the mutex, and the owner is on its
\* way to give it back: it waits for nothing but its own sleep.
OwnerIsOnItsWay ==
    /\ pc = "lock" \/ rpc = "lock" => mutex # "free"
    /\ OwnerWaitsOrIsInside

\* A thread that has asked is the next to own the mutex: it gets it in the step
\* with which the other one leaves, which cannot take it a second time meanwhile.
HandsOver ==
    /\ pc = "lock" /\ mutex = "response" =>
         mutex' = IF rpc' = "sleep" THEN "display" ELSE "response"
    /\ rpc = "lock" /\ mutex = "display" =>
         mutex' = IF pc' = "turn" THEN "response" ELSE "display"

WaiterIsNext == [][HandsOver]_vars

LEMMA NobodyForgotten ==
    ASSUME IInv, OwnerIsOnItsWay, [Next]_vars
    PROVE  OwnerIsOnItsWay'
<1>1. IInv' BY NextKeepsIInv
<1>2. mutex \in {"free", "display", "response"} BY DEF IInv, TypeOK
<1> USE DEF OwnerIsOnItsWay, OwnerWaitsOrIsInside, display, machine, user
<1>3. CASE EnterJog \/ JogUnlock \/ Fetch \/ ResponseUnlock
  <2>1. CASE EnterJog BY <2>1, <1>1, <1>2, LockFacts DEF EnterJog, IInv, MutexInv, OwnerWaitsOrIsInside
  <2>2. CASE Fetch BY <2>2, <1>1, <1>2, LockFacts DEF Fetch, IInv, MutexInv, OwnerWaitsOrIsInside
  <2>3. CASE JogUnlock
    BY <2>3, <1>1, <1>2 DEF JogUnlock, Unlock, IInv, MutexInv, OwnerWaitsOrIsInside
  <2>4. CASE ResponseUnlock
    BY <2>4, <1>1, <1>2 DEF ResponseUnlock, Unlock, IInv, MutexInv, OwnerWaitsOrIsInside
  <2> QED BY <1>3, <2>1, <2>2, <2>3, <2>4
<1>4. CASE \/ Turn \/ Press \/ Release \/ Boot \/ Sample \/ EnterMenu \/ JogRun \/ JogNap
           \/ KnobEvent \/ Respond \/ Nap \/ UNCHANGED vars
  <2>1. mutex' = mutex /\ (pc' = "lock" => pc = "lock") /\ (rpc' = "lock" => rpc = "lock")
    BY <1>4 DEF Turn, Press, Release, Boot, Sample, EnterMenu, JogRun, JogNap, KnobEvent,
                Respond, Nap, vars
  <2> QED BY <2>1, <1>1, <1>2 DEF IInv, MutexInv, OwnerWaitsOrIsInside
<1> QED BY <1>3, <1>4 DEF Next, Display, Response

(* The mutex is never left with a thread that has no use for it while the   *)
(* other one waits (jog(), grblResponseThread(), machineMutex).             *)
THEOREM OwnerGivesBack == Spec => []OwnerIsOnItsWay
<1>1. Init => OwnerIsOnItsWay BY DEF Init, OwnerIsOnItsWay, OwnerWaitsOrIsInside
<1>2. IInv /\ OwnerIsOnItsWay /\ [Next]_vars => OwnerIsOnItsWay'
  BY NobodyForgotten
<1> QED BY Invariant, <1>1, <1>2, PTL DEF Spec

(* A thread that waits for machineMutex is the next to own it, so that the  *)
(* loop of the response thread, which asks every 10 ms, cannot starve a jog. *)
THEOREM WaiterGetsIt == Spec => WaiterIsNext
<1>1. IInv /\ [Next]_vars => [HandsOver]_vars
  <2> SUFFICES ASSUME IInv, Next PROVE HandsOver OBVIOUS
  <2> USE DEF HandsOver, IInv, MutexInv, OwnerWaitsOrIsInside, display, machine, user
  <2>1. CASE JogUnlock BY <2>1 DEF JogUnlock, Unlock
  <2>2. CASE ResponseUnlock BY <2>2 DEF ResponseUnlock, Unlock
  <2>3. CASE EnterJog \/ Fetch BY <2>3 DEF EnterJog, Fetch, Lock
  <2>4. CASE JogRun \/ JogNap \/ Respond \/ Nap
    BY <2>4 DEF JogRun, JogNap, Respond, Nap
  <2>5. CASE Turn \/ Press \/ Release \/ Boot \/ Sample \/ EnterMenu \/ KnobEvent
    <3>1. UNCHANGED <<mutex, rpc>> /\ pc \in {pc', "boot", "sample", "enter", "turn"}
      BY <2>5 DEF Turn, Press, Release, Boot, Sample, EnterMenu, KnobEvent
    <3> QED BY <3>1
  <2> QED BY <2>1, <2>2, <2>3, <2>4, <2>5 DEF Next, Display, Response
<1> QED BY Invariant, <1>1, PTL DEF Spec, WaiterIsNext

-----------------------------------------------------------------------------
(* The rows of the menus *)

\* The entries of a menu are distinct, so each has its row.
LEMMA MainRows ==
    ASSUME NEW i \in 1 .. 2
    PROVE  Rows(MainEntries[i]) = MainEntries /\ Row(MainEntries[i]) = i
<1>1. DOMAIN MainEntries = 1 .. 2 BY DEF MainEntries
<1>2. Rows(MainEntries[i]) = MainEntries BY <1>1 DEF Rows
<1>3. \A j \in 1 .. 2 : MainEntries[j] = MainEntries[i] => j = i BY DEF MainEntries
<1>4. Row(MainEntries[i]) = CHOOSE j \in 1 .. 2 : MainEntries[j] = MainEntries[i]
  BY <1>1, <1>2 DEF Row
<1> QED BY <1>2, <1>3, <1>4

LEMMA JogRows ==
    ASSUME NEW i \in 1 .. 5
    PROVE  Rows(JogEntries[i]) = JogEntries /\ Row(JogEntries[i]) = i
<1>1. DOMAIN MainEntries = 1 .. 2 /\ DOMAIN JogEntries = 1 .. 5
  BY DEF MainEntries, JogEntries
<1>2. \A j \in 1 .. 2 : MainEntries[j] # JogEntries[i] BY DEF MainEntries, JogEntries
<1>3. Rows(JogEntries[i]) = JogEntries BY <1>1, <1>2 DEF Rows
<1>4. \A j \in 1 .. 5 : JogEntries[j] = JogEntries[i] => j = i BY DEF JogEntries
<1>5. Row(JogEntries[i]) = CHOOSE j \in 1 .. 5 : JogEntries[j] = JogEntries[i]
  BY <1>1, <1>3 DEF Row
<1> QED BY <1>3, <1>4, <1>5

\* The transitions of menuMachine go to the next row, around at the ends.
LEMMA TurnsGoBeside ==
    ASSUME NEW m \in MenuStates
    PROVE  Left[m] = Beside(m, "left") /\ Right[m] = Beside(m, "right")
<1>1. ASSUME NEW i \in 1 .. 2, m = MainEntries[i]
      PROVE  Left[m] = Beside(m, "left") /\ Right[m] = Beside(m, "right")
  <2>1. Rows(m) = MainEntries /\ Row(m) = i /\ Len(MainEntries) = 2
    BY <1>1, MainRows DEF MainEntries
  <2>2. /\ Beside(m, "left") = MainEntries[(i % 2) + 1]
        /\ Beside(m, "right") = MainEntries[(i % 2) + 1]
    <3>1. (i + 2 - 2) % 2 = i % 2 OBVIOUS
    <3> QED BY <2>1, <3>1 DEF Beside
  <2> QED BY <1>1, <2>2 DEF MainEntries, Left, Right
<1>2. ASSUME NEW i \in 1 .. 5, m = JogEntries[i]
      PROVE  Left[m] = Beside(m, "left") /\ Right[m] = Beside(m, "right")
  <2>1. Rows(m) = JogEntries /\ Row(m) = i /\ Len(JogEntries) = 5
    BY <1>2, JogRows DEF JogEntries
  <2>2. /\ Beside(m, "left") = JogEntries[(i % 5) + 1]
        /\ Beside(m, "right") = JogEntries[((i + 3) % 5) + 1]
    <3>1. i + 5 - 2 = i + 3 OBVIOUS
    <3> QED BY <2>1, <3>1 DEF Beside
  <2> QED BY <1>2, <2>2 DEF JogEntries, Left, Right
<1>3. (\E i \in 1 .. 2 : m = MainEntries[i]) \/ (\E i \in 1 .. 5 : m = JogEntries[i])
  BY DEF MenuStates, MainEntries, JogEntries
<1> QED BY <1>1, <1>2, <1>3

-----------------------------------------------------------------------------
(* The decoder during a click *)

\* A contact that is looked at again makes no event and no move.
LEMMA DecoderHolds ==
    ASSUME NEW k \in 0 .. 3
    PROVE  ENC[Contacts[k] + 1][Contacts[k] + 1] = N(Contacts[k])
<1>1. CASE k = 0 BY <1>1 DEF ENC, Contacts, N
<1>2. CASE k = 1 BY <1>2 DEF ENC, Contacts, N
<1>3. CASE k = 2 BY <1>3 DEF ENC, Contacts, N
<1>4. CASE k = 3 BY <1>4 DEF ENC, Contacts, N
<1> QED BY <1>1, <1>2, <1>3, <1>4

\* The position before k on a click to d.
Previous(k, d) == IF d = "left" THEN (k + 3) % 4 ELSE (k + 1) % 4

\* The first edge of a click makes no event, the second makes that of its
\* direction; the state of the decoder follows the contacts.
LEMMA DecoderFollows ==
    ASSUME NEW k \in 0 .. 3, NEW d \in {"left", "right"}
    PROVE  ENC[Contacts[Previous(k, d)] + 1][Contacts[k] + 1]
             = [next |-> Contacts[k], out |-> IF k % 2 = 0 THEN d ELSE "none"]
<1>1. CASE d = "left"
  <2>1. CASE k = 0 BY <1>1, <2>1 DEF ENC, Contacts, N, L, R, Previous
  <2>2. CASE k = 1 BY <1>1, <2>2 DEF ENC, Contacts, N, L, R, Previous
  <2>3. CASE k = 2 BY <1>1, <2>3 DEF ENC, Contacts, N, L, R, Previous
  <2>4. CASE k = 3 BY <1>1, <2>4 DEF ENC, Contacts, N, L, R, Previous
  <2> QED BY <2>1, <2>2, <2>3, <2>4
<1>2. CASE d = "right"
  <2>1. CASE k = 0 BY <1>2, <2>1 DEF ENC, Contacts, N, L, R, Previous
  <2>2. CASE k = 1 BY <1>2, <2>2 DEF ENC, Contacts, N, L, R, Previous
  <2>3. CASE k = 2 BY <1>2, <2>3 DEF ENC, Contacts, N, L, R, Previous
  <2>4. CASE k = 3 BY <1>2, <2>4 DEF ENC, Contacts, N, L, R, Previous
  <2> QED BY <2>1, <2>2, <2>3, <2>4
<1> QED BY <1>1, <1>2

-----------------------------------------------------------------------------
(* The button *)

\* A button that is held and has not been found held was pressed since the
\* last event for it; while the thread starts it has not been looked at.
ButtonInv ==
    /\ pins /\ button /\ ~prevE => asked
    /\ pc = "boot" => asked = button /\ ~prevE

LEMMA InitButton == Init => ButtonInv
BY DEF Init, ButtonInv

LEMMA NextButton == TypeOK /\ ButtonInv /\ [Next]_vars => ButtonInv'
<1> SUFFICES ASSUME TypeOK, ButtonInv, [Next]_vars PROVE ButtonInv' OBVIOUS
<1>0. {button, pins, prevE, asked} \subseteq BOOLEAN BY DEF TypeOK
<1> USE DEF display, machine, user
<1>1. CASE Turn BY <1>1 DEF Turn, ButtonInv
<1>2. CASE Press BY <1>2 DEF Press, ButtonInv, TypeOK
<1>3. CASE Release BY <1>3 DEF Release, ButtonInv, TypeOK
<1>4. CASE Sample
  <2>1. PICK held \in BOOLEAN :
          /\ pins => held = button
          /\ prevE' = held
          /\ IF held /\ ~prevE THEN pc' = "enter" ELSE pc' = "turn" /\ asked' = asked
    BY <1>4 DEF Sample, Edge
  <2>2. UNCHANGED <<pins, button>> /\ pc' # "boot" BY <1>4, <2>1 DEF Sample
  <2> QED BY <2>1, <2>2, <1>0 DEF ButtonInv
<1>5. CASE Boot BY <1>5 DEF Boot, ButtonInv
<1>6. CASE EnterMenu \/ EnterJog \/ JogRun \/ JogNap \/ JogUnlock \/ KnobEvent
  <2>1. UNCHANGED <<pins, button, prevE, asked>>
    BY <1>6 DEF EnterMenu, EnterJog, JogRun, JogNap, JogUnlock, KnobEvent
  <2>2. pc' # "boot"
    BY <1>6 DEF EnterMenu, EnterJog, JogRun, JogNap, JogUnlock, KnobEvent
  <2> QED BY <2>1, <2>2 DEF ButtonInv
<1>7. CASE Response BY <1>7 DEF Response, Fetch, Respond, Nap, ResponseUnlock, ButtonInv
<1>8. CASE UNCHANGED vars BY <1>8 DEF vars, ButtonInv
<1> QED BY <1>1, <1>2, <1>3, <1>4, <1>5, <1>6, <1>7, <1>8 DEF Next, Display

(* The menu gets one event for a press of the button, however long the     *)
(* button is held and whatever the thread waits for meanwhile: no event    *)
(* without a press since the last one (disp::loop(), prevE).               *)
THEOREM OneEventForPress == Spec => PressCountsOnce
<1>1. Init => ButtonInv BY InitButton
<1>2. TypeOK /\ ButtonInv /\ [Next]_vars => ButtonInv' BY NextButton
<1>3. TypeOK /\ ButtonInv /\ [Next]_vars
        => [pins /\ pc = "sample" /\ pc' = "enter" => asked]_vars
  <2> SUFFICES ASSUME TypeOK, ButtonInv, Next, pins, pc = "sample", pc' = "enter"
               PROVE  asked
    OBVIOUS
  <2>1. Sample
    BY DEF Next, Turn, Press, Release, Display, Boot, EnterMenu, EnterJog, JogRun, JogNap,
           JogUnlock, KnobEvent, Response, Fetch, Respond, Nap, ResponseUnlock, display
  <2>2. button /\ ~prevE BY <2>1 DEF Sample
  <2> QED BY <2>2 DEF ButtonInv
<1> QED BY TypeCorrect, <1>1, <1>2, <1>3, PTL DEF Spec, PressCountsOnce

-----------------------------------------------------------------------------
(* The knob *)

\* The first round of the loop finds the decoder as it was set up; a round
\* begins without an event; no click begins before the loop does.
RoundInv ==
    /\ first => decoder = 4
    /\ pc \in {"boot", "sample"} => output = "none"
    /\ pc = "boot" => ~pins /\ origin = "none"

\* A click that has begun at an entry: the thread is not held up, the decoder
\* is at the position of the knob that it has seen, and the menu leaves the
\* entry with the event of the second edge.
ClickInv ==
    pins /\ origin # "none" =>
      /\ ~asked /\ ~first /\ pc \in {"sample", "turn"}
      /\ decoder = Contacts[IF fresh THEN Previous(knob, heading) ELSE knob]
      /\ IF fresh \/ ~Resting THEN output = "none" /\ menu = origin
         ELSE \/ pc = "turn" /\ output = heading /\ menu = origin
              \/ output = "none" /\ menu = Beside(origin, heading)

KnobInv == RoundInv /\ ClickInv

LEMMA InitKnob == Init => KnobInv
BY DEF Init, KnobInv, RoundInv, ClickInv

\* At rest the state of the decoder is that of the position, and a position
\* is the previous one of the next.
LEMMA PositionFacts ==
    ASSUME NEW k \in 0 .. 3
    PROVE  /\ k % 2 = 0 => Contacts[k] = IF k = 0 THEN 0 ELSE 3
           /\ (k + 1) % 4 \in 0 .. 3 /\ (k + 3) % 4 \in 0 .. 3
           /\ Previous((k + 1) % 4, "left") = k
           /\ Previous((k + 3) % 4, "right") = k
           /\ ((k + 1) % 4) % 2 = 0 <=> ~(k % 2 = 0)
           /\ ((k + 3) % 4) % 2 = 0 <=> ~(k % 2 = 0)
<1>1. CASE k = 0 BY <1>1 DEF Contacts, Previous
<1>2. CASE k = 1 BY <1>2 DEF Contacts, Previous
<1>3. CASE k = 2 BY <1>3 DEF Contacts, Previous
<1>4. CASE k = 3 BY <1>4 DEF Contacts, Previous
<1> QED BY <1>1, <1>2, <1>3, <1>4

LEMMA TurnKnob == ASSUME IInv, KnobInv, Turn PROVE KnobInv'
<1>0. UNCHANGED <<pins, pc, decoder, first, output, menu, asked>>
  BY DEF Turn, display
<1>1. PICK d \in {"left", "right"} :
        /\ pins
        /\ knob' = IF d = "left" THEN (knob + 1) % 4 ELSE (knob + 3) % 4
        /\ fresh' = TRUE
        /\ origin' = IF AtRest THEN menu
                     ELSE IF ~fresh /\ ~Resting /\ d = heading THEN origin ELSE "none"
        /\ heading' = IF origin' = "none" THEN "left" ELSE d
  BY DEF Turn
<1>2. RoundInv' BY <1>0, <1>1 DEF KnobInv, RoundInv
<1>3. knob \in 0 .. 3 /\ decoder \in 0 .. 4 BY DEF IInv, TypeOK
<1>4. /\ Previous(knob', d) = knob /\ knob' \in 0 .. 3
      /\ knob % 2 = 0 => Contacts[knob] = IF knob = 0 THEN 0 ELSE 3
  BY <1>1, <1>3, PositionFacts
<1>5. ClickInv'
  <2> SUFFICES ASSUME origin' # "none"
               PROVE  /\ ~asked /\ ~first /\ pc \in {"sample", "turn"}
                      /\ decoder = Contacts[Previous(knob', heading')]
                      /\ output = "none" /\ menu = origin'
    BY <1>0, <1>1 DEF ClickInv
  <2>0. heading' = d BY <1>1
  <2>1. CASE AtRest
    <3>1. decoder = Contacts[knob] BY <2>1, <1>4 DEF AtRest, Resting
    <3>2. ~first
      <4>1. decoder # 4 BY <3>1, <1>3 DEF Contacts
      <4> QED BY <4>1 DEF KnobInv, RoundInv
    <3> QED BY <2>0, <2>1, <3>1, <3>2, <1>1, <1>4 DEF AtRest, Settled, KnobInv, RoundInv
  <2>2. CASE ~AtRest
    <3>1. ~fresh /\ ~Resting /\ d = heading /\ origin' = origin BY <2>2, <1>1
    <3> QED BY <2>0, <3>1, <1>1, <1>4 DEF KnobInv, ClickInv
  <2> QED BY <2>1, <2>2
<1> QED BY <1>2, <1>5 DEF KnobInv

LEMMA SampleKnob == ASSUME IInv, ButtonInv, KnobInv, Sample PROVE KnobInv'
<1>0. /\ pc = "sample" /\ pc' \in {"enter", "turn"} /\ ~first' /\ ~fresh'
      /\ UNCHANGED <<pins, menu, knob, button, origin, heading>>
      /\ knob \in 0 .. 3 /\ heading \in {"left", "right"} /\ output = "none"
  BY DEF Sample, IInv, TypeOK, KnobInv, RoundInv
<1>1. RoundInv' BY <1>0 DEF RoundInv
<1>2. ASSUME pins, origin # "none"
      PROVE  /\ ~asked' /\ pc' = "turn" /\ decoder' = Contacts[knob]
             /\ IF ~Resting THEN output' = "none" /\ menu = origin
                ELSE \/ output' = heading /\ menu = origin
                     \/ output' = "none" /\ menu = Beside(origin, heading)
  <2>0. /\ ~asked /\ ~first
        /\ decoder = Contacts[IF fresh THEN Previous(knob, heading) ELSE knob]
        /\ IF fresh \/ ~Resting THEN menu = origin ELSE menu = Beside(origin, heading)
    BY <1>0, <1>2 DEF KnobInv, ClickInv
  <2>1. ~(button /\ ~prevE) BY <2>0, <1>2 DEF ButtonInv
  <2>2. /\ pc' = "turn" /\ asked' = asked
        /\ decoder' = ENC[decoder + 1][Contacts[knob] + 1].next
        /\ output' = ENC[decoder + 1][Contacts[knob] + 1].out
    BY <2>0, <2>1, <1>2 DEF Sample
  <2>3. CASE fresh
    <3>1. /\ decoder' = Contacts[knob]
          /\ output' = IF knob % 2 = 0 THEN heading ELSE "none"
      BY <2>0, <2>2, <2>3, <1>0, DecoderFollows
    <3> QED BY <2>0, <2>2, <2>3, <3>1 DEF Resting
  <2>4. CASE ~fresh
    <3>1. decoder' = Contacts[knob] /\ output' = "none"
      BY <2>0, <2>2, <2>4, <1>0, DecoderHolds DEF N
    <3> QED BY <2>0, <2>2, <2>4, <3>1
  <2> QED BY <2>3, <2>4
<1>3. ClickInv' BY <1>0, <1>2 DEF ClickInv, Resting
<1> QED BY <1>1, <1>3 DEF KnobInv

LEMMA KnobEventKnob == ASSUME IInv, KnobInv, KnobEvent PROVE KnobInv'
<1>0. /\ pc = "turn" /\ pc' = "sample" /\ output' = "none"
      /\ UNCHANGED <<pins, knob, decoder, first, fresh, origin, heading, asked>>
      /\ menu' = CASE output = "left" -> Left[menu]
                   [] output = "right" -> Right[menu]
                   [] OTHER -> menu
      /\ menu \in MenuStates /\ heading \in {"left", "right"}
  BY DEF KnobEvent, user, IInv, TypeOK
<1>1. RoundInv' BY <1>0 DEF KnobInv, RoundInv
<1>2. output = heading => menu' = Beside(menu, heading) BY <1>0, TurnsGoBeside
<1>3. output = "none" => menu' = menu BY <1>0
<1>4. ClickInv' BY <1>0, <1>2, <1>3 DEF KnobInv, ClickInv, Resting
<1> QED BY <1>1, <1>4 DEF KnobInv

LEMMA NextKnob == IInv /\ ButtonInv /\ KnobInv /\ [Next]_vars => KnobInv'
<1> SUFFICES ASSUME IInv, ButtonInv, KnobInv, [Next]_vars PROVE KnobInv' OBVIOUS
<1> USE DEF display, machine, user
<1>1. CASE Turn BY <1>1, TurnKnob
<1>2. CASE Press BY <1>2 DEF Press, KnobInv, RoundInv, ClickInv
<1>3. CASE Release
  <2>1. UNCHANGED <<pins, pc, decoder, first, output, menu, knob, fresh, origin, heading>>
        /\ ~asked'
    BY <1>3 DEF Release
  <2> QED BY <2>1 DEF KnobInv, RoundInv, ClickInv, Resting
<1>4. CASE Boot BY <1>4 DEF Boot, KnobInv, RoundInv, ClickInv, IInv, TypeOK
<1>5. CASE Sample BY <1>5, SampleKnob
<1>6. CASE KnobEvent BY <1>6, KnobEventKnob
\* The thread is not here during a click.
<1>7. CASE EnterMenu \/ EnterJog \/ JogRun \/ JogNap \/ JogUnlock
  <2>1. /\ pc \notin {"sample", "turn"} /\ pc' \notin {"boot", "sample"}
        /\ UNCHANGED <<pins, decoder, first, origin>>
    BY <1>7 DEF EnterMenu, EnterJog, JogRun, JogNap, JogUnlock
  <2> QED BY <2>1 DEF KnobInv, RoundInv, ClickInv
<1>8. CASE Response
  <2>1. UNCHANGED <<pins, pc, decoder, first, output, menu, knob, fresh, origin, heading, asked>>
    BY <1>8 DEF Response, Fetch, Respond, Nap, ResponseUnlock
  <2> QED BY <2>1 DEF KnobInv, RoundInv, ClickInv, Resting
<1>9. CASE UNCHANGED vars BY <1>9 DEF vars, KnobInv, RoundInv, ClickInv, Resting
<1> QED BY <1>1, <1>2, <1>3, <1>4, <1>5, <1>6, <1>7, <1>8, <1>9 DEF Next, Display

(* A click of the knob moves the arrow by one row, in its direction and     *)
(* around at the ends of the menu (disp::loop(), the table ENC, menuMachine). *)
THEOREM ClickMovesOneRow == Spec => []KnobMovesOneRow
<1>1. Init => ButtonInv /\ KnobInv BY InitButton, InitKnob
<1>2. IInv /\ ButtonInv /\ KnobInv /\ [Next]_vars => ButtonInv' /\ KnobInv'
  <2>1. IInv => TypeOK BY DEF IInv
  <2> QED BY <2>1, NextButton, NextKnob
<1>3. IInv /\ KnobInv => KnobMovesOneRow
  <2> SUFFICES ASSUME IInv, KnobInv, pins, Settled, Resting, origin # "none"
               PROVE  menu = Beside(origin, heading)
    BY DEF KnobMovesOneRow
  <2> QED BY DEF KnobInv, ClickInv, Settled
<1> QED BY Invariant, <1>1, <1>2, <1>3, PTL DEF Spec
-----------------------------------------------------------------------------
(* A knob that edges were missed of.                                        *)

\* Three looks are enough, from wherever the decoder is.
LEMMA ThreeLooks ==
    ASSUME NEW s \in 0 .. 4, Resting, knob \in 0 .. 3
    PROVE  Contacts[knob] \in {Look(s), Look(Look(s)), Look(Look(Look(s)))}
<1>1. knob \in {0, 2} BY DEF Resting
<1>2. CASE knob = 0
  <2>1. \A r \in 0 .. 4 : Look(r) = ENC[r + 1][1].next BY <1>2 DEF Look, Contacts
  <2>2. /\ ENC[1][1].next = 0 /\ ENC[2][1].next = 0 /\ ENC[3][1].next = 0
        /\ ENC[4][1].next = 1 /\ ENC[5][1].next = 0
    BY DEF ENC, N, L, R
  <2>3. Look(0) = 0 /\ Look(1) = 0 /\ Look(2) = 0 /\ Look(3) = 1 /\ Look(4) = 0
    BY <2>1, <2>2
  <2> QED BY <1>2, <2>3 DEF Contacts
<1>3. CASE knob = 2
  <2>1. \A r \in 0 .. 4 : Look(r) = ENC[r + 1][4].next BY <1>3 DEF Look, Contacts
  <2>2. /\ ENC[1][4].next = 1 /\ ENC[2][4].next = 3 /\ ENC[3][4].next = 3
        /\ ENC[4][4].next = 3 /\ ENC[5][4].next = 0
    BY DEF ENC, N, L, R
  <2>3. Look(0) = 1 /\ Look(1) = 3 /\ Look(2) = 3 /\ Look(3) = 3 /\ Look(4) = 0
    BY <2>1, <2>2
  <2> QED BY <1>3, <2>3 DEF Contacts
<1> QED BY <1>1, <1>2, <1>3

LEMMA OneLook ==
    ASSUME IInv, Sample, pins, Resting
    PROVE  Behind' = IF Behind = 0 THEN 0 ELSE Behind - 1
<1> DEFINE place == Contacts[knob]
           d == decoder
<1>1. knob \in 0 .. 3 /\ decoder \in 0 .. 4 /\ knob' = knob
  BY DEF IInv, TypeOK, Sample
<1>2. decoder' = Look(d)
  BY DEF Sample, Look
<1>3. Look(place) = place
  BY <1>1, DecoderHolds DEF N, Look
<1>4. place \in {Look(d), Look(Look(d)), Look(Look(Look(d)))}
  BY <1>1, ThreeLooks
<1>5. Behind' = IF Look(d) = place THEN 0
                ELSE IF Look(Look(d)) = place THEN 1
                ELSE IF Look(Look(Look(d))) = place THEN 2 ELSE 3
  BY <1>1, <1>2 DEF Behind, Look
<1>6. Behind = IF d = place THEN 0
               ELSE IF Look(d) = place THEN 1
               ELSE IF Look(Look(d)) = place THEN 2 ELSE 3
  BY DEF Behind
<1> HIDE DEF place, d
<1> QED BY <1>3, <1>4, <1>5, <1>6

\* From power-up on, or after edges were missed while the thread waited for the
\* mutex, every look at the knob at rest brings the decoder nearer to its place,
\* which three looks reach: the next click is decoded (disp::loop(), ENC).
THEOREM LooksBringNearer == Spec => LooksCatchUp
<1>1. IInv /\ [Next]_vars
        => [pins /\ Resting /\ pc = "sample" /\ pc' # "sample" =>
              Behind' = IF Behind = 0 THEN 0 ELSE Behind - 1]_vars
  <2> SUFFICES ASSUME IInv, Next, pins, Resting, pc = "sample", pc' # "sample"
               PROVE  Behind' = IF Behind = 0 THEN 0 ELSE Behind - 1
    OBVIOUS
  <2>1. Sample
    BY DEF Next, Display, Response, Turn, Press, Release, Boot, EnterMenu, EnterJog, JogRun,
           JogNap, JogUnlock, KnobEvent, Fetch, Respond, Nap, ResponseUnlock, display
  <2> QED BY <2>1, OneLook
<1> QED BY Invariant, <1>1, PTL DEF Spec, LooksCatchUp
=============================================================================
