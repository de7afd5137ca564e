----------------------- MODULE MachineClient_proofs -----------------------
(***************************************************************************)
(* Proofs about module MachineClient: its type invariant, and that the     *)
(* client takes no other answer for the one to its jog, for every size of  *)
(* the rings and every number of resets, status requests and jogs.         *)
(***************************************************************************)
EXTENDS MachineClient, SequenceTheorems, TLAPS

Item == [msg : Messages, len : 1 .. LineBuffer]

\* The client leaves the wait for the end of a jog with one of these.
Ends == {"<IDLE", "<ALARM"}

NoOk(q)  == \A i \in DOMAIN q : q[i].msg # "ok"
NoEnd(q) == \A i \in DOMAIN q : q[i].msg \notin Ends

\* The first response is one of the first, no later response one of the last.
NoneAfter(q, first, last) ==
    \A i, j \in DOMAIN q : i < j /\ q[i].msg \in first => q[j].msg \notin last

\* No two answers "ok" with an end of the jog between them.
NoOkEndOk(q) ==
    \A i, j, k \in DOMAIN q :
      i < j /\ j < k /\ q[i].msg = "ok" /\ q[j].msg \in Ends => q[k].msg # "ok"

-----------------------------------------------------------------------------
(* The inductive invariant *)

\* The reset has not begun to wipe the rings.
Live == pc \notin {"clear", "reset"}

\* A response that cannot be fetched stays at the head for good.
Stuck(q) == q # <<>> /\ ~Fits(Head(q))

\* A line of the client, or its end, is still to be answered.
Pending == Live /\ (pc = "execute" \/ rxRing # <<>>)

\* No "ok" gets to the client.
Quiet == fetched # "ok" /\ (Stuck(lineRing) \/ NoOk(lineRing))

Jog == [text |-> "$J", of |-> asked]
End == EndOfLine(asked)

\* What is left of the line of a jog, from $J to the second end of line, as
\* far as there was room for it.
LineOnItsWay ==
    \/ line = <<>> /\ pc # "execute" /\ rxRing \in {<<>>, <<Jog>>, <<Jog, End>>, <<Jog, End, End>>}
    \/ line = <<Jog>> /\ pc # "execute" /\ rxRing \in {<<>>, <<End>>, <<End, End>>}
    \/ line = <<Jog>> /\ pc = "execute" /\ rxRing \in {<<>>, <<End>>}

\* What is left of it once it has been executed.
LineExecuted ==
    line = <<>> /\ rxRing \in {<<>>, <<End>>} /\ (rxRing # <<>> => pc = "read")

NotJogging == client \in {"start", "init", "ready", "alarm"}
Unanswered == client = "jog" /\ ~answered

\* A jog that has been answered and not yet been told so: nothing that ends
\* the jog comes between two answers.
Answered ==
    /\ LineExecuted \/ ~Live
    /\ Stuck(lineRing) \/ (NoOkEndOk(lineRing)
                 /\ (fetched = "ok" => NoneAfter(lineRing, Ends, {"ok"})))
    /\ Pending => Stuck(lineRing) \/ (NoneAfter(lineRing, {"ok"}, Ends)
                            /\ (fetched = "ok" => NoEnd(lineRing)))
    /\ Pending /\ pc # "execute" => Quiet \/ state = "JOG"

\* The wait for its end: the second answer comes first.
Waiting ==
    /\ answered
    /\ LineExecuted \/ ~Live
    /\ Stuck(lineRing) \/ (NoneAfter(lineRing, Ends, {"ok"}) /\ (fetched \in Ends => NoOk(lineRing)))
    /\ Pending => fetched \notin Ends /\ (Stuck(lineRing) \/ NoEnd(lineRing))
    /\ Pending /\ pc # "execute" => state = "JOG"

AnswerInv ==
    ~wasLocked /\ lines = 0 =>
      /\ client # "locked" /\ pc # "homing"
      /\ NotJogging \/ Unanswered => Quiet
      /\ NotJogging /\ Live => rxRing = <<>> /\ line = <<>> /\ pc # "execute"
      /\ Unanswered => asked > 0 /\ (Live => LineOnItsWay)
      /\ client = "jog" /\ answered => Answered
      /\ client = "waitidle" => Waiting

\* An alarm comes with a reset; the host ends only lines it has begun.
InputInv ==
    /\ alarm => "RESET" \in flags
    /\ hostLine => lines # 0 /\ pc # "boot"
    /\ pc = "boot" => rxRing = <<>> /\ line = <<>>


-----------------------------------------------------------------------------
(* Sequences of responses *)

LEMMA PutCases ==
    ASSUME NEW q, NEW item
    PROVE  Put(q, item) \in {q, Append(q, item)}
BY DEF Put

LEMMA PutType ==
    ASSUME NEW q \in Seq(Item), NEW item \in Item
    PROVE  Put(q, item) \in Seq(Item)
BY PutCases

\* What is kept when a response is added that is not "ok" ...
KeepsOk(q, r) ==
    /\ Stuck(q) => Stuck(r)
    /\ NoOk(q) => NoOk(r)
    /\ NoneAfter(q, Ends, {"ok"}) => NoneAfter(r, Ends, {"ok"})
    /\ NoOkEndOk(q) => NoOkEndOk(r)

\* ... that does not end a jog ...
KeepsEnd(q, r) ==
    /\ Stuck(q) => Stuck(r)
    /\ NoEnd(q) => NoEnd(r)
    /\ NoneAfter(q, {"ok"}, Ends) => NoneAfter(r, {"ok"}, Ends)

\* ... and when "ok" is added.
AddsOk(q, r) ==
    /\ NoEnd(q) => NoneAfter(r, Ends, {"ok"})
    /\ NoneAfter(q, {"ok"}, Ends) => NoOkEndOk(r)

LEMMA Appended ==
    ASSUME NEW q \in Seq(Item), NEW item \in Item
    PROVE  LET r == Append(q, item) IN
             /\ DOMAIN r = 1 .. Len(q) + 1 /\ DOMAIN q = 1 .. Len(q) /\ Len(q) \in Nat
             /\ \A i \in 1 .. Len(q) : r[i] = q[i]
             /\ r[Len(q) + 1] = item
             /\ q # <<>> => r # <<>> /\ Head(r) = Head(q)
OBVIOUS

LEMMA AppendKeeps ==
    ASSUME NEW q \in Seq(Item), NEW item \in Item
    PROVE  LET r == Append(q, item) IN
             /\ item.msg # "ok" => KeepsOk(q, r)
             /\ item.msg \notin Ends => KeepsEnd(q, r)
             /\ item.msg = "ok" => AddsOk(q, r)
<1> DEFINE r == Append(q, item)
           n == Len(q)
<1>1. /\ DOMAIN r = 1 .. n + 1 /\ DOMAIN q = 1 .. n /\ n \in Nat
      /\ \A i \in 1 .. n : r[i] = q[i]
      /\ r[n + 1] = item
  BY Appended
<1>2. Stuck(q) => Stuck(r)
  BY Appended DEF Stuck
<1> HIDE DEF r, n
<1>3. \A i \in DOMAIN r : i = n + 1 \/ i \in DOMAIN q
  BY <1>1
<1>4. \A i \in DOMAIN q : i < n + 1 /\ i \in DOMAIN r
  BY <1>1
<1>5. \A i, j \in DOMAIN r : i < j => i \in DOMAIN q
  BY <1>1
<1>6. ASSUME item.msg # "ok" PROVE KeepsOk(q, r)
  <2>1. NoOk(q) => NoOk(r)
    BY <1>1, <1>3, <1>6 DEF NoOk
  <2>2. NoneAfter(q, Ends, {"ok"}) => NoneAfter(r, Ends, {"ok"})
    BY <1>1, <1>3, <1>5, <1>6 DEF NoneAfter
  <2>3. NoOkEndOk(q) => NoOkEndOk(r)
    BY <1>1, <1>3, <1>5, <1>6 DEF NoOkEndOk
  <2> QED BY <1>2, <2>1, <2>2, <2>3 DEF KeepsOk
<1>7. ASSUME item.msg \notin Ends PROVE KeepsEnd(q, r)
  <2>1. NoEnd(q) => NoEnd(r)
    BY <1>1, <1>3, <1>7 DEF NoEnd
  <2>2. NoneAfter(q, {"ok"}, Ends) => NoneAfter(r, {"ok"}, Ends)
    BY <1>1, <1>3, <1>5, <1>7 DEF NoneAfter
  <2> QED BY <1>2, <2>1, <2>2 DEF KeepsEnd
<1>8. AddsOk(q, r)
  <2>1. NoEnd(q) => NoneAfter(r, Ends, {"ok"})
    BY <1>1, <1>5 DEF NoEnd, NoneAfter
  <2>2. NoneAfter(q, {"ok"}, Ends) => NoOkEndOk(r)
    BY <1>1, <1>5 DEF NoOkEndOk, NoneAfter
  <2> QED BY <2>1, <2>2 DEF AddsOk
<1> QED BY <1>6, <1>7, <1>8 DEF r

\* "ok" is added, or dropped when there is no room.
LEMMA PutKeeps ==
    ASSUME NEW q \in Seq(Item), NEW item \in Item
    PROVE  LET r == Put(q, item) IN
             /\ item.msg # "ok" => KeepsOk(q, r)
             /\ item.msg \notin Ends => KeepsEnd(q, r)
             /\ item.msg = "ok" => AddsOk(q, r)
<1>1. KeepsOk(q, q) /\ KeepsEnd(q, q)
  BY DEF KeepsOk, KeepsEnd
<1>2. AddsOk(q, q)
  <2>1. \A i, j \in DOMAIN q : i < j => i \in DOMAIN q /\ j \in DOMAIN q
    OBVIOUS
  <2> QED BY <2>1 DEF AddsOk, NoEnd, NoneAfter, NoOkEndOk
<1> QED BY <1>1, <1>2, PutCases, AppendKeeps

\* Without an "ok" there is nothing to come before or after it.
LEMMA QuietRing ==
    ASSUME NEW q, NoOk(q)
    PROVE  NoneAfter(q, Ends, {"ok"}) /\ NoneAfter(q, {"ok"}, Ends) /\ NoOkEndOk(q)
BY DEF NoOk, NoneAfter, NoOkEndOk

LEMMA Transitive ==
    ASSUME NEW q, NEW r, NEW s
    PROVE  /\ KeepsOk(q, r) /\ KeepsOk(r, s) => KeepsOk(q, s)
           /\ KeepsEnd(q, r) /\ KeepsEnd(r, s) => KeepsEnd(q, s)
BY DEF KeepsOk, KeepsEnd

\* The first response is taken off.
LEMMA TailKeeps ==
    ASSUME NEW q \in Seq(Item), q # <<>>
    PROVE  LET first == Head(q).msg  rest == Tail(q) IN
             /\ rest \in Seq(Item) /\ first \in Messages
             /\ NoOk(q) => NoOk(rest) /\ first # "ok"
             /\ NoEnd(q) => NoEnd(rest) /\ first \notin Ends
             /\ NoneAfter(q, Ends, {"ok"}) =>
                  NoneAfter(rest, Ends, {"ok"}) /\ (first \in Ends => NoOk(rest))
             /\ NoneAfter(q, {"ok"}, Ends) =>
                  NoneAfter(rest, {"ok"}, Ends) /\ (first = "ok" => NoEnd(rest))
             /\ NoOkEndOk(q) =>
                  NoOkEndOk(rest) /\ (first = "ok" => NoneAfter(rest, Ends, {"ok"}))
             /\ first # "ok" /\ NoOk(rest) => NoOk(q)
<1> DEFINE r == Tail(q)
           n == Len(q)
<1>1. /\ n \in Nat \ {0} /\ DOMAIN q = 1 .. n /\ DOMAIN r = 1 .. (n - 1)
      /\ \A i \in 1 .. (n - 1) : r[i] = q[i + 1]
      /\ r \in Seq(Item) /\ Head(q) = q[1] /\ q[1] \in Item
  OBVIOUS
<1> HIDE DEF r, n
<1>2. \A i \in DOMAIN r : i + 1 \in DOMAIN q /\ 1 < i + 1 /\ 1 \in DOMAIN q
  BY <1>1
<1>3. \A i, j \in DOMAIN r : i < j => i + 1 < j + 1
  BY <1>1
<1>4. NoOk(q) => NoOk(r) /\ q[1].msg # "ok"
  BY <1>1, <1>2 DEF NoOk
<1>5. NoEnd(q) => NoEnd(r) /\ q[1].msg \notin Ends
  BY <1>1, <1>2 DEF NoEnd
<1>6. NoneAfter(q, Ends, {"ok"}) =>
        NoneAfter(r, Ends, {"ok"}) /\ (q[1].msg \in Ends => NoOk(r))
  BY <1>1, <1>2, <1>3 DEF NoneAfter, NoOk
<1>7. NoneAfter(q, {"ok"}, Ends) =>
        NoneAfter(r, {"ok"}, Ends) /\ (q[1].msg = "ok" => NoEnd(r))
  BY <1>1, <1>2, <1>3 DEF NoneAfter, NoEnd
<1>8. NoOkEndOk(q) => NoOkEndOk(r)
  BY <1>1, <1>2, <1>3 DEF NoOkEndOk
<1>9. NoOkEndOk(q) /\ q[1].msg = "ok" => NoneAfter(r, Ends, {"ok"})
  BY <1>1, <1>2, <1>3 DEF NoOkEndOk, NoneAfter
<1>10. q[1].msg # "ok" /\ NoOk(r) => NoOk(q)
  <2>1. \A i \in DOMAIN q : i = 1 \/ (i - 1 \in DOMAIN r /\ r[i - 1] = q[i])
    BY <1>1
  <2> QED BY <2>1 DEF NoOk
<1>11. q[1].msg \in Messages
  BY <1>1 DEF Item
<1> QED BY <1>1, <1>4, <1>5, <1>6, <1>7, <1>8, <1>9, <1>10, <1>11 DEF r

-----------------------------------------------------------------------------
(* Types *)

MainTypes ==
    /\ pc \in {"boot", "clear", "reset", "welcome", "read", "execute", "homing"}
    /\ state \in {"IDLE", "JOG", "CYCLE", "ALARM", "HOMING"}
    /\ flags \subseteq {"RESET", "STATUS", "STOP"}
    /\ homing \in BOOLEAN /\ alarm \in BOOLEAN /\ moving \in BOOLEAN /\ waiting \in BOOLEAN

ClientTypes ==
    /\ wasLocked \in BOOLEAN /\ answered \in BOOLEAN /\ lost \in BOOLEAN
    /\ hostLine \in BOOLEAN
    /\ fetched \in Messages \cup {"nothing", "none"}
    /\ client \in {"start", "init", "ready", "locked", "jog", "waitidle", "alarm"}
    /\ asked \in Nat

RxTypes == rxRing \in Seq(Char) /\ Len(rxRing) <= RxSize
LineTypes == line \in Seq(Char)
ResponseTypes == lineRing \in Seq(Item)

InputTypes ==
    /\ host \in Nat /\ lines \in Nat /\ presses \in Nat
    /\ host + lines + presses <= MaxInputs

Types ==
    MainTypes /\ ClientTypes /\ RxTypes /\ LineTypes /\ ResponseTypes /\ InputTypes

LEMMA TypesAre == TypeOK <=> Types
BY DEF TypeOK, Types, MainTypes, ClientTypes, RxTypes, LineTypes, ResponseTypes,
       InputTypes, Item

USE DEF MainTypes, ClientTypes, RxTypes, LineTypes, ResponseTypes, InputTypes

LEMMA SeqFacts ==
    ASSUME NEW S, NEW q \in Seq(S), NEW x \in S
    PROVE  /\ Len(q) \in Nat
           /\ Append(q, x) \in Seq(S) /\ Len(Append(q, x)) = Len(q) + 1
           /\ q # <<>> => /\ Tail(q) \in Seq(S) /\ Head(q) \in S
                          /\ Len(Tail(q)) = Len(q) - 1 /\ Len(q) # 0
OBVIOUS

LEMMA Tuples ==
    ASSUME NEW a, NEW b, NEW c
    PROVE  /\ <<a>> # <<>> /\ Head(<<a>>) = a /\ Tail(<<a>>) = <<>>
           /\ <<a, b>> # <<>> /\ Head(<<a, b>>) = a /\ Tail(<<a, b>>) = <<b>>
           /\ <<a, b, c>> # <<>> /\ Head(<<a, b, c>>) = a /\ Tail(<<a, b, c>>) = <<b, c>>
           /\ Append(<<>>, a) = <<a>> /\ Len(<<a>>) = 1 /\ <<a>>[1] = a
           /\ DOMAIN <<a>> = {1} /\ Len(<<>>) = 0
OBVIOUS

LEMMA ResponseType ==
    ASSUME NEW msg \in Messages, NEW len \in 1 .. LineBuffer
    PROVE  Response(msg, len) \in Item /\ Response(msg, len).msg = msg
BY DEF Response, Item

LEMMA StatusType ==
    ASSUME NEW s \in {"IDLE", "JOG", "CYCLE", "ALARM", "HOMING"}
    PROVE  /\ StatusMessage[s] \in Messages /\ StatusMessage[s] # "ok"
           /\ s \notin {"IDLE", "ALARM"} => StatusMessage[s] \notin Ends
BY DEF StatusMessage, Messages, Ends

LEMMA FixedResponses ==
    /\ Ok \in Item /\ Ok.msg = "ok" /\ Ok.msg \notin Ends
    /\ Error \in Item /\ Error.msg \notin {"ok"} \cup Ends
    /\ \A r \in {Response("blank", 2), Response("Grbl", 26), Response("limits", 20),
                 Response("locked", 27), Response("ALARM", 9), Response("unlocked", 25)} :
         r \in Item /\ r.msg \notin {"ok"} \cup Ends
<1>1. {2, 4, 9, 20, 25, 26, 27} \subseteq 1 .. LineBuffer
  BY MachineClientAssumption
<1>2. {"blank", "ok", "error", "Grbl", "limits", "locked", "ALARM", "unlocked"} \subseteq Messages
  BY DEF Messages
<1>3. {"blank", "error", "Grbl", "limits", "locked", "ALARM", "unlocked"} \cap ({"ok"} \cup Ends) = {}
      /\ "ok" \notin Ends
  BY DEF Ends
<1> QED BY <1>1, <1>2, <1>3, ResponseType DEF Ok, Error

\* Responses that neither are "ok" nor end a jog.
Neutral(q, r) == r \in Seq(Item) /\ KeepsOk(q, r) /\ KeepsEnd(q, r)

LEMMA PutNeutral ==
    ASSUME NEW q \in Seq(Item), NEW item \in Item, item.msg \notin {"ok"} \cup Ends,
           NEW said \in BOOLEAN
    PROVE  Neutral(q, Put(q, item)) /\ Neutral(q, PutIf(said, q, item))
<1>1. Neutral(q, Put(q, item))
  BY PutType, PutKeeps DEF Neutral
<1>2. Neutral(q, q)
  BY DEF Neutral, KeepsOk, KeepsEnd
<1> QED BY <1>1, <1>2 DEF PutIf

LEMMA NeutralTwice ==
    ASSUME NEW q, NEW r, NEW s, Neutral(q, r), Neutral(r, s)
    PROVE  Neutral(q, s)
BY Transitive DEF Neutral

LEMMA WelcomeRing ==
    ASSUME Types, Welcome
    PROVE  Neutral(lineRing, lineRing')
<1> DEFINE a == Put(lineRing, Response("blank", 2))
           b == Greeted
<1>1. Neutral(lineRing, a)
  BY FixedResponses, PutNeutral DEF Types
<1>2. Neutral(a, b)
  BY <1>1, FixedResponses, PutNeutral DEF Neutral, Greeted
<1>3. Neutral(b, lineRing')
  <2>1. PICK onSwitch \in BOOLEAN :
          lineRing' = PutIf(onSwitch \/ state = "ALARM",
                            PutIf(onSwitch, b, Response("limits", 20)), Response("locked", 27))
    BY MachineClientAssumption DEF Welcome
  <2> DEFINE c == PutIf(onSwitch, b, Response("limits", 20))
  <2>2. b \in Seq(Item)
    BY <1>2 DEF Neutral
  <2>3. Neutral(b, c)
    BY <2>2, FixedResponses, PutNeutral
  <2>4. c \in Seq(Item)
    BY <2>3 DEF Neutral
  <2> DEFINE locks == onSwitch \/ state = "ALARM"
  <2>5. lineRing' = PutIf(locks, c, Response("locked", 27)) /\ locks \in BOOLEAN
    BY <2>1
  <2> HIDE DEF a, b, c, locks
  <2>6. Neutral(c, lineRing')
    BY <2>4, <2>5, FixedResponses, PutNeutral
  <2> QED BY <2>3, <2>6, NeutralTwice
<1> HIDE DEF a, b
<1> QED BY <1>1, <1>2, <1>3, NeutralTwice

\* A status report is no "ok", and ends a jog in IDLE and ALARM only.
LEMMA ExecRtRing ==
    ASSUME Types, NEW next, NEW cycleStart \in BOOLEAN, ExecRtSystem(next, cycleStart)
    PROVE  /\ lineRing' \in Seq(Item) /\ KeepsOk(lineRing, lineRing')
           /\ "RESET" \in flags \/ (~alarm /\ state \notin {"IDLE", "ALARM"}) =>
                KeepsEnd(lineRing, lineRing')
<1> DEFINE s == IF alarm THEN "ALARM" ELSE state
           said == PutIf(alarm, lineRing, Response("ALARM", 9))
<1>1. Neutral(lineRing, said)
  BY FixedResponses, PutNeutral DEF Types
<1>2. CASE "RESET" \in flags
  <2>1. lineRing' = said
    BY <1>2 DEF ExecRtSystem
  <2> QED BY <2>1, <1>1 DEF Neutral
<1>3. CASE "RESET" \notin flags
  <2>1. PICK len \in StatusLengths :
          lineRing' = PutIf("STATUS" \in flags, said, Response(StatusMessage[s], len))
    BY <1>3 DEF ExecRtSystem
  <2>2. s \in {"IDLE", "JOG", "CYCLE", "ALARM", "HOMING"} /\ len \in 1 .. LineBuffer
    BY MachineClientAssumption DEF Types
  <2> DEFINE item == Response(StatusMessage[s], len)
  <2>3. /\ item \in Item /\ item.msg # "ok"
        /\ s \notin {"IDLE", "ALARM"} => item.msg \notin Ends
    BY <2>2, StatusType, ResponseType
  <2>4. ~alarm => s = state
    OBVIOUS
  <2>5. said \in Seq(Item)
    BY <1>1 DEF Neutral
  <2> HIDE DEF said, s, item
  <2>6. lineRing' \in {said, Put(said, item)}
    BY <2>1 DEF PutIf, item
  <2>7. lineRing' \in Seq(Item)
    BY <2>3, <2>5, <2>6, PutType
  <2>8. KeepsOk(said, lineRing')
    BY <2>3, <2>5, <2>6, PutKeeps DEF KeepsOk
  <2>9. s \notin {"IDLE", "ALARM"} => KeepsEnd(said, lineRing')
    BY <2>3, <2>5, <2>6, PutKeeps DEF KeepsEnd
  <2> QED BY <1>1, <1>3, <2>4, <2>7, <2>8, <2>9, Transitive DEF Neutral
<1> QED BY <1>2, <1>3

LEMMA HomingRing ==
    ASSUME Types, HomingDone \/ HomingFails
    PROVE  lineRing' \in Seq(Item)
<1>2. \A len \in StatusLengths : Response("<HOME", len) \in Item
  BY MachineClientAssumption, ResponseType DEF Messages
<1>3. CASE HomingDone
  <2>1. PICK len \in StatusLengths :
          lineRing' = Put(PutIf("STATUS" \in flags, lineRing, Response("<HOME", len)), Ok)
    BY <1>3 DEF HomingDone
  <2>2. PutIf("STATUS" \in flags, lineRing, Response("<HOME", len)) \in Seq(Item)
    BY <1>2, PutType DEF PutIf, Types
  <2> QED BY <2>1, <2>2, FixedResponses, PutType
<1>4. CASE HomingFails
  <2>1. Put(lineRing, Response("ALARM", 9)) \in Seq(Item)
    BY FixedResponses, PutType DEF Types
  <2> QED BY <1>4, <2>1, FixedResponses, PutType DEF HomingFails
<1> QED BY <1>3, <1>4

LEMMA FetchRing ==
    ASSUME Types
    PROVE  /\ Taken \in Seq(Item) /\ Fetched \in Messages \cup {"nothing"}
           /\ Stuck(lineRing) => Taken = lineRing /\ Fetched = "nothing"
           /\ Fetched = "nothing" => Taken = lineRing
           /\ Fetched # "nothing" => /\ lineRing # <<>> /\ Fetched = Head(lineRing).msg
                              /\ Taken = Tail(lineRing)
<1>1. lineRing # <<>> => Head(lineRing).msg \in Messages /\ Tail(lineRing) \in Seq(Item)
  BY TailKeeps DEF Types
<1>2. "nothing" \notin Messages
  BY DEF Messages
<1> QED BY <1>1, <1>2 DEF Types, Taken, Fetched, Stuck

LEMMA Prefixes ==
    ASSUME NEW S, NEW a \in S, NEW b \in S, NEW c \in S, NEW k \in 0 .. 3
    PROVE  LET cut == SubSeq(<<a, b, c>>, 1, k) IN
             cut \in Seq(S) /\ Len(cut) = k /\ cut \in {<<>>, <<a>>, <<a, b>>, <<a, b, c>>}
<1> DEFINE q == <<a, b, c>>
           cut == SubSeq(q, 1, k)
<1>1. q[1] = a /\ q[2] = b /\ q[3] = c
  OBVIOUS
<1>2. \A i \in 1 .. k : q[i] \in S
  BY <1>1
<1> HIDE DEF q
<1>3. /\ cut \in Seq(S) /\ Len(cut) = k
      /\ \A i \in 1 .. k : cut[i] = q[i]
  BY <1>2, SubSeqProperties
<1> HIDE DEF cut
<1>4. CASE k = 0
  <2>1. cut = <<>>
    BY <1>3, <1>4, EmptySeq
  <2> QED BY <1>3, <2>1 DEF cut, q
<1>5. CASE k = 1
  <2>1. <<a>> \in Seq(S) /\ Len(<<a>>) = 1 /\ <<a>>[1] = a
    OBVIOUS
  <2>2. cut = <<a>>
    BY <1>1, <1>3, <1>5, <2>1, SeqEqual
  <2> QED BY <1>3, <2>2 DEF cut, q
<1>6. CASE k = 2
  <2>1. <<a, b>> \in Seq(S) /\ Len(<<a, b>>) = 2 /\ <<a, b>>[1] = a /\ <<a, b>>[2] = b
    OBVIOUS
  <2>2. cut = <<a, b>>
    BY <1>1, <1>3, <1>6, <2>1, SeqEqual
  <2> QED BY <1>3, <2>2 DEF cut, q
<1>7. CASE k = 3
  <2>1. q \in Seq(S) /\ Len(q) = 3
    BY DEF q
  <2>2. cut = q
    BY <1>3, <1>7, <2>1, SeqEqual
  <2> QED BY <1>3, <2>2 DEF cut, q
<1> QED BY <1>4, <1>5, <1>6, <1>7

LEMMA CharType ==
    ASSUME NEW n \in Nat, NEW text \in Texts
    PROVE  [text |-> text, of |-> n] \in Char /\ EndOfLine(n) \in Char
BY DEF Char, EndOfLine

\* What an entry of executeLine() leaves in the receive ring.
LEMMA ClientLine ==
    ASSUME Types, NEW text \in Texts, ExecuteClientLine(text)
    PROVE  /\ asked' = asked + 1 /\ answered' = FALSE /\ lost' \in BOOLEAN
           /\ wasLocked' \in BOOLEAN
           /\ wasLocked' <=> wasLocked \/ text = "$X"
           /\ rxRing' \in Seq(Char) /\ Len(rxRing') <= RxSize
           /\ LET c == [text |-> text, of |-> asked']  e == EndOfLine(asked') IN
                rxRing = <<>> => rxRing' \in {<<>>, <<c>>, <<c, e>>, <<c, e, e>>}
           /\ pc = "boot" => rxRing' = rxRing
<1> DEFINE c == [text |-> text, of |-> asked + 1]
           e == EndOfLine(asked + 1)
           room == RxSize - Len(rxRing)
           k == IF room < 3 THEN room ELSE 3
           cut == SubSeq(<<c, e, e>>, 1, k)
<1>1. asked' = asked + 1 /\ answered' = FALSE /\ lost' \in BOOLEAN
  BY DEF ExecuteClientLine
<1>2. wasLocked' \in BOOLEAN /\ (wasLocked' <=> wasLocked \/ text = "$X")
  BY DEF ExecuteClientLine, Types
<1>3. c \in Char /\ e \in Char
  <2>1. asked \in Nat
    BY DEF Types
  <2>2. asked + 1 \in Nat
    BY <2>1
  <2> QED BY <2>2, CharType
<1>4. rxRing \in Seq(Char) /\ Len(rxRing) <= RxSize
  BY DEF Types
<1>5. Len(rxRing) \in Nat
  BY <1>4
<1>6. k \in 0 .. 3 /\ Len(rxRing) + k <= RxSize
  BY <1>4, <1>5, MachineClientAssumption
<1>7. rxRing' = (IF Initialized THEN rxRing \o cut ELSE rxRing)
  BY DEF ExecuteClientLine
<1> HIDE DEF c, e, k
<1>8. cut \in Seq(Char) /\ Len(cut) = k /\ cut \in {<<>>, <<c>>, <<c, e>>, <<c, e, e>>}
  BY <1>3, <1>6, Prefixes
<1> HIDE DEF cut
<1>9. rxRing' \in Seq(Char) /\ Len(rxRing') <= RxSize
  BY <1>4, <1>6, <1>7, <1>8, ConcatProperties
<1>10. rxRing = <<>> => rxRing' \in {<<>>, <<c>>, <<c, e>>, <<c, e, e>>}
  BY <1>7, <1>8, ConcatEmptySeq
<1> QED BY <1>1, <1>2, <1>7, <1>9, <1>10 DEF c, e, Initialized

LEMMA ReceiveType ==
    ASSUME Types, NEW char \in Char, Receive(char)
    PROVE  rxRing' \in Seq(Char) /\ Len(rxRing') <= RxSize
<1>1. rxRing \in Seq(Char) /\ Len(rxRing) <= RxSize
  BY DEF Types
<1>2. /\ Len(rxRing) \in Nat /\ Append(rxRing, char) \in Seq(Char)
      /\ Len(Append(rxRing, char)) = Len(rxRing) + 1
  BY <1>1, SeqFacts
<1>3. rxRing' \in {rxRing, Append(rxRing, char)} /\ (Len(rxRing) < RxSize \/ rxRing' = rxRing)
  BY DEF Receive
<1> QED BY <1>1, <1>2, <1>3, MachineClientAssumption

LEMMA RxTail ==
    ASSUME Types, rxRing # <<>>
    PROVE  /\ Tail(rxRing) \in Seq(Char) /\ Len(Tail(rxRing)) <= RxSize
           /\ Head(rxRing) \in Char
<1>1. rxRing \in Seq(Char) /\ Len(rxRing) <= RxSize
  BY DEF Types
<1>2. EndOfLine(0) \in Char
  BY DEF EndOfLine, Char
<1>3. /\ Len(rxRing) \in Nat /\ Len(Tail(rxRing)) = Len(rxRing) - 1
      /\ Tail(rxRing) \in Seq(Char) /\ Head(rxRing) \in Char
  BY <1>1, <1>2, SeqFacts
<1> QED BY <1>1, <1>3, MachineClientAssumption

HIDE DEF MainTypes, ClientTypes, RxTypes, LineTypes, ResponseTypes, InputTypes
USE DEF mainVars, clientVars, environment

LEMMA TypesKept ==
    ASSUME Types
    PROVE  /\ UNCHANGED <<pc, state, homing, flags, alarm, moving, waiting>> => MainTypes'
           /\ UNCHANGED <<clientVars, answered, lost, hostLine>> => ClientTypes'
           /\ UNCHANGED rxRing => RxTypes'
           /\ UNCHANGED line => LineTypes'
           /\ UNCHANGED lineRing => ResponseTypes'
           /\ UNCHANGED <<host, lines, presses>> => InputTypes'
<1>1. UNCHANGED <<host, lines, presses>> => InputTypes'
  BY DEF Types, InputTypes
<1>2. UNCHANGED <<pc, state, homing, flags, alarm, moving, waiting>> => MainTypes'
  BY DEF Types, MainTypes
<1>3. UNCHANGED <<clientVars, answered, lost, hostLine>> => ClientTypes'
  BY DEF Types, ClientTypes
<1>4. /\ UNCHANGED rxRing => RxTypes'
      /\ UNCHANGED line => LineTypes'
      /\ UNCHANGED lineRing => ResponseTypes'
  BY DEF Types, RxTypes, LineTypes, ResponseTypes
<1> QED BY <1>1, <1>2, <1>3, <1>4

LEMMA OneMore ==
    ASSUME NEW a \in Nat, NEW b \in Nat, NEW c \in Nat, NEW n \in Nat, a + b + c < n
    PROVE  a + 1 + b + c <= n /\ a + (b + 1) + c <= n /\ a + b + (c + 1) <= n
OBVIOUS

LEMMA InputCounted ==
    ASSUME Types, Input,
           \/ host' = host + 1 /\ lines' = lines /\ presses' = presses
           \/ host' = host /\ lines' = lines + 1 /\ presses' = presses
           \/ host' = host /\ lines' = lines /\ presses' = presses + 1
    PROVE  InputTypes'
<1>1. host \in Nat /\ lines \in Nat /\ presses \in Nat /\ MaxInputs \in Nat
  BY MachineClientAssumption DEF Types, InputTypes
<1>2. /\ host + 1 + lines + presses <= MaxInputs /\ host + (lines + 1) + presses <= MaxInputs
      /\ host + lines + (presses + 1) <= MaxInputs
  BY <1>1, OneMore DEF Input
<1>3. CASE host' = host + 1 /\ lines' = lines /\ presses' = presses
  BY <1>1, <1>2, <1>3 DEF InputTypes
<1>4. CASE host' = host /\ lines' = lines + 1 /\ presses' = presses
  BY <1>1, <1>2, <1>4 DEF InputTypes
<1>5. CASE host' = host /\ lines' = lines /\ presses' = presses + 1
  BY <1>1, <1>2, <1>5 DEF InputTypes
<1> QED BY <1>3, <1>4, <1>5

LEMMA TypesMain ==
    ASSUME Types, Main
    PROVE  Types'
<1>1. CASE SerialInit
  <2>1. MainTypes'
    BY <1>1 DEF SerialInit, Types, MainTypes
  <2> QED BY <1>1, <2>1, TypesKept DEF SerialInit, Types
<1>2. CASE ClearFlags
  <2>1. MainTypes'
    BY <1>2 DEF ClearFlags, Types, MainTypes
  <2> QED BY <1>2, <2>1, TypesKept DEF ClearFlags, Types
<1>3. CASE ResetSystems
  <2>1. RxTypes' /\ LineTypes'
    <3>1. Len(<<>>) <= RxSize /\ <<>> \in Seq(Char)
      BY MachineClientAssumption
    <3> QED BY <1>3, <3>1 DEF ResetSystems, RxTypes, LineTypes
  <2>2. ClientTypes'
    BY <1>3 DEF ResetSystems, Types, ClientTypes, Awaited
  <2>3. MainTypes'
    BY <1>3 DEF ResetSystems, Types, MainTypes
  <2> QED BY <1>3, <2>1, <2>2, <2>3, TypesKept DEF ResetSystems, Types
<1>4. CASE Welcome
  <2>1. ResponseTypes'
    BY <1>4, WelcomeRing DEF Neutral, ResponseTypes
  <2>2. MainTypes'
    BY <1>4 DEF Welcome, Types, MainTypes
  <2>3. InputTypes'
    BY <1>4, InputCounted, TypesKept DEF Welcome
  <2>4. ClientTypes'
    BY <1>4 DEF Welcome, Types, ClientTypes
  <2> QED BY <1>4, <2>1, <2>2, <2>3, <2>4, TypesKept DEF Welcome, Types
<1>5. CASE ReadText
  <2>1. RxTypes' /\ Head(rxRing) \in Char
    BY <1>5, RxTail DEF ReadText, RxTypes
  <2>2. LineTypes'
    BY <1>5, <2>1, SeqFacts DEF ReadText, Types, LineTypes
  <2> QED BY <1>5, <2>1, <2>2, TypesKept DEF ReadText, Types
<1>6. ASSUME NEW next \in {"execute", "read"}, NEW cycleStart \in BOOLEAN,
             ExecRtSystem(next, cycleStart)
      PROVE  MainTypes' /\ ClientTypes' /\ LineTypes' /\ ResponseTypes' /\ InputTypes'
  <2>1. ResponseTypes'
    BY <1>6, ExecRtRing DEF ResponseTypes
  <2>2. UNCHANGED <<line, clientVars, answered, lost, environment>>
    BY <1>6 DEF ExecRtSystem
  <2>3. MainTypes'
    <3>1. CASE "RESET" \in flags
      BY <1>6, <3>1 DEF ExecRtSystem, Types, MainTypes
    <3>2. CASE "RESET" \notin flags
      BY <1>6, <3>2 DEF ExecRtSystem, Types, MainTypes
    <3> QED BY <3>1, <3>2
  <2> QED BY <2>1, <2>2, <2>3, TypesKept
<1>7. CASE ReadEol
  <2>1. RxTypes' /\ ExecRtSystem("execute", FALSE)
    BY <1>7, RxTail DEF ReadEol, RxTypes
  <2> QED BY <1>6, <2>1 DEF Types
<1>8. CASE NothingToRead
  <2>1. rxRing' = rxRing /\ ExecRtSystem("read", waiting) /\ waiting \in BOOLEAN
    BY <1>8 DEF NothingToRead, Types, MainTypes
  <2> QED BY <1>6, <2>1, TypesKept DEF Types
<1>9. ASSUME NEW ring \in Seq(Item), Executed(ring)
      PROVE  ClientTypes' /\ RxTypes' /\ LineTypes' /\ ResponseTypes' /\ InputTypes'
  <2>1. ClientTypes'
    BY <1>9 DEF Executed, Answers, Awaited, Types, ClientTypes
  <2>2. LineTypes' /\ ResponseTypes'
    <3>1. <<>> \in Seq(Char)
      OBVIOUS
    <3> QED BY <1>9, <3>1 DEF Executed, LineTypes, ResponseTypes
  <2> QED BY <1>9, <2>1, <2>2, TypesKept DEF Executed
<1>10. CASE ExecuteLine
  <2>1. /\ Put(lineRing, Ok) \in Seq(Item) /\ Put(lineRing, Error) \in Seq(Item)
        /\ Put(PutIf(state = "ALARM", lineRing, Response("unlocked", 25)), Ok) \in Seq(Item)
    BY PutType, PutNeutral, FixedResponses DEF Types, ResponseTypes, Neutral
  <2>2. CASE HomingLine
    <3>1. MainTypes'
      BY <2>2 DEF HomingLine, Types, MainTypes
    <3> QED BY <2>2, <3>1, TypesKept DEF HomingLine, Types
  <2>3. CASE ~HomingLine
    <3>1. \E ring \in Seq(Item) : Executed(ring)
      BY <1>10, <2>1, <2>3
      DEF ExecuteLine, EmptyLine, BadLine, GcodeLine, UnlockLine, JogLine, JogRefused
    <3>2. MainTypes'
      BY <1>10, <2>3 DEF ExecuteLine, EmptyLine, BadLine, GcodeLine, UnlockLine, JogLine,
                         JogRefused, Executed, Types, MainTypes
    <3> QED BY <1>9, <3>1, <3>2 DEF Types
  <2> QED BY <2>2, <2>3
<1>11. CASE HomingDone \/ HomingFails
  <2>1. MainTypes'
    BY <1>11 DEF HomingDone, HomingFails, Types, MainTypes
  <2>2. LineTypes'
    <3>1. <<>> \in Seq(Char)
      OBVIOUS
    <3> QED BY <1>11, <3>1 DEF HomingDone, HomingFails, LineTypes
  <2>3. ResponseTypes'
    BY <1>11, HomingRing DEF ResponseTypes
  <2> QED BY <1>11, <2>1, <2>2, <2>3, TypesKept DEF HomingDone, HomingFails, Types
<1> QED BY <1>1, <1>2, <1>3, <1>4, <1>5, <1>7, <1>8, <1>10, <1>11 DEF Main

LEMMA TypesOthers ==
    ASSUME Types, StepperDone \/ Fetch \/ HostCommand \/ HostText \/ HostEol
    PROVE  Types'
<1>1. CASE StepperDone
  <2>1. MainTypes'
    BY <1>1 DEF StepperDone, Types, MainTypes
  <2> QED BY <1>1, <2>1, TypesKept DEF StepperDone, Types
<1>2. CASE Fetch
  <2>1. ResponseTypes'
    BY <1>2, FetchRing DEF Fetch, ResponseTypes
  <2>2. ClientTypes'
    BY <1>2, FetchRing DEF Fetch, Types, ClientTypes
  <2> QED BY <1>2, <2>1, <2>2, TypesKept DEF Fetch, Types
<1>3. CASE HostCommand
  <2>1. MainTypes'
    BY <1>3 DEF HostCommand, McReset, RaiseStatus, Types, MainTypes
  <2>2. InputTypes'
    BY <1>3, InputCounted DEF HostCommand
  <2> QED BY <1>3, <2>1, <2>2, TypesKept DEF HostCommand, Types
<1>4. CASE HostText
  <2>1. PICK t \in {"$X", "$H", "G"} : Receive([text |-> t, of |-> 0])
    BY <1>4 DEF HostText
  <2>2. [text |-> t, of |-> 0] \in Char
    BY CharType DEF Texts
  <2>3. RxTypes'
    BY <2>1, <2>2, ReceiveType DEF RxTypes
  <2>4. InputTypes'
    BY <1>4, InputCounted DEF HostText
  <2>5. ClientTypes'
    BY <1>4 DEF HostText, Types, ClientTypes
  <2> QED BY <1>4, <2>3, <2>4, <2>5, TypesKept DEF HostText, Types
<1>5. CASE HostEol
  <2>1. EndOfLine(0) \in Char
    BY DEF EndOfLine, Char
  <2>2. RxTypes'
    BY <1>5, <2>1, ReceiveType DEF HostEol, RxTypes
  <2>3. ClientTypes'
    BY <1>5 DEF HostEol, Types, ClientTypes
  <2> QED BY <1>5, <2>2, <2>3, TypesKept DEF HostEol, Types
<1> QED BY <1>1, <1>2, <1>3, <1>4, <1>5

\* What an entry action changes, a line or none, a flag or none.
LEMMA EntryTypes ==
    ASSUME Types, NEW text \in Texts, NoLine \/ ExecuteClientLine(text),
           McReset \/ RaiseStatus \/ NoCommand, UNCHANGED <<pc, state, homing, waiting>>,
           client' \in {"start", "init", "ready", "locked", "jog", "waitidle", "alarm"},
           fetched' \in Messages \cup {"nothing", "none"}, UNCHANGED hostLine
    PROVE  MainTypes' /\ ClientTypes' /\ RxTypes'
<1>1. MainTypes'
  BY DEF McReset, RaiseStatus, NoCommand, Types, MainTypes
<1>2. CASE NoLine
  <2>1. ClientTypes'
    BY <1>2 DEF NoLine, Types, ClientTypes
  <2> QED BY <1>1, <1>2, <2>1, TypesKept DEF NoLine
<1>3. CASE ExecuteClientLine(text)
  <2>1. asked' \in Nat
    <3>1. asked' = asked + 1
      BY <1>3, ClientLine
    <3>2. asked \in Nat
      BY DEF Types, ClientTypes
    <3> QED BY <3>1, <3>2
  <2>2. ClientTypes'
    BY <1>3, <2>1, ClientLine DEF Types, ClientTypes
  <2> QED BY <1>1, <1>3, <2>2, ClientLine DEF RxTypes
<1> QED BY <1>2, <1>3

LEMMA TypesClient ==
    ASSUME Types, Respond \/ PressJog
    PROVE  Types'
<1>1. "$X" \in Texts /\ "$J" \in Texts
  BY DEF Texts
<1>2. CASE Respond
  <2>1. client' \in {"start", "init", "ready", "locked", "jog", "waitidle", "alarm"}
    BY <1>2 DEF Respond, Target, Types, ClientTypes
  <2>2. /\ NoLine \/ ExecuteClientLine("$X")
        /\ McReset \/ RaiseStatus \/ NoCommand
    BY <1>2 DEF Respond, EntryInit, EntryLocked, EntryWaitIdle
  <2>3. UNCHANGED <<pc, state, homing, waiting, line, lineRing, environment>> /\ fetched' = "none"
    BY <1>2 DEF Respond
  <2>4. MainTypes' /\ ClientTypes' /\ RxTypes'
    BY <1>1, <2>1, <2>2, <2>3, EntryTypes
  <2> QED BY <2>3, <2>4, TypesKept DEF Types
<1>3. CASE PressJog
  <2>1. client' \in {"jog", "waitidle"}
    BY <1>3 DEF PressJog
  <2>2. /\ NoLine \/ ExecuteClientLine("$J")
        /\ McReset \/ RaiseStatus \/ NoCommand
    BY <1>3 DEF PressJog, EntryJog, EntryWaitIdle
  <2>3. /\ UNCHANGED <<pc, state, homing, waiting, line, lineRing, fetched, hostLine, host, lines>>
        /\ presses' = presses + 1 /\ Input
    BY <1>3 DEF PressJog
  <2>4. fetched' \in Messages \cup {"nothing", "none"}
    BY <2>3 DEF Types, ClientTypes
  <2>5. MainTypes' /\ ClientTypes' /\ RxTypes'
    BY <1>1, <2>1, <2>2, <2>3, <2>4, EntryTypes
  <2>6. InputTypes'
    BY <2>3, InputCounted
  <2> QED BY <2>3, <2>5, <2>6, TypesKept DEF Types
<1> QED BY <1>2, <1>3

LEMMA TypesNext ==
    ASSUME Types, [Next]_vars
    PROVE  Types'
<1>1. CASE Next
  BY <1>1, TypesMain, TypesOthers, TypesClient DEF Next
<1>2. CASE UNCHANGED vars
  BY <1>2, TypesKept DEF vars, Types
<1> QED BY <1>1, <1>2

LEMMA TypesInit ==
    ASSUME Init
    PROVE  Types
<1>1. Len(<<>>) <= RxSize /\ <<>> \in Seq(Char) /\ <<>> \in Seq(Item)
  BY MachineClientAssumption
<1>2. RxTypes /\ LineTypes /\ ResponseTypes
  BY <1>1 DEF Init, RxTypes, LineTypes, ResponseTypes
<1>3. MainTypes
  BY MachineClientAssumption DEF Init, MainTypes
<1>4. ClientTypes
  BY DEF Init, ClientTypes
<1>5. InputTypes
  BY MachineClientAssumption DEF Init, InputTypes
<1> QED BY <1>2, <1>3, <1>4, <1>5 DEF Types

\* TypeOK: the receive ring is never overrun, by the host's characters or the
\* client's lines (serial_buffer_appendln_impl(), the UART interrupt).
THEOREM TypeCorrect == Spec => []TypeOK
<1>1. Init => Types
  BY TypesInit
<1>2. Types /\ [Next]_vars => Types'
  BY TypesNext
<1>3. Types => TypeOK
  BY TypesAre
<1> QED BY <1>1, <1>2, <1>3, PTL DEF Spec

-----------------------------------------------------------------------------
(* The answer to a jog *)

IInv == Types /\ InputInv /\ AnswerInv

LEMMA InputInvNext ==
    ASSUME Types, InputInv, [Next]_vars
    PROVE  InputInv'
<1>1. CASE Main
  <2>1. CASE SerialInit \/ ClearFlags \/ ResetSystems \/ Welcome
    BY <2>1 DEF SerialInit, ClearFlags, ResetSystems, Welcome, InputInv
  <2>2. CASE ReadText \/ ReadEol \/ NothingToRead
    BY <2>2 DEF ReadText, ReadEol, NothingToRead, ExecRtSystem, InputInv
  <2>3. CASE ExecuteLine
    BY <2>3 DEF ExecuteLine, EmptyLine, BadLine, GcodeLine, UnlockLine, JogLine, JogRefused,
                HomingLine, Executed, InputInv
  <2>4. CASE HomingDone \/ HomingFails
    BY <2>4 DEF HomingDone, HomingFails, InputInv
  <2> QED BY <1>1, <2>1, <2>2, <2>3, <2>4 DEF Main
<1>2. CASE StepperDone \/ Fetch \/ HostCommand
  BY <1>2 DEF StepperDone, Fetch, HostCommand, McReset, RaiseStatus, InputInv
<1>3. CASE HostText
  <2>1. /\ lines' = lines + 1 /\ lines \in Nat /\ pc # "boot"
        /\ UNCHANGED <<pc, flags, alarm>>
    BY <1>3 DEF HostText, Initialized, Types, InputTypes
  <2>2. lines' # 0
    BY <2>1
  <2> QED BY <2>1, <2>2 DEF InputInv
<1>4. CASE HostEol
  BY <1>4 DEF HostEol, InputInv
<1>5. McReset \/ RaiseStatus \/ NoCommand => (alarm' => "RESET" \in flags')
  BY DEF McReset, RaiseStatus, NoCommand, InputInv
<1>6. CASE Respond
  <2>1. UNCHANGED <<pc, line, hostLine, lines>>
    BY <1>6 DEF Respond
  <2>2. (McReset \/ RaiseStatus \/ NoCommand) /\ (NoLine \/ ExecuteClientLine("$X"))
    BY <1>6 DEF Respond, EntryInit, EntryLocked, EntryWaitIdle
  <2>3. pc = "boot" => rxRing' = rxRing
    BY <2>2, ClientLine DEF NoLine, Texts
  <2> QED BY <1>5, <2>1, <2>2, <2>3 DEF InputInv
<1>7. CASE PressJog
  <2>1. UNCHANGED <<pc, line, hostLine, lines>>
    BY <1>7 DEF PressJog
  <2>2. (McReset \/ RaiseStatus \/ NoCommand) /\ (NoLine \/ ExecuteClientLine("$J"))
    BY <1>7 DEF PressJog, EntryJog, EntryWaitIdle
  <2>3. pc = "boot" => rxRing' = rxRing
    BY <2>2, ClientLine DEF NoLine, Texts
  <2> QED BY <1>5, <2>1, <2>2, <2>3 DEF InputInv
<1>8. CASE UNCHANGED vars
  BY <1>8 DEF vars, InputInv
<1> QED BY <1>1, <1>2, <1>3, <1>4, <1>6, <1>7, <1>8 DEF Next

\* Steps that touch neither rings nor client.
LEMMA AnswerKept ==
    ASSUME AnswerInv, UNCHANGED <<clientVars, answered, lines, line, rxRing, lineRing, state>>,
           pc' = pc \/ pc' \in {"clear", "reset"}
    PROVE  AnswerInv'
BY DEF AnswerInv, NotJogging, Unanswered, Quiet, Live, Pending, LineOnItsWay, LineExecuted,
       Answered, Waiting, Jog, End

LEMMA AnswerWiped ==
    ASSUME IInv, ResetSystems
    PROVE  AnswerInv'
BY DEF IInv, ResetSystems, AnswerInv, NotJogging, Unanswered, Quiet, Live, Pending,
       LineOnItsWay, LineExecuted, Answered, Waiting, Jog, End

LEMMA AnswerWelcome ==
    ASSUME IInv, Welcome
    PROVE  AnswerInv'
<1>1. Neutral(lineRing, lineRing')
  BY WelcomeRing DEF IInv
<1> QED BY <1>1 DEF IInv, Welcome, AnswerInv, NotJogging, Unanswered, Quiet, Live, Pending,
       LineOnItsWay, LineExecuted, Answered, Waiting, Jog, End, Neutral, KeepsOk, KeepsEnd

LEMMA Chars ==
    /\ Jog.text = "$J" /\ Jog.of = asked /\ End.text = "EOL"
    /\ Jog # End
BY DEF Jog, End, EndOfLine

\* $J of the client is read; under the invariant there is nothing else to read.
LEMMA AnswerReadText ==
    ASSUME IInv, ReadText
    PROVE  AnswerInv'
<1> SUFFICES ASSUME ~wasLocked', lines' = 0
             PROVE  AnswerInv'
  BY DEF AnswerInv
<1>1. /\ UNCHANGED <<clientVars, answered, lines, lineRing, state, pc>>
      /\ pc = "read" /\ rxRing # <<>> /\ Head(rxRing).text # "EOL"
      /\ rxRing' = Tail(rxRing) /\ line' = Append(line, Head(rxRing))
  BY DEF ReadText
<1>2. Jog' = Jog /\ End' = End
  BY <1>1 DEF Jog, End
<1>3. ~LineExecuted
  BY <1>1, Tuples, Chars DEF LineExecuted
<1>4. Unanswered /\ LineOnItsWay
  BY <1>1, <1>3 DEF IInv, AnswerInv, NotJogging, Unanswered, Live, Answered, Waiting, Types, ClientTypes
<1>5. line = <<>> /\ rxRing \in {<<Jog>>, <<Jog, End>>, <<Jog, End, End>>}
  BY <1>1, <1>4, Tuples, Chars DEF LineOnItsWay
<1>6. line' = <<Jog>> /\ rxRing' \in {<<>>, <<End>>, <<End, End>>}
  <2>1. Head(rxRing) = Jog
    BY <1>5, Tuples
  <2>2. line' = <<Jog>>
    BY <1>1, <1>5, <2>1, Tuples
  <2>3. rxRing' \in {<<>>, <<End>>, <<End, End>>}
    <3>1. CASE rxRing = <<Jog>>
      BY <1>1, <3>1, Tuples
    <3>2. CASE rxRing = <<Jog, End>>
      BY <1>1, <3>2, Tuples
    <3>3. CASE rxRing = <<Jog, End, End>>
      BY <1>1, <3>3, Tuples
    <3> QED BY <1>5, <3>1, <3>2, <3>3
  <2> QED BY <2>2, <2>3
<1>7. LineOnItsWay'
  BY <1>1, <1>2, <1>6 DEF LineOnItsWay
<1> QED BY <1>1, <1>4, <1>7 DEF IInv, AnswerInv, NotJogging, Unanswered, Quiet

\* The flags are served, and nothing is read.
LEMMA AnswerPoll ==
    ASSUME IInv, NothingToRead
    PROVE  AnswerInv'
<1>1. KeepsOk(lineRing, lineRing')
  BY ExecRtRing DEF IInv, NothingToRead, Types, MainTypes
<1>2. /\ UNCHANGED <<clientVars, answered, lines, line, rxRing>> /\ rxRing = <<>>
      /\ pc = "read" /\ pc' \in {"read", "clear"}
  BY DEF NothingToRead, ExecRtSystem
<1> QED BY <1>1, <1>2 DEF IInv, AnswerInv, NotJogging, Unanswered, Quiet, Live, Pending,
       LineOnItsWay, LineExecuted, Answered, Waiting, Jog, End, KeepsOk

\* The flags are served at an end of line.  If it is the second one of a jog
\* whose "ok" is on its way, the machine is in JOG, and no status report ends
\* the jog.
LEMMA AnswerReadEol ==
    ASSUME IInv, ReadEol
    PROVE  AnswerInv'
<1> SUFFICES ASSUME ~wasLocked', lines' = 0
             PROVE  AnswerInv'
  BY DEF AnswerInv
<1>1. /\ KeepsOk(lineRing, lineRing')
      /\ "RESET" \in flags \/ (~alarm /\ state \notin {"IDLE", "ALARM"}) =>
           KeepsEnd(lineRing, lineRing')
  BY ExecRtRing DEF IInv, ReadEol
<1>2. /\ UNCHANGED <<clientVars, answered, lines, line>>
      /\ pc = "read" /\ rxRing # <<>> /\ Head(rxRing).text = "EOL"
      /\ rxRing' = Tail(rxRing)
      /\ pc' = IF "RESET" \in flags THEN "clear" ELSE "execute"
  BY DEF ReadEol, ExecRtSystem
<1>3. Jog' = Jog /\ End' = End
  BY <1>2 DEF Jog, End
<1>4. alarm => "RESET" \in flags
  BY DEF IInv, InputInv
<1>5. Live /\ Pending
  BY <1>2 DEF Live, Pending
<1>6. CASE Unanswered
  <2>1. Quiet' /\ Unanswered' /\ asked' > 0
    BY <1>1, <1>2, <1>6 DEF IInv, AnswerInv, Unanswered, Quiet, KeepsOk
  <2>2. LineOnItsWay
    BY <1>2, <1>5, <1>6 DEF IInv, AnswerInv
  <2>3. line = <<Jog>> /\ rxRing \in {<<End>>, <<End, End>>}
    BY <1>2, <2>2, Tuples, Chars DEF LineOnItsWay
  <2>4. rxRing' \in {<<>>, <<End>>}
    BY <1>2, <2>3, Tuples
  <2>5. Live' => LineOnItsWay'
    BY <1>2, <1>3, <2>3, <2>4 DEF LineOnItsWay, Live
  <2> QED BY <1>2, <2>1, <2>5 DEF AnswerInv, NotJogging, Unanswered
<1>7. ASSUME LineExecuted
      PROVE  Live' => LineExecuted' /\ Pending'
  <2>1. line = <<>> /\ rxRing = <<End>>
    BY <1>2, <1>7, Tuples DEF LineExecuted
  <2>2. rxRing' = <<>>
    BY <1>2, <2>1, Tuples
  <2> QED BY <1>2, <2>1, <2>2 DEF LineExecuted, Live, Pending
<1>8. CASE client = "jog" /\ answered
  <2>1. Answered
    BY <1>2, <1>8 DEF IInv, AnswerInv
  <2>2. LineExecuted
    BY <1>5, <2>1 DEF Answered
  <2>3. Stuck(lineRing) \/ NoOk(lineRing) \/ KeepsEnd(lineRing, lineRing') \/ ~Live'
    BY <1>1, <1>2, <1>4, <1>5, <2>1 DEF Answered, Live, Quiet
  <2>4. fetched = "ok" => KeepsEnd(lineRing, lineRing') \/ ~Live'
    BY <1>1, <1>2, <1>4, <1>5, <2>1 DEF Answered, Live, Quiet
  <2>5. NoOk(lineRing) => NoneAfter(lineRing', {"ok"}, Ends)
    BY <1>1, QuietRing DEF KeepsOk
  <2>6. Stuck(lineRing)' \/ (NoOkEndOk(lineRing')
                 /\ (fetched' = "ok" => NoneAfter(lineRing', Ends, {"ok"})))
    BY <1>1, <1>2, <2>1 DEF Answered, KeepsOk
  <2>7. Pending' => Stuck(lineRing)' \/ (NoneAfter(lineRing', {"ok"}, Ends)
                                        /\ (fetched' = "ok" => NoEnd(lineRing')))
    BY <1>1, <1>2, <1>5, <2>1, <2>3, <2>4, <2>5 DEF Answered, KeepsOk, KeepsEnd, Pending
  <2>8. Pending' => pc' = "execute"
    BY <1>2 DEF Pending, Live
  <2>9. Answered'
    BY <1>7, <2>2, <2>6, <2>7, <2>8 DEF Answered
  <2> QED BY <1>2, <1>8, <2>9 DEF AnswerInv, NotJogging, Unanswered
<1>9. CASE client = "waitidle"
  <2>1. Waiting
    BY <1>2, <1>9 DEF IInv, AnswerInv
  <2>2. LineExecuted /\ state = "JOG"
    BY <1>2, <1>5, <2>1 DEF Waiting
  <2>3. KeepsEnd(lineRing, lineRing')
    BY <1>1, <1>4, <2>2
  <2>4. Waiting'
    BY <1>1, <1>2, <1>5, <1>7, <2>1, <2>2, <2>3 DEF Waiting, KeepsOk, KeepsEnd, Pending, Live
  <2> QED BY <1>2, <1>9, <2>4 DEF AnswerInv, NotJogging, Unanswered
<1>10. ~NotJogging /\ client # "locked"
  BY <1>2, <1>5 DEF IInv, AnswerInv
<1> QED BY <1>6, <1>8, <1>9, <1>10 DEF IInv, Types, ClientTypes, NotJogging, Unanswered

\* A line is executed.  The client's jog starts the motion, or is refused; the
\* second end of its line is answered while no end of the jog has been reported.
LEMMA AnswerExecute ==
    ASSUME IInv, ExecuteLine
    PROVE  AnswerInv'
<1> SUFFICES ASSUME ~wasLocked', lines' = 0
             PROVE  AnswerInv'
  BY DEF AnswerInv
<1>0. ~HomingLine
  <2> SUFFICES ASSUME HomingLine PROVE FALSE
    OBVIOUS
  <2>1. pc = "execute" /\ UNCHANGED <<wasLocked, lines>> /\ Len(line) = 1 /\ line[1].text = "$H"
    BY DEF HomingLine, LineIs
  <2>2. Live
    BY <2>1 DEF Live
  <2>3. line = <<>> \/ line = <<Jog>>
    BY <2>1, <2>2 DEF IInv, AnswerInv, NotJogging, Unanswered, LineOnItsWay, LineExecuted,
                      Answered, Waiting, Types, ClientTypes
  <2> QED BY <2>1, <2>3, Tuples, Chars
<1>1. /\ pc = "execute" /\ pc' = "read" /\ line' = <<>> /\ answered' = Answers
      /\ UNCHANGED <<rxRing, clientVars, lines>>
  BY <1>0 DEF ExecuteLine, EmptyLine, BadLine, GcodeLine, UnlockLine, JogLine, JogRefused, Executed
<1>2. Jog' = Jog /\ End' = End
  BY <1>1 DEF Jog, End
<1>3. Live /\ Pending /\ Live'
  BY <1>1 DEF Live, Pending
<1>4. lineRing \in Seq(Item)
  BY DEF IInv, Types, ResponseTypes
<1>5. CASE Unanswered
  <2>1. Quiet /\ LineOnItsWay /\ asked > 0
    BY <1>1, <1>3, <1>5 DEF IInv, AnswerInv
  <2>2. line = <<Jog>> /\ rxRing \in {<<>>, <<End>>}
    BY <1>1, <2>1 DEF LineOnItsWay
  <2>3. Len(line) = 1 /\ line[1] = Jog /\ 1 \in DOMAIN line /\ line # <<>>
    BY <2>2, Tuples
  <2>4. Awaited(line)
    BY <1>5, <2>1, <2>3, Chars DEF Awaited, Unanswered
  <2>5. client' = "jog" /\ answered'
    BY <1>1, <1>5, <2>3, <2>4 DEF Answers, Unanswered
  <2>6. JogLine \/ JogRefused
    BY <1>0, <2>3, Chars DEF ExecuteLine, EmptyLine, BadLine, GcodeLine, UnlockLine, LineIs
  <2>7. LineExecuted'
    BY <1>1, <1>2, <2>2 DEF LineExecuted
  <2>8. Stuck(lineRing) \/ NoOk(lineRing)
    BY <2>1 DEF Quiet
  <2>9. fetched' # "ok"
    BY <1>1, <2>1 DEF Quiet
  <2>10. CASE JogLine
    <3>1. lineRing' = Put(lineRing, Ok) /\ state' = "JOG"
      BY <2>10 DEF JogLine, Executed
    <3>2. KeepsEnd(lineRing, lineRing') /\ AddsOk(lineRing, lineRing')
      BY <1>4, <3>1, FixedResponses, PutKeeps
    <3>3. Stuck(lineRing') \/ (NoneAfter(lineRing', {"ok"}, Ends) /\ NoOkEndOk(lineRing'))
      BY <2>8, <3>2, QuietRing DEF KeepsEnd, AddsOk
    <3>4. Answered'
      BY <2>7, <2>9, <3>1, <3>3 DEF Answered
    <3> QED BY <1>1, <2>5, <3>4 DEF AnswerInv, NotJogging, Unanswered
  <2>11. CASE JogRefused
    <3>1. lineRing' = Put(lineRing, Error)
      BY <2>11 DEF JogRefused, Executed
    <3>2. KeepsOk(lineRing, lineRing')
      BY <1>4, <3>1, FixedResponses, PutKeeps
    <3>3. Stuck(lineRing') \/ NoOk(lineRing')
      BY <2>8, <3>2 DEF KeepsOk
    <3>4. NoOk(lineRing') => NoneAfter(lineRing', {"ok"}, Ends) /\ NoOkEndOk(lineRing')
      BY QuietRing
    <3>5. Answered'
      BY <2>7, <2>9, <3>3, <3>4 DEF Answered, Quiet
    <3> QED BY <1>1, <2>5, <3>5 DEF AnswerInv, NotJogging, Unanswered
  <2> QED BY <2>6, <2>10, <2>11
<1>6. ASSUME LineExecuted
      PROVE  /\ LineExecuted' /\ ~Pending' /\ answered' = answered
             /\ lineRing' = Put(lineRing, Ok) /\ UNCHANGED state
  <2>1. line = <<>> /\ rxRing = <<>>
    BY <1>1, <1>6 DEF LineExecuted
  <2>2. ~Awaited(line) /\ Len(line) = 0
    BY <2>1, Tuples DEF Awaited
  <2>3. EmptyLine
    BY <1>0, <2>2 DEF ExecuteLine, BadLine, GcodeLine, UnlockLine, JogLine, JogRefused, LineIs
  <2> QED BY <1>1, <2>1, <2>2, <2>3 DEF LineExecuted, Pending, Answers, EmptyLine, Executed
<1>7. ASSUME lineRing' = Put(lineRing, Ok)
      PROVE  KeepsEnd(lineRing, lineRing') /\ AddsOk(lineRing, lineRing')
  BY <1>4, <1>7, FixedResponses, PutKeeps
<1>8. CASE client = "jog" /\ answered
  <2>1. Answered
    BY <1>1, <1>8 DEF IInv, AnswerInv
  <2>2. LineExecuted
    BY <1>3, <2>1 DEF Answered
  <2>3. /\ LineExecuted' /\ ~Pending' /\ answered' = answered
        /\ KeepsEnd(lineRing, lineRing') /\ AddsOk(lineRing, lineRing')
    BY <1>6, <1>7, <2>2
  <2>4. Answered'
    BY <1>1, <1>3, <2>1, <2>3 DEF Answered, KeepsEnd, AddsOk
  <2> QED BY <1>1, <1>8, <2>3, <2>4 DEF AnswerInv, NotJogging, Unanswered
<1>9. CASE client = "waitidle"
  <2>1. Waiting
    BY <1>1, <1>9 DEF IInv, AnswerInv
  <2>2. LineExecuted
    BY <1>3, <2>1 DEF Waiting
  <2>3. /\ LineExecuted' /\ ~Pending' /\ answered' = answered
        /\ KeepsEnd(lineRing, lineRing') /\ AddsOk(lineRing, lineRing')
    BY <1>6, <1>7, <2>2
  <2>4. Waiting'
    BY <1>1, <1>3, <2>1, <2>3 DEF Waiting, KeepsEnd, AddsOk
  <2> QED BY <1>1, <1>9, <2>4 DEF AnswerInv, NotJogging, Unanswered
<1>10. ~NotJogging /\ client # "locked"
  BY <1>1, <1>3 DEF IInv, AnswerInv
<1> QED BY <1>5, <1>8, <1>9, <1>10 DEF IInv, Types, ClientTypes, NotJogging, Unanswered

\* A response is fetched.
LEMMA AnswerFetch ==
    ASSUME IInv, Fetch
    PROVE  AnswerInv'
<1> SUFFICES ASSUME ~wasLocked', lines' = 0
             PROVE  AnswerInv'
  BY DEF AnswerInv
<1>1. /\ fetched = "none" /\ fetched' = Fetched /\ lineRing' = Taken
      /\ UNCHANGED <<mainVars, rxRing, client, asked, wasLocked, answered, lines>>
  BY DEF Fetch
<1>2. LineOnItsWay' = LineOnItsWay /\ LineExecuted' = LineExecuted /\ Live' = Live
      /\ Pending' = Pending
  BY <1>1 DEF LineOnItsWay, LineExecuted, Live, Pending, Jog, End
<1>3. CASE Fetched = "nothing"
  <2>1. lineRing' = lineRing /\ fetched' \notin {"ok"} \cup Ends
    BY <1>1, <1>3, FetchRing DEF IInv, Ends
  <2> QED BY <1>1, <1>2, <2>1 DEF IInv, AnswerInv, NotJogging, Unanswered, Quiet, Answered, Waiting
<1>4. CASE Fetched # "nothing"
  <2>1. /\ lineRing # <<>> /\ lineRing \in Seq(Item) /\ ~Stuck(lineRing)
        /\ fetched' = Head(lineRing).msg /\ lineRing' = Tail(lineRing)
    BY <1>1, <1>4, FetchRing DEF IInv, Types, ResponseTypes
  <2>2. /\ NoOk(lineRing) => NoOk(lineRing') /\ fetched' # "ok"
        /\ NoEnd(lineRing) => NoEnd(lineRing') /\ fetched' \notin Ends
        /\ NoneAfter(lineRing, Ends, {"ok"}) =>
             NoneAfter(lineRing', Ends, {"ok"}) /\ (fetched' \in Ends => NoOk(lineRing'))
        /\ NoneAfter(lineRing, {"ok"}, Ends) =>
             NoneAfter(lineRing', {"ok"}, Ends) /\ (fetched' = "ok" => NoEnd(lineRing'))
        /\ NoOkEndOk(lineRing) =>
             NoOkEndOk(lineRing') /\ (fetched' = "ok" => NoneAfter(lineRing', Ends, {"ok"}))
    BY <2>1, TailKeeps
  <2> QED BY <1>1, <1>2, <2>1, <2>2 DEF IInv, AnswerInv, NotJogging, Unanswered, Quiet, Answered, Waiting
<1> QED BY <1>3, <1>4

\* The response thread runs the state machine with what it has fetched.
LEMMA AnswerRespond ==
    ASSUME IInv, Respond
    PROVE  AnswerInv'
<1> SUFFICES ASSUME ~wasLocked', lines' = 0
             PROVE  AnswerInv'
  BY DEF AnswerInv
<1>1. /\ fetched # "none" /\ fetched' = "none" /\ client' = Target(fetched)
      /\ UNCHANGED <<pc, state, line, lineRing, lines>>
  BY DEF Respond
<1>2. ~(client = "ready" /\ client' = "locked")
  <2>1. ASSUME client = "ready" /\ client' = "locked" PROVE wasLocked'
    BY <2>1, ClientLine DEF Respond, EntryLocked, Texts, IInv
  <2> QED BY <2>1
<1>3. UNCHANGED <<rxRing, asked, wasLocked, answered, lost>>
  BY <1>2 DEF Respond, EntryInit, EntryWaitIdle, NoLine
<1>4. LineOnItsWay' = LineOnItsWay /\ LineExecuted' = LineExecuted /\ Live' = Live
      /\ Pending' = Pending
  BY <1>1, <1>3 DEF LineOnItsWay, LineExecuted, Live, Pending, Jog, End
<1>5. "none" \notin {"ok"} \cup Ends
  BY DEF Ends
<1>6. CASE NotJogging
  <2>1. NotJogging'
    BY <1>1, <1>2, <1>6 DEF NotJogging, Target
  <2> QED BY <1>1, <1>3, <1>4, <1>5, <1>6, <2>1
          DEF IInv, AnswerInv, NotJogging, Unanswered, Quiet, Live
<1>7. CASE Unanswered
  <2>1. client' = "jog"
    BY <1>1, <1>3, <1>7 DEF IInv, AnswerInv, Unanswered, Quiet, Target
  <2> QED BY <1>1, <1>3, <1>4, <1>5, <1>7, <2>1 DEF IInv, AnswerInv, NotJogging, Unanswered, Quiet
<1>8. CASE client = "jog" /\ answered /\ fetched # "ok"
  <2>1. client' = "jog"
    BY <1>1, <1>8 DEF Target
  <2> QED BY <1>1, <1>3, <1>4, <1>5, <1>8, <2>1
          DEF IInv, AnswerInv, NotJogging, Unanswered, Quiet, Answered
<1>9. CASE client = "jog" /\ answered /\ fetched = "ok"
  <2>1. client' = "waitidle"
    BY <1>1, <1>9 DEF Target
  <2> QED BY <1>1, <1>3, <1>4, <1>5, <1>9, <2>1
          DEF IInv, AnswerInv, NotJogging, Unanswered, Quiet, Answered, Waiting
<1>10. CASE client = "waitidle" /\ fetched \notin Ends
  <2>1. client' = "waitidle"
    BY <1>1, <1>10 DEF Target, Ends
  <2> QED BY <1>1, <1>3, <1>4, <1>5, <1>10, <2>1
          DEF IInv, AnswerInv, NotJogging, Unanswered, Waiting
<1>11. CASE client = "waitidle" /\ fetched \in Ends
  <2>1. NotJogging'
    BY <1>1, <1>11 DEF Target, Ends, NotJogging
  <2>2. Waiting /\ ~Pending
    BY <1>1, <1>3, <1>11 DEF IInv, AnswerInv, Waiting
  <2>3. pc # "homing" /\ (Live => rxRing = <<>> /\ line = <<>> /\ pc # "execute")
    BY <1>1, <1>3, <2>2 DEF IInv, AnswerInv, Waiting, Pending, LineExecuted
  <2> QED BY <1>1, <1>3, <1>4, <1>5, <1>11, <2>1, <2>2, <2>3
          DEF AnswerInv, NotJogging, Unanswered, Quiet, Waiting
<1>12. client # "locked"
  BY <1>1, <1>3 DEF IInv, AnswerInv
<1> QED BY <1>6, <1>7, <1>8, <1>9, <1>10, <1>11, <1>12
        DEF IInv, Types, ClientTypes, NotJogging, Unanswered

\* The user presses a jog button.
LEMMA AnswerPress ==
    ASSUME IInv, PressJog
    PROVE  AnswerInv'
<1> SUFFICES ASSUME ~wasLocked', lines' = 0
             PROVE  AnswerInv'
  BY DEF AnswerInv
<1>1. UNCHANGED <<pc, state, line, lineRing, lines, fetched>>
  BY DEF PressJog
<1>2. CASE client = "waitidle"
  <2>1. UNCHANGED <<client, rxRing, asked, wasLocked, answered>>
    BY <1>2 DEF PressJog, EntryWaitIdle, NoLine
  <2> QED BY <1>1, <2>1 DEF IInv, AnswerInv, NotJogging, Unanswered, Quiet, Live, Pending,
             LineOnItsWay, LineExecuted, Answered, Waiting, Jog, End
<1>3. CASE client = "ready" /\ client' = "jog" /\ EntryJog
  <2> DEFINE c == [text |-> "$J", of |-> asked']
             e == EndOfLine(asked')
  <2>1. /\ asked' = asked + 1 /\ ~answered' /\ (wasLocked' <=> wasLocked)
        /\ rxRing = <<>> => rxRing' \in {<<>>, <<c>>, <<c, e>>, <<c, e, e>>}
    BY <1>3, ClientLine DEF EntryJog, Texts, IInv
  <2>2. asked' > 0
    <3>1. asked \in Nat
      BY DEF IInv, Types, ClientTypes
    <3> QED BY <2>1, <3>1
  <2>3. Jog' = c /\ End' = e
    BY DEF Jog, End
  <2> HIDE DEF c, e
  <2>4. Quiet /\ pc # "homing" /\ (Live => rxRing = <<>> /\ line = <<>> /\ pc # "execute")
    BY <1>1, <1>3, <2>1 DEF IInv, AnswerInv, NotJogging
  <2>5. Live' => LineOnItsWay'
    BY <1>1, <2>1, <2>3, <2>4 DEF Live, LineOnItsWay
  <2>6. Quiet'
    BY <1>1, <2>4 DEF Quiet
  <2> QED BY <1>1, <1>3, <2>1, <2>2, <2>4, <2>5, <2>6 DEF AnswerInv, NotJogging, Unanswered
<1> QED BY <1>2, <1>3 DEF PressJog

LEMMA AnswerNext ==
    ASSUME IInv, [Next]_vars
    PROVE  AnswerInv'
<1>1. CASE SerialInit \/ ClearFlags
  <2>1. CASE SerialInit
    BY <2>1 DEF SerialInit, IInv, InputInv, AnswerInv, NotJogging, Unanswered, Quiet, Live, Pending,
             LineOnItsWay, LineExecuted, Answered, Waiting, Jog, End
  <2>2. CASE ClearFlags
    BY <2>2, AnswerKept DEF ClearFlags, IInv
  <2> QED BY <1>1, <2>1, <2>2
<1>2. CASE ResetSystems \/ Welcome
  BY <1>2, AnswerWiped, AnswerWelcome
<1>3. CASE ReadText \/ ReadEol \/ NothingToRead \/ ExecuteLine
  BY <1>3, AnswerReadText, AnswerReadEol, AnswerPoll, AnswerExecute
<1>4. CASE StepperDone
  BY <1>4, AnswerKept DEF StepperDone, IInv
<1>5. CASE Fetch \/ Respond \/ PressJog
  BY <1>5, AnswerFetch, AnswerRespond, AnswerPress
<1>6. CASE HostCommand
  BY <1>6, AnswerKept DEF HostCommand, IInv
<1>7. CASE HostText
  <2>1. lines' # 0
    <3>1. lines' = lines + 1 /\ lines \in Nat
      BY <1>7 DEF HostText, IInv, Types, InputTypes
    <3> QED BY <3>1
  <2> QED BY <2>1 DEF AnswerInv
<1>8. CASE HostEol
  <2>1. lines' # 0
    BY <1>8 DEF HostEol, IInv, InputInv
  <2> QED BY <2>1 DEF AnswerInv
<1>9. CASE UNCHANGED vars
  BY <1>9, AnswerKept DEF vars, IInv
<1>10. CASE HomingDone \/ HomingFails
  BY <1>10 DEF HomingDone, HomingFails, IInv, AnswerInv
<1> QED BY <1>1, <1>2, <1>3, <1>4, <1>5, <1>6, <1>7, <1>8, <1>9, <1>10 DEF Next, Main

\* JogWaitsForAnswer: as long as the client has never sent $X, so that the
\* machine has not locked itself, and no other host has sent a line, the client
\* asks for the end of a jog only after the main thread has answered the jog,
\* whatever resets, status requests and presses come between the steps of both
\* threads (grblState.cc, waitidle).  After a $X or a host's line an "ok" that
\* belongs to neither jog nor client may be taken for the answer.
THEOREM JogAnswered == Spec => []JogWaitsForAnswer
<1>1. Init => IInv
  <2>1. Init => InputInv
    BY DEF Init, InputInv
  <2>2. Init => AnswerInv
    BY DEF Init, AnswerInv, NotJogging, Unanswered, Quiet, NoOk, Live
  <2> QED BY <2>1, <2>2, TypesInit DEF IInv
<1>2. IInv /\ [Next]_vars => IInv'
  BY TypesNext, InputInvNext, AnswerNext DEF IInv
<1>3. IInv => JogWaitsForAnswer
  BY DEF IInv, AnswerInv, Waiting, JogWaitsForAnswer
<1> QED BY <1>1, <1>2, <1>3, PTL DEF Spec
-----------------------------------------------------------------------------
(* What a response must be like for the queue never to block: the words that *)
(* serial_write() computes for it are no more than serial_get_tx_line() can  *)
(* take at once.                                                             *)

ResponsesFit ==
    \A len \in {2, 4, 9, 20, 25, 26, 27} \cup StatusLengths : Words(len) <= LineBuffer \div 4

AllFit(q) == \A i \in DOMAIN q : Fits(q[i])

\* The client can always fetch the response it is to get next.
NeverStuck == ~Stuck(lineRing)

LEMMA PutFits ==
    ASSUME NEW q \in Seq(Item), AllFit(q), NEW item \in Item, Fits(item), NEW said \in BOOLEAN
    PROVE  LET r == PutIf(said, q, item)
           IN  r \in Seq(Item) /\ AllFit(r) /\ Put(q, item) \in Seq(Item) /\ AllFit(Put(q, item))
<1>1. AllFit(Append(q, item))
  BY DEF AllFit
<1>2. Put(q, item) \in Seq(Item) /\ AllFit(Put(q, item))
  BY <1>1, PutCases, PutType
<1> QED BY <1>2 DEF PutIf

LEMMA FixedFit ==
    ASSUME ResponsesFit
    PROVE  \A r \in {Response("blank", 2), Response("Grbl", 26), Response("limits", 20),
                     Response("locked", 27), Response("ALARM", 9), Response("unlocked", 25), Ok, Error} :
             r \in Item /\ Fits(r)
<1>1. \A msg, len : Response(msg, len).len = len
  BY DEF Response
<1> QED BY <1>1, FixedResponses DEF Fits, ResponsesFit, Ok, Error

LEMMA StatusFits ==
    ASSUME ResponsesFit, NEW s \in {"IDLE", "JOG", "CYCLE", "ALARM", "HOMING"}, NEW len \in StatusLengths
    PROVE  Response(StatusMessage[s], len) \in Item /\ Fits(Response(StatusMessage[s], len))
<1>1. len \in 1 .. LineBuffer
  BY MachineClientAssumption
<1>2. Response(StatusMessage[s], len).len = len
  BY DEF Response
<1> QED BY <1>1, <1>2, StatusType, ResponseType DEF Fits, ResponsesFit

LEMMA ExecRtFits ==
    ASSUME ResponsesFit, Types, AllFit(lineRing), NEW next, NEW cycleStart \in BOOLEAN,
           ExecRtSystem(next, cycleStart)
    PROVE  AllFit(lineRing')
<1> DEFINE s == IF alarm THEN "ALARM" ELSE state
           said == PutIf(alarm, lineRing, Response("ALARM", 9))
<1>1. said \in Seq(Item) /\ AllFit(said)
  BY FixedFit, PutFits DEF Types, MainTypes, ResponseTypes
<1>2. s \in {"IDLE", "JOG", "CYCLE", "ALARM", "HOMING"}
  BY DEF Types, MainTypes, ResponseTypes
<1>3. \/ lineRing' = said
      \/ \E len \in StatusLengths :
           lineRing' = PutIf("STATUS" \in flags, said, Response(StatusMessage[s], len))
  BY DEF ExecRtSystem
<1> HIDE DEF s, said
<1>4. ASSUME NEW len \in StatusLengths,
             lineRing' = PutIf("STATUS" \in flags, said, Response(StatusMessage[s], len))
      PROVE  AllFit(lineRing')
  <2> DEFINE item == Response(StatusMessage[s], len)
  <2>1. item \in Item /\ Fits(item)
    BY <1>2, StatusFits
  <2>2. lineRing' \in {said, Put(said, item)}
    BY <1>4 DEF PutIf
  <2> HIDE DEF item
  <2> QED BY <1>1, <2>1, <2>2, PutFits
<1> QED BY <1>1, <1>3, <1>4

LEMMA FitsNext ==
    ASSUME ResponsesFit, Types, AllFit(lineRing), [Next]_vars
    PROVE  AllFit(lineRing')
<1>1. CASE Welcome
  <2> DEFINE a == Put(lineRing, Response("blank", 2))
             b == Greeted
  <2>1. a \in Seq(Item) /\ AllFit(a)
    BY FixedFit, PutFits DEF Types, MainTypes, ResponseTypes
  <2>2. PICK onSwitch \in BOOLEAN :
          lineRing' = PutIf(onSwitch \/ state = "ALARM",
                            PutIf(onSwitch, b, Response("limits", 20)), Response("locked", 27))
    BY <1>1, MachineClientAssumption DEF Welcome
  <2> DEFINE c == PutIf(onSwitch, b, Response("limits", 20))
             locks == onSwitch \/ state = "ALARM"
  <2>3. b = Put(a, Response("Grbl", 26))
    BY DEF Greeted
  <2>4. lineRing' = PutIf(locks, c, Response("locked", 27)) /\ locks \in BOOLEAN
    BY <2>2
  <2> HIDE DEF a, b, locks
  <2>5. b \in Seq(Item) /\ AllFit(b)
    BY <2>1, <2>3, FixedFit, PutFits
  <2>6. c \in Seq(Item) /\ AllFit(c)
    BY <2>5, FixedFit, PutFits
  <2> HIDE DEF c
  <2> QED BY <2>4, <2>6, FixedFit, PutFits
<1>2. CASE ReadEol \/ NothingToRead
  <2>2. ExecRtSystem("execute", FALSE) \/ ExecRtSystem("read", waiting)
    BY <1>2 DEF ReadEol, NothingToRead
  <2>3. waiting \in BOOLEAN
    BY DEF Types, MainTypes, ResponseTypes
  <2> QED BY <2>2, <2>3, ExecRtFits
<1>3. CASE ExecuteLine
  <2> DEFINE u == PutIf(state = "ALARM", lineRing, Response("unlocked", 25))
  <2>1. u \in Seq(Item) /\ AllFit(u)
    BY FixedFit, PutFits DEF Types, MainTypes, ResponseTypes
  <2>2. lineRing' \in {lineRing, Put(lineRing, Ok), Put(lineRing, Error), Put(u, Ok)}
    BY <1>3 DEF ExecuteLine, EmptyLine, BadLine, GcodeLine, UnlockLine, JogLine, JogRefused,
                HomingLine, Executed
  <2> HIDE DEF u
  <2> QED BY <2>1, <2>2, FixedFit, PutFits DEF Types, MainTypes, ResponseTypes
<1>4. CASE Fetch
  <2>1. lineRing' = lineRing \/ (lineRing # <<>> /\ lineRing' = Tail(lineRing))
    BY <1>4 DEF Fetch, Taken
  <2>2. lineRing # <<>> =>
          \A i \in DOMAIN Tail(lineRing) :
            i + 1 \in DOMAIN lineRing /\ Tail(lineRing)[i] = lineRing[i + 1]
    BY DEF Types, MainTypes, ResponseTypes
  <2> QED BY <2>1, <2>2 DEF AllFit
<1>5. CASE \/ SerialInit \/ ClearFlags \/ ResetSystems \/ ReadText \/ StepperDone \/ Respond
           \/ PressJog \/ HostCommand \/ HostText \/ HostEol \/ UNCHANGED vars
  <2>1. lineRing' = lineRing
    BY <1>5 DEF SerialInit, ClearFlags, ResetSystems, ReadText, StepperDone, Respond, PressJog,
                HostCommand, HostText, HostEol, vars
  <2> QED BY <2>1
<1>6. CASE HomingDone
  <2>1. PICK len \in StatusLengths :
          lineRing' = Put(PutIf("STATUS" \in flags, lineRing, Response("<HOME", len)), Ok)
    BY <1>6 DEF HomingDone
  <2> DEFINE h == PutIf("STATUS" \in flags, lineRing, Response("<HOME", len))
  <2>2. Response("<HOME", len) \in Item /\ Fits(Response("<HOME", len))
    BY StatusFits DEF StatusMessage
  <2>3. h \in Seq(Item) /\ AllFit(h)
    BY <2>2, PutFits DEF PutIf, Types, ResponseTypes
  <2> HIDE DEF h
  <2> QED BY <2>1, <2>3, FixedFit, PutFits DEF h
<1>7. CASE HomingFails
  <2>1. Put(lineRing, Response("ALARM", 9)) \in Seq(Item) /\ AllFit(Put(lineRing, Response("ALARM", 9)))
    BY FixedFit, PutFits DEF Types, ResponseTypes
  <2> QED BY <1>7, <2>1, FixedFit, PutFits DEF HomingFails
<1> QED BY <1>1, <1>2, <1>3, <1>4, <1>5, <1>6, <1>7 DEF Next, Main

\* Unless a response takes more words than the client's buffer has, as a status
\* report of 75 characters does (WaitEnds, run long_status), no response blocks
\* the queue, whatever the sizes of the rings and whatever is dropped
\* (serial_write(), serial_get_tx_line()).
THEOREM QueueNeverStuck == ResponsesFit => (Spec => []NeverStuck)
<1> SUFFICES ASSUME ResponsesFit PROVE Spec => []NeverStuck OBVIOUS
<1>1. Init => AllFit(lineRing)
  BY DEF Init, AllFit
<1>2. TypeOK /\ AllFit(lineRing) /\ [Next]_vars => AllFit(lineRing)'
  <2>1. ASSUME TypeOK, AllFit(lineRing), [Next]_vars PROVE AllFit(lineRing')
    BY <2>1, TypesAre, FitsNext
  <2> QED BY <2>1 DEF AllFit
<1>3. AllFit(lineRing) /\ TypeOK => NeverStuck
  BY TypesAre DEF AllFit, NeverStuck, Stuck, Types, ResponseTypes
<1> QED BY <1>1, <1>2, <1>3, TypeCorrect, PTL DEF Spec
============================================================================
