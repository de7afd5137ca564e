--------------------------- MODULE TimerCallback ---------------------------
(***************************************************************************)
(* What the hardware timer driver promises to whoever registers a callback *)
(* (modules/hw_timer): the callback runs once for an update of the timer   *)
(* that came after its registration, never for an older one and never      *)
(* after it has been removed; and an update that came is served.  Updates  *)
(* that come while a registration is under way may be dropped, updates     *)
(* that come faster than they are served are served together.              *)
(***************************************************************************)
CONSTANTS Callbacks, NoCallback

VARIABLES
    callback,   \* the registered callback
    settling,   \* its registration is under way
    due,        \* an update has come and has not been served
    beat        \* changes with every run of the callback

vars == <<callback, settling, due, beat>>

Init == callback = NoCallback /\ settling = FALSE /\ due = FALSE /\ beat = FALSE

Register(c) ==
    /\ callback' = c /\ settling' = TRUE
    /\ due' = (due /\ callback # NoCallback)
    /\ UNCHANGED beat

Settle == settling /\ settling' = FALSE /\ due' = FALSE /\ UNCHANGED <<callback, beat>>

Remove == callback' = NoCallback /\ due' = FALSE /\ UNCHANGED <<settling, beat>>

Update == callback # NoCallback /\ due' = TRUE /\ UNCHANGED <<callback, settling, beat>>

\* The callback runs; it may remove itself.
Call ==
    /\ callback # NoCallback /\ due /\ due' = FALSE
    /\ beat' = ~beat
    /\ callback' \in {callback, NoCallback}
    /\ UNCHANGED settling

Next == Settle \/ Remove \/ Update \/ Call \/ \E c \in Callbacks : Register(c)

Spec == Init /\ [][Next]_vars /\ WF_vars(Call)
=============================================================================
