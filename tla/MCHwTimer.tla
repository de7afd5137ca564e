----------------------------- MODULE MCHwTimer -----------------------------
(* The calls of the driver that are tried: one output and its complementary *)
(* one, the boundaries of a period, and one call in nanoseconds.            *)
EXTENDS HwTimer

Call(complementary, inverted, period, pulse) ==
    [channel |-> 1, complementary |-> complementary, inverted |-> inverted,
     period |-> period, pulse |-> pulse]

MCCalls ==
    {Call(FALSE, FALSE, CounterMax + 1, CounterMax + 1),
     Call(FALSE, FALSE, CounterMax + 2, 2),     \* too long
     Call(FALSE, FALSE, 2, 3),                  \* pulse longer than the period
     Call(TRUE, FALSE, 1, 1),
     Call(FALSE, FALSE, 0, 0),
     Call(TRUE, TRUE, 5, 3),
     Call(FALSE, TRUE, 3, 0),
     [Call(FALSE, FALSE, 5, 3) EXCEPT !.channel = 0]}

MCNsecCalls == {Call(FALSE, TRUE, 7, 2)}
=============================================================================
