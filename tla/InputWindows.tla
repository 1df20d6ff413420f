---------------------------- MODULE InputWindows ----------------------------
(***************************************************************************)
(* models.py: the look-back windows the tools accept, and the clock they   *)
(* are compared with.  Schwab caps them at 60 days, here Cap days; all     *)
(* times are UTC, in units of which a day has Day.  An argument is checked *)
(* once, when it is validated; the clock goes on until the request.        *)
(***************************************************************************)
EXTENDS Integers

CONSTANTS
  Day,        \* units in a day
  Cap,        \* days the history may look back: 60
  MaxMoment   \* bound of the clock, no earlier than any moment a call comes at

ASSUME WindowAssumption ==
  /\ Day \in Nat \ {0}
  /\ Cap \in Nat \ {0}
  /\ MaxMoment \in Nat
  /\ Cap * Day + Day - 1 <= MaxMoment

VARIABLE moment  \* now

\* A call comes at any time of a day of which the cap looks back to day 0.
ClockInit == moment \in Cap * Day .. Cap * Day + Day - 1

MomentPasses ==
  /\ moment < MaxMoment
  /\ moment' = moment + 1

DayOf(t) == t \div Day
StartOfDay(d) == d * Day
EndOfDay(d) == d * Day + Day - 1

\* No request has been sent; a window that was sent has the moment it was.
NoWindow == [from |-> 0, to |-> 0, at |-> -1]
Window == [from : Int, to : Int, at : Int]

\* get_orders_history: the upper bound is not compared with the lower one.
OrdersAccepted(from, to) == from >= moment - Cap * Day

\* A fault: the look-back is not capped.
TransactionsAcceptedUncapped(start, end) == end >= start

\* get_transactions: dates, compared with the date of the cutoff.
TransactionsAccepted(start, end) ==
  /\ start >= DayOf(moment - Cap * Day)
  /\ end >= start

\* A fault: the upper bound of the field is gone.
LookbackUncapped(days) == days >= 1

\* get_pnl_analysis: realized_lookback_days
LookbackAccepted(days) == days \in 1..Cap
=============================================================================
