----------------------------- MODULE PnlAnalysis -----------------------------
(***************************************************************************)
(* get_pnl_analysis: the unrealized P&L of one account at average cost,    *)
(* and a best-effort second request for what its trades have realized.     *)
(* Amounts are integers; the percentages are left out.                     *)
(***************************************************************************)
EXTENDS InputWindows, Sequences, Functions

CONSTANTS
  Quantities,    \* net quantities: longQuantity less shortQuantity
  Averages,      \* average prices
  WorthNow,      \* market values, a field of their own; a missing or junk one counts as 0
  NetAmounts,    \* net cash of trades
  MaxPriced,     \* bound: positions in the account
  MaxTrades      \* bound: trades in the look-back window

ASSUME PnlAssumption ==
  /\ Quantities \subseteq Int
  /\ Averages \subseteq Nat
  /\ WorthNow \subseteq Int
  /\ NetAmounts \subseteq Int
  /\ MaxPriced \in Nat
  /\ MaxTrades \in Nat

VARIABLES
  pnlStep,     \* where the call is
  lookback,    \* realized_lookback_days
  unrealized,  \* total_unrealized_pl
  realized,    \* realized_pl and whether it is available
  pnlWindow,   \* the window of the second request
  pnlAnswer    \* how the tool ended

pnlVars ==
  <<pnlStep, lookback, unrealized, realized, pnlWindow, pnlAnswer>>

PricedPosition == [quantity: Quantities, average: Averages, market: WorthNow]
UpTo(S, n) == UNION {[1..k -> S] : k \in 0..n}

PnlInit ==
  /\ pnlStep = "arguments"
  /\ lookback = 0
  /\ unrealized = 0
  /\ realized = [available |-> FALSE, amount |-> 0]
  /\ pnlWindow = NoWindow
  /\ pnlAnswer = "none"

TotalOver(op(_), seq) == SumFunction([i \in DOMAIN seq |-> op(seq[i])])

AbsQuantity(q) == IF q < 0 THEN -q ELSE q

MarketValue(p) == p.market

\* Positive for a short, too.
CostBasis(p) == AbsQuantity(p.quantity) * p.average

PnlEnd(result) ==
  /\ pnlStep' = "done"
  /\ pnlAnswer' = result

\* The look-back is checked before anything is asked of Schwab.
CheckLookback ==
  /\ pnlStep = "arguments"
  /\ \E days \in 0..Cap + 1 :
       \/ /\ LookbackAccepted(days)
          /\ lookback' = days
          /\ pnlStep' = "account"
          /\ UNCHANGED pnlAnswer
       \/ /\ ~LookbackAccepted(days)
          /\ PnlEnd("rejected")
          /\ UNCHANGED lookback
  /\ UNCHANGED <<unrealized, realized, pnlWindow>>

\* The positions, and the totals over them.
FetchPositions ==
  /\ pnlStep = "account"
  /\ \E positions \in UpTo(PricedPosition, MaxPriced) :
       unrealized' = TotalOver(MarketValue, positions) - TotalOver(CostBasis, positions)
  /\ pnlStep' = "transactions"
  /\ UNCHANGED <<lookback, realized, pnlWindow, pnlAnswer>>

\* An HTTP error is answered; anything else, a body of another shape too, raises.
FetchPositionsFails ==
  /\ pnlStep = "account"
  /\ \E result \in {"error", "raised"} : PnlEnd(result)
  /\ UNCHANGED <<lookback, unrealized, realized, pnlWindow>>

\* The window is made when the second request is, of the day it is then.
AskTransactions ==
  pnlWindow' = [from |-> StartOfDay(DayOf(moment) - lookback),
                to |-> EndOfDay(DayOf(moment)), at |-> moment]

\* _derive_realized_pl: every trade that brought in cash counts as a
\* closing sale, one that opens a short too.
FetchTransactions ==
  /\ pnlStep = "transactions"
  /\ \E trades \in UpTo(NetAmounts, MaxTrades) :
       realized' = [available |-> TRUE,
         amount |-> TotalOver(LAMBDA net : IF net > 0 THEN net ELSE 0, trades)]
  /\ AskTransactions
  /\ PnlEnd("ok")
  /\ UNCHANGED <<lookback, unrealized>>

\* An HTTP error leaves the realized part out ...
TransactionsError ==
  /\ pnlStep = "transactions"
  /\ AskTransactions
  /\ PnlEnd("ok_without_realized")
  /\ UNCHANGED <<lookback, unrealized, realized>>

\* ... and anything else, a client that is gone before it too, raises out of
\* the tool.
TransactionsRaise ==
  /\ pnlStep = "transactions"
  /\ AskTransactions \/ UNCHANGED pnlWindow
  /\ PnlEnd("raised")
  /\ UNCHANGED <<lookback, unrealized, realized>>

PnlNext ==
  \/ CheckLookback
  \/ FetchPositions
  \/ FetchPositionsFails
  \/ FetchTransactions
  \/ TransactionsError
  \/ TransactionsRaise

-----------------------------------------------------------------------------

\* models.py: the look-back is clamped so that "the derived call stays inside the
\* same boundary as get_transactions".  It does, whatever midnight passes between
\* the check and the request: get_transactions would accept, at the moment of the
\* request, the dates of the window, which covers today and the days looked back.
PnlWindowAllowed ==
  pnlWindow # NoWindow =>
    /\ DayOf(pnlWindow.from) >= DayOf(pnlWindow.at - Cap * Day)
    /\ DayOf(pnlWindow.to) = DayOf(pnlWindow.at)
    /\ pnlWindow.to - pnlWindow.from + 1 = (lookback + 1) * Day
=============================================================================
